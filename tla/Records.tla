-------------------------------- MODULE Records --------------------------------
(***************************************************************************)
(* The semantic records of one store: Assertions and the Revisions between *)
(* them, the grants and authorization uses that prove who might change     *)
(* what, supersedes relations, the journal of qualification transitions    *)
(* and the knowledge projections promoted from them (records/revision,     *)
(* lifecycle, qualification_transition, knowledge; protocol/validation;    *)
(* the record operations of stores/memory and stores/sqlite).              *)
(*                                                                         *)
(* The store is one value db.  Every operation that ends in a graph-       *)
(* validated write is accepted when the store it would leave, a candidate, *)
(* passes ValidGraph.  Callers run concurrently: each holds at most one    *)
(* operation, with the copies it read, and a step ends where the code      *)
(* leaves the store's lock or transaction.  A refused operation raises and *)
(* leaves the store as it was.                                             *)
(*                                                                         *)
(* A Revision's proposal (its endpoints) never changes, so it is a         *)
(* constant.  Evidence, derivations and the relations that bind a          *)
(* projection's assertions to its judgments are written once beforehand    *)
(* and left out; the projections here have them.                           *)
(***************************************************************************)
EXTENDS Authorization, FiniteSets, Sequences

CONSTANTS
    Facts,          \* ids of Assertion records
    Revisions,      \* ids of Revision records
    Grants,         \* ids of AuthorizationGrants
    Projections,    \* ids of KnowledgeProjections
    Callers,
    Roles,          \* the kinds of operation each caller performs
    Edited,         \* Assertions whose content callers rewrite
    Texts,          \* what an Assertion may say
    Opinions,       \* epistemic statuses in use; "supported" is one
    OldOf, NewOf,   \* revises_ref and produces_ref of each Revision
    BornAs,         \* lifecycle status each Assertion is created with
    FirstText,      \* what each Assertion says when it is created
    Terms,          \* what each grant is issued for
    AssertionsOf, JudgmentsOf, GrantOf, PromoterOf,   \* the references of each projection
    AlsoCites,      \* its other references: counterexamples, scope versions
    Promotable,     \* projections that pass _is_promotable
    Refuted,        \* projections marked refuted, withdrawn or superseded
    SqliteBackend,  \* which of the two stores this is
    Revocable,      \* grants whose issuer may revoke them
    Given,          \* Assertions and grants the initial store already holds
    None,
    Horizon,        \* bound: the clock
    MaxVersion,     \* bound: record versions
    MaxUses,        \* bound: authorization uses
    MaxOps          \* bound: operations the callers begin

Records == Facts \cup Revisions

\* The lifecycle state machines.
AssertionNext == [l \in {"draft", "current", "superseded", "archived"} |->
    CASE l = "draft" -> {"current", "archived"}
      [] l = "current" -> {"superseded", "archived"}
      [] l = "superseded" -> {"archived"}
      [] l = "archived" -> {}]
RevisionNext == [l \in {"proposed", "authorized", "applied", "verified", "accepted",
                        "rejected", "rolled-back", "archived"} |->
    CASE l = "proposed" -> {"authorized", "rejected", "archived"}
      [] l = "authorized" -> {"applied", "rejected"}
      [] l = "applied" -> {"verified", "rolled-back"}
      [] l = "verified" -> {"accepted", "rejected", "rolled-back"}
      [] OTHER -> {}]

EpistemicStatus == {"unverified", "supported", "contested", "refuted", "unknown", "revalidation-required"}

ASSUME RecordsAssumption ==
    /\ Facts \cap Revisions = {}
    /\ OldOf \in [Revisions -> Facts] /\ NewOf \in [Revisions -> Facts]
    /\ \A r \in Revisions: OldOf[r] # NewOf[r]
    /\ BornAs \in [Facts -> {"draft", "current"}]
    /\ AssertionsOf \in [Projections -> SUBSET Facts]
    /\ JudgmentsOf \in [Projections -> SUBSET Facts]
    /\ GrantOf \in [Projections -> Grants]
    /\ AlsoCites \in [Projections -> SUBSET Records]
    /\ Promotable \cap Refuted = {}
    /\ "supported" \in Opinions /\ Opinions \subseteq EpistemicStatus /\ FirstText \in Texts
    /\ Given \subseteq Facts \cup Grants /\ Revocable \subseteq Grants /\ Edited \subseteq Facts
    /\ Roles \in [Callers -> SUBSET {"fact", "revision", "apply", "supersede", "consolidate", "rely"}]
    /\ SqliteBackend \in BOOLEAN
    /\ {Horizon, MaxVersion, MaxUses, MaxOps} \subseteq Nat /\ Horizon < Never /\ MaxVersion >= 1

VARIABLES
    db,     \* the store
    now,    \* the clock
    op,     \* per caller: the operation in progress and what it has read
    begun,  \* how many operations the callers began
    spent,  \* history: the uses some change of an Assertion's content rested on
    rewound \* history: the Assertions whose version some write set back

vars == <<db, now, op, begun, spent, rewound>>

NoFact == [life |-> "absent", epi |-> None, text |-> None, ver |-> 0, use |-> None, via |-> None]
NoRevision == [life |-> "absent", ver |-> 0, use |-> None]
NoGrant == [stored |-> FALSE]
Idle == [kind |-> "idle"]

Effective == {"applied", "verified", "accepted"}
Inactive == {"superseded", "archived"}

ValidLifecycleTransition(machine, from, to) == to = from \/ to \in machine[from]

(***************************************************************************)
(* Requests.                                                               *)
(***************************************************************************)

\* apply_revision: the subject of a revision is the record it revises.
ApplyRequest(actor, r, v) ==
    [capability |-> <<"revision", "apply">>, actor |-> actor, resource |-> OldOf[r],
     effect |-> "write-local", versions |-> {BareId(r), VersionRef(r, v)}]

WriteRequest(actor, x, v) ==
    [capability |-> <<"record", "write">>, actor |-> actor, resource |-> x,
     effect |-> "write-local", versions |-> {VersionRef(x, v)}]

PromoteRequest(p) ==
    [capability |-> <<"knowledge", "promote">>, actor |-> PromoterOf[p], resource |-> p,
     effect |-> "write-local", versions |-> {BareId(p), VersionRef(p, 1)}]

(***************************************************************************)
(* validate_state_graph, on a store d at time t.                           *)
(***************************************************************************)

\* The ids a store holds, and the ones its objects cite.  A Revision that is
\* only proposed, or rejected, may name records that are not there.
Stored(d) ==
    {x \in Facts : d.fact[x].life # "absent"} \cup {r \in Revisions : d.rev[r].life # "absent"}
    \cup {g \in Grants : d.grant[g].stored}

Cited(d) ==
    UNION {{s.new, s.old, s.via} : s \in d.rel}
    \cup {u.grant : u \in d.uses}
    \cup UNION {{OldOf[r], NewOf[r]} :
                  r \in {q \in Revisions : d.rev[q].life \notin {"absent", "proposed", "rejected"}}}
    \cup UNION {AssertionsOf[p] \cup JudgmentsOf[p] \cup AlsoCites[p] \cup {GrantOf[p]} :
                  p \in {q \in Projections : d.proj[q] # "absent"}}

RefsResolve(d) == Cited(d) \subseteq Stored(d)

EdgesResolve(d) == \A s \in d.rel: d.fact[s.new].life # "absent" /\ d.fact[s.old].life # "absent"

\* A grant names the versions it is for.
GrantsBound(d) == \A g \in Grants: d.grant[g].stored => d.grant[g].versions # {}

\* A use is judged at the time it was made, against the grant as stored now.
UsesProven(d) ==
    \A u \in d.uses:
        /\ d.grant[u.grant].stored
        /\ GrantValid(d.grant[u.grant], u.at)
        /\ IsAuthorizedFor(u.request, d.grant[u.grant], u.at)

\* The proof of an effective Revision rec: its use, re-judged for the version
\* the Revision has now.
RevisionProof(d, r, rec) ==
    /\ rec.use # None /\ rec.use \in d.uses
    /\ LET u == rec.use
           g == d.grant[u.grant]
           request == ApplyRequest(u.request.actor, r, rec.ver) IN
       /\ g.stored /\ GrantValid(g, u.at)
       /\ request.versions \cap g.versions # {}
       /\ request.versions \cap u.request.versions # {}
       /\ [u.request EXCEPT !.versions = request.versions] = request
       /\ IsAuthorizedFor(request, g, u.at)

RevisionsProven(d) ==
    \A r \in Revisions: d.rev[r].life \in Effective \cup {"authorized"} => RevisionProof(d, r, d.rev[r])

EndpointsExist(d) ==
    \A r \in Revisions: d.rev[r].life \notin {"absent", "proposed", "rejected"} =>
        d.fact[OldOf[r]].life # "absent" /\ d.fact[NewOf[r]].life # "absent"

\* Faulty: a relation is not tied to the standing of its Revision.
SupersedesUnproven(d) == \A s \in d.rel: NewOf[s.via] = s.new /\ OldOf[s.via] = s.old

SupersedesProven(d) ==
    \A s \in d.rel:
        /\ d.rev[s.via].life \in Effective
        /\ NewOf[s.via] = s.new /\ OldOf[s.via] = s.old
        /\ RevisionProof(d, s.via, d.rev[s.via])

OneActiveSuperseder(d) ==
    \A s1, s2 \in d.rel:
        s1.old = s2.old /\ d.fact[s1.new].life \notin Inactive /\ d.fact[s2.new].life \notin Inactive
            => s1.new = s2.new

\* Supersedes edges form no cycle: no set of records has all its members
\* supersede one another.
LineageAcyclic(d) ==
    \A S \in (SUBSET Facts) \ {{}}: \E x \in S: \A s \in d.rel: ~(s.new = x /\ s.old \in S)

\* An official projection must resolve, rest on supported judgments, and be
\* authorized.  Nothing gives a projection an authorization use, so its grant
\* is judged at the time of the validation.
ProjectionResolves(d, p) == \A x \in AssertionsOf[p] \cup JudgmentsOf[p]: d.fact[x].life # "absent"

ProjectionAuthorized(d, p, t) ==
    LET g == d.grant[GrantOf[p]] IN
    g.stored /\ GrantValid(g, t) /\ IsAuthorizedFor(PromoteRequest(p), g, t)

\* Faulty: the judgments are not looked at again.
JudgmentsUnread(d, p) == TRUE

ProjectionSupported(d, p) == \A j \in JudgmentsOf[p]: d.fact[j].epi = "supported"

ProjectionsProven(d, t) ==
    \A p \in Projections: d.proj[p] = "official" =>
        ProjectionResolves(d, p) /\ ProjectionAuthorized(d, p, t) /\ ProjectionSupported(d, p)

ValidGraph(d, t) ==
    /\ EdgesResolve(d) /\ RefsResolve(d)
    /\ GrantsBound(d) /\ UsesProven(d)
    /\ ProjectionsProven(d, t)
    /\ RevisionsProven(d) /\ EndpointsExist(d)
    /\ SupersedesProven(d) /\ OneActiveSuperseder(d) /\ LineageAcyclic(d)

(***************************************************************************)
(* The gates of save_record.                                               *)
(***************************************************************************)

Content(f) == [epi |-> f.epi, text |-> f.text, use |-> f.use, via |-> f.via]

\* validate_record_write: content changes only under a later version; a
\* lifecycle change may come with any version.
FactVersionAdvances(old, new) == Content(new) # Content(old) => new.ver > old.ver

Snapshot(f) == [life |-> f.life, epi |-> f.epi, ver |-> f.ver]

\* A change of epistemic status stands alone and has exactly one journal entry.
QualificationJournaled(d, x, old, new) ==
    old.epi # new.epi =>
        /\ new.ver = old.ver + 1
        /\ new.life = old.life /\ new.text = old.text
        /\ Cardinality({i \in DOMAIN d.journal[x] :
                d.journal[x][i] = [before |-> Snapshot(old), after |-> Snapshot(new)]}) = 1

\* A change of content names an effective Revision of the record, or a use
\* made for the exact version it replaces.
RevisionAuthorizes(d, x, new) ==
    /\ new.via # None
    /\ d.rev[new.via].life \in Effective
    /\ x \in {OldOf[new.via], NewOf[new.via]}

\* Faulty: the use is judged for the version it names, not for the one replaced.
UseForAnyVersion(d, x, old, new) ==
    /\ new.use # None /\ new.use \in d.uses
    /\ d.grant[new.use.grant].stored
    /\ UseCoversRequest(new.use, d.grant[new.use.grant], new.use.request)

UseAuthorizes(d, x, old, new) ==
    /\ new.use # None /\ new.use \in d.uses
    /\ d.grant[new.use.grant].stored
    /\ UseCoversRequest(new.use, d.grant[new.use.grant],
                        WriteRequest(new.use.request.actor, x, old.ver))

FactWriteAllowed(d, x, new) ==
    LET old == d.fact[x] IN
    old.life # "absent" =>
        /\ FactVersionAdvances(old, new)
        /\ QualificationJournaled(d, x, old, new)
        /\ Content(new) # Content(old) =>
               RevisionAuthorizes(d, x, new) \/ UseAuthorizes(d, x, old, new)

\* _revision_authority_metadata_is_valid: the one semantic change of a
\* Revision is its authorized application, one version up.
AuthorizedApply(d, r, old, new) ==
    /\ old.life \in {"proposed", "authorized"} /\ new.life = "applied"
    /\ new.ver = old.ver + 1
    /\ new.use # None /\ new.use # old.use /\ new.use \in d.uses
    /\ LET u == new.use
           g == d.grant[u.grant]
           request == ApplyRequest(u.request.actor, r, old.ver) IN
       /\ g.stored /\ GrantValid(g, u.at)
       /\ request.versions \subseteq u.request.versions
       /\ [u.request EXCEPT !.versions = request.versions] = request
       /\ IsAuthorizedFor(request, g, u.at)

\* Faulty: only the first application is checked.
FirstApplicationChecked(d, r, new) ==
    LET old == d.rev[r] IN
    old.life \in {"proposed", "authorized"} /\ new.life = "applied" => AuthorizedApply(d, r, old, new)

\* _assert_revision_mutation_integrity.
RevisionWriteAllowed(d, r, new) ==
    LET old == d.rev[r] IN
    old.life # "absent" =>
        /\ new.use # old.use => new.ver > old.ver
        /\ \/ new.use # old.use
           \/ old.life \in {"proposed", "authorized"} /\ new.life = "applied"
           => AuthorizedApply(d, r, old, new)

(***************************************************************************)
(* Writes.  Each returns the candidate store, which the store takes when   *)
(* CandidateValid says so.                                                 *)
(***************************************************************************)

PutFact(d, x, new) == [d EXCEPT !.fact[x] = new]
PutRevision(d, r, new) == [d EXCEPT !.rev[r] = new]
PutRelation(d, s) == [d EXCEPT !.rel = @ \cup {s}]
PutUse(d, u) == [d EXCEPT !.uses = @ \cup {u}]
PutGrant(d, g, new) == [d EXCEPT !.grant[g] = new]
PutProjection(d, p, life) == [d EXCEPT !.proj[p] = life]

CandidateValid(d) == ValidGraph(d, now)

\* The store becomes d when it may.
Accept(d) == IF CandidateValid(d) THEN db' = d ELSE UNCHANGED db

SaveFactAllowed(d, x, new) == FactWriteAllowed(d, x, new) /\ CandidateValid(PutFact(d, x, new))
SaveRevisionAllowed(d, r, new) == RevisionWriteAllowed(d, r, new) /\ CandidateValid(PutRevision(d, r, new))

StoreFact(x, new) ==
    IF SaveFactAllowed(db, x, new) THEN db' = PutFact(db, x, new) ELSE UNCHANGED db

StoreRevision(r, new) ==
    IF SaveRevisionAllowed(db, r, new) THEN db' = PutRevision(db, r, new) ELSE UNCHANGED db

Begin(c, o) ==
    /\ op[c] = Idle /\ o.kind \in Roles[c] /\ begun < MaxOps
    /\ op' = [op EXCEPT ![c] = o] /\ begun' = begun + 1
Continue(c, o) == op' = [op EXCEPT ![c] = o] /\ UNCHANGED begun
End(c) == Continue(c, Idle)

(***************************************************************************)
(* Grants and uses.                                                        *)
(***************************************************************************)

\* record_human_approval: each approval issues a grant of its own.
IssueGrant(g) ==
    /\ ~ db.grant[g].stored
    /\ Accept(PutGrant(db, g, CreateGrant(Terms[g], now)))
    /\ UNCHANGED <<now, op, begun>>

\* save_authorization over an existing grant, to revoke it from now on.  The
\* SQLite store takes only grants that are valid when they are saved.
RevokeGrant(g) ==
    /\ g \in Revocable /\ db.grant[g].stored /\ db.grant[g].revoked = Never
    /\ LET new == [db.grant[g] EXCEPT !.revoked = now] IN
       IF SqliteBackend /\ ~ GrantValid(new, now) THEN UNCHANGED db ELSE Accept(PutGrant(db, g, new))
    /\ UNCHANGED <<now, op, begun>>

\* save_authorization_use.
SaveUseAllowed(d, u) ==
    /\ d.grant[u.grant].stored
    /\ IsAuthorizedFor(u.request, d.grant[u.grant], u.at)
    /\ CandidateValid(PutUse(d, u))

\* A caller proves its right to change the version of x it sees.
AuthorizeWrite(c, x, g) ==
    /\ x \in Edited /\ db.fact[x].life # "absent"
    /\ Cardinality(db.uses) < MaxUses
    /\ LET u == CreateAuthorizationUse(g, WriteRequest(c, x, db.fact[x].ver), now) IN
       IF SaveUseAllowed(db, u) THEN db' = PutUse(db, u) ELSE UNCHANGED db
    /\ UNCHANGED <<now, op, begun>>

(***************************************************************************)
(* Records written from a copy the caller read before.                     *)
(***************************************************************************)

NewFact(x) == [life |-> BornAs[x], epi |-> "supported", text |-> FirstText, ver |-> 1,
               use |-> None, via |-> None]

CreateFact(x) ==
    /\ db.fact[x].life = "absent"
    /\ StoreFact(x, NewFact(x))
    /\ UNCHANGED <<now, op, begun>>

Proposal == [life |-> "proposed", ver |-> 1, use |-> None]

FetchFact(c, x) ==
    /\ db.fact[x].life # "absent"
    /\ Begin(c, [kind |-> "fact", id |-> x, copy |-> db.fact[x]])
    /\ UNCHANGED <<db, now>>

FetchRevision(c, r) ==
    /\ db.rev[r].life # "absent"
    /\ Begin(c, [kind |-> "revision", id |-> r, copy |-> db.rev[r]])
    /\ UNCHANGED <<db, now>>

\* The caller advances the lifecycle of its copy in place and saves it.
AdvanceFact(c) ==
    /\ op[c].kind = "fact"
    /\ \E l \in AssertionNext[op[c].copy.life]: StoreFact(op[c].id, [op[c].copy EXCEPT !.life = l])
    /\ End(c)
    /\ UNCHANGED now

AdvanceRevision(c) ==
    /\ op[c].kind = "revision"
    /\ \E l \in RevisionNext[op[c].copy.life]:
          StoreRevision(op[c].id, [op[c].copy EXCEPT !.life = l])
    /\ End(c)
    /\ UNCHANGED now

\* The ways a writer may name its authority: a use it holds, or a Revision.
Signed(f, c, x) ==
    {[f EXCEPT !.use = u] : u \in {v \in db.uses : v.request.actor = c /\ v.request.resource = x}}
    \cup {[f EXCEPT !.via = r] : r \in {q \in Revisions : x \in {OldOf[q], NewOf[q]}}}

EditText(c) ==
    /\ op[c].kind = "fact" /\ op[c].id \in Edited /\ op[c].copy.ver < MaxVersion
    /\ \E t \in Texts \ {op[c].copy.text}:
          \E new \in Signed([op[c].copy EXCEPT !.text = t, !.ver = @ + 1], c, op[c].id):
              StoreFact(op[c].id, new)
    /\ End(c)
    /\ UNCHANGED now

\* build_qualification_transition_event, for the record as it is stored.
Journaled(d, x, new) ==
    [d EXCEPT !.journal[x] = Append(@, [before |-> Snapshot(d.fact[x]), after |-> Snapshot(new)])]

\* Only the status differs from what the store holds at the expected version.
TransitionExact(d, x, copy, new) ==
    /\ d.fact[x].ver = copy.ver
    /\ d.fact[x].life = new.life /\ d.fact[x].text = new.text /\ d.fact[x].epi # new.epi

\* Faulty: the event stays when the record is refused.
CommitTransitionTorn(x, copy, new) ==
    IF TransitionExact(db, x, copy, new)
    THEN LET logged == Journaled(db, x, new) IN
         db' = IF SaveFactAllowed(logged, x, new) THEN PutFact(logged, x, new) ELSE logged
    ELSE UNCHANGED db

\* commit_qualification_transition: the event and the record in one transaction.
CommitTransition(x, copy, new) ==
    IF TransitionExact(db, x, copy, new) /\ SaveFactAllowed(Journaled(db, x, new), x, new)
    THEN db' = PutFact(Journaled(db, x, new), x, new)
    ELSE UNCHANGED db

Qualify(c) ==
    /\ op[c].kind = "fact" /\ op[c].id \in Edited /\ op[c].copy.ver < MaxVersion
    /\ \E e \in Opinions \ {op[c].copy.epi}:
          \E new \in Signed([op[c].copy EXCEPT !.epi = e, !.ver = @ + 1], c, op[c].id):
              CommitTransition(op[c].id, op[c].copy, new)
    /\ End(c)
    /\ UNCHANGED now

\* assert_valid_state_transition, then assert_valid_state_graph: a record that
\* is already stored passes the gates of a normal write.
ImportAllowed(d, x, new) ==
    FactWriteAllowed(d, x, new) /\ ValidGraph(PutFact(d, x, new), now)

\* import_state with a bundle that holds an earlier copy of a record.
ImportFact(c) ==
    /\ op[c].kind = "fact"
    /\ IF ImportAllowed(db, op[c].id, op[c].copy)
       THEN db' = PutFact(db, op[c].id, op[c].copy)
       ELSE UNCHANGED db
    /\ End(c)
    /\ UNCHANGED now

ImportRevision(c) ==
    /\ op[c].kind = "revision"
    /\ IF RevisionWriteAllowed(db, op[c].id, op[c].copy)
          /\ ValidGraph(PutRevision(db, op[c].id, op[c].copy), now)
       THEN db' = PutRevision(db, op[c].id, op[c].copy)
       ELSE UNCHANGED db
    /\ End(c)
    /\ UNCHANGED now

(***************************************************************************)
(* apply_revision and supersede.                                           *)
(***************************************************************************)

\* The caller holds the Revision it fetched, or a new proposal, and looks
\* whether the store has it.
ApplyStart(c, r, g) ==
    /\ LET fresh == db.rev[r].life = "absent"
           copy == IF fresh THEN Proposal ELSE db.rev[r] IN
       /\ copy.ver < MaxVersion
       /\ Begin(c, [kind |-> "apply", rev |-> r, grant |-> g, fresh |-> fresh, copy |-> copy])
    /\ UNCHANGED <<db, now>>

\* A proposal that was not stored then is materialized, whatever became of it
\* since.
ApplyMaterialize(c) ==
    /\ op[c].kind = "apply" /\ op[c].fresh
    /\ LET r == op[c].rev IN
       IF /\ db.fact[OldOf[r]].life # "absent" /\ db.fact[NewOf[r]].life # "absent"
          /\ SaveRevisionAllowed(db, r, op[c].copy)
       THEN db' = PutRevision(db, r, op[c].copy) /\ Continue(c, [op[c] EXCEPT !.fresh = FALSE])
       ELSE UNCHANGED db /\ End(c)
    /\ UNCHANGED now

\* The live check of the grant, and the use that proves it.  An applied
\* Revision is returned as it is.
ApplyAuthorize(c) ==
    /\ op[c].kind = "apply" /\ ~ op[c].fresh
    /\ LET r == op[c].rev
           stored == db.rev[r]
           g == db.grant[op[c].grant]
           request == ApplyRequest(c, r, op[c].copy.ver)
           u == CreateAuthorizationUse(op[c].grant, request, now) IN
       /\ u \notin db.uses => Cardinality(db.uses) < MaxUses
       /\ IF /\ stored.ver = op[c].copy.ver
             /\ stored.life \in {"proposed", "authorized"}
             /\ g.stored /\ GrantValid(g, now)
             /\ IsAuthorizedFor(request, g, now)
             /\ request.versions \cap g.versions # {}
             /\ SaveUseAllowed(db, u)
          THEN /\ db' = PutUse(db, u)
               /\ Continue(c, [kind |-> "applying", rev |-> r, copy |-> stored, use |-> u])
          ELSE UNCHANGED db /\ End(c)
    /\ UNCHANGED now

ApplyCommit(c) ==
    /\ op[c].kind = "applying"
    /\ StoreRevision(op[c].rev, [life |-> "applied", ver |-> op[c].copy.ver + 1, use |-> op[c].use])
    /\ End(c)
    /\ UNCHANGED now

\* supersede reads the Revision, its proof and both endpoints before it opens
\* its transaction.
SupersedeRead(c, r) ==
    LET old == db.fact[OldOf[r]]
        new == db.fact[NewOf[r]] IN
    /\ db.rev[r].life \in Effective
    /\ old.life # "absent" /\ new.life # "absent"
    /\ old.ver < MaxVersion /\ new.ver < MaxVersion
    /\ IF RevisionProof(db, r, db.rev[r])
       THEN Begin(c, [kind |-> "supersede", rev |-> r, old |-> old, new |-> new])
       ELSE UNCHANGED <<op, begun>>
    /\ UNCHANGED <<db, now>>

\* The transaction: the old record is marked superseded, a draft successor
\* becomes current, and the relation is added; all three or none.
SupersedeCommit(c) ==
    /\ op[c].kind = "supersede"
    /\ LET r == op[c].rev
           was == IF op[c].old.life = "draft" THEN "current" ELSE op[c].old.life
           old == [op[c].old EXCEPT !.life = "superseded", !.ver = @ + 1]
           new == [op[c].new EXCEPT !.life = "current", !.ver = @ + 1]
           d1 == PutFact(db, OldOf[r], old)
           d2 == IF op[c].new.life = "draft" THEN PutFact(d1, NewOf[r], new) ELSE d1
           d3 == PutRelation(d2, [new |-> NewOf[r], old |-> OldOf[r], via |-> r]) IN
       IF /\ ValidLifecycleTransition(AssertionNext, was, "superseded")
          /\ SaveFactAllowed(db, OldOf[r], old)
          /\ op[c].new.life = "draft" => SaveFactAllowed(d1, NewOf[r], new)
          /\ CandidateValid(d3)
       THEN db' = d3
       ELSE UNCHANGED db
    /\ End(c)
    /\ UNCHANGED now

\* POST of a supersedes relation: _require_semantic_edge_authority accepts an
\* effective Revision between the same endpoints.
PostRelation(r) ==
    /\ db.rev[r].life \in Effective
    /\ Accept(PutRelation(db, [new |-> NewOf[r], old |-> OldOf[r], via |-> r]))
    /\ UNCHANGED <<now, op, begun>>

(***************************************************************************)
(* Knowledge projections.                                                  *)
(***************************************************************************)

ProposeProjection(p) ==
    /\ db.proj[p] = "absent"
    /\ Accept(PutProjection(db, p, "candidate"))
    /\ UNCHANGED <<now, op, begun>>

\* A consolidation run lists the candidates, then treats them one by one.
ListCandidate(c, p) ==
    /\ db.proj[p] = "candidate"
    /\ Begin(c, [kind |-> "consolidate", proj |-> p])
    /\ UNCHANGED <<db, now>>

\* Promote, archive or retain; what the store refuses is retained as candidate.
Consolidate(c) ==
    /\ op[c].kind = "consolidate"
    /\ LET p == op[c].proj
           life == CASE p \in Promotable -> "official"
                     [] p \in Refuted -> "archived"
                     [] OTHER -> "candidate" IN
       IF CandidateValid(PutProjection(db, p, life)) THEN db' = PutProjection(db, p, life)
       ELSE Accept(PutProjection(db, p, "candidate"))
    /\ End(c)
    /\ UNCHANGED now

(***************************************************************************)

\* The caller fails, or stops retrying.
Abandon(c) ==
    /\ op[c] # Idle
    /\ End(c)
    /\ UNCHANGED <<db, now>>

Tick ==
    /\ now < Horizon
    /\ now' = now + 1
    /\ UNCHANGED <<db, op, begun>>

Init ==
    /\ db = [fact |-> [x \in Facts |-> IF x \in Given THEN NewFact(x) ELSE NoFact], rev |-> [r \in Revisions |-> NoRevision],
             grant |-> [g \in Grants |-> IF g \in Given THEN CreateGrant(Terms[g], 0) ELSE NoGrant],
             uses |-> {}, rel |-> {},
             journal |-> [x \in Facts |-> <<>>], proj |-> [p \in Projections |-> "absent"]]
    /\ now = 0
    /\ op = [c \in Callers |-> Idle]
    /\ begun = 0 /\ spent = {} /\ rewound = {}

CallerStep(c) ==
    \/ \E x \in Facts: FetchFact(c, x) \/ \E g \in Grants: AuthorizeWrite(c, x, g)
    \/ \E r \in Revisions: FetchRevision(c, r) \/ SupersedeRead(c, r)
                         \/ \E g \in Grants: ApplyStart(c, r, g)
    \/ \E p \in Projections: ListCandidate(c, p)
    \/ AdvanceFact(c) \/ AdvanceRevision(c) \/ EditText(c) \/ Qualify(c) \/ ImportFact(c)
    \/ ImportRevision(c)
    \/ ApplyMaterialize(c) \/ ApplyAuthorize(c) \/ ApplyCommit(c) \/ SupersedeCommit(c)
    \/ Consolidate(c) \/ Abandon(c)

\* The use, if any, that a change of content rests on.
Spending(d, x, new) ==
    IF Content(new) # Content(d.fact[x]) /\ d.fact[x].life # "absent" /\ ~ RevisionAuthorizes(d, x, new)
    THEN {new.use} ELSE {}

\* Every step keeps the history variables up to date.
History ==
    /\ spent' = spent \cup UNION {Spending(db, x, db'.fact[x]) : x \in Facts}
    /\ rewound' = rewound \cup {x \in Facts : db'.fact[x].ver < db.fact[x].ver}

Next ==
    /\ \/ \E c \in Callers: CallerStep(c)
       \/ \E x \in Facts: CreateFact(x)
       \/ \E g \in Grants: IssueGrant(g) \/ RevokeGrant(g)
       \/ \E r \in Revisions: PostRelation(r)
       \/ \E p \in Projections: ProposeProjection(p)
       \/ Tick
    /\ History

Spec == Init /\ [][Next]_vars

(***************************************************************************)
(* Properties.                                                             *)
(***************************************************************************)

Fact == [life: DOMAIN AssertionNext \cup {"absent"}, epi: Opinions \cup {None}, text: Texts \cup {None},
         ver: 0..MaxVersion, use: db.uses \cup {None}, via: Revisions \cup {None}]
Revision == [life: DOMAIN RevisionNext \cup {"absent"}, ver: 0..MaxVersion, use: db.uses \cup {None}]

TypeOK ==
    /\ db.fact \in [Facts -> Fact] /\ db.rev \in [Revisions -> Revision]
    /\ \A g \in Grants: db.grant[g].stored => db.grant[g].revoked \in 0..Horizon \cup {Never}
    /\ \A u \in db.uses: u.grant \in Grants /\ u.at <= now
    /\ db.rel \subseteq [new: Facts, old: Facts, via: Revisions]
    /\ db.proj \in [Projections -> {"absent", "candidate", "official", "archived"}]
    /\ now \in 0..Horizon /\ begun \in 0..MaxOps /\ spent \subseteq db.uses /\ rewound \subseteq Facts

\* "the same historical use must not be reusable for v2": a use backs at most
\* one change of content, whatever copies the callers hold and whatever becomes
\* of its grant, unless a stale copy has set the record's version back: nothing
\* in the write gates forbids a lower version with the same content.
UseSpentOnce ==
    [][\A x \in Facts \ rewound': Spending(db, x, db'.fact[x]) \cap spent = {}]_vars

\* A Revision is applied once: of the callers that apply it at the same time,
\* each with a use of its own, one lands, and neither a retry nor an older
\* copy replaces the proof it was applied with.
AppliedOnce ==
    [][\A r \in Revisions: db.rev[r].use # None => db'.rev[r].use = db.rev[r].use]_vars

\* The audit journal and the records agree: an Assertion whose version was
\* never set back has the epistemic status the last entry of its journal says,
\* or the one it was created with.
JournalMatches ==
    \A x \in Facts \ rewound: db.fact[x].life # "absent" =>
        LET j == db.journal[x] IN
        db.fact[x].epi = IF j = <<>> THEN "supported" ELSE j[Len(j)].after.epi

\* What supersedes a record is well defined: the chain of active successors
\* does not fork or turn back, and each link rests on an applied Revision
\* that no later write has withdrawn.
LineageDetermined ==
    /\ OneActiveSuperseder(db) /\ LineageAcyclic(db)
    /\ \A s \in db.rel: db.rev[s.via].life \in Effective /\ db.rev[s.via].use # None

\* An official projection rests on supported judgments, whoever reconsiders
\* a judgment while it is being promoted.
OfficialIsSupported ==
    \A p \in Projections: db.proj[p] = "official" =>
        \A j \in JudgmentsOf[p]: db.fact[j].epi = "supported"

\* assert_valid_candidate_write: a running store never holds a graph that
\* cannot be exported and imported again.
GraphStaysValid == ValidGraph(db, now)
================================================================================
