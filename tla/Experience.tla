------------------------------- MODULE Experience -------------------------------
(***************************************************************************)
(* The use of past experience (experience/use_admission, historical_use;   *)
(* public_contracts/experience; commit_historical_experience_use of both   *)
(* stores) on top of the record store.                                     *)
(*                                                                         *)
(* A caller states what it relies on, a requirement naming knowledge       *)
(* projections, has it evaluated against one coherent export of the store, *)
(* and later commits its own judgment together with what it relied on.     *)
(* The commit evaluates again and compares: both digests stand for the     *)
(* values they are computed from.  A success may be retried by a caller    *)
(* that did not see the answer.                                            *)
(***************************************************************************)
EXTENDS Records

CONSTANTS
    Judgments,      \* the Assertions that are task or domain judgments
    Requirements,   \* what a caller may rely on: [projs, scope, versions, env]
    ScopeOf, EnvOf, \* validity_scope and environment_bindings of each projection
    VersionsOf,     \* scope_version_refs: the Revisions it is valid for
    NegativesOf,    \* its counterexamples and negative knowledge
    Edges,          \* contradicts and requires-revalidation relations callers may post
    LimitsOf        \* what each negative fact says of its own applicability

ASSUME ExperienceAssumption ==
    /\ Judgments \subseteq Facts
    /\ \A q \in Requirements: q.projs \subseteq Projections
    /\ VersionsOf \in [Projections -> SUBSET Revisions]
    /\ NegativesOf \in [Projections -> SUBSET Facts]
    /\ \A p \in Projections: NegativesOf[p] \cup VersionsOf[p] \subseteq AlsoCites[p]
    /\ \A e \in Edges: e.kind \in {"contradicts", "requires-revalidation"} /\ {e.from, e.to} \subseteq Facts

VARIABLES
    edges,      \* the posted relations
    history,    \* the HistoricalExperienceUseRecorded events
    told        \* per caller: the binding it was last told, or None

useVars == <<edges, history, told>>
allVars == <<vars, useVars>>

(***************************************************************************)
(* ExperienceUseAdmissionEvaluator: what a store d with the relations E    *)
(* says of the reliance q.                                                 *)
(***************************************************************************)

\* Every key of expected has the same value in actual.
Covers(actual, expected) == \A k \in DOMAIN expected: k \in DOMAIN actual /\ actual[k] = expected[k]

ScopeMatches(p, q) == Covers(q.scope, ScopeOf[p])
EnvironmentMatches(p, q) == Covers(q.env, EnvOf[p])
SubjectVersionsMatch(p, q) == VersionsOf[p] \subseteq q.versions

DirectFacts(p) == AssertionsOf[p] \cup JudgmentsOf[p]

Unresolved(d, p) ==
    \/ \E x \in DirectFacts(p): d.fact[x].life = "absent"
    \/ \E r \in VersionsOf[p]: d.rev[r].life = "absent"
    \/ ~ d.grant[GrantOf[p]].stored

NegativesUnresolved(d, p) == \E x \in NegativesOf[p]: d.fact[x].life = "absent"

\* Exactly one hop from what the projection names.
RelatedEdges(p, E) ==
    LET seed == DirectFacts(p) \cup NegativesOf[p] IN {e \in E : e.from \in seed \/ e.to \in seed}

ClassifyDirectRecords(d, p) ==
    IF \E x \in AssertionsOf[p]: d.fact[x].epi \in {"contested", "refuted"} THEN "blocked"
    ELSE IF \E j \in JudgmentsOf[p]: d.fact[j].epi # "supported" THEN "unavailable"
    ELSE IF \E x \in AssertionsOf[p]:
              \/ d.fact[x].life \in Inactive
              \/ d.fact[x].epi \in {"unknown", "revalidation-required", "unverified"}
         THEN "stale"
    ELSE "clear"

\* One undisputed statement decides; none, or several that differ, leave it open.
UniqueMappingState(candidates, actual) ==
    IF Cardinality(candidates) # 1 THEN "unknown"
    ELSE IF \A m \in candidates: Covers(actual, m) THEN "current" ELSE "outside"

UniqueVersionState(candidates, actual) ==
    IF Cardinality(candidates) # 1 THEN "unknown"
    ELSE IF \A v \in candidates: v \subseteq actual THEN "current" ELSE "outside"

\* What the fact and, when there is one, the relation that binds it say; an
\* empty statement says nothing.
NegativeApplicability(limits, q) ==
    LET scopes == {m \in UNION {l.scope : l \in limits} : DOMAIN m # {}}
        versions == UNION {l.versions : l \in limits} \ {{}}
        envs == {m \in UNION {l.env : l \in limits} : DOMAIN m # {}}
        states == <<UniqueMappingState(scopes, q.scope), UniqueVersionState(versions, q.versions),
                    UniqueMappingState(envs, q.env)>> IN
    IF \E i \in 1..3: states[i] = "outside" THEN "outside"
    ELSE IF \A i \in 1..3: states[i] = "current" THEN "current"
    ELSE "unknown"

Contradictions(p, x, E) ==
    {e \in RelatedEdges(p, E) : /\ e.kind = "contradicts"
                                /\ \/ e.from = x /\ e.to \in AssertionsOf[p]
                                   \/ e.to = x /\ e.from \in AssertionsOf[p]}

\* What one negative fact x says of the reliance.
NegativeVerdict(d, p, x, q, E) ==
    LET bound == Contradictions(p, x, E)
        states == {NegativeApplicability({LimitsOf[x], e.limits}, q) : e \in bound} IN
    IF d.fact[x].life = "absent" THEN "unavailable"
    ELSE IF bound = {}
         THEN IF NegativeApplicability({LimitsOf[x]}, q) = "outside" THEN "clear" ELSE "unavailable"
    ELSE IF "current" \in states THEN "blocked"
    ELSE IF "unknown" \in states THEN "unavailable"
    ELSE "clear"

ClassifyNegativeKnowledge(d, p, q, E) == {NegativeVerdict(d, p, x, q, E) : x \in NegativesOf[p]}

RequiresRevalidation(p, E) ==
    \E e \in RelatedEdges(p, E): e.kind = "requires-revalidation" /\ {e.from, e.to} \cap DirectFacts(p) # {}

ProjectionStatuses(d, p, q, E) ==
    IF d.proj[p] = "absent" THEN {"unavailable"}
    ELSE {ClassifyDirectRecords(d, p)} \cup ClassifyNegativeKnowledge(d, p, q, E)
         \cup (IF d.proj[p] # "official" \/ ~ ScopeMatches(p, q) THEN {"blocked"} ELSE {})
         \cup (IF Unresolved(d, p) \/ NegativesUnresolved(d, p) THEN {"unavailable"} ELSE {})
         \cup (IF ~ EnvironmentMatches(p, q) \/ ~ SubjectVersionsMatch(p, q) \/ RequiresRevalidation(p, E)
               THEN {"stale"} ELSE {})

\* The whole set must be admissible: the worst verdict decides.
Evaluate(d, q, E) ==
    LET statuses == UNION {ProjectionStatuses(d, p, q, E) : p \in q.projs} IN
    CASE "blocked" \in statuses -> "blocked"
      [] "stale" \in statuses -> "stale"
      [] "unavailable" \in statuses -> "unavailable"
      [] q.projs = {} -> "not-applicable"
      [] OTHER -> "allowed"

\* _snapshot_payload: everything the verdict was taken from.
UseSnapshot(d, q, E) ==
    LET facts == UNION {DirectFacts(p) \cup NegativesOf[p] : p \in q.projs} IN
    [req |-> q,
     proj |-> [p \in q.projs |-> d.proj[p]],
     fact |-> [x \in facts |-> d.fact[x]],
     rev |-> [r \in UNION {VersionsOf[p] : p \in q.projs} |-> d.rev[r]],
     grant |-> [p \in q.projs |-> d.grant[GrantOf[p]]],
     edges |-> UNION {RelatedEdges(p, E) : p \in q.projs},
     rel |-> {s \in d.rel : {s.new, s.old} \cap facts # {}}]

(***************************************************************************)
(* Historical use.                                                         *)
(***************************************************************************)

\* The identity of the event is the judgment and its version.
EventOf(j, v, H) == {h \in H : h.judg = j /\ h.ver = v}

Binding(j, v, snap) == [judg |-> j, ver |-> v, snap |-> snap]

\* A judgment must not qualify the experience it relies on.
RoleSeparated(d, j, q) == \A p \in q.projs: d.proj[p] # "absent" => j \notin DirectFacts(p)

\* validate_historical_experience_use_authority_graph.
AuthorityGraphValid(d, H) ==
    /\ \A h, k \in H: h.judg = k.judg /\ h.ver = k.ver => h = k
    /\ \A h \in H: d.fact[h.judg].life # "absent" /\ d.fact[h.judg].ver = h.ver

\* Faulty: a retry is answered from its own request.
ReplayFromRequest(d, j, judgment, snap, H) == Binding(j, judgment.ver, snap)

\* Replay: the same judgment and the same reliance, from the stored payload;
\* what became of the projections does not matter.
ReplayBinding(d, j, judgment, snap, H) ==
    IF d.fact[j] = judgment /\ \A h \in EventOf(j, judgment.ver, H): h.snap = snap
    THEN CHOOSE h \in EventOf(j, judgment.ver, H) : TRUE
    ELSE None

\* Faulty: what the caller saw evaluated is not looked at again.
BindUnchecked(d, j, judgment, snap, E) ==
    d.fact[j].life = "absent" /\ SaveFactAllowed(d, j, judgment) /\ RoleSeparated(d, j, snap.req)

\* Faulty: what is admissible now is recorded, seen or not.
BindWithoutCompare(d, j, judgment, snap, E) ==
    /\ d.fact[j].life = "absent" /\ SaveFactAllowed(d, j, judgment) /\ RoleSeparated(d, j, snap.req)
    /\ Evaluate(d, snap.req, E) = "allowed"

\* First commit: the judgment is new, and the reliance is admissible and
\* unchanged since the caller had it evaluated.
BindAllowed(d, j, judgment, snap, E) ==
    /\ d.fact[j].life = "absent"
    /\ SaveFactAllowed(d, j, judgment)
    /\ RoleSeparated(d, j, snap.req)
    /\ Evaluate(d, snap.req, E) = "allowed"
    /\ UseSnapshot(d, snap.req, E) = snap

(***************************************************************************)
(* Actions.                                                                *)
(***************************************************************************)

\* A contradicts edge is an observation anyone may post; a revalidation edge
\* is posted under a graph.write use made beforehand.
PostEdge(e) ==
    /\ e \notin edges /\ {e.from, e.to} \subseteq {x \in Facts : db.fact[x].life # "absent"}
    /\ edges' = IF CandidateValid(db) THEN edges \cup {e} ELSE edges
    /\ UNCHANGED <<vars, history, told>>

\* The caller has its reliance evaluated and goes on with a positive answer.
EvaluateUse(c, j, q) ==
    /\ Evaluate(db, q, edges) = "allowed"
    /\ Begin(c, [kind |-> "rely", judg |-> j, snap |-> UseSnapshot(db, q, edges)])
    /\ told' = [told EXCEPT ![c] = None]
    /\ UNCHANGED <<db, now, spent, rewound, edges, history>>

\* commit_historical_experience_use, one transaction.  The event is built from
\* the evaluation the commit makes.  The caller keeps its request until it has
\* seen the answer; a refusal ends it.
CommitUse(c) ==
    /\ op[c].kind = "rely"
    /\ LET j == op[c].judg
           judgment == NewFact(j)
           snap == op[c].snap
           recorded == EventOf(j, judgment.ver, history) # {}
           event == Binding(j, judgment.ver, UseSnapshot(db, snap.req, edges))
           answer == IF recorded THEN ReplayBinding(db, j, judgment, snap, history)
                     ELSE IF BindAllowed(db, j, judgment, snap, edges) THEN event ELSE None
           db1 == IF recorded THEN db ELSE PutFact(db, j, judgment)
           history1 == IF recorded THEN history ELSE history \cup {event} IN
       IF answer # None /\ AuthorityGraphValid(db1, history1)
       THEN /\ db' = db1 /\ history' = history1
            /\ told' = [told EXCEPT ![c] = answer]
            /\ UNCHANGED <<now, op, begun, spent, rewound, edges>>
       ELSE /\ End(c) /\ told' = [told EXCEPT ![c] = None]
            /\ UNCHANGED <<db, now, spent, rewound, edges, history>>

UseInit ==
    /\ Init
    /\ edges = {} /\ history = {} /\ told = [c \in Callers |-> None]

UseNext ==
    \/ Next /\ UNCHANGED useVars
    \/ \E e \in Edges: PostEdge(e)
    \/ \E c \in Callers, j \in Judgments, q \in Requirements: EvaluateUse(c, j, q)
    \/ \E c \in Callers: CommitUse(c)

UseSpec == UseInit /\ [][UseNext]_allVars

(***************************************************************************)
(* Properties.                                                             *)
(***************************************************************************)

UseTypeOK ==
    /\ TypeOK
    /\ edges \subseteq Edges
    /\ \A h \in history: h.judg \in Judgments /\ h.snap.req \in Requirements
    /\ \A c \in Callers: told[c] # None => told[c].judg \in Judgments

\* What a judgment is on record as relying on was usable as a whole at the
\* moment it was recorded: however the records, grants and relations moved
\* between the evaluation and the commit, the stored snapshot shows official
\* projections over supported judgments and undisputed, live assertions, no
\* demand for revalidation and no contradiction that applies to the reliance.
RelianceWasSound ==
    \A h \in history:
        LET q == h.snap.req IN
        \A p \in q.projs:
            /\ h.snap.proj[p] = "official" /\ h.snap.grant[p].stored
            /\ \A x \in DirectFacts(p): h.snap.fact[x].epi = "supported"
            /\ \A x \in AssertionsOf[p]: h.snap.fact[x].life \notin Inactive
            /\ h.judg \notin DirectFacts(p)
            /\ \A e \in h.snap.edges:
                  e.kind = "requires-revalidation" => {e.from, e.to} \cap DirectFacts(p) = {}
            /\ \A e \in h.snap.edges, x \in NegativesOf[p], y \in AssertionsOf[p]:
                  e.kind = "contradicts" /\ {e.from, e.to} = {x, y}
                      => NegativeApplicability({LimitsOf[x], e.limits}, q) # "current"

\* A reliance is recorded with the judgment it belongs to, never added to one
\* that was already on record, and holds exactly what a caller was shown when
\* it asked: what changed in between makes the commit fail.
BoundAsEvaluated ==
    [][\A h \in history' \ history:
          /\ db.fact[h.judg].life = "absent" /\ h.ver = db'.fact[h.judg].ver
          /\ \E c \in Callers: op[c].kind = "rely" /\ op[c].judg = h.judg /\ op[c].snap = h.snap]_allVars

\* A judgment has one reliance: of the callers that commit it, one is first,
\* and whoever is told of a success is told the reliance on record.
Durable == INSTANCE DurableFact WITH
    Keys <- Judgments, Values <- Requirements, Nothing <- None,
    facts <- {[key |-> h.judg, value |-> h.snap.req] : h \in history},
    told <- [c \in Callers |->
                IF told[c] = None THEN None ELSE [key |-> told[c].judg, value |-> told[c].snap.req]]
ReliedOnce == Durable!Spec

\* docs/eua-d-historical-experience-use-production-closure.md: the historical
\* facts of a revised judgment "remain independently reconstructible".  The
\* check that every later commit and replay ends with accepts what is recorded.
HistoryReconstructs == AuthorityGraphValid(db, history)
================================================================================
