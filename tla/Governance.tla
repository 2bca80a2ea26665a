------------------------------ MODULE Governance ------------------------------
(***************************************************************************)
(* Distinction governance: review obligations, governance decisions and    *)
(* governed applications (governance/distinction.py), the lifecycles that  *)
(* drive them (governance/revalidation.py, outcome_impact_lifecycle.py),   *)
(* the sidecar that materialises them (governance/persistence.py), the     *)
(* canonical event journal they are rebuilt from (governance/canonical.py) *)
(* and the admission of a governed use (governance/use_admission.py).      *)
(*                                                                         *)
(* A lifecycle call reads a snapshot of the sidecar, judges it, and then   *)
(* commits in one transaction that rechecks part of what was judged.  The  *)
(* snapshot is several reads (_snapshot), so each is a step of its own; a  *)
(* transaction (_transaction, under the store's lock) is one step.         *)
(*                                                                         *)
(* Scope and partition are not part of a state here: no operation changes  *)
(* them, and every check on them compares a value with itself.  Authority  *)
(* checks only refuse calls, which GiveUp covers.                          *)
(***************************************************************************)
EXTENDS Integers, FiniteSets, Sequences

CONSTANTS
    Workers,           \* threads or processes that share the store
    Schemes,
    Contexts,
    Changes,           \* event instances reported to observe_change
    Outcomes,          \* OutcomeConfirmed event instances
    Manual,            \* trigger refs of reviews opened by open_obligation
    Decisions,         \* decision ids
    Applications,      \* application ids
    Policies,          \* dispositions the revalidation policies choose from
    Seeds,             \* qualification and activation a scheme may be seeded with
    Rulings,           \* what a decision may rule: see Ruling
    Moves,             \* new values an application may name; None leaves an axis alone
    None,
    MaxTouches         \* bound: changes of the basis records

Events == Changes \cup Outcomes \cup Manual

Qualifications == {"candidate", "qualified", "disqualified"}
Activations == {"active", "suspended"}
BlockingActions == {"block-next-use", "require-human-review", "reopen"}
ReviewActions == BlockingActions \cup {"background-revalidate"}
Facts == {"basis_checked", "human_reviewed", "reopen_resolved"}

State == [qualification : Qualifications, activation : Activations, version : Nat]

\* The identity of a review: _obligation_id hashes exactly these.
ReviewId == [event : Events, target : Schemes, context : Contexts]

Review == [id : ReviewId, action : ReviewActions, invalidates : SUBSET Decisions]

\* The content of a decision that its author chooses freely.
Ruling == [disposition : {"no_change", "transition_required"},
           qualification : Qualifications \cup {None},
           activation : Activations \cup {None},
           facts : SUBSET Facts]

\* The receipt of an application.
Receipt ==
    [kind : {"state"}, decision : Decisions, target : Schemes, pre : State, post : State]
        \cup [kind : {"review_discharge"}, decision : Decisions, review : ReviewId,
              pre : SUBSET ReviewId, post : SUBSET ReviewId]

ASSUME GovernanceAssumption ==
    /\ Changes \cap Outcomes = {} /\ Manual \cap (Changes \cup Outcomes) = {}
    /\ IsFiniteSet(Schemes) /\ IsFiniteSet(Decisions) /\ IsFiniteSet(Applications)
    /\ Policies \subseteq ReviewActions \cup {"none"}
    /\ Rulings \subseteq Ruling
    /\ Moves \subseteq [qualification : Qualifications \cup {None},
                       activation : Activations \cup {None}]
    /\ Seeds \subseteq [qualification : Qualifications, activation : Activations]
    /\ None \notin State \cup ReviewActions \cup Receipt
    /\ \A ids \in SUBSET ReviewId : ids # None
    /\ MaxTouches \in Nat

VARIABLES
    states, reviews, decisions, applications,       \* the sidecar projection
    lineage,    \* journal: states seeded or applied, per scheme, in order
    opened,     \* journal: reviews opened
    decided,    \* journal: decisions recorded
    applied,    \* journal: application receipts
    processed,  \* journal: per event instance, the reviews it opened
    judged,     \* journal: disposition of each outcome for each dependency
    basis,      \* freshness anchor of what each event is about
    job,        \* the call each worker is in
    overlapped  \* a rebuild discarded commits made since it read the journal

sidecar == <<states, reviews, decisions, applications>>
journal == <<lineage, opened, decided, applied, processed>>
vars == <<sidecar, journal, judged, basis, job, overlapped>>

Idle == [kind |-> "idle"]

--------------------------------------------------------------------------------
(* Judgments of distinction.py *)

StateAdmissible(st) ==
    /\ st.activation = "active" => st.qualification = "qualified"
    /\ st.qualification = "disqualified" => st.activation = "suspended"

\* candidate_state_effect: None leaves an axis as it is.
Candidate(st, move) ==
    [qualification |-> IF move.qualification = None THEN st.qualification
                                                    ELSE move.qualification,
     activation |-> IF move.activation = None THEN st.activation ELSE move.activation,
     version |-> st.version + 1]

\* effect_matches_decision
EffectMatches(g, st) ==
    /\ g.ruling.qualification \in {None, st.qualification}
    /\ g.ruling.activation \in {None, st.activation}

ClosureRequirements(action) ==
    {"basis_checked"}
        \cup (IF action = "require-human-review" THEN {"human_reviewed"} ELSE {})
        \cup (IF action = "reopen" THEN {"reopen_resolved"} ELSE {})

Ids(rs) == {r.id : r \in rs}

\* relevant_basis_unchanged
BasisUnchanged(g) == \A id \in g.refs : basis[id.event] = g.basis[id]

\* no_invalidating_review
NotInvalidated(d, rs) == \A r \in rs : d \notin r.invalidates

\* obligation_blocks, for the conditions the lifecycles produce.
Blocks(r, s, c) == r.id.target = s /\ r.id.context = c /\ r.action \in BlockingActions

Usable(st, rs, s, c) ==
    /\ st.qualification = "qualified" /\ st.activation = "active"
    /\ \A r \in rs : ~Blocks(r, s, c)

--------------------------------------------------------------------------------
(* The journal.  append_event ignores an event it already holds and refuses
   another one under the same id. *)

Appendable(existing, new) == existing \in {None, new}

\* The fold replaces a state only by one of a greater version: what remains is
\* the entry of the greatest version, the earliest of those.
IsLatest(q, i) ==
    \A k \in DOMAIN q : \/ q[k].version < q[i].version
                        \/ q[k].version = q[i].version /\ i <= k
Latest(q) == q[CHOOSE i \in DOMAIN q : IsLatest(q, i)]

\* reconstruct_governance_history: the latest state, and every review opened
\* but not discharged.
HistoryState(s) == IF lineage[s] = <<>> THEN None ELSE Latest(lineage[s])

Discharged == {applied[a].review : a \in {b \in Applications :
                   applied[b] # None /\ applied[b].kind = "review_discharge"}}

HistoryReviews == {r \in opened : r.id \notin Discharged}

\* Grows with every append, so equal sizes are equal fingerprints.
HistorySize ==
    LET Written(f) == Cardinality({x \in DOMAIN f : f[x] # None})
    IN  <<[s \in Schemes |-> Len(lineage[s])], Cardinality(opened),
          Written(decided), Written(applied), Written(processed)>>

--------------------------------------------------------------------------------
(* Direct operations of the persistence *)

\* seed_state; a second seed is refused or is the same.
SeedState(s) ==
    /\ states[s] = None
    /\ \E seed \in Seeds :
        LET st == [qualification |-> seed.qualification, activation |-> seed.activation,
                   version |-> 0] IN
        /\ StateAdmissible(st)
        /\ states' = [states EXCEPT ![s] = st]
        /\ IF lineage[s] = <<>> THEN lineage' = [lineage EXCEPT ![s] = <<st>>]
                                ELSE lineage' = lineage /\ lineage[s][1] = st
    /\ UNCHANGED <<reviews, decisions, applications, opened, decided, applied, processed,
                   judged, basis, job, overlapped>>

\* _validate_new_obligation with append_event: nothing else is open, or was
\* ever journalled, under the identity.
NewReview(r) ==
    /\ r.id \notin Ids(reviews)
    /\ \A q \in opened : q.id = r.id => q = r

\* Faulty: only the sidecar is written.
OpenObligationUnjournalled(r) ==
    /\ NewReview(r)
    /\ reviews' = reviews \cup {r}
    /\ UNCHANGED <<states, decisions, applications, journal, judged, basis, job, overlapped>>

\* open_obligation: no target check and no processed marker.
OpenObligation(r) ==
    /\ NewReview(r)
    /\ reviews' = reviews \cup {r}
    /\ opened' = opened \cup {r}
    /\ UNCHANGED <<states, decisions, applications, lineage, decided, applied, processed,
                   judged, basis, job, overlapped>>

\* review_decision_input_matches, rechecked by persistence.record_decision.
ReviewInputMatches(g) ==
    /\ g.refs # {} /\ g.refs \subseteq Ids(reviews)
    /\ \A id \in g.refs : id.target = g.target /\ id.context = g.context

\* record_decision of the lifecycle and of the persistence: the snapshot checks
\* of the first are made again by the transaction of the second.  The author
\* may have looked at an earlier state.
RecordDecision(d, g) ==
    /\ decisions[d] = None /\ Appendable(decided[d], g)
    /\ states[g.target] # None
    /\ ReviewInputMatches(g)
    /\ decisions' = [decisions EXCEPT ![d] = g]
    /\ decided' = [decided EXCEPT ![d] = g]
    /\ UNCHANGED <<states, reviews, applications, lineage, opened, applied, processed,
                   judged, basis, job, overlapped>>

\* A basis record is rewritten in the canonical store.
TouchBasis(e) ==
    /\ basis[e] < MaxTouches
    /\ basis' = [basis EXCEPT ![e] = @ + 1]
    /\ UNCHANGED <<sidecar, journal, judged, job, overlapped>>

--------------------------------------------------------------------------------
(* observe_change and observe_outcome_confirmed *)

\* Start with an unprocessed event and the schemes it affects; an outcome
\* without a declared dependency is answered not-declared.
Observe(w, e, c, targets) ==
    /\ job[w] = Idle
    /\ processed[e] = None
    /\ e \in Outcomes => targets # {}
    /\ job' = [job EXCEPT ![w] = [kind |-> "observe", event |-> e, context |-> c,
                                  todo |-> targets, ready |-> {}, lost |-> FALSE]]
    /\ UNCHANGED <<sidecar, journal, judged, basis, overlapped>>

\* project_review_obligation_from_disposition: the review for one target, which
\* invalidates the decisions recorded for it so far.
Projection(e, s, c, action) ==
    [id |-> [event |-> e, target |-> s, context |-> c],
     action |-> action,
     invalidates |-> {d \in Decisions : /\ decisions[d] # None
                                        /\ decisions[d].target = s
                                        /\ decisions[d].context = c}]

\* Faulty: every attempt asks the policy.
JudgedAgain(key, action) == TRUE

\* commit_outcome_impact_judgment: a judgment already durable is replayed before
\* any policy is asked.
Judged(key, action) == judged[key] \in {None, action}

\* The loop body for one affected scheme.  A target without a state leaves the
\* event unprocessed, whether the disposition blocks or not.
Project(w, s, action) ==
    LET j == job[w]
        key == <<j.event, s, j.context>>
    IN  /\ j.kind = "observe" /\ s \in j.todo
        /\ IF j.event \in Outcomes
           THEN Judged(key, action) /\ judged' = [judged EXCEPT ![key] = action]
           ELSE judged' = judged
        /\ job' = [job EXCEPT ![w].todo = @ \ {s},
                              ![w].ready = IF action = "none" \/ states[s] = None THEN @
                                           ELSE @ \cup {Projection(j.event, s, j.context, action)},
                              ![w].lost = @ \/ (action # "none" /\ states[s] = None)]
        /\ UNCHANGED <<sidecar, journal, basis, overlapped>>

\* Faulty: the marker is not read again, and reviews already open are skipped.
CommitEventAgain(w) ==
    LET j == job[w]
        new == {r \in j.ready : NewReview(r)}
    IN  /\ j.kind = "observe" /\ j.todo = {} /\ ~j.lost
        /\ reviews' = reviews \cup new
        /\ opened' = opened \cup new
        /\ processed' = [processed EXCEPT ![j.event] = Ids(new)]
        /\ job' = [job EXCEPT ![w] = Idle]
        /\ UNCHANGED <<states, decisions, applications, lineage, decided, applied, judged,
                       basis, overlapped>>

\* commit_event_obligations: every review of the event, and its marker.
CommitEvent(w) ==
    LET j == job[w]
    IN  /\ j.kind = "observe" /\ j.todo = {} /\ ~j.lost
        /\ processed[j.event] = None
        /\ \A r \in j.ready : NewReview(r)
        /\ reviews' = reviews \cup j.ready
        /\ opened' = opened \cup j.ready
        /\ processed' = [processed EXCEPT ![j.event] = Ids(j.ready)]
        /\ job' = [job EXCEPT ![w] = Idle]
        /\ UNCHANGED <<states, decisions, applications, lineage, decided, applied, judged,
                       basis, overlapped>>

--------------------------------------------------------------------------------
(* apply_state and discharge: a snapshot, its judgment, the commit *)

\* _snapshot, first read: the states.
ReadStates(w) ==
    /\ job[w] = Idle
    /\ job' = [job EXCEPT ![w] = [kind |-> "states", states |-> states]]
    /\ UNCHANGED <<sidecar, journal, judged, basis, overlapped>>

\* _snapshot, second read: the open reviews.
ReadReviews(w) ==
    /\ job[w].kind = "states"
    /\ job' = [job EXCEPT ![w] = [kind |-> "snapshot", states |-> job[w].states,
                                  reviews |-> reviews]]
    /\ UNCHANGED <<sidecar, journal, judged, basis, overlapped>>

\* common_decision_freshness
CommonFreshness(d, rs) ==
    decisions[d] # None /\ BasisUnchanged(decisions[d]) /\ NotInvalidated(d, rs)

\* The last reads of _snapshot and application_admissible: the receipt of a
\* state transition by application a under decision d.
AdmitState(w, a, d, move) ==
    LET j == job[w]
        g == decisions[d]
        next == Candidate(g.expected, move)
    IN  /\ j.kind = "snapshot"
        /\ CommonFreshness(d, j.reviews)
        /\ j.states[g.target] = g.expected
        /\ applications[a] = None
        /\ g.ruling.disposition = "transition_required"
        /\ StateAdmissible(next) /\ EffectMatches(g, next)
        /\ job' = [job EXCEPT ![w] =
                [kind |-> "commit", app |-> a,
                 receipt |-> [kind |-> "state", decision |-> d, target |-> g.target,
                              pre |-> g.expected, post |-> next]]]
        /\ UNCHANGED <<sidecar, journal, judged, basis, overlapped>>

\* required_transition_realized, with the application the caller names.
TransitionRealized(d, st) ==
    /\ decisions[d].ruling.disposition = "transition_required"
    /\ \E a \in Applications :
        /\ applications[a] # None /\ applications[a].kind = "state"
        /\ applications[a].decision = d
        /\ applications[a].pre = decisions[d].expected
        /\ applications[a].post = st
    /\ EffectMatches(decisions[d], st) /\ StateAdmissible(st)

\* Faulty: the decision alone suffices.
FreshOnceDecided(d, st) == decisions[d] # None

\* decision_fresh_for_discharge, after the common part.
FreshForDischarge(d, st) ==
    \/ decisions[d].ruling.disposition = "no_change" /\ st = decisions[d].expected
    \/ TransitionRealized(d, st)

\* The last reads of _snapshot and discharge_admissible: the receipt of the
\* discharge of review r by application a under decision d.
AdmitDischarge(w, a, d, r) ==
    LET j == job[w]
        g == decisions[d]
    IN  /\ j.kind = "snapshot" /\ r \in j.reviews
        /\ CommonFreshness(d, j.reviews)
        /\ j.states[g.target] # None
        /\ applications[a] = None
        /\ r.id \in g.refs
        /\ ClosureRequirements(r.action) \subseteq g.ruling.facts
        /\ FreshForDischarge(d, j.states[g.target])
        /\ job' = [job EXCEPT ![w] =
                [kind |-> "commit", app |-> a,
                 receipt |-> [kind |-> "review_discharge", decision |-> d, review |-> r.id,
                              pre |-> Ids(j.reviews), post |-> Ids(j.reviews) \ {r.id}]]]
        /\ UNCHANGED <<sidecar, journal, judged, basis, overlapped>>

\* What both commits recheck: a fresh application id, the decision and its basis.
Committable(a, receipt) ==
    /\ applications[a] = None /\ Appendable(applied[a], receipt)
    /\ decisions[receipt.decision] # None
    /\ BasisUnchanged(decisions[receipt.decision])

\* Faulty: the current state is not compared with the receipt's.
CommitStateBlind(w) ==
    LET a == job[w].app
        p == job[w].receipt
        s == p.target
    IN  /\ job[w].kind = "commit" /\ p.kind = "state"
        /\ Committable(a, p)
        /\ states' = [states EXCEPT ![s] = p.post]
        /\ applications' = [applications EXCEPT ![a] = p]
        /\ lineage' = [lineage EXCEPT ![s] = Append(@, p.post)]
        /\ applied' = [applied EXCEPT ![a] = p]
        /\ job' = [job EXCEPT ![w] = Idle]
        /\ UNCHANGED <<reviews, decisions, opened, decided, processed, judged, basis,
                       overlapped>>

\* commit_state_application
CommitState(w) ==
    LET a == job[w].app
        p == job[w].receipt
        s == p.target
    IN  /\ job[w].kind = "commit" /\ p.kind = "state"
        /\ Committable(a, p)
        /\ states[s] = p.pre /\ p.pre = decisions[p.decision].expected
        /\ states' = [states EXCEPT ![s] = p.post]
        /\ applications' = [applications EXCEPT ![a] = p]
        /\ lineage' = IF applied[a] = None
                      THEN [lineage EXCEPT ![s] = Append(@, p.post)] ELSE lineage
        /\ applied' = [applied EXCEPT ![a] = p]
        /\ job' = [job EXCEPT ![w] = Idle]
        /\ UNCHANGED <<reviews, decisions, opened, decided, processed, judged, basis,
                       overlapped>>

\* commit_review_discharge
CommitDischarge(w) ==
    LET a == job[w].app
        p == job[w].receipt
    IN  /\ job[w].kind = "commit" /\ p.kind = "review_discharge"
        /\ Committable(a, p)
        /\ p.review \in Ids(reviews)
        /\ p.review \in decisions[p.decision].refs
        /\ p.pre = Ids(reviews)
        /\ reviews' = {r \in reviews : r.id # p.review}
        /\ applications' = [applications EXCEPT ![a] = p]
        /\ applied' = [applied EXCEPT ![a] = p]
        /\ job' = [job EXCEPT ![w] = Idle]
        /\ UNCHANGED <<states, decisions, lineage, opened, decided, processed, judged, basis,
                       overlapped>>

--------------------------------------------------------------------------------
(* GovernanceUseAdmission.evaluate *)

UseStatus(s, c) ==
    IF HistoryState(s) = None THEN "unavailable"
    ELSE IF Usable(HistoryState(s), HistoryReviews, s, c) THEN "allowed" ELSE "blocked"

\* First read of the journal, and its judgment.
UseRead(w, s, c) ==
    /\ job[w] = Idle
    /\ job' = [job EXCEPT ![w] = [kind |-> "use", scheme |-> s, context |-> c,
                                  status |-> UseStatus(s, c), seen |-> HistorySize]]
    /\ UNCHANGED <<sidecar, journal, judged, basis, overlapped>>

\* Faulty: the journal is not read a second time.
UseUnchecked(w) ==
    LET j == job[w]
    IN  /\ j.kind = "use"
        /\ job' = [job EXCEPT ![w] = [kind |-> "verdict", scheme |-> j.scheme,
                                      context |-> j.context, status |-> j.status]]
        /\ UNCHANGED <<sidecar, journal, judged, basis, overlapped>>

\* Second read: the judgment stands only if the journal has not moved.
UseRecheck(w) ==
    LET j == job[w]
    IN  /\ j.kind = "use"
        /\ job' = [job EXCEPT ![w] =
                [kind |-> "verdict", scheme |-> j.scheme, context |-> j.context,
                 status |-> IF j.seen = HistorySize THEN j.status ELSE "stale"]]
        /\ UNCHANGED <<sidecar, journal, judged, basis, overlapped>>

--------------------------------------------------------------------------------
(* rebuild_projection_from_canonical_history *)

\* The journal is read and folded before the transaction begins.
RebuildRead(w) ==
    /\ job[w] = Idle
    /\ job' = [job EXCEPT ![w] =
            [kind |-> "rebuild", states |-> [s \in Schemes |-> HistoryState(s)],
             reviews |-> HistoryReviews, decisions |-> decided, applications |-> applied,
             seen |-> HistorySize]]
    /\ UNCHANGED <<sidecar, journal, judged, basis, overlapped>>

\* The sidecar is cleared and refilled.
RebuildCommit(w) ==
    LET j == job[w]
    IN  /\ j.kind = "rebuild"
        /\ states' = j.states /\ reviews' = j.reviews
        /\ decisions' = j.decisions /\ applications' = j.applications
        /\ overlapped' = (overlapped \/ j.seen # HistorySize)
        /\ job' = [job EXCEPT ![w] = Idle]
        /\ UNCHANGED <<journal, judged, basis>>

\* A call is refused by a check, raises, returns, or its process dies.
GiveUp(w) ==
    /\ job[w] # Idle
    /\ job' = [job EXCEPT ![w] = Idle]
    /\ UNCHANGED <<sidecar, journal, judged, basis, overlapped>>

--------------------------------------------------------------------------------

Init ==
    /\ states = [s \in Schemes |-> None]
    /\ reviews = {} /\ opened = {}
    /\ decisions = [d \in Decisions |-> None] /\ decided = decisions
    /\ applications = [a \in Applications |-> None] /\ applied = applications
    /\ lineage = [s \in Schemes |-> <<>>]
    /\ processed = [e \in Changes \cup Outcomes |-> None]
    /\ judged = [key \in Outcomes \X Schemes \X Contexts |-> None]
    /\ basis = [e \in Events |-> 0]
    /\ job = [w \in Workers |-> Idle]
    /\ overlapped = FALSE

\* Reviews a caller of open_obligation asks for; they block unless it says otherwise.
ManualReviews ==
    [id : [event : Manual, target : Schemes, context : Contexts],
     action : Policies \cap BlockingActions, invalidates : {{}}]

\* An author rules on open reviews of one scheme with the basis anchors just
\* captured, and a state that may be older than the current one.
Decide(d) ==
    \E s \in Schemes, c \in Contexts, refs \in SUBSET Ids(reviews), ruling \in Rulings :
        \E i \in DOMAIN lineage[s] :
            RecordDecision(d, [target |-> s, context |-> c, refs |-> refs,
                               expected |-> lineage[s][i],
                               basis |-> [id \in refs |-> basis[id.event]],
                               ruling |-> ruling])

Next ==
    \/ \E s \in Schemes : SeedState(s)
    \/ \E r \in ManualReviews : OpenObligation(r)
    \/ \E d \in Decisions : Decide(d)
    \/ \E e \in Events : TouchBasis(e)
    \/ \E w \in Workers :
        \/ \E e \in Changes \cup Outcomes, c \in Contexts, targets \in SUBSET Schemes :
            Observe(w, e, c, targets)
        \/ \E s \in Schemes, action \in Policies : Project(w, s, action)
        \/ CommitEvent(w)
        \/ ReadStates(w) \/ ReadReviews(w)
        \/ \E a \in Applications, d \in Decisions, move \in Moves : AdmitState(w, a, d, move)
        \/ \E a \in Applications, d \in Decisions, r \in opened : AdmitDischarge(w, a, d, r)
        \/ CommitState(w) \/ CommitDischarge(w)
        \/ \E s \in Schemes, c \in Contexts : UseRead(w, s, c)
        \/ UseRecheck(w)
        \/ RebuildRead(w) \/ RebuildCommit(w)
        \/ GiveUp(w)

Spec == Init /\ [][Next]_vars

--------------------------------------------------------------------------------
(* Properties *)

IsDecision(g) ==
    /\ g.target \in Schemes /\ g.context \in Contexts
    /\ g.refs \subseteq ReviewId /\ g.basis \in [g.refs -> 0..MaxTouches]
    /\ g.expected \in State /\ g.ruling \in Rulings

\* Every part of the store holds values of its kind: what the persisted models
\* of persistence.py validate.
TypeOK ==
    /\ states \in [Schemes -> State \cup {None}]
    /\ reviews \subseteq Review /\ opened \subseteq Review
    /\ DOMAIN decisions = Decisions /\ DOMAIN decided = Decisions
    /\ \A d \in Decisions : /\ decisions[d] # None => IsDecision(decisions[d])
                            /\ decided[d] # None => IsDecision(decided[d])
    /\ applications \in [Applications -> Receipt \cup {None}]
    /\ applied \in [Applications -> Receipt \cup {None}]
    /\ lineage \in [Schemes -> Seq(State)]
    /\ processed \in [Changes \cup Outcomes -> (SUBSET ReviewId) \cup {None}]
    /\ judged \in [Outcomes \X Schemes \X Contexts -> Policies \cup {None}]
    /\ basis \in [Events -> 0..MaxTouches]
    /\ overlapped \in BOOLEAN

\* The sidecar is what a rebuild from the canonical journal would produce, for
\* every interleaving of commits: the invariant persistence.py's rebuild relies
\* on.  Excepted are reviews opened again under an identity already discharged,
\* which the journal cannot express, and stores on which a rebuild overlapped a
\* commit.
ProjectionMatchesJournal ==
    ~overlapped =>
        /\ \A s \in Schemes : states[s] = HistoryState(s)
        /\ {r \in reviews : r.id \notin Discharged} = HistoryReviews
        /\ decisions = decided /\ applications = applied

\* The states of a scheme form one chain: every applied state starts from the
\* one before it, so that no two applications are based on the same state
\* (commit_state_application's pre-anchor recheck).
StatesFormChain ==
    ~overlapped => \A s \in Schemes :
        /\ \A i \in DOMAIN lineage[s] : lineage[s][i].version = i - 1
        /\ \A a \in Applications :
            applied[a] # None /\ applied[a].kind = "state" /\ applied[a].target = s =>
                \E i \in 2..Len(lineage[s]) :
                    lineage[s][i - 1] = applied[a].pre /\ lineage[s][i] = applied[a].post

\* An event instance opens its reviews all together and once, however many
\* workers observe it and whatever their policies say (commit_event_obligations).
ProcessedOnce ==
    \A e \in Changes \cup Outcomes :
        {r.id : r \in {q \in opened : q.id.event = e}} =
            IF processed[e] = None THEN {} ELSE processed[e]

\* A review opened by an outcome carries the disposition that is durable for it,
\* although the policy may have changed between two attempts
\* (prepare_outcome_impact_commit replays before it asks).
DispositionIsDurable ==
    \A r \in opened : r.id.event \in Outcomes =>
        judged[<<r.id.event, r.id.target, r.id.context>>] = r.action

\* A discharged review was cited by the decision that discharged it, its closure
\* facts were given, and a required transition had been committed under that
\* decision (discharge_admissible and commit_review_discharge).
DischargeIsBacked ==
    \A a \in Applications : applied[a] # None /\ applied[a].kind = "review_discharge" =>
        LET g == decided[applied[a].decision]
        IN  /\ g # None /\ applied[a].review \in g.refs
            /\ \E r \in opened : r.id = applied[a].review
                                 /\ ClosureRequirements(r.action) \subseteq g.ruling.facts
            /\ g.ruling.disposition = "transition_required" =>
                \E b \in Applications :
                    /\ applied[b] # None /\ applied[b].kind = "state"
                    /\ applied[b].decision = applied[a].decision /\ applied[b].pre = g.expected

\* A use is allowed only if the journal, when the verdict is given, has the
\* scheme qualified and active with no blocking review open: the verdict cannot
\* be overtaken between its two reads (evaluate).
AllowedUseIsCurrent ==
    [][\A w \in Workers :
           job'[w] # job[w] /\ job'[w].kind = "verdict" /\ job'[w].status = "allowed" =>
               LET v == job'[w] IN
               /\ HistoryState(v.scheme) # None
               /\ Usable(HistoryState(v.scheme), HistoryReviews, v.scheme, v.context)]_vars

================================================================================
