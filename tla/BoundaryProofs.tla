---------------------------- MODULE BoundaryProofs ----------------------------
(***************************************************************************)
(* Proofs about Boundary, for any requests, providers, owners, limits and  *)
(* answers, and any number of changes of the world.                        *)
(*                                                                         *)
(* The argument follows one request through execute(): which phases it     *)
(* must have passed to have records, a dispatch commitment and an answer,  *)
(* and that no other request's step writes to them.  Three facts about the *)
(* world carry it: a lease generation, a governance snapshot and a facts   *)
(* version that are still current prove that nothing changed since they    *)
(* were captured, because every change makes a greater one.                *)
(***************************************************************************)
EXTENDS Boundary, FiniteSetTheorems, TLAPS

\* The provider of a request that was routed.
Routed ==
    \A r \in Requests :
        pc[r] \in {"routed", "precommitted", "requalified"} => target[r].provider \in Providers

\* What an unprojected result can be.
Answered ==
    \A r \in Requests : pc[r] = "returned" => result[r] \in Answers

\* A provider is called in one phase, after which the request never returns to
\* an earlier one.
TouchedLate == \A r \in touched : pc[r] \in {"invoking", "returned", "done", "dead"}

\* Whoever can still reach a provider, or did, has its records.
Recorded ==
    \A r \in SideEffects :
        r \in touched \/ pc[r] \in InFlight \cup {"returned"} =>
            attempts[r] # None /\ actions[r] # None

\* Whoever is past the dispatch commit holds it.
Committed ==
    \A r \in Governed :
        r \in touched \/ pc[r] \in {"dispatched", "invoking"} =>
            /\ commits[r] # None
            /\ commits[r].allowed
            /\ commits[r].snap = basis[r].gov
            /\ attempts[r] # None => attempts[r].committed

\* Only the dispatch commit binds an attempt.
Unbound ==
    \A r \in Requests \ Governed : attempts[r] # None => ~attempts[r].committed

\* A call that ended without a provider's answer is over, and never reached one.
Refused == \A r \in Requests : result[r] \in Refusals => pc[r] = "done" /\ r \notin touched

\* A request carries no generation later than the lease's, and an earlier one
\* if it was overtaken.
Overtaken ==
    /\ \A r \in Requests : claim[r].generation <= lease.generation
    /\ \A r \in overtaken : /\ pc[r] \in {"invoking", "returned", "done", "dead"}
                            /\ pc[r] = "invoking" => claim[r].generation < lease.generation
                            /\ pc[r] = "returned" => FALSE

\* What a request captured is the truth if its version is current.
Captured ==
    \A r \in Requests : pc[r] \in {"policy", "health", "routed", "precommitted"} =>
        /\ basis[r].facts <= facts.version
        /\ basis[r].facts = facts.version => basis[r].granted = facts.granted

\* A side effect that cites its grant was granted it.
Granted ==
    \A r \in SideEffects \cap Referenced :
        pc[r] \in {"health", "routed", "precommitted"} => basis[r].granted

BInv ==
    /\ TypeOK
    /\ Routed
    /\ Answered
    /\ TouchedLate
    /\ Recorded
    /\ Committed
    /\ Unbound
    /\ Refused
    /\ Overtaken
    /\ SucceededIsDurable
    /\ Captured
    /\ Granted
    /\ AccountingBalanced

-----------------------------------------------------------------------------
(* Types.                                                                  *)

\* Replacing one value of a function by another of the right type.
LEMMA SetTyped ==
    ASSUME NEW D, NEW T, NEW f \in [D -> T], NEW d \in D, NEW v \in T
    PROVE  Set(f, d, v) \in [D -> T]
BY DEF Set

\* The records the actions write.
LEMMA AttemptTyped ==
    ASSUME NEW s \in RecordStatus, NEW c \in BOOLEAN
    PROVE  [status |-> s, committed |-> c] \in StepAttempt
BY DEF StepAttempt

\* An attempt bound to a dispatch commitment is a record.
LEMMA BoundIsSome ==
    ASSUME NEW s \in RecordStatus PROVE [status |-> s, committed |-> TRUE] # None
<1>1. TRUE \in BOOLEAN
  OBVIOUS
<1>2. [status |-> s, committed |-> TRUE] \in StepAttempt
  BY <1>1, AttemptTyped
<1>3. \A x \in StepAttempt : x # None
  BY RecordAssumption
<1> QED BY <1>2, <1>3

\* The Step the actions write.
LEMMA StepTyped ==
    ASSUME NEW s \in RecordStatus, NEW a \in Requests \cup {None}
    PROVE  [status |-> s, attempt |-> a] \in Step
BY DEF Step

\* The status projected for an answer is one a record may have.
LEMMA ProjectedTyped ==
    ASSUME NEW s \in Answers \cup {"unknown"}
    PROVE  Projected(s) \in RecordStatus
BY BoundaryAssumption DEF Projected, RecordStatus

\* A request's attempt, if it has one, with its fields.
LEMMA AttemptFields ==
    ASSUME TypeOK, NEW r \in Requests, attempts[r] # None
    PROVE  attempts[r].status \in RecordStatus /\ attempts[r].committed \in BOOLEAN
<1>1. attempts[r] \in StepAttempt
  BY DEF TypeOK
<1> QED BY <1>1 DEF StepAttempt

\* What a precommit saves has the records' types.
LEMMA SaveRecordsTyped ==
    ASSUME TypeOK, NEW r \in Requests, SaveRecords(r)
    PROVE  /\ step' \in Step
           /\ attempts' \in [Requests -> StepAttempt \cup {None}]
           /\ actions' \in [Requests -> RecordStatus \cup {None}]
<1>1. "running" \in RecordStatus /\ step.attempt \in Requests \cup {None}
  BY DEF RecordStatus, TypeOK, Step
<1>2. [status |-> "running", committed |-> FALSE] \in StepAttempt
  BY <1>1, AttemptTyped
<1>3. Set(attempts, r, [status |-> "running", committed |-> FALSE])
          \in [Requests -> StepAttempt \cup {None}]
  BY <1>2, SetTyped DEF TypeOK
<1>4. Set(actions, r, "running") \in [Requests -> RecordStatus \cup {None}]
  BY <1>1, SetTyped DEF TypeOK
<1>5. /\ [status |-> "running", attempt |-> r] \in Step
      /\ [status |-> "running", attempt |-> step.attempt] \in Step
  BY <1>1, StepTyped
<1> QED BY <1>3, <1>4, <1>5 DEF SaveRecords, TypeOK

\* Every action keeps every variable in its type.
LEMMA TypeStep == TypeOK /\ Routed /\ Answered /\ [Next]_vars => TypeOK'
<1> SUFFICES ASSUME TypeOK, Routed, Answered, [Next]_vars PROVE TypeOK'
  OBVIOUS
<1> USE BoundaryAssumption, LeaseAssumption
    DEF Routed, Lease, Phases, Refusals, world, memory, store, calls
<1>1. ASSUME NEW r \in Requests, Admit(r) PROVE TypeOK'
  BY <1>1 DEF Admit, AssessmentContext, Set, TypeOK
<1>2. ASSUME NEW r \in Requests, Refuse(r) PROVE TypeOK'
  BY <1>2 DEF Refuse, Set, TypeOK
<1>3. ASSUME NEW r \in Requests, Assess(r) PROVE TypeOK'
  BY <1>3 DEF Assess, Set, TypeOK
<1>4. ASSUME NEW r \in Requests, NEW p \in Providers, Select(r, p) PROVE TypeOK'
  BY <1>4 DEF Select, Set, TypeOK
<1>5. ASSUME NEW r \in Requests, Precommit(r) PROVE TypeOK'
  <2>1. SaveRecords(r)
    BY <1>5 DEF Precommit, Precommitted
  <2>2. /\ step' \in Step
        /\ attempts' \in [Requests -> StepAttempt \cup {None}]
        /\ actions' \in [Requests -> RecordStatus \cup {None}]
    BY <2>1, SaveRecordsTyped
  <2>3. pc' \in [Requests -> Phases] /\ active' \in Nat /\ spent' \in Nat
    BY <1>5 DEF Precommit, Set, TypeOK
  <2>4. target' \in [Requests -> [provider : Providers \cup {None}, inc : Nat]]
    <3>1. target[r].provider \in Providers
      BY <1>5 DEF Precommit, Precommitted
    <3> QED BY <1>5, <3>1 DEF Precommit, Set, TypeOK
  <2> QED BY <1>5, <2>2, <2>3, <2>4 DEF Precommit, TypeOK
<1>6. ASSUME NEW r \in Requests, LookupFails(r) PROVE TypeOK'
  <2>1. SaveRecords(r)
    BY <1>6 DEF LookupFails, Precommitted
  <2>2. /\ step' \in Step
        /\ attempts' \in [Requests -> StepAttempt \cup {None}]
        /\ actions' \in [Requests -> RecordStatus \cup {None}]
    BY <2>1, SaveRecordsTyped
  <2>3. pc' \in [Requests -> Phases] /\ spent' \in Nat
    BY <1>6 DEF LookupFails, Set, TypeOK
  <2>4. result' \in [Requests -> Answers \cup Refusals \cup {"unknown"} \cup {None}]
    BY <1>6 DEF LookupFails, Set, TypeOK
  <2> QED BY <1>6, <2>2, <2>3, <2>4 DEF LookupFails, TypeOK
<1>7. ASSUME NEW r \in Requests, Requalify(r) PROVE TypeOK'
  BY <1>7 DEF Requalify, Set, TypeOK
<1>8. ASSUME NEW r \in Requests, Abort(r) PROVE TypeOK'
  <2>1. "cancelled" \in RecordStatus /\ step.attempt \in Requests \cup {None}
    BY DEF RecordStatus, TypeOK, Step
  <2>2. [status |-> "cancelled", attempt |-> step.attempt] \in Step
    BY <2>1, StepTyped
  <2>3. Set(attempts, r, [status |-> "cancelled", committed |-> FALSE])
            \in [Requests -> StepAttempt \cup {None}]
    BY <2>1, AttemptTyped, SetTyped DEF TypeOK
  <2>4. Set(actions, r, "cancelled") \in [Requests -> RecordStatus \cup {None}]
    BY <2>1, SetTyped DEF TypeOK
  <2>5. /\ step' \in Step
        /\ attempts' \in [Requests -> StepAttempt \cup {None}]
        /\ actions' \in [Requests -> RecordStatus \cup {None}]
    BY <1>8, <2>2, <2>3, <2>4 DEF Abort, CancelRecords, TypeOK
  <2>6. pc' \in [Requests -> Phases] /\ active' \in Nat
    BY <1>8 DEF Abort, CancelRecords, CompleteAction, Set, TypeOK
  <2>7. result' \in [Requests -> Answers \cup Refusals \cup {"unknown"} \cup {None}]
    BY <1>8 DEF Abort, CancelRecords, Set, TypeOK
  <2> QED BY <1>8, <2>5, <2>6, <2>7 DEF Abort, CancelRecords, TypeOK
<1>9. ASSUME NEW r \in Requests, Dispatch(r) PROVE TypeOK'
  <2>1. [snap |-> gov.snap, allowed |-> gov.allowed] \in DispatchCommit
    BY DEF TypeOK, DispatchCommit
  <2>2. Set(commits, r, [snap |-> gov.snap, allowed |-> gov.allowed])
            \in [Requests -> DispatchCommit \cup {None}]
    BY <2>1, SetTyped DEF TypeOK
  <2>3. attempts[r] # None =>
            Set(attempts, r, [status |-> attempts[r].status, committed |-> TRUE])
                \in [Requests -> StepAttempt \cup {None}]
    BY AttemptFields, AttemptTyped, SetTyped DEF TypeOK
  <2>4. /\ commits' \in [Requests -> DispatchCommit \cup {None}]
        /\ attempts' \in [Requests -> StepAttempt \cup {None}]
    BY <1>9, <2>2, <2>3 DEF Dispatch, TypeOK
  <2>5. pc' \in [Requests -> Phases]
    BY <1>9 DEF Dispatch, Set, TypeOK
  <2> QED BY <1>9, <2>4, <2>5 DEF Dispatch, TypeOK
<1>10. ASSUME NEW r \in Requests, Invoke(r) PROVE TypeOK'
  BY <1>10 DEF Invoke, Set, TypeOK
<1>11. ASSUME NEW r \in Requests, NEW s \in Answers, Return(r, s) PROVE TypeOK'
  BY <1>11 DEF Return, CompleteAction, Set, TypeOK
<1>12. ASSUME NEW r \in Requests, ReturnFenced(r) PROVE TypeOK'
  <2>1. "unknown" \in RecordStatus /\ step.attempt \in Requests \cup {None}
    BY DEF RecordStatus, TypeOK, Step
  <2>2. [status |-> "unknown", attempt |-> step.attempt] \in Step
    BY <2>1, StepTyped
  <2>3. attempts[r] # None =>
            Set(attempts, r, [status |-> "unknown", committed |-> attempts[r].committed])
                \in [Requests -> StepAttempt \cup {None}]
    BY <2>1, AttemptFields, AttemptTyped, SetTyped DEF TypeOK
  <2>4. step' \in Step /\ attempts' \in [Requests -> StepAttempt \cup {None}]
    BY <1>12, <2>2, <2>3 DEF ReturnFenced, TypeOK
  <2>5. pc' \in [Requests -> Phases] /\ active' \in Nat
    BY <1>12 DEF ReturnFenced, CompleteAction, Set, TypeOK
  <2>6. result' \in [Requests -> Answers \cup Refusals \cup {"unknown"} \cup {None}]
    BY <1>12 DEF ReturnFenced, Set, TypeOK
  <2> QED BY <1>12, <2>4, <2>5, <2>6 DEF ReturnFenced, TypeOK
<1>13. ASSUME NEW r \in Requests, Cancel(r) PROVE TypeOK'
  BY <1>13 DEF Cancel, CompleteAction, Set, TypeOK
<1>14. ASSUME NEW r \in Requests, Project(r) PROVE TypeOK'
  <2> DEFINE s == Projected(result[r])
  <2>1. s \in RecordStatus
    BY <1>14, ProjectedTyped DEF Project, Answered
  <2>2. step.attempt \in Requests \cup {None}
    BY DEF TypeOK, Step
  <2>3. [status |-> s, attempt |-> step.attempt] \in Step
    BY <2>1, <2>2, StepTyped
  <2>4. attempts[r] # None =>
            Set(attempts, r, [status |-> s, committed |-> attempts[r].committed])
                \in [Requests -> StepAttempt \cup {None}]
    BY <2>1, AttemptFields, AttemptTyped, SetTyped DEF TypeOK
  <2>5. Set(actions, r, s) \in [Requests -> RecordStatus \cup {None}]
    BY <2>1, SetTyped DEF TypeOK
  <2>6. /\ step' \in Step
        /\ attempts' \in [Requests -> StepAttempt \cup {None}]
        /\ actions' \in [Requests -> RecordStatus \cup {None}]
    BY <1>14, <2>3, <2>4, <2>5 DEF Project, TypeOK
  <2>7. pc' \in [Requests -> Phases]
    BY <1>14 DEF Project, Set, TypeOK
  <2> QED BY <1>14, <2>6, <2>7 DEF Project, TypeOK
<1>15. ASSUME NEW r \in Requests, ProjectFails(r) PROVE TypeOK'
  BY <1>15 DEF ProjectFails, Set, TypeOK
<1>16. ASSUME NEW granted \in BOOLEAN, ChangeFacts(granted) PROVE TypeOK'
  BY <1>16 DEF ChangeFacts, Change, Set, TypeOK
<1>17. ASSUME NEW allowed \in BOOLEAN, ChangeGovernance(allowed) PROVE TypeOK'
  BY <1>17 DEF ChangeGovernance, Change, Set, TypeOK
<1>18. ASSUME NEW p \in Providers, Unregister(p) PROVE TypeOK'
  BY <1>18 DEF Unregister, Change, Set, TypeOK
<1>19. ASSUME NEW p \in Providers, Register(p) PROVE TypeOK'
  BY <1>19 DEF Register, Change, Set, TypeOK
<1>20. ASSUME LeaseStep PROVE TypeOK'
  BY <1>20 DEF LeaseStep, Change, Acquire, Renew, Release, Tick, Set, TypeOK
<1>21. ASSUME Crash PROVE TypeOK'
  BY <1>21 DEF Crash, Change, Set, TypeOK
<1>22. CASE UNCHANGED vars
  BY <1>22 DEF vars, TypeOK
<1> QED BY <1>1, <1>2, <1>3, <1>4, <1>5, <1>6, <1>7, <1>8, <1>9, <1>10, <1>11, <1>12, <1>13, <1>14, <1>15, <1>16, <1>17, <1>18, <1>19, <1>20, <1>21, <1>22 DEF Next, Advance

-----------------------------------------------------------------------------
(* Inductive steps, one lemma per part of the invariant.                   *)

\* A request keeps the provider it was routed to.
LEMMA RoutedStep == TypeOK /\ Routed /\ [Next]_vars => Routed'
<1> SUFFICES ASSUME TypeOK, Routed, [Next]_vars PROVE Routed'
  OBVIOUS
<1> USE BoundaryAssumption, RecordAssumption
    DEF Routed, TypeOK, Set, world, memory, store, calls
<1>1. ASSUME NEW r \in Requests, Admit(r) PROVE Routed'
  BY <1>1 DEF Admit, AssessmentContext
<1>2. ASSUME NEW r \in Requests, Refuse(r) PROVE Routed'
  BY <1>2 DEF Refuse
<1>3. ASSUME NEW r \in Requests, Assess(r) PROVE Routed'
  BY <1>3 DEF Assess
<1>4. ASSUME NEW r \in Requests, NEW p \in Providers, Select(r, p) PROVE Routed'
  BY <1>4 DEF Select
<1>5. ASSUME NEW r \in Requests, Precommit(r) PROVE Routed'
  BY <1>5 DEF Precommit, Precommitted, SaveRecords
<1>6. ASSUME NEW r \in Requests, LookupFails(r) PROVE Routed'
  BY <1>6 DEF LookupFails, Precommitted, SaveRecords
<1>7. ASSUME NEW r \in Requests, Requalify(r) PROVE Routed'
  BY <1>7 DEF Requalify
<1>8. ASSUME NEW r \in Requests, Abort(r) PROVE Routed'
  BY <1>8 DEF Abort, CancelRecords, CompleteAction
<1>9. ASSUME NEW r \in Requests, Dispatch(r) PROVE Routed'
  BY <1>9 DEF Dispatch
<1>10. ASSUME NEW r \in Requests, Invoke(r) PROVE Routed'
  BY <1>10 DEF Invoke
<1>11. ASSUME NEW r \in Requests, NEW s \in Answers, Return(r, s) PROVE Routed'
  BY <1>11 DEF Return, CompleteAction
<1>12. ASSUME NEW r \in Requests, ReturnFenced(r) PROVE Routed'
  BY <1>12 DEF ReturnFenced, CompleteAction
<1>13. ASSUME NEW r \in Requests, Cancel(r) PROVE Routed'
  BY <1>13 DEF Cancel, CompleteAction
<1>14. ASSUME NEW r \in Requests, Project(r) PROVE Routed'
  BY <1>14 DEF Project, Projected
<1>15. ASSUME NEW r \in Requests, ProjectFails(r) PROVE Routed'
  BY <1>15 DEF ProjectFails
<1>16. ASSUME NEW granted \in BOOLEAN, ChangeFacts(granted) PROVE Routed'
  BY <1>16 DEF ChangeFacts, Change
<1>17. ASSUME NEW allowed \in BOOLEAN, ChangeGovernance(allowed) PROVE Routed'
  BY <1>17 DEF ChangeGovernance, Change
<1>18. ASSUME NEW p \in Providers, Unregister(p) PROVE Routed'
  BY <1>18 DEF Unregister, Change
<1>19. ASSUME NEW p \in Providers, Register(p) PROVE Routed'
  BY <1>19 DEF Register, Change
<1>20. ASSUME LeaseStep PROVE Routed'
  BY <1>20 DEF LeaseStep, Change, Acquire, Renew, Release, Tick
<1>21. ASSUME Crash PROVE Routed'
  BY <1>21 DEF Crash, Change
<1>22. CASE UNCHANGED vars
  BY <1>22 DEF vars
<1> QED BY <1>1, <1>2, <1>3, <1>4, <1>5, <1>6, <1>7, <1>8, <1>9, <1>10, <1>11, <1>12, <1>13, <1>14, <1>15, <1>16, <1>17, <1>18, <1>19, <1>20, <1>21, <1>22 DEF Next, Advance

\* Only a provider's answer is projected.
LEMMA AnsweredStep == TypeOK /\ Answered /\ [Next]_vars => Answered'
<1> SUFFICES ASSUME TypeOK, Answered, [Next]_vars PROVE Answered'
  OBVIOUS
<1> USE BoundaryAssumption, RecordAssumption
    DEF Answered, TypeOK, Set, world, memory, store, calls
<1>1. ASSUME NEW r \in Requests, Admit(r) PROVE Answered'
  BY <1>1 DEF Admit, AssessmentContext
<1>2. ASSUME NEW r \in Requests, Refuse(r) PROVE Answered'
  BY <1>2 DEF Refuse
<1>3. ASSUME NEW r \in Requests, Assess(r) PROVE Answered'
  BY <1>3 DEF Assess
<1>4. ASSUME NEW r \in Requests, NEW p \in Providers, Select(r, p) PROVE Answered'
  BY <1>4 DEF Select
<1>5. ASSUME NEW r \in Requests, Precommit(r) PROVE Answered'
  BY <1>5 DEF Precommit, Precommitted, SaveRecords
<1>6. ASSUME NEW r \in Requests, LookupFails(r) PROVE Answered'
  BY <1>6 DEF LookupFails, Precommitted, SaveRecords
<1>7. ASSUME NEW r \in Requests, Requalify(r) PROVE Answered'
  BY <1>7 DEF Requalify
<1>8. ASSUME NEW r \in Requests, Abort(r) PROVE Answered'
  BY <1>8 DEF Abort, CancelRecords, CompleteAction
<1>9. ASSUME NEW r \in Requests, Dispatch(r) PROVE Answered'
  BY <1>9 DEF Dispatch
<1>10. ASSUME NEW r \in Requests, Invoke(r) PROVE Answered'
  BY <1>10 DEF Invoke
<1>11. ASSUME NEW r \in Requests, NEW s \in Answers, Return(r, s) PROVE Answered'
  BY <1>11 DEF Return, CompleteAction
<1>12. ASSUME NEW r \in Requests, ReturnFenced(r) PROVE Answered'
  BY <1>12 DEF ReturnFenced, CompleteAction
<1>13. ASSUME NEW r \in Requests, Cancel(r) PROVE Answered'
  BY <1>13 DEF Cancel, CompleteAction
<1>14. ASSUME NEW r \in Requests, Project(r) PROVE Answered'
  BY <1>14 DEF Project, Projected
<1>15. ASSUME NEW r \in Requests, ProjectFails(r) PROVE Answered'
  BY <1>15 DEF ProjectFails
<1>16. ASSUME NEW granted \in BOOLEAN, ChangeFacts(granted) PROVE Answered'
  BY <1>16 DEF ChangeFacts, Change
<1>17. ASSUME NEW allowed \in BOOLEAN, ChangeGovernance(allowed) PROVE Answered'
  BY <1>17 DEF ChangeGovernance, Change
<1>18. ASSUME NEW p \in Providers, Unregister(p) PROVE Answered'
  BY <1>18 DEF Unregister, Change
<1>19. ASSUME NEW p \in Providers, Register(p) PROVE Answered'
  BY <1>19 DEF Register, Change
<1>20. ASSUME LeaseStep PROVE Answered'
  BY <1>20 DEF LeaseStep, Change, Acquire, Renew, Release, Tick
<1>21. ASSUME Crash PROVE Answered'
  BY <1>21 DEF Crash, Change
<1>22. CASE UNCHANGED vars
  BY <1>22 DEF vars
<1> QED BY <1>1, <1>2, <1>3, <1>4, <1>5, <1>6, <1>7, <1>8, <1>9, <1>10, <1>11, <1>12, <1>13, <1>14, <1>15, <1>16, <1>17, <1>18, <1>19, <1>20, <1>21, <1>22 DEF Next, Advance

\* No phase before the provider call is entered again.
LEMMA TouchedStep == TypeOK /\ TouchedLate /\ [Next]_vars => TouchedLate'
<1> SUFFICES ASSUME TypeOK, TouchedLate, [Next]_vars PROVE TouchedLate'
  OBVIOUS
<1> USE BoundaryAssumption, RecordAssumption
    DEF TouchedLate, TypeOK, Set, world, memory, store, calls
<1>1. ASSUME NEW r \in Requests, Admit(r) PROVE TouchedLate'
  BY <1>1 DEF Admit, AssessmentContext
<1>2. ASSUME NEW r \in Requests, Refuse(r) PROVE TouchedLate'
  BY <1>2 DEF Refuse
<1>3. ASSUME NEW r \in Requests, Assess(r) PROVE TouchedLate'
  BY <1>3 DEF Assess
<1>4. ASSUME NEW r \in Requests, NEW p \in Providers, Select(r, p) PROVE TouchedLate'
  BY <1>4 DEF Select
<1>5. ASSUME NEW r \in Requests, Precommit(r) PROVE TouchedLate'
  BY <1>5 DEF Precommit, Precommitted, SaveRecords
<1>6. ASSUME NEW r \in Requests, LookupFails(r) PROVE TouchedLate'
  BY <1>6 DEF LookupFails, Precommitted, SaveRecords
<1>7. ASSUME NEW r \in Requests, Requalify(r) PROVE TouchedLate'
  BY <1>7 DEF Requalify
<1>8. ASSUME NEW r \in Requests, Abort(r) PROVE TouchedLate'
  BY <1>8 DEF Abort, CancelRecords, CompleteAction
<1>9. ASSUME NEW r \in Requests, Dispatch(r) PROVE TouchedLate'
  BY <1>9 DEF Dispatch
<1>10. ASSUME NEW r \in Requests, Invoke(r) PROVE TouchedLate'
  BY <1>10 DEF Invoke
<1>11. ASSUME NEW r \in Requests, NEW s \in Answers, Return(r, s) PROVE TouchedLate'
  BY <1>11 DEF Return, CompleteAction
<1>12. ASSUME NEW r \in Requests, ReturnFenced(r) PROVE TouchedLate'
  BY <1>12 DEF ReturnFenced, CompleteAction
<1>13. ASSUME NEW r \in Requests, Cancel(r) PROVE TouchedLate'
  BY <1>13 DEF Cancel, CompleteAction
<1>14. ASSUME NEW r \in Requests, Project(r) PROVE TouchedLate'
  BY <1>14 DEF Project, Projected
<1>15. ASSUME NEW r \in Requests, ProjectFails(r) PROVE TouchedLate'
  BY <1>15 DEF ProjectFails
<1>16. ASSUME NEW granted \in BOOLEAN, ChangeFacts(granted) PROVE TouchedLate'
  BY <1>16 DEF ChangeFacts, Change
<1>17. ASSUME NEW allowed \in BOOLEAN, ChangeGovernance(allowed) PROVE TouchedLate'
  BY <1>17 DEF ChangeGovernance, Change
<1>18. ASSUME NEW p \in Providers, Unregister(p) PROVE TouchedLate'
  BY <1>18 DEF Unregister, Change
<1>19. ASSUME NEW p \in Providers, Register(p) PROVE TouchedLate'
  BY <1>19 DEF Register, Change
<1>20. ASSUME LeaseStep PROVE TouchedLate'
  BY <1>20 DEF LeaseStep, Change, Acquire, Renew, Release, Tick
<1>21. ASSUME Crash PROVE TouchedLate'
  BY <1>21 DEF Crash, Change
<1>22. CASE UNCHANGED vars
  BY <1>22 DEF vars
<1> QED BY <1>1, <1>2, <1>3, <1>4, <1>5, <1>6, <1>7, <1>8, <1>9, <1>10, <1>11, <1>12, <1>13, <1>14, <1>15, <1>16, <1>17, <1>18, <1>19, <1>20, <1>21, <1>22 DEF Next, Advance

\* Records exist from the precommit on, and are never removed.
LEMMA RecordedStep == TypeOK /\ Answered /\ TouchedLate /\ Recorded /\ [Next]_vars => Recorded'
<1> SUFFICES ASSUME TypeOK, Answered, TouchedLate, Recorded, [Next]_vars PROVE Recorded'
  OBVIOUS
<1> USE BoundaryAssumption, RecordAssumption
    DEF Recorded, TypeOK, TouchedLate, Set, world, memory, store, calls, InFlight, RecordStatus
<1>1. ASSUME NEW r \in Requests, Admit(r) PROVE Recorded'
  BY <1>1 DEF Admit, AssessmentContext
<1>2. ASSUME NEW r \in Requests, Refuse(r) PROVE Recorded'
  BY <1>2 DEF Refuse
<1>3. ASSUME NEW r \in Requests, Assess(r) PROVE Recorded'
  BY <1>3 DEF Assess
<1>4. ASSUME NEW r \in Requests, NEW p \in Providers, Select(r, p) PROVE Recorded'
  BY <1>4 DEF Select
<1>5. ASSUME NEW r \in Requests, Precommit(r) PROVE Recorded'
  <2>1. "running" \in RecordStatus /\ [status |-> "running", committed |-> FALSE] # None
    BY AttemptTyped
  <2>2. ASSUME NEW q \in SideEffects, q # r, q \in touched' \/ pc'[q] \in InFlight \cup {"returned"}
        PROVE  attempts'[q] # None /\ actions'[q] # None
    BY <1>5, <2>2 DEF Precommit, Precommitted, SaveRecords
  <2>3. ASSUME r \in SideEffects, r \in touched' \/ pc'[r] \in InFlight \cup {"returned"}
        PROVE  attempts'[r] # None /\ actions'[r] # None
    BY <1>5, <2>1, <2>3 DEF Precommit, Precommitted, SaveRecords
  <2> QED BY <2>2, <2>3
<1>6. ASSUME NEW r \in Requests, LookupFails(r) PROVE Recorded'
  <2>1. "running" \in RecordStatus /\ [status |-> "running", committed |-> FALSE] # None
    BY AttemptTyped
  <2>2. ASSUME NEW q \in SideEffects, q # r, q \in touched' \/ pc'[q] \in InFlight \cup {"returned"}
        PROVE  attempts'[q] # None /\ actions'[q] # None
    BY <1>6, <2>2 DEF LookupFails, Precommitted, SaveRecords
  <2>3. ASSUME r \in SideEffects, r \in touched' \/ pc'[r] \in InFlight \cup {"returned"}
        PROVE  attempts'[r] # None /\ actions'[r] # None
    BY <1>6, <2>1, <2>3 DEF LookupFails, Precommitted, SaveRecords
  <2> QED BY <2>2, <2>3
<1>7. ASSUME NEW r \in Requests, Requalify(r) PROVE Recorded'
  BY <1>7 DEF Requalify
<1>8. ASSUME NEW r \in Requests, Abort(r) PROVE Recorded'
  <2>1. "cancelled" \in RecordStatus /\ [status |-> "cancelled", committed |-> FALSE] # None
    BY AttemptTyped
  <2>2. ASSUME NEW q \in SideEffects, q # r, q \in touched' \/ pc'[q] \in InFlight \cup {"returned"}
        PROVE  attempts'[q] # None /\ actions'[q] # None
    BY <1>8, <2>2 DEF Abort, CancelRecords
  <2>3. ASSUME r \in SideEffects, r \in touched' \/ pc'[r] \in InFlight \cup {"returned"}
        PROVE  attempts'[r] # None /\ actions'[r] # None
    BY <1>8, <2>1, <2>3 DEF Abort, CancelRecords
  <2> QED BY <2>2, <2>3
<1>9. ASSUME NEW r \in Requests, Dispatch(r) PROVE Recorded'
  <2>2. ASSUME attempts[r] # None
        PROVE  [status |-> attempts[r].status, committed |-> TRUE] # None
    <3>1. attempts[r].status \in RecordStatus
      BY <2>2, AttemptFields
    <3> QED BY <3>1, BoundIsSome
  <2>3. ASSUME NEW q \in SideEffects, q # r, q \in touched' \/ pc'[q] \in InFlight \cup {"returned"}
        PROVE  attempts'[q] # None /\ actions'[q] # None
    BY <1>9, <2>3 DEF Dispatch
  <2>4. ASSUME r \in SideEffects, r \in touched' \/ pc'[r] \in InFlight \cup {"returned"}
        PROVE  attempts'[r] # None /\ actions'[r] # None
    BY <1>9, <2>2, <2>4 DEF Dispatch
  <2> QED BY <2>3, <2>4
<1>10. ASSUME NEW r \in Requests, Invoke(r) PROVE Recorded'
  BY <1>10 DEF Invoke
<1>11. ASSUME NEW r \in Requests, NEW s \in Answers, Return(r, s) PROVE Recorded'
  BY <1>11 DEF Return, CompleteAction
<1>12. ASSUME NEW r \in Requests, ReturnFenced(r) PROVE Recorded'
  <2>1. "unknown" \in RecordStatus
    OBVIOUS
  <2>2. attempts[r] # None => [status |-> "unknown", committed |-> attempts[r].committed] # None
    BY <2>1, AttemptTyped, AttemptFields
  <2>3. ASSUME NEW q \in SideEffects, q # r, q \in touched' \/ pc'[q] \in InFlight \cup {"returned"}
        PROVE  attempts'[q] # None /\ actions'[q] # None
    BY <1>12, <2>3 DEF ReturnFenced
  <2>4. ASSUME r \in SideEffects, r \in touched' \/ pc'[r] \in InFlight \cup {"returned"}
        PROVE  attempts'[r] # None /\ actions'[r] # None
    BY <1>12, <2>1, <2>2, <2>4 DEF ReturnFenced
  <2> QED BY <2>3, <2>4
<1>13. ASSUME NEW r \in Requests, Cancel(r) PROVE Recorded'
  BY <1>13 DEF Cancel, CompleteAction
<1>14. ASSUME NEW r \in Requests, Project(r) PROVE Recorded'
  <2>1. Projected(result[r]) \in RecordStatus
    BY <1>14, ProjectedTyped DEF Project, Answered
  <2>2. attempts[r] # None => [status |-> Projected(result[r]), committed |-> attempts[r].committed] # None
    BY <2>1, AttemptTyped, AttemptFields
  <2>3. ASSUME NEW q \in SideEffects, q # r, q \in touched' \/ pc'[q] \in InFlight \cup {"returned"}
        PROVE  attempts'[q] # None /\ actions'[q] # None
    BY <1>14, <2>3 DEF Project
  <2>4. ASSUME r \in SideEffects, r \in touched' \/ pc'[r] \in InFlight \cup {"returned"}
        PROVE  attempts'[r] # None /\ actions'[r] # None
    BY <1>14, <2>1, <2>2, <2>4 DEF Project
  <2> QED BY <2>3, <2>4
<1>15. ASSUME NEW r \in Requests, ProjectFails(r) PROVE Recorded'
  BY <1>15 DEF ProjectFails
<1>16. ASSUME NEW granted \in BOOLEAN, ChangeFacts(granted) PROVE Recorded'
  BY <1>16 DEF ChangeFacts, Change
<1>17. ASSUME NEW allowed \in BOOLEAN, ChangeGovernance(allowed) PROVE Recorded'
  BY <1>17 DEF ChangeGovernance, Change
<1>18. ASSUME NEW p \in Providers, Unregister(p) PROVE Recorded'
  BY <1>18 DEF Unregister, Change
<1>19. ASSUME NEW p \in Providers, Register(p) PROVE Recorded'
  BY <1>19 DEF Register, Change
<1>20. ASSUME LeaseStep PROVE Recorded'
  BY <1>20 DEF LeaseStep, Change, Acquire, Renew, Release, Tick
<1>21. ASSUME Crash PROVE Recorded'
  BY <1>21 DEF Crash, Change
<1>22. CASE UNCHANGED vars
  BY <1>22 DEF vars
<1> QED BY <1>1, <1>2, <1>3, <1>4, <1>5, <1>6, <1>7, <1>8, <1>9, <1>10, <1>11, <1>12, <1>13, <1>14, <1>15, <1>16, <1>17, <1>18, <1>19, <1>20, <1>21, <1>22 DEF Next, Advance

\* A dispatch commitment is made on current governance and kept.
LEMMA CommittedStep == TypeOK /\ TouchedLate /\ Committed /\ [Next]_vars => Committed'
<1> SUFFICES ASSUME TypeOK, TouchedLate, Committed, [Next]_vars PROVE Committed'
  OBVIOUS
<1> USE BoundaryAssumption, RecordAssumption
    DEF Committed, TypeOK, TouchedLate, Set, world, memory, store, calls, GovernanceCurrent
<1>1. ASSUME NEW r \in Requests, Admit(r) PROVE Committed'
  BY <1>1 DEF Admit, AssessmentContext
<1>2. ASSUME NEW r \in Requests, Refuse(r) PROVE Committed'
  BY <1>2 DEF Refuse
<1>3. ASSUME NEW r \in Requests, Assess(r) PROVE Committed'
  BY <1>3 DEF Assess
<1>4. ASSUME NEW r \in Requests, NEW p \in Providers, Select(r, p) PROVE Committed'
  BY <1>4 DEF Select
<1>5. ASSUME NEW r \in Requests, Precommit(r) PROVE Committed'
  BY <1>5, ZenonT(60) DEF Precommit, Precommitted, SaveRecords
<1>6. ASSUME NEW r \in Requests, LookupFails(r) PROVE Committed'
  BY <1>6, ZenonT(60) DEF LookupFails, Precommitted, SaveRecords
<1>7. ASSUME NEW r \in Requests, Requalify(r) PROVE Committed'
  BY <1>7 DEF Requalify
<1>8. ASSUME NEW r \in Requests, Abort(r) PROVE Committed'
  BY <1>8 DEF Abort, CancelRecords, CompleteAction
<1>9. ASSUME NEW r \in Requests, Dispatch(r) PROVE Committed'
  <2>1. [snap |-> gov.snap, allowed |-> gov.allowed] # None
    BY DEF DispatchCommit
  <2>2. ASSUME NEW q \in Governed, q # r, q \in touched' \/ pc'[q] \in {"dispatched", "invoking"}
        PROVE  /\ commits'[q] # None /\ commits'[q].allowed
               /\ commits'[q].snap = basis'[q].gov
               /\ attempts'[q] # None => attempts'[q].committed
    BY <1>9, <2>2 DEF Dispatch
  <2>3. ASSUME r \in Governed
        PROVE  commits'[r] = [snap |-> gov.snap, allowed |-> gov.allowed]
    BY <1>9, <2>3 DEF Dispatch
  <2>4. ASSUME r \in Governed
        PROVE  gov.allowed /\ gov.snap = basis'[r].gov
    BY <1>9, <2>4 DEF Dispatch
  <2>5. ASSUME r \in Governed
        PROVE  attempts'[r] # None => attempts'[r].committed
    BY <1>9, <2>5 DEF Dispatch
  <2> QED BY <2>1, <2>2, <2>3, <2>4, <2>5
<1>10. ASSUME NEW r \in Requests, Invoke(r) PROVE Committed'
  BY <1>10 DEF Invoke
<1>11. ASSUME NEW r \in Requests, NEW s \in Answers, Return(r, s) PROVE Committed'
  BY <1>11 DEF Return, CompleteAction
<1>12. ASSUME NEW r \in Requests, ReturnFenced(r) PROVE Committed'
  BY <1>12 DEF ReturnFenced, CompleteAction
<1>13. ASSUME NEW r \in Requests, Cancel(r) PROVE Committed'
  BY <1>13 DEF Cancel, CompleteAction
<1>14. ASSUME NEW r \in Requests, Project(r) PROVE Committed'
  BY <1>14 DEF Project, Projected
<1>15. ASSUME NEW r \in Requests, ProjectFails(r) PROVE Committed'
  BY <1>15 DEF ProjectFails
<1>16. ASSUME NEW granted \in BOOLEAN, ChangeFacts(granted) PROVE Committed'
  BY <1>16 DEF ChangeFacts, Change
<1>17. ASSUME NEW allowed \in BOOLEAN, ChangeGovernance(allowed) PROVE Committed'
  BY <1>17 DEF ChangeGovernance, Change
<1>18. ASSUME NEW p \in Providers, Unregister(p) PROVE Committed'
  BY <1>18 DEF Unregister, Change
<1>19. ASSUME NEW p \in Providers, Register(p) PROVE Committed'
  BY <1>19 DEF Register, Change
<1>20. ASSUME LeaseStep PROVE Committed'
  BY <1>20 DEF LeaseStep, Change, Acquire, Renew, Release, Tick
<1>21. ASSUME Crash PROVE Committed'
  BY <1>21 DEF Crash, Change
<1>22. CASE UNCHANGED vars
  BY <1>22 DEF vars
<1> QED BY <1>1, <1>2, <1>3, <1>4, <1>5, <1>6, <1>7, <1>8, <1>9, <1>10, <1>11, <1>12, <1>13, <1>14, <1>15, <1>16, <1>17, <1>18, <1>19, <1>20, <1>21, <1>22 DEF Next, Advance

\* Only the dispatch commit of a governed request binds an attempt.
LEMMA UnboundStep == TypeOK /\ Unbound /\ [Next]_vars => Unbound'
<1> SUFFICES ASSUME TypeOK, Unbound, [Next]_vars PROVE Unbound'
  OBVIOUS
<1> USE BoundaryAssumption, RecordAssumption
    DEF Unbound, TypeOK, Set, world, memory, store, calls
<1>1. ASSUME NEW r \in Requests, Admit(r) PROVE Unbound'
  BY <1>1 DEF Admit, AssessmentContext
<1>2. ASSUME NEW r \in Requests, Refuse(r) PROVE Unbound'
  BY <1>2 DEF Refuse
<1>3. ASSUME NEW r \in Requests, Assess(r) PROVE Unbound'
  BY <1>3 DEF Assess
<1>4. ASSUME NEW r \in Requests, NEW p \in Providers, Select(r, p) PROVE Unbound'
  BY <1>4 DEF Select
<1>5. ASSUME NEW r \in Requests, Precommit(r) PROVE Unbound'
  BY <1>5 DEF Precommit, Precommitted, SaveRecords
<1>6. ASSUME NEW r \in Requests, LookupFails(r) PROVE Unbound'
  BY <1>6, SMTT(30) DEF LookupFails, Precommitted, SaveRecords
<1>7. ASSUME NEW r \in Requests, Requalify(r) PROVE Unbound'
  BY <1>7 DEF Requalify
<1>8. ASSUME NEW r \in Requests, Abort(r) PROVE Unbound'
  BY <1>8 DEF Abort, CancelRecords, CompleteAction
<1>9. ASSUME NEW r \in Requests, Dispatch(r) PROVE Unbound'
  BY <1>9 DEF Dispatch
<1>10. ASSUME NEW r \in Requests, Invoke(r) PROVE Unbound'
  BY <1>10 DEF Invoke
<1>11. ASSUME NEW r \in Requests, NEW s \in Answers, Return(r, s) PROVE Unbound'
  BY <1>11 DEF Return, CompleteAction
<1>12. ASSUME NEW r \in Requests, ReturnFenced(r) PROVE Unbound'
  <2>1. ASSUME NEW q \in Requests \ Governed, attempts'[q] # None
        PROVE  ~attempts'[q].committed
    <3>1. CASE attempts' = attempts
      BY <2>1, <3>1
    <3>2. CASE /\ attempts[r] # None
               /\ attempts' = Set(attempts, r, [status |-> "unknown",
                                                committed |-> attempts[r].committed])
      BY <2>1, <3>2
    <3> QED BY <1>12, <3>1, <3>2 DEF ReturnFenced
  <2> QED BY <2>1
<1>13. ASSUME NEW r \in Requests, Cancel(r) PROVE Unbound'
  BY <1>13 DEF Cancel, CompleteAction
<1>14. ASSUME NEW r \in Requests, Project(r) PROVE Unbound'
  BY <1>14 DEF Project, Projected
<1>15. ASSUME NEW r \in Requests, ProjectFails(r) PROVE Unbound'
  BY <1>15 DEF ProjectFails
<1>16. ASSUME NEW granted \in BOOLEAN, ChangeFacts(granted) PROVE Unbound'
  BY <1>16 DEF ChangeFacts, Change
<1>17. ASSUME NEW allowed \in BOOLEAN, ChangeGovernance(allowed) PROVE Unbound'
  BY <1>17 DEF ChangeGovernance, Change
<1>18. ASSUME NEW p \in Providers, Unregister(p) PROVE Unbound'
  BY <1>18 DEF Unregister, Change
<1>19. ASSUME NEW p \in Providers, Register(p) PROVE Unbound'
  BY <1>19 DEF Register, Change
<1>20. ASSUME LeaseStep PROVE Unbound'
  BY <1>20 DEF LeaseStep, Change, Acquire, Renew, Release, Tick
<1>21. ASSUME Crash PROVE Unbound'
  BY <1>21 DEF Crash, Change
<1>22. CASE UNCHANGED vars
  BY <1>22 DEF vars
<1> QED BY <1>1, <1>2, <1>3, <1>4, <1>5, <1>6, <1>7, <1>8, <1>9, <1>10, <1>11, <1>12, <1>13, <1>14, <1>15, <1>16, <1>17, <1>18, <1>19, <1>20, <1>21, <1>22 DEF Next, Advance

\* A refusal is final and comes before the provider call.
LEMMA RefusedStep == TypeOK /\ TouchedLate /\ Answered /\ Refused /\ [Next]_vars => Refused'
<1> SUFFICES ASSUME TypeOK, TouchedLate, Answered, Refused, [Next]_vars PROVE Refused'
  OBVIOUS
<1> USE BoundaryAssumption, RecordAssumption
    DEF Refused, TypeOK, TouchedLate, Answered, Set, world, memory, store, calls, Refusals
<1>1. ASSUME NEW r \in Requests, Admit(r) PROVE Refused'
  BY <1>1 DEF Admit, AssessmentContext
<1>2. ASSUME NEW r \in Requests, Refuse(r) PROVE Refused'
  BY <1>2 DEF Refuse
<1>3. ASSUME NEW r \in Requests, Assess(r) PROVE Refused'
  BY <1>3 DEF Assess
<1>4. ASSUME NEW r \in Requests, NEW p \in Providers, Select(r, p) PROVE Refused'
  BY <1>4 DEF Select
<1>5. ASSUME NEW r \in Requests, Precommit(r) PROVE Refused'
  BY <1>5 DEF Precommit, Precommitted, SaveRecords
<1>6. ASSUME NEW r \in Requests, LookupFails(r) PROVE Refused'
  BY <1>6 DEF LookupFails, Precommitted, SaveRecords
<1>7. ASSUME NEW r \in Requests, Requalify(r) PROVE Refused'
  BY <1>7 DEF Requalify
<1>8. ASSUME NEW r \in Requests, Abort(r) PROVE Refused'
  BY <1>8 DEF Abort, CancelRecords, CompleteAction
<1>9. ASSUME NEW r \in Requests, Dispatch(r) PROVE Refused'
  BY <1>9 DEF Dispatch
<1>10. ASSUME NEW r \in Requests, Invoke(r) PROVE Refused'
  BY <1>10 DEF Invoke
<1>11. ASSUME NEW r \in Requests, NEW s \in Answers, Return(r, s) PROVE Refused'
  BY <1>11 DEF Return, CompleteAction
<1>12. ASSUME NEW r \in Requests, ReturnFenced(r) PROVE Refused'
  BY <1>12 DEF ReturnFenced, CompleteAction
<1>13. ASSUME NEW r \in Requests, Cancel(r) PROVE Refused'
  BY <1>13 DEF Cancel, CompleteAction
<1>14. ASSUME NEW r \in Requests, Project(r) PROVE Refused'
  BY <1>14 DEF Project, Projected
<1>15. ASSUME NEW r \in Requests, ProjectFails(r) PROVE Refused'
  BY <1>15 DEF ProjectFails
<1>16. ASSUME NEW granted \in BOOLEAN, ChangeFacts(granted) PROVE Refused'
  BY <1>16 DEF ChangeFacts, Change
<1>17. ASSUME NEW allowed \in BOOLEAN, ChangeGovernance(allowed) PROVE Refused'
  BY <1>17 DEF ChangeGovernance, Change
<1>18. ASSUME NEW p \in Providers, Unregister(p) PROVE Refused'
  BY <1>18 DEF Unregister, Change
<1>19. ASSUME NEW p \in Providers, Register(p) PROVE Refused'
  BY <1>19 DEF Register, Change
<1>20. ASSUME LeaseStep PROVE Refused'
  BY <1>20 DEF LeaseStep, Change, Acquire, Renew, Release, Tick
<1>21. ASSUME Crash PROVE Refused'
  BY <1>21 DEF Crash, Change
<1>22. CASE UNCHANGED vars
  BY <1>22 DEF vars
<1> QED BY <1>1, <1>2, <1>3, <1>4, <1>5, <1>6, <1>7, <1>8, <1>9, <1>10, <1>11, <1>12, <1>13, <1>14, <1>15, <1>16, <1>17, <1>18, <1>19, <1>20, <1>21, <1>22 DEF Next, Advance

\* The post-call fence stops every request that was overtaken.
LEMMA OvertakenStep == TypeOK /\ Overtaken /\ [Next]_vars => Overtaken'
<1> SUFFICES ASSUME TypeOK, Overtaken, [Next]_vars PROVE Overtaken'
  OBVIOUS
<1> USE BoundaryAssumption, RecordAssumption
    DEF Overtaken, TypeOK, Set, world, memory, store, calls, Fenced, Lease
<1>1. ASSUME NEW r \in Requests, Admit(r) PROVE Overtaken'
  BY <1>1 DEF Admit, AssessmentContext
<1>2. ASSUME NEW r \in Requests, Refuse(r) PROVE Overtaken'
  BY <1>2 DEF Refuse
<1>3. ASSUME NEW r \in Requests, Assess(r) PROVE Overtaken'
  BY <1>3 DEF Assess
<1>4. ASSUME NEW r \in Requests, NEW p \in Providers, Select(r, p) PROVE Overtaken'
  BY <1>4 DEF Select
<1>5. ASSUME NEW r \in Requests, Precommit(r) PROVE Overtaken'
  BY <1>5 DEF Precommit, Precommitted, SaveRecords
<1>6. ASSUME NEW r \in Requests, LookupFails(r) PROVE Overtaken'
  BY <1>6 DEF LookupFails, Precommitted, SaveRecords
<1>7. ASSUME NEW r \in Requests, Requalify(r) PROVE Overtaken'
  BY <1>7 DEF Requalify
<1>8. ASSUME NEW r \in Requests, Abort(r) PROVE Overtaken'
  BY <1>8 DEF Abort, CancelRecords, CompleteAction
<1>9. ASSUME NEW r \in Requests, Dispatch(r) PROVE Overtaken'
  BY <1>9 DEF Dispatch
<1>10. ASSUME NEW r \in Requests, Invoke(r) PROVE Overtaken'
  BY <1>10 DEF Invoke
<1>11. ASSUME NEW r \in Requests, NEW s \in Answers, Return(r, s) PROVE Overtaken'
  BY <1>11 DEF Return, CompleteAction
<1>12. ASSUME NEW r \in Requests, ReturnFenced(r) PROVE Overtaken'
  BY <1>12 DEF ReturnFenced, CompleteAction
<1>13. ASSUME NEW r \in Requests, Cancel(r) PROVE Overtaken'
  BY <1>13 DEF Cancel, CompleteAction
<1>14. ASSUME NEW r \in Requests, Project(r) PROVE Overtaken'
  BY <1>14 DEF Project, Projected
<1>15. ASSUME NEW r \in Requests, ProjectFails(r) PROVE Overtaken'
  BY <1>15 DEF ProjectFails
<1>16. ASSUME NEW granted \in BOOLEAN, ChangeFacts(granted) PROVE Overtaken'
  BY <1>16 DEF ChangeFacts, Change
<1>17. ASSUME NEW allowed \in BOOLEAN, ChangeGovernance(allowed) PROVE Overtaken'
  BY <1>17 DEF ChangeGovernance, Change
<1>18. ASSUME NEW p \in Providers, Unregister(p) PROVE Overtaken'
  BY <1>18 DEF Unregister, Change
<1>19. ASSUME NEW p \in Providers, Register(p) PROVE Overtaken'
  BY <1>19 DEF Register, Change
<1>20. ASSUME LeaseStep PROVE Overtaken'
  BY <1>20 DEF LeaseStep, Change, Acquire, Renew, Release, Tick
<1>21. ASSUME Crash PROVE Overtaken'
  BY <1>21 DEF Crash, Change
<1>22. CASE UNCHANGED vars
  BY <1>22 DEF vars
<1> QED BY <1>1, <1>2, <1>3, <1>4, <1>5, <1>6, <1>7, <1>8, <1>9, <1>10, <1>11, <1>12, <1>13, <1>14, <1>15, <1>16, <1>17, <1>18, <1>19, <1>20, <1>21, <1>22 DEF Next, Advance

\* A success is reported only after its projection committed.
LEMMA DurableStep == TypeOK /\ Recorded /\ Overtaken /\ SucceededIsDurable /\ [Next]_vars => SucceededIsDurable'
<1> SUFFICES ASSUME TypeOK, Recorded, Overtaken, SucceededIsDurable, [Next]_vars PROVE SucceededIsDurable'
  OBVIOUS
<1> USE BoundaryAssumption, RecordAssumption
    DEF SucceededIsDurable, TypeOK, Recorded, Overtaken, Set, world, memory, store, calls, InFlight
<1>1. ASSUME NEW r \in Requests, Admit(r) PROVE SucceededIsDurable'
  BY <1>1 DEF Admit, AssessmentContext
<1>2. ASSUME NEW r \in Requests, Refuse(r) PROVE SucceededIsDurable'
  BY <1>2 DEF Refuse
<1>3. ASSUME NEW r \in Requests, Assess(r) PROVE SucceededIsDurable'
  BY <1>3 DEF Assess
<1>4. ASSUME NEW r \in Requests, NEW p \in Providers, Select(r, p) PROVE SucceededIsDurable'
  BY <1>4 DEF Select
<1>5. ASSUME NEW r \in Requests, Precommit(r) PROVE SucceededIsDurable'
  BY <1>5 DEF Precommit, Precommitted, SaveRecords
<1>6. ASSUME NEW r \in Requests, LookupFails(r) PROVE SucceededIsDurable'
  BY <1>6 DEF LookupFails, Precommitted, SaveRecords
<1>7. ASSUME NEW r \in Requests, Requalify(r) PROVE SucceededIsDurable'
  BY <1>7 DEF Requalify
<1>8. ASSUME NEW r \in Requests, Abort(r) PROVE SucceededIsDurable'
  BY <1>8 DEF Abort, CancelRecords, CompleteAction
<1>9. ASSUME NEW r \in Requests, Dispatch(r) PROVE SucceededIsDurable'
  BY <1>9 DEF Dispatch
<1>10. ASSUME NEW r \in Requests, Invoke(r) PROVE SucceededIsDurable'
  BY <1>10 DEF Invoke
<1>11. ASSUME NEW r \in Requests, NEW s \in Answers, Return(r, s) PROVE SucceededIsDurable'
  BY <1>11 DEF Return, CompleteAction
<1>12. ASSUME NEW r \in Requests, ReturnFenced(r) PROVE SucceededIsDurable'
  BY <1>12 DEF ReturnFenced, CompleteAction
<1>13. ASSUME NEW r \in Requests, Cancel(r) PROVE SucceededIsDurable'
  BY <1>13 DEF Cancel, CompleteAction
<1>14. ASSUME NEW r \in Requests, Project(r) PROVE SucceededIsDurable'
  BY <1>14 DEF Project, Projected
<1>15. ASSUME NEW r \in Requests, ProjectFails(r) PROVE SucceededIsDurable'
  BY <1>15 DEF ProjectFails
<1>16. ASSUME NEW granted \in BOOLEAN, ChangeFacts(granted) PROVE SucceededIsDurable'
  BY <1>16 DEF ChangeFacts, Change
<1>17. ASSUME NEW allowed \in BOOLEAN, ChangeGovernance(allowed) PROVE SucceededIsDurable'
  BY <1>17 DEF ChangeGovernance, Change
<1>18. ASSUME NEW p \in Providers, Unregister(p) PROVE SucceededIsDurable'
  BY <1>18 DEF Unregister, Change
<1>19. ASSUME NEW p \in Providers, Register(p) PROVE SucceededIsDurable'
  BY <1>19 DEF Register, Change
<1>20. ASSUME LeaseStep PROVE SucceededIsDurable'
  BY <1>20 DEF LeaseStep, Change, Acquire, Renew, Release, Tick
<1>21. ASSUME Crash PROVE SucceededIsDurable'
  BY <1>21 DEF Crash, Change
<1>22. CASE UNCHANGED vars
  BY <1>22 DEF vars
<1> QED BY <1>1, <1>2, <1>3, <1>4, <1>5, <1>6, <1>7, <1>8, <1>9, <1>10, <1>11, <1>12, <1>13, <1>14, <1>15, <1>16, <1>17, <1>18, <1>19, <1>20, <1>21, <1>22 DEF Next, Advance

\* A captured version that is still current is the truth.
LEMMA CapturedStep == TypeOK /\ Captured /\ [Next]_vars => Captured'
<1> SUFFICES ASSUME TypeOK, Captured, [Next]_vars PROVE Captured'
  OBVIOUS
<1> USE BoundaryAssumption, RecordAssumption
    DEF Captured, TypeOK, Set, world, memory, store, calls
<1>1. ASSUME NEW r \in Requests, Admit(r) PROVE Captured'
  BY <1>1 DEF Admit, AssessmentContext
<1>2. ASSUME NEW r \in Requests, Refuse(r) PROVE Captured'
  BY <1>2 DEF Refuse
<1>3. ASSUME NEW r \in Requests, Assess(r) PROVE Captured'
  BY <1>3 DEF Assess
<1>4. ASSUME NEW r \in Requests, NEW p \in Providers, Select(r, p) PROVE Captured'
  BY <1>4 DEF Select
<1>5. ASSUME NEW r \in Requests, Precommit(r) PROVE Captured'
  BY <1>5 DEF Precommit, Precommitted, SaveRecords
<1>6. ASSUME NEW r \in Requests, LookupFails(r) PROVE Captured'
  BY <1>6 DEF LookupFails, Precommitted, SaveRecords
<1>7. ASSUME NEW r \in Requests, Requalify(r) PROVE Captured'
  BY <1>7 DEF Requalify
<1>8. ASSUME NEW r \in Requests, Abort(r) PROVE Captured'
  BY <1>8 DEF Abort, CancelRecords, CompleteAction
<1>9. ASSUME NEW r \in Requests, Dispatch(r) PROVE Captured'
  BY <1>9 DEF Dispatch
<1>10. ASSUME NEW r \in Requests, Invoke(r) PROVE Captured'
  BY <1>10 DEF Invoke
<1>11. ASSUME NEW r \in Requests, NEW s \in Answers, Return(r, s) PROVE Captured'
  BY <1>11 DEF Return, CompleteAction
<1>12. ASSUME NEW r \in Requests, ReturnFenced(r) PROVE Captured'
  BY <1>12 DEF ReturnFenced, CompleteAction
<1>13. ASSUME NEW r \in Requests, Cancel(r) PROVE Captured'
  BY <1>13 DEF Cancel, CompleteAction
<1>14. ASSUME NEW r \in Requests, Project(r) PROVE Captured'
  BY <1>14 DEF Project, Projected
<1>15. ASSUME NEW r \in Requests, ProjectFails(r) PROVE Captured'
  BY <1>15 DEF ProjectFails
<1>16. ASSUME NEW granted \in BOOLEAN, ChangeFacts(granted) PROVE Captured'
  BY <1>16 DEF ChangeFacts, Change
<1>17. ASSUME NEW allowed \in BOOLEAN, ChangeGovernance(allowed) PROVE Captured'
  BY <1>17 DEF ChangeGovernance, Change
<1>18. ASSUME NEW p \in Providers, Unregister(p) PROVE Captured'
  BY <1>18 DEF Unregister, Change
<1>19. ASSUME NEW p \in Providers, Register(p) PROVE Captured'
  BY <1>19 DEF Register, Change
<1>20. ASSUME LeaseStep PROVE Captured'
  BY <1>20 DEF LeaseStep, Change, Acquire, Renew, Release, Tick
<1>21. ASSUME Crash PROVE Captured'
  BY <1>21 DEF Crash, Change
<1>22. CASE UNCHANGED vars
  BY <1>22 DEF vars
<1> QED BY <1>1, <1>2, <1>3, <1>4, <1>5, <1>6, <1>7, <1>8, <1>9, <1>10, <1>11, <1>12, <1>13, <1>14, <1>15, <1>16, <1>17, <1>18, <1>19, <1>20, <1>21, <1>22 DEF Next, Advance

\* The authorization gate decides on the captured grant.
LEMMA GrantedStep == TypeOK /\ Granted /\ [Next]_vars => Granted'
<1> SUFFICES ASSUME TypeOK, Granted, [Next]_vars PROVE Granted'
  OBVIOUS
<1> USE BoundaryAssumption, RecordAssumption
    DEF Granted, TypeOK, Set, world, memory, store, calls, Authorized
<1>1. ASSUME NEW r \in Requests, Admit(r) PROVE Granted'
  BY <1>1 DEF Admit, AssessmentContext
<1>2. ASSUME NEW r \in Requests, Refuse(r) PROVE Granted'
  BY <1>2 DEF Refuse
<1>3. ASSUME NEW r \in Requests, Assess(r) PROVE Granted'
  BY <1>3 DEF Assess
<1>4. ASSUME NEW r \in Requests, NEW p \in Providers, Select(r, p) PROVE Granted'
  BY <1>4 DEF Select
<1>5. ASSUME NEW r \in Requests, Precommit(r) PROVE Granted'
  BY <1>5 DEF Precommit, Precommitted, SaveRecords
<1>6. ASSUME NEW r \in Requests, LookupFails(r) PROVE Granted'
  BY <1>6 DEF LookupFails, Precommitted, SaveRecords
<1>7. ASSUME NEW r \in Requests, Requalify(r) PROVE Granted'
  BY <1>7 DEF Requalify
<1>8. ASSUME NEW r \in Requests, Abort(r) PROVE Granted'
  BY <1>8 DEF Abort, CancelRecords, CompleteAction
<1>9. ASSUME NEW r \in Requests, Dispatch(r) PROVE Granted'
  BY <1>9 DEF Dispatch
<1>10. ASSUME NEW r \in Requests, Invoke(r) PROVE Granted'
  BY <1>10 DEF Invoke
<1>11. ASSUME NEW r \in Requests, NEW s \in Answers, Return(r, s) PROVE Granted'
  BY <1>11 DEF Return, CompleteAction
<1>12. ASSUME NEW r \in Requests, ReturnFenced(r) PROVE Granted'
  BY <1>12 DEF ReturnFenced, CompleteAction
<1>13. ASSUME NEW r \in Requests, Cancel(r) PROVE Granted'
  BY <1>13 DEF Cancel, CompleteAction
<1>14. ASSUME NEW r \in Requests, Project(r) PROVE Granted'
  BY <1>14 DEF Project, Projected
<1>15. ASSUME NEW r \in Requests, ProjectFails(r) PROVE Granted'
  BY <1>15 DEF ProjectFails
<1>16. ASSUME NEW granted \in BOOLEAN, ChangeFacts(granted) PROVE Granted'
  BY <1>16 DEF ChangeFacts, Change
<1>17. ASSUME NEW allowed \in BOOLEAN, ChangeGovernance(allowed) PROVE Granted'
  BY <1>17 DEF ChangeGovernance, Change
<1>18. ASSUME NEW p \in Providers, Unregister(p) PROVE Granted'
  BY <1>18 DEF Unregister, Change
<1>19. ASSUME NEW p \in Providers, Register(p) PROVE Granted'
  BY <1>19 DEF Register, Change
<1>20. ASSUME LeaseStep PROVE Granted'
  BY <1>20 DEF LeaseStep, Change, Acquire, Renew, Release, Tick
<1>21. ASSUME Crash PROVE Granted'
  BY <1>21 DEF Crash, Change
<1>22. CASE UNCHANGED vars
  BY <1>22 DEF vars
<1> QED BY <1>1, <1>2, <1>3, <1>4, <1>5, <1>6, <1>7, <1>8, <1>9, <1>10, <1>11, <1>12, <1>13, <1>14, <1>15, <1>16, <1>17, <1>18, <1>19, <1>20, <1>21, <1>22 DEF Next, Advance

-----------------------------------------------------------------------------
(* Accounting.                                                             *)

\* The side effects in flight.
Flying == {r \in SideEffects : pc[r] \in InFlight}

\* They are finitely many.
LEMMA FlyingFinite == IsFiniteSet(Flying) /\ Cardinality(Flying) \in Nat
<1>1. IsFiniteSet(SideEffects)
  BY BoundaryAssumption, FS_Subset
<1>2. IsFiniteSet(Flying)
  BY <1>1, FS_Subset DEF Flying
<1> QED BY <1>2, FS_CardinalityType

\* Completing the action of a request that leaves its flight keeps the count.
LEMMA Lands ==
    ASSUME TypeOK, AccountingBalanced, NEW r \in Requests, CompleteAction(r),
           pc[r] \in InFlight, pc'[r] \notin InFlight,
           \A q \in Requests : q # r => pc'[q] = pc[q]
    PROVE  AccountingBalanced'
<1>1. active = Cardinality(Flying) /\ active \in Nat
  BY DEF AccountingBalanced, Flying, TypeOK
<1>2. CASE r \in SideEffects
  <2>1. Flying' = Flying \ {r} /\ r \in Flying
    BY <1>2, BoundaryAssumption DEF Flying
  <2>2. /\ Cardinality(Flying \ {r}) = Cardinality(Flying) - 1
        /\ IsFiniteSet(Flying \ {r})
    BY <2>1, FlyingFinite, FS_RemoveElement
  <2>3. Cardinality(Flying \ {r}) \in Nat
    BY <2>2, FS_CardinalityType
  <2>4. active > 0 /\ active' = active - 1
    BY <1>1, <1>2, <2>2, <2>3 DEF CompleteAction
  <2>5. active' = Cardinality(Flying')
    BY <1>1, <2>1, <2>2, <2>4
  <2> QED BY <2>5 DEF AccountingBalanced, Flying
<1>3. CASE r \notin SideEffects
  <2>1. Flying' = Flying
    BY <1>3, BoundaryAssumption DEF Flying
  <2>2. active' = Cardinality(Flying')
    BY <1>1, <1>3, <2>1 DEF CompleteAction
  <2> QED BY <2>2 DEF AccountingBalanced, Flying
<1> QED BY <1>2, <1>3

\* A step that neither starts nor ends a flight keeps the count.
LEMMA Stays ==
    ASSUME AccountingBalanced, UNCHANGED active,
           \A q \in Requests : pc'[q] \in InFlight <=> pc[q] \in InFlight
    PROVE  AccountingBalanced'
<1>1. Flying' = Flying
  BY BoundaryAssumption DEF Flying
<1>2. active' = Cardinality(Flying')
  BY <1>1 DEF AccountingBalanced, Flying
<1> QED BY <1>2 DEF AccountingBalanced, Flying

\* The parallel-capacity counter follows the side effects in flight.
LEMMA AccountingStep == TypeOK /\ AccountingBalanced /\ [Next]_vars => AccountingBalanced'
<1> SUFFICES ASSUME TypeOK, AccountingBalanced, [Next]_vars PROVE AccountingBalanced'
  OBVIOUS
<1> USE DEF world, memory, store, calls
<1>1. ASSUME NEW r \in Requests, Admit(r) PROVE AccountingBalanced'
  <2>1. UNCHANGED active /\ \A q \in Requests : pc'[q] \in InFlight <=> pc[q] \in InFlight
    BY <1>1 DEF Admit, AssessmentContext, Set, TypeOK, InFlight
  <2> QED BY <2>1, Stays
<1>2. ASSUME NEW r \in Requests, Refuse(r) PROVE AccountingBalanced'
  <2>1. UNCHANGED active /\ \A q \in Requests : pc'[q] \in InFlight <=> pc[q] \in InFlight
    BY <1>2 DEF Refuse, Set, TypeOK, InFlight
  <2> QED BY <2>1, Stays
<1>3. ASSUME NEW r \in Requests, Assess(r) PROVE AccountingBalanced'
  <2>1. UNCHANGED active /\ \A q \in Requests : pc'[q] \in InFlight <=> pc[q] \in InFlight
    BY <1>3 DEF Assess, Set, TypeOK, InFlight
  <2> QED BY <2>1, Stays
<1>4. ASSUME NEW r \in Requests, NEW p \in Providers, Select(r, p) PROVE AccountingBalanced'
  <2>1. UNCHANGED active /\ \A q \in Requests : pc'[q] \in InFlight <=> pc[q] \in InFlight
    BY <1>4 DEF Select, Set, TypeOK, InFlight
  <2> QED BY <2>1, Stays
<1>5. ASSUME NEW r \in Requests, Precommit(r) PROVE AccountingBalanced'
  <2>1. active = Cardinality(Flying) /\ active \in Nat
    BY DEF AccountingBalanced, Flying, TypeOK
  <2>2. CASE r \in SideEffects
    <3>1. Flying' = Flying \cup {r} /\ r \notin Flying
      BY <1>5, <2>2, BoundaryAssumption DEF Precommit, Precommitted, Set, TypeOK, Flying, InFlight
    <3>2. Cardinality(Flying \cup {r}) = Cardinality(Flying) + 1
      BY <3>1, FlyingFinite, FS_AddElement
    <3>3. active' = active + 1
      BY <1>5, <2>2 DEF Precommit
    <3>4. active' = Cardinality(Flying')
      BY <2>1, <3>1, <3>2, <3>3
    <3> QED BY <3>4 DEF AccountingBalanced, Flying
  <2>3. CASE r \notin SideEffects
    <3>1. Flying' = Flying
      BY <1>5, <2>3, BoundaryAssumption DEF Precommit, Set, TypeOK, Flying
    <3>2. active' = Cardinality(Flying')
      BY <1>5, <2>1, <2>3, <3>1 DEF Precommit
    <3> QED BY <3>2 DEF AccountingBalanced, Flying
  <2> QED BY <2>2, <2>3
<1>6. ASSUME NEW r \in Requests, LookupFails(r) PROVE AccountingBalanced'
  <2>1. UNCHANGED active /\ \A q \in Requests : pc'[q] \in InFlight <=> pc[q] \in InFlight
    BY <1>6 DEF LookupFails, Precommitted, Set, TypeOK, InFlight
  <2> QED BY <2>1, Stays
<1>7. ASSUME NEW r \in Requests, Requalify(r) PROVE AccountingBalanced'
  <2>1. UNCHANGED active /\ \A q \in Requests : pc'[q] \in InFlight <=> pc[q] \in InFlight
    BY <1>7 DEF Requalify, Set, TypeOK, InFlight
  <2> QED BY <2>1, Stays
<1>8. ASSUME NEW r \in Requests, Abort(r) PROVE AccountingBalanced'
  <2>1. /\ CompleteAction(r) /\ pc[r] \in InFlight /\ pc'[r] \notin InFlight
        /\ \A q \in Requests : q # r => pc'[q] = pc[q]
    BY <1>8 DEF Abort, CancelRecords, Set, TypeOK, InFlight
  <2> QED BY <2>1, Lands
<1>9. ASSUME NEW r \in Requests, Dispatch(r) PROVE AccountingBalanced'
  <2>1. UNCHANGED active /\ \A q \in Requests : pc'[q] \in InFlight <=> pc[q] \in InFlight
    BY <1>9 DEF Dispatch, Set, TypeOK, InFlight
  <2> QED BY <2>1, Stays
<1>10. ASSUME NEW r \in Requests, Invoke(r) PROVE AccountingBalanced'
  <2>1. UNCHANGED active /\ \A q \in Requests : pc'[q] \in InFlight <=> pc[q] \in InFlight
    BY <1>10 DEF Invoke, Set, TypeOK, InFlight
  <2> QED BY <2>1, Stays
<1>11. ASSUME NEW r \in Requests, NEW s \in Answers, Return(r, s) PROVE AccountingBalanced'
  <2>1. /\ CompleteAction(r) /\ pc[r] \in InFlight /\ pc'[r] \notin InFlight
        /\ \A q \in Requests : q # r => pc'[q] = pc[q]
    BY <1>11 DEF Return, Set, TypeOK, InFlight
  <2> QED BY <2>1, Lands
<1>12. ASSUME NEW r \in Requests, ReturnFenced(r) PROVE AccountingBalanced'
  <2>1. /\ CompleteAction(r) /\ pc[r] \in InFlight /\ pc'[r] \notin InFlight
        /\ \A q \in Requests : q # r => pc'[q] = pc[q]
    BY <1>12 DEF ReturnFenced, Set, TypeOK, InFlight
  <2> QED BY <2>1, Lands
<1>13. ASSUME NEW r \in Requests, Cancel(r) PROVE AccountingBalanced'
  <2>1. CASE pc[r] = "invoking"
    <3>1. /\ CompleteAction(r) /\ pc[r] \in InFlight /\ pc'[r] \notin InFlight
          /\ \A q \in Requests : q # r => pc'[q] = pc[q]
      BY <1>13, <2>1 DEF Cancel, Set, TypeOK, InFlight
    <3> QED BY <3>1, Lands
  <2>2. CASE pc[r] # "invoking"
    <3>1. UNCHANGED active /\ \A q \in Requests : pc'[q] \in InFlight <=> pc[q] \in InFlight
      BY <1>13, <2>2 DEF Cancel, Set, TypeOK, InFlight
    <3> QED BY <3>1, Stays
  <2> QED BY <2>1, <2>2
<1>14. ASSUME NEW r \in Requests, Project(r) PROVE AccountingBalanced'
  <2>1. UNCHANGED active /\ \A q \in Requests : pc'[q] \in InFlight <=> pc[q] \in InFlight
    BY <1>14 DEF Project, Set, TypeOK, InFlight
  <2> QED BY <2>1, Stays
<1>15. ASSUME NEW r \in Requests, ProjectFails(r) PROVE AccountingBalanced'
  <2>1. UNCHANGED active /\ \A q \in Requests : pc'[q] \in InFlight <=> pc[q] \in InFlight
    BY <1>15 DEF ProjectFails, Set, TypeOK, InFlight
  <2> QED BY <2>1, Stays
<1>16. ASSUME NEW granted \in BOOLEAN, ChangeFacts(granted) PROVE AccountingBalanced'
  <2>1. UNCHANGED active /\ \A q \in Requests : pc'[q] \in InFlight <=> pc[q] \in InFlight
    BY <1>16 DEF ChangeFacts, Set, TypeOK, InFlight
  <2> QED BY <2>1, Stays
<1>17. ASSUME NEW allowed \in BOOLEAN, ChangeGovernance(allowed) PROVE AccountingBalanced'
  <2>1. UNCHANGED active /\ \A q \in Requests : pc'[q] \in InFlight <=> pc[q] \in InFlight
    BY <1>17 DEF ChangeGovernance, Set, TypeOK, InFlight
  <2> QED BY <2>1, Stays
<1>18. ASSUME NEW p \in Providers, Unregister(p) PROVE AccountingBalanced'
  <2>1. UNCHANGED active /\ \A q \in Requests : pc'[q] \in InFlight <=> pc[q] \in InFlight
    BY <1>18 DEF Unregister, Set, TypeOK, InFlight
  <2> QED BY <2>1, Stays
<1>19. ASSUME NEW p \in Providers, Register(p) PROVE AccountingBalanced'
  <2>1. UNCHANGED active /\ \A q \in Requests : pc'[q] \in InFlight <=> pc[q] \in InFlight
    BY <1>19 DEF Register, Set, TypeOK, InFlight
  <2> QED BY <2>1, Stays
<1>20. ASSUME LeaseStep PROVE AccountingBalanced'
  <2>1. UNCHANGED active /\ \A q \in Requests : pc'[q] \in InFlight <=> pc[q] \in InFlight
    BY <1>20 DEF LeaseStep, Set, TypeOK, InFlight
  <2> QED BY <2>1, Stays
<1>21. ASSUME Crash PROVE AccountingBalanced'
  <2>1. Flying' = {} /\ active' = 0
    BY <1>21, BoundaryAssumption DEF Crash, Flying, InFlight, TypeOK
  <2>2. active' = Cardinality(Flying')
    BY <2>1, FS_EmptySet
  <2> QED BY <2>2 DEF AccountingBalanced, Flying
<1>22. CASE UNCHANGED vars
  BY <1>22, Stays DEF vars
<1> QED BY <1>1, <1>2, <1>3, <1>4, <1>5, <1>6, <1>7, <1>8, <1>9, <1>10, <1>11, <1>12, <1>13, <1>14, <1>15, <1>16, <1>17, <1>18, <1>19, <1>20, <1>21, <1>22 DEF Next, Advance

-----------------------------------------------------------------------------
(* Theorems.                                                               *)

\* The invariant holds initially.
LEMMA BInvInit == Init => BInv
<1> SUFFICES ASSUME Init PROVE BInv
  OBVIOUS
<1> USE BoundaryAssumption, RecordAssumption, LeaseAssumption DEF Init, LeaseInit
<1>1. TypeOK
  BY DEF TypeOK, Lease, Phases, Step
<1>2. Routed /\ Answered /\ TouchedLate /\ Recorded /\ Committed /\ Unbound
  BY DEF Routed, Answered, TouchedLate, Recorded, Committed, Unbound, InFlight
<1>3. Refused /\ SucceededIsDurable /\ Captured /\ Granted
  BY DEF Refused, SucceededIsDurable, Captured, Granted
<1>4. Overtaken
  BY DEF Overtaken
<1>5. AccountingBalanced
  <2>1. Flying = {}
    BY DEF Flying, InFlight
  <2>2. active = Cardinality(Flying)
    BY <2>1, FS_EmptySet
  <2> QED BY <2>2 DEF AccountingBalanced, Flying
<1> QED BY <1>1, <1>2, <1>3, <1>4, <1>5 DEF BInv

\* Every step of the specification keeps the invariant.
LEMMA BInvStep == BInv /\ [Next]_vars => BInv'
<1> SUFFICES ASSUME BInv, [Next]_vars PROVE BInv'
  OBVIOUS
<1>1. TypeOK' /\ Routed' /\ Answered' /\ TouchedLate'
  BY TypeStep, RoutedStep, AnsweredStep, TouchedStep DEF BInv
<1>2. Recorded' /\ Committed' /\ Unbound' /\ Refused'
  BY RecordedStep, CommittedStep, UnboundStep, RefusedStep DEF BInv
<1>3. Overtaken' /\ SucceededIsDurable' /\ Captured' /\ Granted'
  BY OvertakenStep, DurableStep, CapturedStep, GrantedStep DEF BInv
<1>4. AccountingBalanced'
  BY AccountingStep DEF BInv
<1> QED BY <1>1, <1>2, <1>3, <1>4 DEF BInv

\* In every reachable state the inductive invariant holds.
THEOREM BoundaryInvariant == Spec => []BInv
<1> QED BY BInvInit, BInvStep, PTL DEF Spec

\* Every variable keeps its type.
THEOREM BoundaryTypes == Spec => []TypeOK
<1>1. BInv => TypeOK
  BY DEF BInv
<1> QED BY <1>1, BoundaryInvariant, PTL

\* Whoever reached a provider under governance holds a dispatch commitment made
\* while governance allowed it, on the snapshot it was admitted on.
THEOREM Linearized == Spec => []DispatchLinearized
<1>1. BInv => DispatchLinearized
  BY DEF BInv, Committed, DispatchLinearized
<1> QED BY <1>1, BoundaryInvariant, PTL

\* No side effect without a durable attempt and action that survive a crash, and
\* no provider call behind a refusal or an abort.
THEOREM Recording == Spec => []EffectIsRecorded
<1>1. BInv => EffectIsRecorded
  <2> SUFFICES ASSUME BInv PROVE EffectIsRecorded
    OBVIOUS
  <2>1. \A r \in touched \cap SideEffects : attempts[r] # None /\ actions[r] # None
    BY DEF BInv, Recorded
  <2>2. \A r \in touched \cap SideEffects : attempts[r].committed <=> r \in Governed
    <3>1. ASSUME NEW r \in touched \cap SideEffects PROVE attempts[r].committed <=> r \in Governed
      <4>1. attempts[r] # None /\ r \in Requests
        BY <2>1, BoundaryAssumption
      <4>2. CASE r \in Governed
        BY <4>1, <4>2 DEF BInv, Committed
      <4>3. CASE r \notin Governed
        BY <4>1, <4>3 DEF BInv, Unbound
      <4> QED BY <4>2, <4>3
    <3> QED BY <3>1
  <2> QED BY <2>1, <2>2 DEF BInv, Refused, EffectIsRecorded
<1> QED BY <1>1, BoundaryInvariant, PTL

\* The parallel-capacity counter is the number of side effects in flight.
THEOREM Accounting == Spec => []AccountingBalanced
<1>1. BInv => AccountingBalanced
  BY DEF BInv
<1> QED BY <1>1, BoundaryInvariant, PTL

\* A reported success is on record, and nobody acquired the run's lease while its
\* provider was working.
THEOREM Durable == Spec => []SucceededIsDurable
<1>1. BInv => SucceededIsDurable
  BY DEF BInv
<1> QED BY <1>1, BoundaryInvariant, PTL

\* A side effect that cites its grant passes the last gate only while that grant
\* is valid.
THEOREM CitedGrant == Spec => CitedGrantHolds
<1> DEFINE Holds == \A r \in SideEffects \cap Referenced :
                       pc[r] = "precommitted" /\ pc'[r] = "requalified" => facts.granted
<1>1. BInv /\ [Next]_vars => [Holds]_vars
  <2> SUFFICES ASSUME BInv, Next, NEW r \in SideEffects \cap Referenced,
                      pc[r] = "precommitted", pc'[r] = "requalified"
               PROVE  facts.granted
    OBVIOUS
  <2>1. r \in Requests /\ pc \in [Requests -> Phases]
    BY BoundaryAssumption DEF BInv, TypeOK
  <2>2. Requalify(r)
    <3>1. ASSUME NEW q \in Requests, Admit(q) PROVE FALSE
      BY <2>1, <3>1 DEF Admit, AssessmentContext, Set, calls
    <3>2. ASSUME NEW q \in Requests, Refuse(q) PROVE FALSE
      BY <2>1, <3>2 DEF Refuse, Set, calls
    <3>3. ASSUME NEW q \in Requests, Assess(q) PROVE FALSE
      BY <2>1, <3>3 DEF Assess, Set, calls
    <3>4. ASSUME NEW q \in Requests, NEW p \in Providers, Select(q, p) PROVE FALSE
      BY <2>1, <3>4 DEF Select, Set, calls
    <3>5. ASSUME NEW q \in Requests, Precommit(q) PROVE FALSE
      BY <2>1, <3>5 DEF Precommit, Precommitted, Set, calls
    <3>6. ASSUME NEW q \in Requests, LookupFails(q) PROVE FALSE
      BY <2>1, <3>6 DEF LookupFails, Precommitted, Set, calls
    <3>7. ASSUME NEW q \in Requests, Requalify(q) PROVE Requalify(r)
      BY <2>1, <3>7 DEF Requalify, Set
    <3>8. ASSUME NEW q \in Requests, Abort(q) PROVE FALSE
      BY <2>1, <3>8 DEF Abort, CancelRecords, Set, calls
    <3>9. ASSUME NEW q \in Requests, Dispatch(q) PROVE FALSE
      BY <2>1, <3>9 DEF Dispatch, Set, calls
    <3>10. ASSUME NEW q \in Requests, Invoke(q) PROVE FALSE
      BY <2>1, <3>10 DEF Invoke, Set, calls
    <3>11. ASSUME NEW q \in Requests, NEW s \in Answers, Return(q, s) PROVE FALSE
      BY <2>1, <3>11 DEF Return, Set, calls
    <3>12. ASSUME NEW q \in Requests, ReturnFenced(q) PROVE FALSE
      BY <2>1, <3>12 DEF ReturnFenced, Set, calls
    <3>13. ASSUME NEW q \in Requests, Cancel(q) PROVE FALSE
      BY <2>1, <3>13 DEF Cancel, Set, calls
    <3>14. ASSUME NEW q \in Requests, Project(q) PROVE FALSE
      BY <2>1, <3>14 DEF Project, Set, calls
    <3>15. ASSUME NEW q \in Requests, ProjectFails(q) PROVE FALSE
      BY <2>1, <3>15 DEF ProjectFails, Set, calls
    <3>16. ASSUME NEW granted \in BOOLEAN, ChangeFacts(granted) PROVE FALSE
      BY <2>1, <3>16 DEF ChangeFacts, Set, calls
    <3>17. ASSUME NEW allowed \in BOOLEAN, ChangeGovernance(allowed) PROVE FALSE
      BY <2>1, <3>17 DEF ChangeGovernance, Set, calls
    <3>18. ASSUME NEW p \in Providers, Unregister(p) PROVE FALSE
      BY <2>1, <3>18 DEF Unregister, Set, calls
    <3>19. ASSUME NEW p \in Providers, Register(p) PROVE FALSE
      BY <2>1, <3>19 DEF Register, Set, calls
    <3>20. ASSUME LeaseStep PROVE FALSE
      BY <2>1, <3>20 DEF LeaseStep, Set, calls
    <3>21. ASSUME Crash PROVE FALSE
      BY <2>1, <3>21 DEF Crash, Set, calls
    <3> QED BY <3>1, <3>2, <3>3, <3>4, <3>5, <3>6, <3>7, <3>8, <3>9, <3>10, <3>11, <3>12, <3>13, <3>14, <3>15, <3>16, <3>17, <3>18, <3>19, <3>20, <3>21 DEF Next, Advance
  <2>3. basis[r].facts = facts.version
    BY <2>2 DEF Requalify, Qualified
  <2>4. basis[r].granted
    BY DEF BInv, Granted
  <2> QED BY <2>1, <2>3, <2>4 DEF BInv, Captured
<1> QED BY <1>1, BoundaryInvariant, PTL DEF Spec, CitedGrantHolds

-----------------------------------------------------------------------------
(* Fencing: which claims can pass at the same time.                        *)

\* The claims a request can carry, relative to each other and to the lease: a
\* claim is no younger than the lease, and a generation has one owner, before
\* and after the lease is released.
ClaimsOrdered ==
    /\ lease.generation = 0 => lease.owner = None
    /\ \A r \in Requests :
          /\ claim[r].generation <= lease.generation
          /\ claim[r].generation = 0 => claim[r].owner = None
          /\ claim[r].generation = lease.generation /\ claim[r].owner # None
                => lease.owner \in {None, claim[r].owner}
    /\ \A q, r \in Requests :
          claim[q].generation = claim[r].generation
             => claim[q].owner = claim[r].owner \/ None \in {claim[q].owner, claim[r].owner}

\* Only InvocationFactory.build writes a claim, and only the lease store writes
\* the lease.
LEMMA ClaimFrame ==
    ASSUME [Next]_vars
    PROVE  \/ \E r \in Requests : Admit(r)
           \/ LeaseStep
           \/ UNCHANGED <<lease, claim>>
<1> USE DEF world, calls
<1>1. ASSUME NEW r \in Requests, Advance(r) PROVE UNCHANGED <<lease, claim>>
  <2>1. CASE Refuse(r) \/ Assess(r) \/ (\E p \in Providers : Select(r, p)) \/ Requalify(r)
    BY <2>1 DEF Refuse, Assess, Select, Requalify
  <2>2. CASE Precommit(r) \/ LookupFails(r)
    BY <2>2 DEF Precommit, LookupFails
  <2>3. CASE Abort(r) \/ Dispatch(r) \/ Invoke(r)
    BY <2>3 DEF Abort, Dispatch, Invoke
  <2>4. CASE (\E s \in Answers : Return(r, s)) \/ ReturnFenced(r) \/ Cancel(r)
    BY <2>4 DEF Return, ReturnFenced, Cancel
  <2>5. CASE Project(r) \/ ProjectFails(r)
    BY <2>5 DEF Project, ProjectFails
  <2> QED BY <1>1, <2>1, <2>2, <2>3, <2>4, <2>5 DEF Advance
<1>2. ASSUME NEW b \in BOOLEAN, ChangeFacts(b) \/ ChangeGovernance(b)
      PROVE  UNCHANGED <<lease, claim>>
  BY <1>2 DEF ChangeFacts, ChangeGovernance
<1>3. ASSUME NEW p \in Providers, Unregister(p) \/ Register(p)
      PROVE  UNCHANGED <<lease, claim>>
  BY <1>3 DEF Unregister, Register
<1>4. ASSUME Crash PROVE UNCHANGED <<lease, claim>>
  BY <1>4 DEF Crash
<1>5. ASSUME UNCHANGED vars PROVE UNCHANGED <<lease, claim>>
  BY <1>5 DEF vars
<1> QED BY <1>1, <1>2, <1>3, <1>4, <1>5 DEF Next

\* Acquiring makes a generation that no claim has, renewing and the passing of
\* time keep owner and generation, releasing drops the owner only; a new claim
\* copies the lease.
LEMMA ClaimsStep == TypeOK /\ ClaimsOrdered /\ [Next]_vars => ClaimsOrdered'
<1> SUFFICES ASSUME TypeOK, ClaimsOrdered, [Next]_vars PROVE ClaimsOrdered'
  OBVIOUS
<1>1. /\ lease.generation \in Nat
      /\ \A r \in Requests : claim[r].generation \in Nat
  BY DEF TypeOK, Lease
<1>2. ASSUME NEW r \in Requests, Admit(r) PROVE ClaimsOrdered'
  <2>1. /\ lease' = lease
        /\ claim' = [claim EXCEPT ![r] = [generation |-> lease.generation, owner |-> lease.owner]]
    BY <1>2 DEF Admit, Set, world
  <2>2. /\ claim'[r].generation = lease.generation /\ claim'[r].owner = lease.owner
        /\ \A q \in Requests \ {r} : claim'[q] = claim[q]
    BY <2>1 DEF TypeOK
  <2> QED BY <1>1, <2>1, <2>2 DEF ClaimsOrdered
<1>3. ASSUME LeaseStep PROVE ClaimsOrdered'
  <2>1. claim' = claim
    BY <1>3 DEF LeaseStep, calls
  <2>2. ASSUME NEW o \in Owners, Acquire(o) PROVE ClaimsOrdered'
    <3>1. lease'.generation = lease.generation + 1
      BY <2>2 DEF Acquire
    <3>2. lease'.generation # 0 /\ \A r \in Requests : claim[r].generation < lease'.generation
      BY <1>1, <3>1 DEF ClaimsOrdered
    <3> QED BY <1>1, <2>1, <3>1, <3>2 DEF ClaimsOrdered
  <2>3. ASSUME lease'.generation = lease.generation, lease'.owner \in {None, lease.owner}
        PROVE  ClaimsOrdered'
    BY <2>1, <2>3 DEF ClaimsOrdered
  <2>4. ASSUME NEW o \in Owners, Renew(o) \/ Release(o) PROVE ClaimsOrdered'
    BY <2>3, <2>4 DEF Renew, Release
  <2>5. ASSUME Tick PROVE ClaimsOrdered'
    BY <2>3, <2>5 DEF Tick
  <2> QED BY <1>3, <2>2, <2>4, <2>5 DEF LeaseStep
<1>4. ASSUME UNCHANGED <<lease, claim>> PROVE ClaimsOrdered'
  BY <1>4 DEF ClaimsOrdered
<1> QED BY <1>2, <1>3, <1>4, ClaimFrame

\* At no time do the requests of two workers both pass validate_fencing, for any
\* number of workers, requests and generations.
THEOREM OneWorker == Spec => []OneWorkerPasses
<1>1. Init => ClaimsOrdered
  BY DEF Init, LeaseInit, ClaimsOrdered
<1>2. TypeOK /\ ClaimsOrdered => OneWorkerPasses
  <2> SUFFICES ASSUME TypeOK, ClaimsOrdered, NEW q \in Requests, NEW r \in Requests,
                      Fenced(claim[q].generation, claim[q].owner),
                      Fenced(claim[r].generation, claim[r].owner)
               PROVE  claim[q].owner = claim[r].owner \/ None \in {claim[q].owner, claim[r].owner}
    BY DEF OneWorkerPasses
  <2>1. CASE lease.generation = 0
    <3>1. claim[q].generation \in Nat /\ claim[q].generation <= 0
      BY <2>1 DEF TypeOK, ClaimsOrdered
    <3>2. claim[q].generation = 0
      BY <3>1
    <3> QED BY <3>2 DEF ClaimsOrdered
  <2>2. CASE lease.generation # 0
    <3>1. claim[q].generation = claim[r].generation
      BY <2>2 DEF Fenced
    <3> QED BY <3>1 DEF ClaimsOrdered
  <2> QED BY <2>1, <2>2
<1> QED BY <1>1, <1>2, ClaimsStep, BoundaryTypes, PTL DEF Spec

=============================================================================
