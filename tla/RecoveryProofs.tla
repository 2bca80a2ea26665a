---------------------------- MODULE RecoveryProofs ----------------------------
(***************************************************************************)
(* Proofs about Recovery, for any dispatches, providers, policies and      *)
(* consumers, and any number of crashes, reconfigurations and imports.     *)
(*                                                                         *)
(* What makes the properties inductive is what a consume() in progress may *)
(* rely on although it reads the store and the registry again and again:   *)
(* its job is a recorded reconciliation application, whose dispatch was    *)
(* committed and so keeps its binding for ever, and the provider object it *)
(* holds is the one of that binding.                                       *)
(*                                                                         *)
(* An import may write any disposition.  What is applied is grounded all   *)
(* the same, because the application is committed from a source that       *)
(* reconstructs, and applied once, because a rebound one is refused.       *)
(***************************************************************************)
EXTENDS Recovery, TLAPS

\* What a consumer knows in each phase.
ConsumerKnows ==
    \A c \in Consumers:
        /\ pc[c] # "idle" => job[c] \in applications /\ IsReconciliation(job[c])
        /\ pc[c] \in {"resolved", "asking", "answered"} =>
              target[c] \in Bindings /\ target[c] = boundTo[job[c].basis.dispatch]
        /\ pc[c] \in {"asking", "answered"} => \E k \in calls: k.application = job[c]
        /\ pc[c] = "answered" => answer[c] \in Statuses

\* An attempt that was precommitted has given the Step its effect semantics.
StepKnown == \A d \in Dispatches: attempt[d] # "none" => stepSem \in Semantics

\* A query that went out was for a recorded application.
CallsBacked == \A k \in calls: k.application \in applications

IInv ==
    /\ TypeOK
    /\ StepKnown
    /\ RecoveryLineage
    /\ OneApplicationPerBasis
    /\ ConsumerKnows
    /\ CallsBacked
    /\ ExactTarget

-------------------------------------------------------------------------------
(* Types *)

\* The table of application kinds is total on the actions.
LEMMA KindOfAction == \A a \in Actions: KindOf[a] \in Kinds
BY DEF Kinds

\* A disposition is recorded for a basis that reconstructs, which has its type.
LEMMA DispositionTyped ==
    ASSUME TypeOK, StepKnown, NEW d \in Dispatches, NEW cited \in SUBSET Instances,
           NEW out \in Results \cup {None}, NEW p \in Policies, NEW a \in Decisions,
           CommitDisposition(d, cited, out, p, a)
    PROVE  \E b \in Basis:
              /\ Reconstructs(b) /\ Decided(b) = {}
              /\ dispositions' = dispositions \cup {[basis |-> b, action |-> a]}
              /\ [basis |-> b, action |-> a] \in Disposition
<1> DEFINE b == [dispatch |-> d, observations |-> cited, outcome |-> out,
                 mode |-> DispatchRecoveryMode(d), sem |-> stepSem, policy |-> p]
<1>1. /\ Reconstructs(b) /\ Decided(b) = {}
      /\ dispositions' = dispositions \cup {[basis |-> b, action |-> a]}
  BY DEF CommitDisposition
<1>2. DispatchRecoveryMode(d) \in {"idempotent-retry", "reconcile", "unknown"}
  BY <1>1 DEF Reconstructs, DispatchGraph, DispatchRecoveryMode
<1>3. stepSem \in Semantics
  BY <1>1 DEF Reconstructs, DispatchGraph, StepKnown
<1>4. b \in Basis
  BY <1>2, <1>3 DEF Basis
<1>5. [basis |-> b, action |-> a] \in Disposition
  BY <1>4, RecoveryAssumption DEF Disposition
<1> HIDE DEF b
<1> QED BY <1>1, <1>4, <1>5

\* The application of a disposition is well formed.
LEMMA ApplicationTyped ==
    ASSUME NEW x \in Disposition
    PROVE  /\ ApplicationOf(x) \in Application
           /\ ApplicationOf(x).basis = x.basis /\ ApplicationOf(x).kind = KindOf[x.action]
BY KindOfAction DEF Disposition, ApplicationOf, Application

\* The state a step leaves behind has its types.
LEMMA TypeStep == TypeOK /\ StepKnown /\ ConsumerKnows /\ [Next]_vars => TypeOK' /\ StepKnown'
<1> SUFFICES ASSUME TypeOK, StepKnown, ConsumerKnows, [Next]_vars PROVE TypeOK' /\ StepKnown'
  OBVIOUS
<1>0. ASSUME NEW d \in Dispatches, NEW cited \in SUBSET Instances, NEW out \in Results \cup {None},
             NEW p \in Policies, NEW a \in Decisions, CommitDisposition(d, cited, out, p, a)
      PROVE  dispositions' \subseteq Disposition
  <2>1. dispositions \subseteq Disposition
    BY DEF TypeOK
  <2>2. PICK b \in Basis: /\ dispositions' = dispositions \cup {[basis |-> b, action |-> a]}
                         /\ [basis |-> b, action |-> a] \in Disposition
    BY <1>0, DispositionTyped, Zenon
  <2> QED BY <2>1, <2>2
<1> USE RecoveryAssumption
    DEF TypeOK, StepKnown, registryVars, dispatchVars, verifiedVars, factVars, consumerVars, importVars
<1>1. ASSUME NEW b \in Bindings, NEW k \in Contracts, Register(b, k) PROVE TypeOK' /\ StepKnown'
  BY <1>1 DEF Register
<1>2. CASE Unregister
  <2>1. faults' \in 0 .. MaxFaults
    BY <1>2 DEF Unregister
  <2> QED BY <1>2, <2>1 DEF Unregister
<1>3. CASE DescriptorDrift
  BY <1>3 DEF DescriptorDrift
<1>4. ASSUME NEW d \in Dispatches, Precommit(d) \/ ImportDispatch(d) PROVE TypeOK' /\ StepKnown'
  BY <1>4 DEF Precommit, ImportDispatch
<1>5. ASSUME NEW d \in Dispatches, Dispatch(d) PROVE TypeOK' /\ StepKnown'
  <2>1. CaptureAuthority(d) \in Authority \cup {None}
    BY <1>5 DEF Dispatch, LiveTarget, CaptureAuthority, AuthorityFor, ContractFor, Authority,
                Contract, Contracts
  <2>2. CaptureAuthority(d) # None => CaptureAuthority(d).contract.terms \in SafeContracts
    BY DEF CaptureAuthority, AuthorityFor, ContractFor
  <2>3. boundTo' \in [Dispatches -> Bindings \cup {None}]
    BY <1>5 DEF Dispatch, LiveTarget
  <2>4. authority' \in [Dispatches -> Authority \cup {None}]
    BY <1>5, <2>1 DEF Dispatch
  <2>5. \A e \in Dispatches: authority'[e] # None => authority'[e].contract.terms \in SafeContracts
    BY <1>5, <2>2 DEF Dispatch
  <2> QED BY <1>5, <2>3, <2>4, <2>5 DEF Dispatch
<1>6. ASSUME NEW d \in Dispatches, CommitOutcome(d) PROVE TypeOK' /\ StepKnown'
  BY <1>6 DEF CommitOutcome, Verifies, PreparedOutcome, Outcome
<1>7. ASSUME NEW d \in Dispatches, NEW r \in Results, SaveEvidence(d, r)
      PROVE  TypeOK' /\ StepKnown'
  BY <1>7 DEF SaveEvidence
<1>8. ASSUME NEW d \in Dispatches, NEW r \in Results, ImportOutcome(d, r)
      PROVE  TypeOK' /\ StepKnown'
  BY <1>8 DEF ImportOutcome, Outcome
<1>9. ASSUME NEW d \in Dispatches, NEW i \in Instances, CommitObservation(i, d) \/ ImportObservation(i, d)
      PROVE  TypeOK' /\ StepKnown'
  BY <1>9 DEF CommitObservation, ImportObservation
<1>10. ASSUME NEW d \in Dispatches, NEW cited \in SUBSET Instances, NEW out \in Results \cup {None},
              NEW p \in Policies, NEW a \in Decisions, CommitDisposition(d, cited, out, p, a)
       PROVE  TypeOK' /\ StepKnown'
  <2>1. dispositions' \subseteq Disposition
    BY <1>0, <1>10
  <2> QED BY <1>10, <2>1 DEF CommitDisposition
<1>11. ASSUME NEW x \in dispositions, CommitApplication(x) PROVE TypeOK' /\ StepKnown'
  <2>1. applications' \subseteq Application
    BY <1>11, ApplicationTyped DEF CommitApplication
  <2> QED BY <1>11, <2>1 DEF CommitApplication
<1>12. ASSUME NEW c \in Consumers, NEW a \in applications, Consume(c, a)
       PROVE  TypeOK' /\ StepKnown'
  BY <1>12 DEF Consume, GiveUp, Report, Completed
<1>13. ASSUME NEW c \in Consumers, ResolveTarget(c) PROVE TypeOK' /\ StepKnown'
  BY <1>13 DEF ResolveTarget, GiveUp
<1>14. ASSUME NEW c \in Consumers, AskProvider(c) PROVE TypeOK' /\ StepKnown'
  <2>1. [application |-> job[c], binding |-> target[c]] \in [application: Application, binding: Bindings]
    BY <1>14 DEF AskProvider, ConsumerKnows
  <2> QED BY <1>14, <2>1 DEF AskProvider, GiveUp
<1>15. ASSUME NEW c \in Consumers, NEW s \in Statuses, ProviderAnswers(c, s)
       PROVE  TypeOK' /\ StepKnown'
  BY <1>15 DEF ProviderAnswers
<1>16. ASSUME NEW c \in Consumers, ForeignAnswer(c) PROVE TypeOK' /\ StepKnown'
  <2>1. faults' \in 0 .. MaxFaults
    BY <1>16 DEF ForeignAnswer
  <2> QED BY <1>16, <2>1 DEF ForeignAnswer, GiveUp
<1>17. ASSUME NEW c \in Consumers, CommitCompletion(c) PROVE TypeOK' /\ StepKnown'
  <2>1. [key |-> job[c], value |-> answer[c]] \in Completion
    BY <1>17 DEF CommitCompletion, ConsumerKnows, Completion
  <2> QED BY <1>17, <2>1 DEF CommitCompletion, GiveUp, Report
<1>18. ASSUME NEW c \in Consumers, CommitFails(c) PROVE TypeOK' /\ StepKnown'
  <2>1. faults' \in 0 .. MaxFaults
    BY <1>18 DEF CommitFails
  <2> QED BY <1>18, <2>1 DEF CommitFails, GiveUp
<1>19. ASSUME NEW c \in Consumers, Crash(c) PROVE TypeOK' /\ StepKnown'
  <2>1. faults' \in 0 .. MaxFaults
    BY <1>19 DEF Crash
  <2> QED BY <1>19, <2>1 DEF Crash, GiveUp
<1>20. ASSUME NEW x \in Bundled, ImportDisposition(x) PROVE TypeOK' /\ StepKnown'
  <2>1. x \in Disposition /\ x.basis \in Basis
    BY BundleAssumption DEF Disposition
  <2>2. dispositions' \subseteq Disposition /\ bundled' \subseteq Basis
    BY <1>20, <2>1 DEF ImportDisposition
  <2>3. faults' \in 0 .. MaxFaults
    BY <1>20 DEF ImportDisposition
  <2> QED BY <1>20, <2>2, <2>3 DEF ImportDisposition
<1>21. CASE UNCHANGED vars
  BY <1>21 DEF vars
<1> QED
  BY <1>1, <1>2, <1>3, <1>4, <1>5, <1>6, <1>7, <1>8, <1>9, <1>10, <1>11, <1>12, <1>13, <1>14,
     <1>15, <1>16, <1>17, <1>18, <1>19, <1>20, <1>21 DEF Next
-------------------------------------------------------------------------------
(* Lineage *)

\* Only an import writes over a recorded fact, and what it may write over is a
\* disposition or an observation; no step rewrites what a commitment captured.
LEMMA FactsKept ==
    ASSUME TypeOK, [Next]_vars
    PROVE  /\ outcomes \subseteq outcomes'
           /\ applications \subseteq applications' /\ calls \subseteq calls'
           /\ bundled \subseteq bundled' /\ rewritten \subseteq rewritten'
           /\ \A x \in dispositions: \/ x \in dispositions'
                                     \/ (x.basis \in bundled' /\ \E y \in dispositions': y.basis = x.basis)
           /\ \A i \in Instances: observation[i] # None =>
                 observation'[i] # None /\ (i \in rewritten' \/ observation'[i] = observation[i])
           /\ \A d \in Dispatches: attempt[d] = "committed" =>
                 /\ attempt'[d] = "committed"
                 /\ boundTo'[d] = boundTo[d] /\ authority'[d] = authority[d]
<1> USE RecoveryAssumption
    DEF TypeOK, registryVars, dispatchVars, verifiedVars, factVars, consumerVars, importVars
<1> DEFINE Kept == /\ outcomes \subseteq outcomes'
                   /\ applications \subseteq applications' /\ calls \subseteq calls'
                   /\ bundled \subseteq bundled' /\ rewritten \subseteq rewritten'
                   /\ \A x \in dispositions: \/ x \in dispositions'
                                             \/ (x.basis \in bundled' /\ \E y \in dispositions': y.basis = x.basis)
                   /\ \A i \in Instances: observation[i] # None =>
                         observation'[i] # None /\ (i \in rewritten' \/ observation'[i] = observation[i])
                   /\ \A d \in Dispatches: attempt[d] = "committed" =>
                         /\ attempt'[d] = "committed"
                         /\ boundTo'[d] = boundTo[d] /\ authority'[d] = authority[d]
<1>1. ASSUME NEW b \in Bindings, NEW k \in Contracts, Register(b, k) PROVE Kept
  BY <1>1 DEF Register
<1>2. CASE Unregister \/ DescriptorDrift
  BY <1>2 DEF Unregister, DescriptorDrift
<1>3. ASSUME NEW d \in Dispatches, Precommit(d) \/ Dispatch(d) \/ ImportDispatch(d) PROVE Kept
  BY <1>3 DEF Precommit, Dispatch, ImportDispatch
<1>4. ASSUME NEW d \in Dispatches, CommitOutcome(d) PROVE Kept
  BY <1>4 DEF CommitOutcome
<1>5. ASSUME NEW d \in Dispatches, NEW r \in Results, SaveEvidence(d, r) \/ ImportOutcome(d, r)
      PROVE  Kept
  BY <1>5 DEF SaveEvidence, ImportOutcome
<1>6. ASSUME NEW d \in Dispatches, NEW i \in Instances, CommitObservation(i, d) \/ ImportObservation(i, d)
      PROVE  Kept
  BY <1>6 DEF CommitObservation, ImportObservation
<1>7. ASSUME NEW d \in Dispatches, NEW cited \in SUBSET Instances, NEW out \in Results \cup {None},
             NEW p \in Policies, NEW a \in Decisions, CommitDisposition(d, cited, out, p, a)
      PROVE  Kept
  BY <1>7 DEF CommitDisposition
<1>8. ASSUME NEW x \in dispositions, CommitApplication(x) PROVE Kept
  BY <1>8 DEF CommitApplication
<1>9. ASSUME NEW c \in Consumers, NEW a \in applications, Consume(c, a) PROVE Kept
  BY <1>9 DEF Consume
<1>10. ASSUME NEW c \in Consumers, ResolveTarget(c) \/ AskProvider(c) \/ ForeignAnswer(c) PROVE Kept
  BY <1>10 DEF ResolveTarget, AskProvider, ForeignAnswer
<1>11. ASSUME NEW c \in Consumers, NEW s \in Statuses, ProviderAnswers(c, s) PROVE Kept
  BY <1>11 DEF ProviderAnswers
<1>12. ASSUME NEW c \in Consumers, CommitCompletion(c) \/ CommitFails(c) \/ Crash(c) PROVE Kept
  BY <1>12 DEF CommitCompletion, CommitFails, Crash
<1>13. ASSUME NEW x \in Bundled, ImportDisposition(x) PROVE Kept
  <2>1. \A y \in dispositions: \/ y \in dispositions'
                              \/ (y.basis \in bundled' /\ \E z \in dispositions': z.basis = y.basis)
    BY <1>13 DEF ImportDisposition, Decided
  <2> QED BY <1>13, <2>1 DEF ImportDisposition
<1>14. CASE UNCHANGED vars
  BY <1>14 DEF vars
<1> QED
  BY <1>1, <1>2, <1>3, <1>4, <1>5, <1>6, <1>7, <1>8, <1>9, <1>10, <1>11, <1>12, <1>13, <1>14 DEF Next

\* Where the facts a step adds come from.
LEMMA NewFacts ==
    ASSUME TypeOK, StepKnown, [Next]_vars
    PROVE  /\ \A x \in dispositions' \ dispositions: x.basis \in bundled' \/ Reconstructs(x.basis)
           /\ \A x \in dispositions' \ dispositions: \A y \in dispositions': y.basis = x.basis => y = x
           /\ \A a \in applications' \ applications: \E x \in dispositions:
                 a = ApplicationOf(x) /\ Reconstructs(x.basis) /\ ~Rebound(x)
           /\ \A f \in completions' \ completions: \E c \in Consumers:
                 /\ pc[c] = "answered" /\ f = [key |-> job[c], value |-> answer[c]]
                 /\ AcceptsCompletion(f)
<1> DEFINE New == /\ \A x \in dispositions' \ dispositions: x.basis \in bundled' \/ Reconstructs(x.basis)
                  /\ \A x \in dispositions' \ dispositions: \A y \in dispositions': y.basis = x.basis => y = x
                  /\ \A a \in applications' \ applications: \E x \in dispositions:
                        a = ApplicationOf(x) /\ Reconstructs(x.basis) /\ ~Rebound(x)
                  /\ \A f \in completions' \ completions: \E c \in Consumers:
                        /\ pc[c] = "answered" /\ f = [key |-> job[c], value |-> answer[c]]
                        /\ AcceptsCompletion(f)
<1>0. ASSUME UNCHANGED <<dispositions, applications, completions>> PROVE New
  BY <1>0
<1> USE DEF factVars
<1>1. ASSUME NEW b \in Bindings, NEW k \in Contracts, Register(b, k) PROVE New
  BY <1>0, <1>1 DEF Register
<1>2. CASE Unregister \/ DescriptorDrift
  BY <1>0, <1>2 DEF Unregister, DescriptorDrift
<1>3. ASSUME NEW d \in Dispatches, Precommit(d) \/ Dispatch(d) \/ ImportDispatch(d) PROVE New
  BY <1>0, <1>3 DEF Precommit, Dispatch, ImportDispatch
<1>4. ASSUME NEW d \in Dispatches, CommitOutcome(d) PROVE New
  BY <1>0, <1>4 DEF CommitOutcome
<1>5. ASSUME NEW d \in Dispatches, NEW r \in Results, SaveEvidence(d, r) \/ ImportOutcome(d, r)
      PROVE  New
  BY <1>0, <1>5 DEF SaveEvidence, ImportOutcome
<1>6. ASSUME NEW d \in Dispatches, NEW i \in Instances, CommitObservation(i, d) \/ ImportObservation(i, d)
      PROVE  New
  BY <1>0, <1>6 DEF CommitObservation, ImportObservation
<1>7. ASSUME NEW d \in Dispatches, NEW cited \in SUBSET Instances, NEW out \in Results \cup {None},
             NEW p \in Policies, NEW a \in Decisions, CommitDisposition(d, cited, out, p, a)
      PROVE  New
  <2>1. PICK b \in Basis:
           /\ Reconstructs(b) /\ Decided(b) = {}
           /\ dispositions' = dispositions \cup {[basis |-> b, action |-> a]}
           /\ [basis |-> b, action |-> a] \in Disposition
    BY <1>7, DispositionTyped, Zenon
  <2>2. \A x \in dispositions' \ dispositions: x.basis = b /\ x = [basis |-> b, action |-> a]
    BY <2>1
  <2>3. \A y \in dispositions: y.basis # b
    BY <2>1 DEF Decided
  <2>4. \A x \in dispositions' \ dispositions: \A y \in dispositions': y.basis = x.basis => y = x
    BY <2>1, <2>2, <2>3
  <2>5. UNCHANGED <<applications, completions>>
    BY <1>7 DEF CommitDisposition
  <2> QED BY <2>1, <2>2, <2>4, <2>5
<1>8. ASSUME NEW x \in dispositions, CommitApplication(x) PROVE New
  <2>1. \A a \in applications' \ applications: a = ApplicationOf(x)
    BY <1>8 DEF CommitApplication
  <2> QED BY <1>8, <2>1 DEF CommitApplication, SourceReconstructs
<1>9. ASSUME NEW c \in Consumers, NEW a \in applications, Consume(c, a) PROVE New
  BY <1>0, <1>9 DEF Consume
<1>10. ASSUME NEW c \in Consumers, ResolveTarget(c) \/ AskProvider(c) \/ ForeignAnswer(c) PROVE New
  BY <1>0, <1>10 DEF ResolveTarget, AskProvider, ForeignAnswer
<1>11. ASSUME NEW c \in Consumers, NEW s \in Statuses, ProviderAnswers(c, s) PROVE New
  BY <1>0, <1>11 DEF ProviderAnswers
<1>12. ASSUME NEW c \in Consumers, CommitCompletion(c) PROVE New
  BY <1>12 DEF CommitCompletion
<1>13. ASSUME NEW c \in Consumers, CommitFails(c) \/ Crash(c) PROVE New
  BY <1>0, <1>13 DEF CommitFails, Crash
<1>14. ASSUME NEW x \in Bundled, ImportDisposition(x) PROVE New
  <2>1. \A y \in dispositions' \ dispositions: y = x
    BY <1>14 DEF ImportDisposition
  <2>2. \A y \in dispositions': y.basis = x.basis => y = x
    BY <1>14 DEF ImportDisposition, Decided
  <2>3. x.basis \in bundled' /\ UNCHANGED <<applications, completions>>
    BY <1>14 DEF ImportDisposition
  <2> QED BY <2>1, <2>2, <2>3
<1>15. CASE UNCHANGED vars
  BY <1>0, <1>15 DEF vars
<1> QED
  BY <1>1, <1>2, <1>3, <1>4, <1>5, <1>6, <1>7, <1>8, <1>9, <1>10, <1>11, <1>12, <1>13, <1>14,
     <1>15 DEF Next

\* A basis that reconstructs is grounded, and stays so.
LEMMA ReconstructedGrounded ==
    ASSUME NEW b \in Basis, Reconstructs(b)
    PROVE  Grounded(b)
<1>1. b.dispatch # None
  BY RecoveryAssumption DEF Basis
<1> QED BY <1>1 DEF Reconstructs, DispatchGraph, ValidObservation, ConfirmedOutcome, Grounded

LEMMA GroundedKept ==
    ASSUME TypeOK, [Next]_vars, NEW b \in Basis, Grounded(b)
    PROVE  Grounded(b)'
<1>1. b.dispatch \in Dispatches /\ b.observations \subseteq Instances
  BY DEF Basis
<1>2. attempt'[b.dispatch] = "committed"
  BY <1>1, FactsKept DEF Grounded
<1>3. ASSUME NEW i \in b.observations
      PROVE  observation'[i] # None /\ (i \notin rewritten' => observation'[i] = b.dispatch)
  BY <1>1, FactsKept DEF Grounded
<1>4. b.outcome # None => [dispatch |-> b.dispatch, result |-> b.outcome] \in outcomes'
  BY FactsKept DEF Grounded
<1> QED BY <1>2, <1>3, <1>4 DEF Grounded

\* Every new fact rests on facts that are on record when it is written.
LEMMA LineageStep ==
    TypeOK /\ StepKnown /\ ConsumerKnows /\ RecoveryLineage /\ [Next]_vars => RecoveryLineage'
<1> SUFFICES ASSUME TypeOK, StepKnown, ConsumerKnows, RecoveryLineage, [Next]_vars
             PROVE  RecoveryLineage'
  OBVIOUS
<1>0. /\ dispositions \subseteq Disposition /\ dispositions' \subseteq Disposition
      /\ applications \subseteq Application /\ applications' \subseteq Application
  BY TypeStep DEF TypeOK
<1>1. ASSUME NEW x \in dispositions', x.basis \notin bundled' PROVE Grounded(x.basis)'
  <2>1. x.basis \in Basis
    BY <1>0, <1>1 DEF Disposition
  <2>2. CASE x \in dispositions
    <3>1. x.basis \notin bundled
      BY <1>1, FactsKept
    <3>2. Grounded(x.basis)
      BY <2>2, <3>1 DEF RecoveryLineage
    <3> QED BY <2>1, <3>2, GroundedKept
  <2>3. CASE x \notin dispositions
    <3>1. Reconstructs(x.basis)
      BY <1>1, <2>3, NewFacts
    <3> QED BY <2>1, <3>1, ReconstructedGrounded, GroundedKept
  <2> QED BY <2>2, <2>3
<1>2. ASSUME NEW a \in applications' PROVE Grounded(a.basis)'
  <2>1. a.basis \in Basis
    BY <1>0, <1>2 DEF Application
  <2>2. CASE a \in applications
    <3>1. Grounded(a.basis)
      BY <2>2 DEF RecoveryLineage
    <3> QED BY <2>1, <3>1, GroundedKept
  <2>3. CASE a \notin applications
    <3>1. PICK x \in dispositions: a = ApplicationOf(x) /\ Reconstructs(x.basis)
      BY <1>2, <2>3, NewFacts
    <3>2. a.basis = x.basis
      BY <1>0, <3>1, ApplicationTyped
    <3> QED BY <2>1, <3>1, <3>2, ReconstructedGrounded, GroundedKept
  <2> QED BY <2>2, <2>3
<1>3. ASSUME NEW a \in applications'
      PROVE  \E x \in dispositions':
                x.basis = a.basis /\ (a.basis \in bundled' \/ a.kind = KindOf[x.action])
  <2>1. \E x \in dispositions:
           x.basis = a.basis /\ (a.basis \in bundled \/ a.kind = KindOf[x.action])
    <3>1. CASE a \in applications
      BY <3>1 DEF RecoveryLineage
    <3>2. CASE a \notin applications
      <4>1. PICK x \in dispositions: a = ApplicationOf(x)
        BY <1>3, <3>2, NewFacts
      <4> QED BY <1>0, <4>1, ApplicationTyped
    <3> QED BY <3>1, <3>2
  <2> QED BY <2>1, FactsKept
<1>4. ASSUME NEW f \in completions'
      PROVE  /\ f.key \in applications' /\ f.key.kind = "reconciliation-request"
             /\ \E k \in calls': k.application = f.key
  <2>1. CASE f \in completions
    BY <2>1, FactsKept DEF RecoveryLineage
  <2>2. CASE f \notin completions
    <3>1. PICK c \in Consumers: /\ pc[c] = "answered" /\ f = [key |-> job[c], value |-> answer[c]]
                               /\ AcceptsCompletion(f)
      BY <1>4, <2>2, NewFacts
    <3>2. f.key = job[c] /\ \E k \in calls: k.application = job[c]
      BY <3>1 DEF ConsumerKnows
    <3> QED BY <3>1, <3>2, FactsKept DEF AcceptsCompletion, IsReconciliation
  <2> QED BY <2>1, <2>2
<1> QED BY <1>1, <1>2, <1>3, <1>4 DEF RecoveryLineage

\* An application whose basis has one already is that one: its disposition is
\* the only one of the basis and may not have been rebound.
LEMMA OneApplicationStep ==
    TypeOK /\ StepKnown /\ OneApplicationPerBasis /\ [Next]_vars => OneApplicationPerBasis'
<1> SUFFICES ASSUME TypeOK, StepKnown, OneApplicationPerBasis, [Next]_vars
             PROVE  OneApplicationPerBasis'
  OBVIOUS
<1>1. ASSUME NEW x \in dispositions', NEW y \in dispositions', x.basis = y.basis PROVE x = y
  BY <1>1, NewFacts DEF OneApplicationPerBasis
<1>2. ASSUME NEW a \in applications' \ applications, NEW b \in applications', a.basis = b.basis
      PROVE  a = b
  <2>1. PICK x \in dispositions: a = ApplicationOf(x) /\ ~Rebound(x)
    BY <1>2, NewFacts
  <2>2. a.basis = x.basis
    BY <2>1, ApplicationTyped DEF TypeOK
  <2>3. CASE b \in applications
    BY <1>2, <2>1, <2>2, <2>3 DEF Rebound
  <2>4. CASE b \notin applications
    <3>1. PICK y \in dispositions: b = ApplicationOf(y)
      BY <1>2, <2>4, NewFacts
    <3>2. b.basis = y.basis
      BY <3>1, ApplicationTyped DEF TypeOK
    <3> QED BY <1>2, <2>1, <2>2, <3>1, <3>2 DEF OneApplicationPerBasis
  <2> QED BY <2>3, <2>4
<1>3. ASSUME NEW a \in applications', NEW b \in applications', a.basis = b.basis PROVE a = b
  BY <1>2, <1>3 DEF OneApplicationPerBasis
<1> QED BY <1>1, <1>3 DEF OneApplicationPerBasis

-------------------------------------------------------------------------------
(* Consumers *)

\* A dispatch an application is about was committed.
LEMMA CommittedDispatch ==
    ASSUME TypeOK, RecoveryLineage, NEW a \in applications
    PROVE  a.basis.dispatch \in Dispatches /\ attempt[a.basis.dispatch] = "committed"
<1>1. Grounded(a.basis)
  BY DEF RecoveryLineage
<1>2. a.basis.dispatch \in Dispatches
  BY DEF TypeOK, Application, Basis
<1> QED BY <1>1, <1>2 DEF Grounded

\* The provider object in hand stays that of the dispatch's binding, whatever
\* becomes of the registry.
LEMMA ConsumerStep ==
    TypeOK /\ RecoveryLineage /\ ConsumerKnows /\ [Next]_vars => ConsumerKnows'
<1> SUFFICES ASSUME TypeOK, RecoveryLineage, ConsumerKnows, [Next]_vars PROVE ConsumerKnows'
  OBVIOUS
<1>0. ASSUME UNCHANGED <<pc, job, target, answer>> PROVE ConsumerKnows'
  <2>1. ASSUME NEW c \in Consumers, pc[c] # "idle"
        PROVE  boundTo'[job[c].basis.dispatch] = boundTo[job[c].basis.dispatch]
    BY <2>1, CommittedDispatch, FactsKept DEF ConsumerKnows
  <2> QED BY <1>0, <2>1, FactsKept DEF ConsumerKnows
<1>1. ASSUME NEW b \in Bindings, NEW k \in Contracts, Register(b, k) PROVE ConsumerKnows'
  BY <1>0, <1>1 DEF Register, consumerVars
<1>2. CASE Unregister \/ DescriptorDrift
  BY <1>0, <1>2 DEF Unregister, DescriptorDrift, consumerVars
<1>3. ASSUME NEW d \in Dispatches, Precommit(d) \/ Dispatch(d) \/ ImportDispatch(d) PROVE ConsumerKnows'
  BY <1>0, <1>3 DEF Precommit, Dispatch, ImportDispatch, consumerVars
<1>4. ASSUME NEW d \in Dispatches, CommitOutcome(d) PROVE ConsumerKnows'
  BY <1>0, <1>4 DEF CommitOutcome, consumerVars
<1>5. ASSUME NEW d \in Dispatches, NEW r \in Results, SaveEvidence(d, r) \/ ImportOutcome(d, r)
      PROVE  ConsumerKnows'
  BY <1>0, <1>5 DEF SaveEvidence, ImportOutcome, consumerVars
<1>6. ASSUME NEW d \in Dispatches, NEW i \in Instances, CommitObservation(i, d) \/ ImportObservation(i, d)
      PROVE  ConsumerKnows'
  BY <1>0, <1>6 DEF CommitObservation, ImportObservation, consumerVars
<1>7. ASSUME NEW d \in Dispatches, NEW cited \in SUBSET Instances, NEW out \in Results \cup {None},
             NEW p \in Policies, NEW a \in Decisions, CommitDisposition(d, cited, out, p, a)
      PROVE  ConsumerKnows'
  BY <1>0, <1>7 DEF CommitDisposition, consumerVars
<1>8. ASSUME NEW x \in dispositions, CommitApplication(x) PROVE ConsumerKnows'
  BY <1>0, <1>8 DEF CommitApplication, consumerVars
<1> USE DEF TypeOK, ConsumerKnows, registryVars, dispatchVars, factVars
<1>9. ASSUME NEW c \in Consumers, NEW a \in applications, Consume(c, a) PROVE ConsumerKnows'
  BY <1>9 DEF Consume, GiveUp, Report
<1>10. ASSUME NEW c \in Consumers, ResolveTarget(c) PROVE ConsumerKnows'
  BY <1>10 DEF ResolveTarget, GiveUp, Resolves, LiveTarget, HistoricalBinding
<1>11. ASSUME NEW c \in Consumers, AskProvider(c) PROVE ConsumerKnows'
  <2>1. CASE Eligible(job[c].basis.dispatch)
    <3>1. calls \subseteq calls' /\ [application |-> job[c], binding |-> target[c]] \in calls'
      BY <1>11, <2>1 DEF AskProvider
    <3>2. \E k \in calls': k.application = job[c]
      BY <3>1
    <3> QED BY <1>11, <2>1, <3>1, <3>2 DEF AskProvider
  <2>2. CASE ~Eligible(job[c].basis.dispatch)
    BY <1>11, <2>2 DEF AskProvider, GiveUp
  <2> QED BY <2>1, <2>2
<1>12. ASSUME NEW c \in Consumers, NEW s \in Statuses, ProviderAnswers(c, s) PROVE ConsumerKnows'
  BY <1>12 DEF ProviderAnswers
<1>13. ASSUME NEW c \in Consumers, ForeignAnswer(c) \/ CommitFails(c) \/ Crash(c) PROVE ConsumerKnows'
  BY <1>13 DEF ForeignAnswer, CommitFails, Crash, GiveUp
<1>14. ASSUME NEW c \in Consumers, CommitCompletion(c) PROVE ConsumerKnows'
  BY <1>14 DEF CommitCompletion, GiveUp, Report
<1>15. ASSUME NEW x \in Bundled, ImportDisposition(x) PROVE ConsumerKnows'
  BY <1>0, <1>15 DEF ImportDisposition, consumerVars
<1>16. CASE UNCHANGED vars
  BY <1>0, <1>16 DEF vars, consumerVars
<1> QED
  BY <1>1, <1>2, <1>3, <1>4, <1>5, <1>6, <1>7, <1>8, <1>9, <1>10, <1>11, <1>12, <1>13, <1>14,
     <1>15, <1>16 DEF Next

\* A query goes out from the consumer of a recorded application, to the object
\* in its hand, once the dispatch proves eligible.
LEMMA NewCalls ==
    ASSUME TypeOK, [Next]_vars, NEW k \in calls' \ calls
    PROVE  \E c \in Consumers:
              /\ pc[c] = "resolved" /\ Eligible(job[c].basis.dispatch)
              /\ k = [application |-> job[c], binding |-> target[c]]
<1>0. calls' # calls
  OBVIOUS
<1>1. ASSUME NEW d \in Dispatches
      PROVE  /\ ~Precommit(d) /\ ~Dispatch(d) /\ ~ImportDispatch(d) /\ ~CommitOutcome(d)
             /\ \A r \in Results: ~SaveEvidence(d, r) /\ ~ImportOutcome(d, r)
             /\ \A i \in Instances: ~CommitObservation(i, d) /\ ~ImportObservation(i, d)
             /\ \A cited \in SUBSET Instances, out \in Results \cup {None}, p \in Policies, a \in Decisions:
                   ~CommitDisposition(d, cited, out, p, a)
  BY <1>0 DEF Precommit, Dispatch, ImportDispatch, CommitOutcome, SaveEvidence, ImportOutcome,
              CommitObservation, ImportObservation, CommitDisposition
<1>2. /\ ~Unregister /\ ~DescriptorDrift /\ ~UNCHANGED vars
      /\ \A b \in Bindings, k1 \in Contracts: ~Register(b, k1)
      /\ \A x \in dispositions: ~CommitApplication(x)
      /\ \A x \in Bundled: ~ImportDisposition(x)
  BY <1>0 DEF Unregister, DescriptorDrift, vars, Register, CommitApplication, ImportDisposition
<1>3. ASSUME NEW c \in Consumers
      PROVE  /\ \A a \in applications: ~Consume(c, a)
             /\ \A s \in Statuses: ~ProviderAnswers(c, s)
             /\ ~ResolveTarget(c) /\ ~ForeignAnswer(c) /\ ~CommitCompletion(c)
             /\ ~CommitFails(c) /\ ~Crash(c)
  BY <1>0 DEF Consume, ResolveTarget, ProviderAnswers, ForeignAnswer, CommitCompletion, CommitFails, Crash
<1>4. \E c \in Consumers: AskProvider(c)
  BY <1>1, <1>2, <1>3 DEF Next
<1> QED BY <1>4 DEF AskProvider

LEMMA CallsStep ==
    TypeOK /\ RecoveryLineage /\ ConsumerKnows /\ CallsBacked /\ ExactTarget /\ [Next]_vars
        => CallsBacked' /\ ExactTarget'
<1> SUFFICES ASSUME TypeOK, RecoveryLineage, ConsumerKnows, CallsBacked, ExactTarget, [Next]_vars,
                    NEW k \in calls'
             PROVE  LET d == k.application.basis.dispatch IN
                    /\ k.application \in applications'
                    /\ k.binding = boundTo'[d]
                    /\ authority'[d] # None /\ authority'[d].contract.binding = k.binding
                    /\ authority'[d].contract.terms \in SafeContracts
                    /\ k.application.kind = "reconciliation-request"
  BY DEF CallsBacked, ExactTarget
<1> DEFINE d == k.application.basis.dispatch
<1>1. CASE k \in calls
  <2>1. d \in Dispatches /\ attempt[d] = "committed"
    BY <1>1, CommittedDispatch DEF CallsBacked
  <2> QED BY <1>1, <2>1, FactsKept DEF CallsBacked, ExactTarget
<1>2. CASE k \notin calls
  <2>1. PICK c \in Consumers: /\ pc[c] = "resolved" /\ Eligible(job[c].basis.dispatch)
                              /\ k = [application |-> job[c], binding |-> target[c]]
    BY <1>2, NewCalls
  <2>2. k.application = job[c] /\ k.binding = target[c]
    BY <2>1
  <2>3. job[c] \in applications /\ IsReconciliation(job[c]) /\ target[c] = boundTo[d]
    BY <2>1, <2>2 DEF ConsumerKnows
  <2>4. d \in Dispatches /\ attempt[d] = "committed"
    BY <2>2, <2>3, CommittedDispatch
  <2>5. authority[d] # None /\ authority[d].contract.binding = boundTo[d]
    BY <2>1, <2>2 DEF Eligible, Repeatable, HistoricalAuthority, HistoricalBinding
  <2>6. authority[d].contract.terms \in SafeContracts
    BY <2>4, <2>5 DEF TypeOK
  <2> QED BY <2>2, <2>3, <2>4, <2>5, <2>6, FactsKept DEF IsReconciliation
<1> QED BY <1>1, <1>2

-------------------------------------------------------------------------------
(* Theorems *)

LEMMA IInvInit == Init => IInv
<1> SUFFICES ASSUME Init PROVE IInv
  OBVIOUS
<1>1. TypeOK
  <2>1. faults \in 0 .. MaxFaults
    BY RecoveryAssumption DEF Init
  <2>2. /\ outcomes \subseteq Outcome /\ dispositions \subseteq Disposition
        /\ applications \subseteq Application /\ completions \subseteq Completion
        /\ calls \subseteq [application: Application, binding: Bindings]
        /\ bundled \subseteq Basis /\ rewritten \subseteq Instances
    BY DEF Init
  <2>3. \A d \in Dispatches: authority[d] # None => authority[d].contract.terms \in SafeContracts
    BY DEF Init
  <2> QED BY <2>1, <2>2, <2>3 DEF Init, TypeOK
<1>2. StepKnown /\ RecoveryLineage /\ OneApplicationPerBasis
  BY DEF Init, StepKnown, RecoveryLineage, OneApplicationPerBasis
<1>3. ConsumerKnows /\ CallsBacked /\ ExactTarget
  BY DEF Init, ConsumerKnows, CallsBacked, ExactTarget
<1> QED BY <1>1, <1>2, <1>3 DEF IInv

LEMMA IInvStep == IInv /\ [Next]_vars => IInv'
BY TypeStep, LineageStep, OneApplicationStep, ConsumerStep, CallsStep DEF IInv

\* The inductive invariant of recovery holds in every reachable state.
THEOREM RecoveryInvariant == Spec => []IInv
BY IInvInit, IInvStep, PTL DEF Spec

\* The variables of the recovery chain keep their types; in particular what a
\* dispatch commitment captures as repeat-safe is.
THEOREM RecoveryTypes == Spec => []TypeOK
<1>1. IInv => TypeOK
  BY DEF IInv
<1> QED BY <1>1, RecoveryInvariant, PTL

\* Every completion and application on record rests on the earlier facts of its
\* own dispatch, although bases are rebuilt at each step from records that keep
\* changing and bundles bring and overwrite dispositions and observations.
THEOREM LineageHolds == Spec => []RecoveryLineage
<1>1. IInv => RecoveryLineage
  BY DEF IInv
<1> QED BY <1>1, RecoveryInvariant, PTL

\* One basis has one recorded decision and leads to one application, whatever
\* the policies answer when they are asked again and whatever decision a bundle
\* puts in its place.
THEOREM OneApplication == Spec => []OneApplicationPerBasis
<1>1. IInv => OneApplicationPerBasis
  BY DEF IInv
<1> QED BY <1>1, RecoveryInvariant, PTL

\* Only the configured provider a dispatch was committed to is ever asked
\* about it, and only under a repeat-safe contract captured at the commitment.
THEOREM OnlyExactTarget == Spec => []ExactTarget
<1>1. IInv => ExactTarget
  BY DEF IInv
<1> QED BY <1>1, RecoveryInvariant, PTL

\* A consumer's report is a replay of the recorded completion or the forgetting
\* of an earlier one; only CommitCompletion records.
LEMMA CompletionStep == IInv /\ [Next]_vars => [Fact!Next]_<<completions, told>>
<1> SUFFICES ASSUME IInv, [Next]_vars PROVE [Fact!Next]_<<completions, told>>
  OBVIOUS
<1> DEFINE Abs == Fact!Next \/ UNCHANGED <<completions, told>>
<1>0. ASSUME UNCHANGED <<completions, told>> PROVE Abs
  BY <1>0
<1>a. ASSUME NEW c \in Consumers, completions' = completions, told' = [told EXCEPT ![c] = None] PROVE Abs
  BY <1>a DEF Fact!Next, Fact!Forget
<1>b. ASSUME NEW c \in Consumers, NEW f \in completions, completions' = completions,
             told' = [told EXCEPT ![c] = f]
      PROVE  Abs
  <2>1. told'[c] = f /\ f \in Fact!Recordable
    BY <1>b DEF IInv, TypeOK, Completion, Fact!Recordable
  <2> QED BY <1>b, <2>1 DEF Fact!Next, Fact!Commit, Fact!Replay
<1>1. ASSUME NEW b \in Bindings, NEW k \in Contracts, Register(b, k) PROVE Abs
  BY <1>0, <1>1 DEF Register, consumerVars
<1>2. CASE Unregister \/ DescriptorDrift
  BY <1>0, <1>2 DEF Unregister, DescriptorDrift, consumerVars
<1>3. ASSUME NEW d \in Dispatches, Precommit(d) \/ Dispatch(d) \/ ImportDispatch(d) PROVE Abs
  BY <1>0, <1>3 DEF Precommit, Dispatch, ImportDispatch, consumerVars
<1>4. ASSUME NEW d \in Dispatches, CommitOutcome(d) PROVE Abs
  BY <1>0, <1>4 DEF CommitOutcome, consumerVars
<1>5. ASSUME NEW d \in Dispatches, NEW r \in Results, SaveEvidence(d, r) \/ ImportOutcome(d, r)
      PROVE  Abs
  BY <1>0, <1>5 DEF SaveEvidence, ImportOutcome, consumerVars
<1>6. ASSUME NEW d \in Dispatches, NEW i \in Instances, CommitObservation(i, d) \/ ImportObservation(i, d)
      PROVE  Abs
  BY <1>0, <1>6 DEF CommitObservation, ImportObservation, consumerVars
<1>7. ASSUME NEW d \in Dispatches, NEW cited \in SUBSET Instances, NEW out \in Results \cup {None},
             NEW p \in Policies, NEW a \in Decisions, CommitDisposition(d, cited, out, p, a)
      PROVE  Abs
  BY <1>0, <1>7 DEF CommitDisposition, consumerVars
<1>8. ASSUME NEW x \in dispositions, CommitApplication(x) PROVE Abs
  BY <1>0, <1>8 DEF CommitApplication, consumerVars
<1>9. ASSUME NEW c \in Consumers, NEW a \in applications, Consume(c, a) PROVE Abs
  <2>1. completions' = completions
    BY <1>9 DEF Consume
  <2>2. \/ told' = [told EXCEPT ![c] = None]
        \/ \E f \in completions: told' = [told EXCEPT ![c] = f]
    BY <1>9 DEF Consume, GiveUp, Report, Completed
  <2> QED BY <1>a, <1>b, <2>1, <2>2
<1>10. ASSUME NEW c \in Consumers, ResolveTarget(c) \/ AskProvider(c) PROVE Abs
  BY <1>0, <1>a, <1>10 DEF ResolveTarget, AskProvider, GiveUp
<1>11. ASSUME NEW c \in Consumers, NEW s \in Statuses, ProviderAnswers(c, s) PROVE Abs
  BY <1>0, <1>11 DEF ProviderAnswers
<1>12. ASSUME NEW c \in Consumers, ForeignAnswer(c) \/ CommitFails(c) \/ Crash(c) PROVE Abs
  BY <1>a, <1>12 DEF ForeignAnswer, CommitFails, Crash, GiveUp
<1>13. ASSUME NEW c \in Consumers, CommitCompletion(c) PROVE Abs
  <2> DEFINE f == [key |-> job[c], value |-> answer[c]]
  <2>1. CASE ~AcceptsCompletion(f)
    BY <1>a, <1>13, <2>1 DEF CommitCompletion, GiveUp
  <2>2. CASE AcceptsCompletion(f) /\ f \in completions
    <3>1. completions' = completions /\ told' = [told EXCEPT ![c] = f]
      BY <1>13, <2>2 DEF CommitCompletion, Report
    <3> QED BY <1>b, <2>2, <3>1
  <2>3. CASE AcceptsCompletion(f) /\ f \notin completions
    <3>1. completions' = completions \cup {f} /\ told' = [told EXCEPT ![c] = f]
      BY <1>13, <2>3 DEF CommitCompletion, Report
    <3>2. \A g \in completions: g.key # f.key
      BY <2>3 DEF AcceptsCompletion, Completed
    <3>3. f \in Fact!Recordable
      BY <1>13 DEF CommitCompletion, IInv, ConsumerKnows, TypeOK, Fact!Recordable
    <3>4. told'[c] = f
      BY <3>1 DEF IInv, TypeOK
    <3> HIDE DEF f
    <3> QED BY <3>1, <3>2, <3>3, <3>4 DEF Fact!Next, Fact!Commit, Fact!Record
  <2> QED BY <2>1, <2>2, <2>3
<1>14. ASSUME NEW x \in Bundled, ImportDisposition(x) PROVE Abs
  BY <1>0, <1>14 DEF ImportDisposition, consumerVars
<1>15. CASE UNCHANGED vars
  BY <1>0, <1>15 DEF vars, consumerVars
<1> QED
  BY <1>1, <1>2, <1>3, <1>4, <1>5, <1>6, <1>7, <1>8, <1>9, <1>10, <1>11, <1>12, <1>13, <1>14,
     <1>15 DEF Next

\* The completion of an application implements a write-once fact: concurrent
\* consumers, replays, crashes and refused commits included.
THEOREM CompletionRefines == Spec => CompletionLinearizes
<1>1. Init => Fact!Init
  BY DEF Init, Fact!Init
<1> QED BY <1>1, CompletionStep, RecoveryInvariant, PTL DEF Spec, CompletionLinearizes, Fact!Spec
================================================================================
