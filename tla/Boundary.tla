------------------------------- MODULE Boundary -------------------------------
(***************************************************************************)
(* RealityBoundary.execute (core/boundary.py) with its persistence stages  *)
(* (core/boundary_stages.py), the reliability accounting (core/            *)
(* reliability.py), the governed dispatch commit (governance/dispatch.py)  *)
(* and the run's lease.                                                    *)
(*                                                                         *)
(* Requests are invocations of one step of one run, so they race for the   *)
(* same Step record, the same lease and the same reliability budget.  A    *)
(* phase ends where execute() awaits (policy, health, routing, the         *)
(* provider) and where another thread or process may change the registry   *)
(* or the store between two reads (the rechecks before the provider call   *)
(* exist for that reason).                                                 *)
(*                                                                         *)
(* Gates whose only effect is a typed refusal (contract, policy, procedure,*)
(* action rate, cooldown, exposure, circuit breaker) are the action Refuse,*)
(* which is possible in every phase before the execution records exist;    *)
(* the gates that protect a property below are guards as well.             *)
(***************************************************************************)
EXTENDS Lease, FiniteSets

CONSTANTS
    Requests,
    SideEffects,       \* requests whose effective impact is above `read`
    Governed,          \* requests for which a governance-use requirement resolves
    Referenced,        \* requests that cite their authorization by reference
    Providers,
    MaxParallel,       \* max_parallel_side_effects
    Budget,            \* side_effect_budget
    Answers,           \* statuses a provider's CapabilityResult may have
    MaxChanges         \* bound: changes of the world around the calls

ASSUME BoundaryAssumption ==
    /\ IsFiniteSet(Requests)
    /\ SideEffects \subseteq Requests /\ Governed \subseteq Requests
    /\ Referenced \subseteq Requests
    /\ None \notin Providers /\ None \notin Requests /\ None \notin Nat
    /\ MaxParallel \in Nat /\ Budget \in Nat
    /\ Answers \subseteq {"succeeded", "failed", "unknown", "cancelled", "unavailable"}
    /\ MaxChanges \in Nat

VARIABLES
    facts,      \* authoritative qualification facts: version, and whether the
                \* actor's grant is valid
    gov,        \* canonical governance: snapshot number and judgment
    registry,   \* per provider: registration incarnation, and whether present
    active,     \* _active_side_effects
    spent,      \* _side_effect_count
    pc,         \* phase of each request's execute()
    claim,      \* lease facts each request carries
    basis,      \* what its AssessmentContext and admission captured
    target,     \* provider selected for it, and the incarnation looked up
    result,     \* what execute() returned, or the provider did
    step,       \* the Step record: status and current attempt
    attempts,   \* the StepAttempt record of each request: status, commit metadata
    actions,    \* the Action record of each request
    commits,    \* InvocationDispatchCommitted, with the truth at its commit
    touched,    \* requests whose provider was called
    overtaken,  \* requests during whose provider call the lease was acquired
    changes     \* of the world, so far

store == <<step, attempts, actions, commits>>
memory == <<active, spent>>
world == <<facts, gov, registry, lease>>
calls == <<pc, claim, basis, target, result>>
vars == <<facts, gov, registry, lease, active, spent, calls, store,
          touched, overtaken, changes>>

Phases == {"idle", "policy", "health", "routed", "precommitted", "requalified",
           "dispatched", "invoking", "returned", "done", "dead"}

\* How execute() ends without a provider's answer.
Refusals == {"refused", "aborted", "lookup-failed"}

RecordStatus == {"running", "succeeded", "failed", "cancelled", "unknown"}

\* What the store keeps: the Step, a StepAttempt (with whether its metadata
\* names a dispatch commitment) and a dispatch commitment.
Step == [status : RecordStatus \cup {None}, attempt : Requests \cup {None}]
StepAttempt == [status : RecordStatus, committed : BOOLEAN]
DispatchCommit == [snap : Nat, allowed : BOOLEAN]

ASSUME RecordAssumption ==
    /\ None \notin StepAttempt /\ None \notin DispatchCommit
    /\ None \notin RecordStatus /\ None \notin Refusals

\* Phases in which a side effect counts as in flight.
InFlight == {"precommitted", "requalified", "dispatched", "invoking"}

-----------------------------------------------------------------------------
(* Small helpers.                                                          *)

Set(f, r, v) == [f EXCEPT ![r] = v]

\* refresh_matches: only what the request cites by reference is re-read.
Qualified(r) == r \in Referenced => facts.version = basis[r].facts

\* _governance_recheck_failure / _governance_permit_failure found nothing.
GovernanceCurrent(r) == r \in Governed => gov.allowed /\ gov.snap = basis[r].gov

\* check_authorization: the grants captured by reference, or the store's.
Authorized(r) ==
    r \in SideEffects =>
        IF r \in Referenced THEN basis[r].granted ELSE facts.granted

\* assess(): local limits, read but not reserved.
WithinReliability == active < MaxParallel /\ spent < Budget

\* complete_action, for a request that was accounted as a side effect.
CompleteAction(r) ==
    active' = IF r \in SideEffects /\ active > 0 THEN active - 1 ELSE active

\* The status the execution projection writes for a provider's answer.
Projected(s) == IF s = "unavailable" THEN "failed" ELSE s

-----------------------------------------------------------------------------
Init ==
    /\ LeaseInit
    /\ facts = [version |-> 0, granted |-> TRUE]
    /\ gov = [snap |-> 0, allowed |-> TRUE]
    /\ registry = [p \in Providers |-> [inc |-> 1, present |-> TRUE]]
    /\ active = 0 /\ spent = 0
    /\ pc = [r \in Requests |-> "idle"]
    /\ claim = [r \in Requests |-> [generation |-> 0, owner |-> None]]
    /\ basis = [r \in Requests |-> [facts |-> 0, granted |-> FALSE, gov |-> 0]]
    /\ target = [r \in Requests |-> [provider |-> None, inc |-> 0]]
    /\ result = [r \in Requests |-> None]
    /\ step = [status |-> None, attempt |-> None]
    /\ attempts = [r \in Requests |-> None]
    /\ actions = [r \in Requests |-> None]
    /\ commits = [r \in Requests |-> None]
    /\ touched = {} /\ overtaken = {}
    /\ changes = 0

-----------------------------------------------------------------------------
(* execute(), phase by phase.                                              *)

\* AssessmentContext.resolve: the records the request cites, looked up, valid
\* now and frozen, beside the governance snapshot of the use admission.
AssessmentContext(snap) ==
    [facts |-> facts.version, granted |-> facts.granted, gov |-> snap]

\* InvocationFactory.build copies the run's lease into the request; then, from
\* the contract to the await of the policy engine, fencing is checked and the
\* qualification facts and the governance judgment are captured.
Admit(r) ==
    /\ pc[r] = "idle"
    /\ Fenced(lease.generation, lease.owner)
    /\ r \in Governed => gov.allowed
    /\ claim' = Set(claim, r, [generation |-> lease.generation, owner |-> lease.owner])
    /\ basis' = Set(basis, r, AssessmentContext(gov.snap))
    /\ pc' = Set(pc, r, "policy")
    /\ UNCHANGED <<world, memory, store, target, result, touched, overtaken, changes>>

\* A gate says no before any record exists, the precommit of records included.
Refuse(r) ==
    /\ pc[r] \in {"idle", "policy", "health", "routed"}
    /\ pc' = Set(pc, r, "done")
    /\ result' = Set(result, r, "refused")
    /\ UNCHANGED <<world, memory, store, claim, basis, target, touched, overtaken, changes>>

\* Policy answered: obligations, authorization, procedure and reliability.
Assess(r) ==
    /\ pc[r] = "policy"
    /\ Authorized(r)
    /\ WithinReliability
    /\ pc' = Set(pc, r, "health")
    /\ UNCHANGED <<world, memory, store, claim, basis, target, result,
                   touched, overtaken, changes>>

\* select_provider_stage: p is registered and healthy, and routing picks it.
Select(r, p) ==
    /\ pc[r] = "health"
    /\ registry[p].present
    /\ target' = Set(target, r, [provider |-> p, inc |-> 0])
    /\ pc' = Set(pc, r, "routed")
    /\ UNCHANGED <<world, memory, store, claim, basis, result, touched, overtaken, changes>>

\* Faulty: the records of a side effect are best effort too.
SaveRecordsBestEffort(r) ==
    \/ UNCHANGED <<step, attempts, actions>>
    \/ /\ step' = [status |-> "running", attempt |-> r]
       /\ attempts' = Set(attempts, r, [status |-> "running", committed |-> FALSE])
       /\ actions' = Set(actions, r, "running")

\* precommit_execution_records: for a side effect step, attempt and action in
\* one transaction (a failure refuses the call); for a read, the step and then
\* the attempt, as far as the store takes them, and no action yet.
SaveRecords(r) ==
    \/ /\ r \in SideEffects
       /\ step' = [status |-> "running", attempt |-> r]
       /\ attempts' = Set(attempts, r, [status |-> "running", committed |-> FALSE])
       /\ actions' = Set(actions, r, "running")
    \/ /\ r \notin SideEffects
       /\ step' = [status |-> "running", attempt |-> step.attempt]
       /\ attempts' \in {attempts,
                         Set(attempts, r, [status |-> "running", committed |-> FALSE])}
       /\ UNCHANGED actions
    \/ /\ r \notin SideEffects
       /\ UNCHANGED <<step, attempts, actions>>

\* The rechecks after routing, then the records.
Precommitted(r) ==
    /\ pc[r] = "routed"
    /\ Qualified(r)
    /\ GovernanceCurrent(r)
    /\ SaveRecords(r)

\* Records, accounting, and registry.get of a provider that is still there.
Precommit(r) ==
    LET p == target[r].provider IN
    /\ Precommitted(r)
    /\ registry[p].present
    /\ target' = Set(target, r, [provider |-> p, inc |-> registry[p].inc])
    /\ active' = IF r \in SideEffects THEN active + 1 ELSE active
    /\ spent' = IF r \in SideEffects THEN spent + 1 ELSE spent
    /\ pc' = Set(pc, r, "precommitted")
    /\ UNCHANGED <<world, commits, claim, basis, result,
                   touched, overtaken, changes>>

\* The provider was unregistered while execute() awaited: capacity is given
\* back, and the records stay as they are.
LookupFails(r) ==
    /\ Precommitted(r)
    /\ ~registry[target[r].provider].present
    /\ spent' = IF r \in SideEffects THEN spent + 1 ELSE spent
    /\ pc' = Set(pc, r, "done")
    /\ result' = Set(result, r, "lookup-failed")
    /\ UNCHANGED <<world, active, commits, claim, basis, target,
                   touched, overtaken, changes>>

\* Faulty: the last refresh looks at governance only.
RequalifyGovernance(r) ==
    /\ pc[r] = "precommitted"
    /\ GovernanceCurrent(r)
    /\ pc' = Set(pc, r, "requalified")
    /\ UNCHANGED <<world, memory, store, claim, basis, target, result,
                   touched, overtaken, changes>>

\* The last refresh of qualification and governance.
Requalify(r) ==
    /\ pc[r] = "precommitted"
    /\ Qualified(r)
    /\ GovernanceCurrent(r)
    /\ pc' = Set(pc, r, "requalified")
    /\ UNCHANGED <<world, memory, store, claim, basis, target, result,
                   touched, overtaken, changes>>

\* Faulty: capacity is kept when the invocation is aborted.
AbortKeepingCapacity(r) ==
    /\ pc[r] = "precommitted" \/ (pc[r] = "requalified" /\ r \in Governed)
    /\ pc' = Set(pc, r, "done")
    /\ result' = Set(result, r, "aborted")
    /\ UNCHANGED <<world, memory, store, claim, basis, target,
                   touched, overtaken, changes>>

\* abort_preinvocation_records, in one transaction that the store may refuse.
CancelRecords(r) ==
    \/ /\ attempts[r] # None
       /\ step' = [status |-> "cancelled", attempt |-> step.attempt]
       /\ attempts' = Set(attempts, r, [status |-> "cancelled", committed |-> FALSE])
       /\ actions' = IF r \in SideEffects THEN Set(actions, r, "cancelled") ELSE actions
    \/ UNCHANGED <<step, attempts, actions>>

\* abort_before_reality_exit: a fact changed or could not be read, or the
\* dispatch commit was refused.
Abort(r) ==
    /\ pc[r] = "precommitted" \/ (pc[r] = "requalified" /\ r \in Governed)
    /\ CompleteAction(r)
    /\ CancelRecords(r)
    /\ pc' = Set(pc, r, "done")
    /\ result' = Set(result, r, "aborted")
    /\ UNCHANGED <<world, spent, commits, claim, basis, target,
                   touched, overtaken, changes>>

\* Faulty: the commit relies on the recheck that came before it.
DispatchUnchecked(r) ==
    /\ pc[r] = "requalified"
    /\ IF r \in Governed
       THEN /\ commits' = Set(commits, r, [snap |-> gov.snap, allowed |-> gov.allowed])
            /\ attempts' = IF attempts[r] = None THEN attempts
                           ELSE Set(attempts, r, [status |-> attempts[r].status,
                                                  committed |-> TRUE])
       ELSE UNCHANGED <<commits, attempts>>
    /\ pc' = Set(pc, r, "dispatched")
    /\ UNCHANGED <<world, memory, step, actions, claim, basis, target, result,
                   touched, overtaken, changes>>

\* GovernanceDispatchCommitter.commit: for a governed request, one linearized
\* write that re-evaluates governance, checks that the provider looked up is
\* the one registered, and binds the attempt; nothing for any other request.
Dispatch(r) ==
    /\ pc[r] = "requalified"
    /\ IF r \in Governed
       THEN /\ GovernanceCurrent(r)
            /\ registry[target[r].provider] = [inc |-> target[r].inc, present |-> TRUE]
            /\ commits' = Set(commits, r, [snap |-> gov.snap, allowed |-> gov.allowed])
            /\ attempts' = IF attempts[r] = None THEN attempts
                           ELSE Set(attempts, r, [status |-> attempts[r].status,
                                                  committed |-> TRUE])
       ELSE UNCHANGED <<commits, attempts>>
    /\ pc' = Set(pc, r, "dispatched")
    /\ UNCHANGED <<world, memory, step, actions, claim, basis, target, result,
                   touched, overtaken, changes>>

\* provider.invoke is called: the reality exit.
Invoke(r) ==
    /\ pc[r] = "dispatched"
    /\ touched' = touched \cup {r}
    /\ pc' = Set(pc, r, "invoking")
    /\ UNCHANGED <<world, memory, store, claim, basis, target, result, overtaken, changes>>

\* The provider answered (an exception is a failure) and the fence still holds.
Return(r, s) ==
    /\ pc[r] = "invoking"
    /\ Fenced(claim[r].generation, claim[r].owner)
    /\ CompleteAction(r)
    /\ pc' = Set(pc, r, "returned")
    /\ result' = Set(result, r, s)
    /\ UNCHANGED <<world, spent, store, claim, basis, target, touched, overtaken, changes>>

\* The provider answered and the fence does not hold, or cannot be read: step
\* and then attempt become unknown, as far as the store takes them; the Action
\* is left alone.
ReturnFenced(r) ==
    /\ pc[r] = "invoking"
    /\ CompleteAction(r)
    /\ \/ UNCHANGED <<step, attempts>>
       \/ /\ attempts[r] # None
          /\ step' = [status |-> "unknown", attempt |-> step.attempt]
          /\ attempts' \in {attempts,
                            Set(attempts, r, [status |-> "unknown",
                                              committed |-> attempts[r].committed])}
    /\ pc' = Set(pc, r, "done")
    /\ result' = Set(result, r, "unknown")
    /\ UNCHANGED <<world, spent, actions, commits, claim, basis, target,
                   touched, overtaken, changes>>

\* The task is cancelled at an await: CancelledError passes every handler, and
\* the finally clause of the provider call gives the capacity back.
Cancel(r) ==
    /\ pc[r] \in {"policy", "health", "invoking"}
    /\ IF pc[r] = "invoking" THEN CompleteAction(r) ELSE UNCHANGED active
    /\ pc' = Set(pc, r, "dead")
    /\ UNCHANGED <<world, spent, store, claim, basis, target, result,
                   touched, overtaken, changes>>

\* commit_execution_projection, in one transaction; nothing without records.
Project(r) ==
    LET s == Projected(result[r]) IN
    /\ pc[r] = "returned"
    /\ IF attempts[r] = None THEN UNCHANGED <<step, attempts, actions>>
       ELSE /\ step' = [status |-> s, attempt |-> step.attempt]
            /\ attempts' = Set(attempts, r, [status |-> s, committed |-> attempts[r].committed])
            /\ actions' = Set(actions, r, s)
    /\ pc' = Set(pc, r, "done")
    /\ UNCHANGED <<world, memory, commits, claim, basis, target, result,
                   touched, overtaken, changes>>

\* Faulty: the caller is told what the provider said, although the projection
\* did not commit.
ProjectFailsSilently(r) ==
    /\ pc[r] = "returned"
    /\ attempts[r] # None
    /\ pc' = Set(pc, r, "done")
    /\ UNCHANGED <<world, memory, store, claim, basis, target, result,
                   touched, overtaken, changes>>

\* The projection does not commit: the result is demoted, the records stay.
ProjectFails(r) ==
    /\ pc[r] = "returned"
    /\ attempts[r] # None
    /\ pc' = Set(pc, r, "done")
    /\ result' = Set(result, r, "unknown")
    /\ UNCHANGED <<world, memory, store, claim, basis, target,
                   touched, overtaken, changes>>

-----------------------------------------------------------------------------
(* The rest of the world.                                                  *)

Change == changes < MaxChanges /\ changes' = changes + 1

\* A grant, approval or other cited fact changes in the store.
ChangeFacts(granted) ==
    /\ Change
    /\ facts' = [version |-> facts.version + 1, granted |-> granted]
    /\ UNCHANGED <<gov, registry, lease, memory, calls, store, touched, overtaken>>

\* A canonical governance mutation commits.
ChangeGovernance(allowed) ==
    /\ Change
    /\ gov' = [snap |-> gov.snap + 1, allowed |-> allowed]
    /\ UNCHANGED <<facts, registry, lease, memory, calls, store, touched, overtaken>>

\* unregister(), and register() of a new incarnation.
Unregister(p) ==
    /\ Change
    /\ registry[p].present
    /\ registry' = Set(registry, p, [inc |-> registry[p].inc, present |-> FALSE])
    /\ UNCHANGED <<facts, gov, lease, memory, calls, store, touched, overtaken>>

Register(p) ==
    /\ ~registry[p].present
    /\ Change
    /\ registry' = Set(registry, p, [inc |-> registry[p].inc + 1, present |-> TRUE])
    /\ UNCHANGED <<facts, gov, lease, memory, calls, store, touched, overtaken>>

LeaseStep ==
    /\ Change
    /\ \/ \E o \in Owners : Acquire(o)
       \/ \E o \in Owners : Renew(o)
       \/ \E o \in Owners : Release(o)
       \/ Tick
    /\ overtaken' = IF lease'.generation > lease.generation
                    THEN overtaken \cup {r \in Requests : pc[r] = "invoking"}
                    ELSE overtaken
    /\ UNCHANGED <<facts, gov, registry, memory, calls, store, touched>>

\* The process dies and a new one starts: calls and budgets are gone,
\* the store stays.
Crash ==
    /\ Change
    /\ pc' = [r \in Requests |-> IF pc[r] \in {"idle", "done"} THEN pc[r] ELSE "dead"]
    /\ active' = 0 /\ spent' = 0
    /\ UNCHANGED <<world, store, claim, basis, target, result, touched, overtaken>>

\* The steps of one execute().
Advance(r) ==
    \/ Refuse(r)
    \/ Assess(r)
    \/ \E p \in Providers : Select(r, p)
    \/ Precommit(r)
    \/ LookupFails(r)
    \/ Requalify(r)
    \/ Abort(r)
    \/ Dispatch(r)
    \/ Invoke(r)
    \/ \E s \in Answers : Return(r, s)
    \/ ReturnFenced(r)
    \/ Cancel(r)
    \/ Project(r)
    \/ ProjectFails(r)

Next ==
    \/ \E r \in Requests : Admit(r)
    \/ \E r \in Requests : Advance(r)
    \/ \E granted \in BOOLEAN : ChangeFacts(granted)
    \/ \E allowed \in BOOLEAN : ChangeGovernance(allowed)
    \/ \E p \in Providers : Unregister(p)
    \/ \E p \in Providers : Register(p)
    \/ LeaseStep
    \/ Crash

Spec == Init /\ [][Next]_vars

-----------------------------------------------------------------------------
(* Properties.                                                             *)

TypeOK ==
    /\ lease \in Lease
    /\ facts \in [version : Nat, granted : BOOLEAN]
    /\ gov \in [snap : Nat, allowed : BOOLEAN]
    /\ registry \in [Providers -> [inc : Nat, present : BOOLEAN]]
    /\ active \in Nat /\ spent \in Nat
    /\ pc \in [Requests -> Phases]
    /\ claim \in [Requests -> [generation : Nat, owner : Owners \cup {None}]]
    /\ basis \in [Requests -> [facts : Nat, granted : BOOLEAN, gov : Nat]]
    /\ target \in [Requests -> [provider : Providers \cup {None}, inc : Nat]]
    /\ result \in [Requests -> Answers \cup Refusals \cup {"unknown"} \cup {None}]
    /\ step \in Step
    /\ attempts \in [Requests -> StepAttempt \cup {None}]
    /\ actions \in [Requests -> RecordStatus \cup {None}]
    /\ commits \in [Requests -> DispatchCommit \cup {None}]
    /\ touched \subseteq Requests /\ overtaken \subseteq Requests
    /\ changes \in Nat

\* docs/governance-dispatch-linearization.md: a blocking governance mutation
\* that commits before the dispatch commitment leaves provider.invoke at 0.
\* Whoever reached a provider under governance holds a durable commitment,
\* made while governance allowed the use, on the snapshot it was admitted on.
DispatchLinearized ==
    \A r \in touched \cap Governed :
        /\ commits[r] # None
        /\ commits[r].allowed
        /\ commits[r].snap = basis[r].gov

\* No side effect without a durable trace that survives the process: whoever
\* reached a provider has an attempt and an action on record, the attempt
\* carries the dispatch commitment if there is one, and no call that was
\* refused or aborted reached a provider.
EffectIsRecorded ==
    /\ \A r \in touched \cap SideEffects :
          /\ attempts[r] # None /\ actions[r] # None
          /\ attempts[r].committed <=> r \in Governed
    /\ \A r \in Requests : result[r] \in Refusals => r \notin touched

\* The parallel-capacity counter is the number of side effects in flight, on
\* every path that refuses, aborts, fences, fails or crashes.
AccountingBalanced ==
    active = Cardinality({r \in SideEffects : pc[r] \in InFlight})

\* "fencing and durable projection are checked before a result can retain
\* authoritative `succeeded` status": a caller that is told `succeeded` has a
\* succeeded attempt and action on record, and nobody acquired the run's lease
\* while its provider was working.
SucceededIsDurable ==
    \A r \in SideEffects : pc[r] = "done" /\ result[r] = "succeeded" =>
        /\ attempts[r].status = "succeeded" /\ actions[r] = "succeeded"
        /\ r \notin overtaken

\* The lease separates workers by what their requests carry, not by who asks:
\* of the requests built under the leases of two workers, however old, those of
\* one worker at most pass the fence, through expiry, takeover, release and
\* renewal alike.  (A request built while the lease was released has no owner.)
OneWorkerPasses ==
    \A q, r \in Requests :
        /\ Fenced(claim[q].generation, claim[q].owner)
        /\ Fenced(claim[r].generation, claim[r].owner)
        => claim[q].owner = claim[r].owner \/ None \in {claim[q].owner, claim[r].owner}

\* A side effect that cites its grant by reference passes the last gate before
\* the reality exit only while that grant is valid.
CitedGrantHolds ==
    [][ \A r \in SideEffects \cap Referenced :
            pc[r] = "precommitted" /\ pc'[r] = "requalified" => facts.granted ]_vars

\* The limits of ReliabilityControls are upper bounds of what is in flight.
WithinLimits == active <= MaxParallel /\ spent <= Budget

=============================================================================
