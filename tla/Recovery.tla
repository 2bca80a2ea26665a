------------------------------- MODULE Recovery -------------------------------
(***************************************************************************)
(* Recovery of committed dispatches: the durable facts of workflows/       *)
(* recovery_observation, recovery_disposition(_commit),                    *)
(* recovery_application(_observation), the authority captured at dispatch  *)
(* (governance/provider_execution_binding, core/reconciliation_            *)
(* repeatability, core/registry) and the consumer that reconciles one      *)
(* application (workflows/reconciliation_consumer).                        *)
(*                                                                         *)
(* The dispatches are attempts of one Step, made one after another by      *)
(* providers whose descriptors may differ, so each precommit rewrites the  *)
(* Step's effect semantics.  They share one provider id; what tells the    *)
(* configured providers behind it apart is the execution binding.          *)
(*                                                                         *)
(* Identities are content addressed, so a fact is represented by the       *)
(* content its digest covers.  Consumers run in separate processes over    *)
(* one store: a step ends where consume() reads the store or the registry  *)
(* again, awaits the provider, or commits.                                 *)
(***************************************************************************)
EXTENDS Naturals, FiniteSets

CONSTANTS
    Dispatches,      \* attempts of the step that reach a dispatch commitment
    SemanticsOf,     \* effect semantics of the provider each attempt selected
    Keyed,           \* attempts that carry an idempotency key
    Examined,        \* attempts whose effect a verifier looks at
    Bindings,        \* configured execution identities of the provider id
    SafeContracts,   \* repeat-safe reconciliation contracts
    OtherContracts,  \* registrations without a repeat-safe contract: none, unknown, unsafe
    Instances,       \* caller-chosen observation instance refs
    Policies,        \* recovery policy identities
    Decisions,       \* actions the policies may return
    Statuses,        \* reported statuses a completion may carry
    Results,         \* closed results a verification may have
    Consumers,
    Bundled,         \* recovery dispositions that imported bundles carry
    None,
    MaxDecisions,    \* bound: recovery dispositions
    MaxFaults        \* bound: crashes, failures, changes of configuration, imports over a fact

Semantics == {"pure", "idempotent", "deduplicatable", "reconcilable", "irreversible-opaque"}
Contracts == SafeContracts \cup OtherContracts

\* _APPLICATION_KIND_BY_ACTION
KindOf == [a \in {"hold-unresolved", "reconcile-again", "retry-idempotent",
                  "require-manual-resolution", "accept-objective-resolution"} |->
            CASE a = "hold-unresolved" -> "hold"
              [] a = "reconcile-again" -> "reconciliation-request"
              [] a = "retry-idempotent" -> "retry-request"
              [] a = "require-manual-resolution" -> "manual-resolution-handoff"
              [] a = "accept-objective-resolution" -> "objective-resolution-acceptance"]
Actions == DOMAIN KindOf
Kinds == {KindOf[a] : a \in Actions}

ASSUME RecoveryAssumption ==
    /\ SemanticsOf \in [Dispatches -> Semantics] /\ Keyed \cup Examined \subseteq Dispatches
    /\ SafeContracts \cap OtherContracts = {}
    /\ None \notin Bindings \cup Contracts \cup Dispatches \cup Instances \cup Results
    /\ Results \subseteq {"pass", "fail"}
    /\ Statuses \subseteq {"reported-succeeded", "reported-failed", "reported-unknown"}
    /\ Decisions \subseteq Actions
    /\ MaxDecisions \in Nat /\ MaxFaults \in Nat

VARIABLES
    stepSem,       \* Step.effect_semantics; None before the first precommit
    attempt,       \* per dispatch: "none", "running", "committed"
    boundTo,       \* B: the execution binding in the dispatch event
    authority,     \* C: the repeat-safe contract in the dispatch event, or None
    regBinding,    \* binding of the live registration, or None
    regContract,   \* its configured contract, or None
    drifted,       \* the live descriptor no longer has its registered digest
    proofs,        \* the result the evidence about each dispatch carries, or None
    outcomes,      \* confirmed Outcomes, each with its two authority events
    observation,   \* per instance: the dispatch its recorded report is about, or None
    dispositions,  \* RecoveryDispositionRecorded events
    applications,  \* RecoveryApplicationRecorded events
    completions,   \* application-bound RecoveryObservationRecorded events
    pc,            \* where each consume() stands
    job,           \* the application it consumes
    target,        \* the binding of the provider object it resolved
    answer,        \* the status its provider query reported
    told,          \* the completion it last reported as durable, or None
    calls,         \* reality exits so far: [application, binding]
    bundled,       \* history: the bases whose disposition an import wrote
    rewritten,     \* history: the instances whose observation an import wrote over
    faults

registryVars == <<regBinding, regContract, drifted>>
dispatchVars == <<stepSem, attempt, boundTo, authority>>
verifiedVars == <<proofs, outcomes>>
factVars == <<verifiedVars, observation, dispositions, applications>>
importVars == <<bundled, rewritten>>
consumerVars == <<pc, job, target, answer, told>>
vars == <<dispatchVars, registryVars, factVars, completions, consumerVars, calls, importVars,
          faults>>

\* RecoveryDispositionBasis, without the references the dispatch determines
\* and without Step.reversibility, which no later precommit rewrites.
Basis == [dispatch: Dispatches, observations: SUBSET Instances, outcome: Results \cup {None},
          mode: {"idempotent-retry", "reconcile", "unknown"}, sem: Semantics, policy: Policies]
Disposition == [basis: Basis, action: Actions]
Application == [basis: Basis, kind: Kinds]
Outcome == [dispatch: Dispatches, result: Results]
Contract == [binding: Bindings, terms: Contracts]
Authority == [contract: Contract, subject: Dispatches]
Completion == [key: Application, value: Statuses]

TypeOK ==
    /\ stepSem \in Semantics \cup {None}
    /\ attempt \in [Dispatches -> {"none", "running", "committed"}]
    /\ boundTo \in [Dispatches -> Bindings \cup {None}]
    /\ authority \in [Dispatches -> Authority \cup {None}]
    /\ \A d \in Dispatches: authority[d] # None => authority[d].contract.terms \in SafeContracts
    /\ regBinding \in Bindings \cup {None}
    /\ regContract \in Contracts \cup {None}
    /\ drifted \in BOOLEAN
    /\ proofs \in [Dispatches -> Results \cup {None}]
    /\ outcomes \subseteq Outcome
    /\ observation \in [Instances -> Dispatches \cup {None}]
    /\ dispositions \subseteq Disposition
    /\ applications \subseteq Application
    /\ completions \subseteq Completion
    /\ pc \in [Consumers -> {"idle", "checked", "resolved", "asking", "answered"}]
    /\ job \in [Consumers -> Application \cup {None}]
    /\ target \in [Consumers -> Bindings \cup {None}]
    /\ answer \in [Consumers -> Statuses \cup {None}]
    /\ told \in [Consumers -> Completion \cup {None}]
    /\ calls \subseteq [application: Application, binding: Bindings]
    /\ bundled \subseteq Basis
    /\ rewritten \subseteq Instances
    /\ faults \in 0 .. MaxFaults

\* What recovery_disposition_from_event accepts: observations are cited.
ASSUME BundleAssumption ==
    Bundled \subseteq Disposition /\ \A x \in Bundled: x.basis.observations # {}

Init ==
    /\ stepSem = None
    /\ attempt = [d \in Dispatches |-> "none"]
    /\ boundTo = [d \in Dispatches |-> None]
    /\ authority = [d \in Dispatches |-> None]
    /\ regBinding = None /\ regContract = None /\ drifted = FALSE
    /\ proofs = [d \in Dispatches |-> None]
    /\ outcomes = {}
    /\ observation = [i \in Instances |-> None]
    /\ dispositions = {} /\ applications = {} /\ completions = {}
    /\ pc = [c \in Consumers |-> "idle"]
    /\ job = [c \in Consumers |-> None]
    /\ target = [c \in Consumers |-> None]
    /\ answer = [c \in Consumers |-> None]
    /\ told = [c \in Consumers |-> None]
    /\ calls = {}
    /\ bundled = {} /\ rewritten = {}
    /\ faults = 0

-------------------------------------------------------------------------------
(* The registry and the dispatches *)

\* Register with a stable configured identity b; the id must be free.
Register(b, k) ==
    /\ regBinding = None
    /\ regBinding' = b
    /\ regContract' = k
    /\ drifted' = FALSE
    /\ UNCHANGED <<dispatchVars, factVars, completions, consumerVars, calls, importVars,
                   faults>>

Unregister ==
    /\ regBinding # None /\ faults < MaxFaults
    /\ regBinding' = None
    /\ regContract' = None
    /\ drifted' = FALSE
    /\ faults' = faults + 1
    /\ UNCHANGED <<dispatchVars, factVars, completions, consumerVars, calls, importVars>>

\* A provider changes its descriptor without registering again.
DescriptorDrift ==
    /\ regBinding # None /\ ~drifted /\ faults < MaxFaults
    /\ drifted' = TRUE
    /\ faults' = faults + 1
    /\ UNCHANGED <<regBinding, regContract, dispatchVars, factVars, completions,
                   consumerVars, calls, importVars>>

\* precommit_execution_records finds the step by its key and rewrites its
\* effect semantics with those of the provider selected this time.
Precommit(d) ==
    /\ attempt[d] = "none"
    /\ stepSem' = SemanticsOf[d]
    /\ attempt' = [attempt EXCEPT ![d] = "running"]
    /\ UNCHANGED <<boundTo, authority, registryVars, factVars, completions, consumerVars,
                   calls, importVars, faults>>

\* capture_execution_target: a registration whose descriptor still has the
\* digest it was registered with.
LiveTarget == regBinding # None /\ ~drifted

\* build_reconciliation_repeatability_contract and _authority: the configured
\* terms bound to one exact binding, and those to one exact request.
ContractFor(b, k) == [binding |-> b, terms |-> k]
AuthorityFor(contract, d) == [contract |-> contract, subject |-> d]

\* capture_reconciliation_execution_target: positive authority only from an
\* explicit repeat-safe contract.
CaptureAuthority(d) ==
    IF regContract \in SafeContracts THEN AuthorityFor(ContractFor(regBinding, regContract), d)
                                     ELSE None

\* GovernanceDispatchCommitter.commit captures B and C in the commitment;
\* without a live, undrifted registration there is no commitment.
Dispatch(d) ==
    /\ attempt[d] = "running"
    /\ LiveTarget
    /\ attempt' = [attempt EXCEPT ![d] = "committed"]
    /\ boundTo' = [boundTo EXCEPT ![d] = regBinding]
    /\ authority' = [authority EXCEPT ![d] = CaptureAuthority(d)]
    /\ UNCHANGED <<stepSem, registryVars, factVars, completions, consumerVars, calls,
                   importVars, faults>>

-------------------------------------------------------------------------------
(* Verified outcomes.  The evidence about an attempt is one fact here: the
   result all its artifacts agree on. *)

\* BoundVerificationEvidenceValidator.validate, for the execution graph the
\* precommit left and evidence bound to it.
Verifies(p, d) == attempt[d] # "none" /\ p[d] # None

\* prepare_verified_outcome_commit: what the evidence determines, the result
\* being part of the identity.
PreparedOutcome(p, d) == [dispatch |-> d, result |-> p[d]]

\* An Outcome's own claims lead back to it.
OutcomeReplays(p, o) == Verifies(p, o.dispatch) /\ PreparedOutcome(p, o.dispatch) = o

\* validate_verified_outcome_authority_graph
AuthorityGraphValid(p, os) == \A o \in os: OutcomeReplays(p, o)

\* save_record of evidence: new, or rewritten under a write authority, which
\* nothing about the Outcomes that rest on it prevents.
SaveEvidence(d, r) ==
    /\ attempt[d] # "none" /\ d \in Examined
    /\ \/ proofs[d] = None /\ UNCHANGED faults
       \/ proofs[d] \notin {None, r} /\ faults < MaxFaults /\ faults' = faults + 1
    /\ proofs' = [proofs EXCEPT ![d] = r]
    /\ UNCHANGED <<outcomes, observation, dispositions, applications, dispatchVars,
                   registryVars, completions, consumerVars, calls, importVars>>

\* commit_verified_outcome: recorded with its events, or replayed as it is.
CommitOutcome(d) ==
    /\ Verifies(proofs, d)
    /\ outcomes' = outcomes \cup {PreparedOutcome(proofs, d)}
    /\ UNCHANGED <<proofs, observation, dispositions, applications, dispatchVars,
                   registryVars, completions, consumerVars, calls, importVars, faults>>

\* import_state with evidence of result r and the Outcome it confirms: the
\* whole candidate must replay, what the store already holds included.  What
\* a bundle may bring besides is in the actions of their own further down.
ImportOutcome(d, r) ==
    /\ attempt[d] # "none" /\ d \in Examined /\ proofs[d] \in {None, r}
    /\ LET p == [proofs EXCEPT ![d] = r]
           os == outcomes \cup {[dispatch |-> d, result |-> r]}
       IN  /\ AuthorityGraphValid(p, os)
           /\ proofs' = p
           /\ outcomes' = os
    /\ UNCHANGED <<observation, dispositions, applications, dispatchVars, registryVars,
                   completions, consumerVars, calls, importVars, faults>>

-------------------------------------------------------------------------------
(* The durable facts of recovery *)

\* dispatch_recovery_mode, from the semantics the Step has at the moment.
DispatchRecoveryMode(d) ==
    CASE attempt[d] # "committed" -> "uncommitted"
      [] stepSem \in {"pure", "idempotent", "deduplicatable"} -> "idempotent-retry"
      [] stepSem = "reconcilable" -> "reconcile"
      [] OTHER -> "unknown"

\* The dispatch event is durable and its records agree with it.
DispatchGraph(d) == attempt[d] = "committed"

\* commit_recovery_observation: identity is the instance ref alone, so an
\* instance names one dispatch and one report for ever.  What it reports is
\* for the policy only, which may decide anything here.
CommitObservation(i, d) ==
    /\ DispatchGraph(d)
    /\ observation[i] = None
    /\ observation' = [observation EXCEPT ![i] = d]
    /\ UNCHANGED <<verifiedVars, dispositions, applications, dispatchVars, registryVars,
                   completions, consumerVars, calls, importVars, faults>>

\* Faulty: any recorded observation will do.
AnyObservation(i, d) == observation[i] # None

\* A cited observation is durable and bound to this dispatch.
ValidObservation(i, d) == observation[i] = d

\* A cited outcome of the dispatch's action is confirmed and replays.
ConfirmedOutcome(o) == o \in outcomes /\ OutcomeReplays(proofs, o)

\* reconstruct_recovery_disposition_basis succeeds and yields b: every cited
\* fact holds, and the semantics are those the Step has now.
Reconstructs(b) ==
    /\ DispatchGraph(b.dispatch)
    /\ b.observations # {}
    /\ \A i \in b.observations: ValidObservation(i, b.dispatch)
    /\ b.outcome # None => ConfirmedOutcome([dispatch |-> b.dispatch, result |-> b.outcome])
    /\ b.mode = DispatchRecoveryMode(b.dispatch) /\ b.mode # "uncommitted"
    /\ b.sem = stepSem

\* The durable disposition of exactly this basis.
Decided(b) == {x \in dispositions: x.basis = b}

\* commit_recovery_disposition for the facts the caller cites: an existing
\* disposition is replayed without running the policy; otherwise the policy
\* may decide anything.
CommitDisposition(d, cited, result, p, a) ==
    LET b == [dispatch |-> d, observations |-> cited, outcome |-> result,
              mode |-> DispatchRecoveryMode(d), sem |-> stepSem, policy |-> p]
    IN
    /\ Cardinality(dispositions) < MaxDecisions
    /\ Reconstructs(b)
    /\ Decided(b) = {}
    /\ dispositions' = dispositions \cup {[basis |-> b, action |-> a]}
    /\ UNCHANGED <<verifiedVars, observation, applications, dispatchVars, registryVars,
                   completions, consumerVars, calls, importVars, faults>>

\* The disposition is durable and its basis still reconstructs to its own.
SourceReconstructs(x) == x \in dispositions /\ Reconstructs(x.basis)

\* The application a disposition determines; its identity is the disposition's.
ApplicationOf(x) == [basis |-> x.basis, kind |-> KindOf[x.action]]

\* Faulty: the application follows whatever the disposition says by now.
NothingRebound(x) == FALSE

\* The application of the disposition is on record with other semantics.
Rebound(x) == \E a \in applications: a.basis = x.basis /\ a # ApplicationOf(x)

\* commit_recovery_application: recorded, or replayed as it is; a retry needs
\* the source's idempotency identity.
CommitApplication(x) ==
    /\ SourceReconstructs(x)
    /\ KindOf[x.action] = "retry-request" => x.basis.dispatch \in Keyed
    /\ ~Rebound(x)
    /\ applications' = applications \cup {ApplicationOf(x)}
    /\ UNCHANGED <<verifiedVars, observation, dispositions, dispatchVars, registryVars,
                   completions, consumerVars, calls, importVars, faults>>

-------------------------------------------------------------------------------
(* import_state for recovery facts.  It refuses a RecoveryApplicationRecorded,
   an application-bound observation and a dispatch with an execution binding;
   every other event it takes unchecked, over the one of the same identity.
   Bundles are exports of runtimes, so an event has the identity of its kind. *)

\* The graph of a legacy dispatch, its Step included; whoever committed it
\* captured neither binding nor authority, and so it has an identity of its own.
ImportDispatch(d) ==
    /\ attempt[d] = "none"
    /\ stepSem' = SemanticsOf[d]
    /\ attempt' = [attempt EXCEPT ![d] = "committed"]
    /\ UNCHANGED <<boundTo, authority, registryVars, factVars, completions, consumerVars,
                   calls, importVars, faults>>

\* A dispatch-bound observation, whatever dispatch it reports of.
ImportObservation(i, d) ==
    /\ faults < MaxFaults
    /\ observation' = [observation EXCEPT ![i] = d]
    /\ rewritten' = IF observation[i] = None THEN rewritten ELSE rewritten \cup {i}
    /\ faults' = faults + 1
    /\ UNCHANGED <<verifiedVars, dispositions, applications, dispatchVars, registryVars,
                   completions, consumerVars, calls, bundled>>

\* A disposition, whatever it claims; it takes the place of the one its basis had.
ImportDisposition(x) ==
    /\ faults < MaxFaults
    /\ dispositions' = (dispositions \ Decided(x.basis)) \cup {x}
    /\ bundled' = bundled \cup {x.basis}
    /\ faults' = faults + 1
    /\ UNCHANGED <<verifiedVars, observation, applications, dispatchVars, registryVars,
                   completions, consumerVars, calls, rewritten>>

-------------------------------------------------------------------------------
(* RecoveryReconciliationConsumer.consume *)

Completed(a) == {f \in completions: f.key = a}

\* _exact_application: the durable application replays to itself.
ExactApplication(a) == \E x \in dispositions: SourceReconstructs(x) /\ ApplicationOf(x) = a

\* consume() returns without a durable completion to report.
GiveUp(c) ==
    /\ pc' = [pc EXCEPT ![c] = "idle"]
    /\ job' = [job EXCEPT ![c] = None]
    /\ target' = [target EXCEPT ![c] = None]
    /\ answer' = [answer EXCEPT ![c] = None]
    /\ told' = [told EXCEPT ![c] = None]

Report(c, f) ==
    /\ pc' = [pc EXCEPT ![c] = "idle"]
    /\ job' = [job EXCEPT ![c] = None]
    /\ target' = [target EXCEPT ![c] = None]
    /\ answer' = [answer EXCEPT ![c] = None]
    /\ told' = [told EXCEPT ![c] = f]

IsReconciliation(a) == a.kind = "reconciliation-request"

\* The exact application, its kind and the A-first check.
Consume(c, a) ==
    /\ pc[c] = "idle"
    /\ a \in applications
    /\ IF ~ExactApplication(a) \/ ~IsReconciliation(a)
         THEN GiveUp(c)
         ELSE IF Completed(a) # {}
         THEN \E f \in Completed(a): Report(c, f)
         ELSE /\ pc' = [pc EXCEPT ![c] = "checked"]
              /\ job' = [job EXCEPT ![c] = a]
              /\ told' = [told EXCEPT ![c] = None]
              /\ UNCHANGED <<target, answer>>
    /\ UNCHANGED <<dispatchVars, registryVars, factVars, completions, calls, importVars,
                   faults>>

\* provider_execution_binding_from_dispatch and
\* reconciliation_repeatability_authority_from_dispatch: what the dispatch
\* event captured, never filled in later.
HistoricalBinding(d) == boundTo[d]
HistoricalAuthority(d) ==
    IF authority[d] = None THEN None
    ELSE IF authority[d].subject = d /\ authority[d].contract.binding = HistoricalBinding(d)
    THEN authority[d] ELSE None

\* resolve_execution_binding: the exact configured identity, undrifted.
Resolves(d) == LiveTarget /\ regBinding = HistoricalBinding(d)

\* evaluate_reconciliation_repeatability: the authority captured at dispatch
\* is the one the current configuration would give for the same request.
Repeatable(d) ==
    /\ HistoricalAuthority(d) # None
    /\ regContract \in SafeContracts
    /\ HistoricalAuthority(d) = AuthorityFor(ContractFor(regBinding, regContract), d)

\* Faulty: the exact target may be asked whatever its contract was.
ResolvedIsEnough(d) == Resolves(d)

\* Registry eligibility: the exact target and its unchanged contract.
Eligible(d) == Resolves(d) /\ Repeatable(d)

\* B: resolve the provider object of the historical binding.
ResolveTarget(c) ==
    /\ pc[c] = "checked"
    /\ IF Resolves(job[c].basis.dispatch)
         THEN /\ pc' = [pc EXCEPT ![c] = "resolved"]
              /\ target' = [target EXCEPT ![c] = regBinding]
              /\ UNCHANGED <<job, answer, told>>
         ELSE GiveUp(c)
    /\ UNCHANGED <<dispatchVars, registryVars, factVars, completions, calls, importVars,
                   faults>>

\* C: reconciliation_repeatability_eligibility; then the query goes out to
\* the object already in hand.
AskProvider(c) ==
    /\ pc[c] = "resolved"
    /\ IF Eligible(job[c].basis.dispatch)
         THEN /\ pc' = [pc EXCEPT ![c] = "asking"]
              /\ calls' = calls \cup {[application |-> job[c], binding |-> target[c]]}
              /\ UNCHANGED <<job, target, answer, told>>
         ELSE GiveUp(c) /\ UNCHANGED calls
    /\ UNCHANGED <<dispatchVars, registryVars, factVars, completions, importVars, faults>>

\* reconcile_exact_target: a result, an exception or no reconcile method
\* (both reported-unknown).
ProviderAnswers(c, s) ==
    /\ pc[c] = "asking"
    /\ pc' = [pc EXCEPT ![c] = "answered"]
    /\ answer' = [answer EXCEPT ![c] = s]
    /\ UNCHANGED <<job, target, told, dispatchVars, registryVars, factVars, completions,
                   calls, importVars, faults>>

\* The answer names another request or provider.
ForeignAnswer(c) ==
    /\ pc[c] = "asking" /\ faults < MaxFaults
    /\ faults' = faults + 1
    /\ GiveUp(c)
    /\ UNCHANGED <<dispatchVars, registryVars, factVars, completions, calls, importVars>>

\* Faulty: the latest answer replaces the recorded one.
LatestAnswerWins(c) ==
    LET f == [key |-> job[c], value |-> answer[c]] IN
    /\ pc[c] = "answered"
    /\ completions' = {g \in completions: g.key # job[c]} \cup {f}
    /\ Report(c, f)
    /\ UNCHANGED <<dispatchVars, registryVars, factVars, calls, importVars, faults>>

\* prepare_recovery_application_observation_commit: the whole graph is
\* validated again inside the transaction; an existing completion with the
\* same semantics is replayed and any other is a rebound.
AcceptsCompletion(f) ==
    /\ f.key \in applications /\ ExactApplication(f.key) /\ IsReconciliation(f.key)
    /\ Completed(f.key) \subseteq {f}

\* commit_recovery_application_observation, and what consume() reports of it.
CommitCompletion(c) ==
    LET f == [key |-> job[c], value |-> answer[c]] IN
    /\ pc[c] = "answered"
    /\ completions' = IF AcceptsCompletion(f) THEN completions \cup {f} ELSE completions
    /\ IF AcceptsCompletion(f) THEN Report(c, f) ELSE GiveUp(c)
    /\ UNCHANGED <<dispatchVars, registryVars, factVars, calls, importVars, faults>>

\* The store fails after the provider answered: the result is `unknown`.
CommitFails(c) ==
    /\ pc[c] = "answered" /\ faults < MaxFaults
    /\ faults' = faults + 1
    /\ GiveUp(c)
    /\ UNCHANGED <<dispatchVars, registryVars, factVars, completions, calls, importVars>>

Crash(c) ==
    /\ pc[c] # "idle" /\ faults < MaxFaults
    /\ faults' = faults + 1
    /\ GiveUp(c)
    /\ UNCHANGED <<dispatchVars, registryVars, factVars, completions, calls, importVars>>

Next ==
    \/ \E b \in Bindings, k \in Contracts: Register(b, k)
    \/ Unregister
    \/ DescriptorDrift
    \/ \E d \in Dispatches: \/ Precommit(d)
                            \/ Dispatch(d)
                            \/ CommitOutcome(d)
                            \/ ImportDispatch(d)
                            \/ \E r \in Results: SaveEvidence(d, r) \/ ImportOutcome(d, r)
                            \/ \E i \in Instances: \/ CommitObservation(i, d)
                                                  \/ ImportObservation(i, d)
                            \/ \E cited \in SUBSET Instances, out \in Results \cup {None},
                                   p \in Policies, a \in Decisions:
                                  CommitDisposition(d, cited, out, p, a)
    \/ \E x \in dispositions: CommitApplication(x)
    \/ \E x \in Bundled: ImportDisposition(x)
    \/ \E c \in Consumers: \/ \E a \in applications: Consume(c, a)
                           \/ ResolveTarget(c)
                           \/ AskProvider(c)
                           \/ \E s \in Statuses: ProviderAnswers(c, s)
                           \/ ForeignAnswer(c)
                           \/ CommitCompletion(c)
                           \/ CommitFails(c)
                           \/ Crash(c)

Spec == Init /\ [][Next]_vars

-------------------------------------------------------------------------------
(* Properties *)

\* The facts a basis names are on record and about its own dispatch, those
\* apart that an import wrote over.
Grounded(b) ==
    /\ attempt[b.dispatch] = "committed"
    /\ b.observations # {}
    /\ \A i \in b.observations:
          /\ observation[i] # None
          /\ i \notin rewritten => observation[i] = b.dispatch
    /\ b.outcome # None => [dispatch |-> b.dispatch, result |-> b.outcome] \in outcomes

\* Every step of the chain rests on the earlier ones.  A bundle may bring a
\* disposition that claims anything, and may write over a decision or an
\* observation this store made; but what the store acts upon, an application,
\* is grounded in its own facts all the same, and follows the recorded
\* decision unless a bundle wrote that.  A completion is that of a recorded
\* reconciliation whose query went out.
RecoveryLineage ==
    /\ \A x \in dispositions: x.basis \notin bundled => Grounded(x.basis)
    /\ \A a \in applications:
          /\ Grounded(a.basis)
          /\ \E x \in dispositions:
                x.basis = a.basis /\ (a.basis \in bundled \/ a.kind = KindOf[x.action])
    /\ \A f \in completions:
          /\ f.key \in applications
          /\ f.key.kind = "reconciliation-request"
          /\ \E k \in calls: k.application = f.key

\* A policy may change its mind and a bundle may replace what it decided, but
\* a basis has one recorded decision at a time and leads to one application:
\* once its effect is to be reconciled it is never also to be retried.
OneApplicationPerBasis ==
    /\ \A x, y \in dispositions: x.basis = y.basis => x = y
    /\ \A a, b \in applications: a.basis = b.basis => a = b

\* A reconciliation query reaches only the configured provider the dispatch
\* was committed to, and only if a repeat-safe contract was captured then,
\* whatever was registered, replaced or reconfigured under the id since.
ExactTarget ==
    \A k \in calls: LET d == k.application.basis.dispatch IN
        /\ k.binding = boundTo[d]
        /\ authority[d] # None /\ authority[d].contract.binding = k.binding
        /\ authority[d].contract.terms \in SafeContracts
        /\ k.application.kind = "reconciliation-request"

\* The completion of an application is one write-once fact: the first commit
\* linearizes, later ones replay it or are refused, and every consumer that
\* reports a durable completion reports the recorded one.
Fact == INSTANCE DurableFact WITH
            Keys <- Application, Values <- Statuses, Callers <- Consumers,
            Nothing <- None, facts <- completions, told <- told
CompletionLinearizes == Fact!Spec

================================================================================
