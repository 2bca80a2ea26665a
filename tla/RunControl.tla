------------------------------ MODULE RunControl ------------------------------
(***************************************************************************)
(* Workflow calls over one Work: api/http run_workflow, core/runtime       *)
(* start_run, resume, interrupt and cancel, the WorkflowContext with its   *)
(* cached Run, the four built-in workflows, CompletionAuthority, and the   *)
(* store's graph gate and terminal commit (protocol/validation).           *)
(*                                                                         *)
(* Each call starts a Run of its own and keeps a copy of it; operators     *)
(* read and write the same Runs and the Work meanwhile, from other         *)
(* requests or from the command line.  A step of a call ends where it      *)
(* awaits a provider or reads the store again before it writes.            *)
(* Capabilities, proofs and statuses are the code's; their contents are    *)
(* not: a proof is a pair of the run it is bound to and its obligation.    *)
(***************************************************************************)
EXTENDS Naturals, FiniteSets, Sequences

CONSTANTS
    Runs,          \* workflow calls; each creates one Run
    Operators,     \* clients of cancel, interrupt, resume and cancel work
    Kinds,         \* kinds of Work an initial state may have
    Answers,       \* statuses a capability may report
    None,
    MaxOperations, \* bound: operator calls
    MaxFaults      \* bound: crashes, lost writes and revised proofs

AllKinds == {"incident", "scan", "consolidation", "generic"}
Policies == {"all-required", "any-of"}
AllAnswers == {"succeeded", "failed", "unavailable", "needs-input", "cancelled", "unknown"}
RunStatus == {"running", "waiting", "blocked", "failed", "succeeded", "cancelled", "interrupted"}
WorkStatus == {"open", "running", "waiting", "blocked", "failed", "completed", "cancelled"}
Verdicts == {"pass", "fail"}

\* _RUN_ALLOWED_TRANSITIONS; a Run of these calls is never queued.
Allowed == [s \in RunStatus |->
    CASE s = "running" -> {"waiting", "blocked", "failed", "succeeded", "cancelled", "interrupted"}
      [] s = "waiting" -> {"running", "failed", "cancelled", "blocked", "succeeded"}
      [] s = "blocked" -> {"running", "failed", "cancelled", "succeeded"}
      [] s = "interrupted" -> {"running", "failed", "cancelled"}
      [] OTHER -> {}]
ValidTransition(from, to) == from = to \/ to \in Allowed[from]
Terminal == {"failed", "succeeded", "cancelled"}

\* The capabilities a workflow invokes, in order.
Script == [k \in AllKinds |->
    CASE k = "incident" -> <<"observe.logs", "observe.container", "reason.generate",
                             "human.approve", "code.edit", "verify.http", "verify.git_diff">>
      [] k = "scan" -> <<"observe.container", "verify.container", "verify.promql">>
      [] k = "generic" -> <<"reason.generate">>
      [] k = "consolidation" -> <<>>]

\* The obligations a workflow's own proofs speak of.
DefaultObligations == [k \in AllKinds |->
    CASE k = "incident" -> {"verify.http", "verify.git_diff"}
      [] k = "scan" -> {"observe.container", "verify.promql"}
      [] k = "generic" -> {"criterion"}
      [] k = "consolidation" -> {}]
Obligations == UNION {DefaultObligations[k] : k \in AllKinds}
Proofs == Runs \X Obligations

ASSUME RunControlAssumption ==
    /\ Kinds \subseteq AllKinds /\ Answers \subseteq AllAnswers
    /\ None \notin Runs \cup RunStatus \cup Verdicts
    /\ None \notin [status: RunStatus, refs: SUBSET Proofs]
    /\ MaxOperations \in Nat /\ MaxFaults \in Nat

\* Faulty: a weaker policy without explicit obligations requires nothing.
InferredObligations(k, mode) == IF mode = "all-required" THEN DefaultObligations[k] ELSE {}

\* required_obligation_refs: a weaker policy without explicit obligations
\* leaves a sentinel that no proof covers.
RequiredObligations(k, mode) ==
    IF mode = "all-required" \/ k = "generic"
    THEN DefaultObligations[k]
    ELSE {"explicit-verification-obligations-required"}

VARIABLES
    kind,      \* the Work's kind
    policy,    \* its verification policy
    work,      \* the stored Work: [status, refs]
    run,       \* the stored Run of each call: [status, refs], or None
    evidence,  \* stored proofs: the verdict of each, or None
    pc,        \* where each call stands
    at,        \* position in its script
    cached,    \* status of the context's copy of the Run
    result,    \* per obligation the [status, verdict] the call obtained
    refs,      \* the proofs it will complete with
    hint,      \* the status the workflow returned
    reply,     \* what the caller of run_workflow was told
    pending,   \* per operator: the write it has read for, or None
    operations, faults
vars == <<kind, policy, work, run, evidence, pc, at, cached, result, refs, hint,
          reply, pending, operations, faults>>
store == <<work, run, evidence>>
env == <<kind, policy, pending, operations, faults>>

-----------------------------------------------------------------------------
(* The store: the graph every write must satisfy.                          *)

Passing(r, p, ev) == p[1] = r /\ ev[p] = "pass"

\* BoundVerificationEvidenceValidator and validate_proof_invariant: every
\* proof passes and is bound to this Run, and together they cover the Work.
ProofInvariant(r, ps, ev) ==
    /\ ps # {}
    /\ \A p \in ps: Passing(r, p, ev)
    /\ RequiredObligations(kind, policy) \subseteq {p[2] : p \in ps}

Succeeded(rs) == {r \in Runs: rs[r] # None /\ rs[r].status = "succeeded"}

\* validate_state_graph, the terminal part.
TerminalPairs(w, rs, ev) ==
    /\ \A r \in Succeeded(rs): w.status = "completed" /\ ProofInvariant(r, rs[r].refs, ev)
    /\ w.status = "completed" =>
        /\ Succeeded(rs) # {}
        /\ \A r \in Succeeded(rs): w.refs = rs[r].refs

WithRun(r, s) == [run EXCEPT ![r] = [status |-> s, refs |-> {}]]
WithWork(s) == [status |-> s, refs |-> {}]

\* save_run and save_work: a terminal status is refused outright, any other
\* write if the graph with it is invalid.
RunSaved(r, s) == s # "succeeded" /\ TerminalPairs(work, WithRun(r, s), evidence)
WorkSaved(s) == s # "completed" /\ TerminalPairs(WithWork(s), run, evidence)
SaveRun(r, s) == run' = IF RunSaved(r, s) THEN WithRun(r, s) ELSE run

-----------------------------------------------------------------------------
(* start_run: the Run is saved, then the copy of the Work read before.     *)

Start(r) ==
    /\ pc[r] = "idle"
    /\ run' = [run EXCEPT ![r] = [status |-> "running", refs |-> {}]]
    /\ cached' = [cached EXCEPT ![r] = "running"]
    /\ pc' = [pc EXCEPT ![r] = "startWork"]
    /\ UNCHANGED <<work, evidence, at, result, refs, hint, reply, env>>

\* The write is refused when the Work has been completed; the call ends with
\* an error and its Run stays behind.
StartWork(r) ==
    /\ pc[r] = "startWork"
    /\ IF WorkSaved("running")
       THEN /\ work' = WithWork("running")
            /\ pc' = [pc EXCEPT ![r] = IF kind = "consolidation" THEN "consolidate" ELSE "call"]
            /\ UNCHANGED reply
       ELSE /\ pc' = [pc EXCEPT ![r] = "done"]
            /\ reply' = [reply EXCEPT ![r] = "error"]
            /\ UNCHANGED work
    /\ UNCHANGED <<run, evidence, at, cached, result, refs, hint, env>>

-----------------------------------------------------------------------------
(* WorkflowContext: set_step, transition_run and invoke save the cached    *)
(* copy of the Run over whatever is stored.                                *)

\* set_step precedes these capabilities; a refused write is suppressed.
Announced == {"observe.logs", "reason.generate", "human.approve", "code.edit", "verify.http",
              "verify.promql"}
SetStep(r, capability) ==
    IF capability \in Announced \/ (kind = "scan" /\ capability = "observe.container")
    THEN SaveRun(r, cached[r])
    ELSE UNCHANGED run

\* transition_run changes the copy before it saves it.
TransitionRun(r, to) ==
    IF ValidTransition(cached[r], to)
    THEN cached' = [cached EXCEPT ![r] = to] /\ SaveRun(r, to)
    ELSE UNCHANGED <<cached, run>>

Capability(r) == Script[kind][at[r]]

\* Only an unavailable container observation is repeated as verify.container;
\* approval is asked for when the policy engine requires it.
Skipped(r) ==
    CASE Capability(r) = "verify.container" -> {result[r]["observe.container"].status # "unavailable"}
      [] Capability(r) = "human.approve" -> BOOLEAN
      [] OTHER -> {FALSE}

Call(r) ==
    /\ pc[r] = "call" /\ at[r] <= Len(Script[kind])
    /\ \E skip \in Skipped(r):
        IF skip
        THEN /\ at' = [at EXCEPT ![r] = @ + 1]
             /\ UNCHANGED <<pc, run>>
        ELSE /\ pc' = [pc EXCEPT ![r] = "await"]
             /\ SetStep(r, Capability(r))
             /\ UNCHANGED at
    /\ UNCHANGED <<work, evidence, cached, result, refs, hint, reply, env>>

NoResult == [status |-> None, verdict |-> None]
NoResults == [o \in Obligations |-> NoResult]

\* The workflow returns h to run_workflow; what it obtained is gone.
Return(r, h) ==
    /\ hint' = [hint EXCEPT ![r] = h]
    /\ pc' = [pc EXCEPT ![r] = "settle"]
    /\ at' = [at EXCEPT ![r] = 1]
    /\ result' = [result EXCEPT ![r] = NoResults]

\* What an answer ends a workflow with: the Run's next status, if the workflow
\* transitions it, and the status it returns.
Continue == [to |-> None, hint |-> None]
Ends(to) == [to |-> to, hint |-> to]
Returns(s) == [to |-> None, hint |-> s]
IncidentExit(capability, answer) ==
    CASE capability = "reason.generate" /\ answer = "unavailable" -> Ends("blocked")
      [] capability = "reason.generate" /\ answer = "failed" -> Ends("failed")
      [] capability = "human.approve" /\ answer = "needs-input" -> Ends("waiting")
      [] capability = "human.approve" /\ answer = "failed" -> Ends("blocked")
      [] capability = "code.edit" /\ answer = "failed" -> Ends("failed")
      [] capability = "code.edit" /\ answer = "unavailable" -> Ends("blocked")
      [] OTHER -> Continue
GenericExit(answer) ==
    CASE answer = "succeeded" -> Continue
      [] answer = "failed" -> Returns("failed")
      [] answer = "unavailable" -> Returns("blocked")
      [] answer = "cancelled" -> Returns("cancelled")
      [] OTHER -> Returns("waiting")
Exit(capability, answer) ==
    CASE kind = "incident" -> IncidentExit(capability, answer)
      [] kind = "generic" -> GenericExit(answer)
      [] OTHER -> Continue

\* The obligation an answer is a judgment about, if any.
Judged(capability) ==
    IF capability = "verify.container" THEN "observe.container"
    ELSE IF capability \in DefaultObligations[kind] THEN capability ELSE None

\* A verifier may judge either way or leave its judgment open; an observation
\* delivered without a judgment is its own proof.  A repair looks only at the
\* judgment, a scan only at that of an execution that succeeded.
Judgments(capability, answer) ==
    CASE Judged(capability) = None \/ (kind = "scan" /\ answer # "succeeded") -> {None}
      [] Judged(capability) = "observe.container" -> Verdicts
      [] OTHER -> Verdicts \cup {None}

\* Only a scan looks at the status beside the judgment.
Obtained(answer, v) == [status |-> IF kind = "scan" THEN answer ELSE None, verdict |-> v]

\* invoke(): the answer is cached and the copy of the Run saved again.
Answer(r, answer) ==
    /\ pc[r] = "await"
    /\ LET capability == Capability(r)
           exit == Exit(capability, answer)
       IN  /\ IF exit.to = None
              THEN SaveRun(r, cached[r]) /\ UNCHANGED cached
              ELSE TransitionRun(r, exit.to)
           /\ IF exit.hint # None
              THEN Return(r, exit.hint)
              ELSE /\ \E v \in Judgments(capability, answer):
                        result' = IF Judged(capability) = None THEN result
                                  ELSE [result EXCEPT ![r][Judged(capability)] = Obtained(answer, v)]
                   /\ at' = [at EXCEPT ![r] = @ + 1]
                   /\ pc' = [pc EXCEPT ![r] = IF at[r] = Len(Script[kind]) THEN "persist" ELSE "call"]
                   /\ UNCHANGED hint
    /\ UNCHANGED <<work, evidence, refs, reply, env>>

-----------------------------------------------------------------------------
(* From results to proofs.                                                 *)

\* The workflow leaves: it transitions its Run and returns the status.
Leave(r, to) ==
    /\ TransitionRun(r, to)
    /\ Return(r, to)
    /\ UNCHANGED <<work, evidence, refs, reply, env>>

\* _verification_policy_passes
PolicyPasses(r) ==
    LET passes == {o \in DefaultObligations[kind]: result[r][o].verdict = "pass"}
    IN  IF policy = "any-of" THEN passes # {} ELSE passes = DefaultObligations[kind]

IncidentBlocked(r) ==
    /\ pc[r] = "persist" /\ kind = "incident" /\ ~PolicyPasses(r)
    /\ Leave(r, "blocked")

\* Store the proofs ps of r under the verdicts obtained.
Persist(r, ps) ==
    /\ evidence' = [p \in Proofs |-> IF p \in ps THEN result[r][p[2]].verdict ELSE evidence[p]]
    /\ refs' = [refs EXCEPT ![r] = {p \in ps: result[r][p[2]].verdict # None}]
    /\ pc' = [pc EXCEPT ![r] = "complete"]

\* set_step("persist"), before the first proof is saved.
IncidentAnnounced(r) ==
    /\ pc[r] = "persist" /\ kind = "incident" /\ PolicyPasses(r)
    /\ SaveRun(r, cached[r])
    /\ pc' = [pc EXCEPT ![r] = "proofs"]
    /\ UNCHANGED <<work, evidence, at, cached, result, refs, hint, reply, env>>

\* The first proof that cannot be saved ends the loop: the ones before it are
\* the references the completion is asked for with.
IncidentPersist(r) ==
    /\ pc[r] = "proofs" /\ kind = "incident"
    /\ \E ps \in {{}, {<<r, "verify.http">>}, {<<r, "verify.http">>, <<r, "verify.git_diff">>}}:
        /\ faults' = IF Cardinality(ps) = 2 THEN faults ELSE faults + 1
        /\ Persist(r, ps)
    /\ faults' <= MaxFaults
    /\ UNCHANGED <<work, run, at, cached, result, hint, reply, kind, policy, pending, operations>>

ScanStatus(r) == {result[r][o].status : o \in DefaultObligations["scan"]}

\* How a scan that is not to be completed ends, or None.
ScanExit(r) ==
    CASE ScanStatus(r) = {"unavailable"} -> "blocked"
      [] "failed" \in ScanStatus(r) -> "failed"
      [] ScanStatus(r) # {"succeeded"} -> "waiting"
      [] result[r]["verify.promql"].verdict # "pass" \/ refs[r] = {} -> "blocked"
      [] OTHER -> None

\* Each proof is saved on its own; a failure is swallowed.
ScanPersist(r) ==
    /\ pc[r] = "persist" /\ kind = "scan"
    /\ LET mine == {<<r, o>> : o \in DefaultObligations[kind]}
       IN  \E ps \in SUBSET mine:
            /\ faults' = IF ps = mine THEN faults ELSE faults + 1
            /\ Persist(r, ps)
    /\ faults' <= MaxFaults
    /\ UNCHANGED <<work, run, at, cached, result, hint, reply, kind, policy, pending, operations>>

ScanEnds(r) ==
    /\ pc[r] = "complete" /\ kind = "scan" /\ ScanExit(r) # None
    /\ Leave(r, ScanExit(r))

\* A generic task completes with what its verifier returns: nothing, or any
\* stored proofs, its own or not.
GenericVerify(r) ==
    /\ pc[r] = "persist" /\ kind = "generic"
    /\ \E v \in Verdicts \cup {None}:
        /\ evidence' = [evidence EXCEPT ![<<r, "criterion">>] = v]
        /\ \E ps \in SUBSET {p \in Proofs: evidence'[p] # None}:
            /\ refs' = [refs EXCEPT ![r] = ps]
            /\ IF ps = {}
               THEN Return(r, "waiting")
               ELSE pc' = [pc EXCEPT ![r] = "complete"] /\ UNCHANGED <<hint, at, result>>
    /\ UNCHANGED <<work, run, cached, reply, env>>

\* KnowledgeConsolidationWorkflow never completes its Run; it returns
\* succeeded for callers that ignore the Run.
Consolidate(r) ==
    /\ pc[r] = "consolidate"
    /\ TransitionRun(r, "waiting")
    /\ Return(r, "succeeded")
    /\ UNCHANGED <<work, evidence, refs, reply, env>>

-----------------------------------------------------------------------------
(* CompletionAuthority.authorize and commit_terminal.                      *)

AlreadyConsumed(r) == \E q \in Runs \ {r}: run[q] # None /\ run[q].refs \cap refs[r] # {}

Authorized(r) ==
    /\ work.status # "completed"
    /\ ~AlreadyConsumed(r)
    /\ ProofInvariant(r, refs[r], evidence)
    /\ ValidTransition(run[r].status, "succeeded")

\* A refusal is a ValueError: the workflow blocks its Run, a generic task
\* only reports that it waits.
Refused(r) ==
    IF kind = "generic"
    THEN Return(r, "waiting") /\ UNCHANGED <<store, cached, refs, reply, env>>
    ELSE Leave(r, "blocked")

Authorize(r) ==
    /\ pc[r] = "complete" /\ (kind = "scan" => ScanExit(r) = None)
    /\ IF Authorized(r)
       THEN /\ pc' = [pc EXCEPT ![r] = "commit"]
            /\ UNCHANGED <<store, at, cached, result, refs, hint, reply, env>>
       ELSE Refused(r)

CompletedWork(r) == [status |-> "completed", refs |-> refs[r]]
SucceededRun(r) == [run EXCEPT ![r] = [status |-> "succeeded", refs |-> refs[r]]]

\* The transaction validates the proofs and the graph with the pair in it; it
\* does not look at the stored Run the pair replaces.
Committable(r) ==
    /\ ProofInvariant(r, refs[r], evidence)
    /\ TerminalPairs(CompletedWork(r), SucceededRun(r), evidence)

\* Faulty: the context takes the Run for succeeded before the store accepts it.
CommitBelieved(r) ==
    /\ pc[r] = "commit"
    /\ IF Committable(r) THEN work' = CompletedWork(r) /\ run' = SucceededRun(r)
                         ELSE UNCHANGED <<work, run>>
    /\ cached' = [cached EXCEPT ![r] = "succeeded"]
    /\ Return(r, "succeeded")
    /\ UNCHANGED <<evidence, refs, reply, env>>

CommitTerminal(r) ==
    /\ pc[r] = "commit"
    /\ IF Committable(r)
       THEN /\ work' = CompletedWork(r) /\ run' = SucceededRun(r)
            /\ cached' = [cached EXCEPT ![r] = "succeeded"]
            /\ Return(r, "succeeded")
            /\ UNCHANGED <<evidence, refs, reply, env>>
       ELSE Refused(r)

-----------------------------------------------------------------------------
(* run_workflow after the workflow returned.                               *)

Reply(r, what) ==
    /\ reply' = [reply EXCEPT ![r] = what]
    /\ pc' = [pc EXCEPT ![r] = "done"]

Ended == {"waiting", "blocked", "failed", "cancelled"}

\* The call takes the stored status for the one its Run ended with.
GoOnWithStored(r) ==
    /\ hint' = [hint EXCEPT ![r] = run[r].status]
    /\ pc' = [pc EXCEPT ![r] = "settled"]
    /\ UNCHANGED reply

\* Faulty: the workflow's word is taken for the Run's status.
SettleOnHint(r) ==
    /\ pc[r] = "settle"
    /\ Reply(r, hint[r])
    /\ UNCHANGED <<store, cached, hint, at, result, refs, env>>

\* final_run: a result that does not say how the Run ended while the Run still
\* runs is written to it; otherwise the call goes on with the status read.
Settle(r) ==
    /\ pc[r] = "settle"
    /\ CASE hint[r] = "succeeded" /\ run[r].status # "succeeded" ->
                Reply(r, "conflict") /\ UNCHANGED hint
         [] hint[r] \in Ended /\ run[r].status = "running" ->
                pc' = [pc EXCEPT ![r] = "transition"] /\ UNCHANGED <<hint, reply>>
         [] OTHER -> GoOnWithStored(r)
    /\ UNCHANGED <<store, at, cached, result, refs, env>>

\* The cached copy is written over whatever was stored since that read.
SettleRun(r) ==
    /\ pc[r] = "transition"
    /\ TransitionRun(r, hint[r])
    /\ pc' = [pc EXCEPT ![r] = "reread"]
    /\ UNCHANGED <<work, evidence, at, result, refs, hint, reply, env>>

Reread(r) ==
    /\ pc[r] = "reread"
    /\ GoOnWithStored(r)
    /\ UNCHANGED <<store, at, cached, result, refs, env>>

\* The Work is read: completed, it is left alone.
Conclude(r) ==
    /\ pc[r] = "settled"
    /\ IF work.status = "completed" THEN Reply(r, hint[r])
       ELSE IF hint[r] = "succeeded" THEN Reply(r, "conflict")
       ELSE pc' = [pc EXCEPT ![r] = "settleWork"] /\ UNCHANGED reply
    /\ UNCHANGED <<store, at, cached, result, refs, hint, env>>

WorkStatusOf(s) == IF s = "interrupted" THEN "waiting" ELSE s

\* The Work read in the step before is saved with the Run's status.
SettleWork(r) ==
    /\ pc[r] = "settleWork"
    /\ LET s == WorkStatusOf(hint[r])
       IN  IF WorkSaved(s)
           THEN work' = WithWork(s) /\ Reply(r, hint[r])
           ELSE UNCHANGED work /\ Reply(r, "error")
    /\ UNCHANGED <<run, evidence, at, cached, result, refs, hint, env>>

-----------------------------------------------------------------------------
(* Operators: read, then write what was read with another status.          *)

Operate(o, operation) ==
    /\ pending[o] = None /\ operations < MaxOperations
    /\ pending' = [pending EXCEPT ![o] = operation]
    /\ operations' = operations + 1
    /\ UNCHANGED <<kind, policy, store, pc, at, cached, result, refs, hint, reply, faults>>

Cancel(o, r) == run[r] # None /\ Operate(o, [of |-> r, to |-> "cancelled"])
Interrupt(o, r) == run[r] # None /\ Operate(o, [of |-> r, to |-> "interrupted"])
Resume(o, r) ==
    /\ run[r] # None /\ run[r].status \in {"waiting", "blocked", "interrupted"}
    /\ Operate(o, [of |-> r, to |-> "running"])
CancelWork(o) == Operate(o, [of |-> None, to |-> "cancelled"])

Written(o) ==
    /\ pending[o] # None
    /\ pending' = [pending EXCEPT ![o] = None]
    /\ UNCHANGED <<kind, policy, evidence, pc, at, cached, result, refs, hint, reply, operations, faults>>
OperatorSavesRun(o) ==
    /\ Written(o) /\ pending[o].of # None
    /\ SaveRun(pending[o].of, pending[o].to)
    /\ UNCHANGED work
OperatorSavesWork(o) ==
    /\ Written(o) /\ pending[o].of = None
    /\ work' = IF WorkSaved("cancelled") THEN WithWork("cancelled") ELSE work
    /\ UNCHANGED run

\* An authorized record.write replaces a proof by one with another verdict.
ReviseProof(p) ==
    /\ faults < MaxFaults /\ evidence[p] # None
    /\ \E v \in Verdicts \ {evidence[p]}:
        LET ev == [evidence EXCEPT ![p] = v]
        IN  TerminalPairs(work, run, ev) /\ evidence' = ev
    /\ faults' = faults + 1
    /\ UNCHANGED <<kind, policy, work, run, pc, at, cached, result, refs, hint, reply, pending, operations>>

\* The process of a call dies, or an exception ends the call.
Crash(r) ==
    /\ faults < MaxFaults /\ pc[r] \notin {"idle", "done", "dead"}
    /\ pc' = [pc EXCEPT ![r] = "dead"]
    /\ at' = [at EXCEPT ![r] = 1] /\ result' = [result EXCEPT ![r] = NoResults]
    /\ hint' = [hint EXCEPT ![r] = None] /\ cached' = [cached EXCEPT ![r] = None]
    /\ faults' = faults + 1
    /\ UNCHANGED <<kind, policy, store, refs, reply, pending, operations>>

-----------------------------------------------------------------------------
Init ==
    /\ kind \in Kinds
    /\ policy \in IF kind = "incident" THEN Policies ELSE {"all-required"}
    /\ work = [status |-> "open", refs |-> {}]
    /\ run = [r \in Runs |-> None]
    /\ evidence = [p \in Proofs |-> None]
    /\ pc = [r \in Runs |-> "idle"]
    /\ at = [r \in Runs |-> 1]
    /\ cached = [r \in Runs |-> None]
    /\ result = [r \in Runs |-> NoResults]
    /\ refs = [r \in Runs |-> {}]
    /\ hint = [r \in Runs |-> None]
    /\ reply = [r \in Runs |-> None]
    /\ pending = [o \in Operators |-> None]
    /\ operations = 0 /\ faults = 0

\* What a call does on its own, without waiting for a provider.
LocalStep(r) ==
    \/ StartWork(r) \/ Call(r)
    \/ IncidentBlocked(r) \/ IncidentAnnounced(r) \/ IncidentPersist(r)
    \/ ScanPersist(r) \/ ScanEnds(r) \/ GenericVerify(r) \/ Consolidate(r)
    \/ Authorize(r) \/ CommitTerminal(r)
    \/ Settle(r) \/ SettleRun(r) \/ Reread(r) \/ Conclude(r) \/ SettleWork(r)

Step(r) == LocalStep(r) \/ \E a \in Answers: Answer(r, a)

Next ==
    \/ \E r \in Runs: Start(r) \/ Step(r) \/ Crash(r)
    \/ \E o \in Operators:
        \/ \E r \in Runs: Cancel(o, r) \/ Interrupt(o, r) \/ Resume(o, r)
        \/ CancelWork(o) \/ OperatorSavesRun(o) \/ OperatorSavesWork(o)
    \/ \E p \in Proofs: ReviseProof(p)

\* A call that stands at a step of its own takes it, or dies; a provider may
\* never answer, and an operator need do nothing.
Fairness == \A r \in Runs: WF_vars(LocalStep(r))
Spec == Init /\ [][Next]_vars /\ Fairness

-----------------------------------------------------------------------------
Phases == {"idle", "startWork", "call", "await", "persist", "proofs", "consolidate",
           "complete", "commit", "settle", "transition", "reread", "settled", "settleWork",
           "done", "dead"}

\* The variables keep their types.
TypeOK ==
    /\ kind \in AllKinds /\ policy \in Policies
    /\ work \in [status: WorkStatus, refs: SUBSET Proofs]
    /\ run \in [Runs -> [status: RunStatus, refs: SUBSET Proofs] \cup {None}]
    /\ evidence \in [Proofs -> Verdicts \cup {None}]
    /\ pc \in [Runs -> Phases]
    /\ at \in [Runs -> 1..8]
    /\ cached \in [Runs -> RunStatus \cup {None}]
    /\ result \in [Runs -> [Obligations -> [status: AllAnswers \cup {None},
                                            verdict: Verdicts \cup {None}]]]
    /\ refs \in [Runs -> SUBSET Proofs]
    /\ hint \in [Runs -> RunStatus \cup {None}]
    /\ reply \in [Runs -> RunStatus \cup {"error", "conflict", None}]
    /\ pending \in [Operators -> [of: Runs \cup {None}, to: RunStatus] \cup {None}]
    /\ operations \in 0..MaxOperations /\ faults \in 0..MaxFaults

\* workflows/completion.py, CompletionAuthority: a Work is completed exactly
\* when one of its Runs succeeded, with the same proofs; every one of them
\* passes, was made for that Run, and together they cover what the Work
\* requires, whatever calls, lost writes, revisions and operators did.
CompletionBacked ==
    /\ work.status = "completed" <=> Succeeded(run) # {}
    /\ Cardinality(Succeeded(run)) <= 1
    /\ \A r \in Succeeded(run):
        /\ work.refs = run[r].refs /\ run[r].refs # {}
        /\ \A p \in run[r].refs: p[1] = r /\ evidence[p] = "pass"
        /\ kind = "incident" => policy = "all-required" /\ Cardinality(run[r].refs) = 2
        /\ kind = "scan" => Cardinality(run[r].refs) = 2
        /\ kind # "consolidation"

\* stores commit_terminal: the completion of the Work is one write-once fact.
\* The first commit linearizes; stale copies saved by other calls, operators
\* or a settling call never undo it, and a call that believes it completed
\* the Work is the one that did.
Completions ==
    IF work.status # "completed" THEN {}
    ELSE {[key |-> "completion", value |-> [of |-> r, refs |-> run[r].refs]] : r \in Succeeded(run)}
Believed ==
    [r \in Runs |-> IF cached[r] = "succeeded"
                    THEN [key |-> "completion", value |-> [of |-> r, refs |-> refs[r]]]
                    ELSE None]
Fact == INSTANCE DurableFact WITH
            Keys <- {"completion"}, Values <- [of: Runs, refs: SUBSET Proofs],
            Callers <- Runs, Nothing <- None, facts <- Completions, told <- Believed
CompletionOnce == Fact!Spec

\* api/http.py run_workflow: the caller is told `succeeded` exactly when its
\* own Run is durably succeeded and the Work completed by it, never on the
\* workflow's word.
HonestReply ==
    \A r \in Runs: pc[r] = "done" =>
        (reply[r] = "succeeded" <=> r \in Succeeded(run) /\ work.status = "completed")

\* workflows/context.py, _RUN_ALLOWED_TRANSITIONS: a Run leaves no terminal
\* status.
TerminalRunStays ==
    [][\A r \in Runs: run[r] # None /\ run[r].status \in Terminal => run'[r].status = run[r].status]_vars

=============================================================================
