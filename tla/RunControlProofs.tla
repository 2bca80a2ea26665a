--------------------------- MODULE RunControlProofs ---------------------------
(***************************************************************************)
(* Proofs about RunControl for every number of calls and operators and all *)
(* bounds: the types, what a completed Work rests on, what the caller of   *)
(* run_workflow is told, and that a completion is one write-once fact.     *)
(*                                                                         *)
(* The graph gate is not enough by itself: start_run and the saving of     *)
(* proofs are not gated.  They are harmless only because of where a call   *)
(* stands when it makes them (CallFacts).                                  *)
(***************************************************************************)
EXTENDS RunControl, FiniteSetTheorems, TLAPS

\* The graph the store holds is the one its own gate accepts.
Graph == TerminalPairs(work, run, evidence)

\* What a call knows where it stands.
CallFacts ==
    \A r \in Runs:
        /\ run[r] = None <=> pc[r] = "idle"
        /\ r \in Succeeded(run) => pc[r] \in {"settle", "settled", "done", "dead"}
        /\ pc[r] \notin {"idle", "dead"} => cached[r] # None
        /\ pc[r] = "await" => at[r] <= Len(Script[kind])
        /\ pc[r] = "transition" => hint[r] \in Ended
        /\ pc[r] = "settled" => hint[r] # None /\ (hint[r] = "succeeded" <=> r \in Succeeded(run))
        /\ pc[r] = "settleWork" => hint[r] \notin {"succeeded", None}

\* A context that takes its Run for succeeded committed it.
BeliefFacts ==
    \A r \in Runs: cached[r] = "succeeded" => r \in Succeeded(run) /\ refs[r] = run[r].refs

\* An operator writes only Runs that were started.
OperatorFacts ==
    \A o \in Operators: pending[o] # None =>
        /\ pending[o].of # None => run[pending[o].of] # None
        /\ pending[o].to # "succeeded"

\* A stored proof is about an obligation of the Work.
ProofFacts == \A p \in Proofs: evidence[p] # None => p[2] \in DefaultObligations[kind]

IInv == TypeOK /\ Graph /\ CallFacts /\ BeliefFacts /\ OperatorFacts /\ ProofFacts /\ HonestReply

-------------------------------------------------------------------------------
(* The constants *)

LEMMA ObligationsOfKinds ==
    /\ DefaultObligations["incident"] = {"verify.http", "verify.git_diff"}
    /\ DefaultObligations["scan"] = {"observe.container", "verify.promql"}
    /\ DefaultObligations["generic"] = {"criterion"}
    /\ DefaultObligations["consolidation"] = {}
    /\ \A k \in AllKinds: DefaultObligations[k] \subseteq Obligations
    /\ Obligations = {"verify.http", "verify.git_diff", "observe.container", "verify.promql", "criterion"}
<1>1. /\ DefaultObligations["incident"] = {"verify.http", "verify.git_diff"}
      /\ DefaultObligations["scan"] = {"observe.container", "verify.promql"}
      /\ DefaultObligations["generic"] = {"criterion"}
      /\ DefaultObligations["consolidation"] = {}
  BY DEF DefaultObligations, AllKinds
<1>2. \A k \in AllKinds: DefaultObligations[k] \subseteq Obligations
  BY DEF Obligations
<1>3. Obligations = DefaultObligations["incident"] \cup DefaultObligations["scan"]
                    \cup DefaultObligations["generic"] \cup DefaultObligations["consolidation"]
  BY DEF Obligations, AllKinds
<1> QED BY <1>1, <1>2, <1>3

LEMMA ScriptLength == \A k \in AllKinds: Len(Script[k]) \in 0..7
<1>1. Len(Script["incident"]) = 7
  BY DEF Script, AllKinds
<1>2. Len(Script["scan"]) = 3
  BY DEF Script, AllKinds
<1>3. Len(Script["generic"]) = 1
  BY DEF Script, AllKinds
<1>4. Len(Script["consolidation"]) = 0
  BY DEF Script, AllKinds
<1> QED BY <1>1, <1>2, <1>3, <1>4 DEF AllKinds

\* The transition table names only statuses, and nothing follows success.
LEMMA TransitionTable ==
    /\ \A s \in RunStatus: Allowed[s] \subseteq RunStatus
    /\ Allowed["succeeded"] = {}
BY DEF Allowed, RunStatus

-------------------------------------------------------------------------------
(* Saving a Run.  The gate keeps a succeeded Run in place: without it the  *)
(* completed Work would have none.                                         *)

RunType == [Runs -> [status: RunStatus, refs: SUBSET Proofs] \cup {None}]

\* What no write of a call or an operator but the terminal commit changes.
RunsKept ==
    /\ run' \in RunType
    /\ Succeeded(run') = Succeeded(run)
    /\ \A q \in Runs: run'[q] = None <=> run[q] = None
    /\ \A q \in Succeeded(run): run'[q] = run[q]

CacheKept ==
    /\ cached' \in [Runs -> RunStatus \cup {None}]
    /\ \A q \in Runs: /\ cached'[q] = "succeeded" => cached[q] = "succeeded"
                      /\ cached[q] # None => cached'[q] # None

LEMMA OneSuccess ==
    ASSUME Graph, NEW q \in Succeeded(run), NEW r \in Succeeded(run)
    PROVE  q = r
<1>1. run[q].refs = run[r].refs
  BY DEF Graph, TerminalPairs
<1>2. PICK p \in run[q].refs: Passing(q, p, evidence)
  BY DEF Graph, TerminalPairs, ProofInvariant
<1>3. Passing(r, p, evidence)
  BY <1>1, <1>2 DEF Graph, TerminalPairs, ProofInvariant
<1> QED BY <1>2, <1>3 DEF Passing

LEMMA SaveRunKeeps ==
    ASSUME run \in RunType, Graph, NEW r \in Runs, run[r] # None, NEW s \in RunStatus,
           SaveRun(r, s)
    PROVE  RunsKept /\ TerminalPairs(work, run', evidence)
<1>1. CASE ~RunSaved(r, s)
  BY <1>1 DEF SaveRun, RunsKept, Graph
<1>2. CASE RunSaved(r, s)
  <2> DEFINE new == WithRun(r, s)
  <2>1. run' = new /\ s # "succeeded" /\ TerminalPairs(work, new, evidence)
    BY <1>2 DEF SaveRun, RunSaved
  <2>2. /\ new \in RunType /\ new[r] = [status |-> s, refs |-> {}]
        /\ \A q \in Runs \ {r}: new[q] = run[q]
    BY DEF WithRun, RunType
  <2>3. [status |-> s, refs |-> {}] # None
    BY RunControlAssumption
  <2> HIDE DEF new
  <2>4. Succeeded(new) = Succeeded(run) \ {r}
    BY <2>1, <2>2 DEF Succeeded
  <2>5. r \notin Succeeded(run)
    <3> SUFFICES ASSUME r \in Succeeded(run) PROVE FALSE
      OBVIOUS
    <3>1. work.status = "completed"
      BY DEF Graph, TerminalPairs
    <3>2. PICK q \in Succeeded(new): TRUE
      BY <2>1, <3>1 DEF TerminalPairs
    <3>3. q \in Succeeded(run) /\ q # r
      BY <2>4, <3>2
    <3> QED BY <3>3, OneSuccess
  <2> QED BY <2>1, <2>2, <2>3, <2>4, <2>5 DEF RunsKept, Succeeded
<1> QED BY <1>1, <1>2

LEMMA TransitionKeeps ==
    ASSUME run \in RunType, Graph, cached \in [Runs -> RunStatus \cup {None}],
           NEW r \in Runs, run[r] # None, NEW to \in RunStatus, to # "succeeded",
           TransitionRun(r, to)
    PROVE  RunsKept /\ CacheKept /\ TerminalPairs(work, run', evidence)
<1>1. CASE ValidTransition(cached[r], to)
  <2>1. cached' = [cached EXCEPT ![r] = to] /\ SaveRun(r, to)
    BY <1>1 DEF TransitionRun
  <2>2. CacheKept
    BY <2>1, RunControlAssumption DEF CacheKept
  <2> QED BY <2>1, <2>2, SaveRunKeeps
<1>2. CASE ~ValidTransition(cached[r], to)
  BY <1>2 DEF TransitionRun, RunsKept, CacheKept, Graph
<1> QED BY <1>1, <1>2
-------------------------------------------------------------------------------
(* The steps of a call that write at most its own Run, through the gate.   *)

LEMMA ExitTyped ==
    ASSUME NEW capability, NEW answer
    PROVE  Exit(capability, answer).to \in Ended \cup {None} /\ Exit(capability, answer).hint \in Ended \cup {None}
<1>1. /\ IncidentExit(capability, answer).to \in Ended \cup {None}
      /\ IncidentExit(capability, answer).hint \in Ended \cup {None}
  BY DEF IncidentExit, Ends, Continue, Ended
<1>2. /\ GenericExit(answer).to \in Ended \cup {None}
      /\ GenericExit(answer).hint \in Ended \cup {None}
  BY DEF GenericExit, Returns, Continue, Ended
<1>3. Continue.to \in Ended \cup {None} /\ Continue.hint \in Ended \cup {None}
  BY DEF Continue
<1> QED BY <1>1, <1>2, <1>3 DEF Exit

LEMMA ScanExitTyped == \A r \in Runs: ScanExit(r) \in Ended \cup {None}
BY DEF ScanExit, Ended

\* A call that gates its write, or makes none.
Gated(r) ==
    \/ Call(r) \/ (\E a \in Answers: Answer(r, a)) \/ IncidentBlocked(r) \/ ScanEnds(r)
    \/ Consolidate(r) \/ Authorize(r) \/ (CommitTerminal(r) /\ ~Committable(r))
    \/ IncidentAnnounced(r) \/ Settle(r) \/ SettleRun(r) \/ Reread(r) \/ Conclude(r)

LEMMA LeaveKeeps ==
    ASSUME TypeOK, Graph, NEW r \in Runs, run[r] # None, NEW to \in Ended, Leave(r, to)
    PROVE  RunsKept /\ CacheKept /\ Graph' /\ UNCHANGED <<work, evidence>>
<1>1. run \in RunType /\ cached \in [Runs -> RunStatus \cup {None}] /\ to \in RunStatus /\ to # "succeeded"
  BY DEF TypeOK, RunType, Ended, RunStatus
<1>2. TransitionRun(r, to) /\ UNCHANGED <<work, evidence>> /\ UNCHANGED <<kind, policy>>
  BY DEF Leave, env
<1>3. RunsKept /\ CacheKept /\ TerminalPairs(work, run', evidence)
  BY <1>1, <1>2, TransitionKeeps
<1> QED BY <1>2, <1>3 DEF Graph, TerminalPairs, ProofInvariant, Passing

LEMMA GatedKeeps ==
    ASSUME TypeOK, Graph, CallFacts, NEW r \in Runs, Gated(r)
    PROVE  RunsKept /\ CacheKept /\ Graph' /\ UNCHANGED <<work, evidence>>
<1>0. /\ run \in RunType /\ cached \in [Runs -> RunStatus \cup {None}]
      /\ Ended \subseteq RunStatus \ {"succeeded"}
  BY DEF TypeOK, RunType, Ended, RunStatus
<1> DEFINE Steady == UNCHANGED <<kind, policy, work, evidence>>
<1>a. ASSUME Steady, RunsKept, CacheKept, TerminalPairs(work, run', evidence)
      PROVE  RunsKept /\ CacheKept /\ Graph' /\ UNCHANGED <<work, evidence>>
  BY <1>a DEF Graph, TerminalPairs, ProofInvariant, Passing
<1>b. ASSUME Steady, UNCHANGED <<run, cached>>
      PROVE  RunsKept /\ CacheKept /\ TerminalPairs(work, run', evidence)
  BY <1>0, <1>b DEF Graph, RunsKept, CacheKept
<1>c. ASSUME Steady, NEW s \in RunStatus, SaveRun(r, s), UNCHANGED cached, run[r] # None
      PROVE  RunsKept /\ CacheKept /\ TerminalPairs(work, run', evidence)
  <2>1. CacheKept
    BY <1>0, <1>c DEF CacheKept
  <2> QED BY <2>1, <1>0, <1>c, SaveRunKeeps
<1>d. ASSUME Steady, NEW to \in Ended, TransitionRun(r, to), run[r] # None
      PROVE  RunsKept /\ CacheKept /\ TerminalPairs(work, run', evidence)
  BY <1>0, <1>d, TransitionKeeps
<1>1. CASE Call(r)
  <2>1. Steady /\ UNCHANGED cached
    BY <1>1 DEF Call, env
  <2>2. run[r] # None /\ cached[r] \in RunStatus
    BY <1>1, <1>0 DEF CallFacts, Call
  <2>3. SaveRun(r, cached[r]) \/ UNCHANGED run
    BY <1>1 DEF Call, SetStep
  <2> QED BY <2>1, <2>2, <2>3, <1>a, <1>b, <1>c
<1>2. ASSUME NEW a \in Answers, Answer(r, a)
      PROVE  RunsKept /\ CacheKept /\ Graph' /\ UNCHANGED <<work, evidence>>
  <2> DEFINE exit == Exit(Capability(r), a)
  <2>1. Steady
    BY <1>2 DEF Answer, env
  <2>2. run[r] # None /\ cached[r] \in RunStatus
    BY <1>2, <1>0 DEF CallFacts, Answer
  <2>3. exit.to \in Ended \cup {None}
    BY ExitTyped
  <2>4. IF exit.to = None THEN SaveRun(r, cached[r]) /\ UNCHANGED cached ELSE TransitionRun(r, exit.to)
    BY <1>2 DEF Answer
  <2> HIDE DEF exit
  <2> QED BY <2>1, <2>2, <2>3, <2>4, <1>a, <1>c, <1>d
<1>3. CASE IncidentBlocked(r)
  <2>1. run[r] # None
    BY <1>3 DEF CallFacts, IncidentBlocked
  <2>2. Leave(r, "blocked") /\ "blocked" \in Ended
    BY <1>3 DEF IncidentBlocked, Ended
  <2> QED BY <2>1, <2>2, LeaveKeeps
<1>4. CASE ScanEnds(r)
  <2>1. run[r] # None
    BY <1>4 DEF CallFacts, ScanEnds
  <2>2. Leave(r, ScanExit(r)) /\ ScanExit(r) \in Ended
    BY <1>4, ScanExitTyped DEF ScanEnds
  <2> QED BY <2>1, <2>2, LeaveKeeps
<1>5. CASE Consolidate(r)
  <2>1. run[r] # None
    BY <1>5 DEF CallFacts, Consolidate
  <2>2. Steady /\ TransitionRun(r, "waiting") /\ "waiting" \in Ended
    BY <1>5 DEF Consolidate, Ended, env
  <2> QED BY <2>1, <2>2, <1>a, <1>d
<1>6. ASSUME run[r] # None, Refused(r)
      PROVE  RunsKept /\ CacheKept /\ Graph' /\ UNCHANGED <<work, evidence>>
  <2>1. CASE kind = "generic"
    <3>1. Steady /\ UNCHANGED <<run, cached>>
      BY <1>6, <2>1 DEF Refused, store, env
    <3> QED BY <3>1, <1>a, <1>b
  <2>2. CASE kind # "generic"
    <3>1. Leave(r, "blocked") /\ "blocked" \in Ended
      BY <1>6, <2>2 DEF Refused, Ended
    <3> QED BY <3>1, <1>6, LeaveKeeps
  <2> QED BY <2>1, <2>2
<1>7. CASE Authorize(r)
  <2>1. run[r] # None
    BY <1>7 DEF CallFacts, Authorize
  <2>2. CASE Authorized(r)
    <3>1. Steady /\ UNCHANGED <<run, cached>>
      BY <1>7, <2>2 DEF Authorize, store, env
    <3> QED BY <3>1, <1>a, <1>b
  <2>3. CASE ~Authorized(r)
    BY <1>6, <1>7, <2>1, <2>3 DEF Authorize
  <2> QED BY <2>2, <2>3
<1>8. CASE CommitTerminal(r) /\ ~Committable(r)
  <2>1. run[r] # None
    BY <1>8 DEF CallFacts, CommitTerminal
  <2> QED BY <2>1, <1>6, <1>8 DEF CommitTerminal
<1>9. CASE Settle(r) \/ Reread(r) \/ Conclude(r)
  <2>1. Steady /\ UNCHANGED <<run, cached>>
    BY <1>9 DEF Settle, Reread, Conclude, store, env
  <2> QED BY <2>1, <1>a, <1>b
<1>10. CASE SettleRun(r)
  <2>1. Steady /\ TransitionRun(r, hint[r])
    BY <1>10 DEF SettleRun, env
  <2>2. run[r] # None /\ hint[r] \in Ended
    BY <1>10 DEF CallFacts, SettleRun
  <2> QED BY <2>1, <2>2, <1>a, <1>d
<1>11. CASE IncidentAnnounced(r)
  <2>1. Steady /\ SaveRun(r, cached[r]) /\ UNCHANGED cached
    BY <1>11 DEF IncidentAnnounced, env
  <2>2. run[r] # None /\ cached[r] \in RunStatus
    BY <1>11, <1>0 DEF CallFacts, IncidentAnnounced
  <2> QED BY <2>1, <2>2, <1>a, <1>c
<1> QED BY <1>1, <1>2, <1>3, <1>4, <1>5, <1>7, <1>8, <1>9, <1>10, <1>11 DEF Gated
-------------------------------------------------------------------------------
(* The store under every step *)

\* A call saves proofs of its own Run only, and its Run has not succeeded.
LEMMA OwnProofs ==
    ASSUME TypeOK, Graph, NEW r \in Runs, r \notin Succeeded(run),
           \A p \in Proofs: p[1] # r => evidence'[p] = evidence[p],
           UNCHANGED <<kind, policy, work, run>>
    PROVE  Graph'
<1>1. \A q \in Succeeded(run): run[q].refs \subseteq Proofs
  BY DEF TypeOK, Succeeded
<1>2. ASSUME NEW q \in Succeeded(run), ProofInvariant(q, run[q].refs, evidence)
      PROVE  ProofInvariant(q, run[q].refs, evidence)'
  BY <1>1, <1>2 DEF ProofInvariant, Passing, Succeeded
<1> QED BY <1>2 DEF Graph, TerminalPairs, Succeeded

LEMMA ProofsSaved ==
    ASSUME TypeOK, CallFacts, NEW r \in Runs, IncidentPersist(r) \/ ScanPersist(r) \/ GenericVerify(r)
    PROVE  /\ \A p \in Proofs: p[1] # r => evidence'[p] = evidence[p]
           /\ \A p \in Proofs: evidence'[p] # evidence[p] => p[2] \in DefaultObligations[kind]
           /\ evidence' \in [Proofs -> Verdicts \cup {None}]
           /\ refs' \in [Runs -> SUBSET Proofs]
           /\ \A q \in Runs \ {r}: refs'[q] = refs[q]
           /\ UNCHANGED <<kind, policy, work, run, cached, reply, pending, operations>>
           /\ r \notin Succeeded(run)
<1>0. /\ evidence \in [Proofs -> Verdicts \cup {None}] /\ refs \in [Runs -> SUBSET Proofs]
      /\ \A o \in Obligations: result[r][o].verdict \in Verdicts \cup {None}
  BY DEF TypeOK
<1>1. r \notin Succeeded(run)
  BY DEF CallFacts, IncidentPersist, ScanPersist, GenericVerify
<1>2. ASSUME NEW ps, ps \subseteq {<<r, o>> : o \in DefaultObligations[kind]}, Persist(r, ps)
      PROVE  /\ \A p \in Proofs: p[1] # r => evidence'[p] = evidence[p]
             /\ \A p \in Proofs: evidence'[p] # evidence[p] => p[2] \in DefaultObligations[kind]
             /\ evidence' \in [Proofs -> Verdicts \cup {None}]
             /\ refs' \in [Runs -> SUBSET Proofs]
             /\ \A q \in Runs \ {r}: refs'[q] = refs[q]
  <2>1. \A p \in ps: p \in Proofs /\ p[1] = r /\ p[2] \in DefaultObligations[kind]
    BY <1>2, ObligationsOfKinds DEF Proofs, TypeOK
  <2>2. /\ evidence' = [p \in Proofs |-> IF p \in ps THEN result[r][p[2]].verdict ELSE evidence[p]]
        /\ refs' = [refs EXCEPT ![r] = {p \in ps: result[r][p[2]].verdict # None}]
    BY <1>2 DEF Persist
  <2>3. \A p \in Proofs: p[2] \in Obligations
    BY DEF Proofs
  <2> QED BY <1>0, <2>1, <2>2, <2>3
<1>3. CASE IncidentPersist(r)
  <2>1. PICK ps \in {{}, {<<r, "verify.http">>}, {<<r, "verify.http">>, <<r, "verify.git_diff">>}}:
            Persist(r, ps)
    BY <1>3 DEF IncidentPersist
  <2>2. ps \subseteq {<<r, o>> : o \in DefaultObligations[kind]}
    BY <1>3, ObligationsOfKinds DEF IncidentPersist
  <2>3. UNCHANGED <<kind, policy, work, run, cached, reply, pending, operations>>
    BY <1>3 DEF IncidentPersist
  <2> QED BY <1>1, <1>2, <2>1, <2>2, <2>3
<1>4. CASE ScanPersist(r)
  <2>1. PICK ps \in SUBSET {<<r, o>> : o \in DefaultObligations[kind]}: Persist(r, ps)
    BY <1>4 DEF ScanPersist
  <2>3. UNCHANGED <<kind, policy, work, run, cached, reply, pending, operations>>
    BY <1>4 DEF ScanPersist
  <2> QED BY <1>1, <1>2, <2>1, <2>3
<1>5. CASE GenericVerify(r)
  <2>1. PICK v \in Verdicts \cup {None}:
            /\ evidence' = [evidence EXCEPT ![<<r, "criterion">>] = v]
            /\ \E ps \in SUBSET {p \in Proofs: evidence'[p] # None}: refs' = [refs EXCEPT ![r] = ps]
    BY <1>5 DEF GenericVerify
  <2>2. kind = "generic" /\ UNCHANGED <<kind, policy, work, run, cached, reply, pending, operations>>
    BY <1>5 DEF GenericVerify, env
  <2>3. DefaultObligations[kind] = {"criterion"}
    BY <2>2, ObligationsOfKinds
  <2>4. evidence' \in [Proofs -> Verdicts \cup {None}]
    BY <1>0, <2>1
  <2>5. \A p \in Proofs: p # <<r, "criterion">> => evidence'[p] = evidence[p]
    BY <1>0, <2>1
  <2>6. refs' \in [Runs -> SUBSET Proofs] /\ \A q \in Runs \ {r}: refs'[q] = refs[q]
    BY <1>0, <2>1
  <2> QED BY <1>1, <2>2, <2>3, <2>4, <2>5, <2>6
<1> QED BY <1>3, <1>4, <1>5

\* A Work that is saved in any other status than completed has no succeeded Run.
LEMMA WorkSavedGraph ==
    ASSUME NEW s, WorkSaved(s), work' = WithWork(s), UNCHANGED <<kind, policy, run, evidence>>
    PROVE  Graph'
BY DEF WorkSaved, Graph, TerminalPairs, ProofInvariant, Passing, Succeeded

LEMMA CommitFacts ==
    ASSUME TypeOK, Graph, CallFacts, NEW r \in Runs, CommitTerminal(r), Committable(r)
    PROVE  /\ Graph' /\ run' \in RunType
           /\ work.status # "completed" /\ Succeeded(run) = {}
           /\ Succeeded(run') = {r} /\ run'[r] = [status |-> "succeeded", refs |-> refs[r]]
           /\ work' = [status |-> "completed", refs |-> refs[r]]
           /\ \A q \in Runs \ {r}: run'[q] = run[q]
<1> DEFINE new == [run EXCEPT ![r] = [status |-> "succeeded", refs |-> refs[r]]]
<1>0. run \in RunType /\ refs[r] \in SUBSET Proofs /\ "succeeded" \in RunStatus
  BY DEF TypeOK, RunType, RunStatus
<1>1. run' = new /\ work' = CompletedWork(r) /\ UNCHANGED <<evidence, kind, policy>>
  BY DEF CommitTerminal, SucceededRun, env
<1>2. TerminalPairs(CompletedWork(r), new, evidence)
  BY DEF Committable, SucceededRun
<1>3. /\ new \in RunType /\ new[r] = [status |-> "succeeded", refs |-> refs[r]]
      /\ \A q \in Runs \ {r}: new[q] = run[q]
  BY <1>0 DEF RunType
<1>4. [status |-> "succeeded", refs |-> refs[r]] # None
  BY <1>0, RunControlAssumption
<1> HIDE DEF new
<1>5. r \in Succeeded(new) /\ \A q \in Runs \ {r}: q \in Succeeded(new) <=> q \in Succeeded(run)
  BY <1>3, <1>4 DEF Succeeded
<1>6. Graph'
  BY <1>1, <1>2 DEF Graph, TerminalPairs, ProofInvariant, Passing
<1>7. \A q \in Succeeded(new): q = r
  <2>1. TAKE q \in Succeeded(new)
  <2>2. new[q].refs = new[r].refs
    BY <1>2, <1>5 DEF TerminalPairs
  <2>3. PICK p \in new[q].refs: Passing(q, p, evidence)
    BY <1>2 DEF TerminalPairs, ProofInvariant
  <2>4. Passing(r, p, evidence)
    BY <1>2, <1>5, <2>2, <2>3 DEF TerminalPairs, ProofInvariant
  <2> QED BY <2>3, <2>4 DEF Passing
<1>8. Succeeded(new) = {r}
  BY <1>5, <1>7
<1>9. Succeeded(run) = {}
  <2>1. r \notin Succeeded(run)
    BY DEF CallFacts, CommitTerminal
  <2> QED BY <1>5, <1>8, <2>1 DEF Succeeded
<1>10. work.status # "completed"
  BY <1>9 DEF Graph, TerminalPairs
<1> QED BY <1>10, <1>1, <1>3, <1>6, <1>8, <1>9 DEF CompletedWork

\* The Runs in the store under every step: nothing but a terminal commit
\* makes a Run succeed, and nothing moves one that has.
StoreKept ==
    /\ run' \in RunType
    /\ Succeeded(run') = Succeeded(run)
    /\ \A q \in Succeeded(run): run'[q] = run[q]
Commits == \E r \in Runs: CommitTerminal(r) /\ Committable(r)

LEMMA StoreStep ==
    ASSUME TypeOK, Graph, CallFacts, OperatorFacts, [Next]_vars
    PROVE  Graph' /\ (StoreKept \/ Commits)
<1>0. run \in RunType
  BY DEF TypeOK, RunType
<1>a. ASSUME RunsKept PROVE StoreKept
  BY <1>a DEF RunsKept, StoreKept
<1>b. ASSUME UNCHANGED run PROVE StoreKept
  BY <1>0, <1>b DEF StoreKept
<1>c. ASSUME UNCHANGED <<kind, policy, work, run, evidence>> PROVE Graph' /\ StoreKept
  BY <1>b, <1>c DEF Graph, TerminalPairs, ProofInvariant, Passing, Succeeded
<1>1. ASSUME NEW r \in Runs, Start(r) PROVE Graph' /\ StoreKept
  <2>1. run[r] = None /\ UNCHANGED <<kind, policy, work, evidence>>
    BY <1>1 DEF Start, CallFacts, env
  <2> DEFINE new == [run EXCEPT ![r] = [status |-> "running", refs |-> {}]]
  <2>2. run' = new
    BY <1>1 DEF Start
  <2>3. /\ new \in RunType /\ new[r].status = "running"
        /\ \A q \in Runs \ {r}: new[q] = run[q]
    BY <1>0 DEF RunType, RunStatus
  <2> HIDE DEF new
  <2>4. Succeeded(new) = Succeeded(run) /\ r \notin Succeeded(run)
    BY <2>1, <2>3 DEF Succeeded
  <2>5. \A q \in Succeeded(run): new[q] = run[q]
    BY <2>3, <2>4 DEF Succeeded
  <2>6. TerminalPairs(work, new, evidence)
    BY <2>4, <2>5 DEF Graph, TerminalPairs
  <2> QED BY <2>1, <2>2, <2>3, <2>4, <2>5, <2>6
          DEF Graph, TerminalPairs, ProofInvariant, Passing, StoreKept
<1>2. ASSUME NEW r \in Runs, StartWork(r) \/ SettleWork(r) PROVE Graph' /\ StoreKept
  <2>1. UNCHANGED <<kind, policy, run, evidence>>
    BY <1>2 DEF StartWork, SettleWork, env
  <2>2. UNCHANGED work \/ \E s \in WorkStatus \cup RunStatus: WorkSaved(s) /\ work' = WithWork(s)
    <3>1. CASE StartWork(r)
      BY <3>1 DEF StartWork, WorkStatus
    <3>2. CASE SettleWork(r)
      <4>1. hint[r] \in RunStatus
        BY <3>2 DEF SettleWork, CallFacts, TypeOK
      <4>2. WorkStatusOf(hint[r]) \in WorkStatus \cup RunStatus
        BY <4>1 DEF WorkStatusOf, WorkStatus
      <4> QED BY <3>2, <4>2 DEF SettleWork
    <3> QED BY <1>2, <3>1, <3>2
  <2> QED BY <2>1, <2>2, <1>b, <1>c, WorkSavedGraph
<1>3. ASSUME NEW r \in Runs, Gated(r) PROVE Graph' /\ StoreKept
  BY <1>3, <1>a, GatedKeeps
<1>4. ASSUME NEW r \in Runs, IncidentPersist(r) \/ ScanPersist(r) \/ GenericVerify(r)
      PROVE  Graph' /\ StoreKept
  <2>1. /\ \A p \in Proofs: p[1] # r => evidence'[p] = evidence[p]
        /\ UNCHANGED <<kind, policy, work, run>> /\ r \notin Succeeded(run)
    BY <1>4, ProofsSaved
  <2> QED BY <2>1, <1>b, OwnProofs
<1>5. ASSUME NEW r \in Runs, CommitTerminal(r), Committable(r) PROVE Graph' /\ Commits
  BY <1>5, CommitFacts DEF Commits
<1>6. ASSUME NEW r \in Runs, Crash(r) PROVE Graph' /\ StoreKept
  BY <1>6, <1>c DEF Crash, store
<1>7. ASSUME NEW o \in Operators, NEW r \in Runs, Cancel(o, r) \/ Interrupt(o, r) \/ Resume(o, r)
      PROVE  Graph' /\ StoreKept
  BY <1>7, <1>c DEF Cancel, Interrupt, Resume, Operate, store
<1>8. ASSUME NEW o \in Operators, CancelWork(o) PROVE Graph' /\ StoreKept
  BY <1>8, <1>c DEF CancelWork, Operate, store
<1>9. ASSUME NEW o \in Operators, OperatorSavesRun(o) PROVE Graph' /\ StoreKept
  <2>1. /\ SaveRun(pending[o].of, pending[o].to) /\ UNCHANGED <<kind, policy, work, evidence>>
        /\ pending[o] # None /\ pending[o].of # None
    BY <1>9 DEF OperatorSavesRun, Written
  <2>2. pending[o].of \in Runs /\ pending[o].to \in RunStatus /\ run[pending[o].of] # None
    BY <2>1 DEF TypeOK, OperatorFacts
  <2>3. RunsKept /\ TerminalPairs(work, run', evidence)
    BY <1>0, <2>1, <2>2, SaveRunKeeps
  <2> QED BY <2>1, <2>3, <1>a DEF Graph, TerminalPairs, ProofInvariant, Passing
<1>10. ASSUME NEW o \in Operators, OperatorSavesWork(o) PROVE Graph' /\ StoreKept
  <2>1. UNCHANGED <<kind, policy, run, evidence>>
    BY <1>10 DEF OperatorSavesWork, Written
  <2>2. UNCHANGED work \/ (WorkSaved("cancelled") /\ work' = WithWork("cancelled"))
    BY <1>10 DEF OperatorSavesWork
  <2> QED BY <2>1, <2>2, <1>b, <1>c, WorkSavedGraph
<1>11. ASSUME NEW p \in Proofs, ReviseProof(p) PROVE Graph' /\ StoreKept
  <2>1. TerminalPairs(work, run, evidence') /\ UNCHANGED <<kind, policy, work, run>>
    BY <1>11 DEF ReviseProof
  <2> QED BY <2>1, <1>b DEF Graph, TerminalPairs, ProofInvariant, Passing
<1>12. CASE UNCHANGED vars
  BY <1>12, <1>c DEF vars
<1>13. ASSUME NEW r \in Runs, Step(r) PROVE Graph' /\ (StoreKept \/ Commits)
  BY <1>13, <1>2, <1>3, <1>4, <1>5 DEF Step, LocalStep, Gated
<1> QED BY <1>1, <1>6, <1>7, <1>8, <1>9, <1>10, <1>11, <1>12, <1>13 DEF Next
-------------------------------------------------------------------------------
(* Types *)

\* The variables a call or an operator keeps beside the store.
LocalType ==
    /\ pc \in [Runs -> Phases]
    /\ at \in [Runs -> 1..8]
    /\ result \in [Runs -> [Obligations -> [status: AllAnswers \cup {None},
                                            verdict: Verdicts \cup {None}]]]
    /\ hint \in [Runs -> RunStatus \cup {None}]
    /\ reply \in [Runs -> RunStatus \cup {"error", "conflict", None}]

\* The rest.
SharedType ==
    /\ kind \in AllKinds /\ policy \in Policies
    /\ work \in [status: WorkStatus, refs: SUBSET Proofs]
    /\ run \in RunType
    /\ evidence \in [Proofs -> Verdicts \cup {None}]
    /\ cached \in [Runs -> RunStatus \cup {None}]
    /\ refs \in [Runs -> SUBSET Proofs]
    /\ pending \in [Operators -> [of: Runs \cup {None}, to: RunStatus] \cup {None}]
    /\ operations \in 0..MaxOperations /\ faults \in 0..MaxFaults

LEMMA TypeParts == TypeOK <=> LocalType /\ SharedType
BY DEF TypeOK, LocalType, SharedType, RunType

LEMMA TypePartsNext == LocalType' /\ SharedType' => TypeOK'
BY DEF TypeOK, LocalType, SharedType, RunType

LEMMA Within == \A m \in 1..8, n \in 0..7: m <= n => m \in 1..7
OBVIOUS

LEMMA NoResultsTyped == NoResults \in [Obligations -> [status: AllAnswers \cup {None},
                                                       verdict: Verdicts \cup {None}]]
BY DEF NoResults, NoResult

LEMMA ReturnTyped ==
    ASSUME LocalType, NEW r \in Runs, NEW h \in RunStatus, Return(r, h), UNCHANGED reply
    PROVE  LocalType'
<1>1. hint' \in [Runs -> RunStatus \cup {None}]
  BY DEF LocalType, Return
<1>2. pc' \in [Runs -> Phases] /\ at' \in [Runs -> 1..8]
  BY DEF LocalType, Return, Phases
<1>3. result' \in [Runs -> [Obligations -> [status: AllAnswers \cup {None},
                                            verdict: Verdicts \cup {None}]]]
  BY NoResultsTyped DEF LocalType, Return
<1> QED BY <1>1, <1>2, <1>3 DEF LocalType

LEMMA AnswerTyped ==
    ASSUME TypeOK, CallFacts, NEW r \in Runs, NEW a \in Answers, Answer(r, a)
    PROVE  LocalType'
<1> DEFINE capability == Capability(r)
           exit == Exit(capability, a)
<1>0. LocalType
  BY TypeParts
<1>1. exit.hint \in Ended \cup {None} /\ Ended \subseteq RunStatus
  BY ExitTyped DEF Ended, RunStatus
<1>2. CASE exit.hint # None
  <2>1. Return(r, exit.hint) /\ UNCHANGED reply
    BY <1>2 DEF Answer
  <2> QED BY <1>0, <1>1, <1>2, <2>1, ReturnTyped
<1>3. CASE exit.hint = None
  <2>1. PICK v \in Judgments(capability, a):
          result' = IF Judged(capability) = None THEN result
                    ELSE [result EXCEPT ![r][Judged(capability)] = Obtained(a, v)]
    BY <1>3 DEF Answer
  <2>2. /\ at' = [at EXCEPT ![r] = @ + 1]
        /\ pc' = [pc EXCEPT ![r] = IF at[r] = Len(Script[kind]) THEN "persist" ELSE "call"]
        /\ UNCHANGED <<hint, reply>>
    BY <1>3 DEF Answer
  <2>3. v \in Verdicts \cup {None}
    BY DEF Judgments
  <2>4. Obtained(a, v) \in [status: AllAnswers \cup {None}, verdict: Verdicts \cup {None}]
    BY <2>3, RunControlAssumption DEF Obtained
  <2>5. Judged(capability) # None => Judged(capability) \in Obligations
    BY ObligationsOfKinds DEF Judged, TypeOK
  <2>6. result' \in [Runs -> [Obligations -> [status: AllAnswers \cup {None},
                                              verdict: Verdicts \cup {None}]]]
    BY <1>0, <2>1, <2>4, <2>5 DEF LocalType
  <2>7. at[r] \in 1..7
    <3>1. at[r] \in 1..8 /\ at[r] <= Len(Script[kind])
      BY DEF CallFacts, Answer, TypeOK
    <3>2. Len(Script[kind]) \in 0..7
      BY ScriptLength DEF TypeOK
    <3> QED BY <3>1, <3>2, Within, Zenon
  <2>8. at' \in [Runs -> 1..8] /\ pc' \in [Runs -> Phases]
    BY <1>0, <2>2, <2>7 DEF LocalType, Phases
  <2> QED BY <1>0, <2>2, <2>6, <2>8 DEF LocalType
<1> QED BY <1>2, <1>3

LEMMA GatedTyped ==
    ASSUME TypeOK, Graph, CallFacts, NEW r \in Runs, Gated(r)
    PROVE  TypeOK'
<1>0. LocalType /\ SharedType /\ RunsKept /\ CacheKept /\ UNCHANGED <<work, evidence>>
  BY TypeParts, GatedKeeps
<1>1. UNCHANGED <<refs, kind, policy, pending, operations, faults>>
  BY DEF Gated, Call, Answer, IncidentBlocked, Leave, ScanEnds, Consolidate, Authorize,
         CommitTerminal, Refused, IncidentAnnounced, Settle, SettleRun, Reread, Conclude, env
<1>2. SharedType'
  BY <1>0, <1>1 DEF SharedType, RunsKept, CacheKept
<1>3. ASSUME NEW h \in Ended \cup {"succeeded"}, Return(r, h), UNCHANGED reply
      PROVE  LocalType'
  BY <1>0, <1>3, ReturnTyped DEF Ended, RunStatus
<1>4. LocalType'
  <2>1. CASE Call(r)
    <3>1. at[r] \in 1..7
      <4>1. at[r] \in 1..8 /\ at[r] <= Len(Script[kind])
        BY <2>1 DEF Call, TypeOK
      <4>2. Len(Script[kind]) \in 0..7
        BY ScriptLength DEF TypeOK
      <4> QED BY <4>1, <4>2, Within, Zenon
    <3>2. UNCHANGED <<result, hint, reply>>
      BY <2>1 DEF Call
    <3>3. (at' = [at EXCEPT ![r] = @ + 1] /\ UNCHANGED pc)
          \/ (pc' = [pc EXCEPT ![r] = "await"] /\ UNCHANGED at)
      BY <2>1 DEF Call
    <3>4. at' \in [Runs -> 1..8]
      BY <1>0, <3>1, <3>3 DEF LocalType
    <3>5. pc' \in [Runs -> Phases]
      BY <1>0, <3>3 DEF LocalType, Phases
    <3> QED BY <1>0, <3>2, <3>4, <3>5 DEF LocalType
  <2>2. ASSUME NEW a \in Answers, Answer(r, a) PROVE LocalType'
    BY <2>2, AnswerTyped
  <2>3. CASE IncidentBlocked(r)
    BY <1>3, <2>3 DEF IncidentBlocked, Leave, Ended
  <2>4. CASE ScanEnds(r)
    <3>1. ScanExit(r) \in Ended /\ Return(r, ScanExit(r)) /\ UNCHANGED reply
      BY <2>4, ScanExitTyped DEF ScanEnds, Leave
    <3> QED BY <1>3, <3>1
  <2>5. CASE Consolidate(r)
    BY <1>3, <2>5 DEF Consolidate
  <2>6. ASSUME Refused(r) PROVE LocalType'
    BY <1>3, <2>6 DEF Refused, Leave, Ended
  <2>7. CASE Authorize(r)
    <3>1. CASE Authorized(r)
      <4>1. pc' = [pc EXCEPT ![r] = "commit"] /\ UNCHANGED <<at, result, hint, reply>>
        BY <2>7, <3>1 DEF Authorize
      <4> QED BY <1>0, <4>1 DEF LocalType, Phases
    <3>2. CASE ~Authorized(r)
      BY <2>6, <2>7, <3>2 DEF Authorize
    <3> QED BY <3>1, <3>2
  <2>8. CASE CommitTerminal(r) /\ ~Committable(r)
    BY <2>6, <2>8 DEF CommitTerminal
  <2>9. CASE Settle(r) \/ Reread(r) \/ Conclude(r)
    <3>1. run[r] \in [status: RunStatus, refs: SUBSET Proofs] /\ UNCHANGED <<at, result>>
      BY <1>0, <2>9 DEF SharedType, RunType, CallFacts, Settle, Reread, Conclude
    <3>2. hint' = [hint EXCEPT ![r] = run[r].status] \/ UNCHANGED hint
      BY <2>9 DEF Settle, Reread, Conclude, GoOnWithStored
    <3>3. pc[r] = "settled" => hint[r] \in RunStatus
      BY <1>0 DEF CallFacts, LocalType
    <3>4. \/ UNCHANGED reply /\ \E s \in {"transition", "settled", "settleWork"}: pc' = [pc EXCEPT ![r] = s]
          \/ \E what \in RunStatus \cup {"conflict"}: Reply(r, what)
      BY <2>9, <3>3 DEF Settle, Reread, Conclude, GoOnWithStored
    <3>5. pc' \in [Runs -> Phases] /\ reply' \in [Runs -> RunStatus \cup {"error", "conflict", None}]
      BY <1>0, <3>4 DEF LocalType, Reply, Phases
    <3> QED BY <1>0, <3>1, <3>2, <3>5 DEF LocalType
  <2>10. CASE SettleRun(r) \/ IncidentAnnounced(r)
    <3>1. /\ UNCHANGED <<at, result, hint, reply>>
          /\ \E s \in {"reread", "proofs"}: pc' = [pc EXCEPT ![r] = s]
      BY <2>10 DEF SettleRun, IncidentAnnounced
    <3> QED BY <1>0, <3>1 DEF LocalType, Phases
  <2> QED BY <2>1, <2>2, <2>3, <2>4, <2>5, <2>7, <2>8, <2>9, <2>10 DEF Gated
<1> QED BY <1>2, <1>4, TypePartsNext

LEMMA TypeStep ==
    ASSUME TypeOK, Graph, CallFacts, OperatorFacts, [Next]_vars
    PROVE  TypeOK'
<1>0. LocalType /\ SharedType
  BY TypeParts
<1>1. run' \in RunType
  BY StoreStep, CommitFacts DEF StoreKept, Commits
<1>2. ASSUME NEW r \in Runs, Start(r) PROVE TypeOK'
  <2>1. cached' \in [Runs -> RunStatus \cup {None}] /\ pc' \in [Runs -> Phases]
    BY <1>0, <1>2 DEF Start, SharedType, LocalType, RunStatus, Phases
  <2>2. UNCHANGED <<kind, policy, work, evidence, refs, pending, operations, faults>>
    BY <1>2 DEF Start, env
  <2>3. UNCHANGED <<at, result, hint, reply>>
    BY <1>2 DEF Start
  <2> QED BY <1>0, <1>1, <2>1, <2>2, <2>3, TypePartsNext DEF SharedType, LocalType
<1>3. ASSUME NEW r \in Runs, StartWork(r) PROVE TypeOK'
  <2>1. work' \in [status: WorkStatus, refs: SUBSET Proofs]
    BY <1>0, <1>3 DEF StartWork, SharedType, WithWork, WorkStatus
  <2>2. UNCHANGED <<kind, policy, run, evidence, cached, refs, pending, operations, faults>>
    BY <1>3 DEF StartWork, env
  <2>3. UNCHANGED <<at, result, hint>> /\ pc' \in [Runs -> Phases]
    BY <1>0, <1>3 DEF StartWork, LocalType, Phases
  <2>4. reply' \in [Runs -> RunStatus \cup {"error", "conflict", None}]
    BY <1>0, <1>3 DEF StartWork, LocalType
  <2> QED BY <1>0, <1>1, <2>1, <2>2, <2>3, <2>4, TypePartsNext DEF SharedType, LocalType
<1>4. ASSUME NEW r \in Runs, SettleWork(r) PROVE TypeOK'
  <2>1. hint[r] \in RunStatus \ {"succeeded"}
    BY <1>0, <1>4 DEF SettleWork, CallFacts, LocalType
  <2>2. WithWork(WorkStatusOf(hint[r])) \in [status: WorkStatus, refs: SUBSET Proofs]
    BY <2>1 DEF WorkStatusOf, WorkStatus, RunStatus, WithWork
  <2>3. work' \in [status: WorkStatus, refs: SUBSET Proofs]
    BY <1>0, <1>4, <2>2 DEF SettleWork, SharedType
  <2>4. UNCHANGED <<kind, policy, run, evidence, cached, refs, pending, operations, faults>>
    BY <1>4 DEF SettleWork, env
  <2>5. UNCHANGED <<at, result, hint>> /\ \E what \in RunStatus \cup {"error"}: Reply(r, what)
    BY <1>4, <2>1 DEF SettleWork
  <2>6. pc' \in [Runs -> Phases] /\ reply' \in [Runs -> RunStatus \cup {"error", "conflict", None}]
    BY <1>0, <2>5 DEF Reply, LocalType, Phases
  <2> QED BY <1>0, <1>1, <2>3, <2>4, <2>5, <2>6, TypePartsNext DEF SharedType, LocalType
<1>5. ASSUME NEW r \in Runs, IncidentPersist(r) \/ ScanPersist(r) PROVE TypeOK'
  <2>1. /\ evidence' \in [Proofs -> Verdicts \cup {None}] /\ refs' \in [Runs -> SUBSET Proofs]
        /\ UNCHANGED <<kind, policy, work, run, cached, reply, pending, operations>>
    BY <1>5, ProofsSaved
  <2>2. faults' \in {faults, faults + 1} /\ faults' <= MaxFaults
    BY <1>5 DEF IncidentPersist, ScanPersist
  <2>3. faults' \in 0..MaxFaults
    BY <1>0, <2>2, RunControlAssumption DEF SharedType
  <2>4. pc' = [pc EXCEPT ![r] = "complete"] /\ UNCHANGED <<at, result, hint>>
    BY <1>5 DEF IncidentPersist, ScanPersist, Persist
  <2>5. pc' \in [Runs -> Phases]
    BY <1>0, <2>4 DEF LocalType, Phases
  <2>6. SharedType'
    BY <1>0, <1>1, <2>1, <2>3 DEF SharedType
  <2> QED BY <1>0, <2>1, <2>4, <2>5, <2>6, TypePartsNext DEF LocalType
<1>6. ASSUME NEW r \in Runs, GenericVerify(r) PROVE TypeOK'
  <2>1. /\ evidence' \in [Proofs -> Verdicts \cup {None}] /\ refs' \in [Runs -> SUBSET Proofs]
        /\ UNCHANGED <<kind, policy, work, run, cached, reply, pending, operations>>
    BY <1>6, ProofsSaved
  <2>2. UNCHANGED faults
    BY <1>6 DEF GenericVerify, env
  <2>3. Return(r, "waiting") \/ (pc' = [pc EXCEPT ![r] = "complete"] /\ UNCHANGED <<hint, at, result>>)
    BY <1>6 DEF GenericVerify
  <2>4. ASSUME Return(r, "waiting") PROVE LocalType'
    BY <1>0, <2>1, <2>4, ReturnTyped DEF RunStatus
  <2>5. ASSUME pc' = [pc EXCEPT ![r] = "complete"], UNCHANGED <<hint, at, result>> PROVE LocalType'
    BY <1>0, <2>1, <2>5 DEF LocalType, Phases
  <2>6. SharedType'
    BY <1>0, <1>1, <2>1, <2>2 DEF SharedType
  <2> QED BY <2>3, <2>4, <2>5, <2>6, TypePartsNext
<1>7. ASSUME NEW r \in Runs, CommitTerminal(r), Committable(r) PROVE TypeOK'
  <2>1. Return(r, "succeeded") /\ UNCHANGED <<evidence, refs, reply, kind, policy, pending, operations, faults>>
    BY <1>7 DEF CommitTerminal, env
  <2>2. cached' \in [Runs -> RunStatus \cup {None}]
    BY <1>0, <1>7 DEF CommitTerminal, SharedType, RunStatus
  <2>3. work' \in [status: WorkStatus, refs: SUBSET Proofs]
    BY <1>0, <1>7 DEF CommitTerminal, CompletedWork, SharedType, WorkStatus
  <2>4. LocalType'
    BY <1>0, <2>1, ReturnTyped DEF RunStatus
  <2> QED BY <1>0, <1>1, <2>1, <2>2, <2>3, <2>4, TypePartsNext DEF SharedType
<1>8. ASSUME NEW r \in Runs, Crash(r) PROVE TypeOK'
  <2>1. faults' \in 0..MaxFaults
    BY <1>0, <1>8, RunControlAssumption DEF Crash, SharedType
  <2>2. UNCHANGED <<kind, policy, work, evidence, refs, reply, pending, operations>>
    BY <1>8 DEF Crash, store
  <2>3. cached' \in [Runs -> RunStatus \cup {None}] /\ hint' \in [Runs -> RunStatus \cup {None}]
    BY <1>0, <1>8 DEF Crash, SharedType, LocalType
  <2>4. pc' \in [Runs -> Phases] /\ at' \in [Runs -> 1..8]
    BY <1>0, <1>8 DEF Crash, LocalType, Phases
  <2>5. result' \in [Runs -> [Obligations -> [status: AllAnswers \cup {None},
                                              verdict: Verdicts \cup {None}]]]
    BY <1>0, <1>8, NoResultsTyped DEF Crash, LocalType
  <2> QED BY <1>0, <1>1, <2>1, <2>2, <2>3, <2>4, <2>5, TypePartsNext DEF SharedType, LocalType
<1>9. ASSUME NEW o \in Operators,
             NEW operation \in [of: Runs \cup {None}, to: RunStatus], Operate(o, operation)
      PROVE  TypeOK'
  <2>1. operations' \in 0..MaxOperations
    BY <1>0, <1>9, RunControlAssumption DEF Operate, SharedType
  <2>2. pending' \in [Operators -> [of: Runs \cup {None}, to: RunStatus] \cup {None}]
    BY <1>0, <1>9 DEF Operate, SharedType
  <2>3. UNCHANGED <<kind, policy, work, run, evidence, cached, refs, faults>>
    BY <1>9 DEF Operate, store
  <2>4. UNCHANGED <<pc, at, result, hint, reply>>
    BY <1>9 DEF Operate
  <2> QED BY <1>0, <2>1, <2>2, <2>3, <2>4, TypePartsNext DEF SharedType, LocalType
<1>10. ASSUME NEW o \in Operators, NEW r \in Runs, Cancel(o, r) \/ Interrupt(o, r) \/ Resume(o, r)
       PROVE  TypeOK'
  BY <1>9, <1>10 DEF Cancel, Interrupt, Resume, RunStatus
<1>11. ASSUME NEW o \in Operators, CancelWork(o) PROVE TypeOK'
  BY <1>9, <1>11 DEF CancelWork, RunStatus
<1>12. ASSUME NEW o \in Operators, OperatorSavesRun(o) \/ OperatorSavesWork(o) PROVE TypeOK'
  <2>1. Written(o)
    BY <1>12 DEF OperatorSavesRun, OperatorSavesWork
  <2>2. /\ pending' \in [Operators -> [of: Runs \cup {None}, to: RunStatus] \cup {None}]
        /\ UNCHANGED <<kind, policy, evidence, cached, refs, operations, faults>>
        /\ UNCHANGED <<pc, at, result, hint, reply>>
    BY <1>0, <2>1 DEF Written, SharedType
  <2>3. work' \in [status: WorkStatus, refs: SUBSET Proofs]
    BY <1>0, <1>12 DEF OperatorSavesRun, OperatorSavesWork, SharedType, WithWork, WorkStatus
  <2> QED BY <1>0, <1>1, <2>2, <2>3, TypePartsNext DEF SharedType, LocalType
<1>13. ASSUME NEW p \in Proofs, ReviseProof(p) PROVE TypeOK'
  <2>1. faults' \in 0..MaxFaults
    BY <1>0, <1>13, RunControlAssumption DEF ReviseProof, SharedType
  <2>2. evidence' \in [Proofs -> Verdicts \cup {None}]
    BY <1>0, <1>13 DEF ReviseProof, SharedType
  <2>3. UNCHANGED <<kind, policy, work, run, cached, refs, pending, operations>>
    BY <1>13 DEF ReviseProof
  <2>4. UNCHANGED <<pc, at, result, hint, reply>>
    BY <1>13 DEF ReviseProof
  <2> QED BY <1>0, <2>1, <2>2, <2>3, <2>4, TypePartsNext DEF SharedType, LocalType
<1>14. CASE UNCHANGED vars
  BY <1>0, <1>14, TypePartsNext DEF vars, SharedType, LocalType
<1>15. ASSUME NEW r \in Runs, Gated(r) PROVE TypeOK'
  BY <1>15, GatedTyped
<1>16. ASSUME NEW r \in Runs, Step(r) PROVE TypeOK'
  BY <1>16, <1>3, <1>4, <1>5, <1>6, <1>7, <1>15 DEF Step, LocalStep, Gated
<1> QED BY <1>2, <1>8, <1>10, <1>11, <1>12, <1>13, <1>14, <1>16 DEF Next
-------------------------------------------------------------------------------
(* What a call knows where it stands, and what its caller is told *)

\* The part of CallFacts and HonestReply about one call.
CallFact(r) ==
    /\ run[r] = None <=> pc[r] = "idle"
    /\ r \in Succeeded(run) => pc[r] \in {"settle", "settled", "done", "dead"}
    /\ pc[r] \notin {"idle", "dead"} => cached[r] # None
    /\ pc[r] = "await" => at[r] <= Len(Script[kind])
    /\ pc[r] = "transition" => hint[r] \in Ended
    /\ pc[r] = "settled" => hint[r] # None /\ (hint[r] = "succeeded" <=> r \in Succeeded(run))
    /\ pc[r] = "settleWork" => hint[r] \notin {"succeeded", None}
    /\ pc[r] = "done" => (reply[r] = "succeeded" <=> r \in Succeeded(run))

LEMMA CallFactsParts ==
    ASSUME Graph
    PROVE  CallFacts /\ HonestReply <=> \A r \in Runs: CallFact(r)
<1>1. \A r \in Succeeded(run): work.status = "completed"
  BY DEF Graph, TerminalPairs
<1> QED BY <1>1 DEF CallFacts, HonestReply, CallFact

LEMMA CallFactsPartsNext ==
    ASSUME Graph', \A r \in Runs: CallFact(r)'
    PROVE  CallFacts' /\ HonestReply'
<1>1. \A r \in Succeeded(run'): work'.status = "completed"
  BY DEF Graph, TerminalPairs
<1> QED BY <1>1 DEF CallFacts, HonestReply, CallFact

\* A step of another call leaves what this one knows.
LEMMA OtherCall ==
    ASSUME NEW q \in Runs, CallFact(q), UNCHANGED kind,
           pc'[q] = pc[q], at'[q] = at[q], hint'[q] = hint[q], reply'[q] = reply[q],
           cached[q] # None => cached'[q] # None, run'[q] = None <=> run[q] = None,
           q \in Succeeded(run') <=> q \in Succeeded(run)
    PROVE  CallFact(q)'
BY DEF CallFact

LEMMA ReturnLocal ==
    ASSUME LocalType, NEW r \in Runs, NEW h, Return(r, h)
    PROVE  /\ pc'[r] = "settle"
           /\ \A q \in Runs \ {r}: pc'[q] = pc[q] /\ at'[q] = at[q] /\ hint'[q] = hint[q]
BY DEF LocalType, Return

\* The gated steps of a call change only what belongs to the call.
LEMMA GatedLocal ==
    ASSUME LocalType, NEW r \in Runs, Gated(r)
    PROVE  \A q \in Runs \ {r}: /\ pc'[q] = pc[q] /\ at'[q] = at[q]
                                /\ hint'[q] = hint[q] /\ reply'[q] = reply[q]
<1> DEFINE Mine == \A q \in Runs \ {r}: /\ pc'[q] = pc[q] /\ at'[q] = at[q]
                                        /\ hint'[q] = hint[q] /\ reply'[q] = reply[q]
<1>a. ASSUME NEW h, Return(r, h), UNCHANGED reply PROVE Mine
  BY <1>a, ReturnLocal
<1>1. CASE Call(r)
  BY <1>1 DEF Call, LocalType
<1>2. ASSUME NEW a \in Answers, Answer(r, a) PROVE Mine
  <2>1. CASE Exit(Capability(r), a).hint # None
    BY <1>2, <2>1, <1>a DEF Answer
  <2>2. CASE Exit(Capability(r), a).hint = None
    <3>1. /\ at' = [at EXCEPT ![r] = @ + 1]
          /\ pc' = [pc EXCEPT ![r] = IF at[r] = Len(Script[kind]) THEN "persist" ELSE "call"]
          /\ UNCHANGED <<hint, reply>>
      BY <1>2, <2>2 DEF Answer
    <3> QED BY <3>1 DEF LocalType
  <2> QED BY <2>1, <2>2
<1>3. CASE IncidentBlocked(r)
  BY <1>a, <1>3 DEF IncidentBlocked, Leave
<1>4. CASE ScanEnds(r)
  BY <1>a, <1>4 DEF ScanEnds, Leave
<1>5. CASE Consolidate(r)
  BY <1>a, <1>5 DEF Consolidate
<1>6. ASSUME Refused(r) PROVE Mine
  BY <1>a, <1>6 DEF Refused, Leave
<1>7. CASE Authorize(r)
  <2>1. Refused(r) \/ (pc' = [pc EXCEPT ![r] = "commit"] /\ UNCHANGED <<at, hint, reply>>)
    BY <1>7 DEF Authorize
  <2> QED BY <1>6, <2>1 DEF LocalType
<1>8. CASE CommitTerminal(r) /\ ~Committable(r)
  BY <1>6, <1>8 DEF CommitTerminal
<1>9. CASE Settle(r) \/ Reread(r) \/ Conclude(r)
  BY <1>9 DEF Settle, Reread, Conclude, GoOnWithStored, Reply, LocalType
<1>10. CASE SettleRun(r) \/ IncidentAnnounced(r)
  BY <1>10 DEF SettleRun, IncidentAnnounced, LocalType
<1> QED BY <1>1, <1>2, <1>3, <1>4, <1>5, <1>7, <1>8, <1>9, <1>10 DEF Gated

LEMMA GatedCall ==
    ASSUME TypeOK, Graph, CallFacts, HonestReply, NEW r \in Runs, Gated(r)
    PROVE  \A q \in Runs: CallFact(q)'
<1>0. LocalType /\ SharedType /\ RunsKept /\ CacheKept /\ \A q \in Runs: CallFact(q)
  BY TypeParts, GatedKeeps, CallFactsParts
<1>1. UNCHANGED kind
  BY DEF Gated, Call, Answer, IncidentBlocked, Leave, ScanEnds, Consolidate, Authorize,
         CommitTerminal, Refused, IncidentAnnounced, Settle, SettleRun, Reread, Conclude, env
<1>2. ASSUME NEW q \in Runs \ {r} PROVE CallFact(q)'
  <2>1. pc'[q] = pc[q] /\ at'[q] = at[q] /\ hint'[q] = hint[q] /\ reply'[q] = reply[q]
    BY <1>0, GatedLocal
  <2>2. /\ cached[q] # None => cached'[q] # None
        /\ run'[q] = None <=> run[q] = None
        /\ q \in Succeeded(run') <=> q \in Succeeded(run)
    BY <1>0 DEF RunsKept, CacheKept
  <2> QED BY <1>0, <1>1, <2>1, <2>2, OtherCall
<1>3. pc[r] \in {"call", "await", "persist", "complete", "consolidate", "commit", "settle",
                 "transition", "reread", "settled"}
  BY DEF Gated, Call, Answer, IncidentBlocked, ScanEnds, Consolidate, Authorize, CommitTerminal,
         IncidentAnnounced, Settle, SettleRun, Reread, Conclude
<1>4. run'[r] # None /\ cached'[r] # None
  BY <1>0, <1>3 DEF CallFact, RunsKept, CacheKept
<1>5. pc[r] \notin {"settle", "settled"} => r \notin Succeeded(run')
  BY <1>0, <1>3 DEF CallFact, RunsKept
<1>a. ASSUME NEW h, Return(r, h) PROVE CallFact(r)'
  <2>1. pc'[r] = "settle"
    BY <1>0, <1>a, ReturnLocal
  <2> QED BY <1>4, <2>1 DEF CallFact
<1>b. ASSUME pc[r] \notin {"settle", "settled"},
             pc'[r] \in {"call", "persist", "proofs", "commit", "reread"}
      PROVE  CallFact(r)'
  BY <1>4, <1>5, <1>b DEF CallFact
<1>6. CASE Call(r)
  <2>1. pc[r] = "call" /\ at[r] <= Len(Script[kind])
    BY <1>6 DEF Call
  <2>2. (pc' = [pc EXCEPT ![r] = "await"] /\ UNCHANGED at) \/ UNCHANGED pc
    BY <1>6 DEF Call
  <2>3. CASE UNCHANGED pc
    BY <1>2, <1>b, <2>1, <2>3
  <2>4. CASE pc' = [pc EXCEPT ![r] = "await"] /\ UNCHANGED at
    <3>1. pc'[r] = "await" /\ at'[r] <= Len(Script[kind'])
      BY <1>0, <1>1, <2>1, <2>4 DEF LocalType
    <3>2. CallFact(r)'
      BY <1>4, <1>5, <2>1, <3>1 DEF CallFact
    <3> QED BY <1>2, <3>2
  <2> QED BY <1>2, <2>2, <2>3, <2>4
<1>7. ASSUME NEW a \in Answers, Answer(r, a) PROVE CallFact(r)'
  <2>1. CASE Exit(Capability(r), a).hint # None
    BY <1>7, <2>1, <1>a DEF Answer
  <2>2. CASE Exit(Capability(r), a).hint = None
    <3>1. pc[r] = "await"
      BY <1>7 DEF Answer
    <3>2. pc' = [pc EXCEPT ![r] = IF at[r] = Len(Script[kind]) THEN "persist" ELSE "call"]
      BY <1>7, <2>2 DEF Answer
    <3>3. pc'[r] \in {"call", "persist"}
      BY <1>0, <3>2 DEF LocalType
    <3> QED BY <3>1, <3>3, <1>b
  <2> QED BY <2>1, <2>2
<1>8. CASE IncidentBlocked(r)
  BY <1>2, <1>a, <1>8 DEF IncidentBlocked, Leave
<1>9. CASE ScanEnds(r)
  BY <1>2, <1>a, <1>9 DEF ScanEnds, Leave
<1>10. CASE Consolidate(r)
  BY <1>2, <1>a, <1>10 DEF Consolidate
<1>11. ASSUME Refused(r) PROVE CallFact(r)'
  BY <1>a, <1>11 DEF Refused, Leave
<1>12. CASE Authorize(r)
  <2>1. pc[r] = "complete" /\ (Refused(r) \/ pc' = [pc EXCEPT ![r] = "commit"])
    BY <1>12 DEF Authorize
  <2>2. CASE pc' = [pc EXCEPT ![r] = "commit"]
    BY <1>0, <1>2, <1>b, <2>1, <2>2 DEF LocalType
  <2> QED BY <1>2, <1>11, <2>1, <2>2
<1>13. CASE CommitTerminal(r) /\ ~Committable(r)
  BY <1>2, <1>11, <1>13 DEF CommitTerminal
<1>14. /\ run[r] # None /\ run[r] \in [status: RunStatus, refs: SUBSET Proofs]
       /\ r \in Succeeded(run) <=> run[r].status = "succeeded"
       /\ r \in Succeeded(run') <=> r \in Succeeded(run)
       /\ r \in Succeeded(run) => work.status = "completed"
       /\ None \notin RunStatus
  BY <1>0, <1>3, RunControlAssumption
     DEF CallFact, SharedType, RunType, RunsKept, Succeeded, Graph, TerminalPairs
<1>c. ASSUME GoOnWithStored(r) PROVE CallFact(r)'
  <2>1. pc'[r] = "settled" /\ hint'[r] = run[r].status
    BY <1>0, <1>c DEF GoOnWithStored, LocalType
  <2> QED BY <1>4, <1>14, <2>1 DEF CallFact
<1>d. ASSUME NEW what, Reply(r, what), what = "succeeded" <=> r \in Succeeded(run)
      PROVE  CallFact(r)'
  <2>1. pc'[r] = "done" /\ reply'[r] = what
    BY <1>0, <1>d DEF Reply, LocalType
  <2> QED BY <1>4, <1>14, <1>d, <2>1 DEF CallFact
<1>15. CASE Settle(r)
  <2>1. CASE hint[r] = "succeeded" /\ run[r].status # "succeeded"
    <3>1. Reply(r, "conflict")
      BY <1>15, <2>1 DEF Settle, Ended
    <3> QED BY <1>2, <1>14, <1>d, <2>1, <3>1
  <2>2. CASE hint[r] \in Ended /\ run[r].status = "running"
    <3>1. pc' = [pc EXCEPT ![r] = "transition"] /\ UNCHANGED <<hint, reply>>
      BY <1>15, <2>2 DEF Settle, Ended
    <3>2. pc'[r] = "transition" /\ hint'[r] \in Ended
      BY <1>0, <2>2, <3>1 DEF LocalType
    <3>3. CallFact(r)'
      BY <1>4, <1>14, <2>2, <3>2 DEF CallFact
    <3> QED BY <1>2, <3>3
  <2>3. CASE ~(hint[r] = "succeeded" /\ run[r].status # "succeeded")
             /\ ~(hint[r] \in Ended /\ run[r].status = "running")
    <3>1. GoOnWithStored(r)
      BY <1>15, <2>3 DEF Settle
    <3> QED BY <1>2, <1>c, <3>1
  <2> QED BY <2>1, <2>2, <2>3
<1>16. CASE SettleRun(r)
  <2>1. pc[r] = "transition" /\ pc'[r] = "reread"
    BY <1>0, <1>16 DEF SettleRun, LocalType
  <2> QED BY <1>2, <1>b, <2>1
<1>17. CASE Reread(r)
  BY <1>2, <1>c, <1>17 DEF Reread
<1>18. CASE Conclude(r)
  <2>1. hint[r] # None /\ (hint[r] = "succeeded" <=> r \in Succeeded(run)) /\ UNCHANGED hint
    BY <1>0, <1>18 DEF Conclude, CallFact
  <2>2. CASE work.status = "completed"
    <3>1. Reply(r, hint[r])
      BY <1>18, <2>2 DEF Conclude
    <3> QED BY <1>2, <1>d, <2>1, <3>1
  <2>3. CASE work.status # "completed"
    <3>1. hint[r] # "succeeded" /\ r \notin Succeeded(run)
      BY <1>14, <2>1, <2>3
    <3>2. pc' = [pc EXCEPT ![r] = "settleWork"]
      BY <1>18, <2>3, <3>1 DEF Conclude
    <3>3. pc'[r] = "settleWork"
      BY <1>0, <3>2 DEF LocalType
    <3>4. CallFact(r)'
      BY <1>4, <1>14, <2>1, <3>1, <3>3 DEF CallFact
    <3> QED BY <1>2, <3>4
  <2> QED BY <2>2, <2>3
<1>19. CASE IncidentAnnounced(r)
  <2>1. pc[r] = "persist" /\ pc'[r] = "proofs"
    BY <1>0, <1>19 DEF IncidentAnnounced, LocalType
  <2> QED BY <1>2, <1>b, <2>1
<1> QED BY <1>2, <1>6, <1>7, <1>8, <1>9, <1>10, <1>12, <1>13, <1>15, <1>16, <1>17, <1>18, <1>19
        DEF Gated

LEMMA CallStep ==
    ASSUME TypeOK, Graph, CallFacts, HonestReply, OperatorFacts, [Next]_vars
    PROVE  CallFacts' /\ HonestReply'
<1>0. LocalType /\ SharedType /\ \A q \in Runs: CallFact(q)
  BY TypeParts, CallFactsParts
<1>1. Graph' /\ (StoreKept \/ Commits)
  BY StoreStep
<1> SUFFICES \A q \in Runs: CallFact(q)'
  BY <1>1, CallFactsPartsNext
<1>a. ASSUME UNCHANGED <<kind, pc, at, hint, reply, cached, run>>
      PROVE  \A q \in Runs: CallFact(q)'
  BY <1>0, <1>a, OtherCall DEF Succeeded
<1>2. ASSUME NEW r \in Runs, Gated(r) PROVE \A q \in Runs: CallFact(q)'
  BY <1>2, GatedCall
<1>3. ASSUME NEW r \in Runs, Start(r) PROVE \A q \in Runs: CallFact(q)'
  <2>1. /\ run' = [run EXCEPT ![r] = [status |-> "running", refs |-> {}]]
        /\ cached' = [cached EXCEPT ![r] = "running"] /\ pc' = [pc EXCEPT ![r] = "startWork"]
        /\ UNCHANGED <<kind, at, hint, reply>>
    BY <1>3 DEF Start, env
  <2>2. "running" \in RunStatus /\ {} \in SUBSET Proofs
    BY DEF RunStatus
  <2>3. [status |-> "running", refs |-> {}] # None /\ "running" # None
    BY <2>2, RunControlAssumption
  <2>4. run \in RunType /\ cached \in [Runs -> RunStatus \cup {None}] /\ pc \in [Runs -> Phases]
    BY <1>0 DEF SharedType, LocalType
  <2>5. /\ run'[r] = [status |-> "running", refs |-> {}] /\ cached'[r] = "running" /\ pc'[r] = "startWork"
    BY <2>1, <2>4 DEF RunType
  <2>6. CallFact(r)'
    BY <2>3, <2>5 DEF CallFact, Succeeded
  <2>7. ASSUME NEW q \in Runs \ {r} PROVE CallFact(q)'
    <3>1. run'[q] = run[q] /\ cached'[q] = cached[q] /\ pc'[q] = pc[q]
      BY <2>1, <2>4 DEF RunType
    <3> QED BY <1>0, <2>1, <3>1, OtherCall DEF Succeeded
  <2> QED BY <2>6, <2>7
<1>4. ASSUME NEW r \in Runs, StartWork(r) PROVE \A q \in Runs: CallFact(q)'
  <2>1. UNCHANGED <<kind, run, at, cached, hint>>
    BY <1>4 DEF StartWork, env
  <2>2. \/ UNCHANGED reply /\ \E s \in {"consolidate", "call"}: pc' = [pc EXCEPT ![r] = s]
        \/ pc' = [pc EXCEPT ![r] = "done"] /\ reply' = [reply EXCEPT ![r] = "error"]
    BY <1>4 DEF StartWork
  <2>3. pc \in [Runs -> Phases] /\ reply \in [Runs -> RunStatus \cup {"error", "conflict", None}]
    BY <1>0 DEF LocalType
  <2>4. pc[r] = "startWork" /\ CallFact(r)
    BY <1>0, <1>4 DEF StartWork
  <2>5. pc'[r] \in {"consolidate", "call"} \/ (pc'[r] = "done" /\ reply'[r] = "error")
    BY <2>2, <2>3
  <2>6. CallFact(r)'
    BY <2>1, <2>4, <2>5 DEF CallFact, Succeeded
  <2>7. ASSUME NEW q \in Runs \ {r} PROVE CallFact(q)'
    <3>1. pc'[q] = pc[q] /\ reply'[q] = reply[q]
      BY <2>2, <2>3
    <3> QED BY <1>0, <2>1, <3>1, OtherCall DEF Succeeded
  <2> QED BY <2>6, <2>7
<1>5. ASSUME NEW r \in Runs, SettleWork(r) PROVE \A q \in Runs: CallFact(q)'
  <2>1. UNCHANGED <<kind, run, at, cached, hint>>
    BY <1>5 DEF SettleWork, env
  <2>2. pc[r] = "settleWork" /\ CallFact(r)
    BY <1>0, <1>5 DEF SettleWork
  <2>3. \E what \in {hint[r], "error"}: Reply(r, what)
    BY <1>5 DEF SettleWork
  <2>4. pc \in [Runs -> Phases] /\ reply \in [Runs -> RunStatus \cup {"error", "conflict", None}]
    BY <1>0 DEF LocalType
  <2>5. pc'[r] = "done" /\ reply'[r] \in {hint[r], "error"}
    BY <2>3, <2>4 DEF Reply
  <2>6. CallFact(r)'
    BY <2>1, <2>2, <2>5 DEF CallFact, Succeeded
  <2>7. ASSUME NEW q \in Runs \ {r} PROVE CallFact(q)'
    <3>1. pc'[q] = pc[q] /\ reply'[q] = reply[q]
      BY <2>3, <2>4 DEF Reply
    <3> QED BY <1>0, <2>1, <3>1, OtherCall DEF Succeeded
  <2> QED BY <2>6, <2>7
<1>6. ASSUME NEW r \in Runs, IncidentPersist(r) \/ ScanPersist(r) \/ GenericVerify(r)
      PROVE  \A q \in Runs: CallFact(q)'
  <2>1. UNCHANGED <<kind, run, cached, reply>>
    BY <1>6, ProofsSaved
  <2>2. \/ Return(r, "waiting")
        \/ pc' = [pc EXCEPT ![r] = "complete"] /\ UNCHANGED <<hint, at>>
    BY <1>6 DEF IncidentPersist, ScanPersist, GenericVerify, Persist
  <2>3. /\ pc'[r] \in {"settle", "complete"}
        /\ \A q \in Runs \ {r}: pc'[q] = pc[q] /\ at'[q] = at[q] /\ hint'[q] = hint[q]
    BY <1>0, <2>2, ReturnLocal DEF LocalType
  <2>4. pc[r] \in {"persist", "proofs"} /\ CallFact(r)
    BY <1>0, <1>6 DEF IncidentPersist, ScanPersist, GenericVerify
  <2>5. CallFact(r)'
    BY <2>1, <2>3, <2>4 DEF CallFact, Succeeded
  <2>6. ASSUME NEW q \in Runs \ {r} PROVE CallFact(q)'
    BY <1>0, <2>1, <2>3, OtherCall DEF Succeeded
  <2> QED BY <2>5, <2>6
<1>7. ASSUME NEW r \in Runs, CommitTerminal(r), Committable(r) PROVE \A q \in Runs: CallFact(q)'
  <2>1. /\ Succeeded(run') = {r} /\ Succeeded(run) = {} /\ \A q \in Runs \ {r}: run'[q] = run[q]
    BY <1>7, CommitFacts
  <2>2. Return(r, "succeeded") /\ cached' = [cached EXCEPT ![r] = "succeeded"] /\ UNCHANGED <<kind, reply>>
    BY <1>7 DEF CommitTerminal, env
  <2>3. cached'[r] = "succeeded" /\ \A q \in Runs \ {r}: cached'[q] = cached[q]
    BY <1>0, <2>2 DEF SharedType
  <2>4. "succeeded" # None
    BY RunControlAssumption DEF RunStatus
  <2>5. /\ pc'[r] = "settle"
        /\ \A q \in Runs \ {r}: pc'[q] = pc[q] /\ at'[q] = at[q] /\ hint'[q] = hint[q]
    BY <1>0, <2>2, ReturnLocal
  <2>6. CallFact(r)'
    BY <2>1, <2>3, <2>4, <2>5 DEF CallFact, Succeeded
  <2>7. ASSUME NEW q \in Runs \ {r} PROVE CallFact(q)'
    BY <1>0, <2>1, <2>2, <2>3, <2>5, OtherCall
  <2> QED BY <2>6, <2>7
<1>8. ASSUME NEW r \in Runs, Crash(r) PROVE \A q \in Runs: CallFact(q)'
  <2>1. UNCHANGED <<kind, run, reply>> /\ pc[r] # "idle" /\ CallFact(r)
    BY <1>0, <1>8 DEF Crash, store
  <2>2. pc'[r] = "dead" /\ \A q \in Runs \ {r}: pc'[q] = pc[q] /\ at'[q] = at[q] /\ hint'[q] = hint[q]
    BY <1>0, <1>8 DEF Crash, LocalType
  <2>3. \A q \in Runs \ {r}: cached'[q] = cached[q]
    BY <1>0, <1>8 DEF Crash, SharedType
  <2>4. CallFact(r)'
    BY <2>1, <2>2 DEF CallFact
  <2>5. ASSUME NEW q \in Runs \ {r} PROVE CallFact(q)'
    BY <1>0, <2>1, <2>2, <2>3, OtherCall DEF Succeeded
  <2> QED BY <2>4, <2>5
<1>9. ASSUME NEW o \in Operators, NEW r \in Runs, Cancel(o, r) \/ Interrupt(o, r) \/ Resume(o, r)
      PROVE  \A q \in Runs: CallFact(q)'
  BY <1>9, <1>a DEF Cancel, Interrupt, Resume, Operate, store
<1>10. ASSUME NEW o \in Operators, CancelWork(o) PROVE \A q \in Runs: CallFact(q)'
  BY <1>10, <1>a DEF CancelWork, Operate, store
<1>11. ASSUME NEW o \in Operators, OperatorSavesRun(o) PROVE \A q \in Runs: CallFact(q)'
  <2>1. /\ SaveRun(pending[o].of, pending[o].to) /\ UNCHANGED <<kind, pc, at, hint, reply, cached>>
        /\ pending[o] # None /\ pending[o].of # None
    BY <1>11 DEF OperatorSavesRun, Written
  <2>2. pending[o].of \in Runs /\ pending[o].to \in RunStatus /\ run[pending[o].of] # None
    BY <2>1 DEF TypeOK, OperatorFacts
  <2>3. RunsKept
    BY <1>0, <2>1, <2>2, SaveRunKeeps DEF SharedType
  <2> QED BY <1>0, <2>1, <2>3, OtherCall DEF RunsKept
<1>12. ASSUME NEW o \in Operators, OperatorSavesWork(o) PROVE \A q \in Runs: CallFact(q)'
  BY <1>12, <1>a DEF OperatorSavesWork, Written
<1>13. ASSUME NEW p \in Proofs, ReviseProof(p) PROVE \A q \in Runs: CallFact(q)'
  BY <1>13, <1>a DEF ReviseProof
<1>14. CASE UNCHANGED vars
  BY <1>14, <1>a DEF vars
<1>15. ASSUME NEW r \in Runs, Step(r) PROVE \A q \in Runs: CallFact(q)'
  BY <1>15, <1>2, <1>4, <1>5, <1>6, <1>7 DEF Step, LocalStep, Gated
<1> QED BY <1>3, <1>8, <1>9, <1>10, <1>11, <1>12, <1>13, <1>14, <1>15 DEF Next
-------------------------------------------------------------------------------
(* Beliefs, operators and proofs *)

\* What a step other than a terminal commit never does.
Modest ==
    /\ UNCHANGED kind
    /\ \A q \in Runs: /\ cached'[q] = "succeeded" => cached[q] = "succeeded"
                      /\ q \in Succeeded(run) => refs'[q] = refs[q]
                      /\ run[q] # None => run'[q] # None
    /\ \A p \in Proofs: evidence'[p] # None => evidence[p] # None \/ p[2] \in DefaultObligations[kind]

LEMMA ModestStep ==
    ASSUME TypeOK, Graph, CallFacts, OperatorFacts, [Next]_vars
    PROVE  Modest \/ Commits
<1>0. SharedType
  BY TypeParts
<1>a. ASSUME UNCHANGED <<kind, cached, refs, run, evidence>> PROVE Modest
  BY <1>a DEF Modest
<1>1. ASSUME NEW r \in Runs, Gated(r) PROVE Modest
  <2>1. RunsKept /\ CacheKept /\ UNCHANGED evidence
    BY <1>1, GatedKeeps
  <2>2. UNCHANGED <<kind, refs>>
    BY <1>1 DEF Gated, Call, Answer, IncidentBlocked, Leave, ScanEnds, Consolidate, Authorize,
                CommitTerminal, Refused, IncidentAnnounced, Settle, SettleRun, Reread, Conclude, env
  <2> QED BY <2>1, <2>2 DEF RunsKept, CacheKept, Modest
<1>2. ASSUME NEW r \in Runs, Start(r) PROVE Modest
  <2>1. /\ run' = [run EXCEPT ![r] = [status |-> "running", refs |-> {}]]
        /\ cached' = [cached EXCEPT ![r] = "running"] /\ UNCHANGED <<kind, refs, evidence>>
    BY <1>2 DEF Start, env
  <2>2. run[r] = None
    BY <1>2 DEF Start, CallFacts
  <2> QED BY <1>0, <2>1, <2>2 DEF Modest, SharedType, RunType
<1>3. ASSUME NEW r \in Runs, StartWork(r) \/ SettleWork(r) PROVE Modest
  BY <1>3, <1>a DEF StartWork, SettleWork, env
<1>4. ASSUME NEW r \in Runs, IncidentPersist(r) \/ ScanPersist(r) \/ GenericVerify(r) PROVE Modest
  <2>1. /\ \A p \in Proofs: evidence'[p] # evidence[p] => p[2] \in DefaultObligations[kind]
        /\ \A q \in Runs \ {r}: refs'[q] = refs[q]
        /\ UNCHANGED <<kind, run, cached>> /\ r \notin Succeeded(run)
    BY <1>4, ProofsSaved
  <2> QED BY <2>1 DEF Modest
<1>5. ASSUME NEW r \in Runs, Crash(r) PROVE Modest
  <2>1. cached' = [cached EXCEPT ![r] = None] /\ UNCHANGED <<kind, run, evidence, refs>>
    BY <1>5 DEF Crash, store
  <2>2. None # "succeeded"
    BY RunControlAssumption DEF RunStatus
  <2> QED BY <1>0, <2>1, <2>2 DEF Modest, SharedType
<1>6. ASSUME NEW o \in Operators, NEW r \in Runs, Cancel(o, r) \/ Interrupt(o, r) \/ Resume(o, r)
      PROVE  Modest
  BY <1>6, <1>a DEF Cancel, Interrupt, Resume, Operate, store
<1>7. ASSUME NEW o \in Operators, CancelWork(o) PROVE Modest
  BY <1>7, <1>a DEF CancelWork, Operate, store
<1>8. ASSUME NEW o \in Operators, OperatorSavesRun(o) PROVE Modest
  <2>1. /\ SaveRun(pending[o].of, pending[o].to) /\ UNCHANGED <<kind, cached, refs, evidence>>
        /\ pending[o] # None /\ pending[o].of # None
    BY <1>8 DEF OperatorSavesRun, Written
  <2>2. pending[o].of \in Runs /\ pending[o].to \in RunStatus /\ run[pending[o].of] # None
    BY <2>1 DEF TypeOK, OperatorFacts
  <2>3. RunsKept
    BY <1>0, <2>1, <2>2, SaveRunKeeps DEF SharedType
  <2> QED BY <2>1, <2>3 DEF RunsKept, Modest
<1>9. ASSUME NEW o \in Operators, OperatorSavesWork(o) PROVE Modest
  BY <1>9, <1>a DEF OperatorSavesWork, Written
<1>10. ASSUME NEW p \in Proofs, ReviseProof(p) PROVE Modest
  <2>1. /\ UNCHANGED <<kind, cached, refs, run>> /\ evidence[p] # None
        /\ \E v \in Verdicts: evidence' = [evidence EXCEPT ![p] = v]
    BY <1>10 DEF ReviseProof
  <2> QED BY <1>0, <2>1 DEF Modest, SharedType
<1>11. CASE UNCHANGED vars
  BY <1>11, <1>a DEF vars
<1>12. ASSUME NEW r \in Runs, Step(r) PROVE Modest \/ Commits
  BY <1>12, <1>1, <1>3, <1>4 DEF Step, LocalStep, Gated, Commits
<1> QED BY <1>2, <1>5, <1>6, <1>7, <1>8, <1>9, <1>10, <1>11, <1>12 DEF Next

LEMMA BeliefStep ==
    ASSUME TypeOK, Graph, CallFacts, OperatorFacts, BeliefFacts, [Next]_vars
    PROVE  BeliefFacts'
<1>1. SUFFICES ASSUME NEW q \in Runs, cached'[q] = "succeeded"
               PROVE  q \in Succeeded(run') /\ refs'[q] = run'[q].refs
  BY DEF BeliefFacts
<1>2. CASE Commits
  <2>1. PICK r \in Runs: CommitTerminal(r) /\ Committable(r)
    BY <1>2 DEF Commits
  <2>2. /\ Succeeded(run) = {} /\ Succeeded(run') = {r}
        /\ run'[r] = [status |-> "succeeded", refs |-> refs[r]]
    BY <2>1, CommitFacts
  <2>3. cached' = [cached EXCEPT ![r] = "succeeded"] /\ UNCHANGED refs
    BY <2>1 DEF CommitTerminal
  <2>4. q # r => cached[q] = "succeeded"
    BY <1>1, <2>3 DEF TypeOK
  <2>5. q = r
    BY <2>2, <2>4 DEF BeliefFacts
  <2> QED BY <2>2, <2>3, <2>5
<1>3. CASE ~Commits
  <2>1. Modest /\ StoreKept
    BY <1>3, ModestStep, StoreStep
  <2>2. q \in Succeeded(run) /\ refs[q] = run[q].refs
    BY <1>1, <2>1 DEF Modest, BeliefFacts
  <2> QED BY <2>1, <2>2 DEF Modest, StoreKept
<1> QED BY <1>2, <1>3

LEMMA CommitQuiet ==
    ASSUME TypeOK, Graph, CallFacts, Commits
    PROVE  /\ UNCHANGED <<kind, evidence, pending>>
           /\ \A q \in Runs: run[q] # None => run'[q] # None
<1>1. PICK r \in Runs: CommitTerminal(r) /\ Committable(r)
  BY DEF Commits
<1>2. UNCHANGED <<kind, evidence, pending>>
  BY <1>1 DEF CommitTerminal, env
<1>3. r \in Succeeded(run') /\ \A q \in Runs \ {r}: run'[q] = run[q]
  BY <1>1, CommitFacts
<1> QED BY <1>2, <1>3 DEF Succeeded

LEMMA ProofStep ==
    ASSUME TypeOK, Graph, CallFacts, OperatorFacts, ProofFacts, [Next]_vars
    PROVE  ProofFacts'
<1>1. CASE Modest
  BY <1>1 DEF Modest, ProofFacts
<1>2. CASE Commits
  BY <1>2, CommitQuiet DEF ProofFacts
<1> QED BY <1>1, <1>2, ModestStep

LEMMA OperatorStep ==
    ASSUME TypeOK, Graph, CallFacts, OperatorFacts, [Next]_vars
    PROVE  OperatorFacts'
<1>1. \A q \in Runs: run[q] # None => run'[q] # None
  BY ModestStep, CommitQuiet DEF Modest
<1>2. \A o \in Operators: pending[o] # None /\ pending[o].of # None => pending[o].of \in Runs
  BY DEF TypeOK
<1>a. ASSUME UNCHANGED pending PROVE OperatorFacts'
  BY <1>1, <1>2, <1>a DEF OperatorFacts
<1>3. ASSUME NEW o \in Operators, NEW r \in Runs, Cancel(o, r) \/ Interrupt(o, r) \/ Resume(o, r)
      PROVE  OperatorFacts'
  <2>1. /\ run[r] # None /\ UNCHANGED run
        /\ \E to \in {"cancelled", "interrupted", "running"}:
              pending' = [pending EXCEPT ![o] = [of |-> r, to |-> to]]
    BY <1>3 DEF Cancel, Interrupt, Resume, Operate, store
  <2> QED BY <2>1 DEF OperatorFacts, TypeOK
<1>4. ASSUME NEW o \in Operators, CancelWork(o) PROVE OperatorFacts'
  <2>1. pending' = [pending EXCEPT ![o] = [of |-> None, to |-> "cancelled"]] /\ UNCHANGED run
    BY <1>4 DEF CancelWork, Operate, store
  <2> QED BY <2>1 DEF OperatorFacts, TypeOK
<1>5. ASSUME NEW o \in Operators, OperatorSavesRun(o) \/ OperatorSavesWork(o) PROVE OperatorFacts'
  <2>1. pending' = [pending EXCEPT ![o] = None]
    BY <1>5 DEF OperatorSavesRun, OperatorSavesWork, Written
  <2> QED BY <1>1, <1>2, <2>1 DEF OperatorFacts, TypeOK
<1>6. ASSUME NEW r \in Runs, Step(r) \/ Start(r) \/ Crash(r) PROVE UNCHANGED pending
  BY <1>6 DEF Step, LocalStep, Start, Crash, StartWork, Call, Answer, IncidentBlocked, IncidentAnnounced,
              IncidentPersist, ScanPersist, ScanEnds, GenericVerify, Consolidate, Authorize, CommitTerminal,
              Refused, Leave, Settle, SettleRun, Reread, Conclude, SettleWork, env
<1>7. ASSUME NEW p \in Proofs, ReviseProof(p) PROVE UNCHANGED pending
  BY <1>7 DEF ReviseProof
<1> QED BY <1>a, <1>3, <1>4, <1>5, <1>6, <1>7 DEF Next, vars
-------------------------------------------------------------------------------
(* Theorems *)

LEMMA IInvInit == Init => IInv
<1> SUFFICES ASSUME Init PROVE IInv
  OBVIOUS
<1>1. TypeOK
  <2>1. LocalType
    BY NoResultsTyped DEF Init, LocalType, Phases
  <2>2. work \in [status: WorkStatus, refs: SUBSET Proofs] /\ kind \in AllKinds /\ policy \in Policies
    BY RunControlAssumption DEF Init, WorkStatus, Policies
  <2>3. operations \in 0..MaxOperations /\ faults \in 0..MaxFaults
    BY RunControlAssumption DEF Init
  <2>4. SharedType
    BY <2>2, <2>3 DEF Init, SharedType, RunType
  <2> QED BY <2>1, <2>4, TypeParts
<1>2. Graph
  BY DEF Init, Graph, TerminalPairs, Succeeded
<1>3. CallFacts /\ HonestReply
  BY DEF Init, CallFacts, HonestReply, Succeeded
<1>4. None # "succeeded"
  BY RunControlAssumption DEF RunStatus
<1>5. BeliefFacts /\ OperatorFacts /\ ProofFacts
  BY <1>4 DEF Init, BeliefFacts, OperatorFacts, ProofFacts
<1> QED BY <1>1, <1>2, <1>3, <1>5 DEF IInv

LEMMA IInvStep == IInv /\ [Next]_vars => IInv'
BY TypeStep, StoreStep, CallStep, BeliefStep, OperatorStep, ProofStep DEF IInv

\* The inductive invariant of workflow calls holds in every reachable state.
THEOREM RunControlInvariant == Spec => []IInv
BY IInvInit, IInvStep, PTL DEF Spec

\* The variables of workflow calls keep their types; in particular a Work is
\* never given the status of a Run it does not know.
THEOREM RunControlTypes == Spec => []TypeOK
<1>1. IInv => TypeOK
  BY DEF IInv
<1> QED BY <1>1, RunControlInvariant, PTL

\* The caller of run_workflow is told that it succeeded exactly when its own
\* Run is durably succeeded and the Work completed.
THEOREM RepliesAreHonest == Spec => []HonestReply
<1>1. IInv => HonestReply
  BY DEF IInv
<1> QED BY <1>1, RunControlInvariant, PTL

LEMMA TwoProofs ==
    ASSUME NEW r, NEW a, NEW b, a # b
    PROVE  Cardinality({<<r, a>>, <<r, b>>}) = 2
<1>1. IsFiniteSet({<<r, a>>}) /\ Cardinality({<<r, a>>}) = 1
  BY FS_Singleton
<1>2. <<r, b>> \notin {<<r, a>>}
  OBVIOUS
<1>3. Cardinality({<<r, a>>} \cup {<<r, b>>}) = Cardinality({<<r, a>>}) + 1
  BY <1>1, <1>2, FS_AddElement
<1>4. {<<r, a>>} \cup {<<r, b>>} = {<<r, a>>, <<r, b>>}
  OBVIOUS
<1> QED BY <1>1, <1>3, <1>4

LEMMA BackedByInvariant == IInv => CompletionBacked
<1> SUFFICES ASSUME IInv PROVE CompletionBacked
  OBVIOUS
<1>0. TypeOK /\ Graph /\ ProofFacts
  BY DEF IInv
<1>1. work.status = "completed" <=> Succeeded(run) # {}
  BY <1>0 DEF Graph, TerminalPairs
<1>2. Cardinality(Succeeded(run)) <= 1
  <2>1. CASE Succeeded(run) = {}
    BY <2>1, FS_EmptySet
  <2>2. CASE Succeeded(run) # {}
    <3>1. PICK r \in Succeeded(run): TRUE
      BY <2>2
    <3>2. Succeeded(run) = {r}
      BY <1>0, <3>1, OneSuccess
    <3> QED BY <3>2, FS_Singleton
  <2> QED BY <2>1, <2>2
<1>3. ASSUME NEW r \in Succeeded(run)
      PROVE  /\ work.refs = run[r].refs /\ run[r].refs # {}
             /\ \A p \in run[r].refs: p[1] = r /\ evidence[p] = "pass"
             /\ kind = "incident" => policy = "all-required" /\ Cardinality(run[r].refs) = 2
             /\ kind = "scan" => Cardinality(run[r].refs) = 2
             /\ kind # "consolidation"
  <2> DEFINE ps == run[r].refs
  <2>1. work.refs = ps /\ ProofInvariant(r, ps, evidence)
    BY <1>0 DEF Graph, TerminalPairs
  <2>2. ps \subseteq Proofs
    BY <1>0 DEF TypeOK, Succeeded
  <2>3. ps # {} /\ \A p \in ps: p[1] = r /\ evidence[p] = "pass"
    BY <2>1 DEF ProofInvariant, Passing
  <2>4. "pass" # None
    BY RunControlAssumption DEF Verdicts
  <2>5. \A p \in ps: p \in Proofs /\ p = <<r, p[2]>> /\ p[2] \in DefaultObligations[kind]
    BY <1>0, <2>2, <2>3, <2>4 DEF ProofFacts, Proofs
  <2> HIDE DEF ps
  <2>6. RequiredObligations(kind, policy) \subseteq {p[2] : p \in ps}
    BY <2>1 DEF ProofInvariant
  <2>7. kind # "consolidation"
    BY <2>3, <2>5, ObligationsOfKinds
  <2>8. ASSUME kind # "generic"
        PROVE  policy = "all-required" /\ DefaultObligations[kind] \subseteq {p[2] : p \in ps}
    <3>1. "explicit-verification-obligations-required" \notin {p[2] : p \in ps}
      BY <2>5, ObligationsOfKinds, <1>0 DEF TypeOK
    <3> QED BY <2>6, <2>8, <3>1 DEF RequiredObligations
  <2>9. ASSUME NEW a, NEW b, a # b, DefaultObligations[kind] = {a, b}, kind # "generic"
        PROVE  Cardinality(ps) = 2
    <3>1. ps = {<<r, a>>, <<r, b>>}
      <4>1. \A p \in ps: p = <<r, a>> \/ p = <<r, b>>
        BY <2>5, <2>9
      <4>2. a \in {p[2] : p \in ps} /\ b \in {p[2] : p \in ps}
        BY <2>8, <2>9
      <4>3. <<r, a>> \in ps /\ <<r, b>> \in ps
        BY <2>5, <4>2
      <4> QED BY <4>1, <4>3
    <3> QED BY <2>9, <3>1, TwoProofs
  <2>10. kind = "incident" => policy = "all-required" /\ Cardinality(ps) = 2
    BY <2>8, <2>9, ObligationsOfKinds
  <2>11. kind = "scan" => Cardinality(ps) = 2
    BY <2>9, ObligationsOfKinds
  <2> QED BY <2>1, <2>3, <2>7, <2>10, <2>11 DEF ps
<1> QED BY <1>1, <1>2, <1>3 DEF CompletionBacked

\* A Work is completed exactly when one of its Runs succeeded, with the same
\* proofs, which pass, were made for that Run and cover what the Work requires.
THEOREM CompletionIsBacked == Spec => []CompletionBacked
BY BackedByInvariant, RunControlInvariant, PTL

\* A step changes what at most one context takes its Run for.
LEMMA OneCache ==
    ASSUME TypeOK, [Next]_vars
    PROVE  UNCHANGED cached \/ \E r \in Runs: \A q \in Runs \ {r}: cached'[q] = cached[q]
<1> DEFINE Own(r) == \A q \in Runs \ {r}: cached'[q] = cached[q]
<1>0. cached \in [Runs -> RunStatus \cup {None}]
  BY DEF TypeOK
<1>a. ASSUME NEW r \in Runs, NEW to, TransitionRun(r, to) PROVE Own(r)
  BY <1>0, <1>a DEF TransitionRun
<1>1. ASSUME NEW r \in Runs, Start(r) \/ Crash(r) PROVE Own(r)
  BY <1>0, <1>1 DEF Start, Crash
<1>2. ASSUME NEW r \in Runs, StartWork(r) \/ SettleWork(r) \/ Call(r) \/ IncidentPersist(r)
                              \/ ScanPersist(r) \/ GenericVerify(r) \/ IncidentAnnounced(r)
                              \/ Settle(r) \/ Reread(r) \/ Conclude(r)
      PROVE  UNCHANGED cached
  BY <1>2 DEF StartWork, SettleWork, Call, IncidentPersist, ScanPersist, GenericVerify,
              IncidentAnnounced, Settle, Reread, Conclude
<1>3. ASSUME NEW r \in Runs, NEW a \in Answers, Answer(r, a) PROVE Own(r)
  <2>1. UNCHANGED cached \/ TransitionRun(r, Exit(Capability(r), a).to)
    BY <1>3 DEF Answer
  <2> QED BY <1>a, <2>1
<1>4. ASSUME NEW r \in Runs, IncidentBlocked(r) \/ ScanEnds(r) \/ Consolidate(r) PROVE Own(r)
  BY <1>a, <1>4 DEF IncidentBlocked, ScanEnds, Consolidate, Leave
<1>5. ASSUME NEW r \in Runs, Refused(r) PROVE Own(r)
  BY <1>a, <1>5 DEF Refused, Leave
<1>6. ASSUME NEW r \in Runs, Authorize(r) PROVE Own(r)
  BY <1>5, <1>6 DEF Authorize
<1>7. ASSUME NEW r \in Runs, CommitTerminal(r) PROVE Own(r)
  BY <1>0, <1>5, <1>7 DEF CommitTerminal
<1>8. ASSUME NEW r \in Runs, SettleRun(r) PROVE Own(r)
  BY <1>a, <1>8 DEF SettleRun
<1>9. ASSUME NEW o \in Operators, NEW r \in Runs, Cancel(o, r) \/ Interrupt(o, r) \/ Resume(o, r)
      PROVE  UNCHANGED cached
  BY <1>9 DEF Cancel, Interrupt, Resume, Operate
<1>10. ASSUME NEW o \in Operators, CancelWork(o) \/ OperatorSavesRun(o) \/ OperatorSavesWork(o)
       PROVE  UNCHANGED cached
  BY <1>10 DEF CancelWork, Operate, OperatorSavesRun, OperatorSavesWork, Written
<1>11. ASSUME NEW p \in Proofs, ReviseProof(p) PROVE UNCHANGED cached
  BY <1>11 DEF ReviseProof
<1>12. ASSUME NEW r \in Runs, Step(r) PROVE UNCHANGED cached \/ Own(r)
  BY <1>12, <1>2, <1>3, <1>4, <1>6, <1>7, <1>8 DEF Step, LocalStep
<1> HIDE DEF Own
<1>13. UNCHANGED cached \/ \E r \in Runs: Own(r)
  BY <1>1, <1>9, <1>10, <1>11, <1>12 DEF Next, vars
<1> QED BY <1>13 DEF Own

\* The facts of the abstract specification, without the status of the Work.
LEMMA CompletionsOf ==
    ASSUME Graph
    PROVE  Completions = {[key |-> "completion", value |-> [of |-> r, refs |-> run[r].refs]] : r \in Succeeded(run)}
BY DEF Graph, TerminalPairs, Completions

LEMMA CompletionsOfNext ==
    ASSUME Graph'
    PROVE  Completions' = {[key |-> "completion", value |-> [of |-> r, refs |-> run'[r].refs]] : r \in Succeeded(run')}
BY DEF Graph, TerminalPairs, Completions

LEMMA CompletionStep == IInv /\ [Next]_vars => [Fact!Next]_<<Completions, Believed>>
<1> SUFFICES ASSUME IInv, [Next]_vars PROVE [Fact!Next]_<<Completions, Believed>>
  OBVIOUS
<1>0. TypeOK /\ Graph /\ CallFacts /\ OperatorFacts /\ BeliefFacts
  BY DEF IInv
<1>1. Graph' /\ (StoreKept \/ Commits) /\ (Modest \/ Commits)
  BY <1>0, StoreStep, ModestStep
<1>2. /\ Completions = {[key |-> "completion", value |-> [of |-> r, refs |-> run[r].refs]] : r \in Succeeded(run)}
      /\ Completions' = {[key |-> "completion", value |-> [of |-> r, refs |-> run'[r].refs]] : r \in Succeeded(run')}
  BY <1>0, <1>1, CompletionsOf, CompletionsOfNext
<1>3. CASE Commits
  <2>1. PICK r \in Runs: CommitTerminal(r) /\ Committable(r)
    BY <1>3 DEF Commits
  <2> DEFINE f == [key |-> "completion", value |-> [of |-> r, refs |-> refs[r]]]
  <2>2. /\ Succeeded(run) = {} /\ Succeeded(run') = {r}
        /\ run'[r] = [status |-> "succeeded", refs |-> refs[r]]
    BY <1>0, <2>1, CommitFacts
  <2>3. Completions = {} /\ Completions' = {f}
    BY <1>2, <2>2
  <2>4. \A q \in Runs: cached[q] # "succeeded"
    BY <1>0, <2>2 DEF BeliefFacts
  <2>5. cached'[r] = "succeeded" /\ (\A q \in Runs \ {r}: cached'[q] # "succeeded") /\ UNCHANGED refs
    BY <1>0, <2>1, <2>4 DEF CommitTerminal, TypeOK
  <2>6. f \in Fact!Recordable
    BY <1>0 DEF Fact!Recordable, TypeOK
  <2>7. Believed = [q \in Runs |-> None]
    BY <2>4 DEF Believed
  <2>8. Believed' = [q \in Runs |-> IF q = r THEN f ELSE None]
    BY <2>5 DEF Believed
  <2> HIDE DEF f
  <2>9. Believed' = [Believed EXCEPT ![r] = f] /\ Believed'[r] = f
    BY <2>7, <2>8
  <2> QED BY <2>3, <2>6, <2>9 DEF Fact!Next, Fact!Commit, Fact!Record
<1>4. CASE ~Commits
  <2>1. StoreKept /\ Modest
    BY <1>1, <1>4
  <2>2. Completions' = Completions
    BY <1>2, <2>1 DEF StoreKept
  <2>3. \A q \in Runs: cached'[q] = "succeeded" => cached[q] = "succeeded" /\ refs'[q] = refs[q]
    BY <1>0, <2>1 DEF Modest, BeliefFacts
  <2>4. \A q \in Runs: cached[q] = "succeeded" => refs'[q] = refs[q]
    BY <1>0, <2>1 DEF Modest, BeliefFacts
  <2>5. CASE UNCHANGED cached
    <3>1. Believed' = Believed
      BY <2>4, <2>5 DEF Believed
    <3> QED BY <2>2, <3>1
  <2>6. ASSUME NEW r \in Runs, \A q \in Runs \ {r}: cached'[q] = cached[q]
        PROVE  Fact!Next \/ UNCHANGED <<Completions, Believed>>
    <3>1. CASE cached'[r] = "succeeded"
      <4>1. Believed' = Believed
        BY <2>3, <2>4, <2>6, <3>1 DEF Believed
      <4> QED BY <2>2, <4>1
    <3>2. CASE cached'[r] # "succeeded"
      <4>1. Believed' = [Believed EXCEPT ![r] = None]
        BY <2>3, <2>4, <2>6, <3>2 DEF Believed
      <4> QED BY <2>2, <4>1 DEF Fact!Next, Fact!Forget
    <3> QED BY <3>1, <3>2
  <2> QED BY <1>0, <2>5, <2>6, OneCache
<1> QED BY <1>3, <1>4

\* The completion of a Work implements a write-once fact: the first commit
\* records it, no copy of a Run or a Work saved later undoes it, and a context
\* that takes its Run for succeeded is the one that recorded it.
THEOREM CompletionLinearizes == Spec => CompletionOnce
<1>1. Init => Fact!Init
  <2> SUFFICES ASSUME Init PROVE Completions = {} /\ Believed = [r \in Runs |-> None]
    BY DEF Fact!Init
  <2>1. None # "succeeded"
    BY RunControlAssumption DEF RunStatus
  <2>2. \A r \in Runs: cached[r] # "succeeded"
    BY <2>1 DEF Init
  <2> QED BY <2>2 DEF Init, Completions, Believed
<1> QED BY <1>1, CompletionStep, RunControlInvariant, PTL DEF Spec, CompletionOnce, Fact!Spec
================================================================================
