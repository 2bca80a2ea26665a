------------------------------ MODULE Controller ------------------------------
(***************************************************************************)
(* The CognitiveController of controller/service.py for one controller id. *)
(*                                                                         *)
(* The controller is event sourced: every transition appends a full        *)
(* ControllerState snapshot to the Event journal, and get() takes the      *)
(* snapshot with the greatest (version, updated_at).  Snapshots are        *)
(* stamped and appended in one synchronous step, so between snapshots of   *)
(* equal version the one appended last wins; the variable `state` is the   *)
(* snapshot get() returns.                                                 *)
(*                                                                         *)
(* Two kinds of things make it concurrent.  Clients (policies inside       *)
(* step(), or API callers of apply()) hold the version they last read      *)
(* while they think, and _invoke_capability holds its own `waiting`        *)
(* snapshot across the await of runtime.invoke and derives the next        *)
(* snapshot from it, whatever the journal holds by then.                   *)
(***************************************************************************)
EXTENDS Integers, Sequences, FiniteSets

CONSTANTS
    Clients,        \* policies and API callers that submit decisions
    ClosureIds,     \* identities a CognitiveClosure may carry
    Capabilities,   \* capability names a closure or a proposal may request
    Effects,        \* EffectClass values
    None,           \* a reference field that is unset
    MaxVersion,     \* bound: no decision is taken at this version
    MaxProposals,   \* bound: WorkProposals saved
    MaxInterrupts   \* bound: crashes of the controller's process

ASSUME ConstantsAssumption ==
    /\ None \notin ClosureIds
    /\ None \notin Nat
    /\ None \notin {"request", "decision", "proposal", "revision"}
    /\ None \notin [caps : SUBSET Capabilities, effect : Effects]
    /\ MaxVersion \in Nat
    /\ MaxProposals \in Nat
    /\ MaxInterrupts \in Nat

VARIABLES
    state,        \* the ControllerState get() returns
    seen,         \* seen[c]: the version client c read, None when it holds none
    calls,        \* the `waiting` snapshots held by invocations in flight
    cutOff,       \* history: those whose invocation ended before its result was recorded
    closureOf,    \* closureOf[i]: what get_closure returns for id i, or None
    proposals,    \* WorkProposals saved, in order; a proposal's id is its index
    works,        \* proposals from which a Work was materialised
    closing,      \* proposals for which a revision recommended `close`
    interrupts    \* crashes so far

vars == <<state, seen, calls, cutOff, closureOf, proposals, works, closing, interrupts>>

Status == {"open", "waiting", "closed", "reopen-required"}

\* What a pending_ref names.
Pending == {"request", "decision", "proposal", "revision", None}

ClosureContent == [caps : SUBSET Capabilities, effect : Effects]

ControllerState ==
    [status : Status, version : Nat, pending : Pending,
     closure : ClosureIds \cup {None}, proposal : Nat \cup {None}]

WorkProposal ==
    [closure : ClosureIds, at : Nat, caps : SUBSET Capabilities, effect : Effects]

RevisionDisposition ==
    {"retry-run", "revise-work", "reopen-cognition", "acquire-evidence",
     "request-authorization", "reconcile-effect", "wait", "close"}

-----------------------------------------------------------------------------
(* Reading and recording snapshots.                                        *)

\* Faulty: the snapshot appended last wins, whatever its version.
RecordLast(next) == state' = next

\* What get() returns once `next` is appended to the journal.
Record(next) == state' = IF next.version >= state.version THEN next ELSE state

\* Faulty: the version is not raised.
TransitionSameVersion(s, status, pending, closure, proposal) ==
    [status |-> status, version |-> s.version, pending |-> pending,
     closure |-> closure, proposal |-> proposal]

\* _transition: the next version of snapshot `s`.  A caller that leaves the
\* closure or the proposal alone passes the one `s` has.
Transition(s, status, pending, closure, proposal) ==
    [status |-> status, version |-> s.version + 1, pending |-> pending,
     closure |-> closure, proposal |-> proposal]

\* The next version of `s` with its references kept.
Keep(s, status, pending) == Transition(s, status, pending, s.closure, s.proposal)

\* The decision kinds _require_current admits in snapshot `s`.
Allowed(s) ==
    IF s.status = "open"
    THEN IF s.closure = None
         THEN {"invoke-capability", "form-closure", "close", "wait"}
         ELSE {"propose-work", "close", "wait"}
    ELSE IF s.status = "waiting" /\ s.closure # None /\ s.proposal # None
         THEN {"assess-revision"}
         ELSE {"reopen"}

\* _require_current: client c's decision of this kind is for the version get()
\* returns, and the status admits it.  The client's turn ends with the decision.
RequireCurrent(c, kind) ==
    /\ seen[c] = state.version
    /\ kind \in Allowed(state)
    /\ state.version < MaxVersion
    /\ seen' = [seen EXCEPT ![c] = None]

-----------------------------------------------------------------------------
(* Operations.                                                             *)

\* create(): version 0, open, no references.
Init ==
    /\ state = [status |-> "open", version |-> 0, pending |-> None,
                closure |-> None, proposal |-> None]
    /\ seen = [c \in Clients |-> None]
    /\ calls = {}
    /\ cutOff = {}
    /\ closureOf = [i \in ClosureIds |-> None]
    /\ proposals = <<>>
    /\ works = {}
    /\ closing = {}
    /\ interrupts = 0

\* get() by a client, or the read at the start of step(): the version is held
\* across policy.select, which may take arbitrarily long.
Read(c) ==
    /\ seen' = [seen EXCEPT ![c] = state.version]
    /\ UNCHANGED <<state, calls, cutOff, closureOf, proposals, works, closing, interrupts>>

\* apply(invoke-capability) up to the await of runtime.invoke.
InvokeCapability(c) ==
    LET waiting == Keep(state, "waiting", "request") IN
    /\ RequireCurrent(c, "invoke-capability")
    /\ Record(waiting)
    /\ calls' = calls \cup {waiting}
    /\ UNCHANGED <<cutOff, closureOf, proposals, works, closing, interrupts>>

\* Faulty: a failed result leaves the request pending.
ResumedStillPending(waiting) == Keep(waiting, "waiting", "request")

\* The snapshot _invoke_capability derives from the one it held.
Resumed(waiting) == Keep(waiting, "open", None)

\* runtime.invoke returns (success or failure alike): the continuation of the
\* call that held `waiting` records its result and the resumed snapshot.
ResultArrives(waiting) ==
    /\ waiting \in calls
    /\ Record(Resumed(waiting))
    /\ calls' = calls \ {waiting}
    /\ UNCHANGED <<seen, cutOff, closureOf, proposals, works, closing, interrupts>>

\* The call ends before the resumed snapshot is appended: its task is cancelled
\* in the await of runtime.invoke (neither runtime nor boundary turns a
\* CancelledError into a result), or an append fails.  Nothing catches it, so the
\* waiting snapshot stays in the journal.
CallCutOff(waiting) ==
    /\ waiting \in calls
    /\ calls' = calls \ {waiting}
    /\ cutOff' = cutOff \cup {waiting}
    /\ UNCHANGED <<state, seen, closureOf, proposals, works, closing, interrupts>>

\* get_closure returns the first closure journaled under an id.
JournalClosure(i, content) ==
    closureOf' = IF closureOf[i] = None
                 THEN [closureOf EXCEPT ![i] = content] ELSE closureOf

\* apply(form-closure) of a closure that matches the controller's
\* responsibility, subject, candidates and open issues.
FormClosure(c, i, content) ==
    /\ RequireCurrent(c, "form-closure")
    /\ JournalClosure(i, content)
    /\ Record(Transition(state, "open", None, i, state.proposal))
    /\ UNCHANGED <<calls, cutOff, proposals, works, closing, interrupts>>

\* The proposal _propose_work builds from the active closure: a decision that
\* requests nothing inherits the closure's capabilities.
ProposalFrom(s, caps, effect) ==
    [closure |-> s.closure, at |-> s.version, effect |-> effect,
     caps |-> IF caps = {} THEN closureOf[s.closure].caps ELSE caps]

\* Faulty: the capability ceiling of the closure is not checked.
SaveProposalAnyCapability(caps, effect) ==
    /\ Len(proposals) < MaxProposals
    /\ effect = closureOf[state.closure].effect
    /\ proposals' = Append(proposals, ProposalFrom(state, caps, effect))

\* _propose_work's checks against the closure, and propose() of the
\* responsibility kernel, which appends the WorkProposal.
SaveProposal(caps, effect) ==
    LET closure == closureOf[state.closure] IN
    /\ Len(proposals) < MaxProposals
    /\ effect = closure.effect
    /\ caps \subseteq closure.caps
    /\ proposals' = Append(proposals, ProposalFrom(state, caps, effect))

\* apply(propose-work) that runs to its end.
ProposeWork(c, caps, effect) ==
    LET id == Len(proposals) + 1 IN
    /\ RequireCurrent(c, "propose-work")
    /\ SaveProposal(caps, effect)
    /\ Record(Transition(state, "waiting", "proposal", state.closure, id))
    /\ UNCHANGED <<calls, cutOff, closureOf, works, closing, interrupts>>

\* What any crash of the process does: clients and invocations in flight are
\* gone, the journal and the saved proposals stay.
Die ==
    /\ interrupts < MaxInterrupts
    /\ interrupts' = interrupts + 1
    /\ seen' = [c \in Clients |-> None]
    /\ calls' = {}
    /\ cutOff' = cutOff \cup calls

\* apply(propose-work) cut off after the proposal is saved and before the
\* snapshot is appended: the two writes are not in one transaction.
ProposeInterrupted(c, caps, effect) ==
    /\ seen[c] = state.version
    /\ "propose-work" \in Allowed(state)
    /\ state.version < MaxVersion
    /\ SaveProposal(caps, effect)
    /\ Die
    /\ UNCHANGED <<state, closureOf, works, closing>>

\* The same for form-closure, between the closure event and the snapshot.
FormInterrupted(c, i, content) ==
    /\ seen[c] = state.version
    /\ "form-closure" \in Allowed(state)
    /\ state.version < MaxVersion
    /\ JournalClosure(i, content)
    /\ Die
    /\ UNCHANGED <<state, proposals, works, closing>>

\* A crash anywhere else, and the restart that rebuilds from the journal.
Crash ==
    /\ Die
    /\ UNCHANGED <<state, closureOf, proposals, works, closing>>

\* _assess_revision's choice of status and pending reference.
AfterRevision(d) ==
    CASE d = "close" -> <<"closed", None>>
      [] d \in {"revise-work", "reopen-cognition", "acquire-evidence"} ->
            <<"reopen-required", None>>
      [] OTHER -> <<"waiting", "revision">>

\* Faulty: the revision's Work need not descend from the current proposal.
AssessRevisionAnyWork(c, d) ==
    /\ RequireCurrent(c, "assess-revision")
    /\ Record(Keep(state, AfterRevision(d)[1], AfterRevision(d)[2]))
    /\ closing' = IF d = "close" THEN closing \cup {state.proposal} ELSE closing
    /\ UNCHANGED <<calls, cutOff, closureOf, proposals, works, interrupts>>

\* apply(assess-revision): the revision names the active closure and a Work
\* that descends from the current proposal.
AssessRevision(c, d) ==
    /\ RequireCurrent(c, "assess-revision")
    /\ state.proposal \in works
    /\ Record(Keep(state, AfterRevision(d)[1], AfterRevision(d)[2]))
    /\ closing' = IF d = "close" THEN closing \cup {state.proposal} ELSE closing
    /\ UNCHANGED <<calls, cutOff, closureOf, proposals, works, interrupts>>

Close(c) ==
    /\ RequireCurrent(c, "close")
    /\ Record(Keep(state, "closed", None))
    /\ UNCHANGED <<calls, cutOff, closureOf, proposals, works, closing, interrupts>>

Wait(c) ==
    /\ RequireCurrent(c, "wait")
    /\ Record(Keep(state, "waiting", "decision"))
    /\ UNCHANGED <<calls, cutOff, closureOf, proposals, works, closing, interrupts>>

\* Faulty: reopening clears the closure but keeps the proposal reference.
ReopenKeepingProposal(c) ==
    /\ RequireCurrent(c, "reopen")
    /\ Record(Transition(state, "open", None, None, state.proposal))
    /\ UNCHANGED <<calls, cutOff, closureOf, proposals, works, closing, interrupts>>

\* apply(reopen) is the only transition that drops the closure and proposal.
Reopen(c) ==
    /\ RequireCurrent(c, "reopen")
    /\ Record(Transition(state, "open", None, None, None))
    /\ UNCHANGED <<calls, cutOff, closureOf, proposals, works, closing, interrupts>>

\* Faulty: the signal is recorded under the version it interrupts.
ReopenSignalUnversioned ==
    /\ state.version < MaxVersion
    /\ Record([state EXCEPT !.status = "reopen-required", !.pending = None])
    /\ UNCHANGED <<seen, calls, cutOff, closureOf, proposals, works, closing, interrupts>>

\* reopen_required(): called by whoever finds the closure broken, in any
\* status, with no version check.
ReopenRequired ==
    /\ state.version < MaxVersion
    /\ Record(Keep(state, "reopen-required", None))
    /\ UNCHANGED <<seen, calls, cutOff, closureOf, proposals, works, closing, interrupts>>

\* The responsibility kernel materialises a Work for a saved proposal (see
\* module Responsibility); the controller only reads it.
MaterializeWork(p) ==
    /\ p \in 1..Len(proposals) \ works
    /\ works' = works \cup {p}
    /\ UNCHANGED <<state, seen, calls, cutOff, closureOf, proposals, closing, interrupts>>

Next ==
    \/ \E c \in Clients : Read(c)
    \/ \E c \in Clients : InvokeCapability(c)
    \/ \E waiting \in calls : ResultArrives(waiting)
    \/ \E waiting \in calls : CallCutOff(waiting)
    \/ \E c \in Clients, i \in ClosureIds, k \in ClosureContent : FormClosure(c, i, k)
    \/ \E c \in Clients, i \in ClosureIds, k \in ClosureContent : FormInterrupted(c, i, k)
    \/ \E c \in Clients, caps \in SUBSET Capabilities, e \in Effects : ProposeWork(c, caps, e)
    \/ \E c \in Clients, caps \in SUBSET Capabilities, e \in Effects : ProposeInterrupted(c, caps, e)
    \/ \E c \in Clients, d \in RevisionDisposition : AssessRevision(c, d)
    \/ \E c \in Clients : Close(c)
    \/ \E c \in Clients : Wait(c)
    \/ \E c \in Clients : Reopen(c)
    \/ ReopenRequired
    \/ Crash
    \/ \E p \in 1..MaxProposals : MaterializeWork(p)

Spec == Init /\ [][Next]_vars

-----------------------------------------------------------------------------
(* Properties.                                                             *)

TypeOK ==
    /\ state \in ControllerState
    /\ seen \in [Clients -> Nat \cup {None}]
    /\ calls \subseteq ControllerState
    /\ cutOff \subseteq ControllerState
    /\ closureOf \in [ClosureIds -> ClosureContent \cup {None}]
    /\ proposals \in Seq(WorkProposal)
    /\ works \subseteq 1..Len(proposals)
    /\ closing \subseteq 1..Len(proposals)
    /\ interrupts \in Nat

\* The result of a capability call may arrive long after the controller moved
\* on, with a snapshot taken before the closure was formed.  It never takes
\* the current snapshot's closure away: only reopen drops a closure (and the
\* handed-off proposal with it), and nothing replaces one.
ClosureDroppedOnlyByReopen ==
    [][ state.closure # None /\ state'.closure # state.closure
        => /\ "reopen" \in Allowed(state)
           /\ state'.status = "open"
           /\ state'.closure = None /\ state'.proposal = None ]_vars

\* A client's decision is admitted by comparing versions, so a version has to
\* name one snapshot: versions go up one at a time and the snapshot under a
\* version is not exchanged.  The one exception is the late result of a call
\* during which reopen was required: it puts an open snapshot under the version
\* of that signal, when neither has a closure or a proposal.
VersionNamesSnapshot ==
    [][ state' # state =>
          \/ state'.version = state.version + 1
          \/ /\ state'.version = state.version
             /\ state.status = "reopen-required" /\ state'.status = "open"
             /\ \A s \in {state, state'} :
                    s.pending = None /\ s.closure = None /\ s.proposal = None ]_vars

\* Open cognition never coexists with a handed-off proposal, so no second
\* proposal can be made while the first waits for its revision, whatever the
\* order of late results, restarts and reopen-required signals; and the
\* proposal in hand was built from the closure in hand.
HandoffIsExclusive ==
    /\ state.status = "open" => state.proposal = None
    /\ state.proposal # None =>
          /\ state.proposal \in 1..Len(proposals)
          /\ proposals[state.proposal].closure = state.closure

\* Unless the process died inside a handoff, one closure yields one proposal:
\* no two proposals were made from the same version of the controller.
OneProposalPerClosure ==
    interrupts = 0 =>
        \A p, q \in 1..Len(proposals) : proposals[p].at = proposals[q].at => p = q

\* Every proposal ever saved stays inside the capability and effect ceiling of
\* the closure it cites, as get_closure reports that closure from then on.
ProposalWithinClosure ==
    \A p \in 1..Len(proposals) :
        LET k == closureOf[proposals[p].closure] IN
        /\ k # None
        /\ proposals[p].caps \subseteq k.caps
        /\ proposals[p].effect = k.effect

\* A controller that is closed over a handed-off proposal closed through a
\* revision of a Work that descends from that proposal: handed-off Work is
\* never closed by a plain close decision, nor by a late result.
HandedOffClosedByRevision ==
    state.status = "closed" /\ state.proposal # None =>
        state.proposal \in works \cap closing

\* A request is abandoned only by losing its call: the controller waits for a
\* capability request only while the call that holds exactly this snapshot can
\* still record its result, or after that very call was cut off.  A result that
\* is recorded always ends the wait it belongs to, and no result, decision or
\* signal brings an earlier request's wait back.
RequestIsHeld ==
    state.pending = "request" => state \in calls \cup cutOff

=============================================================================
