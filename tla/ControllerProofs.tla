--------------------------- MODULE ControllerProofs ---------------------------
(***************************************************************************)
(* Proofs about Controller, for any number of clients, closure identities, *)
(* capabilities and crashes.                                               *)
(*                                                                         *)
(* The difficulty is the snapshot an invocation holds across its await.    *)
(* The invariant that makes the properties inductive says where such a     *)
(* call can stand relative to the current snapshot: it is at most as new,  *)
(* if it is equally new it IS the current snapshot, and if it is one       *)
(* version behind then the current snapshot has no closure yet, so the     *)
(* only snapshots a late result can overwrite are closure-free.            *)
(***************************************************************************)
EXTENDS Controller, TLAPS

\* A call in flight holds a closure-free waiting snapshot.
CallShape ==
    \A w \in calls :
        /\ w.status = "waiting" /\ w.pending = "request"
        /\ w.closure = None /\ w.proposal = None

\* How far behind the current snapshot a call can be, and what the current
\* snapshot looks like when the call's result could still win.
CallAge ==
    \A w \in calls :
        /\ w.version <= state.version
        /\ w.version = state.version => state = w
        /\ w.version + 1 = state.version => state.closure = None

\* Two calls in flight are at least two versions apart: an invocation starts
\* only from an open snapshot, and the one before it left a waiting one.
CallsApart ==
    \A v, w \in calls : v.version < w.version => v.version + 2 <= w.version

\* The active closure is journaled, and a proposal needs a closure.
RefsResolve ==
    /\ state.closure # None => closureOf[state.closure] # None
    /\ state.closure = None => state.proposal = None

\* A version that has produced a proposal has been left behind.
ProposalsBehind ==
    interrupts = 0 => \A p \in 1..Len(proposals) : proposals[p].at < state.version

IInv ==
    /\ TypeOK
    /\ CallShape
    /\ CallAge
    /\ CallsApart
    /\ RefsResolve
    /\ ProposalsBehind
    /\ HandoffIsExclusive
    /\ OneProposalPerClosure
    /\ ProposalWithinClosure
    /\ HandedOffClosedByRevision

-----------------------------------------------------------------------------
(* Facts about the operators.                                              *)

\* _transition keeps the shape of a snapshot and raises its version by one.
LEMMA TransitionShape ==
    ASSUME NEW s \in ControllerState, NEW st \in Status, NEW pe \in Pending,
           NEW cl \in ClosureIds \cup {None}, NEW pr \in Nat \cup {None}
    PROVE  /\ Transition(s, st, pe, cl, pr) \in ControllerState
           /\ Transition(s, st, pe, cl, pr).version = s.version + 1
           /\ Transition(s, st, pe, cl, pr).status = st
           /\ Transition(s, st, pe, cl, pr).pending = pe
           /\ Transition(s, st, pe, cl, pr).closure = cl
           /\ Transition(s, st, pe, cl, pr).proposal = pr
BY DEF Transition, ControllerState

\* get() after a transition of the current snapshot returns that transition.
LEMMA RecordNewer ==
    ASSUME TypeOK, NEW s \in ControllerState, s.version = state.version + 1, Record(s)
    PROVE  state' = s
BY DEF Record, TypeOK, ControllerState

\* A step that moves the current snapshot one version on and starts no call
\* keeps every call in its place, provided it gives no closure to a snapshot
\* that a call still holds.
LEMMA CallsKept ==
    ASSUME TypeOK, CallShape, CallAge, CallsApart,
           state' \in ControllerState, state'.version = state.version + 1,
           calls' = calls, state \in calls => state'.closure = None
    PROVE  CallShape' /\ CallAge' /\ CallsApart'
<1>1. CallShape' /\ CallsApart'
  BY DEF CallShape, CallsApart
<1>2. ASSUME NEW w \in calls
      PROVE  /\ w.version <= state'.version
             /\ w.version # state'.version
             /\ w.version + 1 = state'.version => state'.closure = None
  <2>1. w.version \in Nat /\ state.version \in Nat
    BY DEF TypeOK, ControllerState
  <2>2. w.version <= state.version /\ (w.version = state.version => state = w)
    BY DEF CallAge
  <2> QED BY <2>1, <2>2
<1> QED BY <1>1, <1>2 DEF CallAge

\* Losing every call in flight keeps the facts about calls.
LEMMA CallsLost ==
    ASSUME calls' = {}
    PROVE  CallShape' /\ CallAge' /\ CallsApart'
BY DEF CallShape, CallAge, CallsApart

\* A decision other than an invocation leaves the calls alone: in a snapshot
\* that a call holds only reopen is admitted.
LEMMA HeldAdmitsReopen ==
    ASSUME CallShape, state \in calls
    PROVE  Allowed(state) = {"reopen"}
BY DEF CallShape, Allowed

\* A proposal made now keeps what holds of the proposals made so far.
LEMMA AppendProposal ==
    ASSUME TypeOK, RefsResolve, ProposalWithinClosure, state.closure # None,
           NEW caps \in SUBSET Capabilities, NEW e \in Effects,
           SaveProposal(caps, e)
    PROVE  /\ proposals' \in Seq(WorkProposal)
           /\ Len(proposals') = Len(proposals) + 1
           /\ proposals'[Len(proposals) + 1].at = state.version
           /\ proposals'[Len(proposals) + 1].closure = state.closure
           /\ \A p \in 1..Len(proposals) : proposals'[p] = proposals[p]
           /\ closureOf' = closureOf => ProposalWithinClosure'
<1> DEFINE new == ProposalFrom(state, caps, e)
<1>1. state.closure \in ClosureIds /\ state.version \in Nat
  BY DEF TypeOK, ControllerState
<1>2. closureOf[state.closure] \in ClosureContent
  BY <1>1 DEF TypeOK, RefsResolve
<1>3. /\ new \in WorkProposal
      /\ new.closure = state.closure /\ new.at = state.version /\ new.effect = e
      /\ new.caps \subseteq closureOf[state.closure].caps
  BY <1>1, <1>2 DEF ProposalFrom, WorkProposal, ClosureContent, SaveProposal
<1>4. proposals' = Append(proposals, new) /\ proposals \in Seq(WorkProposal)
  BY DEF SaveProposal, TypeOK
<1> HIDE DEF new
<1>5. /\ proposals' \in Seq(WorkProposal)
      /\ Len(proposals') = Len(proposals) + 1
      /\ proposals'[Len(proposals) + 1] = new
      /\ \A p \in 1..Len(proposals) : proposals'[p] = proposals[p]
  BY <1>3, <1>4
<1>6. ASSUME closureOf' = closureOf PROVE ProposalWithinClosure'
  <2>1. ASSUME NEW p \in 1..Len(proposals')
        PROVE  /\ closureOf[proposals'[p].closure] # None
               /\ proposals'[p].caps \subseteq closureOf[proposals'[p].closure].caps
               /\ proposals'[p].effect = closureOf[proposals'[p].closure].effect
    <3>1. CASE p \in 1..Len(proposals)
      BY <1>5, <3>1 DEF ProposalWithinClosure
    <3>2. CASE p = Len(proposals) + 1
      BY <1>3, <1>5, <3>2 DEF RefsResolve, SaveProposal
    <3> QED BY <1>4, <1>5, <3>1, <3>2
  <2> QED BY <2>1, <1>6 DEF ProposalWithinClosure
<1> QED BY <1>3, <1>5, <1>6

\* Proposals stay behind a version that does not go back.
LEMMA BehindKept ==
    ASSUME TypeOK, ProposalsBehind, UNCHANGED <<proposals, interrupts>>,
           state' \in ControllerState, state.version <= state'.version
    PROVE  ProposalsBehind'
<1>1. state.version \in Nat /\ state'.version \in Nat
  BY DEF TypeOK, ControllerState
<1>2. ASSUME NEW p \in 1..Len(proposals) PROVE proposals[p].at \in Nat
  <2>1. proposals[p] \in WorkProposal
    BY DEF TypeOK
  <2> QED BY <2>1 DEF WorkProposal
<1> QED BY <1>1, <1>2 DEF ProposalsBehind

\* Journaling a closure never changes one that proposals may cite.
LEMMA JournalKeeps ==
    ASSUME TypeOK, NEW i \in ClosureIds, NEW k \in ClosureContent,
           JournalClosure(i, k)
    PROVE  /\ closureOf' \in [ClosureIds -> ClosureContent \cup {None}]
           /\ closureOf'[i] # None
           /\ \A j \in ClosureIds : closureOf[j] # None => closureOf'[j] = closureOf[j]
<1>1. k # None
  BY ConstantsAssumption DEF ClosureContent
<1> QED BY <1>1 DEF JournalClosure, TypeOK

\* Recording a transition of the current snapshot makes it the current one.
LEMMA StepShape ==
    ASSUME TypeOK, NEW st \in Status, NEW pe \in Pending,
           NEW cl \in ClosureIds \cup {None}, NEW pr \in Nat \cup {None},
           Record(Transition(state, st, pe, cl, pr))
    PROVE  /\ state' \in ControllerState
           /\ state'.version = state.version + 1
           /\ state'.status = st /\ state'.pending = pe
           /\ state'.closure = cl /\ state'.proposal = pr
<1> DEFINE next == Transition(state, st, pe, cl, pr)
<1>1. state \in ControllerState
  BY DEF TypeOK
<1>2. /\ next \in ControllerState /\ next.version = state.version + 1
      /\ next.status = st /\ next.pending = pe
      /\ next.closure = cl /\ next.proposal = pr
  BY <1>1, TransitionShape
<1> HIDE DEF next
<1>3. Record(next)
  BY DEF next
<1>4. state' = next
  BY <1>2, <1>3, RecordNewer
<1> QED BY <1>2, <1>4

\* The same for a transition that keeps closure and proposal.
LEMMA KeepShape ==
    ASSUME TypeOK, NEW st \in Status, NEW pe \in Pending, Record(Keep(state, st, pe))
    PROVE  /\ state' \in ControllerState
           /\ state'.version = state.version + 1
           /\ state'.status = st /\ state'.pending = pe
           /\ state'.closure = state.closure /\ state'.proposal = state.proposal
<1>1. state.closure \in ClosureIds \cup {None} /\ state.proposal \in Nat \cup {None}
  BY DEF TypeOK, ControllerState
<1>2. Record(Transition(state, st, pe, state.closure, state.proposal))
  BY DEF Keep
<1> QED BY <1>1, <1>2, StepShape

\* The same for the transition of a reopen.
LEMMA ReopenShape ==
    ASSUME TypeOK, Record(Transition(state, "open", None, None, None))
    PROVE  /\ state' \in ControllerState
           /\ state'.version = state.version + 1
           /\ state'.status = "open" /\ state'.pending = None
           /\ state'.closure = None /\ state'.proposal = None
<1>1. "open" \in Status /\ None \in Pending
  BY DEF Status, Pending
<1> QED BY <1>1, StepShape

-----------------------------------------------------------------------------
(* The invariant is inductive: one lemma per kind of step.                 *)

\* A transition of the current snapshot that keeps its references and leaves
\* the records alone keeps the invariant, unless it opens a handed-off
\* controller, or closes one without the revision that says so.
LEMMA KeepStep ==
    ASSUME IInv, NEW st \in Status, NEW pe \in Pending,
           Record(Keep(state, st, pe)),
           seen' \in [Clients -> Nat \cup {None}],
           UNCHANGED <<calls, cutOff, closureOf, proposals, works, interrupts>>,
           closing' \subseteq 1..Len(proposals),
           st = "open" => state.proposal = None,
           st = "closed" /\ state.proposal # None => state.proposal \in works \cap closing'
    PROVE  IInv'
<1> USE DEF IInv
<1>1. /\ state' \in ControllerState
      /\ state'.version = state.version + 1
      /\ state'.status = st /\ state'.pending = pe
      /\ state'.closure = state.closure /\ state'.proposal = state.proposal
  BY KeepShape
<1>2. TypeOK'
  BY <1>1 DEF TypeOK
<1>3. state \in calls => state'.closure = None
  BY <1>1 DEF CallShape
<1>4. CallShape' /\ CallAge' /\ CallsApart'
  BY <1>1, <1>3, CallsKept
<1>5. RefsResolve' /\ HandoffIsExclusive' /\ HandedOffClosedByRevision'
  BY <1>1 DEF RefsResolve, HandoffIsExclusive, HandedOffClosedByRevision
<1>6. ProposalsBehind'
  BY <1>1, BehindKept DEF TypeOK, ControllerState
<1>7. OneProposalPerClosure' /\ ProposalWithinClosure'
  BY DEF OneProposalPerClosure, ProposalWithinClosure
<1> QED BY <1>2, <1>4, <1>5, <1>6, <1>7

\* Starting an invocation (_invoke_capability up to its await) adds a call that
\* holds the new current snapshot.
LEMMA InvokeStep ==
    ASSUME IInv, NEW c \in Clients, InvokeCapability(c)
    PROVE  IInv'
<1> USE DEF IInv
<1> DEFINE waiting == Keep(state, "waiting", "request")
<1>1. /\ state' \in ControllerState
      /\ state'.version = state.version + 1
      /\ state'.status = "waiting" /\ state'.pending = "request"
      /\ state'.closure = state.closure /\ state'.proposal = state.proposal
  BY KeepShape DEF InvokeCapability, Status, Pending
<1>2. state' = waiting
  <2>1. waiting.version = state.version + 1
    BY TransitionShape DEF Keep, Transition
  <2> QED BY <2>1 DEF InvokeCapability, Record, TypeOK, ControllerState
<1> HIDE DEF waiting
<1>3. /\ calls' = calls \cup {state'}
      /\ UNCHANGED <<cutOff, closureOf, proposals, works, closing, interrupts>>
      /\ seen' = [seen EXCEPT ![c] = None]
      /\ state.status = "open" /\ state.closure = None
  BY <1>2 DEF InvokeCapability, RequireCurrent, Allowed, waiting
<1>4. state.proposal = None
  BY <1>3 DEF RefsResolve
<1>5. TypeOK'
  BY <1>1, <1>3 DEF TypeOK
<1>6. \A w \in calls : w.version < state.version /\ w.version \in Nat /\ state.version \in Nat
  BY <1>3 DEF CallAge, CallShape, TypeOK, ControllerState
<1>7. CallShape'
  BY <1>1, <1>3, <1>4 DEF CallShape
<1>8. state'.version \in Nat /\ \A w \in calls : w.version + 2 <= state'.version
  BY <1>1, <1>6 DEF ControllerState
<1>12. CallAge'
  <2>1. ASSUME NEW w \in calls'
        PROVE  /\ w.version <= state'.version
               /\ w.version = state'.version => state' = w
               /\ w.version + 1 = state'.version => state'.closure = None
    <3>1. CASE w \in calls
      BY <3>1, <1>6, <1>8
    <3>2. CASE w = state'
      BY <3>2, <1>8
    <3> QED BY <1>3, <3>1, <3>2
  <2> QED BY <2>1 DEF CallAge
<1>13. CallsApart'
  <2>1. ASSUME NEW v \in calls', NEW w \in calls', v.version < w.version
        PROVE  v.version + 2 <= w.version
    <3>1. CASE v \in calls /\ w \in calls
      BY <2>1, <3>1 DEF CallsApart
    <3>2. CASE w = state'
      BY <1>3, <1>6, <1>8, <2>1, <3>2
    <3>3. CASE v = state' /\ w \in calls
      BY <1>6, <1>8, <2>1, <3>3
    <3> QED BY <1>3, <3>1, <3>2, <3>3
  <2> QED BY <2>1 DEF CallsApart
<1>9. RefsResolve' /\ HandoffIsExclusive' /\ HandedOffClosedByRevision'
  BY <1>1, <1>3, <1>4 DEF RefsResolve, HandoffIsExclusive, HandedOffClosedByRevision
<1>10. ProposalsBehind'
  BY <1>1, <1>3, BehindKept DEF TypeOK, ControllerState
<1>11. OneProposalPerClosure' /\ ProposalWithinClosure'
  BY <1>3 DEF OneProposalPerClosure, ProposalWithinClosure
<1> QED BY <1>5, <1>7, <1>9, <1>10, <1>11, <1>12, <1>13

\* A late result either loses to a newer snapshot or overwrites one that has
\* no closure: the heart of the argument.
LEMMA LateResult ==
    ASSUME IInv, NEW w \in calls, ResultArrives(w)
    PROVE  \/ state' = state
           \/ /\ state.closure = None
              /\ state'.closure = None /\ state'.proposal = None
              /\ state'.status = "open"
              /\ state'.version = w.version + 1
              /\ state.version <= state'.version
              /\ state' \in ControllerState
<1> USE DEF IInv
<1>1. w \in ControllerState /\ state \in ControllerState
  BY DEF TypeOK
<1>2. w.closure = None /\ w.proposal = None
  BY DEF CallShape
<1>3. /\ Resumed(w) \in ControllerState /\ Resumed(w).version = w.version + 1
      /\ Resumed(w).status = "open"
      /\ Resumed(w).closure = None /\ Resumed(w).proposal = None
  <2>1. Resumed(w) = Transition(w, "open", None, None, None)
    BY <1>2 DEF Resumed, Keep
  <2>2. "open" \in Status /\ None \in Pending
    BY DEF Status, Pending
  <2>3. w.version + 1 \in Nat
    BY <1>1 DEF ControllerState
  <2> QED BY <2>1, <2>2, <2>3 DEF Transition, ControllerState
<1>4. state' = IF Resumed(w).version >= state.version THEN Resumed(w) ELSE state
  BY DEF ResultArrives, Record
<1>5. CASE Resumed(w).version >= state.version
  <2>1. w.version = state.version \/ w.version + 1 = state.version
    BY <1>1, <1>3, <1>5 DEF CallAge, ControllerState
  <2>2. state.closure = None
    BY <2>1, <1>2 DEF CallAge
  <2> QED BY <1>1, <1>3, <1>4, <1>5, <2>2 DEF ControllerState
<1>6. CASE ~(Resumed(w).version >= state.version)
  BY <1>4, <1>6
<1> QED BY <1>5, <1>6

\* The continuation of _invoke_capability keeps the invariant, however late.
LEMMA ResultStep ==
    ASSUME IInv, NEW w \in calls, ResultArrives(w)
    PROVE  IInv'
<1> USE DEF IInv
<1>1. /\ calls' = calls \ {w}
      /\ UNCHANGED <<seen, cutOff, closureOf, proposals, works, closing, interrupts>>
  BY DEF ResultArrives
<1>2. CASE state' = state
  <2>1. CallShape' /\ CallAge' /\ CallsApart'
    BY <1>1, <1>2 DEF CallShape, CallAge, CallsApart
  <2> QED BY <1>1, <1>2, <2>1 DEF TypeOK, RefsResolve, ProposalsBehind,
        HandoffIsExclusive, OneProposalPerClosure, ProposalWithinClosure,
        HandedOffClosedByRevision
<1>3. CASE /\ state.closure = None
           /\ state'.closure = None /\ state'.proposal = None
           /\ state'.status = "open"
           /\ state'.version = w.version + 1
           /\ state.version <= state'.version
           /\ state' \in ControllerState
  <2>1. TypeOK'
    BY <1>1, <1>3 DEF TypeOK
  <2>2. CallShape' /\ CallsApart'
    BY <1>1 DEF CallShape, CallsApart
  <2>3. ASSUME NEW v \in calls'
        PROVE  v.version < state'.version
    <3>1. /\ v \in calls /\ v # w
          /\ v.version \in Nat /\ w.version \in Nat /\ state.version \in Nat
      BY <1>1 DEF TypeOK, ControllerState
    <3>2. v.version # w.version + 1
      BY <3>1 DEF CallsApart
    <3>3. v.version <= state.version
      BY <3>1 DEF CallAge
    <3> QED BY <1>3, <3>1, <3>2, <3>3
  <2>4. CallAge'
    BY <2>3, <1>3, <2>1 DEF CallAge, TypeOK, ControllerState
  <2>5. RefsResolve' /\ HandoffIsExclusive' /\ HandedOffClosedByRevision'
    BY <1>3 DEF RefsResolve, HandoffIsExclusive, HandedOffClosedByRevision
  <2>6. ProposalsBehind'
    BY <1>1, <1>3, BehindKept
  <2>7. OneProposalPerClosure' /\ ProposalWithinClosure'
    BY <1>1 DEF OneProposalPerClosure, ProposalWithinClosure
  <2> QED BY <2>1, <2>2, <2>4, <2>5, <2>6, <2>7
<1> QED BY <1>2, <1>3, LateResult

\* What a journaled closure leaves true of the records: shared by the step
\* that completes and the one that is cut off.
LEMMA JournalStep ==
    ASSUME IInv, NEW i \in ClosureIds, NEW k \in ClosureContent,
           JournalClosure(i, k), UNCHANGED proposals
    PROVE  ProposalWithinClosure'
<1> USE DEF IInv
<1>1. \A j \in ClosureIds : closureOf[j] # None => closureOf'[j] = closureOf[j]
  BY JournalKeeps
<1>2. \A p \in 1..Len(proposals) : proposals[p].closure \in ClosureIds
  <2>1. \A p \in 1..Len(proposals) : proposals[p] \in WorkProposal
    BY DEF TypeOK
  <2> QED BY <2>1 DEF WorkProposal
<1> QED BY <1>1, <1>2 DEF ProposalWithinClosure

\* _form_closure keeps the invariant: in a controller that may form a closure
\* no call is ahead of the current snapshot.
LEMMA FormStep ==
    ASSUME IInv, NEW c \in Clients, NEW i \in ClosureIds, NEW k \in ClosureContent,
           FormClosure(c, i, k)
    PROVE  IInv'
<1> USE DEF IInv
<1>1. /\ state.status = "open" /\ state.closure = None
      /\ seen' = [seen EXCEPT ![c] = None]
      /\ JournalClosure(i, k)
      /\ Record(Transition(state, "open", None, i, state.proposal))
      /\ UNCHANGED <<calls, cutOff, proposals, works, closing, interrupts>>
  BY DEF FormClosure, RequireCurrent, Allowed
<1>2. state.proposal = None
  BY <1>1 DEF RefsResolve
<1>3. /\ state' \in ControllerState
      /\ state'.version = state.version + 1
      /\ state'.status = "open" /\ state'.pending = None
      /\ state'.closure = i /\ state'.proposal = None
  <2>1. "open" \in Status /\ None \in Pending
    BY DEF Status, Pending
  <2>2. Record(Transition(state, "open", None, i, None))
    BY <1>1, <1>2
  <2> QED BY <2>1, <2>2, StepShape
<1>4. /\ closureOf' \in [ClosureIds -> ClosureContent \cup {None}]
      /\ closureOf'[i] # None
  BY <1>1, JournalKeeps
<1>5. TypeOK'
  BY <1>1, <1>3, <1>4 DEF TypeOK
<1>6. state \notin calls
  BY <1>1 DEF CallShape
<1>7. CallShape' /\ CallAge' /\ CallsApart'
  BY <1>1, <1>3, <1>6, CallsKept
<1>8. RefsResolve' /\ HandoffIsExclusive' /\ HandedOffClosedByRevision'
  BY <1>3, <1>4, ConstantsAssumption
     DEF RefsResolve, HandoffIsExclusive, HandedOffClosedByRevision
<1>9. ProposalsBehind'
  BY <1>1, <1>3, BehindKept DEF TypeOK, ControllerState
<1>10. OneProposalPerClosure'
  BY <1>1 DEF OneProposalPerClosure
<1>11. ProposalWithinClosure'
  BY <1>1, JournalStep
<1> QED BY <1>5, <1>7, <1>8, <1>9, <1>10, <1>11

\* A crash loses the clients and the calls and keeps the snapshot, so only
\* what the step wrote before it matters.
LEMMA DieStep ==
    ASSUME IInv, Die, state' = state,
           UNCHANGED <<works, closing>>,
           closureOf' \in [ClosureIds -> ClosureContent \cup {None}],
           \A j \in ClosureIds : closureOf[j] # None => closureOf'[j] = closureOf[j],
           proposals' \in Seq(WorkProposal),
           Len(proposals) <= Len(proposals'),
           \A p \in 1..Len(proposals) : proposals'[p] = proposals[p],
           ProposalWithinClosure'
    PROVE  IInv'
<1> USE DEF IInv
<1>1. /\ interrupts' \in Nat /\ interrupts' # 0
      /\ seen' = [c \in Clients |-> None] /\ calls' = {}
      /\ cutOff' \subseteq ControllerState
  BY DEF Die, TypeOK
<1>2. CallShape' /\ CallAge' /\ CallsApart'
  BY <1>1, CallsLost
<1>3. 1..Len(proposals) \subseteq 1..Len(proposals')
  BY DEF TypeOK
<1>4. TypeOK'
  BY <1>1, <1>3 DEF TypeOK
<1>5. RefsResolve'
  BY DEF RefsResolve, TypeOK, ControllerState
<1>6. HandoffIsExclusive' /\ HandedOffClosedByRevision'
  BY <1>3 DEF HandoffIsExclusive, HandedOffClosedByRevision
<1>7. ProposalsBehind' /\ OneProposalPerClosure'
  BY <1>1 DEF ProposalsBehind, OneProposalPerClosure
<1> QED BY <1>2, <1>4, <1>5, <1>6, <1>7

\* _propose_work keeps the invariant: the proposal it appends cites the version
\* it leaves behind.
LEMMA ProposeStep ==
    ASSUME IInv, NEW c \in Clients, NEW caps \in SUBSET Capabilities, NEW e \in Effects,
           ProposeWork(c, caps, e)
    PROVE  IInv'
<1> USE DEF IInv
<1> DEFINE id == Len(proposals) + 1
<1>1. /\ state.status = "open" /\ state.closure # None
      /\ seen' = [seen EXCEPT ![c] = None]
      /\ SaveProposal(caps, e)
      /\ Record(Transition(state, "waiting", "proposal", state.closure, id))
      /\ UNCHANGED <<calls, cutOff, closureOf, works, closing, interrupts>>
  BY DEF ProposeWork, RequireCurrent, Allowed
<1>2. /\ proposals' \in Seq(WorkProposal)
      /\ Len(proposals') = id
      /\ proposals'[id].at = state.version
      /\ proposals'[id].closure = state.closure
      /\ \A p \in 1..Len(proposals) : proposals'[p] = proposals[p]
      /\ ProposalWithinClosure'
  BY <1>1, AppendProposal
<1>3. Len(proposals) \in Nat /\ id \in Nat
  BY DEF TypeOK
<1> HIDE DEF id
<1>4. /\ state' \in ControllerState
      /\ state'.version = state.version + 1
      /\ state'.status = "waiting" /\ state'.pending = "proposal"
      /\ state'.closure = state.closure /\ state'.proposal = id
  <2>1. "waiting" \in Status /\ "proposal" \in Pending /\ state.closure \in ClosureIds \cup {None}
    BY DEF Status, Pending, TypeOK, ControllerState
  <2> QED BY <1>1, <1>3, <2>1, StepShape
<1>5. 1..Len(proposals) \subseteq 1..Len(proposals') /\ id \in 1..Len(proposals')
  BY <1>2, <1>3 DEF id
<1>6. TypeOK'
  BY <1>1, <1>2, <1>4, <1>5 DEF TypeOK
<1>7. state \notin calls
  BY <1>1 DEF CallShape
<1>8. CallShape' /\ CallAge' /\ CallsApart'
  BY <1>1, <1>4, <1>7, CallsKept
<1>9. RefsResolve' /\ HandoffIsExclusive' /\ HandedOffClosedByRevision'
  BY <1>1, <1>2, <1>4, <1>5
     DEF RefsResolve, HandoffIsExclusive, HandedOffClosedByRevision
<1>10. ASSUME interrupts' = 0
       PROVE  /\ \A p \in 1..Len(proposals') : proposals'[p].at < state'.version
              /\ \A p \in 1..Len(proposals) : proposals'[p].at < proposals'[id].at
  <2>1. state.version \in Nat
    BY DEF TypeOK, ControllerState
  <2>2. \A p \in 1..Len(proposals) : proposals[p].at \in Nat
    <3>1. \A p \in 1..Len(proposals) : proposals[p] \in WorkProposal
      BY DEF TypeOK
    <3> QED BY <3>1 DEF WorkProposal
  <2>3. \A p \in 1..Len(proposals) : proposals[p].at < state.version
    BY <1>1, <1>10 DEF ProposalsBehind
  <2>4. \A p \in 1..Len(proposals') : p \in 1..Len(proposals) \/ p = id
    BY <1>2, <1>3 DEF id
  <2> QED BY <1>2, <1>4, <2>1, <2>2, <2>3, <2>4, SMTT(30)
<1>11. ProposalsBehind'
  BY <1>10 DEF ProposalsBehind
<1>12. OneProposalPerClosure'
  <2>1. ASSUME interrupts' = 0, NEW p \in 1..Len(proposals'), NEW q \in 1..Len(proposals'),
               proposals'[p].at = proposals'[q].at
        PROVE  p = q
    <3>1. \A r \in 1..Len(proposals') : proposals'[r].at \in Nat
      <4>1. \A r \in 1..Len(proposals') : proposals'[r] \in WorkProposal
        BY <1>2
      <4> QED BY <4>1 DEF WorkProposal
    <3>2. \A r \in 1..Len(proposals') : r \in 1..Len(proposals) \/ r = id
      BY <1>2, <1>3 DEF id
    <3>3. CASE p \in 1..Len(proposals) /\ q \in 1..Len(proposals)
      BY <1>1, <1>2, <2>1, <3>3 DEF OneProposalPerClosure
    <3>4. CASE p \in 1..Len(proposals) /\ q = id
      BY <1>10, <2>1, <3>1, <3>4
    <3>5. CASE p = id /\ q \in 1..Len(proposals)
      BY <1>10, <2>1, <3>1, <3>5
    <3> QED BY <3>2, <3>3, <3>4, <3>5
  <2> QED BY <2>1 DEF OneProposalPerClosure
<1> QED BY <1>2, <1>6, <1>8, <1>9, <1>11, <1>12

\* apply(reopen) drops closure and proposal and keeps the invariant.
LEMMA ReopenStep ==
    ASSUME IInv, NEW c \in Clients, Reopen(c)
    PROVE  IInv'
<1> USE DEF IInv
<1>1. /\ seen' = [seen EXCEPT ![c] = None]
      /\ Record(Transition(state, "open", None, None, None))
      /\ UNCHANGED <<calls, cutOff, closureOf, proposals, works, closing, interrupts>>
  BY DEF Reopen, RequireCurrent
<1>2. /\ state' \in ControllerState
      /\ state'.version = state.version + 1
      /\ state'.status = "open" /\ state'.pending = None
      /\ state'.closure = None /\ state'.proposal = None
  BY <1>1, ReopenShape
<1>3. TypeOK'
  BY <1>1, <1>2 DEF TypeOK
<1>4. CallShape' /\ CallAge' /\ CallsApart'
  BY <1>1, <1>2, CallsKept
<1>5. RefsResolve' /\ HandoffIsExclusive' /\ HandedOffClosedByRevision'
  BY <1>2 DEF RefsResolve, HandoffIsExclusive, HandedOffClosedByRevision
<1>6. ProposalsBehind'
  BY <1>1, <1>2, BehindKept DEF TypeOK, ControllerState
<1>7. OneProposalPerClosure' /\ ProposalWithinClosure'
  BY <1>1 DEF OneProposalPerClosure, ProposalWithinClosure
<1> QED BY <1>3, <1>4, <1>5, <1>6, <1>7

\* _assess_revision keeps the invariant: it closes only with the revision that
\* says so.
LEMMA AssessStep ==
    ASSUME IInv, NEW c \in Clients, NEW d \in RevisionDisposition, AssessRevision(c, d)
    PROVE  IInv'
<1> USE DEF IInv
<1>1. /\ seen' = [seen EXCEPT ![c] = None]
      /\ state.proposal \in works
      /\ Record(Keep(state, AfterRevision(d)[1], AfterRevision(d)[2]))
      /\ closing' = IF d = "close" THEN closing \cup {state.proposal} ELSE closing
      /\ UNCHANGED <<calls, cutOff, closureOf, proposals, works, interrupts>>
  BY DEF AssessRevision, RequireCurrent
<1>2. /\ AfterRevision(d)[1] \in Status /\ AfterRevision(d)[2] \in Pending
      /\ AfterRevision(d)[1] # "open"
      /\ AfterRevision(d)[1] = "closed" => d = "close"
  BY DEF AfterRevision, Status, Pending
<1>3. closing' \subseteq 1..Len(proposals)
  BY <1>1 DEF TypeOK
<1>4. seen' \in [Clients -> Nat \cup {None}]
  BY <1>1 DEF TypeOK
<1>5. AfterRevision(d)[1] = "closed" => state.proposal \in works \cap closing'
  BY <1>1, <1>2
<1> HIDE DEF IInv
<1> QED BY <1>1, <1>2, <1>3, <1>4, <1>5, KeepStep

\* create() establishes the invariant.
LEMMA InitOK == Init => IInv
<1> SUFFICES ASSUME Init PROVE IInv
  OBVIOUS
<1>1. state \in ControllerState
  BY DEF Init, ControllerState, Status, Pending
<1>2. TypeOK
  BY <1>1, ConstantsAssumption DEF Init, TypeOK
<1> QED BY <1>2 DEF Init, IInv, CallShape, CallAge, CallsApart, RefsResolve,
      ProposalsBehind, HandoffIsExclusive, OneProposalPerClosure,
      ProposalWithinClosure, HandedOffClosedByRevision

\* Every step of the controller, its clients, its calls and the crashes keeps
\* the invariant.
LEMMA NextOK == IInv /\ [Next]_vars => IInv'
<1> SUFFICES ASSUME IInv, [Next]_vars PROVE IInv'
  OBVIOUS
<1>0. ASSUME UNCHANGED vars PROVE IInv'
  BY <1>0 DEF IInv, vars, TypeOK, CallShape, CallAge, CallsApart, RefsResolve,
      ProposalsBehind, HandoffIsExclusive, OneProposalPerClosure,
      ProposalWithinClosure, HandedOffClosedByRevision
<1>1. ASSUME NEW c \in Clients, Read(c) PROVE IInv'
  <2>1. seen' \in [Clients -> Nat \cup {None}]
    BY <1>1 DEF Read, IInv, TypeOK, ControllerState
  <2> QED BY <1>1, <2>1 DEF Read, IInv, TypeOK, CallShape, CallAge, CallsApart,
        RefsResolve, ProposalsBehind, HandoffIsExclusive, OneProposalPerClosure,
        ProposalWithinClosure, HandedOffClosedByRevision
<1>2. ASSUME NEW c \in Clients, InvokeCapability(c) PROVE IInv'
  BY <1>2, InvokeStep
<1>3. ASSUME NEW w \in calls, ResultArrives(w) PROVE IInv'
  BY <1>3, ResultStep
<1>4. ASSUME NEW c \in Clients, NEW i \in ClosureIds, NEW k \in ClosureContent,
             FormClosure(c, i, k)
      PROVE  IInv'
  BY <1>4, FormStep
<1>5. ASSUME NEW c \in Clients, NEW i \in ClosureIds, NEW k \in ClosureContent,
             FormInterrupted(c, i, k)
      PROVE  IInv'
  <2>1. /\ JournalClosure(i, k) /\ Die
        /\ UNCHANGED <<state, proposals, works, closing>>
    BY <1>5 DEF FormInterrupted
  <2>2. /\ closureOf' \in [ClosureIds -> ClosureContent \cup {None}]
        /\ \A j \in ClosureIds : closureOf[j] # None => closureOf'[j] = closureOf[j]
    BY <2>1, JournalKeeps DEF IInv
  <2>3. ProposalWithinClosure'
    BY <2>1, JournalStep
  <2>4. proposals' \in Seq(WorkProposal) /\ Len(proposals) <= Len(proposals')
    BY <2>1 DEF IInv, TypeOK
  <2> QED BY <2>1, <2>2, <2>3, <2>4, DieStep
<1>6. ASSUME NEW c \in Clients, NEW caps \in SUBSET Capabilities, NEW e \in Effects,
             ProposeWork(c, caps, e)
      PROVE  IInv'
  BY <1>6, ProposeStep
<1>7. ASSUME NEW c \in Clients, NEW caps \in SUBSET Capabilities, NEW e \in Effects,
             ProposeInterrupted(c, caps, e)
      PROVE  IInv'
  <2>1. /\ SaveProposal(caps, e) /\ Die /\ state.closure # None
        /\ UNCHANGED <<state, closureOf, works, closing>>
    BY <1>7 DEF ProposeInterrupted, Allowed
  <2>2. /\ proposals' \in Seq(WorkProposal)
        /\ Len(proposals') = Len(proposals) + 1
        /\ \A p \in 1..Len(proposals) : proposals'[p] = proposals[p]
        /\ ProposalWithinClosure'
    BY <2>1, AppendProposal DEF IInv
  <2>3. Len(proposals) <= Len(proposals')
    BY <2>2 DEF IInv, TypeOK
  <2>4. closureOf' \in [ClosureIds -> ClosureContent \cup {None}]
    BY <2>1 DEF IInv, TypeOK
  <2> QED BY <2>1, <2>2, <2>3, <2>4, DieStep
<1>8. ASSUME NEW c \in Clients, NEW d \in RevisionDisposition, AssessRevision(c, d)
      PROVE  IInv'
  BY <1>8, AssessStep
<1>9. ASSUME NEW c \in Clients, Close(c) PROVE IInv'
  <2>1. /\ Record(Keep(state, "closed", None)) /\ state.status = "open"
        /\ seen' \in [Clients -> Nat \cup {None}]
        /\ UNCHANGED <<calls, cutOff, closureOf, proposals, works, closing, interrupts>>
    BY <1>9 DEF Close, RequireCurrent, Allowed, IInv, TypeOK
  <2>2. state.proposal = None /\ closing' \subseteq 1..Len(proposals)
    BY <2>1 DEF IInv, TypeOK, HandoffIsExclusive
  <2>3. "closed" \in Status /\ None \in Pending
    BY DEF Status, Pending
  <2> QED BY <2>1, <2>2, <2>3, KeepStep
<1>10. ASSUME NEW c \in Clients, Wait(c) PROVE IInv'
  <2>1. /\ Record(Keep(state, "waiting", "decision"))
        /\ seen' \in [Clients -> Nat \cup {None}]
        /\ UNCHANGED <<calls, cutOff, closureOf, proposals, works, closing, interrupts>>
        /\ closing' \subseteq 1..Len(proposals)
    BY <1>10 DEF Wait, RequireCurrent, IInv, TypeOK
  <2>2. "waiting" \in Status /\ "decision" \in Pending
    BY DEF Status, Pending
  <2> QED BY <2>1, <2>2, KeepStep
<1>11. ASSUME NEW c \in Clients, Reopen(c) PROVE IInv'
  BY <1>11, ReopenStep
<1>12. ASSUME ReopenRequired PROVE IInv'
  <2>1. /\ Record(Keep(state, "reopen-required", None))
        /\ seen' \in [Clients -> Nat \cup {None}]
        /\ UNCHANGED <<calls, cutOff, closureOf, proposals, works, closing, interrupts>>
        /\ closing' \subseteq 1..Len(proposals)
    BY <1>12 DEF ReopenRequired, IInv, TypeOK
  <2>2. "reopen-required" \in Status /\ None \in Pending
    BY DEF Status, Pending
  <2> QED BY <2>1, <2>2, KeepStep
<1>13. ASSUME Crash PROVE IInv'
  <2>1. Die /\ UNCHANGED <<state, closureOf, proposals, works, closing>>
    BY <1>13 DEF Crash
  <2>2. /\ closureOf' \in [ClosureIds -> ClosureContent \cup {None}]
        /\ proposals' \in Seq(WorkProposal) /\ Len(proposals) <= Len(proposals')
        /\ ProposalWithinClosure'
    BY <2>1 DEF IInv, TypeOK, ProposalWithinClosure
  <2> QED BY <2>1, <2>2, DieStep
<1>14. ASSUME NEW p \in 1..MaxProposals, MaterializeWork(p) PROVE IInv'
  <2>1. /\ works' = works \cup {p} /\ p \in 1..Len(proposals)
        /\ UNCHANGED <<state, seen, calls, cutOff, closureOf, proposals, closing, interrupts>>
    BY <1>14 DEF MaterializeWork
  <2> QED BY <2>1 DEF IInv, TypeOK, CallShape, CallAge, CallsApart, RefsResolve,
        ProposalsBehind, HandoffIsExclusive, OneProposalPerClosure,
        ProposalWithinClosure, HandedOffClosedByRevision
<1>15. ASSUME NEW w \in calls, CallCutOff(w) PROVE IInv'
  <2>1. /\ calls' \subseteq calls /\ cutOff' = cutOff \cup {w}
        /\ UNCHANGED <<state, seen, closureOf, proposals, works, closing, interrupts>>
    BY <1>15 DEF CallCutOff
  <2>2. TypeOK'
    BY <2>1 DEF IInv, TypeOK
  <2>3. CallShape' /\ CallAge' /\ CallsApart'
    BY <2>1 DEF IInv, CallShape, CallAge, CallsApart
  <2> QED BY <2>1, <2>2, <2>3 DEF IInv, RefsResolve, ProposalsBehind,
        HandoffIsExclusive, OneProposalPerClosure, ProposalWithinClosure,
        HandedOffClosedByRevision
<1> QED
  BY <1>0, <1>1, <1>2, <1>3, <1>4, <1>5, <1>6, <1>7, <1>8, <1>9, <1>10, <1>11,
     <1>12, <1>13, <1>14, <1>15 DEF Next

-----------------------------------------------------------------------------
(* The theorems.                                                           *)

\* The inductive invariant holds of every behaviour of the controller.
THEOREM ControllerInvariant == Spec => []IInv
<1>1. Init => IInv
  BY InitOK
<1>2. IInv /\ [Next]_vars => IInv'
  BY NextOK
<1> QED BY <1>1, <1>2, PTL DEF Spec

\* Type correctness of the controller's snapshots, calls and records.
THEOREM TypeCorrect == Spec => []TypeOK
<1>1. IInv => TypeOK
  BY DEF IInv
<1> QED BY <1>1, ControllerInvariant, PTL

\* Open cognition and a handed-off proposal exclude each other, and the
\* proposal in hand comes from the closure in hand (the guards of
\* _require_current and the late write of _invoke_capability).
THEOREM HandoffExclusive == Spec => []HandoffIsExclusive
<1>1. IInv => HandoffIsExclusive
  BY DEF IInv
<1> QED BY <1>1, ControllerInvariant, PTL

\* Without a crash one closure yields one proposal (_propose_work).
THEOREM OneProposal == Spec => []OneProposalPerClosure
<1>1. IInv => OneProposalPerClosure
  BY DEF IInv
<1> QED BY <1>1, ControllerInvariant, PTL

\* Proposals stay inside the closure they cite, although closure ids can be
\* reused and forming can be cut off (get_closure, _propose_work).
THEOREM WithinClosure == Spec => []ProposalWithinClosure
<1>1. IInv => ProposalWithinClosure
  BY DEF IInv
<1> QED BY <1>1, ControllerInvariant, PTL

\* Handed-off work is closed only through a closing revision of a Work that
\* descends from it (_assess_revision).
THEOREM ClosedByRevision == Spec => []HandedOffClosedByRevision
<1>1. IInv => HandedOffClosedByRevision
  BY DEF IInv
<1> QED BY <1>1, ControllerInvariant, PTL

\* No step other than a reopen takes a closure away, a late capability result
\* included (_invoke_capability's resumed snapshot).
THEOREM ClosureKept == Spec => ClosureDroppedOnlyByReopen
<1> DEFINE A == state.closure # None /\ state'.closure # state.closure
                => /\ "reopen" \in Allowed(state)
                   /\ state'.status = "open"
                   /\ state'.closure = None /\ state'.proposal = None
<1>1. IInv /\ [Next]_vars => [A]_vars
  <2> SUFFICES ASSUME IInv, Next PROVE A
    BY DEF vars
  <2>0. TypeOK
    BY DEF IInv
  <2>1. ASSUME state' = state PROVE A
    BY <2>1
  <2>2. ASSUME NEW st \in Status, NEW pe \in Pending, Record(Keep(state, st, pe)) PROVE A
    BY <2>0, <2>2, KeepShape
  <2>3. ASSUME NEW w \in calls, ResultArrives(w) PROVE A
    BY <2>3, LateResult
  <2>4. ASSUME NEW c \in Clients, NEW i \in ClosureIds, NEW k \in ClosureContent,
               FormClosure(c, i, k)
        PROVE  A
    BY <2>4 DEF FormClosure, RequireCurrent, Allowed
  <2>5. ASSUME NEW c \in Clients, NEW caps \in SUBSET Capabilities, NEW e \in Effects,
               ProposeWork(c, caps, e)
        PROVE  A
    <3> DEFINE id == Len(proposals) + 1
    <3>1. Record(Transition(state, "waiting", "proposal", state.closure, id)) /\ id \in Nat
      BY <2>0, <2>5 DEF ProposeWork, TypeOK
    <3>2. "waiting" \in Status /\ "proposal" \in Pending /\ state.closure \in ClosureIds \cup {None}
      BY <2>0 DEF Status, Pending, TypeOK, ControllerState
    <3> HIDE DEF id
    <3>3. state'.closure = state.closure
      BY <2>0, <3>1, <3>2, StepShape
    <3> QED BY <3>3
  <2>6. ASSUME NEW c \in Clients, Reopen(c) PROVE A
    <3>1. /\ "reopen" \in Allowed(state)
          /\ Record(Transition(state, "open", None, None, None))
      BY <2>6 DEF Reopen, RequireCurrent
    <3> QED BY <2>0, <3>1, ReopenShape
  <2>7. ASSUME NEW c \in Clients, NEW d \in RevisionDisposition, AssessRevision(c, d) PROVE A
    <3>1. AfterRevision(d)[1] \in Status /\ AfterRevision(d)[2] \in Pending
      BY DEF AfterRevision, Status, Pending
    <3> QED BY <2>2, <2>7, <3>1 DEF AssessRevision
  <2>8. ASSUME NEW c \in Clients, InvokeCapability(c) \/ Close(c) \/ Wait(c) PROVE A
    BY <2>2, <2>8 DEF InvokeCapability, Close, Wait, Status, Pending
  <2>9. ASSUME ReopenRequired PROVE A
    BY <2>2, <2>9 DEF ReopenRequired, Status, Pending
  <2>10. ASSUME NEW c \in Clients, Read(c) PROVE A
    BY <2>1, <2>10 DEF Read
  <2>11. ASSUME NEW c \in Clients, NEW i \in ClosureIds, NEW k \in ClosureContent,
                FormInterrupted(c, i, k)
         PROVE  A
    BY <2>1, <2>11 DEF FormInterrupted
  <2>12. ASSUME NEW c \in Clients, NEW caps \in SUBSET Capabilities, NEW e \in Effects,
                ProposeInterrupted(c, caps, e)
         PROVE  A
    BY <2>1, <2>12 DEF ProposeInterrupted
  <2>13. ASSUME Crash PROVE A
    BY <2>1, <2>13 DEF Crash
  <2>14. ASSUME NEW p \in 1..MaxProposals, MaterializeWork(p) PROVE A
    BY <2>1, <2>14 DEF MaterializeWork
  <2>15. ASSUME NEW w \in calls, CallCutOff(w) PROVE A
    BY <2>1, <2>15 DEF CallCutOff
  <2> HIDE DEF A
  <2> QED
    BY <2>3, <2>4, <2>5, <2>6, <2>7, <2>8, <2>9, <2>10, <2>11, <2>12, <2>13, <2>14,
       <2>15 DEF Next
<1> QED BY <1>1, ControllerInvariant, PTL DEF Spec, ClosureDroppedOnlyByReopen

-----------------------------------------------------------------------------
(* What a version names.                                                   *)

\* A snapshot without references, as a reopen, a reopen-required signal during
\* a call, and the result of a call leave it.
Bare(s) ==
    /\ s.status \in {"open", "reopen-required"}
    /\ s.pending = None /\ s.closure = None /\ s.proposal = None

\* The snapshots a late result can still replace: one version after a call in
\* flight the controller is bare.
LateWins ==
    \A w \in calls : w.version + 1 = state.version => Bare(state)

\* A transition of the current snapshot starting no call keeps LateWins when it
\* leaves a snapshot that a call holds bare.
LEMMA LateKept ==
    ASSUME TypeOK, CallAge, state' \in ControllerState,
           state'.version = state.version + 1, calls' = calls,
           state \in calls => Bare(state')
    PROVE  LateWins'
<1>1. ASSUME NEW w \in calls, w.version + 1 = state'.version PROVE Bare(state')
  <2>1. w.version \in Nat /\ state.version \in Nat
    BY DEF TypeOK, ControllerState
  <2>2. w.version = state.version
    BY <1>1, <2>1
  <2> QED BY <2>2 DEF CallAge
<1>2. Bare(state)' <=> Bare(state')
  BY DEF Bare
<1> QED BY <1>1, <1>2 DEF LateWins

\* A step that leaves the snapshot alone and starts no call keeps LateWins.
LEMMA LateIdle ==
    ASSUME LateWins, state' = state, calls' \subseteq calls
    PROVE  LateWins'
BY DEF LateWins, Bare

\* A decision that a held snapshot does not admit leaves it unheld.
LEMMA DecisionUnheld ==
    ASSUME CallShape, NEW kind, kind \in Allowed(state), kind # "reopen"
    PROVE  state \notin calls
BY HeldAdmitsReopen

\* The result of a call loses, or leaves the controller bare.
LEMMA LateResultBare ==
    ASSUME IInv, NEW w \in calls, ResultArrives(w)
    PROVE  \/ state' = state
           \/ /\ Bare(state') /\ state'.status = "open"
              /\ state' \in ControllerState
              /\ state'.version = w.version + 1
              /\ w.version = state.version \/ w.version + 1 = state.version
<1>1. /\ w \in ControllerState /\ state \in ControllerState
      /\ w.version <= state.version
      /\ w.closure = None /\ w.proposal = None
  BY DEF IInv, TypeOK, CallAge, CallShape
<1>2. Resumed(w) = Transition(w, "open", None, None, None)
  BY <1>1 DEF Resumed, Keep
<1> DEFINE next == Transition(w, "open", None, None, None)
<1>3. /\ next \in ControllerState /\ next.version = w.version + 1
      /\ next.status = "open" /\ next.pending = None
      /\ next.closure = None /\ next.proposal = None
  <2>1. "open" \in Status /\ None \in Pending
    BY DEF Status, Pending
  <2>2. w.version + 1 \in Nat
    BY <1>1 DEF ControllerState
  <2> QED BY <2>1, <2>2 DEF Transition, ControllerState
<1>4. state' = IF next.version >= state.version THEN next ELSE state
  BY <1>2 DEF ResultArrives, Record
<1> HIDE DEF next
<1>5. CASE next.version >= state.version
  <2>1. w.version = state.version \/ w.version + 1 = state.version
    BY <1>1, <1>3, <1>5 DEF ControllerState
  <2> QED BY <1>3, <1>4, <1>5, <2>1 DEF Bare
<1>6. CASE ~(next.version >= state.version)
  BY <1>4, <1>6
<1> QED BY <1>5, <1>6

\* LateWins is kept by every step, given the invariant.
LEMMA LateNext == IInv /\ LateWins /\ [Next]_vars => LateWins'
<1> SUFFICES ASSUME IInv, LateWins, [Next]_vars PROVE LateWins'
  OBVIOUS
<1>0. TypeOK /\ CallShape /\ CallAge
  BY DEF IInv
<1>1. ASSUME state' = state, calls' \subseteq calls PROVE LateWins'
  BY <1>1, LateIdle
<1>2. ASSUME NEW st \in Status, NEW pe \in Pending, Record(Keep(state, st, pe)),
             calls' = calls, state \notin calls
      PROVE  LateWins'
  BY <1>0, <1>2, KeepShape, LateKept
<1>3. ASSUME NEW c \in Clients, InvokeCapability(c) PROVE LateWins'
  <2> DEFINE waiting == Keep(state, "waiting", "request")
  <2>1. state' \in ControllerState /\ state'.version = state.version + 1
    BY <1>0, <1>3, KeepShape DEF InvokeCapability, Status, Pending
  <2>2. waiting.version = state.version + 1
    BY DEF Keep, Transition
  <2>3. state' = waiting /\ calls' = calls \cup {waiting} /\ state.status = "open"
    BY <1>0, <1>3, <2>2 DEF InvokeCapability, Record, RequireCurrent, Allowed, TypeOK, ControllerState
  <2> HIDE DEF waiting
  <2>4. ASSUME NEW w \in calls' PROVE w.version + 1 # state'.version
    <3>1. CASE w \in calls
      <4>1. w # state /\ w.version <= state.version /\ w.version # state.version
        BY <1>0, <2>3, <3>1 DEF CallShape, CallAge
      <4> QED BY <1>0, <2>1, <3>1, <4>1 DEF TypeOK, ControllerState
    <3>2. CASE w = state'
      BY <2>1, <3>2 DEF ControllerState
    <3> QED BY <2>3, <3>1, <3>2
  <2> QED BY <2>4 DEF LateWins
<1>4. ASSUME NEW w \in calls, ResultArrives(w) PROVE LateWins'
  <2>1. calls' \subseteq calls
    BY <1>4 DEF ResultArrives
  <2>2. CASE state' = state
    BY <1>1, <2>1, <2>2
  <2>3. CASE Bare(state')
    BY <2>3 DEF LateWins, Bare
  <2> QED BY <1>4, <2>2, <2>3, LateResultBare
<1>5. ASSUME NEW c \in Clients, NEW i \in ClosureIds, NEW k \in ClosureContent,
             FormClosure(c, i, k)
      PROVE  LateWins'
  <2>1. /\ Record(Transition(state, "open", None, i, state.proposal))
        /\ calls' = calls /\ state \notin calls
    BY <1>0, <1>5, DecisionUnheld DEF FormClosure, RequireCurrent
  <2>2. "open" \in Status /\ None \in Pending /\ state.proposal \in Nat \cup {None}
    BY <1>0 DEF Status, Pending, TypeOK, ControllerState
  <2>3. state' \in ControllerState /\ state'.version = state.version + 1
    BY <1>0, <2>1, <2>2, StepShape
  <2> QED BY <1>0, <2>1, <2>3, LateKept
<1>6. ASSUME NEW c \in Clients, NEW caps \in SUBSET Capabilities, NEW e \in Effects,
             ProposeWork(c, caps, e)
      PROVE  LateWins'
  <2> DEFINE id == Len(proposals) + 1
  <2>1. /\ Record(Transition(state, "waiting", "proposal", state.closure, id))
        /\ calls' = calls /\ state \notin calls
    BY <1>0, <1>6, DecisionUnheld DEF ProposeWork, RequireCurrent
  <2>2. /\ "waiting" \in Status /\ "proposal" \in Pending /\ id \in Nat
        /\ state.closure \in ClosureIds \cup {None}
    BY <1>0 DEF Status, Pending, TypeOK, ControllerState
  <2> HIDE DEF id
  <2>3. state' \in ControllerState /\ state'.version = state.version + 1
    BY <1>0, <2>1, <2>2, StepShape
  <2> QED BY <1>0, <2>1, <2>3, LateKept
<1>7. ASSUME NEW c \in Clients, NEW d \in RevisionDisposition, AssessRevision(c, d)
      PROVE  LateWins'
  <2>1. AfterRevision(d)[1] \in Status /\ AfterRevision(d)[2] \in Pending
    BY DEF AfterRevision, Status, Pending
  <2>2. /\ Record(Keep(state, AfterRevision(d)[1], AfterRevision(d)[2]))
        /\ calls' = calls /\ "assess-revision" \in Allowed(state)
    BY <1>7 DEF AssessRevision, RequireCurrent
  <2>3. state \notin calls
    BY <1>0, <2>2, DecisionUnheld
  <2> QED BY <1>2, <2>1, <2>2, <2>3
<1>8. ASSUME NEW c \in Clients, Close(c) PROVE LateWins'
  <2>1. /\ Record(Keep(state, "closed", None)) /\ calls' = calls
        /\ "close" \in Allowed(state)
    BY <1>8 DEF Close, RequireCurrent
  <2>2. state \notin calls
    BY <1>0, <2>1, DecisionUnheld
  <2> QED BY <1>2, <2>1, <2>2 DEF Status, Pending
<1>9. ASSUME NEW c \in Clients, Wait(c) PROVE LateWins'
  <2>1. /\ Record(Keep(state, "waiting", "decision")) /\ calls' = calls
        /\ "wait" \in Allowed(state)
    BY <1>9 DEF Wait, RequireCurrent
  <2>2. state \notin calls
    BY <1>0, <2>1, DecisionUnheld
  <2> QED BY <1>2, <2>1, <2>2 DEF Status, Pending
<1>10. ASSUME NEW c \in Clients, Reopen(c) PROVE LateWins'
  <2>1. Record(Transition(state, "open", None, None, None)) /\ calls' = calls
    BY <1>10 DEF Reopen
  <2>3. /\ state' \in ControllerState /\ state'.version = state.version + 1
        /\ state'.status = "open" /\ state'.pending = None
        /\ state'.closure = None /\ state'.proposal = None
    BY <1>0, <2>1, ReopenShape
  <2> QED BY <1>0, <2>1, <2>3, LateKept DEF Bare
<1>11. ASSUME ReopenRequired PROVE LateWins'
  <2>1. Record(Keep(state, "reopen-required", None)) /\ calls' = calls
    BY <1>11 DEF ReopenRequired
  <2>2. "reopen-required" \in Status /\ None \in Pending
    BY DEF Status, Pending
  <2>3. /\ state' \in ControllerState /\ state'.version = state.version + 1
        /\ state'.status = "reopen-required" /\ state'.pending = None
        /\ state'.closure = state.closure /\ state'.proposal = state.proposal
    BY <1>0, <2>1, <2>2, KeepShape
  <2>4. state \in calls => Bare(state')
    BY <1>0, <2>3 DEF CallShape, Bare
  <2> QED BY <1>0, <2>1, <2>3, <2>4, LateKept
<1>12. ASSUME NEW c \in Clients, Read(c) PROVE LateWins'
  BY <1>1, <1>12 DEF Read
<1>13. ASSUME NEW c \in Clients, NEW i \in ClosureIds, NEW k \in ClosureContent,
              FormInterrupted(c, i, k)
       PROVE  LateWins'
  BY <1>1, <1>13 DEF FormInterrupted, Die
<1>14. ASSUME NEW c \in Clients, NEW caps \in SUBSET Capabilities, NEW e \in Effects,
              ProposeInterrupted(c, caps, e)
       PROVE  LateWins'
  BY <1>1, <1>14 DEF ProposeInterrupted, Die
<1>15. ASSUME Crash PROVE LateWins'
  BY <1>1, <1>15 DEF Crash, Die
<1>16. ASSUME NEW p \in 1..MaxProposals, MaterializeWork(p) PROVE LateWins'
  BY <1>1, <1>16 DEF MaterializeWork
<1>18. ASSUME NEW w \in calls, CallCutOff(w) PROVE LateWins'
  BY <1>1, <1>18 DEF CallCutOff
<1>17. ASSUME UNCHANGED vars PROVE LateWins'
  BY <1>1, <1>17 DEF vars
<1> QED
  BY <1>3, <1>4, <1>5, <1>6, <1>7, <1>8, <1>9, <1>10, <1>11, <1>12, <1>13, <1>14,
     <1>15, <1>16, <1>17, <1>18 DEF Next

\* Between two reads that return the same version the snapshot is the same,
\* except that the result of a call replaces a reopen-required signal raised
\* during it (apply's version check, _invoke_capability, reopen_required).
THEOREM VersionStable == Spec => VersionNamesSnapshot
<1> DEFINE A == state' # state =>
                  \/ state'.version = state.version + 1
                  \/ /\ state'.version = state.version
                     /\ state.status = "reopen-required" /\ state'.status = "open"
                     /\ \A s \in {state, state'} :
                            s.pending = None /\ s.closure = None /\ s.proposal = None
<1>1. IInv /\ LateWins /\ [Next]_vars => [A]_vars
  <2> SUFFICES ASSUME IInv, LateWins, Next PROVE A
    BY DEF vars
  <2>0. TypeOK
    BY DEF IInv
  <2>1. ASSUME state' = state PROVE A
    BY <2>1
  <2>2. ASSUME NEW st \in Status, NEW pe \in Pending, Record(Keep(state, st, pe)) PROVE A
    BY <2>0, <2>2, KeepShape
  <2>3. ASSUME NEW w \in calls, ResultArrives(w) PROVE A
    <3>1. CASE state' = state
      BY <2>1, <3>1
    <3>2. CASE /\ Bare(state') /\ state'.status = "open"
               /\ state' \in ControllerState
               /\ state'.version = w.version + 1
               /\ w.version = state.version \/ w.version + 1 = state.version
      <4>1. CASE w.version = state.version
        BY <3>2, <4>1
      <4>2. CASE w.version + 1 = state.version
        <5>1. Bare(state) /\ state'.version = state.version
          BY <3>2, <4>2 DEF LateWins
        <5>2. CASE state.status = "open"
          <6>1. state \in ControllerState
            BY <2>0 DEF TypeOK
          <6>2. state = state'
            BY <3>2, <5>1, <5>2, <6>1 DEF Bare, ControllerState
          <6> QED BY <2>1, <6>2
        <5>3. CASE state.status = "reopen-required"
          BY <3>2, <5>1, <5>3 DEF Bare
        <5> QED BY <5>1, <5>2, <5>3 DEF Bare
      <4> QED BY <3>2, <4>1, <4>2
    <3> QED BY <2>3, <3>1, <3>2, LateResultBare
  <2>4. ASSUME NEW c \in Clients, NEW i \in ClosureIds, NEW k \in ClosureContent,
               FormClosure(c, i, k)
        PROVE  A
    <3>1. /\ Record(Transition(state, "open", None, i, state.proposal))
          /\ "open" \in Status /\ None \in Pending /\ state.proposal \in Nat \cup {None}
      BY <2>0, <2>4 DEF FormClosure, Status, Pending, TypeOK, ControllerState
    <3>2. state'.version = state.version + 1
      BY <2>0, <3>1, StepShape
    <3> QED BY <3>2
  <2>5. ASSUME NEW c \in Clients, NEW caps \in SUBSET Capabilities, NEW e \in Effects,
               ProposeWork(c, caps, e)
        PROVE  A
    <3> DEFINE id == Len(proposals) + 1
    <3>1. Record(Transition(state, "waiting", "proposal", state.closure, id)) /\ id \in Nat
      BY <2>0, <2>5 DEF ProposeWork, TypeOK
    <3>2. "waiting" \in Status /\ "proposal" \in Pending /\ state.closure \in ClosureIds \cup {None}
      BY <2>0 DEF Status, Pending, TypeOK, ControllerState
    <3> HIDE DEF id
    <3>3. state'.version = state.version + 1
      BY <2>0, <3>1, <3>2, StepShape
    <3> QED BY <3>3
  <2>6. ASSUME NEW c \in Clients, Reopen(c) PROVE A
    <3>1. Record(Transition(state, "open", None, None, None))
      BY <2>6 DEF Reopen
    <3>2. state'.version = state.version + 1
      BY <2>0, <3>1, ReopenShape
    <3> QED BY <3>2
  <2>7. ASSUME NEW c \in Clients, NEW d \in RevisionDisposition, AssessRevision(c, d) PROVE A
    <3>1. AfterRevision(d)[1] \in Status /\ AfterRevision(d)[2] \in Pending
      BY DEF AfterRevision, Status, Pending
    <3> QED BY <2>2, <2>7, <3>1 DEF AssessRevision
  <2>8. ASSUME NEW c \in Clients, InvokeCapability(c) \/ Close(c) \/ Wait(c) PROVE A
    BY <2>2, <2>8 DEF InvokeCapability, Close, Wait, Status, Pending
  <2>9. ASSUME ReopenRequired PROVE A
    BY <2>2, <2>9 DEF ReopenRequired, Status, Pending
  <2>10. ASSUME NEW c \in Clients, Read(c) PROVE A
    BY <2>1, <2>10 DEF Read
  <2>11. ASSUME NEW c \in Clients, NEW i \in ClosureIds, NEW k \in ClosureContent,
                FormInterrupted(c, i, k)
         PROVE  A
    BY <2>1, <2>11 DEF FormInterrupted
  <2>12. ASSUME NEW c \in Clients, NEW caps \in SUBSET Capabilities, NEW e \in Effects,
                ProposeInterrupted(c, caps, e)
         PROVE  A
    BY <2>1, <2>12 DEF ProposeInterrupted
  <2>13. ASSUME Crash PROVE A
    BY <2>1, <2>13 DEF Crash
  <2>14. ASSUME NEW p \in 1..MaxProposals, MaterializeWork(p) PROVE A
    BY <2>1, <2>14 DEF MaterializeWork
  <2>15. ASSUME NEW w \in calls, CallCutOff(w) PROVE A
    BY <2>1, <2>15 DEF CallCutOff
  <2> HIDE DEF A
  <2> QED
    BY <2>3, <2>4, <2>5, <2>6, <2>7, <2>8, <2>9, <2>10, <2>11, <2>12, <2>13, <2>14,
       <2>15 DEF Next
<1>2. Init => LateWins
  BY DEF Init, LateWins
<1> HIDE DEF A
<1>3. Spec => []LateWins
  BY <1>2, LateNext, ControllerInvariant, PTL DEF Spec
<1>4. VersionNamesSnapshot <=> [][A]_vars
  BY DEF VersionNamesSnapshot, A
<1> QED BY <1>1, <1>3, <1>4, ControllerInvariant, PTL DEF Spec

-----------------------------------------------------------------------------
(* Who resolves a pending request.                                         *)

\* Whenever the controller waits for a capability request, the continuation of
\* _invoke_capability that resumes this very snapshot is still to run, unless
\* that call was cut off by a cancellation, an error or a crash.
THEOREM RequestHasItsCall == Spec => []RequestIsHeld
<1>1. IInv /\ RequestIsHeld /\ [Next]_vars => RequestIsHeld'
  <2> SUFFICES ASSUME IInv, RequestIsHeld, [Next]_vars PROVE RequestIsHeld'
    OBVIOUS
  <2>0. TypeOK
    BY DEF IInv
  <2>1. ASSUME state' = state, calls \cup cutOff \subseteq calls' \cup cutOff' PROVE RequestIsHeld'
    BY <2>1 DEF RequestIsHeld
  <2>2. ASSUME state'.pending # "request" PROVE RequestIsHeld'
    BY <2>2 DEF RequestIsHeld
  <2>3. ASSUME Die, state' = state PROVE RequestIsHeld'
    BY <2>1, <2>3 DEF Die
  <2>4. ASSUME NEW st \in Status, NEW pe \in Pending, Record(Keep(state, st, pe)), pe # "request"
        PROVE  RequestIsHeld'
    BY <2>0, <2>2, <2>4, KeepShape
  <2>5. ASSUME NEW c \in Clients, InvokeCapability(c) PROVE RequestIsHeld'
    <3> DEFINE waiting == Keep(state, "waiting", "request")
    <3>1. waiting.version = state.version + 1
      BY DEF Keep, Transition
    <3>2. state' = waiting /\ calls' = calls \cup {waiting}
      BY <2>0, <2>5, <3>1 DEF InvokeCapability, Record, TypeOK, ControllerState
    <3> QED BY <3>2 DEF RequestIsHeld
  <2>6. ASSUME NEW w \in calls, ResultArrives(w) PROVE RequestIsHeld'
    <3>1. CASE state' = state /\ w # state
      BY <2>6, <3>1 DEF ResultArrives, RequestIsHeld
    <3>2. CASE state' = state /\ w = state
      <4>1. w.version \in Nat /\ Resumed(w).version = w.version + 1
        BY <2>0, <3>2 DEF TypeOK, ControllerState, Resumed, Keep, Transition
      <4>2. state' = Resumed(w)
        BY <2>6, <3>2, <4>1 DEF ResultArrives, Record
      <4>3. Resumed(w).version = w.version
        BY <3>2, <4>2
      <4> QED BY <4>1, <4>3
    <3>3. CASE Bare(state')
      BY <2>2, <3>3, ConstantsAssumption DEF Bare, RequestIsHeld
    <3> QED BY <2>6, <3>1, <3>2, <3>3, LateResultBare
  <2>7. ASSUME NEW c \in Clients, NEW i \in ClosureIds, NEW k \in ClosureContent,
               FormClosure(c, i, k)
        PROVE  RequestIsHeld'
    <3>1. /\ Record(Transition(state, "open", None, i, state.proposal))
          /\ "open" \in Status /\ None \in Pending /\ state.proposal \in Nat \cup {None}
      BY <2>0, <2>7 DEF FormClosure, Status, Pending, TypeOK, ControllerState
    <3>2. state'.pending = None
      BY <2>0, <3>1, StepShape
    <3> QED BY <2>2, <3>2, ConstantsAssumption
  <2>8. ASSUME NEW c \in Clients, NEW caps \in SUBSET Capabilities, NEW e \in Effects,
               ProposeWork(c, caps, e)
        PROVE  RequestIsHeld'
    <3> DEFINE id == Len(proposals) + 1
    <3>1. Record(Transition(state, "waiting", "proposal", state.closure, id)) /\ id \in Nat
      BY <2>0, <2>8 DEF ProposeWork, TypeOK
    <3>2. "waiting" \in Status /\ "proposal" \in Pending /\ state.closure \in ClosureIds \cup {None}
      BY <2>0 DEF Status, Pending, TypeOK, ControllerState
    <3> HIDE DEF id
    <3>3. state'.pending = "proposal"
      BY <2>0, <3>1, <3>2, StepShape
    <3> QED BY <2>2, <3>3
  <2>9. ASSUME NEW c \in Clients, NEW d \in RevisionDisposition, AssessRevision(c, d)
        PROVE  RequestIsHeld'
    <3>1. /\ AfterRevision(d)[1] \in Status /\ AfterRevision(d)[2] \in Pending
          /\ AfterRevision(d)[2] # "request"
      BY ConstantsAssumption DEF AfterRevision, Status, Pending
    <3> QED BY <2>4, <2>9, <3>1 DEF AssessRevision
  <2>10. ASSUME NEW c \in Clients, Close(c) \/ Wait(c) PROVE RequestIsHeld'
    BY <2>4, <2>10, ConstantsAssumption DEF Close, Wait, Status, Pending
  <2>11. ASSUME NEW c \in Clients, Reopen(c) PROVE RequestIsHeld'
    <3>1. state'.pending = None
      BY <2>0, <2>11, ReopenShape DEF Reopen
    <3> QED BY <2>2, <3>1, ConstantsAssumption
  <2>12. ASSUME ReopenRequired PROVE RequestIsHeld'
    BY <2>4, <2>12, ConstantsAssumption DEF ReopenRequired, Status, Pending
  <2>13. ASSUME NEW c \in Clients, Read(c) PROVE RequestIsHeld'
    BY <2>1, <2>13 DEF Read
  <2>14. ASSUME NEW c \in Clients, NEW i \in ClosureIds, NEW k \in ClosureContent,
                FormInterrupted(c, i, k)
         PROVE  RequestIsHeld'
    BY <2>3, <2>14 DEF FormInterrupted
  <2>15. ASSUME NEW c \in Clients, NEW caps \in SUBSET Capabilities, NEW e \in Effects,
                ProposeInterrupted(c, caps, e)
         PROVE  RequestIsHeld'
    BY <2>3, <2>15 DEF ProposeInterrupted
  <2>16. ASSUME Crash PROVE RequestIsHeld'
    BY <2>3, <2>16 DEF Crash
  <2>17. ASSUME NEW p \in 1..MaxProposals, MaterializeWork(p) PROVE RequestIsHeld'
    BY <2>1, <2>17 DEF MaterializeWork
  <2>19. ASSUME NEW w \in calls, CallCutOff(w) PROVE RequestIsHeld'
    BY <2>1, <2>19 DEF CallCutOff
  <2>18. ASSUME UNCHANGED vars PROVE RequestIsHeld'
    BY <2>1, <2>18 DEF vars
  <2> QED
    BY <2>5, <2>6, <2>7, <2>8, <2>9, <2>10, <2>11, <2>12, <2>13, <2>14, <2>15, <2>16,
       <2>17, <2>18, <2>19 DEF Next
<1>2. Init => RequestIsHeld
  BY ConstantsAssumption DEF Init, RequestIsHeld
<1> QED BY <1>1, <1>2, ControllerInvariant, PTL DEF Spec

=============================================================================
