------------------------------ MODULE DurableFact ------------------------------
(***************************************************************************)
(* What every store-owned commit of this runtime promises its callers:     *)
(* under one deterministic identity at most one value is ever recorded,    *)
(* the first one; whoever is told that its commit succeeded is told the    *)
(* recorded value.  A caller whose commit is refused, or that dies, is     *)
(* told nothing and has changed nothing.                                   *)
(***************************************************************************)
CONSTANTS Keys, Values, Callers, Nothing

VARIABLES
    facts,   \* the recorded values, as a set of [key, value]
    told     \* what each caller was last told: a member of facts, or Nothing

Recordable == [key: Keys, value: Values]

Init ==
    /\ facts = {}
    /\ told = [c \in Callers |-> Nothing]

Record(c, f) ==
    /\ \A g \in facts: g.key # f.key
    /\ facts' = facts \cup {f}
    /\ told' = [told EXCEPT ![c] = f]

Replay(c, f) ==
    /\ f \in facts
    /\ told' = [told EXCEPT ![c] = f]
    /\ UNCHANGED facts

Forget(c) ==
    /\ told' = [told EXCEPT ![c] = Nothing]
    /\ UNCHANGED facts

\* The value a successful caller is told is the one it recorded or replayed.
Commit(c) ==
    /\ told'[c] \in Recordable
    /\ Record(c, told'[c]) \/ Replay(c, told'[c])

Next == \E c \in Callers: Commit(c) \/ Forget(c)

Spec == Init /\ [][Next]_<<facts, told>>
================================================================================
