------------------------------ MODULE MCRecovery ------------------------------
EXTENDS Recovery, TLC
CONSTANTS d1, d2, i1, p1

\* One attempt at a provider whose effects are opaque, one at an idempotent one.
MCSemanticsOf == d1 :> "irreversible-opaque" @@ d2 :> "idempotent"
\* What a bundle says of d2: that something was decided which the policy might
\* have decided here, once there was an observation to cite.
MCBundled ==
    {[basis |-> [dispatch |-> d2, observations |-> {i1}, outcome |-> None,
                 mode |-> "idempotent-retry", sem |-> "idempotent", policy |-> p1],
      action |-> a] : a \in {"retry-idempotent", "reconcile-again"}}
\* Consumers and configured identities differ only by name.
Symmetry == Permutations(Consumers) \cup Permutations(Bindings)
================================================================================
