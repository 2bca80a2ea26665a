----------------------------- MODULE MCGovernance -----------------------------
(* Governance for TLC: two workers on one scheme, an observed event, rulings   *)
(* that keep the state, suspend the scheme and disqualify it.                  *)
EXTENDS Governance, TLC

Keep == [disposition |-> "no_change", qualification |-> None, activation |-> None,
         facts |-> {"basis_checked"}]

Suspend == [disposition |-> "transition_required", qualification |-> None,
            activation |-> "suspended", facts |-> {"basis_checked"}]

MCSeeds == {[qualification |-> "qualified", activation |-> "active"]}

MCMoves == {[qualification |-> None, activation |-> "suspended"],
            [qualification |-> "candidate", activation |-> "suspended"]}

MCRulings == {Keep, Suspend}

\* Workers, decision ids and application ids differ only by name.
Symmetry == Permutations(Workers) \cup Permutations(Decisions) \cup Permutations(Applications)
===============================================================================
