------------------------------ MODULE MCBoundary ------------------------------
(* Boundary for TLC: a governed side effect and a governed read, both citing   *)
(* their grants, race on one step, one lease and one provider; or two side     *)
(* effects on one budget.                                                      *)
EXTENDS Boundary, TLC

\* Workers differ only by name.
Symmetry == Permutations(Owners)
=============================================================================
