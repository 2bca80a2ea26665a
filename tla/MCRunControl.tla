----------------------------- MODULE MCRunControl -----------------------------
(* RunControl on a small instance.                                          *)
EXTENDS RunControl, TLC

\* Runs are interchangeable; so are operators.
Symmetry == Permutations(Runs) \cup Permutations(Operators)
=============================================================================
