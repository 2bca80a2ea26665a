--------------------------- MODULE MCResponsibility ---------------------------
(* Responsibility for TLC.  Identities of one kind are interchangeable.      *)
EXTENDS Responsibility, FiniteSetsExt, TLC

MCFreshUntil == {0, Never}
MCExpiry == {1, Never}

\* Counting units is adding amounts.
ASSUME UnitsAddUp ==
    \A amount \in [Reservations -> 0..3], S \in SUBSET Reservations :
        Cardinality(UNION {{v} \X (1..amount[v]) : v \in S})
            = MapThenSumSet(LAMBDA v : amount[v], S)

Identities ==
    Permutations(Proposals) \cup Permutations(Reservations) \cup Permutations(Commitments)
=============================================================================
