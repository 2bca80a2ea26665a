-------------------------------- MODULE Lease --------------------------------
(***************************************************************************)
(* The lease on one run (stores/sqlite.py acquire_lease, renew_lease,      *)
(* release_lease) and the fencing check of core/boundary_fencing.py.       *)
(*                                                                         *)
(* The runtime_leases row is authoritative: get_run overlays it on the Run *)
(* it returns, and release keeps the row with its generation and no owner. *)
(* Time is the number of ticks left before expires_at.                     *)
(***************************************************************************)
EXTENDS Integers

CONSTANTS
    Owners,         \* workers that may hold the lease
    None,
    Ttl,            \* ticks a lease lasts
    MaxGeneration   \* bound: acquisitions

ASSUME LeaseAssumption ==
    /\ None \notin Owners
    /\ Ttl \in Nat \ {0}
    /\ MaxGeneration \in Nat

VARIABLE lease

Lease == [owner : Owners \cup {None}, generation : Nat, left : Nat]

LeaseInit == lease = [owner |-> None, generation |-> 0, left |-> 0]

\* acquire_lease: a different owner may take over only after a known expiry;
\* the owner itself may acquire again, and every acquisition is a generation.
Acquire(o) ==
    /\ lease.generation < MaxGeneration
    /\ lease.owner \in {None, o} \/ lease.left = 0
    /\ lease' = [owner |-> o, generation |-> lease.generation + 1, left |-> Ttl]

\* renew_lease: only the owner, only while the lease is unexpired.
Renew(o) ==
    /\ lease.owner = o
    /\ lease.left > 0
    /\ lease' = [owner |-> o, generation |-> lease.generation, left |-> Ttl]

\* release_lease: by the owner, expired or not.
Release(o) ==
    /\ lease.owner = o
    /\ lease' = [owner |-> None, generation |-> lease.generation, left |-> 0]

\* Time passes.
Tick ==
    /\ lease.left > 0
    /\ lease' = [owner |-> lease.owner, generation |-> lease.generation,
                 left |-> lease.left - 1]

\* Faulty: an unexpired lease is enough, whoever asks and since when.
FencedWhileUnexpired(generation, owner) ==
    lease.owner = None \/ lease.left > 0

\* validate_fencing for a request that carries this generation and owner.
Fenced(generation, owner) ==
    \/ lease.owner = None /\ lease.generation = 0
    \/ /\ generation = lease.generation
       /\ lease.owner # None => owner = lease.owner /\ lease.left > 0

=============================================================================
