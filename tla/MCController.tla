----------------------------- MODULE MCController -----------------------------
(* Controller for TLC: two clients race, two closure identities can be       *)
(* reused, and the version bound leaves room for a late result to meet every *)
(* later phase (reopened, closure formed, handed off, revised).              *)
EXTENDS Controller

MCEffects == {"read-only", "external-effect"}
=============================================================================
