------------------------------ MODULE MCLease -------------------------------
(* Instances of Lease for TLC. *)
EXTENDS Lease

CONSTANTS w1, w2, none
=============================================================================
