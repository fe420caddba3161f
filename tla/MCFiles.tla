------------------------------ MODULE MCFiles -------------------------------
(* Instances of Files for TLC. *)
EXTENDS Files

CONSTANTS a, b, c

Symmetry == Permutations(Jobs)
=============================================================================
