------------------------------ MODULE MCFsList ------------------------------
(* Instances of FsList for TLC. *)
EXTENDS FsList

(* All trees of N paths, whatever is a directory or hidden. *)
TreesOf(N) ==
  {t \in [parent : [1..N -> 0..N], dirs : SUBSET (0..N), hidden : SUBSET (1..N)] :
     IsTree(t)}

(* Two directories of different depth, the smallest tree that tells a      *)
(* breadth-first walk from a depth-first one.                              *)
Forked ==
  [parent |-> (1 :> 0 @@ 2 :> 0 @@ 3 :> 1 @@ 4 :> 2 @@ 5 :> 4),
   dirs |-> {0, 1, 2, 4}, hidden |-> {}]

MCTrees == TreesOf(3) \cup {Forked}
=============================================================================
