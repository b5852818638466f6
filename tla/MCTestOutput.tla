---------------------------- MODULE MCTestOutput ----------------------------
(* States and items are interchangeable. *)
EXTENDS TestOutput, TLC

Symmetry == Permutations(State) \cup Permutations(Item)
=============================================================================
