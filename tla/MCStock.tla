-------------------------------- MODULE MCStock --------------------------------
(***************************************************************************)
(* A small instance of Stock.                                              *)
(***************************************************************************)
EXTENDS Stock, TLC

Symmetry == Permutations(Work) \cup Permutations(Usage) \cup Permutations(Key) \cup Permutations(Request)
================================================================================
