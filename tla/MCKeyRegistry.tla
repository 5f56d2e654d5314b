---------------------------- MODULE MCKeyRegistry ---------------------------
(* Instances of KeyRegistry for TLC. *)
EXTENDS KeyRegistry, TLC
Symmetry == Permutations(Workers) \cup Permutations(Keys)
=============================================================================
