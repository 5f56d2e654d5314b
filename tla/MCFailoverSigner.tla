-------------------------- MODULE MCFailoverSigner --------------------------
(* Instances of FailoverSigner for TLC. *)
EXTENDS FailoverSigner, TLC
Symmetry == Permutations(Callers) \cup Permutations(Probes)
=============================================================================
