---------------------------- MODULE MCRateLimiter ---------------------------
(* Instances of RateLimiter for TLC. *)
EXTENDS RateLimiter
Symmetry == Permutations(Tenants) \cup Permutations(Threads)
=============================================================================
