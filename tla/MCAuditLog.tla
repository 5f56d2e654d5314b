----------------------------- MODULE MCAuditLog -----------------------------
(* Instances of AuditLog for TLC. *)
EXTENDS AuditLog
Symmetry == Permutations(Workers) \cup Permutations(Tenants)
=============================================================================
