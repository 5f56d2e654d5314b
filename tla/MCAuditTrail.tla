---------------------------- MODULE MCAuditTrail ----------------------------
(* Instances of AuditTrail for TLC. *)
EXTENDS AuditTrail
Symmetry == Permutations(AnchorWorkers) \cup Permutations(Instances)
            \cup Permutations(Environments)
=============================================================================
