----------------------------- MODULE MCPgLedger -----------------------------
(* Instances of PgLedger for TLC. *)
EXTENDS PgLedger
OneDeterminism == {[mode |-> STRICT, seed |-> FALSE, calls |-> FALSE]}
Symmetry == Permutations(Clients) \cup Permutations(LockKeys)
            \cup Permutations(Decisions)
=============================================================================
