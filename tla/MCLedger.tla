------------------------------ MODULE MCLedger ------------------------------
(* Instances of Ledger for TLC. *)
EXTENDS Ledger

CONSTANTS m1, a1, p1, key1, noName, w1, w2, i1, d1, i2, n1, p2

MCUnnamed == [version |-> p1, name |-> noName]
\* Everything approved from the environment, policy rows unnamed.
MCSeedRows == [models |-> {m1}, agents |-> {a1},
               policies |-> [r \in PolicyRows |->
                               IF r = MCUnnamed THEN "active" ELSE "none"]]

Symmetry == Permutations(Workers) \cup Permutations(Instances)

\* A plain decision, one the verifier refuses and one the engine refuses.
MCDeterminism == {[mode |-> STRICT, seed |-> FALSE, calls |-> FALSE],
                  [mode |-> STRICT, seed |-> TRUE, calls |-> FALSE],
                  [mode |-> SEEDED, seed |-> FALSE, calls |-> FALSE]}
=============================================================================
