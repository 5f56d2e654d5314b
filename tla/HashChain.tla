----------------------------- MODULE HashChain ------------------------------
(***************************************************************************)
(* What the decision ledger promises its clients, with no workers, no SQL  *)
(* and no failures: one hash chain per instance, extended one signed proof *)
(* at a time.  An appended proof continues the chain as it is at that very *)
(* moment, and nothing else ever happens to a chain.                       *)
(***************************************************************************)
EXTENDS ProofFormat

CONSTANTS Instances, Key

VARIABLE chains

Init == chains = [i \in Instances |-> <<>>]

\* Recording one decision, as a single step.
Record(i, payload) ==
    chains' = [chains EXCEPT ![i] =
        Append(@, BuildProof(payload, LastHash(@), Len(@) + 1, Key))]

Next == \E i \in Instances, payload \in Payload : Record(i, payload)

Spec == Init /\ [][Next]_chains
=============================================================================
