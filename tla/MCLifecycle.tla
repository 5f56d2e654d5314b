---------------------------- MODULE MCLifecycle -----------------------------
(* Instances of Lifecycle for TLC. *)
EXTENDS Lifecycle

CONSTANTS s1, l1, i1

\* Two protocols that share a state.
MCProtocols ==
    {[initial_state |-> "a", transitions |-> {<<"a", "b">>, <<"b", "a">>}],
     [initial_state |-> "b", transitions |-> {<<"b", "b">>}]}

MCDecisionStates == {<<"b", "a">>}
=============================================================================
