-------------------------- MODULE MCWebhookReceiver -------------------------
(* Instances of WebhookReceiver for TLC. *)
EXTENDS WebhookReceiver
Symmetry == Permutations(Handlers) \cup Permutations(Processes)
=============================================================================
