-------------------------- MODULE MCWebhookLedger --------------------------
(* Instances of WebhookLedger for TLC. *)
EXTENDS WebhookLedger, TLC

Symmetry == Permutations(Workers) \cup Permutations(Events)
=============================================================================
