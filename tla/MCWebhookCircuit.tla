--------------------------- MODULE MCWebhookCircuit ---------------------------
(* Small instances of WebhookCircuit for TLC.                               *)
EXTENDS WebhookCircuit, TLC

Symmetry == Permutations(Workers)

=============================================================================
