---------------------------- MODULE MCWebhookLedger ----------------------------
(* Names for TLC's model values. *)
EXTENDS WebhookLedger, TLC

CONSTANTS b1, b2, bad
=============================================================================
