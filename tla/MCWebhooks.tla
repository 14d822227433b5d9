----------------------------- MODULE MCWebhooks -----------------------------
(* One delivery: deliveries share nothing but the webhook's settings. *)
EXTENDS Webhooks

CONSTANT d1
=============================================================================
