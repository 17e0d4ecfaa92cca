-------------------------- MODULE MCWebhookDelivery --------------------------
(* WebhookDelivery for TLC: the constants are in the cfg file. *)
EXTENDS WebhookDelivery

==============================================================================
