------------------------ MODULE MCWebhookDelivery ------------------------
(* WebhookDelivery for TLC: the bounds are those of WebhookDelivery.cfg. *)
EXTENDS WebhookDelivery
============================================================================
