-------------------------- MODULE MCWebhookDelivery --------------------------
(* Small instances of WebhookDelivery for TLC.                               *)
EXTENDS WebhookDelivery

OneEndpoint  == {1}
TwoEndpoints == {1, 2}
=============================================================================
