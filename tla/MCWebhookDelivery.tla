------------------------- MODULE MCWebhookDelivery -------------------------
(* Two dispatchers, one endpoint, one delivery and a free row.             *)
EXTENDS WebhookDelivery, TLC

=============================================================================
