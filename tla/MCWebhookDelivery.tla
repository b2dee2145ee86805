------------------------- MODULE MCWebhookDelivery -------------------------
(* A small instance of WebhookDelivery for TLC. *)
EXTENDS WebhookDelivery, TLC

CONSTANTS d1, d2, d3, w1, w2

Symmetry == Permutations(Deliveries) \cup Permutations(Workers)
=============================================================================
