----------------------------- MODULE MCWebhooks -----------------------------
(* Webhooks on a small instance: two attempts before a delivery is dead.      *)
EXTENDS Webhooks

MCBackoff == <<1, 2>>

=============================================================================
