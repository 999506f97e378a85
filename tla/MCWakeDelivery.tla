--------------------------- MODULE MCWakeDelivery ---------------------------
(* WakeDelivery for TLC. *)
EXTENDS WakeDelivery
=============================================================================
