------------------------- MODULE MCHolderSupervisor -------------------------
(* HolderSupervisor for TLC. Liveness is checked in the same run as the      *)
(* invariants, so the pins are not declared symmetric.                       *)
EXTENDS HolderSupervisor
=============================================================================
