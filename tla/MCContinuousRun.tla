-------------------------- MODULE MCContinuousRun ---------------------------
(* ContinuousRun for TLC. *)
EXTENDS ContinuousRun
=============================================================================
