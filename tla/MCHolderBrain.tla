--------------------------- MODULE MCHolderBrain ---------------------------
(* HolderBrain with its constants, small enough for TLC. *)
EXTENDS HolderBrain, TLC
Symmetry  == Permutations(Caller)
=============================================================================
