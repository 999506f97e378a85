--------------------------- MODULE MCHolderTable ---------------------------
(* HolderTable under any client, small enough for TLC. *)
EXTENDS HolderTable, TLC
Symmetry == Permutations(Uid)
=============================================================================
