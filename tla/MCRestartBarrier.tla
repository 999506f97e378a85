-------------------------- MODULE MCRestartBarrier --------------------------
(* RestartBarrier for TLC: the threads of a kind are alike. *)
EXTENDS RestartBarrier, TLC
BarrierSymmetry == Permutations(Restarters) \cup Permutations(Callers)
=============================================================================
