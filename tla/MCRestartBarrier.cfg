CONSTANTS
  Restarters = {r1, r2}
  Callers = {c1, c2}
  Background = {b1}
  Sessions = {s1}
  NoSession = none
SPECIFICATION BarrierSpec
SYMMETRY BarrierSymmetry
INVARIANTS BarrierTypeOK NothingTorn OneAttempt AbortRestores HandedOff NoLostWakeup
CHECK_DEADLOCK FALSE
