CONSTANTS
  Uid = {u1}
  Caller = {c1}
  Observer = observer
  From = {c1, observer}
  Nobody = nobody
  MaxInc = 2
  MaxEpoch = 2
  MaxQueue = 2
  Restorable = {u1}
  Faults = {"timeout", "setup", "build", "arm", "tomb_write", "registry_write", "stop"}
SPECIFICATION BrainSpec
CHECK_DEADLOCK FALSE
INVARIANTS NeverParked LateIsHarmless
