CONSTANTS
  Uid = {u1, u2}
  Caller = {c1}
  Observer = observer
  From = {c1, observer}
  Nobody = nobody
  MaxInc = 2
  MaxEpoch = 3
  MaxQueue = 4
  Restorable = {u1}
  Faults = {"setup"}
SPECIFICATION FairSpec
CHECK_DEADLOCK FALSE
PROPERTIES EveryExitSettles BootFinishes
