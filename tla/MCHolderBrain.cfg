CONSTANTS
  Uid = {u1, u2}
  Caller = {c1, c2}
  Observer = observer
  From = {c1, c2, observer}
  Nobody = nobody
  MaxInc = 2
  MaxEpoch = 3
  MaxQueue = 4
  Restorable = {u1}
  Faults = {"setup", "tomb_write"}
SPECIFICATION BrainSpec
CHECK_DEADLOCK FALSE
SYMMETRY Symmetry
INVARIANTS BrainTypeOK RegistryMatchesHolder HeldAreKnown
PROPERTIES KeepsCustody TruthNotLost
