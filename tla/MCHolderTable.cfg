CONSTANTS
  Uid = {u1, u2}
  From = {}
  Nobody = Nobody
  MaxInc = 2
  MaxEpoch = 2
  MaxQueue = 1
SPECIFICATION Spec
SYMMETRY Symmetry
INVARIANTS TypeOK Custody ReapOnlyArmed LatchedWillBeConsumed EventsAreTrue
PROPERTIES PendingUntilAcked
CHECK_DEADLOCK FALSE
