CONSTANTS
  Pin = {p1, p2, p3, p4}
  NoPin = none
  TripAfter = 3
SPECIFICATION FairSup
INVARIANTS SupTypeOK NoPingPong StrikesAreExact
PROPERTY ArmResolves
CHECK_DEADLOCK FALSE
