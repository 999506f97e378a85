CONSTANTS
  Keys = {k1, k2}
  TaskKeys = {k2}
  MaxWakes = 4
  Troubles = {"crash", "replaced", "consumer", "dnd", "day"}
  MaxTrouble = 1
  HistoryTail = 1
SPECIFICATION WakeSpec
INVARIANTS WakeTypeOK SentOnce ToldOnce QuietWhileLatched
CHECK_DEADLOCK FALSE
