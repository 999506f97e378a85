CONSTANTS
  Keys = {k1, k2}
  TaskKeys = {}
  MaxWakes = 3
  Troubles = {"crash", "consumer"}
  MaxTrouble = 1
  HistoryTail = 1
SPECIFICATION FairWakes
PROPERTIES EveryMessageIsTold
CHECK_DEADLOCK FALSE
