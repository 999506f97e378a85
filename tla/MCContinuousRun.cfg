CONSTANTS
  Kinds = {"fresh", "persistent consumer"}
  Callers = {c1}
  Sched = sched
  Items = {i1}
  Keyed = {i1}
  MaxFires = 2
  MaxSessions = 2
  MaxRequests = 2
  MaxQueueRequests = 1
  MaxCrashes = 1
  MaxInvestigations = 0
  WedgeLimit = 1
  FailLimit = 2
  CompactEvery = 2
  BatchMax = 1
  BatchKeep = 1
  Faults = {"claim", "stage", "release", "spawn", "ack", "replay", "kill"}
SPECIFICATION RunSpec
INVARIANTS RunTypeOK OneFire DrainHoldsTheLine AdmissionHolds ReplaySourceKept NoDoubleWork
