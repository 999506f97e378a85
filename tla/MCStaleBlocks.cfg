CONSTANTS
  Kinds = {"fresh"}
  Callers = {c1}
  Sched = sched
  Items = {}
  Keyed = {}
  MaxFires = 2
  MaxSessions = 2
  MaxRequests = 1
  MaxQueueRequests = 1
  MaxCrashes = 0
  MaxInvestigations = 0
  WedgeLimit = 1
  FailLimit = 2
  CompactEvery = 2
  BatchMax = 1
  BatchKeep = 1
  Faults = {}
SPECIFICATION RunSpec
INVARIANTS StaleBlocksAreInert
