CONSTANTS
  Kinds = {"fresh", "persistent"}
  Callers = {c1}
  Sched = sched
  Items = {}
  Keyed = {}
  MaxFires = 1
  MaxSessions = 3
  MaxRequests = 1
  MaxQueueRequests = 1
  MaxCrashes = 1
  MaxInvestigations = 1
  WedgeLimit = 1
  FailLimit = 2
  CompactEvery = 2
  BatchMax = 1
  BatchKeep = 1
  Faults = {"spawn"}
SPECIFICATION FairRun
PROPERTIES DeadSettles WatchedRunEnds
