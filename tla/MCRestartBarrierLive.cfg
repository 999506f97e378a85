CONSTANTS
  Restarters = {r1}
  Callers = {c1}
  Background = {}
  Sessions = {s1}
  NoSession = none
SPECIFICATION FairBarrier
PROPERTIES AttemptEnds WorkResumes
CHECK_DEADLOCK FALSE
