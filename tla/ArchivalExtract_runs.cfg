CONSTANTS
  w1 = w1  w2 = w2  q1 = q1  q2 = q2  q3 = q3
  Workers = {w1, w2}
  Requests = {q1, q2}
  Forced = {q2}
  None = None
  WindowCount = 2
  MaxEdits = 1
  MaxFaults = 2
SPECIFICATION FairSpec
CHECK_DEADLOCK FALSE
INVARIANTS TypeOK RunsAreAlone UsableRunIsWhole
PROPERTIES ShownTextNeverGoesBack RefusedRequestIsCovered
