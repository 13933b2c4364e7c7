CONSTANTS
  i1 = i1  i2 = i2  c1 = c1  c2 = c2  w1 = w1  w2 = w2
  Items = {i1, i2}
  Chunks = {c1, c2}
  ItemOf <- TwoItems
  PageCount = 1
  Workers = {w1, w2}
  MaxRetries = 1
  Forces = {FALSE}
  MaxCrashes = 1
  MaxDups = 0
  MaxCancels = 0
  MaxRetryCmds = 0
SYMMETRY WorkerSymmetry
SPECIFICATION Spec
INVARIANTS TerminalJobIsDone
CHECK_DEADLOCK FALSE
