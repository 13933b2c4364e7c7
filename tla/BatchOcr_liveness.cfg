CONSTANTS
  i1 = i1  i2 = i2  c1 = c1  c2 = c2  w1 = w1  w2 = w2
  Items = {i1}
  Chunks = {c1, c2}
  ItemOf <- OneItemTwoChunks
  PageCount = 1
  Workers = {w1, w2}
  MaxRetries = 1
  Forces = {FALSE}
  MaxCrashes = 0
  MaxDups = 0
  MaxCancels = 1
  MaxRetryCmds = 0

SPECIFICATION FairSpec
INVARIANTS OpenJobIsAttended
PROPERTIES JobEnds CompletedDocumentAsks
CHECK_DEADLOCK FALSE
