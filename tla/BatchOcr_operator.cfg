CONSTANTS
  i1 = i1  i2 = i2  c1 = c1  c2 = c2  w1 = w1  w2 = w2
  Items = {i1}
  Chunks = {c1}
  ItemOf <- OneItemOneChunk
  PageCount = 1
  Workers = {w1, w2}
  MaxRetries = 1
  Forces = {TRUE, FALSE}
  MaxCrashes = 1
  MaxDups = 0
  MaxCancels = 1
  MaxRetryCmds = 1
SYMMETRY WorkerSymmetry
SPECIFICATION Spec
PROPERTIES CancelIsFinal NoPageAfterCancel CompletedPageKept
CHECK_DEADLOCK FALSE
