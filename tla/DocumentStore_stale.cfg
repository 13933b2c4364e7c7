CONSTANTS
  s1 = s1  s2 = s2  r1 = r1  r2 = r2  rec = rec
  Savers = {s1}
  Reconciler = rec
  Readers = {r1}
  None = None
  MaxRevs = 3
  MaxFaults = 0
SPECIFICATION Spec
CHECK_DEADLOCK FALSE
INVARIANTS StaleBoxesAreEvicted
