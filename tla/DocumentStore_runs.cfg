CONSTANTS
  s1 = s1  s2 = s2  r1 = r1  r2 = r2  rec = rec
  Savers = {s1}
  Reconciler = rec
  Readers = {r1, r2}
  None = None
  MaxRevs = 3
  MaxFaults = 1
SPECIFICATION FairSpec
CHECK_DEADLOCK FALSE
INVARIANTS TypeOK DocumentIsStored ReadsKeepUp
PROPERTIES LocksAreTheirHolders ReadsEnd
