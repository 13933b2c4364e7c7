CONSTANTS
  e1 = e1  e2 = e2  u1 = u1  u2 = u2
  Editors = {e1, e2}
  Users = {u1, u2}
  Guest = Guest
  UserOf <- OneUser
  Tasks = {k1}
  Replacers = {r1}
  MaxEdits = 1
  MaxCrashes = 1
SPECIFICATION FairSpec
CHECK_DEADLOCK FALSE
INVARIANTS TypeOK DraftsRestOnPublishedText
PROPERTIES ConflictsAreReal RefusedEditGetsThrough SavesAreTickets
