CONSTANTS
  e1 = e1  e2 = e2  u1 = u1  u2 = u2
  Editors = {e1, e2}
  Users = {u1, u2}
  Guest = Guest
  UserOf <- TwoUsers
  Tasks = {}
  Replacers = {}
  MaxEdits = 2
  MaxCrashes = 0
SPECIFICATION Spec
CHECK_DEADLOCK FALSE
PROPERTIES NoUnseenOverwrite
