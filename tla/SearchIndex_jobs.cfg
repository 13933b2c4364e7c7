CONSTANTS
  o1 = o1  o2 = o2  p1 = p1  p2 = p2  j1 = j1  j2 = j2  w1 = w1  w2 = w2
  Orgs = {o1, o2}
  Projects = {p1}
  Workers = {w1, w2}
  Jobs = {j1}
  Home = o1
  All = All
  Nobody = Nobody
  MaxVersions = 3
  MaxChanges = 1
  MaxFaults = 1
SYMMETRY WorkerSymmetry
SPECIFICATION Spec
CHECK_DEADLOCK FALSE
INVARIANTS TypeOK BuildsAreHidden LoneJobRepairs ActiveJobHasTask
PROPERTIES SearchStaysUp
