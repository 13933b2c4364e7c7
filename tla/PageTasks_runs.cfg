CONSTANTS
  w1 = w1  w2 = w2  e1 = e1  r1 = r1
  PageCount = 2
  Workers = {w1, w2}
  Editors = {e1}
  Posts = {r1}
  Kinds = {"ocr", "translation"}
  Limit = 2
  MaxItems = 2
  MaxEvents = 1
SYMMETRY WorkerSymmetry
SPECIFICATION Spec
CHECK_DEADLOCK FALSE
INVARIANTS TypeOK FirstRunIsDone CompletedPageHasText ChargesAreForSavedWork
