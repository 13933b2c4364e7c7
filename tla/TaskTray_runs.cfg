CONSTANTS
  w1 = w1  w2 = w2  e1 = e1  r1 = r1
  PageCount = 2
  Workers = {w1}
  Editors = {}
  Posts = {r1}
  Kinds = {"enhanced"}
  Plans = {{"ocr"}, {"ocr", "translation"}}
  Limit = 2
  MaxItems = 1
  MaxEvents = 2
SPECIFICATION TrayFairSpec
CHECK_DEADLOCK FALSE
INVARIANTS CompletedEntryIsOver SuccessHasText CompletedBatchIsRead
PROPERTIES RunEntryEnds
