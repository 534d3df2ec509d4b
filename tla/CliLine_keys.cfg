CONSTANTS
  LineLen = 3
  Depth = 2
  Letters = {"["}
  Hist = "["
  MaxEnded = 3
SPECIFICATION LineSpec
INVARIANTS
  HistoryIsRecent
  BufferIsEdited
  ArrowRecalls
CHECK_DEADLOCK FALSE
