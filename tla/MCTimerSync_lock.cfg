CONSTANTS
  L = 21000
  Default = 19999
  Offs <- RateErrors
  Word = 13537
  CntMod = 63000
  Fine = 420
  Signals <- Edges
  Latencies = {60, 430}
  MaxStarts = 2
  MaxHeld = 1
SPECIFICATION Spec
INVARIANTS
  AcceptedIsTrue
  JumpsOnce
  StampIsRight
PROPERTIES
  Locks
  StaysLocked
CHECK_DEADLOCK FALSE
