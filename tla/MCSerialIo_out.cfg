CONSTANTS
  Size = 4
  LineLen = 2
  BootPushes <- PrintsTwice
  MaxBytes = 9
  SingleLoad = TRUE
SPECIFICATION FairSpec
INVARIANTS
  UsedIsCount
  StreamIntact
  WaitReturnsData
  AsleepMeansEmpty
PROPERTY
  AllSent
CHECK_DEADLOCK FALSE
