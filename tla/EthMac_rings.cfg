CONSTANTS
  TxLen = 3
  RxLen = 4
  CntMod = 8
  MaxPackets = 4
  MaxFrames = 5
  MaxTraffic = 5
SPECIFICATION Spec
INVARIANTS
  TimesInOrder
  OnlyMissedIsErased
  FramesInOrder
PROPERTY
  HandlerReturns
CHECK_DEADLOCK FALSE
