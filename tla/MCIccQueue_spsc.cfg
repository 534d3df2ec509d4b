CONSTANTS
  task = task
  isr = isr
  Pushers = {task}
  Length = 3
  MaxPush = 6
  CountModulus = 8
  SingleLoad = TRUE
SPECIFICATION Spec
INVARIANTS
  TypeOK
  InOrder
  NothingLost
  WaitingIntact
  AvailIsCount
PROPERTY
  ImplementsChannel
