CONSTANTS
  task = task
  isr = isr
  Pushers = {task, isr}
  Length = 4
  MaxPush = 3
  CountModulus = 8
  SingleLoad = TRUE
SPECIFICATION Spec
INVARIANTS
  NothingLost
