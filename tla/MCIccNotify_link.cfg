CONSTANTS
  task = task
  isr = isr
  Writers = {task, isr}
  Pipe <- LinkPipe
  PipeOrder <- LinkPipes
  Capacity <- LinkCapacity
  MaxMessage = 2
  MaxAccepted = 3
  Gated = TRUE
SPECIFICATION FairSpec
INVARIANTS
  TypeOK
  NoMissedNotify
  DrainedInOrder
  PopsWhatItCounted
PROPERTY
  EverythingArrives
CHECK_DEADLOCK FALSE
