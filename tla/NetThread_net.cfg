CONSTANTS
  Modes = {m1, m2}
  LogSize = 3
  Room = 2
  MaxCaptures = 4
  Buffers = {b1, b2}
  Null = null
  MboxSize = 2
  Poll = poll
  Tcpip = tcpip
  Phy = phy
SPECIFICATION Spec
INVARIANTS
  MacFits
  PageIsLog
  OnlyInterruptsCorrupt
PROPERTY
  LinkFollows
