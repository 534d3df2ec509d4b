CONSTANTS
  Period = 11
  Periods = {4, 13, 18, 22}
  Silence = 14
  Latency = 1
  OvfMod = 5
  Word = 1000
  MaxStarts = 2
SPECIFICATION Spec
INVARIANTS
  FastIsExact
  SlowIsClose
