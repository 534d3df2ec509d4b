CONSTANTS
  Period = 11
  Periods = {8}
  Silence = 8
  Latency = 1
  OvfMod = 256
  Word = 1000
  MaxStarts = 1
SPECIFICATION Spec
INVARIANT
  WithinTwo
