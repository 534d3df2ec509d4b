CONSTANTS
  Channels = {0, 1, 2, 3}
  Measured = {0}
  MaxValue = 3
SPECIFICATION DisplaySpec
INVARIANTS
  OnlyTheRaceLoses
PROPERTY
  FoundAsleepIsShown
