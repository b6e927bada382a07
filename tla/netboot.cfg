SPECIFICATION MCSpec
CONSTANTS
  MaxRuns = 3
  MaxStray = 1
  Images <- MCImages
  CHUNK = 2
  Memory = 17
  LIMIT = 16
  WORD = 64
  MaxFails = 3
  MaxUnasked = 1
INVARIANTS InitOnceWhenClean BootsInStep LoadedRight
PROPERTIES MCLoadEnds
CHECK_DEADLOCK FALSE
