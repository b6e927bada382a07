\* The alarm also comes between write() and num++.
CONSTANTS
  Modulus = 4
  Radix = 2
  MaxPartial = 1
  RTT_MAXNREXMT = 1
  Modes = {"get"}
  AlarmPoints = {"wait", "written", "got"}
  MaxBlocks = 2
  NetCap = 2
SPECIFICATION Spec
INVARIANT GotPrefix
CHECK_DEADLOCK FALSE
