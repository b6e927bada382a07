SPECIFICATION MCSpec
CONSTANTS
  Readers = {r1, r2}
  OneReader = {r3}
  TTY_FLIPBUF_SIZE = 2
  N_TTY_BUF_SIZE = 3
  Nr = {3}
  Modes <- MCVmin
  NonBlock = {FALSE}
  Ioctls = TRUE
  Polls = FALSE
  Faults = FALSE
  FifoSize = 2
  MaxByte = 4
  MaxRead = 3
INVARIANT StreamKept
INVARIANT MCNothingForgotten
PROPERTY ReadReturns
PROPERTY FlipDrains
CHECK_DEADLOCK FALSE
