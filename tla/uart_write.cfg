SPECIFICATION MCSpec
CONSTANTS
  Writers = {w1, w2}
  PAGE_SIZE = 4
  WAKEUP_CHARS = 2
  MaxChunk = 3
  MinBuf = 2
  Counts = {1, 4}
  NonBlock = {FALSE, TRUE}
  Faults = TRUE
  MaxWrite = 2
  TX_NUM_FIFO = 2
  TX_BUF_SIZE = 2
  CloseTries = 2
  Breaks = TRUE
  Closes = TRUE
  TxBurst = 1
  TxTrigger = 1
  TxFifoSize = 2
  Set485 = TRUE
INVARIANT MCWritesInOrder
INVARIANT MCNoOverrun
INVARIANT MCPumpComesBack
INVARIANT MCRtsWhileSending
PROPERTY MCWritesReturn
CHECK_DEADLOCK FALSE
