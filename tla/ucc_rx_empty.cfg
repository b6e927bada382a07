SPECIFICATION Spec
CONSTANTS
  RX_NUM_FIFO = 3
  RX_BUF_SIZE = 2
  TTY_FLIPBUF_SIZE = 4
  MaxByte = 6
  MaxOpen = 2
INVARIANT EmptyMeansAllRead
CHECK_DEADLOCK FALSE
