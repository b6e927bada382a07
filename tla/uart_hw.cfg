SPECIFICATION MCSpec
CONSTANTS
  UccPorts = {ucc0}
  DuartPorts = {duart3}
  Procs = {p1, p2}
  None = none
  PREEMPT = FALSE
  EARLY_OPEN = FALSE
  LnUsers = {u1, u2}
  LnParams <- MCParams
  LnPREEMPT = FALSE
  LnChars = {0, 65}
  LN_CLK = 133334000
  MuxUccs = {0, 1, 2, 3, 4, 5, 6, 7}
  MuxTdms = {0, 1, 2, 3}
  MuxClocks <- MCClocks
  MUX_CALLS = 2
  RX_NUM_FIFO = 3
  RX_BUF_SIZE = 2
  TTY_FLIPBUF_SIZE = 4
  MaxByte = 6
  MaxOpen = 2
INVARIANTS
  NoUseAfterFree
  PortsOwned
  LnAsAsked
  MuxKept
  MCRxKept
CHECK_DEADLOCK FALSE
