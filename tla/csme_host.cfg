SPECIFICATION HostSpec
CONSTANTS
  Threads = {x1}
  Msps = {a}
  Bcast = Bcast
  Boot = Boot
  Supv = Supv
  Chans = {c}
  Targets = {t1, t2}
  Socks = {s1, s2}
  None = None
  SEQ_MOD = 2
  RcvBuf = 1
  TableRaces = {FALSE, TRUE}
  MaxMsgs <- MCMaxMsgs
  MaxTx = 1
SYMMETRY MCSymmetry
INVARIANTS SockFreedEmpty RxOnce AckedArrived TablesSound
CHECK_DEADLOCK FALSE
