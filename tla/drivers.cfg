SPECIFICATION MCSpec
CONSTANTS
  LbProcs = {p1, p2}
  LbNone = none
  LbMenus <- MCMenus
  LbAsks <- MCFieldAsks
  LB_LL = 1
  MdProcs = {p1, p2}
  MdAsks <- MCAsks
  MD_SPAN = 2
  MD_WRITES = 2
  d1 = d1
  d2 = d2
  rp = rp
  b0 = b0
  b1 = b1
  AeDevs = {d1, d2}
  AeRoot = rp
  AeBusOf <- MCBusOf
  AeProcs = {p1, p2}
  AeAsks <- MCInjs
  AeNone = none
  AeFirstMask <- MCFirstMask
  AE_CALLS = 2
SYMMETRY MCAlike
INVARIANTS
  LbFieldsKept
  LbIrqOwned
  LlWatches
  MdAnswers
  AerOpsKept
  AerCallsApart
CHECK_DEADLOCK FALSE
