SPECIFICATION MCSpec
CONSTANTS
  TR_DIST = 2
  TR_WAYS = {1}
  TR_MAX_TTL = 3
  TR_NPROBES = 2
  PG_WORD = 8
  PG_USEC = 2
  PG_CLOCK = 4
  PG_INFLIGHT = 2
  PgPid = 6
  Modulus = 4
  Radix = 2
  MaxPartial = 1
  RTT_MAXNREXMT = 2
  Modes = {"put", "get"}
  AlarmPoints = {"wait", "got"}
  MaxBlocks = 5
  NetCap = 2
  g1 = g1
  n1 = n1
  n2 = n2
  n3 = n3
  KvDevs <- MCDevs
  KvGroupOf <- MCGroupOf
  KvNoGroup = nogroup
  KV_RAM = 5
  KV_LOW = 2
  KV_HIGH = 3
  KV_GB = 1
PROPERTY
  TrEnds
CHECK_DEADLOCK FALSE
