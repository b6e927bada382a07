SPECIFICATION MCSpec
CONSTANTS
  Scenarios = {"giveup", "wrap", "faults"}
  FirstOpcode = {control}
  Senders = {s1, s2}
  Opcode = {control, media}
  RETRIES = 2
  SEQ_MOD = 16
  AckSup = {FALSE}
  CloneOutcomes = {"prompt"}
  Resets = FALSE
  MaxMsg = 3
  MaxGivenUp = 3
  NetCap = 1
INVARIANT MCQueueServed
INVARIANT MCAckedWasDelivered
INVARIANT InOrder
PROPERTY MCPipeSpec
PROPERTY MCDrains
CHECK_DEADLOCK FALSE
