\* Suppression switched while messages are queued.
SPECIFICATION MCSpec
CONSTANTS
  Scenarios = {"giveup"}
  FirstOpcode = {control}
  Senders = {s1}
  Opcode = {control}
  RETRIES = 1
  SEQ_MOD = 16
  AckSup = {TRUE, FALSE}
  CloneOutcomes = {"prompt"}
  Resets = FALSE
  MaxMsg = 3
  MaxGivenUp = 3
  NetCap = 1
INVARIANT QueueServed
CHECK_DEADLOCK FALSE
