------------------------------ MODULE MC_Tools -------------------------------
(***************************************************************************)
(* The programs that run on the host: traceroute, ping, the TFTP client    *)
(* and the memory check, one of them per behaviour.                        *)
(***************************************************************************)
EXTENDS Traceroute, Ping, Tftp, KvmMemcheck

CONSTANTS g1, n1, n2, n3

VARIABLE program   \* the program this behaviour is about

MCDevs == <<n1, n2, n3>>
MCGroupOf == [n \in {n1, n2, n3} |-> IF n = n3 THEN KvNoGroup ELSE g1]

\* The programs that are not this behaviour's ended at once or never start.  The
\* byte order of the host makes no difference to tftp_put().
MCInit ==
  /\ program \in {"traceroute", "ping", "tftp", "memcheck"}
  /\ TrInit /\ PgInit /\ Init /\ KvInit
  /\ program # "traceroute" => trPc = "end"
  /\ program # "ping" => pgPc = "end"
  /\ program # "tftp" => mode = "put" /\ blocks = 1 /\ tail = "short" /\ ~reorder
  /\ mode = "put" => ~little
  /\ program # "memcheck" => kvPc = "exit" /\ kvMaster = {}

TrStep == program = "traceroute" /\ TrNext /\ UNCHANGED <<program, pgVars, vars, kvVars>>
PgStep == program = "ping" /\ PgNext /\ UNCHANGED <<program, trVars, vars, kvVars>>
TfStep == program = "tftp" /\ Next /\ UNCHANGED <<program, trVars, pgVars, kvVars>>
KvStep == program = "memcheck" /\ KvNext /\ UNCHANGED <<program, trVars, pgVars, vars>>

MCSpec ==
  /\ MCInit
  /\ [][TrStep \/ PgStep \/ TfStep \/ KvStep]_<<program, trVars, pgVars, vars, kvVars>>
  /\ TrFairness /\ PgFairness /\ Fairness /\ KvFairness
=============================================================================
