------------------------------- MODULE UartLine -------------------------------
(***************************************************************************)
(* The line settings of the two kinds of port: CMD_CONFIG_BASE_PARA and    *)
(* CMD_SET_BREAK of rctty_ioctl().  A register is the set of its bits'     *)
(* names.  The DUART has one window onto two registers: while DLAB is set  *)
(* in LCR, the addresses of RX/TX and IER are the divisor latch, and the   *)
(* receive and the transmit interrupt may come in between.                 *)
(***************************************************************************)
EXTENDS Integers, FiniteSets

CONSTANTS
  LnUsers,      \* processes that share the open file
  LnParams,     \* the rctty_base_param_s they ask for
  LnPREEMPT,    \* may a process be preempted between two register writes?
  LnChars,      \* characters that write() leaves in the transmit ring
  LN_CLK        \* CLK_FRE

ASSUME LnAssumption ==
  /\ LnPREEMPT \in BOOLEAN /\ LN_CLK \in Nat
  /\ LnChars \subseteq 0..255
  /\ LnParams # {}
  /\ LnParams \subseteq [baud : Nat \ {0},   \* CLK_FRE/16/0 traps
                         datalen : Nat, check : Nat, stopbit : Nat]

VARIABLES
  lcr, dll, dlm,   \* DUART: line control register, divisor latch
  upsmr, brg,      \* UCC: protocol mode register, baud rate generator
  lnpc, lnarg,     \* where each process is, and its parameters
  lcrRead,         \* the value xr_break_ctl_duart() has read
  asked,           \* the parameters last put into force on each kind of port
  garbage,         \* the handler has read the divisor latch for a character
  hit              \* the halves of the latch the handler has written last

lnVars == <<lcr, dll, dlm, upsmr, brg, lnpc, lnarg, lcrRead, asked, garbage, hit>>

LnDefault == [baud |-> 9600, datalen |-> 8, check |-> 0, stopbit |-> 0]

-----------------------------------------------------------------------------
(* The conversions                                                         *)

LcrLength(a) == CASE a.datalen = 5 -> {}
                  [] a.datalen = 6 -> {"WLS0"}
                  [] a.datalen = 7 -> {"WLS1"}
                  [] OTHER         -> {"WLS0", "WLS1"}
LcrCheckNoSpace(a) == CASE a.check = 1 -> {"PEN"}     \* space as mark
                        [] a.check = 2 -> {"PEN", "EPS"}
                        [] a.check \in {3, 4} -> {"PEN", "SP"}
                        [] OTHER       -> {}
LcrCheck(a) == CASE a.check = 1 -> {"PEN"}
                 [] a.check = 2 -> {"PEN", "EPS"}
                 [] a.check = 3 -> {"PEN", "SP"}
                 [] a.check = 4 -> {"PEN", "SP", "EPS"}
                 [] OTHER       -> {}
LcrOf(a) == LcrLength(a) \cup LcrCheck(a)
              \cup (IF a.stopbit = 2 THEN {"STB"} ELSE {})

UpsmrOf(a) ==
  [cl  |-> IF a.datalen \in 5..7 THEN a.datalen ELSE 8,
   sl  |-> a.stopbit = 2,
   pen |-> a.check \in 1..4,
   pm  |-> CASE a.check = 2 -> "even" [] a.check = 3 -> "high"
             [] a.check = 4 -> "low"  [] OTHER -> "odd"]

\* uiQuot, of which the latch takes 16 bits.
Quot(a) == (LN_CLK \div 16) \div a.baud

\* What the hardware sends, from its registers (external).
DuartFrame ==
  [data |-> 5 + (IF "WLS0" \in lcr THEN 1 ELSE 0) + (IF "WLS1" \in lcr THEN 2 ELSE 0),
   stop |-> IF "STB" \in lcr THEN 2 ELSE 1,
   parity |-> IF "PEN" \notin lcr THEN "none"
              ELSE IF "SP" \in lcr THEN (IF "EPS" \in lcr THEN "space" ELSE "mark")
              ELSE IF "EPS" \in lcr THEN "even" ELSE "odd"]
UccFrame ==
  [data |-> upsmr.cl,
   stop |-> IF upsmr.sl THEN 2 ELSE 1,
   parity |-> IF ~upsmr.pen THEN "none"
              ELSE CASE upsmr.pm = "high" -> "mark" [] upsmr.pm = "low" -> "space"
                     [] OTHER -> upsmr.pm]

-----------------------------------------------------------------------------
LnTypeOK ==
  /\ lcr \subseteq {"WLS0", "WLS1", "STB", "PEN", "EPS", "SP", "SBC", "DLAB"}
  /\ dll \in 0..255 /\ dlm \in 0..255
  /\ lnpc \in [LnUsers -> {"idle", "dlab", "dll", "dlm", "break"}]
  /\ lnarg \in [LnUsers -> LnParams]
  /\ hit \subseteq {"dll", "dlm"}

\* xr_startup_duart() and xr_startup_ucc() leave 9600 8N1.
LnInit ==
  /\ lcr = LcrOf(LnDefault)
  /\ dll = Quot(LnDefault) % 256 /\ dlm = (Quot(LnDefault) \div 256) % 256
  /\ upsmr = UpsmrOf(LnDefault) /\ brg = LnDefault.baud
  /\ lnpc = [u \in LnUsers |-> "idle"]
  /\ lnarg \in [LnUsers -> {CHOOSE a \in LnParams : TRUE}]
  /\ lcrRead = {}
  /\ asked = [duart |-> LnDefault, ucc |-> LnDefault]
  /\ garbage = FALSE
  /\ hit = {}

LnMayRun(u) == LnPREEMPT \/ \A v \in LnUsers \ {u} : lnpc[v] = "idle"
LnGoto(u, l) == lnpc' = [lnpc EXCEPT ![u] = l]

\* xr_set_termios_duart(): DLAB, then the two halves of the divisor ...
xr_set_termios_duart(u, a) ==
  /\ lnpc[u] = "idle" /\ LnMayRun(u)
  /\ lcr' = {"DLAB"}
  /\ lnarg' = [lnarg EXCEPT ![u] = a]
  /\ LnGoto(u, "dlab")
  /\ UNCHANGED <<dll, dlm, upsmr, brg, lcrRead, asked, garbage, hit>>

\* A byte written at offset 0 or 1 reaches the latch only while DLAB is set.
WriteDll(u) ==
  /\ lnpc[u] = "dlab" /\ LnMayRun(u)
  /\ IF "DLAB" \in lcr THEN dll' = Quot(lnarg[u]) % 256 /\ hit' = hit \ {"dll"}
                       ELSE UNCHANGED <<dll, hit>>
  /\ LnGoto(u, "dll")
  /\ UNCHANGED <<lcr, dlm, upsmr, brg, lnarg, lcrRead, asked, garbage>>
WriteDlm(u) ==
  /\ lnpc[u] = "dll" /\ LnMayRun(u)
  /\ IF "DLAB" \in lcr THEN dlm' = (Quot(lnarg[u]) \div 256) % 256 /\ hit' = hit \ {"dlm"}
                       ELSE UNCHANGED <<dlm, hit>>
  /\ LnGoto(u, "dlm")
  /\ UNCHANGED <<lcr, dll, upsmr, brg, lnarg, lcrRead, asked, garbage>>

\* ... then the format, which clears DLAB (and a break that was on).
WriteLcr(u) ==
  /\ lnpc[u] = "dlm" /\ LnMayRun(u)
  /\ lcr' = LcrOf(lnarg[u])
  /\ asked' = [asked EXCEPT !.duart = lnarg[u]]
  /\ LnGoto(u, "idle")
  /\ UNCHANGED <<dll, dlm, upsmr, brg, lnarg, lcrRead, garbage, hit>>

\* xr_set_termios_ucc(): the mode register and both generators.
xr_set_termios_ucc(u, a) ==
  /\ lnpc[u] = "idle" /\ LnMayRun(u)
  /\ upsmr' = UpsmrOf(a) /\ brg' = a.baud
  /\ asked' = [asked EXCEPT !.ucc = a]
  /\ UNCHANGED <<lcr, dll, dlm, lnpc, lnarg, lcrRead, garbage, hit>>

\* xr_break_ctl_duart(): LCR is read, changed and written.
xr_break_ctl_duart(u) ==
  /\ lnpc[u] = "idle" /\ LnMayRun(u)
  /\ lcrRead' = lcr
  /\ LnGoto(u, "break")
  /\ UNCHANGED <<lcr, dll, dlm, upsmr, brg, lnarg, asked, garbage, hit>>
WriteBreak(u) ==
  /\ lnpc[u] = "break" /\ LnMayRun(u)
  /\ \E on \in BOOLEAN : lcr' = IF on THEN lcrRead \cup {"SBC"} ELSE lcrRead \ {"SBC"}
  /\ LnGoto(u, "idle")
  /\ UNCHANGED <<dll, dlm, upsmr, brg, lnarg, lcrRead, asked, garbage, hit>>

\* A character arrives: the handler reads offset 0, and with DLAB set that is
\* the low half of the divisor.
LnRxInterrupt ==
  /\ "DLAB" \in lcr /\ ~garbage
  /\ garbage' = TRUE
  /\ UNCHANGED <<lcr, dll, dlm, upsmr, brg, lnpc, lnarg, lcrRead, asked, hit>>

\* UART_IER_RLSI | UART_IER_RDI, what xr_stop_tx_duart() leaves in IER.
LnIer == 5

\* The transmit interrupt: the handler writes characters at offset 0 and, when
\* the ring is empty, IER at offset 1.  With DLAB set both are the divisor.
LnTxInterrupt ==
  /\ "DLAB" \in lcr
  /\ \E to \in {{"dll"}, {"dlm"}, {"dll", "dlm"}} :
       /\ IF "dll" \in to THEN dll' \in LnChars ELSE UNCHANGED dll
       /\ dlm' = IF "dlm" \in to THEN LnIer ELSE dlm
       /\ hit' = hit \cup to
  /\ UNCHANGED <<lcr, upsmr, brg, lnpc, lnarg, lcrRead, asked, garbage>>

LnNext ==
  \/ LnRxInterrupt \/ LnTxInterrupt
  \/ \E u \in LnUsers :
       \/ \E a \in LnParams : xr_set_termios_duart(u, a) \/ xr_set_termios_ucc(u, a)
       \/ WriteDll(u) \/ WriteDlm(u) \/ WriteLcr(u)
       \/ xr_break_ctl_duart(u) \/ WriteBreak(u)

LnSpec == LnInit /\ [][LnNext]_lnVars

-----------------------------------------------------------------------------
LnWanted(a) ==
  [data |-> IF a.datalen \in 5..8 THEN a.datalen ELSE 8,
   stop |-> IF a.stopbit = 2 THEN 2 ELSE 1,
   parity |-> CASE a.check = 1 -> "odd" [] a.check = 2 -> "even"
                [] a.check = 3 -> "mark" [] a.check = 4 -> "space" [] OTHER -> "none"]

\* Whenever no process is inside an ioctl, the registers of both kinds of
\* port make the hardware send the frame and (for a divisor of at most 16
\* bits) the rate that was asked for last, the latch is closed, and a break
\* switched on or off in between has changed nothing else.  The exception is
\* the rate of a DUART whose transmit interrupt came between a write of
\* xr_set_termios_duart() to the latch and the one that closes it: a character
\* or an interrupt mask is then left in the half it hit.
LnAsAsked ==
  /\ LnTypeOK
  /\ (\A u \in LnUsers : lnpc[u] = "idle") =>
       /\ "DLAB" \notin lcr
       /\ DuartFrame = LnWanted(asked.duart) /\ UccFrame = LnWanted(asked.ucc)
       /\ brg = asked.ucc.baud
       /\ hit = {} /\ Quot(asked.duart) < 65536 => dll + 256 * dlm = Quot(asked.duart)

=============================================================================
