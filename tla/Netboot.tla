------------------------------ MODULE Netboot ------------------------------
(***************************************************************************)
(* netboot.c: main() boots the MSP with one command after another over the *)
(* boot channel of a CSME socket.  After each it waits, without a timeout, *)
(* for one message and takes whatever comes for the answer.                *)
(*                                                                         *)
(* The MSP and the driver below are external: the MSP carries the commands *)
(* out in order and answers each; a message may be given up by the driver, *)
(* a READY may arrive unasked, and the answer to a program that was killed *)
(* may reach its successor.  A message in the socket is [of, val]: the     *)
(* command it answers and the register value it carries.                   *)
(***************************************************************************)
EXTENDS Integers, Sequences

CONSTANTS
  MaxRuns,     \* bound: times the program is started
  MaxStray     \* bound: messages that arrive unasked

ASSUME NbAssumption == MaxRuns \in Nat /\ MaxStray \in Nat

VARIABLES
  step,     \* index in Script of the command being sent or waited for
  phase,    \* off, send, wait, load (DDR checked), ended
  cmdq,     \* commands on their way to the MSP
  sockq,    \* messages in the receive queue of the socket
  dsp,      \* the MSP: PLLs and DDR set up how often, marker, which of the
            \* commands that set it up it has carried out
  runs, strays,
  clean,    \* no send failed, no message was lost or unasked, no start cut short
  mixed     \* a message came unasked, or a command outlived its program

nbVars == <<step, phase, cmdq, sockq, dsp, runs, strays, clean, mixed>>

Script == <<"maas", "query", "read_marker",
            "pll_amba", "pll_arm", "pll_spu", "sdram", "cs",
            "reg10", "reg14", "reg78", "marker",
            "ddr_write", "ddr_read">>
IndexOf(c) == CHOOSE i \in DOMAIN Script : Script[i] = c
MARKER == 6433          \* 0x1921 in the register 0x1008007c
PATTERN == 305419896    \* 0x12345678
Cmds == {Script[i] : i \in DOMAIN Script} \cup {"ready"}

\* The commands that set up PLLs and DDR: 4 to 11 of Script.
SetUp == {"pll_amba", "pll_arm", "pll_spu", "sdram", "cs", "reg10", "reg14", "reg78"}

NbTypeOK ==
  /\ step \in DOMAIN Script /\ phase \in {"off", "send", "wait", "load", "ended"}
  /\ cmdq \in Seq(Cmds)
  /\ sockq \in Seq([of : Cmds, val : {0, MARKER, PATTERN}])
  /\ dsp \in [inits : Nat, marker : BOOLEAN, done : SUBSET SetUp]
  /\ runs \in 0 .. MaxRuns /\ strays \in 0 .. MaxStray
  /\ clean \in BOOLEAN /\ mixed \in BOOLEAN

NbInit ==
  /\ step = 1 /\ phase = "off" /\ cmdq = <<>> /\ sockq = <<>>
  /\ dsp = [inits |-> 0, marker |-> FALSE, done |-> {}]
  /\ runs = 0 /\ strays = 0 /\ clean = TRUE /\ mixed = FALSE

\* The commands whose failure to be sent ends the program.
Fatal == {"pll_amba", "pll_arm", "pll_spu", "sdram", "cs"}

WaitsNever == {}

\* write_reg() waits for an answer even when it could not send.
WaitsAnyway == {"reg10", "reg14", "reg78", "marker", "ddr_write"}

MarkerIgnored(val) == FALSE

\* "we cann't init it twice, then dsp will down"
InitDone(val) == val = MARKER

\* "check ddr init ok"
DdrOk(val) == val = PATTERN

\* What main() does after command c, where val is what read_reg() returned.
Proceed(c, val) ==
  CASE c = "read_marker" /\ InitDone(val) -> phase' = "send" /\ step' = IndexOf("ddr_write")
    [] c = "ddr_read" /\ DdrOk(val) -> phase' = "load" /\ UNCHANGED step
    [] c = "ddr_read" /\ ~DdrOk(val) -> phase' = "ended" /\ UNCHANGED step
    [] OTHER -> phase' = "send" /\ step' = step + 1

\* init_interface(): the socket of a new program is empty; without it the
\* program ends.
init_interface ==
  /\ phase \in {"off", "load", "ended"} /\ runs < MaxRuns
  /\ runs' = runs + 1
  /\ sockq' = <<>> /\ step' = 1
  /\ phase' \in {"send", "ended"}
  /\ UNCHANGED <<cmdq, dsp, strays, clean, mixed>>

\* send_msg_to_channel() with MSG_DONTWAIT, and what the caller does when it
\* fails.  A negative result of read_reg() is taken for the register's value.
send_msg_to_channel ==
  LET c == Script[step] IN
  /\ phase = "send"
  /\ \/ /\ cmdq' = Append(cmdq, c)
        /\ phase' = "wait"
        /\ UNCHANGED <<step, clean>>
     \/ /\ clean' = FALSE
        /\ CASE c \in Fatal -> phase' = "ended" /\ UNCHANGED step
             [] c \in WaitsAnyway -> phase' = "wait" /\ UNCHANGED step
             [] OTHER -> Proceed(c, -1)
        /\ UNCHANGED cmdq
  /\ UNCHANGED <<sockq, dsp, runs, strays, mixed>>

\* wait_for_response(), or the same inside read_reg(): any message will do.
\* An answer without a register's value is too short, and read as 0.
wait_for_response ==
  /\ phase = "wait" /\ sockq # <<>>
  /\ sockq' = Tail(sockq)
  /\ Proceed(Script[step], Head(sockq).val)
  /\ UNCHANGED <<cmdq, dsp, runs, strays, clean, mixed>>

\* The program is killed.
Killed ==
  /\ phase \in {"send", "wait", "load"}
  /\ phase' = "off" /\ sockq' = <<>>
  /\ clean' = (clean /\ (step <= 3 \/ dsp.marker) /\ cmdq = <<>>)
  /\ mixed' = (mixed \/ cmdq # <<>>)
  /\ UNCHANGED <<step, cmdq, dsp, runs, strays>>

Stray(m) ==
  /\ strays < MaxStray /\ phase # "off"
  /\ strays' = strays + 1 /\ clean' = FALSE /\ mixed' = TRUE
  /\ sockq' = Append(sockq, m)
  /\ UNCHANGED <<step, phase, cmdq, dsp, runs>>

\* The driver sends the next command and the MSP carries it out and answers;
\* either of the two messages may be given up.  The memory can only hold the
\* pattern when it has been configured and selected, and may hold it although
\* the registers behind that have not been set.
Answer(c, holds) ==
  [of |-> c, val |-> CASE c = "read_marker" /\ dsp.marker -> MARKER
                       [] c = "ddr_read" /\ holds /\ {"sdram", "cs"} \subseteq dsp.done -> PATTERN
                       [] OTHER -> 0]

MspAnswers(done, heard, holds) ==
  LET c == Head(cmdq) IN
  /\ cmdq # <<>> /\ (heard => done)
  /\ cmdq' = Tail(cmdq)
  /\ clean' = (clean /\ heard)
  /\ dsp' = IF ~done THEN dsp
            ELSE [inits |-> IF c = "pll_amba" THEN dsp.inits + 1 ELSE dsp.inits,
                  marker |-> dsp.marker \/ c = "marker",
                  done |-> dsp.done \cup ({c} \cap SetUp)]
  /\ sockq' = IF heard /\ phase # "off" THEN Append(sockq, Answer(c, holds)) ELSE sockq
  /\ UNCHANGED <<step, phase, runs, strays, mixed>>

NbNext ==
  \/ init_interface \/ send_msg_to_channel \/ wait_for_response \/ Killed
  \/ Stray([of |-> "ready", val |-> 0])
  \/ \E done, heard, holds \in BOOLEAN : MspAnswers(done, heard, holds)

NbSpec == NbInit /\ [][NbNext]_nbVars
-----------------------------------------------------------------------------
\* "Init pll and ddr. Note: we cann't init it twice, then dsp will down":
\* however often the program is killed and started again.
InitOnce == dsp.inits <= 1

\* The same, while every message gets through, none comes unasked and no
\* program is killed between the first PLL and the marker.
InitOnceWhenClean == clean => InitOnce

\* Whatever is lost and whichever sends fail: as long as no message comes
\* unasked and no command outlives its program, main() takes each answer for
\* the command it belongs to, and waits for ever rather than go on without
\* one (there is no timeout, netboot.c:295).  So the marker is only written
\* when every PLL, the SDRAM, the chip select and the three registers
\* (:722-724) have been set, and the image is only loaded then, by this
\* program or by one that finds the marker.  (With the types of the state.)
BootsInStep ==
  /\ NbTypeOK
  /\ ~mixed =>
       /\ \A i \in DOMAIN sockq : phase = "wait" /\ sockq[i].of = Script[step]
       /\ dsp.marker \/ phase = "load" => SetUp \subseteq dsp.done
=============================================================================
