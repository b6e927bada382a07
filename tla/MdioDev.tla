------------------------------- MODULE MdioDev -------------------------------
(***************************************************************************)
(* The MDIO driver (mdio_dev.c): processes that open the device, or share  *)
(* a file by fork(), and read and write PHY registers through the one      *)
(* controller: wait until it is not busy, set the two address registers,   *)
(* pulse, and, for a read, wait again and fetch the data.  Nothing locks   *)
(* the controller; a preemptive kernel lets calls meet.                    *)
(***************************************************************************)
EXTENDS Integers

CONSTANTS
  MdProcs,    \* processes
  MdAsks,     \* the calls they make
  MD_SPAN,    \* PHY and register addresses there are (2^5)
  MD_WRITES   \* bound on the writes that are pulsed

MdAddrs == 0..(MD_SPAN - 1)
MdArgs == 0..MD_SPAN       \* one more than fits, which is cut off
MdValues == 1..2             \* what a PHY register holds; 0 is no answer

VARIABLES
  mdOpened,   \* mdio_opened
  mdHolds,    \* processes that hold a file
  mdPc,       \* where a process is
  mdCall,     \* what it was asked to do
  mdPhyAd, mdRegAd, mdWData, mdRData,   \* registers of the controller
  mdFlight,   \* the access under way, busy while there is one
  mdMem,      \* the PHY registers
  mdPulsed,   \* writes that were pulsed
  mdAsked,    \* what the last write of a register that returned ok asked for
  mdStale,    \* a read returned ok with something else
  mdMet       \* two calls were inside at the same time

mdFiles == <<mdOpened, mdHolds>>
mdRegs == <<mdPhyAd, mdRegAd, mdWData, mdRData>>
mdVars == <<mdFiles, mdPc, mdCall, mdRegs, mdFlight, mdMem, mdPulsed,
            mdAsked, mdStale, mdMet>>

MdCalls == [op : {"read", "write"}, phy : MdArgs, reg : MdArgs, val : MdValues]
MdIdle == [op |-> "none", phy |-> 0, reg |-> 0, val |-> 0]

ASSUME MdAssumption == MD_SPAN \in Nat \ {0} /\ MD_WRITES \in Nat /\ MdAsks \subseteq MdCalls

MdInside == {"poll", "phy", "reg", "data", "pulse", "wait", "fetch"}

MdTypeOK ==
  /\ mdOpened \in BOOLEAN /\ mdHolds \subseteq MdProcs
  /\ mdPc \in [MdProcs -> {"idle", "opening"} \cup MdInside]
  /\ mdCall \in [MdProcs -> MdCalls \cup {MdIdle}]
  /\ mdPhyAd \in MdAddrs /\ mdRegAd \in MdAddrs
  /\ mdWData \in MdValues \cup {0} /\ mdRData \in MdValues \cup {0}
  /\ mdFlight \in [op : {"read", "write"}, phy : MdAddrs, reg : MdAddrs,
                   val : MdValues \cup {0}] \cup {MdIdle}
  /\ mdMem \in [MdAddrs \X MdAddrs -> MdValues]
  /\ mdAsked \in [MdAddrs \X MdAddrs -> MdValues]
  /\ mdPulsed \in 0..MD_WRITES /\ mdStale \in BOOLEAN /\ mdMet \in BOOLEAN

\* mdio_dev_init() has registered the device.
MdInit ==
  /\ mdOpened = FALSE /\ mdHolds = {}
  /\ mdPc = [p \in MdProcs |-> "idle"] /\ mdCall = [p \in MdProcs |-> MdIdle]
  /\ mdPhyAd = 0 /\ mdRegAd = 0 /\ mdWData = 0 /\ mdRData = 0
  /\ mdFlight = MdIdle
  /\ mdMem = [a \in MdAddrs \X MdAddrs |-> 1] /\ mdAsked = mdMem
  /\ mdPulsed = 0 /\ mdStale = FALSE /\ mdMet = FALSE

MdBusy == mdFlight # MdIdle
\* deviceAddr & 0x1f
Cut(a) == a % MD_SPAN
MdTarget(c) == <<Cut(c.phy), Cut(c.reg)>>

-----------------------------------------------------------------------------
(* The device file                                                         *)

\* mdio_open() tests mdio_opened ...
mdio_open(p) ==
  /\ mdPc[p] = "idle" /\ p \notin mdHolds /\ ~mdOpened       \* -EBUSY
  /\ mdPc' = [mdPc EXCEPT ![p] = "opening"]
  /\ UNCHANGED <<mdFiles, mdCall, mdRegs, mdFlight, mdMem, mdPulsed,
                 mdAsked, mdMet, mdStale>>

\* ... and sets it.
MdSetOpen(p) ==
  /\ mdPc[p] = "opening"
  /\ mdOpened' = TRUE /\ mdHolds' = mdHolds \cup {p}
  /\ mdPc' = [mdPc EXCEPT ![p] = "idle"]
  /\ UNCHANGED <<mdCall, mdRegs, mdFlight, mdMem, mdPulsed, mdAsked, mdMet, mdStale>>

MdFork(p, q) ==
  /\ p \in mdHolds /\ mdPc[p] = "idle" /\ mdPc[q] = "idle"
  /\ q \notin mdHolds
  /\ mdHolds' = mdHolds \cup {q}
  /\ UNCHANGED <<mdOpened, mdPc, mdCall, mdRegs, mdFlight, mdMem, mdPulsed,
                 mdAsked, mdMet, mdStale>>

\* mdio_release() runs when the last holder of the file closes it; after an
\* open that raced there are two files, and the first release opens the
\* device to others again.
mdio_release(p) ==
  /\ p \in mdHolds /\ mdPc[p] = "idle"
  /\ mdHolds' = mdHolds \ {p}
  /\ mdOpened' \in IF mdHolds = {p} THEN {FALSE} ELSE {FALSE, mdOpened}
  /\ UNCHANGED <<mdPc, mdCall, mdRegs, mdFlight, mdMem, mdPulsed, mdAsked,
                 mdMet, mdStale>>

-----------------------------------------------------------------------------
(* mdio_ioctl()                                                            *)

MdGoes(p, stage) == mdPc' = [mdPc EXCEPT ![p] = stage]

\* CMD_MDIO_READ or CMD_MDIO_WRITE.  The switch commands call functions that do
\* nothing, and a call whose arguments cannot be copied ends here.
mdio_ioctl(p, c) ==
  /\ p \in mdHolds /\ mdPc[p] = "idle"
  /\ c.op = "write" => mdPulsed < MD_WRITES
  /\ MdGoes(p, "poll")
  /\ mdCall' = [mdCall EXCEPT ![p] = c]
  /\ mdMet' = (mdMet \/ \E q \in MdProcs : mdPc[q] \in MdInside)
  /\ UNCHANGED <<mdFiles, mdRegs, mdFlight, mdMem, mdPulsed, mdAsked, mdStale>>

\* The call returns.  (A read stores its value, which is 0 after an error,
\* in the caller's memory in any case.)
MdReturn(p) ==
  /\ MdGoes(p, "idle")
  /\ mdCall' = [mdCall EXCEPT ![p] = MdIdle]

\* MDIO_TIMEOUT polls later the controller is still busy.
MdTimeout(p) ==
  /\ mdPc[p] \in {"poll", "wait"} /\ MdBusy
  /\ MdReturn(p)
  /\ UNCHANGED <<mdFiles, mdRegs, mdFlight, mdMem, mdPulsed, mdAsked, mdMet, mdStale>>

PollSkipped(p) == mdPc[p] = "poll"

\* "first check that it is not busy"
NotBusy(p) == mdPc[p] = "poll" /\ ~MdBusy

MdPolled(p) ==
  /\ NotBusy(p)
  /\ MdGoes(p, "phy")
  /\ UNCHANGED <<mdFiles, mdCall, mdRegs, mdFlight, mdMem, mdPulsed,
                 mdAsked, mdMet, mdStale>>

\* The registers of the controller, one after the other.
MdSetUp(p) ==
  LET c == mdCall[p] IN
  /\ mdPc[p] \in {"phy", "reg", "data"}
  /\ MdGoes(p, CASE mdPc[p] = "phy" -> "reg"
                 [] mdPc[p] = "reg" -> (IF c.op = "write" THEN "data" ELSE "pulse")
                 [] OTHER -> "pulse")
  /\ mdPhyAd' = IF mdPc[p] = "phy" THEN Cut(c.phy) ELSE mdPhyAd
  /\ mdRegAd' = IF mdPc[p] = "reg" THEN Cut(c.reg) ELSE mdRegAd
  /\ mdWData' = IF mdPc[p] = "data" THEN c.val ELSE mdWData
  /\ UNCHANGED <<mdFiles, mdCall, mdRData, mdFlight, mdMem, mdPulsed,
                 mdAsked, mdMet, mdStale>>

\* The pulse starts the access the registers describe.  A write returns at
\* once, a read waits.
MdPulse(p) ==
  LET c == mdCall[p] IN
  /\ mdPc[p] = "pulse"
  /\ c.op = "write" => mdPulsed < MD_WRITES
  /\ mdFlight' = [op |-> c.op, phy |-> mdPhyAd, reg |-> mdRegAd,
                  val |-> mdWData]
  /\ IF c.op = "write"
     THEN /\ MdReturn(p)
          /\ mdPulsed' = mdPulsed + 1
          /\ mdAsked' = [mdAsked EXCEPT ![MdTarget(c)] = c.val]
     ELSE /\ MdGoes(p, "wait")
          /\ UNCHANGED <<mdCall, mdPulsed, mdAsked>>
  /\ UNCHANGED <<mdFiles, mdRegs, mdMem, mdMet, mdStale>>

\* The controller carries the access out.
MdDone ==
  LET a == <<mdFlight.phy, mdFlight.reg>> IN
  /\ MdBusy
  /\ mdMem' = IF mdFlight.op = "write" THEN [mdMem EXCEPT ![a] = mdFlight.val] ELSE mdMem
  /\ mdRData' = IF mdFlight.op = "read" THEN mdMem[a] ELSE mdRData
  /\ mdFlight' = MdIdle
  /\ UNCHANGED <<mdFiles, mdPc, mdCall, mdPhyAd, mdRegAd, mdWData, mdPulsed,
                 mdAsked, mdMet, mdStale>>

\* A read that is no longer busy fetches the data.
MdFetch(p) ==
  /\ mdPc[p] = "wait" /\ ~MdBusy
  /\ MdReturn(p)
  /\ mdStale' = (mdStale \/ mdRData # mdAsked[MdTarget(mdCall[p])])
  /\ UNCHANGED <<mdFiles, mdRegs, mdFlight, mdMem, mdPulsed, mdAsked, mdMet>>

MdNext ==
  \/ MdDone
  \/ \E p \in MdProcs :
       \/ mdio_open(p) \/ MdSetOpen(p) \/ mdio_release(p)
       \/ \E q \in MdProcs : MdFork(p, q)
       \/ \E c \in MdAsks : mdio_ioctl(p, c)
       \/ MdTimeout(p) \/ MdPolled(p) \/ MdSetUp(p) \/ MdPulse(p) \/ MdFetch(p)

MdSpec == MdInit /\ [][MdNext]_mdVars

-----------------------------------------------------------------------------
(* Property                                                                *)

\* As long as no two calls meet in the controller, a read that returns ok has
\* the value the caller's register was last given, by writes that may still
\* have been under way when the read began and after reads that timed out
\* and completed late; and when the controller is idle every register of
\* every PHY holds what the last write of it asked for, addresses cut to
\* their width.
MdAnswers == MdTypeOK /\ (~mdMet => ~mdStale /\ (~MdBusy => mdMem = mdAsked))

=============================================================================
