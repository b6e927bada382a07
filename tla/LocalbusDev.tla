----------------------------- MODULE LocalbusDev -----------------------------
(***************************************************************************)
(* The local bus driver (cpld_drv/localbus_dev.c): processes that open the *)
(* device, share it by fork(), access the CPLD and the registers of the    *)
(* SoC, and switch the two interrupts the driver offers on and off.  A     *)
(* step of a process ends where another one, or an interrupt, may run.     *)
(*                                                                         *)
(* The CPLD is three bytes of two fields, 0x14 to 0x16, of which IntClear  *)
(* acknowledges the interrupt.  The registers of the SoC are one word of   *)
(* two fields: LightField drives the light, PinField configures the pin of *)
(* the interrupt.  Changes of different registers, which cannot spoil each *)
(* other, are thereby taken to meet as well.                               *)
(***************************************************************************)
EXTENDS Integers, FiniteSets

CONSTANTS
  LbProcs,   \* processes
  LbNone,    \* nobody
  LbMenus,   \* the groups of ioctls a behaviour may mix: see LbCalls
  LbAsks,    \* what CMD_LOCALBUS_FIELD is asked: a byte, a field, a value
  LB_LL      \* bound on registrations of the long-light handler

\* The transfers to the CPLD, the changes of a field of it, the pon switch
\* interrupt, the long-light interrupt and the SoC registers: a behaviour
\* mixes the groups of one menu.
LbCalls == {"bus", "field", "irq", "longlight", "reg"}

LbBytes == 0..2
LbFields == 0..1
LbValues == 0..1
IntClear == 2
LightField == 0
PinField == 1

ASSUME LbAssumption ==
  /\ IsFiniteSet(LbProcs) /\ LbNone \notin LbProcs /\ LB_LL \in Nat
  /\ LbMenus \subseteq SUBSET LbCalls
  /\ LbAsks \subseteq LbBytes \X LbFields \X LbValues


VARIABLES
  lbMenu,    \* the menu of this behaviour, which never changes
  lbMod,     \* the module: out, live, gone
  lbFiles,   \* who holds the file a process has opened; {} when it is closed
  lbCount,   \* opl_reg_open_count
  lbOpened,  \* opened
  lbSem,     \* who holds sema_cpld
  lbPc,      \* where a process is
  lbOld,     \* what it has read and is about to change and write back
  lbArg,     \* the field it changes
  lbCpld,    \* the CPLD
  lbReg,     \* the register of the SoC
  lbWide,    \* localbus16
  lbCs16,    \* chip select 1 is configured for 16 bits
  lbIrqEn,   \* irq_enable
  lbLlEn,    \* longlight_irq_enable
  lbOwner,   \* irq2sig.pid
  lbIrqs,    \* registrations of irq2sig_interrupt()
  lbLlIrqs,  \* registrations of longlight_interrupt()
  lbTlet,    \* irq2sig_let is scheduled
  lbBadFree, \* free_irq() was called for a handler that is not registered
  lbWant,    \* what the calls that have returned asked of the CPLD ...
  lbRegWant, \* ... and of the register
  lbSeen     \* what has happened: "shared", "longlight", "llfailed",
             \* "crossed" (a release met a CFG), "unlocked" (changes of the
             \* register met), "cleared" (the handler wrote to a byte that a
             \* CMD_LOCALBUS_FIELD had read and not yet written back)

lbFileVars == <<lbMenu, lbMod, lbFiles, lbCount, lbOpened>>
lbBusVars == <<lbCpld, lbReg, lbWide, lbCs16, lbWant, lbRegWant>>
lbIrqVars == <<lbIrqEn, lbLlEn, lbOwner, lbIrqs, lbLlIrqs, lbTlet, lbBadFree>>
lbProcVars == <<lbSem, lbPc, lbOld, lbArg>>
lbVars == <<lbFileVars, lbBusVars, lbIrqVars, lbProcVars, lbSeen>>

LbWord == [LbFields -> LbValues]
LbCfgStages == {"cfgfree", "cfgreq"}
LbSemStages == LbCfgStages \cup {"field", "llreq"}
LbRelStages == {"relirq", "relfree", "relcount"}
LbRegStages == {"reg", "cfgreq", "llreq"}   \* has read the register

LbTypeOK ==
  /\ lbMenu \subseteq LbCalls
  /\ lbMod \in {"out", "live", "gone"}
  /\ lbFiles \in [LbProcs -> SUBSET LbProcs]
  /\ lbCount \in Nat /\ lbOpened \in BOOLEAN
  /\ lbSem \in LbProcs \cup {LbNone}
  /\ lbPc \in [LbProcs -> {"idle", "reg"} \cup LbSemStages \cup LbRelStages]
  /\ lbOld \in [LbProcs -> LbWord]
  /\ lbArg \in [LbProcs -> LbBytes \X LbFields \X LbValues]
  /\ lbCpld \in [LbBytes -> LbWord] /\ lbWant \in [LbBytes -> LbWord]
  /\ lbReg \in LbWord /\ lbRegWant \in LbWord
  /\ lbWide \in BOOLEAN /\ lbCs16 \in BOOLEAN
  /\ lbIrqEn \in BOOLEAN /\ lbLlEn \in BOOLEAN
  /\ lbOwner \in LbProcs \cup {LbNone}
  /\ lbIrqs \in Nat /\ lbLlIrqs \in Nat
  /\ lbTlet \in BOOLEAN /\ lbBadFree \in BOOLEAN
  /\ lbSeen \subseteq {"shared", "longlight", "llfailed", "crossed", "unlocked",
                 "cleared"}

LbZero == [f \in LbFields |-> 0]
LbOnes == [f \in LbFields |-> 1]
LbNoArg == <<0, 0, 0>>

LbInit ==
  /\ lbMenu \in LbMenus
  /\ lbMod = "out" /\ lbFiles = [p \in LbProcs |-> {}]
  /\ lbCount = 0 /\ lbOpened = FALSE
  /\ lbSem = LbNone /\ lbPc = [p \in LbProcs |-> "idle"]
  /\ lbOld = [p \in LbProcs |-> LbZero] /\ lbArg = [p \in LbProcs |-> LbNoArg]
  /\ lbCpld = [b \in LbBytes |-> LbZero] /\ lbWant = lbCpld
  /\ lbReg = LbZero /\ lbRegWant = LbZero
  /\ lbWide = FALSE /\ lbCs16 = FALSE
  /\ lbIrqEn = FALSE /\ lbLlEn = FALSE /\ lbOwner = LbNone
  /\ lbIrqs = 0 /\ lbLlIrqs = 0 /\ lbTlet = FALSE /\ lbBadFree = FALSE
  /\ lbSeen = {}

-----------------------------------------------------------------------------
(* The module and its files                                                *)

ext_localbus_init ==
  /\ lbMod = "out" /\ lbMod' = "live" /\ lbSem' = LbNone /\ lbOpened' = FALSE
  /\ UNCHANGED <<lbMenu, lbFiles, lbCount, lbBusVars, lbIrqVars, lbPc, lbOld, lbArg, lbSeen>>

\* Only the character device is taken away; the module cannot be unloaded
\* while a file is open.
ext_localbus_free ==
  /\ lbMod = "live" /\ lbMod' = "gone"
  /\ \A p \in LbProcs : lbFiles[p] = {} /\ lbPc[p] = "idle"
  /\ UNCHANGED <<lbMenu, lbFiles, lbCount, lbOpened, lbBusVars, lbIrqVars, lbProcVars, lbSeen>>

\* The first open configures chip select 1, for 8 bits, and leaves localbus16.
ext_localbus_open(p) ==
  /\ lbMod = "live" /\ lbFiles[p] = {} /\ lbPc[p] = "idle"
  /\ lbFiles' = [lbFiles EXCEPT ![p] = {p}]
  /\ lbCount' = lbCount + 1
  /\ lbOpened' = TRUE
  /\ lbCs16' = (lbCs16 /\ lbOpened)
  /\ UNCHANGED <<lbMenu, lbMod, lbCpld, lbReg, lbWide, lbWant, lbRegWant, lbIrqVars,
                 lbProcVars, lbSeen>>

\* fork(): the child holds the file too, and release() runs when the last of
\* them closes it.
LbFork(p, q, f) ==
  /\ p \in lbFiles[f] /\ q \notin lbFiles[f] /\ lbPc[p] = "idle" /\ lbPc[q] = "idle"
  /\ lbFiles' = [lbFiles EXCEPT ![f] = @ \cup {q}]
  /\ lbSeen' = lbSeen \cup {"shared"}
  /\ UNCHANGED <<lbMenu, lbMod, lbCount, lbOpened, lbBusVars, lbIrqVars, lbProcVars>>

\* A handler that is freed: its interrupt no longer arrives.
LbFreeIrq(n) == IF n = 0 THEN 0 ELSE n - 1

\* A call returns, and its local variables are gone.
Return(p) ==
  /\ lbPc' = [lbPc EXCEPT ![p] = "idle"]
  /\ lbOld' = [lbOld EXCEPT ![p] = LbZero]
  /\ lbArg' = [lbArg EXCEPT ![p] = LbNoArg]

OwnsNothing(p) == FALSE

\* release() looks at the owner of the interrupt without the semaphore.
OwnsIrq(p) == lbOwner = p /\ lbIrqEn

\* A close() that is not the last one only drops the reference.
LbClose(p, f) ==
  /\ p \in lbFiles[f] /\ lbPc[p] = "idle"
  /\ lbFiles' = [lbFiles EXCEPT ![f] = @ \ {p}]
  /\ lbPc' = IF lbFiles[f] # {p} THEN lbPc
             ELSE [lbPc EXCEPT ![p] = IF OwnsIrq(p) THEN "relirq" ELSE "relcount"]
  /\ lbSeen' = IF lbPc'[p] = "relirq" /\ \E q \in LbProcs : lbPc[q] \in LbCfgStages
               THEN lbSeen \cup {"crossed"} ELSE lbSeen
  /\ UNCHANGED <<lbMenu, lbMod, lbCount, lbOpened, lbBusVars, lbIrqVars, lbSem, lbOld, lbArg>>

\* The rest of ext_localbus_release(): irq_enable, then free_irq() with
\* tasklet_kill(), then the count.
ReleaseIrq(p) ==
  /\ lbPc[p] = "relirq"
  /\ lbIrqEn' = FALSE
  /\ lbPc' = [lbPc EXCEPT ![p] = "relfree"]
  /\ UNCHANGED <<lbFileVars, lbBusVars, lbLlEn, lbOwner, lbIrqs, lbLlIrqs, lbTlet,
                 lbBadFree, lbSem, lbOld, lbArg, lbSeen>>

irq_free ==
  /\ lbIrqs' = LbFreeIrq(lbIrqs)
  /\ lbBadFree' = (lbBadFree \/ lbIrqs = 0)
  /\ lbTlet' = FALSE

ReleaseFree(p) ==
  /\ lbPc[p] = "relfree"
  /\ irq_free
  /\ lbPc' = [lbPc EXCEPT ![p] = "relcount"]
  /\ UNCHANGED <<lbFileVars, lbBusVars, lbIrqEn, lbLlEn, lbOwner, lbLlIrqs,
                 lbSem, lbOld, lbArg, lbSeen>>

ReleaseCount(p) ==
  /\ lbPc[p] = "relcount"
  /\ lbCount' = lbCount - 1
  /\ lbOpened' = (lbOpened /\ lbCount # 1)
  /\ lbPc' = [lbPc EXCEPT ![p] = "idle"]
  /\ UNCHANGED <<lbMenu, lbMod, lbFiles, lbBusVars, lbIrqVars, lbSem, lbOld, lbArg, lbSeen>>

-----------------------------------------------------------------------------
(* read(), write() and the ioctls                                          *)

MayCall(p) == lbPc[p] = "idle" /\ \E f \in LbProcs : p \in lbFiles[f]

\* down_interruptible(); a signal returns -EINVAL and changes nothing.
Down(p) == MayCall(p) /\ lbSem = LbNone

\* The bytes a transfer of n bytes from offset 0 touches: on a 16 bit bus by
\* pairs, and an odd last one by itself.
Touched(n) ==
  IF lbWide THEN {i \in LbBytes : i < n - (n % 2)} \cup (IF n % 2 = 1 THEN {n - 1} ELSE {})
            ELSE {i \in LbBytes : i < n}

SetBytes(bytes, v) ==
  LET put(c) == [b \in LbBytes |-> IF b \in bytes THEN [f \in LbFields |-> v] ELSE c[b]]
  IN lbCpld' = put(lbCpld) /\ lbWant' = put(lbWant)

\* write(), with the semaphore from the first to the last byte.  More than
\* 63 bytes, or a bad buffer, is -EINVAL after up().
ext_localbus_write(p, n, v) ==
  /\ Down(p)
  /\ SetBytes(Touched(n), v)
  /\ UNCHANGED <<lbFileVars, lbReg, lbWide, lbCs16, lbRegWant, lbIrqVars, lbProcVars, lbSeen>>

\* CMD_LOCALBUS_WRITE: one access of the width of the bus.
LocalbusWrite(p, v) ==
  /\ Down(p)
  /\ SetBytes(IF lbWide THEN {0, 1} ELSE {0}, v)
  /\ UNCHANGED <<lbFileVars, lbReg, lbWide, lbCs16, lbRegWant, lbIrqVars, lbProcVars, lbSeen>>

FieldUnlocked(p, a) ==
  /\ MayCall(p)
  /\ lbPc' = [lbPc EXCEPT ![p] = "field"]
  /\ lbOld' = [lbOld EXCEPT ![p] = lbCpld[a[1]]]
  /\ lbArg' = [lbArg EXCEPT ![p] = a]
  /\ UNCHANGED <<lbSem, lbFileVars, lbBusVars, lbIrqVars, lbSeen>>

\* CMD_LOCALBUS_FIELD reads the byte under the semaphore ...
LocalbusField(p, a) ==
  /\ Down(p)
  /\ lbSem' = p
  /\ lbPc' = [lbPc EXCEPT ![p] = "field"]
  /\ lbOld' = [lbOld EXCEPT ![p] = lbCpld[a[1]]]
  /\ lbArg' = [lbArg EXCEPT ![p] = a]
  /\ UNCHANGED <<lbFileVars, lbBusVars, lbIrqVars, lbSeen>>

\* ... and writes it back with the field changed.
LocalbusFieldWrite(p) ==
  LET a == lbArg[p] IN
  /\ lbPc[p] = "field"
  /\ lbCpld' = [lbCpld EXCEPT ![a[1]] = [lbOld[p] EXCEPT ![a[2]] = a[3]]]
  /\ lbWant' = [lbWant EXCEPT ![a[1]][a[2]] = a[3]]
  /\ lbSem' = LbNone /\ Return(p)
  /\ UNCHANGED <<lbFileVars, lbReg, lbWide, lbCs16, lbRegWant, lbIrqVars, lbSeen>>

\* CMD_LOCALBUS_CFG 8 and 16.
LocalbusWidth(p, wide) ==
  /\ Down(p)
  /\ lbWide' = wide /\ lbCs16' = wide
  /\ UNCHANGED <<lbFileVars, lbCpld, lbReg, lbWant, lbRegWant, lbIrqVars, lbProcVars, lbSeen>>

\* A CFG 0 or 1 that meets a release() between its test and its free_irq().
Crossing == IF \E q \in LbProcs : lbPc[q] \in {"relirq", "relfree"}
            THEN lbSeen \cup {"crossed"} ELSE lbSeen

\* CMD_LOCALBUS_CFG 0: disable the interrupt, if irq_enable says it is on.
LocalbusIrqOff(p) ==
  /\ Down(p) /\ lbIrqEn
  /\ lbIrqEn' = FALSE
  /\ lbSem' = p /\ lbPc' = [lbPc EXCEPT ![p] = "cfgfree"]
  /\ lbSeen' = Crossing
  /\ UNCHANGED <<lbFileVars, lbBusVars, lbLlEn, lbOwner, lbIrqs, lbLlIrqs, lbTlet,
                 lbBadFree, lbOld, lbArg>>
LocalbusIrqFreed(p) ==
  /\ lbPc[p] = "cfgfree"
  /\ irq_free
  /\ lbSem' = LbNone /\ lbPc' = [lbPc EXCEPT ![p] = "idle"]
  /\ UNCHANGED <<lbFileVars, lbBusVars, lbIrqEn, lbLlEn, lbOwner, lbLlIrqs, lbOld,
                 lbArg, lbSeen>>

\* CMD_LOCALBUS_CFG 1: the caller becomes the owner, and irq_init() reads the
\* configuration of the pin; -EFAULT when irq_enable is set already.
LocalbusIrqOn(p) ==
  /\ Down(p) /\ ~lbIrqEn
  /\ lbOwner' = p
  /\ lbSem' = p /\ lbPc' = [lbPc EXCEPT ![p] = "cfgreq"]
  /\ lbOld' = [lbOld EXCEPT ![p] = lbReg]
  /\ lbSeen' = Crossing
  /\ UNCHANGED <<lbFileVars, lbBusVars, lbIrqEn, lbLlEn, lbIrqs, lbLlIrqs, lbTlet,
                 lbBadFree, lbArg>>

\* A change of the register, by p or by an interrupt, between the read and
\* the write of somebody else.
Meeting(p) == IF \E q \in LbProcs \ {p} : lbPc[q] \in LbRegStages THEN {"unlocked"} ELSE {}

\* What irq_init() writes to the CPLD: 0 to 0x14, both enables to 0x15, and
\* the acknowledgement, 1 and then 0, to 0x16.
LbArmed == [b \in LbBytes |-> IF b = 1 THEN LbOnes ELSE LbZero]

\* The rest of irq_init(): the pin is configured whether request_irq() works
\* or not, the CPLD and irq_enable are set when it has.
irq_init(p, ok) ==
  /\ lbPc[p] = "cfgreq"
  /\ lbReg' = [lbOld[p] EXCEPT ![PinField] = 0]
  /\ lbRegWant' = [lbRegWant EXCEPT ![PinField] = 0]
  /\ lbSeen' = lbSeen \cup Meeting(p)
  /\ lbIrqs' = IF ok THEN lbIrqs + 1 ELSE lbIrqs
  /\ lbCpld' = IF ok THEN LbArmed ELSE lbCpld
  /\ lbWant' = IF ok THEN LbArmed ELSE lbWant
  /\ lbIrqEn' = (lbIrqEn \/ ok)
  /\ lbSem' = LbNone /\ Return(p)
  /\ UNCHANGED <<lbFileVars, lbWide, lbCs16, lbLlEn, lbOwner, lbLlIrqs, lbTlet, lbBadFree>>

\* CMD_LONGLIGHT_CFG 1 reads the register, switches the light on and
\* requests the interrupt.  (CMD_LONGLIGHT_CFG 0 frees the handler if
\* longlight_irq_enable is set, which nothing ever does.)
LongLightOn(p) ==
  /\ Down(p) /\ ~lbLlEn /\ lbLlIrqs < LB_LL
  /\ lbOld' = [lbOld EXCEPT ![p] = lbReg]
  /\ lbSeen' = lbSeen \cup {"longlight"}
  /\ lbSem' = p /\ lbPc' = [lbPc EXCEPT ![p] = "llreq"]
  /\ UNCHANGED <<lbFileVars, lbBusVars, lbIrqVars, lbArg>>
LongLightRequested(p) ==
  /\ lbPc[p] = "llreq"
  /\ lbReg' = [lbOld[p] EXCEPT ![LightField] = 1]
  /\ lbRegWant' = [lbRegWant EXCEPT ![LightField] = 1]
  /\ \/ /\ lbLlIrqs' = lbLlIrqs + 1
        /\ lbIrqEn' = TRUE                \* not longlight_irq_enable
        /\ lbSem' = LbNone
        /\ lbSeen' = lbSeen \cup Meeting(p)
     \/ /\ lbSeen' = lbSeen \cup Meeting(p) \cup {"llfailed"}   \* no up()
        /\ UNCHANGED <<lbLlIrqs, lbIrqEn, lbSem>>
  /\ Return(p)
  /\ UNCHANGED <<lbFileVars, lbCpld, lbWide, lbCs16, lbWant, lbLlEn, lbOwner, lbIrqs, lbTlet,
                 lbBadFree>>

\* CMD_REG_WRITE changes a field of a register of the SoC without the
\* semaphore: read, then write.
RegWrite(p, a) ==
  /\ MayCall(p)
  /\ lbPc' = [lbPc EXCEPT ![p] = "reg"]
  /\ lbOld' = [lbOld EXCEPT ![p] = lbReg]
  /\ lbArg' = [lbArg EXCEPT ![p] = a]
  /\ UNCHANGED <<lbFileVars, lbBusVars, lbIrqVars, lbSem, lbSeen>>
RegWritten(p) ==
  LET a == lbArg[p] IN
  /\ lbPc[p] = "reg"
  /\ lbReg' = [lbOld[p] EXCEPT ![a[2]] = a[3]]
  /\ lbRegWant' = [lbRegWant EXCEPT ![a[2]] = a[3]]
  /\ lbSeen' = lbSeen \cup Meeting(p)
  /\ Return(p)
  /\ UNCHANGED <<lbFileVars, lbCpld, lbWide, lbCs16, lbWant, lbIrqVars, lbSem>>
-----------------------------------------------------------------------------
(* The interrupts                                                          *)

\* The handler acknowledges the interrupt, by 1 and 0 to 0x16, without the
\* semaphore.
irq2sig_interrupt ==
  /\ lbIrqs > 0 /\ lbMod = "live"
  /\ lbCpld' = [lbCpld EXCEPT ![IntClear] = LbZero]
  /\ lbWant' = [lbWant EXCEPT ![IntClear] = LbZero]
  /\ lbSeen' = IF \E q \in LbProcs : lbPc[q] = "field" /\ lbArg[q][1] = IntClear
               THEN lbSeen \cup {"cleared"} ELSE lbSeen
  /\ lbTlet' = (lbTlet \/ lbIrqEn)
  /\ UNCHANGED <<lbFileVars, lbReg, lbRegWant, lbWide, lbCs16, lbIrqEn, lbLlEn, lbOwner,
                 lbIrqs, lbLlIrqs, lbBadFree, lbProcVars>>

\* The tasklet sends SIGUSR2 to the owner, if that task still exists.
irq2sig_action ==
  /\ lbTlet /\ lbTlet' = FALSE
  /\ UNCHANGED <<lbFileVars, lbBusVars, lbIrqEn, lbLlEn, lbOwner, lbIrqs, lbLlIrqs,
                 lbBadFree, lbProcVars, lbSeen>>

\* Too much light: the light is switched off, by a read and a write of the
\* register that no process can come between.
longlight_interrupt ==
  /\ lbLlIrqs > 0 /\ lbMod = "live"
  /\ lbReg' = [lbReg EXCEPT ![LightField] = 0]
  /\ lbRegWant' = [lbRegWant EXCEPT ![LightField] = 0]
  /\ lbSeen' = lbSeen \cup Meeting(LbNone)
  /\ UNCHANGED <<lbFileVars, lbCpld, lbWide, lbCs16, lbWant, lbIrqVars, lbProcVars>>

LbNext ==
  \/ ext_localbus_init \/ ext_localbus_free
  \/ irq2sig_interrupt \/ irq2sig_action \/ longlight_interrupt
  \/ \E p \in LbProcs :
       \/ ext_localbus_open(p) \/ ReleaseIrq(p) \/ ReleaseFree(p) \/ ReleaseCount(p)
       \/ \E f \in LbProcs : LbClose(p, f) \/ \E q \in LbProcs : LbFork(p, q, f)
       \/ /\ "bus" \in lbMenu
          /\ \/ \E wide \in BOOLEAN : LocalbusWidth(p, wide)
             \/ \E v \in LbValues : LocalbusWrite(p, v)
                                  \/ \E n \in 1..3 : ext_localbus_write(p, n, v)
       \/ /\ "field" \in lbMenu
          /\ \/ LocalbusFieldWrite(p)
             \/ \E a \in LbAsks : LocalbusField(p, a)
       \/ /\ "irq" \in lbMenu
          /\ \/ LocalbusIrqOff(p) \/ LocalbusIrqFreed(p) \/ LocalbusIrqOn(p)
             \/ \E ok \in BOOLEAN : irq_init(p, ok)
       \/ /\ "longlight" \in lbMenu
          /\ LongLightOn(p) \/ LongLightRequested(p)
       \/ /\ "reg" \in lbMenu
          /\ RegWritten(p) \/ \E a \in {0} \X LbFields \X LbValues : RegWrite(p, a)

LbSpec == LbInit /\ [][LbNext]_lbVars

-----------------------------------------------------------------------------
(* Properties                                                              *)

\* The fields of the CPLD hold what the calls that have returned, and the
\* interrupt, asked for, whatever calls ran beside them: the processes keep
\* the semaphore from the read to the write back, irq_init() included, and it
\* is free whenever no call is inside, a long-light request that failed apart
\* (localbus_dev.c:767).  The handler writes to 0x16 without it (:161-165):
\* only that byte can come out wrong, and only when the handler ran between
\* the read and the write of a CMD_LOCALBUS_FIELD that changes that byte.  A
\* field of a SoC register, which CMD_REG_WRITE changes without the
\* semaphore, can only be lost when two changes of it met.
LbFieldsKept ==
  /\ LbTypeOK
  /\ \A b \in LbBytes : lbCpld[b] = lbWant[b] \/ (b = IntClear /\ "cleared" \in lbSeen)
  /\ lbSem # LbNone => lbPc[lbSem] \in LbSemStages \/ "llfailed" \in lbSeen
  /\ lbReg = lbRegWant \/ "unlocked" \in lbSeen

\* As long as nobody switches the long-light interrupt on (which sets
\* irq_enable for it, localbus_dev.c:769) and no release() crosses a CFG,
\* irq_enable says whether the handler is registered, it is freed once, and
\* a module that is unloaded leaves neither handler nor tasklet behind,
\* unless a file was inherited, so that its last close was not the owner's.
LbIrqOwned ==
  lbSeen \cap {"longlight", "crossed"} = {} =>
    /\ ~lbBadFree
    /\ (\A p \in LbProcs : lbPc[p] \notin LbCfgStages \cup LbRelStages)
         => lbIrqs = IF lbIrqEn THEN 1 ELSE 0
    /\ lbMod = "gone" /\ "shared" \notin lbSeen => lbIrqs = 0 /\ ~lbTlet

=============================================================================
