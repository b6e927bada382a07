---------------------------- MODULE DeviceProofs ----------------------------
(***************************************************************************)
(* The device drivers, proved for any set of processes and any mix of      *)
(* calls: the local bus driver, the long-light detection, the MDIO driver, *)
(* the AER injector, and of the UART driver its resources, its line        *)
(* settings, the reception on a QE port and the clock multiplexer.  Each   *)
(* inductive invariant says what the model checker's property rests on:    *)
(* who may be inside, what the semaphore protects, which stage of a call   *)
(* goes with which state of the hardware, where the characters are.        *)
(*                                                                         *)
(* The theorems about the resources of the UART driver assume what the     *)
(* driver relies on without saying so: the kernel does not preempt a       *)
(* process inside rctty_open(), and nobody opens a file before             *)
(* rc_tty_init() has returned.                                             *)
(***************************************************************************)
EXTENDS LocalbusDev, Longlight, MdioDev, AerInject, MC_UartHw,
        FiniteSetTheorems, SequenceTheorems, TLAPS

-----------------------------------------------------------------------------
(* The local bus driver                                                    *)

\* Nobody is inside before the module is loaded and after it is unloaded.
LbOut == lbMod # "live" => \A p \in LbProcs : lbFiles[p] = {} /\ lbPc[p] = "idle"

\* opl_reg_open_count counts the files that are open or being released.
LbHeld == {f \in LbProcs : lbFiles[f] # {}}
LbLeaving == {p \in LbProcs : lbPc[p] \in LbRelStages}
LbCounted == lbCount = Cardinality(LbHeld) + Cardinality(LbLeaving)

\* A call that is inside the semaphore holds it.
LbSemHeld ==
  /\ \A p \in LbProcs : lbPc[p] \in LbSemStages => lbSem = p
  /\ lbSem # LbNone => lbPc[lbSem] \in LbSemStages \/ "llfailed" \in lbSeen

\* What a call has read and will write back is still what is there.
\* The handler's write to IntClear is the one that does not wait for the
\* semaphore.
LbSpoilt(b) == b = IntClear /\ "cleared" \in lbSeen
LbReadFresh ==
  /\ \A b \in LbBytes : lbCpld[b] = lbWant[b] \/ LbSpoilt(b)
  /\ \A p \in LbProcs :
       lbPc[p] = "field" => lbOld[p] = lbCpld[lbArg[p][1]] \/ LbSpoilt(lbArg[p][1])
LbRegFresh ==
  "unlocked" \notin lbSeen =>
    /\ lbReg = lbRegWant
    /\ \A p \in LbProcs : lbPc[p] \in LbRegStages => lbOld[p] = lbReg

\* The interrupt as long as no long-light request and no crossing came between:
\* one process at a time changes it, and how far it is says what is registered.
LbCalm == lbSeen \cap {"longlight", "crossed"} = {}
LbIrqStages == LbCfgStages \cup {"relirq", "relfree"}
LbIrqAlone ==
  LbCalm => \A p, q \in LbProcs : lbPc[p] \in LbIrqStages /\ lbPc[q] \in LbIrqStages => p = q
LbIrqTold ==
  LbCalm =>
    /\ ~lbBadFree
    /\ (\A p \in LbProcs : lbPc[p] \notin LbIrqStages) => lbIrqs = IF lbIrqEn THEN 1 ELSE 0
    /\ \A p \in LbProcs :
         /\ lbPc[p] = "relirq" => lbIrqEn /\ lbIrqs = 1 /\ lbOwner = p
         /\ lbPc[p] \in {"relfree", "cfgfree"} => ~lbIrqEn /\ lbIrqs = 1
         /\ lbPc[p] = "cfgreq" => ~lbIrqEn /\ lbIrqs = 0 /\ lbOwner = p
LbTletOwned == lbTlet => lbIrqs > 0

\* Files that nobody inherited: the owner of the interrupt still has its own
\* open, or is releasing it.
LbOwnFiles ==
  "shared" \notin lbSeen =>
    /\ \A f \in LbProcs : lbFiles[f] \subseteq {f}
    /\ LbCalm /\ lbIrqEn =>
         lbOwner \in LbProcs /\ (lbFiles[lbOwner] # {} \/ lbPc[lbOwner] = "relirq")
    /\ LbCalm => \A p \in LbProcs : lbPc[p] = "cfgreq" => lbFiles[p] # {}

\* The long-light request has been seen.
LbLlSeen == \A p \in LbProcs : lbPc[p] = "llreq" => "longlight" \in lbSeen

LbInv ==
  /\ LbTypeOK /\ LbCounted /\ LbOut /\ LbSemHeld /\ LbReadFresh /\ LbRegFresh
  /\ LbIrqAlone /\ LbIrqTold /\ LbTletOwned /\ LbOwnFiles /\ LbLlSeen

\* The type invariant by kinds of variables: the provers take flags and numbers apart.
LbFlagsT ==
  /\ lbOpened \in BOOLEAN /\ lbWide \in BOOLEAN /\ lbCs16 \in BOOLEAN
  /\ lbIrqEn \in BOOLEAN /\ lbLlEn \in BOOLEAN /\ lbTlet \in BOOLEAN
  /\ lbBadFree \in BOOLEAN
LbFilesT ==
  /\ lbMenu \subseteq LbCalls
  /\ lbMod \in {"out", "live", "gone"}
  /\ lbFiles \in [LbProcs -> SUBSET LbProcs]
LbProcsT ==
  /\ lbSem \in LbProcs \cup {LbNone} /\ lbOwner \in LbProcs \cup {LbNone}
  /\ lbPc \in [LbProcs -> {"idle", "reg"} \cup LbSemStages \cup LbRelStages]
LbLocalsT ==
  /\ lbOld \in [LbProcs -> LbWord]
  /\ lbArg \in [LbProcs -> LbBytes \X LbFields \X LbValues]
LbDataT ==
  /\ lbCpld \in [LbBytes -> LbWord] /\ lbWant \in [LbBytes -> LbWord]
  /\ lbReg \in LbWord /\ lbRegWant \in LbWord
LbIrqsT ==
  /\ lbIrqs \in Nat /\ lbLlIrqs \in Nat
  /\ lbSeen \subseteq {"shared", "longlight", "llfailed", "crossed", "unlocked", "cleared"}

\* The type invariant is the conjunction of those kinds, before a step and
\* after it.
LEMMA LbTypeParts ==
  /\ LbTypeOK <=> /\ LbFlagsT /\ LbFilesT /\ LbProcsT /\ LbLocalsT /\ LbDataT /\ LbIrqsT
                  /\ lbCount \in Nat
  /\ LbTypeOK' <=> /\ LbFlagsT' /\ LbFilesT' /\ LbProcsT' /\ LbLocalsT' /\ LbDataT' /\ LbIrqsT'
                   /\ lbCount' \in Nat
  BY Zenon DEF LbTypeOK, LbFlagsT, LbFilesT, LbProcsT, LbLocalsT, LbDataT, LbIrqsT

\* The inductive invariant holds before the module is loaded.
LEMMA LbInitInv == LbInit => LbInv
<1> SUFFICES ASSUME LbInit PROVE LbInv
  OBVIOUS
<1>1. LbFlagsT
  BY Zenon DEF LbInit, LbFlagsT
<1>2. LbFilesT /\ LbProcsT /\ LbLocalsT /\ LbDataT /\ LbIrqsT /\ lbCount \in Nat
  BY LbAssumption DEF LbInit, LbFilesT, LbProcsT, LbLocalsT, LbDataT, LbIrqsT, LbWord, LbBytes,
     LbFields, LbValues, LbZero, LbNoArg
<1>3. LbCounted
  <2>1. LbHeld = {} /\ LbLeaving = {}
    BY DEF LbInit, LbHeld, LbLeaving, LbRelStages
  <2>2. QED
    BY <2>1, FS_EmptySet DEF LbCounted, LbInit
<1>4. LbOut /\ LbSemHeld /\ LbReadFresh /\ LbRegFresh
  BY DEF LbInit, LbOut, LbSemHeld, LbReadFresh, LbRegFresh, LbSemStages, LbCfgStages, LbRegStages
<1>5. LbIrqAlone /\ LbIrqTold /\ LbTletOwned /\ LbOwnFiles /\ LbLlSeen
  BY DEF LbInit, LbIrqAlone, LbIrqTold, LbTletOwned, LbOwnFiles, LbLlSeen, LbIrqStages,
     LbCfgStages
<1>6. QED
  BY <1>1, <1>2, <1>3, <1>4, <1>5, LbTypeParts DEF LbInv

\* All of them but the open count, whose type needs the counting argument.
LbTypes == LbFlagsT /\ LbFilesT /\ LbProcsT /\ LbLocalsT /\ LbDataT /\ LbIrqsT

\* Every operation leaves every variable but the open count with its type.
LEMMA LbTypeStep == LbTypeOK /\ [LbNext]_lbVars => LbTypes'
<1> SUFFICES ASSUME LbTypes, [LbNext]_lbVars PROVE LbTypes'
  BY LbTypeParts DEF LbTypes
<1> USE LbAssumption DEF LbTypes, LbFlagsT, LbFilesT, LbProcsT, LbLocalsT, LbDataT, LbIrqsT,
        LbSemStages,
        LbCfgStages, LbRelStages, lbFileVars, lbBusVars, lbIrqVars, lbProcVars
<1>1. CASE ext_localbus_init
  <2>1. LbFilesT' /\ LbProcsT' /\ LbLocalsT' /\ LbDataT' /\ LbIrqsT'
    BY <1>1 DEF ext_localbus_init
  <2>2. LbFlagsT'
    BY <1>1 DEF ext_localbus_init
  <2>3. QED
    BY <2>1, <2>2
<1>2. CASE ext_localbus_free
  <2>1. LbFilesT' /\ LbProcsT' /\ LbLocalsT' /\ LbDataT' /\ LbIrqsT'
    BY <1>2 DEF ext_localbus_free
  <2>2. LbFlagsT'
    BY <1>2 DEF ext_localbus_free
  <2>3. QED
    BY <2>1, <2>2
<1>3. CASE irq2sig_interrupt
  <2>1. LbFilesT' /\ LbProcsT' /\ LbLocalsT' /\ LbIrqsT'
    BY <1>3 DEF irq2sig_interrupt
  <2>2. LbFlagsT'
    BY <1>3, Zenon DEF irq2sig_interrupt
  <2>3. LbDataT'
    BY <1>3 DEF irq2sig_interrupt, LbWord, LbFields, LbValues, LbBytes, LbZero, IntClear
  <2>4. QED
    BY <2>1, <2>2, <2>3
<1>4. CASE irq2sig_action
  <2>1. LbFilesT' /\ LbProcsT' /\ LbLocalsT' /\ LbDataT' /\ LbIrqsT'
    BY <1>4 DEF irq2sig_action
  <2>2. LbFlagsT'
    BY <1>4 DEF irq2sig_action
  <2>3. QED
    BY <2>1, <2>2
<1>5. CASE longlight_interrupt
  <2>1. LbFilesT' /\ LbProcsT' /\ LbLocalsT' /\ LbIrqsT'
    BY <1>5 DEF longlight_interrupt, Meeting
  <2>2. LbFlagsT'
    BY <1>5 DEF longlight_interrupt, Meeting
  <2>3. LbDataT'
    BY <1>5 DEF longlight_interrupt, Meeting, LbWord, LbFields, LbValues, LbBytes, LbZero, LbNoArg,
       LightField
  <2>4. QED
    BY <2>1, <2>2, <2>3
<1>6. ASSUME NEW p \in LbProcs, ext_localbus_open(p) PROVE LbTypes'
  <2>1. LbFilesT' /\ LbProcsT' /\ LbLocalsT' /\ LbDataT' /\ LbIrqsT'
    BY <1>6 DEF ext_localbus_open
  <2>2. LbFlagsT'
    BY <1>6, Zenon DEF ext_localbus_open
  <2>3. QED
    BY <2>1, <2>2
<1>7. ASSUME NEW p \in LbProcs, ReleaseIrq(p) PROVE LbTypes'
  <2>1. LbFilesT' /\ LbProcsT' /\ LbLocalsT' /\ LbDataT' /\ LbIrqsT'
    BY <1>7 DEF ReleaseIrq
  <2>2. LbFlagsT'
    BY <1>7 DEF ReleaseIrq
  <2>3. QED
    BY <2>1, <2>2
<1>8. ASSUME NEW p \in LbProcs, ReleaseFree(p) PROVE LbTypes'
  <2>1. LbFilesT' /\ LbProcsT' /\ LbLocalsT' /\ LbDataT' /\ LbIrqsT'
    BY <1>8 DEF ReleaseFree, irq_free, LbFreeIrq
  <2>2. LbFlagsT'
    BY <1>8, Zenon DEF ReleaseFree, irq_free, LbFreeIrq
  <2>3. QED
    BY <2>1, <2>2
<1>9. ASSUME NEW p \in LbProcs, ReleaseCount(p) PROVE LbTypes'
  <2>1. LbFilesT' /\ LbProcsT' /\ LbLocalsT' /\ LbDataT' /\ LbIrqsT'
    BY <1>9 DEF ReleaseCount
  <2>2. LbFlagsT'
    BY <1>9, Zenon DEF ReleaseCount
  <2>3. QED
    BY <2>1, <2>2
<1>10. ASSUME NEW p \in LbProcs, NEW f \in LbProcs, LbClose(p, f) PROVE LbTypes'
  <2>1. LbFilesT' /\ LbProcsT' /\ LbLocalsT' /\ LbDataT' /\ LbIrqsT'
    BY <1>10 DEF LbClose, OwnsIrq
  <2>2. LbFlagsT'
    BY <1>10 DEF LbClose, OwnsIrq
  <2>3. QED
    BY <2>1, <2>2
<1>11. ASSUME NEW p \in LbProcs, NEW q \in LbProcs, NEW f \in LbProcs, LbFork(p, q, f)
       PROVE  LbTypes'
  <2>1. LbFilesT' /\ LbProcsT' /\ LbLocalsT' /\ LbDataT' /\ LbIrqsT'
    BY <1>11 DEF LbFork
  <2>2. LbFlagsT'
    BY <1>11 DEF LbFork
  <2>3. QED
    BY <2>1, <2>2
<1>12. ASSUME NEW p \in LbProcs, LocalbusFieldWrite(p) PROVE LbTypes'
  <2>1. LbFilesT' /\ LbProcsT' /\ LbIrqsT'
    BY <1>12 DEF LocalbusFieldWrite, Return
  <2>2. LbFlagsT'
    BY <1>12 DEF LocalbusFieldWrite, Return
  <2>3. LbLocalsT'
    BY <1>12 DEF LocalbusFieldWrite, Return, LbWord, LbFields, LbValues, LbBytes, LbZero,
       LbNoArg, LightField
  <2>4. LbDataT'
    <3>1. lbArg[p][1] \in LbBytes /\ lbArg[p][2] \in LbFields /\ lbArg[p][3] \in LbValues
      OBVIOUS
    <3>2. [lbOld[p] EXCEPT ![lbArg[p][2]] = lbArg[p][3]] \in LbWord
      BY <3>1 DEF LbWord
    <3>3. [lbWant[lbArg[p][1]] EXCEPT ![lbArg[p][2]] = lbArg[p][3]] \in LbWord
      BY <3>1 DEF LbWord
    <3>4. QED
      BY <1>12, <3>1, <3>2, <3>3 DEF LocalbusFieldWrite
  <2>5. QED
    BY <2>1, <2>2, <2>3, <2>4
<1>13. ASSUME NEW p \in LbProcs, NEW wide \in BOOLEAN, LocalbusWidth(p, wide) PROVE LbTypes'
  <2>1. LbFilesT' /\ LbProcsT' /\ LbLocalsT' /\ LbDataT' /\ LbIrqsT'
    BY <1>13 DEF LocalbusWidth, Down, MayCall
  <2>2. LbFlagsT'
    BY <1>13, Zenon DEF LocalbusWidth, Down, MayCall
  <2>3. QED
    BY <2>1, <2>2
<1>14. ASSUME NEW p \in LbProcs, NEW v \in LbValues, LocalbusWrite(p, v) PROVE LbTypes'
  <2>1. LbFilesT' /\ LbProcsT' /\ LbLocalsT' /\ LbIrqsT'
    BY <1>14 DEF LocalbusWrite, Down, MayCall
  <2>2. LbFlagsT'
    BY <1>14 DEF LocalbusWrite, Down, MayCall
  <2>3. LbDataT'
    <3>1. [f \in LbFields |-> v] \in LbWord
      BY DEF LbWord
    <3>2. lbCpld' \in [LbBytes -> LbWord] /\ lbWant' \in [LbBytes -> LbWord]
      BY <1>14, <3>1 DEF LocalbusWrite, Down, MayCall, SetBytes
    <3>3. QED
      BY <1>14, <3>2 DEF LocalbusWrite, Down, MayCall
  <2>4. QED
    BY <2>1, <2>2, <2>3
<1>15. ASSUME NEW p \in LbProcs, NEW n \in 1 .. 3, NEW v \in LbValues, ext_localbus_write(p, n, v)
       PROVE  LbTypes'
  <2>1. LbFilesT' /\ LbProcsT' /\ LbLocalsT' /\ LbIrqsT'
    BY <1>15 DEF ext_localbus_write, Down, MayCall
  <2>2. LbFlagsT'
    BY <1>15 DEF ext_localbus_write, Down, MayCall
  <2>3. LbDataT'
    <3>1. [f \in LbFields |-> v] \in LbWord
      BY DEF LbWord
    <3>2. lbCpld' \in [LbBytes -> LbWord] /\ lbWant' \in [LbBytes -> LbWord]
      BY <1>15, <3>1 DEF ext_localbus_write, Down, MayCall, SetBytes
    <3>3. QED
      BY <1>15, <3>2 DEF ext_localbus_write, Down, MayCall
  <2>4. QED
    BY <2>1, <2>2, <2>3
<1>16. ASSUME NEW p \in LbProcs, NEW a \in LbAsks, LocalbusField(p, a)
       PROVE  LbTypes'
  <2>1. LbFilesT' /\ LbProcsT' /\ LbLocalsT' /\ LbDataT' /\ LbIrqsT'
    BY <1>16 DEF LocalbusField, Down, MayCall
  <2>2. LbFlagsT'
    BY <1>16 DEF LocalbusField, Down, MayCall
  <2>3. QED
    BY <2>1, <2>2
<1>17. ASSUME NEW p \in LbProcs, LocalbusIrqOff(p) PROVE LbTypes'
  <2>1. LbFilesT' /\ LbProcsT' /\ LbLocalsT' /\ LbDataT' /\ LbIrqsT'
    BY <1>17 DEF LocalbusIrqOff, Down, MayCall, Crossing
  <2>2. LbFlagsT'
    BY <1>17 DEF LocalbusIrqOff, Down, MayCall, Crossing
  <2>3. QED
    BY <2>1, <2>2
<1>18. ASSUME NEW p \in LbProcs, LocalbusIrqFreed(p) PROVE LbTypes'
  <2>1. LbFilesT' /\ LbProcsT' /\ LbLocalsT' /\ LbDataT' /\ LbIrqsT'
    BY <1>18 DEF LocalbusIrqFreed, irq_free, LbFreeIrq
  <2>2. LbFlagsT'
    BY <1>18, Zenon DEF LocalbusIrqFreed, irq_free, LbFreeIrq
  <2>3. QED
    BY <2>1, <2>2
<1>19. ASSUME NEW p \in LbProcs, LocalbusIrqOn(p) PROVE LbTypes'
  <2>1. LbFilesT' /\ LbProcsT' /\ LbLocalsT' /\ LbDataT' /\ LbIrqsT'
    BY <1>19 DEF LocalbusIrqOn, Down, MayCall, Crossing
  <2>2. LbFlagsT'
    BY <1>19 DEF LocalbusIrqOn, Down, MayCall, Crossing
  <2>3. QED
    BY <2>1, <2>2
<1>20. ASSUME NEW p \in LbProcs, NEW ok \in BOOLEAN, irq_init(p, ok) PROVE LbTypes'
  <2>1. LbFilesT' /\ LbProcsT' /\ LbIrqsT'
    BY <1>20 DEF irq_init, Return, Meeting
  <2>2. LbFlagsT'
    BY <1>20, Zenon DEF irq_init, Return, Meeting
  <2>3. LbLocalsT'
    BY <1>20 DEF irq_init, Return, LbWord, LbFields, LbValues, LbBytes, LbZero, LbNoArg
  <2>4. LbArmed \in [LbBytes -> LbWord]
    BY DEF LbArmed, LbWord, LbFields, LbValues, LbBytes, LbZero, LbOnes
  <2>5. lbReg' \in LbWord /\ lbRegWant' \in LbWord
    BY <1>20 DEF irq_init, LbWord, LbFields, LbValues, PinField
  <2>6. LbDataT'
    BY <1>20, <2>4, <2>5 DEF irq_init
  <2>7. QED
    BY <2>1, <2>2, <2>3, <2>6
<1>21. ASSUME NEW p \in LbProcs, LongLightOn(p) PROVE LbTypes'
  <2>1. LbFilesT' /\ LbProcsT' /\ LbLocalsT' /\ LbDataT' /\ LbIrqsT'
    BY <1>21 DEF LongLightOn, Down, MayCall
  <2>2. LbFlagsT'
    BY <1>21 DEF LongLightOn, Down, MayCall
  <2>3. QED
    BY <2>1, <2>2
<1>22. ASSUME NEW p \in LbProcs, LongLightRequested(p) PROVE LbTypes'
  <2>1. LbFilesT' /\ LbProcsT'
    BY <1>22 DEF LongLightRequested, Return
  <2>2. LbFlagsT'
    BY <1>22, Zenon DEF LongLightRequested
  <2>3. LbIrqsT'
    <3>1. lbIrqs' = lbIrqs /\ lbIrqs \in Nat /\ lbLlIrqs \in Nat
      BY <1>22 DEF LongLightRequested
    <3>2. lbLlIrqs' = lbLlIrqs \/ lbLlIrqs' = lbLlIrqs + 1
      BY <1>22, Zenon DEF LongLightRequested
    <3>3. lbSeen' \subseteq lbSeen \cup {"llfailed", "unlocked"}
      BY <1>22 DEF LongLightRequested, Meeting
    <3>4. lbSeen \subseteq {"shared", "longlight", "llfailed", "crossed", "unlocked", "cleared"}
      OBVIOUS
    <3>5. lbLlIrqs' \in Nat
      BY ONLY <3>1, <3>2
    <3>6. lbSeen' \subseteq {"shared", "longlight", "llfailed", "crossed", "unlocked", "cleared"}
      BY ONLY <3>3, <3>4
    <3>7. QED
      BY ONLY <3>1, <3>5, <3>6 DEF LbIrqsT
  <2>4. LbLocalsT'
    BY <1>22 DEF LongLightRequested, Return, LbWord, LbFields, LbValues, LbBytes, LbZero, LbNoArg
  <2>5. LbDataT'
    BY <1>22 DEF LongLightRequested, LbWord, LbFields, LbValues, LightField
  <2>6. QED
    BY <2>1, <2>2, <2>3, <2>4, <2>5
<1>23. ASSUME NEW p \in LbProcs, NEW a \in {0} \X LbFields \X LbValues, RegWrite(p, a)
       PROVE  LbTypes'
  <2>1. LbFilesT' /\ LbProcsT' /\ LbDataT' /\ LbIrqsT'
    BY <1>23 DEF RegWrite, MayCall
  <2>2. LbFlagsT'
    BY <1>23 DEF RegWrite, MayCall
  <2>3. LbLocalsT'
    BY <1>23 DEF RegWrite, MayCall, LbWord, LbFields, LbValues, LbBytes, LbZero, LbNoArg,
       LightField
  <2>4. QED
    BY <2>1, <2>2, <2>3
<1>24. ASSUME NEW p \in LbProcs, RegWritten(p) PROVE LbTypes'
  <2>1. LbFilesT' /\ LbProcsT' /\ LbIrqsT'
    BY <1>24 DEF RegWritten, Return, Meeting
  <2>2. LbFlagsT'
    BY <1>24 DEF RegWritten, Return, Meeting
  <2>3. LbLocalsT'
    BY <1>24 DEF RegWritten, Return, Meeting, LbWord, LbFields, LbValues, LbBytes, LbZero, LbNoArg,
       LightField
  <2>4. LbDataT'
    <3>1. lbArg[p][2] \in LbFields /\ lbArg[p][3] \in LbValues
      OBVIOUS
    <3>2. lbReg' \in LbWord /\ lbRegWant' \in LbWord
      BY <1>24, <3>1 DEF RegWritten, LbWord
    <3>3. QED
      BY <1>24, <3>2 DEF RegWritten
  <2>5. QED
    BY <2>1, <2>2, <2>3, <2>4
<1>25. CASE UNCHANGED lbVars
  <2>1. LbFilesT' /\ LbProcsT' /\ LbLocalsT' /\ LbDataT' /\ LbIrqsT'
    BY <1>25 DEF lbVars
  <2>2. LbFlagsT'
    BY <1>25 DEF lbVars
  <2>3. QED
    BY <2>1, <2>2
<1>26. QED
  BY <1>1, <1>2, <1>3, <1>4, <1>5, <1>6, <1>7, <1>8, <1>9, <1>10, <1>11,
     <1>12, <1>13, <1>14, <1>15, <1>16, <1>17, <1>18, <1>19, <1>20, <1>21,
     <1>22, <1>23, <1>24, <1>25 DEF LbNext

\* The device is only used between loading and unloading: open() needs the
\* module live, everything else an open file, and unloading waits for the
\* last one.
LEMMA LbOutStep == LbTypeOK /\ LbOut /\ [LbNext]_lbVars => LbOut'
<1> SUFFICES ASSUME LbTypeOK, LbOut, [LbNext]_lbVars PROVE LbOut'
  OBVIOUS
<1>a. LbFlagsT /\ LbFilesT /\ LbProcsT /\ LbLocalsT /\ LbDataT /\ LbIrqsT /\ lbCount \in Nat
  BY LbTypeParts
<1> USE <1>a, LbAssumption DEF LbOut, LbFilesT, LbProcsT, LbSemStages, LbCfgStages, LbRelStages,
        lbFileVars, lbBusVars, lbIrqVars, lbProcVars
<1>1. CASE ext_localbus_init
  BY <1>1 DEF ext_localbus_init
<1>2. CASE ext_localbus_free
  BY <1>2 DEF ext_localbus_free
<1>3. CASE irq2sig_interrupt
  BY <1>3 DEF irq2sig_interrupt
<1>4. CASE irq2sig_action
  BY <1>4 DEF irq2sig_action
<1>5. CASE longlight_interrupt
  BY <1>5 DEF longlight_interrupt, Meeting
<1>6. ASSUME NEW p \in LbProcs, ext_localbus_open(p) PROVE LbOut'
  BY <1>6 DEF ext_localbus_open
<1>7. ASSUME NEW p \in LbProcs, ReleaseIrq(p) PROVE LbOut'
  BY <1>7 DEF ReleaseIrq
<1>8. ASSUME NEW p \in LbProcs, ReleaseFree(p) PROVE LbOut'
  BY <1>8 DEF ReleaseFree, irq_free, LbFreeIrq
<1>9. ASSUME NEW p \in LbProcs, ReleaseCount(p) PROVE LbOut'
  BY <1>9 DEF ReleaseCount
<1>10. ASSUME NEW p \in LbProcs, NEW f \in LbProcs, LbClose(p, f) PROVE LbOut'
  BY <1>10 DEF LbClose, OwnsIrq
<1>11. ASSUME NEW p \in LbProcs, NEW q \in LbProcs, NEW f \in LbProcs, LbFork(p, q, f)
       PROVE  LbOut'
  BY <1>11 DEF LbFork
<1>12. ASSUME NEW p \in LbProcs, LocalbusFieldWrite(p) PROVE LbOut'
  BY <1>12 DEF LocalbusFieldWrite, Return
<1>13. ASSUME NEW p \in LbProcs, NEW wide \in BOOLEAN, LocalbusWidth(p, wide) PROVE LbOut'
  BY <1>13 DEF LocalbusWidth, Down, MayCall
<1>14. ASSUME NEW p \in LbProcs, NEW v \in LbValues, LocalbusWrite(p, v) PROVE LbOut'
  BY <1>14 DEF LocalbusWrite, Down, MayCall
<1>15. ASSUME NEW p \in LbProcs, NEW n \in 1 .. 3, NEW v \in LbValues, ext_localbus_write(p, n, v)
       PROVE  LbOut'
  BY <1>15 DEF ext_localbus_write, Down, MayCall
<1>16. ASSUME NEW p \in LbProcs, NEW a \in LbAsks, LocalbusField(p, a)
       PROVE  LbOut'
  BY <1>16 DEF LocalbusField, Down, MayCall
<1>17. ASSUME NEW p \in LbProcs, LocalbusIrqOff(p) PROVE LbOut'
  BY <1>17 DEF LocalbusIrqOff, Down, MayCall, Crossing
<1>18. ASSUME NEW p \in LbProcs, LocalbusIrqFreed(p) PROVE LbOut'
  BY <1>18 DEF LocalbusIrqFreed, irq_free, LbFreeIrq
<1>19. ASSUME NEW p \in LbProcs, LocalbusIrqOn(p) PROVE LbOut'
  BY <1>19 DEF LocalbusIrqOn, Down, MayCall, Crossing
<1>20. ASSUME NEW p \in LbProcs, NEW ok \in BOOLEAN, irq_init(p, ok) PROVE LbOut'
  BY <1>20 DEF irq_init, Return, Meeting
<1>21. ASSUME NEW p \in LbProcs, LongLightOn(p) PROVE LbOut'
  BY <1>21 DEF LongLightOn, Down, MayCall
<1>22. ASSUME NEW p \in LbProcs, LongLightRequested(p) PROVE LbOut'
  BY <1>22 DEF LongLightRequested, Return, Meeting
<1>23. ASSUME NEW p \in LbProcs, NEW a \in {0} \X LbFields \X LbValues, RegWrite(p, a)
       PROVE  LbOut'
  BY <1>23 DEF RegWrite, MayCall
<1>24. ASSUME NEW p \in LbProcs, RegWritten(p) PROVE LbOut'
  BY <1>24 DEF RegWritten, Return, Meeting
<1>25. CASE UNCHANGED lbVars
  BY <1>25 DEF lbVars
<1>26. QED
  BY <1>1, <1>2, <1>3, <1>4, <1>5, <1>6, <1>7, <1>8, <1>9, <1>10, <1>11,
     <1>12, <1>13, <1>14, <1>15, <1>16, <1>17, <1>18, <1>19, <1>20, <1>21,
     <1>22, <1>23, <1>24, <1>25 DEF LbNext

\* down_interruptible() and up() bracket every call that works on the CPLD or
\* the interrupts; only a failed long-light request returns without up().
LEMMA LbSemStep == LbTypeOK /\ LbOut /\ LbSemHeld /\ [LbNext]_lbVars => LbSemHeld'
<1> SUFFICES ASSUME LbTypeOK, LbOut, LbSemHeld, [LbNext]_lbVars PROVE LbSemHeld'
  OBVIOUS
<1>a. LbFlagsT /\ LbFilesT /\ LbProcsT /\ LbLocalsT /\ LbDataT /\ LbIrqsT /\ lbCount \in Nat
  BY LbTypeParts
<1> USE <1>a, LbAssumption DEF LbOut, LbSemHeld, LbProcsT, LbSemStages, LbCfgStages,
        LbRelStages, lbFileVars, lbBusVars, lbIrqVars, lbProcVars
<1>1. CASE ext_localbus_init
  BY <1>1 DEF ext_localbus_init
<1>2. CASE ext_localbus_free
  BY <1>2 DEF ext_localbus_free
<1>3. CASE irq2sig_interrupt
  BY <1>3 DEF irq2sig_interrupt
<1>4. CASE irq2sig_action
  BY <1>4 DEF irq2sig_action
<1>5. CASE longlight_interrupt
  BY <1>5 DEF longlight_interrupt, Meeting
<1>6. ASSUME NEW p \in LbProcs, ext_localbus_open(p) PROVE LbSemHeld'
  BY <1>6 DEF ext_localbus_open
<1>7. ASSUME NEW p \in LbProcs, ReleaseIrq(p) PROVE LbSemHeld'
  BY <1>7 DEF ReleaseIrq
<1>8. ASSUME NEW p \in LbProcs, ReleaseFree(p) PROVE LbSemHeld'
  BY <1>8 DEF ReleaseFree, irq_free, LbFreeIrq
<1>9. ASSUME NEW p \in LbProcs, ReleaseCount(p) PROVE LbSemHeld'
  BY <1>9 DEF ReleaseCount
<1>10. ASSUME NEW p \in LbProcs, NEW f \in LbProcs, LbClose(p, f) PROVE LbSemHeld'
  BY <1>10 DEF LbClose, OwnsIrq
<1>11. ASSUME NEW p \in LbProcs, NEW q \in LbProcs, NEW f \in LbProcs, LbFork(p, q, f)
       PROVE  LbSemHeld'
  BY <1>11 DEF LbFork
<1>12. ASSUME NEW p \in LbProcs, LocalbusFieldWrite(p) PROVE LbSemHeld'
  BY <1>12 DEF LocalbusFieldWrite, Return
<1>13. ASSUME NEW p \in LbProcs, NEW wide \in BOOLEAN, LocalbusWidth(p, wide) PROVE LbSemHeld'
  BY <1>13 DEF LocalbusWidth, Down, MayCall
<1>14. ASSUME NEW p \in LbProcs, NEW v \in LbValues, LocalbusWrite(p, v) PROVE LbSemHeld'
  BY <1>14 DEF LocalbusWrite, Down, MayCall
<1>15. ASSUME NEW p \in LbProcs, NEW n \in 1 .. 3, NEW v \in LbValues, ext_localbus_write(p, n, v)
       PROVE  LbSemHeld'
  BY <1>15 DEF ext_localbus_write, Down, MayCall
<1>16. ASSUME NEW p \in LbProcs, NEW a \in LbAsks, LocalbusField(p, a)
       PROVE  LbSemHeld'
  BY <1>16 DEF LocalbusField, Down, MayCall
<1>17. ASSUME NEW p \in LbProcs, LocalbusIrqOff(p) PROVE LbSemHeld'
  BY <1>17 DEF LocalbusIrqOff, Down, MayCall, Crossing
<1>18. ASSUME NEW p \in LbProcs, LocalbusIrqFreed(p) PROVE LbSemHeld'
  BY <1>18 DEF LocalbusIrqFreed, irq_free, LbFreeIrq
<1>19. ASSUME NEW p \in LbProcs, LocalbusIrqOn(p) PROVE LbSemHeld'
  BY <1>19 DEF LocalbusIrqOn, Down, MayCall, Crossing
<1>20. ASSUME NEW p \in LbProcs, NEW ok \in BOOLEAN, irq_init(p, ok) PROVE LbSemHeld'
  BY <1>20 DEF irq_init, Return, Meeting
<1>21. ASSUME NEW p \in LbProcs, LongLightOn(p) PROVE LbSemHeld'
  BY <1>21 DEF LongLightOn, Down, MayCall
<1>22. ASSUME NEW p \in LbProcs, LongLightRequested(p) PROVE LbSemHeld'
  BY <1>22 DEF LongLightRequested, Return, Meeting
<1>23. ASSUME NEW p \in LbProcs, NEW a \in {0} \X LbFields \X LbValues, RegWrite(p, a)
       PROVE  LbSemHeld'
  BY <1>23 DEF RegWrite, MayCall
<1>24. ASSUME NEW p \in LbProcs, RegWritten(p) PROVE LbSemHeld'
  BY <1>24 DEF RegWritten, Return, Meeting
<1>25. CASE UNCHANGED lbVars
  BY <1>25 DEF lbVars
<1>26. QED
  BY <1>1, <1>2, <1>3, <1>4, <1>5, <1>6, <1>7, <1>8, <1>9, <1>10, <1>11,
     <1>12, <1>13, <1>14, <1>15, <1>16, <1>17, <1>18, <1>19, <1>20, <1>21,
     <1>22, <1>23, <1>24, <1>25 DEF LbNext

\* CMD_LOCALBUS_FIELD: nobody changes the byte between its read and its
\* write, because every other writer needs the semaphore, the handler of the
\* interrupt apart, which writes to 0x16 only.
LEMMA LbReadStep ==
  LbTypeOK /\ LbOut /\ LbSemHeld /\ LbReadFresh /\ [LbNext]_lbVars => LbReadFresh'
<1> SUFFICES ASSUME LbTypeOK, LbOut, LbSemHeld, LbReadFresh, [LbNext]_lbVars PROVE LbReadFresh'
  OBVIOUS
<1>a. LbFlagsT /\ LbFilesT /\ LbProcsT /\ LbLocalsT /\ LbDataT /\ LbIrqsT /\ lbCount \in Nat
  BY LbTypeParts
<1> USE <1>a, LbAssumption DEF LbSemHeld, LbReadFresh, LbSpoilt, LbProcsT, LbLocalsT, LbDataT,
        LbSemStages, LbCfgStages, LbRelStages, lbFileVars, lbBusVars, lbIrqVars, lbProcVars
<1>1. CASE ext_localbus_init
  BY <1>1 DEF ext_localbus_init
<1>2. CASE ext_localbus_free
  BY <1>2 DEF ext_localbus_free
<1>3. CASE irq2sig_interrupt
  BY <1>3 DEF irq2sig_interrupt
<1>4. CASE irq2sig_action
  BY <1>4 DEF irq2sig_action
<1>5. CASE longlight_interrupt
  BY <1>5 DEF longlight_interrupt, Meeting
<1>6. ASSUME NEW p \in LbProcs, ext_localbus_open(p) PROVE LbReadFresh'
  BY <1>6 DEF ext_localbus_open
<1>7. ASSUME NEW p \in LbProcs, ReleaseIrq(p) PROVE LbReadFresh'
  BY <1>7 DEF ReleaseIrq
<1>8. ASSUME NEW p \in LbProcs, ReleaseFree(p) PROVE LbReadFresh'
  BY <1>8 DEF ReleaseFree, irq_free, LbFreeIrq
<1>9. ASSUME NEW p \in LbProcs, ReleaseCount(p) PROVE LbReadFresh'
  BY <1>9 DEF ReleaseCount
<1>10. ASSUME NEW p \in LbProcs, NEW f \in LbProcs, LbClose(p, f) PROVE LbReadFresh'
  BY <1>10 DEF LbClose, OwnsIrq
<1>11. ASSUME NEW p \in LbProcs, NEW q \in LbProcs, NEW f \in LbProcs, LbFork(p, q, f)
       PROVE  LbReadFresh'
  BY <1>11 DEF LbFork
<1>12. ASSUME NEW p \in LbProcs, LocalbusFieldWrite(p) PROVE LbReadFresh'
  <2> DEFINE b == lbArg[p][1]
             put(w) == [w EXCEPT ![lbArg[p][2]] = lbArg[p][3]]
  <2>1. b \in LbBytes /\ lbPc[p] = "field" /\ lbSeen' = lbSeen
    BY <1>12 DEF LocalbusFieldWrite
  <2>2. \A q \in LbProcs : lbPc'[q] # "field"
    BY <1>12 DEF LocalbusFieldWrite, Return
  <2>3. lbCpld' = [lbCpld EXCEPT ![b] = put(lbOld[p])] /\ lbWant' = [lbWant EXCEPT ![b] = put(@)]
    BY <1>12 DEF LocalbusFieldWrite
  <2>4. lbOld[p] = lbWant[b] \/ LbSpoilt(b)
    BY <2>1
  <2>5. put(lbOld[p]) = put(lbWant[b]) \/ LbSpoilt(b)
    BY ONLY <2>4
  <2> HIDE DEF b, put
  <2>6. \A c \in LbBytes : (lbCpld'[c] = lbWant'[c]) \/ LbSpoilt(c)
    BY <2>1, <2>3, <2>5
  <2>7. QED
    BY <2>1, <2>2, <2>6
<1>13. ASSUME NEW p \in LbProcs, NEW wide \in BOOLEAN, LocalbusWidth(p, wide) PROVE LbReadFresh'
  BY <1>13 DEF LocalbusWidth, Down, MayCall
<1>14. ASSUME NEW p \in LbProcs, NEW v \in LbValues, LocalbusWrite(p, v) PROVE LbReadFresh'
  <2>1. \A q \in LbProcs : lbPc[q] # "field"
    BY <1>14 DEF LocalbusWrite, Down, MayCall
  <2>2. lbPc' = lbPc
    BY <1>14 DEF LocalbusWrite, Down, MayCall
  <2>3. /\ lbSeen' = lbSeen
        /\ \A b \in LbBytes : (lbCpld'[b] = lbWant'[b]) \/ LbSpoilt(b)
    BY <1>14 DEF LocalbusWrite, Down, MayCall, SetBytes
  <2>4. QED
    BY <2>1, <2>2, <2>3
<1>15. ASSUME NEW p \in LbProcs, NEW n \in 1 .. 3, NEW v \in LbValues, ext_localbus_write(p, n, v)
       PROVE  LbReadFresh'
  <2>1. \A q \in LbProcs : lbPc[q] # "field"
    BY <1>15 DEF ext_localbus_write, Down, MayCall
  <2>2. lbPc' = lbPc
    BY <1>15 DEF ext_localbus_write, Down, MayCall
  <2>3. /\ lbSeen' = lbSeen
        /\ \A b \in LbBytes : (lbCpld'[b] = lbWant'[b]) \/ LbSpoilt(b)
    BY <1>15 DEF ext_localbus_write, Down, MayCall, SetBytes
  <2>4. QED
    BY <2>1, <2>2, <2>3
<1>16. ASSUME NEW p \in LbProcs, NEW a \in LbAsks, LocalbusField(p, a)
       PROVE  LbReadFresh'
  BY <1>16 DEF LocalbusField, Down, MayCall
<1>17. ASSUME NEW p \in LbProcs, LocalbusIrqOff(p) PROVE LbReadFresh'
  BY <1>17 DEF LocalbusIrqOff, Down, MayCall, Crossing
<1>18. ASSUME NEW p \in LbProcs, LocalbusIrqFreed(p) PROVE LbReadFresh'
  BY <1>18 DEF LocalbusIrqFreed, irq_free, LbFreeIrq
<1>19. ASSUME NEW p \in LbProcs, LocalbusIrqOn(p) PROVE LbReadFresh'
  BY <1>19 DEF LocalbusIrqOn, Down, MayCall, Crossing
<1>20. ASSUME NEW p \in LbProcs, NEW ok \in BOOLEAN, irq_init(p, ok) PROVE LbReadFresh'
  BY <1>20 DEF irq_init, Return, Meeting
<1>21. ASSUME NEW p \in LbProcs, LongLightOn(p) PROVE LbReadFresh'
  BY <1>21 DEF LongLightOn, Down, MayCall
<1>22. ASSUME NEW p \in LbProcs, LongLightRequested(p) PROVE LbReadFresh'
  BY <1>22 DEF LongLightRequested, Return, Meeting
<1>23. ASSUME NEW p \in LbProcs, NEW a \in {0} \X LbFields \X LbValues, RegWrite(p, a)
       PROVE  LbReadFresh'
  BY <1>23 DEF RegWrite, MayCall
<1>24. ASSUME NEW p \in LbProcs, RegWritten(p) PROVE LbReadFresh'
  BY <1>24 DEF RegWritten, Return, Meeting
<1>25. CASE UNCHANGED lbVars
  BY <1>25 DEF lbVars
<1>26. QED
  BY <1>1, <1>2, <1>3, <1>4, <1>5, <1>6, <1>7, <1>8, <1>9, <1>10, <1>11,
     <1>12, <1>13, <1>14, <1>15, <1>16, <1>17, <1>18, <1>19, <1>20, <1>21,
     <1>22, <1>23, <1>24, <1>25 DEF LbNext

\* CMD_REG_WRITE: a word that was read without the semaphore is only stale
\* when another change of it came in between, which lbSeen records.
LEMMA LbRegStep == LbTypeOK /\ LbRegFresh /\ [LbNext]_lbVars => LbRegFresh'
<1> SUFFICES ASSUME LbTypeOK, LbRegFresh, [LbNext]_lbVars PROVE LbRegFresh'
  OBVIOUS
<1>a. LbFlagsT /\ LbFilesT /\ LbProcsT /\ LbLocalsT /\ LbDataT /\ LbIrqsT /\ lbCount \in Nat
  BY LbTypeParts
<1> USE <1>a, LbAssumption DEF LbRegFresh, LbRegStages, LbProcsT, LbLocalsT, LbDataT, LbSemStages,
        LbCfgStages, LbRelStages, lbFileVars, lbBusVars, lbIrqVars, lbProcVars
<1>1. CASE ext_localbus_init
  BY <1>1 DEF ext_localbus_init
<1>2. CASE ext_localbus_free
  BY <1>2 DEF ext_localbus_free
<1>3. CASE irq2sig_interrupt
  BY <1>3 DEF irq2sig_interrupt
<1>4. CASE irq2sig_action
  BY <1>4 DEF irq2sig_action
<1>5. CASE longlight_interrupt
  BY <1>5 DEF longlight_interrupt, Meeting
<1>6. ASSUME NEW p \in LbProcs, ext_localbus_open(p) PROVE LbRegFresh'
  BY <1>6 DEF ext_localbus_open
<1>7. ASSUME NEW p \in LbProcs, ReleaseIrq(p) PROVE LbRegFresh'
  BY <1>7 DEF ReleaseIrq
<1>8. ASSUME NEW p \in LbProcs, ReleaseFree(p) PROVE LbRegFresh'
  BY <1>8 DEF ReleaseFree, irq_free, LbFreeIrq
<1>9. ASSUME NEW p \in LbProcs, ReleaseCount(p) PROVE LbRegFresh'
  BY <1>9 DEF ReleaseCount
<1>10. ASSUME NEW p \in LbProcs, NEW f \in LbProcs, LbClose(p, f) PROVE LbRegFresh'
  BY <1>10 DEF LbClose, OwnsIrq
<1>11. ASSUME NEW p \in LbProcs, NEW q \in LbProcs, NEW f \in LbProcs, LbFork(p, q, f)
       PROVE  LbRegFresh'
  BY <1>11 DEF LbFork
<1>12. ASSUME NEW p \in LbProcs, LocalbusFieldWrite(p) PROVE LbRegFresh'
  BY <1>12 DEF LocalbusFieldWrite, Return
<1>13. ASSUME NEW p \in LbProcs, NEW wide \in BOOLEAN, LocalbusWidth(p, wide) PROVE LbRegFresh'
  BY <1>13 DEF LocalbusWidth, Down, MayCall
<1>14. ASSUME NEW p \in LbProcs, NEW v \in LbValues, LocalbusWrite(p, v) PROVE LbRegFresh'
  BY <1>14 DEF LocalbusWrite, Down, MayCall
<1>15. ASSUME NEW p \in LbProcs, NEW n \in 1 .. 3, NEW v \in LbValues, ext_localbus_write(p, n, v)
       PROVE  LbRegFresh'
  BY <1>15 DEF ext_localbus_write, Down, MayCall
<1>16. ASSUME NEW p \in LbProcs, NEW a \in LbAsks, LocalbusField(p, a)
       PROVE  LbRegFresh'
  BY <1>16 DEF LocalbusField, Down, MayCall
<1>17. ASSUME NEW p \in LbProcs, LocalbusIrqOff(p) PROVE LbRegFresh'
  BY <1>17 DEF LocalbusIrqOff, Down, MayCall, Crossing
<1>18. ASSUME NEW p \in LbProcs, LocalbusIrqFreed(p) PROVE LbRegFresh'
  BY <1>18 DEF LocalbusIrqFreed, irq_free, LbFreeIrq
<1>19. ASSUME NEW p \in LbProcs, LocalbusIrqOn(p) PROVE LbRegFresh'
  BY <1>19 DEF LocalbusIrqOn, Down, MayCall, Crossing
<1>20. ASSUME NEW p \in LbProcs, NEW ok \in BOOLEAN, irq_init(p, ok) PROVE LbRegFresh'
  BY <1>20 DEF irq_init, Return, Meeting
<1>21. ASSUME NEW p \in LbProcs, LongLightOn(p) PROVE LbRegFresh'
  BY <1>21 DEF LongLightOn, Down, MayCall
<1>22. ASSUME NEW p \in LbProcs, LongLightRequested(p) PROVE LbRegFresh'
  BY <1>22 DEF LongLightRequested, Return, Meeting
<1>23. ASSUME NEW p \in LbProcs, NEW a \in {0} \X LbFields \X LbValues, RegWrite(p, a)
       PROVE  LbRegFresh'
  BY <1>23 DEF RegWrite, MayCall
<1>24. ASSUME NEW p \in LbProcs, RegWritten(p) PROVE LbRegFresh'
  BY <1>24 DEF RegWritten, Return, Meeting
<1>25. CASE UNCHANGED lbVars
  BY <1>25 DEF lbVars
<1>26. QED
  BY <1>1, <1>2, <1>3, <1>4, <1>5, <1>6, <1>7, <1>8, <1>9, <1>10, <1>11,
     <1>12, <1>13, <1>14, <1>15, <1>16, <1>17, <1>18, <1>19, <1>20, <1>21,
     <1>22, <1>23, <1>24, <1>25 DEF LbNext

\* The semaphore keeps two CFG calls apart, and a release that starts or is
\* under way when a CFG runs is recorded as a crossing.
LEMMA LbAloneStep ==
  LbTypeOK /\ LbSemHeld /\ LbIrqTold /\ LbIrqAlone /\ [LbNext]_lbVars => LbIrqAlone'
<1> SUFFICES ASSUME LbTypeOK, LbSemHeld, LbIrqTold, LbIrqAlone, [LbNext]_lbVars PROVE LbIrqAlone'
  OBVIOUS
<1>a. LbFlagsT /\ LbFilesT /\ LbProcsT /\ LbLocalsT /\ LbDataT /\ LbIrqsT /\ lbCount \in Nat
  BY LbTypeParts
<1> USE <1>a, LbAssumption DEF LbIrqAlone, LbIrqTold, LbCalm, LbIrqStages, LbProcsT,
        LbSemStages, LbCfgStages, LbRelStages, lbFileVars, lbBusVars, lbIrqVars, lbProcVars
<1>1. CASE ext_localbus_init
  BY <1>1 DEF ext_localbus_init
<1>2. CASE ext_localbus_free
  BY <1>2 DEF ext_localbus_free
<1>3. CASE irq2sig_interrupt
  BY <1>3 DEF irq2sig_interrupt
<1>4. CASE irq2sig_action
  BY <1>4 DEF irq2sig_action
<1>5. CASE longlight_interrupt
  BY <1>5 DEF longlight_interrupt, Meeting
<1>6. ASSUME NEW p \in LbProcs, ext_localbus_open(p) PROVE LbIrqAlone'
  BY <1>6 DEF ext_localbus_open
<1>7. ASSUME NEW p \in LbProcs, ReleaseIrq(p) PROVE LbIrqAlone'
  BY <1>7 DEF ReleaseIrq
<1>8. ASSUME NEW p \in LbProcs, ReleaseFree(p) PROVE LbIrqAlone'
  BY <1>8 DEF ReleaseFree, irq_free, LbFreeIrq
<1>9. ASSUME NEW p \in LbProcs, ReleaseCount(p) PROVE LbIrqAlone'
  BY <1>9 DEF ReleaseCount
<1>10. ASSUME NEW p \in LbProcs, NEW f \in LbProcs, LbClose(p, f) PROVE LbIrqAlone'
  BY <1>10 DEF LbClose, OwnsIrq
<1>11. ASSUME NEW p \in LbProcs, NEW q \in LbProcs, NEW f \in LbProcs, LbFork(p, q, f)
       PROVE  LbIrqAlone'
  BY <1>11 DEF LbFork
<1>12. ASSUME NEW p \in LbProcs, LocalbusFieldWrite(p) PROVE LbIrqAlone'
  BY <1>12 DEF LocalbusFieldWrite, Return
<1>13. ASSUME NEW p \in LbProcs, NEW wide \in BOOLEAN, LocalbusWidth(p, wide) PROVE LbIrqAlone'
  BY <1>13 DEF LocalbusWidth, Down, MayCall
<1>14. ASSUME NEW p \in LbProcs, NEW v \in LbValues, LocalbusWrite(p, v) PROVE LbIrqAlone'
  BY <1>14 DEF LocalbusWrite, Down, MayCall
<1>15. ASSUME NEW p \in LbProcs, NEW n \in 1 .. 3, NEW v \in LbValues, ext_localbus_write(p, n, v)
       PROVE  LbIrqAlone'
  BY <1>15 DEF ext_localbus_write, Down, MayCall
<1>16. ASSUME NEW p \in LbProcs, NEW a \in LbAsks, LocalbusField(p, a)
       PROVE  LbIrqAlone'
  BY <1>16 DEF LocalbusField, Down, MayCall
<1>17. ASSUME NEW p \in LbProcs, LocalbusIrqOff(p) PROVE LbIrqAlone'
  BY <1>17 DEF LocalbusIrqOff, Down, MayCall, Crossing
<1>18. ASSUME NEW p \in LbProcs, LocalbusIrqFreed(p) PROVE LbIrqAlone'
  BY <1>18 DEF LocalbusIrqFreed, irq_free, LbFreeIrq
<1>19. ASSUME NEW p \in LbProcs, LocalbusIrqOn(p) PROVE LbIrqAlone'
  BY <1>19 DEF LocalbusIrqOn, Down, MayCall, Crossing, LbSemHeld
<1>20. ASSUME NEW p \in LbProcs, NEW ok \in BOOLEAN, irq_init(p, ok) PROVE LbIrqAlone'
  BY <1>20 DEF irq_init, Return, Meeting
<1>21. ASSUME NEW p \in LbProcs, LongLightOn(p) PROVE LbIrqAlone'
  BY <1>21 DEF LongLightOn, Down, MayCall
<1>22. ASSUME NEW p \in LbProcs, LongLightRequested(p) PROVE LbIrqAlone'
  BY <1>22 DEF LongLightRequested, Return, Meeting
<1>23. ASSUME NEW p \in LbProcs, NEW a \in {0} \X LbFields \X LbValues, RegWrite(p, a)
       PROVE  LbIrqAlone'
  BY <1>23 DEF RegWrite, MayCall
<1>24. ASSUME NEW p \in LbProcs, RegWritten(p) PROVE LbIrqAlone'
  BY <1>24 DEF RegWritten, Return, Meeting
<1>25. CASE UNCHANGED lbVars
  BY <1>25 DEF lbVars
<1>26. QED
  BY <1>1, <1>2, <1>3, <1>4, <1>5, <1>6, <1>7, <1>8, <1>9, <1>10, <1>11,
     <1>12, <1>13, <1>14, <1>15, <1>16, <1>17, <1>18, <1>19, <1>20, <1>21,
     <1>22, <1>23, <1>24, <1>25 DEF LbNext

\* irq_enable and the registration of the handler agree step by step, so that
\* free_irq() always finds the handler registered.
LEMMA LbToldStep ==
  LbTypeOK /\ LbSemHeld /\ LbIrqAlone /\ LbLlSeen /\ LbIrqTold /\ [LbNext]_lbVars => LbIrqTold'
<1> SUFFICES ASSUME LbTypeOK, LbSemHeld, LbIrqAlone, LbLlSeen, LbIrqTold, [LbNext]_lbVars
             PROVE  LbIrqTold'
  OBVIOUS
<1>a. LbFlagsT /\ LbFilesT /\ LbProcsT /\ LbLocalsT /\ LbDataT /\ LbIrqsT /\ lbCount \in Nat
  BY LbTypeParts
<1> USE <1>a, LbAssumption DEF LbIrqTold, LbCalm, LbIrqStages, LbProcsT, LbIrqsT, LbSemStages,
        LbCfgStages, LbRelStages, lbFileVars, lbBusVars, lbIrqVars, lbProcVars
<1>1. CASE ext_localbus_init
  BY <1>1 DEF ext_localbus_init
<1>2. CASE ext_localbus_free
  BY <1>2 DEF ext_localbus_free
<1>3. CASE irq2sig_interrupt
  BY <1>3 DEF irq2sig_interrupt
<1>4. CASE irq2sig_action
  BY <1>4 DEF irq2sig_action
<1>5. CASE longlight_interrupt
  BY <1>5 DEF longlight_interrupt, Meeting
<1>6. ASSUME NEW p \in LbProcs, ext_localbus_open(p) PROVE LbIrqTold'
  BY <1>6 DEF ext_localbus_open
<1>7. ASSUME NEW p \in LbProcs, ReleaseIrq(p) PROVE LbIrqTold'
  BY <1>7 DEF ReleaseIrq
<1>8. ASSUME NEW p \in LbProcs, ReleaseFree(p) PROVE LbIrqTold'
  <2> SUFFICES ASSUME LbCalm' PROVE LbIrqTold'
    BY DEF LbIrqTold
  <2>1. LbCalm
    BY <1>8 DEF ReleaseFree, irq_free, LbFreeIrq
  <2>2. lbIrqs = 1 /\ ~lbIrqEn /\ ~lbBadFree
    BY <1>8, <2>1 DEF ReleaseFree, irq_free, LbFreeIrq
  <2>3. lbIrqs' = 0 /\ lbIrqEn' = lbIrqEn
    BY <1>8, <2>2 DEF ReleaseFree, irq_free, LbFreeIrq
  <2>a. lbIrqs # 0
    BY ONLY <2>2
  <2>4. ~lbBadFree'
    BY <1>8, <2>2, <2>a, Zenon DEF ReleaseFree, irq_free, LbFreeIrq
  <2>5. \A q \in LbProcs : lbPc'[q] \notin LbIrqStages
    BY <1>8, <2>1 DEF ReleaseFree, irq_free, LbFreeIrq, LbIrqAlone
  <2>6. QED
    BY ONLY <2>2, <2>3, <2>4, <2>5 DEF LbIrqTold, LbIrqStages, LbCfgStages
<1>9. ASSUME NEW p \in LbProcs, ReleaseCount(p) PROVE LbIrqTold'
  BY <1>9 DEF ReleaseCount
<1>10. ASSUME NEW p \in LbProcs, NEW f \in LbProcs, LbClose(p, f) PROVE LbIrqTold'
  BY <1>10 DEF LbClose, OwnsIrq
<1>11. ASSUME NEW p \in LbProcs, NEW q \in LbProcs, NEW f \in LbProcs, LbFork(p, q, f)
       PROVE  LbIrqTold'
  BY <1>11 DEF LbFork
<1>12. ASSUME NEW p \in LbProcs, LocalbusFieldWrite(p) PROVE LbIrqTold'
  BY <1>12 DEF LocalbusFieldWrite, Return
<1>13. ASSUME NEW p \in LbProcs, NEW wide \in BOOLEAN, LocalbusWidth(p, wide) PROVE LbIrqTold'
  BY <1>13 DEF LocalbusWidth, Down, MayCall
<1>14. ASSUME NEW p \in LbProcs, NEW v \in LbValues, LocalbusWrite(p, v) PROVE LbIrqTold'
  BY <1>14 DEF LocalbusWrite, Down, MayCall
<1>15. ASSUME NEW p \in LbProcs, NEW n \in 1 .. 3, NEW v \in LbValues, ext_localbus_write(p, n, v)
       PROVE  LbIrqTold'
  BY <1>15 DEF ext_localbus_write, Down, MayCall
<1>16. ASSUME NEW p \in LbProcs, NEW a \in LbAsks, LocalbusField(p, a)
       PROVE  LbIrqTold'
  BY <1>16 DEF LocalbusField, Down, MayCall
<1>17. ASSUME NEW p \in LbProcs, LocalbusIrqOff(p) PROVE LbIrqTold'
  BY <1>17 DEF LocalbusIrqOff, Down, MayCall, Crossing
<1>18. ASSUME NEW p \in LbProcs, LocalbusIrqFreed(p) PROVE LbIrqTold'
  <2> SUFFICES ASSUME LbCalm' PROVE LbIrqTold'
    BY DEF LbIrqTold
  <2>1. LbCalm
    BY <1>18 DEF LocalbusIrqFreed, irq_free, LbFreeIrq
  <2>2. lbIrqs = 1 /\ ~lbIrqEn /\ ~lbBadFree
    BY <1>18, <2>1 DEF LocalbusIrqFreed, irq_free, LbFreeIrq
  <2>3. lbIrqs' = 0 /\ lbIrqEn' = lbIrqEn
    BY <1>18, <2>2 DEF LocalbusIrqFreed, irq_free, LbFreeIrq
  <2>a. lbIrqs # 0
    BY ONLY <2>2
  <2>4. ~lbBadFree'
    BY <1>18, <2>2, <2>a, Zenon DEF LocalbusIrqFreed, irq_free, LbFreeIrq
  <2>5. \A q \in LbProcs : lbPc'[q] \notin LbIrqStages
    BY <1>18, <2>1 DEF LocalbusIrqFreed, irq_free, LbFreeIrq, LbIrqAlone
  <2>6. QED
    BY ONLY <2>2, <2>3, <2>4, <2>5 DEF LbIrqTold, LbIrqStages, LbCfgStages
<1>19. ASSUME NEW p \in LbProcs, LocalbusIrqOn(p) PROVE LbIrqTold'
  <2> SUFFICES ASSUME LbCalm' PROVE LbIrqTold'
    BY DEF LbIrqTold
  <2>1. LbCalm /\ \A q \in LbProcs : lbPc[q] \notin LbIrqStages
    BY <1>19 DEF LocalbusIrqOn, Down, MayCall, Crossing, LbSemHeld
  <2>2. lbIrqs = 0 /\ ~lbIrqEn /\ ~lbBadFree
    BY <1>19, <2>1 DEF LocalbusIrqOn, Down, MayCall, Crossing
  <2>3. lbIrqs' = lbIrqs /\ lbIrqEn' = lbIrqEn /\ lbBadFree' = lbBadFree /\ lbOwner' = p
    BY <1>19 DEF LocalbusIrqOn, Down, MayCall, Crossing
  <2>4. lbPc'[p] = "cfgreq" /\ \A q \in LbProcs : q # p => lbPc'[q] = lbPc[q]
    BY <1>19 DEF LocalbusIrqOn, Down, MayCall, Crossing
  <2>6. QED
    BY ONLY <2>1, <2>2, <2>3, <2>4, p \in LbProcs DEF LbIrqTold, LbIrqStages, LbCfgStages
<1>20. ASSUME NEW p \in LbProcs, NEW ok \in BOOLEAN, irq_init(p, ok) PROVE LbIrqTold'
  BY <1>20 DEF irq_init, Return, Meeting
<1>21. ASSUME NEW p \in LbProcs, LongLightOn(p) PROVE LbIrqTold'
  BY <1>21 DEF LongLightOn, Down, MayCall
<1>22. ASSUME NEW p \in LbProcs, LongLightRequested(p) PROVE LbIrqTold'
  <2>1. "longlight" \in lbSeen /\ lbSeen \subseteq lbSeen'
    BY <1>22 DEF LongLightRequested, Return, Meeting, LbLlSeen
  <2>2. QED
    BY <2>1
<1>23. ASSUME NEW p \in LbProcs, NEW a \in {0} \X LbFields \X LbValues, RegWrite(p, a)
       PROVE  LbIrqTold'
  BY <1>23 DEF RegWrite, MayCall
<1>24. ASSUME NEW p \in LbProcs, RegWritten(p) PROVE LbIrqTold'
  BY <1>24 DEF RegWritten, Return, Meeting
<1>25. CASE UNCHANGED lbVars
  BY <1>25 DEF lbVars
<1>26. QED
  BY <1>1, <1>2, <1>3, <1>4, <1>5, <1>6, <1>7, <1>8, <1>9, <1>10, <1>11,
     <1>12, <1>13, <1>14, <1>15, <1>16, <1>17, <1>18, <1>19, <1>20, <1>21,
     <1>22, <1>23, <1>24, <1>25 DEF LbNext

\* Whoever frees the handler kills the tasklet, and only a registered handler
\* schedules it.
LEMMA LbTletStep == LbTypeOK /\ LbTletOwned /\ [LbNext]_lbVars => LbTletOwned'
<1> SUFFICES ASSUME LbTypeOK, LbTletOwned, [LbNext]_lbVars PROVE LbTletOwned'
  OBVIOUS
<1>a. LbFlagsT /\ LbFilesT /\ LbProcsT /\ LbLocalsT /\ LbDataT /\ LbIrqsT /\ lbCount \in Nat
  BY LbTypeParts
<1> USE <1>a, LbAssumption DEF LbTletOwned, LbIrqsT, lbFileVars, lbBusVars, lbIrqVars,
        lbProcVars
<1>1. CASE ext_localbus_init
  BY <1>1 DEF ext_localbus_init
<1>2. CASE ext_localbus_free
  BY <1>2 DEF ext_localbus_free
<1>3. CASE irq2sig_interrupt
  BY <1>3 DEF irq2sig_interrupt
<1>4. CASE irq2sig_action
  BY <1>4 DEF irq2sig_action
<1>5. CASE longlight_interrupt
  BY <1>5 DEF longlight_interrupt, Meeting
<1>6. ASSUME NEW p \in LbProcs, ext_localbus_open(p) PROVE LbTletOwned'
  BY <1>6 DEF ext_localbus_open
<1>7. ASSUME NEW p \in LbProcs, ReleaseIrq(p) PROVE LbTletOwned'
  BY <1>7 DEF ReleaseIrq
<1>8. ASSUME NEW p \in LbProcs, ReleaseFree(p) PROVE LbTletOwned'
  BY <1>8 DEF ReleaseFree, irq_free, LbFreeIrq
<1>9. ASSUME NEW p \in LbProcs, ReleaseCount(p) PROVE LbTletOwned'
  BY <1>9 DEF ReleaseCount
<1>10. ASSUME NEW p \in LbProcs, NEW f \in LbProcs, LbClose(p, f) PROVE LbTletOwned'
  BY <1>10 DEF LbClose, OwnsIrq
<1>11. ASSUME NEW p \in LbProcs, NEW q \in LbProcs, NEW f \in LbProcs, LbFork(p, q, f)
       PROVE  LbTletOwned'
  BY <1>11 DEF LbFork
<1>12. ASSUME NEW p \in LbProcs, LocalbusFieldWrite(p) PROVE LbTletOwned'
  BY <1>12 DEF LocalbusFieldWrite, Return
<1>13. ASSUME NEW p \in LbProcs, NEW wide \in BOOLEAN, LocalbusWidth(p, wide) PROVE LbTletOwned'
  BY <1>13 DEF LocalbusWidth, Down, MayCall
<1>14. ASSUME NEW p \in LbProcs, NEW v \in LbValues, LocalbusWrite(p, v) PROVE LbTletOwned'
  BY <1>14 DEF LocalbusWrite, Down, MayCall
<1>15. ASSUME NEW p \in LbProcs, NEW n \in 1 .. 3, NEW v \in LbValues, ext_localbus_write(p, n, v)
       PROVE  LbTletOwned'
  BY <1>15 DEF ext_localbus_write, Down, MayCall
<1>16. ASSUME NEW p \in LbProcs, NEW a \in LbAsks, LocalbusField(p, a)
       PROVE  LbTletOwned'
  BY <1>16 DEF LocalbusField, Down, MayCall
<1>17. ASSUME NEW p \in LbProcs, LocalbusIrqOff(p) PROVE LbTletOwned'
  BY <1>17 DEF LocalbusIrqOff, Down, MayCall, Crossing
<1>18. ASSUME NEW p \in LbProcs, LocalbusIrqFreed(p) PROVE LbTletOwned'
  BY <1>18 DEF LocalbusIrqFreed, irq_free, LbFreeIrq
<1>19. ASSUME NEW p \in LbProcs, LocalbusIrqOn(p) PROVE LbTletOwned'
  BY <1>19 DEF LocalbusIrqOn, Down, MayCall, Crossing
<1>20. ASSUME NEW p \in LbProcs, NEW ok \in BOOLEAN, irq_init(p, ok) PROVE LbTletOwned'
  BY <1>20 DEF irq_init, Return, Meeting
<1>21. ASSUME NEW p \in LbProcs, LongLightOn(p) PROVE LbTletOwned'
  BY <1>21 DEF LongLightOn, Down, MayCall
<1>22. ASSUME NEW p \in LbProcs, LongLightRequested(p) PROVE LbTletOwned'
  BY <1>22 DEF LongLightRequested, Return, Meeting
<1>23. ASSUME NEW p \in LbProcs, NEW a \in {0} \X LbFields \X LbValues, RegWrite(p, a)
       PROVE  LbTletOwned'
  BY <1>23 DEF RegWrite, MayCall
<1>24. ASSUME NEW p \in LbProcs, RegWritten(p) PROVE LbTletOwned'
  BY <1>24 DEF RegWritten, Return, Meeting
<1>25. CASE UNCHANGED lbVars
  BY <1>25 DEF lbVars
<1>26. QED
  BY <1>1, <1>2, <1>3, <1>4, <1>5, <1>6, <1>7, <1>8, <1>9, <1>10, <1>11,
     <1>12, <1>13, <1>14, <1>15, <1>16, <1>17, <1>18, <1>19, <1>20, <1>21,
     <1>22, <1>23, <1>24, <1>25 DEF LbNext

\* As long as no file is inherited, the owner of an enabled interrupt has its
\* file open.
LEMMA LbOwnStep ==
  LbTypeOK /\ LbLlSeen /\ LbIrqTold /\ LbIrqAlone /\ LbOwnFiles /\ [LbNext]_lbVars => LbOwnFiles'
<1> SUFFICES ASSUME LbTypeOK, LbLlSeen, LbIrqTold, LbIrqAlone, LbOwnFiles, [LbNext]_lbVars
             PROVE  LbOwnFiles'
  OBVIOUS
<1>a. LbFlagsT /\ LbFilesT /\ LbProcsT /\ LbLocalsT /\ LbDataT /\ LbIrqsT /\ lbCount \in Nat
  BY LbTypeParts
<1> USE <1>a, LbAssumption DEF LbOwnFiles, LbLlSeen, LbCalm, LbFilesT, LbProcsT, LbSemStages,
        LbCfgStages, LbRelStages, lbFileVars, lbBusVars, lbIrqVars, lbProcVars
<1>1. CASE ext_localbus_init
  BY <1>1 DEF ext_localbus_init
<1>2. CASE ext_localbus_free
  BY <1>2 DEF ext_localbus_free
<1>3. CASE irq2sig_interrupt
  BY <1>3 DEF irq2sig_interrupt
<1>4. CASE irq2sig_action
  BY <1>4 DEF irq2sig_action
<1>5. CASE longlight_interrupt
  BY <1>5 DEF longlight_interrupt, Meeting
<1>6. ASSUME NEW p \in LbProcs, ext_localbus_open(p) PROVE LbOwnFiles'
  BY <1>6 DEF ext_localbus_open
<1>7. ASSUME NEW p \in LbProcs, ReleaseIrq(p) PROVE LbOwnFiles'
  BY <1>7 DEF ReleaseIrq
<1>8. ASSUME NEW p \in LbProcs, ReleaseFree(p) PROVE LbOwnFiles'
  BY <1>8 DEF ReleaseFree, irq_free, LbFreeIrq
<1>9. ASSUME NEW p \in LbProcs, ReleaseCount(p) PROVE LbOwnFiles'
  BY <1>9 DEF ReleaseCount
<1>10. ASSUME NEW p \in LbProcs, NEW f \in LbProcs, LbClose(p, f) PROVE LbOwnFiles'
  BY <1>10 DEF LbClose, OwnsIrq
<1>11. ASSUME NEW p \in LbProcs, NEW q \in LbProcs, NEW f \in LbProcs, LbFork(p, q, f)
       PROVE  LbOwnFiles'
  BY <1>11 DEF LbFork
<1>12. ASSUME NEW p \in LbProcs, LocalbusFieldWrite(p) PROVE LbOwnFiles'
  BY <1>12 DEF LocalbusFieldWrite, Return
<1>13. ASSUME NEW p \in LbProcs, NEW wide \in BOOLEAN, LocalbusWidth(p, wide) PROVE LbOwnFiles'
  BY <1>13 DEF LocalbusWidth, Down, MayCall
<1>14. ASSUME NEW p \in LbProcs, NEW v \in LbValues, LocalbusWrite(p, v) PROVE LbOwnFiles'
  BY <1>14 DEF LocalbusWrite, Down, MayCall
<1>15. ASSUME NEW p \in LbProcs, NEW n \in 1 .. 3, NEW v \in LbValues, ext_localbus_write(p, n, v)
       PROVE  LbOwnFiles'
  BY <1>15 DEF ext_localbus_write, Down, MayCall
<1>16. ASSUME NEW p \in LbProcs, NEW a \in LbAsks, LocalbusField(p, a)
       PROVE  LbOwnFiles'
  BY <1>16 DEF LocalbusField, Down, MayCall
<1>17. ASSUME NEW p \in LbProcs, LocalbusIrqOff(p) PROVE LbOwnFiles'
  BY <1>17 DEF LocalbusIrqOff, Down, MayCall, Crossing
<1>18. ASSUME NEW p \in LbProcs, LocalbusIrqFreed(p) PROVE LbOwnFiles'
  BY <1>18 DEF LocalbusIrqFreed, irq_free, LbFreeIrq
<1>19. ASSUME NEW p \in LbProcs, LocalbusIrqOn(p) PROVE LbOwnFiles'
  BY <1>19 DEF LocalbusIrqOn, Down, MayCall, Crossing
<1>20. ASSUME NEW p \in LbProcs, NEW ok \in BOOLEAN, irq_init(p, ok) PROVE LbOwnFiles'
  BY <1>20 DEF irq_init, Return, Meeting, LbIrqTold
<1>21. ASSUME NEW p \in LbProcs, LongLightOn(p) PROVE LbOwnFiles'
  BY <1>21 DEF LongLightOn, Down, MayCall
<1>22. ASSUME NEW p \in LbProcs, LongLightRequested(p) PROVE LbOwnFiles'
  BY <1>22 DEF LongLightRequested, Return, Meeting
<1>23. ASSUME NEW p \in LbProcs, NEW a \in {0} \X LbFields \X LbValues, RegWrite(p, a)
       PROVE  LbOwnFiles'
  BY <1>23 DEF RegWrite, MayCall
<1>24. ASSUME NEW p \in LbProcs, RegWritten(p) PROVE LbOwnFiles'
  BY <1>24 DEF RegWritten, Return, Meeting
<1>25. CASE UNCHANGED lbVars
  BY <1>25 DEF lbVars
<1>26. QED
  BY <1>1, <1>2, <1>3, <1>4, <1>5, <1>6, <1>7, <1>8, <1>9, <1>10, <1>11,
     <1>12, <1>13, <1>14, <1>15, <1>16, <1>17, <1>18, <1>19, <1>20, <1>21,
     <1>22, <1>23, <1>24, <1>25 DEF LbNext

\* Only a long-light request leads to the stage that waits for its
\* request_irq().
LEMMA LbLlStep == LbTypeOK /\ LbLlSeen /\ [LbNext]_lbVars => LbLlSeen'
<1> SUFFICES ASSUME LbTypeOK, LbLlSeen, [LbNext]_lbVars PROVE LbLlSeen'
  OBVIOUS
<1>a. LbFlagsT /\ LbFilesT /\ LbProcsT /\ LbLocalsT /\ LbDataT /\ LbIrqsT /\ lbCount \in Nat
  BY LbTypeParts
<1> USE <1>a, LbAssumption DEF LbLlSeen, LbProcsT, LbSemStages, LbCfgStages, LbRelStages,
        lbFileVars, lbBusVars, lbIrqVars, lbProcVars
<1>1. CASE ext_localbus_init
  BY <1>1 DEF ext_localbus_init
<1>2. CASE ext_localbus_free
  BY <1>2 DEF ext_localbus_free
<1>3. CASE irq2sig_interrupt
  BY <1>3 DEF irq2sig_interrupt
<1>4. CASE irq2sig_action
  BY <1>4 DEF irq2sig_action
<1>5. CASE longlight_interrupt
  BY <1>5 DEF longlight_interrupt, Meeting
<1>6. ASSUME NEW p \in LbProcs, ext_localbus_open(p) PROVE LbLlSeen'
  BY <1>6 DEF ext_localbus_open
<1>7. ASSUME NEW p \in LbProcs, ReleaseIrq(p) PROVE LbLlSeen'
  BY <1>7 DEF ReleaseIrq
<1>8. ASSUME NEW p \in LbProcs, ReleaseFree(p) PROVE LbLlSeen'
  BY <1>8 DEF ReleaseFree, irq_free, LbFreeIrq
<1>9. ASSUME NEW p \in LbProcs, ReleaseCount(p) PROVE LbLlSeen'
  BY <1>9 DEF ReleaseCount
<1>10. ASSUME NEW p \in LbProcs, NEW f \in LbProcs, LbClose(p, f) PROVE LbLlSeen'
  BY <1>10 DEF LbClose, OwnsIrq
<1>11. ASSUME NEW p \in LbProcs, NEW q \in LbProcs, NEW f \in LbProcs, LbFork(p, q, f)
       PROVE  LbLlSeen'
  BY <1>11 DEF LbFork
<1>12. ASSUME NEW p \in LbProcs, LocalbusFieldWrite(p) PROVE LbLlSeen'
  BY <1>12 DEF LocalbusFieldWrite, Return
<1>13. ASSUME NEW p \in LbProcs, NEW wide \in BOOLEAN, LocalbusWidth(p, wide) PROVE LbLlSeen'
  BY <1>13 DEF LocalbusWidth, Down, MayCall
<1>14. ASSUME NEW p \in LbProcs, NEW v \in LbValues, LocalbusWrite(p, v) PROVE LbLlSeen'
  BY <1>14 DEF LocalbusWrite, Down, MayCall
<1>15. ASSUME NEW p \in LbProcs, NEW n \in 1 .. 3, NEW v \in LbValues, ext_localbus_write(p, n, v)
       PROVE  LbLlSeen'
  BY <1>15 DEF ext_localbus_write, Down, MayCall
<1>16. ASSUME NEW p \in LbProcs, NEW a \in LbAsks, LocalbusField(p, a)
       PROVE  LbLlSeen'
  BY <1>16 DEF LocalbusField, Down, MayCall
<1>17. ASSUME NEW p \in LbProcs, LocalbusIrqOff(p) PROVE LbLlSeen'
  BY <1>17 DEF LocalbusIrqOff, Down, MayCall, Crossing
<1>18. ASSUME NEW p \in LbProcs, LocalbusIrqFreed(p) PROVE LbLlSeen'
  BY <1>18 DEF LocalbusIrqFreed, irq_free, LbFreeIrq
<1>19. ASSUME NEW p \in LbProcs, LocalbusIrqOn(p) PROVE LbLlSeen'
  BY <1>19 DEF LocalbusIrqOn, Down, MayCall, Crossing
<1>20. ASSUME NEW p \in LbProcs, NEW ok \in BOOLEAN, irq_init(p, ok) PROVE LbLlSeen'
  BY <1>20 DEF irq_init, Return, Meeting
<1>21. ASSUME NEW p \in LbProcs, LongLightOn(p) PROVE LbLlSeen'
  BY <1>21 DEF LongLightOn, Down, MayCall
<1>22. ASSUME NEW p \in LbProcs, LongLightRequested(p) PROVE LbLlSeen'
  BY <1>22 DEF LongLightRequested, Return, Meeting
<1>23. ASSUME NEW p \in LbProcs, NEW a \in {0} \X LbFields \X LbValues, RegWrite(p, a)
       PROVE  LbLlSeen'
  BY <1>23 DEF RegWrite, MayCall
<1>24. ASSUME NEW p \in LbProcs, RegWritten(p) PROVE LbLlSeen'
  BY <1>24 DEF RegWritten, Return, Meeting
<1>25. CASE UNCHANGED lbVars
  BY <1>25 DEF lbVars
<1>26. QED
  BY <1>1, <1>2, <1>3, <1>4, <1>5, <1>6, <1>7, <1>8, <1>9, <1>10, <1>11,
     <1>12, <1>13, <1>14, <1>15, <1>16, <1>17, <1>18, <1>19, <1>20, <1>21,
     <1>22, <1>23, <1>24, <1>25 DEF LbNext

\* The open count is right, and so it is never negative.
LbCountOk == LbCounted /\ lbCount \in Nat

\* A step that opens, closes and releases nothing keeps the count right.
LEMMA LbCountFrame ==
  ASSUME LbCounted, lbCount \in Nat, LbHeld' = LbHeld, LbLeaving' = LbLeaving, lbCount' = lbCount
  PROVE  LbCountOk'
  BY DEF LbCounted, LbCountOk

\* open() and release() keep opl_reg_open_count equal to the number of files
\* that are open or being released, so its decrement never goes below zero.
LEMMA LbCountStep == LbTypeOK /\ LbCounted /\ [LbNext]_lbVars => LbCountOk'
<1> SUFFICES ASSUME LbTypeOK, LbCounted, [LbNext]_lbVars PROVE LbCountOk'
  OBVIOUS
<1>a. LbFlagsT /\ LbFilesT /\ LbProcsT /\ LbLocalsT /\ LbDataT /\ LbIrqsT /\ lbCount \in Nat
  BY LbTypeParts
<1> USE <1>a, LbAssumption DEF LbHeld, LbLeaving, LbFilesT, LbProcsT, LbSemStages, LbCfgStages,
        LbRelStages, lbFileVars, lbBusVars, lbIrqVars, lbProcVars
<1>f. /\ IsFiniteSet(LbHeld) /\ IsFiniteSet(LbLeaving)
      /\ Cardinality(LbHeld) \in Nat /\ Cardinality(LbLeaving) \in Nat
  BY FS_Subset, FS_CardinalityType, LbAssumption
<1>1. CASE ext_localbus_init
  <2>1. LbHeld' = LbHeld /\ LbLeaving' = LbLeaving /\ lbCount' = lbCount
    BY <1>1 DEF ext_localbus_init
  <2>2. QED
    BY <2>1, LbCountFrame
<1>2. CASE ext_localbus_free
  <2>1. LbHeld' = LbHeld /\ LbLeaving' = LbLeaving /\ lbCount' = lbCount
    BY <1>2 DEF ext_localbus_free
  <2>2. QED
    BY <2>1, LbCountFrame
<1>3. CASE irq2sig_interrupt
  <2>1. LbHeld' = LbHeld /\ LbLeaving' = LbLeaving /\ lbCount' = lbCount
    BY <1>3 DEF irq2sig_interrupt
  <2>2. QED
    BY <2>1, LbCountFrame
<1>4. CASE irq2sig_action
  <2>1. LbHeld' = LbHeld /\ LbLeaving' = LbLeaving /\ lbCount' = lbCount
    BY <1>4 DEF irq2sig_action
  <2>2. QED
    BY <2>1, LbCountFrame
<1>5. CASE longlight_interrupt
  <2>1. LbHeld' = LbHeld /\ LbLeaving' = LbLeaving /\ lbCount' = lbCount
    BY <1>5 DEF longlight_interrupt, Meeting
  <2>2. QED
    BY <2>1, LbCountFrame
<1>6. ASSUME NEW p \in LbProcs, ext_localbus_open(p) PROVE LbCountOk'
  <2>1. LbHeld' = LbHeld \cup {p} /\ p \notin LbHeld /\ LbLeaving' = LbLeaving
    BY <1>6 DEF ext_localbus_open
  <2> HIDE DEF LbHeld, LbLeaving
  <2>2. Cardinality(LbHeld') = Cardinality(LbHeld) + 1
    BY <1>f, <2>1, FS_AddElement
  <2>3. lbCount' = lbCount + 1
    BY <1>6 DEF ext_localbus_open
  <2>4. QED
    BY ONLY <1>f, <2>1, <2>2, <2>3, LbCounted DEF LbCounted, LbCountOk
<1>7. ASSUME NEW p \in LbProcs, ReleaseIrq(p) PROVE LbCountOk'
  <2>1. LbHeld' = LbHeld /\ LbLeaving' = LbLeaving /\ lbCount' = lbCount
    BY <1>7 DEF ReleaseIrq
  <2>2. QED
    BY <2>1, LbCountFrame
<1>8. ASSUME NEW p \in LbProcs, ReleaseFree(p) PROVE LbCountOk'
  <2>1. LbHeld' = LbHeld /\ LbLeaving' = LbLeaving /\ lbCount' = lbCount
    BY <1>8 DEF ReleaseFree, irq_free, LbFreeIrq
  <2>2. QED
    BY <2>1, LbCountFrame
<1>9. ASSUME NEW p \in LbProcs, ReleaseCount(p) PROVE LbCountOk'
  <2>1. LbHeld' = LbHeld /\ p \in LbLeaving /\ LbLeaving' = LbLeaving \ {p}
    BY <1>9 DEF ReleaseCount
  <2> HIDE DEF LbHeld, LbLeaving
  <2>2. Cardinality(LbLeaving') = Cardinality(LbLeaving) - 1 /\ Cardinality(LbLeaving') \in Nat
    BY <1>f, <2>1, FS_RemoveElement, FS_CardinalityType
  <2>3. lbCount' = lbCount - 1
    BY <1>9 DEF ReleaseCount
  <2>4. QED
    BY ONLY <1>f, <2>1, <2>2, <2>3, LbCounted DEF LbCounted, LbCountOk
<1>10. ASSUME NEW p \in LbProcs, NEW f \in LbProcs, LbClose(p, f) PROVE LbCountOk'
  <2>1. lbCount' = lbCount /\ p \notin LbLeaving
    BY <1>10 DEF LbClose
  <2>2. CASE lbFiles[f] # {p}
    <3>1. LbHeld' = LbHeld
      BY <1>10, <2>2 DEF LbClose
    <3>2. LbLeaving' = LbLeaving
      BY <1>10, <2>2 DEF LbClose
    <3>3. QED
      BY <2>1, <3>1, <3>2, LbCountFrame
  <2>3. CASE lbFiles[f] = {p}
    <3>1. f \in LbHeld /\ LbHeld' = LbHeld \ {f}
      BY <1>10, <2>3 DEF LbClose
    <3>2. LbLeaving' = LbLeaving \cup {p}
      BY <1>10, <2>3 DEF LbClose, OwnsIrq
    <3> HIDE DEF LbHeld, LbLeaving
    <3>3. Cardinality(LbHeld') = Cardinality(LbHeld) - 1
      BY <1>f, <3>1, FS_RemoveElement
    <3>4. Cardinality(LbLeaving') = Cardinality(LbLeaving) + 1
      BY <1>f, <2>1, <3>2, FS_AddElement
    <3>5. QED
      BY ONLY <1>f, <2>1, <3>3, <3>4, LbCounted DEF LbCounted, LbCountOk
  <2>4. QED
    BY <2>2, <2>3
<1>11. ASSUME NEW p \in LbProcs, NEW q \in LbProcs, NEW f \in LbProcs, LbFork(p, q, f)
       PROVE  LbCountOk'
  <2>1. lbPc' = lbPc /\ lbCount' = lbCount
    BY <1>11 DEF LbFork
  <2>2. \A g \in LbProcs : lbFiles'[g] = {} <=> lbFiles[g] = {}
    BY <1>11 DEF LbFork
  <2>3. LbHeld' = LbHeld /\ LbLeaving' = LbLeaving
    BY <2>1, <2>2, Zenon DEF LbHeld, LbLeaving
  <2>4. QED
    BY <2>1, <2>3, LbCountFrame
<1>12. ASSUME NEW p \in LbProcs, LocalbusFieldWrite(p) PROVE LbCountOk'
  <2>1. LbHeld' = LbHeld /\ LbLeaving' = LbLeaving /\ lbCount' = lbCount
    BY <1>12 DEF LocalbusFieldWrite, Return
  <2>2. QED
    BY <2>1, LbCountFrame
<1>13. ASSUME NEW p \in LbProcs, NEW wide \in BOOLEAN, LocalbusWidth(p, wide) PROVE LbCountOk'
  <2>1. LbHeld' = LbHeld /\ LbLeaving' = LbLeaving /\ lbCount' = lbCount
    BY <1>13 DEF LocalbusWidth, Down, MayCall
  <2>2. QED
    BY <2>1, LbCountFrame
<1>14. ASSUME NEW p \in LbProcs, NEW v \in LbValues, LocalbusWrite(p, v) PROVE LbCountOk'
  <2>1. LbHeld' = LbHeld /\ LbLeaving' = LbLeaving /\ lbCount' = lbCount
    BY <1>14 DEF LocalbusWrite, Down, MayCall
  <2>2. QED
    BY <2>1, LbCountFrame
<1>15. ASSUME NEW p \in LbProcs, NEW n \in 1 .. 3, NEW v \in LbValues, ext_localbus_write(p, n, v)
       PROVE  LbCountOk'
  <2>1. LbHeld' = LbHeld /\ LbLeaving' = LbLeaving /\ lbCount' = lbCount
    BY <1>15 DEF ext_localbus_write, Down, MayCall
  <2>2. QED
    BY <2>1, LbCountFrame
<1>16. ASSUME NEW p \in LbProcs, NEW a \in LbAsks, LocalbusField(p, a)
       PROVE  LbCountOk'
  <2>1. LbHeld' = LbHeld /\ LbLeaving' = LbLeaving /\ lbCount' = lbCount
    BY <1>16 DEF LocalbusField, Down, MayCall
  <2>2. QED
    BY <2>1, LbCountFrame
<1>17. ASSUME NEW p \in LbProcs, LocalbusIrqOff(p) PROVE LbCountOk'
  <2>1. LbHeld' = LbHeld /\ LbLeaving' = LbLeaving /\ lbCount' = lbCount
    BY <1>17 DEF LocalbusIrqOff, Down, MayCall, Crossing
  <2>2. QED
    BY <2>1, LbCountFrame
<1>18. ASSUME NEW p \in LbProcs, LocalbusIrqFreed(p) PROVE LbCountOk'
  <2>1. LbHeld' = LbHeld /\ LbLeaving' = LbLeaving /\ lbCount' = lbCount
    BY <1>18 DEF LocalbusIrqFreed, irq_free, LbFreeIrq
  <2>2. QED
    BY <2>1, LbCountFrame
<1>19. ASSUME NEW p \in LbProcs, LocalbusIrqOn(p) PROVE LbCountOk'
  <2>1. LbHeld' = LbHeld /\ LbLeaving' = LbLeaving /\ lbCount' = lbCount
    BY <1>19 DEF LocalbusIrqOn, Down, MayCall, Crossing
  <2>2. QED
    BY <2>1, LbCountFrame
<1>20. ASSUME NEW p \in LbProcs, NEW ok \in BOOLEAN, irq_init(p, ok) PROVE LbCountOk'
  <2>1. LbHeld' = LbHeld /\ LbLeaving' = LbLeaving /\ lbCount' = lbCount
    BY <1>20 DEF irq_init, Return, Meeting
  <2>2. QED
    BY <2>1, LbCountFrame
<1>21. ASSUME NEW p \in LbProcs, LongLightOn(p) PROVE LbCountOk'
  <2>1. LbHeld' = LbHeld /\ LbLeaving' = LbLeaving /\ lbCount' = lbCount
    BY <1>21 DEF LongLightOn, Down, MayCall
  <2>2. QED
    BY <2>1, LbCountFrame
<1>22. ASSUME NEW p \in LbProcs, LongLightRequested(p) PROVE LbCountOk'
  <2>1. LbHeld' = LbHeld /\ LbLeaving' = LbLeaving /\ lbCount' = lbCount
    BY <1>22 DEF LongLightRequested, Return, Meeting
  <2>2. QED
    BY <2>1, LbCountFrame
<1>23. ASSUME NEW p \in LbProcs, NEW a \in {0} \X LbFields \X LbValues, RegWrite(p, a)
       PROVE  LbCountOk'
  <2>1. LbHeld' = LbHeld /\ LbLeaving' = LbLeaving /\ lbCount' = lbCount
    BY <1>23 DEF RegWrite, MayCall
  <2>2. QED
    BY <2>1, LbCountFrame
<1>24. ASSUME NEW p \in LbProcs, RegWritten(p) PROVE LbCountOk'
  <2>1. LbHeld' = LbHeld /\ LbLeaving' = LbLeaving /\ lbCount' = lbCount
    BY <1>24 DEF RegWritten, Return, Meeting
  <2>2. QED
    BY <2>1, LbCountFrame
<1>25. CASE UNCHANGED lbVars
  <2>1. LbHeld' = LbHeld /\ LbLeaving' = LbLeaving /\ lbCount' = lbCount
    BY <1>25 DEF lbVars
  <2>2. QED
    BY <2>1, LbCountFrame
<1>26. QED
  BY <1>1, <1>2, <1>3, <1>4, <1>5, <1>6, <1>7, <1>8, <1>9, <1>10, <1>11,
     <1>12, <1>13, <1>14, <1>15, <1>16, <1>17, <1>18, <1>19, <1>20, <1>21,
     <1>22, <1>23, <1>24, <1>25 DEF LbNext

\* Every operation of the driver preserves the inductive invariant.
LEMMA LbStepInv == LbInv /\ [LbNext]_lbVars => LbInv'
<1> SUFFICES ASSUME LbInv, [LbNext]_lbVars PROVE LbInv'
  OBVIOUS
<1> USE DEF LbInv
<1>1. LbTypes'
  BY LbTypeStep
<1>2. LbCounted' /\ lbCount' \in Nat
  BY LbCountStep DEF LbCountOk
<1>3. LbTypeOK'
  BY <1>1, <1>2, LbTypeParts DEF LbTypes
<1>4. LbOut' /\ LbSemHeld' /\ LbReadFresh' /\ LbRegFresh'
  BY LbOutStep, LbSemStep, LbReadStep, LbRegStep
<1>5. LbIrqAlone' /\ LbIrqTold' /\ LbTletOwned' /\ LbOwnFiles' /\ LbLlSeen'
  BY LbAloneStep, LbToldStep, LbTletStep, LbOwnStep, LbLlStep
<1>6. QED
  BY <1>2, <1>3, <1>4, <1>5

\* For any number of processes and any mix of calls and interrupts: the CPLD
\* fields hold what the returned calls and the handler asked for, but for the
\* byte 0x16 once the handler has run between the read and the write of a
\* CMD_LOCALBUS_FIELD that changes it; the semaphore is only held from inside
\* (or leaked by the failed long-light request); and a SoC field is only lost
\* when read-modify-writes met (ext_localbus_ioctl(), irq_init() and
\* irq2sig_interrupt(), localbus_dev.c).
THEOREM LbFieldsAlwaysKept == LbSpec => []LbFieldsKept
<1>1. LbInv => LbFieldsKept
  BY DEF LbInv, LbSemHeld, LbReadFresh, LbSpoilt, LbRegFresh, LbFieldsKept
<1>2. QED
  BY <1>1, LbInitInv, LbStepInv, PTL DEF LbSpec

\* For any number of processes: without a long-light request and without a
\* release() that crosses a CFG, irq_enable tells whether the handler is
\* registered, it is freed once, and unloading leaves neither handler nor
\* tasklet (unless a file was inherited).
THEOREM LbIrqAlwaysOwned == LbSpec => []LbIrqOwned
<1>1. LbInv => LbIrqOwned
  <2> SUFFICES ASSUME LbInv, LbCalm
               PROVE  /\ ~lbBadFree
                      /\ (\A p \in LbProcs : lbPc[p] \notin LbCfgStages \cup LbRelStages)
                           => lbIrqs = IF lbIrqEn THEN 1 ELSE 0
                      /\ lbMod = "gone" /\ "shared" \notin lbSeen => lbIrqs = 0 /\ ~lbTlet
    BY Zenon DEF LbIrqOwned, LbCalm
  <2>1. ~lbBadFree
    BY DEF LbInv, LbIrqTold
  <2>2. (\A p \in LbProcs : lbPc[p] \notin LbCfgStages \cup LbRelStages)
          => lbIrqs = IF lbIrqEn THEN 1 ELSE 0
    BY DEF LbInv, LbIrqTold, LbIrqStages, LbRelStages
  <2>3. ASSUME lbMod = "gone", "shared" \notin lbSeen PROVE lbIrqs = 0 /\ ~lbTlet
    <3>1. \A p \in LbProcs : lbFiles[p] = {} /\ lbPc[p] = "idle"
      BY <2>3 DEF LbInv, LbOut
    <3>2. ~lbIrqEn
      BY <2>3, <3>1 DEF LbInv, LbOwnFiles
    <3>3. lbIrqs = 0
      BY <3>1, <3>2, <2>2 DEF LbCfgStages, LbRelStages
    <3>4. QED
      BY <3>3 DEF LbInv, LbTletOwned
  <2>4. QED
    BY <2>1, <2>2, <2>3
<1>2. QED
  BY <1>1, LbInitInv, LbStepInv, PTL DEF LbSpec

-----------------------------------------------------------------------------
(* Long-light detection                                                    *)

\* Neither BUG() nor a race between module exit and the proc file.
LlCalm == ~llBug /\ ~llRaced
\* The cases in which the detection promises something.
LlSteadyLight == LlCalm /\ llLight /\ llMod = "live"

\* Until ext_longlight_init() has run there is no timer, so that nothing has
\* been sampled; afterwards both timers are initialised for good.
LlLoading ==
  /\ llMod \in {"out", "proc", "handler"} =>
       /\ llT1 = "raw" /\ llT2 = "raw" /\ llTick = "none"
       /\ llMasked /\ llConfirm = 0 /\ ~llFell /\ ~llInside /\ ~llWrong /\ ~llRaced
  /\ llMod \notin {"out", "proc", "handler"} => llT1 # "raw" /\ llT2 # "raw"

\* While the light is on and no tick is under way, the interrupt is unmasked
\* exactly while a suspicion is being confirmed (unless the handler came
\* inside a tick of timer2); and before timer2 is armed it is masked, so that
\* no edge is taken between the sample and the first confirmation.
LlMaskTells ==
  /\ LlSteadyLight /\ llTick = "none" /\ ~llInside => (llMasked <=> llConfirm = 0)
  /\ LlSteadyLight /\ llInside => llMasked
  /\ LlSteadyLight /\ llT2 # "pending" /\ llTick = "none" => llMasked
  /\ LlSteadyLight /\ llT2 # "pending" /\ llTick \in {"high", "sure"} =>
       /\ llMasked /\ ~llFell /\ ~llInside
       /\ llTick = "sure" => llConfirm = 1

\* The handler has set the count back to 0, and inside a tick of timer2 it has
\* not come yet, unless it came there.
LlEdgeCounts ==
  /\ LlSteadyLight /\ ~llInside /\ llFell /\ llTick = "none" => llConfirm = 0
  /\ LlSteadyLight /\ ~llInside /\ llTick \in LlTick2 => ~llFell /\ ~llMasked

\* A tick of timer2 counts from 2 at most.
LlCount ==
  /\ llTick \in LlTick2 => llT2 = "idle"
  /\ llTick = "more" => llConfirm \in 0 .. 2
  /\ llTick = "add" => llReg \in 0 .. 2

\* A module that leaves with nothing in between has deleted its timers.
LlQuietExit ==
  /\ LlCalm /\ llMod \in LlLeaving \cup {"gone"} => llT1 # "pending" /\ llTick = "none"
  /\ LlCalm /\ llMod \in {"del2", "noirq", "gone"} => llT2 # "pending"
  /\ llMod \in {"out", "gone"} => ~llWriter

\* The inductive invariant: the property and what it rests on.
LlInv == LlWatches /\ LlLoading /\ LlMaskTells /\ LlEdgeCounts /\ LlQuietExit
           /\ LlCount

\* The state but for its flags, and the flags.
LlStates ==
  /\ llMod \in LlStages
  /\ llT1 \in {"raw", "idle", "pending"} /\ llT2 \in {"raw", "idle", "pending"}
  /\ llTick \in {"none", "high", "sure", "more", "add", "off"}
  /\ llEn \in 0 .. 2 /\ llConfirm \in 0 .. 3 /\ llReg \in 0 .. 3
LlFlags ==
  /\ llWriter \in BOOLEAN /\ llPin \in BOOLEAN /\ llEdge \in BOOLEAN
  /\ llMasked \in BOOLEAN /\ llHandler \in BOOLEAN /\ llLight \in BOOLEAN
  /\ llFell \in BOOLEAN /\ llInside \in BOOLEAN /\ llWrong \in BOOLEAN /\ llBug \in BOOLEAN
  /\ llRaced \in BOOLEAN

\* The type invariant is the conjunction of the two.
LEMMA LlTypeParts ==
  /\ LlTypeOK <=> LlStates /\ LlFlags
  /\ LlTypeOK' <=> LlStates' /\ LlFlags'
<1>1. {"none", "high", "sure"} \cup LlTick2 = {"none", "high", "sure", "more", "add", "off"}
  BY DEF LlTick2
<1>2. QED
  BY <1>1, Zenon DEF LlTypeOK, LlStates, LlFlags

\* The inductive invariant holds before the module is loaded.
LEMMA LlInitInv == LlInit => LlInv
<1> SUFFICES ASSUME LlInit PROVE LlInv
  OBVIOUS
<1>1. LlStates
  BY DEF LlInit, LlStates, LlStages
<1>2. LlFlags
  BY Zenon DEF LlInit, LlFlags
<1>3. LlOffWhenSteady /\ LlKeepsWatch
  BY DEF LlInit, LlOffWhenSteady, LlKeepsWatch
<1>4. LlLoading /\ LlMaskTells /\ LlEdgeCounts /\ LlQuietExit /\ LlCount
  BY DEF LlInit, LlLoading, LlMaskTells, LlEdgeCounts, LlQuietExit, LlCount, LlSteadyLight,
     LlLeaving, LlTick2
<1>5. QED
  BY <1>1, <1>2, <1>3, <1>4, LlTypeParts DEF LlInv, LlWatches

\* Every step leaves every variable with its type.
LEMMA LlTypeStep == LlTypeOK /\ LlCount /\ [LlNext]_llVars => LlTypeOK'
<1> SUFFICES ASSUME LlStates, LlFlags, LlCount, [LlNext]_llVars PROVE LlStates' /\ LlFlags'
  BY LlTypeParts
<1> USE DEF LlStages, LlLeaving, llTimers, llPinVars, llOther
<1>1. CASE longlight_create_proc_entry
  <2>1. LlStates'
    BY <1>1 DEF LlStates, longlight_create_proc_entry
  <2>2. LlFlags'
    BY <1>1, ZenonT(60) DEF LlFlags, longlight_create_proc_entry
  <2>3. QED
    BY <2>1, <2>2
<1>2. CASE ext_longlight_init
  <2>1. LlStates'
    BY <1>2 DEF LlStates, ext_longlight_init, LlProcRuns, IrqDue
  <2>2. LlFlags'
    BY <1>2, ZenonT(60) DEF LlFlags, ext_longlight_init, LlProcRuns, IrqDue
  <2>3. QED
    BY <2>1, <2>2
<1>3. ASSUME NEW ok \in BOOLEAN, LlRequest(ok) PROVE LlStates' /\ LlFlags'
  <2>1. LlStates'
    BY <1>3 DEF LlStates, LlRequest, LlProcRuns, IrqDue
  <2>2. LlFlags'
    BY <1>3, ZenonT(60) DEF LlFlags, LlRequest, LlProcRuns, IrqDue
  <2>3. QED
    BY <2>1, <2>2
<1>4. CASE LlPinRises
  <2>1. LlStates'
    BY <1>4 DEF LlStates, LlPinRises
  <2>2. LlFlags'
    BY <1>4, ZenonT(60) DEF LlFlags, LlPinRises
  <2>3. QED
    BY <2>1, <2>2
<1>5. CASE LlPinFalls
  <2>1. LlStates'
    BY <1>5 DEF LlStates, LlPinFalls
  <2>2. LlFlags'
    BY <1>5, ZenonT(60) DEF LlFlags, LlPinFalls
  <2>3. QED
    BY <2>1, <2>2
<1>6. CASE longlight_interrupt_ll
  <2>1. LlStates'
    BY <1>6 DEF LlStates, longlight_interrupt_ll, IrqDue, EdgeConfirm
  <2>a. llInside' \in BOOLEAN
    BY <1>6 DEF longlight_interrupt_ll
  <2>b. /\ llMasked' = TRUE /\ llEdge' = FALSE /\ llFell' = TRUE
        /\ UNCHANGED <<llWriter, llPin, llHandler, llLight, llWrong, llBug, llRaced>>
    BY <1>6, Zenon DEF longlight_interrupt_ll
  <2>2. LlFlags'
    BY <2>a, <2>b, Zenon DEF LlFlags
  <2>3. QED
    BY <2>1, <2>2
<1>7. CASE timer1_tick
  <2>1. LlStates'
    BY <1>7 DEF LlStates, timer1_tick, LlTickRuns, IrqDue, LlRaces
  <2>2. LlFlags'
    BY <1>7, ZenonT(60) DEF LlFlags, timer1_tick, LlTickRuns, IrqDue, LlRaces
  <2>3. QED
    BY <2>1, <2>2
<1>8. CASE Suspect
  <2>1. LlStates'
    BY <1>8 DEF LlStates, Suspect, LlTickRuns, IrqDue
  <2>2. LlFlags'
    BY <1>8, ZenonT(60) DEF LlFlags, Suspect, LlTickRuns, IrqDue
  <2>3. QED
    BY <2>1, <2>2
<1>9. CASE StartConfirming
  <2>1. LlStates'
    BY <1>9 DEF LlStates, StartConfirming, LlTickRuns, IrqDue, AddTimer, AddBug
  <2>2. LlFlags'
    BY <1>9, ZenonT(60) DEF LlFlags, StartConfirming, LlTickRuns, IrqDue, AddTimer, AddBug
  <2>3. QED
    BY <2>1, <2>2
<1>10. CASE timer2_tick
  <2>1. LlStates'
    BY <1>10 DEF LlStates, timer2_tick, LlTickRuns, IrqDue, AddTimer, AddBug, LlRaces
  <2>2. LlFlags'
    BY <1>10, ZenonT(60) DEF LlFlags, timer2_tick, LlTickRuns, IrqDue, AddTimer, AddBug, LlRaces
  <2>3. QED
    BY <2>1, <2>2
<1>11. ASSUME NEW v \in 0 .. 2, longlighten_write_fun(v) PROVE LlStates' /\ LlFlags'
  <2>1. LlStates'
    BY <1>11 DEF LlStates, longlighten_write_fun, LlFilesThere, LlProcRuns, IrqDue
  <2>2. LlFlags'
    BY <1>11, ZenonT(60) DEF LlFlags, longlighten_write_fun, LlFilesThere, LlProcRuns, IrqDue
  <2>3. QED
    BY <2>1, <2>2
<1>12. CASE LlWriteAdds
  <2>1. LlStates'
    BY <1>12 DEF LlStates, LlWriteAdds, LlProcRuns, IrqDue, AddTimer, AddBug, LlRaces
  <2>2. LlFlags'
    BY <1>12, ZenonT(60) DEF LlFlags, LlWriteAdds, LlProcRuns, IrqDue, AddTimer, AddBug, LlRaces
  <2>3. QED
    BY <2>1, <2>2
<1>13. CASE LlFree
  <2>1. LlStates'
    BY <1>13 DEF LlStates, LlFree, LlProcRuns, IrqDue, Deleted
  <2>2. LlFlags'
    BY <1>13, ZenonT(60) DEF LlFlags, LlFree, LlProcRuns, IrqDue, Deleted
  <2>3. QED
    BY <2>1, <2>2
<1>14. CASE UNCHANGED llVars
  <2>1. LlStates'
    BY <1>14 DEF LlStates, llVars
  <2>2. LlFlags'
    BY <1>14, ZenonT(60) DEF LlFlags, llVars
  <2>3. QED
    BY <2>1, <2>2
<1>15. CASE CountLoad
  <2>1. LlStates'
    BY <1>15 DEF LlStates, LlCount, CountLoad, LlTickRuns, IrqDue
  <2>2. LlFlags'
    BY <1>15, ZenonT(60) DEF LlFlags, CountLoad, LlTickRuns, IrqDue
  <2>3. QED
    BY <2>1, <2>2
<1>16. CASE CountStore
  <2>1. LlStates'
    BY <1>16 DEF LlStates, LlCount, CountStore, LlTickRuns, IrqDue, AddTimer, AddBug
  <2>2. LlFlags'
    BY <1>16, ZenonT(60) DEF LlFlags, CountStore, LlTickRuns, IrqDue, AddTimer, AddBug
  <2>3. QED
    BY <2>1, <2>2
<1>17. CASE TurnOff
  <2>1. LlStates'
    BY <1>17 DEF LlStates, LlCount, TurnOff, LlTickRuns, IrqDue, AddTimer, AddBug
  <2>2. LlFlags'
    BY <1>17, ZenonT(60) DEF LlFlags, TurnOff, LlTickRuns, IrqDue, AddTimer, AddBug
  <2>3. QED
    BY <2>1, <2>2
<1>18. QED
  BY <1>1, <1>2, <1>3, <1>4, <1>5, <1>6, <1>7, <1>8, <1>9, <1>10, <1>11, <1>12, <1>13, <1>14,
     <1>15, <1>16, <1>17 DEF LlNext

\* Loading, the timers, the interrupt handler, writes to the proc file and
\* unloading all preserve the inductive invariant.
LEMMA LlStepInv == LlInv /\ [LlNext]_llVars => LlInv'
<1> SUFFICES ASSUME LlInv, [LlNext]_llVars PROVE LlInv'
  OBVIOUS
<1>a. LlTypeOK /\ LlTypeOK' /\ LlStates /\ LlFlags /\ LlStates'
  BY LlTypeStep, LlTypeParts DEF LlInv, LlWatches
<1> USE <1>a DEF LlInv, LlWatches, LlStates, LlFlags, LlOffWhenSteady, LlKeepsWatch, LlLoading,
        LlMaskTells, LlEdgeCounts, LlQuietExit, LlCount, LlTick2, LlSteadyLight, LlCalm, LlStages, LlLeaving,
        llTimers, llPinVars, llOther
<1>1. CASE longlight_create_proc_entry
  BY <1>1 DEF longlight_create_proc_entry
<1>2. CASE ext_longlight_init
  BY <1>2 DEF ext_longlight_init, LlProcRuns, IrqDue
<1>3. ASSUME NEW ok \in BOOLEAN, LlRequest(ok) PROVE LlInv'
  BY <1>3 DEF LlRequest, LlProcRuns, IrqDue
<1>4. CASE LlPinRises
  BY <1>4 DEF LlPinRises
<1>5. CASE LlPinFalls
  BY <1>5 DEF LlPinFalls
<1>6. CASE longlight_interrupt_ll
  <2>1. LlOffWhenSteady'
    BY <1>6 DEF longlight_interrupt_ll, IrqDue, EdgeConfirm
  <2>2. LlKeepsWatch'
    BY <1>6 DEF longlight_interrupt_ll, IrqDue, EdgeConfirm
  <2>3. LlLoading'
    BY <1>6 DEF longlight_interrupt_ll, IrqDue, EdgeConfirm
  <2>4. LlMaskTells'
    BY <1>6 DEF longlight_interrupt_ll, IrqDue, EdgeConfirm
  <2>5. LlEdgeCounts'
    BY <1>6 DEF longlight_interrupt_ll, IrqDue, EdgeConfirm
  <2>6. LlQuietExit'
    BY <1>6 DEF longlight_interrupt_ll, IrqDue, EdgeConfirm
  <2>7. LlCount'
    BY <1>6 DEF longlight_interrupt_ll, IrqDue, EdgeConfirm
  <2>8. QED
    BY <2>1, <2>2, <2>3, <2>4, <2>5, <2>6, <2>7
<1>7. CASE timer1_tick
  <2>1. LlOffWhenSteady'
    BY <1>7 DEF timer1_tick, LlTickRuns, IrqDue, LlRaces
  <2>2. LlKeepsWatch'
    BY <1>7 DEF timer1_tick, LlTickRuns, IrqDue, LlRaces
  <2>3. LlLoading'
    BY <1>7 DEF timer1_tick, LlTickRuns, IrqDue, LlRaces
  <2>4. LlMaskTells'
    BY <1>7 DEF timer1_tick, LlTickRuns, IrqDue, LlRaces
  <2>5. LlEdgeCounts'
    BY <1>7 DEF timer1_tick, LlTickRuns, IrqDue, LlRaces
  <2>6. LlQuietExit'
    BY <1>7 DEF timer1_tick, LlTickRuns, IrqDue, LlRaces
  <2>7. LlCount'
    BY <1>7 DEF timer1_tick, LlTickRuns, IrqDue, LlRaces
  <2>8. QED
    BY <2>1, <2>2, <2>3, <2>4, <2>5, <2>6, <2>7
<1>8. CASE Suspect
  BY <1>8 DEF Suspect, LlTickRuns, IrqDue
<1>9. CASE StartConfirming
  <2>1. LlOffWhenSteady'
    BY <1>9 DEF StartConfirming, LlTickRuns, IrqDue, AddTimer, AddBug
  <2>2. LlKeepsWatch'
    BY <1>9 DEF StartConfirming, LlTickRuns, IrqDue, AddTimer, AddBug
  <2>3. LlLoading'
    BY <1>9 DEF StartConfirming, LlTickRuns, IrqDue, AddTimer, AddBug
  <2>4. LlMaskTells'
    BY <1>9 DEF StartConfirming, LlTickRuns, IrqDue, AddTimer, AddBug
  <2>5. LlEdgeCounts'
    BY <1>9 DEF StartConfirming, LlTickRuns, IrqDue, AddTimer, AddBug
  <2>6. LlQuietExit'
    BY <1>9 DEF StartConfirming, LlTickRuns, IrqDue, AddTimer, AddBug
  <2>7. LlCount'
    BY <1>9 DEF StartConfirming, LlTickRuns, IrqDue, AddTimer, AddBug
  <2>8. QED
    BY <2>1, <2>2, <2>3, <2>4, <2>5, <2>6, <2>7
<1>10. CASE timer2_tick
  <2>1. LlOffWhenSteady'
    BY <1>10 DEF timer2_tick, LlTickRuns, IrqDue, AddTimer, AddBug, LlRaces
  <2>2. LlKeepsWatch'
    BY <1>10 DEF timer2_tick, LlTickRuns, IrqDue, AddTimer, AddBug, LlRaces
  <2>3. LlLoading'
    BY <1>10 DEF timer2_tick, LlTickRuns, IrqDue, AddTimer, AddBug, LlRaces
  <2>4. LlMaskTells'
    BY <1>10 DEF timer2_tick, LlTickRuns, IrqDue, AddTimer, AddBug, LlRaces
  <2>5. LlEdgeCounts'
    BY <1>10 DEF timer2_tick, LlTickRuns, IrqDue, AddTimer, AddBug, LlRaces
  <2>6. LlQuietExit'
    BY <1>10 DEF timer2_tick, LlTickRuns, IrqDue, AddTimer, AddBug, LlRaces
  <2>7. LlCount'
    BY <1>10 DEF timer2_tick, LlTickRuns, IrqDue, AddTimer, AddBug, LlRaces
  <2>8. QED
    BY <2>1, <2>2, <2>3, <2>4, <2>5, <2>6, <2>7
<1>11. ASSUME NEW v \in 0 .. 2, longlighten_write_fun(v) PROVE LlInv'
  BY <1>11 DEF longlighten_write_fun, LlFilesThere, LlProcRuns, IrqDue
<1>12. CASE LlWriteAdds
  BY <1>12 DEF LlWriteAdds, LlProcRuns, IrqDue, AddTimer, AddBug, LlRaces
<1>13. CASE LlFree
  BY <1>13 DEF LlFree, LlProcRuns, IrqDue, Deleted
<1>14. CASE UNCHANGED llVars
  BY <1>14 DEF llVars
<1>15. CASE CountLoad
  <2>1. LlOffWhenSteady'
    BY <1>15 DEF CountLoad, LlTickRuns, IrqDue
  <2>2. LlKeepsWatch'
    BY <1>15 DEF CountLoad, LlTickRuns, IrqDue
  <2>3. LlLoading'
    BY <1>15 DEF CountLoad, LlTickRuns, IrqDue
  <2>4. LlMaskTells'
    BY <1>15 DEF CountLoad, LlTickRuns, IrqDue
  <2>5. LlEdgeCounts'
    BY <1>15 DEF CountLoad, LlTickRuns, IrqDue
  <2>6. LlQuietExit'
    BY <1>15 DEF CountLoad, LlTickRuns, IrqDue
  <2>7. LlCount'
    BY <1>15 DEF CountLoad, LlTickRuns, IrqDue
  <2>8. QED
    BY <2>1, <2>2, <2>3, <2>4, <2>5, <2>6, <2>7
<1>16. CASE CountStore
  <2>1. LlOffWhenSteady'
    BY <1>16 DEF CountStore, LlTickRuns, IrqDue, AddTimer, AddBug
  <2>2. LlKeepsWatch'
    BY <1>16 DEF CountStore, LlTickRuns, IrqDue, AddTimer, AddBug
  <2>3. LlLoading'
    BY <1>16 DEF CountStore, LlTickRuns, IrqDue, AddTimer, AddBug
  <2>4. LlMaskTells'
    BY <1>16 DEF CountStore, LlTickRuns, IrqDue, AddTimer, AddBug
  <2>5. LlEdgeCounts'
    BY <1>16 DEF CountStore, LlTickRuns, IrqDue, AddTimer, AddBug
  <2>6. LlQuietExit'
    BY <1>16 DEF CountStore, LlTickRuns, IrqDue, AddTimer, AddBug
  <2>7. LlCount'
    BY <1>16 DEF CountStore, LlTickRuns, IrqDue, AddTimer, AddBug
  <2>8. QED
    BY <2>1, <2>2, <2>3, <2>4, <2>5, <2>6, <2>7
<1>17. CASE TurnOff
  <2>1. LlOffWhenSteady'
    BY <1>17 DEF TurnOff, LlTickRuns, IrqDue, AddTimer, AddBug
  <2>2. LlKeepsWatch'
    BY <1>17 DEF TurnOff, LlTickRuns, IrqDue, AddTimer, AddBug
  <2>3. LlLoading'
    BY <1>17 DEF TurnOff, LlTickRuns, IrqDue, AddTimer, AddBug
  <2>4. LlMaskTells'
    BY <1>17 DEF TurnOff, LlTickRuns, IrqDue, AddTimer, AddBug
  <2>5. LlEdgeCounts'
    BY <1>17 DEF TurnOff, LlTickRuns, IrqDue, AddTimer, AddBug
  <2>6. LlQuietExit'
    BY <1>17 DEF TurnOff, LlTickRuns, IrqDue, AddTimer, AddBug
  <2>7. LlCount'
    BY <1>17 DEF TurnOff, LlTickRuns, IrqDue, AddTimer, AddBug
  <2>8. QED
    BY <2>1, <2>2, <2>3, <2>4, <2>5, <2>6, <2>7
<1>18. QED
  BY <1>1, <1>2, <1>3, <1>4, <1>5, <1>6, <1>7, <1>8, <1>9, <1>10, <1>11, <1>12, <1>13, <1>14,
     <1>15, <1>16, <1>17 DEF LlNext

\* However edges, ticks and writes mix, the light is switched off only after
\* three confirmations in which the handler took no edge, unless it came
\* inside timer2_tick() after its test; and while detection is enabled a
\* timer is armed or about to be; an exit that nothing crossed leaves none
\* behind (timer1_tick(), timer2_tick(), longlightdetect_dev.c).
THEOREM LlAlwaysWatches == LlSpec => []LlWatches
<1>1. LlInv => LlWatches
  BY DEF LlInv
<1>2. QED
  BY <1>1, LlInitInv, LlStepInv, PTL DEF LlSpec

-----------------------------------------------------------------------------
(* The MDIO driver                                                         *)

\* Process p is inside an access.
MdIn(p) == mdPc[p] \in MdInside

\* As long as no two calls have met there is at most one of them inside.
MdAlone == ~mdMet => \A p, q \in MdProcs : MdIn(p) /\ MdIn(q) => p = q

\* A process that is inside has a call, of the kind its stage belongs to.
MdCallOk ==
  \A p \in MdProcs :
    /\ MdIn(p) => mdCall[p] \in MdCalls
    /\ mdPc[p] = "data" => mdCall[p].op = "write"
    /\ mdPc[p] \in {"wait", "fetch"} => mdCall[p].op = "read"

\* What the access under way will do to the PHY registers: the ones that are
\* behind what was asked for are behind by exactly that.
MdAfter ==
  IF mdFlight.op = "write" THEN [mdMem EXCEPT ![<<mdFlight.phy, mdFlight.reg>>] = mdFlight.val]
  ELSE mdMem

MdCaughtUp == ~mdMet => mdAsked = MdAfter

\* The registers of the controller, up to the stage the one call inside has reached.
MdRegsSet ==
  ~mdMet => \A p \in MdProcs :
    /\ mdPc[p] \in {"phy", "reg", "data", "pulse"} => ~MdBusy
    /\ mdPc[p] \in {"reg", "data", "pulse"} => mdPhyAd = Cut(mdCall[p].phy)
    /\ mdPc[p] \in {"data", "pulse"} => mdRegAd = Cut(mdCall[p].reg)
    /\ mdPc[p] = "pulse" /\ mdCall[p].op = "write" => mdWData = mdCall[p].val
    /\ mdPc[p] = "wait" /\ MdBusy =>
         mdFlight.op = "read" /\ <<mdFlight.phy, mdFlight.reg>> = MdTarget(mdCall[p])
    /\ mdPc[p] = "wait" /\ ~MdBusy => mdRData = mdAsked[MdTarget(mdCall[p])]

\* A write carries a value: MDIO_WRITE has set the data register before the pulse.
MdWritesReal ==
  /\ mdFlight.op = "write" => mdFlight.val \in MdValues
  /\ \A p \in MdProcs : mdPc[p] = "pulse" /\ mdCall[p].op = "write" => mdWData \in MdValues

\* No read has returned the answer of another access.
MdFresh == ~mdMet => ~mdStale

\* The types, and what they rest on.
MdTyped == MdTypeOK /\ MdCallOk /\ MdWritesReal

\* The inductive invariant.
MdInv ==
  /\ MdTyped
  /\ MdAlone /\ MdCaughtUp /\ MdRegsSet /\ MdFresh

\* The address registers of the controller cut an argument to an address.
LEMMA MdCutType == \A a \in MdArgs : Cut(a) \in MdAddrs
  BY MdAssumption DEF MdArgs, MdAddrs, Cut

\* What an ioctl can ask for.
LEMMA MdCallTypes ==
  /\ \A c \in MdAsks : c \in MdCalls
  /\ \A c \in MdCalls \cup {MdIdle} :
       c.op \in {"read", "write", "none"} /\ c.phy \in MdArgs /\ c.reg \in MdArgs
  /\ \A c \in MdCalls : c.op \in {"read", "write"} /\ c.val \in MdValues
  /\ MdIdle.op = "none"
  BY MdAssumption DEF MdCalls, MdIdle, MdArgs

\* The value a call carries, if any.
LEMMA MdIdleVal == \A c \in MdCalls \cup {MdIdle} : c.val \in MdValues \cup {0}
  BY DEF MdCalls, MdIdle

\* The inductive invariant holds initially.
LEMMA MdInitInv == MdInit => MdInv
<1> SUFFICES ASSUME MdInit PROVE MdInv
  OBVIOUS
<1>a. mdOpened \in BOOLEAN /\ mdStale \in BOOLEAN /\ mdMet \in BOOLEAN
  BY Zenon DEF MdInit
<1>1. MdTypeOK
  BY MdAssumption, <1>a DEF MdInit, MdTypeOK, MdAddrs, MdValues
<1>2. MdWritesReal /\ MdAlone /\ MdCallOk /\ MdRegsSet /\ MdFresh
  BY MdCallTypes DEF MdInit, MdWritesReal, MdAlone, MdCallOk, MdRegsSet, MdFresh, MdIn, MdInside
<1>3. MdCaughtUp
  BY MdCallTypes DEF MdInit, MdCaughtUp, MdAfter
<1>4. QED
  BY <1>1, <1>2, <1>3 DEF MdInv, MdTyped

\* Every step leaves every variable with its type.
LEMMA MdTypeStep == MdTyped /\ [MdNext]_mdVars => MdTyped'
<1> SUFFICES ASSUME MdTyped, [MdNext]_mdVars PROVE MdTyped'
  OBVIOUS
<1> USE MdCutType, MdCallTypes, MdAssumption DEF MdTyped, MdTypeOK, MdCallOk, MdIn,
        MdWritesReal, MdInside, MdTarget, mdFiles, mdRegs
<1>1. CASE MdDone
  BY <1>1 DEF MdDone, MdBusy
<1>2. ASSUME NEW p \in MdProcs, mdio_open(p) PROVE MdTyped'
  BY <1>2 DEF mdio_open
<1>3. ASSUME NEW p \in MdProcs, MdSetOpen(p) PROVE MdTyped'
  BY <1>3 DEF MdSetOpen
<1>4. ASSUME NEW p \in MdProcs, mdio_release(p) PROVE MdTyped'
  BY <1>4 DEF mdio_release
<1>5. ASSUME NEW p \in MdProcs, NEW q \in MdProcs, MdFork(p, q) PROVE MdTyped'
  BY <1>5 DEF MdFork
<1>6. ASSUME NEW p \in MdProcs, NEW c \in MdAsks, mdio_ioctl(p, c) PROVE MdTyped'
  BY <1>6 DEF mdio_ioctl, MdGoes
<1>7. ASSUME NEW p \in MdProcs, MdTimeout(p) PROVE MdTyped'
  BY <1>7 DEF MdTimeout, MdReturn, MdGoes
<1>8. ASSUME NEW p \in MdProcs, MdPolled(p) PROVE MdTyped'
  BY <1>8 DEF MdPolled, NotBusy, MdGoes
<1>9. ASSUME NEW p \in MdProcs, MdSetUp(p) PROVE MdTyped'
  <2>1. mdCall[p] \in MdCalls \cup {MdIdle}
    OBVIOUS
  <2>2. mdPc' \in [MdProcs -> {"idle", "opening"} \cup MdInside]
    BY <1>9 DEF MdSetUp, MdGoes
  <2>3. mdPhyAd' \in MdAddrs /\ mdRegAd' \in MdAddrs
    BY <1>9, <2>1 DEF MdSetUp
  <2>4. mdWData' \in MdValues \cup {0}
    BY <1>9, <2>1, MdIdleVal DEF MdSetUp
  <2>5. MdWritesReal'
    <3>1. ASSUME NEW q \in MdProcs, mdPc'[q] = "pulse", mdCall'[q].op = "write"
          PROVE  mdWData' \in MdValues
      <4>1. CASE q = p
        BY <1>9, <3>1, <4>1, <2>1 DEF MdSetUp, MdGoes
      <4>2. CASE q # p
        BY <1>9, <3>1, <4>2, <2>1 DEF MdSetUp, MdGoes
      <4>3. QED
        BY <4>1, <4>2
    <3>2. QED
      BY <1>9, <3>1 DEF MdSetUp
  <2>6. MdCallOk'
    BY <1>9, <2>1 DEF MdSetUp, MdGoes
  <2>7. MdTypeOK'
    BY <1>9, <2>2, <2>3, <2>4 DEF MdSetUp
  <2>8. QED
    BY <2>5, <2>6, <2>7
<1>10. ASSUME NEW p \in MdProcs, MdPulse(p) PROVE MdTyped'
  <2>1. mdFlight' \in
          [op : {"read", "write"}, phy : MdAddrs, reg : MdAddrs, val : MdValues \cup {0}]
    BY <1>10 DEF MdPulse
  <2>2. CASE mdCall[p].op = "write"
    BY <1>10, <2>1, <2>2, SMTT(20) DEF MdPulse, MdReturn, MdGoes
  <2>3. CASE mdCall[p].op # "write"
    BY <1>10, <2>1, <2>3 DEF MdPulse, MdReturn, MdGoes
  <2>4. QED
    BY <2>2, <2>3
<1>11. ASSUME NEW p \in MdProcs, MdFetch(p) PROVE MdTyped'
  BY <1>11 DEF MdFetch, MdReturn, MdGoes
<1>12. CASE UNCHANGED mdVars
  BY <1>12 DEF mdVars
<1>13. QED
  BY <1>1, <1>2, <1>3, <1>4, <1>5, <1>6, <1>7, <1>8, <1>9, <1>10, <1>11, <1>12 DEF MdNext

\* Every step of a call, and the controller finishing an access, preserve the
\* inductive invariant.
LEMMA MdStepInv == MdInv /\ [MdNext]_mdVars => MdInv'
<1> SUFFICES ASSUME MdInv, [MdNext]_mdVars PROVE MdInv'
  OBVIOUS
<1>a. MdTyped'
  BY MdTypeStep DEF MdInv
<1> USE <1>a, MdCutType, MdCallTypes, MdAssumption DEF MdInv, MdTyped, MdTypeOK, MdWritesReal,
        MdAlone, MdCallOk, MdCaughtUp, MdRegsSet, MdFresh, MdIn, MdInside, MdAfter, MdTarget,
        MdBusy, mdFiles, mdRegs
<1>1. CASE MdDone
  <2>1. MdAlone'
    BY <1>1 DEF MdDone, MdBusy
  <2>2. MdCaughtUp'
    BY <1>1 DEF MdDone, MdBusy
  <2>3. MdRegsSet'
    BY <1>1 DEF MdDone, MdBusy
  <2>4. MdFresh'
    BY <1>1 DEF MdDone, MdBusy
  <2>5. QED
    BY <2>1, <2>2, <2>3, <2>4
<1>2. ASSUME NEW p \in MdProcs, mdio_open(p) PROVE MdInv'
  <2>1. MdAlone'
    BY <1>2 DEF mdio_open
  <2>2. MdCaughtUp'
    BY <1>2 DEF mdio_open
  <2>3. MdRegsSet'
    BY <1>2 DEF mdio_open
  <2>4. MdFresh'
    BY <1>2 DEF mdio_open
  <2>5. QED
    BY <2>1, <2>2, <2>3, <2>4
<1>3. ASSUME NEW p \in MdProcs, MdSetOpen(p) PROVE MdInv'
  <2>1. MdAlone'
    BY <1>3 DEF MdSetOpen
  <2>2. MdCaughtUp'
    BY <1>3 DEF MdSetOpen
  <2>3. MdRegsSet'
    BY <1>3 DEF MdSetOpen
  <2>4. MdFresh'
    BY <1>3 DEF MdSetOpen
  <2>5. QED
    BY <2>1, <2>2, <2>3, <2>4
<1>4. ASSUME NEW p \in MdProcs, mdio_release(p) PROVE MdInv'
  <2>1. MdAlone'
    BY <1>4 DEF mdio_release
  <2>2. MdCaughtUp'
    BY <1>4 DEF mdio_release
  <2>3. MdRegsSet'
    BY <1>4 DEF mdio_release
  <2>4. MdFresh'
    BY <1>4 DEF mdio_release
  <2>5. QED
    BY <2>1, <2>2, <2>3, <2>4
<1>5. ASSUME NEW p \in MdProcs, NEW q \in MdProcs, MdFork(p, q) PROVE MdInv'
  <2>1. MdAlone'
    BY <1>5 DEF MdFork
  <2>2. MdCaughtUp'
    BY <1>5 DEF MdFork
  <2>3. MdRegsSet'
    BY <1>5 DEF MdFork
  <2>4. MdFresh'
    BY <1>5 DEF MdFork
  <2>5. QED
    BY <2>1, <2>2, <2>3, <2>4
<1>6. ASSUME NEW p \in MdProcs, NEW c \in MdAsks, mdio_ioctl(p, c) PROVE MdInv'
  <2>1. MdAlone'
    <3>1. SUFFICES ASSUME ~mdMet' PROVE \A q, r \in MdProcs : MdIn(q)' /\ MdIn(r)' => q = r
      BY DEF MdAlone
    <3>2. \A q \in MdProcs : mdPc[q] \notin MdInside
      BY <1>6, <3>1, Zenon DEF mdio_ioctl
    <3>3. QED
      BY <1>6, <3>2 DEF mdio_ioctl, MdGoes
  <2>2. MdCaughtUp'
    BY <1>6 DEF mdio_ioctl, MdGoes
  <2>3. MdRegsSet'
    BY <1>6 DEF mdio_ioctl, MdGoes
  <2>4. MdFresh'
    BY <1>6 DEF mdio_ioctl, MdGoes
  <2>5. QED
    BY <2>1, <2>2, <2>3, <2>4
<1>7. ASSUME NEW p \in MdProcs, MdTimeout(p) PROVE MdInv'
  <2>1. MdAlone'
    BY <1>7 DEF MdTimeout, MdReturn, MdGoes
  <2>2. MdCaughtUp'
    BY <1>7 DEF MdTimeout, MdReturn, MdGoes
  <2>3. MdRegsSet'
    BY <1>7 DEF MdTimeout, MdReturn, MdGoes
  <2>4. MdFresh'
    BY <1>7 DEF MdTimeout, MdReturn, MdGoes
  <2>5. QED
    BY <2>1, <2>2, <2>3, <2>4
<1>8. ASSUME NEW p \in MdProcs, MdPolled(p) PROVE MdInv'
  <2>1. MdAlone'
    BY <1>8 DEF MdPolled, NotBusy, MdGoes
  <2>2. MdCaughtUp'
    BY <1>8 DEF MdPolled, NotBusy, MdGoes
  <2>3. MdRegsSet'
    BY <1>8 DEF MdPolled, NotBusy, MdGoes
  <2>4. MdFresh'
    BY <1>8 DEF MdPolled, NotBusy, MdGoes
  <2>5. QED
    BY <2>1, <2>2, <2>3, <2>4
<1>9. ASSUME NEW p \in MdProcs, MdSetUp(p) PROVE MdInv'
  <2>1. MdAlone'
    BY <1>9 DEF MdSetUp, MdGoes
  <2>2. MdCaughtUp'
    BY <1>9 DEF MdSetUp, MdGoes
  <2>3. MdRegsSet'
    BY <1>9 DEF MdSetUp, MdGoes
  <2>4. MdFresh'
    BY <1>9 DEF MdSetUp, MdGoes
  <2>5. QED
    BY <2>1, <2>2, <2>3, <2>4
<1>10. ASSUME NEW p \in MdProcs, MdPulse(p) PROVE MdInv'
  <2>1. MdAlone'
    BY <1>10 DEF MdPulse, MdReturn, MdGoes
  <2>2. MdCaughtUp'
    BY <1>10 DEF MdPulse, MdReturn, MdGoes
  <2>3. MdRegsSet'
    BY <1>10 DEF MdPulse, MdReturn, MdGoes
  <2>4. MdFresh'
    BY <1>10 DEF MdPulse, MdReturn, MdGoes
  <2>5. QED
    BY <2>1, <2>2, <2>3, <2>4
<1>11. ASSUME NEW p \in MdProcs, MdFetch(p) PROVE MdInv'
  <2>1. MdAlone'
    BY <1>11 DEF MdFetch, MdReturn, MdGoes
  <2>2. MdCaughtUp'
    BY <1>11 DEF MdFetch, MdReturn, MdGoes
  <2>3. MdRegsSet'
    BY <1>11 DEF MdFetch, MdReturn, MdGoes
  <2>4. MdFresh'
    BY <1>11 DEF MdFetch, MdReturn, MdGoes
  <2>5. QED
    BY <2>1, <2>2, <2>3, <2>4
<1>12. CASE UNCHANGED mdVars
  <2>1. MdAlone'
    BY <1>12 DEF mdVars
  <2>2. MdCaughtUp'
    BY <1>12 DEF mdVars
  <2>3. MdRegsSet'
    BY <1>12 DEF mdVars
  <2>4. MdFresh'
    BY <1>12 DEF mdVars
  <2>5. QED
    BY <2>1, <2>2, <2>3, <2>4
<1>13. QED
  BY <1>1, <1>2, <1>3, <1>4, <1>5, <1>6, <1>7, <1>8, <1>9, <1>10, <1>11, <1>12 DEF MdNext

\* As long as no two calls met inside the driver, no read returned another
\* access's answer, and once the controller is idle the PHY registers hold
\* what was asked for (mdio_ioctl(), mdio_dev.c).
THEOREM MdAlwaysAnswers == MdSpec => []MdAnswers
<1>1. MdInv => MdAnswers
  <2> SUFFICES ASSUME MdInv, ~mdMet PROVE ~mdStale /\ (~MdBusy => mdMem = mdAsked)
    BY Zenon DEF MdAnswers, MdInv, MdTyped
  <2>1. ~mdStale
    BY Zenon DEF MdInv, MdFresh
  <2>2. ASSUME ~MdBusy PROVE mdMem = mdAsked
    BY <2>2, MdCallTypes DEF MdInv, MdCaughtUp, MdAfter, MdBusy
  <2>3. QED
    BY <2>1, <2>2
<1>2. QED
  BY <1>1, MdInitInv, MdStepInv, PTL DEF MdSpec

-----------------------------------------------------------------------------
(* The AER injector                                                        *)

\* Bus b is on the list s.
AeHas(s, b) == \E i \in DOMAIN s : s[i] = b
\* Bus b is on the list s at most once.
AeOnce(s, b) == \A i, j \in DOMAIN s : s[i] = b /\ s[j] = b => i = j
\* Call p has replaced the operations of bus b and not remembered them yet.
AeAdds(p, b) == aePc[p] \in {"add1", "add2"} /\ AeBus(p) = b

\* The books of a bus: its operations are replaced exactly when they are
\* remembered, about to be remembered, or just popped.
AeBooks(b) ==
  /\ AeOnce(aeList, b)
  /\ aeOps[b] = "orig" =>
       ~AeHas(aeList, b) /\ (\A p \in AeProcs : ~AeAdds(p, b)) /\ aePop # b
  /\ aeOps[b] = "aer" =>
       AeHas(aeList, b) \/ (\E p \in AeProcs : AeAdds(p, b)) \/ aePop = b
  /\ \A p \in AeProcs : AeAdds(p, b) =>
       ~AeHas(aeList, b) /\ \A q \in AeProcs : AeAdds(q, b) => p = q
  /\ aePop = b => ~AeHas(aeList, b)

\* A call that is under way carries an error.
AeCallOk == \A p \in AeProcs : aePc[p] # "idle" => aeInj[p] \in AeInjs

\* Unloading: nobody is inside, an entry is popped exactly while it is being
\* put back, and at the end nothing is left to put back.
AeExit ==
  /\ aeMod # "live" => \A p \in AeProcs : aePc[p] = "idle"
  /\ IF aeMod = "restoring" THEN aePop \in AeBuses ELSE aePop = AeNone
  /\ aeMod = "gone" => \A b \in AeBuses : aeOps[b] = "orig"

\* What AerOpsKept rests on.
AeOpsInv == AeTypeOK /\ AeCallOk /\ AeExit /\ \A b \in AeBuses : AeBooks(b)

\* As long as no two calls on one device overlapped, a call has read the
\* first masks, and only the window between overriding and restoring shows
\* others.
AeMasksKept ==
  "overlap" \notin aeSeen =>
    /\ \A p, q \in AeProcs :
         aePc[p] # "idle" /\ aePc[q] # "idle" /\ aeInj[p].dev = aeInj[q].dev => p = q
    /\ \A p \in AeProcs : aePc[p] # "idle" => aeOld[p] = AeFirstMask
    /\ \A p \in AeProcs : aePc[p] = "override" => aeOverride
    /\ \A d \in AeDevs :
         \/ aeMask[d] = AeFirstMask
         \/ /\ aeOverride
            /\ \E p \in AeProcs : aePc[p] \in {"record", "fill", "restore"} /\ aeInj[p].dev = d

\* As long as regs were not filled while an earlier use was not over, there
\* is one use at a time, and regs are its device's.
AeRegsKept ==
  "hurried" \notin aeSeen =>
    /\ "mixed" \notin aeSeen
    /\ \A p \in AeProcs : AeFilled(p) =>
         /\ aeWork = <<>> /\ aeRegs = aeInj[p].dev
         /\ \A q \in AeProcs : AeFilled(q) => p = q
    /\ aeWork # <<>> => aeWork = <<aeRegs>>

\* The inductive invariant.
AeInv == AeOpsInv /\ AeMasksKept /\ AeRegsKept

\* The books of all buses.
AeAllBooks == \A b \in AeBuses : AeBooks(b)

\* Adding a bus at the head of the list (list_add()).
LEMMA AeConsHas ==
  ASSUME NEW B, NEW s \in Seq(B), NEW x \in B, NEW b
  PROVE  /\ <<x>> \o s \in Seq(B)
         /\ AeHas(<<x>> \o s, b) <=> x = b \/ AeHas(s, b)
         /\ AeOnce(s, b) /\ (x = b => ~AeHas(s, b)) => AeOnce(<<x>> \o s, b)
<1> DEFINE t == <<x>> \o s
<1>1. t \in Seq(B) /\ Len(t) = Len(s) + 1 /\ t[1] = x /\ \A i \in 1 .. Len(s) : t[i + 1] = s[i]
  OBVIOUS
<1>2. Len(s) \in Nat /\ DOMAIN s = 1 .. Len(s) /\ DOMAIN t = 1 .. Len(s) + 1
  BY <1>1
<1> HIDE DEF t
<1>3. \A j \in DOMAIN t : j = 1 \/ (j - 1 \in DOMAIN s /\ t[j] = s[j - 1])
  BY <1>1, <1>2
<1>4. \A i \in DOMAIN s : i + 1 \in DOMAIN t /\ t[i + 1] = s[i]
  BY <1>1, <1>2
<1>5. AeHas(t, b) <=> x = b \/ AeHas(s, b)
  BY <1>1, <1>2, <1>3, <1>4 DEF AeHas
<1>6. AeOnce(s, b) /\ (x = b => ~AeHas(s, b)) => AeOnce(t, b)
  BY <1>1, <1>2, <1>3 DEF AeHas, AeOnce
<1>7. QED
  BY <1>1, <1>5, <1>6 DEF t

\* Popping the head of the list (pci_bus_ops_pop()).
LEMMA AeTailHas ==
  ASSUME NEW B, NEW s \in Seq(B), s # <<>>, NEW b, AeOnce(s, b)
  PROVE  /\ Tail(s) \in Seq(B) /\ Head(s) \in B
         /\ AeHas(s, b) <=> Head(s) = b \/ AeHas(Tail(s), b)
         /\ AeOnce(Tail(s), b)
         /\ Head(s) = b => ~AeHas(Tail(s), b)
<1> DEFINE t == Tail(s)
<1>1. /\ t \in Seq(B) /\ Len(s) \in Nat \ {0} /\ Len(t) = Len(s) - 1
      /\ Head(s) = s[1] /\ Head(s) \in B /\ \A i \in 1 .. Len(s) - 1 : t[i] = s[i + 1]
  OBVIOUS
<1>2. DOMAIN s = 1 .. Len(s) /\ DOMAIN t = 1 .. Len(s) - 1
  BY <1>1
<1> HIDE DEF t
<1>3. \A i \in DOMAIN t : i + 1 \in DOMAIN s /\ i + 1 # 1 /\ t[i] = s[i + 1]
  BY <1>1, <1>2
<1>4. \A j \in DOMAIN s : j = 1 \/ (j - 1 \in DOMAIN t /\ t[j - 1] = s[j])
  BY <1>1, <1>2
<1>5. 1 \in DOMAIN s
  BY <1>1, <1>2
<1>6. AeHas(s, b) <=> Head(s) = b \/ AeHas(t, b)
  BY <1>1, <1>3, <1>4, <1>5 DEF AeHas
<1>7. AeOnce(t, b)
  BY <1>2, <1>3 DEF AeOnce
<1>8. Head(s) = b => ~AeHas(t, b)
  BY <1>1, <1>3, <1>5 DEF AeOnce, AeHas
<1>9. QED
  BY <1>1, <1>6, <1>7, <1>8 DEF t

\* The devices that are asked for exist and sit on a bus.
LEMMA AeBusType ==
  /\ AeBusOf[AeRoot] \in AeBuses
  /\ \A e \in AeInjs : e.dev \in AeDevs /\ e.dev \in AeNodes /\ AeBusOf[e.dev] \in AeBuses
  /\ \A e \in AeAsks : e \in AeInjs
  BY AeAssumption DEF AeBuses, AeNodes, AeInjs

\* The inductive invariant holds when the module is loaded.
LEMMA AeInitInv == AeInit => AeInv
<1> SUFFICES ASSUME AeInit PROVE AeInv
  OBVIOUS
<1>1. aeOverride \in BOOLEAN /\ aeIrq \in BOOLEAN
  BY Zenon DEF AeInit
<1>2. AeTypeOK
  BY <1>1, AeAssumption DEF AeInit, AeTypeOK, AeStages
<1>3. AeCallOk /\ AeExit
  BY DEF AeInit, AeCallOk, AeExit
<1>4. \A b \in AeBuses : AeBooks(b)
  BY AeAssumption DEF AeInit, AeBooks, AeOnce, AeHas, AeAdds
<1>5. AeMasksKept /\ AeRegsKept
  BY DEF AeInit, AeMasksKept, AeRegsKept, AeFilled
<1>6. QED
  BY <1>2, <1>3, <1>4, <1>5 DEF AeInv, AeOpsInv

\* The type invariant by kinds of variables: the provers take flags, sets and
\* sequences apart.
AeFlagsT == aeOverride \in BOOLEAN /\ aeIrq \in BOOLEAN
AeErrT == aeErr \in [AeNodes -> AeEntry(SUBSET AeBits) \cup {AeNone}]
AeSetsT ==
  /\ aeRootSt \subseteq RootBits /\ aeRead \subseteq RootBits
  /\ aeSeen \subseteq {"overlap", "hurried", "mixed", "null"}
AeBusT ==
  /\ aeMod \in {"live", "leaving", "restoring", "gone"}
  /\ aeOps \in [AeBuses -> {"orig", "aer"}]
  /\ aeList \in Seq(AeBuses) /\ aePop \in AeBuses \cup {AeNone}
AeMaskT ==
  /\ aeMask \in [AeDevs -> [AeKinds -> SUBSET AeBits]]
  /\ aeOld \in [AeProcs -> [AeKinds -> SUBSET AeBits]]
AeCallT ==
  /\ aePc \in [AeProcs -> AeStages]
  /\ aeInj \in [AeProcs -> AeInjs \cup {AeNone}]
  /\ aeCalls \in 0 .. AE_CALLS
AeWorkT == aeRegs \in AeDevs \cup {AeNone} /\ aeWork \in Seq(AeDevs)

\* The type invariant is the conjunction of those kinds.
LEMMA AeTypeParts ==
  /\ AeTypeOK <=> /\ AeFlagsT /\ AeErrT /\ AeSetsT /\ AeBusT /\ AeMaskT
                   /\ AeCallT /\ AeWorkT
  /\ AeTypeOK' <=> /\ AeFlagsT' /\ AeErrT' /\ AeSetsT' /\ AeBusT' /\ AeMaskT'
                    /\ AeCallT' /\ AeWorkT'
  BY Zenon DEF AeTypeOK, AeFlagsT, AeErrT, AeSetsT, AeBusT, AeMaskT, AeCallT, AeWorkT

\* The types and the calls.
AeTyped == AeTypeOK /\ AeCallOk

\* Every step leaves every variable with its type.
LEMMA AeTypeStep == AeTypeOK /\ AeCallOk /\ AeExit /\ [AeNext]_aeVars => AeTypeOK' /\ AeCallOk'
<1> SUFFICES ASSUME AeTypeOK, AeCallOk, AeExit, [AeNext]_aeVars PROVE AeTyped'
  BY DEF AeTyped
<1>b. AeFlagsT /\ AeErrT /\ AeSetsT /\ AeBusT /\ AeMaskT /\ AeCallT /\ AeWorkT
  BY AeTypeParts
<1>a. aeOverride' = aeOverride
  BY DEF AeNext, aeVars
<1> USE <1>a, <1>b, AeTypeParts, AeBusType, AeAssumption DEF AeTyped, AeFlagsT, AeErrT, AeSetsT,
        AeBusT, AeMaskT, AeCallT, AeWorkT, AeCallOk, AeExit, AeStages, aeListVars, aeBusVars,
        aeCallVars, aeUserVars
<1>1. ASSUME NEW p \in AeProcs, NEW e \in AeAsks, aer_inject(p, e) PROVE AeTyped'
  <2>1. AeErrT' /\ AeBusT' /\ AeMaskT' /\ AeWorkT'
    BY <1>1 DEF aer_inject, AeGoes
  <2>2. AeFlagsT'
    BY <1>1 DEF aer_inject, AeGoes
  <2>3. AeSetsT'
    BY <1>1 DEF aer_inject, AeGoes
  <2>4. AeCallT'
    BY <1>1 DEF aer_inject, AeGoes
  <2>5. AeCallOk'
    BY <1>1 DEF aer_inject, AeGoes
  <2>6. QED
    BY <2>1, <2>2, <2>3, <2>4, <2>5
<1>2. ASSUME NEW p \in AeProcs, OverrideMasks(p) PROVE AeTyped'
  <2>1. AeErrT' /\ AeSetsT' /\ AeBusT' /\ AeCallT' /\ AeWorkT' /\ AeCallOk'
    BY <1>2 DEF OverrideMasks, AeGoes
  <2>2. AeFlagsT'
    BY <1>2 DEF OverrideMasks, AeGoes
  <2>3. AeMaskT'
    <3>1. aeOld[p] \in [AeKinds -> SUBSET AeBits] /\ aeInj[p] \in AeInjs
      BY <1>2 DEF OverrideMasks
    <3>2. [cor |-> Overridden(aeOld[p]["cor"], aeInj[p].cor),
           uncor |-> Overridden(aeOld[p]["uncor"], aeInj[p].uncor)] \in [AeKinds -> SUBSET AeBits]
      BY <3>1 DEF Overridden, AeKinds
    <3>3. QED
      BY <1>2, <3>1, <3>2 DEF OverrideMasks
  <2>4. QED
    BY <2>1, <2>2, <2>3
<1>3. ASSUME NEW p \in AeProcs, Record(p) PROVE AeTyped'
  <2>1. AeBusT' /\ AeWorkT' /\ AeCallOk'
    BY <1>3 DEF Record, AeGoes, AeReturn
  <2>2. AeFlagsT'
    BY <1>3 DEF Record, AeGoes, AeReturn
  <2>3. AeErrT'
    <3>1. aeInj[p] \in AeInjs /\ aeInj[p].cor \in SUBSET AeBits /\ aeInj[p].uncor \in SUBSET AeBits
      BY <1>3 DEF Record, AeInjs
    <3>2. /\ aeErr[aeInj[p].dev] \in AeEntry(SUBSET AeBits) \cup {AeNone}
          /\ aeErr[AeRoot] \in AeEntry(SUBSET AeBits) \cup {AeNone}
      BY <3>1 DEF AeNodes
    <3> DEFINE zero == [cor |-> {}, uncor |-> {}]
               old == IF aeErr[aeInj[p].dev] = AeNone THEN zero ELSE aeErr[aeInj[p].dev]
               new == [cor |-> old.cor \cup aeInj[p].cor, uncor |-> old.uncor \cup aeInj[p].uncor]
               root == IF aeErr[AeRoot] = AeNone THEN zero ELSE aeErr[AeRoot]
    <3>3. zero \in AeEntry(SUBSET AeBits)
      BY DEF AeEntry
    <3>4. old \in AeEntry(SUBSET AeBits) /\ root \in AeEntry(SUBSET AeBits)
      BY <3>2, <3>3
    <3>5. new \in AeEntry(SUBSET AeBits)
      BY <3>1, <3>4 DEF AeEntry
    <3>6. \/ aeErr' = [aeErr EXCEPT ![aeInj[p].dev] = new]
          \/ aeErr' = [aeErr EXCEPT ![aeInj[p].dev] = new, ![AeRoot] = root]
      BY <1>3, Zenon DEF Record
    <3> HIDE DEF zero, old, new, root
    <3>7. aeErr \in [AeNodes -> AeEntry(SUBSET AeBits) \cup {AeNone}]
      OBVIOUS
    <3>8. aeErr' \in [AeNodes -> AeEntry(SUBSET AeBits) \cup {AeNone}]
      BY ONLY <3>4, <3>5, <3>6, <3>7, Zenon
    <3>9. QED
      BY <3>8
  <2>4. AeSetsT'
    <3>1. aeRootSt' = aeRootSt \/ aeRootSt' = RootAfter(aeInj[p])
      BY <1>3, Zenon DEF Record
    <3>2. RootAfter(aeInj[p]) \subseteq RootBits
      BY DEF RootAfter, RootBits
    <3>3. aeSeen' = aeSeen
      BY <1>3, Zenon DEF Record
    <3>4. aeRead' = aeRead
      BY <1>3 DEF Record
    <3>5. QED
      BY <3>1, <3>2, <3>3, <3>4
  <2>5. AeMaskT'
    <3>1. aeMask' = aeMask
      BY <1>3 DEF Record
    <3>2. aeOld' = aeOld \/ aeOld' = [aeOld EXCEPT ![p] = AeFirstMask]
      BY <1>3, Zenon DEF Record, AeReturn
    <3>3. aeOld \in [AeProcs -> [AeKinds -> SUBSET AeBits]]
      OBVIOUS
    <3>4. aeOld' \in [AeProcs -> [AeKinds -> SUBSET AeBits]]
      BY ONLY <3>2, <3>3, AeAssumption, Zenon
    <3>5. QED
      BY <3>1, <3>4
  <2>6. AeCallT'
    <3>1. \/ /\ aePc' = [aePc EXCEPT ![p] = "idle"]
             /\ aeInj' = [aeInj EXCEPT ![p] = AeNone]
          \/ aePc' = [aePc EXCEPT ![p] = "fill"] /\ aeInj' = aeInj
      BY <1>3, Zenon DEF Record, AeReturn, AeGoes
    <3>2. aeCalls' = aeCalls
      BY <1>3 DEF Record
    <3>3. QED
      BY <3>1, <3>2
  <2>7. QED
    BY <2>1, <2>2, <2>3, <2>4, <2>5, <2>6
<1>3a. ASSUME NEW p \in AeProcs, FillRegs(p) PROVE AeTyped'
  <2>1. AeErrT' /\ AeBusT' /\ AeCallT' /\ AeWorkT' /\ AeCallOk' /\ AeMaskT'
    BY <1>3a DEF FillRegs, AeGoes
  <2>2. AeFlagsT'
    BY <1>3a, AeBusType DEF FillRegs, AeGoes
  <2>3. AeSetsT'
    BY <1>3a DEF FillRegs
  <2>4. QED
    BY <2>1, <2>2, <2>3
<1>4. ASSUME NEW p \in AeProcs, RestoreMasks(p) PROVE AeTyped'
  <2>1. AeErrT' /\ AeSetsT' /\ AeBusT' /\ AeCallT' /\ AeWorkT' /\ AeCallOk'
    BY <1>4, ZenonT(40) DEF RestoreMasks, AeGoes
  <2>2. AeFlagsT'
    BY <1>4 DEF RestoreMasks, AeGoes
  <2>3. AeMaskT'
    BY <1>4 DEF RestoreMasks, AeGoes, Restored
  <2>4. QED
    BY <2>1, <2>2, <2>3
<1>5. ASSUME NEW p \in AeProcs, pci_bus_set_aer_ops(p) PROVE AeTyped'
  <2>1. AeErrT' /\ AeWorkT'
    BY <1>5 DEF pci_bus_set_aer_ops, AeGoes, AeReturn
  <2>2. AeFlagsT'
    BY <1>5 DEF pci_bus_set_aer_ops, AeGoes, AeReturn
  <2>3. AeSetsT'
    BY <1>5 DEF pci_bus_set_aer_ops, AeGoes, AeReturn
  <2>4. AeBusT'
    BY <1>5 DEF pci_bus_set_aer_ops, AeGoes, AeReturn, AeBus
  <2>5. AeMaskT'
    <3>1. aeMask' = aeMask
      BY <1>5 DEF pci_bus_set_aer_ops
    <3>2. aeOld' = aeOld \/ aeOld' = [aeOld EXCEPT ![p] = AeFirstMask]
      BY <1>5, Zenon DEF pci_bus_set_aer_ops, AeReturn
    <3>3. aeOld \in [AeProcs -> [AeKinds -> SUBSET AeBits]]
      OBVIOUS
    <3>4. aeOld' \in [AeProcs -> [AeKinds -> SUBSET AeBits]]
      BY ONLY <3>2, <3>3, AeAssumption, Zenon
    <3>5. QED
      BY <3>1, <3>4
  <2>6. AeCallT'
    BY <1>5 DEF pci_bus_set_aer_ops, AeGoes, AeReturn, AeThen
  <2>7. AeCallOk'
    <3>1. \A q \in AeProcs : q # p => aePc'[q] = aePc[q] /\ aeInj'[q] = aeInj[q]
      BY <1>5 DEF pci_bus_set_aer_ops, AeGoes, AeReturn
    <3>2. aePc[p] # "idle" /\ (aePc'[p] = "idle" \/ aeInj'[p] = aeInj[p])
      BY <1>5 DEF pci_bus_set_aer_ops, AeGoes, AeReturn
    <3>3. QED
      BY ONLY <3>1, <3>2, AeCallOk, p \in AeProcs DEF AeCallOk
  <2>8. QED
    BY <2>1, <2>2, <2>3, <2>4, <2>5, <2>6, <2>7
<1>6. ASSUME NEW p \in AeProcs, AddBusOps(p) PROVE AeTyped'
  <2>1. AeErrT' /\ AeSetsT' /\ AeMaskT' /\ AeWorkT' /\ AeCallOk'
    BY <1>6 DEF AddBusOps, AeGoes
  <2>2. AeFlagsT'
    BY <1>6 DEF AddBusOps, AeGoes
  <2>3. AeBusT'
    <3>1. AeBus(p) \in AeBuses
      BY <1>6 DEF AddBusOps, AeBus
    <3>2. <<AeBus(p)>> \o aeList \in Seq(AeBuses)
      BY <3>1, AeConsHas
    <3>3. QED
      BY <1>6, <3>2 DEF AddBusOps
  <2>4. AeCallT'
    BY <1>6 DEF AddBusOps, AeGoes, AeThen
  <2>5. QED
    BY <2>1, <2>2, <2>3, <2>4
<1>7. ASSUME NEW p \in AeProcs, AeTell(p) PROVE AeTyped'
  <2>1. AeErrT' /\ AeSetsT' /\ AeBusT' /\ AeMaskT' /\ AeCallT' /\ AeCallOk'
    BY <1>7, ZenonT(40) DEF AeTell, AeGoes, AeReturn
  <2>2. AeFlagsT'
    BY <1>7 DEF AeTell, AeGoes, AeReturn
  <2>3. AeWorkT'
    <3>1. aeInj[p].dev \in AeDevs
      BY <1>7 DEF AeTell
    <3>2. aeWork' = aeWork \/ aeWork' = Append(aeWork, aeInj[p].dev)
      BY <1>7 DEF AeTell
    <3>3. aeWork \in Seq(AeDevs) /\ aeRegs' = aeRegs
      BY <1>7 DEF AeTell
    <3>4. aeWork' \in Seq(AeDevs)
      BY ONLY <3>1, <3>2, <3>3
    <3>5. QED
      BY <3>3, <3>4
  <2>4. QED
    BY <2>1, <2>2, <2>3
<1>8. ASSUME NEW b \in AeBuses, AeAccess(b) PROVE AeTyped'
  <2>1. AeErrT' /\ AeSetsT' /\ AeBusT' /\ AeMaskT' /\ AeCallT' /\ AeWorkT' /\ AeCallOk'
    BY <1>8 DEF AeAccess
  <2>2. AeFlagsT'
    BY <1>8 DEF AeAccess
  <2>3. QED
    BY <2>1, <2>2
<1>9. CASE DriverReads
  <2>1. AeErrT' /\ AeSetsT' /\ AeBusT' /\ AeMaskT' /\ AeCallT' /\ AeWorkT' /\ AeCallOk'
    BY <1>9 DEF DriverReads
  <2>2. AeFlagsT'
    BY <1>9 DEF DriverReads
  <2>3. QED
    BY <2>1, <2>2
<1>10. CASE DriverClears
  <2>1. AeBusT' /\ AeMaskT' /\ AeCallT' /\ AeWorkT' /\ AeCallOk'
    BY <1>10 DEF DriverClears
  <2>2. AeFlagsT'
    BY <1>10 DEF DriverClears
  <2>3. AeErrT'
    <3>1. [cor |-> {}, uncor |-> {}] \in AeEntry(SUBSET AeBits)
      BY DEF AeEntry
    <3>2. QED
      BY <1>10, <3>1, Zenon DEF DriverClears
  <2>4. AeSetsT'
    BY <1>10 DEF DriverClears, Xor
  <2>5. QED
    BY <2>1, <2>2, <2>3, <2>4
<1>11. CASE AeRecover
  <2>1. AeErrT' /\ AeBusT' /\ AeMaskT' /\ AeCallT' /\ AeCallOk'
    BY <1>11 DEF AeRecover
  <2>2. AeFlagsT'
    BY <1>11 DEF AeRecover
  <2>3. AeSetsT'
    BY <1>11 DEF AeRecover
  <2>4. AeWorkT'
    BY <1>11 DEF AeRecover
  <2>5. QED
    BY <2>1, <2>2, <2>3, <2>4
<1>12. CASE AeLeave
  <2>1. AeErrT' /\ AeSetsT' /\ AeBusT' /\ AeMaskT' /\ AeCallT' /\ AeWorkT' /\ AeCallOk'
    BY <1>12 DEF AeLeave
  <2>2. AeFlagsT'
    BY <1>12 DEF AeLeave
  <2>3. QED
    BY <2>1, <2>2
<1>13. CASE pci_bus_ops_pop
  <2>1. AeErrT' /\ AeSetsT' /\ AeMaskT' /\ AeCallT' /\ AeWorkT' /\ AeCallOk'
    BY <1>13 DEF pci_bus_ops_pop
  <2>2. AeFlagsT'
    BY <1>13 DEF pci_bus_ops_pop
  <2>3. AeBusT'
    BY <1>13 DEF pci_bus_ops_pop
  <2>4. QED
    BY <2>1, <2>2, <2>3
<1>14. CASE AePutBack
  <2>1. AeErrT' /\ AeSetsT' /\ AeBusT' /\ AeMaskT' /\ AeCallT' /\ AeWorkT' /\ AeCallOk'
    BY <1>14 DEF AePutBack
  <2>2. AeFlagsT'
    BY <1>14 DEF AePutBack
  <2>3. QED
    BY <2>1, <2>2
<1>15. CASE AeGone
  <2>1. AeErrT' /\ AeSetsT' /\ AeBusT' /\ AeMaskT' /\ AeCallT' /\ AeWorkT' /\ AeCallOk'
    BY <1>15 DEF AeGone
  <2>2. AeFlagsT'
    BY <1>15 DEF AeGone
  <2>3. QED
    BY <2>1, <2>2
<1>16. CASE UNCHANGED aeVars
  <2>1. AeErrT' /\ AeSetsT' /\ AeBusT' /\ AeMaskT' /\ AeCallT' /\ AeWorkT' /\ AeCallOk'
    BY <1>16 DEF aeVars
  <2>2. AeFlagsT'
    BY <1>16 DEF aeVars
  <2>3. QED
    BY <2>1, <2>2
<1>17. QED
  BY <1>1, <1>2, <1>3, <1>3a, <1>4, <1>5, <1>6, <1>7, <1>8, <1>9, <1>10, <1>11,
     <1>12, <1>13, <1>14, <1>15, <1>16 DEF AeNext

\* A step that touches neither operations, list nor stages keeps the books.
LEMMA AeBooksFrame ==
  ASSUME aeOps' = aeOps, aeList' = aeList, aePop' = aePop,
         \A q \in AeProcs : \A c \in AeBuses : AeAdds(q, c)' <=> AeAdds(q, c),
         \A b \in AeBuses : AeBooks(b)
  PROVE  \A b \in AeBuses : AeBooks(b)'
  BY DEF AeBooks

\* Injections on the same bus and unloading keep the books: whoever finds the
\* original operations when it replaces them, and nobody else, remembers
\* them.
LEMMA AeBooksStep == AeOpsInv /\ [AeNext]_aeVars => AeExit' /\ \A b \in AeBuses : AeBooks(b)'
<1> SUFFICES ASSUME AeOpsInv, [AeNext]_aeVars PROVE AeExit' /\ AeAllBooks'
  BY DEF AeAllBooks
<1> USE AeBusType, AeAssumption DEF AeOpsInv, AeTypeOK, AeCallOk, AeExit, aeListVars, aeBusVars,
        aeCallVars, aeUserVars
<1>1. ASSUME NEW p \in AeProcs, NEW e \in AeAsks, aer_inject(p, e) PROVE AeExit' /\ AeAllBooks'
  <2>1. AeExit'
    BY <1>1 DEF aer_inject, AeGoes
  <2>2. AeAllBooks'
    <3>1. \A q \in AeProcs : \A b \in AeBuses : AeAdds(q, b)' <=> AeAdds(q, b)
      BY <1>1 DEF aer_inject, AeGoes, AeAdds, AeBus, AeStages
    <3>2. aeOps' = aeOps /\ aeList' = aeList /\ aePop' = aePop
      BY <1>1 DEF aer_inject, AeGoes
    <3>3. QED
      BY <3>1, <3>2, AeBooksFrame DEF AeAllBooks
  <2>3. QED
    BY <2>1, <2>2
<1>2. ASSUME NEW p \in AeProcs, OverrideMasks(p) PROVE AeExit' /\ AeAllBooks'
  <2>1. AeExit'
    BY <1>2 DEF OverrideMasks, AeGoes
  <2>2. AeAllBooks'
    <3>1. \A q \in AeProcs : \A b \in AeBuses : AeAdds(q, b)' <=> AeAdds(q, b)
      BY <1>2 DEF OverrideMasks, AeGoes, AeAdds, AeBus, AeStages
    <3>2. aeOps' = aeOps /\ aeList' = aeList /\ aePop' = aePop
      BY <1>2 DEF OverrideMasks, AeGoes
    <3>3. QED
      BY <3>1, <3>2, AeBooksFrame DEF AeAllBooks
  <2>3. QED
    BY <2>1, <2>2
<1>3. ASSUME NEW p \in AeProcs, Record(p) PROVE AeExit' /\ AeAllBooks'
  <2>1. AeExit'
    BY <1>3 DEF Record, AeGoes, AeReturn
  <2>2. AeAllBooks'
    <3>1. \A q \in AeProcs : \A b \in AeBuses : AeAdds(q, b)' <=> AeAdds(q, b)
      BY <1>3 DEF Record, AeGoes, AeReturn, AeAdds, AeBus, AeStages
    <3>2. aeOps' = aeOps /\ aeList' = aeList /\ aePop' = aePop
      BY <1>3 DEF Record, AeGoes, AeReturn
    <3>3. QED
      BY <3>1, <3>2, AeBooksFrame DEF AeAllBooks
  <2>3. QED
    BY <2>1, <2>2
<1>3a. ASSUME NEW p \in AeProcs, FillRegs(p) PROVE AeExit' /\ AeAllBooks'
  <2>1. AeExit'
    BY <1>3a DEF FillRegs, AeGoes
  <2>2. AeAllBooks'
    <3>1. \A q \in AeProcs : \A b \in AeBuses : AeAdds(q, b)' <=> AeAdds(q, b)
      BY <1>3a DEF FillRegs, AeGoes, AeAdds, AeBus, AeStages
    <3>2. aeOps' = aeOps /\ aeList' = aeList /\ aePop' = aePop
      BY <1>3a DEF FillRegs, AeGoes
    <3>3. QED
      BY <3>1, <3>2, AeBooksFrame DEF AeAllBooks
  <2>3. QED
    BY <2>1, <2>2
<1>4. ASSUME NEW p \in AeProcs, RestoreMasks(p) PROVE AeExit' /\ AeAllBooks'
  <2>1. AeExit'
    BY <1>4 DEF RestoreMasks, AeGoes
  <2>2. AeAllBooks'
    <3>1. \A q \in AeProcs : \A b \in AeBuses : AeAdds(q, b)' <=> AeAdds(q, b)
      BY <1>4 DEF RestoreMasks, AeGoes, AeAdds, AeBus, AeStages
    <3>2. aeOps' = aeOps /\ aeList' = aeList /\ aePop' = aePop
      BY <1>4 DEF RestoreMasks, AeGoes
    <3>3. QED
      BY <3>1, <3>2, AeBooksFrame DEF AeAllBooks
  <2>3. QED
    BY <2>1, <2>2
<1>5. ASSUME NEW p \in AeProcs, pci_bus_set_aer_ops(p) PROVE AeExit' /\ AeAllBooks'
  <2>1. AeExit'
    BY <1>5 DEF pci_bus_set_aer_ops, AeGoes, AeReturn
  <2>2. AeAllBooks'
    <3>0. PICK x \in AeBuses : x = AeBus(p)
      BY <1>5 DEF pci_bus_set_aer_ops, AeBus
    <3>1. aePop = AeNone
      BY <1>5 DEF pci_bus_set_aer_ops, AeExit
    <3>2. aeList' = aeList /\ aePop' = aePop
      BY <1>5 DEF pci_bus_set_aer_ops
    <3>3. \A q \in AeProcs : q # p => \A b \in AeBuses : AeAdds(q, b)' <=> AeAdds(q, b)
      BY <1>5 DEF pci_bus_set_aer_ops, AeGoes, AeReturn, AeAdds, AeBus
    <3>4. \A b \in AeBuses : ~AeAdds(p, b)
      BY <1>5 DEF pci_bus_set_aer_ops, AeGoes, AeReturn, AeAdds
    <3>5. CASE aeOps' = aeOps /\ aePc' = [aePc EXCEPT ![p] = "idle"]
      <4>1. \A b \in AeBuses : ~AeAdds(p, b)'
        BY <3>5 DEF AeAdds
      <4>2. QED
        BY <3>2, <3>3, <3>4, <3>5, <4>1, AeBooksFrame DEF AeAllBooks
    <3>6. CASE /\ aeOps' = [aeOps EXCEPT ![x] = "aer"] /\ aeInj' = aeInj
               /\ aePc' = [aePc EXCEPT ![p] = IF ~AddsEntry(aeOps[x]) THEN AeThen(p)
                             ELSE IF aePc[p] = "swap1" THEN "add1" ELSE "add2"]
      <4>1. CASE aeOps[x] = "aer"
        <5>1. \A b \in AeBuses : ~AeAdds(p, b)'
          BY <3>6, <4>1 DEF AeAdds, AddsEntry, AeThen
        <5>2. aeOps' = aeOps
          BY <3>1, <3>6, <4>1
        <5>3. QED
          BY <3>2, <3>3, <3>4, <5>1, <5>2, AeBooksFrame DEF AeAllBooks
      <4>2. CASE aeOps[x] = "orig"
        <5>1. \A b \in AeBuses : AeAdds(p, b)' <=> b = x
          BY <1>5, <3>0, <3>6, <4>2 DEF pci_bus_set_aer_ops, AeAdds, AddsEntry, AeBus
        <5>2. ASSUME NEW b \in AeBuses, b # x PROVE AeBooks(b)'
          <6>1. aeOps'[b] = aeOps[b]
            BY <3>6, <5>2
          <6>2. AeBooks(b)
            OBVIOUS
          <6>3. \A q \in AeProcs : AeAdds(q, b)' <=> AeAdds(q, b)
            BY <3>3, <3>4, <5>1, <5>2
          <6>4. QED
            BY ONLY <6>1, <6>2, <6>3, <3>2 DEF AeBooks
        <5>3. AeBooks(x)'
          <6>1. aeOps'[x] = "aer"
            BY <3>1, <3>6
          <6>2. AeBooks(x)
            BY <3>1
          <6>3. ~AeHas(aeList, x) /\ \A q \in AeProcs : AeAdds(q, x)' <=> q = p
            BY ONLY <3>3, <4>2, <5>1, <6>2, x \in AeBuses DEF AeBooks
          <6>4. aePop # x
            BY <3>1
          <6>5. QED
            BY ONLY <6>1, <6>2, <6>3, <6>4, <3>2, p \in AeProcs, x \in AeBuses DEF AeBooks
        <5>4. QED
          BY <5>2, <5>3 DEF AeAllBooks
      <4>3. QED
        BY <3>1, <4>1, <4>2
    <3>7. QED
      BY <1>5, <3>0, <3>5, <3>6 DEF pci_bus_set_aer_ops, AeGoes, AeReturn
  <2>3. QED
    BY <2>1, <2>2
<1>6. ASSUME NEW p \in AeProcs, AddBusOps(p) PROVE AeExit' /\ AeAllBooks'
  <2>1. AeExit'
    BY <1>6 DEF AddBusOps, AeGoes
  <2>2. AeAllBooks'
    <3> DEFINE x == AeBus(p)
    <3>1. x \in AeBuses /\ aePop = AeNone /\ aeList \in Seq(AeBuses)
      BY <1>6 DEF AddBusOps, AeBus, AeExit
    <3>2. aeOps' = aeOps /\ aePop' = aePop /\ aeList' = <<x>> \o aeList
      BY <1>6 DEF AddBusOps
    <3>3. AeAdds(p, x) /\ \A b \in AeBuses : AeAdds(p, b) => b = x
      BY <1>6 DEF AddBusOps, AeAdds
    <3>4. \A q \in AeProcs : q # p => \A b \in AeBuses : AeAdds(q, b)' <=> AeAdds(q, b)
      BY <1>6 DEF AddBusOps, AeGoes, AeAdds, AeBus
    <3>5. \A b \in AeBuses : ~AeAdds(p, b)'
      BY <1>6 DEF AddBusOps, AeGoes, AeAdds, AeThen
    <3>6. \A b \in AeBuses :
            /\ AeHas(aeList', b) <=> x = b \/ AeHas(aeList, b)
            /\ AeOnce(aeList, b) /\ (x = b => ~AeHas(aeList, b)) => AeOnce(aeList', b)
      BY <3>1, <3>2, AeConsHas
    <3>7. ~AeHas(aeList, x) /\ aeOps[x] = "aer" /\ \A q \in AeProcs : AeAdds(q, x) => q = p
      BY <3>1, <3>3, p \in AeProcs DEF AeBooks
    <3>8. aePop # x
      BY <3>1
    <3> HIDE DEF x
    <3>9. ASSUME NEW b \in AeBuses PROVE AeBooks(b)'
      <4>1. AeBooks(b)
        OBVIOUS
      <4>2. CASE b = x
        BY ONLY <3>1, <3>2, <3>4, <3>5, <3>6, <3>7, <3>8, <4>1, <4>2, p \in AeProcs DEF AeBooks
      <4>3. CASE b # x
        BY ONLY <3>1, <3>2, <3>3, <3>4, <3>5, <3>6, <4>1, <4>3, b \in AeBuses, p \in AeProcs DEF
           AeBooks
      <4>4. QED
        BY <4>2, <4>3
    <3>10. QED
      BY <3>9 DEF AeAllBooks
  <2>3. QED
    BY <2>1, <2>2
<1>7. ASSUME NEW p \in AeProcs, AeTell(p) PROVE AeExit' /\ AeAllBooks'
  <2>1. AeExit'
    BY <1>7 DEF AeTell, AeGoes, AeReturn
  <2>2. AeAllBooks'
    <3>1. \A q \in AeProcs : \A b \in AeBuses : AeAdds(q, b)' <=> AeAdds(q, b)
      BY <1>7 DEF AeTell, AeGoes, AeReturn, AeAdds, AeBus, AeStages
    <3>2. aeOps' = aeOps /\ aeList' = aeList /\ aePop' = aePop
      BY <1>7 DEF AeTell, AeGoes, AeReturn
    <3>3. QED
      BY <3>1, <3>2, AeBooksFrame DEF AeAllBooks
  <2>3. QED
    BY <2>1, <2>2
<1>8. ASSUME NEW b \in AeBuses, AeAccess(b) PROVE AeExit' /\ AeAllBooks'
  <2>1. AeExit'
    BY <1>8 DEF AeAccess
  <2>2. AeAllBooks'
    <3>1. \A q \in AeProcs : \A c \in AeBuses : AeAdds(q, c)' <=> AeAdds(q, c)
      BY <1>8 DEF AeAccess, AeAdds, AeBus, AeStages
    <3>2. aeOps' = aeOps /\ aeList' = aeList /\ aePop' = aePop
      BY <1>8 DEF AeAccess
    <3>3. QED
      BY <3>1, <3>2, AeBooksFrame DEF AeAllBooks
  <2>3. QED
    BY <2>1, <2>2
<1>9. CASE DriverReads
  <2>1. AeExit'
    BY <1>9 DEF DriverReads
  <2>2. AeAllBooks'
    <3>1. \A q \in AeProcs : \A b \in AeBuses : AeAdds(q, b)' <=> AeAdds(q, b)
      BY <1>9 DEF DriverReads, AeAdds, AeBus, AeStages
    <3>2. aeOps' = aeOps /\ aeList' = aeList /\ aePop' = aePop
      BY <1>9 DEF DriverReads
    <3>3. QED
      BY <3>1, <3>2, AeBooksFrame DEF AeAllBooks
  <2>3. QED
    BY <2>1, <2>2
<1>10. CASE DriverClears
  <2>1. AeExit'
    BY <1>10 DEF DriverClears
  <2>2. AeAllBooks'
    <3>1. \A q \in AeProcs : \A b \in AeBuses : AeAdds(q, b)' <=> AeAdds(q, b)
      BY <1>10 DEF DriverClears, AeAdds, AeBus, AeStages
    <3>2. aeOps' = aeOps /\ aeList' = aeList /\ aePop' = aePop
      BY <1>10 DEF DriverClears
    <3>3. QED
      BY <3>1, <3>2, AeBooksFrame DEF AeAllBooks
  <2>3. QED
    BY <2>1, <2>2
<1>11. CASE AeRecover
  <2>1. AeExit'
    BY <1>11 DEF AeRecover
  <2>2. AeAllBooks'
    <3>1. \A q \in AeProcs : \A b \in AeBuses : AeAdds(q, b)' <=> AeAdds(q, b)
      BY <1>11 DEF AeRecover, AeAdds, AeBus, AeStages
    <3>2. aeOps' = aeOps /\ aeList' = aeList /\ aePop' = aePop
      BY <1>11 DEF AeRecover
    <3>3. QED
      BY <3>1, <3>2, AeBooksFrame DEF AeAllBooks
  <2>3. QED
    BY <2>1, <2>2
<1>12. CASE AeLeave
  <2>1. AeExit'
    BY <1>12 DEF AeLeave
  <2>2. AeAllBooks'
    <3>1. \A q \in AeProcs : \A b \in AeBuses : AeAdds(q, b)' <=> AeAdds(q, b)
      BY <1>12 DEF AeLeave, AeAdds, AeBus, AeStages
    <3>2. aeOps' = aeOps /\ aeList' = aeList /\ aePop' = aePop
      BY <1>12 DEF AeLeave
    <3>3. QED
      BY <3>1, <3>2, AeBooksFrame DEF AeAllBooks
  <2>3. QED
    BY <2>1, <2>2
<1>13. CASE pci_bus_ops_pop
  <2>1. AeExit'
    BY <1>13 DEF pci_bus_ops_pop
  <2>2. AeAllBooks'
    <3>1. /\ aeList \in Seq(AeBuses) /\ aeList # <<>> /\ aeList' = Tail(aeList)
          /\ aeOps' = aeOps /\ aePop' = Head(aeList) /\ aePop = AeNone
      BY <1>13 DEF pci_bus_ops_pop, AeExit
    <3>2. \A q \in AeProcs : aePc[q] = "idle" /\ aePc'[q] = "idle"
      BY <1>13 DEF pci_bus_ops_pop, AeExit
    <3>3. \A q \in AeProcs : \A b \in AeBuses : ~AeAdds(q, b) /\ ~AeAdds(q, b)'
      BY <3>2 DEF AeAdds
    <3>4. ASSUME NEW b \in AeBuses PROVE AeBooks(b)'
      <4>1. AeBooks(b) /\ AeOnce(aeList, b)
        BY DEF AeBooks
      <4>2. /\ AeHas(aeList, b) <=> Head(aeList) = b \/ AeHas(aeList', b)
            /\ AeOnce(aeList', b)
            /\ Head(aeList) = b => ~AeHas(aeList', b)
        BY <3>1, <4>1, AeTailHas
      <4>3. aePop # b
        BY <3>1
      <4>4. QED
        BY ONLY <3>1, <3>3, <4>1, <4>2, <4>3, b \in AeBuses DEF AeBooks
    <3>5. QED
      BY <3>4 DEF AeAllBooks
  <2>3. QED
    BY <2>1, <2>2
<1>14. CASE AePutBack
  <2>1. AeExit'
    BY <1>14 DEF AePutBack
  <2>2. AeAllBooks'
    <3>1. /\ aePop \in AeBuses /\ aePop' = AeNone /\ aeList' = aeList
          /\ aeOps' = [aeOps EXCEPT ![aePop] = "orig"]
      BY <1>14 DEF AePutBack, AeExit
    <3>2. \A q \in AeProcs : aePc[q] = "idle" /\ aePc'[q] = "idle"
      BY <1>14 DEF AePutBack, AeExit
    <3>3. \A q \in AeProcs : \A b \in AeBuses : ~AeAdds(q, b) /\ ~AeAdds(q, b)'
      BY <3>2 DEF AeAdds
    <3>4. ASSUME NEW b \in AeBuses PROVE AeBooks(b)'
      <4>1. AeBooks(b) /\ AeNone # b /\ aeOps \in [AeBuses -> {"orig", "aer"}]
        OBVIOUS
      <4>2. QED
        BY ONLY <3>1, <3>3, <4>1, b \in AeBuses DEF AeBooks
    <3>5. QED
      BY <3>4 DEF AeAllBooks
  <2>3. QED
    BY <2>1, <2>2
<1>15. CASE AeGone
  <2>1. AeExit'
    <3>1. \A b \in AeBuses : aeOps[b] = "orig"
      <4> SUFFICES ASSUME NEW b \in AeBuses PROVE aeOps[b] = "orig"
        OBVIOUS
      <4>1. ~AeHas(aeList, b) /\ aePop # b
        BY <1>15 DEF AeGone, AeHas
      <4>2. \A q \in AeProcs : ~AeAdds(q, b)
        BY <1>15 DEF AeGone, AeAdds
      <4>3. QED
        BY <4>1, <4>2 DEF AeBooks
    <3>2. QED
      BY <1>15, <3>1 DEF AeGone
  <2>2. AeAllBooks'
    <3>1. \A q \in AeProcs : \A b \in AeBuses : AeAdds(q, b)' <=> AeAdds(q, b)
      BY <1>15 DEF AeGone, AeAdds, AeBus, AeStages
    <3>2. aeOps' = aeOps /\ aeList' = aeList /\ aePop' = aePop
      BY <1>15 DEF AeGone
    <3>3. QED
      BY <3>1, <3>2, AeBooksFrame DEF AeAllBooks
  <2>3. QED
    BY <2>1, <2>2
<1>16. CASE UNCHANGED aeVars
  <2>1. AeExit'
    BY <1>16 DEF aeVars
  <2>2. AeAllBooks'
    <3>1. \A q \in AeProcs : \A b \in AeBuses : AeAdds(q, b)' <=> AeAdds(q, b)
      BY <1>16 DEF aeVars, AeAdds, AeBus, AeStages
    <3>2. aeOps' = aeOps /\ aeList' = aeList /\ aePop' = aePop
      BY <1>16 DEF aeVars
    <3>3. QED
      BY <3>1, <3>2, AeBooksFrame DEF AeAllBooks
  <2>3. QED
    BY <2>1, <2>2
<1>17. QED
  BY <1>1, <1>2, <1>3, <1>3a, <1>4, <1>5, <1>6, <1>7, <1>8, <1>9, <1>10, <1>11,
     <1>12, <1>13, <1>14, <1>15, <1>16 DEF AeNext

\* Overriding, recording, restoring and every early return keep the masks as
\* AeMasksKept says.
LEMMA AeMasksStep == AeInv /\ [AeNext]_aeVars => AeMasksKept'
<1> SUFFICES ASSUME AeInv, [AeNext]_aeVars PROVE AeMasksKept'
  OBVIOUS
<1>a. aeOverride' = aeOverride
  BY DEF AeNext, aeVars
<1> USE <1>a, AeBusType, AeAssumption DEF AeInv, AeOpsInv, AeTypeOK, AeCallOk, AeStages,
        aeListVars, aeBusVars, aeCallVars, aeUserVars
<1>1. ASSUME NEW p \in AeProcs, NEW e \in AeAsks, aer_inject(p, e) PROVE AeMasksKept'
  <2> SUFFICES ASSUME "overlap" \notin aeSeen' PROVE AeMasksKept'
    BY DEF AeMasksKept
  <2>1. "overlap" \notin aeSeen /\ \A q \in AeProcs : aePc[q] # "idle" => aeInj[q].dev # e.dev
    BY <1>1 DEF aer_inject
  <2>2. /\ aePc[p] = "idle" /\ aeMask' = aeMask
        /\ aePc' = [aePc EXCEPT ![p] = IF aeOverride THEN "override" ELSE "record"]
        /\ aeInj' = [aeInj EXCEPT ![p] = e] /\ aeOld' = [aeOld EXCEPT ![p] = aeMask[e.dev]]
    BY <1>1, Zenon DEF aer_inject, AeGoes
  <2>3. e.dev \in AeDevs
    BY AeBusType
  <2>4. aeMask[e.dev] = AeFirstMask
    BY ONLY <2>1, <2>3, AeMasksKept DEF AeMasksKept
  <2>5. \A q \in AeProcs : q # p =>
          aePc'[q] = aePc[q] /\ aeInj'[q] = aeInj[q] /\ aeOld'[q] = aeOld[q]
    BY <2>2
  <2>6. /\ aePc'[p] # "idle" /\ (aePc'[p] = "override" => aeOverride)
        /\ aeInj'[p] = e /\ aeOld'[p] = AeFirstMask
    BY <2>2, <2>4
  <2>7. QED
    BY ONLY <2>1, <2>2, <2>5, <2>6, AeMasksKept, <1>a, p \in AeProcs DEF AeMasksKept
<1>2. ASSUME NEW p \in AeProcs, OverrideMasks(p) PROVE AeMasksKept'
  <2> SUFFICES ASSUME "overlap" \notin aeSeen' PROVE AeMasksKept'
    BY DEF AeMasksKept
  <2>1. "overlap" \notin aeSeen
    BY <1>2 DEF OverrideMasks, AeGoes
  <2>2. aePc[p] = "override" /\ aePc'[p] = "record" /\ aeInj' = aeInj /\ aeOld' = aeOld
    BY <1>2 DEF OverrideMasks, AeGoes
  <2>3. \A q \in AeProcs : q # p => aePc'[q] = aePc[q]
    BY <1>2 DEF OverrideMasks, AeGoes
  <2>4. aeOverride
    BY ONLY <2>1, <2>2, AeMasksKept, p \in AeProcs DEF AeMasksKept
  <2>5. \A d \in AeDevs : d # aeInj[p].dev => aeMask'[d] = aeMask[d]
    BY <1>2 DEF OverrideMasks
  <2>6. QED
    BY ONLY <2>1, <2>2, <2>3, <2>4, <2>5, AeMasksKept, <1>a, p \in AeProcs DEF AeMasksKept
<1>3. ASSUME NEW p \in AeProcs, Record(p) PROVE AeMasksKept'
  <2> SUFFICES ASSUME "overlap" \notin aeSeen' PROVE AeMasksKept'
    BY DEF AeMasksKept
  <2>1. "overlap" \notin aeSeen
    BY <1>3 DEF Record, AeGoes, AeReturn
  <2>2. aePc[p] = "record" /\ aeMask' = aeMask
    BY <1>3 DEF Record
  <2>3. \A q \in AeProcs : q # p =>
          aePc'[q] = aePc[q] /\ aeInj'[q] = aeInj[q] /\ aeOld'[q] = aeOld[q]
    BY <1>3 DEF Record, AeReturn, AeGoes
  <2>4. \/ ~aeOverride /\ aePc'[p] = "idle"
        \/ aePc'[p] = "fill" /\ aeInj'[p] = aeInj[p] /\ aeOld'[p] = aeOld[p]
    BY <1>3 DEF Record, AeReturn, AeGoes, MaskedOut
  <2>6. QED
    BY ONLY <2>1, <2>2, <2>3, <2>4, AeMasksKept, <1>a, p \in AeProcs DEF AeMasksKept
<1>3a. ASSUME NEW p \in AeProcs, FillRegs(p) PROVE AeMasksKept'
  <2>1. "overlap" \notin aeSeen' => "overlap" \notin aeSeen
    BY <1>3a DEF FillRegs
  <2>2. aePc[p] = "fill" /\ aePc'[p] = "restore" /\ UNCHANGED <<aeInj, aeOld, aeMask, aeOverride>>
    BY <1>3a, <1>a DEF FillRegs, AeGoes
  <2>3. \A q \in AeProcs : q # p => aePc'[q] = aePc[q]
    BY <1>3a DEF FillRegs, AeGoes
  <2>4. QED
    BY ONLY <2>1, <2>2, <2>3, AeMasksKept, p \in AeProcs DEF AeMasksKept
<1>4. ASSUME NEW p \in AeProcs, RestoreMasks(p) PROVE AeMasksKept'
  <2> SUFFICES ASSUME "overlap" \notin aeSeen' PROVE AeMasksKept'
    BY DEF AeMasksKept
  <2>1. "overlap" \notin aeSeen
    BY <1>4 DEF RestoreMasks, AeGoes
  <2>2. aePc[p] = "restore" /\ aePc'[p] = "swap1" /\ aeInj' = aeInj /\ aeOld' = aeOld
    BY <1>4 DEF RestoreMasks, AeGoes
  <2>3. \A q \in AeProcs : q # p => aePc'[q] = aePc[q]
    BY <1>4 DEF RestoreMasks, AeGoes
  <2>4. \A d \in AeDevs : d # aeInj[p].dev => aeMask'[d] = aeMask[d]
    BY <1>4 DEF RestoreMasks, Restored
  <2>5. aeInj[p].dev \in AeDevs
    BY <2>2, AeBusType
  <2>6. IF aeOverride THEN aeMask'[aeInj[p].dev] = aeOld[p] ELSE aeMask' = aeMask
    BY <1>4, <2>5 DEF RestoreMasks, Restored
  <2>7. QED
    BY ONLY <2>1, <2>2, <2>3, <2>4, <2>5, <2>6, AeMasksKept, <1>a, p \in AeProcs DEF AeMasksKept
<1>5. ASSUME NEW p \in AeProcs, pci_bus_set_aer_ops(p) PROVE AeMasksKept'
  <2> SUFFICES ASSUME "overlap" \notin aeSeen' PROVE AeMasksKept'
    BY DEF AeMasksKept
  <2>1. "overlap" \notin aeSeen
    BY <1>5 DEF pci_bus_set_aer_ops, AeGoes, AeReturn
  <2>2. aePc[p] \in {"swap1", "swap2"} /\ aeMask' = aeMask
    BY <1>5 DEF pci_bus_set_aer_ops
  <2>3. \A q \in AeProcs : q # p =>
          aePc'[q] = aePc[q] /\ aeInj'[q] = aeInj[q] /\ aeOld'[q] = aeOld[q]
    BY <1>5 DEF pci_bus_set_aer_ops, AeReturn, AeGoes
  <2>4. \/ aePc'[p] = "idle"
        \/ aePc'[p] # "override" /\ aeInj'[p] = aeInj[p] /\ aeOld'[p] = aeOld[p]
    BY <1>5 DEF pci_bus_set_aer_ops, AeReturn, AeGoes, AeThen
  <2>6. QED
    BY ONLY <2>1, <2>2, <2>3, <2>4, AeMasksKept, <1>a, p \in AeProcs DEF AeMasksKept
<1>6. ASSUME NEW p \in AeProcs, AddBusOps(p) PROVE AeMasksKept'
  <2> SUFFICES ASSUME "overlap" \notin aeSeen' PROVE AeMasksKept'
    BY DEF AeMasksKept
  <2>1. "overlap" \notin aeSeen
    BY <1>6 DEF AddBusOps, AeGoes
  <2>2. /\ aePc[p] \in {"add1", "add2"} /\ aeMask' = aeMask
        /\ aePc'[p] # "override" /\ aeInj' = aeInj /\ aeOld' = aeOld
    BY <1>6 DEF AddBusOps, AeGoes, AeThen
  <2>3. \A q \in AeProcs : q # p => aePc'[q] = aePc[q]
    BY <1>6 DEF AddBusOps, AeGoes
  <2>4. QED
    BY ONLY <2>1, <2>2, <2>3, AeMasksKept, <1>a, p \in AeProcs DEF AeMasksKept
<1>7. ASSUME NEW p \in AeProcs, AeTell(p) PROVE AeMasksKept'
  BY <1>7 DEF AeTell, AeGoes, AeReturn, AeMasksKept
<1>8. ASSUME NEW b \in AeBuses, AeAccess(b) PROVE AeMasksKept'
  BY <1>8 DEF AeAccess, AeMasksKept
<1>9. CASE DriverReads
  BY <1>9 DEF DriverReads, AeMasksKept
<1>10. CASE DriverClears
  BY <1>10 DEF DriverClears, AeMasksKept
<1>11. CASE AeRecover
  BY <1>11 DEF AeRecover, AeMasksKept
<1>12. CASE AeLeave
  BY <1>12 DEF AeLeave, AeMasksKept
<1>13. CASE pci_bus_ops_pop
  BY <1>13 DEF pci_bus_ops_pop, AeMasksKept
<1>14. CASE AePutBack
  BY <1>14 DEF AePutBack, AeMasksKept
<1>15. CASE AeGone
  BY <1>15 DEF AeGone, AeMasksKept
<1>16. CASE UNCHANGED aeVars
  BY <1>16 DEF aeVars, AeMasksKept
<1>17. QED
  BY <1>1, <1>2, <1>3, <1>3a, <1>4, <1>5, <1>6, <1>7, <1>8, <1>9, <1>10, <1>11,
     <1>12, <1>13, <1>14, <1>15, <1>16 DEF AeNext

\* Filling regs, queueing the recovery and running it keep them together.
LEMMA AeRegsStep == AeInv /\ [AeNext]_aeVars => AeRegsKept'
<1> SUFFICES ASSUME AeInv, [AeNext]_aeVars PROVE AeRegsKept'
  OBVIOUS
<1> USE AeBusType, AeAssumption DEF AeInv, AeOpsInv, AeTypeOK, AeCallOk, AeStages, aeListVars,
        aeBusVars, aeCallVars, aeUserVars
<1>1. ASSUME NEW p \in AeProcs, NEW e \in AeAsks, aer_inject(p, e) PROVE AeRegsKept'
  BY <1>1 DEF aer_inject, AeGoes, AeRegsKept, AeFilled
<1>2. ASSUME NEW p \in AeProcs, OverrideMasks(p) PROVE AeRegsKept'
  BY <1>2 DEF OverrideMasks, AeGoes, AeRegsKept, AeFilled
<1>3. ASSUME NEW p \in AeProcs, Record(p) PROVE AeRegsKept'
  <2>1. UNCHANGED <<aeSeen, aeWork, aeRegs>> /\ aePc[p] = "record"
    BY <1>3 DEF Record
  <2>2. \A q \in AeProcs : q # p => aePc'[q] = aePc[q] /\ aeInj'[q] = aeInj[q]
    BY <1>3 DEF Record, AeReturn, AeGoes
  <2>3. aePc'[p] \in {"idle", "fill"}
    BY <1>3 DEF Record, AeReturn, AeGoes
  <2>4. QED
    BY ONLY <2>1, <2>2, <2>3, AeRegsKept, p \in AeProcs DEF AeRegsKept, AeFilled
<1>3a. ASSUME NEW p \in AeProcs, FillRegs(p) PROVE AeRegsKept'
  <2> SUFFICES ASSUME "hurried" \notin aeSeen' PROVE AeRegsKept'
    BY DEF AeRegsKept
  <2>1. /\ "hurried" \notin aeSeen /\ aeSeen' = aeSeen
        /\ aePc[p] = "fill" /\ aeWork' = aeWork
    BY <1>3a DEF FillRegs
  <2>2. \A q \in AeProcs : q # p => aePc'[q] = aePc[q] /\ aeInj'[q] = aeInj[q]
    BY <1>3a DEF FillRegs, AeGoes
  <2>3. /\ aePc'[p] = "restore" /\ aeInj'[p] = aeInj[p] /\ aeRegs' = aeInj[p].dev
        /\ aeWork = <<>> /\ \A q \in AeProcs : q # p => ~AeFilled(q)
    BY <1>3a DEF FillRegs, AeGoes
  <2>4. QED
    BY ONLY <2>1, <2>2, <2>3, AeRegsKept, p \in AeProcs DEF AeRegsKept, AeFilled
<1>4. ASSUME NEW p \in AeProcs, RestoreMasks(p) PROVE AeRegsKept'
  BY <1>4 DEF RestoreMasks, AeGoes, AeRegsKept, AeFilled
<1>5. ASSUME NEW p \in AeProcs, pci_bus_set_aer_ops(p) PROVE AeRegsKept'
  <2> SUFFICES ASSUME "hurried" \notin aeSeen' PROVE AeRegsKept'
    BY DEF AeRegsKept
  <2>1. "hurried" \notin aeSeen
    BY <1>5 DEF pci_bus_set_aer_ops, AeGoes, AeReturn
  <2>2. aePc[p] \in {"swap1", "swap2"} /\ aeSeen' = aeSeen /\ aeWork' = aeWork /\ aeRegs' = aeRegs
    BY <1>5 DEF pci_bus_set_aer_ops
  <2>3. \A q \in AeProcs : q # p => aePc'[q] = aePc[q] /\ aeInj'[q] = aeInj[q]
    BY <1>5 DEF pci_bus_set_aer_ops, AeReturn, AeGoes
  <2>4. aePc'[p] = "idle" \/ aeInj'[p] = aeInj[p]
    BY <1>5 DEF pci_bus_set_aer_ops, AeReturn, AeGoes
  <2>5. QED
    BY ONLY <2>1, <2>2, <2>3, <2>4, AeRegsKept, p \in AeProcs DEF AeRegsKept, AeFilled
<1>6. ASSUME NEW p \in AeProcs, AddBusOps(p) PROVE AeRegsKept'
  BY <1>6 DEF AddBusOps, AeGoes, AeRegsKept, AeFilled
<1>7. ASSUME NEW p \in AeProcs, AeTell(p) PROVE AeRegsKept'
  <2> SUFFICES ASSUME "hurried" \notin aeSeen' PROVE AeRegsKept'
    BY DEF AeRegsKept
  <2>1. "hurried" \notin aeSeen
    BY <1>7 DEF AeTell, AeGoes, AeReturn
  <2>2. aePc[p] = "tell" /\ aeSeen' = aeSeen /\ aePc'[p] = "idle" /\ aeRegs' = aeRegs
    BY <1>7 DEF AeTell, AeReturn, AeGoes
  <2>3. \A q \in AeProcs : q # p => aePc'[q] = aePc[q] /\ aeInj'[q] = aeInj[q]
    BY <1>7 DEF AeTell, AeReturn, AeGoes
  <2>4. aeWork' = aeWork \/ aeWork' = Append(aeWork, aeInj[p].dev)
    BY <1>7 DEF AeTell
  <2>5. aeWork = <<>> /\ aeRegs = aeInj[p].dev
    BY <2>1, <2>2 DEF AeRegsKept, AeFilled
  <2>6. aeWork' = <<>> \/ aeWork' = <<aeRegs>>
    BY ONLY <2>4, <2>5
  <2>7. QED
    BY ONLY <2>1, <2>2, <2>3, <2>6, AeRegsKept, p \in AeProcs DEF AeRegsKept, AeFilled
<1>8. ASSUME NEW b \in AeBuses, AeAccess(b) PROVE AeRegsKept'
  BY <1>8 DEF AeAccess, AeRegsKept, AeFilled
<1>9. CASE DriverReads
  BY <1>9 DEF DriverReads, AeRegsKept, AeFilled
<1>10. CASE DriverClears
  BY <1>10 DEF DriverClears, AeRegsKept, AeFilled
<1>11. CASE AeRecover
  BY <1>11 DEF AeRecover, AeRegsKept, AeFilled
<1>12. CASE AeLeave
  BY <1>12 DEF AeLeave, AeRegsKept, AeFilled
<1>13. CASE pci_bus_ops_pop
  BY <1>13 DEF pci_bus_ops_pop, AeRegsKept, AeFilled
<1>14. CASE AePutBack
  BY <1>14 DEF AePutBack, AeRegsKept, AeFilled
<1>15. CASE AeGone
  BY <1>15 DEF AeGone, AeRegsKept, AeFilled
<1>16. CASE UNCHANGED aeVars
  BY <1>16 DEF aeVars, AeRegsKept, AeFilled
<1>17. QED
  BY <1>1, <1>2, <1>3, <1>3a, <1>4, <1>5, <1>6, <1>7, <1>8, <1>9, <1>10, <1>11,
     <1>12, <1>13, <1>14, <1>15, <1>16 DEF AeNext

\* Every step preserves the inductive invariant.
LEMMA AeStepInv == AeInv /\ [AeNext]_aeVars => AeInv'
<1> SUFFICES ASSUME AeInv, [AeNext]_aeVars PROVE AeInv'
  OBVIOUS
<1>1. AeTypeOK' /\ AeCallOk'
  BY AeTypeStep DEF AeInv, AeOpsInv
<1>2. AeExit' /\ \A b \in AeBuses : AeBooks(b)'
  BY AeBooksStep DEF AeInv
<1>3. AeMasksKept' /\ AeRegsKept'
  BY AeMasksStep, AeRegsStep
<1>4. QED
  BY <1>1, <1>2, <1>3 DEF AeInv, AeOpsInv

\* For any devices, buses and processes: a bus with the injector's operations
\* has its original ones on the list, once (but for the two windows), and
\* after unloading every bus has its own operations back
\* (pci_bus_set_aer_ops(), aer_inject_exit()).
THEOREM AerOpsAlwaysKept == AeSpec => []AerOpsKept
<1>1. AeInv => AerOpsKept
  <2> SUFFICES ASSUME AeInv PROVE AerOpsKept
    OBVIOUS
  <2>1. AeTypeOK /\ (aeMod = "gone" => \A b \in AeBuses : aeOps[b] = "orig")
    BY DEF AeInv, AeOpsInv, AeExit
  <2>2. ASSUME NEW b \in AeBuses
        PROVE LET entries == {i \in DOMAIN aeList : aeList[i] = b}
                  adding == {p \in AeProcs : aePc[p] \in {"add1", "add2"} /\ AeBus(p) = b}
                  popped == aePop = b
              IN /\ \A i, j \in entries : i = j
                 /\ aeOps[b] = "orig" => entries = {} /\ adding = {} /\ ~popped
                 /\ aeOps[b] = "aer" => entries # {} \/ adding # {} \/ popped
                 /\ adding # {} => entries = {} /\ \A p, q \in adding : p = q
    <3> DEFINE entries == {i \in DOMAIN aeList : aeList[i] = b}
               adding == {p \in AeProcs : aePc[p] \in {"add1", "add2"} /\ AeBus(p) = b}
    <3>1. AeBooks(b)
      BY DEF AeInv, AeOpsInv
    <3>2. AeHas(aeList, b) <=> entries # {}
      BY Zenon DEF AeHas
    <3>3. AeOnce(aeList, b) <=> \A i, j \in entries : i = j
      BY Zenon DEF AeOnce
    <3>4. \A p \in AeProcs : p \in adding <=> AeAdds(p, b)
      BY Zenon DEF AeAdds
    <3>5. \A p \in adding : p \in AeProcs
      OBVIOUS
    <3> HIDE DEF entries, adding
    <3>6. /\ \A i, j \in entries : i = j
          /\ aeOps[b] = "orig" => entries = {} /\ adding = {} /\ ~(aePop = b)
          /\ aeOps[b] = "aer" => entries # {} \/ adding # {} \/ aePop = b
          /\ adding # {} => entries = {} /\ \A p, q \in adding : p = q
      BY ONLY <3>1, <3>2, <3>3, <3>4, <3>5 DEF AeBooks
    <3>7. QED
      BY <3>6, Zenon DEF entries, adding
  <2>3. QED
    BY <2>1, <2>2, Zenon DEF AerOpsKept
<1>2. QED
  BY <1>1, AeInitInv, AeStepInv, PTL DEF AeSpec

\* For any devices and processes: calls that did not overlap leave the error
\* masks as they were, whether they succeed or fail, and a recovery only sees
\* another device's regs when they were filled again too early
\* (aer_inject()).
THEOREM AerCallsStayApart == AeSpec => []AerCallsApart
<1>1. AeInv => AerCallsApart
  BY DEF AeInv, AeMasksKept, AeRegsKept, AerCallsApart
<1>2. QED
  BY <1>1, AeInitInv, AeStepInv, PTL DEF AeSpec


-----------------------------------------------------------------------------
(* Opening, closing, loading and unloading                                 *)

\* Stages of a process that has the port: with its flag set, with its
\* rctty_struct, with that one attached to the port, with the handler.
Holding == {"init", "attach", "startup", "open", "close", "freeirq", "kill", "cancel", "flush",
    "free"}
Owning == Holding \ {"init"}
Attached == Owning \ {"attach"}

\* One process has the port, and the flag says so; nobody has one before the
\* module is live.
PtExclusive ==
  /\ \A t, u \in Procs : pc[t] # "idle" /\ pc[u] # "idle" /\ on[t] = on[u] => t = u
  /\ \A t \in Procs : pc[t] \in Holding => opened[on[t]]
  /\ \A t, u \in Procs : pc[t] = "set" /\ pc[u] = "set" => t = u
  /\ \A t \in Procs : pc[t] = "set" => ~opened[on[t]]
  /\ mod # "live" => \A t \in Procs : pc[t] = "idle"
  /\ \A t \in Procs : pc[t] # "close"

\* The structure exists exactly while a process has it, and the port and its
\* tasklet point to it.
PtLive == live = {t \in Procs : pc[t] \in Owning}
PtPoints ==
  oops = {} => \A t \in Procs : pc[t] \in Attached => ptty[on[t]] = t /\ tlet[on[t]].tty = t

\* What may still come to a port says how far its process is.
PtIrqs ==
  \A p \in Ports :
    /\ irqs[p] = IF \E t \in Procs : on[t] = p /\ pc[t] \in {"open", "freeirq"} THEN 1 ELSE 0
    /\ ier[p] <=> \E t \in Procs : on[t] = p /\ pc[t] = "open"
PtTlet ==
  \A p \in Ports : tlet[p].sched =>
    \E t \in Procs : on[t] = p /\ pc[t] \in {"open", "freeirq", "kill"}
PtWork ==
  \A t \in Procs :
    /\ work[t] # "idle" => pc[t] \in {"open", "freeirq", "kill", "cancel", "flush"}
    /\ work[t] = "timer" => pc[t] # "flush"
    /\ reading[t] => pc[t] = "open"

\* The resources of the module.
PtRes ==
  /\ \A p \in UccPorts : <<p, "engine">> \in res => {<<p, "bds">>, <<p, "slow">>} \subseteq res
  /\ mod = "leaving" /\ oops = {} => \A p \in UccPorts \ todo : <<p, "engine">> \notin res
  /\ \A p \in DuartPorts, k \in Kinds : <<p, k>> \in res => k \in {"uap", "map"}
       /\ mod \notin {"leaving", "freed", "unloaded"}
  /\ \A p \in UccPorts : <<p, "map">> \notin res
  /\ mod \in {"freed", "unloaded"} /\ oops = {} => res = {}

\* What rc_tty_init() acquired, and what a load that failed leaves.
PtOwn ==
  /\ own \subseteq Own
  /\ mod \in {"out", "duart", "ucc", "failed"} => own = {}
  /\ mod = "added" => "cdev" \in own
  /\ "proc" \in own => "cdev" \in own
  /\ mod = "unloaded" => own \subseteq {"region", "itmp"}
  /\ mod = "out" => res = {}
  /\ mod = "duart" => \A p \in UccPorts, k \in Kinds : p \in todo => <<p, k>> \notin res
  /\ mod = "failed" => \A p \in UccPorts, k \in Kinds : <<p, k>> \notin res

\* The type invariant by kinds of state.
PtModT ==
  /\ mod \in {"out", "duart", "ucc", "added", "live", "leaving", "freed", "unloaded",
             "failed"}
  /\ todo \subseteq UccPorts
  /\ pxr \in [Ports -> {"null", "noslow", "nobds", "good"}]
  /\ res \subseteq Ports \X Kinds
  /\ oops \subseteq {"null", "stale_proc"}
PtFileT ==
  /\ pc \in [Procs -> ProcStates] /\ on \in [Procs -> Ports]
  /\ live \subseteq Procs /\ ptty \in [Ports -> Procs \cup {None}]
  /\ irqs \in [Ports -> Nat] /\ work \in [Procs -> {"idle", "timer", "run"}]
PtFlagT ==
  /\ opened \in [Ports -> BOOLEAN] /\ ier \in [Ports -> BOOLEAN]
  /\ tlet \in [Ports -> [sched : BOOLEAN, tty : Procs \cup {None}]]
  /\ reading \in [Procs -> BOOLEAN]

\* The inductive invariant: the types, the stages of the processes, what may
\* still come to a port, and the resources.
PtInv ==
  /\ PtModT /\ PtFileT /\ PtFlagT
  /\ PtExclusive /\ PtLive /\ PtPoints /\ PtIrqs /\ PtTlet /\ PtWork /\ PtRes

\* Each part speaks of few variables, and a step that leaves those alone
\* keeps it.
LEMMA PtFrame ==
  /\ PtModT /\ UNCHANGED <<mod, todo, pxr, res, oops>> => PtModT'
  /\ PtFileT /\ UNCHANGED <<pc, on, live, ptty, irqs, work>> => PtFileT'
  /\ PtFlagT /\ UNCHANGED <<opened, ier, tlet, reading>> => PtFlagT'
  /\ PtExclusive /\ UNCHANGED <<pc, on, opened, mod>> => PtExclusive'
  /\ PtLive /\ UNCHANGED <<live, pc>> => PtLive'
  /\ PtPoints /\ UNCHANGED <<oops, pc, on, ptty, tlet>> => PtPoints'
  /\ PtIrqs /\ UNCHANGED <<irqs, ier, on, pc>> => PtIrqs'
  /\ PtTlet /\ UNCHANGED <<tlet, on, pc>> => PtTlet'
  /\ PtWork /\ UNCHANGED <<work, pc, reading>> => PtWork'
  /\ PtRes /\ UNCHANGED <<res, mod, todo, oops>> => PtRes'
<1>1. PtModT /\ UNCHANGED <<mod, todo, pxr, res, oops>> => PtModT'
  BY Zenon DEF PtModT
<1>2. PtFileT /\ UNCHANGED <<pc, on, live, ptty, irqs, work>> => PtFileT'
  BY Zenon DEF PtFileT
<1>3. PtFlagT /\ UNCHANGED <<opened, ier, tlet, reading>> => PtFlagT'
  BY Zenon DEF PtFlagT
<1>4. PtExclusive /\ UNCHANGED <<pc, on, opened, mod>> => PtExclusive'
  BY Zenon DEF PtExclusive
<1>5. PtLive /\ UNCHANGED <<live, pc>> => PtLive'
  BY Zenon DEF PtLive
<1>6. PtPoints /\ UNCHANGED <<oops, pc, on, ptty, tlet>> => PtPoints'
  BY Zenon DEF PtPoints
<1>7. PtIrqs /\ UNCHANGED <<irqs, ier, on, pc>> => PtIrqs'
  BY DEF PtIrqs
<1>8. PtTlet /\ UNCHANGED <<tlet, on, pc>> => PtTlet'
  BY Zenon DEF PtTlet
<1>9. PtWork /\ UNCHANGED <<work, pc, reading>> => PtWork'
  BY DEF PtWork
<1>10. PtRes /\ UNCHANGED <<res, mod, todo, oops>> => PtRes'
  BY Zenon DEF PtRes
<1>11. QED
  BY <1>1, <1>2, <1>3, <1>4, <1>5, <1>6, <1>7, <1>8, <1>9, <1>10

\* A process that goes on with a port it has, or gives it back with its flag,
\* leaves every port with one process at most.
LEMMA PtMoves ==
  ASSUME PtFileT, PtFlagT, PtExclusive, NEW t \in Procs, pc[t] \in Holding,
         UNCHANGED <<on, mod>>,
         \/ /\ opened' = opened
            /\ \E l \in Holding \ {"close"} : pc' = [pc EXCEPT ![t] = l]
         \/ /\ pc' = [pc EXCEPT ![t] = "idle"]
            /\ opened' = [opened EXCEPT ![on[t]] = FALSE]
  PROVE  PtExclusive'
<1>1. CASE /\ opened' = opened
           /\ \E l \in Holding \ {"close"} : pc' = [pc EXCEPT ![t] = l]
  BY <1>1 DEF PtExclusive, PtFileT, PtFlagT, Holding, ProcStates
<1>2. CASE /\ pc' = [pc EXCEPT ![t] = "idle"]
           /\ opened' = [opened EXCEPT ![on[t]] = FALSE]
  <2>1. \A u \in Procs \ {t} : pc[u] # "idle" => on[u] # on[t]
    BY DEF PtExclusive, Holding
  <2>2. \A u \in Procs \ {t} : pc'[u] = pc[u]
    BY <1>2 DEF PtFileT
  <2>3. pc'[t] = "idle"
    BY <1>2 DEF PtFileT
  <2>4. \A u \in Procs \ {t} : on[u] \in Ports /\ (pc[u] # "idle"
          => opened'[on[u]] = opened[on[u]])
    BY <1>2, <2>1 DEF PtFileT, PtFlagT
  <2>5. QED
    BY <2>1, <2>2, <2>3, <2>4 DEF PtExclusive, Holding
<1>3. QED
  BY <1>1, <1>2

\* What qe_uart_request_port() has acquired when ucc_uart_probe() returns,
\* for every step at which it may have failed.
LEMMA PtProbed ==
  ASSUME NEW p \in UccPorts, ucc_uart_probe(p)
  PROVE  \E K \in {{"uap"}, {"uap", "slow"}, {"uap", "slow", "bds", "engine"}} :
           res' = res \cup {<<p, k>> : k \in K}
<1>1. "uccs" \in SlowHeld(7)
  <2>1. SlowSteps[1] = "uccs"
    BY DEF SlowSteps
  <2>2. QED
    BY <2>1 DEF SlowHeld
<1>2. ucc_slow_init(7) # {}
  BY <1>1 DEF ucc_slow_init
<1>3. \/ \E n \in 1..6 : res' = (res \cup {<<p, "uap">>}) \cup
                                (IF ucc_slow_init(n) = {} THEN {} ELSE {<<p, "slow">>})
      \/ res' = (res \cup {<<p, "uap">>}) \cup {<<p, "slow">>}
      \/ res' = (((res \cup {<<p, "uap">>}) \cup {<<p, "slow">>} \cup {<<p, "bds">>})
                    \ {<<p, "engine">>}) \cup {<<p, "engine">>}
  BY <1>2 DEF ucc_uart_probe, qe_uart_request_port, xr_startup_ucc_per, ucc_slow_enable,
              qe_uart_init_ucc, ucc_slow_disable
<1>4. \/ res' = res \cup {<<p, "uap">>}
      \/ res' = res \cup {<<p, "uap">>, <<p, "slow">>}
      \/ res' = res \cup {<<p, "uap">>, <<p, "slow">>, <<p, "bds">>, <<p, "engine">>}
  BY ONLY <1>3
<1>5. /\ {<<p, k>> : k \in {"uap"}} = {<<p, "uap">>}
      /\ {<<p, k>> : k \in {"uap", "slow"}} = {<<p, "uap">>, <<p, "slow">>}
      /\ {<<p, k>> : k \in {"uap", "slow", "bds", "engine"}}
           = {<<p, "uap">>, <<p, "slow">>, <<p, "bds">>, <<p, "engine">>}
  OBVIOUS
<1>6. QED
  BY ONLY <1>4, <1>5

\* Without preemption inside rctty_open() and without an open before
\* rc_tty_init() has returned, every step of the module, of a process and of
\* a visitor preserves the invariant.
LEMMA PtStepInv ==
  ASSUME ~PREEMPT, ~EARLY_OPEN, PtInv, [Next]_vars
  PROVE  PtInv'
<1>0. /\ PtModT /\ PtFileT /\ PtFlagT /\ PtExclusive /\ PtLive /\ PtPoints
      /\ PtIrqs /\ PtTlet /\ PtWork /\ PtRes
      /\ oops \subseteq {"null", "stale_proc"}
  BY PtInv DEF PtInv, PtModT
<1>1. CASE xr_probe_duart
  <2>1. PtFileT' /\ PtFlagT' /\ PtLive' /\ PtPoints' /\ PtIrqs' /\ PtTlet' /\ PtWork'
    <3>1. UNCHANGED <<pc, on, live, ptty, irqs, work, opened, ier, tlet, reading, oops>>
      BY <1>1, Zenon DEF xr_probe_duart, modVars, fileVars, asyncVars
    <3>2. QED
      BY <1>0, <3>1, PtFrame
  <2>2. PtModT'
    <3>1. mod' \in {"duart", "failed"} /\ UNCHANGED <<todo, oops>>
      BY <1>1 DEF xr_probe_duart
    <3>2. pxr' \in [Ports -> {"null", "noslow", "nobds", "good"}]
      BY <1>0, <1>1 DEF xr_probe_duart, PtModT
    <3>3. res' \subseteq Ports \X Kinds
      BY <1>0, <1>1 DEF xr_probe_duart, PtModT, Ports, Kinds
    <3>4. QED
      BY <1>0, <3>1, <3>2, <3>3 DEF PtModT
  <2>3. PtExclusive'
    BY <1>0, <1>1 DEF xr_probe_duart, modVars, fileVars, asyncVars, PtExclusive, PtFileT,
       PtFlagT, MayRun, Holding, ProcStates
  <2>4. PtRes'
    <3>1. /\ mod' \in {"duart", "failed"}
          /\ res' = res \cup (DuartPorts \X {"uap", "map"}) \/ res' = res
          /\ mod = "out"
      BY <1>1 DEF xr_probe_duart
    <3>2. \A p \in UccPorts, k \in Kinds : <<p, k>> \in res' <=> <<p, k>> \in res
      BY <3>1, PortsAssumption
    <3>3. QED
      BY <1>0, <3>1, <3>2 DEF PtRes, Kinds
  <2>5. QED
    BY <2>1, <2>2, <2>3, <2>4 DEF PtInv
<1>2. CASE xr_probe_ucc
  <2>1. PtFileT' /\ PtFlagT' /\ PtLive' /\ PtPoints' /\ PtIrqs' /\ PtTlet' /\ PtWork'
    <3>1. UNCHANGED <<pc, on, live, ptty, irqs, work, opened, ier, tlet, reading, oops>>
      BY <1>2, Zenon DEF xr_probe_ucc, modVars, fileVars, asyncVars
    <3>2. QED
      BY <1>0, <3>1, PtFrame
  <2>2. PtModT'
    BY <1>0, <1>2 DEF xr_probe_ucc, modVars, fileVars, asyncVars, PtModT, Ports
  <2>3. PtExclusive'
    BY <1>0, <1>2 DEF xr_probe_ucc, modVars, fileVars, asyncVars, PtExclusive, PtFileT,
       PtFlagT, MayRun, Holding, ProcStates
  <2>4. PtRes'
    BY <1>0, <1>2 DEF xr_probe_ucc, modVars, fileVars, asyncVars, PtRes, PtModT, Ports,
       Kinds
  <2>5. QED
    BY <2>1, <2>2, <2>3, <2>4 DEF PtInv
<1>3. CASE cdev_add
  <2>1. PtFileT' /\ PtFlagT' /\ PtLive' /\ PtPoints' /\ PtIrqs' /\ PtTlet' /\ PtWork'
    <3>1. UNCHANGED <<pc, on, live, ptty, irqs, work, opened, ier, tlet, reading, oops>>
      BY <1>3, Zenon DEF cdev_add, modVars, fileVars, asyncVars
    <3>2. QED
      BY <1>0, <3>1, PtFrame
  <2>2. PtModT'
    BY <1>0, <1>3 DEF cdev_add, xr_unprobe_duart, modVars, fileVars, asyncVars, PtModT,
       Ports
  <2>3. PtExclusive'
    BY <1>0, <1>3 DEF cdev_add, xr_unprobe_duart, modVars, fileVars, asyncVars, PtExclusive,
       PtFileT, PtFlagT, MayRun, Holding, ProcStates
  <2>4. PtRes'
    BY <1>0, <1>3 DEF cdev_add, xr_unprobe_duart, modVars, fileVars, asyncVars, PtRes,
       PtModT, Ports, Kinds
  <2>5. QED
    BY <2>1, <2>2, <2>3, <2>4 DEF PtInv
<1>4. CASE rc_tty_init
  <2>1. PtFileT' /\ PtLive' /\ PtPoints' /\ PtIrqs' /\ PtTlet' /\ PtWork'
    <3>1. UNCHANGED <<pc, on, live, ptty, irqs, work, tlet, ier, reading>>
      BY <1>4, Zenon DEF rc_tty_init, modVars, fileVars, asyncVars
    <3>2. PtPoints'
      BY <1>0, <1>4, <3>1 DEF rc_tty_init, PtPoints
    <3>3. QED
      BY <1>0, <3>1, <3>2, PtFrame
  <2>2. PtModT'
    BY <1>0, <1>4 DEF rc_tty_init, modVars, fileVars, asyncVars, PtModT, Ports
  <2>3. PtFlagT'
    BY <1>0, <1>4 DEF rc_tty_init, modVars, fileVars, asyncVars, PtFlagT, Ports
  <2>4. PtExclusive'
    BY <1>0, <1>4 DEF rc_tty_init, modVars, fileVars, asyncVars, PtExclusive, PtFileT,
       PtFlagT, MayRun, Holding, ProcStates
  <2>5. PtRes'
    BY <1>0, <1>4 DEF rc_tty_init, modVars, fileVars, asyncVars, PtRes, PtModT, Ports, Kinds
  <2>6. QED
    BY <2>1, <2>2, <2>3, <2>4, <2>5 DEF PtInv
<1>5. CASE rc_tty_exit
  <2>1. PtFileT' /\ PtFlagT' /\ PtLive' /\ PtPoints' /\ PtIrqs' /\ PtTlet' /\ PtWork'
    <3>1. UNCHANGED <<pc, on, live, ptty, irqs, work, opened, ier, tlet, reading, oops>>
      BY <1>5, Zenon DEF rc_tty_exit, modVars, fileVars, asyncVars
    <3>2. QED
      BY <1>0, <3>1, PtFrame
  <2>2. PtModT'
    BY <1>0, <1>5 DEF rc_tty_exit, xr_unprobe_duart, modVars, fileVars, asyncVars, PtModT,
       Ports
  <2>3. PtExclusive'
    BY <1>0, <1>5 DEF rc_tty_exit, xr_unprobe_duart, modVars, fileVars, asyncVars,
       PtExclusive, PtFileT, PtFlagT, MayRun, Holding, ProcStates
  <2>4. PtRes'
    BY <1>0, <1>5 DEF rc_tty_exit, xr_unprobe_duart, modVars, fileVars, asyncVars, PtRes,
       PtModT, Ports, Kinds
  <2>5. QED
    BY <2>1, <2>2, <2>3, <2>4 DEF PtInv
<1>6. CASE xr_unprobe_ucc
  <2>1. PtFileT' /\ PtFlagT' /\ PtLive' /\ PtIrqs' /\ PtTlet' /\ PtWork'
    <3>1. UNCHANGED <<pc, on, live, ptty, irqs, work, opened, ier, tlet, reading>>
      BY <1>6, Zenon DEF xr_unprobe_ucc, modVars, fileVars, asyncVars
    <3>2. QED
      BY <1>0, <3>1, PtFrame
  <2>2. PtModT'
    BY <1>0, <1>6 DEF xr_unprobe_ucc, modVars, fileVars, asyncVars, ucc_uart_remove, PtModT,
       Ports
  <2>3. PtExclusive'
    BY <1>0, <1>6 DEF xr_unprobe_ucc, modVars, fileVars, asyncVars, ucc_uart_remove,
       PtExclusive, PtFileT, PtFlagT, MayRun, Holding, ProcStates
  <2>4. PtPoints'
    BY <1>0, <1>6 DEF xr_unprobe_ucc, modVars, fileVars, asyncVars, ucc_uart_remove,
       PtPoints, PtFileT, PtFlagT, PtExclusive, Holding, Owning, Attached
  <2>5. PtRes'
    <3>1. /\ mod' \in {"freed", "unloaded"} /\ mod = "leaving" /\ todo = {} /\ oops' = oops
          /\ res' = res \ (UccPorts \X {"uap"})
          /\ \A p \in UccPorts : <<p, "slow">> \notin res /\ <<p, "bds">> \notin res
      BY <1>6 DEF xr_unprobe_ucc, ucc_uart_remove, ReleasedPort
    <3>2. \A p \in UccPorts : <<p, "engine">> \notin res
      BY <1>0, <3>1 DEF PtRes
    <3>3. \A p \in Ports, k \in Kinds : <<p, k>> \notin res'
      BY <1>0, <3>1, <3>2 DEF PtRes, Kinds, Ports
    <3>4. res' = {}
      BY <1>0, <3>1, <3>3 DEF PtModT
    <3>5. QED
      BY <3>1, <3>3, <3>4 DEF PtRes
  <2>6. QED
    BY <2>1, <2>2, <2>3, <2>4, <2>5 DEF PtInv
<1>7. ASSUME NEW p \in UccPorts, DeviceTreeBad(p) PROVE PtInv'
  <2>1. PtFileT' /\ PtFlagT' /\ PtExclusive' /\ PtLive' /\ PtPoints' /\ PtIrqs' /\ PtTlet'
          /\ PtWork'
    <3>1. UNCHANGED <<pc, on, live, ptty, irqs, work, opened, ier, tlet, reading, mod, oops>>
      BY <1>7, Zenon DEF DeviceTreeBad, modVars, fileVars, asyncVars
    <3>2. QED
      BY <1>0, <3>1, PtFrame
  <2>2. PtModT'
    BY <1>0, <1>7 DEF DeviceTreeBad, modVars, fileVars, asyncVars, PtModT, Ports
  <2>3. PtRes'
    BY <1>0, <1>7 DEF DeviceTreeBad, modVars, fileVars, asyncVars, PtRes, PtModT, Ports,
       Kinds
  <2>4. QED
    BY <2>1, <2>2, <2>3 DEF PtInv
<1>8. ASSUME NEW p \in UccPorts, ucc_uart_probe(p) PROVE PtInv'
  <2>1. PtFileT' /\ PtFlagT' /\ PtExclusive' /\ PtLive' /\ PtPoints' /\ PtIrqs' /\ PtTlet'
          /\ PtWork'
    <3>1. UNCHANGED <<pc, on, live, ptty, irqs, work, opened, ier, tlet, reading, mod, oops>>
      BY <1>8, Zenon DEF ucc_uart_probe, modVars, fileVars, asyncVars
    <3>2. QED
      BY <1>0, <3>1, PtFrame
  <2>2. PtModT'
    <3>1. mod' = mod /\ todo' = todo \ {p} /\ oops' = oops
      BY <1>8 DEF ucc_uart_probe
    <3>2. pxr' \in [Ports -> {"null", "noslow", "nobds", "good"}]
      BY <1>0, <1>8 DEF ucc_uart_probe, qe_uart_request_port, PtModT
    <3>3. res' \subseteq Ports \X Kinds
      BY <1>0, <1>8, PtProbed DEF PtModT, Ports, Kinds
    <3>4. QED
      BY <1>0, <3>1, <3>2, <3>3 DEF PtModT
  <2>3. PtRes'
    <3>1. UNCHANGED <<mod, oops>> /\ mod = "duart"
      BY <1>8 DEF ucc_uart_probe
    <3>2. PICK K \in {{"uap"}, {"uap", "slow"}, {"uap", "slow", "bds", "engine"}} :
            res' = res \cup {<<p, k>> : k \in K}
      BY <1>8, PtProbed
    <3>3. \A q \in Ports \ {p}, k \in Kinds : <<q, k>> \in res' <=> <<q, k>> \in res
      BY <3>2
    <3>4. \A k \in Kinds : <<p, k>> \in res' <=> <<p, k>> \in res \/ k \in K
      BY <3>2
    <3>5. \A q \in UccPorts : <<q, "engine">> \in res'
            => {<<q, "bds">>, <<q, "slow">>} \subseteq res'
      BY <1>0, <3>3, <3>4 DEF PtRes, Kinds, Ports
    <3>6. /\ \A q \in UccPorts : <<q, "map">> \notin res'
          /\ \A q \in DuartPorts, k \in Kinds : <<q, k>> \in res' => <<q, k>> \in res
      BY <1>0, <1>8, <3>3, <3>4, PortsAssumption DEF PtRes, Kinds, Ports
    <3>7. QED
      BY <1>0, <3>1, <3>5, <3>6 DEF PtRes
  <2>4. QED
    BY <2>1, <2>2, <2>3 DEF PtInv
<1>9. ASSUME NEW p \in Ports, uart_read_proc(p) PROVE PtInv'
  <2>1. PtFileT' /\ PtFlagT' /\ PtExclusive' /\ PtLive' /\ PtIrqs' /\ PtTlet' /\ PtWork'
    <3>1. UNCHANGED <<pc, on, live, ptty, irqs, work, opened, ier, tlet, reading, mod>>
      BY <1>9, Zenon DEF uart_read_proc, modVars, fileVars, asyncVars
    <3>2. QED
      BY <1>0, <3>1, PtFrame
  <2>2. PtModT'
    BY <1>0, <1>9 DEF uart_read_proc, modVars, fileVars, asyncVars, PtModT, Ports
  <2>3. PtPoints'
    BY <1>0, <1>9 DEF uart_read_proc, modVars, fileVars, asyncVars, PtPoints, PtFileT,
       PtFlagT, PtExclusive, Holding, Owning, Attached
  <2>4. PtRes'
    BY <1>0, <1>9 DEF uart_read_proc, modVars, fileVars, asyncVars, PtRes, PtModT, Ports,
       Kinds
  <2>5. QED
    BY <2>1, <2>2, <2>3, <2>4 DEF PtInv
<1>10. ASSUME NEW p \in UccPorts, StopEngine(p) PROVE PtInv'
  <2>1. PtFileT' /\ PtFlagT' /\ PtExclusive' /\ PtLive' /\ PtIrqs' /\ PtTlet' /\ PtWork'
    <3>1. UNCHANGED <<pc, on, live, ptty, irqs, work, opened, ier, tlet, reading, mod>>
      BY <1>10, Zenon DEF StopEngine, modVars, fileVars, asyncVars
    <3>2. QED
      BY <1>0, <3>1, PtFrame
  <2>2. PtModT'
    BY <1>0, <1>10 DEF StopEngine, modVars, fileVars, asyncVars, ucc_slow_disable, PtModT,
       Ports
  <2>3. PtPoints'
    BY <1>0, <1>10 DEF StopEngine, modVars, fileVars, asyncVars, ucc_slow_disable, PtPoints,
       PtFileT, PtFlagT, PtExclusive, Holding, Owning, Attached
  <2>4. PtRes'
    BY <1>0, <1>10 DEF StopEngine, modVars, fileVars, asyncVars, ucc_slow_disable, PtRes,
       PtModT, Ports, Kinds
  <2>5. QED
    BY <2>1, <2>2, <2>3, <2>4 DEF PtInv
<1>11. ASSUME NEW p \in UccPorts, oops = {}, qe_uart_release_port(p) PROVE PtInv'
  <2>1. PtFileT' /\ PtFlagT' /\ PtExclusive' /\ PtLive' /\ PtPoints' /\ PtIrqs' /\ PtTlet'
          /\ PtWork'
    <3>1. UNCHANGED <<pc, on, live, ptty, irqs, work, opened, ier, tlet, reading, mod, oops>>
      BY <1>11, Zenon DEF qe_uart_release_port, modVars, fileVars, asyncVars
    <3>2. QED
      BY <1>0, <3>1, PtFrame
  <2>2. PtModT'
    BY <1>0, <1>11 DEF qe_uart_release_port, modVars, fileVars, asyncVars, PtModT, Ports
  <2>3. PtRes'
    <3>1. /\ mod = "leaving" /\ p \notin todo
          /\ res' = res \ {<<p, "slow">>, <<p, "bds">>}
          /\ UNCHANGED <<mod, todo, oops>>
      BY <1>11 DEF qe_uart_release_port, ReleasedPort
    <3>2. oops = {} => <<p, "engine">> \notin res
      BY <1>0, <3>1 DEF PtRes
    <3>3. QED
      BY <1>0, <1>11, <3>1, <3>2 DEF PtRes, Kinds
  <2>4. QED
    BY <2>1, <2>2, <2>3 DEF PtInv
<1>12. ASSUME NEW p \in Ports, oops = {}, Interrupt(p) PROVE PtInv'
  <2>1. PtExclusive' /\ PtLive' /\ PtIrqs'
    <3>1. UNCHANGED <<pc, on, opened, mod, live, irqs, ier>>
      BY <1>12, Zenon DEF Interrupt, modVars, fileVars, asyncVars
    <3>2. QED
      BY <1>0, <3>1, PtFrame
  <2>2. PtModT'
    <3>1. ptty[p] \in live
      <4>1. PICK t \in Procs : on[t] = p /\ pc[t] = "open"
        BY <1>0, <1>12 DEF Interrupt, PtIrqs
      <4>2. QED
        BY <4>1, <1>0, <1>12 DEF PtPoints, PtLive, Attached, Owning, Holding
    <3>2. oops' = oops
      BY <3>1, <1>12 DEF Interrupt, Touch
    <3>3. UNCHANGED <<mod, todo, pxr, res, oops>>
      BY <3>2, <1>12, Zenon DEF Interrupt, modVars
    <3>4. QED
      BY <1>0, <3>3, PtFrame
  <2>3. PtFileT'
    <3>1. work' = work \/ \E t \in Procs : work' = [work EXCEPT ![t] = Scheduled(@)]
      BY <1>0, <1>12 DEF Interrupt, PtFileT
    <3>2. UNCHANGED <<pc, on, live, ptty, irqs>>
      BY <1>12, Zenon DEF Interrupt, fileVars
    <3>3. QED
      BY <1>0, <3>1, <3>2 DEF PtFileT, Scheduled
  <2>4. PtFlagT'
    BY <1>0, <1>12 DEF Interrupt, modVars, fileVars, asyncVars, Touch, PtFlagT, Ports
  <2>5. PtPoints'
    <3>1. UNCHANGED <<pc, on, ptty>>
      BY <1>12, Zenon DEF Interrupt, fileVars
    <3>2. \A q \in Ports : tlet'[q].tty = tlet[q].tty
      BY <1>0, <1>12 DEF Interrupt, PtFlagT
    <3>3. QED
      BY <1>0, <1>12, <3>1, <3>2 DEF PtPoints, PtFileT
  <2>6. PtTlet'
    <3>1. PICK t \in Procs : on[t] = p /\ pc[t] = "open"
      BY <1>0, <1>12 DEF Interrupt, PtIrqs
    <3>2. \A q \in Ports \ {p} : tlet'[q] = tlet[q]
      BY <1>0, <1>12 DEF Interrupt, PtFlagT
    <3>3. pc' = pc /\ on' = on
      BY <1>12 DEF Interrupt, fileVars
    <3>4. QED
      BY <1>0, <3>1, <3>2, <3>3 DEF PtTlet
  <2>7. PtWork'
    <3>1. PICK t \in Procs : on[t] = p /\ pc[t] = "open"
      BY <1>0, <1>12 DEF Interrupt, PtIrqs
    <3>2. ptty[p] = t
      BY <3>1, <1>0, <1>12 DEF PtPoints, Attached, Owning, Holding
    <3>3. pc' = pc /\ reading' = reading
      BY <1>12 DEF Interrupt, fileVars
    <3>4. \A u \in Procs \ {t} : work'[u] = work[u]
      BY <1>0, <1>12, <3>2 DEF Interrupt, PtFileT
    <3>5. QED
      BY <1>0, <3>1, <3>3, <3>4 DEF PtWork
  <2>8. PtRes'
    BY <1>0, <1>12 DEF Interrupt, modVars, fileVars, asyncVars, Touch, PtRes, PtModT, Ports,
       Kinds
  <2>9. QED
    BY <2>1, <2>2, <2>3, <2>4, <2>5, <2>6, <2>7, <2>8 DEF PtInv
<1>13. ASSUME NEW p \in Ports, oops = {}, uart_tasklet_action(p) PROVE PtInv'
  <2>1. PtFileT' /\ PtExclusive' /\ PtLive' /\ PtIrqs' /\ PtWork'
    <3>1. UNCHANGED <<pc, on, live, ptty, irqs, work, opened, mod, ier, reading>>
      BY <1>13, Zenon DEF uart_tasklet_action, modVars, fileVars, asyncVars
    <3>2. QED
      BY <1>0, <3>1, PtFrame
  <2>2. PtModT'
    <3>1. tlet[p].tty \in live
      <4>1. PICK t \in Procs : on[t] = p /\ pc[t] \in {"open", "freeirq", "kill"}
        BY <1>0, <1>13 DEF uart_tasklet_action, PtTlet
      <4>2. QED
        BY <4>1, <1>0, <1>13 DEF PtPoints, PtLive, Attached, Owning, Holding
    <3>2. oops' = oops
      BY <3>1, <1>13 DEF uart_tasklet_action, Touch
    <3>3. UNCHANGED <<mod, todo, pxr, res, oops>>
      BY <3>2, <1>13, Zenon DEF uart_tasklet_action, modVars
    <3>4. QED
      BY <1>0, <3>3, PtFrame
  <2>3. PtFlagT'
    BY <1>0, <1>13 DEF uart_tasklet_action, modVars, fileVars, asyncVars, Touch, PtFlagT,
       Ports
  <2>4. PtPoints'
    BY <1>0, <1>13 DEF uart_tasklet_action, modVars, fileVars, asyncVars, Touch, PtPoints,
       PtFileT, PtFlagT, PtExclusive, Holding, Owning, Attached
  <2>5. PtTlet'
    BY <1>0, <1>13 DEF uart_tasklet_action, modVars, fileVars, asyncVars, Touch, PtTlet,
       PtFileT, PtFlagT
  <2>6. PtRes'
    BY <1>0, <1>13 DEF uart_tasklet_action, modVars, fileVars, asyncVars, Touch, PtRes,
       PtModT, Ports, Kinds
  <2>7. QED
    BY <2>1, <2>2, <2>3, <2>4, <2>5, <2>6 DEF PtInv
<1>14. ASSUME NEW t \in Procs, oops = {}, WorkStarts(t) PROVE PtInv'
  <2>1. PtFlagT' /\ PtExclusive' /\ PtLive' /\ PtIrqs' /\ PtTlet'
    <3>1. UNCHANGED <<opened, ier, tlet, reading, pc, on, mod, live, irqs>>
      BY <1>14, Zenon DEF WorkStarts, modVars, fileVars, asyncVars
    <3>2. QED
      BY <1>0, <3>1, PtFrame
  <2>2. PtModT'
    <3>1. t \in live
      BY <1>0, <1>14 DEF WorkStarts, PtWork, PtLive, Owning, Holding
    <3>2. oops' = oops
      BY <3>1, <1>14 DEF WorkStarts, Touch
    <3>3. UNCHANGED <<mod, todo, pxr, res, oops>>
      BY <3>2, <1>14, Zenon DEF WorkStarts, modVars
    <3>4. QED
      BY <1>0, <3>3, PtFrame
  <2>3. PtFileT'
    BY <1>0, <1>14 DEF WorkStarts, modVars, fileVars, asyncVars, Touch, PtFileT, Ports,
       ProcStates
  <2>4. PtPoints'
    BY <1>0, <1>14 DEF WorkStarts, modVars, fileVars, asyncVars, Touch, PtPoints, PtFileT,
       PtFlagT, PtExclusive, Holding, Owning, Attached
  <2>5. PtWork'
    BY <1>0, <1>14 DEF WorkStarts, modVars, fileVars, asyncVars, Touch, PtWork, PtFileT,
       PtFlagT
  <2>6. PtRes'
    BY <1>0, <1>14 DEF WorkStarts, modVars, fileVars, asyncVars, Touch, PtRes, PtModT,
       Ports, Kinds
  <2>7. QED
    BY <2>1, <2>2, <2>3, <2>4, <2>5, <2>6 DEF PtInv
<1>15. ASSUME NEW t \in Procs, oops = {}, WorkEnds(t) PROVE PtInv'
  <2>1. PtFlagT' /\ PtExclusive' /\ PtLive' /\ PtIrqs' /\ PtTlet'
    <3>1. UNCHANGED <<opened, ier, tlet, reading, pc, on, mod, live, irqs>>
      BY <1>15, Zenon DEF WorkEnds, modVars, fileVars, asyncVars
    <3>2. QED
      BY <1>0, <3>1, PtFrame
  <2>2. PtModT'
    <3>1. t \in live
      BY <1>0, <1>15 DEF WorkEnds, PtWork, PtLive, Owning, Holding
    <3>2. oops' = oops
      BY <3>1, <1>15 DEF WorkEnds, Touch
    <3>3. UNCHANGED <<mod, todo, pxr, res, oops>>
      BY <3>2, <1>15, Zenon DEF WorkEnds, modVars
    <3>4. QED
      BY <1>0, <3>3, PtFrame
  <2>3. PtFileT'
    BY <1>0, <1>15 DEF WorkEnds, modVars, fileVars, asyncVars, Touch, PtFileT, Ports,
       ProcStates
  <2>4. PtPoints'
    BY <1>0, <1>15 DEF WorkEnds, modVars, fileVars, asyncVars, Touch, PtPoints, PtFileT,
       PtFlagT, PtExclusive, Holding, Owning, Attached
  <2>5. PtWork'
    BY <1>0, <1>15 DEF WorkEnds, modVars, fileVars, asyncVars, Touch, PtWork, PtFileT,
       PtFlagT
  <2>6. PtRes'
    BY <1>0, <1>15 DEF WorkEnds, modVars, fileVars, asyncVars, Touch, PtRes, PtModT, Ports,
       Kinds
  <2>7. QED
    BY <2>1, <2>2, <2>3, <2>4, <2>5, <2>6 DEF PtInv
<1>16. ASSUME NEW t \in Procs, NEW p \in Ports, rctty_open(t, p) PROVE PtInv'
  <2>1. PtModT' /\ PtFlagT' /\ PtRes'
    <3>1. UNCHANGED <<mod, todo, pxr, res, oops, opened, ier, tlet, reading>>
      BY <1>16, Zenon DEF rctty_open, modVars, fileVars, asyncVars
    <3>2. QED
      BY <1>0, <3>1, PtFrame
  <2>2. PtFileT'
    BY <1>0, <1>16 DEF rctty_open, Goto, modVars, fileVars, asyncVars, PtFileT, Ports,
       ProcStates
  <2>3. PtExclusive'
    BY <1>0, <1>16 DEF rctty_open, Goto, modVars, fileVars, asyncVars, PtExclusive, PtFileT,
       PtFlagT, MayRun, Holding, ProcStates
  <2>4. PtLive'
    BY <1>0, <1>16 DEF rctty_open, Goto, modVars, fileVars, asyncVars, PtLive, PtFileT,
       Holding, Owning
  <2>5. PtPoints'
    BY <1>0, <1>16 DEF rctty_open, Goto, modVars, fileVars, asyncVars, PtPoints, PtFileT,
       PtFlagT, PtExclusive, Holding, Owning, Attached
  <2>6. PtIrqs'
    BY <1>0, <1>16 DEF rctty_open, Goto, modVars, fileVars, asyncVars, PtIrqs, PtFileT,
       PtFlagT, PtExclusive
  <2>7. PtTlet'
    BY <1>0, <1>16 DEF rctty_open, Goto, modVars, fileVars, asyncVars, PtTlet, PtFileT,
       PtFlagT
  <2>8. PtWork'
    BY <1>0, <1>16 DEF rctty_open, Goto, modVars, fileVars, asyncVars, PtWork, PtFileT,
       PtFlagT
  <2>9. QED
    BY <2>1, <2>2, <2>3, <2>4, <2>5, <2>6, <2>7, <2>8 DEF PtInv
<1>17. ASSUME NEW t \in Procs, SetOpened(t) PROVE PtInv'
  <2>1. PtModT' /\ PtRes'
    <3>1. UNCHANGED <<mod, todo, pxr, res, oops>>
      BY <1>17, Zenon DEF SetOpened, modVars, fileVars, asyncVars
    <3>2. QED
      BY <1>0, <3>1, PtFrame
  <2>2. PtFileT'
    BY <1>0, <1>17 DEF SetOpened, Goto, modVars, fileVars, asyncVars, PtFileT, Ports,
       ProcStates
  <2>3. PtFlagT'
    BY <1>0, <1>17 DEF SetOpened, Goto, modVars, fileVars, asyncVars, PtFlagT, Ports
  <2>4. PtExclusive'
    BY <1>0, <1>17 DEF SetOpened, Goto, modVars, fileVars, asyncVars, PtExclusive, PtFileT,
       PtFlagT, MayRun, Holding, ProcStates
  <2>5. PtLive'
    BY <1>0, <1>17 DEF SetOpened, Goto, modVars, fileVars, asyncVars, PtLive, PtFileT,
       Holding, Owning
  <2>6. PtPoints'
    BY <1>0, <1>17 DEF SetOpened, Goto, modVars, fileVars, asyncVars, PtPoints, PtFileT,
       PtFlagT, PtExclusive, Holding, Owning, Attached
  <2>7. PtIrqs'
    BY <1>0, <1>17 DEF SetOpened, Goto, modVars, fileVars, asyncVars, PtIrqs, PtFileT,
       PtFlagT, PtExclusive
  <2>8. PtTlet'
    BY <1>0, <1>17 DEF SetOpened, Goto, modVars, fileVars, asyncVars, PtTlet, PtFileT,
       PtFlagT
  <2>9. PtWork'
    BY <1>0, <1>17 DEF SetOpened, Goto, modVars, fileVars, asyncVars, PtWork, PtFileT,
       PtFlagT
  <2>10. QED
    BY <2>1, <2>2, <2>3, <2>4, <2>5, <2>6, <2>7, <2>8, <2>9 DEF PtInv
<1>18. ASSUME NEW t \in Procs, init_dev(t) PROVE PtInv'
  <2>1. PtModT' /\ PtRes'
    <3>1. UNCHANGED <<mod, todo, pxr, res, oops>>
      BY <1>18, Zenon DEF init_dev, modVars, fileVars, asyncVars
    <3>2. QED
      BY <1>0, <3>1, PtFrame
  <2>2. PtFileT'
    BY <1>0, <1>18 DEF init_dev, Goto, modVars, fileVars, asyncVars, PtFileT, Ports,
       ProcStates
  <2>3. PtFlagT'
    BY <1>0, <1>18 DEF init_dev, Goto, modVars, fileVars, asyncVars, PtFlagT, Ports
  <2>4. PtExclusive'
    <3>1. /\ pc[t] = "init" /\ UNCHANGED <<on, mod>>
          /\ \/ pc' = [pc EXCEPT ![t] = "attach"] /\ opened' = opened
             \/ /\ pc' = [pc EXCEPT ![t] = "idle"]
                /\ opened' = [opened EXCEPT ![on[t]] = FALSE]
      BY <1>18 DEF init_dev, Goto, modVars
    <3>2. QED
      BY <1>0, <1>18, <3>1, PtMoves DEF Holding
  <2>5. PtLive'
    BY <1>0, <1>18 DEF init_dev, Goto, modVars, fileVars, asyncVars, PtLive, PtFileT,
       Holding, Owning
  <2>6. PtPoints'
    BY <1>0, <1>18, SMTT(20) DEF init_dev, Goto, modVars, fileVars, asyncVars, PtPoints, PtFileT,
       PtFlagT, PtExclusive, Holding, Owning, Attached
  <2>7. PtIrqs'
    BY <1>0, <1>18 DEF init_dev, Goto, modVars, fileVars, asyncVars, PtIrqs, PtFileT,
       PtFlagT, PtExclusive
  <2>8. PtTlet'
    BY <1>0, <1>18 DEF init_dev, Goto, modVars, fileVars, asyncVars, PtTlet, PtFileT,
       PtFlagT
  <2>9. PtWork'
    BY <1>0, <1>18 DEF init_dev, Goto, modVars, fileVars, asyncVars, PtWork, PtFileT,
       PtFlagT
  <2>10. QED
    BY <2>1, <2>2, <2>3, <2>4, <2>5, <2>6, <2>7, <2>8, <2>9 DEF PtInv
<1>19. ASSUME NEW t \in Procs, Attach(t) PROVE PtInv'
  <2>1. PtModT'
    BY <1>0, <1>19 DEF Attach, Goto, modVars, fileVars, asyncVars, PtModT, Ports
  <2>2. PtFileT'
    BY <1>0, <1>19 DEF Attach, Goto, modVars, fileVars, asyncVars, PtFileT, Ports,
       ProcStates
  <2>3. PtFlagT'
    <3>1. UNCHANGED <<opened, ier, reading>>
      BY <1>19, Zenon DEF Attach
    <3>2. \/ tlet' = tlet
          \/ tlet' = [tlet EXCEPT ![on[t]] = [sched |-> FALSE, tty |-> t]]
      BY <1>19 DEF Attach
    <3>3. tlet' \in [Ports -> [sched : BOOLEAN, tty : Procs \cup {None}]]
      <4>1. tlet \in [Ports -> [sched : BOOLEAN, tty : Procs \cup {None}]]
        BY <1>0, Zenon DEF PtFlagT
      <4>2. [sched |-> FALSE, tty |-> t] \in [sched : BOOLEAN, tty : Procs \cup {None}]
        BY <1>19
      <4>3. QED
        BY ONLY <3>2, <4>1, <4>2
    <3>4. QED
      BY <1>0, <3>1, <3>3, Zenon DEF PtFlagT
  <2>4. PtExclusive'
    BY <1>0, <1>19 DEF Attach, Goto, modVars, fileVars, asyncVars, PtExclusive, PtFileT,
       PtFlagT, MayRun, Holding, ProcStates
  <2>5. PtLive'
    BY <1>0, <1>19 DEF Attach, Goto, modVars, fileVars, asyncVars, PtLive, PtFileT, Holding,
       Owning
  <2>6. PtPoints'
    BY <1>0, <1>19, SMTT(20) DEF Attach, Goto, modVars, fileVars, asyncVars, PtPoints, PtFileT,
       PtFlagT, PtExclusive, Holding, Owning, Attached
  <2>7. PtIrqs'
    BY <1>0, <1>19 DEF Attach, Goto, modVars, fileVars, asyncVars, PtIrqs, PtFileT, PtFlagT,
       PtExclusive
  <2>8. PtTlet'
    <3>1. /\ pc[t] = "attach" /\ pc' = [pc EXCEPT ![t] = "startup"] /\ on' = on
          /\ \/ tlet' = tlet
             \/ tlet' = [tlet EXCEPT ![on[t]] = [sched |-> FALSE, tty |-> t]]
      BY <1>19 DEF Attach, Goto
    <3>2. \A q \in Ports : tlet'[q].sched => tlet[q].sched
      BY <1>0, <3>1 DEF PtFlagT
    <3>3. QED
      BY <1>0, <1>19, <3>1, <3>2 DEF PtTlet, PtFileT
  <2>9. PtWork'
    BY <1>0, <1>19 DEF Attach, Goto, modVars, fileVars, asyncVars, PtWork, PtFileT, PtFlagT
  <2>10. PtRes'
    BY <1>0, <1>19 DEF Attach, Goto, modVars, fileVars, asyncVars, PtRes, PtModT, Ports,
       Kinds
  <2>11. QED
    BY <2>1, <2>2, <2>3, <2>4, <2>5, <2>6, <2>7, <2>8, <2>9, <2>10 DEF PtInv
<1>20. ASSUME NEW t \in Procs, xr_startup(t) PROVE PtInv'
  <2>1. PtModT'
    BY <1>0, <1>20 DEF xr_startup, Goto, modVars, fileVars, asyncVars, PtModT, Ports
  <2>2. PtFileT'
    BY <1>0, <1>20 DEF xr_startup, Goto, modVars, fileVars, asyncVars, PtFileT, Ports,
       ProcStates
  <2>3. PtFlagT'
    BY <1>0, <1>20 DEF xr_startup, Goto, modVars, fileVars, asyncVars, PtFlagT, Ports
  <2>4. PtExclusive'
    <3>1. /\ pc[t] = "startup" /\ UNCHANGED <<on, mod>>
          /\ \/ pc' = [pc EXCEPT ![t] = "open"] /\ opened' = opened
             \/ /\ pc' = [pc EXCEPT ![t] = "idle"]
                /\ opened' = [opened EXCEPT ![on[t]] = FALSE]
      BY <1>20 DEF xr_startup, Goto, modVars
    <3>2. QED
      BY <1>0, <1>20, <3>1, PtMoves DEF Holding
  <2>5. PtLive'
    BY <1>0, <1>20 DEF xr_startup, Goto, modVars, fileVars, asyncVars, PtLive, PtFileT,
       Holding, Owning
  <2>6. PtPoints'
    <3>1. /\ pc[t] = "startup" /\ UNCHANGED <<on, ptty, tlet>>
          /\ pc' = [pc EXCEPT ![t] = "open"] \/ pc' = [pc EXCEPT ![t] = "idle"]
      BY <1>20 DEF xr_startup, Goto
    <3>2. oops' = {} => oops = {}
      BY <1>20 DEF xr_startup
    <3>3. \A q \in Procs : pc'[q] \in Attached => pc[q] \in Attached
      <4>1. pc \in [Procs -> ProcStates]
        BY <1>0 DEF PtFileT
      <4>2. "startup" \in Attached
        BY DEF Attached, Owning, Holding
      <4>3. \A q \in Procs \ {t} : pc'[q] = pc[q]
        BY <3>1, <4>1
      <4>4. QED
        BY <3>1, <4>2, <4>3, Zenon
    <3>4. QED
      BY <1>0, <3>1, <3>2, <3>3 DEF PtPoints
  <2>7. PtIrqs'
    <3>1. /\ pc[t] = "startup" /\ on' = on
          /\ \/ /\ pc' = [pc EXCEPT ![t] = "open"]
                /\ irqs' = [irqs EXCEPT ![on[t]] = irqs[on[t]] + 1]
                /\ ier' = [ier EXCEPT ![on[t]] = TRUE]
             \/ pc' = [pc EXCEPT ![t] = "idle"] /\ irqs' = irqs /\ ier' = ier
      BY <1>20 DEF xr_startup, Goto
    <3>2. \A u \in Procs : on[u] = on[t] => u = t \/ pc[u] = "idle"
      BY <1>0, <1>20, <3>1 DEF PtExclusive
    <3>3. on[t] \in Ports /\ irqs[on[t]] = 0
      BY <1>0, <1>20, <3>1, <3>2 DEF PtIrqs, PtFileT
    <3>4. CASE pc' = [pc EXCEPT ![t] = "idle"] /\ irqs' = irqs /\ ier' = ier
      BY <1>0, <1>20, <3>1, <3>2, <3>4 DEF PtIrqs, PtFileT, PtFlagT
    <3>5. CASE /\ pc' = [pc EXCEPT ![t] = "open"]
               /\ irqs' = [irqs EXCEPT ![on[t]] = irqs[on[t]] + 1]
               /\ ier' = [ier EXCEPT ![on[t]] = TRUE]
      <4>1. ASSUME NEW q \in Ports
            PROVE  /\ irqs'[q] = IF \E u \in Procs : on'[u] = q /\ pc'[u] \in {"open", "freeirq"}
                                 THEN 1 ELSE 0
                   /\ ier'[q] <=> \E u \in Procs : on'[u] = q /\ pc'[u] = "open"
        <5>1. CASE q = on[t]
          BY <1>0, <1>20, <3>1, <3>3, <3>5, <5>1 DEF PtFileT, PtFlagT
        <5>2. CASE q # on[t]
          BY <1>0, <1>20, <3>1, <3>3, <3>5, <5>2 DEF PtIrqs, PtFileT, PtFlagT
        <5>3. QED
          BY <5>1, <5>2
      <4>2. QED
        BY <4>1 DEF PtIrqs
    <3>6. QED
      BY <3>1, <3>4, <3>5
  <2>8. PtTlet'
    BY <1>0, <1>20 DEF xr_startup, Goto, modVars, fileVars, asyncVars, PtTlet, PtFileT,
       PtFlagT
  <2>9. PtWork'
    BY <1>0, <1>20 DEF xr_startup, Goto, modVars, fileVars, asyncVars, PtWork, PtFileT,
       PtFlagT
  <2>10. PtRes'
    BY <1>0, <1>20 DEF xr_startup, Goto, modVars, fileVars, asyncVars, PtRes, PtModT, Ports,
       Kinds
  <2>11. QED
    BY <2>1, <2>2, <2>3, <2>4, <2>5, <2>6, <2>7, <2>8, <2>9, <2>10 DEF PtInv
<1>21. ASSUME NEW t \in Procs, EnterRead(t) PROVE PtInv'
  <2>1. PtModT' /\ PtFileT' /\ PtExclusive' /\ PtLive' /\ PtPoints' /\ PtIrqs' /\ PtTlet'
          /\ PtRes'
    <3>1. UNCHANGED <<mod, todo, pxr, res, oops, pc, on, live, ptty, irqs, work, opened, tlet,
            ier>>
      BY <1>21, Zenon DEF EnterRead, modVars, fileVars, asyncVars
    <3>2. QED
      BY <1>0, <3>1, PtFrame
  <2>2. PtFlagT'
    BY <1>0, <1>21 DEF EnterRead, Goto, modVars, fileVars, asyncVars, PtFlagT, Ports
  <2>3. PtWork'
    BY <1>0, <1>21 DEF EnterRead, Goto, modVars, fileVars, asyncVars, PtWork, PtFileT,
       PtFlagT
  <2>4. QED
    BY <2>1, <2>2, <2>3 DEF PtInv
<1>22. ASSUME NEW t \in Procs, LeaveRead(t) PROVE PtInv'
  <2>1. PtModT' /\ PtFileT' /\ PtExclusive' /\ PtLive' /\ PtPoints' /\ PtIrqs' /\ PtTlet'
          /\ PtRes'
    <3>1. UNCHANGED <<mod, todo, pxr, res, oops, pc, on, live, ptty, irqs, work, opened, tlet,
            ier>>
      BY <1>22, Zenon DEF LeaveRead, modVars, fileVars, asyncVars
    <3>2. QED
      BY <1>0, <3>1, PtFrame
  <2>2. PtFlagT'
    BY <1>0, <1>22 DEF LeaveRead, Goto, modVars, fileVars, asyncVars, PtFlagT, Ports
  <2>3. PtWork'
    BY <1>0, <1>22 DEF LeaveRead, Goto, modVars, fileVars, asyncVars, PtWork, PtFileT,
       PtFlagT
  <2>4. QED
    BY <2>1, <2>2, <2>3 DEF PtInv
<1>23. ASSUME NEW t \in Procs, WriteMute(t) PROVE PtInv'
  <2>1. PtFileT' /\ PtFlagT' /\ PtExclusive' /\ PtLive' /\ PtIrqs' /\ PtTlet' /\ PtWork'
    <3>1. UNCHANGED <<pc, on, live, ptty, irqs, work, opened, ier, tlet, reading, mod>>
      BY <1>23, Zenon DEF WriteMute, modVars, fileVars, asyncVars
    <3>2. QED
      BY <1>0, <3>1, PtFrame
  <2>2. PtModT'
    BY <1>0, <1>23 DEF WriteMute, Goto, modVars, fileVars, asyncVars, PtModT, Ports
  <2>3. PtPoints'
    BY <1>0, <1>23 DEF WriteMute, Goto, modVars, fileVars, asyncVars, PtPoints, PtFileT,
       PtFlagT, PtExclusive, Holding, Owning, Attached
  <2>4. PtRes'
    BY <1>0, <1>23 DEF WriteMute, Goto, modVars, fileVars, asyncVars, PtRes, PtModT, Ports,
       Kinds
  <2>5. QED
    BY <2>1, <2>2, <2>3, <2>4 DEF PtInv
<1>24. ASSUME NEW t \in Procs, rctty_release(t) PROVE PtInv'
  <2>1. PtModT' /\ PtRes'
    <3>1. UNCHANGED <<mod, todo, pxr, res, oops>>
      BY <1>24, Zenon DEF rctty_release, modVars, fileVars, asyncVars
    <3>2. QED
      BY <1>0, <3>1, PtFrame
  <2>2. PtFileT'
    BY <1>0, <1>24 DEF rctty_release, Goto, modVars, fileVars, asyncVars, PtFileT, Ports,
       ProcStates
  <2>3. PtFlagT'
    BY <1>0, <1>24 DEF rctty_release, Goto, modVars, fileVars, asyncVars, PtFlagT, Ports
  <2>4. PtExclusive'
    BY <1>0, <1>24 DEF rctty_release, Goto, modVars, fileVars, asyncVars, PtExclusive,
       PtFileT, PtFlagT, MayRun, Holding, ProcStates
  <2>5. PtLive'
    BY <1>0, <1>24 DEF rctty_release, Goto, modVars, fileVars, asyncVars, PtLive, PtFileT,
       Holding, Owning
  <2>6. PtPoints'
    <3>1. /\ pc[t] = "open" /\ pc' = [pc EXCEPT ![t] = "freeirq"]
          /\ UNCHANGED <<on, ptty, tlet, oops>>
      BY <1>24 DEF rctty_release, Goto
    <3>2. \A q \in Procs : pc'[q] \in Attached => pc[q] \in Attached
      BY <1>0, <3>1 DEF PtFileT, Attached, Owning, Holding
    <3>3. QED
      BY <1>0, <3>1, <3>2 DEF PtPoints
  <2>7. PtIrqs'
    <3>1. /\ pc[t] = "open" /\ pc' = [pc EXCEPT ![t] = "freeirq"]
          /\ ier' = [ier EXCEPT ![on[t]] = FALSE] /\ UNCHANGED <<on, irqs>>
      BY <1>24 DEF rctty_release, Goto
    <3>2. /\ \A u \in Procs \ {t} : pc'[u] = pc[u]
          /\ pc'[t] = "freeirq" /\ ~ier'[on[t]]
          /\ \A q \in Ports \ {on[t]} : ier'[q] = ier[q]
      BY <1>0, <1>24, <3>1 DEF PtFileT, PtFlagT
    <3>3. \A u \in Procs \ {t} : pc[u] # "idle" => on[u] # on[t]
      BY <1>0, <1>24, <3>1 DEF PtExclusive
    <3>4. ASSUME NEW q \in Ports
          PROVE  /\ irqs[q] = IF \E u \in Procs : on[u] = q /\ pc'[u] \in {"open", "freeirq"}
                              THEN 1 ELSE 0
                 /\ ier'[q] <=> \E u \in Procs : on[u] = q /\ pc'[u] = "open"
      <4>1. CASE q = on[t]
        BY <1>0, <1>24, <3>1, <3>2, <3>3, <4>1 DEF PtIrqs
      <4>2. CASE q # on[t]
        BY <1>0, <3>2, <4>2 DEF PtIrqs
      <4>3. QED
        BY <4>1, <4>2
    <3>5. QED
      BY <3>1, <3>4 DEF PtIrqs
  <2>8. PtTlet'
    BY <1>0, <1>24 DEF rctty_release, Goto, modVars, fileVars, asyncVars, PtTlet, PtFileT,
       PtFlagT
  <2>9. PtWork'
    BY <1>0, <1>24 DEF rctty_release, Goto, modVars, fileVars, asyncVars, PtWork, PtFileT,
       PtFlagT
  <2>10. QED
    BY <2>1, <2>2, <2>3, <2>4, <2>5, <2>6, <2>7, <2>8, <2>9 DEF PtInv
<1>25. ASSUME NEW t \in Procs, FreeIrq(t) PROVE PtInv'
  <2>1. PtModT' /\ PtFlagT' /\ PtRes'
    <3>1. UNCHANGED <<mod, todo, pxr, res, oops, opened, ier, tlet, reading>>
      BY <1>25, Zenon DEF FreeIrq, modVars, fileVars, asyncVars
    <3>2. QED
      BY <1>0, <3>1, PtFrame
  <2>2. PtFileT'
    <3>1. /\ pc[t] = "freeirq" /\ pc' = [pc EXCEPT ![t] = "kill"]
          /\ irqs' = [irqs EXCEPT ![on[t]] = irqs[on[t]] - 1]
          /\ UNCHANGED <<on, live, ptty, work>>
      BY <1>25 DEF FreeIrq, Goto
    <3>2. irqs[on[t]] = 1
      BY <1>0, <1>25, <3>1 DEF PtIrqs, PtFileT
    <3>3. irqs' \in [Ports -> Nat]
      BY <1>0, <3>1, <3>2 DEF PtFileT
    <3>4. QED
      BY <1>0, <3>1, <3>3 DEF PtFileT, ProcStates
  <2>3. PtExclusive'
    BY <1>0, <1>25 DEF FreeIrq, Goto, modVars, fileVars, asyncVars, PtExclusive, PtFileT,
       PtFlagT, MayRun, Holding, ProcStates
  <2>4. PtLive'
    BY <1>0, <1>25 DEF FreeIrq, Goto, modVars, fileVars, asyncVars, PtLive, PtFileT,
       Holding, Owning
  <2>5. PtPoints'
    BY <1>0, <1>25 DEF FreeIrq, Goto, modVars, fileVars, asyncVars, PtPoints, PtFileT,
       PtFlagT, PtExclusive, Holding, Owning, Attached
  <2>6. PtIrqs'
    BY <1>0, <1>25, SMTT(20) DEF FreeIrq, Goto, modVars, fileVars, asyncVars, PtIrqs, PtFileT,
       PtFlagT, PtExclusive
  <2>7. PtTlet'
    BY <1>0, <1>25 DEF FreeIrq, Goto, modVars, fileVars, asyncVars, PtTlet, PtFileT, PtFlagT
  <2>8. PtWork'
    BY <1>0, <1>25 DEF FreeIrq, Goto, modVars, fileVars, asyncVars, PtWork, PtFileT, PtFlagT
  <2>9. QED
    BY <2>1, <2>2, <2>3, <2>4, <2>5, <2>6, <2>7, <2>8 DEF PtInv
<1>26. ASSUME NEW t \in Procs, TaskletKill(t) PROVE PtInv'
  <2>1. PtModT' /\ PtFlagT' /\ PtRes'
    <3>1. UNCHANGED <<mod, todo, pxr, res, oops, opened, ier, tlet, reading>>
      BY <1>26, Zenon DEF TaskletKill, modVars, fileVars, asyncVars
    <3>2. QED
      BY <1>0, <3>1, PtFrame
  <2>2. PtFileT'
    BY <1>0, <1>26 DEF TaskletKill, Goto, modVars, fileVars, asyncVars, PtFileT, Ports,
       ProcStates
  <2>3. PtExclusive'
    BY <1>0, <1>26 DEF TaskletKill, Goto, modVars, fileVars, asyncVars, PtExclusive,
       PtFileT, PtFlagT, MayRun, Holding, ProcStates
  <2>4. PtLive'
    BY <1>0, <1>26 DEF TaskletKill, Goto, modVars, fileVars, asyncVars, PtLive, PtFileT,
       Holding, Owning
  <2>5. PtPoints'
    BY <1>0, <1>26 DEF TaskletKill, Goto, modVars, fileVars, asyncVars, PtPoints, PtFileT,
       PtFlagT, PtExclusive, Holding, Owning, Attached
  <2>6. PtIrqs'
    BY <1>0, <1>26 DEF TaskletKill, Goto, modVars, fileVars, asyncVars, PtIrqs, PtFileT,
       PtFlagT, PtExclusive
  <2>7. PtTlet'
    BY <1>0, <1>26 DEF TaskletKill, Goto, modVars, fileVars, asyncVars, PtTlet, PtFileT,
       PtFlagT
  <2>8. PtWork'
    BY <1>0, <1>26 DEF TaskletKill, Goto, modVars, fileVars, asyncVars, PtWork, PtFileT,
       PtFlagT
  <2>9. QED
    BY <2>1, <2>2, <2>3, <2>4, <2>5, <2>6, <2>7, <2>8 DEF PtInv
<1>27. ASSUME NEW t \in Procs, CancelWork(t) PROVE PtInv'
  <2>1. PtModT' /\ PtFlagT' /\ PtRes'
    <3>1. UNCHANGED <<mod, todo, pxr, res, oops, opened, ier, tlet, reading>>
      BY <1>27, Zenon DEF CancelWork, modVars, fileVars, asyncVars
    <3>2. QED
      BY <1>0, <3>1, PtFrame
  <2>2. PtFileT'
    BY <1>0, <1>27 DEF CancelWork, Goto, modVars, fileVars, asyncVars, PtFileT, Ports,
       ProcStates
  <2>3. PtExclusive'
    BY <1>0, <1>27 DEF CancelWork, Goto, modVars, fileVars, asyncVars, PtExclusive, PtFileT,
       PtFlagT, MayRun, Holding, ProcStates
  <2>4. PtLive'
    BY <1>0, <1>27 DEF CancelWork, Goto, modVars, fileVars, asyncVars, PtLive, PtFileT,
       Holding, Owning
  <2>5. PtPoints'
    BY <1>0, <1>27 DEF CancelWork, Goto, modVars, fileVars, asyncVars, PtPoints, PtFileT,
       PtFlagT, PtExclusive, Holding, Owning, Attached
  <2>6. PtIrqs'
    BY <1>0, <1>27 DEF CancelWork, Goto, modVars, fileVars, asyncVars, PtIrqs, PtFileT,
       PtFlagT, PtExclusive
  <2>7. PtTlet'
    BY <1>0, <1>27 DEF CancelWork, Goto, modVars, fileVars, asyncVars, PtTlet, PtFileT,
       PtFlagT
  <2>8. PtWork'
    BY <1>0, <1>27 DEF CancelWork, Goto, modVars, fileVars, asyncVars, PtWork, PtFileT,
       PtFlagT
  <2>9. QED
    BY <2>1, <2>2, <2>3, <2>4, <2>5, <2>6, <2>7, <2>8 DEF PtInv
<1>28. ASSUME NEW t \in Procs, FlushWork(t) PROVE PtInv'
  <2>1. PtModT' /\ PtFlagT' /\ PtRes'
    <3>1. UNCHANGED <<mod, todo, pxr, res, oops, opened, ier, tlet, reading>>
      BY <1>28, Zenon DEF FlushWork, modVars, fileVars, asyncVars
    <3>2. QED
      BY <1>0, <3>1, PtFrame
  <2>2. PtFileT'
    BY <1>0, <1>28 DEF FlushWork, Goto, modVars, fileVars, asyncVars, PtFileT, Ports,
       ProcStates
  <2>3. PtExclusive'
    BY <1>0, <1>28 DEF FlushWork, Goto, modVars, fileVars, asyncVars, PtExclusive, PtFileT,
       PtFlagT, MayRun, Holding, ProcStates
  <2>4. PtLive'
    BY <1>0, <1>28 DEF FlushWork, Goto, modVars, fileVars, asyncVars, PtLive, PtFileT,
       Holding, Owning
  <2>5. PtPoints'
    BY <1>0, <1>28 DEF FlushWork, Goto, modVars, fileVars, asyncVars, PtPoints, PtFileT,
       PtFlagT, PtExclusive, Holding, Owning, Attached
  <2>6. PtIrqs'
    BY <1>0, <1>28 DEF FlushWork, Goto, modVars, fileVars, asyncVars, PtIrqs, PtFileT,
       PtFlagT, PtExclusive
  <2>7. PtTlet'
    BY <1>0, <1>28 DEF FlushWork, Goto, modVars, fileVars, asyncVars, PtTlet, PtFileT,
       PtFlagT
  <2>8. PtWork'
    BY <1>0, <1>28 DEF FlushWork, Goto, modVars, fileVars, asyncVars, PtWork, PtFileT,
       PtFlagT
  <2>9. QED
    BY <2>1, <2>2, <2>3, <2>4, <2>5, <2>6, <2>7, <2>8 DEF PtInv
<1>29. ASSUME NEW t \in Procs, FreeTty(t) PROVE PtInv'
  <2>1. PtModT' /\ PtRes'
    <3>1. UNCHANGED <<mod, todo, pxr, res, oops>>
      BY <1>29, Zenon DEF FreeTty, modVars, fileVars, asyncVars
    <3>2. QED
      BY <1>0, <3>1, PtFrame
  <2>2. PtFileT'
    BY <1>0, <1>29 DEF FreeTty, Goto, modVars, fileVars, asyncVars, PtFileT, Ports,
       ProcStates
  <2>3. PtFlagT'
    BY <1>0, <1>29 DEF FreeTty, Goto, modVars, fileVars, asyncVars, PtFlagT, Ports
  <2>4. PtExclusive'
    BY <1>0, <1>29 DEF FreeTty, Goto, modVars, fileVars, asyncVars, PtExclusive, PtFileT,
       PtFlagT, MayRun, Holding, ProcStates
  <2>5. PtLive'
    BY <1>0, <1>29 DEF FreeTty, Goto, modVars, fileVars, asyncVars, PtLive, PtFileT,
       Holding, Owning
  <2>6. PtPoints'
    BY <1>0, <1>29 DEF FreeTty, Goto, modVars, fileVars, asyncVars, PtPoints, PtFileT,
       PtFlagT, PtExclusive, Holding, Owning, Attached
  <2>7. PtIrqs'
    BY <1>0, <1>29 DEF FreeTty, Goto, modVars, fileVars, asyncVars, PtIrqs, PtFileT,
       PtFlagT, PtExclusive
  <2>8. PtTlet'
    BY <1>0, <1>29 DEF FreeTty, Goto, modVars, fileVars, asyncVars, PtTlet, PtFileT, PtFlagT
  <2>9. PtWork'
    BY <1>0, <1>29 DEF FreeTty, Goto, modVars, fileVars, asyncVars, PtWork, PtFileT, PtFlagT
  <2>10. QED
    BY <2>1, <2>2, <2>3, <2>4, <2>5, <2>6, <2>7, <2>8, <2>9 DEF PtInv
<1>30. CASE UNCHANGED vars
  <2>1. PtModT' /\ PtFileT' /\ PtFlagT' /\ PtExclusive' /\ PtLive' /\ PtPoints' /\ PtIrqs'
          /\ PtTlet' /\ PtWork' /\ PtRes'
    <3>1. UNCHANGED <<mod, todo, pxr, res, oops, pc, on, live, ptty, irqs, work, opened, ier,
            tlet, reading>>
      BY <1>30, Zenon DEF vars, modVars, fileVars, asyncVars
    <3>2. QED
      BY <1>0, <3>1, PtFrame
  <2>2. QED
    BY <2>1 DEF PtInv
<1>31. CASE RemoveFiles
  <2>1. PtFileT' /\ PtFlagT' /\ PtLive' /\ PtPoints' /\ PtIrqs' /\ PtTlet' /\ PtWork'
    <3>1. UNCHANGED <<pc, on, live, ptty, irqs, work, opened, ier, tlet, reading, oops>>
      BY <1>31, Zenon DEF RemoveFiles, modVars, fileVars, asyncVars
    <3>2. QED
      BY <1>0, <3>1, PtFrame
  <2>2. PtModT' /\ PtRes'
    BY <1>0, <1>31 DEF RemoveFiles, PtModT, PtRes
  <2>3. PtExclusive'
    BY <1>0, <1>31 DEF RemoveFiles, fileVars, PtExclusive
  <2>4. QED
    BY <2>1, <2>2, <2>3 DEF PtInv
<1>32. QED
  BY <1>1, <1>2, <1>3, <1>4, <1>5, <1>6, <1>7, <1>8, <1>9, <1>10, <1>11,
     <1>12, <1>13, <1>14, <1>15, <1>16, <1>17, <1>18, <1>19, <1>20, <1>21,
     <1>22, <1>23, <1>24, <1>25, <1>26, <1>27, <1>28, <1>29, <1>30, <1>31 DEF Next,
     ModuleStep, AsyncStep, ProcStep

\* No process and no visitor of a port touches what the module owns; its own
\* steps keep the account.
LEMMA PtOwnStep ==
  ASSUME PtInv, PtOwn, [Next]_vars
  PROVE  PtOwn'
<1>0. PtModT /\ PtRes
  BY DEF PtInv
<1>1. CASE UNCHANGED <<mod, own, res, todo>>
  BY <1>1 DEF PtOwn
<1>2. CASE xr_probe_duart
  <2>1. /\ own = {} /\ own' = {} /\ res = {} /\ mod' \in {"duart", "failed"}
        /\ \/ mod' = "duart" /\ res' = DuartPorts \X {"uap", "map"}
           \/ res' = {}
    BY <1>2 DEF xr_probe_duart, PtOwn
  <2>2. \A p \in UccPorts, k \in Kinds : <<p, k>> \notin res'
    BY <2>1, PortsAssumption
  <2>3. QED
    BY <2>1, <2>2 DEF PtOwn, Own
<1>3. CASE xr_probe_ucc
  BY <1>3 DEF xr_probe_ucc, PtOwn
<1>4. CASE cdev_add
  <2>1. /\ \/ mod' = "added" /\ "cdev" \in own'
           \/ mod' = "leaving" /\ own' \subseteq {"region"}
        /\ own' \subseteq {"region", "cdev"}
    BY <1>4 DEF cdev_add, xr_unprobe_duart
  <2>2. QED
    BY <2>1 DEF PtOwn, Own
<1>5. CASE rc_tty_init
  BY <1>5 DEF rc_tty_init, PtOwn, Own
<1>6. CASE rc_tty_exit
  BY <1>6 DEF rc_tty_exit, xr_unprobe_duart, PtOwn
<1>7. CASE xr_unprobe_ucc
  BY <1>7 DEF xr_unprobe_ucc, PtOwn, Own
<1>8. CASE RemoveFiles
  BY <1>8 DEF RemoveFiles, PtOwn, Own
<1>9. ASSUME NEW p \in UccPorts, DeviceTreeBad(p) PROVE PtOwn'
  BY <1>9 DEF DeviceTreeBad, PtOwn
<1>10. ASSUME NEW p \in UccPorts, ucc_uart_probe(p) PROVE PtOwn'
  <2>1. mod = "duart" /\ mod' = mod /\ own' = own /\ todo' = todo \ {p}
    BY <1>10 DEF ucc_uart_probe
  <2>2. \A q \in UccPorts, k \in Kinds : q # p /\ <<q, k>> \notin res => <<q, k>> \notin res'
    BY <1>10, PtProbed
  <2>3. QED
    BY <2>1, <2>2 DEF PtOwn
<1>11. ASSUME NEW p \in UccPorts, StopEngine(p) PROVE PtOwn'
  BY <1>11 DEF StopEngine, PtOwn
<1>12. ASSUME NEW p \in UccPorts, qe_uart_release_port(p) PROVE PtOwn'
  BY <1>12 DEF qe_uart_release_port, PtOwn
<1>13. ASSUME NEW p \in Ports, uart_read_proc(p) PROVE PtOwn'
  BY <1>1, <1>13 DEF uart_read_proc, modVars
<1>14. CASE AsyncStep \/ \E t \in Procs : ProcStep(t)
  BY <1>1, <1>14, Zenon DEF AsyncStep, ProcStep, Interrupt, uart_tasklet_action, WorkStarts,
     WorkEnds, rctty_open, SetOpened, init_dev, Attach, xr_startup, EnterRead, LeaveRead,
     WriteMute, rctty_release, FreeIrq, TaskletKill, CancelWork, FlushWork, FreeTty, modVars
<1>15. CASE UNCHANGED vars
  BY <1>1, <1>15 DEF vars, modVars
<1>16. QED
  BY <1>2, <1>3, <1>4, <1>5, <1>6, <1>7, <1>8, <1>9, <1>10, <1>11, <1>12, <1>13, <1>14,
     <1>15 DEF Next, ModuleStep

\* The invariant holds before the module is loaded.
LEMMA PtInit == Init => PtInv /\ PtOwn
<1> SUFFICES ASSUME Init PROVE PtInv /\ PtOwn
  OBVIOUS
<1>1. (CHOOSE p \in Ports : TRUE) \in Ports
  BY PortsAssumption DEF Ports
<1>2. on \in [Procs -> Ports] /\ live = {} /\ res = {} /\ oops = {} /\ mod = "out"
  BY <1>1 DEF Init
<1>3. /\ \A t \in Procs : pc[t] = "idle" /\ work[t] = "idle" /\ ~reading[t]
      /\ \A p \in Ports : irqs[p] = 0 /\ ~ier[p] /\ ~tlet[p].sched
  BY DEF Init
<1>4. PtModT
  BY <1>2 DEF Init, PtModT, Ports
<1>5. PtFileT
  BY <1>2 DEF Init, PtFileT, ProcStates
<1>6. PtFlagT
  <2>1. /\ opened \in [Ports -> BOOLEAN] /\ ier \in [Ports -> BOOLEAN]
        /\ reading \in [Procs -> BOOLEAN]
    BY Zenon DEF Init
  <2>2. tlet \in [Ports -> [sched : BOOLEAN, tty : Procs \cup {None}]]
    BY DEF Init
  <2>3. QED
    BY <2>1, <2>2, Zenon DEF PtFlagT
<1>7. PtExclusive /\ PtLive /\ PtPoints
  BY <1>2, <1>3 DEF PtExclusive, PtLive, PtPoints, Holding, Owning, Attached
<1>8. PtIrqs /\ PtTlet /\ PtWork
  BY <1>3 DEF PtIrqs, PtTlet, PtWork
<1>9. PtRes
  BY <1>2 DEF PtRes
<1>10. PtOwn
  BY <1>2 DEF Init, PtOwn
<1>11. QED
  BY <1>4, <1>5, <1>6, <1>7, <1>8, <1>9, <1>10 DEF PtInv

\* The invariant holds in every state.
LEMMA PtAlways == ~PREEMPT /\ ~EARLY_OPEN /\ Spec => [](PtInv /\ PtOwn)
<1> SUFFICES ASSUME ~PREEMPT, ~EARLY_OPEN PROVE Spec => [](PtInv /\ PtOwn)
  OBVIOUS
<1>1. PtInv /\ PtOwn /\ [Next]_vars => PtInv' /\ PtOwn'
  BY PtStepInv, PtOwnStep
<1>2. QED
  BY PtInit, <1>1, PTL DEF Spec

\* For any number of ports and processes: no interrupt, tasklet or delayed
\* work meets a rctty_struct that is freed, nothing is freed twice or while
\* the engine still writes to it, whichever of the probes and opens failed
\* (rctty_open(), rctty_release(), ucc_uart_probe(), rc_tty_exit()); only a
\* proc file can lead to a port that is freed, while rc_tty_exit() runs.
THEOREM PortsNeverUsedAfterFree == ~PREEMPT /\ ~EARLY_OPEN /\ Spec => []NoUseAfterFree
<1>1. PtInv /\ PtOwn => NoUseAfterFree
  <2> SUFFICES ASSUME PtInv, PtOwn PROVE NoUseAfterFree
    OBVIOUS
  <2>1. PtModT /\ PtFileT /\ PtFlagT /\ PtRes
    BY DEF PtInv
  <2>2. oops \subseteq {"null", "uaf", "double_free", "stale_proc"} /\ own \subseteq Own
    BY <2>1 DEF PtModT, PtOwn
  <2>3. TypeOK
    BY <2>1, <2>2, Zenon DEF TypeOK, PtModT, PtFileT, PtFlagT
  <2>4. oops \cap {"uaf", "double_free"} = {}
    BY <2>1 DEF PtModT
  <2>5. QED
    BY <2>1, <2>3, <2>4 DEF NoUseAfterFree, PtRes
<1>2. QED
  BY PtAlways, <1>1, PTL

\* For any number of ports and processes: a port is in the hands of one
\* process at a time, a closed port has no handler, tasklet, work or
\* rctty_struct left, and a module that is unloaded or failed to load keeps
\* nothing but the device numbers, the mapping itmp and, after a failed
\* xr_probe_ucc(), the DUART's ports (rctty_open(), rctty_release(),
\* rc_tty_init(), rc_tty_exit()).
THEOREM PortsAlwaysOwned == ~PREEMPT /\ ~EARLY_OPEN /\ Spec => []PortsOwned
<1>1. PtInv /\ PtOwn => PortsOwned
  <2> SUFFICES ASSUME PtInv, PtOwn PROVE PortsOwned
    OBVIOUS
  <2>0. PtModT /\ PtFileT /\ PtExclusive /\ PtLive /\ PtIrqs /\ PtTlet /\ PtWork /\ PtRes
    BY DEF PtInv
  <2>1. ASSUME NEW p \in Ports
        PROVE  Cardinality({t \in Procs : on[t] = p /\ pc[t] \notin {"idle", "set"}}) <= 1
    <3> DEFINE S == {t \in Procs : on[t] = p /\ pc[t] \notin {"idle", "set"}}
    <3>1. CASE S = {}
      <4>1. Cardinality(S) = 0
        BY <3>1, FS_EmptySet
      <4>2. QED
        BY <4>1
    <3>2. CASE S # {}
      <4>1. PICK t \in S : TRUE
        BY <3>2
      <4>2. S = {t}
        BY <2>0, <4>1 DEF PtExclusive
      <4>3. Cardinality(S) = 1
        BY <4>2, FS_Singleton
      <4>4. QED
        BY <4>3
    <3>3. QED
      BY <3>1, <3>2
  <2>2. ASSUME NEW p \in Ports, ~opened[p], \A t \in Procs : on[t] = p => pc[t] = "idle"
        PROVE  /\ irqs[p] = 0 /\ ~ier[p] /\ ~tlet[p].sched
               /\ \A t \in Procs : on[t] = p => t \notin live /\ work[t] = "idle"
    BY <2>0, <2>2 DEF PtLive, PtIrqs, PtTlet, PtWork, Owning, Holding
  <2>3. CleanUnload
    <3>1. mod = "unloaded" /\ oops = {} => res = {} /\ own \subseteq {"region", "itmp"}
      BY <2>0 DEF PtRes, PtOwn
    <3>2. ASSUME mod = "failed" PROVE res \subseteq DuartPorts \X {"uap", "map"} /\ own = {}
      <4>1. /\ \A p \in UccPorts, k \in Kinds : <<p, k>> \notin res
            /\ \A p \in DuartPorts, k \in Kinds : <<p, k>> \in res => k \in {"uap", "map"}
            /\ res \subseteq (UccPorts \cup DuartPorts) \X Kinds /\ own = {}
        BY <2>0, <3>2 DEF PtRes, PtOwn, PtModT, Ports
      <4>2. QED
        BY ONLY <4>1
    <3>3. QED
      BY <3>1, <3>2 DEF CleanUnload
  <2>4. QED
    BY <2>1, <2>2, <2>3, Zenon DEF PortsOwned, OneOpener, ClosedPortQuiet
<1>2. QED
  BY PtAlways, <1>1, PTL

-----------------------------------------------------------------------------
(* The line settings                                                       *)

\* The parameters in force: asked for by a process, or those of the start.
LnAll == LnParams \cup {LnDefault}

\* The frame the DUART sends when LCR holds the bits l.
LnFrameOf(l) ==
  [data |-> 5 + (IF "WLS0" \in l THEN 1 ELSE 0) + (IF "WLS1" \in l THEN 2 ELSE 0),
   stop |-> IF "STB" \in l THEN 2 ELSE 1,
   parity |-> IF "PEN" \notin l THEN "none"
              ELSE IF "SP" \in l THEN (IF "EPS" \in l THEN "space" ELSE "mark")
              ELSE IF "EPS" \in l THEN "even" ELSE "odd"]

\* Without preemption one process at a time is inside an ioctl on the line.
LnAlone == \A u, v \in LnUsers : lnpc[u] # "idle" /\ lnpc[v] # "idle" => u = v

\* The DUART sends what was asked for last.
LnDuartOk ==
  /\ "DLAB" \notin lcr
  /\ LnFrameOf(lcr) = LnWanted(asked.duart)
  /\ hit = {} /\ Quot(asked.duart) < 65536 => dll + 256 * dlm = Quot(asked.duart)

\* How far the registers are at each stage of xr_set_termios_duart(), where
\* the transmit interrupt has not written after it, and
\* that the LCR which xr_break_ctl_duart() has read is not stale.
LnStages ==
  \A u \in LnUsers :
    /\ lnpc[u] \in {"dlab", "dll", "dlm"} => lcr = {"DLAB"}
    /\ lnpc[u] \in {"dll", "dlm"} /\ "dll" \notin hit => dll = Quot(lnarg[u]) % 256
    /\ lnpc[u] = "dlm" /\ "dlm" \notin hit => dlm = (Quot(lnarg[u]) \div 256) % 256
    /\ lnpc[u] = "break" => lcrRead = lcr

\* Unless a process is between its register writes, the DUART is as asked.
LnDuart == (\A u \in LnUsers : lnpc[u] \in {"idle", "break"}) => LnDuartOk

\* The registers of the UCC always are: they are set in one piece.
LnUcc ==
  /\ asked \in [duart : LnAll, ucc : LnAll]
  /\ upsmr = UpsmrOf(asked.ucc) /\ brg = asked.ucc.baud

\* The inductive invariant of the line settings.
LnInv == LnTypeOK /\ LnAlone /\ LnStages /\ LnDuart /\ LnUcc

\* The parameters of the start are parameters like the others.
LEMMA LnParamType ==
  /\ LnAll \subseteq [baud : Nat \ {0}, datalen : Nat, check : Nat, stopbit : Nat]
  /\ LnParams \subseteq LnAll
  /\ LnDefault \in LnAll
<1>1. LnDefault \in [baud : Nat \ {0}, datalen : Nat, check : Nat, stopbit : Nat]
  BY DEF LnDefault
<1>2. QED
  BY <1>1, LnAssumption DEF LnAll

\* The divisor of a parameter is a number: no baud rate is zero.
LEMMA LnQuotNat == \A a \in LnAll : Quot(a) \in Nat
<1> SUFFICES ASSUME NEW a \in LnAll PROVE Quot(a) \in Nat
  OBVIOUS
<1>1. a.baud \in Nat \ {0}
  BY LnParamType
<1>2. LN_CLK \div 16 \in Nat
  BY LnAssumption
<1>3. \A n \in Nat, d \in Nat \ {0} : n \div d \in Nat
  OBVIOUS
<1>4. QED
  BY <1>1, <1>2, <1>3 DEF Quot

\* A divisor of at most 16 bits is the two bytes of the latch.
LEMMA LnHalves ==
  \A q \in Nat :
    /\ q % 256 \in 0..255 /\ (q \div 256) % 256 \in 0..255
    /\ q < 65536 => (q % 256) + 256 * ((q \div 256) % 256) = q
  OBVIOUS

\* The bits xr_set_termios_duart() computes make the DUART send the frame.
LEMMA LnDuartFrame ==
  ASSUME NEW a \in LnAll, NEW l, l = LcrOf(a)
  PROVE  LnFrameOf(l) = LnWanted(a) /\ "DLAB" \notin l
<1>0. a.datalen \in Nat /\ a.check \in Nat /\ a.stopbit \in Nat
  BY LnParamType
<1>1. /\ "WLS0" \in LcrLength(a) <=> a.datalen \notin {5, 7}
      /\ "WLS1" \in LcrLength(a) <=> a.datalen \notin {5, 6}
      /\ \A x \in {"STB", "PEN", "SP", "EPS", "DLAB"} : x \notin LcrLength(a)
  BY <1>0 DEF LcrLength
<1>2. /\ "PEN" \in LcrCheck(a) <=> a.check \in 1..4
      /\ "EPS" \in LcrCheck(a) <=> a.check \in {2, 4}
      /\ "SP" \in LcrCheck(a) <=> a.check \in {3, 4}
      /\ \A x \in {"STB", "WLS0", "WLS1", "DLAB"} : x \notin LcrCheck(a)
  BY <1>0 DEF LcrCheck
<1>3. /\ "WLS0" \in l <=> a.datalen \notin {5, 7}
      /\ "WLS1" \in l <=> a.datalen \notin {5, 6}
      /\ "PEN" \in l <=> a.check \in 1..4
      /\ "EPS" \in l <=> a.check \in {2, 4}
      /\ "SP" \in l <=> a.check \in {3, 4}
      /\ "STB" \in l <=> a.stopbit = 2
      /\ "DLAB" \notin l
  BY <1>1, <1>2 DEF LcrOf
<1>4. LnFrameOf(l).data = LnWanted(a).data
  BY <1>0, <1>3 DEF LnFrameOf, LnWanted
<1>5. LnFrameOf(l).stop = LnWanted(a).stop
  BY <1>0, <1>3 DEF LnFrameOf, LnWanted
<1>6. LnFrameOf(l).parity = LnWanted(a).parity
  BY <1>0, <1>3 DEF LnFrameOf, LnWanted
<1>7. QED
  BY <1>3, <1>4, <1>5, <1>6 DEF LnFrameOf, LnWanted

\* The mode register xr_set_termios_ucc() computes makes the UCC send it.
LEMMA LnUccFrame ==
  ASSUME NEW a \in LnAll, upsmr = UpsmrOf(a)
  PROVE  UccFrame = LnWanted(a)
<1>0. a.datalen \in Nat /\ a.check \in Nat /\ a.stopbit \in Nat
  BY LnParamType
<1>1. UccFrame.data = LnWanted(a).data
  BY <1>0 DEF UccFrame, LnWanted, UpsmrOf
<1>2. UccFrame.stop = LnWanted(a).stop
  BY <1>0 DEF UccFrame, LnWanted, UpsmrOf
<1>3. UccFrame.parity = LnWanted(a).parity
  <2>1. /\ upsmr.pen <=> a.check \in 1..4
        /\ upsmr.pm = CASE a.check = 2 -> "even" [] a.check = 3 -> "high"
                        [] a.check = 4 -> "low" [] OTHER -> "odd"
    BY DEF UpsmrOf
  <2>2. a.check \in 1..4 <=> a.check \in {1, 2, 3, 4}
    BY <1>0
  <2>3. CASE a.check \notin {1, 2, 3, 4}
    BY <2>1, <2>2, <2>3 DEF UccFrame, LnWanted
  <2>4. CASE a.check = 1
    BY <2>1, <2>2, <2>4 DEF UccFrame, LnWanted
  <2>5. CASE a.check = 2
    BY <2>1, <2>2, <2>5 DEF UccFrame, LnWanted
  <2>6. CASE a.check = 3
    BY <2>1, <2>2, <2>6 DEF UccFrame, LnWanted
  <2>7. CASE a.check = 4
    BY <2>1, <2>2, <2>7 DEF UccFrame, LnWanted
  <2>8. QED
    BY <2>3, <2>4, <2>5, <2>6, <2>7
<1>4. QED
  BY <1>1, <1>2, <1>3 DEF UccFrame, LnWanted

\* A break changes neither the frame nor the latch.
LEMMA LnBreakFrame ==
  ASSUME NEW l, NEW m, m = l \cup {"SBC"} \/ m = l \ {"SBC"}
  PROVE  LnFrameOf(m) = LnFrameOf(l) /\ ("DLAB" \in m <=> "DLAB" \in l)
  BY DEF LnFrameOf

\* The invariant holds after the startup of the ports.
LEMMA LnInitInv == LnInit => LnInv
<1> SUFFICES ASSUME LnInit PROVE LnInv
  OBVIOUS
<1>1. (CHOOSE a \in LnParams : TRUE) \in LnParams
  BY LnAssumption
<1>2. lnarg \in [LnUsers -> LnParams]
  BY <1>1 DEF LnInit
<1>3. Quot(LnDefault) \in Nat
  BY LnQuotNat, LnParamType
<1>3a. dll = Quot(LnDefault) % 256 /\ dlm = (Quot(LnDefault) \div 256) % 256
  BY DEF LnInit
<1>3b. /\ Quot(LnDefault) % 256 \in 0..255 /\ (Quot(LnDefault) \div 256) % 256 \in 0..255
       /\ Quot(LnDefault) < 65536 => (Quot(LnDefault) % 256)
            + 256 * ((Quot(LnDefault) \div 256) % 256) = Quot(LnDefault)
  BY <1>3, LnHalves
<1>4. dll \in 0..255 /\ dlm \in 0..255
  BY <1>3a, <1>3b
<1>5. lcr \subseteq {"WLS0", "WLS1", "STB", "PEN", "EPS", "SP", "SBC", "DLAB"}
  BY DEF LnInit, LcrOf, LcrLength, LcrCheck
<1>6. LnTypeOK
  BY <1>2, <1>4, <1>5 DEF LnInit, LnTypeOK
<1>7. LnDuartOk
  <2>1. LnFrameOf(lcr) = LnWanted(LnDefault) /\ "DLAB" \notin lcr
    BY LnDuartFrame, LnParamType DEF LnInit
  <2>2. asked.duart = LnDefault
    BY DEF LnInit
  <2>3. Quot(LnDefault) < 65536 => dll + 256 * dlm = Quot(LnDefault)
    BY <1>3a, <1>3b
  <2>4. QED
    BY <2>1, <2>2, <2>3 DEF LnDuartOk
<1>8. LnUcc
  BY LnParamType DEF LnInit, LnUcc
<1>9. LnAlone /\ LnStages /\ LnDuart
  BY <1>7 DEF LnInit, LnAlone, LnStages, LnDuart
<1>10. QED
  BY <1>6, <1>8, <1>9 DEF LnInv

\* Without preemption between two register writes, every ioctl on the line
\* and the interrupts in between preserve the invariant.
LEMMA LnStepInv ==
  ASSUME ~LnPREEMPT, LnInv, [LnNext]_lnVars
  PROVE  LnInv'
<1>0. LnTypeOK /\ LnAlone /\ LnStages /\ LnDuart /\ LnUcc
  BY DEF LnInv
<1>a. \A u \in LnUsers : lnarg[u] \in LnAll /\ Quot(lnarg[u]) \in Nat
  BY <1>0, LnQuotNat, LnParamType DEF LnTypeOK
<1>b. ASSUME NEW u \in LnUsers, LnMayRun(u)
      PROVE  \A v \in LnUsers \ {u} : lnpc[v] = "idle"
  BY <1>b DEF LnMayRun
<1>1. CASE UNCHANGED lnVars
  <2>1. UNCHANGED <<lcr, dll, dlm, upsmr, brg, lnpc, lnarg, lcrRead, asked, hit>>
    BY <1>1 DEF lnVars
  <2>2. LnTypeOK' /\ LnAlone' /\ LnStages'
    BY <1>0, <2>1 DEF LnTypeOK, LnAlone, LnStages
  <2>3. LnDuart' /\ LnUcc'
    BY <1>0, <2>1 DEF LnDuart, LnDuartOk, LnUcc
  <2>4. QED
    BY <2>2, <2>3 DEF LnInv
<1>2. CASE LnRxInterrupt
  <2>1. UNCHANGED <<lcr, dll, dlm, upsmr, brg, lnpc, lnarg, lcrRead, asked, hit>>
    BY <1>2 DEF LnRxInterrupt
  <2>2. LnTypeOK' /\ LnAlone' /\ LnStages'
    BY <1>0, <2>1 DEF LnTypeOK, LnAlone, LnStages
  <2>3. LnDuart' /\ LnUcc'
    BY <1>0, <2>1 DEF LnDuart, LnDuartOk, LnUcc
  <2>4. QED
    BY <2>2, <2>3 DEF LnInv
<1>3. ASSUME NEW u \in LnUsers, NEW a \in LnParams, xr_set_termios_duart(u, a)
      PROVE  LnInv'
  <2>1. /\ lcr' = {"DLAB"} /\ lnarg' = [lnarg EXCEPT ![u] = a]
        /\ lnpc' = [lnpc EXCEPT ![u] = "dlab"]
        /\ UNCHANGED <<dll, dlm, upsmr, brg, asked, lcrRead, hit>>
    BY <1>3 DEF xr_set_termios_duart, LnGoto
  <2>2. \A v \in LnUsers \ {u} : lnpc[v] = "idle"
    BY <1>b, <1>3 DEF xr_set_termios_duart
  <2>3. LnTypeOK' /\ LnAlone'
    BY <1>0, <2>1, <2>2 DEF LnTypeOK, LnAlone
  <2>4. LnStages' /\ LnDuart'
    BY <1>0, <2>1, <2>2 DEF LnTypeOK, LnStages, LnDuart
  <2>5. LnUcc'
    BY <1>0, <2>1 DEF LnUcc
  <2>6. QED
    BY <2>3, <2>4, <2>5 DEF LnInv
<1>4. ASSUME NEW u \in LnUsers, NEW a \in LnParams, xr_set_termios_ucc(u, a)
      PROVE  LnInv'
  <2>1. /\ upsmr' = UpsmrOf(a) /\ brg' = a.baud
        /\ asked' = [asked EXCEPT !.ucc = a]
        /\ UNCHANGED <<lcr, dll, dlm, lnpc, lnarg, lcrRead, hit>>
    BY <1>4 DEF xr_set_termios_ucc
  <2>2. asked'.duart = asked.duart /\ asked'.ucc = a
        /\ asked' \in [duart : LnAll, ucc : LnAll]
    BY <1>0, <2>1, LnParamType DEF LnUcc
  <2>3. LnTypeOK' /\ LnAlone' /\ LnStages'
    BY <1>0, <2>1 DEF LnTypeOK, LnAlone, LnStages
  <2>4. LnDuart'
    BY <1>0, <2>1, <2>2 DEF LnDuart, LnDuartOk
  <2>5. LnUcc'
    BY <2>1, <2>2 DEF LnUcc
  <2>6. QED
    BY <2>3, <2>4, <2>5 DEF LnInv
<1>5. ASSUME NEW u \in LnUsers, WriteDll(u) PROVE LnInv'
  <2>1. /\ lnpc[u] = "dlab" /\ lnpc' = [lnpc EXCEPT ![u] = "dll"]
        /\ "DLAB" \in lcr => dll' = Quot(lnarg[u]) % 256 /\ hit' = hit \ {"dll"}
        /\ UNCHANGED <<lcr, dlm, upsmr, brg, lnarg, lcrRead, asked>>
    BY <1>5 DEF WriteDll, LnGoto
  <2>2. \A v \in LnUsers \ {u} : lnpc[v] = "idle"
    BY <1>b, <1>5 DEF WriteDll
  <2>3. dll' = Quot(lnarg[u]) % 256 /\ dll' \in 0..255 /\ hit' = hit \ {"dll"}
    <3>1. Quot(lnarg[u]) % 256 \in 0..255
      BY <1>a, LnHalves
    <3>2. lcr = {"DLAB"}
      BY <1>0, <2>1 DEF LnStages
    <3>3. QED
      BY <2>1, <3>1, <3>2
  <2>4. LnTypeOK' /\ LnAlone'
    BY <1>0, <2>1, <2>2, <2>3 DEF LnTypeOK, LnAlone
  <2>5. LnStages' /\ LnDuart'
    BY <1>0, <2>1, <2>2, <2>3 DEF LnTypeOK, LnStages, LnDuart
  <2>6. LnUcc'
    BY <1>0, <2>1 DEF LnUcc
  <2>7. QED
    BY <2>4, <2>5, <2>6 DEF LnInv
<1>6. ASSUME NEW u \in LnUsers, WriteDlm(u) PROVE LnInv'
  <2>1. /\ lnpc[u] = "dll" /\ lnpc' = [lnpc EXCEPT ![u] = "dlm"]
        /\ "DLAB" \in lcr => dlm' = (Quot(lnarg[u]) \div 256) % 256 /\ hit' = hit \ {"dlm"}
        /\ UNCHANGED <<lcr, dll, upsmr, brg, lnarg, lcrRead, asked>>
    BY <1>6 DEF WriteDlm, LnGoto
  <2>2. \A v \in LnUsers \ {u} : lnpc[v] = "idle"
    BY <1>b, <1>6 DEF WriteDlm
  <2>3. dlm' = (Quot(lnarg[u]) \div 256) % 256 /\ dlm' \in 0..255 /\ hit' = hit \ {"dlm"}
    <3>1. (Quot(lnarg[u]) \div 256) % 256 \in 0..255
      BY <1>a, LnHalves
    <3>2. lcr = {"DLAB"}
      BY <1>0, <2>1 DEF LnStages
    <3>3. QED
      BY <2>1, <3>1, <3>2
  <2>4. LnTypeOK' /\ LnAlone'
    BY <1>0, <2>1, <2>2, <2>3 DEF LnTypeOK, LnAlone
  <2>5. LnStages' /\ LnDuart'
    BY <1>0, <2>1, <2>2, <2>3 DEF LnTypeOK, LnStages, LnDuart
  <2>6. LnUcc'
    BY <1>0, <2>1 DEF LnUcc
  <2>7. QED
    BY <2>4, <2>5, <2>6 DEF LnInv
<1>7. ASSUME NEW u \in LnUsers, WriteLcr(u) PROVE LnInv'
  <2>1. /\ lnpc[u] = "dlm" /\ lnpc' = [lnpc EXCEPT ![u] = "idle"]
        /\ lcr' = LcrOf(lnarg[u]) /\ asked' = [asked EXCEPT !.duart = lnarg[u]]
        /\ UNCHANGED <<dll, dlm, upsmr, brg, lnarg, lcrRead, hit>>
    BY <1>7 DEF WriteLcr, LnGoto
  <2>2. \A v \in LnUsers : lnpc'[v] = "idle"
    BY <1>0, <1>b, <1>7, <2>1 DEF WriteLcr, LnTypeOK
  <2>3. /\ asked'.duart = lnarg[u] /\ asked'.ucc = asked.ucc
        /\ asked' \in [duart : LnAll, ucc : LnAll]
    BY <1>0, <1>a, <2>1 DEF LnUcc
  <2>4. LnFrameOf(lcr') = LnWanted(lnarg[u]) /\ "DLAB" \notin lcr'
    BY <1>a, <2>1, LnDuartFrame
  <2>5. hit = {} => dll = Quot(lnarg[u]) % 256 /\ dlm = (Quot(lnarg[u]) \div 256) % 256
    BY <1>0, <2>1 DEF LnStages
  <2>6. hit = {} /\ Quot(lnarg[u]) < 65536 => dll + 256 * dlm = Quot(lnarg[u])
    <3>1. Quot(lnarg[u]) < 65536 => (Quot(lnarg[u]) % 256)
            + 256 * ((Quot(lnarg[u]) \div 256) % 256) = Quot(lnarg[u])
      BY <1>a, LnHalves
    <3>2. QED
      BY <2>5, <3>1
  <2>7. LnDuart'
    BY <2>1, <2>3, <2>4, <2>6 DEF LnDuart, LnDuartOk, Quot
  <2>8. lcr' \subseteq {"WLS0", "WLS1", "STB", "PEN", "EPS", "SP", "SBC", "DLAB"}
    BY <1>a, <2>1, LnParamType DEF LcrOf, LcrLength, LcrCheck
  <2>9. LnTypeOK'
    BY <1>0, <2>1, <2>8 DEF LnTypeOK
  <2>10. LnAlone' /\ LnStages'
    BY <2>2 DEF LnAlone, LnStages
  <2>11. LnUcc'
    BY <1>0, <2>1, <2>3 DEF LnUcc
  <2>12. QED
    BY <2>7, <2>9, <2>10, <2>11 DEF LnInv
<1>8. ASSUME NEW u \in LnUsers, xr_break_ctl_duart(u) PROVE LnInv'
  <2>1. /\ lnpc[u] = "idle" /\ lnpc' = [lnpc EXCEPT ![u] = "break"]
        /\ lcrRead' = lcr
        /\ UNCHANGED <<lcr, dll, dlm, upsmr, brg, lnarg, asked, hit>>
    BY <1>8 DEF xr_break_ctl_duart, LnGoto
  <2>2. \A v \in LnUsers \ {u} : lnpc[v] = "idle"
    BY <1>b, <1>8 DEF xr_break_ctl_duart
  <2>3. LnTypeOK' /\ LnAlone'
    BY <1>0, <2>1, <2>2 DEF LnTypeOK, LnAlone
  <2>4. LnStages'
    BY <1>0, <2>1, <2>2 DEF LnTypeOK, LnStages
  <2>5. LnDuart'
    BY <1>0, <2>1, <2>2 DEF LnDuart, LnDuartOk
  <2>6. LnUcc'
    BY <1>0, <2>1 DEF LnUcc
  <2>7. QED
    BY <2>3, <2>4, <2>5, <2>6 DEF LnInv
<1>9. ASSUME NEW u \in LnUsers, WriteBreak(u) PROVE LnInv'
  <2>1. /\ lnpc[u] = "break" /\ lnpc' = [lnpc EXCEPT ![u] = "idle"]
        /\ lcr' = lcrRead \cup {"SBC"} \/ lcr' = lcrRead \ {"SBC"}
        /\ UNCHANGED <<dll, dlm, upsmr, brg, lnarg, lcrRead, asked, hit>>
    BY <1>9 DEF WriteBreak, LnGoto
  <2>2. \A v \in LnUsers \ {u} : lnpc[v] = "idle"
    BY <1>b, <1>9 DEF WriteBreak
  <2>3. lcr' = lcr \cup {"SBC"} \/ lcr' = lcr \ {"SBC"}
    BY <1>0, <2>1 DEF LnStages
  <2>4. LnDuartOk
    BY <1>0, <2>1, <2>2 DEF LnDuart
  <2>5. LnFrameOf(lcr') = LnFrameOf(lcr) /\ "DLAB" \notin lcr'
    BY <2>3, <2>4, LnBreakFrame DEF LnDuartOk
  <2>6. LnDuart'
    BY <2>1, <2>4, <2>5 DEF LnDuart, LnDuartOk
  <2>7. LnTypeOK' /\ LnAlone'
    BY <1>0, <2>1, <2>2, <2>3 DEF LnTypeOK, LnAlone
  <2>8. LnStages'
    BY <1>0, <2>1, <2>2 DEF LnTypeOK, LnStages
  <2>9. LnUcc'
    BY <1>0, <2>1 DEF LnUcc
  <2>10. QED
    BY <2>6, <2>7, <2>8, <2>9 DEF LnInv
<1>10. CASE LnTxInterrupt
  <2>1. /\ "DLAB" \in lcr /\ UNCHANGED <<lcr, upsmr, brg, lnpc, lnarg, lcrRead, asked>>
        /\ hit' \subseteq {"dll", "dlm"} /\ hit \subseteq hit'
        /\ dll' \in 0..255 /\ dlm' \in 0..255
        /\ "dll" \notin hit' => dll' = dll
        /\ "dlm" \notin hit' => dlm' = dlm
    <3>0. PICK to \in {{"dll"}, {"dlm"}, {"dll", "dlm"}} :
            /\ IF "dll" \in to THEN dll' \in LnChars ELSE UNCHANGED dll
            /\ dlm' = IF "dlm" \in to THEN LnIer ELSE dlm
            /\ hit' = hit \cup to
      BY <1>10 DEF LnTxInterrupt
    <3>1. "DLAB" \in lcr /\ UNCHANGED <<lcr, upsmr, brg, lnpc, lnarg, lcrRead, asked>>
      BY <1>10 DEF LnTxInterrupt
    <3>2. hit' \subseteq {"dll", "dlm"} /\ hit \subseteq hit'
      BY <1>0, <3>0 DEF LnTypeOK
    <3>3. dll' \in 0..255 /\ dlm' \in 0..255
      <4>1. dll \in 0..255 /\ dlm \in 0..255 /\ LnChars \subseteq 0..255 /\ LnIer \in 0..255
        BY <1>0, LnAssumption DEF LnTypeOK, LnIer
      <4>2. QED
        BY <3>0, <4>1
    <3>4. ("dll" \notin hit' => dll' = dll) /\ ("dlm" \notin hit' => dlm' = dlm)
      BY <3>0
    <3>5. QED
      BY <3>1, <3>2, <3>3, <3>4
  <2>2. ~(\A u \in LnUsers : lnpc[u] \in {"idle", "break"})
    BY <1>0, <2>1 DEF LnDuart, LnDuartOk
  <2>3. LnTypeOK' /\ LnAlone' /\ LnStages'
    BY <1>0, <2>1 DEF LnTypeOK, LnAlone, LnStages
  <2>4. LnDuart'
    BY <2>1, <2>2 DEF LnDuart
  <2>5. LnUcc'
    BY <1>0, <2>1 DEF LnUcc
  <2>6. QED
    BY <2>3, <2>4, <2>5 DEF LnInv
<1>11. QED
  BY <1>1, <1>2, <1>3, <1>4, <1>5, <1>6, <1>7, <1>8, <1>9, <1>10 DEF LnNext

\* For every clock, every set of parameters and any number of processes:
\* whenever no process is inside an ioctl, both kinds of port send the frame
\* and the rate asked for last, and the divisor latch is closed; only the rate
\* of a DUART whose transmit interrupt wrote into the open latch may be wrong
\* (xr_set_termios_duart(), xr_set_termios_ucc(), xr_break_ctl_duart()).
THEOREM LineAlwaysAsAsked == ~LnPREEMPT /\ LnSpec => []LnAsAsked
<1> SUFFICES ASSUME ~LnPREEMPT PROVE LnSpec => []LnAsAsked
  OBVIOUS
<1>1. LnInv => LnAsAsked
  <2> SUFFICES ASSUME LnInv PROVE LnAsAsked
    OBVIOUS
  <2>1. LnTypeOK /\ LnDuart /\ LnUcc
    BY DEF LnInv
  <2>2. UccFrame = LnWanted(asked.ucc) /\ brg = asked.ucc.baud
    BY <2>1, LnUccFrame DEF LnUcc
  <2>3. DuartFrame = LnFrameOf(lcr)
    BY DEF DuartFrame, LnFrameOf
  <2>4. QED
    BY <2>1, <2>2, <2>3 DEF LnAsAsked, LnDuart, LnDuartOk
<1>2. LnInv /\ [LnNext]_lnVars => LnInv'
  BY LnStepInv
<1>3. QED
  BY LnInitInv, <1>1, <1>2, PTL DEF LnSpec

-----------------------------------------------------------------------------
(* Reception on a QE port                                                  *)

\* The sizes are numbers.
LEMMA RxSizes ==
  /\ RX_NUM_FIFO \in Nat /\ RX_NUM_FIFO > 0
  /\ RX_BUF_SIZE \in Nat /\ RX_BUF_SIZE > 0
  /\ TTY_FLIPBUF_SIZE \in Nat /\ TTY_FLIPBUF_SIZE > 0
  /\ MaxByte \in Nat /\ MaxOpen \in Nat
  BY RxAssumption DEF Rx!UccRxConstants

\* The distance from descriptor c to descriptor i, in the order of the ring.
RxDist(i, c) == IF i >= c THEN i - c ELSE i - c + RX_NUM_FIFO

\* The remainder of a difference of positions, without the remainder.
LEMMA RxDistance ==
  ASSUME NEW N \in Nat, N > 0, NEW i \in 0 .. N - 1, NEW c \in 0 .. N - 1
  PROVE  (i - c) % N = IF i >= c THEN i - c ELSE i - c + N
<1>1. PICK d \in Int : d = i - c
  OBVIOUS
<1>2. d > -N /\ d < N
  BY <1>1
<1>3. d >= 0 => d % N = d
  BY <1>2
<1>4. d < 0 => d % N = d + N
  BY <1>2
<1>5. QED
  BY <1>1, <1>3, <1>4

\* Going on by one descriptor brings all others one nearer, and puts the one
\* left behind last.
LEMMA RxDistanceNext ==
  ASSUME NEW c \in Rx!BDs, NEW i \in Rx!BDs
  PROVE  /\ Rx!Succ(c) \in Rx!BDs
         /\ RxDist(i, c) \in 0 .. RX_NUM_FIFO - 1
         /\ RxDist(i, c) = 0 <=> i = c
         /\ i # c => RxDist(i, Rx!Succ(c)) = RxDist(i, c) - 1
         /\ RxDist(c, Rx!Succ(c)) = RX_NUM_FIFO - 1
         /\ RxDist(Rx!Succ(i), c) = IF RxDist(i, c) = RX_NUM_FIFO - 1 THEN 0 ELSE RxDist(i, c) + 1
  BY RxSizes DEF RxDist, Rx!Succ, Rx!BDs

-----------------------------------------------------------------------------
\* The characters of two texts one after the other.
RxTexts == Seq(0 .. MaxByte)

\* The characters of a text are numbers, and occur in it.
LEMMA RxChars ==
  ASSUME NEW s \in RxTexts
  PROVE  /\ Rx!Chars(s) \in SUBSET (1 .. MaxByte)
         /\ \A c : c \in Rx!Chars(s) <=> c # 0 /\ \E k \in 1 .. Len(s) : s[k] = c
  BY RxSizes DEF RxTexts, Rx!Chars, Rx!Mark

\* The empty text.
LEMMA RxNoChars == Rx!Chars(<<>>) = {} /\ Rx!Sorted(<<>>)
  BY DEF Rx!Chars, Rx!Sorted

\* Joining two texts.
LEMMA RxJoin ==
  ASSUME NEW s \in RxTexts, NEW t \in RxTexts
  PROVE  /\ s \o t \in RxTexts
         /\ Rx!Chars(s \o t) = Rx!Chars(s) \union Rx!Chars(t)
         /\ Rx!Sorted(s) /\ Rx!Sorted(t) /\ Rx!Before(s, t) => Rx!Sorted(s \o t)
<1>1. /\ s \o t \in RxTexts /\ Len(s \o t) = Len(s) + Len(t)
      /\ Len(s) \in Nat /\ Len(t) \in Nat
      /\ \A k \in 1 .. Len(s) : (s \o t)[k] = s[k]
      /\ \A k \in 1 .. Len(t) : (s \o t)[Len(s) + k] = t[k]
  BY DEF RxTexts
<1>2. PICK w \in RxTexts : w = s \o t
  BY <1>1
<1>3. PICK n \in Nat, m \in Nat : n = Len(s) /\ m = Len(t)
  BY <1>1
<1>4. /\ DOMAIN w = 1 .. n + m /\ DOMAIN s = 1 .. n /\ DOMAIN t = 1 .. m
      /\ \A k \in 1 .. n : w[k] = s[k]
      /\ \A k \in 1 .. m : w[n + k] = t[k]
  BY <1>1, <1>2, <1>3 DEF RxTexts
<1>5. \A k \in DOMAIN w : \/ k \in 1 .. n /\ w[k] = s[k]
                          \/ k > n /\ k - n \in 1 .. m /\ w[k] = t[k - n]
  <2> TAKE k \in DOMAIN w
  <2>1. k \in 1 .. n + m
    BY <1>4
  <2>2. CASE k <= n
    BY <1>4, <2>1, <2>2
  <2>3. CASE k > n
    <3>1. k - n \in 1 .. m /\ n + (k - n) = k
      BY <2>1, <2>3
    <3>2. QED
      BY <1>4, <2>3, <3>1
  <2>4. QED
    BY <2>1, <2>2, <2>3
<1>6. Rx!Chars(w) = Rx!Chars(s) \union Rx!Chars(t)
  <2>1. ASSUME NEW c \in Rx!Chars(w) PROVE c \in Rx!Chars(s) \union Rx!Chars(t)
    <3>1. c # 0 /\ \E k \in DOMAIN w : w[k] = c
      BY <2>1 DEF Rx!Chars, Rx!Mark
    <3>2. PICK k \in DOMAIN w : w[k] = c
      BY <3>1
    <3>3. (\E l \in DOMAIN s : s[l] = c) \/ (\E l \in DOMAIN t : t[l] = c)
      <4>1. CASE k \in 1 .. n /\ w[k] = s[k]
        BY <1>4, <3>2, <4>1
      <4>2. CASE k - n \in 1 .. m /\ w[k] = t[k - n]
        BY <1>4, <3>2, <4>2
      <4>3. QED
        BY <1>5, <4>1, <4>2
    <3>4. QED
      BY <3>1, <3>3 DEF Rx!Chars, Rx!Mark
  <2>2. ASSUME NEW c \in Rx!Chars(s) \union Rx!Chars(t) PROVE c \in Rx!Chars(w)
    <3>1. c # 0 /\ ((\E k \in DOMAIN s : s[k] = c) \/ (\E k \in DOMAIN t : t[k] = c))
      BY <2>2 DEF Rx!Chars, Rx!Mark
    <3>2. \E k \in DOMAIN w : w[k] = c
      <4>1. CASE \E k \in DOMAIN s : s[k] = c
        <5>1. PICK k \in 1 .. n : s[k] = c
          BY <1>4, <4>1
        <5>2. k \in DOMAIN w /\ w[k] = c
          BY <1>4, <5>1
        <5>3. QED
          BY <5>2
      <4>2. CASE \E k \in DOMAIN t : t[k] = c
        <5>1. PICK k \in 1 .. m : t[k] = c
          BY <1>4, <4>2
        <5>2. n + k \in DOMAIN w /\ w[n + k] = c
          BY <1>4, <5>1
        <5>3. QED
          BY <5>2
      <4>3. QED
        BY <3>1, <4>1, <4>2
    <3>3. QED
      BY <3>1, <3>2 DEF Rx!Chars, Rx!Mark
  <2>3. QED
    BY <2>1, <2>2
<1>7. ASSUME Rx!Sorted(s), Rx!Sorted(t), Rx!Before(s, t) PROVE Rx!Sorted(w)
  <2> SUFFICES ASSUME NEW k \in DOMAIN w, NEW l \in DOMAIN w, k < l, w[k] # 0, w[l] # 0
               PROVE  w[k] < w[l]
    BY DEF Rx!Sorted, Rx!Mark
  <2>1. CASE k \in 1 .. n /\ l \in 1 .. n
    BY <1>4, <1>7, <2>1 DEF Rx!Sorted, Rx!Mark
  <2>2. CASE k \in 1 .. n /\ l > n
    <3>1. w[k] = s[k] /\ l - n \in 1 .. m /\ w[l] = t[l - n]
      BY <1>4, <1>5, <2>2
    <3>2. w[k] \in Rx!Chars(s) /\ w[l] \in Rx!Chars(t)
      BY <1>4, <2>2, <3>1 DEF Rx!Chars, Rx!Mark
    <3>3. QED
      BY <1>7, <3>2 DEF Rx!Before
  <2>3. CASE k > n /\ l > n
    <3>1. k - n \in 1 .. m /\ w[k] = t[k - n] /\ l - n \in 1 .. m /\ w[l] = t[l - n]
      BY <1>4, <1>5, <2>3
    <3>2. k - n < l - n
      BY <1>4, <2>3
    <3>3. QED
      BY <1>4, <1>7, <3>1, <3>2 DEF Rx!Sorted, Rx!Mark
  <2>4. QED
    BY <1>4, <2>1, <2>2, <2>3
<1>8. QED
  BY <1>1, <1>2, <1>6, <1>7
\* A text with the mark of an overrun before its last character.
LEMMA RxMarked ==
  ASSUME NEW S, 0 \in S, NEW x \in Seq(S), x # <<>>, \A k \in 1 .. Len(x) : x[k] # 0,
         NEW y, y = SubSeq(x, 1, Len(x) - 1) \o <<0, x[Len(x)]>>
  PROVE  /\ y \in Seq(S) /\ Len(y) = Len(x) + 1
         /\ Rx!Chars(y) = Rx!Chars(x)
         /\ Rx!Sorted(x) => Rx!Sorted(y)
<1>1. PICK n \in Nat : n = Len(x) /\ n >= 1
  OBVIOUS
<1>2. PICK m \in Nat : m = n + 1
  OBVIOUS
<1>3. /\ y \in Seq(S) /\ Len(y) = m
      /\ \A k \in 1 .. n - 1 : y[k] = x[k]
      /\ y[n] = 0 /\ y[m] = x[n]
  <2>1. \A k \in 1 .. n : x[k] \in S
    BY <1>1
  <2>2. PICK u : u = SubSeq(x, 1, n - 1)
    OBVIOUS
  <2>3. u \in Seq(S) /\ Len(u) = n - 1 /\ \A k \in 1 .. n - 1 : u[k] = x[k]
    <3>1. n - 1 \in Int /\ 1 \in Int /\ \A k \in 1 .. n - 1 : x[k] \in S
      BY <2>1
    <3>2. /\ u \in Seq(S) /\ Len(u) = IF 1 <= n - 1 THEN n - 1 - 1 + 1 ELSE 0
          /\ \A k \in 1 .. n - 1 - 1 + 1 : u[k] = x[1 + k - 1]
      BY <2>2, <3>1, SubSeqProperties
    <3>3. n - 1 - 1 + 1 = n - 1 /\ \A k \in 1 .. n - 1 : 1 + k - 1 = k
      OBVIOUS
    <3>4. QED
      BY <1>1, <3>2, <3>3
  <2>4. PICK v : v = <<0, x[n]>>
    OBVIOUS
  <2>5. v \in Seq(S) /\ Len(v) = 2 /\ v[1] = 0 /\ v[2] = x[n]
    BY <1>1, <2>1, <2>4
  <2>6. y = u \o v
    BY <1>1, <2>2, <2>4
  <2>7. /\ y \in Seq(S) /\ Len(y) = m
        /\ \A k \in 1 .. m : y[k] = IF k <= n - 1 THEN u[k] ELSE v[k - (n - 1)]
    <3>1. /\ y \in Seq(S) /\ Len(y) = Len(u) + Len(v)
          /\ \A k \in 1 .. Len(u) + Len(v) : y[k] = IF k <= Len(u) THEN u[k] ELSE v[k - Len(u)]
      <4>1. u \in Seq(S) /\ v \in Seq(S)
        BY <2>3, <2>5
      <4>2. QED
        BY <2>6, <4>1, ConcatProperties
    <3>2. Len(u) + Len(v) = m /\ Len(u) = n - 1
      BY <1>2, <2>3, <2>5
    <3>3. QED
      BY <3>1, <3>2, Zenon
  <2>8. y[n] = v[1] /\ y[m] = v[2]
    <3>1. n \in 1 .. m /\ ~(n <= n - 1) /\ n - (n - 1) = 1
      BY <1>1, <1>2
    <3>2. m \in 1 .. m /\ ~(m <= n - 1) /\ m - (n - 1) = 2
      BY <1>1, <1>2
    <3>3. y[n] = v[n - (n - 1)]
      BY <2>7, <3>1
    <3>4. y[m] = v[m - (n - 1)]
      BY <2>7, <3>2
    <3>5. QED
      BY <3>1, <3>2, <3>3, <3>4
  <2>9. \A k \in 1 .. n - 1 : y[k] = x[k]
    BY <1>2, <2>3, <2>7
  <2>10. QED
    BY <2>5, <2>7, <2>8, <2>9
<1>4. DOMAIN x = 1 .. n /\ DOMAIN y = 1 .. m
  BY <1>1, <1>3
<1>5. \A k \in 1 .. n : x[k] # 0
  BY <1>1
<1>6. Rx!Chars(y) = Rx!Chars(x)
  <2>1. ASSUME NEW c \in Rx!Chars(y) PROVE c \in Rx!Chars(x)
    <3>1. PICK k \in 1 .. m : y[k] = c /\ c # 0
      BY <1>4, <2>1 DEF Rx!Chars, Rx!Mark
    <3>2. k \in 1 .. n - 1 \/ k = m
      BY <1>2, <1>3, <3>1
    <3>3. n \in 1 .. n /\ 1 .. n - 1 \subseteq 1 .. n
      BY <1>1
    <3>4. \E l \in 1 .. n : x[l] = c
      BY <1>3, <3>1, <3>2, <3>3
    <3>5. QED
      BY <1>4, <3>1, <3>4 DEF Rx!Chars, Rx!Mark
  <2>2. ASSUME NEW c \in Rx!Chars(x) PROVE c \in Rx!Chars(y)
    <3>1. PICK k \in 1 .. n : x[k] = c /\ c # 0
      BY <1>4, <2>2 DEF Rx!Chars, Rx!Mark
    <3>2. \E l \in 1 .. m : y[l] = c
      <4>1. CASE k = n
        <5>1. m \in 1 .. m
          BY <1>1, <1>2
        <5>2. QED
          BY <1>3, <3>1, <4>1, <5>1
      <4>2. CASE k # n
        <5>1. k \in 1 .. n - 1 /\ k \in 1 .. m
          BY <1>2, <4>2
        <5>2. QED
          BY <1>3, <3>1, <5>1
      <4>3. QED
        BY <4>1, <4>2
    <3>3. QED
      BY <1>4, <3>1, <3>2 DEF Rx!Chars, Rx!Mark
  <2>3. QED
    BY <2>1, <2>2
<1>7. ASSUME Rx!Sorted(x) PROVE Rx!Sorted(y)
  <2> SUFFICES ASSUME NEW k \in DOMAIN y, NEW l \in DOMAIN y, k < l, y[k] # 0, y[l] # 0
               PROVE  y[k] < y[l]
    BY DEF Rx!Sorted, Rx!Mark
  <2>1. k \in 1 .. m /\ l \in 1 .. m /\ k # n /\ l # n
    BY <1>3, <1>4
  <2>2. k \in 1 .. n - 1 /\ (l \in 1 .. n - 1 \/ l = m)
    BY <1>2, <2>1
  <2>3. y[k] = x[k] /\ k \in 1 .. n
    <3>1. y[k] = x[k]
      BY <1>3, <2>2, Zenon
    <3>2. QED
      BY <2>2, <3>1
  <2>4. CASE l = m
    <3>1. y[l] = x[n]
      BY <1>3, <2>4, Zenon
    <3>2. n \in 1 .. n /\ k < n
      BY <1>1, <2>2
    <3>3. x[k] # 0 /\ x[n] # 0
      BY <1>5, <2>3, <3>2
    <3>4. QED
      BY <1>4, <1>7, <2>3, <3>1, <3>2, <3>3 DEF Rx!Sorted, Rx!Mark
  <2>5. CASE l \in 1 .. n - 1
    <3>1. y[l] = x[l]
      BY <1>3, <2>5, Zenon
    <3>2. y[l] = x[l] /\ l \in 1 .. n
      BY <2>5, <3>1
    <3>3. x[k] # 0 /\ x[l] # 0
      BY <1>5, <2>3, <3>2
    <3>4. QED
      BY <1>4, <1>7, <2>3, <3>2, <3>3 DEF Rx!Sorted, Rx!Mark
  <2>6. QED
    BY <2>2, <2>4, <2>5
<1>8. QED
  BY <1>1, <1>2, <1>3, <1>6, <1>7

-----------------------------------------------------------------------------
(***************************************************************************)
(* The order of the characters: P passed on, F in the flip buffer, X[i] in *)
(* descriptor i, L being filled, with the handler at descriptor c.         *)
(***************************************************************************)
RxBelow(A, B) == \A a \in A, b \in B : a < b

RxOrdered(P, F, X, L, c) ==
  /\ RxBelow(P, F) /\ RxBelow(P, L) /\ RxBelow(F, L)
  /\ \A i \in Rx!BDs : RxBelow(P, X[i]) /\ RxBelow(F, X[i]) /\ RxBelow(X[i], L)
  /\ \A i, j \in Rx!BDs : RxDist(i, c) < RxDist(j, c) => RxBelow(X[i], X[j])

RxComplete(P, F, X, L, n, gone) ==
  \A a \in Nat : (a \in P \/ a \in F \/ (\E i \in Rx!BDs : a \in X[i]) \/ a \in L)
                   <=> a \in 1 .. n /\ a \notin gone

RxSets == SUBSET Nat

\* The engine receives a character: it fills a descriptor, or is missed.
LEMMA RxOneMore ==
  ASSUME NEW P \in RxSets, NEW F \in RxSets, NEW L \in RxSets, NEW X \in [Rx!BDs -> RxSets],
         NEW c \in Rx!BDs, NEW n \in Nat, NEW gone, gone \subseteq 0 .. n,
         RxOrdered(P, F, X, L, c), RxComplete(P, F, X, L, n, gone)
  PROVE  /\ RxOrdered(P, F, X, L \union {n + 1}, c)
         /\ RxComplete(P, F, X, L \union {n + 1}, n + 1, gone)
         /\ RxComplete(P, F, X, L, n + 1, gone \union {n + 1})
<1>1. \A a \in Nat : (a \in P \/ a \in F \/ (\E i \in Rx!BDs : a \in X[i]) \/ a \in L) => a < n + 1
  BY DEF RxComplete
<1>2. RxBelow(P, {n + 1}) /\ RxBelow(F, {n + 1})
  BY <1>1 DEF RxBelow, RxSets
<1>3. \A i \in Rx!BDs : RxBelow(X[i], {n + 1})
  BY <1>1 DEF RxBelow, RxSets
<1>4. RxOrdered(P, F, X, L \union {n + 1}, c)
  BY <1>2, <1>3 DEF RxOrdered, RxBelow
<1>5. RxComplete(P, F, X, L \union {n + 1}, n + 1, gone)
  BY DEF RxComplete
<1>6. RxComplete(P, F, X, L, n + 1, gone \union {n + 1})
  BY DEF RxComplete
<1>7. QED
  BY <1>4, <1>5, <1>6

\* A descriptor is closed: it is behind all others that hold characters.
LEMMA RxOneClosed ==
  ASSUME NEW P \in RxSets, NEW F \in RxSets, NEW L \in RxSets, NEW X \in [Rx!BDs -> RxSets],
         NEW c \in Rx!BDs, NEW q \in Rx!BDs, NEW n \in Nat, NEW gone, NEW Y,
         Y = [X EXCEPT ![q] = L], X[q] = {},
         \A j \in Rx!BDs : RxDist(q, c) < RxDist(j, c) => X[j] = {},
         RxOrdered(P, F, X, L, c), RxComplete(P, F, X, L, n, gone)
  PROVE  /\ RxOrdered(P, F, Y, {}, c)
         /\ RxComplete(P, F, Y, {}, n, gone)
<1>1. Y[q] = L /\ \A i \in Rx!BDs : i # q => Y[i] = X[i]
  OBVIOUS
<1>2. ASSUME NEW i \in Rx!BDs PROVE RxBelow(P, Y[i]) /\ RxBelow(F, Y[i]) /\ RxBelow(Y[i], {})
  <2>1. CASE i = q
    BY <1>1, <2>1 DEF RxOrdered, RxBelow
  <2>2. CASE i # q
    BY <1>1, <2>2 DEF RxOrdered, RxBelow
  <2>3. QED
    BY <2>1, <2>2
<1>3. ASSUME NEW i \in Rx!BDs, NEW j \in Rx!BDs, RxDist(i, c) < RxDist(j, c)
      PROVE  RxBelow(Y[i], Y[j])
  <2>1. CASE i = q /\ j # q
    BY <1>1, <1>3, <2>1 DEF RxBelow
  <2>2. CASE i # q /\ j = q
    BY <1>1, <2>2 DEF RxOrdered
  <2>3. CASE i # q /\ j # q
    BY <1>1, <1>3, <2>3 DEF RxOrdered
  <2>4. CASE i = j
    BY <1>3, <2>4, RxDistanceNext
  <2>5. QED
    BY <2>1, <2>2, <2>3, <2>4
<1>4. RxBelow(P, F) /\ RxBelow(P, {}) /\ RxBelow(F, {})
  BY DEF RxOrdered, RxBelow
<1>5. RxOrdered(P, F, Y, {}, c)
  BY <1>2, <1>3, <1>4, Zenon DEF RxOrdered
<1>6. \A a : (\E i \in Rx!BDs : a \in Y[i]) <=> (\E i \in Rx!BDs : a \in X[i]) \/ a \in L
  <2> TAKE a
  <2>1. ASSUME NEW i \in Rx!BDs, a \in Y[i] PROVE (\E k \in Rx!BDs : a \in X[k]) \/ a \in L
    BY <1>1, <2>1
  <2>2. ASSUME NEW i \in Rx!BDs, a \in X[i] PROVE \E k \in Rx!BDs : a \in Y[k]
    BY <1>1, <2>2
  <2>3. ASSUME a \in L PROVE \E k \in Rx!BDs : a \in Y[k]
    BY <1>1, <2>3
  <2>4. QED
    BY <2>1, <2>2, <2>3
<1>7. RxComplete(P, F, Y, {}, n, gone)
  BY <1>6 DEF RxComplete
<1>8. QED
  BY <1>5, <1>7

\* The handler copies the descriptor it has reached and goes on.
LEMMA RxOneCopied ==
  ASSUME NEW P \in RxSets, NEW F \in RxSets, NEW L \in RxSets, NEW X \in [Rx!BDs -> RxSets],
         NEW c \in Rx!BDs, NEW n \in Nat, NEW gone, NEW Y,
         Y = [X EXCEPT ![c] = {}],
         RxOrdered(P, F, X, L, c), RxComplete(P, F, X, L, n, gone)
  PROVE  /\ RxBelow(F, X[c])
         /\ RxOrdered(P, F \union X[c], Y, L, Rx!Succ(c))
         /\ RxComplete(P, F \union X[c], Y, L, n, gone)
<1>1. Y[c] = {} /\ \A i \in Rx!BDs : i # c => Y[i] = X[i]
  OBVIOUS
<1>2. ASSUME NEW i \in Rx!BDs, i # c PROVE RxBelow(X[c], X[i])
  <2>1. RxDist(c, c) = 0 /\ RxDist(i, c) # 0 /\ RxDist(i, c) \in Nat
    BY <1>2, RxDistanceNext, RxSizes
  <2>2. RxDist(c, c) < RxDist(i, c)
    BY <2>1
  <2>3. QED
    BY <2>2 DEF RxOrdered
<1>3. RxBelow(F, X[c])
  BY DEF RxOrdered
<1>4. RxBelow(P, F \union X[c]) /\ RxBelow(P, L) /\ RxBelow(F \union X[c], L)
  BY DEF RxOrdered, RxBelow
<1>5. ASSUME NEW i \in Rx!BDs
      PROVE  RxBelow(P, Y[i]) /\ RxBelow(F \union X[c], Y[i]) /\ RxBelow(Y[i], L)
  <2>1. CASE i = c
    BY <1>1, <2>1 DEF RxBelow
  <2>2. CASE i # c
    BY <1>1, <1>2, <2>2 DEF RxOrdered, RxBelow
  <2>3. QED
    BY <2>1, <2>2
<1>6. ASSUME NEW i \in Rx!BDs, NEW j \in Rx!BDs, RxDist(i, Rx!Succ(c)) < RxDist(j, Rx!Succ(c))
      PROVE  RxBelow(Y[i], Y[j])
  <2>1. CASE i = c \/ j = c
    BY <1>1, <2>1 DEF RxBelow
  <2>2. CASE i # c /\ j # c
    <3>1. /\ RxDist(i, Rx!Succ(c)) = RxDist(i, c) - 1 /\ RxDist(j, Rx!Succ(c)) = RxDist(j, c) - 1
          /\ RxDist(i, c) \in Int /\ RxDist(j, c) \in Int
      BY <2>2, RxDistanceNext, RxSizes
    <3>2. RxDist(i, c) < RxDist(j, c)
      BY <1>6, <3>1
    <3>3. QED
      BY <1>1, <2>2, <3>2 DEF RxOrdered
  <2>3. QED
    BY <2>1, <2>2
<1>7. RxOrdered(P, F \union X[c], Y, L, Rx!Succ(c))
  BY <1>4, <1>5, <1>6, Zenon DEF RxOrdered
<1>8. \A a : (\E i \in Rx!BDs : a \in X[i]) <=> (\E i \in Rx!BDs : a \in Y[i]) \/ a \in X[c]
  <2> TAKE a
  <2>1. ASSUME NEW i \in Rx!BDs, a \in X[i] PROVE (\E k \in Rx!BDs : a \in Y[k]) \/ a \in X[c]
    BY <1>1, <2>1
  <2>2. ASSUME NEW i \in Rx!BDs, a \in Y[i] PROVE \E k \in Rx!BDs : a \in X[k]
    BY <1>1, <2>2
  <2>3. ASSUME a \in X[c] PROVE \E k \in Rx!BDs : a \in X[k]
    BY <2>3
  <2>4. QED
    BY <2>1, <2>2, <2>3
<1>9. RxComplete(P, F \union X[c], Y, L, n, gone)
  BY <1>8 DEF RxComplete
<1>10. QED
  BY <1>3, <1>7, <1>9

\* The flip buffer is passed on, or freed.
LEMMA RxFlipped ==
  ASSUME NEW P \in RxSets, NEW F \in RxSets, NEW L \in RxSets, NEW X \in [Rx!BDs -> RxSets],
         NEW c \in Rx!BDs, NEW n \in Nat, NEW gone, NEW D, D \in {F, F \union {0}},
         RxOrdered(P, F, X, L, c), RxComplete(P, F, X, L, n, gone)
  PROVE  /\ RxOrdered(P \union F, {}, X, L, c) /\ RxComplete(P \union F, {}, X, L, n, gone)
         /\ RxOrdered(P, {}, X, L, c) /\ RxComplete(P, {}, X, L, n, gone \union D)
<1>1. RxOrdered(P \union F, {}, X, L, c) /\ RxOrdered(P, {}, X, L, c)
  BY DEF RxOrdered, RxBelow
<1>2. RxComplete(P \union F, {}, X, L, n, gone)
  BY DEF RxComplete
<1>3. ASSUME NEW a \in F
      PROVE  a \notin P /\ a \notin L /\ \A i \in Rx!BDs : a \notin X[i]
  <2>1. a \in Nat
    BY DEF RxSets
  <2>2. ~(a < a)
    BY <2>1
  <2>3. QED
    BY <1>3, <2>2, Zenon DEF RxOrdered, RxBelow
<1>4. RxComplete(P, {}, X, L, n, gone \union D)
  BY <1>3 DEF RxComplete
<1>5. QED
  BY <1>1, <1>2, <1>4

-----------------------------------------------------------------------------
(***************************************************************************)
(* The closed descriptors C are the ones from the handler's position c to  *)
(* the engine's position q.                                                *)
(***************************************************************************)
RxAgreeing(C, q, c) ==
  \A i \in Rx!BDs : i \in C <=> (q = c /\ c \in C) \/ RxDist(i, c) < RxDist(q, c)

\* An EMPTY descriptor at the handler's position means that all are, and
\* behind an EMPTY one at the engine's position there is none that is closed.
LEMMA RxAgreedEmpty ==
  ASSUME NEW C \in SUBSET Rx!BDs, NEW q \in Rx!BDs, NEW c \in Rx!BDs, RxAgreeing(C, q, c)
  PROVE  /\ c \notin C => C = {}
         /\ q \notin C => \A j \in Rx!BDs : RxDist(q, c) < RxDist(j, c) => j \notin C
<1>1. \A i \in Rx!BDs : RxDist(i, c) \in Nat /\ (RxDist(i, c) = 0 <=> i = c)
  BY RxDistanceNext, RxSizes
<1>2. c \notin C => C = {}
  BY <1>1 DEF RxAgreeing
<1>3. q \notin C => \A j \in Rx!BDs : RxDist(q, c) < RxDist(j, c) => j \notin C
  BY <1>1 DEF RxAgreeing
<1>4. QED
  BY <1>2, <1>3

\* The engine closes a descriptor.
LEMMA RxAgreedClosed ==
  ASSUME NEW C \in SUBSET Rx!BDs, NEW q \in Rx!BDs, NEW c \in Rx!BDs, RxAgreeing(C, q, c),
         q \notin C
  PROVE  RxAgreeing(C \union {q}, Rx!Succ(q), c)
<1>1. \A i \in Rx!BDs : RxDist(i, c) \in 0 .. RX_NUM_FIFO - 1 /\ (RxDist(i, c) = 0 <=> i = c)
  BY RxDistanceNext
<1>2. /\ Rx!Succ(q) \in Rx!BDs
      /\ RxDist(Rx!Succ(q), c) = IF RxDist(q, c) = RX_NUM_FIFO - 1 THEN 0 ELSE RxDist(q, c) + 1
  BY RxDistanceNext
<1>3. \A i \in Rx!BDs : RxDist(i, c) = RxDist(q, c) <=> i = q
  BY RxSizes DEF RxDist, Rx!BDs
<1>4. \A i \in Rx!BDs : i \in C <=> RxDist(i, c) < RxDist(q, c)
  BY <1>1, RxSizes DEF RxAgreeing
<1>5. CASE RxDist(q, c) = RX_NUM_FIFO - 1
  <2>1. Rx!Succ(q) = c
    BY <1>1, <1>2, <1>5
  <2>2. \A i \in Rx!BDs : i \in C \union {q}
    BY <1>1, <1>3, <1>4, <1>5, RxSizes
  <2>3. QED
    BY <2>1, <2>2 DEF RxAgreeing
<1>6. CASE RxDist(q, c) # RX_NUM_FIFO - 1
  <2>1. RxDist(Rx!Succ(q), c) = RxDist(q, c) + 1
    BY <1>2, <1>6
  <2>2. Rx!Succ(q) # c
    BY <1>1, <1>2, <2>1, RxSizes
  <2>3. \A i \in Rx!BDs : i \in C \union {q} <=> RxDist(i, c) < RxDist(Rx!Succ(q), c)
    BY <1>1, <1>3, <1>4, <2>1, RxSizes
  <2>4. QED
    BY <2>2, <2>3 DEF RxAgreeing
<1>7. QED
  BY <1>5, <1>6

\* The handler empties a descriptor.
LEMMA RxAgreedCopied ==
  ASSUME NEW C \in SUBSET Rx!BDs, NEW q \in Rx!BDs, NEW c \in Rx!BDs, RxAgreeing(C, q, c),
         c \in C
  PROVE  RxAgreeing(C \ {c}, q, Rx!Succ(c))
<1>1. \A i \in Rx!BDs : RxDist(i, c) \in 0 .. RX_NUM_FIFO - 1 /\ (RxDist(i, c) = 0 <=> i = c)
  BY RxDistanceNext
<1>2. /\ Rx!Succ(c) \in Rx!BDs
      /\ \A i \in Rx!BDs : i # c => RxDist(i, Rx!Succ(c)) = RxDist(i, c) - 1
      /\ RxDist(c, Rx!Succ(c)) = RX_NUM_FIFO - 1
  BY RxDistanceNext
<1>3. \A i \in Rx!BDs : RxDist(i, Rx!Succ(c)) = 0 <=> i = Rx!Succ(c)
  BY <1>2, RxDistanceNext
<1>4. CASE q = c
  <2>1. \A i \in Rx!BDs : i \in C
    BY <1>4 DEF RxAgreeing
  <2>2. \A i \in Rx!BDs : i \in C \ {c} <=> RxDist(i, Rx!Succ(c)) < RxDist(q, Rx!Succ(c))
    BY <1>1, <1>2, <1>4, <2>1, RxSizes
  <2>3. q = Rx!Succ(c) => Rx!Succ(c) \notin C \ {c}
    BY <1>4
  <2>4. QED
    BY <2>2, <2>3 DEF RxAgreeing
<1>5. CASE q # c
  <2>1. \A i \in Rx!BDs : i \in C <=> RxDist(i, c) < RxDist(q, c)
    BY <1>5 DEF RxAgreeing
  <2>2. \A i \in Rx!BDs : i \in C \ {c} <=> RxDist(i, Rx!Succ(c)) < RxDist(q, Rx!Succ(c))
    <3> TAKE i \in Rx!BDs
    <3>1. CASE i = c
      BY <1>1, <1>2, <1>5, <3>1, RxSizes
    <3>2. CASE i # c
      BY <1>1, <1>2, <1>5, <2>1, <3>2, RxSizes
    <3>3. QED
      BY <3>1, <3>2
  <2>3. q = Rx!Succ(c) => Rx!Succ(c) \notin C
    <3>1. q \notin C
      BY <1>1, <2>1, RxSizes
    <3>2. QED
      BY <3>1
  <2>4. QED
    BY <2>2, <2>3 DEF RxAgreeing
<1>6. QED
  BY <1>4, <1>5
-----------------------------------------------------------------------------
(***************************************************************************)
(* The inductive invariant of reception.                                   *)
(***************************************************************************)
RxBytes == 1 .. MaxByte

RxNumT ==
  /\ arrived \in 0 .. MaxByte /\ opens \in 0 .. MaxOpen
  /\ qe_cur \in Rx!BDs /\ rx_cur \in Rx!BDs /\ bdp \in Rx!BDs
  /\ missed \subseteq 1 .. MaxByte /\ dropped \subseteq 0 .. MaxByte
RxSeqT ==
  /\ filling \in Seq(RxBytes) /\ Len(filling) <= RX_BUF_SIZE
  /\ flip \in RxTexts /\ Len(flip) <= TTY_FLIPBUF_SIZE
  /\ passed \in RxTexts
RxBdT == bd \in [Rx!BDs -> [empty : BOOLEAN, data : Seq(RxBytes), ov : BOOLEAN]]
RxFlagT == {ucce, rxOpened, pending, deferred, torn} \subseteq BOOLEAN
RxPcT == ipc \in {"none", "scan", "exit"}

\* The closed descriptors, and what is in them.
RxClosed == {i \in Rx!BDs : Rx!IsClosed(i)}
RxHeld   == [i \in Rx!BDs |-> Rx!Chars(bd[i].data)]

\* A descriptor has characters exactly when it is closed, and the engine fills
\* one that is EMPTY.
RxShape == \A i \in Rx!BDs : i \in RxClosed <=> bd[i].data # <<>>
RxFills == filling # <<>> => qe_cur \notin RxClosed

\* RxServed without its condition that the port is open: its event stays
\* pending while nobody handles it.
RxHandled == RxClosed = {} \/ ucce \/ ipc = "scan" \/ deferred \/ torn

\* While rx_cur has always been written back.
RxSorted == Rx!Sorted(passed) /\ Rx!Sorted(flip) /\ Rx!Sorted(filling)
              /\ \A i \in Rx!BDs : Rx!Sorted(bd[i].data)
RxStream ==
  /\ missed \union dropped \subseteq 0 .. arrived
  /\ RxOrdered(Rx!Chars(passed), Rx!Chars(flip), RxHeld, Rx!Chars(filling), Rx!Cur)
  /\ RxComplete(Rx!Chars(passed), Rx!Chars(flip), RxHeld, Rx!Chars(filling), arrived,
                missed \union dropped)
RxRings == RxAgreeing(RxClosed, qe_cur, Rx!Cur)

RxInv ==
  /\ RxNumT /\ RxSeqT /\ RxBdT /\ RxFlagT /\ RxPcT
  /\ RxShape /\ RxFills /\ RxHandled
  /\ ~torn => RxSorted /\ RxStream /\ RxRings

\* The type invariant of UccRx.
LEMMA RxTypes == RxNumT /\ RxSeqT /\ RxBdT /\ RxFlagT /\ RxPcT <=> Rx!TypeOK
<1>1. RxNumT /\ RxSeqT /\ RxBdT /\ RxFlagT /\ RxPcT => Rx!TypeOK
  BY Zenon DEF RxNumT, RxSeqT, RxBdT, RxFlagT, RxPcT, RxTexts, RxBytes, Rx!TypeOK
<1>2. Rx!TypeOK => RxNumT /\ RxSeqT /\ RxBdT /\ RxFlagT /\ RxPcT
  BY Zenon DEF RxNumT, RxSeqT, RxBdT, RxFlagT, RxPcT, RxTexts, RxBytes, Rx!TypeOK
<1>3. QED
  BY <1>1, <1>2

\* Where the handler is.
LEMMA RxPlace ==
  ASSUME RxInv
  PROVE  Rx!Cur \in Rx!BDs
  BY DEF RxInv, RxNumT, Rx!Cur

\* The characters of texts are numbers.
LEMMA RxPlaces ==
  ASSUME RxSeqT, RxBdT
  PROVE  /\ Rx!Chars(passed) \in RxSets /\ Rx!Chars(flip) \in RxSets /\ Rx!Chars(filling) \in RxSets
         /\ RxHeld \in [Rx!BDs -> RxSets]
         /\ filling \in RxTexts /\ \A i \in Rx!BDs : bd[i].data \in RxTexts
<1>1. \A s \in Seq(RxBytes) : s \in RxTexts
  BY RxSizes DEF RxBytes, RxTexts
<1>2. \A s \in RxTexts : Rx!Chars(s) \in RxSets
  <2> TAKE s \in RxTexts
  <2>1. Rx!Chars(s) \in SUBSET (1 .. MaxByte)
    BY RxChars
  <2>2. QED
    BY <2>1, RxSizes DEF RxSets
<1>3. filling \in RxTexts /\ \A i \in Rx!BDs : bd[i].data \in RxTexts
  BY <1>1 DEF RxSeqT, RxBdT
<1>4. RxHeld \in [Rx!BDs -> RxSets]
  BY <1>2, <1>3 DEF RxHeld
<1>5. QED
  BY <1>2, <1>3, <1>4 DEF RxSeqT

\* The invariant says what the properties say.
LEMMA RxMeaning ==
  ASSUME RxInv
  PROVE  Rx!TypeOK /\ Rx!RxKept /\ Rx!RxRingsAgree /\ Rx!RxServed
<1>1. Rx!TypeOK
  BY RxTypes DEF RxInv
<1>2. Rx!Cur \in Rx!BDs /\ qe_cur \in Rx!BDs
  BY RxPlace DEF RxInv, RxNumT
<1>3. \A i \in Rx!BDs : Rx!Ahead(i) = RxDist(i, Rx!Cur)
  BY <1>2, RxDistance, RxSizes DEF Rx!Ahead, RxDist, Rx!BDs
<1>4. ASSUME ~torn PROVE Rx!RxKept
  <2>1. RxSorted /\ RxStream
    BY <1>4, Zenon DEF RxInv
  <2>2. \A s, t : Rx!Before(s, t) <=> RxBelow(Rx!Chars(s), Rx!Chars(t))
    BY Zenon DEF Rx!Before, RxBelow
  <2>3. \A i \in Rx!BDs : RxHeld[i] = Rx!Chars(bd[i].data)
    BY DEF RxHeld
  <2>4. /\ Rx!Sorted(passed) /\ Rx!Sorted(flip) /\ Rx!Sorted(filling)
        /\ \A i \in Rx!BDs : Rx!Sorted(bd[i].data)
    BY <2>1, Zenon DEF RxSorted
  <2>5. Rx!Before(passed, flip) /\ Rx!Before(passed, filling) /\ Rx!Before(flip, filling)
    BY <2>1, <2>2, Zenon DEF RxStream, RxOrdered
  <2>6. \A i \in Rx!BDs : /\ Rx!Before(passed, bd[i].data) /\ Rx!Before(flip, bd[i].data)
                          /\ Rx!Before(bd[i].data, filling)
    BY <2>1, <2>2, <2>3, Zenon DEF RxStream, RxOrdered
  <2>7. \A i, j \in Rx!BDs : Rx!Ahead(i) < Rx!Ahead(j) => Rx!Before(bd[i].data, bd[j].data)
    BY <1>3, <2>1, <2>2, <2>3, Zenon DEF RxStream, RxOrdered
  <2>8. Rx!Chars(passed) \union Rx!Chars(flip) \union Rx!Held \union Rx!Chars(filling)
          = (1 .. arrived) \ (missed \union dropped)
    <3>1. RxSeqT /\ RxBdT /\ arrived \in Nat
      BY RxSizes DEF RxInv, RxNumT
    <3>2. PICK P \in RxSets, F \in RxSets, L \in RxSets, X \in [Rx!BDs -> RxSets] :
            P = Rx!Chars(passed) /\ F = Rx!Chars(flip) /\ L = Rx!Chars(filling) /\ X = RxHeld
      BY <3>1, RxPlaces
    <3>3. PICK g, U : g = missed \union dropped /\ U = Rx!Held
      OBVIOUS
    <3>4. RxComplete(P, F, X, L, arrived, g)
      BY <2>1, <3>2, <3>3 DEF RxStream
    <3>5. \A a : a \in U <=> \E i \in Rx!BDs : a \in X[i]
      BY <2>3, <3>2, <3>3 DEF Rx!Held
    <3>6. P \union F \union U \union L = (1 .. arrived) \ g
      <4>1. ASSUME NEW a \in P \union F \union U \union L PROVE a \in (1 .. arrived) \ g
        <5>1. a \in P \/ a \in F \/ (\E i \in Rx!BDs : a \in X[i]) \/ a \in L
          BY <3>5, Zenon
        <5>2. a \in Nat
          BY <5>1 DEF RxSets
        <5>3. QED
          BY <3>4, <5>1, <5>2 DEF RxComplete
      <4>2. ASSUME NEW a \in (1 .. arrived) \ g PROVE a \in P \union F \union U \union L
        <5>1. a \in Nat
          BY <3>1
        <5>2. a \in P \/ a \in F \/ (\E i \in Rx!BDs : a \in X[i]) \/ a \in L
          BY <3>4, <4>2, <5>1 DEF RxComplete
        <5>3. QED
          BY <3>5, <5>2, Zenon
      <4>3. QED
        BY <4>1, <4>2
    <3>7. QED
      BY <3>2, <3>3, <3>6
  <2>9. QED
    BY <2>4, <2>5, <2>6, <2>7, <2>8, Zenon DEF Rx!RxKept
<1>5. ASSUME ~torn PROVE Rx!RxRingsAgree
  <2>1. RxRings
    BY <1>5, Zenon DEF RxInv
  <2>2. \A i \in Rx!BDs : i \in RxClosed <=> Rx!IsClosed(i)
    BY Zenon DEF RxClosed
  <2>3. QED
    BY <1>2, <1>3, <2>1, <2>2, Zenon DEF RxRings, RxAgreeing, Rx!RxRingsAgree
<1>6. Rx!RxServed
  BY Zenon DEF RxInv, RxHandled, RxClosed, Rx!RxServed
<1>7. torn => Rx!RxKept /\ Rx!RxRingsAgree
  BY Zenon DEF Rx!RxKept, Rx!RxRingsAgree
<1>8. QED
  BY <1>1, <1>4, <1>5, <1>6, <1>7, Zenon

-----------------------------------------------------------------------------
(***************************************************************************)
(* Steps that leave the characters where they are.                         *)
(***************************************************************************)
\* The descriptors are not touched.
LEMMA RxBdSame ==
  ASSUME bd' = bd
  PROVE  RxClosed' = RxClosed /\ RxHeld' = RxHeld /\ (RxBdT => RxBdT') /\ (RxShape => RxShape')
<1>1. RxClosed' = RxClosed
  BY Zenon DEF RxClosed, Rx!IsClosed
<1>2. RxHeld' = RxHeld
  BY Zenon DEF RxHeld
<1>3. (RxBdT => RxBdT') /\ (RxShape => RxShape')
  BY <1>1, Zenon DEF RxBdT, RxShape
<1>4. QED
  BY <1>1, <1>2, <1>3

\* No character moves: what is said of them still holds, as long as the
\* handler's position is the same.
LEMMA RxQuiet ==
  ASSUME RxInv, UNCHANGED <<arrived, missed, filling, qe_cur, bd, flip, passed, dropped>>
  PROVE  /\ RxSeqT' /\ RxBdT' /\ RxShape' /\ RxFills' /\ RxClosed' = RxClosed
         /\ RxSorted => RxSorted'
         /\ Rx!Cur' = Rx!Cur /\ RxStream => RxStream'
         /\ Rx!Cur' = Rx!Cur /\ RxRings => RxRings'
<1>1. /\ arrived' = arrived /\ missed' = missed /\ filling' = filling /\ qe_cur' = qe_cur
      /\ bd' = bd /\ flip' = flip /\ passed' = passed /\ dropped' = dropped
  OBVIOUS
<1>2. RxClosed' = RxClosed /\ RxHeld' = RxHeld /\ RxBdT' /\ RxShape'
  BY <1>1, RxBdSame DEF RxInv
<1>3. RxSeqT'
  BY <1>1, Zenon DEF RxInv, RxSeqT
<1>4. RxFills'
  BY <1>1, <1>2, Zenon DEF RxInv, RxFills
<1>5. RxSorted => RxSorted'
  BY <1>1, Zenon DEF RxSorted
<1>6. Rx!Cur' = Rx!Cur /\ RxStream => RxStream'
  <2>1. SUFFICES ASSUME Rx!Cur' = Rx!Cur, RxStream PROVE RxStream'
    OBVIOUS
  <2>2. /\ Rx!Chars(passed)' = Rx!Chars(passed) /\ Rx!Chars(flip)' = Rx!Chars(flip)
        /\ Rx!Chars(filling)' = Rx!Chars(filling)
        /\ (missed \union dropped)' = missed \union dropped /\ (0 .. arrived)' = 0 .. arrived
    BY <1>1, Zenon
  <2>3. QED
    BY <1>1, <1>2, <2>1, <2>2, Zenon DEF RxStream
<1>7. Rx!Cur' = Rx!Cur /\ RxRings => RxRings'
  BY <1>1, <1>2, Zenon DEF RxRings
<1>8. QED
  BY <1>2, <1>3, <1>4, <1>5, <1>6, <1>7

\* qe_uart_int(): the handler starts where it will be said to be.
LEMMA RxStepInt ==
  ASSUME RxInv, Rx!qe_uart_int
  PROVE  RxInv'
<1>1. /\ ipc = "none" /\ ipc' = "scan" /\ bdp' = rx_cur /\ rx_cur' = rx_cur
      /\ UNCHANGED <<arrived, missed, filling, qe_cur, bd, flip, passed, dropped, opens>>
  BY DEF Rx!qe_uart_int, Rx!qeVars, Rx!portVars, Rx!flipVars
<1>2. ucce' = FALSE /\ deferred' = FALSE /\ torn' = torn /\ rxOpened' = rxOpened /\ pending' = pending
  BY Zenon DEF Rx!qe_uart_int, Rx!portVars, Rx!flipVars
<1>3. Rx!Cur' = Rx!Cur
  BY <1>1 DEF Rx!Cur
<1>4. RxNumT' /\ RxPcT'
  BY <1>1 DEF RxInv, RxNumT, RxPcT
<1>5. RxFlagT'
  BY <1>2, Zenon DEF RxInv, RxFlagT
<1>6. RxHandled'
  BY <1>1, Zenon DEF RxHandled
<1>7. QED
  BY <1>1, <1>2, <1>3, <1>4, <1>5, <1>6, RxQuiet, Zenon DEF RxInv

\* The early return: either nothing was copied, or rx_cur is torn from then on.
LEMMA RxStepNoRoom ==
  ASSUME RxInv, Rx!NoRoom
  PROVE  RxInv'
<1>1. /\ ipc = "scan" /\ ipc' = "none" /\ bdp' = 0 /\ rx_cur' = rx_cur
      /\ UNCHANGED <<arrived, missed, filling, qe_cur, bd, flip, passed, dropped, opens>>
  BY DEF Rx!NoRoom, Rx!qeVars, Rx!portVars
<1>2. /\ ucce' = ucce /\ deferred' = TRUE /\ torn' = (torn \/ bdp # rx_cur)
      /\ rxOpened' = rxOpened /\ pending' = TRUE
  BY Zenon DEF Rx!NoRoom, Rx!portVars
<1>3. ~torn' => ~torn /\ Rx!Cur' = Rx!Cur
  <2>1. ~torn' => ~torn /\ bdp = rx_cur
    BY <1>2, Zenon
  <2>2. bdp = rx_cur => Rx!Cur' = Rx!Cur
    BY <1>1 DEF Rx!Cur
  <2>3. QED
    BY <2>1, <2>2, Zenon
<1>4. RxNumT' /\ RxPcT'
  BY <1>1, RxSizes DEF RxInv, RxNumT, RxPcT, Rx!BDs
<1>5. RxFlagT'
  BY <1>2, Zenon DEF RxInv, RxFlagT
<1>6. RxHandled'
  BY <1>2, Zenon DEF RxHandled
<1>7. QED
  BY <1>1, <1>3, <1>4, <1>5, <1>6, RxQuiet, Zenon DEF RxInv

\* The loop ends at an EMPTY descriptor: all descriptors are EMPTY then.
LEMMA RxStepAllRead ==
  ASSUME RxInv, Rx!AllRead
  PROVE  RxInv'
<1>1. /\ ipc = "scan" /\ ipc' = "exit" /\ bdp' = bdp /\ rx_cur' = rx_cur
      /\ UNCHANGED <<arrived, missed, filling, qe_cur, bd, flip, passed, dropped, opens>>
  BY DEF Rx!AllRead, Rx!qeVars, Rx!portVars, Rx!flipVars
<1>2. /\ ucce' = ucce /\ deferred' = deferred /\ torn' = torn
      /\ rxOpened' = rxOpened /\ pending' = pending
  BY Zenon DEF Rx!AllRead, Rx!portVars, Rx!flipVars, Rx!histVars
<1>3. Rx!Cur' = Rx!Cur /\ Rx!Cur = bdp
  BY <1>1 DEF Rx!Cur
<1>4. RxNumT' /\ RxPcT'
  BY <1>1 DEF RxInv, RxNumT, RxPcT
<1>5. RxFlagT'
  BY <1>2, Zenon DEF RxInv, RxFlagT
<1>6. ~torn => RxClosed = {}
  <2>1. SUFFICES ASSUME ~torn PROVE RxClosed = {}
    OBVIOUS
  <2>2. bdp \notin RxClosed
    BY Zenon DEF Rx!AllRead, RxClosed, Rx!IsClosed
  <2>3. RxAgreeing(RxClosed, qe_cur, bdp)
    BY <1>3, <2>1, Zenon DEF RxInv, RxRings
  <2>4. RxClosed \in SUBSET Rx!BDs /\ qe_cur \in Rx!BDs /\ bdp \in Rx!BDs
    BY Zenon DEF RxInv, RxNumT, RxClosed
  <2>5. QED
    BY <2>2, <2>3, <2>4, RxAgreedEmpty, Zenon
<1>7. RxClosed' = RxClosed
  BY <1>1, RxQuiet
<1>8. RxHandled'
  BY <1>2, <1>6, <1>7, Zenon DEF RxHandled
<1>9. QED
  BY <1>1, <1>2, <1>3, <1>4, <1>5, <1>8, RxQuiet, Zenon DEF RxInv

\* rx_cur is written back: the handler's position stays.
LEMMA RxStepWriteBack ==
  ASSUME RxInv, Rx!WriteBack
  PROVE  RxInv'
<1>1. /\ ipc = "exit" /\ ipc' = "none" /\ rx_cur' = bdp /\ bdp' = 0
      /\ UNCHANGED <<arrived, missed, filling, qe_cur, bd, flip, passed, dropped, opens>>
  BY DEF Rx!WriteBack, Rx!qeVars, Rx!portVars
<1>2. /\ ucce' = ucce /\ deferred' = deferred /\ torn' = torn
      /\ rxOpened' = rxOpened /\ pending' = TRUE
  BY Zenon DEF Rx!WriteBack, Rx!portVars, Rx!histVars
<1>3. Rx!Cur' = Rx!Cur
  BY <1>1 DEF Rx!Cur
<1>4. RxNumT' /\ RxPcT'
  BY <1>1, RxSizes DEF RxInv, RxNumT, RxPcT, Rx!BDs
<1>5. RxFlagT'
  BY <1>2, Zenon DEF RxInv, RxFlagT
<1>6. ipc # "scan" /\ RxClosed' = RxClosed
  BY <1>1, RxQuiet
<1>7. RxHandled'
  BY <1>2, <1>6, Zenon DEF RxInv, RxHandled
<1>8. QED
  BY <1>1, <1>2, <1>3, <1>4, <1>5, <1>7, RxQuiet, Zenon DEF RxInv

\* The port is opened.
LEMMA RxStepStartup ==
  ASSUME RxInv, Rx!xr_startup_ucc
  PROVE  RxInv'
<1>1. /\ ipc' = ipc /\ bdp' = bdp /\ rx_cur' = rx_cur /\ opens < MaxOpen /\ opens' = opens + 1
      /\ UNCHANGED <<arrived, missed, filling, qe_cur, bd, flip, passed, dropped>>
  BY DEF Rx!xr_startup_ucc, Rx!qeVars, Rx!flipVars
<1>2. /\ ucce' = ucce /\ deferred' = deferred /\ torn' = torn
      /\ rxOpened' = TRUE /\ pending' = pending
  BY Zenon DEF Rx!xr_startup_ucc, Rx!flipVars, Rx!histVars
<1>3. Rx!Cur' = Rx!Cur
  BY <1>1 DEF Rx!Cur
<1>4. RxNumT' /\ RxPcT'
  BY <1>1, RxSizes DEF RxInv, RxNumT, RxPcT
<1>5. RxFlagT'
  BY <1>2, Zenon DEF RxInv, RxFlagT
<1>6. RxClosed' = RxClosed
  BY <1>1, RxQuiet
<1>7. RxHandled'
  BY <1>1, <1>2, <1>6, Zenon DEF RxInv, RxHandled
<1>8. QED
  BY <1>1, <1>2, <1>3, <1>4, <1>5, <1>7, RxQuiet, Zenon DEF RxInv

\* Nothing happens here.
LEMMA RxStepNone ==
  ASSUME RxInv, UNCHANGED rxVars
  PROVE  RxInv'
<1>1. /\ ipc' = ipc /\ bdp' = bdp /\ rx_cur' = rx_cur /\ opens' = opens
      /\ UNCHANGED <<arrived, missed, filling, qe_cur, bd, flip, passed, dropped>>
  BY DEF rxVars
<1>2. /\ ucce' = ucce /\ deferred' = deferred /\ torn' = torn
      /\ rxOpened' = rxOpened /\ pending' = pending
  BY Zenon DEF rxVars
<1>3. Rx!Cur' = Rx!Cur
  BY <1>1 DEF Rx!Cur
<1>4. RxNumT' /\ RxPcT'
  BY <1>1 DEF RxInv, RxNumT, RxPcT
<1>5. RxFlagT'
  BY <1>2, Zenon DEF RxInv, RxFlagT
<1>6. RxClosed' = RxClosed
  BY <1>1, RxQuiet
<1>7. RxHandled'
  BY <1>1, <1>2, <1>6, Zenon DEF RxInv, RxHandled
<1>8. QED
  BY <1>1, <1>2, <1>3, <1>4, <1>5, <1>7, RxQuiet, Zenon DEF RxInv

-----------------------------------------------------------------------------
(***************************************************************************)
(* Steps that move characters.                                             *)
(***************************************************************************)

\* A text gets one more character, after all others.
LEMMA RxOneCharMore ==
  ASSUME NEW s \in Seq(RxBytes), NEW x \in RxBytes
  PROVE  /\ Append(s, x) \in Seq(RxBytes) /\ Len(Append(s, x)) = Len(s) + 1
         /\ Rx!Chars(Append(s, x)) = Rx!Chars(s) \union {x}
         /\ Rx!Sorted(s) /\ RxBelow(Rx!Chars(s), {x}) => Rx!Sorted(Append(s, x))
<1>1. PICK t : t = Append(s, x)
  OBVIOUS
<1>2. PICK n \in Nat : n = Len(s)
  OBVIOUS
<1>3. /\ t \in Seq(RxBytes) /\ Len(t) = n + 1
      /\ \A k \in 1 .. n : t[k] = s[k]
      /\ t[n + 1] = x
  BY <1>1, <1>2
<1>4. DOMAIN s = 1 .. n /\ DOMAIN t = 1 .. n + 1
  BY <1>2, <1>3
<1>5. x # 0 /\ x \in Nat
  BY RxSizes DEF RxBytes
<1>6. Rx!Chars(t) = Rx!Chars(s) \union {x}
  <2>1. ASSUME NEW c \in Rx!Chars(t) PROVE c \in Rx!Chars(s) \union {x}
    <3>1. PICK k \in 1 .. n + 1 : t[k] = c /\ c # 0
      BY <1>4, <2>1 DEF Rx!Chars, Rx!Mark
    <3>2. CASE k = n + 1
      BY <1>3, <3>1, <3>2
    <3>3. CASE k # n + 1
      <4>1. k \in 1 .. n /\ s[k] = c
        BY <1>3, <3>1, <3>3
      <4>2. c \in Rx!Chars(s)
        BY <1>4, <3>1, <4>1 DEF Rx!Chars, Rx!Mark
      <4>3. QED
        BY <4>2
    <3>4. QED
      BY <3>2, <3>3
  <2>2. ASSUME NEW c \in Rx!Chars(s) PROVE c \in Rx!Chars(t)
    <3>1. PICK k \in 1 .. n : s[k] = c /\ c # 0
      BY <1>4, <2>2 DEF Rx!Chars, Rx!Mark
    <3>2. k \in 1 .. n + 1 /\ t[k] = c
      BY <1>3, <3>1
    <3>3. QED
      BY <1>4, <3>1, <3>2 DEF Rx!Chars, Rx!Mark
  <2>3. x \in Rx!Chars(t)
    <3>1. n + 1 \in DOMAIN t /\ t[n + 1] = x
      BY <1>3, <1>4
    <3>2. QED
      BY <1>5, <3>1 DEF Rx!Chars, Rx!Mark
  <2>4. QED
    BY <2>1, <2>2, <2>3
<1>7. ASSUME Rx!Sorted(s), RxBelow(Rx!Chars(s), {x}) PROVE Rx!Sorted(t)
  <2> SUFFICES ASSUME NEW k \in DOMAIN t, NEW l \in DOMAIN t, k < l, t[k] # 0, t[l] # 0
               PROVE  t[k] < t[l]
    BY DEF Rx!Sorted, Rx!Mark
  <2>1. k \in 1 .. n /\ t[k] = s[k]
    BY <1>3, <1>4
  <2>2. CASE l = n + 1
    <3>1. s[k] \in Rx!Chars(s)
      BY <1>4, <2>1 DEF Rx!Chars, Rx!Mark
    <3>2. QED
      BY <1>3, <1>7, <2>1, <2>2, <3>1 DEF RxBelow
  <2>3. CASE l # n + 1
    <3>1. l \in 1 .. n /\ t[l] = s[l]
      BY <1>3, <1>4, <2>3
    <3>2. QED
      BY <1>4, <1>7, <2>1, <3>1 DEF Rx!Sorted, Rx!Mark
  <2>4. QED
    BY <2>2, <2>3
<1>8. QED
  BY <1>1, <1>2, <1>3, <1>6, <1>7

\* The engine receives a character.
LEMMA RxStepReceive ==
  ASSUME RxInv, Rx!QeReceive
  PROVE  RxInv'
<1>1. /\ ipc' = ipc /\ bdp' = bdp /\ rx_cur' = rx_cur /\ opens' = opens /\ qe_cur' = qe_cur
      /\ bd' = bd /\ flip' = flip /\ passed' = passed /\ dropped' = dropped
      /\ arrived < MaxByte /\ arrived' = arrived + 1
  BY DEF Rx!QeReceive, Rx!portVars, Rx!flipVars
<1>2. /\ ucce' = ucce /\ deferred' = deferred /\ torn' = torn
      /\ rxOpened' = rxOpened /\ pending' = pending
  BY Zenon DEF Rx!QeReceive, Rx!portVars, Rx!flipVars, Rx!histVars
<1>3. \/ /\ bd[qe_cur].empty /\ Len(filling) < RX_BUF_SIZE
         /\ filling' = Append(filling, arrived + 1) /\ missed' = missed
      \/ missed' = missed \union {arrived + 1} /\ filling' = filling
  BY Zenon DEF Rx!QeReceive
<1>4. /\ RxNumT /\ RxSeqT /\ RxBdT /\ RxFlagT /\ RxPcT /\ RxShape /\ RxFills /\ RxHandled
      /\ ~torn => RxSorted /\ RxStream /\ RxRings
  BY DEF RxInv
<1>5. arrived \in Nat /\ arrived + 1 \in RxBytes /\ qe_cur \in Rx!BDs
  BY <1>1, <1>4, RxSizes DEF RxNumT, RxBytes
<1>6. Rx!Cur' = Rx!Cur /\ Rx!Cur \in Rx!BDs
  BY <1>1, RxPlace DEF Rx!Cur
<1>7. RxClosed' = RxClosed /\ RxHeld' = RxHeld /\ RxBdT' /\ RxShape'
  BY <1>1, <1>4, RxBdSame
<1>8. RxNumT' /\ RxPcT'
  <2>1. missed' \subseteq RxBytes
    BY <1>3, <1>4, <1>5, Zenon DEF RxNumT, RxBytes
  <2>2. QED
    BY <1>1, <1>4, <2>1, RxSizes DEF RxNumT, RxPcT, RxBytes
<1>9. RxFlagT'
  BY <1>2, <1>4, Zenon DEF RxFlagT
<1>10. RxHandled'
  BY <1>1, <1>2, <1>4, <1>7, Zenon DEF RxHandled
<1>11. RxRings => RxRings'
  BY <1>1, <1>6, <1>7, Zenon DEF RxRings
<1>12. filling \in Seq(RxBytes) /\ flip \in RxTexts /\ passed \in RxTexts
  BY <1>4 DEF RxSeqT
<1>13. PICK P \in RxSets, F \in RxSets, L \in RxSets, X \in [Rx!BDs -> RxSets] :
         P = Rx!Chars(passed) /\ F = Rx!Chars(flip) /\ L = Rx!Chars(filling) /\ X = RxHeld
  BY <1>4, RxPlaces
<1>14. PICK n \in Nat : n = arrived
  BY <1>5
<1>15. PICK g : g = missed \union dropped
  OBVIOUS
<1>16. g = missed \union dropped /\ n = arrived
  BY <1>14, <1>15
<1>17. ASSUME RxStream
       PROVE  /\ g \subseteq 0 .. n
              /\ RxOrdered(P, F, X, L, Rx!Cur) /\ RxComplete(P, F, X, L, n, g)
              /\ RxOrdered(P, F, X, L \union {n + 1}, Rx!Cur)
              /\ RxComplete(P, F, X, L \union {n + 1}, n + 1, g)
              /\ RxComplete(P, F, X, L, n + 1, g \union {n + 1})
  <2>1. g \subseteq 0 .. n /\ RxOrdered(P, F, X, L, Rx!Cur) /\ RxComplete(P, F, X, L, n, g)
    BY <1>13, <1>16, <1>17, Zenon DEF RxStream
  <2>2. QED
    BY <1>6, <2>1, RxOneMore
<1>18. /\ Rx!Chars(passed)' = P /\ Rx!Chars(flip)' = F /\ RxHeld' = X /\ arrived' = n + 1
       /\ Rx!Cur' = Rx!Cur
  BY <1>1, <1>6, <1>7, <1>13, <1>16, Zenon
<1>19. CASE /\ bd[qe_cur].empty /\ Len(filling) < RX_BUF_SIZE
            /\ filling' = Append(filling, arrived + 1) /\ missed' = missed
  <2>1. /\ filling' \in Seq(RxBytes) /\ Len(filling') = Len(filling) + 1
        /\ Rx!Chars(filling)' = L \union {n + 1}
        /\ Rx!Sorted(filling) /\ RxBelow(L, {n + 1}) => Rx!Sorted(filling)'
    BY <1>5, <1>12, <1>13, <1>16, <1>19, RxOneCharMore
  <2>2. RxSeqT'
    <3>1. Len(filling') <= RX_BUF_SIZE
      BY <1>12, <1>19, <2>1, RxSizes
    <3>2. QED
      BY <1>1, <1>4, <2>1, <3>1 DEF RxSeqT
  <2>3. RxFills'
    <3>1. qe_cur \notin RxClosed
      BY <1>19, Zenon DEF RxClosed, Rx!IsClosed
    <3>2. QED
      BY <1>1, <1>7, <3>1, Zenon DEF RxFills
  <2>4. (missed \union dropped)' = g
    BY <1>1, <1>16, <1>19, Zenon
  <2>5. RxStream => RxStream'
    <3>1. SUFFICES ASSUME RxStream PROVE RxStream'
      OBVIOUS
    <3>2. g \subseteq 0 .. n + 1
      BY <1>17, <3>1
    <3>3. QED
      BY <1>17, <1>18, <2>1, <2>4, <3>1, <3>2, Zenon DEF RxStream
  <2>6. RxStream /\ RxSorted => RxSorted'
    <3>1. SUFFICES ASSUME RxStream, RxSorted PROVE RxSorted'
      OBVIOUS
    <3>2. \A a \in L : a < n + 1
      BY <1>17, <3>1 DEF RxComplete, RxSets
    <3>3. RxBelow(L, {n + 1})
      BY <3>2 DEF RxBelow
    <3>4. QED
      BY <1>1, <2>1, <3>1, <3>3, Zenon DEF RxSorted
  <2>7. QED
    BY <1>2, <1>4, <1>7, <1>8, <1>9, <1>10, <1>11, <2>2, <2>3, <2>5, <2>6, Zenon DEF RxInv
<1>20. CASE missed' = missed \union {arrived + 1} /\ filling' = filling
  <2>1. Rx!Chars(filling)' = L
    BY <1>13, <1>20, Zenon
  <2>2. RxSeqT'
    BY <1>1, <1>4, <1>20, Zenon DEF RxSeqT
  <2>3. RxFills'
    BY <1>1, <1>4, <1>7, <1>20, Zenon DEF RxFills
  <2>4. (missed \union dropped)' = g \union {n + 1}
    BY <1>1, <1>16, <1>20
  <2>5. RxStream => RxStream'
    <3>1. SUFFICES ASSUME RxStream PROVE RxStream'
      OBVIOUS
    <3>2. g \union {n + 1} \subseteq 0 .. n + 1
      BY <1>17, <3>1
    <3>3. QED
      BY <1>17, <1>18, <2>1, <2>4, <3>1, <3>2, Zenon DEF RxStream
  <2>6. RxSorted => RxSorted'
    BY <1>1, <1>20, Zenon DEF RxSorted
  <2>7. QED
    BY <1>2, <1>4, <1>7, <1>8, <1>9, <1>10, <1>11, <2>2, <2>3, <2>5, <2>6, Zenon DEF RxInv
<1>21. QED
  BY <1>3, <1>19, <1>20, Zenon

\* One descriptor is replaced.
LEMMA RxBdPut ==
  ASSUME RxBdT, NEW q \in Rx!BDs,
         NEW d \in [empty : BOOLEAN, data : Seq(RxBytes), ov : BOOLEAN],
         bd' = [bd EXCEPT ![q] = d], d.empty <=> d.data = <<>>
  PROVE  /\ RxBdT'
         /\ RxClosed' = IF d.empty THEN RxClosed \ {q} ELSE RxClosed \union {q}
         /\ RxHeld' = [RxHeld EXCEPT ![q] = Rx!Chars(d.data)]
         /\ RxShape => RxShape'
         /\ \A i \in Rx!BDs : i # q => bd'[i] = bd[i]
         /\ bd'[q] = d
<1>1. bd'[q] = d /\ \A i \in Rx!BDs : i # q => bd'[i] = bd[i]
  BY DEF RxBdT
<1>2. RxBdT'
  BY DEF RxBdT
<1>3. RxClosed' = IF d.empty THEN RxClosed \ {q} ELSE RxClosed \union {q}
  <2>1. \A i \in Rx!BDs : i \in RxClosed' <=> ~bd'[i].empty
    BY Zenon DEF RxClosed, Rx!IsClosed
  <2>2. \A i \in Rx!BDs : i \in RxClosed <=> ~bd[i].empty
    BY Zenon DEF RxClosed, Rx!IsClosed
  <2>3. RxClosed' \subseteq Rx!BDs /\ RxClosed \subseteq Rx!BDs
    BY Zenon DEF RxClosed
  <2>4. CASE d.empty
    <3>1. \A i : i \in RxClosed' <=> i \in RxClosed \ {q}
      BY <1>1, <2>1, <2>2, <2>3, <2>4, Zenon
    <3>2. QED
      BY <2>4, <3>1, Zenon
  <2>5. CASE ~d.empty
    <3>1. \A i : i \in RxClosed' <=> i \in RxClosed \union {q}
      BY <1>1, <2>1, <2>2, <2>3, <2>5, Zenon
    <3>2. RxClosed' = RxClosed \union {q}
      BY <3>1, Zenon
    <3>3. QED
      BY <2>5, <3>2, Zenon
  <2>6. QED
    BY <2>4, <2>5, Zenon
<1>4. RxHeld' = [RxHeld EXCEPT ![q] = Rx!Chars(d.data)]
  <2>1. RxHeld' = [i \in Rx!BDs |-> Rx!Chars(bd'[i].data)]
    BY Zenon DEF RxHeld
  <2>2. \A i \in Rx!BDs : Rx!Chars(bd'[i].data) = IF i = q THEN Rx!Chars(d.data) ELSE Rx!Chars(bd[i].data)
    <3> TAKE i \in Rx!BDs
    <3>1. i = q => Rx!Chars(bd'[i].data) = Rx!Chars(d.data)
      BY <1>1, Zenon
    <3>2. i # q => Rx!Chars(bd'[i].data) = Rx!Chars(bd[i].data)
      BY <1>1, Zenon
    <3>3. QED
      BY <3>1, <3>2
  <2>3. QED
    BY <2>1, <2>2 DEF RxHeld
<1>5. RxShape => RxShape'
  <2>1. SUFFICES ASSUME RxShape, NEW i \in Rx!BDs PROVE i \in RxClosed' <=> bd'[i].data # <<>>
    BY Zenon DEF RxShape
  <2>2. CASE i = q
    BY <1>1, <2>2, Zenon DEF RxClosed, Rx!IsClosed
  <2>3. CASE i # q
    BY <1>1, <2>1, <2>3, Zenon DEF RxShape, RxClosed, Rx!IsClosed
  <2>4. QED
    BY <2>2, <2>3
<1>6. QED
  BY <1>1, <1>2, <1>3, <1>4, <1>5

\* The engine closes a descriptor.
LEMMA RxStepClose ==
  ASSUME RxInv, Rx!QeClose
  PROVE  RxInv'
<1>1. /\ ipc' = ipc /\ bdp' = bdp /\ rx_cur' = rx_cur /\ opens' = opens
      /\ qe_cur' = Rx!Succ(qe_cur) /\ filling # <<>> /\ filling' = <<>>
      /\ arrived' = arrived /\ missed' = missed
      /\ flip' = flip /\ passed' = passed /\ dropped' = dropped
  BY DEF Rx!QeClose, Rx!portVars, Rx!flipVars
<1>2. /\ ucce' = TRUE /\ deferred' = deferred /\ torn' = torn
      /\ rxOpened' = rxOpened /\ pending' = pending
  BY Zenon DEF Rx!QeClose, Rx!portVars, Rx!flipVars, Rx!histVars
<1>3. PICK d : /\ d \in {[empty |-> FALSE, data |-> filling, ov |-> ov] : ov \in BOOLEAN}
               /\ bd' = [bd EXCEPT ![qe_cur] = d]
  BY Zenon DEF Rx!QeClose
<1>4. /\ RxNumT /\ RxSeqT /\ RxBdT /\ RxFlagT /\ RxPcT /\ RxShape /\ RxFills /\ RxHandled
      /\ ~torn => RxSorted /\ RxStream /\ RxRings
  BY DEF RxInv
<1>5. arrived \in Nat /\ qe_cur \in Rx!BDs /\ qe_cur' \in Rx!BDs
  BY <1>1, <1>4, RxSizes, RxDistanceNext DEF RxNumT
<1>6. Rx!Cur' = Rx!Cur /\ Rx!Cur \in Rx!BDs
  BY <1>1, RxPlace DEF Rx!Cur
<1>7. /\ d \in [empty : BOOLEAN, data : Seq(RxBytes), ov : BOOLEAN]
      /\ ~d.empty /\ d.data = filling
  <2>1. filling \in Seq(RxBytes)
    BY <1>4 DEF RxSeqT
  <2>2. PICK ov \in BOOLEAN : d = [empty |-> FALSE, data |-> filling, ov |-> ov]
    BY <1>3, Zenon
  <2>3. QED
    BY <2>1, <2>2
<1>8. qe_cur \notin RxClosed
  BY <1>1, <1>4, Zenon DEF RxFills
<1>9. /\ RxBdT' /\ RxShape'
      /\ RxClosed' = RxClosed \union {qe_cur}
      /\ RxHeld' = [RxHeld EXCEPT ![qe_cur] = Rx!Chars(filling)]
      /\ \A i \in Rx!BDs : i # qe_cur => bd'[i] = bd[i]
      /\ bd'[qe_cur].data = filling
  <2>1. d.empty <=> d.data = <<>>
    BY <1>1, <1>7, Zenon
  <2>2. /\ RxBdT'
        /\ RxClosed' = IF d.empty THEN RxClosed \ {qe_cur} ELSE RxClosed \union {qe_cur}
        /\ RxHeld' = [RxHeld EXCEPT ![qe_cur] = Rx!Chars(d.data)]
        /\ RxShape => RxShape'
        /\ \A i \in Rx!BDs : i # qe_cur => bd'[i] = bd[i]
        /\ bd'[qe_cur] = d
    BY <1>3, <1>4, <1>5, <1>7, <2>1, RxBdPut, Zenon
  <2>3. QED
    BY <1>4, <1>7, <2>2, Zenon
<1>10. RxNumT' /\ RxPcT'
  BY <1>1, <1>4, <1>5 DEF RxNumT, RxPcT
<1>11. RxSeqT'
  BY <1>1, <1>4, RxSizes DEF RxSeqT
<1>12. RxFlagT'
  BY <1>2, <1>4, Zenon DEF RxFlagT
<1>13. RxFills' /\ RxHandled'
  BY <1>1, <1>2, Zenon DEF RxFills, RxHandled
<1>14. ASSUME RxSorted PROVE RxSorted'
  <2>1. \A i \in Rx!BDs : Rx!Sorted(bd[i].data)'
    <3> TAKE i \in Rx!BDs
    <3>1. CASE i = qe_cur
      BY <1>9, <1>14, <3>1, Zenon DEF RxSorted
    <3>2. CASE i # qe_cur
      BY <1>9, <1>14, <3>2, Zenon DEF RxSorted
    <3>3. QED
      BY <3>1, <3>2
  <2>2. Rx!Sorted(filling)'
    BY <1>1, RxNoChars, Zenon
  <2>3. QED
    BY <1>1, <1>14, <2>1, <2>2, Zenon DEF RxSorted
<1>15. RxClosed \in SUBSET Rx!BDs
  BY Zenon DEF RxClosed
<1>16. ASSUME RxRings PROVE RxRings'
  <2>1. RxAgreeing(RxClosed \union {qe_cur}, Rx!Succ(qe_cur), Rx!Cur)
    BY <1>5, <1>6, <1>8, <1>15, <1>16, RxAgreedClosed, Zenon DEF RxRings
  <2>2. QED
    BY <1>1, <1>6, <1>9, <2>1, Zenon DEF RxRings
<1>17. ASSUME RxRings, RxStream PROVE RxStream'
  <2>1. PICK P \in RxSets, F \in RxSets, L \in RxSets, X \in [Rx!BDs -> RxSets] :
          P = Rx!Chars(passed) /\ F = Rx!Chars(flip) /\ L = Rx!Chars(filling) /\ X = RxHeld
    BY <1>4, RxPlaces
  <2>2. PICK Y : Y = [X EXCEPT ![qe_cur] = L]
    OBVIOUS
  <2>3. PICK g : g = missed \union dropped
    OBVIOUS
  <2>4. \A i \in Rx!BDs : i \notin RxClosed => X[i] = {}
    <3> TAKE i \in Rx!BDs
    <3>1. ASSUME i \notin RxClosed PROVE X[i] = {}
      <4>1. bd[i].data = <<>>
        BY <1>4, <3>1, Zenon DEF RxShape
      <4>2. X[i] = Rx!Chars(bd[i].data)
        BY <2>1 DEF RxHeld
      <4>3. QED
        BY <4>1, <4>2, RxNoChars
    <3>2. QED
      BY <3>1
  <2>5. \A j \in Rx!BDs : RxDist(qe_cur, Rx!Cur) < RxDist(j, Rx!Cur) => X[j] = {}
    BY <1>5, <1>6, <1>8, <1>15, <1>17, <2>4, RxAgreedEmpty, Zenon DEF RxRings
  <2>6. g \subseteq 0 .. arrived /\ RxOrdered(P, F, X, L, Rx!Cur) /\ RxComplete(P, F, X, L, arrived, g)
    BY <1>17, <2>1, <2>3, Zenon DEF RxStream
  <2>7. RxOrdered(P, F, Y, {}, Rx!Cur) /\ RxComplete(P, F, Y, {}, arrived, g)
    BY <1>5, <1>6, <1>8, <2>2, <2>4, <2>5, <2>6, RxOneClosed, Zenon
  <2>8. /\ Rx!Chars(passed)' = P /\ Rx!Chars(flip)' = F /\ Rx!Chars(filling)' = {} /\ RxHeld' = Y
        /\ (missed \union dropped)' = g /\ arrived' = arrived
    BY <1>1, <1>9, <2>1, <2>2, <2>3, RxNoChars, Zenon
  <2>9. QED
    BY <1>6, <2>6, <2>7, <2>8, Zenon DEF RxStream
<1>18. QED
  BY <1>2, <1>4, <1>9, <1>10, <1>11, <1>12, <1>13, <1>14, <1>16, <1>17, Zenon DEF RxInv

\* What a descriptor puts into the flip buffer: its characters, and at most one
\* place more for the mark.
LEMMA RxCharacters ==
  ASSUME NEW d \in [empty : BOOLEAN, data : Seq(RxBytes), ov : BOOLEAN], d.data # <<>>
  PROVE  /\ Rx!Characters(d) \in RxTexts
         /\ Len(Rx!Characters(d)) <= Len(d.data) + 1
         /\ Rx!Chars(Rx!Characters(d)) = Rx!Chars(d.data)
         /\ Rx!Sorted(d.data) => Rx!Sorted(Rx!Characters(d))
<1>1. PICK x : x = d.data
  OBVIOUS
<1>2. x \in Seq(RxBytes) /\ x \in RxTexts /\ x # <<>> /\ \A k \in 1 .. Len(x) : x[k] # 0
  BY <1>1, RxSizes DEF RxBytes, RxTexts
<1>3. PICK y : y = Rx!Characters(d)
  OBVIOUS
<1>4. CASE d.ov
  <2>1. y = SubSeq(x, 1, Len(x) - 1) \o <<0, x[Len(x)]>>
    BY <1>1, <1>3, <1>4 DEF Rx!Characters, Rx!Mark
  <2>2. 0 \in 0 .. MaxByte /\ x \in Seq(0 .. MaxByte)
    BY <1>2, RxSizes DEF RxTexts
  <2>3. /\ y \in Seq(0 .. MaxByte) /\ Len(y) = Len(x) + 1 /\ Rx!Chars(y) = Rx!Chars(x)
        /\ Rx!Sorted(x) => Rx!Sorted(y)
    BY <1>2, <2>1, <2>2, RxMarked, Zenon
  <2>4. Len(y) <= Len(x) + 1
    BY <1>2, <2>3
  <2>5. QED
    BY <1>1, <1>3, <2>3, <2>4, Zenon DEF RxTexts
<1>5. CASE ~d.ov
  <2>1. y = x
    BY <1>1, <1>3, <1>5 DEF Rx!Characters
  <2>2. Len(y) <= Len(x) + 1
    BY <1>2, <2>1
  <2>3. QED
    BY <1>1, <1>2, <1>3, <2>1, <2>2, Zenon
<1>6. QED
  BY <1>4, <1>5

\* The handler copies a descriptor: it fits, with the mark.
LEMMA RxStepCopy ==
  ASSUME RxInv, Rx!CopyBd
  PROVE  RxInv'
<1>1. /\ ipc = "scan" /\ ipc' = ipc /\ bdp' = Rx!Succ(bdp) /\ rx_cur' = rx_cur /\ opens' = opens
      /\ qe_cur' = qe_cur /\ filling' = filling
      /\ arrived' = arrived /\ missed' = missed /\ passed' = passed /\ dropped' = dropped
      /\ flip' = Rx!InsertFlip(flip, Rx!Characters(bd[bdp]))
  BY DEF Rx!CopyBd, Rx!qeVars, Rx!portVars
<1>2. /\ ucce' = ucce /\ deferred' = deferred /\ torn' = torn
      /\ rxOpened' = rxOpened /\ pending' = pending
  BY Zenon DEF Rx!CopyBd, Rx!portVars, Rx!histVars
<1>3. ~bd[bdp].empty /\ Rx!RoomFor(Len(bd[bdp].data))
  BY Zenon DEF Rx!CopyBd
<1>4. /\ RxNumT /\ RxSeqT /\ RxBdT /\ RxFlagT /\ RxPcT /\ RxShape /\ RxFills
      /\ ~torn => RxSorted /\ RxStream /\ RxRings
  BY DEF RxInv
<1>5. arrived \in Nat /\ qe_cur \in Rx!BDs /\ bdp \in Rx!BDs /\ bdp' \in Rx!BDs
  BY <1>1, <1>4, RxSizes, RxDistanceNext DEF RxNumT
<1>6. Rx!Cur = bdp /\ Rx!Cur' = Rx!Succ(bdp)
  BY <1>1 DEF Rx!Cur
<1>7. bdp \in RxClosed /\ RxClosed \in SUBSET Rx!BDs
  BY <1>3, <1>5, Zenon DEF RxClosed, Rx!IsClosed
<1>8. PICK d \in [empty : BOOLEAN, data : Seq(RxBytes), ov : BOOLEAN] : d = bd[bdp]
  BY <1>4, <1>5 DEF RxBdT
<1>9. d.data # <<>> /\ d.data \in RxTexts
  <2>1. d.data # <<>>
    BY <1>4, <1>5, <1>7, <1>8, Zenon DEF RxShape
  <2>2. d.data \in RxTexts
    BY <1>4, <1>5, <1>8, RxPlaces, Zenon
  <2>3. QED
    BY <2>1, <2>2
<1>10. PICK w \in RxTexts : /\ w = Rx!Characters(d) /\ Len(w) <= Len(d.data) + 1
                            /\ Rx!Chars(w) = Rx!Chars(d.data)
                            /\ Rx!Sorted(d.data) => Rx!Sorted(w)
  BY <1>9, RxCharacters, Zenon
<1>11. flip \in RxTexts /\ flip' = flip \o w /\ Len(flip') <= TTY_FLIPBUF_SIZE
  <2>1. flip \in RxTexts
    BY <1>4 DEF RxSeqT
  <2>2. flip' = Rx!InsertFlip(flip, w)
    BY <1>1, <1>8, <1>10, Zenon
  <2>3. Len(flip) < TTY_FLIPBUF_SIZE - Len(d.data)
    BY <1>3, <1>8, Zenon DEF Rx!RoomFor
  <2>4. Len(flip) \in Nat /\ Len(w) \in Nat /\ Len(d.data) \in Nat
    BY <1>9, <2>1 DEF RxTexts
  <2>5. Len(flip) + Len(w) <= TTY_FLIPBUF_SIZE
    BY <1>10, <2>3, <2>4, RxSizes
  <2>6. flip' = flip \o w
    BY <2>2, <2>5 DEF Rx!InsertFlip
  <2>7. Len(flip \o w) = Len(flip) + Len(w)
    BY <2>1 DEF RxTexts
  <2>8. QED
    BY <2>1, <2>5, <2>6, <2>7
<1>12. /\ flip' \in RxTexts
       /\ Rx!Chars(flip)' = Rx!Chars(flip) \union Rx!Chars(d.data)
       /\ Rx!Sorted(flip) /\ Rx!Sorted(w) /\ Rx!Before(flip, w) => Rx!Sorted(flip)'
  BY <1>10, <1>11, RxJoin, ZenonT(40)
<1>13. /\ RxBdT' /\ RxShape'
       /\ RxClosed' = RxClosed \ {bdp}
       /\ RxHeld' = [RxHeld EXCEPT ![bdp] = {}]
       /\ \A i \in Rx!BDs : i # bdp => bd'[i] = bd[i]
       /\ bd'[bdp].data = <<>>
  <2>1. PICK e \in [empty : BOOLEAN, data : Seq(RxBytes), ov : BOOLEAN] :
          e = [empty |-> TRUE, data |-> <<>>, ov |-> FALSE]
    <3>1. <<>> \in Seq(RxBytes)
      OBVIOUS
    <3>2. [empty |-> TRUE, data |-> <<>>, ov |-> FALSE]
            \in [empty : BOOLEAN, data : Seq(RxBytes), ov : BOOLEAN]
      BY <3>1, Zenon
    <3>3. QED
      BY <3>2
  <2>2. e.empty /\ e.data = <<>>
    BY <2>1
  <2>3. bd' = [bd EXCEPT ![bdp] = e]
    BY <2>1, Zenon DEF Rx!CopyBd
  <2>4. /\ RxBdT'
        /\ RxClosed' = IF e.empty THEN RxClosed \ {bdp} ELSE RxClosed \union {bdp}
        /\ RxHeld' = [RxHeld EXCEPT ![bdp] = Rx!Chars(e.data)]
        /\ RxShape => RxShape'
        /\ \A i \in Rx!BDs : i # bdp => bd'[i] = bd[i]
        /\ bd'[bdp] = e
    BY <1>4, <1>5, <2>2, <2>3, RxBdPut, Zenon
  <2>5. QED
    BY <1>4, <2>2, <2>4, RxNoChars, Zenon
<1>14. RxNumT' /\ RxPcT'
  BY <1>1, <1>4, <1>5 DEF RxNumT, RxPcT
<1>15. RxSeqT'
  BY <1>1, <1>4, <1>11, <1>12, Zenon DEF RxSeqT
<1>16. RxFlagT'
  BY <1>2, <1>4, Zenon DEF RxFlagT
<1>17. RxFills' /\ RxHandled'
  BY <1>1, <1>4, <1>13, Zenon DEF RxFills, RxHandled
<1>18. ASSUME RxRings PROVE RxRings'
  <2>1. RxAgreeing(RxClosed \ {bdp}, qe_cur, Rx!Succ(bdp))
    BY <1>5, <1>6, <1>7, <1>18, RxAgreedCopied, Zenon DEF RxRings
  <2>2. QED
    BY <1>1, <1>6, <1>13, <2>1, Zenon DEF RxRings
<1>19. ASSUME RxStream, RxSorted PROVE RxStream' /\ RxSorted'
  <2>1. PICK P \in RxSets, F \in RxSets, L \in RxSets, X \in [Rx!BDs -> RxSets] :
          P = Rx!Chars(passed) /\ F = Rx!Chars(flip) /\ L = Rx!Chars(filling) /\ X = RxHeld
    BY <1>4, RxPlaces
  <2>2. PICK Y : Y = [X EXCEPT ![bdp] = {}]
    OBVIOUS
  <2>3. PICK g : g = missed \union dropped
    OBVIOUS
  <2>4. X[bdp] = Rx!Chars(d.data)
    BY <1>5, <1>8, <2>1 DEF RxHeld
  <2>5. g \subseteq 0 .. arrived /\ RxOrdered(P, F, X, L, bdp) /\ RxComplete(P, F, X, L, arrived, g)
    BY <1>6, <1>19, <2>1, <2>3, Zenon DEF RxStream
  <2>6. /\ RxBelow(F, X[bdp]) /\ RxOrdered(P, F \union X[bdp], Y, L, Rx!Succ(bdp))
        /\ RxComplete(P, F \union X[bdp], Y, L, arrived, g)
    BY <1>5, <2>2, <2>5, RxOneCopied, Zenon
  <2>7. /\ Rx!Chars(passed)' = P /\ Rx!Chars(flip)' = F \union X[bdp] /\ Rx!Chars(filling)' = L
        /\ RxHeld' = Y /\ (missed \union dropped)' = g /\ arrived' = arrived
    BY <1>1, <1>12, <1>13, <2>1, <2>2, <2>3, <2>4, Zenon
  <2>8. RxStream'
    BY <1>6, <2>5, <2>6, <2>7, Zenon DEF RxStream
  <2>9. Rx!Sorted(flip)'
    <3>1. Rx!Before(flip, w)
      BY <1>10, <2>1, <2>4, <2>6, Zenon DEF Rx!Before, RxBelow
    <3>2. Rx!Sorted(flip) /\ Rx!Sorted(w)
      BY <1>5, <1>8, <1>10, <1>19, Zenon DEF RxSorted
    <3>3. QED
      BY <1>12, <3>1, <3>2, Zenon
  <2>10. \A i \in Rx!BDs : Rx!Sorted(bd[i].data)'
    <3> TAKE i \in Rx!BDs
    <3>1. CASE i = bdp
      BY <1>13, <3>1, RxNoChars, Zenon
    <3>2. CASE i # bdp
      BY <1>13, <1>19, <3>2, Zenon DEF RxSorted
    <3>3. QED
      BY <3>1, <3>2
  <2>11. RxSorted'
    BY <1>1, <1>19, <2>9, <2>10, Zenon DEF RxSorted
  <2>12. QED
    BY <2>8, <2>11
<1>20. QED
  BY <1>2, <1>4, <1>13, <1>14, <1>15, <1>16, <1>17, <1>18, <1>19, Zenon DEF RxInv

\* The flip buffer is passed on or freed, and another one is used.
LEMMA RxStepFlip ==
  ASSUME RxInv, Rx!flush_to_ldisc \/ Rx!xr_shutdown_ucc
  PROVE  RxInv'
<1>1. /\ ipc' = ipc /\ bdp' = bdp /\ rx_cur' = rx_cur /\ opens' = opens
      /\ qe_cur' = qe_cur /\ filling' = filling /\ bd' = bd
      /\ arrived' = arrived /\ missed' = missed /\ flip' = <<>>
  BY DEF Rx!flush_to_ldisc, Rx!xr_shutdown_ucc, Rx!qeVars, Rx!portVars
<1>2. /\ ucce' = ucce /\ deferred' = deferred /\ torn' = torn
      /\ rxOpened' \in {rxOpened, FALSE} /\ pending' = FALSE
  <2>1. CASE Rx!flush_to_ldisc
    BY <2>1, Zenon DEF Rx!flush_to_ldisc, Rx!portVars, Rx!histVars
  <2>2. CASE Rx!xr_shutdown_ucc
    BY <2>2, Zenon DEF Rx!xr_shutdown_ucc, Rx!histVars
  <2>3. QED
    BY <2>1, <2>2
<1>3. \/ passed' = passed \o flip /\ dropped' = dropped
      \/ passed' = passed /\ dropped' = dropped \union {flip[i] : i \in 1 .. Len(flip)}
  BY Zenon DEF Rx!flush_to_ldisc, Rx!xr_shutdown_ucc
<1>4. /\ RxNumT /\ RxSeqT /\ RxBdT /\ RxFlagT /\ RxPcT /\ RxShape /\ RxFills /\ RxHandled
      /\ ~torn => RxSorted /\ RxStream /\ RxRings
  BY DEF RxInv
<1>5. arrived \in Nat /\ flip \in RxTexts /\ passed \in RxTexts
  BY <1>4, RxSizes DEF RxNumT, RxSeqT
<1>6. Rx!Cur' = Rx!Cur /\ Rx!Cur \in Rx!BDs
  BY <1>1, RxPlace DEF Rx!Cur
<1>7. RxClosed' = RxClosed /\ RxHeld' = RxHeld /\ RxBdT' /\ RxShape'
  BY <1>1, <1>4, RxBdSame
<1>8. PICK D : D = {flip[i] : i \in 1 .. Len(flip)}
  OBVIOUS
<1>9. D \subseteq 0 .. MaxByte /\ D \in {Rx!Chars(flip), Rx!Chars(flip) \union {0}}
  <2>1. \A a : a \in D <=> \E i \in 1 .. Len(flip) : flip[i] = a
    BY <1>8
  <2>2. D \subseteq 0 .. MaxByte
    <3>1. \A i \in 1 .. Len(flip) : flip[i] \in 0 .. MaxByte
      BY <1>5, ElementOfSeq DEF RxTexts
    <3>2. QED
      BY <2>1, <3>1, Zenon
  <2>3. \A a : a \in Rx!Chars(flip) <=> a \in D /\ a # 0
    BY <1>5, <2>1, RxChars, Zenon
  <2>4. QED
    BY <2>2, <2>3
<1>10. <<>> \in RxTexts /\ Len(<<>>) = 0 /\ Len(<<>>) <= TTY_FLIPBUF_SIZE
  BY RxSizes DEF RxTexts
<1>11. passed \o flip \in RxTexts
  BY <1>5, RxJoin
<1>12. RxSeqT'
  BY <1>1, <1>3, <1>4, <1>5, <1>10, <1>11, Zenon DEF RxSeqT
<1>13. RxNumT' /\ RxPcT'
  <2>1. dropped' \subseteq 0 .. MaxByte
    BY <1>3, <1>4, <1>8, <1>9, Zenon DEF RxNumT
  <2>2. QED
    BY <1>1, <1>4, <2>1, Zenon DEF RxNumT, RxPcT
<1>14. RxFlagT'
  BY <1>2, <1>4, Zenon DEF RxFlagT
<1>15. RxFills' /\ RxHandled'
  BY <1>1, <1>2, <1>4, <1>7, Zenon DEF RxFills, RxHandled
<1>16. RxRings => RxRings'
  BY <1>1, <1>6, <1>7, Zenon DEF RxRings
<1>17. ASSUME RxStream, RxSorted PROVE RxStream' /\ RxSorted'
  <2>1. PICK P \in RxSets, F \in RxSets, L \in RxSets, X \in [Rx!BDs -> RxSets] :
          P = Rx!Chars(passed) /\ F = Rx!Chars(flip) /\ L = Rx!Chars(filling) /\ X = RxHeld
    BY <1>4, RxPlaces
  <2>2. PICK g : g = missed \union dropped
    OBVIOUS
  <2>3. g \subseteq 0 .. arrived /\ RxOrdered(P, F, X, L, Rx!Cur) /\ RxComplete(P, F, X, L, arrived, g)
    BY <1>17, <2>1, <2>2, Zenon DEF RxStream
  <2>4. D \in {F, F \union {0}}
    BY <1>9, <2>1, Zenon
  <2>5. /\ RxOrdered(P \union F, {}, X, L, Rx!Cur) /\ RxComplete(P \union F, {}, X, L, arrived, g)
        /\ RxOrdered(P, {}, X, L, Rx!Cur) /\ RxComplete(P, {}, X, L, arrived, g \union D)
    BY <1>5, <1>6, <2>3, <2>4, RxFlipped, Zenon
  <2>6. /\ Rx!Chars(flip)' = {} /\ Rx!Chars(filling)' = L /\ RxHeld' = X /\ Rx!Sorted(flip)'
        /\ arrived' = arrived
    BY <1>1, <1>7, <2>1, RxNoChars, Zenon
  <2>7. CASE passed' = passed \o flip /\ dropped' = dropped
    <3>1. Rx!Chars(passed)' = P \union F
      BY <1>5, <2>1, <2>7, RxJoin, Zenon
    <3>2. (missed \union dropped)' = g
      BY <1>1, <2>2, <2>7, Zenon
    <3>3. RxStream'
      BY <1>6, <2>3, <2>5, <2>6, <3>1, <3>2, Zenon DEF RxStream
    <3>4. Rx!Before(passed, flip)
      BY <2>1, <2>3, Zenon DEF RxOrdered, RxBelow, Rx!Before
    <3>5. Rx!Sorted(passed)'
      BY <1>5, <1>17, <2>7, <3>4, RxJoin, Zenon DEF RxSorted
    <3>6. RxSorted'
      BY <1>1, <1>17, <2>6, <3>5, Zenon DEF RxSorted
    <3>7. QED
      BY <3>3, <3>6
  <2>8. CASE passed' = passed /\ dropped' = dropped \union D
    <3>1. (missed \union dropped)' = g \union D
      BY <1>1, <2>2, <2>8, Zenon
    <3>2. D \subseteq 0 .. arrived
      <4>1. F \subseteq 0 .. arrived
        BY <2>3 DEF RxComplete, RxSets
      <4>2. QED
        BY <1>5, <2>4, <4>1
    <3>3. g \union D \subseteq 0 .. arrived
      BY <2>3, <3>2, Zenon
    <3>4. Rx!Chars(passed)' = P
      BY <2>1, <2>8, Zenon
    <3>5. RxStream'
      BY <1>6, <2>5, <2>6, <3>1, <3>3, <3>4, Zenon DEF RxStream
    <3>6. RxSorted'
      BY <1>1, <1>17, <2>6, <2>8, Zenon DEF RxSorted
    <3>7. QED
      BY <3>5, <3>6
  <2>9. QED
    BY <1>3, <1>8, <2>7, <2>8, Zenon
<1>18. QED
  BY <1>2, <1>4, <1>7, <1>12, <1>13, <1>14, <1>15, <1>16, <1>17, Zenon DEF RxInv

\* The invariant holds at first.
LEMMA RxInitial == Rx!Init => RxInv
<1>1. SUFFICES ASSUME Rx!Init PROVE RxInv
  OBVIOUS
<1>2. /\ arrived = 0 /\ missed = {} /\ filling = <<>> /\ qe_cur = 0 /\ rx_cur = 0 /\ opens = 0
      /\ ipc = "none" /\ bdp = 0 /\ flip = <<>> /\ passed = <<>> /\ dropped = {}
  BY <1>1 DEF Rx!Init
<1>3. 0 \in Rx!BDs /\ Rx!Cur = 0
  BY <1>2, RxSizes DEF Rx!BDs, Rx!Cur
<1>4. RxNumT /\ RxPcT
  BY <1>2, <1>3, RxSizes DEF RxNumT, RxPcT
<1>5. RxSeqT
  BY <1>2, RxSizes DEF RxSeqT, RxTexts
<1>6. RxFlagT
  BY <1>1, Zenon DEF Rx!Init, RxFlagT
<1>7. RxBdT /\ \A i \in Rx!BDs : bd[i].empty /\ bd[i].data = <<>>
  <2>1. PICK e : e = [empty |-> TRUE, data |-> <<>>, ov |-> FALSE]
    OBVIOUS
  <2>2. e \in [empty : BOOLEAN, data : Seq(RxBytes), ov : BOOLEAN] /\ e.empty /\ e.data = <<>>
    <3>1. <<>> \in Seq(RxBytes)
      OBVIOUS
    <3>2. e \in [empty : BOOLEAN, data : Seq(RxBytes), ov : BOOLEAN]
      BY <2>1, <3>1, Zenon
    <3>3. QED
      BY <2>1, <3>2
  <2>3. bd = [i \in Rx!BDs |-> e]
    BY <1>1, <2>1, Zenon DEF Rx!Init
  <2>4. QED
    BY <2>2, <2>3 DEF RxBdT
<1>8. RxClosed = {}
  BY <1>7, Zenon DEF RxClosed, Rx!IsClosed
<1>9. RxShape /\ RxFills /\ RxHandled
  BY <1>2, <1>7, <1>8, Zenon DEF RxShape, RxFills, RxHandled
<1>10. RxSorted
  BY <1>2, <1>7, RxNoChars, Zenon DEF RxSorted
<1>11. RxRings
  <2>1. RxDist(0, 0) = 0 /\ \A i \in Rx!BDs : RxDist(i, 0) \in Nat
    BY <1>3, RxDistanceNext, RxSizes
  <2>2. QED
    BY <1>2, <1>3, <1>8, <2>1 DEF RxRings, RxAgreeing
<1>12. RxStream
  <2>1. PICK X : X = RxHeld
    OBVIOUS
  <2>2. \A i \in Rx!BDs : X[i] = {}
    BY <1>7, <2>1, RxNoChars DEF RxHeld
  <2>3. RxOrdered({}, {}, X, {}, 0)
    BY <2>2 DEF RxOrdered, RxBelow
  <2>4. RxComplete({}, {}, X, {}, 0, {})
    BY <2>2 DEF RxComplete
  <2>5. missed \union dropped = {} /\ {} \subseteq 0 .. arrived
    BY <1>2, Zenon
  <2>6. QED
    BY <1>2, <1>3, <2>1, <2>3, <2>4, <2>5, RxNoChars, Zenon DEF RxStream
<1>13. QED
  BY <1>4, <1>5, <1>6, <1>7, <1>9, <1>10, <1>11, <1>12 DEF RxInv

\* The invariant is kept.
LEMMA RxNext ==
  ASSUME RxInv, Rx!Next \/ UNCHANGED rxVars
  PROVE  RxInv'
  BY RxStepInt, RxStepNoRoom, RxStepAllRead, RxStepWriteBack, RxStepStartup, RxStepNone, RxStepReceive,
     RxStepClose, RxStepCopy, RxStepFlip, Zenon DEF Rx!Next

\* Whatever the sizes of the ring, of its buffers and of the flip buffer, the
\* QE port loses, repeats, overtakes and forgets no character (qe_uart_int_rx()),
\* as long as it never returned early with rx_cur not written back.
THEOREM ReceptionAlwaysKept == MCSpec => []MCRxKept
<1>1. MCInit => RxInv
  BY RxInitial, Zenon DEF MCInit
<1>2. RxInv /\ [PortsStep \/ LineStep \/ MuxStep \/ RxStep]_<<scene, vars, lnVars, muxVars, rxVars>> => RxInv'
  <2>1. [PortsStep \/ LineStep \/ MuxStep \/ RxStep]_<<scene, vars, lnVars, muxVars, rxVars>>
          => Rx!Next \/ UNCHANGED rxVars
    BY Zenon DEF PortsStep, LineStep, MuxStep, RxStep
  <2>2. QED
    BY <2>1, RxNext, Zenon
<1>3. RxInv => MCRxKept
  BY RxMeaning, Zenon DEF MCRxKept
<1>4. QED
  BY <1>1, <1>2, <1>3, PTL DEF MCSpec

-----------------------------------------------------------------------------
(* The clock multiplexer                                                   *)

\* The bits of a number below 16.
MuxBit(v, j) == (v \div <<1, 2, 4, 8>>[j + 1]) % 2 = 1

\* The four bits.
LEMMA MuxBitValues ==
  ASSUME NEW u
  PROVE  /\ MuxBit(u, 0) <=> (u \div 1) % 2 = 1
         /\ MuxBit(u, 1) <=> (u \div 2) % 2 = 1
         /\ MuxBit(u, 2) <=> (u \div 4) % 2 = 1
         /\ MuxBit(u, 3) <=> (u \div 8) % 2 = 1
<1>1. /\ <<1, 2, 4, 8>>[0 + 1] = 1 /\ <<1, 2, 4, 8>>[1 + 1] = 2
      /\ <<1, 2, 4, 8>>[2 + 1] = 4 /\ <<1, 2, 4, 8>>[3 + 1] = 8
  OBVIOUS
<1>2. QED
  BY <1>1, Zenon DEF MuxBit

\* What Bits() puts into a register.
LEMMA MuxBitsOf ==
  ASSUME NEW v, NEW s, NEW b
  PROVE  b \in Bits(v, s) <=> \E j \in 0 .. 3 : MuxBit(v, j) /\ b = s + j
  BY DEF Bits, MuxBit

\* Two numbers with the same bits are the same.
LEMMA MuxBitsTell ==
  ASSUME NEW v \in 0 .. 15, NEW w \in 0 .. 15, Bits(v, 0) = Bits(w, 0)
  PROVE  v = w
<1>1. \A j \in 0 .. 3 : MuxBit(v, j) <=> MuxBit(w, j)
  <2>1. \A b : (\E j \in 0 .. 3 : MuxBit(v, j) /\ b = 0 + j) <=> (\E j \in 0 .. 3 : MuxBit(w, j) /\ b = 0 + j)
    <3> TAKE b
    <3>1. b \in Bits(v, 0) <=> \E j \in 0 .. 3 : MuxBit(v, j) /\ b = 0 + j
      BY MuxBitsOf
    <3>2. b \in Bits(w, 0) <=> \E j \in 0 .. 3 : MuxBit(w, j) /\ b = 0 + j
      BY MuxBitsOf
    <3>3. QED
      BY <3>1, <3>2, Zenon
  <2>2. \A j \in 0 .. 3 : 0 + j = j
    OBVIOUS
  <2>3. QED
    BY <2>1, <2>2
<1>2. /\ (v \div 1) % 2 = 1 <=> (w \div 1) % 2 = 1
      /\ (v \div 2) % 2 = 1 <=> (w \div 2) % 2 = 1
      /\ (v \div 4) % 2 = 1 <=> (w \div 4) % 2 = 1
      /\ (v \div 8) % 2 = 1 <=> (w \div 8) % 2 = 1
  <2>1. 0 \in 0 .. 3 /\ 1 \in 0 .. 3 /\ 2 \in 0 .. 3 /\ 3 \in 0 .. 3
    OBVIOUS
  <2>2. QED
    BY <1>1, <2>1, MuxBitValues, Zenon
<1>3. QED
  BY <1>2

\* What a field holds after its bits were set: width w, place s.
LEMMA MuxFieldSet ==
  ASSUME NEW reg, NEW s \in Nat, NEW v, NEW w \in 1 .. 4,
         \A j \in 0 .. 3 : MuxBit(v, j) => j < w,
         Field(reg, s, w) \in {{}, Bits(v, 0)}
  PROVE  Field(reg \union Bits(v, s), s, w) = Bits(v, 0)
<1>1. \A i : i \in Field(reg \union Bits(v, s), s, w) <=> i \in Bits(v, 0)
  <2> TAKE i
  <2>1. ASSUME i \in Bits(v, 0) PROVE i \in Field(reg \union Bits(v, s), s, w)
    <3>1. PICK j \in 0 .. 3 : MuxBit(v, j) /\ i = 0 + j
      BY <2>1, MuxBitsOf
    <3>2. s + j \in Bits(v, s) /\ j < w
      BY <3>1, MuxBitsOf
    <3>3. i = j /\ i \in 0 .. w - 1
      BY <3>1, <3>2
    <3>4. QED
      BY <3>2, <3>3, Zenon DEF Field
  <2>2. ASSUME i \in Field(reg \union Bits(v, s), s, w) PROVE i \in Bits(v, 0)
    <3>1. i \in 0 .. w - 1 /\ (s + i \in reg \/ s + i \in Bits(v, s))
      BY <2>2, Zenon DEF Field
    <3>2. CASE s + i \in reg
      <4>1. i \in Field(reg, s, w)
        BY <3>1, <3>2, Zenon DEF Field
      <4>2. QED
        BY <4>1, Zenon
    <3>3. CASE s + i \in Bits(v, s)
      <4>1. PICK j \in 0 .. 3 : MuxBit(v, j) /\ s + i = s + j
        BY <3>3, MuxBitsOf
      <4>2. i = 0 + j
        BY <3>1, <4>1
      <4>3. QED
        BY <4>1, <4>2, MuxBitsOf
    <3>4. QED
      BY <3>1, <3>2, <3>3, Zenon
  <2>3. QED
    BY <2>1, <2>2, Zenon
<1>2. QED
  BY <1>1, Zenon

\* A field that is written anew.
LEMMA MuxFieldWritten ==
  ASSUME NEW reg, NEW s \in Nat, NEW v
  PROVE  Field((reg \ Nibble(s)) \union Bits(v, s), s, 4) = Bits(v, 0)
<1>1. Field(reg \ Nibble(s), s, 4) = {}
  <2>1. \A i \in 0 .. 4 - 1 : s + i \in Nibble(s)
    BY DEF Nibble
  <2>2. QED
    BY <2>1, Zenon DEF Field
<1>2. \A j \in 0 .. 3 : MuxBit(v, j) => j < 4
  OBVIOUS
<1>3. PICK r : r = reg \ Nibble(s)
  OBVIOUS
<1>4. Field(r, s, 4) \in {{}, Bits(v, 0)} /\ 4 \in 1 .. 4
  BY <1>1, <1>3
<1>5. Field(r \union Bits(v, s), s, 4) = Bits(v, 0)
  BY <1>2, <1>4, MuxFieldSet
<1>6. QED
  BY <1>3, <1>5

\* The other fields of the register stay as they are.
LEMMA MuxFieldApart ==
  ASSUME NEW reg, NEW t \in Nat, NEW w \in 1 .. 4, NEW A, NEW B,
         \A i \in 0 .. w - 1 : t + i \notin A /\ t + i \notin B
  PROVE  Field((reg \ A) \union B, t, w) = Field(reg, t, w)
<1>1. \A i : i \in Field((reg \ A) \union B, t, w) <=> i \in Field(reg, t, w)
  BY Zenon DEF Field
<1>2. QED
  BY <1>1, Zenon

\* The bits of a code are in its field.
LEMMA MuxBitsFit ==
  ASSUME NEW s \in Nat, NEW v, NEW w \in 1 .. 4, \A j \in 0 .. 3 : MuxBit(v, j) => j < w
  PROVE  Bits(v, s) \subseteq s .. s + w - 1
<1>1. SUFFICES ASSUME NEW b \in Bits(v, s) PROVE b \in s .. s + w - 1
  OBVIOUS
<1>2. PICK j \in 0 .. 3 : MuxBit(v, j) /\ b = s + j
  BY <1>1, MuxBitsOf
<1>3. j < w
  BY <1>2, Zenon
<1>4. QED
  BY <1>2, <1>3

-----------------------------------------------------------------------------
(***************************************************************************)
(* Where the fields are, and the codes.                                    *)
(***************************************************************************)

\* The place of a direction of a UCC.
MuxPlace(n, d) == CmxShift(n) + (IF d = "RX" THEN 4 ELSE 0)

\* The UCCs that share a register use different fields of its halves, and the
\* bits for grant, TSA and breakpoint are in the upper byte of a half.
LEMMA MuxPlaces ==
  ASSUME NEW n \in 0 .. 7, NEW m \in 0 .. 7, NEW d \in MuxDirs, NEW e \in MuxDirs
  PROVE  /\ CmxReg(n) \in 1 .. 4 /\ MuxPlace(n, d) \in 0 .. 28 /\ CmxShift(n) \in {0, 16}
         /\ CmxReg(n) = CmxReg(m) /\ (n # m \/ d # e)
               => MuxPlace(n, d) + 3 < MuxPlace(m, e) \/ MuxPlace(m, e) + 3 < MuxPlace(n, d)
         /\ MuxPlace(n, d) \in {0, 4, 16, 20}
<1>1. ASSUME NEW k \in 0 .. 7
      PROVE  /\ k % 2 \in 0 .. 1 /\ (k \div 2) % 2 \in 0 .. 1
             /\ k = 4 * (IF k > 3 THEN 1 ELSE 0) + 2 * ((k \div 2) % 2) + (k % 2)
  <2>1. PICK q \in 0 .. 3, b \in 0 .. 1 : k = 2 * q + b /\ q = k \div 2 /\ b = k % 2
    OBVIOUS
  <2>2. q % 2 \in 0 .. 1 /\ q = 2 * (IF q > 1 THEN 1 ELSE 0) + (q % 2)
    OBVIOUS
  <2>3. k > 3 <=> q > 1
    BY <2>1
  <2>4. QED
    BY <2>1, <2>2, <2>3
<1>2. ASSUME NEW k \in 0 .. 7 PROVE CmxReg(k) \in 1 .. 4 /\ CmxShift(k) \in {0, 16}
  BY <1>1 DEF CmxReg, CmxShift
<1>3. /\ d = "RX" \/ (d = "TX" /\ d # "RX")
      /\ e = "RX" \/ (e = "TX" /\ e # "RX")
  BY DEF MuxDirs
<1>4. CmxReg(n) = CmxReg(m) /\ n # m => CmxShift(n) # CmxShift(m)
  BY <1>1 DEF CmxReg, CmxShift
<1>5. QED
  BY <1>3, <1>4, <1>2 DEF MuxPlace

\* The directions of the TDMs have fields of their own.
LEMMA MuxTdmPlaces ==
  ASSUME NEW n \in 0 .. 3, NEW m \in 0 .. 3, NEW d \in MuxDirs, NEW e \in MuxDirs
  PROVE  /\ TdmShift(n, d) \in 0 .. 28 /\ SyncShift(n, d) \in 0 .. 30
         /\ n # m \/ d # e =>
              /\ TdmShift(n, d) + 3 < TdmShift(m, e) \/ TdmShift(m, e) + 3 < TdmShift(n, d)
              /\ SyncShift(n, d) + 1 < SyncShift(m, e) \/ SyncShift(m, e) + 1 < SyncShift(n, d)
<1>1. /\ d = "RX" \/ (d = "TX" /\ d # "RX")
      /\ e = "RX" \/ (e = "TX" /\ e # "RX")
  BY DEF MuxDirs
<1>2. QED
  BY <1>1 DEF TdmShift, SyncShift

\* A code is the place of the clock in its table.
LEMMA MuxCode ==
  ASSUME NEW T, NEW c
  PROVE  \/ Code(T, c) = 0 /\ \A i \in DOMAIN T : T[i] # c
         \/ Code(T, c) \in DOMAIN T /\ T[Code(T, c)] = c
  BY DEF Code

\* The tables have fewer entries than a field has values.
LEMMA MuxTables ==
  /\ \A r \in 1 .. 4 : \A c : Code(CmxSources[r], c) \in 0 .. 11
  /\ \A n \in 0 .. 3, d \in MuxDirs : \A c : Code(TdmSources(n, d), c) \in 0 .. 7
  /\ \A n \in 0 .. 3 : \A c : Code(SyncSources(n), c) \in 0 .. 2
<1>1. ASSUME NEW r \in 1 .. 4 PROVE DOMAIN CmxSources[r] \subseteq 1 .. 11
  BY DEF CmxSources
<1>2. ASSUME NEW n \in 0 .. 3, NEW d \in MuxDirs PROVE DOMAIN TdmSources(n, d) = 1 .. 7
  BY DEF TdmSources
<1>3. ASSUME NEW n \in 0 .. 3 PROVE DOMAIN SyncSources(n) = 1 .. 2
  BY DEF SyncSources
<1>4. ASSUME NEW T, NEW c, NEW b \in Nat, DOMAIN T \subseteq 1 .. b PROVE Code(T, c) \in 0 .. b
  BY <1>4, MuxCode
<1>5. QED
  BY <1>1, <1>2, <1>3, <1>4

\* The codes of syncs fit into their fields of two bits.
LEMMA MuxNarrow ==
  /\ \A v \in 0 .. 2, j \in 0 .. 3 : MuxBit(v, j) => j < 2
  /\ \A v, j : j \in 0 .. 3 => (MuxBit(v, j) => j < 4)
  /\ Bits(0, 0) = {}
<1>1. \A v \in 0 .. 2 : (v \div 4) % 2 = 0 /\ (v \div 8) % 2 = 0 /\ 1 # 0
  OBVIOUS
<1>2. \A v \in 0 .. 2 : ~MuxBit(v, 2) /\ ~MuxBit(v, 3)
  BY <1>1, MuxBitValues, Zenon
<1>3. \A v \in 0 .. 2, j \in 0 .. 3 : MuxBit(v, j) => j < 2
  BY <1>2
<1>4. Bits(0, 0) = {}
  <2>1. ~MuxBit(0, 0) /\ ~MuxBit(0, 1) /\ ~MuxBit(0, 2) /\ ~MuxBit(0, 3)
    <3>1. (0 \div 1) % 2 = 0 /\ (0 \div 2) % 2 = 0 /\ (0 \div 4) % 2 = 0 /\ (0 \div 8) % 2 = 0 /\ 1 # 0
      OBVIOUS
    <3>2. QED
      BY <3>1, MuxBitValues, Zenon
  <2>2. \A j \in 0 .. 3 : ~MuxBit(0, j)
    BY <2>1
  <2>3. \A b : b \notin Bits(0, 0)
    BY <2>2, MuxBitsOf
  <2>4. QED
    BY <2>3
<1>5. QED
  BY <1>3, <1>4

\* Two fields of w bits do not overlap.
MuxBeside(s, t, w) == s + (w - 1) < t \/ t + (w - 1) < s
MuxFits(v, w)      == \A j \in 0 .. 3 : MuxBit(v, j) => j < w

\* Setting bits in one field leaves the other ones alone.
LEMMA MuxFieldBeside ==
  ASSUME NEW reg, NEW s \in Nat, NEW t \in Nat, NEW w \in 1 .. 4, NEW v,
         MuxFits(v, w), MuxBeside(s, t, w)
  PROVE  Field(reg \union Bits(v, s), t, w) = Field(reg, t, w)
<1>1. Bits(v, s) \subseteq s .. s + w - 1
  BY MuxBitsFit DEF MuxFits
<1>2. \A i \in 0 .. w - 1 : t + i \notin s .. s + w - 1
  BY DEF MuxBeside
<1>3. \A i \in 0 .. w - 1 : t + i \notin {} /\ t + i \notin Bits(v, s)
  BY <1>1, <1>2, Zenon
<1>4. PICK B : B = Bits(v, s)
  OBVIOUS
<1>5. Field((reg \ {}) \union B, t, w) = Field(reg, t, w)
  BY <1>3, <1>4, MuxFieldApart
<1>6. (reg \ {}) \union B = reg \union B
  BY Zenon
<1>7. QED
  BY <1>4, <1>5, <1>6

-----------------------------------------------------------------------------
(***************************************************************************)
(* The inductive invariant.                                                *)
(***************************************************************************)
MuxKeysT ==
  \A k \in DOMAIN muxed :
    \/ \E n \in MuxUccs, d \in MuxDirs : k = <<"ucc", n, d>>
    \/ \E n \in MuxTdms, d \in MuxDirs : k = <<"tdm", n, d>>
    \/ \E n \in MuxTdms, d \in MuxDirs : k = <<"sync", n, d>>

\* A UCC's field has the code of the clock that was routed to it.
MuxUccAt(n, d) ==
  <<"ucc", n, d>> \in DOMAIN muxed =>
    /\ Code(CmxSources[CmxReg(n)], muxed[<<"ucc", n, d>>]) # 0
    /\ Field(cmxucr[CmxReg(n)], MuxPlace(n, d), 4)
         = Bits(Code(CmxSources[CmxReg(n)], muxed[<<"ucc", n, d>>]), 0)

\* A TDM's field is zero until something is routed to it.
MuxTdmAt(n, d) ==
  /\ <<"tdm", n, d>> \notin DOMAIN muxed => Field(cmxsi1cr, TdmShift(n, d), 4) = {}
  /\ <<"tdm", n, d>> \in DOMAIN muxed /\ muxed[<<"tdm", n, d>>] # Mixed =>
       Field(cmxsi1cr, TdmShift(n, d), 4) = Bits(Code(TdmSources(n, d), muxed[<<"tdm", n, d>>]), 0)
MuxSyncAt(n, d) ==
  /\ <<"sync", n, d>> \notin DOMAIN muxed => Field(cmxsi1syr, SyncShift(n, d), 2) = {}
  /\ <<"sync", n, d>> \in DOMAIN muxed /\ muxed[<<"sync", n, d>>] # Mixed =>
       Field(cmxsi1syr, SyncShift(n, d), 2) = Bits(Code(SyncSources(n), muxed[<<"sync", n, d>>]), 0)

MuxInv ==
  /\ MuxTypeOK /\ MuxKeysT
  /\ \A n \in MuxUccs, d \in MuxDirs : MuxUccAt(n, d)
  /\ \A n \in MuxTdms, d \in MuxDirs : MuxTdmAt(n, d) /\ MuxSyncAt(n, d)

\* The invariant says what the property says.
LEMMA MuxMeaning ==
  ASSUME MuxInv
  PROVE  MuxKept
<1> SUFFICES ASSUME NEW k \in DOMAIN muxed, muxed[k] # Mixed
             PROVE  LET n == k[2]  d == k[3] IN
                    CASE k[1] = "ucc" ->
                           LET s == CmxShift(n) + (IF d = "RX" THEN 4 ELSE 0)  r == CmxReg(n) IN
                           \A c \in MuxClocks : Code(CmxSources[r], c) # 0 =>
                             ((Field(cmxucr[r], s, 4) = Bits(Code(CmxSources[r], c), 0)) <=> c = muxed[k])
                      [] k[1] = "tdm" ->
                           Field(cmxsi1cr, TdmShift(n, d), 4) = Bits(Code(TdmSources(n, d), muxed[k]), 0)
                      [] k[1] = "sync" ->
                           Field(cmxsi1syr, SyncShift(n, d), 2) = Bits(Code(SyncSources(n), muxed[k]), 0)
  BY DEF MuxInv, MuxKept
<1>1. CASE \E n \in MuxUccs, d \in MuxDirs : k = <<"ucc", n, d>>
  <2>1. PICK n \in MuxUccs, d \in MuxDirs : k = <<"ucc", n, d>>
    BY <1>1
  <2>2. k[1] = "ucc" /\ k[2] = n /\ k[3] = d
    BY <2>1
  <2>3. n \in 0 .. 7
    BY MuxAssumption
  <2>4. PICK T, v : T = CmxSources[CmxReg(n)] /\ v = Code(T, muxed[k])
    OBVIOUS
  <2>5. v # 0 /\ Field(cmxucr[CmxReg(n)], MuxPlace(n, d), 4) = Bits(v, 0)
    BY <2>1, <2>4, Zenon DEF MuxInv, MuxUccAt
  <2>6. ASSUME NEW c, Code(T, c) # 0 PROVE Bits(v, 0) = Bits(Code(T, c), 0) <=> c = muxed[k]
    <3>1. T[v] = muxed[k] /\ T[Code(T, c)] = c
      BY <2>4, <2>5, <2>6, MuxCode, Zenon
    <3>2. v \in 0 .. 15 /\ Code(T, c) \in 0 .. 15
      <4>1. CmxReg(n) \in 1 .. 4
        BY <2>3, MuxPlaces
      <4>2. v \in 0 .. 11 /\ Code(T, c) \in 0 .. 11
        BY <2>4, <4>1, MuxTables, Zenon
      <4>3. QED
        BY <4>2
    <3>3. Bits(v, 0) = Bits(Code(T, c), 0) => v = Code(T, c)
      BY <3>2, MuxBitsTell
    <3>4. c = muxed[k] => v = Code(T, c)
      BY <2>4, Zenon
    <3>5. QED
      BY <3>1, <3>3, <3>4, Zenon
  <2>7. \A c \in MuxClocks : Code(T, c) # 0 =>
          ((Field(cmxucr[CmxReg(n)], MuxPlace(n, d), 4) = Bits(Code(T, c), 0)) <=> c = muxed[k])
    BY <2>5, <2>6, Zenon
  <2>8. QED
    BY <2>2, <2>4, <2>7 DEF MuxPlace
<1>2. CASE \E n \in MuxTdms, d \in MuxDirs : k = <<"tdm", n, d>>
  <2>1. PICK n \in MuxTdms, d \in MuxDirs : k = <<"tdm", n, d>>
    BY <1>2
  <2>2. k[1] = "tdm" /\ k[2] = n /\ k[3] = d
    BY <2>1
  <2>3. Field(cmxsi1cr, TdmShift(n, d), 4) = Bits(Code(TdmSources(n, d), muxed[k]), 0)
    BY <2>1, Zenon DEF MuxInv, MuxTdmAt
  <2>4. QED
    BY <2>2, <2>3
<1>3. CASE \E n \in MuxTdms, d \in MuxDirs : k = <<"sync", n, d>>
  <2>1. PICK n \in MuxTdms, d \in MuxDirs : k = <<"sync", n, d>>
    BY <1>3
  <2>2. k[1] = "sync" /\ k[2] = n /\ k[3] = d
    BY <2>1
  <2>3. Field(cmxsi1syr, SyncShift(n, d), 2) = Bits(Code(SyncSources(n), muxed[k]), 0)
    BY <2>1, Zenon DEF MuxInv, MuxSyncAt
  <2>4. QED
    BY <2>2, <2>3
<1>4. QED
  BY <1>1, <1>2, <1>3, Zenon DEF MuxInv, MuxKeysT

\* The invariant holds at first.
LEMMA MuxInitial == MuxInit => MuxInv
<1>1. SUFFICES ASSUME MuxInit PROVE MuxInv
  OBVIOUS
<1>2. DOMAIN muxed = {}
  BY <1>1 DEF MuxInit
<1>3. MuxTypeOK
  BY <1>1 DEF MuxInit, MuxTypeOK
<1>4. MuxKeysT /\ \A n \in MuxUccs, d \in MuxDirs : MuxUccAt(n, d)
  BY <1>2, Zenon DEF MuxKeysT, MuxUccAt
<1>5. ASSUME NEW n \in MuxTdms, NEW d \in MuxDirs PROVE MuxTdmAt(n, d) /\ MuxSyncAt(n, d)
  <2>1. Field({}, TdmShift(n, d), 4) = {} /\ Field({}, SyncShift(n, d), 2) = {}
    BY Zenon DEF Field
  <2>2. QED
    BY <1>1, <1>2, <2>1, Zenon DEF MuxInit, MuxTdmAt, MuxSyncAt
<1>6. QED
  BY <1>3, <1>4, <1>5, Zenon DEF MuxInv

-----------------------------------------------------------------------------
\* What Routed() does to the record of what was routed.
LEMMA MuxRoutedTo ==
  ASSUME NEW k, NEW c, Routed(k, c)
  PROVE  /\ DOMAIN muxed' = DOMAIN muxed \union {k}
         /\ muxed'[k] = c
         /\ \A x \in DOMAIN muxed : x # k => muxed'[x] = muxed[x]
  BY DEF Routed

\* The keys are different when one of their parts is.
LEMMA MuxKeysApart ==
  ASSUME NEW u, NEW n, NEW d, NEW v, NEW m, NEW e, <<u, n, d>> = <<v, m, e>>
  PROVE  u = v /\ n = m /\ d = e
  OBVIOUS

\* A setting that is not about unit u leaves what was routed to it.
MuxLeft(u) ==
  \A n, d : /\ <<u, n, d>> \in DOMAIN muxed' <=> <<u, n, d>> \in DOMAIN muxed
            /\ <<u, n, d>> \in DOMAIN muxed => muxed'[<<u, n, d>>] = muxed[<<u, n, d>>]

LEMMA MuxOthersLeft ==
  ASSUME NEW u, NEW n, NEW d, NEW c, Routed(<<u, n, d>>, c)
  PROVE  \A v : v # u => MuxLeft(v)
<1> SUFFICES ASSUME NEW v, v # u, NEW m, NEW e
             PROVE  /\ <<v, m, e>> \in DOMAIN muxed' <=> <<v, m, e>> \in DOMAIN muxed
                    /\ <<v, m, e>> \in DOMAIN muxed => muxed'[<<v, m, e>>] = muxed[<<v, m, e>>]
  BY Zenon DEF MuxLeft
<1>1. PICK k : k = <<u, n, d>>
  OBVIOUS
<1>2. PICK l : l = <<v, m, e>>
  OBVIOUS
<1>3. l # k
  BY <1>1, <1>2, MuxKeysApart, Zenon
<1>4. /\ DOMAIN muxed' = DOMAIN muxed \union {k}
      /\ \A x \in DOMAIN muxed : x # k => muxed'[x] = muxed[x]
  BY <1>1, MuxRoutedTo, Zenon
<1>5. QED
  BY <1>2, <1>3, <1>4, Zenon

\* A register that is not written keeps its meaning.
LEMMA MuxUccSame ==
  ASSUME MuxInv, MuxLeft("ucc"), cmxucr' = cmxucr
  PROVE  \A n \in MuxUccs, d \in MuxDirs : MuxUccAt(n, d)'
  BY Zenon DEF MuxInv, MuxLeft, MuxUccAt

LEMMA MuxTdmSame ==
  ASSUME MuxInv, MuxLeft("tdm"), cmxsi1cr' = cmxsi1cr
  PROVE  \A n \in MuxTdms, d \in MuxDirs : MuxTdmAt(n, d)'
  BY Zenon DEF MuxInv, MuxLeft, MuxTdmAt

LEMMA MuxSyncSame ==
  ASSUME MuxInv, MuxLeft("sync"), cmxsi1syr' = cmxsi1syr
  PROVE  \A n \in MuxTdms, d \in MuxDirs : MuxSyncAt(n, d)'
  BY Zenon DEF MuxInv, MuxLeft, MuxSyncAt

\* No source is routed.
LEMMA MuxNothingRouted ==
  ASSUME muxed' = muxed
  PROVE  (\A u : MuxLeft(u)) /\ (MuxKeysT => MuxKeysT')
  BY Zenon DEF MuxLeft, MuxKeysT

\* A setting of a UCC that routes nothing.
LEMMA MuxStepType ==
  ASSUME MuxInv, NEW n \in MuxUccs, NEW speed \in {"slow", "fast"}, ucc_set_type(n, speed)
  PROVE  MuxInv'
<1>1. /\ guemr' = [guemr EXCEPT ![n] = speed] /\ cmxgcr' = cmxgcr /\ cmxucr' = cmxucr
      /\ cmxsi1cr' = cmxsi1cr /\ cmxsi1syr' = cmxsi1syr /\ muxed' = muxed
  BY DEF ucc_set_type
<1>2. MuxTypeOK'
  BY <1>1 DEF MuxInv, MuxTypeOK
<1>3. QED
  BY <1>1, <1>2, MuxNothingRouted, MuxUccSame, MuxTdmSame, MuxSyncSame, Zenon DEF MuxInv

\* The UCC that manages the MII bus.
LEMMA MuxStepMng ==
  ASSUME MuxInv, NEW n \in MuxUccs, ucc_set_qe_mux_mii_mng(n)
  PROVE  MuxInv'
<1>1. /\ cmxgcr' = n /\ guemr' = guemr /\ cmxucr' = cmxucr
      /\ cmxsi1cr' = cmxsi1cr /\ cmxsi1syr' = cmxsi1syr /\ muxed' = muxed
  BY DEF ucc_set_qe_mux_mii_mng
<1>2. MuxTypeOK'
  BY <1>1, MuxAssumption DEF MuxInv, MuxTypeOK
<1>3. QED
  BY <1>1, <1>2, MuxNothingRouted, MuxUccSame, MuxTdmSame, MuxSyncSame, Zenon DEF MuxInv

\* A grant, TSA or breakpoint bit: it is in no field.
LEMMA MuxStepGrant ==
  ASSUME MuxInv, NEW n \in MuxUccs, NEW set \in BOOLEAN, NEW bit \in {8, 14, 15},
         ucc_mux_set_grant_tsa_bkpt(n, set, bit)
  PROVE  MuxInv'
<1>1. PICK r, p : r = CmxReg(n) /\ p = bit + CmxShift(n)
  OBVIOUS
<1>2. n \in 0 .. 7
  BY MuxAssumption
<1>3. r \in 1 .. 4 /\ CmxShift(n) \in {0, 16}
  BY <1>1, <1>2, MuxPlaces DEF MuxDirs
<1>4. p \in 8 .. 15 \/ p \in 24 .. 31
  BY <1>1, <1>3
<1>5. /\ guemr' = guemr /\ cmxgcr' = cmxgcr
      /\ cmxsi1cr' = cmxsi1cr /\ cmxsi1syr' = cmxsi1syr /\ muxed' = muxed
  BY DEF ucc_mux_set_grant_tsa_bkpt
<1>6. PICK A \in {{}, {p}}, B \in {{}, {p}} :
        cmxucr' = [cmxucr EXCEPT ![r] = (cmxucr[r] \ A) \union B]
  <2>1. cmxucr' = [cmxucr EXCEPT ![r] = IF set THEN cmxucr[r] \union {p} ELSE cmxucr[r] \ {p}]
    BY <1>1 DEF ucc_mux_set_grant_tsa_bkpt
  <2>2. CASE set
    <3>1. cmxucr[r] \union {p} = (cmxucr[r] \ {}) \union {p}
      BY Zenon
    <3>2. cmxucr' = [cmxucr EXCEPT ![r] = (cmxucr[r] \ {}) \union {p}]
      BY <2>1, <2>2, <3>1
    <3>3. QED
      BY <3>2, Zenon
  <2>3. CASE ~set
    <3>1. cmxucr[r] \ {p} = (cmxucr[r] \ {p}) \union {}
      BY Zenon
    <3>2. cmxucr' = [cmxucr EXCEPT ![r] = (cmxucr[r] \ {p}) \union {}]
      BY <2>1, <2>3, <3>1
    <3>3. QED
      BY <3>2, Zenon
  <2>4. QED
    BY <2>2, <2>3
<1>7. cmxucr \in [1 .. 4 -> SUBSET (0 .. 31)]
  BY DEF MuxInv, MuxTypeOK
<1>8. MuxTypeOK'
  <2>1. (cmxucr[r] \ A) \union B \in SUBSET (0 .. 31)
    BY <1>3, <1>4, <1>7
  <2>2. QED
    BY <1>5, <1>6, <1>7, <2>1 DEF MuxInv, MuxTypeOK
<1>9. ASSUME NEW m \in MuxUccs, NEW e \in MuxDirs PROVE MuxUccAt(m, e)'
  <2>1. m \in 0 .. 7
    BY MuxAssumption
  <2>2. PICK q, t : q = CmxReg(m) /\ t = MuxPlace(m, e)
    OBVIOUS
  <2>3. q \in 1 .. 4 /\ t \in {0, 4, 16, 20}
    BY <2>1, <2>2, MuxPlaces
  <2>4. \A i \in 0 .. 4 - 1 : t + i # p
    BY <1>4, <2>3
  <2>5. \A i \in 0 .. 4 - 1 : t + i \notin A /\ t + i \notin B
    BY <2>4, Zenon
  <2>6. PICK old : old = cmxucr[q]
    OBVIOUS
  <2>7. Field(cmxucr'[q], t, 4) = Field(old, t, 4)
    <3>1. CASE q = r
      <4>1. cmxucr'[q] = (old \ A) \union B
        BY <1>6, <1>7, <2>3, <2>6, <3>1
      <4>2. t \in Nat /\ 4 \in 1 .. 4
        BY <2>3
      <4>3. Field((old \ A) \union B, t, 4) = Field(old, t, 4)
        BY <2>5, <4>2, MuxFieldApart
      <4>4. QED
        BY <4>1, <4>3
    <3>2. CASE q # r
      BY <1>6, <1>7, <2>3, <2>6, <3>2
    <3>3. QED
      BY <3>1, <3>2
  <2>8. MuxUccAt(m, e)
    BY Zenon DEF MuxInv
  <2>9. QED
    BY <1>5, <2>2, <2>6, <2>7, <2>8, Zenon DEF MuxUccAt
<1>10. QED
  BY <1>5, <1>8, <1>9, MuxNothingRouted, MuxTdmSame, MuxSyncSame, Zenon DEF MuxInv

-----------------------------------------------------------------------------
\* The keys of what is routed.
LEMMA MuxKeysKept ==
  ASSUME MuxKeysT, NEW k, NEW c, Routed(k, c),
         \/ \E n \in MuxUccs, d \in MuxDirs : k = <<"ucc", n, d>>
         \/ \E n \in MuxTdms, d \in MuxDirs : k = <<"tdm", n, d>>
         \/ \E n \in MuxTdms, d \in MuxDirs : k = <<"sync", n, d>>
  PROVE  MuxKeysT'
<1>1. DOMAIN muxed' = DOMAIN muxed \union {k}
  BY MuxRoutedTo, Zenon
<1>2. QED
  BY <1>1, Zenon DEF MuxKeysT

\* The clock of a UCC's direction: its field is written, and no other.
LEMMA MuxStepRxTx ==
  ASSUME MuxInv, NEW n \in MuxUccs, NEW c, NEW d \in MuxDirs, ucc_set_qe_mux_rxtx(n, c, d)
  PROVE  MuxInv'
<1>1. PICK r, s, v, k : /\ r = CmxReg(n) /\ s = MuxPlace(n, d) /\ v = Code(CmxSources[r], c)
                        /\ k = <<"ucc", n, d>>
  OBVIOUS
<1>2. n \in 0 .. 7
  BY MuxAssumption
<1>3. r \in 1 .. 4 /\ s \in 0 .. 28
  BY <1>1, <1>2, MuxPlaces
<1>4. /\ v # 0 /\ cmxucr' = [cmxucr EXCEPT ![r] = (cmxucr[r] \ Nibble(s)) \union Bits(v, s)]
      /\ Routed(k, c)
      /\ guemr' = guemr /\ cmxgcr' = cmxgcr
      /\ cmxsi1cr' = cmxsi1cr /\ cmxsi1syr' = cmxsi1syr
  BY <1>1 DEF ucc_set_qe_mux_rxtx, MuxPlace
<1>5. cmxucr \in [1 .. 4 -> SUBSET (0 .. 31)]
  BY DEF MuxInv, MuxTypeOK
<1>6. Bits(v, s) \subseteq s .. s + 3
  <2>1. s \in Nat /\ 4 \in 1 .. 4 /\ s + 4 - 1 = s + 3
    BY <1>3
  <2>2. \A j \in 0 .. 3 : MuxBit(v, j) => j < 4
    OBVIOUS
  <2>3. Bits(v, s) \subseteq s .. s + 4 - 1
    BY <2>1, <2>2, MuxBitsFit
  <2>4. QED
    BY <2>1, <2>3
<1>7. MuxTypeOK'
  <2>1. PICK new : new = (cmxucr[r] \ Nibble(s)) \union Bits(v, s)
    OBVIOUS
  <2>2. Bits(v, s) \subseteq 0 .. 31
    BY <1>3, <1>6
  <2>3. cmxucr[r] \subseteq 0 .. 31
    BY <1>3, <1>5
  <2>4. new \in SUBSET (0 .. 31)
    BY <2>1, <2>2, <2>3, Zenon
  <2>5. QED
    BY <1>4, <1>5, <2>1, <2>4 DEF MuxInv, MuxTypeOK
<1>8. MuxKeysT'
  BY <1>1, <1>4, MuxKeysKept, Zenon DEF MuxInv
<1>9. MuxLeft("tdm") /\ MuxLeft("sync")
  <2>1. "tdm" # "ucc" /\ "sync" # "ucc"
    OBVIOUS
  <2>2. QED
    BY <1>1, <1>4, <2>1, MuxOthersLeft, Zenon
<1>10. /\ DOMAIN muxed' = DOMAIN muxed \union {k} /\ muxed'[k] = c
       /\ \A x \in DOMAIN muxed : x # k => muxed'[x] = muxed[x]
  BY <1>4, MuxRoutedTo, Zenon
<1>11. ASSUME NEW m \in MuxUccs, NEW e \in MuxDirs PROVE MuxUccAt(m, e)'
  <2>1. m \in 0 .. 7
    BY MuxAssumption
  <2>2. PICK q, t, l : q = CmxReg(m) /\ t = MuxPlace(m, e) /\ l = <<"ucc", m, e>>
    OBVIOUS
  <2>3. /\ q \in 1 .. 4 /\ t \in 0 .. 28
        /\ q = r /\ (m # n \/ e # d) => t + 3 < s \/ s + 3 < t
    BY <1>1, <1>2, <2>1, <2>2, MuxPlaces
  <2>4. CASE m = n /\ e = d
    <3>1. q = r /\ t = s /\ l = k
      BY <1>1, <2>2, <2>4, Zenon
    <3>2. PICK old : old = cmxucr[r]
      OBVIOUS
    <3>3. cmxucr'[q] = (old \ Nibble(s)) \union Bits(v, s)
      BY <1>3, <1>4, <1>5, <3>1, <3>2
    <3>4. s \in Nat
      BY <1>3
    <3>5. Field((old \ Nibble(s)) \union Bits(v, s), s, 4) = Bits(v, 0)
      BY <3>4, MuxFieldWritten
    <3>6. Field(cmxucr'[q], t, 4) = Bits(v, 0)
      BY <3>1, <3>3, <3>5, Zenon
    <3>7. v = Code(CmxSources[q], muxed'[l])
      BY <1>1, <1>10, <3>1, Zenon
    <3>8. QED
      BY <1>4, <2>2, <3>6, <3>7, Zenon DEF MuxUccAt
  <2>5. CASE m # n \/ e # d
    <3>1. l # k
      BY <1>1, <2>2, <2>5, MuxKeysApart, Zenon
    <3>2. PICK old : old = cmxucr[q]
      OBVIOUS
    <3>3. Field(cmxucr'[q], t, 4) = Field(old, t, 4)
      <4>1. CASE q = r
        <5>1. cmxucr'[q] = (old \ Nibble(s)) \union Bits(v, s)
          BY <1>3, <1>4, <1>5, <3>2, <4>1
        <5>2. \A i \in 0 .. 4 - 1 : t + i \notin s .. s + 3
          BY <1>3, <2>3, <2>5, <4>1
        <5>3. \A i \in 0 .. 4 - 1 : t + i \notin Nibble(s) /\ t + i \notin Bits(v, s)
          BY <1>6, <5>2, Zenon DEF Nibble
        <5>4. t \in Nat /\ 4 \in 1 .. 4
          BY <2>3
        <5>5. PICK A, B : A = Nibble(s) /\ B = Bits(v, s)
          OBVIOUS
        <5>6. Field((old \ A) \union B, t, 4) = Field(old, t, 4)
          BY <5>3, <5>4, <5>5, MuxFieldApart
        <5>7. QED
          BY <5>1, <5>5, <5>6
      <4>2. CASE q # r
        BY <1>4, <1>5, <2>3, <3>2, <4>2
      <4>3. QED
        BY <4>1, <4>2
    <3>4. MuxUccAt(m, e)
      BY Zenon DEF MuxInv
    <3>5. QED
      BY <1>10, <2>2, <3>1, <3>2, <3>3, <3>4, Zenon DEF MuxUccAt
  <2>6. QED
    BY <2>4, <2>5
<1>12. QED
  BY <1>4, <1>7, <1>8, <1>9, <1>11, MuxTdmSame, MuxSyncSame, Zenon DEF MuxInv

\* The clock of a TDM's direction: bits are added to its field, and to no other.
LEMMA MuxStepClk ==
  ASSUME MuxInv, NEW n \in MuxTdms, NEW c, NEW d \in MuxDirs, ucc_set_tdm_rxtx_clk(n, c, d)
  PROVE  MuxInv'
<1>1. PICK s, v, k : s = TdmShift(n, d) /\ v = Code(TdmSources(n, d), c) /\ k = <<"tdm", n, d>>
  OBVIOUS
<1>2. PICK x : x = IF k \in DOMAIN muxed /\ muxed[k] # c THEN Mixed ELSE c
  OBVIOUS
<1>3. /\ cmxsi1cr' = cmxsi1cr \union Bits(v, s) /\ Routed(k, x)
      /\ guemr' = guemr /\ cmxgcr' = cmxgcr /\ cmxucr' = cmxucr /\ cmxsi1syr' = cmxsi1syr
  BY <1>1, <1>2 DEF ucc_set_tdm_rxtx_clk, AlsoRouted
<1>4. n \in 0 .. 3 /\ s \in 0 .. 28 /\ s \in Nat
  <2>1. n \in 0 .. 3
    BY MuxAssumption
  <2>2. s \in 0 .. 28
    BY <1>1, <2>1, MuxTdmPlaces
  <2>3. QED
    BY <2>1, <2>2
<1>5. \A j \in 0 .. 3 : MuxBit(v, j) => j < 4
  OBVIOUS
<1>6. Bits(v, s) \subseteq 0 .. 31
  <2>1. Bits(v, s) \subseteq s .. s + 4 - 1
    BY <1>4, <1>5, MuxBitsFit
  <2>2. QED
    BY <1>4, <2>1
<1>7. MuxTypeOK'
  <2>1. cmxsi1cr' \subseteq 0 .. 31
    BY <1>3, <1>6, Zenon DEF MuxInv, MuxTypeOK
  <2>2. QED
    BY <1>3, <2>1, Zenon DEF MuxInv, MuxTypeOK
<1>8. MuxKeysT'
  BY <1>1, <1>3, MuxKeysKept, Zenon DEF MuxInv
<1>9. MuxLeft("ucc") /\ MuxLeft("sync")
  <2>1. "ucc" # "tdm" /\ "sync" # "tdm"
    OBVIOUS
  <2>2. QED
    BY <1>1, <1>3, <2>1, MuxOthersLeft, Zenon
<1>10. /\ DOMAIN muxed' = DOMAIN muxed \union {k} /\ muxed'[k] = x
       /\ \A y \in DOMAIN muxed : y # k => muxed'[y] = muxed[y]
  BY <1>3, MuxRoutedTo, Zenon
<1>11. ASSUME NEW m \in MuxTdms, NEW e \in MuxDirs PROVE MuxTdmAt(m, e)'
  <2>1. MuxTdmAt(m, e)
    BY Zenon DEF MuxInv
  <2>2. CASE m = n /\ e = d
    <3>1. CASE x = Mixed
      BY <1>1, <1>10, <2>2, <3>1, Zenon DEF MuxTdmAt
    <3>2. CASE x # Mixed
      <4>1. x = c /\ (k \in DOMAIN muxed => muxed[k] = c)
        BY <1>2, <3>2
      <4>2. Field(cmxsi1cr, s, 4) = {} \/ Field(cmxsi1cr, s, 4) = Bits(v, 0)
        BY <1>1, <2>1, <2>2, <3>2, <4>1, Zenon DEF MuxTdmAt
      <4>3. PICK reg : reg = cmxsi1cr
        OBVIOUS
      <4>4. Field(reg, s, 4) \in {{}, Bits(v, 0)} /\ 4 \in 1 .. 4
        BY <4>2, <4>3
      <4>5. Field(reg \union Bits(v, s), s, 4) = Bits(v, 0)
        BY <1>4, <1>5, <4>4, MuxFieldSet
      <4>6. QED
        BY <1>1, <1>3, <1>10, <2>2, <4>1, <4>3, <4>5, Zenon DEF MuxTdmAt
    <3>3. QED
      BY <3>1, <3>2
  <2>3. CASE m # n \/ e # d
    <3>1. PICK l, t : l = <<"tdm", m, e>> /\ t = TdmShift(m, e)
      OBVIOUS
    <3>2. l # k
      BY <1>1, <2>3, <3>1, MuxKeysApart, Zenon
    <3>3. PICK w \in 1 .. 4 : w = 4
      OBVIOUS
    <3>4. t \in Nat /\ MuxBeside(s, t, w) /\ MuxFits(v, w)
      <4>1. m \in 0 .. 3
        BY MuxAssumption
      <4>2. t \in 0 .. 28 /\ (t + 3 < s \/ s + 3 < t)
        BY <1>1, <1>4, <2>3, <3>1, <4>1, MuxTdmPlaces
      <4>3. QED
        BY <1>4, <1>5, <3>3, <4>2 DEF MuxBeside, MuxFits
    <3>5. PICK reg : reg = cmxsi1cr
      OBVIOUS
    <3>6. Field(reg \union Bits(v, s), t, w) = Field(reg, t, w)
      BY <1>4, <3>4, <3>3, MuxFieldBeside
    <3>7. Field(reg \union Bits(v, s), t, 4) = Field(reg, t, 4)
      BY <3>3, <3>6, Zenon
    <3>8. QED
      BY <1>3, <1>10, <2>1, <3>1, <3>2, <3>5, <3>7, Zenon DEF MuxTdmAt
  <2>4. QED
    BY <2>2, <2>3
<1>12. QED
  BY <1>3, <1>7, <1>8, <1>9, <1>11, MuxUccSame, MuxSyncSame, Zenon DEF MuxInv

\* The sync of a TDM's direction, in fields of two bits.
LEMMA MuxStepSync ==
  ASSUME MuxInv, NEW n \in MuxTdms, NEW c, NEW d \in MuxDirs, ucc_set_tdm_rxtx_sync(n, c, d)
  PROVE  MuxInv'
<1>1. PICK s, v, k : s = SyncShift(n, d) /\ v = Code(SyncSources(n), c) /\ k = <<"sync", n, d>>
  OBVIOUS
<1>2. PICK x : x = IF k \in DOMAIN muxed /\ muxed[k] # c THEN Mixed ELSE c
  OBVIOUS
<1>3. /\ cmxsi1syr' = cmxsi1syr \union Bits(v, s) /\ Routed(k, x)
      /\ guemr' = guemr /\ cmxgcr' = cmxgcr /\ cmxucr' = cmxucr /\ cmxsi1cr' = cmxsi1cr
  BY <1>1, <1>2 DEF ucc_set_tdm_rxtx_sync, AlsoRouted
<1>4. n \in 0 .. 3 /\ s \in 0 .. 30 /\ s \in Nat
  <2>1. n \in 0 .. 3
    BY MuxAssumption
  <2>2. s \in 0 .. 30
    BY <1>1, <2>1, MuxTdmPlaces
  <2>3. QED
    BY <2>1, <2>2
<1>5. \A j \in 0 .. 3 : MuxBit(v, j) => j < 2
  <2>1. v \in 0 .. 2
    BY <1>1, <1>4, MuxTables, Zenon
  <2>2. QED
    BY <2>1, MuxNarrow, Zenon
<1>6. Bits(v, s) \subseteq 0 .. 31
  <2>1. Bits(v, s) \subseteq s .. s + 2 - 1
    BY <1>4, <1>5, MuxBitsFit
  <2>2. QED
    BY <1>4, <2>1
<1>7. MuxTypeOK'
  <2>1. cmxsi1syr' \subseteq 0 .. 31
    BY <1>3, <1>6, Zenon DEF MuxInv, MuxTypeOK
  <2>2. QED
    BY <1>3, <2>1, Zenon DEF MuxInv, MuxTypeOK
<1>8. MuxKeysT'
  BY <1>1, <1>3, MuxKeysKept, Zenon DEF MuxInv
<1>9. MuxLeft("ucc") /\ MuxLeft("tdm")
  <2>1. "ucc" # "sync" /\ "tdm" # "sync"
    OBVIOUS
  <2>2. QED
    BY <1>1, <1>3, <2>1, MuxOthersLeft, Zenon
<1>10. /\ DOMAIN muxed' = DOMAIN muxed \union {k} /\ muxed'[k] = x
       /\ \A y \in DOMAIN muxed : y # k => muxed'[y] = muxed[y]
  BY <1>3, MuxRoutedTo, Zenon
<1>11. ASSUME NEW m \in MuxTdms, NEW e \in MuxDirs PROVE MuxSyncAt(m, e)'
  <2>1. MuxSyncAt(m, e)
    BY Zenon DEF MuxInv
  <2>2. CASE m = n /\ e = d
    <3>1. CASE x = Mixed
      BY <1>1, <1>10, <2>2, <3>1, Zenon DEF MuxSyncAt
    <3>2. CASE x # Mixed
      <4>1. x = c /\ (k \in DOMAIN muxed => muxed[k] = c)
        BY <1>2, <3>2
      <4>2. Field(cmxsi1syr, s, 2) = {} \/ Field(cmxsi1syr, s, 2) = Bits(v, 0)
        BY <1>1, <2>1, <2>2, <3>2, <4>1, Zenon DEF MuxSyncAt
      <4>3. PICK reg : reg = cmxsi1syr
        OBVIOUS
      <4>4. Field(reg, s, 2) \in {{}, Bits(v, 0)} /\ 2 \in 1 .. 4
        BY <4>2, <4>3
      <4>5. Field(reg \union Bits(v, s), s, 2) = Bits(v, 0)
        BY <1>4, <1>5, <4>4, MuxFieldSet
      <4>6. QED
        BY <1>1, <1>3, <1>10, <2>2, <4>1, <4>3, <4>5, Zenon DEF MuxSyncAt
    <3>3. QED
      BY <3>1, <3>2
  <2>3. CASE m # n \/ e # d
    <3>1. PICK l, t : l = <<"sync", m, e>> /\ t = SyncShift(m, e)
      OBVIOUS
    <3>2. l # k
      BY <1>1, <2>3, <3>1, MuxKeysApart, Zenon
    <3>3. PICK w \in 1 .. 4 : w = 2
      OBVIOUS
    <3>4. t \in Nat /\ MuxBeside(s, t, w) /\ MuxFits(v, w)
      <4>1. m \in 0 .. 3
        BY MuxAssumption
      <4>2. t \in 0 .. 30 /\ (t + 1 < s \/ s + 1 < t)
        BY <1>1, <1>4, <2>3, <3>1, <4>1, MuxTdmPlaces
      <4>3. QED
        BY <1>4, <1>5, <3>3, <4>2 DEF MuxBeside, MuxFits
    <3>5. PICK reg : reg = cmxsi1syr
      OBVIOUS
    <3>6. Field(reg \union Bits(v, s), t, w) = Field(reg, t, w)
      BY <1>4, <3>4, <3>3, MuxFieldBeside
    <3>7. Field(reg \union Bits(v, s), t, 2) = Field(reg, t, 2)
      BY <3>3, <3>6, Zenon
    <3>8. QED
      BY <1>3, <1>10, <2>1, <3>1, <3>2, <3>5, <3>7, Zenon DEF MuxSyncAt
  <2>4. QED
    BY <2>2, <2>3
<1>12. QED
  BY <1>3, <1>7, <1>8, <1>9, <1>11, MuxUccSame, MuxTdmSame, Zenon DEF MuxInv

\* Nothing happens here.
LEMMA MuxStepNone ==
  ASSUME MuxInv, UNCHANGED muxVars
  PROVE  MuxInv'
<1>1. /\ guemr' = guemr /\ cmxgcr' = cmxgcr /\ cmxucr' = cmxucr
      /\ cmxsi1cr' = cmxsi1cr /\ cmxsi1syr' = cmxsi1syr /\ muxed' = muxed
  BY DEF muxVars
<1>2. MuxTypeOK'
  BY <1>1, Zenon DEF MuxInv, MuxTypeOK
<1>3. QED
  BY <1>1, <1>2, MuxNothingRouted, MuxUccSame, MuxTdmSame, MuxSyncSame, Zenon DEF MuxInv

\* Whatever UCCs, TDMs and clocks there are and however many calls are made,
\* every direction runs from the source routed to it last (ucc.c).
THEOREM ClocksAlwaysRouted == MuxSpec => []MuxKept
<1>1. MuxInv /\ [MuxNext]_muxVars => MuxInv'
  BY MuxStepType, MuxStepMng, MuxStepGrant, MuxStepRxTx, MuxStepClk, MuxStepSync, MuxStepNone, Zenon
     DEF MuxNext, MuxCall
<1>2. QED
  BY <1>1, MuxInitial, MuxMeaning, PTL DEF MuxSpec
=============================================================================
