------------------------------ MODULE AerInject ------------------------------
(***************************************************************************)
(* The PCIe AER error injector (aer_inject.c).  Processes write errors to  *)
(* the misc device at the same time; each call looks the device up, may    *)
(* override its error masks, records the error for the device and its root *)
(* port under inject_lock, replaces the config space operations of the two *)
(* buses by its own, and wakes the AER driver, which reads and clears the  *)
(* simulated status through those operations.  Unloading puts the original *)
(* operations back.                                                        *)
(*                                                                         *)
(* A status or a mask is a set of bits; only bit 0 survives `& 1'.         *)
(***************************************************************************)
EXTENDS Integers, Sequences

CONSTANTS
  AeDevs,      \* devices that can be injected into
  AeRoot,      \* their root port
  AeBusOf,     \* the bus of each
  AeProcs,     \* processes that write to the device
  AeAsks,      \* the errors they inject
  AeNone,      \* nothing
  AeFirstMask, \* masks of the devices at the beginning
  AE_CALLS     \* bound on the calls

AeNodes == AeDevs \cup {AeRoot}
AeBuses == {AeBusOf[n] : n \in AeNodes}
AeBits == 0..1
AeKinds == {"cor", "uncor"}
AeInjs == [dev : AeDevs, cor : SUBSET AeBits, uncor : SUBSET AeBits, fatal : BOOLEAN]

ASSUME AeAssumption ==
  /\ AeRoot \notin AeDevs /\ AeNodes \subseteq DOMAIN AeBusOf
  /\ AeAsks \subseteq AeInjs
  /\ AeFirstMask \in [AeKinds -> SUBSET AeBits]
  /\ AeNone \notin AeBuses /\ AE_CALLS \in Nat

VARIABLES
  aeOverride, \* the module parameter aer_mask_override
  aeMod,     \* live, leaving, restoring (an entry is popped), gone
  aeErr,     \* einjected: the status a node's entry simulates, or AeNone
  aeRootSt,  \* root_status of the root port's entry
  aeOps,     \* bus->ops: orig or aer
  aeList,    \* pci_bus_ops_list: the buses whose operations it remembers
  aePop,     \* the entry aer_inject_exit() has popped
  aeMask,    \* the error masks of a device
  aePc, aeInj, aeOld,  \* a call: where it is, what it injects, the masks it read
  aeCalls,   \* calls made
  aeRegs,    \* the device the static `regs' describe
  aeWork,    \* devices queued by aer_recover_queue(), whose work reads regs
  aeIrq,     \* aer_irq() was called: the AER driver has work to do
  aeRead,    \* what it has read from root_status and not cleared yet
  aeSeen     \* "overlap" (calls on one device met), "hurried" (regs filled
             \* while an earlier use was not over), "mixed" (regs used for
             \* another device), "null" (no original operations found)

aeListVars == <<aeErr, aeRootSt>>
aeBusVars == <<aeOps, aeList, aePop>>
aeCallVars == <<aePc, aeInj, aeOld, aeCalls>>
aeUserVars == <<aeRegs, aeWork, aeIrq, aeRead>>
aeVars == <<aeOverride, aeMod, aeListVars, aeBusVars, aeMask, aeCallVars, aeUserVars, aeSeen>>

AeEntry(st) == [cor : st, uncor : st]
RootBits == {"COR", "MULTI_COR", "UNCOR", "MULTI_UNCOR", "FATAL", "NONFATAL", "FIRST_FATAL"}
AeStages == {"idle", "override", "record", "fill", "restore", "swap1", "add1", "swap2", "add2", "tell"}

AeTypeOK ==
  /\ aeOverride \in BOOLEAN
  /\ aeMod \in {"live", "leaving", "restoring", "gone"}
  /\ aeErr \in [AeNodes -> AeEntry(SUBSET AeBits) \cup {AeNone}]
  /\ aeRootSt \subseteq RootBits
  /\ aeOps \in [AeBuses -> {"orig", "aer"}]
  /\ aeList \in Seq(AeBuses) /\ aePop \in AeBuses \cup {AeNone}
  /\ aeMask \in [AeDevs -> [AeKinds -> SUBSET AeBits]]
  /\ aePc \in [AeProcs -> AeStages]
  /\ aeInj \in [AeProcs -> AeInjs \cup {AeNone}]
  /\ aeOld \in [AeProcs -> [AeKinds -> SUBSET AeBits]]
  /\ aeCalls \in 0..AE_CALLS
  /\ aeRegs \in AeDevs \cup {AeNone}
  /\ aeWork \in Seq(AeDevs)
  /\ aeIrq \in BOOLEAN /\ aeRead \subseteq RootBits
  /\ aeSeen \subseteq {"overlap", "hurried", "mixed", "null"}

AeInit ==
  /\ aeOverride \in BOOLEAN
  /\ aeMod = "live" /\ aeErr = [n \in AeNodes |-> AeNone] /\ aeRootSt = {}
  /\ aeOps = [b \in AeBuses |-> "orig"] /\ aeList = <<>> /\ aePop = AeNone
  /\ aeMask = [d \in AeDevs |-> AeFirstMask]
  /\ aePc = [p \in AeProcs |-> "idle"] /\ aeInj = [p \in AeProcs |-> AeNone]
  /\ aeOld = [p \in AeProcs |-> AeFirstMask] /\ aeCalls = 0
  /\ aeRegs = AeNone /\ aeWork = <<>> /\ aeIrq = FALSE /\ aeRead = {}
  /\ aeSeen = {}

-----------------------------------------------------------------------------
(* aer_inject()                                                            *)

AeGoes(p, stage) == aePc' = [aePc EXCEPT ![p] = stage]

\* A call ends; its locals are gone.
AeReturn(p) ==
  /\ AeGoes(p, "idle")
  /\ aeInj' = [aeInj EXCEPT ![p] = AeNone]
  /\ aeOld' = [aeOld EXCEPT ![p] = AeFirstMask]

\* The device, its root port and both AER capabilities are found and the
\* entries allocated; otherwise the call returns before it changes anything.
aer_inject(p, e) ==
  /\ aeMod = "live" /\ aePc[p] = "idle" /\ aeCalls < AE_CALLS
  /\ aeCalls' = aeCalls + 1
  /\ aeInj' = [aeInj EXCEPT ![p] = e]
  /\ aeOld' = [aeOld EXCEPT ![p] = aeMask[e.dev]]
  /\ AeGoes(p, IF aeOverride THEN "override" ELSE "record")
  /\ aeSeen' = IF \E q \in AeProcs : aePc[q] # "idle" /\ aeInj[q].dev = e.dev
               THEN aeSeen \cup {"overlap"} ELSE aeSeen
  /\ UNCHANGED <<aeMod, aeListVars, aeBusVars, aeMask, aeUserVars>>

\* mask &= !(status): bit 0 stays when nothing is injected, and nothing when
\* something is.
Overridden(mask, status) == mask \cap (IF status = {} THEN {0} ELSE {})

OverrideMasks(p) ==
  LET e == aeInj[p] IN
  /\ aePc[p] = "override"
  /\ aeMask' = [aeMask EXCEPT ![e.dev] =
                 [cor |-> Overridden(aeOld[p]["cor"], e.cor),
                  uncor |-> Overridden(aeOld[p]["uncor"], e.uncor)]]
  /\ AeGoes(p, "record")
  /\ UNCHANGED <<aeMod, aeListVars, aeBusVars, aeInj, aeOld, aeCalls, aeUserVars, aeSeen>>

\* The device does not report what is injected.
MaskedOut(status, mask) == ~aeOverride /\ status # {} /\ status \subseteq mask

\* What the root port's status becomes.
RootAfter(e) ==
  LET cor == IF e.cor = {} THEN {} ELSE IF "COR" \in aeRootSt THEN {"MULTI_COR"} ELSE {"COR"}
      unc == IF e.uncor = {} THEN {}
             ELSE {"UNCOR"} \cup (IF "UNCOR" \in aeRootSt THEN {"MULTI_UNCOR"} ELSE {})
                    \cup (IF ~e.fatal THEN {"NONFATAL"}
                          ELSE {"FATAL"} \cup
                               (IF "UNCOR" \in aeRootSt THEN {} ELSE {"FIRST_FATAL"}))
  IN aeRootSt \cup cor \cup unc

\* Under inject_lock: the device's entry is found or made and gets the
\* status, whether or not the error then turns out to be masked; then the
\* root port's.
Record(p) ==
  LET e == aeInj[p]
      old == IF aeErr[e.dev] = AeNone THEN [cor |-> {}, uncor |-> {}] ELSE aeErr[e.dev]
      new == [cor |-> old.cor \cup e.cor, uncor |-> old.uncor \cup e.uncor]
      masked == MaskedOut(e.cor, aeOld[p]["cor"]) \/ MaskedOut(e.uncor, aeOld[p]["uncor"])
      root == IF aeErr[AeRoot] = AeNone THEN [cor |-> {}, uncor |-> {}] ELSE aeErr[AeRoot]
  IN
  /\ aePc[p] = "record"
  /\ IF masked
     THEN /\ aeErr' = [aeErr EXCEPT ![e.dev] = new]
          /\ AeReturn(p)                                 \* -EINVAL
          /\ UNCHANGED aeRootSt
     ELSE /\ aeErr' = [aeErr EXCEPT ![e.dev] = new, ![AeRoot] = root]
          /\ aeRootSt' = RootAfter(e)
          /\ AeGoes(p, "fill")
          /\ UNCHANGED <<aeInj, aeOld>>
  /\ UNCHANGED <<aeMod, aeBusVars, aeMask, aeCalls, aeUserVars, aeSeen>>

\* Call p has filled regs and goes on to use them.
AeFilled(p) == aePc[p] \notin {"idle", "override", "record", "fill"}

\* After the unlock the static regs are filled, without any lock.
FillRegs(p) ==
  /\ aePc[p] = "fill"
  /\ aeRegs' = aeInj[p].dev
  /\ aeSeen' = IF aeWork # <<>> \/ \E q \in AeProcs : AeFilled(q)
               THEN aeSeen \cup {"hurried"} ELSE aeSeen
  /\ AeGoes(p, "restore")
  /\ UNCHANGED <<aeMod, aeListVars, aeBusVars, aeMask, aeInj, aeOld, aeCalls, aeWork, aeIrq,
                 aeRead>>

NotRestored(d, old) == aeMask

\* The masks are put back as the call found them.
Restored(d, old) == IF aeOverride THEN [aeMask EXCEPT ![d] = old] ELSE aeMask

RestoreMasks(p) ==
  /\ aePc[p] = "restore"
  /\ aeMask' = Restored(aeInj[p].dev, aeOld[p])
  /\ AeGoes(p, "swap1")
  /\ UNCHANGED <<aeMod, aeListVars, aeBusVars, aeInj, aeOld, aeCalls, aeUserVars, aeSeen>>

\* The bus a call works on: the device's, then the root port's.
AeBus(p) == IF aePc[p] \in {"swap1", "add1"} THEN AeBusOf[aeInj[p].dev] ELSE AeBusOf[AeRoot]
AeThen(p) == IF aePc[p] \in {"swap1", "add1"} THEN "swap2" ELSE "tell"

AddsAlways(ops) == TRUE

\* Somebody else had replaced the operations already: nothing to remember.
AddsEntry(ops) == ops # "aer"

\* pci_bus_set_aer_ops(): pci_bus_set_ops() under pci_lock ...
pci_bus_set_aer_ops(p) ==
  LET ops == aeOps[AeBus(p)] IN
  /\ aePc[p] \in {"swap1", "swap2"}
  /\ \/ /\ AeReturn(p)                                   \* kmalloc(): -ENOMEM
        /\ UNCHANGED aeOps
     \/ /\ aeOps' = [aeOps EXCEPT ![AeBus(p)] = "aer"]
        /\ AeGoes(p, IF ~AddsEntry(ops) THEN AeThen(p)
                     ELSE IF aePc[p] = "swap1" THEN "add1" ELSE "add2")
        /\ UNCHANGED <<aeInj, aeOld>>
  /\ UNCHANGED <<aeMod, aeListVars, aeList, aePop, aeMask, aeCalls, aeUserVars, aeSeen>>

\* ... and the original operations are remembered under inject_lock.
AddBusOps(p) ==
  /\ aePc[p] \in {"add1", "add2"}
  /\ aeList' = <<AeBus(p)>> \o aeList
  /\ AeGoes(p, AeThen(p))
  /\ UNCHANGED <<aeMod, aeListVars, aeOps, aePop, aeMask, aeInj, aeOld, aeCalls, aeUserVars,
                 aeSeen>>

\* aer_irq() when the root port has an AER service, otherwise the recovery
\* is queued with a pointer to regs; or the service is not initialised.
AeTell(p) ==
  /\ aePc[p] = "tell"
  /\ \/ aeIrq' = TRUE /\ UNCHANGED aeWork
     \/ aeWork' = Append(aeWork, aeInj[p].dev) /\ UNCHANGED aeIrq
     \/ UNCHANGED <<aeIrq, aeWork>>                      \* -EPROTONOSUPPORT
  /\ AeReturn(p)
  /\ UNCHANGED <<aeMod, aeListVars, aeBusVars, aeMask, aeCalls, aeRegs, aeRead, aeSeen>>

-----------------------------------------------------------------------------
(* The users of the simulated registers                                    *)

\* aer_inj_read_config() and aer_inj_write_config() of a register that is not
\* simulated: the original operations are taken from the list.
FindsOps(b) == aeOps[b] = "orig" \/ \E i \in DOMAIN aeList : aeList[i] = b

AeAccess(b) ==
  /\ ~FindsOps(b)
  /\ aeSeen' = aeSeen \cup {"null"}
  /\ UNCHANGED <<aeMod, aeListVars, aeBusVars, aeMask, aeCallVars, aeUserVars>>

\* find_pci_config_dword(): is the register simulated?
Simulated(n) == aeErr[n] # AeNone /\ aeOps[AeBusOf[n]] = "aer"

Xor(a, b) == (a \ b) \cup (b \ a)

\* The AER driver reads root_status, clears it by writing it back (which the
\* injector does by ^=), and then clears the status of every device.
DriverReads ==
  /\ aeIrq /\ aeRead = {} /\ Simulated(AeRoot)
  /\ aeRead' = aeRootSt
  /\ aeIrq' = (aeRootSt # {})
  /\ UNCHANGED <<aeMod, aeListVars, aeBusVars, aeMask, aeCallVars, aeRegs, aeWork, aeSeen>>

DriverClears ==
  /\ aeRead # {} /\ Simulated(AeRoot)
  /\ aeRootSt' = Xor(aeRootSt, aeRead)
  /\ aeErr' = [n \in AeNodes |-> IF n \in AeDevs /\ Simulated(n)
                                 THEN [cor |-> {}, uncor |-> {}] ELSE aeErr[n]]
  /\ aeRead' = {}
  /\ UNCHANGED <<aeMod, aeBusVars, aeMask, aeCallVars, aeRegs, aeWork, aeIrq, aeSeen>>

\* The queued recovery runs and looks at regs.
AeRecover ==
  /\ aeWork # <<>>
  /\ aeWork' = Tail(aeWork)
  /\ aeSeen' = IF aeRegs # Head(aeWork) THEN aeSeen \cup {"mixed"} ELSE aeSeen
  /\ UNCHANGED <<aeMod, aeListVars, aeBusVars, aeMask, aeCallVars, aeRegs, aeIrq, aeRead>>

-----------------------------------------------------------------------------
(* aer_inject_exit()                                                       *)

\* No process has the device open; misc_deregister().
AeLeave ==
  /\ aeMod = "live" /\ \A p \in AeProcs : aePc[p] = "idle"
  /\ aeMod' = "leaving"
  /\ UNCHANGED <<aeListVars, aeBusVars, aeMask, aeCallVars, aeUserVars, aeSeen>>

pci_bus_ops_pop ==
  /\ aeMod = "leaving" /\ aeList # <<>>
  /\ aePop' = Head(aeList) /\ aeList' = Tail(aeList)
  /\ aeMod' = "restoring"
  /\ UNCHANGED <<aeListVars, aeOps, aeMask, aeCallVars, aeUserVars, aeSeen>>

AePutBack ==
  /\ aeMod = "restoring"
  /\ aeOps' = [aeOps EXCEPT ![aePop] = "orig"]
  /\ aePop' = AeNone /\ aeMod' = "leaving"
  /\ UNCHANGED <<aeListVars, aeList, aeMask, aeCallVars, aeUserVars, aeSeen>>

AeGone ==
  /\ aeMod = "leaving" /\ aeList = <<>>
  /\ aeErr' = [n \in AeNodes |-> AeNone]
  /\ aeMod' = "gone"
  /\ UNCHANGED <<aeRootSt, aeBusVars, aeMask, aeCallVars, aeUserVars, aeSeen>>

AeNext ==
  /\ UNCHANGED aeOverride
  /\ \/ \E p \in AeProcs :
          \/ \E e \in AeAsks : aer_inject(p, e)
          \/ OverrideMasks(p) \/ Record(p) \/ FillRegs(p) \/ RestoreMasks(p)
          \/ pci_bus_set_aer_ops(p) \/ AddBusOps(p) \/ AeTell(p)
     \/ \E b \in AeBuses : AeAccess(b)
     \/ DriverReads \/ DriverClears \/ AeRecover
     \/ AeLeave \/ pci_bus_ops_pop \/ AePutBack \/ AeGone

AeSpec == AeInit /\ [][AeNext]_aeVars

-----------------------------------------------------------------------------
(* Properties                                                              *)

\* A bus that has the injector's operations has its original ones on the
\* list, once, so that its registers stay accessible and unloading can put
\* them back, however injections on the same bus mix; except for the call
\* that has just replaced them and for the entry unloading has just popped
\* (in both windows an access finds none: aer_inject.c:221).  Once the
\* module is gone every bus has its own operations again.
AerOpsKept ==
  /\ AeTypeOK
  /\ \A b \in AeBuses :
       LET entries == {i \in DOMAIN aeList : aeList[i] = b}
           adding == {p \in AeProcs : aePc[p] \in {"add1", "add2"} /\ AeBus(p) = b}
           popped == aePop = b
       IN /\ \A i, j \in entries : i = j
          /\ aeOps[b] = "orig" => entries = {} /\ adding = {} /\ ~popped
          /\ aeOps[b] = "aer" => entries # {} \/ adding # {} \/ popped
          /\ adding # {} => entries = {} /\ \A p, q \in adding : p = q
  /\ aeMod = "gone" => \A b \in AeBuses : aeOps[b] = "orig"

\* As long as no two calls on one device overlap, a device whose calls are
\* over has the error masks it had before, overridden or not and whether the
\* call succeeded or failed; and a recovery is given the registers of its
\* own device unless they were filled again before it was over.
AerCallsApart ==
  /\ "overlap" \notin aeSeen =>
       \A d \in AeDevs :
         (\A p \in AeProcs : aePc[p] # "idle" => aeInj[p].dev # d) => aeMask[d] = AeFirstMask
  /\ "mixed" \in aeSeen => "hurried" \in aeSeen

=============================================================================
