----------------------------- MODULE KvmMemcheck -----------------------------
(***************************************************************************)
(* kvm_pci_memcheck.c: a virtual machine is created only for its memory,   *)
(* which is mapped for DMA into the IOMMU group of every PCI device of a   *)
(* vendor; then the memory is searched, again and again, for a word that   *)
(* is not zero: one that a device wrote without being asked.  The devices  *)
(* write while the search runs.  Every system call may fail.  Addresses    *)
(* count words; bus address and offset in the memory are the same number.  *)
(* open_pci() never closes what it opens: a container, a group and a       *)
(* device for each call.                                                   *)
(***************************************************************************)
EXTENDS Integers, Sequences

CONSTANTS
  KvDevs,      \* devices of the vendor, in the order of readdir()
  KvGroupOf,   \* their IOMMU groups
  KvNoGroup,   \* iommu_group is "N/A"
  KV_RAM,      \* RAM_SIZE
  KV_LOW,      \* 0xfee00000, the end of the low mapping
  KV_HIGH,     \* 0x100000000, the begin of the high mappings
  KV_GB        \* the size of one high mapping

ASSUME KvAssumption ==
  /\ KvDevs \in Seq(DOMAIN KvGroupOf)
  /\ {KV_RAM, KV_LOW, KV_HIGH, KV_GB} \subseteq Nat \ {0}
  /\ KV_LOW <= KV_HIGH /\ KV_HIGH <= KV_RAM
  /\ \E n \in 0 .. KV_RAM : KV_RAM = KV_HIGH + n * KV_GB

KvWords == 0 .. KV_RAM - 1
KvSetOf(s) == {s[i] : i \in DOMAIN s}
KvGroups == {KvGroupOf[d] : d \in KvSetOf(KvDevs)} \ {KvNoGroup}

VARIABLES
  kvPc,      \* the call main() makes next
  kvOpen,    \* KVM descriptors that are open
  kvVcpu,    \* main() knows vcpu_fd
  kvGuest,   \* guest_mem: null, failed (MAP_FAILED), mapped, unmapped
  kvRun,     \* kvm_run
  kvMem,     \* the words of the memory, 1 for any value but zero
  kvLeft,    \* devices found and not handed to open_pci() yet
  kvConts,   \* devices whose open_pci() left a container open
  kvHeld,    \* groups whose descriptor is open
  kvFds,     \* devices whose descriptor is open
  kvMap,     \* words that DMA of a group reaches
  kvNext,    \* j of open_pci(): the next high mapping
  kvMaster,  \* devices that may master the bus
  kvDone,    \* devices whose open_pci() returned 0
  kvAt,      \* i of the search
  kvFail     \* have_fail

kvVm == <<kvOpen, kvVcpu, kvGuest, kvRun>>
kvPci == <<kvLeft, kvConts, kvHeld, kvFds, kvMap, kvNext, kvMaster, kvDone>>
kvSearch == <<kvAt, kvFail>>
kvVars == <<kvPc, kvVm, kvMem, kvPci, kvSearch>>

\* main() up to the loop over the devices, one stage per call.
KvStages == <<"version", "extension", "vm", "memory", "region", "load", "vcpu",
              "runsize", "runmap", "regs", "find">>
KvAfter(s) == KvStages[1 + CHOOSE i \in DOMAIN KvStages : KvStages[i] = s]
KvPciStages == {"container", "attach", "low", "high", "config"}

KvTypeOK ==
  /\ kvPc \in KvSetOf(KvStages) \union KvPciStages \union {"search", "cleanup", "exit", "crashed"}
  /\ kvOpen \subseteq {"kvm", "vm", "vcpu"} /\ kvVcpu \in BOOLEAN
  /\ {kvGuest, kvRun} \subseteq {"null", "failed", "mapped", "unmapped"}
  /\ kvMem \in [KvWords -> {0, 1}]
  /\ kvLeft \in Seq(KvSetOf(KvDevs)) /\ kvHeld \subseteq KvGroups
  /\ kvConts \subseteq KvSetOf(KvDevs) /\ kvFds \subseteq KvSetOf(KvDevs)
  /\ kvMap \in [KvGroups -> SUBSET KvWords]
  /\ kvNext \in KV_HIGH .. KV_RAM
  /\ kvMaster \subseteq KvSetOf(KvDevs) /\ kvDone \subseteq KvSetOf(KvDevs)
  /\ kvAt \in 0 .. KV_RAM /\ kvFail \in BOOLEAN

\* /dev/kvm is open, or main() has returned because it cannot be opened.  Some
\* devices may master the bus before ("manual enable bus master").
KvInit ==
  /\ \/ kvPc = "version" /\ kvOpen = {"kvm"}
     \/ kvPc = "exit" /\ kvOpen = {}
  /\ kvVcpu = FALSE
  /\ kvGuest = "null" /\ kvRun = "null" /\ kvMem = [w \in KvWords |-> 0]
  /\ kvLeft = <<>> /\ kvConts = {} /\ kvHeld = {} /\ kvFds = {}
  /\ kvMap = [g \in KvGroups |-> {}] /\ kvNext = KV_HIGH
  /\ kvMaster \in SUBSET KvSetOf(KvDevs) /\ kvDone = {}
  /\ kvAt = 0 /\ kvFail = FALSE

-----------------------------------------------------------------------------
(* The virtual machine                                                     *)

KvGoOn(ok) == kvPc' = IF ok THEN KvAfter(kvPc) ELSE "cleanup"

\* A stage whose calls only succeed or fail.
KvOnly(stage, ok) ==
  /\ kvPc = stage /\ KvGoOn(ok)
  /\ UNCHANGED <<kvVm, kvMem, kvPci, kvSearch>>

check_kvm_version(ok) == KvOnly("version", ok)
KvExtension(ok) == KvOnly("extension", ok)       \* KVM_CAP_USER_MEMORY
KvRegion(ok) == KvOnly("region", ok)             \* KVM_SET_USER_MEMORY_REGION
KvRunSize(ok) == KvOnly("runsize", ok)           \* KVM_GET_VCPU_MMAP_SIZE
setup_vcpu_registers(ok) == KvOnly("regs", ok)

create_vm(ok) ==
  /\ kvPc = "vm" /\ KvGoOn(ok)
  /\ kvOpen' = kvOpen \union (IF ok THEN {"vm"} ELSE {})
  /\ UNCHANGED <<kvVcpu, kvGuest, kvRun, kvMem, kvPci, kvSearch>>

\* mmap() gives memory of zeroes; MAP_FAILED is not NULL.
setup_guest_memory(ok) ==
  /\ kvPc = "memory" /\ KvGoOn(ok)
  /\ kvGuest' = IF ok THEN "mapped" ELSE "failed"
  /\ UNCHANGED <<kvOpen, kvVcpu, kvRun, kvMem, kvPci, kvSearch>>

\* load_guest_code() as its comment has it: the code is copied to CODE_START.
load_guest_code_Copied ==
  /\ kvPc = "load" /\ KvGoOn(TRUE)
  /\ kvMem' = [kvMem EXCEPT ![1] = 1]
  /\ UNCHANGED <<kvVm, kvPci, kvSearch>>

\* memset() clears sizeof(RAM_SIZE) bytes, the first word.
load_guest_code ==
  /\ kvPc = "load" /\ KvGoOn(TRUE)
  /\ kvMem' = [kvMem EXCEPT ![0] = 0]
  /\ UNCHANGED <<kvVm, kvPci, kvSearch>>

\* The descriptor is open from here on; main() gets it when create_vcpu() returns.
create_vcpu(ok) ==
  /\ kvPc = "vcpu" /\ KvGoOn(ok)
  /\ kvOpen' = kvOpen \union (IF ok THEN {"vcpu"} ELSE {})
  /\ UNCHANGED <<kvVcpu, kvGuest, kvRun, kvMem, kvPci, kvSearch>>

KvRunMap(ok) ==
  /\ kvPc = "runmap" /\ KvGoOn(ok)
  /\ kvRun' = (IF ok THEN "mapped" ELSE "failed") /\ kvVcpu' = ok
  /\ UNCHANGED <<kvOpen, kvGuest, kvMem, kvPci, kvSearch>>

-----------------------------------------------------------------------------
(* The devices                                                             *)

\* The next device, or the search when there is none.
KvNextDevice(left) ==
  /\ kvLeft' = left
  /\ kvPc' = IF left = <<>> THEN "search" ELSE "container"

\* Places in the directory whose vendor and number could be read, in its order.
get_pci_device_info ==
  {s \in UNION {[1 .. n -> DOMAIN KvDevs] : n \in 0 .. Len(KvDevs)} :
     \A i, j \in DOMAIN s : i < j => s[i] < s[j]}

\* A device whose files cannot be read is left out.
find_pci_devices_by_vendor(ok) ==
  /\ kvPc = "find"
  /\ \/ /\ ok
        /\ \E s \in get_pci_device_info : kvLeft' = [i \in DOMAIN s |-> KvDevs[s[i]]]
        /\ kvPc' = IF kvLeft' = <<>> THEN "cleanup" ELSE "container"
     \/ ~ok /\ kvPc' = "cleanup" /\ UNCHANGED kvLeft
  /\ UNCHANGED <<kvVm, kvMem, kvConts, kvHeld, kvFds, kvMap, kvNext, kvMaster, kvDone, kvSearch>>

KvDevice == Head(kvLeft)
KvGroup == KvGroupOf[KvDevice]

\* open_pci() returns; its result is not looked at.
KvDeviceDone == KvNextDevice(Tail(kvLeft))

\* The set, with the device in hand or without it.
KvPerhaps(S) == {S, S \union {KvDevice}}

\* A new container, whose descriptor replaces the one before it in vfio_fd, and
\* the device's group, which can be opened only once.
KvContainer(ok) ==
  /\ kvPc = "container"
  /\ \/ /\ ok /\ KvGroup # KvNoGroup /\ KvGroup \notin kvHeld
        /\ kvConts' = kvConts \union {KvDevice} /\ kvHeld' = kvHeld \union {KvGroup}
        /\ kvPc' = "attach" /\ UNCHANGED kvLeft
     \/ ~ok /\ KvDeviceDone /\ kvConts' \in KvPerhaps(kvConts) /\ UNCHANGED kvHeld
  /\ UNCHANGED <<kvVm, kvMem, kvFds, kvMap, kvNext, kvMaster, kvDone, kvSearch>>

\* Viable group, container, IOMMU type, device descriptor, device information.
KvAttach(ok) ==
  /\ kvPc = "attach"
  /\ \/ ok /\ kvPc' = "low" /\ kvFds' = kvFds \union {KvDevice} /\ UNCHANGED kvLeft
     \/ ~ok /\ KvDeviceDone /\ kvFds' \in KvPerhaps(kvFds)
  /\ UNCHANGED <<kvVm, kvMem, kvConts, kvHeld, kvMap, kvNext, kvMaster, kvDone, kvSearch>>

KvMapDma(words) == kvMap' = [kvMap EXCEPT ![KvGroup] = @ \union words]

KvMapLow(ok) ==
  /\ kvPc = "low"
  /\ \/ ok /\ kvPc' = "high" /\ KvMapDma(0 .. KV_LOW - 1) /\ UNCHANGED kvLeft
     \/ ~ok /\ KvDeviceDone /\ UNCHANGED kvMap
  /\ kvNext' = KV_HIGH
  /\ UNCHANGED <<kvVm, kvMem, kvConts, kvHeld, kvFds, kvMaster, kvDone, kvSearch>>

KvMapHigh(ok) ==
  /\ kvPc = "high"
  /\ \/ /\ ok /\ kvNext < KV_RAM
        /\ KvMapDma(kvNext .. kvNext + KV_GB - 1) /\ kvNext' = kvNext + KV_GB
        /\ UNCHANGED <<kvPc, kvLeft>>
     \/ ok /\ kvNext >= KV_RAM /\ kvPc' = "config" /\ UNCHANGED <<kvLeft, kvMap, kvNext>>
     \/ ~ok /\ kvNext < KV_RAM /\ KvDeviceDone /\ UNCHANGED <<kvMap, kvNext>>
  /\ UNCHANGED <<kvVm, kvMem, kvConts, kvHeld, kvFds, kvMaster, kvDone, kvSearch>>

\* Bus mastering is switched on; when the device does not take it, or has no
\* regions, open_pci() returns 0 all the same.
KvConfig(ok) ==
  /\ kvPc = "config" /\ KvDeviceDone
  /\ \/ ok /\ kvMaster' = kvMaster \union {KvDevice} /\ kvDone' = kvDone \union {KvDevice}
     \/ ~ok /\ kvDone' \in KvPerhaps(kvDone) /\ UNCHANGED kvMaster
  /\ UNCHANGED <<kvVm, kvMem, kvConts, kvHeld, kvFds, kvMap, kvNext, kvSearch>>

\* memset() clears config_region and the 16 bytes behind it on the stack.  They
\* may be of no use any more, or device_fd (the calls on it fail: ~ok above), or
\* what open_pci() needs to return: then the program dies, and the kernel
\* closes all it had open.
KvOverrun ==
  /\ kvPc = "config" /\ kvPc' = "crashed"
  /\ UNCHANGED <<kvVm, kvMem, kvPci, kvSearch>>

\* DMA of a device: its group's mappings decide where it goes.
KvDma ==
  /\ kvGuest = "mapped" /\ kvPc \notin {"exit", "crashed"}
  /\ \E d \in kvMaster, v \in {0, 1} :
       /\ KvGroupOf[d] # KvNoGroup
       /\ \E w \in kvMap[KvGroupOf[d]] : kvMem' = [kvMem EXCEPT ![w] = v]
  /\ UNCHANGED <<kvPc, kvVm, kvPci, kvSearch>>

-----------------------------------------------------------------------------
(* The search, and the end                                                 *)

\* The search with its last word left out.
KvReadWordShort ==
  /\ kvPc = "search" /\ kvAt < KV_RAM /\ kvAt' = kvAt + 1
  /\ kvFail' = (kvFail \/ (kvAt < KV_RAM - 1 /\ kvMem[kvAt] # 0))
  /\ UNCHANGED <<kvPc, kvVm, kvMem, kvPci>>

\* *(ptr + i) of the search.
KvReadWord ==
  /\ kvPc = "search" /\ kvAt < KV_RAM /\ kvAt' = kvAt + 1
  /\ kvFail' = (kvFail \/ kvMem[kvAt] # 0)
  /\ UNCHANGED <<kvPc, kvVm, kvMem, kvPci>>

\* The verdict falls at the end of a pass.
KvPassEnds ==
  /\ kvPc = "search" /\ kvAt = KV_RAM
  /\ \/ kvFail /\ kvPc' = "cleanup" /\ UNCHANGED kvAt
     \/ ~kvFail /\ kvAt' = 0 /\ UNCHANGED kvPc
  /\ UNCHANGED <<kvVm, kvMem, kvPci, kvFail>>

\* The size of kvm_run is asked again, and the mapping stays when that fails;
\* munmap() of MAP_FAILED fails; only descriptors main() knows are closed.
cleanup(sized) ==
  /\ kvPc = "cleanup" /\ kvPc' = "exit"
  /\ kvRun' = IF kvRun = "mapped" /\ sized THEN "unmapped" ELSE kvRun
  /\ kvGuest' = IF kvGuest = "mapped" THEN "unmapped" ELSE kvGuest
  /\ kvOpen' = kvOpen \ ({"vm", "kvm"} \union IF kvVcpu THEN {"vcpu"} ELSE {})
  /\ UNCHANGED <<kvVcpu, kvMem, kvPci, kvSearch>>

KvMain ==
  \/ \E ok \in BOOLEAN :
       \/ check_kvm_version(ok) \/ KvExtension(ok) \/ create_vm(ok)
       \/ setup_guest_memory(ok) \/ KvRegion(ok) \/ create_vcpu(ok) \/ KvRunSize(ok)
       \/ setup_vcpu_registers(ok) \/ KvRunMap(ok) \/ find_pci_devices_by_vendor(ok)
       \/ KvContainer(ok) \/ KvAttach(ok) \/ KvMapLow(ok) \/ KvMapHigh(ok)
       \/ KvConfig(ok) \/ cleanup(ok)
  \/ KvOverrun \/ load_guest_code \/ KvReadWord \/ KvPassEnds

KvNext == KvMain \/ KvDma

KvSpec == KvInit /\ [][KvNext]_kvVars

\* The program runs.
KvFairness == WF_kvVars(KvMain)
-----------------------------------------------------------------------------
\* The words the devices are to be watched in: all but the hole below KV_HIGH.
KvWatched == (0 .. KV_LOW - 1) \union (KV_HIGH .. KV_RAM - 1)

\* A word that is not zero, so an error too, is in the reach of a group that
\* VFIO gave to the program, also when open_pci() stopped half-way for some of
\* the devices.  A device whose open_pci() returned 0 is watched in all the
\* memory but the hole.  What open_pci() opened stays open until the process
\* ends, so that of the devices of a group only the first one is watched.  On
\* whatever path main() ends, the memory is unmapped and no KVM descriptor is
\* open but the one that a failing create_vcpu() keeps for itself.
KvVerdictRight ==
  /\ KvTypeOK
  /\ \A w \in KvWords : kvMem[w] # 0 => \E g \in kvHeld : w \in kvMap[g]
  /\ kvFail => \E g \in kvHeld : kvMap[g] # {}
  /\ \A d \in kvDone : /\ d \in kvConts \intersect kvFds /\ KvGroupOf[d] \in kvHeld
                       /\ KvWatched \subseteq kvMap[KvGroupOf[d]]
  /\ \A d, e \in kvFds : KvGroupOf[d] = KvGroupOf[e] => d = e
  /\ kvPc = "exit" => /\ kvGuest # "mapped"
                      /\ kvOpen \subseteq IF kvVcpu THEN {} ELSE {"vcpu"}

\* A word that a device leaves behind is found, although the search has passed
\* it when it is written, and the verdict falls only at the end of a pass.
KvFinds ==
  \A w \in KvWords : <>[](kvMem[w] = 1) => <>(kvPc \in {"exit", "crashed"})
=============================================================================
