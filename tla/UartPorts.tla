------------------------------ MODULE UartPorts ------------------------------
(***************************************************************************)
(* The life of the UART module: rc_tty_init() with the probes of the DUART *)
(* and of the QUICC Engine ports, rctty_open() and rctty_release() with    *)
(* the interrupt, the delayed work and the tasklet that run beside them,   *)
(* and rc_tty_exit().  What matters here is who owns what and when it is   *)
(* given back; the data that passes through an open port is the subject of *)
(* RcttyRead, RcttyWrite, DuartTx, UccTx and UccRx.                        *)
(*                                                                         *)
(* A rctty_struct is named by the process that opened it: `live' holds the *)
(* ones that are allocated, ptty[p] is uartport->tty, which may dangle.    *)
(***************************************************************************)
EXTENDS Integers, FiniteSets

CONSTANTS
  UccPorts,    \* ports of the QUICC Engine (minor numbers 0 to 2)
  DuartPorts,  \* ports of the DUART (minor number 3)
  Procs,       \* processes that open and close the device files
  None,        \* no rctty_struct
  PREEMPT,     \* may the kernel preempt a process inside rctty_open()?
  EARLY_OPEN   \* may a process open the file before rc_tty_init() returns?

ASSUME PortsAssumption ==
  /\ UccPorts \cap DuartPorts = {} /\ UccPorts \cup DuartPorts # {}
  /\ None \notin Procs
  /\ PREEMPT \in BOOLEAN /\ EARLY_OPEN \in BOOLEAN

Ports == UccPorts \cup DuartPorts

\* What a probe acquires.  "uap" is the rcuart_port (for a UCC port the
\* uart_qe_port it is part of), "slow" what ucc_slow_init() keeps, "bds" the
\* buffers of the descriptors, "map" the register mapping of the DUART, and
\* "engine" says that the UCC is enabled.
Kinds == {"uap", "slow", "bds", "map", "engine"}
\* What rc_tty_init() acquires for the whole module: the range of device
\* numbers, the device, the mapping itmp of the SoC's registers, the proc files.
Own == {"region", "cdev", "itmp", "proc"}

VARIABLES
  mod,     \* the module: out, duart (probed), ucc (probed), added, live, ...
  own,     \* what rc_tty_init() itself acquired, see Own
  todo,    \* UCC ports the platform bus has not offered yet
  pxr,     \* pxr_ports[]: "null", "noslow", "nobds" or "good"
  res,     \* <<port, kind>> allocated
  opened,  \* tty_opened[]
  pc, on,  \* where a process is, and the port it works on
  live,    \* rctty_structs allocated
  ptty,    \* uartport->tty
  irqs,    \* handlers registered for the port
  ier,     \* the port's interrupts are enabled
  work,    \* tty->work: idle, timer (delayed), run
  tlet,    \* uartport->tlet: is it scheduled, and for which rctty_struct
  reading, \* the process is in read_chan() with TTY_DONT_FLIP set
  oops     \* what the kernel died of

modVars  == <<mod, todo, pxr, res, own>>
fileVars == <<opened, pc, on, live, ptty>>
asyncVars == <<irqs, ier, work, tlet, reading>>
vars == <<modVars, fileVars, asyncVars, oops>>

ProcStates == {"idle", "set", "init", "attach", "startup", "open", "close",
               "freeirq", "kill", "cancel", "flush", "free"}

TypeOK ==
  /\ mod \in {"out", "duart", "ucc", "added", "live", "leaving", "freed",
             "unloaded", "failed"}
  /\ todo \subseteq UccPorts
  /\ pxr \in [Ports -> {"null", "noslow", "nobds", "good"}]
  /\ res \subseteq Ports \X Kinds
  /\ own \subseteq Own
  /\ opened \in [Ports -> BOOLEAN]
  /\ pc \in [Procs -> ProcStates]
  /\ on \in [Procs -> Ports]
  /\ live \subseteq Procs
  /\ ptty \in [Ports -> Procs \cup {None}]
  /\ irqs \in [Ports -> Nat]
  /\ ier \in [Ports -> BOOLEAN]
  /\ work \in [Procs -> {"idle", "timer", "run"}]
  /\ tlet \in [Ports -> [sched : BOOLEAN, tty : Procs \cup {None}]]
  /\ reading \in [Procs -> BOOLEAN]
  /\ oops \subseteq {"null", "uaf", "double_free", "stale_proc"}

Init ==
  /\ mod = "out" /\ todo = UccPorts
  /\ pxr = [p \in Ports |-> "null"] /\ res = {} /\ own = {}
  /\ opened = [p \in Ports |-> FALSE]
  /\ pc = [t \in Procs |-> "idle"] /\ on = [t \in Procs |-> CHOOSE p \in Ports : TRUE]
  /\ live = {} /\ ptty = [p \in Ports |-> None]
  /\ irqs = [p \in Ports |-> 0] /\ ier = [p \in Ports |-> FALSE]
  /\ work = [t \in Procs |-> "idle"]
  /\ tlet = [p \in Ports |-> [sched |-> FALSE, tty |-> None]]
  /\ reading = [t \in Procs |-> FALSE]
  /\ oops = {}

-----------------------------------------------------------------------------
(* Loading the module                                                      *)

\* xr_probe_duart(): one rcuart_port and one mapping per port, or -ENOMEM.
xr_probe_duart ==
  /\ mod = "out"
  /\ \/ /\ mod' = "duart"
        /\ res' = res \cup (DuartPorts \X {"uap", "map"})
        /\ pxr' = [p \in Ports |-> IF p \in DuartPorts THEN "good" ELSE pxr[p]]
     \/ /\ mod' = "failed"                      \* kmalloc()
        /\ UNCHANGED <<res, pxr>>
  /\ UNCHANGED <<todo, own, fileVars, asyncVars, oops>>

\* Everything ucc_uart_probe() reads from the device tree: each property that
\* is missing or out of range frees the qe_port and returns.
DeviceTreeBad(p) ==
  /\ mod = "duart" /\ p \in todo
  /\ todo' = todo \ {p}
  /\ UNCHANGED <<mod, pxr, res, own, fileVars, asyncVars, oops>>

\* ucc_slow_init() acquires these in this order; the last is the routing of
\* the clocks.
SlowSteps == <<"uccs", "us_regs", "us_pram", "rx_bd", "tx_bd", "clock">>
SlowHeld(n) == {SlowSteps[i] : i \in 1..(n - 1)} \ {"clock"}
\* ucc_slow_free() gives back whatever has a handle.
ucc_slow_free(held) == held \ {"uccs", "us_regs", "us_pram", "rx_bd", "tx_bd"}
\* What is allocated after ucc_slow_init() has failed at step n; n = 7 is
\* success.
ucc_slow_init(n) == IF n = 7 THEN SlowHeld(n) ELSE ucc_slow_free(SlowHeld(n))

ucc_slow_disable(r, p) == r \ {<<p, "engine">>}
ucc_slow_enable(r, p) == r \cup {<<p, "engine">>}
\* The UCC is disabled while its parameters are programmed, and enabled once
\* the descriptors point to the buffers.
qe_uart_init_ucc(r, p) == ucc_slow_disable(r, p)
xr_startup_ucc_per(r, p) == ucc_slow_enable(qe_uart_init_ucc(r, p), p)

\* qe_uart_request_port(): the UCC, then the buffers, then the start-up of
\* the engine.  "good" is success, the others name what is missing.
qe_uart_request_port(p) ==
  LET uap == res \cup {<<p, "uap">>}
      slow(n) == IF ucc_slow_init(n) = {} THEN {} ELSE {<<p, "slow">>}
  IN
  \/ /\ \E n \in 1..6 : res' = uap \cup slow(n)
     /\ pxr' = [pxr EXCEPT ![p] = "noslow"]
  \/ /\ res' = uap \cup slow(7)                           \* dma_alloc_coherent()
     /\ pxr' = [pxr EXCEPT ![p] = "nobds"]
  \/ /\ res' = xr_startup_ucc_per(uap \cup slow(7) \cup {<<p, "bds">>}, p)
     /\ pxr' = [pxr EXCEPT ![p] = "good"]

\* The rest of ucc_uart_probe(): the result of qe_uart_request_port() is not
\* looked at, the port is published in any case.
ucc_uart_probe(p) ==
  /\ mod = "duart" /\ p \in todo
  /\ todo' = todo \ {p}
  /\ qe_uart_request_port(p)
  /\ UNCHANGED <<mod, own, fileVars, asyncVars, oops>>

\* of_register_platform_driver() has offered every device, or fails; then
\* rc_tty_init() returns and xr_unprobe_duart() is not called: the DUART keeps
\* what it has.
xr_probe_ucc ==
  /\ mod = "duart"
  /\ \/ todo = {} /\ mod' = "ucc"
     \/ todo = UccPorts /\ mod' = "failed"
  /\ UNCHANGED <<todo, pxr, res, own, fileVars, asyncVars, oops>>

-----------------------------------------------------------------------------
(* Unloading                                                               *)

\* xr_unprobe_duart(): the port is freed and the registers are unmapped.
xr_unprobe_duart ==
  /\ mod' = "leaving" /\ todo' = UccPorts
  /\ res' = res \ (DuartPorts \X {"uap", "map"})
  /\ pxr' = [p \in Ports |-> IF p \in DuartPorts THEN "null" ELSE pxr[p]]

\* qe_uart_release_port(): first the UCC is disabled and its transmitter
\* stopped, which needs the structures ucc_slow_init() made ...
StopEngine(p) ==
  /\ mod = "leaving" /\ p \in todo
  /\ IF pxr[p] \in {"null", "noslow"}
     THEN oops' = oops \cup {"null"} /\ UNCHANGED res
     ELSE res' = ucc_slow_disable(res, p) /\ UNCHANGED oops
  /\ todo' = todo \ {p}
  /\ UNCHANGED <<mod, pxr, own, fileVars, asyncVars>>

\* ... then the buffers and the UCC are freed.
ReleasedPort(p) == {<<p, "slow">>, <<p, "bds">>}
qe_uart_release_port(p) ==
  /\ mod = "leaving" /\ p \notin todo
  /\ ReleasedPort(p) \cap res # {}
  /\ res' = res \ ReleasedPort(p)
  /\ UNCHANGED <<mod, todo, pxr, own, fileVars, asyncVars, oops>>

\* ucc_uart_remove() frees the driver data of the device, which the probe
\* never set: nothing.
ucc_uart_remove == {}
\* xr_unprobe_ucc(), after the loop: the driver's removal, then kfree() of
\* every port.  A load that failed ends here, rc_tty_exit() goes on.
xr_unprobe_ucc ==
  /\ mod = "leaving" /\ todo = {}
  /\ \A p \in UccPorts : ReleasedPort(p) \cap res = {}
  /\ mod' = IF "cdev" \in own THEN "freed" ELSE "unloaded"
  /\ res' = res \ (UccPorts \X {"uap"})
  /\ pxr' = [p \in Ports |-> "null"]
  /\ oops' = IF ucc_uart_remove \cap (UccPorts \X {"uap"}) # {}
             THEN oops \cup {"double_free"} ELSE oops
  /\ UNCHANGED <<todo, own, fileVars, asyncVars>>

\* register_chrdev_region(), whose result is not looked at, and cdev_add():
\* from here on processes can open the files.  On failure both probes are
\* undone, the device numbers are not.
cdev_add ==
  /\ mod = "ucc"
  /\ \E region \in SUBSET {"region"} :
       \/ mod' = "added" /\ own' = region \cup {"cdev"} /\ UNCHANGED <<todo, pxr, res>>
       \/ xr_unprobe_duart /\ own' = region
  /\ UNCHANGED <<fileVars, asyncVars, oops>>

\* The rest of rc_tty_init(): power and pins through a mapping that is never
\* given back (and that is not compared with NULL), then tty_opened[] is
\* cleared and the proc files are made, or a warning is printed.
rc_tty_init ==
  /\ mod = "added"
  /\ \/ /\ mod' = "live"
        /\ \E proc \in SUBSET {"proc"} : own' = own \cup {"itmp"} \cup proc
        /\ opened' = [p \in Ports |-> FALSE]
        /\ UNCHANGED oops
     \/ oops' = oops \cup {"null"} /\ UNCHANGED <<mod, own, opened>>      \* ioremap()
  /\ UNCHANGED <<todo, pxr, res, pc, on, live, ptty, asyncVars>>

\* rc_tty_exit(): the kernel calls it only when no file is open, and opens
\* none after that.
rc_tty_exit ==
  /\ mod = "live"
  /\ \A t \in Procs : pc[t] = "idle"
  /\ xr_unprobe_duart
  /\ UNCHANGED <<own, fileVars, asyncVars, oops>>

\* The device and the proc files go last, after the ports they lead to.
RemoveFiles ==
  /\ mod = "freed"
  /\ mod' = "unloaded" /\ own' = own \ {"cdev", "proc"}
  /\ UNCHANGED <<todo, pxr, res, fileVars, asyncVars, oops>>

\* uart_read_proc() reads through the pointer pxr_ports[] held when the file
\* was made: NULL for a port that was never published, and freed memory when
\* the port went before its file.
uart_read_proc(p) ==
  /\ "proc" \in own /\ <<p, "uap">> \notin res
  /\ oops' = oops \cup
       {IF mod = "live" \/ (mod = "leaving" /\ p \in UccPorts) THEN "null" ELSE "stale_proc"}
  /\ UNCHANGED <<modVars, fileVars, asyncVars>>

-----------------------------------------------------------------------------
(* Opening                                                                 *)

\* Without preemption no other process runs between the test of the flag and
\* its assignment.
MayRun(t) == PREEMPT \/ \A u \in Procs \ {t} : pc[u] # "set"
Goto(t, l) == pc' = [pc EXCEPT ![t] = l]

\* rctty_open(): the flag is tested ...
rctty_open(t, p) ==
  /\ mod = "live" \/ (EARLY_OPEN /\ mod = "added")
  /\ pc[t] = "idle" /\ MayRun(t)
  /\ ~opened[p]                                       \* else -EBUSY
  /\ Goto(t, "set") /\ on' = [on EXCEPT ![t] = p]
  /\ UNCHANGED <<modVars, opened, live, ptty, asyncVars, oops>>

\* ... and set.
SetOpened(t) ==
  /\ pc[t] = "set"
  /\ opened' = [opened EXCEPT ![on[t]] = TRUE]
  /\ Goto(t, "init")
  /\ UNCHANGED <<modVars, on, live, ptty, asyncVars, oops>>

\* init_dev(): the structure and its buffers, or -ENOMEM with all freed.
init_dev(t) ==
  /\ pc[t] = "init" /\ MayRun(t)
  /\ \/ /\ live' = live \cup {t}
        /\ work' = [work EXCEPT ![t] = "idle"]
        /\ Goto(t, "attach") /\ UNCHANGED opened
     \/ /\ opened' = [opened EXCEPT ![on[t]] = FALSE]
        /\ Goto(t, "idle") /\ UNCHANGED <<live, work>>
  /\ UNCHANGED <<modVars, on, ptty, irqs, ier, tlet, reading, oops>>

\* The structure is attached to the port, and uart_open() initialises the
\* tasklet: both before the interrupt can come.
Attach(t) ==
  LET p == on[t] IN
  /\ pc[t] = "attach" /\ MayRun(t)
  /\ Goto(t, "startup")
  /\ IF pxr[p] = "null"
     THEN oops' = oops \cup {"null"} /\ UNCHANGED <<ptty, tlet>>
     ELSE /\ ptty' = [ptty EXCEPT ![p] = t]
          /\ tlet' = [tlet EXCEPT ![p] = [sched |-> FALSE, tty |-> t]]
          /\ UNCHANGED oops
  /\ UNCHANGED <<modVars, opened, on, live, irqs, ier, work, reading>>

XrStartupLeaks(t) ==           \* a failed open keeps its rctty_struct
  /\ pc[t] = "startup" /\ Goto(t, "idle")
  /\ opened' = [opened EXCEPT ![on[t]] = FALSE]
  /\ UNCHANGED <<modVars, on, live, ptty, asyncVars, oops>>

\* xr_startup(): the interrupt is requested and enabled.  When request_irq()
\* fails, rctty_open() frees the structure.
xr_startup(t) ==
  LET p == on[t] IN
  /\ pc[t] = "startup" /\ MayRun(t)
  /\ \/ /\ irqs' = [irqs EXCEPT ![p] = @ + 1]
        /\ ier' = [ier EXCEPT ![p] = TRUE]
        /\ oops' = IF pxr[p] = "noslow" THEN oops \cup {"null"} ELSE oops
        /\ Goto(t, "open") /\ UNCHANGED <<live, opened>>
     \/ /\ live' = live \ {t}
        /\ opened' = [opened EXCEPT ![p] = FALSE]
        /\ Goto(t, "idle") /\ UNCHANGED <<irqs, ier, oops>>
  /\ UNCHANGED <<modVars, on, ptty, work, tlet, reading>>

-----------------------------------------------------------------------------
(* What runs beside an open port                                           *)

\* A reader is inside read_chan() and has set TTY_DONT_FLIP; the file cannot
\* be released while it is there.
EnterRead(t) ==
  /\ pc[t] = "open" /\ ~reading[t] /\ MayRun(t)
  /\ reading' = [reading EXCEPT ![t] = TRUE]
  /\ UNCHANGED <<modVars, fileVars, irqs, ier, work, tlet, oops>>
LeaveRead(t) ==
  /\ reading[t] /\ MayRun(t)
  /\ reading' = [reading EXCEPT ![t] = FALSE]
  /\ UNCHANGED <<modVars, fileVars, irqs, ier, work, tlet, oops>>

\* A write to a port whose descriptors were never initialised (its buffers
\* could not be allocated) goes through the null pointer tx_cur.
WriteMute(t) ==
  /\ pc[t] = "open" /\ pxr[on[t]] = "nobds"
  /\ oops' = oops \cup {"null"}
  /\ UNCHANGED <<modVars, fileVars, asyncVars>>

Touch(t) == oops' = IF t \in live THEN oops ELSE oops \cup {"uaf"}
Scheduled(w) == IF w = "idle" THEN "timer" ELSE w

\* The port's interrupt: received characters schedule the work of the
\* rctty_struct the port points to, a sent one its tasklet.
Interrupt(p) ==
  LET t == ptty[p] IN
  /\ irqs[p] > 0 /\ ier[p]
  /\ Touch(t)
  /\ \/ /\ work' = IF t = None THEN work ELSE [work EXCEPT ![t] = Scheduled(@)]
        /\ UNCHANGED tlet
     \/ tlet' = [tlet EXCEPT ![p].sched = TRUE] /\ UNCHANGED work
  /\ UNCHANGED <<modVars, fileVars, irqs, ier, reading>>

uart_tasklet_action(p) ==
  /\ tlet[p].sched
  /\ tlet' = [tlet EXCEPT ![p].sched = FALSE]
  /\ Touch(tlet[p].tty)
  /\ UNCHANGED <<modVars, fileVars, irqs, ier, work, reading>>

\* The timer of the delayed work expires and the worker starts flush_to_ldisc();
\* when it ends the work is queued again if a reader holds TTY_DONT_FLIP.
WorkStarts(t) ==
  /\ work[t] = "timer"
  /\ work' = [work EXCEPT ![t] = "run"]
  /\ Touch(t)
  /\ UNCHANGED <<modVars, fileVars, irqs, ier, tlet, reading>>
WorkEnds(t) ==
  /\ work[t] = "run"
  /\ work' = [work EXCEPT ![t] = IF reading[t] THEN "timer" ELSE "idle"]
  /\ Touch(t)
  /\ UNCHANGED <<modVars, fileVars, irqs, ier, tlet, reading>>

-----------------------------------------------------------------------------
(* Releasing                                                               *)

\* xr_shutdown(): the interrupts of the port are disabled ...
rctty_release(t) ==
  /\ pc[t] = "open" /\ ~reading[t] /\ MayRun(t)
  /\ ier' = [ier EXCEPT ![on[t]] = FALSE]
  /\ Goto(t, "freeirq")
  /\ UNCHANGED <<modVars, opened, on, live, ptty, irqs, work, tlet, reading, oops>>

\* ... and the handler is removed.
FreeIrq(t) ==
  /\ pc[t] = "freeirq" /\ MayRun(t)
  /\ irqs' = [irqs EXCEPT ![on[t]] = @ - 1]
  /\ Goto(t, "kill")
  /\ UNCHANGED <<modVars, opened, on, live, ptty, ier, work, tlet, reading, oops>>

\* tasklet_kill() waits until a scheduled tasklet has run.
TaskletKill(t) ==
  /\ pc[t] = "kill" /\ MayRun(t) /\ ~tlet[on[t]].sched
  /\ Goto(t, "cancel")
  /\ UNCHANGED <<modVars, opened, on, live, ptty, asyncVars, oops>>

\* The wait queues are empty (nobody is inside read or write).  Delayed work
\* is cancelled; work that runs already is not.
CancelWork(t) ==
  /\ pc[t] = "cancel" /\ MayRun(t)
  /\ work' = [work EXCEPT ![t] = IF @ = "timer" THEN "idle" ELSE @]
  /\ Goto(t, "flush")
  /\ UNCHANGED <<modVars, opened, on, live, ptty, irqs, ier, tlet, reading, oops>>

FlushSkipped(t) ==             \* no flush_scheduled_work()
  /\ pc[t] = "flush" /\ Goto(t, "free")
  /\ UNCHANGED <<modVars, opened, on, live, ptty, asyncVars, oops>>
\* flush_scheduled_work() waits for the work that runs.
FlushWork(t) ==
  /\ pc[t] = "flush" /\ MayRun(t) /\ work[t] # "run"
  /\ Goto(t, "free")
  /\ UNCHANGED <<modVars, opened, on, live, ptty, asyncVars, oops>>

\* The buffers and the structure are freed and the flag is cleared.
FreeTty(t) ==
  /\ pc[t] = "free" /\ MayRun(t)
  /\ live' = live \ {t}
  /\ opened' = [opened EXCEPT ![on[t]] = FALSE]
  /\ Goto(t, "idle")
  /\ UNCHANGED <<modVars, on, ptty, asyncVars, oops>>

-----------------------------------------------------------------------------
ModuleStep ==
  \/ xr_probe_duart \/ xr_probe_ucc \/ cdev_add \/ rc_tty_init \/ rc_tty_exit
  \/ xr_unprobe_ucc \/ RemoveFiles
  \/ \E p \in UccPorts : DeviceTreeBad(p) \/ ucc_uart_probe(p)
                         \/ StopEngine(p) \/ qe_uart_release_port(p)
  \/ \E p \in Ports : uart_read_proc(p)

ProcStep(t) ==
  \/ \E p \in Ports : rctty_open(t, p)
  \/ SetOpened(t) \/ init_dev(t) \/ Attach(t) \/ xr_startup(t)
  \/ EnterRead(t) \/ LeaveRead(t) \/ WriteMute(t)
  \/ rctty_release(t) \/ FreeIrq(t) \/ TaskletKill(t) \/ CancelWork(t)
  \/ FlushWork(t) \/ FreeTty(t)

AsyncStep ==
  \/ \E p \in Ports : Interrupt(p) \/ uart_tasklet_action(p)
  \/ \E t \in Procs : WorkStarts(t) \/ WorkEnds(t)

\* After an oops nothing more is said.
Next == oops = {} /\ (ModuleStep \/ AsyncStep \/ \E t \in Procs : ProcStep(t))

Spec == Init /\ [][Next]_vars

-----------------------------------------------------------------------------
(* Properties                                                              *)

\* Nothing that runs beside an open or closing port (interrupt, tasklet,
\* delayed work) meets a rctty_struct that is freed, and nothing is freed
\* twice or while the engine writes to it: rctty_release() stops its visitors
\* in the right order, and rctty_open() attaches the structure before the
\* first of them can come.  Not covered: a proc file read while rc_tty_exit()
\* has freed the port and not yet removed the file ("stale_proc").  (With the
\* types of the state.)
NoUseAfterFree ==
  /\ TypeOK
  /\ oops \cap {"uaf", "double_free"} = {}
  /\ \A p \in UccPorts : <<p, "engine">> \in res =>
                             {<<p, "bds">>, <<p, "slow">>} \subseteq res

\* A port is in the hands of one process at a time ...
OneOpener ==
  \A p \in Ports :
    Cardinality({t \in Procs : on[t] = p /\ pc[t] \notin {"idle", "set"}}) <= 1

\* ... a port whose flag is clear and that no process is opening or closing
\* has no handler, no tasklet, no work and no rctty_struct ...
ClosedPortQuiet ==
  \A p \in Ports :
    (~opened[p] /\ \A t \in Procs : on[t] = p => pc[t] = "idle") =>
      /\ irqs[p] = 0 /\ ~ier[p] /\ ~tlet[p].sched
      /\ \A t \in Procs : on[t] = p => t \notin live /\ work[t] = "idle"

\* ... and a module that is gone has given back all it had, except what the
\* code has no call for: the device numbers and the mapping itmp after any
\* load that got so far, and the DUART's ports when xr_probe_ucc() fails.
CleanUnload ==
  /\ mod = "unloaded" /\ oops = {} => res = {} /\ own \subseteq {"region", "itmp"}
  /\ mod = "failed" => res \subseteq DuartPorts \X {"uap", "map"} /\ own = {}

\* What a port holds belongs to the one process that has it open, whichever
\* way an open failed (rctty_open(), rctty_release()), and what the probes
\* and rc_tty_init() allocated is given back but for the leaks CleanUnload
\* names.  For a kernel that does not preempt rctty_open() between its test
\* and its assignment of tty_opened[], and no open before rc_tty_init() ends.
PortsOwned == OneOpener /\ ClosedPortQuiet /\ CleanUnload

=============================================================================
