------------------------------ MODULE Longlight ------------------------------
(***************************************************************************)
(* The long-light detection module (longlightdetect_dev.c): timer1 samples *)
(* the detect pin, timer2 confirms three times that the signal stays high, *)
(* the interrupt of a falling edge withdraws the suspicion, and the light  *)
(* is switched off when it is confirmed.  Writing 1 to /proc/longlighten   *)
(* starts timer1, and loading and unloading go on beside all of it.        *)
(*                                                                         *)
(* The machine has one processor: the timers run as soft interrupts, which *)
(* interrupt a process, and the edge interrupt interrupts both.            *)
(***************************************************************************)
EXTENDS Integers

VARIABLES
  llMod,     \* how far loading or unloading has come
  llT1, llT2,  \* timer1, timer2: raw (not initialised), idle, pending
  llTick,    \* the tick under way: none; of timer1 high (the pin read as high)
             \* and sure; of timer2 more, add (loaded) and off
  llEn,      \* longlight_en
  llWriter,  \* a process is between setting longlight_en and add_timer()
  llConfirm, \* longlight_confirm
  llReg,     \* the register longlight_confirm++ is computed in
  llPin,     \* the detect pin is high
  llEdge,    \* a falling edge waits in the interrupt controller
  llMasked,  \* its interrupt is masked
  llHandler, \* longlight_interrupt() is registered
  llLight,   \* the light is on
  llFell,    \* the handler took an edge since the pin was last sampled high
  llInside,  \* ... after the test of a timer2_tick() under way
  llWrong,   \* the light was switched off although llFell and not llInside
  llBug,     \* the kernel stopped in add_timer()
  llRaced    \* a tick or a write came while the module was unloading

llTimers == <<llT1, llT2, llTick>>
llPinVars == <<llPin, llEdge, llMasked, llHandler, llFell, llInside>>
llOther == <<llLight, llWrong, llReg>>
llVars == <<llMod, llTimers, llEn, llWriter, llConfirm, llPinVars, llOther, llBug, llRaced>>

LlStages == {"out", "proc", "handler", "live", "del1", "del2", "noirq", "gone"}
LlLeaving == {"del1", "del2", "noirq"}
LlTick2 == {"more", "add", "off"}

LlTypeOK ==
  /\ llMod \in LlStages
  /\ llT1 \in {"raw", "idle", "pending"} /\ llT2 \in {"raw", "idle", "pending"}
  /\ llTick \in {"none", "high", "sure"} \cup LlTick2
  /\ llEn \in 0..2 /\ llWriter \in BOOLEAN /\ llConfirm \in 0..3 /\ llReg \in 0..3
  /\ llPin \in BOOLEAN /\ llEdge \in BOOLEAN /\ llMasked \in BOOLEAN
  /\ llHandler \in BOOLEAN /\ llLight \in BOOLEAN /\ llFell \in BOOLEAN
  /\ llInside \in BOOLEAN /\ llWrong \in BOOLEAN /\ llBug \in BOOLEAN /\ llRaced \in BOOLEAN

LlInit ==
  /\ llMod = "out" /\ llT1 = "raw" /\ llT2 = "raw" /\ llTick = "none"
  /\ llEn = 1 /\ llWriter = FALSE /\ llConfirm = 0 /\ llReg = 0
  /\ llPin \in BOOLEAN /\ llEdge = FALSE /\ llMasked = TRUE /\ llHandler = FALSE
  /\ llLight = FALSE /\ llFell = FALSE /\ llInside = FALSE /\ llWrong = FALSE
  /\ llBug = FALSE /\ llRaced = FALSE

\* add_timer() stops the kernel when the timer is pending or has no function.
AddTimer(t) == IF t = "idle" THEN "pending" ELSE t
AddBug(t) == t # "idle"

\* A process runs when no interrupt or tick does, a tick when no interrupt.
IrqDue == llEdge /\ ~llMasked /\ llHandler
LlProcRuns == ~llBug /\ llTick = "none" /\ ~IrqDue
LlTickRuns == ~llBug /\ ~IrqDue

-----------------------------------------------------------------------------
(* Loading                                                                 *)

longlight_create_proc_entry ==
  /\ llMod = "out" /\ ~llBug /\ llMod' = "proc"
  /\ UNCHANGED <<llTimers, llEn, llWriter, llConfirm, llPinVars, llOther, llBug, llRaced>>

\* The pins are set up, the light goes on and the interrupt is requested; the
\* result is unsigned, so that a failure goes unnoticed.
LlRequest(ok) ==
  /\ llMod = "proc" /\ LlProcRuns /\ llMod' = "handler"
  /\ llLight' = TRUE /\ llHandler' = ok
  /\ llMasked' = TRUE
  /\ UNCHANGED <<llTimers, llEn, llWriter, llConfirm, llPin, llEdge, llFell, llInside,
                 llWrong, llReg, llBug, llRaced>>

\* init_timer() and the first add_timer(); timer2 is initialised after it.
ext_longlight_init ==
  /\ llMod = "handler" /\ LlProcRuns /\ llMod' = "live"
  /\ llT1' = "pending" /\ llT2' = "idle"
  /\ UNCHANGED <<llTick, llEn, llWriter, llConfirm, llPinVars, llOther, llBug, llRaced>>

-----------------------------------------------------------------------------
(* The pin, its interrupt and the timers                                   *)

LlPinRises ==
  /\ ~llPin /\ llPin' = TRUE
  /\ UNCHANGED <<llMod, llTimers, llEn, llWriter, llConfirm, llEdge, llMasked, llHandler,
                 llFell, llInside, llOther, llBug, llRaced>>

\* An edge of a masked interrupt is remembered by the controller, or lost.
LlPinFalls ==
  /\ llPin /\ llPin' = FALSE
  /\ llEdge' \in IF llMasked THEN {llEdge, TRUE} ELSE {TRUE}
  /\ UNCHANGED <<llMod, llTimers, llEn, llWriter, llConfirm, llMasked, llHandler, llFell,
                 llInside, llOther, llBug, llRaced>>

EdgeIgnored == llConfirm

\* What the interrupt makes of longlight_confirm.
EdgeConfirm == 0

longlight_interrupt_ll ==
  /\ IrqDue /\ ~llBug
  /\ llMasked' = TRUE /\ llEdge' = FALSE
  /\ llConfirm' = EdgeConfirm
  /\ llFell' = TRUE /\ llInside' = (llTick \in LlTick2)
  /\ UNCHANGED <<llMod, llTimers, llEn, llWriter, llPin, llHandler, llOther, llBug, llRaced>>

LlRaces == llRaced' = (llRaced \/ llMod \in LlLeaving)

\* timer1_tick() reads the pin; it does not come back when longlight_en is 0.
timer1_tick ==
  /\ llT1 = "pending" /\ llTick = "none" /\ LlTickRuns /\ llMod # "gone"
  /\ LlRaces
  /\ \/ /\ llEn = 0
        /\ llT1' = "idle" /\ UNCHANGED <<llTick, llFell, llInside>>
     \/ /\ llEn # 0 /\ llPin
        /\ llT1' = "idle" /\ llTick' = "high" /\ llFell' = FALSE /\ llInside' = FALSE
     \/ /\ llEn # 0 /\ ~llPin                    \* add_timer(&timer1)
        /\ UNCHANGED <<llT1, llTick, llFell, llInside>>
  /\ UNCHANGED <<llMod, llT2, llEn, llWriter, llConfirm, llPin, llEdge, llMasked, llHandler,
                 llOther, llBug>>

\* longlight_confirm = 1 ...
Suspect ==
  /\ llTick = "high" /\ LlTickRuns
  /\ llTick' = "sure" /\ llConfirm' = 1
  /\ UNCHANGED <<llMod, llT1, llT2, llEn, llWriter, llPinVars, llOther, llBug, llRaced>>

\* ... mask, add_timer(&timer2), unmask.
StartConfirming ==
  /\ llTick = "sure" /\ LlTickRuns
  /\ llTick' = "none"
  /\ llT2' = AddTimer(llT2) /\ llBug' = AddBug(llT2)
  /\ llMasked' = AddBug(llT2)
  /\ UNCHANGED <<llMod, llT1, llEn, llWriter, llConfirm, llPin, llEdge, llHandler, llFell,
                 llInside, llOther, llRaced>>

\* timer2_tick() tests longlight_confirm: back to timer1, once more, or off
\* with the light.  The interrupt may come after the test.
timer2_tick ==
  /\ llT2 = "pending" /\ llTick = "none" /\ LlTickRuns /\ llMod # "gone"
  /\ LlRaces
  /\ llT2' = "idle"
  /\ \/ /\ llConfirm = 0
        /\ llT1' = AddTimer(llT1) /\ llBug' = AddBug(llT1) /\ UNCHANGED llTick
     \/ /\ llConfirm # 0
        /\ llTick' = IF llConfirm < 3 THEN "more" ELSE "off"
        /\ UNCHANGED <<llT1, llBug>>
  /\ UNCHANGED <<llMod, llEn, llWriter, llConfirm, llPinVars, llOther>>

\* longlight_confirm++ is a load and a store; then add_timer(&timer2).
CountLoad ==
  /\ llTick = "more" /\ LlTickRuns
  /\ llTick' = "add" /\ llReg' = llConfirm
  /\ UNCHANGED <<llMod, llT1, llT2, llEn, llWriter, llConfirm, llPinVars, llLight, llWrong,
                 llBug, llRaced>>
CountStore ==
  /\ llTick = "add" /\ LlTickRuns
  /\ llTick' = "none" /\ llConfirm' = llReg + 1
  /\ llT2' = AddTimer(llT2) /\ llBug' = AddBug(llT2)
  /\ UNCHANGED <<llMod, llT1, llEn, llWriter, llPinVars, llOther, llRaced>>

\* The light goes off, and back to timer1.
TurnOff ==
  /\ llTick = "off" /\ LlTickRuns
  /\ llTick' = "none" /\ llLight' = FALSE
  /\ llT1' = AddTimer(llT1) /\ llBug' = AddBug(llT1)
  /\ llWrong' = (llWrong \/ (llLight /\ llFell /\ ~llInside))
  /\ UNCHANGED <<llMod, llT2, llEn, llWriter, llConfirm, llPinVars, llReg, llRaced>>

-----------------------------------------------------------------------------
(* /proc/longlighten, and unloading                                        *)

LlFilesThere == llMod \notin {"out", "gone"}

longlighten_write_fun(v) ==
  /\ LlFilesThere /\ ~llWriter /\ LlProcRuns
  /\ llEn' = v /\ llWriter' = (v = 1)
  /\ UNCHANGED <<llMod, llTimers, llConfirm, llPinVars, llOther, llBug, llRaced>>

\* add_timer(&timer1), whether it is pending or not.
LlWriteAdds ==
  /\ llWriter /\ LlProcRuns
  /\ llWriter' = FALSE
  /\ LlRaces
  /\ llT1' = AddTimer(llT1) /\ llBug' = AddBug(llT1)
  /\ UNCHANGED <<llMod, llT2, llTick, llEn, llConfirm, llPinVars, llOther>>

\* del_timer(), which does not wait.
Deleted(t) == IF t = "pending" THEN "idle" ELSE t

\* ext_longlight_free(): timer1, timer2, the handler, the files.
LlFree ==
  /\ LlProcRuns /\ llMod \in {"live"} \cup LlLeaving
  /\ llMod = "noirq" => ~llWriter      \* remove_proc_entry() waits for it
  /\ llMod' = CASE llMod = "live" -> "del1"  [] llMod = "del1" -> "del2"
                [] llMod = "del2" -> "noirq" [] OTHER -> "gone"
  /\ llT1' = IF llMod = "live" THEN Deleted(llT1) ELSE llT1
  /\ llT2' = IF llMod = "del1" THEN Deleted(llT2) ELSE llT2
  /\ llHandler' = (llHandler /\ llMod # "del2")
  /\ UNCHANGED <<llTick, llEn, llWriter, llConfirm, llPin, llEdge, llMasked, llFell,
                 llInside, llOther, llBug, llRaced>>

LlNext ==
  \/ longlight_create_proc_entry \/ ext_longlight_init
  \/ \E ok \in BOOLEAN : LlRequest(ok)
  \/ LlPinRises \/ LlPinFalls \/ longlight_interrupt_ll
  \/ timer1_tick \/ Suspect \/ StartConfirming
  \/ timer2_tick \/ CountLoad \/ CountStore \/ TurnOff
  \/ \E v \in 0..2 : longlighten_write_fun(v)
  \/ LlWriteAdds \/ LlFree

LlSpec == LlInit /\ [][LlNext]_llVars

-----------------------------------------------------------------------------
(* Properties                                                              *)

\* The light is switched off only after three confirmations during which the
\* handler took no edge, however edges, interrupts and ticks mix: the
\* interrupt that timer1_tick() unmasks sets the count back to 0
\* (longlightdetect_dev.c:78) before timer2 runs again.  Not covered: an edge
\* the handler takes after the test of a timer2_tick() under way (:115, :120),
\* whose 0 is overwritten by the increment or comes too late for the
\* switch-off; an edge that comes masked and is not remembered, before
\* timer1_tick() unmasks or without a handler; and a tick or a write that
\* revives the timers of a module that is leaving.
LlOffWhenSteady == llWrong => llRaced

\* While detection is enabled one of the timers is armed, or a tick or a
\* write that arms one is under way, whatever was written before; and a
\* module that was unloaded without a tick or a write in between leaves no
\* timer behind.
LlKeepsWatch ==
  /\ llMod = "live" /\ llEn = 1 /\ ~llBug =>
       "pending" \in {llT1, llT2} \/ llTick # "none" \/ llWriter
  /\ llMod = "gone" /\ ~llRaced /\ ~llBug => "pending" \notin {llT1, llT2}

\* Detection is neither wrong nor asleep (timer1_tick(), timer2_tick() and
\* the falling-edge interrupt).
LlWatches == LlTypeOK /\ LlOffWhenSteady /\ LlKeepsWatch

=============================================================================
