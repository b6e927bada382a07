------------------------------ MODULE DuartTx ------------------------------
(***************************************************************************)
(* write() on a DUART port: RcttyWrite over the transmitter of the 16550   *)
(* compatible DUART (serial_xr16m752.c).  The transmit interrupt moves     *)
(* TxBurst characters from the circular buffer to the transmit FIFO; on an *)
(* RS-485 line RTS enables the line driver and must stay up while          *)
(* characters leave the UART.                                              *)
(*                                                                         *)
(* The interrupt handler is atomic.  The busy waits for LSR.TEMT are in    *)
(* process context (ioctl, close) with interrupts on, and inside the       *)
(* handler itself (xr_stop_tx_duart()), where the FIFO runs empty before   *)
(* the handler goes on.                                                    *)
(***************************************************************************)
EXTENDS RcttyWrite

CONSTANTS
  TxBurst,     \* characters one interrupt writes without looking (8)
  TxTrigger,   \* the interrupt is asserted at or below this FIFO level
  TxFifoSize,  \* capacity of the transmit FIFO
  Set485,      \* may CMD_SET_INTERFACE be issued?
  Closes       \* may the file be closed?

\* What the constants must satisfy; the FIFO has room for a burst whenever the
\* transmit interrupt is asserted.
DuartConstants ==
  /\ {TxBurst, TxTrigger, TxFifoSize} \subseteq Nat
  /\ TxBurst >= 1
  /\ TxTrigger + TxBurst <= TxFifoSize
  /\ {Set485, Closes} \subseteq BOOLEAN

VARIABLES
  thri,     \* UART_IER_THRI in uap->im and in the register
  rts,      \* UART_MCR_RTS
  txFifo,   \* characters in the transmit FIFO
  out,      \* characters that left on the line, in order
  lostTx,   \* characters written to a full FIFO, or cleared with it
  ipc,      \* xr_disable_485_duart(): "none", or past its busy wait
  cpc       \* rctty_release(): "open", the steps of the shutdown, "closed"

portVars == <<thri, rts, txFifo, out, lostTx>>
duartVars == <<portVars, ipc, cpc>>
vars == <<ringVars, tlet, writeVars, duartVars>>

Init ==
  /\ InitWrite
  /\ thri = FALSE
  /\ rts = FALSE
  /\ txFifo = <<>>
  /\ out = <<>>
  /\ lostTx = {}
  /\ ipc = "none"
  /\ cpc = "open"
-----------------------------------------------------------------------------
xr_start_tx_duart ==
  /\ rts' = TRUE
  /\ thri' = TRUE
  /\ UNCHANGED <<txFifo, out, lostTx>>

\* write_chan() with uart_write() on this port.
UartWrite(w) ==
  /\ write_chan(w)
  /\ xr_start_tx_duart
  /\ UNCHANGED <<tail, tlet, ipc, cpc>>

StopAtOnce(fifo) ==
  /\ rts' = FALSE
  /\ thri' = FALSE
  /\ txFifo' = fifo
  /\ UNCHANGED out

\* xr_stop_tx_duart() in the handler, when the FIFO holds fifo: wait until it
\* has left the UART, then drop RTS and disable the interrupt.
xr_stop_tx_duart(fifo) ==
  /\ out' = out \o fifo
  /\ txFifo' = <<>>
  /\ rts' = FALSE
  /\ thri' = FALSE

\* How many characters the do-while loop of xr_tx_chars_duart() writes.
Burst == Less(TxBurst, CircCnt(head, tail))

WakesAtLevel(left) == left = WAKEUP_CHARS

\* "uart_circ_chars_pending(xmit) < WAKEUP_CHARS"
Wakes(left) == left < WAKEUP_CHARS

\* xr_int_duart() for a transmit interrupt: xr_tx_chars_duart(uap, 8).
xr_tx_chars_duart ==
  LET k     == Burst
      moved == SubSeq(Pending(buf, head, tail), 1, k)
      room  == Less(k, TxFifoSize - Len(txFifo))
      fifo  == txFifo \o SubSeq(moved, 1, room)
      left  == CircCnt(head, tail) - k
  IN
  /\ thri
  /\ Len(txFifo) <= TxTrigger
  /\ cpc # "closed"
  /\ tail' = Advance(tail, k)
  /\ lostTx' = lostTx \union {moved[i] : i \in room + 1 .. k}
  /\ tlet' = (tlet \/ (k > 0 /\ Wakes(left)))
  /\ IF left = 0
       THEN xr_stop_tx_duart(fifo)
       ELSE /\ txFifo' = fifo
            /\ UNCHANGED <<thri, rts, out>>
  /\ UNCHANGED <<head, buf, writeVars, ipc, cpc>>

\* The transmitter sends a character (external).
ShiftOut ==
  /\ txFifo # <<>>
  /\ out' = Append(out, Head(txFifo))
  /\ txFifo' = Tail(txFifo)
  /\ UNCHANGED <<ringVars, tlet, writeVars, thri, rts, lostTx, ipc, cpc>>
-----------------------------------------------------------------------------
(***************************************************************************)
(* CMD_SET_INTERFACE and close()                                           *)
(***************************************************************************)
xr_enable_485_duart ==
  /\ Set485
  /\ cpc = "open"
  /\ rts' = TRUE
  /\ UNCHANGED <<ringVars, tlet, writeVars, thri, txFifo, out, lostTx, ipc, cpc>>

\* Wait for TEMT ...
WaitTemt ==
  /\ Set485
  /\ cpc = "open"
  /\ ipc = "none"
  /\ txFifo = <<>>
  /\ ipc' = "mcr"
  /\ UNCHANGED <<ringVars, tlet, writeVars, portVars, cpc>>

\* ... then drop RTS.
xr_disable_485_duart ==
  /\ ipc = "mcr"
  /\ ipc' = "none"
  /\ rts' = FALSE
  /\ UNCHANGED <<ringVars, tlet, writeVars, thri, txFifo, out, lostTx, cpc>>

\* The last reference to the file goes: nobody is inside write() or ioctl().
\* xr_shutdown_duart() waits for TEMT as xr_stop_tx_duart() does ...
rctty_release ==
  /\ Closes
  /\ cpc = "open"
  /\ ipc = "none"
  /\ \A w \in Writers : wr[w].pc = "idle"
  /\ txFifo = <<>>
  /\ cpc' = "mcr"
  /\ UNCHANGED <<ringVars, tlet, writeVars, portVars, ipc>>

\* ... drops RTS ...
ShutdownRts ==
  /\ cpc = "mcr"
  /\ cpc' = "ier"
  /\ rts' = FALSE
  /\ UNCHANGED <<ringVars, tlet, writeVars, thri, txFifo, out, lostTx, ipc>>

\* ... and disables the interrupts, frees the interrupt, clears the FIFO and
\* kills the tasklet.  What the circular buffer still holds goes with it.
xr_shutdown_duart ==
  /\ cpc = "ier"
  /\ cpc' = "closed"
  /\ thri' = FALSE
  /\ tlet' = FALSE
  /\ lostTx' = lostTx \union {txFifo[i] : i \in 1 .. Len(txFifo)}
  /\ txFifo' = <<>>
  /\ UNCHANGED <<ringVars, writeVars, rts, out, ipc>>
-----------------------------------------------------------------------------
Thread(w) ==
  /\ cpc = "open"
  /\ \/ /\ rctty_write(w) \/ WriteStep(w) \/ SignalWriter(w)
        /\ UNCHANGED duartVars
     \/ UartWrite(w)

\* The same without what nobody has to do.
Progress(w) ==
  /\ cpc = "open"
  /\ \/ WriteStep(w) /\ UNCHANGED duartVars
     \/ UartWrite(w)

Tasklet == uart_tasklet_action /\ UNCHANGED duartVars

Ioctl == xr_enable_485_duart \/ WaitTemt \/ xr_disable_485_duart
Close == rctty_release \/ ShutdownRts \/ xr_shutdown_duart

Next ==
  \/ \E w \in Writers : Thread(w)
  \/ xr_tx_chars_duart \/ Tasklet \/ ShiftOut \/ Ioctl \/ Close

Spec == Init /\ [][Next]_vars

\* Interrupts, tasklets and runnable threads are served; the UART sends.
FairSpec ==
  /\ Spec
  /\ WF_vars(xr_tx_chars_duart)
  /\ WF_vars(Tasklet)
  /\ WF_vars(ShiftOut)
  /\ \A w \in Writers : WF_vars(Progress(w))
-----------------------------------------------------------------------------
\* Type invariant of the port and of RcttyWrite.
TypeOK ==
  /\ TypeOKWrite
  /\ {thri, rts} \subseteq BOOLEAN
  /\ txFifo \in Seq(Calls \X Nat) /\ Len(txFifo) <= TxFifoSize
  /\ out \in Seq(Calls \X Nat)
  /\ lostTx \subseteq Calls \X Nat
  /\ ipc \in {"none", "mcr"}
  /\ cpc \in {"open", "mcr", "ier", "closed"}

\* Every character accepted from write(), in its place.
Stream == out \o txFifo \o Pending(buf, head, tail)

\* write() calls leave the line one after the other, each with consecutive
\* bytes from its start, and each reports exactly the bytes that were
\* accepted: atomic_write is held over all chunks, and the ring keeps order
\* around its end.
WritesInOrder == CallByCall(Stream) /\ Reported(Stream)

\* No character is written to a full transmit FIFO, although the handler
\* writes a burst without testing LSR.THRE.
NoTxLoss == lostTx = {}

\* A thread asleep in write_chan() is woken: while the ring is below
\* WAKEUP_CHARS the tasklet is scheduled, and above it the transmit interrupt
\* is enabled.
WriterServed ==
  \A w \in Writers :
    (wr[w].pc = "sleep" /\ wr[w].state = "interruptible")
      => (tlet \/ (thri /\ CircCnt(head, tail) >= 1))

\* RS-485: RTS is up while characters leave the UART.
RtsWhileSending == txFifo # <<>> => rts
=============================================================================
