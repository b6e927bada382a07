------------------------------- MODULE UccTx -------------------------------
(***************************************************************************)
(* write() on a QUICC Engine port: RcttyWrite over the ring of transmit    *)
(* buffer descriptors of a UCC in UART mode (ucc_uart.c).                  *)
(* qe_uart_tx_pump() fills free descriptors from the circular buffer, from *)
(* uart_write() when the transmit interrupt is masked and from the         *)
(* interrupt handler otherwise; the engine sends descriptors in ring order *)
(* and raises an event for each.                                           *)
(*                                                                         *)
(* The handler and uart_write() (interrupts off) are atomic to the driver. *)
(* The engine may finish a descriptor while the pump runs; the pump then   *)
(* does what it would do if the descriptor had been free from the start.   *)
(***************************************************************************)
EXTENDS RcttyWrite

CONSTANTS
  TX_NUM_FIFO,  \* descriptors in the ring (4)
  TX_BUF_SIZE,  \* characters a descriptor holds (64)
  CloseTries,   \* times the shutdown looks for empty descriptors (20)
  Breaks,       \* may CMD_SET_BREAK stop the transmitter?
  Closes        \* may the file be closed?

ASSUME UccAssumption ==
  /\ {TX_NUM_FIFO, TX_BUF_SIZE, CloseTries} \subseteq Nat \ {0}
  /\ {Breaks, Closes} \subseteq BOOLEAN

VARIABLES
  bd,        \* the descriptors: READY, and the characters
  tx_cur,    \* qe_port->tx_cur, the next one the driver fills
  qe_cur,    \* the next one the engine sends
  uccm,      \* UCC_UART_UCCE_TX in the interrupt mask
  ucce,      \* UCC_UART_UCCE_TX in the event register
  out,       \* characters that left on the line, in order
  stopped,   \* transmitter stopped by a break
  cpc,       \* rctty_release(): "open", "wait", "closed"
  tries      \* looks left in xr_shutdown_ucc()

bdVars == <<bd, tx_cur, uccm>>
uccVars == <<bdVars, qe_cur, ucce, out, stopped, cpc, tries>>
vars == <<ringVars, tlet, writeVars, uccVars>>

BDs == 0 .. TX_NUM_FIFO - 1

\* qe_uart_initbd() and xr_startup_ucc()
Init ==
  /\ InitWrite
  /\ bd = [i \in BDs |-> [ready |-> FALSE, data |-> <<>>]]
  /\ tx_cur = 0
  /\ qe_cur = 0
  /\ uccm = FALSE
  /\ ucce = FALSE
  /\ out = <<>>
  /\ stopped = FALSE
  /\ cpc = "open"
  /\ tries = CloseTries
-----------------------------------------------------------------------------
WrapsEarly(i) == (tx_cur + i) % (TX_NUM_FIFO - 1)

\* The i-th descriptor from tx_cur on, with BD_SC_WRAP on the last.
FromCur(i) == (tx_cur + i) % TX_NUM_FIFO

\* How many descriptors from tx_cur on are free.
Free == CHOOSE n \in 0 .. TX_NUM_FIFO :
          /\ \A i \in 0 .. n - 1 : ~bd[FromCur(i)].ready
          /\ n < TX_NUM_FIFO => bd[FromCur(n)].ready

\* What qe_uart_tx_pump() can take of a ring with head h.
Taken(h) == Less(CircCnt(h, tail), Free * TX_BUF_SIZE)
Left(h)  == CircCnt(h, tail) - Taken(h)

WakesAtLevel(left) == left = WAKEUP_CHARS

\* "uart_circ_chars_pending(xmit) < WAKEUP_CHARS"
Wakes(left) == left < WAKEUP_CHARS

\* qe_uart_tx_pump() of a ring with contents b and head h, without the mask.
qe_uart_tx_pump(b, h) ==
  LET s    == Pending(b, h, tail)
      k    == Taken(h)
      used == (k + TX_BUF_SIZE - 1) \div TX_BUF_SIZE
      nth(i) == (i - tx_cur) % TX_NUM_FIFO
  IN
  /\ bd' = [i \in BDs |->
              IF nth(i) < used
                THEN [ready |-> TRUE,
                      data  |-> SubSeq(s, nth(i) * TX_BUF_SIZE + 1,
                                       Less(k, (nth(i) + 1) * TX_BUF_SIZE))]
                ELSE bd[i]]
  /\ tx_cur' = FromCur(used)
  /\ tail' = Advance(tail, k)
  /\ tlet' = (tlet \/ (s # <<>> /\ Wakes(Left(h))))

StartAsDocumented ==
  IF uccm
    THEN UNCHANGED <<bdVars, tail, tlet>>
    ELSE /\ qe_uart_tx_pump(buf', head')
         /\ uccm' = (Left(head') = 0)

\* xr_start_tx_ucc(): nothing while the interrupt is enabled; else pump, and
\* enable it if characters are left (a non-zero result of the pump).
xr_start_tx_ucc ==
  IF uccm
    THEN UNCHANGED <<bdVars, tail, tlet>>
    ELSE /\ qe_uart_tx_pump(buf', head')
         /\ uccm' = (Left(head') > 0)

\* write_chan() with uart_write() on this port.
UartWrite(w) ==
  /\ write_chan(w)
  /\ xr_start_tx_ucc
  /\ UNCHANGED <<qe_cur, ucce, out, stopped, cpc, tries>>

MaskAlways == FALSE

\* The mask after the pump: qe_uart_stop_tx() once the ring is empty.
MaskAfter == uccm /\ Left(head) > 0

\* qe_uart_int(): clear the events, pump if a descriptor was sent.  A receive
\* interrupt may find the transmit event while it is masked.
qe_uart_int ==
  /\ ucce
  /\ cpc # "closed"
  /\ ucce' = FALSE
  /\ qe_uart_tx_pump(buf, head)
  /\ uccm' = MaskAfter
  /\ UNCHANGED <<head, buf, writeVars, qe_cur, out, stopped, cpc, tries>>

\* The engine sends the next descriptor (external).
QeSend ==
  /\ ~stopped
  /\ bd[qe_cur].ready
  /\ bd' = [bd EXCEPT ![qe_cur].ready = FALSE]
  /\ out' = out \o bd[qe_cur].data
  /\ qe_cur' = (qe_cur + 1) % TX_NUM_FIFO
  /\ ucce' = TRUE
  /\ UNCHANGED <<ringVars, tlet, writeVars, tx_cur, uccm, stopped, cpc, tries>>

\* CMD_SET_BREAK: stop or restart the transmitter.
xr_break_ctl_ucc ==
  /\ Breaks
  /\ cpc = "open"
  /\ stopped' = ~stopped
  /\ UNCHANGED <<ringVars, tlet, writeVars, bdVars, qe_cur, ucce, out, cpc, tries>>
-----------------------------------------------------------------------------
\* qe_uart_tx_empty(): no descriptor is waiting to be sent.
qe_uart_tx_empty == \A i \in BDs : ~bd[i].ready

\* The last reference to the file goes: nobody is inside write().
rctty_release ==
  /\ Closes
  /\ cpc = "open"
  /\ \A w \in Writers : wr[w].pc = "idle"
  /\ cpc' = "wait"
  /\ UNCHANGED <<ringVars, tlet, writeVars, bdVars, qe_cur, ucce, out, stopped, tries>>

\* xr_shutdown_ucc(): look, and sleep two ticks, until the descriptors are
\* empty or the tries are used up; then mask and free the interrupt and kill
\* the tasklet.  The engine is not disabled.
xr_shutdown_ucc ==
  /\ cpc = "wait"
  /\ IF qe_uart_tx_empty \/ tries = 1
       THEN /\ cpc' = "closed"
            /\ uccm' = FALSE
            /\ tlet' = FALSE
            /\ UNCHANGED tries
       ELSE /\ tries' = tries - 1
            /\ UNCHANGED <<cpc, uccm, tlet>>
  /\ UNCHANGED <<ringVars, writeVars, bd, tx_cur, qe_cur, ucce, out, stopped>>
-----------------------------------------------------------------------------
Thread(w) ==
  /\ cpc = "open"
  /\ \/ /\ rctty_write(w) \/ WriteStep(w) \/ SignalWriter(w)
        /\ UNCHANGED uccVars
     \/ UartWrite(w)

\* The same without what nobody has to do.
Progress(w) ==
  /\ cpc = "open"
  /\ \/ WriteStep(w) /\ UNCHANGED uccVars
     \/ UartWrite(w)

Tasklet == uart_tasklet_action /\ UNCHANGED uccVars

Next ==
  \/ \E w \in Writers : Thread(w)
  \/ qe_uart_int \/ Tasklet \/ QeSend \/ xr_break_ctl_ucc
  \/ rctty_release \/ xr_shutdown_ucc

Spec == Init /\ [][Next]_vars

\* Enabled interrupts, tasklets and runnable threads are served; the engine
\* sends.
FairSpec ==
  /\ Spec
  /\ WF_vars(uccm /\ qe_uart_int)
  /\ WF_vars(Tasklet)
  /\ WF_vars(QeSend)
  /\ \A w \in Writers : WF_vars(Progress(w))
-----------------------------------------------------------------------------
\* Type invariant of the port and of RcttyWrite.
TypeOK ==
  /\ TypeOKWrite
  /\ bd \in [BDs -> [ready : BOOLEAN, data : Seq(Calls \X Nat)]]
  /\ {tx_cur, qe_cur} \subseteq BDs
  /\ {uccm, ucce, stopped} \subseteq BOOLEAN
  /\ out \in Seq(Calls \X Nat)
  /\ cpc \in {"open", "wait", "closed"}
  /\ tries \in 1 .. CloseTries

\* The characters in the descriptors the engine has not sent, in its order.
Waiting[n \in 0 .. TX_NUM_FIFO] ==
  IF n = 0 THEN <<>>
  ELSE LET d == bd[(qe_cur + n - 1) % TX_NUM_FIFO]
       IN  Waiting[n - 1] \o (IF d.ready THEN d.data ELSE <<>>)

\* Every character accepted from write(), in its place.
Stream == out \o Waiting[TX_NUM_FIFO] \o Pending(buf, head, tail)

\* write() calls leave the line one after the other, each with consecutive
\* bytes from its start, and each reports exactly the bytes that were
\* accepted, through ring and descriptors that wrap independently.
WritesInOrder == CallByCall(Stream) /\ Reported(Stream)

\* The driver never fills a descriptor ahead of the engine: the descriptors to
\* be sent are exactly the ones from the engine's to the driver's position.
RingsAgree ==
  \A i \in BDs :
    bd[i].ready <=> \/ qe_cur = tx_cur /\ bd[qe_cur].ready
                    \/ (i - qe_cur) % TX_NUM_FIFO < (tx_cur - qe_cur) % TX_NUM_FIFO

\* Characters in the ring wait for an event that will come: the interrupt is
\* enabled, and a descriptor is still to be sent or its event is pending.
PumpComesBack ==
  (head # tail /\ cpc # "closed")
    => uccm /\ (ucce \/ \E i \in BDs : bd[i].ready)

\* A thread asleep in write_chan() is woken: the tasklet is scheduled or the
\* pump will come back to a non-empty ring.
WriterServed ==
  \A w \in Writers :
    (wr[w].pc = "sleep" /\ wr[w].state = "interruptible") => (tlet \/ head # tail)
=============================================================================
