------------------------------- MODULE UccRx -------------------------------
(***************************************************************************)
(* Reception on a QUICC Engine port (ucc_uart.c): the engine fills the     *)
(* ring of receive buffer descriptors, and the interrupt handler empties   *)
(* it into the flip buffer, from where flush_to_ldisc() passes the         *)
(* characters on (RcttyRead has the rest of their way).                    *)
(*                                                                         *)
(* The handler runs with respect to the driver's threads as one step, but  *)
(* the engine goes on receiving beside it: the handler takes one step for  *)
(* the event register and one for each descriptor.                         *)
(*                                                                         *)
(* Characters are numbered as the line brings them; Mark is the extra zero *)
(* character that reports an overrun.  Parity, framing and break errors    *)
(* only set the flag of a character, which the line discipline ignores.    *)
(***************************************************************************)
EXTENDS Integers, Sequences

CONSTANTS
  RX_NUM_FIFO,       \* descriptors in the ring (4)
  RX_BUF_SIZE,       \* characters a descriptor holds (64)
  TTY_FLIPBUF_SIZE,  \* capacity of one half of the flip buffer (4096)
  MaxByte,           \* bound: characters the line brings
  MaxOpen            \* bound: times the port is opened

\* What the constants have to be.
UccRxConstants ==
  /\ {RX_NUM_FIFO, RX_BUF_SIZE, TTY_FLIPBUF_SIZE} \subseteq Nat \ {0}
  /\ {MaxByte, MaxOpen} \subseteq Nat

VARIABLES
  \* the engine (external) and the registers it shares with the driver
  arrived,   \* characters the line has brought
  missed,    \* the ones that found no EMPTY descriptor
  filling,   \* the characters of the descriptor being filled
  qe_cur,    \* that descriptor
  bd,        \* the descriptors: EMPTY, the characters, and BD_SC_OV
  ucce,      \* UCC_UART_UCCE_RX in the event register
  \* struct uart_qe_port
  rx_cur,    \* where the handler starts
  opened,    \* RX in uccm, and the handler installed
  opens,     \* times the port was opened
  \* the handler
  ipc,       \* "none"; in qe_uart_int_rx(): "scan", the loop, "exit", past it
  bdp,       \* the descriptor it has reached
  \* the flip buffer and its delayed work
  flip, pending,
  passed,    \* characters passed to n_tty_receive_buf(), in order
  dropped,   \* characters in the flip buffer of a port that was closed
  \* history of the early return of qe_uart_int_rx()
  deferred,  \* the last interrupt left a descriptor for the next one
  torn       \* ... after it had emptied others: rx_cur is not written back

qeVars   == <<arrived, missed, filling, qe_cur>>
portVars == <<opened, opens>>
flipVars == <<flip, pending>>
histVars == <<deferred, torn>>
vars == <<qeVars, bd, ucce, rx_cur, portVars, ipc, bdp, flipVars, passed,
          dropped, histVars>>
-----------------------------------------------------------------------------
BDs  == 0 .. RX_NUM_FIFO - 1
Mark == 0

\* The next descriptor; the last one has BD_SC_WRAP.
Succ(i) == IF i = RX_NUM_FIFO - 1 THEN 0 ELSE i + 1

\* qe_uart_initbd(): all descriptors are EMPTY.  The port is closed.
Init ==
  /\ arrived = 0
  /\ missed = {}
  /\ filling = <<>>
  /\ qe_cur = 0
  /\ bd = [i \in BDs |-> [empty |-> TRUE, data |-> <<>>, ov |-> FALSE]]
  /\ ucce = FALSE
  /\ rx_cur = 0
  /\ opened = FALSE
  /\ opens = 0
  /\ ipc = "none"
  /\ bdp = 0
  /\ flip = <<>>
  /\ pending = FALSE
  /\ passed = <<>>
  /\ dropped = {}
  /\ deferred = FALSE
  /\ torn = FALSE
-----------------------------------------------------------------------------
(***************************************************************************)
(* The engine.  It receives whether or not the port is open:               *)
(* xr_shutdown_ucc() only masks the event.                                 *)
(***************************************************************************)
QeReceive ==
  /\ arrived < MaxByte
  /\ arrived' = arrived + 1
  /\ IF bd[qe_cur].empty /\ Len(filling) < RX_BUF_SIZE
       THEN filling' = Append(filling, arrived + 1) /\ UNCHANGED missed
       ELSE missed' = missed \union {arrived + 1} /\ UNCHANGED filling
  /\ UNCHANGED <<qe_cur, bd, ucce, rx_cur, portVars, ipc, bdp, flipVars,
                 passed, dropped, histVars>>

\* A descriptor is closed when it is full or the line has been idle.
QeClose ==
  /\ filling # <<>>
  /\ \E ov \in BOOLEAN :
       bd' = [bd EXCEPT ![qe_cur] = [empty |-> FALSE, data |-> filling, ov |-> ov]]
  /\ filling' = <<>>
  /\ qe_cur' = Succ(qe_cur)
  /\ ucce' = TRUE
  /\ UNCHANGED <<arrived, missed, rx_cur, portVars, ipc, bdp, flipVars,
                 passed, dropped, histVars>>
-----------------------------------------------------------------------------
(***************************************************************************)
(* The interrupt handler.                                                  *)
(***************************************************************************)

\* qe_uart_int(): read and clear the events, then qe_uart_int_rx().
qe_uart_int ==
  /\ opened
  /\ ipc = "none"
  /\ ucce
  /\ ucce' = FALSE
  /\ ipc' = "scan"
  /\ bdp' = rx_cur
  /\ deferred' = FALSE
  /\ UNCHANGED <<qeVars, bd, rx_cur, portVars, flipVars, passed, dropped, torn>>

RoomForAll(i) == Len(flip) <= TTY_FLIPBUF_SIZE - i

\* "If we don't have enough room in RX buffer for the entire BD": one place
\* more than the BD has characters, which is what an overrun needs.
RoomFor(i) == Len(flip) < TTY_FLIPBUF_SIZE - i

\* tty_insert_flip_char() of each character of s: what does not fit is dropped.
InsertFlip(f, s) ==
  IF Len(f) + Len(s) <= TTY_FLIPBUF_SIZE THEN f \o s ELSE SubSeq(f \o s, 1, TTY_FLIPBUF_SIZE)

\* The characters a descriptor puts into the flip buffer.  The overrun is
\* reported before the last character.
Characters(d) ==
  IF d.ov
    THEN SubSeq(d.data, 1, Len(d.data) - 1) \o <<Mark, d.data[Len(d.data)]>>
    ELSE d.data

\* Copy the characters of the descriptor and give it back to the engine.
CopyBd ==
  /\ ipc = "scan"
  /\ ~bd[bdp].empty
  /\ RoomFor(Len(bd[bdp].data))
  /\ flip' = InsertFlip(flip, Characters(bd[bdp]))
  /\ bd' = [bd EXCEPT ![bdp] = [empty |-> TRUE, data |-> <<>>, ov |-> FALSE]]
  /\ bdp' = Succ(bdp)
  /\ UNCHANGED <<qeVars, ucce, rx_cur, portVars, ipc, pending, passed,
                 dropped, histVars>>

\* "then we try later, which will be the next RX interrupt": push what has
\* been copied and return; rx_cur is not written back.
NoRoom ==
  /\ ipc = "scan"
  /\ ~bd[bdp].empty
  /\ ~RoomFor(Len(bd[bdp].data))
  /\ ipc' = "none"
  /\ bdp' = 0
  /\ pending' = TRUE
  /\ deferred' = TRUE
  /\ torn' = (torn \/ bdp # rx_cur)
  /\ UNCHANGED <<qeVars, bd, ucce, rx_cur, portVars, flip, passed, dropped>>

\* "If this one is empty, then we assume we've read them all": leave the loop.
AllRead ==
  /\ ipc = "scan"
  /\ bd[bdp].empty
  /\ ipc' = "exit"
  /\ UNCHANGED <<qeVars, bd, ucce, rx_cur, portVars, bdp, flipVars, passed,
                 dropped, histVars>>

\* Write back rx_cur and schedule the work.
WriteBack ==
  /\ ipc = "exit"
  /\ ipc' = "none"
  /\ rx_cur' = bdp
  /\ bdp' = 0
  /\ pending' = TRUE
  /\ UNCHANGED <<qeVars, bd, ucce, portVars, flip, passed, dropped, histVars>>
-----------------------------------------------------------------------------
(***************************************************************************)
(* Threads: only between two interrupts.                                   *)
(***************************************************************************)

\* Swap the halves and hand over the full one.  While a reader has set
\* TTY_DONT_FLIP the work only schedules itself again, which changes nothing.
flush_to_ldisc ==
  /\ ipc = "none"
  /\ pending
  /\ passed' = passed \o flip
  /\ flip' = <<>>
  /\ pending' = FALSE
  /\ UNCHANGED <<qeVars, bd, ucce, rx_cur, portVars, ipc, bdp, dropped, histVars>>

\* rctty_open(): a new rctty_struct; install the handler, unmask RX.  The
\* descriptors and rx_cur are those of the last session.
xr_startup_ucc ==
  /\ ~opened
  /\ opens < MaxOpen
  /\ opened' = TRUE
  /\ opens' = opens + 1
  /\ UNCHANGED <<qeVars, bd, ucce, rx_cur, ipc, bdp, flipVars, passed,
                 dropped, histVars>>

\* rctty_release(): xr_shutdown_ucc() masks RX and removes the handler; the
\* work is cancelled and the flip buffer freed with the rctty_struct.
xr_shutdown_ucc ==
  /\ opened
  /\ ipc = "none"
  /\ opened' = FALSE
  /\ dropped' = dropped \union {flip[i] : i \in 1 .. Len(flip)}
  /\ flip' = <<>>
  /\ pending' = FALSE
  /\ UNCHANGED <<qeVars, bd, ucce, rx_cur, opens, ipc, bdp, passed, histVars>>

Next ==
  \/ QeReceive \/ QeClose
  \/ qe_uart_int \/ CopyBd \/ NoRoom \/ AllRead \/ WriteBack
  \/ flush_to_ldisc \/ xr_startup_ucc \/ xr_shutdown_ucc

Spec == Init /\ [][Next]_vars
-----------------------------------------------------------------------------
\* Type invariant; the flip buffer never exceeds its half.
TypeOK ==
  /\ arrived \in 0 .. MaxByte
  /\ missed \subseteq 1 .. MaxByte
  /\ filling \in Seq(1 .. MaxByte) /\ Len(filling) <= RX_BUF_SIZE
  /\ {qe_cur, rx_cur, bdp} \subseteq BDs
  /\ bd \in [BDs -> [empty : BOOLEAN, data : Seq(1 .. MaxByte), ov : BOOLEAN]]
  /\ {ucce, opened, pending, deferred, torn} \subseteq BOOLEAN
  /\ opens \in 0 .. MaxOpen
  /\ ipc \in {"none", "scan", "exit"}
  /\ flip \in Seq(0 .. MaxByte) /\ Len(flip) <= TTY_FLIPBUF_SIZE
  /\ passed \in Seq(0 .. MaxByte)
  /\ dropped \subseteq 0 .. MaxByte

\* Where the handler is, or will start.
Cur == IF ipc = "none" THEN rx_cur ELSE bdp

IsClosed(i) == ~bd[i].empty

\* How far descriptor i is ahead of the handler.
Ahead(i) == (i - Cur) % RX_NUM_FIFO

\* The characters of s, the ones that report an overrun left out, are in the
\* order of the line; the ones of s came before the ones of t.
Chars(s)     == {s[k] : k \in DOMAIN s} \ {Mark}
Sorted(s)    == \A k, l \in DOMAIN s : k < l /\ s[k] # Mark /\ s[l] # Mark => s[k] < s[l]
Before(s, t) == \A c \in Chars(s), d \in Chars(t) : c < d

\* The characters in the descriptors.
Held == UNION {Chars(bd[i].data) : i \in BDs}

\* As long as rx_cur was always written back, no character is lost, repeated
\* or overtaken between the line and the line discipline, except when the
\* engine finds no EMPTY descriptor or the port is closed: qe_uart_int_rx()
\* never hands tty_insert_flip_char() more than fits, overrun mark included,
\* and comes to the descriptors in the order in which they were filled.
RxKept ==
  ~torn =>
    /\ Sorted(passed) /\ Sorted(flip) /\ Sorted(filling)
    /\ Before(passed, flip) /\ Before(passed, filling) /\ Before(flip, filling)
    /\ \A i \in BDs :
         /\ Sorted(bd[i].data)
         /\ Before(passed, bd[i].data) /\ Before(flip, bd[i].data)
         /\ Before(bd[i].data, filling)
    /\ \A i, j \in BDs : Ahead(i) < Ahead(j) => Before(bd[i].data, bd[j].data)
    /\ Chars(passed) \union Chars(flip) \union Held \union Chars(filling)
         = (1 .. arrived) \ (missed \union dropped)

\* As long as rx_cur was always written back, the closed descriptors are the
\* ones from the handler's position to the engine's, although both wrap.
RxRingsAgree ==
  ~torn =>
    \A i \in BDs :
      IsClosed(i) <=> \/ qe_cur = Cur /\ IsClosed(Cur)
                      \/ Ahead(i) < Ahead(qe_cur)

\* A closed descriptor of an open port is not forgotten: its event is pending
\* or the handler is in its loop, unless the handler deferred it.  The handler
\* clears the events before it looks at the descriptors.
RxServed ==
  (opened /\ \E i \in BDs : IsClosed(i)) => (ucce \/ ipc = "scan" \/ deferred \/ torn)

\* "If this one is empty, then we assume we've read them all": between two
\* interrupts an EMPTY descriptor at rx_cur means that all are EMPTY.
EmptyMeansAllRead ==
  (ipc = "none" /\ bd[rx_cur].empty) => \A i \in BDs : bd[i].empty
=============================================================================
