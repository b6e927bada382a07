----------------------------- MODULE RcttyRead -----------------------------
(***************************************************************************)
(* The receive half of the rctty serial driver (uart-drv/src): characters  *)
(* travel from the UART's FIFO through the interrupt handler into the flip *)
(* buffer, through the delayed work flush_to_ldisc() into the circular     *)
(* read_buf, and from there to the threads in read_chan().                 *)
(*                                                                         *)
(* Characters are numbered in the order in which the line brings them, so  *)
(* that losing, repeating or reordering one is visible.                    *)
(*                                                                         *)
(* Contexts.  The interrupt handler is atomic: it takes no lock, and the   *)
(* code it could disturb runs under spin_lock_irqsave().  The work runs in *)
(* the kernel's event thread; it and every reader may be descheduled       *)
(* between any two of the steps below (a preemptible uniprocessor kernel). *)
(*                                                                         *)
(* The two halves of the flip buffer are the variables flip (the half that *)
(* flip.buf_num selects, flip.count = Len(flip)) and cp (the half that the *)
(* work has taken and is copying out of).                                  *)
(***************************************************************************)
EXTENDS Integers, Sequences, FiniteSets

CONSTANTS
  Readers,           \* threads calling read() on the open file
  TTY_FLIPBUF_SIZE,  \* capacity of one half of the flip buffer (4096)
  N_TTY_BUF_SIZE,    \* capacity of read_buf (16384)
  Nr,                \* byte counts a read() may ask for
  Modes,             \* <<min_char, time_char # 0>> pairs CMD_SET_MIN may set
  NonBlock,          \* may a read() be O_NONBLOCK?
  Ioctls,            \* may CMD_SET_MIN be issued while threads read?
  Polls,             \* may poll() be called while threads read?
  Faults,            \* may signals arrive and copy_to_user() fail?
  FifoSize,          \* capacity of the UART's receive FIFO
  MaxByte,           \* bound: characters the line brings
  MaxRead            \* bound: read() calls

ASSUME SizeAssumption ==
  /\ TTY_FLIPBUF_SIZE \in Nat \ {0}
  /\ N_TTY_BUF_SIZE \in Nat \ {0}
  /\ FifoSize \in Nat \ {0}
ASSUME InputAssumption ==
  /\ Nr \subseteq Nat
  /\ Modes \subseteq Nat \X BOOLEAN
  /\ Modes # {}
ASSUME SwitchAssumption ==
  /\ NonBlock \subseteq BOOLEAN
  /\ {Ioctls, Polls, Faults} \subseteq BOOLEAN
ASSUME BoundAssumption ==
  /\ MaxByte \in Nat
  /\ MaxRead \in Nat

VARIABLES
  \* the line and the UART
  arrived,          \* characters the line has brought
  rxFifo,           \* characters in the UART's receive FIFO
  lost,             \* characters lost to a full FIFO or a full read_buf
  \* flip buffer and delayed work
  flip,             \* characters in the half the interrupt handler fills
  pending,          \* is tty->work queued?
  wpc, cp,          \* flush_to_ldisc(): its next step, and the half it took
  \* struct rctty_struct
  read_buf, read_head, read_tail, read_cnt,
  minimum_to_wake,
  late,             \* history: minimum_to_wake stored on an outdated test
  min_char, time_char,
  dont_flip,        \* TTY_DONT_FLIP
  atomic_read,      \* the semaphore: TRUE when free
  read_wait,        \* threads on the read wait queue
  \* threads
  rd,               \* local state of each read_chan() call
  reads,            \* read() calls so far
  delivered         \* characters copied to user space, in order

uartVars == <<arrived, rxFifo>>
flipVars == <<flip, pending>>
workVars == <<wpc, cp>>
ringVars == <<read_buf, read_head, read_tail, read_cnt>>
wakeVars == <<minimum_to_wake, late>>
modeVars == <<min_char, time_char>>
syncVars == <<dont_flip, atomic_read, read_wait>>
vars == <<uartVars, lost, flipVars, workVars, ringVars, wakeVars,
          modeVars, syncVars, rd, reads, delivered>>
-----------------------------------------------------------------------------
Bytes == 1 .. MaxByte
Min2(a, b) == IF a < b THEN a ELSE b

\* The local variables of read_chan(): nr, got = b - buf, minimum, time,
\* timeout (0, a finite number of ticks, or MAX_SCHEDULE_TIMEOUT), the n of
\* copy_from_read_buf(), and the flags of the task.
Idle == [pc |-> "idle", nr |-> 0, got |-> 0, minimum |-> 1, time |-> FALSE,
         timeout |-> "max", nonblock |-> FALSE, n |-> 0, fault |-> FALSE,
         signal |-> FALSE, state |-> "running"]

ReaderPC == {"idle", "enter", "down", "arm", "test", "sleep", "n1", "copy1", "n2",
             "copy2", "check", "up", "leave", "left", "store"}

\* Bytes the call still needs to satisfy VMIN; with VTIME one is enough.
Need(r) == IF rd[r].time THEN 1 ELSE rd[r].minimum - rd[r].got

\* What the call promises when it is not cut short.
Need0(r) == IF rd[r].time THEN 1 ELSE rd[r].minimum

\* memcpy() into and out of read_buf at position at.  What lies beyond its end
\* is not part of it: writing there is lost to it, reading there gives junk.
CopyIn(buf, at, src) ==
  [p \in 0 .. N_TTY_BUF_SIZE - 1 |->
     IF at <= p /\ p < at + Len(src) THEN src[p - at + 1] ELSE buf[p]]
MemRead(at, k) ==
  [i \in 1 .. k |-> IF at + i - 1 < N_TTY_BUF_SIZE THEN read_buf[at + i - 1] ELSE 0]

Init ==
  /\ arrived = 0
  /\ rxFifo = <<>>
  /\ lost = {}
  /\ flip = <<>>
  /\ pending = FALSE
  /\ wpc = "idle"
  /\ cp = <<>>
  /\ read_buf = [i \in 0 .. N_TTY_BUF_SIZE - 1 |-> 0]
  /\ read_head = 0
  /\ read_tail = 0
  /\ read_cnt = 0
  /\ minimum_to_wake = 1
  /\ late = FALSE
  /\ \E m \in Modes : min_char = m[1] /\ time_char = m[2]
  /\ dont_flip = FALSE
  /\ atomic_read = TRUE
  /\ read_wait = {}
  /\ rd = [r \in Readers |-> Idle]
  /\ reads = 0
  /\ delivered = <<>>
-----------------------------------------------------------------------------
(***************************************************************************)
(* The line (external) and the interrupt handler.                          *)
(***************************************************************************)
LineBringsByte ==
  /\ arrived < MaxByte
  /\ arrived' = arrived + 1
  /\ IF Len(rxFifo) < FifoSize
       THEN rxFifo' = Append(rxFifo, arrived + 1) /\ UNCHANGED lost
       ELSE lost' = lost \union {arrived + 1} /\ UNCHANGED rxFifo
  /\ UNCHANGED <<flipVars, workVars, ringVars, wakeVars, modeVars,
                 syncVars, rd, reads, delivered>>

\* Moves characters until the FIFO is empty or the flip buffer is full; in
\* both cases tty_flip_buffer_push() schedules the work.
xr_rx_chars_duart ==
  LET k == Min2(Len(rxFifo), TTY_FLIPBUF_SIZE - Len(flip)) IN
  /\ rxFifo # <<>>
  /\ rxFifo' = SubSeq(rxFifo, k + 1, Len(rxFifo))
  /\ flip' = flip \o SubSeq(rxFifo, 1, k)
  /\ pending' = TRUE
  /\ UNCHANGED <<arrived, lost, workVars, ringVars, wakeVars, modeVars,
                 syncVars, rd, reads, delivered>>

(***************************************************************************)
(* flush_to_ldisc() and n_tty_receive_buf(), in the event thread.          *)
(***************************************************************************)
flush_to_ldisc ==
  /\ wpc = "idle"
  /\ pending
  /\ pending' = dont_flip
  /\ wpc' = IF dont_flip THEN "idle" ELSE "flip"
  /\ UNCHANGED <<uartVars, lost, flip, cp, ringVars, wakeVars, modeVars,
                 syncVars, rd, reads, delivered>>

FlipBuffers ==
  /\ wpc = "flip"
  /\ wpc' = "copy"
  /\ cp' = flip
  /\ flip' = <<>>
  /\ UNCHANGED <<uartVars, lost, pending, ringVars, wakeVars, modeVars,
                 syncVars, rd, reads, delivered>>

\* Room at position head of read_buf when it holds cnt characters.
Room(cnt, head) == Min2(N_TTY_BUF_SIZE - cnt, N_TTY_BUF_SIZE - head)

\* Two copies: up to the end of read_buf, then from its start.  What does not
\* fit is dropped.
n_tty_receive_buf ==
  LET i    == Min2(Len(cp), Room(read_cnt, read_head))
      head == (read_head + i) % N_TTY_BUF_SIZE
      j    == Min2(Len(cp) - i, Room(read_cnt + i, head))
  IN
  /\ wpc = "copy"
  /\ wpc' = "wake"
  /\ read_buf' = CopyIn(CopyIn(read_buf, read_head, SubSeq(cp, 1, i)),
                        head, SubSeq(cp, i + 1, i + j))
  /\ read_head' = (head + j) % N_TTY_BUF_SIZE
  /\ read_cnt' = read_cnt + i + j
  /\ lost' = lost \union {cp[k] : k \in i + j + 1 .. Len(cp)}
  /\ cp' = <<>>
  /\ UNCHANGED <<uartVars, flipVars, read_tail, wakeVars, modeVars,
                 syncVars, rd, reads, delivered>>

\* wake_up_interruptible(): every thread on the queue that sleeps runs again.
Wake(queue) ==
  rd' = [r \in DOMAIN rd |-> IF r \in queue THEN [rd[r] EXCEPT !.state = "running"]
                                            ELSE rd[r]]

WakeReaders ==
  /\ wpc = "wake"
  /\ wpc' = "idle"
  /\ IF read_cnt >= minimum_to_wake THEN Wake(read_wait) ELSE UNCHANGED rd
  /\ UNCHANGED <<uartVars, lost, flipVars, cp, ringVars, wakeVars, modeVars,
                 syncVars, reads, delivered>>
-----------------------------------------------------------------------------
(***************************************************************************)
(* read_chan(), process context.                                           *)
(***************************************************************************)
LowersAlways(min) == TRUE

\* "!waitqueue_active(&tty->read_wait) || (tty->minimum_to_wake > minimum)"
Lowers(min) == read_wait = {} \/ minimum_to_wake > min

\* Entry: minimum_to_wake becomes 1 if VTIME is set or VMIN is 0; else the
\* thread tests whether it may store its VMIN, and stores it in a step of its
\* own.
read_chan(r) ==
  /\ rd[r].pc = "idle"
  /\ reads < MaxRead
  /\ reads' = reads + 1
  /\ minimum_to_wake' = IF min_char = 0 \/ time_char THEN 1 ELSE minimum_to_wake
  /\ \E nr \in Nr, nb \in NonBlock :
       rd' = [rd EXCEPT ![r] =
               [Idle EXCEPT !.pc = IF min_char # 0 /\ ~time_char /\ Lowers(min_char)
                                     THEN "enter" ELSE "down",
                  !.nr = nr, !.nonblock = nb,
                  !.minimum = IF min_char = 0 THEN 1 ELSE min_char,
                  !.time = min_char # 0 /\ time_char,
                  !.timeout = IF min_char # 0 THEN "max"
                              ELSE IF time_char THEN "finite" ELSE "zero"]]
  /\ UNCHANGED <<uartVars, lost, flipVars, workVars, ringVars, late, modeVars, syncVars,
                 delivered>>

EntryStore(r) ==
  /\ rd[r].pc = "enter"
  /\ minimum_to_wake' = rd[r].minimum
  /\ late' = (late \/ ~Lowers(rd[r].minimum))
  /\ rd' = [rd EXCEPT ![r].pc = "down"]
  /\ UNCHANGED <<uartVars, lost, flipVars, workVars, ringVars, modeVars, syncVars,
                 reads, delivered>>

\* down_trylock() / down_interruptible(); then join the wait queue and keep
\* the work from flipping.
AtomicRead(r) ==
  /\ rd[r].pc = "down"
  /\ \/ /\ atomic_read
        /\ atomic_read' = FALSE
        /\ read_wait' = read_wait \union {r}
        /\ dont_flip' = TRUE
        /\ rd' = [rd EXCEPT ![r].pc = "arm"]
     \/ /\ ~atomic_read
        /\ rd[r].nonblock \/ rd[r].signal
        /\ rd' = [rd EXCEPT ![r] = Idle]
        /\ UNCHANGED syncVars
  /\ UNCHANGED <<uartVars, lost, flipVars, workVars, ringVars, wakeVars,
                 modeVars, reads, delivered>>

\* The top of the loop: go to TASK_INTERRUPTIBLE before looking for input, and
\* lower the wake-up level to what this call still needs.  (Test and store are
\* one step: whatever is stored in between, the level is then what it needs.)
Arm(r) ==
  LET need == rd[r].minimum - rd[r].got IN
  /\ rd[r].pc = "arm"
  /\ IF rd[r].nr = 0
       THEN /\ rd' = [rd EXCEPT ![r].pc = "up"]
            /\ UNCHANGED wakeVars
       ELSE /\ rd' = [rd EXCEPT ![r].pc = "test", ![r].state = "interruptible"]
            /\ minimum_to_wake' = IF need >= 1 /\ need < minimum_to_wake
                                    THEN need ELSE minimum_to_wake
            /\ late' = FALSE
  /\ UNCHANGED <<uartVars, lost, flipVars, workVars, ringVars, modeVars, syncVars,
                 reads, delivered>>

TestAndKeepFlag(r) ==
  /\ rd[r].pc = "test"
  /\ rd' = [rd EXCEPT ![r].pc =
              IF read_cnt >= 1 THEN "n1"
              ELSE IF rd[r].timeout = "zero" \/ rd[r].nonblock \/ rd[r].signal THEN "up"
              ELSE "sleep"]
  /\ UNCHANGED <<uartVars, lost, flipVars, workVars, ringVars, wakeVars,
                 modeVars, syncVars, reads, delivered>>

\* Input goes to the copy; without input the call gives up or lets the work
\* flip and sleeps.
TestInput(r) ==
  /\ rd[r].pc = "test"
  /\ \/ /\ read_cnt >= 1
        /\ rd' = [rd EXCEPT ![r].pc = "n1", ![r].state = "running"]
        /\ UNCHANGED dont_flip
     \/ /\ read_cnt < 1
        /\ rd[r].timeout = "zero" \/ rd[r].nonblock \/ rd[r].signal
        /\ rd' = [rd EXCEPT ![r].pc = "up"]
        /\ UNCHANGED dont_flip
     \/ /\ read_cnt < 1
        /\ rd[r].timeout # "zero" /\ ~rd[r].nonblock /\ ~rd[r].signal
        /\ rd' = [rd EXCEPT ![r].pc = "sleep"]
        /\ dont_flip' = FALSE
  /\ UNCHANGED <<uartVars, lost, flipVars, workVars, ringVars, wakeVars,
                 modeVars, atomic_read, read_wait, reads, delivered>>

\* schedule_timeout() returns when the task was woken, got a signal, or the
\* time is up; it returns the ticks that are left.
Resume(r) ==
  /\ rd[r].pc = "sleep"
  /\ \/ /\ rd[r].state = "running" \/ rd[r].signal
        /\ \E left \in {rd[r].timeout} \union
                       (IF rd[r].timeout = "finite" THEN {"zero"} ELSE {}) :
             rd' = [rd EXCEPT ![r].pc = "arm", ![r].state = "running", ![r].timeout = left]
     \/ /\ rd[r].timeout = "finite"
        /\ rd' = [rd EXCEPT ![r].pc = "arm", ![r].state = "running", ![r].timeout = "zero"]
  /\ dont_flip' = TRUE
  /\ UNCHANGED <<uartVars, lost, flipVars, workVars, ringVars, wakeVars,
                 modeVars, atomic_read, read_wait, reads, delivered>>

\* copy_from_read_buf(), first critical section: how much is contiguous.
ContiguousPastEnd(r) == Min2(rd[r].nr, read_cnt)

Contiguous(r) ==
  Min2(rd[r].nr, Min2(read_cnt, N_TTY_BUF_SIZE - read_tail))

CopyCount(r, from, to) ==
  /\ rd[r].pc = from
  /\ rd' = [rd EXCEPT ![r].pc = to, ![r].n = Contiguous(r)]
  /\ UNCHANGED <<uartVars, lost, flipVars, workVars, ringVars, wakeVars,
                 modeVars, syncVars, reads, delivered>>

\* copy_from_read_buf(), copy_to_user() and the second critical section.  A
\* failing copy_to_user() copies m < n bytes.
CopyOut(r, from, to) ==
  /\ rd[r].pc = from
  /\ \E m \in (IF Faults THEN 0 .. rd[r].n ELSE {rd[r].n}) :
       /\ rd' = [rd EXCEPT ![r].pc = to, ![r].got = @ + m, ![r].nr = @ - m,
                           ![r].fault = @ \/ m < rd[r].n, ![r].n = 0]
       /\ delivered' = delivered \o MemRead(read_tail, m)
       /\ read_tail' = (read_tail + m) % N_TTY_BUF_SIZE
       /\ read_cnt' = read_cnt - m
  /\ UNCHANGED <<uartVars, lost, flipVars, workVars, read_buf, read_head,
                 wakeVars, modeVars, syncVars, reads>>

copy_from_read_buf(r) ==
  \/ CopyCount(r, "n1", "copy1")
  \/ CopyOut(r, "copy1", "n2")
  \/ CopyCount(r, "n2", "copy2")
  \/ CopyOut(r, "copy2", "check")

EnoughAny(r) == rd[r].got >= 1

\* "b - buf >= minimum"
Enough(r) == rd[r].got >= rd[r].minimum

\* Enough, or an error: leave the loop.  Else, with VTIME, restart the timer.
CheckMinimum(r) ==
  /\ rd[r].pc = "check"
  /\ rd' = [rd EXCEPT
       ![r].pc = IF rd[r].fault \/ Enough(r) THEN "up" ELSE "arm",
       ![r].timeout = IF rd[r].time THEN "finite" ELSE @]
  /\ UNCHANGED <<uartVars, lost, flipVars, workVars, ringVars, wakeVars,
                 modeVars, syncVars, reads, delivered>>

LeaveLoop(r) ==
  /\ rd[r].pc = "up"
  /\ dont_flip' = FALSE
  /\ atomic_read' = TRUE
  /\ rd' = [rd EXCEPT ![r].pc = "leave"]
  /\ UNCHANGED <<uartVars, lost, flipVars, workVars, ringVars, wakeVars,
                 modeVars, read_wait, reads, delivered>>

LeaveQueue(r) ==
  /\ rd[r].pc = "leave"
  /\ read_wait' = read_wait \ {r}
  /\ rd' = [rd EXCEPT ![r].pc = "left"]
  /\ UNCHANGED <<uartVars, lost, flipVars, workVars, ringVars, wakeVars, modeVars,
                 dont_flip, atomic_read, reads, delivered>>

\* The last thread of the queue leaves its own VMIN as the level: it tests
\* whether it is the last, and stores it in a step of its own.
Return(r) ==
  /\ rd[r].pc = "left"
  /\ rd' = [rd EXCEPT ![r] = IF read_wait = {} THEN [@ EXCEPT !.pc = "store"] ELSE Idle]
  /\ UNCHANGED <<uartVars, lost, flipVars, workVars, ringVars, wakeVars, modeVars,
                 syncVars, reads, delivered>>

StoreMinimum(r) ==
  /\ rd[r].pc = "store"
  /\ minimum_to_wake' = rd[r].minimum
  /\ late' = (late \/ read_wait # {})
  /\ rd' = [rd EXCEPT ![r] = Idle]
  /\ UNCHANGED <<uartVars, lost, flipVars, workVars, ringVars, modeVars, syncVars,
                 reads, delivered>>
-----------------------------------------------------------------------------
(***************************************************************************)
(* What else may touch the tty while threads read.                         *)
(***************************************************************************)
\* rctty_ioctl(CMD_SET_MIN)
rctty_ioctl ==
  /\ Ioctls
  /\ \E m \in Modes : min_char' = m[1] /\ time_char' = m[2]
  /\ UNCHANGED <<uartVars, lost, flipVars, workVars, ringVars, wakeVars,
                 syncVars, rd, reads, delivered>>

\* rctty_poll(): without enough input it resets the wake-up level, whoever
\* waits.  The poller itself is woken like a reader; it is not modelled.
rctty_poll ==
  LET amt == IF time_char \/ min_char = 0 THEN 1 ELSE min_char IN
  /\ Polls
  /\ read_cnt < amt
  /\ minimum_to_wake' = amt
  /\ UNCHANGED <<uartVars, lost, flipVars, workVars, ringVars, late, modeVars, syncVars,
                 rd, reads, delivered>>

\* A signal for a thread inside read_chan() (external).
Signal(r) ==
  /\ Faults
  /\ rd[r].pc # "idle"
  /\ ~rd[r].signal
  /\ rd' = [rd EXCEPT ![r].signal = TRUE]
  /\ UNCHANGED <<uartVars, lost, flipVars, workVars, ringVars, wakeVars,
                 modeVars, syncVars, reads, delivered>>
-----------------------------------------------------------------------------
Worker == flush_to_ldisc \/ FlipBuffers \/ n_tty_receive_buf \/ WakeReaders

\* A thread inside read_chan() goes on.
ReadStep(r) ==
  \/ EntryStore(r) \/ AtomicRead(r) \/ Arm(r) \/ TestInput(r) \/ Resume(r)
  \/ copy_from_read_buf(r) \/ CheckMinimum(r) \/ LeaveLoop(r) \/ LeaveQueue(r)
  \/ Return(r) \/ StoreMinimum(r)

Next ==
  \/ LineBringsByte \/ xr_rx_chars_duart \/ Worker \/ rctty_ioctl \/ rctty_poll
  \/ \E r \in Readers : read_chan(r) \/ ReadStep(r) \/ Signal(r)

Spec == Init /\ [][Next]_vars

\* The flip buffer is full and the UART has more: xr_rx_chars_duart() returns
\* without reading it, so that its level interrupt stays asserted and the
\* handler runs again and again.
Storm == Len(flip) = TTY_FLIPBUF_SIZE /\ rxFifo # <<>>

\* Interrupts are served, and as long as they leave it time the scheduler runs
\* the event thread and every thread that is not asleep.  Nobody has to call
\* read().
FairSpec ==
  /\ Spec
  /\ WF_vars(xr_rx_chars_duart)
  /\ WF_vars(~Storm /\ Worker)
  /\ \A r \in Readers : WF_vars(~Storm /\ ReadStep(r))
-----------------------------------------------------------------------------
ReaderType ==
  [pc : ReaderPC, nr : Nat, got : Nat, minimum : Nat \ {0}, time : BOOLEAN,
   timeout : {"zero", "finite", "max"}, nonblock : BOOLEAN, n : Nat,
   fault : BOOLEAN, signal : BOOLEAN, state : {"running", "interruptible"}]

\* Type invariant: read_buf's indices stay inside it, its count never exceeds
\* it, and the flip buffer never exceeds one half.
TypeOK ==
  /\ arrived \in 0 .. MaxByte
  /\ rxFifo \in Seq(Bytes) /\ Len(rxFifo) <= FifoSize
  /\ lost \subseteq Bytes
  /\ flip \in Seq(Bytes) /\ Len(flip) <= TTY_FLIPBUF_SIZE
  /\ pending \in BOOLEAN
  /\ wpc \in {"idle", "flip", "copy", "wake"}
  /\ cp \in Seq(Bytes) /\ Len(cp) <= TTY_FLIPBUF_SIZE
  /\ read_buf \in [0 .. N_TTY_BUF_SIZE - 1 -> 0 .. MaxByte]
  /\ read_head \in 0 .. N_TTY_BUF_SIZE - 1
  /\ read_tail \in 0 .. N_TTY_BUF_SIZE - 1
  /\ read_cnt \in 0 .. N_TTY_BUF_SIZE
  /\ minimum_to_wake \in Nat \ {0}
  /\ late \in BOOLEAN
  /\ min_char \in Nat
  /\ time_char \in BOOLEAN
  /\ dont_flip \in BOOLEAN
  /\ atomic_read \in BOOLEAN
  /\ read_wait \subseteq Readers
  /\ rd \in [Readers -> ReaderType]
  /\ reads \in 0 .. MaxRead
  /\ delivered \in Seq(0 .. MaxByte)

\* The characters in read_buf, oldest first.
RingContent ==
  [i \in 1 .. read_cnt |-> read_buf[(read_tail + i - 1) % N_TTY_BUF_SIZE]]

\* Every character ever received is in exactly one place, and reading the
\* places in the order user space, read_buf, the half being flushed, the half
\* being filled, the UART gives them in the order the line brought them; only
\* characters met by a full FIFO or a full read_buf are missing.  (The copies
\* of copy_from_read_buf() and n_tty_receive_buf() around the end of read_buf,
\* interleaved with the interrupt handler.)
StreamKept ==
  LET s == delivered \o RingContent \o cp \o flip \o rxFifo IN
  /\ \A i \in 1 .. Len(s) - 1 : s[i] < s[i + 1]
  /\ {s[i] : i \in 1 .. Len(s)} = (1 .. arrived) \ lost

\* Characters in the flip buffer are never forgotten: the work that moves them
\* on is queued, or has passed its test of TTY_DONT_FLIP (flush_to_ldisc()
\* queues itself again when it finds the flag set).
WorkScheduled == flip # <<>> => pending \/ wpc = "flip"

\* A thread asleep in read_chan() needs more than read_buf holds, unless the
\* work is about to wake it: nobody sleeps on input that satisfies it, although
\* all readers share the one minimum_to_wake.  The exception is a thread that
\* was descheduled between its test and its store of minimum_to_wake, at entry
\* or on its way out, and stores its VMIN over the level of a thread that went
\* to sleep since (late): that one does oversleep.
NoLostWakeup ==
  ~late =>
    \A r \in DOMAIN rd :
      (rd[r].pc = "sleep" /\ rd[r].state = "interruptible" /\ wpc # "wake")
        => read_cnt < Need(r)

\* What read() returns: without a signal, a fault or O_NONBLOCK, a call with
\* VMIN > 0 that asked for at least VMIN bytes returns VMIN of them, or at
\* least one when VTIME is set.
ReadReturns ==
  [][\A r \in DOMAIN rd :
       (/\ rd[r].pc \in {"left", "store"} /\ rd'[r].pc = "idle"
        /\ ~rd[r].signal /\ ~rd[r].fault /\ ~rd[r].nonblock
        /\ rd[r].timeout = "max" \/ rd[r].time
        /\ rd[r].got + rd[r].nr >= rd[r].minimum)
         => rd[r].got >= Need0(r)]_vars

\* Received characters reach read_buf: a reader cannot hold TTY_DONT_FLIP for
\* ever (it gives the flag up before it sleeps).  The exception is a full flip
\* buffer while the UART has more: the interrupt that is then never quiet may
\* keep the event thread from running.
FlipDrains == flip # <<>> ~> (flip = <<>> \/ Storm)
=============================================================================
