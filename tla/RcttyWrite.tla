---------------------------- MODULE RcttyWrite ----------------------------
(***************************************************************************)
(* The transmit half of the rctty serial driver above the hardware         *)
(* (rctty_io.c, rcNtty.c, rcserial_core.c): threads in write() hold        *)
(* atomic_write, copy their buffer chunk by chunk into write_buf, and      *)
(* write_chan() moves each chunk into the circular xmit buffer, sleeping   *)
(* while it is full.  The port below (DuartTx, UccTx) empties the buffer   *)
(* from its interrupt handler and schedules the tasklet that wakes the     *)
(* writer.                                                                 *)
(*                                                                         *)
(* This module says nothing of the port's variables: DuartTx and UccTx     *)
(* conjoin to uart_write() what their xr_start_tx() does.                  *)
(*                                                                         *)
(* A character is <<c, i>>, the i-th of the buffer of the c-th write().    *)
(***************************************************************************)
EXTENDS Integers, Sequences, FiniteSets

CONSTANTS
  Writers,       \* threads calling write() on the open file
  PAGE_SIZE,     \* size of the circular buffer; it holds one less (4096)
  WAKEUP_CHARS,  \* wake the writer below this many characters (256)
  MaxChunk,      \* a chunk is never longer (2048)
  MinBuf,        \* write_buf is never shorter (1024)
  Counts,        \* byte counts a write() may ask for
  NonBlock,      \* may a write() be O_NONBLOCK?
  Faults,        \* may signals arrive, kmalloc() and copy_from_user() fail?
  MaxWrite       \* bound: write() calls

ASSUME WriteAssumption ==
  /\ PAGE_SIZE \in Nat /\ PAGE_SIZE > 1
  /\ WAKEUP_CHARS \in Nat \ {0}
  /\ MinBuf \in Nat \ {0}
  /\ MaxChunk \in Nat /\ MinBuf <= MaxChunk
  /\ Counts \subseteq Nat
  /\ NonBlock \subseteq BOOLEAN
  /\ Faults \in BOOLEAN
  /\ MaxWrite \in Nat

VARIABLES
  head, tail, buf,   \* struct circ_buf xmit
  tlet,              \* is the tasklet that wakes the writer scheduled?
  write_wait,        \* threads on the write wait queue
  atomic_write,      \* the semaphore: TRUE when free
  write_cnt,         \* size of write_buf
  wr,                \* local state of each rctty_write() call
  returned           \* what each finished write() reported as written

ringVars  == <<head, tail, buf>>
writeVars == <<write_wait, atomic_write, write_cnt, wr, returned>>
-----------------------------------------------------------------------------
Less(a, b) == IF a < b THEN a ELSE b

Calls == 1 .. MaxWrite
NoByte == <<0, 0>>

\* The local variables of rctty_write() and write_chan(): the number of the
\* call, count, chunk, written, and nr and off = b - buf within the chunk.
IdleW == [pc |-> "idle", call |-> 0, count |-> 0, chunk |-> 0, written |-> 0,
          nr |-> 0, off |-> 0, nonblock |-> FALSE, signal |-> FALSE,
          state |-> "running"]

WriterPC == {"idle", "down", "alloc", "chunk", "write", "sleep", "done", "up"}

\* CIRC_CNT() and CIRC_SPACE() of a ring with head h and tail t.
CircCnt(h, t)   == (h - t) % PAGE_SIZE
CircSpace(h, t) == (t - h - 1) % PAGE_SIZE

\* A position of the ring k characters on: "& (PAGE_SIZE - 1)".
Advance(p, k) == (p + k) % PAGE_SIZE

\* The characters of the ring from tail t to head h, oldest first.
Pending(b, h, t) == [i \in 1 .. CircCnt(h, t) |-> b[(t + i - 1) % PAGE_SIZE]]

InitWrite ==
  /\ head = 0
  /\ tail = 0
  /\ buf = [i \in 0 .. PAGE_SIZE - 1 |-> NoByte]
  /\ tlet = FALSE
  /\ write_wait = {}
  /\ atomic_write = TRUE
  /\ write_cnt = 0
  /\ wr = [w \in Writers |-> IdleW]
  /\ returned = <<>>
-----------------------------------------------------------------------------
(***************************************************************************)
(* rctty_write()                                                           *)
(***************************************************************************)
\* The number of the next call: the calls in progress and the ones before.
Started == Len(returned) + Cardinality({w \in Writers : wr[w].pc # "idle"})

rctty_write(w) ==
  /\ wr[w].pc = "idle"
  /\ Started < MaxWrite
  /\ \E n \in Counts, nb \in NonBlock :
       wr' = [wr EXCEPT ![w] = [IdleW EXCEPT !.pc = "down", !.count = n, !.nonblock = nb]]
  /\ UNCHANGED <<ringVars, tlet, write_wait, atomic_write, write_cnt, returned>>

\* down_interruptible(); the call is numbered when it is its turn.
AtomicWrite(w) ==
  /\ wr[w].pc = "down"
  /\ \/ /\ atomic_write
        /\ atomic_write' = FALSE
        /\ wr' = [wr EXCEPT ![w].pc = "alloc", ![w].call = Len(returned) + 1]
     \/ /\ ~atomic_write
        /\ wr[w].signal
        /\ wr' = [wr EXCEPT ![w] = IdleW]
        /\ UNCHANGED atomic_write
  /\ UNCHANGED <<ringVars, tlet, write_wait, write_cnt, returned>>

\* The length of the chunks of a call for count bytes, and whether write_buf
\* must be replaced by one of that length.
ChunkLen(count) ==
  LET c == Less(count, MaxChunk)
  IN  IF write_cnt < c /\ c < MinBuf THEN MinBuf ELSE c
Grows(count) == write_cnt < Less(count, MaxChunk)

AllocBuf(w) ==
  LET c == ChunkLen(wr[w].count) IN
  /\ wr[w].pc = "alloc"
  /\ \/ /\ wr' = [wr EXCEPT ![w].pc = "chunk", ![w].chunk = c]
        /\ write_cnt' = IF Grows(wr[w].count) THEN c ELSE write_cnt
     \/ /\ Faults /\ Grows(wr[w].count)      \* kmalloc() fails: -ENOMEM
        /\ wr' = [wr EXCEPT ![w].pc = "up"]
        /\ UNCHANGED write_cnt
  /\ UNCHANGED <<ringVars, tlet, write_wait, atomic_write, returned>>

\* copy_from_user() of the next chunk, and the entry of write_chan().
NextChunk(w) ==
  /\ wr[w].pc = "chunk"
  /\ \/ /\ wr' = [wr EXCEPT ![w].pc = "write", ![w].off = 0,
                            ![w].nr = Less(wr[w].count, wr[w].chunk)]
        /\ write_wait' = write_wait \union {w}
     \/ /\ Faults
        /\ wr' = [wr EXCEPT ![w].pc = "up"]
        /\ UNCHANGED write_wait
  /\ UNCHANGED <<ringVars, tlet, atomic_write, write_cnt, returned>>

\* The loop of write_chan() ends on a signal.
Interrupted(w) ==
  /\ wr[w].pc = "write"
  /\ wr[w].signal
  /\ wr' = [wr EXCEPT ![w].pc = "done", ![w].state = "running"]
  /\ UNCHANGED <<ringVars, tlet, write_wait, atomic_write, write_cnt, returned>>

\* memcpy() of the next k characters of the call at position h of the ring.
StoreAt(b, h, w, k) ==
  LET at(p) == (p - h) % PAGE_SIZE IN
  [p \in 0 .. PAGE_SIZE - 1 |->
     IF at(p) < k THEN <<wr[w].call, wr[w].written + wr[w].off + at(p) + 1>> ELSE b[p]]

FitsWholePage(w) == Less(wr[w].nr, PAGE_SIZE - CircCnt(head, tail))

\* uart_write() stores what fits: to the end of the buffer, then from its start.
Fits(w) == Less(wr[w].nr, CircSpace(head, tail))

\* write_chan(): set the task's state, let uart_write() store what fits, and
\* stop, give up or sleep.  The port's xr_start_tx(), called by uart_write()
\* with interrupts off, decides tail' and tlet'.
write_chan(w) ==
  LET k == Fits(w) IN
  /\ wr[w].pc = "write"
  /\ ~wr[w].signal
  /\ buf' = StoreAt(buf, head, w, k)
  /\ head' = Advance(head, k)
  /\ wr' = [wr EXCEPT ![w].nr = @ - k, ![w].off = @ + k, ![w].state = "interruptible",
              ![w].pc = IF k = wr[w].nr \/ wr[w].nonblock THEN "done" ELSE "sleep"]
  /\ UNCHANGED <<write_wait, atomic_write, write_cnt, returned>>

\* schedule() returns when the task was woken or got a signal.
ResumeWrite(w) ==
  /\ wr[w].pc = "sleep"
  /\ wr[w].state = "running" \/ wr[w].signal
  /\ wr' = [wr EXCEPT ![w].pc = "write", ![w].state = "running"]
  /\ UNCHANGED <<ringVars, tlet, write_wait, atomic_write, write_cnt, returned>>

\* The end of write_chan(), and what rctty_write() makes of its result.
ChunkDone(w) ==
  LET left == wr[w].count - wr[w].off IN
  /\ wr[w].pc = "done"
  /\ write_wait' = write_wait \ {w}
  /\ wr' = [wr EXCEPT ![w].count = left, ![w].written = @ + wr[w].off,
              ![w].off = 0, ![w].nr = 0, ![w].state = "running",
              ![w].pc = IF wr[w].off = 0 \/ left = 0 \/ wr[w].signal THEN "up"
                        ELSE "chunk"]
  /\ UNCHANGED <<ringVars, tlet, atomic_write, write_cnt, returned>>

\* up() and return.
ReturnWritten(w) ==
  /\ wr[w].pc = "up"
  /\ atomic_write' = TRUE
  /\ returned' = Append(returned, wr[w].written)
  /\ wr' = [wr EXCEPT ![w] = IdleW]
  /\ UNCHANGED <<ringVars, tlet, write_wait, write_cnt>>

\* A signal for a thread inside write() (external).
SignalWriter(w) ==
  /\ Faults
  /\ wr[w].pc # "idle"
  /\ ~wr[w].signal
  /\ wr' = [wr EXCEPT ![w].signal = TRUE]
  /\ UNCHANGED <<ringVars, tlet, write_wait, atomic_write, write_cnt, returned>>

\* uart_tasklet_action(): wake every writer that sleeps.
uart_tasklet_action ==
  /\ tlet
  /\ tlet' = FALSE
  /\ wr' = [w \in Writers |-> IF w \in write_wait
                              THEN [wr[w] EXCEPT !.state = "running"] ELSE wr[w]]
  /\ UNCHANGED <<ringVars, write_wait, atomic_write, write_cnt, returned>>

\* A thread inside write() goes on, without touching the port.
WriteStep(w) ==
  \/ AtomicWrite(w) \/ AllocBuf(w) \/ NextChunk(w) \/ Interrupted(w)
  \/ ResumeWrite(w) \/ ChunkDone(w) \/ ReturnWritten(w)
-----------------------------------------------------------------------------
WriterType ==
  [pc : WriterPC, call : 0 .. MaxWrite, count : Nat, chunk : Nat, written : Nat,
   nr : Nat, off : Nat, nonblock : BOOLEAN, signal : BOOLEAN,
   state : {"running", "interruptible"}]

TypeOKWrite ==
  /\ head \in 0 .. PAGE_SIZE - 1
  /\ tail \in 0 .. PAGE_SIZE - 1
  /\ buf \in [0 .. PAGE_SIZE - 1 -> (0 .. MaxWrite) \X Nat]
  /\ tlet \in BOOLEAN
  /\ write_wait \subseteq Writers
  /\ atomic_write \in BOOLEAN
  /\ write_cnt \in Nat
  /\ wr \in [Writers -> WriterType]
  /\ returned \in Seq(Nat)

\* A chunk never exceeds write_buf, however the sizes of successive calls mix
\* (the buffer is kept between calls and only replaced by a longer one).
ChunkFits == \A w \in Writers : wr[w].nr + wr[w].off <= write_cnt

\* s is what write() was given, call after call: the bytes of a call are
\* consecutive, start at its first byte and are never mixed with another's.
CallByCall(s) ==
  \A i \in 1 .. Len(s) :
    IF i > 1 /\ s[i - 1][1] = s[i][1]
      THEN s[i][2] = s[i - 1][2] + 1
      ELSE s[i][2] = 1 /\ (i > 1 => s[i - 1][1] < s[i][1])

BytesOf(s, c) == Cardinality({i \in 1 .. Len(s) : s[i][1] = c})

\* write() reports exactly the bytes of its buffer that were accepted.
Reported(s) == \A c \in 1 .. Len(returned) : returned[c] = BytesOf(s, c)
=============================================================================
