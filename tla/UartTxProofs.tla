---------------------------- MODULE UartTxProofs ----------------------------
(***************************************************************************)
(* write() on both kinds of port, proved for buffers, rings, descriptors   *)
(* and FIFOs of any size and any number of threads: nobody waits for an    *)
(* event that will not come, neither port overruns its hardware, RTS is up *)
(* while a DUART sends, and the bytes of the calls leave in order, call    *)
(* after call, each reporting what was accepted.  TxInv is the invariant   *)
(* of the first three and OrderInv, which builds on it, that of the last.  *)
(***************************************************************************)
EXTENDS MC_UartTx, FiniteSetTheorems, SequenceTheorems, WellFoundedInduction, TLAPS

-----------------------------------------------------------------------------
(***************************************************************************)
(* The invariant.                                                          *)
(***************************************************************************)
Char == Nat \X Nat
Pos  == 0 .. PAGE_SIZE - 1

\* A thread between add_wait_queue() and remove_wait_queue() of write_chan().
InChunk == {"write", "sleep", "done"}

WriterRec ==
  [pc : WriterPC, call : Nat, count : Nat, chunk : Nat, written : Nat,
   nr : Nat, off : Nat, nonblock : BOOLEAN, signal : BOOLEAN,
   state : {"running", "interruptible"}]

\* What the locals of a call r say of each other and of a write_buf of n bytes.
WriterFits(r, n) ==
  /\ r.nr + r.off <= r.count
  /\ r.nr + r.off <= n
  /\ r.pc \notin InChunk => r.nr = 0 /\ r.off = 0
  /\ r.pc \in InChunk \union {"chunk"} => r.chunk <= n

TxRing == head \in Pos /\ tail \in Pos /\ buf \in [Pos -> Char]
TxCalls ==
  /\ wr \in [Writers -> WriterRec]
  /\ write_cnt \in Nat
  /\ returned \in Seq(Nat)
  /\ \A w \in Writers : WriterFits(wr[w], write_cnt)
TxWaits == \A w \in Writers : wr[w].pc \in InChunk => w \in write_wait
TxIdle  == cpc # "open" => \A w \in Writers : wr[w].pc = "idle"
TxWrite == TxRing /\ TxCalls /\ TxWaits /\ TxIdle

\* A thread that only the tasklet can wake.
Asleep(w) == wr[w].pc = "sleep" /\ wr[w].state = "interruptible"

\* u descriptors wait to be sent, from the engine's position on, and the
\* driver's position is behind them.
Descriptor == [ready : BOOLEAN, data : Seq(Char)]
InUse(u) ==
  /\ tx_cur = (qe_cur + u) % TX_NUM_FIFO
  /\ \A i \in BDs : bd[i].ready <=> (i - qe_cur) % TX_NUM_FIFO < u

UccTypes == bd \in [BDs -> Descriptor] /\ tx_cur \in BDs /\ qe_cur \in BDs
UccFlags == uccm \in BOOLEAN /\ ucce \in BOOLEAN /\ tlet \in BOOLEAN
UccRing  == \E u \in 0 .. TX_NUM_FIFO : InUse(u)
\* The interrupt is enabled exactly while the buffer holds characters.
UccMask  == cpc # "closed" => (uccm <=> head # tail)
UccEvent == uccm => (ucce \/ \E i \in BDs : bd[i].ready)
UccInv   == UccTypes /\ UccFlags /\ UccRing /\ UccMask /\ UccEvent /\ WriterServed

DuartTypes == txFifo \in Seq(Char) /\ ipc \in {"none", "mcr"}
DuartFlags == thri \in BOOLEAN /\ rts \in BOOLEAN /\ tlet \in BOOLEAN
DuartKept  == cpc # "closed" => lostTx = {}
DuartIpc   == ~ioctls => ipc = "none"
DuartRts   == (cpc = "open" /\ ~ioctls) => (thri \/ txFifo # <<>> => rts)
DuartInv   ==
  /\ DuartTypes /\ DuartFlags /\ DuartKept /\ DuartIpc /\ DuartRts
  /\ Duart!WriterServed

TxInv ==
  /\ TxWrite
  /\ ioctls \in BOOLEAN
  /\ port \in {"ucc", "duart"}
  /\ port = "ucc" => UccInv
  /\ port = "duart" => DuartInv
-----------------------------------------------------------------------------
(***************************************************************************)
(* Positions on a ring.                                                    *)
(***************************************************************************)
LEMMA TxSizes ==
  /\ PAGE_SIZE \in Nat \ {0} /\ PAGE_SIZE > 1
  /\ WAKEUP_CHARS \in Nat \ {0}
  /\ MinBuf \in Nat \ {0} /\ MaxChunk \in Nat /\ MinBuf <= MaxChunk
  /\ Counts \subseteq Nat /\ NonBlock \subseteq BOOLEAN /\ Faults \in BOOLEAN
  /\ TX_NUM_FIFO \in Nat \ {0} /\ TX_BUF_SIZE \in Nat \ {0} /\ CloseTries \in Nat \ {0}
  /\ TxBurst \in Nat /\ TxBurst >= 1 /\ TxTrigger \in Nat /\ TxFifoSize \in Nat
  /\ TxTrigger + TxBurst <= TxFifoSize
  BY WriteAssumption, UccAssumption, DuartAssumption DEF Duart!DuartConstants

\* The distance from one position to another.
LEMMA RingDistance ==
  \A N \in Nat \ {0} : \A a, b \in 0 .. N - 1 :
    (a - b) % N = IF a >= b THEN a - b ELSE a - b + N
<1> SUFFICES ASSUME NEW N \in Nat \ {0}, NEW a \in 0 .. N - 1, NEW b \in 0 .. N - 1
             PROVE  (a - b) % N = IF a >= b THEN a - b ELSE a - b + N
  OBVIOUS
<1>1. PICK d \in Int : d = a - b
  OBVIOUS
<1>2. -N < d /\ d < N
  BY <1>1
<1>3. d >= 0 => d % N = d
  BY <1>2
<1>4. d < 0 => d % N = d + N
  BY <1>2
<1>5. QED
  BY <1>1, <1>3, <1>4

\* The position reached from another.
LEMMA RingForward ==
  \A N \in Nat \ {0} : \A a \in 0 .. N - 1, k \in 0 .. N :
    (a + k) % N = IF a + k < N THEN a + k ELSE a + k - N
<1> SUFFICES ASSUME NEW N \in Nat \ {0}, NEW a \in 0 .. N - 1, NEW k \in 0 .. N
             PROVE  (a + k) % N = IF a + k < N THEN a + k ELSE a + k - N
  OBVIOUS
<1>1. PICK d \in Nat : d = a + k
  OBVIOUS
<1>2. d < 2 * N
  BY <1>1
<1>3. d < N => d % N = d
  OBVIOUS
<1>4. d >= N => d % N = d - N
  BY <1>2
<1>5. QED
  BY <1>1, <1>3, <1>4

\* How full the circular buffer is, and what it has room for.
LEMMA CircCounts ==
  ASSUME NEW h \in Pos, NEW t \in Pos
  PROVE  /\ CircCnt(h, t) \in Pos
         /\ CircCnt(h, t) = IF h >= t THEN h - t ELSE h - t + PAGE_SIZE
         /\ CircSpace(h, t) = PAGE_SIZE - 1 - CircCnt(h, t)
         /\ CircCnt(h, t) = 0 <=> h = t
<1>1. PAGE_SIZE \in Nat \ {0}
  BY TxSizes
<1>2. CircCnt(h, t) = IF h >= t THEN h - t ELSE h - t + PAGE_SIZE
  BY <1>1, RingDistance, Zenon DEF CircCnt, Pos
<1>3. PICK d \in Int : d = t - h - 1
  BY <1>1 DEF Pos
<1>4. d >= -PAGE_SIZE /\ d < PAGE_SIZE
  BY <1>1, <1>3 DEF Pos
<1>5. (d >= 0 => d % PAGE_SIZE = d) /\ (d < 0 => d % PAGE_SIZE = d + PAGE_SIZE)
  BY <1>1, <1>4
<1>6. CircSpace(h, t) = d % PAGE_SIZE
  BY <1>3 DEF CircSpace
<1>7. QED
  BY <1>1, <1>2, <1>3, <1>5, <1>6 DEF Pos

\* Storing and taking k characters.
LEMMA CircStore ==
  ASSUME NEW h \in Pos, NEW t \in Pos, NEW k \in Nat, k <= CircSpace(h, t)
  PROVE  /\ Advance(h, k) \in Pos
         /\ CircCnt(Advance(h, k), t) = CircCnt(h, t) + k
<1>1. PAGE_SIZE \in Nat \ {0}
  BY TxSizes
<1>2. CircCnt(h, t) \in Pos /\ CircSpace(h, t) = PAGE_SIZE - 1 - CircCnt(h, t)
  BY CircCounts
<1>3. k \in 0 .. PAGE_SIZE
  BY <1>1, <1>2 DEF Pos
<1>4. Advance(h, k) = IF h + k < PAGE_SIZE THEN h + k ELSE h + k - PAGE_SIZE
  BY <1>1, <1>3, RingForward, Zenon DEF Advance, Pos
<1>5. Advance(h, k) \in Pos
  BY <1>1, <1>3, <1>4 DEF Pos
<1>6. PICK g \in Pos : g = Advance(h, k)
  BY <1>5
<1>7. CircCnt(g, t) = IF g >= t THEN g - t ELSE g - t + PAGE_SIZE
  BY CircCounts
<1>8. CircCnt(h, t) = IF h >= t THEN h - t ELSE h - t + PAGE_SIZE
  BY CircCounts
<1>9. QED
  BY <1>1, <1>2, <1>4, <1>5, <1>6, <1>7, <1>8 DEF Pos

LEMMA CircTake ==
  ASSUME NEW h \in Pos, NEW t \in Pos, NEW k \in Nat, k <= CircCnt(h, t)
  PROVE  /\ Advance(t, k) \in Pos
         /\ CircCnt(h, Advance(t, k)) = CircCnt(h, t) - k
<1>1. PAGE_SIZE \in Nat \ {0}
  BY TxSizes
<1>2. CircCnt(h, t) \in Pos
  BY CircCounts
<1>3. k \in 0 .. PAGE_SIZE
  BY <1>1, <1>2 DEF Pos
<1>4. Advance(t, k) = IF t + k < PAGE_SIZE THEN t + k ELSE t + k - PAGE_SIZE
  BY <1>1, <1>3, RingForward, Zenon DEF Advance, Pos
<1>5. Advance(t, k) \in Pos
  BY <1>1, <1>3, <1>4 DEF Pos
<1>6. PICK g \in Pos : g = Advance(t, k)
  BY <1>5
<1>7. CircCnt(h, g) = IF h >= g THEN h - g ELSE h - g + PAGE_SIZE
  BY CircCounts
<1>8. CircCnt(h, t) = IF h >= t THEN h - t ELSE h - t + PAGE_SIZE
  BY CircCounts
<1>9. QED
  BY <1>1, <1>2, <1>4, <1>5, <1>6, <1>7, <1>8 DEF Pos

\* The characters of the circular buffer as a text.
LEMMA PendingText ==
  ASSUME NEW b \in [Pos -> Char], NEW h \in Pos, NEW t \in Pos
  PROVE  Pending(b, h, t) \in Seq(Char) /\ Len(Pending(b, h, t)) = CircCnt(h, t)
<1>1. PICK n \in Nat : n = CircCnt(h, t)
  BY CircCounts DEF Pos
<1>2. Pending(b, h, t) = [i \in 1 .. n |-> b[(t + i - 1) % PAGE_SIZE]]
  BY <1>1 DEF Pending
<1>3. ASSUME NEW i \in 1 .. n PROVE b[(t + i - 1) % PAGE_SIZE] \in Char
  <2>1. PICK d \in Int : d = t + i - 1
    BY DEF Pos
  <2>2. d % PAGE_SIZE \in Pos
    BY TxSizes DEF Pos
  <2>3. QED
    BY <2>1, <2>2
<1>4. QED
  BY <1>1, <1>2, <1>3
-----------------------------------------------------------------------------
(***************************************************************************)
(* The threads.                                                            *)
(***************************************************************************)
\* A thread enters write(), whatever bounds the number of calls.
Enters(w) ==
  /\ wr[w].pc = "idle"
  /\ \E n \in Counts, nb \in NonBlock :
       wr' = [wr EXCEPT ![w] = [IdleW EXCEPT !.pc = "down", !.count = n, !.nonblock = nb]]
  /\ UNCHANGED <<ringVars, tlet, write_wait, atomic_write, write_cnt, returned>>

\* The part of RcttyWrite is the same on both ports.
LEMMA SharedSteps ==
  ASSUME NEW w \in Writers
  PROVE  /\ Duart!rctty_write(w) => Enters(w)
         /\ rctty_write(w) => Enters(w)
         /\ Duart!WriteStep(w) <=> WriteStep(w)
         /\ Duart!SignalWriter(w) <=> SignalWriter(w)
         /\ Duart!write_chan(w) <=> write_chan(w)
<1>1. Duart!rctty_write(w) => Enters(w)
  <2>1. Duart!IdleW = IdleW
    BY DEF IdleW, Duart!IdleW
  <2>2. QED
    BY <2>1 DEF Enters, ringVars, Duart!rctty_write, Duart!ringVars
<1>2. Duart!SignalWriter(w) <=> SignalWriter(w)
  BY Zenon DEF SignalWriter, ringVars, Duart!SignalWriter, Duart!ringVars
<1>3. Duart!write_chan(w) <=> write_chan(w)
  BY Zenon DEF write_chan, Fits, Less, CircSpace, StoreAt, Advance,
     Duart!write_chan, Duart!Fits, Duart!Less, Duart!CircSpace, Duart!StoreAt, Duart!Advance
<1>4. Duart!AtomicWrite(w) <=> AtomicWrite(w)
  BY Zenon DEF AtomicWrite, IdleW, ringVars, Duart!AtomicWrite, Duart!IdleW, Duart!ringVars
<1>5. Duart!AllocBuf(w) <=> AllocBuf(w)
  BY Zenon DEF AllocBuf, ChunkLen, Grows, Less, ringVars,
     Duart!AllocBuf, Duart!ChunkLen, Duart!Grows, Duart!Less, Duart!ringVars
<1>6. Duart!NextChunk(w) <=> NextChunk(w)
  BY Zenon DEF NextChunk, Less, ringVars, Duart!NextChunk, Duart!Less, Duart!ringVars
<1>7. Duart!Interrupted(w) <=> Interrupted(w)
  BY Zenon DEF Interrupted, ringVars, Duart!Interrupted, Duart!ringVars
<1>8. Duart!ResumeWrite(w) <=> ResumeWrite(w)
  BY Zenon DEF ResumeWrite, ringVars, Duart!ResumeWrite, Duart!ringVars
<1>9. Duart!ChunkDone(w) <=> ChunkDone(w)
  BY Zenon DEF ChunkDone, ringVars, Duart!ChunkDone, Duart!ringVars
<1>10. Duart!ReturnWritten(w) <=> ReturnWritten(w)
  BY Zenon DEF ReturnWritten, IdleW, ringVars, Duart!ReturnWritten, Duart!IdleW, Duart!ringVars
<1>11. Duart!WriteStep(w) <=> WriteStep(w)
  BY <1>4, <1>5, <1>6, <1>7, <1>8, <1>9, <1>10, Zenon DEF WriteStep, Duart!WriteStep
<1>12. rctty_write(w) => Enters(w)
  BY DEF rctty_write, Enters
<1>13. QED
  BY <1>1, <1>2, <1>3, <1>11, <1>12

\* What a step of one thread must show.
LEMMA OneMoves ==
  ASSUME TxCalls, TxWaits, NEW w \in Writers, NEW r \in WriterRec,
         wr' = [wr EXCEPT ![w] = r],
         write_cnt' \in Nat, write_cnt' >= write_cnt,
         WriterFits(r, write_cnt'),
         returned' \in Seq(Nat),
         \A v \in write_wait : v # w => v \in write_wait',
         r.pc \in InChunk => w \in write_wait'
  PROVE  TxCalls' /\ TxWaits'
<1>1. wr' \in [Writers -> WriterRec]
  BY DEF TxCalls
<1>2. wr'[w] = r /\ \A v \in Writers : v # w => wr'[v] = wr[v]
  BY DEF TxCalls
<1>3. ASSUME NEW v \in Writers, v # w PROVE WriterFits(wr[v], write_cnt')
  <2>1. WriterFits(wr[v], write_cnt) /\ wr[v] \in WriterRec
    BY DEF TxCalls
  <2>2. PICK q \in WriterRec : q = wr[v]
    BY <2>1
  <2>3. q.nr \in Nat /\ q.off \in Nat /\ q.count \in Nat /\ q.chunk \in Nat
    BY DEF WriterRec
  <2>4. WriterFits(q, write_cnt')
    BY <2>1, <2>2, <2>3 DEF WriterFits, TxCalls
  <2>5. QED
    BY <2>2, <2>4
<1>4. \A v \in Writers : WriterFits(wr'[v], write_cnt')
  BY <1>2, <1>3
<1>5. TxWaits'
  BY <1>2 DEF TxWaits
<1>6. QED
  BY <1>1, <1>4, <1>5 DEF TxCalls

\* A step of a thread that leaves the ring and the port alone puts nobody to
\* sleep.
StaysAwake == \A v \in Writers : Asleep(v)' => Asleep(v)

LEMMA TxMoves ==
  ASSUME TxWrite, cpc = "open", cpc' = cpc, UNCHANGED ringVars,
         NEW w \in Writers, NEW r \in WriterRec,
         wr' = [wr EXCEPT ![w] = r],
         write_cnt' \in Nat, write_cnt' >= write_cnt,
         WriterFits(r, write_cnt'),
         returned' \in Seq(Nat),
         \A v \in write_wait : v # w => v \in write_wait',
         r.pc \in InChunk => w \in write_wait',
         r.pc = "sleep" /\ r.state = "interruptible" => Asleep(w)
  PROVE  TxWrite' /\ StaysAwake
<1>1. TxCalls /\ TxWaits
  BY DEF TxWrite
<1>2. TxCalls' /\ TxWaits'
  BY <1>1, OneMoves
<1>3. TxRing' /\ TxIdle'
  BY DEF TxWrite, TxRing, TxIdle, ringVars
<1>4. wr'[w] = r /\ \A v \in Writers : v # w => wr'[v] = wr[v]
  BY <1>1 DEF TxCalls
<1>5. StaysAwake
  BY <1>4 DEF StaysAwake, Asleep
<1>6. QED
  BY <1>2, <1>3, <1>5 DEF TxWrite

\* The locals of a call as numbers, and the sizes they fit in.
LEMMA TxLocals ==
  ASSUME TxWrite, NEW w \in Writers
  PROVE  /\ wr[w] \in WriterRec /\ WriterFits(wr[w], write_cnt)
         /\ write_cnt \in Nat /\ returned \in Seq(Nat)
         /\ wr[w].pc \in InChunk => w \in write_wait
  BY DEF TxWrite, TxCalls, TxWaits

LEMMA IdleFits ==
  ASSUME NEW n \in Nat
  PROVE  IdleW \in WriterRec /\ WriterFits(IdleW, n)
  BY DEF IdleW, WriterRec, WriterPC, WriterFits, InChunk

LEMMA TxEnters ==
  ASSUME TxWrite, cpc = "open", cpc' = cpc, NEW w \in Writers, Enters(w)
  PROVE  TxWrite' /\ StaysAwake
<1>1. PICK n \in Counts, nb \in NonBlock :
        wr' = [wr EXCEPT ![w] = [IdleW EXCEPT !.pc = "down", !.count = n, !.nonblock = nb]]
  BY DEF Enters
<1>2. n \in Nat /\ nb \in BOOLEAN
  BY TxSizes
<1>3. PICK r : r = [IdleW EXCEPT !.pc = "down", !.count = n, !.nonblock = nb]
  OBVIOUS
<1>4. r = [pc |-> "down", call |-> 0, count |-> n, chunk |-> 0, written |-> 0,
           nr |-> 0, off |-> 0, nonblock |-> nb, signal |-> FALSE, state |-> "running"]
  BY <1>3 DEF IdleW
<1>5. r \in WriterRec
  BY <1>2, <1>4 DEF WriterRec, WriterPC
<1>6. UNCHANGED <<ringVars, write_cnt, returned, write_wait>>
  BY DEF Enters
<1>7. write_cnt' \in Nat /\ write_cnt' >= write_cnt /\ returned' \in Seq(Nat)
  BY <1>6, TxLocals
<1>8. WriterFits(r, write_cnt')
  BY <1>2, <1>4, <1>7 DEF WriterFits, InChunk
<1>9. r.pc \notin InChunk /\ r.pc # "sleep"
  BY <1>4 DEF InChunk
<1>10. QED
  BY <1>1, <1>3, <1>5, <1>6, <1>7, <1>8, <1>9, TxMoves

LEMMA TxDown ==
  ASSUME TxWrite, cpc = "open", cpc' = cpc, NEW w \in Writers, AtomicWrite(w)
  PROVE  TxWrite' /\ StaysAwake
<1>1. UNCHANGED <<ringVars, write_cnt, returned, write_wait>>
  BY DEF AtomicWrite
<1>2. write_cnt' \in Nat /\ write_cnt' >= write_cnt /\ returned' \in Seq(Nat)
  BY <1>1, TxLocals
<1>3. CASE wr' = [wr EXCEPT ![w] = IdleW]
  <2>1. IdleW \in WriterRec /\ WriterFits(IdleW, write_cnt')
    BY <1>2, IdleFits
  <2>2. IdleW.pc \notin InChunk /\ IdleW.pc # "sleep"
    BY DEF IdleW, InChunk
  <2>3. QED
    BY <1>1, <1>2, <1>3, <2>1, <2>2, TxMoves
<1>4. CASE wr' = [wr EXCEPT ![w].pc = "alloc", ![w].call = Len(returned) + 1]
  <2>1. PICK q \in WriterRec : q = wr[w] /\ WriterFits(q, write_cnt)
    BY TxLocals
  <2>2. PICK n \in Nat : n = Len(returned) + 1
    BY TxLocals
  <2>3. PICK r : r = [q EXCEPT !.pc = "alloc", !.call = n]
    OBVIOUS
  <2>4. wr' = [wr EXCEPT ![w] = r]
    BY <1>4, <2>1, <2>2, <2>3 DEF TxWrite, TxCalls
  <2>5. r \in WriterRec
    BY <2>3 DEF WriterRec, WriterPC
  <2>6. /\ r.pc = "alloc" /\ r.nr = q.nr /\ r.off = q.off /\ r.count = q.count
    BY <2>3 DEF WriterRec
  <2>7. q.pc = "down"
    BY <2>1 DEF AtomicWrite
  <2>8. WriterFits(r, write_cnt')
    BY <1>1, <2>1, <2>6, <2>7 DEF WriterFits, InChunk
  <2>9. r.pc \notin InChunk /\ r.pc # "sleep"
    BY <2>6 DEF InChunk
  <2>10. QED
    BY <1>1, <1>2, <2>4, <2>5, <2>8, <2>9, TxMoves
<1>5. QED
  BY <1>3, <1>4 DEF AtomicWrite

\* kmalloc(): write_buf only grows, and holds a chunk.
LEMMA TxAlloc ==
  ASSUME TxWrite, cpc = "open", cpc' = cpc, NEW w \in Writers, AllocBuf(w)
  PROVE  TxWrite' /\ StaysAwake
<1>1. PICK q \in WriterRec : q = wr[w] /\ WriterFits(q, write_cnt)
  BY TxLocals
<1>2. UNCHANGED <<ringVars, returned, write_wait>> /\ q.pc = "alloc"
  BY <1>1 DEF AllocBuf
<1>3. returned' \in Seq(Nat)
  BY <1>2, TxLocals
<1>4. q.nr \in Nat /\ q.off \in Nat /\ q.count \in Nat /\ write_cnt \in Nat
  BY TxLocals DEF WriterRec
<1>5. q.nr = 0 /\ q.off = 0
  BY <1>1, <1>2 DEF WriterFits, InChunk
<1>6. PICK c : c = ChunkLen(q.count)
  OBVIOUS
<1>7. /\ c \in Nat
      /\ Grows(q.count) => c >= write_cnt
      /\ ~Grows(q.count) => c <= write_cnt
  BY <1>4, <1>6, TxSizes DEF ChunkLen, Grows, Less
<1>8. CASE /\ wr' = [wr EXCEPT ![w].pc = "chunk", ![w].chunk = c]
           /\ write_cnt' = IF Grows(q.count) THEN c ELSE write_cnt
  <2>1. PICK r : r = [q EXCEPT !.pc = "chunk", !.chunk = c]
    OBVIOUS
  <2>2. wr' = [wr EXCEPT ![w] = r]
    BY <1>1, <1>8, <2>1 DEF TxWrite, TxCalls
  <2>3. r \in WriterRec
    BY <1>7, <2>1 DEF WriterRec, WriterPC
  <2>4. r.pc = "chunk" /\ r.nr = q.nr /\ r.off = q.off /\ r.count = q.count /\ r.chunk = c
    BY <2>1 DEF WriterRec
  <2>5. write_cnt' \in Nat /\ write_cnt' >= write_cnt /\ c <= write_cnt'
    BY <1>4, <1>7, <1>8
  <2>6. WriterFits(r, write_cnt')
    BY <1>4, <1>5, <2>4, <2>5 DEF WriterFits, InChunk
  <2>7. r.pc \notin InChunk /\ r.pc # "sleep"
    BY <2>4 DEF InChunk
  <2>8. QED
    BY <1>2, <1>3, <2>2, <2>3, <2>5, <2>6, <2>7, TxMoves
<1>9. CASE wr' = [wr EXCEPT ![w].pc = "up"] /\ UNCHANGED write_cnt
  <2>1. PICK r : r = [q EXCEPT !.pc = "up"]
    OBVIOUS
  <2>2. wr' = [wr EXCEPT ![w] = r]
    BY <1>1, <1>9, <2>1 DEF TxWrite, TxCalls
  <2>3. r \in WriterRec
    BY <2>1 DEF WriterRec, WriterPC
  <2>4. r.pc = "up" /\ r.nr = q.nr /\ r.off = q.off /\ r.count = q.count
    BY <2>1 DEF WriterRec
  <2>5. write_cnt' \in Nat /\ write_cnt' >= write_cnt
    BY <1>4, <1>9
  <2>6. WriterFits(r, write_cnt')
    BY <1>4, <1>5, <2>4, <2>5 DEF WriterFits, InChunk
  <2>7. r.pc \notin InChunk /\ r.pc # "sleep"
    BY <2>4 DEF InChunk
  <2>8. QED
    BY <1>2, <1>3, <2>2, <2>3, <2>5, <2>6, <2>7, TxMoves
<1>10. QED
  BY <1>1, <1>6, <1>8, <1>9 DEF AllocBuf

\* copy_from_user() of a chunk, and the entry of write_chan().
LEMMA TxChunk ==
  ASSUME TxWrite, cpc = "open", cpc' = cpc, NEW w \in Writers, NextChunk(w)
  PROVE  TxWrite' /\ StaysAwake
<1>1. PICK q \in WriterRec : q = wr[w] /\ WriterFits(q, write_cnt)
  BY TxLocals
<1>2. UNCHANGED <<ringVars, returned, write_cnt>> /\ q.pc = "chunk"
  BY <1>1 DEF NextChunk
<1>3. write_cnt' \in Nat /\ write_cnt' >= write_cnt /\ returned' \in Seq(Nat)
  BY <1>2, TxLocals
<1>4. q.nr \in Nat /\ q.off \in Nat /\ q.count \in Nat /\ q.chunk \in Nat
  BY DEF WriterRec
<1>5. q.nr = 0 /\ q.off = 0 /\ q.chunk <= write_cnt'
  BY <1>1, <1>2 DEF WriterFits, InChunk
<1>6. PICK n : n = Less(q.count, q.chunk)
  OBVIOUS
<1>7. n \in Nat /\ n <= q.count /\ n <= q.chunk
  BY <1>4, <1>6 DEF Less
<1>8. CASE /\ wr' = [wr EXCEPT ![w].pc = "write", ![w].off = 0, ![w].nr = n]
           /\ write_wait' = write_wait \union {w}
  <2>1. PICK r : r = [q EXCEPT !.pc = "write", !.off = 0, !.nr = n]
    OBVIOUS
  <2>2. wr' = [wr EXCEPT ![w] = r]
    BY <1>1, <1>8, <2>1 DEF TxWrite, TxCalls
  <2>3. r \in WriterRec
    BY <1>7, <2>1 DEF WriterRec, WriterPC
  <2>4. r.pc = "write" /\ r.nr = n /\ r.off = 0 /\ r.count = q.count /\ r.chunk = q.chunk
    BY <2>1 DEF WriterRec
  <2>5. WriterFits(r, write_cnt')
    BY <1>3, <1>4, <1>5, <1>7, <2>4 DEF WriterFits, InChunk
  <2>6. \A v \in write_wait : v # w => v \in write_wait'
    BY <1>8
  <2>7. w \in write_wait'
    BY <1>8
  <2>8. r.pc # "sleep"
    BY <2>4
  <2>9. QED
    BY <1>2, <1>3, <2>2, <2>3, <2>5, <2>6, <2>7, <2>8, TxMoves
<1>9. CASE wr' = [wr EXCEPT ![w].pc = "up"] /\ UNCHANGED write_wait
  <2>1. PICK r : r = [q EXCEPT !.pc = "up"]
    OBVIOUS
  <2>2. wr' = [wr EXCEPT ![w] = r]
    BY <1>1, <1>9, <2>1 DEF TxWrite, TxCalls
  <2>3. r \in WriterRec
    BY <2>1 DEF WriterRec, WriterPC
  <2>4. r.pc = "up" /\ r.nr = q.nr /\ r.off = q.off /\ r.count = q.count
    BY <2>1 DEF WriterRec
  <2>5. WriterFits(r, write_cnt')
    BY <1>3, <1>4, <1>5, <2>4 DEF WriterFits, InChunk
  <2>6. r.pc \notin InChunk /\ r.pc # "sleep"
    BY <2>4 DEF InChunk
  <2>7. QED
    BY <1>2, <1>3, <1>9, <2>2, <2>3, <2>5, <2>6, TxMoves
<1>10. QED
  BY <1>1, <1>6, <1>8, <1>9 DEF NextChunk

\* The loop ends on a signal, and a woken thread goes on.
LEMMA TxWakes ==
  ASSUME TxWrite, cpc = "open", cpc' = cpc, NEW w \in Writers,
         Interrupted(w) \/ ResumeWrite(w)
  PROVE  TxWrite' /\ StaysAwake
<1>1. PICK q \in WriterRec : q = wr[w] /\ WriterFits(q, write_cnt)
  BY TxLocals
<1>2. UNCHANGED <<ringVars, returned, write_cnt, write_wait>> /\ q.pc \in {"write", "sleep"}
  BY <1>1 DEF Interrupted, ResumeWrite
<1>3. write_cnt' \in Nat /\ write_cnt' >= write_cnt /\ returned' \in Seq(Nat)
  BY <1>2, TxLocals
<1>4. w \in write_wait'
  BY <1>1, <1>2, TxLocals DEF InChunk
<1>5. PICK p \in {"done", "write"} :
        wr' = [wr EXCEPT ![w].pc = p, ![w].state = "running"]
  BY DEF Interrupted, ResumeWrite
<1>6. PICK r : r = [q EXCEPT !.pc = p, !.state = "running"]
  OBVIOUS
<1>7. wr' = [wr EXCEPT ![w] = r]
  BY <1>1, <1>5, <1>6 DEF TxWrite, TxCalls
<1>8. r \in WriterRec
  BY <1>6 DEF WriterRec, WriterPC
<1>9. r.pc = p /\ r.nr = q.nr /\ r.off = q.off /\ r.count = q.count /\ r.chunk = q.chunk
  BY <1>6 DEF WriterRec
<1>10. WriterFits(r, write_cnt')
  BY <1>1, <1>2, <1>9 DEF WriterFits, InChunk
<1>11. r.pc # "sleep"
  BY <1>9
<1>12. QED
  BY <1>2, <1>3, <1>4, <1>7, <1>8, <1>10, <1>11, TxMoves

\* The end of write_chan(), and what rctty_write() makes of its result.
LEMMA TxDone ==
  ASSUME TxWrite, cpc = "open", cpc' = cpc, NEW w \in Writers, ChunkDone(w)
  PROVE  TxWrite' /\ StaysAwake
<1>1. PICK q \in WriterRec : q = wr[w] /\ WriterFits(q, write_cnt)
  BY TxLocals
<1>2. UNCHANGED <<ringVars, returned, write_cnt>> /\ write_wait' = write_wait \ {w}
  BY DEF ChunkDone
<1>3. write_cnt' \in Nat /\ write_cnt' >= write_cnt /\ returned' \in Seq(Nat)
  BY <1>2, TxLocals
<1>4. q.nr \in Nat /\ q.off \in Nat /\ q.count \in Nat /\ q.written \in Nat /\ q.chunk \in Nat
  BY DEF WriterRec
<1>5. q.nr + q.off <= q.count /\ q.chunk <= write_cnt
  BY <1>1 DEF WriterFits, InChunk, ChunkDone
<1>6. PICK left, sum : left = q.count - q.off /\ sum = q.written + q.off
  OBVIOUS
<1>7. left \in Nat /\ sum \in Nat
  BY <1>4, <1>5, <1>6
<1>8. PICK p \in {"up", "chunk"} :
        wr' = [wr EXCEPT ![w].count = left, ![w].written = sum, ![w].off = 0,
                 ![w].nr = 0, ![w].state = "running", ![w].pc = p]
  <2>1. PICK p : p = IF wr[w].off = 0 \/ left = 0 \/ wr[w].signal THEN "up" ELSE "chunk"
    OBVIOUS
  <2>2. p \in {"up", "chunk"}
    BY <2>1
  <2>3. wr \in [Writers -> WriterRec]
    BY DEF TxWrite, TxCalls
  <2>4. wr' = [wr EXCEPT ![w].count = left, ![w].written = sum, ![w].off = 0,
                 ![w].nr = 0, ![w].state = "running", ![w].pc = p]
    BY <1>1, <1>6, <2>1, <2>3 DEF ChunkDone
  <2>5. QED
    BY <2>2, <2>4
<1>9. PICK r : r = [q EXCEPT !.count = left, !.written = sum, !.off = 0, !.nr = 0,
                      !.state = "running", !.pc = p]
  OBVIOUS
<1>10. wr' = [wr EXCEPT ![w] = r]
  BY <1>1, <1>8, <1>9 DEF TxWrite, TxCalls
<1>11. r \in WriterRec
  BY <1>7, <1>9 DEF WriterRec, WriterPC
<1>12. r.pc = p /\ r.nr = 0 /\ r.off = 0 /\ r.count = left /\ r.chunk = q.chunk
  BY <1>9 DEF WriterRec
<1>13. WriterFits(r, write_cnt')
  BY <1>2, <1>3, <1>5, <1>7, <1>12 DEF WriterFits, InChunk
<1>14. r.pc \notin InChunk /\ r.pc # "sleep"
  BY <1>12 DEF InChunk
<1>15. \A v \in write_wait : v # w => v \in write_wait'
  BY <1>2
<1>16. QED
  BY <1>2, <1>3, <1>10, <1>11, <1>13, <1>14, <1>15, TxMoves

LEMMA TxReturns ==
  ASSUME TxWrite, cpc = "open", cpc' = cpc, NEW w \in Writers, ReturnWritten(w)
  PROVE  TxWrite' /\ StaysAwake
<1>1. UNCHANGED <<ringVars, write_cnt, write_wait>> /\ wr' = [wr EXCEPT ![w] = IdleW]
  BY DEF ReturnWritten
<1>2. PICK n \in Nat : n = wr[w].written
  BY TxLocals DEF WriterRec
<1>3. returned' \in Seq(Nat)
  BY <1>2, TxLocals DEF ReturnWritten
<1>4. write_cnt' \in Nat /\ write_cnt' >= write_cnt
  BY <1>1, TxLocals
<1>5. IdleW \in WriterRec /\ WriterFits(IdleW, write_cnt')
  BY <1>4, IdleFits
<1>6. IdleW.pc \notin InChunk /\ IdleW.pc # "sleep"
  BY DEF IdleW, InChunk
<1>7. QED
  BY <1>1, <1>3, <1>4, <1>5, <1>6, TxMoves

LEMMA TxSignal ==
  ASSUME TxWrite, cpc = "open", cpc' = cpc, NEW w \in Writers, SignalWriter(w)
  PROVE  TxWrite' /\ StaysAwake
<1>1. PICK q \in WriterRec : q = wr[w] /\ WriterFits(q, write_cnt)
  BY TxLocals
<1>2. UNCHANGED <<ringVars, returned, write_cnt, write_wait>>
  BY DEF SignalWriter
<1>3. write_cnt' \in Nat /\ write_cnt' >= write_cnt /\ returned' \in Seq(Nat)
  BY <1>2, TxLocals
<1>4. PICK r : r = [q EXCEPT !.signal = TRUE]
  OBVIOUS
<1>5. wr' = [wr EXCEPT ![w] = r]
  BY <1>1, <1>4 DEF SignalWriter, TxWrite, TxCalls
<1>6. r \in WriterRec
  BY <1>4 DEF WriterRec
<1>7. r.pc = q.pc /\ r.nr = q.nr /\ r.off = q.off /\ r.count = q.count /\ r.chunk = q.chunk
      /\ r.state = q.state
  BY <1>4 DEF WriterRec
<1>8. WriterFits(r, write_cnt')
  BY <1>1, <1>2, <1>7 DEF WriterFits, InChunk
<1>9. r.pc \in InChunk => w \in write_wait'
  BY <1>1, <1>2, <1>7, TxLocals
<1>10. r.pc = "sleep" /\ r.state = "interruptible" => Asleep(w)
  BY <1>1, <1>7 DEF Asleep
<1>11. QED
  BY <1>2, <1>3, <1>5, <1>6, <1>8, <1>9, <1>10, TxMoves

\* A step of a thread away from the port.
LEMMA TxThread ==
  ASSUME TxWrite, cpc = "open", cpc' = cpc, NEW w \in Writers,
         Enters(w) \/ WriteStep(w) \/ SignalWriter(w)
  PROVE  TxWrite' /\ StaysAwake /\ UNCHANGED <<head, tail, buf, tlet>>
<1>1. TxWrite' /\ StaysAwake
  BY TxEnters, TxDown, TxAlloc, TxChunk, TxWakes, TxDone, TxReturns, TxSignal DEF WriteStep
<1>2. UNCHANGED <<ringVars, tlet>>
  BY DEF Enters, WriteStep, SignalWriter, AtomicWrite, AllocBuf, NextChunk, Interrupted,
     ResumeWrite, ChunkDone, ReturnWritten
<1>3. QED
  BY <1>1, <1>2 DEF ringVars

\* uart_write() stores what fits; a thread that goes to sleep leaves the ring
\* full.
LEMMA TxStores ==
  ASSUME TxWrite, cpc = "open", cpc' = cpc, NEW w \in Writers, write_chan(w)
  PROVE  /\ tail' \in Pos => TxWrite'
         /\ head' \in Pos /\ buf' \in [Pos -> Char]
         /\ CircCnt(head', tail) \in Nat /\ CircCnt(head', tail) >= CircCnt(head, tail)
         /\ \A v \in Writers : Asleep(v)' => Asleep(v) \/ CircCnt(head', tail) > 0
<1>1. PICK q \in WriterRec : q = wr[w] /\ WriterFits(q, write_cnt)
  BY TxLocals
<1>2. UNCHANGED <<returned, write_cnt, write_wait>> /\ q.pc = "write"
  BY <1>1 DEF write_chan
<1>3. write_cnt' \in Nat /\ write_cnt' >= write_cnt /\ returned' \in Seq(Nat)
  BY <1>2, TxLocals
<1>4. w \in write_wait'
  BY <1>1, <1>2, TxLocals DEF InChunk
<1>5. /\ q.nr \in Nat /\ q.off \in Nat /\ q.count \in Nat /\ q.chunk \in Nat
      /\ q.call \in Nat /\ q.written \in Nat
  BY DEF WriterRec
<1>6. head \in Pos /\ tail \in Pos /\ buf \in [Pos -> Char] /\ PAGE_SIZE \in Nat \ {0}
      /\ PAGE_SIZE > 1
  BY TxSizes DEF TxWrite, TxRing
<1>7. PICK n \in Pos : n = CircCnt(head, tail) /\ CircSpace(head, tail) = PAGE_SIZE - 1 - n
  BY <1>6, CircCounts
<1>8. PICK k \in Nat : k = Fits(w) /\ k <= q.nr /\ k <= PAGE_SIZE - 1 - n
                       /\ (k = q.nr \/ k = PAGE_SIZE - 1 - n)
  <2>1. PICK m \in Nat : m = PAGE_SIZE - 1 - n
    BY <1>6 DEF Pos
  <2>2. Fits(w) = IF q.nr < m THEN q.nr ELSE m
    BY <1>1, <1>7, <2>1 DEF Fits, Less
  <2>3. QED
    BY <1>5, <2>1, <2>2
<1>9. head' = Advance(head, k) /\ buf' = StoreAt(buf, head, w, k)
  BY <1>8 DEF write_chan
<1>10. head' \in Pos /\ CircCnt(head', tail) = n + k
  BY <1>6, <1>7, <1>8, <1>9, CircStore
<1>11. buf' \in [Pos -> Char]
  <2>1. ASSUME NEW p \in Pos PROVE (p - head) % PAGE_SIZE \in Nat
    <3>1. PICK d \in Int : d = p - head
      BY <1>6 DEF Pos
    <3>2. d % PAGE_SIZE \in Nat
      BY <1>6
    <3>3. QED
      BY <3>1, <3>2
  <2>2. ASSUME NEW p \in Pos
        PROVE  <<wr[w].call, wr[w].written + wr[w].off + ((p - head) % PAGE_SIZE) + 1>> \in Char
    BY <1>1, <1>5, <2>1 DEF Char
  <2>3. QED
    BY <1>6, <1>9, <2>2 DEF StoreAt, Pos
<1>12. PICK a, b : a = q.nr - k /\ b = q.off + k
  OBVIOUS
<1>13. a \in Nat /\ b \in Nat /\ a + b = q.nr + q.off
  BY <1>5, <1>8, <1>12
<1>14. PICK p \in {"done", "sleep"} :
         /\ wr' = [wr EXCEPT ![w].nr = a, ![w].off = b, ![w].state = "interruptible", ![w].pc = p]
         /\ p = "sleep" => k # q.nr
  <2>1. PICK p : p = IF k = wr[w].nr \/ wr[w].nonblock THEN "done" ELSE "sleep"
    OBVIOUS
  <2>2. p \in {"done", "sleep"} /\ (p = "sleep" => k # q.nr)
    BY <1>1, <2>1
  <2>3. wr' = [wr EXCEPT ![w].nr = a, ![w].off = b, ![w].state = "interruptible", ![w].pc = p]
    BY <1>1, <1>8, <1>12, <2>1 DEF write_chan, TxWrite, TxCalls
  <2>4. QED
    BY <2>2, <2>3
<1>15. PICK r : r = [q EXCEPT !.nr = a, !.off = b, !.state = "interruptible", !.pc = p]
  OBVIOUS
<1>16. wr' = [wr EXCEPT ![w] = r]
  BY <1>1, <1>14, <1>15 DEF TxWrite, TxCalls
<1>17. r \in WriterRec
  BY <1>13, <1>15 DEF WriterRec, WriterPC
<1>18. r.pc = p /\ r.nr = a /\ r.off = b /\ r.count = q.count /\ r.chunk = q.chunk
  BY <1>15 DEF WriterRec
<1>19. WriterFits(r, write_cnt')
  BY <1>1, <1>2, <1>5, <1>13, <1>18 DEF WriterFits, InChunk
<1>20. TxCalls' /\ TxWaits'
  <2>1. TxCalls /\ TxWaits
    BY DEF TxWrite
  <2>2. QED
    BY <1>2, <1>3, <1>4, <1>16, <1>17, <1>19, <2>1, OneMoves
<1>21. tail' \in Pos => TxRing' /\ TxIdle'
  BY <1>10, <1>11 DEF TxRing, TxIdle, TxWrite, Pos
<1>22. \A v \in Writers : v # w => (Asleep(v)' => Asleep(v))
  BY <1>16 DEF Asleep, TxWrite, TxCalls
<1>23. Asleep(w)' => CircCnt(head', tail) > 0
  <2>1. SUFFICES ASSUME Asleep(w)' PROVE n + k > 0
    BY <1>10
  <2>2. p = "sleep"
    BY <1>16, <1>18, <2>1 DEF Asleep, TxWrite, TxCalls
  <2>3. k = PAGE_SIZE - 1 - n
    BY <1>8, <1>14, <2>2
  <2>4. QED
    BY <1>6, <2>3 DEF Pos
<1>24. QED
  BY <1>6, <1>7, <1>10, <1>11, <1>20, <1>21, <1>22, <1>23 DEF TxWrite, Pos

\* The tasklet wakes every thread in write_chan().
LEMMA TxTasklet ==
  ASSUME TxWrite, uart_tasklet_action, cpc' = cpc
  PROVE  TxWrite' /\ (\A v \in Writers : ~Asleep(v)') /\ UNCHANGED <<head, tail, buf>>
<1>1. wr \in [Writers -> WriterRec] /\ UNCHANGED <<ringVars, write_wait, write_cnt, returned>>
  BY DEF TxWrite, TxCalls, uart_tasklet_action
<1>2. ASSUME NEW v \in Writers
      PROVE  /\ wr'[v] \in WriterRec
             /\ wr'[v].pc = wr[v].pc /\ WriterFits(wr'[v], write_cnt)
             /\ v \in write_wait => wr'[v].state = "running"
  <2>1. PICK q \in WriterRec : q = wr[v] /\ WriterFits(q, write_cnt)
    BY TxLocals
  <2>2. PICK r : r = [q EXCEPT !.state = "running"]
    OBVIOUS
  <2>3. wr'[v] = IF v \in write_wait THEN r ELSE q
    BY <2>1, <2>2 DEF uart_tasklet_action
  <2>4. /\ r \in WriterRec /\ r.pc = q.pc /\ r.nr = q.nr /\ r.off = q.off
        /\ r.count = q.count /\ r.chunk = q.chunk /\ r.state = "running"
    BY <2>2 DEF WriterRec
  <2>5. WriterFits(r, write_cnt)
    BY <2>1, <2>4 DEF WriterFits
  <2>6. QED
    BY <2>1, <2>3, <2>4, <2>5
<1>3. TxCalls' /\ TxWaits' /\ TxIdle'
  <2>1. wr' = [v \in Writers |-> wr'[v]]
    BY DEF uart_tasklet_action
  <2>2. wr' \in [Writers -> WriterRec]
    BY <1>2, <2>1
  <2>3. QED
    BY <1>1, <1>2, <2>2 DEF TxWrite, TxCalls, TxWaits, TxIdle
<1>4. ASSUME NEW v \in Writers PROVE ~Asleep(v)'
  <2>1. wr'[v].pc = "sleep" => v \in write_wait
    BY <1>2, TxLocals DEF InChunk
  <2>2. QED
    BY <1>2, <2>1 DEF Asleep
<1>5. TxRing'
  BY <1>1 DEF TxWrite, TxRing, ringVars
<1>6. QED
  BY <1>1, <1>3, <1>4, <1>5 DEF TxWrite, ringVars
-----------------------------------------------------------------------------
(***************************************************************************)
(* The QUICC Engine port.                                                  *)
(***************************************************************************)
\* A multiple of the size of a descriptor.
LEMMA Descriptors ==
  ASSUME NEW B \in Nat \ {0}, NEW f \in Nat, NEW k \in Nat, k <= f * B
  PROVE  /\ (k + B - 1) \div B \in 0 .. f
         /\ k > 0 => (k + B - 1) \div B > 0
<1>1. PICK d \in Nat : d = k + B - 1
  OBVIOUS
<1>2. PICK e \in Nat : e = d \div B
  OBVIOUS
<1>3. e * B <= d /\ d < (e + 1) * B
  BY <1>2
<1>4. e <= f
  <2>1. SUFFICES ASSUME e > f PROVE FALSE
    OBVIOUS
  <2>2. PICK g \in Nat : e = f + 1 + g
    <3>1. e - f - 1 \in Nat /\ e = f + 1 + (e - f - 1)
      BY <2>1
    <3>2. QED
      BY <3>1
  <2>3. e * B = f * B + B + g * B
    BY <2>2
  <2>4. g * B \in Nat /\ f * B \in Nat
    OBVIOUS
  <2>5. QED
    BY <1>1, <1>3, <2>3, <2>4
<1>5. k > 0 => e > 0
  BY <1>1, <1>3
<1>6. QED
  BY <1>1, <1>2, <1>4, <1>5

\* The free descriptors are the ones that are not in use.
LEMMA FreeCount ==
  ASSUME UccTypes, NEW u \in 0 .. TX_NUM_FIFO, InUse(u)
  PROVE  Free = TX_NUM_FIFO - u
<1> DEFINE N == TX_NUM_FIFO
           Is(n) == /\ \A i \in 0 .. n - 1 : ~bd[FromCur(i)].ready
                    /\ n < N => bd[FromCur(n)].ready
<1>1. N \in Nat \ {0} /\ qe_cur \in 0 .. N - 1 /\ tx_cur \in 0 .. N - 1
  BY TxSizes DEF UccTypes, BDs
<1>2. tx_cur = IF qe_cur + u < N THEN qe_cur + u ELSE qe_cur + u - N
  BY <1>1, RingForward, Zenon DEF InUse
<1>3. ASSUME NEW i \in 0 .. N - 1 PROVE bd[FromCur(i)].ready <=> i >= N - u
  <2>1. FromCur(i) = IF tx_cur + i < N THEN tx_cur + i ELSE tx_cur + i - N
    <3>1. i \in 0 .. N
      BY <1>1
    <3>2. QED
      BY <1>1, <3>1, RingForward, Zenon DEF FromCur
  <2>2. PICK j \in 0 .. N - 1 : j = FromCur(i)
    BY <1>1, <2>1
  <2>3. (j - qe_cur) % N = IF j >= qe_cur THEN j - qe_cur ELSE j - qe_cur + N
    BY <1>1, RingDistance
  <2>4. bd[j].ready <=> (j - qe_cur) % N < u
    BY DEF InUse, BDs
  <2>5. PICK d \in Int : d = (j - qe_cur) % N
    BY <1>1, <2>3
  <2>6. d < u <=> i >= N - u
    BY <1>1, <1>2, <2>1, <2>2, <2>3, <2>5
  <2>7. QED
    BY <2>2, <2>4, <2>5, <2>6
<1>4. Is(N - u)
  BY <1>1, <1>3
<1>5. ASSUME NEW n \in 0 .. N, Is(n) PROVE n = N - u
  BY <1>1, <1>3, <1>5
<1>6. N - u \in 0 .. N
  BY <1>1
<1>7. Free = CHOOSE n \in 0 .. N : Is(n)
  BY DEF Free
<1>8. QED
  BY <1>4, <1>5, <1>6, <1>7, Zenon

\* qe_uart_tx_pump() fills free descriptors behind the ones in use; when it
\* leaves characters in the buffer, a descriptor is to be sent.
LEMMA Pumps ==
  ASSUME UccTypes, UccRing, tail \in Pos, qe_cur' = qe_cur,
         NEW b \in [Pos -> Char], NEW h \in Pos, qe_uart_tx_pump(b, h)
  PROVE  /\ UccTypes' /\ UccRing'
         /\ tail' \in Pos
         /\ Left(h) \in Nat /\ Left(h) <= CircCnt(h, tail) /\ CircCnt(h, tail') = Left(h)
         /\ Left(h) > 0 => \E i \in BDs : bd'[i].ready
         /\ tlet' = (tlet \/ (CircCnt(h, tail) > 0 /\ Left(h) < WAKEUP_CHARS))
<1> DEFINE N == TX_NUM_FIFO
           B == TX_BUF_SIZE
<1>1. /\ N \in Nat \ {0} /\ qe_cur \in 0 .. N - 1 /\ tx_cur \in 0 .. N - 1
      /\ B \in Nat \ {0} /\ PAGE_SIZE \in Nat \ {0} /\ BDs = 0 .. N - 1
  BY TxSizes DEF UccTypes, BDs
<1>2. PICK u \in 0 .. N : InUse(u)
  BY DEF UccRing
<1>3. PICK f \in 0 .. N : f = Free /\ f = N - u
  BY <1>1, <1>2, FreeCount
<1>4. PICK n \in Pos : n = CircCnt(h, tail)
  BY CircCounts
<1>5. n \in Nat
  BY <1>4 DEF Pos
<1>6. PICK m \in Nat : m = f * B
  BY <1>1
<1>7. PICK k \in Nat : k = Taken(h) /\ k <= n /\ k <= m /\ (k = n \/ k = m)
  <2>1. Taken(h) = IF n < m THEN n ELSE m
    BY <1>3, <1>4, <1>6 DEF Taken, Less
  <2>2. QED
    BY <1>5, <2>1
<1>8. Left(h) = n - k
  BY <1>4, <1>7 DEF Left
<1>9. PICK e : e = (k + B - 1) \div B
  OBVIOUS
<1>10. e \in 0 .. f /\ (k > 0 => e > 0)
  <2>1. f \in Nat /\ k <= f * B
    BY <1>1, <1>6, <1>7
  <2>2. /\ (k + B - 1) \div B \in 0 .. f
        /\ k > 0 => (k + B - 1) \div B > 0
    BY <1>1, <2>1, Descriptors
  <2>3. QED
    BY <1>9, <2>2
<1>11. PICK s : s = Pending(b, h, tail)
  OBVIOUS
<1>12. s \in Seq(Char) /\ Len(s) = n
  BY <1>4, <1>11, PendingText
<1>13. /\ bd' = [i \in BDs |->
                  IF (i - tx_cur) % N < e
                    THEN [ready |-> TRUE,
                          data  |-> SubSeq(s, ((i - tx_cur) % N) * B + 1,
                                           Less(k, (((i - tx_cur) % N) + 1) * B))]
                    ELSE bd[i]]
       /\ tx_cur' = (tx_cur + e) % N
       /\ tail' = Advance(tail, k)
       /\ tlet' = (tlet \/ (s # <<>> /\ Wakes(Left(h))))
  BY <1>7, <1>9, <1>11 DEF qe_uart_tx_pump, FromCur
<1>14. ASSUME NEW i \in BDs
       PROVE  /\ bd'[i] \in Descriptor
              /\ bd'[i].ready <=> ((i - tx_cur) % N < e \/ bd[i].ready)
  <2>1. PICK d \in Nat : d = (i - tx_cur) % N
    <3>1. PICK c \in Int : c = i - tx_cur
      BY <1>1
    <3>2. c % N \in Nat
      BY <1>1
    <3>3. QED
      BY <3>1, <3>2
  <2>2. PICK x, y : x = d * B + 1 /\ y = Less(k, (d + 1) * B)
    OBVIOUS
  <2>3. x \in Nat /\ x >= 1 /\ y \in Nat /\ y <= k
    <3>1. d * B \in Nat /\ (d + 1) * B \in Nat
      BY <1>1
    <3>2. QED
      BY <2>2, <3>1 DEF Less
  <2>4. SubSeq(s, x, y) \in Seq(Char)
    BY <1>5, <1>7, <1>12, <2>3
  <2>5. bd'[i] = IF d < e THEN [ready |-> TRUE, data |-> SubSeq(s, x, y)] ELSE bd[i]
    BY <1>13, <2>1, <2>2, Zenon
  <2>6. bd[i] \in Descriptor
    BY DEF UccTypes
  <2>7. CASE d < e
    <3>1. bd'[i] = [ready |-> TRUE, data |-> SubSeq(s, x, y)]
      BY <2>5, <2>7
    <3>2. bd'[i] \in Descriptor /\ bd'[i].ready = TRUE
      BY <2>4, <3>1 DEF Descriptor
    <3>3. QED
      BY <2>1, <2>7, <3>2
  <2>8. CASE ~(d < e)
    <3>1. bd'[i] = bd[i]
      BY <2>5, <2>8
    <3>2. QED
      BY <2>1, <2>6, <2>8, <3>1
  <2>9. QED
    BY <2>7, <2>8
<1>15. tx_cur' \in BDs
  <2>1. PICK d \in Nat : d = tx_cur + e
    BY <1>1, <1>10
  <2>2. d % N \in 0 .. N - 1
    BY <1>1
  <2>3. QED
    BY <1>1, <1>13, <2>1, <2>2
<1>16. UccTypes'
  <2>1. bd' = [i \in BDs |-> bd'[i]]
    BY <1>13, Zenon
  <2>2. QED
    BY <1>1, <1>14, <1>15, <2>1 DEF UccTypes, BDs
<1>17. tx_cur = IF qe_cur + u < N THEN qe_cur + u ELSE qe_cur + u - N
  BY <1>1, <1>2, RingForward, Zenon DEF InUse
<1>18. tx_cur' = IF tx_cur + e < N THEN tx_cur + e ELSE tx_cur + e - N
  <2>1. e \in 0 .. N
    BY <1>1, <1>3, <1>10
  <2>2. QED
    BY <1>1, <1>13, <2>1, RingForward, Zenon
<1>19. PICK v \in 0 .. N : v = u + e
  BY <1>1, <1>3, <1>10
<1>20. InUse(v)'
  <2>1. tx_cur' = (qe_cur + v) % N
    <3>1. (qe_cur + v) % N = IF qe_cur + v < N THEN qe_cur + v ELSE qe_cur + v - N
      BY <1>1, RingForward, Zenon
    <3>2. QED
      BY <1>1, <1>3, <1>10, <1>17, <1>18, <1>19, <3>1
  <2>2. ASSUME NEW i \in BDs PROVE bd'[i].ready <=> (i - qe_cur) % N < v
    <3>1. (i - qe_cur) % N = IF i >= qe_cur THEN i - qe_cur ELSE i - qe_cur + N
      BY <1>1, RingDistance, Zenon
    <3>2. (i - tx_cur) % N = IF i >= tx_cur THEN i - tx_cur ELSE i - tx_cur + N
      BY <1>1, RingDistance, Zenon
    <3>3. PICK c \in Int, d \in Int : c = (i - qe_cur) % N /\ d = (i - tx_cur) % N
      BY <1>1, <3>1, <3>2
    <3>4. (d < e \/ c < u) <=> c < v
      BY <1>1, <1>3, <1>10, <1>17, <1>19, <3>1, <3>2, <3>3
    <3>5. bd[i].ready <=> c < u
      BY <1>2, <3>3 DEF InUse
    <3>6. bd'[i].ready <=> (d < e \/ bd[i].ready)
      BY <1>14, <3>3
    <3>7. QED
      BY <3>3, <3>4, <3>5, <3>6, Zenon
  <2>3. QED
    BY <2>1, <2>2 DEF InUse, BDs
<1>21. UccRing'
  BY <1>20 DEF UccRing
<1>22. tail' \in Pos /\ CircCnt(h, tail') = n - k
  BY <1>4, <1>7, <1>13, CircTake
<1>23. n - k > 0 => \E i \in BDs : bd'[i].ready
  <2>1. SUFFICES ASSUME n - k > 0 PROVE \E i \in BDs : bd'[i].ready
    OBVIOUS
  <2>2. v > 0
    <3>1. k = m
      BY <1>5, <1>7, <2>1
    <3>2. CASE f = 0
      BY <1>1, <1>3, <1>10, <1>19, <3>2
    <3>3. CASE f > 0
      <4>1. m > 0
        BY <1>1, <1>6, <3>3
      <4>2. QED
        BY <1>10, <1>19, <3>1, <4>1
    <3>4. QED
      BY <3>2, <3>3
  <2>3. (qe_cur - qe_cur) % N = 0
    <3>1. qe_cur - qe_cur = 0 /\ 0 % N = 0
      BY <1>1
    <3>2. QED
      BY <3>1
  <2>4. bd'[qe_cur].ready
    BY <1>1, <1>20, <2>2, <2>3 DEF InUse, BDs
  <2>5. QED
    BY <1>1, <2>4
<1>24. tlet' = (tlet \/ (n > 0 /\ n - k < WAKEUP_CHARS))
  <2>1. s # <<>> <=> n > 0
    BY <1>5, <1>12
  <2>2. Wakes(Left(h)) <=> n - k < WAKEUP_CHARS
    BY <1>8 DEF Wakes
  <2>3. QED
    BY <1>13, <2>1, <2>2
<1>25. QED
  <2>1. Left(h) \in Nat /\ Left(h) <= n
    BY <1>5, <1>7, <1>8
  <2>2. QED
    BY <1>4, <1>8, <1>16, <1>21, <1>22, <1>23, <1>24, <2>1

\* The parts of the invariant that a step leaves alone.
LEMMA UccSame ==
  ASSUME UccInv, UNCHANGED <<bd, tx_cur, qe_cur, uccm, ucce, head, tail>>,
         cpc' # "closed" => cpc # "closed"
  PROVE  UccTypes' /\ UccRing' /\ UccMask' /\ UccEvent'
         /\ uccm' \in BOOLEAN /\ ucce' \in BOOLEAN
<1>1. UccTypes' /\ uccm' \in BOOLEAN /\ ucce' \in BOOLEAN
  BY DEF UccInv, UccTypes, UccFlags, BDs
<1>2. UccRing'
  BY DEF UccInv, UccRing, InUse, BDs
<1>3. UccMask' /\ UccEvent'
  BY DEF UccInv, UccMask, UccEvent, BDs
<1>4. QED
  BY <1>1, <1>2, <1>3

\* A thread away from the port.
LEMMA UccThread ==
  ASSUME TxWrite, UccInv, cpc = "open", NEW w \in Writers,
         Enters(w) \/ WriteStep(w) \/ SignalWriter(w), UNCHANGED uccVars
  PROVE  TxWrite' /\ UccInv'
<1>1. UNCHANGED <<bd, tx_cur, qe_cur, uccm, ucce, cpc>>
  BY DEF uccVars, bdVars
<1>2. TxWrite' /\ StaysAwake /\ UNCHANGED <<head, tail, buf, tlet>>
  BY <1>1, TxThread
<1>3. UccTypes' /\ UccRing' /\ UccMask' /\ UccEvent' /\ uccm' \in BOOLEAN /\ ucce' \in BOOLEAN
  BY <1>1, <1>2, UccSame
<1>4. tlet' \in BOOLEAN
  BY <1>2 DEF UccInv, UccFlags
<1>5. WriterServed'
  BY <1>2 DEF UccInv, WriterServed, StaysAwake, Asleep
<1>6. QED
  BY <1>2, <1>3, <1>4, <1>5 DEF UccInv, UccFlags

\* What remains of the invariant after a pump, when nobody goes to sleep
\* unless there were characters.
LEMMA Pumped ==
  ASSUME TxWrite', UccTypes', UccRing', tlet \in BOOLEAN,
         NEW n \in Nat, NEW left \in Nat,
         left <= n,
         CircCnt(head', tail') = left,
         left > 0 => \E i \in BDs : bd'[i].ready,
         tlet' = (tlet \/ (n > 0 /\ left < WAKEUP_CHARS)),
         uccm' = (left > 0), ucce' \in BOOLEAN,
         \A v \in Writers : Asleep(v)' => tlet \/ n > 0
  PROVE  UccInv'
<1>1. head' \in Pos /\ tail' \in Pos
  BY DEF TxWrite, TxRing, Pos
<1>2. left = 0 <=> head' = tail'
  BY <1>1, CircCounts, Zenon
<1>3. UccMask' /\ UccEvent'
  <2>1. uccm' <=> left # 0
    <3>1. left > 0 <=> left # 0
      OBVIOUS
    <3>2. QED
      BY <3>1, Zenon
  <2>2. UccMask'
    BY <1>2, <2>1, Zenon DEF UccMask
  <2>3. uccm' => \E i \in BDs : bd'[i].ready
    OBVIOUS
  <2>4. UccEvent'
    BY <2>3, Zenon DEF UccEvent, BDs
  <2>5. QED
    BY <2>2, <2>4
<1>4. ASSUME NEW v \in Writers, Asleep(v)' PROVE tlet' \/ head' # tail'
  <2>1. CASE left > 0
    BY <1>2, <2>1
  <2>2. CASE left = 0
    <3>1. left < WAKEUP_CHARS
      BY <2>2, TxSizes
    <3>2. QED
      BY <1>4, <3>1
  <2>3. QED
    BY <2>1, <2>2
<1>5. WriterServed'
  BY <1>4 DEF WriterServed, Asleep
<1>6. UccFlags'
  <2>1. tlet' \in BOOLEAN
    OBVIOUS
  <2>2. uccm' \in BOOLEAN
    OBVIOUS
  <2>3. QED
    BY <2>1, <2>2 DEF UccFlags
<1>7. QED
  BY <1>3, <1>5, <1>6 DEF UccInv

\* write_chan() with uart_write().
LEMMA UccWrites ==
  ASSUME TxWrite, UccInv, cpc = "open", NEW w \in Writers, UartWrite(w)
  PROVE  TxWrite' /\ UccInv'
<1>1. UNCHANGED <<qe_cur, ucce, cpc>> /\ write_chan(w) /\ xr_start_tx_ucc
  BY DEF UartWrite
<1>2. head \in Pos /\ tail \in Pos
  BY DEF TxWrite, TxRing
<1>3. CASE uccm
  <2>1. UNCHANGED <<bd, tx_cur, uccm, tail, tlet>>
    BY <1>1, <1>3 DEF xr_start_tx_ucc, bdVars
  <2>2. tail' \in Pos
    BY <1>2, <2>1
  <2>3. /\ TxWrite'
        /\ CircCnt(head', tail) \in Nat /\ CircCnt(head', tail) >= CircCnt(head, tail)
    BY <1>1, <2>2, TxStores
  <2>4. head' \in Pos
    BY <2>3 DEF TxWrite, TxRing, Pos
  <2>5. head # tail
    BY <1>3 DEF UccInv, UccMask
  <2>6. CircCnt(head, tail) \in Nat /\ CircCnt(head, tail) # 0
    BY <1>2, <2>5, CircCounts DEF Pos
  <2>7. head' # tail'
    <3>1. CircCnt(head', tail) # 0
      BY <2>3, <2>6
    <3>2. CircCnt(head', tail) = 0 <=> head' = tail
      BY <1>2, <2>4, CircCounts, Zenon
    <3>3. QED
      BY <2>1, <3>1, <3>2
  <2>8. UccTypes' /\ UccRing'
    BY <1>1, <2>1 DEF UccInv, UccTypes, UccRing, InUse, BDs
  <2>9. UccMask' /\ UccEvent' /\ WriterServed'
    <3>1. UccEvent'
      BY <1>1, <2>1 DEF UccInv, UccEvent, BDs
    <3>2. UccMask' /\ WriterServed'
      BY <1>3, <2>1, <2>7 DEF UccMask, WriterServed
    <3>3. QED
      BY <3>1, <3>2
  <2>10. UccFlags'
    BY <1>1, <2>1 DEF UccInv, UccFlags
  <2>11. QED
    BY <2>3, <2>8, <2>9, <2>10 DEF UccInv
<1>4. CASE ~uccm
  <2>1. PICK b, h : b = buf' /\ h = head'
    OBVIOUS
  <2>2. qe_uart_tx_pump(b, h) /\ uccm' = (Left(h) > 0)
    BY <1>1, <1>4, <2>1 DEF xr_start_tx_ucc
  <2>3. UccTypes /\ UccRing /\ tlet \in BOOLEAN /\ ucce' \in BOOLEAN
    BY <1>1 DEF UccInv, UccFlags
  <2>4. b \in [Pos -> Char] /\ h \in Pos
    BY <1>1, <2>1, TxStores
  <2>5. /\ UccTypes' /\ UccRing' /\ tail' \in Pos
        /\ Left(h) \in Nat /\ Left(h) <= CircCnt(h, tail) /\ CircCnt(h, tail') = Left(h)
        /\ Left(h) > 0 => \E i \in BDs : bd'[i].ready
        /\ tlet' = (tlet \/ (CircCnt(h, tail) > 0 /\ Left(h) < WAKEUP_CHARS))
    BY <1>1, <1>2, <2>2, <2>3, <2>4, Pumps
  <2>6. /\ TxWrite'
        /\ CircCnt(h, tail) \in Nat /\ CircCnt(h, tail) >= CircCnt(head, tail)
        /\ \A v \in Writers : Asleep(v)' => Asleep(v) \/ CircCnt(h, tail) > 0
    BY <1>1, <2>1, <2>5, TxStores
  <2>7. PICK n \in Nat, left \in Nat : n = CircCnt(h, tail) /\ left = Left(h)
    BY <2>5, <2>6
  <2>8. left <= n
    BY <2>5, <2>7
  <2>9. \A v \in Writers : Asleep(v)' => tlet \/ n > 0
    <3>1. head = tail
      BY <1>4 DEF UccInv, UccMask
    <3>2. \A v \in Writers : Asleep(v) => tlet
      BY <3>1 DEF UccInv, WriterServed, Asleep
    <3>3. QED
      BY <2>6, <2>7, <3>2
  <2>10. QED
    BY <2>1, <2>2, <2>3, <2>5, <2>6, <2>7, <2>8, <2>9, Pumped
<1>5. QED
  BY <1>3, <1>4

\* qe_uart_int()
LEMMA UccInterrupt ==
  ASSUME TxWrite, UccInv, qe_uart_int
  PROVE  TxWrite' /\ UccInv'
<1>1. /\ UNCHANGED <<head, buf, writeVars, qe_cur, cpc>> /\ cpc # "closed"
      /\ ucce' = FALSE /\ uccm' = MaskAfter
      /\ qe_uart_tx_pump(buf, head)
  BY DEF qe_uart_int
<1>2. head \in Pos /\ tail \in Pos /\ buf \in [Pos -> Char]
  BY DEF TxWrite, TxRing
<1>3. UccTypes /\ UccRing /\ tlet \in BOOLEAN
  BY DEF UccInv, UccFlags
<1>4. PICK b, h : b = buf /\ h = head
  OBVIOUS
<1>5. /\ UccTypes' /\ UccRing' /\ tail' \in Pos
      /\ Left(h) \in Nat /\ Left(h) <= CircCnt(h, tail) /\ CircCnt(h, tail') = Left(h)
      /\ Left(h) > 0 => \E i \in BDs : bd'[i].ready
      /\ tlet' = (tlet \/ (CircCnt(h, tail) > 0 /\ Left(h) < WAKEUP_CHARS))
  BY <1>1, <1>2, <1>3, <1>4, Pumps
<1>6. CircCnt(h, tail) \in Nat /\ (CircCnt(h, tail) = 0 <=> head = tail)
  BY <1>2, <1>4, CircCounts DEF Pos
<1>7. PICK n \in Nat, left \in Nat : n = CircCnt(h, tail) /\ left = Left(h)
  BY <1>5, <1>6
<1>8. TxWrite'
  <2>1. TxRing' /\ TxIdle'
    BY <1>1, <1>2, <1>5 DEF TxRing, TxIdle, TxWrite, writeVars, Pos
  <2>2. TxCalls' /\ TxWaits'
    BY <1>1 DEF TxCalls, TxWaits, TxWrite, writeVars
  <2>3. QED
    BY <2>1, <2>2 DEF TxWrite
<1>9. uccm' = (left > 0)
  <2>1. left > 0 => uccm
    BY <1>1, <1>5, <1>6, <1>7 DEF UccInv, UccMask
  <2>2. QED
    BY <1>1, <1>4, <1>7, <2>1 DEF MaskAfter
<1>10. \A v \in Writers : Asleep(v)' => tlet \/ n > 0
  <2>1. \A v \in Writers : Asleep(v)' => Asleep(v)
    BY <1>1 DEF Asleep, writeVars
  <2>2. \A v \in Writers : Asleep(v) => tlet \/ head # tail
    BY DEF UccInv, WriterServed, Asleep
  <2>3. QED
    BY <1>6, <1>7, <2>1, <2>2
<1>11. CircCnt(head', tail') = left
  BY <1>1, <1>4, <1>5, <1>7
<1>12. left <= n
  BY <1>5, <1>7
<1>13. ucce' \in BOOLEAN
  BY <1>1
<1>14. left > 0 => \E i \in BDs : bd'[i].ready
  BY <1>5, <1>7
<1>15. tlet' = (tlet \/ (n > 0 /\ left < WAKEUP_CHARS))
  BY <1>5, <1>7
<1>16. QED
  BY <1>3, <1>5, <1>8, <1>9, <1>10, <1>11, <1>12, <1>13, <1>14, <1>15, Pumped

\* The engine sends the descriptor at its position.
LEMMA UccSends ==
  ASSUME TxWrite, UccInv, QeSend
  PROVE  TxWrite' /\ UccInv'
<1> DEFINE N == TX_NUM_FIFO
<1>1. /\ UNCHANGED <<head, tail, buf, tlet, tx_cur, uccm, cpc>> /\ UNCHANGED writeVars
      /\ ucce' = TRUE /\ bd[qe_cur].ready
      /\ bd' = [bd EXCEPT ![qe_cur].ready = FALSE]
      /\ qe_cur' = (qe_cur + 1) % N
  BY DEF QeSend, ringVars
<1>2. TxWrite'
  <2>1. TxRing' /\ TxIdle'
    BY <1>1 DEF TxRing, TxIdle, TxWrite, writeVars
  <2>2. TxCalls' /\ TxWaits'
    BY <1>1 DEF TxCalls, TxWaits, TxWrite, writeVars
  <2>3. QED
    BY <2>1, <2>2 DEF TxWrite
<1>3. /\ N \in Nat \ {0} /\ qe_cur \in 0 .. N - 1 /\ tx_cur \in 0 .. N - 1
      /\ BDs = 0 .. N - 1 /\ bd \in [BDs -> Descriptor]
  BY TxSizes DEF UccInv, UccTypes, BDs
<1>4. PICK u \in 0 .. N : InUse(u)
  BY DEF UccInv, UccRing
<1>5. qe_cur' = IF qe_cur + 1 < N THEN qe_cur + 1 ELSE qe_cur + 1 - N
  <2>1. 1 \in 0 .. N
    BY <1>3
  <2>2. QED
    BY <1>1, <1>3, <2>1, RingForward, Zenon
<1>6. ASSUME NEW i \in BDs
      PROVE  bd'[i] \in Descriptor /\ (bd'[i].ready <=> bd[i].ready /\ i # qe_cur)
  BY <1>1, <1>3 DEF Descriptor
<1>7. UccTypes'
  <2>1. bd' \in [BDs -> Descriptor]
    <3>1. bd' = [i \in BDs |-> bd'[i]]
      BY <1>1, <1>3
    <3>2. QED
      BY <1>6, <3>1
  <2>2. QED
    BY <1>1, <1>3, <1>5, <2>1 DEF UccTypes, BDs
<1>8. u > 0
  <2>1. (qe_cur - qe_cur) % N = 0
    <3>1. qe_cur - qe_cur = 0 /\ 0 % N = 0
      BY <1>3
    <3>2. QED
      BY <3>1
  <2>2. QED
    BY <1>1, <1>3, <1>4, <2>1 DEF InUse
<1>9. PICK v \in 0 .. N : v = u - 1
  BY <1>3, <1>8
<1>10. InUse(v)'
  <2>1. tx_cur = IF qe_cur + u < N THEN qe_cur + u ELSE qe_cur + u - N
    BY <1>3, <1>4, RingForward, Zenon DEF InUse
  <2>2. PICK q \in 0 .. N - 1 : q = qe_cur'
    BY <1>3, <1>5
  <2>3. tx_cur = (q + v) % N
    <3>1. (q + v) % N = IF q + v < N THEN q + v ELSE q + v - N
      BY <1>3, RingForward, Zenon
    <3>2. QED
      BY <1>3, <1>5, <1>8, <1>9, <2>1, <2>2, <3>1
  <2>4. ASSUME NEW i \in BDs PROVE bd'[i].ready <=> (i - q) % N < v
    <3>1. (i - qe_cur) % N = IF i >= qe_cur THEN i - qe_cur ELSE i - qe_cur + N
      BY <1>3, RingDistance, Zenon
    <3>2. (i - q) % N = IF i >= q THEN i - q ELSE i - q + N
      BY <1>3, RingDistance, Zenon
    <3>3. PICK c \in Int, d \in Int : c = (i - qe_cur) % N /\ d = (i - q) % N
      BY <1>3, <3>1, <3>2
    <3>4. (c < u /\ i # qe_cur) <=> d < v
      BY <1>3, <1>5, <1>9, <2>2, <3>1, <3>2, <3>3
    <3>5. bd[i].ready <=> c < u
      BY <1>4, <3>3 DEF InUse
    <3>6. QED
      BY <1>6, <3>3, <3>4, <3>5, Zenon
  <2>5. QED
    BY <1>1, <2>2, <2>3, <2>4 DEF InUse, BDs
<1>11. UccRing'
  BY <1>10 DEF UccRing
<1>12. UccMask' /\ UccEvent' /\ WriterServed'
  <2>1. UccMask' /\ UccEvent'
    BY <1>1 DEF UccInv, UccMask, UccEvent
  <2>2. WriterServed'
    BY <1>1 DEF UccInv, WriterServed, writeVars
  <2>3. QED
    BY <2>1, <2>2
<1>13. UccFlags'
  BY <1>1 DEF UccInv, UccFlags
<1>14. QED
  BY <1>2, <1>7, <1>11, <1>12, <1>13 DEF UccInv

\* The tasklet, CMD_SET_BREAK, and the steps of close().
LEMMA UccRest ==
  ASSUME TxWrite, UccInv, Tasklet \/ xr_break_ctl_ucc \/ rctty_release \/ xr_shutdown_ucc
  PROVE  TxWrite' /\ UccInv'
<1>1. CASE Tasklet
  <2>1. /\ UNCHANGED <<bd, tx_cur, qe_cur, uccm, ucce, cpc>> /\ uart_tasklet_action
    BY <1>1 DEF Tasklet, uccVars, bdVars
  <2>2. TxWrite' /\ (\A v \in Writers : ~Asleep(v)') /\ UNCHANGED <<head, tail, buf>>
    BY <2>1, TxTasklet
  <2>3. UccTypes' /\ UccRing' /\ UccMask' /\ UccEvent' /\ uccm' \in BOOLEAN /\ ucce' \in BOOLEAN
    BY <2>1, <2>2, UccSame
  <2>4. tlet' \in BOOLEAN
    BY <2>1 DEF uart_tasklet_action
  <2>5. WriterServed'
    BY <2>2 DEF WriterServed, Asleep
  <2>6. QED
    BY <2>2, <2>3, <2>4, <2>5 DEF UccInv, UccFlags
<1>2. CASE xr_break_ctl_ucc \/ rctty_release \/ xr_shutdown_ucc
  <2>1. UNCHANGED <<head, tail, buf, bd, tx_cur, qe_cur, ucce>> /\ UNCHANGED writeVars
    BY <1>2 DEF xr_break_ctl_ucc, rctty_release, xr_shutdown_ucc, ringVars, bdVars
  <2>2. /\ cpc' = "closed" => uccm' = FALSE
        /\ cpc' # "closed" => cpc # "closed" /\ uccm' = uccm
        /\ cpc' # "open" => \A w \in Writers : wr[w].pc = "idle"
        /\ tlet' = tlet \/ (tlet' = FALSE /\ cpc # "open")
    <3>1. CASE xr_break_ctl_ucc
      BY <3>1 DEF xr_break_ctl_ucc, bdVars
    <3>2. CASE rctty_release
      BY <3>2 DEF rctty_release, bdVars
    <3>3. CASE xr_shutdown_ucc
      BY <3>3 DEF xr_shutdown_ucc, TxWrite, TxIdle
    <3>4. QED
      BY <1>2, <3>1, <3>2, <3>3
  <2>3. TxWrite'
    <3>1. TxRing' /\ TxIdle'
      BY <2>1, <2>2 DEF TxRing, TxIdle, TxWrite, writeVars
    <3>2. TxCalls' /\ TxWaits'
      BY <2>1 DEF TxCalls, TxWaits, TxWrite, writeVars
    <3>3. QED
      BY <3>1, <3>2 DEF TxWrite
  <2>4. UccTypes' /\ UccRing'
    BY <2>1 DEF UccInv, UccTypes, UccRing, InUse, BDs
  <2>5. UccMask'
    BY <2>1, <2>2 DEF UccInv, UccMask
  <2>6. UccEvent'
    BY <2>1, <2>2 DEF UccInv, UccEvent, BDs
  <2>7. UccFlags'
    BY <2>1, <2>2 DEF UccInv, UccFlags
  <2>8. WriterServed'
    <3>1. CASE tlet' = tlet
      BY <2>1, <3>1 DEF UccInv, WriterServed, writeVars
    <3>2. CASE cpc # "open"
      BY <2>1, <3>2 DEF TxWrite, TxIdle, WriterServed, writeVars
    <3>3. QED
      BY <2>2, <3>1, <3>2
  <2>9. QED
    BY <2>3, <2>4, <2>5, <2>6, <2>7, <2>8 DEF UccInv
<1>3. QED
  BY <1>1, <1>2
-----------------------------------------------------------------------------
(***************************************************************************)
(* The DUART port.                                                         *)
(***************************************************************************)
\* What Duart!WriterServed says, in terms of this module.
LEMMA DuartServed ==
  /\ Duart!WriterServed <=>
       \A w \in Writers : Asleep(w) => (tlet \/ (thri /\ CircCnt(head, tail) >= 1))
  /\ Duart!WriterServed' <=>
       \A w \in Writers : Asleep(w)' => (tlet' \/ (thri' /\ CircCnt(head', tail') >= 1))
  BY Zenon DEF Duart!WriterServed, Duart!CircCnt, CircCnt, Asleep

\* A thread away from the port.
LEMMA DuartThread ==
  ASSUME TxWrite, DuartInv, cpc = "open", NEW w \in Writers, ioctls' = ioctls,
         Enters(w) \/ WriteStep(w) \/ SignalWriter(w), UNCHANGED Duart!duartVars
  PROVE  TxWrite' /\ DuartInv'
<1>1. UNCHANGED <<thri, rts, txFifo, out, lostTx, ipc, cpc>>
  BY DEF Duart!duartVars, Duart!portVars
<1>2. TxWrite' /\ StaysAwake /\ UNCHANGED <<head, tail, buf, tlet>>
  BY <1>1, TxThread
<1>3. DuartTypes' /\ DuartKept' /\ DuartIpc' /\ DuartRts'
  BY <1>1 DEF DuartInv, DuartTypes, DuartKept, DuartIpc, DuartRts
<1>4. DuartFlags'
  BY <1>1, <1>2 DEF DuartInv, DuartFlags
<1>5. Duart!WriterServed'
  <2>1. \A v \in Writers : Asleep(v)' => (tlet' \/ (thri' /\ CircCnt(head', tail') >= 1))
    BY <1>1, <1>2, DuartServed DEF DuartInv, StaysAwake
  <2>2. QED
    BY <2>1, DuartServed
<1>6. QED
  BY <1>2, <1>3, <1>4, <1>5 DEF DuartInv

\* write_chan() with uart_write(): RTS and the interrupt on.
LEMMA DuartWrites ==
  ASSUME TxWrite, DuartInv, cpc = "open", NEW w \in Writers, ioctls' = ioctls,
         Duart!UartWrite(w)
  PROVE  TxWrite' /\ DuartInv'
<1>1. /\ write_chan(w) /\ UNCHANGED <<txFifo, out, lostTx, tail, tlet, ipc, cpc>>
      /\ rts' = TRUE /\ thri' = TRUE
  BY SharedSteps DEF Duart!UartWrite, Duart!xr_start_tx_duart
<1>2. head \in Pos /\ tail \in Pos /\ tail' \in Pos
  BY <1>1 DEF TxWrite, TxRing
<1>3. /\ TxWrite'
      /\ CircCnt(head', tail) \in Nat /\ CircCnt(head', tail) >= CircCnt(head, tail)
      /\ \A v \in Writers : Asleep(v)' => Asleep(v) \/ CircCnt(head', tail) > 0
  BY <1>1, <1>2, TxStores
<1>4. DuartTypes' /\ DuartKept' /\ DuartIpc'
  BY <1>1 DEF DuartInv, DuartTypes, DuartKept, DuartIpc
<1>5. DuartRts' /\ DuartFlags'
  BY <1>1 DEF DuartInv, DuartRts, DuartFlags
<1>6. Duart!WriterServed'
  <2>1. CircCnt(head, tail) \in Nat
    BY <1>2, CircCounts DEF Pos
  <2>2. PICK m \in Nat, n \in Nat :
          m = CircCnt(head, tail) /\ n = CircCnt(head', tail) /\ n >= m
    BY <1>3, <2>1
  <2>3. ASSUME NEW v \in Writers, Asleep(v)', ~tlet PROVE n >= 1
    <3>1. CASE Asleep(v)
      <4>1. m >= 1
        BY <2>2, <2>3, <3>1, DuartServed, Zenon DEF DuartInv
      <4>2. QED
        BY <2>2, <4>1
    <3>2. CASE n > 0
      BY <3>2
    <3>3. QED
      BY <1>3, <2>2, <2>3, <3>1, <3>2
  <2>4. \A v \in Writers : Asleep(v)' => (tlet' \/ (thri' /\ CircCnt(head', tail') >= 1))
    BY <1>1, <2>2, <2>3
  <2>5. QED
    BY <2>4, DuartServed
<1>7. QED
  BY <1>3, <1>4, <1>5, <1>6 DEF DuartInv

\* The transmit interrupt: the FIFO has room for the burst, and the last
\* character wakes the writer.
LEMMA DuartInterrupt ==
  ASSUME TxWrite, DuartInv, ioctls' = ioctls, Duart!xr_tx_chars_duart
  PROVE  TxWrite' /\ DuartInv'
<1>1. /\ PAGE_SIZE \in Nat \ {0} /\ TxBurst \in Nat /\ TxBurst >= 1
      /\ TxTrigger \in Nat /\ TxFifoSize \in Nat /\ TxTrigger + TxBurst <= TxFifoSize
      /\ WAKEUP_CHARS \in Nat \ {0}
  BY TxSizes
<1>2. head \in Pos /\ tail \in Pos /\ buf \in [Pos -> Char] /\ txFifo \in Seq(Char)
  BY DEF TxWrite, TxRing, DuartInv, DuartTypes
<1>3. PICK n \in Pos : n = CircCnt(head, tail)
  BY <1>2, CircCounts
<1>4. n \in Nat
  BY <1>3 DEF Pos
<1>5. PICK k \in Nat : k = Duart!Burst /\ k <= n /\ k <= TxBurst /\ (n > 0 => k > 0)
  <2>1. Duart!Burst = IF TxBurst < n THEN TxBurst ELSE n
    BY <1>3 DEF Duart!Burst, Duart!Less, Duart!CircCnt, CircCnt
  <2>2. QED
    BY <1>1, <1>4, <2>1
<1>6. PICK s : s = Pending(buf, head, tail)
  OBVIOUS
<1>7. s \in Seq(Char) /\ Len(s) = n
  BY <1>2, <1>3, <1>6, PendingText
<1>8. PICK moved : moved = SubSeq(s, 1, k)
  OBVIOUS
<1>9. moved \in Seq(Char) /\ Len(moved) = k
  BY <1>4, <1>5, <1>7, <1>8
<1>10. PICK l \in Nat : l = Len(txFifo)
  BY <1>2
<1>11. PICK room : room = Duart!Less(k, TxFifoSize - l)
  OBVIOUS
<1>12. PICK fifo : fifo = txFifo \o SubSeq(moved, 1, room)
  OBVIOUS
<1>13. PICK left \in Nat : left = n - k
  BY <1>4, <1>5
<1>14. Duart!Pending(buf, head, tail) = s
  BY <1>6, Zenon DEF Duart!Pending, Duart!CircCnt, Pending, CircCnt
<1>15. /\ thri /\ l <= TxTrigger /\ cpc # "closed"
       /\ tail' = Advance(tail, k)
       /\ lostTx' = lostTx \union {moved[i] : i \in room + 1 .. k}
       /\ tlet' = (tlet \/ (k > 0 /\ Duart!Wakes(left)))
       /\ IF left = 0
            THEN Duart!xr_stop_tx_duart(fifo)
            ELSE txFifo' = fifo /\ UNCHANGED <<thri, rts, out>>
       /\ UNCHANGED <<head, buf, writeVars, ipc, cpc>>
  BY <1>3, <1>5, <1>8, <1>10, <1>11, <1>12, <1>13, <1>14, Zenon
     DEF Duart!xr_tx_chars_duart, Duart!Advance, Advance, Duart!CircCnt, CircCnt, Duart!writeVars,
         writeVars
<1>16. room = k
  BY <1>1, <1>5, <1>11, <1>15 DEF Duart!Less
<1>17. lostTx' = lostTx
  <2>1. room + 1 .. k = {}
    BY <1>16
  <2>2. QED
    BY <1>15, <2>1
<1>18. tail' \in Pos /\ CircCnt(head, tail') = left
  BY <1>2, <1>3, <1>5, <1>13, <1>15, CircTake
<1>19. TxWrite'
  <2>1. TxRing' /\ TxIdle'
    BY <1>2, <1>15, <1>18 DEF TxRing, TxIdle, TxWrite, writeVars, Pos
  <2>2. TxCalls' /\ TxWaits'
    BY <1>15 DEF TxCalls, TxWaits, TxWrite, writeVars
  <2>3. QED
    BY <2>1, <2>2 DEF TxWrite
<1>20. DuartTypes'
  <2>1. fifo \in Seq(Char)
    BY <1>2, <1>5, <1>9, <1>12, <1>16
  <2>2. txFifo' = <<>> \/ txFifo' = fifo
    BY <1>15, Zenon DEF Duart!xr_stop_tx_duart
  <2>3. <<>> \in Seq(Char)
    OBVIOUS
  <2>4. txFifo' \in Seq(Char)
    BY <2>1, <2>2, <2>3
  <2>5. QED
    BY <1>15, <2>4 DEF DuartTypes, DuartInv
<1>21. DuartKept' /\ DuartIpc'
  BY <1>15, <1>17 DEF DuartKept, DuartIpc, DuartInv
<1>22. DuartRts'
  BY <1>15 DEF DuartRts, DuartInv, Duart!xr_stop_tx_duart
<1>23. DuartFlags'
  <2>1. tlet' \in BOOLEAN
    BY <1>15 DEF DuartFlags, DuartInv
  <2>2. QED
    BY <1>15, <2>1 DEF DuartFlags, DuartInv, Duart!xr_stop_tx_duart
<1>24. Duart!WriterServed'
  <2>1. ASSUME NEW v \in Writers, Asleep(v)' PROVE tlet' \/ (thri' /\ left >= 1)
    <3>1. Asleep(v)
      BY <1>15, <2>1 DEF Asleep, writeVars
    <3>2. tlet \/ n >= 1
      BY <1>3, <3>1, DuartServed DEF DuartInv
    <3>3. tlet => tlet'
      BY <1>15
    <3>4. CASE left = 0 /\ n >= 1
      <4>1. k > 0 /\ Duart!Wakes(left)
        BY <1>1, <1>4, <1>5, <3>4 DEF Duart!Wakes
      <4>2. QED
        BY <1>15, <4>1
    <3>5. CASE left # 0
      <4>1. thri' = thri
        BY <1>15, <3>5
      <4>2. left >= 1
        BY <3>5
      <4>3. QED
        BY <1>15, <4>1, <4>2
    <3>6. QED
      BY <3>2, <3>3, <3>4, <3>5
  <2>2. CircCnt(head', tail') = left
    BY <1>15, <1>18
  <2>3. QED
    BY <2>1, <2>2, DuartServed
<1>25. QED
  BY <1>19, <1>20, <1>21, <1>22, <1>23, <1>24 DEF DuartInv

\* The transmitter, CMD_SET_INTERFACE, and the steps of close().
LEMMA DuartRest ==
  ASSUME TxWrite, DuartInv, ioctls' = ioctls, ~ioctls => UNCHANGED ipc,
         \/ Duart!ShiftOut \/ Duart!xr_enable_485_duart \/ Duart!WaitTemt
         \/ Duart!xr_disable_485_duart \/ Duart!rctty_release \/ Duart!ShutdownRts
         \/ Duart!xr_shutdown_duart
  PROVE  TxWrite' /\ DuartInv'
<1>1. UNCHANGED <<head, tail, buf>> /\ UNCHANGED writeVars
  BY DEF Duart!ShiftOut, Duart!xr_enable_485_duart, Duart!WaitTemt, Duart!xr_disable_485_duart,
     Duart!rctty_release, Duart!ShutdownRts, Duart!xr_shutdown_duart, Duart!ringVars,
     Duart!writeVars, writeVars
<1>2. /\ cpc' # "open" => \A w \in Writers : wr[w].pc = "idle"
      /\ cpc' # "closed" => cpc # "closed" /\ lostTx' = lostTx
      /\ (tlet' = tlet /\ thri' = thri) \/ (tlet' = FALSE /\ thri' = FALSE /\ cpc # "open")
      /\ cpc' = "open" => cpc = "open"
  <2>1. CASE \/ Duart!ShiftOut \/ Duart!xr_enable_485_duart \/ Duart!WaitTemt
             \/ Duart!xr_disable_485_duart
    BY <2>1 DEF Duart!ShiftOut, Duart!xr_enable_485_duart, Duart!WaitTemt,
       Duart!xr_disable_485_duart, Duart!portVars, TxWrite, TxIdle
  <2>2. CASE Duart!rctty_release \/ Duart!ShutdownRts
    BY <2>2 DEF Duart!rctty_release, Duart!ShutdownRts, Duart!portVars, TxWrite, TxIdle
  <2>3. CASE Duart!xr_shutdown_duart
    BY <2>3 DEF Duart!xr_shutdown_duart, TxWrite, TxIdle
  <2>4. QED
    BY <2>1, <2>2, <2>3
<1>3. TxWrite'
  <2>1. TxRing' /\ TxIdle'
    BY <1>1, <1>2 DEF TxRing, TxIdle, TxWrite, writeVars
  <2>2. TxCalls' /\ TxWaits'
    BY <1>1 DEF TxCalls, TxWaits, TxWrite, writeVars
  <2>3. QED
    BY <2>1, <2>2 DEF TxWrite
<1>4. DuartTypes'
  <2>1. txFifo' \in Seq(Char)
    <3>1. txFifo \in Seq(Char)
      BY DEF DuartInv, DuartTypes
    <3>2. txFifo # <<>> => Tail(txFifo) \in Seq(Char)
      BY <3>1
    <3>3. \/ txFifo' = txFifo \/ txFifo' = <<>> \/ (txFifo # <<>> /\ txFifo' = Tail(txFifo))
      BY DEF Duart!ShiftOut, Duart!xr_enable_485_duart, Duart!WaitTemt,
         Duart!xr_disable_485_duart, Duart!rctty_release, Duart!ShutdownRts,
         Duart!xr_shutdown_duart, Duart!portVars
    <3>4. <<>> \in Seq(Char)
      OBVIOUS
    <3>5. QED
      BY <3>1, <3>2, <3>3, <3>4
  <2>2. ipc' \in {"none", "mcr"}
    BY DEF Duart!ShiftOut, Duart!xr_enable_485_duart, Duart!WaitTemt,
       Duart!xr_disable_485_duart, Duart!rctty_release, Duart!ShutdownRts,
       Duart!xr_shutdown_duart, DuartInv, DuartTypes
  <2>3. QED
    BY <2>1, <2>2 DEF DuartTypes
<1>5. DuartKept' /\ DuartIpc'
  BY <1>2 DEF DuartInv, DuartKept, DuartIpc
<1>6. DuartFlags'
  <2>1. rts' \in BOOLEAN
    BY DEF Duart!ShiftOut, Duart!xr_enable_485_duart, Duart!WaitTemt,
       Duart!xr_disable_485_duart, Duart!rctty_release, Duart!ShutdownRts,
       Duart!xr_shutdown_duart, Duart!portVars, DuartInv, DuartFlags
  <2>2. QED
    BY <1>2, <2>1 DEF DuartInv, DuartFlags
<1>7. DuartRts'
  <2>1. SUFFICES ASSUME cpc' = "open", ~ioctls PROVE (thri' \/ txFifo' # <<>>) => rts'
    BY DEF DuartRts
  <2>2. cpc = "open" /\ ipc' = ipc /\ ipc = "none" /\ thri' = thri
    BY <1>2, <2>1 DEF DuartInv, DuartIpc
  <2>3. (thri \/ txFifo # <<>>) => rts
    BY <2>1, <2>2 DEF DuartInv, DuartRts
  <2>4. CASE Duart!ShiftOut
    BY <2>2, <2>3, <2>4 DEF Duart!ShiftOut
  <2>5. CASE Duart!xr_enable_485_duart
    BY <2>5 DEF Duart!xr_enable_485_duart
  <2>6. ~(Duart!WaitTemt \/ Duart!xr_disable_485_duart \/ Duart!ShutdownRts)
    BY <2>1, <2>2 DEF Duart!WaitTemt, Duart!xr_disable_485_duart, Duart!ShutdownRts
  <2>7. ~(Duart!rctty_release \/ Duart!xr_shutdown_duart)
    BY <2>1, <2>2 DEF Duart!rctty_release, Duart!xr_shutdown_duart
  <2>8. QED
    BY <2>4, <2>5, <2>6, <2>7
<1>8. Duart!WriterServed'
  <2>1. ASSUME NEW v \in Writers, Asleep(v)'
        PROVE  tlet' \/ (thri' /\ CircCnt(head', tail') >= 1)
    <3>1. Asleep(v) /\ cpc = "open"
      BY <1>1, <2>1 DEF Asleep, writeVars, TxWrite, TxIdle
    <3>2. tlet \/ (thri /\ CircCnt(head, tail) >= 1)
      BY <3>1, DuartServed DEF DuartInv
    <3>3. QED
      BY <1>1, <1>2, <3>1, <3>2
  <2>2. QED
    BY <2>1, DuartServed
<1>9. QED
  BY <1>3, <1>4, <1>5, <1>6, <1>7, <1>8 DEF DuartInv

LEMMA DuartTasklet ==
  ASSUME TxWrite, DuartInv, ioctls' = ioctls, Duart!Tasklet
  PROVE  TxWrite' /\ DuartInv'
<1>1. UNCHANGED <<thri, rts, txFifo, lostTx, ipc, cpc>> /\ uart_tasklet_action
  BY Zenon DEF Duart!Tasklet, Duart!uart_tasklet_action, uart_tasklet_action, Duart!ringVars,
     ringVars, Duart!duartVars, Duart!portVars
<1>2. TxWrite' /\ (\A v \in Writers : ~Asleep(v)') /\ UNCHANGED <<head, tail, buf>>
  BY <1>1, TxTasklet
<1>3. DuartTypes' /\ DuartKept' /\ DuartIpc' /\ DuartRts'
  BY <1>1 DEF DuartInv, DuartTypes, DuartKept, DuartIpc, DuartRts
<1>4. DuartFlags'
  BY <1>1 DEF DuartInv, DuartFlags, uart_tasklet_action
<1>5. Duart!WriterServed'
  BY <1>2, DuartServed
<1>6. QED
  BY <1>2, <1>3, <1>4, <1>5 DEF DuartInv
-----------------------------------------------------------------------------
(***************************************************************************)
(* Both ports.                                                             *)
(***************************************************************************)
LEMMA TxInitial ==
  ASSUME MCInit
  PROVE  TxInv
<1>1. InitWrite /\ cpc = "open" /\ ioctls \in BOOLEAN /\ port \in {"ucc", "duart"}
  BY DEF MCInit, Init, Duart!Init, InitWrite, Duart!InitWrite, IdleW, Duart!IdleW, NoByte,
     Duart!NoByte
<1>2. TxWrite
  <2>1. TxRing
    BY <1>1, TxSizes DEF InitWrite, TxRing, Pos, Char, NoByte
  <2>2. TxCalls
    BY <1>1, IdleFits DEF InitWrite, TxCalls
  <2>3. \A w \in Writers : wr[w].pc = "idle"
    BY <1>1 DEF InitWrite, IdleW
  <2>4. TxWaits /\ TxIdle
    BY <2>3 DEF TxWaits, TxIdle, InChunk
  <2>5. QED
    BY <2>1, <2>2, <2>4 DEF TxWrite
<1>3. \A w \in Writers : ~Asleep(w)
  BY <1>1 DEF InitWrite, IdleW, Asleep
<1>4. CASE port = "ucc"
  <2>1. Init
    BY <1>4 DEF MCInit
  <2>2. TX_NUM_FIFO \in Nat \ {0}
    BY TxSizes
  <2>3. UccTypes /\ UccFlags
    <3>1. [ready |-> FALSE, data |-> <<>>] \in Descriptor
      BY DEF Descriptor
    <3>2. UccTypes
      BY <2>1, <2>2, <3>1 DEF Init, UccTypes, BDs
    <3>3. QED
      BY <1>1, <2>1, <3>2 DEF Init, InitWrite, UccFlags
  <2>4. InUse(0)
    <3>1. ASSUME NEW i \in BDs PROVE ~(bd[i].ready) /\ ~((i - qe_cur) % TX_NUM_FIFO < 0)
      <4>1. ~(bd[i].ready)
        BY <2>1 DEF Init
      <4>2. PICK d \in Int : d = i - qe_cur
        BY <2>1 DEF Init, BDs
      <4>3. d % TX_NUM_FIFO >= 0
        BY <2>2
      <4>4. d % TX_NUM_FIFO \in Int
        BY <2>2
      <4>5. QED
        BY <4>1, <4>2, <4>3, <4>4
    <3>2. tx_cur = (qe_cur + 0) % TX_NUM_FIFO
      BY <2>1, <2>2 DEF Init
    <3>3. QED
      BY <3>1, <3>2 DEF InUse
  <2>5. UccRing
    BY <2>2, <2>4 DEF UccRing
  <2>6. UccMask /\ UccEvent
    BY <1>1, <2>1 DEF Init, InitWrite, UccMask, UccEvent
  <2>7. WriterServed
    BY <1>3 DEF WriterServed, Asleep
  <2>8. QED
    BY <1>1, <1>2, <1>4, <2>3, <2>5, <2>6, <2>7 DEF TxInv, UccInv
<1>5. CASE port = "duart"
  <2>1. Duart!Init
    BY <1>5 DEF MCInit
  <2>2. txFifo = <<>> /\ ipc = "none" /\ thri = FALSE /\ rts = FALSE /\ lostTx = {}
    BY <2>1 DEF Duart!Init
  <2>3. DuartTypes /\ DuartKept /\ DuartIpc
    BY <2>2 DEF DuartTypes, DuartKept, DuartIpc
  <2>4. DuartFlags /\ DuartRts
    BY <1>1, <2>2 DEF DuartFlags, DuartRts, InitWrite
  <2>5. Duart!WriterServed
    BY <1>3, DuartServed
  <2>6. QED
    BY <1>1, <1>2, <1>5, <2>3, <2>4, <2>5 DEF TxInv, DuartInv
<1>6. QED
  BY <1>1, <1>4, <1>5

LEMMA TxNext ==
  ASSUME TxInv, [MCNext]_MCvars
  PROVE  TxInv'
<1>1. CASE OnUcc(Next)
  <2>1. port = "ucc" /\ port' = port /\ ioctls' = ioctls /\ Next
    BY <1>1 DEF OnUcc, choice
  <2>2. TxWrite /\ UccInv
    BY <2>1 DEF TxInv
  <2>3. TxWrite' /\ UccInv'
    <3>1. CASE \E w \in Writers : Thread(w)
      <4>1. PICK w \in Writers : Thread(w)
        BY <3>1
      <4>2. cpc = "open"
        BY <4>1 DEF Thread
      <4>3. CASE (rctty_write(w) \/ WriteStep(w) \/ SignalWriter(w)) /\ UNCHANGED uccVars
        BY <2>2, <4>2, <4>3, SharedSteps, UccThread
      <4>4. CASE UartWrite(w)
        BY <2>2, <4>2, <4>4, UccWrites
      <4>5. QED
        BY <4>1, <4>3, <4>4 DEF Thread
    <3>2. QED
      BY <2>1, <2>2, <3>1, UccInterrupt, UccSends, UccRest DEF Next
  <2>4. QED
    BY <2>1, <2>3 DEF TxInv
<1>2. CASE OnDuart(Duart!Next) /\ (~ioctls => UNCHANGED <<stopped, ipc>>)
  <2>1. /\ port = "duart" /\ port' = port /\ ioctls' = ioctls /\ Duart!Next
        /\ ~ioctls => UNCHANGED ipc
    BY <1>2 DEF OnDuart, choice
  <2>2. TxWrite /\ DuartInv
    BY <2>1 DEF TxInv
  <2>3. TxWrite' /\ DuartInv'
    <3>1. CASE \E w \in Writers : Duart!Thread(w)
      <4>1. PICK w \in Writers : Duart!Thread(w)
        BY <3>1
      <4>2. cpc = "open"
        BY <4>1 DEF Duart!Thread
      <4>3. CASE /\ Duart!rctty_write(w) \/ Duart!WriteStep(w) \/ Duart!SignalWriter(w)
                 /\ UNCHANGED Duart!duartVars
        BY <2>1, <2>2, <4>2, <4>3, SharedSteps, DuartThread
      <4>4. CASE Duart!UartWrite(w)
        BY <2>1, <2>2, <4>2, <4>4, DuartWrites
      <4>5. QED
        BY <4>1, <4>3, <4>4 DEF Duart!Thread
    <3>2. QED
      BY <2>1, <2>2, <3>1, DuartInterrupt, DuartTasklet, DuartRest
         DEF Duart!Next, Duart!Ioctl, Duart!Close
  <2>4. QED
    BY <2>1, <2>3 DEF TxInv
<1>3. CASE UNCHANGED MCvars
  <2>1. /\ UNCHANGED <<head, tail, buf, tlet, bd, tx_cur, qe_cur, uccm, ucce, cpc>>
        /\ UNCHANGED <<write_wait, write_cnt, wr, returned>>
        /\ UNCHANGED <<thri, rts, txFifo, lostTx, ipc, port, ioctls>>
    BY <1>3 DEF MCvars, vars, ringVars, writeVars, uccVars, bdVars, duartOnly, choice
  <2>2. TxWrite'
    <3>1. TxRing' /\ TxIdle'
      BY <2>1 DEF TxInv, TxRing, TxIdle, TxWrite
    <3>2. TxCalls' /\ TxWaits'
      BY <2>1 DEF TxInv, TxCalls, TxWaits, TxWrite
    <3>3. QED
      BY <3>1, <3>2 DEF TxWrite
  <2>3. port = "ucc" => UccInv'
    <3>1. SUFFICES ASSUME UccInv PROVE UccInv'
      BY DEF TxInv
    <3>2. UccTypes' /\ UccRing' /\ UccMask' /\ UccEvent'
      BY <2>1, <3>1, UccSame
    <3>3. UccFlags' /\ WriterServed'
      BY <2>1, <3>1 DEF UccInv, UccFlags, WriterServed
    <3>4. QED
      BY <3>2, <3>3 DEF UccInv
  <2>4. port = "duart" => DuartInv'
    <3>1. SUFFICES ASSUME DuartInv PROVE DuartInv'
      BY DEF TxInv
    <3>2. DuartTypes' /\ DuartKept' /\ DuartIpc' /\ DuartRts'
      BY <2>1, <3>1 DEF DuartInv, DuartTypes, DuartKept, DuartIpc, DuartRts
    <3>3. DuartFlags'
      BY <2>1, <3>1 DEF DuartInv, DuartFlags
    <3>4. \A v \in Writers : Asleep(v)' => Asleep(v)
      BY <2>1 DEF Asleep
    <3>5. Duart!WriterServed'
      BY <2>1, <3>1, <3>4, DuartServed DEF DuartInv
    <3>6. QED
      BY <3>2, <3>3, <3>5 DEF DuartInv
  <2>5. QED
    BY <2>1, <2>2, <2>3, <2>4 DEF TxInv
<1>4. QED
  BY <1>1, <1>2, <1>3 DEF MCNext

LEMMA TxAlways == MCSpec => []TxInv
<1>1. MCSpec => MCInit /\ [][MCNext]_MCvars
  BY PTL DEF MCSpec
<1>2. MCInit => TxInv
  BY TxInitial
<1>3. TxInv /\ [MCNext]_MCvars => TxInv'
  BY TxNext
<1>4. QED
  BY <1>1, <1>2, <1>3, PTL
-----------------------------------------------------------------------------
\* Neither port overruns its hardware: the descriptors of a UCC to be sent are
\* the ones between the engine and the driver (qe_uart_tx_pump), and a burst
\* of the transmit interrupt fits the FIFO of a DUART (xr_tx_chars_duart).
THEOREM HardwareNeverOverrun == MCSpec => []MCNoOverrun
<1>1. ASSUME TxInv PROVE MCNoOverrun
  <2>1. port = "ucc" => RingsAgree
    <3>1. SUFFICES ASSUME UccInv, NEW i \in BDs
                   PROVE  bd[i].ready <=>
                            \/ qe_cur = tx_cur /\ bd[qe_cur].ready
                            \/ (i - qe_cur) % TX_NUM_FIFO < (tx_cur - qe_cur) % TX_NUM_FIFO
      BY <1>1 DEF TxInv, RingsAgree
    <3> DEFINE N == TX_NUM_FIFO
    <3>2. /\ N \in Nat \ {0} /\ qe_cur \in 0 .. N - 1 /\ tx_cur \in 0 .. N - 1
          /\ BDs = 0 .. N - 1
      BY <3>1, TxSizes DEF UccInv, UccTypes, BDs
    <3>3. PICK u \in 0 .. N : InUse(u)
      BY <3>1 DEF UccInv, UccRing
    <3>4. tx_cur = IF qe_cur + u < N THEN qe_cur + u ELSE qe_cur + u - N
      BY <3>2, <3>3, RingForward, Zenon DEF InUse
    <3>5. (i - qe_cur) % N = IF i >= qe_cur THEN i - qe_cur ELSE i - qe_cur + N
      BY <3>2, RingDistance, Zenon
    <3>6. (tx_cur - qe_cur) % N = IF tx_cur >= qe_cur THEN tx_cur - qe_cur ELSE tx_cur - qe_cur + N
      BY <3>2, RingDistance, Zenon
    <3>7. (qe_cur - qe_cur) % N = 0
      <4>1. qe_cur - qe_cur = 0 /\ 0 % N = 0
        BY <3>2
      <4>2. QED
        BY <4>1
    <3>8. PICK c \in Int, d \in Int : c = (i - qe_cur) % N /\ d = (tx_cur - qe_cur) % N
      BY <3>2, <3>5, <3>6
    <3>9. bd[i].ready <=> c < u
      BY <3>3, <3>8 DEF InUse
    <3>10. bd[qe_cur].ready <=> 0 < u
      BY <3>2, <3>3, <3>7 DEF InUse
    <3>11. c < u <=> ((qe_cur = tx_cur /\ 0 < u) \/ c < d)
      BY <3>2, <3>4, <3>5, <3>6, <3>8
    <3>12. QED
      BY <3>8, <3>9, <3>10, <3>11, Zenon
  <2>2. port = "duart" /\ cpc # "closed" => Duart!NoTxLoss
    BY <1>1 DEF TxInv, DuartInv, DuartKept, Duart!NoTxLoss
  <2>3. QED
    BY <2>1, <2>2 DEF MCNoOverrun
<1>2. QED
  BY <1>1, TxAlways, PTL

\* Whoever waits on a port has an event coming: characters in the buffer of a
\* UCC an enabled interrupt with a descriptor or an event behind it
\* (xr_start_tx_ucc, qe_uart_stop_tx), and a thread asleep in write_chan() the
\* tasklet or an interrupt that will schedule it.
THEOREM PumpAlwaysComesBack == MCSpec => []MCPumpComesBack
<1>1. ASSUME TxInv PROVE MCPumpComesBack
  <2>1. CASE port = "ucc"
    <3>1. UccInv
      BY <1>1, <2>1 DEF TxInv
    <3>2. PumpComesBack
      BY <3>1 DEF UccInv, UccMask, UccEvent, PumpComesBack
    <3>3. QED
      BY <2>1, <3>1, <3>2 DEF UccInv, MCPumpComesBack
  <2>2. CASE port = "duart"
    BY <1>1, <2>2 DEF TxInv, DuartInv, MCPumpComesBack
  <2>3. QED
    BY <1>1, <2>1, <2>2 DEF TxInv
<1>2. QED
  BY <1>1, TxAlways, PTL

\* RTS is up while characters leave a DUART (xr_start_tx_duart raises it and
\* xr_stop_tx_duart waits for TEMT), as long as neither CMD_SET_INTERFACE nor
\* close() drops it.
THEOREM RtsAlwaysWhileSending == MCSpec => []MCRtsWhileSending
<1>1. ASSUME TxInv PROVE MCRtsWhileSending
  BY <1>1 DEF TxInv, DuartInv, DuartRts, MCRtsWhileSending, Duart!RtsWhileSending
<1>2. QED
  BY <1>1, TxAlways, PTL

\* A chunk of write() never exceeds write_buf, which rctty_write() keeps from
\* call to call and only replaces by a longer one.
THEOREM ChunkAlwaysFits == MCSpec => []ChunkFits
<1>1. ASSUME TxInv PROVE ChunkFits
  BY <1>1 DEF TxInv, TxWrite, TxCalls, WriterFits, ChunkFits
<1>2. QED
  BY <1>1, TxAlways, PTL
-----------------------------------------------------------------------------
(***************************************************************************)
(* Texts, and the circular buffer as one.                                  *)
(***************************************************************************)
\* Texts joined, as an operator of its own: lemmas about it are easier to cite.
Cat(a, b) == a \o b

LEMMA CatAssoc ==
  ASSUME NEW T, NEW a \in Seq(T), NEW b \in Seq(T), NEW c \in Seq(T)
  PROVE  (a \o b) \o c = a \o (b \o c)
  OBVIOUS

\* A text is what comes before a place and what comes after it.
LEMMA CatSplit ==
  ASSUME NEW T, NEW s \in Seq(T), NEW k \in 0 .. Len(s)
  PROVE  /\ SubSeq(s, 1, k) \in Seq(T) /\ Len(SubSeq(s, 1, k)) = k
         /\ SubSeq(s, k + 1, Len(s)) \in Seq(T) /\ Len(SubSeq(s, k + 1, Len(s))) = Len(s) - k
         /\ SubSeq(s, 1, k) \o SubSeq(s, k + 1, Len(s)) = s
<1>1. PICK a : a = SubSeq(s, 1, k)
  OBVIOUS
<1>2. PICK b : b = SubSeq(s, k + 1, Len(s))
  OBVIOUS
<1>3. a \in Seq(T) /\ Len(a) = k /\ \A i \in 1 .. k : a[i] = s[i]
  BY <1>1
<1>4. b \in Seq(T) /\ Len(b) = Len(s) - k /\ \A i \in 1 .. Len(s) - k : b[i] = s[k + i]
  BY <1>2
<1>5. PICK c : c = a \o b
  OBVIOUS
<1>6. c \in Seq(T) /\ Len(c) = Len(s)
  <2>1. c \in Seq(T) /\ Len(c) = Len(a) + Len(b)
    BY <1>3, <1>4, <1>5, ConcatProperties
  <2>2. QED
    BY <1>3, <1>4, <2>1
<1>7. ASSUME NEW i \in 1 .. Len(s) PROVE c[i] = s[i]
  <2>1. CASE i <= k
    BY <1>3, <1>4, <1>5, <2>1
  <2>2. CASE i > k
    <3>1. PICK j \in 1 .. Len(s) - k : j = i - k
      BY <2>2
    <3>2. c[i] = b[j]
      BY <1>3, <1>4, <1>5, <2>2, <3>1
    <3>3. b[j] = s[i]
      BY <1>4, <3>1
    <3>4. QED
      BY <3>2, <3>3
  <2>3. QED
    BY <2>1, <2>2
<1>8. c = s
  BY <1>6, <1>7
<1>9. QED
  BY <1>1, <1>2, <1>3, <1>4, <1>5, <1>8

\* The place of a character of the circular buffer.
LEMMA PendingPlace ==
  ASSUME NEW b \in [Pos -> Char], NEW h \in Pos, NEW t \in Pos, NEW i \in 1 .. CircCnt(h, t)
  PROVE  LET p == IF t + i - 1 < PAGE_SIZE THEN t + i - 1 ELSE t + i - 1 - PAGE_SIZE
         IN  p \in Pos /\ Pending(b, h, t)[i] = b[p]
<1>1. PICK n \in Nat : n = CircCnt(h, t) /\ n < PAGE_SIZE
  <2>1. PICK m \in Pos : m = CircCnt(h, t)
    BY CircCounts
  <2>2. m \in Nat /\ m < PAGE_SIZE
    BY TxSizes DEF Pos
  <2>3. QED
    BY <2>1, <2>2
<1>2. PICK j \in 0 .. PAGE_SIZE : j = i - 1 /\ j < PAGE_SIZE /\ i = j + 1
  BY <1>1, TxSizes
<1>3. PAGE_SIZE \in Nat \ {0} /\ t \in 0 .. PAGE_SIZE - 1
  BY TxSizes DEF Pos
<1>4. (t + j) % PAGE_SIZE = IF t + j < PAGE_SIZE THEN t + j ELSE t + j - PAGE_SIZE
  BY <1>3, RingForward, Zenon
<1>5. t + i - 1 = t + j
  BY <1>2, <1>3
<1>6. Pending(b, h, t)[i] = b[(t + i - 1) % PAGE_SIZE]
  BY DEF Pending
<1>7. PICK p : p = (t + j) % PAGE_SIZE
  OBVIOUS
<1>8. p \in Pos
  BY <1>2, <1>3, <1>4, <1>7 DEF Pos
<1>9. QED
  BY <1>4, <1>5, <1>6, <1>7, <1>8

\* Taking k characters leaves the ones behind them.
LEMMA PendingTake ==
  ASSUME NEW b \in [Pos -> Char], NEW h \in Pos, NEW t \in Pos,
         NEW k \in 0 .. CircCnt(h, t)
  PROVE  Pending(b, h, Advance(t, k)) = SubSeq(Pending(b, h, t), k + 1, CircCnt(h, t))
<1>0. PAGE_SIZE \in Nat \ {0}
  BY TxSizes
<1>1. PICK n \in Nat : n = CircCnt(h, t) /\ n < PAGE_SIZE
  <2>1. PICK m \in Pos : m = CircCnt(h, t)
    BY CircCounts
  <2>2. m \in Nat /\ m < PAGE_SIZE
    BY TxSizes DEF Pos
  <2>3. QED
    BY <2>1, <2>2
<1>2. k \in Nat /\ k <= n
  BY <1>1
<1>3. PICK g \in Pos : g = Advance(t, k)
  BY <1>1, <1>2, CircTake
<1>4. CircCnt(h, g) = n - k
  BY <1>1, <1>2, <1>3, CircTake
<1>5. k \in 0 .. PAGE_SIZE /\ t \in 0 .. PAGE_SIZE - 1
  BY <1>0, <1>1, <1>2 DEF Pos
<1>6. g = IF t + k < PAGE_SIZE THEN t + k ELSE t + k - PAGE_SIZE
  BY <1>0, <1>3, <1>5, RingForward, Zenon DEF Advance
<1>7. PICK s : s = Pending(b, h, t)
  OBVIOUS
<1>8. s \in Seq(Char) /\ Len(s) = n
  BY <1>1, <1>7, PendingText
<1>9. PICK r : r = Pending(b, h, g)
  OBVIOUS
<1>10. r \in Seq(Char) /\ Len(r) = n - k
  BY <1>4, <1>9, PendingText
<1>11. PICK q : q = SubSeq(s, k + 1, n)
  OBVIOUS
<1>12. q \in Seq(Char) /\ Len(q) = n - k /\ \A i \in 1 .. n - k : q[i] = s[k + i]
  BY <1>2, <1>8, <1>11
<1>13. ASSUME NEW i \in 1 .. n - k PROVE r[i] = q[i]
  <2>1. PICK p \in Pos : /\ p = IF g + i - 1 < PAGE_SIZE THEN g + i - 1 ELSE g + i - 1 - PAGE_SIZE
                         /\ r[i] = b[p]
    <3>1. i \in 1 .. CircCnt(h, g)
      BY <1>4
    <3>2. QED
      BY <1>9, <3>1, PendingPlace
  <2>2. PICK m \in 1 .. n : m = k + i
    BY <1>2
  <2>3. PICK o \in Pos : /\ o = IF t + m - 1 < PAGE_SIZE THEN t + m - 1 ELSE t + m - 1 - PAGE_SIZE
                         /\ s[m] = b[o]
    <3>1. m \in 1 .. CircCnt(h, t)
      BY <1>1
    <3>2. QED
      BY <1>7, <3>1, PendingPlace
  <2>4. o = p
    BY <1>0, <1>1, <1>2, <1>5, <1>6, <2>1, <2>2, <2>3
  <2>5. q[i] = s[m]
    BY <1>12, <2>2
  <2>6. QED
    BY <2>1, <2>3, <2>4, <2>5
<1>14. r = q
  BY <1>10, <1>12, <1>13
<1>15. QED
  BY <1>1, <1>3, <1>7, <1>9, <1>11, <1>14

\* The characters d + 1 to d + k of call c.
Bytes(c, d, k) == [i \in 1 .. k |-> <<c, d + i>>]

StoredIn(b2, b, h, c, d, k) ==
  b2 = [p \in Pos |-> IF (p - h) % PAGE_SIZE < k
                      THEN <<c, d + ((p - h) % PAGE_SIZE) + 1>> ELSE b[p]]

\* Storing k characters puts them behind the others.
LEMMA PendingStore ==
  ASSUME NEW b \in [Pos -> Char], NEW h \in Pos, NEW t \in Pos,
         NEW k \in 0 .. CircSpace(h, t), NEW c \in Nat, NEW d \in Nat,
         NEW b2, StoredIn(b2, b, h, c, d, k)
  PROVE  /\ b2 \in [Pos -> Char]
         /\ Bytes(c, d, k) \in Seq(Char) /\ Len(Bytes(c, d, k)) = k
         /\ Pending(b2, Advance(h, k), t) = Cat(Pending(b, h, t), Bytes(c, d, k))
<1> b2 = [p \in Pos |-> IF (p - h) % PAGE_SIZE < k
                        THEN <<c, d + ((p - h) % PAGE_SIZE) + 1>> ELSE b[p]]
  BY Zenon DEF StoredIn
<1>0. PAGE_SIZE \in Nat \ {0} /\ h \in 0 .. PAGE_SIZE - 1 /\ t \in 0 .. PAGE_SIZE - 1
  BY TxSizes DEF Pos
<1>1. PICK n \in Nat : /\ n = CircCnt(h, t) /\ n < PAGE_SIZE
                       /\ n = IF h >= t THEN h - t ELSE h - t + PAGE_SIZE
                       /\ CircSpace(h, t) = PAGE_SIZE - 1 - n
  <2>1. PICK n \in Pos : n = CircCnt(h, t)
    BY CircCounts
  <2>2. n = IF h >= t THEN h - t ELSE h - t + PAGE_SIZE
    BY <2>1, CircCounts
  <2>3. CircSpace(h, t) = PAGE_SIZE - 1 - n
    BY <2>1, CircCounts
  <2>4. n \in Nat /\ n < PAGE_SIZE
    BY <1>0, <2>1 DEF Pos
  <2>5. QED
    BY <2>1, <2>2, <2>3, <2>4
<1>2. k \in Nat /\ k <= CircSpace(h, t) /\ k <= PAGE_SIZE - 1 - n
  BY <1>0, <1>1
<1>3. PICK g \in Pos : g = Advance(h, k)
  BY <1>2, CircStore
<1>4. CircCnt(g, t) = n + k
  <2>1. CircCnt(Advance(h, k), t) = CircCnt(h, t) + k
    BY <1>2, CircStore
  <2>2. QED
    BY <1>1, <1>3, <2>1
<1>5. ASSUME NEW p \in Pos
      PROVE  /\ (p - h) % PAGE_SIZE \in Nat
             /\ (p - h) % PAGE_SIZE = IF p >= h THEN p - h ELSE p - h + PAGE_SIZE
  <2>1. p \in 0 .. PAGE_SIZE - 1
    BY DEF Pos
  <2>2. (p - h) % PAGE_SIZE = IF p >= h THEN p - h ELSE p - h + PAGE_SIZE
    BY <1>0, <2>1, RingDistance, Zenon
  <2>3. QED
    BY <1>0, <2>1, <2>2
<1>6. b2 \in [Pos -> Char]
  <2>1. ASSUME NEW p \in Pos
        PROVE  (IF (p - h) % PAGE_SIZE < k THEN <<c, d + ((p - h) % PAGE_SIZE) + 1>> ELSE b[p]) \in Char
    <3>1. PICK a \in Nat : a = (p - h) % PAGE_SIZE
      BY <1>5
    <3>2. (IF a < k THEN <<c, d + a + 1>> ELSE b[p]) \in Char
      BY DEF Char
    <3>3. QED
      BY <3>1, <3>2
  <2>2. QED
    BY <2>1, Zenon
<1>7. PICK y : y = Bytes(c, d, k)
  OBVIOUS
<1>8. y \in Seq(Char) /\ Len(y) = k /\ \A i \in 1 .. k : y[i] = <<c, d + i>>
  BY <1>2, <1>7, SMTT(20) DEF Bytes, Char
<1>9. PICK s : s = Pending(b, h, t)
  OBVIOUS
<1>10. s \in Seq(Char) /\ Len(s) = n
  BY <1>1, <1>9, PendingText
<1>11. PICK r : r = Pending(b2, g, t)
  OBVIOUS
<1>12. r \in Seq(Char) /\ Len(r) = n + k
  BY <1>4, <1>6, <1>11, PendingText
<1>13. PICK q : q = s \o y
  OBVIOUS
<1>14. q \in Seq(Char) /\ Len(q) = n + k
  <2>1. q \in Seq(Char) /\ Len(q) = Len(s) + Len(y)
    BY <1>8, <1>10, <1>13, ConcatProperties
  <2>2. QED
    BY <1>8, <1>10, <2>1
<1>15. ASSUME NEW i \in 1 .. n + k PROVE r[i] = q[i]
  <2>1. PICK p \in Pos : /\ p = IF t + i - 1 < PAGE_SIZE THEN t + i - 1 ELSE t + i - 1 - PAGE_SIZE
                         /\ r[i] = b2[p]
    <3>1. i \in 1 .. CircCnt(g, t)
      BY <1>4
    <3>2. LET p == IF t + i - 1 < PAGE_SIZE THEN t + i - 1 ELSE t + i - 1 - PAGE_SIZE
          IN  p \in Pos /\ Pending(b2, g, t)[i] = b2[p]
      BY <1>6, <3>1, PendingPlace, Zenon
    <3>3. QED
      BY <1>11, <3>2
  <2>2. PICK a \in Nat : /\ a = (p - h) % PAGE_SIZE
                         /\ a = IF p >= h THEN p - h ELSE p - h + PAGE_SIZE
    BY <1>5
  <2>3. b2[p] = IF a < k THEN <<c, d + a + 1>> ELSE b[p]
    BY <2>2
  <2>4. CASE i <= n
    <3>1. a >= k
      BY <1>0, <1>1, <1>2, <2>1, <2>2, <2>4
    <3>2. s[i] = b[p]
      <4>1. i \in 1 .. CircCnt(h, t)
        BY <1>1, <2>4
      <4>2. QED
        BY <1>9, <2>1, <4>1, PendingPlace
    <3>3. q[i] = s[i]
      BY <1>8, <1>10, <1>13, <2>4
    <3>4. QED
      BY <1>2, <2>1, <2>3, <3>1, <3>2, <3>3
  <2>5. CASE i > n
    <3>1. PICK j \in 1 .. k : j = i - n
      BY <1>1, <1>2, <2>5
    <3>2. a = j - 1
      BY <1>0, <1>1, <1>2, <2>1, <2>2, <2>5, <3>1
    <3>3. a < k /\ d + a + 1 = d + j
      BY <1>2, <3>1, <3>2
    <3>4. q[i] = y[j]
      <4>1. i \in Nat /\ i > Len(s) /\ i <= Len(s) + Len(y)
        BY <1>1, <1>2, <1>8, <1>10, <2>5
      <4>2. (s \o y)[i] = y[i - Len(s)]
        <5>1. \A x \in 1 .. Len(s) + Len(y) : (s \o y)[x] =
                     IF x <= Len(s) THEN s[x] ELSE y[x - Len(s)]
          BY <1>8, <1>10, ConcatProperties
        <5>2. i \in 1 .. Len(s) + Len(y) /\ ~(i <= Len(s))
          BY <1>1, <1>2, <1>8, <1>10, <2>5
        <5>3. QED
          BY <5>1, <5>2, Zenon
      <4>3. QED
        BY <1>10, <1>13, <3>1, <4>2
    <3>5. y[j] = <<c, d + j>>
      BY <1>8
    <3>6. QED
      BY <2>1, <2>3, <3>3, <3>4, <3>5
  <2>6. QED
    BY <1>1, <2>4, <2>5
<1>16. r = q
  BY <1>12, <1>14, <1>15
<1>17. QED
  BY <1>3, <1>6, <1>7, <1>8, <1>9, <1>11, <1>13, <1>16 DEF Cat
-----------------------------------------------------------------------------
(***************************************************************************)
(* Induction over numbers through a set of them, and chains: texts joined  *)
(* from pieces one after the other.                                        *)
(***************************************************************************)
\* Induction over the numbers, with a set instead of a predicate.
LEMMA SmallestOne ==
  ASSUME NEW T \in SUBSET Nat, T # {}
  PROVE  \E x \in T : \A y \in T : ~(y < x)
<1>1. IsWellFoundedOn(OpToRel(<, Nat), Nat)
  BY NatLessThanWellFounded
<1>2. PICK R : R = OpToRel(<, Nat)
  OBVIOUS
<1>3. \E x \in T : \A y \in T : ~(<<y, x>> \in R)
  BY <1>1, <1>2, WFMin
<1>4. R = {p \in Nat \X Nat : p[1] < p[2]}
  BY <1>2 DEF OpToRel
<1>5. QED
  BY <1>3, <1>4

LEMMA CountUp ==
  ASSUME NEW S, 0 \in S, \A n \in Nat : n \in S => n + 1 \in S
  PROVE  \A n \in Nat : n \in S
<1>1. SUFFICES ASSUME Nat \ S # {} PROVE FALSE
  OBVIOUS
<1>2. PICK x \in Nat \ S : \A y \in Nat \ S : ~(y < x)
  BY <1>1, SmallestOne
<1>3. x # 0
  OBVIOUS
<1>4. x - 1 \in Nat /\ x - 1 \in S
  BY <1>2, <1>3
<1>5. QED
  BY <1>4, <1>2

\* W joins the texts g one after the other.
IsChain(W, g, N) ==
  /\ W \in [0 .. N -> Seq(Char)] /\ g \in [1 .. N -> Seq(Char)]
  /\ W[0] = <<>>
  /\ \A n \in 1 .. N : W[n] = W[n - 1] \o g[n]

LEMMA ChainExists ==
  ASSUME NEW N \in Nat, NEW g \in [1 .. N -> Seq(Char)]
  PROVE  \E W : IsChain(W, g, N)
<1> DEFINE Upto(W, m) == /\ W \in [0 .. N -> Seq(Char)] /\ W[0] = <<>>
                         /\ \A n \in 1 .. N : n <= m => W[n] = W[n - 1] \o g[n]
           S == {m \in Nat : \E W : Upto(W, m)}
<1>1. \E W : Upto(W, 0)
  <2>1. PICK W : W = [n \in 0 .. N |-> <<>>]
    OBVIOUS
  <2>2. W \in [0 .. N -> Seq(Char)] /\ W[0] = <<>>
    BY <2>1
  <2>3. \A n \in 1 .. N : ~(n <= 0)
    OBVIOUS
  <2>4. Upto(W, 0)
    BY <2>2, <2>3, Zenon
  <2>5. QED
    BY <2>4, Zenon
<1>2. ASSUME NEW m \in Nat, NEW W, Upto(W, m) PROVE \E V : Upto(V, m + 1)
  <2>2. CASE m + 1 > N
    <3>1. \A n \in 1 .. N : n <= m
      BY <2>2
    <3>2. Upto(W, m + 1)
      BY <1>2, <3>1, Zenon
    <3>3. QED
      BY <3>2, Zenon
  <2>3. CASE m + 1 <= N
    <3>1. PICK x : x = W[m] \o g[m + 1]
      OBVIOUS
    <3>2. W[m] \in Seq(Char) /\ g[m + 1] \in Seq(Char)
      BY <1>2, <2>3
    <3>3. x \in Seq(Char)
      BY <3>1, <3>2
    <3>4. PICK V : V = [W EXCEPT ![m + 1] = x]
      OBVIOUS
    <3>5. /\ V \in [0 .. N -> Seq(Char)] /\ V[m + 1] = x
          /\ \A n \in 0 .. N : n # m + 1 => V[n] = W[n]
      BY <1>2, <2>3, <3>3, <3>4
    <3>6. ASSUME NEW n \in 1 .. N, n <= m + 1 PROVE V[n] = V[n - 1] \o g[n]
      <4>1. CASE n = m + 1
        <5>1. n - 1 = m /\ m \in 0 .. N /\ m # m + 1
          BY <2>3, <4>1
        <5>2. QED
          BY <3>1, <3>5, <4>1, <5>1
      <4>2. CASE n <= m
        <5>1. n \in 0 .. N /\ n - 1 \in 0 .. N /\ n # m + 1 /\ n - 1 # m + 1
          BY <4>2
        <5>2. V[n] = W[n] /\ V[n - 1] = W[n - 1]
          BY <3>5, <5>1
        <5>3. W[n] = W[n - 1] \o g[n]
          BY <1>2, <4>2
        <5>4. QED
          BY <5>2, <5>3
      <4>3. QED
        BY <3>6, <4>1, <4>2
    <3>7. V[0] = <<>>
      BY <1>2, <3>5
    <3>8. Upto(V, m + 1)
      BY <3>5, <3>6, <3>7, Zenon
    <3>9. QED
      BY <3>8, Zenon
  <2>4. m + 1 > N \/ m + 1 <= N
    OBVIOUS
  <2>5. QED
    BY <2>2, <2>3, <2>4, Zenon
<1> HIDE DEF Upto
<1>3. 0 \in S /\ \A m \in Nat : m \in S => m + 1 \in S
  <2>1. 0 \in S
    BY <1>1
  <2>2. ASSUME NEW m \in Nat, m \in S PROVE m + 1 \in S
    <3>1. \E W : Upto(W, m)
      BY <2>2, Zenon
    <3>2. \E W : Upto(W, m + 1)
      BY <1>2, <3>1, Zenon
    <3>3. m + 1 \in Nat
      OBVIOUS
    <3>4. QED
      BY <3>2, <3>3, Zenon
  <2>3. QED
    BY <2>1, <2>2
<1>4. \A m \in Nat : m \in S
  <2> HIDE DEF S
  <2>1. QED
    BY <1>3, CountUp
<1>5. PICK W : Upto(W, N)
  BY <1>4, Zenon
<1>6. \A n \in 1 .. N : n <= N
  OBVIOUS
<1>7. IsChain(W, g, N)
  BY <1>5, <1>6, Zenon DEF IsChain, Upto
<1>8. QED
  BY <1>7, Zenon

\* What satisfies the equation of a chain is one.
LEMMA ChainTexts ==
  ASSUME NEW N \in Nat, NEW g \in [1 .. N -> Seq(Char)], NEW W,
         W = [n \in 0 .. N |-> IF n = 0 THEN <<>> ELSE W[n - 1] \o g[n]]
  PROVE  IsChain(W, g, N)
<1> DEFINE S == {m \in Nat : m <= N => W[m] \in Seq(Char)}
<1>0. /\ DOMAIN W = 0 .. N /\ W[0] = <<>>
      /\ \A n \in 1 .. N : W[n] = W[n - 1] \o g[n]
  <2>1. PICK F : F = [n \in 0 .. N |-> IF n = 0 THEN <<>> ELSE W[n - 1] \o g[n]]
    OBVIOUS
  <2>2. W = F
    BY <2>1, Zenon
  <2>3. 0 \in 0 .. N /\ \A n \in 1 .. N : n \in 0 .. N /\ n # 0
    OBVIOUS
  <2>4. \A n \in 0 .. N : F[n] = IF n = 0 THEN <<>> ELSE W[n - 1] \o g[n]
    BY <2>1, Zenon
  <2>5. F[0] = <<>> /\ \A n \in 1 .. N : F[n] = W[n - 1] \o g[n]
    BY <2>3, <2>4, Zenon
  <2>6. DOMAIN F = 0 .. N
    BY <2>1, Zenon
  <2>7. QED
    BY <2>2, <2>5, <2>6, Zenon
<1>1. 0 \in S
  BY <1>0
<1>2. ASSUME NEW m \in Nat, m \in S PROVE m + 1 \in S
  <2>1. SUFFICES ASSUME m + 1 <= N PROVE W[m + 1] \in Seq(Char)
    OBVIOUS
  <2>2. W[m] \in Seq(Char) /\ g[m + 1] \in Seq(Char)
    BY <1>2, <2>1
  <2>3. PICK n \in 1 .. N : n = m + 1 /\ n - 1 = m
    BY <2>1
  <2>4. W[n] = W[n - 1] \o g[n]
    BY <1>0
  <2>5. W[n] = W[m] \o g[m + 1]
    BY <2>3, <2>4
  <2>6. W[m] \o g[m + 1] \in Seq(Char)
    BY <2>2, ConcatProperties
  <2>7. QED
    BY <2>3, <2>5, <2>6
<1>3. \A m \in Nat : m \in S
  <2> HIDE DEF S
  <2>1. QED
    BY <1>1, <1>2, CountUp
<1>4. \A m \in 0 .. N : W[m] \in Seq(Char)
  <2>1. \A m \in 0 .. N : m \in Nat /\ m <= N
    OBVIOUS
  <2>2. QED
    BY <1>3, <2>1, Zenon
<1>5. W \in [0 .. N -> Seq(Char)]
  BY <1>0, <1>4
<1>6. QED
  BY <1>0, <1>5 DEF IsChain

\* Chains that join the same texts up to m agree there.
LEMMA ChainPrefix ==
  ASSUME NEW N \in Nat, NEW g, NEW h, NEW W, NEW V, IsChain(W, g, N), IsChain(V, h, N),
         NEW m \in 0 .. N, \A n \in 1 .. m : g[n] = h[n]
  PROVE  W[m] = V[m]
<1> DEFINE S == {n \in Nat : n <= m => W[n] = V[n]}
<1>1. 0 \in S
  BY DEF IsChain
<1>2. ASSUME NEW n \in Nat, n \in S PROVE n + 1 \in S
  <2>1. SUFFICES ASSUME n + 1 <= m PROVE W[n + 1] = V[n + 1]
    OBVIOUS
  <2>2. W[n] = V[n] /\ g[n + 1] = h[n + 1]
    BY <1>2, <2>1
  <2>3. PICK k \in 1 .. N : k = n + 1 /\ k - 1 = n
    BY <2>1
  <2>4. W[k] = W[k - 1] \o g[k] /\ V[k] = V[k - 1] \o h[k]
    BY DEF IsChain
  <2>5. QED
    BY <2>2, <2>3, <2>4
<1>3. \A n \in Nat : n \in S
  <2> HIDE DEF S
  <2>1. QED
    BY <1>1, <1>2, CountUp
<1>4. QED
  BY <1>3

\* Empty texts at the end add nothing.
LEMMA ChainRest ==
  ASSUME NEW N \in Nat, NEW g, NEW W, IsChain(W, g, N),
         NEW m \in 0 .. N, \A n \in m + 1 .. N : g[n] = <<>>
  PROVE  W[N] = W[m]
<1> DEFINE S == {i \in Nat : m + i <= N => W[m + i] = W[m]}
<1>1. 0 \in S
  OBVIOUS
<1>2. ASSUME NEW i \in Nat, i \in S PROVE i + 1 \in S
  <2>1. SUFFICES ASSUME m + (i + 1) <= N PROVE W[m + (i + 1)] = W[m]
    OBVIOUS
  <2>2. PICK k \in 1 .. N : k = m + (i + 1) /\ k - 1 = m + i /\ k \in m + 1 .. N
    BY <2>1
  <2>3. W[k - 1] = W[m]
    BY <1>2, <2>2
  <2>4. W[k] = W[k - 1] \o g[k] /\ g[k] = <<>>
    BY <2>2 DEF IsChain
  <2>5. W[m] \in Seq(Char)
    BY DEF IsChain
  <2>6. W[k] = W[m] \o <<>>
    BY <2>3, <2>4
  <2>7. W[m] \o <<>> = W[m]
    BY <2>5, ConcatEmptySeq
  <2>8. QED
    BY <2>2, <2>6, <2>7
<1>3. \A i \in Nat : i \in S
  <2> HIDE DEF S
  <2>1. QED
    BY <1>1, <1>2, CountUp
<1>4. PICK i \in Nat : m + i = N /\ m + i <= N
  <2>1. N - m \in Nat /\ m + (N - m) = N /\ m + (N - m) <= N
    OBVIOUS
  <2>2. QED
    BY <2>1, Zenon
<1>5. W[m + i] = W[m]
  BY <1>3, <1>4, Zenon
<1>6. QED
  BY <1>4, <1>5

\* A chain that begins with one more text.
LEMMA ChainFirst ==
  ASSUME NEW N \in Nat \ {0}, NEW g, NEW h, NEW W, NEW V, IsChain(W, g, N), IsChain(V, h, N),
         \A n \in 1 .. N - 1 : g[n + 1] = h[n], h[N] = <<>>
  PROVE  W[N] = Cat(g[1], V[N])
<1> DEFINE S == {n \in Nat : n + 1 <= N => W[n + 1] = g[1] \o V[n]}
<1>0. 1 \in 1 .. N /\ g[1] \in Seq(Char) /\ V[0] = <<>> /\ W[0] = <<>>
  BY DEF IsChain
<1>1. 0 \in S
  <2>1. W[1] = W[0] \o g[1]
    <3>1. W[1] = W[1 - 1] \o g[1]
      BY <1>0, Zenon DEF IsChain
    <3>2. QED
      BY <3>1
  <2>2. <<>> \o g[1] = g[1] /\ g[1] \o <<>> = g[1]
    BY <1>0, ConcatEmptySeq
  <2>3. W[1] = g[1] \o V[0]
    BY <1>0, <2>1, <2>2
  <2>4. 0 \in Nat /\ 0 + 1 = 1
    OBVIOUS
  <2>5. W[0 + 1] = g[1] \o V[0]
    BY <2>3, <2>4
  <2>6. QED
    BY <2>4, <2>5, Zenon
<1>2. ASSUME NEW n \in Nat, n \in S PROVE n + 1 \in S
  <2>0. n + 1 \in Nat /\ (n + 1 <= N => W[n + 1] = g[1] \o V[n])
    <3>1. n + 1 \in Nat
      OBVIOUS
    <3>2. QED
      BY <1>2, <3>1, Zenon
  <2>1. SUFFICES ASSUME (n + 1) + 1 <= N PROVE W[(n + 1) + 1] = g[1] \o V[n + 1]
    BY <2>0, Zenon
  <2>2. PICK k \in 1 .. N - 1 : k = n + 1 /\ k - 1 = n
    BY <2>1
  <2>3. k \in 1 .. N /\ k + 1 \in 1 .. N /\ (k + 1) - 1 = k /\ k - 1 \in 0 .. N
    BY <2>2
  <2>4. W[k + 1] = W[k] \o g[k + 1] /\ V[k] = V[k - 1] \o h[k]
    BY <2>3 DEF IsChain
  <2>5. W[k] = g[1] \o V[k - 1]
    <3>1. n + 1 <= N
      BY <2>1
    <3>2. QED
      BY <2>0, <2>2, <3>1
  <2>6. g[k + 1] = h[k]
    OBVIOUS
  <2>7. V[k - 1] \in Seq(Char) /\ h[k] \in Seq(Char)
    BY <2>3 DEF IsChain
  <2>8. (g[1] \o V[k - 1]) \o h[k] = g[1] \o (V[k - 1] \o h[k])
    <3>1. PICK a, b, c : a = g[1] /\ b = V[k - 1] /\ c = h[k]
      OBVIOUS
    <3>2. a \in Seq(Char) /\ b \in Seq(Char) /\ c \in Seq(Char)
      BY <1>0, <2>7, <3>1
    <3>3. (a \o b) \o c = a \o (b \o c)
      BY <3>2, ConcatAssociative, SMTT(20)
    <3>4. QED
      BY <3>1, <3>3
  <2>9. W[k + 1] = g[1] \o V[k]
    BY <2>4, <2>5, <2>6, <2>8
  <2>10. QED
    BY <2>2, <2>9
<1>3. \A n \in Nat : n \in S
  <2> HIDE DEF S
  <2>1. QED
    BY <1>1, <1>2, CountUp
<1>4. PICK m \in Nat : m = N - 1 /\ m + 1 = N
  OBVIOUS
<1>5. W[N] = g[1] \o V[m]
  <2>1. m + 1 <= N
    BY <1>4
  <2>2. W[m + 1] = g[1] \o V[m]
    BY <1>3, <2>1, Zenon
  <2>3. QED
    BY <1>4, <2>2
<1>6. V[N] = V[m]
  <2>1. m \in 0 .. N /\ \A n \in m + 1 .. N : h[n] = <<>>
    BY <1>4
  <2>2. N \in Nat
    OBVIOUS
  <2>3. QED
    BY <2>1, <2>2, ChainRest
<1>7. QED
  BY <1>5, <1>6 DEF Cat

\* e texts of B characters each, of which the last may be shorter, behind
\* the u-th: together the first k characters of s.
Piece(s, k, B, j) == SubSeq(s, j * B + 1, Less(k, (j + 1) * B))

Appended(V, u, e, s, k) == V[u + e] = V[u] \o SubSeq(s, 1, k)

LEMMA ChainFills ==
  ASSUME NEW N \in Nat, NEW h, NEW V, IsChain(V, h, N),
         NEW B \in Nat \ {0}, NEW u \in Nat, NEW e \in Nat, u + e <= N,
         NEW s \in Seq(Char), NEW k \in 0 .. Len(s),
         k <= e * B, e > 0 => (e - 1) * B < k,
         \A j \in 0 .. e - 1 : h[u + j + 1] = Piece(s, k, B, j)
  PROVE  Appended(V, u, e, s, k)
<1> DEFINE to(j) == Less(k, j * B)
           S == {j \in Nat : j <= e => V[u + j] = V[u] \o SubSeq(s, 1, to(j))}
<1>0. V[u] \in Seq(Char)
  BY DEF IsChain
<1>1. 0 \in S
  <2>1. to(0) = 0
    BY DEF Less
  <2>2. SubSeq(s, 1, 0) = <<>>
    OBVIOUS
  <2>3. V[u] \o <<>> = V[u]
    BY <1>0, ConcatEmptySeq
  <2>4. u + 0 = u /\ 0 \in Nat
    OBVIOUS
  <2>5. V[u + 0] = V[u] \o SubSeq(s, 1, to(0))
    <3> HIDE DEF to
    <3>1. QED
      BY <2>1, <2>2, <2>3, <2>4
  <2>6. QED
    BY <2>4, <2>5, Zenon
<1>2. ASSUME NEW j \in Nat, j \in S PROVE j + 1 \in S
  <2>0. j + 1 \in Nat /\ (j <= e => V[u + j] = V[u] \o SubSeq(s, 1, to(j)))
    <3>1. j + 1 \in Nat
      OBVIOUS
    <3>2. QED
      BY <1>2, <3>1, Zenon
  <2>1. SUFFICES ASSUME j + 1 <= e PROVE V[u + (j + 1)] = V[u] \o SubSeq(s, 1, to(j + 1))
    BY <2>0, Zenon
  <2>2. PICK p \in Nat : p = j * B
    OBVIOUS
  <2>3. p < k
    <3>1. j <= e - 1 /\ e > 0
      BY <2>1
    <3>2. j * B <= (e - 1) * B
      BY <3>1
    <3>3. PICK z \in Int : z = (e - 1) * B
      OBVIOUS
    <3>4. QED
      BY <2>2, <3>1, <3>2, <3>3
  <2>4. PICK r \in Nat : r = to(j + 1) /\ p < r /\ r <= k
    <3>1. (j + 1) * B = p + B
      BY <2>2
    <3>2. QED
      BY <2>3, <3>1 DEF Less
  <2>5. to(j) = p
    BY <2>2, <2>3 DEF Less
  <2>6. PICK m \in 1 .. N : m = u + (j + 1) /\ m - 1 = u + j /\ m = u + j + 1
    BY <2>1
  <2>7. V[m] = V[m - 1] \o h[m]
    BY DEF IsChain
  <2>8. h[m] = SubSeq(s, p + 1, r)
    <3>1. j \in 0 .. e - 1
      BY <2>1
    <3>2. h[u + j + 1] = SubSeq(s, j * B + 1, Less(k, (j + 1) * B))
      BY <3>1 DEF Piece
    <3>3. QED
      BY <2>2, <2>4, <2>6, <3>2
  <2>9. V[m - 1] = V[u] \o SubSeq(s, 1, p)
    <3>1. j <= e
      BY <2>1
    <3> HIDE DEF to
    <3>2. QED
      BY <2>0, <2>5, <2>6, <3>1
  <2>10. SubSeq(s, 1, p) \o SubSeq(s, p + 1, r) = SubSeq(s, 1, r)
    <3>1. PICK x : x = SubSeq(s, 1, r)
      OBVIOUS
    <3>2. r <= Len(s)
      BY <2>4
    <3>3. x \in Seq(Char) /\ Len(x) = r /\ \A i \in 1 .. r : x[i] = s[i]
      BY <3>1, <3>2
    <3>4. p \in 0 .. Len(x)
      BY <2>4, <3>3
    <3>5. SubSeq(x, 1, p) \o SubSeq(x, p + 1, Len(x)) = x
      BY <3>3, <3>4, CatSplit
    <3>6. SubSeq(x, 1, p) = SubSeq(s, 1, p)
      BY <2>4, <3>1, <3>2, <3>3
    <3>7. SubSeq(x, p + 1, r) = SubSeq(s, p + 1, r)
      BY <2>4, <3>1, <3>2, <3>3, SMTT(20)
    <3>8. QED
      BY <3>1, <3>3, <3>5, <3>6, <3>7
  <2>11. SubSeq(s, 1, p) \in Seq(Char) /\ SubSeq(s, p + 1, r) \in Seq(Char)
    BY <2>4
  <2>12. (V[u] \o SubSeq(s, 1, p)) \o SubSeq(s, p + 1, r)
           = V[u] \o (SubSeq(s, 1, p) \o SubSeq(s, p + 1, r))
    <3>1. PICK a, b, c : a = V[u] /\ b = SubSeq(s, 1, p) /\ c = SubSeq(s, p + 1, r)
      OBVIOUS
    <3>2. a \in Seq(Char) /\ b \in Seq(Char) /\ c \in Seq(Char)
      BY <1>0, <2>11, <3>1
    <3>3. (a \o b) \o c = a \o (b \o c)
      BY <3>2, ConcatAssociative, SMTT(20)
    <3>4. QED
      BY <3>1, <3>3
  <2>13. V[m] = V[u] \o SubSeq(s, 1, r)
    BY <2>7, <2>8, <2>9, <2>10, <2>12
  <2>14. QED
    BY <2>4, <2>6, <2>13
<1>3. \A j \in Nat : j \in S
  <2> HIDE DEF S
  <2>1. QED
    BY <1>1, <1>2, CountUp
<1>4. to(e) = k
  <2>1. PICK z \in Nat : z = e * B
    OBVIOUS
  <2>2. QED
    BY <2>1 DEF Less
<1>5. e <= e
  OBVIOUS
<1>6. V[u + e] = V[u] \o SubSeq(s, 1, to(e))
  BY <1>3, <1>5, Zenon
<1>7. QED
  <2> HIDE DEF to
  <2>1. QED
    BY <1>4, <1>6 DEF Appended
-----------------------------------------------------------------------------
(***************************************************************************)
(* The descriptors the engine has not sent, as a chain.                    *)
(***************************************************************************)
\* The text that the n-th descriptor from position q on adds to what is to be
\* sent, and all of them joined.
HeldOf(b, q) ==
  [n \in 1 .. TX_NUM_FIFO |->
     IF b[(q + n - 1) % TX_NUM_FIFO].ready THEN b[(q + n - 1) % TX_NUM_FIFO].data ELSE <<>>]
ChainOf(b, q) ==
  CHOOSE f : f = [n \in 0 .. TX_NUM_FIFO |->
                    IF n = 0 THEN <<>>
                    ELSE LET d == b[(q + n - 1) % TX_NUM_FIFO]
                         IN  f[n - 1] \o (IF d.ready THEN d.data ELSE <<>>)]

LEMMA WaitingIs == Waiting = ChainOf(bd, qe_cur) /\ Waiting' = ChainOf(bd', qe_cur')
<1>1. Waiting = ChainOf(bd, qe_cur)
  BY Zenon DEF Waiting, ChainOf
<1>2. Waiting' = ChainOf(bd', qe_cur')
  BY Zenon DEF Waiting, ChainOf
<1>3. QED
  BY <1>1, <1>2

\* The n-th descriptor from q on.
LEMMA SlotAt ==
  ASSUME NEW q \in BDs, NEW n \in 1 .. TX_NUM_FIFO
  PROVE  /\ (q + n - 1) % TX_NUM_FIFO \in BDs
         /\ (q + n - 1) % TX_NUM_FIFO
              = IF q + n - 1 < TX_NUM_FIFO THEN q + n - 1 ELSE q + n - 1 - TX_NUM_FIFO
<1>1. TX_NUM_FIFO \in Nat \ {0} /\ q \in 0 .. TX_NUM_FIFO - 1
  BY TxSizes DEF BDs
<1>2. PICK m \in 0 .. TX_NUM_FIFO : m = n - 1 /\ m < TX_NUM_FIFO /\ q + n - 1 = q + m
  BY <1>1
<1>3. (q + m) % TX_NUM_FIFO = IF q + m < TX_NUM_FIFO THEN q + m ELSE q + m - TX_NUM_FIFO
  BY <1>1, RingForward, Zenon
<1>4. QED
  BY <1>1, <1>2, <1>3 DEF BDs

LEMMA WaitingChain ==
  ASSUME NEW b \in [BDs -> Descriptor], NEW q \in BDs
  PROVE  IsChain(ChainOf(b, q), HeldOf(b, q), TX_NUM_FIFO)
<1> DEFINE N == TX_NUM_FIFO
           g == HeldOf(b, q)
           Step(f) == [n \in 0 .. N |-> IF n = 0 THEN <<>> ELSE f[n - 1] \o g[n]]
<1>0. N \in Nat
  BY TxSizes
<1>1. ASSUME NEW n \in 1 .. N
      PROVE  /\ g[n] \in Seq(Char)
             /\ g[n] = LET d == b[(q + n - 1) % N] IN IF d.ready THEN d.data ELSE <<>>
  <2>1. PICK i \in BDs : i = (q + n - 1) % N
    BY SlotAt
  <2>2. g[n] = IF b[i].ready THEN b[i].data ELSE <<>>
    BY <2>1 DEF HeldOf
  <2>3. b[i].data \in Seq(Char)
    BY DEF Descriptor
  <2>4. g[n] \in Seq(Char)
    BY <2>2, <2>3
  <2>5. QED
    BY <2>1, <2>2, <2>4
<1>2. g \in [1 .. N -> Seq(Char)]
  <2>1. DOMAIN g = 1 .. N /\ g = [n \in 1 .. N |-> g[n]]
    BY DEF HeldOf
  <2>2. QED
    BY <1>1, <2>1
<1>3. PICK V : IsChain(V, g, N)
  BY <1>0, <1>2, ChainExists
<1>4. V = Step(V)
  <2> HIDE DEF g
  <2>1. V = [n \in 0 .. N |-> V[n]]
    BY <1>3 DEF IsChain
  <2>2. ASSUME NEW n \in 0 .. N PROVE V[n] = IF n = 0 THEN <<>> ELSE V[n - 1] \o g[n]
    <3>1. n = 0 \/ n \in 1 .. N
      BY <1>0
    <3>2. V[0] = <<>>
      BY <1>3 DEF IsChain
    <3>3. \A i \in 1 .. N : V[i] = V[i - 1] \o g[i]
      BY <1>3 DEF IsChain
    <3>4. 0 \notin 1 .. N
      OBVIOUS
    <3>5. QED
      BY <3>1, <3>2, <3>3, <3>4, Zenon
  <2>3. QED
    BY <2>1, <2>2, Zenon
<1>5. ASSUME NEW f
      PROVE  Step(f) = [n \in 0 .. N |->
                          IF n = 0 THEN <<>>
                          ELSE LET d == b[(q + n - 1) % N]
                               IN  f[n - 1] \o (IF d.ready THEN d.data ELSE <<>>)]
  <2>1. \A n \in 0 .. N : n # 0 => n \in 1 .. N
    BY <1>0
  <2>2. ASSUME NEW n \in 0 .. N
        PROVE  (IF n = 0 THEN <<>> ELSE f[n - 1] \o g[n])
                 = IF n = 0 THEN <<>>
                   ELSE LET d == b[(q + n - 1) % N]
                        IN  f[n - 1] \o (IF d.ready THEN d.data ELSE <<>>)
    <3> HIDE DEF g
    <3>1. QED
      BY <1>1, <2>1, Zenon
  <2>3. QED
    BY <2>2, Zenon
<1>6. ChainOf(b, q) = CHOOSE f : f = Step(f)
  <2>1. \A f : f = Step(f) <=>
          f = [n \in 0 .. N |->
                          IF n = 0 THEN <<>>
                          ELSE LET d == b[(q + n - 1) % N]
                               IN  f[n - 1] \o (IF d.ready THEN d.data ELSE <<>>)]
    <3> HIDE DEF Step
    <3>1. QED
      BY <1>5, Zenon
  <2> HIDE DEF Step
  <2>2. QED
    BY <2>1, Zenon DEF ChainOf
<1>7. ChainOf(b, q) = Step(ChainOf(b, q))
  <2> HIDE DEF Step
  <2>1. QED
    BY <1>4, <1>6, Zenon
<1>8. PICK W : W = ChainOf(b, q)
  OBVIOUS
<1>9. W = Step(W)
  <2> HIDE DEF Step
  <2>1. QED
    BY <1>7, <1>8
<1>10. IsChain(W, g, N)
  <2> HIDE DEF g
  <2>1. QED
    BY <1>0, <1>2, <1>9, ChainTexts
<1>11. QED
  BY <1>8, <1>10

\* The engine sends the first descriptor: its characters leave at the front.
LEMMA WaitingSends ==
  ASSUME UccTypes, QeSend
  PROVE  Waiting[TX_NUM_FIFO] = bd[qe_cur].data \o Waiting'[TX_NUM_FIFO]
<1> DEFINE N == TX_NUM_FIFO
<1>0. /\ N \in Nat \ {0} /\ qe_cur \in BDs /\ qe_cur \in 0 .. N - 1
      /\ bd \in [BDs -> Descriptor] /\ bd[qe_cur] \in Descriptor
  BY TxSizes DEF UccTypes, BDs
<1>1. /\ bd[qe_cur].ready /\ bd' = [bd EXCEPT ![qe_cur].ready = FALSE]
      /\ qe_cur' = (qe_cur + 1) % N
  BY DEF QeSend
<1>2. PICK r : r = [bd[qe_cur] EXCEPT !.ready = FALSE]
  OBVIOUS
<1>3. r \in Descriptor /\ ~r.ready
  <2>1. PICK d \in Descriptor : d = bd[qe_cur]
    BY <1>0
  <2>2. r = [d EXCEPT !.ready = FALSE]
    BY <1>2, <2>1
  <2>3. QED
    BY <2>2 DEF Descriptor
<1>4. bd' = [bd EXCEPT ![qe_cur] = r]
  BY <1>0, <1>1, <1>2
<1>5. PICK b : b = bd'
  OBVIOUS
<1>6. /\ b \in [BDs -> Descriptor] /\ ~b[qe_cur].ready
      /\ \A i \in BDs : i # qe_cur => b[i] = bd[i]
  BY <1>0, <1>3, <1>4, <1>5
<1>7. PICK q : q = qe_cur'
  OBVIOUS
<1>8. q = IF qe_cur + 1 < N THEN qe_cur + 1 ELSE qe_cur + 1 - N
  <2>1. 1 \in 0 .. N
    BY <1>0
  <2>2. QED
    BY <1>0, <1>1, <1>7, <2>1, RingForward, Zenon
<1>9. q \in BDs
  BY <1>0, <1>8 DEF BDs
<1>10. PICK W, V : W = Waiting /\ V = Waiting'
  OBVIOUS
<1>11. PICK g, h : g = HeldOf(bd, qe_cur) /\ h = HeldOf(b, q)
  OBVIOUS
<1>12. IsChain(W, g, N)
  BY <1>0, <1>10, <1>11, WaitingIs, WaitingChain
<1>13. IsChain(V, h, N)
  BY <1>5, <1>6, <1>7, <1>9, <1>10, <1>11, WaitingIs, WaitingChain
<1>14. ASSUME NEW n \in 1 .. N - 1 PROVE g[n + 1] = h[n]
  <2>1. n \in 1 .. N /\ n + 1 \in 1 .. N
    BY <1>0
  <2>2. PICK i \in BDs : /\ i = (qe_cur + (n + 1) - 1) % N
                         /\ i = IF qe_cur + (n + 1) - 1 < N THEN qe_cur + (n + 1) - 1
                                ELSE qe_cur + (n + 1) - 1 - N
    BY <1>0, <2>1, SlotAt
  <2>3. PICK j \in BDs : /\ j = (q + n - 1) % N
                         /\ j = IF q + n - 1 < N THEN q + n - 1 ELSE q + n - 1 - N
    BY <1>9, <2>1, SlotAt
  <2>4. i = j /\ i # qe_cur
    BY <1>0, <1>8, <2>1, <2>2, <2>3
  <2>5. g[n + 1] = IF bd[i].ready THEN bd[i].data ELSE <<>>
    BY <1>11, <2>1, <2>2, Zenon DEF HeldOf
  <2>6. h[n] = IF b[j].ready THEN b[j].data ELSE <<>>
    BY <1>11, <2>1, <2>3, Zenon DEF HeldOf
  <2>7. b[i] = bd[i]
    BY <1>6, <2>4
  <2>8. QED
    BY <2>4, <2>5, <2>6, <2>7
<1>15. h[N] = <<>>
  <2>1. N \in 1 .. N
    BY <1>0
  <2>2. PICK j \in BDs : /\ j = (q + N - 1) % N
                         /\ j = IF q + N - 1 < N THEN q + N - 1 ELSE q + N - 1 - N
    BY <1>9, <2>1, SlotAt
  <2>3. j = qe_cur
    BY <1>0, <1>8, <2>2
  <2>4. h[N] = IF b[j].ready THEN b[j].data ELSE <<>>
    BY <1>11, <2>1, <2>2, Zenon DEF HeldOf
  <2>5. QED
    BY <1>6, <2>3, <2>4
<1>16. g[1] = bd[qe_cur].data
  <2>1. 1 \in 1 .. N
    BY <1>0
  <2>2. PICK j \in BDs : /\ j = (qe_cur + 1 - 1) % N
                         /\ j = IF qe_cur + 1 - 1 < N THEN qe_cur + 1 - 1 ELSE qe_cur + 1 - 1 - N
    BY <1>0, <2>1, SlotAt
  <2>3. j = qe_cur
    BY <1>0, <2>2
  <2>4. g[1] = IF bd[j].ready THEN bd[j].data ELSE <<>>
    BY <1>11, <2>1, <2>2, Zenon DEF HeldOf
  <2>5. QED
    BY <1>1, <2>3, <2>4
<1>17. W[N] = g[1] \o V[N]
  <2>1. \A n \in 1 .. N - 1 : g[n + 1] = h[n]
    BY <1>14
  <2>2. PICK M : M = N
    OBVIOUS
  <2>3. /\ M \in Nat \ {0} /\ IsChain(W, g, M) /\ IsChain(V, h, M)
        /\ h[M] = <<>> /\ \A n \in 1 .. M - 1 : g[n + 1] = h[n]
    BY <1>0, <1>12, <1>13, <1>15, <2>1, <2>2
  <2>4. W[M] = Cat(g[1], V[M])
    BY <2>3, ChainFirst
  <2>5. QED
    BY <2>2, <2>4 DEF Cat
<1>18. QED
  BY <1>10, <1>16, <1>17

\* How many characters qe_uart_tx_pump() takes, and in how many descriptors.
LEMMA DescriptorsFilled ==
  ASSUME NEW B \in Nat \ {0}, NEW k \in Nat, NEW e, e = (k + B - 1) \div B
  PROVE  e \in Nat /\ k <= e * B /\ (e > 0 => (e - 1) * B < k)
<1>1. PICK d \in Nat : d = k + B - 1
  OBVIOUS
<1>2. e = d \div B /\ e \in Nat
  BY <1>1
<1>3. e * B <= d /\ d < (e + 1) * B
  BY <1>2
<1>4. (e + 1) * B = e * B + B /\ (e - 1) * B = e * B - B
  BY <1>2
<1>5. PICK z \in Nat : z = e * B
  BY <1>2
<1>6. k <= z /\ z - B < k
  BY <1>1, <1>3, <1>4, <1>5
<1>7. QED
  BY <1>2, <1>4, <1>5, <1>6

\* The pump puts what it takes behind what is to be sent, in the same order.
LEMMA WaitingFills ==
  ASSUME UccTypes, UccRing, tail \in Pos, qe_cur' = qe_cur,
         NEW b \in [Pos -> Char], NEW h \in Pos, qe_uart_tx_pump(b, h)
  PROVE  /\ Taken(h) \in 0 .. CircCnt(h, tail) /\ tail' = Advance(tail, Taken(h))
         /\ Waiting'[TX_NUM_FIFO]
              = Waiting[TX_NUM_FIFO] \o SubSeq(Pending(b, h, tail), 1, Taken(h))
<1> DEFINE N == TX_NUM_FIFO
           B == TX_BUF_SIZE
<1>1. /\ N \in Nat \ {0} /\ qe_cur \in 0 .. N - 1 /\ tx_cur \in 0 .. N - 1
      /\ B \in Nat \ {0} /\ PAGE_SIZE \in Nat \ {0} /\ BDs = 0 .. N - 1
  BY TxSizes DEF UccTypes, BDs
<1>2. PICK u \in 0 .. N : InUse(u)
  BY DEF UccRing
<1>3. PICK f \in 0 .. N : f = Free /\ f = N - u
  BY <1>1, <1>2, FreeCount
<1>4. PICK m \in Pos : m = CircCnt(h, tail)
  BY CircCounts
<1>5. m \in Nat
  BY <1>4 DEF Pos
<1>6. PICK c \in Nat : c = f * B
  BY <1>1
<1>7. PICK k \in Nat : k = Taken(h) /\ k <= m /\ k <= c
  <2>1. Taken(h) = IF m < c THEN m ELSE c
    BY <1>3, <1>4, <1>6 DEF Taken, Less
  <2>2. QED
    BY <1>5, <2>1
<1>8. PICK e : e = (k + B - 1) \div B
  OBVIOUS
<1>9. e \in Nat /\ k <= e * B /\ (e > 0 => (e - 1) * B < k)
  BY <1>1, <1>8, DescriptorsFilled
<1>10. e \in 0 .. f
  <2>1. f \in Nat /\ k <= f * B
    BY <1>6, <1>7
  <2>2. (k + B - 1) \div B \in 0 .. f
    BY <1>1, <2>1, Descriptors
  <2>3. QED
    BY <1>8, <2>2
<1>11. PICK s : s = Pending(b, h, tail)
  OBVIOUS
<1>12. s \in Seq(Char) /\ Len(s) = m
  BY <1>4, <1>11, PendingText
<1>13. /\ bd' = [i \in BDs |->
                  IF (i - tx_cur) % N < e
                    THEN [ready |-> TRUE,
                          data  |-> SubSeq(s, ((i - tx_cur) % N) * B + 1,
                                           Less(k, (((i - tx_cur) % N) + 1) * B))]
                    ELSE bd[i]]
       /\ tail' = Advance(tail, k)
  BY <1>7, <1>8, <1>11 DEF qe_uart_tx_pump, FromCur
<1>14. tx_cur = IF qe_cur + u < N THEN qe_cur + u ELSE qe_cur + u - N
  BY <1>1, <1>2, RingForward, Zenon DEF InUse
<1>15. PICK b2 : b2 = bd'
  OBVIOUS
<1>16. b2 \in [BDs -> Descriptor] /\ bd \in [BDs -> Descriptor] /\ qe_cur \in BDs
  <2>1. UccTypes'
    BY Pumps
  <2>2. QED
    BY <1>15, <2>1 DEF UccTypes, BDs
<1>17. PICK W, V : W = Waiting /\ V = Waiting'
  OBVIOUS
<1>18. PICK g, y : g = HeldOf(bd, qe_cur) /\ y = HeldOf(b2, qe_cur)
  OBVIOUS
<1>19. IsChain(W, g, N) /\ IsChain(V, y, N)
  <2>1. W = ChainOf(bd, qe_cur) /\ V = ChainOf(b2, qe_cur)
    BY <1>15, <1>17, WaitingIs
  <2>2. QED
    BY <1>16, <1>18, <2>1, WaitingChain
<1>20. ASSUME NEW n \in 1 .. N
       PROVE  /\ n <= u => y[n] = g[n]
              /\ n > u => g[n] = <<>>
              /\ n > u /\ n <= u + e =>
                   y[n] = SubSeq(s, (n - u - 1) * B + 1, Less(k, (n - u) * B))
              /\ n > u + e => y[n] = <<>>
  <2>1. PICK i \in BDs : /\ i = (qe_cur + n - 1) % N
                         /\ i = IF qe_cur + n - 1 < N THEN qe_cur + n - 1 ELSE qe_cur + n - 1 - N
    BY <1>16, SlotAt
  <2>2. g[n] = IF bd[i].ready THEN bd[i].data ELSE <<>>
    BY <1>18, <2>1, Zenon DEF HeldOf
  <2>3. y[n] = IF b2[i].ready THEN b2[i].data ELSE <<>>
    BY <1>18, <2>1, Zenon DEF HeldOf
  <2>4. PICK d \in Nat : d = (i - qe_cur) % N /\ d = n - 1
    <3>1. (i - qe_cur) % N = IF i >= qe_cur THEN i - qe_cur ELSE i - qe_cur + N
      BY <1>1, RingDistance, Zenon
    <3>2. PICK x : x = (i - qe_cur) % N
      OBVIOUS
    <3>3. x \in Nat /\ x = n - 1
      BY <1>1, <2>1, <3>1, <3>2
    <3>4. QED
      BY <3>2, <3>3
  <2>5. bd[i].ready <=> d < u
    BY <1>2, <2>4 DEF InUse
  <2>6. PICK j \in Nat : /\ j = (i - tx_cur) % N
                         /\ n > u => j = n - u - 1
                         /\ n <= u => j = n - u - 1 + N
    <3>1. (i - tx_cur) % N = IF i >= tx_cur THEN i - tx_cur ELSE i - tx_cur + N
      BY <1>1, RingDistance, Zenon
    <3>2. PICK x : x = (i - tx_cur) % N
      OBVIOUS
    <3>3. x \in Nat /\ (n > u => x = n - u - 1) /\ (n <= u => x = n - u - 1 + N)
      BY <1>1, <1>14, <2>1, <3>1, <3>2, SMTT(20)
    <3>4. QED
      BY <3>2, <3>3
  <2>7. b2[i] = IF j < e THEN [ready |-> TRUE,
                               data |-> SubSeq(s, j * B + 1, Less(k, (j + 1) * B))]
                ELSE bd[i]
    BY <1>13, <1>15, <2>6, Zenon
  <2>8. CASE n <= u
    <3>1. ~(j < e)
      BY <1>1, <1>3, <1>10, <2>6, <2>8
    <3>2. b2[i] = bd[i]
      BY <2>7, <3>1
    <3>3. y[n] = g[n] /\ ~(n > u) /\ ~(n > u + e)
      BY <1>9, <2>2, <2>3, <2>8, <3>2
    <3>4. QED
      BY <3>3
  <2>9. CASE n > u
    <3>1. ~bd[i].ready
      BY <2>4, <2>5, <2>9
    <3>2. g[n] = <<>> /\ ~(n <= u)
      BY <2>2, <2>9, <3>1
    <3>3. CASE n <= u + e
      <4>1. j < e /\ j = n - u - 1 /\ j + 1 = n - u /\ ~(n > u + e)
        BY <1>9, <2>6, <2>9, <3>3
      <4>2. b2[i] = [ready |-> TRUE, data |-> SubSeq(s, j * B + 1, Less(k, (j + 1) * B))]
        BY <2>7, <4>1
      <4>3. y[n] = SubSeq(s, j * B + 1, Less(k, (j + 1) * B))
        <5>1. PICK x : x = SubSeq(s, j * B + 1, Less(k, (j + 1) * B))
          OBVIOUS
        <5>2. b2[i] = [ready |-> TRUE, data |-> x]
          BY <4>2, <5>1
        <5>3. b2[i].ready = TRUE /\ b2[i].data = x
          BY <5>2
        <5>4. QED
          BY <2>3, <5>1, <5>3
      <4>4. QED
        BY <3>2, <4>1, <4>3
    <3>4. CASE n > u + e
      <4>1. ~(j < e) /\ ~(n <= u + e)
        BY <1>9, <2>6, <2>9, <3>4
      <4>2. b2[i] = bd[i]
        BY <2>7, <4>1
      <4>3. y[n] = <<>>
        BY <2>3, <3>1, <4>2
      <4>4. QED
        BY <3>2, <4>1, <4>3
    <3>5. QED
      BY <1>9, <3>3, <3>4
  <2>10. QED
    BY <2>8, <2>9
<1>21. u + e <= N /\ u \in Nat /\ N \in Nat /\ k \in 0 .. Len(s) /\ u + e \in 0 .. N
  BY <1>1, <1>3, <1>7, <1>9, <1>10, <1>12
<1>22. V[u] = W[u]
  <2>1. \A n \in 1 .. u : g[n] = y[n]
    BY <1>1, <1>20
  <2>2. PICK M : M = N
    OBVIOUS
  <2>3. M \in Nat /\ u \in 0 .. M /\ IsChain(W, g, M) /\ IsChain(V, y, M)
    BY <1>19, <1>21, <2>2
  <2>4. QED
    BY <2>1, <2>3, ChainPrefix
<1>23. W[N] = W[u]
  <2>1. \A n \in u + 1 .. N : g[n] = <<>>
    BY <1>1, <1>20
  <2>2. PICK M : M = N
    OBVIOUS
  <2>3. M \in Nat /\ u \in 0 .. M /\ IsChain(W, g, M) /\ \A n \in u + 1 .. M : g[n] = <<>>
    BY <1>19, <1>21, <2>1, <2>2
  <2>4. W[M] = W[u]
    BY <2>3, ChainRest
  <2>5. QED
    BY <2>2, <2>4
<1>24. V[N] = V[u + e]
  <2>1. PICK t : t = u + e
    OBVIOUS
  <2>2. \A n \in t + 1 .. N : y[n] = <<>>
    BY <1>1, <1>9, <1>20, <1>21, <2>1
  <2>3. PICK M : M = N
    OBVIOUS
  <2>4. M \in Nat /\ t \in 0 .. M /\ IsChain(V, y, M) /\ \A n \in t + 1 .. M : y[n] = <<>>
    BY <1>19, <1>21, <2>1, <2>2, <2>3
  <2>5. V[M] = V[t]
    BY <2>4, ChainRest
  <2>6. QED
    BY <2>1, <2>3, <2>5
<1>25. V[u + e] = V[u] \o SubSeq(s, 1, k)
  <2>1. ASSUME NEW j \in 0 .. e - 1
        PROVE  y[u + j + 1] = SubSeq(s, j * B + 1, Less(k, (j + 1) * B))
    <3>1. PICK n \in 1 .. N : n = u + j + 1 /\ n > u /\ n <= u + e /\ n - u - 1 = j /\ n - u = j + 1
      BY <1>9, <1>21
    <3>2. y[n] = SubSeq(s, (n - u - 1) * B + 1, Less(k, (n - u) * B))
      BY <1>20, <3>1
    <3>3. QED
      BY <3>1, <3>2
  <2>2. PICK M, D : M = N /\ D = B
    OBVIOUS
  <2>3. /\ M \in Nat /\ D \in Nat \ {0} /\ IsChain(V, y, M)
        /\ u + e <= M /\ k <= e * D /\ (e > 0 => (e - 1) * D < k)
    BY <1>1, <1>9, <1>19, <1>21, <2>2
  <2>4. \A j \in 0 .. e - 1 : y[u + j + 1] = Piece(s, k, D, j)
    BY <2>1, <2>2 DEF Piece
  <2>5. e \in Nat /\ u \in Nat /\ s \in Seq(Char) /\ k \in 0 .. Len(s)
    BY <1>9, <1>12, <1>21
  <2>6. Appended(V, u, e, s, k)
    BY <2>3, <2>4, <2>5, ChainFills, Zenon
  <2>7. QED
    BY <2>6 DEF Appended
<1>26. V[N] = W[N] \o SubSeq(s, 1, k)
  BY <1>22, <1>23, <1>24, <1>25
<1>27. Taken(h) \in 0 .. CircCnt(h, tail)
  BY <1>4, <1>5, <1>7
<1>28. QED
  BY <1>7, <1>11, <1>13, <1>17, <1>26, <1>27
-----------------------------------------------------------------------------
(***************************************************************************)
(* What the accepted characters say of the calls.                          *)
(***************************************************************************)
\* A character that write() accepted.
CallChar == Calls \X Nat

\* The characters S accepted so far, when the calls R have returned and d
\* characters of the call after them have been accepted.
Ordered(S, R, d) ==
  /\ S \in Seq(CallChar) /\ R \in Seq(Nat) /\ d \in Nat
  /\ CallByCall(S)
  /\ \A c \in 1 .. Len(R) : R[c] = BytesOf(S, c)
  /\ \A i \in 1 .. Len(S) : S[i][1] <= Len(R) + 1
  /\ BytesOf(S, Len(R) + 1) = d
  /\ d = 0 => \A i \in 1 .. Len(S) : S[i][1] <= Len(R)
  /\ d > 0 => Len(S) > 0 /\ S[Len(S)] = <<Len(R) + 1, d>>

\* Nothing has been written.
LEMMA OrderedStart == Ordered(<<>>, <<>>, 0)
<1>1. <<>> \in Seq(CallChar) /\ <<>> \in Seq(Nat) /\ Len(<<>>) = 0
  OBVIOUS
<1>2. 1 .. 0 = {}
  OBVIOUS
<1>3. {i \in 1 .. Len(<<>>) : <<>>[i][1] = 0 + 1} = {}
  BY <1>1, <1>2
<1>4. BytesOf(<<>>, Len(<<>>) + 1) = 0
  BY <1>1, <1>3, FS_EmptySet DEF BytesOf
<1>5. QED
  BY <1>1, <1>2, <1>4 DEF Ordered, CallByCall

\* A call returns what it has written; the next one begins.
LEMMA OrderedReturn ==
  ASSUME NEW S, NEW R, NEW d, Ordered(S, R, d)
  PROVE  Ordered(S, Append(R, d), 0)
<1>0. /\ S \in Seq(CallChar) /\ R \in Seq(Nat) /\ d \in Nat
      /\ \A c \in 1 .. Len(R) : R[c] = BytesOf(S, c)
      /\ \A i \in 1 .. Len(S) : S[i][1] <= Len(R) + 1
      /\ BytesOf(S, Len(R) + 1) = d
  BY DEF Ordered
<1>1. PICK Q : Q = Append(R, d)
  OBVIOUS
<1>2. /\ Q \in Seq(Nat) /\ Len(Q) = Len(R) + 1 /\ Len(R) \in Nat
      /\ \A c \in 1 .. Len(R) : Q[c] = R[c]
      /\ Q[Len(R) + 1] = d
  BY <1>0, <1>1
<1>3. ASSUME NEW c \in 1 .. Len(Q) PROVE Q[c] = BytesOf(S, c)
  <2>1. c \in 1 .. Len(R) \/ c = Len(R) + 1
    BY <1>2
  <2>2. QED
    BY <1>0, <1>2, <2>1
<1>4. ASSUME NEW i \in 1 .. Len(S) PROVE S[i][1] \in Nat /\ S[i][1] <= Len(Q)
  <2>1. S[i] \in Calls \X Nat
    BY <1>0 DEF CallChar
  <2>2. S[i][1] \in Calls
    BY <2>1
  <2>3. S[i][1] \in Nat
    BY <2>2 DEF Calls
  <2>4. QED
    BY <1>0, <1>2, <2>3
<1>5. {i \in 1 .. Len(S) : S[i][1] = Len(Q) + 1} = {}
  <2>1. Len(Q) \in Nat
    BY <1>2
  <2>2. ASSUME NEW i \in 1 .. Len(S), S[i][1] = Len(Q) + 1 PROVE FALSE
    <3>1. PICK x \in Nat : x = S[i][1] /\ x <= Len(Q)
      BY <1>4
    <3>2. QED
      BY <2>1, <2>2, <3>1
  <2>3. QED
    BY <2>2
<1>6. BytesOf(S, Len(Q) + 1) = 0
  BY <1>5, FS_EmptySet DEF BytesOf
<1>7. \A i \in 1 .. Len(S) : S[i][1] <= Len(Q) + 1
  <2>1. Len(Q) \in Nat
    BY <1>2
  <2>2. ASSUME NEW i \in 1 .. Len(S) PROVE S[i][1] <= Len(Q) + 1
    <3>1. PICK x \in Nat : x = S[i][1] /\ x <= Len(Q)
      BY <1>4
    <3>2. QED
      BY <2>1, <3>1
  <2>3. QED
    BY <2>2
<1>8. CallByCall(S)
  BY DEF Ordered
<1>9. QED
  <2>1. 0 \in Nat /\ ~(0 > 0)
    OBVIOUS
  <2>2. \A i \in 1 .. Len(S) : S[i][1] <= Len(Q)
    BY <1>4
  <2>3. Ordered(S, Q, 0)
    BY <1>0, <1>2, <1>3, <1>6, <1>7, <1>8, <2>1, <2>2, Zenon DEF Ordered
  <2>4. QED
    BY <1>1, <2>3

\* The call that is running adds its next k characters.
LEMMA OrderedMore ==
  ASSUME NEW S, NEW R, NEW d, Ordered(S, R, d), Len(R) + 1 \in Calls, NEW k \in Nat,
         NEW T \in Seq(CallChar), Len(T) = Len(S) + k,
         \A i \in 1 .. Len(S) : T[i] = S[i],
         \A j \in 1 .. k : T[Len(S) + j] = <<Len(R) + 1, d + j>>
  PROVE  Ordered(T, R, d + k)
<1>0. /\ S \in Seq(CallChar) /\ R \in Seq(Nat) /\ d \in Nat
      /\ \A e \in 1 .. Len(R) : R[e] = BytesOf(S, e)
      /\ \A i \in 1 .. Len(S) : S[i][1] <= Len(R) + 1
      /\ BytesOf(S, Len(R) + 1) = d
      /\ d = 0 => \A i \in 1 .. Len(S) : S[i][1] <= Len(R)
      /\ d > 0 => Len(S) > 0 /\ S[Len(S)] = <<Len(R) + 1, d>>
  BY DEF Ordered
<1>1. PICK n \in Nat : n = Len(S)
  BY <1>0
<1>2. PICK m \in Nat : m = Len(R)
  BY <1>0
<1>3. PICK c \in Nat : c = m + 1 /\ c = Len(R) + 1
  BY <1>2
<1>4. ASSUME NEW i \in 1 .. n
      PROVE  T[i] = S[i] /\ S[i][1] \in Nat /\ S[i][2] \in Nat /\ S[i][1] <= c
  <2>1. S[i] \in Calls \X Nat
    BY <1>0, <1>1 DEF CallChar
  <2>2. S[i][1] \in Calls /\ S[i][2] \in Nat
    BY <2>1
  <2>3. S[i][1] \in Nat
    BY <2>2 DEF Calls
  <2>4. S[i][1] <= c
    BY <1>0, <1>1, <1>3
  <2>5. QED
    BY <1>1, <2>2, <2>3, <2>4
<1>5. ASSUME NEW j \in 1 .. k PROVE T[n + j] = <<c, d + j>> /\ T[n + j][1] = c /\ T[n + j][2] = d + j
  BY <1>1, <1>3
<1>6. Len(T) = n + k
  BY <1>1
<1>7. CallByCall(T)
  <2>1. SUFFICES ASSUME NEW i \in 1 .. n + k
                 PROVE  IF i > 1 /\ T[i - 1][1] = T[i][1]
                          THEN T[i][2] = T[i - 1][2] + 1
                          ELSE T[i][2] = 1 /\ (i > 1 => T[i - 1][1] < T[i][1])
    BY <1>6 DEF CallByCall
  <2>2. CASE i <= n
    <3>1. IF i > 1 /\ S[i - 1][1] = S[i][1]
            THEN S[i][2] = S[i - 1][2] + 1
            ELSE S[i][2] = 1 /\ (i > 1 => S[i - 1][1] < S[i][1])
      BY <1>1, <2>2 DEF Ordered, CallByCall
    <3>2. T[i] = S[i] /\ (i > 1 => T[i - 1] = S[i - 1])
      BY <1>4, <2>2
    <3>3. QED
      BY <3>1, <3>2
  <2>3. CASE i = n + 1
    <3>1. 1 \in 1 .. k
      BY <2>3
    <3>2. T[i][1] = c /\ T[i][2] = d + 1
      BY <1>5, <2>3, <3>1
    <3>3. CASE d = 0
      <4>1. i > 1 => T[i - 1][1] < T[i][1] /\ T[i - 1][1] # T[i][1]
        <5>1. SUFFICES ASSUME i > 1 PROVE T[i - 1][1] < c /\ T[i - 1][1] # c
          BY <3>2
        <5>2. n \in 1 .. n /\ i - 1 = n
          BY <2>3, <5>1
        <5>3. PICK x \in Nat : x = S[n][1] /\ x <= m /\ T[n] = S[n]
          BY <1>0, <1>1, <1>2, <1>4, <3>3, <5>2
        <5>4. T[i - 1][1] = x
          BY <5>2, <5>3
        <5>5. QED
          BY <1>3, <5>3, <5>4
      <4>2. T[i][2] = 1
        BY <3>2, <3>3
      <4>3. QED
        BY <4>1, <4>2
    <3>4. CASE d > 0
      <4>1. n > 0 /\ S[n] = <<c, d>> /\ n \in 1 .. n /\ i - 1 = n /\ i > 1
        BY <1>0, <1>1, <1>3, <2>3, <3>4
      <4>2. T[i - 1] = <<c, d>>
        BY <1>4, <4>1
      <4>3. T[i - 1][1] = c /\ T[i - 1][2] = d
        BY <4>2
      <4>4. QED
        BY <3>2, <4>1, <4>3
    <3>5. QED
      BY <1>0, <3>3, <3>4
  <2>4. CASE i > n + 1
    <3>1. PICK j \in 1 .. k : n + j = i /\ j - 1 \in 1 .. k /\ n + (j - 1) = i - 1
      <4>1. i - n \in 1 .. k /\ n + (i - n) = i /\ (i - n) - 1 \in 1 .. k /\ n + ((i - n) - 1) = i - 1
        BY <2>4
      <4>2. QED
        BY <4>1
    <3>2. T[i][1] = c /\ T[i][2] = d + j /\ T[i - 1][1] = c /\ T[i - 1][2] = d + (j - 1)
      BY <1>5, <3>1
    <3>3. QED
      BY <1>0, <2>4, <3>2
  <2>5. QED
    BY <2>2, <2>3, <2>4
<1>8. ASSUME NEW e \in 1 .. m PROVE BytesOf(T, e) = BytesOf(S, e)
  <2>1. {i \in 1 .. n + k : T[i][1] = e} = {i \in 1 .. n : S[i][1] = e}
    <3>1. ASSUME NEW i \in 1 .. n + k, T[i][1] = e PROVE i \in 1 .. n /\ S[i][1] = e
      <4>1. CASE i > n
        <5>1. PICK j \in 1 .. k : n + j = i
          <6>1. i - n \in 1 .. k /\ n + (i - n) = i
            BY <4>1
          <6>2. QED
            BY <6>1
        <5>2. T[i][1] = c
          BY <1>5, <5>1
        <5>3. QED
          BY <1>3, <3>1, <5>2
      <4>2. CASE i <= n
        BY <1>4, <3>1, <4>2
      <4>3. QED
        BY <4>1, <4>2
    <3>2. ASSUME NEW i \in 1 .. n, S[i][1] = e PROVE i \in 1 .. n + k /\ T[i][1] = e
      BY <1>4, <3>2
    <3>3. QED
      BY <3>1, <3>2, Zenon
  <2>2. QED
    BY <1>1, <1>6, <2>1, Zenon DEF BytesOf
<1>9. BytesOf(T, c) = d + k
  <2>1. PICK A : A = {i \in 1 .. n : S[i][1] = c}
    OBVIOUS
  <2>2. PICK B : B = n + 1 .. n + k
    OBVIOUS
  <2>3. {i \in 1 .. n + k : T[i][1] = c} = A \cup B
    <3>1. ASSUME NEW i \in 1 .. n + k, T[i][1] = c PROVE i \in A \cup B
      <4>1. CASE i > n
        BY <2>2, <4>1
      <4>2. CASE i <= n
        BY <1>4, <2>1, <3>1, <4>2
      <4>3. QED
        BY <4>1, <4>2
    <3>2. ASSUME NEW i \in A PROVE i \in 1 .. n + k /\ T[i][1] = c
      BY <1>4, <2>1
    <3>3. ASSUME NEW i \in B PROVE i \in 1 .. n + k /\ T[i][1] = c
      <4>1. PICK j \in 1 .. k : n + j = i
        <5>1. i - n \in 1 .. k /\ n + (i - n) = i
          BY <2>2
        <5>2. QED
          BY <5>1
      <4>2. T[n + j][1] = c
        BY <1>5
      <4>3. i \in 1 .. n + k
        BY <4>1
      <4>4. QED
        BY <4>1, <4>2, <4>3, Zenon
    <3>4. QED
      BY <3>1, <3>2, <3>3, Zenon
  <2>4. IsFiniteSet(A) /\ Cardinality(A) = d
    <3>1. IsFiniteSet(1 .. n)
      <4>1. 1 \in Int /\ n \in Int
        OBVIOUS
      <4>2. QED
        BY <4>1, FS_Interval, Zenon
    <3>2. A \in SUBSET (1 .. n)
      BY <2>1
    <3>3. BytesOf(S, c) = d
      BY <1>0, <1>3
    <3>4. QED
      BY <1>1, <2>1, <3>1, <3>2, <3>3, FS_Subset DEF BytesOf
  <2>5. IsFiniteSet(B) /\ Cardinality(B) = k
    <3>1. n + 1 \in Int /\ n + k \in Int
      OBVIOUS
    <3>2. IsFiniteSet(B) /\ Cardinality(B) = IF n + 1 > n + k THEN 0 ELSE n + k - (n + 1) + 1
      BY <2>2, <3>1, FS_Interval
    <3>3. QED
      BY <3>2
  <2>6. A \cap B = {}
    BY <2>1, <2>2
  <2>7. Cardinality(A \cup B) = d + k
    <3>1. Cardinality(A \cup B) = Cardinality(A) + Cardinality(B) - Cardinality(A \cap B)
      BY <2>4, <2>5, FS_Union
    <3>2. Cardinality(A \cap B) = 0
      BY <2>6, FS_EmptySet
    <3>3. QED
      BY <1>0, <2>4, <2>5, <3>1, <3>2
  <2>8. QED
    BY <1>6, <2>3, <2>7 DEF BytesOf
<1>10. ASSUME NEW i \in 1 .. n + k PROVE T[i][1] \in Nat /\ T[i][1] <= c /\ (i > n => T[i][1] = c)
  <2>1. CASE i > n
    <3>1. PICK j \in 1 .. k : n + j = i
      <4>1. i - n \in 1 .. k /\ n + (i - n) = i
        BY <2>1
      <4>2. QED
        BY <4>1
    <3>2. T[i][1] = c
      BY <1>5, <3>1
    <3>3. QED
      BY <3>2
  <2>2. CASE i <= n
    BY <1>4, <2>2
  <2>3. QED
    BY <2>1, <2>2
<1>11. d + k = 0 => \A i \in 1 .. n + k : T[i][1] <= m
  <2>1. SUFFICES ASSUME d + k = 0, NEW i \in 1 .. n + k PROVE T[i][1] <= m
    OBVIOUS
  <2>2. d = 0 /\ i \in 1 .. n
    BY <1>0, <2>1
  <2>3. S[i][1] <= m /\ T[i] = S[i]
    BY <1>0, <1>1, <1>2, <1>4, <2>2
  <2>4. QED
    BY <2>3
<1>12. d + k > 0 => n + k > 0 /\ T[n + k] = <<c, d + k>>
  <2>1. CASE k > 0
    BY <1>5, <2>1
  <2>2. CASE k = 0
    <3>1. SUFFICES ASSUME d > 0 PROVE n > 0 /\ T[n] = <<c, d>>
      BY <1>0, <2>2
    <3>2. n > 0 /\ S[n] = <<c, d>>
      BY <1>0, <1>1, <1>3, <3>1
    <3>3. QED
      BY <1>4, <3>2
  <2>3. QED
    BY <2>1, <2>2
<1>13. QED
  <2>1. d + k \in Nat
    BY <1>0
  <2>2. \A e \in 1 .. Len(R) : R[e] = BytesOf(T, e)
    BY <1>0, <1>2, <1>8
  <2>3. \A i \in 1 .. Len(T) : T[i][1] <= Len(R) + 1
    BY <1>3, <1>6, <1>10
  <2>4. BytesOf(T, Len(R) + 1) = d + k
    BY <1>3, <1>9
  <2>5. d + k = 0 => \A i \in 1 .. Len(T) : T[i][1] <= Len(R)
    BY <1>2, <1>6, <1>11
  <2>6. d + k > 0 => Len(T) > 0 /\ T[Len(T)] = <<Len(R) + 1, d + k>>
    BY <1>3, <1>6, <1>12
  <2>7. QED
    BY <1>0, <1>7, <2>1, <2>2, <2>3, <2>4, <2>5, <2>6, Zenon DEF Ordered
-----------------------------------------------------------------------------
(***************************************************************************)
(* What the steps of write() do to atomic_write.                           *)
(***************************************************************************)
\* A thread between down_interruptible() and up(), and the characters of its
\* call that were accepted.
Locked == {"alloc", "chunk", "write", "sleep", "done", "up"}
Holds(w) == wr[w].pc \in Locked
Accepted(w) == wr[w].written + wr[w].off
Inside == {w \in Writers : wr[w].pc # "idle"}

\* What a step may do to the lock, seen from thread w: nothing, enter write(),
\* take the lock, give up waiting for it, go on with it and store k
\* characters, and return.
Alike(v) == /\ wr'[v].pc = wr[v].pc /\ wr'[v].call = wr[v].call
            /\ wr'[v].written = wr[v].written /\ wr'[v].off = wr[v].off
Others(w) == \A v \in Writers : v # w => Alike(v)

SameLock == UNCHANGED <<atomic_write, returned>>
Joins(w) == /\ wr[w].pc = "idle" /\ wr'[w].pc = "down"
            /\ wr'[w].call = 0 /\ wr'[w].written = 0 /\ wr'[w].off = 0
            /\ SameLock
Takes(w) == /\ wr[w].pc = "down" /\ wr'[w].pc = "alloc"
            /\ atomic_write /\ atomic_write' = FALSE
            /\ wr'[w].call = Len(returned) + 1
            /\ wr'[w].written = wr[w].written /\ wr'[w].off = 0
            /\ returned' = returned
Drops(w) == /\ wr[w].pc = "down" /\ wr'[w].pc = "idle"
            /\ wr'[w].call = 0 /\ wr'[w].written = 0 /\ wr'[w].off = 0
            /\ SameLock
Goes(w, k) == /\ wr[w].pc \in Locked /\ wr'[w].pc \in Locked
              /\ wr'[w].call = wr[w].call /\ wr'[w].written \in Nat /\ wr'[w].off \in Nat
              /\ wr'[w].written + wr'[w].off = wr[w].written + wr[w].off + k
              /\ SameLock
Gives(w) == /\ wr[w].pc = "up" /\ wr'[w].pc = "idle"
            /\ wr'[w].call = 0 /\ wr'[w].written = 0 /\ wr'[w].off = 0
            /\ atomic_write' = TRUE
            /\ wr[w].off = 0
            /\ returned' = Append(returned, wr[w].written)

LEMMA OneRecord ==
  ASSUME TxWrite, NEW w \in Writers, NEW r, wr' = [wr EXCEPT ![w] = r]
  PROVE  wr'[w] = r /\ Others(w)
<1>1. wr'[w] = r /\ \A v \in Writers : v # w => wr'[v] = wr[v]
  BY DEF TxWrite, TxCalls
<1>2. QED
  BY <1>1 DEF Others, Alike

LEMMA Entering ==
  ASSUME TxWrite, NEW w \in Writers, Enters(w)
  PROVE  Others(w) /\ Joins(w) /\ write_wait' = write_wait
<1>1. PICK n \in Counts, nb \in NonBlock :
        wr' = [wr EXCEPT ![w] = [IdleW EXCEPT !.pc = "down", !.count = n, !.nonblock = nb]]
  BY DEF Enters
<1>2. PICK r : r = [IdleW EXCEPT !.pc = "down", !.count = n, !.nonblock = nb]
  OBVIOUS
<1>3. r.pc = "down" /\ r.call = 0 /\ r.written = 0 /\ r.off = 0
  BY <1>2 DEF IdleW
<1>4. wr'[w] = r /\ Others(w)
  BY <1>1, <1>2, OneRecord
<1>5. QED
  BY <1>3, <1>4 DEF Joins, SameLock, Enters

LEMMA Locking ==
  ASSUME TxWrite, NEW w \in Writers, AtomicWrite(w)
  PROVE  Others(w) /\ (Takes(w) \/ Drops(w)) /\ write_wait' = write_wait
<1>0. wr[w].pc = "down" /\ returned' = returned /\ write_wait' = write_wait
  BY DEF AtomicWrite
<1>1. CASE wr' = [wr EXCEPT ![w] = IdleW] /\ UNCHANGED atomic_write
  <2>1. wr'[w] = IdleW /\ Others(w)
    BY <1>1, OneRecord
  <2>2. IdleW.pc = "idle" /\ IdleW.call = 0 /\ IdleW.written = 0 /\ IdleW.off = 0
    BY DEF IdleW
  <2>3. QED
    BY <1>0, <1>1, <2>1, <2>2 DEF Drops, SameLock
<1>2. CASE /\ atomic_write /\ atomic_write' = FALSE
           /\ wr' = [wr EXCEPT ![w].pc = "alloc", ![w].call = Len(returned) + 1]
  <2>1. PICK q \in WriterRec : q = wr[w] /\ WriterFits(q, write_cnt)
    BY TxLocals
  <2>2. PICK n : n = Len(returned) + 1
    OBVIOUS
  <2>3. PICK r : r = [q EXCEPT !.pc = "alloc", !.call = n]
    OBVIOUS
  <2>4. wr' = [wr EXCEPT ![w] = r]
    BY <1>2, <2>1, <2>2, <2>3 DEF TxWrite, TxCalls
  <2>5. r.pc = "alloc" /\ r.call = n /\ r.off = q.off /\ r.written = q.written
    BY <2>3 DEF WriterRec
  <2>6. q.off = 0
    BY <1>0, <2>1 DEF WriterFits, InChunk
  <2>7. wr'[w] = r /\ Others(w)
    BY <2>4, OneRecord
  <2>8. QED
    BY <1>0, <1>2, <2>1, <2>2, <2>5, <2>6, <2>7 DEF Takes
<1>3. QED
  BY <1>1, <1>2 DEF AtomicWrite

\* A thread that holds the lock and stores nothing.
LEMMA GoingOn ==
  ASSUME TxWrite, NEW w \in Writers, NEW q \in WriterRec, q = wr[w], NEW r,
         wr' = [wr EXCEPT ![w] = r], q.pc \in Locked, r.pc \in Locked, r.call = q.call,
         r.written \in Nat, r.off \in Nat, r.written + r.off = q.written + q.off, SameLock
  PROVE  Others(w) /\ Goes(w, 0)
<1>1. wr'[w] = r /\ Others(w)
  BY OneRecord
<1>2. q.written + q.off = q.written + q.off + 0
  BY DEF WriterRec
<1>3. QED
  BY <1>1, <1>2 DEF Goes

LEMMA Allocating ==
  ASSUME TxWrite, NEW w \in Writers, AllocBuf(w)
  PROVE  Others(w) /\ Goes(w, 0) /\ write_wait' = write_wait
<1>1. PICK q \in WriterRec : q = wr[w]
  BY TxLocals
<1>2. SameLock /\ q.pc = "alloc" /\ write_wait' = write_wait /\ q.pc \in Locked
  BY <1>1 DEF AllocBuf, SameLock, Locked
<1>3. q.written \in Nat /\ q.off \in Nat
  BY DEF WriterRec
<1>4. PICK c : c = ChunkLen(q.count)
  OBVIOUS
<1>5. CASE wr' = [wr EXCEPT ![w].pc = "chunk", ![w].chunk = c]
  <2>1. PICK r : r = [q EXCEPT !.pc = "chunk", !.chunk = c]
    OBVIOUS
  <2>2. wr' = [wr EXCEPT ![w] = r]
    BY <1>1, <1>5, <2>1 DEF TxWrite, TxCalls
  <2>3. r.pc = "chunk" /\ r.call = q.call /\ r.written = q.written /\ r.off = q.off
    BY <2>1 DEF WriterRec
  <2>4. r.pc \in Locked
    BY <2>3 DEF Locked
  <2>5. QED
    BY <1>1, <1>2, <1>3, <2>2, <2>3, <2>4, GoingOn
<1>6. CASE wr' = [wr EXCEPT ![w].pc = "up"]
  <2>1. PICK r : r = [q EXCEPT !.pc = "up"]
    OBVIOUS
  <2>2. wr' = [wr EXCEPT ![w] = r]
    BY <1>1, <1>6, <2>1 DEF TxWrite, TxCalls
  <2>3. r.pc = "up" /\ r.call = q.call /\ r.written = q.written /\ r.off = q.off
    BY <2>1 DEF WriterRec
  <2>4. r.pc \in Locked
    BY <2>3 DEF Locked
  <2>5. QED
    BY <1>1, <1>2, <1>3, <2>2, <2>3, <2>4, GoingOn
<1>7. QED
  BY <1>1, <1>4, <1>5, <1>6 DEF AllocBuf

LEMMA Chunking ==
  ASSUME TxWrite, NEW w \in Writers, NextChunk(w)
  PROVE  /\ Others(w) /\ Goes(w, 0)
         /\ write_wait \subseteq Writers => write_wait' \subseteq Writers
<1>1. PICK q \in WriterRec : q = wr[w] /\ WriterFits(q, write_cnt)
  BY TxLocals
<1>2. SameLock /\ q.pc = "chunk" /\ q.pc \in Locked
  BY <1>1 DEF NextChunk, SameLock, Locked
<1>3. q.written \in Nat /\ q.off \in Nat /\ q.off = 0
  BY <1>1, <1>2 DEF WriterRec, WriterFits, InChunk
<1>4. PICK m : m = Less(q.count, q.chunk)
  OBVIOUS
<1>5. CASE wr' = [wr EXCEPT ![w].pc = "write", ![w].off = 0, ![w].nr = m]
  <2>1. PICK r : r = [q EXCEPT !.pc = "write", !.off = 0, !.nr = m]
    OBVIOUS
  <2>2. wr' = [wr EXCEPT ![w] = r]
    BY <1>1, <1>5, <2>1 DEF TxWrite, TxCalls
  <2>3. r.pc = "write" /\ r.call = q.call /\ r.written = q.written /\ r.off = 0
    BY <2>1 DEF WriterRec
  <2>4. r.pc \in Locked
    BY <2>3 DEF Locked
  <2>5. QED
    BY <1>1, <1>2, <1>3, <2>2, <2>3, <2>4, GoingOn DEF NextChunk
<1>6. CASE wr' = [wr EXCEPT ![w].pc = "up"]
  <2>1. PICK r : r = [q EXCEPT !.pc = "up"]
    OBVIOUS
  <2>2. wr' = [wr EXCEPT ![w] = r]
    BY <1>1, <1>6, <2>1 DEF TxWrite, TxCalls
  <2>3. r.pc = "up" /\ r.call = q.call /\ r.written = q.written /\ r.off = q.off
    BY <2>1 DEF WriterRec
  <2>4. r.pc \in Locked
    BY <2>3 DEF Locked
  <2>5. QED
    BY <1>1, <1>2, <1>3, <2>2, <2>3, <2>4, GoingOn DEF NextChunk
<1>7. QED
  BY <1>1, <1>4, <1>5, <1>6 DEF NextChunk

LEMMA Waking ==
  ASSUME TxWrite, NEW w \in Writers, Interrupted(w) \/ ResumeWrite(w)
  PROVE  Others(w) /\ Goes(w, 0) /\ write_wait' = write_wait
<1>1. PICK q \in WriterRec : q = wr[w]
  BY TxLocals
<1>2. SameLock /\ q.pc \in Locked /\ write_wait' = write_wait
  BY <1>1 DEF Interrupted, ResumeWrite, SameLock, Locked
<1>3. PICK p \in {"done", "write"} : wr' = [wr EXCEPT ![w].pc = p, ![w].state = "running"]
  BY DEF Interrupted, ResumeWrite
<1>4. PICK r : r = [q EXCEPT !.pc = p, !.state = "running"]
  OBVIOUS
<1>5. wr' = [wr EXCEPT ![w] = r]
  BY <1>1, <1>3, <1>4 DEF TxWrite, TxCalls
<1>6. r.pc = p /\ r.call = q.call /\ r.written = q.written /\ r.off = q.off
      /\ q.written \in Nat /\ q.off \in Nat
  BY <1>4 DEF WriterRec
<1>7. r.pc \in Locked
  BY <1>6 DEF Locked
<1>8. QED
  BY <1>1, <1>2, <1>5, <1>6, <1>7, GoingOn

LEMMA Finishing ==
  ASSUME TxWrite, NEW w \in Writers, ChunkDone(w)
  PROVE  /\ Others(w) /\ Goes(w, 0)
         /\ write_wait \subseteq Writers => write_wait' \subseteq Writers
<1>1. PICK q \in WriterRec : q = wr[w]
  BY TxLocals
<1>2. SameLock /\ q.pc \in Locked /\ write_wait' = write_wait \ {w}
  BY <1>1 DEF ChunkDone, SameLock, Locked
<1>3. q.written \in Nat /\ q.off \in Nat
  BY DEF WriterRec
<1>4. PICK left, sum : left = q.count - q.off /\ sum = q.written + q.off
  OBVIOUS
<1>5. PICK p \in {"up", "chunk"} :
        wr' = [wr EXCEPT ![w].count = left, ![w].written = sum, ![w].off = 0,
                 ![w].nr = 0, ![w].state = "running", ![w].pc = p]
  <2>1. PICK p : p = IF wr[w].off = 0 \/ left = 0 \/ wr[w].signal THEN "up" ELSE "chunk"
    OBVIOUS
  <2>2. p \in {"up", "chunk"}
    BY <2>1
  <2>3. wr \in [Writers -> WriterRec]
    BY DEF TxWrite, TxCalls
  <2>4. wr' = [wr EXCEPT ![w].count = left, ![w].written = sum, ![w].off = 0,
                 ![w].nr = 0, ![w].state = "running", ![w].pc = p]
    BY <1>1, <1>4, <2>1, <2>3 DEF ChunkDone
  <2>5. QED
    BY <2>2, <2>4
<1>6. PICK r : r = [q EXCEPT !.count = left, !.written = sum, !.off = 0, !.nr = 0,
                      !.state = "running", !.pc = p]
  OBVIOUS
<1>7. wr' = [wr EXCEPT ![w] = r]
  BY <1>1, <1>5, <1>6 DEF TxWrite, TxCalls
<1>8. r.pc = p /\ r.call = q.call /\ r.written = sum /\ r.off = 0
  BY <1>6 DEF WriterRec
<1>9. r.pc \in Locked /\ sum \in Nat /\ sum + 0 = q.written + q.off
  BY <1>3, <1>4, <1>8 DEF Locked
<1>10. r.written \in Nat /\ r.off \in Nat /\ r.written + r.off = q.written + q.off
  BY <1>8, <1>9
<1>11. Others(w) /\ Goes(w, 0)
  BY <1>1, <1>2, <1>7, <1>8, <1>9, <1>10, GoingOn
<1>12. QED
  BY <1>2, <1>11

LEMMA Returning ==
  ASSUME TxWrite, NEW w \in Writers, ReturnWritten(w)
  PROVE  Others(w) /\ Gives(w) /\ write_wait' = write_wait
<1>1. /\ wr' = [wr EXCEPT ![w] = IdleW] /\ write_wait' = write_wait /\ wr[w].pc = "up"
      /\ atomic_write' = TRUE /\ returned' = Append(returned, wr[w].written)
  BY DEF ReturnWritten
<1>2. wr'[w] = IdleW /\ Others(w)
  BY <1>1, OneRecord
<1>3. IdleW.pc = "idle" /\ IdleW.call = 0 /\ IdleW.written = 0 /\ IdleW.off = 0
  BY DEF IdleW
<1>4. wr[w].off = 0
  BY <1>1, TxLocals DEF WriterFits, InChunk
<1>5. QED
  BY <1>1, <1>2, <1>3, <1>4 DEF Gives

LEMMA Signalling ==
  ASSUME TxWrite, NEW w \in Writers, SignalWriter(w)
  PROVE  Others(w) /\ Alike(w) /\ SameLock /\ write_wait' = write_wait
<1>1. PICK q \in WriterRec : q = wr[w]
  BY TxLocals
<1>2. PICK r : r = [q EXCEPT !.signal = TRUE]
  OBVIOUS
<1>3. wr' = [wr EXCEPT ![w] = r]
  BY <1>1, <1>2 DEF SignalWriter, TxWrite, TxCalls
<1>4. r.pc = q.pc /\ r.call = q.call /\ r.written = q.written /\ r.off = q.off
  BY <1>2 DEF WriterRec
<1>5. wr'[w] = r /\ Others(w)
  BY <1>3, OneRecord
<1>6. QED
  BY <1>1, <1>4, <1>5 DEF Alike, SignalWriter, SameLock

LEMMA Woken ==
  ASSUME TxWrite, uart_tasklet_action
  PROVE  (\A v \in Writers : Alike(v)) /\ SameLock /\ write_wait' = write_wait
<1>1. ASSUME NEW v \in Writers PROVE Alike(v)
  <2>1. PICK q \in WriterRec : q = wr[v]
    BY TxLocals
  <2>2. PICK r : r = [q EXCEPT !.state = "running"]
    OBVIOUS
  <2>3. wr'[v] = IF v \in write_wait THEN r ELSE q
    BY <2>1, <2>2 DEF uart_tasklet_action
  <2>4. r.pc = q.pc /\ r.call = q.call /\ r.written = q.written /\ r.off = q.off
    BY <2>2 DEF WriterRec
  <2>5. QED
    BY <2>1, <2>3, <2>4 DEF Alike
<1>2. QED
  BY <1>1 DEF uart_tasklet_action, SameLock

\* uart_write() puts the next characters of the call behind the others.
LEMMA Storing ==
  ASSUME TxWrite, NEW w \in Writers, write_chan(w)
  PROVE  \E k \in 0 .. CircSpace(head, tail) :
           /\ Others(w) /\ Goes(w, k) /\ write_wait' = write_wait
           /\ head' = Advance(head, k)
           /\ buf' = [p \in Pos |->
                        IF (p - head) % PAGE_SIZE < k
                        THEN <<wr[w].call, Accepted(w) + ((p - head) % PAGE_SIZE) + 1>>
                        ELSE buf[p]]
<1>1. PICK q \in WriterRec : q = wr[w]
  BY TxLocals
<1>2. SameLock /\ write_wait' = write_wait /\ q.pc \in Locked
  BY <1>1 DEF write_chan, SameLock, Locked
<1>3. q.nr \in Nat /\ q.off \in Nat /\ q.written \in Nat
  BY DEF WriterRec
<1>4. PICK m \in Nat : m = CircSpace(head, tail)
  <2>1. head \in Pos /\ tail \in Pos
    BY DEF TxWrite, TxRing
  <2>2. PICK n \in Pos : n = CircCnt(head, tail) /\ CircSpace(head, tail) = PAGE_SIZE - 1 - n
    BY <2>1, CircCounts
  <2>3. PAGE_SIZE - 1 - n \in Nat
    BY TxSizes DEF Pos
  <2>4. QED
    BY <2>2, <2>3
<1>5. PICK k \in Nat : k = Fits(w) /\ k <= m
  <2>1. Fits(w) = IF q.nr < m THEN q.nr ELSE m
    BY <1>1, <1>4 DEF Fits, Less
  <2>2. QED
    BY <1>3, <2>1
<1>6. PICK a, b : a = q.nr - k /\ b = q.off + k
  OBVIOUS
<1>7. PICK p \in {"done", "sleep"} :
         wr' = [wr EXCEPT ![w].nr = a, ![w].off = b, ![w].state = "interruptible", ![w].pc = p]
  <2>1. PICK p : p = IF k = wr[w].nr \/ wr[w].nonblock THEN "done" ELSE "sleep"
    OBVIOUS
  <2>2. p \in {"done", "sleep"}
    BY <2>1
  <2>3. wr' = [wr EXCEPT ![w].nr = a, ![w].off = b, ![w].state = "interruptible", ![w].pc = p]
    BY <1>1, <1>5, <1>6, <2>1 DEF write_chan, TxWrite, TxCalls
  <2>4. QED
    BY <2>2, <2>3
<1>8. PICK r : r = [q EXCEPT !.nr = a, !.off = b, !.state = "interruptible", !.pc = p]
  OBVIOUS
<1>9. wr' = [wr EXCEPT ![w] = r]
  BY <1>1, <1>7, <1>8 DEF TxWrite, TxCalls
<1>10. r.pc = p /\ r.call = q.call /\ r.written = q.written /\ r.off = b
  BY <1>8 DEF WriterRec
<1>11. r.pc \in Locked
  BY <1>10 DEF Locked
<1>12. b \in Nat /\ q.written + b = q.written + q.off + k
  BY <1>3, <1>6
<1>13. wr'[w] = r /\ Others(w)
  BY <1>9, OneRecord
<1>14. Goes(w, k)
  BY <1>1, <1>2, <1>3, <1>10, <1>11, <1>12, <1>13 DEF Goes
<1>15. head' = Advance(head, k) /\ buf' = StoreAt(buf, head, w, k)
  BY <1>5 DEF write_chan
<1>16. buf' = [x \in Pos |->
                IF (x - head) % PAGE_SIZE < k
                THEN <<wr[w].call, Accepted(w) + ((x - head) % PAGE_SIZE) + 1>>
                ELSE buf[x]]
  BY <1>15, Zenon DEF StoreAt, Pos, Accepted
<1>17. k \in 0 .. CircSpace(head, tail)
  BY <1>4, <1>5
<1>18. QED
  BY <1>2, <1>13, <1>14, <1>15, <1>16, <1>17, Zenon
-----------------------------------------------------------------------------
(***************************************************************************)
(* atomic_write is held by one thread, whose call is the next to return.   *)
(***************************************************************************)
\* atomic_write: one thread holds it, and its call is the next to return.
TxLock ==
  /\ atomic_write \in BOOLEAN
  /\ \A w \in Writers : Holds(w) => ~atomic_write /\ wr[w].call = Len(returned) + 1
  /\ \A v, w \in Writers : Holds(v) /\ Holds(w) => v = w

\* The calls that have returned and the ones in progress are within the bound.
TxTurn ==
  /\ IsFiniteSet(Inside) /\ Len(returned) + Cardinality(Inside) <= MaxWrite
  /\ \A w \in Writers : wr[w].call \in 0 .. MaxWrite
  /\ \A w \in Writers : ~Holds(w) => wr[w].written = 0

TxLocks == TxLock /\ TxTurn /\ write_wait \subseteq Writers

LEMMA LockSame ==
  ASSUME TxLock, TxTurn, SameLock, \A v \in Writers : Alike(v)
  PROVE  TxLock' /\ TxTurn'
<1>1. \A v \in Writers : Holds(v)' <=> Holds(v)
  BY DEF Holds, Alike
<1>2. TxLock'
  BY <1>1 DEF TxLock, SameLock, Alike
<1>3. Inside' = Inside
  BY DEF Inside, Alike
<1>4. TxTurn'
  BY <1>1, <1>3 DEF TxTurn, SameLock, Alike
<1>5. QED
  BY <1>2, <1>4

LEMMA LockGoes ==
  ASSUME TxLock, TxTurn, NEW w \in Writers, Others(w), NEW k \in Nat, Goes(w, k)
  PROVE  TxLock' /\ TxTurn'
<1>1. \A v \in Writers : Holds(v)' <=> Holds(v)
  BY DEF Holds, Alike, Others, Goes
<1>2. \A v \in Writers : wr'[v].call = wr[v].call
  BY DEF Alike, Others, Goes
<1>3. TxLock'
  BY <1>1, <1>2 DEF TxLock, SameLock, Goes
<1>4. Inside' = Inside
  <2>1. wr[w].pc # "idle" /\ wr'[w].pc # "idle"
    BY DEF Goes, Locked
  <2>2. QED
    BY <2>1 DEF Inside, Others, Alike
<1>5. \A v \in Writers : ~Holds(v)' => wr'[v].written = 0
  BY <1>1 DEF TxTurn, Others, Alike, Goes, Holds
<1>6. TxTurn'
  BY <1>2, <1>4, <1>5 DEF TxTurn, SameLock, Goes
<1>7. QED
  BY <1>3, <1>6

LEMMA LockTakes ==
  ASSUME TxWrite, TxLock, TxTurn, NEW w \in Writers, Others(w), Takes(w)
  PROVE  TxLock' /\ TxTurn' /\ (\A v \in Writers : ~Holds(v)) /\ Accepted(w)' = 0
<1>0. wr[w].pc = "down" /\ wr'[w].pc = "alloc" /\ atomic_write /\ atomic_write' = FALSE
      /\ returned' = returned
  BY DEF Takes
<1>1. \A v \in Writers : ~Holds(v)
  BY <1>0 DEF TxLock
<1>2. \A v \in Writers : Holds(v)' => v = w
  BY <1>1 DEF Holds, Others, Alike
<1>3. wr'[w].call = Len(returned) + 1
  BY DEF Takes
<1>4. TxLock'
  BY <1>0, <1>2, <1>3 DEF TxLock
<1>5. Inside' = Inside
  BY <1>0 DEF Inside, Others, Alike
<1>6. wr'[w].call \in 0 .. MaxWrite
  <2>1. IsFiniteSet(Inside) /\ Len(returned) + Cardinality(Inside) <= MaxWrite
    BY DEF TxTurn
  <2>2. w \in Inside
    BY <1>0 DEF Inside
  <2>3. PICK c \in Nat : c = Cardinality(Inside)
    BY <2>1, FS_CardinalityType
  <2>4. c # 0
    BY <2>1, <2>2, <2>3, FS_EmptySet
  <2>5. PICK m \in Nat : m = Len(returned)
    BY TxLocals
  <2>6. MaxWrite \in Nat
    BY WriteAssumption
  <2>7. QED
    BY <1>3, <2>1, <2>3, <2>4, <2>5, <2>6
<1>7. \A v \in Writers : wr'[v].call \in 0 .. MaxWrite
  BY <1>6 DEF TxTurn, Others, Alike
<1>8. wr'[w].pc \in Locked
  BY <1>0 DEF Locked
<1>9. \A v \in Writers : ~Holds(v)' => wr'[v].written = 0
  BY <1>8 DEF TxTurn, Others, Alike, Holds
<1>10. TxTurn'
  BY <1>0, <1>5, <1>7, <1>9 DEF TxTurn
<1>11. Accepted(w)' = 0
  <2>1. wr'[w].written = wr[w].written /\ wr'[w].off = 0
    BY DEF Takes
  <2>2. wr[w].written = 0
    BY <1>1 DEF TxTurn
  <2>3. QED
    BY <2>1, <2>2 DEF Accepted
<1>12. QED
  BY <1>1, <1>4, <1>10, <1>11

LEMMA LockDrops ==
  ASSUME TxWrite, TxLock, TxTurn, NEW w \in Writers, Others(w), Drops(w)
  PROVE  TxLock' /\ TxTurn'
<1>0. wr[w].pc = "down" /\ wr'[w].pc = "idle" /\ SameLock /\ wr'[w].call = 0 /\ wr'[w].written = 0
  BY DEF Drops
<1>1. ~Holds(w) /\ ~Holds(w)'
  BY <1>0 DEF Holds, Locked
<1>2. \A v \in Writers : Holds(v)' <=> Holds(v)
  BY <1>1 DEF Holds, Others, Alike
<1>3. TxLock'
  BY <1>0, <1>1, <1>2 DEF TxLock, SameLock, Others, Alike
<1>4. Inside' = Inside \ {w}
  BY <1>0 DEF Inside, Others, Alike
<1>5. IsFiniteSet(Inside') /\ Len(returned') + Cardinality(Inside') <= MaxWrite
  <2>1. IsFiniteSet(Inside) /\ Len(returned) + Cardinality(Inside) <= MaxWrite
    BY DEF TxTurn
  <2>2. PICK I : I = Inside
    OBVIOUS
  <2>3. w \in I
    BY <1>0, <2>2 DEF Inside
  <2>4. IsFiniteSet(I \ {w}) /\ Cardinality(I \ {w}) = Cardinality(I) - 1
    BY <2>1, <2>2, <2>3, FS_RemoveElement
  <2>5. PICK c \in Nat : c = Cardinality(I)
    BY <2>1, <2>2, FS_CardinalityType
  <2>6. PICK m \in Nat : m = Len(returned) /\ m = Len(returned')
    BY <1>0, TxLocals DEF SameLock
  <2>7. MaxWrite \in Nat /\ m + c <= MaxWrite
    BY <2>1, <2>2, <2>5, <2>6, WriteAssumption
  <2>8. m + (c - 1) <= MaxWrite
    BY <2>7
  <2>9. QED
    BY <1>4, <2>2, <2>4, <2>5, <2>6, <2>8
<1>6. \A v \in Writers : wr'[v].call \in 0 .. MaxWrite
  <2>1. 0 \in 0 .. MaxWrite
    BY WriteAssumption
  <2>2. QED
    BY <1>0, <2>1 DEF TxTurn, Others, Alike
<1>7. \A v \in Writers : ~Holds(v)' => wr'[v].written = 0
  BY <1>0, <1>2 DEF TxTurn, Others, Alike
<1>8. TxTurn'
  BY <1>5, <1>6, <1>7 DEF TxTurn
<1>9. QED
  BY <1>3, <1>8

LEMMA LockJoins ==
  ASSUME TxWrite, TxLock, TxTurn, NEW w \in Writers, Others(w), Joins(w),
         Len(returned) + Cardinality(Inside) < MaxWrite
  PROVE  TxLock' /\ TxTurn'
<1>0. wr[w].pc = "idle" /\ wr'[w].pc = "down" /\ SameLock /\ wr'[w].call = 0 /\ wr'[w].written = 0
  BY DEF Joins
<1>1. ~Holds(w) /\ ~Holds(w)'
  BY <1>0 DEF Holds, Locked
<1>2. \A v \in Writers : Holds(v)' <=> Holds(v)
  BY <1>1 DEF Holds, Others, Alike
<1>3. TxLock'
  BY <1>0, <1>1, <1>2 DEF TxLock, SameLock, Others, Alike
<1>4. Inside' = Inside \cup {w}
  BY <1>0 DEF Inside, Others, Alike
<1>5. IsFiniteSet(Inside') /\ Len(returned') + Cardinality(Inside') <= MaxWrite
  <2>1. IsFiniteSet(Inside)
    BY DEF TxTurn
  <2>2. PICK I : I = Inside
    OBVIOUS
  <2>3. w \notin I
    BY <1>0, <2>2 DEF Inside
  <2>4. IsFiniteSet(I \cup {w}) /\ Cardinality(I \cup {w}) = Cardinality(I) + 1
    BY <2>1, <2>2, <2>3, FS_AddElement
  <2>5. PICK c \in Nat : c = Cardinality(I)
    BY <2>1, <2>2, FS_CardinalityType
  <2>6. PICK m \in Nat : m = Len(returned) /\ m = Len(returned')
    BY <1>0, TxLocals DEF SameLock
  <2>7. MaxWrite \in Nat /\ m + c < MaxWrite
    BY <2>2, <2>5, <2>6, WriteAssumption
  <2>8. m + (c + 1) <= MaxWrite
    BY <2>7
  <2>9. QED
    BY <1>4, <2>2, <2>4, <2>5, <2>6, <2>8
<1>6. \A v \in Writers : wr'[v].call \in 0 .. MaxWrite
  <2>1. 0 \in 0 .. MaxWrite
    BY WriteAssumption
  <2>2. QED
    BY <1>0, <2>1 DEF TxTurn, Others, Alike
<1>7. \A v \in Writers : ~Holds(v)' => wr'[v].written = 0
  BY <1>0, <1>2 DEF TxTurn, Others, Alike
<1>8. TxTurn'
  BY <1>5, <1>6, <1>7 DEF TxTurn
<1>9. QED
  BY <1>3, <1>8

LEMMA LockGives ==
  ASSUME TxWrite, TxLock, TxTurn, NEW w \in Writers, Others(w), Gives(w)
  PROVE  TxLock' /\ TxTurn' /\ Holds(w) /\ \A v \in Writers : ~Holds(v)'
<1>0. /\ wr[w].pc = "up" /\ wr'[w].pc = "idle" /\ wr'[w].call = 0 /\ wr'[w].written = 0
      /\ atomic_write' = TRUE /\ returned' = Append(returned, wr[w].written)
  BY DEF Gives
<1>1. Holds(w) /\ ~Holds(w)'
  BY <1>0 DEF Holds, Locked
<1>2. \A v \in Writers : ~Holds(v)'
  <2>1. \A v \in Writers : v # w => ~Holds(v)
    BY <1>1 DEF TxLock
  <2>2. QED
    BY <1>1, <2>1 DEF Holds, Others, Alike
<1>3. TxLock'
  BY <1>0, <1>2 DEF TxLock
<1>4. Inside' = Inside \ {w}
  BY <1>0 DEF Inside, Others, Alike
<1>5. IsFiniteSet(Inside') /\ Len(returned') + Cardinality(Inside') <= MaxWrite
  <2>1. IsFiniteSet(Inside) /\ Len(returned) + Cardinality(Inside) <= MaxWrite
    BY DEF TxTurn
  <2>2. PICK I : I = Inside
    OBVIOUS
  <2>3. w \in I
    BY <1>0, <2>2 DEF Inside
  <2>4. IsFiniteSet(I \ {w}) /\ Cardinality(I \ {w}) = Cardinality(I) - 1
    BY <2>1, <2>2, <2>3, FS_RemoveElement
  <2>5. PICK c \in Nat : c = Cardinality(I)
    BY <2>1, <2>2, FS_CardinalityType
  <2>6. PICK m \in Nat : m = Len(returned) /\ m + 1 = Len(returned')
    <3>1. returned \in Seq(Nat) /\ wr[w].written \in Nat
      BY TxLocals DEF WriterRec
    <3>2. QED
      BY <1>0, <3>1
  <2>7. MaxWrite \in Nat /\ m + c <= MaxWrite
    BY <2>1, <2>2, <2>5, <2>6, WriteAssumption
  <2>8. (m + 1) + (c - 1) <= MaxWrite
    BY <2>7
  <2>9. QED
    BY <1>4, <2>2, <2>4, <2>5, <2>6, <2>8
<1>6. \A v \in Writers : wr'[v].call \in 0 .. MaxWrite
  <2>1. 0 \in 0 .. MaxWrite
    BY WriteAssumption
  <2>2. QED
    BY <1>0, <2>1 DEF TxTurn, Others, Alike
<1>7. \A v \in Writers : ~Holds(v)' => wr'[v].written = 0
  <2>1. ASSUME NEW v \in Writers, v # w PROVE wr'[v].written = 0
    <3>1. ~Holds(v)
      BY <1>1, <2>1 DEF TxLock
    <3>2. QED
      BY <2>1, <3>1 DEF TxTurn, Others, Alike
  <2>2. QED
    BY <1>0, <2>1
<1>8. TxTurn'
  BY <1>5, <1>6, <1>7 DEF TxTurn
<1>9. QED
  BY <1>1, <1>2, <1>3, <1>8
-----------------------------------------------------------------------------
(***************************************************************************)
(* The characters of a call are accepted in order.                         *)
(***************************************************************************)
\* The characters accepted so far, the ones of the call that holds the lock
\* included; before a step and after it.
OrderNow(S) ==
  \E d \in Nat : /\ Ordered(S, returned, d)
                 /\ \A w \in Writers : Holds(w) => Accepted(w) = d
                 /\ (\A w \in Writers : ~Holds(w)) => d = 0
OrderNext(S) ==
  \E d \in Nat : /\ Ordered(S, returned', d)
                 /\ \A w \in Writers : Holds(w)' => Accepted(w)' = d
                 /\ (\A w \in Writers : ~Holds(w)') => d = 0

LEMMA OrderSame ==
  ASSUME NEW S, OrderNow(S), returned' = returned,
         \A v \in Writers : Holds(v)' <=> Holds(v),
         \A v \in Writers : Holds(v) => Accepted(v)' = Accepted(v)
  PROVE  OrderNext(S)
<1>1. PICK d \in Nat : /\ Ordered(S, returned, d)
                       /\ \A w \in Writers : Holds(w) => Accepted(w) = d
                       /\ (\A w \in Writers : ~Holds(w)) => d = 0
  BY Zenon DEF OrderNow
<1>2. Ordered(S, returned', d)
  BY <1>1
<1>3. /\ \A w \in Writers : Holds(w)' => Accepted(w)' = d
      /\ (\A w \in Writers : ~Holds(w)') => d = 0
  BY <1>1, Zenon
<1>4. QED
  BY <1>2, <1>3, Zenon DEF OrderNext

LEMMA AlikeHolds ==
  ASSUME NEW v, Alike(v)
  PROVE  (Holds(v)' <=> Holds(v)) /\ Accepted(v)' = Accepted(v)
<1>1. wr'[v].pc = wr[v].pc
  BY DEF Alike
<1>2. Holds(v)' <=> Holds(v)
  BY <1>1, Zenon DEF Holds
<1>3. wr'[v].written = wr[v].written /\ wr'[v].off = wr[v].off
  BY DEF Alike
<1>4. Accepted(v)' = Accepted(v)
  BY <1>3, Zenon DEF Accepted
<1>5. QED
  BY <1>2, <1>4

\* A thread that does not hold the lock, before and after.
LEMMA OrderApart ==
  ASSUME NEW S, OrderNow(S), SameLock, NEW w \in Writers, Others(w), ~Holds(w), ~Holds(w)'
  PROVE  OrderNext(S)
<1>1. \A v \in Writers : v # w => (Holds(v)' <=> Holds(v)) /\ Accepted(v)' = Accepted(v)
  BY AlikeHolds DEF Others
<1>2. returned' = returned
  BY DEF SameLock
<1>3. \A v \in Writers : Holds(v)' <=> Holds(v)
  BY <1>1, Zenon
<1>4. \A v \in Writers : Holds(v) => Accepted(v)' = Accepted(v)
  BY <1>1, Zenon
<1>5. QED
  BY <1>2, <1>3, <1>4, OrderSame

LEMMA OrderTakes ==
  ASSUME TxWrite, TxLock, TxTurn, NEW w \in Writers, Others(w), Takes(w), NEW S, OrderNow(S)
  PROVE  OrderNext(S)
<1>1. (\A v \in Writers : ~Holds(v)) /\ Accepted(w)' = 0
  BY LockTakes
<1>2. PICK d \in Nat : Ordered(S, returned, d) /\ d = 0
  BY <1>1, Zenon DEF OrderNow
<1>3. returned' = returned
  BY DEF Takes
<1>4. wr'[w].pc \in Locked
  BY DEF Takes, Locked
<1>5. Holds(w)'
  BY <1>4, Zenon DEF Holds
<1>6. \A v \in Writers : v # w => ~Holds(v)'
  BY <1>1, AlikeHolds DEF Others
<1>7. \A v \in Writers : Holds(v)' => Accepted(v)' = d
  BY <1>1, <1>2, <1>6, Zenon
<1>8. Ordered(S, returned', d)
  BY <1>2, <1>3
<1>9. QED
  BY <1>5, <1>7, <1>8, Zenon DEF OrderNext

LEMMA OrderGives ==
  ASSUME TxWrite, TxLock, TxTurn, NEW w \in Writers, Others(w), Gives(w), NEW S, OrderNow(S)
  PROVE  OrderNext(S)
<1>1. Holds(w) /\ \A v \in Writers : ~Holds(v)'
  BY LockGives
<1>2. PICK d \in Nat : Ordered(S, returned, d) /\ Accepted(w) = d
  BY <1>1, Zenon DEF OrderNow
<1>3. wr[w].written = d
  <2>1. wr[w].off = 0 /\ wr[w].written \in Nat
    BY TxLocals DEF Gives, WriterRec
  <2>2. QED
    BY <1>2, <2>1 DEF Accepted
<1>4. returned' = Append(returned, d)
  BY <1>3 DEF Gives
<1>5. Ordered(S, returned', 0)
  BY <1>2, <1>4, OrderedReturn
<1>6. 0 \in Nat
  OBVIOUS
<1>7. QED
  BY <1>1, <1>5, <1>6, Zenon DEF OrderNext

LEMMA BytesText ==
  ASSUME NEW c \in Calls, NEW d \in Nat, NEW k \in Nat
  PROVE  /\ Bytes(c, d, k) \in Seq(CallChar) /\ Len(Bytes(c, d, k)) = k
         /\ \A j \in 1 .. k : Bytes(c, d, k)[j] = <<c, d + j>>
  BY DEF Bytes, CallChar

LEMMA OrderGoes ==
  ASSUME TxWrite, TxLock, TxTurn, NEW w \in Writers, Others(w), NEW k \in Nat, Goes(w, k),
         NEW S, OrderNow(S)
  PROVE  /\ wr[w].call \in Calls /\ Accepted(w) \in Nat
         /\ OrderNext(Cat(S, Bytes(wr[w].call, Accepted(w), k)))
<1>0. returned \in Seq(Nat) /\ MaxWrite \in Nat
  BY TxLocals, WriteAssumption
<1>1. Holds(w) /\ Holds(w)'
  BY Zenon DEF Goes, Holds
<1>2. PICK d \in Nat : Ordered(S, returned, d) /\ Accepted(w) = d
  BY <1>1, Zenon DEF OrderNow
<1>3. \A v \in Writers : v # w => ~Holds(v)'
  <2>1. \A v \in Writers : v # w => ~Holds(v)
    BY <1>1 DEF TxLock
  <2>2. QED
    BY <2>1, AlikeHolds DEF Others
<1>4. PICK c : c = wr[w].call
  OBVIOUS
<1>5. c = Len(returned) + 1 /\ c \in Calls
  <2>1. c = Len(returned) + 1
    BY <1>1, <1>4 DEF TxLock
  <2>2. c \in 0 .. MaxWrite
    BY <1>4 DEF TxTurn
  <2>3. QED
    BY <1>0, <2>1, <2>2 DEF Calls
<1>6. PICK y : y = Bytes(c, d, k)
  OBVIOUS
<1>7. y \in Seq(CallChar) /\ Len(y) = k /\ \A j \in 1 .. k : y[j] = <<c, d + j>>
  BY <1>5, <1>6, BytesText
<1>8. S \in Seq(CallChar)
  BY <1>2 DEF Ordered
<1>9. PICK T : T = Cat(S, y)
  OBVIOUS
<1>10. /\ T \in Seq(CallChar) /\ Len(T) = Len(S) + k
       /\ \A i \in 1 .. Len(S) : T[i] = S[i]
       /\ \A j \in 1 .. k : T[Len(S) + j] = <<Len(returned) + 1, d + j>>
  <2>1. T = S \o y
    BY <1>9 DEF Cat
  <2>2. T \in Seq(CallChar) /\ Len(T) = Len(S) + Len(y)
    BY <1>7, <1>8, <2>1, ConcatProperties
  <2>3. \A i \in 1 .. Len(S) + Len(y) : T[i] = IF i <= Len(S) THEN S[i] ELSE y[i - Len(S)]
    BY <1>7, <1>8, <2>1, ConcatProperties
  <2>4. PICK n \in Nat : n = Len(S)
    BY <1>8
  <2>5. ASSUME NEW i \in 1 .. n PROVE T[i] = S[i]
    <3>1. i \in 1 .. Len(S) + Len(y) /\ i <= Len(S)
      BY <1>7, <2>4
    <3>2. QED
      BY <2>3, <3>1, Zenon
  <2>6. ASSUME NEW j \in 1 .. k PROVE T[n + j] = <<Len(returned) + 1, d + j>>
    <3>8. PICK i : i = n + j
      OBVIOUS
    <3>0. i \in 1 .. Len(S) + Len(y) /\ ~(i <= Len(S)) /\ i - Len(S) = j
      BY <1>7, <2>4, <3>8
    <3>2. T[i] = y[j]
      BY <2>3, <3>0, Zenon
    <3>3. y[j] = <<Len(returned) + 1, d + j>>
      BY <1>5, <1>7
    <3>4. QED
      BY <3>8, <3>2, <3>3
  <2>7. QED
    BY <1>7, <2>2, <2>4, <2>5, <2>6
<1>11. Ordered(T, returned, d + k)
  BY <1>2, <1>5, <1>10, OrderedMore
<1>12. returned' = returned
  BY DEF Goes, SameLock
<1>13. Ordered(T, returned', d + k) /\ d + k \in Nat
  BY <1>11, <1>12
<1>14. Accepted(w)' = d + k
  BY <1>2 DEF Goes, Accepted
<1>15. OrderNext(T)
  BY <1>1, <1>3, <1>13, <1>14, Zenon DEF OrderNext
<1>16. QED
  BY <1>2, <1>4, <1>5, <1>6, <1>9, <1>15

\* A step that stores nothing.
LEMMA OrderStays ==
  ASSUME NEW w \in Writers, Others(w), TxWrite, Goes(w, 0), NEW S, OrderNow(S)
  PROVE  OrderNext(S)
<1>1. Holds(w) /\ Holds(w)'
  BY Zenon DEF Goes, Holds
<1>2. Accepted(w)' = Accepted(w)
  <2>1. wr[w].written \in Nat /\ wr[w].off \in Nat
    BY TxLocals DEF WriterRec
  <2>2. QED
    BY <2>1 DEF Goes, Accepted
<1>3. \A v \in Writers : v # w => (Holds(v)' <=> Holds(v)) /\ Accepted(v)' = Accepted(v)
  BY AlikeHolds DEF Others
<1>4. returned' = returned
  BY DEF Goes, SameLock
<1>5. \A v \in Writers : Holds(v)' <=> Holds(v)
  BY <1>1, <1>3, Zenon
<1>6. \A v \in Writers : Holds(v) => Accepted(v)' = Accepted(v)
  BY <1>2, <1>3, Zenon
<1>7. QED
  BY <1>4, <1>5, <1>6, OrderSame

\* A thread away from the port.
LEMMA OrderThread ==
  ASSUME TxWrite, TxLocks, NEW w \in Writers,
         (Enters(w) /\ Started < MaxWrite) \/ WriteStep(w) \/ SignalWriter(w)
  PROVE  TxLocks' /\ \A S : OrderNow(S) => OrderNext(S)
<1>0. TxLock /\ TxTurn /\ write_wait \subseteq Writers
  BY DEF TxLocks
<1>1. CASE Enters(w) /\ Started < MaxWrite
  <2>1. Others(w) /\ Joins(w) /\ write_wait' = write_wait
    BY <1>1, Entering
  <2>2. Len(returned) + Cardinality(Inside) < MaxWrite
    BY <1>1 DEF Started, Inside
  <2>3. TxLock' /\ TxTurn'
    BY <1>0, <2>1, <2>2, LockJoins
  <2>4. SameLock /\ wr[w].pc \notin Locked /\ wr'[w].pc \notin Locked
    BY <2>1 DEF Joins, Locked
  <2>5. ~Holds(w) /\ ~Holds(w)'
    BY <2>4, Zenon DEF Holds
  <2>6. \A S : OrderNow(S) => OrderNext(S)
    BY <2>1, <2>4, <2>5, OrderApart
  <2>7. QED
    BY <1>0, <2>1, <2>3, <2>6 DEF TxLocks
<1>2. CASE AtomicWrite(w)
  <2>1. Others(w) /\ (Takes(w) \/ Drops(w)) /\ write_wait' = write_wait
    BY <1>2, Locking
  <2>2. CASE Takes(w)
    <3>1. TxLock' /\ TxTurn'
      BY <1>0, <2>1, <2>2, LockTakes
    <3>2. \A S : OrderNow(S) => OrderNext(S)
      BY <1>0, <2>1, <2>2, OrderTakes
    <3>3. QED
      BY <1>0, <2>1, <3>1, <3>2 DEF TxLocks
  <2>3. CASE Drops(w)
    <3>1. TxLock' /\ TxTurn'
      BY <1>0, <2>1, <2>3, LockDrops
    <3>2. SameLock /\ wr[w].pc \notin Locked /\ wr'[w].pc \notin Locked
      BY <2>3 DEF Drops, Locked
    <3>3. ~Holds(w) /\ ~Holds(w)'
      BY <3>2, Zenon DEF Holds
    <3>4. \A S : OrderNow(S) => OrderNext(S)
      BY <2>1, <3>2, <3>3, OrderApart
    <3>5. QED
      BY <1>0, <2>1, <3>1, <3>4 DEF TxLocks
  <2>4. QED
    BY <2>1, <2>2, <2>3
<1>3. CASE AllocBuf(w) \/ NextChunk(w) \/ Interrupted(w) \/ ResumeWrite(w) \/ ChunkDone(w)
  <2>1. /\ Others(w) /\ Goes(w, 0)
        /\ write_wait \subseteq Writers => write_wait' \subseteq Writers
    BY <1>3, Allocating, Chunking, Waking, Finishing
  <2>2. TxLock' /\ TxTurn'
    BY <1>0, <2>1, LockGoes
  <2>3. \A S : OrderNow(S) => OrderNext(S)
    BY <2>1, OrderStays
  <2>4. QED
    BY <1>0, <2>1, <2>2, <2>3 DEF TxLocks
<1>4. CASE ReturnWritten(w)
  <2>1. Others(w) /\ Gives(w) /\ write_wait' = write_wait
    BY <1>4, Returning
  <2>2. TxLock' /\ TxTurn'
    BY <1>0, <2>1, LockGives
  <2>3. \A S : OrderNow(S) => OrderNext(S)
    BY <1>0, <2>1, OrderGives
  <2>4. QED
    BY <1>0, <2>1, <2>2, <2>3 DEF TxLocks
<1>5. CASE SignalWriter(w)
  <2>1. Others(w) /\ Alike(w) /\ SameLock /\ write_wait' = write_wait
    BY <1>5, Signalling
  <2>2. \A v \in Writers : Alike(v)
    BY <2>1 DEF Others
  <2>3. TxLock' /\ TxTurn'
    BY <1>0, <2>1, <2>2, LockSame
  <2>4. \A S : OrderNow(S) => OrderNext(S)
    <3>1. \A v \in Writers : (Holds(v)' <=> Holds(v)) /\ Accepted(v)' = Accepted(v)
      BY <2>2, AlikeHolds
    <3>2. returned' = returned
      BY <2>1 DEF SameLock
    <3>3. QED
      BY <3>1, <3>2, OrderSame
  <2>5. QED
    BY <1>0, <2>1, <2>3, <2>4 DEF TxLocks
<1>6. QED
  BY <1>1, <1>2, <1>3, <1>4, <1>5 DEF WriteStep

\* The tasklet, and steps that leave the threads alone.
LEMMA OrderWoken ==
  ASSUME TxWrite, TxLocks,
         uart_tasklet_action \/ UNCHANGED <<wr, write_wait, atomic_write, returned>>
  PROVE  TxLocks' /\ \A S : OrderNow(S) => OrderNext(S)
<1>0. TxLock /\ TxTurn /\ write_wait \subseteq Writers
  BY DEF TxLocks
<1>1. (\A v \in Writers : Alike(v)) /\ SameLock /\ write_wait' = write_wait
  <2>1. CASE uart_tasklet_action
    BY <2>1, Woken
  <2>2. CASE UNCHANGED <<wr, write_wait, atomic_write, returned>>
    BY <2>2 DEF Alike, SameLock
  <2>3. QED
    BY <2>1, <2>2
<1>2. TxLock' /\ TxTurn'
  BY <1>0, <1>1, LockSame
<1>3. \A S : OrderNow(S) => OrderNext(S)
  <2>1. \A v \in Writers : (Holds(v)' <=> Holds(v)) /\ Accepted(v)' = Accepted(v)
    BY <1>1, AlikeHolds
  <2>2. returned' = returned
    BY <1>1 DEF SameLock
  <2>3. QED
    BY <2>1, <2>2, OrderSame
<1>4. QED
  BY <1>0, <1>1, <1>2, <1>3 DEF TxLocks

\* uart_write() appends the next characters of the call that holds the lock.
Stored(c, d, k) ==
  head' = Advance(head, k) /\ StoredIn(buf', buf, head, c, d, k)

LEMMA OrderStores ==
  ASSUME TxWrite, TxLocks, NEW w \in Writers, write_chan(w), NEW S, OrderNow(S)
  PROVE  /\ TxLocks'
         /\ \E c \in Calls, d \in Nat, k \in 0 .. CircSpace(head, tail) :
              Stored(c, d, k) /\ OrderNext(Cat(S, Bytes(c, d, k)))
<1>0. TxLock /\ TxTurn /\ write_wait \subseteq Writers
  BY DEF TxLocks
<1>1. PICK k \in 0 .. CircSpace(head, tail) :
           /\ Others(w) /\ Goes(w, k) /\ write_wait' = write_wait
           /\ head' = Advance(head, k)
           /\ buf' = [p \in Pos |->
                        IF (p - head) % PAGE_SIZE < k
                        THEN <<wr[w].call, Accepted(w) + ((p - head) % PAGE_SIZE) + 1>>
                        ELSE buf[p]]
  BY Storing, Zenon
<1>2. k \in Nat
  <2>1. head \in Pos /\ tail \in Pos
    BY DEF TxWrite, TxRing
  <2>2. PICK n \in Pos : n = CircCnt(head, tail) /\ CircSpace(head, tail) = PAGE_SIZE - 1 - n
    BY <2>1, CircCounts
  <2>3. PAGE_SIZE - 1 - n \in Nat
    BY TxSizes DEF Pos
  <2>4. QED
    BY <2>2, <2>3
<1>3. TxLock' /\ TxTurn'
  BY <1>0, <1>1, <1>2, LockGoes, Zenon
<1>4. /\ wr[w].call \in Calls /\ Accepted(w) \in Nat
      /\ OrderNext(Cat(S, Bytes(wr[w].call, Accepted(w), k)))
  BY <1>0, <1>1, <1>2, OrderGoes, Zenon
<1>5. Stored(wr[w].call, Accepted(w), k)
  BY <1>1, Zenon DEF Stored, StoredIn
<1>6. TxLocks'
  BY <1>0, <1>1, <1>3, Zenon DEF TxLocks
<1>7. QED
  BY <1>4, <1>5, <1>6, Zenon
-----------------------------------------------------------------------------
(***************************************************************************)
(* What the buffer and the descriptors hold is accepted characters.        *)
(***************************************************************************)
\* An accepted character is a character.
LEMMA CallText ==
  ASSUME NEW s \in Seq(CallChar)
  PROVE  s \in Seq(Char)
<1>1. \A x \in CallChar : x \in Char
  BY WriteAssumption DEF CallChar, Calls, Char
<1>2. PICK n \in Nat : n = Len(s) /\ s \in [1 .. n -> CallChar]
  OBVIOUS
<1>3. s \in [1 .. n -> Char]
  BY <1>1, <1>2
<1>4. QED
  BY <1>3

\* Four texts joined in two ways.
LEMMA CatFour ==
  ASSUME NEW T, NEW a \in Seq(T), NEW b \in Seq(T), NEW c \in Seq(T), NEW d \in Seq(T)
  PROVE  Cat(Cat(Cat(a, b), c), d) = Cat(Cat(a, b), Cat(c, d))
<1>1. PICK x : x = a \o b
  OBVIOUS
<1>2. x \in Seq(T)
  BY <1>1, ConcatProperties
<1>3. (x \o c) \o d = x \o (c \o d)
  BY <1>2, CatAssoc, SMTT(20)
<1>4. QED
  BY <1>1, <1>3 DEF Cat

\* The characters of the buffer, and the cells they are in.
Cells == [Pos -> (0 .. MaxWrite) \X Nat]
TxText == buf \in Cells /\ Pending(buf, head, tail) \in Seq(CallChar)

\* uart_write() appends to the buffer.
LEMMA StoredText ==
  ASSUME TxRing, TxText, NEW c \in Calls, NEW d \in Nat,
         NEW k \in 0 .. CircSpace(head, tail), Stored(c, d, k)
  PROVE  /\ buf' \in Cells
         /\ Pending(buf', head', tail) \in Seq(CallChar)
         /\ Pending(buf', head', tail) = Cat(Pending(buf, head, tail), Bytes(c, d, k))
         /\ Bytes(c, d, k) \in Seq(CallChar)
<1>1. head \in Pos /\ tail \in Pos /\ buf \in [Pos -> Char] /\ c \in Nat
  BY WriteAssumption DEF TxRing, Calls
<1>2. PICK b2 : b2 = buf'
  OBVIOUS
<1>3. b2 = [p \in Pos |-> IF (p - head) % PAGE_SIZE < k
                          THEN <<c, d + ((p - head) % PAGE_SIZE) + 1>> ELSE buf[p]]
  BY <1>2, Zenon DEF Stored, StoredIn
<1>4. Pending(b2, Advance(head, k), tail) = Cat(Pending(buf, head, tail), Bytes(c, d, k))
  <2>1. StoredIn(b2, buf, head, c, d, k)
    BY <1>2 DEF Stored
  <2>2. QED
    BY <1>1, <2>1, PendingStore
<1>5. k \in Nat
  <2>1. PICK n \in Pos : n = CircCnt(head, tail) /\ CircSpace(head, tail) = PAGE_SIZE - 1 - n
    BY <1>1, CircCounts
  <2>2. PAGE_SIZE - 1 - n \in Nat
    BY TxSizes DEF Pos
  <2>3. QED
    BY <2>1, <2>2
<1>6. Bytes(c, d, k) \in Seq(CallChar)
  BY <1>5, BytesText
<1>7. Cat(Pending(buf, head, tail), Bytes(c, d, k)) \in Seq(CallChar)
  <2>1. PICK x, y : x = Pending(buf, head, tail) /\ y = Bytes(c, d, k)
    OBVIOUS
  <2>2. x \in Seq(CallChar) /\ y \in Seq(CallChar)
    BY <1>6, <2>1 DEF TxText
  <2>3. x \o y \in Seq(CallChar)
    BY <2>2, ConcatProperties
  <2>4. QED
    BY <2>1, <2>3 DEF Cat
<1>8. b2 \in Cells
  <2>1. ASSUME NEW p \in Pos
        PROVE  (IF (p - head) % PAGE_SIZE < k THEN <<c, d + ((p - head) % PAGE_SIZE) + 1>>
                ELSE buf[p]) \in (0 .. MaxWrite) \X Nat
    <3>1. PICK a \in Nat : a = (p - head) % PAGE_SIZE
      <4>1. PICK e \in Int : e = p - head
        BY <1>1 DEF Pos
      <4>2. e % PAGE_SIZE \in Nat
        BY TxSizes
      <4>3. QED
        BY <4>1, <4>2
    <3>2. buf[p] \in (0 .. MaxWrite) \X Nat
      BY DEF TxText, Cells
    <3>3. c \in 0 .. MaxWrite
      BY WriteAssumption DEF Calls
    <3>4. <<c, d + a + 1>> \in (0 .. MaxWrite) \X Nat
      BY <3>3
    <3>5. QED
      BY <3>1, <3>2, <3>4
  <2>2. QED
    BY <1>3, <2>1, Zenon DEF Cells
<1>9. head' = Advance(head, k)
  BY DEF Stored
<1>10. QED
  BY <1>2, <1>4, <1>6, <1>7, <1>8, <1>9

\* The descriptors hold accepted characters.
Filled(b) == b \in [BDs -> [ready : BOOLEAN, data : Seq(CallChar)]]

\* The pump moves the first characters of the buffer behind the ones to be sent.
LEMMA PumpedText ==
  ASSUME UccTypes, UccRing, tail \in Pos, qe_cur' = qe_cur, Filled(bd),
         NEW b \in [Pos -> Char], NEW h \in Pos, qe_uart_tx_pump(b, h),
         Pending(b, h, tail) \in Seq(CallChar)
  PROVE  /\ Filled(bd') /\ Pending(b, h, tail') \in Seq(CallChar)
         /\ Cat(Waiting'[TX_NUM_FIFO], Pending(b, h, tail'))
              = Cat(Waiting[TX_NUM_FIFO], Pending(b, h, tail))
<1> DEFINE N == TX_NUM_FIFO
           B == TX_BUF_SIZE
<1>1. N \in Nat \ {0} /\ B \in Nat \ {0}
  BY TxSizes
<1>2. PICK n \in Pos : n = CircCnt(h, tail)
  BY CircCounts
<1>3. n \in Nat
  BY <1>2 DEF Pos
<1>4. PICK s : s = Pending(b, h, tail)
  OBVIOUS
<1>5. s \in Seq(CallChar) /\ Len(s) = n
  BY <1>2, <1>4, PendingText
<1>6. PICK W, V : W = Waiting[N] /\ V = Waiting'[N]
  OBVIOUS
<1>7. PICK k : k = Taken(h)
  OBVIOUS
<1>8. k \in 0 .. CircCnt(h, tail) /\ tail' = Advance(tail, k) /\ V = W \o SubSeq(s, 1, k)
  BY <1>4, <1>6, <1>7, WaitingFills
<1>9. k \in 0 .. n /\ k \in Nat /\ k <= n
  BY <1>2, <1>3, <1>8
<1>10. PICK r : r = Pending(b, h, tail')
  OBVIOUS
<1>11. r = SubSeq(s, k + 1, n)
  BY <1>2, <1>4, <1>8, <1>10, PendingTake
<1>12. PICK q : q = SubSeq(s, 1, k)
  OBVIOUS
<1>13. q \in Seq(CallChar) /\ r \in Seq(CallChar) /\ q \o r = s
  BY <1>5, <1>9, <1>11, <1>12, CatSplit
<1>14. W \in Seq(Char)
  <2>1. IsChain(ChainOf(bd, qe_cur), HeldOf(bd, qe_cur), TX_NUM_FIFO)
    BY WaitingChain DEF UccTypes
  <2>2. Waiting = ChainOf(bd, qe_cur)
    BY WaitingIs
  <2>3. Waiting \in [0 .. N -> Seq(Char)] /\ N \in 0 .. N
    BY <1>1, <2>1, <2>2 DEF IsChain
  <2>4. QED
    BY <1>6, <2>3
<1>15. V \o r = W \o s
  <2>1. q \in Seq(Char) /\ r \in Seq(Char)
    BY <1>13, CallText
  <2>2. (W \o q) \o r = W \o (q \o r)
    BY <1>14, <2>1, CatAssoc
  <2>3. V = W \o q
    BY <1>8, <1>12
  <2>4. QED
    BY <1>13, <2>2, <2>3
<1>16. PICK e : e = (k + B - 1) \div B
  OBVIOUS
<1>17. bd' = [i \in BDs |->
                  IF (i - tx_cur) % N < e
                    THEN [ready |-> TRUE,
                          data  |-> SubSeq(s, ((i - tx_cur) % N) * B + 1,
                                           Less(k, (((i - tx_cur) % N) + 1) * B))]
                    ELSE bd[i]]
  BY <1>4, <1>7, <1>16 DEF qe_uart_tx_pump
<1>18. ASSUME NEW i \in BDs PROVE bd'[i] \in [ready : BOOLEAN, data : Seq(CallChar)]
  <2>1. PICK d \in Nat : d = (i - tx_cur) % N
    <3>1. PICK c \in Int : c = i - tx_cur
      BY <1>1 DEF UccTypes, BDs
    <3>2. c % N \in Nat
      BY <1>1
    <3>3. QED
      BY <3>1, <3>2
  <2>2. PICK x, y : x = d * B + 1 /\ y = Less(k, (d + 1) * B)
    OBVIOUS
  <2>3. x \in Nat /\ x >= 1 /\ y \in Nat /\ y <= k
    <3>1. d * B \in Nat /\ (d + 1) * B \in Nat
      BY <1>1
    <3>2. QED
      BY <1>9, <2>2, <3>1 DEF Less
  <2>4. SubSeq(s, x, y) \in Seq(CallChar)
    BY <1>5, <1>9, <2>3
  <2>5. bd'[i] = IF d < e THEN [ready |-> TRUE, data |-> SubSeq(s, x, y)] ELSE bd[i]
    BY <1>17, <2>1, <2>2, Zenon
  <2>6. bd[i] \in [ready : BOOLEAN, data : Seq(CallChar)]
    BY DEF Filled
  <2>7. PICK t \in Seq(CallChar) : t = SubSeq(s, x, y)
    BY <2>4
  <2>8. [ready |-> TRUE, data |-> t] \in [ready : BOOLEAN, data : Seq(CallChar)]
    OBVIOUS
  <2>9. QED
    BY <2>5, <2>6, <2>7, <2>8
<1>19. Filled(bd')
  <2>1. bd' = [i \in BDs |-> bd'[i]]
    BY <1>17, Zenon
  <2>2. QED
    BY <1>18, <2>1, Zenon DEF Filled
<1>20. QED
  BY <1>4, <1>6, <1>10, <1>13, <1>15, <1>19 DEF Cat
-----------------------------------------------------------------------------
(***************************************************************************)
(* A UCC port keeps the order.                                             *)
(***************************************************************************)
UccText == TxText /\ Filled(bd) /\ out \in Seq(CallChar)

LEMMA StreamIs ==
  /\ Stream = Cat(Cat(out, Waiting[TX_NUM_FIFO]), Pending(buf, head, tail))
  /\ Stream' = Cat(Cat(out', Waiting'[TX_NUM_FIFO]), Pending(buf', head', tail'))
<1>1. Stream = Cat(Cat(out, Waiting[TX_NUM_FIFO]), Pending(buf, head, tail))
  BY Zenon DEF Stream, Cat
<1>2. Stream' = Cat(Cat(out', Waiting'[TX_NUM_FIFO]), Pending(buf', head', tail'))
  BY Zenon DEF Stream, Cat
<1>3. QED
  BY <1>1, <1>2

LEMMA OrderPrimed ==
  ASSUME NEW S, S = Stream', OrderNext(S)
  PROVE  OrderNow(Stream)'
<1>1. OrderNext(Stream')
  BY Zenon
<1>2. QED
  BY <1>1, Zenon DEF OrderNext, OrderNow

\* The descriptors to be sent hold a text.
LEMMA WaitingText ==
  ASSUME UccTypes
  PROVE  Waiting[TX_NUM_FIFO] \in Seq(Char)
<1>1. IsChain(ChainOf(bd, qe_cur), HeldOf(bd, qe_cur), TX_NUM_FIFO)
  BY WaitingChain DEF UccTypes
<1>2. Waiting = ChainOf(bd, qe_cur)
  BY WaitingIs
<1>3. Waiting \in [0 .. TX_NUM_FIFO -> Seq(Char)] /\ TX_NUM_FIFO \in 0 .. TX_NUM_FIFO
  BY <1>1, <1>2, TxSizes DEF IsChain
<1>4. QED
  BY <1>3

\* Nothing moves.
LEMMA UccTextSame ==
  ASSUME UccText, UNCHANGED <<head, tail, buf, bd, qe_cur, out>>
  PROVE  UccText' /\ Stream' = Stream
<1>1. TxText'
  BY DEF UccText, TxText, Pending, CircCnt, Cells, Pos, CallChar, Calls
<1>2. Filled(bd')
  BY DEF UccText
<1>3. out' \in Seq(CallChar)
  BY DEF UccText
<1>4. Waiting' = Waiting
  BY WaitingIs
<1>5. Stream' = Stream
  BY <1>4, StreamIs
<1>6. UccText'
  BY <1>1, <1>2, <1>3 DEF UccText, Filled, CallChar, Calls, BDs
<1>7. QED
  BY <1>5, <1>6

\* A text moved from one place of three to the one before it.
LEMMA CatMoved ==
  ASSUME NEW T, NEW a \in Seq(T), NEW b \in Seq(T), NEW c \in Seq(T), NEW d \in Seq(T),
         NEW e \in Seq(T), Cat(b, c) = Cat(d, e)
  PROVE  Cat(Cat(a, b), c) = Cat(Cat(a, d), e)
<1>1. (a \o b) \o c = a \o (b \o c)
  BY CatAssoc, SMTT(20)
<1>2. (a \o d) \o e = a \o (d \o e)
  BY CatAssoc
<1>3. b \o c = d \o e
  BY DEF Cat
<1>4. QED
  BY <1>1, <1>2, <1>3 DEF Cat

\* qe_uart_int()
LEMMA UccTextPumped ==
  ASSUME TxWrite, UccInv, UccText, NEW b \in [Pos -> Char], NEW h \in Pos,
         b \in Cells, Pending(b, h, tail) \in Seq(CallChar),
         qe_uart_tx_pump(b, h), buf' = b, head' = h, UNCHANGED <<qe_cur, out>>
  PROVE  /\ UccText'
         /\ Stream' = Cat(Cat(out, Waiting[TX_NUM_FIFO]), Pending(b, h, tail))
<1>1. UccTypes /\ UccRing /\ tail \in Pos /\ Filled(bd)
  BY DEF UccInv, TxWrite, TxRing, UccText
<1>2. /\ Filled(bd') /\ Pending(b, h, tail') \in Seq(CallChar)
      /\ Cat(Waiting'[TX_NUM_FIFO], Pending(b, h, tail'))
           = Cat(Waiting[TX_NUM_FIFO], Pending(b, h, tail))
  BY <1>1, PumpedText
<1>3. UccTypes'
  BY <1>1, Pumps
<1>4. PICK o, V, W, p, q : /\ o = out /\ V = Waiting'[TX_NUM_FIFO] /\ W = Waiting[TX_NUM_FIFO]
                           /\ p = Pending(b, h, tail') /\ q = Pending(b, h, tail)
  OBVIOUS
<1>5. o \in Seq(Char) /\ p \in Seq(Char) /\ q \in Seq(Char)
  BY <1>2, <1>4, CallText DEF UccText
<1>6. W \in Seq(Char)
  BY <1>1, <1>4, WaitingText
<1>7. V \in Seq(Char)
  <2>1. PICK b2, q2 : b2 = bd' /\ q2 = qe_cur'
    OBVIOUS
  <2>2. b2 \in [BDs -> Descriptor] /\ q2 \in BDs
    BY <1>3, <2>1 DEF UccTypes, BDs
  <2>3. IsChain(ChainOf(b2, q2), HeldOf(b2, q2), TX_NUM_FIFO)
    BY <2>2, WaitingChain
  <2>4. Waiting' = ChainOf(b2, q2)
    BY <2>1, WaitingIs
  <2>5. Waiting' \in [0 .. TX_NUM_FIFO -> Seq(Char)] /\ TX_NUM_FIFO \in 0 .. TX_NUM_FIFO
    BY <2>3, <2>4, TxSizes DEF IsChain
  <2>6. QED
    BY <1>4, <2>5
<1>8. Cat(Cat(o, V), p) = Cat(Cat(o, W), q)
  BY <1>2, <1>4, <1>5, <1>6, <1>7, CatMoved
<1>9. Stream' = Cat(Cat(out, Waiting[TX_NUM_FIFO]), Pending(b, h, tail))
  BY <1>4, <1>8, StreamIs
<1>10. UccText'
  <2>1. buf' \in Cells /\ Pending(buf', head', tail') \in Seq(CallChar) /\ out' \in Seq(CallChar)
    BY <1>2 DEF UccText
  <2>2. QED
    BY <1>2, <2>1 DEF UccText, TxText, Filled, Cells, Pos, CallChar, Calls, BDs
<1>11. QED
  BY <1>9, <1>10

\* The engine sends a descriptor.
LEMMA UccTextSends ==
  ASSUME TxWrite, UccInv, UccText, QeSend
  PROVE  UccText' /\ Stream' = Stream
<1>1. UccTypes /\ UccTypes'
  BY UccSends DEF UccInv
<1>2. /\ UNCHANGED <<head, tail, buf>> /\ out' = out \o bd[qe_cur].data
      /\ bd' = [bd EXCEPT ![qe_cur].ready = FALSE]
  BY DEF QeSend, ringVars
<1>3. PICK x : x = bd[qe_cur].data
  OBVIOUS
<1>4. qe_cur \in BDs /\ x \in Seq(CallChar)
  BY <1>1, <1>3 DEF UccTypes, UccText, Filled
<1>5. PICK W, V : W = Waiting[TX_NUM_FIFO] /\ V = Waiting'[TX_NUM_FIFO]
  OBVIOUS
<1>6. W = x \o V
  BY <1>1, <1>3, <1>5, WaitingSends
<1>7. V \in Seq(Char)
  <2>1. PICK b2, q2 : b2 = bd' /\ q2 = qe_cur'
    OBVIOUS
  <2>2. b2 \in [BDs -> Descriptor] /\ q2 \in BDs
    BY <1>1, <2>1 DEF UccTypes, BDs
  <2>3. IsChain(ChainOf(b2, q2), HeldOf(b2, q2), TX_NUM_FIFO)
    BY <2>2, WaitingChain
  <2>4. Waiting' = ChainOf(b2, q2)
    BY <2>1, WaitingIs
  <2>5. Waiting' \in [0 .. TX_NUM_FIFO -> Seq(Char)] /\ TX_NUM_FIFO \in 0 .. TX_NUM_FIFO
    BY <2>3, <2>4, TxSizes DEF IsChain
  <2>6. QED
    BY <1>5, <2>5
<1>8. PICK o : o = out
  OBVIOUS
<1>9. o \in Seq(Char) /\ x \in Seq(Char) /\ o \in Seq(CallChar)
  BY <1>4, <1>8, CallText DEF UccText
<1>10. (o \o x) \o V = o \o (x \o V)
  BY <1>7, <1>9, CatAssoc
<1>11. Cat(out', V) = Cat(out, W)
  BY <1>2, <1>3, <1>6, <1>8, <1>10 DEF Cat
<1>12. Stream' = Stream
  BY <1>2, <1>5, <1>11, StreamIs
<1>13. out' \in Seq(CallChar)
  <2>1. o \o x \in Seq(CallChar)
    BY <1>4, <1>9, ConcatProperties
  <2>2. QED
    BY <1>2, <1>3, <1>8, <2>1
<1>14. Filled(bd')
  <2>1. PICK R : R = [ready : BOOLEAN, data : Seq(CallChar)]
    OBVIOUS
  <2>2. bd \in [BDs -> R]
    BY <2>1 DEF UccText, Filled
  <2>3. PICK d \in R : d = bd[qe_cur]
    BY <1>4, <2>2
  <2>4. PICK r : r = [d EXCEPT !.ready = FALSE]
    OBVIOUS
  <2>5. r \in R
    BY <2>1, <2>4
  <2>6. bd' = [bd EXCEPT ![qe_cur] = r]
    BY <1>2, <1>4, <2>2, <2>3, <2>4
  <2>7. bd' \in [BDs -> R]
    BY <1>4, <2>2, <2>5, <2>6
  <2>8. QED
    BY <2>1, <2>7 DEF Filled
<1>15. TxText'
  BY <1>2 DEF UccText, TxText, Pending, CircCnt, Cells, Pos, CallChar, Calls
<1>16. UccText'
  BY <1>13, <1>14, <1>15 DEF UccText, Filled, CallChar, Calls, BDs
<1>17. QED
  BY <1>12, <1>16

\* uart_write() on this port.
LEMMA UccTextStores ==
  ASSUME TxWrite, UccInv, UccText, NEW w \in Writers, UartWrite(w), cpc = "open",
         NEW c \in Calls, NEW d \in Nat,
         NEW k \in 0 .. CircSpace(head, tail), Stored(c, d, k)
  PROVE  UccText' /\ Stream' = Cat(Stream, Bytes(c, d, k))
<1>1. UNCHANGED <<qe_cur, out, cpc>> /\ write_chan(w) /\ xr_start_tx_ucc
  BY DEF UartWrite
<1>2. TxRing /\ TxText /\ UccTypes
  BY DEF TxWrite, UccText, UccInv
<1>3. PICK b, h : b = buf' /\ h = head'
  OBVIOUS
<1>4. b \in [Pos -> Char] /\ h \in Pos
  BY <1>1, <1>3, TxStores
<1>5. /\ buf' \in Cells
      /\ Pending(buf', head', tail) \in Seq(CallChar)
      /\ Pending(buf', head', tail) = Cat(Pending(buf, head, tail), Bytes(c, d, k))
      /\ Bytes(c, d, k) \in Seq(CallChar)
  BY <1>2, StoredText
<1>6. Cat(Cat(out, Waiting[TX_NUM_FIFO]), Pending(b, h, tail)) = Cat(Stream, Bytes(c, d, k))
  <2>1. PICK o, W, p, y : /\ o = out /\ W = Waiting[TX_NUM_FIFO]
                          /\ p = Pending(buf, head, tail) /\ y = Bytes(c, d, k)
    OBVIOUS
  <2>2. o \in Seq(Char) /\ p \in Seq(Char) /\ y \in Seq(Char)
    BY <1>2, <1>5, <2>1, CallText DEF UccText, TxText
  <2>3. W \in Seq(Char)
    BY <1>2, <2>1, WaitingText
  <2>4. Cat(Cat(Cat(o, W), p), y) = Cat(Cat(o, W), Cat(p, y))
    BY <2>2, <2>3, CatFour
  <2>5. QED
    BY <1>3, <1>5, <2>1, <2>4, StreamIs
<1>7. CASE uccm
  <2>1. UNCHANGED <<bd, tail>>
    BY <1>1, <1>7 DEF xr_start_tx_ucc, bdVars
  <2>2. Waiting' = Waiting
    BY <1>1, <2>1, WaitingIs
  <2>3. Stream' = Cat(Stream, Bytes(c, d, k))
    BY <1>1, <1>3, <1>6, <2>1, <2>2, StreamIs
  <2>4. Filled(bd') /\ out' \in Seq(CallChar) /\ Pending(buf', head', tail') \in Seq(CallChar)
    BY <1>1, <1>5, <2>1 DEF UccText
  <2>5. UccText'
    BY <1>5, <2>4 DEF UccText, TxText, Filled, Cells, Pos, CallChar, Calls, BDs
  <2>6. QED
    BY <2>3, <2>5
<1>8. CASE ~uccm
  <2>1. qe_uart_tx_pump(b, h)
    BY <1>1, <1>3, <1>8 DEF xr_start_tx_ucc
  <2>2. b \in Cells /\ Pending(b, h, tail) \in Seq(CallChar)
    BY <1>3, <1>5
  <2>3. UccText' /\ Stream' = Cat(Cat(out, Waiting[TX_NUM_FIFO]), Pending(b, h, tail))
    BY <1>1, <1>3, <1>4, <2>1, <2>2, UccTextPumped
  <2>4. QED
    BY <1>6, <2>3
<1>9. QED
  BY <1>7, <1>8

\* The invariant of a UCC port: what close() uses is typed, and the stream
\* holds the accepted characters in order.
UccRelease == stopped \in BOOLEAN /\ cpc \in {"open", "wait", "closed"} /\ tries \in 1 .. CloseTries
UccOrder == UccText /\ UccRelease /\ OrderNow(Stream)

\* What the order of the bytes needs of a step that keeps the text.
LEMMA UccOrderKept ==
  ASSUME UccOrder, UccText', Stream' = Stream, UccRelease',
         \A S : OrderNow(S) => OrderNext(S)
  PROVE  UccOrder'
<1>1. PICK S : S = Stream
  OBVIOUS
<1>2. OrderNow(S)
  BY <1>1 DEF UccOrder
<1>3. OrderNext(S) /\ S = Stream'
  BY <1>1, <1>2
<1>4. OrderNow(Stream)'
  BY <1>3, OrderPrimed
<1>5. QED
  BY <1>4 DEF UccOrder

\* Every step on a UCC port keeps the order.
LEMMA UccOrderNext ==
  ASSUME TxWrite, UccInv, TxLocks, UccOrder, Next
  PROVE  TxLocks' /\ UccOrder'
<1>0. UccText /\ UccRelease
  BY DEF UccOrder
<1>1. CASE \E w \in Writers : Thread(w)
  <2>1. PICK w \in Writers : Thread(w)
    BY <1>1
  <2>2. CASE (rctty_write(w) \/ WriteStep(w) \/ SignalWriter(w)) /\ UNCHANGED uccVars
    <3>1. (Enters(w) /\ Started < MaxWrite) \/ WriteStep(w) \/ SignalWriter(w)
      BY <2>2, SharedSteps DEF rctty_write
    <3>2. TxLocks' /\ \A S : OrderNow(S) => OrderNext(S)
      BY <3>1, OrderThread
    <3>3. UNCHANGED <<bd, qe_cur, out, stopped, cpc, tries>> /\ cpc = "open"
      BY <2>1, <2>2 DEF uccVars, bdVars, Thread
    <3>4. UNCHANGED <<head, tail, buf>>
      BY <2>2 DEF rctty_write, WriteStep, SignalWriter, AtomicWrite, AllocBuf, NextChunk,
         Interrupted, ResumeWrite, ChunkDone, ReturnWritten, ringVars
    <3>5. UccText' /\ Stream' = Stream
      BY <1>0, <3>3, <3>4, UccTextSame
    <3>6. UccRelease'
      BY <1>0, <3>3 DEF UccRelease
    <3>7. QED
      BY <3>2, <3>5, <3>6, UccOrderKept
  <2>3. CASE UartWrite(w)
    <3>1. PICK S : S = Stream
      OBVIOUS
    <3>2. OrderNow(S) /\ write_chan(w)
      BY <2>3, <3>1 DEF UccOrder, UartWrite
    <3>3. TxLocks' /\ \E c \in Calls, d \in Nat, k \in 0 .. CircSpace(head, tail) :
                        Stored(c, d, k) /\ OrderNext(Cat(S, Bytes(c, d, k)))
      BY <3>2, OrderStores
    <3>4. PICK c \in Calls, d \in Nat, k \in 0 .. CircSpace(head, tail) :
            Stored(c, d, k) /\ OrderNext(Cat(S, Bytes(c, d, k)))
      BY <3>3
    <3>5. cpc = "open"
      BY <2>1 DEF Thread
    <3>6. UccText' /\ Stream' = Cat(S, Bytes(c, d, k))
      BY <1>0, <2>3, <3>1, <3>4, <3>5, UccTextStores
    <3>7. OrderNow(Stream)'
      <4>1. PICK T : T = Cat(S, Bytes(c, d, k))
        OBVIOUS
      <4>2. OrderNext(T) /\ T = Stream'
        BY <3>4, <3>6, <4>1
      <4>3. QED
        BY <4>2, OrderPrimed
    <3>8. UccRelease'
      BY <1>0, <2>3 DEF UccRelease, UartWrite
    <3>9. QED
      BY <3>3, <3>6, <3>7, <3>8 DEF UccOrder
  <2>4. QED
    BY <2>1, <2>2, <2>3 DEF Thread
<1>2. CASE qe_uart_int
  <2>1. UNCHANGED <<head, buf, qe_cur, out, stopped, cpc, tries>> /\ UNCHANGED writeVars
        /\ qe_uart_tx_pump(buf, head)
    BY <1>2 DEF qe_uart_int
  <2>2. PICK b, h : b = buf /\ h = head
    OBVIOUS
  <2>3. b \in [Pos -> Char] /\ h \in Pos /\ b \in Cells /\ Pending(b, h, tail) \in Seq(CallChar)
    BY <1>0, <2>2 DEF TxWrite, TxRing, UccText, TxText
  <2>4. UccText' /\ Stream' = Cat(Cat(out, Waiting[TX_NUM_FIFO]), Pending(b, h, tail))
    BY <1>0, <2>1, <2>2, <2>3, UccTextPumped
  <2>5. Stream' = Stream
    BY <2>2, <2>4, StreamIs
  <2>6. UccRelease'
    BY <1>0, <2>1 DEF UccRelease
  <2>7. TxLocks' /\ \A S : OrderNow(S) => OrderNext(S)
    BY <2>1, OrderWoken DEF writeVars
  <2>8. QED
    BY <2>4, <2>5, <2>6, <2>7, UccOrderKept
<1>3. CASE QeSend
  <2>1. UNCHANGED writeVars /\ UNCHANGED <<stopped, cpc, tries>>
    BY <1>3 DEF QeSend
  <2>2. UccText' /\ Stream' = Stream
    BY <1>0, <1>3, UccTextSends
  <2>3. UccRelease'
    BY <1>0, <2>1 DEF UccRelease
  <2>4. TxLocks' /\ \A S : OrderNow(S) => OrderNext(S)
    BY <2>1, OrderWoken DEF writeVars
  <2>5. QED
    BY <2>2, <2>3, <2>4, UccOrderKept
<1>4. CASE Tasklet \/ xr_break_ctl_ucc \/ rctty_release \/ xr_shutdown_ucc
  <2>1. UNCHANGED <<head, tail, buf, bd, qe_cur, out>>
    BY <1>4 DEF Tasklet, uart_tasklet_action, xr_break_ctl_ucc, rctty_release, xr_shutdown_ucc,
       ringVars, uccVars, bdVars
  <2>2. uart_tasklet_action \/ UNCHANGED <<wr, write_wait, atomic_write, returned>>
    BY <1>4 DEF Tasklet, xr_break_ctl_ucc, rctty_release, xr_shutdown_ucc, writeVars
  <2>3. TxLocks' /\ \A S : OrderNow(S) => OrderNext(S)
    BY <2>2, OrderWoken
  <2>4. UccText' /\ Stream' = Stream
    BY <1>0, <2>1, UccTextSame
  <2>5. UccRelease'
    <3>1. cpc' \in {"open", "wait", "closed"}
      BY <1>0, <1>4 DEF UccRelease, Tasklet, xr_break_ctl_ucc, rctty_release, xr_shutdown_ucc,
         uccVars
    <3>2. stopped' \in BOOLEAN
      BY <1>0, <1>4 DEF UccRelease, Tasklet, xr_break_ctl_ucc, rctty_release, xr_shutdown_ucc,
         uccVars
    <3>3. tries' \in 1 .. CloseTries
      <4>1. tries' = tries \/ (tries # 1 /\ tries' = tries - 1)
        BY <1>4 DEF Tasklet, xr_break_ctl_ucc, rctty_release, xr_shutdown_ucc, uccVars
      <4>2. QED
        BY <1>0, <4>1, TxSizes DEF UccRelease
    <3>4. QED
      BY <3>1, <3>2, <3>3 DEF UccRelease
  <2>6. QED
    BY <2>3, <2>4, <2>5, UccOrderKept
<1>5. QED
  BY <1>1, <1>2, <1>3, <1>4 DEF Next
-----------------------------------------------------------------------------
(***************************************************************************)
(* A DUART port keeps the order.                                           *)
(***************************************************************************)
\* The same on a DUART.
Sent == Cat(Cat(out, txFifo), Pending(buf, head, tail))
DuartText ==
  /\ TxText
  /\ txFifo \in Seq(CallChar) /\ Len(txFifo) <= TxFifoSize
  /\ out \in Seq(CallChar)
  /\ lostTx \subseteq CallChar
DuartRelease == cpc \in {"open", "mcr", "ier", "closed"}
DuartOrder == DuartText /\ DuartRelease /\ (cpc # "closed" => OrderNow(Sent))

\* The stream of DuartTx, and how it looks after a step.
LEMMA DuartStream == Duart!Stream = Sent
<1>1. Duart!Pending(buf, head, tail) = Pending(buf, head, tail)
  BY Zenon DEF Duart!Pending, Duart!CircCnt, Pending, CircCnt
<1>2. QED
  BY <1>1, Zenon DEF Duart!Stream, Sent, Cat

LEMMA SentPrimed ==
  /\ Sent' = Cat(Cat(out', txFifo'), Pending(buf', head', tail'))
  /\ \A S : S = Sent' /\ OrderNext(S) => OrderNow(Sent)'
<1>1. Sent' = Cat(Cat(out', txFifo'), Pending(buf', head', tail'))
  BY Zenon DEF Sent
<1>2. ASSUME NEW S, S = Sent', OrderNext(S) PROVE OrderNow(Sent)'
  <2>1. OrderNext(Sent')
    BY <1>2, Zenon
  <2>2. QED
    BY <2>1, Zenon DEF OrderNext, OrderNow
<1>3. QED
  BY <1>1, <1>2

\* What the order of the bytes needs of a step that keeps the text.
LEMMA DuartOrderKept ==
  ASSUME DuartOrder, DuartText', DuartRelease', cpc' # "closed" => cpc # "closed" /\ Sent' = Sent,
         \A S : OrderNow(S) => OrderNext(S)
  PROVE  DuartOrder'
<1>1. ASSUME cpc' # "closed" PROVE OrderNow(Sent)'
  <2>1. PICK S : S = Sent
    OBVIOUS
  <2>2. OrderNow(S) /\ S = Sent'
    BY <1>1, <2>1 DEF DuartOrder
  <2>3. OrderNext(S)
    BY <2>2
  <2>4. QED
    BY <2>2, <2>3, SentPrimed
<1>2. QED
  BY <1>1 DEF DuartOrder

\* Nothing moves.
LEMMA DuartTextSame ==
  ASSUME DuartText, UNCHANGED <<head, tail, buf, txFifo, out, lostTx>>
  PROVE  DuartText' /\ Sent' = Sent
<1>1. TxText'
  BY DEF DuartText, TxText, Pending, CircCnt, Cells, Pos, CallChar, Calls
<1>2. Sent' = Sent
  BY DEF Sent, Cat, Pending, CircCnt
<1>3. QED
  BY <1>1, <1>2 DEF DuartText, CallChar, Calls

\* uart_write() on this port.
LEMMA DuartTextStores ==
  ASSUME TxWrite, DuartText, UNCHANGED <<tail, txFifo, out, lostTx>>,
         NEW c \in Calls, NEW d \in Nat,
         NEW k \in 0 .. CircSpace(head, tail), Stored(c, d, k)
  PROVE  DuartText' /\ Sent' = Cat(Sent, Bytes(c, d, k))
<1>1. TxRing /\ TxText
  BY DEF TxWrite, DuartText
<1>2. /\ buf' \in Cells
      /\ Pending(buf', head', tail) \in Seq(CallChar)
      /\ Pending(buf', head', tail) = Cat(Pending(buf, head, tail), Bytes(c, d, k))
      /\ Bytes(c, d, k) \in Seq(CallChar)
  BY <1>1, StoredText
<1>3. PICK o, f, p, y : /\ o = out /\ f = txFifo
                        /\ p = Pending(buf, head, tail) /\ y = Bytes(c, d, k)
  OBVIOUS
<1>4. o \in Seq(CallChar) /\ f \in Seq(CallChar) /\ p \in Seq(CallChar) /\ y \in Seq(CallChar)
  BY <1>1, <1>2, <1>3 DEF DuartText, TxText
<1>5. Cat(Cat(Cat(o, f), p), y) = Cat(Cat(o, f), Cat(p, y))
  BY <1>4, CatFour
<1>6. Sent' = Cat(Sent, Bytes(c, d, k))
  BY <1>2, <1>3, <1>5, SentPrimed DEF Sent
<1>7. Pending(buf', head', tail') \in Seq(CallChar)
  BY <1>2
<1>8. TxText'
  BY <1>2, <1>7 DEF TxText, Cells, Pos, CallChar, Calls
<1>9. QED
  BY <1>6, <1>8 DEF DuartText, CallChar, Calls

\* A text is its first character and the others.
LEMMA HeadFirst ==
  ASSUME NEW T, NEW f \in Seq(T), f # <<>>
  PROVE  f = <<Head(f)>> \o Tail(f)
<1>1. PICK x, g, q, z : x = Head(f) /\ g = Tail(f) /\ q = <<x>> /\ z = q \o g
  OBVIOUS
<1>2. /\ x \in T /\ g \in Seq(T) /\ Len(g) = Len(f) - 1 /\ Len(f) \in Nat \ {0}
      /\ x = f[1] /\ \A i \in 1 .. Len(g) : g[i] = f[i + 1]
  <2>1. x \in T /\ g \in Seq(T) /\ Len(g) = Len(f) - 1 /\ \A i \in 1 .. Len(g) : g[i] = f[i + 1]
    BY <1>1, HeadTailProperties
  <2>2. Len(f) \in Nat \ {0} /\ x = f[1]
    BY <1>1, EmptySeq, LenProperties
  <2>3. QED
    BY <2>1, <2>2
<1>3. q \in Seq(T) /\ Len(q) = 1 /\ q[1] = x
  BY <1>1, <1>2
<1>4. /\ z \in Seq(T) /\ Len(z) = Len(q) + Len(g)
      /\ \A i \in 1 .. Len(q) + Len(g) : z[i] = IF i <= Len(q) THEN q[i] ELSE g[i - Len(q)]
  BY <1>1, <1>2, <1>3, ConcatProperties
<1>5. ASSUME NEW i \in 1 .. Len(f) PROVE z[i] = f[i]
  <2>1. CASE i = 1
    BY <1>2, <1>3, <1>4, <2>1
  <2>2. CASE i > 1
    <3>1. PICK j \in 1 .. Len(g) : j = i - 1 /\ i = j + 1
      BY <1>2, <2>2
    <3>2. z[i] = g[j]
      BY <1>2, <1>3, <1>4, <2>2, <3>1
    <3>3. g[j] = f[i]
      BY <1>2, <3>1
    <3>4. QED
      BY <3>2, <3>3
  <2>3. QED
    BY <2>1, <2>2
<1>6. Len(z) = Len(f)
  BY <1>2, <1>3, <1>4
<1>7. z = f
  BY <1>4, <1>5, <1>6, SeqEqual
<1>8. QED
  BY <1>1, <1>7

\* The transmitter sends a character.
LEMMA DuartTextSends ==
  ASSUME DuartText, Duart!ShiftOut
  PROVE  DuartText' /\ Sent' = Sent
<1>1. /\ txFifo # <<>> /\ out' = Append(out, Head(txFifo)) /\ txFifo' = Tail(txFifo)
      /\ UNCHANGED <<head, tail, buf, lostTx>>
  BY DEF Duart!ShiftOut, Duart!ringVars
<1>2. PICK o \in Seq(CallChar), f \in Seq(CallChar) : o = out /\ f = txFifo /\ f # <<>>
  BY <1>1 DEF DuartText
<1>3. PICK x, g, q : x = Head(f) /\ g = Tail(f) /\ q = <<x>>
  OBVIOUS
<1>4. x \in CallChar /\ g \in Seq(CallChar) /\ Len(g) = Len(f) - 1
  BY <1>2, <1>3
<1>5. q \in Seq(CallChar)
  BY <1>3, <1>4
<1>6. f = q \o g
  BY <1>2, <1>3, HeadFirst
<1>7. Append(o, x) = o \o q
  BY <1>3, <1>4, AppendIsConcat
<1>8. (o \o q) \o g = o \o (q \o g)
  BY <1>4, <1>5, CatAssoc
<1>9. Cat(out', txFifo') = Cat(out, txFifo)
  BY <1>1, <1>2, <1>3, <1>6, <1>7, <1>8 DEF Cat
<1>10. Sent' = Sent
  BY <1>1, <1>9, SentPrimed DEF Sent
<1>11. out' \in Seq(CallChar) /\ txFifo' \in Seq(CallChar)
  BY <1>1, <1>2, <1>3, <1>4
<1>12. Len(txFifo') <= TxFifoSize
  <2>1. Len(f) \in Nat /\ Len(f) <= TxFifoSize /\ TxFifoSize \in Nat
    BY <1>2, TxSizes DEF DuartText
  <2>2. QED
    BY <1>1, <1>2, <1>3, <1>4, <2>1
<1>13. TxText'
  BY <1>1 DEF DuartText, TxText, Pending, CircCnt, Cells, Pos, CallChar, Calls
<1>14. QED
  BY <1>1, <1>10, <1>11, <1>12, <1>13 DEF DuartText, CallChar, Calls

\* The transmit interrupt moves a burst.
LEMMA DuartTextMoves ==
  ASSUME TxWrite, DuartInv, DuartText, Duart!xr_tx_chars_duart
  PROVE  DuartText' /\ Sent' = Sent /\ UNCHANGED writeVars /\ cpc' = cpc
<1>1. /\ PAGE_SIZE \in Nat \ {0} /\ TxBurst \in Nat /\ TxBurst >= 1
      /\ TxTrigger \in Nat /\ TxFifoSize \in Nat /\ TxTrigger + TxBurst <= TxFifoSize
  BY TxSizes
<1>2. head \in Pos /\ tail \in Pos /\ buf \in [Pos -> Char] /\ txFifo \in Seq(CallChar)
  BY DEF TxWrite, TxRing, DuartText
<1>3. PICK n \in Pos : n = CircCnt(head, tail)
  BY <1>2, CircCounts
<1>4. n \in Nat
  BY <1>3 DEF Pos
<1>5. PICK k \in Nat : k = Duart!Burst /\ k <= n /\ k <= TxBurst
  <2>1. Duart!Burst = IF TxBurst < n THEN TxBurst ELSE n
    BY <1>3 DEF Duart!Burst, Duart!Less, Duart!CircCnt, CircCnt
  <2>2. QED
    BY <1>1, <1>4, <2>1
<1>6. PICK s : s = Pending(buf, head, tail)
  OBVIOUS
<1>7. s \in Seq(CallChar) /\ Len(s) = n
  BY <1>2, <1>3, <1>6, PendingText DEF DuartText, TxText
<1>8. PICK moved : moved = SubSeq(s, 1, k)
  OBVIOUS
<1>9. moved \in Seq(CallChar) /\ Len(moved) = k
  BY <1>4, <1>5, <1>7, <1>8
<1>10. PICK l \in Nat : l = Len(txFifo)
  BY <1>2
<1>11. PICK room : room = Duart!Less(k, TxFifoSize - l)
  OBVIOUS
<1>12. PICK fifo : fifo = txFifo \o SubSeq(moved, 1, room)
  OBVIOUS
<1>13. PICK left \in Nat : left = n - k
  BY <1>4, <1>5
<1>14. Duart!Pending(buf, head, tail) = s
  BY <1>6, Zenon DEF Duart!Pending, Duart!CircCnt, Pending, CircCnt
<1>15. /\ l <= TxTrigger
       /\ tail' = Advance(tail, k)
       /\ lostTx' = lostTx \union {moved[i] : i \in room + 1 .. k}
       /\ IF left = 0
            THEN Duart!xr_stop_tx_duart(fifo)
            ELSE txFifo' = fifo /\ UNCHANGED <<thri, rts, out>>
       /\ UNCHANGED <<head, buf, writeVars, ipc, cpc>>
  BY <1>3, <1>5, <1>8, <1>10, <1>11, <1>12, <1>13, <1>14, Zenon
     DEF Duart!xr_tx_chars_duart, Duart!Advance, Advance, Duart!CircCnt, CircCnt, Duart!writeVars,
         writeVars
<1>16. room = k
  BY <1>1, <1>5, <1>11, <1>15 DEF Duart!Less
<1>17. lostTx' = lostTx
  <2>1. room + 1 .. k = {}
    BY <1>16
  <2>2. QED
    BY <1>15, <2>1
<1>18. SubSeq(moved, 1, room) = moved
  BY <1>9, <1>16
<1>19. PICK o \in Seq(CallChar), f \in Seq(CallChar) : o = out /\ f = txFifo
  BY DEF DuartText
<1>20. fifo = f \o moved
  BY <1>12, <1>18, <1>19
<1>21. fifo \in Seq(CallChar) /\ Len(fifo) = l + k
  <2>1. f \o moved \in Seq(CallChar) /\ Len(f \o moved) = Len(f) + Len(moved)
    BY <1>9, <1>19, ConcatProperties
  <2>2. QED
    BY <1>9, <1>10, <1>19, <1>20, <2>1
<1>22. PICK r : r = Pending(buf, head, tail')
  OBVIOUS
<1>23. k \in 0 .. CircCnt(head, tail)
  BY <1>3, <1>4, <1>5
<1>24. r = SubSeq(s, k + 1, n)
  BY <1>2, <1>3, <1>6, <1>15, <1>22, <1>23, PendingTake
<1>25. r \in Seq(CallChar) /\ moved \o r = s
  <2>1. k \in 0 .. Len(s)
    BY <1>4, <1>5, <1>7
  <2>2. QED
    BY <1>7, <1>8, <1>24, <2>1, CatSplit
<1>26. Cat(Cat(o, fifo), r) = Cat(Cat(o, f), s)
  <2>1. (f \o moved) \o r = f \o (moved \o r)
    <3>1. f \in Seq(CallChar) /\ moved \in Seq(CallChar) /\ r \in Seq(CallChar)
      BY <1>9, <1>19, <1>25
    <3>2. QED
      BY <3>1, CatAssoc, SMTT(20)
  <2>2. Cat(fifo, r) = Cat(f, s)
    BY <1>20, <1>25, <2>1 DEF Cat
  <2>3. QED
    BY <1>7, <1>19, <1>21, <1>25, <2>2, CatMoved
<1>27. \/ txFifo' = fifo /\ out' = o
       \/ txFifo' = <<>> /\ out' = o \o fifo
  BY <1>15, <1>19, Zenon DEF Duart!xr_stop_tx_duart
<1>28. PICK x : x = o \o fifo
  OBVIOUS
<1>29. x \in Seq(CallChar) /\ x \o <<>> = x
  <2>1. x \in Seq(CallChar)
    BY <1>19, <1>21, <1>28, ConcatProperties
  <2>2. QED
    BY <2>1, ConcatEmptySeq
<1>30. Cat(out', txFifo') = Cat(o, fifo)
  BY <1>27, <1>28, <1>29 DEF Cat
<1>31. Sent' = Sent
  <2>1. Pending(buf', head', tail') = r
    BY <1>15, <1>22
  <2>2. QED
    BY <1>6, <1>19, <1>26, <1>30, <2>1, SentPrimed DEF Sent
<1>32. out' \in Seq(CallChar) /\ txFifo' \in Seq(CallChar) /\ Len(txFifo') <= TxFifoSize
  <2>1. <<>> \in Seq(CallChar) /\ Len(<<>>) = 0
    OBVIOUS
  <2>2. l + k <= TxFifoSize /\ 0 <= TxFifoSize
    BY <1>1, <1>5, <1>15
  <2>3. QED
    BY <1>19, <1>21, <1>27, <1>28, <1>29, <2>1, <2>2
<1>33. TxText'
  <2>1. buf' \in Cells /\ Pending(buf', head', tail') \in Seq(CallChar)
    BY <1>15, <1>22, <1>25 DEF DuartText, TxText
  <2>2. QED
    BY <2>1 DEF TxText, Cells, Pos, CallChar, Calls
<1>34. DuartText'
  BY <1>17, <1>32, <1>33 DEF DuartText, CallChar, Calls
<1>35. QED
  BY <1>15, <1>31, <1>34

\* The instance of DuartTx counts as this module does.
LEMMA DuartCard == \A S : Duart!Cardinality(S) = Cardinality(S)
  BY Zenon DEF Cardinality, Duart!Cardinality

\* Every step on a DUART port keeps the order.
LEMMA DuartOrderNext ==
  ASSUME TxWrite, DuartInv, TxLocks, DuartOrder, Duart!Next
  PROVE  TxLocks' /\ DuartOrder'
<1>0. DuartText /\ DuartRelease
  BY DEF DuartOrder
<1>1. CASE \E w \in Writers : Duart!Thread(w)
  <2>1. PICK w \in Writers : Duart!Thread(w)
    BY <1>1
  <2>2. cpc = "open"
    BY <2>1 DEF Duart!Thread
  <2>3. CASE /\ Duart!rctty_write(w) \/ Duart!WriteStep(w) \/ Duart!SignalWriter(w)
             /\ UNCHANGED Duart!duartVars
    <3>1. Duart!rctty_write(w) => Started < MaxWrite
      <4>1. Duart!Started = Started
        BY DuartCard DEF Started, Duart!Started
      <4>2. QED
        BY <4>1 DEF Duart!rctty_write
    <3>2. (Enters(w) /\ Started < MaxWrite) \/ WriteStep(w) \/ SignalWriter(w)
      BY <2>3, <3>1, SharedSteps
    <3>3. TxLocks' /\ \A S : OrderNow(S) => OrderNext(S)
      BY <3>2, OrderThread
    <3>4. UNCHANGED <<txFifo, out, lostTx, cpc>>
      BY <2>3 DEF Duart!duartVars, Duart!portVars
    <3>5. UNCHANGED <<head, tail, buf>>
      BY <3>2 DEF Enters, WriteStep, SignalWriter, AtomicWrite, AllocBuf, NextChunk,
         Interrupted, ResumeWrite, ChunkDone, ReturnWritten, ringVars
    <3>6. DuartText' /\ Sent' = Sent
      BY <1>0, <3>4, <3>5, DuartTextSame
    <3>7. DuartRelease'
      BY <1>0, <3>4 DEF DuartRelease
    <3>8. QED
      BY <2>2, <3>3, <3>6, <3>7, DuartOrderKept
  <2>4. CASE Duart!UartWrite(w)
    <3>1. write_chan(w) /\ UNCHANGED <<txFifo, out, lostTx, tail, cpc>>
      BY <2>4, SharedSteps DEF Duart!UartWrite, Duart!xr_start_tx_duart
    <3>2. PICK S : S = Sent
      OBVIOUS
    <3>3. OrderNow(S)
      BY <2>2, <3>2 DEF DuartOrder
    <3>4. TxLocks' /\ \E c \in Calls, d \in Nat, k \in 0 .. CircSpace(head, tail) :
                        Stored(c, d, k) /\ OrderNext(Cat(S, Bytes(c, d, k)))
      BY <3>1, <3>3, OrderStores
    <3>5. PICK c \in Calls, d \in Nat, k \in 0 .. CircSpace(head, tail) :
            Stored(c, d, k) /\ OrderNext(Cat(S, Bytes(c, d, k)))
      BY <3>4
    <3>6. DuartText' /\ Sent' = Cat(S, Bytes(c, d, k))
      BY <1>0, <3>1, <3>2, <3>5, DuartTextStores
    <3>7. OrderNow(Sent)'
      <4>1. PICK T : T = Cat(S, Bytes(c, d, k))
        OBVIOUS
      <4>2. OrderNext(T) /\ T = Sent'
        BY <3>5, <3>6, <4>1
      <4>3. QED
        BY <4>2, SentPrimed
    <3>8. DuartRelease'
      BY <1>0, <3>1 DEF DuartRelease
    <3>9. QED
      BY <3>4, <3>6, <3>7, <3>8 DEF DuartOrder
  <2>5. QED
    BY <2>1, <2>3, <2>4 DEF Duart!Thread
<1>2. CASE Duart!xr_tx_chars_duart \/ Duart!ShiftOut
  <2>1. DuartText' /\ Sent' = Sent /\ UNCHANGED writeVars /\ cpc' = cpc
    <3>1. CASE Duart!ShiftOut
      BY <1>0, <3>1, DuartTextSends DEF Duart!ShiftOut, Duart!writeVars, writeVars
    <3>2. QED
      BY <1>0, <1>2, <3>1, DuartTextMoves
  <2>2. DuartRelease'
    BY <1>0, <2>1 DEF DuartRelease
  <2>3. TxLocks' /\ \A S : OrderNow(S) => OrderNext(S)
    BY <2>1, OrderWoken DEF writeVars
  <2>4. QED
    BY <2>1, <2>2, <2>3, DuartOrderKept
<1>3. CASE \/ Duart!Tasklet \/ Duart!xr_enable_485_duart \/ Duart!WaitTemt
           \/ Duart!xr_disable_485_duart \/ Duart!rctty_release \/ Duart!ShutdownRts
  <2>1. UNCHANGED <<head, tail, buf, txFifo, out, lostTx>>
    BY <1>3 DEF Duart!Tasklet, Duart!uart_tasklet_action, Duart!xr_enable_485_duart,
       Duart!WaitTemt, Duart!xr_disable_485_duart, Duart!rctty_release, Duart!ShutdownRts,
       Duart!ringVars, Duart!duartVars, Duart!portVars
  <2>2. uart_tasklet_action \/ UNCHANGED <<wr, write_wait, atomic_write, returned>>
    <3>1. Duart!Tasklet => uart_tasklet_action
      BY Zenon DEF Duart!Tasklet, Duart!uart_tasklet_action, uart_tasklet_action,
         Duart!ringVars, ringVars
    <3>2. QED
      BY <1>3, <3>1 DEF Duart!xr_enable_485_duart, Duart!WaitTemt,
         Duart!xr_disable_485_duart, Duart!rctty_release, Duart!ShutdownRts, Duart!writeVars
  <2>3. TxLocks' /\ \A S : OrderNow(S) => OrderNext(S)
    BY <2>2, OrderWoken
  <2>4. DuartText' /\ Sent' = Sent
    BY <1>0, <2>1, DuartTextSame
  <2>5. DuartRelease' /\ (cpc' # "closed" => cpc # "closed")
    BY <1>0, <1>3 DEF DuartRelease, Duart!Tasklet, Duart!xr_enable_485_duart,
       Duart!WaitTemt, Duart!xr_disable_485_duart, Duart!rctty_release, Duart!ShutdownRts,
       Duart!duartVars
  <2>6. QED
    BY <2>3, <2>4, <2>5, DuartOrderKept
<1>4. CASE Duart!xr_shutdown_duart
  <2>1. /\ cpc' = "closed" /\ txFifo' = <<>> /\ UNCHANGED <<head, tail, buf, out>>
        /\ lostTx' = lostTx \union {txFifo[i] : i \in 1 .. Len(txFifo)}
        /\ UNCHANGED <<wr, write_wait, atomic_write, returned>>
    BY <1>4 DEF Duart!xr_shutdown_duart, Duart!ringVars, Duart!writeVars
  <2>2. TxLocks'
    BY <2>1, OrderWoken
  <2>3. lostTx' \subseteq CallChar
    <3>1. txFifo \in Seq(CallChar) /\ lostTx \subseteq CallChar
      BY <1>0 DEF DuartText
    <3>2. \A i \in 1 .. Len(txFifo) : txFifo[i] \in CallChar
      BY <3>1
    <3>3. QED
      BY <2>1, <3>1, <3>2
  <2>4. txFifo' \in Seq(CallChar) /\ Len(txFifo') <= TxFifoSize
    <3>1. <<>> \in Seq(CallChar) /\ Len(<<>>) = 0 /\ 0 <= TxFifoSize
      BY TxSizes
    <3>2. QED
      BY <2>1, <3>1
  <2>5. TxText'
    BY <1>0, <2>1 DEF DuartText, TxText, Pending, CircCnt, Cells, Pos, CallChar, Calls
  <2>6. out' \in Seq(CallChar)
    BY <1>0, <2>1 DEF DuartText
  <2>7. DuartText'
    BY <2>3, <2>4, <2>5, <2>6 DEF DuartText, CallChar, Calls
  <2>8. QED
    BY <2>1, <2>2, <2>7 DEF DuartOrder, DuartRelease
<1>5. QED
  BY <1>1, <1>2, <1>3, <1>4 DEF Duart!Next, Duart!Ioctl, Duart!Close

-----------------------------------------------------------------------------
(***************************************************************************)
(* Both ports.                                                             *)
(***************************************************************************)
OrderInv ==
  /\ TxInv /\ TxLocks
  /\ port = "ucc" => UccOrder
  /\ port = "duart" => DuartOrder

\* Nothing is accepted, and nobody holds the lock.
LEMMA OrderInitial ==
  ASSUME MCInit
  PROVE  OrderInv
<1>1. InitWrite /\ cpc = "open" /\ out = <<>> /\ port \in {"ucc", "duart"}
  BY DEF MCInit, Init, Duart!Init, InitWrite, Duart!InitWrite, IdleW, Duart!IdleW, NoByte,
     Duart!NoByte
<1>2. MaxWrite \in Nat /\ PAGE_SIZE \in Nat \ {0} /\ TX_NUM_FIFO \in Nat \ {0} /\ CloseTries \in Nat \ {0}
  BY TxSizes, WriteAssumption
<1>3. \A w \in Writers : /\ wr[w].pc = "idle" /\ wr[w].call = 0
                         /\ wr[w].written = 0 /\ wr[w].off = 0
  BY <1>1 DEF InitWrite, IdleW
<1>4. \A w \in Writers : ~Holds(w)
  BY <1>3 DEF Holds, Locked
<1>5. TxLocks
  <2>1. TxLock
    BY <1>1, <1>4 DEF TxLock, InitWrite
  <2>2. Inside = {}
    BY <1>3 DEF Inside
  <2>3. IsFiniteSet(Inside) /\ Cardinality(Inside) = 0
    BY <2>2, FS_EmptySet
  <2>4. returned = <<>> /\ Len(<<>>) = 0
    BY <1>1 DEF InitWrite
  <2>5. TxTurn
    BY <1>2, <1>3, <2>3, <2>4 DEF TxTurn
  <2>6. QED
    BY <1>1, <2>1, <2>5 DEF TxLocks, InitWrite
<1>6. Pending(buf, head, tail) = <<>>
  <2>1. head \in Pos /\ tail \in Pos /\ head = tail
    BY <1>1, <1>2 DEF InitWrite, Pos
  <2>2. CircCnt(head, tail) = 0
    BY <2>1, CircCounts
  <2>3. QED
    BY <2>2 DEF Pending
<1>7. TxText
  <2>1. NoByte \in (0 .. MaxWrite) \X Nat
    BY <1>2 DEF NoByte
  <2>2. buf \in Cells
    BY <1>1, <2>1 DEF InitWrite, Cells, Pos
  <2>3. <<>> \in Seq(CallChar)
    OBVIOUS
  <2>4. QED
    BY <1>6, <2>2, <2>3 DEF TxText
<1>8. OrderNow(<<>>)
  <2>1. returned = <<>>
    BY <1>1 DEF InitWrite
  <2>2. Ordered(<<>>, returned, 0) /\ 0 \in Nat
    BY <2>1, OrderedStart
  <2>3. QED
    BY <1>4, <2>2, Zenon DEF OrderNow
<1>9. Cat(Cat(<<>>, <<>>), <<>>) = <<>>
  BY DEF Cat
<1>10. <<>> \in Seq(CallChar) /\ Len(<<>>) = 0
  OBVIOUS
<1>11. TxInv
  BY TxInitial
<1>12. CASE port = "ucc"
  <2>1. /\ bd = [i \in BDs |-> [ready |-> FALSE, data |-> <<>>]] /\ qe_cur = 0
        /\ stopped = FALSE /\ tries = CloseTries
    BY <1>12 DEF MCInit, Init
  <2>2. Filled(bd)
    <3>1. [ready |-> FALSE, data |-> <<>>] \in [ready : BOOLEAN, data : Seq(CallChar)]
      BY <1>10
    <3>2. QED
      BY <2>1, <3>1 DEF Filled
  <2>3. Waiting[TX_NUM_FIFO] = <<>>
    <3>1. PICK b, q, g, W : b = bd /\ q = qe_cur /\ g = HeldOf(b, q) /\ W = Waiting
      OBVIOUS
    <3>2. b \in [BDs -> Descriptor] /\ q \in BDs
      BY <1>11, <1>12, <3>1 DEF TxInv, UccInv, UccTypes
    <3>3. IsChain(W, g, TX_NUM_FIFO)
      BY <3>1, <3>2, WaitingChain, WaitingIs
    <3>4. ASSUME NEW n \in 1 .. TX_NUM_FIFO PROVE g[n] = <<>>
      <4>1. PICK i : i = (q + n - 1) % TX_NUM_FIFO
        OBVIOUS
      <4>2. i \in BDs
        BY <3>2, <4>1, SlotAt
      <4>3. ~(b[i].ready)
        BY <2>1, <3>1, <4>2
      <4>4. g[n] = IF b[i].ready THEN b[i].data ELSE <<>>
        BY <3>1, <4>1 DEF HeldOf
      <4>5. QED
        BY <4>3, <4>4
    <3>5. PICK m \in 0 .. TX_NUM_FIFO : m = 0
      BY <1>2
    <3>6. \A n \in m + 1 .. TX_NUM_FIFO : g[n] = <<>>
      BY <3>4, <3>5
    <3>7. TX_NUM_FIFO \in Nat
      BY <1>2
    <3>8. W[TX_NUM_FIFO] = W[m]
      BY <3>3, <3>6, <3>7, ChainRest
    <3>9. W[0] = <<>>
      BY <3>3 DEF IsChain
    <3>10. QED
      BY <3>1, <3>5, <3>8, <3>9
  <2>4. Stream = <<>>
    BY <1>1, <1>6, <1>9, <2>3, StreamIs
  <2>5. UccText
    BY <1>1, <1>7, <1>10, <2>2 DEF UccText
  <2>6. UccRelease
    <3>1. stopped \in BOOLEAN /\ cpc \in {"open", "wait", "closed"}
      BY <1>1, <2>1
    <3>2. tries \in 1 .. CloseTries
      BY <1>2, <2>1
    <3>3. QED
      BY <3>1, <3>2 DEF UccRelease
  <2>7. OrderNow(Stream)
    BY <1>8, <2>4
  <2>8. UccOrder
    BY <2>5, <2>6, <2>7 DEF UccOrder
  <2>9. QED
    BY <1>5, <1>11, <1>12, <2>8 DEF OrderInv
<1>13. CASE port = "duart"
  <2>1. txFifo = <<>> /\ lostTx = {}
    BY <1>13 DEF MCInit, Duart!Init
  <2>2. Sent = <<>>
    BY <1>1, <1>6, <1>9, <2>1 DEF Sent
  <2>3. DuartText
    BY <1>1, <1>7, <1>10, <2>1, TxSizes DEF DuartText
  <2>4. OrderNow(Sent)
    BY <1>8, <2>2
  <2>5. DuartOrder
    BY <1>1, <2>3, <2>4 DEF DuartOrder, DuartRelease
  <2>6. QED
    BY <1>5, <1>11, <1>13, <2>5 DEF OrderInv
<1>14. QED
  BY <1>1, <1>12, <1>13

LEMMA OrderStep ==
  ASSUME OrderInv, [MCNext]_MCvars
  PROVE  OrderInv'
<1>0. TxInv /\ TxLocks /\ TxWrite
  BY DEF OrderInv, TxInv
<1>1. TxInv'
  BY <1>0, TxNext
<1>2. CASE OnUcc(Next)
  <2>1. port = "ucc" /\ port' = port /\ Next
    BY <1>2 DEF OnUcc, choice
  <2>2. UccInv /\ UccOrder
    BY <1>0, <2>1 DEF TxInv, OrderInv
  <2>3. TxLocks' /\ UccOrder'
    BY <1>0, <2>1, <2>2, UccOrderNext
  <2>4. QED
    BY <1>1, <2>1, <2>3 DEF OrderInv
<1>3. CASE OnDuart(Duart!Next)
  <2>1. port = "duart" /\ port' = port /\ Duart!Next
    BY <1>3 DEF OnDuart, choice
  <2>2. DuartInv /\ DuartOrder
    BY <1>0, <2>1 DEF TxInv, OrderInv
  <2>3. TxLocks' /\ DuartOrder'
    BY <1>0, <2>1, <2>2, DuartOrderNext
  <2>4. QED
    BY <1>1, <2>1, <2>3 DEF OrderInv
<1>4. CASE UNCHANGED MCvars
  <2>1. /\ UNCHANGED <<head, tail, buf, bd, qe_cur, out, txFifo, lostTx>>
        /\ UNCHANGED <<stopped, cpc, tries, port>>
        /\ UNCHANGED <<wr, write_wait, atomic_write, returned>>
    BY <1>4 DEF MCvars, vars, ringVars, writeVars, uccVars, bdVars, duartOnly, choice
  <2>2. TxLocks' /\ \A S : OrderNow(S) => OrderNext(S)
    BY <1>0, <2>1, OrderWoken
  <2>3. port = "ucc" => UccOrder'
    <3>1. SUFFICES ASSUME UccOrder PROVE UccOrder'
      BY DEF OrderInv
    <3>2. UccText' /\ Stream' = Stream
      BY <2>1, <3>1, UccTextSame DEF UccOrder
    <3>3. UccRelease'
      BY <2>1, <3>1 DEF UccOrder, UccRelease
    <3>4. QED
      BY <2>2, <3>1, <3>2, <3>3, UccOrderKept
  <2>4. port = "duart" => DuartOrder'
    <3>1. SUFFICES ASSUME DuartOrder PROVE DuartOrder'
      BY DEF OrderInv
    <3>2. DuartText' /\ Sent' = Sent
      BY <2>1, <3>1, DuartTextSame DEF DuartOrder
    <3>3. DuartRelease' /\ cpc' = cpc
      BY <2>1, <3>1 DEF DuartOrder, DuartRelease
    <3>4. QED
      BY <2>2, <3>1, <3>2, <3>3, DuartOrderKept
  <2>5. QED
    BY <1>1, <2>1, <2>2, <2>3, <2>4 DEF OrderInv
<1>5. QED
  BY <1>2, <1>3, <1>4 DEF MCNext

LEMMA OrderAlways == MCSpec => []OrderInv
<1>1. MCSpec => MCInit /\ [][MCNext]_MCvars
  BY PTL DEF MCSpec
<1>2. MCInit => OrderInv
  BY OrderInitial
<1>3. OrderInv /\ [MCNext]_MCvars => OrderInv'
  BY OrderStep
<1>4. QED
  BY <1>1, <1>2, <1>3, PTL

\* The invariant says that the locals of a call and the buffer are typed ...
LEMMA OrderTypes ==
  ASSUME OrderInv
  PROVE  MCTypeOK
<1>1. TxInv /\ TxWrite /\ TxLocks /\ TxRing /\ TxCalls
  BY DEF OrderInv, TxInv, TxWrite
<1>2. wr \in [Writers -> WriterType]
  <2>1. wr \in [Writers -> WriterRec]
    BY <1>1 DEF TxCalls
  <2>2. ASSUME NEW w \in Writers PROVE wr[w] \in WriterType
    <3>1. PICK r \in WriterRec : r = wr[w]
      BY <2>1
    <3>2. r.call \in 0 .. MaxWrite
      BY <1>1, <3>1 DEF TxLocks, TxTurn
    <3>3. r \in WriterType
      BY <3>2 DEF WriterRec, WriterType
    <3>4. QED
      BY <3>1, <3>3
  <2>3. QED
    BY <2>1, <2>2
<1>3. tlet \in BOOLEAN
  BY <1>1 DEF TxInv, UccInv, UccFlags, DuartInv, DuartFlags
<1>4. buf \in Cells
  BY <1>1 DEF OrderInv, UccOrder, UccText, DuartOrder, DuartText, TxText, TxInv
<1>5. atomic_write \in BOOLEAN
  BY <1>1 DEF TxLocks, TxLock
<1>6. TypeOKWrite
  BY <1>1, <1>2, <1>3, <1>4, <1>5 DEF TypeOKWrite, TxRing, TxCalls, TxLocks, Pos, Cells
<1>7. CASE port = "ucc"
  <2>1. UccTypes /\ UccFlags /\ UccText /\ UccRelease
    BY <1>1, <1>7 DEF TxInv, UccInv, OrderInv, UccOrder
  <2>2. {uccm, ucce, stopped} \subseteq BOOLEAN
    BY <2>1 DEF UccFlags, UccRelease
  <2>3. {tx_cur, qe_cur} \subseteq BDs
    BY <2>1 DEF UccTypes
  <2>4. bd \in [BDs -> [ready : BOOLEAN, data : Seq(Calls \X Nat)]] /\ out \in Seq(Calls \X Nat)
    BY <2>1, Zenon DEF UccText, Filled, CallChar
  <2>5. TypeOK
    BY <1>6, <2>1, <2>2, <2>3, <2>4 DEF TypeOK, UccRelease
  <2>6. QED
    BY <1>7, <2>5 DEF MCTypeOK
<1>8. CASE port = "duart"
  <2>1. DuartTypes /\ DuartFlags /\ DuartText /\ DuartRelease
    BY <1>1, <1>8 DEF TxInv, DuartInv, OrderInv, DuartOrder
  <2>2. {thri, rts} \subseteq BOOLEAN
    BY <2>1 DEF DuartFlags
  <2>3. Duart!TypeOKWrite
    BY <1>6, Zenon DEF TypeOKWrite, WriterType, WriterPC, Duart!TypeOKWrite, Duart!WriterType,
       Duart!WriterPC
  <2>4. Duart!Calls = Calls
    BY DEF Calls, Duart!Calls
  <2>5. /\ txFifo \in Seq(Calls \X Nat) /\ Len(txFifo) <= TxFifoSize
        /\ out \in Seq(Calls \X Nat) /\ lostTx \subseteq Calls \X Nat
    BY <2>1, Zenon DEF DuartText, CallChar
  <2>6. Duart!TypeOK
    BY <2>1, <2>2, <2>3, <2>4, <2>5 DEF Duart!TypeOK, DuartTypes, DuartRelease
  <2>7. QED
    BY <1>8, <2>6 DEF MCTypeOK
<1>9. QED
  BY <1>1, <1>7, <1>8 DEF TxInv

\* On both ports the bytes of a write() call leave together, in order, and the
\* call reports how many were accepted (rctty_write() holds atomic_write over
\* all its chunks, write_chan() stores them around the end of the buffer, and
\* qe_uart_tx_pump() and xr_tx_chars_duart() take them in order), with every
\* chunk in its buffer and every index in its ring.
THEOREM WritesAlwaysInOrder == MCSpec => []MCWritesInOrder
<1>1. ASSUME OrderInv PROVE MCWritesInOrder
  <2>1. TxInv
    BY <1>1 DEF OrderInv
  <2>2. MCTypeOK
    BY <1>1, OrderTypes
  <2>3. ChunkFits
    BY <2>1 DEF TxInv, TxWrite, TxCalls, WriterFits, ChunkFits
  <2>4. ASSUME NEW S, OrderNow(S) PROVE CallByCall(S) /\ Reported(S)
    BY <2>4 DEF OrderNow, Ordered, Reported
  <2>5. CASE port = "ucc"
    <3>1. WritesInOrder
      BY <1>1, <2>4, <2>5 DEF OrderInv, UccOrder, WritesInOrder
    <3>2. QED
      BY <2>2, <2>3, <2>5, <3>1 DEF MCWritesInOrder
  <2>6. CASE port = "duart"
    <3>1. ASSUME cpc # "closed" PROVE Duart!WritesInOrder
      <4>1. PICK S : S = Sent
        OBVIOUS
      <4>2. OrderNow(S)
        BY <1>1, <2>6, <3>1, <4>1 DEF OrderInv, DuartOrder
      <4>3. CallByCall(S) /\ Reported(S)
        BY <2>4, <4>2
      <4>4. Duart!CallByCall(S)
        BY <4>3, Zenon DEF CallByCall, Duart!CallByCall
      <4>5. Duart!Reported(S)
        BY <4>3, DuartCard, Zenon DEF Reported, BytesOf, Duart!Reported, Duart!BytesOf
      <4>6. QED
        BY <4>1, <4>4, <4>5, DuartStream DEF Duart!WritesInOrder
    <3>2. QED
      BY <2>2, <2>3, <2>6, <3>1 DEF MCWritesInOrder
  <2>7. QED
    BY <2>1, <2>5, <2>6 DEF TxInv
<1>2. QED
  BY <1>1, OrderAlways, PTL
=============================================================================
