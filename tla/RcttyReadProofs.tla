--------------------------- MODULE RcttyReadProofs --------------------------
(***************************************************************************)
(* The read path of the UART driver, proved for buffers of any size, any   *)
(* number of threads, any modes and every interleaving of the interrupt    *)
(* handler, the work and the threads.                                      *)
(*                                                                         *)
(* The invariant RrInv carries the stream: what lies in user space, in the *)
(* ring, in the two halves of the flip buffer and in the UART, joined in   *)
(* that order, is sorted and has every character that is not lost.  To be  *)
(* kept by each step it needs where the ring ends (RrRing), that a half is *)
(* taken only when the last one is empty (RrHalf), that one thread at a    *)
(* time is inside the loop (RrMutex), and that the count this thread took  *)
(* in the first critical section is still right in the second (RrCopy).    *)
(***************************************************************************)
EXTENDS RcttyRead, SequenceTheorems, TLAPS

USE DEF wakeVars

-----------------------------------------------------------------------------
(***************************************************************************)
(* Texts, and the invariant.                                               *)
(***************************************************************************)
\* A sequence of characters.
Text == Seq(Nat)

\* In the order in which the line brought them, none twice.
Sorted(s) == \A i, j \in 1 .. Len(s) : i < j => s[i] < s[j]

\* The characters of a text.
Chars(s) == {s[i] : i \in 1 .. Len(s)}

\* Every place a character passes through, from user space back to the UART.
Stream == delivered \o RingContent \o cp \o flip \o rxFifo

\* Steps of a thread that holds atomic_read.
Inside == {"arm", "test", "sleep", "n1", "copy1", "n2", "copy2", "check", "up"}

\* Types, in parts that a proof step needs separately.
RrNumT ==
  /\ arrived \in 0 .. MaxByte
  /\ read_head \in 0 .. N_TTY_BUF_SIZE - 1
  /\ read_tail \in 0 .. N_TTY_BUF_SIZE - 1
  /\ read_cnt \in 0 .. N_TTY_BUF_SIZE
  /\ reads \in 0 .. MaxRead
  /\ minimum_to_wake \in Nat \ {0} /\ min_char \in Nat
  /\ wpc \in {"idle", "flip", "copy", "wake"}
  /\ lost \subseteq Bytes /\ read_wait \subseteq Readers

\* The queues of characters and their capacities.
RrSeqT ==
  /\ rxFifo \in Seq(Bytes) /\ Len(rxFifo) <= FifoSize
  /\ flip \in Seq(Bytes) /\ Len(flip) <= TTY_FLIPBUF_SIZE
  /\ cp \in Seq(Bytes) /\ Len(cp) <= TTY_FLIPBUF_SIZE
  /\ delivered \in Seq(0 .. MaxByte)

\* read_buf
RrBufT == read_buf \in [0 .. N_TTY_BUF_SIZE - 1 -> 0 .. MaxByte]

\* The flags.
RrFlagT == /\ pending \in BOOLEAN /\ time_char \in BOOLEAN
           /\ dont_flip \in BOOLEAN /\ atomic_read \in BOOLEAN

\* The history of late stores.
RrLateT == late \in BOOLEAN

\* The threads.
RrRdT == rd \in [Readers -> ReaderType]

\* read_head is where the content of the ring ends.
RrRing == read_head = (read_tail + read_cnt) % N_TTY_BUF_SIZE

\* The half that the work takes is empty when it takes the next one.
RrHalf == cp # <<>> => wpc = "copy"

\* One thread at a time is inside the loop of read_chan(), and it is on the
\* queue until it returns.
RrMutex ==
  \A r \in Readers :
    /\ rd[r].pc \in Inside => /\ ~atomic_read /\ r \in read_wait
                              /\ \A q \in Readers : rd[q].pc \in Inside => q = r
    /\ rd[r].pc = "leave" => r \in read_wait

\* The count taken in the first critical section of copy_from_read_buf() is
\* still there, before the end of read_buf, in the second.
RrCopy ==
  \A r \in Readers : rd[r].pc \in {"copy1", "copy2"} =>
    /\ rd[r].n <= read_cnt /\ rd[r].n <= N_TTY_BUF_SIZE - read_tail
    /\ rd[r].n <= rd[r].nr

\* The stream is in order, and a character that has arrived is in it or lost.
RrOrder ==
  /\ Sorted(Stream) /\ Chars(Stream) = (1 .. arrived) \ lost
  /\ lost \subseteq 1 .. arrived

\* The inductive invariant.
RrInv ==
  /\ RrNumT /\ RrSeqT /\ RrBufT /\ RrFlagT /\ RrRdT
  /\ RrRing /\ RrHalf /\ WorkScheduled /\ RrMutex /\ RrCopy /\ RrOrder

\* What keeps a thread from missing its wake-up, when nobody polls and no mode
\* has a VTIME: before it sleeps it still needs a character; from the moment it
\* has looked at the wake-up level that level is no higher than what it needs,
\* unless another thread stores its VMIN late; and it sleeps only while read_buf holds less, or the work is about to look.
Waits(r) ==
  /\ ~rd[r].time
  /\ rd[r].pc \in {"enter", "down"} => rd[r].got = 0
  /\ rd[r].pc \in {"arm", "test", "sleep"} => rd[r].got < rd[r].minimum
  /\ rd[r].pc \in {"test", "sleep"} /\ ~late
       => minimum_to_wake <= rd[r].minimum - rd[r].got
  /\ rd[r].pc = "sleep" /\ rd[r].state = "interruptible" /\ wpc # "wake" /\ ~late
       => read_cnt < rd[r].minimum - rd[r].got

\* Nobody polls and no mode has a VTIME.
Untimed == ~Polls /\ \A m \in Modes : ~m[2]

\* The inductive invariant for the wake-ups.
RrWakeInv == RrInv /\ ~time_char /\ \A r \in Readers : Waits(r)

\* What read() may return once it has decided to: enough characters, unless it
\* was cut short.
Kept(r) ==
  \/ rd[r].signal \/ rd[r].fault \/ rd[r].nonblock
  \/ ~rd[r].time /\ rd[r].timeout # "max"
  \/ rd[r].got + rd[r].nr < rd[r].minimum
  \/ rd[r].got >= Need0(r)

\* How the loop keeps that promise: a call with VTIME starts its timer only when
\* it has a character; the first copy finds at least one character and room for
\* it; so the call has one, or has failed, when it tests what it has.
Promise(r) ==
  /\ rd[r].time /\ rd[r].timeout # "max" => rd[r].got >= 1 \/ rd[r].fault
  /\ rd[r].pc \in {"test", "n1"} => rd[r].nr >= 1
  /\ rd[r].pc = "n1" => read_cnt >= 1
  /\ rd[r].pc = "copy1" => rd[r].n >= 1
  /\ rd[r].pc \in {"n2", "copy2", "check"} => rd[r].got >= 1 \/ rd[r].fault
  /\ rd[r].pc \in {"up", "leave", "left", "store"} => Kept(r)

\* Every call keeps its promise.
RrPromises == \A r \in Readers : Promise(r)

-----------------------------------------------------------------------------
(***************************************************************************)
(* Remainders and texts.                                                   *)
(***************************************************************************)
\* The constants are numbers.
LEMMA RrSizes ==
  /\ TTY_FLIPBUF_SIZE \in Nat \ {0} /\ N_TTY_BUF_SIZE \in Nat \ {0} /\ FifoSize \in Nat \ {0}
  /\ MaxByte \in Nat /\ MaxRead \in Nat
  BY SizeAssumption, BoundAssumption

\* Remainders of numbers less than two turns.
LEMMA ModSmall ==
  ASSUME NEW N \in Nat \ {0}, NEW a \in Nat, a < 2 * N
  PROVE  a % N = IF a < N THEN a ELSE a - N
<1>1. CASE a < N
  BY <1>1
<1>2. CASE a >= N
  BY <1>2
<1>3. QED
  BY <1>1, <1>2

\* The remainder of a position in the ring or less than one turn beyond it.
LEMMA Wrap ==
  \A a \in Nat : a < 2 * N_TTY_BUF_SIZE =>
    a % N_TTY_BUF_SIZE = IF a < N_TTY_BUF_SIZE THEN a ELSE a - N_TTY_BUF_SIZE
<1>1. \A N \in Nat \ {0}, a \in Nat :
        a < 2 * N => a % N = IF a < N THEN a ELSE a - N
  BY ModSmall
<1>2. N_TTY_BUF_SIZE \in Nat \ {0}
  BY RrSizes
<1>3. QED
  BY <1>1, <1>2, Zenon

\* The same for a sum, the form in which the code takes remainders.
LEMMA WrapSum ==
  ASSUME NEW a \in Nat, NEW b \in Nat, a + b < 2 * N_TTY_BUF_SIZE
  PROVE  (a + b) % N_TTY_BUF_SIZE =
           IF a + b < N_TTY_BUF_SIZE THEN a + b ELSE a + b - N_TTY_BUF_SIZE
<1>1. PICK c \in Nat : c = a + b
  OBVIOUS
<1>2. c % N_TTY_BUF_SIZE = IF c < N_TTY_BUF_SIZE THEN c ELSE c - N_TTY_BUF_SIZE
  BY <1>1, Wrap
<1>3. N_TTY_BUF_SIZE \in Nat
  BY RrSizes
<1>4. QED
  BY <1>1, <1>2, <1>3

\* Concatenation of texts is associative.
LEMMA JoinAssoc ==
  ASSUME NEW a \in Text, NEW b \in Text, NEW c \in Text
  PROVE  (a \o b) \o c = a \o (b \o c)
  BY ConcatAssociative DEF Text

\* Two texts make a text.
LEMMA JoinText ==
  ASSUME NEW a \in Text, NEW b \in Text
  PROVE  a \o b \in Text
  BY ConcatProperties DEF Text

\* The empty text adds nothing.
LEMMA JoinNone ==
  ASSUME NEW a \in Text
  PROVE  a \o <<>> = a /\ <<>> \o a = a
  BY ConcatEmptySeq DEF Text

\* Where the characters of two joined texts are.
LEMMA JoinParts ==
  ASSUME NEW a \in Text, NEW b \in Text
  PROVE  /\ Len(a \o b) = Len(a) + Len(b) /\ Len(a) \in Nat /\ Len(b) \in Nat
         /\ \A i \in 1 .. Len(a) : (a \o b)[i] = a[i]
         /\ \A i \in 1 .. Len(b) : (a \o b)[Len(a) + i] = b[i]
  BY DEF Text

\* Joining texts joins their characters.
LEMMA JoinChars ==
  ASSUME NEW a \in Text, NEW b \in Text
  PROVE  Chars(a \o b) = Chars(a) \union Chars(b)
<1>1. Chars(a \o b) \subseteq Chars(a) \union Chars(b)
  BY JoinParts DEF Text, Chars
<1>2. Chars(a) \union Chars(b) \subseteq Chars(a \o b)
  <2>1. Chars(a) \subseteq Chars(a \o b)
    BY JoinParts DEF Chars
  <2>2. ASSUME NEW i \in 1 .. Len(b) PROVE b[i] \in Chars(a \o b)
    <3>1. Len(a) + i \in 1 .. Len(a \o b)
      BY JoinParts
    <3>2. QED
      BY <3>1, JoinParts DEF Chars
  <2>3. QED
    BY <2>1, <2>2 DEF Chars
<1>3. QED
  BY <1>1, <1>2

\* Two texts are in order together when each is and the first comes before the
\* second.
LEMMA JoinSorted ==
  ASSUME NEW a \in Text, NEW b \in Text
  PROVE  Sorted(a \o b) <=> /\ Sorted(a) /\ Sorted(b)
                            /\ \A x \in Chars(a), y \in Chars(b) : x < y
<1>0. /\ a \o b \in Text
      /\ \A i \in 1 .. Len(a) : a[i] \in Nat
      /\ \A i \in 1 .. Len(b) : b[i] \in Nat
  BY DEF Text
<1>1. ASSUME Sorted(a), Sorted(b), \A x \in Chars(a), y \in Chars(b) : x < y
      PROVE  Sorted(a \o b)
  <2>1. SUFFICES ASSUME NEW i \in 1 .. Len(a \o b), NEW j \in 1 .. Len(a \o b), i < j
                 PROVE  (a \o b)[i] < (a \o b)[j]
    BY DEF Sorted
  <2>2. CASE j <= Len(a)
    <3>1. i \in 1 .. Len(a) /\ j \in 1 .. Len(a)
      BY <2>1, <2>2, JoinParts
    <3>2. QED
      BY <1>1, <2>1, <3>1, JoinParts DEF Sorted
  <2>3. CASE i <= Len(a) /\ j > Len(a)
    <3>1. i \in 1 .. Len(a) /\ j - Len(a) \in 1 .. Len(b) /\ j = Len(a) + (j - Len(a))
      BY <2>1, <2>3, JoinParts
    <3>2. (a \o b)[i] = a[i] /\ (a \o b)[j] = b[j - Len(a)]
      BY <3>1, JoinParts
    <3>3. QED
      BY <1>1, <3>1, <3>2 DEF Chars
  <2>4. CASE i > Len(a)
    <3>1. i - Len(a) \in 1 .. Len(b) /\ j - Len(a) \in 1 .. Len(b) /\ i - Len(a) < j - Len(a)
          /\ i = Len(a) + (i - Len(a)) /\ j = Len(a) + (j - Len(a))
      BY <2>1, <2>4, JoinParts
    <3>2. (a \o b)[i] = b[i - Len(a)] /\ (a \o b)[j] = b[j - Len(a)]
      BY <3>1, JoinParts
    <3>3. QED
      BY <1>1, <3>1, <3>2 DEF Sorted
  <2>5. QED
    BY <2>1, <2>2, <2>3, <2>4, JoinParts
<1>2. ASSUME Sorted(a \o b)
      PROVE  Sorted(a) /\ Sorted(b) /\ \A x \in Chars(a), y \in Chars(b) : x < y
  <2>1. Sorted(a)
    BY <1>2, JoinParts DEF Sorted
  <2>2. Sorted(b)
    <3>1. SUFFICES ASSUME NEW i \in 1 .. Len(b), NEW j \in 1 .. Len(b), i < j PROVE b[i] < b[j]
      BY DEF Sorted
    <3>2. /\ Len(a) + i \in 1 .. Len(a \o b) /\ Len(a) + j \in 1 .. Len(a \o b)
          /\ Len(a) + i < Len(a) + j
      BY <3>1, JoinParts
    <3>3. (a \o b)[Len(a) + i] < (a \o b)[Len(a) + j]
      BY <1>2, <3>2 DEF Sorted
    <3>4. QED
      BY <3>3, JoinParts
  <2>3. ASSUME NEW i \in 1 .. Len(a), NEW j \in 1 .. Len(b) PROVE a[i] < b[j]
    <3>2. i \in 1 .. Len(a \o b) /\ Len(a) + j \in 1 .. Len(a \o b) /\ i < Len(a) + j
      BY JoinParts
    <3>3. (a \o b)[i] < (a \o b)[Len(a) + j]
      BY <1>2, <3>2 DEF Sorted
    <3>4. QED
      BY <3>3, JoinParts
  <2>4. QED
    BY <2>1, <2>2, <2>3 DEF Chars
<1>3. QED
  BY <1>1, <1>2

\* Concatenation as an operator that the provers do not look into.
Cat(a, b) == a \o b

\* The same for Cat.
LEMMA CatAssoc ==
  ASSUME NEW a \in Text, NEW b \in Text, NEW c \in Text
  PROVE  Cat(a, b) \in Text /\ Cat(Cat(a, b), c) = Cat(a, Cat(b, c))
  BY JoinAssoc, JoinText DEF Cat

\* p moves from the front of one text to the end of the one before it.
LEMMA Shift ==
  ASSUME NEW a \in Text, NEW b \in Text, NEW p \in Text, NEW q \in Text
  PROVE  Cat(Cat(a, Cat(b, p)), q) = Cat(Cat(a, b), Cat(p, q))
  BY CatAssoc

\* b goes: the rest stays in order and has the other characters.
LEMMA Drop ==
  ASSUME NEW a \in Text, NEW b \in Text, NEW c \in Text, Sorted((a \o b) \o c)
  PROVE  /\ Sorted(a \o c) /\ Chars(a \o c) = Chars((a \o b) \o c) \ Chars(b)
<1>1. a \o b \in Text
  BY JoinText
<1>2. /\ Sorted(a \o b) /\ Sorted(c) /\ \A x \in Chars(a \o b), y \in Chars(c) : x < y
  BY <1>1, JoinSorted
<1>3. /\ Sorted(a) /\ Sorted(b) /\ \A x \in Chars(a), y \in Chars(b) : x < y
  BY <1>2, JoinSorted
<1>4. Chars(a \o b) = Chars(a) \union Chars(b)
  BY JoinChars
<1>5. Chars((a \o b) \o c) = Chars(a \o b) \union Chars(c)
  BY <1>1, JoinChars
<1>6. Chars(a \o c) = Chars(a) \union Chars(c)
  BY JoinChars
<1>7. Sorted(a \o c)
  BY <1>2, <1>3, <1>4, JoinSorted
<1>8. Chars(a) \subseteq Nat /\ Chars(b) \subseteq Nat /\ Chars(c) \subseteq Nat
  BY DEF Chars, Text
<1>9. Chars(a) \cap Chars(b) = {} /\ Chars(c) \cap Chars(b) = {}
  BY <1>2, <1>3, <1>4, <1>8
<1>10. QED
  BY <1>4, <1>5, <1>6, <1>7, <1>9

\* A new largest character at the end.
LEMMA Arrives ==
  ASSUME NEW a \in Text, NEW e \in Nat, Sorted(a), \A x \in Chars(a) : x < e
  PROVE  /\ Append(a, e) \in Text /\ Sorted(Append(a, e))
         /\ Chars(Append(a, e)) = Chars(a) \union {e}
<1>1. <<e>> \in Text /\ Sorted(<<e>>) /\ Chars(<<e>>) = {e}
  BY DEF Text, Sorted, Chars
<1>2. Append(a, e) = a \o <<e>>
  BY AppendIsConcat DEF Text
<1>3. a \o <<e>> \in Text
  BY <1>1, JoinText
<1>4. Chars(a \o <<e>>) = Chars(a) \union {e}
  BY <1>1, JoinChars
<1>5. Sorted(a \o <<e>>)
  BY <1>1, JoinSorted
<1>6. QED
  BY <1>2, <1>3, <1>4, <1>5

\* The j characters after the first i.
LEMMA Middle ==
  ASSUME NEW s \in Text, NEW i \in Nat, NEW j \in Nat, i + j <= Len(s)
  PROVE  /\ Len(SubSeq(s, i + 1, i + j)) = j
         /\ \A x \in 1 .. j : SubSeq(s, i + 1, i + j)[x] = s[i + x]
<1>1. PICK u \in Int, v \in Int : u = i + 1 /\ v = i + j
  OBVIOUS
<1>2. \A x \in u .. v : s[x] \in Nat
  BY <1>1 DEF Text
<1>3. /\ Len(SubSeq(s, u, v)) = IF u <= v THEN v - u + 1 ELSE 0
      /\ \A x \in 1 .. v - u + 1 : SubSeq(s, u, v)[x] = s[u + x - 1]
  BY <1>2, SubSeqProperties
<1>4. Len(SubSeq(s, u, v)) = j
  BY <1>1, <1>3
<1>5. ASSUME NEW x \in 1 .. j PROVE SubSeq(s, u, v)[x] = s[i + x]
  <2>1. x \in 1 .. v - u + 1 /\ u + x - 1 = i + x
    BY <1>1
  <2>2. QED
    BY <1>3, <2>1
<1>6. QED
  BY <1>1, <1>4, <1>5

\* A text in two pieces.
LEMMA Cut ==
  ASSUME NEW s \in Text, NEW k \in 0 .. Len(s)
  PROVE  /\ SubSeq(s, 1, k) \in Text /\ SubSeq(s, k + 1, Len(s)) \in Text
         /\ Len(SubSeq(s, 1, k)) = k /\ Len(SubSeq(s, k + 1, Len(s))) = Len(s) - k
         /\ \A i \in 1 .. k : SubSeq(s, 1, k)[i] = s[i]
         /\ s = SubSeq(s, 1, k) \o SubSeq(s, k + 1, Len(s))
         /\ Chars(SubSeq(s, k + 1, Len(s))) = {s[i] : i \in k + 1 .. Len(s)}
<1>1. /\ SubSeq(s, 1, k) \in Text /\ SubSeq(s, k + 1, Len(s)) \in Text
      /\ Len(SubSeq(s, 1, k)) = k /\ Len(SubSeq(s, k + 1, Len(s))) = Len(s) - k
      /\ \A i \in 1 .. k : SubSeq(s, 1, k)[i] = s[i]
      /\ \A i \in 1 .. Len(s) - k : SubSeq(s, k + 1, Len(s))[i] = s[k + i]
  BY DEF Text
<1>2. s = SubSeq(s, 1, k) \o SubSeq(s, k + 1, Len(s))
  <2>1. s \in Seq(Nat) /\ Len(s) \in Nat
    BY DEF Text
  <2>2. 1 \in 1 .. Len(s) + 1 /\ k \in 1 - 1 .. Len(s) /\ Len(s) \in k .. Len(s)
    BY <2>1
  <2>3. SubSeq(s, 1, k) \o SubSeq(s, k + 1, Len(s)) = SubSeq(s, 1, Len(s))
    BY <2>1, <2>2, ConcatAdjacentSubSeq
  <2>4. SubSeq(s, 1, Len(s)) = s
    BY <2>1, SubSeqFull
  <2>5. QED
    BY <2>3, <2>4
<1>3. Chars(SubSeq(s, k + 1, Len(s))) = {s[i] : i \in k + 1 .. Len(s)}
  <2>1. Len(s) \in Nat /\ k \in Nat
    BY DEF Text
  <2>2. ASSUME NEW i \in 1 .. Len(s) - k
        PROVE  SubSeq(s, k + 1, Len(s))[i] \in {s[x] : x \in k + 1 .. Len(s)}
    BY <1>1, <2>1
  <2>3. ASSUME NEW i \in k + 1 .. Len(s)
        PROVE  s[i] \in Chars(SubSeq(s, k + 1, Len(s)))
    <3>1. i - k \in 1 .. Len(s) - k /\ k + (i - k) = i
      BY <2>1
    <3>2. SubSeq(s, k + 1, Len(s))[i - k] = s[i]
      BY <1>1, <3>1
    <3>3. QED
      BY <1>1, <3>1, <3>2 DEF Chars
  <2>4. QED
    BY <1>1, <2>2, <2>3 DEF Chars
<1>4. QED
  BY <1>1, <1>2, <1>3

-----------------------------------------------------------------------------
(***************************************************************************)
(* The ring: what goes in at its end and out of its front.                 *)
(***************************************************************************)
\* The ring is a text.
LEMMA RrTexts ==
  ASSUME RrNumT, RrSeqT, RrBufT
  PROVE  /\ delivered \in Text /\ cp \in Text /\ flip \in Text /\ rxFifo \in Text
         /\ RingContent \in Text /\ RingContent \in Seq(0 .. MaxByte)
         /\ Len(RingContent) = read_cnt
         /\ \A i \in 1 .. read_cnt :
              RingContent[i] = read_buf[(read_tail + i - 1) % N_TTY_BUF_SIZE]
<1>1. /\ delivered \in Text /\ cp \in Text /\ flip \in Text /\ rxFifo \in Text
  BY RrSizes DEF RrSeqT, Text, Bytes
<1>2. ASSUME NEW i \in 1 .. read_cnt
      PROVE  read_buf[(read_tail + i - 1) % N_TTY_BUF_SIZE] \in 0 .. MaxByte
  <2>1. (read_tail + i - 1) % N_TTY_BUF_SIZE \in 0 .. N_TTY_BUF_SIZE - 1
    BY RrSizes DEF RrNumT
  <2>2. QED
    BY <2>1 DEF RrBufT
<1>3. read_cnt \in Nat
  BY RrSizes DEF RrNumT
<1>4. /\ RingContent \in Seq(0 .. MaxByte) /\ Len(RingContent) = read_cnt
      /\ \A i \in 1 .. read_cnt :
           RingContent[i] = read_buf[(read_tail + i - 1) % N_TTY_BUF_SIZE]
  BY <1>2, <1>3 DEF RingContent
<1>5. RingContent \in Text
  BY <1>4, RrSizes DEF Text
<1>6. QED
  BY <1>1, <1>4, <1>5

\* The places of the ring, without the remainder.
LEMMA RrPlace ==
  ASSUME RrNumT, NEW i \in 1 .. N_TTY_BUF_SIZE
  PROVE  (read_tail + i - 1) % N_TTY_BUF_SIZE =
           IF read_tail + i - 1 < N_TTY_BUF_SIZE THEN read_tail + i - 1
           ELSE read_tail + i - 1 - N_TTY_BUF_SIZE
<1>1. /\ read_tail + i - 1 \in Nat /\ read_tail + i - 1 < 2 * N_TTY_BUF_SIZE
      /\ N_TTY_BUF_SIZE \in Nat \ {0} /\ read_tail \in Nat
  BY RrSizes DEF RrNumT
<1>2. PICK a \in Nat : a = read_tail + i - 1
  BY <1>1
<1>3. a % N_TTY_BUF_SIZE = IF a < N_TTY_BUF_SIZE THEN a ELSE a - N_TTY_BUF_SIZE
  BY <1>1, <1>2, Wrap
<1>4. QED
  BY <1>1, <1>2, <1>3

\* copy_from_read_buf() takes m characters that lie before the end of the ring
\* out of its front.
LEMMA RrTakesOut ==
  ASSUME RrNumT, RrSeqT, RrBufT, NEW m \in Nat, m <= read_cnt, m <= N_TTY_BUF_SIZE - read_tail,
         read_tail' = (read_tail + m) % N_TTY_BUF_SIZE, read_cnt' = read_cnt - m,
         read_buf' = read_buf
  PROVE  /\ MemRead(read_tail, m) \in Seq(0 .. MaxByte)
         /\ RingContent' \in Text
         /\ RingContent = MemRead(read_tail, m) \o RingContent'
         /\ read_tail' \in 0 .. N_TTY_BUF_SIZE - 1 /\ read_cnt' \in 0 .. N_TTY_BUF_SIZE
<1>0. /\ N_TTY_BUF_SIZE \in Nat \ {0} /\ read_tail \in Nat /\ read_cnt \in Nat
      /\ read_tail < N_TTY_BUF_SIZE /\ read_cnt <= N_TTY_BUF_SIZE
  BY RrSizes DEF RrNumT
<1>1. read_tail' = IF read_tail + m < N_TTY_BUF_SIZE THEN read_tail + m ELSE 0
  <2>1. read_tail + m \in Nat /\ read_tail + m < 2 * N_TTY_BUF_SIZE
    BY <1>0
  <2>2. QED
    BY <1>0, <2>1, Wrap
<1>2. read_tail' \in 0 .. N_TTY_BUF_SIZE - 1 /\ read_cnt' \in 0 .. N_TTY_BUF_SIZE
  BY <1>0, <1>1
<1>3. ASSUME NEW i \in 1 .. m
      PROVE  /\ read_tail + i - 1 \in 0 .. N_TTY_BUF_SIZE - 1
             /\ read_buf[read_tail + i - 1] \in 0 .. MaxByte
  BY <1>0 DEF RrBufT
<1>4. MemRead(read_tail, m) = [i \in 1 .. m |-> read_buf[read_tail + i - 1]]
  BY <1>0, <1>3 DEF MemRead
<1>5. /\ MemRead(read_tail, m) \in Seq(0 .. MaxByte) /\ Len(MemRead(read_tail, m)) = m
      /\ \A i \in 1 .. m : MemRead(read_tail, m)[i] = read_buf[read_tail + i - 1]
  BY <1>3, <1>4
<1>6. RingContent' = [i \in 1 .. read_cnt' |-> read_buf[(read_tail' + i - 1) % N_TTY_BUF_SIZE]]
  BY DEF RingContent
<1>7. ASSUME NEW i \in 1 .. read_cnt'
      PROVE  /\ (read_tail' + i - 1) % N_TTY_BUF_SIZE = (read_tail + m + i - 1) % N_TTY_BUF_SIZE
             /\ read_buf[(read_tail' + i - 1) % N_TTY_BUF_SIZE] \in 0 .. MaxByte
  <2>1. /\ read_tail' + i - 1 \in Nat /\ read_tail' + i - 1 < 2 * N_TTY_BUF_SIZE
        /\ read_tail + m + i - 1 \in Nat /\ read_tail + m + i - 1 < 2 * N_TTY_BUF_SIZE
    BY <1>0, <1>1, <1>2
  <2>2. /\ (read_tail' + i - 1) % N_TTY_BUF_SIZE =
             IF read_tail' + i - 1 < N_TTY_BUF_SIZE THEN read_tail' + i - 1
             ELSE read_tail' + i - 1 - N_TTY_BUF_SIZE
        /\ (read_tail + m + i - 1) % N_TTY_BUF_SIZE =
             IF read_tail + m + i - 1 < N_TTY_BUF_SIZE THEN read_tail + m + i - 1
             ELSE read_tail + m + i - 1 - N_TTY_BUF_SIZE
    <3>1. PICK a \in Nat, b \in Nat : a = read_tail' + i - 1 /\ b = read_tail + m + i - 1
      BY <2>1
    <3>2. /\ a % N_TTY_BUF_SIZE = IF a < N_TTY_BUF_SIZE THEN a ELSE a - N_TTY_BUF_SIZE
          /\ b % N_TTY_BUF_SIZE = IF b < N_TTY_BUF_SIZE THEN b ELSE b - N_TTY_BUF_SIZE
      BY <2>1, <3>1, Wrap
    <3>3. QED
      BY <1>0, <1>2, <3>1, <3>2
  <2>3. (read_tail' + i - 1) % N_TTY_BUF_SIZE = (read_tail + m + i - 1) % N_TTY_BUF_SIZE
    BY <1>0, <1>1, <1>2, <2>1, <2>2
  <2>4. (read_tail' + i - 1) % N_TTY_BUF_SIZE \in 0 .. N_TTY_BUF_SIZE - 1
    BY <1>0, <2>1, <2>2
  <2>5. QED
    BY <2>3, <2>4 DEF RrBufT
<1>8. /\ RingContent' \in Seq(0 .. MaxByte) /\ Len(RingContent') = read_cnt'
      /\ \A i \in 1 .. read_cnt' :
           RingContent'[i] = read_buf[(read_tail + m + i - 1) % N_TTY_BUF_SIZE]
  BY <1>0, <1>2, <1>6, <1>7
<1>9. RingContent' \in Text /\ MemRead(read_tail, m) \in Text
  BY <1>5, <1>8, RrSizes DEF Text
<1>10. RingContent = MemRead(read_tail, m) \o RingContent'
  <2>1. /\ RingContent \in Text /\ Len(RingContent) = read_cnt
        /\ \A i \in 1 .. read_cnt :
             RingContent[i] = read_buf[(read_tail + i - 1) % N_TTY_BUF_SIZE]
    BY RrTexts
  <2>2. /\ MemRead(read_tail, m) \o RingContent' \in Text
        /\ Len(MemRead(read_tail, m) \o RingContent') = read_cnt
    <3>1. Len(MemRead(read_tail, m) \o RingContent') = m + read_cnt'
      BY <1>5, <1>8, <1>9, JoinParts
    <3>2. MemRead(read_tail, m) \o RingContent' \in Text
      BY <1>9, JoinText
    <3>3. m + read_cnt' = read_cnt
      BY <1>0
    <3>4. QED
      BY <3>1, <3>2, <3>3
  <2>3. ASSUME NEW i \in 1 .. read_cnt
        PROVE  RingContent[i] = (MemRead(read_tail, m) \o RingContent')[i]
    <3>1. CASE i <= m
      <4>1. i \in 1 .. m /\ i \in 1 .. N_TTY_BUF_SIZE
        BY <1>0, <3>1
      <4>2. (read_tail + i - 1) % N_TTY_BUF_SIZE = read_tail + i - 1
        BY <1>0, <1>3, <4>1, RrPlace
      <4>3. RingContent[i] = MemRead(read_tail, m)[i] /\ i \in 1 .. Len(MemRead(read_tail, m))
        BY <1>5, <2>1, <4>1, <4>2
      <4>4. PICK u \in Text, v \in Text : u = MemRead(read_tail, m) /\ v = RingContent'
        BY <1>9
      <4>5. \A k \in 1 .. Len(u) : (u \o v)[k] = u[k]
        BY JoinParts
      <4>6. QED
        BY <4>3, <4>4, <4>5
    <3>2. CASE i > m
      <4>1. i - m \in 1 .. read_cnt' /\ m + (i - m) = i
            /\ read_tail + m + (i - m) - 1 = read_tail + i - 1
        BY <1>0, <3>2
      <4>2. (MemRead(read_tail, m) \o RingContent')[m + (i - m)] = RingContent'[i - m]
        BY <1>5, <1>8, <1>9, <4>1, JoinParts
      <4>3. QED
        BY <1>8, <2>1, <4>1, <4>2
    <3>3. i <= m \/ i > m
      BY <1>0
    <3>4. QED
      BY <3>1, <3>2, <3>3, Zenon
  <2>4. QED
    BY <2>1, <2>2, <2>3, SeqEqual DEF Text
<1>11. QED
  BY <1>2, <1>5, <1>9, <1>10
\* n_tty_receive_buf() puts the first k characters of cp at the end of the ring
\* and counts the others as lost.
LEMMA RrPutsIn ==
  ASSUME RrNumT, RrSeqT, RrBufT, RrRing, n_tty_receive_buf
  PROVE  \E k \in 0 .. Len(cp) :
           /\ RingContent' = RingContent \o SubSeq(cp, 1, k)
           /\ lost' = lost \union {cp[x] : x \in k + 1 .. Len(cp)}
           /\ read_cnt' = read_cnt + k
           /\ read_cnt' \in 0 .. N_TTY_BUF_SIZE /\ read_head' \in 0 .. N_TTY_BUF_SIZE - 1
           /\ RrBufT' /\ RrRing'
<1> DEFINE N == N_TTY_BUF_SIZE
           i == Min2(Len(cp), Room(read_cnt, read_head))
           head == (read_head + i) % N
           j == Min2(Len(cp) - i, Room(read_cnt + i, head))
<1>0. /\ N \in Nat \ {0} /\ Len(cp) \in Nat
      /\ read_tail \in Nat /\ read_cnt \in Nat /\ read_head \in Nat
      /\ read_tail < N /\ read_cnt <= N /\ read_head < N
  BY RrSizes DEF RrNumT, RrSeqT
<1>1. /\ i \in Nat /\ i <= Len(cp) /\ i <= N - read_cnt /\ i <= N - read_head
      /\ i = Len(cp) \/ i = N - read_cnt \/ i = N - read_head
  BY <1>0 DEF Min2, Room
<1>h. head = (read_head + i) % N
  OBVIOUS
<1>j. j = Min2(Len(cp) - i, Room(read_cnt + i, head))
  OBVIOUS
<1>a. /\ read_buf' = CopyIn(CopyIn(read_buf, read_head, SubSeq(cp, 1, i)),
                            head, SubSeq(cp, i + 1, i + j))
      /\ read_head' = (head + j) % N
      /\ read_cnt' = read_cnt + i + j
      /\ lost' = lost \union {cp[x] : x \in i + j + 1 .. Len(cp)}
      /\ read_tail' = read_tail
  BY DEF n_tty_receive_buf
<1> HIDE DEF i, head, j
<1>2. head = IF read_head + i < N THEN read_head + i ELSE 0
  <2>1. read_head + i < 2 * N
    BY <1>0, <1>1
  <2>2. head = IF read_head + i < N THEN read_head + i ELSE read_head + i - N
    BY <1>0, <1>1, <1>h, <2>1, WrapSum
  <2>3. QED
    BY <1>0, <1>1, <2>2
<1>3. /\ j \in Nat /\ j <= Len(cp) - i /\ j <= N - (read_cnt + i) /\ j <= N - head
      /\ j > 0 => read_head + i = N /\ head = 0
  <2>1. head \in Nat /\ head < N
    BY <1>0, <1>1, <1>2
  <2>2. /\ j \in Nat /\ j <= Len(cp) - i /\ j <= N - (read_cnt + i) /\ j <= N - head
    BY <1>0, <1>1, <1>j, <2>1 DEF Min2, Room
  <2>3. QED
    BY <1>0, <1>1, <1>2, <2>2
<1>4. read_head = IF read_tail + read_cnt < N THEN read_tail + read_cnt
                  ELSE read_tail + read_cnt - N
  <2>1. read_tail + read_cnt \in Nat /\ read_tail + read_cnt < 2 * N
    BY <1>0
  <2>2. QED
    BY <1>0, <2>1, WrapSum DEF RrRing
<1>5. read_head' = IF head + j < N THEN head + j ELSE 0
  <2>1. head \in Nat /\ head + j < 2 * N
    BY <1>0, <1>1, <1>2, <1>3
  <2>2. read_head' = IF head + j < N THEN head + j ELSE head + j - N
    BY <1>3, <1>a, <2>1, WrapSum
  <2>3. QED
    BY <1>0, <1>3, <2>1, <2>2
<1>7. read_cnt' \in 0 .. N /\ read_head' \in 0 .. N - 1
  <2>1. head \in Nat
    BY <1>0, <1>1, <1>2
  <2>2. read_head' \in 0 .. N - 1
    BY <1>0, <1>3, <1>5, <2>1
  <2>3. QED
    BY <1>0, <1>1, <1>3, <1>a, <2>2
<1>6. RrRing'
  <2>1. read_tail + read_cnt' \in Nat /\ read_tail + read_cnt' < 2 * N
    BY <1>0, <1>1, <1>3, <1>a
  <2>2. (read_tail + read_cnt') % N = IF read_tail + read_cnt' < N THEN read_tail + read_cnt'
                                      ELSE read_tail + read_cnt' - N
    <3>1. PICK c \in Nat : c = read_cnt'
      BY <1>0, <1>7
    <3>2. (read_tail + c) % N = IF read_tail + c < N THEN read_tail + c
                                ELSE read_tail + c - N
      BY <1>0, <2>1, <3>1, WrapSum
    <3>3. QED
      BY <3>1, <3>2
  <2>3. read_head' = IF read_tail + read_cnt' < N THEN read_tail + read_cnt'
                     ELSE read_tail + read_cnt' - N
    BY <1>0, <1>1, <1>2, <1>3, <1>4, <1>5, <1>a
  <2>4. QED
    BY <1>a, <2>2, <2>3 DEF RrRing
<1>8. /\ Len(SubSeq(cp, 1, i)) = i /\ \A x \in 1 .. i : SubSeq(cp, 1, i)[x] = cp[x]
      /\ Len(SubSeq(cp, i + 1, i + j)) = j
      /\ \A x \in 1 .. j : SubSeq(cp, i + 1, i + j)[x] = cp[i + x]
  <2>1. cp \in Seq(Bytes) /\ i \in 0 .. Len(cp) /\ i + j \in i .. Len(cp)
    BY <1>0, <1>1, <1>3 DEF RrSeqT
  <2>2. Len(SubSeq(cp, 1, i)) = i /\ \A x \in 1 .. i : SubSeq(cp, 1, i)[x] = cp[x]
    <3>1. cp \in Text /\ i \in 0 .. Len(cp)
      BY <2>1, RrTexts
    <3>2. QED
      BY <3>1, Cut
  <2>3. /\ Len(SubSeq(cp, i + 1, i + j)) = j
        /\ \A x \in 1 .. j : SubSeq(cp, i + 1, i + j)[x] = cp[i + x]
    BY <1>1, <1>3, <2>1, RrTexts, Middle
  <2>4. QED
    BY <2>2, <2>3
<1>9. ASSUME NEW x \in 0 .. N - 1
      PROVE  read_buf'[x] = IF head <= x /\ x < head + j THEN cp[i + (x - head + 1)]
                            ELSE IF read_head <= x /\ x < read_head + i
                            THEN cp[x - read_head + 1] ELSE read_buf[x]
  <2> DEFINE mid == CopyIn(read_buf, read_head, SubSeq(cp, 1, i))
  <2>0. x \in Nat
    BY <1>0
  <2>1. mid[x] = IF read_head <= x /\ x < read_head + i
                 THEN cp[x - read_head + 1] ELSE read_buf[x]
    <3>1. read_head <= x /\ x < read_head + i => x - read_head + 1 \in 1 .. i
      BY <1>0, <1>1, <2>0
    <3>2. mid[x] = IF read_head <= x /\ x < read_head + Len(SubSeq(cp, 1, i))
                   THEN SubSeq(cp, 1, i)[x - read_head + 1] ELSE read_buf[x]
      BY DEF CopyIn
    <3>3. QED
      BY <1>8, <3>1, <3>2
  <2> HIDE DEF mid
  <2>2. head <= x /\ x < head + j => x - head + 1 \in 1 .. j
    BY <1>0, <1>1, <1>2, <1>3, <2>0
  <2>3. read_buf'[x] = IF head <= x /\ x < head + Len(SubSeq(cp, i + 1, i + j))
                       THEN SubSeq(cp, i + 1, i + j)[x - head + 1] ELSE mid[x]
    BY <1>a DEF CopyIn, mid
  <2>4. QED
    BY <1>8, <2>1, <2>2, <2>3
<1>10. read_buf' = [x \in 0 .. N - 1 |-> read_buf'[x]]
  BY <1>a DEF CopyIn
<1>11. RrBufT'
  <2>1. ASSUME NEW x \in 0 .. N - 1 PROVE read_buf'[x] \in 0 .. MaxByte
    <3>1. read_buf[x] \in 0 .. MaxByte
      BY DEF RrBufT
    <3>2. \A y \in 1 .. Len(cp) : cp[y] \in 0 .. MaxByte
      BY RrSizes DEF RrSeqT, Bytes
    <3>3. head <= x /\ x < head + j => i + (x - head + 1) \in 1 .. Len(cp)
      BY <1>0, <1>1, <1>2, <1>3
    <3>4. read_head <= x /\ x < read_head + i => x - read_head + 1 \in 1 .. Len(cp)
      BY <1>0, <1>1, <1>2, <1>3
    <3>5. QED
      BY <1>9, <3>1, <3>2, <3>3, <3>4
  <2>2. QED
    BY <1>10, <2>1 DEF RrBufT
<1>12. RingContent' = [q \in 1 .. read_cnt' |-> read_buf'[(read_tail + q - 1) % N]]
  BY <1>a DEF RingContent
<1>13. ASSUME NEW q \in 1 .. read_cnt'
       PROVE  (read_tail + q - 1) % N = IF read_tail + q - 1 < N THEN read_tail + q - 1
                                        ELSE read_tail + q - 1 - N
  <2>1. q \in 1 .. N
    BY <1>0, <1>7
  <2>2. QED
    BY <2>1, RrPlace
<1>14. ASSUME NEW q \in 1 .. read_cnt
       PROVE  read_buf'[(read_tail + q - 1) % N] = read_buf[(read_tail + q - 1) % N]
  <2>1. q \in 1 .. read_cnt'
    BY <1>0, <1>1, <1>3, <1>a
  <2>2. PICK x \in Nat : x = (read_tail + q - 1) % N /\ x < N
                         /\ x = IF read_tail + q - 1 < N THEN read_tail + q - 1
                                ELSE read_tail + q - 1 - N
    <3>1. (read_tail + q - 1) % N \in 0 .. N - 1
      BY <1>0
    <3>2. QED
      BY <1>0, <1>13, <2>1, <3>1
  <2>3. ~(head <= x /\ x < head + j) /\ ~(read_head <= x /\ x < read_head + i)
    BY <1>0, <1>1, <1>2, <1>3, <1>4, <2>2
  <2>4. x \in 0 .. N - 1
    BY <1>0, <2>2
  <2>5. read_buf'[x] = read_buf[x]
    BY <1>9, <2>3, <2>4
  <2>6. QED
    BY <2>2, <2>5
<1>15. ASSUME NEW p \in 1 .. i + j
       PROVE  read_buf'[(read_tail + (read_cnt + p) - 1) % N] = cp[p]
  <2>1. read_cnt + p \in 1 .. read_cnt'
    BY <1>0, <1>1, <1>3, <1>a
  <2>2. PICK x \in Nat : x = (read_tail + (read_cnt + p) - 1) % N /\ x < N
                         /\ x = IF read_tail + (read_cnt + p) - 1 < N
                                THEN read_tail + (read_cnt + p) - 1
                                ELSE read_tail + (read_cnt + p) - 1 - N
    <3>1. PICK q \in 1 .. read_cnt' : q = read_cnt + p
      BY <2>1
    <3>2. (read_tail + q - 1) % N \in 0 .. N - 1
      BY <1>0, <1>7, <3>1
    <3>3. (read_tail + q - 1) % N = IF read_tail + q - 1 < N THEN read_tail + q - 1
                                    ELSE read_tail + q - 1 - N
      BY <1>13
    <3>4. QED
      BY <1>0, <1>7, <3>1, <3>2, <3>3
  <2>4. x \in 0 .. N - 1
    BY <1>0, <2>2
  <2>5. CASE p <= i
    <3>1. /\ ~(head <= x /\ x < head + j)
          /\ read_head <= x /\ x < read_head + i /\ x - read_head + 1 = p
      BY <1>0, <1>1, <1>2, <1>3, <1>4, <2>2, <2>5
    <3>2. QED
      BY <1>9, <2>2, <2>4, <3>1
  <2>6. CASE p > i
    <3>1. /\ head <= x /\ x < head + j /\ i + (x - head + 1) = p
      BY <1>0, <1>1, <1>2, <1>3, <1>4, <2>2, <2>6
    <3>2. QED
      BY <1>9, <2>2, <2>4, <3>1
  <2>7. p <= i \/ p > i
    BY <1>1, <1>3
  <2>8. QED
    BY <2>5, <2>6, <2>7, Zenon
<1>16. RingContent' = RingContent \o SubSeq(cp, 1, i + j)
  <2>0. i + j \in 0 .. Len(cp) /\ i + j \in Nat /\ cp \in Text /\ cp \in Seq(Bytes)
    BY <1>0, <1>1, <1>3, RrTexts DEF RrSeqT
  <2>1. /\ RingContent \in Text /\ Len(RingContent) = read_cnt
        /\ \A q \in 1 .. read_cnt : RingContent[q] = read_buf[(read_tail + q - 1) % N]
    BY RrTexts
  <2>2. /\ SubSeq(cp, 1, i + j) \in Text /\ Len(SubSeq(cp, 1, i + j)) = i + j
        /\ \A p \in 1 .. i + j : SubSeq(cp, 1, i + j)[p] = cp[p]
    BY <2>0, Cut
  <2>3. /\ RingContent \o SubSeq(cp, 1, i + j) \in Text
        /\ Len(RingContent \o SubSeq(cp, 1, i + j)) = read_cnt'
        /\ \A q \in 1 .. read_cnt :
             (RingContent \o SubSeq(cp, 1, i + j))[q] = RingContent[q]
        /\ \A p \in 1 .. i + j :
             (RingContent \o SubSeq(cp, 1, i + j))[read_cnt + p] = SubSeq(cp, 1, i + j)[p]
    <3>1. RingContent \o SubSeq(cp, 1, i + j) \in Text
      BY <2>1, <2>2, JoinText
    <3>2. read_cnt' = read_cnt + (i + j)
      BY <1>0, <1>1, <1>3, <1>a
    <3>3. PICK u \in Text, v \in Text : u = RingContent /\ v = SubSeq(cp, 1, i + j)
      BY <2>1, <2>2
    <3>4. /\ Len(u \o v) = Len(u) + Len(v)
          /\ \A q \in 1 .. Len(u) : (u \o v)[q] = u[q]
          /\ \A p \in 1 .. Len(v) : (u \o v)[Len(u) + p] = v[p]
      BY JoinParts
    <3>5. Len(u) = read_cnt /\ Len(v) = i + j
      BY <2>1, <2>2, <3>3
    <3>6. QED
      BY <3>1, <3>2, <3>3, <3>4, <3>5
  <2>4. ASSUME NEW q \in 1 .. read_cnt'
        PROVE  read_buf'[(read_tail + q - 1) % N] = (RingContent \o SubSeq(cp, 1, i + j))[q]
    <3>1. CASE q <= read_cnt
      <4>1. q \in 1 .. read_cnt
        BY <1>0, <1>7, <3>1
      <4>2. QED
        BY <1>14, <2>1, <2>3, <4>1
    <3>2. CASE q > read_cnt
      <4>1. PICK p \in 1 .. i + j : q = read_cnt + p
        <5>1. q - read_cnt \in 1 .. i + j /\ q = read_cnt + (q - read_cnt)
          BY <1>0, <1>1, <1>3, <1>7, <1>a, <3>2
        <5>2. QED
          BY <5>1
      <4>2. QED
        BY <1>15, <2>2, <2>3, <4>1
    <3>3. q <= read_cnt \/ q > read_cnt
      BY <1>0, <1>7
    <3>4. QED
      BY <3>1, <3>2, <3>3, Zenon
  <2>5. RingContent' \in Seq(Nat) /\ Len(RingContent') = read_cnt'
        /\ \A q \in 1 .. read_cnt' : RingContent'[q] = read_buf'[(read_tail + q - 1) % N]
    <3>1. ASSUME NEW q \in 1 .. read_cnt' PROVE read_buf'[(read_tail + q - 1) % N] \in Nat
      <4>1. (read_tail + q - 1) % N \in 0 .. N - 1
        BY <1>0, <1>7, <1>13
      <4>2. QED
        BY <1>11, <4>1, RrSizes DEF RrBufT
    <3>2. read_cnt' \in Nat
      BY <1>0, <1>7
    <3>3. QED
      BY <1>12, <3>1, <3>2
  <2>6. QED
    BY <2>3, <2>4, <2>5, SeqEqual DEF Text
<1>17. QED
  <2>1. i + j \in 0 .. Len(cp) /\ read_cnt' = read_cnt + (i + j)
    BY <1>0, <1>1, <1>3, <1>a
  <2>2. QED
    BY <1>6, <1>7, <1>11, <1>16, <1>a, <2>1

-----------------------------------------------------------------------------
(***************************************************************************)
(* Moving characters keeps the stream in order.                            *)
(***************************************************************************)
\* The stream and its fronts are texts.
LEMMA FrontText ==
  ASSUME RrNumT, RrSeqT, RrBufT
  PROVE  /\ delivered \o RingContent \in Text
         /\ delivered \o RingContent \o cp \in Text
         /\ delivered \o RingContent \o cp \o flip \in Text
         /\ delivered \o RingContent \o cp \o flip \o rxFifo \in Text
<1>1. /\ delivered \in Text /\ cp \in Text /\ flip \in Text /\ rxFifo \in Text
      /\ RingContent \in Text
  BY RrTexts
<1>2. \A a \in Text, b \in Text : a \o b \in Text
  BY JoinText
<1>3. delivered \o RingContent \in Text
  BY <1>1, <1>2, Zenon
<1>4. delivered \o RingContent \o cp \in Text
  BY <1>1, <1>2, <1>3, Zenon
<1>5. delivered \o RingContent \o cp \o flip \in Text
  BY <1>1, <1>2, <1>4, Zenon
<1>6. QED
  BY <1>1, <1>2, <1>3, <1>4, <1>5, Zenon

\* Steps that touch no place of the stream keep its order.
LEMMA OrderSame ==
  ASSUME RrOrder,
         UNCHANGED <<arrived, lost, delivered, read_buf, read_tail, read_cnt, cp, flip, rxFifo>>
  PROVE  RrOrder'
<1>1. Stream' = Stream
  BY DEF Stream, RingContent
<1>2. QED
  BY <1>1 DEF RrOrder, Sorted, Chars

\* The line: the new character is the largest one, in the FIFO or lost.
LEMMA OrderLine ==
  ASSUME RrNumT, RrSeqT, RrBufT, RrOrder, LineBringsByte
  PROVE  RrOrder'
<1>0. arrived \in Nat /\ arrived' = arrived + 1 /\ RingContent' = RingContent
  BY RrSizes DEF RrNumT, LineBringsByte, RingContent, ringVars
<1>1. PICK a \in Text : a = delivered \o RingContent \o cp \o flip /\ a \o rxFifo \in Text
  BY FrontText
<1>2. Stream = a \o rxFifo
  BY <1>1 DEF Stream
<1>3. a = delivered' \o RingContent' \o cp' \o flip'
  BY <1>0, <1>1 DEF LineBringsByte, flipVars, workVars
<1>4. Stream' = a \o rxFifo'
  BY <1>3 DEF Stream
<1>5. arrived + 1 \in Nat /\ \A x \in Chars(Stream) : x < arrived + 1
  BY <1>0 DEF RrOrder
<1>6. (1 .. arrived + 1) \ {arrived + 1} = 1 .. arrived /\ arrived + 1 \in 1 .. arrived + 1
  BY <1>0
<1>7. CASE Len(rxFifo) < FifoSize
  <2>1. rxFifo' = Append(rxFifo, arrived + 1) /\ lost' = lost
    BY <1>7 DEF LineBringsByte
  <2>2. rxFifo \in Text /\ <<arrived + 1>> \in Text
    BY <1>5, RrTexts DEF Text
  <2>3. rxFifo' = rxFifo \o <<arrived + 1>>
    BY <1>5, <2>1, <2>2, AppendIsConcat DEF Text
  <2>4. Stream' = Stream \o <<arrived + 1>>
    BY <1>2, <1>4, <2>2, <2>3, JoinAssoc
  <2>5. Stream' = Append(Stream, arrived + 1)
    BY <1>1, <1>2, <1>5, <2>4, AppendIsConcat DEF Text
  <2>6. Sorted(Append(Stream, arrived + 1))
        /\ Chars(Append(Stream, arrived + 1)) = Chars(Stream) \union {arrived + 1}
    BY <1>1, <1>2, <1>5, Arrives DEF RrOrder
  <2>7. arrived + 1 \notin lost
    BY <1>0 DEF RrOrder
  <2>8. lost' \subseteq 1 .. arrived'
    BY <1>0, <2>1 DEF RrOrder
  <2>9. QED
    BY <1>0, <1>6, <2>1, <2>5, <2>6, <2>7, <2>8 DEF RrOrder
<1>8. CASE ~(Len(rxFifo) < FifoSize)
  <2>1. rxFifo' = rxFifo /\ lost' = lost \union {arrived + 1}
    BY <1>8 DEF LineBringsByte
  <2>2. Stream' = Stream
    BY <1>2, <1>4, <2>1
  <2>3. (1 .. arrived') \ lost' = (1 .. arrived) \ lost
    BY <1>0, <1>6, <2>1
  <2>4. lost' \subseteq 1 .. arrived'
    BY <1>0, <2>1 DEF RrOrder
  <2>5. QED
    BY <2>2, <2>3, <2>4 DEF RrOrder, Sorted, Chars
<1>9. QED
  BY <1>7, <1>8

\* The interrupt handler moves the front of the FIFO to the end of the flip
\* buffer.
LEMMA OrderIrq ==
  ASSUME RrNumT, RrSeqT, RrBufT, RrOrder, xr_rx_chars_duart
  PROVE  RrOrder'
<1> DEFINE k == Min2(Len(rxFifo), TTY_FLIPBUF_SIZE - Len(flip))
<1>1. k \in 0 .. Len(rxFifo)
  BY RrSizes DEF RrSeqT, Min2
<1>2. /\ rxFifo' = SubSeq(rxFifo, k + 1, Len(rxFifo)) /\ flip' = flip \o SubSeq(rxFifo, 1, k)
      /\ UNCHANGED <<arrived, lost, delivered, cp>> /\ RingContent' = RingContent
  BY DEF xr_rx_chars_duart, workVars, ringVars, RingContent
<1> HIDE DEF k
<1>3. /\ SubSeq(rxFifo, 1, k) \in Text /\ SubSeq(rxFifo, k + 1, Len(rxFifo)) \in Text
      /\ rxFifo = SubSeq(rxFifo, 1, k) \o SubSeq(rxFifo, k + 1, Len(rxFifo))
  BY <1>1, RrTexts, Cut
<1>4. PICK a \in Text : a = delivered \o RingContent \o cp
  BY FrontText
<1>5. PICK p \in Text, q \in Text :
        p = SubSeq(rxFifo, 1, k) /\ q = SubSeq(rxFifo, k + 1, Len(rxFifo))
  BY <1>3
<1>6. Stream = (a \o flip) \o (p \o q)
  BY <1>3, <1>4, <1>5 DEF Stream
<1>7. Stream' = (a \o (flip \o p)) \o q
  BY <1>2, <1>4, <1>5 DEF Stream
<1>8. flip \in Text
  BY RrTexts
<1>9. Stream' = Stream
  <2>1. PICK f \in Text : f = flip
    BY <1>8
  <2>2. Cat(Cat(a, Cat(f, p)), q) = Cat(Cat(a, f), Cat(p, q))
    BY Shift
  <2>3. QED
    BY <1>6, <1>7, <2>1, <2>2 DEF Cat
<1>10. QED
  BY <1>2, <1>9 DEF RrOrder, Sorted, Chars

\* The work takes the filled half when it has copied out of the other.
LEMMA OrderFlip ==
  ASSUME RrNumT, RrSeqT, RrBufT, RrOrder, RrHalf, FlipBuffers
  PROVE  RrOrder'
<1>1. cp = <<>> /\ cp' = flip /\ flip' = <<>>
  BY DEF RrHalf, FlipBuffers
<1>2. UNCHANGED <<arrived, lost, delivered, rxFifo>> /\ RingContent' = RingContent
  BY DEF FlipBuffers, uartVars, ringVars, RingContent
<1>3. PICK a \in Text : a = delivered \o RingContent
  BY FrontText
<1>4. flip \in Text
  BY RrTexts
<1>5. a \o <<>> = a
  BY JoinNone
<1>6. PICK b \in Text : b = a \o flip
  BY <1>4, JoinText
<1>7. b \o <<>> = b
  BY JoinNone
<1>8. Stream = b \o rxFifo
  BY <1>1, <1>3, <1>5, <1>6 DEF Stream
<1>9. Stream' = b \o rxFifo
  BY <1>1, <1>2, <1>3, <1>6, <1>7 DEF Stream
<1>10. QED
  BY <1>2, <1>8, <1>9 DEF RrOrder, Sorted, Chars

\* n_tty_receive_buf(): what it cannot place in the ring goes from the middle
\* of the stream and is counted as lost.
LEMMA OrderReceive ==
  ASSUME RrNumT, RrSeqT, RrBufT, RrOrder, RrRing, n_tty_receive_buf
  PROVE  RrOrder'
<1>1. PICK k \in 0 .. Len(cp) :
        /\ RingContent' = RingContent \o SubSeq(cp, 1, k)
        /\ lost' = lost \union {cp[x] : x \in k + 1 .. Len(cp)}
  BY RrPutsIn
<1>2. cp' = <<>> /\ UNCHANGED <<arrived, delivered, rxFifo, flip>>
  BY DEF n_tty_receive_buf, uartVars, flipVars
<1>3. /\ SubSeq(cp, 1, k) \in Text /\ SubSeq(cp, k + 1, Len(cp)) \in Text
      /\ cp = SubSeq(cp, 1, k) \o SubSeq(cp, k + 1, Len(cp))
      /\ Chars(SubSeq(cp, k + 1, Len(cp))) = {cp[x] : x \in k + 1 .. Len(cp)}
  BY <1>1, RrTexts, Cut
<1>4. PICK p \in Text, q \in Text : p = SubSeq(cp, 1, k) /\ q = SubSeq(cp, k + 1, Len(cp))
  BY <1>3
<1>5. PICK d \in Text, s \in Text, f \in Text, x \in Text :
        d = delivered /\ s = RingContent /\ f = flip /\ x = rxFifo
  BY RrTexts
<1>6. PICK a \in Text : a = d \o (s \o p)
  BY JoinText
<1>7. PICK c \in Text : c = f \o x
  BY JoinText
<1>8. Stream = (((d \o s) \o (p \o q)) \o f) \o x
  BY <1>3, <1>4, <1>5 DEF Stream
<1>9. (d \o s) \o (p \o q) = a \o q
  <2>1. Cat(Cat(d, Cat(s, p)), q) = Cat(Cat(d, s), Cat(p, q))
    BY Shift
  <2>2. QED
    BY <1>6, <2>1 DEF Cat
<1>10. ((a \o q) \o f) \o x = (a \o q) \o c
  <2>1. PICK b \in Text : b = a \o q
    BY JoinText
  <2>2. Cat(Cat(b, f), x) = Cat(b, Cat(f, x))
    BY CatAssoc
  <2>3. QED
    BY <1>7, <2>1, <2>2, Zenon DEF Cat
<1>11. Stream = (a \o q) \o c
  BY <1>8, <1>9, <1>10
<1>12. Stream' = (((d \o (s \o p)) \o <<>>) \o f) \o x
  BY <1>1, <1>2, <1>4, <1>5 DEF Stream
<1>13. a \o <<>> = a
  BY JoinNone
<1>14. (a \o f) \o x = a \o c
  <2>1. Cat(Cat(a, f), x) = Cat(a, Cat(f, x))
    BY CatAssoc
  <2>2. QED
    BY <1>7, <2>1 DEF Cat
<1>15. Stream' = a \o c
  BY <1>6, <1>12, <1>13, <1>14
<1>16. Sorted(Stream') /\ Chars(Stream') = Chars(Stream) \ Chars(q)
  BY <1>11, <1>15, Drop DEF RrOrder
<1>17. lost' = lost \union Chars(q) /\ arrived' = arrived
  BY <1>1, <1>2, <1>3, <1>4
<1>18. Chars(q) \subseteq Chars(Stream)
  <2>1. PICK b \in Text : b = a \o q
    BY JoinText
  <2>2. Chars(Stream) = Chars(b) \union Chars(c)
    BY <1>11, <2>1, JoinChars
  <2>3. Chars(b) = Chars(a) \union Chars(q)
    BY <2>1, JoinChars
  <2>4. QED
    BY <2>2, <2>3
<1>19. QED
  <2>1. Chars(Stream') = (1 .. arrived') \ lost'
    BY <1>16, <1>17 DEF RrOrder
  <2>2. lost' \subseteq 1 .. arrived'
    BY <1>17, <1>18 DEF RrOrder
  <2>3. QED
    BY <1>16, <2>1, <2>2 DEF RrOrder, Sorted, Chars

\* copy_from_read_buf(): the front of the ring goes to user space.
LEMMA OrderOut ==
  ASSUME RrNumT, RrSeqT, RrBufT, RrOrder, NEW m \in Nat,
         m <= read_cnt, m <= N_TTY_BUF_SIZE - read_tail,
         read_tail' = (read_tail + m) % N_TTY_BUF_SIZE, read_cnt' = read_cnt - m,
         delivered' = delivered \o MemRead(read_tail, m),
         UNCHANGED <<read_buf, arrived, lost, cp, flip, rxFifo>>
  PROVE  RrOrder'
<1>1. /\ MemRead(read_tail, m) \in Seq(0 .. MaxByte) /\ RingContent' \in Text
      /\ RingContent = MemRead(read_tail, m) \o RingContent'
  BY RrTakesOut
<1>2. MemRead(read_tail, m) \in Text /\ delivered \in Text
  BY <1>1, RrTexts, RrSizes DEF Text
<1>3. PICK p \in Text, d \in Text, s \in Text :
        p = MemRead(read_tail, m) /\ d = delivered /\ s = RingContent'
  BY <1>1, <1>2
<1>4. (d \o p) \o s = d \o (p \o s)
  BY JoinAssoc
<1>5. delivered' \o RingContent' = delivered \o RingContent
  BY <1>1, <1>3, <1>4
<1>6. Stream' = Stream
  BY <1>5 DEF Stream
<1>7. QED
  BY <1>6 DEF RrOrder, Sorted, Chars

-----------------------------------------------------------------------------
(***************************************************************************)
(* The line, the interrupt handler and the work keep the invariant.        *)
(***************************************************************************)
\* Steps that leave the threads alone and take nothing out of the ring.
LEMMA ThreadsSame ==
  ASSUME RrNumT, RrNumT', RrRdT, RrMutex, RrCopy, UNCHANGED <<rd, atomic_read, read_wait>>,
         read_tail' = read_tail, read_cnt' >= read_cnt
  PROVE  RrRdT' /\ RrMutex' /\ RrCopy'
<1>1. RrRdT'
  BY DEF RrRdT
<1>2. RrMutex'
  BY DEF RrMutex
<1>3. RrCopy'
  <2>1. SUFFICES ASSUME NEW r \in Readers, rd[r].pc \in {"copy1", "copy2"}
                 PROVE  /\ rd[r].n <= read_cnt' /\ rd[r].n <= N_TTY_BUF_SIZE - read_tail
                        /\ rd[r].n <= rd[r].nr
    BY DEF RrCopy
  <2>2. rd[r].n <= read_cnt /\ rd[r].n <= N_TTY_BUF_SIZE - read_tail /\ rd[r].n <= rd[r].nr
    BY <2>1 DEF RrCopy
  <2>3. rd[r].n \in Nat /\ read_cnt \in Nat /\ read_cnt' \in Nat
    BY RrSizes DEF RrRdT, ReaderType, RrNumT
  <2>4. QED
    BY <2>2, <2>3
<1>4. QED
  BY <1>1, <1>2, <1>3

\* Steps that move no character.
LEMMA PlacesSame ==
  ASSUME RrInv, UNCHANGED <<uartVars, lost, flip, cp, ringVars, delivered>>
  PROVE  RrSeqT' /\ RrBufT' /\ RrRing' /\ RrOrder'
<1>1. UNCHANGED <<arrived, rxFifo, lost, flip, cp, read_buf, read_head, read_tail,
                  read_cnt, delivered>>
  BY DEF uartVars, ringVars
<1>2. RrOrder'
  BY <1>1, OrderSame DEF RrInv
<1>3. RrSeqT' /\ RrBufT' /\ RrRing'
  BY <1>1 DEF RrInv, RrSeqT, RrBufT, RrRing
<1>4. QED
  BY <1>2, <1>3

\* LineBringsByte
LEMMA RrLine ==
  ASSUME RrInv, LineBringsByte
  PROVE  RrInv'
<1>0. UNCHANGED <<flip, pending, wpc, cp, read_buf, read_head, read_tail, read_cnt,
                  minimum_to_wake, min_char, time_char, dont_flip, atomic_read, read_wait,
                  rd, reads, delivered>>
  BY DEF LineBringsByte, flipVars, workVars, ringVars, modeVars, syncVars
<1>1. arrived \in Nat /\ arrived + 1 \in Bytes /\ arrived' \in 0 .. MaxByte
  BY RrSizes DEF RrInv, RrNumT, LineBringsByte, Bytes
<1>2. RrNumT'
  BY <1>0, <1>1 DEF RrInv, RrNumT, LineBringsByte
<1>3. RrSeqT'
  <2>1. rxFifo \in Seq(Bytes) /\ Len(rxFifo) <= FifoSize
    BY DEF RrInv, RrSeqT
  <2>2. rxFifo' \in Seq(Bytes) /\ Len(rxFifo') <= FifoSize
    BY <1>1, <2>1, RrSizes DEF LineBringsByte
  <2>3. QED
    BY <1>0, <2>2 DEF RrInv, RrSeqT
<1>4. RrOrder'
  BY OrderLine DEF RrInv
<1>5. RrRdT' /\ RrMutex' /\ RrCopy'
  <2>1. read_cnt' >= read_cnt
    BY <1>0, RrSizes DEF RrInv, RrNumT
  <2>2. QED
    BY <1>0, <1>2, <2>1, ThreadsSame DEF RrInv
<1>6. RrBufT' /\ RrFlagT' /\ RrRing' /\ RrHalf' /\ WorkScheduled'
  BY <1>0 DEF RrInv, RrBufT, RrFlagT, RrRing, RrHalf, WorkScheduled
<1>7. QED
  BY <1>2, <1>3, <1>4, <1>5, <1>6 DEF RrInv

\* xr_rx_chars_duart
LEMMA RrIrq ==
  ASSUME RrInv, xr_rx_chars_duart
  PROVE  RrInv'
<1>0. UNCHANGED <<arrived, lost, wpc, cp, read_buf, read_head, read_tail, read_cnt,
                  minimum_to_wake, min_char, time_char, dont_flip, atomic_read, read_wait,
                  rd, reads, delivered>>
  BY DEF xr_rx_chars_duart, workVars, ringVars, modeVars, syncVars
<1>1. RrNumT'
  BY <1>0 DEF RrInv, RrNumT
<1>2. RrSeqT'
  <2> DEFINE k == Min2(Len(rxFifo), TTY_FLIPBUF_SIZE - Len(flip))
  <2>1. /\ rxFifo \in Seq(Bytes) /\ Len(rxFifo) <= FifoSize /\ Len(rxFifo) \in Nat
        /\ flip \in Seq(Bytes) /\ Len(flip) <= TTY_FLIPBUF_SIZE /\ Len(flip) \in Nat
    BY DEF RrInv, RrSeqT
  <2>2. k \in 0 .. Len(rxFifo) /\ k <= TTY_FLIPBUF_SIZE - Len(flip)
    BY <2>1, RrSizes DEF Min2
  <2>3. /\ rxFifo' = SubSeq(rxFifo, k + 1, Len(rxFifo)) /\ flip' = flip \o SubSeq(rxFifo, 1, k)
    BY DEF xr_rx_chars_duart
  <2> HIDE DEF k
  <2>4. /\ SubSeq(rxFifo, 1, k) \in Seq(Bytes) /\ Len(SubSeq(rxFifo, 1, k)) = k
        /\ SubSeq(rxFifo, k + 1, Len(rxFifo)) \in Seq(Bytes)
        /\ Len(SubSeq(rxFifo, k + 1, Len(rxFifo))) = Len(rxFifo) - k
    BY <2>1, <2>2
  <2>5. rxFifo' \in Seq(Bytes) /\ Len(rxFifo') <= FifoSize
    BY <2>1, <2>2, <2>3, <2>4, RrSizes
  <2>6. flip' \in Seq(Bytes) /\ Len(flip') = Len(flip) + k
    BY <2>1, <2>2, <2>3, <2>4
  <2>7. Len(flip') <= TTY_FLIPBUF_SIZE
    BY <2>1, <2>2, <2>6, RrSizes
  <2>8. QED
    BY <1>0, <2>5, <2>6, <2>7 DEF RrInv, RrSeqT
<1>3. RrOrder'
  BY OrderIrq DEF RrInv
<1>4. RrRdT' /\ RrMutex' /\ RrCopy'
  <2>1. read_cnt' >= read_cnt
    BY <1>0, RrSizes DEF RrInv, RrNumT
  <2>2. QED
    BY <1>0, <1>1, <2>1, ThreadsSame DEF RrInv
<1>5. pending' = TRUE
  BY DEF xr_rx_chars_duart
<1>6. RrBufT' /\ RrFlagT' /\ RrRing' /\ RrHalf' /\ WorkScheduled'
  BY <1>0, <1>5 DEF RrInv, RrBufT, RrFlagT, RrRing, RrHalf, WorkScheduled
<1>7. QED
  BY <1>1, <1>2, <1>3, <1>4, <1>6 DEF RrInv

\* flush_to_ldisc
LEMMA RrFlush ==
  ASSUME RrInv, flush_to_ldisc
  PROVE  RrInv'
<1>0. UNCHANGED <<arrived, rxFifo, lost, flip, cp, read_buf, read_head, read_tail, read_cnt,
                  minimum_to_wake, min_char, time_char, dont_flip, atomic_read, read_wait,
                  rd, reads, delivered>>
  BY DEF flush_to_ldisc, uartVars, ringVars, modeVars, syncVars
<1>1. wpc = "idle" /\ pending' = dont_flip /\ wpc' = IF dont_flip THEN "idle" ELSE "flip"
  BY DEF flush_to_ldisc
<1>2. RrNumT'
  BY <1>0, <1>1 DEF RrInv, RrNumT
<1>3. RrFlagT' /\ RrHalf' /\ WorkScheduled'
  BY <1>0, <1>1 DEF RrInv, RrFlagT, RrHalf, WorkScheduled
<1>4. RrSeqT' /\ RrBufT' /\ RrRing' /\ RrOrder'
  BY <1>0, PlacesSame DEF uartVars, ringVars
<1>5. RrRdT' /\ RrMutex' /\ RrCopy'
  <2>1. read_cnt' >= read_cnt
    BY <1>0, RrSizes DEF RrInv, RrNumT
  <2>2. QED
    BY <1>0, <1>2, <2>1, ThreadsSame DEF RrInv
<1>6. QED
  BY <1>2, <1>3, <1>4, <1>5 DEF RrInv

\* FlipBuffers
LEMMA RrFlip ==
  ASSUME RrInv, FlipBuffers
  PROVE  RrInv'
<1>0. UNCHANGED <<arrived, rxFifo, lost, pending, read_buf, read_head, read_tail, read_cnt,
                  minimum_to_wake, min_char, time_char, dont_flip, atomic_read, read_wait,
                  rd, reads, delivered>>
  BY DEF FlipBuffers, uartVars, ringVars, modeVars, syncVars
<1>1. wpc' = "copy" /\ cp' = flip /\ flip' = <<>>
  BY DEF FlipBuffers
<1>2. RrNumT'
  BY <1>0, <1>1 DEF RrInv, RrNumT
<1>3. RrFlagT' /\ RrHalf' /\ WorkScheduled' /\ RrBufT' /\ RrRing'
  BY <1>0, <1>1 DEF RrInv, RrFlagT, RrHalf, WorkScheduled, RrBufT, RrRing
<1>4. RrSeqT'
  <2>1. flip' \in Seq(Bytes) /\ Len(flip') <= TTY_FLIPBUF_SIZE
    BY <1>1, RrSizes
  <2>2. QED
    BY <1>0, <1>1, <2>1 DEF RrInv, RrSeqT
<1>5. RrOrder'
  BY OrderFlip DEF RrInv
<1>6. RrRdT' /\ RrMutex' /\ RrCopy'
  <2>1. read_cnt' >= read_cnt
    BY <1>0, RrSizes DEF RrInv, RrNumT
  <2>2. QED
    BY <1>0, <1>2, <2>1, ThreadsSame DEF RrInv
<1>7. QED
  BY <1>2, <1>3, <1>4, <1>5, <1>6 DEF RrInv

\* n_tty_receive_buf
LEMMA RrReceive ==
  ASSUME RrInv, n_tty_receive_buf
  PROVE  RrInv'
<1>0. UNCHANGED <<arrived, rxFifo, flip, pending, read_tail, minimum_to_wake, min_char,
                  time_char, dont_flip, atomic_read, read_wait, rd, reads, delivered>>
  BY DEF n_tty_receive_buf, uartVars, flipVars, modeVars, syncVars
<1>1. wpc = "copy" /\ wpc' = "wake" /\ cp' = <<>>
  BY DEF n_tty_receive_buf
<1>2. PICK k \in 0 .. Len(cp) :
        /\ lost' = lost \union {cp[x] : x \in k + 1 .. Len(cp)}
        /\ read_cnt' = read_cnt + k
        /\ read_cnt' \in 0 .. N_TTY_BUF_SIZE /\ read_head' \in 0 .. N_TTY_BUF_SIZE - 1
        /\ RrBufT' /\ RrRing'
  BY RrPutsIn DEF RrInv
<1>3. lost' \subseteq Bytes
  <2>1. cp \in Seq(Bytes) /\ lost \subseteq Bytes /\ Len(cp) \in Nat
    BY DEF RrInv, RrSeqT, RrNumT
  <2>2. ASSUME NEW x \in k + 1 .. Len(cp) PROVE cp[x] \in Bytes
    BY <2>1
  <2>3. QED
    BY <1>2, <2>1, <2>2
<1>4. RrNumT'
  BY <1>0, <1>1, <1>2, <1>3 DEF RrInv, RrNumT
<1>5. RrFlagT' /\ RrHalf' /\ WorkScheduled'
  BY <1>0, <1>1 DEF RrInv, RrFlagT, RrHalf, WorkScheduled
<1>6. RrSeqT'
  <2>1. cp' \in Seq(Bytes) /\ Len(cp') <= TTY_FLIPBUF_SIZE
    BY <1>1, RrSizes
  <2>2. QED
    BY <1>0, <2>1 DEF RrInv, RrSeqT
<1>7. RrOrder'
  BY OrderReceive DEF RrInv
<1>8. RrRdT' /\ RrMutex' /\ RrCopy'
  <2>1. read_cnt' >= read_cnt
    <3>1. read_cnt \in Nat /\ k \in Nat
      BY RrSizes DEF RrInv, RrNumT, RrSeqT
    <3>2. QED
      BY <1>2, <3>1
  <2>2. QED
    BY <1>0, <1>4, <2>1, ThreadsSame DEF RrInv
<1>9. QED
  BY <1>2, <1>4, <1>5, <1>6, <1>7, <1>8 DEF RrInv

\* rctty_ioctl and rctty_poll
LEMMA RrModes ==
  ASSUME RrInv, rctty_ioctl \/ rctty_poll
  PROVE  RrInv'
<1>0. UNCHANGED <<arrived, rxFifo, lost, flip, pending, wpc, cp, read_buf, read_head,
                  read_tail, read_cnt, dont_flip, atomic_read, read_wait,
                  rd, reads, delivered>>
  BY DEF rctty_ioctl, rctty_poll, uartVars, flipVars, workVars, ringVars, syncVars
<1>1. /\ min_char' \in Nat /\ minimum_to_wake' \in Nat \ {0}
  BY InputAssumption DEF RrInv, RrNumT, rctty_ioctl, rctty_poll, modeVars
<1>2. time_char' \in BOOLEAN
  BY InputAssumption DEF RrInv, RrFlagT, rctty_ioctl, rctty_poll, modeVars
<1>3. RrNumT'
  BY <1>0, <1>1 DEF RrInv, RrNumT
<1>4. RrFlagT' /\ RrHalf' /\ WorkScheduled'
  BY <1>0, <1>2 DEF RrInv, RrFlagT, RrHalf, WorkScheduled
<1>5. RrSeqT' /\ RrBufT' /\ RrRing' /\ RrOrder'
  BY <1>0, PlacesSame DEF uartVars, ringVars
<1>6. RrRdT' /\ RrMutex' /\ RrCopy'
  <2>1. read_cnt' >= read_cnt
    BY <1>0, RrSizes DEF RrInv, RrNumT
  <2>2. QED
    BY <1>0, <1>3, <2>1, ThreadsSame DEF RrInv
<1>7. QED
  BY <1>3, <1>4, <1>5, <1>6 DEF RrInv

-----------------------------------------------------------------------------
(***************************************************************************)
(* The threads keep the invariant.                                         *)
(***************************************************************************)
\* One thread's local state changes.
LEMMA RdStep ==
  ASSUME RrRdT, NEW r \in Readers, NEW v \in ReaderType, rd' = [rd EXCEPT ![r] = v]
  PROVE  RrRdT' /\ rd'[r] = v /\ \A q \in Readers : q # r => rd'[q] = rd[q]
  BY DEF RrRdT

\* One thread's step that moves no character.
LEMMA ReaderStep ==
  ASSUME RrInv, NEW r \in Readers, NEW v \in ReaderType, rd' = [rd EXCEPT ![r] = v],
         UNCHANGED <<uartVars, lost, flipVars, workVars, ringVars, modeVars, delivered>>,
         reads' \in 0 .. MaxRead, minimum_to_wake' \in Nat \ {0}, read_wait' \subseteq Readers,
         dont_flip' \in BOOLEAN, atomic_read' \in BOOLEAN, RrMutex',
         v.pc \in {"copy1", "copy2"} =>
           v.n <= read_cnt /\ v.n <= N_TTY_BUF_SIZE - read_tail /\ v.n <= v.nr
  PROVE  RrInv'
<1>0. UNCHANGED <<arrived, rxFifo, lost, flip, pending, wpc, cp, read_buf, read_head,
                  read_tail, read_cnt, min_char, time_char, delivered>>
  BY DEF uartVars, flipVars, workVars, ringVars, modeVars
<1>1. RrNumT'
  BY <1>0 DEF RrInv, RrNumT
<1>2. RrFlagT' /\ RrHalf' /\ WorkScheduled'
  BY <1>0 DEF RrInv, RrFlagT, RrHalf, WorkScheduled
<1>3. RrSeqT' /\ RrBufT' /\ RrRing' /\ RrOrder'
  BY <1>0, PlacesSame DEF uartVars, ringVars
<1>4. RrRdT' /\ rd'[r] = v /\ \A q \in Readers : q # r => rd'[q] = rd[q]
  BY RdStep DEF RrInv
<1>5. RrCopy'
  <2>1. SUFFICES ASSUME NEW q \in Readers, rd'[q].pc \in {"copy1", "copy2"}
                 PROVE  /\ rd'[q].n <= read_cnt /\ rd'[q].n <= N_TTY_BUF_SIZE - read_tail
                        /\ rd'[q].n <= rd'[q].nr
    BY <1>0 DEF RrCopy
  <2>2. CASE q = r
    BY <1>4, <2>1, <2>2
  <2>3. CASE q # r
    BY <1>4, <2>1, <2>3 DEF RrInv, RrCopy
  <2>4. QED
    BY <2>2, <2>3
<1>6. QED
  BY <1>1, <1>2, <1>3, <1>4, <1>5 DEF RrInv

\* A thread that does not take or give up the semaphore.
LEMMA MutexSame ==
  ASSUME RrMutex, RrRdT, NEW r \in Readers, NEW v \in ReaderType, rd' = [rd EXCEPT ![r] = v],
         UNCHANGED <<atomic_read, read_wait>>,
         v.pc \in Inside => rd[r].pc \in Inside, v.pc = "leave" => rd[r].pc = "leave"
  PROVE  RrMutex'
<1>1. rd'[r] = v /\ \A q \in Readers : q # r => rd'[q] = rd[q]
  BY RdStep
<1>2. \A q \in Readers : /\ rd'[q].pc \in Inside => rd[q].pc \in Inside
                         /\ rd'[q].pc = "leave" => rd[q].pc = "leave"
  BY <1>1
<1>3. QED
  BY <1>2 DEF RrMutex

\* Entry of read_chan()
LEMMA RrEntry ==
  ASSUME RrInv, NEW r \in Readers, read_chan(r)
  PROVE  RrInv'
<1>1. PICK nr \in Nr, nb \in NonBlock :
        rd' = [rd EXCEPT ![r] =
                 [Idle EXCEPT !.pc = IF min_char # 0 /\ ~time_char /\ Lowers(min_char) THEN "enter" ELSE "down",
                    !.nr = nr, !.nonblock = nb,
                    !.minimum = IF min_char = 0 THEN 1 ELSE min_char,
                    !.time = min_char # 0 /\ time_char,
                    !.timeout = IF min_char # 0 THEN "max"
                                ELSE IF time_char THEN "finite" ELSE "zero"]]
  BY DEF read_chan
<1> DEFINE v == [Idle EXCEPT !.pc = IF min_char # 0 /\ ~time_char /\ Lowers(min_char) THEN "enter" ELSE "down",
                    !.nr = nr, !.nonblock = nb,
                    !.minimum = IF min_char = 0 THEN 1 ELSE min_char,
                    !.time = min_char # 0 /\ time_char,
                    !.timeout = IF min_char # 0 THEN "max"
                                ELSE IF time_char THEN "finite" ELSE "zero"]
<1>2. v \in ReaderType /\ v.pc \in {"enter", "down"}
  <2>1. nr \in Nat /\ nb \in BOOLEAN
    BY InputAssumption, SwitchAssumption
  <2>2. min_char \in Nat /\ time_char \in BOOLEAN
    BY DEF RrInv, RrNumT, RrFlagT
  <2>3. (IF min_char = 0 THEN 1 ELSE min_char) \in Nat \ {0}
    BY <2>2
  <2>4. (min_char # 0 /\ time_char) \in BOOLEAN
    OBVIOUS
  <2>5. (IF min_char # 0 THEN "max" ELSE IF time_char THEN "finite" ELSE "zero")
          \in {"zero", "finite", "max"}
    OBVIOUS
  <2>6. QED
    BY <2>1, <2>3, <2>4, <2>5 DEF Idle, ReaderType, ReaderPC
<1>3. rd' = [rd EXCEPT ![r] = v]
  BY <1>1
<1> HIDE DEF v
<1>4. /\ UNCHANGED <<uartVars, lost, flipVars, workVars, ringVars, modeVars, delivered>>
      /\ UNCHANGED <<dont_flip, atomic_read, read_wait>>
  BY DEF read_chan, syncVars
<1>5. reads' \in 0 .. MaxRead /\ minimum_to_wake' \in Nat \ {0}
  BY RrSizes DEF RrInv, RrNumT, read_chan
<1>6. RrMutex'
  BY <1>2, <1>3, <1>4, MutexSame DEF RrInv, Inside
<1>7. read_wait' \subseteq Readers /\ dont_flip' \in BOOLEAN /\ atomic_read' \in BOOLEAN
  BY <1>4 DEF RrInv, RrNumT, RrFlagT
<1>8. QED
  BY <1>2, <1>3, <1>4, <1>5, <1>6, <1>7, ReaderStep

\* The semaphore
LEMMA RrDown ==
  ASSUME RrInv, NEW r \in Readers, AtomicRead(r)
  PROVE  RrInv'
<1>0. /\ UNCHANGED <<uartVars, lost, flipVars, workVars, ringVars, modeVars, delivered>>
      /\ reads' \in 0 .. MaxRead /\ minimum_to_wake' \in Nat \ {0}
      /\ rd[r].pc = "down" /\ rd[r] \in ReaderType
  BY DEF AtomicRead, RrInv, RrNumT, RrRdT
<1>1. CASE atomic_read
  <2> DEFINE v == [rd[r] EXCEPT !.pc = "arm"]
  <2>1. v \in ReaderType /\ v.pc = "arm"
    BY <1>0 DEF ReaderType, ReaderPC
  <2>2. rd' = [rd EXCEPT ![r] = v]
    BY <1>1 DEF AtomicRead
  <2>3. atomic_read' = FALSE /\ dont_flip' = TRUE /\ read_wait' = read_wait \union {r}
    BY <1>1 DEF AtomicRead
  <2> HIDE DEF v
  <2>4. rd'[r] = v /\ \A q \in Readers : q # r => rd'[q] = rd[q]
    BY <2>1, <2>2, RdStep DEF RrInv
  <2>5. \A q \in Readers : rd[q].pc \notin Inside
    BY <1>1 DEF RrInv, RrMutex
  <2>6. RrMutex'
    BY <2>1, <2>3, <2>4, <2>5 DEF RrInv, RrMutex, Inside
  <2>7. read_wait' \subseteq Readers /\ dont_flip' \in BOOLEAN /\ atomic_read' \in BOOLEAN
    BY <2>3 DEF RrInv, RrNumT
  <2>8. QED
    BY <1>0, <2>1, <2>2, <2>6, <2>7, ReaderStep
<1>2. CASE ~atomic_read
  <2>1. Idle \in ReaderType /\ Idle.pc = "idle"
    BY DEF ReaderType, ReaderPC, Idle
  <2>2. rd' = [rd EXCEPT ![r] = Idle] /\ UNCHANGED <<dont_flip, atomic_read, read_wait>>
    BY <1>2 DEF AtomicRead, syncVars
  <2>3. RrMutex'
    BY <2>1, <2>2, MutexSame DEF RrInv, Inside
  <2>4. read_wait' \subseteq Readers /\ dont_flip' \in BOOLEAN /\ atomic_read' \in BOOLEAN
    BY <2>2 DEF RrInv, RrNumT, RrFlagT
  <2>5. QED
    BY <1>0, <2>1, <2>2, <2>3, <2>4, ReaderStep
<1>3. QED
  BY <1>1, <1>2

\* A thread's step inside the loop: no character moves, the semaphore and the
\* queue stay.
LEMMA InsideStep ==
  ASSUME RrInv, NEW r \in Readers, NEW v \in ReaderType, rd' = [rd EXCEPT ![r] = v],
         UNCHANGED <<uartVars, lost, flipVars, workVars, ringVars, modeVars, delivered>>,
         UNCHANGED <<atomic_read, read_wait, reads>>,
         minimum_to_wake' \in Nat \ {0}, dont_flip' \in BOOLEAN,
         v.pc \in Inside => rd[r].pc \in Inside, v.pc = "leave" => rd[r].pc = "leave",
         v.pc \in {"copy1", "copy2"} =>
           v.n <= read_cnt /\ v.n <= N_TTY_BUF_SIZE - read_tail /\ v.n <= v.nr
  PROVE  RrInv'
<1>1. RrMutex'
  BY MutexSame DEF RrInv
<1>2. reads' \in 0 .. MaxRead /\ read_wait' \subseteq Readers
  BY DEF RrInv, RrNumT
<1>3. atomic_read' \in BOOLEAN
  BY DEF RrInv, RrFlagT
<1>4. QED
  BY <1>1, <1>2, <1>3, ReaderStep

\* The top of the loop
LEMMA RrArm ==
  ASSUME RrInv, NEW r \in Readers, Arm(r)
  PROVE  RrInv'
<1>0. rd[r] \in ReaderType
  BY DEF RrInv, RrRdT
<1>1. CASE rd[r].nr = 0
  <2> DEFINE v == [rd[r] EXCEPT !.pc = "up"]
  <2>1. v \in ReaderType /\ v.pc = "up"
    BY <1>0 DEF ReaderType, ReaderPC
  <2>2. rd' = [rd EXCEPT ![r] = v] /\ rd[r].pc = "arm"
    BY <1>1 DEF Arm
  <2> HIDE DEF v
  <2>3. /\ UNCHANGED <<uartVars, lost, flipVars, workVars, ringVars, modeVars, delivered>>
        /\ UNCHANGED <<atomic_read, read_wait, reads, dont_flip, minimum_to_wake>>
    BY <1>1 DEF Arm, syncVars
  <2>4. minimum_to_wake' \in Nat \ {0}
    BY <2>3 DEF RrInv, RrNumT
  <2>5. dont_flip' \in BOOLEAN
    BY <2>3 DEF RrInv, RrFlagT
  <2>6. rd[r].pc \in Inside
    BY <2>2 DEF Inside
  <2>7. QED
    BY <2>1, <2>2, <2>3, <2>4, <2>5, <2>6, InsideStep
<1>2. CASE rd[r].nr # 0
  <2> DEFINE v == [rd[r] EXCEPT !.pc = "test", !.state = "interruptible"]
  <2>1. v \in ReaderType /\ v.pc = "test"
    BY <1>0 DEF ReaderType, ReaderPC
  <2>2. rd' = [rd EXCEPT ![r] = v] /\ rd[r].pc = "arm"
    BY <1>2 DEF Arm, RrInv, RrRdT
  <2> HIDE DEF v
  <2>3. /\ UNCHANGED <<uartVars, lost, flipVars, workVars, ringVars, modeVars, delivered>>
        /\ UNCHANGED <<atomic_read, read_wait, reads, dont_flip>>
    BY <1>2 DEF Arm, syncVars
  <2>4. minimum_to_wake' \in Nat \ {0}
    <3>1. rd[r].minimum - rd[r].got \in Int /\ minimum_to_wake \in Nat \ {0}
      BY <1>0 DEF ReaderType, RrInv, RrNumT
    <3>2. QED
      BY <1>2, <3>1 DEF Arm
  <2>5. dont_flip' \in BOOLEAN
    BY <2>3 DEF RrInv, RrFlagT
  <2>6. rd[r].pc \in Inside
    BY <2>2 DEF Inside
  <2>7. QED
    BY <2>1, <2>2, <2>3, <2>4, <2>5, <2>6, InsideStep
<1>3. QED
  BY <1>1, <1>2

\* The test for input
LEMMA RrTest ==
  ASSUME RrInv, NEW r \in Readers, TestInput(r)
  PROVE  RrInv'
<1>0. rd[r] \in ReaderType
  BY DEF RrInv, RrRdT
<1>1. PICK v \in ReaderType : /\ rd' = [rd EXCEPT ![r] = v] /\ v.pc \in {"n1", "up", "sleep"}
  <2>1. [rd[r] EXCEPT !.pc = "n1", !.state = "running"] \in ReaderType
    BY <1>0 DEF ReaderType, ReaderPC
  <2>2. [rd[r] EXCEPT !.pc = "up"] \in ReaderType /\ [rd[r] EXCEPT !.pc = "sleep"] \in ReaderType
    BY <1>0 DEF ReaderType, ReaderPC
  <2>3. \/ rd' = [rd EXCEPT ![r] = [rd[r] EXCEPT !.pc = "n1", !.state = "running"]]
        \/ rd' = [rd EXCEPT ![r] = [rd[r] EXCEPT !.pc = "up"]]
        \/ rd' = [rd EXCEPT ![r] = [rd[r] EXCEPT !.pc = "sleep"]]
    BY DEF TestInput, RrInv, RrRdT
  <2>4. /\ [rd[r] EXCEPT !.pc = "n1", !.state = "running"].pc = "n1"
        /\ [rd[r] EXCEPT !.pc = "up"].pc = "up" /\ [rd[r] EXCEPT !.pc = "sleep"].pc = "sleep"
    BY <1>0 DEF ReaderType
  <2>5. QED
    BY <2>1, <2>2, <2>3, <2>4
<1>2. /\ UNCHANGED <<uartVars, lost, flipVars, workVars, ringVars, modeVars, delivered>>
      /\ UNCHANGED <<atomic_read, read_wait, reads, minimum_to_wake>>
  BY DEF TestInput
<1>3. minimum_to_wake' \in Nat \ {0}
  BY <1>2 DEF RrInv, RrNumT
<1>4. dont_flip' \in BOOLEAN
  BY DEF TestInput, RrInv, RrFlagT
<1>5. rd[r].pc \in Inside
  BY DEF TestInput, Inside
<1>6. QED
  BY <1>1, <1>2, <1>3, <1>4, <1>5, InsideStep

\* schedule_timeout() returns
LEMMA RrResume ==
  ASSUME RrInv, NEW r \in Readers, Resume(r)
  PROVE  RrInv'
<1>0. rd[r] \in ReaderType
  BY DEF RrInv, RrRdT
<1>1. PICK left \in {"zero", "finite", "max"} :
        rd' = [rd EXCEPT ![r] = [rd[r] EXCEPT !.pc = "arm", !.state = "running",
                                              !.timeout = left]]
  <2>1. rd[r].timeout \in {"zero", "finite", "max"} /\ rd \in [Readers -> ReaderType]
    BY <1>0 DEF ReaderType, RrInv, RrRdT
  <2>2. QED
    BY <2>1 DEF Resume
<1> DEFINE v == [rd[r] EXCEPT !.pc = "arm", !.state = "running", !.timeout = left]
<1>2. v \in ReaderType /\ v.pc = "arm"
  BY <1>0 DEF ReaderType, ReaderPC
<1>3. rd' = [rd EXCEPT ![r] = v]
  BY <1>1
<1> HIDE DEF v
<1>4. /\ UNCHANGED <<uartVars, lost, flipVars, workVars, ringVars, modeVars, delivered>>
      /\ UNCHANGED <<atomic_read, read_wait, reads, minimum_to_wake>>
  BY DEF Resume
<1>5. minimum_to_wake' \in Nat \ {0}
  BY <1>4 DEF RrInv, RrNumT
<1>6. dont_flip' \in BOOLEAN
  BY DEF Resume
<1>7. rd[r].pc \in Inside
  BY DEF Resume, Inside
<1>8. QED
  BY <1>2, <1>3, <1>4, <1>5, <1>6, <1>7, InsideStep

\* copy_from_read_buf(), first critical section
LEMMA RrCount ==
  ASSUME RrInv, NEW r \in Readers, NEW from \in {"n1", "n2"}, NEW to \in {"copy1", "copy2"},
         CopyCount(r, from, to)
  PROVE  RrInv'
<1>0. rd[r] \in ReaderType
  BY DEF RrInv, RrRdT
<1> DEFINE v == [rd[r] EXCEPT !.pc = to, !.n = Contiguous(r)]
<1>1. /\ Contiguous(r) \in Nat /\ Contiguous(r) <= read_cnt /\ Contiguous(r) <= rd[r].nr
      /\ Contiguous(r) <= N_TTY_BUF_SIZE - read_tail
  <2>1. rd[r].nr \in Nat
    BY <1>0 DEF ReaderType
  <2>2. QED
    BY <2>1, RrSizes DEF Contiguous, Min2, RrInv, RrNumT
<1>2. v \in ReaderType /\ v.pc \in {"copy1", "copy2"} /\ v.n = Contiguous(r) /\ v.nr = rd[r].nr
  BY <1>0, <1>1 DEF ReaderType, ReaderPC
<1>3. rd' = [rd EXCEPT ![r] = v]
  BY DEF CopyCount, RrInv, RrRdT
<1> HIDE DEF v
<1>4. /\ UNCHANGED <<uartVars, lost, flipVars, workVars, ringVars, modeVars, delivered>>
      /\ UNCHANGED <<atomic_read, read_wait, reads, minimum_to_wake, dont_flip>>
  BY DEF CopyCount, syncVars
<1>5. minimum_to_wake' \in Nat \ {0}
  BY <1>4 DEF RrInv, RrNumT
<1>6. dont_flip' \in BOOLEAN
  BY <1>4 DEF RrInv, RrFlagT
<1>7. rd[r].pc \in Inside
  BY DEF CopyCount, Inside
<1>8. v.n <= read_cnt /\ v.n <= N_TTY_BUF_SIZE - read_tail /\ v.n <= v.nr
  BY <1>1, <1>2
<1>9. v.pc # "leave"
  BY <1>2
<1>10. QED
  BY <1>2, <1>3, <1>4, <1>5, <1>6, <1>7, <1>8, <1>9, InsideStep

\* The end of the loop
LEMMA RrCheck ==
  ASSUME RrInv, NEW r \in Readers, CheckMinimum(r)
  PROVE  RrInv'
<1>0. rd[r] \in ReaderType
  BY DEF RrInv, RrRdT
<1>1. PICK pc \in {"up", "arm"}, left \in {"zero", "finite", "max"} :
        rd' = [rd EXCEPT ![r] = [rd[r] EXCEPT !.pc = pc, !.timeout = left]]
  <2>1. rd[r].timeout \in {"zero", "finite", "max"} /\ rd \in [Readers -> ReaderType]
    BY <1>0 DEF ReaderType, RrInv, RrRdT
  <2>2. PICK pc \in {"up", "arm"} : pc = IF rd[r].fault \/ Enough(r) THEN "up" ELSE "arm"
    OBVIOUS
  <2>3. PICK left \in {"zero", "finite", "max"} :
          left = IF rd[r].time THEN "finite" ELSE rd[r].timeout
    BY <2>1
  <2>4. rd' = [rd EXCEPT ![r] = [rd[r] EXCEPT !.pc = pc, !.timeout = left]]
    BY <2>1, <2>2, <2>3 DEF CheckMinimum
  <2>5. QED
    BY <2>4
<1> DEFINE v == [rd[r] EXCEPT !.pc = pc, !.timeout = left]
<1>2. v \in ReaderType /\ v.pc \in {"up", "arm"}
  BY <1>0 DEF ReaderType, ReaderPC
<1>3. rd' = [rd EXCEPT ![r] = v]
  BY <1>1
<1> HIDE DEF v
<1>4. /\ UNCHANGED <<uartVars, lost, flipVars, workVars, ringVars, modeVars, delivered>>
      /\ UNCHANGED <<atomic_read, read_wait, reads, minimum_to_wake, dont_flip>>
  BY DEF CheckMinimum, syncVars
<1>5. minimum_to_wake' \in Nat \ {0}
  BY <1>4 DEF RrInv, RrNumT
<1>6. dont_flip' \in BOOLEAN
  BY <1>4 DEF RrInv, RrFlagT
<1>7. rd[r].pc \in Inside
  BY DEF CheckMinimum, Inside
<1>8. QED
  BY <1>2, <1>3, <1>4, <1>5, <1>6, <1>7, InsideStep

\* LeaveLoop: the semaphore is given up
LEMMA RrLeave ==
  ASSUME RrInv, NEW r \in Readers, LeaveLoop(r)
  PROVE  RrInv'
<1>0. rd[r] \in ReaderType
  BY DEF RrInv, RrRdT
<1> DEFINE v == [rd[r] EXCEPT !.pc = "leave"]
<1>1. v \in ReaderType /\ v.pc = "leave"
  BY <1>0 DEF ReaderType, ReaderPC
<1>2. rd' = [rd EXCEPT ![r] = v] /\ rd[r].pc = "up"
  BY DEF LeaveLoop
<1> HIDE DEF v
<1>3. /\ UNCHANGED <<uartVars, lost, flipVars, workVars, ringVars, modeVars, delivered>>
      /\ UNCHANGED <<read_wait, reads, minimum_to_wake>>
      /\ dont_flip' = FALSE /\ atomic_read' = TRUE
  BY DEF LeaveLoop
<1>4. rd'[r] = v /\ \A q \in Readers : q # r => rd'[q] = rd[q]
  BY <1>1, <1>2, RdStep DEF RrInv
<1>5. r \in read_wait /\ \A q \in Readers : q # r => rd[q].pc \notin Inside
  BY <1>2 DEF RrInv, RrMutex, Inside
<1>6. RrMutex'
  <2>1. v.pc \notin Inside
    BY <1>1 DEF Inside
  <2>2. \A q \in Readers : rd'[q].pc \notin Inside
    BY <1>4, <1>5, <2>1
  <2>3. \A q \in Readers : rd'[q].pc = "leave" => q \in read_wait
    BY <1>4, <1>5 DEF RrInv, RrMutex
  <2>4. QED
    BY <1>3, <2>2, <2>3 DEF RrMutex
<1>7. /\ reads' \in 0 .. MaxRead /\ minimum_to_wake' \in Nat \ {0} /\ read_wait' \subseteq Readers
  BY <1>3 DEF RrInv, RrNumT
<1>8. dont_flip' \in BOOLEAN /\ atomic_read' \in BOOLEAN
  BY <1>3
<1>9. QED
  BY <1>1, <1>2, <1>3, <1>6, <1>7, <1>8, ReaderStep

\* LeaveQueue: the thread leaves the queue
LEMMA RrQueue ==
  ASSUME RrInv, NEW r \in Readers, LeaveQueue(r)
  PROVE  RrInv'
<1>0. rd[r] \in ReaderType
  BY DEF RrInv, RrRdT
<1> DEFINE v == [rd[r] EXCEPT !.pc = "left"]
<1>1. v \in ReaderType /\ v.pc = "left"
  BY <1>0 DEF ReaderType, ReaderPC
<1>2. rd' = [rd EXCEPT ![r] = v] /\ rd[r].pc = "leave"
  BY DEF LeaveQueue
<1> HIDE DEF v
<1>3. /\ UNCHANGED <<uartVars, lost, flipVars, workVars, ringVars, modeVars, delivered>>
      /\ UNCHANGED <<atomic_read, dont_flip, reads, minimum_to_wake>>
      /\ read_wait' = read_wait \ {r}
  BY DEF LeaveQueue
<1>4. rd'[r] = v /\ \A q \in Readers : q # r => rd'[q] = rd[q]
  BY <1>1, <1>2, RdStep DEF RrInv
<1>5. RrMutex'
  <2>1. \A q \in Readers : /\ rd'[q].pc \in Inside => rd[q].pc \in Inside /\ q # r
                           /\ rd'[q].pc = "leave" => rd[q].pc = "leave" /\ q # r
    BY <1>1, <1>4 DEF Inside
  <2>2. QED
    BY <1>3, <2>1 DEF RrInv, RrMutex
<1>7. /\ reads' \in 0 .. MaxRead /\ read_wait' \subseteq Readers
      /\ minimum_to_wake' \in Nat \ {0}
  BY <1>3 DEF RrInv, RrNumT
<1>8. dont_flip' \in BOOLEAN /\ atomic_read' \in BOOLEAN
  BY <1>3 DEF RrInv, RrFlagT
<1>9. QED
  BY <1>1, <1>2, <1>3, <1>5, <1>7, <1>8, ReaderStep

\* A thread outside the loop: it stores minimum_to_wake or leaves it.
LEMMA OutsideStep ==
  ASSUME RrInv, NEW r \in Readers, NEW v \in ReaderType, rd' = [rd EXCEPT ![r] = v],
         UNCHANGED <<uartVars, lost, flipVars, workVars, ringVars, modeVars, delivered>>,
         UNCHANGED <<dont_flip, atomic_read, read_wait, reads>>,
         minimum_to_wake' \in {minimum_to_wake, rd[r].minimum},
         v.pc \in {"idle", "down", "store"}
  PROVE  RrInv'
<1>1. minimum_to_wake' \in Nat \ {0}
  <2>1. rd[r].minimum \in Nat \ {0} /\ minimum_to_wake \in Nat \ {0}
    BY DEF ReaderType, RrInv, RrNumT, RrRdT
  <2>2. QED
    BY <2>1
<1>2. dont_flip' \in BOOLEAN
  BY DEF RrInv, RrFlagT
<1>3. v.pc \notin Inside /\ v.pc # "leave" /\ v.pc \notin {"copy1", "copy2"}
  BY DEF Inside
<1>4. QED
  BY <1>1, <1>2, <1>3, InsideStep

\* EntryStore, Return and StoreMinimum
LEMMA RrOutside ==
  ASSUME RrInv, NEW r \in Readers, EntryStore(r) \/ Return(r) \/ StoreMinimum(r)
  PROVE  RrInv'
<1>0. rd[r] \in ReaderType
  BY DEF RrInv, RrRdT
<1>1. Idle \in ReaderType /\ Idle.pc = "idle"
  BY DEF ReaderType, ReaderPC, Idle
<1>2. /\ UNCHANGED <<uartVars, lost, flipVars, workVars, ringVars, modeVars, delivered>>
      /\ UNCHANGED <<dont_flip, atomic_read, read_wait, reads>>
      /\ minimum_to_wake' \in {minimum_to_wake, rd[r].minimum}
  BY DEF EntryStore, Return, StoreMinimum, syncVars
<1> DEFINE d == [rd[r] EXCEPT !.pc = "down"]
           t == [rd[r] EXCEPT !.pc = "store"]
<1>3. d \in ReaderType /\ d.pc = "down" /\ t \in ReaderType /\ t.pc = "store"
  BY <1>0 DEF ReaderType, ReaderPC
<1>4. \/ rd' = [rd EXCEPT ![r] = Idle] \/ rd' = [rd EXCEPT ![r] = d]
      \/ rd' = [rd EXCEPT ![r] = t]
  BY DEF EntryStore, Return, StoreMinimum
<1> HIDE DEF d, t
<1>5. QED
  BY <1>1, <1>2, <1>3, <1>4, OutsideStep

\* A signal
LEMMA RrSignal ==
  ASSUME RrInv, NEW r \in Readers, Signal(r)
  PROVE  RrInv'
<1>0. rd[r] \in ReaderType
  BY DEF RrInv, RrRdT
<1> DEFINE v == [rd[r] EXCEPT !.signal = TRUE]
<1>1. v \in ReaderType /\ v.pc = rd[r].pc /\ v.n = rd[r].n /\ v.nr = rd[r].nr
  BY <1>0 DEF ReaderType
<1>2. rd' = [rd EXCEPT ![r] = v]
  BY DEF Signal
<1> HIDE DEF v
<1>3. /\ UNCHANGED <<uartVars, lost, flipVars, workVars, ringVars, modeVars, delivered>>
      /\ UNCHANGED <<atomic_read, read_wait, reads, minimum_to_wake, dont_flip>>
  BY DEF Signal, syncVars
<1>4. minimum_to_wake' \in Nat \ {0}
  BY <1>3 DEF RrInv, RrNumT
<1>5. dont_flip' \in BOOLEAN
  BY <1>3 DEF RrInv, RrFlagT
<1>6. v.pc \in {"copy1", "copy2"} =>
        v.n <= read_cnt /\ v.n <= N_TTY_BUF_SIZE - read_tail /\ v.n <= v.nr
  BY <1>1 DEF RrInv, RrCopy
<1>7. QED
  BY <1>1, <1>2, <1>3, <1>4, <1>5, <1>6, InsideStep

\* The work wakes the sleepers: only their task states change.
LEMMA WakeKeeps ==
  ASSUME RrRdT, WakeReaders
  PROVE  /\ RrRdT'
         /\ \A q \in Readers :
              /\ rd'[q].pc = rd[q].pc /\ rd'[q].n = rd[q].n /\ rd'[q].nr = rd[q].nr
              /\ rd'[q].got = rd[q].got /\ rd'[q].minimum = rd[q].minimum
              /\ rd'[q].time = rd[q].time
              /\ rd'[q].state = "interruptible" => rd[q].state = "interruptible"
              /\ read_cnt >= minimum_to_wake /\ q \in read_wait => rd'[q].state = "running"
<1>0. rd \in [Readers -> ReaderType] /\ DOMAIN rd = Readers
  BY DEF RrRdT
<1>1. CASE read_cnt >= minimum_to_wake
  <2>1. rd' = [q \in Readers |-> IF q \in read_wait THEN [rd[q] EXCEPT !.state = "running"]
                                                    ELSE rd[q]]
    BY <1>0, <1>1 DEF WakeReaders, Wake
  <2>2. ASSUME NEW q \in Readers
        PROVE  LET v == [rd[q] EXCEPT !.state = "running"] IN
               /\ v \in ReaderType /\ v.pc = rd[q].pc /\ v.n = rd[q].n /\ v.nr = rd[q].nr
               /\ v.got = rd[q].got /\ v.minimum = rd[q].minimum /\ v.time = rd[q].time
               /\ v.state = "running"
    BY <1>0 DEF ReaderType
  <2>3. ASSUME NEW q \in Readers
        PROVE  /\ rd'[q] \in ReaderType
               /\ rd'[q].pc = rd[q].pc /\ rd'[q].n = rd[q].n /\ rd'[q].nr = rd[q].nr
               /\ rd'[q].got = rd[q].got /\ rd'[q].minimum = rd[q].minimum
               /\ rd'[q].time = rd[q].time
               /\ rd'[q].state = "interruptible" => rd[q].state = "interruptible"
               /\ q \in read_wait => rd'[q].state = "running"
    <3>1. CASE q \in read_wait
      BY <2>1, <2>2, <3>1
    <3>2. CASE q \notin read_wait
      BY <1>0, <2>1, <3>2
    <3>3. QED
      BY <3>1, <3>2
  <2>4. RrRdT'
    BY <2>1, <2>3 DEF RrRdT
  <2>5. QED
    BY <2>3, <2>4
<1>2. CASE ~(read_cnt >= minimum_to_wake)
  <2>1. rd' = rd
    BY <1>2 DEF WakeReaders
  <2>2. RrRdT'
    BY <2>1 DEF RrRdT
  <2>3. QED
    BY <1>2, <2>1, <2>2
<1>3. QED
  BY <1>1, <1>2

\* WakeReaders
LEMMA RrWake ==
  ASSUME RrInv, WakeReaders
  PROVE  RrInv'
<1>0. UNCHANGED <<arrived, rxFifo, lost, flip, pending, cp, read_buf, read_head, read_tail,
                  read_cnt, minimum_to_wake, min_char, time_char, dont_flip, atomic_read,
                  read_wait, reads, delivered>>
  BY DEF WakeReaders, uartVars, flipVars, ringVars, modeVars, syncVars
<1>1. wpc = "wake" /\ wpc' = "idle"
  BY DEF WakeReaders
<1>2. RrNumT'
  BY <1>0, <1>1 DEF RrInv, RrNumT
<1>3. RrFlagT' /\ RrHalf' /\ WorkScheduled'
  BY <1>0, <1>1 DEF RrInv, RrFlagT, RrHalf, WorkScheduled
<1>4. RrSeqT' /\ RrBufT' /\ RrRing' /\ RrOrder'
  BY <1>0, PlacesSame DEF uartVars, ringVars
<1>5. /\ RrRdT'
      /\ \A q \in Readers :
           rd'[q].pc = rd[q].pc /\ rd'[q].n = rd[q].n /\ rd'[q].nr = rd[q].nr
  BY WakeKeeps DEF RrInv
<1>6. RrMutex'
  BY <1>0, <1>5 DEF RrInv, RrMutex
<1>7. RrCopy'
  BY <1>0, <1>5 DEF RrInv, RrCopy
<1>8. QED
  BY <1>2, <1>3, <1>4, <1>5, <1>6, <1>7 DEF RrInv

\* copy_from_read_buf(), the copy and its second critical section
LEMMA RrOut ==
  ASSUME RrInv, NEW r \in Readers, NEW from \in {"copy1", "copy2"}, NEW to \in {"n2", "check"},
         CopyOut(r, from, to)
  PROVE  RrInv'
<1>0. rd[r] \in ReaderType /\ rd[r].pc = from /\ rd[r].pc \in Inside
  BY DEF RrInv, RrRdT, CopyOut, Inside
<1>1. /\ UNCHANGED <<arrived, rxFifo, lost, flip, pending, wpc, cp, read_buf, read_head,
                     minimum_to_wake, min_char, time_char, dont_flip, atomic_read,
                     read_wait, reads>>
  BY DEF CopyOut, uartVars, flipVars, workVars, modeVars, syncVars
<1>2. rd[r].n \in Nat /\ rd[r].nr \in Nat /\ rd[r].got \in Nat /\ rd[r].fault \in BOOLEAN
  BY <1>0 DEF ReaderType
<1>3. /\ rd[r].n <= read_cnt /\ rd[r].n <= N_TTY_BUF_SIZE - read_tail
      /\ rd[r].n <= rd[r].nr
  BY <1>0 DEF RrInv, RrCopy
<1>4. PICK m \in (IF Faults THEN 0 .. rd[r].n ELSE {rd[r].n}) :
       /\ rd' = [rd EXCEPT ![r].pc = to, ![r].got = @ + m, ![r].nr = @ - m,
                           ![r].fault = @ \/ m < rd[r].n, ![r].n = 0]
       /\ delivered' = delivered \o MemRead(read_tail, m)
       /\ read_tail' = (read_tail + m) % N_TTY_BUF_SIZE
       /\ read_cnt' = read_cnt - m
  BY DEF CopyOut
<1>5. m \in Nat /\ m <= rd[r].n
  BY <1>2, <1>4
<1>6. PICK v \in ReaderType :
        rd' = [rd EXCEPT ![r] = v] /\ v.pc \in {"n2", "check"}
  <2>1. PICK g \in Nat, k \in Nat, f \in BOOLEAN :
          g = rd[r].got + m /\ k = rd[r].nr - m /\ f = (rd[r].fault \/ m < rd[r].n)
    <3>1. rd[r].got + m \in Nat /\ rd[r].nr - m \in Nat
      BY <1>2, <1>3, <1>5
    <3>2. (rd[r].fault \/ m < rd[r].n) \in BOOLEAN
      OBVIOUS
    <3>3. QED
      BY <3>1, <3>2
  <2>2. rd' = [rd EXCEPT ![r] = [rd[r] EXCEPT !.pc = to, !.got = g, !.nr = k,
                                              !.fault = f, !.n = 0]]
    BY <1>0, <1>4, <2>1 DEF RrInv, RrRdT
  <2>3. [rd[r] EXCEPT !.pc = to, !.got = g, !.nr = k, !.fault = f, !.n = 0] \in ReaderType
    BY <1>0 DEF ReaderType, ReaderPC
  <2>4. [rd[r] EXCEPT !.pc = to, !.got = g, !.nr = k, !.fault = f, !.n = 0].pc = to
    BY <1>0 DEF ReaderType
  <2>5. QED
    BY <2>2, <2>3, <2>4
<1>7. RrRdT' /\ rd'[r] = v /\ \A q \in Readers : q # r => rd'[q] = rd[q]
  BY <1>6, RdStep DEF RrInv
<1>8. m <= read_cnt /\ m <= N_TTY_BUF_SIZE - read_tail
  <2>1. read_cnt \in Nat /\ N_TTY_BUF_SIZE - read_tail \in Int
    BY RrSizes DEF RrInv, RrNumT
  <2>2. QED
    BY <1>2, <1>3, <1>5, <2>1
<1>9. /\ MemRead(read_tail, m) \in Seq(0 .. MaxByte)
      /\ read_tail' \in 0 .. N_TTY_BUF_SIZE - 1 /\ read_cnt' \in 0 .. N_TTY_BUF_SIZE
  BY <1>1, <1>4, <1>5, <1>8, RrTakesOut DEF RrInv
<1>10. RrNumT'
  BY <1>1, <1>9 DEF RrInv, RrNumT
<1>11. RrSeqT'
  <2>1. delivered \in Seq(0 .. MaxByte)
    BY DEF RrInv, RrSeqT
  <2>2. delivered' \in Seq(0 .. MaxByte)
    BY <1>4, <1>9, <2>1, ConcatProperties
  <2>3. QED
    BY <1>1, <2>2 DEF RrInv, RrSeqT
<1>12. RrOrder'
  BY <1>1, <1>4, <1>5, <1>8, OrderOut DEF RrInv
<1>13. RrRing'
  <2>1. /\ read_tail \in Nat /\ read_cnt \in Nat /\ N_TTY_BUF_SIZE \in Nat \ {0}
        /\ read_tail < N_TTY_BUF_SIZE /\ read_cnt <= N_TTY_BUF_SIZE
    BY RrSizes DEF RrInv, RrNumT
  <2>2. read_tail' = IF read_tail + m < N_TTY_BUF_SIZE THEN read_tail + m
                     ELSE read_tail + m - N_TTY_BUF_SIZE
    <3>1. read_tail + m < 2 * N_TTY_BUF_SIZE
      BY <1>5, <1>8, <2>1
    <3>2. QED
      BY <1>4, <1>5, <2>1, <3>1, WrapSum
  <2>3. read_head = IF read_tail + read_cnt < N_TTY_BUF_SIZE THEN read_tail + read_cnt
                    ELSE read_tail + read_cnt - N_TTY_BUF_SIZE
    BY <2>1, WrapSum DEF RrInv, RrRing
  <2>4. PICK t \in Nat, c \in Nat :
          /\ t = read_tail' /\ c = read_cnt' /\ t < N_TTY_BUF_SIZE /\ c <= N_TTY_BUF_SIZE
    BY <1>9, <2>1
  <2>5. (t + c) % N_TTY_BUF_SIZE = IF t + c < N_TTY_BUF_SIZE THEN t + c
                                   ELSE t + c - N_TTY_BUF_SIZE
    <3>0. \A x, y, z \in Nat : x < z /\ y <= z => x + y < 2 * z
      OBVIOUS
    <3>1. t + c < 2 * N_TTY_BUF_SIZE
      BY <2>1, <2>4, <3>0
    <3>2. QED
      BY <3>1, WrapSum
  <2>6. read_head = (t + c) % N_TTY_BUF_SIZE
    <3>1. /\ t = IF read_tail + m < N_TTY_BUF_SIZE THEN read_tail + m
                  ELSE read_tail + m - N_TTY_BUF_SIZE
          /\ c = read_cnt - m
      BY <1>4, <2>2, <2>4
    <3>2. read_head = IF t + c < N_TTY_BUF_SIZE THEN t + c ELSE t + c - N_TTY_BUF_SIZE
      BY <1>5, <1>8, <2>1, <2>3, <2>4, <3>1
    <3>3. QED
      BY <2>5, <3>2
  <2>7. QED
    BY <1>1, <2>4, <2>6 DEF RrRing
<1>14. RrMutex'
  BY <1>0, <1>1, <1>6, MutexSame DEF RrInv
<1>15. RrCopy'
  <2>1. \A q \in Readers : q # r => rd[q].pc \notin Inside
    BY <1>0 DEF RrInv, RrMutex
  <2>2. \A q \in Readers : rd'[q].pc \notin {"copy1", "copy2"}
    BY <1>6, <1>7, <2>1 DEF Inside
  <2>3. QED
    BY <2>2 DEF RrCopy
<1>16. RrFlagT' /\ RrHalf' /\ WorkScheduled' /\ RrBufT'
  BY <1>1 DEF RrInv, RrFlagT, RrHalf, WorkScheduled, RrBufT
<1>17. QED
  BY <1>7, <1>10, <1>11, <1>12, <1>13, <1>14, <1>15, <1>16 DEF RrInv

-----------------------------------------------------------------------------
(***************************************************************************)
(* The invariant holds, and what follows from it.                          *)
(***************************************************************************)
\* Nothing moves at the start.
LEMMA RrInitial ==
  ASSUME Init
  PROVE  RrInv
<1>1. PICK m \in Modes : min_char = m[1] /\ time_char = m[2]
  BY DEF Init
<1>2. min_char \in Nat /\ time_char \in BOOLEAN
  BY <1>1, InputAssumption
<1>3. RrNumT
  BY <1>2, RrSizes DEF Init, RrNumT
<1>4. RrSeqT
  BY RrSizes DEF Init, RrSeqT
<1>5. RrBufT
  BY RrSizes DEF Init, RrBufT
<1>6. RrFlagT /\ RrHalf /\ WorkScheduled
  BY <1>2 DEF Init, RrFlagT, RrHalf, WorkScheduled
<1>7. RrRdT
  <2>1. Idle \in ReaderType
    BY DEF Idle, ReaderType, ReaderPC
  <2>2. QED
    BY <2>1 DEF Init, RrRdT
<1>8. RrRing
  <2>1. (0 + 0) % N_TTY_BUF_SIZE = 0
    BY RrSizes
  <2>2. QED
    BY <2>1 DEF Init, RrRing
<1>9. RrMutex /\ RrCopy
  <2>1. \A r \in Readers : rd[r].pc = "idle"
    BY DEF Init, Idle
  <2>2. QED
    BY <2>1 DEF RrMutex, RrCopy, Inside
<1>10. RrOrder
  <2>1. RingContent = <<>>
    <3>1. RingContent \in Text /\ Len(RingContent) = 0
      BY <1>3, <1>4, <1>5, RrTexts DEF Init
    <3>2. QED
      BY <3>1, EmptySeq DEF Text
  <2>2. Stream = <<>>
    <3>1. <<>> \in Text
      BY DEF Text
    <3>2. <<>> \o <<>> = <<>>
      BY <3>1, JoinNone
    <3>3. QED
      BY <2>1, <3>2 DEF Init, Stream
  <2>3. Sorted(<<>>) /\ Chars(<<>>) = {}
    BY DEF Sorted, Chars
  <2>4. (1 .. arrived) \ lost = {} /\ lost \subseteq 1 .. arrived
    BY DEF Init
  <2>5. QED
    BY <2>2, <2>3, <2>4 DEF RrOrder
<1>11. QED
  BY <1>3, <1>4, <1>5, <1>6, <1>7, <1>8, <1>9, <1>10 DEF RrInv

\* A step of any kind keeps the invariant.
LEMMA RrNext ==
  ASSUME RrInv, [Next]_vars
  PROVE  RrInv'
<1>1. CASE LineBringsByte
  BY <1>1, RrLine
<1>2. CASE xr_rx_chars_duart
  BY <1>2, RrIrq
<1>3. CASE Worker
  BY <1>3, RrFlush, RrFlip, RrReceive, RrWake DEF Worker
<1>4. CASE rctty_ioctl \/ rctty_poll
  BY <1>4, RrModes
<1>5. ASSUME NEW r \in Readers, read_chan(r) \/ ReadStep(r) \/ Signal(r)
      PROVE  RrInv'
  <2>1. CASE read_chan(r)
    BY <2>1, RrEntry
  <2>2. CASE ReadStep(r)
    <3>1. CASE copy_from_read_buf(r)
      <4>1. CASE CopyCount(r, "n1", "copy1")
        BY <4>1, RrCount
      <4>2. CASE CopyOut(r, "copy1", "n2")
        BY <4>2, RrOut
      <4>3. CASE CopyCount(r, "n2", "copy2")
        BY <4>3, RrCount
      <4>4. CASE CopyOut(r, "copy2", "check")
        BY <4>4, RrOut
      <4>5. QED
        BY <3>1, <4>1, <4>2, <4>3, <4>4 DEF copy_from_read_buf
    <3>2. CASE AtomicRead(r)
      BY <3>2, RrDown
    <3>3. CASE Arm(r)
      BY <3>3, RrArm
    <3>4. CASE TestInput(r)
      BY <3>4, RrTest
    <3>5. CASE Resume(r)
      BY <3>5, RrResume
    <3>6. CASE CheckMinimum(r)
      BY <3>6, RrCheck
    <3>7. CASE LeaveLoop(r)
      BY <3>7, RrLeave
    <3>8. CASE LeaveQueue(r)
      BY <3>8, RrQueue
    <3>9. CASE EntryStore(r) \/ Return(r) \/ StoreMinimum(r)
      BY <3>9, RrOutside
    <3>10. QED
      BY <2>2, <3>1, <3>2, <3>3, <3>4, <3>5, <3>6, <3>7, <3>8, <3>9 DEF ReadStep
  <2>3. CASE Signal(r)
    BY <2>3, RrSignal
  <2>4. QED
    BY <1>5, <2>1, <2>2, <2>3
<1>6. CASE UNCHANGED vars
  <2>1. UNCHANGED <<arrived, rxFifo, lost, flip, pending, wpc, cp, read_buf, read_head,
                    read_tail, read_cnt, minimum_to_wake, min_char, time_char, dont_flip,
                    atomic_read, read_wait, rd, reads, delivered>>
    BY <1>6 DEF vars, uartVars, flipVars, workVars, ringVars, modeVars, syncVars
  <2>2. RrSeqT' /\ RrBufT' /\ RrRing' /\ RrOrder'
    BY <2>1, PlacesSame DEF uartVars, ringVars
  <2>3. RrNumT' /\ RrFlagT' /\ RrHalf' /\ WorkScheduled'
    BY <2>1 DEF RrInv, RrNumT, RrFlagT, RrHalf, WorkScheduled
  <2>4. RrRdT' /\ RrMutex' /\ RrCopy'
    BY <2>1 DEF RrInv, RrRdT, RrMutex, RrCopy
  <2>5. QED
    BY <2>2, <2>3, <2>4 DEF RrInv
<1>7. QED
  BY <1>1, <1>2, <1>3, <1>4, <1>5, <1>6 DEF Next

\* The invariant holds in every reachable state.
THEOREM RrAlways == Spec => []RrInv
<1>1. Init => RrInv
  BY RrInitial
<1>2. RrInv /\ [Next]_vars => RrInv'
  BY RrNext
<1>3. QED
  BY <1>1, <1>2, PTL DEF Spec

\* The characters of the stream are in order: no character that the interrupt
\* handler, the work or copy_from_read_buf() moves is lost silently, repeated or
\* overtaken, for any sizes of the buffers, any number of threads and any
\* interleaving.
THEOREM StreamAlwaysKept == Spec => []StreamKept
<1>1. RrInv => StreamKept
  <2>1. SUFFICES ASSUME RrInv PROVE StreamKept
    OBVIOUS
  <2>2. PICK s \in Text : s = Stream
    BY <2>1, FrontText DEF RrInv, Stream
  <2>3. Sorted(s) /\ Chars(s) = (1 .. arrived) \ lost
    BY <2>1, <2>2 DEF RrInv, RrOrder
  <2>4. Len(s) \in Nat
    BY DEF Text
  <2>5. ASSUME NEW i \in 1 .. Len(s) - 1 PROVE s[i] < s[i + 1]
    <3>1. i \in 1 .. Len(s) /\ i + 1 \in 1 .. Len(s) /\ i < i + 1
      BY <2>4
    <3>2. QED
      BY <2>3, <3>1 DEF Sorted
  <2>6. {s[i] : i \in 1 .. Len(s)} = (1 .. arrived) \ lost
    BY <2>3 DEF Chars
  <2>7. QED
    BY <2>2, <2>5, <2>6 DEF StreamKept, Stream
<1>2. QED
  BY <1>1, RrAlways, PTL

\* The invariant has the type of the state, and the work that is scheduled.
LEMMA RrMeaning ==
  ASSUME RrInv
  PROVE  (late \in BOOLEAN => TypeOK) /\ WorkScheduled
<1>1. RrNumT /\ RrSeqT /\ RrBufT /\ RrFlagT /\ RrRdT
  BY DEF RrInv
<1>2. ASSUME late \in BOOLEAN PROVE TypeOK
  BY <1>1, <1>2 DEF TypeOK, RrNumT, RrSeqT, RrBufT, RrFlagT, RrRdT
<1>3. QED
  BY <1>2 DEF RrInv

\* Every step keeps the history's type.
LEMMA LateNext ==
  ASSUME late \in BOOLEAN, [Next]_vars
  PROVE  late' \in BOOLEAN
<1>1. CASE LineBringsByte \/ xr_rx_chars_duart \/ Worker \/ rctty_ioctl \/ rctty_poll
  BY <1>1 DEF LineBringsByte, xr_rx_chars_duart, Worker, flush_to_ldisc, FlipBuffers,
         n_tty_receive_buf, WakeReaders, rctty_ioctl, rctty_poll
<1>2. ASSUME NEW r \in Readers, read_chan(r) \/ ReadStep(r) \/ Signal(r)
      PROVE  late' \in BOOLEAN
  <2>1. CASE EntryStore(r) \/ Arm(r) \/ StoreMinimum(r)
    BY <2>1, Zenon DEF EntryStore, Arm, StoreMinimum
  <2>2. CASE ~(EntryStore(r) \/ Arm(r) \/ StoreMinimum(r))
    BY <1>2, <2>2 DEF read_chan, ReadStep, Signal, AtomicRead, TestInput, Resume,
         copy_from_read_buf, CopyCount, CopyOut, CheckMinimum, LeaveLoop, LeaveQueue, Return
  <2>3. QED
    BY <2>1, <2>2
<1>3. CASE UNCHANGED vars
  BY <1>3 DEF vars
<1>4. QED
  BY <1>1, <1>2, <1>3 DEF Next

\* The indices and counts of read_buf and of the flip buffer stay in bounds.
THEOREM ReadTypeCorrect == Spec => []TypeOK
<1>1. RrInv /\ RrLateT => TypeOK
  BY RrMeaning DEF RrLateT
<1>2. Init => RrLateT
  BY DEF Init, RrLateT
<1>3. RrLateT /\ [Next]_vars => RrLateT'
  BY LateNext DEF RrLateT
<1>4. QED
  BY <1>1, <1>2, <1>3, RrAlways, PTL DEF Spec

\* Characters in the flip buffer always have the work that moves them queued.
THEOREM WorkAlwaysScheduled == Spec => []WorkScheduled
<1>1. RrInv => WorkScheduled
  BY RrMeaning
<1>2. QED
  BY <1>1, RrAlways, PTL

-----------------------------------------------------------------------------
(***************************************************************************)
(* Nobody sleeps on input that satisfies it.                               *)
(***************************************************************************)
\* A step that does not touch thread q: the wake-up level is not raised under
\* it and the ring changes only while the work is about to look at it.
LEMMA WaitsSame ==
  ASSUME RrInv, RrInv', NEW q \in Readers, Waits(q), rd'[q] = rd[q],
         rd[q].pc \in {"test", "sleep"} /\ ~late' =>
           ~late /\ minimum_to_wake' <= minimum_to_wake,
         rd[q].pc = "sleep" /\ wpc' # "wake" => wpc # "wake" /\ read_cnt' = read_cnt
  PROVE  Waits(q)'
<1>1. rd[q].minimum \in Nat /\ rd[q].got \in Nat
  BY DEF RrInv, RrRdT, ReaderType
<1>2. minimum_to_wake \in Nat /\ minimum_to_wake' \in Nat /\ read_cnt \in Nat
  BY RrSizes DEF RrInv, RrNumT
<1>3. rd[q].pc \in {"test", "sleep"} /\ ~late'
        => minimum_to_wake' <= rd[q].minimum - rd[q].got
  BY <1>1, <1>2 DEF Waits
<1>4. rd[q].pc = "sleep" /\ rd[q].state = "interruptible" /\ wpc' # "wake" /\ ~late'
        => read_cnt' < rd[q].minimum - rd[q].got
  BY DEF Waits
<1>5. QED
  BY <1>3, <1>4 DEF Waits

\* A thread that sleeps or is about to is on the queue.
LEMMA OnQueue ==
  ASSUME RrInv, NEW q \in Readers, rd[q].pc \in Inside
  PROVE  /\ q \in read_wait
         /\ \A r \in Readers : r # q => rd[r].pc \notin Inside
  BY DEF RrInv, RrMutex

\* The device and the work.
LEMMA WaitsDevice ==
  ASSUME RrWakeInv, RrInv', Untimed,
         LineBringsByte \/ xr_rx_chars_duart \/ Worker \/ rctty_ioctl \/ rctty_poll
  PROVE  RrWakeInv'
<1>0. RrInv /\ ~time_char /\ (\A q \in Readers : Waits(q))
  BY DEF RrWakeInv
<1>1. CASE LineBringsByte \/ xr_rx_chars_duart \/ flush_to_ldisc \/ FlipBuffers
  <2>1. UNCHANGED <<read_cnt, minimum_to_wake, late, rd, time_char>> /\ (wpc' # "wake" => wpc # "wake")
    BY <1>1 DEF LineBringsByte, xr_rx_chars_duart, flush_to_ldisc, FlipBuffers, workVars,
                ringVars, modeVars
  <2>2. minimum_to_wake' <= minimum_to_wake
    BY <1>0, <2>1 DEF RrInv, RrNumT
  <2>3. ASSUME NEW q \in Readers PROVE Waits(q)'
    <3>1. Waits(q) /\ rd'[q] = rd[q]
      BY <1>0, <2>1
    <3>2. QED
      BY <1>0, <2>1, <2>2, <3>1, WaitsSame
  <2>4. QED
    BY <1>0, <2>1, <2>3 DEF RrWakeInv
<1>2. CASE n_tty_receive_buf
  <2>1. UNCHANGED <<minimum_to_wake, late, rd, time_char>> /\ wpc' = "wake"
    BY <1>2 DEF n_tty_receive_buf, modeVars
  <2>2. minimum_to_wake' <= minimum_to_wake
    BY <1>0, <2>1 DEF RrInv, RrNumT
  <2>3. ASSUME NEW q \in Readers PROVE Waits(q)'
    <3>1. Waits(q) /\ rd'[q] = rd[q]
      BY <1>0, <2>1
    <3>2. QED
      BY <1>0, <2>1, <2>2, <3>1, WaitsSame
  <2>4. QED
    BY <1>0, <2>1, <2>3 DEF RrWakeInv
<1>3. CASE WakeReaders
  <2>1. UNCHANGED <<read_cnt, minimum_to_wake, late, read_wait, time_char>>
    BY <1>3 DEF WakeReaders, ringVars, modeVars, syncVars
  <2>2. ASSUME NEW q \in Readers PROVE Waits(q)'
    <3>1. /\ rd'[q].pc = rd[q].pc /\ rd'[q].got = rd[q].got /\ rd'[q].minimum = rd[q].minimum
          /\ rd'[q].time = rd[q].time
          /\ rd'[q].state = "interruptible" => rd[q].state = "interruptible"
          /\ read_cnt >= minimum_to_wake /\ q \in read_wait => rd'[q].state = "running"
      BY <1>0, <1>3, WakeKeeps DEF RrInv
    <3>2. Waits(q)
      BY <1>0
    <3>3. ASSUME rd[q].pc = "sleep", rd'[q].state = "interruptible", ~late
          PROVE  read_cnt < rd[q].minimum - rd[q].got
      <4>1. q \in read_wait
        BY <1>0, <3>3, OnQueue DEF Inside
      <4>2. ~(read_cnt >= minimum_to_wake)
        BY <3>1, <3>3, <4>1
      <4>3. minimum_to_wake <= rd[q].minimum - rd[q].got
        BY <3>2, <3>3 DEF Waits
      <4>4. read_cnt \in Nat /\ minimum_to_wake \in Nat
        BY <1>0, RrSizes DEF RrInv, RrNumT
      <4>5. rd[q].minimum - rd[q].got \in Int
        BY <1>0 DEF RrInv, RrRdT, ReaderType
      <4>6. QED
        BY <4>2, <4>3, <4>4, <4>5
    <3>4. QED
      BY <2>1, <3>1, <3>2, <3>3 DEF Waits
  <2>3. QED
    BY <1>0, <2>1, <2>2 DEF RrWakeInv
<1>4. CASE rctty_ioctl
  <2>1. UNCHANGED <<read_cnt, minimum_to_wake, late, rd, wpc>>
    BY <1>4 DEF rctty_ioctl, workVars, ringVars
  <2>2. ~time_char'
    BY <1>4 DEF rctty_ioctl, Untimed
  <2>3. minimum_to_wake' <= minimum_to_wake
    BY <1>0, <2>1 DEF RrInv, RrNumT
  <2>4. ASSUME NEW q \in Readers PROVE Waits(q)'
    <3>1. Waits(q) /\ rd'[q] = rd[q]
      BY <1>0, <2>1
    <3>2. QED
      BY <1>0, <2>1, <2>3, <3>1, WaitsSame
  <2>5. QED
    BY <2>2, <2>4 DEF RrWakeInv
<1>5. CASE rctty_poll
  BY <1>5 DEF rctty_poll, Untimed
<1>6. QED
  BY <1>1, <1>2, <1>3, <1>4, <1>5 DEF Worker

\* A step of thread r does not disturb the others: one that waits holds the
\* semaphore, so r takes nothing from the ring, and it is on the queue, so r
\* does not raise the wake-up level, or is late.
LEMMA WaitsOthers ==
  ASSUME RrWakeInv, RrInv', NEW r \in Readers, read_chan(r) \/ ReadStep(r) \/ Signal(r),
         NEW q \in Readers, q # r
  PROVE  Waits(q)'
<1>0. RrInv /\ Waits(q) /\ rd \in [Readers -> ReaderType]
  BY DEF RrWakeInv, RrInv, RrRdT
<1>1. rd'[q] = rd[q]
  BY <1>0 DEF read_chan, ReadStep, Signal, AtomicRead, Arm, TestInput, Resume,
              copy_from_read_buf, CopyCount, CopyOut, CheckMinimum, LeaveLoop, LeaveQueue, Return,
              EntryStore, StoreMinimum
<1>2. wpc' = wpc
  BY DEF read_chan, ReadStep, Signal, AtomicRead, Arm, TestInput, Resume, workVars,
         copy_from_read_buf, CopyCount, CopyOut, CheckMinimum, LeaveLoop, LeaveQueue, Return,
              EntryStore, StoreMinimum
<1>3. ASSUME rd[q].pc = "sleep" PROVE read_cnt' = read_cnt
  <2>1. rd[r].pc \notin Inside
    BY <1>0, <1>3, OnQueue DEF Inside
  <2>2. ~copy_from_read_buf(r)
    BY <2>1 DEF copy_from_read_buf, CopyCount, CopyOut, Inside
  <2>3. QED
    BY <2>2 DEF read_chan, ReadStep, Signal, AtomicRead, Arm, TestInput, Resume, ringVars,
                CheckMinimum, LeaveLoop, LeaveQueue, Return,
              EntryStore, StoreMinimum
<1>4. ASSUME rd[q].pc \in {"test", "sleep"}, ~late'
      PROVE  ~late /\ minimum_to_wake' <= minimum_to_wake
  <2>1. q \in read_wait /\ rd[r].pc \notin Inside
    BY <1>0, <1>4, OnQueue DEF Inside
  <2>2. minimum_to_wake \in Nat \ {0} /\ min_char \in Nat
    BY <1>0 DEF RrInv, RrNumT
  <2>3. ~Arm(r)
    BY <2>1 DEF Arm, Inside
  <2>4. CASE read_chan(r)
    <3>1. late' = late /\ minimum_to_wake' \in {1, minimum_to_wake}
      BY <2>4 DEF read_chan
    <3>2. QED
      BY <1>4, <2>2, <3>1
  <2>5. CASE EntryStore(r)
    <3>1. ~late /\ Lowers(rd[r].minimum) /\ minimum_to_wake' = rd[r].minimum
      BY <1>4, <2>5 DEF EntryStore
    <3>2. minimum_to_wake > rd[r].minimum
      BY <2>1, <3>1 DEF Lowers
    <3>3. rd[r].minimum \in Nat
      BY <1>0 DEF ReaderType
    <3>4. QED
      BY <2>2, <3>1, <3>2, <3>3
  <2>6. CASE StoreMinimum(r)
    BY <1>4, <2>1, <2>6 DEF StoreMinimum
  <2>7. CASE \/ AtomicRead(r) \/ TestInput(r) \/ Resume(r) \/ copy_from_read_buf(r)
             \/ CheckMinimum(r) \/ LeaveLoop(r) \/ LeaveQueue(r) \/ Return(r) \/ Signal(r)
    <3>1. minimum_to_wake' = minimum_to_wake /\ late' = late
      BY <2>7 DEF Signal, AtomicRead, TestInput, Resume, copy_from_read_buf, CopyCount,
                  CopyOut, CheckMinimum, LeaveLoop, LeaveQueue, Return
    <3>2. QED
      BY <1>4, <2>2, <3>1
  <2>8. QED
    BY <2>3, <2>4, <2>5, <2>6, <2>7 DEF ReadStep
<1>5. QED
  BY <1>0, <1>1, <1>2, <1>3, <1>4, WaitsSame

\* A thread's own step.
LEMMA WaitsOwn ==
  ASSUME RrWakeInv, RrInv', NEW r \in Readers, read_chan(r) \/ ReadStep(r) \/ Signal(r)
  PROVE  Waits(r)'
<1>0. /\ RrInv /\ Waits(r) /\ ~time_char /\ rd \in [Readers -> ReaderType]
      /\ rd[r] \in ReaderType
  BY DEF RrWakeInv, RrInv, RrRdT
<1>1. /\ rd[r].minimum \in Nat \ {0} /\ rd[r].got \in Nat
      /\ minimum_to_wake \in Nat \ {0} /\ read_cnt \in Nat
  BY <1>0, RrSizes DEF ReaderType, RrInv, RrNumT
<1>2. CASE read_chan(r)
  <2>0. PICK nr \in Nr, nb \in NonBlock :
          rd' = [rd EXCEPT ![r] =
                   [Idle EXCEPT !.pc = IF min_char # 0 /\ ~time_char /\ Lowers(min_char) THEN "enter" ELSE "down",
                    !.nr = nr, !.nonblock = nb,
                      !.minimum = IF min_char = 0 THEN 1 ELSE min_char,
                      !.time = min_char # 0 /\ time_char,
                      !.timeout = IF min_char # 0 THEN "max"
                                  ELSE IF time_char THEN "finite" ELSE "zero"]]
    BY <1>2 DEF read_chan
  <2>1. rd'[r].pc \in {"enter", "down"} /\ rd'[r].got = 0
    BY <1>0, <2>0 DEF Idle
  <2>2. ~rd'[r].time
    BY <1>0, <2>0 DEF Idle
  <2>3. QED
    BY <2>1, <2>2 DEF Waits
<1>3. CASE AtomicRead(r)
  <2>1. CASE atomic_read
    <3>1. rd' = [rd EXCEPT ![r] = [rd[r] EXCEPT !.pc = "arm"]] /\ rd[r].pc = "down"
      BY <1>3, <2>1 DEF AtomicRead
    <3>2. /\ rd'[r].pc = "arm" /\ rd'[r].got = rd[r].got /\ rd'[r].minimum = rd[r].minimum
          /\ rd'[r].time = rd[r].time
      BY <1>0, <3>1 DEF ReaderType
    <3>3. rd[r].got < rd[r].minimum
      BY <1>0, <1>1, <3>1 DEF Waits
    <3>4. QED
      BY <1>0, <3>2, <3>3 DEF Waits
  <2>2. CASE ~atomic_read
    <3>1. rd'[r] = Idle
      BY <1>0, <1>3, <2>2 DEF AtomicRead
    <3>2. QED
      BY <3>1 DEF Waits, Idle
  <2>3. QED
    BY <2>1, <2>2
<1>4. CASE Arm(r)
  <2>1. CASE rd[r].nr = 0
    <3>1. rd'[r].pc = "up" /\ rd'[r].time = rd[r].time
      BY <1>0, <1>4, <2>1 DEF Arm, ReaderType
    <3>2. QED
      BY <1>0, <3>1 DEF Waits
  <2>2. CASE rd[r].nr # 0
    <3>1. rd' = [rd EXCEPT ![r] = [rd[r] EXCEPT !.pc = "test", !.state = "interruptible"]]
      BY <1>0, <1>4, <2>2 DEF Arm
    <3>2. /\ rd'[r].pc = "test" /\ rd'[r].got = rd[r].got /\ rd'[r].minimum = rd[r].minimum
          /\ rd'[r].time = rd[r].time
      BY <1>0, <3>1 DEF ReaderType
    <3>3. rd[r].got < rd[r].minimum
      BY <1>0, <1>4 DEF Arm, Waits
    <3>4. minimum_to_wake' <= rd[r].minimum - rd[r].got
      BY <1>1, <1>4, <2>2, <3>3 DEF Arm
    <3>5. QED
      BY <1>0, <3>2, <3>3, <3>4 DEF Waits
  <2>3. QED
    BY <2>1, <2>2
<1>5. CASE TestInput(r)
  <2>1. CASE read_cnt >= 1
    <3>1. rd' = [rd EXCEPT ![r] = [rd[r] EXCEPT !.pc = "n1", !.state = "running"]]
      <4>1. ~(read_cnt < 1)
        BY <1>1, <2>1
      <4>2. rd' = [rd EXCEPT ![r].pc = "n1", ![r].state = "running"]
        BY <1>5, <4>1 DEF TestInput
      <4>3. QED
        BY <1>0, <4>2
    <3>2. rd'[r].pc = "n1" /\ rd'[r].time = rd[r].time
      BY <1>0, <3>1 DEF ReaderType
    <3>3. QED
      BY <1>0, <3>2 DEF Waits
  <2>2. CASE read_cnt < 1
    <3>1. \/ rd' = [rd EXCEPT ![r] = [rd[r] EXCEPT !.pc = "up"]]
          \/ rd' = [rd EXCEPT ![r] = [rd[r] EXCEPT !.pc = "sleep"]]
      BY <1>0, <1>1, <1>5, <2>2 DEF TestInput
    <3>2. /\ rd'[r].pc \in {"up", "sleep"} /\ rd'[r].got = rd[r].got
          /\ rd'[r].minimum = rd[r].minimum /\ rd'[r].time = rd[r].time
      BY <1>0, <3>1 DEF ReaderType
    <3>3. /\ minimum_to_wake' = minimum_to_wake /\ read_cnt' = read_cnt /\ rd[r].pc = "test"
          /\ late' = late
      BY <1>5 DEF TestInput, ringVars
    <3>4. /\ rd[r].got < rd[r].minimum
          /\ ~late => minimum_to_wake <= rd[r].minimum - rd[r].got
      BY <1>0, <3>3 DEF Waits
    <3>5. read_cnt < rd[r].minimum - rd[r].got
      BY <1>1, <2>2, <3>4
    <3>6. QED
      BY <1>0, <3>2, <3>3, <3>4, <3>5 DEF Waits
  <2>3. QED
    BY <1>1, <2>1, <2>2
<1>6. CASE Resume(r)
  <2>1. /\ rd'[r].pc = "arm" /\ rd'[r].got = rd[r].got /\ rd'[r].minimum = rd[r].minimum
        /\ rd'[r].time = rd[r].time /\ rd[r].pc = "sleep"
    BY <1>0, <1>6 DEF Resume, ReaderType
  <2>2. QED
    BY <1>0, <2>1 DEF Waits
<1>7. CASE copy_from_read_buf(r)
  <2>1. /\ rd'[r].pc \in {"copy1", "n2", "copy2", "check"} /\ rd'[r].time = rd[r].time
    <3>1. ASSUME NEW from, NEW to \in {"copy1", "copy2"}, CopyCount(r, from, to)
          PROVE  rd'[r].pc = to /\ rd'[r].time = rd[r].time
      BY <1>0, <3>1 DEF CopyCount, ReaderType
    <3>2. ASSUME NEW from, NEW to \in {"n2", "check"}, CopyOut(r, from, to)
          PROVE  rd'[r].pc = to /\ rd'[r].time = rd[r].time
      <4>1. PICK m : rd' = [rd EXCEPT ![r].pc = to, ![r].got = @ + m, ![r].nr = @ - m,
                                      ![r].fault = @ \/ m < rd[r].n, ![r].n = 0]
        BY <3>2 DEF CopyOut
      <4>2. QED
        BY <1>0, <4>1 DEF ReaderType
    <3>3. QED
      BY <1>7, <3>1, <3>2 DEF copy_from_read_buf
  <2>2. QED
    BY <1>0, <2>1 DEF Waits
<1>8. CASE CheckMinimum(r)
  <2>1. /\ rd'[r].pc = (IF rd[r].fault \/ Enough(r) THEN "up" ELSE "arm")
        /\ rd'[r].got = rd[r].got /\ rd'[r].minimum = rd[r].minimum
        /\ rd'[r].time = rd[r].time
    BY <1>0, <1>8 DEF CheckMinimum, ReaderType
  <2>2. CASE rd[r].fault \/ Enough(r)
    BY <1>0, <2>1, <2>2 DEF Waits
  <2>3. CASE ~(rd[r].fault \/ Enough(r))
    <3>1. rd[r].got < rd[r].minimum
      BY <1>1, <2>3 DEF Enough
    <3>2. QED
      BY <1>0, <2>1, <2>3, <3>1 DEF Waits
  <2>4. QED
    BY <2>2, <2>3
<1>9. CASE LeaveLoop(r)
  <2>1. rd'[r].pc = "leave" /\ rd'[r].time = rd[r].time
    BY <1>0, <1>9 DEF LeaveLoop, ReaderType
  <2>2. QED
    BY <1>0, <2>1 DEF Waits
<1>10. CASE LeaveQueue(r) \/ Return(r) \/ StoreMinimum(r)
  <2>1. \/ rd'[r] = Idle
        \/ rd'[r].pc \in {"left", "store"} /\ rd'[r].time = rd[r].time
    BY <1>0, <1>10 DEF LeaveQueue, Return, StoreMinimum, ReaderType
  <2>2. QED
    BY <1>0, <2>1 DEF Waits, Idle
<1>13. CASE EntryStore(r)
  <2>1. rd' = [rd EXCEPT ![r] = [rd[r] EXCEPT !.pc = "down"]] /\ rd[r].pc = "enter"
    BY <1>13 DEF EntryStore
  <2>2. rd'[r].pc = "down" /\ rd'[r].time = rd[r].time /\ rd'[r].got = rd[r].got
    BY <1>0, <2>1 DEF ReaderType
  <2>3. QED
    BY <1>0, <2>1, <2>2 DEF Waits
<1>11. CASE Signal(r)
  <2>1. /\ rd'[r].pc = rd[r].pc /\ rd'[r].got = rd[r].got /\ rd'[r].minimum = rd[r].minimum
        /\ rd'[r].time = rd[r].time /\ rd'[r].state = rd[r].state
    BY <1>0, <1>11 DEF Signal, ReaderType
  <2>2. UNCHANGED <<minimum_to_wake, late, read_cnt, wpc>>
    BY <1>11 DEF Signal, ringVars, workVars
  <2>3. QED
    BY <1>0, <2>1, <2>2 DEF Waits
<1>12. QED
  BY <1>2, <1>3, <1>4, <1>5, <1>6, <1>7, <1>8, <1>9, <1>10, <1>11, <1>13 DEF ReadStep

\* The invariant holds initially ...
LEMMA WakeInitial ==
  ASSUME Init, Untimed
  PROVE  RrWakeInv
<1>1. ~time_char
  BY DEF Init, Untimed
<1>2. \A r \in Readers : Waits(r)
  BY DEF Init, Idle, Waits
<1>3. QED
  BY <1>1, <1>2, RrInitial DEF RrWakeInv

\* ... and every step keeps it.
LEMMA WakeNext ==
  ASSUME RrWakeInv, [Next]_vars, Untimed
  PROVE  RrWakeInv'
<1>1. RrInv'
  BY RrNext DEF RrWakeInv
<1>2. CASE LineBringsByte \/ xr_rx_chars_duart \/ Worker \/ rctty_ioctl \/ rctty_poll
  BY <1>1, <1>2, WaitsDevice
<1>3. ASSUME NEW r \in Readers, read_chan(r) \/ ReadStep(r) \/ Signal(r) PROVE RrWakeInv'
  <2>1. ~time_char'
    BY <1>3 DEF RrWakeInv, read_chan, ReadStep, Signal, AtomicRead, Arm, TestInput,
         Resume, copy_from_read_buf, CopyCount, CopyOut, CheckMinimum, LeaveLoop, LeaveQueue, Return,
         EntryStore, StoreMinimum, modeVars
  <2>2. ASSUME NEW q \in Readers PROVE Waits(q)'
    <3>1. CASE q = r
      BY <1>1, <1>3, <3>1, WaitsOwn
    <3>2. CASE q # r
      BY <1>1, <1>3, <3>2, WaitsOthers
    <3>3. QED
      BY <3>1, <3>2
  <2>3. QED
    BY <1>1, <2>1, <2>2 DEF RrWakeInv
<1>4. CASE UNCHANGED vars
  <2>1. UNCHANGED <<time_char, minimum_to_wake, late, read_cnt, wpc, rd>>
    BY <1>4 DEF vars, modeVars, ringVars, workVars
  <2>2. \A q \in Readers : Waits(q)'
    BY <2>1 DEF RrWakeInv, Waits
  <2>3. QED
    BY <1>1, <2>1, <2>2 DEF RrWakeInv
<1>5. QED
  BY <1>2, <1>3, <1>4 DEF Next

\* A thread asleep waits for more than there is.
LEMMA WakeMeaning == RrWakeInv => NoLostWakeup
<1>1. SUFFICES ASSUME RrWakeInv, ~late, NEW r \in DOMAIN rd, rd[r].pc = "sleep",
                      rd[r].state = "interruptible", wpc # "wake"
               PROVE  read_cnt < Need(r)
  BY DEF NoLostWakeup
<1>2. r \in Readers
  BY <1>1 DEF RrWakeInv, RrInv, RrRdT
<1>3. QED
  BY <1>1, <1>2 DEF RrWakeInv, Waits, Need

\* Without polls and VTIME, a thread asleep in read_chan() needs more than
\* read_buf holds or is about to be woken, however many threads share the one
\* minimum_to_wake and whatever VMIN an ioctl sets meanwhile, until a thread
\* stores its VMIN on a test that is no longer true.
THEOREM NeverALostWakeup == Untimed /\ Spec => []NoLostWakeup
<1> SUFFICES ASSUME Untimed PROVE Spec => []NoLostWakeup
  OBVIOUS
<1>1. Init => RrWakeInv
  BY WakeInitial
<1>2. RrWakeInv /\ [Next]_vars => RrWakeInv'
  BY WakeNext
<1>3. RrWakeInv => NoLostWakeup
  BY WakeMeaning
<1>4. QED
  BY <1>1, <1>2, <1>3, PTL DEF Spec

-----------------------------------------------------------------------------
(***************************************************************************)
(* What read() returns.                                                    *)
(***************************************************************************)
\* A step that does not touch thread q keeps its promise.
LEMMA PromiseSame ==
  ASSUME RrInv, RrInv', NEW q \in Readers, Promise(q), rd'[q] = rd[q],
         rd[q].pc = "n1" => read_cnt' >= read_cnt
  PROVE  Promise(q)'
<1>1. rd[q].pc = "n1" => read_cnt' >= 1
  <2>1. read_cnt \in Nat /\ read_cnt' \in Nat
    BY RrSizes DEF RrInv, RrNumT
  <2>2. QED
    BY <2>1 DEF Promise
<1>2. Kept(q)' = Kept(q)
  BY DEF Kept, Need0
<1>3. QED
  BY <1>1, <1>2 DEF Promise

\* The line, the interrupt handler, the work and the modes.
LEMMA PromiseDevice ==
  ASSUME RrInv, RrInv', RrPromises,
         LineBringsByte \/ xr_rx_chars_duart \/ Worker \/ rctty_ioctl \/ rctty_poll
  PROVE  RrPromises'
<1>0. read_cnt \in Nat /\ read_cnt' \in Nat
  BY RrSizes DEF RrInv, RrNumT
<1>1. CASE WakeReaders
  <2>1. /\ UNCHANGED read_cnt /\ rd \in [Readers -> ReaderType]
    BY <1>1 DEF WakeReaders, ringVars, RrInv, RrRdT
  <2>2. ASSUME NEW q \in Readers PROVE Promise(q)'
    <3>1. \/ rd'[q] = rd[q]
          \/ rd'[q] = [rd[q] EXCEPT !.state = "running"]
      BY <1>1, <2>1 DEF WakeReaders, Wake
    <3>2. rd[q] \in ReaderType
      BY <2>1
    <3>3. /\ rd'[q].pc = rd[q].pc /\ rd'[q].n = rd[q].n /\ rd'[q].nr = rd[q].nr
          /\ rd'[q].got = rd[q].got /\ rd'[q].minimum = rd[q].minimum
          /\ rd'[q].timeout = rd[q].timeout
      BY <3>1, <3>2 DEF ReaderType
    <3>4. /\ rd'[q].time = rd[q].time /\ rd'[q].signal = rd[q].signal
          /\ rd'[q].fault = rd[q].fault /\ rd'[q].nonblock = rd[q].nonblock
      BY <3>1, <3>2 DEF ReaderType
    <3>5. Kept(q)' = Kept(q)
      BY <3>3, <3>4 DEF Kept, Need0
    <3>6. Promise(q)
      BY DEF RrPromises
    <3>7. QED
      BY <2>1, <3>3, <3>4, <3>5, <3>6 DEF Promise
  <2>3. QED
    BY <2>2 DEF RrPromises
<1>2. CASE n_tty_receive_buf
  <2>1. PICK k \in 0 .. Len(cp) : read_cnt' = read_cnt + k
    BY <1>2, RrPutsIn DEF RrInv
  <2>2. k \in Nat
    BY DEF RrInv, RrSeqT
  <2>3. read_cnt' >= read_cnt
    BY <1>0, <2>1, <2>2
  <2>4. rd' = rd
    BY <1>2 DEF n_tty_receive_buf
  <2>5. ASSUME NEW q \in Readers PROVE Promise(q)'
    BY <2>3, <2>4, PromiseSame DEF RrPromises
  <2>6. QED
    BY <2>5 DEF RrPromises
<1>3. CASE LineBringsByte \/ xr_rx_chars_duart \/ flush_to_ldisc \/ FlipBuffers \/ rctty_ioctl
           \/ rctty_poll
  <2>1. rd' = rd /\ read_cnt' = read_cnt
    BY <1>3 DEF LineBringsByte, xr_rx_chars_duart, flush_to_ldisc, FlipBuffers, rctty_ioctl,
                rctty_poll, ringVars
  <2>2. read_cnt' >= read_cnt
    BY <1>0, <2>1
  <2>3. ASSUME NEW q \in Readers PROVE Promise(q)'
    BY <2>1, <2>2, PromiseSame DEF RrPromises
  <2>4. QED
    BY <2>3 DEF RrPromises
<1>4. QED
  BY <1>1, <1>2, <1>3 DEF Worker

\* A step of thread r keeps the promises of the others.
LEMMA PromiseOthers ==
  ASSUME RrInv, RrInv', RrPromises, NEW r \in Readers,
         read_chan(r) \/ ReadStep(r) \/ Signal(r), NEW q \in Readers, q # r
  PROVE  Promise(q)'
<1>0. Promise(q) /\ rd \in [Readers -> ReaderType] /\ read_cnt \in Nat
  BY RrSizes DEF RrPromises, RrInv, RrRdT, RrNumT
<1>1. rd'[q] = rd[q]
  BY <1>0 DEF read_chan, ReadStep, Signal, AtomicRead, Arm, TestInput, Resume,
              copy_from_read_buf, CopyCount, CopyOut, CheckMinimum, LeaveLoop, LeaveQueue, Return,
              EntryStore, StoreMinimum
<1>2. ASSUME rd[q].pc = "n1" PROVE read_cnt' = read_cnt
  <2>1. rd[r].pc \notin Inside
    BY <1>2, OnQueue DEF Inside
  <2>2. ~copy_from_read_buf(r)
    BY <2>1 DEF copy_from_read_buf, CopyCount, CopyOut, Inside
  <2>3. QED
    BY <2>2 DEF read_chan, ReadStep, Signal, AtomicRead, Arm, TestInput, Resume, ringVars,
                CheckMinimum, LeaveLoop, LeaveQueue, Return,
              EntryStore, StoreMinimum
<1>3. rd[q].pc = "n1" => read_cnt' >= read_cnt
  BY <1>0, <1>2
<1>4. QED
  BY <1>0, <1>1, <1>3, PromiseSame

\* A thread's own step keeps its promise.
LEMMA PromiseOwn ==
  ASSUME RrInv, RrInv', RrPromises, NEW r \in Readers,
         read_chan(r) \/ ReadStep(r) \/ Signal(r)
  PROVE  Promise(r)'
<1>0. Promise(r) /\ rd \in [Readers -> ReaderType] /\ rd[r] \in ReaderType
  BY DEF RrPromises, RrInv, RrRdT
<1>1. /\ rd[r].minimum \in Nat \ {0} /\ rd[r].got \in Nat /\ rd[r].nr \in Nat /\ rd[r].n \in Nat
      /\ read_cnt \in Nat
  BY <1>0, RrSizes DEF ReaderType, RrInv, RrNumT
<1>2. CASE read_chan(r)
  <2>0. PICK nr \in Nr, nb \in NonBlock :
          rd' = [rd EXCEPT ![r] =
                   [Idle EXCEPT !.pc = IF min_char # 0 /\ ~time_char /\ Lowers(min_char) THEN "enter" ELSE "down",
                    !.nr = nr, !.nonblock = nb,
                      !.minimum = IF min_char = 0 THEN 1 ELSE min_char,
                      !.time = min_char # 0 /\ time_char,
                      !.timeout = IF min_char # 0 THEN "max"
                                  ELSE IF time_char THEN "finite" ELSE "zero"]]
    BY <1>2 DEF read_chan
  <2>1. rd'[r].pc \in {"enter", "down"}
    BY <1>0, <2>0 DEF Idle
  <2>2. rd'[r].time => rd'[r].timeout = "max"
    BY <1>0, <2>0 DEF Idle
  <2>3. QED
    BY <2>1, <2>2 DEF Promise
<1>3. CASE AtomicRead(r)
  <2>1. CASE atomic_read
    <3>1. rd' = [rd EXCEPT ![r] = [rd[r] EXCEPT !.pc = "arm"]]
      BY <1>3, <2>1 DEF AtomicRead
    <3>2. rd'[r].pc = "arm" /\ rd'[r].got = rd[r].got /\ rd'[r].timeout = rd[r].timeout
      BY <1>0, <3>1 DEF ReaderType
    <3>3. rd'[r].time = rd[r].time /\ rd'[r].fault = rd[r].fault
      BY <1>0, <3>1 DEF ReaderType
    <3>4. QED
      BY <1>0, <3>2, <3>3 DEF Promise
  <2>2. CASE ~atomic_read
    <3>1. rd'[r] = Idle
      BY <1>0, <1>3, <2>2 DEF AtomicRead
    <3>2. QED
      BY <3>1 DEF Promise, Idle
  <2>3. QED
    BY <2>1, <2>2
<1>4. CASE Arm(r)
  <2>1. CASE rd[r].nr = 0
    <3>1. rd' = [rd EXCEPT ![r] = [rd[r] EXCEPT !.pc = "up"]]
      BY <1>4, <2>1 DEF Arm
    <3>2. /\ rd'[r].pc = "up" /\ rd'[r].got = rd[r].got /\ rd'[r].timeout = rd[r].timeout
          /\ rd'[r].nr = 0 /\ rd'[r].minimum = rd[r].minimum
      BY <1>0, <2>1, <3>1 DEF ReaderType
    <3>3. rd'[r].time = rd[r].time /\ rd'[r].fault = rd[r].fault
      BY <1>0, <3>1 DEF ReaderType
    <3>4. rd'[r].got + rd'[r].nr < rd'[r].minimum \/ rd'[r].got >= rd'[r].minimum
      BY <1>1, <3>2
    <3>5. rd'[r].got >= rd'[r].minimum => rd'[r].got >= 1
      BY <1>1, <3>2
    <3>6. Kept(r)'
      BY <3>4, <3>5 DEF Kept, Need0
    <3>7. QED
      BY <1>0, <3>2, <3>3, <3>6 DEF Promise
  <2>2. CASE rd[r].nr # 0
    <3>1. rd' = [rd EXCEPT ![r] = [rd[r] EXCEPT !.pc = "test", !.state = "interruptible"]]
      BY <1>0, <1>4, <2>2 DEF Arm
    <3>2. /\ rd'[r].pc = "test" /\ rd'[r].got = rd[r].got /\ rd'[r].timeout = rd[r].timeout
          /\ rd'[r].nr >= 1
      BY <1>0, <1>1, <2>2, <3>1 DEF ReaderType
    <3>3. rd'[r].time = rd[r].time /\ rd'[r].fault = rd[r].fault
      BY <1>0, <3>1 DEF ReaderType
    <3>4. QED
      BY <1>0, <3>2, <3>3 DEF Promise
  <2>3. QED
    BY <2>1, <2>2
<1>5. CASE TestInput(r)
  <2>0. rd[r].pc = "test" /\ read_cnt' = read_cnt
    BY <1>5 DEF TestInput, ringVars
  <2>1. PICK v \in {"n1", "up", "sleep"}, s \in {"running", "interruptible"} :
          /\ rd' = [rd EXCEPT ![r] = [rd[r] EXCEPT !.pc = v, !.state = s]]
          /\ v = "n1" => read_cnt >= 1
          /\ v = "up" => rd[r].timeout = "zero" \/ rd[r].nonblock \/ rd[r].signal
    <3>1. rd[r].state \in {"running", "interruptible"}
      BY <1>0 DEF ReaderType
    <3>2. /\ [rd[r] EXCEPT !.pc = "up"] = [rd[r] EXCEPT !.pc = "up", !.state = rd[r].state]
          /\ [rd[r] EXCEPT !.pc = "sleep"] = [rd[r] EXCEPT !.pc = "sleep", !.state = rd[r].state]
      BY <1>0 DEF ReaderType
    <3>3. \/ /\ read_cnt >= 1
             /\ rd' = [rd EXCEPT ![r] = [rd[r] EXCEPT !.pc = "n1", !.state = "running"]]
          \/ /\ rd[r].timeout = "zero" \/ rd[r].nonblock \/ rd[r].signal
             /\ rd' = [rd EXCEPT ![r] = [rd[r] EXCEPT !.pc = "up"]]
          \/ rd' = [rd EXCEPT ![r] = [rd[r] EXCEPT !.pc = "sleep"]]
      BY <1>0, <1>5 DEF TestInput
    <3>4. QED
      BY <3>1, <3>2, <3>3
  <2>2. /\ rd'[r].pc = v /\ rd'[r].got = rd[r].got /\ rd'[r].timeout = rd[r].timeout
        /\ rd'[r].nr = rd[r].nr /\ rd'[r].minimum = rd[r].minimum
    BY <1>0, <2>1 DEF ReaderType
  <2>3. /\ rd'[r].time = rd[r].time /\ rd'[r].fault = rd[r].fault
        /\ rd'[r].signal = rd[r].signal /\ rd'[r].nonblock = rd[r].nonblock
    BY <1>0, <2>1 DEF ReaderType
  <2>4. v = "up" => Kept(r)'
    <3>1. rd[r].time /\ rd[r].timeout = "zero" => rd[r].got >= 1 \/ rd[r].fault
      BY <1>0 DEF Promise
    <3>2. QED
      BY <2>1, <2>2, <2>3, <3>1 DEF Kept, Need0
  <2>5. QED
    BY <1>0, <2>0, <2>1, <2>2, <2>3, <2>4 DEF Promise
<1>6. CASE Resume(r)
  <2>1. PICK left \in {"zero", "finite", "max"} :
          /\ rd' = [rd EXCEPT ![r] = [rd[r] EXCEPT !.pc = "arm", !.state = "running",
                                                   !.timeout = left]]
          /\ left = "max" \/ rd[r].timeout # "max"
    <3>1. rd[r].timeout \in {"zero", "finite", "max"}
      BY <1>0 DEF ReaderType
    <3>2. QED
      BY <1>0, <1>6, <3>1 DEF Resume
  <2>2. rd'[r].pc = "arm" /\ rd'[r].got = rd[r].got /\ rd'[r].timeout = left
    BY <1>0, <2>1 DEF ReaderType
  <2>3. rd'[r].time = rd[r].time /\ rd'[r].fault = rd[r].fault
    BY <1>0, <2>1 DEF ReaderType
  <2>4. QED
    BY <1>0, <2>1, <2>2, <2>3 DEF Promise
<1>7. ASSUME NEW from \in {"n1", "n2"}, NEW to \in {"copy1", "copy2"}, CopyCount(r, from, to),
             from = "n1" <=> to = "copy1"
      PROVE  Promise(r)'
  <2>1. rd' = [rd EXCEPT ![r] = [rd[r] EXCEPT !.pc = to, !.n = Contiguous(r)]]
        /\ rd[r].pc = from
    BY <1>0, <1>7 DEF CopyCount
  <2>2. /\ rd'[r].pc = to /\ rd'[r].got = rd[r].got /\ rd'[r].timeout = rd[r].timeout
        /\ rd'[r].n = Contiguous(r)
    BY <1>0, <2>1 DEF ReaderType
  <2>3. rd'[r].time = rd[r].time /\ rd'[r].fault = rd[r].fault
    BY <1>0, <2>1 DEF ReaderType
  <2>4. to = "copy1" => Contiguous(r) >= 1
    <3>1. SUFFICES ASSUME to = "copy1" PROVE Contiguous(r) >= 1
      OBVIOUS
    <3>2. rd[r].nr >= 1 /\ read_cnt >= 1
      BY <1>0, <1>7, <2>1, <3>1 DEF Promise
    <3>3. QED
      BY <1>1, <3>2, RrSizes DEF Contiguous, Min2, RrInv, RrNumT
  <2>5. QED
    BY <1>0, <1>7, <2>1, <2>2, <2>3, <2>4 DEF Promise
<1>8. ASSUME NEW from \in {"copy1", "copy2"}, NEW to \in {"n2", "check"}, CopyOut(r, from, to)
      PROVE  Promise(r)'
  <2>1. PICK m \in (IF Faults THEN 0 .. rd[r].n ELSE {rd[r].n}) :
          rd' = [rd EXCEPT ![r].pc = to, ![r].got = @ + m, ![r].nr = @ - m,
                           ![r].fault = @ \/ m < rd[r].n, ![r].n = 0]
    BY <1>8 DEF CopyOut
  <2>2. m \in Nat /\ m <= rd[r].n
    BY <1>1, <2>1
  <2>3. rd'[r].pc = to /\ rd'[r].got = rd[r].got + m /\ rd'[r].timeout = rd[r].timeout
    BY <1>0, <2>1 DEF ReaderType
  <2>4. rd'[r].time = rd[r].time
    BY <1>0, <2>1 DEF ReaderType
  <2>5. rd'[r].fault <=> (rd[r].fault \/ m < rd[r].n)
    BY <1>0, <2>1 DEF ReaderType
  <2>6. rd[r].got >= 1 \/ rd[r].fault \/ rd[r].n >= 1
    BY <1>0, <1>8 DEF Promise, CopyOut
  <2>7. rd[r].got + m >= 1 \/ rd'[r].fault
    <3>1. rd[r].got + m >= 1 \/ rd[r].fault \/ m < rd[r].n
      <4>1. rd[r].got >= 1 \/ rd[r].n >= 1 => rd[r].got + m >= 1 \/ m < rd[r].n
        BY <1>1, <2>2
      <4>2. QED
        BY <2>6, <4>1
    <3>2. QED
      BY <2>5, <3>1
  <2>8. QED
    BY <2>3, <2>4, <2>7 DEF Promise
<1>9. CASE CheckMinimum(r)
  <2>0. rd[r].pc = "check" /\ (rd[r].got >= 1 \/ rd[r].fault)
    BY <1>0, <1>9 DEF CheckMinimum, Promise
  <2>1. rd' = [rd EXCEPT ![r] =
          [rd[r] EXCEPT !.pc = IF rd[r].fault \/ Enough(r) THEN "up" ELSE "arm",
                        !.timeout = IF rd[r].time THEN "finite" ELSE rd[r].timeout]]
    BY <1>0, <1>9 DEF CheckMinimum
  <2>2. /\ rd'[r].pc = (IF rd[r].fault \/ Enough(r) THEN "up" ELSE "arm")
        /\ rd'[r].timeout = (IF rd[r].time THEN "finite" ELSE rd[r].timeout)
    BY <1>0, <2>1 DEF ReaderType
  <2>3. rd'[r].got = rd[r].got /\ rd'[r].nr = rd[r].nr /\ rd'[r].minimum = rd[r].minimum
    BY <1>0, <2>1 DEF ReaderType
  <2>4. rd'[r].time = rd[r].time /\ rd'[r].fault = rd[r].fault
    BY <1>0, <2>1 DEF ReaderType
  <2>5. rd'[r].pc = "up" => Kept(r)'
    <3>1. SUFFICES ASSUME rd'[r].pc = "up" PROVE Kept(r)'
      OBVIOUS
    <3>2. rd[r].fault \/ Enough(r)
      BY <2>2, <3>1
    <3>3. Enough(r) => rd'[r].got >= rd'[r].minimum /\ rd'[r].got >= 1
      BY <1>1, <2>3 DEF Enough
    <3>4. QED
      BY <2>4, <3>2, <3>3 DEF Kept, Need0
  <2>6. rd'[r].got >= 1 \/ rd'[r].fault
    BY <2>0, <2>3, <2>4
  <2>7. rd'[r].pc \in {"up", "arm"}
    BY <2>2
  <2>8. QED
    BY <2>5, <2>6, <2>7 DEF Promise
<1>10. CASE \/ LeaveLoop(r) \/ LeaveQueue(r)
            \/ Return(r) /\ read_wait = {}
  <2>1. PICK to \in {"leave", "left", "store"} :
          /\ rd' = [rd EXCEPT ![r] = [rd[r] EXCEPT !.pc = to]]
          /\ rd[r].pc \in {"up", "leave", "left"}
    BY <1>10 DEF LeaveLoop, LeaveQueue, Return
  <2>2. /\ rd'[r].pc = to /\ rd'[r].got = rd[r].got /\ rd'[r].timeout = rd[r].timeout
        /\ rd'[r].nr = rd[r].nr /\ rd'[r].minimum = rd[r].minimum
    BY <1>0, <2>1 DEF ReaderType
  <2>3. /\ rd'[r].time = rd[r].time /\ rd'[r].fault = rd[r].fault
        /\ rd'[r].signal = rd[r].signal /\ rd'[r].nonblock = rd[r].nonblock
    BY <1>0, <2>1 DEF ReaderType
  <2>4. Kept(r)'
    <3>1. Kept(r)
      BY <1>0, <2>1 DEF Promise
    <3>2. QED
      BY <2>2, <2>3, <3>1 DEF Kept, Need0
  <2>5. QED
    BY <1>0, <2>2, <2>3, <2>4 DEF Promise
<1>11. CASE (Return(r) /\ read_wait # {}) \/ StoreMinimum(r)
  <2>1. rd'[r] = Idle
    BY <1>0, <1>11 DEF Return, StoreMinimum
  <2>2. QED
    BY <2>1 DEF Promise, Idle
<1>14. CASE EntryStore(r)
  <2>1. rd' = [rd EXCEPT ![r] = [rd[r] EXCEPT !.pc = "down"]]
    BY <1>14 DEF EntryStore
  <2>2. rd'[r].pc = "down" /\ rd'[r].got = rd[r].got /\ rd'[r].timeout = rd[r].timeout
    BY <1>0, <2>1 DEF ReaderType
  <2>3. rd'[r].time = rd[r].time /\ rd'[r].fault = rd[r].fault
    BY <1>0, <2>1 DEF ReaderType
  <2>4. QED
    BY <1>0, <2>2, <2>3 DEF Promise
<1>12. CASE Signal(r)
  <2>1. rd' = [rd EXCEPT ![r] = [rd[r] EXCEPT !.signal = TRUE]] /\ read_cnt' = read_cnt
    BY <1>12 DEF Signal, ringVars
  <2>2. /\ rd'[r].pc = rd[r].pc /\ rd'[r].got = rd[r].got /\ rd'[r].timeout = rd[r].timeout
        /\ rd'[r].nr = rd[r].nr /\ rd'[r].n = rd[r].n
    BY <1>0, <2>1 DEF ReaderType
  <2>3. rd'[r].time = rd[r].time /\ rd'[r].fault = rd[r].fault /\ rd'[r].signal
    BY <1>0, <2>1 DEF ReaderType
  <2>4. Kept(r)'
    BY <2>3 DEF Kept
  <2>5. QED
    BY <1>0, <2>1, <2>2, <2>3, <2>4 DEF Promise
<1>13. QED
  BY <1>2, <1>3, <1>4, <1>5, <1>6, <1>7, <1>8, <1>9, <1>10, <1>11, <1>12, <1>14
     DEF ReadStep, copy_from_read_buf

\* The promises hold in every reachable state.
THEOREM RrPromisesAlways == Spec => [](RrInv /\ RrPromises)
<1>1. Init => RrInv /\ RrPromises
  <2>1. SUFFICES ASSUME Init PROVE RrPromises
    BY RrInitial
  <2>2. \A r \in Readers : rd[r] = Idle
    BY <2>1 DEF Init
  <2>3. \A r \in Readers : rd[r].pc = "idle" /\ ~rd[r].time
    BY <2>2 DEF Idle
  <2>4. QED
    BY <2>3 DEF RrPromises, Promise
<1>2. (RrInv /\ RrPromises) /\ [Next]_vars => (RrInv /\ RrPromises)'
  <2>1. SUFFICES ASSUME RrInv, RrPromises, [Next]_vars PROVE RrInv' /\ RrPromises'
    OBVIOUS
  <2>2. RrInv'
    BY <2>1, RrNext
  <2>3. CASE LineBringsByte \/ xr_rx_chars_duart \/ Worker \/ rctty_ioctl \/ rctty_poll
    BY <2>1, <2>2, <2>3, PromiseDevice
  <2>4. ASSUME NEW r \in Readers, read_chan(r) \/ ReadStep(r) \/ Signal(r) PROVE RrPromises'
    <3>1. ASSUME NEW q \in Readers PROVE Promise(q)'
      <4>1. CASE q = r
        BY <2>1, <2>2, <2>4, <4>1, PromiseOwn
      <4>2. CASE q # r
        BY <2>1, <2>2, <2>4, <4>2, PromiseOthers
      <4>3. QED
        BY <4>1, <4>2
    <3>2. QED
      BY <3>1 DEF RrPromises
  <2>5. CASE UNCHANGED vars
    <3>1. UNCHANGED <<read_cnt, rd>>
      BY <2>5 DEF vars, ringVars
    <3>2. read_cnt' >= read_cnt
      BY <2>1, <3>1, RrSizes DEF RrInv, RrNumT
    <3>3. \A q \in Readers : Promise(q)'
      BY <2>1, <2>2, <3>1, <3>2, PromiseSame DEF RrPromises
    <3>4. QED
      BY <2>2, <3>3 DEF RrPromises
  <2>6. QED
    BY <2>1, <2>2, <2>3, <2>4, <2>5 DEF Next
<1>3. QED
  BY <1>1, <1>2, PTL DEF Spec

\* A read() that is not cut short by a signal, a fault or O_NONBLOCK returns
\* VMIN characters, or at least one when VTIME is set, in every interleaving
\* with the interrupt handler, the work, the timer and the other threads.
THEOREM ReadAlwaysReturns == Spec => ReadReturns
<1>1. RrInv /\ RrPromises =>
        [\A r \in DOMAIN rd :
          (/\ rd[r].pc \in {"left", "store"} /\ rd'[r].pc = "idle"
           /\ ~rd[r].signal /\ ~rd[r].fault /\ ~rd[r].nonblock
           /\ rd[r].timeout = "max" \/ rd[r].time
           /\ rd[r].got + rd[r].nr >= rd[r].minimum)
            => rd[r].got >= Need0(r)]_vars
  <2>1. SUFFICES ASSUME RrInv, RrPromises, NEW r \in DOMAIN rd,
                        rd[r].pc \in {"left", "store"},
                        ~rd[r].signal, ~rd[r].fault, ~rd[r].nonblock,
                        rd[r].timeout = "max" \/ rd[r].time,
                        rd[r].got + rd[r].nr >= rd[r].minimum
                 PROVE  rd[r].got >= Need0(r)
    OBVIOUS
  <2>2. r \in Readers /\ rd[r] \in ReaderType
    BY <2>1 DEF RrInv, RrRdT
  <2>3. ~(rd[r].got + rd[r].nr < rd[r].minimum)
    BY <2>1, <2>2 DEF ReaderType
  <2>4. Kept(r)
    BY <2>1, <2>2 DEF RrPromises, Promise
  <2>5. QED
    BY <2>1, <2>3, <2>4 DEF Kept
<1>2. QED
  BY <1>1, RrPromisesAlways, PTL DEF ReadReturns
=============================================================================
