-------------------------------- MODULE Ping ---------------------------------
(***************************************************************************)
(* ping.c: the alarm handler sends an echo request and starts the alarm    *)
(* again; the main loop reads every ICMP message and reports the answers   *)
(* to this process, with the time since the request in them left.  Numbers *)
(* are words of PG_BITS bits, times count from the start of the program.   *)
(***************************************************************************)
EXTENDS Integers, Sequences, FiniteSets

CONSTANTS
  PG_WORD,      \* values of a word (uint16_t)
  PG_USEC,      \* "microseconds" in a second
  PG_CLOCK,     \* the clock is read up to this time
  PG_INFLIGHT,  \* answers under way
  PgPid         \* pid

ASSUME PgAssumption ==
  /\ {PG_WORD, PG_USEC, PG_CLOCK, PG_INFLIGHT} \subseteq Nat \ {0}
  /\ PG_WORD >= 4                      \* the carries of five words fit one
  /\ PgPid \in 1 .. PG_WORD - 1
  /\ PG_USEC <= PG_WORD                \* a time is sent as words
  /\ PG_CLOCK < PG_WORD * PG_USEC

VARIABLES
  pgPc,      \* start, recv (in recvmsg()), proc (before proc_v4()), end
  pgArmed,   \* alarm() is running
  pgNsent,   \* nsent, of which icmp_seq keeps a word
  pgWire,    \* the request sent last, a sequence of words
  pgNet,     \* messages under way to the raw socket
  pgMsg,     \* the message proc_v4() is called with, and tval
  pgNow,     \* gettimeofday()
  pgRtt      \* the last report: the time printed and the true one

pgVars == <<pgPc, pgArmed, pgNsent, pgWire, pgNet, pgMsg, pgNow, pgRtt>>

PgTime(t) == [sec |-> t \div PG_USEC, usec |-> t % PG_USEC]
\* A message of len bytes sent at t, with that time in its data.  One of less
\* than 16 bytes does not hold it: what stands there is left in the buffer.
PgIcmp(type, len, id, t) ==
  [type |-> type, len |-> len, id |-> id, at |-> t,
   sent |-> PgTime(IF len < 16 THEN PG_CLOCK ELSE t)]
PgIdle == [m |-> PgIcmp("none", 0, 0, 0), tval |-> 0]

PgTypeOK ==
  /\ pgPc \in {"start", "recv", "proc", "end"} /\ pgArmed \in BOOLEAN
  /\ pgNsent \in 0 .. PG_WORD - 1 /\ pgNow \in 0 .. PG_CLOCK
  /\ pgWire \in Seq(0 .. PG_WORD - 1)

\* main() and readloop() up to the call of sig_alrm(); readloop() returns when
\* it gets no raw socket.
PgInit ==
  /\ pgPc \in {"start", "end"} /\ pgArmed = FALSE /\ pgNsent = 0 /\ pgWire = <<>>
  /\ pgNet = {} /\ pgMsg = PgIdle /\ pgNow = 0 /\ pgRtt = <<0, 0, 0>>

-----------------------------------------------------------------------------
(* The checksum                                                            *)

PgSum(words) ==
  LET sum[i \in 0 .. Len(words)] == IF i = 0 THEN 0 ELSE sum[i - 1] + words[i]
  IN sum[Len(words)]

\* Adds the carries above one word to the word.
PgFold(sum) == (sum \div PG_WORD) + (sum % PG_WORD)

\* in_cksum() with the second carry forgotten.
in_cksum_OneFold(words) ==
  LET sum == PgSum(words) % (PG_WORD * PG_WORD)
  IN PG_WORD - 1 - (PgFold(sum) % PG_WORD)

\* A 32 bit accumulator of 16 bit words, the carries added back twice; a request
\* has an even number of bytes.
in_cksum(words) ==
  LET sum == PgSum(words) % (PG_WORD * PG_WORD)
  IN PG_WORD - 1 - (PgFold(PgFold(sum)) % PG_WORD)

\* What a receiver asks of all words together (RFC 1071): the one's complement
\* sum, which is the sum modulo PG_WORD - 1, is the zero that is all ones.
PgGood(words) == PgSum(words) > 0 /\ PgSum(words) % (PG_WORD - 1) = 0

-----------------------------------------------------------------------------
(* Sending                                                                 *)

\* Type and code, checksum, identifier, sequence number, time of sending.
PgEcho(cksum) ==
  <<8 % PG_WORD, cksum, PgPid, pgNsent, PgTime(pgNow).sec, PgTime(pgNow).usec>>

\* send_v4(); the peer answers a request with a good checksum, with its
\* identifier, number and data, unless the answer is lost.
send_v4 ==
  \E cksum \in {in_cksum(PgEcho(0))} :
    /\ pgWire' = PgEcho(cksum)
    /\ pgNsent' = (pgNsent + 1) % PG_WORD
    /\ pgNet' \in {pgNet} \union
         IF PgGood(PgEcho(cksum)) /\ Cardinality(pgNet) < PG_INFLIGHT
           THEN {pgNet \union {PgIcmp("echoreply", 16, PgPid, pgNow)}} ELSE {}

PgSigAlrmOnce == send_v4 /\ pgArmed' = FALSE

\* sig_alrm(): send, and start the alarm again.
PgSigAlrm == send_v4 /\ pgArmed' = TRUE

\* "send first packet"
PgStart ==
  /\ pgPc = "start" /\ pgPc' = "recv"
  /\ PgSigAlrm
  /\ UNCHANGED <<pgMsg, pgNow, pgRtt>>

\* The alarm comes, in recvmsg(), which is called again, or outside of it.
PgAlarm ==
  /\ pgArmed /\ pgPc # "end"
  /\ PgSigAlrm
  /\ UNCHANGED <<pgPc, pgMsg, pgNow, pgRtt>>

-----------------------------------------------------------------------------
(* Receiving                                                               *)

\* Messages that the raw socket is given as well: those of other programs, less
\* than a header, and an answer without room for a time.
PgForeign ==
  {PgIcmp("echoreply", 16, (PgPid + 1) % PG_WORD, 0), PgIcmp("other", 4, PgPid, 0),
   PgIcmp("echoreply", 8, PgPid, 0)}

\* recvmsg() returns a message, which stays under way when it is repeated; the
\* time is read after it.
PgRecv ==
  /\ pgPc = "recv" /\ pgPc' = "proc"
  /\ \E m \in pgNet \union PgForeign :
       /\ pgNet' \in {pgNet, pgNet \ {m}}
       /\ pgMsg' = [m |-> m, tval |-> pgNow]
  /\ UNCHANGED <<pgArmed, pgNsent, pgWire, pgNow, pgRtt>>

\* recvmsg() fails with another error than EINTR: readloop() returns.
PgRecvError ==
  /\ pgPc = "recv" /\ pgPc' = "end"
  /\ UNCHANGED <<pgArmed, pgNsent, pgWire, pgNet, pgMsg, pgNow, pgRtt>>

\* Difference of two times, with a borrow from the seconds.
tv_sub(out, in) ==
  LET borrow == out.usec < in.usec
  IN [sec |-> out.sec - in.sec - (IF borrow THEN 1 ELSE 0),
      usec |-> out.usec - in.usec + (IF borrow THEN PG_USEC ELSE 0)]

\* An ICMP message with a whole header that is an echo reply with our
\* identifier and long enough; a protocol other than ICMP is a type "other".
PgReported(m) ==
  /\ m.len >= 8
  /\ m.type = "echoreply" /\ m.id = PgPid
  /\ m.len >= 16

\* Reports such a reply; everything else is passed over.
proc_v4 ==
  /\ pgPc = "proc" /\ pgPc' = "recv"
  /\ pgMsg' = PgIdle
  /\ LET m == pgMsg.m
         rtt == tv_sub(PgTime(pgMsg.tval), m.sent)
     IN \/ PgReported(m) /\ pgRtt' = <<rtt.sec, rtt.usec, pgMsg.tval - m.at>>
        \/ ~PgReported(m) /\ UNCHANGED pgRtt
  /\ UNCHANGED <<pgArmed, pgNsent, pgWire, pgNet, pgNow>>

\* Time passes.
PgTick ==
  /\ pgPc # "end" /\ pgNow < PG_CLOCK /\ pgNow' = pgNow + 1
  /\ UNCHANGED <<pgPc, pgArmed, pgNsent, pgWire, pgNet, pgMsg, pgRtt>>

PgNext ==
  PgStart \/ PgAlarm \/ PgRecv \/ PgRecvError \/ proc_v4 \/ PgTick

PgSpec == PgInit /\ [][PgNext]_pgVars

\* The process starts, and an alarm it started comes.
PgFairness == WF_pgVars(PgStart) /\ WF_pgVars(PgAlarm)
-----------------------------------------------------------------------------
\* A request on the wire has the checksum that a receiver computes, whatever
\* carries its words produce, and a reported time is the one between sending
\* the very request that was answered and reading its answer, in seconds and
\* microseconds below one second, also for a repeated or late answer.  (The
\* peer returns the data of a request; of an answer cut to 16 to 23 bytes a
\* 64 bit host would read half a time.)
PgEchoRight ==
  /\ PgTypeOK
  /\ pgWire # <<>> => PgGood(pgWire)
  /\ pgRtt[1] * PG_USEC + pgRtt[2] = pgRtt[3] /\ pgRtt[2] \in 0 .. PG_USEC - 1

\* Requests are sent as long as readloop() runs, although each of them is sent
\* by the alarm that the one before it started: a new number keeps coming.
PgKeepsSending == <>(pgPc = "end") \/ []<><<pgNsent' # pgNsent>>_pgVars
=============================================================================
