------------------------------- MODULE Tftp -------------------------------
(***************************************************************************)
(* The TFTP client: tftp_put() and tftp_get() of tcpip/udp/tftp.c.         *)
(*                                                                         *)
(* Both are stop-and-wait loops around recvmsg(), broken by SIGALRM: the   *)
(* handler siglongjmp()s back to the sigsetjmp() behind the last sendmsg() *)
(* and the packet is sent again, RTT_MAXNREXMT times.  The alarm is armed  *)
(* until alarm(0), which comes AFTER the received packet has been used.    *)
(* Whatever the client did between recvmsg() and alarm(0) stands when the  *)
(* alarm jumps back: the local variables live in memory (the program has   *)
(* no build file, so it is built without optimisation).                    *)
(*                                                                         *)
(* A file is the blocks 1 .. blocks, all of them full but the last.  The   *)
(* block stands for its data; of its length only what the client compares  *)
(* is kept: "full" is 512 bytes, "edge" 508 to 511, "short" 1 to 507 and   *)
(* "empty" none.  The local file is what each write() brought to it: the   *)
(* block, or Partial.                                                      *)
(*                                                                         *)
(* The network loses and duplicates packets and, when reorder holds,       *)
(* delivers them in any order.  Without reordering block numbers may wrap  *)
(* round; with it a file is shorter than that, as a packet does not live   *)
(* for 65536 blocks.  The server is external and does what RFC 1350 asks.  *)
(* The round-trip estimator only decides how long an alarm takes, and an   *)
(* alarm may come at any time here.                                        *)
(***************************************************************************)
EXTENDS Naturals, FiniteSets, Sequences, SequencesExt

CONSTANTS
  Modulus,         \* block numbers are uint16_t: 2^16
  Radix,           \* of two bytes: 2^8
  RTT_MAXNREXMT,   \* retransmissions before the client gives up (3)
  Modes,           \* subset of {"put", "get"}
  AlarmPoints,     \* where SIGALRM may find the client
  MaxBlocks,       \* bound: blocks of a file on a network that keeps the order
  MaxPartial,      \* bound: calls of write() that fail or fall short
  NetCap           \* bound: packets in flight in one direction

ASSUME ModulusAssumption == Modulus \in Nat /\ Modulus > 2
ASSUME RadixAssumption == Radix \in Nat /\ Radix > 1 /\ Modulus = Radix * Radix
ASSUME RetryAssumption == RTT_MAXNREXMT \in Nat
ASSUME ModesAssumption == Modes \subseteq {"put", "get"}
ASSUME AlarmAssumption == AlarmPoints \subseteq {"wait", "written", "got"}
ASSUME TftpBounds == MaxBlocks \in Nat \ {0} /\ NetCap \in Nat /\ MaxPartial \in Nat

VARIABLES
  mode, blocks, tail, reorder, little,   \* the transfer, and whether the host is
                                         \* little-endian: fixed in a behaviour
  pc,        \* where the client is
  num,       \* block number it sends (put) or waits for (get)
  sendnum,   \* sendhdr.num
  nrexmt,    \* rttinfo.rtt_nrexmt
  cur,       \* put: block in sendline; get: blocks counted so far
  rlen,      \* get: length of the block just received
  out,       \* get: the local file
  srvFile,   \* put: the server's file
  srvCur,    \* get: the block the server is sending
  srvUp,     \* the server takes part in the transfer
  toSrv, toCli

fixedVars == <<mode, blocks, tail, reorder, little>>
cliVars   == <<pc, num, sendnum, nrexmt, cur, rlen, out>>
srvVars   == <<srvFile, srvCur, srvUp>>
vars == <<fixedVars, cliVars, srvVars, toSrv, toCli>>
-----------------------------------------------------------------------------
Lens  == {"full", "edge", "short", "empty"}
Ended == {"ok", "error", "gave_up", "crashed"}

Wire(i) == i % Modulus
LenOf(i) == IF i < blocks THEN "full" ELSE tail
Whole == [i \in 1 .. blocks |-> i]
Partial == 0

Packet == [op : {"data", "ack", "err"}, num : 0 .. Modulus - 1, blk : Nat, len : Lens]
Data(n, i) == [op |-> "data", num |-> n, blk |-> i, len |-> LenOf(i)]
Ack(n)     == [op |-> "ack", num |-> n, blk |-> 0, len |-> "empty"]
Error(n)   == [op |-> "err", num |-> n, blk |-> 0, len |-> "empty"]

\* sendto() and sendmsg(): the network takes the packet, or loses it.
Put(net, p) == {net} \union (IF Len(net) < NetCap THEN {Append(net, p)} ELSE {})

\* What is left of net after its i-th packet is delivered: without the packet,
\* or with it, to be delivered once more.
Rest(net, i) == {net, RemoveAt(net, i)}
Deliverable(net) == IF reorder THEN 1 .. Len(net) ELSE 1 .. (IF net = <<>> THEN 0 ELSE 1)

Init ==
  /\ mode \in Modes
  /\ reorder \in BOOLEAN /\ little \in BOOLEAN
  /\ blocks \in 1 .. (IF reorder THEN Modulus - 2 ELSE MaxBlocks)
  /\ tail \in {"edge", "short", "empty"}
  /\ pc = "start" /\ num = 0 /\ sendnum = 0 /\ nrexmt = 0
  /\ cur = 0 /\ rlen = "full" /\ out = <<>>
  /\ srvFile = <<>> /\ srvCur = 0 /\ srvUp = FALSE
  /\ toSrv = <<>> /\ toCli = <<>>
-----------------------------------------------------------------------------
(***************************************************************************)
(* Both directions.                                                        *)
(***************************************************************************)

\* num++ on a uint16_t.
NextNum(n) == (n + 1) % Modulus

\* The local file cannot be opened.
OpenFails ==
  /\ pc = "start"
  /\ pc' = "error"
  /\ UNCHANGED <<fixedVars, num, sendnum, nrexmt, cur, rlen, out, srvVars, toSrv, toCli>>

\* The request is sent once and no alarm guards its answer.  The server gets
\* it, and acks block 0 or sends block 1, or refuses, or the request is lost.
Request ==
  /\ pc = "start"
  /\ pc' = "first"
  /\ num' = IF mode = "put" THEN 0 ELSE 1
  /\ \/ /\ srvUp' = TRUE
        /\ srvCur' = IF mode = "put" THEN 0 ELSE 1
        /\ toCli' \in Put(toCli, IF mode = "put" THEN Ack(0) ELSE Data(1, 1))
     \/ /\ \E e \in {0, 1} : toCli' \in Put(toCli, Error(e))
        /\ UNCHANGED <<srvUp, srvCur>>
     \/ UNCHANGED <<srvUp, srvCur, toCli>>
  /\ UNCHANGED <<fixedVars, sendnum, nrexmt, cur, rlen, out, srvFile, toSrv>>

RetryNotCounted(n) == n

\* rtt_timeout(): ++rtt_nrexmt.
Retry(n) == n + 1

\* SIGALRM: back to sigsetjmp(), and to sendagain unless it is time to give up.
sig_alrm ==
  /\ pc \in AlarmPoints
  /\ nrexmt' = Retry(nrexmt)
  /\ \/ /\ nrexmt' > RTT_MAXNREXMT
        /\ pc' = "gave_up"
        /\ UNCHANGED toSrv
     \/ /\ nrexmt' <= RTT_MAXNREXMT
        /\ pc' = "wait"
        /\ toSrv' \in Put(toSrv, IF mode = "put" THEN Data(sendnum, cur) ELSE Ack(sendnum))
  /\ UNCHANGED <<fixedVars, num, sendnum, cur, rlen, out, srvVars, toCli>>
-----------------------------------------------------------------------------
(***************************************************************************)
(* tftp_put().                                                             *)
(***************************************************************************)

\* The head of the loop: number, read and send the next block.
SendBlock ==
  /\ pc' = "wait"
  /\ num' = NextNum(num)
  /\ sendnum' = num'
  /\ cur' = cur + 1
  /\ nrexmt' = 0
  /\ toSrv' \in Put(toSrv, Data(num', cur'))

\* "server replies block 0": any packet will do, an error too.
PutFirst ==
  /\ mode = "put" /\ pc = "first"
  /\ \E i \in Deliverable(toCli) : toCli' \in Rest(toCli, i)
  /\ SendBlock
  /\ UNCHANGED <<fixedVars, rlen, out, srvVars>>

PutAcceptsError(p) == p.num = num

\* The condition that ends the receive loop.
PutAccepts(p) == p.num = num /\ p.op # "err"

PutRecv ==
  /\ mode = "put" /\ pc = "wait"
  /\ \E i \in Deliverable(toCli) :
       /\ toCli' \in Rest(toCli, i)
       /\ pc' = IF PutAccepts(toCli[i]) THEN "got" ELSE "wait"
  /\ UNCHANGED <<fixedVars, num, sendnum, nrexmt, cur, rlen, out, srvVars, toSrv>>

\* alarm(0), the progress bar, and on to the next block or the end.  The
\* progress bar divides by the size of the file.
PutNext ==
  /\ mode = "put" /\ pc = "got"
  /\ \/ /\ blocks = 1 /\ tail = "empty"
        /\ pc' = "crashed"
        /\ UNCHANGED <<num, sendnum, cur, nrexmt, toSrv>>
     \/ /\ ~(blocks = 1 /\ tail = "empty")
        /\ LenOf(cur) # "full"
        /\ pc' = "ok"
        /\ UNCHANGED <<num, sendnum, cur, nrexmt, toSrv>>
     \/ LenOf(cur) = "full" /\ SendBlock
  /\ UNCHANGED <<fixedVars, rlen, out, srvVars, toCli>>
-----------------------------------------------------------------------------
(***************************************************************************)
(* tftp_get().                                                             *)
(***************************************************************************)

\* "sendhdr.num = ntohs(recvhdr.num)": the number is left in host order, so
\* that a little-endian host sends its two bytes swapped.
AckNum(n) == IF little THEN (n % Radix) * Radix + n \div Radix ELSE n

\* The head of the loop: ack the block that was received last.
SendAck(n) ==
  /\ pc' = "wait"
  /\ sendnum' = AckNum(n)
  /\ nrexmt' = 0
  /\ toSrv' \in Put(toSrv, Ack(sendnum'))

\* write(): it may fail or fall short, and what it returns is not looked at.
Written(b) ==
  {Append(out, b)} \union
    (IF Cardinality({i \in DOMAIN out : out[i] = Partial}) < MaxPartial
     THEN {Append(out, Partial)} ELSE {})

\* The block that is expected.
GetAccepts(p) == p.num = num /\ p.op = "data"

\* The first packet is block 1, or tftp_get() fails.
GetFirst ==
  /\ mode = "get" /\ pc = "first"
  /\ \E i \in Deliverable(toCli) :
       /\ toCli' \in Rest(toCli, i)
       /\ \/ /\ GetAccepts(toCli[i])
             /\ out' \in Written(toCli[i].blk)
             /\ num' = NextNum(num)
             /\ cur' = cur + 1
             /\ SendAck(toCli[i].num)
          \/ /\ ~GetAccepts(toCli[i])
             /\ pc' = "error"
             /\ UNCHANGED <<out, num, cur, sendnum, nrexmt, toSrv>>
  /\ UNCHANGED <<fixedVars, rlen, srvVars>>

\* write() the block.
GetRecv ==
  /\ mode = "get" /\ pc = "wait"
  /\ \E i \in Deliverable(toCli) :
       /\ toCli' \in Rest(toCli, i)
       /\ \/ /\ GetAccepts(toCli[i])
             /\ out' \in Written(toCli[i].blk)
             /\ rlen' = toCli[i].len
             /\ pc' = "written"
          \/ /\ ~GetAccepts(toCli[i])
             /\ UNCHANGED <<out, rlen, pc>>
  /\ UNCHANGED <<fixedVars, num, sendnum, nrexmt, cur, srvVars, toSrv>>

\* num++ and count += n-4.
GetCount ==
  /\ mode = "get" /\ pc = "written"
  /\ num' = NextNum(num)
  /\ cur' = cur + 1
  /\ pc' = "got"
  /\ UNCHANGED <<fixedVars, sendnum, nrexmt, rlen, out, srvVars, toSrv, toCli>>

\* n < 512, where n counts the 4 bytes of the header: data of up to 507 bytes.
IsLast(l) == l \in {"short", "empty"}

\* alarm(0), and back to the head of the loop unless this was the last block.
GetNext ==
  /\ mode = "get" /\ pc = "got"
  /\ \/ IsLast(rlen) /\ pc' = "ok" /\ UNCHANGED <<sendnum, nrexmt, toSrv>>
     \/ ~IsLast(rlen) /\ SendAck((num + Modulus - 1) % Modulus)
  /\ UNCHANGED <<fixedVars, num, cur, rlen, out, srvVars, toCli>>
-----------------------------------------------------------------------------
(***************************************************************************)
(* The server.                                                             *)
(***************************************************************************)

\* A block of the file being put: the next one is stored and acked, the one
\* before it acked again, and anything else ignored.
ServerPut(p) ==
  \/ /\ p.num = Wire(Len(srvFile) + 1)
     /\ Len(srvFile) < blocks
     /\ srvFile' = Append(srvFile, p.blk)
     /\ toCli' \in Put(toCli, Ack(p.num))
  \/ /\ srvFile # <<>> /\ p.num = Wire(Len(srvFile))
     /\ toCli' \in Put(toCli, Ack(p.num))
     /\ UNCHANGED srvFile
  \/ /\ p.num # Wire(Len(srvFile) + 1) \/ Len(srvFile) = blocks
     /\ srvFile = <<>> \/ p.num # Wire(Len(srvFile))
     /\ UNCHANGED <<srvFile, toCli>>

\* An ack of the file being got: that of the block being sent moves the
\* server on to the next one, any other is ignored.
ServerGet(p) ==
  \/ /\ p.num = Wire(srvCur) /\ srvCur < blocks
     /\ srvCur' = srvCur + 1
     /\ toCli' \in Put(toCli, Data(Wire(srvCur'), srvCur'))
  \/ /\ p.num # Wire(srvCur) \/ srvCur = blocks
     /\ UNCHANGED <<srvCur, toCli>>

ServerReceive ==
  /\ srvUp
  /\ \E i \in Deliverable(toSrv) :
       /\ toSrv' \in Rest(toSrv, i)
       /\ \/ mode = "put" /\ ServerPut(toSrv[i]) /\ UNCHANGED srvCur
          \/ mode = "get" /\ ServerGet(toSrv[i]) /\ UNCHANGED srvFile
  /\ UNCHANGED <<fixedVars, cliVars, srvUp>>

\* The server's own timer sends the block again.
ServerResend ==
  /\ srvUp /\ mode = "get"
  /\ Len(toCli) < NetCap
  /\ toCli' = Append(toCli, Data(Wire(srvCur), srvCur))
  /\ UNCHANGED <<fixedVars, cliVars, srvVars, toSrv>>

\* The server gives the transfer up and says so; error codes are 0 to 7.
ServerError ==
  /\ srvUp
  /\ srvUp' = FALSE
  /\ \E e \in 0 .. 7 : e < Modulus /\ toCli' \in Put(toCli, Error(e))
  /\ UNCHANGED <<fixedVars, cliVars, srvFile, srvCur, toSrv>>
-----------------------------------------------------------------------------
Client ==
  \/ OpenFails \/ Request \/ sig_alrm
  \/ PutFirst \/ PutRecv \/ PutNext
  \/ GetFirst \/ GetRecv \/ GetCount \/ GetNext

Server == ServerReceive \/ ServerResend \/ ServerError

Next == Client \/ Server

Spec == Init /\ [][Next]_vars

\* The kernel delivers an alarm that is due and schedules the client; neither
\* the network nor the server owes anything.
Fairness == WF_vars(sig_alrm) /\ WF_vars(PutNext) /\ WF_vars(GetCount) /\ WF_vars(GetNext)

FairSpec == Spec /\ Fairness
-----------------------------------------------------------------------------
\* Types and ranges: block numbers stay 16 bits wide and no packet is sent
\* more than RTT_MAXNREXMT times again.
TypeOK ==
  /\ mode \in Modes /\ blocks \in Nat \ {0} /\ tail \in Lens
  /\ reorder \in BOOLEAN /\ little \in BOOLEAN
  /\ pc \in {"start", "first", "wait", "written", "got"} \union Ended
  /\ num \in 0 .. Modulus - 1
  /\ sendnum \in 0 .. Modulus - 1
  /\ nrexmt \in 0 .. RTT_MAXNREXMT + 1
  /\ cur \in Nat
  /\ rlen \in Lens
  /\ out \in Seq(Nat)
  /\ srvFile \in Seq(Nat)
  /\ srvCur \in Nat
  /\ srvUp \in BOOLEAN
  /\ toSrv \in Seq(Packet)
  /\ toCli \in Seq(Packet)

\* tftp_put() never leaves a block behind: when it has moved on to a block,
\* the server has stored every block before it, in order, whatever was lost,
\* repeated or acked twice, and it never stores a block twice ...
PutOneAhead ==
  mode = "put" =>
    /\ IsPrefix(srvFile, Whole)
    /\ pc \notin {"start", "first", "error"} => Len(srvFile) \in {cur - 1, cur}

\* ... and tftp_get() writes the blocks in order and none twice ("must wait
\* until the block number received is the one expected").
GotPrefix ==
  /\ Len(out) <= blocks
  /\ \A i \in DOMAIN out : out[i] \in {i, Partial}

\* At any time what has been stored is a beginning of the file.  tftp_put()
\* returns 0 only when the server has stored the whole of it, and tftp_get()
\* only when it has written every block; what a write() did not take, because
\* the disk is full, is missing all the same (its result is not looked at,
\* tftp.c:363 and :402).  On a little-endian host tftp_get() never returns 0:
\* its ack of block 1 says block 256 (:376), and no second block comes.
TransferComplete ==
  /\ TypeOK /\ PutOneAhead /\ GotPrefix
  /\ pc = "ok" => IF mode = "put" THEN srvFile = Whole ELSE Len(out) = blocks /\ ~little

\* Once the first answer is there the transfer ends, whatever the network and
\* the server do.
Ends == (pc = "wait") ~> (pc \in Ended)
=============================================================================
