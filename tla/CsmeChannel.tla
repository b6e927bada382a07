---------------------------- MODULE CsmeChannel ----------------------------
(***************************************************************************)
(* The transmit side of one CSME channel (netboot/csmencaps/af_csmencaps.c)*)
(* over an Ethernet link to an MSP: a stop-and-wait retransmission         *)
(* protocol.  tx_queue holds the messages that still need an ack; its head *)
(* is the one in flight; the channel timer retransmits it RETRIES times,   *)
(* then gives it up.                                                       *)
(*                                                                         *)
(* Contexts.  csme_tx() runs in process context and drops channel->lock    *)
(* (and so re-enables bottom halves) BEFORE it arms the timer, clones the  *)
(* skb and transmits: a sender therefore takes several steps, and between  *)
(* its skb_clone() and its dev_queue_xmit() the timer may retransmit the   *)
(* message, its ack may free it and newer messages may be sent.  The       *)
(* receive handler and the timer handler run in softirq context; on the    *)
(* uniprocessor targets of this driver a softirq runs to completion, so    *)
(* each is one step.                                                       *)
(*                                                                         *)
(* The link is FIFO and lossy.  A packet that csme_tx_msg_finish() fails   *)
(* to send (no device, device down, dev_queue_xmit error, no memory for a  *)
(* clone) and one that the wire loses are the same to the protocol, so the *)
(* loss is decided when the packet is handed to the device.                *)
(***************************************************************************)
EXTENDS Naturals, Sequences, FiniteSets

CONSTANTS
  Senders,        \* threads calling sendmsg() on the CSME socket
  Opcode,         \* CSME opcodes; each has its own sequence numbers
  RETRIES,        \* retransmissions of a message before it is given up (25)
  SEQ_MOD,        \* sequence numbers are taken modulo this (16: "& 0xF")
  AckSup,         \* values setsockopt(CSME_ACK_ENABLE) may give the target
  CloneOutcomes,  \* what skb_clone(skb, GFP_KERNEL) may do
  Resets,         \* may channel_reset() happen?
  MaxMsg,         \* bound: messages sent in a behaviour
  MaxGivenUp,     \* bound: messages given up in a behaviour
  NetCap          \* bound: packets in flight in one direction

ASSUME RetriesAssumption == RETRIES \in Nat
ASSUME SeqAssumption == SEQ_MOD \in Nat \ {0}
ASSUME OpcodeAssumption == Opcode # {}
ASSUME AckSupAssumption == AckSup \subseteq BOOLEAN
ASSUME CloneAssumption == CloneOutcomes \subseteq {"prompt", "sleeps", "fails"}
ASSUME ResetsAssumption == Resets \in BOOLEAN
ASSUME BoundsAssumption ==
  /\ MaxMsg \in Nat
  /\ MaxGivenUp \in Nat
  /\ NetCap \in Nat

VARIABLES
  \* struct csme_channel
  tx_queue,         \* skbs kept until they are acked or given up
  timer,            \* is the retransmission timer pending?
  retries,
  tx_seq_number,    \* next sequence number of each opcode
  \* struct csme_target
  ack_suppression,
  \* the threads inside csme_tx()
  pc,               \* "idle"; past the unlock: "arm", "clone", "xmit"
  skb,              \* the message the thread is working on
  oops,             \* why the kernel crashed, or "none"
  \* the link and the MSP
  netOut,           \* packets on their way to the MSP
  netIn,            \* acks on their way to the host
  mspLast,          \* sequence number the MSP saw last on each opcode
  delivered,        \* ids of the messages the MSP accepted, in order
  \* bookkeeping
  sent,             \* messages accepted by csme_tx(): the id of the last one
  acked,            \* ids removed from the queue by an ack
  givenUp,          \* ids removed from the queue after RETRIES retransmissions
  overtook          \* has a thread transmitted a message after a newer one?

chanVars == <<tx_queue, timer, retries, tx_seq_number>>
thrVars  == <<pc, skb>>
linkVars == <<netOut, netIn>>
mspVars  == <<mspLast, delivered>>
histVars == <<sent, acked, givenUp, overtook>>
vars == <<chanVars, ack_suppression, thrVars, oops, linkVars, mspVars, histVars>>
-----------------------------------------------------------------------------
Seqs == 0 .. SEQ_MOD - 1

\* memset(last_rx_seq_number, 0xff): no 4-bit sequence number equals it.
NoSeq == SEQ_MOD

Packet == [id : Nat, op : Opcode, seq : Seqs, sup : BOOLEAN]
Ack    == [op : Opcode, seq : Seqs]

\* The value of the skb pointer of a thread that is not inside csme_tx().
NullSkb == [id |-> 0, op |-> CHOOSE o \in Opcode : TRUE, seq |-> 0, sup |-> FALSE]

\* The queue owns its skbs: one that has left it has been freed.
Queued(m) == \E i \in 1 .. Len(tx_queue) : tx_queue[i] = m

\* No thread is between the unlock in csme_tx() and the end of the call.
Quiet == \A s \in Senders : pc[s] = "idle"

\* Nothing is said of what a kernel does after it has crashed.
Running == oops = "none"

\* A message newer than m is on the link or has already reached the MSP.
Overtaken(m) ==
  \/ \E i \in 1 .. Len(netOut) : netOut[i].id > m.id
  \/ \E k \in 1 .. Len(delivered) : delivered[k] > m.id

\* csme_tx_msg_finish(): hand the packet to the device, which may lose it.
csme_tx_msg_finish(m) ==
  \/ netOut' = netOut
  \/ /\ Len(netOut) < NetCap
     /\ netOut' = Append(netOut, m)

Init ==
  /\ tx_queue = <<>>
  /\ timer = FALSE
  /\ retries = 0
  /\ tx_seq_number = [o \in Opcode |-> 0]
  /\ ack_suppression \in AckSup
  /\ pc = [s \in Senders |-> "idle"]
  /\ skb = [s \in Senders |-> NullSkb]
  /\ oops = "none"
  /\ netOut = <<>>
  /\ netIn = <<>>
  /\ mspLast = [o \in Opcode |-> NoSeq]
  /\ delivered = <<>>
  /\ sent = 0
  /\ acked = {}
  /\ givenUp = {}
  /\ overtook = FALSE
-----------------------------------------------------------------------------
(***************************************************************************)
(* csme_tx(), process context.                                             *)
(***************************************************************************)

\* tx_seq_number[opcode]++, then "& 0xF".
NextSeq(n) == (n + 1) % SEQ_MOD

CanSendAlways == TRUE

\* "If the queue is empty then we can send."
CanSend == tx_queue = <<>>

\* The part under channel->lock: number the message and queue it behind the
\* one in flight, or take it on to be transmitted.
csme_tx(s, o) ==
  LET m == [id |-> sent + 1, op |-> o, seq |-> tx_seq_number[o], sup |-> ack_suppression]
  IN /\ Running
     /\ pc[s] = "idle"
     /\ sent < MaxMsg
     /\ sent' = sent + 1
     /\ tx_seq_number' = [tx_seq_number EXCEPT ![o] = NextSeq(@)]
     /\ \/ /\ ~CanSend
           /\ tx_queue' = Append(tx_queue, m)
           /\ UNCHANGED thrVars
        \/ /\ CanSend /\ ~m.sup
           /\ tx_queue' = Append(tx_queue, m)
           /\ pc' = [pc EXCEPT ![s] = "arm"]
           /\ skb' = [skb EXCEPT ![s] = m]
        \/ /\ CanSend /\ m.sup
           /\ pc' = [pc EXCEPT ![s] = "xmit"]
           /\ skb' = [skb EXCEPT ![s] = m]
           /\ UNCHANGED tx_queue
     /\ UNCHANGED <<timer, retries, ack_suppression, oops, linkVars, mspVars, acked, givenUp, overtook>>

\* Clone the queued skb, which the queue may have freed by now; the clone is
\* what the thread goes on with.
CloneSkb(s) ==
  \/ /\ Queued(skb[s])
     /\ pc' = [pc EXCEPT ![s] = "xmit"]
     /\ UNCHANGED <<skb, oops>>
  \/ /\ ~Queued(skb[s])
     /\ oops' = "freed_skb"
     /\ UNCHANGED thrVars

\* After the unlock: start the timer (add_timer() of a pending timer is a
\* BUG()), then clone the skb.  A clone that fails leaves nskb NULL, and
\* csme_tx_msg_finish() dereferences it.
csme_tx_arm(s) ==
  /\ Running
  /\ pc[s] = "arm"
  /\ \/ /\ timer
        /\ oops' = "timer_pending"
        /\ UNCHANGED <<timer, retries, thrVars>>
     \/ /\ ~timer
        /\ timer' = TRUE
        /\ retries' = RETRIES
        /\ \/ /\ "prompt" \in CloneOutcomes
              /\ CloneSkb(s)
           \/ /\ "sleeps" \in CloneOutcomes
              /\ pc' = [pc EXCEPT ![s] = "clone"]
              /\ UNCHANGED <<skb, oops>>
           \/ /\ "fails" \in CloneOutcomes
              /\ oops' = "null_skb"
              /\ UNCHANGED thrVars
  /\ UNCHANGED <<tx_queue, tx_seq_number, ack_suppression, linkVars, mspVars, histVars>>

\* skb_clone() slept for memory, and now returns.
csme_tx_clone(s) ==
  /\ Running
  /\ pc[s] = "clone"
  /\ CloneSkb(s)
  /\ UNCHANGED <<chanVars, ack_suppression, linkVars, mspVars, histVars>>

\* The thread hands its clone to the device, or the message itself when it
\* needs no ack and was never queued.  Since the unlock newer messages may
\* have gone before it.
csme_tx_xmit(s) ==
  /\ Running
  /\ pc[s] = "xmit"
  /\ csme_tx_msg_finish(skb[s])
  /\ pc' = [pc EXCEPT ![s] = "idle"]
  /\ skb' = [skb EXCEPT ![s] = NullSkb]
  /\ overtook' = (overtook \/ Overtaken(skb[s]))
  /\ UNCHANGED <<chanVars, ack_suppression, oops, netIn, mspVars, sent, acked, givenUp>>
-----------------------------------------------------------------------------
(***************************************************************************)
(* Softirq context.                                                        *)
(***************************************************************************)

NextWithoutTimer(q) ==
  /\ tx_queue' = q
  /\ timer' = FALSE
  /\ IF q = <<>> THEN UNCHANGED netOut ELSE csme_tx_msg_finish(Head(q))
  /\ UNCHANGED retries

\* The head of the queue has just been removed and the timer is not pending:
\* go on with what is left, the queue q.
csme_tx_msg_next(q) ==
  \/ /\ q = <<>>
     /\ tx_queue' = q
     /\ timer' = FALSE
     /\ UNCHANGED <<retries, netOut>>
  \/ /\ q # <<>> /\ ~Head(q).sup
     /\ tx_queue' = q
     /\ timer' = TRUE
     /\ retries' = RETRIES
     /\ csme_tx_msg_finish(Head(q))
  \/ /\ q # <<>> /\ Head(q).sup
     /\ tx_queue' = Tail(q)
     /\ timer' = FALSE
     /\ csme_tx_msg_finish(Head(q))
     /\ UNCHANGED retries

AnswersAnySeq(a) == tx_queue # <<>> /\ Head(tx_queue).op = a.op

\* Does the ack a answer the message in flight?
Answers(a) ==
  /\ tx_queue # <<>>
  /\ Head(tx_queue).op = a.op
  /\ Head(tx_queue).seq = a.seq

RxAckWithoutUnlink ==
  /\ Running
  /\ netIn # <<>>
  /\ netIn' = Tail(netIn)
  /\ \/ /\ ~Answers(Head(netIn))
        /\ UNCHANGED <<tx_queue, timer, retries, netOut, acked>>
     \/ /\ Answers(Head(netIn))
        /\ acked' = acked \cup {Head(tx_queue).id}
        /\ csme_tx_msg_next(tx_queue)
  /\ UNCHANGED <<tx_seq_number, ack_suppression, thrVars, oops, mspVars, sent, givenUp, overtook>>

csme_rx_ack ==
  /\ Running
  /\ netIn # <<>>
  /\ netIn' = Tail(netIn)
  /\ \/ /\ ~Answers(Head(netIn))
        /\ UNCHANGED <<tx_queue, timer, retries, netOut, acked>>
     \/ /\ Answers(Head(netIn))
        /\ acked' = acked \cup {Head(tx_queue).id}
        /\ csme_tx_msg_next(Tail(tx_queue))
  /\ UNCHANGED <<tx_seq_number, ack_suppression, thrVars, oops, mspVars, sent, givenUp, overtook>>

TimeoutWithoutRestart ==
  /\ Running
  /\ timer
  /\ tx_queue # <<>>
  /\ timer' = FALSE
  /\ csme_tx_msg_finish(Head(tx_queue))
  /\ UNCHANGED <<tx_queue, retries, tx_seq_number, ack_suppression, thrVars, oops, netIn, mspVars, histVars>>

handle_channel_timeout ==
  /\ Running
  /\ timer
  /\ \/ /\ tx_queue = <<>>
        /\ timer' = FALSE
        /\ UNCHANGED <<tx_queue, retries, netOut, givenUp>>
     \/ /\ tx_queue # <<>> /\ retries = 0
        /\ Cardinality(givenUp) < MaxGivenUp
        /\ givenUp' = givenUp \cup {Head(tx_queue).id}
        /\ csme_tx_msg_next(Tail(tx_queue))
     \/ /\ tx_queue # <<>> /\ retries > 0
        /\ retries' = retries - 1
        /\ csme_tx_msg_finish(Head(tx_queue))
        /\ UNCHANGED <<tx_queue, timer, givenUp>>
  /\ UNCHANGED <<tx_seq_number, ack_suppression, thrVars, oops, netIn, mspVars, sent, acked, overtook>>
-----------------------------------------------------------------------------
(***************************************************************************)
(* Socket options, and resets of the channel.                              *)
(***************************************************************************)

\* setsockopt(CSME_ACK_ENABLE) on the target.
csme_ack_enable ==
  /\ Running
  /\ ack_suppression' \in AckSup
  /\ ack_suppression' # ack_suppression
  /\ UNCHANGED <<chanVars, thrVars, oops, linkVars, mspVars, histVars>>

\* setsockopt(CSME_TARGET_RESET), a second MAAS_ASSIGN, or the response of
\* the MSP to CREATE_CHANNEL.
channel_reset ==
  /\ Running
  /\ Resets
  /\ timer' = FALSE
  /\ tx_queue' = <<>>
  /\ tx_seq_number' = [o \in Opcode |-> 0]
  /\ UNCHANGED <<retries, ack_suppression, thrVars, oops, linkVars, mspVars, histVars>>
-----------------------------------------------------------------------------
\* The MSP takes a packet from the link.  It numbers and acks messages the
\* way csme_rx_msg() does: a repeated sequence number is acked and ignored.
MspReceive ==
  /\ Running
  /\ netOut # <<>>
  /\ netOut' = Tail(netOut)
  /\ LET m == Head(netOut)
     IN /\ \/ /\ m.seq = mspLast[m.op]
              /\ UNCHANGED mspVars
           \/ /\ m.seq # mspLast[m.op]
              /\ mspLast' = [mspLast EXCEPT ![m.op] = m.seq]
              /\ delivered' = Append(delivered, m.id)
        /\ \/ netIn' = netIn
           \/ /\ ~m.sup
              /\ Len(netIn) < NetCap
              /\ netIn' = Append(netIn, [op |-> m.op, seq |-> m.seq])
  /\ UNCHANGED <<chanVars, ack_suppression, thrVars, oops, histVars>>
-----------------------------------------------------------------------------
Process ==
  \E s \in Senders :
    \/ \E o \in Opcode : csme_tx(s, o)
    \/ csme_tx_arm(s)
    \/ csme_tx_clone(s)
    \/ csme_tx_xmit(s)

Softirq == csme_rx_ack \/ handle_channel_timeout

Option == csme_ack_enable \/ channel_reset

Next == Process \/ Softirq \/ Option \/ MspReceive

Spec == Init /\ [][Next]_vars

\* The timer wheel runs the handler of an expired timer, and a thread inside
\* sendmsg() is scheduled again.  The link and the MSP owe nothing.
Fairness ==
  /\ WF_vars(handle_channel_timeout)
  /\ \A s \in Senders :
       WF_vars(csme_tx_arm(s) \/ csme_tx_clone(s) \/ csme_tx_xmit(s))

FairSpec == Spec /\ Fairness
-----------------------------------------------------------------------------
\* The variables keep their types: sequence numbers stay 4 bits wide
\* (tx_seq_number &= 0xF) and retries never leaves 0 .. RETRIES.
TypeOK ==
  /\ tx_queue \in Seq(Packet)
  /\ timer \in BOOLEAN
  /\ retries \in 0 .. RETRIES
  /\ tx_seq_number \in [Opcode -> Seqs]
  /\ ack_suppression \in AckSup
  /\ pc \in [Senders -> {"idle", "arm", "clone", "xmit"}]
  /\ skb \in [Senders -> Packet]
  /\ oops \in {"none", "timer_pending", "freed_skb", "null_skb"}
  /\ netOut \in Seq(Packet)
  /\ netIn \in Seq(Ack)
  /\ mspLast \in [Opcode -> Seqs \cup {NoSeq}]
  /\ delivered \in Seq(Nat)
  /\ sent \in Nat
  /\ acked \in SUBSET Nat
  /\ givenUp \in SUBSET Nat
  /\ overtook \in BOOLEAN

\* A channel with messages to send is never forgotten: when no thread is
\* inside csme_tx() and the queue is not empty, the timer that will retransmit
\* its head is pending (csme_tx_msg_next: "process the next command in the
\* queue", "start timer if required").
QueueServed == (Quiet /\ tx_queue # <<>>) => timer

\* The skb a thread is about to clone is still in the queue, that is, not
\* freed (csme_tx: "keep a copy for future retransmissions").
CopyKept == \A s \in Senders : pc[s] \in {"arm", "clone"} => Queued(skb[s])

\* The MSP gets the messages in the order in which csme_tx() numbered them,
\* and none twice, whatever is lost, retransmitted, given up or reset, as
\* long as no thread has handed a message to the device after a newer one.
\* That is the only way to break the order: csme_tx() transmits after it has
\* dropped channel->lock, so two threads may pass each other there, and the
\* timer may send and the ack free a message whose first clone is still held.
InOrder ==
  ~overtook => \A i, j \in 1 .. Len(delivered) : i < j => delivered[i] < delivered[j]

\* csme_rx_ack() only drops from the queue what the MSP has really accepted:
\* no stale ack is taken for the ack of a later message.
AckedWasDelivered == \A i \in acked : \E k \in 1 .. Len(delivered) : delivered[k] = i

\* No thread and no handler crashes the kernel: no add_timer() on a pending
\* timer, no use of an skb the queue has freed.
NoOops == Running

\* Every message leaves the queue, acked or given up, even when the link
\* loses everything.
Drains == tx_queue # <<>> ~> tx_queue = <<>>

\* The channel implements the acknowledged in-order pipe.
Pipe == INSTANCE CsmePipe
PipeSpec == Pipe!Spec
=============================================================================
