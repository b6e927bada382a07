------------------------- MODULE CsmeChannelProofs -------------------------
(***************************************************************************)
(* Theorems about CsmeChannel, for every number of threads, opcodes,       *)
(* retries, sequence numbers and messages:                                 *)
(*   - Spec => []TypeOK;                                                   *)
(*   - when acks are never suppressed, Spec => []QueueServed;              *)
(*   - Spec => []InOrder, and a single thread is never overtaken;          *)
(*   - on a steady channel that gives up fewer messages than it takes for  *)
(*     the sequence numbers to come round, no stale ack is taken, and the  *)
(*     channel implements CsmePipe.                                        *)
(***************************************************************************)
EXTENDS CsmeChannel, FiniteSetTheorems, TLAPS

\* Acks are always required: csme_ackopt.ack_suppression stays 0.
AlwaysAcked == TRUE \notin AckSup

\* One thread: its csme_tx() calls cannot overtake each other.
OneSender == \A s, t \in Senders : s = t

-----------------------------------------------------------------------------
(***************************************************************************)
(* Sequences.                                                              *)
(***************************************************************************)

\* What Append does, element by element.
LEMMA AppendElements ==
  ASSUME NEW S, NEW q \in Seq(S), NEW e \in S
  PROVE  /\ Append(q, e) \in Seq(S)
         /\ Len(Append(q, e)) = Len(q) + 1
         /\ \A i \in 1 .. Len(q) : Append(q, e)[i] = q[i]
         /\ Append(q, e)[Len(q) + 1] = e
  OBVIOUS

\* What Head and Tail do, element by element.
LEMMA TailElements ==
  ASSUME NEW S, NEW q \in Seq(S), q # <<>>
  PROVE  /\ Tail(q) \in Seq(S)
         /\ Len(q) \in Nat \ {0}
         /\ Len(Tail(q)) = Len(q) - 1
         /\ \A i \in 1 .. Len(q) - 1 : Tail(q)[i] = q[i + 1]
         /\ Head(q) = q[1]
         /\ Head(q) \in S
  OBVIOUS
-----------------------------------------------------------------------------
(***************************************************************************)
(* Types.                                                                  *)
(***************************************************************************)

\* The skb pointer of an idle thread has the type of a packet.
LEMMA NullSkbType == NullSkb \in Packet
  BY SeqAssumption, OpcodeAssumption DEF NullSkb, Packet, Seqs

\* Zero is a sequence number and RETRIES a value of the retry counter.
LEMMA InitialCounters ==
  /\ 0 \in Seqs
  /\ 0 \in 0 .. RETRIES
  /\ RETRIES \in 0 .. RETRIES
  BY SeqAssumption, RetriesAssumption DEF Seqs

\* Handing a packet to the device keeps the type of the link.
LEMMA FinishType ==
  ASSUME NEW m \in Packet, netOut \in Seq(Packet), csme_tx_msg_finish(m)
  PROVE  netOut' \in Seq(Packet)
  BY DEF csme_tx_msg_finish

\* Moving on to the next message keeps the types of what it changes.
LEMMA NextMsgType ==
  ASSUME NEW q \in Seq(Packet), TypeOK, csme_tx_msg_next(q)
  PROVE  /\ tx_queue' \in Seq(Packet)
         /\ timer' \in BOOLEAN
         /\ retries' \in 0 .. RETRIES
         /\ netOut' \in Seq(Packet)
<1>1. CASE q = <<>>
  BY <1>1 DEF csme_tx_msg_next, TypeOK
<1>2. CASE q # <<>>
  <2>1. Head(q) \in Packet /\ Tail(q) \in Seq(Packet)
    BY <1>2, TailElements
  <2>2. csme_tx_msg_finish(Head(q))
    BY <1>2 DEF csme_tx_msg_next
  <2>3. netOut' \in Seq(Packet)
    BY <2>1, <2>2, FinishType DEF TypeOK
  <2>4. retries' \in 0 .. RETRIES
    BY <1>2, RetriesAssumption DEF csme_tx_msg_next, TypeOK
  <2>5. QED
    BY <1>2, <2>1, <2>3, <2>4 DEF csme_tx_msg_next
<1>3. QED
  BY <1>1, <1>2

\* Cloning keeps the types of what it changes.
LEMMA CloneType ==
  ASSUME NEW s \in Senders, TypeOK, CloneSkb(s)
  PROVE  /\ pc' \in [Senders -> {"idle", "arm", "clone", "xmit"}]
         /\ skb' \in [Senders -> Packet]
         /\ oops' \in {"none", "timer_pending", "freed_skb", "null_skb"}
<1>1. CASE Queued(skb[s])
  BY <1>1 DEF CloneSkb, TypeOK
<1>2. CASE ~Queued(skb[s])
  BY <1>2 DEF CloneSkb, TypeOK, thrVars
<1>3. QED
  BY <1>1, <1>2

\* Every step keeps the types.
LEMMA TypeStep == TypeOK /\ [Next]_vars => TypeOK'
<1> SUFFICES ASSUME TypeOK, [Next]_vars PROVE TypeOK'
  OBVIOUS
<1> USE DEF chanVars, thrVars, linkVars, mspVars, histVars
<1>1. ASSUME NEW s \in Senders, NEW o \in Opcode, csme_tx(s, o) PROVE TypeOK'
  <2> DEFINE m == [id |-> sent + 1, op |-> o, seq |-> tx_seq_number[o], sup |-> ack_suppression]
  <2>1. m \in Packet
    BY AckSupAssumption DEF TypeOK, Packet
  <2>2. tx_seq_number' \in [Opcode -> Seqs]
    BY <1>1, SeqAssumption DEF csme_tx, CanSend, NextSeq, TypeOK, Seqs
  <2>3. tx_queue' \in Seq(Packet)
    <3>1. tx_queue' = tx_queue \/ tx_queue' = Append(tx_queue, m)
      BY <1>1, Zenon DEF csme_tx, CanSend, NextSeq
    <3> HIDE DEF m
    <3>2. tx_queue \in Seq(Packet)
      BY DEF TypeOK
    <3>3. QED
      BY <2>1, <3>1, <3>2
  <2>4. /\ pc' \in [Senders -> {"idle", "arm", "clone", "xmit"}]
        /\ skb' \in [Senders -> Packet]
    BY <1>1, <2>1 DEF csme_tx, CanSend, NextSeq, TypeOK
  <2>5. QED
    BY <1>1, <2>2, <2>3, <2>4 DEF csme_tx, CanSend, NextSeq, TypeOK
<1>2. ASSUME NEW s \in Senders, csme_tx_arm(s) PROVE TypeOK'
  <2>1. /\ pc' \in [Senders -> {"idle", "arm", "clone", "xmit"}]
        /\ skb' \in [Senders -> Packet]
        /\ oops' \in {"none", "timer_pending", "freed_skb", "null_skb"}
    <3>1. CASE timer
      BY <1>2, <3>1 DEF csme_tx_arm, TypeOK
    <3>2. CASE ~timer /\ CloneSkb(s)
      BY <3>2, CloneType
    <3>3. CASE ~timer /\ ~CloneSkb(s)
      BY <1>2, <3>3 DEF csme_tx_arm, TypeOK
    <3>4. QED
      BY <3>1, <3>2, <3>3
  <2>2. timer' \in BOOLEAN /\ retries' \in 0 .. RETRIES
    BY <1>2, InitialCounters, Zenon DEF csme_tx_arm, TypeOK
  <2>3. QED
    BY <1>2, <2>1, <2>2 DEF csme_tx_arm, TypeOK
<1>3. ASSUME NEW s \in Senders, csme_tx_clone(s) PROVE TypeOK'
  <2>1. /\ pc' \in [Senders -> {"idle", "arm", "clone", "xmit"}]
        /\ skb' \in [Senders -> Packet]
        /\ oops' \in {"none", "timer_pending", "freed_skb", "null_skb"}
    BY <1>3, CloneType DEF csme_tx_clone
  <2>2. QED
    BY <1>3, <2>1 DEF csme_tx_clone, TypeOK
<1>4. ASSUME NEW s \in Senders, csme_tx_xmit(s) PROVE TypeOK'
  <2>1. skb[s] \in Packet
    BY DEF TypeOK
  <2>2. netOut' \in Seq(Packet)
    BY <1>4, <2>1, FinishType DEF csme_tx_xmit, TypeOK
  <2>3. pc' \in [Senders -> {"idle", "arm", "clone", "xmit"}] /\ skb' \in [Senders -> Packet]
    BY <1>4, NullSkbType DEF csme_tx_xmit, TypeOK
  <2>4. overtook' \in BOOLEAN
    BY <1>4, Zenon DEF csme_tx_xmit
  <2>5. QED
    BY <1>4, <2>2, <2>3, <2>4 DEF csme_tx_xmit, TypeOK
<1>5. ASSUME csme_rx_ack PROVE TypeOK'
  <2>1. netIn' \in Seq(Ack)
    BY <1>5, TailElements DEF csme_rx_ack, TypeOK
  <2>2. CASE ~Answers(Head(netIn))
    BY <1>5, <2>1, <2>2 DEF csme_rx_ack, TypeOK
  <2>3. CASE Answers(Head(netIn))
    <3>1. Tail(tx_queue) \in Seq(Packet) /\ Head(tx_queue) \in Packet
      BY <2>3, TailElements DEF Answers, TypeOK
    <3>2. csme_tx_msg_next(Tail(tx_queue))
      BY <1>5, <2>3 DEF csme_rx_ack
    <3>3. acked' \in SUBSET Nat
      <4>1. acked' = acked \cup {Head(tx_queue).id}
        BY <1>5, <2>3 DEF csme_rx_ack
      <4>2. Head(tx_queue).id \in Nat
        BY <3>1 DEF Packet
      <4>3. acked \in SUBSET Nat
        BY DEF TypeOK
      <4>4. QED
        BY <4>1, <4>2, <4>3
    <3>4. QED
      BY <1>5, <2>1, <3>1, <3>2, <3>3, NextMsgType DEF csme_rx_ack, TypeOK
  <2>4. QED
    BY <2>2, <2>3
<1>6. ASSUME handle_channel_timeout PROVE TypeOK'
  <2>1. CASE tx_queue = <<>>
    BY <1>6, <2>1 DEF handle_channel_timeout, TypeOK
  <2>2. CASE tx_queue # <<>> /\ retries = 0
    <3>1. Tail(tx_queue) \in Seq(Packet) /\ Head(tx_queue) \in Packet
      BY <2>2, TailElements DEF TypeOK
    <3>2. csme_tx_msg_next(Tail(tx_queue))
      BY <1>6, <2>2 DEF handle_channel_timeout
    <3>3. givenUp' \in SUBSET Nat
      <4>1. givenUp' = givenUp \cup {Head(tx_queue).id}
        BY <1>6, <2>2 DEF handle_channel_timeout
      <4>2. Head(tx_queue).id \in Nat
        BY <3>1 DEF Packet
      <4>3. givenUp \in SUBSET Nat
        BY DEF TypeOK
      <4>4. QED
        BY <4>1, <4>2, <4>3
    <3>4. QED
      BY <1>6, <2>2, <3>1, <3>2, <3>3, NextMsgType DEF handle_channel_timeout, TypeOK
  <2>3. CASE tx_queue # <<>> /\ retries # 0
    <3>1. /\ retries' = retries - 1
          /\ csme_tx_msg_finish(Head(tx_queue))
          /\ UNCHANGED <<tx_queue, timer, givenUp>>
      BY <1>6, <2>3, Zenon DEF handle_channel_timeout
    <3>2. Head(tx_queue) \in Packet
      BY <2>3, TailElements DEF TypeOK
    <3>3. netOut' \in Seq(Packet)
      BY <3>1, <3>2, FinishType DEF TypeOK
    <3>4. retries' \in 0 .. RETRIES
      BY <2>3, <3>1, RetriesAssumption DEF TypeOK
    <3>5. QED
      BY <1>6, <3>1, <3>3, <3>4, Zenon DEF handle_channel_timeout, TypeOK
  <2>4. QED
    BY <2>1, <2>2, <2>3
<1>7. ASSUME csme_ack_enable PROVE TypeOK'
  BY <1>7 DEF csme_ack_enable, TypeOK
<1>8. ASSUME channel_reset PROVE TypeOK'
  <2>1. /\ tx_queue' \in Seq(Packet)
    BY <1>8 DEF channel_reset
  <2>2. /\ timer' \in BOOLEAN
        /\ tx_seq_number' \in [Opcode -> Seqs]
    BY <1>8, InitialCounters, Zenon DEF channel_reset
  <2>3. QED
    BY <1>8, <2>1, <2>2, Zenon DEF channel_reset, TypeOK
<1>9. ASSUME MspReceive PROVE TypeOK'
  <2> DEFINE m == Head(netOut)
  <2>1. m \in Packet /\ netOut' \in Seq(Packet)
    BY <1>9, TailElements DEF MspReceive, TypeOK
  <2>2. netIn' \in Seq(Ack)
    <3>1. [op |-> m.op, seq |-> m.seq] \in Ack
      BY <2>1 DEF Packet, Ack
    <3>2. netIn' = netIn \/ netIn' = Append(netIn, [op |-> m.op, seq |-> m.seq])
      BY <1>9, Zenon DEF MspReceive
    <3> HIDE DEF m
    <3>3. netIn \in Seq(Ack)
      BY DEF TypeOK
    <3>4. QED
      BY <3>1, <3>2, <3>3
  <2>3. mspLast' \in [Opcode -> Seqs \cup {NoSeq}] /\ delivered' \in Seq(Nat)
    <3>1. \/ UNCHANGED mspVars
          \/ /\ mspLast' = [mspLast EXCEPT ![m.op] = m.seq]
             /\ delivered' = Append(delivered, m.id)
      BY <1>9, Zenon DEF MspReceive
    <3>2. m.op \in Opcode /\ m.seq \in Seqs /\ m.id \in Nat
      BY <2>1 DEF Packet
    <3> HIDE DEF m
    <3>3. mspLast \in [Opcode -> Seqs \cup {NoSeq}] /\ delivered \in Seq(Nat)
      BY DEF TypeOK
    <3>4. CASE UNCHANGED mspVars
      BY <3>3, <3>4
    <3>5. CASE /\ mspLast' = [mspLast EXCEPT ![m.op] = m.seq]
               /\ delivered' = Append(delivered, m.id)
      <4>1. mspLast' \in [Opcode -> Seqs \cup {NoSeq}]
        BY <3>2, <3>3, <3>5, Zenon
      <4>2. QED
        BY <3>2, <3>3, <3>5, <4>1
    <3>6. QED
      BY <3>1, <3>4, <3>5
  <2>4. QED
    BY <1>9, <2>1, <2>2, <2>3 DEF MspReceive, TypeOK
<1>10. CASE UNCHANGED vars
  BY <1>10 DEF vars, TypeOK
<1>11. QED
  BY <1>1, <1>2, <1>3, <1>4, <1>5, <1>6, <1>7, <1>8, <1>9, <1>10
     DEF Next, Process, Softirq, Option

\* The types hold at the start.
LEMMA TypeInit == Init => TypeOK
<1> SUFFICES ASSUME Init PROVE TypeOK
  OBVIOUS
<1>1. /\ tx_queue \in Seq(Packet)
      /\ netOut \in Seq(Packet)
      /\ netIn \in Seq(Ack)
      /\ delivered \in Seq(Nat)
      /\ sent \in Nat
  BY DEF Init
<1>2. QED
  BY <1>1, NullSkbType, InitialCounters, Zenon DEF Init, TypeOK

\* Type correctness: sequence numbers keep their 4 bits and the retry counter
\* never runs below zero, in every behaviour of the channel.
THEOREM TypeCorrect == Spec => []TypeOK
  BY TypeInit, TypeStep, PTL DEF Spec
-----------------------------------------------------------------------------
(***************************************************************************)
(* QueueServed.  It is not inductive: between the unlock in csme_tx() and  *)
(* add_timer() the queue is filled and the timer is not pending.  The      *)
(* inductive form says who is going to arm it, and that no queued message  *)
(* suppresses its ack, so that csme_tx_msg_next() always arms it.          *)
(***************************************************************************)
NoneSuppressed == \A i \in 1 .. Len(tx_queue) : ~tx_queue[i].sup

SomeoneServes == tx_queue # <<>> => (timer \/ \E s \in Senders : pc[s] = "arm")

ServedInv == NoneSuppressed /\ SomeoneServes

\* The rest of the queue after its head suppresses no ack either.
LEMMA TailNotSuppressed ==
  ASSUME TypeOK, NoneSuppressed, tx_queue # <<>>
  PROVE  /\ Tail(tx_queue) \in Seq(Packet)
         /\ \A i \in 1 .. Len(Tail(tx_queue)) : ~Tail(tx_queue)[i].sup
<1>1. tx_queue \in Seq(Packet)
  BY DEF TypeOK
<1>2. QED
  BY <1>1, TailElements DEF NoneSuppressed

\* csme_tx_msg_next() arms the timer whenever it leaves something queued.
LEMMA NextServes ==
  ASSUME NEW q \in Seq(Packet),
         \A i \in 1 .. Len(q) : ~q[i].sup,
         csme_tx_msg_next(q)
  PROVE  ServedInv'
<1>1. q # <<>> => ~Head(q).sup
  BY TailElements
<1>2. tx_queue' = q
  BY <1>1 DEF csme_tx_msg_next
<1>3. q # <<>> => timer'
  BY <1>1 DEF csme_tx_msg_next
<1>4. QED
  BY <1>2, <1>3, Zenon DEF ServedInv, NoneSuppressed, SomeoneServes

\* Nothing is queued at the start.
LEMMA ServedInit == Init => ServedInv
  BY DEF Init, ServedInv, NoneSuppressed, SomeoneServes

\* When no thread is inside csme_tx(), it is the timer that serves the queue.
LEMMA ServedMeaning == ServedInv => QueueServed
  BY Zenon DEF ServedInv, SomeoneServes, QueueServed, Quiet

\* Every step keeps someone responsible for the queue.
LEMMA ServedStep ==
  ASSUME AlwaysAcked, TypeOK, ServedInv, [Next]_vars
  PROVE  ServedInv'
<1> USE DEF chanVars, thrVars, linkVars, mspVars, histVars
<1>1. ASSUME NEW s \in Senders, NEW o \in Opcode, csme_tx(s, o) PROVE ServedInv'
  <2> DEFINE m == [id |-> sent + 1, op |-> o, seq |-> tx_seq_number[o], sup |-> ack_suppression]
  <2>1. ~m.sup /\ m \in Packet
    <3>1. ack_suppression = FALSE
      BY AckSupAssumption, Zenon DEF TypeOK, AlwaysAcked
    <3>2. m \in Packet
      BY AckSupAssumption DEF TypeOK, Packet
    <3>3. QED
      BY <3>1, <3>2
  <2>2. tx_queue' = Append(tx_queue, m)
    BY <1>1, <2>1, Zenon DEF csme_tx, CanSend, NextSeq
  <2>3. \/ tx_queue # <<>> /\ UNCHANGED <<pc, timer>>
        \/ pc' = [pc EXCEPT ![s] = "arm"]
    BY <1>1, <2>1, Zenon DEF csme_tx, CanSend, NextSeq
  <2>4. NoneSuppressed'
    <3> HIDE DEF m
    <3>1. tx_queue \in Seq(Packet)
      BY DEF TypeOK
    <3>2. QED
      BY <2>1, <2>2, <3>1, AppendElements DEF NoneSuppressed, ServedInv
  <2>5. SomeoneServes'
    <3>1. CASE tx_queue # <<>> /\ UNCHANGED <<pc, timer>>
      BY <3>1, Zenon DEF ServedInv, SomeoneServes
    <3>2. CASE pc' = [pc EXCEPT ![s] = "arm"]
      <4>1. pc'[s] = "arm"
        BY <3>2 DEF TypeOK
      <4>2. QED
        BY <4>1, Zenon DEF SomeoneServes
    <3>3. QED
      BY <2>3, <3>1, <3>2
  <2>6. QED
    BY <2>4, <2>5 DEF ServedInv
<1>2. ASSUME NEW s \in Senders, csme_tx_arm(s) PROVE ServedInv'
  <2>1. tx_queue' = tx_queue
    BY <1>2, Zenon DEF csme_tx_arm
  <2>2. timer'
    BY <1>2 DEF csme_tx_arm
  <2>3. QED
    BY <2>1, <2>2, Zenon DEF ServedInv, NoneSuppressed, SomeoneServes
<1>3. ASSUME NEW s \in Senders, csme_tx_clone(s) \/ csme_tx_xmit(s) PROVE ServedInv'
  <2>1. UNCHANGED <<tx_queue, timer>> /\ pc[s] # "arm"
    BY <1>3 DEF csme_tx_clone, csme_tx_xmit
  <2>2. \A t \in Senders : pc[t] = "arm" => pc'[t] = "arm"
    BY <1>3 DEF csme_tx_clone, csme_tx_xmit, CloneSkb, TypeOK
  <2>3. QED
    BY <2>1, <2>2, Zenon DEF ServedInv, NoneSuppressed, SomeoneServes
<1>4. ASSUME csme_rx_ack PROVE ServedInv'
  <2>1. CASE Answers(Head(netIn))
    BY <1>4, <2>1, TailNotSuppressed, NextServes DEF csme_rx_ack, Answers, ServedInv
  <2>2. CASE ~Answers(Head(netIn))
    <3>1. UNCHANGED <<tx_queue, timer, pc>>
      BY <1>4, <2>2, Zenon DEF csme_rx_ack
    <3>2. QED
      BY <3>1, Zenon DEF ServedInv, NoneSuppressed, SomeoneServes
  <2>3. QED
    BY <2>1, <2>2
<1>5. ASSUME handle_channel_timeout PROVE ServedInv'
  <2>1. CASE tx_queue # <<>> /\ retries = 0
    <3>1. csme_tx_msg_next(Tail(tx_queue))
      BY <1>5, <2>1 DEF handle_channel_timeout
    <3>2. QED
      BY <2>1, <3>1, TailNotSuppressed, NextServes DEF ServedInv
  <2>2. CASE tx_queue = <<>>
    <3>1. tx_queue' = <<>>
      BY <1>5, <2>2, Zenon DEF handle_channel_timeout
    <3>2. QED
      BY <3>1 DEF ServedInv, NoneSuppressed, SomeoneServes
  <2>3. CASE tx_queue # <<>> /\ retries # 0
    <3>1. UNCHANGED <<tx_queue, timer, pc>>
      BY <1>5, <2>3, Zenon DEF handle_channel_timeout
    <3>2. QED
      BY <3>1, Zenon DEF ServedInv, NoneSuppressed, SomeoneServes
  <2>4. QED
    BY <2>1, <2>2, <2>3
<1>6. ASSUME channel_reset PROVE ServedInv'
  <2>1. tx_queue' = <<>>
    BY <1>6 DEF channel_reset
  <2>2. QED
    BY <2>1 DEF ServedInv, NoneSuppressed, SomeoneServes
<1>7. ASSUME csme_ack_enable \/ MspReceive \/ UNCHANGED vars PROVE ServedInv'
  <2>1. UNCHANGED <<tx_queue, timer, pc>>
    BY <1>7, Zenon DEF csme_ack_enable, MspReceive, vars
  <2>2. QED
    BY <2>1, Zenon DEF ServedInv, NoneSuppressed, SomeoneServes
<1>8. QED
  BY <1>1, <1>2, <1>3, <1>4, <1>5, <1>6, <1>7 DEF Next, Process, Softirq, Option

\* When acks are never suppressed, no channel with queued messages is ever
\* left without a pending timer, whatever is lost, reset, acked late or given
\* up, and whichever threads are inside csme_tx().
THEOREM QueueAlwaysServed == ASSUME AlwaysAcked PROVE Spec => []QueueServed
<1>1. TypeOK /\ ServedInv /\ [Next]_vars => ServedInv'
  BY ServedStep
<1>2. QED
  BY <1>1, ServedInit, ServedMeaning, TypeCorrect, PTL DEF Spec
-----------------------------------------------------------------------------
(***************************************************************************)
(* Order.  The link is FIFO and the channel transmits only the head of its *)
(* queue, so what is delivered, what is in flight and what is queued are   *)
(* ordered by id, in this sequence.  Retransmissions make the order weak:  *)
(* two packets with the same id are the same packet, and the MSP tells the *)
(* second one by its sequence number.                                      *)
(***************************************************************************)
Newest == Pipe!Newest

\* p was handed to the device no later than m.
Before(p, m) == p.id <= m.id /\ (p.id = m.id => p = m)

\* If the MSP has accepted m, m is the newest message it accepted and it will
\* recognise a repetition of it.
Known(m) == Newest <= m.id /\ (Newest = m.id => mspLast[m.op] = m.seq)

Numbered ==
  /\ \A i \in 1 .. Len(tx_queue) : tx_queue[i].id \in 1 .. sent
  /\ \A i \in 1 .. Len(netOut) : netOut[i].id \in 1 .. sent
  /\ Newest \in 0 .. sent

QueueSorted ==
  \A i, j \in 1 .. Len(tx_queue) : i < j => tx_queue[i].id < tx_queue[j].id

LinkSorted ==
  \A i, j \in 1 .. Len(netOut) : i < j => Before(netOut[i], netOut[j])

LinkBeforeQueue ==
  \A i \in 1 .. Len(netOut), j \in 1 .. Len(tx_queue) : Before(netOut[i], tx_queue[j])

AllKnown ==
  /\ \A i \in 1 .. Len(netOut) : Known(netOut[i])
  /\ \A j \in 1 .. Len(tx_queue) : Known(tx_queue[j])

\* What a thread past the unlock is working on: a message no newer than any
\* in the queue, of which every packet is a copy and which no other thread
\* works on.
ThreadInOrder(s) ==
  /\ skb[s].id \in 1 .. sent
  /\ \A j \in 1 .. Len(tx_queue) : Before(skb[s], tx_queue[j])
  /\ \A i \in 1 .. Len(netOut) : netOut[i].id = skb[s].id => netOut[i] = skb[s]
  /\ Newest = skb[s].id => mspLast[skb[s].op] = skb[s].seq
  /\ \A t \in Senders : pc[t] # "idle" /\ skb[t].id = skb[s].id => t = s

ThreadsInOrder == \A s \in Senders : pc[s] # "idle" => ThreadInOrder(s)

DeliveredSorted == \A i, j \in 1 .. Len(delivered) : i < j => delivered[i] < delivered[j]

OrderInv ==
  /\ Numbered
  /\ QueueSorted
  /\ LinkSorted
  /\ LinkBeforeQueue
  /\ AllKnown
  /\ ThreadsInOrder
  /\ DeliveredSorted

\* The order lasts until a thread transmits a message after a newer one.
OrderKept == ~overtook => OrderInv

\* Ids are numbers.
LEMMA IdTypes ==
  ASSUME TypeOK
  PROVE  /\ Len(tx_queue) \in Nat /\ Len(netOut) \in Nat
         /\ \A i \in 1 .. Len(tx_queue) : tx_queue[i] \in Packet /\ tx_queue[i].id \in Nat
         /\ \A i \in 1 .. Len(netOut) : netOut[i] \in Packet /\ netOut[i].id \in Nat
         /\ \A s \in Senders : skb[s] \in Packet /\ skb[s].id \in Nat
         /\ Newest \in Nat
<1>1. /\ tx_queue \in Seq(Packet)
      /\ netOut \in Seq(Packet)
      /\ skb \in [Senders -> Packet]
      /\ delivered \in Seq(Nat)
  BY DEF TypeOK
<1>2. Newest \in Nat
  BY <1>1 DEF Newest, Pipe!Newest
<1>3. \A p \in Packet : p.id \in Nat
  BY DEF Packet
<1>4. QED
  BY <1>1, <1>2, <1>3

\* Handing m to the device keeps the link sorted when nothing in flight is
\* newer than m, and puts nothing but m on the link.
LEMMA LinkAppend ==
  ASSUME TypeOK, LinkSorted, NEW m \in Packet, csme_tx_msg_finish(m),
         \A i \in 1 .. Len(netOut) : Before(netOut[i], m)
  PROVE  /\ LinkSorted'
         /\ \A i \in 1 .. Len(netOut') :
              \/ \E k \in 1 .. Len(netOut) : netOut'[i] = netOut[k]
              \/ netOut'[i] = m
<1>1. netOut \in Seq(Packet) /\ Len(netOut) \in Nat
  BY DEF TypeOK
<1>2. CASE netOut' = netOut
  BY <1>2 DEF LinkSorted, Before
<1>3. CASE netOut' = Append(netOut, m)
  <2>1. /\ Len(netOut') = Len(netOut) + 1
        /\ \A i \in 1 .. Len(netOut) : netOut'[i] = netOut[i]
        /\ netOut'[Len(netOut) + 1] = m
    BY <1>1, <1>3, AppendElements
  <2>2. ASSUME NEW i \in 1 .. Len(netOut'), NEW j \in 1 .. Len(netOut'), i < j
        PROVE  Before(netOut'[i], netOut'[j])
    <3>1. i \in 1 .. Len(netOut) /\ netOut'[i] = netOut[i]
      BY <1>1, <2>1, <2>2
    <3>2. CASE j \in 1 .. Len(netOut)
      BY <2>1, <2>2, <3>1, <3>2 DEF LinkSorted
    <3>3. CASE j = Len(netOut) + 1
      BY <2>1, <3>1, <3>3
    <3>4. QED
      BY <1>1, <2>1, <3>2, <3>3
  <2>3. LinkSorted'
    BY <2>2 DEF LinkSorted, Before
  <2>4. \A i \in 1 .. Len(netOut') : i \in 1 .. Len(netOut) \/ i = Len(netOut) + 1
    BY <1>1, <2>1
  <2>5. QED
    BY <2>1, <2>3, <2>4
<1>4. QED
  BY <1>2, <1>3 DEF csme_tx_msg_finish

\* What the other end of the link has seen does not change in a step of the
\* host.
LEMMA KnownUnchanged ==
  ASSUME UNCHANGED mspVars
  PROVE  Newest' = Newest /\ \A m : Known(m)' <=> Known(m)
<1>1. Newest' = Newest
  BY DEF mspVars, Newest, Pipe!Newest
<1>2. QED
  BY <1>1 DEF mspVars, Known

\* A thread that keeps its message, or is idle afterwards.
ThreadStep(t) == pc'[t] # "idle" => pc[t] # "idle" /\ skb'[t] = skb[t]

\* A step that only removes messages from the queue.
LEMMA QueueShrinks ==
  ASSUME TypeOK, TypeOK', OrderInv,
         \A j \in 1 .. Len(tx_queue') : \E k \in 1 .. Len(tx_queue) : tx_queue'[j] = tx_queue[k],
         QueueSorted',
         UNCHANGED <<netOut, sent, mspVars>>,
         \A t \in Senders : ThreadStep(t)
  PROVE  OrderInv'
<1>1. Newest' = Newest /\ \A m : Known(m)' <=> Known(m)
  BY KnownUnchanged
<1>2. UNCHANGED <<netOut, sent, delivered>>
  BY DEF mspVars
<1>3. sent \in Nat
  BY DEF TypeOK
<1>4. Numbered'
  BY <1>1, <1>2 DEF OrderInv, Numbered
<1>5. LinkSorted' /\ DeliveredSorted'
  BY <1>2 DEF OrderInv, LinkSorted, DeliveredSorted, Before
<1>6. LinkBeforeQueue'
  BY <1>2 DEF OrderInv, LinkBeforeQueue, Before
<1>7. AllKnown'
  BY <1>1, <1>2 DEF OrderInv, AllKnown
<1>8. ThreadsInOrder'
  <2> SUFFICES ASSUME NEW s \in Senders, pc'[s] # "idle" PROVE ThreadInOrder(s)'
    BY DEF ThreadsInOrder
  <2>1. pc[s] # "idle" /\ skb'[s] = skb[s]
    BY DEF ThreadStep
  <2>2. ThreadInOrder(s)
    BY <2>1 DEF OrderInv, ThreadsInOrder
  <2>3. \A t \in Senders : pc'[t] # "idle" /\ skb'[t].id = skb'[s].id => t = s
    BY <2>1, <2>2 DEF ThreadInOrder, ThreadStep
  <2>4. \A j \in 1 .. Len(tx_queue') : Before(skb[s], tx_queue'[j])
    BY <2>2 DEF ThreadInOrder
  <2>5. mspLast' = mspLast
    BY DEF mspVars
  <2>6. QED
    BY <1>1, <1>2, <2>1, <2>2, <2>3, <2>4, <2>5 DEF ThreadInOrder, Before
<1>9. QED
  BY <1>4, <1>5, <1>6, <1>7, <1>8 DEF OrderInv

\* A step that transmits the message m of the queue, and removes from the
\* queue nothing that is newer than m.
LEMMA QueueTransmits ==
  ASSUME TypeOK, TypeOK', OrderInv,
         NEW n \in 1 .. Len(tx_queue), csme_tx_msg_finish(tx_queue[n]),
         \A j \in 1 .. Len(tx_queue') :
            /\ \E k \in 1 .. Len(tx_queue) : tx_queue'[j] = tx_queue[k]
            /\ Before(tx_queue[n], tx_queue'[j]),
         QueueSorted',
         UNCHANGED <<sent, mspVars>>,
         \A t \in Senders : ThreadStep(t)
  PROVE  OrderInv'
<1> DEFINE m == tx_queue[n]
<1>1. Newest' = Newest /\ \A p : Known(p)' <=> Known(p)
  BY KnownUnchanged
<1>2. UNCHANGED <<sent, delivered>>
  BY DEF mspVars
<1>3. m \in Packet /\ sent \in Nat
  BY IdTypes DEF TypeOK
<1>4. /\ LinkSorted'
      /\ \A i \in 1 .. Len(netOut') :
           \/ \E k \in 1 .. Len(netOut) : netOut'[i] = netOut[k]
           \/ netOut'[i] = m
  <2>1. \A i \in 1 .. Len(netOut) : Before(netOut[i], m)
    BY DEF OrderInv, LinkBeforeQueue
  <2>2. LinkSorted
    BY DEF OrderInv
  <2> HIDE DEF m
  <2>3. csme_tx_msg_finish(m)
    BY DEF m
  <2>4. QED
    BY <1>3, <2>1, <2>2, <2>3, LinkAppend
<1>5. Numbered'
  <2>1. \A i \in 1 .. Len(netOut') : netOut'[i].id \in 1 .. sent
    BY <1>4 DEF OrderInv, Numbered
  <2>2. \A j \in 1 .. Len(tx_queue') : tx_queue'[j].id \in 1 .. sent
    BY DEF OrderInv, Numbered
  <2>3. QED
    BY <1>1, <1>2, <2>1, <2>2 DEF OrderInv, Numbered
<1>6. LinkBeforeQueue'
  <2> SUFFICES ASSUME NEW i \in 1 .. Len(netOut'), NEW j \in 1 .. Len(tx_queue')
               PROVE  Before(netOut'[i], tx_queue'[j])
    BY DEF LinkBeforeQueue, Before
  <2>1. PICK k \in 1 .. Len(tx_queue) : tx_queue'[j] = tx_queue[k]
    OBVIOUS
  <2>2. CASE \E l \in 1 .. Len(netOut) : netOut'[i] = netOut[l]
    BY <2>1, <2>2 DEF OrderInv, LinkBeforeQueue
  <2>3. CASE netOut'[i] = m
    BY <2>3
  <2>4. QED
    BY <1>4, <2>2, <2>3
<1>7. AllKnown'
  <2>1. \A i \in 1 .. Len(netOut') : Known(netOut'[i])
    BY <1>4 DEF OrderInv, AllKnown
  <2>2. \A j \in 1 .. Len(tx_queue') : Known(tx_queue'[j])
    BY DEF OrderInv, AllKnown
  <2>3. QED
    BY <1>1, <2>1, <2>2 DEF AllKnown
<1>8. ThreadsInOrder'
  <2> SUFFICES ASSUME NEW s \in Senders, pc'[s] # "idle" PROVE ThreadInOrder(s)'
    BY DEF ThreadsInOrder
  <2>1. pc[s] # "idle" /\ skb'[s] = skb[s]
    BY DEF ThreadStep
  <2>2. ThreadInOrder(s)
    BY <2>1 DEF OrderInv, ThreadsInOrder
  <2>3. \A t \in Senders : pc'[t] # "idle" /\ skb'[t].id = skb'[s].id => t = s
    BY <2>1, <2>2 DEF ThreadInOrder, ThreadStep
  <2>4. \A j \in 1 .. Len(tx_queue') : Before(skb[s], tx_queue'[j])
    BY <2>2 DEF ThreadInOrder
  <2>5. \A i \in 1 .. Len(netOut') : netOut'[i].id = skb[s].id => netOut'[i] = skb[s]
    <3>1. m.id = skb[s].id => m = skb[s]
      BY <2>2 DEF ThreadInOrder, Before
    <3>2. QED
      BY <1>4, <2>2, <3>1 DEF ThreadInOrder
  <2>6. mspLast' = mspLast
    BY DEF mspVars
  <2>7. QED
    BY <1>1, <1>2, <2>1, <2>2, <2>3, <2>4, <2>5, <2>6 DEF ThreadInOrder, Before
<1>9. DeliveredSorted'
  BY <1>2 DEF OrderInv, DeliveredSorted
<1>10. QED
  BY <1>4, <1>5, <1>6, <1>7, <1>8, <1>9 DEF OrderInv

\* csme_tx_msg_next(Tail(tx_queue)) keeps the order.
LEMMA NextMsgInOrder ==
  ASSUME TypeOK, TypeOK', OrderInv, tx_queue # <<>>,
         csme_tx_msg_next(Tail(tx_queue)),
         UNCHANGED <<sent, mspVars, pc, skb>>
  PROVE  OrderInv'
<1> DEFINE q == Tail(tx_queue)
<1>1. tx_queue \in Seq(Packet) /\ Len(tx_queue) \in Nat \ {0}
  BY DEF TypeOK
<1>2. /\ q \in Seq(Packet)
      /\ Len(q) = Len(tx_queue) - 1
      /\ \A i \in 1 .. Len(q) : i + 1 \in 1 .. Len(tx_queue) /\ q[i] = tx_queue[i + 1]
  BY <1>1, TailElements
<1>3. \A i, j \in 1 .. Len(q) : i < j => q[i].id < q[j].id
  <2> SUFFICES ASSUME NEW i \in 1 .. Len(q), NEW j \in 1 .. Len(q), i < j
               PROVE  q[i].id < q[j].id
    OBVIOUS
  <2>1. i + 1 \in 1 .. Len(tx_queue) /\ j + 1 \in 1 .. Len(tx_queue) /\ i + 1 < j + 1
    BY <1>1, <1>2
  <2>2. QED
    BY <1>2, <2>1 DEF OrderInv, QueueSorted
<1>4. \A t \in Senders : ThreadStep(t)
  BY DEF ThreadStep
<1>5. CASE q = <<>>
  <2>1. tx_queue' = <<>> /\ netOut' = netOut
    BY <1>5 DEF csme_tx_msg_next
  <2>2. QueueSorted'
    BY <2>1 DEF QueueSorted
  <2>3. \A j \in 1 .. Len(tx_queue') : \E k \in 1 .. Len(tx_queue) : tx_queue'[j] = tx_queue[k]
    BY <2>1
  <2>4. QED
    BY <1>4, <2>1, <2>2, <2>3, QueueShrinks
<1>6. CASE q # <<>>
  <2>1. /\ 2 \in 1 .. Len(tx_queue)
        /\ Head(q) = tx_queue[2]
        /\ 1 \in 1 .. Len(q) /\ q[1] = tx_queue[2]
    BY <1>1, <1>2, <1>6
  <2>2. csme_tx_msg_finish(tx_queue[2])
    BY <1>6, <2>1 DEF csme_tx_msg_next
  <2>3. tx_queue' = q \/ tx_queue' = Tail(q)
    BY <1>6, Zenon DEF csme_tx_msg_next
  <2>4. \A p \in Packet : p.id \in Nat
    BY DEF Packet
  <2>5. \A j \in 1 .. Len(q) : Before(tx_queue[2], q[j])
    <3> SUFFICES ASSUME NEW j \in 1 .. Len(q) PROVE Before(tx_queue[2], q[j])
      OBVIOUS
    <3>1. CASE j = 1
      BY <1>2, <2>1, <2>4, <3>1 DEF Before
    <3>2. CASE 1 < j
      <4>1. q[1].id < q[j].id
        BY <1>3, <2>1, <3>2
      <4>2. q[1].id \in Nat /\ q[j].id \in Nat
        BY <1>2, <2>1, <2>4
      <4>3. QED
        BY <2>1, <4>1, <4>2 DEF Before
    <3>3. QED
      BY <1>2, <3>1, <3>2
  <2>6. CASE tx_queue' = q
    <3>1. QueueSorted'
      BY <1>3, <2>6 DEF QueueSorted
    <3>2. \A j \in 1 .. Len(tx_queue') :
            /\ \E k \in 1 .. Len(tx_queue) : tx_queue'[j] = tx_queue[k]
            /\ Before(tx_queue[2], tx_queue'[j])
      BY <1>2, <2>5, <2>6
    <3>3. QED
      BY <1>4, <2>1, <2>2, <3>1, <3>2, QueueTransmits
  <2>7. CASE tx_queue' = Tail(q)
    <3> HIDE DEF q
    <3>1. /\ Len(Tail(q)) = Len(q) - 1
          /\ \A i \in 1 .. Len(Tail(q)) : i + 1 \in 1 .. Len(q) /\ Tail(q)[i] = q[i + 1]
      BY <1>2, <1>6, TailElements
    <3>2. QueueSorted'
      <4> SUFFICES ASSUME NEW i \in 1 .. Len(Tail(q)), NEW j \in 1 .. Len(Tail(q)), i < j
                   PROVE  Tail(q)[i].id < Tail(q)[j].id
        BY <2>7 DEF QueueSorted
      <4>1. i + 1 \in 1 .. Len(q) /\ j + 1 \in 1 .. Len(q) /\ i + 1 < j + 1
        BY <3>1
      <4>2. q[i + 1].id < q[j + 1].id
        BY <1>3, <4>1
      <4>3. QED
        BY <3>1, <4>2
    <3>3. \A j \in 1 .. Len(tx_queue') :
            /\ \E k \in 1 .. Len(tx_queue) : tx_queue'[j] = tx_queue[k]
            /\ Before(tx_queue[2], tx_queue'[j])
      <4> SUFFICES ASSUME NEW j \in 1 .. Len(Tail(q))
                   PROVE  /\ \E k \in 1 .. Len(tx_queue) : Tail(q)[j] = tx_queue[k]
                          /\ Before(tx_queue[2], Tail(q)[j])
        BY <2>7
      <4>1. j + 1 \in 1 .. Len(q) /\ Tail(q)[j] = q[j + 1]
        BY <3>1
      <4>2. j + 1 + 1 \in 1 .. Len(tx_queue) /\ q[j + 1] = tx_queue[j + 1 + 1]
        BY <1>2, <4>1
      <4>3. Before(tx_queue[2], q[j + 1])
        BY <2>5, <4>1
      <4>4. QED
        BY <4>1, <4>2, <4>3
    <3>4. QED
      BY <1>4, <2>1, <2>2, <3>2, <3>3, QueueTransmits
  <2>8. QED
    BY <2>3, <2>6, <2>7
<1>7. QED
  BY <1>5, <1>6

\* csme_tx() under the lock: the new message is the newest of all.
LEMMA AcceptInOrder ==
  ASSUME TypeOK, TypeOK', OrderInv,
         NEW s \in Senders, NEW o \in Opcode, csme_tx(s, o)
  PROVE  OrderInv'
<1> DEFINE m == [id |-> sent + 1, op |-> o, seq |-> tx_seq_number[o], sup |-> ack_suppression]
<1>1. sent \in Nat /\ m.id = sent + 1 /\ m \in Packet
  BY AckSupAssumption DEF TypeOK, Packet
<1>2. /\ sent' = sent + 1
      /\ UNCHANGED <<netOut, mspVars, delivered>>
      /\ tx_queue' = tx_queue \/ tx_queue' = Append(tx_queue, m)
  BY Zenon DEF csme_tx, CanSend, NextSeq, linkVars, mspVars
<1>3. \A t \in Senders : t # s => pc'[t] = pc[t] /\ skb'[t] = skb[t]
  BY DEF csme_tx, CanSend, NextSeq, thrVars, TypeOK
<1>4. pc'[s] = "idle" \/ (skb'[s] = m /\ tx_queue = <<>>)
  BY DEF csme_tx, CanSend, NextSeq, thrVars, TypeOK
<1>5. Newest' = Newest /\ \A p : Known(p)' <=> Known(p)
  BY <1>2, KnownUnchanged
<1>6. tx_queue \in Seq(Packet) /\ Len(tx_queue) \in Nat
  BY DEF TypeOK
<1> HIDE DEF m
<1>7. \A j \in 1 .. Len(tx_queue') :
        \/ j \in 1 .. Len(tx_queue) /\ tx_queue'[j] = tx_queue[j]
        \/ j = Len(tx_queue) + 1 /\ tx_queue'[j] = m
  <2>1. CASE tx_queue' = tx_queue
    BY <2>1
  <2>2. CASE tx_queue' = Append(tx_queue, m)
    <3>1. /\ Len(tx_queue') = Len(tx_queue) + 1
          /\ \A j \in 1 .. Len(tx_queue) : tx_queue'[j] = tx_queue[j]
          /\ tx_queue'[Len(tx_queue) + 1] = m
      BY <1>1, <1>6, <2>2, AppendElements
    <3>2. \A j \in 1 .. Len(tx_queue') : j \in 1 .. Len(tx_queue) \/ j = Len(tx_queue) + 1
      BY <1>6, <3>1
    <3>3. QED
      BY <3>1, <3>2
  <2>3. QED
    BY <1>2, <2>1, <2>2
<1>8. /\ \A i \in 1 .. Len(tx_queue) : tx_queue[i].id \in 1 .. sent
      /\ \A i \in 1 .. Len(netOut) : netOut[i].id \in 1 .. sent
      /\ Newest \in 0 .. sent
      /\ \A t \in Senders : pc[t] # "idle" => skb[t].id \in 1 .. sent
  BY IdTypes DEF OrderInv, Numbered, ThreadsInOrder, ThreadInOrder
<1>9. Numbered'
  <2>1. \A j \in 1 .. Len(tx_queue') : tx_queue'[j].id \in 1 .. sent + 1
    BY <1>1, <1>7, <1>8
  <2>2. QED
    BY <1>1, <1>2, <1>5, <1>8, <2>1 DEF Numbered
<1>10. QueueSorted'
  <2> SUFFICES ASSUME NEW i \in 1 .. Len(tx_queue'), NEW j \in 1 .. Len(tx_queue'), i < j
               PROVE  tx_queue'[i].id < tx_queue'[j].id
    BY DEF QueueSorted
  <2>1. i \in 1 .. Len(tx_queue) /\ tx_queue'[i] = tx_queue[i]
    BY <1>6, <1>7
  <2>2. CASE j \in 1 .. Len(tx_queue) /\ tx_queue'[j] = tx_queue[j]
    BY <2>1, <2>2 DEF OrderInv, QueueSorted
  <2>3. CASE tx_queue'[j] = m
    BY <1>1, <1>8, <2>1, <2>3
  <2>4. QED
    BY <1>7, <2>2, <2>3
<1>11. LinkSorted' /\ DeliveredSorted'
  BY <1>2 DEF OrderInv, LinkSorted, DeliveredSorted, Before
<1>12. LinkBeforeQueue'
  <2> SUFFICES ASSUME NEW i \in 1 .. Len(netOut), NEW j \in 1 .. Len(tx_queue')
               PROVE  Before(netOut[i], tx_queue'[j])
    BY <1>2 DEF LinkBeforeQueue, Before
  <2>1. CASE j \in 1 .. Len(tx_queue) /\ tx_queue'[j] = tx_queue[j]
    BY <2>1 DEF OrderInv, LinkBeforeQueue
  <2>2. CASE tx_queue'[j] = m
    BY <1>1, <1>8, <2>2 DEF Before
  <2>3. QED
    BY <1>7, <2>1, <2>2
<1>13. AllKnown'
  <2>1. Known(m)
    BY <1>1, <1>8 DEF Known
  <2>2. \A j \in 1 .. Len(tx_queue') : Known(tx_queue'[j])
    BY <1>7, <2>1 DEF OrderInv, AllKnown
  <2>3. QED
    BY <1>2, <1>5, <2>2 DEF OrderInv, AllKnown
<1>14. ThreadsInOrder'
  <2> SUFFICES ASSUME NEW t \in Senders, pc'[t] # "idle" PROVE ThreadInOrder(t)'
    BY DEF ThreadsInOrder
  <2>1. CASE t # s
    <3>1. pc[t] # "idle" /\ skb'[t] = skb[t] /\ ThreadInOrder(t)
      BY <1>3, <2>1 DEF OrderInv, ThreadsInOrder
    <3>2. \A j \in 1 .. Len(tx_queue') : Before(skb[t], tx_queue'[j])
      <4> SUFFICES ASSUME NEW j \in 1 .. Len(tx_queue') PROVE Before(skb[t], tx_queue'[j])
        OBVIOUS
      <4>1. CASE j \in 1 .. Len(tx_queue) /\ tx_queue'[j] = tx_queue[j]
        BY <3>1, <4>1 DEF ThreadInOrder
      <4>2. CASE tx_queue'[j] = m
        BY <1>1, <1>8, <3>1, <4>2 DEF Before
      <4>3. QED
        BY <1>7, <4>1, <4>2
    <3>3. \A u \in Senders : pc'[u] # "idle" /\ skb'[u].id = skb'[t].id => u = t
      <4> SUFFICES ASSUME NEW u \in Senders, pc'[u] # "idle", skb'[u].id = skb'[t].id PROVE u = t
        OBVIOUS
      <4>1. CASE u # s
        BY <1>3, <3>1, <4>1 DEF ThreadInOrder
      <4>2. CASE u = s
        BY <1>1, <1>4, <1>8, <3>1, <4>2
      <4>3. QED
        BY <4>1, <4>2
    <3>4. skb[t].id \in 1 .. sent'
      BY <1>1, <1>2, <1>8, <3>1
    <3>5. mspLast' = mspLast
      BY <1>2 DEF mspVars
    <3>6. QED
      BY <1>2, <1>5, <3>1, <3>2, <3>3, <3>4, <3>5 DEF ThreadInOrder, Before
  <2>2. CASE t = s
    <3>1. skb'[s] = m /\ tx_queue = <<>>
      BY <1>4, <2>2
    <3>2. \A j \in 1 .. Len(tx_queue') : tx_queue'[j] = m
      BY <1>7, <3>1
    <3>3. m.id \in 1 .. sent' /\ Newest' # m.id /\ m.id <= m.id
      BY <1>1, <1>2, <1>5, <1>8
    <3>4. \A i \in 1 .. Len(netOut') : netOut'[i].id # m.id
      BY <1>1, <1>2, <1>8
    <3>5. \A u \in Senders : pc'[u] # "idle" /\ skb'[u].id = m.id => u = s
      <4> SUFFICES ASSUME NEW u \in Senders, pc'[u] # "idle", skb'[u].id = m.id, u # s PROVE FALSE
        OBVIOUS
      <4>1. pc[u] # "idle" /\ skb'[u] = skb[u]
        BY <1>3
      <4>2. QED
        BY <1>1, <1>8, <4>1
    <3>6. QED
      BY <2>2, <3>1, <3>2, <3>3, <3>4, <3>5 DEF ThreadInOrder, Before
  <2>3. QED
    BY <2>1, <2>2
<1>15. QED
  BY <1>9, <1>10, <1>11, <1>12, <1>13, <1>14 DEF OrderInv

\* csme_tx() transmits the message of its thread, and no newer one has gone
\* before it.
LEMMA XmitInOrder ==
  ASSUME TypeOK, TypeOK', OrderInv, NEW s \in Senders, csme_tx_xmit(s), ~overtook'
  PROVE  OrderInv'
<1> DEFINE m == skb[s]
<1>1. /\ pc[s] = "xmit"
      /\ csme_tx_msg_finish(m)
      /\ ~Overtaken(m)
      /\ UNCHANGED <<tx_queue, sent, mspVars, mspLast, delivered>>
  BY DEF csme_tx_xmit, chanVars, mspVars, histVars
<1>2. ThreadInOrder(s) /\ m.id \in 1 .. sent
  BY <1>1 DEF OrderInv, ThreadsInOrder, ThreadInOrder
<1>3. sent \in Nat /\ m \in Packet /\ Newest \in Nat /\ m.id \in Nat
      /\ \A i \in 1 .. Len(netOut) : netOut[i].id \in Nat
  BY IdTypes DEF TypeOK
<1>4. Newest' = Newest /\ \A p : Known(p)' <=> Known(p)
  BY <1>1, KnownUnchanged
<1>5. Newest <= m.id
  <2>1. CASE delivered = <<>>
    BY <1>3, <2>1 DEF Newest, Pipe!Newest
  <2>2. CASE delivered # <<>>
    <3>1. Len(delivered) \in 1 .. Len(delivered) /\ Newest = delivered[Len(delivered)]
      BY <2>2 DEF Newest, Pipe!Newest, TypeOK
    <3>2. ~(Newest > m.id)
      BY <1>1, <3>1 DEF Overtaken
    <3>3. QED
      BY <1>3, <3>2
  <2>3. QED
    BY <2>1, <2>2
<1>6. \A i \in 1 .. Len(netOut) : netOut[i].id <= m.id
  BY <1>1, <1>3 DEF Overtaken
<1>7. \A t \in Senders : pc'[t] # "idle" => t # s /\ pc[t] # "idle" /\ skb'[t] = skb[t]
  BY DEF csme_tx_xmit, TypeOK
<1> HIDE DEF m
<1>8. /\ LinkSorted'
      /\ \A i \in 1 .. Len(netOut') :
           \/ \E k \in 1 .. Len(netOut) : netOut'[i] = netOut[k]
           \/ netOut'[i] = m
  <2>1. \A i \in 1 .. Len(netOut) : Before(netOut[i], m)
    BY <1>2, <1>6 DEF Before, ThreadInOrder, m
  <2>2. QED
    BY <1>1, <1>3, <2>1, LinkAppend DEF OrderInv
<1>9. Numbered'
  <2>1. \A i \in 1 .. Len(netOut') : netOut'[i].id \in 1 .. sent
    BY <1>2, <1>8 DEF OrderInv, Numbered
  <2>2. QED
    BY <1>1, <1>4, <2>1 DEF OrderInv, Numbered
<1>10. QueueSorted' /\ DeliveredSorted'
  BY <1>1 DEF OrderInv, QueueSorted, DeliveredSorted
<1>11. LinkBeforeQueue'
  <2>1. \A j \in 1 .. Len(tx_queue) : Before(m, tx_queue[j])
    BY <1>2 DEF ThreadInOrder, m
  <2>2. QED
    BY <1>1, <1>8, <2>1 DEF OrderInv, LinkBeforeQueue, Before
<1>12. AllKnown'
  <2>1. Known(m)
    BY <1>2, <1>5 DEF Known, ThreadInOrder, m
  <2>2. \A i \in 1 .. Len(netOut') : Known(netOut'[i])
    BY <1>8, <2>1 DEF OrderInv, AllKnown
  <2>3. QED
    BY <1>1, <1>4, <2>2 DEF OrderInv, AllKnown
<1>13. ThreadsInOrder'
  <2> SUFFICES ASSUME NEW t \in Senders, pc'[t] # "idle" PROVE ThreadInOrder(t)'
    BY DEF ThreadsInOrder
  <2>1. t # s /\ pc[t] # "idle" /\ skb'[t] = skb[t] /\ ThreadInOrder(t)
    BY <1>7 DEF OrderInv, ThreadsInOrder
  <2>2. m.id # skb[t].id
    BY <1>1, <2>1 DEF ThreadInOrder, m
  <2>3. \A i \in 1 .. Len(netOut') : netOut'[i].id = skb[t].id => netOut'[i] = skb[t]
    BY <1>8, <2>1, <2>2 DEF ThreadInOrder
  <2>4. \A u \in Senders : pc'[u] # "idle" /\ skb'[u].id = skb'[t].id => u = t
    BY <1>7, <2>1 DEF ThreadInOrder
  <2>5. QED
    BY <1>1, <1>4, <2>1, <2>3, <2>4 DEF ThreadInOrder, Before
<1>14. QED
  BY <1>8, <1>9, <1>10, <1>11, <1>12, <1>13 DEF OrderInv

\* What the MSP does with the oldest packet in flight: it ignores it, or
\* delivers a message newer than all it has delivered.
LEMMA MspStep ==
  ASSUME TypeOK, OrderInv, MspReceive
  PROVE  /\ \A i \in 1 .. Len(netOut') : i + 1 \in 1 .. Len(netOut) /\ netOut'[i] = netOut[i + 1]
         /\ 1 \in 1 .. Len(netOut)
         /\ \/ UNCHANGED <<mspLast, delivered>>
            \/ /\ delivered' = Append(delivered, netOut[1].id)
               /\ mspLast'[netOut[1].op] = netOut[1].seq
               /\ Newest' = netOut[1].id
               /\ Newest < netOut[1].id
               /\ netOut[1].id \in 1 .. sent
<1>1. netOut \in Seq(Packet) /\ netOut # <<>> /\ netOut' = Tail(netOut)
  BY DEF MspReceive, TypeOK
<1>2. /\ 1 \in 1 .. Len(netOut) /\ Head(netOut) = netOut[1] /\ netOut[1] \in Packet
      /\ \A i \in 1 .. Len(netOut') : i + 1 \in 1 .. Len(netOut) /\ netOut'[i] = netOut[i + 1]
  BY <1>1, TailElements
<1>3. CASE netOut[1].seq = mspLast[netOut[1].op]
  BY <1>2, <1>3 DEF MspReceive, mspVars
<1>4. CASE netOut[1].seq # mspLast[netOut[1].op]
  <2>1. /\ mspLast' = [mspLast EXCEPT ![netOut[1].op] = netOut[1].seq]
        /\ delivered' = Append(delivered, netOut[1].id)
    BY <1>2, <1>4 DEF MspReceive
  <2>2. mspLast'[netOut[1].op] = netOut[1].seq
    <3>1. netOut[1].op \in Opcode /\ mspLast \in [Opcode -> Seqs \cup {NoSeq}]
      BY <1>2 DEF TypeOK, Packet
    <3>2. QED
      BY <2>1, <3>1
  <2>3. Newest' = netOut[1].id
    <3>1. delivered \in Seq(Nat) /\ netOut[1].id \in Nat
      BY <1>2 DEF TypeOK, Packet
    <3>2. delivered' # <<>> /\ delivered'[Len(delivered')] = netOut[1].id
      BY <2>1, <3>1
    <3>3. QED
      BY <3>2 DEF Newest, Pipe!Newest
  <2>4. Newest < netOut[1].id
    <3>1. Known(netOut[1])
      BY <1>2 DEF OrderInv, AllKnown
    <3>2. Newest \in Nat /\ netOut[1].id \in Nat
      BY <1>2, IdTypes
    <3>3. QED
      BY <1>4, <3>1, <3>2 DEF Known
  <2>5. netOut[1].id \in 1 .. sent
    BY <1>2 DEF OrderInv, Numbered
  <2>6. QED
    BY <1>2, <2>1, <2>2, <2>3, <2>4, <2>5
<1>5. QED
  BY <1>3, <1>4

\* A step of the MSP keeps the order.
LEMMA MspInOrder ==
  ASSUME TypeOK, TypeOK', OrderInv, MspReceive
  PROVE  OrderInv'
<1> DEFINE m == netOut[1]
<1>1. /\ \A i \in 1 .. Len(netOut') : i + 1 \in 1 .. Len(netOut) /\ netOut'[i] = netOut[i + 1]
      /\ 1 \in 1 .. Len(netOut)
  BY MspStep
<1>2. UNCHANGED <<tx_queue, sent, pc, skb>>
  BY DEF MspReceive, chanVars, thrVars, histVars
<1>3. QueueSorted'
  BY <1>2 DEF OrderInv, QueueSorted
<1>4. LinkSorted'
  <2> SUFFICES ASSUME NEW i \in 1 .. Len(netOut'), NEW j \in 1 .. Len(netOut'), i < j
               PROVE  Before(netOut'[i], netOut'[j])
    BY DEF LinkSorted, Before
  <2>1. /\ i + 1 \in 1 .. Len(netOut) /\ j + 1 \in 1 .. Len(netOut) /\ i + 1 < j + 1
        /\ netOut'[i] = netOut[i + 1] /\ netOut'[j] = netOut[j + 1]
    BY <1>1
  <2>2. QED
    BY <2>1 DEF OrderInv, LinkSorted
<1>5. LinkBeforeQueue'
  BY <1>1, <1>2 DEF OrderInv, LinkBeforeQueue, Before
<1>6. \A i \in 1 .. Len(netOut') : Before(m, netOut'[i])
  <2> SUFFICES ASSUME NEW i \in 1 .. Len(netOut') PROVE Before(m, netOut'[i])
    OBVIOUS
  <2>1. i + 1 \in 1 .. Len(netOut) /\ 1 < i + 1 /\ netOut'[i] = netOut[i + 1]
    BY <1>1
  <2>2. QED
    BY <1>1, <2>1 DEF OrderInv, LinkSorted
<1>7. CASE UNCHANGED <<mspLast, delivered>>
  <2>1. Newest' = Newest /\ \A p : Known(p)' <=> Known(p)
    BY <1>7, KnownUnchanged DEF mspVars
  <2>2. Numbered' /\ AllKnown' /\ DeliveredSorted'
    BY <1>1, <1>2, <1>7, <2>1 DEF OrderInv, Numbered, AllKnown, DeliveredSorted
  <2>3. ThreadsInOrder'
    BY <1>1, <1>2, <1>7, <2>1 DEF OrderInv, ThreadsInOrder, ThreadInOrder, Before
  <2>4. QED
    BY <1>3, <1>4, <1>5, <2>2, <2>3 DEF OrderInv
<1>8. CASE /\ delivered' = Append(delivered, m.id)
           /\ mspLast'[m.op] = m.seq
           /\ Newest' = m.id
           /\ Newest < m.id
           /\ m.id \in 1 .. sent
  <2>1. Numbered'
    BY <1>1, <1>2, <1>8 DEF OrderInv, Numbered
  <2>2. AllKnown'
    <3>1. \A p : Before(m, p) => Known(p)'
      BY <1>8 DEF Before, Known
    <3>2. \A j \in 1 .. Len(tx_queue) : Before(m, tx_queue[j])
      BY <1>1 DEF OrderInv, LinkBeforeQueue
    <3>3. QED
      BY <1>2, <1>6, <3>1, <3>2 DEF AllKnown
  <2>3. DeliveredSorted'
    <3>1. /\ Len(delivered) \in Nat
          /\ Len(delivered') = Len(delivered) + 1
          /\ \A i \in 1 .. Len(delivered) : delivered'[i] = delivered[i] /\ delivered[i] \in Nat
          /\ delivered'[Len(delivered) + 1] = m.id
      <4>1. delivered \in Seq(Nat) /\ m.id \in Nat
        BY <1>1, IdTypes DEF TypeOK
      <4>2. QED
        BY <1>8, <4>1, AppendElements
    <3>2. \A i \in 1 .. Len(delivered) : delivered[i] <= Newest
      <4> SUFFICES ASSUME NEW i \in 1 .. Len(delivered) PROVE delivered[i] <= Newest
        OBVIOUS
      <4>1. delivered # <<>> /\ Newest = delivered[Len(delivered)]
        BY <3>1 DEF Newest, Pipe!Newest
      <4>2. i < Len(delivered) => delivered[i] < delivered[Len(delivered)]
        BY <3>1 DEF OrderInv, DeliveredSorted
      <4>3. QED
        BY <3>1, <4>1, <4>2
    <3>3. ASSUME NEW i \in 1 .. Len(delivered'), NEW j \in 1 .. Len(delivered'), i < j
          PROVE  delivered'[i] < delivered'[j]
      <4>1. i \in 1 .. Len(delivered) /\ delivered'[i] = delivered[i]
        BY <3>1, <3>3
      <4>2. CASE j \in 1 .. Len(delivered)
        BY <3>1, <3>3, <4>1, <4>2 DEF OrderInv, DeliveredSorted
      <4>3. CASE j = Len(delivered) + 1
        <5>1. Newest \in Nat /\ m.id \in Nat
          BY <1>1, IdTypes
        <5>2. QED
          BY <1>8, <3>1, <3>2, <4>1, <4>3, <5>1
      <4>4. QED
        BY <3>1, <4>2, <4>3
    <3>4. QED
      BY <3>3 DEF DeliveredSorted
  <2>4. ThreadsInOrder'
    <3> SUFFICES ASSUME NEW s \in Senders, pc'[s] # "idle" PROVE ThreadInOrder(s)'
      BY DEF ThreadsInOrder
    <3>1. ThreadInOrder(s)
      BY <1>2 DEF OrderInv, ThreadsInOrder
    <3>2. Newest' = skb[s].id => mspLast'[skb[s].op] = skb[s].seq
      BY <1>1, <1>8, <3>1 DEF ThreadInOrder
    <3>3. \A k \in 1 .. Len(netOut') : netOut'[k].id = skb[s].id => netOut'[k] = skb[s]
      BY <1>1, <3>1 DEF ThreadInOrder
    <3>4. QED
      BY <1>2, <3>1, <3>2, <3>3 DEF ThreadInOrder, Before
  <2>5. QED
    BY <1>3, <1>4, <1>5, <2>1, <2>2, <2>3, <2>4 DEF OrderInv
<1>9. QED
  BY <1>7, <1>8, MspStep

\* Every step keeps the order.
LEMMA OrderStep ==
  ASSUME TypeOK, TypeOK', OrderInv, [Next]_vars, ~overtook'
  PROVE  OrderInv'
<1> USE DEF chanVars, thrVars, linkVars, mspVars, histVars
<1>1. ASSUME NEW s \in Senders, NEW o \in Opcode, csme_tx(s, o) PROVE OrderInv'
  BY <1>1, AcceptInOrder
<1>2. ASSUME NEW s \in Senders, csme_tx_arm(s) \/ csme_tx_clone(s) PROVE OrderInv'
  <2>1. UNCHANGED <<tx_queue, netOut, sent, mspVars>> /\ pc[s] # "idle" /\ skb' = skb
    BY <1>2 DEF csme_tx_arm, csme_tx_clone, CloneSkb
  <2>2. \A t \in Senders : ThreadStep(t)
    <3>1. \A t \in Senders : t # s => pc'[t] = pc[t]
      BY <1>2 DEF csme_tx_arm, csme_tx_clone, CloneSkb, TypeOK
    <3>2. QED
      BY <2>1, <3>1 DEF ThreadStep
  <2>3. QueueSorted'
    BY <2>1 DEF OrderInv, QueueSorted
  <2>4. \A j \in 1 .. Len(tx_queue') : \E k \in 1 .. Len(tx_queue) : tx_queue'[j] = tx_queue[k]
    BY <2>1
  <2>5. QED
    BY <2>1, <2>2, <2>3, <2>4, QueueShrinks
<1>4. ASSUME NEW s \in Senders, csme_tx_xmit(s) PROVE OrderInv'
  BY <1>4, XmitInOrder
<1>5. ASSUME UNCHANGED <<tx_queue, netOut, sent, mspVars, pc, skb>> PROVE OrderInv'
  <2>1. \A t \in Senders : ThreadStep(t)
    BY <1>5 DEF ThreadStep
  <2>2. QueueSorted'
    BY <1>5 DEF OrderInv, QueueSorted
  <2>3. \A j \in 1 .. Len(tx_queue') : \E k \in 1 .. Len(tx_queue) : tx_queue'[j] = tx_queue[k]
    BY <1>5
  <2>4. QED
    BY <1>5, <2>1, <2>2, <2>3, QueueShrinks
<1>6. ASSUME csme_rx_ack PROVE OrderInv'
  <2>1. CASE Answers(Head(netIn))
    <3>1. tx_queue # <<>> /\ csme_tx_msg_next(Tail(tx_queue)) /\ UNCHANGED <<sent, mspVars, pc, skb>>
      BY <1>6, <2>1, Zenon DEF csme_rx_ack, Answers
    <3>2. QED
      BY <3>1, NextMsgInOrder
  <2>2. CASE ~Answers(Head(netIn))
    BY <1>5, <1>6, <2>2, Zenon DEF csme_rx_ack
  <2>3. QED
    BY <2>1, <2>2
<1>7. ASSUME handle_channel_timeout PROVE OrderInv'
  <2>1. CASE tx_queue = <<>>
    BY <1>5, <1>7, <2>1, Zenon DEF handle_channel_timeout
  <2>2. CASE tx_queue # <<>> /\ retries = 0
    <3>1. csme_tx_msg_next(Tail(tx_queue)) /\ UNCHANGED <<sent, mspVars, pc, skb>>
      BY <1>7, <2>2 DEF handle_channel_timeout
    <3>2. QED
      BY <2>2, <3>1, NextMsgInOrder
  <2>3. CASE tx_queue # <<>> /\ retries # 0
    <3>1. csme_tx_msg_finish(Head(tx_queue)) /\ UNCHANGED <<tx_queue, sent, mspVars, pc, skb>>
      BY <1>7, <2>3, Zenon DEF handle_channel_timeout
    <3>2. 1 \in 1 .. Len(tx_queue) /\ Head(tx_queue) = tx_queue[1]
      BY <2>3, TailElements DEF TypeOK
    <3>3. \A j \in 1 .. Len(tx_queue) : Before(tx_queue[1], tx_queue[j])
      <4> SUFFICES ASSUME NEW j \in 1 .. Len(tx_queue) PROVE Before(tx_queue[1], tx_queue[j])
        OBVIOUS
      <4>1. 1 < j => tx_queue[1].id < tx_queue[j].id
        BY <3>2 DEF OrderInv, QueueSorted
      <4>2. tx_queue[1].id \in Nat /\ tx_queue[j].id \in Nat
        BY <3>2, IdTypes
      <4>3. QED
        BY <4>1, <4>2 DEF Before
    <3>4. QueueSorted' /\ \A t \in Senders : ThreadStep(t)
      BY <3>1 DEF OrderInv, QueueSorted, ThreadStep
    <3>5. QED
      BY <3>1, <3>2, <3>3, <3>4, QueueTransmits
  <2>4. QED
    BY <2>1, <2>2, <2>3
<1>8. ASSUME csme_ack_enable \/ UNCHANGED vars PROVE OrderInv'
  BY <1>5, <1>8, Zenon DEF csme_ack_enable, vars
<1>9. ASSUME channel_reset PROVE OrderInv'
  <2>1. tx_queue' = <<>> /\ UNCHANGED <<netOut, sent, mspVars, pc, skb>>
    BY <1>9 DEF channel_reset
  <2>2. QueueSorted' /\ \A t \in Senders : ThreadStep(t)
    BY <2>1 DEF QueueSorted, ThreadStep
  <2>3. \A j \in 1 .. Len(tx_queue') : \E k \in 1 .. Len(tx_queue) : tx_queue'[j] = tx_queue[k]
    BY <2>1
  <2>4. QED
    BY <2>1, <2>2, <2>3, QueueShrinks
<1>10. ASSUME MspReceive PROVE OrderInv'
  BY <1>10, MspInOrder
<1>11. QED
  BY <1>1, <1>2, <1>4, <1>6, <1>7, <1>8, <1>9, <1>10 DEF Next, Process, Softirq, Option

\* The order holds from the start.
LEMMA OrderInit == Init => OrderInv
<1> SUFFICES ASSUME Init PROVE OrderInv
  OBVIOUS
<1>1. tx_queue = <<>> /\ netOut = <<>> /\ delivered = <<>> /\ sent = 0
  BY DEF Init
<1>2. Newest = 0
  BY <1>1 DEF Newest, Pipe!Newest
<1>3. \A s \in Senders : pc[s] = "idle" /\ skb[s].id = 0
  BY DEF Init, NullSkb
<1>4. Numbered
  BY <1>1, <1>2, <1>3 DEF Numbered
<1>5. QueueSorted /\ LinkSorted /\ LinkBeforeQueue /\ AllKnown /\ DeliveredSorted
  BY <1>1 DEF QueueSorted, LinkSorted, LinkBeforeQueue, AllKnown, DeliveredSorted
<1>6. ThreadsInOrder
  BY <1>3 DEF ThreadsInOrder
<1>7. QED
  BY <1>4, <1>5, <1>6 DEF OrderInv

\* The promise of order, once ended, stays ended.
LEMMA OvertookStays ==
  ASSUME [Next]_vars, ~overtook'
  PROVE  ~overtook
<1> USE DEF chanVars, thrVars, linkVars, mspVars, histVars
<1>1. ASSUME NEW s \in Senders, NEW o \in Opcode, csme_tx(s, o) PROVE ~overtook
  BY <1>1, Zenon DEF csme_tx
<1>2. ASSUME NEW s \in Senders, csme_tx_arm(s) \/ csme_tx_clone(s) \/ csme_tx_xmit(s) PROVE ~overtook
  BY <1>2, Zenon DEF csme_tx_arm, csme_tx_clone, csme_tx_xmit
<1>3. ASSUME \/ csme_rx_ack \/ handle_channel_timeout \/ csme_ack_enable \/ channel_reset
             \/ MspReceive \/ UNCHANGED vars
      PROVE  ~overtook
  BY <1>3, Zenon
     DEF csme_rx_ack, handle_channel_timeout, csme_ack_enable, channel_reset, MspReceive, vars
<1>4. QED
  BY <1>1, <1>2, <1>3 DEF Next, Process, Softirq, Option

\* The MSP gets the messages of a channel in the order of their acceptance by
\* csme_tx() and none of them twice, with any number of threads, opcodes and
\* sequence numbers, despite losses, retransmissions, channel resets, clones
\* that sleep and suppressed acks: only csme_tx() transmitting a message after
\* a newer one has gone can break the order.
THEOREM DeliveredInOrder == Spec => []InOrder
<1>1. TypeOK /\ TypeOK' /\ OrderKept /\ [Next]_vars => OrderKept'
  BY OrderStep, OvertookStays DEF OrderKept
<1>2. Init => OrderKept
  BY OrderInit DEF OrderKept
<1>3. OrderKept => InOrder
  BY DEF OrderKept, OrderInv, InOrder, DeliveredSorted
<1>4. QED
  BY <1>1, <1>2, <1>3, TypeCorrect, PTL DEF Spec

\* While its only thread is inside csme_tx(), the newest message is its own.
Alone ==
  /\ ~overtook
  /\ \A s \in Senders : pc[s] # "idle" => skb[s].id = sent

\* A channel that only one thread sends on is never overtaken: so the MSP
\* gets all its messages in order, and none twice.
THEOREM OneSenderInOrder == ASSUME OneSender PROVE Spec => [](~overtook)
<1> USE DEF chanVars, thrVars, linkVars, mspVars, histVars
<1>1. Init => Alone
  BY DEF Init, Alone
<1>2. TypeOK /\ OrderKept /\ Alone /\ [Next]_vars => Alone'
  <2> SUFFICES ASSUME TypeOK, OrderKept, Alone, [Next]_vars PROVE Alone'
    OBVIOUS
  <2>1. ASSUME NEW s \in Senders, NEW o \in Opcode, csme_tx(s, o) PROVE Alone'
    <3>1. sent' = sent + 1 /\ overtook' = overtook
      BY <2>1 DEF csme_tx
    <3>2. pc'[s] = "idle" \/ skb'[s].id = sent + 1
      BY <2>1 DEF csme_tx, TypeOK
    <3>3. \A t \in Senders : t = s
      BY DEF OneSender
    <3>4. QED
      BY <3>1, <3>2, <3>3 DEF Alone
  <2>2. ASSUME NEW s \in Senders, csme_tx_arm(s) \/ csme_tx_clone(s) PROVE Alone'
    <3>1. UNCHANGED <<sent, overtook>> /\ pc[s] # "idle" /\ skb' = skb
      BY <2>2 DEF csme_tx_arm, csme_tx_clone, CloneSkb
    <3>2. \A t \in Senders : t = s
      BY DEF OneSender
    <3>3. QED
      BY <3>1, <3>2 DEF Alone
  <2>3. ASSUME NEW s \in Senders, csme_tx_xmit(s) PROVE Alone'
    <3>1. /\ sent' = sent /\ pc[s] = "xmit" /\ pc'[s] = "idle"
          /\ overtook' = (overtook \/ Overtaken(skb[s]))
      BY <2>3 DEF csme_tx_xmit, TypeOK
    <3>2. \A t \in Senders : t = s
      BY DEF OneSender
    <3>3. skb[s].id = sent /\ sent \in Nat /\ OrderInv /\ ~overtook
      BY <3>1 DEF Alone, TypeOK, OrderKept
    <3>4. \A i \in 1 .. Len(netOut) : ~(netOut[i].id > sent)
      BY <3>3 DEF OrderInv, Numbered
    <3>5. \A k \in 1 .. Len(delivered) : ~(delivered[k] > sent)
      <4> SUFFICES ASSUME NEW k \in 1 .. Len(delivered) PROVE ~(delivered[k] > sent)
        OBVIOUS
      <4>1. /\ delivered \in Seq(Nat) /\ delivered # <<>> /\ Len(delivered) \in 1 .. Len(delivered)
            /\ delivered[Len(delivered)] = Newest /\ delivered[k] \in Nat
        BY DEF TypeOK, Newest, Pipe!Newest
      <4>2. k < Len(delivered) => delivered[k] < Newest
        BY <3>3, <4>1 DEF OrderInv, DeliveredSorted
      <4>3. Newest \in 0 .. sent
        BY <3>3 DEF OrderInv, Numbered
      <4>4. delivered[k] <= Newest
        BY <4>1, <4>2, <4>3
      <4>5. QED
        BY <3>3, <4>1, <4>3, <4>4
    <3>6. ~Overtaken(skb[s])
      BY <3>3, <3>4, <3>5 DEF Overtaken
    <3>7. QED
      BY <3>1, <3>2, <3>3, <3>6 DEF Alone
  <2>4. ASSUME \/ csme_rx_ack \/ handle_channel_timeout \/ csme_ack_enable \/ channel_reset
               \/ MspReceive \/ UNCHANGED vars
        PROVE  Alone'
    <3>1. UNCHANGED <<sent, overtook, pc, skb>>
      BY <2>4, Zenon
         DEF csme_rx_ack, handle_channel_timeout, csme_ack_enable, channel_reset, MspReceive, vars
    <3>2. QED
      BY <3>1 DEF Alone
  <2>5. QED
    BY <2>1, <2>2, <2>3, <2>4 DEF Next, Process, Softirq, Option
<1>3. TypeOK /\ TypeOK' /\ OrderKept /\ [Next]_vars => OrderKept'
  BY OrderStep, OvertookStays DEF OrderKept
<1>4. Init => OrderKept
  BY OrderInit DEF OrderKept
<1>5. Alone => ~overtook
  BY DEF Alone
<1>6. QED
  BY <1>1, <1>2, <1>3, <1>4, <1>5, TypeCorrect, PTL DEF Spec
-----------------------------------------------------------------------------
(***************************************************************************)
(* Remainders.                                                             *)
(***************************************************************************)

\* A number is a multiple of k and a remainder.
LEMMA DivMod ==
  ASSUME NEW k \in Nat, k > 0, NEW x \in Nat
  PROVE  x = k * (x \div k) + (x % k) /\ x \div k \in Int /\ x % k \in 0 .. k - 1
  OBVIOUS

\* The remainder of a multiple of k and a remainder.
LEMMA ModOfMultiple ==
  ASSUME NEW k \in Nat, k > 0, NEW q \in Int, NEW r \in 0 .. k - 1
  PROVE  (k * q + r) % k = r
  OBVIOUS

\* Different multiples of k are at least k apart.
LEMMA MultiplesApart ==
  ASSUME NEW k \in Nat, k > 0, NEW p \in Int, NEW q \in Int, p < q
  PROVE  k * q >= k * p + k
<1>1. q - p - 1 \in Nat
  OBVIOUS
<1>2. k * (q - p - 1) >= 0
  BY <1>1
<1>3. k * (q - p - 1) = k * q - k * p - k
  OBVIOUS
<1>4. QED
  BY <1>2, <1>3

\* Different numbers with one remainder are at least k apart.
LEMMA SameRemainder ==
  ASSUME NEW k \in Nat, k > 0, NEW x \in Nat, NEW y \in Nat, x < y, x % k = y % k
  PROVE  x + k <= y
<1>1. PICK p \in Int : p = x \div k
  BY DivMod
<1>2. PICK q \in Int : q = y \div k
  BY DivMod
<1>3. PICK r \in Int : r = x % k
  BY DivMod
<1>4. x = k * p + r /\ y = k * q + r
  BY <1>1, <1>2, <1>3, DivMod
<1>5. PICK a \in Int : a = k * p
  OBVIOUS
<1>6. PICK b \in Int : b = k * q
  OBVIOUS
<1>7. p < q => b >= a + k
  BY <1>5, <1>6, MultiplesApart
<1>8. q < p => a >= b + k
  BY <1>5, <1>6, MultiplesApart
<1>9. p = q => a = b
  BY <1>5, <1>6
<1>10. QED
  BY <1>4, <1>5, <1>6, <1>7, <1>8, <1>9

\* Counting modulo k.
LEMMA NextRemainder ==
  ASSUME NEW k \in Nat, k > 0, NEW x \in Nat
  PROVE  ((x % k) + 1) % k = (x + 1) % k
<1>1. PICK p \in Int : p = x \div k
  BY DivMod
<1>2. PICK r \in 0 .. k - 1 : r = x % k
  BY DivMod
<1>3. x = k * p + r
  BY <1>1, <1>2, DivMod
<1>4. CASE r + 1 < k
  <2>1. (r + 1) % k = r + 1
    BY <1>4
  <2>2. (k * p + (r + 1)) % k = r + 1
    BY <1>4, ModOfMultiple
  <2>3. x + 1 = k * p + (r + 1)
    BY <1>3
  <2>4. QED
    BY <1>2, <2>1, <2>2, <2>3
<1>5. CASE r + 1 = k
  <2>1. k % k = 0
    OBVIOUS
  <2>2. (k * (p + 1) + 0) % k = 0
    BY ModOfMultiple
  <2>3. x + 1 = k * (p + 1) + 0
    BY <1>3, <1>5
  <2>4. QED
    BY <1>2, <1>5, <2>1, <2>2, <2>3
<1>6. QED
  BY <1>4, <1>5
-----------------------------------------------------------------------------
(***************************************************************************)
(* Acks.  That csme_rx_ack() takes no stale ack for the ack of a later     *)
(* message is not inductive, and the state does not even tell which        *)
(* message an ack on the link answers, or what the messages were that have *)
(* left the queue.  The inductive form says that there is a history of     *)
(* which the state keeps the remainders: for every message its opcode O[i] *)
(* and its number N[i] among the messages of that opcode, before it was    *)
(* cut to 4 bits, and for every ack on the link the message A[k] it        *)
(* answers.                                                                *)
(***************************************************************************)

\* Fewer messages have been given up than it takes for the sequence numbers
\* of an opcode to come round unnoticed.
FewGivenUp == Cardinality(givenUp) + 1 < SEQ_MOD

\* The channel as the boot programs use it: acks required, no reset, and a
\* clone that neither sleeps nor fails.
Steady == AlwaysAcked /\ ~Resets /\ CloneOutcomes \subseteq {"prompt"}

IsDelivered(i) == \E k \in 1 .. Len(delivered) : delivered[k] = i

\* The messages of an opcode are numbered 0, 1, 2, ... in the order of their
\* acceptance.
History(O, N) ==
  /\ O \in [1 .. sent -> Opcode]
  /\ N \in [1 .. sent -> Nat]
  /\ \A i, j \in 1 .. sent : i < j /\ O[i] = O[j] => N[i] < N[j]
  /\ \A i \in 1 .. sent : \A n \in Nat :
       n < N[i] => \E j \in 1 .. sent : j < i /\ O[j] = O[i] /\ N[j] = n

\* u is the number of the next message of opcode o.
NextNumber(O, N, o, u) ==
  /\ tx_seq_number[o] = u % SEQ_MOD
  /\ \A i \in 1 .. sent : O[i] = o => N[i] < u
  /\ \A n \in Nat : n < u => \E i \in 1 .. sent : O[i] = o /\ N[i] = n

Numbering(O, N) == \A o \in Opcode : \E u \in Nat : NextNumber(O, N, o, u)

\* The packet p carries what the history has of its message.
Carries(p, O, N) == p.op = O[p.id] /\ p.seq = N[p.id] % SEQ_MOD

PacketsRight(O, N) ==
  /\ \A k \in 1 .. Len(tx_queue) : Carries(tx_queue[k], O, N)
  /\ \A k \in 1 .. Len(netOut) : Carries(netOut[k], O, N)

\* So does what a thread past the unlock is working on.
ThreadsCarry(O, N) == \A s \in Senders : pc[s] # "idle" => Carries(skb[s], O, N)

\* The queue holds the newest messages; the older ones have been acked or
\* given up.
QueueIsRest ==
  /\ Len(tx_queue) <= sent
  /\ \A k \in 1 .. Len(tx_queue) : tx_queue[k].id = sent - Len(tx_queue) + k
  /\ \A i \in 1 .. sent : i <= sent - Len(tx_queue) => i \in acked \/ i \in givenUp
  /\ \A i \in givenUp : i \in 1 .. sent

\* What is queued has been neither acked nor given up.
OpenIsQueued ==
  \A i : i \in acked \/ i \in givenUp => i \in Nat /\ i <= sent - Len(tx_queue)

\* The ack k on the link answers the message A[k], which the MSP has
\* accepted; acks arrive in order.
AcksRight(O, N, A) ==
  /\ A \in [1 .. Len(netIn) -> 1 .. sent]
  /\ \A k \in 1 .. Len(netIn) :
       /\ IsDelivered(A[k])
       /\ netIn[k].op = O[A[k]]
       /\ netIn[k].seq = N[A[k]] % SEQ_MOD
       /\ \A a \in acked : a <= A[k]
  /\ \A i, j \in 1 .. Len(netIn) : i < j => A[i] <= A[j]

\* d is the newest message of opcode o that the MSP has accepted.
LastOf(O, N, o, d) ==
  /\ IsDelivered(d)
  /\ O[d] = o
  /\ mspLast[o] = N[d] % SEQ_MOD
  /\ \A i \in 1 .. sent : IsDelivered(i) /\ O[i] = o => i <= d

MspRemembers(O, N) ==
  \A o \in Opcode : mspLast[o] # NoSeq => \E d \in 1 .. sent : LastOf(O, N, o, d)

\* At most one thread is about to arm the timer; it works for the head of the
\* queue, and nothing of that message has left the host yet.
Arming ==
  /\ timer => tx_queue # <<>>
  /\ \A s \in Senders : pc[s] \in {"idle", "arm", "xmit"}
  /\ \A s \in Senders : pc[s] = "arm" =>
       /\ tx_queue # <<>>
       /\ skb[s] = tx_queue[1]
       /\ ~timer
       /\ Newest < skb[s].id
       /\ \A i \in 1 .. Len(netOut) : netOut[i].id < skb[s].id
       /\ \A t \in Senders : pc[t] = "arm" => t = s

AckInv(O, N, A) ==
  /\ History(O, N)
  /\ Numbering(O, N)
  /\ PacketsRight(O, N)
  /\ ThreadsCarry(O, N)
  /\ QueueIsRest
  /\ OpenIsQueued
  /\ AcksRight(O, N, A)
  /\ MspRemembers(O, N)
  /\ Arming
  /\ AckedWasDelivered
  /\ Running

\* Ids that are delivered are between 1 and Newest.
LEMMA DeliveredIds ==
  ASSUME TypeOK, OrderInv, NEW i, IsDelivered(i)
  PROVE  i \in Nat /\ i <= Newest /\ Newest \in Nat /\ IsDelivered(Newest)
<1>1. delivered \in Seq(Nat) /\ Newest \in Nat /\ Len(delivered) \in Nat
  BY IdTypes DEF TypeOK
<1>2. PICK k \in 1 .. Len(delivered) : delivered[k] = i
  BY DEF IsDelivered
<1>3. delivered # <<>> /\ Newest = delivered[Len(delivered)] /\ Len(delivered) \in 1 .. Len(delivered)
  BY <1>1, <1>2 DEF Newest, Pipe!Newest
<1>4. k < Len(delivered) => delivered[k] < delivered[Len(delivered)]
  BY <1>3 DEF OrderInv, DeliveredSorted
<1>5. i \in Nat
  BY <1>1, <1>2
<1>6. i <= Newest
  BY <1>1, <1>2, <1>3, <1>4, <1>5
<1>7. IsDelivered(Newest)
  BY <1>3 DEF IsDelivered
<1>8. QED
  BY <1>1, <1>5, <1>6, <1>7

\* Two messages of one opcode with the same sequence number: between them at
\* least SEQ_MOD - 1 messages of the opcode were accepted, and if all these
\* were given up then they were not few.
LEMMA ComesRound ==
  ASSUME TypeOK, NEW O, NEW N, History(O, N),
         NEW a \in 1 .. sent, NEW b \in 1 .. sent, a < b, O[a] = O[b],
         N[a] % SEQ_MOD = N[b] % SEQ_MOD,
         \A i \in 1 .. sent : a < i /\ i < b /\ O[i] = O[b] => i \in givenUp,
         \A i \in givenUp : i \in 1 .. sent
  PROVE  ~FewGivenUp
<1>1. sent \in Nat /\ SEQ_MOD \in Nat /\ SEQ_MOD > 0
  BY SeqAssumption DEF TypeOK
<1>2. PICK x \in Nat : x = N[a]
  BY DEF History
<1>3. PICK y \in Nat : y = N[b]
  BY DEF History
<1>4. x < y
  BY <1>2, <1>3 DEF History
<1>5. x + SEQ_MOD <= y
  BY <1>1, <1>2, <1>3, <1>4, SameRemainder
<1> DEFINE S == 1 .. SEQ_MOD - 1
           Fits(n, j) == j \in givenUp /\ N[j] = x + n
<1>6. \A n \in S : \E j \in givenUp : Fits(n, j)
  <2> SUFFICES ASSUME NEW n \in S PROVE \E j \in givenUp : Fits(n, j)
    OBVIOUS
  <2>1. x + n \in Nat /\ x + n < y /\ x + n > x
    BY <1>1, <1>5
  <2>2. PICK j \in 1 .. sent : j < b /\ O[j] = O[b] /\ N[j] = x + n
    BY <1>3, <2>1 DEF History
  <2>3. j < a => N[j] < N[a]
    BY <2>2 DEF History
  <2>4. a < j
    BY <1>1, <1>2, <2>1, <2>2, <2>3
  <2>5. j \in givenUp
    BY <2>2, <2>4
  <2>6. QED
    BY <2>2, <2>5
<1> DEFINE f == [n \in S |-> CHOOSE j \in givenUp : Fits(n, j)]
<1>7. \A n \in S : f[n] \in givenUp /\ N[f[n]] = x + n
  BY <1>6
<1>8. f \in Injection(S, givenUp)
  <2>1. f \in [S -> givenUp]
    BY <1>7
  <2>2. ASSUME NEW m \in S, NEW n \in S, f[m] = f[n] PROVE m = n
    <3>1. x + m = x + n
      BY <1>7, <2>2
    <3>2. QED
      BY <1>1, <3>1
  <2> HIDE DEF f
  <2>3. QED
    BY <2>1, <2>2 DEF Injection, IsInjective
<1>9. IsFiniteSet(givenUp)
  <2>1. 1 \in Int /\ sent \in Int
    BY <1>1
  <2>2. IsFiniteSet(1 .. sent)
    BY <2>1, FS_Interval, Zenon
  <2>3. givenUp \in SUBSET (1 .. sent)
    BY Zenon
  <2>4. QED
    BY <2>2, <2>3, FS_Subset, Zenon
<1>10. Cardinality(S) <= Cardinality(givenUp)
  <2> HIDE DEF f, S
  <2>1. QED
    BY <1>8, <1>9, FS_Injection, Zenon
<1>11. Cardinality(givenUp) \in Nat
  BY <1>9, FS_CardinalityType
<1>12. Cardinality(S) = IF 1 > SEQ_MOD - 1 THEN 0 ELSE SEQ_MOD - 1 - 1 + 1
  <2>1. 1 \in Int /\ SEQ_MOD - 1 \in Int
    BY <1>1
  <2>2. QED
    BY <2>1, FS_Interval, Zenon
<1> HIDE DEF S
<1>13. QED
  BY <1>1, <1>10, <1>11, <1>12 DEF FewGivenUp

\* An ack that csme_rx_ack() takes for the message in flight answers it.
LEMMA AckForHead ==
  ASSUME TypeOK, OrderInv, FewGivenUp, NEW O, NEW N, NEW A, AckInv(O, N, A),
         netIn # <<>>, Answers(Head(netIn))
  PROVE  /\ 1 \in 1 .. Len(tx_queue) /\ 1 \in 1 .. Len(netIn)
         /\ A[1] = tx_queue[1].id
<1>1. /\ tx_queue \in Seq(Packet) /\ netIn \in Seq(Ack) /\ sent \in Nat
      /\ tx_queue # <<>>
  BY DEF TypeOK, Answers
<1>2. /\ 1 \in 1 .. Len(tx_queue) /\ 1 \in 1 .. Len(netIn)
      /\ Head(tx_queue) = tx_queue[1] /\ Head(netIn) = netIn[1]
      /\ Len(tx_queue) \in Nat
  BY <1>1
<1>3. PICK h \in 1 .. sent : h = tx_queue[1].id
  BY <1>2 DEF OrderInv, Numbered
<1>4. PICK g \in 1 .. sent : g = A[1]
  BY <1>2 DEF AckInv, AcksRight
<1>5. g <= h
  <2>1. g <= Newest /\ Newest \in Nat
    BY <1>2, <1>4, DeliveredIds DEF AckInv, AcksRight
  <2>2. Newest <= h
    BY <1>2, <1>3 DEF OrderInv, AllKnown, Known
  <2>3. QED
    BY <1>1, <2>1, <2>2
<1>6. O[g] = O[h] /\ N[g] % SEQ_MOD = N[h] % SEQ_MOD
  <2>1. netIn[1].op = O[g] /\ netIn[1].seq = N[g] % SEQ_MOD
    BY <1>2, <1>4, Zenon DEF AckInv, AcksRight
  <2>2. tx_queue[1].op = O[h] /\ tx_queue[1].seq = N[h] % SEQ_MOD
    BY <1>2, <1>3, Zenon DEF AckInv, PacketsRight, Carries
  <2>3. tx_queue[1].op = netIn[1].op /\ tx_queue[1].seq = netIn[1].seq
    BY <1>2, Zenon DEF Answers
  <2>4. QED
    BY <2>1, <2>2, <2>3, Zenon
<1>7. ASSUME NEW i \in 1 .. sent, g < i, i < h PROVE i \in givenUp
  <2>1. h = sent - Len(tx_queue) + 1
    BY <1>2, <1>3 DEF AckInv, QueueIsRest
  <2>2. i <= sent - Len(tx_queue)
    BY <1>1, <1>2, <1>7, <2>1
  <2>3. i \in acked \/ i \in givenUp
    BY <2>2, Zenon DEF AckInv, QueueIsRest
  <2>4. i \in acked => i <= g
    BY <1>2, <1>4, Zenon DEF AckInv, AcksRight
  <2>5. QED
    BY <1>1, <1>7, <2>3, <2>4
<1>8. ~(g < h)
  <2> SUFFICES ASSUME g < h PROVE FALSE
    OBVIOUS
  <2>1. History(O, N) /\ \A i \in givenUp : i \in 1 .. sent
    BY Zenon DEF AckInv, QueueIsRest
  <2>2. QED
    BY <1>6, <1>7, <2>1, ComesRound
<1>9. QED
  BY <1>1, <1>2, <1>3, <1>4, <1>5, <1>8

\* A packet that the MSP takes for a repetition is one.
LEMMA RepeatIsKnown ==
  ASSUME TypeOK, OrderInv, FewGivenUp, NEW O, NEW N, NEW A, AckInv(O, N, A),
         1 \in 1 .. Len(netOut), netOut[1].seq = mspLast[netOut[1].op]
  PROVE  IsDelivered(netOut[1].id)
<1>1. /\ tx_queue \in Seq(Packet) /\ Len(tx_queue) \in Nat /\ sent \in Nat
      /\ netOut[1] \in Packet
  BY IdTypes DEF TypeOK
<1>2. PICK e \in 1 .. sent : e = netOut[1].id
  BY DEF OrderInv, Numbered
<1>3. PICK o \in Opcode : o = netOut[1].op
  BY <1>1 DEF Packet
<1>4. mspLast[o] # NoSeq
  <2>1. netOut[1].seq \in Seqs
    BY <1>1 DEF Packet
  <2>2. NoSeq \notin Seqs
    BY SeqAssumption DEF NoSeq, Seqs
  <2>3. QED
    BY <1>3, <2>1, <2>2
<1>5. PICK d \in 1 .. sent : LastOf(O, N, o, d)
  BY <1>4, Zenon DEF AckInv, MspRemembers
<1>6. d <= e
  <2>1. d <= Newest /\ Newest \in Nat
    BY <1>5, DeliveredIds DEF LastOf
  <2>2. Newest <= e
    BY <1>2 DEF OrderInv, AllKnown, Known
  <2>3. QED
    BY <1>1, <2>1, <2>2
<1>7. O[d] = O[e] /\ O[e] = o /\ N[d] % SEQ_MOD = N[e] % SEQ_MOD
  <2>1. O[d] = o /\ mspLast[o] = N[d] % SEQ_MOD
    BY <1>5, Zenon DEF LastOf
  <2>2. netOut[1].op = O[e] /\ netOut[1].seq = N[e] % SEQ_MOD
    BY <1>2, Zenon DEF AckInv, PacketsRight, Carries
  <2>3. QED
    BY <1>3, <2>1, <2>2, Zenon
<1>8. ASSUME NEW i \in 1 .. sent, d < i, i < e, O[i] = O[e] PROVE i \in givenUp
  <2>1. i <= sent - Len(tx_queue)
    <3>1. CASE Len(tx_queue) = 0
      BY <1>1, <3>1
    <3>2. CASE Len(tx_queue) # 0
      <4>1. 1 \in 1 .. Len(tx_queue)
        BY <1>1, <3>2
      <4>2. e <= tx_queue[1].id
        BY <1>2, <4>1 DEF OrderInv, LinkBeforeQueue, Before
      <4>3. tx_queue[1].id = sent - Len(tx_queue) + 1
        BY <4>1 DEF AckInv, QueueIsRest
      <4>4. QED
        BY <1>1, <1>8, <4>2, <4>3
    <3>3. QED
      BY <3>1, <3>2
  <2>2. i \in acked \/ i \in givenUp
    BY <2>1, Zenon DEF AckInv, QueueIsRest
  <2>3. i \in acked => IsDelivered(i)
    BY Zenon DEF AckInv, AckedWasDelivered, IsDelivered
  <2>4. IsDelivered(i) => i <= d
    BY <1>5, <1>7, <1>8, Zenon DEF LastOf
  <2>5. QED
    BY <1>1, <1>8, <2>2, <2>3, <2>4
<1>9. ~(d < e)
  <2> SUFFICES ASSUME d < e PROVE FALSE
    OBVIOUS
  <2>1. History(O, N) /\ \A i \in givenUp : i \in 1 .. sent
    BY Zenon DEF AckInv, QueueIsRest
  <2>2. QED
    BY <1>7, <1>8, <2>1, ComesRound
<1>10. d = e
  BY <1>1, <1>6, <1>9
<1>11. QED
  BY <1>2, <1>5, <1>10, Zenon DEF LastOf
-----------------------------------------------------------------------------
\* A thread that still has to arm the timer: no ack can answer its message.
LEMMA ArmedBeforeAck ==
  ASSUME TypeOK, OrderInv, FewGivenUp, NEW O, NEW N, NEW A, AckInv(O, N, A),
         netIn # <<>>, Answers(Head(netIn))
  PROVE  \A s \in Senders : pc[s] # "arm"
<1> SUFFICES ASSUME NEW s \in Senders, pc[s] = "arm" PROVE FALSE
  OBVIOUS
<1>1. A[1] = tx_queue[1].id /\ 1 \in 1 .. Len(netIn)
  BY AckForHead
<1>2. IsDelivered(A[1])
  BY <1>1, Zenon DEF AckInv, AcksRight
<1>3. A[1] \in Nat /\ A[1] <= Newest /\ Newest \in Nat
  BY <1>2, DeliveredIds
<1>4. Newest < tx_queue[1].id
  BY Zenon DEF AckInv, Arming
<1>5. QED
  BY <1>1, <1>3, <1>4

\* What does not change when a step leaves its variables alone.
LEMMA AckFrames ==
  ASSUME NEW O, NEW N, NEW A
  PROVE  /\ UNCHANGED sent /\ History(O, N) => History(O, N)'
         /\ UNCHANGED <<sent, tx_seq_number>> /\ Numbering(O, N) => Numbering(O, N)'
         /\ UNCHANGED <<tx_queue, netOut>> /\ PacketsRight(O, N) => PacketsRight(O, N)'
         /\ UNCHANGED <<pc, skb>> /\ ThreadsCarry(O, N) => ThreadsCarry(O, N)'
         /\ UNCHANGED <<tx_queue, sent, acked, givenUp>> /\ QueueIsRest => QueueIsRest'
         /\ UNCHANGED <<tx_queue, sent, acked, givenUp>> /\ OpenIsQueued => OpenIsQueued'
         /\ UNCHANGED <<netIn, sent, delivered, acked>> /\ AcksRight(O, N, A) => AcksRight(O, N, A)'
         /\ UNCHANGED <<sent, delivered, mspLast>> /\ MspRemembers(O, N) => MspRemembers(O, N)'
         /\ UNCHANGED <<timer, tx_queue, netOut, pc, skb, delivered>> /\ Arming => Arming'
         /\ UNCHANGED <<acked, delivered>> /\ AckedWasDelivered => AckedWasDelivered'
         /\ UNCHANGED oops /\ Running => Running'
<1>1. UNCHANGED sent /\ History(O, N) => History(O, N)'
  BY DEF History
<1>2. UNCHANGED <<sent, tx_seq_number>> /\ Numbering(O, N) => Numbering(O, N)'
  BY DEF Numbering, NextNumber
<1>3. UNCHANGED <<tx_queue, netOut>> /\ PacketsRight(O, N) => PacketsRight(O, N)'
  BY Zenon DEF PacketsRight, Carries
<1>4. UNCHANGED <<tx_queue, sent, acked, givenUp>> /\ QueueIsRest => QueueIsRest'
  BY Zenon DEF QueueIsRest
<1>5. UNCHANGED <<netIn, sent, delivered, acked>> /\ AcksRight(O, N, A) => AcksRight(O, N, A)'
  BY Zenon DEF AcksRight, IsDelivered
<1>6. UNCHANGED <<sent, delivered, mspLast>> /\ MspRemembers(O, N) => MspRemembers(O, N)'
  BY DEF MspRemembers, LastOf, IsDelivered
<1>7. UNCHANGED <<timer, tx_queue, netOut, pc, skb, delivered>> /\ Arming => Arming'
  BY DEF Arming, Newest, Pipe!Newest
<1>8. UNCHANGED <<acked, delivered>> /\ AckedWasDelivered => AckedWasDelivered'
  BY Zenon DEF AckedWasDelivered
<1>9. UNCHANGED oops /\ Running => Running'
  BY Zenon DEF Running
<1>10. UNCHANGED <<pc, skb>> /\ ThreadsCarry(O, N) => ThreadsCarry(O, N)'
  BY Zenon DEF ThreadsCarry, Carries
<1>11. UNCHANGED <<tx_queue, sent, acked, givenUp>> /\ OpenIsQueued => OpenIsQueued'
  BY Zenon DEF OpenIsQueued
<1>12. QED
  BY <1>1, <1>2, <1>3, <1>4, <1>5, <1>6, <1>7, <1>8, <1>9, <1>10, <1>11

\* What csme_tx_msg_finish() puts on the link.
LEMMA FinishElements ==
  ASSUME NEW m \in Packet, netOut \in Seq(Packet), csme_tx_msg_finish(m)
  PROVE  \A i \in 1 .. Len(netOut') :
           \/ i \in 1 .. Len(netOut) /\ netOut'[i] = netOut[i]
           \/ netOut'[i] = m
<1>1. CASE netOut' = netOut
  BY <1>1
<1>2. CASE netOut' = Append(netOut, m)
  <2>1. /\ Len(netOut') = Len(netOut) + 1 /\ Len(netOut) \in Nat
        /\ \A i \in 1 .. Len(netOut) : netOut'[i] = netOut[i]
        /\ netOut'[Len(netOut) + 1] = m
    BY <1>2, AppendElements
  <2>2. \A i \in 1 .. Len(netOut') : i \in 1 .. Len(netOut) \/ i = Len(netOut) + 1
    BY <2>1
  <2>3. QED
    BY <2>1, <2>2
<1>3. QED
  BY <1>1, <1>2 DEF csme_tx_msg_finish

\* Going on to the next message after the head of the queue has been acked or
\* given up, while no thread is about to arm the timer.
LEMMA NextMsgKeeps ==
  ASSUME TypeOK, OrderInv, ServedInv, NEW O, NEW N, NEW A, AckInv(O, N, A),
         tx_queue # <<>>, csme_tx_msg_next(Tail(tx_queue)),
         \A s \in Senders : pc[s] # "arm",
         UNCHANGED <<sent, pc, skb>>,
         \A i : i \in acked => i \in acked',
         \A i : i \in givenUp => i \in givenUp',
         tx_queue[1].id \in acked' \/ tx_queue[1].id \in givenUp',
         \A i \in givenUp' : i \in givenUp \/ i = tx_queue[1].id,
         \A i \in acked' : i \in acked \/ i = tx_queue[1].id
  PROVE  PacketsRight(O, N)' /\ ThreadsCarry(O, N)' /\ QueueIsRest' /\ OpenIsQueued' /\ Arming'
<1>1. /\ tx_queue \in Seq(Packet) /\ netOut \in Seq(Packet) /\ sent \in Nat
  BY DEF TypeOK
<1>2. PICK q \in Seq(Packet) : q = Tail(tx_queue)
  BY <1>1, TailElements
<1>3. /\ Len(tx_queue) \in Nat \ {0}
      /\ Len(q) = Len(tx_queue) - 1
      /\ \A i \in 1 .. Len(q) : i + 1 \in 1 .. Len(tx_queue) /\ q[i] = tx_queue[i + 1]
      /\ 1 \in 1 .. Len(tx_queue)
  <2>1. /\ Len(tx_queue) \in Nat \ {0}
        /\ Len(q) = Len(tx_queue) - 1
        /\ \A i \in 1 .. Len(tx_queue) - 1 : q[i] = tx_queue[i + 1]
    BY <1>1, <1>2, TailElements
  <2>2. QED
    BY <2>1
<1>4. /\ tx_queue' = q
      /\ q = <<>> => ~timer' /\ netOut' = netOut
      /\ q # <<>> => csme_tx_msg_finish(Head(q))
  <2>1. q # <<>> => ~Head(q).sup
    <3>1. q # <<>> => 1 \in 1 .. Len(q) /\ Head(q) = q[1]
      OBVIOUS
    <3>2. q # <<>> => Head(q) = tx_queue[2] /\ 2 \in 1 .. Len(tx_queue)
      BY <1>3, <3>1
    <3>3. QED
      BY <3>2 DEF ServedInv, NoneSuppressed
  <2>2. csme_tx_msg_next(q)
    BY <1>2
  <2>3. QED
    BY <2>1, <2>2 DEF csme_tx_msg_next
<1>5. PacketsRight(O, N)'
  <2>1. \A k \in 1 .. Len(q) : Carries(q[k], O, N)
    BY <1>3, Zenon DEF AckInv, PacketsRight
  <2>2. \A k \in 1 .. Len(netOut) : Carries(netOut[k], O, N)
    BY Zenon DEF AckInv, PacketsRight
  <2>3. \A k \in 1 .. Len(netOut') : Carries(netOut'[k], O, N)
    <3>1. CASE q = <<>>
      BY <1>4, <2>2, <3>1
    <3>2. CASE q # <<>>
      <4>1. PICK m \in Packet : m = Head(q) /\ m = q[1] /\ 1 \in 1 .. Len(q)
        BY <3>2
      <4>2. \A i \in 1 .. Len(netOut') :
              \/ i \in 1 .. Len(netOut) /\ netOut'[i] = netOut[i]
              \/ netOut'[i] = m
        BY <1>1, <1>4, <3>2, <4>1, FinishElements
      <4>3. Carries(m, O, N)
        BY <2>1, <4>1
      <4>4. QED
        BY <2>2, <4>2, <4>3, Zenon
    <3>3. QED
      BY <3>1, <3>2
  <2>4. QED
    BY <1>4, <2>1, <2>3, Zenon DEF PacketsRight, Carries
<1>6. QueueIsRest'
  <2>1. Len(tx_queue) <= sent /\ tx_queue[1].id = sent - Len(tx_queue) + 1
    BY <1>3 DEF AckInv, QueueIsRest
  <2>2. ASSUME NEW k \in 1 .. Len(q) PROVE q[k].id = sent - Len(q) + k
    <3>1. k + 1 \in 1 .. Len(tx_queue) /\ q[k] = tx_queue[k + 1]
      BY <1>3
    <3>2. tx_queue[k + 1].id = sent - Len(tx_queue) + (k + 1)
      BY <3>1, Zenon DEF AckInv, QueueIsRest
    <3>3. QED
      BY <1>1, <1>3, <3>1, <3>2
  <2>3. ASSUME NEW i \in 1 .. sent, i <= sent - Len(q) PROVE i \in acked' \/ i \in givenUp'
    <3>1. CASE i <= sent - Len(tx_queue)
      <4>1. i \in acked \/ i \in givenUp
        BY <3>1, Zenon DEF AckInv, QueueIsRest
      <4>2. QED
        BY <4>1, Zenon
    <3>2. CASE i = tx_queue[1].id
      BY <3>2
    <3>3. i <= sent - Len(tx_queue) \/ i = tx_queue[1].id
      <4>1. PICK l \in Nat : l = Len(tx_queue)
        BY <1>3
      <4>2. Len(q) = l - 1 /\ tx_queue[1].id = sent - l + 1 /\ i <= sent - Len(q)
        BY <1>3, <2>1, <2>3, <4>1
      <4>3. i <= sent - l \/ i = sent - l + 1
        BY <1>1, <4>1, <4>2, SMTT(20)
      <4>4. QED
        BY <4>1, <4>2, <4>3
    <3>4. QED
      BY <3>1, <3>2, <3>3
  <2>4. ASSUME NEW i \in givenUp' PROVE i \in 1 .. sent
    <3>1. i \in givenUp => i \in 1 .. sent
      BY Zenon DEF AckInv, QueueIsRest
    <3>2. tx_queue[1].id \in 1 .. sent
      BY <1>3 DEF OrderInv, Numbered
    <3>3. QED
      BY <3>1, <3>2
  <2>5. Len(q) <= sent
    BY <1>1, <1>3, <2>1
  <2>6. sent' = sent
    OBVIOUS
  <2>7. QED
    BY <1>4, <2>2, <2>3, <2>4, <2>5, <2>6, Zenon DEF QueueIsRest
<1>7. Arming'
  <2>1. timer' => tx_queue' # <<>>
    BY <1>4
  <2>2. \A s \in Senders : pc'[s] \in {"idle", "arm", "xmit"} /\ pc'[s] # "arm"
    BY Zenon DEF AckInv, Arming
  <2>3. QED
    BY <2>1, <2>2, Zenon DEF Arming
<1>8. ThreadsCarry(O, N)'
  BY AckFrames DEF AckInv
<1>9. OpenIsQueued'
  <2> SUFFICES ASSUME NEW i, i \in acked' \/ i \in givenUp'
               PROVE  i \in Nat /\ i <= sent - Len(q)
    BY <1>4, Zenon DEF OpenIsQueued
  <2>1. PICK l \in Nat : l = Len(tx_queue)
    BY <1>3
  <2>2. tx_queue[1].id = sent - l + 1 /\ Len(q) = l - 1 /\ l <= sent
    BY <1>3, <2>1 DEF AckInv, QueueIsRest
  <2>3. CASE i = tx_queue[1].id
    BY <1>1, <2>1, <2>2, <2>3
  <2>4. CASE i \in acked \/ i \in givenUp
    <3>1. i \in Nat /\ i <= sent - l
      BY <2>1, <2>4, Zenon DEF AckInv, OpenIsQueued
    <3>2. QED
      BY <1>1, <2>1, <2>2, <3>1
  <2>5. QED
    BY <2>3, <2>4
<1>10. QED
  BY <1>5, <1>6, <1>7, <1>8, <1>9

\* csme_rx_ack() keeps the history.
LEMMA RxAckKeeps ==
  ASSUME TypeOK, OrderInv, ServedInv, FewGivenUp, NEW O, NEW N, NEW A, AckInv(O, N, A),
         csme_rx_ack
  PROVE  \E B : AckInv(O, N, B)'
<1>0. PICK B : B = [k \in 1 .. Len(netIn) - 1 |-> A[k + 1]]
  OBVIOUS
<1>1. /\ netIn \in Seq(Ack) /\ netIn # <<>> /\ netIn' = Tail(netIn)
      /\ UNCHANGED <<tx_seq_number, pc, skb, oops, mspLast, delivered, sent, givenUp>>
  BY DEF csme_rx_ack, TypeOK, thrVars, mspVars
<1>2. /\ Len(netIn) \in Nat \ {0}
      /\ Len(netIn') = Len(netIn) - 1
      /\ \A k \in 1 .. Len(netIn') : /\ k + 1 \in 1 .. Len(netIn)
                                     /\ netIn'[k] = netIn[k + 1]
                                     /\ B[k] = A[k + 1]
      /\ 1 \in 1 .. Len(netIn)
  <2>1. /\ Len(netIn) \in Nat \ {0}
        /\ Len(netIn') = Len(netIn) - 1
        /\ \A i \in 1 .. Len(netIn) - 1 : netIn'[i] = netIn[i + 1]
    BY <1>1, TailElements
  <2>2. QED
    BY <1>0, <2>1
<1>3. /\ History(O, N)' /\ Numbering(O, N)' /\ MspRemembers(O, N)' /\ Running'
      /\ ThreadsCarry(O, N)'
  <2>1. UNCHANGED sent /\ UNCHANGED <<sent, tx_seq_number>> /\ UNCHANGED <<sent, delivered, mspLast>>
        /\ UNCHANGED oops /\ UNCHANGED <<pc, skb>>
    BY <1>1
  <2>2. QED
    BY <2>1, AckFrames DEF AckInv
<1>4. ASSUME \A k \in 1 .. Len(netIn') : \A a \in acked' : a <= B[k]
      PROVE  AcksRight(O, N, B)'
  <2>1. B \in [1 .. Len(netIn') -> 1 .. sent]
    <3>1. \A k \in 1 .. Len(netIn) - 1 : A[k + 1] \in 1 .. sent
      BY <1>2 DEF AckInv, AcksRight
    <3>2. QED
      BY <1>0, <1>2, <3>1
  <2>2. ASSUME NEW k \in 1 .. Len(netIn')
        PROVE  /\ IsDelivered(B[k]) /\ netIn'[k].op = O[B[k]]
               /\ netIn'[k].seq = N[B[k]] % SEQ_MOD
    <3>1. k + 1 \in 1 .. Len(netIn) /\ netIn'[k] = netIn[k + 1] /\ B[k] = A[k + 1]
      BY <1>2, <2>2, Zenon
    <3>2. \A l \in 1 .. Len(netIn) :
            /\ IsDelivered(A[l]) /\ netIn[l].op = O[A[l]]
            /\ netIn[l].seq = N[A[l]] % SEQ_MOD
      BY Zenon DEF AckInv, AcksRight
    <3>3. /\ IsDelivered(A[k + 1]) /\ netIn[k + 1].op = O[A[k + 1]]
          /\ netIn[k + 1].seq = N[A[k + 1]] % SEQ_MOD
      BY <3>1, <3>2, Zenon
    <3>4. QED
      BY <3>1, <3>3, Zenon
  <2>3. ASSUME NEW i \in 1 .. Len(netIn'), NEW j \in 1 .. Len(netIn'), i < j
        PROVE  B[i] <= B[j]
    <3>1. i + 1 < j + 1
      BY <1>2, <2>3
    <3>2. QED
      BY <1>2, <3>1, Zenon DEF AckInv, AcksRight
  <2>4. \A i : IsDelivered(i) => IsDelivered(i)'
    BY <1>1, Zenon DEF IsDelivered
  <2>5. sent' = sent
    BY <1>1
  <2>6. QED
    <3>1. B \in [1 .. Len(netIn') -> 1 .. sent']
      BY <2>1, <2>5
    <3>2. \A k \in 1 .. Len(netIn') :
            /\ IsDelivered(B[k])'
            /\ netIn'[k].op = O[B[k]]
            /\ netIn'[k].seq = N[B[k]] % SEQ_MOD
            /\ \A a \in acked' : a <= B[k]
      BY <1>4, <2>2, <2>4, Zenon
    <3>3. \A i, j \in 1 .. Len(netIn') : i < j => B[i] <= B[j]
      BY <2>3
    <3>4. QED
      BY <3>1, <3>2, <3>3, Zenon DEF AcksRight
<1>5. CASE ~Answers(Head(netIn))
  <2>1. UNCHANGED <<tx_queue, timer, retries, netOut, acked>>
    BY <1>5, Zenon DEF csme_rx_ack
  <2>2. /\ UNCHANGED <<tx_queue, netOut>> /\ UNCHANGED <<tx_queue, sent, acked, givenUp>>
        /\ UNCHANGED <<timer, tx_queue, netOut, pc, skb, delivered>> /\ UNCHANGED <<acked, delivered>>
    BY <1>1, <2>1
  <2>3. /\ PacketsRight(O, N)' /\ QueueIsRest' /\ OpenIsQueued' /\ Arming'
        /\ AckedWasDelivered'
    BY <2>2, AckFrames DEF AckInv
  <2>4. \A k \in 1 .. Len(netIn') : \A a \in acked : a <= B[k]
    BY <1>2, Zenon DEF AckInv, AcksRight
  <2>5. AcksRight(O, N, B)'
    BY <1>4, <2>1, <2>4
  <2>6. QED
    BY <1>3, <2>3, <2>5 DEF AckInv
<1>6. CASE Answers(Head(netIn))
  <2>1. /\ acked' = acked \cup {Head(tx_queue).id}
        /\ csme_tx_msg_next(Tail(tx_queue))
        /\ tx_queue # <<>>
    BY <1>6, Zenon DEF csme_rx_ack, Answers
  <2>2. 1 \in 1 .. Len(tx_queue) /\ A[1] = tx_queue[1].id
    BY <1>1, <1>6, AckForHead
  <2>3. Head(tx_queue) = tx_queue[1]
    BY <2>1 DEF TypeOK
  <2>4. PICK h : h = tx_queue[1].id
    OBVIOUS
  <2>5. acked' = acked \cup {h}
    BY <2>1, <2>3, <2>4
  <2>6. \A s \in Senders : pc[s] # "arm"
    BY <1>1, <1>6, ArmedBeforeAck
  <2>7. PacketsRight(O, N)' /\ QueueIsRest' /\ OpenIsQueued' /\ Arming'
    <3>1. /\ \A i : i \in acked => i \in acked'
          /\ \A i : i \in givenUp => i \in givenUp'
          /\ tx_queue[1].id \in acked' \/ tx_queue[1].id \in givenUp'
          /\ \A i \in givenUp' : i \in givenUp \/ i = tx_queue[1].id
          /\ \A i \in acked' : i \in acked \/ i = tx_queue[1].id
          /\ UNCHANGED <<sent, pc, skb>>
      BY <1>1, <2>4, <2>5
    <3>2. QED
      BY <2>1, <2>6, <3>1, NextMsgKeeps
  <2>8. IsDelivered(h)
    BY <1>2, <2>2, <2>4, Zenon DEF AckInv, AcksRight
  <2>9. AckedWasDelivered'
    <3>1. delivered' = delivered
      BY <1>1
    <3>2. \A i \in acked' : \E k \in 1 .. Len(delivered) : delivered[k] = i
      BY <2>5, <2>8 DEF AckInv, AckedWasDelivered, IsDelivered
    <3>3. QED
      BY <3>1, <3>2, Zenon DEF AckedWasDelivered
  <2>10. ASSUME NEW k \in 1 .. Len(netIn'), NEW a \in acked' PROVE a <= B[k]
    <3>1. k + 1 \in 1 .. Len(netIn) /\ B[k] = A[k + 1] /\ 1 < k + 1
      BY <1>2
    <3>2. A[1] <= A[k + 1]
      BY <1>2, <3>1, Zenon DEF AckInv, AcksRight
    <3>3. a \in acked => a <= A[k + 1]
      BY <3>1, Zenon DEF AckInv, AcksRight
    <3>4. QED
      BY <2>2, <2>4, <2>5, <3>1, <3>2, <3>3
  <2>11. AcksRight(O, N, B)'
    BY <1>4, <2>10
  <2>12. QED
    BY <1>3, <2>7, <2>9, <2>11 DEF AckInv
<1>7. QED
  BY <1>5, <1>6

\* handle_channel_timeout() keeps the history.
LEMMA TimeoutKeeps ==
  ASSUME TypeOK, OrderInv, ServedInv, NEW O, NEW N, NEW A, AckInv(O, N, A),
         handle_channel_timeout
  PROVE  AckInv(O, N, A)'
<1>1. /\ timer
      /\ UNCHANGED <<tx_seq_number, pc, skb, oops, netIn, mspLast, delivered, sent, acked>>
  BY DEF handle_channel_timeout, thrVars, mspVars
<1>2. \A s \in Senders : pc[s] # "arm"
  BY <1>1, Zenon DEF AckInv, Arming
<1>3. tx_queue # <<>>
  BY <1>1, Zenon DEF AckInv, Arming
<1>4. /\ History(O, N)' /\ Numbering(O, N)' /\ MspRemembers(O, N)' /\ AcksRight(O, N, A)'
      /\ AckedWasDelivered' /\ Running' /\ ThreadsCarry(O, N)'
  <2>1. /\ UNCHANGED sent /\ UNCHANGED <<sent, tx_seq_number>> /\ UNCHANGED <<sent, delivered, mspLast>>
        /\ UNCHANGED <<netIn, sent, delivered, acked>> /\ UNCHANGED <<acked, delivered>>
        /\ UNCHANGED oops /\ UNCHANGED <<pc, skb>>
    BY <1>1
  <2>2. QED
    BY <2>1, AckFrames DEF AckInv
<1>5. /\ tx_queue \in Seq(Packet) /\ netOut \in Seq(Packet)
      /\ 1 \in 1 .. Len(tx_queue)
      /\ Head(tx_queue) = tx_queue[1] /\ tx_queue[1] \in Packet
  BY <1>3 DEF TypeOK
<1>6. CASE retries = 0
  <2>1. /\ givenUp' = givenUp \cup {tx_queue[1].id}
        /\ csme_tx_msg_next(Tail(tx_queue))
    BY <1>3, <1>5, <1>6 DEF handle_channel_timeout
  <2>2. /\ \A i : i \in acked => i \in acked'
        /\ \A i : i \in givenUp => i \in givenUp'
        /\ tx_queue[1].id \in acked' \/ tx_queue[1].id \in givenUp'
        /\ \A i \in givenUp' : i \in givenUp \/ i = tx_queue[1].id
        /\ \A i \in acked' : i \in acked \/ i = tx_queue[1].id
        /\ UNCHANGED <<sent, pc, skb>>
    BY <1>1, <2>1, Zenon
  <2>3. PacketsRight(O, N)' /\ QueueIsRest' /\ OpenIsQueued' /\ Arming'
    BY <1>2, <1>3, <2>1, <2>2, NextMsgKeeps
  <2>4. QED
    BY <1>4, <2>3 DEF AckInv
<1>7. CASE retries # 0
  <2>1. csme_tx_msg_finish(tx_queue[1]) /\ UNCHANGED <<tx_queue, timer, givenUp>>
    BY <1>3, <1>5, <1>7, Zenon DEF handle_channel_timeout
  <2>2. QueueIsRest' /\ OpenIsQueued'
    <3>1. UNCHANGED <<tx_queue, sent, acked, givenUp>>
      BY <1>1, <2>1
    <3>2. QED
      BY <3>1, AckFrames DEF AckInv
  <2>3. PacketsRight(O, N)'
    <3>1. PICK m \in Packet : m = tx_queue[1]
      BY <1>5
    <3>2. \A i \in 1 .. Len(netOut') :
            \/ i \in 1 .. Len(netOut) /\ netOut'[i] = netOut[i]
            \/ netOut'[i] = m
      BY <1>5, <2>1, <3>1, FinishElements
    <3>3. Carries(m, O, N)
      BY <1>5, <3>1, Zenon DEF AckInv, PacketsRight
    <3>4. \A k \in 1 .. Len(netOut') : Carries(netOut'[k], O, N)
      BY <3>2, <3>3, Zenon DEF AckInv, PacketsRight
    <3>5. \A k \in 1 .. Len(tx_queue') : Carries(tx_queue'[k], O, N)
      BY <2>1, Zenon DEF AckInv, PacketsRight
    <3>6. QED
      BY <3>4, <3>5, Zenon DEF PacketsRight, Carries
  <2>4. Arming'
    <3>1. tx_queue' # <<>>
      BY <1>3, <2>1
    <3>2. \A s \in Senders : pc'[s] \in {"idle", "arm", "xmit"} /\ pc'[s] # "arm"
      BY <1>1, <1>2, Zenon DEF AckInv, Arming
    <3>3. QED
      BY <3>1, <3>2, Zenon DEF Arming
  <2>5. QED
    BY <1>4, <2>2, <2>3, <2>4 DEF AckInv
<1>8. QED
  BY <1>6, <1>7

\* csme_tx() after the unlock keeps the history: the timer is not pending and
\* the skb is still queued.
LEMMA ArmKeeps ==
  ASSUME Steady, TypeOK, OrderInv, NEW O, NEW N, NEW A, AckInv(O, N, A),
         NEW s \in Senders, csme_tx_arm(s)
  PROVE  AckInv(O, N, A)'
<1>1. /\ pc[s] = "arm"
      /\ UNCHANGED <<tx_queue, tx_seq_number, netIn, mspLast, delivered, sent, acked, givenUp>>
  BY DEF csme_tx_arm, linkVars, mspVars, histVars
<1>2. /\ tx_queue # <<>> /\ skb[s] = tx_queue[1] /\ ~timer
      /\ \A t \in Senders : pc[t] = "arm" => t = s
  BY <1>1, Zenon DEF AckInv, Arming
<1>3. /\ tx_queue \in Seq(Packet) /\ netOut \in Seq(Packet)
      /\ 1 \in 1 .. Len(tx_queue) /\ tx_queue[1] \in Packet
  BY <1>2 DEF TypeOK
<1>4. Queued(skb[s])
  BY <1>2, <1>3, Zenon DEF Queued
<1>5. CloneSkb(s)
  <2>1. "sleeps" \notin CloneOutcomes /\ "fails" \notin CloneOutcomes
    BY DEF Steady
  <2>2. QED
    BY <1>2, <2>1, Zenon DEF csme_tx_arm
<1>6. /\ pc' = [pc EXCEPT ![s] = "xmit"]
      /\ UNCHANGED <<skb, oops, netOut>>
  BY <1>4, <1>5, Zenon DEF CloneSkb, csme_tx_arm, linkVars
<1>7. /\ History(O, N)' /\ Numbering(O, N)' /\ MspRemembers(O, N)' /\ AcksRight(O, N, A)'
      /\ QueueIsRest' /\ OpenIsQueued' /\ AckedWasDelivered' /\ Running' /\ PacketsRight(O, N)'
  <2>1. /\ UNCHANGED sent /\ UNCHANGED <<sent, tx_seq_number>> /\ UNCHANGED <<sent, delivered, mspLast>>
        /\ UNCHANGED <<netIn, sent, delivered, acked>> /\ UNCHANGED <<acked, delivered>>
        /\ UNCHANGED <<tx_queue, sent, acked, givenUp>> /\ UNCHANGED oops
        /\ UNCHANGED <<tx_queue, netOut>>
    BY <1>1, <1>6
  <2>2. QED
    BY <2>1, AckFrames DEF AckInv
<1>8. \A t \in Senders : pc'[t] = IF t = s THEN "xmit" ELSE pc[t]
  BY <1>6 DEF TypeOK
<1>9. ThreadsCarry(O, N)'
  <2>1. \A t \in Senders : pc'[t] # "idle" => pc[t] # "idle"
    BY <1>1, <1>8
  <2>2. QED
    BY <1>6, <2>1, Zenon DEF AckInv, ThreadsCarry, Carries
<1>10. Arming'
  <2>1. tx_queue' # <<>>
    BY <1>1, <1>2
  <2>2. \A t \in Senders : pc[t] \in {"idle", "arm", "xmit"}
    BY Zenon DEF AckInv, Arming
  <2>3. \A t \in Senders : pc'[t] \in {"idle", "arm", "xmit"} /\ pc'[t] # "arm"
    BY <1>2, <1>8, <2>2
  <2>4. QED
    BY <2>1, <2>3, Zenon DEF Arming
<1>11. QED
  BY <1>7, <1>9, <1>10 DEF AckInv

\* csme_tx() transmitting its clone keeps the history.
LEMMA XmitKeeps ==
  ASSUME TypeOK, OrderInv, NEW O, NEW N, NEW A, AckInv(O, N, A),
         NEW s \in Senders, csme_tx_xmit(s)
  PROVE  AckInv(O, N, A)'
<1>1. /\ pc[s] = "xmit" /\ csme_tx_msg_finish(skb[s])
      /\ UNCHANGED <<tx_queue, timer, tx_seq_number, oops, netIn, mspLast, delivered, sent, acked, givenUp>>
  BY DEF csme_tx_xmit, mspVars, chanVars
<1>2. \A t \in Senders : pc'[t] # "idle" => t # s /\ pc'[t] = pc[t] /\ skb'[t] = skb[t]
  BY DEF csme_tx_xmit, TypeOK
<1>3. PICK m \in Packet : m = skb[s]
  BY DEF TypeOK
<1>4. \A i \in 1 .. Len(netOut') :
        \/ i \in 1 .. Len(netOut) /\ netOut'[i] = netOut[i]
        \/ netOut'[i] = m
  BY <1>1, <1>3, FinishElements DEF TypeOK
<1>5. /\ History(O, N)' /\ Numbering(O, N)' /\ MspRemembers(O, N)' /\ AcksRight(O, N, A)'
      /\ QueueIsRest' /\ OpenIsQueued' /\ AckedWasDelivered' /\ Running'
  <2>1. /\ UNCHANGED sent /\ UNCHANGED <<sent, tx_seq_number>> /\ UNCHANGED <<sent, delivered, mspLast>>
        /\ UNCHANGED <<netIn, sent, delivered, acked>> /\ UNCHANGED <<acked, delivered>>
        /\ UNCHANGED <<tx_queue, sent, acked, givenUp>> /\ UNCHANGED oops
    BY <1>1
  <2>2. QED
    BY <2>1, AckFrames DEF AckInv
<1>6. PacketsRight(O, N)'
  <2>1. Carries(m, O, N)
    <3>1. "xmit" # "idle"
      OBVIOUS
    <3>2. QED
      BY <1>1, <1>3, <3>1, Zenon DEF AckInv, ThreadsCarry
  <2>2. \A k \in 1 .. Len(netOut') : Carries(netOut'[k], O, N)
    BY <1>4, <2>1, Zenon DEF AckInv, PacketsRight
  <2>3. \A k \in 1 .. Len(tx_queue') : Carries(tx_queue'[k], O, N)
    BY <1>1, Zenon DEF AckInv, PacketsRight
  <2>4. QED
    BY <2>2, <2>3, Zenon DEF PacketsRight, Carries
<1>7. ThreadsCarry(O, N)'
  <2>1. \A t \in Senders : pc'[t] # "idle" => pc[t] # "idle" /\ skb'[t] = skb[t]
    BY <1>2
  <2>2. QED
    BY <2>1, Zenon DEF AckInv, ThreadsCarry, Carries
<1>8. Arming'
  <2>1. timer' => tx_queue' # <<>>
    BY <1>1, Zenon DEF AckInv, Arming
  <2>2. \A t \in Senders : pc'[t] \in {"idle", "arm", "xmit"}
    <3>1. \A t \in Senders : pc[t] \in {"idle", "arm", "xmit"}
      BY Zenon DEF AckInv, Arming
    <3>2. QED
      BY <1>2, <3>1
  <2>3. ASSUME NEW t \in Senders, pc'[t] = "arm"
        PROVE  /\ tx_queue' # <<>> /\ skb'[t] = tx_queue'[1] /\ ~timer'
               /\ Newest' < skb'[t].id
               /\ \A i \in 1 .. Len(netOut') : netOut'[i].id < skb'[t].id
               /\ \A u \in Senders : pc'[u] = "arm" => u = t
    <3>1. t # s /\ pc[t] = "arm" /\ skb'[t] = skb[t]
      BY <1>2, <2>3
    <3>2. /\ tx_queue # <<>> /\ skb[t] = tx_queue[1] /\ ~timer
          /\ Newest < skb[t].id
          /\ \A i \in 1 .. Len(netOut) : netOut[i].id < skb[t].id
          /\ \A u \in Senders : pc[u] = "arm" => u = t
      BY <3>1, Zenon DEF AckInv, Arming
    <3>3. m.id < skb[t].id
      <4>1. ThreadInOrder(s)
        BY <1>1 DEF OrderInv, ThreadsInOrder
      <4>2. 1 \in 1 .. Len(tx_queue)
        BY <3>2 DEF TypeOK
      <4>3. m.id <= skb[t].id
        BY <1>3, <3>2, <4>1, <4>2 DEF ThreadInOrder, Before
      <4>4. m.id # skb[t].id
        BY <1>3, <3>1, <4>1 DEF ThreadInOrder
      <4>5. m.id \in Nat /\ skb[t].id \in Nat
        BY <1>3, IdTypes
      <4>6. QED
        BY <4>3, <4>4, <4>5
    <3>4. \A i \in 1 .. Len(netOut') : netOut'[i].id < skb[t].id
      BY <1>4, <3>2, <3>3, Zenon
    <3>5. Newest' = Newest
      BY <1>1 DEF Newest, Pipe!Newest
    <3>6. \A u \in Senders : pc'[u] = "arm" => u = t
      BY <1>2, <3>2
    <3>7. QED
      BY <1>1, <3>1, <3>2, <3>4, <3>5, <3>6
  <2>4. QED
    BY <2>1, <2>2, <2>3, Zenon DEF Arming
<1>9. QED
  BY <1>5, <1>6, <1>7, <1>8 DEF AckInv

\* What the MSP does with the oldest packet in flight, when the history is
\* right: afterwards it has accepted the message of the packet.
LEMMA MspAccepts ==
  ASSUME TypeOK, OrderInv, FewGivenUp, NEW O, NEW N, NEW A, AckInv(O, N, A), MspReceive
  PROVE  /\ 1 \in 1 .. Len(netOut)
         /\ netOut[1].id \in 1 .. sent /\ Newest <= netOut[1].id /\ Newest \in Nat
         /\ netOut[1].op \in Opcode
         /\ netOut[1].op = O[netOut[1].id] /\ netOut[1].seq = N[netOut[1].id] % SEQ_MOD
         /\ \A i : IsDelivered(i)' <=> IsDelivered(i) \/ i = netOut[1].id
         /\ \A o \in Opcode : mspLast'[o] = IF o = netOut[1].op THEN netOut[1].seq ELSE mspLast[o]
         /\ Newest' = netOut[1].id \/ Newest' = Newest
<1>1. netOut \in Seq(Packet) /\ netOut # <<>>
  BY DEF MspReceive, TypeOK
<1>2. 1 \in 1 .. Len(netOut) /\ Head(netOut) = netOut[1] /\ netOut[1] \in Packet
  BY <1>1
<1>3. /\ netOut[1].id \in 1 .. sent /\ Newest <= netOut[1].id /\ Newest \in Nat
      /\ netOut[1].op \in Opcode
  <2>1. netOut[1].op \in Opcode
    BY <1>2 DEF Packet
  <2>2. QED
    BY <1>2, <2>1, IdTypes DEF OrderInv, Numbered, AllKnown, Known
<1>4. netOut[1].op = O[netOut[1].id] /\ netOut[1].seq = N[netOut[1].id] % SEQ_MOD
  BY <1>2, Zenon DEF AckInv, PacketsRight, Carries
<1>5. mspLast \in [Opcode -> Seqs \cup {NoSeq}] /\ delivered \in Seq(Nat) /\ netOut[1].id \in Nat
  BY <1>2 DEF TypeOK, Packet
<1>6. CASE netOut[1].seq = mspLast[netOut[1].op]
  <2>1. UNCHANGED <<mspLast, delivered>>
    BY <1>2, <1>6 DEF MspReceive, mspVars
  <2>2. IsDelivered(netOut[1].id)
    BY <1>2, <1>6, RepeatIsKnown
  <2>3. \A i : IsDelivered(i)' <=> IsDelivered(i)
    BY <2>1, Zenon DEF IsDelivered
  <2>4. Newest' = Newest
    BY <2>1 DEF Newest, Pipe!Newest
  <2>5. \A o \in Opcode : mspLast'[o] = IF o = netOut[1].op THEN netOut[1].seq ELSE mspLast[o]
    BY <1>6, <2>1, Zenon
  <2>6. QED
    BY <1>2, <1>3, <1>4, <2>2, <2>3, <2>4, <2>5
<1>7. CASE netOut[1].seq # mspLast[netOut[1].op]
  <2>1. /\ mspLast' = [mspLast EXCEPT ![netOut[1].op] = netOut[1].seq]
        /\ delivered' = Append(delivered, netOut[1].id)
    BY <1>2, <1>7 DEF MspReceive
  <2>2. PICK e \in Nat : e = netOut[1].id
    BY <1>5
  <2>3. /\ Len(delivered') = Len(delivered) + 1 /\ Len(delivered) \in Nat
        /\ \A i \in 1 .. Len(delivered) : delivered'[i] = delivered[i]
        /\ delivered'[Len(delivered) + 1] = e
    BY <1>5, <2>1, <2>2, AppendElements
  <2>4. \A k : k \in 1 .. Len(delivered') <=> k \in 1 .. Len(delivered) \/ k = Len(delivered) + 1
    BY <2>3
  <2>5. \A i : IsDelivered(i)' <=> IsDelivered(i) \/ i = e
    BY <2>3, <2>4, Zenon DEF IsDelivered
  <2>6. Newest' = e
    <3>1. delivered' # <<>> /\ delivered'[Len(delivered')] = e
      BY <1>5, <2>1, <2>2
    <3>2. QED
      BY <3>1 DEF Newest, Pipe!Newest
  <2>7. \A o \in Opcode : mspLast'[o] = IF o = netOut[1].op THEN netOut[1].seq ELSE mspLast[o]
    BY <1>5, <2>1
  <2>8. QED
    BY <1>2, <1>3, <1>4, <2>2, <2>5, <2>6, <2>7
<1>8. QED
  BY <1>6, <1>7

\* MspReceive keeps the history.
LEMMA MspKeeps ==
  ASSUME TypeOK, OrderInv, FewGivenUp, NEW O, NEW N, NEW A, AckInv(O, N, A), MspReceive
  PROVE  \E B : AckInv(O, N, B)'
<1>1. /\ UNCHANGED <<tx_queue, timer, tx_seq_number, pc, skb, oops, sent, acked, givenUp>>
      /\ sent \in Nat
  BY DEF MspReceive, chanVars, thrVars, histVars, TypeOK
<1>2. /\ 1 \in 1 .. Len(netOut)
      /\ \A i \in 1 .. Len(netOut') : i + 1 \in 1 .. Len(netOut) /\ netOut'[i] = netOut[i + 1]
  BY MspStep
<1>3. PICK e \in 1 .. sent : e = netOut[1].id
  BY MspAccepts
<1>4. PICK p : p = netOut[1].op
  OBVIOUS
<1>5. PICK r : r = netOut[1].seq
  OBVIOUS
<1>6. /\ Newest <= e /\ Newest \in Nat /\ p \in Opcode /\ p = O[e] /\ r = N[e] % SEQ_MOD
      /\ \A i : IsDelivered(i)' <=> IsDelivered(i) \/ i = e
      /\ \A o \in Opcode : mspLast'[o] = IF o = p THEN r ELSE mspLast[o]
      /\ Newest' = e \/ Newest' = Newest
  BY <1>3, <1>4, <1>5, MspAccepts
<1>7. /\ History(O, N)' /\ Numbering(O, N)' /\ QueueIsRest' /\ OpenIsQueued' /\ Running'
      /\ ThreadsCarry(O, N)'
  <2>1. /\ UNCHANGED sent /\ UNCHANGED <<sent, tx_seq_number>> /\ UNCHANGED oops
        /\ UNCHANGED <<tx_queue, sent, acked, givenUp>> /\ UNCHANGED <<pc, skb>>
    BY <1>1
  <2>2. QED
    BY <2>1, AckFrames DEF AckInv
<1>8. PacketsRight(O, N)'
  <2>1. \A k \in 1 .. Len(netOut') : Carries(netOut'[k], O, N)
    BY <1>2, Zenon DEF AckInv, PacketsRight
  <2>2. \A k \in 1 .. Len(tx_queue') : Carries(tx_queue'[k], O, N)
    BY <1>1, Zenon DEF AckInv, PacketsRight
  <2>3. QED
    BY <2>1, <2>2, Zenon DEF PacketsRight, Carries
<1>9. AckedWasDelivered'
  <2>1. \A i \in acked : IsDelivered(i)
    BY Zenon DEF AckInv, AckedWasDelivered, IsDelivered
  <2>2. \A i \in acked' : IsDelivered(i)'
    BY <1>1, <1>6, <2>1, Zenon
  <2>3. QED
    BY <2>2, Zenon DEF AckedWasDelivered, IsDelivered
<1>10. \A i : IsDelivered(i) => i \in Nat /\ i <= e
  <2> SUFFICES ASSUME NEW i, IsDelivered(i) PROVE i \in Nat /\ i <= e
    OBVIOUS
  <2>1. i \in Nat /\ i <= Newest
    BY DeliveredIds
  <2>2. QED
    BY <1>1, <1>6, <2>1
<1>11. MspRemembers(O, N)'
  <2> SUFFICES ASSUME NEW o \in Opcode, mspLast'[o] # NoSeq
               PROVE  \E d \in 1 .. sent : LastOf(O, N, o, d)'
    BY <1>1, Zenon DEF MspRemembers
  <2>1. CASE o = p
    <3>1. IsDelivered(e)' /\ O[e] = o /\ mspLast'[o] = N[e] % SEQ_MOD
      BY <1>6, <2>1, Zenon
    <3>2. ASSUME NEW i \in 1 .. sent, IsDelivered(i)' PROVE i <= e
      <4>1. IsDelivered(i) \/ i = e
        BY <1>6, <3>2, Zenon
      <4>2. QED
        BY <1>10, <4>1
    <3>3. \A i \in 1 .. sent' : IsDelivered(i)' /\ O[i] = o => i <= e
      BY <1>1, <3>2, Zenon
    <3>4. LastOf(O, N, o, e)'
      BY <3>1, <3>3 DEF LastOf
    <3>5. QED
      BY <3>4, Zenon
  <2>2. CASE o # p
    <3>1. mspLast'[o] = mspLast[o]
      BY <1>6, <2>2, Zenon
    <3>2. PICK d \in 1 .. sent : LastOf(O, N, o, d)
      BY <3>1, Zenon DEF AckInv, MspRemembers
    <3>3. IsDelivered(d)' /\ O[d] = o /\ mspLast'[o] = N[d] % SEQ_MOD
      BY <1>6, <3>1, <3>2, Zenon DEF LastOf
    <3>4. \A i \in 1 .. sent' : IsDelivered(i)' /\ O[i] = o => i <= d
      BY <1>1, <1>6, <2>2, <3>2, Zenon DEF LastOf
    <3>5. LastOf(O, N, o, d)'
      BY <3>3, <3>4 DEF LastOf
    <3>6. QED
      BY <3>5, Zenon
  <2>3. QED
    BY <2>1, <2>2
<1>12. Arming'
  <2>1. timer' => tx_queue' # <<>>
    BY <1>1, Zenon DEF AckInv, Arming
  <2>2. \A s \in Senders : pc'[s] \in {"idle", "arm", "xmit"}
    BY <1>1, Zenon DEF AckInv, Arming
  <2>3. ASSUME NEW s \in Senders, pc'[s] = "arm"
        PROVE  /\ tx_queue' # <<>> /\ skb'[s] = tx_queue'[1] /\ ~timer'
               /\ Newest' < skb'[s].id
               /\ \A i \in 1 .. Len(netOut') : netOut'[i].id < skb'[s].id
               /\ \A t \in Senders : pc'[t] = "arm" => t = s
    <3>1. /\ tx_queue # <<>> /\ skb[s] = tx_queue[1] /\ ~timer
          /\ Newest < skb[s].id
          /\ \A i \in 1 .. Len(netOut) : netOut[i].id < skb[s].id
          /\ \A t \in Senders : pc[t] = "arm" => t = s
      BY <1>1, <2>3, Zenon DEF AckInv, Arming
    <3>2. Newest' < skb[s].id
      BY <1>2, <1>3, <1>6, <3>1, Zenon
    <3>3. \A i \in 1 .. Len(netOut') : netOut'[i].id < skb[s].id
      BY <1>2, <3>1, Zenon
    <3>4. QED
      BY <1>1, <3>1, <3>2, <3>3, Zenon
  <2>4. QED
    BY <2>1, <2>2, <2>3, Zenon DEF Arming
<1>13. \A k \in 1 .. Len(netIn) :
         /\ A[k] \in 1 .. sent /\ A[k] <= e
         /\ IsDelivered(A[k])' /\ netIn[k].op = O[A[k]] /\ netIn[k].seq = N[A[k]] % SEQ_MOD
         /\ \A a \in acked' : a <= A[k]
  <2> SUFFICES ASSUME NEW k \in 1 .. Len(netIn)
               PROVE  /\ A[k] \in 1 .. sent /\ A[k] <= e
                      /\ IsDelivered(A[k])' /\ netIn[k].op = O[A[k]] /\ netIn[k].seq = N[A[k]] % SEQ_MOD
                      /\ \A a \in acked' : a <= A[k]
    BY Zenon
  <2>1. /\ IsDelivered(A[k]) /\ netIn[k].op = O[A[k]] /\ netIn[k].seq = N[A[k]] % SEQ_MOD
        /\ \A a \in acked : a <= A[k]
    BY Zenon DEF AckInv, AcksRight
  <2>2. A[k] \in 1 .. sent
    BY DEF AckInv, AcksRight
  <2>3. QED
    BY <1>1, <1>6, <1>10, <2>1, <2>2, Zenon
<1>14. \A a \in acked' : a <= e
  <2>1. \A a \in acked : IsDelivered(a)
    BY Zenon DEF AckInv, AckedWasDelivered, IsDelivered
  <2>2. QED
    BY <1>1, <1>10, <2>1, Zenon
<1>15. netIn \in Seq(Ack) /\ Len(netIn) \in Nat /\ [op |-> p, seq |-> r] \in Ack
  <2>1. netOut[1] \in Packet
    BY <1>2, IdTypes
  <2>2. QED
    BY <1>4, <1>5, <2>1 DEF TypeOK, Packet, Ack
<1>16. CASE netIn' = netIn
  <2>1. AcksRight(O, N, A)'
    <3>1. A \in [1 .. Len(netIn') -> 1 .. sent']
      BY <1>1, <1>16, Zenon DEF AckInv, AcksRight
    <3>2. \A i, j \in 1 .. Len(netIn') : i < j => A[i] <= A[j]
      BY <1>16, Zenon DEF AckInv, AcksRight
    <3>3. \A k \in 1 .. Len(netIn') :
            /\ IsDelivered(A[k])' /\ netIn'[k].op = O[A[k]] /\ netIn'[k].seq = N[A[k]] % SEQ_MOD
            /\ \A a \in acked' : a <= A[k]
      BY <1>13, <1>16, Zenon
    <3>4. QED
      BY <3>1, <3>2, <3>3, Zenon DEF AcksRight
  <2>2. QED
    BY <1>7, <1>8, <1>9, <1>11, <1>12, <2>1 DEF AckInv
<1>17. CASE netIn' = Append(netIn, [op |-> p, seq |-> r])
  <2>1. PICK c \in Ack : c = [op |-> p, seq |-> r] /\ c.op = p /\ c.seq = r
    BY <1>15
  <2>2. /\ Len(netIn') = Len(netIn) + 1
        /\ \A i \in 1 .. Len(netIn) : netIn'[i] = netIn[i]
        /\ netIn'[Len(netIn) + 1] = c
    BY <1>15, <1>17, <2>1, AppendElements
  <2>3. PICK l \in Nat : l = Len(netIn)
    BY <1>15
  <2>4. PICK B : B = [k \in 1 .. l + 1 |-> IF k = l + 1 THEN e ELSE A[k]]
    OBVIOUS
  <2>5. /\ \A k \in 1 .. l : B[k] = A[k] /\ k \in 1 .. l + 1 /\ netIn'[k] = netIn[k]
        /\ B[l + 1] = e
        /\ Len(netIn') = l + 1 /\ netIn'[l + 1] = c
        /\ \A k \in 1 .. l + 1 : k \in 1 .. l \/ k = l + 1
    <3>1. \A k \in 1 .. l : k \in 1 .. l + 1 /\ k # l + 1
      BY <2>3
    <3>2. l + 1 \in 1 .. l + 1 /\ \A k \in 1 .. l + 1 : k \in 1 .. l \/ k = l + 1
      BY <2>3
    <3>3. QED
      BY <2>2, <2>3, <2>4, <3>1, <3>2
  <2>6. B \in [1 .. Len(netIn') -> 1 .. sent']
    <3>1. \A k \in 1 .. l + 1 : B[k] \in 1 .. sent
      BY <1>13, <2>3, <2>5
    <3>2. QED
      BY <1>1, <2>4, <2>5, <3>1
  <2>7. \A k \in 1 .. Len(netIn') :
          /\ IsDelivered(B[k])' /\ netIn'[k].op = O[B[k]] /\ netIn'[k].seq = N[B[k]] % SEQ_MOD
          /\ \A a \in acked' : a <= B[k]
    <3>1. \A k \in 1 .. l :
            /\ IsDelivered(B[k])' /\ netIn'[k].op = O[B[k]] /\ netIn'[k].seq = N[B[k]] % SEQ_MOD
            /\ \A a \in acked' : a <= B[k]
      BY <1>13, <2>3, <2>5, Zenon
    <3>2. /\ IsDelivered(B[l + 1])' /\ netIn'[l + 1].op = O[B[l + 1]]
          /\ netIn'[l + 1].seq = N[B[l + 1]] % SEQ_MOD
          /\ \A a \in acked' : a <= B[l + 1]
      BY <1>6, <1>14, <2>1, <2>5, Zenon
    <3>3. QED
      BY <2>5, <3>1, <3>2, Zenon
  <2>8. \A i, j \in 1 .. Len(netIn') : i < j => B[i] <= B[j]
    <3> SUFFICES ASSUME NEW i \in 1 .. l + 1, NEW j \in 1 .. l + 1, i < j
                 PROVE  B[i] <= B[j]
      BY <2>5, Zenon
    <3>1. i \in 1 .. l
      BY <2>3
    <3>2. CASE j \in 1 .. l
      BY <2>3, <2>5, <3>1, <3>2, Zenon DEF AckInv, AcksRight
    <3>3. CASE j = l + 1
      BY <1>13, <2>3, <2>5, <3>1, <3>3, Zenon
    <3>4. QED
      BY <2>5, <3>2, <3>3
  <2>9. AcksRight(O, N, B)'
    BY <2>6, <2>7, <2>8, Zenon DEF AcksRight
  <2>10. QED
    BY <1>7, <1>8, <1>9, <1>11, <1>12, <2>9 DEF AckInv
<1>18. QED
  <2>1. Head(netOut) = netOut[1]
    BY <1>2 DEF MspReceive, TypeOK
  <2>2. netIn' = netIn \/ netIn' = Append(netIn, [op |-> p, seq |-> r])
    BY <1>4, <1>5, <2>1, Zenon DEF MspReceive
  <2>3. QED
    BY <1>16, <1>17, <2>2

\* csme_tx() under the lock extends the history by the new message.
LEMMA AcceptKeeps ==
  ASSUME Steady, TypeOK, OrderInv, NEW O, NEW N, NEW A, AckInv(O, N, A),
         NEW s \in Senders, NEW o \in Opcode, csme_tx(s, o)
  PROVE  \E P, M : AckInv(P, M, A)'
<1>1. /\ tx_queue \in Seq(Packet) /\ Len(tx_queue) \in Nat /\ sent \in Nat
      /\ tx_seq_number \in [Opcode -> Seqs]
  BY DEF TypeOK
<1>2. ack_suppression = FALSE
  BY AckSupAssumption, Zenon DEF TypeOK, Steady, AlwaysAcked
<1>3. [id |-> sent + 1, op |-> o, seq |-> tx_seq_number[o], sup |-> ack_suppression] \in Packet
  BY AckSupAssumption DEF TypeOK, Packet
<1>4. PICK m \in Packet :
        /\ m = [id |-> sent + 1, op |-> o, seq |-> tx_seq_number[o], sup |-> ack_suppression]
        /\ m.id = sent + 1 /\ m.op = o /\ m.seq = tx_seq_number[o]
  BY <1>3
<1>5. /\ sent' = sent + 1
      /\ tx_seq_number' = [tx_seq_number EXCEPT ![o] = NextSeq(@)]
      /\ UNCHANGED <<timer, oops, netOut, netIn, mspLast, delivered, acked, givenUp>>
  BY DEF csme_tx, linkVars, mspVars
<1>6. /\ tx_queue' = Append(tx_queue, m)
      /\ \/ tx_queue # <<>> /\ UNCHANGED <<pc, skb>>
         \/ /\ tx_queue = <<>>
            /\ pc' = [pc EXCEPT ![s] = "arm"]
            /\ skb' = [skb EXCEPT ![s] = m]
  BY <1>2, <1>4, Zenon DEF csme_tx, CanSend, thrVars
<1>7. /\ Len(tx_queue') = Len(tx_queue) + 1
      /\ \A k \in 1 .. Len(tx_queue) : tx_queue'[k] = tx_queue[k]
      /\ tx_queue'[Len(tx_queue) + 1] = m
      /\ \A k \in 1 .. Len(tx_queue') : k \in 1 .. Len(tx_queue) \/ k = Len(tx_queue) + 1
  <2>1. /\ Len(tx_queue') = Len(tx_queue) + 1
        /\ \A k \in 1 .. Len(tx_queue) : tx_queue'[k] = tx_queue[k]
        /\ tx_queue'[Len(tx_queue) + 1] = m
    BY <1>1, <1>6, AppendElements
  <2>2. QED
    BY <1>1, <2>1
<1>8. PICK z \in Nat : z = sent
  BY <1>1
<1>9. PICK u \in Nat : NextNumber(O, N, o, u)
  BY Zenon DEF AckInv, Numbering
<1>10. PICK P : P = [i \in 1 .. z + 1 |-> IF i = z + 1 THEN o ELSE O[i]]
  OBVIOUS
<1>11. PICK M : M = [i \in 1 .. z + 1 |-> IF i = z + 1 THEN u ELSE N[i]]
  OBVIOUS
<1>12. /\ \A i \in 1 .. z : P[i] = O[i] /\ M[i] = N[i] /\ i \in 1 .. z + 1
       /\ z + 1 \in 1 .. z + 1 /\ P[z + 1] = o /\ M[z + 1] = u
       /\ \A i \in 1 .. z + 1 : i \in 1 .. z \/ i = z + 1
  <2>1. /\ \A i \in 1 .. z : i \in 1 .. z + 1 /\ i # z + 1
        /\ z + 1 \in 1 .. z + 1
        /\ \A i \in 1 .. z + 1 : i \in 1 .. z \/ i = z + 1
    BY <1>8
  <2>2. QED
    BY <1>10, <1>11, <2>1
<1>13. /\ O \in [1 .. z -> Opcode] /\ N \in [1 .. z -> Nat]
       /\ \A i, j \in 1 .. z : i < j /\ O[i] = O[j] => N[i] < N[j]
       /\ \A i \in 1 .. z : \A n \in Nat :
            n < N[i] => \E j \in 1 .. z : j < i /\ O[j] = O[i] /\ N[j] = n
  BY <1>8, Zenon DEF AckInv, History
<1>14. /\ tx_seq_number[o] = u % SEQ_MOD
       /\ \A i \in 1 .. z : O[i] = o => N[i] < u
       /\ \A n \in Nat : n < u => \E i \in 1 .. z : O[i] = o /\ N[i] = n
  BY <1>8, <1>9, Zenon DEF NextNumber
<1>15. sent' = z + 1
  BY <1>5, <1>8
<1>16. History(P, M)'
  <2>1. P \in [1 .. z + 1 -> Opcode] /\ M \in [1 .. z + 1 -> Nat]
    <3>1. \A i \in 1 .. z + 1 : P[i] \in Opcode /\ M[i] \in Nat
      BY <1>12, <1>13
    <3>2. QED
      BY <1>10, <1>11, <3>1
  <2>2. ASSUME NEW i \in 1 .. z + 1, NEW j \in 1 .. z + 1, i < j, P[i] = P[j]
        PROVE  M[i] < M[j]
    <3>1. i \in 1 .. z
      BY <1>8, <2>2
    <3>2. CASE j \in 1 .. z
      BY <1>12, <1>13, <2>2, <3>1, <3>2, Zenon
    <3>3. CASE j = z + 1
      BY <1>12, <1>14, <2>2, <3>1, <3>3, Zenon
    <3>4. QED
      BY <1>12, <3>2, <3>3
  <2>3. ASSUME NEW i \in 1 .. z + 1, NEW n \in Nat, n < M[i]
        PROVE  \E j \in 1 .. z + 1 : j < i /\ P[j] = P[i] /\ M[j] = n
    <3>1. CASE i \in 1 .. z
      <4>1. PICK j \in 1 .. z : j < i /\ O[j] = O[i] /\ N[j] = n
        BY <1>12, <1>13, <2>3, <3>1, Zenon
      <4>2. QED
        BY <1>12, <3>1, <4>1, Zenon
    <3>2. CASE i = z + 1
      <4>1. PICK j \in 1 .. z : O[j] = o /\ N[j] = n
        BY <1>12, <1>14, <2>3, <3>2, Zenon
      <4>2. j < z + 1
        BY <1>8, <4>1
      <4>3. QED
        BY <1>12, <3>2, <4>1, <4>2, Zenon
    <3>3. QED
      BY <1>12, <3>1, <3>2
  <2>4. QED
    BY <1>15, <2>1, <2>2, <2>3 DEF History
<1>17. Numbering(P, M)'
  <2> SUFFICES ASSUME NEW p \in Opcode PROVE \E v \in Nat : NextNumber(P, M, p, v)'
    BY Zenon DEF Numbering
  <2>1. CASE p = o
    <3>1. u + 1 \in Nat /\ u < u + 1
      OBVIOUS
    <3>2. tx_seq_number'[p] = (u + 1) % SEQ_MOD
      <4>1. tx_seq_number'[p] = NextSeq(tx_seq_number[o])
        BY <1>1, <1>5, <2>1
      <4>2. ((u % SEQ_MOD) + 1) % SEQ_MOD = (u + 1) % SEQ_MOD
        <5>1. SEQ_MOD \in Nat /\ SEQ_MOD > 0
          BY SeqAssumption
        <5>2. QED
          BY <5>1, NextRemainder
      <4>3. QED
        BY <1>14, <4>1, <4>2 DEF NextSeq
    <3>3. ASSUME NEW i \in 1 .. z + 1, P[i] = p PROVE M[i] < u + 1
      <4>1. CASE i \in 1 .. z
        <5>1. N[i] < u /\ N[i] \in Nat
          BY <1>12, <1>13, <1>14, <2>1, <3>3, <4>1
        <5>2. QED
          BY <1>12, <4>1, <5>1
      <4>2. CASE i = z + 1
        BY <1>12, <3>1, <4>2
      <4>3. QED
        BY <1>12, <4>1, <4>2
    <3>4. ASSUME NEW n \in Nat, n < u + 1 PROVE \E i \in 1 .. z + 1 : P[i] = p /\ M[i] = n
      <4>1. CASE n < u
        <5>1. PICK i \in 1 .. z : O[i] = o /\ N[i] = n
          BY <1>14, <4>1, Zenon
        <5>2. QED
          BY <1>12, <2>1, <5>1, Zenon
      <4>2. CASE n = u
        BY <1>12, <2>1, <4>2, Zenon
      <4>3. n < u \/ n = u
        BY <3>4
      <4>4. QED
        BY <4>1, <4>2, <4>3
    <3>5. NextNumber(P, M, p, u + 1)'
      BY <1>15, <3>2, <3>3, <3>4 DEF NextNumber
    <3>6. QED
      BY <3>1, <3>5, Zenon
  <2>2. CASE p # o
    <3>1. PICK v \in Nat : NextNumber(O, N, p, v)
      BY Zenon DEF AckInv, Numbering
    <3>2. /\ tx_seq_number[p] = v % SEQ_MOD
          /\ \A i \in 1 .. z : O[i] = p => N[i] < v
          /\ \A n \in Nat : n < v => \E i \in 1 .. z : O[i] = p /\ N[i] = n
      BY <1>8, <3>1, Zenon DEF NextNumber
    <3>3. tx_seq_number'[p] = v % SEQ_MOD
      BY <1>1, <1>5, <2>2, <3>2
    <3>4. \A i \in 1 .. z + 1 : P[i] = p => M[i] < v
      BY <1>12, <2>2, <3>2, Zenon
    <3>5. \A n \in Nat : n < v => \E i \in 1 .. z + 1 : P[i] = p /\ M[i] = n
      BY <1>12, <3>2, Zenon
    <3>6. NextNumber(P, M, p, v)'
      BY <1>15, <3>3, <3>4, <3>5 DEF NextNumber
    <3>7. QED
      BY <3>6, Zenon
  <2>3. QED
    BY <2>1, <2>2
<1>18. PacketsRight(P, M)'
  <2>1. ASSUME NEW p, p.id \in 1 .. z, Carries(p, O, N) PROVE Carries(p, P, M)
    BY <1>12, <2>1, Zenon DEF Carries
  <2>2. Carries(m, P, M)
    BY <1>4, <1>8, <1>12, <1>14, Zenon DEF Carries
  <2>3. \A k \in 1 .. Len(tx_queue) : Carries(tx_queue[k], P, M)
    <3>1. \A k \in 1 .. Len(tx_queue) : tx_queue[k].id \in 1 .. z /\ Carries(tx_queue[k], O, N)
      BY <1>8, Zenon DEF OrderInv, Numbered, AckInv, PacketsRight
    <3>2. QED
      BY <2>1, <3>1
  <2>4. \A k \in 1 .. Len(netOut) : Carries(netOut[k], P, M)
    <3>1. \A k \in 1 .. Len(netOut) : netOut[k].id \in 1 .. z /\ Carries(netOut[k], O, N)
      BY <1>8, Zenon DEF OrderInv, Numbered, AckInv, PacketsRight
    <3>2. QED
      BY <2>1, <3>1
  <2>5. \A k \in 1 .. Len(tx_queue') : Carries(tx_queue'[k], P, M)
    BY <1>7, <2>2, <2>3, Zenon
  <2>6. \A k \in 1 .. Len(netOut') : Carries(netOut'[k], P, M)
    BY <1>5, <2>4, Zenon
  <2>7. QED
    BY <2>5, <2>6, Zenon DEF PacketsRight, Carries
<1>19. QueueIsRest'
  <2>1. PICK l \in Nat : l = Len(tx_queue)
    BY <1>1
  <2>2. /\ l <= z
        /\ \A k \in 1 .. l : tx_queue[k].id = z - l + k
        /\ \A i \in 1 .. z : i <= z - l => i \in acked \/ i \in givenUp
        /\ \A i \in givenUp : i \in 1 .. z
    BY <1>8, <2>1, Zenon DEF AckInv, QueueIsRest
  <2>3. Len(tx_queue') = l + 1 /\ l + 1 <= z + 1 /\ z + 1 - (l + 1) = z - l
    BY <1>7, <1>8, <2>1, <2>2
  <2>4. ASSUME NEW k \in 1 .. l + 1 PROVE tx_queue'[k].id = z + 1 - (l + 1) + k
    <3>1. CASE k \in 1 .. l
      BY <1>7, <2>1, <2>2, <2>3, <3>1
    <3>2. CASE k = l + 1
      <4>1. tx_queue'[k].id = z + 1
        BY <1>4, <1>7, <1>8, <2>1, <3>2
      <4>2. QED
        BY <1>8, <2>1, <3>2, <4>1
    <3>3. QED
      BY <2>1, <3>1, <3>2
  <2>5. ASSUME NEW i \in 1 .. z + 1, i <= z + 1 - (l + 1) PROVE i \in acked \/ i \in givenUp
    <3>1. i \in 1 .. z /\ i <= z - l
      BY <1>8, <2>1, <2>2, <2>5
    <3>2. QED
      BY <2>2, <3>1, Zenon
  <2>6. \A i \in givenUp : i \in 1 .. z + 1
    BY <1>12, <2>2, Zenon
  <2>7. acked' = acked /\ givenUp' = givenUp
    BY <1>5
  <2>8. QED
    BY <1>15, <2>3, <2>4, <2>5, <2>6, <2>7 DEF QueueIsRest
<1>20. AcksRight(P, M, A)'
  <2>1. /\ A \in [1 .. Len(netIn) -> 1 .. z]
        /\ \A k \in 1 .. Len(netIn) :
             /\ IsDelivered(A[k]) /\ netIn[k].op = O[A[k]]
             /\ netIn[k].seq = N[A[k]] % SEQ_MOD /\ \A a \in acked : a <= A[k]
        /\ \A i, j \in 1 .. Len(netIn) : i < j => A[i] <= A[j]
    BY <1>8, Zenon DEF AckInv, AcksRight
  <2>2. \A k \in 1 .. Len(netIn) : A[k] \in 1 .. z
    BY <2>1
  <2>3. A \in [1 .. Len(netIn) -> 1 .. z + 1]
    BY <1>12, <2>1
  <2>4. \A k \in 1 .. Len(netIn) :
          /\ IsDelivered(A[k]) /\ netIn[k].op = P[A[k]]
          /\ netIn[k].seq = M[A[k]] % SEQ_MOD /\ \A a \in acked : a <= A[k]
    BY <1>12, <2>1, <2>2, Zenon
  <2>5. \A i : IsDelivered(i)' <=> IsDelivered(i)
    BY <1>5, Zenon DEF IsDelivered
  <2>6. netIn' = netIn /\ acked' = acked
    BY <1>5
  <2>7. QED
    BY <1>15, <2>1, <2>3, <2>4, <2>5, <2>6, Zenon DEF AcksRight
<1>21. \A i : IsDelivered(i) => i \in Nat /\ i <= z
  <2> SUFFICES ASSUME NEW i, IsDelivered(i) PROVE i \in Nat /\ i <= z
    OBVIOUS
  <2>1. i \in Nat /\ i <= Newest
    BY DeliveredIds
  <2>2. Newest \in 0 .. z
    BY <1>8 DEF OrderInv, Numbered
  <2>3. QED
    BY <1>8, <2>1, <2>2
<1>22. MspRemembers(P, M)'
  <2> SUFFICES ASSUME NEW p \in Opcode, mspLast'[p] # NoSeq
               PROVE  \E d \in 1 .. sent' : LastOf(P, M, p, d)'
    BY Zenon DEF MspRemembers
  <2>1. mspLast' = mspLast
    BY <1>5
  <2>2. PICK d \in 1 .. z : LastOf(O, N, p, d)
    BY <1>8, <2>1, Zenon DEF AckInv, MspRemembers
  <2>3. \A i : IsDelivered(i)' <=> IsDelivered(i)
    BY <1>5, Zenon DEF IsDelivered
  <2>4. IsDelivered(d)' /\ P[d] = p /\ mspLast'[p] = M[d] % SEQ_MOD /\ d \in 1 .. z + 1
    BY <1>12, <2>1, <2>2, <2>3, Zenon DEF LastOf
  <2>5. ASSUME NEW i \in 1 .. z + 1, IsDelivered(i), P[i] = p PROVE i <= d
    <3>1. i \in 1 .. z
      BY <1>8, <1>21, <2>5
    <3>2. QED
      BY <1>8, <1>12, <2>2, <2>5, <3>1, Zenon DEF LastOf
  <2>6. LastOf(P, M, p, d)'
    BY <1>15, <2>3, <2>4, <2>5 DEF LastOf
  <2>7. QED
    BY <1>15, <2>4, <2>6, Zenon
<1>23. Arming'
  <2>1. tx_queue' # <<>>
    BY <1>1, <1>6
  <2>2. Newest' = Newest /\ netOut' = netOut /\ timer' = timer
    BY <1>5 DEF Newest, Pipe!Newest
  <2>3. CASE tx_queue # <<>> /\ UNCHANGED <<pc, skb>>
    <3>1. 1 \in 1 .. Len(tx_queue)
      BY <1>1, <2>3
    <3>2. tx_queue'[1] = tx_queue[1]
      BY <1>7, <3>1
    <3>3. pc' = pc /\ skb' = skb
      BY <2>3
    <3>4. \A t \in Senders : pc'[t] \in {"idle", "arm", "xmit"}
      BY <3>3, Zenon DEF AckInv, Arming
    <3>5. \A t \in Senders : pc[t] = "arm" =>
            /\ skb[t] = tx_queue[1]
            /\ ~timer
            /\ Newest < skb[t].id
            /\ \A i \in 1 .. Len(netOut) : netOut[i].id < skb[t].id
            /\ \A v \in Senders : pc[v] = "arm" => v = t
      BY Zenon DEF AckInv, Arming
    <3>6. QED
      BY <2>1, <2>2, <3>2, <3>3, <3>4, <3>5, Zenon DEF Arming
  <2>4. CASE /\ tx_queue = <<>>
             /\ pc' = [pc EXCEPT ![s] = "arm"]
             /\ skb' = [skb EXCEPT ![s] = m]
    <3>1. /\ \A t \in Senders : pc[t] \in {"idle", "arm", "xmit"} /\ pc[t] # "arm"
          /\ ~timer
      BY <2>4, Zenon DEF AckInv, Arming
    <3>2. /\ pc'[s] = "arm" /\ skb'[s] = m
          /\ \A t \in Senders : t # s => pc'[t] \in {"idle", "arm", "xmit"} /\ pc'[t] # "arm"
      BY <2>4, <3>1 DEF TypeOK
    <3>3. tx_queue'[1] = m
      BY <1>7, <2>4
    <3>4. Newest < m.id
      BY <1>1, <1>4 DEF OrderInv, Numbered
    <3>5. \A i \in 1 .. Len(netOut) : netOut[i].id < m.id
      BY <1>1, <1>4 DEF OrderInv, Numbered
    <3>6. \A t \in Senders : pc'[t] = "arm" => t = s
      BY <3>2, Zenon
    <3>7. \A t \in Senders : pc'[t] \in {"idle", "arm", "xmit"}
      BY <3>2, Zenon
    <3>8. \A t \in Senders : pc'[t] = "arm" =>
            /\ tx_queue' # <<>> /\ skb'[t] = tx_queue'[1] /\ ~timer'
            /\ Newest' < skb'[t].id
            /\ \A i \in 1 .. Len(netOut') : netOut'[i].id < skb'[t].id
            /\ \A v \in Senders : pc'[v] = "arm" => v = t
      BY <2>1, <2>2, <3>1, <3>2, <3>3, <3>4, <3>5, <3>6, Zenon
    <3>9. QED
      BY <2>1, <3>7, <3>8, Zenon DEF Arming
  <2>5. QED
    BY <1>6, <2>3, <2>4
<1>24. AckedWasDelivered' /\ Running'
  <2>1. UNCHANGED <<acked, delivered>> /\ UNCHANGED oops
    BY <1>5
  <2>2. QED
    BY <2>1, AckFrames DEF AckInv
<1>25. ThreadsCarry(P, M)'
  <2> SUFFICES ASSUME NEW t \in Senders, pc'[t] # "idle" PROVE Carries(skb'[t], P, M)
    BY Zenon DEF ThreadsCarry, Carries
  <2>1. \/ skb'[t] = m
        \/ pc[t] # "idle" /\ skb'[t] = skb[t]
    BY <1>6 DEF TypeOK
  <2>2. Carries(m, P, M)
    BY <1>4, <1>8, <1>12, <1>14, Zenon DEF Carries
  <2>3. ASSUME pc[t] # "idle" PROVE Carries(skb[t], P, M)
    <3>1. skb[t].id \in 1 .. z
      BY <1>8, <2>3 DEF OrderInv, ThreadsInOrder, ThreadInOrder
    <3>2. Carries(skb[t], O, N)
      BY <2>3, Zenon DEF AckInv, ThreadsCarry
    <3>3. QED
      BY <1>12, <3>1, <3>2, Zenon DEF Carries
  <2>4. QED
    BY <2>1, <2>2, <2>3
<1>26. OpenIsQueued'
  <2>1. PICK l \in Nat : l = Len(tx_queue)
    BY <1>1
  <2>2. sent' - Len(tx_queue') = sent - Len(tx_queue)
    <3>1. sent' = z + 1 /\ Len(tx_queue') = l + 1 /\ sent = z /\ Len(tx_queue) = l
      BY <1>7, <1>8, <1>15, <2>1
    <3>2. z + 1 - (l + 1) = z - l
      BY <1>8, <2>1
    <3>3. QED
      BY <3>1, <3>2
  <2>3. acked' = acked /\ givenUp' = givenUp
    BY <1>5
  <2>4. QED
    BY <2>2, <2>3, Zenon DEF AckInv, OpenIsQueued
<1>27. QED
  BY <1>16, <1>17, <1>18, <1>19, <1>20, <1>22, <1>23, <1>24, <1>25, <1>26 DEF AckInv

-----------------------------------------------------------------------------
\* As long as few messages are given up, there is a history.
AckKept == FewGivenUp => \E O, N, A : AckInv(O, N, A)

\* Messages once given up stay given up, and there are finitely many.
GivenUpIds == givenUp \subseteq 1 .. sent

\* Every step keeps givenUp a set of message ids.
LEMMA GivenUpStep ==
  ASSUME TypeOK, OrderInv, GivenUpIds, [Next]_vars
  PROVE  GivenUpIds' /\ givenUp \subseteq givenUp'
<1> USE DEF chanVars, thrVars, linkVars, mspVars, histVars
<1>1. sent \in Nat
  BY DEF TypeOK
<1>2. ASSUME handle_channel_timeout PROVE GivenUpIds' /\ givenUp \subseteq givenUp'
  <2>1. CASE tx_queue # <<>> /\ retries = 0
    <3>1. givenUp' = givenUp \cup {Head(tx_queue).id} /\ sent' = sent
      BY <1>2, <2>1 DEF handle_channel_timeout
    <3>2. 1 \in 1 .. Len(tx_queue) /\ Head(tx_queue) = tx_queue[1]
      BY <2>1 DEF TypeOK
    <3>3. Head(tx_queue).id \in 1 .. sent
      BY <3>2 DEF OrderInv, Numbered
    <3>4. QED
      BY <3>1, <3>3, Zenon DEF GivenUpIds
  <2>2. CASE ~(tx_queue # <<>> /\ retries = 0)
    <3>1. givenUp' = givenUp /\ sent' = sent
      BY <1>2, <2>2, Zenon DEF handle_channel_timeout
    <3>2. QED
      BY <3>1, Zenon DEF GivenUpIds
  <2>3. QED
    BY <2>1, <2>2
<1>3. ASSUME NEW s \in Senders, NEW o \in Opcode, csme_tx(s, o)
      PROVE  GivenUpIds' /\ givenUp \subseteq givenUp'
  <2>1. givenUp' = givenUp /\ sent' = sent + 1
    BY <1>3 DEF csme_tx
  <2>2. \A i \in 1 .. sent : i \in 1 .. sent + 1
    BY <1>1
  <2>3. QED
    BY <2>1, <2>2, Zenon DEF GivenUpIds
<1>4. ASSUME NEW s \in Senders, csme_tx_arm(s) \/ csme_tx_clone(s) \/ csme_tx_xmit(s)
      PROVE  UNCHANGED <<givenUp, sent>>
  BY <1>4 DEF csme_tx_arm, csme_tx_clone, csme_tx_xmit
<1>5. ASSUME csme_rx_ack \/ csme_ack_enable \/ channel_reset \/ MspReceive \/ UNCHANGED vars
      PROVE  UNCHANGED <<givenUp, sent>>
  BY <1>5 DEF csme_rx_ack, csme_ack_enable, channel_reset, MspReceive, vars
<1>6. UNCHANGED <<givenUp, sent>> => GivenUpIds' /\ givenUp \subseteq givenUp'
  BY Zenon DEF GivenUpIds
<1>7. QED
  BY <1>2, <1>3, <1>4, <1>5, <1>6 DEF Next, Process, Softirq, Option

\* Few now means few before.
LEMMA FewBefore ==
  ASSUME TypeOK', GivenUpIds', givenUp \subseteq givenUp', FewGivenUp'
  PROVE  FewGivenUp
<1>1. sent' \in Nat
  BY DEF TypeOK
<1>2. 1 \in Int /\ sent' \in Int
  BY <1>1
<1>3. PICK G : G = givenUp'
  OBVIOUS
<1>4. PICK I : I = 1 .. sent'
  OBVIOUS
<1>5. IsFiniteSet(I)
  BY <1>2, <1>4, FS_Interval, Zenon
<1>6. G \in SUBSET I /\ givenUp \in SUBSET G
  BY <1>3, <1>4, Zenon DEF GivenUpIds
<1>7. IsFiniteSet(G)
  BY <1>5, <1>6, FS_Subset, Zenon
<1>8. IsFiniteSet(givenUp) /\ Cardinality(givenUp) <= Cardinality(G)
  BY <1>6, <1>7, FS_Subset, Zenon
<1>9. Cardinality(G) \in Nat /\ Cardinality(givenUp) \in Nat
  BY <1>7, <1>8, FS_CardinalityType, Zenon
<1>10. Cardinality(G) + 1 < SEQ_MOD
  BY <1>3 DEF FewGivenUp
<1>11. QED
  BY <1>8, <1>9, <1>10, SeqAssumption DEF FewGivenUp

\* Every step keeps a history.
LEMMA AckStep ==
  ASSUME Steady, TypeOK, TypeOK', OrderInv, ServedInv, GivenUpIds, AckKept, [Next]_vars
  PROVE  AckKept'
<1> USE DEF chanVars, thrVars, linkVars, mspVars, histVars
<1> SUFFICES ASSUME FewGivenUp' PROVE \E O, N, A : AckInv(O, N, A)'
  BY Zenon DEF AckKept
<1>1. FewGivenUp
  BY GivenUpStep, FewBefore
<1>2. PICK O, N, A : AckInv(O, N, A)
  BY <1>1, Zenon DEF AckKept
<1>3. ASSUME NEW s \in Senders, NEW o \in Opcode, csme_tx(s, o)
      PROVE  \E P, M, B : AckInv(P, M, B)'
  <2>1. \E P, M : AckInv(P, M, A)'
    BY <1>2, <1>3, AcceptKeeps
  <2>2. QED
    BY <2>1, Zenon
<1>4. ASSUME NEW s \in Senders, csme_tx_arm(s) PROVE AckInv(O, N, A)'
  BY <1>2, <1>4, ArmKeeps
<1>5. ASSUME NEW s \in Senders, csme_tx_clone(s) PROVE FALSE
  <2>1. pc[s] \in {"idle", "arm", "xmit"}
    BY <1>2, Zenon DEF AckInv, Arming
  <2>2. pc[s] = "clone"
    BY <1>5, Zenon DEF csme_tx_clone
  <2>3. QED
    BY <2>1, <2>2
<1>12. ASSUME NEW s \in Senders, csme_tx_xmit(s) PROVE AckInv(O, N, A)'
  BY <1>2, <1>12, XmitKeeps
<1>6. ASSUME csme_rx_ack PROVE \E B : AckInv(O, N, B)'
  BY <1>1, <1>2, <1>6, RxAckKeeps
<1>7. ASSUME handle_channel_timeout PROVE AckInv(O, N, A)'
  BY <1>2, <1>7, TimeoutKeeps
<1>8. ASSUME MspReceive PROVE \E B : AckInv(O, N, B)'
  BY <1>1, <1>2, <1>8, MspKeeps
<1>9. ASSUME channel_reset PROVE FALSE
  BY <1>9, Zenon DEF channel_reset, Steady
<1>10. ASSUME csme_ack_enable \/ UNCHANGED vars PROVE AckInv(O, N, A)'
  <2>1. UNCHANGED <<chanVars, thrVars, oops, linkVars, mspVars, histVars>>
    BY <1>10, Zenon DEF csme_ack_enable, vars
  <2>2. /\ UNCHANGED sent /\ UNCHANGED <<sent, tx_seq_number>> /\ UNCHANGED <<tx_queue, netOut>>
        /\ UNCHANGED <<tx_queue, sent, acked, givenUp>> /\ UNCHANGED <<netIn, sent, delivered, acked>>
        /\ UNCHANGED <<sent, delivered, mspLast>>
        /\ UNCHANGED <<timer, tx_queue, netOut, pc, skb, delivered>>
        /\ UNCHANGED <<acked, delivered>> /\ UNCHANGED oops /\ UNCHANGED <<pc, skb>>
    BY <2>1
  <2>3. QED
    BY <1>2, <2>2, AckFrames DEF AckInv
<1>11. QED
  <2>1. \/ \E s \in Senders : \E o \in Opcode : csme_tx(s, o)
        \/ \E s \in Senders : csme_tx_arm(s)
        \/ \E s \in Senders : csme_tx_clone(s)
        \/ \E s \in Senders : csme_tx_xmit(s)
        \/ csme_rx_ack \/ handle_channel_timeout \/ MspReceive
        \/ channel_reset \/ csme_ack_enable \/ UNCHANGED vars
    BY Zenon DEF Next, Process, Softirq, Option
  <2>2. QED
    BY <1>3, <1>4, <1>5, <1>6, <1>7, <1>8, <1>9, <1>10, <1>12, <2>1, Zenon

\* There is a history at the start: the empty one.
LEMMA AckInit == Init => AckKept
<1> SUFFICES ASSUME Init PROVE \E O, N, A : AckInv(O, N, A)
  BY Zenon DEF AckKept
<1>1. /\ tx_queue = <<>> /\ netOut = <<>> /\ netIn = <<>> /\ delivered = <<>>
      /\ sent = 0 /\ acked = {} /\ givenUp = {} /\ timer = FALSE /\ oops = "none"
  BY DEF Init
<1>2. PICK E : E = [i \in 1 .. 0 |-> 0]
  OBVIOUS
<1>3. \A S : E \in [1 .. 0 -> S]
  BY <1>2
<1>4. /\ 1 .. sent = 1 .. 0 /\ 1 .. Len(tx_queue) = 1 .. 0 /\ 1 .. Len(netOut) = 1 .. 0
      /\ 1 .. Len(netIn) = 1 .. 0 /\ 1 .. Len(delivered) = 1 .. 0
      /\ Len(tx_queue) = 0
  BY <1>1
<1>5. \A i \in 1 .. 0 : FALSE
  OBVIOUS
<1>6. History(E, E)
  BY <1>3, <1>4, <1>5, Zenon DEF History
<1>7. Numbering(E, E)
  <2> SUFFICES ASSUME NEW o \in Opcode PROVE NextNumber(E, E, o, 0)
    BY DEF Numbering
  <2>1. tx_seq_number[o] = 0 % SEQ_MOD
    BY SeqAssumption DEF Init
  <2>2. \A n \in Nat : ~(n < 0)
    OBVIOUS
  <2>3. QED
    BY <1>4, <1>5, <2>1, <2>2, Zenon DEF NextNumber
<1>8. PacketsRight(E, E)
  BY <1>4, <1>5, Zenon DEF PacketsRight
<1>9. QueueIsRest
  <2>1. Len(tx_queue) <= sent
    BY <1>1, <1>4
  <2>2. QED
    BY <1>1, <1>4, <1>5, <2>1, Zenon DEF QueueIsRest
<1>10. AcksRight(E, E, E)
  BY <1>3, <1>4, <1>5, Zenon DEF AcksRight
<1>11. MspRemembers(E, E)
  BY DEF Init, MspRemembers
<1>12. Arming
  <2>1. \A s \in Senders : pc[s] = "idle"
    BY DEF Init
  <2>2. QED
    BY <1>1, <2>1 DEF Arming
<1>13. AckedWasDelivered /\ Running
  BY <1>1 DEF AckedWasDelivered, Running
<1>14. ThreadsCarry(E, E) /\ OpenIsQueued
  <2>1. \A s \in Senders : pc[s] = "idle"
    BY DEF Init
  <2>2. QED
    BY <1>1, <2>1, Zenon DEF ThreadsCarry, OpenIsQueued
<1>15. QED
  BY <1>6, <1>7, <1>8, <1>9, <1>10, <1>11, <1>12, <1>13, <1>14, Zenon DEF AckInv

\* A history says what the properties say.
LEMMA AckMeaning ==
  ASSUME TypeOK, AckKept, FewGivenUp
  PROVE  AckedWasDelivered /\ CopyKept /\ NoOops
<1>1. PICK O, N, A : AckInv(O, N, A)
  BY Zenon DEF AckKept
<1>2. AckedWasDelivered /\ NoOops
  BY <1>1, Zenon DEF AckInv, NoOops
<1>3. ASSUME NEW s \in Senders, pc[s] \in {"arm", "clone"} PROVE Queued(skb[s])
  <2>1. pc[s] \in {"idle", "arm", "xmit"}
    BY <1>1, Zenon DEF AckInv, Arming
  <2>2. pc[s] = "arm"
    BY <1>3, <2>1
  <2>3. tx_queue # <<>> /\ skb[s] = tx_queue[1]
    BY <1>1, <2>2, Zenon DEF AckInv, Arming
  <2>4. 1 \in 1 .. Len(tx_queue)
    BY <2>3 DEF TypeOK
  <2>5. QED
    BY <2>3, <2>4, Zenon DEF Queued
<1>4. CopyKept
  BY <1>3, Zenon DEF CopyKept
<1>5. QED
  BY <1>2, <1>4

\* The bound of the model on messages given up is kept.
LEMMA GivenUpBound ==
  ASSUME TypeOK, GivenUpIds, Cardinality(givenUp) <= MaxGivenUp, [Next]_vars
  PROVE  Cardinality(givenUp') <= MaxGivenUp
<1> USE DEF chanVars, thrVars, linkVars, mspVars, histVars
<1>1. sent \in Nat /\ 1 \in Int /\ sent \in Int
  BY DEF TypeOK
<1>2. IsFiniteSet(1 .. sent)
  BY <1>1, FS_Interval, Zenon
<1>3. givenUp \in SUBSET (1 .. sent)
  BY Zenon DEF GivenUpIds
<1>4. IsFiniteSet(givenUp)
  BY <1>2, <1>3, FS_Subset, Zenon
<1>5. Cardinality(givenUp) \in Nat
  BY <1>4, FS_CardinalityType, Zenon
<1>6. ASSUME handle_channel_timeout PROVE Cardinality(givenUp') <= MaxGivenUp
  <2>1. CASE tx_queue # <<>> /\ retries = 0
    <3>1. givenUp' = givenUp \cup {Head(tx_queue).id} /\ Cardinality(givenUp) < MaxGivenUp
      BY <1>6, <2>1 DEF handle_channel_timeout
    <3>2. PICK h : h = Head(tx_queue).id
      OBVIOUS
    <3>3. \/ Cardinality(givenUp \cup {h}) = Cardinality(givenUp)
          \/ Cardinality(givenUp \cup {h}) = Cardinality(givenUp) + 1
      BY <1>4, FS_AddElement, Zenon
    <3>4. PICK c \in Nat : c = Cardinality(givenUp)
      BY <1>5
    <3>5. c < MaxGivenUp /\ (Cardinality(givenUp') = c \/ Cardinality(givenUp') = c + 1)
      BY <3>1, <3>2, <3>3, <3>4
    <3>6. QED
      BY <3>4, <3>5, BoundsAssumption
  <2>2. CASE ~(tx_queue # <<>> /\ retries = 0)
    BY <1>6, <2>2, Zenon DEF handle_channel_timeout
  <2>3. QED
    BY <2>1, <2>2
<1>7. ASSUME NEW s \in Senders,
             (\E o \in Opcode : csme_tx(s, o)) \/ csme_tx_arm(s) \/ csme_tx_clone(s) \/ csme_tx_xmit(s)
      PROVE  givenUp' = givenUp
  BY <1>7, Zenon DEF csme_tx, csme_tx_arm, csme_tx_clone, csme_tx_xmit
<1>8. ASSUME csme_rx_ack \/ csme_ack_enable \/ channel_reset \/ MspReceive \/ UNCHANGED vars
      PROVE  givenUp' = givenUp
  BY <1>8, Zenon DEF csme_rx_ack, csme_ack_enable, channel_reset, MspReceive, vars
<1>9. givenUp' = givenUp => Cardinality(givenUp') <= MaxGivenUp
  BY Zenon
<1>10. QED
  BY <1>6, <1>7, <1>8, <1>9, Zenon DEF Next, Process, Softirq, Option

\* The invariant of a steady channel, for the bound MaxGivenUp.  All but the
\* types lasts until a thread transmits a message after a newer one.
SteadyInOrder ==
  /\ OrderInv
  /\ GivenUpIds
  /\ Cardinality(givenUp) <= MaxGivenUp
  /\ AckKept

SteadyInv == TypeOK /\ ServedInv /\ (~overtook => SteadyInOrder)

\* It holds at the start.
LEMMA SteadyInit == Init => SteadyInv
<1> SUFFICES ASSUME Init PROVE SteadyInv
  OBVIOUS
<1>1. givenUp = {}
  BY DEF Init
<1>2. Cardinality({}) = 0
  BY FS_EmptySet, Zenon
<1>3. Cardinality(givenUp) <= MaxGivenUp
  BY <1>1, <1>2, BoundsAssumption
<1>4. GivenUpIds
  BY <1>1, Zenon DEF GivenUpIds
<1>5. SteadyInOrder
  BY <1>3, <1>4, OrderInit, AckInit, Zenon DEF SteadyInOrder
<1>6. QED
  BY <1>5, TypeInit, ServedInit, Zenon DEF SteadyInv

\* Every step keeps it.
LEMMA SteadyStep ==
  ASSUME Steady, SteadyInv, [Next]_vars
  PROVE  SteadyInv'
<1>1. AlwaysAcked
  BY DEF Steady
<1>2. TypeOK /\ ServedInv
  BY DEF SteadyInv
<1>3. TypeOK'
  BY <1>2, TypeStep
<1>4. ServedInv'
  BY <1>1, <1>2, ServedStep
<1>5. ASSUME ~overtook' PROVE SteadyInOrder'
  <2>1. ~overtook
    BY <1>5, OvertookStays
  <2>2. OrderInv /\ GivenUpIds /\ AckKept /\ Cardinality(givenUp) <= MaxGivenUp
    BY <2>1 DEF SteadyInv, SteadyInOrder
  <2>3. OrderInv'
    BY <1>2, <1>3, <1>5, <2>2, OrderStep
  <2>4. GivenUpIds'
    BY <1>2, <2>2, GivenUpStep
  <2>5. Cardinality(givenUp') <= MaxGivenUp
    BY <1>2, <2>2, GivenUpBound
  <2>6. AckKept'
    BY <1>2, <1>3, <2>2, AckStep
  <2>7. QED
    BY <2>3, <2>4, <2>5, <2>6 DEF SteadyInOrder
<1>6. QED
  BY <1>3, <1>4, <1>5 DEF SteadyInv

\* When the bound is below the number of messages after which sequence
\* numbers come round, few messages are given up.
LEMMA SteadyFew ==
  ASSUME SteadyInv, ~overtook, MaxGivenUp + 1 < SEQ_MOD
  PROVE  FewGivenUp /\ SteadyInOrder
<1>1. TypeOK /\ SteadyInOrder
  BY DEF SteadyInv
<1>2. sent \in Nat /\ 1 \in Int /\ sent \in Int
  BY <1>1 DEF TypeOK
<1>3. IsFiniteSet(1 .. sent)
  BY <1>2, FS_Interval, Zenon
<1>4. givenUp \in SUBSET (1 .. sent)
  BY <1>1, Zenon DEF SteadyInOrder, GivenUpIds
<1>5. IsFiniteSet(givenUp)
  BY <1>3, <1>4, FS_Subset, Zenon
<1>6. Cardinality(givenUp) \in Nat
  BY <1>5, FS_CardinalityType, Zenon
<1>7. FewGivenUp
  BY <1>1, <1>6, BoundsAssumption, SeqAssumption DEF SteadyInOrder, FewGivenUp
<1>8. QED
  BY <1>1, <1>7

\* It says what the properties say.
LEMMA SteadyMeaning ==
  ASSUME SteadyInv, ~overtook, MaxGivenUp + 1 < SEQ_MOD
  PROVE  AckedWasDelivered /\ CopyKept /\ NoOops
<1>1. TypeOK /\ AckKept /\ FewGivenUp
  BY SteadyFew DEF SteadyInv, SteadyInOrder
<1>2. QED
  BY <1>1, AckMeaning

\* csme_rx_ack() takes no stale ack for the ack of a later message, although
\* sequence numbers are cut to a few bits and wrap: what it drops from the
\* queue the MSP has accepted.  Therefore the skb that csme_tx() clones after
\* the unlock has not been freed, and nothing crashes.  It holds with any
\* number of threads, opcodes, retries and losses, as long as fewer than
\* SEQ_MOD - 1 messages have been given up (with SEQ_MOD - 1 of them the
\* sequence numbers come round and the MSP takes a new message for an old
\* one) and no thread has transmitted a message after a newer one.
THEOREM NoStaleAckTaken ==
  ASSUME Steady
  PROVE  Spec => [](FewGivenUp /\ ~overtook => AckedWasDelivered /\ CopyKept /\ NoOops)
<1>1. SteadyInv /\ [Next]_vars => SteadyInv'
  BY SteadyStep
<1>2. SteadyInv => (FewGivenUp /\ ~overtook => AckedWasDelivered /\ CopyKept /\ NoOops)
  BY AckMeaning DEF SteadyInv, SteadyInOrder
<1>3. QED
  BY <1>1, <1>2, SteadyInit, PTL DEF Spec
-----------------------------------------------------------------------------
(***************************************************************************)
(* The channel implements CsmePipe.                                        *)
(***************************************************************************)

\* The head of the queue is the oldest message that is not settled.
LEMMA HeadIsOldest ==
  ASSUME TypeOK, OrderInv, NEW O, NEW N, NEW A, AckInv(O, N, A), tx_queue # <<>>
  PROVE  /\ Head(tx_queue) = tx_queue[1] /\ 1 \in 1 .. Len(tx_queue)
         /\ tx_queue[1].id \in 1 .. sent
         /\ Pipe!Oldest(tx_queue[1].id)
<1>1. /\ Head(tx_queue) = tx_queue[1] /\ 1 \in 1 .. Len(tx_queue)
      /\ sent \in Nat
  BY DEF TypeOK
<1>2. PICK l \in Nat : l = Len(tx_queue)
  BY DEF TypeOK
<1>3. PICK h \in 1 .. sent : h = tx_queue[1].id
  BY <1>1 DEF OrderInv, Numbered
<1>4. h = sent - l + 1
  BY <1>1, <1>2, <1>3 DEF AckInv, QueueIsRest
<1>5. ~(h <= sent - l) /\ \A j \in 1 .. h - 1 : j \in 1 .. sent /\ j <= sent - l
  BY <1>1, <1>2, <1>3, <1>4
<1>6. h \notin acked /\ h \notin givenUp
  BY <1>2, <1>5, Zenon DEF AckInv, OpenIsQueued
<1>7. \A j \in 1 .. h - 1 : j \in acked \/ j \in givenUp
  BY <1>2, <1>5, Zenon DEF AckInv, QueueIsRest
<1>8. Pipe!Oldest(h)
  BY <1>6, <1>7, Zenon DEF Pipe!Oldest, Pipe!Settled
<1>9. QED
  BY <1>1, <1>3, <1>8

\* Every step of a steady channel is a step of the pipe, or leaves it alone.
LEMMA PipeStep ==
  ASSUME Steady, SteadyInv, MaxGivenUp + 1 < SEQ_MOD, [Next]_vars
  PROVE  [Pipe!Next]_(Pipe!vars)
<1> USE DEF chanVars, thrVars, linkVars, mspVars, histVars
<1>1. CASE overtook
  <2>1. overtook'
    BY <1>1, OvertookStays
  <2>2. QED
    BY <1>1, <2>1 DEF Pipe!Next
<1>2. CASE ~overtook
  <2>1. TypeOK /\ OrderInv /\ FewGivenUp
    BY <1>2, SteadyFew DEF SteadyInv, SteadyInOrder
  <2>2. PICK O, N, A : AckInv(O, N, A)
    BY <1>2, <2>1, SteadyFew, Zenon DEF SteadyInOrder, AckKept
  <2>3. ASSUME NEW s \in Senders, NEW o \in Opcode, csme_tx(s, o) PROVE Pipe!Next
    BY <2>3 DEF csme_tx, CanSend, NextSeq, Pipe!Next, Pipe!Accept
  <2>4. ASSUME MspReceive PROVE Pipe!Next \/ UNCHANGED Pipe!vars
    <3>1. UNCHANGED <<sent, acked, givenUp, overtook>>
      BY <2>4 DEF MspReceive
    <3>2. CASE UNCHANGED <<mspLast, delivered>>
      BY <3>1, <3>2 DEF Pipe!vars
    <3>3. CASE /\ delivered' = Append(delivered, netOut[1].id)
               /\ Newest < netOut[1].id
               /\ netOut[1].id \in 1 .. sent
      <4>1. Newest \in Nat /\ sent \in Nat
        BY <2>1, IdTypes DEF TypeOK
      <4>2. netOut[1].id \in Pipe!Newest + 1 .. sent
        BY <3>3, <4>1 DEF Newest
      <4>3. QED
        BY <3>1, <3>3, <4>2, Zenon DEF Pipe!Next, Pipe!Deliver
    <3>4. QED
      BY <2>1, <2>4, <3>2, <3>3, MspStep
  <2>5. ASSUME csme_rx_ack PROVE Pipe!Next \/ UNCHANGED Pipe!vars
    <3>1. UNCHANGED <<sent, delivered, givenUp, overtook>> /\ netIn # <<>>
      BY <2>5 DEF csme_rx_ack
    <3>2. CASE ~Answers(Head(netIn))
      BY <2>5, <3>1, <3>2 DEF csme_rx_ack, Pipe!vars
    <3>3. CASE Answers(Head(netIn))
      <4>1. acked' = acked \cup {Head(tx_queue).id} /\ tx_queue # <<>>
        BY <2>5, <3>3, Zenon DEF csme_rx_ack, Answers
      <4>2. /\ Head(tx_queue) = tx_queue[1]
            /\ tx_queue[1].id \in 1 .. sent /\ Pipe!Oldest(tx_queue[1].id)
        BY <2>1, <2>2, <4>1, HeadIsOldest
      <4>3. A[1] = tx_queue[1].id /\ 1 \in 1 .. Len(netIn)
        BY <2>1, <2>2, <3>1, <3>3, AckForHead
      <4>4. IsDelivered(tx_queue[1].id)
        BY <2>2, <4>3, Zenon DEF AckInv, AcksRight
      <4>5. Pipe!Confirm
        BY <3>1, <4>1, <4>2, <4>4, Zenon DEF Pipe!Confirm, IsDelivered
      <4>6. QED
        BY <4>5 DEF Pipe!Next
    <3>4. QED
      BY <3>2, <3>3
  <2>6. ASSUME handle_channel_timeout PROVE Pipe!Next \/ UNCHANGED Pipe!vars
    <3>1. UNCHANGED <<sent, delivered, acked, overtook>>
      BY <2>6 DEF handle_channel_timeout
    <3>2. CASE tx_queue # <<>> /\ retries = 0
      <4>1. givenUp' = givenUp \cup {Head(tx_queue).id}
        BY <2>6, <3>2 DEF handle_channel_timeout
      <4>2. /\ Head(tx_queue) = tx_queue[1]
            /\ tx_queue[1].id \in 1 .. sent /\ Pipe!Oldest(tx_queue[1].id)
        BY <2>1, <2>2, <3>2, HeadIsOldest
      <4>3. Pipe!GiveUp
        BY <3>1, <4>1, <4>2, Zenon DEF Pipe!GiveUp
      <4>4. QED
        BY <4>3 DEF Pipe!Next
    <3>3. CASE ~(tx_queue # <<>> /\ retries = 0)
      <4>1. givenUp' = givenUp
        BY <2>6, <3>3, Zenon DEF handle_channel_timeout
      <4>2. QED
        BY <3>1, <4>1 DEF Pipe!vars
    <3>4. QED
      BY <3>2, <3>3
  <2>7. ASSUME NEW s \in Senders, csme_tx_xmit(s) PROVE Pipe!Next \/ UNCHANGED Pipe!vars
    <3>1. UNCHANGED <<sent, delivered, acked, givenUp>> /\ overtook' = (overtook \/ Overtaken(skb[s]))
      BY <2>7 DEF csme_tx_xmit
    <3>2. CASE Overtaken(skb[s])
      BY <3>1, <3>2 DEF Pipe!Next, Pipe!Overtake
    <3>3. CASE ~Overtaken(skb[s])
      <4>1. overtook' = overtook
        BY <3>1, <3>3, <2>1 DEF TypeOK
      <4>2. QED
        BY <3>1, <4>1 DEF Pipe!vars
    <3>4. QED
      BY <3>2, <3>3
  <2>8. ASSUME NEW s \in Senders, csme_tx_arm(s) \/ csme_tx_clone(s) PROVE UNCHANGED Pipe!vars
    BY <2>8 DEF csme_tx_arm, csme_tx_clone, Pipe!vars
  <2>9. ASSUME csme_ack_enable \/ channel_reset \/ UNCHANGED vars PROVE UNCHANGED Pipe!vars
    BY <2>9 DEF csme_ack_enable, channel_reset, vars, Pipe!vars
  <2>10. QED
    BY <2>3, <2>4, <2>5, <2>6, <2>7, <2>8, <2>9 DEF Next, Process, Softirq, Option
<1>3. QED
  BY <1>1, <1>2

\* The channel implements the pipe of CsmePipe: until a thread transmits a
\* message after a newer one, the MSP gets the messages in order and none
\* twice, and csme_rx_ack() and handle_channel_timeout() settle them in the
\* order of their acceptance, each once, confirming only what the MSP has.
THEOREM ImplementsPipe ==
  ASSUME Steady, MaxGivenUp + 1 < SEQ_MOD
  PROVE  Spec => PipeSpec
<1>1. Init => Pipe!Init
  BY DEF Init, Pipe!Init
<1>2. SteadyInv /\ [Next]_vars => SteadyInv'
  BY SteadyStep
<1>3. SteadyInv /\ [Next]_vars => [Pipe!Next]_(Pipe!vars)
  BY PipeStep
<1>4. QED
  BY <1>1, <1>2, <1>3, SteadyInit, PTL DEF Spec, PipeSpec, Pipe!Spec
=============================================================================
