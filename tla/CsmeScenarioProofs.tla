------------------------- MODULE CsmeScenarioProofs -------------------------
(***************************************************************************)
(* The scenarios of MC_CsmeChannel, each of which is a channel with        *)
(* constants of its own: what CsmeChannelProofs proves of every channel,   *)
(* used for each of them.                                                  *)
(***************************************************************************)
EXTENDS CsmeChannelProofs, MC_CsmeChannel

WrapProofs == INSTANCE CsmeChannelProofs WITH
                Opcode <- FirstOpcode, RETRIES <- 1, SEQ_MOD <- 3, MaxMsg <- 5,
                MaxGivenUp <- 1, NetCap <- 3

FaultsProofs == INSTANCE CsmeChannelProofs WITH
                  Opcode <- FirstOpcode, RETRIES <- 1, SEQ_MOD <- 2, AckSup <- BOOLEAN,
                  CloneOutcomes <- {"prompt", "sleeps", "fails"}, Resets <- TRUE, NetCap <- 2

-----------------------------------------------------------------------------
\* The two instances of the scenario "wrap" are one channel.
LEMMA SameWrap ==
  /\ Wrap!Init <=> WrapProofs!Init
  /\ Wrap!Next <=> WrapProofs!Next
  /\ Wrap!TypeOK <=> WrapProofs!TypeOK
  /\ UNCHANGED vars => UNCHANGED WrapProofs!vars
<1>1. Wrap!Init <=> WrapProofs!Init
  BY Zenon DEF Wrap!Init, WrapProofs!Init, Wrap!NullSkb, WrapProofs!NullSkb,
         Wrap!NoSeq, WrapProofs!NoSeq
<1>2. Wrap!Next <=> WrapProofs!Next
  BY Zenon
     DEF Wrap!Next, WrapProofs!Next, Wrap!csme_tx, WrapProofs!csme_tx,
         Wrap!csme_tx_arm, WrapProofs!csme_tx_arm, Wrap!csme_tx_clone,
         WrapProofs!csme_tx_clone, Wrap!csme_tx_xmit,
         WrapProofs!csme_tx_xmit, Wrap!csme_rx_ack,
         WrapProofs!csme_rx_ack, Wrap!handle_channel_timeout,
         WrapProofs!handle_channel_timeout, Wrap!csme_ack_enable,
         WrapProofs!csme_ack_enable, Wrap!channel_reset,
         WrapProofs!channel_reset, Wrap!MspReceive,
         WrapProofs!MspReceive, Wrap!Process, WrapProofs!Process,
         Wrap!Softirq, WrapProofs!Softirq, Wrap!Option,
         WrapProofs!Option, Wrap!CloneSkb, WrapProofs!CloneSkb,
         Wrap!Overtaken, WrapProofs!Overtaken,
         Wrap!csme_tx_msg_next, WrapProofs!csme_tx_msg_next,
         Wrap!csme_tx_msg_finish, WrapProofs!csme_tx_msg_finish,
         Wrap!Answers, WrapProofs!Answers, Wrap!CanSend,
         WrapProofs!CanSend, Wrap!NextSeq, WrapProofs!NextSeq,
         Wrap!Queued, WrapProofs!Queued, Wrap!Running,
         WrapProofs!Running, Wrap!NullSkb, WrapProofs!NullSkb,
         Wrap!chanVars, WrapProofs!chanVars, Wrap!thrVars,
         WrapProofs!thrVars, Wrap!linkVars, WrapProofs!linkVars,
         Wrap!mspVars, WrapProofs!mspVars, Wrap!histVars,
         WrapProofs!histVars, Wrap!Cardinality, WrapProofs!Cardinality
<1>3. Wrap!TypeOK <=> WrapProofs!TypeOK
  BY Zenon DEF Wrap!TypeOK, WrapProofs!TypeOK, Wrap!Packet, WrapProofs!Packet,
         Wrap!Ack, WrapProofs!Ack, Wrap!Seqs, WrapProofs!Seqs,
         Wrap!NoSeq, WrapProofs!NoSeq
<1>4. UNCHANGED vars => UNCHANGED WrapProofs!vars
  BY Zenon DEF vars, chanVars, thrVars, linkVars, mspVars, histVars,
         WrapProofs!vars, WrapProofs!chanVars, WrapProofs!thrVars,
         WrapProofs!linkVars, WrapProofs!mspVars, WrapProofs!histVars
<1>5. QED
  BY <1>1, <1>2, <1>3, <1>4

\* The two instances of the scenario "faults" are one channel.
LEMMA SameFaults ==
  /\ Faults!Init <=> FaultsProofs!Init
  /\ Faults!Next <=> FaultsProofs!Next
  /\ Faults!TypeOK <=> FaultsProofs!TypeOK
  /\ UNCHANGED vars => UNCHANGED FaultsProofs!vars
<1>1. Faults!Init <=> FaultsProofs!Init
  BY Zenon DEF Faults!Init, FaultsProofs!Init, Faults!NullSkb,
         FaultsProofs!NullSkb, Faults!NoSeq, FaultsProofs!NoSeq
<1>2. Faults!Next <=> FaultsProofs!Next
  BY Zenon
     DEF Faults!Next, FaultsProofs!Next, Faults!csme_tx,
         FaultsProofs!csme_tx, Faults!csme_tx_arm,
         FaultsProofs!csme_tx_arm, Faults!csme_tx_clone,
         FaultsProofs!csme_tx_clone, Faults!csme_tx_xmit,
         FaultsProofs!csme_tx_xmit, Faults!csme_rx_ack,
         FaultsProofs!csme_rx_ack, Faults!handle_channel_timeout,
         FaultsProofs!handle_channel_timeout, Faults!csme_ack_enable,
         FaultsProofs!csme_ack_enable, Faults!channel_reset,
         FaultsProofs!channel_reset, Faults!MspReceive,
         FaultsProofs!MspReceive, Faults!Process, FaultsProofs!Process,
         Faults!Softirq, FaultsProofs!Softirq, Faults!Option,
         FaultsProofs!Option, Faults!CloneSkb, FaultsProofs!CloneSkb,
         Faults!Overtaken, FaultsProofs!Overtaken,
         Faults!csme_tx_msg_next, FaultsProofs!csme_tx_msg_next,
         Faults!csme_tx_msg_finish, FaultsProofs!csme_tx_msg_finish,
         Faults!Answers, FaultsProofs!Answers, Faults!CanSend,
         FaultsProofs!CanSend, Faults!NextSeq, FaultsProofs!NextSeq,
         Faults!Queued, FaultsProofs!Queued, Faults!Running,
         FaultsProofs!Running, Faults!NullSkb, FaultsProofs!NullSkb,
         Faults!chanVars, FaultsProofs!chanVars, Faults!thrVars,
         FaultsProofs!thrVars, Faults!linkVars, FaultsProofs!linkVars,
         Faults!mspVars, FaultsProofs!mspVars, Faults!histVars,
         FaultsProofs!histVars, Faults!Cardinality,
         FaultsProofs!Cardinality
<1>3. Faults!TypeOK <=> FaultsProofs!TypeOK
  BY Zenon DEF Faults!TypeOK, FaultsProofs!TypeOK, Faults!Packet,
         FaultsProofs!Packet, Faults!Ack, FaultsProofs!Ack, Faults!Seqs,
         FaultsProofs!Seqs, Faults!NoSeq, FaultsProofs!NoSeq
<1>4. UNCHANGED vars => UNCHANGED FaultsProofs!vars
  BY Zenon DEF vars, chanVars, thrVars, linkVars, mspVars, histVars,
         FaultsProofs!vars, FaultsProofs!chanVars, FaultsProofs!thrVars,
         FaultsProofs!linkVars, FaultsProofs!mspVars,
         FaultsProofs!histVars
<1>5. QED
  BY <1>1, <1>2, <1>3, <1>4

\* What the properties say of the scenario "wrap", they say of the channel.
LEMMA SameProperties ==
  /\ WrapProofs!AckedWasDelivered <=> AckedWasDelivered
  /\ WrapProofs!CopyKept <=> CopyKept
  /\ WrapProofs!NoOops <=> NoOops
  /\ WrapProofs!QueueServed <=> QueueServed
  /\ WrapProofs!Steady <=> Steady
  /\ WrapProofs!AlwaysAcked <=> AlwaysAcked
  BY Zenon
     DEF AckedWasDelivered, CopyKept, Queued, NoOops, Running, QueueServed, Quiet, Steady,
         AlwaysAcked, WrapProofs!AckedWasDelivered, WrapProofs!CopyKept,
         WrapProofs!Queued, WrapProofs!NoOops, WrapProofs!Running,
         WrapProofs!QueueServed, WrapProofs!Quiet, WrapProofs!Steady,
         WrapProofs!AlwaysAcked

\* The constants of the scenarios are what CsmeChannel assumes of its own.
LEMMA ScenarioConstants ==
  /\ 1 \in Nat /\ 5 \in Nat /\ 3 \in Nat /\ 3 \in Nat \ {0} /\ 2 \in Nat /\ 2 \in Nat \ {0}
  /\ BOOLEAN \subseteq BOOLEAN /\ TRUE \in BOOLEAN
  /\ {"prompt", "sleeps", "fails"} \subseteq {"prompt", "sleeps", "fails"}
  /\ 1 + 1 < 3
<1>1. 1 \in Nat /\ 5 \in Nat /\ 3 \in Nat /\ 3 \in Nat \ {0} /\ 2 \in Nat /\ 2 \in Nat \ {0} /\ 1 + 1 < 3
  OBVIOUS
<1>2. BOOLEAN \subseteq BOOLEAN /\ TRUE \in BOOLEAN
  BY Zenon
<1>3. {"prompt", "sleeps", "fails"} \subseteq {"prompt", "sleeps", "fails"}
  BY Zenon
<1>4. QED
  BY <1>1, <1>2, <1>3

\* The facts of CsmeChannelProofs that the scenario "wrap" needs.
LEMMA WrapFacts ==
  /\ WrapProofs!Init => WrapProofs!SteadyInv
  /\ Steady /\ WrapProofs!SteadyInv /\ [WrapProofs!Next]_(WrapProofs!vars) => WrapProofs!SteadyInv'
  /\ WrapProofs!SteadyInv /\ ~overtook => AckedWasDelivered /\ CopyKept /\ NoOops
  /\ WrapProofs!Init => WrapProofs!TypeOK /\ WrapProofs!ServedInv
  /\ WrapProofs!TypeOK /\ [WrapProofs!Next]_(WrapProofs!vars) => WrapProofs!TypeOK'
  /\ AlwaysAcked /\ WrapProofs!TypeOK /\ WrapProofs!ServedInv /\ [WrapProofs!Next]_(WrapProofs!vars)
       => WrapProofs!ServedInv'
  /\ WrapProofs!ServedInv => QueueServed
<1> USE ScenarioConstants, ScenarioAssumption, AckSupAssumption, CloneAssumption, ResetsAssumption
<1>2. WrapProofs!Init => WrapProofs!SteadyInv
  BY WrapProofs!SteadyInit, Zenon
<1>3. ASSUME Steady, WrapProofs!SteadyInv, [WrapProofs!Next]_(WrapProofs!vars) PROVE WrapProofs!SteadyInv'
  <2>1. WrapProofs!Steady
    BY <1>3, SameProperties
  <2>2. QED
    BY <1>3, <2>1, WrapProofs!SteadyStep, Zenon
<1>4. ASSUME WrapProofs!SteadyInv, ~overtook PROVE AckedWasDelivered /\ CopyKept /\ NoOops
  <2>1. WrapProofs!AckedWasDelivered /\ WrapProofs!CopyKept /\ WrapProofs!NoOops
    BY <1>4, WrapProofs!SteadyMeaning, Zenon
  <2>2. QED
    BY <2>1, SameProperties, Zenon
<1>5. WrapProofs!Init => WrapProofs!TypeOK /\ WrapProofs!ServedInv
  BY WrapProofs!TypeInit, WrapProofs!ServedInit, Zenon
<1>6. ASSUME WrapProofs!TypeOK, [WrapProofs!Next]_(WrapProofs!vars) PROVE WrapProofs!TypeOK'
  BY <1>6, WrapProofs!TypeStep, Zenon
<1>7. ASSUME AlwaysAcked, WrapProofs!TypeOK, WrapProofs!ServedInv, [WrapProofs!Next]_(WrapProofs!vars)
      PROVE  WrapProofs!ServedInv'
  <2>1. WrapProofs!AlwaysAcked
    BY <1>7, SameProperties
  <2>2. QED
    BY <1>7, <2>1, WrapProofs!ServedStep, Zenon
<1>8. WrapProofs!ServedInv => QueueServed
  BY WrapProofs!ServedMeaning, SameProperties, Zenon
<1>9. QED
  BY <1>2, <1>3, <1>4, <1>5, <1>6, <1>7, <1>8, Zenon

\* The facts of CsmeChannelProofs that the scenario "faults" needs.
LEMMA FaultsFacts ==
  /\ FaultsProofs!Init => FaultsProofs!TypeOK
  /\ FaultsProofs!TypeOK /\ [FaultsProofs!Next]_(FaultsProofs!vars) => FaultsProofs!TypeOK'
<1> USE ScenarioConstants, ScenarioAssumption, BoundsAssumption
<1>2. FaultsProofs!Init => FaultsProofs!TypeOK
  BY FaultsProofs!TypeInit, Zenon
<1>3. ASSUME FaultsProofs!TypeOK, [FaultsProofs!Next]_(FaultsProofs!vars) PROVE FaultsProofs!TypeOK'
  BY <1>3, FaultsProofs!TypeStep, Zenon
<1>4. QED
  BY <1>2, <1>3, Zenon
-----------------------------------------------------------------------------
(***************************************************************************)
(* Every scenario has the invariant of its channel.                        *)
(***************************************************************************)
IsScenario == scenario \in {"giveup", "wrap", "faults"}

MCServedInv ==
  /\ IsScenario
  /\ scenario = "giveup" => TypeOK /\ ServedInv
  /\ scenario = "wrap"   => WrapProofs!TypeOK /\ WrapProofs!ServedInv
  /\ scenario = "faults" => FaultsProofs!TypeOK

MCSteadyInv ==
  /\ IsScenario
  /\ scenario = "giveup" => SteadyInv
  /\ scenario = "wrap"   => WrapProofs!SteadyInv

\* A behaviour starts in the initial state of its scenario.
LEMMA StartOfScenario ==
  ASSUME MCInit
  PROVE  /\ IsScenario
         /\ scenario = "giveup" => Init
         /\ scenario = "wrap"   => WrapProofs!Init
         /\ scenario = "faults" => FaultsProofs!Init
<1>1. IsScenario
  BY ScenarioAssumption, Zenon DEF MCInit, IsScenario
<1>2. /\ scenario = "giveup" => Init
      /\ scenario = "wrap"   => Wrap!Init
      /\ scenario = "faults" => Faults!Init
  BY DEF MCInit
<1>3. QED
  BY <1>1, <1>2, SameWrap, SameFaults, Zenon

\* A step is a step of the channel of its scenario, or changes nothing.
LEMMA StepOfScenario ==
  ASSUME IsScenario, [MCNext]_MCvars
  PROVE  /\ scenario' = scenario
         /\ scenario = "giveup" => [Next]_vars
         /\ scenario = "wrap"   => [WrapProofs!Next]_(WrapProofs!vars)
         /\ scenario = "faults" => [FaultsProofs!Next]_(FaultsProofs!vars)
<1>1. CASE MCNext
  <2>1. /\ scenario' = scenario
        /\ scenario = "giveup" => Next
        /\ scenario = "wrap"   => Wrap!Next
        /\ scenario = "faults" => Faults!Next
    BY <1>1 DEF MCNext
  <2>2. QED
    BY <2>1, SameWrap, SameFaults, Zenon
<1>2. CASE UNCHANGED MCvars
  <2>1. UNCHANGED vars /\ scenario' = scenario
    BY <1>2 DEF MCvars
  <2>2. QED
    BY <2>1, SameWrap, SameFaults, Zenon
<1>3. QED
  BY <1>1, <1>2

\* Every scenario keeps someone responsible for its queue.
LEMMA MCServedStep ==
  ASSUME AlwaysAcked, MCServedInv, [MCNext]_MCvars
  PROVE  MCServedInv'
<1>1. /\ IsScenario /\ scenario' = scenario
      /\ scenario = "giveup" => [Next]_vars
      /\ scenario = "wrap"   => [WrapProofs!Next]_(WrapProofs!vars)
      /\ scenario = "faults" => [FaultsProofs!Next]_(FaultsProofs!vars)
  BY StepOfScenario DEF MCServedInv
<1>2. CASE scenario = "giveup"
  <2>1. TypeOK' /\ ServedInv'
    BY <1>1, <1>2, TypeStep, ServedStep DEF MCServedInv
  <2>2. QED
    BY <1>1, <1>2, <2>1 DEF MCServedInv, IsScenario
<1>3. CASE scenario = "wrap"
  <2>1. WrapProofs!TypeOK' /\ WrapProofs!ServedInv'
    BY <1>1, <1>3, WrapFacts, Zenon DEF MCServedInv
  <2>2. QED
    BY <1>1, <1>3, <2>1 DEF MCServedInv, IsScenario
<1>4. CASE scenario = "faults"
  <2>1. FaultsProofs!TypeOK'
    BY <1>1, <1>4, FaultsFacts, Zenon DEF MCServedInv
  <2>2. QED
    BY <1>1, <1>4, <2>1 DEF MCServedInv, IsScenario
<1>5. QED
  BY <1>1, <1>2, <1>3, <1>4 DEF IsScenario

\* In the scenarios whose acks are required, a channel with messages to send
\* always has the timer that retransmits its head pending when no thread is
\* inside csme_tx() (csme_tx_msg_next, handle_channel_timeout), and in every
\* scenario, whatever faults it has, the state keeps its type.
THEOREM ScenariosAlwaysServed == ASSUME AlwaysAcked PROVE MCSpec => []MCQueueServed
<1>1. MCInit => MCServedInv
  <2> SUFFICES ASSUME MCInit PROVE MCServedInv
    OBVIOUS
  <2>1. scenario = "giveup" => TypeOK /\ ServedInv
    BY StartOfScenario, TypeInit, ServedInit, Zenon
  <2>2. scenario = "wrap" => WrapProofs!TypeOK /\ WrapProofs!ServedInv
    BY StartOfScenario, WrapFacts, Zenon
  <2>3. scenario = "faults" => FaultsProofs!TypeOK
    BY StartOfScenario, FaultsFacts, Zenon
  <2>4. QED
    BY <2>1, <2>2, <2>3, StartOfScenario, Zenon DEF MCServedInv
<1>2. MCServedInv /\ [MCNext]_MCvars => MCServedInv'
  BY MCServedStep
<1>3. MCServedInv => MCQueueServed
  <2> SUFFICES ASSUME MCServedInv PROVE MCQueueServed
    OBVIOUS
  <2>1. MCTypeOK
    BY SameWrap, SameFaults DEF MCTypeOK, MCServedInv, IsScenario
  <2>2. scenario # "faults" => QueueServed
    BY WrapFacts, ServedMeaning, Zenon DEF MCServedInv, IsScenario
  <2>3. QED
    BY <2>1, <2>2, Zenon DEF MCQueueServed
<1>4. MCSpec => MCInit /\ [][MCNext]_MCvars
  BY PTL DEF MCSpec
<1>5. QED
  BY <1>1, <1>2, <1>3, <1>4, PTL

\* Every scenario without faults starts with the invariant of its channel.
LEMMA MCSteadyInit == MCInit => MCSteadyInv
<1> SUFFICES ASSUME MCInit PROVE MCSteadyInv
  OBVIOUS
<1>1. scenario = "giveup" => SteadyInv
  BY StartOfScenario, SteadyInit, Zenon
<1>2. scenario = "wrap" => WrapProofs!SteadyInv
  BY StartOfScenario, WrapFacts, Zenon
<1>3. QED
  BY <1>1, <1>2, StartOfScenario, Zenon DEF MCSteadyInv

\* Every step keeps it.
LEMMA MCSteadyStep ==
  ASSUME Steady, MaxGivenUp + 1 < SEQ_MOD, MCSteadyInv, [MCNext]_MCvars
  PROVE  MCSteadyInv'
<1>1. /\ IsScenario /\ scenario' = scenario
      /\ scenario = "giveup" => [Next]_vars
      /\ scenario = "wrap"   => [WrapProofs!Next]_(WrapProofs!vars)
  BY StepOfScenario DEF MCSteadyInv
<1>2. scenario = "giveup" => SteadyInv'
  BY <1>1, SteadyStep DEF MCSteadyInv
<1>3. scenario = "wrap" => WrapProofs!SteadyInv'
  BY <1>1, WrapFacts, Zenon DEF MCSteadyInv
<1>4. QED
  BY <1>1, <1>2, <1>3, Zenon DEF MCSteadyInv, IsScenario

\* In the scenarios without faults, whose bound on messages given up is too
\* small for sequence numbers to come round, csme_rx_ack() takes no stale ack
\* for a later message, although they wrap; the skb that csme_tx() clones
\* after the unlock is still queued; and nothing crashes the kernel: as long
\* as no thread has transmitted a message after a newer one.
THEOREM ScenariosNeverMistakeAnAck ==
  ASSUME Steady, MaxGivenUp + 1 < SEQ_MOD
  PROVE  MCSpec => []MCAckedWasDelivered
<1>1. MCSteadyInv /\ [MCNext]_MCvars => MCSteadyInv'
  BY MCSteadyStep
<1>3. MCSteadyInv => MCAckedWasDelivered
  <2> SUFFICES ASSUME MCSteadyInv, scenario # "faults", ~overtook
               PROVE  AckedWasDelivered /\ CopyKept /\ NoOops
    BY DEF MCAckedWasDelivered
  <2>1. CASE scenario = "giveup"
    BY <2>1, SteadyMeaning DEF MCSteadyInv
  <2>2. CASE scenario = "wrap"
    BY <2>2, WrapFacts, Zenon DEF MCSteadyInv
  <2>3. QED
    BY <2>1, <2>2 DEF MCSteadyInv, IsScenario
<1>4. MCSpec => MCInit /\ [][MCNext]_MCvars
  BY PTL DEF MCSpec
<1>5. QED
  BY <1>1, <1>3, <1>4, MCSteadyInit, PTL
-----------------------------------------------------------------------------
(***************************************************************************)
(* The scenarios without faults are pipes.                                 *)
(***************************************************************************)

\* What MCPipe shows of a scenario without faults is the pipe of its channel.
LEMMA ShownPipe ==
  ASSUME scenario # "faults", scenario' = scenario, [Pipe!Next]_(Pipe!vars)
  PROVE  [MCPipe!Next]_(MCPipe!vars)
  BY DEF Shown, MCPipe!Next, MCPipe!vars, MCPipe!Accept, MCPipe!Deliver, MCPipe!Confirm, MCPipe!GiveUp,
         MCPipe!Overtake, MCPipe!Newest, MCPipe!Settled, MCPipe!Oldest,
         Pipe!Next, Pipe!vars, Pipe!Accept, Pipe!Deliver, Pipe!Confirm, Pipe!GiveUp,
         Pipe!Overtake, Pipe!Newest, Pipe!Settled, Pipe!Oldest

\* Of a scenario with faults it shows nothing.
LEMMA ShownFaults ==
  ASSUME scenario = "faults", scenario' = scenario
  PROVE  UNCHANGED MCPipe!vars
  BY DEF Shown, MCPipe!vars

\* Every step of the scenario "wrap" is a step of its pipe.
LEMMA WrapPipeStep ==
  ASSUME Steady, WrapProofs!SteadyInv, [WrapProofs!Next]_(WrapProofs!vars)
  PROVE  [Pipe!Next]_(Pipe!vars)
<1> USE ScenarioConstants, ScenarioAssumption, AckSupAssumption, CloneAssumption, ResetsAssumption
<1>1. WrapProofs!Steady
  BY SameProperties
<1>2. [WrapProofs!Pipe!Next]_(WrapProofs!Pipe!vars)
  BY <1>1, WrapProofs!PipeStep, Zenon
<1>3. QED
  BY <1>2, Zenon
     DEF Pipe!Next, Pipe!vars, Pipe!Accept, Pipe!Deliver, Pipe!Confirm, Pipe!GiveUp,
         Pipe!Overtake, Pipe!Newest, Pipe!Settled, Pipe!Oldest,
         WrapProofs!Pipe!Next, WrapProofs!Pipe!vars, WrapProofs!Pipe!Accept, WrapProofs!Pipe!Deliver,
         WrapProofs!Pipe!Confirm, WrapProofs!Pipe!GiveUp, WrapProofs!Pipe!Overtake,
         WrapProofs!Pipe!Newest, WrapProofs!Pipe!Settled, WrapProofs!Pipe!Oldest

\* In the scenarios where nothing goes wrong but losses, the channel is the
\* acknowledged in-order pipe of CsmePipe: until a thread transmits a message
\* after a newer one, messages are delivered in order and at most once, and
\* csme_rx_ack() and handle_channel_timeout() settle the head of the queue,
\* each message once, confirming only what the MSP has.
THEOREM ScenariosImplementPipe ==
  ASSUME Steady, MaxGivenUp + 1 < SEQ_MOD
  PROVE  MCSpec => MCPipeSpec
<1>1. MCInit => MCPipe!Init
  <2> SUFFICES ASSUME MCInit PROVE MCPipe!Init
    OBVIOUS
  <2>1. IsScenario /\ (scenario = "giveup" => Init) /\ (scenario = "wrap" => WrapProofs!Init)
    BY StartOfScenario
  <2>2. scenario # "faults" =>
          sent = 0 /\ delivered = <<>> /\ acked = {} /\ givenUp = {} /\ overtook = FALSE
    BY <2>1, Zenon DEF IsScenario, Init, WrapProofs!Init
  <2>3. QED
    BY <2>2 DEF Shown, MCPipe!Init
<1>2. MCSteadyInv /\ [MCNext]_MCvars => MCSteadyInv'
  BY MCSteadyStep
<1>3. MCSteadyInv /\ [MCNext]_MCvars => [MCPipe!Next]_(MCPipe!vars)
  <2> SUFFICES ASSUME MCSteadyInv, [MCNext]_MCvars PROVE [MCPipe!Next]_(MCPipe!vars)
    OBVIOUS
  <2>1. /\ IsScenario /\ scenario' = scenario
        /\ scenario = "giveup" => [Next]_vars
        /\ scenario = "wrap"   => [WrapProofs!Next]_(WrapProofs!vars)
    BY StepOfScenario DEF MCSteadyInv
  <2>2. scenario = "giveup" => [Pipe!Next]_(Pipe!vars)
    BY <2>1, PipeStep DEF MCSteadyInv
  <2>3. scenario = "wrap" => [Pipe!Next]_(Pipe!vars)
    BY <2>1, WrapPipeStep DEF MCSteadyInv
  <2>4. QED
    BY <2>1, <2>2, <2>3, ShownPipe, ShownFaults, Zenon DEF IsScenario
<1>4. MCSpec => MCInit /\ [][MCNext]_MCvars
  BY PTL DEF MCSpec
<1>5. QED
  BY <1>1, <1>2, <1>3, <1>4, MCSteadyInit, PTL DEF MCPipeSpec, MCPipe!Spec
=============================================================================
