--------------------------- MODULE MC_CsmeChannel ---------------------------
(***************************************************************************)
(* Instances of CsmeChannel for TLC.  A behaviour belongs to one of the    *)
(* scenarios Scenarios names:                                              *)
(*   "giveup"  the constants of the cfg;                                   *)
(*   "wrap"    few sequence numbers, so that they wrap, and more packets   *)
(*             in flight;                                                  *)
(*   "faults"  one opcode and all that can go wrong: resets, clones that   *)
(*             sleep or fail, suppression switched on and off.             *)
(***************************************************************************)
EXTENDS CsmeChannel

CONSTANTS Scenarios, FirstOpcode

ASSUME ScenarioAssumption ==
  /\ Scenarios \subseteq {"giveup", "wrap", "faults"}
  /\ FirstOpcode # {}

VARIABLE scenario

Wrap == INSTANCE CsmeChannel WITH
          Opcode <- FirstOpcode, RETRIES <- 1, SEQ_MOD <- 3, MaxMsg <- 5,
          MaxGivenUp <- 1, NetCap <- 3

Faults == INSTANCE CsmeChannel WITH
            Opcode <- FirstOpcode, RETRIES <- 1, SEQ_MOD <- 2, AckSup <- BOOLEAN,
            CloneOutcomes <- {"prompt", "sleeps", "fails"}, Resets <- TRUE, NetCap <- 2

MCvars == <<vars, scenario>>

MCInit ==
  /\ scenario \in Scenarios
  /\ CASE scenario = "giveup" -> Init
       [] scenario = "wrap"   -> Wrap!Init
       [] scenario = "faults" -> Faults!Init

MCNext ==
  /\ \/ scenario = "giveup" /\ Next
     \/ scenario = "wrap"   /\ Wrap!Next
     \/ scenario = "faults" /\ Faults!Next
  /\ UNCHANGED scenario

InGiveup(A) == scenario = "giveup" /\ A /\ UNCHANGED scenario

\* Every scenario, and the fairness of FairSpec in "giveup".
MCSpec ==
  /\ MCInit /\ [][MCNext]_MCvars
  /\ WF_MCvars(InGiveup(handle_channel_timeout))
  /\ \A s \in Senders :
       WF_MCvars(InGiveup(csme_tx_arm(s) \/ csme_tx_clone(s) \/ csme_tx_xmit(s)))

\* The type invariant with the constants of the scenario.
MCTypeOK ==
  CASE scenario = "giveup" -> TypeOK
    [] scenario = "wrap"   -> Wrap!TypeOK
    [] scenario = "faults" -> Faults!TypeOK

\* Where acks are never suppressed, a channel with messages to send has the
\* timer that will retransmit its head (csme_tx_msg_next).  The state has its
\* type in every scenario.
MCQueueServed == MCTypeOK /\ (scenario # "faults" => QueueServed)

\* Where the channel is not reset and no thread has transmitted a message
\* after a newer one, no stale ack is taken for a later message, even though
\* sequence numbers wrap (csme_rx_ack): so the skb a thread is about to clone
\* after the unlock (csme_tx) has not been freed, and nothing crashes the
\* kernel.
MCAckedWasDelivered ==
  scenario # "faults" /\ ~overtook => AckedWasDelivered /\ CopyKept /\ NoOops

Shown(v, start) == IF scenario = "faults" THEN start ELSE v

\* Where nothing goes wrong but losses, the channel is the acknowledged
\* in-order pipe: messages are accepted, delivered and settled in order, the
\* head of the queue exactly once, and only what the MSP has is confirmed
\* (csme_rx_ack, handle_channel_timeout).
MCPipe == INSTANCE CsmePipe WITH
            sent <- Shown(sent, 0), delivered <- Shown(delivered, <<>>),
            acked <- Shown(acked, {}), givenUp <- Shown(givenUp, {}),
            overtook <- Shown(overtook, FALSE)
MCPipeSpec == MCPipe!Spec

\* With acks required and two retransmissions the queue drains, even when the
\* link loses everything (handle_channel_timeout).
MCDrains == (scenario = "giveup" /\ tx_queue # <<>>) ~> tx_queue = <<>>
=============================================================================
