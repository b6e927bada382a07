------------------------------ MODULE CsmePipe ------------------------------
(***************************************************************************)
(* What one CSME channel promises to the two ends of the wire: a pipe that *)
(* may lose messages but hands the ones that arrive to the MSP in the      *)
(* order in which csme_tx() accepted them, each at most once, and that     *)
(* settles them in the same order, each exactly once: it confirms the      *)
(* oldest open message, which the MSP then has, or gives it up.  Messages  *)
(* are named by the order of their acceptance: 1, 2, 3, ...  The promise   *)
(* ends when a thread transmits a message after a newer one.               *)
(***************************************************************************)
EXTENDS Naturals, Sequences

VARIABLES sent,      \* how many messages csme_tx() has accepted
          delivered, \* the messages the MSP has handed to its upper layer
          acked,     \* the messages confirmed to the channel
          givenUp,   \* the messages the channel has given up
          overtook   \* has the promise ended?

vars == <<sent, delivered, acked, givenUp, overtook>>

Newest == IF delivered = <<>> THEN 0 ELSE delivered[Len(delivered)]

Settled == acked \cup givenUp

\* i is the oldest message that is neither confirmed nor given up.
Oldest(i) == i \notin Settled /\ \A j \in 1 .. i - 1 : j \in Settled

Init == /\ sent = 0
        /\ delivered = <<>>
        /\ acked = {}
        /\ givenUp = {}
        /\ overtook = FALSE

Accept == /\ sent' = sent + 1
          /\ UNCHANGED <<delivered, acked, givenUp, overtook>>

Deliver == /\ \E i \in Newest + 1 .. sent : delivered' = Append(delivered, i)
           /\ UNCHANGED <<sent, acked, givenUp, overtook>>

Confirm == /\ \E i \in 1 .. sent :
                /\ Oldest(i)
                /\ \E k \in 1 .. Len(delivered) : delivered[k] = i
                /\ acked' = acked \cup {i}
           /\ UNCHANGED <<sent, delivered, givenUp, overtook>>

GiveUp == /\ \E i \in 1 .. sent : Oldest(i) /\ givenUp' = givenUp \cup {i}
          /\ UNCHANGED <<sent, delivered, acked, overtook>>

Overtake == /\ overtook' = TRUE
            /\ UNCHANGED <<sent, delivered, acked, givenUp>>

Next == \/ Accept \/ Deliver \/ Confirm \/ GiveUp \/ Overtake
        \/ overtook /\ overtook'

Spec == Init /\ [][Next]_vars
=============================================================================
