--------------------------- MODULE MC_RcttyRead ---------------------------
(***************************************************************************)
(* Instances of RcttyRead for TLC.  The run uart_read starts in one of two *)
(* scenarios: "many", with the constants of the cfg (several threads, VMIN *)
(* changed while they read), and "one", a single thread with every VMIN    *)
(* and VTIME mode, O_NONBLOCK, signals, faults and polls.                  *)
(***************************************************************************)
EXTENDS RcttyRead

CONSTANT OneReader   \* the thread of scenario "one"

VARIABLE scenario

\* <<VMIN, VTIME set>>
MCVmin  == {<<2, FALSE>>, <<1, FALSE>>}
MCModes == {<<2, FALSE>>, <<2, TRUE>>, <<0, FALSE>>, <<0, TRUE>>}

One == INSTANCE RcttyRead WITH
         Readers <- OneReader, Modes <- MCModes, NonBlock <- BOOLEAN,
         Ioctls <- FALSE, Polls <- TRUE, Faults <- TRUE, Nr <- {0, 3}, MaxByte <- 3, MaxRead <- 2

MCvars == <<vars, scenario>>

MCInit ==
  \/ scenario = "many" /\ Init
  \/ scenario = "one" /\ One!Init

MCNext ==
  /\ \/ scenario = "many" /\ Next
     \/ scenario = "one" /\ One!Next
  /\ UNCHANGED scenario

MCWorker == ~Storm /\ Worker /\ UNCHANGED scenario
MCRx     == xr_rx_chars_duart /\ UNCHANGED scenario

MCReadStep(r) ==
  /\ ~Storm
  /\ \/ scenario = "many" /\ r \in Readers /\ ReadStep(r)
     \/ scenario = "one" /\ r \in OneReader /\ One!ReadStep(r)
  /\ UNCHANGED scenario

\* FairSpec of the scenario.
MCSpec ==
  /\ MCInit /\ [][MCNext]_MCvars
  /\ WF_MCvars(MCRx) /\ WF_MCvars(MCWorker)
  /\ \A r \in Readers \union OneReader : WF_MCvars(MCReadStep(r))

\* The type invariant in both scenarios: ring indices and counts in bounds.
MCTypeOK == IF scenario = "many" THEN TypeOK ELSE One!TypeOK

\* NoLostWakeup where nothing else sets minimum_to_wake: several threads that
\* read with VMIN only and are not disturbed by poll().  (NoLostWakeup names
\* the stores that come late.)
ReadersWoken == scenario = "many" => NoLostWakeup

\* Nothing on its way to a reader is forgotten: what the interrupt handler put
\* into the flip buffer has its work queued (flush_to_ldisc), and a thread
\* asleep in read_chan() that could return has been woken, unless another one
\* has stored minimum_to_wake late (rcNtty.c:114, 200).  The indices and
\* counts of the ring are in bounds.
MCNothingForgotten == MCTypeOK /\ WorkScheduled /\ ReadersWoken
=============================================================================
