----------------------------- MODULE MC_UartTx -----------------------------
(***************************************************************************)
(* write() on both kinds of port for TLC: a behaviour is one of UccTx or   *)
(* one of DuartTx, as pxr_ports[] decides for the minor that was opened.   *)
(* The two share the variables of RcttyWrite, out and cpc.  ioctls says    *)
(* whether CMD_SET_BREAK and CMD_SET_INTERFACE are issued in the behaviour.*)
(***************************************************************************)
EXTENDS UccTx

CONSTANTS TxBurst, TxTrigger, TxFifoSize, Set485
VARIABLES thri, rts, txFifo, lostTx, ipc, port, ioctls

Duart == INSTANCE DuartTx

ASSUME DuartAssumption == Duart!DuartConstants

duartOnly == <<thri, rts, txFifo, lostTx, ipc>>
uccOnly   == <<bd, tx_cur, qe_cur, uccm, ucce, stopped, tries>>
choice    == <<port, ioctls>>
MCvars    == <<vars, duartOnly, choice>>

MCInit ==
  /\ ioctls \in BOOLEAN
  /\ \/ /\ port = "ucc"
        /\ Init
        /\ thri = FALSE /\ rts = FALSE /\ txFifo = <<>> /\ lostTx = {} /\ ipc = "none"
     \/ /\ port = "duart"
        /\ Duart!Init
        /\ bd = <<>> /\ tx_cur = 0 /\ qe_cur = 0 /\ uccm = FALSE /\ ucce = FALSE
        /\ stopped = FALSE /\ tries = CloseTries

OnUcc(A)   == port = "ucc" /\ A /\ UNCHANGED <<duartOnly, choice>>
OnDuart(A) == port = "duart" /\ A /\ UNCHANGED <<uccOnly, choice>>

MCNext ==
  /\ OnUcc(Next) \/ OnDuart(Duart!Next)
  /\ ~ioctls => UNCHANGED <<stopped, ipc>>

\* The fairness of the port's FairSpec.
MCSpec ==
  /\ MCInit /\ [][MCNext]_MCvars
  /\ WF_MCvars(OnUcc(uccm /\ qe_uart_int) \/ OnDuart(Duart!xr_tx_chars_duart))
  /\ WF_MCvars(OnUcc(Tasklet) \/ OnDuart(Duart!Tasklet))
  /\ WF_MCvars(OnUcc(QeSend) \/ OnDuart(Duart!ShiftOut))
  /\ \A w \in Writers : WF_MCvars(OnUcc(Progress(w)) \/ OnDuart(Duart!Progress(w)))

\* Type invariant of the port in use.
MCTypeOK == IF port = "ucc" THEN TypeOK ELSE Duart!TypeOK

\* On both ports the bytes of a write() call leave together, in order, and the
\* call reports how many were accepted, with every chunk in its buffer and
\* every index in its ring; a DUART loses what its FIFO holds when it is shut
\* down.
MCWritesInOrder ==
  /\ MCTypeOK /\ ChunkFits
  /\ IF port = "ucc" THEN WritesInOrder ELSE cpc # "closed" => Duart!WritesInOrder

\* Neither port overruns its hardware.  UCC: the descriptors in use are the
\* ones between the engine and the driver.  DUART: the bursts of the transmit
\* interrupt never exceed what the FIFO has room for.
MCNoOverrun ==
  /\ port = "ucc" => RingsAgree
  /\ (port = "duart" /\ cpc # "closed") => Duart!NoTxLoss

\* On both ports whoever waits has an event coming: characters left in the
\* ring of a UCC port an event that pumps them, and a thread asleep in
\* write_chan() somebody to wake it.
MCPumpComesBack ==
  IF port = "ucc" THEN PumpComesBack /\ WriterServed ELSE Duart!WriterServed

\* DUART: RTS is up while characters leave the UART, as long as neither
\* CMD_SET_INTERFACE nor close() drops it.
MCRtsWhileSending == (port = "duart" /\ cpc = "open" /\ ~ioctls) => Duart!RtsWhileSending

\* On both ports every write() returns, unless a break stops the transmitter:
\* a thread that waits for room or for atomic_write gets it.
MCWritesReturn ==
  \A w \in Writers : (~ioctls /\ wr[w].pc # "idle") ~> wr[w].pc = "idle"
=============================================================================
