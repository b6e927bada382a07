------------------------------ MODULE MC_UartHw ------------------------------
(***************************************************************************)
(* The parts of the UART driver that deal with its resources and its       *)
(* registers, one of them per behaviour.                                   *)
(***************************************************************************)
EXTENDS UartPorts, UartLine, UccMux

CONSTANTS RX_NUM_FIFO, RX_BUF_SIZE, TTY_FLIPBUF_SIZE, MaxByte, MaxOpen

VARIABLES
  scene,     \* the part this behaviour is about
  \* UccRx; rxOpened is its opened
  arrived, missed, filling, qe_cur, bd, ucce, rx_cur, rxOpened, opens, ipc, bdp,
  flip, pending, passed, dropped, deferred, torn

rxVars == <<arrived, missed, filling, qe_cur, bd, ucce, rx_cur, rxOpened, opens, ipc,
            bdp, flip, pending, passed, dropped, deferred, torn>>

Rx == INSTANCE UccRx WITH opened <- rxOpened

ASSUME RxAssumption == Rx!UccRxConstants

MCParams ==
  {[baud |-> 115200, datalen |-> 5, check |-> 1, stopbit |-> 1],
   [baud |-> 19200,  datalen |-> 6, check |-> 2, stopbit |-> 2],
   [baud |-> 300,    datalen |-> 7, check |-> 3, stopbit |-> 0],
   [baud |-> 110,    datalen |-> 8, check |-> 4, stopbit |-> 2],
   [baud |-> 9600,   datalen |-> 9, check |-> 0, stopbit |-> 1]}

MCClocks == UNION {{t[i] : i \in DOMAIN t} : t \in {CmxSources[r] : r \in 1..4}}
              \cup {"BRG3", "BRG4", "BRG11", "CLK1", "CLK2"}

MCInit ==
  /\ scene \in {"ports", "line", "mux", "rx"}
  /\ Init /\ LnInit /\ MuxInit /\ Rx!Init

PortsStep == scene = "ports" /\ Next /\ UNCHANGED <<scene, lnVars, muxVars, rxVars>>
LineStep == scene = "line" /\ LnNext /\ UNCHANGED <<scene, vars, muxVars, rxVars>>
MuxStep == scene = "mux" /\ MuxNext /\ UNCHANGED <<scene, vars, lnVars, rxVars>>
RxStep == scene = "rx" /\ Rx!Next /\ UNCHANGED <<scene, vars, lnVars, muxVars>>

MCSpec ==
  MCInit /\ [][PortsStep \/ LineStep \/ MuxStep \/ RxStep]_<<scene, vars, lnVars, muxVars, rxVars>>

\* On a UCC port no character is lost, repeated, overtaken or forgotten between
\* the line and the line discipline (qe_uart_int_rx()), and the handler and
\* the engine agree on the descriptors they own.
MCRxKept == Rx!TypeOK /\ Rx!RxKept /\ Rx!RxRingsAgree /\ Rx!RxServed

=============================================================================
