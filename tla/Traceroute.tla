----------------------------- MODULE Traceroute ------------------------------
(***************************************************************************)
(* traceroute.c: probes with a growing TTL, each followed by recv_v4(),    *)
(* which reads every ICMP message that reaches the host until one belongs  *)
(* to the probe or three seconds have passed.  Answers are lost, late,     *)
(* repeated and out of order, and the alarm may come at any point.         *)
(***************************************************************************)
EXTENDS Integers, FiniteSets

CONSTANTS
  TR_DIST,      \* the destination is this many hops away
  TR_WAYS,      \* routers that share the work of one hop
  TR_MAX_TTL,   \* max_ttl
  TR_NPROBES    \* nprobes

ASSUME TrAssumption ==
  /\ {TR_DIST, TR_MAX_TTL, TR_NPROBES} \subseteq Nat \ {0}
  /\ TR_WAYS # {}

TrNobody == <<0, 0>>
TrRouters == (1 .. TR_DIST - 1) \X TR_WAYS
TrTarget == <<TR_DIST, 0>>
TrNone == [ttl |-> 0, code |-> -3, named |-> TrNobody]

VARIABLES
  trPc,      \* send, test, enter, blocked, got, end
  trTtl, trProbe, trSeq, trDone,   \* ttl, probe, seq, done
  trGotalarm,  \* gotalarm
  trArmed,   \* alarm() is running
  trCode,    \* ret of recv_v4()
  trFrom,    \* pr->sarecv
  trSalast,  \* pr->salast
  trNamed,   \* the host printed last on this line
  trLast,    \* the last probe the user read about: ttl, code, host it names
  trNet      \* answers under way to the host

trLoop == <<trTtl, trProbe, trSeq, trDone>>
trShown == <<trSalast, trNamed, trLast>>
trVars == <<trPc, trLoop, trGotalarm, trArmed, trCode, trFrom, trShown, trNet>>

TrTypeOK ==
  /\ trPc \in {"send", "test", "enter", "blocked", "got", "end"}
  /\ trTtl \in 1 .. TR_MAX_TTL + 1 /\ trProbe \in 0 .. TR_NPROBES
  /\ trSeq \in 0 .. TR_MAX_TTL * TR_NPROBES /\ trDone \in 0 .. TR_NPROBES
  /\ trGotalarm \in BOOLEAN /\ trArmed \in BOOLEAN
  /\ trCode \in -3 .. 1
  /\ {trFrom, trSalast, trNamed} \subseteq TrRouters \union {TrTarget, TrNobody}

\* The head of traceloop(), which returns when it gets no raw socket and calls
\* sig_alrm() itself.
TrLoopStart ==
  /\ trPc \in {"send", "end"}
  /\ trTtl = 1 /\ trProbe = 0 /\ trSeq = 0 /\ trDone = 0 /\ trGotalarm = TRUE

\* main() finds the address of the host and clears those it compares with.
TrInit ==
  /\ TrLoopStart
  /\ trArmed = FALSE /\ trCode = -3
  /\ trFrom = TrNobody /\ trSalast = TrNobody /\ trNamed = TrNobody
  /\ trLast = TrNone /\ trNet = {}

\* What the network may answer to a probe: the router that lowers the TTL to
\* zero, the destination, or a router on the way that cannot forward it.  That
\* only the destination answers "port unreachable" is an assumption about the
\* network: recv_v4() takes whoever sends it for the destination.
TrAnswers(t, seq) ==
  LET icmp(type, code, from) ==
        [type |-> type, code |-> code, ours |-> TRUE, seq |-> seq, from |-> from]
  IN {icmp("timxceed", 0, r) : r \in {x \in TrRouters : x[1] = t}}
       \union {icmp("unreach", 1, r) : r \in {x \in TrRouters : x[1] <= t}}
       \union (IF t >= TR_DIST THEN {icmp("unreach", 3, TrTarget)} ELSE {})

\* ICMP of other programs, the same sequence number included, and messages too
\* short to hold the ports of the probe.
TrForeign ==
  {[type |-> ty, code |-> 3, ours |-> FALSE, seq |-> s, from |-> TrTarget] :
     ty \in {"unreach", "timxceed", "short"}, s \in {trSeq}}

-----------------------------------------------------------------------------
(* One probe                                                               *)

\* The probe leaves with the next sequence number as its port, and recv_v4()
\* clears gotalarm before it starts the alarm.
TrSend ==
  /\ trPc = "send" /\ trPc' = "test"
  /\ trSeq' = trSeq + 1
  /\ \/ trNet' = trNet
     \/ \E r \in TrAnswers(trTtl, trSeq + 1) : trNet' = trNet \union {r}
  /\ trGotalarm' = FALSE /\ trArmed' = TRUE
  /\ UNCHANGED <<trTtl, trProbe, trDone, trCode, trFrom, trShown>>

\* The test with the destination port left out.
TrMatchesAnyProbe(m) == m.type \in {"timxceed", "unreach"} /\ m.ours

\* The answer belongs to this probe: our port, and the port of this sequence number.
TrMatches(m) ==
  /\ m.type \in {"timxceed", "unreach"}
  /\ m.ours /\ m.seq = trSeq

TrRet(m) ==
  IF m.type = "timxceed" THEN -2 ELSE IF m.code = 3 THEN -1 ELSE m.code

\* The rest of the loops: the next probe of this TTL, the next TTL with an empty
\* line and no last host, or the end.
TrNextProbe(done) ==
  LET last == trProbe + 1 = TR_NPROBES
      over == last /\ (trTtl = TR_MAX_TTL \/ done > 0)
  IN /\ trPc' = IF over THEN "end" ELSE "send"
     /\ trProbe' = IF last /\ ~over THEN 0 ELSE trProbe + 1
     /\ trTtl' = IF last THEN trTtl + 1 ELSE trTtl
     /\ trDone' = done

\* What is printed: "*", or the host unless it is the last one, and the time.
TrShow(code) ==
  LET new == code # -3 /\ trFrom # trSalast
      named == IF new THEN trFrom ELSE trNamed
      eol == trProbe + 1 = TR_NPROBES
  IN /\ trLast' = [ttl |-> trTtl, code |-> code, named |-> named]
     /\ trSalast' = IF eol THEN TrNobody ELSE IF new THEN trFrom ELSE trSalast
     /\ trNamed' = IF eol THEN TrNobody ELSE named

\* Head of the loop of recv_v4(): it returns -3 once the alarm has come.
TrTest ==
  /\ trPc = "test"
  /\ \/ ~trGotalarm /\ trPc' = "enter" /\ UNCHANGED <<trLoop, trShown>>
     \/ /\ trGotalarm
        /\ TrShow(-3) /\ TrNextProbe(trDone) /\ UNCHANGED trSeq
  /\ UNCHANGED <<trGotalarm, trArmed, trCode, trFrom, trNet>>

TrEnter ==
  /\ trPc = "enter" /\ trPc' = "blocked"
  /\ UNCHANGED <<trLoop, trGotalarm, trArmed, trCode, trFrom, trShown, trNet>>

\* recvfrom() returns a message, which stays under way when it is repeated.
TrRecv ==
  /\ trPc = "blocked"
  /\ \E m \in trNet \union TrForeign :
       /\ trNet' \in {trNet, trNet \ {m}}
       /\ trFrom' = m.from
       /\ \/ TrMatches(m) /\ trCode' = TrRet(m) /\ trPc' = "got"
          \/ ~TrMatches(m) /\ trPc' = "test" /\ UNCHANGED trCode
  /\ UNCHANGED <<trLoop, trGotalarm, trArmed, trShown>>

\* An error that is not EINTR: the length -1 is too short for an ICMP header.
TrRecvError ==
  /\ trPc = "blocked" /\ trPc' = "test"
  /\ UNCHANGED <<trLoop, trGotalarm, trArmed, trCode, trFrom, trShown, trNet>>

\* alarm(0), and what traceloop() does with the code.
TrReturn ==
  /\ trPc = "got" /\ trArmed' = FALSE
  /\ TrShow(trCode)
  /\ TrNextProbe(IF trCode = -1 THEN trDone + 1 ELSE trDone)
  /\ UNCHANGED <<trSeq, trGotalarm, trCode, trFrom, trNet>>

\* signal() installs the handler without SA_RESTART: recvfrom() returns EINTR
\* when the process is in it.
TrInterrupt == IF trPc = "blocked" THEN "test" ELSE trPc

TrSigAlrm ==
  /\ trArmed /\ trArmed' = FALSE
  /\ trGotalarm' = TRUE /\ trPc' = TrInterrupt
  /\ UNCHANGED <<trLoop, trCode, trFrom, trShown, trNet>>

TrLose ==
  /\ trPc # "end"
  /\ \E m \in trNet : trNet' = trNet \ {m}
  /\ UNCHANGED <<trPc, trLoop, trGotalarm, trArmed, trCode, trFrom, trShown>>

TrNext ==
  \/ TrSend \/ TrTest \/ TrEnter \/ TrRecv \/ TrRecvError \/ TrReturn
  \/ TrSigAlrm \/ TrLose

TrSpec == TrInit /\ [][TrNext]_trVars

\* The process runs and the alarm it started comes; nothing makes a message come.
TrFairness ==
  /\ WF_trVars(TrSend \/ TrTest \/ TrEnter \/ TrReturn)
  /\ WF_trVars(TrSigAlrm)
-----------------------------------------------------------------------------
\* Whatever is late, repeated or out of order, a time is printed behind a host
\* that is at the distance of its line: the router that sent "time exceeded" is
\* ttl hops away, "port unreachable" comes from the destination and not before
\* its distance, another "unreachable" from a router on the way there.
TrHopsRight ==
  /\ TrTypeOK
  /\ LET hop == trLast.named[1] IN
     /\ trLast.code = -2 => hop = trLast.ttl
     /\ trLast.code = -1 => trLast.named = TrTarget /\ trLast.ttl >= TR_DIST
     /\ trLast.code >= 0 => hop \in 1 .. trLast.ttl
  /\ trDone > 0 => trTtl >= TR_DIST

\* "set flag to note that alarm occurred and interrupt the recvfrom()": no
\* probe waits for ever, the trace ends.
TrEnds == <>(trPc = "end")
=============================================================================
