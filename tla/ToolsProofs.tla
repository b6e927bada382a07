----------------------------- MODULE ToolsProofs ----------------------------
(***************************************************************************)
(* Traceroute, ping, the memory check, the TFTP client, netboot's boot     *)
(* dialogue and the image loader, proved for every network distance, any   *)
(* routers, size of a word, memory size, devices and failing calls, files  *)
(* of any length, every modulus of the block numbers, any number of starts *)
(* and stray messages, and every image.                                    *)
(***************************************************************************)
EXTENDS Traceroute, Ping, KvmMemcheck, Tftp, Netboot, AifLoader, SequenceTheorems, TLAPS

-----------------------------------------------------------------------------
(* Traceroute                                                              *)

\* The hosts an answer can come from.
TrHosts == TrRouters \union {TrTarget, TrNobody}

\* What code says about the host from and the TTL t of the probe.
TrRight(code, from, t) ==
  /\ code = -2 => from \in TrRouters /\ from[1] = t
  /\ code = -1 => from = TrTarget /\ t >= TR_DIST
  /\ code >= 0 => from \in TrRouters /\ from[1] <= t

\* The type invariant but for its flags.
TrNumbers ==
  /\ trPc \in {"send", "test", "enter", "blocked", "got", "end"}
  /\ trTtl \in 1 .. TR_MAX_TTL + 1 /\ trProbe \in 0 .. TR_NPROBES
  /\ trSeq \in Nat /\ trDone \in 0 .. TR_NPROBES
  /\ trCode \in -3 .. 1
  /\ trFrom \in TrHosts /\ trSalast \in TrHosts /\ trNamed \in TrHosts
\* The flags.
TrFlags == trGotalarm \in BOOLEAN /\ trArmed \in BOOLEAN

\* The sequence number tells TTL and probe, and the destination has been
\* counted only from its distance on.
TrCounts ==
  /\ trSeq <= TR_MAX_TTL * TR_NPROBES
  /\ trPc # "end" => /\ trTtl <= TR_MAX_TTL /\ trProbe < TR_NPROBES /\ trDone <= trProbe
                     /\ trSeq = (trTtl - 1) * TR_NPROBES + trProbe
                                  + (IF trPc = "send" THEN 0 ELSE 1)
  /\ trDone > 0 => trTtl >= TR_DIST

\* No answer is to a probe that has not been sent, and one to the probe in
\* hand is what the network answers to its TTL.
TrMessages ==
  \A m \in trNet :
    /\ m.seq \in Nat /\ m.seq <= trSeq /\ m.from \in TrHosts
    /\ m.seq = trSeq /\ trPc \notin {"send", "end"} => m \in TrAnswers(trTtl, trSeq)

\* The host printed last is the one the program compares with, and what is
\* printed, or about to be, is right for its line.
TrReports ==
  /\ trNamed = trSalast
  /\ trPc = "got" => trCode # -3 /\ TrRight(trCode, trFrom, trTtl)
  /\ trLast.code \in -3 .. 1
  /\ TrRight(trLast.code, trLast.named, trLast.ttl)

\* The inductive invariant of traceroute.
TrInv == TrNumbers /\ TrFlags /\ TrCounts /\ TrMessages /\ TrReports

\* What an answer of the network means when recv_v4() takes it for a probe
\* with TTL t.
LEMMA TrAnswerRight ==
  ASSUME NEW t \in Nat, NEW n \in Nat, NEW m \in TrAnswers(t, n)
  PROVE  /\ m.seq = n /\ m.from \in TrHosts
         /\ TrRet(m) \in {-2, -1, 1} /\ TrRight(TrRet(m), m.from, t)
<1>1. /\ TR_DIST \in Nat
      /\ \A r \in TrRouters : r[1] \in Nat
  BY TrAssumption DEF TrRouters
<1>2. \/ \E r \in TrRouters : /\ r[1] = t
                              /\ m = [type |-> "timxceed", code |-> 0, ours |-> TRUE,
                                      seq |-> n, from |-> r]
      \/ \E r \in TrRouters : /\ r[1] <= t
                              /\ m = [type |-> "unreach", code |-> 1, ours |-> TRUE,
                                      seq |-> n, from |-> r]
      \/ /\ t >= TR_DIST
         /\ m = [type |-> "unreach", code |-> 3, ours |-> TRUE, seq |-> n, from |-> TrTarget]
  BY DEF TrAnswers
<1>3. CASE \E r \in TrRouters : /\ r[1] = t
                                /\ m = [type |-> "timxceed", code |-> 0, ours |-> TRUE,
                                        seq |-> n, from |-> r]
  BY <1>1, <1>3 DEF TrRet, TrRight, TrHosts
<1>4. CASE \E r \in TrRouters : /\ r[1] <= t
                                /\ m = [type |-> "unreach", code |-> 1, ours |-> TRUE,
                                        seq |-> n, from |-> r]
  BY <1>1, <1>4 DEF TrRet, TrRight, TrHosts
<1>5. CASE /\ t >= TR_DIST
           /\ m = [type |-> "unreach", code |-> 3, ours |-> TRUE, seq |-> n,
                   from |-> TrTarget]
  BY <1>1, <1>5 DEF TrRet, TrRight, TrHosts
<1>6. QED
  BY <1>2, <1>3, <1>4, <1>5

\* The arithmetic of the sequence number.
LEMMA TrProduct ==
  /\ TR_MAX_TTL \in Nat \ {0} /\ TR_NPROBES \in Nat \ {0} /\ TR_DIST \in Nat \ {0}
  /\ \A t \in Nat \ {0} :
       /\ t * TR_NPROBES = (t - 1) * TR_NPROBES + TR_NPROBES
       /\ t * TR_NPROBES \in Nat /\ (t - 1) * TR_NPROBES \in Nat
       /\ t <= TR_MAX_TTL => t * TR_NPROBES <= TR_MAX_TTL * TR_NPROBES
<1>1. /\ TR_MAX_TTL \in Nat \ {0} /\ TR_NPROBES \in Nat \ {0} /\ TR_DIST \in Nat \ {0}
  BY TrAssumption
<1>2. ASSUME NEW t \in Nat \ {0}
      PROVE  /\ t * TR_NPROBES = (t - 1) * TR_NPROBES + TR_NPROBES
             /\ t * TR_NPROBES \in Nat /\ (t - 1) * TR_NPROBES \in Nat
  BY <1>1
<1>3. ASSUME NEW t \in Nat \ {0}, t <= TR_MAX_TTL
      PROVE  t * TR_NPROBES <= TR_MAX_TTL * TR_NPROBES
  BY <1>1, <1>3
<1>4. QED
  BY <1>1, <1>2, <1>3

\* The invariant holds before the first probe.
LEMMA TrInitInv == TrInit => TrInv
<1> SUFFICES ASSUME TrInit PROVE TrInv
  OBVIOUS
<1>0. TrFlags
  BY Zenon DEF TrInit, TrLoopStart, TrFlags
<1>1. TrNumbers
  BY TrProduct DEF TrInit, TrLoopStart, TrNumbers, TrHosts
<1>2. TR_MAX_TTL * TR_NPROBES \in Nat /\ (1 - 1) * TR_NPROBES = 0
  BY TrProduct
<1>3. TrCounts
  BY <1>2, TrProduct DEF TrInit, TrLoopStart, TrCounts
<1>4. TrMessages
  BY DEF TrInit, TrMessages
<1>5. TrReports
  BY DEF TrInit, TrLoopStart, TrReports, TrRight, TrNone
<1>6. QED
  BY <1>0, <1>1, <1>3, <1>4, <1>5 DEF TrInv

\* A probe is over: what is printed, and the next one.
LEMMA TrProbeOver ==
  ASSUME TrInv, trPc \in {"test", "got"}, NEW code \in -3 .. 1, NEW done \in Nat,
         TrShow(code), TrNextProbe(done), UNCHANGED <<trSeq, trFrom, trNet, trCode>>,
         code # -3 => TrRight(code, trFrom, trTtl),
         done = trDone \/ (done = trDone + 1 /\ code = -1)
  PROVE  TrNumbers' /\ TrCounts' /\ TrMessages' /\ TrReports'
<1>0. TrNumbers /\ TrCounts /\ TrMessages /\ TrReports
  BY DEF TrInv
<1>1. /\ trTtl \in Nat \ {0} /\ trTtl <= TR_MAX_TTL /\ trProbe \in Nat /\ trProbe < TR_NPROBES
      /\ trDone <= trProbe /\ trDone \in Nat
      /\ trSeq = (trTtl - 1) * TR_NPROBES + trProbe + 1 /\ trSeq \in Nat
  BY <1>0, TrProduct DEF TrNumbers, TrCounts
<1>2. done > 0 => trTtl >= TR_DIST
  BY <1>0, <1>1 DEF TrCounts, TrRight
<1>3. done <= trProbe + 1
  BY <1>1
<1>4. \/ /\ trProbe + 1 # TR_NPROBES /\ trPc' = "send" /\ trProbe' = trProbe + 1 /\ trTtl' = trTtl
      \/ /\ trProbe + 1 = TR_NPROBES /\ trTtl # TR_MAX_TTL /\ ~(done > 0)
         /\ trPc' = "send" /\ trProbe' = 0 /\ trTtl' = trTtl + 1
      \/ /\ trProbe + 1 = TR_NPROBES /\ trPc' = "end" /\ trProbe' = trProbe + 1
         /\ trTtl' = trTtl + 1
  BY DEF TrNextProbe
<1>5. trDone' = done
  BY DEF TrNextProbe
<1>6. trSeq' = trSeq /\ trFrom' = trFrom /\ trNet' = trNet /\ trCode' = trCode
  OBVIOUS
<1>7. /\ trNamed' = trSalast'
      /\ trNamed' \in {trFrom, trNamed, TrNobody} /\ trSalast' \in {trFrom, trSalast, TrNobody}
      /\ trLast'.code = code /\ trLast'.ttl = trTtl
      /\ code # -3 => trLast'.named = trFrom
  BY <1>0 DEF TrShow, TrReports
<1>8. TrNumbers'
  <2>1. trPc' \in {"send", "test", "enter", "blocked", "got", "end"}
    BY <1>4
  <2>2. trTtl' \in 1 .. TR_MAX_TTL + 1 /\ trProbe' \in 0 .. TR_NPROBES
    BY <1>1, <1>4, TrProduct
  <2>3. trDone' \in 0 .. TR_NPROBES
    BY <1>1, <1>3, <1>5, TrProduct
  <2>4. trFrom' \in TrHosts /\ trSalast' \in TrHosts /\ trNamed' \in TrHosts
    BY <1>0, <1>6, <1>7 DEF TrNumbers, TrHosts
  <2>5. trSeq' \in Nat /\ trCode' \in -3 .. 1
    BY <1>0, <1>6 DEF TrNumbers
  <2>6. QED
    BY <2>1, <2>2, <2>3, <2>4, <2>5 DEF TrNumbers
<1>9. TrCounts'
  <2>1. trTtl * TR_NPROBES = (trTtl - 1) * TR_NPROBES + TR_NPROBES
        /\ (trTtl - 1) * TR_NPROBES \in Nat /\ trTtl + 1 - 1 = trTtl
    BY <1>1, TrProduct
  <2>2. trDone' > 0 => trTtl' >= TR_DIST
    BY <1>1, <1>2, <1>4, <1>5, TrProduct
  <2>3. trPc' # "end" => trTtl' <= TR_MAX_TTL /\ trProbe' < TR_NPROBES /\ trDone' <= trProbe'
    BY <1>1, <1>3, <1>4, <1>5, TrProduct
  <2>4. trPc' # "end" => /\ trPc' = "send"
                         /\ trSeq' = (trTtl' - 1) * TR_NPROBES + trProbe'
    <3>1. CASE trTtl' = trTtl
      BY <1>1, <1>4, <1>6, <2>1, <3>1
    <3>2. CASE trTtl' = trTtl + 1
      <4>1. trTtl' - 1 = trTtl
        BY <1>1, <3>2
      <4>2. QED
        BY <1>1, <1>4, <1>6, <2>1, <4>1, TrProduct
    <3>3. QED
      BY <1>4, <3>1, <3>2
  <2>5. trPc' # "end" => (trTtl' - 1) * TR_NPROBES + trProbe' + 0
                            = (trTtl' - 1) * TR_NPROBES + trProbe'
    <3>1. trTtl' - 1 = trTtl - 1 \/ trTtl' - 1 = trTtl
      BY <1>1, <1>4
    <3>2. trTtl * TR_NPROBES \in Nat
      BY <1>1, TrProduct
    <3>3. trProbe' \in Nat
      BY <1>1, <1>4
    <3>4. QED
      BY <2>1, <3>1, <3>2, <3>3
  <2>6. trSeq' <= TR_MAX_TTL * TR_NPROBES
    BY <1>0, <1>6 DEF TrCounts
  <2>7. QED
    BY <2>2, <2>3, <2>4, <2>5, <2>6 DEF TrCounts
<1>10. TrMessages'
  BY <1>0, <1>4, <1>6 DEF TrMessages
<1>11. TrReports'
  BY <1>4, <1>7 DEF TrReports, TrRight
<1>12. QED
  BY <1>8, <1>9, <1>10, <1>11

\* A step inside recv_v4() that prints nothing.
LEMMA TrInside ==
  ASSUME TrInv, UNCHANGED <<trTtl, trProbe, trSeq, trDone, trSalast, trNamed, trLast>>,
         trPc \notin {"send", "end"}, trPc' \in {"test", "enter", "blocked"},
         trNet' \subseteq trNet, trCode' = trCode, trFrom' \in TrHosts
  PROVE  TrNumbers' /\ TrCounts' /\ TrMessages' /\ TrReports'
<1>0. TrNumbers /\ TrCounts /\ TrMessages /\ TrReports
  BY DEF TrInv
<1>1. TrNumbers'
  BY <1>0 DEF TrNumbers
<1>2. TrCounts'
  BY <1>0 DEF TrCounts
<1>3. TrMessages'
  BY <1>0 DEF TrMessages
<1>4. TrReports'
  BY <1>0 DEF TrReports
<1>5. QED
  BY <1>1, <1>2, <1>3, <1>4

\* Every step of traceroute, of the alarm and of the network preserves the
\* invariant.
LEMMA TrStepInv ==
  ASSUME TrInv, [TrNext]_trVars
  PROVE  TrInv'
<1>0. TrNumbers /\ TrFlags /\ TrCounts /\ TrMessages /\ TrReports
  BY DEF TrInv
<1>1. CASE TrSend
  <2>1. /\ trPc = "send" /\ trPc' = "test" /\ trSeq' = trSeq + 1
        /\ trNet' = trNet \/ \E r \in TrAnswers(trTtl, trSeq + 1) : trNet' = trNet \union {r}
        /\ UNCHANGED <<trTtl, trProbe, trDone, trCode, trFrom, trSalast, trNamed, trLast>>
    BY <1>1 DEF TrSend, trShown
  <2>2. trGotalarm' = FALSE /\ trArmed' = TRUE
    BY <1>1 DEF TrSend
  <2>3. TrFlags'
    BY <2>2 DEF TrFlags
  <2>4. TrNumbers'
    BY <1>0, <2>1 DEF TrNumbers
  <2>5. TrCounts'
    <3>1. /\ trTtl \in Nat \ {0} /\ trTtl <= TR_MAX_TTL /\ trProbe \in Nat
          /\ trProbe < TR_NPROBES /\ trSeq = (trTtl - 1) * TR_NPROBES + trProbe
      BY <1>0, <2>1, TrProduct DEF TrNumbers, TrCounts
    <3>2. /\ trTtl * TR_NPROBES = (trTtl - 1) * TR_NPROBES + TR_NPROBES
          /\ trTtl * TR_NPROBES <= TR_MAX_TTL * TR_NPROBES
          /\ (trTtl - 1) * TR_NPROBES \in Nat /\ TR_MAX_TTL * TR_NPROBES \in Nat
      BY <3>1, TrProduct
    <3>3. trSeq' <= TR_MAX_TTL * TR_NPROBES
      BY <2>1, <3>1, <3>2, TrProduct
    <3>4. trSeq' = (trTtl' - 1) * TR_NPROBES + trProbe' + 1
      BY <2>1, <3>1, <3>2
    <3>5. QED
      BY <1>0, <2>1, <3>3, <3>4 DEF TrCounts
  <2>6. TrMessages'
    <3>1. trTtl \in Nat /\ trSeq \in Nat
      BY <1>0 DEF TrNumbers
    <3>2. \A m \in trNet : m.seq \in Nat /\ m.seq < trSeq' /\ m.from \in TrHosts
      BY <1>0, <2>1, <3>1 DEF TrMessages
    <3>3. \A m \in TrAnswers(trTtl, trSeq + 1) : m.seq = trSeq' /\ m.from \in TrHosts
      BY <2>1, <3>1, TrAnswerRight
    <3>4. QED
      BY <2>1, <3>1, <3>2, <3>3 DEF TrMessages
  <2>7. TrReports'
    BY <1>0, <2>1 DEF TrReports
  <2>8. QED
    BY <2>3, <2>4, <2>5, <2>6, <2>7 DEF TrInv
<1>2. CASE TrTest
  <2>1. TrFlags'
    BY <1>0, <1>2 DEF TrTest, TrFlags
  <2>2. trPc = "test" /\ UNCHANGED <<trCode, trFrom, trNet>>
    BY <1>2 DEF TrTest
  <2>3. CASE ~trGotalarm /\ trPc' = "enter" /\ UNCHANGED <<trLoop, trShown>>
    <3>1. UNCHANGED <<trTtl, trProbe, trSeq, trDone, trSalast, trNamed, trLast>>
      BY <2>3 DEF trLoop, trShown
    <3>2. trFrom' \in TrHosts
      BY <1>0, <2>2 DEF TrNumbers
    <3>3. TrNumbers' /\ TrCounts' /\ TrMessages' /\ TrReports'
      BY <2>2, <2>3, <3>1, <3>2, TrInside
    <3>4. QED
      BY <2>1, <3>3 DEF TrInv
  <2>4. CASE trGotalarm /\ TrShow(-3) /\ TrNextProbe(trDone) /\ UNCHANGED trSeq
    <3>1. -3 \in -3 .. 1 /\ trDone \in Nat
      BY <1>0, TrProduct DEF TrNumbers
    <3>2. TrNumbers' /\ TrCounts' /\ TrMessages' /\ TrReports'
      BY <2>2, <2>4, <3>1, TrProbeOver
    <3>3. QED
      BY <2>1, <3>2 DEF TrInv
  <2>5. QED
    BY <1>2, <2>3, <2>4 DEF TrTest
<1>3. CASE TrEnter
  <2>1. /\ trPc = "enter" /\ trPc' = "blocked"
        /\ UNCHANGED <<trTtl, trProbe, trSeq, trDone, trSalast, trNamed, trLast>>
        /\ UNCHANGED <<trGotalarm, trArmed, trCode, trFrom, trNet>>
    BY <1>3 DEF TrEnter, trLoop, trShown
  <2>2. TrFlags' /\ trFrom' \in TrHosts
    BY <1>0, <2>1 DEF TrFlags, TrNumbers
  <2>3. QED
    BY <2>1, <2>2, TrInside DEF TrInv
<1>4. CASE TrRecv
  <2>1. PICK m \in trNet \union TrForeign :
          /\ trNet' \in {trNet, trNet \ {m}} /\ trFrom' = m.from
          /\ \/ TrMatches(m) /\ trCode' = TrRet(m) /\ trPc' = "got"
             \/ ~TrMatches(m) /\ trPc' = "test" /\ UNCHANGED trCode
    BY <1>4 DEF TrRecv
  <2>2. /\ trPc = "blocked"
        /\ UNCHANGED <<trTtl, trProbe, trSeq, trDone, trSalast, trNamed, trLast>>
        /\ UNCHANGED <<trGotalarm, trArmed>>
    BY <1>4 DEF TrRecv, trLoop, trShown
  <2>3. m.from \in TrHosts
    BY <1>0, <2>1 DEF TrMessages, TrForeign, TrHosts
  <2>4. TrFlags'
    BY <1>0, <2>2 DEF TrFlags
  <2>5. CASE ~TrMatches(m)
    <3>1. trPc' = "test" /\ trCode' = trCode /\ trNet' \subseteq trNet /\ trFrom' \in TrHosts
      BY <2>1, <2>3, <2>5
    <3>2. TrNumbers' /\ TrCounts' /\ TrMessages' /\ TrReports'
      BY <2>2, <3>1, TrInside
    <3>3. QED
      BY <2>4, <3>2 DEF TrInv
  <2>6. CASE TrMatches(m)
    <3>1. trPc' = "got" /\ trCode' = TrRet(m) /\ trNet' \subseteq trNet /\ trFrom' = m.from
      BY <2>1, <2>6
    <3>2. m \in trNet /\ m.seq = trSeq
      BY <2>1, <2>6 DEF TrForeign, TrMatches
    <3>3. m \in TrAnswers(trTtl, trSeq)
      BY <1>0, <2>2, <3>2 DEF TrMessages
    <3>4. TrRet(m) \in {-2, -1, 1} /\ TrRight(TrRet(m), m.from, trTtl)
      BY <1>0, <3>3, TrAnswerRight DEF TrNumbers
    <3>5. TrNumbers'
      BY <1>0, <2>2, <2>3, <3>1, <3>4 DEF TrNumbers
    <3>6. TrCounts'
      BY <1>0, <2>2, <3>1 DEF TrCounts
    <3>7. TrMessages'
      BY <1>0, <2>2, <3>1 DEF TrMessages
    <3>8. TrReports'
      BY <1>0, <2>2, <3>1, <3>4 DEF TrReports
    <3>9. QED
      BY <2>4, <3>5, <3>6, <3>7, <3>8 DEF TrInv
  <2>7. QED
    BY <2>5, <2>6
<1>5. CASE TrRecvError
  <2>1. /\ trPc = "blocked" /\ trPc' = "test"
        /\ UNCHANGED <<trTtl, trProbe, trSeq, trDone, trSalast, trNamed, trLast>>
        /\ UNCHANGED <<trGotalarm, trArmed, trCode, trFrom, trNet>>
    BY <1>5 DEF TrRecvError, trLoop, trShown
  <2>2. TrFlags' /\ trFrom' \in TrHosts
    BY <1>0, <2>1 DEF TrFlags, TrNumbers
  <2>3. QED
    BY <2>1, <2>2, TrInside DEF TrInv
<1>6. CASE TrReturn
  <2>1. /\ trPc = "got" /\ TrShow(trCode)
        /\ TrNextProbe(IF trCode = -1 THEN trDone + 1 ELSE trDone)
        /\ UNCHANGED <<trSeq, trCode, trFrom, trNet>>
    BY <1>6 DEF TrReturn
  <2>2. TrFlags'
    BY <1>0, <1>6 DEF TrReturn, TrFlags
  <2>3. PICK done \in Nat : /\ TrNextProbe(done)
                            /\ done = trDone \/ (done = trDone + 1 /\ trCode = -1)
    BY <1>0, <2>1, TrProduct DEF TrNumbers
  <2>4. trCode \in -3 .. 1 /\ (trCode # -3 => TrRight(trCode, trFrom, trTtl))
    BY <1>0, <2>1 DEF TrNumbers, TrReports
  <2>5. TrNumbers' /\ TrCounts' /\ TrMessages' /\ TrReports'
    BY <2>1, <2>3, <2>4, TrProbeOver
  <2>6. QED
    BY <2>2, <2>5 DEF TrInv
<1>7. CASE TrSigAlrm
  <2>1. /\ trPc' = IF trPc = "blocked" THEN "test" ELSE trPc
        /\ UNCHANGED <<trTtl, trProbe, trSeq, trDone, trSalast, trNamed, trLast>>
        /\ UNCHANGED <<trCode, trFrom, trNet>>
    BY <1>7 DEF TrSigAlrm, TrInterrupt, trLoop, trShown
  <2>2. TrFlags'
    BY <1>7 DEF TrSigAlrm, TrFlags
  <2>3. TrNumbers'
    BY <1>0, <2>1 DEF TrNumbers
  <2>4. TrCounts' /\ TrMessages'
    BY <1>0, <2>1 DEF TrCounts, TrMessages
  <2>5. TrReports'
    BY <1>0, <2>1 DEF TrReports
  <2>6. QED
    BY <2>2, <2>3, <2>4, <2>5 DEF TrInv
<1>8. CASE TrLose
  <2>1. /\ trNet' \subseteq trNet
        /\ UNCHANGED <<trTtl, trProbe, trSeq, trDone, trSalast, trNamed, trLast>>
        /\ UNCHANGED <<trPc, trGotalarm, trArmed, trCode, trFrom>>
    BY <1>8 DEF TrLose, trLoop, trShown
  <2>2. TrFlags'
    BY <1>0, <2>1 DEF TrFlags
  <2>3. TrNumbers'
    BY <1>0, <2>1 DEF TrNumbers
  <2>4. TrCounts' /\ TrMessages'
    BY <1>0, <2>1 DEF TrCounts, TrMessages
  <2>5. TrReports'
    BY <1>0, <2>1 DEF TrReports
  <2>6. QED
    BY <2>2, <2>3, <2>4, <2>5 DEF TrInv
<1>9. CASE UNCHANGED trVars
  <2>1. /\ UNCHANGED <<trTtl, trProbe, trSeq, trDone, trSalast, trNamed, trLast>>
        /\ UNCHANGED <<trPc, trGotalarm, trArmed, trCode, trFrom, trNet>>
    BY <1>9 DEF trVars, trLoop, trShown
  <2>2. TrFlags'
    BY <1>0, <2>1 DEF TrFlags
  <2>3. TrNumbers'
    BY <1>0, <2>1 DEF TrNumbers
  <2>4. TrCounts' /\ TrMessages'
    BY <1>0, <2>1 DEF TrCounts, TrMessages
  <2>5. TrReports'
    BY <1>0, <2>1 DEF TrReports
  <2>6. QED
    BY <2>2, <2>3, <2>4, <2>5 DEF TrInv
<1>10. QED
  BY <1>1, <1>2, <1>3, <1>4, <1>5, <1>6, <1>7, <1>8, <1>9 DEF TrNext

\* For every distance, any routers, any number of probes and whatever answers
\* are lost, late, repeated or out of order, every line of the trace names a
\* host at its distance (traceloop() and recv_v4(), traceroute.c).
THEOREM HopsAlwaysRight == TrSpec => []TrHopsRight
<1>1. TrInv => TrHopsRight
  <2> SUFFICES ASSUME TrInv PROVE TrHopsRight
    OBVIOUS
  <2>1. TrNumbers /\ TrFlags /\ TrCounts /\ TrReports
    BY DEF TrInv
  <2>2. TR_MAX_TTL * TR_NPROBES \in Nat
    BY TrProduct
  <2>3. trSeq \in 0 .. TR_MAX_TTL * TR_NPROBES
    BY <2>1, <2>2 DEF TrNumbers, TrCounts
  <2>4. {trFrom, trSalast, trNamed} \subseteq TrRouters \union {TrTarget, TrNobody}
    BY <2>1 DEF TrNumbers, TrHosts
  <2>5. TrTypeOK
    BY <2>1, <2>3, <2>4, Zenon DEF TrTypeOK, TrNumbers, TrFlags
  <2>6. /\ trLast.code = -2 => trLast.named[1] = trLast.ttl
        /\ trLast.code = -1 => trLast.named = TrTarget /\ trLast.ttl >= TR_DIST
        /\ trLast.code >= 0 => trLast.named[1] \in 1 .. trLast.ttl
    BY <2>1, TrProduct DEF TrReports, TrRight, TrRouters
  <2>7. trDone > 0 => trTtl >= TR_DIST
    BY <2>1 DEF TrCounts
  <2>8. QED
    BY <2>5, <2>6, <2>7 DEF TrHopsRight
<1>2. QED
  BY TrInitInv, TrStepInv, <1>1, PTL DEF TrSpec

-----------------------------------------------------------------------------
(* The memory check                                                        *)

\* The type invariant by kinds of state.
KvVmT ==
  /\ kvOpen \subseteq {"kvm", "vm", "vcpu"}
  /\ kvGuest \in {"null", "failed", "mapped", "unmapped"}
  /\ kvRun \in {"null", "failed", "mapped", "unmapped"}
\* The flags.
KvFlagT == kvVcpu \in BOOLEAN /\ kvFail \in BOOLEAN
\* The place in main().
KvPcT ==
  kvPc \in KvSetOf(KvStages) \union KvPciStages \union {"search", "cleanup", "exit", "crashed"}
\* The devices and their mappings.
KvPciT ==
  /\ kvLeft \in Seq(KvSetOf(KvDevs)) /\ kvHeld \subseteq KvGroups
  /\ kvMap \in [KvGroups -> SUBSET KvWords] /\ kvMaster \subseteq KvSetOf(KvDevs)
  /\ kvConts \subseteq KvSetOf(KvDevs) /\ kvFds \subseteq KvSetOf(KvDevs)
  /\ kvDone \subseteq KvSetOf(KvDevs)
\* The high mappings end exactly at the end of the memory.
KvNextT == kvNext \in Nat /\ \E m \in 0 .. KV_RAM : KV_RAM = kvNext + m * KV_GB
\* They begin at KV_HIGH.
KvHighT == KV_HIGH <= kvNext
\* The memory.
KvMemT == kvMem \in [KvWords -> {0, 1}]
\* The place of the search.
KvAtT == kvAt \in 0 .. KV_RAM

\* open_pci() has a device, and from the container on its group.
KvBusy ==
  /\ kvPc \in KvPciStages => kvLeft # <<>>
  /\ kvPc \in KvPciStages \ {"container"} => KvGroup # KvNoGroup
\* Only a device makes a word differ from zero.
KvHonest ==
  /\ kvFail => \E g \in kvHeld : kvMap[g] # {}
  /\ \A w \in KvWords : kvMem[w] # 0 => \E g \in kvHeld : w \in kvMap[g]
\* Nothing is mapped for a group that is not held.
KvGiven == \A g \in KvGroups : kvMap[g] # {} => g \in kvHeld
\* A device is opened after its container and its group, the only one of the group.
KvOwned ==
  /\ \A d \in kvFds : d \in kvConts /\ KvGroupOf[d] \in kvHeld
  /\ \A d, e \in kvFds : KvGroupOf[d] = KvGroupOf[e] => d = e
  /\ kvDone \subseteq kvFds
\* What open_pci() returned 0 for is watched.
KvCovers == \A d \in kvDone : KvWatched \subseteq kvMap[KvGroupOf[d]]
\* What open_pci() has of the device in hand.
KvAtHand ==
  /\ kvPc \in KvPciStages \ {"container"} => KvGroup \in kvHeld /\ KvDevice \in kvConts
  /\ kvPc = "attach" => \A e \in kvFds : KvGroupOf[e] # KvGroup
  /\ kvPc \in {"low", "high", "config"} => KvDevice \in kvFds
  /\ kvPc = "high" => (0 .. KV_LOW - 1) \union (KV_HIGH .. kvNext - 1) \subseteq kvMap[KvGroup]
  /\ kvPc = "config" => KvWatched \subseteq kvMap[KvGroup]
\* What main() leaves behind.
KvTidy ==
  kvPc = "exit" => /\ kvGuest # "mapped"
                   /\ kvOpen \subseteq IF kvVcpu THEN {} ELSE {"vcpu"}

\* The inductive invariant of the memory check.
KvInv == /\ KvVmT /\ KvFlagT /\ KvPcT /\ KvPciT /\ KvNextT /\ KvHighT /\ KvMemT /\ KvAtT
         /\ KvBusy /\ KvHonest /\ KvTidy
         /\ KvGiven /\ KvOwned /\ KvCovers /\ KvAtHand

\* What the sizes are assumed to be.
LEMMA KvNumbers ==
  /\ KV_RAM \in Nat \ {0} /\ KV_LOW \in Nat \ {0} /\ KV_HIGH \in Nat \ {0}
  /\ KV_GB \in Nat \ {0} /\ KV_LOW <= KV_HIGH /\ KV_HIGH <= KV_RAM
  /\ \E n \in 0 .. KV_RAM : KV_RAM = KV_HIGH + n * KV_GB
  /\ 0 \in KvWords
  BY KvAssumption DEF KvWords

\* The stages of main() and their order.
LEMMA KvStagesAre ==
  /\ DOMAIN KvStages = 1 .. 11
  /\ KvSetOf(KvStages) = {"version", "extension", "vm", "memory", "region", "load", "vcpu",
                          "runsize", "runmap", "regs", "find"}
<1>1. DOMAIN KvStages = 1 .. 11
  BY DEF KvStages
<1>2. QED
  BY <1>1 DEF KvStages, KvSetOf

\* A stage is followed by a stage.
LEMMA KvAfterIs ==
  ASSUME NEW s \in KvSetOf(KvStages), s # "find"
  PROVE  KvAfter(s) \in KvSetOf(KvStages)
<1>1. PICK k \in 1 .. 11 : s = KvStages[k]
  BY KvStagesAre DEF KvSetOf
<1>2. k # 11
  BY <1>1 DEF KvStages
<1>3. \A i \in 1 .. 11 : KvStages[i] = s => i = k
  BY <1>1 DEF KvStages
<1>4. (CHOOSE i \in DOMAIN KvStages : KvStages[i] = s) = k
  BY <1>1, <1>3, KvStagesAre
<1>5. KvAfter(s) = KvStages[1 + k]
  BY <1>4, Zenon DEF KvAfter
<1>6. 1 + k \in DOMAIN KvStages
  BY <1>2, KvStagesAre
<1>7. QED
  BY <1>5, <1>6 DEF KvSetOf

\* The device in hand.
LEMMA KvDeviceIs ==
  ASSUME KvPciT, kvLeft # <<>>
  PROVE  /\ KvDevice \in KvSetOf(KvDevs) /\ Tail(kvLeft) \in Seq(KvSetOf(KvDevs))
         /\ KvGroup # KvNoGroup => KvGroup \in KvGroups
<1>1. KvDevice \in KvSetOf(KvDevs) /\ Tail(kvLeft) \in Seq(KvSetOf(KvDevs))
  BY DEF KvPciT, KvDevice
<1>2. QED
  BY <1>1 DEF KvGroup, KvGroups

\* The invariant holds when main() starts.
LEMMA KvInitInv == KvInit => KvInv
<1> SUFFICES ASSUME KvInit PROVE KvInv
  OBVIOUS
<1>1. KvVmT
  BY DEF KvInit, KvVmT
<1>2. KvFlagT
  BY Zenon DEF KvInit, KvFlagT
<1>3. KvPcT /\ KvBusy
  BY KvStagesAre DEF KvInit, KvPcT, KvBusy, KvPciStages
<1>4. KvPciT
  <2>1. /\ kvLeft \in Seq(KvSetOf(KvDevs)) /\ kvHeld \subseteq KvGroups
        /\ kvMaster \subseteq KvSetOf(KvDevs) /\ kvConts \subseteq KvSetOf(KvDevs)
        /\ kvFds \subseteq KvSetOf(KvDevs) /\ kvDone \subseteq KvSetOf(KvDevs)
    BY DEF KvInit
  <2>2. kvMap = [g \in KvGroups |-> {}]
    BY DEF KvInit
  <2>3. kvMap \in [KvGroups -> SUBSET KvWords]
    BY <2>2
  <2>4. QED
    BY <2>1, <2>3 DEF KvPciT
<1>5. KvNextT /\ KvHighT /\ KvAtT
  BY KvNumbers DEF KvInit, KvNextT, KvHighT, KvAtT
<1>6. KvMemT /\ KvHonest
  <2>1. kvMem = [w \in KvWords |-> 0] /\ ~kvFail
    BY DEF KvInit
  <2>2. QED
    BY <2>1 DEF KvMemT, KvHonest
<1>7. KvTidy
  BY DEF KvInit, KvTidy
<1>8. KvGiven
  BY DEF KvInit, KvGiven
<1>9. KvOwned /\ KvCovers
  BY DEF KvInit, KvOwned, KvCovers
<1>10. KvAtHand
  BY DEF KvInit, KvAtHand, KvPciStages
<1>11. QED
  BY <1>1, <1>2, <1>3, <1>4, <1>5, <1>6, <1>7, <1>8, <1>9, <1>10 DEF KvInv

\* What an action leaves alone keeps its part of the invariant.
LEMMA KvFrames ==
  /\ UNCHANGED kvVm => (KvVmT => KvVmT')
  /\ UNCHANGED <<kvVcpu, kvFail>> => (KvFlagT => KvFlagT')
  /\ UNCHANGED kvPci => /\ KvPciT => KvPciT'
                        /\ KvNextT => KvNextT'
                        /\ KvHighT => KvHighT'
                        /\ KvGiven => KvGiven'
                        /\ KvOwned => KvOwned'
                        /\ KvCovers => KvCovers'
  /\ UNCHANGED kvNext => (KvNextT => KvNextT') /\ (KvHighT => KvHighT')
  /\ UNCHANGED kvMem => (KvMemT => KvMemT')
  /\ UNCHANGED kvAt => (KvAtT => KvAtT')
  /\ UNCHANGED <<kvPci, kvMem, kvFail>> => (KvHonest => KvHonest')
  /\ kvPc' \notin KvPciStages \ {"container"} => KvAtHand'
<1>1. /\ UNCHANGED kvVm => (KvVmT => KvVmT')
      /\ UNCHANGED kvMem => (KvMemT => KvMemT')
  BY DEF KvVmT, kvVm, KvMemT
<1>2. UNCHANGED <<kvVcpu, kvFail>> => (KvFlagT => KvFlagT')
  BY Zenon DEF KvFlagT
<1>3. UNCHANGED kvPci => (KvPciT => KvPciT')
  BY DEF KvPciT, kvPci
<1>4. /\ UNCHANGED kvNext => (KvNextT => KvNextT') /\ (KvHighT => KvHighT')
      /\ UNCHANGED kvAt => (KvAtT => KvAtT')
  BY DEF KvNextT, KvHighT, KvAtT
<1>5. UNCHANGED kvPci => UNCHANGED kvNext
  BY DEF kvPci
<1>6. UNCHANGED <<kvPci, kvMem, kvFail>> => (KvHonest => KvHonest')
  BY DEF KvHonest, kvPci
<1>7. UNCHANGED kvPci => (KvGiven => KvGiven') /\ (KvOwned => KvOwned') /\ (KvCovers => KvCovers')
  BY DEF KvGiven, KvOwned, KvCovers, kvPci
<1>8. kvPc' \notin KvPciStages \ {"container"} => KvAtHand'
  BY DEF KvAtHand, KvPciStages
<1>9. QED
  BY <1>1, <1>2, <1>3, <1>4, <1>5, <1>6, <1>7, <1>8
\* Going on to the next stage, or to the clean-up.
LEMMA KvGoesOn ==
  ASSUME NEW ok \in BOOLEAN, kvPc \in KvSetOf(KvStages), kvPc # "find", KvGoOn(ok)
  PROVE  KvPcT' /\ KvBusy' /\ KvTidy' /\ KvAtHand'
<1>1. kvPc' \in KvSetOf(KvStages) \union {"cleanup"}
  BY KvAfterIs DEF KvGoOn
<1>2. kvPc' \notin KvPciStages /\ kvPc' # "exit"
  BY <1>1, KvStagesAre DEF KvPciStages
<1>3. QED
  BY <1>1, <1>2 DEF KvPcT, KvBusy, KvTidy, KvAtHand, KvPciStages

\* The stages that set up the virtual machine.
LEMMA KvSetUp ==
  ASSUME KvInv, NEW ok \in BOOLEAN,
         \/ check_kvm_version(ok) \/ KvExtension(ok) \/ create_vm(ok)
         \/ setup_guest_memory(ok) \/ KvRegion(ok) \/ create_vcpu(ok) \/ KvRunSize(ok)
         \/ setup_vcpu_registers(ok) \/ KvRunMap(ok)
  PROVE  KvInv'
<1>0. /\ KvVmT /\ KvFlagT /\ KvPcT /\ KvPciT /\ KvNextT /\ KvHighT /\ KvMemT /\ KvAtT
      /\ KvBusy /\ KvHonest /\ KvTidy
      /\ KvGiven /\ KvOwned /\ KvCovers /\ KvAtHand
  BY DEF KvInv
<1>1. kvPc \in KvSetOf(KvStages) /\ kvPc # "find" /\ KvGoOn(ok)
  BY KvStagesAre DEF check_kvm_version, KvExtension, create_vm, setup_guest_memory, KvRegion,
     create_vcpu, KvRunSize, setup_vcpu_registers, KvRunMap, KvOnly
<1>2. UNCHANGED <<kvMem, kvPci, kvSearch>>
  BY DEF check_kvm_version, KvExtension, create_vm, setup_guest_memory, KvRegion,
     create_vcpu, KvRunSize, setup_vcpu_registers, KvRunMap, KvOnly
<1>3. KvVmT'
  BY <1>0 DEF check_kvm_version, KvExtension, create_vm, setup_guest_memory, KvRegion,
     create_vcpu, KvRunSize, setup_vcpu_registers, KvRunMap, KvOnly, KvVmT, kvVm
<1>4. kvVcpu' = kvVcpu \/ kvVcpu' = ok
  BY DEF check_kvm_version, KvExtension, create_vm, setup_guest_memory, KvRegion,
     create_vcpu, KvRunSize, setup_vcpu_registers, KvRunMap, KvOnly, kvVm
<1>5. kvFail' = kvFail /\ kvAt' = kvAt /\ kvMem' = kvMem
  BY <1>2 DEF kvSearch
<1>6. KvFlagT'
  BY <1>0, <1>4, <1>5, Zenon DEF KvFlagT
<1>7. QED
  BY <1>0, <1>1, <1>2, <1>3, <1>5, <1>6, KvGoesOn, KvFrames DEF KvInv

\* The memory is cleared before it is searched.
LEMMA KvLoads ==
  ASSUME KvInv, load_guest_code
  PROVE  KvInv'
<1>0. /\ KvVmT /\ KvFlagT /\ KvPcT /\ KvPciT /\ KvNextT /\ KvHighT /\ KvMemT /\ KvAtT
      /\ KvBusy /\ KvHonest /\ KvTidy
      /\ KvGiven /\ KvOwned /\ KvCovers /\ KvAtHand
  BY DEF KvInv
<1>1. kvPc \in KvSetOf(KvStages) /\ kvPc # "find" /\ KvGoOn(TRUE)
  BY KvStagesAre DEF load_guest_code
<1>2. UNCHANGED <<kvVm, kvPci, kvSearch>> /\ kvMem' = [kvMem EXCEPT ![0] = 0]
  BY DEF load_guest_code
<1>3. kvFail' = kvFail /\ kvAt' = kvAt /\ kvVcpu' = kvVcpu
  BY <1>2 DEF kvSearch, kvVm
<1>4. KvMemT'
  BY <1>0, <1>2, KvNumbers DEF KvMemT
<1>5. KvHonest'
  BY <1>0, <1>2, <1>3, KvNumbers DEF KvMemT, KvHonest, kvPci
<1>6. QED
  BY <1>0, <1>1, <1>2, <1>3, <1>4, <1>5, KvGoesOn, KvFrames DEF KvInv

\* open_pci() returns, from whatever point.
LEMMA KvDeviceOver ==
  ASSUME KvInv, kvPc \in KvPciStages, KvDeviceDone
  PROVE  /\ KvPcT' /\ KvBusy' /\ KvTidy' /\ KvAtHand'
         /\ kvLeft' \in Seq(KvSetOf(KvDevs))
<1>0. KvPciT /\ kvLeft # <<>>
  BY DEF KvInv, KvBusy
<1>1. /\ kvLeft' = Tail(kvLeft)
      /\ \/ kvLeft' = <<>> /\ kvPc' = "search"
         \/ kvLeft' # <<>> /\ kvPc' = "container"
  BY DEF KvDeviceDone, KvNextDevice
<1>2. kvLeft' \in Seq(KvSetOf(KvDevs))
  BY <1>0, <1>1, KvDeviceIs
<1>3. KvPcT' /\ KvBusy' /\ KvTidy' /\ KvAtHand'
  BY <1>1 DEF KvPcT, KvBusy, KvTidy, KvAtHand, KvPciStages
<1>4. QED
  BY <1>2, <1>3

\* find_pci_devices_by_vendor() preserves the invariant, whichever devices it
\* can read.
LEMMA KvFinding ==
  ASSUME KvInv, NEW ok \in BOOLEAN, find_pci_devices_by_vendor(ok)
  PROVE  KvInv'
<1>0. /\ KvVmT /\ KvFlagT /\ KvPcT /\ KvPciT /\ KvNextT /\ KvHighT /\ KvMemT /\ KvAtT
      /\ KvBusy /\ KvHonest /\ KvTidy
      /\ KvGiven /\ KvOwned /\ KvCovers /\ KvAtHand
  BY DEF KvInv
<1>1. UNCHANGED <<kvVm, kvMem, kvConts, kvHeld, kvFds, kvMap, kvNext, kvMaster, kvDone, kvSearch>>
  BY DEF find_pci_devices_by_vendor
<1>2. kvFail' = kvFail /\ kvAt' = kvAt /\ kvVcpu' = kvVcpu
  BY <1>1 DEF kvSearch, kvVm
<1>3. kvLeft' \in Seq(KvSetOf(KvDevs))
  <2>1. CASE UNCHANGED kvLeft
    BY <1>0, <2>1 DEF KvPciT
  <2>2. CASE \E s \in get_pci_device_info : kvLeft' = [i \in DOMAIN s |-> KvDevs[s[i]]]
    <3>1. PICK s \in get_pci_device_info : kvLeft' = [i \in DOMAIN s |-> KvDevs[s[i]]]
      BY <2>2
    <3>n. PICK n \in 0 .. Len(KvDevs) : s \in [1 .. n -> DOMAIN KvDevs]
      BY <3>1 DEF get_pci_device_info
    <3>2. DOMAIN s = 1 .. n /\ n \in Nat
      BY <3>n, KvAssumption
    <3>3. \A i \in 1 .. n : KvDevs[s[i]] \in KvSetOf(KvDevs)
      BY <3>n DEF KvSetOf
    <3>4. kvLeft' = [i \in 1 .. n |-> KvDevs[s[i]]]
      BY <3>1, <3>2
    <3>5. QED
      BY <3>2, <3>3, <3>4
  <2>3. QED
    BY <2>1, <2>2 DEF find_pci_devices_by_vendor
<1>4. KvPciT'
  BY <1>0, <1>1, <1>3 DEF KvPciT
<1>5. kvPc' = "cleanup" \/ (kvPc' = "container" /\ kvLeft' # <<>>)
  BY DEF find_pci_devices_by_vendor
<1>6. KvPcT' /\ KvBusy' /\ KvTidy' /\ KvAtHand'
  BY <1>5 DEF KvPcT, KvBusy, KvTidy, KvAtHand, KvPciStages
<1>7. KvHonest' /\ KvGiven' /\ KvOwned' /\ KvCovers'
  BY <1>0, <1>1, <1>2 DEF KvHonest, KvGiven, KvOwned, KvCovers
<1>8. QED
  BY <1>0, <1>1, <1>2, <1>4, <1>6, <1>7, KvFrames DEF KvInv

\* The container and the group.
LEMMA KvOpensGroup ==
  ASSUME KvInv, NEW ok \in BOOLEAN, KvContainer(ok)
  PROVE  KvInv'
<1>0. /\ KvVmT /\ KvFlagT /\ KvPcT /\ KvPciT /\ KvNextT /\ KvHighT /\ KvMemT /\ KvAtT
      /\ KvBusy /\ KvHonest /\ KvTidy
      /\ KvGiven /\ KvOwned /\ KvCovers /\ KvAtHand
  BY DEF KvInv
<1>1. UNCHANGED <<kvVm, kvMem, kvFds, kvMap, kvNext, kvMaster, kvDone, kvSearch>>
  BY DEF KvContainer
<1>2. kvFail' = kvFail /\ kvAt' = kvAt /\ kvVcpu' = kvVcpu
  BY <1>1 DEF kvSearch, kvVm
<1>3. kvPc \in KvPciStages /\ kvLeft # <<>>
  BY <1>0 DEF KvContainer, KvPciStages, KvBusy
<1>4. /\ KvDevice \in KvSetOf(KvDevs)
      /\ KvGroup # KvNoGroup => KvGroup \in KvGroups
  BY <1>0, <1>3, KvDeviceIs
<1>5. /\ kvHeld' = kvHeld \/ (KvGroup # KvNoGroup /\ kvHeld' = kvHeld \union {KvGroup})
      /\ kvConts' = kvConts \/ kvConts' = kvConts \union {KvDevice}
  BY DEF KvContainer, KvPerhaps
<1>6. KvPcT' /\ KvBusy' /\ KvTidy' /\ KvAtHand' /\ kvLeft' \in Seq(KvSetOf(KvDevs))
  <2>1. CASE KvDeviceDone
    BY <1>3, <2>1, KvDeviceOver
  <2>2. CASE /\ kvLeft' = kvLeft /\ KvGroup # KvNoGroup /\ KvGroup \notin kvHeld
             /\ kvPc' = "attach" /\ KvGroup \in kvHeld' /\ KvDevice \in kvConts'
    <3>1. KvGroup' = KvGroup /\ KvDevice' = KvDevice
      BY <2>2 DEF KvGroup, KvDevice
    <3>2. KvPcT' /\ KvBusy' /\ KvTidy' /\ kvLeft' \in Seq(KvSetOf(KvDevs))
      BY <1>0, <1>3, <2>2, <3>1 DEF KvPciT, KvPcT, KvBusy, KvTidy, KvPciStages
    <3>3. \A e \in kvFds : KvGroupOf[e] # KvGroup
      BY <1>0, <2>2 DEF KvOwned
    <3>4. KvAtHand'
      BY <1>1, <2>2, <3>1, <3>3 DEF KvAtHand
    <3>5. QED
      BY <3>2, <3>4
  <2>3. QED
    BY <2>1, <2>2 DEF KvContainer
<1>7. KvPciT'
  BY <1>0, <1>1, <1>4, <1>5, <1>6 DEF KvPciT
<1>8. KvHonest' /\ KvGiven' /\ KvOwned' /\ KvCovers'
  BY <1>0, <1>1, <1>2, <1>5 DEF KvHonest, KvGiven, KvOwned, KvCovers
<1>9. QED
  BY <1>0, <1>1, <1>2, <1>6, <1>7, <1>8, KvFrames DEF KvInv

\* The device: no other one of its group has been opened.
LEMMA KvOpensDevice ==
  ASSUME KvInv, NEW ok \in BOOLEAN, KvAttach(ok)
  PROVE  KvInv'
<1>0. /\ KvVmT /\ KvFlagT /\ KvPcT /\ KvPciT /\ KvNextT /\ KvHighT /\ KvMemT /\ KvAtT
      /\ KvBusy /\ KvHonest /\ KvTidy
      /\ KvGiven /\ KvOwned /\ KvCovers /\ KvAtHand
  BY DEF KvInv
<1>1. UNCHANGED <<kvVm, kvMem, kvConts, kvHeld, kvMap, kvNext, kvMaster, kvDone, kvSearch>>
  BY DEF KvAttach
<1>2. kvFail' = kvFail /\ kvAt' = kvAt /\ kvVcpu' = kvVcpu
  BY <1>1 DEF kvSearch, kvVm
<1>3. kvPc = "attach" /\ kvPc \in KvPciStages /\ kvLeft # <<>> /\ KvGroup # KvNoGroup
  BY <1>0 DEF KvAttach, KvPciStages, KvBusy
<1>4. KvDevice \in KvSetOf(KvDevs)
  BY <1>0, <1>3, KvDeviceIs
<1>5. kvFds' = kvFds \/ kvFds' = kvFds \union {KvDevice}
  BY DEF KvAttach, KvPerhaps
<1>6. KvGroup \in kvHeld /\ KvDevice \in kvConts /\ \A e \in kvFds : KvGroupOf[e] # KvGroup
  BY <1>0, <1>3 DEF KvAtHand, KvPciStages
<1>7. KvPcT' /\ KvBusy' /\ KvTidy' /\ KvAtHand' /\ kvLeft' \in Seq(KvSetOf(KvDevs))
  <2>1. CASE KvDeviceDone
    BY <1>3, <2>1, KvDeviceOver
  <2>2. CASE kvLeft' = kvLeft /\ kvPc' = "low" /\ KvDevice \in kvFds'
    <3>1. KvGroup' = KvGroup /\ KvDevice' = KvDevice
      BY <2>2 DEF KvGroup, KvDevice
    <3>2. KvPcT' /\ KvBusy' /\ KvTidy' /\ kvLeft' \in Seq(KvSetOf(KvDevs))
      BY <1>0, <1>3, <2>2, <3>1 DEF KvPciT, KvPcT, KvBusy, KvTidy, KvPciStages
    <3>3. KvAtHand'
      BY <1>1, <1>6, <2>2, <3>1 DEF KvAtHand
    <3>4. QED
      BY <3>2, <3>3
  <2>3. QED
    BY <2>1, <2>2 DEF KvAttach
<1>8. KvPciT'
  BY <1>0, <1>1, <1>4, <1>5, <1>7 DEF KvPciT
<1>9. KvOwned'
  <2>1. \A d \in kvFds' : d \in kvFds \/ d = KvDevice
    BY <1>5
  <2>2. KvGroupOf[KvDevice] = KvGroup
    BY DEF KvGroup
  <2>3. \A d \in kvFds' : d \in kvConts' /\ KvGroupOf[d] \in kvHeld'
    BY <1>0, <1>1, <1>6, <2>1, <2>2 DEF KvOwned
  <2>4. \A d, e \in kvFds' : KvGroupOf[d] = KvGroupOf[e] => d = e
    BY <1>0, <1>6, <2>1, <2>2 DEF KvOwned
  <2>5. QED
    BY <1>0, <1>1, <1>5, <2>3, <2>4 DEF KvOwned
<1>10. KvHonest' /\ KvGiven' /\ KvCovers'
  BY <1>0, <1>1, <1>2 DEF KvHonest, KvGiven, KvCovers
<1>11. QED
  BY <1>0, <1>1, <1>2, <1>7, <1>8, <1>9, <1>10, KvFrames DEF KvInv

\* The end of open_pci(): when it returns 0, everything is mapped.
LEMMA KvEndsOpen ==
  ASSUME KvInv, NEW ok \in BOOLEAN, KvConfig(ok)
  PROVE  KvInv'
<1>0. /\ KvVmT /\ KvFlagT /\ KvPcT /\ KvPciT /\ KvNextT /\ KvHighT /\ KvMemT /\ KvAtT
      /\ KvBusy /\ KvHonest /\ KvTidy
      /\ KvGiven /\ KvOwned /\ KvCovers /\ KvAtHand
  BY DEF KvInv
<1>1. UNCHANGED <<kvVm, kvMem, kvConts, kvHeld, kvFds, kvMap, kvNext, kvSearch>>
  BY DEF KvConfig
<1>2. kvFail' = kvFail /\ kvAt' = kvAt /\ kvVcpu' = kvVcpu
  BY <1>1 DEF kvSearch, kvVm
<1>3. kvPc = "config" /\ kvPc \in KvPciStages /\ kvLeft # <<>> /\ KvDeviceDone
  BY <1>0 DEF KvConfig, KvPciStages, KvBusy
<1>4. KvDevice \in KvSetOf(KvDevs)
  BY <1>0, <1>3, KvDeviceIs
<1>5. /\ kvMaster' = kvMaster \/ kvMaster' = kvMaster \union {KvDevice}
      /\ kvDone' = kvDone \/ kvDone' = kvDone \union {KvDevice}
  BY DEF KvConfig, KvPerhaps
<1>6. KvPcT' /\ KvBusy' /\ KvTidy' /\ KvAtHand' /\ kvLeft' \in Seq(KvSetOf(KvDevs))
  BY <1>3, KvDeviceOver
<1>7. KvPciT'
  BY <1>0, <1>1, <1>4, <1>5, <1>6 DEF KvPciT
<1>8. KvDevice \in kvFds /\ KvWatched \subseteq kvMap[KvGroupOf[KvDevice]]
  BY <1>0, <1>3 DEF KvAtHand, KvGroup
<1>9. KvOwned' /\ KvCovers'
  BY <1>0, <1>1, <1>5, <1>8 DEF KvOwned, KvCovers
<1>10. KvHonest' /\ KvGiven'
  BY <1>0, <1>1, <1>2 DEF KvHonest, KvGiven
<1>11. QED
  BY <1>0, <1>1, <1>2, <1>6, <1>7, <1>9, <1>10, KvFrames DEF KvInv

\* The program dies in open_pci().
LEMMA KvDies ==
  ASSUME KvInv, KvOverrun
  PROVE  KvInv'
<1>0. /\ KvVmT /\ KvFlagT /\ KvPcT /\ KvPciT /\ KvNextT /\ KvHighT /\ KvMemT /\ KvAtT
      /\ KvBusy /\ KvHonest /\ KvTidy
      /\ KvGiven /\ KvOwned /\ KvCovers /\ KvAtHand
  BY DEF KvInv
<1>1. UNCHANGED <<kvVm, kvMem, kvPci, kvSearch>> /\ kvPc' = "crashed"
  BY DEF KvOverrun
<1>2. kvFail' = kvFail /\ kvAt' = kvAt /\ kvVcpu' = kvVcpu
  BY <1>1 DEF kvSearch, kvVm
<1>3. KvPcT' /\ KvBusy' /\ KvTidy' /\ KvAtHand'
  BY <1>1 DEF KvPcT, KvBusy, KvTidy, KvAtHand, KvPciStages
<1>4. QED
  BY <1>0, <1>1, <1>2, <1>3, KvFrames DEF KvInv

\* A mapping reaches the words of the memory and no others.
LEMMA KvMapsWords ==
  ASSUME KvPciT, KvGroup \in KvGroups, NEW words \in SUBSET KvWords, KvMapDma(words)
  PROVE  /\ kvMap' \in [KvGroups -> SUBSET KvWords]
         /\ \A g \in KvGroups : kvMap[g] \subseteq kvMap'[g]
         /\ \A g \in KvGroups : g # KvGroup => kvMap'[g] = kvMap[g]
         /\ words \subseteq kvMap'[KvGroup]
<1>1. kvMap' = [kvMap EXCEPT ![KvGroup] = kvMap[KvGroup] \union words]
  BY DEF KvMapDma
<1>2. kvMap[KvGroup] \union words \in SUBSET KvWords
  BY DEF KvPciT
<1>3. QED
  BY <1>1, <1>2 DEF KvPciT

\* The DMA mappings preserve the invariant: none leaves the memory.
LEMMA KvMaps ==
  ASSUME KvInv, NEW ok \in BOOLEAN, KvMapLow(ok) \/ KvMapHigh(ok)
  PROVE  KvInv'
<1>0. /\ KvVmT /\ KvFlagT /\ KvPcT /\ KvPciT /\ KvNextT /\ KvHighT /\ KvMemT /\ KvAtT
      /\ KvBusy /\ KvHonest /\ KvTidy
      /\ KvGiven /\ KvOwned /\ KvCovers /\ KvAtHand
  BY DEF KvInv
<1>1. UNCHANGED <<kvVm, kvMem, kvConts, kvHeld, kvFds, kvMaster, kvDone, kvSearch>>
  BY DEF KvMapLow, KvMapHigh
<1>2. kvFail' = kvFail /\ kvAt' = kvAt /\ kvVcpu' = kvVcpu
  BY <1>1 DEF kvSearch, kvVm
<1>3. kvPc \in KvPciStages /\ kvLeft # <<>> /\ KvGroup # KvNoGroup
  BY <1>0 DEF KvMapLow, KvMapHigh, KvPciStages, KvBusy
<1>4. KvGroup \in KvGroups
  BY <1>0, <1>3, KvDeviceIs
<1>5. \/ KvDeviceDone
      \/ /\ kvLeft' = kvLeft /\ kvPc' \in {"high", "config"}
  BY <1>0 DEF KvMapLow, KvMapHigh
<1>6. KvPcT' /\ KvBusy' /\ KvTidy' /\ kvLeft' \in Seq(KvSetOf(KvDevs))
  <2>1. CASE KvDeviceDone
    BY <1>3, <2>1, KvDeviceOver
  <2>2. CASE /\ kvLeft' = kvLeft /\ kvPc' \in {"high", "config"}
    <3>1. KvGroup' = KvGroup
      BY <2>2 DEF KvGroup, KvDevice
    <3>2. QED
      BY <1>0, <1>3, <2>2, <3>1 DEF KvPciT, KvPcT, KvBusy, KvTidy, KvPciStages
  <2>3. QED
    BY <1>5, <2>1, <2>2
<1>7. kvNext < KV_RAM => /\ kvNext + KV_GB <= KV_RAM
                         /\ \E m \in 0 .. KV_RAM : KV_RAM = kvNext + KV_GB + m * KV_GB
  <2>1. SUFFICES ASSUME kvNext < KV_RAM
                 PROVE  /\ kvNext + KV_GB <= KV_RAM
                        /\ \E m \in 0 .. KV_RAM : KV_RAM = kvNext + KV_GB + m * KV_GB
    OBVIOUS
  <2>2. PICK m \in 0 .. KV_RAM : KV_RAM = kvNext + m * KV_GB
    BY <1>0 DEF KvNextT
  <2>3. kvNext \in Nat /\ KV_GB \in Nat /\ KV_RAM \in Nat
    BY <1>0, KvNumbers DEF KvNextT
  <2>4. m # 0
    BY <2>1, <2>2, <2>3
  <2>5. m - 1 \in 0 .. KV_RAM /\ (m - 1) * KV_GB \in Nat
        /\ m * KV_GB = KV_GB + (m - 1) * KV_GB
    BY <2>3, <2>4
  <2>6. KV_RAM = kvNext + KV_GB + (m - 1) * KV_GB
    BY <2>2, <2>3, <2>5
  <2>7. kvNext + KV_GB <= KV_RAM
    BY <2>3, <2>5, <2>6
  <2>8. QED
    BY <2>5, <2>6, <2>7
<1>8. KvNextT' /\ KvHighT'
  <2>1. \/ kvNext' = KV_HIGH
        \/ kvNext' = kvNext
        \/ kvNext < KV_RAM /\ kvNext' = kvNext + KV_GB
    BY DEF KvMapLow, KvMapHigh
  <2>2. CASE kvNext' = KV_HIGH
    BY <2>2, KvNumbers DEF KvNextT, KvHighT
  <2>3. CASE kvNext' = kvNext
    BY <1>0, <2>3 DEF KvNextT, KvHighT
  <2>4. CASE kvNext < KV_RAM /\ kvNext' = kvNext + KV_GB
    BY <1>0, <1>7, <2>4, KvNumbers DEF KvNextT, KvHighT
  <2>5. QED
    BY <2>1, <2>2, <2>3, <2>4
<1>9. /\ kvMap' \in [KvGroups -> SUBSET KvWords]
      /\ \A g \in KvGroups : kvMap[g] \subseteq kvMap'[g]
      /\ \A g \in KvGroups : g # KvGroup => kvMap'[g] = kvMap[g]
  <2>1. CASE kvMap' = kvMap
    BY <1>0, <2>1 DEF KvPciT
  <2>2. CASE KvMapDma(0 .. KV_LOW - 1)
    <3>1. 0 .. KV_LOW - 1 \in SUBSET KvWords
      BY KvNumbers DEF KvWords
    <3>2. QED
      BY <1>0, <1>4, <2>2, <3>1, KvMapsWords
  <2>3. CASE kvNext < KV_RAM /\ KvMapDma(kvNext .. kvNext + KV_GB - 1)
    <3>1. kvNext .. kvNext + KV_GB - 1 \in SUBSET KvWords
      BY <1>0, <1>7, <2>3, KvNumbers DEF KvWords, KvNextT
    <3>2. QED
      BY <1>0, <1>4, <2>3, <3>1, KvMapsWords
  <2>4. QED
    BY <2>1, <2>2, <2>3 DEF KvMapLow, KvMapHigh
<1>10. KvPciT'
  BY <1>0, <1>1, <1>6, <1>9 DEF KvPciT
<1>11. KvGroup \in kvHeld /\ KvDevice \in kvConts /\ KvDevice \in kvFds
  BY <1>0 DEF KvMapLow, KvMapHigh, KvAtHand, KvPciStages
<1>12. kvHeld \subseteq KvGroups /\ \A d \in kvDone : KvGroupOf[d] \in KvGroups
  BY <1>0 DEF KvPciT, KvOwned
<1>13. KvHonest' /\ KvGiven' /\ KvOwned' /\ KvCovers'
  <2>1. KvHonest'
    BY <1>0, <1>1, <1>2, <1>9, <1>12 DEF KvHonest
  <2>2. KvGiven'
    BY <1>0, <1>1, <1>9, <1>11 DEF KvGiven
  <2>3. KvOwned'
    BY <1>0, <1>1 DEF KvOwned
  <2>4. KvCovers'
    BY <1>0, <1>1, <1>9, <1>12 DEF KvCovers
  <2>5. QED
    BY <2>1, <2>2, <2>3, <2>4
<1>14. KvAtHand'
  <2>1. CASE KvDeviceDone
    BY <1>3, <2>1, KvDeviceOver
  <2>2. CASE KvMapLow(ok) /\ kvPc' = "high" /\ kvLeft' = kvLeft /\ KvMapDma(0 .. KV_LOW - 1)
    <3>1. KvGroup' = KvGroup /\ KvDevice' = KvDevice
      BY <2>2 DEF KvGroup, KvDevice
    <3>2. 0 .. KV_LOW - 1 \in SUBSET KvWords
      BY KvNumbers DEF KvWords
    <3>3. 0 .. KV_LOW - 1 \subseteq kvMap'[KvGroup]
      BY <1>0, <1>4, <2>2, <3>2, KvMapsWords
    <3>4. kvNext' = KV_HIGH /\ KV_HIGH .. kvNext' - 1 = {}
      BY <2>2, KvNumbers DEF KvMapLow
    <3>5. QED
      BY <1>1, <1>11, <2>2, <3>1, <3>3, <3>4 DEF KvAtHand, KvPciStages
  <2>3. CASE /\ kvPc = "high" /\ kvPc' = "high" /\ kvLeft' = kvLeft /\ kvNext < KV_RAM
             /\ KvMapDma(kvNext .. kvNext + KV_GB - 1) /\ kvNext' = kvNext + KV_GB
    <3>1. KvGroup' = KvGroup /\ KvDevice' = KvDevice
      BY <2>3 DEF KvGroup, KvDevice
    <3>2. kvNext .. kvNext + KV_GB - 1 \in SUBSET KvWords
      BY <1>0, <1>7, <2>3, KvNumbers DEF KvWords, KvNextT
    <3>3. kvNext .. kvNext + KV_GB - 1 \subseteq kvMap'[KvGroup]
      BY <1>0, <1>4, <2>3, <3>2, KvMapsWords
    <3>4. (0 .. KV_LOW - 1) \union (KV_HIGH .. kvNext - 1) \subseteq kvMap'[KvGroup]
      BY <1>0, <1>4, <1>9, <2>3 DEF KvAtHand
    <3>5. \A x \in KV_HIGH .. kvNext' - 1 :
            x \in KV_HIGH .. kvNext - 1 \/ x \in kvNext .. kvNext + KV_GB - 1
      BY <1>0, <2>3, KvNumbers DEF KvNextT
    <3>6. (0 .. KV_LOW - 1) \union (KV_HIGH .. kvNext' - 1) \subseteq kvMap'[KvGroup]
      BY <3>3, <3>4, <3>5
    <3>7. QED
      BY <1>1, <1>11, <2>3, <3>1, <3>6 DEF KvAtHand, KvPciStages
  <2>4. CASE /\ kvPc = "high" /\ kvPc' = "config" /\ kvLeft' = kvLeft /\ kvNext >= KV_RAM
             /\ kvMap' = kvMap
    <3>1. KvGroup' = KvGroup /\ KvDevice' = KvDevice
      BY <2>4 DEF KvGroup, KvDevice
    <3>2. (0 .. KV_LOW - 1) \union (KV_HIGH .. kvNext - 1) \subseteq kvMap[KvGroup]
      BY <1>0, <2>4 DEF KvAtHand
    <3>3. KV_HIGH .. KV_RAM - 1 \subseteq KV_HIGH .. kvNext - 1
      BY <1>0, <2>4, KvNumbers DEF KvNextT
    <3>4. KvWatched \subseteq kvMap'[KvGroup]
      BY <2>4, <3>2, <3>3 DEF KvWatched
    <3>5. QED
      BY <1>1, <1>11, <2>4, <3>1, <3>4 DEF KvAtHand, KvPciStages
  <2>5. QED
    BY <2>1, <2>2, <2>3, <2>4 DEF KvMapLow, KvMapHigh
<1>15. QED
  BY <1>0, <1>1, <1>2, <1>6, <1>8, <1>10, <1>13, <1>14, KvFrames DEF KvInv

\* A device writes.
LEMMA KvWrites ==
  ASSUME KvInv, KvDma
  PROVE  KvInv'
<1>0. /\ KvVmT /\ KvFlagT /\ KvPcT /\ KvPciT /\ KvNextT /\ KvHighT /\ KvMemT /\ KvAtT
      /\ KvBusy /\ KvHonest /\ KvTidy
      /\ KvGiven /\ KvOwned /\ KvCovers /\ KvAtHand
  BY DEF KvInv
<1>1. UNCHANGED <<kvPc, kvVm, kvPci, kvSearch>>
  BY DEF KvDma
<1>2. kvFail' = kvFail /\ kvAt' = kvAt /\ kvVcpu' = kvVcpu /\ kvLeft' = kvLeft /\ kvPc' = kvPc
      /\ kvGuest' = kvGuest /\ kvOpen' = kvOpen
  BY <1>1 DEF kvSearch, kvVm, kvPci
<1>d. PICK d \in kvMaster, v \in {0, 1} :
        /\ KvGroupOf[d] # KvNoGroup
        /\ \E w \in kvMap[KvGroupOf[d]] : kvMem' = [kvMem EXCEPT ![w] = v]
  BY DEF KvDma
<1>3. PICK w \in kvMap[KvGroupOf[d]] : kvMem' = [kvMem EXCEPT ![w] = v]
  BY <1>d
<1>4. w \in KvWords /\ KvGroupOf[d] \in kvHeld
  <2>1. d \in KvSetOf(KvDevs)
    BY <1>0 DEF KvPciT
  <2>2. KvGroupOf[d] \in KvGroups
    BY <1>d, <2>1 DEF KvGroups
  <2>3. QED
    BY <1>0, <1>3, <2>2 DEF KvPciT, KvGiven
<1>5. KvMemT'
  BY <1>0, <1>3, <1>4 DEF KvMemT
<1>6. KvFlagT'
  BY <1>0, <1>2, Zenon DEF KvFlagT
<1>7. KvHonest'
  <2>1. kvHeld' = kvHeld /\ kvMap' = kvMap
    BY <1>1 DEF kvPci
  <2>2. kvFail' => \E g \in kvHeld' : kvMap'[g] # {}
    BY <1>0, <1>2, <2>1 DEF KvHonest
  <2>3. ASSUME NEW x \in KvWords, kvMem'[x] # 0 PROVE \E g \in kvHeld : x \in kvMap[g]
    <3>1. CASE x = w
      BY <1>3, <1>4, <3>1
    <3>2. CASE x # w
      <4>1. kvMem[x] # 0
        BY <1>0, <1>3, <1>4, <2>3, <3>2 DEF KvMemT
      <4>2. QED
        BY <1>0, <4>1 DEF KvHonest
    <3>3. QED
      BY <3>1, <3>2
  <2>4. QED
    BY <2>1, <2>2, <2>3 DEF KvHonest
<1>8. KvPcT' /\ KvBusy' /\ KvTidy'
  BY <1>0, <1>2 DEF KvPcT, KvBusy, KvTidy, KvGroup, KvDevice
<1>h. KvAtHand'
  BY <1>0, <1>1, <1>2 DEF KvAtHand, KvGroup, KvDevice, kvPci
<1>9. QED
  BY <1>0, <1>1, <1>2, <1>5, <1>6, <1>7, <1>8, <1>h, KvFrames DEF KvInv

\* The search.
LEMMA KvSearches ==
  ASSUME KvInv, KvReadWord \/ KvPassEnds
  PROVE  KvInv'
<1>0. /\ KvVmT /\ KvFlagT /\ KvPcT /\ KvPciT /\ KvNextT /\ KvHighT /\ KvMemT /\ KvAtT
      /\ KvBusy /\ KvHonest /\ KvTidy
      /\ KvGiven /\ KvOwned /\ KvCovers /\ KvAtHand
  BY DEF KvInv
<1>1. UNCHANGED <<kvVm, kvMem, kvPci>> /\ kvPc' \in {"search", "cleanup"}
  BY DEF KvReadWord, KvPassEnds
<1>2. kvVcpu' = kvVcpu /\ kvMem' = kvMem
  BY <1>1 DEF kvVm
<1>3. KvAtT'
  BY <1>0, KvNumbers DEF KvAtT, KvReadWord, KvPassEnds
<1>4. kvFail' = kvFail \/ (kvAt \in KvWords /\ kvFail' = (kvFail \/ kvMem[kvAt] # 0))
  BY <1>0, KvNumbers DEF KvAtT, KvReadWord, KvPassEnds, KvWords
<1>5. KvFlagT'
  BY <1>0, <1>2, <1>4, Zenon DEF KvFlagT
<1>6. KvHonest'
  <2>1. kvFail' => kvFail \/ (kvAt \in KvWords /\ kvMem[kvAt] # 0)
    BY <1>4
  <2>2. kvFail' => \E g \in kvHeld : kvMap[g] # {}
    BY <1>0, <2>1 DEF KvHonest
  <2>3. kvHeld' = kvHeld /\ kvMap' = kvMap
    BY <1>1 DEF kvPci
  <2>4. QED
    BY <1>0, <1>2, <2>2, <2>3, Zenon DEF KvHonest
<1>7. KvPcT' /\ KvBusy' /\ KvTidy' /\ KvAtHand'
  BY <1>1 DEF KvPcT, KvBusy, KvTidy, KvAtHand, KvPciStages
<1>8. QED
  BY <1>0, <1>1, <1>3, <1>5, <1>6, <1>7, KvFrames DEF KvInv

\* main() ends.
LEMMA KvCleansUp ==
  ASSUME KvInv, NEW sized \in BOOLEAN, cleanup(sized)
  PROVE  KvInv'
<1>0. /\ KvVmT /\ KvFlagT /\ KvPcT /\ KvPciT /\ KvNextT /\ KvHighT /\ KvMemT /\ KvAtT
      /\ KvBusy /\ KvHonest /\ KvTidy
      /\ KvGiven /\ KvOwned /\ KvCovers /\ KvAtHand
  BY DEF KvInv
<1>1. UNCHANGED <<kvVcpu, kvMem, kvPci, kvSearch>> /\ kvPc' = "exit"
  BY DEF cleanup
<1>2. kvFail' = kvFail /\ kvAt' = kvAt /\ kvVcpu' = kvVcpu /\ kvMem' = kvMem
  BY <1>1 DEF kvSearch
<1>3. KvVmT'
  BY <1>0 DEF KvVmT, cleanup
<1>4. KvTidy'
  <2>1. kvGuest' # "mapped"
    BY <1>0 DEF KvVmT, cleanup
  <2>2. kvOpen' \subseteq IF kvVcpu THEN {} ELSE {"vcpu"}
    BY <1>0 DEF KvVmT, cleanup
  <2>3. QED
    BY <1>2, <2>1, <2>2 DEF KvTidy
<1>5. KvPcT' /\ KvBusy' /\ KvAtHand'
  BY <1>1 DEF KvPcT, KvBusy, KvAtHand, KvPciStages
<1>6. QED
  BY <1>0, <1>1, <1>2, <1>3, <1>4, <1>5, KvFrames DEF KvInv

\* Every step of main() and of the devices preserves the invariant.
LEMMA KvStepInv == KvInv /\ [KvNext]_kvVars => KvInv'
<1> SUFFICES ASSUME KvInv, [KvNext]_kvVars PROVE KvInv'
  OBVIOUS
<1>1. CASE KvNext
  BY <1>1, KvSetUp, KvLoads, KvFinding, KvOpensGroup, KvOpensDevice, KvEndsOpen,
     KvDies, KvMaps, KvWrites, KvSearches, KvCleansUp
     DEF KvNext, KvMain
<1>2. CASE UNCHANGED kvVars
  <2>1. /\ UNCHANGED <<kvVm, kvMem, kvPci, kvSearch, kvPc>>
        /\ UNCHANGED <<kvVcpu, kvGuest, kvOpen, kvFail, kvAt, kvLeft>>
    BY <1>2 DEF kvVars, kvVm, kvPci, kvSearch
  <2>2. KvPcT' /\ KvBusy' /\ KvTidy' /\ KvAtHand'
    BY <2>1 DEF KvInv, KvPcT, KvBusy, KvTidy, KvAtHand, KvGroup, KvDevice, kvPci
  <2>3. QED
    BY <2>1, <2>2, KvFrames DEF KvInv
<1>3. QED
  BY <1>1, <1>2

\* For every size of the memory, any devices and groups and whatever call
\* fails: a word that is not zero is in the reach of a group that was opened, a
\* device whose open_pci() returned 0 is watched in all the memory but the
\* hole and is the only open one of its group, every mapping is inside the
\* memory, and main() ends with the memory unmapped and no KVM descriptor open
\* but the one create_vcpu() keeps (main() and open_pci(),
\* kvm_pci_memcheck.c).
THEOREM VerdictAlwaysRight == KvSpec => []KvVerdictRight
<1>1. KvInv => KvVerdictRight
  <2> SUFFICES ASSUME KvInv PROVE KvVerdictRight
    OBVIOUS
  <2>0. /\ KvVmT /\ KvFlagT /\ KvPcT /\ KvPciT /\ KvNextT /\ KvHighT /\ KvMemT /\ KvAtT
        /\ KvBusy /\ KvHonest /\ KvTidy
        /\ KvGiven /\ KvOwned /\ KvCovers /\ KvAtHand
    BY DEF KvInv
  <2>1. kvNext \in KV_HIGH .. KV_RAM
    <3>1. PICK m \in 0 .. KV_RAM : KV_RAM = kvNext + m * KV_GB
      BY <2>0 DEF KvNextT
    <3>2. m * KV_GB \in Nat
      BY KvNumbers
    <3>3. QED
      BY <2>0, <3>1, <3>2, KvNumbers DEF KvNextT, KvHighT
  <2>2. {kvGuest, kvRun} \subseteq {"null", "failed", "mapped", "unmapped"}
    BY <2>0 DEF KvVmT
  <2>3. KvTypeOK
    BY <2>0, <2>1, <2>2, Zenon DEF KvTypeOK, KvVmT, KvFlagT, KvPcT, KvPciT, KvMemT, KvAtT
  <2>4. QED
    BY <2>0, <2>3 DEF KvVerdictRight, KvHonest, KvOwned, KvCovers, KvTidy
<1>2. QED
  BY <1>1, KvInitInv, KvStepInv, PTL DEF KvSpec

-----------------------------------------------------------------------------
(***************************************************************************)
(* The TFTP client.  Whichever way the file goes there is a sender, which  *)
(* is at block sent, and a receiver, which has stored got blocks, and the  *)
(* sender is at most one block ahead.  So the data and the acks under way  *)
(* are about two blocks at most where the network keeps the order, and     *)
(* about blocks that have not wrapped round where it does not.             *)
(***************************************************************************)

\* The data under way from a sender at block sent to a receiver of got blocks.
DataOk(net, sent, got) ==
  /\ \A i \in 1 .. Len(net) : net[i].op = "data" =>
       /\ net[i].num = Wire(net[i].blk) /\ net[i].len = LenOf(net[i].blk)
       /\ net[i].blk \in 1 .. sent
       /\ ~reorder => net[i].blk >= sent - 1 /\ (got = sent => net[i].blk = sent)
  /\ ~reorder => \A i, j \in 1 .. Len(net) :
       (i < j /\ net[i].op = "data" /\ net[j].op = "data") => net[i].blk <= net[j].blk

\* The acks under way to a sender at block sent from a receiver that acked
\* block acked last.
AcksOk(net, sent, acked) ==
  /\ \A i \in 1 .. Len(net) : net[i].op = "ack" =>
       IF reorder THEN net[i].num <= acked
       ELSE \/ net[i].num = Wire(sent) /\ acked = sent
            \/ sent > 0 /\ net[i].num = Wire(sent - 1)
  /\ ~reorder => \A i, j \in 1 .. Len(net) :
       (i < j /\ net[i].op = "ack" /\ net[j].op = "ack" /\ net[i].num = Wire(sent))
         => net[j].num = Wire(sent)

\* Nothing under way is data.
NoData(net) == \A i \in 1 .. Len(net) : net[i].op # "data"

\* The blocks of a file in their order.
InOrder(file) == Len(file) <= blocks /\ \A i \in 1 .. Len(file) : file[i] = i

\* The blocks received, in their order, but for what write() did not take.
Received(file) == Len(file) <= blocks /\ \A i \in 1 .. Len(file) : file[i] \in {i, Partial}

\* What the client of a get has acked, with acks from a receiver of got blocks
\* under way to a server at block sent: the last block, or still the one before
\* it, or, from a little-endian host, a block that is not being sent.
Acked(net, sent, number, got) ==
  IF little THEN sent = 1 /\ number = Radix /\ \A i \in 1 .. Len(net) : net[i].num = Radix
  ELSE \E a \in Nat : /\ a \in {got - 1, got} /\ a \in {sent - 1, sent}
                      /\ number = Wire(a) /\ AcksOk(net, sent, a)

\* The type invariant but for its flags and texts, and what bounds the file.
TfNumbers ==
  /\ num \in 0 .. Modulus - 1 /\ sendnum \in 0 .. Modulus - 1
  /\ nrexmt \in 0 .. RTT_MAXNREXMT + 1
  /\ cur \in Nat /\ srvCur \in Nat /\ blocks \in Nat \ {0}
  /\ pc \in {"wait", "written", "got"} => nrexmt <= RTT_MAXNREXMT
TfSeqs ==
  /\ out \in Seq(Nat) /\ srvFile \in Seq(Nat)
  /\ toSrv \in Seq(Packet) /\ toCli \in Seq(Packet)
TfFlags ==
  /\ reorder \in BOOLEAN /\ srvUp \in BOOLEAN /\ little \in BOOLEAN
  /\ mode \in Modes /\ tail \in Lens \ {"full"} /\ rlen \in Lens
  /\ pc \in {"start", "first", "wait", "written", "got"} \union Ended
  /\ reorder => blocks <= Modulus - 2

\* Before the first packet of the server has come nothing has been done.
TfEarly ==
  pc \in {"start", "first", "error"} => cur = 0 /\ toSrv = <<>> /\ out = <<>> /\ srvFile = <<>>
TfStart ==
  /\ pc = "start" => srvCur = 0 /\ toCli = <<>> /\ ~srvUp
  /\ (srvUp /\ mode = "get") => srvCur # 0

\* The client sends: the server has stored all blocks but the one in hand, or
\* that one too.  An ack that let the client go on was the last one of its
\* kind, which matters until the next block is sent.
TfPut ==
  mode = "put" =>
    /\ out = <<>> /\ pc # "written"
    /\ InOrder(srvFile) /\ Len(srvFile) \in {cur - 1, cur}
    /\ cur <= blocks /\ num = Wire(cur)
    /\ pc \notin {"start", "first", "error"} => cur > 0 /\ sendnum = num
    /\ pc \in {"got", "ok", "crashed"} => Len(srvFile) = cur
    /\ pc = "ok" => cur = blocks
    /\ NoData(toCli) /\ \A i \in 1 .. Len(toSrv) : toSrv[i].op = "data"
    /\ DataOk(toSrv, cur, Len(srvFile)) /\ AcksOk(toCli, cur, Len(srvFile))
    /\ pc \in {"first", "got"} => AcksOk(toCli, cur + 1, cur)

\* The client receives: the server is at the block written last or at the one
\* behind it.  The client acks the block written last, or still the one before
\* it: after an alarm that came between write() and alarm(0).  A little-endian
\* host gets no further than block 1.
TfGet ==
  mode = "get" =>
    /\ srvFile = <<>>
    /\ Received(out) /\ srvCur \in {Len(out), Len(out) + 1} /\ srvCur <= blocks
    /\ Len(out) = (IF pc = "written" THEN cur + 1 ELSE cur)
    /\ pc \notin {"start", "error"} => num = Wire(cur + 1)
    /\ pc \in {"written", "got"} => rlen = LenOf(Len(out))
    /\ pc = "ok" => Len(out) = blocks
    /\ pc \in {"written", "got", "ok"} => ~little
    /\ \A i \in 1 .. Len(toSrv) : toSrv[i].op = "ack"
    /\ DataOk(toCli, srvCur, Len(out))
    /\ pc \notin {"start", "first", "error"} =>
         Len(out) > 0 /\ Acked(toSrv, srvCur, sendnum, Len(out))

\* The inductive invariant of the client.
TfInv == TfNumbers /\ TfSeqs /\ TfFlags /\ TfEarly /\ TfStart /\ TfPut /\ TfGet

-----------------------------------------------------------------------------
(* Numbers, and packets in a sequence                                      *)

\* The remainder of a number's successor.
LEMMA ModNext ==
  ASSUME NEW M \in Nat, M > 2, NEW c \in Nat
  PROVE  /\ c % M \in 0 .. M - 1
         /\ (c + 1) % M = IF (c % M) + 1 = M THEN 0 ELSE (c % M) + 1
<1>1. PICK q \in Int : c = M * q + (c % M)
  <2>1. c \div M \in Int /\ c = M * (c \div M) + (c % M)
    OBVIOUS
  <2>2. QED
    BY <2>1
<1>2. PICK d \in Int : c + 1 = M * d + ((c + 1) % M)
  <2>1. (c + 1) \div M \in Int /\ c + 1 = M * ((c + 1) \div M) + ((c + 1) % M)
    OBVIOUS
  <2>2. QED
    BY <2>1
<1>3. PICK r \in 0 .. M - 1 : r = c % M
  OBVIOUS
<1>4. PICK s \in 0 .. M - 1 : s = (c + 1) % M
  OBVIOUS
<1>5. PICK e \in Int : e = d - q
  OBVIOUS
<1>6. M * e = r + 1 - s
  <2>1. M * d - M * q = M * (d - q)
    OBVIOUS
  <2>2. PICK u \in Int, v \in Int : u = M * d /\ v = M * q
    OBVIOUS
  <2>3. c = v + r /\ c + 1 = u + s
    BY <1>1, <1>2, <1>3, <1>4, <2>2
  <2>4. u - v = r + 1 - s
    BY <2>2, <2>3
  <2>5. QED
    BY <1>5, <2>1, <2>2, <2>4
<1>7. e < 2
  <2>1. e >= 2 => M * e >= M * 2
    OBVIOUS
  <2>2. QED
    BY <1>6, <2>1
<1>8. e > -1
  <2>1. e <= -1 => M * e <= M * (-1)
    OBVIOUS
  <2>2. QED
    BY <1>6, <2>1
<1>9. e = 0 \/ e = 1
  BY <1>7, <1>8
<1>10. s = IF r + 1 = M THEN 0 ELSE r + 1
  BY <1>6, <1>9
<1>11. QED
  BY <1>3, <1>4, <1>10

\* What the 16 bits of a block number tell.
LEMMA WireFacts ==
  ASSUME NEW c \in Nat
  PROVE  /\ Wire(c) \in 0 .. Modulus - 1
         /\ Wire(c) # Wire(c + 1)
         /\ NextNum(Wire(c)) = Wire(c + 1)
         /\ (Wire(c + 1) + Modulus - 1) % Modulus = Wire(c)
         /\ c < Modulus => Wire(c) = c
<1>1. \A M \in Nat, x \in Nat : M > 2 =>
        /\ x % M \in 0 .. M - 1
        /\ (x + 1) % M = IF (x % M) + 1 = M THEN 0 ELSE (x % M) + 1
  BY ModNext
<1>2. /\ c % Modulus \in 0 .. Modulus - 1
      /\ (c + 1) % Modulus = IF (c % Modulus) + 1 = Modulus THEN 0 ELSE (c % Modulus) + 1
  BY <1>1, ModulusAssumption
<1>3. QED
  BY <1>2, ModulusAssumption DEF Wire, NextNum

\* A network that delivered a packet has the packets it had, in their order.
LEMMA RestFacts ==
  ASSUME NEW net \in Seq(Packet), NEW i \in 1 .. Len(net), NEW new \in Rest(net, i)
  PROVE  /\ new \in Seq(Packet) /\ Len(new) <= Len(net)
         /\ \A j \in 1 .. Len(new) : \E h \in 1 .. Len(net) : new[j] = net[h]
         /\ \A j, k \in 1 .. Len(new) : j < k =>
              \E h, l \in 1 .. Len(net) : h < l /\ new[j] = net[h] /\ new[k] = net[l]
<1>1. CASE new = net
  BY <1>1
<1>2. CASE new = RemoveAt(net, i)
  <2> DEFINE a == SubSeq(net, 1, i - 1)
             b == SubSeq(net, i + 1, Len(net))
  <2>1. /\ a \in Seq(Packet) /\ Len(a) = i - 1 /\ \A j \in 1 .. i - 1 : a[j] = net[j]
    OBVIOUS
  <2>2. /\ b \in Seq(Packet) /\ Len(b) = Len(net) - i
        /\ \A j \in 1 .. Len(net) - i : b[j] = net[i + j]
    OBVIOUS
  <2>3. new = a \o b
    BY <1>2 DEF RemoveAt
  <2> HIDE DEF a, b
  <2>4. new \in Seq(Packet) /\ Len(new) = Len(net) - 1
    BY <2>1, <2>2, <2>3
  <2>5. \A j \in 1 .. Len(new) : new[j] = net[IF j < i THEN j ELSE j + 1]
    <3>1. SUFFICES ASSUME NEW j \in 1 .. Len(new)
                   PROVE  new[j] = net[IF j < i THEN j ELSE j + 1]
      OBVIOUS
    <3>2. CASE j < i
      <4>1. j \in 1 .. Len(a) /\ a[j] = net[j]
        BY <2>1, <3>2
      <4>2. new[j] = a[j]
        BY <2>1, <2>2, <2>3, <2>4, <4>1
      <4>3. QED
        BY <3>2, <4>1, <4>2
    <3>3. CASE j >= i
      <4>1. new[j] = b[j - (i - 1)]
        BY <2>1, <2>2, <2>3, <2>4, <3>3
      <4>2. PICK h \in 1 .. Len(net) - i : h = j - (i - 1) /\ i + h = j + 1
        BY <2>4, <3>3
      <4>3. new[j] = b[h] /\ b[h] = net[i + h]
        BY <2>2, <4>1, <4>2
      <4>4. new[j] = net[j + 1]
        BY <4>2, <4>3
      <4>5. ~(j < i)
        BY <3>3
      <4>6. QED
        BY <4>4, <4>5
    <3>4. QED
      BY <3>2, <3>3
  <2>6. \A j \in 1 .. Len(new) : (IF j < i THEN j ELSE j + 1) \in 1 .. Len(net)
    BY <2>4
  <2>7. \A j, k \in 1 .. Len(new) : j < k =>
          (IF j < i THEN j ELSE j + 1) < (IF k < i THEN k ELSE k + 1)
    BY <2>4
  <2> DEFINE at(j) == IF j < i THEN j ELSE j + 1
  <2>8. /\ \A j \in 1 .. Len(new) : at(j) \in 1 .. Len(net) /\ new[j] = net[at(j)]
        /\ \A j, k \in 1 .. Len(new) : j < k => at(j) < at(k)
    BY <2>5, <2>6, <2>7
  <2> HIDE DEF at
  <2>9. Len(new) <= Len(net)
    BY <2>4
  <2>10. QED
    BY <2>4, <2>8, <2>9
<1>3. QED
  BY <1>1, <1>2 DEF Rest

\* What the network holds after it was given a packet: what it had, and maybe
\* the packet at its end.
LEMMA PutFacts ==
  ASSUME NEW net \in Seq(Packet), NEW p \in Packet, NEW new \in Put(net, p)
  PROVE  /\ new \in Seq(Packet) /\ Len(new) >= Len(net)
         /\ \A j \in 1 .. Len(net) : new[j] = net[j]
         /\ \A j \in 1 .. Len(new) : j > Len(net) => j = Len(net) + 1 /\ new[j] = p
<1>1. new = net \/ new = Append(net, p)
  BY DEF Put
<1>2. QED
  BY <1>1

\* Where the order is kept only the first packet can be delivered.
LEMMA DeliverableFacts ==
  ASSUME NEW net \in Seq(Packet), NEW i \in Deliverable(net)
  PROVE  i \in 1 .. Len(net) /\ (~reorder => i = 1)
  BY DEF Deliverable

-----------------------------------------------------------------------------
(* What sending and receiving do to the data and the acks under way        *)

\* A delivery leaves them as they were.
LEMMA DataRest ==
  ASSUME NEW net \in Seq(Packet), NEW i \in 1 .. Len(net), NEW new \in Rest(net, i),
         NEW sent \in Nat, NEW got \in Nat, DataOk(net, sent, got)
  PROVE  DataOk(new, sent, got)
<1>1. /\ \A j \in 1 .. Len(new) : \E h \in 1 .. Len(net) : new[j] = net[h]
      /\ \A j, k \in 1 .. Len(new) : j < k =>
           \E h, l \in 1 .. Len(net) : h < l /\ new[j] = net[h] /\ new[k] = net[l]
  BY RestFacts
<1>2. ASSUME NEW j \in 1 .. Len(new), new[j].op = "data"
      PROVE  /\ new[j].num = Wire(new[j].blk) /\ new[j].len = LenOf(new[j].blk)
             /\ new[j].blk \in 1 .. sent
             /\ ~reorder => new[j].blk >= sent - 1 /\ (got = sent => new[j].blk = sent)
  <2>1. PICK h \in 1 .. Len(net) : new[j] = net[h]
    BY <1>1
  <2>2. QED
    BY <1>2, <2>1, Zenon DEF DataOk
<1>3. ASSUME ~reorder, NEW j \in 1 .. Len(new), NEW k \in 1 .. Len(new),
             j < k, new[j].op = "data", new[k].op = "data"
      PROVE  new[j].blk <= new[k].blk
  <2>1. PICK h, l \in 1 .. Len(net) : h < l /\ new[j] = net[h] /\ new[k] = net[l]
    BY <1>1, <1>3
  <2>2. QED
    BY <1>3, <2>1, Zenon DEF DataOk
<1>4. QED
  BY <1>2, <1>3, Zenon DEF DataOk

LEMMA AcksRest ==
  ASSUME NEW net \in Seq(Packet), NEW i \in 1 .. Len(net), NEW new \in Rest(net, i),
         NEW sent \in Nat, NEW acked \in Nat, AcksOk(net, sent, acked)
  PROVE  AcksOk(new, sent, acked)
<1>1. /\ \A j \in 1 .. Len(new) : \E h \in 1 .. Len(net) : new[j] = net[h]
      /\ \A j, k \in 1 .. Len(new) : j < k =>
           \E h, l \in 1 .. Len(net) : h < l /\ new[j] = net[h] /\ new[k] = net[l]
  BY RestFacts
<1>2. ASSUME NEW j \in 1 .. Len(new), new[j].op = "ack"
      PROVE  IF reorder THEN new[j].num <= acked
             ELSE \/ new[j].num = Wire(sent) /\ acked = sent
                  \/ sent > 0 /\ new[j].num = Wire(sent - 1)
  <2>1. PICK h \in 1 .. Len(net) : new[j] = net[h]
    BY <1>1
  <2>2. QED
    BY <1>2, <2>1, Zenon DEF AcksOk
<1>3. ASSUME ~reorder, NEW j \in 1 .. Len(new), NEW k \in 1 .. Len(new),
             j < k, new[j].op = "ack", new[k].op = "ack", new[j].num = Wire(sent)
      PROVE  new[k].num = Wire(sent)
  <2>1. PICK h, l \in 1 .. Len(net) : h < l /\ new[j] = net[h] /\ new[k] = net[l]
    BY <1>1, <1>3
  <2>2. QED
    BY <1>3, <2>1, Zenon DEF AcksOk
<1>4. QED
  BY <1>2, <1>3, Zenon DEF AcksOk

\* The packets of the two sides are packets.
LEMMA PacketFacts ==
  ASSUME tail \in Lens, NEW n \in 0 .. Modulus - 1, NEW b \in Nat
  PROVE  Data(n, b) \in Packet /\ Ack(n) \in Packet /\ Error(n) \in Packet
<1>1. LenOf(b) \in Lens /\ "empty" \in Lens
  BY DEF LenOf, Lens
<1>2. 0 \in Nat
  OBVIOUS
<1>3. QED
  BY <1>1, <1>2 DEF Data, Ack, Error, Packet

\* The sender sends its block.
LEMMA DataSent ==
  ASSUME NEW sent \in Nat \ {0}, NEW got \in Nat, tail \in Lens,
         NEW net \in Seq(Packet), NEW new \in Put(net, Data(Wire(sent), sent)),
         DataOk(net, sent, got)
  PROVE  DataOk(new, sent, got)
<1>0. PICK p \in Packet : p = Data(Wire(sent), sent)
  BY WireFacts, PacketFacts
<1>1. /\ Len(net) \in Nat /\ Len(new) \in Nat
      /\ \A j \in 1 .. Len(net) : new[j] = net[j]
      /\ \A j \in 1 .. Len(new) : j > Len(net) => j = Len(net) + 1 /\ new[j] = p
  BY <1>0, PutFacts
<1>2. \A j \in 1 .. Len(new) : j \in 1 .. Len(net) \/ (j = Len(net) + 1 /\ new[j] = p)
  BY <1>1
<1>3. p.op = "data" /\ p.blk = sent /\ p.num = Wire(sent) /\ p.len = LenOf(sent)
  BY <1>0 DEF Data
<1>4. sent \in 1 .. sent /\ sent >= sent - 1
  OBVIOUS
<1>5. ASSUME NEW j \in 1 .. Len(new), new[j].op = "data"
      PROVE  /\ new[j].num = Wire(new[j].blk) /\ new[j].len = LenOf(new[j].blk)
             /\ new[j].blk \in 1 .. sent
             /\ ~reorder => new[j].blk >= sent - 1 /\ (got = sent => new[j].blk = sent)
  BY <1>1, <1>2, <1>3, <1>4, <1>5, Zenon DEF DataOk
<1>6. ASSUME ~reorder, NEW j \in 1 .. Len(new), NEW k \in 1 .. Len(new),
             j < k, new[j].op = "data", new[k].op = "data"
      PROVE  new[j].blk <= new[k].blk
  <2>1. j \in 1 .. Len(net)
    BY <1>1, <1>2, <1>6
  <2>2. CASE k \in 1 .. Len(net)
    BY <1>1, <1>6, <2>1, <2>2, Zenon DEF DataOk
  <2>3. CASE new[k] = p
    BY <1>3, <1>5, <1>6, <2>3
  <2>4. QED
    BY <1>2, <2>2, <2>3
<1>7. QED
  BY <1>5, <1>6, Zenon DEF DataOk

\* The packet is not data: it does not matter.
LEMMA DataOther ==
  ASSUME NEW sent \in Nat, NEW got \in Nat, NEW p \in Packet, p.op # "data",
         NEW net \in Seq(Packet), NEW new \in Put(net, p), DataOk(net, sent, got)
  PROVE  DataOk(new, sent, got)
<1>1. /\ \A j \in 1 .. Len(net) : new[j] = net[j]
      /\ Len(net) \in Nat /\ Len(new) \in Nat
      /\ \A j \in 1 .. Len(new) : j > Len(net) => j = Len(net) + 1 /\ new[j] = p
  BY PutFacts
<1>2. \A j \in 1 .. Len(new) : new[j].op = "data" => j \in 1 .. Len(net) /\ new[j] = net[j]
  BY <1>1
<1>3. QED
  BY <1>2, Zenon DEF DataOk

\* No data comes from a delivery or from a packet that is not data.
LEMMA NoDataKept ==
  ASSUME NEW net \in Seq(Packet), NoData(net), NEW new,
         \/ \E i \in 1 .. Len(net) : new \in Rest(net, i)
         \/ \E p \in Packet : p.op # "data" /\ new \in Put(net, p)
  PROVE  NoData(new)
<1>1. CASE \E i \in 1 .. Len(net) : new \in Rest(net, i)
  <2>1. \A j \in 1 .. Len(new) : \E h \in 1 .. Len(net) : new[j] = net[h]
    BY <1>1, RestFacts
  <2>2. QED
    BY <2>1 DEF NoData
<1>2. CASE \E p \in Packet : p.op # "data" /\ new \in Put(net, p)
  <2>1. PICK p \in Packet : p.op # "data" /\ new \in Put(net, p)
    BY <1>2
  <2>2. /\ \A j \in 1 .. Len(net) : new[j] = net[j]
        /\ Len(net) \in Nat /\ Len(new) \in Nat
        /\ \A j \in 1 .. Len(new) : j > Len(net) => j = Len(net) + 1 /\ new[j] = p
    BY <2>1, PutFacts
  <2>3. \A j \in 1 .. Len(new) : j \in 1 .. Len(net) \/ j > Len(net)
    BY <2>2
  <2>4. QED
    BY <2>1, <2>2, <2>3 DEF NoData
<1>3. QED
  BY <1>1, <1>2

\* The receiver takes the sender's block: where the order is kept no older one
\* is behind it.
LEMMA DataTaken ==
  ASSUME NEW net \in Seq(Packet), NEW i \in Deliverable(net), net[i].op = "data",
         NEW sent \in Nat, NEW got \in Nat, DataOk(net, sent, got), net[i].blk = sent
  PROVE  DataOk(net, sent, sent)
<1>1. i \in 1 .. Len(net) /\ (~reorder => i = 1)
  BY DeliverableFacts
<1>2. ASSUME ~reorder, NEW j \in 1 .. Len(net), net[j].op = "data"
      PROVE  net[j].blk = sent
  <2>1. net[j].blk \in 1 .. sent
    BY <1>2 DEF DataOk
  <2>2. net[j].blk >= sent
    <3>1. j = i \/ i < j
      BY <1>1, <1>2
    <3>2. CASE i < j
      BY <1>1, <1>2, <3>2, Zenon DEF DataOk
    <3>3. QED
      BY <3>1, <3>2, <2>1
  <2>3. QED
    BY <2>1, <2>2
<1>3. QED
  BY <1>2, Zenon DEF DataOk

\* The sender goes on to its next block.
LEMMA DataNext ==
  ASSUME NEW net \in Seq(Packet), NEW sent \in Nat, DataOk(net, sent, sent)
  PROVE  DataOk(net, sent + 1, sent)
<1>1. sent # sent + 1
  OBVIOUS
<1>2. \A b \in 1 .. sent : b \in 1 .. sent + 1
  OBVIOUS
<1>3. sent >= (sent + 1) - 1
  OBVIOUS
<1>4. QED
  BY <1>1, <1>2, <1>3, Zenon DEF DataOk

\* A packet that has the number behind the last block stored is the sender's
\* block.
LEMMA DataNew ==
  ASSUME NEW net \in Seq(Packet), NEW i \in 1 .. Len(net), net[i].op = "data",
         NEW sent \in Nat, NEW got \in Nat, got \in {sent - 1, sent}, sent <= blocks,
         blocks \in Nat, reorder \in BOOLEAN, reorder => blocks <= Modulus - 2,
         DataOk(net, sent, got), net[i].num = Wire(got + 1)
  PROVE  net[i].blk = sent /\ got + 1 = sent
<1>1. PICK b \in 1 .. sent : b = net[i].blk
  BY DEF DataOk
<1>2. Wire(b) = Wire(got + 1)
  BY <1>1 DEF DataOk
<1>3. CASE reorder
  <2>1. b < Modulus /\ got + 1 < Modulus
    BY <1>3, ModulusAssumption
  <2>2. b = got + 1
    BY <1>2, <2>1, WireFacts
  <2>3. QED
    BY <1>1, <2>2
<1>4. CASE ~reorder
  <2>1. b >= sent - 1 /\ (got = sent => b = sent)
    BY <1>1, <1>4 DEF DataOk
  <2>2. got # sent
    BY <1>2, <2>1, WireFacts
  <2>3. Wire(sent - 1) # Wire((sent - 1) + 1)
    BY <2>2, WireFacts
  <2>4. b # sent - 1
    BY <1>2, <2>2, <2>3
  <2>5. QED
    BY <1>1, <2>1, <2>2, <2>4
<1>5. QED
  BY <1>3, <1>4

\* The receiver acks the block it acked last, or the next one.
LEMMA AcksSent ==
  ASSUME NEW sent \in Nat, NEW acked \in Nat, acked \in {sent - 1, sent}, tail \in Lens,
         acked < Modulus \/ ~reorder, reorder \in BOOLEAN,
         NEW net \in Seq(Packet), NEW new \in Put(net, Ack(Wire(acked))),
         AcksOk(net, sent, acked)
  PROVE  AcksOk(new, sent, acked)
<1>0. PICK p \in Packet : p = Ack(Wire(acked))
  BY WireFacts, PacketFacts
<1>1. /\ Len(net) \in Nat /\ Len(new) \in Nat
      /\ \A j \in 1 .. Len(net) : new[j] = net[j]
      /\ \A j \in 1 .. Len(new) : j > Len(net) => j = Len(net) + 1 /\ new[j] = p
  BY <1>0, PutFacts
<1>2. \A j \in 1 .. Len(new) : j \in 1 .. Len(net) \/ (j = Len(net) + 1 /\ new[j] = p)
  BY <1>1
<1>3. p.op = "ack" /\ p.num = Wire(acked)
  BY <1>0 DEF Ack
<1>4. reorder => Wire(acked) <= acked
  BY WireFacts
<1>5. \/ acked = sent
      \/ sent > 0 /\ acked = sent - 1 /\ Wire(acked) = Wire(sent - 1) /\ Wire(acked) # Wire(sent)
  <2>1. Wire(acked) # Wire(acked + 1)
    BY WireFacts
  <2>2. QED
    BY <2>1
<1>6. ASSUME NEW j \in 1 .. Len(new), new[j].op = "ack"
      PROVE  IF reorder THEN new[j].num <= acked
             ELSE \/ new[j].num = Wire(sent) /\ acked = sent
                  \/ sent > 0 /\ new[j].num = Wire(sent - 1)
  <2>1. CASE j \in 1 .. Len(net)
    BY <1>1, <1>6, <2>1, Zenon DEF AcksOk
  <2>2. CASE new[j] = p
    BY <1>3, <1>4, <1>5, <2>2, Zenon
  <2>3. QED
    BY <1>2, <2>1, <2>2
<1>7. ASSUME ~reorder, NEW j \in 1 .. Len(new), NEW k \in 1 .. Len(new),
             j < k, new[j].op = "ack", new[k].op = "ack", new[j].num = Wire(sent)
      PROVE  new[k].num = Wire(sent)
  <2>1. j \in 1 .. Len(net)
    BY <1>1, <1>2, <1>7
  <2>2. CASE k \in 1 .. Len(net)
    BY <1>1, <1>7, <2>1, <2>2, Zenon DEF AcksOk
  <2>3. CASE new[k] = p
    <3>1. acked = sent \/ (sent > 0 /\ new[j].num = Wire(sent - 1) /\ Wire(sent - 1) # Wire(sent))
      BY <1>1, <1>5, <1>7, <2>1, Zenon DEF AcksOk
    <3>2. QED
      BY <1>3, <1>7, <2>3, <3>1
  <2>4. QED
    BY <1>2, <2>2, <2>3
<1>8. QED
  BY <1>6, <1>7, Zenon DEF AcksOk

\* The packet is not an ack: it does not matter.
LEMMA AcksOther ==
  ASSUME NEW sent \in Nat, NEW acked \in Nat, NEW p \in Packet, p.op # "ack",
         NEW net \in Seq(Packet), NEW new \in Put(net, p), AcksOk(net, sent, acked)
  PROVE  AcksOk(new, sent, acked)
<1>1. /\ \A j \in 1 .. Len(net) : new[j] = net[j]
      /\ Len(net) \in Nat /\ Len(new) \in Nat
      /\ \A j \in 1 .. Len(new) : j > Len(net) => j = Len(net) + 1 /\ new[j] = p
  BY PutFacts
<1>2. \A j \in 1 .. Len(new) : new[j].op = "ack" => j \in 1 .. Len(net) /\ new[j] = net[j]
  BY <1>1
<1>3. QED
  BY <1>2, Zenon DEF AcksOk

\* The receiver is about to ack the sender's block.
LEMMA AcksMove ==
  ASSUME NEW net \in Seq(Packet), NEW sent \in Nat, NEW acked \in Nat, acked + 1 = sent,
         reorder \in BOOLEAN, AcksOk(net, sent, acked)
  PROVE  AcksOk(net, sent, sent)
<1>1. acked # sent
  OBVIOUS
<1>2. \A j \in 1 .. Len(net) : net[j].num \in Nat
  <2>1. \A j \in 1 .. Len(net) : net[j] \in Packet
    OBVIOUS
  <2>2. \A p \in Packet : p.num \in Nat
    BY ModulusAssumption DEF Packet
  <2>3. QED
    BY <2>1, <2>2
<1>3. \A j \in 1 .. Len(net) : net[j].num <= acked => net[j].num <= sent
  BY <1>2
<1>4. QED
  BY <1>1, <1>3, Zenon DEF AcksOk

\* The sender finds an ack of its block: the receiver has the block, and where
\* the order is kept every ack behind this one is of the block too.
LEMMA AcksTaken ==
  ASSUME NEW net \in Seq(Packet), NEW i \in Deliverable(net), net[i].op = "ack",
         NEW sent \in Nat, NEW acked \in Nat, acked \in {sent - 1, sent},
         reorder \in BOOLEAN, reorder => sent < Modulus,
         AcksOk(net, sent, acked), net[i].num = Wire(sent)
  PROVE  acked = sent /\ AcksOk(net, sent + 1, sent)
<1>1. i \in 1 .. Len(net) /\ (~reorder => i = 1)
  BY DeliverableFacts
<1>2. CASE reorder
  <2>1. sent <= acked
    BY <1>1, <1>2, WireFacts DEF AcksOk
  <2>2. acked = sent
    BY <2>1
  <2>3. QED
    BY <1>2, <2>2, Zenon DEF AcksOk
<1>3. CASE ~reorder
  <2>1. sent > 0 => Wire(sent - 1) # Wire(sent)
    <3>1. sent > 0 => sent - 1 \in Nat /\ (sent - 1) + 1 = sent
      OBVIOUS
    <3>2. QED
      BY <3>1, WireFacts
  <2>2. acked = sent
    BY <1>1, <1>3, <2>1 DEF AcksOk
  <2>3. ASSUME NEW j \in 1 .. Len(net), net[j].op = "ack"
        PROVE  net[j].num = Wire(sent)
    <3>1. j = i \/ i < j
      BY <1>1, <1>3
    <3>2. CASE i < j
      BY <1>1, <1>3, <2>3, <3>2, Zenon DEF AcksOk
    <3>3. QED
      BY <3>1, <3>2
  <2>4. sent + 1 > 0 /\ (sent + 1) - 1 = sent /\ Wire(sent) # Wire(sent + 1)
    <3>1. sent + 1 > 0 /\ (sent + 1) - 1 = sent
      OBVIOUS
    <3>2. Wire(sent) # Wire(sent + 1)
      BY WireFacts
    <3>3. QED
      BY <3>1, <3>2
  <2>5. QED
    BY <1>3, <2>2, <2>3, <2>4, Zenon DEF AcksOk
<1>4. QED
  BY <1>2, <1>3

-----------------------------------------------------------------------------
(* The steps of the client and of the server                               *)

\* Facts every step needs.
LEMMA TfBasics ==
  ASSUME TfInv
  PROVE  /\ Modulus \in Nat /\ Modulus > 2 /\ blocks \in Nat \ {0}
         /\ reorder \in BOOLEAN /\ (reorder => blocks <= Modulus - 2)
         /\ tail \in Lens /\ tail # "full" /\ little \in BOOLEAN
         /\ toSrv \in Seq(Packet) /\ toCli \in Seq(Packet)
         /\ srvFile \in Seq(Nat) /\ out \in Seq(Nat)
         /\ Len(srvFile) \in Nat /\ Len(out) \in Nat /\ cur \in Nat /\ srvCur \in Nat
<1>1. /\ blocks \in Nat \ {0} /\ cur \in Nat /\ srvCur \in Nat
      /\ toSrv \in Seq(Packet) /\ toCli \in Seq(Packet)
      /\ srvFile \in Seq(Nat) /\ out \in Seq(Nat)
  BY DEF TfInv, TfNumbers, TfSeqs
<1>2. /\ reorder \in BOOLEAN /\ (reorder => blocks <= Modulus - 2)
      /\ tail \in Lens /\ tail # "full" /\ little \in BOOLEAN
  BY Zenon DEF TfInv, TfFlags
<1>3. Len(srvFile) \in Nat /\ Len(out) \in Nat
  BY <1>1
<1>4. QED
  BY <1>1, <1>2, <1>3, ModulusAssumption

\* The parts of the invariant after a step, in terms of the new state: the
\* transfer itself does not change.
LEMMA TfPutRule ==
  ASSUME UNCHANGED fixedVars,
         mode = "put" =>
           /\ out' = <<>> /\ pc' # "written"
           /\ InOrder(srvFile') /\ Len(srvFile') \in {cur' - 1, cur'}
           /\ cur' <= blocks /\ num' = Wire(cur')
           /\ pc' \notin {"start", "first", "error"} => cur' > 0 /\ sendnum' = num'
           /\ pc' \in {"got", "ok", "crashed"} => Len(srvFile') = cur'
           /\ pc' = "ok" => cur' = blocks
           /\ NoData(toCli') /\ \A i \in 1 .. Len(toSrv') : toSrv'[i].op = "data"
           /\ DataOk(toSrv', cur', Len(srvFile')) /\ AcksOk(toCli', cur', Len(srvFile'))
           /\ pc' \in {"first", "got"} => AcksOk(toCli', cur' + 1, cur')
  PROVE  TfPut'
<1>1. mode' = mode /\ blocks' = blocks /\ reorder' = reorder /\ tail' = tail
  BY DEF fixedVars
<1>2. /\ InOrder(srvFile)' <=> InOrder(srvFile')
      /\ DataOk(toSrv, cur, Len(srvFile))' <=> DataOk(toSrv', cur', Len(srvFile'))
      /\ AcksOk(toCli, cur, Len(srvFile))' <=> AcksOk(toCli', cur', Len(srvFile'))
      /\ AcksOk(toCli, cur + 1, cur)' <=> AcksOk(toCli', cur' + 1, cur')
      /\ NoData(toCli)' <=> NoData(toCli')
  BY <1>1, Zenon DEF InOrder, DataOk, AcksOk, LenOf, NoData
<1>3. QED
  BY <1>1, <1>2, Zenon DEF TfPut, Wire

LEMMA TfGetRule ==
  ASSUME UNCHANGED fixedVars,
         mode = "get" =>
           /\ srvFile' = <<>>
           /\ Received(out') /\ srvCur' \in {Len(out'), Len(out') + 1} /\ srvCur' <= blocks
           /\ Len(out') = (IF pc' = "written" THEN cur' + 1 ELSE cur')
           /\ pc' \notin {"start", "error"} => num' = Wire(cur' + 1)
           /\ pc' \in {"written", "got"} => rlen' = LenOf(Len(out'))
           /\ pc' = "ok" => Len(out') = blocks
           /\ pc' \in {"written", "got", "ok"} => ~little
           /\ \A i \in 1 .. Len(toSrv') : toSrv'[i].op = "ack"
           /\ DataOk(toCli', srvCur', Len(out'))
           /\ pc' \notin {"start", "first", "error"} =>
                Len(out') > 0 /\ Acked(toSrv', srvCur', sendnum', Len(out'))
  PROVE  TfGet'
<1>1. mode' = mode /\ blocks' = blocks /\ reorder' = reorder /\ tail' = tail /\ little' = little
  BY DEF fixedVars
<1>2. /\ Received(out)' <=> Received(out')
      /\ LenOf(Len(out))' = LenOf(Len(out'))
      /\ DataOk(toCli, srvCur, Len(out))' <=> DataOk(toCli', srvCur', Len(out'))
      /\ Acked(toSrv, srvCur, sendnum, Len(out))' <=> Acked(toSrv', srvCur', sendnum', Len(out'))
  BY <1>1, Zenon DEF Received, Acked, DataOk, AcksOk, LenOf, Wire
<1>3. QED
  BY <1>1, <1>2, Zenon DEF TfGet, Wire

\* A file in order stays so with its next block.
LEMMA InOrderNext ==
  ASSUME NEW f \in Seq(Nat), InOrder(f), NEW b \in Nat, b = Len(f) + 1, b <= blocks
  PROVE  InOrder(Append(f, b)) /\ Len(Append(f, b)) = b /\ Append(f, b) \in Seq(Nat)
  BY DEF InOrder

\* So does a file received, whatever write() takes.
LEMMA ReceivedNext ==
  ASSUME out \in Seq(Nat), Received(out), NEW b \in Nat, b = Len(out) + 1, b <= blocks,
         NEW f \in Written(b)
  PROVE  Received(f) /\ Len(f) = b /\ f \in Seq(Nat)
<1>1. f = Append(out, b) \/ f = Append(out, Partial)
  BY DEF Written
<1>2. Partial \in Nat
  BY DEF Partial
<1> HIDE DEF Partial
<1>3. PICK x \in Nat : f = Append(out, x) /\ x \in {b, Partial}
  BY <1>1, <1>2
<1>4. Len(f) = b /\ f \in Seq(Nat) /\ f[b] = x /\ \A i \in 1 .. Len(out) : f[i] = out[i]
  BY <1>3
<1>5. QED
  BY <1>3, <1>4 DEF Received

\* The ack of block 1: from a little-endian host it is none of the blocks the
\* server may be sending then.
LEMMA FirstAck ==
  /\ AckNum(1) = IF little THEN Radix ELSE 1
  /\ Radix \in 0 .. Modulus - 1 /\ Radix # 1
<1>1. Radix \in Nat /\ Radix > 1 /\ Modulus = Radix * Radix
  BY RadixAssumption
<1>2. 1 % Radix = 1 /\ 1 \div Radix = 0
  BY <1>1
<1>3. Radix * Radix >= 2 * Radix
  BY <1>1
<1>4. AckNum(1) = IF little THEN 1 * Radix + 0 ELSE 1
  BY <1>2 DEF AckNum
<1>5. QED
  BY <1>1, <1>3, <1>4

\* Nothing under way is in order.
LEMMA NothingOk ==
  /\ \A sent, got : DataOk(<<>>, sent, got) /\ AcksOk(<<>>, sent, got)
  /\ NoData(<<>>)
  /\ InOrder(<<>>) <=> 0 <= blocks
  /\ Received(<<>>) <=> 0 <= blocks
<1>1. Len(<<>>) = 0 /\ 1 .. 0 = {}
  OBVIOUS
<1>2. QED
  BY <1>1 DEF DataOk, AcksOk, InOrder, Received, NoData

\* The local file cannot be opened.
LEMMA TfOpenFails ==
  ASSUME TfInv, OpenFails
  PROVE  TfInv'
<1>1. /\ pc = "start" /\ pc' = "error"
      /\ UNCHANGED <<fixedVars, num, sendnum, nrexmt, cur, rlen, out, srvFile, srvCur, srvUp,
                     toSrv, toCli>>
  BY DEF OpenFails, srvVars
<1>2. UNCHANGED <<mode, blocks, tail, reorder, little>>
  BY <1>1 DEF fixedVars
<1>3. TfNumbers' /\ TfSeqs'
  BY <1>1, <1>2 DEF TfInv, TfNumbers, TfSeqs
<1>4. TfFlags'
  BY <1>1, <1>2 DEF TfInv, TfFlags, Ended
<1>5. TfEarly' /\ TfStart'
  BY <1>1 DEF TfInv, TfEarly, TfStart
<1>6. TfPut'
  BY <1>1, TfPutRule DEF TfInv, TfPut
<1>7. TfGet'
  BY <1>1, TfGetRule DEF TfInv, TfGet
<1>8. QED
  BY <1>3, <1>4, <1>5, <1>6, <1>7 DEF TfInv

\* The request, and what the server answers to it.
LEMMA TfRequest ==
  ASSUME TfInv, Request
  PROVE  TfInv'
<1>0. /\ Modulus \in Nat /\ Modulus > 2 /\ blocks \in Nat \ {0} /\ tail \in Lens
      /\ reorder \in BOOLEAN /\ (reorder => blocks <= Modulus - 2)
  BY TfBasics
<1>1. /\ pc = "start" /\ pc' = "first" /\ num' = (IF mode = "put" THEN 0 ELSE 1)
      /\ UNCHANGED <<fixedVars, sendnum, nrexmt, cur, rlen, out, srvFile, toSrv>>
      /\ cur = 0 /\ toSrv = <<>> /\ out = <<>> /\ srvFile = <<>> /\ srvCur = 0 /\ toCli = <<>>
  BY DEF Request, TfInv, TfEarly, TfStart
<1>2. UNCHANGED <<mode, blocks, tail, reorder, little>>
  BY <1>1 DEF fixedVars
<1>3. Wire(0) = 0 /\ Wire(1) = 1 /\ 0 \in 0 .. Modulus - 1 /\ 1 \in 0 .. Modulus - 1
  BY <1>0, WireFacts
<1>4. /\ Ack(0) \in Packet /\ Data(1, 1) \in Packet
      /\ \A e \in {0, 1} : Error(e) \in Packet /\ Error(e).op = "err"
  BY <1>0, <1>3, PacketFacts DEF Error
<1>5. <<>> \in Seq(Packet)
  OBVIOUS
<1>6. /\ toCli' \in Seq(Packet) /\ srvUp' \in BOOLEAN
      /\ mode = "put" =>
           srvCur' = 0 /\ AcksOk(toCli', 0, 0) /\ AcksOk(toCli', 1, 0) /\ NoData(toCli')
      /\ mode = "get" => srvCur' \in {0, 1} /\ DataOk(toCli', srvCur', 0)
      /\ (srvUp' /\ mode = "get") => srvCur' # 0
  <2>1. CASE /\ srvUp' = TRUE /\ srvCur' = (IF mode = "put" THEN 0 ELSE 1)
             /\ toCli' \in Put(toCli, IF mode = "put" THEN Ack(0) ELSE Data(1, 1))
    <3>1. CASE mode = "put"
      <4>1. toCli' \in Put(<<>>, Ack(Wire(0)))
        BY <1>1, <1>3, <2>1, <3>1
      <4>2. toCli' \in Seq(Packet)
        BY <1>3, <1>4, <1>5, <4>1, PutFacts
      <4>3. AcksOk(toCli', 0, 0)
        <5>1. 0 \in Nat /\ 0 \in {0 - 1, 0} /\ 0 < Modulus
          BY <1>0
        <5>2. QED
          BY <1>0, <1>5, <4>1, <5>1, AcksSent, NothingOk
      <4>4. AcksOk(toCli', 1, 0)
        <5>1. 0 \in Nat /\ 1 \in Nat /\ 0 \in {1 - 1, 1} /\ 0 < Modulus
          BY <1>0
        <5>2. QED
          BY <1>0, <1>5, <4>1, <5>1, AcksSent, NothingOk
      <4>5. NoData(toCli')
        <5>1. Ack(Wire(0)) \in Packet /\ Ack(Wire(0)).op # "data"
          BY <1>3, <1>4 DEF Ack
        <5>2. QED
          BY <1>5, <4>1, <5>1, NoDataKept, NothingOk
      <4>6. QED
        BY <2>1, <3>1, <4>2, <4>3, <4>4, <4>5
    <3>2. CASE mode # "put"
      <4>1. toCli' \in Put(<<>>, Data(Wire(1), 1))
        BY <1>1, <1>3, <2>1, <3>2
      <4>2. toCli' \in Seq(Packet)
        BY <1>3, <1>4, <1>5, <4>1, PutFacts
      <4>3. DataOk(toCli', 1, 0)
        <5>1. 1 \in Nat \ {0} /\ 0 \in Nat
          OBVIOUS
        <5>2. QED
          BY <1>0, <1>5, <4>1, <5>1, DataSent, NothingOk
      <4>4. QED
        BY <2>1, <3>2, <4>2, <4>3
    <3>3. QED
      BY <3>1, <3>2
  <2>2. CASE (\E e \in {0, 1} : toCli' \in Put(toCli, Error(e))) /\ UNCHANGED <<srvUp, srvCur>>
    <3>1. PICK p \in Packet : p.op = "err" /\ toCli' \in Put(<<>>, p)
      BY <1>1, <1>4, <2>2
    <3>2. toCli' \in Seq(Packet)
      BY <1>5, <3>1, PutFacts
    <3>3. 0 \in Nat /\ 1 \in Nat /\ p.op # "ack" /\ p.op # "data"
      BY <3>1
    <3>4. AcksOk(toCli', 0, 0) /\ AcksOk(toCli', 1, 0) /\ NoData(toCli')
      BY <1>5, <3>1, <3>3, AcksOther, NothingOk, NoDataKept
    <3>5. DataOk(toCli', 0, 0)
      BY <1>5, <3>1, <3>3, DataOther, NothingOk
    <3>6. srvUp' \in BOOLEAN /\ srvCur' = 0 /\ ~srvUp'
      BY <1>1, <2>2 DEF TfInv, TfFlags, TfStart
    <3>7. QED
      BY <3>2, <3>4, <3>5, <3>6
  <2>3. CASE UNCHANGED <<srvUp, srvCur, toCli>>
    <3>1. srvUp' \in BOOLEAN /\ srvCur' = 0 /\ toCli' = <<>> /\ ~srvUp'
      BY <1>1, <2>3 DEF TfInv, TfFlags, TfStart
    <3>2. QED
      BY <1>5, <3>1, NothingOk
  <2>4. QED
    BY <2>1, <2>2, <2>3 DEF Request
<1>7. srvCur' \in Nat
  <2>1. mode \in {"put", "get"}
    BY ModesAssumption DEF TfInv, TfFlags
  <2>2. QED
    BY <1>6, <2>1
<1>8. TfNumbers'
  BY <1>0, <1>1, <1>2, <1>7 DEF TfInv, TfNumbers
<1>9. TfSeqs'
  BY <1>1, <1>6 DEF TfInv, TfSeqs
<1>10. TfFlags'
  BY <1>1, <1>2, <1>6 DEF TfInv, TfFlags
<1>11. TfEarly' /\ TfStart'
  BY <1>1, <1>2, <1>6 DEF TfEarly, TfStart
<1>12. Len(<<>>) = 0 /\ 1 .. 0 = {}
  OBVIOUS
<1>13. InOrder(<<>>) /\ Received(<<>>)
  BY <1>0, NothingOk
<1>14. TfPut'
  <2>1. CASE mode = "put"
    <3>1. /\ out' = <<>> /\ pc' # "written" /\ InOrder(srvFile') /\ Len(srvFile') = 0 /\ cur' = 0
          /\ num' = Wire(cur') /\ NoData(toCli')
          /\ \A i \in 1 .. Len(toSrv') : toSrv'[i].op = "data"
      BY <1>1, <1>3, <1>6, <1>12, <1>13, <2>1
    <3>2. 0 \in {0 - 1, 0} /\ 0 <= blocks /\ 0 + 1 = 1
      BY <1>0
    <3>3. DataOk(toSrv', cur', Len(srvFile')) /\ AcksOk(toCli', cur', Len(srvFile'))
      BY <1>1, <1>6, <2>1, <3>1, NothingOk
    <3>4. AcksOk(toCli', cur' + 1, cur')
      BY <1>6, <2>1, <3>1, <3>2
    <3>5. pc' = "first"
      BY <1>1
    <3>6. QED
      BY <1>1, <3>1, <3>2, <3>3, <3>4, <3>5, TfPutRule
  <2>2. QED
    BY <1>2, <2>1 DEF TfPut
<1>15. TfGet'
  <2>1. CASE mode = "get"
    <3>1. /\ srvFile' = <<>> /\ pc' = "first" /\ Received(out') /\ Len(out') = 0 /\ cur' = 0
          /\ num' = 1 /\ \A i \in 1 .. Len(toSrv') : toSrv'[i].op = "ack"
      BY <1>1, <1>3, <1>12, <1>13, <2>1
    <3>2. srvCur' \in {0, 0 + 1} /\ srvCur' <= blocks /\ 0 + 1 = 1
      BY <1>0, <1>6, <2>1
    <3>3. DataOk(toCli', srvCur', Len(out'))
      BY <1>6, <2>1, <3>1
    <3>4. QED
      BY <1>1, <1>3, <3>1, <3>2, <3>3, TfGetRule
  <2>2. QED
    BY <1>2, <2>1 DEF TfGet
<1>16. QED
  BY <1>8, <1>9, <1>10, <1>11, <1>14, <1>15 DEF TfInv

\* The head of the loop of tftp_put(), once the last block has been acked.
LEMMA TfSendBlock ==
  ASSUME TfInv, SendBlock, mode = "put", UNCHANGED <<fixedVars, rlen, out, srvVars>>,
         cur < blocks, Len(srvFile) = cur,
         toCli' \in Seq(Packet), NoData(toCli'), AcksOk(toCli', cur + 1, cur)
  PROVE  TfInv'
<1>0. /\ Modulus \in Nat /\ Modulus > 2 /\ blocks \in Nat \ {0} /\ tail \in Lens /\ cur \in Nat
      /\ toSrv \in Seq(Packet)
  BY TfBasics
<1>1. /\ pc' = "wait" /\ num' = NextNum(num) /\ sendnum' = num' /\ cur' = cur + 1 /\ nrexmt' = 0
      /\ toSrv' \in Put(toSrv, Data(num', cur'))
      /\ UNCHANGED <<mode, blocks, tail, reorder, little, rlen, out, srvFile, srvCur, srvUp>>
  BY DEF SendBlock, fixedVars, srvVars
<1>2. num' = Wire(cur + 1) /\ Wire(cur + 1) \in 0 .. Modulus - 1 /\ cur + 1 \in Nat \ {0}
  <2>1. num = Wire(cur) /\ cur + 1 \in Nat \ {0}
    BY <1>0 DEF TfInv, TfPut
  <2>2. QED
    BY <1>0, <1>1, <2>1, WireFacts
<1>3. PICK p \in Packet : p = Data(Wire(cur + 1), cur + 1) /\ p.op = "data"
  <2>1. Data(Wire(cur + 1), cur + 1).op = "data"
    BY DEF Data
  <2>2. QED
    BY <1>0, <1>2, <2>1, PacketFacts
<1>4. /\ toSrv' \in Seq(Packet) /\ Len(toSrv') >= Len(toSrv)
      /\ \A j \in 1 .. Len(toSrv) : toSrv'[j] = toSrv[j]
      /\ \A j \in 1 .. Len(toSrv') : j > Len(toSrv) => j = Len(toSrv) + 1 /\ toSrv'[j] = p
  BY <1>0, <1>1, <1>2, <1>3, PutFacts
<1>5. TfNumbers'
  BY <1>0, <1>1, <1>2, RetryAssumption DEF TfInv, TfNumbers
<1>6. TfSeqs'
  BY <1>1, <1>4 DEF TfInv, TfSeqs
<1>7. TfFlags' /\ TfEarly' /\ TfStart'
  BY <1>1 DEF TfInv, TfFlags, TfEarly, TfStart
<1>8. TfGet'
  BY <1>1 DEF TfGet
<1>9. \A j \in 1 .. Len(toSrv') : toSrv'[j].op = "data"
  <2>1. \A j \in 1 .. Len(toSrv) : toSrv[j].op = "data"
    BY DEF TfInv, TfPut
  <2>2. \A j \in 1 .. Len(toSrv') : j \in 1 .. Len(toSrv) \/ j > Len(toSrv)
    BY <1>0, <1>4
  <2>3. QED
    BY <1>3, <1>4, <2>1, <2>2
<1>10. DataOk(toSrv', cur + 1, cur)
  <2>1. DataOk(toSrv, cur, cur)
    BY DEF TfInv, TfPut
  <2>2. DataOk(toSrv, cur + 1, cur)
    BY <1>0, <2>1, DataNext
  <2>3. toSrv' \in Put(toSrv, Data(Wire(cur + 1), cur + 1))
    BY <1>1, <1>2
  <2>4. QED
    BY <1>0, <1>2, <2>2, <2>3, DataSent
<1>11. TfPut'
  <2>1. out = <<>> /\ InOrder(srvFile)
    BY DEF TfInv, TfPut
  <2>2. cur \in {cur + 1 - 1, cur + 1} /\ cur + 1 <= blocks /\ cur + 1 > 0
    BY <1>0
  <2>3. QED
    BY <1>1, <1>2, <1>9, <1>10, <2>1, <2>2, TfPutRule
<1>12. QED
  BY <1>5, <1>6, <1>7, <1>8, <1>11 DEF TfInv

\* SIGALRM: the packet in hand is sent again, or the client gives up.
LEMMA TfAlarm ==
  ASSUME TfInv, sig_alrm, "written" \notin AlarmPoints
  PROVE  TfInv'
<1>0. /\ Modulus \in Nat /\ Modulus > 2 /\ blocks \in Nat \ {0} /\ tail \in Lens /\ cur \in Nat
      /\ toSrv \in Seq(Packet) /\ reorder \in BOOLEAN /\ (reorder => blocks <= Modulus - 2)
      /\ Len(out) \in Nat /\ srvCur \in Nat
  BY TfBasics
<1>1. /\ pc \in {"wait", "got"} /\ pc' \in {"wait", "gave_up"}
      /\ UNCHANGED <<mode, blocks, tail, reorder, little, num, sendnum, cur, rlen, out,
                     srvFile, srvCur, srvUp, toCli>>
  BY AlarmAssumption DEF sig_alrm, fixedVars, srvVars
<1>2. /\ nrexmt' \in 0 .. RTT_MAXNREXMT + 1
      /\ pc' = "wait" => nrexmt' <= RTT_MAXNREXMT
  <2>1. nrexmt \in 0 .. RTT_MAXNREXMT
    BY <1>1, RetryAssumption DEF TfInv, TfNumbers
  <2>2. nrexmt' = nrexmt + 1
    BY DEF sig_alrm, Retry
  <2>3. pc' = "wait" => nrexmt' <= RTT_MAXNREXMT
    BY DEF sig_alrm
  <2>4. QED
    BY <2>1, <2>2, <2>3, RetryAssumption
<1>3. \/ toSrv' = toSrv
      \/ toSrv' \in Put(toSrv, IF mode = "put" THEN Data(sendnum, cur) ELSE Ack(sendnum))
  BY DEF sig_alrm
<1>4. TfNumbers'
  <2>1. pc' \notin {"written", "got"}
    BY <1>1
  <2>2. QED
    BY <1>0, <1>1, <1>2, <2>1 DEF TfInv, TfNumbers
<1>5. TfFlags' /\ TfEarly' /\ TfStart'
  BY <1>1 DEF TfInv, TfFlags, TfEarly, TfStart, Ended
<1>6. sendnum \in 0 .. Modulus - 1
  BY DEF TfInv, TfNumbers
<1>7. PICK p \in Packet : p = (IF mode = "put" THEN Data(sendnum, cur) ELSE Ack(sendnum))
                          /\ p.op = (IF mode = "put" THEN "data" ELSE "ack")
  <2>1. Data(sendnum, cur).op = "data" /\ Ack(sendnum).op = "ack"
    BY DEF Data, Ack
  <2>2. Data(sendnum, cur) \in Packet /\ Ack(sendnum) \in Packet
    BY <1>0, <1>6, PacketFacts
  <2>3. QED
    BY <2>1, <2>2
<1>8. /\ toSrv' \in Seq(Packet)
      /\ \A j \in 1 .. Len(toSrv') :
           (j \in 1 .. Len(toSrv) /\ toSrv'[j] = toSrv[j]) \/ toSrv'[j] = p
  <2>1. CASE toSrv' = toSrv
    BY <1>0, <2>1
  <2>2. CASE toSrv' \in Put(toSrv, p)
    <3>1. /\ toSrv' \in Seq(Packet)
          /\ \A j \in 1 .. Len(toSrv) : toSrv'[j] = toSrv[j]
          /\ \A j \in 1 .. Len(toSrv') : j > Len(toSrv) => j = Len(toSrv) + 1 /\ toSrv'[j] = p
      BY <1>0, <2>2, PutFacts
    <3>2. \A j \in 1 .. Len(toSrv') : j \in 1 .. Len(toSrv) \/ j > Len(toSrv)
      BY <1>0, <3>1
    <3>3. QED
      BY <3>1, <3>2
  <2>3. QED
    BY <1>3, <1>7, <2>1, <2>2
<1>9. TfSeqs'
  BY <1>1, <1>8 DEF TfInv, TfSeqs
<1>10. TfPut'
  <2>1. CASE mode = "put"
    <3>1. sendnum = Wire(cur) /\ cur \in Nat \ {0}
      BY <1>0, <1>1, <2>1 DEF TfInv, TfPut
    <3>2. DataOk(toSrv', cur, Len(srvFile))
      <4>1. DataOk(toSrv, cur, Len(srvFile)) /\ Len(srvFile) \in Nat
        BY <2>1, TfBasics DEF TfInv, TfPut
      <4>2. QED
        BY <1>0, <1>3, <2>1, <3>1, <4>1, DataSent
    <3>3. \A j \in 1 .. Len(toSrv') : toSrv'[j].op = "data"
      <4>1. \A j \in 1 .. Len(toSrv) : toSrv[j].op = "data"
        BY <2>1 DEF TfInv, TfPut
      <4>2. QED
        BY <1>7, <1>8, <2>1, <4>1
    <3>4. UNCHANGED fixedVars
      BY <1>1 DEF fixedVars
    <3>5. pc' \notin {"written", "got", "ok", "crashed", "first"}
      BY <1>1
    <3>6. /\ out = <<>> /\ InOrder(srvFile) /\ Len(srvFile) \in {cur - 1, cur}
          /\ cur <= blocks /\ num = Wire(cur) /\ cur > 0 /\ sendnum = num
          /\ NoData(toCli) /\ AcksOk(toCli, cur, Len(srvFile))
      BY <1>1, <2>1 DEF TfInv, TfPut
    <3>7. QED
      BY <1>1, <3>2, <3>3, <3>4, <3>5, <3>6, TfPutRule
  <2>2. QED
    BY <1>1, <2>1 DEF TfPut
<1>11. TfGet'
  <2>1. CASE mode = "get"
    <3>1. /\ srvFile = <<>> /\ Received(out) /\ srvCur \in {Len(out), Len(out) + 1}
          /\ srvCur <= blocks /\ Len(out) = cur /\ num = Wire(cur + 1) /\ Len(out) > 0
          /\ DataOk(toCli, srvCur, Len(out))
          /\ \A i \in 1 .. Len(toSrv) : toSrv[i].op = "ack"
      BY <1>1, <2>1 DEF TfInv, TfGet
    <3>2. Acked(toSrv, srvCur, sendnum, Len(out))
      BY <1>1, <2>1 DEF TfInv, TfGet
    <3>3. Acked(toSrv', srvCur, sendnum, Len(out))
      <4>1. mode # "put"
        BY <2>1
      <4>2. CASE little
        <5>1. srvCur = 1 /\ sendnum = Radix /\ \A j \in 1 .. Len(toSrv) : toSrv[j].num = Radix
          BY <3>2, <4>2 DEF Acked
        <5>2. p.num = sendnum
          BY <1>7, <4>1 DEF Ack
        <5>3. \A j \in 1 .. Len(toSrv') : toSrv'[j].num = Radix
          BY <1>8, <5>1, <5>2
        <5>4. QED
          BY <4>2, <5>1, <5>3 DEF Acked
      <4>3. CASE ~little
        <5>1. PICK a \in Nat : /\ a \in {Len(out) - 1, Len(out)} /\ a \in {srvCur - 1, srvCur}
                               /\ sendnum = Wire(a) /\ AcksOk(toSrv, srvCur, a)
          BY <3>2, <4>3 DEF Acked
        <5>2. a < Modulus \/ ~reorder
          BY <1>0, <3>1, <5>1
        <5>3. AcksOk(toSrv', srvCur, a)
          BY <1>0, <1>3, <4>1, <5>1, <5>2, AcksSent
        <5>4. QED
          BY <4>3, <5>1, <5>3 DEF Acked
      <4>4. QED
        BY <4>2, <4>3
    <3>4. \A j \in 1 .. Len(toSrv') : toSrv'[j].op = "ack"
      <4>1. mode # "put"
        BY <2>1
      <4>2. QED
        BY <1>7, <1>8, <3>1, <4>1
    <3>5. UNCHANGED fixedVars
      BY <1>1 DEF fixedVars
    <3>6. pc' \notin {"written", "got", "ok"}
      BY <1>1
    <3>7. Acked(toSrv', srvCur', sendnum', Len(out'))
      BY <1>1, <3>3
    <3>8. QED
      BY <1>1, <3>1, <3>4, <3>5, <3>6, <3>7, TfGetRule
  <2>2. QED
    BY <1>1, <2>1 DEF TfGet
<1>12. QED
  BY <1>4, <1>5, <1>9, <1>10, <1>11 DEF TfInv

\* The first answer of the server.
LEMMA TfPutFirst ==
  ASSUME TfInv, PutFirst
  PROVE  TfInv'
<1>0. blocks \in Nat \ {0} /\ toCli \in Seq(Packet) /\ cur \in Nat
  BY TfBasics
<1>1. /\ mode = "put" /\ pc = "first" /\ SendBlock /\ UNCHANGED <<fixedVars, rlen, out, srvVars>>
  BY DEF PutFirst
<1>2. PICK i \in Deliverable(toCli) : toCli' \in Rest(toCli, i)
  BY DEF PutFirst
<1>3. i \in 1 .. Len(toCli)
  BY <1>0, DeliverableFacts
<1>4. cur = 0 /\ srvFile = <<>> /\ AcksOk(toCli, cur + 1, cur)
  BY <1>1 DEF TfInv, TfEarly, TfPut
<1>5. toCli' \in Seq(Packet) /\ AcksOk(toCli', cur + 1, cur) /\ NoData(toCli')
  <2>1. cur + 1 \in Nat
    BY <1>0
  <2>2. toCli' \in Seq(Packet)
    BY <1>0, <1>2, <1>3, RestFacts
  <2>3. NoData(toCli')
    BY <1>0, <1>1, <1>2, <1>3, NoDataKept DEF TfInv, TfPut
  <2>4. QED
    BY <1>0, <1>2, <1>3, <1>4, <2>1, <2>2, <2>3, AcksRest
<1>6. cur < blocks /\ Len(srvFile) = cur
  BY <1>0, <1>4
<1>7. QED
  BY <1>1, <1>5, <1>6, TfSendBlock

\* The receive loop of tftp_put(): an ack of the block in hand ends it.
LEMMA TfPutRecv ==
  ASSUME TfInv, PutRecv
  PROVE  TfInv'
<1>0. /\ blocks \in Nat \ {0} /\ toCli \in Seq(Packet) /\ cur \in Nat /\ Len(srvFile) \in Nat
      /\ reorder \in BOOLEAN /\ (reorder => blocks <= Modulus - 2) /\ Modulus \in Nat
  BY TfBasics
<1>1. /\ mode = "put" /\ pc = "wait"
      /\ UNCHANGED <<fixedVars, num, sendnum, nrexmt, cur, rlen, out, srvFile, srvCur, srvUp,
                     toSrv>>
  BY DEF PutRecv, srvVars
<1>2. PICK i \in Deliverable(toCli) :
        toCli' \in Rest(toCli, i) /\ pc' = (IF PutAccepts(toCli[i]) THEN "got" ELSE "wait")
  BY DEF PutRecv
<1>3. i \in 1 .. Len(toCli) /\ toCli[i] \in Packet
  BY <1>0, DeliverableFacts
<1>4. UNCHANGED <<mode, blocks, tail, reorder, little>>
  BY <1>1 DEF fixedVars
<1>5. toCli' \in Seq(Packet)
  BY <1>0, <1>2, <1>3, RestFacts
<1>6. /\ out = <<>> /\ InOrder(srvFile) /\ Len(srvFile) \in {cur - 1, cur}
      /\ cur <= blocks /\ num = Wire(cur) /\ cur > 0 /\ sendnum = num
      /\ \A j \in 1 .. Len(toSrv) : toSrv[j].op = "data"
      /\ NoData(toCli)
      /\ DataOk(toSrv, cur, Len(srvFile)) /\ AcksOk(toCli, cur, Len(srvFile))
  BY <1>1 DEF TfInv, TfPut
<1>7. AcksOk(toCli', cur, Len(srvFile)) /\ NoData(toCli')
  BY <1>0, <1>2, <1>3, <1>6, AcksRest, NoDataKept
<1>8. pc' = "got" => Len(srvFile) = cur /\ AcksOk(toCli', cur + 1, cur)
  <2>1. SUFFICES ASSUME pc' = "got" PROVE Len(srvFile) = cur /\ AcksOk(toCli', cur + 1, cur)
    OBVIOUS
  <2>2. toCli[i].num = num /\ toCli[i].op # "err"
    BY <1>2, <2>1 DEF PutAccepts
  <2>3. toCli[i].op = "ack"
    <3>1. toCli[i].op \in {"data", "ack", "err"}
      BY <1>3 DEF Packet
    <3>2. toCli[i].op # "data"
      BY <1>3, <1>6 DEF NoData
    <3>3. QED
      BY <2>2, <3>1, <3>2
  <2>4. Len(srvFile) = cur /\ AcksOk(toCli, cur + 1, cur)
    <3>1. reorder => cur < Modulus
      BY <1>0, <1>6
    <3>2. QED
      BY <1>0, <1>2, <1>6, <2>2, <2>3, <3>1, AcksTaken
  <2>5. cur + 1 \in Nat
    BY <1>0
  <2>6. QED
    BY <1>0, <1>2, <1>3, <2>4, <2>5, AcksRest
<1>9. pc' \in {"got", "wait"}
  BY <1>2
<1>10. TfNumbers' /\ TfSeqs'
  BY <1>1, <1>4, <1>5, <1>9 DEF TfInv, TfNumbers, TfSeqs
<1>11. TfFlags' /\ TfEarly' /\ TfStart' /\ TfGet'
  BY <1>1, <1>4, <1>9 DEF TfInv, TfFlags, TfEarly, TfStart, TfGet
<1>12. TfPut'
  <2>1. pc' \notin {"written", "ok", "crashed", "first"}
    BY <1>9
  <2>2. QED
    BY <1>1, <1>6, <1>7, <1>8, <2>1, TfPutRule
<1>13. QED
  BY <1>10, <1>11, <1>12 DEF TfInv

\* The end of the loop of tftp_put().
LEMMA TfPutNext ==
  ASSUME TfInv, PutNext
  PROVE  TfInv'
<1>0. /\ blocks \in Nat \ {0} /\ toCli \in Seq(Packet) /\ cur \in Nat /\ Len(srvFile) \in Nat
  BY TfBasics
<1>1. /\ mode = "put" /\ pc = "got" /\ UNCHANGED <<fixedVars, rlen, out, srvVars, toCli>>
  BY DEF PutNext
<1>2. Len(srvFile) = cur /\ cur <= blocks /\ AcksOk(toCli, cur + 1, cur)
  BY <1>1 DEF TfInv, TfPut
<1>3. CASE LenOf(cur) = "full" /\ SendBlock
  <2>1. cur < blocks
    <3>1. LenOf(cur) = (IF cur < blocks THEN "full" ELSE tail)
      BY DEF LenOf
    <3>2. QED
      BY <1>3, <3>1, TfBasics
  <2>2. QED
    <3>1. toCli' = toCli /\ NoData(toCli)
      BY <1>1 DEF TfInv, TfPut
    <3>2. QED
      BY <1>0, <1>1, <1>2, <1>3, <2>1, <3>1, TfSendBlock
<1>4. CASE /\ pc' \in {"ok", "crashed"} /\ UNCHANGED <<num, sendnum, cur, nrexmt, toSrv>>
           /\ pc' = "ok" => LenOf(cur) # "full"
  <2>1. UNCHANGED <<mode, blocks, tail, reorder, little, srvFile, srvCur, srvUp>>
    BY <1>1 DEF fixedVars, srvVars
  <2>2. TfNumbers' /\ TfSeqs'
    BY <1>1, <1>4, <2>1 DEF TfInv, TfNumbers, TfSeqs
  <2>3. TfFlags' /\ TfEarly' /\ TfStart' /\ TfGet'
    BY <1>1, <1>4, <2>1 DEF TfInv, TfFlags, TfEarly, TfStart, TfGet, Ended
  <2>4. pc' = "ok" => cur = blocks
    <3>1. LenOf(cur) = (IF cur < blocks THEN "full" ELSE tail)
      BY DEF LenOf
    <3>2. QED
      BY <1>0, <1>2, <1>4, <3>1
  <2>5. TfPut'
    <3>1. /\ out = <<>> /\ InOrder(srvFile) /\ Len(srvFile) \in {cur - 1, cur}
          /\ cur <= blocks /\ num = Wire(cur) /\ cur > 0 /\ sendnum = num
          /\ \A j \in 1 .. Len(toSrv) : toSrv[j].op = "data"
          /\ NoData(toCli)
          /\ DataOk(toSrv, cur, Len(srvFile)) /\ AcksOk(toCli, cur, Len(srvFile))
      BY <1>1 DEF TfInv, TfPut
    <3>2. pc' \notin {"written", "first", "got"}
      BY <1>4
    <3>3. QED
      BY <1>1, <1>2, <1>4, <2>1, <2>4, <3>1, <3>2, TfPutRule
  <2>6. QED
    BY <2>2, <2>3, <2>5 DEF TfInv
<1>5. QED
  BY <1>3, <1>4 DEF PutNext

\* The block tftp_get() accepts is the next one of the file, and the server is
\* at that block.
LEMMA TfAccept ==
  ASSUME TfInv, mode = "get", pc \in {"first", "wait"},
         NEW i \in Deliverable(toCli), GetAccepts(toCli[i]), NEW new \in Rest(toCli, i)
  PROVE  /\ toCli[i].blk = srvCur /\ cur = Len(out) /\ srvCur = cur + 1
         /\ toCli[i].num = Wire(srvCur) /\ toCli[i].len = LenOf(srvCur)
         /\ \A f \in Written(srvCur) : Received(f) /\ Len(f) = srvCur /\ f \in Seq(Nat)
         /\ DataOk(new, srvCur, srvCur)
<1>0. /\ blocks \in Nat \ {0} /\ toCli \in Seq(Packet) /\ cur \in Nat /\ Len(out) \in Nat
      /\ reorder \in BOOLEAN /\ (reorder => blocks <= Modulus - 2) /\ srvCur \in Nat
      /\ out \in Seq(Nat)
  BY TfBasics
<1>1. i \in 1 .. Len(toCli)
  BY <1>0, DeliverableFacts
<1>2. /\ Received(out) /\ srvCur \in {Len(out), Len(out) + 1} /\ srvCur <= blocks
      /\ Len(out) = cur /\ num = Wire(cur + 1) /\ DataOk(toCli, srvCur, Len(out))
  BY DEF TfInv, TfGet
<1>3. toCli[i].op = "data" /\ toCli[i].num = Wire(Len(out) + 1)
  BY <1>2 DEF GetAccepts
<1>4. Len(out) \in {srvCur - 1, srvCur}
  BY <1>0, <1>2
<1>5. toCli[i].blk = srvCur /\ Len(out) + 1 = srvCur
  BY <1>0, <1>1, <1>2, <1>3, <1>4, DataNew
<1>6. DataOk(toCli, srvCur, srvCur)
  BY <1>0, <1>2, <1>3, <1>5, DataTaken
<1>7. DataOk(new, srvCur, srvCur)
  BY <1>0, <1>1, <1>6, DataRest
<1>8. toCli[i].len = LenOf(srvCur)
  BY <1>1, <1>2, <1>3, <1>5 DEF DataOk
<1>9. \A f \in Written(srvCur) : Received(f) /\ Len(f) = srvCur /\ f \in Seq(Nat)
  BY <1>0, <1>2, <1>5, ReceivedNext
<1>10. QED
  BY <1>2, <1>3, <1>5, <1>7, <1>8, <1>9

\* Block 1, or an error.
LEMMA TfGetFirst ==
  ASSUME TfInv, GetFirst
  PROVE  TfInv'
<1>0. /\ blocks \in Nat \ {0} /\ toCli \in Seq(Packet) /\ cur \in Nat /\ Len(out) \in Nat
      /\ reorder \in BOOLEAN /\ (reorder => blocks <= Modulus - 2) /\ srvCur \in Nat
      /\ tail \in Lens /\ Modulus \in Nat /\ Modulus > 2
  BY TfBasics
<1>1. /\ mode = "get" /\ pc = "first"
      /\ UNCHANGED <<fixedVars, rlen, srvFile, srvCur, srvUp>>
  BY DEF GetFirst, srvVars
<1>2. PICK i \in Deliverable(toCli) :
       /\ toCli' \in Rest(toCli, i)
       /\ \/ /\ GetAccepts(toCli[i])
             /\ out' \in Written(toCli[i].blk)
             /\ num' = NextNum(num)
             /\ cur' = cur + 1
             /\ SendAck(toCli[i].num)
          \/ /\ ~GetAccepts(toCli[i])
             /\ pc' = "error"
             /\ UNCHANGED <<out, num, cur, sendnum, nrexmt, toSrv>>
  BY DEF GetFirst
<1>3. UNCHANGED <<mode, blocks, tail, reorder, little>>
  BY <1>1 DEF fixedVars
<1>4. i \in 1 .. Len(toCli)
  BY <1>0, DeliverableFacts
<1>5. toCli' \in Seq(Packet)
  BY <1>0, <1>2, <1>4, RestFacts
<1>6. cur = 0 /\ toSrv = <<>> /\ out = <<>> /\ srvFile = <<>>
  BY <1>1 DEF TfInv, TfEarly
<1>7. TfPut'
  BY <1>1, <1>3 DEF TfPut
<1>8. CASE ~GetAccepts(toCli[i])
  <2>1. pc' = "error" /\ UNCHANGED <<out, num, cur, sendnum, nrexmt, toSrv>>
    BY <1>2, <1>8
  <2>2. TfNumbers' /\ TfSeqs'
    BY <1>1, <1>3, <1>5, <2>1 DEF TfInv, TfNumbers, TfSeqs
  <2>3. TfFlags' /\ TfEarly' /\ TfStart'
    BY <1>1, <1>3, <1>6, <2>1 DEF TfInv, TfFlags, TfEarly, TfStart, Ended
  <2>4. TfGet'
    <3>1. /\ Received(out) /\ srvCur \in {Len(out), Len(out) + 1} /\ srvCur <= blocks
          /\ Len(out) = cur /\ DataOk(toCli, srvCur, Len(out))
          /\ \A j \in 1 .. Len(toSrv) : toSrv[j].op = "ack"
      BY <1>1 DEF TfInv, TfGet
    <3>2. DataOk(toCli', srvCur, Len(out))
      BY <1>0, <1>2, <1>4, <3>1, DataRest
    <3>3. QED
      BY <1>1, <1>6, <2>1, <3>1, <3>2, TfGetRule
  <2>5. QED
    BY <1>7, <2>2, <2>3, <2>4 DEF TfInv
<1>9. CASE GetAccepts(toCli[i])
  <2>1. /\ toCli[i].blk = srvCur /\ cur = Len(out) /\ srvCur = cur + 1
        /\ toCli[i].num = Wire(srvCur)
        /\ \A f \in Written(srvCur) : Received(f) /\ Len(f) = srvCur /\ f \in Seq(Nat)
        /\ DataOk(toCli', srvCur, srvCur)
    BY <1>1, <1>2, <1>9, TfAccept
  <2>2. /\ out' \in Written(srvCur) /\ num' = NextNum(num) /\ cur' = cur + 1
        /\ pc' = "wait" /\ sendnum' = AckNum(Wire(srvCur)) /\ nrexmt' = 0
        /\ toSrv' \in Put(toSrv, Ack(sendnum'))
    BY <1>2, <1>9, <2>1 DEF SendAck
  <2>w. Received(out') /\ Len(out') = srvCur /\ out' \in Seq(Nat)
    BY <2>1, <2>2
  <2>3. srvCur = 1 /\ cur' = 1 /\ Len(out') = 1 /\ srvCur' = 1
    BY <1>0, <1>1, <1>6, <2>1, <2>2, <2>w
  <2>n. /\ sendnum' = (IF little THEN Radix ELSE 1) /\ Wire(1) = 1
        /\ sendnum' \in 0 .. Modulus - 1
    <3>1. Wire(1) = 1
      BY <1>0, WireFacts
    <3>2. QED
      BY <1>0, <2>2, <2>3, <3>1, FirstAck
  <2>4. num' = Wire(cur' + 1) /\ num' \in 0 .. Modulus - 1 /\ Wire(srvCur) \in 0 .. Modulus - 1
    <3>1. num = Wire(cur + 1) /\ cur + 1 \in Nat
      BY <1>0, <1>1 DEF TfInv, TfGet
    <3>2. NextNum(Wire(cur + 1)) = Wire((cur + 1) + 1)
      BY <3>1, WireFacts
    <3>3. Wire((cur + 1) + 1) \in 0 .. Modulus - 1 /\ Wire(srvCur) \in 0 .. Modulus - 1
      <4>1. (cur + 1) + 1 \in Nat
        BY <1>0
      <4>2. \A c \in Nat : Wire(c) \in 0 .. Modulus - 1
        BY WireFacts
      <4>3. QED
        BY <1>0, <4>1, <4>2, Zenon
    <3>4. QED
      BY <2>2, <3>1, <3>2, <3>3
  <2>5. PICK p \in Packet : p = Ack(sendnum') /\ p.op = "ack" /\ p.num = sendnum'
    <3>1. Ack(sendnum').op = "ack" /\ Ack(sendnum').num = sendnum'
      BY DEF Ack
    <3>2. 0 \in Nat
      OBVIOUS
    <3>3. QED
      BY <1>0, <2>n, <3>1, <3>2, PacketFacts
  <2>6. /\ toSrv' \in Seq(Packet)
        /\ \A j \in 1 .. Len(toSrv') : toSrv'[j].op = "ack" /\ toSrv'[j].num = sendnum'
    <3>1. /\ toSrv' \in Seq(Packet)
          /\ \A j \in 1 .. Len(toSrv') : j > Len(toSrv) => j = Len(toSrv) + 1 /\ toSrv'[j] = p
      <4>1. toSrv \in Seq(Packet)
        BY TfBasics
      <4>2. QED
        BY <2>2, <2>5, <4>1, PutFacts
    <3>2. \A j \in 1 .. Len(toSrv') : j > Len(toSrv)
      BY <1>6, <3>1
    <3>3. QED
      BY <2>5, <3>1, <3>2
  <2>7. ~little => AcksOk(toSrv', 1, 1)
    <3>1. AcksOk(toSrv, 1, 1) /\ toSrv \in Seq(Packet)
      BY <1>6, NothingOk, TfBasics
    <3>2. 1 \in Nat /\ 1 \in {1 - 1, 1} /\ 1 < Modulus
      BY <1>0
    <3>3. ~little => toSrv' \in Put(toSrv, Ack(Wire(1)))
      BY <2>2, <2>n
    <3>4. QED
      BY <1>0, <3>1, <3>2, <3>3, AcksSent
  <2>8. TfNumbers'
    BY <1>0, <1>1, <1>3, <2>2, <2>3, <2>4, <2>n, RetryAssumption DEF TfInv, TfNumbers
  <2>9. TfSeqs'
    BY <1>1, <1>5, <2>w, <2>6 DEF TfInv, TfSeqs
  <2>10. TfFlags' /\ TfEarly' /\ TfStart'
    BY <1>1, <1>3, <2>2 DEF TfInv, TfFlags, TfEarly, TfStart
  <2>11. TfGet'
    <3>1. /\ srvFile' = <<>> /\ Received(out') /\ srvCur' \in {Len(out'), Len(out') + 1}
          /\ srvCur' <= blocks /\ Len(out') = cur' /\ Len(out') > 0
      BY <1>0, <1>1, <1>6, <2>w, <2>3
    <3>2. DataOk(toCli', srvCur', Len(out'))
      BY <2>1, <2>3
    <3>3. Acked(toSrv', srvCur', sendnum', Len(out'))
      <4>1. CASE little
        BY <2>3, <2>6, <2>n, <4>1 DEF Acked
      <4>2. CASE ~little
        BY <2>3, <2>7, <2>n, <4>2 DEF Acked
      <4>3. QED
        BY <4>1, <4>2
    <3>4. pc' = "wait"
      BY <2>2
    <3>5. QED
      BY <1>1, <2>4, <2>6, <3>1, <3>2, <3>3, <3>4, TfGetRule
  <2>12. QED
    BY <1>7, <2>8, <2>9, <2>10, <2>11 DEF TfInv
<1>10. QED
  BY <1>8, <1>9

\* The receive loop of tftp_get(): the expected block is written.
LEMMA TfGetRecv ==
  ASSUME TfInv, GetRecv
  PROVE  TfInv'
<1>0. /\ blocks \in Nat \ {0} /\ toCli \in Seq(Packet) /\ cur \in Nat /\ Len(out) \in Nat
      /\ srvCur \in Nat
  BY TfBasics
<1>1. /\ mode = "get" /\ pc = "wait"
      /\ UNCHANGED <<fixedVars, num, sendnum, nrexmt, cur, srvFile, srvCur, srvUp, toSrv>>
  BY DEF GetRecv, srvVars
<1>2. PICK i \in Deliverable(toCli) :
       /\ toCli' \in Rest(toCli, i)
       /\ \/ /\ GetAccepts(toCli[i])
             /\ out' \in Written(toCli[i].blk)
             /\ rlen' = toCli[i].len
             /\ pc' = "written"
          \/ /\ ~GetAccepts(toCli[i])
             /\ UNCHANGED <<out, rlen, pc>>
  BY DEF GetRecv
<1>3. UNCHANGED <<mode, blocks, tail, reorder, little>>
  BY <1>1 DEF fixedVars
<1>4. i \in 1 .. Len(toCli)
  BY <1>0, DeliverableFacts
<1>5. toCli' \in Seq(Packet)
  BY <1>0, <1>2, <1>4, RestFacts
<1>6. TfPut' /\ TfEarly' /\ TfStart'
  <2>1. pc' \in {"written", "wait"}
    BY <1>1, <1>2
  <2>2. QED
    BY <1>1, <1>3, <2>1 DEF TfInv, TfPut, TfEarly, TfStart
<1>7. /\ Received(out) /\ srvCur \in {Len(out), Len(out) + 1} /\ srvCur <= blocks
      /\ Len(out) = cur /\ DataOk(toCli, srvCur, Len(out)) /\ num = Wire(cur + 1)
      /\ \A j \in 1 .. Len(toSrv) : toSrv[j].op = "ack"
      /\ Len(out) > 0 /\ srvFile = <<>>
  BY <1>1 DEF TfInv, TfGet
<1>8. Acked(toSrv, srvCur, sendnum, Len(out))
  BY <1>1 DEF TfInv, TfGet
<1>9. CASE ~GetAccepts(toCli[i])
  <2>1. UNCHANGED <<out, rlen, pc>>
    BY <1>2, <1>9
  <2>2. TfNumbers' /\ TfSeqs'
    BY <1>1, <1>3, <1>5, <2>1 DEF TfInv, TfNumbers, TfSeqs
  <2>3. TfFlags'
    BY <1>1, <1>3, <2>1 DEF TfInv, TfFlags
  <2>4. TfGet'
    <3>1. DataOk(toCli', srvCur, Len(out))
      BY <1>0, <1>2, <1>4, <1>7, DataRest
    <3>2. Acked(toSrv', srvCur', sendnum', Len(out'))
      BY <1>1, <1>8, <2>1
    <3>3. QED
      BY <1>1, <1>7, <2>1, <3>1, <3>2, TfGetRule
  <2>5. QED
    BY <1>6, <2>2, <2>3, <2>4 DEF TfInv
<1>10. CASE GetAccepts(toCli[i])
  <2>1. /\ toCli[i].blk = srvCur /\ cur = Len(out) /\ srvCur = cur + 1
        /\ toCli[i].len = LenOf(srvCur)
        /\ \A f \in Written(srvCur) : Received(f) /\ Len(f) = srvCur /\ f \in Seq(Nat)
        /\ DataOk(toCli', srvCur, srvCur)
    BY <1>1, <1>2, <1>10, TfAccept
  <2>2. /\ out' \in Written(srvCur) /\ rlen' = LenOf(srvCur) /\ pc' = "written"
        /\ Received(out') /\ out' \in Seq(Nat)
    BY <1>2, <1>10, <2>1
  <2>3. Len(out') = srvCur /\ Len(out') = cur + 1
    BY <2>1, <2>2
  <2>n. ~little
    <3>1. srvCur # 1
      BY <1>0, <1>7, <2>1
    <3>2. QED
      BY <1>8, <3>1 DEF Acked
  <2>a. PICK a \in Nat :
          /\ a \in {Len(out) - 1, Len(out)} /\ a \in {srvCur - 1, srvCur}
          /\ sendnum = Wire(a) /\ AcksOk(toSrv, srvCur, a)
    BY <1>8, <2>n DEF Acked
  <2>4. TfNumbers'
    BY <1>1, <1>3, <2>2 DEF TfInv, TfNumbers
  <2>5. TfSeqs'
    BY <1>1, <1>5, <2>1, <2>2 DEF TfInv, TfSeqs
  <2>6. TfFlags'
    <3>1. LenOf(srvCur) \in Lens
      BY TfBasics DEF LenOf, Lens
    <3>2. QED
      BY <1>1, <1>3, <2>2, <3>1 DEF TfInv, TfFlags
  <2>7. TfGet'
    <3>1. /\ Received(out') /\ srvCur' \in {Len(out'), Len(out') + 1} /\ srvCur' <= blocks
          /\ Len(out') = cur' + 1 /\ Len(out') > 0
      BY <1>0, <1>1, <1>7, <2>1, <2>2, <2>3
    <3>2. DataOk(toCli', srvCur', Len(out'))
      BY <1>1, <2>1, <2>3
    <3>3. Acked(toSrv', srvCur', sendnum', Len(out'))
      <4>1. a \in {Len(out') - 1, Len(out')}
        BY <1>0, <2>1, <2>3, <2>a
      <4>2. QED
        BY <1>1, <2>a, <2>n, <4>1 DEF Acked
    <3>4. rlen' = LenOf(Len(out'))
      BY <2>2, <2>3
    <3>5. QED
      BY <1>1, <1>7, <2>2, <2>n, <3>1, <3>2, <3>3, <3>4, TfGetRule
  <2>8. QED
    BY <1>6, <2>4, <2>5, <2>6, <2>7 DEF TfInv
<1>11. QED
  BY <1>9, <1>10

\* num++ behind the write().
LEMMA TfGetCount ==
  ASSUME TfInv, GetCount
  PROVE  TfInv'
<1>0. cur \in Nat
  BY TfBasics
<1>1. /\ mode = "get" /\ pc = "written" /\ num' = NextNum(num) /\ cur' = cur + 1 /\ pc' = "got"
      /\ UNCHANGED <<fixedVars, sendnum, nrexmt, rlen, out, srvFile, srvCur, srvUp, toSrv, toCli>>
  BY DEF GetCount, srvVars
<1>2. UNCHANGED <<mode, blocks, tail, reorder, little>>
  BY <1>1 DEF fixedVars
<1>3. /\ srvFile = <<>> /\ Received(out) /\ srvCur \in {Len(out), Len(out) + 1} /\ srvCur <= blocks
      /\ Len(out) = cur + 1 /\ num = Wire(cur + 1) /\ rlen = LenOf(Len(out))
      /\ DataOk(toCli, srvCur, Len(out)) /\ Len(out) > 0
      /\ \A j \in 1 .. Len(toSrv) : toSrv[j].op = "ack"
      /\ Acked(toSrv, srvCur, sendnum, Len(out)) /\ ~little
  BY <1>1 DEF TfInv, TfGet
<1>4. num' = Wire(cur' + 1) /\ num' \in 0 .. Modulus - 1
  <2>1. cur + 1 \in Nat /\ (cur + 1) + 1 \in Nat
    BY <1>0
  <2>2. NextNum(Wire(cur + 1)) = Wire((cur + 1) + 1)
    BY <2>1, WireFacts
  <2>3. \A c \in Nat : Wire(c) \in 0 .. Modulus - 1
    BY WireFacts
  <2>4. QED
    BY <1>1, <1>3, <2>1, <2>2, <2>3, Zenon
<1>5. TfNumbers'
  BY <1>0, <1>1, <1>2, <1>4 DEF TfInv, TfNumbers
<1>6. TfSeqs'
  BY <1>1 DEF TfInv, TfSeqs
<1>7. TfFlags' /\ TfEarly' /\ TfStart' /\ TfPut'
  BY <1>1, <1>2 DEF TfInv, TfFlags, TfEarly, TfStart, TfPut
<1>8. TfGet'
  <2>1. Len(out') = cur'
    BY <1>1, <1>3
  <2>2. QED
    BY <1>1, <1>3, <1>4, <2>1, TfGetRule
<1>9. QED
  BY <1>5, <1>6, <1>7, <1>8 DEF TfInv

\* The end of the loop of tftp_get(): the last block, or the next ack.
LEMMA TfGetNext ==
  ASSUME TfInv, GetNext
  PROVE  TfInv'
<1>0. /\ cur \in Nat /\ srvCur \in Nat /\ blocks \in Nat \ {0} /\ Modulus \in Nat
      /\ Len(out) \in Nat
      /\ reorder \in BOOLEAN /\ (reorder => blocks <= Modulus - 2) /\ tail \in Lens
      /\ toSrv \in Seq(Packet) /\ Modulus > 2
  BY TfBasics
<1>1. /\ mode = "get" /\ pc = "got"
      /\ UNCHANGED <<fixedVars, num, cur, rlen, out, srvFile, srvCur, srvUp, toCli>>
  BY DEF GetNext, srvVars
<1>2. UNCHANGED <<mode, blocks, tail, reorder, little>>
  BY <1>1 DEF fixedVars
<1>3. /\ srvFile = <<>> /\ Received(out) /\ srvCur \in {Len(out), Len(out) + 1} /\ srvCur <= blocks
      /\ Len(out) = cur /\ num = Wire(cur + 1) /\ rlen = LenOf(Len(out))
      /\ DataOk(toCli, srvCur, Len(out)) /\ Len(out) > 0
      /\ \A j \in 1 .. Len(toSrv) : toSrv[j].op = "ack"
      /\ ~little /\ Acked(toSrv, srvCur, sendnum, Len(out))
  BY <1>1 DEF TfInv, TfGet
<1>4. PICK a \in Nat :
        /\ a \in {Len(out) - 1, Len(out)} /\ a \in {srvCur - 1, srvCur}
        /\ sendnum = Wire(a) /\ AcksOk(toSrv, srvCur, a)
  BY <1>3 DEF Acked
<1>5. CASE IsLast(rlen) /\ pc' = "ok" /\ UNCHANGED <<sendnum, nrexmt, toSrv>>
  <2>1. Len(out) = blocks
    <3>1. LenOf(Len(out)) # "full"
      BY <1>3, <1>5 DEF IsLast
    <3>2. LenOf(Len(out)) = (IF Len(out) < blocks THEN "full" ELSE tail)
      BY DEF LenOf
    <3>3. QED
      BY <1>0, <1>3, <3>1, <3>2
  <2>2. TfNumbers' /\ TfSeqs'
    BY <1>1, <1>2, <1>5 DEF TfInv, TfNumbers, TfSeqs
  <2>3. TfFlags' /\ TfEarly' /\ TfStart' /\ TfPut'
    BY <1>1, <1>2, <1>5 DEF TfInv, TfFlags, TfEarly, TfStart, TfPut, Ended
  <2>4. TfGet'
    <3>1. Acked(toSrv', srvCur', sendnum', Len(out'))
      BY <1>1, <1>3, <1>5
    <3>2. QED
      BY <1>1, <1>3, <1>5, <2>1, <3>1, TfGetRule
  <2>5. QED
    BY <2>2, <2>3, <2>4 DEF TfInv
<1>6. CASE SendAck((num + Modulus - 1) % Modulus)
  <2>1. (num + Modulus - 1) % Modulus = Wire(cur) /\ Wire(cur) \in 0 .. Modulus - 1
    BY <1>0, <1>3, WireFacts
  <2>2. /\ pc' = "wait" /\ sendnum' = Wire(cur) /\ nrexmt' = 0
        /\ toSrv' \in Put(toSrv, Ack(Wire(cur)))
    BY <1>3, <1>6, <2>1 DEF SendAck, AckNum
  <2>3. AcksOk(toSrv, srvCur, cur)
    <3>1. CASE a = cur
      BY <1>4, <3>1
    <3>2. CASE a # cur
      <4>1. a + 1 = srvCur /\ srvCur = cur
        BY <1>0, <1>3, <1>4, <3>2
      <4>2. QED
        BY <1>0, <1>4, <4>1, AcksMove
    <3>3. QED
      BY <3>1, <3>2
  <2>4. AcksOk(toSrv', srvCur, cur) /\ cur \in {srvCur - 1, srvCur}
    <3>1. cur \in {srvCur - 1, srvCur} /\ (cur < Modulus \/ ~reorder)
      BY <1>0, <1>3
    <3>2. QED
      BY <1>0, <2>2, <2>3, <3>1, AcksSent
  <2>5. PICK p \in Packet : p = Ack(Wire(cur)) /\ p.op = "ack"
    <3>1. Ack(Wire(cur)).op = "ack"
      BY DEF Ack
    <3>2. QED
      BY <1>0, <2>1, <3>1, PacketFacts
  <2>6. toSrv' \in Seq(Packet) /\ \A j \in 1 .. Len(toSrv') : toSrv'[j].op = "ack"
    <3>1. /\ toSrv' \in Seq(Packet)
          /\ \A j \in 1 .. Len(toSrv) : toSrv'[j] = toSrv[j]
          /\ \A j \in 1 .. Len(toSrv') : j > Len(toSrv) => j = Len(toSrv) + 1 /\ toSrv'[j] = p
      BY <1>0, <2>2, <2>5, PutFacts
    <3>2. \A j \in 1 .. Len(toSrv') : j \in 1 .. Len(toSrv) \/ j > Len(toSrv)
      BY <1>0, <3>1
    <3>3. QED
      BY <1>3, <2>5, <3>1, <3>2
  <2>7. TfNumbers'
    BY <1>0, <1>1, <1>2, <2>1, <2>2, RetryAssumption DEF TfInv, TfNumbers
  <2>8. TfSeqs'
    BY <1>1, <2>6 DEF TfInv, TfSeqs
  <2>9. TfFlags' /\ TfEarly' /\ TfStart' /\ TfPut'
    BY <1>1, <1>2, <2>2 DEF TfInv, TfFlags, TfEarly, TfStart, TfPut
  <2>10. TfGet'
    <3>1. Acked(toSrv', srvCur', sendnum', Len(out'))
      <4>1. cur \in {Len(out') - 1, Len(out')} /\ cur \in {srvCur' - 1, srvCur'}
        BY <1>0, <1>1, <1>3, <2>4
      <4>2. QED
        BY <1>0, <1>1, <1>3, <2>2, <2>4, <4>1 DEF Acked
    <3>2. QED
      BY <1>1, <1>3, <2>2, <2>6, <3>1, TfGetRule
  <2>11. QED
    BY <2>7, <2>8, <2>9, <2>10 DEF TfInv
<1>7. QED
  BY <1>5, <1>6 DEF GetNext

\* The server takes a block of the file being put.
LEMMA TfServerPut ==
  ASSUME TfInv, mode = "put", NEW i \in Deliverable(toSrv), toSrv' \in Rest(toSrv, i),
         ServerPut(toSrv[i]), UNCHANGED <<fixedVars, cliVars, srvCur, srvUp>>
  PROVE  TfInv'
<1>0. /\ cur \in Nat /\ blocks \in Nat \ {0} /\ Modulus \in Nat /\ Modulus > 2
      /\ reorder \in BOOLEAN /\ (reorder => blocks <= Modulus - 2) /\ tail \in Lens
      /\ toSrv \in Seq(Packet) /\ toCli \in Seq(Packet) /\ srvFile \in Seq(Nat)
      /\ Len(srvFile) \in Nat
  BY TfBasics
<1>1. UNCHANGED <<mode, blocks, tail, reorder, little, pc, num, sendnum, nrexmt, cur, rlen, out,
                  srvCur, srvUp>>
  BY DEF fixedVars, cliVars
<1>2. i \in 1 .. Len(toSrv)
  BY <1>0, DeliverableFacts
<1>3. /\ out = <<>> /\ pc # "written"
      /\ InOrder(srvFile) /\ Len(srvFile) \in {cur - 1, cur}
      /\ cur <= blocks /\ num = Wire(cur)
      /\ pc \notin {"start", "first", "error"} => cur > 0 /\ sendnum = num
      /\ pc \in {"got", "ok", "crashed"} => Len(srvFile) = cur
      /\ pc = "ok" => cur = blocks
      /\ NoData(toCli) /\ \A j \in 1 .. Len(toSrv) : toSrv[j].op = "data"
      /\ DataOk(toSrv, cur, Len(srvFile)) /\ AcksOk(toCli, cur, Len(srvFile))
      /\ pc \in {"first", "got"} => AcksOk(toCli, cur + 1, cur)
  BY DEF TfInv, TfPut
<1>4. pc \notin {"start", "first", "error"}
  <2>1. pc \in {"start", "first", "error"} => Len(toSrv) = 0
    BY DEF TfInv, TfEarly
  <2>2. QED
    BY <1>2, <2>1
<1>5. /\ toSrv' \in Seq(Packet)
      /\ \A j \in 1 .. Len(toSrv') : toSrv'[j].op = "data"
  <2>1. /\ toSrv' \in Seq(Packet)
        /\ \A j \in 1 .. Len(toSrv') : \E h \in 1 .. Len(toSrv) : toSrv'[j] = toSrv[h]
    BY <1>0, <1>2, RestFacts
  <2>2. QED
    BY <1>3, <2>1
<1>6. DataOk(toSrv', cur, Len(srvFile))
  BY <1>0, <1>2, <1>3, DataRest
<1>7. TfNumbers' /\ TfGet'
  BY <1>1 DEF TfInv, TfNumbers, TfGet
<1>8. TfFlags' /\ TfEarly' /\ TfStart'
  BY <1>1, <1>4 DEF TfInv, TfFlags, TfEarly, TfStart
\* An ack of the last block stored.
<1>9. ASSUME NEW f \in Seq(Nat), Len(f) \in {cur - 1, cur}, Len(f) \in Nat, InOrder(f),
             pc = "got" => Len(f) = cur,
             AcksOk(toCli, cur, Len(f)), toCli' \in Put(toCli, Ack(Wire(Len(f))))
      PROVE  /\ toCli' \in Seq(Packet) /\ NoData(toCli') /\ AcksOk(toCli', cur, Len(f))
             /\ pc = "got" => AcksOk(toCli', cur + 1, cur)
  <2>1. PICK n \in Nat : n = Len(f)
    BY <1>9
  <2>2. n <= blocks /\ (n < Modulus \/ ~reorder)
    BY <1>0, <1>3, <1>9, <2>1
  <2>3. Ack(Wire(n)) \in Packet /\ Ack(Wire(n)).op # "data"
    <3>1. Wire(n) \in 0 .. Modulus - 1
      BY WireFacts
    <3>2. Ack(Wire(n)).op # "data"
      BY DEF Ack
    <3>3. QED
      BY <1>0, <3>1, <3>2, PacketFacts
  <2>4. toCli' \in Seq(Packet) /\ NoData(toCli')
    BY <1>0, <1>3, <1>9, <2>1, <2>3, PutFacts, NoDataKept
  <2>5. AcksOk(toCli', cur, n)
    BY <1>0, <1>9, <2>1, <2>2, AcksSent
  <2>6. ASSUME pc = "got" PROVE AcksOk(toCli', cur + 1, cur)
    <3>1. n = cur /\ cur + 1 \in Nat /\ n \in {(cur + 1) - 1, cur + 1}
      BY <1>0, <1>9, <2>1, <2>6
    <3>2. AcksOk(toCli, cur + 1, n)
      BY <1>3, <2>6, <3>1
    <3>3. AcksOk(toCli', cur + 1, n)
      BY <1>0, <1>9, <2>1, <2>2, <3>1, <3>2, AcksSent
    <3>4. QED
      BY <3>1, <3>3
  <2>7. QED
    BY <2>1, <2>4, <2>5, <2>6
<1>10. CASE /\ toSrv[i].num = Wire(Len(srvFile) + 1) /\ Len(srvFile) < blocks
            /\ srvFile' = Append(srvFile, toSrv[i].blk)
            /\ toCli' \in Put(toCli, Ack(toSrv[i].num))
  <2>1. toSrv[i].blk = cur /\ Len(srvFile) + 1 = cur
    BY <1>0, <1>2, <1>3, <1>10, DataNew
  <2>2. /\ InOrder(Append(srvFile, cur)) /\ Len(Append(srvFile, cur)) = cur
        /\ Append(srvFile, cur) \in Seq(Nat)
    BY <1>0, <1>3, <2>1, InOrderNext
  <2>3. srvFile' = Append(srvFile, cur) /\ Len(srvFile') = cur
    BY <1>10, <2>1, <2>2
  <2>4. AcksOk(toCli, cur, cur)
    BY <1>0, <1>3, <2>1, AcksMove
  <2>5. toCli' \in Put(toCli, Ack(Wire(cur)))
    BY <1>10, <2>1
  <2>6. /\ toCli' \in Seq(Packet) /\ NoData(toCli') /\ AcksOk(toCli', cur, cur)
        /\ pc = "got" => AcksOk(toCli', cur + 1, cur)
    BY <1>0, <1>9, <2>2, <2>4, <2>5
  <2>7. DataOk(toSrv', cur, cur)
    <3>1. DataOk(toSrv, cur, cur)
      BY <1>0, <1>2, <1>3, <2>1, DataTaken
    <3>2. QED
      BY <1>0, <1>2, <3>1, DataRest
  <2>8. TfSeqs'
    BY <1>1, <1>5, <2>2, <2>3, <2>6 DEF TfInv, TfSeqs
  <2>9. TfPut'
    <3>1. Len(srvFile') \in {cur - 1, cur}
      BY <2>3
    <3>2. InOrder(srvFile')
      BY <2>2, <2>3
    <3>3. QED
      BY <1>1, <1>3, <1>4, <1>5, <2>3, <2>6, <2>7, <3>1, <3>2, TfPutRule
  <2>10. QED
    BY <1>7, <1>8, <2>8, <2>9 DEF TfInv
<1>11. CASE /\ toSrv[i].num = Wire(Len(srvFile))
            /\ toCli' \in Put(toCli, Ack(toSrv[i].num)) /\ UNCHANGED srvFile
  <2>1. /\ toCli' \in Seq(Packet) /\ NoData(toCli') /\ AcksOk(toCli', cur, Len(srvFile))
        /\ pc = "got" => AcksOk(toCli', cur + 1, cur)
    BY <1>0, <1>3, <1>9, <1>11
  <2>2. TfSeqs'
    BY <1>1, <1>5, <1>11, <2>1 DEF TfInv, TfSeqs
  <2>3. TfPut'
    BY <1>1, <1>3, <1>4, <1>5, <1>6, <1>11, <2>1, TfPutRule
  <2>4. QED
    BY <1>7, <1>8, <2>2, <2>3 DEF TfInv
<1>12. CASE UNCHANGED <<srvFile, toCli>>
  <2>1. TfSeqs'
    BY <1>1, <1>5, <1>12 DEF TfInv, TfSeqs
  <2>2. TfPut'
    BY <1>1, <1>3, <1>4, <1>5, <1>6, <1>12, TfPutRule
  <2>3. QED
    BY <1>7, <1>8, <2>1, <2>2 DEF TfInv
<1>13. QED
  BY <1>10, <1>11, <1>12 DEF ServerPut

\* The server gets an ack of the file being got.
LEMMA TfServerGet ==
  ASSUME TfInv, mode = "get", NEW i \in Deliverable(toSrv), toSrv' \in Rest(toSrv, i),
         ServerGet(toSrv[i]), UNCHANGED <<fixedVars, cliVars, srvFile, srvUp>>
  PROVE  TfInv'
<1>0. /\ cur \in Nat /\ blocks \in Nat \ {0} /\ Modulus \in Nat /\ Modulus > 2
      /\ reorder \in BOOLEAN /\ (reorder => blocks <= Modulus - 2) /\ tail \in Lens
      /\ toSrv \in Seq(Packet) /\ toCli \in Seq(Packet) /\ Len(out) \in Nat /\ srvCur \in Nat
  BY TfBasics
<1>1. UNCHANGED <<mode, blocks, tail, reorder, little, pc, num, sendnum, nrexmt, cur, rlen, out,
                  srvFile, srvUp>>
  BY DEF fixedVars, cliVars
<1>2. i \in 1 .. Len(toSrv)
  BY <1>0, DeliverableFacts
<1>3. pc \notin {"start", "first", "error"}
  <2>1. pc \in {"start", "first", "error"} => Len(toSrv) = 0
    BY DEF TfInv, TfEarly
  <2>2. QED
    BY <1>2, <2>1
<1>4. /\ srvFile = <<>> /\ Received(out) /\ srvCur \in {Len(out), Len(out) + 1} /\ srvCur <= blocks
      /\ Len(out) = (IF pc = "written" THEN cur + 1 ELSE cur)
      /\ num = Wire(cur + 1) /\ Len(out) > 0
      /\ pc \in {"written", "got"} => rlen = LenOf(Len(out))
      /\ pc = "ok" => Len(out) = blocks
      /\ pc \in {"written", "got", "ok"} => ~little
      /\ \A j \in 1 .. Len(toSrv) : toSrv[j].op = "ack"
      /\ DataOk(toCli, srvCur, Len(out))
  BY <1>3 DEF TfInv, TfGet
<1>5. Acked(toSrv, srvCur, sendnum, Len(out))
  BY <1>3 DEF TfInv, TfGet
<1>6. /\ toSrv' \in Seq(Packet)
      /\ \A j \in 1 .. Len(toSrv') : toSrv'[j].op = "ack"
  <2>1. /\ toSrv' \in Seq(Packet)
        /\ \A j \in 1 .. Len(toSrv') : \E h \in 1 .. Len(toSrv) : toSrv'[j] = toSrv[h]
    BY <1>0, <1>2, RestFacts
  <2>2. QED
    BY <1>4, <2>1
<1>7. TfFlags' /\ TfEarly' /\ TfStart' /\ TfPut'
  <2>1. srvCur # 0 => srvCur' # 0
    BY <1>0 DEF ServerGet
  <2>2. QED
    BY <1>1, <1>3, <2>1 DEF TfInv, TfFlags, TfEarly, TfStart, TfPut
<1>8. CASE UNCHANGED <<srvCur, toCli>>
  <2>1. TfNumbers' /\ TfSeqs'
    BY <1>1, <1>6, <1>8 DEF TfInv, TfNumbers, TfSeqs
  <2>2. Acked(toSrv', srvCur, sendnum, Len(out))
    <3>1. CASE little
      <4>1. \A j \in 1 .. Len(toSrv') : \E h \in 1 .. Len(toSrv) : toSrv'[j] = toSrv[h]
        BY <1>0, <1>2, RestFacts
      <4>2. QED
        BY <1>5, <3>1, <4>1 DEF Acked
    <3>2. CASE ~little
      <4>1. PICK a \in Nat : /\ a \in {Len(out) - 1, Len(out)} /\ a \in {srvCur - 1, srvCur}
                             /\ sendnum = Wire(a) /\ AcksOk(toSrv, srvCur, a)
        BY <1>5, <3>2 DEF Acked
      <4>2. AcksOk(toSrv', srvCur, a)
        BY <1>0, <1>2, <4>1, AcksRest
      <4>3. QED
        BY <3>2, <4>1, <4>2 DEF Acked
    <3>3. QED
      BY <3>1, <3>2
  <2>3. Acked(toSrv', srvCur', sendnum', Len(out'))
    BY <1>1, <1>8, <2>2
  <2>4. TfGet'
    BY <1>1, <1>4, <1>6, <1>8, <2>3, TfGetRule
  <2>5. QED
    BY <1>7, <2>1, <2>4 DEF TfInv
<1>9. CASE /\ toSrv[i].num = Wire(srvCur) /\ srvCur < blocks /\ srvCur' = srvCur + 1
           /\ toCli' \in Put(toCli, Data(Wire(srvCur'), srvCur'))
  <2>n. ~little
    <3>1. little => srvCur = 1 /\ toSrv[i].num = Radix
      BY <1>2, <1>5 DEF Acked
    <3>2. Wire(1) = 1 /\ Radix # 1
      BY <1>0, WireFacts, FirstAck
    <3>3. QED
      BY <1>9, <3>1, <3>2
  <2>a. PICK a \in Nat : /\ a \in {Len(out) - 1, Len(out)} /\ a \in {srvCur - 1, srvCur}
                         /\ sendnum = Wire(a) /\ AcksOk(toSrv, srvCur, a)
    BY <1>5, <2>n DEF Acked
  <2>1. a = srvCur /\ AcksOk(toSrv, srvCur + 1, srvCur)
    <3>1. reorder => srvCur < Modulus
      BY <1>0, <1>4
    <3>2. toSrv[i].op = "ack"
      BY <1>2, <1>4
    <3>3. QED
      BY <1>0, <1>9, <2>a, <3>1, <3>2, AcksTaken
  <2>2. Len(out) = srvCur
    BY <1>0, <1>4, <2>1, <2>a
  <2>3. AcksOk(toSrv', srvCur + 1, srvCur) /\ srvCur + 1 \in Nat \ {0}
    <3>1. srvCur + 1 \in Nat \ {0}
      BY <1>0
    <3>2. QED
      BY <1>0, <1>2, <2>1, <3>1, AcksRest
  <2>4. DataOk(toCli', srvCur + 1, srvCur)
    <3>1. DataOk(toCli, srvCur + 1, srvCur)
      BY <1>0, <1>4, <2>2, DataNext
    <3>2. toCli' \in Put(toCli, Data(Wire(srvCur + 1), srvCur + 1))
      BY <1>9
    <3>3. QED
      BY <1>0, <2>3, <3>1, <3>2, DataSent
  <2>5. toCli' \in Seq(Packet)
    <3>1. Wire(srvCur + 1) \in 0 .. Modulus - 1
      BY <2>3, WireFacts
    <3>2. Data(Wire(srvCur + 1), srvCur + 1) \in Packet
      BY <1>0, <2>3, <3>1, PacketFacts
    <3>3. QED
      BY <1>0, <1>9, <3>2, PutFacts
  <2>6. TfNumbers' /\ TfSeqs'
    <3>1. TfNumbers'
      BY <1>0, <1>1, <1>6, <1>9 DEF TfInv, TfNumbers
    <3>2. TfSeqs'
      BY <1>0, <1>1, <1>6, <1>9, <2>5 DEF TfInv, TfSeqs
    <3>3. QED
      BY <3>1, <3>2
  <2>7. TfGet'
    <3>1. /\ srvCur' \in {Len(out'), Len(out') + 1} /\ srvCur' <= blocks
          /\ srvCur \in {Len(out') - 1, Len(out')} /\ srvCur \in {srvCur' - 1, srvCur'}
      BY <1>0, <1>1, <1>9, <2>2
    <3>2. DataOk(toCli', srvCur', Len(out'))
      BY <1>1, <1>9, <2>2, <2>4
    <3>3. Acked(toSrv', srvCur', sendnum', Len(out'))
      BY <1>0, <1>1, <1>9, <2>1, <2>3, <2>a, <2>n, <3>1 DEF Acked
    <3>4. QED
      BY <1>1, <1>4, <1>6, <3>1, <3>2, <3>3, TfGetRule
  <2>8. QED
    BY <1>7, <2>6, <2>7 DEF TfInv
<1>10. QED
  BY <1>8, <1>9 DEF ServerGet

\* The server's packet reaches the client: it sends its block again, or an
\* error.
LEMMA TfServerSends ==
  ASSUME TfInv, srvUp,
         \/ ServerResend
         \/ ServerError
  PROVE  TfInv'
<1>0. /\ cur \in Nat /\ blocks \in Nat \ {0} /\ Modulus \in Nat /\ Modulus > 2
      /\ reorder \in BOOLEAN /\ tail \in Lens
      /\ toSrv \in Seq(Packet) /\ toCli \in Seq(Packet) /\ Len(out) \in Nat /\ srvCur \in Nat
      /\ Len(srvFile) \in Nat
  BY TfBasics
<1>1. UNCHANGED <<fixedVars, mode, blocks, tail, reorder, little, pc, num, sendnum, nrexmt, cur, rlen, out,
                  srvFile, srvCur, toSrv>>
  BY DEF ServerResend, ServerError, fixedVars, cliVars, srvVars
<1>2. srvUp' \in BOOLEAN /\ (srvUp' => srvUp)
  BY DEF TfInv, TfFlags, ServerResend, ServerError, srvVars
<1>3. ASSUME pc # "start", toCli' \in Seq(Packet),
             mode = "put" =>
               /\ NoData(toCli') /\ AcksOk(toCli', cur, Len(srvFile))
               /\ pc \in {"first", "got"} => AcksOk(toCli', cur + 1, cur),
             mode = "get" => DataOk(toCli', srvCur, Len(out))
      PROVE  TfInv'
  <2>1. TfNumbers' /\ TfSeqs'
    BY <1>1, <1>3 DEF TfInv, TfNumbers, TfSeqs
  <2>2. TfFlags' /\ TfEarly' /\ TfStart'
    BY <1>1, <1>2, <1>3 DEF TfInv, TfFlags, TfEarly, TfStart
  <2>3. TfPut'
    BY <1>1, <1>3, TfPutRule DEF TfInv, TfPut
  <2>4. TfGet'
    BY <1>1, <1>3, TfGetRule DEF TfInv, TfGet
  <2>5. QED
    BY <2>1, <2>2, <2>3, <2>4 DEF TfInv
<1>4. pc # "start"
  BY DEF TfInv, TfStart
<1>5. CASE ServerResend
  <2>1. mode = "get" /\ toCli' = Append(toCli, Data(Wire(srvCur), srvCur)) /\ Len(toCli) < NetCap
    BY <1>5 DEF ServerResend
  <2>2. toCli' \in Put(toCli, Data(Wire(srvCur), srvCur))
    BY <2>1 DEF Put
  <2>3. toCli' \in Seq(Packet)
    <3>1. Wire(srvCur) \in 0 .. Modulus - 1
      BY <1>0, WireFacts
    <3>2. Data(Wire(srvCur), srvCur) \in Packet
      BY <1>0, <3>1, PacketFacts
    <3>3. QED
      BY <1>0, <2>2, <3>2, PutFacts
  <2>4. DataOk(toCli, srvCur, Len(out)) /\ srvCur \in Nat \ {0}
    BY <1>0, <2>1 DEF TfInv, TfGet, TfStart
  <2>5. DataOk(toCli', srvCur, Len(out))
    BY <1>0, <2>2, <2>4, DataSent
  <2>6. QED
    BY <1>3, <1>4, <2>1, <2>3, <2>5
<1>6. CASE ServerError
  <2>1. PICK e \in 0 .. 7 : e < Modulus /\ toCli' \in Put(toCli, Error(e))
    BY <1>6 DEF ServerError
  <2>2. PICK p \in Packet : p.op = "err" /\ toCli' \in Put(toCli, p)
    <3>1. e \in 0 .. Modulus - 1 /\ 0 \in Nat
      BY <1>0, <2>1
    <3>2. Error(e) \in Packet
      BY <1>0, <3>1, PacketFacts
    <3>3. Error(e).op = "err"
      BY DEF Error
    <3>4. QED
      BY <2>1, <3>2, <3>3
  <2>3. toCli' \in Seq(Packet)
    BY <1>0, <2>2, PutFacts
  <2>4. mode = "put" =>
          /\ NoData(toCli') /\ AcksOk(toCli', cur, Len(srvFile))
          /\ pc \in {"first", "got"} => AcksOk(toCli', cur + 1, cur)
    <3>1. p.op # "ack" /\ p.op # "data" /\ cur + 1 \in Nat
      BY <1>0, <2>2
    <3>2. SUFFICES ASSUME mode = "put"
                   PROVE  /\ NoData(toCli') /\ AcksOk(toCli', cur, Len(srvFile))
                          /\ pc \in {"first", "got"} => AcksOk(toCli', cur + 1, cur)
      OBVIOUS
    <3>3. /\ NoData(toCli) /\ AcksOk(toCli, cur, Len(srvFile))
          /\ pc \in {"first", "got"} => AcksOk(toCli, cur + 1, cur)
      BY <3>2 DEF TfInv, TfPut
    <3>4. NoData(toCli')
      BY <1>0, <2>2, <3>1, <3>3, NoDataKept
    <3>5. AcksOk(toCli', cur, Len(srvFile))
      BY <1>0, <2>2, <3>1, <3>3, AcksOther
    <3>6. pc \in {"first", "got"} => AcksOk(toCli', cur + 1, cur)
      BY <1>0, <2>2, <3>1, <3>3, AcksOther
    <3>7. QED
      BY <3>4, <3>5, <3>6
  <2>5. mode = "get" => DataOk(toCli', srvCur, Len(out))
    <3>1. mode = "get" => DataOk(toCli, srvCur, Len(out))
      BY DEF TfInv, TfGet
    <3>2. p.op # "data"
      BY <2>2
    <3>3. QED
      BY <1>0, <2>2, <3>1, <3>2, DataOther
  <2>6. QED
    BY <1>3, <1>4, <2>3, <2>4, <2>5
<1>7. QED
  BY <1>5, <1>6

\* The initial states.
LEMMA TfInit ==
  ASSUME Init
  PROVE  TfInv
<1>1. /\ mode \in Modes /\ reorder \in BOOLEAN /\ little \in BOOLEAN /\ tail \in {"edge", "short", "empty"}
      /\ pc = "start" /\ num = 0 /\ sendnum = 0 /\ nrexmt = 0
      /\ cur = 0 /\ rlen = "full" /\ out = <<>>
      /\ srvFile = <<>> /\ srvCur = 0 /\ srvUp = FALSE /\ toSrv = <<>> /\ toCli = <<>>
  BY DEF Init
<1>2. blocks \in Nat \ {0} /\ (reorder => blocks <= Modulus - 2)
  BY ModulusAssumption, TftpBounds DEF Init
<1>3. TfNumbers /\ TfSeqs
  BY <1>1, <1>2, ModulusAssumption, RetryAssumption DEF TfNumbers, TfSeqs
<1>4. TfFlags /\ TfEarly /\ TfStart
  BY <1>1, <1>2 DEF TfFlags, TfEarly, TfStart, Lens
<1>5. Len(<<>>) = 0 /\ 1 .. 0 = {} /\ InOrder(<<>>) /\ Received(<<>>)
  <2>1. 0 <= blocks
    BY <1>2
  <2>2. QED
    BY <2>1, NothingOk
<1>6. Wire(0) = 0 /\ 0 <= blocks /\ 0 \in {0 - 1, 0} /\ 0 \in {0, 0 + 1}
  BY <1>2, ModulusAssumption, WireFacts
<1>7. TfPut
  BY <1>1, <1>5, <1>6, NothingOk DEF TfPut
<1>8. TfGet
  BY <1>1, <1>5, <1>6, NothingOk DEF TfGet
<1>9. QED
  BY <1>3, <1>4, <1>7, <1>8 DEF TfInv

\* The invariant is kept by every step, unless an alarm can hit the client
\* between write() and num++.
LEMMA TfStep ==
  ASSUME "written" \notin AlarmPoints, TfInv, [Next]_vars
  PROVE  TfInv'
<1>1. CASE OpenFails
  BY <1>1, TfOpenFails
<1>2. CASE Request
  BY <1>2, TfRequest
<1>3. CASE sig_alrm
  BY <1>3, TfAlarm
<1>4. CASE PutFirst
  BY <1>4, TfPutFirst
<1>5. CASE PutRecv
  BY <1>5, TfPutRecv
<1>6. CASE PutNext
  BY <1>6, TfPutNext
<1>7. CASE GetFirst
  BY <1>7, TfGetFirst
<1>8. CASE GetRecv
  BY <1>8, TfGetRecv
<1>9. CASE GetCount
  BY <1>9, TfGetCount
<1>10. CASE GetNext
  BY <1>10, TfGetNext
<1>11. CASE ServerReceive
  <2>1. PICK i \in Deliverable(toSrv) :
          /\ toSrv' \in Rest(toSrv, i)
          /\ \/ mode = "put" /\ ServerPut(toSrv[i]) /\ UNCHANGED srvCur
             \/ mode = "get" /\ ServerGet(toSrv[i]) /\ UNCHANGED srvFile
    BY <1>11 DEF ServerReceive
  <2>2. UNCHANGED <<fixedVars, cliVars, srvUp>>
    BY <1>11 DEF ServerReceive
  <2>3. CASE mode = "put" /\ ServerPut(toSrv[i]) /\ UNCHANGED srvCur
    BY <2>1, <2>2, <2>3, TfServerPut
  <2>4. CASE mode = "get" /\ ServerGet(toSrv[i]) /\ UNCHANGED srvFile
    BY <2>1, <2>2, <2>4, TfServerGet
  <2>5. QED
    BY <2>1, <2>3, <2>4
<1>12. CASE ServerResend \/ ServerError
  BY <1>12, TfServerSends DEF ServerResend, ServerError
<1>13. CASE UNCHANGED vars
  <2>1. UNCHANGED <<mode, blocks, tail, reorder, little, pc, num, sendnum, nrexmt, cur, rlen, out,
                    srvFile, srvCur, srvUp, toSrv, toCli>>
    BY <1>13 DEF vars, fixedVars, cliVars, srvVars
  <2>2. TfNumbers' /\ TfSeqs'
    BY <2>1 DEF TfInv, TfNumbers, TfSeqs
  <2>3. TfFlags' /\ TfEarly' /\ TfStart'
    BY <2>1 DEF TfInv, TfFlags, TfEarly, TfStart
  <2>4. UNCHANGED fixedVars
    BY <2>1 DEF fixedVars
  <2>5. TfPut'
    BY <2>1, <2>4, TfPutRule DEF TfInv, TfPut
  <2>6. TfGet'
    BY <2>1, <2>4, TfGetRule DEF TfInv, TfGet
  <2>7. QED
    BY <2>2, <2>3, <2>5, <2>6 DEF TfInv
<1>14. QED
  BY <1>1, <1>2, <1>3, <1>4, <1>5, <1>6, <1>7, <1>8, <1>9, <1>10, <1>11, <1>12, <1>13
     DEF Next, Client, Server

\* A file in order is a beginning of the whole one.
LEMMA InOrderPrefix ==
  ASSUME NEW f \in Seq(Nat), blocks \in Nat, InOrder(f)
  PROVE  IsPrefix(f, Whole) /\ (Len(f) = blocks => f = Whole)
<1>1. Whole \in Seq(Nat) /\ Len(Whole) = blocks /\ \A i \in 1 .. blocks : Whole[i] = i
  BY DEF Whole
<1>2. Len(f) \in Nat /\ Len(f) <= Len(Whole) /\ \A i \in 1 .. Len(f) : f[i] = Whole[i]
  BY <1>1 DEF InOrder
<1> HIDE DEF Whole
<1>3. SubSeq(f, 1, Len(f)) = SubSeq(Whole, 1, Len(f))
  BY <1>1, <1>2
<1>4. Len(f) = blocks => f = Whole
  BY <1>1, <1>2
<1>5. QED
  BY <1>2, <1>3, <1>4 DEF IsPrefix

\* tftp_put() returns 0 only when the server has stored the whole file, and
\* tftp_get() only when it has written every block, which it never does on a
\* little-endian host; what is stored is a beginning of the file at any time,
\* but for what a write() did not take, and the block being put is at most one
\* ahead: for every modulus of the block numbers, files of any length, and
\* packets that are lost, repeated and, in files shorter than the modulus,
\* reordered.  It holds as long as no alarm comes between write() and num++ in
\* tftp_get().
THEOREM TransferAlwaysComplete ==
  "written" \notin AlarmPoints /\ Spec => []TransferComplete
<1> SUFFICES ASSUME "written" \notin AlarmPoints
             PROVE  Spec => []TransferComplete
  OBVIOUS
<1>1. Init => TfInv
  BY TfInit
<1>2. TfInv /\ [Next]_vars => TfInv'
  BY TfStep
<1>3. TfInv => TransferComplete
  <2>1. SUFFICES ASSUME TfInv PROVE TransferComplete
    OBVIOUS
  <2>2. TypeOK
    <3>1. /\ num \in 0 .. Modulus - 1 /\ sendnum \in 0 .. Modulus - 1
          /\ nrexmt \in 0 .. RTT_MAXNREXMT + 1
          /\ cur \in Nat /\ srvCur \in Nat /\ blocks \in Nat \ {0}
          /\ out \in Seq(Nat) /\ srvFile \in Seq(Nat)
          /\ toSrv \in Seq(Packet) /\ toCli \in Seq(Packet)
      BY <2>1 DEF TfInv, TfNumbers, TfSeqs
    <3>2. /\ reorder \in BOOLEAN /\ srvUp \in BOOLEAN /\ little \in BOOLEAN
          /\ mode \in Modes /\ tail \in Lens /\ rlen \in Lens
          /\ pc \in {"start", "first", "wait", "written", "got"} \union Ended
      BY <2>1, Zenon DEF TfInv, TfFlags
    <3>3. QED
      BY <3>1, <3>2, Zenon DEF TypeOK
  <2>3. /\ blocks \in Nat \ {0} /\ srvFile \in Seq(Nat) /\ out \in Seq(Nat)
        /\ Received(<<>>) /\ Len(<<>>) = 0
    BY <2>1, TfBasics, NothingOk
  <2>4. mode \in {"put", "get"}
    BY <2>1, ModesAssumption DEF TfInv, TfFlags
  <2>5. CASE mode = "put"
    <3>1. /\ out = <<>> /\ InOrder(srvFile) /\ Len(srvFile) \in {cur - 1, cur}
          /\ pc = "ok" => Len(srvFile) = blocks
      BY <2>1, <2>5 DEF TfInv, TfPut
    <3>2. IsPrefix(srvFile, Whole) /\ (pc = "ok" => srvFile = Whole)
      BY <2>3, <3>1, InOrderPrefix
    <3>3. GotPrefix
      BY <2>3, <3>1 DEF GotPrefix, Received
    <3>4. QED
      BY <2>2, <2>5, <3>1, <3>2, <3>3 DEF TransferComplete, PutOneAhead
  <2>6. CASE mode = "get"
    <3>1. Received(out) /\ (pc = "ok" => Len(out) = blocks /\ ~little)
      BY <2>1, <2>6 DEF TfInv, TfGet
    <3>2. GotPrefix
      BY <2>3, <3>1 DEF GotPrefix, Received
    <3>3. QED
      BY <2>2, <2>6, <3>1, <3>2 DEF TransferComplete, PutOneAhead
  <2>7. QED
    BY <2>4, <2>5, <2>6
<1>4. QED
  BY <1>1, <1>2, <1>3, PTL DEF Spec

-----------------------------------------------------------------------------
(* Ping                                                                    *)

\* The sizes of words and times.
LEMMA PgSizes ==
  /\ PG_WORD \in Nat /\ PG_WORD >= 4 /\ PG_USEC \in Nat /\ PG_USEC > 0 /\ PG_CLOCK \in Nat
  /\ PgPid \in Nat /\ PgPid > 0 /\ PgPid < PG_WORD
  /\ PG_USEC <= PG_WORD /\ PG_CLOCK < PG_WORD * PG_USEC
BY PgAssumption

\* A sequence of six words.
PgSix(w) == w \in Seq(0 .. PG_WORD - 1) /\ Len(w) = 6

\* The recursive sum over six words is their sum.
LEMMA PgSumSix ==
  ASSUME NEW w, PgSix(w)
  PROVE  PgSum(w) = w[1] + w[2] + w[3] + w[4] + w[5] + w[6]
<1> DEFINE g == [i \in 0 .. 6 |->
                   IF i = 0 THEN 0 ELSE IF i = 1 THEN w[1]
                   ELSE IF i = 2 THEN w[1] + w[2]
                   ELSE IF i = 3 THEN w[1] + w[2] + w[3]
                   ELSE IF i = 4 THEN w[1] + w[2] + w[3] + w[4]
                   ELSE IF i = 5 THEN w[1] + w[2] + w[3] + w[4] + w[5]
                   ELSE w[1] + w[2] + w[3] + w[4] + w[5] + w[6]]
        adds(f) == [i \in 0 .. 6 |-> IF i = 0 THEN 0 ELSE f[i - 1] + w[i]]
        sum == CHOOSE f : f = adds(f)
<1>0. /\ Len(w) = 6
      /\ w[1] \in Nat /\ w[2] \in Nat /\ w[3] \in Nat /\ w[4] \in Nat /\ w[5] \in Nat /\ w[6] \in Nat
  <2>1. Len(w) = 6 /\ w \in [1 .. 6 -> 0 .. PG_WORD - 1]
    <3>1. PICK S : S = 0 .. PG_WORD - 1
      OBVIOUS
    <3>2. w \in Seq(S) /\ Len(w) = 6
      BY <3>1 DEF PgSix
    <3>3. w \in [1 .. Len(w) -> S]
      BY <3>2, LenProperties
    <3>4. QED
      BY <3>1, <3>2, <3>3
  <2>2. w[1] \in 0 .. PG_WORD - 1 /\ w[2] \in 0 .. PG_WORD - 1 /\ w[3] \in 0 .. PG_WORD - 1
    BY <2>1
  <2>3. w[4] \in 0 .. PG_WORD - 1 /\ w[5] \in 0 .. PG_WORD - 1 /\ w[6] \in 0 .. PG_WORD - 1
    BY <2>1
  <2>4. QED
    BY <2>1, <2>2, <2>3, PgSizes
<1>1. PgSum(w) = sum[6]
  BY <1>0, Zenon DEF PgSum
<1>2. g = adds(g)
  BY <1>0
<1>3. sum = adds(sum)
  BY <1>2, Zenon
<1>4. PICK s : s = sum
  OBVIOUS
<1>5. s = adds(s)
  BY <1>3, <1>4, Zenon
<1>6. /\ s[0] = 0 /\ s[1] = s[0] + w[1] /\ s[2] = s[1] + w[2] /\ s[3] = s[2] + w[3]
      /\ s[4] = s[3] + w[4] /\ s[5] = s[4] + w[5] /\ s[6] = s[5] + w[6]
  <2> HIDE DEF g, sum
  <2>1. \A i \in 0 .. 6 : s[i] = IF i = 0 THEN 0 ELSE s[i - 1] + w[i]
    BY <1>5, Zenon
  <2>2. QED
    BY <2>1, SMT
<1>7. QED
  <2> HIDE DEF g, adds, sum
  <2>1. s[6] = w[1] + w[2] + w[3] + w[4] + w[5] + w[6]
    BY <1>0, <1>6
  <2>2. QED
    BY <1>1, <1>4, <2>1

\* What the two folds leave of the sum s of five words, and what the checksum
\* then adds to it.
LEMMA PgFolds ==
  ASSUME NEW s \in Nat, s > 0, s <= 5 * (PG_WORD - 1)
  PROVE  \E f \in 1 .. PG_WORD - 1, k \in 0 .. 5 :
           /\ PgFold(PgFold(s % (PG_WORD * PG_WORD))) = f
           /\ s = f + k * (PG_WORD - 1)
<1>0. PG_WORD \in Nat /\ PG_WORD >= 4
  BY PgSizes
<1>1. s < PG_WORD * PG_WORD
  <2>1. PG_WORD * PG_WORD >= 4 * PG_WORD
    BY <1>0
  <2>2. CASE PG_WORD = 4
    BY <2>2
  <2>3. CASE PG_WORD >= 5
    <3>1. PG_WORD * PG_WORD >= 5 * PG_WORD
      BY <1>0, <2>3
    <3>2. QED
      BY <1>0, <3>1
  <2>4. QED
    BY <1>0, <2>2, <2>3
<1>2. s % (PG_WORD * PG_WORD) = s
  <2>1. PICK m \in Nat : m = PG_WORD * PG_WORD /\ m > 0
    BY <1>0
  <2>2. s % m = s
    BY <1>1, <2>1
  <2>3. QED
    BY <2>1, <2>2
<1>3. PICK q \in Int, r \in Int : q = s \div PG_WORD /\ r = s % PG_WORD
  BY <1>0
<1>4. s = q * PG_WORD + r /\ r >= 0 /\ r < PG_WORD
  BY <1>0, <1>3
<1>5. q \in 0 .. 4
  <2>1. q >= 0
    BY <1>0, <1>3, <1>4
  <2>2. ~(q >= 5)
    <3>1. SUFFICES ASSUME q >= 5 PROVE FALSE
      OBVIOUS
    <3>2. q * PG_WORD >= 5 * PG_WORD
      BY <1>0, <3>1
    <3>3. QED
      BY <1>0, <1>4, <3>2
  <2>3. QED
    BY <2>1, <2>2
<1>6. PgFold(s) = q + r
  BY <1>3 DEF PgFold
<1>7. q + r = s - q * (PG_WORD - 1)
  BY <1>0, <1>4, <1>5
<1>8. q + r > 0 /\ q + r < 2 * PG_WORD /\ (q + r >= PG_WORD => q + r - PG_WORD + 1 < PG_WORD)
  BY <1>0, <1>4, <1>5
<1>9. PICK t \in Nat : t = q + r
  BY <1>4, <1>5
<1>10. CASE t < PG_WORD
  <2>1. t \div PG_WORD = 0 /\ t % PG_WORD = t
    BY <1>0, <1>10
  <2>2. PgFold(t) = t
    BY <2>1 DEF PgFold
  <2>3. PgFold(PgFold(s % (PG_WORD * PG_WORD))) = t
    BY <1>2, <1>6, <1>9, <2>2
  <2>4. t \in 1 .. PG_WORD - 1 /\ q \in 0 .. 5 /\ s = t + q * (PG_WORD - 1)
    BY <1>0, <1>5, <1>7, <1>8, <1>9, <1>10
  <2>5. QED
    BY <2>3, <2>4, Zenon
<1>11. CASE t >= PG_WORD
  <2>1. t \div PG_WORD = 1 /\ t % PG_WORD = t - PG_WORD
    BY <1>0, <1>8, <1>9, <1>11
  <2>2. PICK f \in Nat : f = t - PG_WORD + 1
    BY <1>0, <1>11
  <2>3. PgFold(t) = f
    BY <1>0, <2>1, <2>2 DEF PgFold
  <2>4. PgFold(PgFold(s % (PG_WORD * PG_WORD))) = f
    BY <1>2, <1>6, <1>9, <2>3
  <2>5. f \in 1 .. PG_WORD - 1 /\ q + 1 \in 0 .. 5
    BY <1>0, <1>5, <1>8, <1>9, <1>11, <2>2
  <2>6. s = f + (q + 1) * (PG_WORD - 1)
    BY <1>0, <1>5, <1>7, <1>9, <2>2
  <2>7. QED
    BY <2>4, <2>5, <2>6, Zenon
<1>12. QED
  BY <1>0, <1>10, <1>11

\* A multiple of a positive number.
LEMMA PgMultiple ==
  ASSUME NEW m \in Nat, m > 0, NEW k \in 0 .. 6
  PROVE  (k * m) % m = 0
<1>1. PICK x \in Nat : x = k * m
  OBVIOUS
<1>2. k = 0 \/ k = 1 \/ k = 2 \/ k = 3 \/ k = 4 \/ k = 5 \/ k = 6
  OBVIOUS
<1>3. x % m = 0
  BY <1>1, <1>2
<1>4. QED
  BY <1>1, <1>3

\* The words of a request.
LEMMA PgEchoWords ==
  ASSUME PgTypeOK, NEW c \in 0 .. PG_WORD - 1
  PROVE  /\ PgSix(PgEcho(c))
         /\ PgSum(PgEcho(c)) = PgSum(PgEcho(0)) + c
         /\ PgSum(PgEcho(0)) \in Nat /\ PgSum(PgEcho(0)) > 0
         /\ PgSum(PgEcho(0)) <= 5 * (PG_WORD - 1)
<1>0. pgNsent \in 0 .. PG_WORD - 1 /\ pgNow \in Nat /\ pgNow <= PG_CLOCK
  BY PgSizes DEF PgTypeOK
<1>1. PICK se \in Int, usec \in Int : se = pgNow \div PG_USEC /\ usec = pgNow % PG_USEC
  BY <1>0, PgSizes
<1>2. pgNow = se * PG_USEC + usec /\ usec >= 0 /\ usec < PG_USEC
  BY <1>0, <1>1, PgSizes
<1>3. se \in 0 .. PG_WORD - 1 /\ usec \in 0 .. PG_WORD - 1
  <2>1. se >= 0
    BY <1>0, <1>1, <1>2, PgSizes
  <2>2. ~(se >= PG_WORD)
    <3>1. SUFFICES ASSUME se >= PG_WORD PROVE FALSE
      OBVIOUS
    <3>2. se * PG_USEC >= PG_WORD * PG_USEC
      BY <3>1, PgSizes
    <3>3. PICK p \in Int : p = PG_WORD * PG_USEC
      BY PgSizes
    <3>4. PICK z \in Int : z = se * PG_USEC
      BY PgSizes
    <3>5. QED
      BY <1>0, <1>2, <3>2, <3>3, <3>4, PgSizes
  <2>3. QED
    BY <1>2, <2>1, <2>2, PgSizes
<1>4. PICK ty \in 0 .. PG_WORD - 1 : ty = 8 % PG_WORD
  BY PgSizes
<1>5. ASSUME NEW d \in 0 .. PG_WORD - 1
      PROVE  /\ PgSix(PgEcho(d))
             /\ PgSum(PgEcho(d)) = ty + d + PgPid + pgNsent + se + usec
  <2>1. PgEcho(d) = <<ty, d, PgPid, pgNsent, se, usec>>
    BY <1>1, <1>4 DEF PgEcho, PgTime
  <2>2. PgPid \in 0 .. PG_WORD - 1
    BY PgSizes
  <2>3. PICK w : w = <<ty, d, PgPid, pgNsent, se, usec>>
    OBVIOUS
  <2>4. /\ w \in Seq(0 .. PG_WORD - 1) /\ Len(w) = 6
        /\ w[1] = ty /\ w[2] = d /\ w[3] = PgPid /\ w[4] = pgNsent /\ w[5] = se /\ w[6] = usec
    BY <1>0, <1>3, <2>2, <2>3
  <2>5. PgSix(w)
    BY <2>4 DEF PgSix
  <2>6. PgSum(w) = ty + d + PgPid + pgNsent + se + usec
    BY <2>4, <2>5, PgSumSix
  <2>7. QED
    BY <2>1, <2>3, <2>5, <2>6
<1>6. 0 \in 0 .. PG_WORD - 1
  BY PgSizes
<1>7. PgSum(PgEcho(0)) = ty + 0 + PgPid + pgNsent + se + usec
  BY <1>5, <1>6
<1>8. PgSix(PgEcho(c)) /\ PgSum(PgEcho(c)) = ty + c + PgPid + pgNsent + se + usec
  BY <1>5
<1>9. QED
  BY <1>0, <1>3, <1>4, <1>7, <1>8, PgSizes

\* send_v4() sends a request with a good checksum.
LEMMA PgChecksum ==
  ASSUME PgTypeOK, NEW c, c = in_cksum(PgEcho(0))
  PROVE  PgSix(PgEcho(c)) /\ PgGood(PgEcho(c))
<1>0. PG_WORD \in Nat /\ PG_WORD >= 4 /\ 0 \in 0 .. PG_WORD - 1
  BY PgSizes
<1>1. PICK s \in Nat : s = PgSum(PgEcho(0)) /\ s > 0 /\ s <= 5 * (PG_WORD - 1)
  BY <1>0, PgEchoWords
<1>2. PICK f \in 1 .. PG_WORD - 1, k \in 0 .. 5 :
           /\ PgFold(PgFold(s % (PG_WORD * PG_WORD))) = f
           /\ s = f + k * (PG_WORD - 1)
  BY <1>1, PgFolds
<1>3. f % PG_WORD = f
  BY <1>0
<1>4. c = PG_WORD - 1 - f
  BY <1>1, <1>2, <1>3 DEF in_cksum
<1>5. c \in 0 .. PG_WORD - 1
  BY <1>0, <1>4
<1>6. PgSix(PgEcho(c)) /\ PgSum(PgEcho(c)) = s + c
  BY <1>1, <1>5, PgEchoWords
<1>7. PICK m \in Nat : m = PG_WORD - 1 /\ m > 0
  BY <1>0
<1>8. s + c = (k + 1) * m /\ k + 1 \in 0 .. 6
  BY <1>0, <1>1, <1>2, <1>4, <1>7
<1>9. (s + c) % m = 0
  BY <1>7, <1>8, PgMultiple
<1>10. s + c > 0
  BY <1>1, <1>5
<1>11. QED
  BY <1>6, <1>7, <1>9, <1>10 DEF PgGood

\* A message that is long enough holds the time it was sent, before the clock
\* read t.
PgSentBy(m, t) ==
  /\ m.at \in Nat /\ m.at <= t
  /\ m.len >= 16 => m.sent = PgTime(m.at)
PgNetOk == \A m \in pgNet : PgSentBy(m, pgNow)
\* What proc_v4() is called with.
PgMsgOk == pgMsg.tval \in Nat /\ PgSentBy(pgMsg.m, pgMsg.tval)
PgWireOk == pgWire # <<>> => PgGood(pgWire)
PgRttOk ==
  pgRtt[1] * PG_USEC + pgRtt[2] = pgRtt[3] /\ pgRtt[2] \in 0 .. PG_USEC - 1

\* The inductive invariant of ping.
PgInv == PgTypeOK /\ PgNetOk /\ PgMsgOk /\ PgWireOk /\ PgRttOk

\* A clock reading is its seconds and microseconds.
LEMMA PgTimeIs ==
  ASSUME NEW t \in Nat
  PROVE  /\ PgTime(t).sec \in Int /\ PgTime(t).usec \in 0 .. PG_USEC - 1
         /\ t = PgTime(t).sec * PG_USEC + PgTime(t).usec
<1>1. PICK se \in Int, usec \in Int : se = t \div PG_USEC /\ usec = t % PG_USEC
  BY PgSizes
<1>2. t = se * PG_USEC + usec /\ usec \in 0 .. PG_USEC - 1
  BY <1>1, PgSizes
<1>3. PgTime(t).sec = se /\ PgTime(t).usec = usec
  BY <1>1 DEF PgTime
<1>4. QED
  BY <1>2, <1>3

\* tv_sub() of two clock readings is their difference, with less than a second
\* of microseconds.
LEMMA PgDifference ==
  ASSUME NEW a \in Nat, NEW b \in Nat, NEW r, r = tv_sub(PgTime(b), PgTime(a))
  PROVE  /\ r.sec * PG_USEC + r.usec = b - a /\ r.usec \in 0 .. PG_USEC - 1
<1>1. PICK sa \in Int, ua \in 0 .. PG_USEC - 1 :
        PgTime(a).sec = sa /\ PgTime(a).usec = ua /\ a = sa * PG_USEC + ua
  BY PgTimeIs
<1>2. PICK sb \in Int, ub \in 0 .. PG_USEC - 1 :
        PgTime(b).sec = sb /\ PgTime(b).usec = ub /\ b = sb * PG_USEC + ub
  BY PgTimeIs
<1>3. PICK borrow \in 0 .. 1 : borrow = IF ub < ua THEN 1 ELSE 0
  OBVIOUS
<1>4. r.sec = sb - sa - borrow /\ r.usec = ub - ua + borrow * PG_USEC
  BY <1>1, <1>2, <1>3, PgSizes DEF tv_sub
<1>5. PG_USEC \in Nat /\ PG_USEC > 0
  BY PgSizes
<1>6. PICK x, y, z : x = sb * PG_USEC /\ y = sa * PG_USEC /\ z = borrow * PG_USEC
  OBVIOUS
<1>7. r.sec * PG_USEC + r.usec = b - a
  <2>1. (sb - sa - borrow) * PG_USEC = x - y - z
    <3>1. \A i, j, k, u \in Int : (i - j - k) * u = i * u - j * u - k * u
      OBVIOUS
    <3>2. borrow \in Int /\ PG_USEC \in Int
      BY <1>3, <1>5
    <3>3. (sb - sa - borrow) * PG_USEC = sb * PG_USEC - sa * PG_USEC - borrow * PG_USEC
      BY <3>1, <3>2
    <3>4. QED
      BY <1>6, <3>3
  <2>2. r.sec * PG_USEC = x - y - z
    BY <1>4, <2>1
  <2>3. r.usec = ub - ua + z /\ b = x + ub /\ a = y + ua
    BY <1>1, <1>2, <1>4, <1>6
  <2>4. x \in Int /\ y \in Int /\ z \in Int
    BY <1>3, <1>5, <1>6
  <2>5. r.sec * PG_USEC + r.usec = (x - y - z) + (ub - ua + z)
    BY <2>2, <2>3
  <2>6. (x - y - z) + (ub - ua + z) = (x + ub) - (y + ua)
    BY <1>5, <2>4
  <2>7. QED
    BY <2>3, <2>5, <2>6
<1>8. ub - ua + borrow * PG_USEC \in 0 .. PG_USEC - 1
  BY <1>3, PgSizes
<1>9. QED
  BY <1>4, <1>7, <1>8

LEMMA PgInitInv == PgInit => PgInv
<1> SUFFICES ASSUME PgInit PROVE PgInv
  OBVIOUS
<1>1. PgTypeOK
  <2>1. pgWire \in Seq(0 .. PG_WORD - 1)
    BY DEF PgInit
  <2>2. pgNsent \in 0 .. PG_WORD - 1 /\ pgNow \in 0 .. PG_CLOCK
    BY PgSizes DEF PgInit
  <2>3. QED
    BY <2>1, <2>2, Zenon DEF PgInit, PgTypeOK
<1>2. PgNetOk /\ PgWireOk
  BY DEF PgInit, PgNetOk, PgWireOk
<1>3. PgMsgOk
  BY DEF PgInit, PgMsgOk, PgIdle, PgSentBy, PgIcmp
<1>4. PgRttOk
  BY PgSizes DEF PgInit, PgRttOk
<1>5. QED
  BY <1>1, <1>2, <1>3, <1>4 DEF PgInv

\* sig_alrm() keeps what it touches right.
LEMMA PgSends ==
  ASSUME PgInv, PgSigAlrm, pgNow' = pgNow, pgPc' \in {"start", "recv", "proc", "end"}
  PROVE  PgTypeOK' /\ PgNetOk' /\ PgWireOk'
<1>0. PgTypeOK /\ PgNetOk
  BY DEF PgInv
<1>1. PICK c : /\ c = in_cksum(PgEcho(0)) /\ pgWire' = PgEcho(c)
               /\ pgNsent' = (pgNsent + 1) % PG_WORD
               /\ \/ pgNet' = pgNet
                  \/ pgNet' = pgNet \union {PgIcmp("echoreply", 16, PgPid, pgNow)}
  <2>1. PICK c \in {in_cksum(PgEcho(0))} :
               /\ pgWire' = PgEcho(c)
               /\ pgNsent' = (pgNsent + 1) % PG_WORD
               /\ pgNet' \in {pgNet} \union
                    IF PgGood(PgEcho(c)) /\ Cardinality(pgNet) < PG_INFLIGHT
                      THEN {pgNet \union {PgIcmp("echoreply", 16, PgPid, pgNow)}} ELSE {}
    BY Zenon DEF PgSigAlrm, send_v4
  <2>2. \/ pgNet' = pgNet
        \/ pgNet' = pgNet \union {PgIcmp("echoreply", 16, PgPid, pgNow)}
    BY <2>1, Zenon
  <2>3. QED
    BY <2>1, <2>2, Zenon
<1>2. PgSix(PgEcho(c)) /\ PgGood(PgEcho(c))
  BY <1>0, <1>1, PgChecksum
<1>3. PgWireOk'
  BY <1>1, <1>2 DEF PgWireOk, PgGood, PgSum
<1>4. PgTypeOK'
  <2>1. pgNsent' \in 0 .. PG_WORD - 1
    <3>1. pgNsent \in Nat
      BY <1>0 DEF PgTypeOK
    <3>2. PICK n \in Nat : n = pgNsent + 1
      BY <3>1
    <3>3. n % PG_WORD \in 0 .. PG_WORD - 1
      BY PgSizes
    <3>4. QED
      BY <1>1, <3>2, <3>3
  <2>2. pgWire' \in Seq(0 .. PG_WORD - 1)
    BY <1>1, <1>2 DEF PgSix
  <2>3. pgArmed' \in BOOLEAN
    BY DEF PgSigAlrm
  <2>4. pgNow' \in 0 .. PG_CLOCK
    BY <1>0 DEF PgTypeOK
  <2>5. QED
    BY <2>1, <2>2, <2>3, <2>4, Zenon DEF PgTypeOK
<1>5. PgNetOk'
  <2>1. PgSentBy(PgIcmp("echoreply", 16, PgPid, pgNow), pgNow)
    <3>1. pgNow \in Nat
      BY <1>0, PgSizes DEF PgTypeOK
    <3>2. QED
      BY <3>1 DEF PgSentBy, PgIcmp
  <2>2. \A m \in pgNet' : m \in pgNet \/ m = PgIcmp("echoreply", 16, PgPid, pgNow)
    BY <1>1, Zenon
  <2>3. \A m \in pgNet' : PgSentBy(m, pgNow)
    BY <1>0, <2>1, <2>2, Zenon DEF PgNetOk
  <2>4. QED
    BY <2>3, Zenon DEF PgNetOk
<1>6. QED
  BY <1>3, <1>4, <1>5

LEMMA PgStepInv == PgInv /\ [PgNext]_pgVars => PgInv'
<1> SUFFICES ASSUME PgInv, [PgNext]_pgVars PROVE PgInv'
  OBVIOUS
<1>0. PgTypeOK /\ PgNetOk /\ PgMsgOk /\ PgWireOk /\ PgRttOk
  BY DEF PgInv
<1>1. CASE PgStart \/ PgAlarm
  <2>1. /\ PgSigAlrm /\ pgNow' = pgNow /\ pgMsg' = pgMsg /\ pgRtt' = pgRtt
        /\ pgPc' \in {"start", "recv", "proc", "end"}
    BY <1>0, <1>1, Zenon DEF PgStart, PgAlarm, PgTypeOK
  <2>2. PgTypeOK' /\ PgNetOk' /\ PgWireOk'
    BY <2>1, PgSends
  <2>3. PgMsgOk' /\ PgRttOk'
    BY <1>0, <2>1, Zenon DEF PgMsgOk, PgRttOk
  <2>4. QED
    BY <2>2, <2>3 DEF PgInv
<1>2. CASE PgRecv
  <2>1. PICK m \in pgNet \union PgForeign :
          pgNet' \in {pgNet, pgNet \ {m}} /\ pgMsg' = [m |-> m, tval |-> pgNow]
    BY <1>2 DEF PgRecv
  <2>2. pgNow \in Nat
    BY <1>0, PgSizes DEF PgTypeOK
  <2>3. \A x, t : \A n \in {4, 8, 16} : PgSentBy(PgIcmp(x, n, t, 0), pgNow)
    BY <2>2 DEF PgSentBy, PgIcmp
  <2>4. PgSentBy(m, pgNow)
    BY <1>0, <2>1, <2>3, Zenon DEF PgNetOk, PgForeign
  <2>5. pgMsg'.tval = pgNow /\ pgMsg'.m = m
    BY <2>1
  <2>6. PgMsgOk'
    BY <2>2, <2>4, <2>5, Zenon DEF PgMsgOk
  <2>7. PgNetOk'
    BY <1>0, <1>2, <2>1, Zenon DEF PgNetOk, PgRecv
  <2>8. PgTypeOK' /\ PgWireOk' /\ PgRttOk'
    BY <1>0, <1>2, Zenon DEF PgTypeOK, PgWireOk, PgRttOk, PgRecv
  <2>9. QED
    BY <2>6, <2>7, <2>8 DEF PgInv
<1>3. CASE PgRecvError
  BY <1>0, <1>3, Zenon DEF PgInv, PgTypeOK, PgNetOk, PgMsgOk, PgWireOk, PgRttOk, PgRecvError
<1>4. CASE proc_v4
  <2>1. PgTypeOK' /\ PgNetOk' /\ PgWireOk'
    BY <1>0, <1>4, Zenon DEF PgTypeOK, PgNetOk, PgWireOk, proc_v4
  <2>2. PgMsgOk'
    <3>1. pgMsg' = PgIdle
      BY <1>4 DEF proc_v4
    <3>2. PgIdle.tval = 0 /\ PgIdle.m = PgIcmp("none", 0, 0, 0)
      BY DEF PgIdle
    <3>3. PgSentBy(PgIcmp("none", 0, 0, 0), 0)
      BY DEF PgSentBy, PgIcmp
    <3>4. QED
      BY <3>1, <3>2, <3>3 DEF PgMsgOk
  <2>3. PgRttOk'
    <3>1. CASE pgRtt' = pgRtt
      BY <1>0, <3>1, Zenon DEF PgRttOk
    <3>2. CASE pgRtt' # pgRtt
      <4>0. pgMsg.m.len >= 16
        BY <1>4, <3>2, Zenon DEF proc_v4, PgReported
      <4>1. PICK a \in Nat, b \in Nat :
              /\ a = pgMsg.m.at /\ b = pgMsg.tval /\ pgMsg.m.sent = PgTime(a)
        BY <1>0, <4>0, Zenon DEF PgMsgOk, PgSentBy
      <4>2. PICK r : r = tv_sub(PgTime(b), PgTime(a))
        OBVIOUS
      <4>3. pgRtt' = <<r.sec, r.usec, b - a>>
        BY <1>4, <3>2, <4>1, <4>2 DEF proc_v4
      <4>4. r.sec * PG_USEC + r.usec = b - a /\ r.usec \in 0 .. PG_USEC - 1
        BY <4>2, PgDifference
      <4>5. pgRtt'[1] = r.sec /\ pgRtt'[2] = r.usec /\ pgRtt'[3] = b - a
        BY <4>3
      <4>6. QED
        BY <4>4, <4>5 DEF PgRttOk
    <3>3. QED
      BY <3>1, <3>2
  <2>4. QED
    BY <2>1, <2>2, <2>3 DEF PgInv
<1>5. CASE PgTick
  <2>1. pgNow \in Nat /\ pgNow' = pgNow + 1 /\ pgNow' \in 0 .. PG_CLOCK
    BY <1>0, <1>5, PgSizes DEF PgTypeOK, PgTick
  <2>2. PgTypeOK'
    BY <1>0, <1>5, <2>1, Zenon DEF PgTypeOK, PgTick
  <2>3. \A m : PgSentBy(m, pgNow) => PgSentBy(m, pgNow')
    BY <2>1 DEF PgSentBy
  <2>4. PgNetOk'
    BY <1>0, <1>5, <2>3, Zenon DEF PgNetOk, PgTick
  <2>5. PgMsgOk' /\ PgWireOk' /\ PgRttOk'
    BY <1>0, <1>5, Zenon DEF PgMsgOk, PgWireOk, PgRttOk, PgTick
  <2>6. QED
    BY <2>2, <2>4, <2>5 DEF PgInv
<1>6. CASE UNCHANGED pgVars
  BY <1>0, <1>6, Zenon DEF PgInv, PgTypeOK, PgNetOk, PgMsgOk, PgWireOk, PgRttOk, pgVars
<1>7. QED
  BY <1>1, <1>2, <1>3, <1>4, <1>5, <1>6 DEF PgNext

\* For every size of a word and of a second, any identifier and however long
\* answers take, every request ping sends has a good checksum and every time
\* it prints is the true one (in_cksum(), tv_sub() and proc_v4(), ping.c).
THEOREM EchoAlwaysRight == PgSpec => []PgEchoRight
<1>1. PgInv => PgEchoRight
  BY DEF PgInv, PgWireOk, PgRttOk, PgEchoRight
<1>2. QED
  BY PgInitInv, PgStepInv, <1>1, PTL DEF PgSpec
-----------------------------------------------------------------------------
(* The boot program                                                        *)

\* The messages of the socket.
NbMsgs == [of : Cmds, val : {0, MARKER, PATTERN}]

\* The type invariant by kinds of state.
NbTypes ==
  /\ step \in 1..14 /\ phase \in {"off", "send", "wait", "load", "ended"}
  /\ cmdq \in Seq(Cmds) /\ sockq \in Seq(NbMsgs)
  /\ runs \in 0 .. MaxRuns /\ strays \in 0 .. MaxStray
NbFlags ==
  /\ dsp \in [inits : Nat, marker : BOOLEAN, done : SUBSET SetUp]
  /\ clean \in BOOLEAN /\ mixed \in BOOLEAN

\* The program is at a command, and its answer has arrived.
NbActive == phase \in {"send", "wait"}
NbAnswered == phase = "wait" /\ sockq # <<>>

\* While all goes well one command is under way at a time: it has not been
\* carried out, or its answer waits, and the answer that carries the marker
\* tells the truth until it is used.
NbPipe ==
  IF phase = "wait"
  THEN \/ cmdq = <<Script[step]>> /\ sockq = <<>>
       \/ cmdq = <<>> /\ \E m \in NbMsgs : /\ sockq = <<m>>
                                           /\ step = 3 => (m.val = MARKER <=> dsp.marker)
  ELSE cmdq = <<>> /\ sockq = <<>>

\* While all goes well the PLLs are set up exactly when the marker says so or
\* the program is between the two, and it goes there only without the marker.
NbOnce ==
  /\ dsp.inits = IF dsp.marker \/ (NbActive /\ (step \in 5..12 \/ (step = 4 /\ NbAnswered)))
                 THEN 1 ELSE 0
  /\ NbActive /\ (step \in 4..11 \/ (step = 12 /\ ~NbAnswered)) => ~dsp.marker
  /\ NbActive /\ (step > 12 \/ (step = 12 /\ NbAnswered)) => dsp.marker
  /\ phase = "load" => dsp.marker

\* As long as nothing comes unasked and no command outlives its program, the
\* command being waited for is under way, or its answer has arrived, or one
\* of the two is lost; an answer says that the command was carried out.
NbTurns ==
  IF phase = "wait"
  THEN \/ cmdq = <<Script[step]>> /\ sockq = <<>>
       \/ cmdq = <<>> /\ sockq = <<>>
       \/ cmdq = <<>> /\ \E m \in NbMsgs :
            /\ sockq = <<m>> /\ m.of = Script[step]
            /\ step \in 4..11 => Script[step] \in dsp.done
            /\ m.val = MARKER => dsp.marker
  ELSE cmdq = <<>> /\ sockq = <<>>

\* And the program has left behind only what was carried out, so that the
\* marker stands for all of it.
NbBehind ==
  /\ NbActive => \A j \in 4..11 : j < step => Script[j] \in dsp.done
  /\ dsp.marker \/ phase = "load" => SetUp \subseteq dsp.done

\* The inductive invariant of the boot program.
NbInv ==
  /\ NbTypes /\ NbFlags
  /\ clean => NbPipe /\ NbOnce
  /\ ~mixed => NbTurns /\ NbBehind

\* The commands and their places.
LEMMA NbScript ==
  /\ DOMAIN Script = 1..14
  /\ Script[1] = "maas" /\ Script[2] = "query" /\ Script[3] = "read_marker"
  /\ Script[4] = "pll_amba" /\ Script[5] = "pll_arm" /\ Script[6] = "pll_spu"
  /\ Script[7] = "sdram" /\ Script[8] = "cs" /\ Script[9] = "reg10"
  /\ Script[10] = "reg14" /\ Script[11] = "reg78" /\ Script[12] = "marker"
  /\ Script[13] = "ddr_write" /\ Script[14] = "ddr_read"
  BY DEF Script

\* Where the commands are that the invariant speaks of.
LEMMA NbAt ==
  ASSUME NEW i \in 1..14
  PROVE  /\ Script[i] \in Cmds
         /\ Script[i] = "read_marker" <=> i = 3
         /\ Script[i] = "pll_amba" <=> i = 4
         /\ Script[i] = "marker" <=> i = 12
         /\ Script[i] = "ddr_read" <=> i = 14
<1>1. Script[i] \in Cmds
  BY NbScript DEF Cmds
<1>2. i \in {1, 2, 3, 4, 5, 6, 7, 8, 9, 10, 11, 12, 13, 14}
  OBVIOUS
<1>3. QED
  BY <1>1, <1>2, NbScript

\* The commands that set the MSP up are the fourth to the eleventh.
LEMMA NbSetUp ==
  /\ \A i \in 1..14 : Script[i] \in SetUp <=> i \in 4..11
  /\ \A D : (\A j \in 4..11 : Script[j] \in D) => SetUp \subseteq D
<1>1. ASSUME NEW i \in 1..14 PROVE Script[i] \in SetUp <=> i \in 4..11
  <2>1. i \in {1, 2, 3, 4, 5, 6, 7, 8, 9, 10, 11, 12, 13, 14}
    OBVIOUS
  <2>2. QED
    BY <2>1, NbScript DEF SetUp
<1>2. ASSUME NEW D, \A j \in 4..11 : Script[j] \in D PROVE SetUp \subseteq D
  <2>1. /\ Script[4] \in D /\ Script[5] \in D /\ Script[6] \in D /\ Script[7] \in D
        /\ Script[8] \in D /\ Script[9] \in D /\ Script[10] \in D /\ Script[11] \in D
    BY <1>2
  <2>2. QED
    BY <2>1, NbScript DEF SetUp
<1>3. QED
  BY <1>1, <1>2

\* The commands that are passed by when they cannot be sent.
LEMMA NbPassed ==
  ASSUME NEW i \in 1..14, Script[i] \notin Fatal \cup WaitsAnyway
  PROVE  i \in 1..3 \/ i = 14
<1>1. i \in {1, 2, 3, 4, 5, 6, 7, 8, 9, 10, 11, 12, 13, 14}
  OBVIOUS
<1>2. QED
  BY <1>1, NbScript DEF Fatal, WaitsAnyway

\* Where main() goes on when it finds the marker.
LEMMA NbIndex == IndexOf("ddr_write") = 13
<1>1. \A i \in 1..14 : Script[i] = "ddr_write" <=> i = 13
  <2> SUFFICES ASSUME NEW i \in 1..14 PROVE Script[i] = "ddr_write" <=> i = 13
    OBVIOUS
  <2>1. i \in {1, 2, 3, 4, 5, 6, 7, 8, 9, 10, 11, 12, 13, 14}
    OBVIOUS
  <2>2. QED
    BY <2>1, NbScript
<1>2. \A i \in DOMAIN Script : Script[i] = "ddr_write" <=> i = 13
  BY <1>1, NbScript
<1>3. 13 \in DOMAIN Script
  BY NbScript
<1>4. QED
  BY <1>2, <1>3 DEF IndexOf

\* Where main() goes on after an answer, by the place of the command.
LEMMA NbProceeds ==
  ASSUME NbTypes, NEW val, Proceed(Script[step], val)
  PROVE  \/ step = 3 /\ val = MARKER /\ phase' = "send" /\ step' = 13
         \/ step = 14 /\ phase' = "load" /\ step' = step /\ val = PATTERN
         \/ step = 14 /\ phase' = "ended" /\ step' = step
         \/ /\ step \in 1..13 /\ ~(step = 3 /\ val = MARKER)
            /\ phase' = "send" /\ step' = step + 1
<1>1. step \in 1..14
  BY DEF NbTypes
<1>2. CASE step = 3
  BY <1>1, <1>2, NbAt, NbIndex DEF Proceed, InitDone, DdrOk
<1>3. CASE step = 14
  BY <1>1, <1>3, NbAt, NbIndex DEF Proceed, InitDone, DdrOk
<1>4. CASE step \notin {3, 14}
  BY <1>1, <1>4, NbAt, NbIndex DEF Proceed, InitDone, DdrOk
<1>5. QED
  BY <1>2, <1>3, <1>4

\* The invariant holds before the program is started.
LEMMA NbInitInv == NbInit => NbInv
<1> SUFFICES ASSUME NbInit PROVE NbInv
  OBVIOUS
<1>1. NbTypes
  BY NbAssumption DEF NbInit, NbTypes
<1>2. NbFlags
  BY DEF NbInit, NbFlags
<1>3. NbPipe /\ NbTurns /\ NbBehind
  BY DEF NbInit, NbPipe, NbTurns, NbBehind, NbActive
<1>4. NbOnce
  BY DEF NbInit, NbOnce, NbActive
<1>5. QED
  BY <1>1, <1>2, <1>3, <1>4 DEF NbInv

\* Starting and killing the program, sending, receiving, the MSP and unasked
\* messages preserve the invariant.
LEMMA NbStepInv ==
  ASSUME NbInv, [NbNext]_nbVars
  PROVE  NbInv'
<1>0. /\ NbTypes /\ NbFlags
      /\ clean => NbPipe /\ NbOnce
      /\ ~mixed => NbTurns /\ NbBehind
  BY DEF NbInv
<1>a. MARKER # 0 /\ PATTERN # 0 /\ MARKER # PATTERN /\ -1 # MARKER /\ -1 # PATTERN
  BY DEF MARKER, PATTERN
<1>1. CASE init_interface
  <2>1. /\ runs' \in 0..MaxRuns /\ sockq' = <<>> /\ step' = 1 /\ phase' \in {"send", "ended"}
        /\ phase \in {"off", "load", "ended"}
        /\ UNCHANGED <<cmdq, dsp, strays, clean, mixed>>
    BY <1>0, <1>1, NbAssumption DEF init_interface, NbTypes
  <2>2. NbTypes'
    BY <1>0, <2>1 DEF NbTypes
  <2>3. NbFlags'
    BY <1>0, <2>1 DEF NbFlags
  <2>4. clean => NbPipe' /\ NbOnce'
    BY <1>0, <2>1 DEF NbPipe, NbOnce, NbActive, NbAnswered
  <2>5. ~mixed => NbTurns' /\ NbBehind'
    BY <1>0, <2>1 DEF NbTurns, NbBehind, NbActive
  <2>6. QED
    BY <2>1, <2>2, <2>3, <2>4, <2>5 DEF NbInv
<1>2. CASE send_msg_to_channel
  <2>0. phase = "send" /\ UNCHANGED <<sockq, dsp, runs, strays, mixed>>
    BY <1>2 DEF send_msg_to_channel
  <2>1. CASE /\ cmdq' = Append(cmdq, Script[step]) /\ phase' = "wait"
             /\ UNCHANGED <<step, clean>>
    <3>2. NbTypes'
      BY <1>0, <2>0, <2>1, NbAt, SMTT(20) DEF NbTypes
    <3>3. NbFlags'
      BY <1>0, <2>0, <2>1 DEF NbFlags
    <3>4. clean => NbPipe' /\ NbOnce'
      <4> SUFFICES ASSUME clean PROVE NbPipe' /\ NbOnce'
        OBVIOUS
      <4>1. cmdq = <<>> /\ sockq = <<>>
        BY <1>0, <2>0 DEF NbPipe
      <4>2. cmdq' = <<Script[step]>>
        BY <2>1, <4>1
      <4>3. QED
        BY <1>0, <2>0, <2>1, <4>1, <4>2 DEF NbPipe, NbOnce, NbActive, NbAnswered, NbTypes
    <3>5. ~mixed => NbTurns' /\ NbBehind'
      <4> SUFFICES ASSUME ~mixed PROVE NbTurns' /\ NbBehind'
        OBVIOUS
      <4>1. cmdq = <<>> /\ sockq = <<>>
        BY <1>0, <2>0 DEF NbTurns
      <4>2. cmdq' = <<Script[step]>>
        BY <2>1, <4>1
      <4>3. NbTurns'
        BY <2>0, <2>1, <4>1, <4>2 DEF NbTurns
      <4>4. NbBehind'
        BY <1>0, <2>0, <2>1 DEF NbBehind, NbActive
      <4>5. QED
        BY <4>3, <4>4
    <3>6. QED
      BY <2>0, <2>1, <3>2, <3>3, <3>4, <3>5 DEF NbInv
  <2>2. CASE /\ clean' = FALSE /\ UNCHANGED cmdq
             /\ CASE Script[step] \in Fatal -> phase' = "ended" /\ UNCHANGED step
                  [] Script[step] \in WaitsAnyway -> phase' = "wait" /\ UNCHANGED step
                  [] OTHER -> Proceed(Script[step], -1)
    <3>2. \/ phase' \in {"ended", "wait"} /\ step' = step
          \/ phase' = "send" /\ step \in 1..3 /\ step' = step + 1
      <4>1. CASE Script[step] \in Fatal \cup WaitsAnyway
        BY <1>0, <2>2, <4>1 DEF NbTypes
      <4>2. CASE Script[step] \notin Fatal \cup WaitsAnyway
        <5>1. Proceed(Script[step], -1)
          BY <2>2, <4>2
        <5>2. step \in 1..3 \/ step = 14
          BY <1>0, <4>2, NbPassed DEF NbTypes
        <5>3. \/ step = 3 /\ -1 = MARKER /\ phase' = "send" /\ step' = 13
              \/ step = 14 /\ phase' = "load" /\ step' = step /\ -1 = PATTERN
              \/ step = 14 /\ phase' = "ended" /\ step' = step
              \/ step \in 1..13 /\ phase' = "send" /\ step' = step + 1
          BY <1>0, <5>1, NbProceeds, Zenon
        <5>4. QED
          BY <1>a, <5>2, <5>3
      <4>3. QED
        BY <4>1, <4>2
    <3>3. NbTypes'
      <4>1. step' \in 1..14 /\ phase' \in {"off", "send", "wait", "load", "ended"}
        BY <1>0, <3>2 DEF NbTypes
      <4>2. QED
        BY <1>0, <2>0, <2>2, <4>1 DEF NbTypes
    <3>4. NbFlags'
      BY <1>0, <2>0, <2>2 DEF NbFlags
    <3>5. ~mixed => NbTurns' /\ NbBehind'
      <4> SUFFICES ASSUME ~mixed PROVE NbTurns' /\ NbBehind'
        OBVIOUS
      <4>1. cmdq' = <<>> /\ sockq' = <<>>
        BY <1>0, <2>0, <2>2 DEF NbTurns
      <4>2. NbTurns'
        BY <4>1 DEF NbTurns
      <4>3. NbBehind'
        BY <1>0, <2>0, <3>2 DEF NbBehind, NbActive
      <4>4. QED
        BY <4>2, <4>3
    <3>6. QED
      BY <2>0, <2>2, <3>3, <3>4, <3>5 DEF NbInv
  <2>3. QED
    BY <1>2, <2>1, <2>2 DEF send_msg_to_channel
<1>3. CASE wait_for_response
  <2> DEFINE m == Head(sockq)
  <2>1. /\ phase = "wait" /\ sockq # <<>> /\ sockq' = Tail(sockq)
        /\ Proceed(Script[step], Head(sockq).val)
        /\ UNCHANGED <<cmdq, dsp, runs, strays, clean, mixed>>
    BY <1>3 DEF wait_for_response
  <2>3. \/ step = 3 /\ m.val = MARKER /\ phase' = "send" /\ step' = 13
        \/ step = 14 /\ phase' = "load" /\ step' = step /\ m.val = PATTERN
        \/ step = 14 /\ phase' = "ended" /\ step' = step
        \/ /\ step \in 1..13 /\ ~(step = 3 /\ m.val = MARKER)
           /\ phase' = "send" /\ step' = step + 1
    BY <1>0, <2>1, NbProceeds
  <2>4. NbTypes'
    <3>1. sockq' \in Seq(NbMsgs) /\ UNCHANGED <<cmdq, runs, strays>>
      BY <1>0, <2>1 DEF NbTypes
    <3>2. step' \in 1..14 /\ phase' \in {"off", "send", "wait", "load", "ended"}
      BY <1>0, <2>3, SMTT(20) DEF NbTypes
    <3>3. QED
      BY <1>0, <3>1, <3>2, Zenon DEF NbTypes
  <2>6. NbFlags'
    BY <1>0, <2>1 DEF NbFlags
  <2>7. ASSUME clean PROVE NbPipe' /\ NbOnce'
    <3>1. PICK x \in NbMsgs : /\ cmdq = <<>> /\ sockq = <<x>>
                              /\ step = 3 => (x.val = MARKER <=> dsp.marker)
      BY <1>0, <2>1, <2>7 DEF NbPipe
    <3>2. m = x /\ sockq' = <<>>
      BY <2>1, <3>1
    <3>3. NbPipe'
      BY <2>1, <2>3, <3>1, <3>2 DEF NbPipe
    <3>4. NbOnce
      BY <1>0, <2>7
    <3>5. NbOnce'
      BY <2>1, <2>3, <3>1, <3>2, <3>4 DEF NbOnce, NbActive, NbAnswered
    <3>6. QED
      BY <3>3, <3>5
  <2>8. ASSUME ~mixed PROVE NbTurns' /\ NbBehind'
    <3>1. PICK x \in NbMsgs : /\ cmdq = <<>> /\ sockq = <<x>>
                              /\ step \in 4..11 => Script[step] \in dsp.done
                              /\ x.val = MARKER => dsp.marker
      BY <1>0, <2>1, <2>8 DEF NbTurns
    <3>2. m = x /\ sockq' = <<>>
      BY <2>1, <3>1
    <3>3. NbTurns'
      BY <2>1, <2>3, <3>1, <3>2 DEF NbTurns
    <3>4. NbActive /\ NbBehind /\ dsp' = dsp
      BY <1>0, <2>1, <2>8 DEF NbActive
    <3>5. \A j \in 4..11 : step \in 1..14 /\ (j < step \/ (j = step /\ step \in 4..11))
                            => Script[j] \in dsp.done
      BY <3>1, <3>4 DEF NbBehind
    <3>6. CASE step = 3 /\ m.val = MARKER /\ phase' = "send" /\ step' = 13
      <4>1. SetUp \subseteq dsp.done
        BY <3>1, <3>2, <3>4, <3>6 DEF NbBehind
      <4>2. \A j \in 4..11 : Script[j] \in dsp.done
        BY <4>1, NbSetUp
      <4>3. QED
        BY <3>3, <3>4, <3>6, <4>1, <4>2 DEF NbBehind
    <3>7. CASE step = 14 /\ phase' \in {"load", "ended"} /\ step' = step
      <4>1. \A j \in 4..11 : Script[j] \in dsp.done
        BY <3>5, <3>7
      <4>2. SetUp \subseteq dsp.done
        BY <4>1, NbSetUp
      <4>3. QED
        BY <3>3, <3>4, <3>7, <4>2 DEF NbBehind, NbActive
    <3>8. CASE step \in 1..13 /\ phase' = "send" /\ step' = step + 1
      <4>1. \A j \in 4..11 : j < step' => Script[j] \in dsp.done
        BY <3>5, <3>8
      <4>2. QED
        BY <3>3, <3>4, <3>8, <4>1 DEF NbBehind
    <3>9. QED
      BY <2>3, <3>6, <3>7, <3>8
  <2>9. QED
    BY <2>1, <2>4, <2>6, <2>7, <2>8 DEF NbInv
<1>4. CASE Killed
  <2>1. /\ phase \in {"send", "wait", "load"} /\ phase' = "off" /\ sockq' = <<>>
        /\ clean' = (clean /\ (step <= 3 \/ dsp.marker) /\ cmdq = <<>>)
        /\ mixed' = (mixed \/ cmdq # <<>>)
        /\ UNCHANGED <<step, cmdq, dsp, runs, strays>>
    BY <1>4 DEF Killed
  <2>2. NbTypes'
    BY <1>0, <2>1 DEF NbTypes
  <2>3. NbFlags'
    BY <1>0, <2>1 DEF NbFlags
  <2>4. ASSUME clean' PROVE NbPipe' /\ NbOnce'
    <3>1. clean /\ (step <= 3 \/ dsp.marker) /\ cmdq = <<>>
      BY <2>1, <2>4
    <3>2. NbOnce /\ step \in 1..14
      BY <1>0, <3>1 DEF NbTypes
    <3>3. dsp.inits = IF dsp.marker THEN 1 ELSE 0
      BY <2>1, <3>1, <3>2 DEF NbOnce, NbActive, NbAnswered
    <3>4. QED
      BY <2>1, <3>1, <3>3 DEF NbPipe, NbOnce, NbActive, NbAnswered
  <2>5. ASSUME ~mixed' PROVE NbTurns' /\ NbBehind'
    <3>1. ~mixed /\ cmdq' = <<>>
      BY <2>1, <2>5
    <3>2. QED
      BY <1>0, <2>1, <3>1 DEF NbTurns, NbBehind, NbActive
  <2>6. QED
    BY <2>2, <2>3, <2>4, <2>5 DEF NbInv
<1>5. CASE Stray([of |-> "ready", val |-> 0])
  <2> DEFINE m == [of |-> "ready", val |-> 0]
  <2>1. /\ strays' = strays + 1 /\ strays < MaxStray /\ clean' = FALSE /\ mixed' = TRUE
        /\ sockq' = Append(sockq, m)
        /\ UNCHANGED <<step, phase, cmdq, dsp, runs>>
    BY <1>5 DEF Stray
  <2>2. m \in NbMsgs
    BY DEF NbMsgs, Cmds
  <2>3. NbTypes'
    BY <1>0, <2>1, <2>2, NbAssumption DEF NbTypes
  <2>5. NbFlags'
    BY <1>0, <2>1 DEF NbFlags
  <2>6. QED
    BY <2>1, <2>3, <2>5 DEF NbInv
<1>6. ASSUME NEW done \in BOOLEAN, NEW heard \in BOOLEAN, NEW holds \in BOOLEAN,
             MspAnswers(done, heard, holds)
      PROVE  NbInv'
  <2> DEFINE c == Head(cmdq)
             ans == Answer(c, holds)
  <2>1. /\ cmdq # <<>> /\ (heard => done) /\ cmdq' = Tail(cmdq)
        /\ clean' = (clean /\ heard)
        /\ dsp' = IF ~done THEN dsp
                  ELSE [inits |-> IF c = "pll_amba" THEN dsp.inits + 1 ELSE dsp.inits,
                        marker |-> dsp.marker \/ c = "marker",
                        done |-> dsp.done \cup ({c} \cap SetUp)]
        /\ sockq' = IF heard /\ phase # "off" THEN Append(sockq, ans) ELSE sockq
        /\ UNCHANGED <<step, phase, runs, strays, mixed>>
    BY <1>6 DEF MspAnswers
  <2>2. c \in Cmds /\ cmdq' \in Seq(Cmds)
    BY <1>0, <2>1 DEF NbTypes
  <2>3. /\ ans \in NbMsgs /\ ans.of = c
        /\ ans.val = MARKER <=> c = "read_marker" /\ dsp.marker
    <3>1. \E v \in {0, MARKER, PATTERN} :
            /\ ans = [of |-> c, val |-> v]
            /\ v = MARKER <=> c = "read_marker" /\ dsp.marker
      BY <1>a DEF Answer
    <3>2. QED
      BY <2>2, <3>1 DEF NbMsgs
  <2> HIDE DEF ans
  <2>4. NbTypes'
    BY <1>0, <2>1, <2>2, <2>3 DEF NbTypes
  <2>5. /\ dsp'.inits = IF done /\ c = "pll_amba" THEN dsp.inits + 1 ELSE dsp.inits
        /\ dsp'.marker <=> dsp.marker \/ (done /\ c = "marker")
        /\ dsp'.done = IF done THEN dsp.done \cup ({c} \cap SetUp) ELSE dsp.done
        /\ dsp' \in [inits : Nat, marker : BOOLEAN, done : SUBSET SetUp]
    <3>1. dsp \in [inits : Nat, marker : BOOLEAN, done : SUBSET SetUp]
      BY <1>0 DEF NbFlags
    <3>2. CASE done
      <4>1. /\ (IF c = "pll_amba" THEN dsp.inits + 1 ELSE dsp.inits) \in Nat
            /\ (dsp.marker \/ c = "marker") \in BOOLEAN
            /\ dsp.done \cup ({c} \cap SetUp) \in SUBSET SetUp
        BY <3>1
      <4>2. QED
        BY <2>1, <3>1, <3>2, <4>1
    <3>3. CASE ~done
      BY <2>1, <3>1, <3>3
    <3>4. QED
      BY <3>2, <3>3
  <2>6. NbFlags'
    BY <1>0, <2>1, <2>5 DEF NbFlags
  <2>8. ASSUME clean' PROVE NbPipe' /\ NbOnce'
    <3>1. clean /\ heard /\ done
      BY <2>1, <2>8
    <3>2. NbPipe /\ NbOnce /\ step \in 1..14
      BY <1>0, <3>1 DEF NbTypes
    <3>3. phase = "wait" /\ cmdq = <<Script[step]>> /\ sockq = <<>>
      BY <2>1, <3>2 DEF NbPipe
    <3>4. c = Script[step] /\ cmdq' = <<>> /\ sockq' = <<ans>>
      BY <2>1, <3>1, <3>3
    <3>5. /\ c = "read_marker" <=> step = 3
          /\ c = "pll_amba" <=> step = 4
          /\ c = "marker" <=> step = 12
      BY <3>2, <3>4, NbAt
    <3>6. step = 3 => (ans.val = MARKER <=> dsp'.marker)
      BY <2>3, <2>5, <3>5
    <3>7. NbPipe'
      BY <2>1, <2>3, <3>3, <3>4, <3>6 DEF NbPipe
    <3>8. /\ dsp'.inits = IF step = 4 THEN dsp.inits + 1 ELSE dsp.inits
          /\ dsp'.marker <=> dsp.marker \/ step = 12
      BY <2>5, <3>1, <3>5
    <3>9. NbOnce'
      BY <2>1, <3>2, <3>3, <3>4, <3>8 DEF NbOnce, NbActive, NbAnswered
    <3>10. QED
      BY <3>7, <3>9
  <2>9. ASSUME ~mixed PROVE NbTurns' /\ NbBehind'
    <3>1. NbTurns /\ NbBehind /\ step \in 1..14
      BY <1>0, <2>9 DEF NbTypes
    <3>2. phase = "wait" /\ cmdq = <<Script[step]>> /\ sockq = <<>>
      BY <2>1, <3>1 DEF NbTurns
    <3>3. c = Script[step] /\ cmdq' = <<>>
      BY <2>1, <3>2
    <3>4. sockq' = IF heard THEN <<ans>> ELSE <<>>
      BY <2>1, <3>2
    <3>5. heard /\ step \in 4..11 => Script[step] \in dsp'.done
      BY <2>1, <2>5, <3>1, <3>3, NbSetUp
    <3>6. ans.val = MARKER => dsp'.marker
      BY <2>3, <2>5
    <3>7. NbTurns'
      <4>1. CASE heard
        BY <2>1, <2>3, <3>2, <3>3, <3>4, <3>5, <3>6, <4>1 DEF NbTurns
      <4>2. CASE ~heard
        BY <3>3, <3>4, <4>2 DEF NbTurns
      <4>3. QED
        BY <4>1, <4>2
    <3>8. dsp.done \subseteq dsp'.done
      BY <2>5
    <3>9. \A j \in 4..11 : j < step => Script[j] \in dsp'.done
      BY <3>1, <3>2, <3>8 DEF NbBehind, NbActive
    <3>10. dsp'.marker => SetUp \subseteq dsp'.done
      <4>1. CASE dsp.marker
        BY <3>1, <3>8, <4>1 DEF NbBehind
      <4>2. CASE c = "marker"
        <5>1. step = 12
          BY <3>1, <3>3, <4>2, NbAt
        <5>2. \A j \in 4..11 : Script[j] \in dsp'.done
          BY <3>9, <5>1
        <5>3. QED
          BY <5>2, NbSetUp
      <4>3. QED
        BY <2>5, <4>1, <4>2
    <3>11. NbBehind'
      BY <2>1, <3>2, <3>9, <3>10 DEF NbBehind
    <3>12. QED
      BY <3>7, <3>11
  <2>10. QED
    BY <2>1, <2>4, <2>6, <2>8, <2>9 DEF NbInv
<1>7. CASE UNCHANGED nbVars
  <2>1. UNCHANGED <<step, phase, cmdq, sockq, dsp, runs, strays, clean, mixed>>
    BY <1>7 DEF nbVars
  <2>2. NbTypes'
    BY <1>0, <2>1 DEF NbTypes
  <2>3. NbFlags'
    BY <1>0, <2>1 DEF NbFlags
  <2>4. clean => NbPipe' /\ NbOnce'
    BY <1>0, <2>1 DEF NbPipe, NbOnce, NbActive, NbAnswered
  <2>5. ~mixed => NbTurns' /\ NbBehind'
    BY <1>0, <2>1 DEF NbTurns, NbBehind, NbActive
  <2>6. QED
    BY <2>1, <2>2, <2>3, <2>4, <2>5 DEF NbInv
<1>8. QED
  BY <1>1, <1>2, <1>3, <1>4, <1>5, <1>6, <1>7 DEF NbNext

\* However often the program is started again, PLLs and DDR are set up at
\* most once while no message is lost or unasked and no program is killed
\* between the first PLL and the marker (main(), netboot.c).
THEOREM PllsSetUpOnce == NbSpec => []InitOnceWhenClean
<1>1. NbInv => InitOnceWhenClean
  <2> SUFFICES ASSUME NbInv, clean PROVE dsp.inits <= 1
    BY DEF InitOnceWhenClean, InitOnce
  <2>1. NbOnce
    BY DEF NbInv
  <2>2. QED
    BY <2>1 DEF NbOnce
<1>2. QED
  BY NbInitInv, NbStepInv, <1>1, PTL DEF NbSpec

\* Whatever is lost, fails to be sent or is killed, for any number of starts:
\* as long as nothing comes unasked and no command outlives its program,
\* every message is the answer to the command being waited for, and a marker
\* or a load stands for all eight commands that set the MSP up having been
\* carried out (main(), netboot.c).
THEOREM BootsAlwaysInStep == NbSpec => []BootsInStep
<1>1. NbInv => BootsInStep
  <2> SUFFICES ASSUME NbInv PROVE BootsInStep
    OBVIOUS
  <2>1. NbTypes /\ NbFlags /\ (~mixed => NbTurns /\ NbBehind)
    BY DEF NbInv
  <2>2. step \in DOMAIN Script
    BY <2>1, NbScript DEF NbTypes
  <2>3. NbTypeOK
    BY <2>1, <2>2, Zenon DEF NbTypes, NbFlags, NbTypeOK, NbMsgs
  <2>4. ASSUME ~mixed, NEW i \in DOMAIN sockq
        PROVE  phase = "wait" /\ sockq[i].of = Script[step]
    BY <2>1, <2>4 DEF NbTurns
  <2>5. QED
    BY <2>1, <2>3, <2>4 DEF BootsInStep, NbBehind
<1>2. QED
  BY NbInitInv, NbStepInv, <1>1, PTL DEF NbSpec

-----------------------------------------------------------------------------
(* The loader                                                              *)

\* The images that make sense: their sections do not overlap and lie in the
\* memory.
LdSane ==
  \A g \in Images :
    /\ \A s \in Sections(g) : Section(g, s).dst + Section(g, s).size <= Memory
    /\ \A s, t \in Sections(g) : s # t => Addresses(g, s) \cap Addresses(g, t) = {}

\* Of section s the first n bytes are there (of one that is cleared, what the
\* first write covers).
LdThere(s, n) ==
  LET x == Section(img, s) IN
  \A a \in Addresses(img, s) :
    (IF x.src THEN a < x.dst + n ELSE n > 0 /\ a < x.dst + CHUNK)
      => mem[a] = Byte(img, s, a - x.dst)

\* The type invariant by kinds of state.
LdPlace ==
  /\ img \in Images
  /\ sec \in {0} \cup Sections(img)
  /\ ld \in {"check", "copy", "wait", "ok", "error"}
  /\ cut \subseteq Nat /\ past \subseteq Sections(img)
  /\ off \in Int /\ off >= -1 /\ off <= Memory
LdCounts == fails \in Nat /\ ldBox \in Nat /\ ldOdd \subseteq {"lost", "unasked"}
LdMem == mem \in [0 .. Memory - 1 -> Nat \X Nat]

\* Nothing has come unasked.
LdAsked == "unasked" \notin ldOdd

\* A write lies in its section.
LdFits(w) ==
  /\ w.s \in Sections(img) /\ w.n >= 1
  /\ w.i + w.n <= Section(img, w.s).size
LdAirOk == ldAir \in Seq(LdWrites) /\ \A j \in DOMAIN ldAir : LdFits(ldAir[j])

\* The write of the loop's current turn.
LdHere == [s |-> sec, i |-> off, n |-> ChunkLen(Section(img, sec))]

\* The loop is inside its section and has brought what is before its place.
LdCopies ==
  ld \in {"copy", "wait"} =>
    /\ sec \in Sections(img) /\ off >= 0 /\ off < Section(img, sec).size
    /\ LdAsked => LdThere(sec, off)

\* A write is under way, or its answer has come and its bytes are there, or
\* one of the two is lost.
LdPipe ==
  LdAsked =>
    IF ld = "wait"
    THEN \/ ldAir = <<LdHere>> /\ ldBox = 0
         \/ ldAir = <<>> /\ ldBox = 0
         \/ /\ ldAir = <<>> /\ ldBox = 1
            /\ LdThere(sec, off + ChunkLen(Section(img, sec)))
    ELSE ldAir = <<>> /\ ldBox = 0

\* The sections that have been gone through are there, unless their first
\* write failed.
LdDone == LdAsked => \A s \in past : s \notin cut => LdThere(s, Section(img, s).size)

\* They are the chain from the first section to the current one, at whose
\* end the image is reported loaded.
LdChain ==
  /\ 1 \in past \cup {sec}
  /\ \A s \in past : After(img, s) \in past \cup {sec}
  /\ ld = "ok" => sec = 0

\* The inductive invariant of the loader.
LdInv ==
  /\ LdPlace /\ LdCounts /\ LdMem /\ LdAirOk
  /\ LdCopies /\ LdPipe /\ LdDone /\ LdChain /\ StaysInside

\* The arguments of check_and_load() are numbers, for every part of an image.
LEMMA LdSectionType ==
  ASSUME NEW g \in Images, NEW s \in Sections(g)
  PROVE  Section(g, s) \in LdRegions
<1>1. g \in LdImages
  BY LdAssumption
<1>2. /\ g.image_base \in Nat /\ g.data_base \in Nat /\ g.ro \in Nat /\ g.rw \in Nat
      /\ g.zi \in Nat /\ g.regions \in Seq(LdRegions)
  BY <1>1 DEF LdImages
<1>3. g.roFits \in BOOLEAN /\ g.rwFits \in BOOLEAN
  BY <1>1 DEF LdImages
<1>4. DataBase(g) \in Nat
  BY <1>2 DEF DataBase
<1>5. CASE s = 1
  BY <1>2, <1>3, <1>5 DEF Section, LdRegions
<1>6. CASE s = 2
  BY <1>2, <1>3, <1>4, <1>6 DEF Section, LdRegions
<1>7. CASE s = 3
  BY <1>2, <1>3, <1>4, <1>7 DEF Section, LdRegions
<1>8. CASE s \notin {1, 2, 3}
  <2>1. s - 3 \in 1..Len(g.regions)
    BY <1>2, <1>8 DEF Sections
  <2>2. QED
    BY <1>2, <1>8, <2>1 DEF Section
<1>9. QED
  BY <1>5, <1>6, <1>7, <1>8

\* The chain leads from section to section.
LEMMA LdAfterType ==
  ASSUME NEW g \in Images, NEW s \in Sections(g)
  PROVE  After(g, s) \in {0} \cup Sections(g)
<1>1. /\ Len(g.regions) \in Nat /\ g.first \in 0 .. Len(g.regions)
      /\ \A i \in 1 .. Len(g.regions) : g.next[i] \in 0 .. Len(g.regions)
  BY LdAssumption DEF LdImages
<1>2. s \in 1 .. 3 + Len(g.regions)
  BY DEF Sections
<1>3. CASE s \in 1 .. 2
  BY <1>1, <1>3 DEF After, Sections
<1>4. CASE s = 3
  BY <1>1, <1>4 DEF After, Sections
<1>5. CASE s > 3
  <2>1. s - 3 \in 1 .. Len(g.regions)
    BY <1>1, <1>2, <1>5
  <2>2. g.next[s - 3] \in 0 .. Len(g.regions)
    BY <1>1, <2>1
  <2>3. After(g, s) = IF g.next[s - 3] = 0 THEN 0 ELSE 3 + g.next[s - 3]
    BY <1>2, <1>5 DEF After
  <2>4. QED
    BY <1>1, <2>2, <2>3 DEF Sections
<1>6. QED
  BY <1>1, <1>2, <1>3, <1>4, <1>5

\* The invariant holds before the first section.
LEMMA LdInitInv == LdInit => LdInv
<1> SUFFICES ASSUME LdInit PROVE LdInv
  OBVIOUS
<1>1. img \in Images /\ Len(img.regions) \in Nat
  BY LdAssumption DEF LdInit, LdImages
<1>2. LdPlace
  BY <1>1, LdAssumption DEF LdInit, LdPlace, Sections
<1>3. LdMem
  BY DEF LdInit, LdMem, NoByte
<1>4. LdCounts /\ LdAirOk
  BY DEF LdInit, LdCounts, LdAirOk
<1>5. LdCopies /\ LdPipe /\ LdDone /\ LdChain
  BY DEF LdInit, LdCopies, LdPipe, LdDone, LdChain
<1>6. StaysInside
  BY DEF LdInit, StaysInside
<1>7. QED
  BY <1>2, <1>3, <1>4, <1>5, <1>6 DEF LdInv

\* What is there stays there as long as nothing is written.
LEMMA LdKeeps ==
  ASSUME UNCHANGED <<img, mem>>
  PROVE  /\ \A s, n : LdThere(s, n)' <=> LdThere(s, n)
         /\ StaysInside' <=> StaysInside
         /\ LdMem' <=> LdMem
  BY DEF LdThere, StaysInside, LdMem

\* A part of what is there is there.
LEMMA LdThereLess ==
  ASSUME NEW s, NEW n \in Int, NEW k \in Int, k <= n, LdThere(s, n),
         Section(img, s) \in LdRegions
  PROVE  LdThere(s, k)
<1> DEFINE x == Section(img, s)
<1>1. x.dst \in Nat /\ x.size \in Nat
  BY DEF LdRegions
<1>2. ASSUME NEW a \in Addresses(img, s),
             IF x.src THEN a < x.dst + k ELSE k > 0 /\ a < x.dst + CHUNK
      PROVE  mem[a] = Byte(img, s, a - x.dst)
  <2>1. a \in Int
    BY <1>1 DEF Addresses
  <2>2. IF x.src THEN a < x.dst + n ELSE n > 0 /\ a < x.dst + CHUNK
    BY <1>1, <1>2, <2>1
  <2>3. QED
    BY <2>2 DEF LdThere
<1>3. QED
  BY <1>2 DEF LdThere

\* The numbers of a turn of the loop.
LEMMA LdTurnType ==
  ASSUME LdInv, LdSane, ld \in {"copy", "wait"}
  PROVE  /\ sec \in Sections(img) /\ sec \in Nat /\ off \in Nat
         /\ Section(img, sec) \in LdRegions
         /\ off < Section(img, sec).size /\ Section(img, sec).size <= Memory
         /\ ChunkLen(Section(img, sec)) \in Nat /\ ChunkLen(Section(img, sec)) >= 1
         /\ off + ChunkLen(Section(img, sec)) <= Section(img, sec).size
         /\ off = 0 => ChunkLen(Section(img, sec)) \in {CHUNK, Section(img, sec).size}
         /\ LdAsked => LdThere(sec, off)
<1> DEFINE s == Section(img, sec)
<1>1. /\ img \in Images /\ sec \in Sections(img) /\ off \in Int /\ off >= 0 /\ off < s.size
      /\ LdAsked => LdThere(sec, off)
  BY DEF LdInv, LdPlace, LdCopies
<1>2. s \in LdRegions
  BY <1>1, LdSectionType
<1>3. s.dst \in Nat /\ s.size \in Nat /\ s.dst + s.size <= Memory
  BY <1>1, <1>2 DEF LdRegions, LdSane
<1>4. s.size <= Memory
  BY <1>3, LdAssumption
<1>5. sec \in Nat
  BY <1>1, LdAssumption DEF Sections, LdImages
<1> HIDE DEF s
<1>6. ChunkLen(s) \in Nat /\ ChunkLen(s) >= 1 /\ off + ChunkLen(s) <= s.size
      /\ (off = 0 => ChunkLen(s) \in {CHUNK, s.size})
  BY <1>1, <1>3, LdAssumption DEF ChunkLen
<1>7. QED
  BY <1>1, <1>2, <1>4, <1>5, <1>6 DEF s

\* The checks between two sections preserve the invariant.
LEMMA LdSectionStep ==
  ASSUME LdInv, LdSane, LoadSection
  PROVE  LdInv'
<1>0. /\ LdPlace /\ LdCounts /\ LdMem /\ LdAirOk
      /\ LdCopies /\ LdPipe /\ LdDone /\ LdChain /\ StaysInside
  BY DEF LdInv
<1>1. ld = "check" /\ UNCHANGED <<img, mem, fails, cut, ldAir, ldBox, ldOdd>>
  BY DEF LoadSection
<1>2. LdMem' /\ StaysInside' /\ LdCounts' /\ (LdAsked' <=> LdAsked)
  BY <1>0, <1>1, LdKeeps DEF LdCounts, LdAsked
<1>3. LdAirOk'
  BY <1>0, <1>1 DEF LdAirOk, LdFits
<1>4. \/ sec = 0 /\ ld' = "ok" /\ UNCHANGED <<sec, off, past>>
      \/ sec # 0 /\ ld' = "error" /\ UNCHANGED <<sec, past>> /\ (off' = off \/ off' = 0)
      \/ /\ sec # 0 /\ Section(img, sec).size = 0
         /\ sec' = After(img, sec) /\ past' = past \cup {sec} /\ UNCHANGED <<ld, off>>
      \/ /\ sec # 0 /\ Section(img, sec).size # 0
         /\ ld' = "copy" /\ off' = 0 /\ UNCHANGED <<sec, past>>
  BY DEF LoadSection, MoveOn
<1>p. LdPipe'
  BY <1>0, <1>1, <1>2, <1>4 DEF LdPipe
<1>5. CASE /\ ld' \in {"ok", "error"} /\ (ld' = "ok" => sec = 0)
           /\ UNCHANGED <<sec, past>> /\ (off' = off \/ off' = 0)
  <2>1. LdPlace'
    BY <1>0, <1>1, <1>5, LdAssumption DEF LdPlace
  <2>2. LdCopies' /\ LdChain'
    BY <1>0, <1>1, <1>5 DEF LdCopies, LdChain
  <2>3. LdDone'
    BY <1>0, <1>1, <1>2, <1>5, LdKeeps DEF LdDone
  <2>4. QED
    BY <1>2, <1>3, <1>p, <2>1, <2>2, <2>3 DEF LdInv
<1>7. CASE /\ sec # 0 /\ Section(img, sec).size = 0
           /\ sec' = After(img, sec) /\ past' = past \cup {sec} /\ UNCHANGED <<ld, off>>
  <2>0. sec \in Sections(img) /\ sec' \in {0} \cup Sections(img)
    BY <1>0, <1>7, LdAfterType DEF LdPlace
  <2>1. LdPlace'
    BY <1>0, <1>1, <1>7, <2>0 DEF LdPlace
  <2>2. LdCopies' /\ LdChain'
    BY <1>0, <1>1, <1>7 DEF LdCopies, LdChain
  <2>3. LdThere(sec, Section(img, sec).size)
    <3>1. Addresses(img, sec) = {}
      BY <1>0, <1>7, <2>0, LdSectionType DEF Addresses, LdRegions, LdPlace
    <3>2. QED
      BY <3>1 DEF LdThere
  <2>4. LdDone'
    BY <1>0, <1>1, <1>2, <1>7, <2>3, LdKeeps DEF LdDone
  <2>5. QED
    BY <1>2, <1>3, <1>p, <2>1, <2>2, <2>4 DEF LdInv
<1>8. CASE /\ sec # 0 /\ Section(img, sec).size # 0
           /\ ld' = "copy" /\ off' = 0 /\ UNCHANGED <<sec, past>>
  <2>0. img \in Images /\ sec \in Sections(img)
    BY <1>0, <1>8 DEF LdPlace
  <2>1. Section(img, sec) \in LdRegions
    BY <2>0, LdSectionType
  <2>2. LdPlace' /\ LdChain'
    BY <1>0, <1>1, <1>8, LdAssumption DEF LdPlace, LdChain
  <2>3. LdThere(sec, 0)
    BY <2>1 DEF LdThere, Addresses, LdRegions
  <2>4. LdThere(sec, 0)'
    BY <1>1, <1>8, <2>3 DEF LdThere
  <2>5. LdCopies'
    BY <1>1, <1>8, <2>0, <2>1, <2>4 DEF LdCopies, LdRegions
  <2>6. LdDone'
    BY <1>0, <1>1, <1>2, <1>8, LdKeeps DEF LdDone
  <2>7. QED
    BY <1>2, <1>3, <1>p, <2>2, <2>5, <2>6 DEF LdInv
<1>9. QED
  BY <1>4, <1>5, <1>7, <1>8

\* The end of a turn of the loop in check_and_load(), whether its write was
\* answered or could not be sent: then it steps back by one byte, which is
\* written again.
LEMMA LdTurn ==
  ASSUME LdInv, LdSane, ld \in {"copy", "wait"}, UNCHANGED <<img, mem, ldOdd>>,
         NEW ret \in {-1, ChunkLen(Section(img, sec))}, Turn(ret),
         LdAsked /\ ret # -1 => LdThere(sec, off + ret)
  PROVE  LdPlace' /\ LdCopies' /\ LdDone' /\ LdChain' /\ ld' \in {"copy", "check"}
<1>0. LdPlace /\ LdDone /\ LdChain
  BY DEF LdInv
<1> DEFINE s == Section(img, sec)
<1>1. /\ sec \in Sections(img) /\ sec \in Nat /\ off \in Nat /\ s \in LdRegions
      /\ off < s.size /\ s.size <= Memory
      /\ ChunkLen(s) \in Nat /\ ChunkLen(s) >= 1 /\ off + ChunkLen(s) <= s.size
      /\ LdAsked => LdThere(sec, off)
  BY LdTurnType
<1>2. /\ off' = off + ret
      /\ cut' = IF off' = -1 THEN cut \cup {sec} ELSE cut
      /\ IF More(off', s) THEN ld' = "copy" /\ UNCHANGED <<sec, past>>
         ELSE ld' = "check" /\ sec' = After(img, sec) /\ past' = past \cup {sec}
  BY DEF Turn, Advance, MoveOn
<1>3. s.size \in Nat /\ (LdAsked' <=> LdAsked)
  BY <1>1 DEF LdRegions, LdAsked
<1>4. off' \in Int /\ off' >= -1 /\ off' <= s.size
  BY <1>1, <1>2, <1>3
<1>5. ASSUME LdAsked, off' # -1 PROVE LdThere(sec, off')
  <2>1. CASE ret = -1
    <3>1. off' \in Int /\ off' <= off
      BY <1>1, <1>2, <2>1
    <3>2. QED
      BY <1>1, <1>5, <3>1, LdThereLess
  <2>2. CASE ret # -1
    BY <1>2, <1>5, <2>2
  <2>3. QED
    BY <2>1, <2>2
<1> HIDE DEF s
<1>6. CASE More(off', s)
  <2>1. /\ ld' = "copy" /\ UNCHANGED <<sec, past>> /\ off' >= 0 /\ off' < s.size
        /\ cut' = cut
    BY <1>2, <1>4, <1>6 DEF More
  <2>2. LdPlace' /\ LdChain'
    <3>1. off' <= Memory
      BY <1>1, <1>3, <1>4, LdAssumption DEF s
    <3>2. QED
      BY <1>0, <1>1, <1>4, <2>1, <3>1 DEF LdPlace, LdChain
  <2>3. LdAsked => LdThere(sec, off)'
    BY <1>4, <1>5, <2>1 DEF LdThere
  <2>4. LdCopies'
    BY <1>1, <1>3, <2>1, <2>3 DEF LdCopies, s
  <2>5. LdDone'
    BY <1>0, <1>3, <2>1, LdKeeps DEF LdDone
  <2>6. QED
    BY <2>1, <2>2, <2>4, <2>5
<1>7. CASE ~More(off', s)
  <2>1. /\ ld' = "check" /\ sec' = After(img, sec) /\ past' = past \cup {sec}
        /\ (off' = -1 \/ off' = s.size)
    BY <1>2, <1>3, <1>4, <1>7 DEF More
  <2>2. img \in Images /\ sec' \in {0} \cup Sections(img)
    BY <1>0, <1>1, <2>1, LdAfterType DEF LdPlace
  <2>3. cut' \subseteq Nat /\ past' \subseteq Sections(img)
    BY <1>0, <1>1, <1>2, <2>1 DEF LdPlace
  <2>4. LdPlace'
    BY <1>0, <1>1, <1>3, <1>4, <2>1, <2>2, <2>3, LdAssumption DEF LdPlace
  <2>5. LdCopies' /\ LdChain'
    BY <1>0, <1>1, <2>1 DEF LdCopies, LdChain
  <2>6. ASSUME LdAsked, NEW t \in past', t \notin cut'
        PROVE  LdThere(t, Section(img, t).size)
    <3>1. CASE t = sec
      <4>1. off' = s.size
        BY <1>2, <2>1, <2>6, <3>1
      <4>2. LdThere(sec, s.size)
        BY <1>3, <1>5, <2>6, <4>1
      <4>3. QED
        BY <3>1, <4>2 DEF s
    <3>2. CASE t # sec
      BY <1>0, <1>2, <2>1, <2>6, <3>2 DEF LdDone
    <3>3. QED
      BY <3>1, <3>2
  <2>7. LdDone'
    BY <1>3, <2>6, LdKeeps DEF LdDone
  <2>8. QED
    BY <2>1, <2>4, <2>5, <2>7
<1>8. QED
  BY <1>6, <1>7

\* Sending a write, or failing to, preserves the invariant.
LEMMA LdSendStep ==
  ASSUME LdInv, LdSane, check_and_load
  PROVE  LdInv'
<1>0. /\ LdPlace /\ LdCounts /\ LdMem /\ LdAirOk
      /\ LdCopies /\ LdPipe /\ LdDone /\ LdChain /\ StaysInside
  BY DEF LdInv
<1>1. ld = "copy" /\ UNCHANGED <<img, mem, ldBox, ldOdd>>
  BY DEF check_and_load
<1>2. LdMem' /\ StaysInside' /\ (LdAsked' <=> LdAsked)
  BY <1>0, <1>1, LdKeeps DEF LdAsked
<1>3. CASE fails' = fails + 1 /\ Turn(-1) /\ UNCHANGED ldAir
  <2>1. LdPlace' /\ LdCopies' /\ LdDone' /\ LdChain' /\ ld' \in {"copy", "check"}
    BY <1>1, <1>3, LdTurn
  <2>2. LdCounts' /\ LdAirOk'
    BY <1>0, <1>1, <1>3 DEF LdCounts, LdAirOk, LdFits
  <2>3. LdPipe'
    BY <1>0, <1>1, <1>2, <1>3, <2>1 DEF LdPipe
  <2>4. QED
    BY <1>2, <2>1, <2>2, <2>3 DEF LdInv
<1>4. CASE /\ ldAir' = Append(ldAir, LdHere) /\ ld' = "wait"
           /\ UNCHANGED <<sec, off, fails, cut, past>>
  <2>1. /\ sec \in Sections(img) /\ sec \in Nat /\ off \in Nat
        /\ ChunkLen(Section(img, sec)) \in Nat /\ ChunkLen(Section(img, sec)) >= 1
        /\ off + ChunkLen(Section(img, sec)) <= Section(img, sec).size
    BY <1>1, LdTurnType
  <2>2. LdHere \in LdWrites /\ LdFits(LdHere)
    BY <2>1 DEF LdHere, LdWrites, LdFits
  <2>3. LdAirOk'
    <3>1. ldAir' \in Seq(LdWrites)
      BY <1>0, <1>4, <2>2 DEF LdAirOk
    <3>2. ASSUME NEW j \in DOMAIN ldAir' PROVE LdFits(ldAir'[j])
      BY <1>0, <1>4, <2>2 DEF LdAirOk
    <3>3. QED
      BY <1>1, <3>1, <3>2 DEF LdAirOk, LdFits
  <2>4. LdPlace' /\ LdCounts' /\ LdChain'
    BY <1>0, <1>1, <1>4 DEF LdPlace, LdCounts, LdChain
  <2>5. LdCopies' /\ LdDone'
    BY <1>0, <1>1, <1>2, <1>4, LdKeeps DEF LdCopies, LdDone
  <2>6. LdHere' = LdHere
    BY <1>1, <1>4 DEF LdHere, ChunkLen
  <2>7. LdAsked => ldAir' = <<LdHere>> /\ ldBox' = 0
    BY <1>0, <1>1, <1>4 DEF LdPipe
  <2>8. LdPipe'
    BY <1>2, <1>4, <2>6, <2>7 DEF LdPipe
  <2>9. QED
    BY <1>2, <2>3, <2>4, <2>5, <2>8 DEF LdInv
<1>5. QED
  BY <1>3, <1>4 DEF check_and_load, LdHere

\* The end of a wait preserves the invariant.
LEMMA LdAnswerStep ==
  ASSUME LdInv, LdSane, write_to_voip
  PROVE  LdInv'
<1>0. /\ LdPlace /\ LdCounts /\ LdMem /\ LdAirOk
      /\ LdCopies /\ LdPipe /\ LdDone /\ LdChain /\ StaysInside
  BY DEF LdInv
<1>1. /\ ld = "wait" /\ ldBox > 0 /\ ldBox' = ldBox - 1
      /\ Turn(ChunkLen(Section(img, sec)))
      /\ UNCHANGED <<img, mem, fails, ldAir, ldOdd>>
  BY DEF write_to_voip
<1>2. LdMem' /\ StaysInside' /\ (LdAsked' <=> LdAsked)
  BY <1>0, <1>1, LdKeeps DEF LdAsked
<1>3. LdAsked => /\ ldAir = <<>> /\ ldBox = 1
                 /\ LdThere(sec, off + ChunkLen(Section(img, sec)))
  BY <1>0, <1>1 DEF LdPipe
<1>4. LdPlace' /\ LdCopies' /\ LdDone' /\ LdChain' /\ ld' \in {"copy", "check"}
  BY <1>1, <1>3, LdTurn
<1>5. LdCounts' /\ LdAirOk'
  BY <1>0, <1>1 DEF LdCounts, LdAirOk, LdFits
<1>6. LdPipe'
  BY <1>1, <1>2, <1>3, <1>4 DEF LdPipe
<1>7. QED
  BY <1>2, <1>4, <1>5, <1>6 DEF LdInv

\* The MSP's write, its loss and the loss of its answer preserve the
\* invariant: a write that reaches the MSP, even one nobody waits for any
\* more, only brings bytes to where they belong.
LEMMA LdMspStep ==
  ASSUME LdInv, LdSane, NEW done \in BOOLEAN, NEW heard \in BOOLEAN, MspWrites(done, heard)
  PROVE  LdInv'
<1>0. /\ LdPlace /\ LdCounts /\ LdMem /\ LdAirOk
      /\ LdCopies /\ LdPipe /\ LdDone /\ LdChain /\ StaysInside
  BY DEF LdInv
<1> DEFINE w == Head(ldAir)
           s == Section(img, w.s)
           at == WriteAt(s, w.i)
<1>1. /\ ldAir # <<>> /\ (heard => done) /\ ldAir' = Tail(ldAir)
      /\ mem' = IF ~done THEN mem
                ELSE [a \in DOMAIN mem |-> IF a \in at .. at + w.n - 1
                                           THEN Byte(img, w.s, w.i + a - at) ELSE mem[a]]
      /\ ldBox' = IF heard THEN ldBox + 1 ELSE ldBox
      /\ ldOdd' = IF heard THEN ldOdd ELSE ldOdd \cup {"lost"}
      /\ UNCHANGED <<img, sec, off, ld, fails, cut, past>>
  BY DEF MspWrites
<1>2. /\ w \in LdWrites /\ LdFits(w) /\ ldAir' \in Seq(LdWrites)
      /\ \A j \in DOMAIN ldAir' : LdFits(ldAir'[j])
  <2>1. ldAir \in Seq(LdWrites) /\ \A j \in DOMAIN ldAir : LdFits(ldAir[j])
    BY <1>0 DEF LdAirOk
  <2>2. Len(ldAir) \in Nat /\ Len(ldAir) >= 1 /\ w = ldAir[1] /\ DOMAIN ldAir = 1..Len(ldAir)
    BY <1>1, <2>1
  <2>3. /\ DOMAIN ldAir' = 1..(Len(ldAir) - 1) /\ ldAir' \in Seq(LdWrites)
        /\ \A j \in 1..(Len(ldAir) - 1) : ldAir'[j] = ldAir[j + 1]
    BY <1>1, <2>1, <2>2
  <2>4. 1 \in DOMAIN ldAir /\ ldAir[1] \in LdWrites
    BY <2>1, <2>2
  <2>5. ASSUME NEW j \in DOMAIN ldAir' PROVE LdFits(ldAir'[j])
    <3>1. ldAir'[j] = ldAir[j + 1] /\ j + 1 \in DOMAIN ldAir
      BY <2>2, <2>3
    <3>2. QED
      BY <2>1, <3>1
  <2>6. QED
    BY <2>1, <2>2, <2>3, <2>4, <2>5
<1>3. /\ w.s \in Sections(img) /\ w.s \in Nat /\ w.i \in Nat /\ w.n \in Nat /\ w.n >= 1
      /\ w.i + w.n <= s.size /\ img \in Images
  BY <1>0, <1>2 DEF LdWrites, LdFits, LdPlace
<1>4. s.dst \in Nat /\ s.size \in Nat /\ s.src \in BOOLEAN /\ s.dst + s.size <= Memory
  <2>1. s \in LdRegions
    BY <1>3, LdSectionType
  <2>2. QED
    BY <1>3, <2>1 DEF LdRegions, LdSane
<1>5. at \in Nat /\ at >= s.dst /\ at + w.n <= s.dst + s.size
      /\ (s.src => at = s.dst + w.i) /\ (~s.src => at = s.dst)
  BY <1>3, <1>4 DEF WriteAt
<1>6. Memory \in Nat
  BY LdAssumption
<1>7. ASSUME NEW a \in at .. at + w.n - 1
      PROVE  /\ a \in Addresses(img, w.s) /\ a \in 0 .. Memory - 1
             /\ Byte(img, w.s, w.i + a - at) = Byte(img, w.s, a - s.dst)
             /\ Byte(img, w.s, w.i + a - at) \in Nat \X Nat
  <2> HIDE DEF w, s, at
  <2>1. a \in s.dst .. s.dst + s.size - 1 /\ a \in 0 .. Memory - 1
    BY <1>3, <1>4, <1>5, <1>6
  <2>2. a \in Addresses(img, w.s)
    BY <2>1 DEF Addresses, s
  <2>3. s.src => w.i + a - at = a - s.dst
    BY <1>3, <1>4, <1>5, <2>1
  <2>4. w.i + a - at \in Nat
    BY <1>3, <1>5
  <2>5. QED
    BY <1>3, <2>1, <2>2, <2>3, <2>4 DEF Byte, ZeroByte, s
<1> HIDE DEF w, s, at
<1>8. IF done THEN mem' = [a \in 0 .. Memory - 1 |->
                            IF a \in at .. at + w.n - 1 THEN Byte(img, w.s, w.i + a - at)
                            ELSE mem[a]]
      ELSE mem' = mem
  BY <1>0, <1>1 DEF LdMem
<1>9. LdMem'
  BY <1>0, <1>7, <1>8 DEF LdMem
<1>10. \A a \in 0 .. Memory - 1 :
         \/ mem'[a] = mem[a]
         \/ a \in Addresses(img, w.s) /\ mem'[a] = Byte(img, w.s, a - s.dst)
  BY <1>7, <1>8
<1>11. StaysInside'
  <2>1. DOMAIN mem' = 0 .. Memory - 1 /\ DOMAIN mem = 0 .. Memory - 1
    BY <1>0, <1>9 DEF LdMem
  <2>2. ASSUME NEW a \in DOMAIN mem', mem'[a] # NoByte
        PROVE  \E t \in Sections(img) : /\ a \in Addresses(img, t)
                                        /\ mem'[a] = Byte(img, t, a - Section(img, t).dst)
    BY <1>0, <1>3, <1>10, <2>1, <2>2 DEF StaysInside, s
  <2>3. QED
    BY <1>1, <2>2 DEF StaysInside
<1>12. ASSUME NEW t \in Sections(img), NEW a \in Addresses(img, t)
       PROVE  mem'[a] = mem[a] \/ mem'[a] = Byte(img, t, a - Section(img, t).dst)
  <2>1. CASE t = w.s
    <3>1. a \in 0 .. Memory - 1
      BY <1>4, <1>6, <1>12, <2>1 DEF Addresses, s
    <3>2. QED
      BY <1>10, <2>1, <3>1 DEF s
  <2>2. CASE t # w.s
    <3>1. a \notin Addresses(img, w.s)
      BY <1>3, <1>12, <2>2 DEF LdSane
    <3>2. Section(img, t) \in LdRegions /\ Section(img, t).dst + Section(img, t).size <= Memory
      BY <1>3, LdSectionType DEF LdSane
    <3>3. a \in 0 .. Memory - 1
      BY <1>6, <1>12, <3>2 DEF Addresses, LdRegions
    <3>4. QED
      BY <1>10, <3>1, <3>3
  <2>3. QED
    BY <2>1, <2>2
<1>13. LdPlace' /\ LdCounts' /\ LdChain' /\ LdAirOk' /\ (LdAsked' <=> LdAsked)
  <2>1. LdPlace' /\ LdCounts' /\ LdChain'
    BY <1>0, <1>1 DEF LdPlace, LdCounts, LdChain
  <2>2. LdAirOk' /\ (LdAsked' <=> LdAsked)
    BY <1>1, <1>2 DEF LdAirOk, LdFits, LdAsked
  <2>3. QED
    BY <2>1, <2>2
<1>14. LdCopies'
  <2> SUFFICES ASSUME ld \in {"copy", "wait"} PROVE LdCopies'
    BY <1>1 DEF LdCopies
  <2>1. sec \in Sections(img) /\ (LdAsked => LdThere(sec, off))
    BY <1>0 DEF LdCopies
  <2>2. ASSUME LdAsked PROVE LdThere(sec, off)'
    <3>1. LdThere(sec, off) /\ sec \in Sections(img)
      BY <2>1, <2>2
    <3>2. \A a \in Addresses(img, sec) :
            mem'[a] = mem[a] \/ mem'[a] = Byte(img, sec, a - Section(img, sec).dst)
      BY <1>12, <3>1
    <3>3. QED
      BY <1>1, <3>1, <3>2 DEF LdThere
  <2>3. QED
    BY <1>0, <1>1, <1>13, <2>2 DEF LdCopies
<1>15. LdDone'
  <2>1. ASSUME LdAsked, NEW t \in past, t \notin cut PROVE LdThere(t, Section(img, t).size)'
    <3>1. t \in Sections(img) /\ LdThere(t, Section(img, t).size)
      BY <1>0, <2>1 DEF LdPlace, LdDone
    <3>2. \A a \in Addresses(img, t) :
            mem'[a] = mem[a] \/ mem'[a] = Byte(img, t, a - Section(img, t).dst)
      BY <1>12, <3>1
    <3>3. QED
      BY <1>1, <3>1, <3>2 DEF LdThere
  <2>2. QED
    BY <1>1, <1>13, <2>1 DEF LdDone
<1>16. LdPipe'
  <2> SUFFICES ASSUME LdAsked PROVE LdPipe'
    BY <1>13 DEF LdPipe
  <2>1. ld = "wait" /\ ldAir = <<LdHere>> /\ ldBox = 0
    BY <1>0, <1>1 DEF LdPipe
  <2>2. w = LdHere /\ ldAir' = <<>> /\ ld' = "wait"
    BY <1>1, <2>1 DEF w
  <2>3. CASE ~heard
    BY <1>1, <2>1, <2>2, <2>3 DEF LdPipe
  <2>4. CASE heard
    <3> DEFINE len == ChunkLen(Section(img, sec))
    <3>1. w.s = sec /\ w.i = off /\ w.n = len /\ s = Section(img, sec)
      BY <2>2 DEF LdHere, s
    <3>2. /\ LdThere(sec, off) /\ off \in Nat /\ len \in Nat
          /\ off = 0 => len \in {CHUNK, s.size}
      BY <2>1, <3>1, LdTurnType
    <3>3. done /\ ldBox' = 1
      BY <1>1, <2>1, <2>4
    <3> HIDE DEF len
    <3>4. ASSUME NEW a \in Addresses(img, sec),
                 IF s.src THEN a < s.dst + (off + len) ELSE off + len > 0 /\ a < s.dst + CHUNK
          PROVE  mem'[a] = Byte(img, sec, a - s.dst)
      <4>1. a \in Int /\ s.dst <= a /\ a < s.dst + s.size /\ a \in 0 .. Memory - 1
        BY <1>4, <1>6, <3>1 DEF Addresses
      <4>2. CASE a \in at .. at + w.n - 1
        BY <1>7, <1>8, <3>1, <3>3, <4>1, <4>2
      <4>3. CASE a \notin at .. at + w.n - 1
        <5>1. IF s.src THEN a < s.dst + off ELSE off > 0 /\ a < s.dst + CHUNK
          BY <1>4, <1>5, <3>1, <3>2, <3>4, <4>1, <4>3, LdAssumption
        <5>2. mem[a] = Byte(img, sec, a - s.dst)
          BY <3>1, <3>2, <5>1 DEF LdThere
        <5>3. QED
          BY <1>10, <3>1, <4>1, <5>2
      <4>4. QED
        BY <4>2, <4>3
    <3>5. LdThere(sec, off + len)'
      BY <1>1, <3>1, <3>4 DEF LdThere, len, ChunkLen
    <3>6. QED
      BY <1>1, <2>2, <3>3, <3>5 DEF LdPipe, len
  <2>5. QED
    BY <2>3, <2>4
<1>17. QED
  BY <1>9, <1>11, <1>13, <1>14, <1>15, <1>16 DEF LdInv

\* Every step of the loader preserves the invariant.
LEMMA LdStepInv ==
  ASSUME LdSane, LdInv, [LdNext]_ldVars
  PROVE  LdInv'
<1>0. /\ LdPlace /\ LdCounts /\ LdMem /\ LdAirOk
      /\ LdCopies /\ LdPipe /\ LdDone /\ LdChain /\ StaysInside
  BY DEF LdInv
<1>1. CASE UNCHANGED ldVars
  <2>1. UNCHANGED <<img, sec, off, ld, mem, fails, cut, past, ldAir, ldBox, ldOdd>>
    BY <1>1 DEF ldVars
  <2>2. LdPlace' /\ LdCounts' /\ LdChain' /\ LdAirOk'
    BY <1>0, <2>1 DEF LdPlace, LdCounts, LdChain, LdAirOk, LdFits
  <2>3. (LdAsked' <=> LdAsked) /\ LdHere' = LdHere
    BY <2>1 DEF LdAsked, LdHere, ChunkLen
  <2>4. LdCopies' /\ LdDone'
    BY <1>0, <2>1, <2>3, LdKeeps DEF LdCopies, LdDone
  <2>5. LdPipe'
    BY <1>0, <2>1, <2>3, LdKeeps DEF LdPipe, ChunkLen
  <2>6. QED
    BY <1>0, <2>1, <2>2, <2>4, <2>5, LdKeeps DEF LdInv
<1>2. CASE Unasked
  <2>1. /\ ldBox' \in ldBox + 1 .. ldBox + MaxUnasked
        /\ ldOdd' = ldOdd \cup {"unasked"}
        /\ UNCHANGED <<img, sec, off, ld, mem, fails, cut, past, ldAir>>
    BY <1>2 DEF Unasked
  <2>2. ~LdAsked' /\ LdCounts'
    BY <1>0, <2>1, LdAssumption DEF LdAsked, LdCounts
  <2>3. LdPlace' /\ LdChain' /\ LdAirOk'
    BY <1>0, <2>1 DEF LdPlace, LdChain, LdAirOk, LdFits
  <2>4. LdCopies' /\ LdDone' /\ LdPipe'
    BY <1>0, <2>1, <2>2 DEF LdCopies, LdDone, LdPipe
  <2>5. QED
    BY <1>0, <2>1, <2>2, <2>3, <2>4, LdKeeps DEF LdInv
<1>3. QED
  BY <1>1, <1>2, LdSectionStep, LdSendStep, LdAnswerStep, LdMspStep DEF LdNext

\* For every image whose sections neither overlap nor leave the memory and
\* every chain of its regions, every size of a write, any number of sends
\* that fail and of writes and answers that are lost: an image that is
\* reported loaded has been gone through to the end of its chain and is in
\* memory byte for byte, but for sections whose first write could not be
\* sent, the zero-init area beyond the first write and what an unasked
\* message was taken for; and nothing is ever written outside the sections
\* (check_and_load(), loadmsp.c; write_to_voip(), netboot.c).
THEOREM ImageLoadedRight == LdSane /\ LdSpec => []LoadedRight
<1> SUFFICES ASSUME LdSane PROVE LdSpec => []LoadedRight
  OBVIOUS
<1>1. LdInv => LoadedRight
  <2> SUFFICES ASSUME LdInv PROVE LoadedRight
    OBVIOUS
  <2>0. LdPlace /\ LdCounts /\ LdMem /\ LdAirOk /\ LdDone /\ LdChain /\ StaysInside
    BY DEF LdInv
  <2>1. off \in -1 .. Memory
    BY <2>0, LdAssumption DEF LdPlace
  <2>2. LdTypeOK
    BY <2>0, <2>1, Zenon DEF LdPlace, LdCounts, LdMem, LdAirOk, LdTypeOK
  <2>3. ASSUME ld = "ok", LdAsked, NEW s \in past \ cut, NEW a \in Addresses(img, s),
               Section(img, s).src \/ a < Section(img, s).dst + CHUNK
        PROVE  mem[a] = Byte(img, s, a - Section(img, s).dst)
    <3>1. s \in Sections(img)
      BY <2>0 DEF LdPlace
    <3>2. LdThere(s, Section(img, s).size)
      BY <2>0, <2>3 DEF LdDone
    <3>3. Section(img, s) \in LdRegions
      BY <2>0, <3>1, LdSectionType DEF LdPlace
    <3>4. a < Section(img, s).dst + Section(img, s).size /\ Section(img, s).size > 0
      BY <3>3 DEF Addresses, LdRegions
    <3>5. QED
      BY <2>3, <3>2, <3>3, <3>4 DEF LdThere, LdRegions
  <2>4. ASSUME ld = "ok"
        PROVE  1 \in past /\ \A s \in past : After(img, s) \in past \cup {0}
    BY <2>0, <2>4 DEF LdChain
  <2>5. QED
    BY <2>0, <2>2, <2>3, <2>4 DEF LoadedRight, LdAsked
<1>2. LdInv /\ [LdNext]_ldVars => LdInv'
  BY LdStepInv
<1>3. QED
  BY LdInitInv, <1>1, <1>2, PTL DEF LdSpec

=============================================================================
