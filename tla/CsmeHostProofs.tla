--------------------------- MODULE CsmeHostProofs ---------------------------
(***************************************************************************)
(* The properties of CsmeHost, proved for any number of threads, MSPs,     *)
(* targets, channels and sockets.  The inductive invariant has five parts: *)
(* what a thread holds at each stage of a call, where a socket is in its   *)
(* life, where a message that was taken is remembered, and, as long as no  *)
(* two calls race, the state of the tables while a call is under way and   *)
(* the relation between the numbers the targets remember and the ones the  *)
(* MSPs give.                                                              *)
(***************************************************************************)
EXTENDS CsmeHost, WellFoundedInduction, TLAPS

\* Target t is on csme_target_list; socket s is on csme_sklist.
InList(t) == \E i \in DOMAIN list : list[i] = t
InSks(s) == \E i \in DOMAIN sklist : sklist[i] = s

\* What a thread has in its hands at each stage of a call.
RecOk(r) ==
  /\ r.pc \in {"change", "reset", "chan", "chadd"} => r.t \in Targets
  /\ r.pc \in LookedUp \ {"create"} =>
       r.sk \in Socks /\ (r.op = "send" => r.ch \in Chans \cup {Supv})
  /\ r.pc = "change" => r.op \in {"maas", "reset"}
  /\ r.pc = "find" => r.op = "maas"
  /\ r.pc \in {"add", "chan", "chadd"} => r.op # "reset"
  /\ r.pc \in {"chan", "chadd"} => r.op # "ackopt"
  /\ r.pc = "chadd" => r.ch \in Chans
  /\ r.pc = "purge" => r.sk \in Socks
ThreadOk(x) == RecOk(thr[x]) /\ (thr[x].pc = "purge" => skst[thr[x].sk] = "dead")
ThreadsOk ==
  /\ \A x \in Threads : ThreadOk(x)
  /\ \A x, y \in Threads :
       thr[x].pc = "purge" /\ thr[y].pc = "purge" /\ thr[x].sk = thr[y].sk => x = y

\* The list holds exactly the sockets that are "listed", each once; a socket
\* that is not made yet or is released has nothing in its receive queue.
SksOnce == \A i, j \in DOMAIN sklist : sklist[i] = sklist[j] => i = j
SocksOk ==
  /\ SksOnce
  /\ \A s \in Socks : skst[s] = "listed" <=> InSks(s)
  /\ \A s \in Socks : skst[s] \in {"none", "put"} => rq[s] = <<>>

\* A message that reached the socket is the last one of its channel in the
\* target that the next repetition will be looked up in.
Heard(m) ==
  msp[m].times = 1 =>
    LET t == target_find(m) IN t # None /\ lastRx[t][msp[m].ch] = msp[m].seq
OnceInv ==
  \A m \in Msps : /\ msp[m].made # {} => msp[m].ch = Supv
                  /\ msp[m].times <= 1 /\ Heard(m)

\* Without races one thread at a time works on what it looked up, and what it
\* looked up is still so.
Listed == {v \in Targets : InList(v)}
Alone == \A x, y \in Threads : thr[x].pc \in LookedUp /\ thr[y].pc \in LookedUp => x = y
Known(x) ==
  LET r == thr[x] IN
  /\ r.pc = "change" => /\ InList(r.t) /\ target_find(r.new) = None
                        /\ proc = {mac[u] : u \in Listed \ {r.t}}
  /\ r.pc \in {"reset", "chan", "chadd"} => InList(r.t)
  /\ r.pc = "add" => target_find(r.mac) = None
  /\ r.pc = "chadd" => r.ch \notin chan[r.t]
  /\ r.pc = "create" => sklist = <<>>
ProcOk == (\A x \in Threads : thr[x].pc # "change") => proc = {mac[t] : t \in Listed}
Tables ==
  /\ Alone /\ TargetsDistinct /\ lost = 0 /\ Len(sklist) <= 1 /\ ProcOk
  /\ \A x \in Threads : Known(x)
TablesInv == ~races => Tables

\* Without races: how the number n a channel c remembers relates to the last
\* message g of its MSP and the number the MSP gives next...
Follows(g, next, c, n) ==
  \/ n = NoSeq
  \/ c \in g.made /\ ~g.arrived
  \/ MspNumber(n) = IF g.ch = c /\ ~g.arrived THEN g.seq ELSE next
\* ... for every target that the thread with the record r is not about to reset.
Resets(r, t, a) == (r.pc = "find" /\ r.new = a) \/ (r.pc = "reset" /\ r.t = t)
Stale(t) == \E x \in Threads : Resets(thr[x], t, mac[t])
Agrees(t) ==
  /\ mac[t] = Bcast => lastRx[t] = FreshSeqs
  /\ mac[t] \in Msps =>
       \A c \in AllChans : Follows(msp[mac[t]], mspSeq[mac[t]][c], c, lastRx[t][c])
SeqOk(t) ==
  /\ \A c \in Chans \ chan[t] : lastRx[t][c] = NoSeq
  /\ Stale(t) \/ Agrees(t)
AcksOk ==
  \A m \in Msps : /\ msp[m].acked => msp[m].arrived
                  /\ msp[m].id > 0 => mspSeq[m][msp[m].ch] = MspNumber(msp[m].seq)
Numbers == AcksOk /\ \A t \in Targets : InList(t) => SeqOk(t)
SeqInv == ~races => Numbers

\* The inductive invariant.
HostInv == HostTypeOK /\ ThreadsOk /\ SocksOk /\ OnceInv /\ TablesInv /\ SeqInv

-----------------------------------------------------------------------------
(* The type invariant by kinds of state, and the search in the list        *)

\* The records of a thread and of an MSP's message.
ThrRecs == [pc : {"idle", "purge"} \cup LookedUp, op : {"send", "boot", "maas", "ackopt",
    "reset"},
            mac : Macs, new : Macs, ch : AllChans, t : Targets \cup {None},
                sk : Socks \cup {None}]
MspRecs == [id : Nat, ch : AllChans, seq : 0 .. SEQ_MOD - 1, kind : {"msg", "ready"},
            made : SUBSET Chans, acked : BOOLEAN, arrived : BOOLEAN, times : Nat]
\* One part for each kind of variable: the provers take flags, sets,
\* sequences and records apart.
HFlagsT == mod \in BOOLEAN /\ races \in BOOLEAN
HListT ==
  /\ list \in Seq(Targets) /\ mac \in [Targets -> Macs]
  /\ chan \in [Targets -> SUBSET Chans] /\ lost \in Nat /\ proc \subseteq Macs
HRxT == lastRx \in [Targets -> [AllChans -> 0 .. SEQ_MOD]]
HTxT == txq \in [Targets -> [AllChans -> Seq(Socks)]]
HThrT == thr \in [Threads -> ThrRecs]
HSockT ==
  /\ sklist \in Seq(Socks)
  /\ skst \in [Socks -> {"none", "listed", "dead", "put"}]
  /\ rq \in [Socks -> Seq({"msg", "ack"})]
HMspT == msp \in [Msps -> MspRecs]
HSeqT == mspSeq \in [Msps -> [AllChans -> 0 .. SEQ_MOD - 1]]
HTypes == HFlagsT /\ HListT /\ HRxT /\ HTxT /\ HThrT /\ HSockT /\ HMspT /\ HSeqT

\* The type invariant is the conjunction of those parts, before a step and
\* after it.
LEMMA HostTypeParts ==
  /\ HostTypeOK <=> HTypes
  /\ HostTypeOK' <=> HTypes'
  BY Zenon DEF HostTypeOK, HTypes, HFlagsT, HListT, HRxT, HTxT, HThrT, HSockT, HMspT, HSeqT,
     ThrRecs, MspRecs

\* target_find() as a function of the list and the addresses.
FindIn(l, mc, a) ==
  LET hits == {i \in DOMAIN l : mc[l[i]] = a}
  IN IF hits = {} THEN None ELSE l[CHOOSE i \in hits : \A j \in hits : i <= j]

\* A set of positions that is not empty has a least one.
LEMMA LeastHit ==
  ASSUME NEW S \in SUBSET Nat, NEW n \in S
  PROVE  \E i \in S : \A j \in S : i <= j
<1> DEFINE R == {p \in Nat \X Nat : p[1] < p[2]}
<1>1. IsWellFoundedOn(R, Nat)
  BY NatLessThanWellFounded DEF OpToRel
<1>2. \A x, y \in Nat : <<y, x>> \notin R => x <= y
  OBVIOUS
<1> HIDE DEF R
<1>3. \E x \in S : \A y \in S : <<y, x>> \notin R
  BY <1>1, WFMin
<1>4. QED
  BY <1>2, <1>3

\* What target_find() returns: nothing when no target has the address, else
\* the first that has it.
LEMMA FindIs ==
  ASSUME NEW l \in Seq(Targets), NEW mc, NEW a
  PROVE  \/ /\ FindIn(l, mc, a) = None
            /\ \A i \in DOMAIN l : mc[l[i]] # a
         \/ \E i \in DOMAIN l :
              /\ FindIn(l, mc, a) = l[i] /\ mc[l[i]] = a
              /\ \A j \in DOMAIN l : mc[l[j]] = a => i <= j
<1> DEFINE hits == {i \in DOMAIN l : mc[l[i]] = a}
<1>1. CASE hits = {}
  BY <1>1 DEF FindIn
<1>2. CASE hits # {}
  <2>1. hits \in SUBSET Nat
    OBVIOUS
  <2>2. PICK n \in hits : TRUE
    BY <1>2
  <2>3. \E i \in hits : \A j \in hits : i <= j
    BY <2>1, <2>2, LeastHit
  <2> DEFINE i == CHOOSE i \in hits : \A j \in hits : i <= j
  <2>4. i \in hits /\ \A j \in hits : i <= j
    BY <2>3
  <2>5. FindIn(l, mc, a) = l[i]
    BY <1>2 DEF FindIn
  <2> HIDE DEF i
  <2>6. QED
    BY <2>4, <2>5
<1>3. QED
  BY <1>1, <1>2

\* The search depends only on which of the targets have the address.
LEMMA FindSame ==
  ASSUME NEW l \in Seq(Targets), NEW mc, NEW md, NEW a,
         \A i \in DOMAIN l : mc[l[i]] = a <=> md[l[i]] = a
  PROVE  FindIn(l, md, a) = FindIn(l, mc, a)
<1>1. CASE \A i \in DOMAIN l : mc[l[i]] # a
  <2>1. FindIn(l, mc, a) = None /\ FindIn(l, md, a) = None
    BY <1>1, FindIs
  <2>2. QED
    BY <2>1
<1>2. CASE \E i \in DOMAIN l : mc[l[i]] = a
  <2>1. PICK i \in DOMAIN l : /\ FindIn(l, mc, a) = l[i] /\ mc[l[i]] = a
                              /\ \A h \in DOMAIN l : mc[l[h]] = a => i <= h
    BY <1>2, FindIs
  <2>2. PICK j \in DOMAIN l : /\ FindIn(l, md, a) = l[j] /\ md[l[j]] = a
                              /\ \A h \in DOMAIN l : md[l[h]] = a => j <= h
    BY <1>2, FindIs
  <2>3. i = j
    BY <2>1, <2>2
  <2>4. QED
    BY <2>1, <2>2, <2>3
<1>3. QED
  BY <1>1, <1>2

\* A new target at the head of the list with another address does not change
\* the search.
LEMMA FindCons ==
  ASSUME NEW l \in Seq(Targets), NEW t \in Targets, NEW mc, NEW md, NEW a,
         \A i \in DOMAIN l : mc[l[i]] = md[l[i]], md[t] # a
  PROVE  FindIn(<<t>> \o l, md, a) = FindIn(l, mc, a)
<1>0. PICK k : k = <<t>> \o l
  OBVIOUS
<1>1. /\ k \in Seq(Targets) /\ Len(k) = Len(l) + 1 /\ k[1] = t /\ Len(l) \in Nat
      /\ DOMAIN l = 1 .. Len(l) /\ DOMAIN k = 1 .. Len(l) + 1
      /\ \A i \in 1 .. Len(l) : k[i + 1] = l[i]
  BY <1>0
<1>2. \A j \in DOMAIN k : md[k[j]] = a => j - 1 \in DOMAIN l /\ k[j] = l[j - 1]
        /\ mc[l[j - 1]] = a
  BY <1>1
<1>3. \A i \in DOMAIN l : mc[l[i]] = a => i + 1 \in DOMAIN k /\ k[i + 1] = l[i]
        /\ md[k[i + 1]] = a
  BY <1>1
<1>4. CASE \A i \in DOMAIN l : mc[l[i]] # a
  <2>1. \A j \in DOMAIN k : md[k[j]] # a
    BY <1>2, <1>4
  <2>2. FindIn(l, mc, a) = None
    BY <1>4, FindIs
  <2>3. FindIn(k, md, a) = None
    BY <1>1, <2>1, FindIs
  <2>4. QED
    BY <2>2, <2>3, <1>0
<1>5. CASE \E i \in DOMAIN l : mc[l[i]] = a
  <2>1. PICK i \in DOMAIN l : /\ FindIn(l, mc, a) = l[i] /\ mc[l[i]] = a
                              /\ \A j \in DOMAIN l : mc[l[j]] = a => i <= j
    BY <1>5, FindIs
  <2>2. \E j \in DOMAIN k : md[k[j]] = a
    BY <1>3, <2>1
  <2>3. PICK j \in DOMAIN k : /\ FindIn(k, md, a) = k[j] /\ md[k[j]] = a
                              /\ \A h \in DOMAIN k : md[k[h]] = a => j <= h
    <3>1. \/ FindIn(k, md, a) = None /\ \A h \in DOMAIN k : md[k[h]] # a
          \/ \E j \in DOMAIN k : /\ FindIn(k, md, a) = k[j] /\ md[k[j]] = a
                                 /\ \A h \in DOMAIN k : md[k[h]] = a => j <= h
      <4>1. k \in Seq(Targets)
        BY <1>1
      <4>2. QED
        BY ONLY <4>1, FindIs
    <3>2. QED
      BY <2>2, <3>1, Zenon
  <2>4. j = i + 1
    <3>1. j <= i + 1
      BY <1>3, <2>1, <2>3
    <3>2. i <= j - 1
      BY <1>2, <2>1, <2>3
    <3>3. QED
      BY <1>1, <3>1, <3>2
  <2>5. QED
    BY <1>3, <2>1, <2>3, <2>4, <1>0
<1>6. QED
  BY <1>4, <1>5

\* target_find() is that search, before a step and after it.
LEMMA FindDef ==
  /\ \A a : target_find(a) = FindIn(list, mac, a)
  /\ \A a : target_find(a)' = FindIn(list', mac', a)
  BY DEF target_find, FindIn

\* A target that is found is on the list and has the address.
LEMMA FindInList ==
  ASSUME HListT, NEW a
  PROVE  \/ target_find(a) = None /\ \A i \in DOMAIN list : mac[list[i]] # a
         \/ /\ target_find(a) \in Targets /\ InList(target_find(a))
            /\ mac[target_find(a)] = a
<1>1. list \in Seq(Targets)
  BY DEF HListT
<1>2. QED
  BY <1>1, FindIs, FindDef DEF InList

\* csmencaps_sendmsg() and csmencaps_setsockopt() differ in the record they
\* start with.
CallRecs ==
  {r \in ThrRecs : /\ r.pc = "idle" /\ r.t = None /\ r.sk \in Socks
                   /\ r.op = "send" => r.ch \in Chans \cup {Supv}}
Called(x, r) ==
  /\ MayRun(x) /\ thr[x].pc = "idle"
  /\ StartCall(x, r, target_find(r.mac))
  /\ UNCHANGED <<mod, races, list, mac, chan, lastRx, txq, lost, sockVars, mspVars>>
\* The next-state relation with one disjunct for all calls, so that a proof
\* has one case for them.
HostStep ==
  \/ \E x \in Threads : \/ \E r \in CallRecs : Called(x, r)
                        \/ target_change_mac(x) \/ csme_tx_maas(x) \/ csme_reset(x)
                        \/ csme_tx_add(x) \/ csme_tx_chan(x) \/ channel_add(x)
                        \/ csmencaps_create(x) \/ csmencaps_create_add(x)
                        \/ \E s \in Socks : csmencaps_recvmsg(x, s) \/ csmencaps_release(x, s)
                        \/ csmencaps_release_purge(x)
  \/ \E m \in Msps : \/ csmencaps_rcv(m)
                     \/ \E c \in AllChans : csmencaps_rcv_ack(m, c)
  \/ \E t \in Targets, c \in AllChans : GiveUp(t, c)
  \/ csmencaps_init \/ csmencaps_exit
  \/ \E m \in Msps, c \in AllChans, kind \in {"msg", "ready"}, made \in SUBSET Chans :
       (made # {} => c = Supv) /\ MspSend(m, c, kind, made)

\* Every call starts one of those records.
LEMMA CallIs ==
  ASSUME NEW x \in Threads, NEW s \in Socks, NEW a \in Macs, NEW n \in Macs, NEW c \in AllChans,
         NEW op \in {"send", "boot", "maas", "ackopt", "reset"},
         op = "send" => c \in Chans \cup {Supv}
  PROVE  /\ csmencaps_sendmsg(x, s, op, a, n, c) => \E r \in CallRecs : Called(x, r)
         /\ csmencaps_setsockopt(x, s, op, a, n) /\ op # "send"
              => \E r \in CallRecs : Called(x, r)
<1> DEFINE r1 == [Idle EXCEPT !.op = op, !.mac = a, !.new = n, !.ch = c, !.sk = s]
           r2 == [Idle EXCEPT !.op = op, !.mac = a, !.new = n, !.sk = s]
<1>1. r1 \in CallRecs /\ r1.mac = a
  BY DEF CallRecs, ThrRecs, Idle
<1>2. op # "send" => r2 \in CallRecs /\ r2.mac = a
  BY DEF CallRecs, ThrRecs, Idle, AllChans
<1>3. csmencaps_sendmsg(x, s, op, a, n, c) => Called(x, r1)
  BY <1>1, Zenon DEF csmencaps_sendmsg, Called
<1>4. csmencaps_setsockopt(x, s, op, a, n) /\ op # "send" => Called(x, r2)
  BY <1>2, Zenon DEF csmencaps_setsockopt, Called
<1>5. QED
  BY <1>1, <1>2, <1>3, <1>4, Zenon

\* Every step is one of these.
LEMMA StepIs == HostNext => HostStep
<1> SUFFICES ASSUME HostNext PROVE HostStep
  OBVIOUS
<1>1. ASSUME NEW x \in Threads, NEW s \in Socks, NEW a \in Macs,
             \/ \E c \in Chans \cup {Supv} : csmencaps_sendmsg(x, s, "send", a, a, c)
             \/ \E c \in Chans \cup {Boot} : csmencaps_sendmsg(x, s, "boot", a, a, c)
             \/ \E n \in Msps : csmencaps_sendmsg(x, s, "maas", a, n, Boot)
      PROVE \E r \in CallRecs : Called(x, r)
  BY <1>1, CallIs DEF AllChans, Macs
<1>2. ASSUME NEW x \in Threads, NEW s \in Socks, NEW a \in Macs, NEW n \in Macs,
             csmencaps_setsockopt(x, s, "ackopt", a, a)
                 \/ csmencaps_setsockopt(x, s, "reset", a, n)
      PROVE \E r \in CallRecs : Called(x, r)
  BY <1>2, CallIs DEF AllChans
<1>3. /\ \A m \in Msps, c \in Chans \cup {Boot} : MspSend(m, c, "msg", {}) => HostStep
      /\ \A m \in Msps : MspSend(m, Boot, "ready", {}) => HostStep
      /\ \A m \in Msps, d \in Chans : MspSend(m, Supv, "msg", {d}) => HostStep
  BY DEF HostStep, AllChans
<1>4. QED
  BY <1>1, <1>2, <1>3, Zenon DEF HostNext, HostStep

-----------------------------------------------------------------------------
(* Types                                                                   *)

\* Forgetting what was heard keeps the types of the messages.
LEMMA ForgetType ==
  ASSUME HMspT, NEW S PROVE Forget(S) \in [Msps -> MspRecs]
  BY DEF HMspT, Forget, MspRecs

\* A thread that moves on or is done keeps its type.
LEMMA ThrType ==
  ASSUME HThrT, NEW x \in Threads, NEW pc \in {"idle", "purge"} \cup LookedUp,
           NEW t \in Targets \cup {None},
         Goto(x, pc, t) \/ Done(x)
  PROVE  HThrT'
<1>1. CASE Goto(x, pc, t)
  <2>1. [thr[x] EXCEPT !.pc = pc, !.t = t] \in ThrRecs
    BY DEF HThrT, ThrRecs
  <2>2. thr' = [thr EXCEPT ![x] = [thr[x] EXCEPT !.pc = pc, !.t = t]]
    BY <1>1 DEF Goto, HThrT
  <2>3. QED
    BY ONLY HThrT, <2>1, <2>2, x \in Threads DEF HThrT
<1>2. CASE Done(x)
  <2>1. Idle \in ThrRecs
    BY DEF Idle, ThrRecs, Macs, AllChans
  <2>2. QED
    BY ONLY <1>2, <2>1, HThrT, x \in Threads DEF Done, HThrT
<1>3. QED
  BY <1>1, <1>2

\* The fresh numbers of a target have their type.
LEMMA FreshType == FreshSeqs \in [AllChans -> 0 .. SEQ_MOD] /\ NoSeq \in 0 .. SEQ_MOD
  BY HostAssumption DEF FreshSeqs, NoSeq

\* target_reset() keeps the types.
LEMMA ResetType ==
  ASSUME HRxT, HTxT, HMspT, NEW t \in Targets, target_reset(t)
  PROVE  HRxT' /\ HTxT' /\ HMspT'
<1>1. HRxT'
  BY FreshType DEF target_reset, HRxT
<1>2. HTxT'
  BY DEF target_reset, HTxT
<1>3. HMspT'
  BY ForgetType DEF target_reset, HMspT
<1>4. QED
  BY <1>1, <1>2, <1>3

\* StartCall() gives the thread a record of its type.
LEMMA CallThr ==
  ASSUME HThrT, NEW x \in Threads, NEW r \in CallRecs, NEW u \in Targets \cup {None},
           StartCall(x, r, u)
  PROVE  \/ thr' = thr
         \/ \E q \in ThrRecs : thr' = [thr EXCEPT ![x] = q]
<1>1. /\ Idle \in ThrRecs
      /\ \A pc \in {"idle", "purge"} \cup LookedUp : [r EXCEPT !.pc = pc, !.t = u] \in ThrRecs
      /\ [r EXCEPT !.pc = "add"] \in ThrRecs
  BY DEF Idle, ThrRecs, Macs, AllChans, CallRecs, LookedUp
<1>2. /\ AfterChange(r.op) \in {"idle", "purge"} \cup LookedUp
      /\ {"change", "chan"} \subseteq {"idle", "purge"} \cup LookedUp
  BY DEF AfterChange, LookedUp
<1>3. QED
  BY <1>1, <1>2, Zenon DEF StartCall

\* What a thread has in its hands at each stage has the right type.
LEMMA HeldType ==
  ASSUME HThrT, ThreadsOk, NEW x \in Threads
  PROVE  /\ thr[x].mac \in Macs /\ thr[x].new \in Macs /\ thr[x].ch \in AllChans
         /\ thr[x].pc \in {"change", "reset", "chan", "chadd"} => thr[x].t \in Targets
         /\ thr[x].pc \in {"chan", "chadd", "purge"} => thr[x].sk \in Socks
         /\ thr[x].pc = "chadd" => thr[x].ch \in Chans
         /\ thr[x].op \in {"send", "boot", "maas", "ackopt", "reset"}
  BY DEF HThrT, ThreadsOk, ThreadOk, RecOk, ThrRecs, LookedUp

\* csme_tx() keeps the type of the transmit queues.
LEMMA TxType ==
  ASSUME HTxT, NEW q \in [Targets -> [AllChans -> Seq(Socks)]], NEW x, NEW t \in Targets,
           NEW c \in AllChans,
         thr[x].sk \in Socks, Transmit(q, x, t, c)
  PROVE  HTxT'
<1>1. txq' = q \/ txq' = [q EXCEPT ![t][c] = Append(@, thr[x].sk)]
  BY DEF Transmit
<1>2. Append(q[t][c], thr[x].sk) \in Seq(Socks)
  OBVIOUS
<1>3. [q[t] EXCEPT ![c] = Append(@, thr[x].sk)] \in [AllChans -> Seq(Socks)]
  BY ONLY <1>2, q[t] \in [AllChans -> Seq(Socks)]
<1>4. [q EXCEPT ![t][c] = Append(@, thr[x].sk)] = [q EXCEPT ![t] = [q[t] EXCEPT ![c] = Append(@,
        thr[x].sk)]]
  OBVIOUS
<1>5. txq' \in [Targets -> [AllChans -> Seq(Socks)]]
  BY ONLY <1>1, <1>3, <1>4, t \in Targets, q \in [Targets -> [AllChans -> Seq(Socks)]]
<1>6. QED
  BY <1>5 DEF HTxT

\* sock_queue_rcv_skb() keeps the type of the receive queues.
LEMMA ToSocketType ==
  ASSUME HSockT, NEW what \in {"msg", "ack"}, ToSocket(what)
  PROVE  rq' \in [Socks -> Seq({"msg", "ack"})]
<1>1. HasRoom => csme_get_socket \in Socks
  BY DEF HasRoom, csme_get_socket, HSockT
<1>2. QED
  BY <1>1 DEF ToSocket, HSockT

\* csme_rx_msg() keeps the types.
LEMMA RxMsgType ==
  ASSUME HRxT, HTxT, HMspT, HSockT, NEW m \in Msps, NEW t \in Targets, csme_rx_msg(m, t, msp[m]),
         UNCHANGED <<sklist, skst>>
  PROVE  HRxT' /\ HTxT' /\ HMspT' /\ HSockT'
<1> DEFINE g == msp[m]
<1>1. g \in MspRecs /\ g.ch \in AllChans /\ g.seq \in 0 .. SEQ_MOD /\ g.times \in Nat
  BY HostAssumption DEF HMspT, MspRecs
<1>2. HMspT'
  <2>1. PICK ack \in {g.acked, TRUE} :
          \/ msp' = [msp EXCEPT ![m].acked = ack]
          \/ msp' = [msp EXCEPT ![m].acked = ack, ![m].arrived = TRUE,
                       ![m].times = @ + (IF HasRoom THEN 1 ELSE 0)]
    BY DEF csme_rx_msg, csme_tx_ack
  <2>2. [g EXCEPT !.acked = ack] \in MspRecs
    BY <1>1, Zenon DEF MspRecs
  <2>3. g.times + (IF HasRoom THEN 1 ELSE 0) \in Nat
    BY <1>1
  <2>4. [g EXCEPT !.acked = ack, !.arrived = TRUE,
           !.times = @ + (IF HasRoom THEN 1 ELSE 0)] \in MspRecs
    BY <1>1, <2>3, Zenon DEF MspRecs
  <2>5. \/ msp' = [msp EXCEPT ![m] = [g EXCEPT !.acked = ack]]
        \/ msp' = [msp EXCEPT ![m] = [g EXCEPT !.acked = ack, !.arrived = TRUE,
                                        !.times = @ + (IF HasRoom THEN 1 ELSE 0)]]
    BY <2>1 DEF HMspT
  <2>6. QED
    BY <2>2, <2>4, <2>5 DEF HMspT
<1>3. HRxT'
  <2>1. \/ lastRx' = lastRx
        \/ lastRx' = [lastRx EXCEPT ![t] =
              [c \in AllChans |-> IF c \in Created(t, g) THEN NoSeq
                                  ELSE IF c = g.ch THEN g.seq ELSE @[c]]]
    BY Zenon DEF csme_rx_msg
  <2>2. QED
    BY <1>1, <2>1, FreshType DEF HRxT
<1>4. HTxT'
  <2>1. \/ txq' = txq
        \/ txq' = [txq EXCEPT ![t] =
              [c \in AllChans |-> IF c \in Created(t, g) THEN <<>> ELSE @[c]]]
    BY Zenon DEF csme_rx_msg
  <2>2. \A c \in AllChans : (IF c \in Created(t, g) THEN <<>> ELSE txq[t][c]) \in Seq(Socks)
    BY DEF HTxT
  <2>3. [c \in AllChans |-> IF c \in Created(t, g) THEN <<>> ELSE txq[t][c]]
          \in [AllChans -> Seq(Socks)]
    BY <2>2
  <2>4. QED
    BY <2>1, <2>3 DEF HTxT
<1>5. HSockT'
  <2>1. ToSocket("msg") \/ rq' = rq
    BY DEF csme_rx_msg
  <2>2. QED
    BY <2>1, ToSocketType DEF HSockT
<1>6. QED
  BY <1>2, <1>3, <1>4, <1>5

\* The next sequence number is another one: this takes at least two numbers.
LEMMA NumberType ==
  \A n \in 0 .. SEQ_MOD - 1 : /\ MspNumber(n) \in 0 .. SEQ_MOD - 1 /\ MspNumber(n) # n
  BY HostAssumption DEF MspNumber

\* What csmencaps_rcv() can do to the channels, the sockets and the
\* addresses.
LEMMA RcvIs ==
  ASSUME HListT, NEW m \in Msps, csmencaps_rcv(m)
  PROVE  /\ UNCHANGED <<sklist, skst>>
         /\ \/ UNCHANGED <<lastRx, txq, rq, msp>>
            \/ \E t \in Targets : csme_rx_msg(m, t, msp[m])
         /\ \/ UNCHANGED <<mac, proc>>
            \/ \E t \in Targets : /\ mac' = [mac EXCEPT ![t] = m]
                                  /\ proc' = (proc \ {mac[t]}) \cup {m}
<1>1. \A a : target_find(a) = None \/ target_find(a) \in Targets
  BY FindInList
<1>2. check_ready_received(m) => ReadyTarget(m) \in Targets
  BY <1>1 DEF check_ready_received, ReadyTarget
<1>3. \A t : csme_rx(m, t, msp[m]) =>
        \/ UNCHANGED <<lastRx, txq, rq, msp>>
        \/ t # None /\ csme_rx_msg(m, t, msp[m])
  BY DEF csme_rx
<1>4. QED
  BY <1>1, <1>2, <1>3 DEF csmencaps_rcv

\* csmencaps_release() takes the socket off the list, and no other.
LEMMA ReleaseIs ==
  ASSUME HSockT, NEW s \in Socks, InSks(s)
  PROVE  /\ ReleaseList(s) \in Seq(Socks) /\ Len(ReleaseList(s)) = Len(sklist) - 1
         /\ \E k \in DOMAIN sklist :
              /\ sklist[k] = s
              /\ \A j \in DOMAIN ReleaseList(s) :
                   ReleaseList(s)[j] = sklist[IF j < k THEN j ELSE j + 1]
<1> DEFINE k == CHOOSE i \in DOMAIN sklist : sklist[i] = s
           f == [j \in 1 .. Len(sklist) - 1 |-> sklist[IF j < k THEN j ELSE j + 1]]
<1>1. k \in DOMAIN sklist /\ sklist[k] = s
  BY DEF InSks
<1>2. /\ Len(sklist) \in Nat /\ DOMAIN sklist = 1 .. Len(sklist)
      /\ \A j \in DOMAIN sklist : sklist[j] \in Socks
  BY DEF HSockT
<1>3. ReleaseList(s) = f
  BY DEF ReleaseList
<1> HIDE DEF k
<1>4. \A j \in 1 .. Len(sklist) - 1 : (IF j < k THEN j ELSE j + 1) \in DOMAIN sklist
  BY <1>1, <1>2
<1>5. Len(sklist) - 1 \in Nat
  BY <1>1, <1>2
<1>6. f \in [1 .. Len(sklist) - 1 -> Socks]
  BY <1>2, <1>4
<1>7. f \in Seq(Socks) /\ Len(f) = Len(sklist) - 1 /\ DOMAIN f = 1 .. Len(sklist) - 1
  BY <1>5, <1>6
<1>8. \A j \in DOMAIN f : f[j] = sklist[IF j < k THEN j ELSE j + 1]
  BY <1>7
<1> HIDE DEF f
<1>9. QED
  BY <1>1, <1>3, <1>7, <1>8

\* Every step leaves every variable with its type.
LEMMA HostTypeStep ==
  ASSUME HTypes, ThreadsOk, SocksOk, [HostStep]_hostVars
  PROVE  HTypes'
<1> USE HostAssumption DEF HTypes
<1>1. ASSUME NEW x \in Threads, NEW r \in CallRecs, Called(x, r) PROVE HTypes'
  <2>1. HFlagsT' /\ HRxT' /\ HTxT' /\ HSockT' /\ HMspT' /\ HSeqT'
    BY <1>1, Zenon DEF Called, tblVars, sockVars, mspVars, HFlagsT, HRxT, HTxT, HSockT,
       HMspT, HSeqT
  <2>2. HThrT'
    <3>1. target_find(r.mac) \in Targets \cup {None}
      BY FindInList
    <3>2. StartCall(x, r, target_find(r.mac))
      BY <1>1 DEF Called
    <3>3. thr' = thr \/ \E q \in ThrRecs : thr' = [thr EXCEPT ![x] = q]
      BY <3>1, <3>2, CallThr
    <3>4. QED
      BY ONLY <3>3, HThrT, x \in Threads DEF HThrT
  <2>3. HListT'
    <3>1. proc' \subseteq proc
      BY <1>1, Zenon DEF Called, StartCall
    <3>2. QED
      BY <1>1, <3>1 DEF Called, HListT
  <2>4. QED
    BY <2>1, <2>2, <2>3, Zenon DEF HTypes
<1>2. ASSUME NEW x \in Threads, target_change_mac(x) PROVE HTypes'
  <2>1. HFlagsT' /\ HRxT' /\ HTxT' /\ HSockT' /\ HSeqT'
    BY <1>2, Zenon DEF target_change_mac, tblVars, sockVars, mspVars, HFlagsT, HRxT, HTxT,
       HSockT, HSeqT
  <2>2. HListT'
    BY <1>2, HeldType DEF target_change_mac, HListT
  <2>3. HMspT'
    BY <1>2, ForgetType DEF target_change_mac, HMspT
  <2>4. HThrT'
    BY <1>2, HeldType, ThrType DEF target_change_mac, AfterChange, LookedUp
  <2>5. QED
    BY <2>1, <2>2, <2>3, <2>4, Zenon DEF HTypes
<1>3. ASSUME NEW x \in Threads, csme_tx_maas(x) PROVE HTypes'
  <2>1. HFlagsT' /\ HListT' /\ HSockT' /\ HSeqT'
    BY <1>3, Zenon DEF csme_tx_maas, tblVars, sockVars, mspVars, HFlagsT, HListT, HSockT,
       HSeqT
  <2>2. HThrT'
    <3>1. target_find(thr[x].new) \in Targets \cup {None}
      BY FindInList
    <3>2. CASE target_find(thr[x].new) = None
      <4>1. thr' = [thr EXCEPT ![x].pc = "add", ![x].mac = thr[x].new]
        BY <1>3, <3>2 DEF csme_tx_maas
      <4>2. thr' = [thr EXCEPT ![x] = [thr[x] EXCEPT !.pc = "add", !.mac = thr[x].new]]
        BY <4>1 DEF HThrT
      <4>3. [thr[x] EXCEPT !.pc = "add", !.mac = thr[x].new] \in ThrRecs
        <5>1. thr[x] \in ThrRecs
          BY DEF HThrT
        <5>2. QED
          BY ONLY <5>1 DEF ThrRecs, LookedUp
      <4>4. QED
        BY ONLY HThrT, <4>2, <4>3, x \in Threads DEF HThrT
    <3>3. CASE target_find(thr[x].new) # None
      BY <1>3, <3>1, <3>3, ThrType DEF csme_tx_maas, LookedUp
    <3>4. QED
      BY <3>2, <3>3
  <2>3. HRxT'
    <3>1. target_find(thr[x].new) \in Targets \cup {None}
      BY FindInList
    <3>2. CASE target_find(thr[x].new) = None
      BY <1>3, <3>2 DEF csme_tx_maas, HRxT
    <3>3. CASE target_find(thr[x].new) # None
      BY <1>3, <3>1, <3>3, ResetType DEF csme_tx_maas
    <3>4. QED
      BY <3>2, <3>3
  <2>4. HTxT'
    <3>1. target_find(thr[x].new) \in Targets \cup {None}
      BY FindInList
    <3>2. CASE target_find(thr[x].new) = None
      BY <1>3, <3>2 DEF csme_tx_maas, HTxT
    <3>3. CASE target_find(thr[x].new) # None
      BY <1>3, <3>1, <3>3, ResetType DEF csme_tx_maas
    <3>4. QED
      BY <3>2, <3>3
  <2>5. HMspT'
    <3>1. target_find(thr[x].new) \in Targets \cup {None}
      BY FindInList
    <3>2. CASE target_find(thr[x].new) = None
      BY <1>3, <3>2 DEF csme_tx_maas, HMspT
    <3>3. CASE target_find(thr[x].new) # None
      BY <1>3, <3>1, <3>3, ResetType DEF csme_tx_maas
    <3>4. QED
      BY <3>2, <3>3
  <2>6. QED
    BY <2>1, <2>2, <2>3, <2>4, <2>5, Zenon DEF HTypes
<1>4. ASSUME NEW x \in Threads, csme_reset(x) PROVE HTypes'
  <2>1. HFlagsT' /\ HListT' /\ HSockT' /\ HSeqT'
    BY <1>4, Zenon DEF csme_reset, tblVars, sockVars, mspVars, HFlagsT, HListT, HSockT,
       HSeqT
  <2>2. HThrT'
    BY <1>4, ThrType DEF csme_reset, LookedUp
  <2>3. HRxT'
    BY <1>4, HeldType, ResetType DEF csme_reset
  <2>4. HTxT'
    BY <1>4, HeldType, ResetType DEF csme_reset
  <2>5. HMspT'
    BY <1>4, HeldType, ResetType DEF csme_reset
  <2>6. QED
    BY <2>1, <2>2, <2>3, <2>4, <2>5, Zenon DEF HTypes
<1>5. ASSUME NEW x \in Threads, csme_tx_add(x) PROVE HTypes'
  <2>1. HFlagsT' /\ HSockT' /\ HSeqT'
    BY <1>5, Zenon DEF csme_tx_add, tblVars, sockVars, mspVars, HFlagsT, HSockT, HSeqT
  <2>2. HListT'
    <3>1. ASSUME NEW t \in Targets, target_add(t, thr[x].mac) PROVE HListT'
      <4>1. list' \in Seq(Targets)
        BY <3>1 DEF target_add, HListT
      <4>2. mac' \in [Targets -> Macs] /\ chan' \in [Targets -> SUBSET Chans]
              /\ proc' \subseteq Macs
        BY <3>1, HeldType DEF target_add, HListT
      <4>3. QED
        BY <1>5, <4>1, <4>2 DEF csme_tx_add, HListT
    <3>2. CASE UNCHANGED <<list, mac, chan, lastRx, txq, proc, msp>>
      BY <1>5, <3>2 DEF csme_tx_add, HListT
    <3>3. QED
      BY <1>5, <3>1, <3>2 DEF csme_tx_add
  <2>3. HRxT'
    <3>1. ASSUME NEW t \in Targets, target_add(t, thr[x].mac) PROVE HRxT'
      BY <3>1, HeldType, FreshType DEF target_add, HRxT
    <3>2. CASE UNCHANGED <<list, mac, chan, lastRx, txq, proc, msp>>
      BY <1>5, <3>2 DEF csme_tx_add, HRxT
    <3>3. QED
      BY <1>5, <3>1, <3>2 DEF csme_tx_add
  <2>4. HTxT'
    <3>1. ASSUME NEW t \in Targets, target_add(t, thr[x].mac) PROVE HTxT'
      BY <3>1, HeldType DEF target_add, HTxT
    <3>2. CASE UNCHANGED <<list, mac, chan, lastRx, txq, proc, msp>>
      BY <1>5, <3>2 DEF csme_tx_add, HTxT
    <3>3. QED
      BY <1>5, <3>1, <3>2 DEF csme_tx_add
  <2>5. HMspT'
    <3>1. ASSUME NEW t \in Targets, target_add(t, thr[x].mac) PROVE HMspT'
      BY <3>1, HeldType, ForgetType DEF target_add, HMspT
    <3>2. CASE UNCHANGED <<list, mac, chan, lastRx, txq, proc, msp>>
      BY <1>5, <3>2 DEF csme_tx_add, HMspT
    <3>3. QED
      BY <1>5, <3>1, <3>2 DEF csme_tx_add
  <2>6. HThrT'
    BY <1>5, ThrType DEF csme_tx_add, LookedUp
  <2>7. QED
    BY <2>1, <2>2, <2>3, <2>4, <2>5, <2>6, Zenon DEF HTypes
<1>6. ASSUME NEW x \in Threads, csme_tx_chan(x) PROVE HTypes'
  <2>1. HFlagsT' /\ HListT' /\ HRxT' /\ HSockT' /\ HMspT' /\ HSeqT'
    BY <1>6, Zenon DEF csme_tx_chan, tblVars, sockVars, mspVars, HFlagsT, HListT, HRxT,
       HSockT, HMspT, HSeqT
  <2>2. HTxT'
    <3>1. txq' = txq \/ Transmit(txq, x, thr[x].t, thr[x].ch)
      BY <1>6 DEF csme_tx_chan
    <3>2. thr[x].pc = "chan"
      BY <1>6 DEF csme_tx_chan
    <3>3. QED
      BY <3>1, <3>2, HeldType, TxType DEF HTxT
  <2>3. HThrT'
    <3>1. thr[x].pc = "chan"
      BY <1>6 DEF csme_tx_chan
    <3>2. Done(x) \/ Goto(x, "chadd", thr[x].t)
      BY <1>6 DEF csme_tx_chan, Transmit
    <3>3. QED
      BY <3>1, <3>2, HeldType, ThrType DEF LookedUp
  <2>4. QED
    BY <2>1, <2>2, <2>3, Zenon DEF HTypes
<1>7. ASSUME NEW x \in Threads, channel_add(x) PROVE HTypes'
  <2>1. HFlagsT' /\ HSockT' /\ HSeqT'
    BY <1>7, Zenon DEF channel_add, tblVars, sockVars, mspVars, HFlagsT, HSockT, HSeqT
  <2>2. HListT'
    <3>1. thr[x].pc = "chadd" /\ thr[x].t \in Targets /\ thr[x].ch \in Chans
      BY <1>7, HeldType DEF channel_add
    <3>2. lost' \in Nat
      BY <1>7 DEF channel_add, HListT
    <3>3. chan' = chan \/ chan' = [chan EXCEPT ![thr[x].t] = @ \cup {thr[x].ch}]
      BY <1>7 DEF channel_add
    <3>4. chan' \in [Targets -> SUBSET Chans]
      BY <3>1, <3>3 DEF HListT
    <3>5. QED
      BY <1>7, <3>2, <3>4 DEF channel_add, HListT
  <2>3. HRxT'
    <3>1. thr[x].t \in Targets /\ thr[x].ch \in AllChans
      BY <1>7, HeldType DEF channel_add
    <3>2. lastRx' = lastRx
            \/ lastRx' = [lastRx EXCEPT ![thr[x].t] = [lastRx[thr[x].t] EXCEPT ![thr[x].ch] = NoSeq]]
      BY <1>7, <3>1 DEF channel_add, HRxT
    <3>3. QED
      BY <3>1, <3>2, FreshType DEF HRxT
  <2>4. HTxT'
    <3>1. thr[x].pc = "chadd"
      BY <1>7 DEF channel_add
    <3>2. thr[x].t \in Targets /\ thr[x].ch \in AllChans /\ thr[x].sk \in Socks
      BY <3>1, HeldType
    <3>3. [txq EXCEPT ![thr[x].t][thr[x].ch] = <<>>] \in [Targets -> [AllChans -> Seq(Socks)]]
      BY <3>2 DEF HTxT
    <3>4. QED
      BY <1>7, <3>2, <3>3, TxType DEF channel_add, HTxT
  <2>5. HMspT'
    <3>1. thr[x].pc = "chadd"
      BY <1>7 DEF channel_add
    <3>2. QED
      BY <1>7, <3>1, HeldType, ForgetType DEF channel_add, HMspT
  <2>6. HThrT'
    BY <1>7, ThrType DEF channel_add, Transmit, LookedUp
  <2>7. QED
    BY <2>1, <2>2, <2>3, <2>4, <2>5, <2>6, Zenon DEF HTypes
<1>8. ASSUME NEW x \in Threads, csmencaps_create(x) PROVE HTypes'
  <2>1. HFlagsT' /\ HListT' /\ HRxT' /\ HTxT' /\ HSockT' /\ HMspT' /\ HSeqT'
    BY <1>8, Zenon DEF csmencaps_create, tblVars, sockVars, mspVars, HFlagsT, HListT, HRxT,
       HTxT, HSockT, HMspT, HSeqT
  <2>2. HThrT'
    BY <1>8, ThrType DEF csmencaps_create, LookedUp
  <2>3. QED
    BY <2>1, <2>2, Zenon DEF HTypes
<1>9. ASSUME NEW x \in Threads, csmencaps_create_add(x) PROVE HTypes'
  <2>1. HFlagsT' /\ HListT' /\ HRxT' /\ HTxT' /\ HMspT' /\ HSeqT'
    BY <1>9, Zenon DEF csmencaps_create_add, tblVars, sockVars, mspVars, HFlagsT, HListT,
       HRxT, HTxT, HMspT, HSeqT
  <2>2. HSockT'
    <3>1. ASSUME NEW s \in Socks, sklist' = <<s>> \o sklist PROVE sklist' \in Seq(Socks)
      BY <3>1 DEF HSockT
    <3>2. sklist' \in Seq(Socks)
      BY <1>9, <3>1 DEF csmencaps_create_add, HSockT
    <3>3. skst' \in [Socks -> {"none", "listed", "dead", "put"}]
      BY <1>9 DEF csmencaps_create_add, HSockT
    <3>4. QED
      BY <1>9, <3>2, <3>3 DEF csmencaps_create_add, HSockT
  <2>3. HThrT'
    BY <1>9, ThrType DEF csmencaps_create_add, LookedUp
  <2>4. QED
    BY <2>1, <2>2, <2>3, Zenon DEF HTypes
<1>10. ASSUME NEW x \in Threads, NEW s \in Socks, csmencaps_recvmsg(x, s) PROVE HTypes'
  <2>1. HFlagsT' /\ HListT' /\ HRxT' /\ HTxT' /\ HThrT' /\ HMspT' /\ HSeqT'
    BY <1>10, Zenon DEF csmencaps_recvmsg, tblVars, sockVars, mspVars, HFlagsT, HListT,
       HRxT, HTxT, HThrT, HMspT, HSeqT
  <2>2. HSockT'
    BY <1>10 DEF csmencaps_recvmsg, HSockT
  <2>3. QED
    BY <2>1, <2>2, Zenon DEF HTypes
<1>11. ASSUME NEW x \in Threads, NEW s \in Socks, csmencaps_release(x, s) PROVE HTypes'
  <2>1. HFlagsT' /\ HListT' /\ HRxT' /\ HTxT' /\ HMspT' /\ HSeqT'
    BY <1>11, Zenon DEF csmencaps_release, tblVars, sockVars, mspVars, HFlagsT, HListT,
       HRxT, HTxT, HMspT, HSeqT
  <2>2. HSockT'
    <3>1. InSks(s)
      BY <1>11 DEF csmencaps_release, SocksOk
    <3>2. QED
      BY <1>11, <3>1, ReleaseIs DEF csmencaps_release, HSockT
  <2>3. HThrT'
    <3>1. thr' = [thr EXCEPT ![x] = [thr[x] EXCEPT !.pc = "purge", !.sk = s]]
      BY <1>11 DEF csmencaps_release, HThrT
    <3>2. [thr[x] EXCEPT !.pc = "purge", !.sk = s] \in ThrRecs
      <4>1. thr[x] \in ThrRecs
        BY DEF HThrT
      <4>2. QED
        BY ONLY <4>1, s \in Socks DEF ThrRecs, LookedUp
    <3>3. QED
      BY ONLY HThrT, <3>1, <3>2, x \in Threads DEF HThrT
  <2>4. QED
    BY <2>1, <2>2, <2>3, Zenon DEF HTypes
<1>12. ASSUME NEW x \in Threads, csmencaps_release_purge(x) PROVE HTypes'
  <2>1. HFlagsT' /\ HListT' /\ HRxT' /\ HTxT' /\ HMspT' /\ HSeqT'
    BY <1>12, Zenon DEF csmencaps_release_purge, tblVars, sockVars, mspVars, HFlagsT,
       HListT, HRxT, HTxT, HMspT, HSeqT
  <2>2. HSockT'
    BY <1>12, HeldType DEF csmencaps_release_purge, HSockT
  <2>3. HThrT'
    BY <1>12, ThrType DEF csmencaps_release_purge, LookedUp
  <2>4. QED
    BY <2>1, <2>2, <2>3, Zenon DEF HTypes
<1>13. ASSUME NEW m \in Msps, csmencaps_rcv(m) PROVE HTypes'
  <2>1. HFlagsT' /\ HThrT' /\ HSeqT'
    BY <1>13, Zenon DEF csmencaps_rcv, tblVars, sockVars, mspVars, HFlagsT, HThrT, HSeqT
  <2>2. HListT'
    <3>1. \/ UNCHANGED <<mac, proc>>
          \/ \E t \in Targets : /\ mac' = [mac EXCEPT ![t] = m]
                                /\ proc' = (proc \ {mac[t]}) \cup {m}
      BY <1>13, RcvIs
    <3>2. QED
      BY <1>13, <3>1 DEF csmencaps_rcv, HListT, Macs
  <2>3. HRxT'
    <3>1. \/ UNCHANGED <<lastRx, txq, rq, msp, sklist, skst>>
          \/ \E t \in Targets : csme_rx_msg(m, t, msp[m]) /\ UNCHANGED <<sklist, skst>>
      BY <1>13, RcvIs
    <3>2. QED
      BY <3>1, RxMsgType DEF HRxT
  <2>4. HTxT'
    <3>1. \/ UNCHANGED <<lastRx, txq, rq, msp, sklist, skst>>
          \/ \E t \in Targets : csme_rx_msg(m, t, msp[m]) /\ UNCHANGED <<sklist, skst>>
      BY <1>13, RcvIs
    <3>2. QED
      BY <3>1, RxMsgType DEF HTxT
  <2>5. HSockT'
    <3>1. \/ UNCHANGED <<lastRx, txq, rq, msp, sklist, skst>>
          \/ \E t \in Targets : csme_rx_msg(m, t, msp[m]) /\ UNCHANGED <<sklist, skst>>
      BY <1>13, RcvIs
    <3>2. QED
      BY <3>1, RxMsgType DEF HSockT
  <2>6. HMspT'
    <3>1. \/ UNCHANGED <<lastRx, txq, rq, msp, sklist, skst>>
          \/ \E t \in Targets : csme_rx_msg(m, t, msp[m]) /\ UNCHANGED <<sklist, skst>>
      BY <1>13, RcvIs
    <3>2. QED
      BY <3>1, RxMsgType DEF HMspT
  <2>7. QED
    BY <2>1, <2>2, <2>3, <2>4, <2>5, <2>6, Zenon DEF HTypes
<1>14. ASSUME NEW m \in Msps, NEW c \in AllChans, csmencaps_rcv_ack(m, c) PROVE HTypes'
  <2>1. HFlagsT' /\ HListT' /\ HRxT' /\ HThrT' /\ HMspT' /\ HSeqT'
    BY <1>14, Zenon DEF csmencaps_rcv_ack, tblVars, sockVars, mspVars, HFlagsT, HListT,
       HRxT, HThrT, HMspT, HSeqT
  <2>2. HTxT'
    <3>1. target_find(m) \in Targets
      BY <1>14, FindInList DEF csmencaps_rcv_ack
    <3>2. Tail(txq[target_find(m)][c]) \in Seq(Socks)
      BY <1>14, <3>1 DEF csmencaps_rcv_ack, HTxT
    <3>3. QED
      BY <1>14, <3>1, <3>2 DEF csmencaps_rcv_ack, HTxT
  <2>3. HSockT'
    BY <1>14, ToSocketType DEF csmencaps_rcv_ack, HSockT
  <2>4. QED
    BY <2>1, <2>2, <2>3, Zenon DEF HTypes
<1>15. ASSUME NEW t \in Targets, NEW c \in AllChans, GiveUp(t, c) PROVE HTypes'
  <2>1. HFlagsT' /\ HListT' /\ HRxT' /\ HThrT' /\ HSockT' /\ HMspT' /\ HSeqT'
    BY <1>15, Zenon DEF GiveUp, tblVars, sockVars, mspVars, HFlagsT, HListT, HRxT, HThrT,
       HSockT, HMspT, HSeqT
  <2>2. HTxT'
    BY <1>15 DEF GiveUp, HTxT
  <2>3. QED
    BY <2>1, <2>2, Zenon DEF HTypes
<1>16. CASE csmencaps_init
  <2>1. HListT' /\ HRxT' /\ HTxT' /\ HThrT' /\ HSockT' /\ HMspT' /\ HSeqT'
    BY <1>16, Zenon DEF csmencaps_init, tblVars, sockVars, mspVars, HListT, HRxT, HTxT,
       HThrT, HSockT, HMspT, HSeqT
  <2>2. HFlagsT'
    BY <1>16 DEF csmencaps_init, HFlagsT
  <2>3. QED
    BY <2>1, <2>2, Zenon DEF HTypes
<1>17. CASE csmencaps_exit
  <2>1. HThrT' /\ HSockT' /\ HSeqT'
    BY <1>17, Zenon DEF csmencaps_exit, tblVars, sockVars, mspVars, HThrT, HSockT, HSeqT
  <2>2. HFlagsT'
    BY <1>17 DEF csmencaps_exit, HFlagsT
  <2>3. HListT'
    BY <1>17 DEF csmencaps_exit, target_remove_all, HListT, Macs
  <2>4. HRxT'
    BY <1>17, FreshType DEF csmencaps_exit, target_remove_all, HRxT
  <2>5. HTxT'
    BY <1>17 DEF csmencaps_exit, target_remove_all, HTxT
  <2>6. HMspT'
    BY <1>17, ForgetType DEF csmencaps_exit, HMspT
  <2>7. QED
    BY <2>1, <2>2, <2>3, <2>4, <2>5, <2>6, Zenon DEF HTypes
<1>18. ASSUME NEW m \in Msps, NEW c \in AllChans, NEW kind \in {"msg", "ready"},
                NEW made \in SUBSET Chans, made # {} => c = Supv, MspSend(m, c, kind, made)
       PROVE  HTypes'
  <2>1. HFlagsT' /\ HListT' /\ HRxT' /\ HTxT' /\ HThrT' /\ HSockT'
    BY <1>18, Zenon DEF MspSend, tblVars, sockVars, mspVars, HFlagsT, HListT, HRxT, HTxT,
       HThrT, HSockT
  <2>2. HMspT'
    <3>1. mspSeq[m][c] \in 0 .. SEQ_MOD - 1 /\ msp[m].id + 1 \in Nat
      BY DEF HSeqT, HMspT, MspRecs
    <3>2. [id |-> msp[m].id + 1, ch |-> c, seq |-> mspSeq[m][c], kind |-> kind,
           made |-> made, acked |-> FALSE, arrived |-> FALSE, times |-> 0] \in MspRecs
      BY <3>1 DEF MspRecs
    <3>3. QED
      BY <1>18, <3>2 DEF MspSend, HMspT
  <2>3. HSeqT'
    <3>1. \A d \in AllChans : MspNumber(mspSeq[m][d]) \in 0 .. SEQ_MOD - 1
            /\ mspSeq[m][d] \in 0 .. SEQ_MOD - 1
      BY NumberType DEF HSeqT
    <3>2. 0 \in 0 .. SEQ_MOD - 1
      OBVIOUS
    <3>3. PICK f \in [AllChans -> 0 .. SEQ_MOD - 1] : mspSeq' = [mspSeq EXCEPT ![m] = f]
      BY <1>18, <3>1, <3>2 DEF MspSend
    <3>4. QED
      BY <1>18, <3>3 DEF HSeqT
  <2>4. QED
    BY <2>1, <2>2, <2>3, Zenon DEF HTypes
<1>19. CASE UNCHANGED hostVars
  <2>1. HFlagsT' /\ HListT' /\ HRxT' /\ HTxT' /\ HThrT' /\ HSockT' /\ HMspT' /\ HSeqT'
    BY <1>19, Zenon DEF hostVars, tblVars, sockVars, mspVars, HFlagsT, HListT, HRxT, HTxT,
       HThrT, HSockT, HMspT, HSeqT
  <2>2. QED
    BY <2>1, Zenon DEF HTypes
<1>20. QED
  BY <1>1, <1>2, <1>3, <1>4, <1>5, <1>6, <1>7, <1>8, <1>9, <1>10, <1>11,
     <1>12, <1>13, <1>14, <1>15, <1>16, <1>17, <1>18, <1>19 DEF HostStep

-----------------------------------------------------------------------------
(* The stages of the calls                                                 *)

\* A step that gives thread x a record that is right, and leaves the sockets
\* that others purge alone, keeps all threads right.
LEMMA ThreadFrame ==
  ASSUME HThrT, ThreadsOk, NEW x \in Threads, NEW q, thr' = [thr EXCEPT ![x] = q],
         RecOk(q), q.pc # "purge",
         \A y \in Threads \ {x} : thr[y].pc = "purge" => skst'[thr[y].sk] = skst[thr[y].sk]
  PROVE  ThreadsOk'
<1>1. /\ thr'[x] = q
      /\ \A y \in Threads \ {x} : thr'[y] = thr[y]
  BY DEF HThrT
<1>2. \A y \in Threads : RecOk(thr'[y])
  BY <1>1, Zenon DEF ThreadsOk, ThreadOk
<1>3. \A y \in Threads : thr'[y].pc = "purge" => skst'[thr'[y].sk] = "dead"
  BY <1>1, Zenon DEF ThreadsOk, ThreadOk
<1>4. \A y, z \in Threads :
        thr'[y].pc = "purge" /\ thr'[z].pc = "purge" /\ thr'[y].sk = thr'[z].sk => y = z
  BY <1>1, Zenon DEF ThreadsOk
<1>5. RecOk(thr[x])' = RecOk(thr'[x])
  BY DEF RecOk
<1>6. \A y \in Threads : ThreadOk(y)'
  <2> TAKE y \in Threads
  <2>1. RecOk(thr'[y])
    BY <1>2
  <2>2. RecOk(thr[y])'
    BY <2>1 DEF RecOk
  <2>3. QED
    BY <1>3, <2>2 DEF ThreadOk
<1>7. QED
  BY <1>4, <1>6 DEF ThreadsOk

\* Done() and Goto() as one new record for the thread.
LEMMA ThreadMoves ==
  ASSUME HThrT, NEW x \in Threads
  PROVE  /\ Done(x) => thr' = [thr EXCEPT ![x] = Idle]
         /\ \A pc, t : Goto(x, pc, t)
              => thr' = [thr EXCEPT ![x] = [thr[x] EXCEPT !.pc = pc, !.t = t]]
         /\ RecOk(Idle) /\ Idle.pc = "idle"
  BY DEF HThrT, Done, Goto, Idle, RecOk, LookedUp

\* At each stage of a call the thread holds what that stage uses.
LEMMA ThreadsStep ==
  ASSUME HTypes, ThreadsOk, SocksOk, [HostStep]_hostVars
  PROVE  ThreadsOk'
<1> USE HostAssumption DEF HTypes
<1>1. ASSUME NEW x \in Threads, NEW r \in CallRecs, Called(x, r) PROVE ThreadsOk'
  <2>1. r \in ThrRecs /\ r.pc = "idle" /\ r.sk \in Socks /\ (r.op = "send"
          => r.ch \in Chans \cup {Supv})
    BY DEF CallRecs
  <2>2. target_find(r.mac) = None \/ target_find(r.mac) \in Targets
    BY FindInList
  <2>3. \/ thr' = thr
        \/ thr' = [thr EXCEPT ![x] = Idle]
        \/ /\ r.op \in {"maas", "reset"} /\ target_find(r.mac) # None
           /\ thr' = [thr EXCEPT ![x] = [r EXCEPT !.pc = "change", !.t = target_find(r.mac)]]
        \/ /\ r.op = "maas" \/ (r.op = "reset" /\ target_find(r.mac) # None)
           /\ thr' = [thr EXCEPT ![x] = [r EXCEPT !.pc = AfterChange(r.op),
                !.t = target_find(r.mac)]]
        \/ /\ r.op \notin {"maas", "reset"}
           /\ thr' = [thr EXCEPT ![x] = [r EXCEPT !.pc = "add"]]
        \/ /\ r.op \notin {"maas", "reset", "ackopt"} /\ target_find(r.mac) # None
           /\ thr' = [thr EXCEPT ![x] = [r EXCEPT !.pc = "chan", !.t = target_find(r.mac)]]
    BY <1>1 DEF Called, StartCall, AfterChange
  <2>4. PICK f : f = target_find(r.mac)
    OBVIOUS
  <2>5. /\ RecOk(Idle) /\ Idle.pc # "purge"
        /\ r.op \in {"maas", "reset"} /\ f # None => RecOk([r EXCEPT !.pc = "change", !.t = f])
        /\ r.op = "maas" \/ (r.op = "reset" /\ f # None)
             => RecOk([r EXCEPT !.pc = AfterChange(r.op), !.t = f])
        /\ r.op \notin {"maas", "reset"} => RecOk([r EXCEPT !.pc = "add"])
        /\ r.op \notin {"maas", "reset", "ackopt"} /\ f # None
             => RecOk([r EXCEPT !.pc = "chan", !.t = f])
    BY ONLY <2>1, <2>2, <2>4 DEF RecOk, ThrRecs, LookedUp, AfterChange, Idle
  <2>6. /\ \A t : [r EXCEPT !.pc = "change", !.t = t].pc # "purge"
             /\ [r EXCEPT !.pc = "chan", !.t = t].pc # "purge"
        /\ \A t : [r EXCEPT !.pc = AfterChange(r.op), !.t = t].pc # "purge"
             /\ [r EXCEPT !.pc = "add"].pc # "purge"
    BY ONLY <2>1 DEF ThrRecs, AfterChange
  <2>7. skst' = skst
    BY <1>1 DEF Called, sockVars
  <2>8. CASE thr' = thr
    BY <2>7, <2>8 DEF ThreadsOk, ThreadOk, RecOk
  <2>9. CASE thr' = [thr EXCEPT ![x] = Idle]
    <3>1. RecOk(Idle) /\ Idle.pc # "purge"
      BY ONLY <2>5, <2>6, <2>9
    <3>2. QED
      BY <2>7, <2>9, <3>1, ThreadFrame
  <2>10. CASE r.op \in {"maas", "reset"} /\ f # None
                /\ thr' = [thr EXCEPT ![x] = [r EXCEPT !.pc = "change", !.t = f]]
    <3>1. RecOk([r EXCEPT !.pc = "change", !.t = f])
            /\ [r EXCEPT !.pc = "change", !.t = f].pc # "purge"
      BY ONLY <2>5, <2>6, <2>10
    <3>2. QED
      BY <2>7, <2>10, <3>1, ThreadFrame
  <2>11. CASE (r.op = "maas" \/ (r.op = "reset" /\ f # None))
                /\ thr' = [thr EXCEPT ![x] = [r EXCEPT !.pc = AfterChange(r.op), !.t = f]]
    <3>1. RecOk([r EXCEPT !.pc = AfterChange(r.op), !.t = f])
            /\ [r EXCEPT !.pc = AfterChange(r.op), !.t = f].pc # "purge"
      BY ONLY <2>5, <2>6, <2>11
    <3>2. QED
      BY <2>7, <2>11, <3>1, ThreadFrame
  <2>12. CASE r.op \notin {"maas", "reset"} /\ thr' = [thr EXCEPT ![x] = [r EXCEPT !.pc = "add"]]
    <3>1. RecOk([r EXCEPT !.pc = "add"]) /\ [r EXCEPT !.pc = "add"].pc # "purge"
      BY ONLY <2>5, <2>6, <2>12
    <3>2. QED
      BY <2>7, <2>12, <3>1, ThreadFrame
  <2>13. CASE r.op \notin {"maas", "reset", "ackopt"} /\ f # None
                /\ thr' = [thr EXCEPT ![x] = [r EXCEPT !.pc = "chan", !.t = f]]
    <3>1. RecOk([r EXCEPT !.pc = "chan", !.t = f])
            /\ [r EXCEPT !.pc = "chan", !.t = f].pc # "purge"
      BY ONLY <2>5, <2>6, <2>13
    <3>2. QED
      BY <2>7, <2>13, <3>1, ThreadFrame
  <2>14. QED
    BY <2>3, <2>4, <2>8, <2>9, <2>10, <2>11, <2>12, <2>13, Zenon
<1>2. ASSUME NEW x \in Threads, target_change_mac(x) PROVE ThreadsOk'
  <2>1. thr[x] \in ThrRecs /\ RecOk(thr[x]) /\ thr[x].pc = "change"
    BY <1>2, FindInList DEF target_change_mac, HThrT, ThreadsOk, ThreadOk
  <2>2. \/ thr' = [thr EXCEPT ![x] = Idle]
        \/ thr' = [thr EXCEPT ![x] = [thr[x] EXCEPT !.pc = AfterChange(thr[x].op),
             !.t = thr[x].t]]
    BY <1>2, <2>1, ThreadMoves DEF target_change_mac
  <2>3. /\ RecOk(Idle) /\ Idle.pc # "purge"
        /\ RecOk([thr[x] EXCEPT !.pc = AfterChange(thr[x].op), !.t = thr[x].t])
             /\ [thr[x] EXCEPT !.pc = AfterChange(thr[x].op), !.t = thr[x].t].pc # "purge"
    BY ONLY <2>1 DEF RecOk, ThrRecs, LookedUp, AfterChange, Idle, IsBoot, AllChans
  <2>4. skst' = skst
    BY <1>2 DEF target_change_mac, sockVars
  <2>5. QED
    BY <2>2, <2>3, <2>4, ThreadFrame
<1>3. ASSUME NEW x \in Threads, csme_tx_maas(x) PROVE ThreadsOk'
  <2>1. PICK f : f = target_find(thr[x].new)
    OBVIOUS
  <2>2. thr[x] \in ThrRecs /\ RecOk(thr[x]) /\ thr[x].pc = "find" /\ (f = None \/ f \in Targets)
    BY <1>3, <2>1, FindInList DEF csme_tx_maas, HThrT, ThreadsOk, ThreadOk
  <2>3. CASE f = None
    <3>1. thr' = [thr EXCEPT ![x] = [thr[x] EXCEPT !.pc = "add", !.mac = thr[x].new]]
      BY <1>3, <2>1, <2>3 DEF csme_tx_maas, HThrT
    <3>2. RecOk([thr[x] EXCEPT !.pc = "add", !.mac = thr[x].new])
            /\ [thr[x] EXCEPT !.pc = "add", !.mac = thr[x].new].pc # "purge"
      BY ONLY <2>2 DEF RecOk, ThrRecs, LookedUp
    <3>3. skst' = skst
      BY <1>3 DEF csme_tx_maas, sockVars
    <3>4. QED
      BY <3>1, <3>2, <3>3, ThreadFrame
  <2>4. CASE f # None
    <3>1. thr' = [thr EXCEPT ![x] = [thr[x] EXCEPT !.pc = "chan", !.t = f]]
      BY <1>3, <2>1, <2>4 DEF csme_tx_maas, Goto, HThrT
    <3>2. RecOk([thr[x] EXCEPT !.pc = "chan", !.t = f])
            /\ [thr[x] EXCEPT !.pc = "chan", !.t = f].pc # "purge"
      BY ONLY <2>2, <2>4 DEF RecOk, ThrRecs, LookedUp
    <3>3. skst' = skst
      BY <1>3 DEF csme_tx_maas, sockVars
    <3>4. QED
      BY <3>1, <3>2, <3>3, ThreadFrame
  <2>5. QED
    BY <2>3, <2>4
<1>4. ASSUME NEW x \in Threads, csme_reset(x) PROVE ThreadsOk'
  <2>1. thr[x] \in ThrRecs /\ RecOk(thr[x]) /\ thr[x].pc = "reset"
    BY <1>4, FindInList DEF csme_reset, HThrT, ThreadsOk, ThreadOk
  <2>2. \/ thr' = [thr EXCEPT ![x] = Idle]
    BY <1>4, <2>1, ThreadMoves DEF csme_reset
  <2>3. /\ RecOk(Idle) /\ Idle.pc # "purge"
    BY ONLY <2>1 DEF RecOk, ThrRecs, LookedUp, AfterChange, Idle, IsBoot, AllChans
  <2>4. skst' = skst
    BY <1>4 DEF csme_reset, sockVars
  <2>5. QED
    BY <2>2, <2>3, <2>4, ThreadFrame
<1>5. ASSUME NEW x \in Threads, csme_tx_add(x) PROVE ThreadsOk'
  <2>1. CASE Done(x)
    <3>1. skst' = skst
      BY <1>5 DEF csme_tx_add, sockVars
    <3>2. QED
      BY <2>1, <3>1, ThreadMoves, ThreadFrame
  <2>2. ASSUME NEW t \in Targets, thr[x].op # "ackopt", Goto(x, "chan", t) PROVE ThreadsOk'
    <3>1. thr[x] \in ThrRecs /\ RecOk(thr[x]) /\ thr[x].pc = "add"
      BY <1>5 DEF csme_tx_add, HThrT, ThreadsOk, ThreadOk
    <3>2. RecOk([thr[x] EXCEPT !.pc = "chan", !.t = t])
            /\ [thr[x] EXCEPT !.pc = "chan", !.t = t].pc # "purge"
      BY ONLY <2>2, <3>1 DEF RecOk, ThrRecs, LookedUp
    <3>3. skst' = skst
      BY <1>5 DEF csme_tx_add, sockVars
    <3>4. thr' = [thr EXCEPT ![x] = [thr[x] EXCEPT !.pc = "chan", !.t = t]]
      BY <2>2 DEF Goto, HThrT
    <3>5. QED
      BY <3>2, <3>3, <3>4, ThreadFrame
  <2>3. QED
    BY <1>5, <2>1, <2>2 DEF csme_tx_add
<1>6. ASSUME NEW x \in Threads, csme_tx_chan(x) PROVE ThreadsOk'
  <2>1. thr[x] \in ThrRecs /\ RecOk(thr[x]) /\ thr[x].pc = "chan"
    BY <1>6 DEF csme_tx_chan, HThrT, ThreadsOk, ThreadOk
  <2>2. skst' = skst
    BY <1>6 DEF csme_tx_chan, sockVars
  <2>3. CASE Done(x)
    BY <2>2, <2>3, ThreadMoves, ThreadFrame
  <2>4. CASE /\ ~IsBoot(thr[x].op) /\ thr[x].ch # Supv /\ Goto(x, "chadd", thr[x].t)
    <3>1. thr' = [thr EXCEPT ![x] = [thr[x] EXCEPT !.pc = "chadd", !.t = thr[x].t]]
      BY <2>4 DEF Goto, HThrT
    <3>2. RecOk([thr[x] EXCEPT !.pc = "chadd", !.t = thr[x].t])
      BY ONLY <2>1, <2>4 DEF RecOk, ThrRecs, LookedUp, IsBoot
    <3>3. [thr[x] EXCEPT !.pc = "chadd", !.t = thr[x].t].pc # "purge"
      BY ONLY <2>1 DEF ThrRecs
    <3>4. QED
      BY <2>2, <3>1, <3>2, <3>3, ThreadFrame
  <2>5. QED
    BY <1>6, <2>3, <2>4 DEF csme_tx_chan, Transmit
<1>7. ASSUME NEW x \in Threads, channel_add(x) PROVE ThreadsOk'
  <2>1. thr[x] \in ThrRecs /\ RecOk(thr[x]) /\ thr[x].pc = "chadd"
    BY <1>7, FindInList DEF channel_add, HThrT, ThreadsOk, ThreadOk
  <2>2. \/ thr' = [thr EXCEPT ![x] = Idle]
    BY <1>7, <2>1, ThreadMoves DEF channel_add, Transmit
  <2>3. /\ RecOk(Idle) /\ Idle.pc # "purge"
    BY ONLY <2>1 DEF RecOk, ThrRecs, LookedUp, AfterChange, Idle, IsBoot, AllChans
  <2>4. skst' = skst
    BY <1>7 DEF channel_add, sockVars
  <2>5. QED
    BY <2>2, <2>3, <2>4, ThreadFrame
<1>8. ASSUME NEW x \in Threads, csmencaps_create(x) PROVE ThreadsOk'
  <2>1. thr[x] \in ThrRecs /\ RecOk(thr[x]) /\ thr[x].pc = "idle"
    BY <1>8, FindInList DEF csmencaps_create, HThrT, ThreadsOk, ThreadOk
  <2>2. \/ thr' = [thr EXCEPT ![x] = Idle]
        \/ thr' = [thr EXCEPT ![x] = [thr[x] EXCEPT !.pc = "create", !.t = None]]
    BY <1>8, <2>1, ThreadMoves DEF csmencaps_create
  <2>3. /\ RecOk(Idle) /\ Idle.pc # "purge"
        /\ RecOk([thr[x] EXCEPT !.pc = "create", !.t = None])
             /\ [thr[x] EXCEPT !.pc = "create", !.t = None].pc # "purge"
    BY ONLY <2>1 DEF RecOk, ThrRecs, LookedUp, AfterChange, Idle, IsBoot, AllChans
  <2>4. skst' = skst
    BY <1>8 DEF csmencaps_create, sockVars
  <2>5. QED
    BY <2>2, <2>3, <2>4, ThreadFrame
<1>9. ASSUME NEW x \in Threads, csmencaps_create_add(x) PROVE ThreadsOk'
  <2>1. \/ skst' = skst
        \/ \E s \in Socks : skst[s] = "none" /\ skst' = [skst EXCEPT ![s] = "listed"]
    BY <1>9 DEF csmencaps_create_add
  <2>2. \A y \in Threads \ {x} : thr[y].pc = "purge" => skst[thr[y].sk] = "dead"
          /\ thr[y].sk \in Socks
    BY DEF ThreadsOk, ThreadOk, RecOk
  <2>3. \A y \in Threads \ {x} : thr[y].pc = "purge" => skst'[thr[y].sk] = skst[thr[y].sk]
    BY <2>1, <2>2 DEF HSockT
  <2>4. QED
    BY <1>9, <2>3, ThreadMoves, ThreadFrame DEF csmencaps_create_add
<1>10. ASSUME NEW x \in Threads, NEW s \in Socks, csmencaps_recvmsg(x, s) PROVE ThreadsOk'
  <2>1. thr' = thr /\ skst' = skst
    BY <1>10, Zenon DEF csmencaps_recvmsg, tblVars, sockVars, mspVars
  <2>2. QED
    BY <2>1 DEF ThreadsOk, ThreadOk, RecOk
<1>11. ASSUME NEW x \in Threads, NEW s \in Socks, csmencaps_release(x, s) PROVE ThreadsOk'
  <2>1. thr' = [thr EXCEPT ![x] = [thr[x] EXCEPT !.pc = "purge", !.sk = s]]
    BY <1>11 DEF csmencaps_release, HThrT
  <2>2. thr[x] \in ThrRecs /\ skst[s] = "listed" /\ skst' = [skst EXCEPT ![s] = "dead"]
    BY <1>11 DEF csmencaps_release, HThrT
  <2>3. /\ thr'[x].pc = "purge" /\ thr'[x].sk = s
        /\ \A y \in Threads \ {x} : thr'[y] = thr[y]
    BY <2>1, <2>2 DEF HThrT, ThrRecs
  <2>4. \A y \in Threads : thr[y].pc = "purge" => skst[thr[y].sk] = "dead"
          /\ thr[y].sk \in Socks /\ thr[y].sk # s
    BY <2>2 DEF ThreadsOk, ThreadOk, RecOk
  <2>5. RecOk(thr'[x])
    BY <2>3 DEF RecOk, LookedUp
  <2>6. \A y \in Threads : RecOk(thr'[y])
    BY <2>3, <2>5, Zenon DEF ThreadsOk, ThreadOk
  <2>7. \A y \in Threads : thr'[y].pc = "purge" => skst'[thr'[y].sk] = "dead"
    BY <2>2, <2>3, <2>4 DEF HSockT
  <2>8. \A y \in Threads : ThreadOk(y)'
    BY <2>6, <2>7 DEF ThreadOk, RecOk
  <2>9. \A y, w \in Threads :
            thr'[y].pc = "purge" /\ thr'[w].pc = "purge" /\ thr'[y].sk = thr'[w].sk => y = w
    BY <2>3, <2>4 DEF ThreadsOk
  <2>10. QED
    BY <2>8, <2>9 DEF ThreadsOk
<1>12. ASSUME NEW x \in Threads, csmencaps_release_purge(x) PROVE ThreadsOk'
  <2>1. thr[x] \in ThrRecs /\ RecOk(thr[x]) /\ thr[x].pc = "purge" /\ thr[x].sk \in Socks
    BY <1>12, HeldType, FindInList DEF csmencaps_release_purge, HThrT, ThreadsOk, ThreadOk
  <2>2. \/ thr' = [thr EXCEPT ![x] = Idle]
    BY <1>12, <2>1, ThreadMoves DEF csmencaps_release_purge
  <2>3. /\ RecOk(Idle) /\ Idle.pc # "purge"
    BY ONLY <2>1 DEF RecOk, ThrRecs, LookedUp, AfterChange, Idle, IsBoot, AllChans
  <2>4. \A y \in Threads \ {x} : thr[y].pc = "purge" => skst'[thr[y].sk] = skst[thr[y].sk]
    BY <1>12, <2>1, HeldType DEF csmencaps_release_purge, HSockT, ThreadsOk
  <2>5. QED
    BY <2>2, <2>3, <2>4, ThreadFrame
<1>13. ASSUME NEW m \in Msps, csmencaps_rcv(m) PROVE ThreadsOk'
  <2>1. thr' = thr /\ skst' = skst
    BY <1>13, Zenon DEF csmencaps_rcv, tblVars, sockVars, mspVars
  <2>2. QED
    BY <2>1 DEF ThreadsOk, ThreadOk, RecOk
<1>14. ASSUME NEW m \in Msps, NEW c \in AllChans, csmencaps_rcv_ack(m, c) PROVE ThreadsOk'
  <2>1. thr' = thr /\ skst' = skst
    BY <1>14, Zenon DEF csmencaps_rcv_ack, tblVars, sockVars, mspVars
  <2>2. QED
    BY <2>1 DEF ThreadsOk, ThreadOk, RecOk
<1>15. ASSUME NEW t \in Targets, NEW c \in AllChans, GiveUp(t, c) PROVE ThreadsOk'
  <2>1. thr' = thr /\ skst' = skst
    BY <1>15, Zenon DEF GiveUp, tblVars, sockVars, mspVars
  <2>2. QED
    BY <2>1 DEF ThreadsOk, ThreadOk, RecOk
<1>16. CASE csmencaps_init
  <2>1. thr' = thr /\ skst' = skst
    BY <1>16, Zenon DEF csmencaps_init, tblVars, sockVars, mspVars
  <2>2. QED
    BY <2>1 DEF ThreadsOk, ThreadOk, RecOk
<1>17. CASE csmencaps_exit
  <2>1. thr' = thr /\ skst' = skst
    BY <1>17, Zenon DEF csmencaps_exit, tblVars, sockVars, mspVars
  <2>2. QED
    BY <2>1 DEF ThreadsOk, ThreadOk, RecOk
<1>18. ASSUME NEW m \in Msps, NEW c \in AllChans, NEW kind \in {"msg", "ready"},
                NEW made \in SUBSET Chans, made # {} => c = Supv, MspSend(m, c, kind, made)
       PROVE  ThreadsOk'
  <2>1. thr' = thr /\ skst' = skst
    BY <1>18, Zenon DEF MspSend, tblVars, sockVars, mspVars
  <2>2. QED
    BY <2>1 DEF ThreadsOk, ThreadOk, RecOk
<1>19. CASE UNCHANGED hostVars
  <2>1. thr' = thr /\ skst' = skst
    BY <1>19, Zenon DEF hostVars, tblVars, sockVars, mspVars
  <2>2. QED
    BY <2>1 DEF ThreadsOk, ThreadOk, RecOk
<1>20. QED
  BY <1>1, <1>2, <1>3, <1>4, <1>5, <1>6, <1>7, <1>8, <1>9, <1>10, <1>11,
     <1>12, <1>13, <1>14, <1>15, <1>16, <1>17, <1>18, <1>19 DEF HostStep

-----------------------------------------------------------------------------
(* The sockets                                                             *)

\* A packet is only ever queued on a socket that is on the list.
LEMMA ToSocketListed ==
  ASSUME HSockT, SocksOk, NEW what, ToSocket(what)
  PROVE  \A s \in Socks : skst[s] # "listed" => rq'[s] = rq[s]
<1>1. HasRoom => csme_get_socket \in Socks /\ InSks(csme_get_socket)
  BY DEF HasRoom, csme_get_socket, HSockT, InSks
<1>2. HasRoom => \A s \in Socks : skst[s] # "listed" => csme_get_socket # s
  BY <1>1 DEF SocksOk
<1>3. QED
  BY <1>2 DEF ToSocket, HSockT

\* Steps that only queue on or empty sockets keep the sockets right.
LEMMA SocksFrame ==
  ASSUME SocksOk, UNCHANGED <<sklist, skst>>,
         \A s \in Socks : skst[s] # "listed" => rq'[s] = rq[s] \/ rq'[s] = <<>>
  PROVE  SocksOk'
  BY DEF SocksOk, SksOnce, InSks

\* csmencaps_rcv() only changes the queue of a socket on the list.
LEMMA RcvListed ==
  ASSUME HTypes, SocksOk, NEW m \in Msps, csmencaps_rcv(m)
  PROVE  \A s \in Socks : skst[s] # "listed" => rq'[s] = rq[s]
<1>1. rq' = rq \/ \E t : csme_rx_msg(m, t, msp[m])
  BY RcvIs DEF HTypes
<1>2. rq' = rq \/ ToSocket("msg")
  BY <1>1 DEF csme_rx_msg
<1>3. QED
  BY <1>2, ToSocketListed DEF HTypes

\* Between sk_del_node_init() and the purge a socket is dead: nothing is
\* queued on it, so that it is empty for good once it is purged.
LEMMA SocksStep ==
  ASSUME HTypes, ThreadsOk, SocksOk, [HostStep]_hostVars
  PROVE  SocksOk'
<1> USE HostAssumption DEF HTypes
<1>1. ASSUME NEW x \in Threads, NEW r \in CallRecs, Called(x, r) PROVE SocksOk'
  <2>1. UNCHANGED <<sklist, skst, rq>>
    BY <1>1, Zenon DEF Called, tblVars, sockVars, mspVars
  <2>2. QED
    BY <2>1, SocksFrame
<1>2. ASSUME NEW x \in Threads, target_change_mac(x) PROVE SocksOk'
  <2>1. UNCHANGED <<sklist, skst, rq>>
    BY <1>2, Zenon DEF target_change_mac, tblVars, sockVars, mspVars
  <2>2. QED
    BY <2>1, SocksFrame
<1>3. ASSUME NEW x \in Threads, csme_tx_maas(x) PROVE SocksOk'
  <2>1. UNCHANGED <<sklist, skst, rq>>
    BY <1>3, Zenon DEF csme_tx_maas, tblVars, sockVars, mspVars
  <2>2. QED
    BY <2>1, SocksFrame
<1>4. ASSUME NEW x \in Threads, csme_reset(x) PROVE SocksOk'
  <2>1. UNCHANGED <<sklist, skst, rq>>
    BY <1>4, Zenon DEF csme_reset, tblVars, sockVars, mspVars
  <2>2. QED
    BY <2>1, SocksFrame
<1>5. ASSUME NEW x \in Threads, csme_tx_add(x) PROVE SocksOk'
  <2>1. UNCHANGED <<sklist, skst, rq>>
    BY <1>5, Zenon DEF csme_tx_add, tblVars, sockVars, mspVars
  <2>2. QED
    BY <2>1, SocksFrame
<1>6. ASSUME NEW x \in Threads, csme_tx_chan(x) PROVE SocksOk'
  <2>1. UNCHANGED <<sklist, skst, rq>>
    BY <1>6, Zenon DEF csme_tx_chan, tblVars, sockVars, mspVars
  <2>2. QED
    BY <2>1, SocksFrame
<1>7. ASSUME NEW x \in Threads, channel_add(x) PROVE SocksOk'
  <2>1. UNCHANGED <<sklist, skst, rq>>
    BY <1>7, Zenon DEF channel_add, tblVars, sockVars, mspVars
  <2>2. QED
    BY <2>1, SocksFrame
<1>8. ASSUME NEW x \in Threads, csmencaps_create(x) PROVE SocksOk'
  <2>1. UNCHANGED <<sklist, skst, rq>>
    BY <1>8, Zenon DEF csmencaps_create, tblVars, sockVars, mspVars
  <2>2. QED
    BY <2>1, SocksFrame
<1>9. ASSUME NEW x \in Threads, csmencaps_create_add(x) PROVE SocksOk'
  <2>1. CASE UNCHANGED <<sklist, skst>>
    BY <1>9, <2>1, SocksFrame DEF csmencaps_create_add
  <2>2. ASSUME NEW s \in Socks, skst[s] = "none", sklist' = <<s>> \o sklist,
                 skst' = [skst EXCEPT ![s] = "listed"]
        PROVE  SocksOk'
    <3>1. /\ Len(sklist) \in Nat /\ DOMAIN sklist = 1 .. Len(sklist)
               /\ DOMAIN sklist' = 1 .. Len(sklist) + 1
          /\ sklist'[1] = s /\ \A i \in DOMAIN sklist : sklist'[i + 1] = sklist[i]
          /\ \A i \in DOMAIN sklist : sklist[i] \in Socks
      BY <2>2 DEF HSockT
    <3>2. \A i \in DOMAIN sklist' : i = 1 \/ (i - 1 \in DOMAIN sklist
            /\ sklist'[i] = sklist[i - 1])
      BY <3>1
    <3>3. \A i \in DOMAIN sklist : i + 1 \in DOMAIN sklist'
      BY <3>1
    <3>4. \A i \in DOMAIN sklist : sklist[i] # s
      BY <2>2, <3>1 DEF SocksOk, InSks
    <3>5. SksOnce'
      BY <3>1, <3>2, <3>4 DEF SocksOk, SksOnce
    <3>6. \A u \in Socks \ {s} : InSks(u)' <=> InSks(u)
      BY <3>1, <3>2, <3>3 DEF InSks
    <3>7. InSks(s)'
      BY <3>1 DEF InSks
    <3>8. \A u \in Socks : skst'[u] = "listed" <=> InSks(u)'
      BY <2>2, <3>6, <3>7 DEF SocksOk, HSockT
    <3>9. \A u \in Socks : skst'[u] \in {"none", "put"} => rq'[u] = <<>>
      BY <1>9, <2>2 DEF csmencaps_create_add, SocksOk, HSockT
    <3>10. QED
      BY <3>5, <3>8, <3>9 DEF SocksOk
  <2>3. QED
    BY <1>9, <2>1, <2>2 DEF csmencaps_create_add
<1>10. ASSUME NEW x \in Threads, NEW s \in Socks, csmencaps_recvmsg(x, s) PROVE SocksOk'
  <2>1. UNCHANGED <<sklist, skst>> /\ skst[s] = "listed" /\ rq' = [rq EXCEPT ![s] = Tail(@)]
    BY <1>10 DEF csmencaps_recvmsg
  <2>2. QED
    BY <2>1, SocksFrame DEF HSockT
<1>11. ASSUME NEW x \in Threads, NEW s \in Socks, csmencaps_release(x, s) PROVE SocksOk'
  <2>1. InSks(s)
    BY <1>11 DEF csmencaps_release, SocksOk
  <2>2. PICK k \in DOMAIN sklist :
          /\ sklist[k] = s /\ sklist' \in Seq(Socks) /\ Len(sklist') = Len(sklist) - 1
          /\ \A j \in DOMAIN sklist' : sklist'[j] = sklist[IF j < k THEN j ELSE j + 1]
    BY <1>11, <2>1, ReleaseIs DEF csmencaps_release
  <2>3. /\ Len(sklist) \in Nat /\ DOMAIN sklist = 1 .. Len(sklist)
             /\ DOMAIN sklist' = 1 .. Len(sklist) - 1
        /\ \A i \in DOMAIN sklist : sklist[i] \in Socks
    BY <2>2 DEF HSockT
  <2>4. \A j \in DOMAIN sklist' : (IF j < k THEN j ELSE j + 1) \in DOMAIN sklist \ {k}
    BY <2>2, <2>3
  <2>5. SksOnce'
    BY <2>2, <2>3, <2>4 DEF SocksOk, SksOnce
  <2>6. ~InSks(s)'
    BY <2>2, <2>4 DEF SocksOk, SksOnce, InSks
  <2>7. ASSUME NEW u \in Socks \ {s} PROVE InSks(u)' <=> InSks(u)
    <3>1. InSks(u)' => InSks(u)
      BY <2>2, <2>4 DEF InSks
    <3>2. ASSUME NEW i \in DOMAIN sklist, sklist[i] = u PROVE InSks(u)'
      <4>1. CASE i < k
        BY <2>2, <2>3, <3>2, <4>1 DEF InSks
      <4>2. CASE i > k
        <5>1. i - 1 \in DOMAIN sklist' /\ ~(i - 1 < k) /\ (i - 1) + 1 = i
          BY <2>3, <4>2
        <5>2. QED
          BY <2>2, <3>2, <5>1 DEF InSks
      <4>3. i # k
        BY <2>2, <3>2
      <4>4. QED
        BY <2>3, <4>1, <4>2, <4>3
    <3>3. QED
      BY <3>1, <3>2 DEF InSks
  <2>8. skst' = [skst EXCEPT ![s] = "dead"] /\ rq' = rq
    BY <1>11 DEF csmencaps_release
  <2>9. \A u \in Socks : skst'[u] = "listed" <=> InSks(u)'
    BY <2>6, <2>7, <2>8 DEF SocksOk, HSockT
  <2>10. \A u \in Socks : skst'[u] \in {"none", "put"} => rq'[u] = <<>>
    BY <2>8 DEF SocksOk, HSockT
  <2>11. QED
    BY <2>5, <2>9, <2>10 DEF SocksOk
<1>12. ASSUME NEW x \in Threads, csmencaps_release_purge(x) PROVE SocksOk'
  <2>1. thr[x].pc = "purge" /\ thr[x].sk \in Socks /\ skst[thr[x].sk] = "dead"
    BY <1>12, HeldType DEF csmencaps_release_purge, ThreadsOk, ThreadOk
  <2>2. /\ sklist' = sklist /\ rq' = [rq EXCEPT ![thr[x].sk] = <<>>]
        /\ skst' = [skst EXCEPT ![thr[x].sk] = "put"]
    BY <1>12 DEF csmencaps_release_purge
  <2>3. QED
    BY <2>1, <2>2 DEF SocksOk, SksOnce, InSks, HSockT
<1>13. ASSUME NEW m \in Msps, csmencaps_rcv(m) PROVE SocksOk'
  <2>1. UNCHANGED <<sklist, skst>>
    BY <1>13 DEF csmencaps_rcv
  <2>2. QED
    BY <1>13, <2>1, RcvListed, SocksFrame
<1>14. ASSUME NEW m \in Msps, NEW c \in AllChans, csmencaps_rcv_ack(m, c) PROVE SocksOk'
  <2>1. UNCHANGED <<sklist, skst>> /\ (rq' = rq \/ ToSocket("ack"))
    BY <1>14 DEF csmencaps_rcv_ack
  <2>2. QED
    BY <2>1, ToSocketListed, SocksFrame
<1>15. ASSUME NEW t \in Targets, NEW c \in AllChans, GiveUp(t, c) PROVE SocksOk'
  <2>1. UNCHANGED <<sklist, skst, rq>>
    BY <1>15, Zenon DEF GiveUp, tblVars, sockVars, mspVars
  <2>2. QED
    BY <2>1, SocksFrame
<1>16. CASE csmencaps_init
  <2>1. UNCHANGED <<sklist, skst, rq>>
    BY <1>16, Zenon DEF csmencaps_init, tblVars, sockVars, mspVars
  <2>2. QED
    BY <2>1, SocksFrame
<1>17. CASE csmencaps_exit
  <2>1. UNCHANGED <<sklist, skst, rq>>
    BY <1>17, Zenon DEF csmencaps_exit, tblVars, sockVars, mspVars
  <2>2. QED
    BY <2>1, SocksFrame
<1>18. ASSUME NEW m \in Msps, NEW c \in AllChans, NEW kind \in {"msg", "ready"},
                NEW made \in SUBSET Chans, made # {} => c = Supv, MspSend(m, c, kind, made)
       PROVE  SocksOk'
  <2>1. UNCHANGED <<sklist, skst, rq>>
    BY <1>18, Zenon DEF MspSend, tblVars, sockVars, mspVars
  <2>2. QED
    BY <2>1, SocksFrame
<1>19. CASE UNCHANGED hostVars
  <2>1. UNCHANGED <<sklist, skst, rq>>
    BY <1>19, Zenon DEF hostVars, tblVars, sockVars, mspVars
  <2>2. QED
    BY <2>1, SocksFrame
<1>20. QED
  BY <1>1, <1>2, <1>3, <1>4, <1>5, <1>6, <1>7, <1>8, <1>9, <1>10, <1>11,
     <1>12, <1>13, <1>14, <1>15, <1>16, <1>17, <1>18, <1>19 DEF HostStep

-----------------------------------------------------------------------------
(* The target of a packet                                                  *)

\* The target a packet of m is handed to is the one that the next packet of m
\* will find, and the other MSPs find the ones they found before.
LEMMA RcvFinds ==
  ASSUME HTypes, NEW m \in Msps, csmencaps_rcv(m)
  PROVE  \/ UNCHANGED <<list, mac, proc, lastRx, txq, msp>>
         \/ \E t \in Targets :
              /\ InList(t) /\ mac[t] \in {m, Bcast} /\ mac' = [mac EXCEPT ![t] = m]
              /\ mac[t] = Bcast => target_find(m) = None
              /\ target_find(m) \in {t, None} /\ target_find(m)' = t
              /\ \A u \in Msps \ {m} : target_find(u)' = target_find(u)
              /\ (mac[t] = m /\ proc' = proc) \/ proc' = (proc \ {mac[t]}) \cup {m}
              /\ \/ UNCHANGED <<lastRx, txq, msp>>
                 \/ /\ csme_rx_msg(m, t, msp[m])
                    /\ msp[m].ch \in Chans => msp[m].ch \in chan[t]
<1> USE HostAssumption DEF HTypes
<1>1. /\ list \in Seq(Targets) /\ mac \in [Targets -> Macs] /\ list' = list
      /\ Bcast # m /\ \A u \in Msps : u # Bcast
  BY DEF HListT, csmencaps_rcv
<1>2. CASE UNCHANGED <<list, mac, proc, lastRx, txq, msp>>
  BY <1>2
<1>3. ASSUME NEW t \in Targets, InList(t), mac[t] \in {m, Bcast}, mac' = [mac EXCEPT ![t] = m],
             mac[t] = Bcast => target_find(m) = None, mac[t] = m => target_find(m) = t
      PROVE  /\ target_find(m)' = t
             /\ \A u \in Msps \ {m} : target_find(u)' = target_find(u)
  <2>1. \A i \in DOMAIN list : list[i] \in Targets
    BY <1>1
  <2>2. ASSUME NEW u \in Msps \ {m} PROVE target_find(u)' = target_find(u)
    <3>1. \A i \in DOMAIN list : mac[list[i]] = u <=> mac'[list[i]] = u
      BY <1>1, <1>3, <2>1
    <3>2. FindIn(list, mac', u) = FindIn(list, mac, u)
      BY ONLY <1>1, <3>1, FindSame
    <3>3. QED
      BY <1>1, <3>2, FindDef
  <2>3. CASE mac[t] = Bcast
    <3>1. \A i \in DOMAIN list : mac[list[i]] # m
      BY <1>1, <1>3, <2>3, FindInList, <2>1 DEF InList
    <3>2. \A i \in DOMAIN list : mac'[list[i]] = m <=> list[i] = t
      BY <1>1, <1>3, <2>1, <3>1
    <3>3. PICK k \in DOMAIN list : list[k] = t
      BY <1>3 DEF InList
    <3>4. \E i \in DOMAIN list : FindIn(list, mac', m) = list[i] /\ mac'[list[i]] = m
      <4>1. ~ \A i \in DOMAIN list : mac'[list[i]] # m
        BY <3>2, <3>3
      <4>2. QED
        BY ONLY <1>1, <4>1, FindIs
    <3>5. FindIn(list, mac', m) = t
      BY <3>2, <3>4
    <3>6. QED
      BY <1>1, <3>5, <2>2, FindDef
  <2>4. CASE mac[t] = m /\ target_find(m) = t
    <3>1. mac' = mac
      BY <1>1, <1>3, <2>4
    <3>2. QED
      BY <1>1, <2>2, <2>4, <3>1 DEF target_find
  <2>5. QED
    BY <1>3, <2>2, <2>3, <2>4
<1>4. \A t : csme_rx(m, t, msp[m]) =>
        \/ UNCHANGED <<lastRx, txq, msp>>
        \/ /\ csme_rx_msg(m, t, msp[m])
           /\ msp[m].ch \in Chans => msp[m].ch \in chan[t]
  BY DEF csme_rx
<1>5. CASE msp[m].kind = "ready" /\ check_ready_received(m)
  <2>1. PICK t : t = ReadyTarget(m)
    OBVIOUS
  <2>2. /\ t \in Targets /\ InList(t) /\ mac[t] \in {m, Bcast}
        /\ mac[t] = Bcast => target_find(m) = None
        /\ mac[t] = m => target_find(m) = t
        /\ target_find(m) \in {t, None}
    BY <1>1, <1>5, <2>1, FindInList DEF check_ready_received, ReadyTarget
  <2>3. /\ mac' = [mac EXCEPT ![t] = m] /\ proc' = (proc \ {mac[t]}) \cup {m}
        /\ csme_rx(m, t, msp[m])
    BY <1>5, <2>1 DEF csmencaps_rcv
  <2>4. QED
    BY <1>3, <1>4, <2>2, <2>3, Zenon
<1>6. CASE msp[m].kind # "ready" /\ target_find(m) # None
  <2>1. PICK t : t = target_find(m)
    OBVIOUS
  <2>2. t \in Targets /\ InList(t) /\ mac[t] = m
    BY <1>6, <2>1, FindInList
  <2>3. UNCHANGED <<mac, proc>> /\ csme_rx(m, t, msp[m])
    BY <1>6, <2>1 DEF csmencaps_rcv
  <2>4. mac' = [mac EXCEPT ![t] = m]
    BY <1>1, <2>2, <2>3
  <2>5. /\ target_find(m)' = t
        /\ \A u \in Msps \ {m} : target_find(u)' = target_find(u)
    BY <1>1, <1>3, <2>1, <2>2, <2>4
  <2>6. QED
    BY <1>1, <1>4, <2>1, <2>2, <2>3, <2>4, <2>5, Zenon
<1>7. CASE msp[m].kind # "ready" /\ target_find(m) = None
  <2>1. csme_rx(m, None, msp[m]) /\ UNCHANGED <<list, mac, proc>>
    BY <1>7 DEF csmencaps_rcv
  <2>2. QED
    BY <1>2, <2>1 DEF csme_rx
<1>8. CASE msp[m].kind = "ready" /\ ~check_ready_received(m)
  BY <1>1, <1>2, <1>8 DEF csmencaps_rcv
<1>9. QED
  BY <1>5, <1>6, <1>7, <1>8

-----------------------------------------------------------------------------
(* A message is taken once                                                 *)

\* Forget() only clears how often a message was given to the socket.
LEMMA ForgetIs ==
  ASSUME HMspT, NEW S, NEW m \in Msps
  PROVE  /\ m \notin S => Forget(S)[m] = msp[m]
         /\ m \in S => Forget(S)[m] = [msp[m] EXCEPT !.times = 0] /\ Forget(S)[m].times = 0
         /\ Forget(S)[m].id = msp[m].id /\ Forget(S)[m].ch = msp[m].ch
              /\ Forget(S)[m].seq = msp[m].seq
         /\ Forget(S)[m].made = msp[m].made /\ Forget(S)[m].acked = msp[m].acked
         /\ Forget(S)[m].arrived = msp[m].arrived
  BY DEF HMspT, Forget, MspRecs

\* Messages are remembered by a step that forgets those of S and leaves the
\* targets of the others alone.
LEMMA OnceKept ==
  ASSUME HTypes, OnceInv, NEW S, msp' = Forget(S),
         \A m \in Msps \ S : target_find(m)' = target_find(m),
         \A m \in Msps \ S : \A c \in AllChans :
            target_find(m) # None => lastRx'[target_find(m)][c] = lastRx[target_find(m)][c]
  PROVE  OnceInv'
<1> SUFFICES ASSUME NEW m \in Msps
             PROVE  (/\ msp[m].made # {} => msp[m].ch = Supv
                     /\ msp[m].times <= 1 /\ Heard(m))'
  BY DEF OnceInv
<1>1. msp'[m].made = msp[m].made /\ msp'[m].ch = msp[m].ch
  BY ForgetIs, ZenonT(40) DEF HTypes
<1>2. CASE m \in S
  <2>1. msp'[m].times = 0
    <3>1. HMspT
      BY DEF HTypes
    <3>2. Forget(S)[m].times = 0
      BY ONLY <1>2, <3>1, m \in Msps, ForgetIs, ZenonT(40)
    <3>3. QED
      BY <3>2
  <2>2. QED
    BY <1>1, <2>1 DEF OnceInv, Heard
<1>3. CASE m \notin S
  <2>1. msp'[m] = msp[m] /\ msp[m].ch \in AllChans
    <3>1. HMspT
      BY DEF HTypes
    <3>2. Forget(S)[m] = msp[m]
      BY ONLY <1>3, <3>1, m \in Msps, ForgetIs
    <3>3. QED
      BY <3>1, <3>2 DEF HMspT, MspRecs
  <2>2. Heard(m)'
    BY <1>3, <2>1 DEF OnceInv, Heard
  <2>3. QED
    BY <2>1, <2>2 DEF OnceInv
<1>4. QED
  BY <1>2, <1>3

\* target_reset() forgets the messages of the target's address, and no other
\* is looked up there.
LEMMA OnceReset ==
  ASSUME HTypes, OnceInv, NEW t \in Targets, target_reset(t), UNCHANGED <<list, mac>>
  PROVE  OnceInv'
<1>1. msp' = Forget({mac[t]})
  BY DEF target_reset
<1>2. \A m : target_find(m)' = target_find(m)
  BY DEF target_find
<1>3. \A m : target_find(m) = None \/ (mac[target_find(m)] = m /\ target_find(m) \in Targets)
  BY FindInList DEF HTypes
<1>4. \A u \in Targets \ {t} : lastRx'[u] = lastRx[u]
  BY DEF target_reset, HTypes, HRxT
<1>5. QED
  BY <1>1, <1>2, <1>3, <1>4, OnceKept

\* Every step keeps, for a message that was given to the socket, its number
\* as the last of its channel in the target where a repetition will be looked
\* up.
LEMMA OnceStep ==
  ASSUME HTypes, ThreadsOk, OnceInv, [HostStep]_hostVars
  PROVE  OnceInv'
<1> USE HostAssumption DEF HTypes
<1>1. ASSUME NEW x \in Threads, NEW r \in CallRecs, Called(x, r) PROVE OnceInv'
  <2>1. UNCHANGED <<list, mac, lastRx, msp>>
    BY <1>1, Zenon DEF Called, tblVars, sockVars, mspVars
  <2>2. QED
    BY <2>1 DEF OnceInv, Heard, target_find
<1>2. ASSUME NEW x \in Threads, target_change_mac(x) PROVE OnceInv'
  <2>1. PICK t : t = thr[x].t
    OBVIOUS
  <2>2. /\ t \in Targets /\ UNCHANGED <<list, lastRx>>
        /\ mac' = [mac EXCEPT ![t] = thr[x].new] /\ msp' = Forget({mac[t], thr[x].new})
    BY <1>2, <2>1, HeldType DEF target_change_mac
  <2>3. list \in Seq(Targets) /\ \A i \in DOMAIN list : list[i] \in Targets
    BY DEF HListT
  <2>4. ASSUME NEW m \in Msps \ {mac[t], thr[x].new} PROVE target_find(m)' = target_find(m)
    <3>1. \A i \in DOMAIN list : mac[list[i]] = m <=> mac'[list[i]] = m
      BY <2>2, <2>3, <2>4 DEF HListT
    <3>2. FindIn(list, mac', m) = FindIn(list, mac, m)
      BY ONLY <2>3, <3>1, FindSame
    <3>3. QED
      BY <2>2, <3>2, FindDef
  <2>5. QED
    BY <2>2, <2>4, OnceKept
<1>3. ASSUME NEW x \in Threads, csme_tx_maas(x) PROVE OnceInv'
  <2>1. UNCHANGED <<list, mac>>
    BY <1>3 DEF csme_tx_maas
  <2>2. CASE UNCHANGED <<lastRx, msp>>
    BY <2>1, <2>2 DEF OnceInv, Heard, target_find
  <2>3. CASE target_find(thr[x].new) # None
    <3>1. target_find(thr[x].new) \in Targets
      BY <2>3, FindInList
    <3>2. QED
      BY <1>3, <2>1, <2>3, <3>1, OnceReset DEF csme_tx_maas
  <2>4. QED
    BY <1>3, <2>2, <2>3 DEF csme_tx_maas
<1>4. ASSUME NEW x \in Threads, csme_reset(x) PROVE OnceInv'
  BY <1>4, HeldType, OnceReset DEF csme_reset
<1>5. ASSUME NEW x \in Threads, csme_tx_add(x) PROVE OnceInv'
  <2>1. CASE UNCHANGED <<list, mac, chan, lastRx, txq, proc, msp>>
    BY <2>1 DEF OnceInv, Heard, target_find
  <2>2. ASSUME NEW t \in Targets, target_add(t, thr[x].mac) PROVE OnceInv'
    <3>1. /\ t \notin Range(list) /\ list' = <<t>> \o list
               /\ mac' = [mac EXCEPT ![t] = thr[x].mac]
          /\ msp' = Forget({thr[x].mac}) /\ lastRx' = [lastRx EXCEPT ![t] = FreshSeqs]
      BY <2>2 DEF target_add
    <3>2. list \in Seq(Targets) /\ \A i \in DOMAIN list : list[i] \in Targets /\ list[i] # t
      BY <3>1 DEF HListT, Range
    <3>3. \A i \in DOMAIN list : mac[list[i]] = mac'[list[i]]
      BY <3>1, <3>2 DEF HListT
    <3>4. mac'[t] = thr[x].mac
      BY <3>1 DEF HListT
    <3>5. ASSUME NEW m \in Msps \ {thr[x].mac} PROVE target_find(m)' = target_find(m)
      <4>1. mac'[t] # m
        BY <3>4, <3>5
      <4>2. FindIn(<<t>> \o list, mac', m) = FindIn(list, mac, m)
        BY ONLY <3>2, <3>3, <4>1, t \in Targets, FindCons
      <4>3. QED
        BY <3>1, <4>2, FindDef
    <3>6. \A m : target_find(m) # None => target_find(m) \in Targets /\ target_find(m) # t
      BY <3>2, FindInList DEF InList
    <3>7. \A m : target_find(m) # None => lastRx'[target_find(m)] = lastRx[target_find(m)]
      BY <3>1, <3>6 DEF HRxT
    <3>8. QED
      BY <3>1, <3>5, <3>7, OnceKept
  <2>3. QED
    BY <1>5, <2>1, <2>2 DEF csme_tx_add
<1>6. ASSUME NEW x \in Threads, csme_tx_chan(x) PROVE OnceInv'
  <2>1. UNCHANGED <<list, mac, lastRx, msp>>
    BY <1>6, Zenon DEF csme_tx_chan, tblVars, sockVars, mspVars
  <2>2. QED
    BY <2>1 DEF OnceInv, Heard, target_find
<1>7. ASSUME NEW x \in Threads, channel_add(x) PROVE OnceInv'
  <2>1. /\ thr[x].t \in Targets /\ UNCHANGED <<list, mac>>
    BY <1>7, HeldType DEF channel_add
  <2>2. CASE UNCHANGED <<lastRx, msp>>
    BY <2>1, <2>2 DEF OnceInv, Heard, target_find
  <2>3. CASE lastRx' = [lastRx EXCEPT ![thr[x].t][thr[x].ch] = NoSeq]
               /\ msp' = Forget({mac[thr[x].t]})
    <3>1. \A m : target_find(m)' = target_find(m)
      BY <2>1 DEF target_find
    <3>2. \A m : target_find(m) = None \/ (mac[target_find(m)] = m /\ target_find(m) \in Targets)
      BY FindInList
    <3>3. \A u \in Targets \ {thr[x].t} : lastRx'[u] = lastRx[u]
      BY <2>1, <2>3 DEF HRxT
    <3>4. QED
      BY <2>3, <3>1, <3>2, <3>3, OnceKept
  <2>4. QED
    BY <1>7, <2>2, <2>3 DEF channel_add
<1>8. ASSUME NEW x \in Threads, csmencaps_create(x) PROVE OnceInv'
  <2>1. UNCHANGED <<list, mac, lastRx, msp>>
    BY <1>8, Zenon DEF csmencaps_create, tblVars, sockVars, mspVars
  <2>2. QED
    BY <2>1 DEF OnceInv, Heard, target_find
<1>9. ASSUME NEW x \in Threads, csmencaps_create_add(x) PROVE OnceInv'
  <2>1. UNCHANGED <<list, mac, lastRx, msp>>
    BY <1>9, Zenon DEF csmencaps_create_add, tblVars, sockVars, mspVars
  <2>2. QED
    BY <2>1 DEF OnceInv, Heard, target_find
<1>10. ASSUME NEW x \in Threads, NEW s \in Socks, csmencaps_recvmsg(x, s) PROVE OnceInv'
  <2>1. UNCHANGED <<list, mac, lastRx, msp>>
    BY <1>10, Zenon DEF csmencaps_recvmsg, tblVars, sockVars, mspVars
  <2>2. QED
    BY <2>1 DEF OnceInv, Heard, target_find
<1>11. ASSUME NEW x \in Threads, NEW s \in Socks, csmencaps_release(x, s) PROVE OnceInv'
  <2>1. UNCHANGED <<list, mac, lastRx, msp>>
    BY <1>11, Zenon DEF csmencaps_release, tblVars, sockVars, mspVars
  <2>2. QED
    BY <2>1 DEF OnceInv, Heard, target_find
<1>12. ASSUME NEW x \in Threads, csmencaps_release_purge(x) PROVE OnceInv'
  <2>1. UNCHANGED <<list, mac, lastRx, msp>>
    BY <1>12, Zenon DEF csmencaps_release_purge, tblVars, sockVars, mspVars
  <2>2. QED
    BY <2>1 DEF OnceInv, Heard, target_find
<1>13. ASSUME NEW m \in Msps, csmencaps_rcv(m) PROVE OnceInv'
  <2>1. CASE UNCHANGED <<list, mac, lastRx, msp>>
    BY <2>1 DEF OnceInv, Heard, target_find
  <2>2. ASSUME NEW t \in Targets, target_find(m) \in {t, None}, target_find(m)' = t,
               \A u \in Msps \ {m} : target_find(u)' = target_find(u), mac[t] \in {m, Bcast},
               \/ UNCHANGED <<lastRx, msp>>
               \/ csme_rx_msg(m, t, msp[m])
        PROVE OnceInv'
    <3>1. CASE UNCHANGED <<lastRx, msp>>
      <4>1. \A u \in Msps \ {m} : Heard(u)'
        BY <2>2, <3>1 DEF OnceInv, Heard
      <4>2. Heard(m)'
        BY <2>2, <3>1 DEF OnceInv, Heard
      <4>3. QED
        BY <3>1, <4>1, <4>2 DEF OnceInv
    <3>2. CASE csme_rx_msg(m, t, msp[m])
      <4>1. \A u \in Msps \ {m} : msp'[u] = msp[u]
        BY <3>2 DEF csme_rx_msg, HMspT
      <4>2. \A u \in Targets \ {t} : lastRx'[u] = lastRx[u]
        BY <3>2 DEF csme_rx_msg, HRxT
      <4>3. \A u \in Msps \ {m} : target_find(u) # None => target_find(u) \in Targets \ {t}
        BY <2>2, FindInList
      <4>4. \A u \in Msps \ {m} : Heard(u)'
        BY <2>2, <4>1, <4>2, <4>3 DEF OnceInv, Heard
      <4>5. /\ msp[m].ch \in AllChans /\ msp[m].times \in Nat /\ msp[m] \in MspRecs
            /\ msp[m].made # {} => msp[m].ch = Supv
            /\ msp[m].times <= 1 /\ Heard(m) /\ t # None
        BY DEF OnceInv, HMspT, MspRecs
      <4>6. CASE Repeated(t, msp[m].ch, msp[m].seq)
        <5>1. msp'[m].ch = msp[m].ch /\ msp'[m].made = msp[m].made /\ msp'[m].seq = msp[m].seq
                /\ msp'[m].times = msp[m].times /\ lastRx' = lastRx
          BY <3>2, <4>5, <4>6 DEF csme_rx_msg, HMspT, MspRecs
        <5>2. Heard(m)'
          BY <2>2, <4>5, <4>6, <5>1 DEF Heard, Repeated
        <5>3. QED
          BY <4>1, <4>4, <4>5, <5>1, <5>2 DEF OnceInv
      <4>7. CASE ~Repeated(t, msp[m].ch, msp[m].seq)
        <5>1. msp'[m].ch = msp[m].ch /\ msp'[m].made = msp[m].made /\ msp'[m].seq = msp[m].seq
          BY <3>2, <4>5, <4>7 DEF csme_rx_msg, HMspT, MspRecs
        <5>2. msp'[m].times = msp[m].times + (IF HasRoom THEN 1 ELSE 0)
          BY <3>2, <4>5, <4>7 DEF csme_rx_msg, HMspT, MspRecs
        <5>3. msp[m].times # 1
          BY <2>2, <4>5, <4>7 DEF Heard, Repeated
        <5>4. msp'[m].times <= 1
          BY <4>5, <5>2, <5>3
        <5>5. msp[m].ch \notin Created(t, msp[m])
          BY <4>5 DEF Created, HListT
        <5>6. lastRx'[t][msp[m].ch] = msp[m].seq
          BY <3>2, <4>5, <4>7, <5>5 DEF csme_rx_msg, HRxT
        <5>7. Heard(m)'
          BY <2>2, <4>5, <5>1, <5>6 DEF Heard
        <5>8. QED
          BY <4>1, <4>4, <4>5, <5>1, <5>4, <5>7 DEF OnceInv
      <4>8. QED
        BY <4>6, <4>7
    <3>3. QED
      BY <2>2, <3>1, <3>2
  <2>3. QED
    <3>1. CASE UNCHANGED <<list, mac, proc, lastRx, txq, msp>>
      BY <2>1, <3>1
    <3>2. QED
      BY <1>13, <2>2, <3>1, RcvFinds
<1>14. ASSUME NEW m \in Msps, NEW c \in AllChans, csmencaps_rcv_ack(m, c) PROVE OnceInv'
  <2>1. UNCHANGED <<list, mac, lastRx, msp>>
    BY <1>14, Zenon DEF csmencaps_rcv_ack, tblVars, sockVars, mspVars
  <2>2. QED
    BY <2>1 DEF OnceInv, Heard, target_find
<1>15. ASSUME NEW t \in Targets, NEW c \in AllChans, GiveUp(t, c) PROVE OnceInv'
  <2>1. UNCHANGED <<list, mac, lastRx, msp>>
    BY <1>15, Zenon DEF GiveUp, tblVars, sockVars, mspVars
  <2>2. QED
    BY <2>1 DEF OnceInv, Heard, target_find
<1>16. CASE csmencaps_init
  <2>1. UNCHANGED <<list, mac, lastRx, msp>>
    BY <1>16, Zenon DEF csmencaps_init, tblVars, sockVars, mspVars
  <2>2. QED
    BY <2>1 DEF OnceInv, Heard, target_find
<1>17. CASE csmencaps_exit
  <2>1. msp' = Forget(Msps)
    BY <1>17 DEF csmencaps_exit
  <2>2. Msps \ Msps = {}
    OBVIOUS
  <2>3. QED
    BY <2>1, <2>2, OnceKept
<1>18. ASSUME NEW m \in Msps, NEW c \in AllChans, NEW kind \in {"msg", "ready"},
                NEW made \in SUBSET Chans, made # {} => c = Supv, MspSend(m, c, kind, made)
       PROVE  OnceInv'
  <2>1. UNCHANGED <<list, mac, lastRx>>
    BY <1>18 DEF MspSend, tblVars
  <2>2. \A u \in Msps \ {m} : msp'[u] = msp[u]
    BY <1>18 DEF MspSend, HMspT
  <2>3. msp'[m].made = made /\ msp'[m].ch = c /\ msp'[m].times = 0
    BY <1>18 DEF MspSend, HMspT
  <2>4. \A u \in Msps \ {m} : Heard(u)'
    BY <2>1, <2>2 DEF OnceInv, Heard, target_find
  <2>5. Heard(m)'
    BY <2>3 DEF Heard
  <2>6. QED
    BY <1>18, <2>2, <2>3, <2>4, <2>5 DEF OnceInv
<1>19. CASE UNCHANGED hostVars
  <2>1. UNCHANGED <<list, mac, lastRx, msp>>
    BY <1>19, Zenon DEF hostVars, tblVars, sockVars, mspVars
  <2>2. QED
    BY <2>1 DEF OnceInv, Heard, target_find
<1>20. QED
  BY <1>1, <1>2, <1>3, <1>4, <1>5, <1>6, <1>7, <1>8, <1>9, <1>10, <1>11,
     <1>12, <1>13, <1>14, <1>15, <1>16, <1>17, <1>18, <1>19 DEF HostStep

-----------------------------------------------------------------------------
(* The tables, without races                                               *)

\* Without races, a thread that may run is the only one that uses a result of
\* a search.
LEMMA TablesAlone ==
  ASSUME HThrT, ~races, NEW x \in Threads, MayRun(x), NEW q, thr' = [thr EXCEPT ![x] = q]
  PROVE  /\ Alone' /\ thr'[x] = q
         /\ \A y \in Threads \ {x} : thr'[y] = thr[y] /\ thr[y].pc \notin LookedUp
         /\ Known(x)' => \A y \in Threads : Known(y)'
         /\ q.pc \notin LookedUp => Known(x)'
<1>1. /\ thr'[x] = q
      /\ \A y \in Threads \ {x} : thr'[y] = thr[y] /\ thr[y].pc \notin LookedUp
  BY DEF HThrT, MayRun
<1>2. Alone'
  BY <1>1 DEF Alone
<1>3. \A y \in Threads : thr'[y].pc \notin LookedUp => Known(y)'
  BY DEF Known, LookedUp
<1>4. QED
  BY <1>1, <1>2, <1>3

\* A step of a thread that leaves the tables alone.
LEMMA TablesQuiet ==
  ASSUME HThrT, ~races, Tables, NEW x \in Threads, MayRun(x), NEW q, thr' = [thr EXCEPT ![x] = q],
         thr[x].pc # "change", q.pc # "change", Known(x)',
         UNCHANGED <<list, mac, lost, proc>>, Len(sklist') <= 1
  PROVE  Tables'
<1>1. Alone' /\ \A y \in Threads : Known(y)'
  BY TablesAlone
<1>2. ProcOk'
  <2>1. \A y \in Threads : thr[y].pc # "change"
    BY TablesAlone DEF LookedUp
  <2>2. Listed' = Listed
    BY DEF Listed, InList
  <2>3. QED
    BY <2>1, <2>2 DEF Tables, ProcOk
<1>3. TargetsDistinct'
  BY DEF Tables, TargetsDistinct
<1>4. QED
  BY <1>1, <1>2, <1>3 DEF Tables

\* Nobody is using what he looked up while a packet is received.
LEMMA TablesSoftirq ==
  ASSUME ~races, MayRun(None)
  PROVE  \A y \in Threads : thr[y].pc \notin LookedUp
  BY HostAssumption DEF MayRun

\* A step that changes neither the threads nor the tables.
LEMMA TablesFrame ==
  ASSUME Tables, UNCHANGED <<thr, list, mac, lost, proc, sklist, chan>>
  PROVE  Tables'
  BY DEF Tables, Alone, TargetsDistinct, ProcOk, Known, target_find, Listed, InList

\* Without races every step keeps the addresses distinct, the files in /proc
\* in step, the channels in their tables and the socket single.
LEMMA TablesStep ==
  ASSUME HTypes, ThreadsOk, SocksOk, ~races, Tables, [HostStep]_hostVars
  PROVE  Tables'
<1> USE HostAssumption DEF HTypes
<1>1. ASSUME NEW x \in Threads, NEW r \in CallRecs, Called(x, r) PROVE Tables'
  <2>0. PICK f : f = target_find(r.mac)
    OBVIOUS
  <2>1. MayRun(x) /\ thr[x].pc = "idle" /\ UNCHANGED <<list, mac, lost, chan, sklist>>
          /\ r \in ThrRecs /\ r.pc = "idle"
    BY <1>1 DEF Called, sockVars, CallRecs
  <2>2. /\ Len(sklist') <= 1 /\ \A y \in Threads : thr[y].pc # "change"
    <3>1. \A y \in Threads \ {x} : thr[y].pc \notin LookedUp
      BY <2>1 DEF MayRun
    <3>2. QED
      BY <2>1, <3>1 DEF LookedUp, Tables
  <2>3. f # None => f \in Targets /\ InList(f) /\ mac[f] = r.mac
    BY <2>0, FindInList
  <2>4. CASE /\ thr' = thr /\ proc' = proc
    BY <2>1, <2>4, TablesFrame
  <2>5. CASE thr' = [thr EXCEPT ![x] = Idle] /\ proc' = proc
    <3>1. Idle.pc \notin LookedUp /\ Idle.pc # "change"
      BY DEF Idle, LookedUp
    <3>2. Known(x)'
      BY <2>1, <2>5, <3>1, TablesAlone
    <3>3. QED
      BY <2>1, <2>2, <2>5, <3>1, <3>2, TablesQuiet
  <2>6. ASSUME f # None, target_find(r.new) = None, proc' = proc \ {mac[f]},
               thr' = [thr EXCEPT ![x] = [r EXCEPT !.pc = "change", !.t = f]] PROVE Tables'
    <3>1. thr'[x].pc = "change" /\ thr'[x].t = f /\ thr'[x].new = r.new
      BY <2>1, <2>6 DEF HThrT, ThrRecs
    <3>2. proc = {mac[u] : u \in Listed}
      BY <2>2 DEF Tables, ProcOk
    <3>3. \A u \in Listed \ {f} : mac[u] # mac[f]
      BY <2>3, <2>6 DEF Tables, TargetsDistinct, Listed, InList
    <3>4. proc' = {mac[u] : u \in Listed \ {f}}
      BY <2>6, <3>2, <3>3
    <3>5. Listed' = Listed /\ InList(f)'
      BY <2>1, <2>3, <2>6 DEF Listed, InList
    <3>6. target_find(thr[x].new)' = target_find(r.new)
      BY <2>1, <3>1 DEF target_find
    <3>7. InList(thr[x].t)' /\ proc' = {mac'[u] : u \in Listed' \ {thr'[x].t}}
      BY <2>1, <3>1, <3>4, <3>5 DEF InList
    <3>8. Known(x)'
      BY <2>6, <3>1, <3>6, <3>7 DEF Known
    <3>9. Alone' /\ \A y \in Threads : Known(y)'
      BY <2>1, <2>6, <3>8, TablesAlone
    <3>10. QED
      BY <2>1, <2>2, <3>1, <3>9 DEF Tables, ProcOk, TargetsDistinct
  <2>7. ASSUME NEW q \in ThrRecs, thr' = [thr EXCEPT ![x] = q], proc' = proc,
               \/ q.pc = "find"
               \/ q.pc \in {"reset", "chan"} /\ f # None /\ q.t = f
               \/ q.pc = "add" /\ f = None /\ q.mac = r.mac
        PROVE  Tables'
    <3>1. thr'[x] = q
      BY <2>7 DEF HThrT
    <3>2. ASSUME q.pc = "add" PROVE target_find(thr[x].mac)' = None
      <4>1. thr'[x].mac = r.mac /\ f = None
        BY <2>7, <3>1, <3>2
      <4>2. target_find(thr[x].mac)' = target_find(r.mac)
        BY <2>1, <4>1 DEF target_find
      <4>3. QED
        BY <2>0, <4>1, <4>2
    <3>3. Known(x)'
      BY <2>1, <2>3, <2>7, <3>1, <3>2 DEF Known, InList
    <3>4. QED
      BY <2>1, <2>2, <2>7, <3>3, TablesQuiet
  <2>8. /\ r.op = "reset" /\ f # None => /\ [r EXCEPT !.pc = "reset", !.t = f] \in ThrRecs
                                        /\ [r EXCEPT !.pc = "reset", !.t = f].pc = "reset"
                                        /\ [r EXCEPT !.pc = "reset", !.t = f].t = f
        /\ [r EXCEPT !.pc = "find", !.t = f] \in ThrRecs
             /\ [r EXCEPT !.pc = "find", !.t = f].pc = "find"
        /\ [r EXCEPT !.pc = "add"] \in ThrRecs /\ [r EXCEPT !.pc = "add"].pc = "add"
             /\ [r EXCEPT !.pc = "add"].mac = r.mac
        /\ f # None => /\ [r EXCEPT !.pc = "chan", !.t = f] \in ThrRecs
                       /\ [r EXCEPT !.pc = "chan", !.t = f].pc = "chan"
                            /\ [r EXCEPT !.pc = "chan", !.t = f].t = f
    BY ONLY <2>1, <2>3 DEF ThrRecs, LookedUp
  <2>9. StartCall(x, r, f)
    BY <1>1, <2>0 DEF Called
  <2>10. CASE r.op \in {"maas", "reset"} /\ f # None /\ NoTwin(r.new)
    BY <2>6, <2>9, <2>10 DEF StartCall, NoTwin
  <2>11. CASE r.op = "maas" /\ ~(f # None /\ NoTwin(r.new))
    <3>1. thr' = [thr EXCEPT ![x] = [r EXCEPT !.pc = "find", !.t = f]] /\ proc' = proc
      BY <2>9, <2>11 DEF StartCall, AfterChange
    <3>2. QED
      BY <2>7, <2>8, <3>1
  <2>12. CASE r.op = "reset" /\ f # None /\ ~NoTwin(r.new)
    <3>1. thr' = [thr EXCEPT ![x] = [r EXCEPT !.pc = "reset", !.t = f]] /\ proc' = proc
      BY <2>9, <2>12 DEF StartCall, AfterChange
    <3>2. QED
      BY <2>7, <2>8, <2>12, <3>1
  <2>13. CASE r.op = "reset" /\ f = None
    BY <2>4, <2>9, <2>13 DEF StartCall
  <2>14. CASE r.op \notin {"maas", "reset"} /\ f = None
    <3>1. thr' = [thr EXCEPT ![x] = [r EXCEPT !.pc = "add"]] /\ proc' = proc
      BY <2>9, <2>14 DEF StartCall
    <3>2. QED
      BY <2>7, <2>8, <2>14, <3>1
  <2>15. CASE r.op = "ackopt" /\ f # None
    BY <2>5, <2>9, <2>15 DEF StartCall
  <2>16. CASE r.op \notin {"maas", "reset", "ackopt"} /\ f # None
    <3>1. thr' = [thr EXCEPT ![x] = [r EXCEPT !.pc = "chan", !.t = f]] /\ proc' = proc
      BY <2>9, <2>16 DEF StartCall
    <3>2. QED
      BY <2>7, <2>8, <2>16, <3>1
  <2>17. QED
    BY <2>10, <2>11, <2>12, <2>13, <2>14, <2>15, <2>16
<1>2. ASSUME NEW x \in Threads, target_change_mac(x) PROVE Tables'
  <2>0. PICK t, n : t = thr[x].t /\ n = thr[x].new
    OBVIOUS
  <2>1. /\ MayRun(x) /\ thr[x].pc = "change" /\ UNCHANGED <<list, lost, chan, sklist>>
        /\ mac' = [mac EXCEPT ![t] = n] /\ proc' = proc \cup {n}
             /\ Goto(x, AfterChange(thr[x].op), t)
    BY <1>2, <2>0 DEF target_change_mac, sockVars
  <2>2. /\ t \in Targets /\ InList(t) /\ target_find(n) = None
             /\ proc = {mac[u] : u \in Listed \ {t}}
    BY <2>0, <2>1, HeldType DEF Tables, Known
  <2>3. thr' = [thr EXCEPT ![x] = [thr[x] EXCEPT !.pc = AfterChange(thr[x].op), !.t = t]]
    BY <2>1 DEF Goto, HThrT
  <2>4. thr'[x].pc \in {"find", "reset"} /\ thr'[x].t = t
    BY <2>3 DEF HThrT, ThrRecs, AfterChange
  <2>5. Known(x)'
    BY <2>1, <2>2, <2>4 DEF Known, InList
  <2>6. Alone' /\ \A y \in Threads : Known(y)'
    BY <2>1, <2>3, <2>5, TablesAlone
  <2>7. mac \in [Targets -> Macs] /\ \A i \in DOMAIN list : list[i] \in Targets
    BY DEF HListT
  <2>8. \A i \in DOMAIN list : mac[list[i]] # n
    BY <2>2, FindInList, <2>7 DEF InList
  <2>9. TargetsDistinct'
    BY <2>1, <2>7, <2>8 DEF Tables, TargetsDistinct
  <2>10. Listed' = Listed /\ t \in Listed
    BY <2>1, <2>2 DEF Listed, InList
  <2>11. mac'[t] = n /\ \A u \in Listed \ {t} : mac'[u] = mac[u]
    BY <2>1, <2>2, <2>7 DEF Listed
  <2>12. proc' = {mac'[u] : u \in Listed}
    BY <2>1, <2>2, <2>10, <2>11
  <2>13. QED
    BY <2>1, <2>6, <2>9, <2>10, <2>12 DEF Tables, ProcOk
<1>3. ASSUME NEW x \in Threads, csme_tx_maas(x) PROVE Tables'
  <2>1. MayRun(x) /\ thr[x].pc = "find" /\ UNCHANGED <<list, mac, lost, proc, chan>>
          /\ Len(sklist') <= 1
    BY <1>3 DEF csme_tx_maas, Tables, sockVars
  <2>2. \A a : target_find(a)' = target_find(a)
    BY <2>1 DEF target_find
  <2>3. CASE target_find(thr[x].new) = None
    <3>1. thr' = [thr EXCEPT ![x] = [thr[x] EXCEPT !.pc = "add", !.mac = thr[x].new]]
      BY <1>3, <2>3 DEF csme_tx_maas, HThrT
    <3>2. thr'[x].pc = "add" /\ thr'[x].mac = thr[x].new
      BY <3>1 DEF HThrT, ThrRecs
    <3>3. [thr[x] EXCEPT !.pc = "add", !.mac = thr[x].new].pc = "add"
      BY DEF HThrT, ThrRecs
    <3>4. target_find(thr[x].mac)' = target_find(thr[x].new)
      BY <2>1, <3>2 DEF target_find
    <3>5. Known(x)'
      BY <2>3, <3>2, <3>4 DEF Known
    <3>6. QED
      BY <2>1, <3>1, <3>3, <3>5, TablesQuiet
  <2>4. CASE target_find(thr[x].new) # None
    <3>0. PICK t : t = target_find(thr[x].new)
      OBVIOUS
    <3>1. thr' = [thr EXCEPT ![x] = [thr[x] EXCEPT !.pc = "chan", !.t = t]]
      BY <1>3, <2>4, <3>0 DEF csme_tx_maas, Goto, HThrT
    <3>2. thr'[x].pc = "chan" /\ thr'[x].t = t
      BY <3>1 DEF HThrT, ThrRecs
    <3>3. [thr[x] EXCEPT !.pc = "chan", !.t = t].pc = "chan"
      BY DEF HThrT, ThrRecs
    <3>4. InList(t)
      BY <2>4, <3>0, FindInList
    <3>5. Known(x)'
      BY <2>1, <3>2, <3>4 DEF Known, InList
    <3>6. QED
      BY <2>1, <3>1, <3>3, <3>5, TablesQuiet
  <2>5. QED
    BY <2>3, <2>4
<1>4. ASSUME NEW x \in Threads, csme_reset(x) PROVE Tables'
  <2>1. MayRun(x) /\ thr[x].pc = "reset" /\ UNCHANGED <<list, mac, lost, proc>>
          /\ Len(sklist') <= 1
    BY <1>4 DEF csme_reset, Tables, tblVars, sockVars
  <2>2. thr' = [thr EXCEPT ![x] = Idle]
    BY <1>4, ThreadMoves DEF csme_reset
  <2>3. Idle.pc # "change" /\ Idle.pc \notin LookedUp
    BY DEF Idle, LookedUp
  <2>4. Known(x)'
    BY <2>1, <2>2, <2>3, TablesAlone
  <2>5. QED
    BY <2>1, <2>2, <2>3, <2>4, TablesQuiet
<1>5. ASSUME NEW x \in Threads, csme_tx_add(x) PROVE Tables'
  <2>0. PICK a : a = thr[x].mac
    OBVIOUS
  <2>1. MayRun(x) /\ thr[x].pc = "add" /\ UNCHANGED <<lost, sklist>> /\ target_find(a) = None
    BY <1>5, <2>0 DEF csme_tx_add, sockVars, Tables, Known
  <2>2. Len(sklist') <= 1
    BY <2>1 DEF Tables
  <2>3. CASE Done(x) /\ UNCHANGED <<list, mac, proc>>
    <3>1. thr' = [thr EXCEPT ![x] = Idle] /\ Idle.pc \notin LookedUp /\ Idle.pc # "change"
      BY <2>3 DEF Done, Idle, LookedUp
    <3>2. Known(x)'
      BY <2>1, <3>1, TablesAlone
    <3>3. QED
      BY <2>1, <2>2, <2>3, <3>1, <3>2, TablesQuiet
  <2>4. ASSUME NEW t \in Targets, target_add(t, a), Done(x) \/ Goto(x, "chan", t)
        PROVE  Tables'
    <3>1. /\ t \notin Range(list) /\ list' = <<t>> \o list /\ mac' = [mac EXCEPT ![t] = a]
               /\ proc' = proc \cup {a}
      BY <2>4 DEF target_add
    <3>2. /\ Len(list) \in Nat /\ DOMAIN list = 1 .. Len(list)
               /\ DOMAIN list' = 1 .. Len(list) + 1
          /\ list'[1] = t /\ \A i \in DOMAIN list : list'[i + 1] = list[i]
      BY <3>1 DEF HListT
    <3>3. \A i \in DOMAIN list' : i = 1 \/ (i - 1 \in DOMAIN list /\ list'[i] = list[i - 1])
      BY <3>2
    <3>4. \A i \in DOMAIN list : i + 1 \in DOMAIN list' /\ list[i] \in Targets /\ list[i] # t
      BY <3>1, <3>2 DEF HListT, Range
    <3>5. \A i \in DOMAIN list : mac[list[i]] # a
      BY <2>1, FindInList, <3>4 DEF InList
    <3>6. mac'[t] = a /\ \A u \in Targets \ {t} : mac'[u] = mac[u]
      BY <3>1 DEF HListT
    <3>7. TargetsDistinct'
      <4>1. \A i, j \in DOMAIN list : mac[list[i]] = mac[list[j]] => i = j
        BY DEF Tables, TargetsDistinct
      <4>2. ASSUME NEW i \in DOMAIN list', NEW j \in DOMAIN list', mac'[list'[i]] = mac'[list'[j]]
            PROVE  i = j
        <5>1. \A k \in DOMAIN list : mac'[list[k]] = mac[list[k]] /\ mac[list[k]] # mac'[t]
          BY <3>4, <3>5, <3>6
        <5>2. CASE i = 1 /\ j = 1
          BY <5>2
        <5>3. CASE i = 1 /\ j # 1
          BY <3>2, <3>3, <4>2, <5>1, <5>3
        <5>4. CASE i # 1 /\ j = 1
          BY <3>2, <3>3, <4>2, <5>1, <5>4
        <5>5. CASE i # 1 /\ j # 1
          <6>1. /\ i - 1 \in DOMAIN list /\ j - 1 \in DOMAIN list
                /\ list'[i] = list[i - 1] /\ list'[j] = list[j - 1]
            BY <3>3, <5>5
          <6>2. i - 1 = j - 1
            BY <4>1, <4>2, <5>1, <6>1
          <6>3. QED
            BY <3>2, <6>2
        <5>6. QED
          BY <5>2, <5>3, <5>4, <5>5
      <4>3. QED
        BY <4>2 DEF TargetsDistinct
    <3>8. Listed' = Listed \cup {t} /\ t \notin Listed
      <4>1. \A u \in Targets \ {t} : InList(u)' <=> InList(u)
        BY <3>2, <3>3, <3>4 DEF InList
      <4>2. InList(t)' /\ ~InList(t)
        BY <3>2, <3>4 DEF InList
      <4>3. QED
        BY <4>1, <4>2 DEF Listed
    <3>9. PICK q : thr' = [thr EXCEPT ![x] = q] /\ (q.pc \notin LookedUp \/ (q.pc = "chan"
                 /\ q.t = t))
      <4>1. CASE Done(x)
        <5>1. thr' = [thr EXCEPT ![x] = Idle]
          BY <4>1 DEF Done
        <5>2. Idle.pc \notin LookedUp
          BY DEF Idle, LookedUp
        <5>3. QED
          BY <5>1, <5>2
      <4>2. CASE Goto(x, "chan", t)
        <5>1. thr' = [thr EXCEPT ![x] = [thr[x] EXCEPT !.pc = "chan", !.t = t]]
          BY <4>2 DEF Goto, HThrT
        <5>2. [thr[x] EXCEPT !.pc = "chan", !.t = t].pc = "chan"
                /\ [thr[x] EXCEPT !.pc = "chan", !.t = t].t = t
          BY DEF HThrT, ThrRecs
        <5>3. QED
          BY <5>1, <5>2
      <4>3. QED
        BY <2>4, <4>1, <4>2
    <3>10. /\ Alone' /\ thr'[x] = q /\ \A y \in Threads \ {x} : thr[y].pc \notin LookedUp
           /\ Known(x)' => \A y \in Threads : Known(y)'
           /\ q.pc \notin LookedUp => Known(x)'
      BY <2>1, <3>9, TablesAlone
    <3>11. Known(x)'
      <4>1. InList(t)'
        BY <3>2 DEF InList
      <4>2. CASE q.pc = "chan" /\ q.t = t
        BY <3>10, <4>1, <4>2 DEF Known, InList
      <4>3. QED
        BY <3>9, <3>10, <4>2
    <3>12. proc = {mac[u] : u \in Listed}
      BY <2>1, <3>10 DEF Tables, ProcOk, LookedUp
    <3>13. proc' = {mac'[u] : u \in Listed'}
      <4>1. \A u \in Listed : mac'[u] = mac[u]
        BY <3>6, <3>8 DEF Listed
      <4>2. QED
        BY <3>1, <3>6, <3>8, <3>12, <4>1
    <3>14. QED
      BY <2>1, <2>2, <3>7, <3>10, <3>11, <3>13 DEF Tables, ProcOk
  <2>5. QED
    BY <1>5, <2>0, <2>3, <2>4 DEF csme_tx_add
<1>6. ASSUME NEW x \in Threads, csme_tx_chan(x) PROVE Tables'
  <2>1. MayRun(x) /\ thr[x].pc = "chan" /\ UNCHANGED <<list, mac, lost, proc, chan>>
          /\ Len(sklist') <= 1
    BY <1>6 DEF csme_tx_chan, Tables, sockVars
  <2>2. CASE Done(x)
    <3>1. thr' = [thr EXCEPT ![x] = Idle] /\ Idle.pc \notin LookedUp /\ Idle.pc # "change"
      BY <2>2 DEF Done, Idle, LookedUp
    <3>2. Known(x)'
      BY <2>1, <3>1, TablesAlone
    <3>3. QED
      BY <2>1, <3>1, <3>2, TablesQuiet
  <2>3. CASE Goto(x, "chadd", thr[x].t) /\ thr[x].ch \notin chan[thr[x].t]
    <3>1. thr' = [thr EXCEPT ![x] = [thr[x] EXCEPT !.pc = "chadd", !.t = thr[x].t]]
      BY <2>3 DEF Goto, HThrT
    <3>2. thr'[x].pc = "chadd" /\ thr'[x].t = thr[x].t /\ thr'[x].ch = thr[x].ch
      BY <3>1 DEF HThrT, ThrRecs
    <3>3. [thr[x] EXCEPT !.pc = "chadd", !.t = thr[x].t].pc = "chadd"
      BY DEF HThrT, ThrRecs
    <3>4. InList(thr[x].t)
      BY <2>1 DEF Tables, Known
    <3>5. Known(x)'
      BY <2>1, <2>3, <3>2, <3>4 DEF Known, InList
    <3>6. QED
      BY <2>1, <3>1, <3>3, <3>5, TablesQuiet
  <2>4. QED
    BY <1>6, <2>2, <2>3 DEF csme_tx_chan, Transmit
<1>7. ASSUME NEW x \in Threads, channel_add(x) PROVE Tables'
  <2>1. MayRun(x) /\ thr[x].pc = "chadd" /\ UNCHANGED <<list, mac, lost, proc>>
          /\ Len(sklist') <= 1
    <3>1. thr[x].ch \notin chan[thr[x].t]
      BY <1>7 DEF channel_add, Tables, Known
    <3>2. lost' = lost
      BY <1>7, <3>1 DEF channel_add, HListT
    <3>3. QED
      BY <1>7, <3>2 DEF channel_add, Tables, sockVars
  <2>2. thr' = [thr EXCEPT ![x] = Idle]
    BY <1>7, ThreadMoves DEF channel_add, Transmit
  <2>3. Idle.pc # "change" /\ Idle.pc \notin LookedUp
    BY DEF Idle, LookedUp
  <2>4. Known(x)'
    BY <2>1, <2>2, <2>3, TablesAlone
  <2>5. QED
    BY <2>1, <2>2, <2>3, <2>4, TablesQuiet
<1>8. ASSUME NEW x \in Threads, csmencaps_create(x) PROVE Tables'
  <2>1. MayRun(x) /\ thr[x].pc = "idle" /\ UNCHANGED <<list, mac, lost, proc>>
          /\ Len(sklist') <= 1
    BY <1>8 DEF csmencaps_create, Tables, tblVars, sockVars
  <2>2. thr' = [thr EXCEPT ![x] = [thr[x] EXCEPT !.pc = "create", !.t = None]]
    BY <1>8, ThreadMoves DEF csmencaps_create, Goto, HThrT
  <2>3. sklist = <<>> /\ sklist' = sklist
    BY <1>8 DEF csmencaps_create, csme_get_socket, sockVars, HSockT
  <2>4. Known(x)' /\ [thr[x] EXCEPT !.pc = "create", !.t = None].pc = "create"
    BY <2>2, <2>3 DEF Known, HThrT, ThrRecs
  <2>5. QED
    BY <2>1, <2>2, <2>3, <2>4, TablesQuiet
<1>9. ASSUME NEW x \in Threads, csmencaps_create_add(x) PROVE Tables'
  <2>1. MayRun(x) /\ thr[x].pc = "create" /\ UNCHANGED <<list, mac, lost, proc>>
          /\ Len(sklist') <= 1
    <3>1. sklist = <<>>
      BY <1>9 DEF csmencaps_create_add, Tables, Known
    <3>2. \A s \in Socks : Len(<<s>> \o <<>>) = 1
      OBVIOUS
    <3>3. sklist' = sklist \/ \E s \in Socks : sklist' = <<s>> \o sklist
      BY <1>9 DEF csmencaps_create_add
    <3>4. Len(sklist') <= 1
      <4>1. CASE sklist' = sklist
        BY <4>1 DEF Tables
      <4>2. CASE \E s \in Socks : sklist' = <<s>> \o <<>>
        <5>1. PICK s \in Socks : sklist' = <<s>> \o <<>>
          BY <4>2
        <5>2. Len(sklist') = 1
          BY <3>2, <5>1
        <5>3. QED
          BY <5>2
      <4>3. QED
        BY <3>1, <3>3, <4>1, <4>2
    <3>5. QED
      BY <1>9, <3>4 DEF csmencaps_create_add, tblVars
  <2>2. thr' = [thr EXCEPT ![x] = Idle]
    BY <1>9, ThreadMoves DEF csmencaps_create_add
  <2>3. Idle.pc # "change" /\ Idle.pc \notin LookedUp
    BY DEF Idle, LookedUp
  <2>4. Known(x)'
    BY <2>1, <2>2, <2>3, TablesAlone
  <2>5. QED
    BY <2>1, <2>2, <2>3, <2>4, TablesQuiet
<1>10. ASSUME NEW x \in Threads, NEW s \in Socks, csmencaps_recvmsg(x, s) PROVE Tables'
  <2>1. UNCHANGED <<thr, list, mac, lost, proc, sklist, chan>>
    BY <1>10, Zenon DEF csmencaps_recvmsg, tblVars, sockVars, mspVars
  <2>2. QED
    BY <2>1, TablesFrame
<1>11. ASSUME NEW x \in Threads, NEW s \in Socks, csmencaps_release(x, s) PROVE Tables'
  <2>1. MayRun(x) /\ thr[x].pc = "idle" /\ UNCHANGED <<list, mac, lost, proc>>
          /\ Len(sklist') <= 1
    <3>1. InSks(s)
      BY <1>11 DEF csmencaps_release, SocksOk
    <3>2. Len(sklist') = Len(sklist) - 1 /\ Len(sklist) \in Nat
      BY <1>11, <3>1, ReleaseIs DEF csmencaps_release, HSockT
    <3>3. QED
      BY <1>11, <3>2 DEF csmencaps_release, tblVars, Tables
  <2>2. thr' = [thr EXCEPT ![x] = [thr[x] EXCEPT !.pc = "purge", !.sk = s]]
    BY <1>11, ThreadMoves DEF csmencaps_release, HThrT
  <2>3. [thr[x] EXCEPT !.pc = "purge", !.sk = s].pc = "purge"
    BY DEF HThrT, ThrRecs
  <2>4. Known(x)'
    BY <2>1, <2>2, <2>3, TablesAlone DEF LookedUp
  <2>5. QED
    BY <2>1, <2>2, <2>3, <2>4, TablesQuiet
<1>12. ASSUME NEW x \in Threads, csmencaps_release_purge(x) PROVE Tables'
  <2>1. MayRun(x) /\ thr[x].pc = "purge" /\ UNCHANGED <<list, mac, lost, proc>>
          /\ Len(sklist') <= 1
    BY <1>12 DEF csmencaps_release_purge, Tables, tblVars, sockVars
  <2>2. thr' = [thr EXCEPT ![x] = Idle]
    BY <1>12, ThreadMoves DEF csmencaps_release_purge
  <2>3. Idle.pc # "change" /\ Idle.pc \notin LookedUp
    BY DEF Idle, LookedUp
  <2>4. Known(x)'
    BY <2>1, <2>2, <2>3, TablesAlone
  <2>5. QED
    BY <2>1, <2>2, <2>3, <2>4, TablesQuiet
<1>13. ASSUME NEW m \in Msps, csmencaps_rcv(m) PROVE Tables'
  <2>1. MayRun(None) /\ UNCHANGED <<thr, list, lost, sklist, chan>>
    BY <1>13 DEF csmencaps_rcv
  <2>2. \A y \in Threads : thr[y].pc \notin LookedUp
    BY <2>1, TablesSoftirq
  <2>3. Alone' /\ \A y \in Threads : Known(y)'
    BY <2>1, <2>2 DEF Alone, Known, LookedUp
  <2>4. proc = {mac[u] : u \in Listed}
    BY <2>2 DEF Tables, ProcOk, LookedUp
  <2>5. Listed' = Listed
    BY <2>1 DEF Listed, InList
  <2>6. CASE UNCHANGED <<mac, proc>>
    BY <2>1, <2>3, <2>6, <2>5 DEF Tables, ProcOk, TargetsDistinct
  <2>7. ASSUME NEW t \in Targets, InList(t), mac[t] \in {m, Bcast}, mac' = [mac EXCEPT ![t] = m],
               mac[t] = Bcast => target_find(m) = None,
               (mac[t] = m /\ proc' = proc) \/ proc' = (proc \ {mac[t]}) \cup {m}
        PROVE  Tables'
    <3>1. mac \in [Targets -> Macs] /\ \A i \in DOMAIN list : list[i] \in Targets
      BY DEF HListT
    <3>2. CASE mac[t] = m
      <4>1. mac' = mac /\ m \in proc
        BY <2>4, <2>7, <3>1, <3>2 DEF Listed
      <4>2. proc' = proc
        BY <2>7, <3>2, <4>1
      <4>3. QED
        BY <2>6, <4>1, <4>2
    <3>3. CASE mac[t] = Bcast /\ mac[t] # m
      <4>1. \A i \in DOMAIN list : mac[list[i]] # m
        BY <2>7, <3>3, FindInList, <3>1 DEF InList
      <4>2. TargetsDistinct'
        BY <2>1, <2>7, <3>1, <4>1 DEF Tables, TargetsDistinct
      <4>3. ASSUME NEW u \in Listed, u # t PROVE mac[u] # mac[t] /\ mac'[u] = mac[u] /\ mac[u] # m
        BY <2>7, <3>1, <4>1, <4>3 DEF Tables, TargetsDistinct, Listed, InList
      <4>4. t \in Listed /\ mac'[t] = m
        BY <2>7, <3>1 DEF Listed
      <4>5. proc' = (proc \ {mac[t]}) \cup {m}
        BY <2>7, <3>3
      <4>6. proc' = {mac'[u] : u \in Listed}
        BY <2>4, <4>3, <4>4, <4>5
      <4>7. QED
        BY <2>1, <2>3, <2>5, <4>2, <4>6 DEF Tables, ProcOk
    <3>4. QED
      BY <2>7, <3>2, <3>3
  <2>8. QED
    <3>1. CASE UNCHANGED <<list, mac, proc, lastRx, txq, msp>>
      BY <2>6, <3>1
    <3>2. QED
      BY <1>13, <2>7, <3>1, RcvFinds
<1>14. ASSUME NEW m \in Msps, NEW c \in AllChans, csmencaps_rcv_ack(m, c) PROVE Tables'
  <2>1. UNCHANGED <<thr, list, mac, lost, proc, sklist, chan>>
    BY <1>14, Zenon DEF csmencaps_rcv_ack, tblVars, sockVars, mspVars
  <2>2. QED
    BY <2>1, TablesFrame
<1>15. ASSUME NEW t \in Targets, NEW c \in AllChans, GiveUp(t, c) PROVE Tables'
  <2>1. UNCHANGED <<thr, list, mac, lost, proc, sklist, chan>>
    BY <1>15, Zenon DEF GiveUp, tblVars, sockVars, mspVars
  <2>2. QED
    BY <2>1, TablesFrame
<1>16. CASE csmencaps_init
  <2>1. UNCHANGED <<thr, list, mac, lost, proc, sklist, chan>>
    BY <1>16, Zenon DEF csmencaps_init, tblVars, sockVars, mspVars
  <2>2. QED
    BY <2>1, TablesFrame
<1>17. CASE csmencaps_exit
  <2>1. /\ \A y \in Threads : thr[y].pc = "idle"
        /\ list' = <<>> /\ proc' = proc \ {mac[t] : t \in Range(list)}
             /\ UNCHANGED <<thr, lost, sklist>>
    BY <1>17 DEF csmencaps_exit, target_remove_all, sockVars
  <2>2. proc = {mac[t] : t \in Listed}
    BY <2>1 DEF Tables, ProcOk
  <2>3. Listed \subseteq Range(list)
    BY DEF Listed, InList, Range
  <2>4. proc' = {}
    BY <2>1, <2>2, <2>3
  <2>5. Listed' = {}
    BY <2>1 DEF Listed, InList
  <2>6. ProcOk' /\ TargetsDistinct'
    BY <2>1, <2>4, <2>5 DEF ProcOk, TargetsDistinct
  <2>7. Alone' /\ \A y \in Threads : Known(y)'
    BY <2>1 DEF Alone, Known, LookedUp
  <2>8. QED
    BY <2>1, <2>6, <2>7 DEF Tables
<1>18. ASSUME NEW m \in Msps, NEW c \in AllChans, NEW kind \in {"msg", "ready"},
                NEW made \in SUBSET Chans, made # {} => c = Supv, MspSend(m, c, kind, made)
       PROVE  Tables'
  <2>1. UNCHANGED <<thr, list, mac, lost, proc, sklist, chan>>
    BY <1>18, Zenon DEF MspSend, tblVars, sockVars, mspVars
  <2>2. QED
    BY <2>1, TablesFrame
<1>19. CASE UNCHANGED hostVars
  <2>1. UNCHANGED <<thr, list, mac, lost, proc, sklist, chan>>
    BY <1>19, Zenon DEF hostVars, tblVars, sockVars, mspVars
  <2>2. QED
    BY <2>1, TablesFrame
<1>20. QED
  BY <1>1, <1>2, <1>3, <1>4, <1>5, <1>6, <1>7, <1>8, <1>9, <1>10, <1>11,
     <1>12, <1>13, <1>14, <1>15, <1>16, <1>17, <1>18, <1>19 DEF HostStep

-----------------------------------------------------------------------------
(* The sequence numbers, without races                                     *)

\* Without races only the thread that may run can be about to reset a target.
LEMMA StaleOnly ==
  ASSUME ~races, NEW x \in Threads, MayRun(x)
  PROVE  \A t : Stale(t) <=> Resets(thr[x], t, mac[t])
  BY DEF MayRun, Stale, Resets, LookedUp

\* Nobody is about to reset a target while a packet is received.
LEMMA StaleNever ==
  ASSUME ~races, MayRun(None)
  PROVE  \A t : ~Stale(t)
<1>1. \A y \in Threads : thr[y].pc \notin LookedUp
  BY TablesSoftirq
<1>2. QED
  BY <1>1 DEF Stale, Resets, LookedUp

\* Forget() leaves everything else of a message alone.
LEMMA ForgetKeeps ==
  ASSUME HMspT, NEW S, msp' = Forget(S) \/ msp' = msp, NEW m \in Msps
  PROVE  /\ msp'[m].acked = msp[m].acked /\ msp'[m].arrived = msp[m].arrived
         /\ msp'[m].made = msp[m].made /\ msp'[m].id = msp[m].id
         /\ msp'[m].ch = msp[m].ch /\ msp'[m].seq = msp[m].seq
<1>1. CASE msp' = Forget(S)
  <2>1. CASE m \in S
    <3>1. msp'[m] = [msp[m] EXCEPT !.times = 0] /\ msp[m] \in MspRecs
      BY <1>1, <2>1 DEF Forget, HMspT
    <3>2. QED
      BY ONLY <3>1 DEF MspRecs
  <2>2. CASE m \notin S
    BY <1>1, <2>2 DEF Forget
  <2>3. QED
    BY <2>1, <2>2
<1>2. CASE msp' = msp
  BY <1>2
<1>3. QED
  BY <1>1, <1>2

\* A step that at most forgets keeps what is known of the acks.
LEMMA AcksKept ==
  ASSUME HMspT, AcksOk, NEW S, msp' = Forget(S) \/ msp' = msp, mspSeq' = mspSeq
  PROVE  AcksOk'
<1> SUFFICES ASSUME NEW m \in Msps
             PROVE  /\ msp'[m].acked => msp'[m].arrived
                    /\ msp'[m].id > 0 => mspSeq'[m][msp'[m].ch] = MspNumber(msp'[m].seq)
  BY DEF AcksOk, MspNumber
<1>1. /\ msp'[m].acked = msp[m].acked /\ msp'[m].arrived = msp[m].arrived
      /\ msp'[m].id = msp[m].id /\ msp'[m].ch = msp[m].ch /\ msp'[m].seq = msp[m].seq
  BY ForgetKeeps
<1>2. QED
  BY <1>1, Zenon DEF AcksOk

\* Agreement is kept for a target of which nothing changes.
LEMMA AgreesKept ==
  ASSUME HMspT, NEW S, msp' = Forget(S) \/ msp' = msp, mspSeq' = mspSeq, NEW t,
         lastRx'[t] = lastRx[t], mac'[t] = mac[t], Agrees(t)
  PROVE  Agrees(t)'
<1> SUFFICES ASSUME mac[t] \in Msps, NEW c \in AllChans
             PROVE  Follows(msp'[mac[t]], mspSeq[mac[t]][c], c, lastRx[t][c])
  BY DEF Agrees, FreshSeqs, NoSeq
<1>1. PICK m \in Msps : m = mac[t]
  OBVIOUS
<1>2. /\ msp'[m].made = msp[m].made /\ msp'[m].arrived = msp[m].arrived
      /\ msp'[m].ch = msp[m].ch /\ msp'[m].seq = msp[m].seq
  BY ForgetKeeps
<1>3. Follows(msp[m], mspSeq[m][c], c, lastRx[t][c])
  BY <1>1 DEF Agrees
<1>4. QED
  BY <1>1, <1>2, <1>3, Zenon DEF Follows

\* So are its numbers.
LEMMA SeqKept ==
  ASSUME HMspT, NEW S, msp' = Forget(S) \/ msp' = msp, mspSeq' = mspSeq, NEW t,
         lastRx'[t] = lastRx[t], mac'[t] = mac[t], chan'[t] = chan[t], SeqOk(t),
         ~Stale(t) \/ Stale(t)'
  PROVE  SeqOk(t)'
  BY AgreesKept DEF SeqOk, NoSeq

\* A target that has been reset agrees with anybody.
LEMMA SeqFresh ==
  ASSUME NEW t, lastRx'[t] = FreshSeqs
  PROVE  SeqOk(t)'
<1>1. \A c \in AllChans : lastRx'[t][c] = NoSeq
  BY DEF FreshSeqs
<1>2. Agrees(t)'
  BY <1>1 DEF Agrees, Follows, FreshSeqs, NoSeq
<1>3. QED
  BY <1>1, <1>2 DEF SeqOk, AllChans, NoSeq

\* A step of a thread that is not about to reset a target.
LEMMA NumbersQuiet ==
  ASSUME HTypes, ~races, Numbers, NEW x \in Threads, MayRun(x), thr[x].pc \notin {"find",
           "reset"},
         UNCHANGED <<list, lastRx, mac, chan, msp, mspSeq>>
  PROVE  Numbers'
<1>1. AcksOk'
  BY AcksKept DEF Numbers, HTypes
<1>2. \A t \in Targets : InList(t) => SeqOk(t)'
  BY SeqKept, StaleOnly DEF Numbers, HTypes, Resets
<1>3. QED
  BY <1>1, <1>2 DEF Numbers, InList

\* A reset of the target that the thread was about to reset.
LEMMA NumbersReset ==
  ASSUME HTypes, ~races, Numbers, NEW x \in Threads, MayRun(x), NEW t \in Targets,
         target_reset(t), UNCHANGED <<list, mac, chan, mspSeq>>,
         \A u \in Targets \ {t} : InList(u) => ~Resets(thr[x], u, mac[u])
  PROVE  Numbers'
<1>1. msp' = Forget({mac[t]}) /\ lastRx' = [lastRx EXCEPT ![t] = FreshSeqs]
  BY DEF target_reset
<1>2. AcksOk'
  BY <1>1, AcksKept DEF Numbers, HTypes
<1>3. \A u \in Targets \ {t} : lastRx'[u] = lastRx[u]
  BY <1>1 DEF HTypes, HRxT
<1>4. ASSUME NEW u \in Targets \ {t}, InList(u) PROVE SeqOk(u)'
  <2>1. ~Stale(u) /\ SeqOk(u)
    BY <1>4, StaleOnly DEF Numbers
  <2>2. QED
    BY <1>1, <1>3, <2>1, SeqKept DEF HTypes
<1>5. SeqOk(t)'
  BY <1>1, SeqFresh DEF HTypes, HRxT
<1>6. QED
  BY <1>2, <1>4, <1>5 DEF Numbers, InList

\* Without races every step keeps the last number of a channel one behind the
\* number of the next new message, so that no new message looks like a
\* repetition.
LEMMA NumbersStep ==
  ASSUME HTypes, ThreadsOk, OnceInv, ~races, Tables, Tables', Numbers, [HostStep]_hostVars
  PROVE  Numbers'
<1> USE HostAssumption DEF HTypes
<1>1. ASSUME NEW x \in Threads, NEW r \in CallRecs, Called(x, r) PROVE Numbers'
  <2>1. UNCHANGED <<list, lastRx, mac, chan, msp, mspSeq>>
    BY <1>1, Zenon DEF Called, tblVars, sockVars, mspVars
  <2>2. QED
    BY <1>1, <2>1, NumbersQuiet DEF Called
<1>2. ASSUME NEW x \in Threads, target_change_mac(x) PROVE Numbers'
  <2>0. PICK t \in Targets, n \in Macs : t = thr[x].t /\ n = thr[x].new
    BY <1>2, HeldType DEF target_change_mac
  <2>1. /\ MayRun(x) /\ thr[x].pc = "change" /\ UNCHANGED <<list, chan, lastRx, mspSeq>>
        /\ mac' = [mac EXCEPT ![t] = n] /\ msp' = Forget({mac[t], n})
             /\ Goto(x, AfterChange(thr[x].op), t)
    BY <1>2, <2>0 DEF target_change_mac
  <2>2. AcksOk'
    BY <2>1, AcksKept DEF Numbers
  <2>3. \A u \in Targets \ {t} : mac'[u] = mac[u]
    BY <2>1 DEF HListT
  <2>4. \A u : ~Stale(u)
    BY <2>1, StaleOnly DEF Resets
  <2>5. \A u \in Targets \ {t} : InList(u) => SeqOk(u)'
    BY <2>1, <2>3, <2>4, SeqKept DEF Numbers
  <2>6. mac'[t] = n
    BY <2>1 DEF HListT
  <2>7. thr'[x].pc \in {"find", "reset"} /\ thr'[x].t = t /\ thr'[x].new = n
    <3>1. thr' = [thr EXCEPT ![x] = [thr[x] EXCEPT !.pc = AfterChange(thr[x].op), !.t = t]]
      BY <2>1 DEF Goto, HThrT
    <3>2. QED
      BY <2>0, <3>1 DEF HThrT, ThrRecs, AfterChange
  <2>8. Stale(t)'
    BY <2>6, <2>7 DEF Stale, Resets
  <2>9. InList(t) => SeqOk(t)'
    BY <2>1, <2>8 DEF Numbers, SeqOk, NoSeq
  <2>10. QED
    BY <2>1, <2>2, <2>5, <2>9 DEF Numbers, InList
<1>3. ASSUME NEW x \in Threads, csme_tx_maas(x) PROVE Numbers'
  <2>1. MayRun(x) /\ thr[x].pc = "find" /\ UNCHANGED <<list, mac, chan, mspSeq>>
    BY <1>3 DEF csme_tx_maas
  <2>2. CASE target_find(thr[x].new) = None
    <3>1. UNCHANGED <<lastRx, msp>>
      BY <1>3, <2>2 DEF csme_tx_maas
    <3>2. \A u \in Targets : InList(u) => ~Stale(u)
      BY <2>1, <2>2, FindInList, StaleOnly DEF Resets, InList
    <3>3. AcksOk'
      BY <2>1, <3>1, AcksKept DEF Numbers
    <3>4. \A u \in Targets : InList(u) => SeqOk(u)'
      BY <2>1, <3>1, <3>2, SeqKept DEF Numbers
    <3>5. QED
      BY <2>1, <3>3, <3>4 DEF Numbers, InList
  <2>3. CASE target_find(thr[x].new) # None
    <3>1. PICK t \in Targets : t = target_find(thr[x].new) /\ InList(t) /\ mac[t] = thr[x].new
      BY <2>3, FindInList
    <3>2. target_reset(t)
      BY <1>3, <2>3, <3>1 DEF csme_tx_maas
    <3>3. \A u \in Targets \ {t} : InList(u) => mac[u] # mac[t]
      BY <3>1 DEF Tables, TargetsDistinct, InList
    <3>4. \A u \in Targets \ {t} : InList(u) => ~Resets(thr[x], u, mac[u])
      BY <2>1, <3>1, <3>3 DEF Resets
    <3>5. QED
      BY <2>1, <3>2, <3>4, NumbersReset
  <2>4. QED
    BY <2>2, <2>3
<1>4. ASSUME NEW x \in Threads, csme_reset(x) PROVE Numbers'
  <2>1. /\ MayRun(x) /\ thr[x].pc = "reset" /\ thr[x].t \in Targets
        /\ target_reset(thr[x].t) /\ UNCHANGED <<list, mac, chan, mspSeq>>
    BY <1>4, HeldType DEF csme_reset
  <2>2. \A u \in Targets \ {thr[x].t} : ~Resets(thr[x], u, mac[u])
    BY <2>1 DEF Resets
  <2>3. QED
    BY <2>1, <2>2, NumbersReset
<1>5. ASSUME NEW x \in Threads, csme_tx_add(x) PROVE Numbers'
  <2>1. MayRun(x) /\ thr[x].pc = "add" /\ mspSeq' = mspSeq
    BY <1>5 DEF csme_tx_add
  <2>2. \A u : ~Stale(u)
    BY <2>1, StaleOnly DEF Resets
  <2>3. CASE UNCHANGED <<list, mac, chan, lastRx, txq, proc, msp>>
    BY <2>1, <2>3, NumbersQuiet
  <2>4. ASSUME NEW t \in Targets, target_add(t, thr[x].mac) PROVE Numbers'
    <3>1. /\ list' = <<t>> \o list /\ mac' = [mac EXCEPT ![t] = thr[x].mac]
               /\ chan' = [chan EXCEPT ![t] = {}]
          /\ lastRx' = [lastRx EXCEPT ![t] = FreshSeqs] /\ msp' = Forget({thr[x].mac})
      BY <2>4 DEF target_add
    <3>2. AcksOk'
      BY <2>1, <3>1, AcksKept DEF Numbers
    <3>3. \A u \in Targets \ {t} : mac'[u] = mac[u] /\ chan'[u] = chan[u]
            /\ lastRx'[u] = lastRx[u]
      BY <3>1 DEF HListT, HRxT
    <3>4. \A u \in Targets \ {t} : InList(u) => SeqOk(u)'
      BY <2>1, <2>2, <3>1, <3>3, SeqKept DEF Numbers
    <3>5. SeqOk(t)'
      BY <3>1, SeqFresh DEF HRxT
    <3>6. \A u \in Targets \ {t} : InList(u)' => InList(u)
      <4>1. /\ DOMAIN list = 1 .. Len(list) /\ Len(list) \in Nat
                 /\ DOMAIN list' = 1 .. Len(list) + 1
            /\ list'[1] = t /\ \A i \in 1 .. Len(list) : list'[i + 1] = list[i]
        BY <3>1 DEF HListT
      <4>2. \A i \in DOMAIN list' : i = 1 \/ (i - 1 \in DOMAIN list /\ list'[i] = list[i - 1])
        BY <4>1
      <4>3. QED
        BY <4>1, <4>2 DEF InList
    <3>7. QED
      BY <3>2, <3>4, <3>5, <3>6 DEF Numbers
  <2>5. QED
    BY <1>5, <2>3, <2>4 DEF csme_tx_add
<1>6. ASSUME NEW x \in Threads, csme_tx_chan(x) PROVE Numbers'
  <2>1. UNCHANGED <<list, lastRx, mac, chan, msp, mspSeq>>
    BY <1>6, Zenon DEF csme_tx_chan, tblVars, sockVars, mspVars
  <2>2. QED
    BY <1>6, <2>1, NumbersQuiet DEF csme_tx_chan
<1>7. ASSUME NEW x \in Threads, channel_add(x) PROVE Numbers'
  <2>0. PICK t \in Targets, d \in Chans : t = thr[x].t /\ d = thr[x].ch
    BY <1>7, HeldType DEF channel_add
  <2>1. MayRun(x) /\ thr[x].pc = "chadd" /\ UNCHANGED <<list, mac, mspSeq>>
    BY <1>7 DEF channel_add
  <2>2. \A u : ~Stale(u)
    BY <2>1, StaleOnly DEF Resets
  <2>3. CASE UNCHANGED <<chan, lost, lastRx, txq, msp>>
    BY <2>1, <2>3, NumbersQuiet
  <2>4. CASE /\ chan' = [chan EXCEPT ![t] = @ \cup {d}]
                  /\ lastRx' = [lastRx EXCEPT ![t][d] = NoSeq] /\ msp' = Forget({mac[t]})
    <3>1. AcksOk'
      BY <2>1, <2>4, AcksKept DEF Numbers
    <3>2. \A u \in Targets \ {t} : chan'[u] = chan[u] /\ lastRx'[u] = lastRx[u]
      BY <2>4 DEF HListT, HRxT
    <3>3. \A u \in Targets \ {t} : InList(u) => SeqOk(u)'
      BY <2>1, <2>2, <2>4, <3>2, SeqKept DEF Numbers
    <3>4. ASSUME InList(t) PROVE SeqOk(t)'
      <4>1. /\ lastRx'[t][d] = NoSeq /\ \A c \in AllChans \ {d} : lastRx'[t][c] = lastRx[t][c]
            /\ chan'[t] = chan[t] \cup {d} /\ lastRx' \in [Targets -> [AllChans -> 0 .. SEQ_MOD]]
        <5>1. lastRx' = [lastRx EXCEPT ![t] = [lastRx[t] EXCEPT ![d] = NoSeq]]
                /\ d \in AllChans /\ NoSeq \in 0 .. SEQ_MOD
          BY <2>4, FreshType DEF HRxT, AllChans
        <5>2. lastRx'[t] = [lastRx[t] EXCEPT ![d] = NoSeq]
                /\ lastRx[t] \in [AllChans -> 0 .. SEQ_MOD]
          BY <5>1 DEF HRxT
        <5>3. lastRx' \in [Targets -> [AllChans -> 0 .. SEQ_MOD]]
          BY <5>1, <5>2 DEF HRxT
        <5>4. chan'[t] = chan[t] \cup {d}
          BY <2>4 DEF HListT
        <5>5. QED
          BY <5>1, <5>2, <5>3, <5>4
      <4>2. \A c \in Chans \ chan'[t] : lastRx'[t][c] = NoSeq
        BY <3>4, <4>1 DEF Numbers, SeqOk, AllChans
      <4>3. Agrees(t)
        BY <2>2, <3>4 DEF Numbers, SeqOk
      <4>4. mac[t] = Bcast => lastRx'[t] = FreshSeqs
        BY <4>1, <4>3 DEF Agrees, FreshSeqs
      <4>5. ASSUME mac[t] \in Msps, NEW c \in AllChans
            PROVE  Follows(msp'[mac[t]], mspSeq[mac[t]][c], c, lastRx'[t][c])
        <5>1. CASE c = d
          BY <4>1, <5>1 DEF Follows
        <5>2. CASE c # d
          <6>1. PICK m \in Msps : m = mac[t]
            BY <4>5
          <6>2. /\ msp'[m].made = msp[m].made /\ msp'[m].arrived = msp[m].arrived
                /\ msp'[m].ch = msp[m].ch /\ msp'[m].seq = msp[m].seq
            BY <2>4, ForgetKeeps
          <6>3. Follows(msp[m], mspSeq[m][c], c, lastRx'[t][c])
            BY <4>1, <4>3, <5>2, <6>1 DEF Agrees
          <6>4. QED
            BY <6>1, <6>2, <6>3, Zenon DEF Follows
        <5>3. QED
          BY <5>1, <5>2
      <4>6. Agrees(t)'
        BY <2>1, <4>4, <4>5 DEF Agrees, FreshSeqs, NoSeq
      <4>7. QED
        BY <4>2, <4>6 DEF SeqOk, NoSeq
    <3>5. QED
      BY <2>1, <3>1, <3>3, <3>4 DEF Numbers, InList
  <2>5. QED
    BY <1>7, <2>0, <2>3, <2>4 DEF channel_add
<1>8. ASSUME NEW x \in Threads, csmencaps_create(x) PROVE Numbers'
  <2>1. UNCHANGED <<list, lastRx, mac, chan, msp, mspSeq>>
    BY <1>8, Zenon DEF csmencaps_create, tblVars, sockVars, mspVars
  <2>2. QED
    BY <1>8, <2>1, NumbersQuiet DEF csmencaps_create
<1>9. ASSUME NEW x \in Threads, csmencaps_create_add(x) PROVE Numbers'
  <2>1. UNCHANGED <<list, lastRx, mac, chan, msp, mspSeq>>
    BY <1>9, Zenon DEF csmencaps_create_add, tblVars, sockVars, mspVars
  <2>2. QED
    BY <1>9, <2>1, NumbersQuiet DEF csmencaps_create_add
<1>10. ASSUME NEW x \in Threads, NEW s \in Socks, csmencaps_recvmsg(x, s) PROVE Numbers'
  <2>1. UNCHANGED <<list, lastRx, mac, chan, thr, msp, mspSeq>>
    BY <1>10, Zenon DEF csmencaps_recvmsg, tblVars, sockVars, mspVars
  <2>2. AcksOk'
    BY <2>1, AcksKept DEF Numbers
  <2>3. \A u \in Targets : Stale(u)' <=> Stale(u)
    BY <2>1 DEF Stale, Resets
  <2>4. \A u \in Targets : InList(u) => SeqOk(u)'
    BY <2>1, <2>3, SeqKept DEF Numbers
  <2>5. QED
    BY <2>1, <2>2, <2>4 DEF Numbers, InList
<1>11. ASSUME NEW x \in Threads, NEW s \in Socks, csmencaps_release(x, s) PROVE Numbers'
  <2>1. UNCHANGED <<list, lastRx, mac, chan, msp, mspSeq>>
    BY <1>11, Zenon DEF csmencaps_release, tblVars, sockVars, mspVars
  <2>2. QED
    BY <1>11, <2>1, NumbersQuiet DEF csmencaps_release
<1>12. ASSUME NEW x \in Threads, csmencaps_release_purge(x) PROVE Numbers'
  <2>1. UNCHANGED <<list, lastRx, mac, chan, msp, mspSeq>>
    BY <1>12, Zenon DEF csmencaps_release_purge, tblVars, sockVars, mspVars
  <2>2. QED
    BY <1>12, <2>1, NumbersQuiet DEF csmencaps_release_purge
<1>13. ASSUME NEW m \in Msps, csmencaps_rcv(m) PROVE Numbers'
  <2>1. /\ MayRun(None) /\ msp[m].id > 0 /\ UNCHANGED <<thr, list, chan, mspSeq>>
    BY <1>13 DEF csmencaps_rcv
  <2>2. \A u : ~Stale(u) /\ ~Stale(u)'
    <3>1. \A u : ~Stale(u)
      BY <2>1, StaleNever
    <3>2. \A y \in Threads : thr'[y].pc \notin LookedUp
      BY <2>1, TablesSoftirq
    <3>3. QED
      BY <3>1, <3>2 DEF Stale, Resets, LookedUp
  <2>3. \A u \in Targets : InList(u) => SeqOk(u) /\ Agrees(u)
    BY <2>2 DEF Numbers, SeqOk
  <2>4. CASE UNCHANGED <<list, mac, proc, lastRx, txq, msp>>
    <3>1. AcksOk'
      BY <2>1, <2>4, AcksKept DEF Numbers
    <3>2. \A u \in Targets : InList(u) => SeqOk(u)'
      BY <2>1, <2>2, <2>3, <2>4, SeqKept
    <3>3. QED
      BY <2>4, <3>1, <3>2 DEF Numbers, InList
  <2>5. ASSUME NEW t \in Targets, InList(t), mac[t] \in {m, Bcast}, mac' = [mac EXCEPT ![t] = m],
               \/ UNCHANGED <<lastRx, txq, msp>>
               \/ /\ csme_rx_msg(m, t, msp[m])
                  /\ msp[m].ch \in Chans => msp[m].ch \in chan[t]
        PROVE  Numbers'
    <3>1. mac'[t] = m /\ \A u \in Targets \ {t} : mac'[u] = mac[u]
      BY <2>5 DEF HListT
    <3>2. \A u \in Targets \ {t} : InList(u) => mac[u] # m
      BY <2>1, <2>5, <3>1 DEF Tables, TargetsDistinct, InList
    <3>3. ASSUME Agrees(t)', AcksOk', \A c \in Chans \ chan[t] : lastRx'[t][c] = NoSeq,
                 \A u \in Targets \ {t} : lastRx'[u] = lastRx[u],
                     \A v \in Msps \ {m} : msp'[v] = msp[v]
          PROVE  Numbers'
      <4>1. SeqOk(t)'
        BY <2>1, <3>3 DEF SeqOk, NoSeq
      <4>2. ASSUME NEW u \in Targets \ {t}, InList(u) PROVE SeqOk(u)'
        <5>1. SeqOk(u) /\ Agrees(u) /\ mac[u] # m /\ mac'[u] = mac[u] /\ lastRx'[u] = lastRx[u]
          BY <2>3, <3>1, <3>2, <3>3, <4>2
        <5>2. mac[u] \in Msps => msp'[mac[u]] = msp[mac[u]]
          BY <3>3, <5>1
        <5>3. Agrees(u)'
          BY <2>1, <5>1, <5>2 DEF Agrees, FreshSeqs, NoSeq
        <5>4. QED
          BY <2>1, <5>1, <5>3 DEF SeqOk, NoSeq
      <4>3. QED
        BY <2>1, <3>3, <4>1, <4>2 DEF Numbers, InList
    <3>4. \A c \in Chans \ chan[t] : lastRx[t][c] = NoSeq
      BY <2>3, <2>5 DEF SeqOk
    <3>5. mac[t] = Bcast => \A c \in AllChans : lastRx[t][c] = NoSeq
      BY <2>3, <2>5 DEF Agrees, FreshSeqs
    <3>6. \A c \in AllChans : Follows(msp[m], mspSeq[m][c], c, lastRx[t][c])
      BY <2>3, <2>5, <3>5 DEF Agrees, Follows
    <3>7. CASE UNCHANGED <<lastRx, txq, msp>>
      <4>1. Agrees(t)'
        BY <2>1, <3>1, <3>6, <3>7 DEF Agrees
      <4>2. AcksOk'
        BY <2>1, <3>7, AcksKept DEF Numbers
      <4>3. QED
        BY <3>3, <3>4, <3>7, <4>1, <4>2
    <3>8. ASSUME csme_rx_msg(m, t, msp[m]), msp[m].ch \in Chans => msp[m].ch \in chan[t]
          PROVE  Numbers'
      <4>1. \A v \in Msps \ {m} : msp'[v] = msp[v]
        BY <3>8 DEF csme_rx_msg, HMspT
      <4>2. \A u \in Targets \ {t} : lastRx'[u] = lastRx[u]
        BY <3>8 DEF csme_rx_msg, HRxT
      <4>3. /\ msp[m].ch \in AllChans /\ msp[m] \in MspRecs /\ msp[m].seq \in 0 .. SEQ_MOD - 1
            /\ msp[m].made # {} => msp[m].ch = Supv
            /\ msp[m].made \subseteq Chans
        BY DEF OnceInv, HMspT, MspRecs
      <4>4. mspSeq[m][msp[m].ch] = MspNumber(msp[m].seq)
        BY <2>1 DEF Numbers, AcksOk
      <4>5. CASE Repeated(t, msp[m].ch, msp[m].seq)
        <5>1. msp[m].arrived
          <6>1. lastRx[t][msp[m].ch] = msp[m].seq /\ msp[m].seq # NoSeq
            BY <4>3, <4>5 DEF Repeated, NoSeq
          <6>2. MspNumber(msp[m].seq) # msp[m].seq
            BY <4>3, NumberType
          <6>3. msp[m].ch \notin msp[m].made
            BY <4>3, HostAssumption
          <6>4. Follows(msp[m], mspSeq[m][msp[m].ch], msp[m].ch, msp[m].seq)
            BY <3>6, <4>3, <6>1
          <6>5. QED
            BY <6>1, <6>2, <6>3, <6>4, Zenon DEF Follows
        <5>2. /\ msp'[m].ch = msp[m].ch /\ msp'[m].made = msp[m].made /\ msp'[m].seq = msp[m].seq
              /\ msp'[m].arrived = msp[m].arrived /\ msp'[m].id = msp[m].id /\ lastRx' = lastRx
          BY <3>8, <4>3, <4>5 DEF csme_rx_msg, HMspT, MspRecs
        <5>3. \A v \in Msps : msp'[v].acked => msp'[v].arrived
          BY <4>1, <5>1, <5>2, Zenon DEF Numbers, AcksOk
        <5>4. \A v \in Msps : msp'[v].id > 0 => mspSeq'[v][msp'[v].ch] = MspNumber(msp'[v].seq)
          BY <2>1, <4>1, <5>2, Zenon DEF Numbers, AcksOk
        <5>5. AcksOk'
          BY <5>3, <5>4 DEF AcksOk, MspNumber
        <5>6. \A c \in AllChans : Follows(msp'[m], mspSeq[m][c], c, lastRx'[t][c])
          BY <3>6, <5>2, Zenon DEF Follows
        <5>7. Agrees(t)'
          BY <2>1, <3>1, <5>6 DEF Agrees
        <5>8. QED
          BY <3>3, <3>4, <4>1, <4>2, <5>2, <5>5, <5>7
      <4>6. CASE ~Repeated(t, msp[m].ch, msp[m].seq)
        <5>1. /\ msp'[m].ch = msp[m].ch /\ msp'[m].made = msp[m].made /\ msp'[m].seq = msp[m].seq
              /\ msp'[m].id = msp[m].id
          BY <3>8, <4>3, <4>6 DEF csme_rx_msg, HMspT, MspRecs
        <5>2. msp'[m].arrived = TRUE
          BY <3>8, <4>3, <4>6 DEF csme_rx_msg, HMspT, MspRecs
        <5>3. \A c \in AllChans : lastRx'[t][c] = IF c \in Created(t, msp[m]) THEN NoSeq
                ELSE IF c = msp[m].ch THEN msp[m].seq ELSE lastRx[t][c]
          BY <3>8, <4>6 DEF csme_rx_msg, HRxT
        <5>4. \A v \in Msps : msp'[v].acked => msp'[v].arrived
          BY <4>1, <5>2, Zenon DEF Numbers, AcksOk
        <5>5. \A v \in Msps : msp'[v].id > 0 => mspSeq'[v][msp'[v].ch] = MspNumber(msp'[v].seq)
          BY <2>1, <4>1, <5>1, Zenon DEF Numbers, AcksOk
        <5>6. AcksOk'
          BY <5>4, <5>5 DEF AcksOk, MspNumber
        <5>7. ASSUME NEW c \in AllChans PROVE Follows(msp'[m], mspSeq[m][c], c, lastRx'[t][c])
          <6>1. CASE c \in Created(t, msp[m])
            BY <5>3, <6>1 DEF Follows
          <6>2. CASE c \notin Created(t, msp[m]) /\ c = msp[m].ch
            <7>1. lastRx'[t][c] = msp[m].seq
              BY <5>3, <6>2
            <7>2. QED
              BY <4>4, <5>2, <6>2, <7>1, Zenon DEF Follows
          <6>3. CASE c \notin Created(t, msp[m]) /\ c # msp[m].ch
            <7>1. lastRx'[t][c] = lastRx[t][c]
              BY <5>3, <6>3
            <7>2. c \in msp[m].made => lastRx[t][c] = NoSeq
              BY <3>4, <4>3, <6>3 DEF Created
            <7>3. lastRx[t][c] = NoSeq \/ MspNumber(lastRx[t][c]) = mspSeq[m][c]
              BY <3>6, <6>3, <7>2, Zenon DEF Follows
            <7>4. QED
              BY <5>2, <7>1, <7>3, Zenon DEF Follows
          <6>4. QED
            BY <6>1, <6>2, <6>3
        <5>8. Agrees(t)'
          BY <2>1, <3>1, <5>7 DEF Agrees
        <5>9. \A c \in Chans \ chan[t] : lastRx'[t][c] = NoSeq
          BY <3>4, <3>8, <5>3 DEF AllChans
        <5>10. QED
          BY <3>3, <4>1, <4>2, <5>6, <5>8, <5>9
      <4>7. QED
        BY <4>5, <4>6
    <3>9. QED
      BY <2>5, <3>7, <3>8
  <2>6. QED
    BY <1>13, <2>4, <2>5, RcvFinds
<1>14. ASSUME NEW m \in Msps, NEW c \in AllChans, csmencaps_rcv_ack(m, c) PROVE Numbers'
  <2>1. UNCHANGED <<list, lastRx, mac, chan, thr, msp, mspSeq>>
    BY <1>14, Zenon DEF csmencaps_rcv_ack, tblVars, sockVars, mspVars
  <2>2. AcksOk'
    BY <2>1, AcksKept DEF Numbers
  <2>3. \A u \in Targets : Stale(u)' <=> Stale(u)
    BY <2>1 DEF Stale, Resets
  <2>4. \A u \in Targets : InList(u) => SeqOk(u)'
    BY <2>1, <2>3, SeqKept DEF Numbers
  <2>5. QED
    BY <2>1, <2>2, <2>4 DEF Numbers, InList
<1>15. ASSUME NEW t \in Targets, NEW c \in AllChans, GiveUp(t, c) PROVE Numbers'
  <2>1. UNCHANGED <<list, lastRx, mac, chan, thr, msp, mspSeq>>
    BY <1>15, Zenon DEF GiveUp, tblVars, sockVars, mspVars
  <2>2. AcksOk'
    BY <2>1, AcksKept DEF Numbers
  <2>3. \A u \in Targets : Stale(u)' <=> Stale(u)
    BY <2>1 DEF Stale, Resets
  <2>4. \A u \in Targets : InList(u) => SeqOk(u)'
    BY <2>1, <2>3, SeqKept DEF Numbers
  <2>5. QED
    BY <2>1, <2>2, <2>4 DEF Numbers, InList
<1>16. CASE csmencaps_init
  <2>1. UNCHANGED <<list, lastRx, mac, chan, thr, msp, mspSeq>>
    BY <1>16, Zenon DEF csmencaps_init, tblVars, sockVars, mspVars
  <2>2. AcksOk'
    BY <2>1, AcksKept DEF Numbers
  <2>3. \A u \in Targets : Stale(u)' <=> Stale(u)
    BY <2>1 DEF Stale, Resets
  <2>4. \A u \in Targets : InList(u) => SeqOk(u)'
    BY <2>1, <2>3, SeqKept DEF Numbers
  <2>5. QED
    BY <2>1, <2>2, <2>4 DEF Numbers, InList
<1>17. CASE csmencaps_exit
  <2>1. list' = <<>> /\ msp' = Forget(Msps) /\ mspSeq' = mspSeq
    BY <1>17 DEF csmencaps_exit, target_remove_all
  <2>2. AcksOk'
    BY <2>1, AcksKept DEF Numbers
  <2>3. \A u \in Targets : ~InList(u)'
    BY <2>1 DEF InList
  <2>4. QED
    BY <2>2, <2>3 DEF Numbers
<1>18. ASSUME NEW m \in Msps, NEW c \in AllChans, NEW kind \in {"msg", "ready"},
                NEW made \in SUBSET Chans, made # {} => c = Supv, MspSend(m, c, kind, made)
       PROVE  Numbers'
  <2>1. /\ UNCHANGED <<list, lastRx, mac, chan, thr>> /\ msp[m].acked
        /\ msp' = [msp EXCEPT ![m] = [id |-> msp[m].id + 1, ch |-> c, seq |-> mspSeq[m][c],
             kind |-> kind, made |-> made,
                                       acked |-> FALSE, arrived |-> FALSE, times |-> 0]]
        /\ mspSeq' = [mspSeq EXCEPT ![m] =
             [d \in AllChans |-> IF d \in made THEN 0
                                 ELSE IF d = c THEN MspNumber(@[d]) ELSE @[d]]]
    BY <1>18 DEF MspSend, tblVars
  <2>2. msp[m].arrived
    BY <2>1 DEF Numbers, AcksOk
  <2>3. \A u \in Msps \ {m} : msp'[u] = msp[u] /\ mspSeq'[u] = mspSeq[u]
    BY <2>1 DEF HMspT, HSeqT
  <2>4. /\ msp'[m].ch = c /\ msp'[m].seq = mspSeq[m][c] /\ msp'[m].made = made
             /\ msp'[m].arrived = FALSE /\ msp'[m].acked = FALSE
    BY <2>1 DEF HMspT
  <2>5. \A d \in AllChans : mspSeq'[m][d] = IF d \in made THEN 0
          ELSE IF d = c THEN MspNumber(mspSeq[m][d]) ELSE mspSeq[m][d]
    BY <2>1 DEF HSeqT
  <2>6. mspSeq'[m][c] = MspNumber(mspSeq[m][c])
    BY <1>18, <2>5
  <2>7. AcksOk'
    <3>1. \A u \in Msps : msp'[u].acked => msp'[u].arrived
      BY <2>3, <2>4, Zenon DEF Numbers, AcksOk
    <3>2. \A u \in Msps : msp'[u].id > 0 => mspSeq'[u][msp'[u].ch] = MspNumber(msp'[u].seq)
      BY <2>3, <2>4, <2>6, ZenonT(40) DEF Numbers, AcksOk
    <3>3. QED
      BY <3>1, <3>2 DEF AcksOk, MspNumber
  <2>8. ASSUME NEW u \in Targets, InList(u) PROVE SeqOk(u)'
    <3>1. SeqOk(u)
      BY <2>8 DEF Numbers
    <3>2. Stale(u)' <=> Stale(u)
      BY <2>1 DEF Stale, Resets
    <3>3. ASSUME Agrees(u) PROVE Agrees(u)'
      <4>1. ASSUME mac[u] \in Msps, NEW d \in AllChans
            PROVE  Follows(msp'[mac[u]], mspSeq'[mac[u]][d], d, lastRx[u][d])
        <5>1. Follows(msp[mac[u]], mspSeq[mac[u]][d], d, lastRx[u][d])
          BY <3>3, <4>1 DEF Agrees
        <5>2. CASE mac[u] # m
          BY <2>3, <4>1, <5>1, <5>2
        <5>3. CASE mac[u] = m
          <6>1. lastRx[u][d] = NoSeq \/ MspNumber(lastRx[u][d]) = mspSeq[m][d]
            BY <2>2, <5>1, <5>3, Zenon DEF Follows
          <6>2. CASE d = c
            BY <2>4, <5>3, <6>1, <6>2, Zenon DEF Follows
          <6>3. CASE d # c /\ d \in made
            BY <2>4, <5>3, <6>3, Zenon DEF Follows
          <6>4. CASE d # c /\ d \notin made
            <7>1. mspSeq'[m][d] = mspSeq[m][d]
              BY <2>5, <6>4
            <7>2. QED
              BY <2>4, <5>3, <6>1, <6>4, <7>1, Zenon DEF Follows
          <6>5. QED
            BY <6>2, <6>3, <6>4
        <5>4. QED
          BY <5>2, <5>3
      <4>2. QED
        BY <2>1, <3>3, <4>1 DEF Agrees, FreshSeqs, NoSeq
    <3>4. QED
      BY <2>1, <3>1, <3>2, <3>3 DEF SeqOk, NoSeq
  <2>9. QED
    BY <2>1, <2>7, <2>8 DEF Numbers, InList
<1>19. CASE UNCHANGED hostVars
  <2>1. UNCHANGED <<list, lastRx, mac, chan, thr, msp, mspSeq>>
    BY <1>19, Zenon DEF hostVars, tblVars, sockVars, mspVars
  <2>2. AcksOk'
    BY <2>1, AcksKept DEF Numbers
  <2>3. \A u \in Targets : Stale(u)' <=> Stale(u)
    BY <2>1 DEF Stale, Resets
  <2>4. \A u \in Targets : InList(u) => SeqOk(u)'
    BY <2>1, <2>3, SeqKept DEF Numbers
  <2>5. QED
    BY <2>1, <2>2, <2>4 DEF Numbers, InList
<1>20. QED
  BY <1>1, <1>2, <1>3, <1>4, <1>5, <1>6, <1>7, <1>8, <1>9, <1>10, <1>11,
     <1>12, <1>13, <1>14, <1>15, <1>16, <1>17, <1>18, <1>19 DEF HostStep

-----------------------------------------------------------------------------
(* The theorems                                                            *)

\* The inductive invariant holds before the module is loaded.
LEMMA HostInitInv == HostInit => HostInv
<1> SUFFICES ASSUME HostInit PROVE HostInv
  OBVIOUS
<1> USE HostAssumption
<1>1. HTypes
  <2>1. HFlagsT
    BY Zenon DEF HostInit, HFlagsT
  <2>2. HListT
    BY DEF HostInit, HListT, Macs
  <2>3. HRxT
    BY FreshType DEF HostInit, HRxT
  <2>4. HTxT
    BY DEF HostInit, HTxT
  <2>5. HThrT
    <3>1. Idle \in ThrRecs
      BY DEF Idle, ThrRecs, Macs, AllChans
    <3>2. QED
      BY <3>1 DEF HostInit, HThrT
  <2>6. HSockT
    BY DEF HostInit, HSockT
  <2>7. HMspT
    <3>1. [id |-> 0, ch |-> Boot, seq |-> 0, kind |-> "msg",
           made |-> {}, acked |-> TRUE, arrived |-> TRUE, times |-> 0] \in MspRecs
      BY DEF MspRecs, AllChans
    <3>2. QED
      BY <3>1 DEF HostInit, HMspT
  <2>8. HSeqT
    BY DEF HostInit, HSeqT
  <2>9. QED
    BY <2>1, <2>2, <2>3, <2>4, <2>5, <2>6, <2>7, <2>8 DEF HTypes
<1>2. ThreadsOk
  BY DEF HostInit, ThreadsOk, ThreadOk, RecOk, Idle, LookedUp
<1>3. SocksOk
  BY DEF HostInit, SocksOk, SksOnce, InSks
<1>4. OnceInv
  BY DEF HostInit, OnceInv, Heard
<1>5. TablesInv
  <2>1. Alone /\ \A x \in Threads : Known(x)
    BY DEF HostInit, Alone, Known, Idle, LookedUp
  <2>2. Listed = {}
    BY DEF HostInit, Listed, InList
  <2>3. ProcOk
    BY <2>2 DEF HostInit, ProcOk
  <2>4. TargetsDistinct /\ lost = 0 /\ Len(sklist) <= 1
    BY DEF HostInit, TargetsDistinct
  <2>5. QED
    BY <2>1, <2>3, <2>4 DEF TablesInv, Tables
<1>6. SeqInv
  <2>1. \A t \in Targets : ~InList(t)
    BY DEF HostInit, InList
  <2>2. AcksOk
    BY DEF HostInit, AcksOk
  <2>3. QED
    BY <2>1, <2>2 DEF SeqInv, Numbers
<1>7. QED
  BY <1>1, <1>2, <1>3, <1>4, <1>5, <1>6, HostTypeParts DEF HostInv

\* Whether calls race is settled at the start.
LEMMA RacesKept ==
  ASSUME [HostStep]_hostVars PROVE races' = races
<1>1. ASSUME NEW x \in Threads, NEW r \in CallRecs, Called(x, r) PROVE races' = races
  BY <1>1, Zenon DEF Called
<1>2. ASSUME NEW x \in Threads, target_change_mac(x) PROVE races' = races
  BY <1>2, Zenon DEF target_change_mac
<1>3. ASSUME NEW x \in Threads, csme_tx_maas(x) PROVE races' = races
  BY <1>3, Zenon DEF csme_tx_maas
<1>4. ASSUME NEW x \in Threads, csme_reset(x) PROVE races' = races
  BY <1>4, Zenon DEF csme_reset
<1>5. ASSUME NEW x \in Threads, csme_tx_add(x) PROVE races' = races
  BY <1>5, Zenon DEF csme_tx_add
<1>6. ASSUME NEW x \in Threads, csme_tx_chan(x) PROVE races' = races
  BY <1>6, Zenon DEF csme_tx_chan
<1>7. ASSUME NEW x \in Threads, channel_add(x) PROVE races' = races
  BY <1>7, Zenon DEF channel_add
<1>8. ASSUME NEW x \in Threads, csmencaps_create(x) PROVE races' = races
  BY <1>8, Zenon DEF csmencaps_create
<1>9. ASSUME NEW x \in Threads, csmencaps_create_add(x) PROVE races' = races
  BY <1>9, Zenon DEF csmencaps_create_add
<1>10. ASSUME NEW x \in Threads, NEW s \in Socks, csmencaps_recvmsg(x, s) PROVE races' = races
  BY <1>10, Zenon DEF csmencaps_recvmsg
<1>11. ASSUME NEW x \in Threads, NEW s \in Socks, csmencaps_release(x, s) PROVE races' = races
  BY <1>11, Zenon DEF csmencaps_release
<1>12. ASSUME NEW x \in Threads, csmencaps_release_purge(x) PROVE races' = races
  BY <1>12, Zenon DEF csmencaps_release_purge
<1>13. ASSUME NEW m \in Msps, csmencaps_rcv(m) PROVE races' = races
  BY <1>13, Zenon DEF csmencaps_rcv
<1>14. ASSUME NEW m \in Msps, NEW c \in AllChans, csmencaps_rcv_ack(m, c) PROVE races' = races
  BY <1>14, Zenon DEF csmencaps_rcv_ack
<1>15. ASSUME NEW t \in Targets, NEW c \in AllChans, GiveUp(t, c) PROVE races' = races
  BY <1>15, Zenon DEF GiveUp
<1>16. CASE csmencaps_init
  BY <1>16, Zenon DEF csmencaps_init
<1>17. CASE csmencaps_exit
  BY <1>17, Zenon DEF csmencaps_exit
<1>18. ASSUME NEW m \in Msps, NEW c \in AllChans, NEW kind \in {"msg", "ready"},
                NEW made \in SUBSET Chans, made # {} => c = Supv, MspSend(m, c, kind, made)
       PROVE  races' = races
  BY <1>18, Zenon DEF MspSend
<1>19. CASE UNCHANGED hostVars
  BY <1>19, Zenon DEF hostVars
<1>20. QED
  BY <1>1, <1>2, <1>3, <1>4, <1>5, <1>6, <1>7, <1>8, <1>9, <1>10, <1>11,
     <1>12, <1>13, <1>14, <1>15, <1>16, <1>17, <1>18, <1>19 DEF HostStep

\* Every step preserves the inductive invariant.
LEMMA HostInvStep == HostInv /\ [HostNext]_hostVars => HostInv'
<1> SUFFICES ASSUME HostInv, [HostNext]_hostVars PROVE HostInv'
  OBVIOUS
<1>1. [HostStep]_hostVars
  BY StepIs
<1>2. HTypes /\ ThreadsOk /\ SocksOk /\ OnceInv /\ TablesInv /\ SeqInv
  BY HostTypeParts DEF HostInv
<1>3. HTypes' /\ ThreadsOk' /\ SocksOk' /\ OnceInv'
  BY <1>1, <1>2, HostTypeStep, ThreadsStep, SocksStep, OnceStep
<1>4. races' = races
  BY <1>1, RacesKept
<1>5. TablesInv' /\ SeqInv'
  <2>1. CASE races
    BY <1>4, <2>1 DEF TablesInv, SeqInv
  <2>2. CASE ~races
    <3>1. Tables /\ Numbers
      BY <1>2, <2>2 DEF TablesInv, SeqInv
    <3>2. Tables'
      BY <1>1, <1>2, <2>2, <3>1, TablesStep
    <3>3. Numbers'
      BY <1>1, <1>2, <2>2, <3>1, <3>2, NumbersStep
    <3>4. QED
      BY <3>2, <3>3 DEF TablesInv, SeqInv
  <2>3. QED
    BY <2>1, <2>2
<1>6. QED
  BY <1>3, <1>5, HostTypeParts DEF HostInv

\* It holds in every behaviour.
LEMMA HostAlwaysInv == HostSpec => []HostInv
  BY HostInitInv, HostInvStep, PTL DEF HostSpec

\* However many threads, targets, channels and sockets, and whatever arrives
\* while csmencaps_release() takes a socket apart: when
\* csmencaps_sock_destruct() runs, nothing is charged to the socket's receive
\* queue (its BUG_TRAP).
THEOREM SockAlwaysFreedEmpty == HostSpec => []SockFreedEmpty
<1>1. HostInv => SockFreedEmpty
  BY DEF HostInv, SocksOk, SockFreedEmpty, Destructed
<1>2. QED
  BY <1>1, HostAlwaysInv, PTL

\* csme_rx_msg() gives a message to the socket at most once, however often it
\* is repeated and whatever the other calls do meanwhile, unless its channel
\* was reset or its target replaced since.
THEOREM RxAlwaysOnce == HostSpec => []RxOnce
<1>1. HostInv => RxOnce
  BY DEF HostInv, OnceInv, RxOnce
<1>2. QED
  BY <1>1, HostAlwaysInv, PTL

\* As long as no two calls race in the tables, a message that its MSP sees
\* acked was new to the host once: csme_rx_msg() never takes a new message
\* for a repetition of an older one, whatever the number of sequence numbers
\* (two or more).
THEOREM AckedAlwaysArrived == HostSpec => []AckedArrived
<1>1. HostInv => AckedArrived
  BY DEF HostInv, SeqInv, Numbers, AcksOk, AckedArrived
<1>2. QED
  BY <1>1, HostAlwaysInv, PTL

\* As long as no two calls race in the tables, the targets have distinct
\* addresses, /proc/net/csmencaps has exactly their files, no channel is lost
\* and there is one socket at most (target_add(), target_change_mac(),
\* channel_add(), csmencaps_create()).
THEOREM TablesAlwaysSound == HostSpec => []TablesSound
<1>1. HostInv => TablesSound
  <2>1. SUFFICES ASSUME HostInv, ~races
                 PROVE  TargetsDistinct /\ ProcMatches /\ lost = 0 /\ Len(sklist) <= 1
    BY DEF TablesSound
  <2>2. Tables
    BY <2>1 DEF HostInv, TablesInv
  <2>3. Range(list) = Listed
    <3>1. \A i \in DOMAIN list : list[i] \in Targets
      BY <2>1 DEF HostInv, HostTypeOK
    <3>2. QED
      BY <3>1 DEF Range, Listed, InList
  <2>4. QED
    BY <2>2, <2>3 DEF Tables, ProcOk, ProcMatches
<1>2. QED
  BY <1>1, HostAlwaysInv, PTL

=============================================================================
