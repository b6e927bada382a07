------------------------------ MODULE CsmeHost ------------------------------
(***************************************************************************)
(* The rest of netboot/csmencaps/af_csmencaps.c around the channel of      *)
(* CsmeChannel: the list of targets with their channels, the receive path  *)
(* up to the socket, the socket calls and the life of the module.          *)
(*                                                                         *)
(* Contexts.  Socket calls run in process context and are cut into steps:  *)
(* between any two of them a softirq (csmencaps_rcv) may run, and where    *)
(* the code allocates with GFP_KERNEL ("add", "chadd", "create") another   *)
(* thread may run too.  `races' says whether that happens while a thread   *)
(* is using what it looked up in the list of targets or of sockets.        *)
(*                                                                         *)
(* The MSPs are external: each sends its messages one at a time, numbered  *)
(* per channel, and repeats one until it is acked.  A packet or an ack     *)
(* that is lost is a repetition that has not happened yet.                 *)
(***************************************************************************)
EXTENDS Integers, Sequences, FiniteSets, Functions

CONSTANTS
  Threads,     \* threads of the process that uses the CSME sockets
  Msps,        \* hardware addresses of the MSPs
  Bcast,       \* the broadcast address
  Boot, Supv,  \* the boot and the supervisor channel of a target
  Chans,       \* other channel numbers
  Targets,     \* struct csme_target's that can be allocated
  Socks,       \* sockets that can be created
  None,        \* a null pointer
  SEQ_MOD,     \* sequence numbers are taken modulo this (16)
  RcvBuf,      \* messages that fit in the receive buffer of a socket
  TableRaces,  \* values of `races'
  MaxMsgs,     \* bound: messages an MSP sends, for each value of `races'
  MaxTx        \* bound: messages on the transmit queues

ASSUME HostAssumption ==
  /\ Bcast \notin Msps /\ Boot # Supv /\ {Boot, Supv} \cap Chans = {}
  /\ None \notin Targets \cup Socks \cup Threads
  /\ SEQ_MOD \in Nat \ {0, 1} /\ RcvBuf \in Nat
  /\ TableRaces \subseteq BOOLEAN
  /\ MaxMsgs \in [BOOLEAN -> Nat] /\ MaxTx \in Nat

VARIABLES
  mod,      \* is the module loaded?
  races,
  list,     \* csme_target_list, its head first
  mac,      \* target->macaddr
  chan,     \* channels in target->channel[]
  lastRx,   \* last_rx_seq_number of every channel of a target
  txq,      \* the channels' tx_queue: the socket each skb is charged to
  lost,     \* channels allocated and no longer in the table of their target
  proc,     \* addresses with a file in /proc/net/csmencaps
  thr,      \* what each thread is doing
  sklist,   \* csme_sklist, its head first
  skst,     \* none, listed, dead (off the list), put (released)
  rq,       \* sk_receive_queue: "msg" or "ack"
  msp,      \* the message each MSP is sending
  mspSeq    \* the next sequence number of each of its channels

tblVars  == <<list, mac, chan, lastRx, txq, lost, proc>>
sockVars == <<sklist, skst, rq>>
mspVars  == <<msp, mspSeq>>
hostVars == <<mod, races, tblVars, thr, sockVars, mspVars>>
-----------------------------------------------------------------------------
Macs == Msps \cup {Bcast}
AllChans == Chans \cup {Boot, Supv}
NoSeq == SEQ_MOD                       \* 0xff
FreshSeqs == [c \in AllChans |-> NoSeq]

Idle == [pc |-> "idle", op |-> "send", mac |-> Bcast, new |-> Bcast, ch |-> Boot,
         t |-> None, sk |-> None]
\* Steps that use a result of a search in the list of targets or sockets...
LookedUp == {"change", "find", "reset", "chan", "add", "chadd", "create"}
\* ... and the ones after an allocation that may have slept.
Slept == {"add", "chadd", "create"}

HostTypeOK ==
  /\ mod \in BOOLEAN /\ races \in BOOLEAN
  /\ list \in Seq(Targets) /\ mac \in [Targets -> Macs]
  /\ chan \in [Targets -> SUBSET Chans]
  /\ lastRx \in [Targets -> [AllChans -> 0 .. SEQ_MOD]]
  /\ txq \in [Targets -> [AllChans -> Seq(Socks)]]
  /\ lost \in Nat /\ proc \subseteq Macs
  /\ thr \in [Threads -> [pc : {"idle", "purge"} \cup LookedUp,
                          op : {"send", "boot", "maas", "ackopt", "reset"},
                          mac : Macs, new : Macs, ch : AllChans,
                          t : Targets \cup {None}, sk : Socks \cup {None}]]
  /\ sklist \in Seq(Socks)
  /\ skst \in [Socks -> {"none", "listed", "dead", "put"}]
  /\ rq \in [Socks -> Seq({"msg", "ack"})]
  /\ msp \in [Msps -> [id : Nat, ch : AllChans, seq : 0 .. SEQ_MOD - 1,
                       kind : {"msg", "ready"}, made : SUBSET Chans,
                       acked : BOOLEAN, arrived : BOOLEAN, times : Nat]]
  /\ mspSeq \in [Msps -> [AllChans -> 0 .. SEQ_MOD - 1]]

HostInit ==
  /\ mod = FALSE /\ races \in TableRaces
  /\ list = <<>> /\ mac = [t \in Targets |-> Bcast]
  /\ chan = [t \in Targets |-> {}]
  /\ lastRx = [t \in Targets |-> FreshSeqs]
  /\ txq = [t \in Targets |-> [c \in AllChans |-> <<>>]]
  /\ lost = 0 /\ proc = {}
  /\ thr = [x \in Threads |-> Idle]
  /\ sklist = <<>> /\ skst = [s \in Socks |-> "none"]
  /\ rq = [s \in Socks |-> <<>>]
  /\ msp = [m \in Msps |-> [id |-> 0, ch |-> Boot, seq |-> 0, kind |-> "msg",
                            made |-> {}, acked |-> TRUE, arrived |-> TRUE, times |-> 0]]
  /\ mspSeq = [m \in Msps |-> [c \in AllChans |-> 0]]

\* May thread x run?  A softirq is nobody's thread.
MayRun(x) ==
  /\ mod
  /\ \A y \in Threads \ {x} :
       /\ thr[y].pc \in LookedUp \ Slept => x \notin Threads
       /\ thr[y].pc \in LookedUp => races
-----------------------------------------------------------------------------
(* The list of targets                                                     *)

\* The first of the list with this address, or None.
target_find(a) ==
  LET hits == {i \in DOMAIN list : mac[list[i]] = a}
  IN IF hits = {} THEN None
     ELSE list[CHOOSE i \in hits : \A j \in hits : i <= j]

csme_get_socket == IF sklist = <<>> THEN None ELSE Head(sklist)

\* What the host remembers of the messages of these MSPs is gone.
Forget(S) == [m \in Msps |-> IF m \in S THEN [msp[m] EXCEPT !.times = 0] ELSE msp[m]]

\* target_reset(): __channel_reset() of every channel of the target.
target_reset(t) ==
  /\ lastRx' = [lastRx EXCEPT ![t] = FreshSeqs]
  /\ txq' = [txq EXCEPT ![t] = [c \in AllChans |-> <<>>]]
  /\ msp' = Forget({mac[t]})

\* target_add(), when kmalloc() succeeds.
target_add(t, a) ==
  /\ t \in Targets \ Range(list)
  /\ list' = <<t>> \o list
  /\ mac' = [mac EXCEPT ![t] = a]
  /\ chan' = [chan EXCEPT ![t] = {}]
  /\ lastRx' = [lastRx EXCEPT ![t] = FreshSeqs]
  /\ txq' = [txq EXCEPT ![t] = [c \in AllChans |-> <<>>]]
  /\ proc' = proc \cup {a}
  /\ msp' = Forget({a})

NoTwinUnchecked(a) == TRUE

\* "make sure that another target with the same mac doesn't already exist"
NoTwin(a) == target_find(a) = None

\* Thread x moves on to pc, with target t.
Goto(x, pc, t) == thr' = [thr EXCEPT ![x].pc = pc, ![x].t = t]
Done(x) == thr' = [thr EXCEPT ![x] = Idle]
-----------------------------------------------------------------------------
(* csmencaps_sendmsg() and csme_tx().  A call that is refused before it    *)
(* touches a target (no address, no device, too long) changes nothing.     *)

AfterChange(op) == IF op = "maas" THEN "find" ELSE "reset"

\* The first search.  MAAS_ASSIGN and CSME_TARGET_RESET change the address
\* of the target they find, all others add one if there is none.
StartCall(x, r, t) ==
  IF r.op \in {"maas", "reset"}
  THEN CASE t # None /\ NoTwin(r.new) ->
              /\ proc' = proc \ {mac[t]}
              /\ thr' = [thr EXCEPT ![x] = [r EXCEPT !.pc = "change", !.t = t]]
         [] t = None /\ r.op = "reset" -> UNCHANGED <<thr, proc>>
         [] OTHER ->
              /\ thr' = [thr EXCEPT ![x] = [r EXCEPT !.pc = AfterChange(r.op), !.t = t]]
              /\ UNCHANGED proc
  ELSE /\ thr' = [thr EXCEPT ![x] =
                   IF t = None THEN [r EXCEPT !.pc = "add"]
                   ELSE IF r.op = "ackopt" THEN Idle
                   ELSE [r EXCEPT !.pc = "chan", !.t = t]]
       /\ UNCHANGED proc

csmencaps_sendmsg(x, sk, op, a, n, c) ==
  /\ MayRun(x) /\ thr[x].pc = "idle" /\ skst[sk] = "listed"
  /\ Cardinality({p \in Targets \X AllChans : txq[p[1]][p[2]] # <<>>}) < MaxTx
  /\ StartCall(x, [Idle EXCEPT !.op = op, !.mac = a, !.new = n, !.ch = c, !.sk = sk],
               target_find(a))
  /\ UNCHANGED <<mod, races, list, mac, chan, lastRx, txq, lost, sockVars, mspVars>>

\* CSME_ACK_ENABLE and CSME_TARGET_RESET.
csmencaps_setsockopt(x, sk, op, a, n) ==
  /\ MayRun(x) /\ thr[x].pc = "idle" /\ skst[sk] = "listed"
  /\ StartCall(x, [Idle EXCEPT !.op = op, !.mac = a, !.new = n, !.sk = sk], target_find(a))
  /\ UNCHANGED <<mod, races, list, mac, chan, lastRx, txq, lost, sockVars, mspVars>>

\* The second half of target_change_mac().
target_change_mac(x) ==
  LET t == thr[x].t IN
  /\ MayRun(x) /\ thr[x].pc = "change"
  /\ mac' = [mac EXCEPT ![t] = thr[x].new]
  /\ proc' = proc \cup {thr[x].new}
  /\ msp' = Forget({mac[t], thr[x].new})
  /\ Goto(x, AfterChange(thr[x].op), t)
  /\ UNCHANGED <<mod, races, list, chan, lastRx, txq, lost, sockVars, mspSeq>>

\* MAAS_ASSIGN: the target with the address to be assigned is reset.
csme_tx_maas(x) ==
  LET t == target_find(thr[x].new) IN
  /\ MayRun(x) /\ thr[x].pc = "find"
  /\ IF t = None
     THEN thr' = [thr EXCEPT ![x].pc = "add", ![x].mac = thr[x].new]
          /\ UNCHANGED <<lastRx, txq, msp>>
     ELSE target_reset(t) /\ Goto(x, "chan", t)
  /\ UNCHANGED <<mod, races, list, mac, chan, lost, proc, sockVars, mspSeq>>

\* CSME_TARGET_RESET resets the target it found first.
csme_reset(x) ==
  /\ MayRun(x) /\ thr[x].pc = "reset"
  /\ target_reset(thr[x].t)
  /\ Done(x)
  /\ UNCHANGED <<mod, races, list, mac, chan, lost, proc, sockVars, mspSeq>>

csme_tx_add(x) ==
  /\ MayRun(x) /\ thr[x].pc = "add"
  /\ \/ \E t \in Targets :
          /\ target_add(t, thr[x].mac)
          /\ IF thr[x].op = "ackopt" THEN Done(x) ELSE Goto(x, "chan", t)
     \/ /\ Done(x)                                       \* -ENOMEM
        /\ UNCHANGED <<list, mac, chan, lastRx, txq, proc, msp>>
  /\ UNCHANGED <<mod, races, lost, sockVars, mspSeq>>

\* The end of csme_tx(): the skb is queued until it is acked, or sent at once
\* because acks are suppressed (CsmeChannel has the details).
Transmit(q, x, t, c) ==
  /\ txq' \in {q, [q EXCEPT ![t][c] = Append(@, thr[x].sk)]}
  /\ Done(x)

IsBoot(op) == op \in {"boot", "maas"}

csme_tx_chan(x) ==
  LET t == thr[x].t  c == thr[x].ch IN
  /\ MayRun(x) /\ thr[x].pc = "chan"
  /\ CASE IsBoot(thr[x].op) /\ c # Boot -> Done(x) /\ UNCHANGED txq   \* -EINVAL
       [] IsBoot(thr[x].op) \/ c = Supv \/ c \in chan[t] -> Transmit(txq, x, t, c)
       [] OTHER -> Goto(x, "chadd", t) /\ UNCHANGED txq
  /\ UNCHANGED <<mod, races, list, mac, chan, lastRx, lost, proc, sockVars, mspVars>>

\* channel_add(): whatever is in the table is overwritten.
channel_add(x) ==
  LET t == thr[x].t  c == thr[x].ch IN
  /\ MayRun(x) /\ thr[x].pc = "chadd"
  /\ \/ /\ chan' = [chan EXCEPT ![t] = @ \cup {c}]
        /\ lost' = lost + (IF c \in chan[t] THEN 1 ELSE 0)
        /\ lastRx' = [lastRx EXCEPT ![t][c] = NoSeq]
        /\ msp' = Forget({mac[t]})
        /\ Transmit([txq EXCEPT ![t][c] = <<>>], x, t, c)
     \/ /\ Done(x)                              \* out of range, or -ENOMEM
        /\ UNCHANGED <<chan, lost, lastRx, txq, msp>>
  /\ UNCHANGED <<mod, races, list, mac, proc, sockVars, mspSeq>>
-----------------------------------------------------------------------------
(* csmencaps_rcv(), softirq                                                *)

\* check_ready_received(): addresses after a READY from m, when it is taken.
ReadyTarget(m) == IF target_find(m) # None THEN target_find(m) ELSE target_find(Bcast)
check_ready_received(m) == csme_get_socket # None /\ ReadyTarget(m) # None

\* Is there a socket, with room in its receive buffer?
HasRoom == csme_get_socket # None /\ Len(rq[csme_get_socket]) < RcvBuf

\* The end of csmencaps_rcv(): queued on the socket, or dropped.
ToSocket(what) ==
  rq' = IF HasRoom THEN [rq EXCEPT ![csme_get_socket] = Append(@, what)] ELSE rq

RepeatedNever(t, c, seq) == FALSE

\* "repeated command": csme_rx_msg() acks it again and does not forward it.
Repeated(t, c, seq) == seq = lastRx[t][c]

CreatedNone(t, g) == {}

\* The channel that the answer to a CREATE_CHANNEL names starts afresh.
Created(t, g) == g.made \cap chan[t]

\* csme_tx_ack(): the ack may not be sent, or not arrive; what the MSP then
\* knows of it.
csme_tx_ack(acked) == {acked, TRUE}

\* csme_rx_msg(), then the rest of csmencaps_rcv(): the ack goes out before
\* anybody looks for a socket.
csme_rx_msg(m, t, g) ==
  \E ack \in csme_tx_ack(g.acked) :
    IF Repeated(t, g.ch, g.seq)
    THEN /\ msp' = [msp EXCEPT ![m].acked = ack]
         /\ UNCHANGED <<lastRx, txq, rq>>
    ELSE /\ lastRx' = [lastRx EXCEPT ![t] =
              [c \in AllChans |-> IF c \in Created(t, g) THEN NoSeq
                                  ELSE IF c = g.ch THEN g.seq ELSE @[c]]]
         /\ txq' = [txq EXCEPT ![t] =
              [c \in AllChans |-> IF c \in Created(t, g) THEN <<>> ELSE @[c]]]
         /\ ToSocket("msg")
         /\ msp' = [msp EXCEPT ![m].acked = ack, ![m].arrived = TRUE,
                      ![m].times = @ + (IF HasRoom THEN 1 ELSE 0)]

\* csme_rx(): a message without a target or a channel is dropped, not acked.
csme_rx(m, t, g) ==
  IF t = None \/ (g.ch \in Chans /\ g.ch \notin chan[t])
  THEN UNCHANGED <<lastRx, txq, rq, msp>>
  ELSE csme_rx_msg(m, t, g)

csmencaps_rcv(m) ==
  LET g == msp[m] IN
  /\ MayRun(None) /\ g.id > 0
  /\ IF g.kind = "ready"
     THEN IF ~check_ready_received(m) THEN UNCHANGED <<mac, proc, lastRx, txq, rq, msp>>
          ELSE LET t == ReadyTarget(m) IN
               /\ mac' = [mac EXCEPT ![t] = m]
               /\ proc' = (proc \ {mac[t]}) \cup {m}
               /\ csme_rx(m, t, g)
     ELSE csme_rx(m, target_find(m), g) /\ UNCHANGED <<mac, proc>>
  /\ UNCHANGED <<mod, races, list, chan, lost, thr, sklist, skst, mspSeq>>

\* An ack from m: csme_rx_ack() frees the message; on the boot channel the
\* ack is the answer as well and goes to the user.
csmencaps_rcv_ack(m, c) ==
  LET t == target_find(m) IN
  /\ MayRun(None) /\ t # None
  /\ txq[t][c] # <<>>
  /\ txq' = [txq EXCEPT ![t][c] = Tail(@)]
  /\ IF c = Boot THEN ToSocket("ack") ELSE UNCHANGED rq
  /\ UNCHANGED <<mod, races, list, mac, chan, lastRx, lost, proc, thr, sklist, skst, mspVars>>

\* handle_channel_timeout(): a message is given up.
GiveUp(t, c) ==
  /\ MayRun(None) /\ t \in Range(list)
  /\ txq[t][c] # <<>>
  /\ txq' = [txq EXCEPT ![t][c] = Tail(@)]
  /\ UNCHANGED <<mod, races, list, mac, chan, lastRx, lost, proc, thr, sockVars, mspVars>>
-----------------------------------------------------------------------------
(* The sockets                                                             *)

\* An skb holds its socket: it is destructed when it has been released and
\* its last message has been freed.
Holds(s) == \E t \in Targets, c \in AllChans : s \in Range(txq[t][c])
Destructed(s) == skst[s] = "put" /\ ~Holds(s)

csmencaps_create(x) ==
  /\ MayRun(x) /\ thr[x].pc = "idle"
  /\ csme_get_socket = None                     \* else "socket already created"
  /\ \E s \in Socks : skst[s] = "none"
  /\ Goto(x, "create", None)
  /\ UNCHANGED <<mod, races, tblVars, sockVars, mspVars>>

csmencaps_create_add(x) ==
  /\ MayRun(x) /\ thr[x].pc = "create"
  /\ \/ \E s \in Socks :
          /\ skst[s] = "none"
          /\ sklist' = <<s>> \o sklist
          /\ skst' = [skst EXCEPT ![s] = "listed"]
     \/ UNCHANGED <<sklist, skst>>              \* sk_alloc() failed
  /\ Done(x)
  /\ UNCHANGED <<mod, races, tblVars, rq, mspVars>>

csmencaps_recvmsg(x, s) ==
  /\ MayRun(x) /\ thr[x].pc = "idle"
  /\ skst[s] = "listed" /\ rq[s] # <<>>
  /\ rq' = [rq EXCEPT ![s] = Tail(@)]
  /\ UNCHANGED <<mod, races, tblVars, thr, sklist, skst, mspVars>>

ReleaseKeepsListed(s) == sklist

\* "Now the socket is dead. No more input will appear."
ReleaseList(s) ==
  LET at == CHOOSE i \in DOMAIN sklist : sklist[i] = s
  IN [j \in 1 .. Len(sklist) - 1 |-> sklist[IF j < at THEN j ELSE j + 1]]

csmencaps_release(x, s) ==
  /\ MayRun(x) /\ thr[x].pc = "idle"
  /\ skst[s] = "listed"
  /\ \A y \in Threads : thr[y].sk # s           \* the file is in use
  /\ sklist' = ReleaseList(s)
  /\ skst' = [skst EXCEPT ![s] = "dead"]
  /\ thr' = [thr EXCEPT ![x].pc = "purge", ![x].sk = s]
  /\ UNCHANGED <<mod, races, tblVars, rq, mspVars>>

csmencaps_release_purge(x) ==
  /\ MayRun(x) /\ thr[x].pc = "purge"
  /\ rq' = [rq EXCEPT ![thr[x].sk] = <<>>]
  /\ skst' = [skst EXCEPT ![thr[x].sk] = "put"]
  /\ Done(x)
  /\ UNCHANGED <<mod, races, tblVars, sklist, mspVars>>

csmencaps_init ==
  /\ ~mod
  /\ mod' = TRUE
  /\ UNCHANGED <<races, tblVars, thr, sockVars, mspVars>>

\* __target_remove() of every target, with the /proc file of its address.
target_remove_all ==
  /\ list' = <<>>
  /\ proc' = proc \ {mac[t] : t \in Range(list)}
  /\ mac' = [t \in Targets |-> Bcast]
  /\ chan' = [t \in Targets |-> {}]
  /\ lastRx' = [t \in Targets |-> FreshSeqs]
  /\ txq' = [t \in Targets |-> [c \in AllChans |-> <<>>]]

\* A socket that exists keeps the module loaded.
csmencaps_exit ==
  /\ mod /\ \A x \in Threads : thr[x].pc = "idle"
  /\ \A s \in Socks : skst[s] = "none" \/ Destructed(s)
  /\ mod' = FALSE
  /\ target_remove_all
  /\ msp' = Forget(Msps)
  /\ UNCHANGED <<races, lost, thr, sockVars, mspSeq>>

\* An MSP numbers its messages as csme_tx() does.
MspNumber(n) == (n + 1) % SEQ_MOD

\* The next message of an MSP.  When it announces a new channel it starts to
\* number its messages from 0.
MspSend(m, c, kind, made) ==
  LET n == msp[m].id + 1 IN
  /\ msp[m].acked /\ n <= MaxMsgs[races]
  /\ msp' = [msp EXCEPT ![m] = [id |-> n, ch |-> c, seq |-> mspSeq[m][c], kind |-> kind,
                                made |-> made, acked |-> FALSE, arrived |-> FALSE, times |-> 0]]
  /\ mspSeq' = [mspSeq EXCEPT ![m] =
       [d \in AllChans |-> IF d \in made THEN 0
                           ELSE IF d = c THEN MspNumber(@[d]) ELSE @[d]]]
  /\ UNCHANGED <<mod, races, tblVars, thr, sockVars>>

HostNext ==
  \/ \E x \in Threads, s \in Socks, a \in Macs :
       \/ \E c \in Chans \cup {Supv} : csmencaps_sendmsg(x, s, "send", a, a, c)
       \/ \E c \in Chans \cup {Boot} : csmencaps_sendmsg(x, s, "boot", a, a, c)
       \/ \E n \in Msps : csmencaps_sendmsg(x, s, "maas", a, n, Boot)
  \/ \E x \in Threads, s \in Socks, a, n \in Macs :
       \/ csmencaps_setsockopt(x, s, "ackopt", a, a)
       \/ csmencaps_setsockopt(x, s, "reset", a, n)
  \/ \E x \in Threads : \/ target_change_mac(x) \/ csme_tx_maas(x) \/ csme_reset(x)
                        \/ csme_tx_add(x) \/ csme_tx_chan(x) \/ channel_add(x)
  \/ \E x \in Threads : csmencaps_create(x) \/ csmencaps_create_add(x)
  \/ \E x \in Threads, s \in Socks : csmencaps_recvmsg(x, s) \/ csmencaps_release(x, s)
  \/ \E x \in Threads : csmencaps_release_purge(x)
  \/ \E m \in Msps : csmencaps_rcv(m)
  \/ \E m \in Msps, c \in AllChans : csmencaps_rcv_ack(m, c)
  \/ \E t \in Targets, c \in AllChans : GiveUp(t, c)
  \/ csmencaps_init \/ csmencaps_exit
  \/ \E m \in Msps, c \in Chans \cup {Boot} : MspSend(m, c, "msg", {})
  \/ \E m \in Msps : MspSend(m, Boot, "ready", {})
  \/ \E m \in Msps, d \in Chans : MspSend(m, Supv, "msg", {d})

HostSpec == HostInit /\ [][HostNext]_hostVars
-----------------------------------------------------------------------------
(* Properties                                                              *)

\* csmencaps_sock_destruct(): BUG_TRAP(sk_rmem_alloc == 0).  When a socket is
\* destructed nothing is charged to it, although packets keep arriving while
\* csmencaps_release() takes it apart.  (With the types of the state.)
SockFreedEmpty == HostTypeOK /\ \A s \in Socks : Destructed(s) => rq[s] = <<>>

\* csme_rx_msg(): a message reaches a socket once, however often the MSP
\* repeats it, unless the channel was reset or the target replaced since.
RxOnce == \A m \in Msps : msp[m].times <= 1

\* A message that the MSP sees acked was new to the host once: it has been
\* given to the socket, or dropped for want of a socket or of room, never
\* taken for a repetition of an older one.
AckedArrived == ~races => \A m \in Msps : msp[m].acked => msp[m].arrived

\* The addresses of the targets are distinct, each has its file in /proc and
\* no other has one, no channel is lost, and there is a single socket ("for
\* now a single socket is supported").
TargetsDistinct ==
  \A i, j \in DOMAIN list : mac[list[i]] = mac[list[j]] => i = j
ProcMatches == (\A x \in Threads : thr[x].pc # "change")
                 => proc = {mac[t] : t \in Range(list)}
TablesSound == ~races => TargetsDistinct /\ ProcMatches /\ lost = 0 /\ Len(sklist) <= 1
=============================================================================
