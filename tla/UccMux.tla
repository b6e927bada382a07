-------------------------------- MODULE UccMux --------------------------------
(***************************************************************************)
(* The multiplexing registers of the QUICC Engine (ucc.c): several UCCs,   *)
(* and the four TDMs, share one register, and a clock is put into force by *)
(* writing its code into the field of one direction of one of them.  A     *)
(* register is the set of its bits that are one.                           *)
(***************************************************************************)
EXTENDS Integers, Sequences

CONSTANTS
  MuxUccs,     \* UCC numbers, from 0
  MuxTdms,     \* TDM numbers, from 0
  MuxClocks,   \* clock sources that are asked for
  MUX_CALLS    \* bound: calls in one behaviour

ASSUME MuxAssumption ==
  MuxUccs \subseteq 0..7 /\ MuxTdms \subseteq 0..3 /\ MUX_CALLS \in Nat

MuxDirs == {"RX", "TX"}
NoClock == "none"
Mixed == "mixed"

VARIABLES
  guemr,     \* speed type of each UCC
  cmxgcr,    \* the UCC that manages the MII bus
  cmxucr,    \* the four routing registers of the UCCs
  cmxsi1cr,  \* clock routing of the TDMs
  cmxsi1syr, \* sync routing of the TDMs
  muxed,     \* what was routed last to <<unit, number, direction>>
  muxCalls   \* calls so far

muxVars == <<guemr, cmxgcr, cmxucr, cmxsi1cr, cmxsi1syr, muxed, muxCalls>>

-----------------------------------------------------------------------------
\* The bits of the number v written at bit position s.
Bits(v, s) == {s + i : i \in {j \in 0..3 : (v \div <<1, 2, 4, 8>>[j + 1]) % 2 = 1}}
Nibble(s) == s..(s + 3)

\* get_cmxucr_reg(): which of the registers, and where in it.
CmxReg(n) == (n % 2) * 2 + (IF n > 3 THEN 1 ELSE 0) + 1
CmxShift(n) == 16 - 8 * (IF (n \div 2) % 2 = 1 THEN 2 ELSE 0)

\* The codes of the clocks in each register, in the order of their numbers.
CmxSources == <<
  <<"BRG1", "BRG2", "BRG7", "BRG8", "CLK9", "CLK10", "CLK11", "CLK12",
    "CLK15", "CLK16">>,
  <<"BRG5", "BRG6", "BRG7", "BRG8", "CLK13", "CLK14", "CLK19", "CLK20",
    "CLK15", "CLK16">>,
  <<"BRG9", "BRG10", "BRG15", "BRG16", "CLK3", "CLK4", "CLK17", "CLK18",
    "CLK7", "CLK8", "CLK16">>,
  <<"BRG13", "BRG14", "BRG15", "BRG16", "CLK5", "CLK6", "CLK21", "CLK22",
    "CLK7", "CLK8", "CLK16">> >>

\* The code of clock c in a table, 0 when it cannot be routed there.
Code(table, c) == IF \E i \in DOMAIN table : table[i] = c
                  THEN CHOOSE i \in DOMAIN table : table[i] = c ELSE 0

\* TDM clocks: BRG3, BRG4, CLK1 and CLK2 for all, two more of its own for
\* each TDM and direction; code 3 is not used.
TdmRx == <<<<"CLK3", "CLK8">>, <<"CLK5", "CLK10">>, <<"CLK7", "CLK12">>,
           <<"CLK9", "CLK14">>>>
TdmTx == <<<<"CLK4", "CLK9">>, <<"CLK6", "CLK11">>, <<"CLK8", "CLK13">>,
           <<"CLK10", "CLK15">>>>
TdmSources(n, d) ==
  LET own == IF d = "RX" THEN TdmRx[n + 1] ELSE TdmTx[n + 1] IN
  <<"BRG3", "BRG4", NoClock, "CLK1", "CLK2", own[1], own[2]>>
TdmShift(n, d) == (IF d = "RX" THEN 28 ELSE 12) - 4 * n

\* TDM syncs: the pin, BRG9 and one of BRG10 and BRG11.
SyncSources(n) == <<"BRG9", IF n < 2 THEN "BRG10" ELSE "BRG11">>
SyncShift(n, d) == (IF d = "RX" THEN 30 ELSE 14) - 2 * n

-----------------------------------------------------------------------------
MuxTypeOK ==
  /\ guemr \in [MuxUccs -> {"reset", "slow", "fast"}]
  /\ cmxgcr \in 0..7
  /\ cmxucr \in [1..4 -> SUBSET (0..31)]
  /\ cmxsi1cr \subseteq 0..31 /\ cmxsi1syr \subseteq 0..31

MuxInit ==
  /\ guemr = [n \in MuxUccs |-> "reset"] /\ cmxgcr = 0
  /\ cmxucr = [r \in 1..4 |-> {}]
  /\ cmxsi1cr = {} /\ cmxsi1syr = {}
  /\ muxed = <<>> /\ muxCalls = 0

Routed(k, c) == muxed' = [x \in DOMAIN muxed \cup {k} |-> IF x = k THEN c ELSE muxed[x]]

ucc_set_type(n, speed) ==
  /\ guemr' = [guemr EXCEPT ![n] = speed]
  /\ UNCHANGED <<cmxgcr, cmxucr, cmxsi1cr, cmxsi1syr, muxed>>

ucc_set_qe_mux_mii_mng(n) ==
  /\ cmxgcr' = n
  /\ UNCHANGED <<guemr, cmxucr, cmxsi1cr, cmxsi1syr, muxed>>

\* ucc_mux_set_grant_tsa_bkpt(): one bit of the upper byte of the UCC's half.
ucc_mux_set_grant_tsa_bkpt(n, set, bit) ==
  LET r == CmxReg(n)  b == {bit + CmxShift(n)} IN
  /\ cmxucr' = [cmxucr EXCEPT ![r] = IF set THEN @ \cup b ELSE @ \ b]
  /\ UNCHANGED <<guemr, cmxgcr, cmxsi1cr, cmxsi1syr, muxed>>

\* ucc_set_qe_mux_rxtx(): the field of the direction is cleared and set;
\* a clock that cannot be routed there is refused.
RxTxNotShifted(n, c, d) ==                    \* RX written over TX
  LET r == CmxReg(n)  s == CmxShift(n)  code == Code(CmxSources[r], c) IN
  /\ code # 0
  /\ cmxucr' = [cmxucr EXCEPT ![r] = (@ \ Nibble(s)) \cup Bits(code, s)]
  /\ Routed(<<"ucc", n, d>>, c)
  /\ UNCHANGED <<guemr, cmxgcr, cmxsi1cr, cmxsi1syr>>
ucc_set_qe_mux_rxtx(n, c, d) ==
  LET r == CmxReg(n)
      s == CmxShift(n) + (IF d = "RX" THEN 4 ELSE 0)
      code == Code(CmxSources[r], c)
  IN
  /\ code # 0                                  \* else -ENOENT
  /\ cmxucr' = [cmxucr EXCEPT ![r] = (@ \ Nibble(s)) \cup Bits(code, s)]
  /\ Routed(<<"ucc", n, d>>, c)
  /\ UNCHANGED <<guemr, cmxgcr, cmxsi1cr, cmxsi1syr>>

\* The TDM functions only set bits: a second, different source of a TDM is
\* mixed with the first.
AlsoRouted(k, c) == Routed(k, IF k \in DOMAIN muxed /\ muxed[k] # c THEN Mixed ELSE c)

ucc_set_tdm_rxtx_clk(n, c, d) ==
  LET code == Code(TdmSources(n, d), c) IN
  /\ code # 0
  /\ cmxsi1cr' = cmxsi1cr \cup Bits(code, TdmShift(n, d))
  /\ AlsoRouted(<<"tdm", n, d>>, c)
  /\ UNCHANGED <<guemr, cmxgcr, cmxucr, cmxsi1syr>>

\* "pin" is RSYNC or TSYNC, source 0.
ucc_set_tdm_rxtx_sync(n, c, d) ==
  LET code == Code(SyncSources(n), c) IN
  /\ c = "pin" \/ code # 0
  /\ cmxsi1syr' = cmxsi1syr \cup Bits(code, SyncShift(n, d))
  /\ AlsoRouted(<<"sync", n, d>>, c)
  /\ UNCHANGED <<guemr, cmxgcr, cmxucr, cmxsi1cr>>

MuxCall ==
  \/ \E n \in MuxUccs :
       \/ \E s \in {"slow", "fast"} : ucc_set_type(n, s)
       \/ ucc_set_qe_mux_mii_mng(n)
       \/ \E set \in BOOLEAN, b \in {8, 14, 15} :
            ucc_mux_set_grant_tsa_bkpt(n, set, b)
       \/ \E c \in MuxClocks, d \in MuxDirs : ucc_set_qe_mux_rxtx(n, c, d)
  \/ \E n \in MuxTdms, d \in MuxDirs :
       \/ \E c \in MuxClocks : ucc_set_tdm_rxtx_clk(n, c, d)
       \/ \E c \in MuxClocks \cup {"pin"} : ucc_set_tdm_rxtx_sync(n, c, d)

MuxNext == muxCalls < MUX_CALLS /\ muxCalls' = muxCalls + 1 /\ MuxCall

MuxSpec == MuxInit /\ [][MuxNext]_muxVars

-----------------------------------------------------------------------------
\* What a field of a register holds, as a code.
Field(reg, s, w) == {i \in 0..(w - 1) : s + i \in reg}

\* Every UCC and TDM direction runs from the clock or sync that was routed to
\* it last: no routing, grant, breakpoint or TSA setting of a neighbour in
\* the same register disturbs it, and no two clocks share a code.  (A TDM
\* that is given two sources runs from neither.)
MuxKept ==
  /\ MuxTypeOK
  /\ \A k \in {x \in DOMAIN muxed : muxed[x] # Mixed} :
       LET n == k[2]  d == k[3] IN
       CASE k[1] = "ucc" ->
              LET s == CmxShift(n) + (IF d = "RX" THEN 4 ELSE 0)  r == CmxReg(n) IN
              \A c \in MuxClocks : Code(CmxSources[r], c) # 0 =>
                ((Field(cmxucr[r], s, 4) = Bits(Code(CmxSources[r], c), 0)) <=> c = muxed[k])
         [] k[1] = "tdm" ->
              Field(cmxsi1cr, TdmShift(n, d), 4) = Bits(Code(TdmSources(n, d), muxed[k]), 0)
         [] k[1] = "sync" ->
              Field(cmxsi1syr, SyncShift(n, d), 2) = Bits(Code(SyncSources(n), muxed[k]), 0)

=============================================================================
