------------------------- MODULE RcttyScenarioProofs ------------------------
(***************************************************************************)
(* The scenarios of MC_RcttyRead: what RcttyReadProofs proves for all      *)
(* threads, modes and calls, used for the two of them.                     *)
(***************************************************************************)
EXTENDS RcttyReadProofs, MC_RcttyRead

OneProofs == INSTANCE RcttyReadProofs WITH
               Readers <- OneReader, Modes <- MCModes, NonBlock <- BOOLEAN,
               Ioctls <- FALSE, Polls <- TRUE, Faults <- TRUE, Nr <- {0, 3}, MaxByte <- 3, MaxRead <- 2

-----------------------------------------------------------------------------
\* The two instances of the scenario "one" are one line discipline.
LEMMA SameOne ==
  /\ One!Init <=> OneProofs!Init
  /\ One!Next <=> OneProofs!Next
  /\ One!TypeOK <=> OneProofs!TypeOK
  /\ OneProofs!WorkScheduled <=> WorkScheduled
  /\ UNCHANGED vars => UNCHANGED OneProofs!vars
<1>1. One!Init <=> OneProofs!Init
  BY Zenon DEF One!Init, OneProofs!Init, One!Idle, OneProofs!Idle
<1>2. One!Next <=> OneProofs!Next
  BY Zenon
     DEF One!Next, OneProofs!Next, One!LineBringsByte,
         OneProofs!LineBringsByte, One!xr_rx_chars_duart,
         OneProofs!xr_rx_chars_duart, One!Worker, OneProofs!Worker,
         One!rctty_ioctl, OneProofs!rctty_ioctl, One!rctty_poll,
         OneProofs!rctty_poll, One!read_chan, OneProofs!read_chan,
         One!ReadStep, OneProofs!ReadStep, One!Signal, OneProofs!Signal,
         One!flush_to_ldisc, OneProofs!flush_to_ldisc, One!FlipBuffers,
         OneProofs!FlipBuffers, One!n_tty_receive_buf,
         OneProofs!n_tty_receive_buf, One!WakeReaders, OneProofs!WakeReaders,
         One!AtomicRead, OneProofs!AtomicRead, One!Arm, OneProofs!Arm,
         One!TestInput, OneProofs!TestInput, One!Resume, OneProofs!Resume,
         One!copy_from_read_buf, OneProofs!copy_from_read_buf, One!CopyCount,
         OneProofs!CopyCount, One!CopyOut, OneProofs!CopyOut,
         One!CheckMinimum, OneProofs!CheckMinimum, One!LeaveLoop,
         OneProofs!LeaveLoop, One!Return, OneProofs!Return,
         One!LeaveQueue, OneProofs!LeaveQueue, One!EntryStore,
         OneProofs!EntryStore, One!StoreMinimum, OneProofs!StoreMinimum,
         One!wakeVars, OneProofs!wakeVars, One!Min2,
         OneProofs!Min2, One!Idle, OneProofs!Idle, One!CopyIn,
         OneProofs!CopyIn, One!MemRead, OneProofs!MemRead, One!Room,
         OneProofs!Room, One!Wake, OneProofs!Wake, One!Lowers,
         OneProofs!Lowers, One!Contiguous, OneProofs!Contiguous,
         One!Enough, OneProofs!Enough, One!uartVars, OneProofs!uartVars,
         One!flipVars, OneProofs!flipVars, One!workVars, OneProofs!workVars,
         One!ringVars, OneProofs!ringVars, One!modeVars, OneProofs!modeVars,
         One!syncVars, OneProofs!syncVars
<1>3. One!TypeOK <=> OneProofs!TypeOK
  BY Zenon DEF One!TypeOK, OneProofs!TypeOK, One!Bytes, OneProofs!Bytes, One!ReaderType,
         OneProofs!ReaderType, One!ReaderPC, OneProofs!ReaderPC
<1>4. OneProofs!WorkScheduled <=> WorkScheduled
  BY Zenon DEF OneProofs!WorkScheduled, WorkScheduled
<1>5. UNCHANGED vars => UNCHANGED OneProofs!vars
  BY Zenon DEF vars, wakeVars, OneProofs!wakeVars, uartVars, flipVars, workVars, ringVars, modeVars, syncVars,
         OneProofs!vars, OneProofs!uartVars, OneProofs!flipVars, OneProofs!workVars,
         OneProofs!ringVars, OneProofs!modeVars, OneProofs!syncVars
<1>6. QED
  BY <1>1, <1>2, <1>3, <1>4, <1>5

\* The constants of the scenario are what RcttyRead assumes of its own.
LEMMA OneConstants ==
  /\ {0, 3} \subseteq Nat /\ MCModes \subseteq Nat \X BOOLEAN /\ MCModes # {}
  /\ BOOLEAN \subseteq BOOLEAN /\ {FALSE, TRUE, TRUE} \subseteq BOOLEAN
  /\ 2 \in Nat /\ 3 \in Nat
<1>1. {0, 3} \subseteq Nat /\ 2 \in Nat /\ 3 \in Nat
  OBVIOUS
<1>2. MCModes # {}
  BY Zenon DEF MCModes
<1>3. BOOLEAN \subseteq BOOLEAN /\ {FALSE, TRUE, TRUE} \subseteq BOOLEAN
  BY Zenon
<1>4. 0 \in Nat /\ TRUE \in BOOLEAN /\ FALSE \in BOOLEAN
  OBVIOUS
<1>5. MCModes \subseteq Nat \X BOOLEAN
  <2>1. \A n \in Nat, t \in BOOLEAN : <<n, t>> \in Nat \X BOOLEAN
    BY Zenon
  <2>2. {<<2, FALSE>>, <<2, TRUE>>, <<0, FALSE>>, <<0, TRUE>>} \subseteq Nat \X BOOLEAN
    BY <1>1, <1>4, <2>1, Zenon
  <2>3. QED
    BY <2>2, Zenon DEF MCModes
<1>6. QED
  BY <1>1, <1>2, <1>3, <1>5

\* The facts of RcttyReadProofs that the scenario "one" needs.
LEMMA OneFacts ==
  /\ OneProofs!Init => OneProofs!RrInv
  /\ OneProofs!RrInv /\ [OneProofs!Next]_(OneProofs!vars) => OneProofs!RrInv'
  /\ late \in BOOLEAN /\ [OneProofs!Next]_(OneProofs!vars) => late' \in BOOLEAN
  /\ OneProofs!RrInv /\ late \in BOOLEAN => OneProofs!TypeOK
  /\ OneProofs!RrInv => OneProofs!WorkScheduled
<1> USE OneConstants, SizeAssumption, BoundAssumption
<1>1. OneProofs!Init => OneProofs!RrInv
  BY OneProofs!RrInitial, Zenon
<1>2. OneProofs!RrInv /\ [OneProofs!Next]_(OneProofs!vars) => OneProofs!RrInv'
  BY OneProofs!RrNext, Zenon
<1>3. /\ OneProofs!RrInv /\ late \in BOOLEAN => OneProofs!TypeOK
      /\ OneProofs!RrInv => OneProofs!WorkScheduled
  BY OneProofs!RrMeaning, Zenon
<1>4. late \in BOOLEAN /\ [OneProofs!Next]_(OneProofs!vars) => late' \in BOOLEAN
  BY OneProofs!LateNext, Zenon
<1>5. QED
  BY <1>1, <1>2, <1>3, <1>4
-----------------------------------------------------------------------------
\* Each scenario has its invariant.
MCReadInv ==
  /\ scenario \in {"many", "one"} /\ late \in BOOLEAN
  /\ scenario = "many" => RrInv /\ RrWakeInv
  /\ scenario = "one"  => OneProofs!RrInv

\* In both scenarios nothing on its way to a reader is forgotten: characters
\* in the flip buffer have the work that moves them queued (flush_to_ldisc),
\* the indices and counts of read_buf stay in bounds, with one thread whatever
\* mode, signal, fault and poll() meet it, and with several that only use VMIN
\* no one sleeps in read_chan() on input that satisfies it, until a thread
\* stores minimum_to_wake on a test that is no longer true.
THEOREM ScenariosForgetNothing == ASSUME Untimed PROVE MCSpec => []MCNothingForgotten
<1>1. MCInit => MCReadInv
  <2> SUFFICES ASSUME MCInit PROVE MCReadInv
    OBVIOUS
  <2>1. CASE scenario = "many" /\ Init
    <3>1. RrInv /\ RrWakeInv /\ late \in BOOLEAN
      BY <2>1, RrInitial, WakeInitial DEF Init
    <3>2. QED
      BY <2>1, <3>1 DEF MCReadInv
  <2>2. CASE scenario = "one" /\ One!Init
    <3>1. OneProofs!RrInv
      BY <2>2, SameOne, OneFacts, Zenon
    <3>2. late \in BOOLEAN
      BY <2>2 DEF One!Init
    <3>3. QED
      BY <2>2, <3>1, <3>2 DEF MCReadInv
  <2>3. QED
    BY <2>1, <2>2, Zenon DEF MCInit
<1>2. MCReadInv /\ [MCNext]_MCvars => MCReadInv'
  <2> SUFFICES ASSUME MCReadInv, [MCNext]_MCvars PROVE MCReadInv'
    OBVIOUS
  <2>1. /\ scenario' = scenario
        /\ scenario = "many" => [Next]_vars
        /\ scenario = "one"  => [OneProofs!Next]_(OneProofs!vars)
    <3>1. CASE MCNext
      <4>1. /\ scenario' = scenario
            /\ scenario = "many" => Next
            /\ scenario = "one"  => One!Next
        BY <3>1 DEF MCNext
      <4>2. QED
        BY <4>1, SameOne, Zenon
    <3>2. CASE UNCHANGED MCvars
      <4>1. UNCHANGED vars /\ scenario' = scenario
        BY <3>2 DEF MCvars
      <4>2. QED
        BY <4>1, SameOne, Zenon
    <3>3. QED
      BY <3>1, <3>2
  <2>2. CASE scenario = "many"
    <3>1. RrInv' /\ RrWakeInv' /\ late' \in BOOLEAN
      BY <2>1, <2>2, RrNext, WakeNext, LateNext DEF MCReadInv
    <3>2. QED
      BY <2>1, <2>2, <3>1 DEF MCReadInv
  <2>3. CASE scenario = "one"
    <3>1. OneProofs!RrInv' /\ late' \in BOOLEAN
      BY <2>1, <2>3, OneFacts, Zenon DEF MCReadInv
    <3>2. QED
      BY <2>1, <2>3, <3>1 DEF MCReadInv
  <2>4. QED
    BY <2>2, <2>3 DEF MCReadInv
<1>3. MCReadInv => MCNothingForgotten
  <2> SUFFICES ASSUME MCReadInv PROVE MCNothingForgotten
    OBVIOUS
  <2>1. CASE scenario = "many"
    <3>1. TypeOK /\ WorkScheduled /\ NoLostWakeup
      BY <2>1, RrMeaning, WakeMeaning, Zenon DEF MCReadInv
    <3>2. QED
      BY <2>1, <3>1 DEF MCNothingForgotten, MCTypeOK, ReadersWoken
  <2>2. CASE scenario = "one"
    <3>1. One!TypeOK /\ WorkScheduled
      BY <2>2, OneFacts, SameOne, Zenon DEF MCReadInv
    <3>2. QED
      BY <2>2, <3>1 DEF MCNothingForgotten, MCTypeOK, ReadersWoken
  <2>3. QED
    BY <2>1, <2>2 DEF MCReadInv
<1>4. MCSpec => MCInit /\ [][MCNext]_MCvars
  BY PTL DEF MCSpec
<1>5. QED
  BY <1>1, <1>2, <1>3, <1>4, PTL
=============================================================================
