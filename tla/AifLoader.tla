----------------------------- MODULE AifLoader -----------------------------
(***************************************************************************)
(* loadmsp.c: the areas and regions of an AIF image are checked and copied *)
(* to the memory of the MSP, CHUNK bytes per write_to_voip(), which sends  *)
(* one message and waits, without a timeout, for any message to come back. *)
(*                                                                         *)
(* The image is an input; its bytes are named by the section they belong   *)
(* to and their offset.  The regions are chained by their offsets in the   *)
(* file, here by their numbers, and nothing keeps a chain from coming back *)
(* to a region it has been at.  An offset or a region that does not lie in *)
(* the file ("does not fit image size") leads to fits = FALSE.  The MSP    *)
(* and the driver in between are external: messages stay in order, and     *)
(* either may lose one.                                                    *)
(***************************************************************************)
EXTENDS Integers, Sequences

CONSTANTS
  Images,     \* images that may be loaded
  CHUNK,      \* bytes per write_to_voip() (1000)
  Memory,     \* bytes of the MSP's memory
  LIMIT,      \* MSP_BOTTOM_MEMORY_RESERVED_SIZE
  WORD,       \* u32 values are taken modulo this (2^32)
  MaxFails,   \* bound: writes that fail to be sent
  MaxUnasked  \* bound: messages that arrive unasked

LdRegions == [dst : Nat, size : Nat, src : BOOLEAN, fits : BOOLEAN]
LdImages == [image_base : Nat, data_base : Nat, ro : Nat, rw : Nat, zi : Nat,
             roFits : BOOLEAN, rwFits : BOOLEAN, regions : Seq(LdRegions),
             first : Nat, next : Seq(Nat)]

\* Region 0 is no region.
ASSUME LdAssumption ==
  /\ Images \subseteq LdImages
  /\ \A g \in Images :
       /\ g.first \in 0 .. Len(g.regions) /\ Len(g.next) = Len(g.regions)
       /\ \A i \in 1 .. Len(g.regions) : g.next[i] \in 0 .. Len(g.regions)
  /\ CHUNK \in Nat \ {0} /\ LIMIT \in Nat /\ MaxFails \in Nat /\ MaxUnasked \in Nat
  /\ Memory \in Nat /\ WORD \in Nat \ {0}

VARIABLES
  img,     \* the image
  sec,     \* section being loaded: 1 read-only, 2 read-write, 3 zero-init,
           \* above 3 the regions, 0 none
  off,     \* i of check_and_load()
  ld,      \* check, copy, wait (for an answer), ok, error
  mem,     \* what was last written to each byte, or NoByte
  fails,   \* writes that could not be sent
  cut,     \* sections that a failed write ended
  past,    \* sections that have been gone through
  ldAir,   \* writes on their way to the MSP
  ldBox,   \* messages in the socket
  ldOdd    \* what has happened: "lost", "unasked"

ldVars == <<img, sec, off, ld, mem, fails, cut, past, ldAir, ldBox, ldOdd>>

\* dst, size and whether there is a source: what each part of
\* load_aif_image() passes to check_and_load().
DataBase(g) == IF g.data_base = 0 THEN g.image_base + g.ro ELSE g.data_base
Section(g, s) ==
  CASE s = 1 -> [dst |-> g.image_base, size |-> g.ro, src |-> TRUE, fits |-> g.roFits]
    [] s = 2 -> [dst |-> DataBase(g), size |-> g.rw, src |-> TRUE, fits |-> g.rwFits]
    [] s = 3 -> [dst |-> DataBase(g) + g.rw, size |-> g.zi, src |-> FALSE, fits |-> TRUE]
    [] OTHER -> g.regions[s - 3]
Sections(g) == 1 .. 3 + Len(g.regions)
ZeroByte == <<3, 0>>
NoByte == <<0, 0>>
Byte(g, s, i) == IF Section(g, s).src THEN <<s, i>> ELSE ZeroByte

\* The section after s: first_region after the areas, then next_region.
After(g, s) ==
  CASE s \in 1 .. 2 -> s + 1
    [] s = 3 -> IF g.first = 0 THEN 0 ELSE 3 + g.first
    [] OTHER -> IF g.next[s - 3] = 0 THEN 0 ELSE 3 + g.next[s - 3]

\* A write: n bytes from offset i of section s.
LdWrites == [s : Nat, i : Nat, n : Nat]

LdTypeOK ==
  /\ img \in Images
  /\ sec \in {0} \cup Sections(img)
  /\ off \in -1 .. Memory
  /\ ld \in {"check", "copy", "wait", "ok", "error"}
  /\ mem \in [0 .. Memory - 1 -> Nat \X Nat]
  /\ fails \in Nat /\ cut \subseteq Nat /\ past \subseteq Sections(img)
  /\ ldAir \in Seq(LdWrites) /\ ldBox \in Nat /\ ldOdd \subseteq {"lost", "unasked"}

LdInit ==
  /\ img \in Images /\ sec = 1 /\ off = 0 /\ ld = "check"
  /\ mem = [a \in 0 .. Memory - 1 |-> NoByte]
  /\ fails = 0 /\ cut = {} /\ past = {}
  /\ ldAir = <<>> /\ ldBox = 0 /\ ldOdd = {}

\* On to the next section.
MoveOn == sec' = After(img, sec) /\ past' = past \cup {sec}

check_region(addr, size) == (addr + size) % WORD < LIMIT

\* An empty section is skipped, a region even before it is looked at.
LoadSection ==
  LET s == Section(img, sec) IN
  /\ ld = "check"
  /\ IF sec = 0 THEN ld' = "ok" /\ UNCHANGED <<sec, off, past>>
     ELSE IF sec > 3 /\ ~s.fits THEN ld' = "error" /\ UNCHANGED <<sec, off, past>>
     ELSE IF s.size = 0 THEN MoveOn /\ UNCHANGED <<ld, off>>
     ELSE /\ ld' = IF s.fits /\ check_region(s.dst, s.size) THEN "copy" ELSE "error"
          /\ off' = 0 /\ UNCHANGED <<sec, past>>
  /\ UNCHANGED <<img, mem, fails, cut, ldAir, ldBox, ldOdd>>

\* The loop "for (i = 0; i < size; )" compares without sign: -1 ends it.
More(i, s) == i >= 0 /\ i < s.size

ChunkLen(s) == IF off + CHUNK <= s.size THEN CHUNK ELSE s.size - off

AdvanceAnyway(len, ret) == off + len
AdvanceNever(len, ret) == off

\* "i += ret"
Advance(len, ret) == off + ret

\* Where a write goes: the loop that clears starts over at dst each time.
WriteAt(s, i) == IF s.src THEN s.dst + i ELSE s.dst

\* The end of a turn of the loop in check_and_load(), where write_to_voip()
\* has returned ret.
Turn(ret) ==
  LET s == Section(img, sec) IN
  /\ off' = Advance(ChunkLen(s), ret)
  /\ cut' = IF off' = -1 THEN cut \cup {sec} ELSE cut
  /\ IF More(off', s) THEN ld' = "copy" /\ UNCHANGED <<sec, past>>
     ELSE ld' = "check" /\ MoveOn

\* A turn sends a write; when that fails write_to_voip() returns -1 at once.
check_and_load ==
  /\ ld = "copy"
  /\ \/ /\ fails < MaxFails /\ fails' = fails + 1
        /\ Turn(-1)
        /\ UNCHANGED ldAir
     \/ /\ ldAir' = Append(ldAir, [s |-> sec, i |-> off, n |-> ChunkLen(Section(img, sec))])
        /\ ld' = "wait"
        /\ UNCHANGED <<sec, off, fails, cut, past>>
  /\ UNCHANGED <<img, mem, ldBox, ldOdd>>

\* wait_for_response(0): any message ends the wait, and write_to_voip()
\* returns what it has sent.
write_to_voip ==
  /\ ld = "wait" /\ ldBox > 0
  /\ ldBox' = ldBox - 1
  /\ Turn(ChunkLen(Section(img, sec)))
  /\ UNCHANGED <<img, mem, fails, ldAir, ldOdd>>

\* The MSP writes and answers, unless the write or the answer is lost.
MspWrites(done, heard) ==
  LET w == Head(ldAir)  at == WriteAt(Section(img, w.s), w.i) IN
  /\ ldAir # <<>> /\ (heard => done)
  /\ ldAir' = Tail(ldAir)
  /\ mem' = IF ~done THEN mem
            ELSE [a \in DOMAIN mem |-> IF a \in at .. at + w.n - 1
                                       THEN Byte(img, w.s, w.i + a - at) ELSE mem[a]]
  /\ ldBox' = IF heard THEN ldBox + 1 ELSE ldBox
  /\ ldOdd' = IF heard THEN ldOdd ELSE ldOdd \cup {"lost"}
  /\ UNCHANGED <<img, sec, off, ld, fails, cut, past>>

\* A message arrives unasked, or is left over from the boot dialogue.
Unasked ==
  /\ "unasked" \notin ldOdd /\ MaxUnasked > 0
  /\ ldBox' \in ldBox + 1 .. ldBox + MaxUnasked
  /\ ldOdd' = ldOdd \cup {"unasked"}
  /\ UNCHANGED <<img, sec, off, ld, mem, fails, cut, past, ldAir>>

LdNext ==
  \/ LoadSection \/ check_and_load \/ write_to_voip \/ Unasked
  \/ \E done, heard \in BOOLEAN : MspWrites(done, heard)
LdSpec == LdInit /\ [][LdNext]_ldVars /\ WF_ldVars(LdNext)
-----------------------------------------------------------------------------
Addresses(g, s) == Section(g, s).dst .. Section(g, s).dst + Section(g, s).size - 1

\* Nothing is written outside the sections, and each byte only by its own.
StaysInside ==
  \A a \in DOMAIN mem : mem[a] # NoByte =>
    \E s \in Sections(img) : /\ a \in Addresses(img, s)
                             /\ mem[a] = Byte(img, s, a - Section(img, s).dst)

\* check_and_load() returns 0 on success: an image that is reported loaded
\* has been gone through to the end of its chain and is in memory byte for
\* byte, although writes could not be sent and were made up for and others
\* were lost (a lost write is never answered, so that the loader hangs
\* instead).  Not covered: a section whose very first write could not be
\* sent; of the zero-init area what more than one write covers; and a
\* message that came unasked, which is taken for the answer to a write that
\* is lost or still under way.  Nothing else is ever written, whatever
\* comes.  (With the types of the state.)
LoadedRight ==
  /\ LdTypeOK /\ StaysInside
  /\ ld = "ok" /\ "unasked" \notin ldOdd =>
       /\ 1 \in past /\ \A s \in past : After(img, s) \in past \cup {0}
       /\ \A s \in past \ cut : \A a \in Addresses(img, s) :
            (Section(img, s).src \/ a < Section(img, s).dst + CHUNK)
              => mem[a] = Byte(img, s, a - Section(img, s).dst)

\* The chain of regions only goes forward.
Forward(g) == \A i \in 1 .. Len(g.regions) : g.next[i] = 0 \/ g.next[i] > i
\* The loader waits for an answer that does not come any more.
Stuck == ld = "wait" /\ ldAir = <<>> /\ ldBox = 0 /\ "lost" \in ldOdd

\* Loading ends, however sends fail, unless a write or its answer is lost:
\* then it waits for ever (netboot.c:435, :295).  A chain of regions that
\* comes back to itself (loadmsp.c:188-205) is loaded without end.
LoadEnds == Forward(img) => <>(ld \in {"ok", "error"} \/ Stuck)
=============================================================================
