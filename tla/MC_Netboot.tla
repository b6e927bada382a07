----------------------------- MODULE MC_Netboot -----------------------------
(***************************************************************************)
(* The boot program and its loader, one of them per behaviour.             *)
(***************************************************************************)
EXTENDS Netboot, AifLoader

VARIABLE scene

Img(base, data, ro, rw, zi, regions) ==
  [image_base |-> base, data_base |-> data, ro |-> ro, rw |-> rw, zi |-> zi,
   roFits |-> TRUE, rwFits |-> TRUE, regions |-> regions,
   first |-> IF regions = <<>> THEN 0 ELSE 1,
   next |-> [i \in DOMAIN regions |-> IF i = Len(regions) THEN 0 ELSE i + 1]]
Region(dst, size) == [dst |-> dst, size |-> size, src |-> TRUE, fits |-> TRUE]

\* Sections of less than a write, of exactly one and of several; data that
\* follows the code or has an address of its own; a region too many; a chain
\* that leaves a region out and one that comes back.
MCImages ==
  {Img(1, 0, 5, 3, 1, <<>>), Img(0, 7, 4, 0, 2, <<Region(10, 5)>>),
   Img(2, 0, 1, 2, 4, <<Region(0, 1), Region(12, 0), Region(12, 2)>>),
   Img(8, 0, 6, 3, 0, <<>>),
   Img(0, 0, 2, 0, 0, <<[Region(4, 3) EXCEPT !.fits = FALSE]>>),
   [Img(0, 0, 2, 3, 0, <<>>) EXCEPT !.rwFits = FALSE],
   [Img(0, 0, 2, 0, 0, <<Region(4, 3), Region(8, 1), Region(10, 2)>>) EXCEPT !.next[1] = 3],
   [Img(0, 0, 1, 0, 0, <<Region(4, 3), Region(8, 1)>>) EXCEPT !.next[2] = 1]}

MCInit ==
  /\ scene \in {"boot", "load"} /\ NbInit /\ LdInit
  /\ scene = "boot" => img = CHOOSE g \in Images : TRUE
BootStep == scene = "boot" /\ NbNext /\ UNCHANGED <<scene, ldVars>>
LoadStep == scene = "load" /\ LdNext /\ UNCHANGED <<scene, nbVars>>
MCVars == <<scene, nbVars, ldVars>>
MCSpec == MCInit /\ [][BootStep \/ LoadStep]_MCVars /\ WF_MCVars(LoadStep)

\* LoadEnds, in the behaviours that are about the loader.
MCLoadEnds == scene = "load" => LoadEnds
=============================================================================
