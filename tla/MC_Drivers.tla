----------------------------- MODULE MC_Drivers ------------------------------
(***************************************************************************)
(* The small drivers, one of them per behaviour.                           *)
(***************************************************************************)
EXTENDS LocalbusDev, Longlight, MdioDev, AerInject, TLC

CONSTANTS d1, d2, rp, b0, b1

VARIABLE driver     \* the driver this behaviour is about

MCMenus == {{"bus", "field"}, {"bus", "irq"}, {"field", "irq"}, {"irq", "longlight"},
            {"reg", "irq"}, {"reg", "longlight"}}
MCFieldAsks == (1..2) \X LbFields \X LbValues

\* The processes are alike, and they are the same for the three drivers.
MCAlike == Permutations(LbProcs)

\* Register 1 of PHY 2 is register 1 of PHY 0 when there are two addresses.
MCAsks ==
  LET ask(o, x, y, v) == [op |-> o, phy |-> x, reg |-> y, val |-> v]
  IN {ask("write", 0, 0, 2), ask("write", 0, 1, 2),
      ask("read", 0, 0, 1), ask("read", 1, 0, 1), ask("read", 2, 1, 1)}

MCBusOf == [n \in {d1, d2, rp} |-> IF n = rp THEN b0 ELSE b1]
MCFirstMask == [cor |-> {0, 1}, uncor |-> {1}]
MCInjs ==
  LET inj(d, c, u, f) == [dev |-> d, cor |-> c, uncor |-> u, fatal |-> f]
  IN {inj(d1, {0}, {}, FALSE), inj(d1, {}, {0}, TRUE), inj(d1, {1}, {1}, FALSE),
      inj(d2, {}, {0}, FALSE)}

\* The drivers that are not this behaviour's stay in one initial state.
MCInit ==
  /\ driver \in {"localbus", "longlight", "mdio", "aer"}
  /\ LbInit /\ LlInit /\ MdInit /\ AeInit
  /\ driver # "localbus" => lbMenu = {"bus", "field"}
  /\ driver # "longlight" => llPin = FALSE
  /\ driver # "aer" => aeOverride = FALSE

LbStep == driver = "localbus" /\ LbNext /\ UNCHANGED <<driver, llVars, mdVars, aeVars>>
LlStep == driver = "longlight" /\ LlNext /\ UNCHANGED <<driver, lbVars, mdVars, aeVars>>
MdStep == driver = "mdio" /\ MdNext /\ UNCHANGED <<driver, lbVars, llVars, aeVars>>
AeStep == driver = "aer" /\ AeNext /\ UNCHANGED <<driver, lbVars, llVars, mdVars>>

MCSpec == MCInit /\ [][LbStep \/ LlStep \/ MdStep \/ AeStep]_<<driver, lbVars, llVars, mdVars, aeVars>>

=============================================================================
