----------------------------- MODULE MC_CsmeHost -----------------------------
EXTENDS CsmeHost, TLC

MCMaxMsgs == [r \in BOOLEAN |-> IF r THEN 2 ELSE 3]
MCSymmetry == Permutations(Targets) \cup Permutations(Socks)

=============================================================================
