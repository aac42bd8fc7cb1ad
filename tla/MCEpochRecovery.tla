-------------------------- MODULE MCEpochRecovery --------------------------
(***************************************************************************)
(* Instances of EpochRecovery: one tab that crashes, and two tabs.         *)
(***************************************************************************)
EXTENDS EpochRecovery, TLC

CONSTANTS t1, t2

OneTab == {t1}
TwoTabs == {t1, t2}

TabSymmetry == Permutations(Tab)
=============================================================================
