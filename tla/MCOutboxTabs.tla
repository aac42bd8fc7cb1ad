---------------------------- MODULE MCOutboxTabs ----------------------------
(***************************************************************************)
(* An instance of OutboxTabs: two tabs, an edit and a rotation.            *)
(***************************************************************************)
EXTENDS OutboxTabs, TLC

CONSTANTS t1, t2, e, c, r

TwoTabs == {t1, t2}
OneRotation == {<<c, r>>}
OneEdit == {e}

TabSymmetry == Permutations(TwoTabs)
=============================================================================
