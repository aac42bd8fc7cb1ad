-------------------------- MODULE MCSentinelGenesis --------------------------
(***************************************************************************)
(* An instance of SentinelGenesis: one tab of the initiator, two peers of  *)
(* which a vault needs one, two ceremonies.                                *)
(***************************************************************************)
EXTENDS SentinelGenesis

CONSTANTS t1, a, p1, p2, g1, g2, s1, s2

\* New ids are interchangeable, so they may as well be drawn in this order.
InOrder == (g2 \in requests => g1 \in requests) /\ (s2 \in used => s1 \in used)
=============================================================================
