-------------------------- MODULE MCSentinelUnlock --------------------------
(***************************************************************************)
(* An instance of SentinelUnlock: two vaults of a and b, which only both   *)
(* together open, and a device o that can read their event logs.           *)
(***************************************************************************)
EXTENDS SentinelUnlock, TLC

CONSTANTS a, b, o, v, w, x1, x2

Founder == [s \in Store |-> a]
Members == [s \in Store |-> {a, b}]
Everyone == [s \in Store |-> Device]
All == [s \in Store |-> Cardinality(Members[s])]

Symmetry == Permutations(Session) \cup Permutations(Store)
=============================================================================
