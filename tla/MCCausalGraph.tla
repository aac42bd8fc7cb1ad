--------------------------- MODULE MCCausalGraph ---------------------------
(***************************************************************************)
(* Three ids, any parent sets (cycles, self-references and missing parents *)
(* included). MaxTold bounds the distinct deliveries and rejections made   *)
(* to the replicas together, MaxShared those made to more than one: four   *)
(* reach a conflict on a member of a three-cycle, three reach every        *)
(* pairwise merge of two graphs.                                           *)
(***************************************************************************)
EXTENDS CausalGraph, TLC

CONSTANTS MaxTold, MaxShared

ASSUME MaxToldAssumption == MaxTold \in Nat /\ MaxShared \in Nat

Told(heard) == Cardinality(UNION {heard[r] : r \in Replica})

Addressed == {r \in Replica : delivered[r] # {} \/ rejections[r] # {}}

BoundedNext ==
  /\ GraphNext
  /\ Told(delivered') + Told(rejections')
       <= IF Cardinality(Addressed') <= 1 THEN MaxTold ELSE MaxShared

BoundedSpec == GraphInit /\ [][BoundedNext]_graphVars

ReplicaSymmetry == Permutations(Replica)
=============================================================================
