------------------------ MODULE MCVaultReplication ------------------------
(***************************************************************************)
(* Id bounds the events that are ever signed. Ids are numbered in the      *)
(* order of signing: no rule of this level depends on the order of ids.    *)
(* Operations are the ones a device may use to append (Enroll is a case of *)
(* ApproveExtension), MaxStray bounds the events left by strangers.        *)
(* Histories that grow beyond MaxVaried events are made of edits,          *)
(* approvals and rotations alone.                                          *)
(***************************************************************************)
EXTENDS VaultReplication, TLC

CONSTANTS Operations, MaxStray, MaxVaried

ASSUME OperationsAssumption ==
  Operations \subseteq {"Edit", "MergeHeads", "RequestAccess", "Enroll",
                        "ApproveJoin", "ApproveExtension"}
ASSUME BoundsAssumption == MaxStray \in Nat /\ MaxVaried \in Nat

Fresh == Cardinality(DOMAIN events) + 1

Strays ==
  {x \in DOMAIN events :
     ~ActorAuthorized(events, Before(events, DOMAIN events, x), events[x])}

Short == Fresh <= MaxVaried

Regular ==
  /\ \A x \in DOMAIN events : events[x].kind \notin {"JoinRequested", "Merge"}
  /\ MaxStray > 0 => Strays = {}

BoundedNext ==
  \/ \E d \in Device :
       \/ \E e \in store[d] \ provider : Publish(d, e)
       \/ \E seen \in SUBSET (provider \ store[d]) : Pull(d, seen)
       \/ /\ Fresh \in Id
          /\ Short \/ Regular
          /\ \/ "Edit" \in Operations /\ Edit(d, Fresh)
             \/ \E member \in Device :
                  "ApproveExtension" \in Operations /\ ApproveExtension(d, Fresh, member)
       \/ /\ Fresh + 1 \in Id
          /\ Fresh + 1 <= MaxVaried \/ Regular
          /\ \E victim \in Device : RevokeMember(d, Fresh, Fresh + 1, victim)
       \/ /\ Short
          /\ \/ "MergeHeads" \in Operations /\ MergeHeads(d, Fresh)
             \/ "RequestAccess" \in Operations /\ RequestAccess(d, Fresh)
             \/ "Enroll" \in Operations /\ Enroll(d, Fresh)
             \/ \E member \in Device :
                  "ApproveJoin" \in Operations /\ ApproveJoin(d, Fresh, member)
  \/ /\ MaxStray > 0 /\ Short
     /\ Cardinality(Strays) < MaxStray
     /\ \E d \in Device, parents \in SUBSET provider :
          Stray(Fresh, d, parents)

BoundedInit == Init /\ 1 \in DOMAIN events

BoundedSpec == BoundedInit /\ [][BoundedNext]_vars
=============================================================================
