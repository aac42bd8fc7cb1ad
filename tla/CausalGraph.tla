---------------------------- MODULE CausalGraph ----------------------------
(***************************************************************************)
(* Replicas that build causal graphs. Each replica inserts deliveries in   *)
(* any order, rejects ids for an application's reason and merges the graph *)
(* of another replica. delivered and rejections are history variables:     *)
(* what the owner of a graph was ever told, directly or through a merge.   *)
(***************************************************************************)
EXTENDS CausalOps

CONSTANT Replica        \* owners of a graph

VARIABLES
  graph,       \* Replica -> graph
  delivered,   \* Replica -> set of <<id, parents>> ever inserted
  rejections   \* Replica -> set of <<id, reason>> ever requested

graphVars == <<graph, delivered, rejections>>

GraphInit ==
  /\ graph = [r \in Replica |-> EmptyGraph]
  /\ delivered = [r \in Replica |-> {}]
  /\ rejections = [r \in Replica |-> {}]

Insert(r, id, ps) ==
  /\ graph' = [graph EXCEPT ![r] = InsertEvent(@, id, ps)]
  /\ delivered' = [delivered EXCEPT ![r] = @ \cup {<<id, ps>>}]
  /\ UNCHANGED rejections

Quarantine(r, id, reason) ==
  /\ graph' = [graph EXCEPT ![r] = QuarantineEvent(@, id, reason)]
  /\ rejections' = [rejections EXCEPT ![r] = @ \cup {<<id, reason>>}]
  /\ UNCHANGED delivered

Union(r, s) ==
  /\ graph' = [graph EXCEPT ![r] = UnionGraph(@, graph[s])]
  /\ delivered' = [delivered EXCEPT ![r] = @ \cup delivered[s]]
  /\ rejections' = [rejections EXCEPT ![r] = @ \cup rejections[s]]

GraphNext ==
  \E r \in Replica :
    \/ \E id \in Id, ps \in SUBSET Id : Insert(r, id, ps)
    \/ \E id \in Id, reason \in PolicyReason : Quarantine(r, id, reason)
    \/ \E s \in Replica : Union(r, s)

GraphSpec == GraphInit /\ [][GraphNext]_graphVars

-----------------------------------------------------------------------------
(***************************************************************************)
(* Correctness.                                                            *)
(***************************************************************************)

(* The four fields range over the inserted and the rejected ids. *)
GraphType(g) ==
  /\ g = [parents |-> g.parents, roots |-> g.roots,
          cyclic |-> g.cyclic, quarantined |-> g.quarantined]
  /\ DOMAIN g.parents \subseteq Id
  /\ g.parents \in [DOMAIN g.parents -> SUBSET Id]
  /\ DOMAIN g.roots \subseteq Id
  /\ g.roots \in [DOMAIN g.roots -> Reason]
  /\ g.cyclic \subseteq DOMAIN g.parents

(* Type invariant of every replica's graph (causal_graph.rs, the struct). *)
GraphTypeOK ==
  /\ DOMAIN graph = Replica
  /\ \A r \in Replica : GraphType(graph[r])
  /\ delivered \in [Replica -> SUBSET (Id \X SUBSET Id)]
  /\ rejections \in [Replica -> SUBSET (Id \X PolicyReason)]

(***************************************************************************)
(* What a graph must be, given only the set of deliveries and rejections   *)
(* and not their order.                                                    *)
(***************************************************************************)
ParentSets(D, x) == {ps \in SUBSET Id : <<x, ps>> \in D}

OwnReasons(D, J, x) ==
  {reason \in PolicyReason : <<x, reason>> \in J}
    \cup (IF \E a, b \in ParentSets(D, x) : a # b THEN {Conflicting} ELSE {})

(* The least parent set among those delivered for each id is kept. *)
ParentsAreLeast(g, D) ==
  /\ \A x \in Id : x \in DOMAIN g.parents <=> ParentSets(D, x) # {}
  /\ \A x \in DOMAIN g.parents :
       /\ g.parents[x] \in ParentSets(D, x)
       /\ \A ps \in ParentSets(D, x) : ~ParentsLess(ps, g.parents[x])

(* An id is a root exactly when it was rejected or delivered with two      *)
(* parent sets, and its reason is the least one.                           *)
RootsAreLeast(g, D, J) ==
  /\ \A x \in Id : x \in DOMAIN g.roots <=> OwnReasons(D, J, x) # {}
  /\ \A x \in DOMAIN g.roots :
       /\ g.roots[x] \in OwnReasons(D, J, x)
       /\ \A reason \in OwnReasons(D, J, x) : g.roots[x] <= reason

(* The incrementally maintained cyclic set is exactly the ids on a cycle. *)
CyclicIsExact(g) ==
  g.cyclic = {x \in DOMAIN g.parents : x \in Reach(g.parents, x)}

Reflects(g, D, J) ==
  /\ ParentsAreLeast(g, D)
  /\ RootsAreLeast(g, D, J)
  /\ CyclicIsExact(g)
  /\ g.quarantined = RecomputeQuarantine(g.parents, g.roots, g.cyclic)

(***************************************************************************)
(* Order independence (insert, quarantine, union): after any interleaving  *)
(* of deliveries, duplicates, rejections and merges, a replica's graph is  *)
(* determined by the sets it was told about. Two replicas that were told   *)
(* the same things agree on parents, roots, cycles and quarantine.         *)
(***************************************************************************)
OrderIndependent ==
  \A r \in Replica : Reflects(graph[r], delivered[r], rejections[r])

(* Replicas with the same history hold the same graph: what synchronizing  *)
(* through providers in different orders relies on.                        *)
Converged ==
  \A r, s \in Replica :
    delivered[r] = delivered[s] /\ rejections[r] = rejections[s]
      => graph[r] = graph[s]

(***************************************************************************)
(* Quarantine is final (recompute_quarantine after insert and union): no   *)
(* later delivery, not even a smaller parent set that breaks a cycle or    *)
(* cuts the edge to a rejected ancestor, readmits a rejected event.        *)
(***************************************************************************)
QuarantineIsFinal ==
  [][\A r \in Replica : Quarantined(graph[r]) \subseteq Quarantined(graph[r])']_graphVars

(***************************************************************************)
(* The heads an author names as parents form the frontier of the graph:    *)
(* no head precedes another, and every event that is not rejected precedes *)
(* some head (heads()).                                                    *)
(***************************************************************************)
HeadsAreFrontier ==
  \A r \in Replica :
    LET g == graph[r] IN
    /\ \A h, k \in Heads(g) : h # k => AreConcurrent(g.parents, h, k)
    /\ \A x \in Live(g) : \E h \in Heads(g) : IsAncestor(g.parents, x, h)

(***************************************************************************)
(* topological_order() never reports a cycle: cyclic events are rejected   *)
(* before they can be applicable, so the batches place every applicable    *)
(* event, and each one after all of its ancestors.                         *)
(***************************************************************************)
SortNeverFails ==
  \A r \in Replica :
    LET g == graph[r]
        placed == Batches(g)
    IN  /\ placed[Cardinality(Applicable(g))] = Applicable(g)
        /\ \A n \in DOMAIN placed, x \in Id :
             x \in placed[n] => Reach(g.parents, x) \subseteq placed[n]
=============================================================================
