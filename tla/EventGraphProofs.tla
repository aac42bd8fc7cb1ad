--------------------------- MODULE EventGraphProofs ---------------------------
(***************************************************************************)
(* The event graph, proved for every set of ids, replicas and devices.     *)
(*                                                                         *)
(* The first part is about walking the parent edges of a causal graph      *)
(* (CausalOps); every other proof rests on it. The second part is about    *)
(* the replicas that build such graphs (CausalGraph). The third part is    *)
(* about the vault's rules on a graph (VaultEvents), whatever part of the  *)
(* history a device holds: the graphs of all devices agree on what they    *)
(* apply, because an event is judged by its whole causal past and by       *)
(* nothing else, and a merge with a provider leaves a graph without        *)
(* rejected events and without half of a rotation.                         *)
(***************************************************************************)
EXTENDS CausalGraph, VaultEvents, TLAPS, WellFoundedInduction, FiniteSetTheorems

WellFormed(P) ==
  DOMAIN P \subseteq Id /\ P \in [DOMAIN P -> SUBSET Id]

-----------------------------------------------------------------------------
(* Walking parent edges.                                                   *)

(* What a few steps find is among the ancestors.                           *)
LEMMA NearIsBelow ==
  ASSUME NEW P, NEW x
  PROVE  /\ ParentsOf(P, x) \subseteq Near(P, x)
         /\ Near(P, x) \subseteq Edges(P)
         /\ \A C : ParentsOf(P, x) \subseteq C /\ Closed(P, C) => Near(P, x) \subseteq C
<1>1. \A z : ParentsOf(P, z) \subseteq Edges(P)
  BY DEF ParentsOf, Edges
<1>2. \A S : S \subseteq Further(P, S) /\ (S \subseteq Edges(P) => Further(P, S) \subseteq Edges(P))
  BY <1>1 DEF Further
<1>3. \A S, C : S \subseteq C /\ Closed(P, C) => Further(P, S) \subseteq C
  BY DEF Further, Closed
<1>4. QED
  BY <1>1, <1>2, <1>3 DEF Near

(* The walk from x is closed under parents and starts at x's parents. *)
LEMMA ReachIsClosed ==
  ASSUME NEW P, WellFormed(P), NEW x
  PROVE  /\ Reach(P, x) \subseteq Id
         /\ ParentsOf(P, x) \subseteq Reach(P, x)
         /\ Closed(P, Reach(P, x))
<1> DEFINE near   == Near(P, x)
           rest   == Edges(P) \ near
           closed == {D \in SUBSET rest : Closed(P, near \cup D)}
<1>1. \A z : ParentsOf(P, z) \subseteq Edges(P)
  BY DEF ParentsOf, Edges
<1>2. Edges(P) \subseteq Id
  BY DEF WellFormed, Edges
<1>3. ParentsOf(P, x) \subseteq near /\ near \subseteq Edges(P)
  BY NearIsBelow
<1>4. CASE Closed(P, near)
  BY <1>2, <1>3, <1>4 DEF Reach
<1>5. CASE ~Closed(P, near)
  <2>1. Reach(P, x) = near \cup {y \in rest : \A D \in closed : y \in D}
    BY <1>5 DEF Reach
  <2>2. ASSUME NEW z \in Reach(P, x), NEW y \in ParentsOf(P, z), y \notin near
        PROVE  y \in Reach(P, x)
    <3>1. ASSUME NEW D \in closed
          PROVE  y \in D
      <4>1. z \in near \cup D
        BY <2>1, <2>2
      <4>2. QED
        BY <4>1, <2>2 DEF Closed
    <3>2. QED
      BY <3>1, <1>1, <2>1, <2>2
  <2>3. QED
    BY <1>2, <1>3, <2>1, <2>2 DEF Closed
<1>6. QED
  BY <1>4, <1>5

(* It is the least such set. *)
LEMMA ReachIsLeast ==
  ASSUME NEW P, NEW x, NEW C,
         ParentsOf(P, x) \subseteq C, Closed(P, C)
  PROVE  Reach(P, x) \subseteq C
<1> DEFINE near == Near(P, x)
           rest == Edges(P) \ near
           D    == C \cap rest
<1>1. \A z : ParentsOf(P, z) \subseteq Edges(P)
  BY DEF ParentsOf, Edges
<1>2. near \subseteq C
  BY NearIsBelow
<1>3. Closed(P, near \cup D)
  BY <1>1, <1>2 DEF Closed
<1>4. QED
  BY <1>2, <1>3 DEF Reach

(* An ancestor's ancestors are ancestors. *)
LEMMA ReachIsTransitive ==
  ASSUME NEW P, WellFormed(P), NEW x, NEW y \in Reach(P, x)
  PROVE  Reach(P, y) \subseteq Reach(P, x)
<1>1. ParentsOf(P, y) \subseteq Reach(P, x)
  BY ReachIsClosed DEF Closed
<1>2. QED
  BY <1>1, ReachIsClosed, ReachIsLeast

(* An id that was never inserted has no ancestors. *)
LEMMA ReachNeedsParents ==
  ASSUME NEW P, NEW x, x \notin DOMAIN P
  PROVE  Reach(P, x) = {}
<1>1. ParentsOf(P, x) \subseteq {} /\ Closed(P, {})
  BY DEF ParentsOf, Closed
<1>2. QED
  BY <1>1, ReachIsLeast

(* The last edge of a walk from x to y. *)
LEMMA ReachHasLastStep ==
  ASSUME NEW P, WellFormed(P), NEW x, NEW y \in Reach(P, x)
  PROVE  \E c \in Reach(P, x) \cup {x} : y \in ParentsOf(P, c)
<1> DEFINE C == {z \in Reach(P, x) :
                   \E c \in Reach(P, x) \cup {x} : z \in ParentsOf(P, c)}
<1>1. ParentsOf(P, x) \subseteq C
  BY ReachIsClosed
<1>2. Closed(P, C)
  BY ReachIsClosed DEF Closed
<1>3. QED
  BY <1>1, <1>2, ReachIsLeast

-----------------------------------------------------------------------------
(* A nonempty set of subsets of a finite set has a smallest member, one    *)
(* that no other member is part of.                                        *)
LEMMA SmallestSubset ==
  ASSUME NEW S, IsFiniteSet(S), NEW M \in SUBSET SUBSET S, M # {}
  PROVE  \E m \in M : \A k \in M : k \subseteq m => k = m
<1>1. M \in SUBSET FiniteSubsetsOf(S)
  BY FS_FiniteSubsetsOfFinite
<1>2. PICK m \in M : \A k \in M : ~(<<k, m>> \in StrictSubsetOrdering(S))
  BY <1>1, FS_StrictSubsetOrderingWellFounded, WFMin
<1>3. \A k \in M : k \subseteq m => k = m
  BY <1>2 DEF StrictSubsetOrdering
<1>4. QED
  BY <1>3

(* A nonempty set of naturals has a least member. *)
LEMMA LeastNatural ==
  ASSUME NEW T \in SUBSET Nat, T # {}
  PROVE  \E x \in T : \A y \in T : x <= y
<1>1. PICK x \in T : \A y \in T : ~(<<y, x>> \in OpToRel(<, Nat))
  BY NatLessThanWellFounded, WFMin
<1>2. \A y \in T : ~(y < x)
  BY <1>1 DEF OpToRel
<1>3. QED
  BY <1>2

-----------------------------------------------------------------------------
(***************************************************************************)
(* Replicas (CausalGraph).                                                 *)
(***************************************************************************)
-----------------------------------------------------------------------------
(* Cycles.                                                                 *)

OnCycle(P) == {x \in DOMAIN P : x \in Reach(P, x)}

(* cycle_members over every id finds exactly the ids on a cycle. *)
LEMMA CycleMembersOnCycle ==
  ASSUME NEW P, WellFormed(P), NEW o
  PROVE  CycleMembers(P, o) \subseteq OnCycle(P)
<1> SUFFICES ASSUME NEW y \in CycleMembers(P, o)
             PROVE  y \in DOMAIN P /\ y \in Reach(P, y)
  BY DEF OnCycle
<1>1. o \in Reach(P, o) /\ y \in Reach(P, o) /\ (y = o \/ o \in Reach(P, y))
  BY DEF CycleMembers
<1>2. y \in Reach(P, y)
  <2>1. CASE y = o
    BY <2>1, <1>1
  <2>2. CASE o \in Reach(P, y)
    BY <2>2, <1>1, ReachIsTransitive
  <2>3. QED
    BY <1>1, <2>1, <2>2
<1>3. QED
  BY <1>2, ReachNeedsParents

(* all_cyclic_ids() is the set of inserted ids that reach themselves. *)
LEMMA AllCyclicIsOnCycle ==
  ASSUME NEW P, WellFormed(P)
  PROVE  AllCyclicIds(P) = OnCycle(P)
<1>1. AllCyclicIds(P) \subseteq OnCycle(P)
  BY CycleMembersOnCycle DEF AllCyclicIds
<1>2. ASSUME NEW x \in OnCycle(P)
      PROVE  x \in AllCyclicIds(P)
  <2>1. x \in DOMAIN P /\ x \in CycleMembers(P, x)
    BY DEF OnCycle, CycleMembers
  <2>2. QED
    BY <2>1 DEF AllCyclicIds
<1>3. QED
  BY <1>1, <1>2

(***************************************************************************)
(* The comment on cycle_members: a new id closes only cycles through it.   *)
(***************************************************************************)
LEMMA NewIdClosesOwnCycles ==
  ASSUME NEW P, WellFormed(P), NEW id \in Id, id \notin DOMAIN P,
         NEW ps \in SUBSET Id,
         NEW Q, Q = [x \in DOMAIN P \cup {id} |-> IF x = id THEN ps ELSE P[x]]
  PROVE  OnCycle(Q) = OnCycle(P) \cup CycleMembers(Q, id)
<1>1. WellFormed(Q)
  BY DEF WellFormed
<1>2. \A z : z # id => ParentsOf(Q, z) = ParentsOf(P, z)
  BY DEF ParentsOf
<1>3. ParentsOf(P, id) = {}
  BY DEF ParentsOf
<1>4. ASSUME NEW x PROVE Reach(P, x) \subseteq Reach(Q, x)
  <2>1. \A z : ParentsOf(P, z) \subseteq ParentsOf(Q, z)
    BY <1>2, <1>3
  <2>2. ParentsOf(P, x) \subseteq Reach(Q, x) /\ Closed(P, Reach(Q, x))
    BY <1>1, <2>1, ReachIsClosed DEF Closed
  <2>3. QED
    BY <1>1, <2>2, ReachIsClosed, ReachIsLeast
<1>5. OnCycle(P) \subseteq OnCycle(Q)
  BY <1>4 DEF OnCycle
<1>6. CycleMembers(Q, id) \subseteq OnCycle(Q)
  BY <1>1, CycleMembersOnCycle
<1>7. ASSUME NEW x \in OnCycle(Q), x \notin OnCycle(P)
      PROVE  x \in CycleMembers(Q, id)
  <2>0. x \in Id /\ x \in DOMAIN Q /\ x \in Reach(Q, x)
    BY <1>1, <1>7 DEF OnCycle, WellFormed
  <2>1. CASE x = id
    BY <2>0, <2>1 DEF CycleMembers
  <2>2. CASE x # id
    <3>1. x \in DOMAIN P /\ x \notin Reach(P, x)
      BY <2>0, <2>2, <1>7 DEF OnCycle
    <3>2. id \in Reach(P, x)
      <4>1. SUFFICES ASSUME id \notin Reach(P, x) PROVE FALSE
        OBVIOUS
      <4>2. ParentsOf(Q, x) \subseteq Reach(P, x) /\ Closed(Q, Reach(P, x))
        BY <4>1, <1>2, <2>2, ReachIsClosed DEF Closed
      <4>3. Reach(Q, x) \subseteq Reach(P, x)
        BY <4>2, ReachIsClosed, ReachIsLeast
      <4>4. QED
        BY <4>3, <2>0, <3>1
    <3>3. id \in Reach(Q, x)
      BY <3>2, <1>4
    <3>4. x \in Reach(Q, id)
      <4> DEFINE C == Reach(P, x) \cup Reach(Q, id) \cup {id}
      <4>1. C \in SUBSET Id
        BY <1>1, ReachIsClosed
      <4>2. ParentsOf(Q, x) \subseteq C
        BY <1>2, <2>2, ReachIsClosed
      <4>3. Closed(Q, C)
        <5> SUFFICES ASSUME NEW z \in C PROVE ParentsOf(Q, z) \subseteq C
          BY DEF Closed
        <5>1. CASE z = id
          BY <5>1, <1>1, ReachIsClosed
        <5>2. CASE z # id /\ z \in Reach(P, x)
          BY <5>2, <1>2, ReachIsClosed DEF Closed
        <5>3. CASE z \in Reach(Q, id)
          BY <5>3, <1>1, ReachIsClosed DEF Closed
        <5>4. QED
          BY <5>1, <5>2, <5>3
      <4>4. Reach(Q, x) \subseteq C
        BY <4>1, <4>2, <4>3, ReachIsLeast
      <4>5. QED
        BY <4>4, <2>0, <2>2, <3>1
    <3>5. id \in Reach(Q, id)
      BY <1>1, <3>3, <3>4, ReachIsTransitive
    <3>6. QED
      BY <3>3, <3>4, <3>5 DEF CycleMembers
  <2>3. QED
    BY <2>1, <2>2
<1>8. QED
  BY <1>5, <1>6, <1>7

-----------------------------------------------------------------------------
(* The order of parent lists.                                              *)

(* Two different parent lists are ordered one way or the other. *)
LEMMA ParentsLessIsTotal ==
  ASSUME NEW A \in SUBSET Nat, NEW B \in SUBSET Nat, A # B
  PROVE  ParentsLess(A, B) \/ ParentsLess(B, A)
<1> DEFINE T == (A \ B) \cup (B \ A)
<1>1. PICK m \in T : \A y \in T : m <= y
  BY LeastNatural
<1>2. \A k \in A \cup B : k < m => (k \in A <=> k \in B)
  BY <1>1
<1>3. CASE m \in A
  BY <1>2, <1>3 DEF ParentsLess
<1>4. CASE m \in B
  BY <1>2, <1>4 DEF ParentsLess
<1>5. QED
  BY <1>1, <1>3, <1>4

(* No parent list is smaller than itself. *)
LEMMA ParentsLessIsStrict ==
  ASSUME NEW A, NEW B, ParentsLess(A, B)
  PROVE  A # B
BY DEF ParentsLess

(* The order of parent lists is transitive. *)
LEMMA ParentsLessIsTransitive ==
  ASSUME NEW A \in SUBSET Nat, NEW B \in SUBSET Nat, NEW C \in SUBSET Nat,
         ParentsLess(A, B), ParentsLess(B, C)
  PROVE  ParentsLess(A, C)
<1>1. PICK m \in (A \ B) \cup (B \ A) :
        /\ \A k \in A \cup B : k < m => (k \in A <=> k \in B)
        /\ IF m \in A THEN \E b \in B : m < b ELSE \A a \in A : a < m
  BY DEF ParentsLess
<1>2. PICK n \in (B \ C) \cup (C \ B) :
        /\ \A k \in B \cup C : k < n => (k \in B <=> k \in C)
        /\ IF n \in B THEN \E c \in C : n < c ELSE \A b \in B : b < n
  BY DEF ParentsLess
<1>3. m \in Nat /\ n \in Nat
  OBVIOUS
<1>4. CASE m < n
  <2>1. m \in (A \ C) \cup (C \ A)
    BY <1>1, <1>2, <1>3, <1>4
  <2>2. \A k \in A \cup C : k < m => (k \in A <=> k \in C)
    BY <1>1, <1>2, <1>3, <1>4
  <2>3. m \in A => \E c \in C : m < c
    BY <1>1, <1>2, <1>3, <1>4
  <2>4. m \notin A => \A a \in A : a < m
    BY <1>1
  <2>5. QED
    BY <2>1, <2>2, <2>3, <2>4 DEF ParentsLess
<1>5. CASE n < m
  <2>1. n \in (A \ C) \cup (C \ A)
    BY <1>1, <1>2, <1>3, <1>5
  <2>2. \A k \in A \cup C : k < n => (k \in A <=> k \in C)
    BY <1>1, <1>2, <1>3, <1>5
  <2>3. n \in A => \E c \in C : n < c
    BY <1>1, <1>2, <1>3, <1>5
  <2>4. n \notin A => \A a \in A : a < n
    BY <1>1, <1>2, <1>3, <1>5
  <2>5. QED
    BY <2>1, <2>2, <2>3, <2>4 DEF ParentsLess
<1>6. CASE m = n
  \* A ends before position m, and C continues past it without m.
  <2>1. m \notin A /\ m \in B /\ m \notin C
    BY <1>1, <1>2, <1>3, <1>6
  <2>2. (\A a \in A : a < m) /\ (\E c \in C : m < c)
    BY <2>1, <1>1, <1>2, <1>6
  <2>3. PICK p \in {c \in C : m < c} : \A y \in {c \in C : m < c} : p <= y
    BY <2>2, LeastNatural
  <2>4. p \in C \ A /\ p \in Nat /\ \A a \in A : a < p
    BY <2>2, <2>3, <1>3
  <2>5. \A k \in A \cup C : k < p => (k \in A <=> k \in C)
    <3> SUFFICES ASSUME NEW k \in A \cup C, k < p
                 PROVE  k \in A <=> k \in C
      OBVIOUS
    <3>1. k \in Nat /\ ~(k \in C /\ m < k)
      BY <2>3, <2>4
    <3>2. k < m
      BY <3>1, <2>1, <2>2, <1>3
    <3>3. QED
      BY <3>2, <1>1, <1>2, <1>6
  <2>6. QED
    BY <2>4, <2>5 DEF ParentsLess
<1>7. QED
  BY <1>3, <1>4, <1>5, <1>6

(* Keeping the smaller of two lists keeps the least of all lists seen. *)
LEMMA MinParentsIsLeast ==
  ASSUME NEW S \in SUBSET SUBSET Nat, NEW T \in SUBSET SUBSET Nat,
         NEW a \in S, \A p \in S : ~ParentsLess(p, a),
         NEW b \in T, \A p \in T : ~ParentsLess(p, b)
  PROVE  /\ MinParents(a, b) \in S \cup T
         /\ \A p \in S \cup T : ~ParentsLess(p, MinParents(a, b))
<1>1. CASE ParentsLess(b, a)
  <2>1. MinParents(a, b) = b
    BY <1>1 DEF MinParents
  <2>2. \A p \in S : ~ParentsLess(p, b)
    BY <1>1, ParentsLessIsTransitive
  <2>3. QED
    BY <2>1, <2>2
<1>2. CASE ~ParentsLess(b, a)
  <2>1. MinParents(a, b) = a
    BY <1>2 DEF MinParents
  <2>2. ASSUME NEW p \in T, ParentsLess(p, a)
        PROVE  FALSE
    <3>1. p # b /\ ~ParentsLess(p, b)
      BY <1>2, <2>2
    <3>2. ParentsLess(b, p)
      BY <3>1, ParentsLessIsTotal
    <3>3. QED
      BY <1>2, <2>2, <3>2, ParentsLessIsTransitive
  <2>3. QED
    BY <2>1, <2>2
<1>3. QED
  BY <1>1, <1>2

-----------------------------------------------------------------------------
(* The operations on one graph.                                            *)

Heard(D, J) == D \in SUBSET (Id \X SUBSET Id) /\ J \in SUBSET (Id \X PolicyReason)

Sound(g, D, J) == GraphType(g) /\ Reflects(g, D, J)

(* The parents of a well-typed graph are a function into sets of ids. *)
LEMMA GraphTypeWellFormed ==
  ASSUME NEW g, GraphType(g)
  PROVE  WellFormed(g.parents)
BY DEF GraphType, WellFormed

(* MakeGraph completes sound parts to a sound graph. *)
LEMMA MakeGraphSound ==
  ASSUME NEW P, WellFormed(P), NEW roots, NEW cyclic, NEW D, NEW J,
         DOMAIN roots \subseteq Id,
         roots \in [DOMAIN roots -> Reason],
         cyclic = OnCycle(P),
         ParentsAreLeast(MakeGraph(P, roots, cyclic), D),
         RootsAreLeast(MakeGraph(P, roots, cyclic), D, J)
  PROVE  Sound(MakeGraph(P, roots, cyclic), D, J)
<1> DEFINE g == MakeGraph(P, roots, cyclic)
<1>1. /\ g.parents = P /\ g.roots = roots /\ g.cyclic = cyclic
      /\ g.quarantined = RecomputeQuarantine(P, roots, cyclic)
      /\ g = [parents |-> P, roots |-> roots, cyclic |-> cyclic,
              quarantined |-> RecomputeQuarantine(P, roots, cyclic)]
  BY DEF MakeGraph
<1>2. GraphType(g)
  BY <1>1 DEF GraphType, WellFormed, OnCycle
<1>3. CyclicIsExact(g)
  BY <1>1 DEF CyclicIsExact, OnCycle
<1>4. QED
  BY <1>1, <1>2, <1>3 DEF Sound, Reflects

(* The default graph is sound for an empty history. *)
LEMMA EmptySound == Sound(EmptyGraph, {}, {})
<1>1. /\ EmptyGraph.parents = [x \in {} |-> {}]
      /\ EmptyGraph.roots = [x \in {} |-> 0]
      /\ EmptyGraph.cyclic = {}
      /\ EmptyGraph.quarantined = [x \in {} |-> 0]
      /\ DOMAIN EmptyGraph = {"parents", "roots", "cyclic", "quarantined"}
  BY DEF EmptyGraph
<1>2. GraphType(EmptyGraph)
  BY DEF GraphType, EmptyGraph
<1>3. ParentsAreLeast(EmptyGraph, {}) /\ RootsAreLeast(EmptyGraph, {}, {})
  BY <1>1 DEF ParentsAreLeast, RootsAreLeast, ParentSets, OwnReasons
<1>4. CyclicIsExact(EmptyGraph)
  BY <1>1 DEF CyclicIsExact
<1>5. RecomputeQuarantine(EmptyGraph.parents, EmptyGraph.roots, EmptyGraph.cyclic)
        = [x \in {} |-> 0]
  BY <1>1 DEF RecomputeQuarantine
<1>6. QED
  BY <1>1, <1>2, <1>3, <1>4, <1>5 DEF Sound, Reflects

(* Merging a reason keeps the least reason of each id. *)
LEMMA MergeKeepsLeast ==
  ASSUME NEW roots, DOMAIN roots \subseteq Id,
         roots \in [DOMAIN roots -> Reason],
         NEW id \in Id, NEW reason \in Reason
  PROVE  LET m == MergeQuarantineReason(roots, id, reason) IN
         /\ DOMAIN m = DOMAIN roots \cup {id}
         /\ m \in [DOMAIN m -> Reason]
         /\ \A x \in DOMAIN roots : x # id => m[x] = roots[x]
         /\ m[id] \in {reason} \cup (IF id \in DOMAIN roots THEN {roots[id]} ELSE {})
         /\ m[id] <= reason
         /\ id \in DOMAIN roots => m[id] <= roots[id]
<1>1. Reason \subseteq Nat
  BY ReasonAssumption DEF Reason, AncestorRejected, InCycle, Conflicting
<1> DEFINE m == MergeQuarantineReason(roots, id, reason)
<1>2. DOMAIN m = DOMAIN roots \cup {id}
  BY DEF MergeQuarantineReason
<1>3. \A x \in DOMAIN roots : x # id => m[x] = roots[x]
  BY DEF MergeQuarantineReason
<1>4. m[id] = IF id \in DOMAIN roots /\ roots[id] <= reason THEN roots[id] ELSE reason
  BY DEF MergeQuarantineReason
<1> HIDE DEF m
<1>5. m[id] <= reason /\ m[id] \in Reason
  BY <1>1, <1>4
<1>6. ASSUME id \in DOMAIN roots PROVE m[id] <= roots[id]
  <2>1. roots[id] \in Nat /\ reason \in Nat
    BY <1>1, <1>6
  <2>2. QED
    BY <2>1, <1>4, <1>6
<1>7. \A x \in DOMAIN m : m[x] \in Reason
  BY <1>2, <1>3, <1>5
<1>8. m \in [DOMAIN m -> Reason]
  <2>1. m = [x \in DOMAIN m |-> m[x]]
    BY DEF m, MergeQuarantineReason
  <2>2. QED
    BY <2>1, <1>7
<1>9. QED
  BY <1>2, <1>3, <1>4, <1>5, <1>6, <1>8 DEF m

(* So an id's reason stays the least of a set that grew by that reason. *)
LEMMA MergedRootsAreLeast ==
  ASSUME NEW g, NEW h, NEW D, NEW J, NEW E, NEW K, NEW id \in Id,
         NEW reason \in Reason, Reason \subseteq Nat, GraphType(g),
         RootsAreLeast(g, D, J),
         h.roots = MergeQuarantineReason(g.roots, id, reason),
         \A x : x # id => OwnReasons(E, K, x) = OwnReasons(D, J, x),
         OwnReasons(E, K, id) = OwnReasons(D, J, id) \cup {reason}
  PROVE  RootsAreLeast(h, E, K)
<1> DEFINE m == MergeQuarantineReason(g.roots, id, reason)
<1>1. /\ DOMAIN m = DOMAIN g.roots \cup {id}
      /\ m \in [DOMAIN m -> Reason]
      /\ \A x \in DOMAIN g.roots : x # id => m[x] = g.roots[x]
      /\ m[id] \in {reason} \cup (IF id \in DOMAIN g.roots THEN {g.roots[id]} ELSE {})
      /\ m[id] <= reason
      /\ id \in DOMAIN g.roots => m[id] <= g.roots[id]
  BY MergeKeepsLeast DEF GraphType
<1>2. h.roots = m
  OBVIOUS
<1> HIDE DEF m
<1>3. \A x \in Id : x \in DOMAIN m <=> OwnReasons(E, K, x) # {}
  BY <1>1 DEF RootsAreLeast
<1>4. ASSUME NEW x \in DOMAIN m
      PROVE  /\ m[x] \in OwnReasons(E, K, x)
             /\ \A s \in OwnReasons(E, K, x) : m[x] <= s
  <2>1. CASE x # id
    BY <2>1, <1>1 DEF RootsAreLeast
  <2>2. CASE x = id /\ id \in DOMAIN g.roots
    <3>1. /\ g.roots[id] \in OwnReasons(D, J, id)
          /\ \A s \in OwnReasons(D, J, id) : g.roots[id] <= s
      BY <2>2 DEF RootsAreLeast
    <3>2. m[id] \in {reason, g.roots[id]} /\ m[id] <= reason /\ m[id] <= g.roots[id]
      BY <2>2, <1>1
    <3>3. \A s \in OwnReasons(D, J, id) : s \in Nat
      BY ReasonAssumption DEF OwnReasons, Conflicting
    <3>4. m[id] \in Nat /\ g.roots[id] \in Nat
      BY <3>1, <3>3, <1>1
    <3>5. \A s \in OwnReasons(D, J, id) : m[id] <= s
      BY <3>1, <3>2, <3>3, <3>4
    <3>6. QED
      BY <2>2, <3>1, <3>2, <3>5
  <2>3. CASE x = id /\ id \notin DOMAIN g.roots
    <3>1. OwnReasons(D, J, id) = {}
      BY <2>3 DEF RootsAreLeast
    <3>2. QED
      BY <2>3, <3>1, <1>1
  <2>4. QED
    BY <2>1, <2>2, <2>3
<1>5. QED
  BY <1>2, <1>3, <1>4 DEF RootsAreLeast

(* quarantine() *)
LEMMA QuarantineSound ==
  ASSUME NEW g, NEW D, NEW J, Heard(D, J), Sound(g, D, J),
         NEW id \in Id, NEW reason \in PolicyReason
  PROVE  Sound(QuarantineEvent(g, id, reason), D, J \cup {<<id, reason>>})
<1> DEFINE m == MergeQuarantineReason(g.roots, id, reason)
           h == QuarantineEvent(g, id, reason)
           K == J \cup {<<id, reason>>}
<1>1. WellFormed(g.parents) /\ GraphType(g) /\ g.cyclic = OnCycle(g.parents)
  BY GraphTypeWellFormed DEF Sound, Reflects, CyclicIsExact, OnCycle
<1>2. reason \in Reason /\ Reason \subseteq Nat
  BY ReasonAssumption DEF Reason, AncestorRejected, InCycle, Conflicting
<1>3. /\ DOMAIN m = DOMAIN g.roots \cup {id}
      /\ m \in [DOMAIN m -> Reason]
      /\ \A x \in DOMAIN g.roots : x # id => m[x] = g.roots[x]
      /\ m[id] \in {reason} \cup (IF id \in DOMAIN g.roots THEN {g.roots[id]} ELSE {})
      /\ m[id] <= reason
      /\ id \in DOMAIN g.roots => m[id] <= g.roots[id]
  BY <1>1, <1>2, MergeKeepsLeast DEF GraphType
<1>4. h = MakeGraph(g.parents, m, g.cyclic)
  BY DEF QuarantineEvent
<1> HIDE DEF m, h
<1>5. h.parents = g.parents /\ h.roots = m
  BY <1>4 DEF MakeGraph
<1>6. ParentsAreLeast(h, D)
  BY <1>5 DEF ParentsAreLeast, Sound, Reflects
<1>7. \A x : OwnReasons(D, K, x)
               = OwnReasons(D, J, x) \cup (IF x = id THEN {reason} ELSE {})
  BY DEF OwnReasons
<1> HIDE DEF K
<1>8. RootsAreLeast(h, D, K)
  BY <1>1, <1>2, <1>5, <1>7, MergedRootsAreLeast DEF m, Sound, Reflects
<1>9. QED
  <2>1. DOMAIN m \subseteq Id
    BY <1>1, <1>3 DEF GraphType
  <2>2. QED
    BY <2>1, <1>1, <1>3, <1>4, <1>6, <1>8, MakeGraphSound DEF K, h

(* insert() *)
LEMMA InsertSound ==
  ASSUME NEW g, NEW D, NEW J, Heard(D, J), Sound(g, D, J),
         NEW id \in Id, NEW ps \in SUBSET Id
  PROVE  Sound(InsertEvent(g, id, ps), D \cup {<<id, ps>>}, J)
<1> DEFINE E == D \cup {<<id, ps>>}
           h == InsertEvent(g, id, ps)
<1>1. /\ WellFormed(g.parents) /\ GraphType(g) /\ g.cyclic = OnCycle(g.parents)
      /\ ParentsAreLeast(g, D) /\ RootsAreLeast(g, D, J)
  BY GraphTypeWellFormed DEF Sound, Reflects, CyclicIsExact, OnCycle
<1>2. \A x : ParentSets(E, x) = ParentSets(D, x) \cup (IF x = id THEN {ps} ELSE {})
  BY DEF ParentSets
<1>3. \A x : x # id => OwnReasons(E, J, x) = OwnReasons(D, J, x)
  BY <1>2 DEF OwnReasons
<1>4. CASE id \in DOMAIN g.parents /\ g.parents[id] = ps
  <2>1. h = g
    BY <1>4 DEF InsertEvent
  <2>2. E = D
    BY <1>1, <1>4 DEF ParentsAreLeast, ParentSets
  <2>3. QED
    BY <2>1, <2>2
<1>5. CASE id \in DOMAIN g.parents /\ g.parents[id] # ps
  <2> DEFINE P == [g.parents EXCEPT ![id] = MinParents(@, ps)]
             m == MergeQuarantineReason(g.roots, id, Conflicting)
             cyc == IF ParentsLess(ps, g.parents[id]) THEN AllCyclicIds(P) ELSE g.cyclic
  <2>1. h = MakeGraph(P, m, cyc)
    BY <1>5 DEF InsertEvent
  <2>2. h.parents = P /\ h.roots = m
    BY <2>1 DEF MakeGraph
  <2>3. /\ DOMAIN P = DOMAIN g.parents
        /\ P[id] = MinParents(g.parents[id], ps)
        /\ \A x \in DOMAIN P : x # id => P[x] = g.parents[x]
    BY <1>5
  <2>4. WellFormed(P)
    <3>1. P[id] \in {g.parents[id], ps}
      BY <2>3 DEF MinParents
    <3>2. QED
      BY <3>1, <2>3, <1>1, <1>5 DEF WellFormed
  <2>5. cyc = OnCycle(P)
    <3>1. CASE ParentsLess(ps, g.parents[id])
      BY <3>1, <2>4, AllCyclicIsOnCycle
    <3>2. CASE ~ParentsLess(ps, g.parents[id])
      <4>1. MinParents(g.parents[id], ps) = g.parents[id]
        BY <3>2 DEF MinParents
      <4>2. \A x : ParentsOf(P, x) = ParentsOf(g.parents, x)
        BY <4>1, <2>3 DEF ParentsOf
      <4>3. \A C : Closed(P, C) <=> Closed(g.parents, C)
        BY <4>2 DEF Closed
      <4>4. \A x : Reach(P, x) = Reach(g.parents, x)
        <5>1. WellFormed(g.parents)
          BY <1>1
        <5>2. QED
          BY <4>2, <4>3, <5>1, <2>4, ReachIsClosed, ReachIsLeast
      <4>5. QED
        BY <3>2, <4>4, <2>3, <1>1 DEF OnCycle
    <3>3. QED
      BY <3>1, <3>2
  <2>6. ParentsAreLeast(h, E)
    <3>1. /\ g.parents[id] \in ParentSets(D, id)
          /\ \A p \in ParentSets(D, id) : ~ParentsLess(p, g.parents[id])
      BY <1>1, <1>5 DEF ParentsAreLeast
    <3>2. \A p \in {ps} : ~ParentsLess(p, ps)
      BY ParentsLessIsStrict
    <3>3. ParentSets(D, id) \in SUBSET SUBSET Nat /\ {ps} \in SUBSET SUBSET Nat
      BY IdAssumption DEF ParentSets
    <3>4. /\ P[id] \in ParentSets(D, id) \cup {ps}
          /\ \A p \in ParentSets(D, id) \cup {ps} : ~ParentsLess(p, P[id])
      <4> DEFINE S == ParentSets(D, id)
                 old == g.parents[id]
      <4>1. old \in S /\ \A p \in S : ~ParentsLess(p, old)
        BY <3>1
      <4> HIDE DEF S, old
      <4>2. S \in SUBSET SUBSET Nat
        BY <3>3 DEF S
      <4>3. /\ MinParents(old, ps) \in S \cup {ps}
            /\ \A p \in S \cup {ps} : ~ParentsLess(p, MinParents(old, ps))
        BY <4>1, <4>2, <3>2, <3>3, MinParentsIsLeast
      <4> HIDE DEF P
      <4>4. QED
        BY <4>3, <2>3 DEF S, old
    <3>5. ParentSets(E, id) = ParentSets(D, id) \cup {ps}
      BY <1>2
    <3>6. \A x \in DOMAIN P : x # id => ParentSets(E, x) = ParentSets(D, x)
      BY <1>2
    <3>7. \A x \in Id : x \in DOMAIN P <=> ParentSets(E, x) # {}
      BY <1>1, <1>2, <1>5, <2>3 DEF ParentsAreLeast
    <3> HIDE DEF P, E, h
    <3>8. QED
      BY <3>4, <3>5, <3>6, <3>7, <2>2, <2>3, <1>1 DEF ParentsAreLeast
  <2>7. OwnReasons(E, J, id) = OwnReasons(D, J, id) \cup {Conflicting}
    <3>1. g.parents[id] \in ParentSets(E, id) /\ ps \in ParentSets(E, id)
      BY <1>1, <1>2, <1>5 DEF ParentsAreLeast
    <3>2. QED
      BY <3>1, <1>5 DEF OwnReasons
  <2>8. Conflicting \in Reason /\ Reason \subseteq Nat
    BY ReasonAssumption DEF Reason, AncestorRejected, InCycle, Conflicting
  <2>9. /\ DOMAIN m = DOMAIN g.roots \cup {id}
        /\ m \in [DOMAIN m -> Reason]
        /\ \A x \in DOMAIN g.roots : x # id => m[x] = g.roots[x]
        /\ m[id] \in {Conflicting} \cup (IF id \in DOMAIN g.roots THEN {g.roots[id]} ELSE {})
        /\ m[id] <= Conflicting
        /\ id \in DOMAIN g.roots => m[id] <= g.roots[id]
    BY <2>8, <1>1, MergeKeepsLeast DEF GraphType
  <2>10. RootsAreLeast(h, E, J)
    BY <2>2, <2>7, <2>8, <2>9, <1>1, <1>3, MergedRootsAreLeast
  <2>11. DOMAIN m \subseteq Id
    BY <1>1, <2>9 DEF GraphType
  <2>12. QED
    BY <2>1, <2>4, <2>5, <2>6, <2>9, <2>10, <2>11, MakeGraphSound
<1>6. CASE id \notin DOMAIN g.parents
  <2> DEFINE P == [x \in DOMAIN g.parents \cup {id} |->
                     IF x = id THEN ps ELSE g.parents[x]]
             cyc == g.cyclic \cup CycleMembers(P, id)
  <2>1. h = MakeGraph(P, g.roots, cyc)
    BY <1>6 DEF InsertEvent
  <2>2. h.parents = P /\ h.roots = g.roots
    BY <2>1 DEF MakeGraph
  <2>3. WellFormed(P)
    BY <1>1 DEF WellFormed
  <2>4. cyc = OnCycle(P)
    BY <1>1, <1>6, NewIdClosesOwnCycles
  <2>5. ParentSets(D, id) = {} /\ ParentSets(E, id) = {ps}
    BY <1>1, <1>2, <1>6 DEF ParentsAreLeast
  <2>6. ParentsAreLeast(h, E)
    <3>1. \A x \in Id : x \in DOMAIN P <=> ParentSets(E, x) # {}
      BY <1>1, <1>2, <2>5 DEF ParentsAreLeast
    <3>2. \A x \in DOMAIN g.parents : P[x] = g.parents[x] /\ x # id
      BY <1>6
    <3>3. P[id] = ps /\ ~ParentsLess(ps, ps) /\ DOMAIN P = DOMAIN g.parents \cup {id}
      BY ParentsLessIsStrict
    <3> HIDE DEF P, E, h
    <3>4. QED
      BY <3>1, <3>2, <3>3, <2>2, <2>5, <1>1, <1>2 DEF ParentsAreLeast
  <2>7. \A x : OwnReasons(E, J, x) = OwnReasons(D, J, x)
    <3>1. OwnReasons(E, J, id) = {reason \in PolicyReason : <<id, reason>> \in J}
      BY <2>5 DEF OwnReasons
    <3>2. OwnReasons(D, J, id) = {reason \in PolicyReason : <<id, reason>> \in J}
      BY <2>5 DEF OwnReasons
    <3> HIDE DEF E
    <3>3. QED
      BY <3>1, <3>2, <1>3
  <2>8. RootsAreLeast(h, E, J)
    BY <2>2, <2>7, <1>1 DEF RootsAreLeast
  <2>9. DOMAIN g.roots \subseteq Id /\ g.roots \in [DOMAIN g.roots -> Reason]
    BY <1>1 DEF GraphType
  <2> HIDE DEF P, cyc, h, E
  <2>10. Sound(MakeGraph(P, g.roots, cyc), E, J)
    BY <2>1, <2>3, <2>4, <2>6, <2>8, <2>9, MakeGraphSound
  <2>11. QED
    BY <2>1, <2>10 DEF h, E
<1>7. QED
  BY <1>4, <1>5, <1>6

(* union() *)
LEMMA UnionSound ==
  ASSUME NEW g, NEW D, NEW J, Heard(D, J), Sound(g, D, J),
         NEW h, NEW E, NEW K, Heard(E, K), Sound(h, E, K)
  PROVE  Sound(UnionGraph(g, h), D \cup E, J \cup K)
<1> DEFINE P == MergedParents(g, h)
           m == MergedRoots(g, h)
           u == UnionGraph(g, h)
           DE == D \cup E
           JK == J \cup K
<1>1. /\ WellFormed(g.parents) /\ GraphType(g)
      /\ ParentsAreLeast(g, D) /\ RootsAreLeast(g, D, J)
  BY GraphTypeWellFormed DEF Sound, Reflects
<1>2. /\ WellFormed(h.parents) /\ GraphType(h)
      /\ ParentsAreLeast(h, E) /\ RootsAreLeast(h, E, K)
  BY GraphTypeWellFormed DEF Sound, Reflects
<1>3. u = MakeGraph(P, m, AllCyclicIds(P))
  BY DEF UnionGraph
<1>4. u.parents = P /\ u.roots = m
  BY <1>3 DEF MakeGraph
<1>5. /\ DOMAIN P = DOMAIN g.parents \cup DOMAIN h.parents
      /\ \A x \in DOMAIN P :
           P[x] = IF x \notin DOMAIN h.parents THEN g.parents[x]
                  ELSE IF x \notin DOMAIN g.parents THEN h.parents[x]
                  ELSE MinParents(g.parents[x], h.parents[x])
  BY DEF MergedParents
<1>6. \A x : ParentSets(DE, x) = ParentSets(D, x) \cup ParentSets(E, x)
  BY DEF ParentSets
<1>7. \A x : ParentSets(D, x) \in SUBSET SUBSET Nat /\ ParentSets(E, x) \in SUBSET SUBSET Nat
  BY IdAssumption DEF ParentSets
<1>8. /\ DOMAIN m = Clashing(g, h) \cup DOMAIN g.roots \cup DOMAIN h.roots
      /\ \A x \in DOMAIN m :
           m[x] = CHOOSE r \in MergedReasons(g, h, x) :
                    \A s \in MergedReasons(g, h, x) : r <= s
  BY DEF MergedRoots
<1>18. P = [x \in DOMAIN P |-> P[x]] /\ m = [x \in DOMAIN m |-> m[x]]
  BY DEF MergedParents, MergedRoots
<1> HIDE DEF P, m, u, DE
<1>9. WellFormed(P)
  <2>1. ASSUME NEW x \in DOMAIN P PROVE P[x] \in SUBSET Id /\ x \in Id
    BY <1>1, <1>2, <1>5 DEF WellFormed, MinParents
  <2>2. QED
    BY <2>1, <1>18 DEF WellFormed
<1>10. ASSUME NEW x \in DOMAIN P
       PROVE  /\ P[x] \in ParentSets(DE, x)
              /\ \A p \in ParentSets(DE, x) : ~ParentsLess(p, P[x])
  <2>0. x \in Id
    BY <1>9 DEF WellFormed
  <2>1. CASE x \notin DOMAIN h.parents
    <3>1. ParentSets(E, x) = {}
      BY <2>0, <2>1, <1>2 DEF ParentsAreLeast
    <3>2. QED
      BY <2>1, <3>1, <1>1, <1>5, <1>6 DEF ParentsAreLeast
  <2>2. CASE x \notin DOMAIN g.parents
    <3>1. ParentSets(D, x) = {}
      BY <2>0, <2>2, <1>1 DEF ParentsAreLeast
    <3>2. QED
      BY <2>2, <3>1, <1>2, <1>5, <1>6 DEF ParentsAreLeast
  <2>3. CASE x \in DOMAIN g.parents /\ x \in DOMAIN h.parents
    <3> DEFINE S == ParentSets(D, x)
               T == ParentSets(E, x)
               a == g.parents[x]
               b == h.parents[x]
    <3>1. a \in S /\ \A p \in S : ~ParentsLess(p, a)
      BY <2>3, <1>1 DEF ParentsAreLeast
    <3>2. b \in T /\ \A p \in T : ~ParentsLess(p, b)
      BY <2>3, <1>2 DEF ParentsAreLeast
    <3>3. S \in SUBSET SUBSET Nat /\ T \in SUBSET SUBSET Nat
      BY <1>7
    <3>4. P[x] = MinParents(a, b) /\ ParentSets(DE, x) = S \cup T
      BY <2>3, <1>5, <1>6
    <3> HIDE DEF S, T, a, b
    <3>5. QED
      BY <3>1, <3>2, <3>3, <3>4, MinParentsIsLeast
  <2>4. QED
    BY <2>1, <2>2, <2>3
<1>11. ParentsAreLeast(u, DE)
  <2>1. \A x \in Id : x \in DOMAIN P <=> ParentSets(DE, x) # {}
    BY <1>1, <1>2, <1>5, <1>6 DEF ParentsAreLeast
  <2>2. QED
    BY <2>1, <1>4, <1>10 DEF ParentsAreLeast
<1>12. ASSUME NEW x \in Id
       PROVE  OwnReasons(DE, JK, x)
                = OwnReasons(D, J, x) \cup OwnReasons(E, K, x)
                    \cup (IF x \in Clashing(g, h) THEN {Conflicting} ELSE {})
  <2> DEFINE Differ(S) == \E a, b \in S : a # b
  <2>1. Differ(ParentSets(DE, x))
          <=> \/ Differ(ParentSets(D, x)) \/ Differ(ParentSets(E, x))
              \/ x \in Clashing(g, h)
    <3>1. x \in DOMAIN g.parents => g.parents[x] \in ParentSets(D, x)
      BY <1>1 DEF ParentsAreLeast
    <3>2. x \in DOMAIN h.parents => h.parents[x] \in ParentSets(E, x)
      BY <1>2 DEF ParentsAreLeast
    <3>3. ParentSets(D, x) # {} => x \in DOMAIN g.parents
      BY <1>1 DEF ParentsAreLeast
    <3>4. ParentSets(E, x) # {} => x \in DOMAIN h.parents
      BY <1>2 DEF ParentsAreLeast
    <3>5. x \in Clashing(g, h) <=> /\ x \in DOMAIN g.parents
                                   /\ x \in DOMAIN h.parents
                                   /\ g.parents[x] # h.parents[x]
      BY DEF Clashing
    <3>6. QED
      BY <3>1, <3>2, <3>3, <3>4, <3>5, <1>6
  <2>2. OwnReasons(DE, JK, x)
          = {r \in PolicyReason : <<x, r>> \in J \cup K}
              \cup (IF Differ(ParentSets(DE, x)) THEN {Conflicting} ELSE {})
    BY DEF OwnReasons
  <2>3. OwnReasons(D, J, x)
          = {r \in PolicyReason : <<x, r>> \in J}
              \cup (IF Differ(ParentSets(D, x)) THEN {Conflicting} ELSE {})
    BY DEF OwnReasons
  <2>4. OwnReasons(E, K, x)
          = {r \in PolicyReason : <<x, r>> \in K}
              \cup (IF Differ(ParentSets(E, x)) THEN {Conflicting} ELSE {})
    BY DEF OwnReasons
  <2> HIDE DEF Differ
  <2>5. QED
    BY <2>1, <2>2, <2>3, <2>4
<1>13. ASSUME NEW x \in DOMAIN m
       PROVE  /\ x \in Id /\ m[x] \in Reason
              /\ m[x] \in OwnReasons(DE, JK, x)
              /\ \A s \in OwnReasons(DE, JK, x) : m[x] <= s
  <2> DEFINE M == MergedReasons(g, h, x)
             O == OwnReasons(DE, JK, x)
  <2>1. x \in Id
    BY <1>1, <1>2, <1>8 DEF Clashing, GraphType
  <2>2. Reason \subseteq Nat /\ O \subseteq Reason
    BY ReasonAssumption DEF Reason, AncestorRejected, InCycle, Conflicting, OwnReasons
  <2>3. /\ x \in DOMAIN g.roots =>
             /\ g.roots[x] \in OwnReasons(D, J, x)
             /\ \A s \in OwnReasons(D, J, x) : g.roots[x] <= s
        /\ x \notin DOMAIN g.roots => OwnReasons(D, J, x) = {}
    BY <1>1, <2>1 DEF RootsAreLeast
  <2>4. /\ x \in DOMAIN h.roots =>
             /\ h.roots[x] \in OwnReasons(E, K, x)
             /\ \A s \in OwnReasons(E, K, x) : h.roots[x] <= s
        /\ x \notin DOMAIN h.roots => OwnReasons(E, K, x) = {}
    BY <1>2, <2>1 DEF RootsAreLeast
  <2>5. M \subseteq O /\ M # {}
    <3>1. x \in Clashing(g, h) \/ x \in DOMAIN g.roots \/ x \in DOMAIN h.roots
      BY <1>8
    <3>2. O = OwnReasons(D, J, x) \cup OwnReasons(E, K, x)
                \cup (IF x \in Clashing(g, h) THEN {Conflicting} ELSE {})
      BY <2>1, <1>12
    <3> HIDE DEF O
    <3>3. M # {}
      BY <3>1 DEF MergedReasons
    <3>4. M \subseteq O
      BY <3>2, <2>3, <2>4 DEF MergedReasons
    <3>5. QED
      BY <3>3, <3>4
  <2>6. \A s \in O : \E r \in M : r <= s
    <3>1. Conflicting <= Conflicting
      BY DEF Conflicting
    <3>2. QED
      BY <2>1, <2>3, <2>4, <3>1, <1>12 DEF MergedReasons
  <2>7. m[x] = CHOOSE r \in M : \A s \in M : r <= s
    BY <1>8
  <2> HIDE DEF M, O
  <2>8. M \in SUBSET Nat
    BY <2>2, <2>5
  <2>9. \E r \in M : \A s \in M : r <= s
    BY <2>5, <2>8, LeastNatural
  <2>10. m[x] \in M /\ \A s \in M : m[x] <= s
    BY <2>7, <2>9
  <2>11. ASSUME NEW s \in O PROVE m[x] <= s
    <3>1. PICK r \in M : r <= s
      BY <2>6
    <3>2. m[x] <= r /\ m[x] \in Nat /\ r \in Nat /\ s \in Nat
      BY <2>2, <2>8, <2>10
    <3>3. QED
      BY <3>1, <3>2
  <2>12. QED
    BY <2>1, <2>2, <2>5, <2>10, <2>11 DEF O
<1>14. RootsAreLeast(u, DE, JK)
  <2>1. \A x \in Id : x \in DOMAIN m <=> OwnReasons(DE, JK, x) # {}
    BY <1>1, <1>2, <1>8, <1>12 DEF RootsAreLeast
  <2> HIDE DEF JK
  <2>2. QED
    BY <2>1, <1>4, <1>13 DEF RootsAreLeast
<1>15. AllCyclicIds(P) = OnCycle(P)
  BY <1>9, AllCyclicIsOnCycle
<1>16. Sound(u, DE, JK)
  <2> HIDE DEF JK
  <2>1. DOMAIN m \subseteq Id /\ m \in [DOMAIN m -> Reason]
    BY <1>13, <1>18
  <2>2. QED
    BY <2>1, <1>3, <1>9, <1>11, <1>14, <1>15, MakeGraphSound
<1>17. QED
  BY <1>16 DEF u, DE

-----------------------------------------------------------------------------
(* The specification.                                                      *)

GraphInv == GraphTypeOK /\ OrderIndependent

(* Every step of a replica keeps every graph sound. *)
LEMMA StepKeepsInv == GraphInv /\ [GraphNext]_graphVars => GraphInv'
<1> SUFFICES ASSUME GraphInv, [GraphNext]_graphVars PROVE GraphInv'
  OBVIOUS
<1>0. /\ DOMAIN graph = Replica
      /\ delivered \in [Replica -> SUBSET (Id \X SUBSET Id)]
      /\ rejections \in [Replica -> SUBSET (Id \X PolicyReason)]
      /\ \A r \in Replica : Sound(graph[r], delivered[r], rejections[r])
      /\ \A r \in Replica : Heard(delivered[r], rejections[r])
  BY DEF GraphInv, GraphTypeOK, OrderIndependent, Sound, Heard
<1>1. ASSUME NEW r \in Replica, NEW id \in Id, NEW ps \in SUBSET Id, Insert(r, id, ps)
      PROVE  GraphInv'
  <2>1. Sound(InsertEvent(graph[r], id, ps), delivered[r] \cup {<<id, ps>>}, rejections[r])
    BY <1>0, InsertSound
  <2>2. QED
    BY <1>0, <1>1, <2>1 DEF Insert, GraphInv, GraphTypeOK, OrderIndependent, Sound
<1>2. ASSUME NEW r \in Replica, NEW id \in Id, NEW reason \in PolicyReason,
             Quarantine(r, id, reason)
      PROVE  GraphInv'
  <2>1. Sound(QuarantineEvent(graph[r], id, reason), delivered[r],
              rejections[r] \cup {<<id, reason>>})
    BY <1>0, QuarantineSound
  <2>2. QED
    BY <1>0, <1>2, <2>1 DEF Quarantine, GraphInv, GraphTypeOK, OrderIndependent, Sound
<1>3. ASSUME NEW r \in Replica, NEW s \in Replica, Union(r, s)
      PROVE  GraphInv'
  <2>1. Sound(UnionGraph(graph[r], graph[s]), delivered[r] \cup delivered[s],
              rejections[r] \cup rejections[s])
    BY <1>0, UnionSound
  <2>2. QED
    BY <1>0, <1>3, <2>1 DEF Union, GraphInv, GraphTypeOK, OrderIndependent, Sound
<1>4. CASE UNCHANGED graphVars
  BY <1>4 DEF graphVars, GraphInv, GraphTypeOK, OrderIndependent
<1>5. QED
  BY <1>1, <1>2, <1>3, <1>4 DEF GraphNext

(***************************************************************************)
(* GraphTypeOK and order independence hold in every reachable state, for every  *)
(* set of ids, reasons and replicas: insert, quarantine and union maintain *)
(* exactly what the deliveries determine, whatever their order.            *)
(***************************************************************************)
THEOREM AlwaysOrderIndependent == GraphSpec => [](GraphTypeOK /\ OrderIndependent)
<1>1. GraphInit => GraphInv
  BY EmptySound DEF GraphInit, GraphInv, GraphTypeOK, OrderIndependent, Sound
<1>2. QED
  BY <1>1, StepKeepsInv, PTL DEF GraphSpec, GraphInv

(* Least values are unique, so two sound graphs of one history are equal. *)
LEMMA SoundGraphsAgree ==
  ASSUME NEW g, NEW h, NEW D, NEW J, Heard(D, J),
         Sound(g, D, J), Sound(h, D, J)
  PROVE  g = h
<1>1. DOMAIN g.parents = DOMAIN h.parents /\ DOMAIN g.roots = DOMAIN h.roots
  BY DEF Sound, Reflects, GraphType, ParentsAreLeast, RootsAreLeast
<1>2. ASSUME NEW x \in DOMAIN g.parents PROVE g.parents[x] = h.parents[x]
  <2>1. /\ g.parents[x] \in ParentSets(D, x) /\ h.parents[x] \in ParentSets(D, x)
        /\ ~ParentsLess(g.parents[x], h.parents[x])
        /\ ~ParentsLess(h.parents[x], g.parents[x])
    BY <1>1 DEF Sound, Reflects, ParentsAreLeast
  <2>2. \A p \in ParentSets(D, x) : p \in SUBSET Nat
    BY IdAssumption DEF ParentSets
  <2>3. QED
    BY <2>1, <2>2, ParentsLessIsTotal
<1>3. ASSUME NEW x \in DOMAIN g.roots PROVE g.roots[x] = h.roots[x]
  <2>1. /\ g.roots[x] \in OwnReasons(D, J, x) /\ h.roots[x] \in OwnReasons(D, J, x)
        /\ g.roots[x] <= h.roots[x] /\ h.roots[x] <= g.roots[x]
    BY <1>1 DEF Sound, Reflects, RootsAreLeast
  <2>2. \A s \in OwnReasons(D, J, x) : s \in Nat
    BY ReasonAssumption DEF OwnReasons, Conflicting
  <2>3. g.roots[x] \in Nat /\ h.roots[x] \in Nat
    BY <2>1, <2>2
  <2>4. QED
    BY <2>1, <2>3
<1>4. g.parents = h.parents /\ g.roots = h.roots
  BY <1>1, <1>2, <1>3 DEF Sound, GraphType
<1>5. g.cyclic = h.cyclic /\ g.quarantined = h.quarantined
  BY <1>4 DEF Sound, Reflects, CyclicIsExact
<1>6. QED
  BY <1>4, <1>5 DEF Sound, GraphType

(***************************************************************************)
(* Replicas that were told the same things hold the same graph, whatever   *)
(* order insert, quarantine and union ran in.                              *)
(***************************************************************************)
THEOREM AlwaysConverged == GraphSpec => []Converged
<1>1. GraphTypeOK /\ OrderIndependent => Converged
  <2> SUFFICES ASSUME GraphTypeOK, OrderIndependent, NEW r \in Replica, NEW s \in Replica,
                      delivered[r] = delivered[s], rejections[r] = rejections[s]
               PROVE  graph[r] = graph[s]
    BY DEF Converged
  <2>1. /\ Sound(graph[r], delivered[r], rejections[r])
        /\ Sound(graph[s], delivered[r], rejections[r])
        /\ Heard(delivered[r], rejections[r])
    BY DEF GraphTypeOK, OrderIndependent, Sound, Heard
  <2>2. QED
    BY <2>1, SoundGraphsAgree
<1>2. QED
  BY <1>1, AlwaysOrderIndependent, PTL

-----------------------------------------------------------------------------
(* Rejections are final.                                                   *)

Rejected(P, R) ==
  R \cup OnCycle(P) \cup {d \in DOMAIN P : Reach(P, d) \cap (R \cup OnCycle(P)) # {}}

(* A sound graph rejects its roots, its cycles and what descends from them. *)
LEMMA SoundQuarantine ==
  ASSUME NEW g, NEW D, NEW J, Sound(g, D, J)
  PROVE  Quarantined(g) = Rejected(g.parents, DOMAIN g.roots)
<1>1. g.cyclic = OnCycle(g.parents)
  BY DEF Sound, Reflects, CyclicIsExact, OnCycle
<1>2. g.quarantined = RecomputeQuarantine(g.parents, g.roots, g.cyclic)
  BY DEF Sound, Reflects
<1>3. DOMAIN RecomputeQuarantine(g.parents, g.roots, g.cyclic)
        = DOMAIN g.roots \cup g.cyclic
            \cup {d \in DOMAIN g.parents :
                    Reach(g.parents, d) \cap (DOMAIN g.roots \cup g.cyclic) # {}}
  BY DEF RecomputeQuarantine
<1>4. QED
  BY <1>1, <1>2, <1>3 DEF Quarantined, Rejected

(***************************************************************************)
(* An event escapes rejection only if no ancestor of it is a root, and     *)
(* every id whose parents changed is a root: so the ancestors of an event  *)
(* that is not rejected afterwards were its ancestors before.              *)
(***************************************************************************)
LEMMA RejectionGrows ==
  ASSUME NEW P, NEW Q, WellFormed(P), WellFormed(Q), DOMAIN P \subseteq DOMAIN Q,
         NEW R, NEW S, R \subseteq S,
         \A x \in DOMAIN P : Q[x] = P[x] \/ x \in S
  PROVE  Rejected(P, R) \subseteq Rejected(Q, S)
<1> SUFFICES ASSUME NEW x \in Rejected(P, R), x \notin Rejected(Q, S)
             PROVE  FALSE
  OBVIOUS
<1> DEFINE C == Reach(Q, x)
<1>1. \A z : z \notin S => ParentsOf(P, z) \subseteq ParentsOf(Q, z)
  BY DEF ParentsOf
<1>2. x \notin S /\ x \notin OnCycle(Q)
  BY DEF Rejected
<1>3. C \cap (S \cup OnCycle(Q)) = {}
  <2>1. CASE x \in DOMAIN Q
    BY <2>1 DEF Rejected
  <2>2. CASE x \notin DOMAIN Q
    BY <2>2, ReachNeedsParents
  <2>3. QED
    BY <2>1, <2>2
<1>4. C \subseteq Id /\ ParentsOf(Q, x) \subseteq C /\ Closed(Q, C)
  BY ReachIsClosed
<1>5. ASSUME NEW y, y \notin S, Reach(Q, y) \cap S = {}
      PROVE  Reach(P, y) \subseteq Reach(Q, y)
  <2>1. ParentsOf(P, y) \subseteq Reach(Q, y) /\ Closed(P, Reach(Q, y))
    BY <1>1, <1>5, ReachIsClosed DEF Closed
  <2>2. QED
    BY <2>1, ReachIsClosed, ReachIsLeast
<1>6. Reach(P, x) \subseteq C
  BY <1>2, <1>3, <1>5
<1>7. ASSUME NEW y \in C \cup {x}, y \in Reach(P, y)
      PROVE  FALSE
  <2>1. y \notin S /\ y \notin OnCycle(Q)
    BY <1>2, <1>3
  <2>2. Reach(Q, y) \subseteq C
    BY ReachIsTransitive
  <2>3. y \in Reach(Q, y)
    BY <2>1, <2>2, <1>3, <1>5, <1>7
  <2>4. QED
    BY <2>1, <2>3, ReachNeedsParents DEF OnCycle
<1>8. QED
  BY <1>2, <1>3, <1>6, <1>7 DEF Rejected, OnCycle

(* What every operation does to parents and roots. *)
Extends(g, h) ==
  /\ DOMAIN g.parents \subseteq DOMAIN h.parents
  /\ DOMAIN g.roots \subseteq DOMAIN h.roots
  /\ \A x \in DOMAIN g.parents : h.parents[x] = g.parents[x] \/ x \in DOMAIN h.roots

(* insert() keeps every root, and the parents of ids it does not reject. *)
LEMMA InsertChanges ==
  ASSUME NEW g, GraphType(g), NEW id \in Id, NEW ps \in SUBSET Id
  PROVE  Extends(g, InsertEvent(g, id, ps))
<1>1. CASE id \in DOMAIN g.parents /\ g.parents[id] = ps
  BY <1>1 DEF InsertEvent, Extends
<1>2. CASE id \in DOMAIN g.parents /\ g.parents[id] # ps
  BY <1>2 DEF InsertEvent, MakeGraph, MergeQuarantineReason, Extends
<1>3. CASE id \notin DOMAIN g.parents
  BY <1>3 DEF InsertEvent, MakeGraph, Extends
<1>4. QED
  BY <1>1, <1>2, <1>3

(* quarantine() leaves the parents alone and keeps every root. *)
LEMMA QuarantineChanges ==
  ASSUME NEW g, NEW id, NEW reason
  PROVE  Extends(g, QuarantineEvent(g, id, reason))
BY DEF QuarantineEvent, MakeGraph, MergeQuarantineReason, Extends

(* union() keeps every root, and the parents of every id without a conflict. *)
LEMMA UnionChanges ==
  ASSUME NEW g, NEW h
  PROVE  Extends(g, UnionGraph(g, h))
<1> DEFINE u == UnionGraph(g, h)
<1>1. u.parents = MergedParents(g, h) /\ u.roots = MergedRoots(g, h)
  BY DEF UnionGraph, MakeGraph
<1>2. DOMAIN u.roots = Clashing(g, h) \cup DOMAIN g.roots \cup DOMAIN h.roots
  BY <1>1 DEF MergedRoots
<1>3. \A x \in DOMAIN g.parents :
        MergedParents(g, h)[x] = g.parents[x] \/ x \in Clashing(g, h)
  BY DEF MergedParents, Clashing, MinParents
<1>4. DOMAIN u.parents = DOMAIN g.parents \cup DOMAIN h.parents
  BY <1>1 DEF MergedParents
<1> HIDE DEF u
<1>5. QED
  BY <1>1, <1>2, <1>3, <1>4 DEF u, Extends

(***************************************************************************)
(* No insertion, rejection or merge ever readmits a rejected event.        *)
(***************************************************************************)
THEOREM RejectionIsFinal == GraphSpec => QuarantineIsFinal
<1>1. ASSUME GraphInv, GraphInv', [GraphNext]_graphVars, NEW r \in Replica
      PROVE  Quarantined(graph[r]) \subseteq Quarantined(graph'[r])
  <2>1. /\ Sound(graph[r], delivered[r], rejections[r])
        /\ Sound(graph'[r], delivered'[r], rejections'[r])
        /\ GraphType(graph[r]) /\ GraphType(graph'[r]) /\ DOMAIN graph = Replica
    BY <1>1 DEF GraphInv, GraphTypeOK, OrderIndependent, Sound
  <2>2. Extends(graph[r], graph'[r])
    <3>1. CASE graph'[r] = graph[r]
      BY <3>1 DEF Extends
    <3>2. ASSUME NEW id \in Id, NEW ps \in SUBSET Id,
                 graph'[r] = InsertEvent(graph[r], id, ps)
          PROVE  Extends(graph[r], graph'[r])
      BY <3>2, <2>1, InsertChanges
    <3>3. ASSUME NEW id, NEW reason, graph'[r] = QuarantineEvent(graph[r], id, reason)
          PROVE  Extends(graph[r], graph'[r])
      BY <3>3, QuarantineChanges
    <3>4. ASSUME NEW s, graph'[r] = UnionGraph(graph[r], graph[s])
          PROVE  Extends(graph[r], graph'[r])
      BY <3>4, UnionChanges
    <3>5. \/ graph'[r] = graph[r]
          \/ \E id \in Id, ps \in SUBSET Id : graph'[r] = InsertEvent(graph[r], id, ps)
          \/ \E id, reason : graph'[r] = QuarantineEvent(graph[r], id, reason)
          \/ \E s : graph'[r] = UnionGraph(graph[r], graph[s])
      <4>1. ASSUME NEW q \in Replica, NEW id \in Id, NEW ps \in SUBSET Id, Insert(q, id, ps)
            PROVE  graph'[r] \in {graph[r], InsertEvent(graph[r], id, ps)}
        BY <4>1, <2>1 DEF Insert
      <4>2. ASSUME NEW q \in Replica, NEW id \in Id, NEW reason \in PolicyReason,
                   Quarantine(q, id, reason)
            PROVE  graph'[r] \in {graph[r], QuarantineEvent(graph[r], id, reason)}
        BY <4>2, <2>1 DEF Quarantine
      <4>3. ASSUME NEW q \in Replica, NEW s \in Replica, Union(q, s)
            PROVE  graph'[r] \in {graph[r], UnionGraph(graph[r], graph[s])}
        BY <4>3, <2>1 DEF Union
      <4>4. QED
        BY <1>1, <4>1, <4>2, <4>3 DEF GraphNext, graphVars
    <3>6. QED
      BY <3>1, <3>2, <3>3, <3>4, <3>5
  <2>3. Rejected(graph[r].parents, DOMAIN graph[r].roots)
          \subseteq Rejected(graph'[r].parents, DOMAIN graph'[r].roots)
    BY <2>1, <2>2, RejectionGrows, GraphTypeWellFormed DEF Extends
  <2>4. QED
    BY <2>1, <2>3, SoundQuarantine
<1>2. GraphInv /\ GraphInv' /\ [GraphNext]_graphVars
        => [\A r \in Replica :
              Quarantined(graph[r]) \subseteq Quarantined(graph[r])']_graphVars
  BY <1>1 DEF Quarantined
<1>3. GraphSpec => []GraphInv
  BY AlwaysOrderIndependent DEF GraphInv
<1>4. QED
  BY <1>2, <1>3, PTL DEF GraphSpec, QuarantineIsFinal

-----------------------------------------------------------------------------
(* Heads.                                                                  *)

(* What precedes an event that is not rejected is not rejected either, and *)
(* does not come after it.                                                 *)
LEMMA AncestorsAreLive ==
  ASSUME NEW g, NEW D, NEW J, Sound(g, D, J), NEW x \in Live(g)
  PROVE  /\ Reach(g.parents, x) \cap DOMAIN g.parents \subseteq Live(g)
         /\ x \notin Reach(g.parents, x)
<1> DEFINE P == g.parents
           O == DOMAIN g.roots \cup OnCycle(P)
<1>1. WellFormed(P)
  BY GraphTypeWellFormed DEF Sound
<1>2. Quarantined(g) = O \cup {d \in DOMAIN P : Reach(P, d) \cap O # {}}
  BY SoundQuarantine DEF Rejected
<1>3. x \in DOMAIN P /\ x \notin O /\ Reach(P, x) \cap O = {}
  BY <1>2 DEF Live
<1>4. ASSUME NEW c \in Reach(P, x), c \in DOMAIN P
      PROVE  c \in Live(g)
  <2>1. Reach(P, c) \subseteq Reach(P, x)
    BY <1>1, ReachIsTransitive
  <2>2. QED
    BY <1>2, <1>3, <1>4, <2>1 DEF Live
<1>5. QED
  BY <1>3, <1>4 DEF OnCycle

(* No head precedes another: the event that names the head as its parent   *)
(* would be one of the other head's ancestors, which are not rejected.     *)
LEMMA HeadsAreConcurrent ==
  ASSUME NEW g, NEW D, NEW J, Sound(g, D, J), NEW h \in Heads(g), NEW k \in Heads(g)
  PROVE  h \notin Reach(g.parents, k)
<1> SUFFICES ASSUME h \in Reach(g.parents, k) PROVE FALSE
  OBVIOUS
<1> DEFINE P == g.parents
<1>1. WellFormed(P) /\ k \in Live(g)
  BY GraphTypeWellFormed DEF Sound, Heads
<1>2. PICK c \in Reach(P, k) \cup {k} : h \in ParentsOf(P, c)
  BY <1>1, ReachHasLastStep
<1>3. c \in DOMAIN P /\ h \in P[c]
  BY <1>2 DEF ParentsOf
<1>4. c \in Live(g)
  BY <1>1, <1>2, <1>3, AncestorsAreLive
<1>5. QED
  BY <1>3, <1>4 DEF Heads

(* Of x and the events after it, one that leaves the fewest ids outside of *)
(* its past is a head.                                                     *)
LEMMA SomeHeadIsAbove ==
  ASSUME NEW g, NEW D, NEW J, Sound(g, D, J), IsFiniteSet(DOMAIN g.parents),
         NEW x \in Live(g)
  PROVE  \E h \in Heads(g) : IsAncestor(g.parents, x, h)
<1> DEFINE P == g.parents
           T == {y \in Live(g) : IsAncestor(P, x, y)}
           Outside(y) == DOMAIN P \ Reach(P, y)
           M == {Outside(y) : y \in T}
<1>1. WellFormed(P)
  BY GraphTypeWellFormed DEF Sound
<1>2. x \in T
  BY DEF IsAncestor
<1>3. M \in SUBSET SUBSET DOMAIN P /\ M # {}
  BY <1>2
<1>4. PICK m \in M : \A k \in M : k \subseteq m => k = m
  <2> HIDE DEF M
  <2>1. QED
    BY <1>3, SmallestSubset
<1>5. PICK h \in T : m = Outside(h)
  OBVIOUS
<1>6. ASSUME NEW c \in Live(g), h \in P[c]
      PROVE  FALSE
  <2>1. c \in DOMAIN P /\ h \in Reach(P, c)
    BY <1>1, <1>6, ReachIsClosed DEF Live, ParentsOf
  <2>2. Reach(P, h) \subseteq Reach(P, c)
    BY <1>1, <2>1, ReachIsTransitive
  <2>3. c \in T
    BY <1>5, <2>1, <2>2 DEF IsAncestor
  <2>4. Outside(c) \in M /\ Outside(c) \subseteq m
    BY <1>5, <2>2, <2>3
  <2>5. Outside(c) = Outside(h)
    BY <1>4, <1>5, <2>4
  <2>6. h \in DOMAIN P /\ h \notin Reach(P, h)
    BY <1>5, AncestorsAreLive DEF Live
  <2>7. QED
    BY <2>1, <2>5, <2>6
<1>7. QED
  BY <1>5, <1>6 DEF Heads

Finite == \A r \in Replica : IsFiniteSet(DOMAIN graph[r].parents)

(* Each operation adds one id, or the ids of another graph. *)
LEMMA GraphsStayFinite == GraphSpec => []Finite
<1>1. GraphInit => Finite
  BY FS_EmptySet DEF GraphInit, Finite, EmptyGraph
<1>2. GraphTypeOK /\ Finite /\ [GraphNext]_graphVars => Finite'
  <2> SUFFICES ASSUME GraphTypeOK, Finite, [GraphNext]_graphVars PROVE Finite'
    OBVIOUS
  <2>1. ASSUME NEW r \in Replica, NEW id \in Id, NEW ps \in SUBSET Id, Insert(r, id, ps)
        PROVE  Finite'
    <3>1. DOMAIN InsertEvent(graph[r], id, ps).parents
            \in {DOMAIN graph[r].parents, DOMAIN graph[r].parents \cup {id}}
      BY DEF InsertEvent, MakeGraph
    <3>2. IsFiniteSet(DOMAIN InsertEvent(graph[r], id, ps).parents)
      BY <3>1, FS_AddElement DEF Finite
    <3>3. QED
      BY <2>1, <3>2 DEF Insert, Finite, GraphTypeOK
  <2>2. ASSUME NEW r \in Replica, NEW id \in Id, NEW reason \in PolicyReason,
               Quarantine(r, id, reason)
        PROVE  Finite'
    <3>1. DOMAIN QuarantineEvent(graph[r], id, reason).parents = DOMAIN graph[r].parents
      BY DEF QuarantineEvent, MakeGraph
    <3>2. QED
      BY <2>2, <3>1 DEF Quarantine, Finite, GraphTypeOK
  <2>3. ASSUME NEW r \in Replica, NEW s \in Replica, Union(r, s)
        PROVE  Finite'
    <3>1. DOMAIN UnionGraph(graph[r], graph[s]).parents
            = DOMAIN graph[r].parents \cup DOMAIN graph[s].parents
      BY DEF UnionGraph, MakeGraph, MergedParents
    <3>2. IsFiniteSet(DOMAIN UnionGraph(graph[r], graph[s]).parents)
      BY <3>1, FS_Union DEF Finite
    <3>3. QED
      BY <2>3, <3>2 DEF Union, Finite, GraphTypeOK
  <2>4. CASE UNCHANGED graphVars
    BY <2>4 DEF graphVars, Finite
  <2>5. QED
    BY <2>1, <2>2, <2>3, <2>4 DEF GraphNext
<1>3. QED
  BY <1>1, <1>2, AlwaysOrderIndependent, PTL DEF GraphSpec

(***************************************************************************)
(* The heads are the frontier of every graph that insert, quarantine and   *)
(* union can build: pairwise concurrent, and above everything that is not  *)
(* rejected (heads()).                                                     *)
(***************************************************************************)
THEOREM HeadsAreTheFrontier == GraphSpec => []HeadsAreFrontier
<1>1. GraphInv /\ Finite => HeadsAreFrontier
  <2> SUFFICES ASSUME GraphInv, Finite, NEW r \in Replica
               PROVE  /\ \A h, k \in Heads(graph[r]) :
                           h # k => AreConcurrent(graph[r].parents, h, k)
                      /\ \A x \in Live(graph[r]) : \E h \in Heads(graph[r]) :
                           IsAncestor(graph[r].parents, x, h)
    BY DEF HeadsAreFrontier
  <2>1. Sound(graph[r], delivered[r], rejections[r]) /\ IsFiniteSet(DOMAIN graph[r].parents)
    BY DEF GraphInv, GraphTypeOK, OrderIndependent, Sound, Finite
  <2>2. \A h \in Heads(graph[r]) : h \in DOMAIN graph[r].parents
    BY DEF Heads, Live
  <2>3. \A h, k \in Heads(graph[r]) : h \notin Reach(graph[r].parents, k)
    BY <2>1, HeadsAreConcurrent
  <2>4. \A x \in Live(graph[r]) : \E h \in Heads(graph[r]) :
          IsAncestor(graph[r].parents, x, h)
    BY <2>1, SomeHeadIsAbove
  <2>5. QED
    BY <2>2, <2>3, <2>4 DEF AreConcurrent, IsAncestor
<1>2. QED
  BY <1>1, AlwaysOrderIndependent, GraphsStayFinite, PTL DEF GraphInv

-----------------------------------------------------------------------------
(* Sorting.                                                                *)

(* The state of the loop after n batches, for n up to k. *)
Loop(g, k, f) ==
  f = [n \in 0..k |-> IF n = 0 THEN {} ELSE f[n - 1] \cup ReadyAfter(g, f[n - 1])]

(* The loop can be run for any number of batches: from a run of k - 1, the *)
(* next batch makes one of k.                                              *)
LEMMA LoopRuns ==
  ASSUME NEW g, NEW k \in Nat
  PROVE  \E f : Loop(g, k, f)
<1> DEFINE T == {n \in Nat : ~\E f : Loop(g, n, f)}
<1> SUFFICES ASSUME T # {} PROVE FALSE
  OBVIOUS
<1>1. PICK m \in T : \A n \in T : m <= n
  <2>1. T \in SUBSET Nat /\ T # {}
    OBVIOUS
  <2> HIDE DEF T
  <2>2. QED
    BY <2>1, LeastNatural
<1>2. CASE m = 0
  <2>1. Loop(g, 0, [n \in 0..0 |-> {}])
    BY DEF Loop
  <2>2. QED
    BY <1>1, <1>2, <2>1
<1>3. CASE m # 0
  <2>1. m - 1 \in Nat /\ m - 1 \notin T
    BY <1>1, <1>3
  <2>2. PICK f : Loop(g, m - 1, f)
    BY <2>1
  <2> DEFINE h == [n \in 0..m |-> IF n = m THEN f[m - 1] \cup ReadyAfter(g, f[m - 1])
                                  ELSE f[n]]
  <2>3. ASSUME NEW n \in 0..m
        PROVE  h[n] = IF n = 0 THEN {} ELSE h[n - 1] \cup ReadyAfter(g, h[n - 1])
    <3>1. CASE n = m
      <4>1. h[n - 1] = f[m - 1]
        BY <1>3, <3>1, <2>1
      <4>2. QED
        BY <1>3, <3>1, <4>1
    <3>2. CASE n # m /\ n = 0
      <4>1. f[0] = {}
        BY <2>1, <2>2 DEF Loop
      <4>2. QED
        BY <3>2, <4>1
    <3>3. CASE n # m /\ n # 0
      <4>1. n \in 0..(m - 1) /\ n - 1 \in 0..m /\ n - 1 # m
        BY <3>3
      <4>2. f[n] = f[n - 1] \cup ReadyAfter(g, f[n - 1])
        BY <2>2, <3>3, <4>1 DEF Loop
      <4>3. QED
        BY <3>3, <4>1, <4>2
    <3>4. QED
      BY <3>1, <3>2, <3>3
  <2>4. Loop(g, m, h)
    BY <2>3 DEF Loop
  <2>5. QED
    BY <1>1, <2>4
<1>4. QED
  BY <1>2, <1>3

(* So Batches is that run, for as many batches as there are events. *)
LEMMA BatchesIsLoop ==
  ASSUME NEW g, Cardinality(Applicable(g)) \in Nat
  PROVE  Loop(g, Cardinality(Applicable(g)), Batches(g))
<1>1. Batches(g) = CHOOSE f : Loop(g, Cardinality(Applicable(g)), f)
  BY DEF Batches, Loop
<1>2. QED
  BY <1>1, LoopRuns

(* What precedes an applicable event is applicable, and not after it.      *)
Sortable(g) ==
  /\ WellFormed(g.parents)
  /\ \A x \in Applicable(g) :
       /\ Reach(g.parents, x) \subseteq Applicable(g)
       /\ x \notin Reach(g.parents, x)

(* Every graph that replicas can build is sortable. *)
LEMMA SoundIsSortable ==
  ASSUME NEW g, NEW D, NEW J, Sound(g, D, J)
  PROVE  Sortable(g)
<1> DEFINE P == g.parents
<1>1. WellFormed(P)
  BY GraphTypeWellFormed DEF Sound
<1>2. ASSUME NEW x \in Applicable(g)
      PROVE  Reach(P, x) \subseteq Applicable(g) /\ x \notin Reach(P, x)
  <2>1. x \in Live(g) /\ Reach(P, x) \subseteq DOMAIN P
    BY DEF Applicable, AncestorsPresent
  <2>2. Reach(P, x) \subseteq Live(g) /\ x \notin Reach(P, x)
    BY <2>1, AncestorsAreLive
  <2>3. \A c \in Reach(P, x) : Reach(P, c) \subseteq DOMAIN P
    BY <1>1, <2>1, ReachIsTransitive
  <2>4. QED
    BY <2>1, <2>2, <2>3 DEF Applicable, AncestorsPresent
<1>3. QED
  BY <1>1, <1>2 DEF Sortable

(* Batches place applicable events, each after all of its ancestors.       *)
Placed(g, B) == B \subseteq Applicable(g) /\ \A x \in B : Reach(g.parents, x) \subseteq B

(* The next batch of a sort follows all its parents, as those before it *)
(* do.                                                                  *)
LEMMA NextBatchIsPlaced ==
  ASSUME NEW g, Sortable(g), NEW B, Placed(g, B)
  PROVE  Placed(g, B \cup ReadyAfter(g, B))
<1> DEFINE P == g.parents
<1>1. WellFormed(P)
  BY DEF Sortable
<1>2. ASSUME NEW x \in ReadyAfter(g, B)
      PROVE  x \in Applicable(g) /\ Reach(P, x) \subseteq B
  <2>1. x \in Applicable(g) /\ ParentsOf(P, x) = P[x]
    BY DEF ReadyAfter, Applicable, Live, ParentsOf
  <2>2. P[x] \subseteq Applicable(g)
    BY <1>1, <2>1, ReachIsClosed DEF Sortable
  <2>3. P[x] \subseteq B
    BY <2>2 DEF ReadyAfter
  <2>4. Closed(P, B)
    BY <1>1, ReachIsClosed DEF Placed, Closed
  <2>5. QED
    BY <2>1, <2>3, <2>4, ReachIsLeast
<1>3. QED
  BY <1>2 DEF Placed

(* While an applicable event is left, one whose past is smallest is ready. *)
LEMMA SomeEventIsReady ==
  ASSUME NEW g, Sortable(g), IsFiniteSet(Applicable(g)),
         NEW B, Placed(g, B), B # Applicable(g)
  PROVE  ReadyAfter(g, B) # {}
<1> DEFINE P == g.parents
           Rest == Applicable(g) \ B
           M == {Reach(P, y) : y \in Rest}
<1>1. WellFormed(P)
  BY DEF Sortable
<1>2. Rest # {}
  BY DEF Placed
<1>3. M \in SUBSET SUBSET Applicable(g) /\ M # {}
  BY <1>2 DEF Sortable
<1>4. PICK m \in M : \A k \in M : k \subseteq m => k = m
  <2> HIDE DEF M
  <2>1. QED
    BY <1>3, SmallestSubset
<1>5. PICK x \in Rest : m = Reach(P, x)
  OBVIOUS
<1>6. ASSUME NEW p \in P[x], p \in Rest
      PROVE  FALSE
  <2>1. p \in Reach(P, x)
    BY <1>1, <1>5, ReachIsClosed DEF Applicable, Live, ParentsOf
  <2>2. Reach(P, p) \subseteq Reach(P, x)
    BY <1>1, <2>1, ReachIsTransitive
  <2>3. Reach(P, p) = Reach(P, x)
    BY <1>4, <1>5, <1>6, <2>2
  <2>4. QED
    BY <1>6, <2>1, <2>3 DEF Sortable
<1>7. x \in ReadyAfter(g, B)
  BY <1>5, <1>6 DEF ReadyAfter
<1>8. QED
  BY <1>7

(* So the n-th batch has placed at least n events, unless it has placed    *)
(* all of them.                                                            *)
LEMMA BatchesMakeProgress ==
  ASSUME NEW g, Sortable(g), IsFiniteSet(Applicable(g)),
         NEW n \in 0..Cardinality(Applicable(g))
  PROVE  /\ Placed(g, Batches(g)[n])
         /\ Batches(g)[n] = Applicable(g) \/ n <= Cardinality(Batches(g)[n])
<1> DEFINE A == Applicable(g)
           N == Cardinality(A)
           b == Batches(g)
           Good(k) == Placed(g, b[k]) /\ (b[k] = A \/ k <= Cardinality(b[k]))
           T == {k \in 0..N : ~Good(k)}
<1> SUFFICES ASSUME T # {} PROVE FALSE
  OBVIOUS
<1>1. N \in Nat
  BY FS_CardinalityType
<1>2. \A k \in 0..N : b[k] = IF k = 0 THEN {} ELSE b[k - 1] \cup ReadyAfter(g, b[k - 1])
  BY <1>1, BatchesIsLoop DEF Loop
<1>3. PICK m \in T : \A k \in T : m <= k
  <2>1. T \in SUBSET Nat /\ T # {}
    BY <1>1
  <2> HIDE DEF T
  <2>2. QED
    BY <2>1, LeastNatural
<1>4. CASE m = 0
  <2>1. 0 \in 0..N
    BY <1>3, <1>4
  <2>2. b[0] = {}
    BY <1>2, <2>1
  <2>3. Placed(g, {}) /\ Cardinality({}) = 0
    BY FS_EmptySet DEF Placed
  <2>4. QED
    BY <1>3, <1>4, <2>2, <2>3
<1>5. CASE m # 0
  <2> DEFINE B == b[m - 1]
             R == ReadyAfter(g, B)
  <2>1. m - 1 \in 0..N /\ m \in 0..N /\ m \in Nat
    BY <1>1, <1>3, <1>5
  <2>2. Good(m - 1)
    BY <1>3, <2>1
  <2>3. b[m] = B \cup R
    BY <1>2, <1>5, <2>1
  <2>4. Placed(g, B \cup R)
    BY <2>2, NextBatchIsPlaced
  <2>5. B \cup R = A \/ m <= Cardinality(B \cup R)
    <3>1. CASE B = A
      BY <2>4, <3>1 DEF Placed
    <3>2. CASE B # A
      <4>1. PICK x : x \in R
        BY <2>2, <3>2, SomeEventIsReady
      <4>2. x \notin B
        BY <4>1 DEF ReadyAfter
      <4>3. IsFiniteSet(B) /\ IsFiniteSet(B \cup R)
        BY <2>2, <2>4, FS_Subset DEF Placed
      <4>4. Cardinality(B) \in Nat /\ Cardinality(B \cup R) \in Nat
        BY <4>3, FS_CardinalityType
      <4>5. Cardinality(B \cup {x}) = Cardinality(B) + 1
        BY <4>2, <4>3, FS_AddElement
      <4>6. Cardinality(B \cup {x}) <= Cardinality(B \cup R)
        <5>1. B \cup {x} \in SUBSET (B \cup R)
          BY <4>1
        <5>2. QED
          BY <4>3, <5>1, FS_Subset
      <4>7. m - 1 <= Cardinality(B)
        BY <2>2, <3>2
      <4>8. QED
        BY <2>1, <4>4, <4>5, <4>6, <4>7
    <3>3. QED
      BY <3>1, <3>2
  <2>6. QED
    BY <1>3, <2>3, <2>4, <2>5
<1>6. QED
  BY <1>4, <1>5

(***************************************************************************)
(* topological_order() never reports a cycle, in any graph that insert,    *)
(* quarantine and union can build: it places every applicable event, after *)
(* all of the event's ancestors.                                           *)
(***************************************************************************)
THEOREM SortingNeverFails == GraphSpec => []SortNeverFails
<1>1. GraphInv /\ Finite => SortNeverFails
  <2> SUFFICES ASSUME GraphInv, Finite, NEW r \in Replica
               PROVE  LET g == graph[r]
                          placed == Batches(g)
                      IN  /\ placed[Cardinality(Applicable(g))] = Applicable(g)
                          /\ \A n \in DOMAIN placed, x \in Id :
                               x \in placed[n] => Reach(g.parents, x) \subseteq placed[n]
    BY DEF SortNeverFails
  <2> DEFINE g == graph[r]
             N == Cardinality(Applicable(g))
  <2>1. Sound(g, delivered[r], rejections[r]) /\ IsFiniteSet(DOMAIN g.parents)
    BY DEF GraphInv, GraphTypeOK, OrderIndependent, Sound, Finite
  <2>2. IsFiniteSet(Applicable(g)) /\ N \in Nat
    <3>1. Applicable(g) \in SUBSET DOMAIN g.parents
      BY DEF Applicable, Live
    <3>2. QED
      BY <2>1, <3>1, FS_Subset, FS_CardinalityType
  <2>3. DOMAIN Batches(g) = 0..N
    BY <2>2, BatchesIsLoop DEF Loop
  <2>4. \A n \in 0..N : /\ Placed(g, Batches(g)[n])
                        /\ Batches(g)[n] = Applicable(g) \/ n <= Cardinality(Batches(g)[n])
    BY <2>1, <2>2, SoundIsSortable, BatchesMakeProgress
  <2>5. Batches(g)[N] = Applicable(g)
    <3>1. Batches(g)[N] \in SUBSET Applicable(g)
      BY <2>2, <2>4 DEF Placed
    <3>2. Cardinality(Batches(g)[N]) = N \/ Batches(g)[N] = Applicable(g)
      <4>1. Cardinality(Batches(g)[N]) <= N /\ Cardinality(Batches(g)[N]) \in Nat
        BY <2>2, <3>1, FS_Subset, FS_CardinalityType
      <4>2. QED
        BY <2>2, <2>4, <4>1
    <3>3. QED
      BY <2>2, <3>1, <3>2, FS_Subset
  <2>6. QED
    BY <2>3, <2>4, <2>5 DEF Placed
<1>2. QED
  BY <1>1, AlwaysOrderIndependent, GraphsStayFinite, PTL DEF GraphInv

-----------------------------------------------------------------------------
(***************************************************************************)
(* The vault's events (VaultEvents).                                       *)
(***************************************************************************)
(* Events whose parents were signed before them. *)
Signed(E) ==
  /\ DOMAIN E \subseteq Id
  /\ \A x \in DOMAIN E : E[x].parents \subseteq DOMAIN E

(* Everything that happened before x, and whether x breaks a rule. *)
Past(E, x) == Before(E, DOMAIN E, x)

Lawful(E, x) ==
  ValidCheckpoint(E, x) /\ ActorAuthorized(E, Past(E, x), E[x])

(* The events that a device with the whole history applies. *)
Accepted(E) ==
  {x \in DOMAIN E : \A y \in {x} \cup Past(E, x) : Lawful(E, y)}

-----------------------------------------------------------------------------
(***************************************************************************)
(* The causal past.                                                        *)
(***************************************************************************)
LEMMA StoredIsWellFormed ==
  ASSUME NEW E, Signed(E), NEW S \in SUBSET DOMAIN E
  PROVE  /\ WellFormed(Stored(E, S))
         /\ \A x \in S : ParentsOf(Stored(E, S), x) = E[x].parents
         /\ \A x : x \notin S => ParentsOf(Stored(E, S), x) = {}
<1>1. DOMAIN Stored(E, S) = S /\ \A x \in S : Stored(E, S)[x] = E[x].parents
  BY DEF Stored
<1>2. \A x \in S : E[x].parents \in SUBSET Id
  BY DEF Signed
<1>3. Stored(E, S) \in [S -> SUBSET Id]
  BY <1>2 DEF Stored
<1>4. QED
  BY <1>1, <1>3 DEF WellFormed, ParentsOf, Signed

(* What is before an event in a store: signed events, its parents among *)
(* them, and transitively.                                              *)
LEMMA BeforeFacts ==
  ASSUME NEW E, Signed(E), NEW S \in SUBSET DOMAIN E, NEW x
  PROVE  /\ Before(E, S, x) \subseteq DOMAIN E
         /\ x \in S => E[x].parents \subseteq Before(E, S, x)
         /\ \A y \in Before(E, S, x) : Before(E, S, y) \subseteq Before(E, S, x)
         /\ \A y \in Before(E, S, x) \cap S : E[y].parents \subseteq Before(E, S, x)
<1> DEFINE P == Stored(E, S)
<1>1. WellFormed(P)
  BY StoredIsWellFormed
<1>2. /\ ParentsOf(P, x) \subseteq Reach(P, x)
      /\ Closed(P, Reach(P, x))
  BY <1>1, ReachIsClosed
<1>3. \A y \in Reach(P, x) : Reach(P, y) \subseteq Reach(P, x)
  BY <1>1, ReachIsTransitive
<1>4. Reach(P, x) \subseteq DOMAIN E
  <2>1. \A y : ParentsOf(P, y) \subseteq DOMAIN E
    BY StoredIsWellFormed DEF Signed
  <2>2. QED
    BY <2>1, ReachIsLeast DEF Closed
<1>5. \A y \in S : ParentsOf(P, y) = E[y].parents
  BY StoredIsWellFormed
<1>6. QED
  BY <1>2, <1>3, <1>4, <1>5 DEF Before, Closed

(* A device that holds more finds at least as much. *)
LEMMA BeforeGrows ==
  ASSUME NEW E, Signed(E), NEW T \in SUBSET DOMAIN E, NEW S \in SUBSET T, NEW x
  PROVE  Before(E, S, x) \subseteq Before(E, T, x)
<1> DEFINE C == Before(E, T, x)
<1>1. ParentsOf(Stored(E, T), x) \subseteq C /\ Closed(Stored(E, T), C)
  BY StoredIsWellFormed, ReachIsClosed DEF Before
<1>2. \A y : ParentsOf(Stored(E, S), y) \subseteq ParentsOf(Stored(E, T), y)
  BY StoredIsWellFormed
<1>3. QED
  BY <1>1, <1>2, ReachIsLeast DEF Before, Closed

(* A past that is held completely is the same in every graph. *)
LEMMA CompletePastIsFixed ==
  ASSUME NEW E, Signed(E), NEW T \in SUBSET DOMAIN E, NEW S \in SUBSET T,
         NEW x \in S, Before(E, S, x) \subseteq S
  PROVE  Before(E, T, x) = Before(E, S, x)
<1> DEFINE C == Before(E, S, x)
<1>1. ParentsOf(Stored(E, S), x) \subseteq C /\ Closed(Stored(E, S), C)
  BY StoredIsWellFormed, ReachIsClosed DEF Before
<1>2. \A y \in S : ParentsOf(Stored(E, T), y) = ParentsOf(Stored(E, S), y)
  BY StoredIsWellFormed
<1>3. Before(E, T, x) \subseteq C
  BY <1>1, <1>2, ReachIsLeast DEF Before, Closed
<1>4. QED
  BY <1>3, BeforeGrows

(* The past of a signed event: signed events, its parents among them, and *)
(* transitively.                                                          *)
LEMMA PastFacts ==
  ASSUME NEW E, Signed(E), NEW x \in DOMAIN E
  PROVE  /\ Past(E, x) \subseteq DOMAIN E
         /\ E[x].parents \subseteq Past(E, x)
         /\ \A y \in Past(E, x) : Past(E, y) \subseteq Past(E, x)
BY BeforeFacts DEF Past

(* The past is the parents and their pasts. *)
LEMMA PastThroughParents ==
  ASSUME NEW E, Signed(E), NEW x \in DOMAIN E
  PROVE  \A y : y \in Past(E, x)
                <=> \E p \in E[x].parents : y = p \/ y \in Past(E, p)
<1> DEFINE C == E[x].parents \cup UNION {Past(E, p) : p \in E[x].parents}
           P == Stored(E, DOMAIN E)
<1>1. E[x].parents \subseteq DOMAIN E
  BY DEF Signed
<1>2. C \subseteq Past(E, x)
  BY PastFacts
<1>3. \A y \in DOMAIN E : ParentsOf(P, y) = E[y].parents
  BY StoredIsWellFormed
<1>4. \A y \in C : y \in DOMAIN E /\ E[y].parents \subseteq C
  <2>1. ASSUME NEW y \in E[x].parents PROVE E[y].parents \subseteq C
    BY <1>1, <2>1, PastFacts
  <2>2. ASSUME NEW p \in E[x].parents, NEW y \in Past(E, p)
        PROVE  y \in DOMAIN E /\ E[y].parents \subseteq C
    <3>1. y \in DOMAIN E
      BY <1>1, PastFacts
    <3>2. E[y].parents \subseteq Past(E, y) /\ Past(E, y) \subseteq Past(E, p)
      BY <1>1, <3>1, PastFacts
    <3>3. QED
      BY <3>1, <3>2
  <2>3. QED
    BY <1>1, <2>1, <2>2
<1>5. Closed(P, C)
  BY <1>3, <1>4 DEF Closed
<1>6. Reach(P, x) \subseteq C
  BY <1>3, <1>5, ReachIsLeast
<1>7. QED
  BY <1>2, <1>6 DEF Past, Before

(* For a device that holds S, x is complete when its whole past is in S. *)
LEMMA CompleteMeansPast ==
  ASSUME NEW E, Signed(E), NEW S \in SUBSET DOMAIN E, NEW x \in S
  PROVE  /\ Before(E, S, x) \subseteq S <=> Past(E, x) \subseteq S
         /\ Past(E, x) \subseteq S => Before(E, S, x) = Past(E, x)
         /\ Before(E, S, x) \subseteq Past(E, x)
BY BeforeGrows, CompletePastIsFixed DEF Past

-----------------------------------------------------------------------------
(***************************************************************************)
(* Loading.                                                                *)
(***************************************************************************)
LEMMA RejectsAreUnlawful ==
  ASSUME NEW E, Signed(E), NEW S \in SUBSET DOMAIN E
  PROVE  Rejects(E, S) = {x \in S : Past(E, x) \subseteq S /\ ~Lawful(E, x)}
<1>1. ASSUME NEW x \in S, Past(E, x) \subseteq S
      PROVE  x \in Rejects(E, S) <=> ~Lawful(E, x)
  <2>1. Before(E, S, x) = Past(E, x)
    BY <1>1, CompleteMeansPast
  <2>2. QED
    BY <1>1, <2>1 DEF Rejects, Lawful
<1>2. ASSUME NEW x \in S, x \in Rejects(E, S)
      PROVE  Past(E, x) \subseteq S
  BY <1>2, CompleteMeansPast DEF Rejects
<1>3. QED
  BY <1>1, <1>2 DEF Rejects

(* A loaded graph has the stored parents, and quarantines what a rejected *)
(* event precedes.                                                        *)
LEMMA LoadedGraph ==
  ASSUME NEW E, Signed(E), NEW S \in SUBSET DOMAIN E
  PROVE  /\ LoadGraph(E, S).parents = Stored(E, S)
         /\ Quarantined(LoadGraph(E, S))
              = {x \in S : \E o \in Rejects(E, S) : IsAncestor(Stored(E, S), o, x)}
<1> DEFINE R == [x \in Rejects(E, S) |-> RuleBroken]
           P == Stored(E, S)
<1>1. LoadGraph(E, S) = [parents |-> P, roots |-> R, cyclic |-> {},
                         quarantined |-> RecomputeQuarantine(P, R, {})]
  BY DEF LoadGraph, MakeGraph
<1>2. DOMAIN P = S /\ DOMAIN R = Rejects(E, S) /\ Rejects(E, S) \subseteq S
  BY DEF Stored, Rejects
<1>3. DOMAIN RecomputeQuarantine(P, R, {})
        = Rejects(E, S)
            \cup {d \in S \ Rejects(E, S) : \E o \in Rejects(E, S) : o \in Reach(P, d)}
  BY <1>2 DEF RecomputeQuarantine
<1>4. QED
  BY <1>1, <1>2, <1>3 DEF Quarantined, IsAncestor

(* Every device applies what it holds with its whole past, if accepted.    *)
LEMMA ApplicableIsAccepted ==
  ASSUME NEW E, Signed(E), NEW S \in SUBSET DOMAIN E
  PROVE  Applicable(LoadGraph(E, S))
           = {x \in S \cap Accepted(E) : Past(E, x) \subseteq S}
<1> DEFINE g == LoadGraph(E, S)
           Q == Quarantined(g)
<1>1. DOMAIN g.parents = S
  <2>1. g.parents = Stored(E, S)
    BY LoadedGraph
  <2>2. QED
    BY <2>1 DEF Stored
<1>2. Applicable(g) = {x \in S \ Q : Before(E, S, x) \subseteq S}
  BY <1>1, LoadedGraph DEF Applicable, Live, AncestorsPresent, Before
<1>3. Applicable(g) = {x \in S \ Q : Past(E, x) \subseteq S}
  BY <1>2, CompleteMeansPast
<1>4. ASSUME NEW x \in S, Past(E, x) \subseteq S
      PROVE  x \in Q <=> x \notin Accepted(E)
  <2>1. x \in Q <=> \E o \in Rejects(E, S) : o = x \/ o \in Past(E, x)
    BY <1>4, LoadedGraph, CompleteMeansPast DEF IsAncestor, Before
  <2>2. \A o \in {x} \cup Past(E, x) : o \in S /\ Past(E, o) \subseteq S
    BY <1>4, PastFacts
  <2>3. \A o \in {x} \cup Past(E, x) : o \in Rejects(E, S) <=> ~Lawful(E, o)
    BY <2>2, RejectsAreUnlawful
  <2>4. QED
    BY <2>1, <2>3 DEF Accepted
<1>5. QED
  BY <1>3, <1>4 DEF Accepted

(* What comes before an accepted event is accepted. *)
LEMMA AcceptedIsClosed ==
  ASSUME NEW E, Signed(E), NEW x \in Accepted(E)
  PROVE  x \in DOMAIN E /\ Past(E, x) \subseteq Accepted(E)
BY PastFacts DEF Accepted

(* The past of an applicable event is applicable. *)
LEMMA ApplicableIsClosed ==
  ASSUME NEW E, Signed(E), NEW S \in SUBSET DOMAIN E,
         NEW x \in Applicable(LoadGraph(E, S))
  PROVE  Past(E, x) \subseteq Applicable(LoadGraph(E, S))
<1>1. x \in S /\ x \in Accepted(E) /\ Past(E, x) \subseteq S
  BY ApplicableIsAccepted
<1>2. Past(E, x) \subseteq Accepted(E) /\ \A y \in Past(E, x) : Past(E, y) \subseteq S
  BY <1>1, AcceptedIsClosed, PastFacts
<1>3. QED
  BY <1>1, <1>2, ApplicableIsAccepted

(* The incomplete events are those at or after a revocation that no *)
(* checkpoint has committed.                                        *)
LEMMA IncompleteIsAboveOpen ==
  ASSUME NEW E, NEW S
  PROVE  LET A    == Applicable(LoadGraph(E, S))
             open == Of(E, A, {"DeviceRevoked"}) \ Committed(E, A)
         IN  Incomplete(E, S) = {x \in S : \E t \in open : t = x \/ t \in Before(E, S, x)}
BY DEF Incomplete, IsAncestor, Before

-----------------------------------------------------------------------------
(***************************************************************************)
(* Merging: M is what a device held and admitted from the provider, N what *)
(* is left of it when everything excluded is dropped.                      *)
(***************************************************************************)
Kept(E, M) == M \ Excluded(E, M)

(* What a merge keeps is quarantined in no part. *)
LEMMA MergeRejectsNothing ==
  ASSUME NEW E, Signed(E), NEW M \in SUBSET DOMAIN E
  PROVE  Quarantined(LoadGraph(E, Kept(E, M))) = {}
<1> DEFINE N == Kept(E, M)
<1>1. N \subseteq M /\ N \cap Quarantined(LoadGraph(E, M)) = {}
  BY DEF Kept, Excluded
<1>2. ASSUME NEW x \in Rejects(E, N)
      PROVE  FALSE
  <2>1. x \in N /\ Past(E, x) \subseteq N /\ ~Lawful(E, x)
    BY <1>1, RejectsAreUnlawful
  <2>2. x \in Rejects(E, M)
    BY <1>1, <2>1, RejectsAreUnlawful
  <2>3. x \in Quarantined(LoadGraph(E, M))
    BY <1>1, <2>1, <2>2, LoadedGraph DEF IsAncestor
  <2>4. QED
    BY <1>1, <2>1, <2>3
<1>3. QED
  BY <1>1, <1>2, LoadedGraph

(* The open triggers of a graph: applied and not committed. *)
Open(E, S) ==
  Of(E, Applicable(LoadGraph(E, S)), {"DeviceRevoked"})
    \ Committed(E, Applicable(LoadGraph(E, S)))

(* The uncommitted revocations are incomplete themselves, and nothing is *)
(* incomplete without them.                                              *)
LEMMA OpenFacts ==
  ASSUME NEW E, Signed(E), NEW S \in SUBSET DOMAIN E
  PROVE  /\ Open(E, S) \subseteq Incomplete(E, S)
         /\ Incomplete(E, S) = {} <=> Open(E, S) = {}
         /\ \A x \in Applicable(LoadGraph(E, S)) :
              x \in Incomplete(E, S)
                <=> \E t \in Open(E, S) : t = x \/ t \in Past(E, x)
         /\ Incomplete(E, S) \subseteq S
<1>1. Incomplete(E, S)
        = {x \in S : \E t \in Open(E, S) : t = x \/ t \in Before(E, S, x)}
  BY IncompleteIsAboveOpen DEF Open
<1>2. Open(E, S) \subseteq S
  BY ApplicableIsAccepted DEF Open, Of
<1>3. ASSUME NEW x \in Applicable(LoadGraph(E, S))
      PROVE  x \in S /\ Before(E, S, x) = Past(E, x)
  <2>1. x \in S /\ Past(E, x) \subseteq S
    BY ApplicableIsAccepted
  <2>2. QED
    BY <2>1, CompleteMeansPast
<1>4. QED
  BY <1>1, <1>2, <1>3

(* A committed parent is the only parent of an epoch checkpoint. *)
LEMMA CommittedFacts ==
  ASSUME NEW E, NEW c, NEW t \in CommittedParents(E[c])
  PROVE  E[c].kind = "EpochCheckpoint" /\ E[c].parents = {t}
BY DEF CommittedParents

(* What a merge keeps has no incomplete epoch. *)
LEMMA MergeIsWhole ==
  ASSUME NEW E, Signed(E), NEW M \in SUBSET DOMAIN E
  PROVE  Incomplete(E, Kept(E, M)) = {}
<1> DEFINE N == Kept(E, M)
           A == Applicable(LoadGraph(E, M))
           B == Applicable(LoadGraph(E, N))
<1>1. N \subseteq M /\ N \cap Incomplete(E, M) = {}
      /\ N = M \ (Quarantined(LoadGraph(E, M)) \cup Incomplete(E, M))
  BY DEF Kept, Excluded
<1>2. B \subseteq A
  BY <1>1, ApplicableIsAccepted
<1>3. ASSUME NEW t \in Open(E, N)
      PROVE  FALSE
  <2>1. t \in B /\ E[t].kind = "DeviceRevoked" /\ t \notin Committed(E, B)
    BY DEF Open, Of
  <2>2. t \in N /\ Past(E, t) \subseteq N
    BY <1>1, <2>1, ApplicableIsAccepted
  <2>3. t \in A /\ t \notin Incomplete(E, M)
    BY <1>1, <1>2, <2>1, <2>2
  <2>4. t \notin Open(E, M)
    BY <2>3, OpenFacts
  <2>5. PICK c \in A : t \in CommittedParents(E[c])
    BY <2>1, <2>3, <2>4 DEF Open, Of, Committed
  <2>6. c \in DOMAIN E /\ c \in M /\ E[c].kind = "EpochCheckpoint" /\ E[c].parents = {t}
    <3>1. c \in M
      BY ApplicableIsAccepted
    <3>2. QED
      BY <2>5, <3>1, CommittedFacts
  <2>7. Past(E, c) = {t} \cup Past(E, t)
    BY <2>6, PastThroughParents
  <2>8. c \notin Incomplete(E, M)
    <3>1. c \notin Open(E, M)
      BY <2>6 DEF Open, Of
    <3>2. \A u \in Open(E, M) : u # t /\ u \notin Past(E, t)
      BY <2>3, OpenFacts
    <3>3. QED
      BY <2>5, <2>7, <3>1, <3>2, OpenFacts
  <2>9. c \notin Quarantined(LoadGraph(E, M))
    BY <2>5 DEF Applicable, Live
  <2>10. c \in N /\ Past(E, c) \subseteq N
    BY <1>1, <2>2, <2>6, <2>7, <2>8, <2>9
  <2>11. c \in B
    BY <1>1, <2>5, <2>10, ApplicableIsAccepted
  <2>12. QED
    BY <2>1, <2>5, <2>11 DEF Committed
<1>4. QED
  BY <1>1, <1>3, OpenFacts

(* A merge keeps all that was applied in a whole store. *)
LEMMA MergeKeepsApplied ==
  ASSUME NEW E, Signed(E), NEW M \in SUBSET DOMAIN E,
         NEW S \in SUBSET M, Incomplete(E, S) = {}
  PROVE  Applicable(LoadGraph(E, S)) \subseteq Applicable(LoadGraph(E, Kept(E, M)))
<1> DEFINE N == Kept(E, M)
           A == Applicable(LoadGraph(E, M))
           B == Applicable(LoadGraph(E, S))
<1>1. N = M \ (Quarantined(LoadGraph(E, M)) \cup Incomplete(E, M))
  BY DEF Kept, Excluded
<1>2. B \subseteq A
  BY ApplicableIsAccepted
<1>3. ASSUME NEW x \in B
      PROVE  x \in N
  <2>1. x \in A /\ x \in M /\ x \notin Quarantined(LoadGraph(E, M))
    BY <1>2, ApplicableIsAccepted DEF Applicable, Live
  <2>2. ASSUME NEW t \in Open(E, M), t = x \/ t \in Past(E, x)
        PROVE  FALSE
    <3>1. t \in B
      BY <2>2, ApplicableIsClosed
    <3>2. t \notin Open(E, S) /\ E[t].kind = "DeviceRevoked" /\ t \notin Committed(E, A)
      BY <2>2, OpenFacts DEF Open, Of
    <3>3. t \in Committed(E, B)
      BY <3>1, <3>2 DEF Open, Of
    <3>4. QED
      BY <1>2, <3>2, <3>3 DEF Committed
  <2>3. QED
    BY <1>1, <2>1, <2>2, OpenFacts
<1>4. ASSUME NEW x \in B
      PROVE  x \in Applicable(LoadGraph(E, N))
  <2>1. Past(E, x) \subseteq N
    BY <1>3, ApplicableIsClosed
  <2>2. QED
    BY <1>1, <1>3, <2>1, ApplicableIsAccepted
<1>5. QED
  BY <1>4

(* union_remote() keeps of the merged graph what Kept says. *)
LEMMA UnionRemoteFacts ==
  ASSUME NEW E, Signed(E), NEW S \in SUBSET DOMAIN E, NEW seen \in SUBSET DOMAIN E
  PROVE  /\ UnionRemote(E, S, seen) \subseteq DOMAIN E
         /\ Quarantined(LoadGraph(E, UnionRemote(E, S, seen))) = {}
         /\ Incomplete(E, UnionRemote(E, S, seen)) = {}
         /\ Incomplete(E, S) = {} =>
              Applicable(LoadGraph(E, S))
                \subseteq Applicable(LoadGraph(E, UnionRemote(E, S, seen)))
<1> DEFINE M == S \cup VisibleRemote(E, S, seen)
<1>1. M \in SUBSET DOMAIN E /\ S \in SUBSET M
  BY DEF VisibleRemote
<1>2. UnionRemote(E, S, seen) = Kept(E, M)
  BY DEF UnionRemote, Kept
<1>3. QED
  BY <1>1, <1>2, MergeRejectsNothing, MergeIsWhole, MergeKeepsApplied DEF Kept

-----------------------------------------------------------------------------
(***************************************************************************)
(* Signing more events, F, changes nothing about the events in E.          *)
(***************************************************************************)
SignedAfter(E, F) ==
  /\ Signed(E) /\ Signed(F)
  /\ DOMAIN E \subseteq DOMAIN F
  /\ \A x \in DOMAIN E : F[x] = E[x]

(* Signing new events does not change the past of an old one. *)
LEMMA PastIsHistory ==
  ASSUME NEW E, NEW F, SignedAfter(E, F), NEW x \in DOMAIN E
  PROVE  Past(F, x) = Past(E, x)
<1> DEFINE D == DOMAIN E
<1>1. Stored(F, D) = Stored(E, D)
  BY DEF Stored, SignedAfter
<1>2. Before(F, D, x) = Before(E, D, x)
  BY <1>1 DEF Before
<1>3. Before(E, D, x) \subseteq D
  BY BeforeFacts DEF SignedAfter
<1>4. QED
  BY <1>2, <1>3, CompletePastIsFixed DEF Past, SignedAfter

(* Signing new events does not change whether an old one is lawful. *)
LEMMA LawIsHistory ==
  ASSUME NEW E, NEW F, SignedAfter(E, F), NEW x \in DOMAIN E
  PROVE  Lawful(F, x) <=> Lawful(E, x)
<1>1. F[x] = E[x] /\ Past(F, x) = Past(E, x)
  BY PastIsHistory DEF SignedAfter
<1>2. ValidCheckpoint(F, x) <=> ValidCheckpoint(E, x)
  <2>1. \A p \in CommittedParents(E[x]) : p \in DOMAIN E
    BY DEF CommittedParents, SignedAfter, Signed
  <2>2. \A p \in CommittedParents(E[x]) : F[p].kind = E[p].kind
    BY <2>1 DEF SignedAfter
  <2>3. QED
    BY <1>1, <2>2 DEF ValidCheckpoint
<1>3. Authorized(F, Past(E, x)) = Authorized(E, Past(E, x))
  <2>1. \A a \in Past(E, x) : F[a] = E[a]
    BY PastFacts DEF SignedAfter
  <2>2. ASSUME NEW kinds
        PROVE  {F[a].device : a \in Of(F, Past(E, x), kinds)}
                 = {E[a].device : a \in Of(E, Past(E, x), kinds)}
    <3>1. Of(F, Past(E, x), kinds) = Of(E, Past(E, x), kinds)
      BY <2>1 DEF Of
    <3>2. \A a \in Of(E, Past(E, x), kinds) : F[a].device = E[a].device
      BY <2>1 DEF Of
    <3>3. QED
      BY <3>1, <3>2
  <2>3. QED
    BY <2>2 DEF Authorized
<1>4. QED
  BY <1>1, <1>2, <1>3 DEF Lawful, ActorAuthorized

(* Signing new events does not change the graph that a store loads. *)
LEMMA GraphIsHistory ==
  ASSUME NEW E, NEW F, SignedAfter(E, F), NEW S \in SUBSET DOMAIN E
  PROVE  /\ Stored(F, S) = Stored(E, S)
         /\ LoadGraph(F, S) = LoadGraph(E, S)
         /\ Incomplete(F, S) = Incomplete(E, S)
         /\ SecurityConflicts(F, S) = SecurityConflicts(E, S)
<1>1. Stored(F, S) = Stored(E, S) /\ \A x \in S : F[x] = E[x]
  BY DEF Stored, SignedAfter
<1>2. Rejects(F, S) = Rejects(E, S)
  <2>1. S \in SUBSET DOMAIN F /\ Signed(E) /\ Signed(F)
    BY DEF SignedAfter
  <2>2. \A x \in S : Past(F, x) = Past(E, x) /\ (Lawful(F, x) <=> Lawful(E, x))
    BY PastIsHistory, LawIsHistory
  <2>3. QED
    <3>1. Rejects(F, S) = {x \in S : Past(F, x) \subseteq S /\ ~Lawful(F, x)}
      BY <2>1, RejectsAreUnlawful
    <3>2. Rejects(E, S) = {x \in S : Past(E, x) \subseteq S /\ ~Lawful(E, x)}
      BY <2>1, RejectsAreUnlawful
    <3>3. QED
      BY <2>2, <3>1, <3>2
<1>3. LoadGraph(F, S) = LoadGraph(E, S)
  BY <1>1, <1>2 DEF LoadGraph
<1>4. Applicable(LoadGraph(E, S)) \subseteq S
  BY ApplicableIsAccepted DEF SignedAfter
<1> DEFINE A == Applicable(LoadGraph(E, S))
<1>5. Of(F, A, {"DeviceRevoked"}) = Of(E, A, {"DeviceRevoked"})
      /\ Committed(F, A) = Committed(E, A)
  BY <1>1, <1>4 DEF Of, Committed
<1>6. Incomplete(F, S) = Incomplete(E, S)
  BY <1>1, <1>3, <1>5 DEF Incomplete
<1>7. SecurityConflicts(F, S) = SecurityConflicts(E, S)
  <2>1. \A p \in A \X A : F[p[1]] = E[p[1]] /\ F[p[2]] = E[p[2]]
    BY <1>1, <1>4
  <2>2. QED
    BY <1>1, <1>3, <2>1 DEF SecurityConflicts
<1>8. QED
  BY <1>1, <1>3, <1>6, <1>7

-----------------------------------------------------------------------------
(***************************************************************************)
(* Heads.                                                                  *)
(***************************************************************************)
Acyclic(E) == \A x \in DOMAIN E : x \notin Past(E, x)

(* In a store without quarantine the heads are the events that are *)
(* parents of none.                                                *)
LEMMA HeadsOfAcceptedGraph ==
  ASSUME NEW E, Signed(E), NEW S \in SUBSET DOMAIN E,
         Quarantined(LoadGraph(E, S)) = {}
  PROVE  Heads(LoadGraph(E, S)) = {x \in S : \A c \in S : x \notin E[c].parents}
<1>1. LoadGraph(E, S).parents = Stored(E, S)
  BY LoadedGraph
<1>2. DOMAIN Stored(E, S) = S /\ \A c \in S : Stored(E, S)[c] = E[c].parents
  BY DEF Stored
<1>3. QED
  BY <1>1, <1>2 DEF Heads, Live

(* Every event is a head or comes before one: of the events that are x or  *)
(* after x, take one with the largest past.                                *)
LEMMA EverythingIsBelowAHead ==
  ASSUME NEW E, Signed(E), IsFiniteSet(DOMAIN E), Acyclic(E),
         NEW S \in SUBSET DOMAIN E, Quarantined(LoadGraph(E, S)) = {}, NEW x \in S
  PROVE  \E h \in Heads(LoadGraph(E, S)) : h = x \/ x \in Past(E, h)
<1> DEFINE T == {y \in S : y = x \/ x \in Past(E, y)}
           N == Cardinality(DOMAIN E)
           Above(y) == N - Cardinality(Past(E, y))
<1>1. ASSUME NEW y \in DOMAIN E
      PROVE  /\ IsFiniteSet(Past(E, y))
             /\ Cardinality(Past(E, y)) \in Nat
             /\ N \in Nat /\ Cardinality(Past(E, y)) <= N
  <2>1. Past(E, y) \in SUBSET DOMAIN E
    BY PastFacts
  <2>2. QED
    BY <2>1, FS_Subset, FS_CardinalityType
<1>2. {Above(y) : y \in T} \in SUBSET Nat /\ {Above(y) : y \in T} # {}
  <2>1. \A y \in T : Above(y) \in Nat
    BY <1>1
  <2>2. x \in T
    OBVIOUS
  <2>3. QED
    BY <2>1, <2>2
<1>3. PICK h \in T : \A y \in T : Above(h) <= Above(y)
  <2> DEFINE V == {Above(y) : y \in T}
  <2>1. V \in SUBSET Nat /\ V # {}
    BY <1>2
  <2>2. \E m \in V : \A k \in V : m <= k
    <3> HIDE DEF V
    <3>1. QED
      BY <2>1, LeastNatural
  <2>3. QED
    BY <2>2
<1>4. ASSUME NEW c \in S, h \in E[c].parents
      PROVE  FALSE
  <2>1. h \in Past(E, c) /\ Past(E, h) \subseteq Past(E, c)
    BY <1>4, PastFacts
  <2>2. c \in T
    BY <2>1
  <2>3. h \notin Past(E, h)
    BY DEF Acyclic
  <2>4. Past(E, h) \cup {h} \in SUBSET Past(E, c)
    BY <2>1
  <2>5. Cardinality(Past(E, h) \cup {h}) = Cardinality(Past(E, h)) + 1
    BY <1>1, <2>3, FS_AddElement
  <2>6. Cardinality(Past(E, h)) + 1 <= Cardinality(Past(E, c))
    BY <1>1, <2>4, <2>5, FS_Subset
  <2>7. Above(h) <= Above(c)
    BY <1>3, <2>2
  <2>8. h \in DOMAIN E /\ c \in DOMAIN E
    OBVIOUS
  <2>9. QED
    BY <1>1, <2>6, <2>7, <2>8
<1>5. QED
  BY <1>3, <1>4, HeadsOfAcceptedGraph

-----------------------------------------------------------------------------
(***************************************************************************)
(* A device that holds S signs the events in X and applies them.           *)
(***************************************************************************)
LEMMA AcceptedIsHistory ==
  ASSUME NEW E, NEW F, SignedAfter(E, F)
  PROVE  Accepted(E) = Accepted(F) \cap DOMAIN E
<1>1. ASSUME NEW x \in DOMAIN E
      PROVE  x \in Accepted(E) <=> x \in Accepted(F)
  <2>1. Past(F, x) = Past(E, x) /\ Past(E, x) \subseteq DOMAIN E
    BY PastIsHistory, PastFacts DEF SignedAfter
  <2>2. \A y \in {x} \cup Past(E, x) : Lawful(F, y) <=> Lawful(E, y)
    BY <2>1, LawIsHistory
  <2>3. x \in DOMAIN F
    BY DEF SignedAfter
  <2>4. QED
    BY <2>1, <2>2, <2>3 DEF Accepted
<1>2. QED
  BY <1>1 DEF Accepted

(* Storing newly signed events keeps all that was applied. *)
LEMMA AppliedAfterSigning ==
  ASSUME NEW E, NEW F, SignedAfter(E, F), NEW S \in SUBSET DOMAIN E,
         NEW X \in SUBSET (DOMAIN F \ DOMAIN E)
  PROVE  /\ S \cup X \in SUBSET DOMAIN F
         /\ Applicable(LoadGraph(E, S)) \subseteq Applicable(LoadGraph(F, S \cup X))
         /\ Applicable(LoadGraph(F, S \cup X)) \subseteq Applicable(LoadGraph(E, S)) \cup X
<1>1. Signed(E) /\ Signed(F) /\ S \cup X \in SUBSET DOMAIN F
  BY DEF SignedAfter
<1>2. Applicable(LoadGraph(F, S \cup X))
        = {x \in (S \cup X) \cap Accepted(F) : Past(F, x) \subseteq S \cup X}
  BY <1>1, ApplicableIsAccepted
<1>3. Applicable(LoadGraph(E, S)) = {x \in S \cap Accepted(E) : Past(E, x) \subseteq S}
  BY <1>1, ApplicableIsAccepted
<1>4. \A x \in S : Past(F, x) = Past(E, x) /\ Past(E, x) \subseteq DOMAIN E
  BY <1>1, PastIsHistory, PastFacts
<1>5. \A x \in S : x \in Accepted(E) <=> x \in Accepted(F)
  BY AcceptedIsHistory
<1>6. QED
  BY <1>1, <1>2, <1>3, <1>4, <1>5

(* Storing newly signed events that apply leaves the store without *)
(* quarantine.                                                     *)
LEMMA SigningKeepsGraphClean ==
  ASSUME NEW E, NEW F, SignedAfter(E, F), NEW S \in SUBSET DOMAIN E,
         NEW X \in SUBSET (DOMAIN F \ DOMAIN E),
         X \subseteq Applicable(LoadGraph(F, S \cup X)),
         Quarantined(LoadGraph(E, S)) = {}
  PROVE  Quarantined(LoadGraph(F, S \cup X)) = {}
<1>1. Signed(E) /\ Signed(F) /\ S \cup X \in SUBSET DOMAIN F
  BY DEF SignedAfter
<1>2. ASSUME NEW y \in Rejects(F, S \cup X)
      PROVE  FALSE
  <2>1. y \in S \cup X /\ Past(F, y) \subseteq S \cup X /\ ~Lawful(F, y)
    BY <1>1, RejectsAreUnlawful
  <2>2. y \notin X
    <3>1. \A z \in X : z \in Accepted(F)
      BY <1>1, ApplicableIsAccepted
    <3>2. QED
      BY <2>1, <3>1 DEF Accepted
  <2>3. y \in S /\ y \in DOMAIN E
    BY <2>1, <2>2
  <2>4. Past(E, y) \subseteq S /\ ~Lawful(E, y)
    BY <1>1, <2>1, <2>3, PastIsHistory, LawIsHistory, PastFacts
  <2>5. y \in Rejects(E, S)
    BY <1>1, <2>3, <2>4, RejectsAreUnlawful
  <2>6. QED
    BY <1>1, <2>3, <2>5, LoadedGraph DEF IsAncestor
<1>3. Rejects(F, S \cup X) = {}
  BY <1>2
<1>4. Quarantined(LoadGraph(F, S \cup X))
        = {x \in S \cup X : \E o \in Rejects(F, S \cup X) :
                              IsAncestor(Stored(F, S \cup X), o, x)}
  BY <1>1, LoadedGraph
<1>5. QED
  BY <1>3, <1>4

(* Storing newly signed events, each revocation with its checkpoint, *)
(* leaves no epoch incomplete.                                       *)
LEMMA SigningKeepsEpochsWhole ==
  ASSUME NEW E, NEW F, SignedAfter(E, F), NEW S \in SUBSET DOMAIN E,
         NEW X \in SUBSET (DOMAIN F \ DOMAIN E),
         X \subseteq Applicable(LoadGraph(F, S \cup X)),
         \A t \in X : F[t].kind = "DeviceRevoked" =>
                        \E c \in X : t \in CommittedParents(F[c]),
         Incomplete(E, S) = {}
  PROVE  Incomplete(F, S \cup X) = {}
<1> DEFINE A == Applicable(LoadGraph(E, S))
           B == Applicable(LoadGraph(F, S \cup X))
<1>1. Signed(E) /\ Signed(F) /\ S \cup X \in SUBSET DOMAIN F
  BY DEF SignedAfter
<1>2. A \subseteq B /\ B \subseteq A \cup X
  BY AppliedAfterSigning
<1>3. A \subseteq S
  BY <1>1, ApplicableIsAccepted
<1>4. \A x \in A : F[x] = E[x]
  BY <1>3 DEF SignedAfter
<1>5. ASSUME NEW t \in B, F[t].kind = "DeviceRevoked"
      PROVE  t \in Committed(F, B)
  <2>1. CASE t \in X
    BY <1>5, <2>1 DEF Committed
  <2>2. CASE t \in A
    <3>1. t \in Committed(E, A)
      BY <1>1, <1>4, <1>5, <2>2, OpenFacts DEF Open, Of
    <3>2. PICK c \in A : t \in CommittedParents(E[c])
      BY <3>1 DEF Committed
    <3>3. QED
      BY <1>2, <1>4, <3>2 DEF Committed
  <2>3. QED
    BY <1>2, <2>1, <2>2
<1>6. Open(F, S \cup X) = {}
  BY <1>5 DEF Open, Of
<1>7. QED
  BY <1>1, <1>6, OpenFacts

(* An event signed on the heads of S comes after everything in S. *)
LEMMA HeadsAreAboveAll ==
  ASSUME NEW E, NEW F, SignedAfter(E, F), IsFiniteSet(DOMAIN E), Acyclic(E),
         NEW S \in SUBSET DOMAIN E, Quarantined(LoadGraph(E, S)) = {},
         NEW x \in DOMAIN F, F[x].parents = Heads(LoadGraph(E, S))
  PROVE  S \subseteq Past(F, x)
<1>1. Signed(E) /\ Signed(F)
  BY DEF SignedAfter
<1>2. ASSUME NEW y \in S
      PROVE  y \in Past(F, x)
  <2>1. PICK h \in Heads(LoadGraph(E, S)) : h = y \/ y \in Past(E, h)
    BY <1>1, EverythingIsBelowAHead
  <2>2. h \in DOMAIN E
    BY <1>1, HeadsOfAcceptedGraph
  <2>3. h \in Past(F, x) /\ Past(F, h) \subseteq Past(F, x)
    BY <1>1, PastFacts
  <2>4. Past(F, h) = Past(E, h)
    BY <2>2, PastIsHistory
  <2>5. QED
    BY <2>1, <2>3, <2>4
<1>3. QED
  BY <1>2

(* Two events in a security conflict are applied, and neither precedes *)
(* the other.                                                          *)
LEMMA ConflictsAreConcurrent ==
  ASSUME NEW E, Signed(E), NEW S \in SUBSET DOMAIN E
  PROVE  LET A == Applicable(LoadGraph(E, S))
         IN  SecurityConflicts(E, S)
               = {p \in A \X A :
                    /\ Rotates(E[p[1]])
                    /\ Rotates(E[p[2]]) \/ MutatesAccess(E[p[2]])
                    /\ p[1] # p[2]
                    /\ p[1] \notin Past(E, p[2])
                    /\ p[2] \notin Past(E, p[1])}
<1> DEFINE A == Applicable(LoadGraph(E, S))
           P == Stored(E, S)
<1>1. ASSUME NEW x \in A
      PROVE  x \in S /\ Reach(P, x) = Past(E, x)
  <2>1. x \in S /\ Past(E, x) \subseteq S
    BY ApplicableIsAccepted
  <2>2. QED
    BY <2>1, CompleteMeansPast DEF Before
<1>2. \A x, y \in A : AreConcurrent(P, x, y)
        <=> x # y /\ x \notin Past(E, y) /\ y \notin Past(E, x)
  BY <1>1 DEF AreConcurrent, IsAncestor, Stored
<1>3. \A p \in A \X A : p[1] \in A /\ p[2] \in A
  OBVIOUS
<1>4. QED
  BY <1>2, <1>3 DEF SecurityConflicts

-----------------------------------------------------------------------------
(***************************************************************************)
(* Signing one more event.                                                 *)
(***************************************************************************)
(* A trigger has at most one checkpoint. *)
OneCheckpoint(E) ==
  \A b, c \in DOMAIN E :
    CommittedParents(E[b]) \cap CommittedParents(E[c]) # {} => b = c

(* EpochSealed, for the history that no single device may hold: what is    *)
(* accepted and follows a trigger follows the checkpoint.                  *)
SealedHistory(E) ==
  \A c, x \in Accepted(E) :
    \A t \in CommittedParents(E[c]) :
      t \in Past(E, x) => c = x \/ c \in Past(E, x)
LEMMA SignedEventIsLast ==
  ASSUME NEW E, Signed(E), IsFiniteSet(DOMAIN E), Acyclic(E),
         NEW id \in Id \ DOMAIN E, NEW e, e.parents \subseteq DOMAIN E,
         NEW F, F = [x \in DOMAIN E \cup {id} |-> IF x = id THEN e ELSE E[x]]
  PROVE  /\ SignedAfter(E, F)
         /\ DOMAIN F = DOMAIN E \cup {id} /\ F[id] = e
         /\ IsFiniteSet(DOMAIN F)
         /\ Acyclic(F)
         /\ Past(F, id) \subseteq DOMAIN E
<1>1. /\ DOMAIN F = DOMAIN E \cup {id}
      /\ F[id] = e
      /\ \A x \in DOMAIN E : F[x] = E[x]
  OBVIOUS
<1>2. Signed(F)
  BY <1>1 DEF Signed
<1>3. SignedAfter(E, F)
  BY <1>1, <1>2 DEF SignedAfter
<1>4. IsFiniteSet(DOMAIN F)
  BY <1>1, FS_AddElement
<1>5. \A x \in DOMAIN E : Past(F, x) = Past(E, x) /\ Past(E, x) \subseteq DOMAIN E
  BY <1>3, PastIsHistory, PastFacts
<1>6. Past(F, id) \subseteq DOMAIN E
  <2>1. id \in DOMAIN F /\ F[id].parents = e.parents
    BY <1>1
  <2>2. \A y \in Past(F, id) : \E p \in F[id].parents : y = p \/ y \in Past(F, p)
    BY <1>2, <2>1, PastThroughParents
  <2>3. QED
    BY <1>5, <2>1, <2>2
<1>7. Acyclic(F)
  BY <1>1, <1>5, <1>6 DEF Acyclic
<1>8. QED
  BY <1>1, <1>3, <1>4, <1>6, <1>7

(* What an accepted checkpoint commits is a revocation. *)
LEMMA CommittedIsRevoked ==
  ASSUME NEW E, NEW c \in Accepted(E), NEW t \in CommittedParents(E[c])
  PROVE  E[t].kind = "DeviceRevoked"
<1>1. E[c].kind = "EpochCheckpoint" /\ E[c].parents = {t}
  BY CommittedFacts
<1>2. ValidCheckpoint(E, c)
  BY DEF Accepted, Lawful
<1>3. PICK p \in CommittedParents(E[c]) : E[p].kind = "DeviceRevoked"
  BY <1>1, <1>2 DEF ValidCheckpoint
<1>4. p = t
  BY <1>1, <1>3 DEF CommittedParents
<1>5. QED
  BY <1>3, <1>4

(* An event that a device signs on its heads follows both or neither of a  *)
(* trigger and its checkpoint, since it held both or neither.              *)
LEMMA HeadEventKeepsSeals ==
  ASSUME NEW E, NEW F, SignedAfter(E, F), NEW id, id \notin DOMAIN E,
         DOMAIN F = DOMAIN E \cup {id}, Acyclic(F),
         OneCheckpoint(E), SealedHistory(E),
         CommittedParents(F[id]) = {},
         NEW S \in SUBSET DOMAIN E, S \subseteq Past(F, id),
         Incomplete(E, S) = {},
         id \in Applicable(LoadGraph(F, S \cup {id}))
  PROVE  OneCheckpoint(F) /\ SealedHistory(F)
<1>1. Signed(E) /\ Signed(F) /\ \A x \in DOMAIN E : F[x] = E[x]
  BY DEF SignedAfter
<1>2. OneCheckpoint(F)
  BY <1>1 DEF OneCheckpoint
<1>3. ASSUME NEW c \in Accepted(F), NEW x \in Accepted(F),
             NEW t \in CommittedParents(F[c]), t \in Past(F, x)
      PROVE  c = x \/ c \in Past(F, x)
  <2>1. c \in DOMAIN E /\ c \in Accepted(E) /\ t \in CommittedParents(E[c])
    <3>1. c \in DOMAIN F /\ c # id
      BY DEF Accepted
    <3>2. QED
      BY <1>1, <3>1, AcceptedIsHistory
  <2>2. CASE x \in DOMAIN E
    <3>1. x \in Accepted(E) /\ Past(F, x) = Past(E, x)
      BY <2>2, AcceptedIsHistory, PastIsHistory
    <3>2. QED
      BY <1>3, <2>1, <3>1 DEF SealedHistory
  <2>3. CASE x = id
    <3>1. {id} \in SUBSET (DOMAIN F \ DOMAIN E) /\ S \cup {id} \in SUBSET DOMAIN F
      OBVIOUS
    <3>2. t \in Applicable(LoadGraph(F, S \cup {id}))
      BY <1>1, <1>3, <2>3, <3>1, ApplicableIsClosed
    <3>3. t # id
      BY <1>3, <2>3 DEF Acyclic
    <3>4. t \in Applicable(LoadGraph(E, S))
      <4>1. Applicable(LoadGraph(F, S \cup {id}))
              \subseteq Applicable(LoadGraph(E, S)) \cup {id}
        BY <3>1, AppliedAfterSigning
      <4>2. QED
        BY <3>2, <3>3, <4>1
    <3>5. E[t].kind = "DeviceRevoked"
      BY <2>1, CommittedIsRevoked
    <3>6. t \in Committed(E, Applicable(LoadGraph(E, S)))
      BY <1>1, <3>4, <3>5, OpenFacts DEF Open, Of
    <3>7. PICK b \in Applicable(LoadGraph(E, S)) : t \in CommittedParents(E[b])
      BY <3>6 DEF Committed
    <3>8. b \in S
      BY <1>1, ApplicableIsAccepted
    <3>9. b = c
      BY <2>1, <3>7, <3>8 DEF OneCheckpoint
    <3>10. QED
      BY <2>3, <3>8, <3>9
  <2>4. QED
    BY <2>2, <2>3 DEF Accepted
<1>4. QED
  BY <1>2, <1>3 DEF SealedHistory

(* The checkpoint of a trigger that nothing else follows. *)
LEMMA CheckpointKeepsSeals ==
  ASSUME NEW E, NEW F, SignedAfter(E, F), NEW c, c \notin DOMAIN E,
         DOMAIN F = DOMAIN E \cup {c},
         OneCheckpoint(E), SealedHistory(E),
         NEW t \in DOMAIN E, F[c].parents = {t},
         \A x \in DOMAIN E : t \notin Past(E, x)
  PROVE  OneCheckpoint(F) /\ SealedHistory(F)
<1>1. Signed(E) /\ Signed(F) /\ \A x \in DOMAIN E : F[x] = E[x]
  BY DEF SignedAfter
<1>2. CommittedParents(F[c]) \subseteq {t}
  BY DEF CommittedParents
<1>3. \A b \in DOMAIN E : t \notin CommittedParents(E[b])
  BY <1>1, PastFacts DEF CommittedParents
<1>4. OneCheckpoint(F)
  BY <1>1, <1>2, <1>3 DEF OneCheckpoint
<1>5. ASSUME NEW b \in Accepted(F), NEW x \in Accepted(F),
             NEW u \in CommittedParents(F[b]), u \in Past(F, x)
      PROVE  b = x \/ b \in Past(F, x)
  <2>1. b \in DOMAIN F /\ x \in DOMAIN F
    BY DEF Accepted
  <2>2. \A y \in DOMAIN E : Past(F, y) = Past(E, y) /\ (y \in Accepted(F) <=> y \in Accepted(E))
    BY PastIsHistory, AcceptedIsHistory
  <2>3. CASE b = c
    <3>1. u = t
      BY <1>2, <2>3
    <3>2. x \notin DOMAIN E
      BY <1>5, <2>2, <3>1
    <3>3. QED
      BY <2>1, <2>3, <3>2
  <2>4. CASE b \in DOMAIN E /\ x \in DOMAIN E
    BY <1>1, <1>5, <2>2, <2>4 DEF SealedHistory
  <2>5. CASE b \in DOMAIN E /\ x = c
    <3>1. Past(F, c) = {t} \cup Past(F, t)
      BY <1>1, <2>1, <2>5, PastThroughParents
    <3>2. u # t
      BY <1>1, <1>3, <2>5
    <3>3. u \in Past(E, t) /\ t \in Accepted(E) /\ b \in Accepted(E)
      <4>1. t \in Accepted(F)
        BY <1>1, <2>5, <3>1, AcceptedIsClosed
      <4>2. QED
        BY <1>5, <2>2, <2>5, <3>1, <3>2, <4>1
    <3>4. b = t \/ b \in Past(E, t)
      BY <1>1, <2>5, <3>3 DEF SealedHistory
    <3>5. QED
      BY <2>2, <2>5, <3>1, <3>4
  <2>6. QED
    BY <2>1, <2>3, <2>4, <2>5
<1>6. QED
  BY <1>4, <1>5 DEF SealedHistory
=============================================================================
