----------------------------- MODULE CausalOps -----------------------------
(***************************************************************************)
(* The causal graph of nook-replication: an index of which immutable event *)
(* names which parents, and of which events are rejected ("quarantined").  *)
(* Providers deliver events in any order, with duplicates, with parents    *)
(* missing, and - because the index does not trust its input - with two    *)
(* different parent sets for one id, or with parents that form a cycle.    *)
(*                                                                         *)
(* A graph is a record of four fields, as in the code:                     *)
(*   parents      id -> its parent set; the domain is the inserted ids     *)
(*   roots        id -> reason, for ids rejected in their own right        *)
(*   cyclic       the ids on a cycle, maintained incrementally             *)
(*   quarantined  id -> reason, for roots, cyclic ids and descendants      *)
(*                                                                         *)
(* normalize_parents sorts and deduplicates a list of parents, so a parent *)
(* list is the set of its members and the order of two lists is the        *)
(* lexicographic order of the sorted sequences (ParentsLess).              *)
(***************************************************************************)
EXTENDS Integers, FiniteSets

CONSTANTS
  Id,            \* event identifiers, ordered (content hashes in the code)
  PolicyReason   \* reasons an application may give to quarantine()

ASSUME IdAssumption == Id \subseteq Nat
ASSUME ReasonAssumption == PolicyReason \subseteq Nat

(***************************************************************************)
(* Reasons are strings compared byte by byte; only their order matters.    *)
(***************************************************************************)
AncestorRejected == 2     \* "Ancestor event was rejected"
InCycle          == 4     \* "Causal graph contains a cycle"
Conflicting      == 6     \* "Conflicting causal parent sets for the same..."
Reason == PolicyReason \cup {AncestorRejected, InCycle, Conflicting}

-----------------------------------------------------------------------------
(***************************************************************************)
(* Vec<Id> comparison of two sorted, duplicate-free parent lists: at the   *)
(* first position where they differ the smaller identifier wins, and a     *)
(* proper prefix is smaller than its extensions.                           *)
(***************************************************************************)
ParentsLess(A, B) ==
  \E m \in (A \ B) \cup (B \ A) :
    /\ \A k \in A \cup B : k < m => (k \in A <=> k \in B)
    /\ IF m \in A THEN \E b \in B : m < b ELSE \A a \in A : a < m

MinParents(A, B) == IF ParentsLess(B, A) THEN B ELSE A

(***************************************************************************)
(* The ids found by walking parent edges from S without S itself unless an *)
(* edge leads back to it: the least set that contains the parents of S and *)
(* the parents of its members. An id that was never inserted is found but  *)
(* has no parents to follow.                                               *)
(***************************************************************************)
ParentsOf(P, x) == IF x \in DOMAIN P THEN P[x] ELSE {}

Closed(P, C) == \A z \in C : ParentsOf(P, z) \subseteq C

Edges(P) == UNION {P[z] : z \in DOMAIN P}

Further(P, C) == C \cup UNION {ParentsOf(P, z) : z \in C}

\* What a walk of a few steps finds, which is mostly everything.
Near(P, x) == Further(P, Further(P, Further(P, ParentsOf(P, x))))

Reach(P, x) ==
  LET near   == Near(P, x)
      rest   == Edges(P) \ near
      closed == {D \in SUBSET rest : Closed(P, near \cup D)}
  IN  IF Closed(P, near) THEN near
      ELSE near \cup {y \in rest : \A D \in closed : y \in D}

\* Mutant: looks at the direct parents only.
AncestorsPresent_Shallow(P, x) == x \in DOMAIN P /\ P[x] \subseteq DOMAIN P

AncestorsPresent(P, x) == x \in DOMAIN P /\ Reach(P, x) \subseteq DOMAIN P

IsAncestor(P, a, d) == a = d \/ a \in Reach(P, d)

AreConcurrent(P, a, b) ==
  /\ a # b
  /\ ~IsAncestor(P, a, b)
  /\ ~IsAncestor(P, b, a)
  /\ a \in DOMAIN P
  /\ b \in DOMAIN P

(***************************************************************************)
(* The strongly connected component of an id that lies on a cycle.         *)
(***************************************************************************)
CycleMembers(P, o) ==
  IF o \in Reach(P, o)
    THEN {x \in Reach(P, o) : x = o \/ o \in Reach(P, x)}
    ELSE {}

AllCyclicIds(P) == UNION {CycleMembers(P, x) : x \in DOMAIN P}

-----------------------------------------------------------------------------
(***************************************************************************)
(* Quarantine bookkeeping. The least reason is kept for each id.           *)
(***************************************************************************)
MergeQuarantineReason(reasons, id, reason) ==
  [x \in DOMAIN reasons \cup {id} |->
     IF x # id THEN reasons[x]
     ELSE IF id \in DOMAIN reasons /\ reasons[id] <= reason THEN reasons[id]
     ELSE reason]

RecomputeQuarantine(P, roots, cyclic) ==
  LET own      == DOMAIN roots \cup cyclic
      rejected == {d \in DOMAIN P \ own : \E o \in own : o \in Reach(P, d)}
  IN  [x \in own \cup rejected |->
         IF x \in rejected THEN AncestorRejected
         ELSE IF x \in cyclic
           THEN IF x \in DOMAIN roots /\ roots[x] <= InCycle THEN roots[x]
                ELSE InCycle
         ELSE roots[x]]

EmptyGraph ==
  [parents     |-> [x \in {} |-> {}],
   roots       |-> [x \in {} |-> 0],
   cyclic      |-> {},
   quarantined |-> [x \in {} |-> 0]]

MakeGraph(P, roots, cyclic) ==
  [parents     |-> P,
   roots       |-> roots,
   cyclic      |-> cyclic,
   quarantined |-> RecomputeQuarantine(P, roots, cyclic)]

(***************************************************************************)
(* insert(): a duplicate changes nothing; a second, different parent set   *)
(* keeps the smaller of the two and rejects the id; a new id can only      *)
(* close cycles that go through it.                                        *)
(***************************************************************************)
\* Mutant: the first parent set delivered for an id stays.
InsertEvent_FirstWins(g, id, ps) ==
  IF id \in DOMAIN g.parents
    THEN IF g.parents[id] = ps THEN g
         ELSE MakeGraph(g.parents,
                        MergeQuarantineReason(g.roots, id, Conflicting),
                        g.cyclic)
    ELSE LET P == [x \in DOMAIN g.parents \cup {id} |->
                     IF x = id THEN ps ELSE g.parents[x]]
         IN  MakeGraph(P, g.roots, g.cyclic \cup CycleMembers(P, id))

\* Mutant: a smaller parent set replaces the old one and nothing is rejected.
InsertEvent_NoConflict(g, id, ps) ==
  LET P == [x \in DOMAIN g.parents \cup {id} |->
              IF x # id THEN g.parents[x]
              ELSE IF id \in DOMAIN g.parents
                THEN MinParents(g.parents[id], ps) ELSE ps]
  IN  MakeGraph(P, g.roots, AllCyclicIds(P))

InsertEvent(g, id, ps) ==
  IF id \in DOMAIN g.parents
    THEN IF g.parents[id] = ps THEN g
         ELSE LET replaced == ParentsLess(ps, g.parents[id])
                  P == [g.parents EXCEPT ![id] = MinParents(@, ps)]
              IN  MakeGraph(P,
                            MergeQuarantineReason(g.roots, id, Conflicting),
                            IF replaced THEN AllCyclicIds(P) ELSE g.cyclic)
    ELSE LET P == [x \in DOMAIN g.parents \cup {id} |->
                     IF x = id THEN ps ELSE g.parents[x]]
         IN  MakeGraph(P, g.roots, g.cyclic \cup CycleMembers(P, id))

QuarantineEvent(g, id, reason) ==
  MakeGraph(g.parents, MergeQuarantineReason(g.roots, id, reason), g.cyclic)

(***************************************************************************)
(* union(): every parent set of the other graph is inserted, its roots are *)
(* merged, and cycles and quarantine are recomputed from nothing.          *)
(***************************************************************************)
Clashing(g, h) ==
  {x \in DOMAIN g.parents \cap DOMAIN h.parents : g.parents[x] # h.parents[x]}

MergedParents(g, h) ==
  [x \in DOMAIN g.parents \cup DOMAIN h.parents |->
     IF x \notin DOMAIN h.parents THEN g.parents[x]
     ELSE IF x \notin DOMAIN g.parents THEN h.parents[x]
     ELSE MinParents(g.parents[x], h.parents[x])]

MergedReasons(g, h, x) ==
  (IF x \in Clashing(g, h) THEN {Conflicting} ELSE {})
    \cup (IF x \in DOMAIN g.roots THEN {g.roots[x]} ELSE {})
    \cup (IF x \in DOMAIN h.roots THEN {h.roots[x]} ELSE {})

MergedRoots(g, h) ==
  [x \in Clashing(g, h) \cup DOMAIN g.roots \cup DOMAIN h.roots |->
     CHOOSE r \in MergedReasons(g, h, x) :
       \A s \in MergedReasons(g, h, x) : r <= s]

UnionGraph(g, h) ==
  LET P == MergedParents(g, h)
  IN  MakeGraph(P, MergedRoots(g, h), AllCyclicIds(P))

-----------------------------------------------------------------------------
(***************************************************************************)
(* Queries.                                                                *)
(***************************************************************************)
Quarantined(g) == DOMAIN g.quarantined

Live(g) == DOMAIN g.parents \ Quarantined(g)

Applicable(g) == {x \in Live(g) : AncestorsPresent(g.parents, x)}

Pending(g) ==
  {x \in Live(g) : g.parents[x] # {} /\ ~AncestorsPresent(g.parents, x)}

\* Mutant: references made by rejected events count.
Heads_QuarantinedReference(g) ==
  {x \in Live(g) : \A c \in DOMAIN g.parents : x \notin g.parents[c]}

Heads(g) == {x \in Live(g) : \A c \in Live(g) : x \notin g.parents[c]}

(***************************************************************************)
(* topological_order() places batches of ready ids, each batch in id       *)
(* order; it fails with a Cycle error when nothing is ready. Batches(g)[n] *)
(* is what the first n batches have placed.                                *)
(***************************************************************************)
ReadyAfter(g, placed) ==
  {x \in Applicable(g) \ placed :
     \A p \in g.parents[x] : p \in placed \/ p \notin Applicable(g) \ placed}

Batches(g) ==
  LET placed[n \in 0..Cardinality(Applicable(g))] ==
        IF n = 0 THEN {} ELSE placed[n - 1] \cup ReadyAfter(g, placed[n - 1])
  IN  placed
=============================================================================
