---------------------- MODULE VaultProjectionProofs ----------------------
(***************************************************************************)
(* What a vault shows, proved for every set of ids, devices, members and   *)
(* secrets.                                                                *)
(*                                                                         *)
(* The first part is about the orders in which a projection folds events:  *)
(* the order of the code is one of the orders in which every event comes   *)
(* after its parents. The second part folds such an order, event by event, *)
(* and relates the projection to the set W of events folded so far: what   *)
(* is live is what W created and did not delete. A checkpoint is the hard  *)
(* step, since it throws the projection away; it is harmless because the   *)
(* checkpoint recorded what its past shows, and because every change in W  *)
(* belongs to that past. The third part shows that no step of the system,  *)
(* with any number of tabs, disturbs what the second part needs of the     *)
(* history, except that checkpoints recorded their past. The fourth part   *)
(* shows that they do where each device has one tab.                       *)
(***************************************************************************)
EXTENDS VaultProjection, EventGraphProofs

(* What holds up to N when it holds of zero and is passed on. *)
LEMMA CountingUp ==
  ASSUME NEW N \in Nat, NEW Q, 0 \in Q,
         \A n \in 0..N : n # N /\ n \in Q => n + 1 \in Q
  PROVE  \A n \in 0..N : n \in Q
<1> DEFINE T == {n \in 0..N : n \notin Q}
<1> SUFFICES ASSUME T # {} PROVE FALSE
  OBVIOUS
<1>1. T \in SUBSET Nat
  OBVIOUS
<1>2. PICK m \in T : \A n \in T : m <= n
  <2> HIDE DEF T
  <2>1. QED
    BY <1>1, LeastNatural
<1>3. m \in 0..N /\ m # 0 /\ m \notin Q
  OBVIOUS
<1>4. m - 1 \in 0..N /\ m - 1 # N /\ ~(m <= m - 1) /\ (m - 1) + 1 = m
  BY <1>3
<1>5. m - 1 \in Q
  BY <1>2, <1>4
<1>6. QED
  BY <1>3, <1>4, <1>5

-----------------------------------------------------------------------------
(***************************************************************************)
(* The recursive functions of the model have the values their definitions  *)
(* promise: a run of k steps exists for every k.                           *)
(***************************************************************************)
FoldUpTo(E, order, k, f) ==
  f = [n \in 0..k |->
         IF n = 0 THEN EmptyProjection ELSE Step(E, f[n - 1], order[n])]

(* Any number of events can be folded. *)
LEMMA FoldRuns ==
  ASSUME NEW E, NEW order, NEW N \in Nat
  PROVE  \E f : FoldUpTo(E, order, N, f)
<1> DEFINE Q == {k \in Nat : \E f : FoldUpTo(E, order, k, f)}
<1>1. 0 \in Q
  <2>1. FoldUpTo(E, order, 0, [n \in 0..0 |-> EmptyProjection])
    BY DEF FoldUpTo
  <2>2. QED
    BY <2>1
<1>2. ASSUME NEW k \in 0..N, k \in Q
      PROVE  k + 1 \in Q
  <2>1. PICK f : FoldUpTo(E, order, k, f)
    BY <1>2
  <2> DEFINE h == [n \in 0..(k + 1) |->
                     IF n = k + 1 THEN Step(E, f[k], order[k + 1]) ELSE f[n]]
  <2>2. ASSUME NEW n \in 0..(k + 1)
        PROVE  h[n] = IF n = 0 THEN EmptyProjection ELSE Step(E, h[n - 1], order[n])
    <3>1. CASE n = k + 1
      <4>1. n # 0 /\ n - 1 \in 0..(k + 1) /\ n - 1 # k + 1 /\ n - 1 = k
        BY <3>1
      <4>2. h[n - 1] = f[k]
        BY <4>1
      <4>3. QED
        BY <3>1, <4>1, <4>2
    <3>2. CASE n # k + 1 /\ n = 0
      <4>1. f[0] = EmptyProjection
        BY <2>1 DEF FoldUpTo
      <4>2. QED
        BY <3>2, <4>1
    <3>3. CASE n # k + 1 /\ n # 0
      <4>1. n \in 0..k /\ n - 1 \in 0..(k + 1) /\ n - 1 # k + 1
        BY <3>3
      <4>2. f[n] = Step(E, f[n - 1], order[n])
        BY <2>1, <3>3, <4>1 DEF FoldUpTo
      <4>3. QED
        BY <3>3, <4>1, <4>2
    <3>4. QED
      BY <3>1, <3>2, <3>3
  <2>3. FoldUpTo(E, order, k + 1, h)
    BY <2>2 DEF FoldUpTo
  <2>4. k + 1 \in Nat
    OBVIOUS
  <2>5. QED
    BY <2>3, <2>4
<1>3. N \in Q
  <2> HIDE DEF Q
  <2>1. QED
    BY <1>1, <1>2, CountingUp
<1>4. QED
  BY <1>3

(* The projections after each prefix of an order. *)
LEMMA FoldFacts ==
  ASSUME NEW E, NEW order, Len(order) \in Nat
  PROVE  \E f : /\ f[0] = EmptyProjection
                /\ \A n \in 1..Len(order) : f[n] = Step(E, f[n - 1], order[n])
                /\ FoldOrder(E, order) = f[Len(order)]
<1> DEFINE f == CHOOSE h : FoldUpTo(E, order, Len(order), h)
<1>1. FoldUpTo(E, order, Len(order), f)
  BY FoldRuns
<1>2. FoldOrder(E, order) = f[Len(order)]
  BY DEF FoldOrder, FoldUpTo
<1> HIDE DEF f
<1>3. /\ f[0] = EmptyProjection
      /\ \A n \in 1..Len(order) : f[n] = Step(E, f[n - 1], order[n])
  <2>1. /\ 0 \in 0..Len(order)
        /\ \A n \in 1..Len(order) : n \in 0..Len(order) /\ n # 0
    OBVIOUS
  <2>2. QED
    BY <1>1, <2>1 DEF FoldUpTo
<1>4. QED
  BY <1>2, <1>3

SortUpTo(g, k, f) ==
  f = [n \in 0..k |->
         IF n = 0 THEN [order |-> <<>>, before |-> {}] ELSE Place(g, f[n - 1])]

(* Any number of events can be placed. *)
LEMMA SortRuns ==
  ASSUME NEW g, NEW N \in Nat
  PROVE  \E f : SortUpTo(g, N, f)
<1> DEFINE Start == [order |-> <<>>, before |-> {}]
           Q == {k \in Nat : \E f : SortUpTo(g, k, f)}
<1>1. 0 \in Q
  <2>1. SortUpTo(g, 0, [n \in 0..0 |-> Start])
    BY DEF SortUpTo
  <2>2. QED
    BY <2>1
<1>2. ASSUME NEW k \in 0..N, k \in Q
      PROVE  k + 1 \in Q
  <2>1. PICK f : SortUpTo(g, k, f)
    BY <1>2
  <2> DEFINE h == [n \in 0..(k + 1) |-> IF n = k + 1 THEN Place(g, f[k]) ELSE f[n]]
  <2>2. ASSUME NEW n \in 0..(k + 1)
        PROVE  h[n] = IF n = 0 THEN Start ELSE Place(g, h[n - 1])
    <3>1. CASE n = k + 1
      <4>1. n # 0 /\ n - 1 \in 0..(k + 1) /\ n - 1 # k + 1 /\ n - 1 = k
        BY <3>1
      <4>2. h[n - 1] = f[k]
        BY <4>1
      <4>3. QED
        BY <3>1, <4>1, <4>2
    <3>2. CASE n # k + 1 /\ n = 0
      <4>1. f[0] = Start
        BY <2>1 DEF SortUpTo
      <4>2. QED
        BY <3>2, <4>1
    <3>3. CASE n # k + 1 /\ n # 0
      <4>1. n \in 0..k /\ n - 1 \in 0..(k + 1) /\ n - 1 # k + 1
        BY <3>3
      <4>2. f[n] = Place(g, f[n - 1])
        BY <2>1, <3>3, <4>1 DEF SortUpTo
      <4>3. QED
        BY <3>3, <4>1, <4>2
    <3>4. QED
      BY <3>1, <3>2, <3>3
  <2>3. SortUpTo(g, k + 1, h)
    BY <2>2 DEF SortUpTo
  <2>4. k + 1 \in Nat
    OBVIOUS
  <2>5. QED
    BY <2>3, <2>4
<1>3. N \in Q
  <2> HIDE DEF Q
  <2>1. QED
    BY <1>1, <1>2, CountingUp
<1>4. QED
  BY <1>3

(* What has been placed after each step of the sort. *)
LEMMA SortFacts ==
  ASSUME NEW g, Cardinality(Applicable(g)) \in Nat
  PROVE  SortUpTo(g, Cardinality(Applicable(g)), Sorting(g))
<1>1. Sorting(g) = CHOOSE f : SortUpTo(g, Cardinality(Applicable(g)), f)
  BY DEF Sorting, SortUpTo
<1>2. QED
  BY <1>1, SortRuns

BegunUpTo(E, A, k, f) ==
  f = [n \in 0..k |->
         IF n = 0 THEN {<<>>} ELSE UNION {Longer(E, A, q) : q \in f[n - 1]}]

(* Linearizations can be begun with any number of events. *)
LEMMA BegunRuns ==
  ASSUME NEW E, NEW A, NEW N \in Nat
  PROVE  \E f : BegunUpTo(E, A, N, f)
<1> DEFINE Grown(Q) == UNION {Longer(E, A, q) : q \in Q}
           Q == {k \in Nat : \E f : BegunUpTo(E, A, k, f)}
<1>1. 0 \in Q
  <2>1. BegunUpTo(E, A, 0, [n \in 0..0 |-> {<<>>}])
    BY DEF BegunUpTo
  <2>2. QED
    BY <2>1
<1>2. ASSUME NEW k \in 0..N, k \in Q
      PROVE  k + 1 \in Q
  <2>1. PICK f : BegunUpTo(E, A, k, f)
    BY <1>2
  <2> DEFINE h == [n \in 0..(k + 1) |-> IF n = k + 1 THEN Grown(f[k]) ELSE f[n]]
  <2>2. ASSUME NEW n \in 0..(k + 1)
        PROVE  h[n] = IF n = 0 THEN {<<>>} ELSE Grown(h[n - 1])
    <3>1. CASE n = k + 1
      <4>1. n # 0 /\ n - 1 \in 0..(k + 1) /\ n - 1 # k + 1 /\ n - 1 = k
        BY <3>1
      <4>2. h[n - 1] = f[k]
        BY <4>1
      <4>3. QED
        BY <3>1, <4>1, <4>2
    <3>2. CASE n # k + 1 /\ n = 0
      <4>1. f[0] = {<<>>}
        BY <2>1 DEF BegunUpTo
      <4>2. QED
        BY <3>2, <4>1
    <3>3. CASE n # k + 1 /\ n # 0
      <4>1. n \in 0..k /\ n - 1 \in 0..(k + 1) /\ n - 1 # k + 1
        BY <3>3
      <4>2. f[n] = Grown(f[n - 1])
        BY <2>1, <3>3, <4>1 DEF BegunUpTo
      <4>3. QED
        BY <3>3, <4>1, <4>2
    <3>4. QED
      BY <3>1, <3>2, <3>3
  <2>3. BegunUpTo(E, A, k + 1, h)
    BY <2>2 DEF BegunUpTo
  <2>4. k + 1 \in Nat
    OBVIOUS
  <2>5. QED
    BY <2>3, <2>4
<1>3. N \in Q
  <2> HIDE DEF Q
  <2>1. QED
    BY <1>1, <1>2, CountingUp
<1>4. QED
  BY <1>3

-----------------------------------------------------------------------------
(***************************************************************************)
(* Chains: orders in which every event comes after its parents.            *)
(***************************************************************************)
First(q, n) == {q[i] : i \in 1..n}

Chain(E, S, q) ==
  /\ q \in Seq(S)
  /\ \A i \in 1..Len(q) :
       /\ q[i] \notin First(q, i - 1)
       /\ E[q[i]].parents \subseteq First(q, i - 1)

(* Prefixes of a sequence, one event at a time. *)
LEMMA FirstFacts ==
  ASSUME NEW S, NEW q \in Seq(S)
  PROVE  /\ First(q, 0) = {}
         /\ First(q, Len(q)) = Range(q)
         /\ Range(q) \subseteq S
         /\ \A n \in 1..Len(q) : First(q, n) = First(q, n - 1) \cup {q[n]}
<1>1. DOMAIN q = 1..Len(q) /\ Len(q) \in Nat /\ \A i \in 1..Len(q) : q[i] \in S
  OBVIOUS
<1>2. First(q, 0) = {} /\ First(q, Len(q)) = Range(q) /\ Range(q) \subseteq S
  BY <1>1 DEF First, Range
<1>3. ASSUME NEW n \in 1..Len(q)
      PROVE  First(q, n) = First(q, n - 1) \cup {q[n]}
  <2>1. 1..n = 1..(n - 1) \cup {n}
    BY <1>1
  <2>2. QED
    BY <2>1 DEF First
<1>4. QED
  BY <1>2, <1>3

(* An event whose parents are in the chain extends it. *)
LEMMA ChainGrows ==
  ASSUME NEW E, NEW S, NEW q, Chain(E, S, q),
         NEW x \in S, x \notin Range(q), E[x].parents \subseteq Range(q)
  PROVE  /\ Chain(E, S, Append(q, x))
         /\ Range(Append(q, x)) = Range(q) \cup {x}
         /\ Len(Append(q, x)) = Len(q) + 1
<1> DEFINE r == Append(q, x)
           N == Len(q)
<1>1. q \in Seq(S) /\ N \in Nat /\ DOMAIN q = 1..N
  BY DEF Chain
<1>2. /\ r \in Seq(S) /\ Len(r) = N + 1
      /\ \A i \in 1..N : r[i] = q[i]
      /\ r[N + 1] = x
  BY <1>1
<1> HIDE DEF r
<1>3. \A n \in 0..N : First(r, n) = First(q, n)
  BY <1>1, <1>2 DEF First
<1>4. First(q, N) = Range(q)
  BY <1>1, FirstFacts
<1>5. ASSUME NEW i \in 1..(N + 1)
      PROVE  r[i] \notin First(r, i - 1) /\ E[r[i]].parents \subseteq First(r, i - 1)
  <2>1. CASE i = N + 1
    <3>1. i - 1 = N /\ First(r, N) = Range(q) /\ r[i] = x
      BY <1>1, <1>2, <1>3, <1>4, <2>1
    <3>2. QED
      BY <3>1
  <2>2. CASE i # N + 1
    <3>1. i \in 1..N /\ i - 1 \in 0..N
      BY <1>1, <2>2
    <3>2. r[i] = q[i] /\ First(r, i - 1) = First(q, i - 1)
      BY <1>2, <1>3, <3>1
    <3>3. QED
      BY <3>1, <3>2 DEF Chain
  <2>3. QED
    BY <2>1, <2>2
<1>6. Chain(E, S, r)
  BY <1>2, <1>5 DEF Chain
<1>7. First(r, N + 1) = Range(r)
  BY <1>2, FirstFacts
<1>8. First(r, N + 1) = First(r, N) \cup {x}
  <2>1. N + 1 \in 1..Len(r) /\ (N + 1) - 1 = N
    BY <1>1, <1>2
  <2>2. QED
    BY <1>2, <2>1, FirstFacts
<1>9. First(r, N) = Range(q)
  BY <1>1, <1>3, <1>4
<1>10. QED
  BY <1>2, <1>6, <1>7, <1>8, <1>9 DEF r

(* A chain has as many events as it is long, so one as long as S is large *)
(* has them all.                                                          *)
LEMMA ChainIsInjective ==
  ASSUME NEW E, NEW S, IsFiniteSet(S), NEW q, Chain(E, S, q)
  PROVE  /\ Cardinality(Range(q)) = Len(q)
         /\ Len(q) = Cardinality(S) => Range(q) = S
<1>1. q \in Seq(S) /\ Len(q) \in Nat
  BY DEF Chain
<1> DEFINE Q == {n \in 0..Len(q) : Cardinality(First(q, n)) = n}
<1>2. 0 \in Q
  <2>1. First(q, 0) = {}
    BY <1>1, FirstFacts
  <2>2. Cardinality(First(q, 0)) = 0
    BY <2>1, FS_EmptySet
  <2>3. QED
    BY <1>1, <2>2
<1>3. ASSUME NEW n \in 0..Len(q), n # Len(q), n \in Q
      PROVE  n + 1 \in Q
  <2>1. n + 1 \in 1..Len(q) /\ (n + 1) - 1 = n /\ n + 1 \in 0..Len(q)
    BY <1>1, <1>3
  <2>2. First(q, n + 1) = First(q, n) \cup {q[n + 1]}
    BY <1>1, <2>1, FirstFacts
  <2>3. q[n + 1] \notin First(q, n)
    BY <2>1 DEF Chain
  <2>4. IsFiniteSet(First(q, n))
    <3>1. First(q, n) \in SUBSET S
      BY <1>1, <2>1 DEF First
    <3>2. QED
      BY <3>1, FS_Subset
  <2>5. Cardinality(First(q, n) \cup {q[n + 1]}) = Cardinality(First(q, n)) + 1
    BY <2>3, <2>4, FS_AddElement
  <2>6. QED
    BY <1>3, <2>1, <2>2, <2>5
<1>4. Len(q) \in Q
  <2>1. \A n \in 0..Len(q) : n \in Q
    <3> HIDE DEF Q
    <3>1. QED
      BY <1>1, <1>2, <1>3, CountingUp
  <2>2. QED
    BY <1>1, <2>1
<1>5. Cardinality(Range(q)) = Len(q)
  BY <1>1, <1>4, FirstFacts
<1>6. Range(q) \in SUBSET S
  BY <1>1, FirstFacts
<1>7. QED
  BY <1>5, <1>6, FS_Subset

(* What contains the parents of its events contains their pasts. *)
LEMMA ClosedUnderParents ==
  ASSUME NEW E, Signed(E), NEW W \in SUBSET DOMAIN E,
         \A x \in W : E[x].parents \subseteq W
  PROVE  \A x \in W : Past(E, x) \subseteq W
<1> DEFINE P == Stored(E, DOMAIN E)
<1>1. \A y \in W : ParentsOf(P, y) = E[y].parents
  BY StoredIsWellFormed
<1>2. ASSUME NEW x \in W
      PROVE  Reach(P, x) \subseteq W
  <2>1. ParentsOf(P, x) \subseteq W /\ Closed(P, W)
    BY <1>1 DEF Closed
  <2>2. QED
    BY <2>1, ReachIsLeast
<1>3. QED
  BY <1>2 DEF Past, Before

(* Every prefix of a chain holds the pasts of its events, and the next     *)
(* event's.                                                                *)
LEMMA ChainIsCausal ==
  ASSUME NEW E, Signed(E), NEW S \in SUBSET DOMAIN E, NEW q, Chain(E, S, q),
         NEW n \in 0..Len(q)
  PROVE  /\ First(q, n) \subseteq S
         /\ \A x \in First(q, n) : Past(E, x) \subseteq First(q, n)
         /\ n # Len(q) => /\ q[n + 1] \in S \ First(q, n)
                          /\ Past(E, q[n + 1]) \subseteq First(q, n)
<1>1. q \in Seq(S) /\ Len(q) \in Nat
  BY DEF Chain
<1> DEFINE W == First(q, n)
<1>2. W \subseteq S
  BY <1>1 DEF First
<1>3. \A x \in W : E[x].parents \subseteq W
  <2>1. ASSUME NEW i \in 1..n
        PROVE  E[q[i]].parents \subseteq W
    <3>1. i \in 1..Len(q) /\ 1..(i - 1) \subseteq 1..n
      BY <1>1
    <3>2. First(q, i - 1) \subseteq W
      BY <3>1 DEF First
    <3>3. QED
      BY <3>1, <3>2 DEF Chain
  <2>2. QED
    BY <2>1 DEF First
<1>4. W \in SUBSET DOMAIN E
  BY <1>2
<1> HIDE DEF W
<1>5. \A x \in W : Past(E, x) \subseteq W
  BY <1>3, <1>4, ClosedUnderParents
<1>6. ASSUME n # Len(q)
      PROVE  /\ q[n + 1] \in S \ W
             /\ Past(E, q[n + 1]) \subseteq W
  <2>1. n + 1 \in 1..Len(q) /\ (n + 1) - 1 = n
    BY <1>1, <1>6
  <2>2. q[n + 1] \in S /\ q[n + 1] \notin W /\ E[q[n + 1]].parents \subseteq W
    BY <1>1, <2>1 DEF Chain, W
  <2> DEFINE x == q[n + 1]
  <2>3. x \in DOMAIN E
    BY <2>2
  <2> HIDE DEF x
  <2>4. \A y : y \in Past(E, x) <=> \E p \in E[x].parents : y = p \/ y \in Past(E, p)
    BY <2>3, PastThroughParents
  <2>5. Past(E, x) \subseteq W
    BY <1>5, <2>2, <2>4 DEF x
  <2>6. QED
    BY <2>2, <2>5 DEF x
<1>7. QED
  BY <1>2, <1>5, <1>6 DEF W

-----------------------------------------------------------------------------
(***************************************************************************)
(* The history of a vault, and a store that holds a closed part of it.     *)
(***************************************************************************)
History(E) ==
  /\ Signed(E)
  /\ IsFiniteSet(DOMAIN E)
  /\ Acyclic(E)
  /\ Accepted(E) = DOMAIN E

Whole(E, S) == S \subseteq DOMAIN E /\ \A x \in S : Past(E, x) \subseteq S

(* A device with such a store applies all of it. *)
LEMMA WholeGraph ==
  ASSUME NEW E, History(E), NEW S, Whole(E, S)
  PROVE  /\ Applicable(LoadGraph(E, S)) = S
         /\ Quarantined(LoadGraph(E, S)) = {}
         /\ LoadGraph(E, S).parents = Stored(E, S)
         /\ \A x \in S : Reach(Stored(E, S), x) = Past(E, x)
         /\ Sortable(LoadGraph(E, S))
         /\ IsFiniteSet(S)
<1> DEFINE g == LoadGraph(E, S)
<1>1. Signed(E) /\ S \in SUBSET DOMAIN E
  BY DEF History, Whole
<1>2. Applicable(g) = S
  BY <1>1, ApplicableIsAccepted DEF History, Whole
<1>3. g.parents = Stored(E, S) /\ DOMAIN Stored(E, S) = S
  BY <1>1, LoadedGraph DEF Stored
<1>4. Quarantined(g) = {}
  <2>1. S \subseteq Live(g)
    BY <1>2 DEF Applicable
  <2>2. Quarantined(g) \subseteq S
    BY <1>1, LoadedGraph
  <2>3. QED
    BY <2>1, <2>2 DEF Live
<1>5. \A x \in S : Reach(Stored(E, S), x) = Past(E, x)
  BY <1>1, CompleteMeansPast DEF Whole, Before
<1>6. Sortable(g)
  <2>1. WellFormed(g.parents)
    BY <1>1, <1>3, StoredIsWellFormed
  <2>2. \A x \in S : Past(E, x) \subseteq S /\ x \notin Past(E, x)
    BY <1>1 DEF Whole, History, Acyclic
  <2>3. QED
    BY <1>2, <1>3, <1>5, <2>1, <2>2 DEF Sortable
<1>7. IsFiniteSet(S)
  BY <1>1, FS_Subset DEF History
<1>8. QED
  BY <1>2, <1>3, <1>4, <1>5, <1>6, <1>7

(* A chain that has all the events of S is an order in which S may be      *)
(* folded.                                                                 *)
Ordered(E, S, q) == Chain(E, S, q) /\ Range(q) = S

(* The empty chain. *)
LEMMA EmptyChain ==
  ASSUME NEW E, NEW S
  PROVE  Chain(E, S, <<>>) /\ Range(<<>>) = {} /\ Len(<<>>) = 0
<1>1. <<>> \in Seq(S) /\ Len(<<>>) = 0 /\ DOMAIN <<>> = {}
  OBVIOUS
<1>2. QED
  BY <1>1 DEF Chain, Range

(* Every order that NoResurrection and its like range over is such an      *)
(* order.                                                                  *)
LEMMA LinearizationsAreOrdered ==
  ASSUME History(events), NEW d, NEW S, S = store[d], Whole(events, S),
         NEW q \in Linearizations(d)
  PROVE  Ordered(events, S, q)
<1> DEFINE A == Applicable(LoadGraph(events, store[d]))
           N == Cardinality(S)
           f == CHOOSE h : BegunUpTo(events, S, N, h)
<1>1. A = S /\ IsFiniteSet(S) /\ N \in Nat
  BY WholeGraph, FS_CardinalityType
<1>2. BegunUpTo(events, S, N, f)
  BY <1>1, BegunRuns
<1>3. Linearizations(d) = f[N]
  <2>1. Linearizations(d) = (CHOOSE h : BegunUpTo(events, A, Cardinality(A), h))[Cardinality(A)]
    BY DEF Linearizations, BegunUpTo
  <2>2. QED
    BY <1>1, <2>1
<1> HIDE DEF f, N
<1>4. /\ f[0] = {<<>>}
      /\ \A n \in 1..N : f[n] = UNION {Longer(events, S, r) : r \in f[n - 1]}
  <2>1. 0 \in 0..N /\ \A n \in 1..N : n \in 0..N /\ n # 0
    BY <1>1
  <2>2. QED
    BY <1>2, <2>1 DEF BegunUpTo
<1> DEFINE Good(n) == \A r \in f[n] : Chain(events, S, r) /\ Len(r) = n
           Q == {n \in 0..N : Good(n)}
<1>5. 0 \in Q
  <2>1. Good(0)
    BY <1>4, EmptyChain
  <2>2. QED
    BY <1>1, <2>1
<1>6. ASSUME NEW n \in 0..N, n # N, n \in Q
      PROVE  n + 1 \in Q
  <2>1. n + 1 \in 1..N /\ (n + 1) - 1 = n /\ n + 1 \in 0..N
    BY <1>1, <1>6
  <2>2. ASSUME NEW r \in f[n + 1]
        PROVE  Chain(events, S, r) /\ Len(r) = n + 1
    <3>1. f[n + 1] = UNION {Longer(events, S, p) : p \in f[n]}
      BY <1>4, <2>1
    <3>2. PICK p \in f[n] : r \in Longer(events, S, p)
      BY <2>2, <3>1
    <3>3. PICK x \in S \ Range(p) : events[x].parents \subseteq Range(p) /\ r = Append(p, x)
      BY <3>2 DEF Longer
    <3>4. Chain(events, S, p) /\ Len(p) = n
      BY <1>6
    <3>5. QED
      BY <3>3, <3>4, ChainGrows
  <2>3. QED
    BY <2>1, <2>2
<1>7. N \in Q
  <2>1. \A n \in 0..N : n \in Q
    <3> HIDE DEF Q
    <3>1. QED
      BY <1>1, <1>5, <1>6, CountingUp
  <2>2. QED
    BY <1>1, <2>1
<1>8. Chain(events, S, q) /\ Len(q) = N
  BY <1>3, <1>7
<1>9. Range(q) = S
  BY <1>1, <1>8, ChainIsInjective DEF N
<1>10. QED
  BY <1>8, <1>9 DEF Ordered

(* The order of the code: a chain of n events after n steps, of which an   *)
(* earlier batch boundary is a part.                                       *)
LEMMA PlaceExtends ==
  ASSUME NEW E, History(E), NEW S, Whole(E, S), NEW s,
         Chain(E, S, s.order), s.before \subseteq Range(s.order),
         Range(s.order) # S
  PROVE  LET t == Place(LoadGraph(E, S), s)
         IN  /\ Chain(E, S, t.order)
             /\ Len(t.order) = Len(s.order) + 1
             /\ t.before \subseteq Range(t.order)
<1> DEFINE g == LoadGraph(E, S)
           B == Range(s.order)
           open == ReadyAfter(g, s.before) \ B
           left == IF open # {} THEN open ELSE ReadyAfter(g, B)
           x == CHOOSE z \in left : \A y \in left : z <= y
           t == Place(g, s)
<1>1. /\ Applicable(g) = S /\ g.parents = Stored(E, S) /\ IsFiniteSet(S)
      /\ \A y \in S : Reach(Stored(E, S), y) = Past(E, y)
      /\ Sortable(g)
  BY WholeGraph
<1>2. Signed(E) /\ S \in SUBSET DOMAIN E
  BY DEF History, Whole
<1>3. B \subseteq S
  BY FirstFacts DEF Chain
<1>4. Placed(g, B)
  <2> DEFINE o == s.order
  <2>1. Len(o) \in 0..Len(o) /\ First(o, Len(o)) = B /\ Chain(E, S, o)
    BY FirstFacts DEF Chain
  <2> HIDE DEF o
  <2>2. \A y \in First(o, Len(o)) : Past(E, y) \subseteq First(o, Len(o))
    BY <1>2, <2>1, ChainIsCausal
  <2>3. QED
    BY <1>1, <1>3, <2>1, <2>2 DEF Placed
<1>5. ReadyAfter(g, B) # {}
  BY <1>1, <1>4, SomeEventIsReady
<1>6. \A y \in S : g.parents[y] = E[y].parents /\ E[y].parents \subseteq S
  <2>1. \A y \in S : g.parents[y] = E[y].parents
    BY <1>1 DEF Stored
  <2>2. \A y \in S : E[y].parents \subseteq Past(E, y)
    BY <1>2, PastFacts
  <2>3. QED
    BY <2>1, <2>2 DEF Whole
<1>7. \A y \in left : y \in S /\ y \notin B /\ E[y].parents \subseteq B
  BY <1>1, <1>3, <1>6 DEF ReadyAfter
<1>8. left # {} /\ left \in SUBSET Nat
  BY <1>2, <1>5, <1>7, IdAssumption DEF Signed
<1>9. x \in left
  <2> HIDE DEF left
  <2>1. \E z \in left : \A y \in left : z <= y
    BY <1>8, LeastNatural
  <2>2. QED
    BY <2>1
<1>10. x \in S /\ x \notin B /\ E[x].parents \subseteq B
  BY <1>7, <1>9
<1>11. t.order = Append(s.order, x) /\ t.before = IF open # {} THEN s.before ELSE B
  BY DEF Place
<1>12. t.before \subseteq B
  BY <1>11
<1> HIDE DEF x, t, open, left, B
<1>13. x \notin Range(s.order) /\ E[x].parents \subseteq Range(s.order)
  BY <1>10 DEF B
<1> DEFINE o == s.order
<1>14. Chain(E, S, o) /\ x \notin Range(o) /\ E[x].parents \subseteq Range(o)
  BY <1>13
<1>15. t.order = Append(o, x)
  BY <1>11
<1>16. t.before \subseteq Range(o)
  BY <1>12 DEF B
<1> HIDE DEF o
<1>17. /\ Chain(E, S, Append(o, x))
       /\ Range(Append(o, x)) = Range(o) \cup {x}
       /\ Len(Append(o, x)) = Len(o) + 1
  BY <1>10, <1>14, ChainGrows
<1>18. Chain(E, S, t.order) /\ Len(t.order) = Len(s.order) + 1 /\ t.before \subseteq Range(t.order)
  BY <1>15, <1>16, <1>17 DEF o
<1>19. QED
  BY <1>18 DEF t

(* The code's order is one in which the store may be folded. *)
LEMMA TopologicalOrderIsOrdered ==
  ASSUME NEW E, History(E), NEW S, Whole(E, S)
  PROVE  Ordered(E, S, TopologicalOrder(LoadGraph(E, S)))
<1> DEFINE g == LoadGraph(E, S)
           N == Cardinality(S)
           f == Sorting(g)
<1>1. Applicable(g) = S /\ IsFiniteSet(S) /\ N \in Nat
  BY WholeGraph, FS_CardinalityType
<1>2. SortUpTo(g, N, f)
  <2>1. Cardinality(Applicable(g)) \in Nat /\ Cardinality(Applicable(g)) = N
    BY <1>1
  <2>2. SortUpTo(g, Cardinality(Applicable(g)), Sorting(g))
    BY <2>1, SortFacts
  <2>3. QED
    BY <2>1, <2>2
<1>3. TopologicalOrder(g) = f[N].order
  BY <1>1 DEF TopologicalOrder
<1> HIDE DEF f, N, g
<1>4. /\ f[0] = [order |-> <<>>, before |-> {}]
      /\ \A n \in 1..N : f[n] = Place(g, f[n - 1])
  <2>1. 0 \in 0..N /\ \A n \in 1..N : n \in 0..N /\ n # 0
    BY <1>1
  <2>2. QED
    BY <1>2, <2>1 DEF SortUpTo
<1> DEFINE Good(n) == /\ Chain(E, S, f[n].order)
                      /\ Len(f[n].order) = n
                      /\ f[n].before \subseteq Range(f[n].order)
           Q == {n \in 0..N : Good(n)}
<1>5. 0 \in Q
  <2>1. f[0].order = <<>> /\ f[0].before = {}
    BY <1>4
  <2>2. Good(0)
    BY <2>1, EmptyChain
  <2>3. QED
    BY <1>1, <2>2
<1>6. ASSUME NEW n \in 0..N, n # N, n \in Q
      PROVE  n + 1 \in Q
  <2>1. n + 1 \in 1..N /\ (n + 1) - 1 = n /\ n + 1 \in 0..N
    BY <1>1, <1>6
  <2> DEFINE s == f[n]
  <2>2. f[n + 1] = Place(g, s)
    BY <1>4, <2>1
  <2>3. Chain(E, S, s.order) /\ Len(s.order) = n /\ s.before \subseteq Range(s.order)
    BY <1>6
  <2> HIDE DEF s
  <2>4. Range(s.order) # S
    <3> DEFINE o == s.order
    <3>1. Cardinality(Range(o)) = Len(o)
      <4>1. Chain(E, S, o)
        BY <2>3
      <4> HIDE DEF o
      <4>2. QED
        BY <1>1, <4>1, ChainIsInjective
    <3>2. QED
      BY <1>6, <2>3, <3>1 DEF N
  <2>5. LET t == Place(g, s)
        IN  /\ Chain(E, S, t.order)
            /\ Len(t.order) = Len(s.order) + 1
            /\ t.before \subseteq Range(t.order)
    BY <2>3, <2>4, PlaceExtends DEF g
  <2>6. Good(n + 1)
    BY <2>2, <2>3, <2>5
  <2>7. QED
    BY <2>1, <2>6
<1>7. N \in Q
  <2>1. \A n \in 0..N : n \in Q
    <3> HIDE DEF Q
    <3>1. QED
      BY <1>1, <1>5, <1>6, CountingUp
  <2>2. QED
    BY <1>1, <2>1
<1> DEFINE o == f[N].order
<1>8. Chain(E, S, o) /\ Len(o) = N
  BY <1>7
<1> HIDE DEF o
<1>9. Range(o) = S
  BY <1>1, <1>8, ChainIsInjective DEF N
<1>10. Ordered(E, S, TopologicalOrder(g))
  BY <1>3, <1>8, <1>9 DEF Ordered, o
<1>11. QED
  BY <1>10 DEF g

-----------------------------------------------------------------------------
(***************************************************************************)
(* What a set W of events says about the vault: the secrets it created,    *)
(* not counting those that checkpoints carry over, the secrets it deleted, *)
(* and the names it gave.                                                  *)
(***************************************************************************)
Born(E, W) ==
  UNION {Creates(E[x].operation) : x \in {x \in W : E[x].kind # "EpochCheckpoint"}}

Gone(E, W) == UNION {Deletes(E[x].operation) : x \in W}

Held(E, W) == Born(E, W) \ Gone(E, W)

Namings(E, W) == {x \in W : E[x].operation.op = "VaultNamed"}

Latest(E, W) ==
  {x \in Namings(E, W) : \A y \in Namings(E, W) : x \notin Past(E, y)}

NameFits(E, W, name) ==
  IF Namings(E, W) = {} THEN name = Unnamed ELSE name \in Latest(E, W)

(***************************************************************************)
(* What the handlers promise about every event they sign. Genesis precedes *)
(* everything; only changes, genesis and checkpoints carry an operation; a *)
(* secret is created once; what is deleted, and what a checkpoint carries  *)
(* over, had been created before.                                          *)
(***************************************************************************)
Rooted(E) ==
  \E g \in DOMAIN E : \A x \in DOMAIN E :
    /\ x = g \/ g \in Past(E, x)
    /\ E[x].kind = "VaultImported" => x = g

Edits(E) ==
  \A x \in DOMAIN E :
    /\ E[x].operation \in Operation
    /\ E[x].operation.op = "EpochCheckpoint" <=> E[x].kind = "EpochCheckpoint"
    /\ E[x].operation.op \notin {"Other", "EpochCheckpoint"}
         => E[x].kind \in {"Mutation", "VaultImported"}

Creations(E) ==
  \A x, y \in DOMAIN E :
    E[x].kind # "EpochCheckpoint" /\ E[y].kind # "EpochCheckpoint" /\ x # y
      => Creates(E[x].operation) \cap Creates(E[y].operation) = {}

Deletions(E) ==
  \A x \in DOMAIN E : Deletes(E[x].operation) \subseteq Born(E, Past(E, x))

Carried(E) ==
  \A c \in DOMAIN E : \A t \in CommittedParents(E[c]) :
    E[c].operation.secrets \subseteq Born(E, Past(E, t))

Seals(E) == OneCheckpoint(E) /\ SealedHistory(E)

Content(E) ==
  /\ History(E)
  /\ Seals(E)
  /\ Rooted(E)
  /\ Edits(E)
  /\ Creations(E)
  /\ Deletions(E)
  /\ Carried(E)

(***************************************************************************)
(* A tab that was up to date makes a checkpoint that records the secrets   *)
(* and the name of its trigger's past. A tab that was not breaks this.     *)
(***************************************************************************)
Checkpoints(E) ==
  \A c \in DOMAIN E : \A t \in CommittedParents(E[c]) :
    /\ E[c].operation.secrets = Held(E, Past(E, t))
    /\ NameFits(E, Past(E, t), E[c].operation.name)

(***************************************************************************)
(* What a projection p of the events W must be, and what it is besides     *)
(* when every checkpoint recorded its past. A secret that is not held may  *)
(* then linger as a tombstone, whose deletion has seen its creation.       *)
(***************************************************************************)
Entry == [by : Id, deleted : Id \cup {Alive}]

Entries(f) == f \in [DOMAIN f -> Entry]

SecretsKnown(E, W, secrets) == Entries(secrets) /\ DOMAIN secrets \subseteq Born(E, W)

SecretsFit(E, W, secrets) ==
  /\ Entries(secrets)
  /\ Held(E, W) \subseteq DOMAIN secrets
  /\ \A s \in DOMAIN secrets :
       /\ s \in Born(E, W)
       /\ secrets[s].by \in W
       /\ s \in Creates(E[secrets[s].by].operation)
       /\ s \in Held(E, W) => secrets[s].deleted = Alive
       /\ s \in Gone(E, W) => /\ secrets[s].deleted \in W
                              /\ secrets[s].by \in Past(E, secrets[s].deleted)

ReplacedFits(E, W, replaced) ==
  /\ \A s \in DOMAIN replaced : \A c \in replaced[s] : c[2] \in Born(E, W)
  /\ \A x \in W :
       LET o == E[x].operation
       IN  o.op = "SecretReplaced" =>
             \/ o.old \in DOMAIN replaced /\ <<x, o.new>> \in replaced[o.old]
             \/ \E z \in W : /\ E[z].operation.op = "SecretConflictResolved"
                             /\ E[z].operation.old = o.old

Shape(p) ==
  p = [secrets |-> p.secrets, replaced |-> p.replaced,
       name |-> p.name, epoch |-> p.epoch]

EpochFits(E, W, epoch) == epoch = InitialEpoch \/ \E x \in W : epoch = E[x].epoch

Faithful(E, W, p) ==
  /\ Shape(p)
  /\ SecretsKnown(E, W, p.secrets)
  /\ ReplacedFits(E, W, p.replaced)
  /\ p.name \in Id \cup {Unnamed}
  /\ EpochFits(E, W, p.epoch)
  /\ Checkpoints(E) => SecretsFit(E, W, p.secrets) /\ NameFits(E, W, p.name)

-----------------------------------------------------------------------------
(***************************************************************************)
(* One step of the fold, field by field.                                   *)
(***************************************************************************)
OpName == {"Other", "VaultNamed", "SecretsAdded", "SecretDeleted",
           "SecretReplaced", "SecretConflictResolved", "EpochCheckpoint"}

(* The operations and their arguments. *)
LEMMA OperationFacts ==
  ASSUME NEW o \in Operation
  PROVE  /\ o.op \in OpName
         /\ o.op \in {"SecretsAdded", "EpochCheckpoint"} => o.secrets \in SUBSET Secret
         /\ o.op = "SecretDeleted" => o.secret \in Secret
         /\ o.op = "SecretReplaced" => o.old \in Secret /\ o.new \in Secret
         /\ o.op = "SecretConflictResolved" => o.rejected \in SUBSET Secret
         /\ Creates(o) \in SUBSET Secret
<1>1. CASE o \in [op : {"Other", "VaultNamed"}]
  BY <1>1 DEF OpName, Creates
<1>2. CASE o \in [op : {"SecretsAdded"}, secrets : SUBSET Secret]
  BY <1>2 DEF OpName, Creates
<1>3. CASE o \in [op : {"SecretDeleted"}, secret : Secret]
  BY <1>3 DEF OpName, Creates
<1>4. CASE o \in [op : {"SecretReplaced"}, old : Secret, new : Secret]
  BY <1>4 DEF OpName, Creates
<1>5. CASE o \in [op : {"SecretConflictResolved"}, old : Secret, rejected : SUBSET Secret]
  BY <1>5 DEF OpName, Creates
<1>6. CASE o \in [op : {"EpochCheckpoint"}, secrets : SUBSET Secret,
                  name : Id \cup {Unnamed}]
  BY <1>6 DEF OpName, Creates
<1>7. QED
  BY <1>1, <1>2, <1>3, <1>4, <1>5, <1>6 DEF Operation

(* Entries after an operation other than a checkpoint. *)
Changed(secrets, C, D, x) == InsertSecrets(Tombstone(secrets, D, x), C, x)

(* Creating or deleting nothing changes nothing. *)
LEMMA ChangedByNothing ==
  ASSUME NEW T, NEW secrets, secrets \in [DOMAIN secrets -> T], NEW x
  PROVE  /\ \A C : Changed(secrets, C, {}, x) = InsertSecrets(secrets, C, x)
         /\ \A D : Changed(secrets, {}, D, x) = Tombstone(secrets, D, x)
         /\ Changed(secrets, {}, {}, x) = secrets
<1>1. Tombstone(secrets, {}, x) = secrets
  BY DEF Tombstone
<1>2. ASSUME NEW f, f = [s \in DOMAIN f |-> f[s]]
      PROVE  InsertSecrets(f, {}, x) = f
  BY <1>2 DEF InsertSecrets
<1>3. \A D : Tombstone(secrets, D, x)
               = [s \in DOMAIN Tombstone(secrets, D, x) |-> Tombstone(secrets, D, x)[s]]
  BY DEF Tombstone
<1>4. secrets = [s \in DOMAIN secrets |-> secrets[s]]
  OBVIOUS
<1>5. QED
  BY <1>1, <1>2, <1>3, <1>4 DEF Changed

(* What an event does to each field of a projection. *)
LEMMA StepFields ==
  ASSUME NEW T, NEW E, NEW x, E[x].operation \in Operation,
         NEW p, Shape(p), p.secrets \in [DOMAIN p.secrets -> T]
  PROVE  LET o == E[x].operation
             r == Step(E, p, x)
         IN  /\ Shape(r)
             /\ r.epoch = E[x].epoch
             /\ r.name = IF o.op = "VaultNamed" THEN x
                         ELSE IF o.op = "EpochCheckpoint" THEN o.name ELSE p.name
             /\ r.secrets = IF o.op = "EpochCheckpoint"
                              THEN InsertSecrets(NoSecrets, o.secrets, x)
                              ELSE Changed(p.secrets, Creates(o), Deletes(o), x)
             /\ r.replaced = IF o.op = "SecretReplaced"
                               THEN NoteReplacement(p.replaced, o.old, x, o.new)
                             ELSE IF o.op = "SecretConflictResolved"
                               THEN Restrict(p.replaced, DOMAIN p.replaced \ {o.old})
                             ELSE p.replaced
<1> DEFINE o == E[x].operation
           b == ApplyOperation(p, x, o)
           r == Step(E, p, x)
<1>1. o.op \in OpName
  BY OperationFacts
<1>2. ASSUME NEW q, Shape(q), r = [q EXCEPT !.epoch = E[x].epoch]
      PROVE  /\ Shape(r) /\ r.epoch = E[x].epoch /\ r.name = q.name
             /\ r.secrets = q.secrets /\ r.replaced = q.replaced
  BY <1>2 DEF Shape
<1>3. r = [b EXCEPT !.epoch = E[x].epoch]
  BY DEF Step
<1> DEFINE name == IF o.op = "VaultNamed" THEN x
                   ELSE IF o.op = "EpochCheckpoint" THEN o.name ELSE p.name
           secrets == IF o.op = "EpochCheckpoint"
                        THEN InsertSecrets(NoSecrets, o.secrets, x)
                        ELSE Changed(p.secrets, Creates(o), Deletes(o), x)
           replaced == IF o.op = "SecretReplaced"
                         THEN NoteReplacement(p.replaced, o.old, x, o.new)
                       ELSE IF o.op = "SecretConflictResolved"
                         THEN Restrict(p.replaced, DOMAIN p.replaced \ {o.old})
                       ELSE p.replaced
           Good == Shape(b) /\ b.name = name /\ b.secrets = secrets /\ b.replaced = replaced
<1> DEFINE old == p.secrets
<1>4. /\ \A C : Changed(old, C, {}, x) = InsertSecrets(old, C, x)
      /\ \A D : Changed(old, {}, D, x) = Tombstone(old, D, x)
      /\ Changed(old, {}, {}, x) = old
  <2>1. old \in [DOMAIN old -> T]
    OBVIOUS
  <2> HIDE DEF old
  <2>2. QED
    BY <2>1, ChangedByNothing
<1>5. CASE o.op = "SecretsAdded"
  <2>1. b = [p EXCEPT !.secrets = InsertSecrets(@, o.secrets, x)]
    BY <1>5 DEF ApplyOperation
  <2>2. secrets = InsertSecrets(old, o.secrets, x) /\ name = p.name /\ replaced = p.replaced
    BY <1>4, <1>5 DEF Creates, Deletes
  <2>3. Good
    BY <2>1, <2>2 DEF Shape
  <2>4. QED
    BY <1>2, <1>3, <2>3
<1>6. CASE o.op = "EpochCheckpoint"
  <2>1. b = [p EXCEPT !.secrets = InsertSecrets(NoSecrets, o.secrets, x), !.name = o.name]
    BY <1>6 DEF ApplyOperation
  <2>2. Good
    BY <1>6, <2>1 DEF Shape
  <2>3. QED
    BY <1>2, <1>3, <2>2
<1>7. CASE o.op = "SecretDeleted"
  <2>1. b = [p EXCEPT !.secrets = Tombstone(@, {o.secret}, x)]
    BY <1>7 DEF ApplyOperation
  <2>2. secrets = Tombstone(old, {o.secret}, x) /\ name = p.name /\ replaced = p.replaced
    BY <1>4, <1>7 DEF Creates, Deletes
  <2>3. Good
    BY <2>1, <2>2 DEF Shape
  <2>4. QED
    BY <1>2, <1>3, <2>3
<1>8. CASE o.op = "SecretReplaced"
  <2>1. b = [p EXCEPT !.secrets = InsertSecrets(Tombstone(@, {o.old}, x), {o.new}, x),
                      !.replaced = NoteReplacement(@, o.old, x, o.new)]
    BY <1>8 DEF ApplyOperation
  <2>2. /\ secrets = InsertSecrets(Tombstone(old, {o.old}, x), {o.new}, x)
        /\ name = p.name
        /\ replaced = NoteReplacement(p.replaced, o.old, x, o.new)
    BY <1>8 DEF Creates, Deletes, Changed
  <2>3. Good
    BY <2>1, <2>2 DEF Shape
  <2>4. QED
    BY <1>2, <1>3, <2>3
<1>9. CASE o.op = "SecretConflictResolved"
  <2>1. b = [p EXCEPT !.secrets = Tombstone(@, o.rejected, x),
                      !.replaced = Restrict(@, DOMAIN @ \ {o.old})]
    BY <1>9 DEF ApplyOperation
  <2>2. /\ secrets = Tombstone(old, o.rejected, x)
        /\ name = p.name
        /\ replaced = Restrict(p.replaced, DOMAIN p.replaced \ {o.old})
    BY <1>4, <1>9 DEF Creates, Deletes
  <2>3. Good
    BY <2>1, <2>2 DEF Shape
  <2>4. QED
    BY <1>2, <1>3, <2>3
<1>10. CASE o.op = "VaultNamed"
  <2>1. b = [p EXCEPT !.name = x]
    BY <1>10 DEF ApplyOperation
  <2>2. secrets = old /\ name = x /\ replaced = p.replaced
    BY <1>4, <1>10 DEF Creates, Deletes
  <2>3. Good
    BY <2>1, <2>2 DEF Shape
  <2>4. QED
    BY <1>2, <1>3, <2>3
<1>11. CASE o.op = "Other"
  <2>1. b = p
    BY <1>11 DEF ApplyOperation
  <2>2. secrets = old /\ name = p.name /\ replaced = p.replaced
    BY <1>4, <1>11 DEF Creates, Deletes
  <2>3. Good
    BY <2>1, <2>2
  <2>4. QED
    BY <1>2, <1>3, <2>3
<1>12. QED
  BY <1>1, <1>5, <1>6, <1>7, <1>8, <1>9, <1>10, <1>11 DEF OpName

-----------------------------------------------------------------------------
(***************************************************************************)
(* A checkpoint cuts a store without security conflicts: what changes the  *)
(* vault precedes its trigger or follows the checkpoint.                   *)
(***************************************************************************)
Settled(E, S) == Whole(E, S) /\ SecurityConflicts(E, S) = {}

(* No change of the vault, genesis or checkpoint slips in between. *)
LEMMA CheckpointCuts ==
  ASSUME NEW E, Content(E), NEW S, Settled(E, S),
         NEW c \in S, NEW t \in CommittedParents(E[c]),
         NEW x \in S, x # c,
         E[x].kind \in {"Mutation", "VaultImported", "EpochCheckpoint"}
  PROVE  x \in Past(E, t) \/ c \in Past(E, x)
<1>1. /\ Signed(E) /\ S \in SUBSET DOMAIN E /\ Accepted(E) = DOMAIN E
      /\ \A y \in S : Past(E, y) \subseteq S
      /\ Whole(E, S) /\ History(E)
  BY DEF Content, History, Settled, Whole
<1>2. t \in S /\ t \in Past(E, c) /\ E[t].kind = "DeviceRevoked"
  <2>1. t \in E[c].parents
    BY DEF CommittedParents
  <2>2. t \in Past(E, c)
    BY <1>1, <2>1, PastFacts
  <2>3. QED
    BY <1>1, <2>2, CommittedIsRevoked
<1>3. \A y \in S : t \in Past(E, y) => c = y \/ c \in Past(E, y)
  BY <1>1 DEF Content, Seals, SealedHistory
<1>4. ASSUME NEW u \in S, NEW y \in S, Rotates(E[u]), Rotates(E[y]) \/ MutatesAccess(E[y])
      PROVE  u = y \/ u \in Past(E, y) \/ y \in Past(E, u)
  <2>1. Applicable(LoadGraph(E, S)) = S
    BY <1>1, WholeGraph
  <2>2. {p \in S \X S :
           /\ Rotates(E[p[1]])
           /\ Rotates(E[p[2]]) \/ MutatesAccess(E[p[2]])
           /\ p[1] # p[2]
           /\ p[1] \notin Past(E, p[2])
           /\ p[2] \notin Past(E, p[1])} = {}
    BY <1>1, <2>1, ConflictsAreConcurrent DEF Settled
  <2>3. <<u, y>> \in S \X S /\ <<u, y>>[1] = u /\ <<u, y>>[2] = y
    OBVIOUS
  <2>4. QED
    BY <1>4, <2>2, <2>3
<1>5. CASE E[x].kind = "Mutation"
  <2>1. t = x \/ t \in Past(E, x) \/ x \in Past(E, t)
    BY <1>2, <1>4, <1>5 DEF Rotates, MutatesAccess
  <2>2. QED
    BY <1>2, <1>3, <1>5, <2>1
<1>6. CASE E[x].kind = "VaultImported"
  BY <1>1, <1>2, <1>6 DEF Content, Rooted
<1>7. CASE E[x].kind = "EpochCheckpoint"
  <2>1. PICK u \in CommittedParents(E[x]) : E[u].kind = "DeviceRevoked"
    BY <1>1, <1>7 DEF Accepted, Lawful, ValidCheckpoint
  <2>2. u \in Past(E, x) /\ u \in S
    <3>1. u \in E[x].parents
      BY <2>1 DEF CommittedParents
    <3>2. QED
      BY <1>1, <3>1, PastFacts
  <2>3. u # t
    BY <1>1 DEF Content, Seals, OneCheckpoint
  <2>4. u \in Past(E, t) \/ t \in Past(E, u)
    BY <1>2, <1>4, <2>1, <2>2, <2>3 DEF Rotates
  <2>5. CASE u \in Past(E, t)
    <3>1. x = t \/ x \in Past(E, t)
      BY <1>1, <1>2, <2>5 DEF Content, Seals, SealedHistory
    <3>2. QED
      BY <1>2, <1>7, <3>1
  <2>6. CASE t \in Past(E, u)
    <3>1. Past(E, u) \subseteq Past(E, x)
      BY <1>1, <2>2, PastFacts
    <3>2. QED
      BY <1>3, <2>6, <3>1
  <2>7. QED
    BY <2>4, <2>5, <2>6
<1>8. QED
  BY <1>5, <1>6, <1>7

(* Events that carry no operation create, delete and name nothing. *)
LEMMA SameChanges ==
  ASSUME NEW E, NEW V, NEW W, V \subseteq W,
         \A x \in W : E[x].operation.op # "Other" => x \in V
  PROVE  /\ Born(E, W) = Born(E, V)
         /\ Gone(E, W) = Gone(E, V)
         /\ Held(E, W) = Held(E, V)
         /\ \A name : NameFits(E, W, name) <=> NameFits(E, V, name)
<1>1. \A x \in W \ V : Creates(E[x].operation) = {} /\ Deletes(E[x].operation) = {}
  BY DEF Creates, Deletes
<1>2. Born(E, W) = Born(E, V)
  BY <1>1 DEF Born
<1>3. Gone(E, W) = Gone(E, V)
  BY <1>1 DEF Gone
<1>4. Namings(E, W) = Namings(E, V)
  BY DEF Namings
<1>5. QED
  BY <1>2, <1>3, <1>4 DEF Held, NameFits, Latest

(* When the fold reaches a checkpoint, everything folded so far that is a  *)
(* change belongs to the past the checkpoint recorded.                     *)
LEMMA CheckpointRecords ==
  ASSUME NEW E, Content(E), Checkpoints(E), NEW S, Settled(E, S),
         NEW W \in SUBSET S, Whole(E, W),
         NEW c \in S \ W, Past(E, c) \subseteq W, E[c].kind = "EpochCheckpoint"
  PROVE  /\ E[c].operation.secrets = Held(E, W)
         /\ NameFits(E, W, E[c].operation.name)
<1>1. /\ Signed(E) /\ S \in SUBSET DOMAIN E /\ Accepted(E) = DOMAIN E
      /\ Edits(E)
  BY DEF Content, History, Settled, Whole
<1>2. PICK t \in CommittedParents(E[c]) : E[t].kind = "DeviceRevoked"
  BY <1>1 DEF Accepted, Lawful, ValidCheckpoint
<1>3. Past(E, t) \subseteq W
  <2>1. t \in E[c].parents
    BY <1>2 DEF CommittedParents
  <2>2. t \in Past(E, c)
    BY <1>1, <2>1, PastFacts
  <2>3. Past(E, t) \subseteq Past(E, c)
    BY <1>1, <2>2, PastFacts
  <2>4. QED
    BY <2>3
<1>4. ASSUME NEW x \in W, E[x].operation.op # "Other"
      PROVE  x \in Past(E, t)
  <2>1. E[x].kind \in {"Mutation", "VaultImported", "EpochCheckpoint"}
    BY <1>1, <1>4 DEF Edits
  <2>2. x # c /\ c \notin Past(E, x) /\ x \in S
    BY DEF Whole
  <2>3. QED
    BY <1>2, <2>1, <2>2, CheckpointCuts
<1>5. /\ Held(E, W) = Held(E, Past(E, t))
      /\ \A name : NameFits(E, W, name) <=> NameFits(E, Past(E, t), name)
  BY <1>3, <1>4, SameChanges
<1>6. QED
  <2>1. c \in DOMAIN E
    BY <1>1
  <2>2. E[c].operation.secrets = Held(E, Past(E, t))
        /\ NameFits(E, Past(E, t), E[c].operation.name)
    BY <1>1, <1>2, <2>1 DEF Checkpoints
  <2>3. QED
    BY <1>5, <2>2

-----------------------------------------------------------------------------
(***************************************************************************)
(* Folding one more event x, whose past has been folded.                   *)
(***************************************************************************)
Folding(E, S, W, x) ==
  /\ Content(E)
  /\ Settled(E, S)
  /\ W \subseteq S
  /\ Whole(E, W)
  /\ x \in S \ W
  /\ Past(E, x) \subseteq W

(* Larger sets have created and deleted more. *)
LEMMA BornGrows ==
  ASSUME NEW E, NEW W, NEW V \in SUBSET W
  PROVE  Born(E, V) \subseteq Born(E, W) /\ Gone(E, V) \subseteq Gone(E, W)
BY DEF Born, Gone

(* What has been deleted was created by an event folded before. *)
LEMMA GoneWasBorn ==
  ASSUME NEW E, Content(E), NEW W, Whole(E, W)
  PROVE  Gone(E, W) \subseteq Born(E, W)
<1>1. ASSUME NEW y \in W, NEW s \in Deletes(E[y].operation)
      PROVE  s \in Born(E, W)
  <2>1. s \in Born(E, Past(E, y)) /\ Past(E, y) \in SUBSET W
    BY DEF Content, Deletions, Whole
  <2>2. QED
    BY <2>1, BornGrows
<1>2. QED
  BY <1>1 DEF Gone

(* A new secret is in no earlier event, and the event does not delete it. *)
LEMMA CreatedIsNew ==
  ASSUME NEW E, NEW S, NEW W, NEW x, Folding(E, S, W, x),
         E[x].kind # "EpochCheckpoint", NEW s \in Creates(E[x].operation)
  PROVE  s \notin Born(E, W) /\ s \notin Gone(E, W) /\ s \notin Deletes(E[x].operation)
<1>1. x \in DOMAIN E /\ W \subseteq DOMAIN E /\ x \notin W
  BY DEF Folding, Settled, Whole
<1>2. s \notin Born(E, W)
  <2>1. \A y \in W : E[y].kind # "EpochCheckpoint" => s \notin Creates(E[y].operation)
    BY <1>1 DEF Folding, Content, Creations
  <2>2. QED
    BY <2>1 DEF Born
<1>3. s \notin Gone(E, W)
  BY <1>2, GoneWasBorn DEF Folding
<1>4. s \notin Deletes(E[x].operation)
  <2>1. Deletes(E[x].operation) \subseteq Born(E, Past(E, x))
    BY <1>1 DEF Folding, Content, Deletions
  <2>2. Past(E, x) \in SUBSET W
    BY DEF Folding
  <2>3. QED
    BY <1>2, <2>1, <2>2, BornGrows
<1>5. QED
  BY <1>2, <1>3, <1>4

(* What deletes a secret has seen every event that put it into the fold,   *)
(* a checkpoint that carried it over included.                             *)
LEMMA DeletionSawCreation ==
  ASSUME NEW E, NEW S, NEW W, NEW x, Folding(E, S, W, x),
         NEW s \in Deletes(E[x].operation), NEW b \in W, s \in Creates(E[b].operation)
  PROVE  b \in Past(E, x)
<1>1. /\ x \in DOMAIN E /\ W \subseteq DOMAIN E /\ x \notin W /\ x \in S /\ W \subseteq S
      /\ Past(E, b) \subseteq W
      /\ Edits(E) /\ Content(E) /\ Settled(E, S)
  BY DEF Folding, Settled, Whole, Content
<1>2. CASE E[b].kind = "EpochCheckpoint"
  <2>1. PICK t \in CommittedParents(E[b]) : E[t].kind = "DeviceRevoked"
    BY <1>1, <1>2 DEF Content, History, Accepted, Lawful, ValidCheckpoint
  <2>2. E[x].kind \in {"Mutation", "VaultImported", "EpochCheckpoint"}
    BY <1>1 DEF Edits, Deletes
  <2>3. x \in Past(E, t) \/ b \in Past(E, x)
    BY <1>1, <2>1, <2>2, CheckpointCuts
  <2>4. Past(E, t) \subseteq W
    <3>1. Signed(E)
      BY <1>1 DEF Content, History
    <3>2. t \in E[b].parents
      BY <2>1 DEF CommittedParents
    <3>3. t \in Past(E, b)
      BY <1>1, <3>1, <3>2, PastFacts
    <3>4. Past(E, t) \subseteq Past(E, b)
      BY <1>1, <3>1, <3>3, PastFacts
    <3>5. QED
      BY <1>1, <3>4
  <2>5. QED
    BY <1>1, <2>3, <2>4
<1>3. CASE E[b].kind # "EpochCheckpoint"
  <2>1. s \in Born(E, Past(E, x))
    BY <1>1 DEF Content, Deletions
  <2>2. PICK z \in Past(E, x) : E[z].kind # "EpochCheckpoint" /\ s \in Creates(E[z].operation)
    BY <2>1 DEF Born
  <2>3. z \in DOMAIN E /\ b \in DOMAIN E
    BY <1>1, <2>2 DEF Folding
  <2>4. z = b
    BY <1>1, <1>3, <2>2, <2>3 DEF Content, Creations
  <2>5. QED
    BY <2>2, <2>4
<1>4. QED
  BY <1>2, <1>3

(* The entries r after an event x that creates C and deletes D. *)
ChangeOf(secrets, C, D, x, r) ==
  /\ DOMAIN r = DOMAIN secrets \cup C
  /\ Entries(r)
  /\ \A s \in C : r[s] = [by |-> x, deleted |-> Alive]
  /\ \A s \in DOMAIN secrets \ C :
       /\ r[s].by = secrets[s].by
       /\ r[s].deleted = IF s \in D THEN x ELSE secrets[s].deleted

(* An operation other than a checkpoint changes entries like this. *)
LEMMA ChangedFacts ==
  ASSUME NEW secrets, Entries(secrets), NEW C, NEW D, NEW x \in Id
  PROVE  ChangeOf(secrets, C, D, x, Changed(secrets, C, D, x))
<1> DEFINE f == Tombstone(secrets, D, x)
           r == Changed(secrets, C, D, x)
<1>1. DOMAIN f = DOMAIN secrets
  BY DEF Tombstone
<1>2. ASSUME NEW s \in DOMAIN secrets
      PROVE  /\ f[s] \in Entry
             /\ f[s].by = secrets[s].by
             /\ f[s].deleted = IF s \in D THEN x ELSE secrets[s].deleted
  <2>1. secrets[s] \in Entry
    BY DEF Entries
  <2>2. f[s] = IF s \in D THEN [secrets[s] EXCEPT !.deleted = x] ELSE secrets[s]
    BY DEF Tombstone
  <2>3. QED
    BY <2>1, <2>2 DEF Entry
<1> HIDE DEF f
<1>3. r = [s \in DOMAIN f \cup C |->
             IF s \in C THEN [by |-> x, deleted |-> Alive] ELSE f[s]]
  BY DEF Changed, InsertSecrets, f
<1> HIDE DEF r
<1>4. DOMAIN r = DOMAIN secrets \cup C
  BY <1>1, <1>3
<1>5. \A s \in C : r[s] = [by |-> x, deleted |-> Alive]
  BY <1>3
<1>6. \A s \in DOMAIN secrets \ C : r[s] = f[s]
  BY <1>1, <1>3
<1>7. [by |-> x, deleted |-> Alive] \in Entry
  BY DEF Entry
<1>8. Entries(r)
  <2>1. \A s \in DOMAIN r : r[s] \in Entry
    BY <1>2, <1>4, <1>5, <1>6, <1>7
  <2>2. r = [s \in DOMAIN r |-> r[s]]
    BY <1>3
  <2>3. QED
    BY <2>1, <2>2 DEF Entries
<1>9. QED
  BY <1>2, <1>4, <1>5, <1>6, <1>8 DEF r, ChangeOf

(* An operation other than a checkpoint keeps the entries fitting. *)
LEMMA ChangeKeepsSecretsFit ==
  ASSUME NEW E, NEW S, NEW W, NEW x, Folding(E, S, W, x),
         E[x].kind # "EpochCheckpoint",
         NEW secrets, SecretsFit(E, W, secrets)
  PROVE  SecretsFit(E, W \cup {x},
                    Changed(secrets, Creates(E[x].operation), Deletes(E[x].operation), x))
<1> DEFINE C == Creates(E[x].operation)
           D == Deletes(E[x].operation)
           V == W \cup {x}
           r == Changed(secrets, C, D, x)
<1>1. x \in Id /\ x \notin W
  BY DEF Folding, Settled, Whole, Content, History, Signed
<1>2. Entries(secrets)
  BY DEF SecretsFit
<1>3. ChangeOf(secrets, C, D, x, r)
  BY <1>1, <1>2, ChangedFacts
<1>4. Born(E, V) = Born(E, W) \cup C /\ Gone(E, V) = Gone(E, W) \cup D
  <2>1. Born(E, V) = Born(E, W) \cup C
    BY DEF Born
  <2>2. Gone(E, V) = Gone(E, W) \cup D
    BY DEF Gone
  <2>3. QED
    BY <2>1, <2>2
<1>5. \A s \in C : s \notin Gone(E, V)
  BY <1>4, CreatedIsNew
<1>6. \A s \in D, b \in W : s \in Creates(E[b].operation) => b \in Past(E, x)
  BY DeletionSawCreation
<1> HIDE DEF r
<1>7. Held(E, V) \subseteq DOMAIN r
  <2>1. Held(E, V) \subseteq Held(E, W) \cup C
    BY <1>4 DEF Held
  <2>2. QED
    BY <1>3, <2>1 DEF SecretsFit, ChangeOf
<1>8. ASSUME NEW s \in DOMAIN r
      PROVE  /\ s \in Born(E, V)
             /\ r[s].by \in V
             /\ s \in Creates(E[r[s].by].operation)
             /\ s \in Held(E, V) => r[s].deleted = Alive
             /\ s \in Gone(E, V) => r[s].deleted \in V /\ r[s].by \in Past(E, r[s].deleted)
  <2>1. CASE s \in C
    <3>1. r[s].by = x /\ r[s].deleted = Alive
      BY <1>3, <2>1 DEF ChangeOf
    <3>2. QED
      BY <1>4, <1>5, <2>1, <3>1
  <2>2. CASE s \notin C
    <3>1. s \in DOMAIN secrets /\ r[s].by = secrets[s].by
          /\ r[s].deleted = IF s \in D THEN x ELSE secrets[s].deleted
      BY <1>3, <2>2 DEF ChangeOf
    <3>2. /\ s \in Born(E, W)
          /\ secrets[s].by \in W
          /\ s \in Creates(E[secrets[s].by].operation)
          /\ s \in Held(E, W) => secrets[s].deleted = Alive
          /\ s \in Gone(E, W) => /\ secrets[s].deleted \in W
                                 /\ secrets[s].by \in Past(E, secrets[s].deleted)
      BY <3>1 DEF SecretsFit
    <3>3. CASE s \in D
      <4>1. secrets[s].by \in Past(E, x)
        BY <1>6, <3>2, <3>3
      <4>2. s \notin Held(E, V)
        BY <1>4, <3>3 DEF Held
      <4>3. r[s].deleted = x
        BY <3>1, <3>3
      <4>4. QED
        BY <1>4, <3>1, <3>2, <4>1, <4>2, <4>3
    <3>4. CASE s \notin D
      <4>1. s \in Held(E, V) => s \in Held(E, W)
        BY <1>4, <2>2 DEF Held
      <4>2. s \in Gone(E, V) => s \in Gone(E, W)
        BY <1>4, <3>4
      <4>3. r[s].deleted = secrets[s].deleted
        BY <3>1, <3>4
      <4>4. QED
        BY <1>4, <3>1, <3>2, <4>1, <4>2, <4>3
    <3>5. QED
      BY <3>3, <3>4
  <2>3. QED
    BY <2>1, <2>2
<1>9. QED
  BY <1>3, <1>7, <1>8 DEF SecretsFit, r, ChangeOf

(* A checkpoint starts over with exactly what is held. *)
LEMMA CheckpointKeepsSecretsFit ==
  ASSUME NEW E, NEW S, NEW W, NEW x, Folding(E, S, W, x), Checkpoints(E),
         E[x].kind = "EpochCheckpoint"
  PROVE  SecretsFit(E, W \cup {x}, InsertSecrets(NoSecrets, E[x].operation.secrets, x))
<1> DEFINE C == E[x].operation.secrets
           V == W \cup {x}
           r == InsertSecrets(NoSecrets, C, x)
<1>1. /\ x \in Id /\ x \in DOMAIN E /\ Edits(E) /\ Content(E) /\ Settled(E, S)
      /\ Whole(E, W) /\ W \in SUBSET S /\ x \in S \ W /\ Past(E, x) \subseteq W
  BY DEF Folding, Settled, Whole, Content, History, Signed
<1>2. E[x].operation.op = "EpochCheckpoint"
  BY <1>1 DEF Edits
<1>3. C = Held(E, W)
  BY <1>1, CheckpointRecords
<1>4. Creates(E[x].operation) = C /\ Deletes(E[x].operation) = {}
  BY <1>2 DEF Creates, Deletes
<1>5. Born(E, V) = Born(E, W) /\ Gone(E, V) = Gone(E, W) /\ Held(E, V) = Held(E, W)
  <2>1. Born(E, V) = Born(E, W)
    BY DEF Born
  <2>2. Gone(E, V) = Gone(E, W)
    BY <1>4 DEF Gone
  <2>3. QED
    BY <2>1, <2>2 DEF Held
<1>6. r = [s \in C |-> [by |-> x, deleted |-> Alive]]
  BY DEF InsertSecrets, NoSecrets
<1> HIDE DEF r
<1>7. [by |-> x, deleted |-> Alive] \in Entry
  BY <1>1 DEF Entry
<1>8. DOMAIN r = C /\ Entries(r)
  BY <1>6, <1>7 DEF Entries
<1>9. ASSUME NEW s \in C
      PROVE  /\ s \in Born(E, V)
             /\ r[s].by \in V
             /\ s \in Creates(E[r[s].by].operation)
             /\ s \in Held(E, V) => r[s].deleted = Alive
             /\ s \notin Gone(E, V)
  <2>1. r[s].by = x /\ r[s].deleted = Alive
    BY <1>6
  <2>2. s \in Born(E, V) /\ s \notin Gone(E, V)
    BY <1>3, <1>5 DEF Held
  <2>3. QED
    BY <1>4, <2>1, <2>2
<1>10. QED
  BY <1>3, <1>5, <1>8, <1>9 DEF SecretsFit, r

(* Replacements stay recorded until a conflict on the secret is resolved. *)
LEMMA StepKeepsReplacedFit ==
  ASSUME NEW E, NEW S, NEW W, NEW x, Folding(E, S, W, x),
         NEW replaced, ReplacedFits(E, W, replaced), NEW r,
         LET o == E[x].operation
         IN  r = IF o.op = "SecretReplaced" THEN NoteReplacement(replaced, o.old, x, o.new)
                 ELSE IF o.op = "SecretConflictResolved"
                   THEN Restrict(replaced, DOMAIN replaced \ {o.old})
                 ELSE replaced
  PROVE  ReplacedFits(E, W \cup {x}, r)
<1> DEFINE o == E[x].operation
           V == W \cup {x}
           Noted(y, old, new, f) == old \in DOMAIN f /\ <<y, new>> \in f[old]
           Solved(A, old) == \E z \in A : /\ E[z].operation.op = "SecretConflictResolved"
                                          /\ E[z].operation.old = old
<1>1. Edits(E) /\ x \in DOMAIN E
  BY DEF Folding, Settled, Whole, Content
<1>2. Born(E, W) \subseteq Born(E, V)
  BY BornGrows
<1>3. /\ \A s \in DOMAIN replaced : \A c \in replaced[s] : c[2] \in Born(E, W)
      /\ \A y \in W : E[y].operation.op = "SecretReplaced" =>
           \/ Noted(y, E[y].operation.old, E[y].operation.new, replaced)
           \/ Solved(W, E[y].operation.old)
  BY DEF ReplacedFits
<1>4. \A old : Solved(W, old) => Solved(V, old)
  OBVIOUS
<1>5. SUFFICES /\ \A s \in DOMAIN r : \A c \in r[s] : c[2] \in Born(E, V)
               /\ \A y \in V : E[y].operation.op = "SecretReplaced" =>
                    \/ Noted(y, E[y].operation.old, E[y].operation.new, r)
                    \/ Solved(V, E[y].operation.old)
  BY <1>5 DEF ReplacedFits
<1>6. CASE o.op = "SecretReplaced"
  <2>1. r = NoteReplacement(replaced, o.old, x, o.new)
    BY <1>6
  <2> DEFINE old == o.old
             pair == <<x, o.new>>
  <2>2. /\ DOMAIN r = DOMAIN replaced \cup {old}
        /\ \A s \in DOMAIN r : \A c :
             c \in r[s] <=> (s \in DOMAIN replaced /\ c \in replaced[s]) \/ (s = old /\ c = pair)
    <3>1. r = NoteReplacement(replaced, old, x, o.new)
      BY <2>1
    <3>2. DOMAIN r = DOMAIN replaced \cup {old}
      BY <3>1 DEF NoteReplacement
    <3>3. ASSUME NEW s \in DOMAIN r
          PROVE  r[s] = (IF s \in DOMAIN replaced THEN replaced[s] ELSE {})
                          \cup (IF s = old THEN {pair} ELSE {})
      BY <3>1, <3>2 DEF NoteReplacement
    <3> HIDE DEF pair, old
    <3>4. ASSUME NEW s \in DOMAIN r, NEW c
          PROVE  c \in r[s] <=> \/ s \in DOMAIN replaced /\ c \in replaced[s]
                                \/ s = old /\ c = pair
      <4> DEFINE L == IF s \in DOMAIN replaced THEN replaced[s] ELSE {}
                 R == IF s = old THEN {pair} ELSE {}
      <4>1. c \in L <=> s \in DOMAIN replaced /\ c \in replaced[s]
        OBVIOUS
      <4>2. c \in R <=> s = old /\ c = pair
        OBVIOUS
      <4>3. r[s] = L \cup R
        BY <3>3
      <4> HIDE DEF L, R
      <4>4. QED
        BY <4>1, <4>2, <4>3
    <3>5. QED
      BY <3>2, <3>4
  <2>3. o.new \in Born(E, V)
    <3>1. E[x].kind # "EpochCheckpoint" /\ o.new \in Creates(o)
      BY <1>1, <1>6 DEF Edits, Creates
    <3>2. QED
      BY <3>1 DEF Born
  <2>4. ASSUME NEW s \in DOMAIN r, NEW c \in r[s]
        PROVE  c[2] \in Born(E, V)
    <3>1. (s \in DOMAIN replaced /\ c \in replaced[s]) \/ c = <<x, o.new>>
      BY <2>2, <2>4
    <3>2. CASE c = <<x, o.new>>
      BY <2>3, <3>2
    <3>3. CASE s \in DOMAIN replaced /\ c \in replaced[s]
      BY <1>2, <1>3, <3>3
    <3>4. QED
      BY <3>1, <3>2, <3>3
  <2>5. \A y, was, new : Noted(y, was, new, replaced) => Noted(y, was, new, r)
    BY <2>2
  <2>6. Noted(x, o.old, o.new, r)
    BY <2>2
  <2> HIDE DEF Noted, Solved
  <2>7. QED
    BY <1>3, <1>4, <2>4, <2>5, <2>6
<1>7. CASE o.op = "SecretConflictResolved"
  <2>1. r = Restrict(replaced, DOMAIN replaced \ {o.old})
    BY <1>7
  <2>2. /\ DOMAIN r = DOMAIN replaced \ {o.old}
        /\ \A s \in DOMAIN r : r[s] = replaced[s]
    BY <2>1 DEF Restrict
  <2>3. \A s \in DOMAIN r : \A c \in r[s] : c[2] \in Born(E, V)
    BY <1>2, <1>3, <2>2
  <2>4. Solved(V, o.old)
    BY <1>7
  <2>5. \A y, old, new : Noted(y, old, new, replaced) => old = o.old \/ Noted(y, old, new, r)
    BY <2>2
  <2>6. E[x].operation.op # "SecretReplaced"
    BY <1>7
  <2> HIDE DEF Noted, Solved
  <2>7. QED
    BY <1>3, <1>4, <2>3, <2>4, <2>5, <2>6
<1>8. CASE o.op \notin {"SecretReplaced", "SecretConflictResolved"}
  <2>1. r = replaced /\ E[x].operation.op # "SecretReplaced"
    BY <1>8
  <2> HIDE DEF Noted, Solved
  <2>2. QED
    BY <1>2, <1>3, <1>4, <2>1
<1>9. QED
  BY <1>6, <1>7, <1>8

(* The name is the last naming's, through every checkpoint. *)
LEMMA StepKeepsNameFit ==
  ASSUME NEW E, NEW S, NEW W, NEW x, Folding(E, S, W, x), Checkpoints(E),
         NEW name, NameFits(E, W, name)
  PROVE  LET o == E[x].operation
         IN  NameFits(E, W \cup {x},
                      IF o.op = "VaultNamed" THEN x
                      ELSE IF o.op = "EpochCheckpoint" THEN o.name ELSE name)
<1> DEFINE o == E[x].operation
           V == W \cup {x}
<1>1. /\ Edits(E) /\ x \in DOMAIN E /\ x \notin Past(E, x)
      /\ \A y \in W : x \notin Past(E, y)
      /\ Content(E) /\ Settled(E, S) /\ W \in SUBSET S /\ Whole(E, W) /\ x \in S \ W
      /\ Past(E, x) \subseteq W
  BY DEF Folding, Settled, Whole, Content, History, Acyclic
<1>2. CASE o.op = "VaultNamed"
  <2>1. Namings(E, V) = Namings(E, W) \cup {x}
    BY <1>2 DEF Namings
  <2>2. \A y \in Namings(E, V) : x \notin Past(E, y)
    BY <1>1 DEF Namings
  <2>3. QED
    BY <1>2, <2>1, <2>2 DEF NameFits, Latest
<1>3. CASE o.op # "VaultNamed"
  <2>1. Namings(E, V) = Namings(E, W)
    BY <1>3 DEF Namings
  <2>2. \A m : NameFits(E, V, m) <=> NameFits(E, W, m)
    BY <2>1 DEF NameFits, Latest
  <2>3. CASE o.op = "EpochCheckpoint"
    <3>1. E[x].kind = "EpochCheckpoint"
      BY <1>1, <2>3 DEF Edits
    <3>2. NameFits(E, W, o.name)
      BY <1>1, <3>1, CheckpointRecords
    <3>3. QED
      BY <1>3, <2>2, <2>3, <3>2
  <2>4. QED
    BY <1>3, <2>2, <2>3
<1>4. QED
  BY <1>2, <1>3

(* Whatever a checkpoint carries had been created. *)
LEMMA CheckpointIsBorn ==
  ASSUME NEW E, Content(E), NEW x \in DOMAIN E, E[x].kind = "EpochCheckpoint"
  PROVE  /\ E[x].operation.secrets \subseteq Born(E, Past(E, x))
         /\ Creates(E[x].operation) = E[x].operation.secrets
         /\ E[x].operation.name \in Id \cup {Unnamed}
<1>1. Signed(E) /\ Accepted(E) = DOMAIN E /\ Edits(E) /\ Carried(E)
  BY DEF Content, History
<1>2. PICK t \in CommittedParents(E[x]) : E[t].kind = "DeviceRevoked"
  BY <1>1 DEF Accepted, Lawful, ValidCheckpoint
<1>3. t \in Past(E, x)
  BY <1>1, <1>2, PastFacts DEF CommittedParents
<1>4. Past(E, t) \subseteq Past(E, x)
  BY <1>1, <1>3, PastFacts
<1>5. Born(E, Past(E, t)) \subseteq Born(E, Past(E, x))
  BY <1>4 DEF Born
<1>6. E[x].operation.secrets \subseteq Born(E, Past(E, t))
  BY <1>1, <1>2 DEF Carried
<1> DEFINE o == E[x].operation
<1>7. o \in Operation /\ o.op = "EpochCheckpoint"
  BY <1>1 DEF Edits
<1> HIDE DEF o
<1>8. Creates(o) = o.secrets
  BY <1>7 DEF Creates
<1>9. o.name \in Id \cup {Unnamed}
  BY <1>7 DEF Operation, Other
<1>10. QED
  BY <1>5, <1>6, <1>8, <1>9 DEF o

(* The entries of a projection are of secrets that were created. *)
LEMMA StepKeepsSecretsKnown ==
  ASSUME NEW E, NEW S, NEW W, NEW x, Folding(E, S, W, x),
         NEW secrets, SecretsKnown(E, W, secrets), NEW r,
         LET o == E[x].operation
         IN  r = IF o.op = "EpochCheckpoint" THEN InsertSecrets(NoSecrets, o.secrets, x)
                 ELSE Changed(secrets, Creates(o), Deletes(o), x)
  PROVE  SecretsKnown(E, W \cup {x}, r)
<1> DEFINE o == E[x].operation
           C == Creates(o)
           V == W \cup {x}
<1>1. /\ x \in Id /\ x \in DOMAIN E /\ Edits(E) /\ Content(E) /\ Past(E, x) \subseteq W
  BY DEF Folding, Settled, Whole, Content, History, Signed
<1>2. Born(E, W) \subseteq Born(E, V)
  BY BornGrows
<1>3. CASE o.op = "EpochCheckpoint"
  <2>1. E[x].kind = "EpochCheckpoint"
    BY <1>1, <1>3 DEF Edits
  <2>2. o.secrets \subseteq Born(E, W)
    BY <1>1, <2>1, CheckpointIsBorn, BornGrows
  <2>3. r = [s \in o.secrets |-> [by |-> x, deleted |-> Alive]]
    BY <1>3 DEF InsertSecrets, NoSecrets
  <2>4. [by |-> x, deleted |-> Alive] \in Entry
    BY <1>1 DEF Entry
  <2>5. DOMAIN r = o.secrets /\ Entries(r)
    BY <2>3, <2>4 DEF Entries
  <2>6. QED
    BY <1>2, <2>2, <2>5 DEF SecretsKnown
<1>4. CASE o.op # "EpochCheckpoint"
  <2>1. E[x].kind # "EpochCheckpoint"
    BY <1>1, <1>4 DEF Edits
  <2>2. C \subseteq Born(E, V)
    BY <2>1 DEF Born
  <2>3. r = Changed(secrets, C, Deletes(o), x)
    BY <1>4
  <2> HIDE DEF C, o
  <2>4. ChangeOf(secrets, C, Deletes(o), x, r)
    BY <1>1, <2>3, ChangedFacts DEF SecretsKnown
  <2>5. QED
    BY <1>2, <2>2, <2>4 DEF SecretsKnown, ChangeOf
<1>5. QED
  BY <1>3, <1>4

(* One more event folded keeps a projection faithful. *)
LEMMA StepIsFaithful ==
  ASSUME NEW E, NEW S, NEW W, NEW x, Folding(E, S, W, x),
         NEW p, Faithful(E, W, p)
  PROVE  Faithful(E, W \cup {x}, Step(E, p, x))
<1> DEFINE o == E[x].operation
           V == W \cup {x}
           r == Step(E, p, x)
           secrets == p.secrets
           replaced == p.replaced
           name == p.name
<1>1. /\ Edits(E) /\ x \in DOMAIN E /\ o \in Operation
      /\ o.op = "EpochCheckpoint" <=> E[x].kind = "EpochCheckpoint"
  BY DEF Folding, Settled, Whole, Content, Edits
<1>2. /\ Shape(p) /\ SecretsKnown(E, W, secrets) /\ ReplacedFits(E, W, replaced)
      /\ name \in Id \cup {Unnamed} /\ EpochFits(E, W, p.epoch)
      /\ Checkpoints(E) => SecretsFit(E, W, secrets) /\ NameFits(E, W, name)
  BY DEF Faithful
<1>3. p.secrets \in [DOMAIN p.secrets -> Entry]
  BY <1>2 DEF SecretsKnown, Entries
<1>4. /\ Shape(r)
      /\ r.epoch = E[x].epoch
      /\ r.name = IF o.op = "VaultNamed" THEN x
                  ELSE IF o.op = "EpochCheckpoint" THEN o.name ELSE p.name
      /\ r.secrets = IF o.op = "EpochCheckpoint"
                       THEN InsertSecrets(NoSecrets, o.secrets, x)
                       ELSE Changed(p.secrets, Creates(o), Deletes(o), x)
      /\ r.replaced = IF o.op = "SecretReplaced"
                        THEN NoteReplacement(p.replaced, o.old, x, o.new)
                      ELSE IF o.op = "SecretConflictResolved"
                        THEN Restrict(p.replaced, DOMAIN p.replaced \ {o.old})
                      ELSE p.replaced
  BY <1>1, <1>2, <1>3, StepFields
<1> HIDE DEF r
<1>5. ASSUME Checkpoints(E)
      PROVE  SecretsFit(E, V, r.secrets)
  <2>1. CASE o.op = "EpochCheckpoint"
    <3>1. SecretsFit(E, V, InsertSecrets(NoSecrets, o.secrets, x))
      BY <1>1, <1>5, <2>1, CheckpointKeepsSecretsFit
    <3>2. QED
      BY <1>4, <2>1, <3>1
  <2>2. CASE o.op # "EpochCheckpoint"
    <3> HIDE DEF secrets
    <3>1. SecretsFit(E, V, Changed(secrets, Creates(o), Deletes(o), x))
      BY <1>1, <1>2, <1>5, <2>2, ChangeKeepsSecretsFit
    <3>2. r.secrets = Changed(secrets, Creates(o), Deletes(o), x)
      BY <1>4, <2>2 DEF secrets
    <3>3. QED
      BY <3>1, <3>2
  <2>3. QED
    BY <2>1, <2>2
<1>6. ReplacedFits(E, V, r.replaced)
  <2> DEFINE after == r.replaced
  <2>1. after = IF o.op = "SecretReplaced"
                  THEN NoteReplacement(replaced, o.old, x, o.new)
                ELSE IF o.op = "SecretConflictResolved"
                  THEN Restrict(replaced, DOMAIN replaced \ {o.old})
                ELSE replaced
    BY <1>4
  <2> HIDE DEF after, replaced
  <2>2. ReplacedFits(E, V, after)
    BY <1>2, <2>1, StepKeepsReplacedFit
  <2>3. QED
    BY <2>2 DEF after
<1>7. ASSUME Checkpoints(E)
      PROVE  NameFits(E, V, r.name)
  <2> DEFINE after == r.name
  <2>1. after = IF o.op = "VaultNamed" THEN x
                ELSE IF o.op = "EpochCheckpoint" THEN o.name ELSE name
    BY <1>4
  <2> HIDE DEF after, name
  <2>2. NameFits(E, V, after)
    BY <1>2, <1>7, <2>1, StepKeepsNameFit
  <2>3. QED
    BY <2>2 DEF after
<1>8. EpochFits(E, V, r.epoch)
  BY <1>4 DEF EpochFits
<1>9. SecretsKnown(E, V, r.secrets)
  <2> DEFINE after == r.secrets
  <2>1. after = IF o.op = "EpochCheckpoint" THEN InsertSecrets(NoSecrets, o.secrets, x)
                ELSE Changed(secrets, Creates(o), Deletes(o), x)
    BY <1>4
  <2> HIDE DEF after, secrets
  <2>2. SecretsKnown(E, V, after)
    BY <1>2, <2>1, StepKeepsSecretsKnown
  <2>3. QED
    BY <2>2 DEF after
<1>10. r.name \in Id \cup {Unnamed}
  <2>1. x \in Id /\ Content(E)
    BY <1>1 DEF Folding, Content, History, Signed
  <2>2. o.op = "EpochCheckpoint" => o.name \in Id \cup {Unnamed}
    BY <1>1, <2>1, CheckpointIsBorn
  <2>3. QED
    BY <1>2, <1>4, <2>1, <2>2
<1>11. QED
  BY <1>4, <1>5, <1>6, <1>7, <1>8, <1>9, <1>10 DEF Faithful, r

(* The fold starts faithfully. *)
LEMMA EmptyIsFaithful ==
  ASSUME NEW E
  PROVE  Faithful(E, {}, EmptyProjection)
<1> DEFINE p == EmptyProjection
<1>1. p = [secrets |-> NoSecrets, replaced |-> [s \in {} |-> {}],
           name |-> Unnamed, epoch |-> InitialEpoch]
  BY DEF EmptyProjection
<1>2. Shape(p)
  BY <1>1 DEF Shape
<1>3. Born(E, {}) = {} /\ Namings(E, {}) = {}
  BY DEF Born, Namings
<1>4. DOMAIN p.secrets = {} /\ Entries(p.secrets)
  BY <1>1 DEF NoSecrets, Entries
<1>5. SecretsFit(E, {}, p.secrets)
  BY <1>3, <1>4 DEF SecretsFit, Held
<1>6. ReplacedFits(E, {}, p.replaced)
  BY <1>1 DEF ReplacedFits
<1>7. /\ NameFits(E, {}, p.name) /\ EpochFits(E, {}, p.epoch)
      /\ p.name \in Id \cup {Unnamed}
  BY <1>1, <1>3 DEF NameFits, EpochFits
<1>8. SecretsKnown(E, {}, p.secrets)
  BY <1>4 DEF SecretsKnown
<1>9. QED
  BY <1>2, <1>5, <1>6, <1>7, <1>8 DEF Faithful

(* In whatever order the causal order allows, a store is folded into a     *)
(* projection that is faithful to it.                                      *)
LEMMA FoldIsFaithful ==
  ASSUME NEW E, Content(E), NEW S, Settled(E, S), NEW q, Ordered(E, S, q)
  PROVE  Faithful(E, S, FoldOrder(E, q))
<1>1. /\ Signed(E) /\ S \in SUBSET DOMAIN E /\ Whole(E, S)
      /\ Chain(E, S, q) /\ q \in Seq(S) /\ Len(q) \in Nat /\ Range(q) = S
  BY DEF Content, History, Settled, Whole, Ordered, Chain
<1>2. PICK f : /\ f[0] = EmptyProjection
               /\ \A n \in 1..Len(q) : f[n] = Step(E, f[n - 1], q[n])
               /\ FoldOrder(E, q) = f[Len(q)]
  BY <1>1, FoldFacts
<1> DEFINE Q == {n \in 0..Len(q) : Faithful(E, First(q, n), f[n])}
<1>3. 0 \in Q
  <2>1. First(q, 0) = {}
    BY <1>1, FirstFacts
  <2>2. Faithful(E, First(q, 0), f[0])
    BY <1>2, <2>1, EmptyIsFaithful
  <2>3. QED
    BY <1>1, <2>2
<1>4. ASSUME NEW n \in 0..Len(q), n # Len(q), n \in Q
      PROVE  n + 1 \in Q
  <2>1. n + 1 \in 1..Len(q) /\ (n + 1) - 1 = n /\ n + 1 \in 0..Len(q)
    BY <1>1, <1>4
  <2> DEFINE W == First(q, n)
             x == q[n + 1]
             p == f[n]
  <2>2. W \subseteq S /\ \A y \in W : Past(E, y) \subseteq W
    BY <1>1, ChainIsCausal
  <2>3. x \in S \ W /\ Past(E, x) \subseteq W
    BY <1>1, <1>4, ChainIsCausal
  <2>4. First(q, n + 1) = W \cup {x}
    BY <1>1, <2>1, FirstFacts
  <2>5. f[n + 1] = Step(E, p, x)
    BY <1>2, <2>1
  <2>6. Faithful(E, W, p)
    BY <1>4
  <2> HIDE DEF W, x, p
  <2>7. Folding(E, S, W, x)
    BY <1>1, <2>2, <2>3 DEF Folding, Whole
  <2>8. Faithful(E, W \cup {x}, Step(E, p, x))
    BY <2>6, <2>7, StepIsFaithful
  <2>9. QED
    BY <2>1, <2>4, <2>5, <2>8
<1>5. Len(q) \in Q
  <2>1. \A n \in 0..Len(q) : n \in Q
    <3> HIDE DEF Q
    <3>1. QED
      BY <1>1, <1>3, <1>4, CountingUp
  <2>2. QED
    BY <1>1, <2>1
<1>6. First(q, Len(q)) = S
  BY <1>1, FirstFacts
<1>7. QED
  BY <1>2, <1>5, <1>6

(* What is live is what was created and not deleted. *)
LEMMA LiveIsHeld ==
  ASSUME NEW E, Content(E), NEW S, Settled(E, S), NEW secrets, SecretsFit(E, S, secrets)
  PROVE  LiveSecrets(Stored(E, S), secrets) = Held(E, S)
<1> DEFINE P == Stored(E, S)
<1>1. \A x \in S : Reach(P, x) = Past(E, x)
  BY WholeGraph DEF Content, Settled
<1>2. Alive \notin S
  BY IdIsPositive DEF Content, History, Settled, Whole, Signed, Alive
<1>3. ASSUME NEW s \in DOMAIN secrets
      PROVE  s \in Held(E, S) <=>
               \/ secrets[s].deleted = Alive
               \/ ~IsAncestor(P, secrets[s].by, secrets[s].deleted)
  <2>1. CASE s \in Held(E, S)
    BY <2>1 DEF SecretsFit
  <2>2. CASE s \notin Held(E, S)
    <3>1. s \in Gone(E, S)
      BY <2>2 DEF SecretsFit, Held
    <3>2. secrets[s].deleted \in S /\ secrets[s].by \in Past(E, secrets[s].deleted)
      BY <3>1 DEF SecretsFit
    <3>3. secrets[s].deleted # Alive
      BY <1>2, <3>2
    <3>4. IsAncestor(P, secrets[s].by, secrets[s].deleted)
      BY <1>1, <3>2 DEF IsAncestor
    <3>5. QED
      BY <2>2, <3>3, <3>4
  <2>3. QED
    BY <2>1, <2>2
<1>4. Held(E, S) \subseteq DOMAIN secrets
  BY DEF SecretsFit
<1>5. QED
  BY <1>3, <1>4 DEF LiveSecrets

-----------------------------------------------------------------------------
(***************************************************************************)
(* Signing keeps what is said of the events signed before.                 *)
(***************************************************************************)
LEMMA ContentIsHistory ==
  ASSUME NEW E, NEW F, SignedAfter(E, F), NEW W \in SUBSET DOMAIN E
  PROVE  /\ Born(F, W) = Born(E, W)
         /\ Gone(F, W) = Gone(E, W)
         /\ Held(F, W) = Held(E, W)
         /\ \A name : NameFits(F, W, name) <=> NameFits(E, W, name)
<1>1. \A x \in W : F[x] = E[x] /\ Past(F, x) = Past(E, x)
  BY PastIsHistory DEF SignedAfter
<1>2. Born(F, W) = Born(E, W)
  BY <1>1 DEF Born
<1>3. Gone(F, W) = Gone(E, W)
  BY <1>1 DEF Gone
<1>4. Namings(F, W) = Namings(E, W)
  BY <1>1 DEF Namings
<1>5. Latest(F, W) = Latest(E, W)
  <2>1. Namings(E, W) \subseteq W
    BY DEF Namings
  <2>2. \A y \in Namings(E, W) : Past(F, y) = Past(E, y)
    BY <1>1, <2>1
  <2>3. QED
    BY <1>4, <2>2 DEF Latest
<1>6. QED
  BY <1>2, <1>3, <1>4, <1>5 DEF Held, NameFits

(* What must be shown of newly signed events. *)
NewEdits(E, F) ==
  \A x \in DOMAIN F \ DOMAIN E :
    /\ F[x].operation \in Operation
    /\ F[x].operation.op = "EpochCheckpoint" <=> F[x].kind = "EpochCheckpoint"
    /\ F[x].operation.op \notin {"Other", "EpochCheckpoint"} => F[x].kind = "Mutation"
    /\ Deletes(F[x].operation) \subseteq Born(F, Past(F, x))
    /\ F[x].kind # "EpochCheckpoint" =>
         \A y \in DOMAIN F \ {x} : Creates(F[x].operation) \cap Creates(F[y].operation) = {}
    /\ \A t \in CommittedParents(F[x]) :
         F[x].operation.secrets \subseteq Born(F, Past(F, t))

(* Signing such events keeps the promises of the handlers. *)
LEMMA SigningKeepsContent ==
  ASSUME NEW E, NEW F, SignedAfter(E, F), Content(E),
         History(F), Seals(F), Rooted(F), NewEdits(E, F)
  PROVE  Content(F)
<1>1. /\ Signed(E) /\ \A x \in DOMAIN E : F[x] = E[x] /\ x \in DOMAIN F
      /\ Edits(E) /\ Creations(E) /\ Deletions(E) /\ Carried(E)
  BY DEF SignedAfter, Content
<1>2. \A x \in DOMAIN E : Past(F, x) = Past(E, x) /\ Past(E, x) \in SUBSET DOMAIN E
  BY <1>1, PastIsHistory, PastFacts
<1>3. Edits(F)
  <2>1. ASSUME NEW x \in DOMAIN F
        PROVE  /\ F[x].operation \in Operation
               /\ F[x].operation.op = "EpochCheckpoint" <=> F[x].kind = "EpochCheckpoint"
               /\ F[x].operation.op \notin {"Other", "EpochCheckpoint"}
                    => F[x].kind \in {"Mutation", "VaultImported"}
    <3>1. CASE x \in DOMAIN E
      BY <1>1, <3>1 DEF Edits
    <3>2. CASE x \notin DOMAIN E
      BY <3>2 DEF NewEdits
    <3>3. QED
      BY <3>1, <3>2
  <2>2. QED
    BY <2>1 DEF Edits
<1>4. Creations(F)
  <2>1. ASSUME NEW x \in DOMAIN F, NEW y \in DOMAIN F, x # y,
               F[x].kind # "EpochCheckpoint", F[y].kind # "EpochCheckpoint"
        PROVE  Creates(F[x].operation) \cap Creates(F[y].operation) = {}
    <3>1. CASE x \notin DOMAIN E
      BY <2>1, <3>1 DEF NewEdits
    <3>2. CASE y \notin DOMAIN E
      BY <2>1, <3>2 DEF NewEdits
    <3>3. CASE x \in DOMAIN E /\ y \in DOMAIN E
      BY <1>1, <2>1, <3>3 DEF Creations
    <3>4. QED
      BY <3>1, <3>2, <3>3
  <2>2. QED
    BY <2>1 DEF Creations
<1>5. Deletions(F)
  <2>1. ASSUME NEW x \in DOMAIN F
        PROVE  Deletes(F[x].operation) \subseteq Born(F, Past(F, x))
    <3>1. CASE x \in DOMAIN E
      <4> DEFINE W == Past(E, x)
      <4>1. Past(F, x) = W /\ W \in SUBSET DOMAIN E
        BY <1>2, <3>1
      <4>2. Deletes(E[x].operation) \subseteq Born(E, W)
        BY <1>1, <3>1 DEF Deletions
      <4> HIDE DEF W
      <4>3. Born(F, W) = Born(E, W)
        BY <4>1, ContentIsHistory
      <4>4. QED
        BY <1>1, <3>1, <4>1, <4>2, <4>3
    <3>2. CASE x \notin DOMAIN E
      BY <3>2 DEF NewEdits
    <3>3. QED
      BY <3>1, <3>2
  <2>2. QED
    BY <2>1 DEF Deletions
<1>6. Carried(F)
  <2>1. ASSUME NEW c \in DOMAIN F, NEW t \in CommittedParents(F[c])
        PROVE  F[c].operation.secrets \subseteq Born(F, Past(F, t))
    <3>1. CASE c \in DOMAIN E
      <4> DEFINE W == Past(E, t)
                 o == E[c].operation
      <4>1. F[c] = E[c] /\ t \in CommittedParents(E[c])
        BY <1>1, <2>1, <3>1
      <4>2. t \in DOMAIN E
        BY <1>1, <3>1, <4>1 DEF CommittedParents, Signed
      <4>3. Past(F, t) = W /\ W \in SUBSET DOMAIN E
        BY <1>2, <4>2
      <4>4. o.secrets \subseteq Born(E, W)
        BY <1>1, <3>1, <4>1 DEF Carried
      <4> HIDE DEF W
      <4>5. Born(F, W) = Born(E, W)
        BY <4>3, ContentIsHistory
      <4>6. QED
        BY <4>1, <4>3, <4>4, <4>5
    <3>2. CASE c \notin DOMAIN E
      BY <2>1, <3>2 DEF NewEdits
    <3>3. QED
      BY <3>1, <3>2
  <2>2. QED
    BY <2>1 DEF Carried
<1>7. QED
  BY <1>3, <1>4, <1>5, <1>6 DEF Content

(* So does signing checkpoints that record their past.                     *)
LEMMA SigningKeepsCheckpoints ==
  ASSUME NEW E, NEW F, SignedAfter(E, F), Checkpoints(E),
         \A c \in DOMAIN F \ DOMAIN E : \A t \in CommittedParents(F[c]) :
           /\ F[c].operation.secrets = Held(F, Past(F, t))
           /\ NameFits(F, Past(F, t), F[c].operation.name)
  PROVE  Checkpoints(F)
<1>1. ASSUME NEW c \in DOMAIN F, NEW t \in CommittedParents(F[c])
      PROVE  /\ F[c].operation.secrets = Held(F, Past(F, t))
             /\ NameFits(F, Past(F, t), F[c].operation.name)
  <2>1. CASE c \in DOMAIN E
    <3> DEFINE W == Past(E, t)
               o == E[c].operation
    <3>1. F[c] = E[c] /\ t \in CommittedParents(E[c])
      BY <1>1, <2>1 DEF SignedAfter
    <3>2. t \in DOMAIN E
      BY <2>1, <3>1 DEF CommittedParents, Signed, SignedAfter
    <3>3. Past(F, t) = W /\ W \in SUBSET DOMAIN E
      BY <3>2, PastIsHistory, PastFacts DEF SignedAfter
    <3>4. o.secrets = Held(E, W) /\ NameFits(E, W, o.name)
      BY <2>1, <3>1 DEF Checkpoints
    <3> HIDE DEF W
    <3>5. Held(F, W) = Held(E, W) /\ \A name : NameFits(F, W, name) <=> NameFits(E, W, name)
      BY <3>3, ContentIsHistory
    <3>6. QED
      BY <3>1, <3>3, <3>4, <3>5
  <2>2. CASE c \notin DOMAIN E
    BY <1>1, <2>2
  <2>3. QED
    BY <2>1, <2>2
<1>2. QED
  BY <1>1 DEF Checkpoints

-----------------------------------------------------------------------------
(***************************************************************************)
(* An event that a device signs on its heads.                              *)
(***************************************************************************)
Clean(E, S) == Settled(E, S) /\ Incomplete(E, S) = {}

(* Signing elsewhere does not touch a clean store. *)
LEMMA SigningKeepsClean ==
  ASSUME NEW E, NEW F, SignedAfter(E, F), NEW S, Clean(E, S)
  PROVE  Clean(F, S)
<1>1. S \in SUBSET DOMAIN E /\ \A x \in S : Past(E, x) \subseteq S
  BY DEF Clean, Settled, Whole
<1>2. Incomplete(F, S) = Incomplete(E, S) /\ SecurityConflicts(F, S) = SecurityConflicts(E, S)
  BY <1>1, GraphIsHistory
<1>3. \A x \in S : Past(F, x) = Past(E, x)
  BY <1>1, PastIsHistory
<1>4. S \subseteq DOMAIN F
  BY <1>1 DEF SignedAfter
<1>5. QED
  BY <1>1, <1>2, <1>3, <1>4 DEF Clean, Settled, Whole

(* The past of an event on the heads is the store, and a lawful event      *)
(* joins the history.                                                      *)
LEMMA HeadEventJoins ==
  ASSUME NEW E, Content(E), NEW S, Clean(E, S), S # {},
         NEW id \in Id \ DOMAIN E, NEW e,
         e.parents = Heads(LoadGraph(E, S)),
         e.kind \notin {"VaultImported", "EpochCheckpoint"},
         NEW F, F = [x \in DOMAIN E \cup {id} |-> IF x = id THEN e ELSE E[x]],
         Past(F, id) = S => Lawful(F, id)
  PROVE  /\ SignedAfter(E, F)
         /\ DOMAIN F = DOMAIN E \cup {id} /\ F[id] = e
         /\ Past(F, id) = S
         /\ History(F)
         /\ Seals(F)
         /\ Rooted(F)
<1>1. /\ Signed(E) /\ IsFiniteSet(DOMAIN E) /\ Acyclic(E) /\ Accepted(E) = DOMAIN E
      /\ History(E) /\ Seals(E) /\ Rooted(E)
      /\ S \in SUBSET DOMAIN E /\ Whole(E, S) /\ \A x \in S : Past(E, x) \subseteq S
      /\ Incomplete(E, S) = {}
  BY DEF Content, History, Clean, Settled, Whole
<1>2. Quarantined(LoadGraph(E, S)) = {}
  BY <1>1, WholeGraph
<1>3. Heads(LoadGraph(E, S)) \subseteq S
  BY <1>1, <1>2, HeadsOfAcceptedGraph
<1>4. e.parents \subseteq DOMAIN E
  BY <1>1, <1>3
<1>5. /\ SignedAfter(E, F)
      /\ DOMAIN F = DOMAIN E \cup {id} /\ F[id] = e
      /\ IsFiniteSet(DOMAIN F)
      /\ Acyclic(F)
      /\ Past(F, id) \subseteq DOMAIN E
  BY <1>1, <1>4, SignedEventIsLast
<1>6. Signed(F) /\ id \in DOMAIN F /\ \A x \in DOMAIN E : F[x] = E[x] /\ x \in DOMAIN F
  BY <1>5 DEF SignedAfter
<1>7. S \subseteq Past(F, id)
  <2>1. F[id].parents = Heads(LoadGraph(E, S))
    BY <1>5
  <2>2. QED
    BY <1>1, <1>2, <1>5, <1>6, <2>1, HeadsAreAboveAll
<1>8. Past(F, id) \subseteq S
  <2>1. \A y \in Past(F, id) : \E p \in F[id].parents : y = p \/ y \in Past(F, p)
    BY <1>6, PastThroughParents
  <2>2. \A p \in S : Past(F, p) = Past(E, p)
    BY <1>1, <1>5, PastIsHistory
  <2>3. F[id].parents \subseteq S
    BY <1>3, <1>5
  <2>4. QED
    BY <1>1, <2>1, <2>2, <2>3
<1>9. Past(F, id) = S
  BY <1>7, <1>8
<1>10. Accepted(F) = DOMAIN F
  <2>1. \A x \in DOMAIN E : x \in Accepted(F)
    BY <1>1, <1>5, AcceptedIsHistory
  <2>2. \A y \in S : Lawful(F, y)
    BY <1>1, <2>1 DEF Accepted
  <2>3. id \in Accepted(F)
    BY <1>6, <1>9, <2>2 DEF Accepted
  <2>4. Accepted(F) \subseteq DOMAIN F
    BY DEF Accepted
  <2>5. QED
    BY <1>5, <2>1, <2>3, <2>4
<1>11. History(F)
  BY <1>5, <1>6, <1>10 DEF History
<1>12. Seals(F)
  <2>1. CommittedParents(F[id]) = {}
    BY <1>5 DEF CommittedParents
  <2>2. S \cup {id} \in SUBSET DOMAIN F
    BY <1>1, <1>5
  <2>3. id \in Applicable(LoadGraph(F, S \cup {id}))
    BY <1>6, <1>9, <1>10, <2>2, ApplicableIsAccepted
  <2>4. OneCheckpoint(E) /\ SealedHistory(E)
    BY <1>1 DEF Seals
  <2>5. OneCheckpoint(F) /\ SealedHistory(F)
    BY <1>1, <1>5, <1>7, <2>1, <2>3, <2>4, HeadEventKeepsSeals
  <2>6. QED
    BY <2>5 DEF Seals
<1>13. Rooted(F)
  <2>1. PICK g \in DOMAIN E : \A x \in DOMAIN E :
               /\ x = g \/ g \in Past(E, x)
               /\ E[x].kind = "VaultImported" => x = g
    BY <1>1 DEF Rooted
  <2>2. g \in Past(F, id)
    BY <1>1, <1>9, <2>1
  <2>3. F[id].kind # "VaultImported"
    BY <1>5
  <2>4. \A x \in DOMAIN E : Past(F, x) = Past(E, x)
    BY <1>5, PastIsHistory
  <2>5. \A x \in DOMAIN F :
          /\ x = g \/ g \in Past(F, x)
          /\ F[x].kind = "VaultImported" => x = g
    BY <1>5, <1>6, <2>1, <2>2, <2>3, <2>4
  <2>6. QED
    BY <1>6, <2>1, <2>5 DEF Rooted
<1>14. QED
  BY <1>5, <1>9, <1>11, <1>12, <1>13

(* A store that only holds what precedes or equals newly signed events     *)
(* above it stays clean, if every new revocation comes with a checkpoint.  *)
LEMMA StoringKeepsClean ==
  ASSUME NEW E, NEW F, SignedAfter(E, F), History(E), History(F),
         NEW S, Clean(E, S), NEW X \in SUBSET (DOMAIN F \ DOMAIN E),
         \A x \in X : S \subseteq Past(F, x) /\ Past(F, x) \subseteq S \cup X,
         \A x, y \in X : Rotates(F[x]) /\ x # y => x \in Past(F, y),
         \A t \in X : F[t].kind = "DeviceRevoked" =>
                        \E c \in X : t \in CommittedParents(F[c])
  PROVE  Clean(F, S \cup X)
<1> DEFINE V == S \cup X
<1>1. /\ Signed(E) /\ Signed(F) /\ Accepted(F) = DOMAIN F
      /\ S \in SUBSET DOMAIN E /\ \A x \in S : Past(E, x) \subseteq S
      /\ Incomplete(E, S) = {} /\ SecurityConflicts(E, S) = {} /\ Whole(E, S)
  BY DEF SignedAfter, History, Clean, Settled, Whole
<1>2. V \in SUBSET DOMAIN F
  BY <1>1 DEF SignedAfter
<1>3. \A x \in S : Past(F, x) = Past(E, x) /\ F[x] = E[x]
  BY <1>1, PastIsHistory DEF SignedAfter
<1>4. Whole(F, V)
  <2>1. \A x \in V : Past(F, x) \subseteq V
    BY <1>1, <1>3
  <2>2. QED
    BY <1>2, <2>1 DEF Whole
<1>5. Applicable(LoadGraph(F, V)) = V /\ Applicable(LoadGraph(E, S)) = S
  <2> HIDE DEF V
  <2>1. Applicable(LoadGraph(F, V)) = V
    BY <1>4, WholeGraph
  <2>2. Applicable(LoadGraph(E, S)) = S
    BY <1>1, WholeGraph
  <2>3. QED
    BY <2>1, <2>2
<1>6. Incomplete(F, V) = {}
  <2>1. X \subseteq Applicable(LoadGraph(F, S \cup X))
    BY <1>5
  <2>2. QED
    BY <1>1, <2>1, SigningKeepsEpochsWhole
<1>7. SecurityConflicts(F, V) = {}
  <2>1. SecurityConflicts(F, V)
          = {p \in V \X V :
               /\ Rotates(F[p[1]])
               /\ Rotates(F[p[2]]) \/ MutatesAccess(F[p[2]])
               /\ p[1] # p[2]
               /\ p[1] \notin Past(F, p[2])
               /\ p[2] \notin Past(F, p[1])}
    <3> HIDE DEF V
    <3>1. QED
      BY <1>1, <1>2, <1>5, ConflictsAreConcurrent
  <2>2. {p \in S \X S :
           /\ Rotates(E[p[1]])
           /\ Rotates(E[p[2]]) \/ MutatesAccess(E[p[2]])
           /\ p[1] # p[2]
           /\ p[1] \notin Past(E, p[2])
           /\ p[2] \notin Past(E, p[1])} = {}
    BY <1>1, <1>5, ConflictsAreConcurrent
  <2>3. ASSUME NEW u \in V, NEW y \in V, Rotates(F[u]),
               Rotates(F[y]) \/ MutatesAccess(F[y]), u # y,
               u \notin Past(F, y), y \notin Past(F, u)
        PROVE  FALSE
    <3>1. u \notin X \/ y \notin S
      BY <2>3
    <3>2. u \notin S \/ y \notin X
      BY <2>3
    <3>3. u \notin X \/ y \notin X
      BY <2>3
    <3>4. u \in S /\ y \in S
      BY <2>3, <3>1, <3>2, <3>3
    <3>5. <<u, y>> \in S \X S /\ <<u, y>>[1] = u /\ <<u, y>>[2] = y
      BY <3>4
    <3>6. QED
      BY <1>3, <2>2, <2>3, <3>4, <3>5
  <2>4. ASSUME NEW p \in SecurityConflicts(F, V)
        PROVE  FALSE
    <3>1. /\ p[1] \in V /\ p[2] \in V
          /\ Rotates(F[p[1]])
          /\ Rotates(F[p[2]]) \/ MutatesAccess(F[p[2]])
          /\ p[1] # p[2]
          /\ p[1] \notin Past(F, p[2])
          /\ p[2] \notin Past(F, p[1])
      BY <2>1, <2>4
    <3>2. QED
      BY <2>3, <3>1
  <2>5. QED
    BY <2>4
<1>8. QED
  BY <1>4, <1>6, <1>7 DEF Clean, Settled

-----------------------------------------------------------------------------
(***************************************************************************)
(* What a store shows.                                                     *)
(***************************************************************************)
LEMMA ViewIsFaithful ==
  ASSUME NEW E, Content(E), NEW S, Settled(E, S)
  PROVE  /\ Faithful(E, S, Projection(E, S))
         /\ LiveSecrets(Stored(E, S), Projection(E, S).secrets) \subseteq Born(E, S)
         /\ Checkpoints(E) =>
              LiveSecrets(Stored(E, S), Projection(E, S).secrets) = Held(E, S)
<1> DEFINE q == TopologicalOrder(LoadGraph(E, S))
<1>1. Ordered(E, S, q)
  BY TopologicalOrderIsOrdered DEF Content, Settled
<1> HIDE DEF q
<1>2. Faithful(E, S, FoldOrder(E, q))
  BY <1>1, FoldIsFaithful
<1>3. Faithful(E, S, Projection(E, S))
  BY <1>2 DEF Projection, q
<1> DEFINE secrets == Projection(E, S).secrets
<1>4. /\ SecretsKnown(E, S, secrets)
      /\ Checkpoints(E) => SecretsFit(E, S, secrets)
  BY <1>3 DEF Faithful
<1> HIDE DEF secrets
<1>5. LiveSecrets(Stored(E, S), secrets) \subseteq Born(E, S)
  BY <1>4 DEF LiveSecrets, SecretsKnown
<1>6. Checkpoints(E) => LiveSecrets(Stored(E, S), secrets) = Held(E, S)
  BY <1>4, LiveIsHeld
<1>7. QED
  BY <1>3, <1>5, <1>6 DEF secrets

(* The secrets in a history are secrets, and its names are events.         *)
LEMMA ContentTypes ==
  ASSUME NEW E, Content(E), NEW S \in SUBSET DOMAIN E
  PROVE  /\ Born(E, S) \in SUBSET Secret
         /\ \A name : NameFits(E, S, name) => name \in Id \cup {Unnamed}
<1>1. \A x \in S : Creates(E[x].operation) \in SUBSET Secret
  BY OperationFacts DEF Content, Edits
<1>2. Born(E, S) \in SUBSET Secret
  BY <1>1 DEF Born
<1>3. S \subseteq Id
  BY DEF Content, History, Signed
<1>4. QED
  BY <1>2, <1>3 DEF NameFits, Latest, Namings

(* So is what a tab remembers that has projected such a store.             *)
LEMMA OpenedFacts ==
  ASSUME NEW E, Content(E), NEW S, Settled(E, S), \A x \in S : E[x].device \in Device
  PROVE  /\ Opened(E, S) \in Vault
         /\ Opened(E, S).secrets \subseteq Born(E, S)
         /\ Checkpoints(E) => /\ Opened(E, S).secrets = Held(E, S)
                              /\ NameFits(E, S, Opened(E, S).name)
<1> DEFINE p == Projection(E, S)
           live == LiveSecrets(Stored(E, S), p.secrets)
           name == p.name
           members == Roster(E, S)
<1>1. Opened(E, S) = [secrets |-> live, name |-> name, members |-> members]
  BY DEF Opened
<1>2. /\ Faithful(E, S, p)
      /\ live \subseteq Born(E, S)
      /\ Checkpoints(E) => live = Held(E, S)
  BY ViewIsFaithful
<1>3. S \in SUBSET DOMAIN E
  BY DEF Settled, Whole
<1>4. Born(E, S) \in SUBSET Secret
  BY <1>3, ContentTypes
<1>5. name \in Id \cup {Unnamed} /\ (Checkpoints(E) => NameFits(E, S, name))
  BY <1>2 DEF Faithful
<1>6. members \in SUBSET Device
  <2>1. Applicable(LoadGraph(E, S)) = S
    BY WholeGraph DEF Content, Settled
  <2>2. QED
    BY <2>1 DEF Roster, Of
<1> HIDE DEF live, name, members, p
<1>7. QED
  BY <1>1, <1>2, <1>4, <1>5, <1>6 DEF Vault

(***************************************************************************)
(* The inductive invariant. Base is about the events and what is kept on   *)
(* the device, Memories about the tabs: whatever else a stale tab believes *)
(* of the vault, a secret it remembers was created by an event that its    *)
(* device holds. This much is true of any number of tabs.                  *)
(***************************************************************************)
Approvals(E) ==
  \A a \in DOMAIN E : E[a].kind \in {"VaultImported", "JoinApproved"} =>
    \A r \in Past(E, a) : E[r].kind # "DeviceRevoked"

Labels ==
  /\ \A x \in DOMAIN events : events[x].epoch \in Epoch /\ events[x].device \in Device
  /\ keyEpoch \in [Device -> [Tab -> Epoch]]

Stores ==
  /\ store \in [Device -> SUBSET DOMAIN events]
  /\ \A d \in Device : Clean(events, store[d])

Base == Content(events) /\ Approvals(events) /\ Labels /\ Stores

Memories ==
  /\ memory \in [Device -> [Tab -> Vault]]
  /\ \A d \in Device, t \in Tab : memory[d][t].secrets \subseteq Born(events, store[d])

Inv == Base /\ Memories

(***************************************************************************)
(* What every step does: tab t of device d signs nothing, an ordinary      *)
(* event, or a rotation with its memory in the checkpoint; its device then *)
(* holds V, and the tab refreshes its memory from it or fails to.          *)
(***************************************************************************)
Moves(d, t, V) ==
  /\ SignedAfter(events, events')
  /\ store[d] \subseteq V
  /\ store' = [store EXCEPT ![d] = V]
  /\ Refresh(d, t, events', V)
  /\ \A c \in DOMAIN events' \ DOMAIN events : \A r \in CommittedParents(events'[c]) :
       /\ d \in Roster(events, store[d])
       /\ Past(events', r) = store[d]
       /\ events'[c].operation.secrets = memory[d][t].secrets
       /\ events'[c].operation.name = memory[d][t].name

Proceeds(d, t) == Base' /\ \E V : Moves(d, t, V)

(* One entry of a table of the tabs changes. *)
LEMMA TabEntry ==
  ASSUME NEW T, NEW f \in [Device -> [Tab -> T]], NEW d \in Device, NEW t \in Tab,
         NEW v \in T, NEW g, g = [f EXCEPT ![d][t] = v]
  PROVE  /\ g \in [Device -> [Tab -> T]]
         /\ \A k \in Device, u \in Tab :
              g[k][u] = IF k = d /\ u = t THEN v ELSE f[k][u]
<1>1. \A k \in Device : g[k] = IF k = d THEN [f[d] EXCEPT ![t] = v] ELSE f[k]
  OBVIOUS
<1>2. \A k \in Device : f[k] \in [Tab -> T]
  OBVIOUS
<1>3. [f[d] EXCEPT ![t] = v] \in [Tab -> T]
  BY <1>2
<1>4. \A u \in Tab : [f[d] EXCEPT ![t] = v][u] = IF u = t THEN v ELSE f[d][u]
  BY <1>2
<1>5. g = [k \in Device |-> g[k]]
  OBVIOUS
<1>6. g \in [Device -> [Tab -> T]]
  BY <1>1, <1>2, <1>3, <1>5
<1>7. QED
  BY <1>1, <1>4, <1>6

(* Such a step keeps what is true of the memory of any tab.                *)
LEMMA MovesKeepMemories ==
  ASSUME Inv, Base', NEW d \in Device, NEW t \in Tab, NEW V, Moves(d, t, V)
  PROVE  Memories'
<1> DEFINE E == events
           F == events'
           vault == Opened(F, V)
<1>1. /\ SignedAfter(E, F) /\ store[d] \subseteq V
      /\ store' = [store EXCEPT ![d] = V]
      /\ store \in [Device -> SUBSET DOMAIN E]
      /\ memory \in [Device -> [Tab -> Vault]]
      /\ \A k \in Device, u \in Tab : memory[k][u].secrets \subseteq Born(E, store[k])
  BY DEF Inv, Base, Stores, Memories, Moves
<1>2. \A k \in Device : store'[k] = IF k = d THEN V ELSE store[k]
  BY <1>1
<1>3. /\ Content(F) /\ Clean(F, V)
      /\ \A x \in DOMAIN F : F[x].device \in Device
  BY <1>2 DEF Base, Stores, Labels
<1>4. vault \in Vault /\ vault.secrets \subseteq Born(F, V)
  <2>1. Settled(F, V) /\ V \subseteq DOMAIN F
    BY <1>3 DEF Clean, Settled, Whole
  <2> HIDE DEF F
  <2>2. QED
    BY <1>3, <2>1, OpenedFacts
<1>5. memory' = [memory EXCEPT ![d][t] = vault] \/ memory' = memory
  BY DEF Moves, Refresh
<1>6. \A k \in Device, u \in Tab : memory[k][u].secrets \subseteq Born(F, store'[k])
  <2>1. ASSUME NEW k \in Device, NEW u \in Tab
        PROVE  memory[k][u].secrets \subseteq Born(F, store'[k])
    <3> DEFINE W == store[k]
               W2 == store'[k]
    <3>1. W \in SUBSET DOMAIN E /\ W \subseteq W2 /\ memory[k][u].secrets \subseteq Born(E, W)
      BY <1>1, <1>2
    <3> HIDE DEF W, W2, E, F
    <3>2. Born(F, W) = Born(E, W)
      BY <1>1, <3>1, ContentIsHistory
    <3>3. Born(F, W) \subseteq Born(F, W2)
      BY <3>1, BornGrows
    <3>4. QED
      BY <3>1, <3>2, <3>3 DEF W2
  <2>2. QED
    BY <2>1
<1> HIDE DEF vault, F, E
<1>7. CASE memory' = memory
  BY <1>1, <1>6, <1>7 DEF Memories, F
<1>8. CASE memory' = [memory EXCEPT ![d][t] = vault]
  <2>1. /\ memory' \in [Device -> [Tab -> Vault]]
        /\ \A k \in Device, u \in Tab :
             memory'[k][u] = IF k = d /\ u = t THEN vault ELSE memory[k][u]
    BY <1>1, <1>4, <1>8, TabEntry
  <2>2. \A k \in Device, u \in Tab : memory'[k][u].secrets \subseteq Born(F, store'[k])
    BY <1>2, <1>4, <1>6, <2>1
  <2>3. QED
    BY <2>1, <2>2 DEF Memories, F
<1>9. QED
  BY <1>5, <1>7, <1>8

(* Approvals stay before every revocation when none is signed.             *)
LEMMA SigningKeepsApprovals ==
  ASSUME NEW E, NEW F, SignedAfter(E, F), Approvals(E),
         \A x \in DOMAIN F \ DOMAIN E : F[x].kind \notin {"VaultImported", "JoinApproved"}
  PROVE  Approvals(F)
<1>1. \A x \in DOMAIN E : /\ F[x] = E[x] /\ Past(F, x) = Past(E, x)
                          /\ Past(E, x) \subseteq DOMAIN E
  BY PastIsHistory, PastFacts DEF SignedAfter
<1>2. ASSUME NEW a \in DOMAIN F, F[a].kind \in {"VaultImported", "JoinApproved"},
             NEW r \in Past(F, a)
      PROVE  F[r].kind # "DeviceRevoked"
  <2>1. a \in DOMAIN E
    BY <1>2
  <2>2. r \in Past(E, a) /\ F[r] = E[r] /\ F[a] = E[a]
    BY <1>1, <1>2, <2>1
  <2>3. QED
    BY <1>2, <2>1, <2>2 DEF Approvals
<1>3. QED
  BY <1>2 DEF Approvals

(* The labels in use stay labels when more is signed.                      *)
LEMMA SigningKeepsLabels ==
  ASSUME SignedAfter(events, events'), Labels,
         \A x \in DOMAIN events' \ DOMAIN events :
           /\ events'[x].epoch \in Epoch \/ events'[x].epoch \in Epoch'
           /\ events'[x].device \in Device,
         \/ keyEpoch' \in [Device -> [Tab -> Epoch]]
         \/ keyEpoch' \in [Device -> [Tab -> Epoch']]
  PROVE  Labels'
<1>1. Epoch \subseteq Epoch'
  <2>1. \A x \in DOMAIN events : x \in DOMAIN events' /\ events'[x] = events[x]
    BY DEF SignedAfter
  <2>2. QED
    BY <2>1 DEF Epoch, Of
<1>2. ASSUME NEW x \in DOMAIN events'
      PROVE  events'[x].epoch \in Epoch' /\ events'[x].device \in Device
  <2>1. CASE x \in DOMAIN events
    <3>1. /\ events'[x] = events[x]
          /\ events[x].epoch \in Epoch /\ events[x].device \in Device
      BY <2>1 DEF Labels, SignedAfter
    <3>2. QED
      BY <1>1, <3>1
  <2>2. CASE x \notin DOMAIN events
    BY <1>1, <2>2
  <2>3. QED
    BY <2>1, <2>2
<1>3. keyEpoch' \in [Device -> [Tab -> Epoch']]
  <2>1. [Tab -> Epoch] \subseteq [Tab -> Epoch']
    BY <1>1
  <2>2. QED
    BY <2>1
<1>4. QED
  BY <1>2, <1>3 DEF Labels

-----------------------------------------------------------------------------
(***************************************************************************)
(* Initially: the approvals form a chain above genesis.                    *)
(***************************************************************************)
ChainOfApprovals(E, N, ids, members, imported) ==
  /\ N \in Nat /\ 1 \in 1..N
  /\ \A i, j \in 1..N : ids[i] = ids[j] => i = j
  /\ \A i \in 1..N : ids[i] \in Id
  /\ DOMAIN E = {ids[i] : i \in 1..N}
  /\ \A i \in 1..N :
       E[ids[i]] = IF i = 1 THEN Genesis(imported) ELSE Approval(ids[i - 1], members[i])

(* The past of an approval is what was approved before it.                 *)
LEMMA ApprovalsFollow ==
  ASSUME NEW E, NEW N, NEW ids, NEW members, NEW imported,
         ChainOfApprovals(E, N, ids, members, imported)
  PROVE  /\ Signed(E)
         /\ \A i \in 1..N : Past(E, ids[i]) = {ids[j] : j \in 1..(i - 1)}
<1> DEFINE A(n) == {ids[j] : j \in 1..n}
<1>1. /\ N \in Nat
      /\ \A i \in 1..N : ids[i] \in DOMAIN E
      /\ \A i \in 1..N : i = 1 => E[ids[i]].parents = {}
      /\ \A i \in 1..N : i # 1 => i - 1 \in 1..N /\ E[ids[i]].parents = {ids[i - 1]}
  <2>1. Genesis(imported).parents = {} /\ \A p, m : Approval(p, m).parents = {p}
    BY DEF Genesis, Approval
  <2>2. N \in Nat /\ \A i \in 1..N : ids[i] \in DOMAIN E
    BY DEF ChainOfApprovals
  <2>3. ASSUME NEW i \in 1..N, i = 1
        PROVE  E[ids[i]].parents = {}
    <3>1. E[ids[i]] = Genesis(imported)
      BY <2>3 DEF ChainOfApprovals
    <3>2. QED
      BY <2>1, <3>1
  <2>4. ASSUME NEW i \in 1..N, i # 1
        PROVE  i - 1 \in 1..N /\ E[ids[i]].parents = {ids[i - 1]}
    <3>1. E[ids[i]] = Approval(ids[i - 1], members[i])
      BY <2>4 DEF ChainOfApprovals
    <3>2. i - 1 \in 1..N
      BY <2>2, <2>4
    <3>3. QED
      BY <2>1, <3>1, <3>2
  <2>5. QED
    BY <2>2, <2>3, <2>4
<1>2. Signed(E)
  <2>1. \A x \in DOMAIN E : \E i \in 1..N : x = ids[i]
    BY DEF ChainOfApprovals
  <2>2. DOMAIN E \subseteq Id
    BY <2>1 DEF ChainOfApprovals
  <2>3. \A x \in DOMAIN E : E[x].parents \subseteq DOMAIN E
    BY <1>1, <2>1
  <2>4. QED
    BY <2>2, <2>3 DEF Signed
<1> DEFINE Q == {n \in 0..N : n = 0 \/ Past(E, ids[n]) = A(n - 1)}
<1>3. 0 \in Q
  BY <1>1
<1>4. ASSUME NEW n \in 0..N, n # N, n \in Q
      PROVE  n + 1 \in Q
  <2> DEFINE x == ids[n + 1]
  <2>1. n + 1 \in 1..N /\ (n + 1) - 1 = n
    BY <1>1, <1>4
  <2>2. x \in DOMAIN E
    BY <1>1, <2>1
  <2>3. \A y : y \in Past(E, x) <=> \E p \in E[x].parents : y = p \/ y \in Past(E, p)
    <3> HIDE DEF x
    <3>1. QED
      BY <1>2, <2>2, PastThroughParents
  <2>4. CASE n = 0
    <3>1. E[x].parents = {} /\ A(n) = {}
      BY <1>1, <2>1, <2>4
    <3>2. Past(E, x) = A(n)
      BY <2>3, <3>1
    <3>3. QED
      BY <2>1, <3>2
  <2>5. CASE n # 0
    <3>1. n \in 1..N /\ E[x].parents = {ids[n]}
      BY <1>1, <2>1, <2>5
    <3>2. Past(E, ids[n]) = A(n - 1)
      BY <1>4, <2>5
    <3>3. A(n) = A(n - 1) \cup {ids[n]}
      <4>1. 1..n = 1..(n - 1) \cup {n}
        BY <3>1
      <4>2. QED
        BY <4>1
    <3>4. Past(E, x) = A(n)
      <4> HIDE DEF x, A
      <4>1. QED
        BY <2>3, <3>1, <3>2, <3>3
    <3>5. QED
      BY <2>1, <3>4
  <2>6. QED
    BY <2>4, <2>5
<1>5. \A n \in 0..N : n \in Q
  <2> HIDE DEF Q
  <2>1. QED
    BY <1>1, <1>3, <1>4, CountingUp
<1>6. ASSUME NEW i \in 1..N
      PROVE  Past(E, ids[i]) = A(i - 1)
  <2>1. i \in 0..N /\ i # 0
    BY <1>1
  <2>2. i \in Q
    BY <1>5, <2>1
  <2>3. QED
    BY <2>1, <2>2
<1>7. QED
  BY <1>2, <1>6

(* Such a chain is a history with content, and its store is clean.         *)
LEMMA ApprovalsAreContent ==
  ASSUME NEW E, NEW N, NEW ids, NEW members, NEW imported \in SUBSET Secret,
         ChainOfApprovals(E, N, ids, members, imported)
  PROVE  /\ Content(E) /\ Approvals(E) /\ Checkpoints(E)
         /\ Clean(E, DOMAIN E) /\ Clean(E, {})
<1>1. Signed(E) /\ \A i \in 1..N : Past(E, ids[i]) = {ids[j] : j \in 1..(i - 1)}
  BY ApprovalsFollow
<1>2. /\ N \in Nat /\ 1 \in 1..N
      /\ \A i, j \in 1..N : ids[i] = ids[j] => i = j
      /\ \A i \in 1..N : ids[i] \in DOMAIN E
      /\ \A x \in DOMAIN E : \E i \in 1..N : x = ids[i]
  BY DEF ChainOfApprovals
<1>3. /\ E[ids[1]] = Genesis(imported)
      /\ \A i \in 1..N : i # 1 => E[ids[i]] = Approval(ids[i - 1], members[i])
  BY DEF ChainOfApprovals
<1> DEFINE g == ids[1]
<1>4. /\ E[g].kind = "VaultImported" /\ E[g].device = Owner /\ E[g].parents = {}
      /\ E[g].operation = [op |-> "SecretsAdded", secrets |-> imported]
  BY <1>3 DEF Genesis
<1>5. \A x \in DOMAIN E : x # g =>
        /\ E[x].kind = "JoinApproved" /\ E[x].actor = Owner
        /\ E[x].operation = Other
        /\ g \in Past(E, x)
  <2>1. ASSUME NEW i \in 1..N, i # 1
        PROVE  /\ E[ids[i]].kind = "JoinApproved" /\ E[ids[i]].actor = Owner
               /\ E[ids[i]].operation = Other
               /\ g \in Past(E, ids[i])
    <3>1. E[ids[i]] = Approval(ids[i - 1], members[i])
      BY <1>3, <2>1
    <3>2. 1 \in 1..(i - 1)
      BY <1>2, <2>1
    <3>3. QED
      BY <1>1, <3>1, <3>2 DEF Approval
  <2>2. QED
    BY <1>2, <2>1
<1>6. Acyclic(E)
  <2>1. ASSUME NEW i \in 1..N
        PROVE  ids[i] \notin Past(E, ids[i])
    <3>1. \A j \in 1..(i - 1) : j \in 1..N /\ j # i
      BY <1>2
    <3>2. QED
      BY <1>1, <1>2, <3>1
  <2>2. QED
    BY <1>2, <2>1 DEF Acyclic
<1>7. IsFiniteSet(DOMAIN E)
  <2>1. IsFiniteSet(1..N)
    BY <1>2, FS_Interval
  <2> DEFINE f == [i \in 1..N |-> ids[i]]
  <2>2. f \in Surjection(1..N, DOMAIN E)
    BY <1>2 DEF Surjection
  <2> HIDE DEF f
  <2>3. QED
    BY <2>1, <2>2, FS_Surjection
<1> HIDE DEF g
<1>8. g \in DOMAIN E
  BY <1>2 DEF g
<1>9. \A x \in DOMAIN E : Past(E, x) \subseteq DOMAIN E
  BY <1>1, PastFacts
<1>10. \A x \in DOMAIN E : E[x].kind \in {"VaultImported", "JoinApproved"}
  BY <1>4, <1>5
<1>11. Accepted(E) = DOMAIN E
  <2>1. ASSUME NEW x \in DOMAIN E
        PROVE  Lawful(E, x)
    <3>1. ValidCheckpoint(E, x)
      BY <1>10 DEF ValidCheckpoint
    <3>2. CASE x = g
      BY <1>4, <3>1, <3>2 DEF Lawful, ActorAuthorized
    <3>3. CASE x # g
      <4>1. g \in Of(E, Past(E, x), {"VaultImported", "JoinApproved"})
        BY <1>4, <1>5, <3>3 DEF Of
      <4>2. Of(E, Past(E, x), {"DeviceRevoked"}) = {}
        BY <1>9, <1>10 DEF Of
      <4>3. Owner \in Authorized(E, Past(E, x))
        BY <1>4, <4>1, <4>2 DEF Authorized
      <4>4. QED
        BY <1>5, <3>1, <3>3, <4>3 DEF Lawful, ActorAuthorized
    <3>4. QED
      BY <3>2, <3>3
  <2>2. QED
    BY <1>9, <2>1 DEF Accepted
<1>12. History(E)
  BY <1>1, <1>6, <1>7, <1>11 DEF History
<1>13. \A x \in DOMAIN E : CommittedParents(E[x]) = {}
  BY <1>10 DEF CommittedParents
<1>14. Seals(E)
  BY <1>11, <1>13 DEF Seals, OneCheckpoint, SealedHistory
<1>15. Rooted(E)
  BY <1>5, <1>8 DEF Rooted
<1>16. /\ E[g].operation \in Operation
       /\ Other \in Operation
       /\ Creates(Other) = {} /\ Deletes(Other) = {} /\ Deletes(E[g].operation) = {}
       /\ E[g].operation.op = "SecretsAdded" /\ Other.op = "Other"
  BY <1>4 DEF Operation, Other, Creates, Deletes
<1>17. Edits(E)
  BY <1>4, <1>5, <1>16 DEF Edits
<1>18. Creations(E)
  BY <1>5, <1>16 DEF Creations
<1>19. Deletions(E)
  BY <1>5, <1>16 DEF Deletions
<1>20. Carried(E) /\ Checkpoints(E)
  BY <1>13 DEF Carried, Checkpoints
<1>21. Content(E)
  BY <1>12, <1>14, <1>15, <1>17, <1>18, <1>19, <1>20 DEF Content
<1>22. Approvals(E)
  BY <1>9, <1>10 DEF Approvals
<1>23. ASSUME NEW S \in SUBSET DOMAIN E, Whole(E, S)
       PROVE  Clean(E, S)
  <2>1. Applicable(LoadGraph(E, S)) = S
    BY <1>12, <1>23, WholeGraph
  <2>2. Open(E, S) = {}
    BY <1>10, <2>1 DEF Open, Of
  <2>3. Incomplete(E, S) = {}
    BY <1>1, <2>2, OpenFacts
  <2>4. SecurityConflicts(E, S) = {}
    <3>1. \A p \in S \X S : ~Rotates(E[p[1]])
      BY <1>10 DEF Rotates
    <3>2. QED
      BY <2>1, <3>1 DEF SecurityConflicts
  <2>5. QED
    BY <1>23, <2>3, <2>4 DEF Clean, Settled
<1>24. Whole(E, DOMAIN E) /\ Whole(E, {})
  BY <1>9 DEF Whole
<1>25. QED
  BY <1>20, <1>21, <1>22, <1>23, <1>24

(* What all tabs of a device that is a member have in memory is what its   *)
(* store shows, and every checkpoint recorded what its past shows.         *)
Recorded ==
  /\ Checkpoints(events)
  /\ \A d \in Device, t \in Tab : d \in Roster(events, store[d]) =>
       /\ memory[d][t].secrets = Held(events, store[d])
       /\ NameFits(events, store[d], memory[d][t].name)

(* The initial states satisfy the invariant, and all tabs are up to date.  *)
LEMMA InitIsInv == Init => Inv /\ Recorded
<1> SUFFICES ASSUME Init PROVE Inv /\ Recorded
  OBVIOUS
<1> DEFINE N == Cardinality(Member)
<1>1. PICK members \in {q \in [1..N -> Member] :
                          q[1] = Owner /\ \A i, j \in DOMAIN q : q[i] = q[j] => i = j},
           ids \in [1..N -> Id],
           imported \in SUBSET Secret :
        /\ \A i, j \in DOMAIN ids : ids[i] = ids[j] => i = j
        /\ events = [x \in {ids[i] : i \in DOMAIN ids} |->
                       LET i == CHOOSE i \in DOMAIN ids : ids[i] = x
                       IN  IF i = 1 THEN Genesis(imported)
                           ELSE Approval(ids[i - 1], members[i])]
        /\ store = [d \in Device |-> IF d \in Member THEN DOMAIN events ELSE {}]
        /\ keyEpoch = [d \in Device |-> [t \in Tab |-> InitialEpoch]]
        /\ memory = [d \in Device |-> [t \in Tab |-> Opened(events, store[d])]]
  BY DEF Init
<1>2. N \in Nat /\ 1 \in 1..N
  <2>1. N \in Nat /\ N # 0
    BY MemberAssumption, FS_CardinalityType, FS_EmptySet
  <2>2. QED
    BY <2>1
<1>3. DOMAIN ids = 1..N /\ \A i \in 1..N : ids[i] \in Id
  BY <1>1
<1> HIDE DEF N
<1>4. \A i, j \in 1..N : ids[i] = ids[j] => i = j
  BY <1>1, <1>3
<1>5. DOMAIN events = {ids[i] : i \in 1..N}
  BY <1>1, <1>3
<1>6. ASSUME NEW i \in 1..N
      PROVE  events[ids[i]] = IF i = 1 THEN Genesis(imported)
                              ELSE Approval(ids[i - 1], members[i])
  <2> DEFINE j == CHOOSE j \in 1..N : ids[j] = ids[i]
  <2>1. j \in 1..N /\ ids[j] = ids[i]
    OBVIOUS
  <2>2. j = i
    BY <1>4, <2>1
  <2>3. events[ids[i]] = IF j = 1 THEN Genesis(imported) ELSE Approval(ids[j - 1], members[j])
    BY <1>1, <1>3
  <2>4. QED
    BY <2>2, <2>3
<1>7. ChainOfApprovals(events, N, ids, members, imported)
  BY <1>2, <1>3, <1>4, <1>5, <1>6 DEF ChainOfApprovals
<1>8. /\ Content(events) /\ Approvals(events) /\ Checkpoints(events)
      /\ Clean(events, DOMAIN events) /\ Clean(events, {})
  BY <1>7, ApprovalsAreContent
<1>9. Labels
  <2>1. \A i \in 1..N : events[ids[i]].epoch = InitialEpoch
    <3>1. Genesis(imported).epoch = InitialEpoch
          /\ \A p, m : Approval(p, m).epoch = InitialEpoch
      BY DEF Genesis, Approval
    <3>2. \A i \in 1..N : \/ events[ids[i]] = Genesis(imported)
                          \/ \E p, m : events[ids[i]] = Approval(p, m)
      BY <1>6
    <3>3. QED
      BY <3>1, <3>2
  <2>2. \A x \in DOMAIN events : events[x].epoch = InitialEpoch
    BY <1>5, <2>1
  <2>3. InitialEpoch \in Epoch
    BY DEF Epoch
  <2>4. \A i \in 1..N : events[ids[i]].device \in Device
    <3>1. Owner \in Device /\ Member \subseteq Device
      BY OwnerAssumption, MemberAssumption
    <3>2. Genesis(imported).device = Owner /\ \A p, m : Approval(p, m).device = m
      BY DEF Genesis, Approval
    <3>3. \A i \in 1..N : members[i] \in Member
      BY <1>1
    <3>4. QED
      BY <1>6, <3>1, <3>2, <3>3
  <2>5. \A x \in DOMAIN events : events[x].device \in Device
    BY <1>5, <2>4
  <2>6. keyEpoch \in [Device -> [Tab -> Epoch]]
    BY <1>1, <2>3
  <2>7. QED
    BY <2>2, <2>3, <2>5, <2>6 DEF Labels
<1>10. Stores
  <2>1. \A d \in Device : store[d] = DOMAIN events \/ store[d] = {}
    BY <1>1
  <2>2. store \in [Device -> SUBSET DOMAIN events]
    BY <1>1
  <2>3. \A d \in Device : Clean(events, store[d])
    BY <1>8, <2>1
  <2>4. QED
    BY <2>2, <2>3 DEF Stores
<1>11. ASSUME NEW d \in Device, NEW t \in Tab
       PROVE  /\ memory[d][t] \in Vault
              /\ memory[d][t].secrets \subseteq Born(events, store[d])
              /\ memory[d][t].secrets = Held(events, store[d])
              /\ NameFits(events, store[d], memory[d][t].name)
  <2> DEFINE S == store[d]
  <2>1. memory[d][t] = Opened(events, S)
    BY <1>1
  <2>2. Settled(events, S) /\ S \subseteq DOMAIN events
    BY <1>10 DEF Stores, Clean, Settled, Whole
  <2> HIDE DEF S
  <2>3. /\ Opened(events, S) \in Vault
        /\ Opened(events, S).secrets \subseteq Born(events, S)
        /\ Opened(events, S).secrets = Held(events, S)
        /\ NameFits(events, S, Opened(events, S).name)
    BY <1>8, <1>9, <2>2, OpenedFacts DEF Labels
  <2>4. QED
    BY <2>1, <2>3 DEF S
<1>12. Memories
  <2>1. ASSUME NEW d \in Device
        PROVE  memory[d] \in [Tab -> Vault]
    <3> DEFINE m == memory[d]
               vault == Opened(events, store[d])
    <3>1. m = [t \in Tab |-> vault]
      BY <1>1
    <3>2. \A t \in Tab : m[t] \in Vault
      BY <1>11
    <3> HIDE DEF m, vault
    <3>3. m \in [Tab -> Vault]
      BY <3>1, <3>2
    <3>4. QED
      BY <3>3 DEF m
  <2>2. memory \in [Device -> [Tab -> Vault]]
    <3>1. memory = [d \in Device |-> memory[d]]
      BY <1>1
    <3>2. QED
      BY <2>1, <3>1
  <2>3. QED
    BY <1>11, <2>2 DEF Memories
<1>13. Recorded
  BY <1>8, <1>11 DEF Recorded
<1>14. QED
  BY <1>8, <1>9, <1>10, <1>12, <1>13 DEF Inv, Base

-----------------------------------------------------------------------------
(***************************************************************************)
(* Appending an operation.                                                 *)
(***************************************************************************)
(* What the handlers check of an operation before they append it.          *)
MayAppend(d, kind, o) ==
  /\ kind \in {"Mutation", "Merge", "JoinRequested"}
  /\ o \in Operation
  /\ o.op # "EpochCheckpoint"
  /\ o.op # "Other" => kind = "Mutation"
  /\ Deletes(o) \subseteq Born(events, store[d])
  /\ \A y \in DOMAIN events : Creates(o) \cap Creates(events[y].operation) = {}

(* Appending such an operation keeps the invariant. *)
LEMMA AppendKeepsInv ==
  ASSUME Inv, NEW d \in Device, NEW t \in Tab, NEW id \in Id, NEW kind, NEW o,
         MayAppend(d, kind, o), AppendOperation(d, t, id, kind, o)
  PROVE  Proceeds(d, t)
<1> DEFINE E == events
           F == events'
           S == store[d]
           e == NewEvent(d, t, kind, d, o)
<1>1. /\ Content(E) /\ Approvals(E) /\ Labels /\ Stores
      /\ Clean(E, S) /\ S \in SUBSET DOMAIN E /\ S # {}
      /\ id \in Id \ DOMAIN E
      /\ F = Sign(id, e)
      /\ Applies(F, S \cup {id}, id)
      /\ store' = [store EXCEPT ![d] = S \cup {id}]
      /\ Refresh(d, t, F, store'[d])
      /\ keyEpoch' = keyEpoch
  BY DEF Inv, Base, Stores, AppendOperation
<1>2. /\ e.parents = Heads(LoadGraph(E, S)) /\ e.kind = kind
      /\ e.operation = o /\ e.epoch = keyEpoch[d][t] /\ e.device = d
  BY DEF NewEvent
<1>3. F = [x \in DOMAIN E \cup {id} |-> IF x = id THEN e ELSE E[x]]
  BY <1>1 DEF Sign
<1>4. e.kind \in {"Mutation", "Merge", "JoinRequested"}
  BY <1>2 DEF MayAppend
<1>5. keyEpoch[d][t] \in Epoch
  BY <1>1 DEF Labels
<1> HIDE DEF E, F, S, e
<1>6. /\ e.kind \notin {"VaultImported", "EpochCheckpoint"}
      /\ e.parents \subseteq DOMAIN E
      /\ IsFiniteSet(DOMAIN E) /\ Acyclic(E) /\ Signed(E) /\ History(E)
  <2>1. Signed(E) /\ IsFiniteSet(DOMAIN E) /\ Acyclic(E) /\ History(E) /\ Whole(E, S)
    BY <1>1 DEF Content, History, Clean, Settled
  <2>2. Quarantined(LoadGraph(E, S)) = {}
    BY <2>1, WholeGraph
  <2>3. Heads(LoadGraph(E, S)) \subseteq S
    BY <1>1, <2>1, <2>2, HeadsOfAcceptedGraph
  <2>4. QED
    BY <1>1, <1>2, <1>4, <2>1, <2>3
<1>7. Past(F, id) = S => Lawful(F, id)
  <2>1. SignedAfter(E, F) /\ DOMAIN F = DOMAIN E \cup {id}
    BY <1>1, <1>3, <1>6, SignedEventIsLast
  <2> DEFINE V == S \cup {id}
  <2>2. V \in SUBSET DOMAIN F /\ Signed(F) /\ id \in Applicable(LoadGraph(F, V))
    BY <1>1, <2>1 DEF SignedAfter, Applies
  <2> HIDE DEF V
  <2>3. id \in Accepted(F)
    BY <2>2, ApplicableIsAccepted
  <2>4. QED
    BY <2>3 DEF Accepted
<1>8. /\ SignedAfter(E, F)
      /\ DOMAIN F = DOMAIN E \cup {id} /\ F[id] = e
      /\ Past(F, id) = S
      /\ History(F)
      /\ Seals(F)
      /\ Rooted(F)
  BY <1>1, <1>2, <1>3, <1>6, <1>7, HeadEventJoins
<1>9. F[id].operation = o /\ F[id].kind = kind
  BY <1>2, <1>8
<1>10. NewEdits(E, F)
  <2>1. DOMAIN F \ DOMAIN E = {id}
    BY <1>1, <1>8
  <2>2. /\ o \in Operation
        /\ o.op # "EpochCheckpoint" /\ kind # "EpochCheckpoint"
        /\ o.op # "Other" => kind = "Mutation"
    BY DEF MayAppend
  <2>3. Deletes(o) \subseteq Born(F, Past(F, id))
    <3>1. Born(F, S) = Born(E, S)
      BY <1>1, <1>8, ContentIsHistory
    <3>2. Deletes(o) \subseteq Born(E, S)
      BY DEF MayAppend, E, S
    <3>3. QED
      BY <1>8, <3>1, <3>2
  <2>4. \A y \in DOMAIN F \ {id} : Creates(o) \cap Creates(F[y].operation) = {}
    <3>1. \A y \in DOMAIN E : Creates(o) \cap Creates(E[y].operation) = {}
      BY DEF MayAppend, E
    <3>2. \A y \in DOMAIN F \ {id} : y \in DOMAIN E /\ F[y] = E[y]
      BY <1>8 DEF SignedAfter
    <3>3. QED
      BY <3>1, <3>2
  <2>5. CommittedParents(F[id]) = {}
    BY <1>9, <2>2 DEF CommittedParents
  <2>6. QED
    BY <1>9, <2>1, <2>2, <2>3, <2>4, <2>5 DEF NewEdits
<1>11. Content(F)
  BY <1>1, <1>8, <1>10, SigningKeepsContent
<1>12. Approvals(F)
  <2>1. \A x \in DOMAIN F \ DOMAIN E : F[x].kind \notin {"VaultImported", "JoinApproved"}
    BY <1>2, <1>4, <1>8
  <2>2. QED
    BY <1>1, <1>8, <2>1, SigningKeepsApprovals
<1>13. Clean(F, S \cup {id})
  <2>1. {id} \in SUBSET (DOMAIN F \ DOMAIN E)
    BY <1>1, <1>8
  <2>2. \A x \in {id} : S \subseteq Past(F, x) /\ Past(F, x) \subseteq S \cup {id}
    BY <1>8
  <2>3. \A x, y \in {id} : Rotates(F[x]) /\ x # y => x \in Past(F, y)
    OBVIOUS
  <2>4. \A p \in {id} : F[p].kind = "DeviceRevoked" =>
                          \E c \in {id} : p \in CommittedParents(F[c])
    BY <1>2, <1>4, <1>8
  <2>5. QED
    BY <1>1, <1>6, <1>8, <2>1, <2>2, <2>3, <2>4, StoringKeepsClean
<1>14. \A k \in Device : Clean(F, store[k])
  <2>1. ASSUME NEW k \in Device PROVE Clean(F, store[k])
    <3> DEFINE T == store[k]
    <3>1. Clean(E, T)
      BY <1>1 DEF Stores, E
    <3> HIDE DEF T
    <3>2. Clean(F, T)
      BY <1>8, <3>1, SigningKeepsClean
    <3>3. QED
      BY <3>2 DEF T
  <2>2. QED
    BY <2>1
<1>15. Stores'
  <2>1. DOMAIN E \subseteq DOMAIN F /\ id \in DOMAIN F
    BY <1>8
  <2>2. store \in [Device -> SUBSET DOMAIN E]
    BY <1>1 DEF Stores, E
  <2>3. store' \in [Device -> SUBSET DOMAIN F]
    BY <1>1, <2>1, <2>2
  <2>4. \A k \in Device : store'[k] = IF k = d THEN S \cup {id} ELSE store[k]
    BY <1>1, <2>2
  <2>5. \A k \in Device : Clean(F, store'[k])
    BY <1>13, <1>14, <2>4
  <2>6. QED
    BY <2>3, <2>5 DEF Stores, F
<1>16. Labels'
  <2>1. \A x \in DOMAIN F \ DOMAIN E : F[x].epoch \in Epoch /\ F[x].device \in Device
    BY <1>2, <1>5, <1>8
  <2>2. keyEpoch' \in [Device -> [Tab -> Epoch]]
    BY <1>1 DEF Labels
  <2>3. QED
    BY <1>1, <1>8, <2>1, <2>2, SigningKeepsLabels DEF E, F
<1>17. Moves(d, t, S \cup {id})
  <2>1. store'[d] = S \cup {id}
    BY <1>1 DEF Stores
  <2>2. \A c \in DOMAIN F \ DOMAIN E : CommittedParents(F[c]) = {}
    BY <1>4, <1>8 DEF CommittedParents
  <2>3. store' = [store EXCEPT ![d] = S \cup {id}] /\ Refresh(d, t, F, S \cup {id})
    BY <1>1, <2>1
  <2>4. store[d] \subseteq S \cup {id}
    BY DEF S
  <2>5. QED
    BY <1>8, <2>2, <2>3, <2>4 DEF Moves, E, F
<1>18. QED
  BY <1>11, <1>12, <1>15, <1>16, <1>17 DEF Proceeds, Base, F

(* What the store of a device shows, by the invariant.                     *)
LEMMA ShownIsFaithful ==
  ASSUME Inv, NEW d \in Device
  PROVE  Faithful(events, store[d], View(d))
<1> DEFINE S == store[d]
<1>1. Content(events) /\ Settled(events, S)
  BY DEF Inv, Base, Stores, Clean
<1> HIDE DEF S
<1>2. Faithful(events, S, Projection(events, S))
  BY <1>1, ViewIsFaithful
<1>3. QED
  BY <1>2 DEF S, View

(* A fresh secret is in no event.                                          *)
LEMMA FreshIsNew ==
  ASSUME NEW s \in FreshSecrets
  PROVE  s \in Secret /\ \A y \in DOMAIN events : s \notin Creates(events[y].operation)
BY DEF FreshSecrets

(* A secret that a tab remembers had been created, and is a secret.        *)
LEMMA RememberedWasBorn ==
  ASSUME Inv, NEW d \in Device, NEW t \in Tab, NEW s \in memory[d][t].secrets
  PROVE  s \in Secret /\ s \in Born(events, store[d])
<1> DEFINE S == store[d]
<1>1. s \in Born(events, S)
  BY DEF Inv, Memories
<1>2. Content(events) /\ S \in SUBSET DOMAIN events
  BY DEF Inv, Base, Stores
<1> HIDE DEF S
<1>3. Born(events, S) \in SUBSET Secret
  BY <1>2, ContentTypes
<1>4. QED
  BY <1>1, <1>3 DEF S

(* Each operation on secrets and names is one that may be appended.        *)
LEMMA EditsMayAppend ==
  ASSUME Inv, NEW d \in Device, NEW t \in Tab, NEW id \in Id
  PROVE  /\ \A s \in Secret : AddSecret(d, t, id, s) => Proceeds(d, t)
         /\ \A s \in Secret : DeleteSecret(d, t, id, s) => Proceeds(d, t)
         /\ \A old, new \in Secret : ReplaceSecret(d, t, id, old, new) => Proceeds(d, t)
         /\ \A old, chosen \in Secret : ResolveConflict(d, t, id, old, chosen) => Proceeds(d, t)
         /\ NameVault(d, t, id) => Proceeds(d, t)
         /\ MergeHeads(d, t, id) => Proceeds(d, t)
         /\ RequestAccess(d, t, id) => Proceeds(d, t)
<1>1. ASSUME NEW s \in Secret, AddSecret(d, t, id, s)
      PROVE  Proceeds(d, t)
  <2> DEFINE o == [op |-> "SecretsAdded", secrets |-> {s}]
  <2>1. s \in FreshSecrets /\ AppendOperation(d, t, id, "Mutation", o)
    BY <1>1 DEF AddSecret
  <2>2. o \in Operation /\ o.op = "SecretsAdded" /\ Creates(o) = {s} /\ Deletes(o) = {}
    BY DEF Operation, Creates, Deletes
  <2> HIDE DEF o
  <2>3. \A y \in DOMAIN events : Creates(o) \cap Creates(events[y].operation) = {}
    BY <2>1, <2>2, FreshIsNew
  <2>4. MayAppend(d, "Mutation", o)
    BY <2>2, <2>3 DEF MayAppend
  <2>5. QED
    BY <2>1, <2>4, AppendKeepsInv
<1>2. ASSUME NEW s \in Secret, DeleteSecret(d, t, id, s)
      PROVE  Proceeds(d, t)
  <2> DEFINE o == [op |-> "SecretDeleted", secret |-> s]
  <2>1. s \in memory[d][t].secrets /\ AppendOperation(d, t, id, "Mutation", o)
    BY <1>2 DEF DeleteSecret
  <2>2. o \in Operation /\ o.op = "SecretDeleted" /\ Creates(o) = {} /\ Deletes(o) = {s}
    BY DEF Operation, Creates, Deletes
  <2> HIDE DEF o
  <2>3. MayAppend(d, "Mutation", o)
    BY <2>1, <2>2, RememberedWasBorn DEF MayAppend
  <2>4. QED
    BY <2>1, <2>3, AppendKeepsInv
<1>3. ASSUME NEW old \in Secret, NEW new \in Secret, ReplaceSecret(d, t, id, old, new)
      PROVE  Proceeds(d, t)
  <2> DEFINE o == [op |-> "SecretReplaced", old |-> old, new |-> new]
  <2>1. old \in memory[d][t].secrets /\ new \in FreshSecrets /\ AppendOperation(d, t, id, "Mutation", o)
    BY <1>3 DEF ReplaceSecret
  <2>2. o \in Operation /\ o.op = "SecretReplaced" /\ Creates(o) = {new} /\ Deletes(o) = {old}
    BY DEF Operation, Creates, Deletes
  <2> HIDE DEF o
  <2>3. \A y \in DOMAIN events : Creates(o) \cap Creates(events[y].operation) = {}
    BY <2>1, <2>2, FreshIsNew
  <2>4. MayAppend(d, "Mutation", o)
    BY <2>1, <2>2, <2>3, RememberedWasBorn DEF MayAppend
  <2>5. QED
    BY <2>1, <2>4, AppendKeepsInv
<1>4. ASSUME NEW old \in Secret, NEW chosen \in Secret, ResolveConflict(d, t, id, old, chosen)
      PROVE  Proceeds(d, t)
  <2> DEFINE cands == {c[2] : c \in Conflicts(d)[old]}
             o == [op |-> "SecretConflictResolved", old |-> old, rejected |-> cands \ {chosen}]
             S == store[d]
  <2>1. old \in DOMAIN Conflicts(d) /\ AppendOperation(d, t, id, "Mutation", o)
    BY <1>4 DEF ResolveConflict
  <2>2. old \in DOMAIN View(d).replaced /\ Conflicts(d)[old] = View(d).replaced[old]
    BY <2>1 DEF Conflicts, ReplacementConflicts, Restrict
  <2>3. ReplacedFits(events, S, View(d).replaced)
    BY ShownIsFaithful DEF Faithful
  <2>4. cands \subseteq Born(events, S)
    BY <2>2, <2>3 DEF ReplacedFits
  <2>5. Content(events) /\ S \in SUBSET DOMAIN events
    BY DEF Inv, Base, Stores
  <2> HIDE DEF S, cands
  <2>6. cands \subseteq Secret
    BY <2>4, <2>5, ContentTypes
  <2>7. /\ o \in Operation /\ o.op = "SecretConflictResolved"
        /\ Creates(o) = {} /\ Deletes(o) = cands \ {chosen}
    BY <2>6 DEF Operation, Creates, Deletes
  <2> HIDE DEF o
  <2>8. MayAppend(d, "Mutation", o)
    BY <2>4, <2>7 DEF MayAppend, S
  <2>9. QED
    BY <2>1, <2>8, AppendKeepsInv
<1>5. ASSUME NameVault(d, t, id)
      PROVE  Proceeds(d, t)
  <2> DEFINE o == [op |-> "VaultNamed"]
  <2>1. AppendOperation(d, t, id, "Mutation", o)
    BY <1>5 DEF NameVault
  <2>2. o \in Operation /\ o.op = "VaultNamed" /\ Creates(o) = {} /\ Deletes(o) = {}
    BY DEF Operation, Creates, Deletes
  <2> HIDE DEF o
  <2>3. MayAppend(d, "Mutation", o)
    BY <2>2 DEF MayAppend
  <2>4. QED
    BY <2>1, <2>3, AppendKeepsInv
<1>6. /\ Other \in Operation /\ Other.op = "Other"
      /\ Creates(Other) = {} /\ Deletes(Other) = {}
  BY DEF Other, Operation, Creates, Deletes
<1>7. ASSUME MergeHeads(d, t, id)
      PROVE  Proceeds(d, t)
  <2>1. MayAppend(d, "Merge", Other)
    BY <1>6 DEF MayAppend
  <2>2. QED
    BY <1>7, <2>1, AppendKeepsInv DEF MergeHeads
<1>8. ASSUME RequestAccess(d, t, id)
      PROVE  Proceeds(d, t)
  <2>1. MayAppend(d, "JoinRequested", Other)
    BY <1>6 DEF MayAppend
  <2>2. QED
    BY <1>8, <2>1, AppendKeepsInv DEF RequestAccess
<1>9. QED
  BY <1>1, <1>2, <1>3, <1>4, <1>5, <1>7, <1>8

-----------------------------------------------------------------------------
(***************************************************************************)
(* Rotating the epoch.                                                     *)
(***************************************************************************)
(* A member of the roster may write on everything its store holds.         *)
LEMMA RosterIsAuthorized ==
  ASSUME NEW E, History(E), Approvals(E), NEW S, Whole(E, S), NEW d \in Roster(E, S)
  PROVE  d \in Authorized(E, S) /\ S # {}
<1>1. Applicable(LoadGraph(E, S)) = S /\ \A x \in S : Reach(Stored(E, S), x) = Past(E, x)
  BY WholeGraph
<1>2. PICK a \in Of(E, S, {"VaultImported", "JoinApproved"}) :
        /\ d = E[a].device
        /\ \A r \in Of(E, S, {"DeviceRevoked"}) :
             E[r].device = E[a].device => IsAncestor(Stored(E, S), r, a)
  BY <1>1 DEF Roster
<1>3. a \in S /\ E[a].kind \in {"VaultImported", "JoinApproved"} /\ S \subseteq DOMAIN E
  BY <1>2 DEF Of, Whole
<1>4. ASSUME NEW r \in Of(E, S, {"DeviceRevoked"}), E[r].device = d
      PROVE  FALSE
  <2>1. r = a \/ r \in Past(E, a)
    BY <1>1, <1>2, <1>3, <1>4 DEF IsAncestor
  <2>2. E[r].kind = "DeviceRevoked"
    BY <1>4 DEF Of
  <2>3. QED
    BY <1>3, <2>1, <2>2 DEF Approvals
<1>5. d \in {E[x].device : x \in Of(E, S, {"VaultImported", "JoinApproved"})}
  BY <1>2
<1>6. d \notin {E[x].device : x \in Of(E, S, {"DeviceRevoked"})}
  BY <1>4
<1>7. QED
  BY <1>3, <1>5, <1>6 DEF Authorized

(* Who may write on a set of events depends on these events alone.         *)
LEMMA AuthorizedIsHistory ==
  ASSUME NEW E, NEW F, NEW S, \A x \in S : F[x] = E[x]
  PROVE  Authorized(F, S) = Authorized(E, S)
<1>1. ASSUME NEW kinds
      PROVE  {F[a].device : a \in Of(F, S, kinds)} = {E[a].device : a \in Of(E, S, kinds)}
  <2>1. Of(F, S, kinds) = Of(E, S, kinds)
    BY DEF Of
  <2>2. \A a \in Of(E, S, kinds) : F[a].device = E[a].device
    BY DEF Of
  <2>3. QED
    BY <2>1, <2>2
<1>2. QED
  BY <1>1 DEF Authorized

(* F signs, after E and on the heads of S, the revocation t by d and the   *)
(* checkpoint c with some of the secrets created in S.                     *)
SignsRotation(E, S, d, t, c, F) ==
  /\ t \in Id \ DOMAIN E /\ c \in Id \ DOMAIN E /\ t # c
  /\ F = [x \in DOMAIN E \cup {t, c} |->
            IF x = t THEN F[t] ELSE IF x = c THEN F[c] ELSE E[x]]
  /\ F[t].parents = Heads(LoadGraph(E, S)) /\ F[t].actor = d
  /\ F[t].kind = "DeviceRevoked" /\ F[t].device # d /\ F[t].operation = Other
  /\ F[c].parents = {t} /\ F[c].actor = d
  /\ F[c].kind = "EpochCheckpoint" /\ F[c].epoch = t
  /\ \E secrets, name :
       /\ secrets \subseteq Born(E, S) /\ name \in Id \cup {Unnamed}
       /\ F[c].operation = [op |-> "EpochCheckpoint", secrets |-> secrets, name |-> name]

Rotated(E, S, t, c, F) ==
  /\ SignedAfter(E, F)
  /\ DOMAIN F = DOMAIN E \cup {t, c}
  /\ Past(F, t) = S /\ Past(F, c) = S \cup {t}
  /\ Content(F)

(* Then both join the history.                                             *)
LEMMA RotationJoins ==
  ASSUME NEW E, Content(E), Approvals(E), NEW S, Clean(E, S),
         NEW d \in Roster(E, S), NEW t, NEW c, NEW F, SignsRotation(E, S, d, t, c, F)
  PROVE  Rotated(E, S, t, c, F)
<1> DEFINE r == F[t]
           k == F[c]
           victim == r.device
<1>1. PICK secrets, name :
        /\ secrets \subseteq Born(E, S) /\ name \in Id \cup {Unnamed}
        /\ k.operation = [op |-> "EpochCheckpoint", secrets |-> secrets, name |-> name]
  BY DEF SignsRotation
<1>2. /\ t \in Id \ DOMAIN E /\ c \in Id \ DOMAIN E /\ t # c
      /\ F = [x \in DOMAIN E \cup {t, c} |-> IF x = t THEN r ELSE IF x = c THEN k ELSE E[x]]
      /\ r.parents = Heads(LoadGraph(E, S)) /\ r.actor = d
      /\ r.kind = "DeviceRevoked" /\ r.device = victim /\ victim # d /\ r.operation = Other
      /\ k.parents = {t} /\ k.actor = d /\ k.kind = "EpochCheckpoint" /\ k.epoch = t
      /\ F[t] = r /\ F[c] = k
  BY DEF SignsRotation
<1> HIDE DEF r, k, victim
<1> DEFINE G == [x \in DOMAIN E \cup {t} |-> IF x = t THEN r ELSE E[x]]
<1>3. /\ Signed(E) /\ IsFiniteSet(DOMAIN E) /\ History(E) /\ Edits(E)
      /\ S \in SUBSET DOMAIN E /\ Whole(E, S)
      /\ \A x \in DOMAIN E : Past(E, x) \subseteq DOMAIN E
  BY PastFacts DEF Content, History, Clean, Settled, Whole
<1>4. d \in Authorized(E, S) /\ S # {}
  BY <1>3, RosterIsAuthorized
<1>5. Past(G, t) = S => Lawful(G, t)
  <2>1. G[t] = r /\ \A x \in S : G[x] = E[x]
    BY <1>2, <1>3
  <2> HIDE DEF G
  <2>2. Authorized(G, S) = Authorized(E, S)
    BY <2>1, AuthorizedIsHistory
  <2>3. ValidCheckpoint(G, t)
    BY <1>2, <2>1 DEF ValidCheckpoint
  <2>4. ActorAuthorized(G, S, G[t])
    BY <1>2, <1>4, <2>1, <2>2 DEF ActorAuthorized
  <2>5. QED
    BY <2>3, <2>4 DEF Lawful
<1>6. F = [x \in DOMAIN G \cup {c} |-> IF x = c THEN k ELSE G[x]]
  <2>1. DOMAIN G = DOMAIN E \cup {t}
    OBVIOUS
  <2>2. DOMAIN F = DOMAIN G \cup {c}
    BY <1>2, <2>1
  <2>3. \A x \in DOMAIN F : F[x] = IF x = c THEN k ELSE G[x]
    BY <1>2
  <2>4. F = [x \in DOMAIN F |-> F[x]]
    BY <1>2
  <2> HIDE DEF G
  <2>5. QED
    BY <2>2, <2>3, <2>4
<1>7. G = [x \in DOMAIN E \cup {t} |-> IF x = t THEN r ELSE E[x]]
  OBVIOUS
<1> HIDE DEF G
<1>8. r.kind \notin {"VaultImported", "EpochCheckpoint"}
  BY <1>2
<1>9. /\ SignedAfter(E, G)
      /\ DOMAIN G = DOMAIN E \cup {t} /\ G[t] = r
      /\ Past(G, t) = S
      /\ History(G)
      /\ Seals(G)
      /\ Rooted(G)
  BY <1>2, <1>4, <1>5, <1>7, <1>8, HeadEventJoins
<1>10. /\ Signed(G) /\ IsFiniteSet(DOMAIN G) /\ Acyclic(G) /\ Accepted(G) = DOMAIN G
      /\ OneCheckpoint(G) /\ SealedHistory(G)
  BY <1>9 DEF History, Seals
<1>11. c \in Id \ DOMAIN G /\ k.parents \subseteq DOMAIN G
  BY <1>2, <1>9
<1>12. /\ SignedAfter(G, F)
       /\ DOMAIN F = DOMAIN G \cup {c} /\ F[c] = k
       /\ IsFiniteSet(DOMAIN F)
       /\ Acyclic(F)
  BY <1>6, <1>10, <1>11, SignedEventIsLast
<1>13. SignedAfter(E, F) /\ Signed(F) /\ F[t] = r /\ c \in DOMAIN F
  BY <1>9, <1>12 DEF SignedAfter
<1>14. Past(F, t) = S
  <2>1. t \in DOMAIN G
    BY <1>9
  <2>2. QED
    BY <1>9, <1>12, <2>1, PastIsHistory
<1>15. Past(F, c) = S \cup {t}
  <2>1. \A y : y \in Past(F, c) <=> \E p \in {t} : y = p \/ y \in Past(F, p)
    BY <1>2, <1>12, <1>13, PastThroughParents
  <2>2. QED
    BY <1>14, <2>1
<1>16. CommittedParents(F[c]) = {t}
  BY <1>2, <1>12 DEF CommittedParents
<1>17. Lawful(F, c)
  <2>1. ValidCheckpoint(F, c)
    BY <1>2, <1>13, <1>16 DEF ValidCheckpoint
  <2>2. d \in Authorized(F, S \cup {t})
    <3>1. \A x \in S : F[x] = E[x]
      BY <1>3, <1>13 DEF SignedAfter
    <3>2. Authorized(F, S) = Authorized(E, S)
      BY <3>1, AuthorizedIsHistory
    <3>3. d \in Authorized(F, S)
      BY <1>4, <3>2
    <3>4. \A a \in Of(F, S \cup {t}, {"DeviceRevoked"}) :
            a \in Of(F, S, {"DeviceRevoked"}) \/ F[a].device = victim
      BY <1>2, <1>13 DEF Of
    <3>5. Of(F, S, {"VaultImported", "JoinApproved"})
            \subseteq Of(F, S \cup {t}, {"VaultImported", "JoinApproved"})
      BY DEF Of
    <3>6. d \notin {F[a].device : a \in Of(F, S \cup {t}, {"DeviceRevoked"})}
      <4>1. d \notin {F[a].device : a \in Of(F, S, {"DeviceRevoked"})}
        BY <3>3 DEF Authorized
      <4>2. ASSUME NEW a \in Of(F, S \cup {t}, {"DeviceRevoked"}), F[a].device = d
            PROVE  FALSE
        BY <1>2, <3>4, <4>1, <4>2
      <4>3. QED
        BY <4>2
    <3>7. d \in {F[a].device : a \in Of(F, S \cup {t}, {"VaultImported", "JoinApproved"})}
      BY <3>3, <3>5 DEF Authorized
    <3>8. QED
      BY <3>6, <3>7 DEF Authorized
  <2>3. ActorAuthorized(F, Past(F, c), F[c])
    BY <1>2, <1>12, <1>15, <2>2 DEF ActorAuthorized
  <2>4. QED
    BY <2>1, <2>3 DEF Lawful
<1>18. History(F)
  <2>1. \A x \in DOMAIN G : x \in Accepted(F)
    BY <1>10, <1>12, AcceptedIsHistory
  <2>2. \A y \in Past(F, c) : Lawful(F, y)
    <3>1. S \cup {t} \subseteq DOMAIN G
      BY <1>3, <1>9
    <3>2. QED
      BY <1>15, <2>1, <3>1 DEF Accepted
  <2>3. c \in Accepted(F)
    BY <1>13, <1>17, <2>2 DEF Accepted
  <2>4. Accepted(F) \subseteq DOMAIN F
    BY DEF Accepted
  <2>5. Accepted(F) = DOMAIN F
    BY <1>12, <2>1, <2>3, <2>4
  <2>6. QED
    BY <1>12, <1>13, <2>5 DEF History
<1>19. Seals(F)
  <2>1. \A x \in DOMAIN G : t \notin Past(G, x)
    <3>1. \A x \in DOMAIN E : Past(G, x) = Past(E, x)
      BY <1>9, PastIsHistory
    <3>2. QED
      BY <1>2, <1>3, <1>9, <3>1
  <2>2. t \in DOMAIN G /\ F[c].parents = {t}
    BY <1>2, <1>9, <1>12
  <2>3. OneCheckpoint(F) /\ SealedHistory(F)
    BY <1>10, <1>11, <1>12, <2>1, <2>2, CheckpointKeepsSeals
  <2>4. QED
    BY <2>3 DEF Seals
<1>20. Rooted(F)
  <2>1. PICK g \in DOMAIN G : \A x \in DOMAIN G :
               /\ x = g \/ g \in Past(G, x)
               /\ G[x].kind = "VaultImported" => x = g
    BY <1>9 DEF Rooted
  <2>2. \A x \in DOMAIN G : Past(F, x) = Past(G, x) /\ F[x] = G[x]
    BY <1>12, PastIsHistory DEF SignedAfter
  <2>3. g \in Past(F, c)
    <3>1. t = g \/ g \in Past(G, t)
      BY <1>9, <2>1
    <3>2. QED
      BY <1>9, <1>15, <3>1
  <2>4. \A x \in DOMAIN F :
          /\ x = g \/ g \in Past(F, x)
          /\ F[x].kind = "VaultImported" => x = g
    <3>1. \A x \in DOMAIN F : x \in DOMAIN G \/ x = c
      BY <1>12
    <3>2. F[c].kind # "VaultImported"
      BY <1>2, <1>12
    <3>3. ASSUME NEW x \in DOMAIN F
          PROVE  /\ x = g \/ g \in Past(F, x)
                 /\ F[x].kind = "VaultImported" => x = g
      <4>1. CASE x \in DOMAIN G
        BY <2>1, <2>2, <4>1
      <4>2. CASE x = c
        BY <2>3, <3>2, <4>2
      <4>3. QED
        BY <3>1, <4>1, <4>2
    <3>4. QED
      BY <3>3
  <2>5. QED
    BY <1>12, <2>1, <2>4 DEF Rooted
<1>21. NewEdits(E, F)
  <2>1. DOMAIN F \ DOMAIN E = {t, c}
    BY <1>2, <1>9, <1>12
  <2>2. /\ Other \in Operation /\ Other.op = "Other"
        /\ Creates(Other) = {} /\ Deletes(Other) = {}
    BY DEF Other, Operation, Creates, Deletes
  <2>3. F[t].operation = Other /\ F[t].kind = "DeviceRevoked" /\ CommittedParents(F[t]) = {}
    BY <1>2, <1>13 DEF CommittedParents
  <2> DEFINE o == F[c].operation
  <2>4. o = [op |-> "EpochCheckpoint", secrets |-> secrets, name |-> name]
    BY <1>1, <1>2
  <2>5. F[c].kind = "EpochCheckpoint"
    BY <1>2, <1>12
  <2>6. secrets \in SUBSET Secret
    <3>1. Born(E, S) \in SUBSET Secret
      BY <1>3, ContentTypes
    <3>2. QED
      BY <1>1, <3>1
  <2>7. /\ o \in Operation /\ o.op = "EpochCheckpoint" /\ Deletes(o) = {}
        /\ o.secrets = secrets
    <3> HIDE DEF o
    <3>1. o \in Operation /\ o.op = "EpochCheckpoint" /\ o.secrets = secrets
      BY <1>1, <2>4, <2>6 DEF Operation
    <3>2. Deletes(o) = {}
      BY <3>1 DEF Deletes
    <3>3. QED
      BY <3>1, <3>2
  <2> HIDE DEF o
  <2>8. Born(F, S) = Born(E, S)
    BY <1>3, <1>13, ContentIsHistory
  <2>9. \A p \in CommittedParents(F[c]) : o.secrets \subseteq Born(F, Past(F, p))
    BY <1>1, <1>14, <1>16, <2>7, <2>8
  <2>10. ASSUME NEW x \in {t, c}
         PROVE  /\ F[x].operation \in Operation
                /\ F[x].operation.op = "EpochCheckpoint" <=> F[x].kind = "EpochCheckpoint"
                /\ F[x].operation.op \in {"Other", "EpochCheckpoint"}
                /\ Deletes(F[x].operation) = {}
                /\ F[x].kind = "EpochCheckpoint" \/ Creates(F[x].operation) = {}
    <3>1. CASE x = t
      BY <2>2, <2>3, <3>1
    <3>2. CASE x = c
      BY <2>5, <2>7, <3>2 DEF o
    <3>3. QED
      BY <2>10, <3>1, <3>2
  <2>11. ASSUME NEW x \in {t, c}, NEW p \in CommittedParents(F[x])
         PROVE  F[x].operation.secrets \subseteq Born(F, Past(F, p))
    <3>1. x = c
      BY <2>3, <2>11
    <3>2. p \in CommittedParents(F[c])
      BY <2>11, <3>1
    <3>3. o.secrets \subseteq Born(F, Past(F, p))
      BY <2>9, <3>2
    <3>4. F[x].operation = o
      BY <3>1 DEF o
    <3>5. QED
      BY <3>3, <3>4
  <2>12. ASSUME NEW x \in {t, c}
         PROVE  /\ F[x].operation \in Operation
                /\ F[x].operation.op = "EpochCheckpoint" <=> F[x].kind = "EpochCheckpoint"
                /\ F[x].operation.op \notin {"Other", "EpochCheckpoint"}
                     => F[x].kind = "Mutation"
                /\ Deletes(F[x].operation) \subseteq Born(F, Past(F, x))
                /\ F[x].kind # "EpochCheckpoint" =>
                     \A y \in DOMAIN F \ {x} :
                       Creates(F[x].operation) \cap Creates(F[y].operation) = {}
    BY <2>10
  <2>13. QED
    BY <2>1, <2>11, <2>12 DEF NewEdits
<1>22. Content(F)
  BY <1>13, <1>18, <1>19, <1>20, <1>21, SigningKeepsContent
<1>23. QED
  BY <1>9, <1>12, <1>13, <1>14, <1>15, <1>22 DEF Rotated

(* Rotating the epoch keeps the invariant, whatever the tab u remembers.   *)
LEMMA RotationKeepsInv ==
  ASSUME Inv, NEW d \in Device, NEW u \in Tab, NEW t \in Id, NEW c \in Id,
         NEW victim \in Device, RotateEpoch(d, u, t, c, victim)
  PROVE  Proceeds(d, u)
<1> DEFINE E == events
           F == events'
           S == store[d]
           r == NewEvent(d, u, "DeviceRevoked", victim, Other)
           known == memory[d][u].secrets
           name == memory[d][u].name
           k == [parents |-> {t}, actor |-> d, kind |-> "EpochCheckpoint",
                 device |-> victim, epoch |-> t,
                 operation |-> [op |-> "EpochCheckpoint",
                                secrets |-> CheckpointSecrets(d, u),
                                name |-> CheckpointName(d, u)]]
<1>1. /\ Content(E) /\ Approvals(E) /\ Labels /\ Stores
      /\ Clean(E, S) /\ S \in SUBSET DOMAIN E
      /\ t \in Id \ DOMAIN E /\ c \in Id \ DOMAIN E /\ t # c
      /\ d \in Roster(E, S) /\ victim # d
      /\ F = [x \in DOMAIN E \cup {t, c} |-> IF x = t THEN r ELSE IF x = c THEN k ELSE E[x]]
      /\ store' = [store EXCEPT ![d] = S \cup {t, c}]
      /\ keyEpoch' = [keyEpoch EXCEPT ![d][u] = t]
      /\ Refresh(d, u, F, store'[d])
  BY DEF Inv, Base, Stores, RotateEpoch, AdoptedEpoch
<1>2. /\ r.parents = Heads(LoadGraph(E, S)) /\ r.actor = d /\ r.kind = "DeviceRevoked"
      /\ r.device = victim /\ r.operation = Other /\ r.epoch = keyEpoch[d][u]
  BY DEF NewEvent
<1>3. known \subseteq Born(E, S) /\ name \in Id \cup {Unnamed}
  <2>1. memory[d][u] \in Vault
    BY DEF Inv, Memories
  <2>2. QED
    BY <2>1 DEF Inv, Memories, Vault
<1>4. /\ k.parents = {t} /\ k.actor = d /\ k.kind = "EpochCheckpoint" /\ k.epoch = t
      /\ k.device = victim
      /\ k.operation = [op |-> "EpochCheckpoint", secrets |-> known, name |-> name]
  BY DEF CheckpointSecrets, CheckpointName
<1>5. keyEpoch \in [Device -> [Tab -> Epoch]] /\ keyEpoch[d][u] \in Epoch
  BY <1>1 DEF Labels
<1> HIDE DEF E, F, S, r, known, name, k
<1>6. /\ SignedAfter(E, F)
      /\ DOMAIN F = DOMAIN E \cup {t, c} /\ F[t] = r /\ F[c] = k
      /\ Past(F, t) = S /\ Past(F, c) = S \cup {t}
      /\ Content(F)
  <2>1. F[t] = r /\ F[c] = k
    BY <1>1
  <2>2. SignsRotation(E, S, d, t, c, F)
    <3>1. F = [x \in DOMAIN E \cup {t, c} |->
                 IF x = t THEN F[t] ELSE IF x = c THEN F[c] ELSE E[x]]
      BY <1>1, <2>1
    <3>2. /\ F[t].parents = Heads(LoadGraph(E, S)) /\ F[t].actor = d
          /\ F[t].kind = "DeviceRevoked" /\ F[t].device # d /\ F[t].operation = Other
      BY <1>1, <1>2, <2>1
    <3>3. /\ F[c].parents = {t} /\ F[c].actor = d
          /\ F[c].kind = "EpochCheckpoint" /\ F[c].epoch = t
          /\ F[c].operation = [op |-> "EpochCheckpoint",
                               secrets |-> known, name |-> name]
      BY <1>4, <2>1
    <3>4. QED
      BY <1>1, <1>3, <3>1, <3>2, <3>3 DEF SignsRotation
  <2>3. /\ SignedAfter(E, F) /\ DOMAIN F = DOMAIN E \cup {t, c}
        /\ Past(F, t) = S /\ Past(F, c) = S \cup {t} /\ Content(F)
    <3>1. Content(E) /\ Approvals(E) /\ Clean(E, S) /\ d \in Roster(E, S)
      BY <1>1
    <3>2. Rotated(E, S, t, c, F)
      BY <2>2, <3>1, RotationJoins
    <3>3. QED
      BY <3>2 DEF Rotated
  <2>4. QED
    BY <2>1, <2>3
<1>7. DOMAIN F \ DOMAIN E = {t, c}
  BY <1>1, <1>6
<1>8. Approvals(F)
  <2>1. \A x \in DOMAIN F \ DOMAIN E : F[x].kind \notin {"VaultImported", "JoinApproved"}
    BY <1>2, <1>4, <1>6, <1>7
  <2>2. QED
    BY <1>1, <1>6, <2>1, SigningKeepsApprovals
<1>9. Clean(F, S \cup {t, c})
  <2> DEFINE X == {t, c}
  <2>1. X \in SUBSET (DOMAIN F \ DOMAIN E)
    BY <1>7
  <2>2. \A x \in X : S \subseteq Past(F, x) /\ Past(F, x) \subseteq S \cup X
    BY <1>6
  <2>3. \A x, y \in X : Rotates(F[x]) /\ x # y => x \in Past(F, y)
    <3>1. ~Rotates(F[c])
      BY <1>4, <1>6 DEF Rotates
    <3>2. t \in Past(F, c)
      BY <1>6
    <3>3. QED
      BY <3>1, <3>2
  <2>4. \A p \in X : F[p].kind = "DeviceRevoked" =>
                        \E q \in X : p \in CommittedParents(F[q])
    <3>1. t \in CommittedParents(F[c]) /\ F[c].kind # "DeviceRevoked"
      BY <1>4, <1>6 DEF CommittedParents
    <3>2. QED
      BY <3>1
  <2>5. History(E) /\ History(F)
    BY <1>1, <1>6 DEF Content
  <2> HIDE DEF X
  <2>6. Clean(F, S \cup X)
    BY <1>1, <1>6, <2>1, <2>2, <2>3, <2>4, <2>5, StoringKeepsClean
  <2>7. QED
    BY <2>6 DEF X
<1>10. \A j \in Device : Clean(F, store[j])
  <2>1. ASSUME NEW j \in Device PROVE Clean(F, store[j])
    <3> DEFINE T == store[j]
    <3>1. Clean(E, T)
      BY <1>1 DEF Stores, E
    <3> HIDE DEF T
    <3>2. Clean(F, T)
      BY <1>6, <3>1, SigningKeepsClean
    <3>3. QED
      BY <3>2 DEF T
  <2>2. QED
    BY <2>1
<1>11. Stores'
  <2>1. DOMAIN E \subseteq DOMAIN F /\ {t, c} \subseteq DOMAIN F
    BY <1>6
  <2>2. store \in [Device -> SUBSET DOMAIN E]
    BY <1>1 DEF Stores, E
  <2>3. store' \in [Device -> SUBSET DOMAIN F]
    BY <1>1, <2>1, <2>2
  <2>4. \A j \in Device : store'[j] = IF j = d THEN S \cup {t, c} ELSE store[j]
    BY <1>1, <2>2
  <2>5. \A j \in Device : Clean(F, store'[j])
    BY <1>9, <1>10, <2>4
  <2>6. QED
    BY <2>3, <2>5 DEF Stores, F
<1>12. Labels'
  <2>1. t \in Epoch'
    <3>1. t \in DOMAIN F /\ F[t].kind = "DeviceRevoked"
      BY <1>2, <1>6
    <3>2. QED
      BY <3>1 DEF Epoch, Of, F
  <2>2. F[t].epoch \in Epoch /\ F[c].epoch = t
    BY <1>2, <1>4, <1>5, <1>6
  <2>3. F[t].device = victim /\ F[c].device = victim
    BY <1>2, <1>4, <1>6
  <2>4. \A x \in DOMAIN F \ DOMAIN E :
          /\ F[x].epoch \in Epoch \/ F[x].epoch \in Epoch'
          /\ F[x].device \in Device
    BY <1>7, <2>1, <2>2, <2>3
  <2>5. Epoch \subseteq Epoch'
    <3>1. \A x \in DOMAIN E : x \in DOMAIN F /\ F[x] = E[x]
      BY <1>6 DEF SignedAfter
    <3>2. QED
      BY <3>1 DEF Epoch, Of, E, F
  <2>6. keyEpoch' \in [Device -> [Tab -> Epoch']]
    <3>1. [Tab -> Epoch] \subseteq [Tab -> Epoch']
      BY <2>5
    <3>2. keyEpoch \in [Device -> [Tab -> Epoch']]
      BY <1>5, <3>1
    <3>3. QED
      BY <1>1, <2>1, <3>2, TabEntry
  <2>7. QED
    BY <1>1, <1>6, <2>4, <2>6, SigningKeepsLabels DEF E, F
<1>13. Moves(d, u, S \cup {t, c})
  <2>1. store'[d] = S \cup {t, c}
    BY <1>1 DEF Stores
  <2>2. CommittedParents(F[t]) = {} /\ CommittedParents(F[c]) = {t}
    BY <1>2, <1>4, <1>6 DEF CommittedParents
  <2>3. F[c].operation.secrets = known /\ F[c].operation.name = name
    BY <1>4, <1>6
  <2>4. ASSUME NEW x \in DOMAIN F \ DOMAIN E, NEW p \in CommittedParents(F[x])
        PROVE  /\ d \in Roster(E, S)
               /\ Past(F, p) = S
               /\ F[x].operation.secrets = known
               /\ F[x].operation.name = name
    <3>1. x = c /\ p = t
      BY <1>7, <2>2, <2>4
    <3>2. QED
      BY <1>1, <1>6, <2>3, <3>1
  <2>5. store' = [store EXCEPT ![d] = S \cup {t, c}] /\ Refresh(d, u, F, S \cup {t, c})
    BY <1>1, <2>1
  <2>6. store[d] \subseteq S \cup {t, c}
    BY DEF S
  <2>7. QED
    BY <1>6, <2>4, <2>5, <2>6 DEF Moves, E, F, S, known, name
<1>14. QED
  BY <1>6, <1>8, <1>11, <1>12, <1>13 DEF Proceeds, Base, F

-----------------------------------------------------------------------------
(***************************************************************************)
(* Merging what another device published.                                  *)
(***************************************************************************)
(* Two clean stores merge into their union.                                *)
LEMMA CleanStoresUnite ==
  ASSUME NEW E, History(E), NEW S, Clean(E, S), NEW T, Clean(E, T)
  PROVE  /\ UnionRemote(E, S, T) = S \cup T
         /\ Whole(E, S \cup T)
         /\ Incomplete(E, S \cup T) = {}
<1> DEFINE V == S \cup T
<1>1. /\ Signed(E) /\ Whole(E, S) /\ Whole(E, T)
      /\ S \in SUBSET DOMAIN E /\ T \in SUBSET DOMAIN E
      /\ Incomplete(E, S) = {} /\ Incomplete(E, T) = {}
  BY DEF History, Clean, Settled, Whole
<1>2. Whole(E, V)
  BY <1>1 DEF Whole
<1>3. ASSUME NEW W, Whole(E, W), Incomplete(E, W) = {}, NEW x \in W,
             E[x].kind = "DeviceRevoked"
      PROVE  x \in Committed(E, W)
  <2>1. Applicable(LoadGraph(E, W)) = W
    BY <1>3, WholeGraph
  <2>2. IsAncestor(Stored(E, W), x, x)
    BY DEF IsAncestor
  <2>3. x \in Of(E, W, {"DeviceRevoked"})
    BY <1>3 DEF Of
  <2>4. QED
    BY <1>3, <2>1, <2>2, <2>3 DEF Incomplete
<1>4. Incomplete(E, V) = {}
  <2>1. Applicable(LoadGraph(E, V)) = V
    <3> HIDE DEF V
    <3>1. QED
      BY <1>2, WholeGraph
  <2>2. Committed(E, S) \subseteq Committed(E, V) /\ Committed(E, T) \subseteq Committed(E, V)
    BY DEF Committed
  <2>3. \A x \in Of(E, V, {"DeviceRevoked"}) : x \in Committed(E, V)
    <3>1. ASSUME NEW x \in Of(E, V, {"DeviceRevoked"})
          PROVE  x \in Committed(E, V)
      <4>1. x \in V /\ E[x].kind = "DeviceRevoked"
        BY <3>1 DEF Of
      <4>2. x \in Committed(E, S) \/ x \in Committed(E, T)
        BY <1>1, <1>3, <4>1
      <4>3. QED
        BY <2>2, <4>2
    <3>2. QED
      BY <3>1
  <2>4. QED
    BY <2>1, <2>3 DEF Incomplete
<1>5. VisibleRemote(E, S, T) = T
  BY <1>4 DEF VisibleRemote
<1>6. Excluded(E, V) = {}
  <2>1. Quarantined(LoadGraph(E, V)) = {}
    <3> HIDE DEF V
    <3>1. QED
      BY <1>2, WholeGraph
  <2>2. QED
    BY <1>4, <2>1 DEF Excluded
<1>7. UnionRemote(E, S, T) = V
  BY <1>5, <1>6 DEF UnionRemote
<1>8. QED
  BY <1>2, <1>4, <1>7

(* Merging keeps the invariant.                                            *)
LEMMA SyncKeepsInv ==
  ASSUME Inv, NEW d \in Device, NEW t \in Tab, NEW other \in Device, Sync(d, t, other)
  PROVE  Proceeds(d, t)
<1> DEFINE S == store[d]
           T == store[other]
           V == S \cup T
<1>1. /\ Content(events) /\ History(events) /\ Labels /\ Stores
      /\ Clean(events, S) /\ Clean(events, T)
  BY DEF Inv, Base, Stores, Content
<1> HIDE DEF S, T
<1>2. /\ UnionRemote(events, S, T) = V
      /\ Whole(events, V)
      /\ Incomplete(events, V) = {}
  BY <1>1, CleanStoresUnite
<1>3. /\ SecurityConflicts(events, V) = {}
      /\ store' = [store EXCEPT ![d] = V]
      /\ \/ keyEpoch' = [keyEpoch EXCEPT ![d][t] = Projection(events, V).epoch]
         \/ keyEpoch' = keyEpoch
      /\ Refresh(d, t, events, V)
      /\ events' = events
  BY <1>2 DEF Sync, Adopt, S, T
<1>4. Clean(events, V) /\ Settled(events, V)
  BY <1>2, <1>3 DEF Clean, Settled
<1>5. Projection(events, V).epoch \in Epoch
  <2> HIDE DEF V
  <2>1. EpochFits(events, V, Projection(events, V).epoch)
    BY <1>1, <1>4, ViewIsFaithful DEF Faithful
  <2>2. V \subseteq DOMAIN events
    BY <1>2 DEF Whole
  <2>3. InitialEpoch \in Epoch /\ \A x \in V : events[x].epoch \in Epoch
    BY <1>1, <2>2 DEF Labels, Epoch
  <2>4. QED
    BY <2>1, <2>3 DEF EpochFits
<1>6. Stores'
  <2>1. V \in SUBSET DOMAIN events
    BY <1>2 DEF Whole
  <2>2. store \in [Device -> SUBSET DOMAIN events]
    BY <1>1 DEF Stores
  <2> HIDE DEF V
  <2>3. \A k \in Device : store'[k] = IF k = d THEN V ELSE store[k]
    BY <1>3, <2>2
  <2>4. \A k \in Device : Clean(events, store'[k])
    BY <1>1, <1>4, <2>3 DEF Stores
  <2>5. store' \in [Device -> SUBSET DOMAIN events]
    BY <1>3, <2>1, <2>2
  <2>6. QED
    BY <1>3, <2>4, <2>5 DEF Stores
<1>7. Labels'
  <2>1. Epoch' = Epoch
    BY <1>3 DEF Epoch
  <2>2. keyEpoch \in [Device -> [Tab -> Epoch]]
    BY <1>1 DEF Labels
  <2> HIDE DEF V
  <2>3. CASE keyEpoch' = keyEpoch
    BY <1>1, <1>3, <2>1, <2>2, <2>3 DEF Labels
  <2>4. CASE keyEpoch' = [keyEpoch EXCEPT ![d][t] = Projection(events, V).epoch]
    <3> DEFINE e == Projection(events, V).epoch
    <3>1. e \in Epoch /\ keyEpoch' = [keyEpoch EXCEPT ![d][t] = e]
      BY <1>5, <2>4
    <3> HIDE DEF e
    <3>2. keyEpoch' \in [Device -> [Tab -> Epoch]]
      BY <2>2, <3>1, TabEntry
    <3>3. QED
      BY <1>1, <1>3, <2>1, <3>2 DEF Labels
  <2>5. QED
    BY <1>3, <2>3, <2>4
<1>8. Content(events') /\ Approvals(events')
  BY <1>3 DEF Inv, Base
<1>9. Moves(d, t, V)
  <2>1. SignedAfter(events, events')
    BY <1>1, <1>3 DEF SignedAfter, History
  <2>2. store[d] \subseteq V
    BY DEF S
  <2> HIDE DEF V
  <2>3. QED
    BY <1>3, <2>1, <2>2 DEF Moves
<1>10. QED
  BY <1>6, <1>7, <1>8, <1>9 DEF Proceeds, Base

(* Whatever a tab does is such a step.                                     *)
LEMMA StepsAreKept ==
  ASSUME Inv, Next
  PROVE  \E d \in Device, t \in Tab : Proceeds(d, t)
<1>1. PICK d \in Device, t \in Tab :
        \/ \E id \in Id :
             \/ \E s \in Secret : AddSecret(d, t, id, s) \/ DeleteSecret(d, t, id, s)
             \/ \E old, new \in Secret :
                  ReplaceSecret(d, t, id, old, new) \/ ResolveConflict(d, t, id, old, new)
             \/ NameVault(d, t, id)
             \/ MergeHeads(d, t, id)
             \/ RequestAccess(d, t, id)
        \/ \E r, c \in Id, victim \in Device : RotateEpoch(d, t, r, c, victim)
        \/ \E other \in Device : Sync(d, t, other)
  BY DEF Next
<1>2. ASSUME NEW id \in Id,
             \/ \E s \in Secret : AddSecret(d, t, id, s) \/ DeleteSecret(d, t, id, s)
             \/ \E old, new \in Secret :
                  ReplaceSecret(d, t, id, old, new) \/ ResolveConflict(d, t, id, old, new)
             \/ NameVault(d, t, id)
             \/ MergeHeads(d, t, id)
             \/ RequestAccess(d, t, id)
      PROVE  Proceeds(d, t)
  BY <1>2, EditsMayAppend
<1>3. CASE \E r, c \in Id, victim \in Device : RotateEpoch(d, t, r, c, victim)
  BY <1>3, RotationKeepsInv
<1>4. CASE \E other \in Device : Sync(d, t, other)
  BY <1>4, SyncKeepsInv
<1>5. QED
  BY <1>1, <1>2, <1>3, <1>4

(* The invariant is inductive, for any number of tabs.                     *)
LEMMA NextKeepsInv == Inv /\ [Next]_vars => Inv'
<1> SUFFICES ASSUME Inv, [Next]_vars
             PROVE  Inv'
  OBVIOUS
<1>1. CASE Next
  <2>1. PICK d \in Device, t \in Tab : Proceeds(d, t)
    BY <1>1, StepsAreKept
  <2>2. PICK V : Base' /\ Moves(d, t, V)
    BY <2>1 DEF Proceeds
  <2>3. Memories'
    BY <2>2, MovesKeepMemories
  <2>4. QED
    BY <2>2, <2>3 DEF Inv
<1>2. CASE UNCHANGED vars
  BY <1>2 DEF vars, Inv, Base, Labels, Stores, Memories, Epoch
<1>3. QED
  BY <1>1, <1>2

(* The invariant holds of every reachable state.                           *)
LEMMA AlwaysInv == Spec => []Inv
<1>1. Init => Inv
  BY InitIsInv
<1>2. Inv /\ [Next]_vars => Inv'
  BY NextKeepsInv
<1>3. QED
  BY <1>1, <1>2, PTL DEF Spec

-----------------------------------------------------------------------------
(***************************************************************************)
(* One tab: its memory is what the store shows, and so are checkpoints.    *)
(***************************************************************************)
(* Every checkpoint that the only tab of a device makes records its past.  *)
LEMMA MovesKeepCheckpoints ==
  ASSUME Inv, Recorded, NEW d \in Device, NEW t \in Tab, NEW V, Moves(d, t, V)
  PROVE  Checkpoints(events')
<1> DEFINE E == events
           F == events'
           S == store[d]
           known == memory[d][t].secrets
           name == memory[d][t].name
<1>1. SignedAfter(E, F) /\ Checkpoints(E) /\ S \in SUBSET DOMAIN E
  BY DEF Inv, Base, Stores, Recorded, Moves
<1>2. ASSUME NEW c \in DOMAIN F \ DOMAIN E, NEW r \in CommittedParents(F[c])
      PROVE  /\ F[c].operation.secrets = Held(F, Past(F, r))
             /\ NameFits(F, Past(F, r), F[c].operation.name)
  <2>1. /\ d \in Roster(E, S) /\ Past(F, r) = S
        /\ F[c].operation.secrets = known /\ F[c].operation.name = name
    BY <1>2 DEF Moves
  <2>2. known = Held(E, S) /\ NameFits(E, S, name)
    BY <2>1 DEF Recorded
  <2> HIDE DEF E, F, S, known, name
  <2>3. Held(F, S) = Held(E, S) /\ \A n : NameFits(F, S, n) <=> NameFits(E, S, n)
    BY <1>1, ContentIsHistory
  <2>4. QED
    BY <2>1, <2>2, <2>3
<1> HIDE DEF E, F
<1>3. Checkpoints(F)
  BY <1>1, <1>2, SigningKeepsCheckpoints
<1>4. QED
  BY <1>3 DEF F

(* What is signed elsewhere changes nothing for the tabs of a device.      *)
LEMMA OthersStayRecorded ==
  ASSUME NEW E, NEW F, SignedAfter(E, F), NEW W \in SUBSET DOMAIN E
  PROVE  /\ Roster(F, W) = Roster(E, W)
         /\ Held(F, W) = Held(E, W)
         /\ \A name : NameFits(F, W, name) <=> NameFits(E, W, name)
<1>1. LoadGraph(F, W) = LoadGraph(E, W) /\ Stored(F, W) = Stored(E, W)
  BY GraphIsHistory
<1> DEFINE A == Applicable(LoadGraph(E, W))
           Admitted(X) == Of(X, A, {"VaultImported", "JoinApproved"})
           Revoked(X) == Of(X, A, {"DeviceRevoked"})
           Unrevoked(X) ==
             {a \in Admitted(X) : \A r \in Revoked(X) :
                X[r].device = X[a].device => IsAncestor(Stored(E, W), r, a)}
<1>2. A \subseteq W
  BY ApplicableIsAccepted DEF SignedAfter
<1>3. \A x \in A : F[x] = E[x]
  BY <1>2 DEF SignedAfter
<1>4. Roster(E, W) = {E[a].device : a \in Unrevoked(E)}
  BY DEF Roster
<1>5. Roster(F, W) = {F[a].device : a \in Unrevoked(F)}
  BY <1>1 DEF Roster
<1> HIDE DEF A
<1>6. Admitted(F) = Admitted(E) /\ Revoked(F) = Revoked(E)
  BY <1>3 DEF Of
<1>7. Admitted(E) \subseteq A /\ Revoked(E) \subseteq A
  BY DEF Of
<1>8. Unrevoked(F) = Unrevoked(E)
  BY <1>3, <1>6, <1>7
<1>9. Roster(F, W) = Roster(E, W)
  BY <1>3, <1>4, <1>5, <1>7, <1>8
<1>10. QED
  BY <1>9, ContentIsHistory

(* With one tab per device, every tab stays up to date.                    *)
LEMMA MovesKeepRecorded ==
  ASSUME \A t, u \in Tab : t = u,
         Inv, Recorded, Base', NEW d \in Device, NEW t \in Tab, NEW V, Moves(d, t, V)
  PROVE  Recorded'
<1> DEFINE E == events
           F == events'
           vault == Opened(F, V)
<1>1. /\ SignedAfter(E, F) /\ store' = [store EXCEPT ![d] = V]
      /\ store \in [Device -> SUBSET DOMAIN E]
      /\ memory \in [Device -> [Tab -> Vault]]
      /\ Refresh(d, t, F, V)
  BY DEF Inv, Base, Stores, Memories, Moves
<1>2. \A k \in Device : store'[k] = IF k = d THEN V ELSE store[k]
  BY <1>1
<1>3. /\ Content(F) /\ Settled(F, V) /\ \A x \in V : F[x].device \in Device
  BY <1>2 DEF Base, Stores, Labels, Clean, Settled, Whole
<1>4. Checkpoints(F)
  BY MovesKeepCheckpoints
<1> HIDE DEF E, F
<1>5. /\ vault \in Vault
      /\ vault.secrets = Held(F, V) /\ NameFits(F, V, vault.name)
  BY <1>3, <1>4, OpenedFacts
<1>6. Tab = {t}
  OBVIOUS
<1>7. d \in Roster(F, V) => memory' = [memory EXCEPT ![d][t] = vault]
  BY <1>1, <1>6 DEF Refresh, MayFail
<1>8. memory' = [memory EXCEPT ![d][t] = vault] \/ memory' = memory
  BY <1>1 DEF Refresh
<1> HIDE DEF vault
<1>9. \A k \in Device \ {d}, u \in Tab : memory'[k][u] = memory[k][u]
  <2>1. CASE memory' = memory
    BY <2>1
  <2>2. CASE memory' = [memory EXCEPT ![d][t] = vault]
    BY <1>1, <1>5, <2>2, TabEntry
  <2>3. QED
    BY <1>8, <2>1, <2>2
<1>10. ASSUME NEW k \in Device, NEW u \in Tab, k \in Roster(F, store'[k])
       PROVE  /\ memory'[k][u].secrets = Held(F, store'[k])
              /\ NameFits(F, store'[k], memory'[k][u].name)
  <2>1. CASE k = d
    <3>1. store'[k] = V /\ u = t
      BY <1>2, <1>6, <2>1
    <3>2. memory'[k][u] = vault
      BY <1>1, <1>5, <1>7, <1>10, <2>1, <3>1, TabEntry
    <3>3. QED
      BY <1>5, <3>1, <3>2
  <2>2. CASE k # d
    <3> DEFINE W == store[k]
               known == memory[k][u].secrets
               name == memory[k][u].name
    <3>1. store'[k] = W /\ W \in SUBSET DOMAIN E
      BY <1>1, <1>2, <2>2
    <3>2. memory'[k][u] = memory[k][u]
      BY <1>9, <2>2
    <3>3. k \in Roster(E, W) => known = Held(E, W) /\ NameFits(E, W, name)
      BY DEF Recorded, E
    <3> HIDE DEF W
    <3>4. /\ Roster(F, W) = Roster(E, W) /\ Held(F, W) = Held(E, W)
          /\ \A n : NameFits(F, W, n) <=> NameFits(E, W, n)
      <4>1. SignedAfter(E, F) /\ W \in SUBSET DOMAIN E
        BY <1>1, <3>1
      <4>2. QED
        BY <4>1, OthersStayRecorded
    <3>5. QED
      BY <1>10, <3>1, <3>2, <3>3, <3>4
  <2>3. QED
    BY <2>1, <2>2
<1>11. QED
  BY <1>4, <1>10 DEF Recorded, F

(* So the tabs and the checkpoints are always up to date.                  *)
LEMMA AlwaysRecorded ==
  ASSUME \A t, u \in Tab : t = u
  PROVE  Spec => [](Inv /\ Recorded)
<1> DEFINE J == Inv /\ Recorded
<1>1. Init => J
  BY InitIsInv
<1>2. ASSUME J, [Next]_vars
      PROVE  J'
  <2>1. Inv'
    BY <1>2, NextKeepsInv
  <2>2. Base'
    BY <2>1 DEF Inv
  <2>3. CASE Next
    <3>1. PICK d \in Device, t \in Tab : Proceeds(d, t)
      BY <1>2, <2>3, StepsAreKept
    <3>2. PICK V : Moves(d, t, V)
      BY <3>1 DEF Proceeds
    <3>3. Recorded'
      BY <1>2, <2>2, <3>2, MovesKeepRecorded
    <3>4. QED
      BY <2>1, <3>3
  <2>4. CASE UNCHANGED vars
    <3>1. Recorded'
      BY <1>2, <2>4 DEF vars, Recorded
    <3>2. QED
      BY <2>1, <3>1
  <2>5. QED
    BY <1>2, <2>3, <2>4
<1>3. J /\ [Next]_vars => J'
  BY <1>2
<1>4. QED
  BY <1>1, <1>3, PTL DEF Spec

-----------------------------------------------------------------------------
(***************************************************************************)
(* The theorems. Each follows from the invariants in every state.          *)
(***************************************************************************)
(* The signed events, the stores, and the epoch labels and the memory of   *)
(* any number of tabs keep their types: an event names parents that exist, *)
(* and a label, adopted by rotation or from a merged projection, is the    *)
(* initial epoch or a revocation (build_event, union_remote,               *)
(* prepare_security_epoch_rotation).                                       *)
THEOREM ProjectionTypes == Spec => []TypeOK
<1>1. Inv => TypeOK
  <2> SUFFICES ASSUME Inv PROVE TypeOK
    OBVIOUS
  <2>1. Signed(events) /\ Edits(events) /\ Labels /\ Stores /\ Memories
    BY DEF Inv, Base, Content, History
  <2>2. \A x \in DOMAIN events : events[x].operation \in Operation
    BY <2>1 DEF Edits
  <2>3. QED
    BY <2>1, <2>2 DEF TypeOK, Signed, Labels, Stores, Memories
<1>2. QED
  BY <1>1, AlwaysInv, PTL

(* Where every checkpoint recorded its past, a device sees in every        *)
(* tie-break of the fold what its store holds.                             *)
LEMMA EveryOrderIsFaithful ==
  ASSUME Inv, Checkpoints(events), NEW d \in Device, NEW q \in Linearizations(d)
  PROVE  /\ Range(q) = store[d]
         /\ NameFits(events, store[d], FoldOrder(events, q).name)
         /\ LiveIn(d, q) = Held(events, store[d])
         /\ DeletedBy(q) = Gone(events, store[d])
<1> DEFINE S == store[d]
           p == FoldOrder(events, q)
           secrets == p.secrets
<1>1. Content(events) /\ Settled(events, S) /\ History(events) /\ Whole(events, S)
  BY DEF Inv, Base, Stores, Clean, Settled, Content
<1>2. LiveIn(d, q) = LiveSecrets(Stored(events, S), secrets)
  BY DEF LiveIn
<1>3. S = store[d]
  OBVIOUS
<1> HIDE DEF S
<1>4. Ordered(events, S, q)
  BY <1>1, <1>3, LinearizationsAreOrdered
<1>5. Range(q) = S
  BY <1>4 DEF Ordered
<1>6. Faithful(events, S, p)
  BY <1>1, <1>4, FoldIsFaithful
<1>7. SecretsFit(events, S, secrets) /\ NameFits(events, S, p.name)
  BY <1>6 DEF Faithful
<1> HIDE DEF secrets, p
<1>8. LiveSecrets(Stored(events, S), secrets) = Held(events, S)
  BY <1>1, <1>7, LiveIsHeld
<1>9. DeletedBy(q) = Gone(events, S)
  BY <1>5 DEF DeletedBy, Gone
<1>10. QED
  BY <1>2, <1>3, <1>5, <1>7, <1>8, <1>9 DEF p

(* What an event created is among what no checkpoint created.              *)
LEMMA CreatedIsBorn ==
  ASSUME NEW E, Content(E), NEW S, Whole(E, S), NEW x \in S
  PROVE  Creates(E[x].operation) \subseteq Born(E, S)
<1>1. x \in DOMAIN E /\ Past(E, x) \subseteq S
  BY DEF Whole
<1>2. CASE E[x].kind # "EpochCheckpoint"
  BY <1>2 DEF Born
<1>3. CASE E[x].kind = "EpochCheckpoint"
  <2>1. Creates(E[x].operation) \subseteq Born(E, Past(E, x))
    BY <1>1, <1>3, CheckpointIsBorn
  <2>2. Born(E, Past(E, x)) \subseteq Born(E, S)
    BY <1>1 DEF Born
  <2>3. QED
    BY <2>1, <2>2
<1>4. QED
  BY <1>2, <1>3

(* Each of the three properties, where every checkpoint recorded its past. *)
LEMMA RecordedHistoryIsShown ==
  ASSUME Inv, Checkpoints(events)
  PROVE  NoResurrection /\ NothingLost /\ NameIsCurrent
<1>1. NoResurrection
  BY EveryOrderIsFaithful DEF NoResurrection, Held
<1>2. NothingLost
  <2> SUFFICES ASSUME NEW d \in Device, NEW q \in Linearizations(d), NEW x \in Range(q)
               PROVE  Creates(events[x].operation) \subseteq LiveIn(d, q) \cup DeletedBy(q)
    BY DEF NothingLost
  <2> DEFINE S == store[d]
  <2>1. Content(events) /\ Whole(events, S)
    BY DEF Inv, Base, Stores, Clean, Settled
  <2>2. Range(q) = S /\ LiveIn(d, q) = Held(events, S) /\ DeletedBy(q) = Gone(events, S)
    BY EveryOrderIsFaithful
  <2> HIDE DEF S
  <2>3. Creates(events[x].operation) \subseteq Born(events, S)
    BY <2>1, <2>2, CreatedIsBorn
  <2>4. QED
    BY <2>2, <2>3 DEF Held
<1>3. NameIsCurrent
  <2> SUFFICES ASSUME NEW d \in Device, NEW q \in Linearizations(d)
               PROVE  LET P == Stored(events, store[d])
                          named == {x \in Range(q) : events[x].operation.op = "VaultNamed"}
                          latest == {x \in named : \A y \in named : x \notin Reach(P, y)}
                      IN  named # {} => FoldOrder(events, q).name \in latest
    BY DEF NameIsCurrent
  <2> DEFINE S == store[d]
             named == {x \in Range(q) : events[x].operation.op = "VaultNamed"}
             latest == {x \in named : \A y \in named : x \notin Reach(Stored(events, S), y)}
  <2>1. History(events) /\ Whole(events, S)
    BY DEF Inv, Base, Stores, Clean, Settled, Content
  <2>2. Range(q) = S /\ NameFits(events, S, FoldOrder(events, q).name)
    BY EveryOrderIsFaithful
  <2>3. named = Namings(events, S) /\ named \subseteq S
    BY <2>2 DEF Namings
  <2>4. \A y \in S : Reach(Stored(events, S), y) = Past(events, y)
    <3> HIDE DEF S
    <3>1. QED
      BY <2>1, WholeGraph
  <2>5. latest = Latest(events, S)
    <3> HIDE DEF named
    <3>1. QED
      BY <2>3, <2>4 DEF Latest
  <2>6. QED
    BY <2>2, <2>3, <2>5 DEF NameFits
<1>4. QED
  BY <1>1, <1>2, <1>3

(* Any number of tabs: a secret comes back, a secret is lost or the name   *)
(* is reverted only after a tab rotated the epoch from memory that was not *)
(* what the trigger's past shows. Neither merges nor the order of the fold *)
(* do any of this (from_graph, live_secrets, union_remote,                 *)
(* prepare_security_epoch_rotation).                                       *)
THEOREM OnlyStaleRotationsHarm ==
  Spec => [](Checkpoints(events) => NoResurrection /\ NothingLost /\ NameIsCurrent)
<1>1. Inv => (Checkpoints(events) => NoResurrection /\ NothingLost /\ NameIsCurrent)
  BY RecordedHistoryIsShown
<1>2. QED
  BY <1>1, AlwaysInv, PTL

(* One tab per device: a secret that was deleted, replaced or rejected     *)
(* never comes back, on no device and in no order in which the fold may    *)
(* take the events, although the checkpoint of every rotation creates the  *)
(* secrets in the memory of its tab anew (from_graph, live_secrets,        *)
(* prepare_security_epoch_rotation).                                       *)
THEOREM DeletedStaysDeleted ==
  ASSUME \A t, u \in Tab : t = u
  PROVE  Spec => []NoResurrection
<1>1. Inv /\ Recorded => NoResurrection
  BY RecordedHistoryIsShown DEF Recorded
<1>2. QED
  BY <1>1, AlwaysRecorded, PTL

(* One tab per device: a secret that was created and that no event deletes *)
(* is shown, on every device that has the event and in every order of the  *)
(* fold: the memory of the only tab, which a rotation carries over, has    *)
(* all of them (from_graph, live_secrets, union_remote,                    *)
(* prepare_security_epoch_rotation).                                       *)
THEOREM NothingIsLost ==
  ASSUME \A t, u \in Tab : t = u
  PROVE  Spec => []NothingLost
<1>1. Inv /\ Recorded => NothingLost
  BY RecordedHistoryIsShown DEF Recorded
<1>2. QED
  BY <1>1, AlwaysRecorded, PTL

(* One tab per device: the name a device shows is one that no later naming *)
(* has seen, and a rotation, which takes the name from its tab's memory,   *)
(* neither drops nor reverts it (VaultNamed, EpochCheckpoint and           *)
(* VaultNameEpochReencryption).                                            *)
THEOREM NameStaysCurrent ==
  ASSUME \A t, u \in Tab : t = u
  PROVE  Spec => []NameIsCurrent
<1>1. Inv /\ Recorded => NameIsCurrent
  BY RecordedHistoryIsShown DEF Recorded
<1>2. QED
  BY <1>1, AlwaysRecorded, PTL

(* Concurrent replacements of one secret whose results both live are shown *)
(* as a conflict on it, until an event that the device has applied         *)
(* resolves one (detect_replacement_conflicts, resolve_conflict). Any      *)
(* number of tabs.                                                         *)
THEOREM ReplacementsAreGrouped == Spec => []ConflictGroup
<1>1. Inv => ConflictGroup
  <2> SUFFICES ASSUME Inv, NEW d \in Device
               PROVE  LET A == Applicable(LoadGraph(events, store[d]))
                          P == Stored(events, store[d])
                          shown    == Shown(d)
                          groups   == DOMAIN Conflicts(d)
                          op(x)    == events[x].operation
                          repl     == {x \in A : op(x).op = "SecretReplaced" /\ op(x).new \in shown}
                          resolved == {op(x).old : x \in {x \in A : op(x).op = "SecretConflictResolved"}}
                      IN  \A x, y \in repl :
                            op(x).old = op(y).old /\ AreConcurrent(P, x, y)
                              => op(x).old \in groups \cup resolved
    BY DEF ConflictGroup
  <2> DEFINE S == store[d]
             A == Applicable(LoadGraph(events, S))
             P == Stored(events, S)
             replaced == View(d).replaced
             op(x) == events[x].operation
             resolved == {op(x).old : x \in {x \in A : op(x).op = "SecretConflictResolved"}}
  <2>1. A = S
    <3>1. History(events) /\ Whole(events, S)
      BY DEF Inv, Base, Stores, Clean, Settled, Content
    <3> HIDE DEF S
    <3>2. QED
      BY <3>1, WholeGraph
  <2>2. ReplacedFits(events, S, replaced)
    BY ShownIsFaithful DEF Faithful
  <2>3. DOMAIN Conflicts(d)
          = {s \in DOMAIN replaced :
               \E u, v \in replaced[s] : AreConcurrent(P, u[1], v[1])}
    BY DEF Conflicts, ReplacementConflicts, Restrict
  <2>4. ASSUME NEW x \in A, NEW y \in A,
               op(x).op = "SecretReplaced", op(y).op = "SecretReplaced",
               op(x).old = op(y).old, AreConcurrent(P, x, y)
        PROVE  op(x).old \in DOMAIN Conflicts(d) \cup resolved
    <3> DEFINE old == op(x).old
    <3>1. CASE \E z \in S : op(z).op = "SecretConflictResolved" /\ op(z).old = old
      BY <2>1, <3>1
    <3>2. CASE ~ \E z \in S : op(z).op = "SecretConflictResolved" /\ op(z).old = old
      <4>1. /\ old \in DOMAIN replaced
            /\ <<x, op(x).new>> \in replaced[old]
            /\ <<y, op(y).new>> \in replaced[old]
        BY <2>1, <2>2, <2>4, <3>2 DEF ReplacedFits
      <4>2. <<x, op(x).new>>[1] = x /\ <<y, op(y).new>>[1] = y
        OBVIOUS
      <4>3. old \in DOMAIN Conflicts(d)
        BY <2>3, <2>4, <4>1, <4>2
      <4>4. QED
        BY <4>3
    <3>3. QED
      BY <3>1, <3>2
  <2>5. QED
    BY <2>4
<1>2. QED
  BY <1>1, AlwaysInv, PTL
=============================================================================
