----------------------- MODULE IdentityControlProofs -----------------------
(***************************************************************************)
(* Machine-checked proofs about the identity control log, for any number   *)
(* of installations, passphrases and events, any history of the founder,   *)
(* and any order in which events reach a log: what a log makes of its      *)
(* events does not depend on their order, what members sign stands, an     *)
(* invite admits one installation, removed words admit nobody, and the     *)
(* local directory mirrors the log.                                        *)
(***************************************************************************)
EXTENDS IdentityControl, TLAPS, WellFoundedInduction, FiniteSetTheorems

-----------------------------------------------------------------------------
(***************************************************************************)
(* Signed events.                                                          *)
(***************************************************************************)
Event ==
  [actor : App \cup Outsider, kind : Operation, app : App, invite : {0} \cup EventId,
   parents : SUBSET EventId, past : SUBSET EventId]

(* A set of events is closed under ancestry, and an event comes after all  *)
(* that it builds on.                                                      *)
Graph(E) ==
  /\ DOMAIN E \subseteq EventId
  /\ E \in [DOMAIN E -> Event]
  /\ \A i \in DOMAIN E :
       /\ E[i].parents \subseteq DOMAIN E
       /\ E[i].past = UNION {UpTo(E, j) : j \in E[i].parents}
       /\ E[i].past \subseteq DOMAIN E
       /\ i \notin E[i].past
       /\ \A j \in E[i].past : UpTo(E, j) \subseteq E[i].past

(* Who may sign what: keys say nothing else.                               *)
Roles(E) ==
  \A i \in DOMAIN E :
    /\ E[i].kind = "recovery" => E[i].app \in Passphrase
    /\ (E[i].kind \in Admission /\ E[i].app \in Passphrase /\ E[i].actor \notin Outsider)
         => E[i].kind = "recovery"
    /\ E[i].actor \in Outsider => E[i].kind \in {"approved", "revoked"}
    /\ E[i].actor \in Passphrase => E[i].kind = "approved"
    /\ E[i].kind = "joined" => E[i].invite \in E[i].past
    /\ E[i].kind # "joined" => E[i].invite = 0

Contestable(E, i) ==
  E[i].kind = "joined" \/ E[i].actor \in Passphrase \cup Outsider

(* An event that nobody can contest was signed by a member, as its own     *)
(* past tells.                                                             *)
Allowed(E, i) ==
  E[i].kind \in {"created", "requested"} \/
  (E[i].actor \in EffectiveMembers(E, E[i].past) /\ ~MemberActionRejection(E, i))

Lawful(E) == \A i \in DOMAIN E : Contestable(E, i) \/ Allowed(E, i)

Events(E) == Graph(E) /\ Roles(E) /\ Lawful(E)

(***************************************************************************)
(* A log is sound when nothing that applies would be refused, and whatever *)
(* is rejected was refused when all of its past was there already.         *)
(***************************************************************************)
Typed(E, log) == log \in Log /\ log.rejected \subseteq log.held /\ log.held \subseteq DOMAIN E

Stable(E, log) == \A i \in Applicable(E, log) : ~Unauthorized(E, log, i)

Refused(E, held, i) ==
  \E l \in Log : /\ l.held \subseteq held /\ UpTo(E, i) \subseteq l.held
                 /\ Unauthorized(E, l, i)

Grounded(E, log) == \A i \in log.rejected : Refused(E, log.held, i)

Sound(E, log) == Typed(E, log) /\ Stable(E, log) /\ Grounded(E, log)

(***************************************************************************)
(* The invariant.                                                          *)
(***************************************************************************)
LogInv ==
  /\ Sound(event, provider)
  /\ disk \in [Installation -> Log] /\ memory \in [Installation -> Log]
  /\ \A d \in Installation :
       /\ Sound(event, disk[d]) /\ Sound(event, memory[d])
       /\ memory[d].held \subseteq disk[d].held

(* Apps that an applicable event admitted: the members and the revoked.    *)
Admitted(E, log) == {E[i].app : i \in {j \in Applicable(E, log) : E[j].kind \in Admission}}

Unsettled(E) ==
  \E i \in DOMAIN E : \/ E[i].kind = "joined"
                      \/ E[i].kind = "revoked" /\ E[i].app \in Passphrase

DirectoryInv ==
  /\ directory \in [Installation -> SUBSET Installation]
  /\ \/ Unsettled(event)
     \/ \A d \in Installation :
          /\ directory[d] \subseteq {d} \cup Admitted(event, memory[d])
          /\ d \in Members(event, memory[d]) => directory[d] = AppMembers(event, memory[d])

IInv == Events(event) /\ LogInv /\ DirectoryInv

-----------------------------------------------------------------------------
(***************************************************************************)
(* Recursion. Each recursive function exists because there is no least     *)
(* size of argument at which it would not, and what it computes is in any  *)
(* set that its steps do not leave.                                        *)
(***************************************************************************)

(* A nonempty set of naturals has a least member. *)
LEMMA LeastNatural ==
  ASSUME NEW T \in SUBSET Nat, T # {}
  PROVE  \E x \in T : \A y \in T : x <= y
<1>1. PICK x \in T : \A y \in T : ~(<<y, x>> \in OpToRel(<, Nat))
  BY NatLessThanWellFounded, WFMin
<1>2. \A y \in T : ~(y < x)
  BY <1>1 DEF OpToRel
<1>3. QED
  BY <1>2

(* Event ids are the numbers up to a last one. *)
LEMMA IdsAreNumbers == LastId \in Nat /\ EventId \in SUBSET Nat /\ EventId = 1..LastId
<1>1. Len(History) \in Nat
  BY HistoryAssumption
<1>2. QED
  BY <1>1, MaxNewAssumption DEF LastId, EventId

(* A run of InIdOrder over the ids up to k. *)
Run(change, log, k, f) ==
  f = [n \in 0..k |-> IF n = 0 THEN log ELSE change[n][f[n - 1]]]

(* There is a run over any number of ids: a run over k - 1 of them has a   *)
(* next step.                                                              *)
LEMMA RunExists ==
  ASSUME NEW change, NEW log, NEW k \in Nat
  PROVE  \E f : Run(change, log, k, f)
<1> DEFINE T == {n \in Nat : ~\E f : Run(change, log, n, f)}
<1> SUFFICES ASSUME T # {} PROVE FALSE
  OBVIOUS
<1>1. PICK m \in T : \A n \in T : m <= n
  <2>1. T \in SUBSET Nat /\ T # {}
    OBVIOUS
  <2> HIDE DEF T
  <2>2. QED
    BY <2>1, LeastNatural
<1>2. CASE m = 0
  <2>1. Run(change, log, 0, [n \in 0..0 |-> log])
    BY DEF Run
  <2>2. QED
    BY <1>1, <1>2, <2>1
<1>3. CASE m # 0
  <2>1. m - 1 \in Nat /\ m - 1 \notin T
    BY <1>1, <1>3
  <2>2. PICK f : Run(change, log, m - 1, f)
    BY <2>1
  <2> DEFINE h == [n \in 0..m |-> IF n = m THEN change[m][f[m - 1]] ELSE f[n]]
  <2>3. ASSUME NEW n \in 0..m
        PROVE  h[n] = IF n = 0 THEN log ELSE change[n][h[n - 1]]
    <3>1. CASE n = m
      <4>1. h[n - 1] = f[m - 1]
        BY <1>3, <3>1, <2>1
      <4>2. QED
        BY <1>3, <3>1, <4>1
    <3>2. CASE n # m /\ n = 0
      <4>1. f[0] = log
        BY <2>1, <2>2 DEF Run
      <4>2. QED
        BY <3>2, <4>1
    <3>3. CASE n # m /\ n # 0
      <4>1. n \in 0..(m - 1) /\ n - 1 \in 0..m /\ n - 1 # m
        BY <3>3
      <4>2. f[n] = change[n][f[n - 1]]
        BY <2>2, <3>3, <4>1 DEF Run
      <4>3. QED
        BY <3>3, <4>1, <4>2
    <3>4. QED
      BY <3>1, <3>2, <3>3
  <2>4. Run(change, log, m, h)
    BY <2>3 DEF Run
  <2>5. QED
    BY <1>1, <2>4
<1>4. QED
  BY <1>2, <1>3

(* Induction over the ids: what holds of the log at first, and after each  *)
(* step if before it, holds of the result.                                 *)
LEMMA InIdOrderInduction ==
  ASSUME NEW change, NEW log, NEW Q, log \in Q[0],
         \A n \in EventId : \A l \in Q[n - 1] : change[n][l] \in Q[n]
  PROVE  InIdOrder(change, log) \in Q[LastId]
<1> DEFINE a == CHOOSE f : Run(change, log, LastId, f)
<1>0. LastId \in Nat /\ EventId = 1..LastId
  BY IdsAreNumbers
<1>1. InIdOrder(change, log) = a[LastId]
  BY DEF InIdOrder, Run
<1>2. Run(change, log, LastId, a)
  BY <1>0, RunExists
<1> HIDE DEF a
<1>3. \A n \in 0..LastId : a[n] = IF n = 0 THEN log ELSE change[n][a[n - 1]]
  BY <1>2 DEF Run
<1> DEFINE T == {n \in 0..LastId : a[n] \notin Q[n]}
<1>4. SUFFICES ASSUME T # {} PROVE FALSE
  BY <1>0, <1>1
<1>5. PICK m \in T : \A n \in T : m <= n
  <2>1. T \in SUBSET Nat /\ T # {}
    BY <1>0, <1>4
  <2> HIDE DEF T
  <2>2. QED
    BY <2>1, LeastNatural
<1>6. m # 0
  BY <1>3, <1>5
<1>7. m - 1 \in 0..LastId /\ m \in EventId /\ m - 1 \notin T
  BY <1>0, <1>5, <1>6
<1>8. a[m - 1] \in Q[m - 1] /\ a[m] = change[m][a[m - 1]]
  BY <1>3, <1>5, <1>6, <1>7
<1>9. QED
  BY <1>5, <1>7, <1>8

(* A loop: where x is in D, go on with next[x]. *)
Loop(X, D, next, f) == f = [x \in X |-> IF x \in D THEN f[next[x]] ELSE x]

(* A loop whose size goes down at every step has a result. *)
LEMMA LoopExists ==
  ASSUME NEW X, NEW D, NEW next, NEW size \in [X -> Nat], NEW top \in Nat,
         \A x \in X : size[x] <= top,
         \A x \in X \cap D : next[x] \in X /\ size[next[x]] < size[x]
  PROVE  \E f : Loop(X, D, next, f)
<1> DEFINE Upto(n) == {x \in X : size[x] < n}
           T == {n \in Nat : ~\E f : Loop(Upto(n), D, next, f)}
<1>1. SUFFICES ASSUME T # {} PROVE FALSE
  <2>1. top + 1 \in Nat /\ Upto(top + 1) = X
    OBVIOUS
  <2>2. QED
    BY <2>1
<1>2. PICK m \in T : \A n \in T : m <= n
  <2>1. T \in SUBSET Nat /\ T # {}
    BY <1>1
  <2> HIDE DEF T
  <2>2. QED
    BY <2>1, LeastNatural
<1>3. m # 0
  <2>1. Upto(0) = {}
    OBVIOUS
  <2>2. Loop({}, D, next, [x \in {} |-> x])
    BY DEF Loop
  <2>3. QED
    BY <1>2, <2>1, <2>2
<1>4. m - 1 \in Nat /\ m - 1 \notin T
  <2>1. m \in Nat /\ (m - 1 \in T => m <= m - 1)
    BY <1>2
  <2> HIDE DEF T
  <2>2. QED
    BY <1>3, <2>1
<1>5. PICK f : Loop(Upto(m - 1), D, next, f)
  BY <1>4
<1> DEFINE h == [x \in Upto(m) |-> IF x \in D THEN f[next[x]] ELSE x]
<1>6. ASSUME NEW x \in Upto(m), x \in D
      PROVE  h[next[x]] = f[next[x]]
  <2>1. next[x] \in Upto(m) /\ next[x] \in Upto(m - 1)
    BY <1>2, <1>4, <1>6
  <2>2. f[next[x]] = IF next[x] \in D THEN f[next[next[x]]] ELSE next[x]
    BY <1>5, <2>1 DEF Loop
  <2>3. QED
    BY <2>1, <2>2
<1>7. Loop(Upto(m), D, next, h)
  <2>1. h = [x \in Upto(m) |-> IF x \in D THEN h[next[x]] ELSE x]
    BY <1>6
  <2>2. QED
    BY <2>1 DEF Loop
<1>8. QED
  BY <1>2, <1>7

(* What every step of a loop keeps holds of its result, which is past it. *)
LEMMA LoopInduction ==
  ASSUME NEW X, NEW D, NEW next, NEW f, Loop(X, D, next, f), NEW size \in [X -> Nat],
         NEW Q \in SUBSET X,
         \A x \in Q \cap D : next[x] \in Q /\ size[next[x]] < size[x],
         NEW y \in Q
  PROVE  f[y] \in Q /\ f[y] \notin D
<1> DEFINE Bad == {x \in Q : ~(f[x] \in Q /\ f[x] \notin D)}
           T == {size[x] : x \in Bad}
<1>1. SUFFICES ASSUME Bad # {} PROVE FALSE
  OBVIOUS
<1>2. PICK n \in T : \A k \in T : n <= k
  <2>1. T \in SUBSET Nat /\ T # {}
    BY <1>1
  <2> HIDE DEF T
  <2>2. QED
    BY <2>1, LeastNatural
<1>3. PICK x \in Bad : size[x] = n
  BY <1>2
<1>4. f[x] = IF x \in D THEN f[next[x]] ELSE x
  BY <1>3 DEF Loop
<1>5. x \in D
  BY <1>3, <1>4
<1>6. next[x] \in Q /\ size[next[x]] < size[x] /\ size[next[x]] \in Nat /\ size[x] \in Nat
  BY <1>3, <1>5
<1>7. next[x] \notin Bad
  <2>1. next[x] \in Bad => n <= size[next[x]]
    BY <1>2
  <2> HIDE DEF Bad
  <2>2. QED
    BY <1>3, <1>6, <2>1
<1>8. QED
  BY <1>3, <1>4, <1>5, <1>6, <1>7

(* How many ids a set leaves out: a measure that goes down as it grows. *)
Left(S) == Cardinality(EventId \ S)

(* A set that grows leaves out less.                                       *)
LEMMA LeftDecreases ==
  /\ \A S : Left(S) \in Nat /\ Left(S) <= LastId
  /\ \A S, T : S \subseteq T /\ (\E i \in T \cap EventId : i \notin S) => Left(T) < Left(S)
<1>0. IsFiniteSet(EventId) /\ Cardinality(EventId) = LastId
  <2>1. LastId \in Nat /\ EventId = 1..LastId
    BY IdsAreNumbers
  <2>2. QED
    BY <2>1, FS_Interval
<1>1. ASSUME NEW S PROVE Left(S) \in Nat /\ Left(S) <= LastId
  <2>1. EventId \ S \subseteq EventId
    OBVIOUS
  <2>2. QED
    BY <1>0, <2>1, FS_Subset, FS_CardinalityType DEF Left
<1>2. ASSUME NEW S, NEW T, S \subseteq T, NEW i \in T \cap EventId, i \notin S
      PROVE  Left(T) < Left(S)
  <2>1. EventId \ T \subseteq EventId \ S /\ EventId \ T # EventId \ S
    BY <1>2
  <2>2. IsFiniteSet(EventId \ S)
    BY <1>0, FS_Subset
  <2>3. /\ Cardinality(EventId \ T) <= Cardinality(EventId \ S)
        /\ Cardinality(EventId \ T) # Cardinality(EventId \ S)
    BY <2>1, <2>2, FS_Subset
  <2>4. QED
    BY <1>1, <2>3 DEF Left
<1>3. QED
  BY <1>1, <1>2

-----------------------------------------------------------------------------
(***************************************************************************)
(* The walk over the parents.                                              *)
(***************************************************************************)
Closed(E, held, A) == \A k \in A \cap held : E[k].parents \subseteq A

(* Ancestry is the least set that a walk over held events does not leave.  *)
LEMMA AncestryIsLeast ==
  ASSUME NEW E, NEW held, NEW from \in SUBSET EventId,
         \A k \in held : E[k].parents \subseteq EventId
  PROVE  /\ Ancestry(E, held, from) \in SUBSET EventId
         /\ from \subseteq Ancestry(E, held, from)
         /\ Closed(E, held, Ancestry(E, held, from))
         /\ \A B \in SUBSET EventId :
              from \subseteq B /\ Closed(E, held, B) => Ancestry(E, held, from) \subseteq B
<1> DEFINE X == SUBSET EventId
           more(S) == (UNION {E[i].parents : i \in S \cap held}) \ S
           D == {S \in X : more(S) # {}}
           next == [S \in X |-> S \cup more(S)]
           size == [S \in X |-> Left(S)]
           walk(f) == f = [S \in X |-> IF more(S) = {} THEN S ELSE f[S \cup more(S)]]
           v == CHOOSE f : walk(f)
<1>1. Ancestry(E, held, from) = v[from]
  BY DEF Ancestry
<1>2. \A f : Loop(X, D, next, f) <=> walk(f)
  <2>1. ASSUME NEW f
        PROVE  [S \in X |-> IF S \in D THEN f[next[S]] ELSE S]
                 = [S \in X |-> IF more(S) = {} THEN S ELSE f[S \cup more(S)]]
    OBVIOUS
  <2> HIDE DEF X, D, next, more
  <2>2. QED
    BY <2>1 DEF Loop
<1>3. size \in [X -> Nat] /\ \A S \in X : size[S] <= LastId
  BY LeftDecreases
<1>4. ASSUME NEW S \in X \cap D
      PROVE  next[S] \in X /\ size[next[S]] < size[S] /\ next[S] = S \cup more(S)
  <2>1. more(S) \subseteq EventId /\ more(S) # {}
    OBVIOUS
  <2>2. next[S] = S \cup more(S) /\ next[S] \in X
    BY <2>1
  <2>3. \E i \in (S \cup more(S)) \cap EventId : i \notin S
    BY <2>1
  <2>4. Left(S \cup more(S)) < Left(S)
    <3> HIDE DEF more
    <3>1. QED
      BY <2>3, LeftDecreases
  <2>5. QED
    BY <2>2, <2>4
<1>5. LastId \in Nat
  BY IdsAreNumbers
<1>6. Loop(X, D, next, v)
  <2>1. \E f : Loop(X, D, next, f)
    <3> HIDE DEF X, D, next, size
    <3>1. QED
      BY <1>3, <1>4, <1>5, LoopExists
  <2>2. \E f : walk(f)
    BY <1>2, <2>1
  <2> HIDE DEF X, D, next
  <2>3. walk(v)
    <3> HIDE DEF walk
    <3>1. QED
      BY <2>2
  <2>4. QED
    BY <1>2, <2>3
<1> HIDE DEF v
<1>7. ASSUME NEW Q \in SUBSET X, from \in Q, \A S \in Q \cap D : S \cup more(S) \in Q
      PROVE  v[from] \in Q /\ v[from] \notin D
  <2>1. \A S \in Q \cap D : next[S] \in Q /\ size[next[S]] < size[S]
    <3>1. Q \cap D \subseteq X \cap D
      OBVIOUS
    <3> HIDE DEF X, D, next, size, more
    <3>2. QED
      BY <1>4, <1>7, <3>1
  <2> HIDE DEF X, D, next, size, more
  <2>2. QED
    BY <1>3, <1>6, <1>7, <2>1, LoopInduction
<1>8. from \subseteq v[from] /\ v[from] \in X /\ v[from] \notin D
  <2> DEFINE Q == {S \in X : from \subseteq S}
  <2>1. Q \in SUBSET X /\ from \in Q
    OBVIOUS
  <2>2. \A S \in Q \cap D : S \cup more(S) \in Q
    OBVIOUS
  <2>3. v[from] \in Q /\ v[from] \notin D
    <3> HIDE DEF X, D, Q, more
    <3>1. QED
      BY <1>7, <2>1, <2>2
  <2>4. QED
    BY <2>3
<1>9. ASSUME NEW B \in SUBSET EventId, from \subseteq B, Closed(E, held, B)
      PROVE  v[from] \subseteq B
  <2> DEFINE Q == {S \in X : S \subseteq B}
  <2>1. Q \in SUBSET X /\ from \in Q
    BY <1>9
  <2>2. \A S \in Q \cap D : S \cup more(S) \in Q
    BY <1>9 DEF Closed
  <2>3. v[from] \in Q
    <3> HIDE DEF X, D, Q, more
    <3>1. QED
      BY <1>7, <2>1, <2>2
  <2>4. QED
    BY <2>3
<1>10. Closed(E, held, v[from])
  <2>1. more(v[from]) = {}
    BY <1>8
  <2>2. QED
    BY <2>1 DEF Closed
<1>11. QED
  BY <1>1, <1>8, <1>9, <1>10

(* Holding more, one walks no less far; and the walk sees held events only. *)
LEMMA AncestryGrows ==
  ASSUME NEW E, NEW F, NEW held, NEW more, NEW from \in SUBSET EventId,
         held \subseteq more,
         \A k \in held : E[k].parents = F[k].parents,
         \A k \in more : F[k].parents \subseteq EventId
  PROVE  Ancestry(E, held, from) \subseteq Ancestry(F, more, from)
<1>1. \A k \in held : E[k].parents \subseteq EventId
  OBVIOUS
<1>2. /\ Ancestry(F, more, from) \in SUBSET EventId
      /\ from \subseteq Ancestry(F, more, from)
      /\ Closed(F, more, Ancestry(F, more, from))
  BY AncestryIsLeast
<1>3. Closed(E, held, Ancestry(F, more, from))
  BY <1>2 DEF Closed
<1>4. QED
  BY <1>1, <1>2, <1>3, AncestryIsLeast

(* Holding all that an event builds on, the walk from its parents finds    *)
(* exactly its past: an event of the past that it missed would have a      *)
(* descendant which it found, none of whose parents lead to the event.     *)
LEMMA AncestryIsPast ==
  ASSUME NEW E, Graph(E), NEW i \in DOMAIN E, NEW held, held \subseteq DOMAIN E,
         E[i].past \subseteq held
  PROVE  Ancestry(E, held, E[i].parents) = E[i].past
<1> DEFINE A == Ancestry(E, held, E[i].parents)
<1>1. \A k \in DOMAIN E :
        /\ E[k].parents \subseteq DOMAIN E /\ E[k].parents \subseteq EventId
        /\ E[k].past \subseteq DOMAIN E /\ E[k].past \subseteq EventId
        /\ E[k].past = UNION {UpTo(E, j) : j \in E[k].parents}
        /\ k \notin E[k].past
        /\ \A j \in E[k].past : UpTo(E, j) \subseteq E[k].past
  BY DEF Graph
<1>2. E[i].parents \subseteq E[i].past
  BY <1>1 DEF UpTo
<1>3. /\ A \in SUBSET EventId /\ E[i].parents \subseteq A /\ Closed(E, held, A)
      /\ \A B \in SUBSET EventId :
           E[i].parents \subseteq B /\ Closed(E, held, B) => A \subseteq B
  <2>1. E[i].parents \in SUBSET EventId /\ \A k \in held : E[k].parents \subseteq EventId
    BY <1>1
  <2>2. QED
    BY <2>1, AncestryIsLeast
<1> HIDE DEF A
<1>4. A \subseteq E[i].past
  <2>1. \A k \in E[i].past : E[k].parents \subseteq E[i].past
    BY <1>1 DEF UpTo
  <2>2. Closed(E, held, E[i].past)
    BY <2>1 DEF Closed
  <2>3. QED
    BY <1>1, <1>2, <1>3, <2>2
<1>5. ASSUME NEW k \in E[i].past, k \notin A
      PROVE  FALSE
  <2> DEFINE Over == {j \in A : k \in E[j].past}
             Sizes == {Cardinality(E[j].past) : j \in Over}
  <2>0. \A j \in A : j \in DOMAIN E /\ j \in held
    BY <1>1, <1>4
  <2>1. Over # {}
    <3>1. PICK j \in E[i].parents : k \in UpTo(E, j)
      BY <1>1, <1>5
    <3>2. j \in A /\ j # k
      BY <1>3, <1>5, <3>1
    <3>3. QED
      BY <3>1, <3>2 DEF UpTo
  <2>2. \A j \in A : IsFiniteSet(E[j].past) /\ Cardinality(E[j].past) \in Nat
    <3>1. ASSUME NEW j \in A PROVE E[j].past \in SUBSET EventId
      BY <1>1, <2>0
    <3>2. IsFiniteSet(EventId)
      BY IdsAreNumbers, FS_Interval
    <3>3. QED
      BY <3>1, <3>2, FS_Subset, FS_CardinalityType
  <2>3. PICK n \in Sizes : \A m \in Sizes : n <= m
    <3>1. Sizes \in SUBSET Nat /\ Sizes # {}
      BY <2>1, <2>2
    <3> HIDE DEF Sizes
    <3>2. QED
      BY <3>1, LeastNatural
  <2>4. PICK j \in Over : n = Cardinality(E[j].past)
    BY <2>3
  <2>5. PICK p \in E[j].parents : k \in UpTo(E, p)
    BY <1>1, <2>0, <2>4
  <2>6. p \in A
    BY <1>3, <2>0, <2>4, <2>5 DEF Closed
  <2>7. k \in E[p].past
    BY <1>5, <2>5, <2>6 DEF UpTo
  <2>8. p \in E[j].past /\ p \notin E[p].past /\ E[p].past \subseteq E[j].past
    BY <1>1, <2>0, <2>4, <2>5, <2>6 DEF UpTo
  <2>9. Cardinality(E[p].past) < Cardinality(E[j].past)
    <3>1. j \in A
      BY <2>4
    <3>2. /\ Cardinality(E[p].past) <= Cardinality(E[j].past)
          /\ Cardinality(E[p].past) # Cardinality(E[j].past)
      BY <2>2, <2>8, <3>1, FS_Subset
    <3>3. QED
      BY <2>2, <2>6, <3>1, <3>2
  <2>10. Cardinality(E[p].past) \in Sizes
    BY <2>6, <2>7
  <2>11. Cardinality(E[j].past) <= Cardinality(E[p].past)
    BY <2>3, <2>4, <2>10
  <2>12. Cardinality(E[p].past) \in Nat /\ Cardinality(E[j].past) \in Nat
    BY <2>2, <2>4, <2>6
  <2>13. QED
    BY <2>9, <2>11, <2>12
<1>6. QED
  BY <1>4, <1>5 DEF A

-----------------------------------------------------------------------------
(***************************************************************************)
(* Inserting events into a log.                                            *)
(***************************************************************************)

(* What the passes make of log: they hold the same events and reject more, *)
(* each for a reason.                                                      *)
Quarantined(E, log) ==
  {m \in Log :
     /\ m.held = log.held
     /\ log.rejected \subseteq m.rejected
     /\ \A i \in m.rejected \ log.rejected : i \in log.held /\ Refused(E, log.held, i)}

Unsound(E) == {l \in Log : \E j \in Applicable(E, l) : Unauthorized(E, l, j)}

Passed(E) == [l \in Log |-> Pass(E, l, Applicable(E, l))]

(* A pass over the applicable events of an unsound log rejects one more.   *)
LEMMA PassRejects ==
  ASSUME NEW E, NEW log \in Log, NEW l \in Quarantined(E, log)
  PROVE  /\ Passed(E)[l] \in Quarantined(E, log)
         /\ l \in Unsound(E) => Left(Passed(E)[l].rejected) < Left(l.rejected)
<1> DEFINE S == Applicable(E, l)
           change == [i \in EventId |->
                        [m \in Log |-> IF i \in S THEN Examine(E, m, i) ELSE m]]
           More(m) == l.rejected \subseteq m.rejected /\ \E k \in m.rejected : k \notin l.rejected
           Q == [n \in 0..LastId |->
                   {m \in Quarantined(E, log) :
                      \/ More(m)
                      \/ m = l /\ \A k \in S : k <= n => ~Unauthorized(E, l, k)}]
<1>0. LastId \in Nat /\ EventId = 1..LastId
  BY IdsAreNumbers
<1>1. l \in Log /\ l.held = log.held /\ l.held \in SUBSET EventId /\ log.held \in SUBSET EventId
  BY DEF Quarantined, Log
<1>2. S \subseteq l.held /\ \A i \in S : UpTo(E, i) \subseteq l.held /\ i \notin l.rejected
  BY DEF Applicable, UpTo
<1> HIDE DEF S
<1>3. ASSUME NEW n \in EventId, NEW m \in Q[n - 1]
      PROVE  change[n][m] \in Q[n]
  <2>0. n - 1 \in 0..LastId /\ n \in 0..LastId
    BY <1>0
  <2>1. /\ m \in Quarantined(E, log) /\ m \in Log
        /\ More(m) \/ (m = l /\ \A k \in S : k <= n - 1 => ~Unauthorized(E, l, k))
    BY <2>0, <1>3 DEF Quarantined
  <2>2. change[n][m] = IF n \in S THEN Examine(E, m, n) ELSE m
    BY <2>1
  <2>3. CASE n \in S /\ Unauthorized(E, m, n)
    <3> DEFINE w == [m EXCEPT !.rejected = @ \cup {n}]
    <3>1. change[n][m] = w
      BY <2>2, <2>3 DEF Examine
    <3>2. m.held = log.held /\ m.held \in SUBSET EventId /\ m.rejected \in SUBSET EventId
      BY <2>1 DEF Quarantined, Log
    <3>3. w \in Log /\ w.held = m.held /\ w.rejected = m.rejected \cup {n}
      BY <2>1, <3>2 DEF Log
    <3>4. Refused(E, log.held, n) /\ n \in log.held
      BY <1>1, <1>2, <2>1, <2>3, <3>2 DEF Refused
    <3>5. w \in Quarantined(E, log)
      BY <2>1, <3>2, <3>3, <3>4 DEF Quarantined
    <3>6. More(w)
      BY <1>2, <2>1, <2>3, <3>3
    <3> HIDE DEF w, More, change
    <3>7. w \in Q[n]
      BY <2>0, <3>5, <3>6
    <3>8. QED
      BY <3>1, <3>7
  <2>4. CASE ~(n \in S /\ Unauthorized(E, m, n))
    <3>1. change[n][m] = m
      BY <2>2, <2>4 DEF Examine
    <3>2. ASSUME m = l, NEW k \in S, k <= n, \A j \in S : j <= n - 1 => ~Unauthorized(E, l, j)
          PROVE  ~Unauthorized(E, l, k)
      <4>1. k \in Nat /\ n \in Nat
        BY <1>0, <1>1, <1>2
      <4>2. k <= n - 1 \/ k = n
        BY <3>2, <4>1
      <4>3. QED
        BY <2>4, <3>2, <4>2
    <3>3. QED
      BY <2>0, <2>1, <3>1, <3>2
  <2>5. QED
    BY <2>3, <2>4
<1>4. l \in Q[0]
  <2>1. \A k \in S : ~(k <= 0)
    BY <1>0, <1>1, <1>2
  <2>2. QED
    BY <1>0, <2>1
<1>5. InIdOrder(change, l) \in Q[LastId]
  <2> HIDE DEF change, Q
  <2>1. QED
    BY <1>3, <1>4, InIdOrderInduction
<1>6. Passed(E)[l] = InIdOrder(change, l)
  BY <1>1 DEF Passed, Pass, S
<1>7. ASSUME l \in Unsound(E)
      PROVE  More(InIdOrder(change, l))
  <2>1. PICK j \in S : Unauthorized(E, l, j)
    BY <1>7 DEF Unsound, S
  <2>2. j <= LastId
    BY <1>0, <1>1, <1>2
  <2> HIDE DEF change
  <2>3. QED
    BY <1>0, <1>5, <2>1, <2>2
<1>8. InIdOrder(change, l) \in Quarantined(E, log) /\ InIdOrder(change, l) \in Log
  <2> HIDE DEF change
  <2>1. QED
    BY <1>0, <1>5 DEF Quarantined
<1>9. ASSUME l \in Unsound(E)
      PROVE  Left(Passed(E)[l].rejected) < Left(l.rejected)
  <2> DEFINE p == InIdOrder(change, l)
  <2>1. p.rejected \in SUBSET EventId
    BY <1>8 DEF Log
  <2>2. More(p)
    BY <1>7, <1>9
  <2> HIDE DEF p
  <2>3. QED
    BY <1>6, <2>1, <2>2, LeftDecreases DEF p
<1>10. QED
  BY <1>6, <1>8, <1>9

(* Settling ends, with a log that refuses nothing which applies.           *)
LEMMA SettleQuarantines ==
  ASSUME NEW E, NEW log \in Log
  PROVE  Settle(E, log) \in Quarantined(E, log) /\ Stable(E, Settle(E, log))
<1> DEFINE D == Unsound(E)
           size == [l \in Log |-> Left(l.rejected)]
           run(f) ==
             f = [l \in Log |->
                    IF \E j \in Applicable(E, l) : Unauthorized(E, l, j)
                      THEN f[Pass(E, l, Applicable(E, l))] ELSE l]
           v == CHOOSE f : run(f)
<1>1. Settle(E, log) = v[log]
  BY DEF Settle
<1>2. \A f : Loop(Log, D, Passed(E), f) <=> run(f)
  <2>1. ASSUME NEW f
        PROVE  [l \in Log |-> IF l \in D THEN f[Passed(E)[l]] ELSE l]
                 = [l \in Log |->
                      IF \E j \in Applicable(E, l) : Unauthorized(E, l, j)
                        THEN f[Pass(E, l, Applicable(E, l))] ELSE l]
    BY DEF Unsound, Passed
  <2> HIDE DEF D
  <2>2. QED
    BY <2>1 DEF Loop
<1>3. size \in [Log -> Nat] /\ \A l \in Log : size[l] <= LastId
  BY LeftDecreases
<1>4. ASSUME NEW l \in Log \cap D
      PROVE  Passed(E)[l] \in Log /\ size[Passed(E)[l]] < size[l]
  <2>1. l \in Quarantined(E, l)
    BY DEF Quarantined
  <2>2. Passed(E)[l] \in Quarantined(E, l) /\ Left(Passed(E)[l].rejected) < Left(l.rejected)
    BY <2>1, PassRejects
  <2>3. QED
    BY <2>2 DEF Quarantined
<1>5. LastId \in Nat
  BY IdsAreNumbers
<1>6. Loop(Log, D, Passed(E), v)
  <2>1. \E f : Loop(Log, D, Passed(E), f)
    <3> HIDE DEF D, size
    <3>1. QED
      BY <1>3, <1>4, <1>5, LoopExists
  <2>2. \E f : run(f)
    BY <1>2, <2>1
  <2> HIDE DEF D
  <2>3. run(v)
    <3> HIDE DEF run
    <3>1. QED
      BY <2>2
  <2>4. QED
    BY <1>2, <2>3
<1> HIDE DEF v
<1>7. v[log] \in Quarantined(E, log) /\ v[log] \notin D
  <2> DEFINE Q == Quarantined(E, log)
  <2>1. Q \in SUBSET Log /\ log \in Q
    BY DEF Quarantined
  <2>2. \A l \in Q \cap D : Passed(E)[l] \in Q /\ size[Passed(E)[l]] < size[l]
    <3>1. \A l \in Q : Passed(E)[l] \in Q
      BY PassRejects
    <3> HIDE DEF Q, D, size
    <3>2. QED
      BY <1>4, <2>1, <3>1
  <2> HIDE DEF Q, D, size
  <2>3. v[log] \in Q /\ v[log] \notin D
    BY <1>3, <1>6, <2>1, <2>2, LoopInduction
  <2>4. QED
    BY <2>3 DEF Q
<1>8. v[log] \in Log
  BY <1>7 DEF Quarantined
<1>9. QED
  BY <1>1, <1>7, <1>8 DEF Unsound, Stable

(* What was refused stays refused in a log that holds more.                *)
LEMMA RefusedLater ==
  ASSUME NEW E, NEW held, NEW more, held \subseteq more, NEW i, Refused(E, held, i)
  PROVE  Refused(E, more, i)
BY DEF Refused

(* Inserting an event makes a sound log of a sound one.                    *)
LEMMA InsertIsSound ==
  ASSUME NEW E, DOMAIN E \subseteq EventId, NEW log, Sound(E, log), NEW i \in DOMAIN E
  PROVE  /\ Sound(E, InsertInto(E, log, i))
         /\ InsertInto(E, log, i).held = log.held \cup {i}
         /\ log.rejected \subseteq InsertInto(E, log, i).rejected
<1> DEFINE with == [log EXCEPT !.held = @ \cup {i}]
           r == Settle(E, with)
<1>1. log \in Log /\ log.rejected \subseteq log.held /\ log.held \subseteq DOMAIN E
      /\ Grounded(E, log)
  BY DEF Sound, Typed
<1>2. with \in Log /\ with.held = log.held \cup {i} /\ with.rejected = log.rejected
  BY <1>1 DEF Log
<1>3. r \in Quarantined(E, with) /\ Stable(E, r)
  <2> HIDE DEF with
  <2>1. QED
    BY <1>2, SettleQuarantines
<1>4. InsertInto(E, log, i) = r
  BY DEF InsertInto
<1> HIDE DEF r, with
<1>5. /\ r \in Log /\ r.held = log.held \cup {i} /\ log.rejected \subseteq r.rejected
      /\ \A k \in r.rejected \ log.rejected : k \in r.held /\ Refused(E, r.held, k)
  BY <1>2, <1>3 DEF Quarantined
<1>6. \A k \in log.rejected : Refused(E, r.held, k)
  <2>1. log.held \subseteq r.held
    BY <1>5
  <2>2. QED
    BY <1>1, <2>1, RefusedLater DEF Grounded
<1>7. Typed(E, r) /\ Grounded(E, r)
  BY <1>1, <1>5, <1>6 DEF Typed, Grounded
<1>8. QED
  BY <1>3, <1>4, <1>5, <1>7 DEF Sound

(* So does inserting events in id order.                                   *)
LEMMA InsertAllIsSound ==
  ASSUME NEW E, DOMAIN E \subseteq EventId, NEW log, Sound(E, log), NEW T \in SUBSET DOMAIN E
  PROVE  /\ Sound(E, InsertAll(E, log, T))
         /\ InsertAll(E, log, T).held = log.held \cup T
         /\ log.rejected \subseteq InsertAll(E, log, T).rejected
<1> DEFINE change == [i \in EventId |->
                        [l \in Log |-> IF i \in T THEN InsertInto(E, l, i) ELSE l]]
           Some(n) == {i \in T : i <= n}
           Q == [n \in 0..LastId |->
                   {m \in Log : /\ Sound(E, m) /\ m.held = log.held \cup Some(n)
                                /\ log.rejected \subseteq m.rejected}]
<1>0. LastId \in Nat /\ EventId = 1..LastId
  BY IdsAreNumbers
<1>1. log \in Log
  BY DEF Sound, Typed
<1>2. ASSUME NEW n \in EventId, NEW m \in Q[n - 1]
      PROVE  change[n][m] \in Q[n]
  <2>0. n - 1 \in 0..LastId /\ n \in 0..LastId
    BY <1>0
  <2>1. /\ m \in Log /\ Sound(E, m) /\ m.held = log.held \cup Some(n - 1)
        /\ log.rejected \subseteq m.rejected
    <3> HIDE DEF Some
    <3>1. QED
      BY <2>0, <1>2
  <2>2. change[n][m] = IF n \in T THEN InsertInto(E, m, n) ELSE m
    BY <2>1
  <2>3. Some(n) = IF n \in T THEN Some(n - 1) \cup {n} ELSE Some(n - 1)
    BY <1>0
  <2> HIDE DEF Some, change
  <2>4. CASE n \in T
    <3> DEFINE w == InsertInto(E, m, n)
    <3>1. Sound(E, w) /\ w.held = m.held \cup {n} /\ m.rejected \subseteq w.rejected
      BY <2>1, <2>4, InsertIsSound
    <3>2. w \in Log
      BY <3>1 DEF Sound, Typed
    <3> HIDE DEF w
    <3>3. w \in Q[n]
      BY <2>0, <2>1, <2>3, <2>4, <3>1, <3>2
    <3>4. QED
      BY <2>2, <2>4, <3>3 DEF w
  <2>5. CASE n \notin T
    BY <2>0, <2>1, <2>2, <2>3, <2>5
  <2>6. QED
    BY <2>4, <2>5
<1>3. log \in Q[0]
  <2>1. Some(0) = {}
    BY <1>0
  <2> HIDE DEF Some
  <2>2. QED
    BY <1>0, <1>1, <2>1
<1>4. InIdOrder(change, log) \in Q[LastId]
  <2> HIDE DEF change, Q
  <2>1. QED
    BY <1>2, <1>3, InIdOrderInduction
<1>5. InsertAll(E, log, T) = InIdOrder(change, log)
  BY DEF InsertAll
<1>6. Some(LastId) = T
  BY <1>0
<1> HIDE DEF change, Some
<1>7. QED
  BY <1>0, <1>4, <1>5, <1>6

(* A log that holds nothing is sound, and nothing applies there.           *)
LEMMA EmptyIsSound ==
  ASSUME NEW E
  PROVE  Sound(E, EmptyLog) /\ EmptyLog.held = {} /\ Applicable(E, EmptyLog) = {}
BY DEF Sound, Typed, Stable, Grounded, Applicable, EmptyLog, Log

(* A log loaded from the ids it holds is sound.                            *)
LEMMA LoadIsSound ==
  ASSUME NEW E, DOMAIN E \subseteq EventId, NEW S \in SUBSET DOMAIN E
  PROVE  Sound(E, LoadLog(E, S)) /\ LoadLog(E, S).held = S
<1>1. PICK empty : empty = EmptyLog
  OBVIOUS
<1>2. Sound(E, empty) /\ empty.held = {}
  BY <1>1, EmptyIsSound
<1>3. /\ Sound(E, InsertAll(E, empty, S))
      /\ InsertAll(E, empty, S).held = empty.held \cup S
  <2>1. DOMAIN E \subseteq EventId
    OBVIOUS
  <2>2. Sound(E, empty)
    BY <1>2
  <2>3. Sound(E, InsertAll(E, empty, S))
    BY <2>1, <2>2, InsertAllIsSound
  <2>4. InsertAll(E, empty, S).held = empty.held \cup S
    BY <2>1, <2>2, InsertAllIsSound
  <2>5. QED
    BY <2>3, <2>4
<1>4. QED
  BY <1>1, <1>2, <1>3 DEF LoadLog

-----------------------------------------------------------------------------
(***************************************************************************)
(* Events are never changed: what one log makes of its events does not     *)
(* depend on the events it has not heard of.                               *)
(***************************************************************************)
Extends(E, F) == DOMAIN E \subseteq DOMAIN F /\ \A i \in DOMAIN E : F[i] = E[i]

(* Of events that both know, both say who is a member.                     *)
LEMMA SameMembers ==
  ASSUME NEW E, NEW F, Extends(E, F), NEW S \in SUBSET DOMAIN E
  PROVE  /\ \A i \in DOMAIN E : UpTo(F, i) = UpTo(E, i)
         /\ Standing(F, S) = Standing(E, S)
         /\ EffectiveMembers(F, S) = EffectiveMembers(E, S)
         /\ RecoveryMembers(F, S) = RecoveryMembers(E, S)
<1>1. \A i \in DOMAIN E : F[i] = E[i] /\ UpTo(F, i) = UpTo(E, i)
  BY DEF Extends, UpTo
<1>2. ASSUME NEW a PROVE Revocations(F, S, a) = Revocations(E, S, a)
  BY <1>1 DEF Revocations
<1>3. Standing(F, S) = Standing(E, S)
  <2>1. ASSUME NEW i \in S
        PROVE  (\A r \in Revocations(F, S, F[i].app) : IsAncestor(F, r, i))
                 <=> (\A r \in Revocations(E, S, E[i].app) : IsAncestor(E, r, i))
    BY <1>1, <1>2 DEF IsAncestor
  <2>2. \A i \in S : F[i].kind = E[i].kind
    BY <1>1
  <2>3. QED
    BY <2>1, <2>2 DEF Standing
<1>4. Standing(E, S) \subseteq S
  BY DEF Standing
<1>5. \A i \in S : F[i] = E[i]
  BY <1>1
<1>6. EffectiveMembers(F, S) = EffectiveMembers(E, S)
  BY <1>3, <1>4, <1>5 DEF EffectiveMembers
<1>7. RecoveryMembers(F, S) = RecoveryMembers(E, S)
  BY <1>3, <1>4, <1>5 DEF RecoveryMembers
<1>8. QED
  BY <1>1, <1>3, <1>6, <1>7

(* And both apply and refuse the same of them.                             *)
LEMMA SameReasons ==
  ASSUME NEW E, NEW F, Graph(E), Graph(F), Extends(E, F), NEW l, l.held \subseteq DOMAIN E
  PROVE  /\ Applicable(F, l) = Applicable(E, l)
         /\ \A i \in DOMAIN E : Unauthorized(F, l, i) <=> Unauthorized(E, l, i)
<1>1. \A i \in DOMAIN E : F[i] = E[i] /\ UpTo(F, i) = UpTo(E, i)
  BY DEF Extends, UpTo
<1>2. \A i \in DOMAIN E : /\ E[i].parents \subseteq EventId /\ F[i].parents \subseteq EventId
                          /\ E[i].past \in SUBSET DOMAIN E
  BY <1>1 DEF Graph
<1>3. Applicable(F, l) = Applicable(E, l)
  BY <1>1 DEF Applicable
<1>4. Applicable(E, l) \in SUBSET DOMAIN E
  BY DEF Applicable
<1>5. ASSUME NEW i \in DOMAIN E
      PROVE  InviteJoinHolds(F, l, i) <=> InviteJoinHolds(E, l, i)
  <2>1. /\ E[i].parents \in SUBSET EventId /\ F[i].parents = E[i].parents
        /\ F[i].invite = E[i].invite
    BY <1>1, <1>2
  <2>2. \A k \in l.held : /\ E[k].parents = F[k].parents
                          /\ E[k].parents \subseteq EventId /\ F[k].parents \subseteq EventId
    BY <1>1, <1>2
  <2>3. Ancestry(E, l.held, E[i].parents) \subseteq Ancestry(F, l.held, E[i].parents)
    BY <2>1, <2>2, AncestryGrows
  <2>4. Ancestry(F, l.held, E[i].parents) \subseteq Ancestry(E, l.held, E[i].parents)
    BY <2>1, <2>2, AncestryGrows
  <2>5. QED
    BY <2>1, <2>3, <2>4 DEF InviteJoinHolds
<1>6. ASSUME NEW i \in DOMAIN E
      PROVE  InviteJoinRejection(F, l, i) <=> InviteJoinRejection(E, l, i)
  <2>1. \A j \in l.held : j \in DOMAIN E /\ F[j] = E[j]
    BY <1>1
  <2>2. QED
    BY <1>1, <1>5, <2>1 DEF InviteJoinRejection
<1>7. ASSUME NEW i \in DOMAIN E
      PROVE  /\ F[i] = E[i]
             /\ EffectiveMembers(F, E[i].past) = EffectiveMembers(E, E[i].past)
             /\ RecoveryMembers(F, E[i].past) = RecoveryMembers(E, E[i].past)
  BY <1>1, <1>2, SameMembers
<1>8. ASSUME NEW i \in DOMAIN E
      PROVE  MemberActionRejection(F, i) <=> MemberActionRejection(E, i)
  BY <1>7 DEF MemberActionRejection
<1>9. ASSUME NEW a
      PROVE  Revocations(F, Applicable(E, l), a) = Revocations(E, Applicable(E, l), a)
  BY <1>1, <1>4 DEF Revocations
<1>10. ASSUME NEW i \in DOMAIN E
       PROVE  RevokedRecoveryRejection(F, l, i) <=> RevokedRecoveryRejection(E, l, i)
  <2>1. \A r \in Revocations(E, Applicable(E, l), E[i].actor) :
          /\ r \in DOMAIN E /\ F[r] = E[r] /\ UpTo(F, r) = UpTo(E, r)
          /\ EffectiveMembers(F, F[r].past) = EffectiveMembers(E, E[r].past)
    BY <1>1, <1>4, <1>7 DEF Revocations
  <2>2. Revocations(F, Applicable(F, l), F[i].actor)
          = Revocations(E, Applicable(E, l), E[i].actor)
    BY <1>3, <1>7, <1>9
  <2>3. \A r \in Revocations(E, Applicable(E, l), E[i].actor) :
          IsAncestor(F, i, r) <=> IsAncestor(E, i, r)
    BY <2>1 DEF IsAncestor
  <2>4. QED
    BY <1>7, <2>1, <2>2, <2>3 DEF RevokedRecoveryRejection
<1>11. ASSUME NEW i \in DOMAIN E
       PROVE  Unauthorized(F, l, i) <=> Unauthorized(E, l, i)
  BY <1>6, <1>7, <1>8, <1>10 DEF Unauthorized
<1>12. QED
  BY <1>3, <1>11

(* A sound log stays sound when more is signed.                            *)
LEMMA SoundLater ==
  ASSUME NEW E, NEW F, Graph(E), Graph(F), Extends(E, F), NEW log, Sound(E, log)
  PROVE  Sound(F, log)
<1>1. Typed(E, log) /\ Stable(E, log) /\ Grounded(E, log) /\ DOMAIN E \subseteq DOMAIN F
  BY DEF Sound, Extends
<1>2. log.held \subseteq DOMAIN E /\ log.rejected \subseteq DOMAIN E /\ Typed(F, log)
  BY <1>1 DEF Typed
<1>3. /\ Applicable(F, log) = Applicable(E, log)
      /\ \A i \in DOMAIN E : Unauthorized(F, log, i) <=> Unauthorized(E, log, i)
  BY <1>2, SameReasons
<1>4. Stable(F, log)
  BY <1>1, <1>2, <1>3 DEF Stable, Applicable
<1>5. ASSUME NEW i \in log.rejected
      PROVE  Refused(F, log.held, i)
  <2>1. PICK l \in Log : /\ l.held \subseteq log.held /\ UpTo(E, i) \subseteq l.held
                         /\ Unauthorized(E, l, i)
    BY <1>1 DEF Grounded, Refused
  <2>2. i \in DOMAIN E /\ l.held \subseteq DOMAIN E
    BY <1>2, <2>1
  <2>3. Unauthorized(F, l, i)
    BY <2>1, <2>2, SameReasons
  <2>4. UpTo(F, i) = UpTo(E, i)
    BY <2>2 DEF Extends, UpTo
  <2>5. QED
    BY <2>1, <2>3, <2>4 DEF Refused
<1>6. QED
  BY <1>1, <1>2, <1>4, <1>5 DEF Sound, Grounded

-----------------------------------------------------------------------------
(***************************************************************************)
(* Signing an event.                                                       *)
(***************************************************************************)
LEMMA GrownIs ==
  ASSUME NEW E, NEW i, i \notin DOMAIN E, NEW new
  PROVE  /\ DOMAIN Grown(E, i, new) = DOMAIN E \cup {i}
         /\ Grown(E, i, new)[i] = new
         /\ Extends(E, Grown(E, i, new))
BY DEF Grown, Extends

(* An event signed on the applicable heads of a log extends the graph.     *)
LEMMA SignedGraph ==
  ASSUME NEW E, Graph(E), NEW log, log.held \subseteq DOMAIN E,
         NEW i \in EventId, i \notin DOMAIN E,
         NEW actor \in App \cup Outsider, NEW kind \in Operation, NEW app \in App,
         NEW invite \in {0} \cup EventId
  PROVE  Graph(Grown(E, i, Signed(E, log, actor, kind, app, invite)))
<1> DEFINE new == Signed(E, log, actor, kind, app, invite)
           F == Grown(E, i, new)
           H == ApplicableHeads(E, log)
<1>1. DOMAIN F = DOMAIN E \cup {i} /\ F[i] = new /\ Extends(E, F)
  <2>1. i \notin DOMAIN E
    OBVIOUS
  <2> HIDE DEF new
  <2>2. QED
    BY <2>1 DEF Grown, Extends
<1>2. F = [k \in DOMAIN F |-> F[k]]
  BY DEF Grown
<1>3. H \subseteq DOMAIN E
  BY DEF ApplicableHeads, Applicable
<1>4. /\ new.actor = actor /\ new.kind = kind /\ new.app = app /\ new.invite = invite
      /\ new.parents = H /\ new.past = UNION {UpTo(E, h) : h \in H}
      /\ new = [actor |-> actor, kind |-> kind, app |-> app, invite |-> invite,
                parents |-> new.parents, past |-> new.past]
  BY DEF Signed
<1> HIDE DEF new, F, H
<1>5. /\ DOMAIN E \subseteq EventId
      /\ \A k \in DOMAIN E :
           /\ E[k] \in Event
           /\ E[k].parents \subseteq DOMAIN E
           /\ E[k].past = UNION {UpTo(E, j) : j \in E[k].parents}
           /\ E[k].past \subseteq DOMAIN E
           /\ k \notin E[k].past
           /\ \A j \in E[k].past : UpTo(E, j) \subseteq E[k].past
  BY DEF Graph
<1>6. \A k \in DOMAIN E : F[k] = E[k] /\ UpTo(F, k) = UpTo(E, k)
  BY <1>1 DEF Extends, UpTo
<1>7. new.past \subseteq DOMAIN E /\ \A j \in new.past : UpTo(E, j) \subseteq new.past
  <2>1. \A h \in H : UpTo(E, h) \subseteq DOMAIN E
    BY <1>3, <1>5 DEF UpTo
  <2>2. \A h \in H : \A j \in UpTo(E, h) : UpTo(E, j) \subseteq UpTo(E, h)
    BY <1>3, <1>5 DEF UpTo
  <2>3. QED
    BY <1>4, <2>1, <2>2
<1>8. new \in Event
  <2>1. new.parents \in SUBSET EventId /\ new.past \in SUBSET EventId
    BY <1>3, <1>4, <1>5, <1>7
  <2>2. QED
    BY <1>4, <2>1 DEF Event
<1>9. F \in [DOMAIN F -> Event]
  BY <1>1, <1>2, <1>5, <1>6, <1>8
<1>10. ASSUME NEW k \in DOMAIN F
       PROVE  /\ F[k].parents \subseteq DOMAIN F
              /\ F[k].past = UNION {UpTo(F, j) : j \in F[k].parents}
              /\ F[k].past \subseteq DOMAIN F
              /\ k \notin F[k].past
              /\ \A j \in F[k].past : UpTo(F, j) \subseteq F[k].past
  <2>1. CASE k = i
    <3>1. F[k] = new /\ k \notin DOMAIN E
      BY <1>1, <2>1
    <3>2. \A j \in new.past : UpTo(F, j) \subseteq new.past
      BY <1>6, <1>7
    <3>3. new.past = UNION {UpTo(F, j) : j \in new.parents}
      <4>1. \A j \in H : UpTo(F, j) = UpTo(E, j)
        BY <1>3, <1>6
      <4>2. QED
        BY <1>4, <4>1
    <3>4. QED
      BY <1>1, <1>3, <1>4, <1>7, <3>1, <3>2, <3>3
  <2>2. CASE k # i
    <3>1. k \in DOMAIN E /\ F[k] = E[k]
      BY <1>1, <1>6, <2>2
    <3>2. E[k].past = UNION {UpTo(F, j) : j \in E[k].parents}
      <4>1. \A j \in E[k].parents : UpTo(F, j) = UpTo(E, j)
        BY <1>5, <1>6, <3>1
      <4>2. QED
        BY <1>5, <3>1, <4>1
    <3>3. \A j \in E[k].past : UpTo(F, j) \subseteq E[k].past
      BY <1>5, <1>6, <3>1
    <3>4. QED
      BY <1>1, <1>5, <3>1, <3>2, <3>3
  <2>3. QED
    BY <2>1, <2>2
<1>11. Graph(F)
  BY <1>1, <1>5, <1>9, <1>10 DEF Graph
<1>12. QED
  BY <1>11 DEF F, new

(* Who signed an event that applies to a sound log and that nobody can     *)
(* contest was a member, as the event's own past tells; and a join that    *)
(* applies was signed on top of its invite.                                *)
LEMMA AppliesLawfully ==
  ASSUME NEW F, Graph(F), NEW log, Sound(F, log), NEW i \in Applicable(F, log)
  PROVE  /\ F[i].kind # "joined" => Allowed(F, i)
         /\ F[i].kind = "joined" => F[i].invite \in F[i].past
<1>1. ~Unauthorized(F, log, i) /\ i \in DOMAIN F /\ log.held \subseteq DOMAIN F
      /\ F[i].past \subseteq log.held
  BY DEF Sound, Stable, Typed, Applicable, UpTo
<1>2. CASE F[i].kind = "joined"
  <2>1. InviteJoinHolds(F, log, i)
    BY <1>1, <1>2 DEF Unauthorized, InviteJoinRejection
  <2>2. Ancestry(F, log.held, F[i].parents) = F[i].past
    BY <1>1, AncestryIsPast
  <2>3. QED
    BY <1>2, <2>1, <2>2 DEF InviteJoinHolds
<1>3. CASE F[i].kind # "joined"
  BY <1>1, <1>3 DEF Unauthorized, Allowed
<1>4. QED
  BY <1>2, <1>3

(* What is signed later does not change what an event's past allows.       *)
LEMMA AllowedLater ==
  ASSUME NEW E, NEW F, Graph(E), Extends(E, F), NEW i \in DOMAIN E
  PROVE  /\ F[i] = E[i]
         /\ Allowed(E, i) => Allowed(F, i)
         /\ Contestable(E, i) => Contestable(F, i)
<1>1. F[i] = E[i] /\ E[i].past \in SUBSET DOMAIN E
  BY DEF Extends, Graph
<1>2. /\ EffectiveMembers(F, E[i].past) = EffectiveMembers(E, E[i].past)
      /\ RecoveryMembers(F, E[i].past) = RecoveryMembers(E, E[i].past)
  BY <1>1, SameMembers
<1>3. QED
  BY <1>1, <1>2 DEF Allowed, Contestable, MemberActionRejection

(* What an actor may sign.                                                 *)
Role(actor, kind, app, invite) ==
  /\ actor \in App \cup Outsider /\ kind \in Operation /\ app \in App
  /\ kind = "recovery" => app \in Passphrase
  /\ (kind \in Admission /\ app \in Passphrase /\ actor \notin Outsider) => kind = "recovery"
  /\ actor \in Outsider => kind \in {"approved", "revoked"}
  /\ actor \in Passphrase => kind = "approved"
  /\ invite \in {0} \cup EventId /\ (kind # "joined" => invite = 0)

(* One event more, i, was signed and put into a log.                       *)
Carried(E, F, log, i, after) ==
  /\ Events(F) /\ Extends(E, F) /\ DOMAIN F = DOMAIN E \cup {i}
  /\ Sound(F, after) /\ after.held = log.held \cup {i}

(* An event that is signed on a log and applies there, or an outsider's,   *)
(* keeps the events lawful and makes a sound log.                          *)
LEMMA SigningKeepsEvents ==
  ASSUME NEW E, Events(E), NEW log, Sound(E, log),
         NEW i \in EventId, i \notin DOMAIN E,
         NEW actor, NEW kind, NEW app, NEW invite, Role(actor, kind, app, invite),
         NEW F, F = Grown(E, i, Signed(E, log, actor, kind, app, invite)),
         NEW after, after = InsertInto(F, log, i),
         i \in Applicable(F, after) \/ actor \in Outsider
  PROVE  Carried(E, F, log, i, after)
<1>1. Graph(E) /\ Roles(E) /\ Lawful(E)
  BY DEF Events
<1>2. log.held \subseteq DOMAIN E
  BY DEF Sound, Typed
<1>3. PICK x : x = Signed(E, log, actor, kind, app, invite)
  OBVIOUS
<1>4. /\ DOMAIN F = DOMAIN E \cup {i} /\ F[i] = x /\ Extends(E, F)
  <2>1. F = Grown(E, i, x) /\ i \notin DOMAIN E
    BY <1>3
  <2>2. QED
    BY <2>1 DEF Grown, Extends
<1>5. x.actor = actor /\ x.kind = kind /\ x.app = app /\ x.invite = invite
  BY <1>3 DEF Signed
<1>6. Graph(F)
  <2>1. i \notin DOMAIN E
    OBVIOUS
  <2>2. QED
    BY <1>1, <1>2, <2>1, SignedGraph DEF Role
<1>7. DOMAIN F \subseteq EventId /\ i \in DOMAIN F
  BY <1>4, <1>6 DEF Graph
<1>8. Sound(F, log)
  BY <1>1, <1>4, <1>6, SoundLater
<1>9. Sound(F, after)
  BY <1>7, <1>8, InsertIsSound
<1>10. after.held = log.held \cup {i}
  BY <1>7, <1>8, InsertIsSound
<1>11. ASSUME i \in Applicable(F, after)
       PROVE  (kind # "joined" => Allowed(F, i)) /\ (kind = "joined" => invite \in F[i].past)
  BY <1>4, <1>5, <1>6, <1>9, <1>11, AppliesLawfully
<1>12. kind = "joined" => i \in Applicable(F, after)
  BY DEF Role
<1>13. ASSUME NEW k \in DOMAIN E
       PROVE  /\ F[k] = E[k]
              /\ Contestable(F, k) \/ Allowed(F, k)
  BY <1>1, <1>4, AllowedLater DEF Lawful
<1>14. Contestable(F, i) \/ Allowed(F, i)
  BY <1>4, <1>5, <1>11 DEF Contestable
<1>15. Lawful(F)
  BY <1>4, <1>13, <1>14 DEF Lawful
<1>16. Roles(F)
  <2>1. ASSUME NEW k \in DOMAIN F, k = i
        PROVE  /\ F[k].kind = "recovery" => F[k].app \in Passphrase
               /\ (F[k].kind \in Admission /\ F[k].app \in Passphrase /\ F[k].actor \notin Outsider)
                    => F[k].kind = "recovery"
               /\ F[k].actor \in Outsider => F[k].kind \in {"approved", "revoked"}
               /\ F[k].actor \in Passphrase => F[k].kind = "approved"
               /\ F[k].kind = "joined" => F[k].invite \in F[k].past
               /\ F[k].kind # "joined" => F[k].invite = 0
    BY <1>4, <1>5, <1>11, <1>12, <2>1 DEF Role
  <2>2. \A k \in DOMAIN F : k # i => k \in DOMAIN E /\ F[k] = E[k]
    BY <1>4, <1>13
  <2>3. QED
    BY <1>1, <2>1, <2>2 DEF Roles
<1>17. QED
  BY <1>4, <1>6, <1>9, <1>10, <1>15, <1>16 DEF Events, Carried

-----------------------------------------------------------------------------
(***************************************************************************)
(* What a sound log makes of its events.                                   *)
(***************************************************************************)
LEMMA RecoveryArePassphrases ==
  ASSUME NEW E, Roles(E), NEW S \in SUBSET DOMAIN E
  PROVE  RecoveryMembers(E, S) \subseteq Passphrase
BY DEF RecoveryMembers, Standing, Roles

(* A sound log rejects only what can be contested.                         *)
LEMMA HonestIsNotRejected ==
  ASSUME NEW E, Events(E), NEW log, Sound(E, log), NEW i \in log.rejected
  PROVE  Contestable(E, i)
<1>1. i \in DOMAIN E /\ Graph(E) /\ Roles(E) /\ Lawful(E)
  BY DEF Sound, Typed, Events
<1>2. PICK l \in Log : l.held \subseteq log.held /\ Unauthorized(E, l, i)
  BY DEF Sound, Grounded, Refused
<1>3. E[i].past \in SUBSET DOMAIN E
  BY <1>1 DEF Graph
<1>4. SUFFICES ASSUME ~Contestable(E, i) PROVE FALSE
  OBVIOUS
<1>5. Allowed(E, i) /\ E[i].kind # "joined" /\ E[i].actor \notin Passphrase
  BY <1>1, <1>4 DEF Lawful, Contestable
<1>6. RecoveryMembers(E, E[i].past) \subseteq Passphrase
  BY <1>1, <1>3, RecoveryArePassphrases
<1>7. ~RevokedRecoveryRejection(E, l, i)
  BY <1>5, <1>6 DEF RevokedRecoveryRejection
<1>8. QED
  BY <1>2, <1>5, <1>7 DEF Unauthorized, Allowed

(* Only a recovery operation admits a passphrase: an outsider, whose       *)
(* operations are free, is no member and so what it signs never applies.   *)
LEMMA AdmittedPassphrase ==
  ASSUME NEW E, Events(E), NEW log, Sound(E, log), NEW k \in Applicable(E, log),
         E[k].kind \in Admission, E[k].app \in Passphrase
  PROVE  E[k].kind = "recovery"
<1>1. Graph(E) /\ Roles(E) /\ k \in DOMAIN E /\ ~Unauthorized(E, log, k)
  BY DEF Sound, Typed, Stable, Events, Applicable
<1>2. CASE E[k].actor \in Outsider
  <2>1. E[k].kind = "approved"
    BY <1>1, <1>2 DEF Roles, Admission
  <2>2. E[k].actor \in EffectiveMembers(E, E[k].past)
    BY <1>1, <2>1 DEF Unauthorized
  <2>3. \A j \in E[k].past : j \in DOMAIN E /\ E[j].app \in App
    BY <1>1 DEF Graph, Event
  <2>4. E[k].actor \in App
    BY <2>2, <2>3 DEF EffectiveMembers, Standing
  <2>5. QED
    BY <1>2, <2>4, AppAssumption
<1>3. CASE E[k].actor \notin Outsider
  BY <1>1, <1>3 DEF Roles
<1>4. QED
  BY <1>2, <1>3

(* Where the removal of a passphrase applies, an approval of it which      *)
(* applies too came before the removal.                                    *)
LEMMA WordsBeforeRemoval ==
  ASSUME NEW E, Events(E), NEW log, Sound(E, log),
         NEW r \in Applicable(E, log), E[r].kind = "revoked", E[r].app \in Passphrase,
         NEW i \in Applicable(E, log), E[i].actor = E[r].app
  PROVE  IsAncestor(E, i, r)
<1>1. /\ Graph(E) /\ Roles(E) /\ i \in DOMAIN E /\ r \in DOMAIN E
      /\ \A k \in Applicable(E, log) : ~Unauthorized(E, log, k)
  BY DEF Sound, Typed, Stable, Events, Applicable
<1>2. E[i].kind = "approved"
  BY <1>1 DEF Roles
<1>3. /\ E[i].actor \in EffectiveMembers(E, E[i].past)
      /\ ~RevokedRecoveryRejection(E, log, i)
  BY <1>1, <1>2 DEF Unauthorized
<1>4. E[r].actor \in EffectiveMembers(E, E[r].past)
  BY <1>1 DEF Unauthorized
<1>5. PICK k \in Standing(E, E[i].past) : E[k].app = E[i].actor
  BY <1>3 DEF EffectiveMembers
<1>6. k \in E[i].past /\ E[k].kind \in Admission /\ E[k].app \in Passphrase
  BY <1>5 DEF Standing
<1>7. k \in Applicable(E, log)
  <2>1. UpTo(E, i) \subseteq log.held /\ UpTo(E, i) \cap log.rejected = {}
    BY DEF Applicable
  <2>2. UpTo(E, k) \subseteq UpTo(E, i) /\ k \in UpTo(E, i)
    BY <1>1, <1>6 DEF Graph, UpTo
  <2>3. QED
    BY <2>1, <2>2 DEF Applicable
<1>8. E[k].kind = "recovery"
  BY <1>6, <1>7, AdmittedPassphrase
<1>9. E[i].actor \in RecoveryMembers(E, E[i].past)
  BY <1>5, <1>8 DEF RecoveryMembers
<1>10. r \in Revocations(E, Applicable(E, log), E[i].actor)
  BY DEF Revocations
<1>11. QED
  BY <1>3, <1>4, <1>9, <1>10 DEF RevokedRecoveryRejection

(* Of two joins on one invite, the one with the higher id does not apply.  *)
LEMMA OneJoinApplies ==
  ASSUME NEW E, Graph(E), NEW log, Sound(E, log),
         NEW i \in Applicable(E, log), NEW j \in Applicable(E, log),
         E[i].kind = "joined", E[j].kind = "joined", E[i].invite = E[j].invite
  PROVE  i = j
<1>1. ~Unauthorized(E, log, i) /\ ~Unauthorized(E, log, j)
  BY DEF Sound, Stable
<1>2. ~InviteJoinRejection(E, log, i) /\ ~InviteJoinRejection(E, log, j)
  BY <1>1 DEF Unauthorized
<1>3. i \in log.held /\ j \in log.held /\ InviteJoinHolds(E, log, i) /\ InviteJoinHolds(E, log, j)
  BY <1>2 DEF InviteJoinRejection, Applicable
<1>4. ~(i < j) /\ ~(j < i)
  BY <1>2, <1>3 DEF InviteJoinRejection
<1>5. i \in Nat /\ j \in Nat
  BY <1>3, IdsAreNumbers DEF Sound, Typed, Log
<1>6. QED
  BY <1>4, <1>5

(* The join with the lowest id applies if all that it builds on does.      *)
LEMMA LowestJoinApplies ==
  ASSUME NEW E, Events(E), NEW log, Sound(E, log),
         NEW i \in log.held, E[i].kind = "joined", E[i].past \subseteq Applicable(E, log),
         \A j \in log.held : E[j].kind = "joined" /\ E[j].invite = E[i].invite => ~(j < i)
  PROVE  i \in Applicable(E, log)
<1>1. /\ Graph(E) /\ Roles(E) /\ i \in DOMAIN E /\ log.held \subseteq DOMAIN E
      /\ Grounded(E, log)
  BY DEF Sound, Typed, Events
<1>2. UpTo(E, i) \subseteq log.held /\ E[i].past \cap log.rejected = {}
  BY DEF Applicable, UpTo
<1>3. i \notin log.rejected
  <2>1. SUFFICES ASSUME i \in log.rejected PROVE FALSE
    OBVIOUS
  <2>2. PICK l \in Log : /\ l.held \subseteq log.held /\ UpTo(E, i) \subseteq l.held
                         /\ Unauthorized(E, l, i)
    BY <1>1, <2>1 DEF Grounded, Refused
  <2>3. InviteJoinRejection(E, l, i)
    BY <2>2 DEF Unauthorized
  <2>4. E[i].past \subseteq l.held /\ l.held \subseteq DOMAIN E
    BY <1>1, <2>2 DEF UpTo
  <2>5. Ancestry(E, l.held, E[i].parents) = E[i].past
    BY <1>1, <2>4, AncestryIsPast
  <2>6. InviteJoinHolds(E, l, i)
    BY <1>1, <2>4, <2>5 DEF InviteJoinHolds, Roles
  <2>7. QED
    BY <2>2, <2>3, <2>6 DEF InviteJoinRejection
<1>4. QED
  BY <1>2, <1>3 DEF Applicable, UpTo

(***************************************************************************)
(* As long as no passphrase is removed, what a log rejects follows from    *)
(* the events it holds, whatever order they arrived in.                    *)
(***************************************************************************)
NoWordsRemoved(E) == ~\E r \in DOMAIN E : E[r].kind = "revoked" /\ E[r].app \in Passphrase

Fresh(held) == [held |-> held, rejected |-> {}]

(* Whether an event is refused does not depend on what was refused before. *)
LEMMA VerdictOfHeld ==
  ASSUME NEW E, Events(E), NoWordsRemoved(E), NEW l, l.held \subseteq DOMAIN E,
         NEW i \in DOMAIN E
  PROVE  Unauthorized(E, l, i) <=> Unauthorized(E, Fresh(l.held), i)
<1>1. Graph(E) /\ Roles(E)
  BY DEF Events
<1>2. RecoveryMembers(E, E[i].past) \subseteq Passphrase
  BY <1>1, RecoveryArePassphrases DEF Graph
<1>3. ASSUME NEW m, m.held \subseteq DOMAIN E, RevokedRecoveryRejection(E, m, i)
      PROVE  FALSE
  <2>1. PICK r \in Applicable(E, m) : E[r].kind = "revoked" /\ E[r].app = E[i].actor
    BY <1>3 DEF RevokedRecoveryRejection, Revocations
  <2>2. r \in DOMAIN E
    BY <1>3, <2>1 DEF Applicable
  <2>3. QED
    BY <1>2, <1>3, <2>1, <2>2 DEF NoWordsRemoved, RevokedRecoveryRejection
<1>4. Fresh(l.held).held = l.held
  BY DEF Fresh
<1>5. ~RevokedRecoveryRejection(E, l, i) /\ ~RevokedRecoveryRejection(E, Fresh(l.held), i)
  BY <1>3, <1>4
<1>6. InviteJoinRejection(E, l, i) <=> InviteJoinRejection(E, Fresh(l.held), i)
  <2> HIDE DEF Fresh
  <2>1. \A k : InviteJoinHolds(E, l, k) <=> InviteJoinHolds(E, Fresh(l.held), k)
    BY <1>4 DEF InviteJoinHolds
  <2>2. QED
    BY <1>4, <2>1 DEF InviteJoinRejection
<1>7. QED
  BY <1>5, <1>6 DEF Unauthorized

(* What is refused with its past at hand is refused when more is held; and *)
(* only a join can be refused for what it does not build on.               *)
LEMMA VerdictStays ==
  ASSUME NEW E, Events(E), NoWordsRemoved(E), NEW h, NEW g, h \subseteq g,
         g \subseteq DOMAIN E, NEW i \in DOMAIN E, UpTo(E, i) \subseteq h
  PROVE  /\ Unauthorized(E, Fresh(h), i) => Unauthorized(E, Fresh(g), i)
         /\ E[i].kind # "joined" =>
              (Unauthorized(E, Fresh(h), i) <=> Unauthorized(E, Fresh(g), i))
<1>1. Graph(E) /\ Roles(E)
  BY DEF Events
<1>2. RecoveryMembers(E, E[i].past) \subseteq Passphrase
  BY <1>1, RecoveryArePassphrases DEF Graph
<1>3. ASSUME NEW m, m.held \subseteq DOMAIN E, RevokedRecoveryRejection(E, m, i)
      PROVE  FALSE
  <2>1. PICK r \in Applicable(E, m) : E[r].kind = "revoked" /\ E[r].app = E[i].actor
    BY <1>3 DEF RevokedRecoveryRejection, Revocations
  <2>2. r \in DOMAIN E
    BY <1>3, <2>1 DEF Applicable
  <2>3. QED
    BY <1>2, <1>3, <2>1, <2>2 DEF NoWordsRemoved, RevokedRecoveryRejection
<1>4. Fresh(h).held = h /\ Fresh(g).held = g
  BY DEF Fresh
<1> HIDE DEF Fresh
<1>5. ~RevokedRecoveryRejection(E, Fresh(h), i) /\ ~RevokedRecoveryRejection(E, Fresh(g), i)
  BY <1>3, <1>4
<1>6. CASE E[i].kind = "joined"
  <2>1. E[i].past \subseteq h /\ E[i].past \subseteq g /\ h \subseteq DOMAIN E
    BY DEF UpTo
  <2>2. Ancestry(E, h, E[i].parents) = E[i].past /\ Ancestry(E, g, E[i].parents) = E[i].past
    BY <1>1, <2>1, AncestryIsPast
  <2>3. InviteJoinHolds(E, Fresh(h), i) /\ InviteJoinHolds(E, Fresh(g), i)
    BY <1>1, <1>4, <1>6, <2>1, <2>2 DEF InviteJoinHolds, Roles
  <2>4. ASSUME NEW j \in h, InviteJoinHolds(E, Fresh(h), j)
        PROVE  InviteJoinHolds(E, Fresh(g), j)
    <3>1. E[j].parents \in SUBSET EventId /\ \A k \in g : E[k].parents \subseteq EventId
      BY <1>1, <2>1 DEF Graph
    <3>2. Ancestry(E, h, E[j].parents) \subseteq Ancestry(E, g, E[j].parents)
      BY <3>1, AncestryGrows
    <3>3. QED
      BY <1>4, <2>4, <3>2 DEF InviteJoinHolds
  <2>5. InviteJoinRejection(E, Fresh(h), i) => InviteJoinRejection(E, Fresh(g), i)
    BY <1>4, <2>3, <2>4 DEF InviteJoinRejection
  <2>6. QED
    BY <1>6, <2>5 DEF Unauthorized
<1>7. CASE E[i].kind # "joined"
  BY <1>5, <1>7 DEF Unauthorized
<1>8. QED
  BY <1>6, <1>7

(* So what applies is what is complete and builds on nothing refused.      *)
LEMMA ApplicableByVerdict ==
  ASSUME NEW E, Events(E), NoWordsRemoved(E), NEW log, Sound(E, log)
  PROVE  Applicable(E, log) =
           {i \in log.held :
              /\ UpTo(E, i) \subseteq log.held
              /\ \A k \in UpTo(E, i) : ~Unauthorized(E, Fresh(log.held), k)}
<1>1. /\ Graph(E) /\ log.held \subseteq DOMAIN E /\ log.rejected \subseteq log.held
      /\ Stable(E, log) /\ Grounded(E, log)
  BY DEF Events, Sound, Typed
<1>2. ASSUME NEW i \in Applicable(E, log), NEW k \in UpTo(E, i)
      PROVE  ~Unauthorized(E, Fresh(log.held), k)
  <2>1. UpTo(E, i) \subseteq log.held /\ UpTo(E, i) \cap log.rejected = {} /\ i \in DOMAIN E
    BY <1>1 DEF Applicable
  <2>2. UpTo(E, k) \subseteq UpTo(E, i)
    BY <1>1, <2>1 DEF Graph, UpTo
  <2>3. k \in Applicable(E, log) /\ k \in DOMAIN E
    BY <1>1, <2>1, <2>2 DEF Applicable
  <2>4. ~Unauthorized(E, log, k)
    BY <1>1, <2>3 DEF Stable
  <2>5. QED
    BY <1>1, <2>3, <2>4, VerdictOfHeld
<1>3. ASSUME NEW k \in log.rejected
      PROVE  Unauthorized(E, Fresh(log.held), k)
  <2>1. PICK l \in Log : /\ l.held \subseteq log.held /\ UpTo(E, k) \subseteq l.held
                         /\ Unauthorized(E, l, k)
    BY <1>1 DEF Grounded, Refused
  <2>2. k \in DOMAIN E /\ l.held \subseteq DOMAIN E
    BY <1>1, <2>1
  <2>3. Unauthorized(E, Fresh(l.held), k)
    BY <2>1, <2>2, VerdictOfHeld
  <2>4. QED
    BY <1>1, <2>1, <2>2, <2>3, VerdictStays
<1>4. ASSUME NEW i \in log.held, UpTo(E, i) \subseteq log.held,
             \A k \in UpTo(E, i) : ~Unauthorized(E, Fresh(log.held), k)
      PROVE  i \in Applicable(E, log)
  BY <1>3, <1>4 DEF Applicable
<1>5. \A i \in Applicable(E, log) : i \in log.held /\ UpTo(E, i) \subseteq log.held
  BY DEF Applicable
<1>6. QED
  BY <1>2, <1>4, <1>5

(* Of two sound logs with the same events the same apply.                  *)
LEMMA SameHeldSameApplicable ==
  ASSUME NEW E, Events(E), NoWordsRemoved(E), NEW log, Sound(E, log),
         NEW m, Sound(E, m), m.held = log.held
  PROVE  Applicable(E, m) = Applicable(E, log)
BY ApplicableByVerdict

(* Where nobody joined by invite either, what applied goes on to apply.    *)
LEMMA ApplicableGrows ==
  ASSUME NEW E, Events(E), ~Unsettled(E), NEW log, Sound(E, log),
         NEW m, Sound(E, m), log.held \subseteq m.held
  PROVE  Applicable(E, log) \subseteq Applicable(E, m)
<1>1. /\ NoWordsRemoved(E) /\ \A i \in DOMAIN E : E[i].kind # "joined"
      /\ log.held \subseteq DOMAIN E /\ m.held \subseteq DOMAIN E /\ Graph(E)
  BY DEF Unsettled, NoWordsRemoved, Sound, Typed, Events
<1>2. ASSUME NEW i \in Applicable(E, log)
      PROVE  i \in Applicable(E, m)
  <2>1. /\ i \in log.held /\ UpTo(E, i) \subseteq log.held
        /\ \A k \in UpTo(E, i) : ~Unauthorized(E, Fresh(log.held), k)
    BY <1>1, ApplicableByVerdict
  <2>2. ASSUME NEW k \in UpTo(E, i)
        PROVE  ~Unauthorized(E, Fresh(m.held), k)
    <3>1. k \in DOMAIN E /\ UpTo(E, k) \subseteq log.held
      BY <1>1, <2>1 DEF Graph, UpTo
    <3>2. Unauthorized(E, Fresh(log.held), k) <=> Unauthorized(E, Fresh(m.held), k)
      BY <1>1, <3>1, VerdictStays
    <3>3. QED
      BY <2>1, <3>2
  <2>3. QED
    BY <1>1, <2>1, <2>2, ApplicableByVerdict
<1>3. QED
  BY <1>2

(***************************************************************************)
(* Members.                                                                *)
(***************************************************************************)

(* Members, and those who were, are the apps that were admitted; and the   *)
(* app keys among the members are installations'.                          *)
LEMMA MembersAreAdmitted ==
  ASSUME NEW E, Events(E), NEW log, Sound(E, log)
  PROVE  /\ Members(E, log) \cup Revoked(E, log) = Admitted(E, log)
         /\ Members(E, log) \cap Revoked(E, log) = {}
         /\ AppMembers(E, log) = Members(E, log) \cap Installation
<1>1. /\ Graph(E) /\ Roles(E) /\ Applicable(E, log) \in SUBSET DOMAIN E
  BY DEF Events, Sound, Typed, Applicable
<1>2. \A k \in DOMAIN E : E[k].app \in App
  BY <1>1 DEF Graph, Event
<1>3. Members(E, log) \subseteq Admitted(E, log)
  BY DEF Members, EffectiveMembers, Standing, Admitted
<1>4. Revoked(E, log) = Admitted(E, log) \ Members(E, log)
  BY DEF Revoked, Admitted
<1>5. RecoveryKeys(E, log) \subseteq Passphrase
  BY <1>1, RecoveryArePassphrases DEF RecoveryKeys
<1>6. ASSUME NEW a \in Members(E, log), a \in Passphrase
      PROVE  a \in RecoveryKeys(E, log)
  <2>1. PICK k \in Standing(E, Applicable(E, log)) : E[k].app = a
    BY DEF Members, EffectiveMembers
  <2>2. k \in Applicable(E, log) /\ E[k].kind \in Admission
    BY <2>1 DEF Standing
  <2>3. E[k].kind = "recovery"
    BY <1>6, <2>1, <2>2, AdmittedPassphrase
  <2>4. QED
    BY <2>1, <2>3 DEF RecoveryKeys, RecoveryMembers
<1>7. Members(E, log) \subseteq App
  BY <1>1, <1>2, <1>3 DEF Admitted
<1>8. AppMembers(E, log) = Members(E, log) \cap Installation
  BY <1>5, <1>6, <1>7, AppAssumption DEF AppMembers, App
<1>9. QED
  BY <1>3, <1>4, <1>8

(* A log says the same of its members when more has been signed.           *)
LEMMA SameProjection ==
  ASSUME NEW E, NEW F, Graph(E), Graph(F), Extends(E, F), NEW log, Sound(E, log)
  PROVE  /\ Applicable(F, log) = Applicable(E, log)
         /\ Members(F, log) = Members(E, log)
         /\ AppMembers(F, log) = AppMembers(E, log)
         /\ Admitted(F, log) = Admitted(E, log)
<1>1. log.held \subseteq DOMAIN E
  BY DEF Sound, Typed
<1>2. Applicable(F, log) = Applicable(E, log)
  BY <1>1, SameReasons
<1>3. Applicable(E, log) \in SUBSET DOMAIN E
  BY <1>1 DEF Applicable
<1>4. /\ EffectiveMembers(F, Applicable(E, log)) = EffectiveMembers(E, Applicable(E, log))
      /\ RecoveryMembers(F, Applicable(E, log)) = RecoveryMembers(E, Applicable(E, log))
  BY <1>3, SameMembers
<1>5. Members(F, log) = Members(E, log) /\ AppMembers(F, log) = AppMembers(E, log)
  BY <1>2, <1>4 DEF Members, AppMembers, RecoveryKeys
<1>6. Admitted(F, log) = Admitted(E, log)
  BY <1>2, <1>3 DEF Admitted, Extends
<1>7. QED
  BY <1>2, <1>5, <1>6

-----------------------------------------------------------------------------
(***************************************************************************)
(* The invariant holds at first.                                           *)
(***************************************************************************)
LEMMA FounderIsInstallation ==
  /\ Founder \in Installation /\ Founder \in App
  /\ \A n \in 1..Len(History) : History[n] \in Operation \X App
<1>1. Len(History) \in Nat /\ 1 \in 1..Len(History)
  BY HistoryAssumption
<1>2. \A n \in 1..Len(History) : History[n] \in Operation \X App
  BY HistoryAssumption
<1>3. History[1][1] = "created" /\ History[1][2] \in App /\ History[1][2] \notin Passphrase
  BY <1>1, <1>2, HistoryAssumption DEF Admission
<1>4. QED
  BY <1>2, <1>3 DEF Founder, App

(* What the founder signed is a chain.                                     *)
LEMMA ToldGraph ==
  Graph(Told)
<1>1. Len(History) \in Nat /\ LastId \in Nat /\ EventId = 1..LastId /\ Len(History) <= LastId
  BY HistoryAssumption, MaxNewAssumption DEF LastId, EventId
<1>2. DOMAIN Told = 1..Len(History) /\ DOMAIN Told \subseteq EventId
  BY <1>1 DEF Told
<1>3. ASSUME NEW n \in 1..Len(History)
      PROVE  /\ Told[n].actor = Founder /\ Told[n].kind = History[n][1]
             /\ Told[n].app = History[n][2] /\ Told[n].invite = 0
             /\ Told[n].parents = (IF n = 1 THEN {} ELSE {n - 1})
             /\ Told[n].past = 1..(n - 1)
             /\ Told[n] \in Event
  <2>1. /\ Told[n] = [actor |-> Founder, kind |-> History[n][1], app |-> History[n][2],
                      invite |-> 0, parents |-> IF n = 1 THEN {} ELSE {n - 1},
                      past |-> 1..(n - 1)]
    BY DEF Told
  <2>2. Founder \in App /\ History[n][1] \in Operation /\ History[n][2] \in App
    BY FounderIsInstallation
  <2>3. 1..(n - 1) \in SUBSET EventId /\ (IF n = 1 THEN {} ELSE {n - 1}) \in SUBSET EventId
    BY <1>1
  <2>4. QED
    BY <2>1, <2>2, <2>3 DEF Event
<1>4. ASSUME NEW n \in DOMAIN Told
      PROVE  /\ Told[n].parents \subseteq DOMAIN Told
             /\ Told[n].past = UNION {UpTo(Told, j) : j \in Told[n].parents}
             /\ Told[n].past \subseteq DOMAIN Told
             /\ n \notin Told[n].past
             /\ \A j \in Told[n].past : UpTo(Told, j) \subseteq Told[n].past
  <2>1. n \in 1..Len(History) /\ n \in Nat
    BY <1>2
  <2>2. \A j \in 1..Len(History) : UpTo(Told, j) = 1..j
    <3>1. ASSUME NEW j \in 1..Len(History) PROVE UpTo(Told, j) = 1..j
      <4>1. UpTo(Told, j) = (1..(j - 1)) \cup {j}
        BY <1>3 DEF UpTo
      <4>2. QED
        BY <4>1
    <3>2. QED
      BY <3>1
  <2>0. /\ Told[n].parents = (IF n = 1 THEN {} ELSE {n - 1})
        /\ Told[n].past = 1..(n - 1)
    BY <1>3, <2>1
  <2>3. CASE n = 1
    <3>1. Told[n].parents = {} /\ Told[n].past = {}
      BY <2>0, <2>3
    <3>2. QED
      BY <3>1
  <2>4. CASE n # 1
    <3>1. /\ Told[n].parents = {n - 1} /\ n - 1 \in 1..Len(History) /\ Told[n].past = 1..(n - 1)
      BY <1>1, <2>0, <2>1, <2>4
    <3>2. UpTo(Told, n - 1) = 1..(n - 1)
      BY <2>2, <3>1
    <3>3. \A j \in 1..(n - 1) : j \in 1..Len(History) /\ 1..j \subseteq 1..(n - 1) /\ j # n
      BY <1>1, <2>1
    <3>4. \A j \in 1..(n - 1) : UpTo(Told, j) \subseteq 1..(n - 1)
      BY <2>2, <3>3
    <3>5. UNION {UpTo(Told, j) : j \in Told[n].parents} = 1..(n - 1)
      BY <3>1, <3>2
    <3>6. QED
      BY <1>2, <3>1, <3>3, <3>4, <3>5
  <2>5. QED
    BY <2>3, <2>4
<1>5. Told \in [DOMAIN Told -> Event]
  <2>1. Told = [n \in DOMAIN Told |-> Told[n]]
    BY DEF Told
  <2>2. QED
    BY <1>2, <1>3, <2>1
<1>6. QED
  BY <1>2, <1>4, <1>5 DEF Graph

(* What the founder did applied, and so it is lawful.                      *)
LEMMA ToldIsLawful ==
  Events(Told)
<1> DEFINE log == LoadLog(Told, DOMAIN Told)
<1>1. Graph(Told)
  BY ToldGraph
<1>2. Sound(Told, log)
  BY <1>1, LoadIsSound DEF Graph
<1>3. Applicable(Told, log) = DOMAIN Told
  BY FounderAssumption
<1> HIDE DEF log
<1>4. ASSUME NEW n \in DOMAIN Told
      PROVE  /\ Told[n].actor = Founder /\ Told[n].kind = History[n][1]
             /\ Told[n].app = History[n][2] /\ Told[n].invite = 0
             /\ n \in 1..Len(History)
  BY DEF Told
<1>5. ASSUME NEW n \in DOMAIN Told
      PROVE  Told[n].kind # "joined" /\ Allowed(Told, n)
  <2>1. /\ Told[n].kind # "joined" => Allowed(Told, n)
        /\ Told[n].kind = "joined" => Told[n].invite \in Told[n].past
    BY <1>1, <1>2, <1>3, AppliesLawfully
  <2>2. 0 \notin Told[n].past
    BY <1>1, IdsAreNumbers DEF Graph
  <2>3. QED
    BY <1>4, <2>1, <2>2
<1>6. Lawful(Told)
  BY <1>5 DEF Lawful
<1>7. Founder \notin Outsider /\ Founder \notin Passphrase
  BY FounderIsInstallation, AppAssumption DEF App
<1>8. ASSUME NEW n \in DOMAIN Told
      PROVE  Told[n].kind \in Admission =>
               (Told[n].kind = "recovery" <=> Told[n].app \in Passphrase)
  BY <1>4, HistoryAssumption
<1>9. Roles(Told)
  BY <1>4, <1>5, <1>7, <1>8 DEF Roles, Admission
<1>10. QED
  BY <1>1, <1>6, <1>9 DEF Events

(* At first every log holds the founder's events or none.                  *)
LEMMA InitInvariant ==
  Init => IInv
<1> SUFFICES ASSUME Init PROVE IInv
  OBVIOUS
<1>1. PICK log : log = LoadLog(Told, DOMAIN Told)
  OBVIOUS
<1>2. Events(Told) /\ Graph(Told)
  BY ToldIsLawful DEF Events
<1>3. Sound(Told, log)
  BY <1>1, <1>2, LoadIsSound DEF Graph
<1>4. /\ event = Told /\ provider = log /\ memory = disk
      /\ disk = [d \in Installation |-> IF d \in Members(Told, log) THEN log ELSE EmptyLog]
      /\ directory = [d \in Installation |->
                        IF d \in Members(Told, log) THEN AppMembers(Told, log) ELSE {d}]
  BY <1>1 DEF Init
<1>5. PICK empty : empty = EmptyLog
  OBVIOUS
<1>6. Sound(Told, empty) /\ empty.held = {} /\ Applicable(Told, empty) = {}
  BY <1>5, EmptyIsSound
<1>7. log \in Log /\ empty \in Log
  BY <1>3, <1>6 DEF Sound, Typed
<1>8. LogInv
  BY <1>3, <1>4, <1>5, <1>6, <1>7 DEF LogInv
<1>9. AppMembers(Told, log) = Members(Told, log) \cap Installation
      /\ Members(Told, log) \subseteq Admitted(Told, log)
  BY <1>2, <1>3, MembersAreAdmitted
<1>10. Members(Told, empty) = {}
  BY <1>6 DEF Members, EffectiveMembers, Standing
<1>11. ASSUME NEW d \in Installation
       PROVE  /\ directory[d] \subseteq Installation
              /\ directory[d] \subseteq {d} \cup Admitted(Told, memory[d])
              /\ d \in Members(Told, memory[d]) => directory[d] = AppMembers(Told, memory[d])
  <2>1. CASE d \in Members(Told, log)
    BY <1>4, <1>9, <2>1
  <2>2. CASE d \notin Members(Told, log)
    BY <1>4, <1>5, <1>10, <2>2
  <2>3. QED
    BY <2>1, <2>2
<1>12. DirectoryInv
  BY <1>4, <1>11 DEF DirectoryInv
<1>13. QED
  BY <1>2, <1>4, <1>8, <1>12 DEF IInv

-----------------------------------------------------------------------------
(***************************************************************************)
(* Every step keeps the invariant.                                         *)
(***************************************************************************)
LEMMA LogsLater ==
  ASSUME IInv, NEW E, Events(E), Extends(event, E)
  PROVE  /\ Sound(E, provider)
         /\ \A d \in Installation : Sound(E, disk[d]) /\ Sound(E, memory[d])
<1>1. Graph(event) /\ Graph(E)
  BY DEF IInv, Events
<1>2. /\ Sound(event, provider)
      /\ \A d \in Installation : Sound(event, disk[d]) /\ Sound(event, memory[d])
  BY DEF IInv, LogInv
<1>3. QED
  BY <1>1, <1>2, SoundLater

(* What is signed elsewhere leaves the local identity records as they are. *)
LEMMA DirectoryKept ==
  ASSUME IInv, NEW E, Events(E), Extends(event, E), event' = E,
         UNCHANGED <<directory, memory>>
  PROVE  DirectoryInv'
<1>1. Graph(event) /\ Graph(E)
  BY DEF IInv, Events
<1>2. DirectoryInv /\ \A d \in Installation : Sound(event, memory[d])
  BY DEF IInv, LogInv
<1>3. Unsettled(event) => Unsettled(E)
  BY DEF Unsettled, Extends
<1>4. ASSUME NEW d \in Installation
      PROVE  /\ Members(E, memory[d]) = Members(event, memory[d])
             /\ AppMembers(E, memory[d]) = AppMembers(event, memory[d])
             /\ Admitted(E, memory[d]) = Admitted(event, memory[d])
  BY <1>1, <1>2, SameProjection
<1>5. \/ Unsettled(E)
      \/ \A d \in Installation :
           /\ directory[d] \subseteq {d} \cup Admitted(E, memory[d])
           /\ d \in Members(E, memory[d]) => directory[d] = AppMembers(E, memory[d])
  BY <1>2, <1>3, <1>4 DEF DirectoryInv
<1>6. QED
  BY <1>2, <1>5 DEF DirectoryInv

(* Projecting a log that holds at least what was projected before leaves   *)
(* in the record of a member exactly the app keys of the members.          *)
LEMMA DirectoryMirrored ==
  ASSUME IInv, NEW E, Events(E), Extends(event, E), event' = E,
         NEW d \in Installation, NEW log, Sound(E, log), memory[d].held \subseteq log.held,
         Project(E, d, log)
  PROVE  DirectoryInv'
<1>1. Graph(event) /\ Graph(E)
  BY DEF IInv, Events
<1>2. /\ DirectoryInv /\ memory \in [Installation -> Log]
      /\ \A c \in Installation : Sound(event, memory[c])
  BY DEF IInv, LogInv
<1>3. Unsettled(event) => Unsettled(E)
  BY DEF Unsettled, Extends
<1>4. ASSUME NEW c \in Installation
      PROVE  /\ Members(E, memory[c]) = Members(event, memory[c])
             /\ AppMembers(E, memory[c]) = AppMembers(event, memory[c])
             /\ Admitted(E, memory[c]) = Admitted(event, memory[c])
  BY <1>1, <1>2, SameProjection
<1>5. /\ Members(E, log) \cup Revoked(E, log) = Admitted(E, log)
      /\ Members(E, log) \cap Revoked(E, log) = {}
      /\ AppMembers(E, log) = Members(E, log) \cap Installation
  BY MembersAreAdmitted
<1>6. directory \in [Installation -> SUBSET Installation]
  BY <1>2 DEF DirectoryInv
<1>7. /\ directory' = [directory EXCEPT ![d] = Mirrored(E, d, log)]
      /\ memory' = [memory EXCEPT ![d] = log]
  BY DEF Project
<1>8. Mirrored(E, d, log) = IF d \in Members(E, log)
                              THEN (directory[d] \cup AppMembers(E, log)) \ Revoked(E, log)
                              ELSE directory[d]
  BY DEF Mirrored
<1>9. directory' \in [Installation -> SUBSET Installation]
  BY <1>5, <1>6, <1>7, <1>8
<1>10. ASSUME ~Unsettled(E), NEW c \in Installation
       PROVE  /\ directory'[c] \subseteq {c} \cup Admitted(E, memory'[c])
              /\ c \in Members(E, memory'[c]) => directory'[c] = AppMembers(E, memory'[c])
  <2>1. /\ directory[c] \subseteq {c} \cup Admitted(E, memory[c])
        /\ c \in Members(E, memory[c]) => directory[c] = AppMembers(E, memory[c])
    BY <1>2, <1>3, <1>4, <1>10 DEF DirectoryInv
  <2>2. CASE c # d
    <3>1. directory'[c] = directory[c] /\ memory'[c] = memory[c]
      BY <1>2, <1>6, <1>7, <2>2
    <3>2. QED
      BY <2>1, <3>1
  <2>3. CASE c = d
    <3>1. directory'[d] = Mirrored(E, d, log) /\ memory'[d] = log
      BY <1>2, <1>6, <1>7
    <3>2. Sound(E, memory[d])
      BY LogsLater
    <3>3. Applicable(E, memory[d]) \subseteq Applicable(E, log)
      BY <1>10, <3>2, ApplicableGrows
    <3>4. Admitted(E, memory[d]) \subseteq Admitted(E, log)
      BY <3>3 DEF Admitted
    <3>5. directory[d] \subseteq {d} \cup Admitted(E, log) /\ directory[d] \subseteq Installation
      BY <1>6, <2>1, <2>3, <3>4
    <3>6. d \in Members(E, log) => Mirrored(E, d, log) = AppMembers(E, log)
      BY <1>5, <1>8, <3>5
    <3>7. Mirrored(E, d, log) \subseteq {d} \cup Admitted(E, log)
      BY <1>5, <1>8, <3>5
    <3>8. QED
      BY <2>3, <3>1, <3>6, <3>7
  <2>4. QED
    BY <2>2, <2>3
<1>11. QED
  BY <1>9, <1>10 DEF DirectoryInv

(* The logs after a step in which installation d stores what log holds.    *)
LEMMA LogsStored ==
  ASSUME IInv, NEW E, Events(E), Extends(event, E), event' = E, Sound(E, provider'),
         NEW d \in Installation, NEW stored, Sound(E, stored),
         disk[d].held \subseteq stored.held,
         disk' = [disk EXCEPT ![d] = stored],
         \/ memory' = memory
         \/ \E log : /\ memory' = [memory EXCEPT ![d] = log]
                     /\ Sound(E, log) /\ log.held = stored.held
  PROVE  LogInv'
<1>1. /\ disk \in [Installation -> Log] /\ memory \in [Installation -> Log]
      /\ \A c \in Installation : memory[c].held \subseteq disk[c].held
  BY DEF IInv, LogInv
<1>2. \A c \in Installation : Sound(E, disk[c]) /\ Sound(E, memory[c])
  BY LogsLater
<1>3. stored \in Log
  BY DEF Sound, Typed
<1>4. disk' \in [Installation -> Log] /\ \A c \in Installation : Sound(E, disk'[c])
  BY <1>1, <1>2, <1>3
<1>5. CASE memory' = memory
  <2>1. \A c \in Installation : memory'[c].held \subseteq disk'[c].held
    BY <1>1, <1>5
  <2>2. QED
    BY <1>1, <1>2, <1>4, <1>5, <2>1 DEF LogInv
<1>6. ASSUME NEW log, memory' = [memory EXCEPT ![d] = log], Sound(E, log),
             log.held = stored.held
      PROVE  LogInv'
  <2>1. log \in Log
    BY <1>6 DEF Sound, Typed
  <2>2. memory' \in [Installation -> Log] /\ \A c \in Installation : Sound(E, memory'[c])
    BY <1>1, <1>2, <1>6, <2>1
  <2>3. \A c \in Installation : memory'[c].held \subseteq disk'[c].held
    BY <1>1, <1>6
  <2>4. QED
    BY <1>4, <2>2, <2>3 DEF LogInv
<1>7. QED
  BY <1>5, <1>6

(* Appending at home: every operation of an installation with a log.       *)
LEMMA AppendKeeps ==
  ASSUME IInv, NEW d \in Installation, NEW kind, NEW app, Role(d, kind, app, 0),
         AppendOperations(d, kind, app)
  PROVE  IInv'
<1>1. PICK i \in Unused :
        LET E == Grown(event, i, Signed(event, disk[d], d, kind, app, 0))
        IN  \E after \in {InsertInto(E, disk[d], i)} :
              /\ i \in Applicable(E, after)
              /\ event' = E
              /\ disk' = [disk EXCEPT ![d] = LoadLog(E, after.held)]
              /\ Project(E, d, after)
  BY DEF AppendOperations
<1>2. PICK E : E = Grown(event, i, Signed(event, disk[d], d, kind, app, 0))
  OBVIOUS
<1>3. PICK after : after = InsertInto(E, disk[d], i)
  OBVIOUS
<1>4. /\ i \in Applicable(E, after) /\ event' = E
      /\ disk' = [disk EXCEPT ![d] = LoadLog(E, after.held)]
      /\ Project(E, d, after)
  BY <1>1, <1>2, <1>3
<1>5. /\ Events(event) /\ Sound(event, disk[d]) /\ Sound(event, provider)
      /\ memory[d].held \subseteq disk[d].held
  BY DEF IInv, LogInv
<1>6. /\ Events(E) /\ Extends(event, E) /\ Sound(E, after)
      /\ after.held = disk[d].held \cup {i}
  <2>1. i \in EventId /\ i \notin DOMAIN event
    BY DEF Unused
  <2>2. PICK log : log = disk[d]
    OBVIOUS
  <2>3. /\ E = Grown(event, i, Signed(event, log, d, kind, app, 0))
        /\ after = InsertInto(E, log, i) /\ Sound(event, log)
    BY <1>2, <1>3, <1>5, <2>2
  <2>4. Events(event) /\ Role(d, kind, app, 0) /\ i \in Applicable(E, after)
    BY <1>4, <1>5
  <2>5. Carried(event, E, log, i, after)
    BY <2>1, <2>3, <2>4, SigningKeepsEvents
  <2>6. QED
    BY <2>2, <2>5 DEF Carried
<1>7. PICK stored : stored = LoadLog(E, after.held)
  OBVIOUS
<1>8. Sound(E, stored) /\ stored.held = after.held
  <2>1. after.held \in SUBSET DOMAIN E /\ DOMAIN E \subseteq EventId
    BY <1>6 DEF Sound, Typed, Events, Graph
  <2>2. QED
    BY <1>7, <2>1, LoadIsSound
<1>9. provider' = provider /\ Sound(E, provider)
  BY <1>6, LogsLater DEF AppendOperations
<1>10. LogInv'
  <2>1. memory' = [memory EXCEPT ![d] = after]
    BY <1>4 DEF Project
  <2>2. disk[d].held \subseteq stored.held /\ disk' = [disk EXCEPT ![d] = stored]
    BY <1>4, <1>6, <1>7, <1>8
  <2>3. after.held = stored.held /\ Sound(E, provider')
    BY <1>8, <1>9
  <2>4. QED
    BY <1>4, <1>6, <1>8, <2>1, <2>2, <2>3, LogsStored
<1>11. DirectoryInv'
  <2>1. memory[d].held \subseteq after.held
    BY <1>5, <1>6
  <2>2. QED
    BY <1>4, <1>6, <2>1, DirectoryMirrored
<1>12. QED
  BY <1>4, <1>6, <1>10, <1>11 DEF IInv

(* One event put into the provider's log.                                  *)
LEMMA PutKeeps ==
  ASSUME IInv, NEW actor, NEW kind, NEW app, Role(actor, kind, app, 0),
         NEW i \in Unused,
         NEW E, E = Grown(event, i, Signed(event, provider, actor, kind, app, 0)),
         i \in Applicable(E, InsertInto(E, provider, i)) \/ actor \in Outsider,
         provider' = LoadLog(E, provider.held \cup {i})
  PROVE  Events(E) /\ Extends(event, E) /\ Sound(E, provider')
<1>1. Events(event) /\ Sound(event, provider)
  BY DEF IInv, LogInv
<1>2. i \in EventId /\ i \notin DOMAIN event
  BY DEF Unused
<1>3. PICK after : after = InsertInto(E, provider, i)
  OBVIOUS
<1>4. Carried(event, E, provider, i, after)
  BY <1>1, <1>2, <1>3, SigningKeepsEvents
<1>5. provider.held \cup {i} \in SUBSET DOMAIN E /\ DOMAIN E \subseteq EventId
  BY <1>1, <1>4 DEF Sound, Typed, Events, Graph, Carried
<1>6. Sound(E, provider')
  BY <1>5, LoadIsSound
<1>7. QED
  BY <1>4, <1>6 DEF Carried

(* An installation that joins takes over the log it joins from.            *)
LEMMA JoinFromKeeps ==
  ASSUME IInv, NEW E, Events(E), Extends(event, E), event' = E, Sound(E, provider'),
         NEW d \in Installation, disk[d].held = {}, NEW log, Sound(E, log),
         JoinFrom(E, d, log)
  PROVE  IInv'
<1>1. /\ disk' = [disk EXCEPT ![d] = log] /\ Project(E, d, log)
      /\ memory' = [memory EXCEPT ![d] = log]
  BY DEF JoinFrom, Project
<1>2. LogInv'
  BY <1>1, LogsStored
<1>3. memory[d].held \subseteq log.held
  BY DEF IInv, LogInv
<1>4. DirectoryInv'
  BY <1>1, <1>3, DirectoryMirrored
<1>5. QED
  BY <1>2, <1>4 DEF IInv

(* A join is signed on what was read from the provider, and stored.        *)
LEMMA JoinByInviteKeeps ==
  ASSUME IInv, NEW d \in Installation, JoinByInvite(d)
  PROVE  IInv'
<1>1. PICK read \in SUBSET (provider.held \ disk[d].held) :
        \E log \in {InsertAll(event, disk[d], read)} :
          \E v \in {w \in Applicable(event, log) : event[w].kind = "invited"},
             i \in Unused :
             LET E == Grown(event, i, Signed(event, log, d, "joined", d, v))
             IN  \E after \in {InsertInto(E, log, i)} :
                   /\ i \in Applicable(E, after)
                   /\ event' = E
                   /\ disk' = [disk EXCEPT ![d] = LoadLog(E, after.held)]
                   /\ \E pushed \in {log.held, after.held} :
                        provider' = LoadLog(E, provider.held \cup pushed)
  BY DEF JoinByInvite
<1>2. PICK log \in {InsertAll(event, disk[d], read)} :
        \E v \in {w \in Applicable(event, log) : event[w].kind = "invited"},
           i \in Unused :
           LET E == Grown(event, i, Signed(event, log, d, "joined", d, v))
           IN  \E after \in {InsertInto(E, log, i)} :
                 /\ i \in Applicable(E, after)
                 /\ event' = E
                 /\ disk' = [disk EXCEPT ![d] = LoadLog(E, after.held)]
                 /\ \E pushed \in {log.held, after.held} :
                      provider' = LoadLog(E, provider.held \cup pushed)
  BY <1>1
<1>3. PICK v \in {w \in Applicable(event, log) : event[w].kind = "invited"}, i \in Unused :
        LET E == Grown(event, i, Signed(event, log, d, "joined", d, v))
        IN  \E after \in {InsertInto(E, log, i)} :
              /\ i \in Applicable(E, after)
              /\ event' = E
              /\ disk' = [disk EXCEPT ![d] = LoadLog(E, after.held)]
              /\ \E pushed \in {log.held, after.held} :
                   provider' = LoadLog(E, provider.held \cup pushed)
  BY <1>2
<1>4. PICK E : E = Grown(event, i, Signed(event, log, d, "joined", d, v))
  OBVIOUS
<1>5. PICK after : after = InsertInto(E, log, i)
  OBVIOUS
<1>6. /\ i \in Applicable(E, after) /\ event' = E
      /\ disk' = [disk EXCEPT ![d] = LoadLog(E, after.held)]
      /\ \E pushed \in {log.held, after.held} :
           provider' = LoadLog(E, provider.held \cup pushed)
  BY <1>3, <1>4, <1>5
<1>7. Events(event) /\ Sound(event, disk[d]) /\ Sound(event, provider)
  BY DEF IInv, LogInv
<1>8. DOMAIN event \subseteq EventId
  BY <1>7 DEF Events, Graph
<1>9. Sound(event, log) /\ log.held = disk[d].held \cup read
  <2>1. PICK stored : stored = disk[d]
    OBVIOUS
  <2>2. Sound(event, stored) /\ read \in SUBSET DOMAIN event
    BY <1>7, <2>1 DEF Sound, Typed
  <2>3. Sound(event, InsertAll(event, stored, read))
    BY <1>8, <2>2, InsertAllIsSound
  <2>4. InsertAll(event, stored, read).held = stored.held \cup read
    BY <1>8, <2>2, InsertAllIsSound
  <2>5. QED
    BY <1>2, <2>1, <2>3, <2>4
<1>10. Carried(event, E, log, i, after)
  <2>1. i \in EventId /\ i \notin DOMAIN event
    BY DEF Unused
  <2>2. v \in EventId
    BY <1>9 DEF Applicable, Sound, Typed, Log
  <2>3. Role(d, "joined", d, v)
    BY <2>2, AppAssumption DEF Role, App, Operation, Admission
  <2>4. QED
    BY <1>4, <1>5, <1>6, <1>7, <1>9, <2>1, <2>3, SigningKeepsEvents
<1>11. /\ Events(E) /\ Extends(event, E) /\ Sound(E, after)
       /\ after.held = disk[d].held \cup read \cup {i}
       /\ DOMAIN E \subseteq EventId /\ DOMAIN E = DOMAIN event \cup {i}
  BY <1>9, <1>10 DEF Carried, Events, Graph
<1>12. Sound(E, provider')
  <2>1. PICK pushed \in {log.held, after.held} :
          provider' = LoadLog(E, provider.held \cup pushed)
    BY <1>6
  <2>2. provider.held \cup pushed \in SUBSET DOMAIN E
    BY <1>7, <1>9, <1>11 DEF Sound, Typed
  <2>3. QED
    BY <1>11, <2>1, <2>2, LoadIsSound
<1>13. PICK stored : stored = LoadLog(E, after.held)
  OBVIOUS
<1>14. Sound(E, stored) /\ stored.held = after.held
  <2>1. after.held \in SUBSET DOMAIN E
    BY <1>11 DEF Sound, Typed
  <2>2. QED
    BY <1>11, <1>13, <2>1, LoadIsSound
<1>15. directory' = directory /\ memory' = memory
  BY DEF JoinByInvite
<1>16. LogInv'
  <2>1. disk[d].held \subseteq stored.held /\ disk' = [disk EXCEPT ![d] = stored]
    BY <1>6, <1>11, <1>13, <1>14
  <2>2. QED
    BY <1>6, <1>11, <1>12, <1>14, <1>15, <2>1, LogsStored
<1>17. DirectoryInv'
  BY <1>6, <1>11, <1>15, DirectoryKept
<1>18. QED
  BY <1>6, <1>11, <1>16, <1>17 DEF IInv

(* A step that only puts events into the provider's log.                   *)
LEMMA ProviderKeeps ==
  ASSUME IInv, NEW E, Events(E), Extends(event, E), event' = E, Sound(E, provider'),
         UNCHANGED <<disk, directory, memory>>
  PROVE  IInv'
<1>1. \A d \in Installation : Sound(E, disk[d]) /\ Sound(E, memory[d])
  BY LogsLater
<1>2. LogInv'
  BY <1>1 DEF IInv, LogInv
<1>3. DirectoryInv'
  BY DirectoryKept
<1>4. QED
  BY <1>2, <1>3 DEF IInv

(* So does an operation that applies at the provider.                      *)
LEMMA PutAtProviderKeeps ==
  ASSUME IInv, NEW actor, NEW kind, NEW app, Role(actor, kind, app, 0),
         PutAtProvider(actor, kind, app)
  PROVE  Events(event') /\ Extends(event, event') /\ Sound(event', provider')
<1>1. PICK i \in Unused :
        LET E == Grown(event, i, Signed(event, provider, actor, kind, app, 0))
        IN  /\ i \in Applicable(E, InsertInto(E, provider, i))
            /\ event' = E
            /\ provider' = LoadLog(E, provider.held \cup {i})
  BY DEF PutAtProvider
<1>2. PICK E : E = Grown(event, i, Signed(event, provider, actor, kind, app, 0))
  OBVIOUS
<1>3. /\ i \in Applicable(E, InsertInto(E, provider, i)) /\ event' = E
      /\ provider' = LoadLog(E, provider.held \cup {i})
  BY <1>1, <1>2
<1>4. Events(E) /\ Extends(event, E) /\ Sound(E, provider')
  BY <1>2, <1>3, PutKeeps
<1>5. QED
  BY <1>3, <1>4

(* An installation asks to join.                                           *)
LEMMA RequestJoinKeeps ==
  ASSUME IInv, NEW d \in Installation, RequestJoin(d)
  PROVE  IInv'
<1>1. Role(d, "requested", d, 0)
  BY AppAssumption DEF Role, App, Operation, Admission
<1>2. PutAtProvider(d, "requested", d) /\ UNCHANGED <<disk, directory, memory>>
  BY DEF RequestJoin
<1>3. PICK E : E = event'
  OBVIOUS
<1>4. Events(E) /\ Extends(event, E) /\ Sound(E, provider')
  BY <1>1, <1>2, <1>3, PutAtProviderKeeps
<1>5. QED
  BY <1>2, <1>3, <1>4, ProviderKeeps

(* The words of a passphrase approve an installation.                      *)
LEMMA RecoverKeeps ==
  ASSUME IInv, NEW d \in Installation, NEW p \in Passphrase, Recover(d, p)
  PROVE  IInv'
<1>1. Role(p, "approved", d, 0)
  BY AppAssumption DEF Role, App, Operation, Admission
<1>2. /\ PutAtProvider(p, "approved", d) /\ disk[d].held = {}
      /\ JoinFrom(event', d, provider') \/ UNCHANGED <<disk, directory, memory>>
  BY DEF Recover
<1>3. PICK E : E = event'
  OBVIOUS
<1>4. PICK log : log = provider'
  OBVIOUS
<1>5. Events(E) /\ Extends(event, E) /\ Sound(E, provider') /\ Sound(E, log)
  BY <1>1, <1>2, <1>3, <1>4, PutAtProviderKeeps
<1>6. CASE JoinFrom(event', d, provider')
  <2>1. JoinFrom(E, d, log)
    BY <1>3, <1>4, <1>6
  <2>2. QED
    BY <1>2, <1>3, <1>5, <2>1, JoinFromKeeps
<1>7. CASE UNCHANGED <<disk, directory, memory>>
  BY <1>3, <1>5, <1>7, ProviderKeeps
<1>8. QED
  BY <1>2, <1>6, <1>7

(* An installation takes over the log that lists it.                       *)
LEMMA CompleteJoinKeeps ==
  ASSUME IInv, NEW d \in Installation, CompleteJoin(d)
  PROVE  IInv'
<1>1. PICK source \in {provider} \cup {disk[c] : c \in Installation} :
        JoinFrom(event, d, source)
  BY DEF CompleteJoin
<1>2. disk[d].held = {} /\ event' = event /\ provider' = provider
  BY DEF CompleteJoin
<1>3. PICK E : E = event
  OBVIOUS
<1>4. /\ Events(E) /\ Extends(event, E) /\ Sound(E, provider') /\ Sound(E, source)
      /\ event' = E /\ JoinFrom(E, d, source)
  BY <1>1, <1>2, <1>3 DEF IInv, LogInv, Extends
<1>5. QED
  BY <1>2, <1>4, JoinFromKeeps

(* An outsider's operation is quarantined wherever it arrives.             *)
LEMMA StrayKeeps ==
  ASSUME IInv, NEW o \in Outsider, NEW kind \in {"approved", "revoked"}, NEW a \in App,
         Stray(o, kind, a)
  PROVE  IInv'
<1>1. Role(o, kind, a, 0)
  BY AppAssumption DEF Role, App, Operation, Admission
<1>2. PICK i \in Unused :
        LET E == Grown(event, i, Signed(event, provider, o, kind, a, 0))
        IN  event' = E /\ provider' = LoadLog(E, provider.held \cup {i})
  BY DEF Stray
<1>3. PICK E : E = Grown(event, i, Signed(event, provider, o, kind, a, 0))
  OBVIOUS
<1>4. event' = E /\ provider' = LoadLog(E, provider.held \cup {i})
  BY <1>2, <1>3
<1>5. Events(E) /\ Extends(event, E) /\ Sound(E, provider')
  BY <1>1, <1>3, <1>4, PutKeeps
<1>6. QED
  BY <1>4, <1>5, ProviderKeeps DEF Stray

(* A synchronization, whole or cut short, leaves sound logs on both sides. *)
LEMMA SyncKeeps ==
  ASSUME IInv, NEW d \in Installation, NEW read \in SUBSET (provider.held \ disk[d].held),
         Sync(d, read) \/ SyncCut(d, read)
  PROVE  IInv'
<1>1. PICK E : E = event
  OBVIOUS
<1>2. PICK own : own = disk[d]
  OBVIOUS
<1>3. /\ Events(E) /\ Extends(event, E) /\ event' = E /\ DOMAIN E \subseteq EventId
      /\ Sound(E, own) /\ Sound(E, provider) /\ memory[d].held \subseteq own.held
  BY <1>1, <1>2 DEF IInv, LogInv, Extends, Sync, SyncCut, Events, Graph
<1>4. /\ own.held \in SUBSET DOMAIN E /\ provider.held \in SUBSET DOMAIN E
      /\ read \in SUBSET DOMAIN E /\ own.held \cup read \in SUBSET DOMAIN E
  BY <1>3 DEF Sound, Typed
<1>5. PICK stored : stored = LoadLog(E, own.held \cup read)
  OBVIOUS
<1>6. Sound(E, stored) /\ stored.held = own.held \cup read
  BY <1>3, <1>4, <1>5, LoadIsSound
<1>7. disk' = [disk EXCEPT ![d] = stored] /\ disk[d].held \subseteq stored.held
  BY <1>1, <1>2, <1>5, <1>6 DEF Sync, SyncCut, Pull
<1>8. CASE Sync(d, read)
  <2>1. PICK log \in {InsertAll(E, own, read)} :
          /\ provider' = LoadLog(E, provider.held \cup Pushed(E, log))
          /\ Project(E, d, log)
    BY <1>1, <1>2, <1>8 DEF Sync
  <2>2. Sound(E, log)
    BY <1>3, <1>4, <2>1, InsertAllIsSound
  <2>3. log.held = own.held \cup read
    BY <1>3, <1>4, <2>1, InsertAllIsSound
  <2>4. provider.held \cup Pushed(E, log) \in SUBSET DOMAIN E
    BY <1>4, <2>3 DEF Pushed
  <2>5. Sound(E, provider')
    BY <1>3, <2>1, <2>4, LoadIsSound
  <2>6. memory' = [memory EXCEPT ![d] = log] /\ log.held = stored.held
    BY <1>6, <2>1, <2>3 DEF Project
  <2>7. LogInv'
    BY <1>3, <1>6, <1>7, <2>2, <2>5, <2>6, LogsStored
  <2>8. memory[d].held \subseteq log.held
    BY <1>3, <2>3
  <2>9. DirectoryInv'
    BY <1>3, <2>1, <2>2, <2>8, DirectoryMirrored
  <2>10. QED
    BY <1>3, <2>7, <2>9 DEF IInv
<1>9. CASE SyncCut(d, read)
  <2>1. PICK last \in disk[d].held \ provider.held :
          provider' = LoadLog(E, provider.held \cup {i \in own.held : i < last})
    BY <1>1, <1>2, <1>9 DEF SyncCut
  <2>2. provider.held \cup {i \in own.held : i < last} \in SUBSET DOMAIN E
    BY <1>4
  <2>3. Sound(E, provider')
    BY <1>3, <2>1, <2>2, LoadIsSound
  <2>4. directory' = directory /\ memory' = memory
    BY <1>9 DEF SyncCut
  <2>5. LogInv'
    BY <1>3, <1>6, <1>7, <2>3, <2>4, LogsStored
  <2>6. DirectoryInv'
    BY <1>3, <2>4, DirectoryKept
  <2>7. QED
    BY <1>3, <2>5, <2>6 DEF IInv
<1>10. QED
  BY <1>8, <1>9

(* Every step keeps the invariant.                                         *)
LEMMA StepInvariant ==
  IInv /\ [Next]_vars => IInv'
<1> SUFFICES ASSUME IInv, [Next]_vars PROVE IInv'
  OBVIOUS
<1>1. ASSUME NEW d \in Installation, NEW kind \in {"revoked", "approved", "denied", "invited", "noted"},
             NEW a \in App, kind = "approved" => a \in Installation
      PROVE  Role(d, kind, a, 0)
  BY <1>1, AppAssumption DEF Role, App, Operation, Admission
<1>2. ASSUME NEW d \in Installation, NEW p \in Passphrase
      PROVE  Role(d, "recovery", p, 0)
  BY AppAssumption DEF Role, App, Operation, Admission
<1>3. Installation \subseteq App
  BY DEF App
<1>4. ASSUME NEW d \in Installation, NEW a \in App, RevokeMember(d, a)
      PROVE  IInv'
  <2>1. Role(d, "revoked", a, 0)
    BY <1>1
  <2>2. QED
    BY <1>4, <2>1, AppendKeeps DEF RevokeMember
<1>5. ASSUME NEW d \in Installation, NEW a \in Installation,
             ApproveJoin(d, a) \/ DenyJoin(d, a) \/ AddMember(d, a)
      PROVE  IInv'
  <2>1. Role(d, "approved", a, 0) /\ Role(d, "denied", a, 0)
    BY <1>1, <1>3
  <2>2. QED
    BY <1>5, <2>1, AppendKeeps DEF ApproveJoin, DenyJoin, AddMember
<1>6. ASSUME NEW d \in Installation, NEW p \in Passphrase, AddRecovery(d, p)
      PROVE  IInv'
  BY <1>2, <1>6, AppendKeeps DEF AddRecovery
<1>7. ASSUME NEW d \in Installation, IssueInvite(d) \/ Note(d)
      PROVE  IInv'
  <2>1. Role(d, "invited", d, 0) /\ Role(d, "noted", d, 0)
    BY <1>1, <1>3
  <2>2. QED
    BY <1>7, <2>1, AppendKeeps DEF IssueInvite, Note
<1>8. CASE UNCHANGED vars
  BY <1>8 DEF vars, IInv, LogInv, DirectoryInv
<1>9. QED
  BY <1>4, <1>5, <1>6, <1>7, <1>8, JoinByInviteKeeps, RequestJoinKeeps, RecoverKeeps,
     CompleteJoinKeeps, StrayKeeps, SyncKeeps DEF Next

(* The inductive invariant holds in every reachable state.                 *)
LEMMA IdentityInvariant ==
  Spec => []IInv
<1>1. Init => IInv
  BY InitInvariant
<1>2. IInv /\ [Next]_vars => IInv'
  BY StepInvariant
<1>3. QED
  BY <1>1, <1>2, PTL DEF Spec

-----------------------------------------------------------------------------
(***************************************************************************)
(* The properties.                                                         *)
(***************************************************************************)

(* Type correctness: nothing is held that nobody signed, the past of every *)
(* event is closed, a join builds on its invite, and the local identity    *)
(* record lists only app keys, never a recovery passphrase.                *)
THEOREM IdentityTypes ==
  Spec => []TypeOK
<1>1. IInv => TypeOK
  <2> SUFFICES ASSUME IInv PROVE TypeOK
    OBVIOUS
  <2>1. Graph(event) /\ Roles(event)
    BY DEF IInv, Events
  <2>2. ASSUME NEW i \in DOMAIN event
        PROVE  /\ event[i].actor \in App \cup Outsider
               /\ event[i].kind \in Operation
               /\ event[i].app \in App
               /\ event[i].invite \in {0} \cup event[i].past
               /\ event[i].past = UNION {UpTo(event, j) : j \in event[i].parents}
    BY <2>1 DEF Graph, Roles, Event
  <2>3. DOMAIN event \subseteq EventId
    BY <2>1 DEF Graph
  <2>4. /\ disk \in [Installation -> Log] /\ memory \in [Installation -> Log]
        /\ provider \in Log
        /\ directory \in [Installation -> SUBSET Installation]
    BY DEF IInv, LogInv, DirectoryInv, Sound, Typed
  <2>5. \A log \in {provider} \cup {disk[d] : d \in Installation} :
          log.rejected \subseteq log.held /\ log.held \subseteq DOMAIN event
    BY DEF IInv, LogInv, Sound, Typed
  <2>6. QED
    BY <2>2, <2>3, <2>4, <2>5 DEF TypeOK
<1>2. QED
  BY <1>1, IdentityInvariant, PTL

(* What a member signed is never taken back: a log rejects only joins by   *)
(* invite, the words of passphrases and what outsiders signed.             *)
THEOREM HonestOperationsStand ==
  Spec => []HonestStands
<1>1. IInv => HonestStands
  <2> SUFFICES ASSUME IInv PROVE HonestStands
    OBVIOUS
  <2>1. ASSUME NEW log \in {provider} \cup {disk[d] : d \in Installation},
               NEW i \in log.rejected
        PROVE  /\ i \in DOMAIN event
               /\ event[i].kind = "joined" \/ event[i].actor \in Passphrase \cup Outsider
    <3>1. Events(event) /\ Sound(event, log)
      BY DEF IInv, LogInv
    <3>2. Contestable(event, i)
      BY <3>1, HonestIsNotRejected
    <3>3. QED
      BY <3>1, <3>2 DEF Sound, Typed, Contestable
  <2>2. QED
    BY <2>1 DEF HonestStands
<1>2. QED
  BY <1>1, IdentityInvariant, PTL

(* The words of a removed passphrase add nobody after the removal, in      *)
(* whatever order the removal and the approvals reach a log.               *)
THEOREM RemovedWordsAreDead ==
  Spec => []RemovedWordsAdmitNobody
<1>1. IInv => RemovedWordsAdmitNobody
  <2> SUFFICES ASSUME IInv PROVE RemovedWordsAdmitNobody
    OBVIOUS
  <2>1. ASSUME NEW log \in {provider} \cup {disk[d] : d \in Installation},
               NEW r \in Applicable(event, log),
               event[r].kind = "revoked", event[r].app \in Passphrase,
               NEW i \in Applicable(event, log), event[i].actor = event[r].app
        PROVE  IsAncestor(event, i, r)
    <3>1. Events(event) /\ Sound(event, log)
      BY DEF IInv, LogInv
    <3>2. QED
      BY <2>1, <3>1, WordsBeforeRemoval
  <2>2. QED
    BY <2>1 DEF RemovedWordsAdmitNobody
<1>2. QED
  BY <1>1, IdentityInvariant, PTL

(* A one-time invite admits at most one installation, and the same one at  *)
(* every replica that holds the joins: that of the lowest id, if what it   *)
(* builds on applies.                                                      *)
THEOREM InvitesAreOneTime ==
  Spec => []InviteAdmitsOne
<1>1. IInv => InviteAdmitsOne
  <2> SUFFICES ASSUME IInv,
                      NEW log \in {provider} \cup {disk[d] : d \in Installation},
                      NEW k \in log.held, event[k].kind = "joined"
               PROVE  LET live  == Applicable(event, log)
                          Joins == {i \in log.held : /\ event[i].kind = "joined"
                                                     /\ event[i].invite = event[k].invite}
                      IN  /\ Cardinality(Joins \cap live) <= 1
                          /\ event[Min(Joins)].past \subseteq live => Min(Joins) \in live
    BY DEF InviteAdmitsOne
  <2> DEFINE live == Applicable(event, log)
             Joins == {i \in log.held : /\ event[i].kind = "joined"
                                        /\ event[i].invite = event[k].invite}
  <2>1. Events(event) /\ Graph(event) /\ Sound(event, log)
    BY DEF IInv, LogInv, Events
  <2>2. Joins \in SUBSET Nat /\ Joins # {} /\ Joins \subseteq EventId
    <3>1. log.held \subseteq EventId
      BY <2>1 DEF Sound, Typed, Log
    <3>2. QED
      BY <3>1, IdsAreNumbers
  <2>3. \A i \in Joins \cap live, j \in Joins \cap live : i = j
    BY <2>1, OneJoinApplies
  <2>4. Cardinality(Joins \cap live) <= 1
    <3> HIDE DEF Joins, live
    <3>1. CASE Joins \cap live = {}
      <4>1. Cardinality(Joins \cap live) = 0
        BY <3>1, FS_EmptySet
      <4>2. QED
        BY <4>1
    <3>2. CASE Joins \cap live # {}
      <4>1. PICK i \in Joins \cap live : Joins \cap live = {i}
        BY <2>3, <3>2
      <4>2. Cardinality(Joins \cap live) = 1
        BY <4>1, FS_Singleton
      <4>3. QED
        BY <4>2
    <3>3. QED
      BY <3>1, <3>2
  <2>5. Min(Joins) \in Joins /\ \A j \in Joins : Min(Joins) <= j
    <3> HIDE DEF Joins
    <3>1. \E x \in Joins : \A y \in Joins : x <= y
      BY <2>2, LeastNatural
    <3>2. QED
      BY <3>1 DEF Min
  <2>6. \A j \in Joins : ~(j < Min(Joins))
    <3>1. PICK m : m = Min(Joins)
      OBVIOUS
    <3> HIDE DEF Joins
    <3>2. m \in Nat /\ \A j \in Joins : j \in Nat /\ m <= j
      BY <2>2, <2>5, <3>1
    <3>3. QED
      BY <3>1, <3>2
  <2>7. ASSUME event[Min(Joins)].past \subseteq live
        PROVE  Min(Joins) \in live
    <3>1. PICK i : i = Min(Joins)
      OBVIOUS
    <3>2. /\ i \in log.held /\ event[i].kind = "joined" /\ event[i].invite = event[k].invite
          /\ event[i].past \subseteq Applicable(event, log)
      BY <2>5, <2>7, <3>1
    <3>3. \A j \in log.held :
            event[j].kind = "joined" /\ event[j].invite = event[i].invite => ~(j < i)
      BY <2>6, <3>1, <3>2
    <3>4. QED
      BY <2>1, <3>1, <3>2, <3>3, LowestJoinApplies
  <2>8. QED
    BY <2>4, <2>7
<1>2. QED
  BY <1>1, IdentityInvariant, PTL

(* What an installation projected from its events as they arrived is what  *)
(* it projects from them after a restart, as long as no passphrase is      *)
(* removed.                                                                *)
THEOREM OrderDoesNotMatter ==
  Spec => []OrderIndependent
<1>1. IInv => OrderIndependent
  <2> SUFFICES ASSUME IInv, NoWordsRemoved(event), NEW d \in Installation,
                      memory[d].held = disk[d].held
               PROVE  Applicable(event, memory[d]) = Applicable(event, disk[d])
    BY DEF OrderIndependent, NoWordsRemoved
  <2>1. Events(event) /\ Sound(event, memory[d]) /\ Sound(event, disk[d])
    BY DEF IInv, LogInv
  <2>2. QED
    BY <2>1, SameHeldSameApplicable
<1>2. QED
  BY <1>1, IdentityInvariant, PTL

(* The local identity record of a member lists exactly the app keys of the *)
(* log its installation projected last, as long as nobody joined by invite *)
(* and no passphrase was removed.                                          *)
THEOREM DirectoryFollowsLog ==
  Spec => []DirectoryMirrors
<1>1. IInv => DirectoryMirrors
  BY DEF IInv, DirectoryInv, DirectoryMirrors, Unsettled
<1>2. QED
  BY <1>1, IdentityInvariant, PTL
=============================================================================
