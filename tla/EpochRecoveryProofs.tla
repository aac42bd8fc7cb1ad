------------------------ MODULE EpochRecoveryProofs ------------------------
(***************************************************************************)
(* Machine-checked proofs about the rotation of key epochs: for any number *)
(* of tabs, crashes and events, that epochs never fork and the identity    *)
(* directory only moves forward; for a device with one open tab, that      *)
(* every record stays under the current key and that the rotation protocol *)
(* implements the ledger of EpochLedger.                                   *)
(***************************************************************************)
EXTENDS EpochRecovery, TLAPS, WellFoundedInduction, FiniteSetTheorems

-----------------------------------------------------------------------------
(***************************************************************************)
(* Numbers.                                                                *)
(***************************************************************************)

(* A nonempty set of naturals has a least member. *)
LEMMA LeastNatural ==
  ASSUME NEW T \in SUBSET Nat, T # {}
  PROVE  \E x \in T : \A y \in T : x <= y
<1>1. PICK x \in T : \A y \in T : ~(<<y, x>> \in OpToRel(<, Nat))
  BY NatLessThanWellFounded, WFMin
<1>2. \A y \in T : ~(y < x)
  BY <1>1 DEF OpToRel
<1>3. QED
  BY <1>2

(* A bounded nonempty set of naturals has a largest member, and Max() *)
(* finds it.                                                          *)
LEMMA MaxOfBounded ==
  ASSUME NEW n \in Nat, NEW S \in SUBSET (0..n), S # {}
  PROVE  Max(S) \in S /\ \A y \in S : y <= Max(S)
<1> DEFINE T == {k \in Nat : \A y \in S : y <= k}
<1>1. n \in T
  OBVIOUS
<1>2. PICK m \in T : \A k \in T : m <= k
  BY <1>1, LeastNatural
<1>3. m \in S
  <2>1. SUFFICES ASSUME m \notin S PROVE FALSE
    OBVIOUS
  <2>2. \A y \in S : y <= m - 1 /\ y \in Nat
    BY <1>2, <2>1
  <2>3. m - 1 \in Nat
    <3>1. PICK y \in S : TRUE
      OBVIOUS
    <3>2. y <= m - 1 /\ y \in Nat /\ m \in Nat
      BY <2>2
    <3>3. QED
      BY <3>2
  <2>4. m - 1 \in T
    BY <2>2, <2>3
  <2>5. QED
    BY <1>2, <2>4
<1>4. \E x \in S : \A y \in S : x >= y
  BY <1>2, <1>3
<1>5. QED
  BY <1>4 DEF Max

(* Event ids and epochs are numbers; the initial epoch 0 is the id of no *)
(* event, and a smaller positive number than an id is an id.             *)
LEMMA IdsAreNumbers ==
  /\ \A x \in Id : x \in Nat /\ x > 0
  /\ \A x \in Epoch : x \in Nat
  /\ \A x \in Id, y \in Nat \ {0} : y <= x => y \in Id
BY EventsAssumption DEF Epoch, Id, InitialEpoch

(* The bound on the ids that may be drawn bounds every set of epochs. *)
LEMMA MaxOfEpochs ==
  ASSUME NEW S \in SUBSET Epoch, S # {}
  PROVE  Max(S) \in S /\ \A y \in S : y <= Max(S)
<1>1. 2 * MaxEvents \in Nat
  BY EventsAssumption
<1>2. S \in SUBSET (0..(2 * MaxEvents))
  BY <1>1 DEF Epoch, Id, InitialEpoch
<1>3. QED
  BY <1>1, <1>2, MaxOfBounded

(* A set is known by its upper end. *)
LEMMA MaxIs ==
  ASSUME NEW S \in SUBSET Epoch, NEW m \in S, \A y \in S : y <= m
  PROVE  Max(S) = m
<1>1. Max(S) \in S /\ m <= Max(S)
  BY MaxOfEpochs
<1>2. m \in Nat /\ Max(S) \in Nat
  BY <1>1, IdsAreNumbers
<1>3. QED
  BY <1>1, <1>2

-----------------------------------------------------------------------------
(***************************************************************************)
(* The event store.                                                        *)
(***************************************************************************)
Kind == {"Root", "Trigger", "Checkpoint", "Content", "Merge"}
Author == {"self", "other"}

Event ==
  [author : Author, kind : Kind, past : SUBSET Id, label : Epoch, key : Epoch,
   carries : SUBSET Id]

(* Pasts are closed and older; a trigger comes with its checkpoint.        *)
Graph(E) ==
  /\ E \in [DOMAIN E -> Event]
  /\ DOMAIN E \subseteq Id /\ DOMAIN E # {}
  /\ \A x \in DOMAIN E : E[x].past \subseteq DOMAIN E
  /\ \A x \in DOMAIN E : \A y \in E[x].past : y < x /\ E[y].past \subseteq E[x].past
  /\ \A x \in DOMAIN E : E[x].kind = "Trigger" =>
       \E c \in DOMAIN E : E[c].kind = "Checkpoint" /\ E[c].label = x

(* Of two rotations one has seen the other. *)
Ordered(E) ==
  \A x, y \in Rotations(E) : x \in Ancestors(E, y) \/ y \in Ancestors(E, x)

(* What a step may add: an event that knows every rotation, *)
Grafts(E, e) ==
  /\ e \in Event
  /\ e.kind \in {"Content", "Merge"} /\ e.carries = {}
  /\ e.past \subseteq DOMAIN E /\ Rotations(E) \subseteq e.past
  /\ \A y \in e.past : E[y].past \subseteq e.past

(* or a rotation that knows every event. *)
Pairable(p) ==
  /\ p.author \in Author /\ p.past \in SUBSET Id
  /\ p.trigger \in Id /\ p.checkpoint \in Id /\ p.checkpoint = p.trigger + 1
  /\ p.previousEpoch \in Epoch /\ p.carries \in SUBSET Id

Rotates(E, p) ==
  /\ Pairable(p)
  /\ p.past = DOMAIN E
  /\ p.trigger \notin DOMAIN E /\ p.checkpoint \notin DOMAIN E
  /\ \A y \in p.past : y < p.trigger

WithPair(E, p) == Put(Put(E, p.trigger, PairOf(p)[1]), p.checkpoint, PairOf(p)[2])

(* The two events of a rotation. *)
LEMMA PairFacts ==
  ASSUME NEW p, Pairable(p)
  PROVE  /\ PairOf(p)[1] \in Event /\ PairOf(p)[2] \in Event
         /\ PairOf(p)[1].kind = "Trigger" /\ PairOf(p)[2].kind = "Checkpoint"
         /\ PairOf(p)[1].past = p.past /\ PairOf(p)[2].past = p.past \cup {p.trigger}
         /\ PairOf(p)[1].carries = {} /\ PairOf(p)[2].carries = p.carries
         /\ PairOf(p)[1].key = p.trigger /\ PairOf(p)[2].key = p.trigger
         /\ PairOf(p)[2].label = p.trigger
<1>1. p.trigger \in Epoch
  BY DEF Pairable, Epoch
<1>2. QED
  BY <1>1 DEF PairOf, Created, Event, Kind, Pairable

(* Appending a rotation adds its trigger and its checkpoint, and changes *)
(* no event that was there.                                              *)
LEMMA WithPairFacts ==
  ASSUME NEW E, NEW p, Pairable(p)
  PROVE  /\ DOMAIN WithPair(E, p) = DOMAIN E \cup {p.trigger, p.checkpoint}
         /\ WithPair(E, p)[p.trigger] = PairOf(p)[1]
         /\ WithPair(E, p)[p.checkpoint] = PairOf(p)[2]
         /\ \A y \in DOMAIN E \ {p.trigger, p.checkpoint} : WithPair(E, p)[y] = E[y]
         /\ E \in [DOMAIN E -> Event] =>
              WithPair(E, p) \in [DOMAIN WithPair(E, p) -> Event]
<1> DEFINE G == Put(E, p.trigger, PairOf(p)[1])
<1>0. p.trigger # p.checkpoint
  BY IdsAreNumbers DEF Pairable
<1> HIDE DEF G
<1>1. /\ DOMAIN G = DOMAIN E \cup {p.trigger}
      /\ G[p.trigger] = PairOf(p)[1]
      /\ \A y \in DOMAIN E \ {p.trigger} : G[y] = E[y]
      /\ E \in [DOMAIN E -> Event] => G \in [DOMAIN G -> Event]
  BY PairFacts DEF G, Put
<1> DEFINE H == WithPair(E, p)
<1>2. H = Put(G, p.checkpoint, PairOf(p)[2])
  BY DEF WithPair, G
<1> HIDE DEF H
<1>3. /\ DOMAIN H = DOMAIN G \cup {p.checkpoint}
      /\ H[p.checkpoint] = PairOf(p)[2]
      /\ \A y \in DOMAIN G \ {p.checkpoint} : H[y] = G[y]
      /\ G \in [DOMAIN G -> Event] => H \in [DOMAIN H -> Event]
  BY <1>2, PairFacts DEF Put
<1>4. DOMAIN H = DOMAIN E \cup {p.trigger, p.checkpoint}
  BY <1>1, <1>3
<1>5. QED
  BY <1>0, <1>1, <1>3, <1>4 DEF H

(* An added event leaves a graph, and rotations in order. *)
LEMMA GraftedIsGraph ==
  ASSUME NEW E, Graph(E), Ordered(E), NEW x \in Id, x \notin DOMAIN E, NEW e, Grafts(E, e),
         \A y \in DOMAIN E : y < x
  PROVE  Graph(Put(E, x, e)) /\ Ordered(Put(E, x, e))
<1> DEFINE G == Put(E, x, e)
<1>1. /\ DOMAIN G = DOMAIN E \cup {x} /\ G[x] = e
      /\ \A y \in DOMAIN E : G[y] = E[y]
      /\ G \in [DOMAIN G -> Event]
  BY DEF Put, Graph, Grafts
<1> HIDE DEF G
<1>2. /\ DOMAIN G \subseteq Id /\ DOMAIN G # {}
      /\ \A y \in DOMAIN G : G[y].past \subseteq DOMAIN G
  BY <1>1 DEF Graph, Grafts
<1>3. ASSUME NEW z \in DOMAIN G, NEW y \in G[z].past
      PROVE  y < z /\ G[y].past \subseteq G[z].past
  BY <1>1, <1>3 DEF Graph, Grafts
<1>4. ASSUME NEW z \in DOMAIN G, G[z].kind = "Trigger"
      PROVE  \E c \in DOMAIN G : G[c].kind = "Checkpoint" /\ G[c].label = z
  BY <1>1, <1>4 DEF Graph, Grafts
<1>5. Graph(G)
  BY <1>1, <1>2, <1>3, <1>4 DEF Graph
<1>6. Ordered(G)
  <2>1. ASSUME NEW z \in Rotations(G)
        PROVE  z \in Rotations(E) /\ Ancestors(G, z) = Ancestors(E, z)
    <3>1. z \in DOMAIN E
      BY <1>1, <2>1 DEF Rotations, Grafts
    <3>2. QED
      BY <1>1, <2>1, <3>1 DEF Rotations, Ancestors
  <2>2. QED
    BY <2>1 DEF Ordered
<1>7. QED
  BY <1>5, <1>6 DEF G

(* So does a rotation on top of all. *)
LEMMA RotatedIsGraph ==
  ASSUME NEW E, Graph(E), Ordered(E), NEW p, Rotates(E, p)
  PROVE  Graph(WithPair(E, p)) /\ Ordered(WithPair(E, p))
<1> DEFINE G == WithPair(E, p)
           t == p.trigger
           c == p.checkpoint
<1>0. Pairable(p) /\ t \in Id /\ c \in Id /\ c = t + 1 /\ t < c /\ c # t
  BY IdsAreNumbers DEF Rotates, Pairable
<1>1. /\ DOMAIN G = DOMAIN E \cup {t, c}
      /\ \A y \in DOMAIN E : G[y] = E[y]
      /\ G[t].past = DOMAIN E /\ G[t].kind = "Trigger"
      /\ G[c].past = DOMAIN E \cup {t} /\ G[c].kind = "Checkpoint" /\ G[c].label = t
      /\ G \in [DOMAIN G -> Event]
  <2>1. E \in [DOMAIN E -> Event] /\ p.past = DOMAIN E /\ t \notin DOMAIN E /\ c \notin DOMAIN E
    BY DEF Graph, Rotates
  <2>2. /\ DOMAIN G = DOMAIN E \cup {t, c}
        /\ G[t] = PairOf(p)[1] /\ G[c] = PairOf(p)[2]
        /\ \A y \in DOMAIN E \ {t, c} : G[y] = E[y]
        /\ G \in [DOMAIN G -> Event]
    BY <1>0, <2>1, WithPairFacts
  <2>3. /\ PairOf(p)[1].kind = "Trigger" /\ PairOf(p)[2].kind = "Checkpoint"
        /\ PairOf(p)[1].past = p.past /\ PairOf(p)[2].past = p.past \cup {t}
        /\ PairOf(p)[2].label = t
    BY <1>0, PairFacts
  <2> HIDE DEF G
  <2>4. QED
    BY <2>1, <2>2, <2>3
<1>2. t \notin DOMAIN E /\ c \notin DOMAIN E /\ \A y \in DOMAIN E : y < t /\ y \in Id
  BY DEF Rotates, Graph
<1> HIDE DEF G, t, c
<1>3. /\ DOMAIN G \subseteq Id /\ DOMAIN G # {}
      /\ \A y \in DOMAIN G : G[y].past \subseteq DOMAIN G
  BY <1>0, <1>1 DEF Graph
<1>4. ASSUME NEW z \in DOMAIN G, NEW y \in G[z].past
      PROVE  y < z /\ G[y].past \subseteq G[z].past
  <2>1. CASE z \in DOMAIN E
    BY <1>1, <1>4, <2>1 DEF Graph
  <2>2. CASE z = t
    BY <1>1, <1>2, <1>4, <2>2 DEF Graph
  <2>3. CASE z = c
    <3>1. CASE y = t
      BY <1>0, <1>1, <2>3, <3>1
    <3>2. CASE y \in DOMAIN E
      <4>1. y < t /\ y \in Nat /\ t \in Nat
        BY <1>0, <1>2, <3>2, IdsAreNumbers
      <4>2. y < c
        BY <1>0, <4>1
      <4>3. QED
        BY <1>1, <2>3, <3>2, <4>2 DEF Graph
    <3>3. QED
      BY <1>1, <1>4, <2>3, <3>1, <3>2
  <2>4. QED
    BY <1>1, <2>1, <2>2, <2>3
<1>5. ASSUME NEW z \in DOMAIN G, G[z].kind = "Trigger"
      PROVE  \E k \in DOMAIN G : G[k].kind = "Checkpoint" /\ G[k].label = z
  <2>1. CASE z \in DOMAIN E
    BY <1>1, <1>5, <2>1 DEF Graph
  <2>2. CASE z = t
    BY <1>1, <2>2
  <2>3. CASE z = c
    BY <1>1, <1>5, <2>3
  <2>4. QED
    BY <1>1, <2>1, <2>2, <2>3
<1>6. Graph(G)
  BY <1>1, <1>3, <1>4, <1>5 DEF Graph
<1>7. Ordered(G)
  <2>1. \A z : z \in Rotations(G) <=> z \in Rotations(E) \/ z \in {t, c}
    BY <1>1, <1>2 DEF Rotations
  <2>2. \A z \in Rotations(E) : z \in DOMAIN E /\ Ancestors(G, z) = Ancestors(E, z)
    BY <1>1 DEF Rotations, Ancestors
  <2>3. Ancestors(G, t) = DOMAIN E \cup {t} /\ Ancestors(G, c) = DOMAIN E \cup {t, c}
    BY <1>1 DEF Ancestors
  <2>4. QED
    BY <2>1, <2>2, <2>3 DEF Ordered
<1>8. QED
  BY <1>6, <1>7 DEF G

(* A single head has seen every event. *)
LEMMA OneHeadKnowsAll ==
  ASSUME NEW E, Graph(E), NEW h, HeadsOf(E) = {h}
  PROVE  h \in DOMAIN E /\ DOMAIN E = Ancestors(E, h)
<1>1. h \in DOMAIN E
  BY DEF HeadsOf
<1>2. ASSUME NEW x \in DOMAIN E
      PROVE  x \in Ancestors(E, h)
  <2> DEFINE D == {y \in DOMAIN E : x \in Ancestors(E, y)}
  <2>1. x \in D
    BY DEF Ancestors
  <2>2. D \in SUBSET Epoch
    BY DEF Graph, Epoch
  <2>3. PICK m \in D : \A y \in D : y <= m
    BY <2>1, <2>2, MaxOfEpochs
  <2>4. \A y \in DOMAIN E : m \notin E[y].past
    <3>1. SUFFICES ASSUME NEW y \in DOMAIN E, m \in E[y].past PROVE FALSE
      OBVIOUS
    <3>2. m < y /\ E[m].past \subseteq E[y].past
      BY <3>1 DEF Graph
    <3>3. x \in Ancestors(E, m)
      BY <2>3
    <3>4. y \in D
      BY <3>1, <3>2, <3>3 DEF Ancestors
    <3>5. y <= m /\ y \in Nat /\ m \in Nat
      BY <2>3, <3>1, <3>4, IdsAreNumbers DEF Graph
    <3>6. QED
      BY <3>2, <3>5
  <2>5. m = h
    BY <2>3, <2>4 DEF HeadsOf
  <2>6. QED
    BY <2>3, <2>5
<1>3. Ancestors(E, h) \subseteq DOMAIN E
  BY <1>1 DEF Graph, Ancestors
<1>4. QED
  BY <1>1, <1>2, <1>3

(* What is written on top of all is the only head. *)
LEMMA TopIsHead ==
  ASSUME NEW E, Graph(E), NEW x, x \notin DOMAIN E, NEW e, e.past = DOMAIN E
  PROVE  HeadsOf(Put(E, x, e)) = {x}
<1> DEFINE G == Put(E, x, e)
<1>1. /\ DOMAIN G = DOMAIN E \cup {x} /\ G[x].past = DOMAIN E
      /\ \A y \in DOMAIN E : G[y].past \subseteq DOMAIN E
  BY DEF Put, Graph
<1> HIDE DEF G
<1>2. HeadsOf(G) = {x}
  BY <1>1 DEF HeadsOf
<1>3. QED
  BY <1>2 DEF G

(* After a rotation signed on top of the whole store its checkpoint is *)
(* the only head (replacement_event_drafts).                           *)
LEMMA PairIsHead ==
  ASSUME NEW E, Graph(E), NEW p, Rotates(E, p)
  PROVE  HeadsOf(WithPair(E, p)) = {p.checkpoint}
<1> DEFINE G == WithPair(E, p)
           t == p.trigger
           c == p.checkpoint
<1>0. Pairable(p) /\ c # t /\ t \notin DOMAIN E /\ c \notin DOMAIN E /\ p.past = DOMAIN E
  BY IdsAreNumbers DEF Rotates, Pairable
<1>1. /\ DOMAIN G = DOMAIN E \cup {t, c}
      /\ \A y \in DOMAIN E \ {t, c} : G[y] = E[y]
      /\ G[t] = PairOf(p)[1] /\ G[c] = PairOf(p)[2]
  BY <1>0, WithPairFacts
<1>2. PairOf(p)[1].past = DOMAIN E /\ PairOf(p)[2].past = DOMAIN E \cup {t}
  BY <1>0, PairFacts
<1> HIDE DEF G, t, c
<1>3. \A y \in DOMAIN E : G[y].past \subseteq DOMAIN E
  BY <1>0, <1>1 DEF Graph
<1>4. HeadsOf(G) = {c}
  BY <1>0, <1>1, <1>2, <1>3 DEF HeadsOf
<1>5. QED
  BY <1>4 DEF G, c

(* The part of a graph that an event knows, rotations included. *)
Known(E, S) == [x \in S |-> E[x]]

(* A downward closed part of a store that holds all its rotations is a *)
(* store itself: what a device that writes elsewhere may know.         *)
LEMMA KnownIsGraph ==
  ASSUME NEW E, Graph(E), NEW S \in SUBSET DOMAIN E, S # {}, Rotations(E) \subseteq S,
         \A x \in S : E[x].past \subseteq S
  PROVE  Graph(Known(E, S))
<1> DEFINE K == Known(E, S)
<1>1. DOMAIN K = S /\ \A x \in S : K[x] = E[x]
  BY DEF Known
<1>2. K \in [DOMAIN K -> Event]
  BY DEF Known, Graph
<1> HIDE DEF K
<1>3. ASSUME NEW x \in DOMAIN K, K[x].kind = "Trigger"
      PROVE  \E c \in DOMAIN K : K[c].kind = "Checkpoint" /\ K[c].label = x
  <2>1. PICK c \in DOMAIN E : E[c].kind = "Checkpoint" /\ E[c].label = x
    BY <1>1, <1>3 DEF Graph
  <2>2. c \in S
    BY <2>1 DEF Rotations
  <2>3. QED
    BY <1>1, <2>1, <2>2
<1>4. QED
  BY <1>1, <1>2, <1>3 DEF Graph, K

-----------------------------------------------------------------------------
(***************************************************************************)
(* What a graph projects.                                                  *)
(***************************************************************************)
Contents(E) == {x \in DOMAIN E : E[x].kind = "Content"}
Records == UNION {[S -> Epoch] : S \in SUBSET Id}

(* What a projection of a store computes: an epoch, a key, and a key for *)
(* every record of the store.                                            *)
LEMMA ProjectionIsTyped ==
  ASSUME NEW E, Graph(E)
  PROVE  /\ Max(DOMAIN E) \in DOMAIN E /\ \A y \in DOMAIN E : y <= Max(DOMAIN E)
         /\ ProjectedEpoch(E) \in Epoch /\ CurrentKey(E) \in Epoch
         /\ RecordKeys(E) \in Records /\ DOMAIN RecordKeys(E) = Contents(E)
<1>1. /\ DOMAIN E \in SUBSET Epoch /\ DOMAIN E # {} /\ DOMAIN E \subseteq Id
      /\ \A x \in DOMAIN E : E[x] \in Event
  BY DEF Graph, Epoch
<1>2. Max(DOMAIN E) \in DOMAIN E /\ \A y \in DOMAIN E : y <= Max(DOMAIN E)
  BY <1>1, MaxOfEpochs
<1>3. ProjectedEpoch(E) \in Epoch
  BY <1>1, <1>2 DEF ProjectedEpoch, Event
<1>4. CurrentKey(E) \in Epoch
  <2> DEFINE C == {InitialEpoch} \cup {E[x].key : x \in {y \in DOMAIN E : E[y].kind = "Checkpoint"}}
  <2>1. C \in SUBSET Epoch /\ C # {}
    BY <1>1 DEF Event, Epoch
  <2> HIDE DEF C
  <2>2. Max(C) \in Epoch
    BY <2>1, MaxOfEpochs
  <2>3. QED
    BY <2>2 DEF CurrentKey, C
<1>5. ASSUME NEW c \in Contents(E)
      PROVE  E[Max({c} \cup {x \in DOMAIN E : c \in E[x].carries})].key \in Epoch
  <2> DEFINE C == {c} \cup {x \in DOMAIN E : c \in E[x].carries}
  <2>1. C \in SUBSET Epoch /\ C # {} /\ C \subseteq DOMAIN E
    BY <1>1 DEF Contents
  <2> HIDE DEF C
  <2>2. Max(C) \in DOMAIN E
    BY <2>1, MaxOfEpochs
  <2>3. E[Max(C)].key \in Epoch
    BY <1>1, <2>2 DEF Event
  <2>4. QED
    BY <2>3 DEF C
<1>6. RecordKeys(E) = [c \in Contents(E) |->
        E[Max({c} \cup {x \in DOMAIN E : c \in E[x].carries})].key]
  BY DEF RecordKeys, Contents
<1>7. RecordKeys(E) \in [Contents(E) -> Epoch] /\ Contents(E) \in SUBSET Id
  BY <1>1, <1>5, <1>6 DEF Contents
<1>8. RecordKeys(E) \in Records /\ DOMAIN RecordKeys(E) = Contents(E)
  BY <1>7 DEF Records
<1>9. QED
  BY <1>2, <1>3, <1>4, <1>8

-----------------------------------------------------------------------------
(***************************************************************************)
(* The invariant, for any number of tabs.                                  *)
(***************************************************************************)
Pc == {"closed", "idle", "connecting", "mark", "append", "abort", "load", "epoch",
       "checkpoint", "observe", "resolve", "persist", "clear"}

Plan ==
  [author : Author, trigger : Id, checkpoint : Id, past : SUBSET Id, parents : SUBSET Id,
   previousEpoch : Epoch, carries : SUBSET Id]

Projected == [epoch : Epoch, key : Epoch]
Observed == [epoch : Epoch, head : Id, ancestors : SUBSET Id]

Update ==
  [how : {"Rotate"}, previous : Epoch, epoch : Epoch, checkpoint : Id, ancestors : SUBSET Id]
  \cup [how : {"Observe"}, epoch : Epoch, checkpoint : Id, ancestors : SUBSET Id]

Prepared == [stage : {"Prepared"}, plan : Plan]
EpochCommitted == [stage : {"EpochCommitted"}, plan : Plan, epoch : Epoch]
Committed == [stage : {"Committed"}, epoch : Epoch, checkpoint : Id, previousEpoch : Epoch]

Memory ==
  [pc : Pc, epoch : Epoch, key : Epoch, records : Records, resumes : BOOLEAN,
   plan : Plan \cup {NoPlan}, loaded : Projected \cup {Nothing},
   seen : Observed \cup {Nothing}, update : Update \cup {Nothing},
   consumes : Committed \cup {NoMarker}]

TypeInv ==
  /\ session \in [Tab -> Memory]
  /\ marker \in {NoMarker} \cup Prepared \cup EpochCommitted \cup Committed
  /\ identity \in [epoch : Epoch, checkpoint : Id]
  /\ drawn \in Nat

StoreInv ==
  /\ Graph(events) /\ Ordered(events)
  /\ DOMAIN events \subseteq 1..drawn
  /\ identity.checkpoint \in DOMAIN events

(* After the last id within the bound at most one more is drawn, for a     *)
(* merge, which leaves a single head.                                      *)
RoomInv ==
  \/ drawn <= MaxEvents
  \/ drawn = MaxEvents + 1 /\ \E h \in Id : HeadsOf(events) = {h}

(* A plan was drawn up on all the events that its parent knows, and its    *)
(* pair is in the store as planned or not at all.                          *)
Planned(p) ==
  /\ p.checkpoint = p.trigger + 1 /\ p.checkpoint <= drawn
  /\ \E h \in DOMAIN events : p.parents = {h} /\ p.past = Ancestors(events, h)
  /\ \A y \in p.past : y < p.trigger
  /\ \/ /\ p.trigger \in DOMAIN events /\ p.checkpoint \in DOMAIN events
        /\ events[p.trigger] = PairOf(p)[1] /\ events[p.checkpoint] = PairOf(p)[2]
     \/ p.trigger \notin DOMAIN events /\ p.checkpoint \notin DOMAIN events

Announced == marker.stage \in {"Prepared", "EpochCommitted"}

Plans ==
  ({session[t].plan : t \in Tab} \ {NoPlan}) \cup {p \in {marker.plan} : Announced}

PlanInv ==
  /\ \A p \in Plans : Planned(p)
  /\ \A p, q \in Plans : p.trigger # q.checkpoint /\ (p.trigger = q.trigger => p = q)

SessionInv ==
  \A t \in Tab :
    /\ session[t].pc \in {"mark", "append", "abort", "load", "epoch", "checkpoint"} =>
         session[t].plan # NoPlan
    /\ session[t].pc \in {"epoch", "checkpoint"} => session[t].loaded # Nothing
    /\ session[t].pc = "resolve" =>
         /\ session[t].seen # Nothing
         /\ session[t].seen.head \in DOMAIN events
         /\ session[t].seen.ancestors = Ancestors(events, session[t].seen.head)
    /\ session[t].pc = "persist" =>
         /\ session[t].update # Nothing
         /\ session[t].update.checkpoint \in DOMAIN events
         /\ session[t].update.ancestors = Ancestors(events, session[t].update.checkpoint)

Inv == TypeInv /\ StoreInv /\ RoomInv /\ PlanInv /\ SessionInv

-----------------------------------------------------------------------------
(***************************************************************************)
(* Types.                                                                  *)
(***************************************************************************)

(* What a tab and the marker hold, as far as the step at hand tells. *)
LEMMA TabFields ==
  ASSUME TypeInv, SessionInv, NEW t \in Tab
  PROVE  /\ session[t] \in Memory
         /\ session[t].pc \in {"mark", "append", "abort", "load", "epoch", "checkpoint"} =>
              session[t].plan \in Plan
         /\ session[t].pc \in {"epoch", "checkpoint"} => session[t].loaded \in Projected
         /\ session[t].pc = "resolve" => session[t].seen \in Observed
         /\ session[t].pc = "persist" => session[t].update \in Update
<1>1. session[t] \in Memory
  BY DEF TypeInv
<1>2. QED
  BY <1>1 DEF Memory, SessionInv

(* The stage of the marker tells its form, and an announced rotation *)
(* carries its plan.                                                 *)
LEMMA MarkerFields ==
  ASSUME TypeInv
  PROVE  /\ marker.stage = "None" => marker = NoMarker
         /\ marker.stage = "Prepared" => marker \in Prepared
         /\ marker.stage = "EpochCommitted" => marker \in EpochCommitted
         /\ marker.stage = "Committed" => marker \in Committed
         /\ marker.stage \in {"None", "Prepared", "EpochCommitted", "Committed"}
         /\ Announced => marker.plan \in Plan
BY DEF TypeInv, Prepared, EpochCommitted, Committed, NoMarker, Announced

(* A plan that a tab or the marker holds is a pair of consecutive ids. *)
LEMMA PlansAreTyped ==
  ASSUME TypeInv, NEW p \in Plans
  PROVE  p \in Plan /\ (PlanInv => Pairable(p))
<1>1. p \in Plan
  <2>1. \A t \in Tab : session[t].plan \in Plan \cup {NoPlan}
    BY DEF TypeInv, Memory
  <2>2. CASE p \in {session[t].plan : t \in Tab} \ {NoPlan}
    BY <2>1, <2>2
  <2>3. CASE p = marker.plan /\ Announced
    BY <2>3, MarkerFields
  <2>4. QED
    BY <2>2, <2>3 DEF Plans
<1>2. PlanInv => Pairable(p)
  BY <1>1 DEF PlanInv, Planned, Pairable, Plan
<1>3. QED
  BY <1>1, <1>2

(* Every way in which a step changes the memory of a tab. *)
LEMMA MemoryUpdates ==
  ASSUME NEW m \in Memory
  PROVE  /\ Closed \in Memory
         /\ \A pc \in Pc : [m EXCEPT !.pc = pc] \in Memory
         /\ \A r \in Records : [m EXCEPT !.records = r] \in Memory
         /\ \A e \in Epoch, k \in Epoch, r \in Records :
              [m EXCEPT !.epoch = e, !.key = k, !.records = r] \in Memory
         /\ \A pc \in Pc, e \in Epoch, k \in Epoch, r \in Records :
              /\ [m EXCEPT !.pc = pc, !.epoch = e, !.key = k, !.records = r] \in Memory
              /\ [Closed EXCEPT !.pc = pc, !.epoch = e, !.key = k, !.records = r] \in Memory
         /\ \A pc \in Pc, p \in Plan \cup {NoPlan} :
              /\ [m EXCEPT !.pc = pc, !.plan = p] \in Memory
              /\ [m EXCEPT !.pc = pc, !.plan = p, !.resumes = TRUE] \in Memory
         /\ \A pc \in Pc, l \in Projected : [m EXCEPT !.pc = pc, !.loaded = l] \in Memory
         /\ \A pc \in Pc, s \in Observed : [m EXCEPT !.pc = pc, !.seen = s] \in Memory
         /\ \A pc \in Pc, u \in Update, c \in Committed \cup {NoMarker} :
              [m EXCEPT !.pc = pc, !.update = u, !.consumes = c] \in Memory
<1>1. Closed \in Memory
  <2>1. [c \in {} |-> InitialEpoch] \in Records
    <3>1. {} \in SUBSET Id /\ [c \in {} |-> InitialEpoch] \in [{} -> Epoch]
      OBVIOUS
    <3>2. QED
      BY <3>1 DEF Records
  <2>2. InitialEpoch \in Epoch
    BY DEF Epoch
  <2>3. QED
    BY <2>1, <2>2 DEF Closed, Memory, Pc
<1>2. \A pc \in Pc : [m EXCEPT !.pc = pc] \in Memory
  BY DEF Memory
<1>3. \A r \in Records : [m EXCEPT !.records = r] \in Memory
  BY DEF Memory
<1>4. \A e \in Epoch, k \in Epoch, r \in Records :
        [m EXCEPT !.epoch = e, !.key = k, !.records = r] \in Memory
  BY DEF Memory
<1>5. \A pc \in Pc, e \in Epoch, k \in Epoch, r \in Records :
        [m EXCEPT !.pc = pc, !.epoch = e, !.key = k, !.records = r] \in Memory
  BY DEF Memory
<1>6. \A pc \in Pc, e \in Epoch, k \in Epoch, r \in Records :
        [Closed EXCEPT !.pc = pc, !.epoch = e, !.key = k, !.records = r] \in Memory
  BY <1>1 DEF Memory
<1>7. \A pc \in Pc, p \in Plan \cup {NoPlan} :
        /\ [m EXCEPT !.pc = pc, !.plan = p] \in Memory
        /\ [m EXCEPT !.pc = pc, !.plan = p, !.resumes = TRUE] \in Memory
  BY DEF Memory
<1>8. \A pc \in Pc, l \in Projected : [m EXCEPT !.pc = pc, !.loaded = l] \in Memory
  BY DEF Memory
<1>9. \A pc \in Pc, s \in Observed : [m EXCEPT !.pc = pc, !.seen = s] \in Memory
  BY DEF Memory
<1>10. \A pc \in Pc, u \in Update, c \in Committed \cup {NoMarker} :
         [m EXCEPT !.pc = pc, !.update = u, !.consumes = c] \in Memory
  BY DEF Memory
<1>11. QED
  BY <1>1, <1>2, <1>3, <1>4, <1>5, <1>6, <1>7, <1>8, <1>9, <1>10

-----------------------------------------------------------------------------
(***************************************************************************)
(* What a step does to the event store.                                    *)
(***************************************************************************)
Grafted ==
  \E e : /\ Grafts(events, e)
         /\ events' = Put(events, drawn + 1, e)
         /\ drawn' = drawn + 1 /\ drawn + 1 \in Id

Rotated ==
  \E p : /\ Rotates(events, p)
         /\ events' = WithPair(events, p)
         /\ p.checkpoint <= drawn'

StoreStep ==
  /\ drawn' \in Nat /\ drawn <= drawn'
  /\ events' = events \/ Grafted \/ Rotated

(* The next ids are numbers within the bound that no event has. *)
LEMMA NextIds ==
  ASSUME TypeInv, StoreInv
  PROVE  /\ drawn \in Nat
         /\ drawn <= MaxEvents => drawn + 1 \in Id
         /\ drawn + 2 <= MaxEvents => drawn + 1 \in Id /\ drawn + 2 \in Id
         /\ drawn + 1 \notin DOMAIN events /\ drawn + 2 \notin DOMAIN events
         /\ \A y \in DOMAIN events : y \in Nat /\ y <= drawn /\ y < drawn + 1
BY EventsAssumption DEF TypeInv, StoreInv, Id

(* Heads are dominated by nobody, one of them may be the only one. *)
LEMMA CountingHeads ==
  ASSUME TypeInv, StoreInv
  PROVE  /\ IsFiniteSet(DOMAIN events) /\ IsFiniteSet(HeadsOf(events))
         /\ \A h : HeadsOf(events) = {h} => Cardinality(HeadsOf(events)) = 1
         /\ Cardinality(HeadsOf(events)) = 1 => \E h \in Id : HeadsOf(events) = {h}
<1>1. IsFiniteSet(DOMAIN events)
  <2>1. drawn \in Int /\ 1 \in Int
    BY DEF TypeInv
  <2>2. IsFiniteSet(1..drawn)
    BY <2>1, FS_Interval
  <2>3. QED
    BY <2>2, FS_Subset DEF StoreInv
<1>2. HeadsOf(events) \subseteq DOMAIN events
  BY DEF HeadsOf
<1>3. IsFiniteSet(HeadsOf(events))
  BY <1>1, <1>2, FS_Subset
<1>4. \A h : HeadsOf(events) = {h} => Cardinality(HeadsOf(events)) = 1
  BY FS_Singleton
<1>5. Cardinality(HeadsOf(events)) = 1 => \E h \in Id : HeadsOf(events) = {h}
  BY <1>2, <1>3, FS_Singleton DEF StoreInv, Graph
<1>6. QED
  BY <1>1, <1>3, <1>4, <1>5

(* A step that appends an event of this device. *)
LEMMA AppendIsGraft ==
  ASSUME Inv, NEW t \in Tab, NEW kind \in {"Content", "Merge"}, AppendEvent(t, kind),
         drawn <= MaxEvents
  PROVE  StoreStep /\ Grafted
<1> DEFINE e == Created("self", kind, DOMAIN events, session[t].epoch, session[t].key, {})
<1>1. session[t].epoch \in Epoch /\ session[t].key \in Epoch
  BY DEF Inv, TypeInv, Memory
<1>2. Grafts(events, e)
  BY <1>1 DEF Inv, StoreInv, Graph, Grafts, Created, Event, Kind, Author, Rotations
<1> HIDE DEF e
<1>3. drawn \in Nat /\ drawn + 1 \in Id
  BY NextIds DEF Inv
<1>4. drawn' = drawn + 1 /\ events' = Put(events, drawn + 1, e)
  BY DEF AppendEvent, e
<1>5. Grafted
  BY <1>2, <1>3, <1>4 DEF Grafted
<1>6. QED
  BY <1>3, <1>4, <1>5 DEF StoreStep

(* Several heads are there to be merged only within the bound. *)
LEMMA MergeHasRoom ==
  ASSUME Inv, NEW t \in Tab, MergeHeads(t)
  PROVE  drawn <= MaxEvents
<1>1. Cardinality(HeadsOf(events)) # 1
  BY DEF MergeHeads
<1>2. \A h : HeadsOf(events) # {h}
  BY <1>1, CountingHeads DEF Inv
<1>3. QED
  BY <1>2 DEF Inv, RoomInv

(* A step that brings an event of another member. *)
LEMMA SyncIsGraft ==
  ASSUME Inv, NEW t \in Tab, NEW past \in SUBSET DOMAIN events, SyncContent(t, past)
  PROVE  StoreStep /\ Grafted
<1> DEFINE E == Known(events, past)
           e == Created("other", "Content", past, ProjectedEpoch(E), CurrentKey(E), {})
<1>1. Graph(E)
  BY KnownIsGraph DEF SyncContent, Inv, StoreInv
<1>2. ProjectedEpoch(E) \in Epoch /\ CurrentKey(E) \in Epoch
  BY <1>1, ProjectionIsTyped
<1>3. events' = Put(events, drawn + 1, e) /\ drawn' = drawn + 1 /\ drawn < MaxEvents
  BY DEF SyncContent, Known
<1> HIDE DEF E
<1>4. Grafts(events, e)
  BY <1>2 DEF Inv, StoreInv, Graph, Grafts, Created, Event, Kind, Author, SyncContent
<1> HIDE DEF e
<1>5. drawn \in Nat /\ drawn + 1 \in Id
  BY <1>3, NextIds, EventsAssumption DEF Inv
<1>6. Grafted
  BY <1>3, <1>4, <1>5 DEF Grafted
<1>7. QED
  BY <1>3, <1>5, <1>6 DEF StoreStep

(* A step that brings a rotation of another member. *)
LEMMA SyncIsRotation ==
  ASSUME Inv, NEW t \in Tab, SyncRotation(t)
  PROVE  /\ StoreStep /\ Rotated
         /\ \E p : /\ Rotates(events, p) /\ events' = WithPair(events, p)
                  /\ p.trigger = drawn + 1 /\ p.carries = Contents(events)
<1> DEFINE p == [author |-> "other",
                 trigger |-> drawn + 1, checkpoint |-> drawn + 2,
                 past |-> DOMAIN events,
                 previousEpoch |-> ProjectedEpoch(events),
                 carries |-> DOMAIN RecordKeys(events)]
<1>1. /\ ProjectedEpoch(events) \in Epoch
      /\ DOMAIN RecordKeys(events) \in SUBSET Id /\ DOMAIN events \in SUBSET Id
  BY ProjectionIsTyped DEF Inv, StoreInv, Contents, Graph
<1>2. /\ drawn \in Nat /\ drawn + 1 \in Id /\ drawn + 2 \in Id /\ drawn + 2 = (drawn + 1) + 1
      /\ drawn' = drawn + 2
      /\ drawn + 1 \notin DOMAIN events /\ drawn + 2 \notin DOMAIN events
      /\ \A y \in DOMAIN events : y < drawn + 1
  BY NextIds DEF Inv, SyncRotation
<1>3. Pairable(p)
  BY <1>1, <1>2 DEF Pairable, Author
<1>4. Rotates(events, p)
  BY <1>2, <1>3 DEF Rotates
<1>5. events' = WithPair(events, p)
  BY DEF SyncRotation, WithPair
<1>6. /\ p.checkpoint <= drawn'
      /\ p.trigger = drawn + 1 /\ p.carries = Contents(events)
  BY <1>2, ProjectionIsTyped DEF Inv, StoreInv
<1> HIDE DEF p
<1>7. Rotated
  BY <1>4, <1>5, <1>6 DEF Rotated
<1>8. QED
  BY <1>2, <1>4, <1>5, <1>6, <1>7 DEF StoreStep

(* A planned rotation is appended once, on the frontier of its plan. *)
LEMMA AppendPairInStore ==
  ASSUME Inv, NEW t \in Tab, AppendPair(t)
  PROVE  /\ StoreStep
         /\ \/ events' = events
            \/ Rotated /\ Rotates(events, session[t].plan) /\ events' = WithPair(events, session[t].plan)
<1> DEFINE p == session[t].plan
<1>1. p \in Plans /\ p \in Plan
  <2>1. p # NoPlan /\ p \in Plan
    BY TabFields DEF AppendPair, Inv, SessionInv
  <2>2. QED
    BY <2>1 DEF Plans
<1>2. Pairable(p) /\ Planned(p)
  BY <1>1, PlansAreTyped DEF Inv, PlanInv
<1>3. drawn \in Nat /\ drawn' = drawn
  BY DEF Inv, TypeInv, AppendPair
<1>4. \/ events' = events
      \/ events' = WithPair(events, p) /\ PairFits(events, p)
  BY DEF AppendPair, WithPair
<1> HIDE DEF p
<1>5. ASSUME events' = WithPair(events, p), p.trigger \in DOMAIN events
      PROVE  events' = events
  <2>0. /\ DOMAIN events' = DOMAIN events \cup {p.trigger, p.checkpoint}
        /\ events'[p.trigger] = PairOf(p)[1] /\ events'[p.checkpoint] = PairOf(p)[2]
        /\ \A x \in DOMAIN events \ {p.trigger, p.checkpoint} : events'[x] = events[x]
    BY <1>2, <1>5, WithPairFacts
  <2>5. /\ p.trigger \in DOMAIN events /\ p.checkpoint \in DOMAIN events
        /\ events[p.trigger] = PairOf(p)[1] /\ events[p.checkpoint] = PairOf(p)[2]
    BY <1>2, <1>5 DEF Planned
  <2>1. /\ DOMAIN events' = DOMAIN events
        /\ \A x \in DOMAIN events : events'[x] = events[x]
    BY <2>0, <2>5
  <2>2. events = [x \in DOMAIN events |-> events[x]]
    BY DEF Inv, StoreInv, Graph
  <2>3. events' = [x \in DOMAIN events' |-> events'[x]]
    BY <1>5 DEF WithPair, Put
  <2>4. QED
    BY <2>1, <2>2, <2>3
<1>6. ASSUME PairFits(events, p), p.trigger \notin DOMAIN events
      PROVE  Rotates(events, p)
  <2>1. PICK h \in DOMAIN events : p.parents = {h} /\ p.past = Ancestors(events, h)
    BY <1>2 DEF Planned
  <2>2. DOMAIN events = Ancestors(events, h)
    BY <1>6, <2>1, OneHeadKnowsAll DEF PairFits, Inv, StoreInv
  <2>3. QED
    BY <1>2, <1>6, <2>1, <2>2 DEF Rotates, Planned
<1>7. p.checkpoint <= drawn'
  BY <1>2, <1>3 DEF Planned
<1>8. events' = events \/ (Rotated /\ Rotates(events, p) /\ events' = WithPair(events, p))
  BY <1>4, <1>5, <1>6, <1>7 DEF Rotated
<1>9. QED
  BY <1>3, <1>8 DEF StoreStep, p

(* The steps that leave the event store alone. *)
Elsewhere(t) ==
  \/ SyncNothing(t) \/ Prepare(t) \/ Mark(t) \/ Abort(t) \/ LoadProjection(t)
  \/ CommitEpoch(t) \/ CommitCheckpoint(t) \/ Observe(t) \/ Resolve(t) \/ Persist(t)
  \/ ClearConsumed(t) \/ Crash(t) \/ Connect(t) \/ Resume(t)

(* A step that appends no event leaves the store, and draws no id or the *)
(* two of a plan.                                                        *)
LEMMA ElsewhereInStore ==
  ASSUME Inv, NEW t \in Tab, Elsewhere(t)
  PROVE  StoreStep /\ events' = events
<1>1. drawn \in Nat
  BY DEF Inv, TypeInv
<1>2. events' = events /\ (drawn' = drawn \/ drawn' = drawn + 2)
  BY DEF Elsewhere, SyncNothing, Prepare, Mark, Abort, LoadProjection, CommitEpoch,
     CommitCheckpoint, Observe, Resolve, Persist, ClearConsumed, Crash, Connect, Resume
<1>3. QED
  BY <1>1, <1>2 DEF StoreStep

(* A step is one of a tab. *)
LEMMA StepsOfTabs ==
  ASSUME Next
  PROVE  \E t \in Tab :
           \/ AddSecret(t) \/ MergeHeads(t) \/ SyncRotation(t) \/ AppendPair(t)
           \/ \E past \in SUBSET DOMAIN events : SyncContent(t, past)
           \/ Elsewhere(t)
BY DEF Next, Step, Elsewhere

(* Every step appends an event or a rotation, or leaves the store alone. *)
LEMMA StoreSteps ==
  ASSUME Inv, Next
  PROVE  StoreStep
<1>1. PICK t \in Tab :
        \/ AddSecret(t) \/ MergeHeads(t) \/ SyncRotation(t) \/ AppendPair(t)
        \/ \E past \in SUBSET DOMAIN events : SyncContent(t, past)
        \/ Elsewhere(t)
  BY StepsOfTabs
<1>2. CASE AddSecret(t)
  <2>1. drawn <= MaxEvents /\ AppendEvent(t, "Content")
    BY <1>2, EventsAssumption DEF AddSecret, Inv, TypeInv
  <2>2. QED
    BY <2>1, AppendIsGraft
<1>3. CASE MergeHeads(t)
  <2>1. drawn <= MaxEvents /\ AppendEvent(t, "Merge")
    BY <1>3, MergeHasRoom DEF MergeHeads
  <2>2. QED
    BY <2>1, AppendIsGraft
<1>4. CASE SyncRotation(t)
  BY <1>4, SyncIsRotation
<1>5. CASE AppendPair(t)
  BY <1>5, AppendPairInStore
<1>6. CASE \E past \in SUBSET DOMAIN events : SyncContent(t, past)
  BY <1>6, SyncIsGraft
<1>7. CASE Elsewhere(t)
  BY <1>7, ElsewhereInStore
<1>8. QED
  BY <1>1, <1>2, <1>3, <1>4, <1>5, <1>6, <1>7

(* The store only grows, and what is in it stays as it was written. *)
LEMMA StoreGrows ==
  ASSUME TypeInv, StoreInv, StoreStep
  PROVE  /\ Graph(events') /\ Ordered(events')
         /\ DOMAIN events' \subseteq 1..drawn'
         /\ \A x \in DOMAIN events : /\ x \in DOMAIN events' /\ events'[x] = events[x]
                                     /\ Ancestors(events', x) = Ancestors(events, x)
<1>0. /\ drawn \in Nat /\ drawn' \in Nat /\ drawn <= drawn'
      /\ \A x \in DOMAIN events : x \in Nat /\ 1 <= x /\ x <= drawn
  BY DEF StoreStep, TypeInv, StoreInv
<1>1. CASE events' = events
  BY <1>0, <1>1 DEF StoreInv, Ancestors
<1>2. CASE Grafted
  <2>1. PICK e : /\ Grafts(events, e)
                 /\ events' = Put(events, drawn + 1, e)
                 /\ drawn' = drawn + 1 /\ drawn + 1 \in Id
    BY <1>2 DEF Grafted
  <2>2. \A y \in DOMAIN events : y < drawn + 1
    BY <1>0
  <2>3. Graph(events') /\ Ordered(events')
    BY <1>0, <2>1, <2>2, GraftedIsGraph, NextIds DEF StoreInv
  <2>4. /\ DOMAIN events' = DOMAIN events \cup {drawn + 1}
        /\ \A x \in DOMAIN events : events'[x] = events[x]
    BY <1>0, <2>1, <2>2 DEF Put
  <2>5. DOMAIN events' \subseteq 1..drawn'
    BY <1>0, <2>1, <2>4
  <2>6. QED
    BY <2>3, <2>4, <2>5 DEF Ancestors
<1>3. CASE Rotated
  <2>1. PICK p : Rotates(events, p) /\ events' = WithPair(events, p) /\ p.checkpoint <= drawn'
    BY <1>3 DEF Rotated
  <2>2. Graph(events') /\ Ordered(events')
    BY <2>1, RotatedIsGraph DEF StoreInv
  <2>8. Pairable(p)
    BY <2>1 DEF Rotates
  <2>0. /\ DOMAIN events' = DOMAIN events \cup {p.trigger, p.checkpoint}
        /\ \A x \in DOMAIN events \ {p.trigger, p.checkpoint} : events'[x] = events[x]
    BY <2>1, <2>8, WithPairFacts
  <2>7. p.trigger \notin DOMAIN events /\ p.checkpoint \notin DOMAIN events
    BY <2>1 DEF Rotates
  <2>3. /\ DOMAIN events' = DOMAIN events \cup {p.trigger, p.checkpoint}
        /\ \A x \in DOMAIN events : events'[x] = events[x]
    BY <2>0, <2>7
  <2>4. p.trigger \in 1..drawn' /\ p.checkpoint \in 1..drawn'
    <3>1. p.trigger \in Nat /\ p.trigger > 0 /\ p.checkpoint = p.trigger + 1
      BY <2>1, IdsAreNumbers DEF Rotates, Pairable
    <3>2. QED
      BY <1>0, <2>1, <3>1
  <2>5. DOMAIN events' \subseteq 1..drawn'
    BY <1>0, <2>3, <2>4
  <2>6. QED
    BY <2>2, <2>3, <2>5 DEF Ancestors
<1>4. QED
  BY <1>1, <1>2, <1>3 DEF StoreStep

-----------------------------------------------------------------------------
(***************************************************************************)
(* Types are kept.                                                         *)
(***************************************************************************)

(* What the store of the next state projects is typed too. *)
LEMMA NextProjection ==
  ASSUME Inv, StoreStep
  PROVE  /\ ProjectedEpoch(events') \in Epoch /\ CurrentKey(events') \in Epoch
         /\ RecordKeys(events') \in Records
         /\ ProjectedEpoch(events) \in Epoch /\ CurrentKey(events) \in Epoch
         /\ RecordKeys(events) \in Records
<1>1. Graph(events) /\ Graph(events')
  BY StoreGrows DEF Inv, StoreInv
<1>2. QED
  BY <1>1, ProjectionIsTyped

(* What resolving comes to: the updates that the log or the marker names. *)
Options(seen) ==
  IF VerifiedPrevious(seen) = {} THEN {Observation(seen)}
    ELSE {Rotation(p, seen) : p \in VerifiedPrevious(seen)}

Persists(t, update, consumes) ==
  session' = [session EXCEPT
    ![t] = [session[t] EXCEPT !.pc = "persist", !.update = update, !.consumes = consumes]]

(* The three ends of reconciliation: it gives up, it takes a projected  *)
(* option where no marker is, or it takes the rotation that a committed *)
(* marker names (reconciliation.rs).                                    *)
LEMMA ResolveOutcomes ==
  ASSUME session \in [Tab -> Memory], NEW t \in Tab, Resolve(t)
  PROVE  \/ Reset(t)
         \/ /\ marker.stage = "None"
            /\ \E u \in Options(session[t].seen) : Persists(t, u, NoMarker)
         \/ /\ marker.stage = "Committed"
            /\ {marker.epoch, marker.checkpoint} \subseteq session[t].seen.ancestors
            /\ Persists(t, Rotation(marker.previousEpoch, session[t].seen), marker)
<1> DEFINE Takes(u, c) == session' = [session EXCEPT ![t].pc = "persist", ![t].update = u,
                                                     ![t].consumes = c]
           Consumes(u) == session' = [session EXCEPT ![t].pc = "persist",
                                        ![t].consumes = marker, ![t].update = u]
<1>1. \E s \in {session[t].seen} :
        \/ marker.stage = "None" /\ \E u \in Options(s) : Takes(u, NoMarker)
        \/ /\ marker.stage = "Committed"
           /\ {marker.epoch, marker.checkpoint} \subseteq s.ancestors
           /\ Consumes(Rotation(marker.previousEpoch, s))
        \/ /\ \/ marker.stage \in {"Prepared", "EpochCommitted"}
              \/ /\ marker.stage = "Committed"
                 /\ ~({marker.epoch, marker.checkpoint} \subseteq s.ancestors)
           /\ Reset(t)
  BY Zenon DEF Resolve, Options
<1>2. \A u, c : Takes(u, c) => Persists(t, u, c)
  BY DEF Persists
<1>3. \A u : Consumes(u) => Persists(t, u, marker)
  BY DEF Persists, Memory
<1> HIDE DEF Takes, Consumes
<1>4. QED
  BY <1>1, <1>2, <1>3

(* A step keeps the memory of every tab typed. *)
LEMMA SessionTyped ==
  ASSUME Inv, Next
  PROVE  session' \in [Tab -> Memory]
<1>0. StoreStep
  BY StoreSteps
<1>1. PICK t \in Tab :
        \/ AddSecret(t) \/ MergeHeads(t) \/ SyncRotation(t) \/ AppendPair(t)
        \/ \E past \in SUBSET DOMAIN events : SyncContent(t, past)
        \/ Elsewhere(t)
  BY StepsOfTabs
<1> DEFINE m == session[t]
<1>2. m \in Memory /\ session \in [Tab -> Memory]
  BY DEF Inv, TypeInv
<1> SUFFICES \E n \in Memory : session' = [session EXCEPT ![t] = n]
  BY <1>2
<1>3. CASE AddSecret(t) \/ MergeHeads(t)
  <2>1. session' = [session EXCEPT ![t] = [m EXCEPT !.records = RecordKeys(events')]]
    BY <1>3 DEF AddSecret, MergeHeads, AppendEvent
  <2>2. [m EXCEPT !.records = RecordKeys(events')] \in Memory
    BY <1>0, <1>2, NextProjection, MemoryUpdates
  <2>3. QED
    BY <2>1, <2>2
<1>4. CASE \/ SyncRotation(t) \/ SyncNothing(t)
           \/ \E past \in SUBSET DOMAIN events : SyncContent(t, past)
  <2>1. session' = [session EXCEPT
                      ![t] = [m EXCEPT !.epoch = ProjectedEpoch(events'),
                                       !.key = CurrentKey(events'),
                                       !.records = RecordKeys(events')]]
    BY <1>4 DEF SyncContent, SyncRotation, SyncNothing, Refreshed
  <2>2. [m EXCEPT !.epoch = ProjectedEpoch(events'), !.key = CurrentKey(events'),
                  !.records = RecordKeys(events')] \in Memory
    BY <1>0, <1>2, NextProjection, MemoryUpdates
  <2>3. QED
    BY <2>1, <2>2
<1>5. CASE Prepare(t)
  <2> DEFINE p == [author |-> "self",
                   trigger |-> drawn + 1, checkpoint |-> drawn + 2,
                   past |-> DOMAIN events, parents |-> HeadsOf(events),
                   previousEpoch |-> m.epoch, carries |-> DOMAIN m.records]
  <2>1. /\ drawn + 1 \in Id /\ drawn + 2 \in Id
        /\ DOMAIN events \in SUBSET Id /\ HeadsOf(events) \in SUBSET Id
    BY <1>5, NextIds DEF Prepare, Inv, StoreInv, Graph, HeadsOf
  <2>2. m.epoch \in Epoch /\ DOMAIN m.records \in SUBSET Id
    BY <1>2 DEF Memory, Records
  <2>3. p \in Plan
    BY <2>1, <2>2 DEF Plan, Author
  <2>4. session' = [session EXCEPT ![t] = [m EXCEPT !.pc = "mark", !.plan = p]]
    BY <1>5 DEF Prepare
  <2> HIDE DEF p
  <2>5. [m EXCEPT !.pc = "mark", !.plan = p] \in Memory
    BY <1>2, <2>3, MemoryUpdates DEF Pc
  <2>6. QED
    BY <2>4, <2>5
<1>6. ASSUME NEW pc \in Pc, Goto(t, pc)
      PROVE  \E n \in Memory : session' = [session EXCEPT ![t] = n]
  <2>1. session' = [session EXCEPT ![t] = [m EXCEPT !.pc = pc]]
    BY <1>6 DEF Goto
  <2>2. QED
    BY <1>2, <2>1, MemoryUpdates
<1>7. ASSUME Reset(t)
      PROVE  \E n \in Memory : session' = [session EXCEPT ![t] = n]
  BY <1>2, <1>7, MemoryUpdates DEF Reset
<1>8. CASE Mark(t) \/ AppendPair(t) \/ Persist(t) \/ Crash(t)
  <2>1. Reset(t) \/ Goto(t, "append") \/ Goto(t, "idle") \/ Goto(t, "load")
          \/ Goto(t, "abort") \/ Goto(t, "clear")
    BY <1>8 DEF Mark, AppendPair, Persist, Crash
  <2>2. QED
    BY <1>6, <1>7, <2>1 DEF Pc
<1>9. CASE Abort(t)
  <2>1. CASE session' = [session EXCEPT ![t].pc = "idle", ![t].plan = NoPlan]
    <3>1. session' = [session EXCEPT ![t] = [m EXCEPT !.pc = "idle", !.plan = NoPlan]]
      BY <2>1
    <3>2. [m EXCEPT !.pc = "idle", !.plan = NoPlan] \in Memory
      BY <1>2, MemoryUpdates DEF Pc
    <3>3. QED
      BY <3>1, <3>2
  <2>2. QED
    BY <1>7, <1>9, <2>1 DEF Abort
<1>10. CASE LoadProjection(t)
  <2> DEFINE l == [epoch |-> ProjectedEpoch(events), key |-> CurrentKey(events)]
  <2>1. l \in Projected
    BY <1>0, NextProjection DEF Projected
  <2>2. session' = [session EXCEPT ![t] = [m EXCEPT !.pc = "epoch", !.loaded = l]]
    BY <1>10 DEF LoadProjection
  <2> HIDE DEF l
  <2>3. [m EXCEPT !.pc = "epoch", !.loaded = l] \in Memory
    BY <1>2, <2>1, MemoryUpdates DEF Pc
  <2>4. QED
    BY <2>2, <2>3
<1>11. ASSUME NEW pc \in Pc, NEW e \in Epoch, NEW k \in Epoch, Adopt(t, pc, e, k)
       PROVE  \E n \in Memory : session' = [session EXCEPT ![t] = n]
  <2>1. session' = [session EXCEPT
                      ![t] = [m EXCEPT !.pc = pc, !.epoch = e, !.key = k,
                                       !.records = RecordKeys(events)]]
    BY <1>11 DEF Adopt
  <2>2. [m EXCEPT !.pc = pc, !.epoch = e, !.key = k, !.records = RecordKeys(events)] \in Memory
    BY <1>0, <1>2, NextProjection, MemoryUpdates
  <2>3. QED
    BY <2>1, <2>2
<1>12. CASE CommitEpoch(t)
  <2>1. m.plan.trigger \in Epoch
    BY <1>12, TabFields DEF CommitEpoch, Plan, Epoch, Inv
  <2>2. Goto(t, "checkpoint") \/ Adopt(t, "checkpoint", m.plan.trigger, m.plan.trigger) \/ Reset(t)
    BY <1>12 DEF CommitEpoch
  <2>3. QED
    BY <1>6, <1>7, <1>11, <2>1, <2>2 DEF Pc
<1>13. CASE CommitCheckpoint(t)
  <2>1. m.loaded.epoch \in Epoch /\ m.loaded.key \in Epoch
    BY <1>13, TabFields DEF CommitCheckpoint, Projected, Inv
  <2>2. Goto(t, "observe") \/ Adopt(t, "observe", m.loaded.epoch, m.loaded.key) \/ Reset(t)
    BY <1>13 DEF CommitCheckpoint
  <2>3. QED
    BY <1>6, <1>7, <1>11, <2>1, <2>2 DEF Pc
<1>14. CASE Observe(t)
  <2>1. PICK h \in Id :
          /\ HeadsOf(events) = {h}
          /\ session' = [session EXCEPT
               ![t].pc = "resolve",
               ![t].seen = [epoch |-> m.epoch, head |-> h, ancestors |-> Ancestors(events, h)]]
    BY <1>14 DEF Observe
  <2> DEFINE s == [epoch |-> m.epoch, head |-> h, ancestors |-> Ancestors(events, h)]
  <2>2. Ancestors(events, h) = DOMAIN events /\ DOMAIN events \in SUBSET Id
    BY <2>1, OneHeadKnowsAll DEF Inv, StoreInv, Graph
  <2>3. s \in Observed
    BY <1>2, <2>2 DEF Observed, Memory
  <2>4. session' = [session EXCEPT ![t] = [m EXCEPT !.pc = "resolve", !.seen = s]]
    BY <2>1
  <2> HIDE DEF s
  <2>5. [m EXCEPT !.pc = "resolve", !.seen = s] \in Memory
    BY <1>2, <2>3, MemoryUpdates DEF Pc
  <2>6. QED
    BY <2>4, <2>5
<1>15. CASE Resolve(t)
  <2>1. m.seen \in Observed
    BY <1>15, TabFields DEF Resolve, Inv
  <2>2. ASSUME NEW u \in Update, NEW c \in Committed \cup {NoMarker}, Persists(t, u, c)
        PROVE  \E n \in Memory : session' = [session EXCEPT ![t] = n]
    <3>1. [m EXCEPT !.pc = "persist", !.update = u, !.consumes = c] \in Memory
      BY <1>2, MemoryUpdates DEF Pc
    <3>2. QED
      BY <2>2, <3>1 DEF Persists
  <2>3. ASSUME NEW e \in Epoch
        PROVE  Rotation(e, m.seen) \in Update /\ Observation(m.seen) \in Update
    BY <2>1 DEF Rotation, Observation, Update, Observed
  <2>4. CASE Reset(t)
    BY <1>7, <2>4
  <2>5. ASSUME NEW u \in Options(m.seen), Persists(t, u, NoMarker)
        PROVE  \E n \in Memory : session' = [session EXCEPT ![t] = n]
    <3>1. \A p \in VerifiedPrevious(m.seen) : p \in Epoch
      <4>1. m.seen.ancestors \subseteq DOMAIN events
        <5>1. /\ m.seen.head \in DOMAIN events
              /\ m.seen.ancestors = Ancestors(events, m.seen.head)
          BY <1>15 DEF Resolve, Inv, SessionInv
        <5>2. QED
          BY <5>1 DEF Inv, StoreInv, Graph, Ancestors
      <4>2. \A x \in DOMAIN events : events[x].label \in Epoch
        BY DEF Inv, StoreInv, Graph, Event
      <4>3. QED
        BY <4>1, <4>2 DEF VerifiedPrevious
    <3>2. InitialEpoch \in Epoch
      BY DEF Epoch
    <3>3. u \in Update
      BY <2>3, <2>5, <3>1, <3>2 DEF Options
    <3>4. QED
      BY <2>2, <2>5, <3>3
  <2>6. ASSUME marker.stage = "Committed",
               Persists(t, Rotation(marker.previousEpoch, m.seen), marker)
        PROVE  \E n \in Memory : session' = [session EXCEPT ![t] = n]
    <3>1. marker \in Committed /\ marker.previousEpoch \in Epoch
      BY <2>6, MarkerFields DEF Inv, Committed
    <3>2. Rotation(marker.previousEpoch, m.seen) \in Update
      BY <2>3, <3>1
    <3>3. QED
      BY <2>2, <2>6, <3>1, <3>2
  <2>7. QED
    BY <1>2, <1>15, <2>4, <2>5, <2>6, ResolveOutcomes
<1>16. CASE ClearConsumed(t)
  <2> DEFINE n == [Closed EXCEPT !.pc = IF m.resumes THEN "observe" ELSE "idle",
                                 !.epoch = m.epoch, !.key = m.key, !.records = m.records]
  <2>1. session' = [session EXCEPT ![t] = n]
    BY <1>16 DEF ClearConsumed
  <2>2. (IF m.resumes THEN "observe" ELSE "idle") \in Pc
    BY DEF Pc
  <2>3. m.epoch \in Epoch /\ m.key \in Epoch /\ m.records \in Records
    BY <1>2 DEF Memory
  <2>4. n \in Memory
    BY <1>2, <2>2, <2>3, MemoryUpdates
  <2>5. QED
    BY <2>1, <2>4
<1>17. CASE Connect(t)
  <2> DEFINE n == [Closed EXCEPT !.pc = "connecting", !.epoch = ProjectedEpoch(events),
                                 !.key = CurrentKey(events), !.records = RecordKeys(events)]
  <2>1. n = [Opened(events) EXCEPT !.pc = "connecting"]
    BY DEF Opened, Closed
  <2>2. n \in Memory
    BY <1>0, <1>2, NextProjection, MemoryUpdates DEF Pc
  <2>3. session' = [session EXCEPT ![t] = n]
    BY <1>17, <2>1 DEF Connect
  <2>4. QED
    BY <2>2, <2>3
<1>18. CASE Resume(t)
  <2>1. CASE Goto(t, "observe") \/ Reset(t)
    BY <1>6, <1>7, <2>1 DEF Pc
  <2>2. ASSUME marker.stage = "Prepared" \/ marker.stage = "EpochCommitted",
               session' = [session EXCEPT ![t].pc = "append", ![t].plan = marker.plan,
                                          ![t].resumes = TRUE]
        PROVE  \E n \in Memory : session' = [session EXCEPT ![t] = n]
    <3>1. marker.plan \in Plan
      BY <2>2, MarkerFields DEF Inv, Announced
    <3>2. session' = [session EXCEPT
            ![t] = [m EXCEPT !.pc = "append", !.plan = marker.plan, !.resumes = TRUE]]
      BY <2>2
    <3>3. [m EXCEPT !.pc = "append", !.plan = marker.plan, !.resumes = TRUE] \in Memory
      BY <1>2, <3>1, MemoryUpdates DEF Pc
    <3>4. QED
      BY <3>2, <3>3
  <2>3. QED
    BY <1>18, <2>1, <2>2 DEF Resume
<1>19. QED
  BY <1>1, <1>3, <1>4, <1>5, <1>8, <1>9, <1>10, <1>12, <1>13, <1>14, <1>15, <1>16, <1>17,
     <1>18 DEF Elsewhere

(* What a step by one tab means for the marker and the identity. *)
LEMMA MarkerTyped ==
  ASSUME Inv, Next
  PROVE  marker' \in {NoMarker} \cup Prepared \cup EpochCommitted \cup Committed
<1>1. PICK t \in Tab :
        \/ AddSecret(t) \/ MergeHeads(t) \/ SyncRotation(t) \/ AppendPair(t)
        \/ \E past \in SUBSET DOMAIN events : SyncContent(t, past)
        \/ Elsewhere(t)
  BY StepsOfTabs
<1>2. marker \in {NoMarker} \cup Prepared \cup EpochCommitted \cup Committed
  BY DEF Inv, TypeInv
<1>3. CASE marker' = marker \/ marker' = NoMarker
  BY <1>2, <1>3
<1>4. CASE Mark(t) /\ marker' # marker
  <2>1. session[t].plan \in Plan /\ marker' = [stage |-> "Prepared", plan |-> session[t].plan]
    BY <1>4, TabFields DEF Mark, Inv
  <2>2. QED
    BY <2>1 DEF Prepared
<1>5. CASE CommitEpoch(t) /\ marker' # marker
  <2>1. session[t].plan \in Plan
    BY <1>5, TabFields DEF CommitEpoch, Inv
  <2>2. marker.stage \in {"Prepared", "EpochCommitted"}
    BY <1>5 DEF CommitEpoch
  <2>3. marker' = [stage |-> "EpochCommitted", plan |-> marker.plan,
                   epoch |-> session[t].plan.trigger]
    BY <1>5 DEF CommitEpoch
  <2>4. marker.plan \in Plan /\ session[t].plan.trigger \in Epoch
    BY <2>1, <2>2, MarkerFields DEF Plan, Epoch, Announced, Inv
  <2>5. QED
    BY <2>3, <2>4 DEF EpochCommitted
<1>6. CASE CommitCheckpoint(t) /\ marker' # marker
  <2>1. session[t].plan \in Plan
    BY <1>6, TabFields DEF CommitCheckpoint, Inv
  <2>2. marker.stage = "EpochCommitted"
    BY <1>6 DEF CommitCheckpoint
  <2>3. marker' = [stage |-> "Committed", epoch |-> session[t].plan.trigger,
                   checkpoint |-> session[t].plan.checkpoint,
                   previousEpoch |-> marker.plan.previousEpoch]
    BY <1>6, <2>2 DEF CommitCheckpoint
  <2>4. marker.plan \in Plan
    BY <2>2, MarkerFields DEF Announced, Inv
  <2>5. QED
    BY <2>1, <2>3, <2>4 DEF Committed, Plan, Epoch
<1>7. marker' = marker \/ marker' = NoMarker \/ Mark(t) \/ CommitEpoch(t) \/ CommitCheckpoint(t)
  <2>1. CASE Elsewhere(t)
    BY <2>1 DEF Elsewhere, SyncNothing, Prepare, Abort, LoadProjection,
       Observe, Resolve, Persist, ClearConsumed, Crash, Connect, Resume
  <2>2. QED
    BY <1>1, <2>1 DEF AddSecret, MergeHeads, SyncRotation, AppendPair, SyncContent
<1>8. QED
  BY <1>3, <1>4, <1>5, <1>6, <1>7

(* Only an accepted update moves the identity directory, to a checkpoint *)
(* that the store holds with its whole history (identity_record).        *)
LEMMA IdentityMoves ==
  ASSUME Inv, Next
  PROVE  \/ identity' = identity
         \/ \E t \in Tab :
              /\ Persist(t) /\ Accepts(identity, session[t].update)
              /\ session[t].update \in Update
              /\ session[t].update.checkpoint \in DOMAIN events
              /\ session[t].update.ancestors = Ancestors(events, session[t].update.checkpoint)
              /\ identity' = [epoch |-> session[t].update.epoch,
                              checkpoint |-> session[t].update.checkpoint]
<1>1. PICK t \in Tab :
        \/ AddSecret(t) \/ MergeHeads(t) \/ SyncRotation(t) \/ AppendPair(t)
        \/ \E past \in SUBSET DOMAIN events : SyncContent(t, past)
        \/ Elsewhere(t)
  BY StepsOfTabs
<1>2. CASE Persist(t) /\ identity' # identity
  <2>1. /\ session[t].pc = "persist" /\ Accepts(identity, session[t].update)
        /\ identity' = [epoch |-> session[t].update.epoch,
                        checkpoint |-> session[t].update.checkpoint]
    BY <1>2 DEF Persist
  <2>2. QED
    BY <1>2, <2>1, TabFields DEF Inv, SessionInv
<1>3. identity' = identity \/ Persist(t)
  <2>1. CASE Elsewhere(t)
    BY <2>1 DEF Elsewhere, SyncNothing, Prepare, Mark, Abort, LoadProjection, CommitEpoch,
       CommitCheckpoint, Observe, Resolve, ClearConsumed, Crash, Connect, Resume
  <2>2. QED
    BY <1>1, <2>1 DEF AddSecret, MergeHeads, SyncRotation, AppendPair, SyncContent
<1>4. QED
  BY <1>2, <1>3

(* A step keeps the types, the graph of the store and the order of its *)
(* ids.                                                                *)
LEMMA TypesKept ==
  ASSUME Inv, Next
  PROVE  TypeInv' /\ StoreInv'
<1>1. StoreStep /\ session' \in [Tab -> Memory]
  BY StoreSteps, SessionTyped
<1>2. marker' \in {NoMarker} \cup Prepared \cup EpochCommitted \cup Committed
  BY MarkerTyped
<1>3. identity' \in [epoch : Epoch, checkpoint : Id] /\ identity'.checkpoint \in DOMAIN events
  <2>1. \A u \in Update : u.epoch \in Epoch /\ u.checkpoint \in Id
    BY DEF Update
  <2>2. QED
    BY <2>1, IdentityMoves DEF Inv, TypeInv, StoreInv
<1>4. TypeInv'
  BY <1>1, <1>2, <1>3 DEF TypeInv, StoreStep
<1>5. StoreInv'
  BY <1>1, <1>3, StoreGrows DEF StoreInv, Inv
<1>6. QED
  BY <1>4, <1>5

(* The bound on ids is respected. *)
LEMMA RoomKept ==
  ASSUME Inv, Next
  PROVE  RoomInv'
<1>0. drawn \in Nat /\ MaxEvents \in Nat
  BY EventsAssumption DEF Inv, TypeInv
<1>1. PICK t \in Tab :
        \/ AddSecret(t) \/ MergeHeads(t) \/ SyncRotation(t) \/ AppendPair(t)
        \/ \E past \in SUBSET DOMAIN events : SyncContent(t, past)
        \/ Elsewhere(t)
  BY StepsOfTabs
<1>2. CASE AddSecret(t) \/ (\E past \in SUBSET DOMAIN events : SyncContent(t, past))
  <2>1. drawn' = drawn + 1 /\ drawn < MaxEvents
    BY <1>2 DEF AddSecret, SyncContent, AppendEvent
  <2>2. QED
    BY <1>0, <2>1 DEF RoomInv
<1>3. CASE MergeHeads(t)
  <2>1. drawn <= MaxEvents /\ AppendEvent(t, "Merge")
    BY <1>3, MergeHasRoom DEF MergeHeads
  <2> DEFINE e == Created("self", "Merge", DOMAIN events, session[t].epoch, session[t].key, {})
  <2>2. drawn' = drawn + 1 /\ events' = Put(events, drawn + 1, e) /\ e.past = DOMAIN events
    BY <2>1 DEF AppendEvent, Created
  <2> HIDE DEF e
  <2>3. drawn + 1 \in Id /\ drawn + 1 \notin DOMAIN events
    BY <2>1, NextIds DEF Inv
  <2>4. HeadsOf(events') = {drawn + 1}
    BY <2>2, <2>3, TopIsHead DEF Inv, StoreInv
  <2>5. QED
    BY <1>0, <2>1, <2>2, <2>3, <2>4 DEF RoomInv
<1>4. CASE SyncRotation(t) \/ Prepare(t)
  <2>1. drawn' = drawn + 2 /\ drawn + 2 <= MaxEvents
    BY <1>4 DEF SyncRotation, Prepare
  <2>2. QED
    BY <2>1 DEF RoomInv
<1>5. CASE AppendPair(t)
  <2>1. drawn' = drawn
    BY <1>5 DEF AppendPair
  <2>2. CASE events' = events
    BY <2>1, <2>2 DEF Inv, RoomInv
  <2>3. CASE Rotated
    <3>1. PICK p : Rotates(events, p) /\ events' = WithPair(events, p)
      BY <2>3 DEF Rotated
    <3>2. HeadsOf(events') = {p.checkpoint} /\ p.checkpoint \in Id
      BY <3>1, PairIsHead DEF Inv, StoreInv, Rotates, Pairable
    <3>3. QED
      BY <2>1, <3>2 DEF Inv, RoomInv
  <2>4. QED
    BY <1>5, <2>2, <2>3, AppendPairInStore
<1>6. CASE Elsewhere(t) /\ ~Prepare(t)
  <2>1. drawn' = drawn /\ events' = events
    BY <1>6 DEF Elsewhere, SyncNothing, Mark, Abort, LoadProjection, CommitEpoch,
       CommitCheckpoint, Observe, Resolve, Persist, ClearConsumed, Crash, Connect, Resume
  <2>2. QED
    BY <2>1 DEF Inv, RoomInv
<1>7. QED
  BY <1>1, <1>2, <1>3, <1>4, <1>5, <1>6

-----------------------------------------------------------------------------
(***************************************************************************)
(* Plans are copied between tabs and the marker, and drawn up by Prepare.  *)
(***************************************************************************)
NewPlan(t) ==
  [author |-> "self",
   trigger |-> drawn + 1, checkpoint |-> drawn + 2,
   past |-> DOMAIN events, parents |-> HeadsOf(events),
   previousEpoch |-> session[t].epoch,
   carries |-> DOMAIN session[t].records]

(* The plan that a tab holds after a step. *)
LEMMA PlansOfTabs ==
  ASSUME Inv, Next, NEW u \in Tab
  PROVE  \/ session'[u].plan \in {session[u].plan, NoPlan}
         \/ Announced /\ session'[u].plan = marker.plan
         \/ Prepare(u) /\ session'[u].plan = NewPlan(u)
<1>1. PICK t \in Tab :
        \/ AddSecret(t) \/ MergeHeads(t) \/ SyncRotation(t) \/ AppendPair(t)
        \/ \E past \in SUBSET DOMAIN events : SyncContent(t, past)
        \/ Elsewhere(t)
  BY StepsOfTabs
<1>2. session \in [Tab -> Memory] /\ session[t] \in Memory /\ session[u] \in Memory
  BY DEF Inv, TypeInv
<1>3. CASE Prepare(t)
  <2>1. session' = [session EXCEPT ![t].pc = "mark", ![t].plan = NewPlan(t)]
    BY <1>3 DEF Prepare, NewPlan
  <2>2. QED
    BY <1>2, <1>3, <2>1 DEF Memory
<1>4. CASE Resume(t)
  <2>1. CASE session' = [session EXCEPT ![t].pc = "append", ![t].plan = marker.plan,
                                        ![t].resumes = TRUE] /\ Announced
    BY <1>2, <2>1 DEF Memory
  <2>2. CASE Goto(t, "observe") \/ Reset(t)
    BY <1>2, <2>2 DEF Memory, Goto, Reset, Closed
  <2>3. QED
    BY <1>4, <2>1, <2>2 DEF Resume, Announced
<1>5. ASSUME NEW pc, Goto(t, pc)
      PROVE  session'[u].plan \in {session[u].plan, NoPlan}
  BY <1>2, <1>5 DEF Memory, Goto
<1>6. ASSUME Reset(t)
      PROVE  session'[u].plan \in {session[u].plan, NoPlan}
  BY <1>2, <1>6 DEF Memory, Reset, Closed
<1>7. ASSUME NEW pc, NEW e, NEW k, Adopt(t, pc, e, k)
      PROVE  session'[u].plan \in {session[u].plan, NoPlan}
  BY <1>2, <1>7 DEF Memory, Adopt
<1>8. CASE Mark(t) \/ AppendPair(t) \/ Persist(t) \/ Crash(t) \/ CommitEpoch(t)
             \/ CommitCheckpoint(t)
  <2>1. Reset(t) \/ (\E pc : Goto(t, pc)) \/ (\E pc, e, k : Adopt(t, pc, e, k))
    BY <1>8 DEF Mark, AppendPair, Persist, Crash, CommitEpoch, CommitCheckpoint
  <2>2. QED
    BY <1>5, <1>6, <1>7, <2>1
<1>9. CASE Abort(t)
  <2>1. Reset(t) \/ session' = [session EXCEPT ![t].pc = "idle", ![t].plan = NoPlan]
    BY <1>9 DEF Abort
  <2>2. QED
    BY <1>2, <1>6, <2>1 DEF Memory
<1>10. CASE \/ AddSecret(t) \/ MergeHeads(t) \/ SyncRotation(t) \/ SyncNothing(t)
            \/ \E past \in SUBSET DOMAIN events : SyncContent(t, past)
  <2>1. \/ session' = [session EXCEPT ![t].records = RecordKeys(events')]
        \/ \E E : session' = Refreshed(t, E)
    BY <1>10 DEF AddSecret, MergeHeads, AppendEvent, SyncRotation, SyncNothing, SyncContent
  <2>2. QED
    <3>1. CASE session' = [session EXCEPT ![t].records = RecordKeys(events')]
      BY <1>2, <3>1 DEF Memory
    <3>2. ASSUME NEW E, session' = Refreshed(t, E)
          PROVE  session'[u].plan = session[u].plan
      BY <1>2, <3>2 DEF Memory, Refreshed
    <3>3. QED
      BY <2>1, <3>1, <3>2
<1>11. CASE LoadProjection(t) \/ Observe(t)
  <2>1. \E l : \/ session' = [session EXCEPT ![t].pc = "epoch", ![t].loaded = l]
               \/ session' = [session EXCEPT ![t].pc = "resolve", ![t].seen = l]
    BY <1>11 DEF LoadProjection, Observe
  <2>2. QED
    BY <1>2, <2>1 DEF Memory
<1>12. CASE Resolve(t)
  <2>1. Reset(t) \/ \E v, c : Persists(t, v, c)
    BY <1>2, <1>12, ResolveOutcomes
  <2>2. QED
    <3>1. ASSUME NEW v, NEW c, Persists(t, v, c)
          PROVE  session'[u].plan = session[u].plan
      BY <1>2, <3>1 DEF Memory, Persists
    <3>2. QED
      BY <1>6, <2>1, <3>1
<1>13. CASE ClearConsumed(t) \/ Connect(t)
  <2>1. session'[u] = session[u] \/ session'[u].plan = NoPlan
    <3>1. CASE ClearConsumed(t)
      BY <1>2, <3>1 DEF ClearConsumed, Closed
    <3>2. CASE Connect(t)
      BY <1>2, <3>2 DEF Connect, Closed, Opened
    <3>3. QED
      BY <1>13, <3>1, <3>2
  <2>2. QED
    BY <2>1
<1>14. QED
  BY <1>1, <1>3, <1>4, <1>8, <1>9, <1>10, <1>11, <1>12, <1>13 DEF Elsewhere

(* The plan that the marker announces after a step. *)
LEMMA PlanOfMarker ==
  ASSUME Inv, Next, Announced'
  PROVE  marker'.plan \in Plans
<1>1. PICK t \in Tab :
        \/ AddSecret(t) \/ MergeHeads(t) \/ SyncRotation(t) \/ AppendPair(t)
        \/ \E past \in SUBSET DOMAIN events : SyncContent(t, past)
        \/ Elsewhere(t)
  BY StepsOfTabs
<1>2. Announced => marker.plan \in Plans
  BY DEF Plans
<1>3. CASE marker' = marker
  BY <1>2, <1>3 DEF Announced
<1>4. CASE marker' = NoMarker
  BY <1>4 DEF Announced, NoMarker
<1>5. CASE Mark(t) /\ marker' # marker
  <2>1. session[t].plan # NoPlan /\ marker'.plan = session[t].plan
    BY <1>5 DEF Mark, Inv, SessionInv
  <2>2. QED
    BY <2>1 DEF Plans
<1>6. CASE CommitEpoch(t) /\ marker' # marker
  <2>1. Announced /\ marker'.plan = marker.plan
    BY <1>6 DEF CommitEpoch, Announced
  <2>2. QED
    BY <1>2, <2>1
<1>7. CASE CommitCheckpoint(t) /\ marker' # marker
  <2>1. marker'.stage = "Committed"
    BY <1>7 DEF CommitCheckpoint
  <2>2. QED
    BY <2>1 DEF Announced
<1>8. marker' = marker \/ marker' = NoMarker \/ Mark(t) \/ CommitEpoch(t) \/ CommitCheckpoint(t)
  <2>1. CASE Elsewhere(t)
    BY <2>1 DEF Elsewhere, SyncNothing, Prepare, Abort, LoadProjection,
       Observe, Resolve, Persist, ClearConsumed, Crash, Connect, Resume
  <2>2. QED
    BY <1>1, <2>1 DEF AddSecret, MergeHeads, SyncRotation, AppendPair, SyncContent
<1>9. QED
  BY <1>3, <1>4, <1>5, <1>6, <1>7, <1>8

(* A plan that is new after a step is the one that a tab has just *)
(* prepared.                                                      *)
LEMMA PlansMove ==
  ASSUME Inv, Next, NEW p \in Plans'
  PROVE  p \in Plans \/ \E t \in Tab : Prepare(t) /\ p = NewPlan(t)
<1>1. CASE Announced' /\ p = marker'.plan
  BY <1>1, PlanOfMarker
<1>2. CASE \E u \in Tab : p = session'[u].plan /\ p # NoPlan
  <2>1. PICK u \in Tab : p = session'[u].plan /\ p # NoPlan
    BY <1>2
  <2>2. \/ p = session[u].plan
        \/ Announced /\ p = marker.plan
        \/ Prepare(u) /\ p = NewPlan(u)
    BY <2>1, PlansOfTabs
  <2>3. QED
    BY <2>1, <2>2 DEF Plans
<1>3. QED
  BY <1>1, <1>2 DEF Plans, Announced

(* A new plan is made on top of all events, with ids of its own. *)
LEMMA NewPlanIsPlanned ==
  ASSUME Inv, NEW t \in Tab, Prepare(t)
  PROVE  LET n == NewPlan(t) IN
         /\ n.checkpoint = n.trigger + 1 /\ n.checkpoint = drawn' /\ n.trigger = drawn + 1
         /\ \E h \in DOMAIN events : n.parents = {h} /\ n.past = Ancestors(events, h)
         /\ \A y \in n.past : y < n.trigger
         /\ n.trigger \notin DOMAIN events /\ n.checkpoint \notin DOMAIN events
         /\ events' = events
<1> DEFINE n == NewPlan(t)
<1>1. /\ n.trigger = drawn + 1 /\ n.checkpoint = drawn + 2 /\ n.past = DOMAIN events
      /\ n.parents = HeadsOf(events)
  BY DEF NewPlan
<1>2. /\ drawn \in Nat /\ drawn' = drawn + 2 /\ events' = events
      /\ Cardinality(HeadsOf(events)) = 1
  BY DEF Prepare, Inv, TypeInv
<1>3. PICK h \in Id : HeadsOf(events) = {h}
  BY <1>2, CountingHeads DEF Inv
<1>4. h \in DOMAIN events /\ DOMAIN events = Ancestors(events, h)
  BY <1>3, OneHeadKnowsAll DEF Inv, StoreInv
<1>5. /\ drawn + 1 \notin DOMAIN events /\ drawn + 2 \notin DOMAIN events
      /\ \A y \in DOMAIN events : y < drawn + 1
  BY NextIds DEF Inv
<1> HIDE DEF n
<1>6. n.checkpoint = n.trigger + 1 /\ n.checkpoint = drawn'
  BY <1>1, <1>2
<1>7. QED
  BY <1>1, <1>2, <1>3, <1>4, <1>5, <1>6 DEF n

(* A rotation that enters the store is another plan or has newer ids. *)
LEMMA PlansStay ==
  ASSUME Inv, Next, NEW p \in Plans
  PROVE  Planned(p)'
<1>0. StoreStep /\ Planned(p) /\ Pairable(p) /\ drawn \in Nat /\ drawn' \in Nat
  BY StoreSteps, PlansAreTyped DEF Inv, PlanInv, TypeInv, StoreStep
<1>1. /\ drawn <= drawn' /\ p.checkpoint = p.trigger + 1 /\ p.checkpoint <= drawn
      /\ p.trigger \in Nat /\ p.checkpoint \in Nat
      /\ \A y \in p.past : y < p.trigger
  BY <1>0, IdsAreNumbers DEF StoreStep, Planned, Pairable
<1>2. \A x \in DOMAIN events : /\ x \in DOMAIN events' /\ events'[x] = events[x]
                               /\ Ancestors(events', x) = Ancestors(events, x)
  BY <1>0, StoreGrows DEF Inv
<1>3. \E h \in DOMAIN events' : p.parents = {h} /\ p.past = Ancestors(events', h)
  BY <1>0, <1>2 DEF Planned
<1>4. p.checkpoint <= drawn'
  BY <1>0, <1>1
<1>5. CASE p.trigger \in DOMAIN events
  BY <1>0, <1>1, <1>2, <1>3, <1>4, <1>5 DEF Planned
<1>6. CASE p.trigger \notin DOMAIN events /\ DOMAIN events' = DOMAIN events
  BY <1>0, <1>1, <1>3, <1>4, <1>6 DEF Planned
<1>7. CASE p.trigger \notin DOMAIN events /\ Grafted
  <2>1. DOMAIN events' = DOMAIN events \cup {drawn + 1}
    BY <1>7 DEF Grafted, Put
  <2>2. p.trigger \notin DOMAIN events' /\ p.checkpoint \notin DOMAIN events'
    BY <1>0, <1>1, <1>7, <2>1 DEF Planned
  <2>3. QED
    BY <1>1, <1>3, <1>4, <2>2 DEF Planned
<1>8. ASSUME NEW q, Pairable(q), events' = WithPair(events, q), p.trigger \notin DOMAIN events,
             p.trigger # q.trigger, p.trigger # q.checkpoint, p.checkpoint # q.trigger
      PROVE  Planned(p)'
  <2>1. DOMAIN events' = DOMAIN events \cup {q.trigger, q.checkpoint}
    BY <1>8, WithPairFacts
  <2>2. q.trigger \in Nat /\ q.checkpoint = q.trigger + 1
    BY <1>8, IdsAreNumbers DEF Pairable
  <2>3. p.checkpoint # q.checkpoint
    BY <1>1, <1>8, <2>2
  <2>4. p.trigger \notin DOMAIN events' /\ p.checkpoint \notin DOMAIN events'
    BY <1>0, <1>8, <2>1, <2>3 DEF Planned
  <2>5. QED
    BY <1>1, <1>3, <1>4, <2>4 DEF Planned
<1>9. CASE p.trigger \notin DOMAIN events /\ \E t \in Tab : AppendPair(t)
  <2>1. PICK t \in Tab : AppendPair(t)
    BY <1>9
  <2> DEFINE q == session[t].plan
  <2>2. q \in Plans /\ Pairable(q)
    <3>1. q # NoPlan
      BY <2>1 DEF AppendPair, Inv, SessionInv
    <3>2. q \in Plans
      BY <3>1 DEF Plans
    <3>3. QED
      BY <3>2, PlansAreTyped DEF Inv
  <2>3. events' = events \/ events' = WithPair(events, q)
    BY <2>1 DEF AppendPair, WithPair
  <2> HIDE DEF q
  <2>4. CASE events' = events
    BY <1>6, <1>9, <2>4
  <2>5. CASE events' = WithPair(events, q) /\ q = p
    <3>1. /\ p.trigger \in DOMAIN events' /\ p.checkpoint \in DOMAIN events'
          /\ events'[p.trigger] = PairOf(p)[1] /\ events'[p.checkpoint] = PairOf(p)[2]
      <4>1. /\ DOMAIN WithPair(events, p) = DOMAIN events \cup {p.trigger, p.checkpoint}
            /\ WithPair(events, p)[p.trigger] = PairOf(p)[1]
            /\ WithPair(events, p)[p.checkpoint] = PairOf(p)[2]
        BY <1>0, WithPairFacts
      <4>2. events' = WithPair(events, p)
        BY <2>5
      <4>3. QED
        BY <4>1, <4>2
    <3>2. QED
      BY <1>1, <1>3, <1>4, <3>1 DEF Planned
  <2>6. CASE events' = WithPair(events, q) /\ q # p
    <3>1. p.trigger # q.trigger /\ p.trigger # q.checkpoint /\ q.trigger # p.checkpoint
      BY <2>2, <2>6 DEF Inv, PlanInv
    <3>2. QED
      BY <1>8, <1>9, <2>2, <2>6, <3>1
  <2>7. QED
    BY <2>3, <2>4, <2>5, <2>6
<1>10. CASE p.trigger \notin DOMAIN events /\ \E t \in Tab : SyncRotation(t)
  <2>1. PICK t \in Tab : SyncRotation(t)
    BY <1>10
  <2>2. DOMAIN events' = DOMAIN events \cup {drawn + 1, drawn + 2}
    BY <2>1 DEF SyncRotation, Put
  <2>3. p.trigger \notin DOMAIN events' /\ p.checkpoint \notin DOMAIN events'
    BY <1>0, <1>1, <1>10, <2>2 DEF Planned
  <2>4. QED
    BY <1>1, <1>3, <1>4, <2>3 DEF Planned
<1>11. \/ Grafted \/ events' = events
       \/ \E t \in Tab : AppendPair(t)
       \/ \E t \in Tab : SyncRotation(t)
  <2>1. PICK t \in Tab :
          \/ AddSecret(t) \/ MergeHeads(t) \/ SyncRotation(t) \/ AppendPair(t)
          \/ \E past \in SUBSET DOMAIN events : SyncContent(t, past)
          \/ Elsewhere(t)
    BY StepsOfTabs
  <2>2. CASE AddSecret(t)
    <3>1. drawn <= MaxEvents /\ AppendEvent(t, "Content")
      BY <1>0, <2>2, EventsAssumption DEF AddSecret
    <3>2. QED
      BY <3>1, AppendIsGraft
  <2>3. CASE MergeHeads(t)
    <3>1. drawn <= MaxEvents /\ AppendEvent(t, "Merge")
      BY <2>3, MergeHasRoom DEF MergeHeads
    <3>2. QED
      BY <3>1, AppendIsGraft
  <2>4. QED
    BY <2>1, <2>2, <2>3, SyncIsGraft, ElsewhereInStore
<1>12. QED
  BY <1>5, <1>6, <1>7, <1>9, <1>10, <1>11

(* A step keeps every plan on top of what its author saw, and the plans *)
(* of two tabs apart.                                                   *)
LEMMA PlansKept ==
  ASSUME Inv, Next
  PROVE  PlanInv'
<1>0. drawn \in Nat
  BY DEF Inv, TypeInv
<1>1. \A p \in Plans : /\ p.trigger \in Nat /\ p.checkpoint = p.trigger + 1
                       /\ p.checkpoint <= drawn
  BY PlansAreTyped, IdsAreNumbers DEF Inv, PlanInv, Planned, Pairable
<1>2. ASSUME NEW t \in Tab, Prepare(t), NEW n, n = NewPlan(t)
      PROVE  /\ Planned(n)' /\ n.trigger = drawn + 1
             /\ n.checkpoint = n.trigger + 1
  <2>1. /\ n.checkpoint = n.trigger + 1 /\ n.checkpoint = drawn' /\ n.trigger = drawn + 1
        /\ \E h \in DOMAIN events : n.parents = {h} /\ n.past = Ancestors(events, h)
        /\ \A y \in n.past : y < n.trigger
        /\ n.trigger \notin DOMAIN events /\ n.checkpoint \notin DOMAIN events
        /\ events' = events
    BY <1>2, NewPlanIsPlanned
  <2>2. drawn' \in Nat
    BY <1>0, <1>2 DEF Prepare
  <2>3. QED
    BY <2>1, <2>2 DEF Planned
<1>3. ASSUME NEW p \in Plans'
      PROVE  Planned(p)'
  BY <1>2, PlansMove, PlansStay
<1>4. ASSUME NEW p \in Plans', NEW q \in Plans'
      PROVE  p.trigger # q.checkpoint /\ (p.trigger = q.trigger => p = q)
  <2>1. ASSUME NEW t \in Tab, Prepare(t), NEW n, n = NewPlan(t), NEW r \in Plans
        PROVE  n.trigger # r.checkpoint /\ r.trigger # n.checkpoint /\ n.trigger # r.trigger
    <3>1. /\ r.trigger \in Nat /\ r.checkpoint = r.trigger + 1 /\ r.checkpoint <= drawn
          /\ n.trigger = drawn + 1 /\ n.checkpoint = n.trigger + 1
      BY <1>1, <1>2, <2>1
    <3>2. QED
      BY <1>0, <3>1
  <2>2. CASE p \in Plans /\ q \in Plans
    BY <2>2 DEF Inv, PlanInv
  <2>3. CASE p \in Plans /\ \E t \in Tab : Prepare(t) /\ q = NewPlan(t)
    BY <2>1, <2>3
  <2>4. CASE q \in Plans /\ \E t \in Tab : Prepare(t) /\ p = NewPlan(t)
    BY <2>1, <2>4
  <2>5. CASE /\ \E t \in Tab : Prepare(t) /\ p = NewPlan(t)
             /\ \E t \in Tab : Prepare(t) /\ q = NewPlan(t)
    <3>1. PICK t \in Tab, u \in Tab : /\ Prepare(t) /\ p = NewPlan(t)
                                      /\ Prepare(u) /\ q = NewPlan(u)
      BY <2>5
    <3>2. t = u
      <4>1. session[t].pc = "idle" /\ session'[t].pc = "mark" /\ session[t] \in Memory
        BY <3>1 DEF Prepare, Inv, TypeInv, Memory
      <4>2. t # u => session'[t] = session[t]
        BY <3>1 DEF Prepare, Inv, TypeInv
      <4>3. QED
        BY <4>1, <4>2
    <3>3. p.trigger = drawn + 1 /\ p.checkpoint = p.trigger + 1
      BY <1>2, <3>1
    <3>4. QED
      BY <1>0, <3>1, <3>2, <3>3
  <2>6. QED
    BY <2>2, <2>3, <2>4, <2>5, PlansMove
<1>5. QED
  BY <1>3, <1>4 DEF PlanInv

-----------------------------------------------------------------------------
(***************************************************************************)
(* What a tab remembers of the step before stays true.                     *)
(***************************************************************************)

(* The locals of the operation that a tab is in. *)
Remembers(m) ==
  /\ m.pc \in {"mark", "append", "abort", "load", "epoch", "checkpoint"} => m.plan # NoPlan
  /\ m.pc \in {"epoch", "checkpoint"} => m.loaded # Nothing
  /\ m.pc = "resolve" =>
       /\ m.seen # Nothing
       /\ m.seen.head \in DOMAIN events
       /\ m.seen.ancestors = Ancestors(events, m.seen.head)
  /\ m.pc = "persist" =>
       /\ m.update # Nothing
       /\ m.update.checkpoint \in DOMAIN events
       /\ m.update.ancestors = Ancestors(events, m.update.checkpoint)

(* The invariant of the sessions, tab by tab. *)
LEMMA SessionRemembers == SessionInv <=> \A t \in Tab : Remembers(session[t])
BY DEF SessionInv, Remembers

(* The empty values are none of those that an operation computes. *)
LEMMA EmptyValues ==
  /\ \A p \in Plan : p # NoPlan
  /\ \A l \in Projected : l # Nothing
  /\ \A s \in Observed : s # Nothing
  /\ \A u \in Update : u # Nothing
<1>1. \A p \in Plan : p # NoPlan
  BY IdsAreNumbers DEF Plan, NoPlan
<1>2. \A l \in Projected : DOMAIN l = {"epoch", "key"}
  BY DEF Projected
<1>3. \A s \in Observed : DOMAIN s = {"epoch", "head", "ancestors"}
  BY DEF Observed
<1>4. \A u \in Update : "how" \in DOMAIN u
  BY DEF Update
<1>5. DOMAIN Nothing = {"epoch"}
  BY DEF Nothing
<1>6. QED
  BY <1>1, <1>2, <1>3, <1>4, <1>5

(* A step keeps what every tab remembers true of the store: an *)
(* observation, a projection and an update only age.           *)
LEMMA SessionKept ==
  ASSUME Inv, Next
  PROVE  SessionInv'
<1>0. StoreStep
  BY StoreSteps
<1>1. PICK t \in Tab :
        \/ AddSecret(t) \/ MergeHeads(t) \/ SyncRotation(t) \/ AppendPair(t)
        \/ \E past \in SUBSET DOMAIN events : SyncContent(t, past)
        \/ Elsewhere(t)
  BY StepsOfTabs
<1>2. session \in [Tab -> Memory] /\ session[t] \in Memory
  BY DEF Inv, TypeInv
<1>3. \A x \in DOMAIN events : x \in DOMAIN events' /\ Ancestors(events', x) = Ancestors(events, x)
  BY <1>0, StoreGrows DEF Inv
<1>4. ASSUME NEW m, Remembers(m)
      PROVE  Remembers(m)'
  BY <1>3, <1>4 DEF Remembers
<1>5. \A u \in Tab : Remembers(session[u])
  BY SessionRemembers DEF Inv
<1>6. Remembers(session[t])
  BY <1>5
<1>7. ASSUME \A u \in Tab : u # t => session'[u] = session[u], Remembers(session[t])'
      PROVE  SessionInv'
  <2>1. ASSUME NEW u \in Tab, u # t
        PROVE  Remembers(session[u])'
    <3>1. PICK m : m = session[u]
      OBVIOUS
    <3>2. Remembers(m)' /\ m = session'[u]
      BY <1>4, <1>5, <1>7, <2>1, <3>1
    <3>3. QED
      BY <3>2
  <2>2. QED
    BY <1>7, <2>1 DEF SessionInv, Remembers
(* Steps after which the tab remembers nothing of its own, *)
<1>8. ASSUME NEW n, session' = [session EXCEPT ![t] = n],
             n.pc \in {"closed", "idle", "connecting", "observe", "clear"}
      PROVE  SessionInv'
  <2>1. session'[t].pc \in {"closed", "idle", "connecting", "observe", "clear"}
    BY <1>2, <1>8
  <2>2. Remembers(session[t])'
    BY <2>1 DEF Remembers
  <2>3. QED
    BY <1>2, <1>7, <1>8, <2>2
(* steps after which it remembers the same, *)
<1>9. ASSUME NEW n, session' = [session EXCEPT ![t] = n],
             \/ n.pc = session[t].pc
             \/ /\ session[t].pc \in {"mark", "append", "epoch"}
                /\ n.pc \in {"append", "load", "abort"} \cup {x \in {"checkpoint"} : session[t].pc = "epoch"},
             n.plan = session[t].plan, n.loaded = session[t].loaded,
             n.seen = session[t].seen, n.update = session[t].update
      PROVE  SessionInv'
  <2>1. Remembers(n)
    BY <1>6, <1>9 DEF Remembers
  <2>2. Remembers(n)' /\ n = session'[t]
    BY <1>2, <1>4, <1>9, <2>1
  <2>3. Remembers(session[t])'
    BY <2>2
  <2>4. QED
    BY <1>2, <1>7, <1>9, <2>3
<1>10. ASSUME Reset(t)
       PROVE  SessionInv'
  BY <1>8, <1>10 DEF Reset, Closed
<1>11. ASSUME NEW pc, Goto(t, pc),
              \/ pc \in {"idle", "observe", "clear"}
              \/ /\ session[t].pc \in {"mark", "append", "epoch"}
                 /\ pc \in {"append", "load", "abort"} \cup {x \in {"checkpoint"} : session[t].pc = "epoch"}
       PROVE  SessionInv'
  <2>1. PICK n : n = [session[t] EXCEPT !.pc = pc]
    OBVIOUS
  <2>2. session' = [session EXCEPT ![t] = n]
    BY <1>11, <2>1 DEF Goto
  <2>3. /\ n.pc = pc /\ n.plan = session[t].plan /\ n.loaded = session[t].loaded
        /\ n.seen = session[t].seen /\ n.update = session[t].update
    BY <1>2, <2>1 DEF Memory
  <2>4. QED
    BY <1>8, <1>9, <1>11, <2>2, <2>3
<1>12. ASSUME NEW pc, NEW e, NEW k, Adopt(t, pc, e, k),
              pc = "observe" \/ (session[t].pc = "epoch" /\ pc = "checkpoint")
       PROVE  SessionInv'
  <2>1. PICK n : n = [session[t] EXCEPT !.pc = pc, !.epoch = e, !.key = k,
                                        !.records = RecordKeys(events)]
    OBVIOUS
  <2>2. session' = [session EXCEPT ![t] = n]
    BY <1>12, <2>1 DEF Adopt
  <2>3. /\ n.pc = pc /\ n.plan = session[t].plan /\ n.loaded = session[t].loaded
        /\ n.seen = session[t].seen /\ n.update = session[t].update
    BY <1>2, <2>1 DEF Memory
  <2>4. QED
    BY <1>8, <1>9, <1>12, <2>2, <2>3
<1>13. CASE AddSecret(t) \/ MergeHeads(t)
  <2>1. PICK n : n = [session[t] EXCEPT !.records = RecordKeys(events')]
    OBVIOUS
  <2>2. session' = [session EXCEPT ![t] = n]
    BY <1>13, <2>1 DEF AddSecret, MergeHeads, AppendEvent
  <2>3. /\ n.pc = session[t].pc /\ n.plan = session[t].plan /\ n.loaded = session[t].loaded
        /\ n.seen = session[t].seen /\ n.update = session[t].update
    BY <1>2, <2>1 DEF Memory
  <2>4. QED
    BY <1>9, <2>2, <2>3
<1>14. CASE \/ SyncRotation(t) \/ SyncNothing(t)
            \/ \E past \in SUBSET DOMAIN events : SyncContent(t, past)
  <2>1. PICK n : n = [session[t] EXCEPT !.epoch = ProjectedEpoch(events'),
                                        !.key = CurrentKey(events'),
                                        !.records = RecordKeys(events')]
    OBVIOUS
  <2>2. session' = [session EXCEPT ![t] = n]
    BY <1>14, <2>1 DEF SyncContent, SyncRotation, SyncNothing, Refreshed
  <2>3. /\ n.pc = session[t].pc /\ n.plan = session[t].plan /\ n.loaded = session[t].loaded
        /\ n.seen = session[t].seen /\ n.update = session[t].update
    BY <1>2, <2>1 DEF Memory
  <2>4. QED
    BY <1>9, <2>2, <2>3
<1>15. CASE \/ Mark(t) \/ AppendPair(t) \/ Persist(t) \/ Crash(t) \/ CommitEpoch(t)
            \/ CommitCheckpoint(t)
  <2>1. CASE Mark(t)
    BY <1>11, <2>1 DEF Mark
  <2>2. CASE AppendPair(t)
    BY <1>11, <2>2 DEF AppendPair
  <2>3. CASE Persist(t) \/ Crash(t)
    BY <1>10, <1>11, <2>3 DEF Persist, Crash
  <2>4. CASE CommitEpoch(t)
    <3>1. /\ session[t].pc = "epoch"
          /\ Reset(t) \/ Goto(t, "checkpoint") \/ \E e, k : Adopt(t, "checkpoint", e, k)
      BY <2>4 DEF CommitEpoch
    <3>2. QED
      BY <1>10, <1>11, <1>12, <3>1
  <2>5. CASE CommitCheckpoint(t)
    <3>1. Reset(t) \/ Goto(t, "observe") \/ \E e, k : Adopt(t, "observe", e, k)
      BY <2>5 DEF CommitCheckpoint
    <3>2. Goto(t, "observe") => SessionInv'
      BY <1>11
    <3>3. ASSUME NEW e, NEW k, Adopt(t, "observe", e, k)
          PROVE  SessionInv'
      BY <1>12, <3>3, Zenon
    <3>4. QED
      BY <1>10, <3>1, <3>2, <3>3
  <2>6. QED
    BY <1>15, <2>1, <2>2, <2>3, <2>4, <2>5
<1>16. CASE Abort(t)
  <2>1. PICK n : n = [session[t] EXCEPT !.pc = "idle", !.plan = NoPlan]
    OBVIOUS
  <2>2. Reset(t) \/ session' = [session EXCEPT ![t] = n]
    BY <1>16, <2>1 DEF Abort
  <2>3. n.pc = "idle"
    BY <1>2, <2>1 DEF Memory
  <2>4. QED
    BY <1>8, <1>10, <2>2, <2>3
<1>17. CASE ClearConsumed(t) \/ Connect(t)
  <2>1. PICK n : session' = [session EXCEPT ![t] = n]
    BY <1>17 DEF ClearConsumed, Connect
  <2>2. n = session'[t]
    BY <1>2, <2>1
  <2>3. session'[t].pc \in {"observe", "idle", "connecting"}
    <3>1. CASE ClearConsumed(t)
      BY <1>2, <3>1 DEF ClearConsumed, Closed
    <3>2. CASE Connect(t)
      BY <1>2, <3>2 DEF Connect, Closed, Opened
    <3>3. QED
      BY <1>17, <3>1, <3>2
  <2>4. QED
    BY <1>8, <2>1, <2>2, <2>3
(* and steps that compute what the next ones work with. *)
<1>18. CASE Prepare(t)
  <2>1. PICK p : p = NewPlan(t)
    OBVIOUS
  <2>2. drawn \in Nat /\ p.trigger = drawn + 1
    BY <2>1 DEF NewPlan, Inv, TypeInv
  <2>3. p # NoPlan
    BY <2>2 DEF NoPlan
  <2>4. session' = [session EXCEPT ![t].pc = "mark", ![t].plan = p]
    BY <1>18, <2>1 DEF Prepare, NewPlan
  <2>5. session'[t].pc = "mark" /\ session'[t].plan = p
    BY <1>2, <2>4 DEF Memory
  <2>6. Remembers(session[t])'
    BY <2>3, <2>5 DEF Remembers
  <2>7. \A u \in Tab : u # t => session'[u] = session[u]
    BY <1>2, <2>4
  <2>8. QED
    BY <1>7, <2>6, <2>7
<1>19. CASE LoadProjection(t)
  <2>1. PICK l : l = [epoch |-> ProjectedEpoch(events), key |-> CurrentKey(events)]
    OBVIOUS
  <2>2. l # Nothing
    <3>1. l \in Projected
      BY <1>0, <2>1, NextProjection DEF Projected
    <3>2. QED
      BY <3>1, EmptyValues
  <2>3. session' = [session EXCEPT ![t].pc = "epoch", ![t].loaded = l] /\ session[t].pc = "load"
    BY <1>19, <2>1 DEF LoadProjection
  <2>4. /\ session'[t].pc = "epoch" /\ session'[t].loaded = l
        /\ session'[t].plan = session[t].plan
    BY <1>2, <2>3 DEF Memory
  <2>5. session[t].plan # NoPlan
    BY <1>6, <2>3 DEF Remembers
  <2>6. Remembers(session[t])'
    BY <2>2, <2>4, <2>5 DEF Remembers
  <2>7. \A u \in Tab : u # t => session'[u] = session[u]
    BY <1>2, <2>3
  <2>8. QED
    BY <1>7, <2>6, <2>7
<1>20. CASE Observe(t)
  <2>1. PICK h, s :
          /\ h \in Id /\ HeadsOf(events) = {h}
          /\ s = [epoch |-> session[t].epoch, head |-> h, ancestors |-> Ancestors(events, h)]
          /\ session' = [session EXCEPT ![t].pc = "resolve", ![t].seen = s]
    BY <1>20 DEF Observe
  <2>2. h \in DOMAIN events
    BY <2>1 DEF HeadsOf
  <2>3. s # Nothing
    BY <2>1 DEF Nothing
  <2>4. session'[t].pc = "resolve" /\ session'[t].seen = s
    BY <1>2, <2>1 DEF Memory
  <2>5. s.head = h /\ s.ancestors = Ancestors(events, h)
    BY <2>1
  <2>6. Remembers(session[t])'
    BY <1>3, <2>2, <2>3, <2>4, <2>5 DEF Remembers
  <2>7. \A u \in Tab : u # t => session'[u] = session[u]
    BY <1>2, <2>1
  <2>8. QED
    BY <1>7, <2>6, <2>7
<1>21. CASE Resolve(t)
  <2>1. session[t].pc = "resolve"
    BY <1>21 DEF Resolve
  <2>2. /\ session[t].seen.head \in DOMAIN events
        /\ session[t].seen.ancestors = Ancestors(events, session[t].seen.head)
    BY <1>6, <2>1 DEF Remembers
  <2>3. ASSUME NEW v, NEW c, Persists(t, v, c), v # Nothing,
               v.checkpoint = session[t].seen.head, v.ancestors = session[t].seen.ancestors
        PROVE  SessionInv'
    <3>1. session'[t].pc = "persist" /\ session'[t].update = v
      BY <1>2, <2>3 DEF Memory, Persists
    <3>2. \A u \in Tab : u # t => session'[u] = session[u]
      BY <1>2, <2>3 DEF Persists
    <3>3. Remembers(session[t])'
      BY <1>3, <2>2, <2>3, <3>1 DEF Remembers
    <3>4. QED
      BY <1>7, <3>2, <3>3
  <2>4. ASSUME NEW q
        PROVE  /\ Rotation(q, session[t].seen) # Nothing
               /\ Rotation(q, session[t].seen).checkpoint = session[t].seen.head
               /\ Rotation(q, session[t].seen).ancestors = session[t].seen.ancestors
    BY DEF Rotation, Nothing
  <2>5. /\ Observation(session[t].seen) # Nothing
        /\ Observation(session[t].seen).checkpoint = session[t].seen.head
        /\ Observation(session[t].seen).ancestors = session[t].seen.ancestors
    BY DEF Observation, Nothing
  <2>6. CASE Reset(t)
    BY <1>10, <2>6
  <2>7. CASE \E v \in Options(session[t].seen) : Persists(t, v, NoMarker)
    <3>1. PICK v \in Options(session[t].seen) : Persists(t, v, NoMarker)
      BY <2>7
    <3>2. v = Observation(session[t].seen) \/ \E q : v = Rotation(q, session[t].seen)
      BY <3>1 DEF Options
    <3>3. /\ v # Nothing /\ v.checkpoint = session[t].seen.head
          /\ v.ancestors = session[t].seen.ancestors
      BY <2>4, <2>5, <3>2
    <3>4. QED
      BY <2>3, <3>1, <3>3
  <2>8. CASE Persists(t, Rotation(marker.previousEpoch, session[t].seen), marker)
    <3>1. PICK v, c : /\ v = Rotation(marker.previousEpoch, session[t].seen)
                      /\ Persists(t, v, c)
      BY <2>8
    <3>2. QED
      BY <2>3, <2>4, <3>1
  <2>9. QED
    BY <1>2, <1>21, <2>6, <2>7, <2>8, ResolveOutcomes
<1>22. CASE Resume(t)
  <2>1. CASE Goto(t, "observe") \/ Reset(t)
    BY <1>10, <1>11, <2>1
  <2>2. CASE /\ Announced
             /\ session' = [session EXCEPT ![t].pc = "append", ![t].plan = marker.plan,
                                           ![t].resumes = TRUE]
    <3>1. marker.plan # NoPlan
      BY <2>2, MarkerFields, EmptyValues DEF Inv
    <3>2. session'[t].pc = "append" /\ session'[t].plan = marker.plan
      BY <1>2, <2>2 DEF Memory
    <3>3. Remembers(session[t])'
      BY <3>1, <3>2 DEF Remembers
    <3>4. \A u \in Tab : u # t => session'[u] = session[u]
      BY <1>2, <2>2
    <3>5. QED
      BY <1>7, <3>3, <3>4
  <2>3. QED
    BY <1>22, <2>1, <2>2 DEF Resume, Announced
<1>23. QED
  BY <1>1, <1>13, <1>14, <1>15, <1>16, <1>17, <1>18, <1>19, <1>20, <1>21, <1>22 DEF Elsewhere

-----------------------------------------------------------------------------
(***************************************************************************)
(* The invariant holds in every reachable state.                           *)
(***************************************************************************)

(* A vault begins with its root event and may have one rotation behind it. *)
LEMMA FirstStore ==
  ASSUME Init
  PROVE  /\ Graph(events) /\ Ordered(events)
         /\ drawn \in 1..3 /\ DOMAIN events \subseteq 1..drawn
         /\ \E R : /\ Graph(R) /\ DOMAIN R = {1} /\ R[1] = Root
                   /\ Rotates(R, FirstPlan)
                   /\ events = R \/ events = WithPair(R, FirstPlan)
<1> DEFINE R == Put([x \in {} |-> Root], 1, Root)
<1>0. {1, 2, 3} \subseteq Id /\ InitialEpoch \in Epoch
  BY EventsAssumption DEF Id, Epoch
<1>1. DOMAIN R = {1} /\ R[1] = Root /\ R \in [DOMAIN R -> Event]
  <2>1. Root \in Event
    BY <1>0 DEF Root, Created, Event, Kind, Author
  <2>2. QED
    BY <2>1 DEF Put
<1>2. Root.past = {} /\ Root.kind = "Root"
  BY DEF Root, Created
<1> HIDE DEF R
<1>3. Graph(R) /\ Ordered(R)
  <2>1. Rotations(R) = {}
    BY <1>1, <1>2 DEF Rotations
  <2>2. QED
    BY <1>0, <1>1, <1>2, <2>1 DEF Graph, Ordered
<1>4. Rotates(R, FirstPlan)
  <2>1. FirstPlan.trigger = 2 /\ FirstPlan.checkpoint = 3 /\ FirstPlan.past = {1}
    BY DEF FirstPlan
  <2>2. Pairable(FirstPlan)
    BY <1>0 DEF Pairable, FirstPlan, Author
  <2>3. QED
    BY <1>1, <2>1, <2>2 DEF Rotates
<1>5. events = R \/ events = WithPair(R, FirstPlan)
  BY DEF Init, R, WithPair, FirstPlan
<1>6. Graph(events) /\ Ordered(events)
  BY <1>3, <1>4, <1>5, RotatedIsGraph
<1>7. DOMAIN events = {1} \/ DOMAIN events = {1, 2, 3}
  <2>1. DOMAIN WithPair(R, FirstPlan) = DOMAIN R \cup {2, 3}
    <3>1. Pairable(FirstPlan)
      BY <1>4 DEF Rotates
    <3>2. FirstPlan.trigger = 2 /\ FirstPlan.checkpoint = 3
      BY DEF FirstPlan
    <3>3. DOMAIN WithPair(R, FirstPlan) = DOMAIN R \cup {FirstPlan.trigger, FirstPlan.checkpoint}
      BY <3>1, WithPairFacts
    <3>4. QED
      BY <3>2, <3>3
  <2>2. QED
    BY <1>1, <1>5, <2>1
<1>8. DOMAIN events = {1} => drawn = 1
  BY FS_Singleton DEF Init
<1>9. DOMAIN events = {1, 2, 3} => drawn = 3
  <2>1. Cardinality(1..3) = 3
    <3>1. 1 \in Int /\ 3 \in Int
      OBVIOUS
    <3>2. Cardinality(1..3) = IF 1 > 3 THEN 0 ELSE 3 - 1 + 1
      BY <3>1, FS_Interval
    <3>3. QED
      BY <3>2
  <2>2. 1..3 = {1, 2, 3}
    OBVIOUS
  <2>3. QED
    BY <2>1, <2>2 DEF Init
<1>10. drawn \in 1..3 /\ DOMAIN events \subseteq 1..drawn
  BY <1>7, <1>8, <1>9
<1>11. \E S : /\ Graph(S) /\ DOMAIN S = {1} /\ S[1] = Root
              /\ Rotates(S, FirstPlan)
              /\ events = S \/ events = WithPair(S, FirstPlan)
  BY <1>1, <1>3, <1>4, <1>5
<1>12. QED
  BY <1>6, <1>10, <1>11

(* The first store, the root with or without a rotation, satisfies the *)
(* invariant of any number of tabs.                                    *)
LEMMA InvHoldsAtFirst == Init => Inv
<1> SUFFICES ASSUME Init PROVE Inv
  OBVIOUS
<1>1. /\ Graph(events) /\ Ordered(events)
      /\ drawn \in 1..3 /\ DOMAIN events \subseteq 1..drawn
  BY FirstStore
<1>2. /\ Max(DOMAIN events) \in DOMAIN events /\ ProjectedEpoch(events) \in Epoch
      /\ CurrentKey(events) \in Epoch /\ RecordKeys(events) \in Records
      /\ DOMAIN events \subseteq Id
  BY <1>1, ProjectionIsTyped DEF Graph
<1>3. identity = [epoch |-> ProjectedEpoch(events), checkpoint |-> Max(DOMAIN events)]
  BY DEF Init
<1>4. marker = NoMarker /\ session = [t \in Tab |-> Opened(events)]
  BY DEF Init
<1>5. Opened(events) \in Memory /\ Opened(events).pc = "idle" /\ Opened(events).plan = NoPlan
  <2> DEFINE n == [Closed EXCEPT !.pc = "idle", !.epoch = ProjectedEpoch(events),
                                 !.key = CurrentKey(events), !.records = RecordKeys(events)]
  <2>1. Opened(events) = n
    BY DEF Opened
  <2>2. Closed \in Memory
    <3>1. [c \in {} |-> InitialEpoch] \in Records /\ InitialEpoch \in Epoch
      <4>1. {} \in SUBSET Id /\ [c \in {} |-> InitialEpoch] \in [{} -> Epoch]
        OBVIOUS
      <4>2. QED
        BY <4>1 DEF Records, Epoch
    <3>2. QED
      BY <3>1 DEF Closed, Memory, Pc
  <2>3. n \in Memory
    BY <1>2, <2>2, MemoryUpdates DEF Pc
  <2>4. n.pc = "idle" /\ n.plan = NoPlan
    BY DEF Closed
  <2>5. QED
    BY <2>1, <2>3, <2>4
<1>6. TypeInv
  BY <1>1, <1>2, <1>3, <1>4, <1>5 DEF TypeInv
<1>7. StoreInv
  BY <1>1, <1>2, <1>3 DEF StoreInv
<1>8. RoomInv
  BY <1>1, EventsAssumption DEF RoomInv
<1>9. Plans = {}
  BY <1>4, <1>5 DEF Plans, Announced, NoMarker
<1>10. PlanInv
  BY <1>9 DEF PlanInv
<1>11. SessionInv
  BY <1>4, <1>5 DEF SessionInv
<1>12. QED
  BY <1>6, <1>7, <1>8, <1>10, <1>11 DEF Inv

(* Every step keeps the invariant of any number of tabs. *)
LEMMA InvKept == Inv /\ [Next]_vars => Inv'
<1> SUFFICES ASSUME Inv, [Next]_vars PROVE Inv'
  OBVIOUS
<1>1. CASE Next
  BY <1>1, TypesKept, RoomKept, PlansKept, SessionKept DEF Inv
<1>2. CASE UNCHANGED vars
  BY <1>2 DEF vars, Inv, TypeInv, StoreInv, RoomInv, PlanInv, Planned, Plans, Announced,
     SessionInv
<1>3. QED
  BY <1>1, <1>2

(* Whatever the tabs do and whenever they are closed, the store holds      *)
(* whole rotations, each plan is in it entirely or not at all, and what a  *)
(* tab remembers of the store is still true of it (append_epoch_pair,      *)
(* mark, abort, ensure_identity_after_connect).                            *)
THEOREM RecoveryInvariant == Spec => []Inv
<1>1. Init => Inv
  BY InvHoldsAtFirst
<1>2. Inv /\ [Next]_vars => Inv'
  BY InvKept
<1>3. QED
  BY <1>1, <1>2, PTL DEF Spec

(* Rotations reach the store whole, and the directory and every tab hold   *)
(* epochs of the vault (append_epoch_pair, next_epoch).                    *)
THEOREM RecoveryTypes == Spec => []TypeOK
<1>1. Inv => TypeOK
  <2> SUFFICES ASSUME Inv PROVE TypeOK
    OBVIOUS
  <2>1. drawn \in Id
    <3>1. drawn \in Nat /\ DOMAIN events # {} /\ DOMAIN events \subseteq 1..drawn
      BY DEF Inv, TypeInv, StoreInv, Graph
    <3>2. drawn <= MaxEvents + 1
      BY <3>1, EventsAssumption DEF Inv, RoomInv
    <3>3. drawn >= 1
      <4>1. PICK x \in DOMAIN events : TRUE
        BY <3>1
      <4>2. x \in Nat /\ 1 <= x /\ x <= drawn
        BY <3>1, <4>1
      <4>3. QED
        BY <3>1, <4>2
    <3>4. QED
      BY <3>1, <3>2, <3>3, EventsAssumption DEF Id
  <2>2. \A t \in Tab : session[t].epoch \in Epoch
    BY DEF Inv, TypeInv, Memory
  <2>3. marker.stage \in {"None", "Prepared", "EpochCommitted", "Committed"}
    BY MarkerFields DEF Inv
  <2>4. QED
    BY <2>1, <2>2, <2>3 DEF TypeOK, Inv, TypeInv, StoreInv, Graph
<1>2. QED
  BY <1>1, RecoveryInvariant, PTL

(* However many tabs rotate the key, resume each other's rotations and     *)
(* retry them, of two rotations in the store one has seen the other        *)
(* (append_epoch_pair, union_remote).                                      *)
THEOREM NoForkOfEpochs == Spec => []EpochsNeverFork
<1>1. Inv => EpochsNeverFork
  BY DEF Inv, StoreInv, Ordered, EpochsNeverFork
<1>2. QED
  BY <1>1, RecoveryInvariant, PTL

(* A tab that persists what it resolved long ago does not take the         *)
(* directory back: the checkpoint recorded next has seen the one recorded  *)
(* before (next_epoch).                                                    *)
THEOREM IdentityNeverReturns == Spec => IdentityAdvances
<1>1. Inv /\ [Next]_vars =>
        [identity.checkpoint \in Ancestors(events, identity'.checkpoint)]_identity
  <2> SUFFICES ASSUME Inv, Next, identity' # identity
               PROVE  identity.checkpoint \in Ancestors(events, identity'.checkpoint)
    BY DEF vars
  <2>1. PICK t \in Tab :
          /\ Accepts(identity, session[t].update)
          /\ session[t].update.ancestors = Ancestors(events, session[t].update.checkpoint)
          /\ identity' = [epoch |-> session[t].update.epoch,
                          checkpoint |-> session[t].update.checkpoint]
    BY IdentityMoves
  <2>2. session[t].update.checkpoint \in session[t].update.ancestors
    BY <2>1 DEF Ancestors
  <2>3. identity.checkpoint \in session[t].update.ancestors
    BY <2>1, <2>2 DEF Accepts
  <2>4. QED
    BY <2>1, <2>3
<1>2. QED
  BY <1>1, RecoveryInvariant, PTL DEF Spec, IdentityAdvances

-----------------------------------------------------------------------------
(***************************************************************************)
(* One tab: the keys in the store.                                         *)
(***************************************************************************)
Checkpoints(E, S) == {x \in S : E[x].kind = "Checkpoint"}
ContentsOf(E, S) == {x \in S : E[x].kind = "Content"}

(* The key that the checkpoints among S agree on. *)
KeyOf(E, S) == Max({InitialEpoch} \cup {E[x].key : x \in Checkpoints(E, S)})

(* A checkpoint carries the contents that it has seen. Whoever is not in   *)
(* the past of a rotation has seen it. Everyone but a trigger uses the key *)
(* that it has seen and labels itself with it.                             *)
Carrying(E) ==
  \A x \in DOMAIN E :
    E[x].carries = IF E[x].kind = "Checkpoint" THEN ContentsOf(E, E[x].past) ELSE {}

Sealing(E) ==
  \A k \in DOMAIN E : E[k].kind = "Checkpoint" =>
    E[k].key = E[k].label /\ k = E[k].key + 1 /\ E[k].key \in E[k].past

Dividing(E) ==
  \A x \in DOMAIN E : \A r \in Rotations(E) : x \in Ancestors(E, r) \/ r \in Ancestors(E, x)

Labelling(E) ==
  \A x \in DOMAIN E : E[x].kind # "Trigger" =>
    E[x].key = E[x].label /\ E[x].key = KeyOf(E, Ancestors(E, x))

Keyed(E) == Carrying(E) /\ Sealing(E) /\ Dividing(E) /\ Labelling(E)

(* The key of a set of events is the initial one or the greatest key of *)
(* its checkpoints.                                                     *)
LEMMA KeyOfBounds ==
  ASSUME NEW E, Graph(E), NEW S \in SUBSET DOMAIN E
  PROVE  /\ KeyOf(E, S) \in Epoch /\ KeyOf(E, S) >= 0
         /\ \A x \in Checkpoints(E, S) : E[x].key <= KeyOf(E, S)
         /\ \/ KeyOf(E, S) = InitialEpoch
            \/ \E x \in Checkpoints(E, S) : KeyOf(E, S) = E[x].key
<1> DEFINE C == {InitialEpoch} \cup {E[x].key : x \in Checkpoints(E, S)}
<1>1. C \in SUBSET Epoch /\ C # {}
  BY DEF Graph, Event, Epoch, Checkpoints
<1> HIDE DEF C
<1>2. Max(C) \in C /\ \A y \in C : y <= Max(C)
  BY <1>1, MaxOfEpochs
<1>3. KeyOf(E, S) = Max(C)
  BY DEF KeyOf, C
<1>4. InitialEpoch \in C /\ \A x \in Checkpoints(E, S) : E[x].key \in C
  BY DEF C
<1>5. \A y \in C : y = InitialEpoch \/ \E x \in Checkpoints(E, S) : y = E[x].key
  BY DEF C
<1>6. QED
  BY <1>1, <1>2, <1>3, <1>4, <1>5 DEF InitialEpoch

(* The key depends on the checkpoints only. *)
LEMMA KeyOfSame ==
  ASSUME NEW E, NEW F, NEW S, NEW T, Checkpoints(E, S) = Checkpoints(F, T),
         \A x \in Checkpoints(E, S) : F[x].key = E[x].key
  PROVE  KeyOf(E, S) = KeyOf(F, T)
<1>1. {E[x].key : x \in Checkpoints(E, S)} = {F[x].key : x \in Checkpoints(F, T)}
  OBVIOUS
<1>2. QED
  BY <1>1 DEF KeyOf

(* Later checkpoints have later keys. *)
LEMMA LastCheckpoint ==
  ASSUME NEW E, Graph(E), Keyed(E), NEW S \in SUBSET DOMAIN E, Checkpoints(E, S) # {}
  PROVE  \E l \in Checkpoints(E, S) : /\ KeyOf(E, S) = E[l].key
                                      /\ \A x \in Checkpoints(E, S) : x <= l
<1>0. \A x \in Checkpoints(E, S) : /\ x \in DOMAIN E /\ x \in Nat /\ E[x].key \in Nat
                                   /\ x = E[x].key + 1 /\ E[x].key # InitialEpoch
                                   /\ E[x].key <= KeyOf(E, S)
  <2>1. ASSUME NEW x \in Checkpoints(E, S)
        PROVE  /\ x \in DOMAIN E /\ x \in Nat /\ E[x].key \in Nat
               /\ x = E[x].key + 1 /\ E[x].key # InitialEpoch
    <3>1. x \in DOMAIN E /\ E[x].kind = "Checkpoint" /\ E[x] \in Event /\ x \in Id
      BY DEF Checkpoints, Graph
    <3>2. x = E[x].key + 1 /\ E[x].key \in E[x].past /\ E[x].past \in SUBSET Id
      BY <3>1 DEF Keyed, Sealing, Event
    <3>3. E[x].key \in Id
      BY <3>2
    <3>4. QED
      BY <3>1, <3>2, <3>3, IdsAreNumbers DEF InitialEpoch
  <2>2. QED
    BY <2>1, KeyOfBounds
<1>1. KeyOf(E, S) \in Nat /\ KeyOf(E, S) >= 0
  BY KeyOfBounds, IdsAreNumbers
<1>2. KeyOf(E, S) # InitialEpoch
  BY <1>0, <1>1 DEF InitialEpoch
<1>3. PICK l \in Checkpoints(E, S) : KeyOf(E, S) = E[l].key
  BY <1>2, KeyOfBounds
<1>4. \A x \in Checkpoints(E, S) : x <= l
  BY <1>0, <1>3
<1>5. QED
  BY <1>3, <1>4

(* What a keyed store projects: one key for its label, and all records. *)
LEMMA KeyedProjection ==
  ASSUME NEW E, Graph(E), Keyed(E)
  PROVE  /\ CurrentKey(E) = KeyOf(E, DOMAIN E)
         /\ ProjectedEpoch(E) = CurrentKey(E)
         /\ \A c \in DOMAIN RecordKeys(E) : RecordKeys(E)[c] = CurrentKey(E)
<1>1. CurrentKey(E) = KeyOf(E, DOMAIN E)
  BY DEF CurrentKey, KeyOf, Checkpoints
<1>n. \A x \in DOMAIN E : x \in Nat /\ x \in Id /\ E[x] \in Event
  BY IdsAreNumbers DEF Graph
<1>2. ProjectedEpoch(E) = CurrentKey(E)
  <2> DEFINE m == Max(DOMAIN E)
  <2>1. m \in DOMAIN E /\ \A y \in DOMAIN E : y <= m
    BY ProjectionIsTyped
  <2>p. ProjectedEpoch(E) = E[m].label
    BY DEF ProjectedEpoch
  <2> HIDE DEF m
  <2>2. E[m].kind # "Trigger"
    <3>1. SUFFICES ASSUME E[m].kind = "Trigger" PROVE FALSE
      OBVIOUS
    <3>2. PICK c \in DOMAIN E : E[c].kind = "Checkpoint" /\ E[c].label = m
      BY <2>1, <3>1 DEF Graph
    <3>3. c = m + 1
      BY <3>2 DEF Keyed, Sealing
    <3>4. QED
      BY <1>n, <2>1, <3>3
  <2>3. \A r \in Rotations(E) : r \in Ancestors(E, m)
    <3>1. ASSUME NEW r \in Rotations(E), m \in Ancestors(E, r)
          PROVE  r = m
      <4>1. r \in DOMAIN E
        BY DEF Rotations
      <4>2. m \in E[r].past => m < r
        BY <4>1 DEF Graph
      <4>3. r <= m /\ r \in Nat /\ m \in Nat
        BY <1>n, <2>1, <4>1
      <4>4. QED
        BY <3>1, <4>2, <4>3 DEF Ancestors
    <3>2. QED
      BY <2>1, <3>1 DEF Keyed, Dividing, Ancestors
  <2>4. Checkpoints(E, Ancestors(E, m)) = Checkpoints(E, DOMAIN E)
    <3>1. Ancestors(E, m) \subseteq DOMAIN E
      BY <2>1 DEF Graph, Ancestors
    <3>2. QED
      BY <2>3, <3>1 DEF Checkpoints, Rotations
  <2>5. KeyOf(E, Ancestors(E, m)) = KeyOf(E, DOMAIN E)
    BY <2>4 DEF KeyOf
  <2>6. E[m].label = KeyOf(E, Ancestors(E, m))
    BY <2>1, <2>2 DEF Keyed, Labelling
  <2>7. QED
    BY <1>1, <2>p, <2>5, <2>6
<1>3. ASSUME NEW c \in DOMAIN RecordKeys(E)
      PROVE  RecordKeys(E)[c] = CurrentKey(E)
  <2> DEFINE W == {c} \cup {x \in DOMAIN E : c \in E[x].carries}
             y == Max(W)
  <2>1. c \in DOMAIN E /\ E[c].kind = "Content" /\ RecordKeys(E)[c] = E[y].key
    BY DEF RecordKeys
  <2>2. W \in SUBSET Epoch /\ c \in W
    BY <1>n, <2>1 DEF Epoch
  <2>w. \A x \in W : x = c \/ (x \in DOMAIN E /\ c \in E[x].carries)
    OBVIOUS
  <2>v. \A x \in DOMAIN E : c \in E[x].carries => x \in W
    OBVIOUS
  <2> HIDE DEF W
  <2>3. y \in W /\ \A x \in W : x <= y
    BY <2>2, MaxOfEpochs
  <2> HIDE DEF y
  <2>4. ASSUME NEW x \in W, x # c
        PROVE  x \in Checkpoints(E, DOMAIN E) /\ c \in E[x].past
    <3>1. x \in DOMAIN E /\ c \in E[x].carries
      BY <2>4, <2>w
    <3>2. E[x].carries = IF E[x].kind = "Checkpoint" THEN ContentsOf(E, E[x].past) ELSE {}
      BY <3>1 DEF Keyed, Carrying
    <3>3. E[x].kind = "Checkpoint" /\ c \in ContentsOf(E, E[x].past)
      BY <3>1, <3>2
    <3>4. QED
      BY <3>1, <3>3 DEF ContentsOf, Checkpoints
  <2>5. E[c].key = KeyOf(E, Ancestors(E, c)) /\ Ancestors(E, c) \subseteq DOMAIN E
    BY <2>1 DEF Keyed, Labelling, Graph, Ancestors
  <2>6. CASE Checkpoints(E, DOMAIN E) = {}
    <3>1. y = c
      BY <2>3, <2>4, <2>6
    <3>2. Checkpoints(E, Ancestors(E, c)) = Checkpoints(E, DOMAIN E)
      BY <2>5, <2>6 DEF Checkpoints
    <3>3. QED
      BY <1>1, <2>1, <2>5, <3>1, <3>2 DEF KeyOf
  <2>7. CASE Checkpoints(E, DOMAIN E) # {}
    <3>1. PICK l \in Checkpoints(E, DOMAIN E) :
            /\ KeyOf(E, DOMAIN E) = E[l].key
            /\ \A x \in Checkpoints(E, DOMAIN E) : x <= l
      BY <2>7, LastCheckpoint
    <3>2. l \in DOMAIN E /\ E[l].kind = "Checkpoint" /\ l \in Rotations(E) /\ l # c
      BY <2>1, <3>1 DEF Checkpoints, Rotations
    <3>3. CASE c \in Ancestors(E, l)
      <4>1. c \in E[l].past /\ c \in E[l].carries
        BY <2>1, <3>2, <3>3 DEF Ancestors, Keyed, Carrying, ContentsOf
      <4>2. c < l /\ l \in W
        BY <2>v, <3>2, <4>1 DEF Graph
      <4>3. l <= y /\ y # c
        <5>1. l <= y /\ l \in Nat /\ c \in Nat
          BY <1>n, <2>1, <2>3, <3>2, <4>2
        <5>2. QED
          BY <4>2, <5>1
      <4>4. y <= l
        BY <2>3, <2>4, <3>1, <4>3
      <4>5. y = l
        BY <1>n, <2>3, <2>4, <3>2, <4>3, <4>4 DEF Checkpoints
      <4>6. QED
        BY <1>1, <2>1, <3>1, <4>5
    <3>4. CASE l \in Ancestors(E, c)
      <4>1. l < c
        BY <2>1, <3>2, <3>4 DEF Ancestors, Graph
      <4>2. y = c
        <5>1. SUFFICES ASSUME y # c PROVE FALSE
          OBVIOUS
        <5>2. y \in Checkpoints(E, DOMAIN E) /\ c \in E[y].past
          BY <2>3, <2>4, <5>1
        <5>3. y <= l /\ c < y
          BY <3>1, <5>2 DEF Checkpoints, Graph
        <5>4. y \in Nat /\ l \in Nat /\ c \in Nat
          BY <1>n, <2>1, <3>2, <5>2 DEF Checkpoints
        <5>5. QED
          BY <4>1, <5>3, <5>4
      <4>3. l \in Checkpoints(E, Ancestors(E, c))
        BY <3>2, <3>4 DEF Checkpoints
      <4>4. E[l].key <= KeyOf(E, Ancestors(E, c))
        BY <2>5, <4>3, KeyOfBounds
      <4>5. KeyOf(E, Ancestors(E, c)) <= KeyOf(E, DOMAIN E)
        <5>1. \/ KeyOf(E, Ancestors(E, c)) = InitialEpoch
              \/ \E x \in Checkpoints(E, Ancestors(E, c)) : KeyOf(E, Ancestors(E, c)) = E[x].key
          BY <2>5, KeyOfBounds
        <5>2. Checkpoints(E, Ancestors(E, c)) \subseteq Checkpoints(E, DOMAIN E)
          BY <2>5 DEF Checkpoints
        <5>3. /\ KeyOf(E, DOMAIN E) >= 0
              /\ \A x \in Checkpoints(E, DOMAIN E) : E[x].key <= KeyOf(E, DOMAIN E)
          BY KeyOfBounds
        <5>4. QED
          BY <5>1, <5>2, <5>3 DEF InitialEpoch
      <4>6. /\ KeyOf(E, DOMAIN E) \in Nat /\ KeyOf(E, Ancestors(E, c)) \in Nat
        BY <2>5, KeyOfBounds, IdsAreNumbers
      <4>7. QED
        BY <1>1, <2>1, <2>5, <3>1, <4>2, <4>4, <4>5, <4>6
    <3>5. QED
      BY <2>1, <3>2, <3>3, <3>4 DEF Keyed, Dividing
  <2>8. QED
    BY <2>6, <2>7
<1>4. QED
  BY <1>1, <1>2, <1>3

(* An event that uses the key it has seen keeps the store keyed. *)
LEMMA GraftedIsKeyed ==
  ASSUME NEW E, Graph(E), Keyed(E), NEW x \in Id, x \notin DOMAIN E, NEW e, Grafts(E, e),
         e.key = CurrentKey(E), e.label = CurrentKey(E)
  PROVE  /\ Keyed(Put(E, x, e)) /\ CurrentKey(Put(E, x, e)) = CurrentKey(E)
         /\ Rotations(Put(E, x, e)) = Rotations(E)
<1> DEFINE G == Put(E, x, e)
<1>1. /\ DOMAIN G = DOMAIN E \cup {x} /\ G[x] = e
      /\ \A y \in DOMAIN E : G[y] = E[y]
  BY DEF Put
<1> HIDE DEF G
<1>2. /\ e.kind \in {"Content", "Merge"} /\ e.carries = {} /\ e.past \subseteq DOMAIN E
      /\ Rotations(E) \subseteq e.past
  BY DEF Grafts
<1>3. \A y \in DOMAIN E : /\ Ancestors(G, y) = Ancestors(E, y)
                          /\ Ancestors(E, y) \subseteq DOMAIN E /\ E[y].past \subseteq DOMAIN E
  BY <1>1 DEF Ancestors, Graph
<1>4. Rotations(G) = Rotations(E)
  BY <1>1, <1>2 DEF Rotations
<1>5. \A S \in SUBSET DOMAIN E : /\ Checkpoints(G, S) = Checkpoints(E, S)
                                 /\ ContentsOf(G, S) = ContentsOf(E, S)
  BY <1>1 DEF Checkpoints, ContentsOf
<1>6. \A S \in SUBSET DOMAIN E : KeyOf(G, S) = KeyOf(E, S)
  <2>1. ASSUME NEW S \in SUBSET DOMAIN E
        PROVE  KeyOf(G, S) = KeyOf(E, S)
    <3>1. \A y \in Checkpoints(E, S) : G[y].key = E[y].key
      BY <1>1 DEF Checkpoints
    <3>2. QED
      BY <1>5, <3>1, KeyOfSame
  <2>2. QED
    BY <2>1
<1>7. Carrying(G)
  BY <1>1, <1>2, <1>3, <1>5 DEF Keyed, Carrying
<1>8. Sealing(G)
  BY <1>1, <1>2 DEF Keyed, Sealing
<1>9. Dividing(G)
  <2>1. ASSUME NEW y \in DOMAIN G, NEW r \in Rotations(G)
        PROVE  y \in Ancestors(G, r) \/ r \in Ancestors(G, y)
    <3>1. r \in Rotations(E) /\ r \in DOMAIN E
      BY <1>4 DEF Rotations
    <3>2. CASE y \in DOMAIN E
      BY <1>3, <3>1, <3>2 DEF Keyed, Dividing
    <3>3. CASE y = x
      BY <1>1, <1>2, <3>1, <3>3 DEF Ancestors
    <3>4. QED
      BY <1>1, <3>2, <3>3
  <2>2. QED
    BY <2>1 DEF Dividing
<1>10. Checkpoints(G, Ancestors(G, x)) = Checkpoints(E, DOMAIN E)
  BY <1>1, <1>2, <1>4 DEF Checkpoints, Ancestors, Rotations
<1>11. KeyOf(G, Ancestors(G, x)) = CurrentKey(E)
  <2>1. KeyOf(E, DOMAIN E) = CurrentKey(E)
    BY KeyedProjection
  <2>2. \A y \in Checkpoints(E, DOMAIN E) : G[y].key = E[y].key
    BY <1>1 DEF Checkpoints
  <2>3. QED
    BY <1>10, <2>1, <2>2, KeyOfSame
<1>12. Labelling(G)
  <2>1. ASSUME NEW y \in DOMAIN G, G[y].kind # "Trigger"
        PROVE  G[y].key = G[y].label /\ G[y].key = KeyOf(G, Ancestors(G, y))
    <3>1. CASE y \in DOMAIN E
      <4>1. E[y].key = E[y].label /\ E[y].key = KeyOf(E, Ancestors(E, y))
        BY <1>1, <2>1, <3>1 DEF Keyed, Labelling
      <4>2. QED
        BY <1>1, <1>3, <1>6, <3>1, <4>1
    <3>2. CASE y = x
      BY <1>1, <1>11, <3>2
    <3>3. QED
      BY <1>1, <3>1, <3>2
  <2>2. QED
    BY <2>1 DEF Labelling
<1>13. CurrentKey(G) = CurrentKey(E)
  <2>1. Checkpoints(G, DOMAIN G) = Checkpoints(E, DOMAIN E)
    BY <1>1, <1>2 DEF Checkpoints
  <2>2. \A y \in Checkpoints(E, DOMAIN E) : G[y].key = E[y].key
    BY <1>1 DEF Checkpoints
  <2>3. KeyOf(G, DOMAIN G) = KeyOf(E, DOMAIN E)
    BY <2>1, <2>2, KeyOfSame
  <2>4. QED
    BY <2>3 DEF CurrentKey, KeyOf, Checkpoints
<1>14. QED
  BY <1>4, <1>7, <1>8, <1>9, <1>12, <1>13 DEF Keyed, G

(* So does a rotation that carries every content. *)
LEMMA RotatedIsKeyed ==
  ASSUME NEW E, Graph(E), Keyed(E), NEW p, Rotates(E, p), p.carries = Contents(E)
  PROVE  Keyed(WithPair(E, p))
<1> DEFINE G == WithPair(E, p)
           t == p.trigger
           c == p.checkpoint
<1>0. /\ Pairable(p) /\ t \in Id /\ c \in Id /\ c = t + 1 /\ t < c /\ c # t
      /\ t \notin DOMAIN E /\ c \notin DOMAIN E /\ p.past = DOMAIN E
      /\ \A y \in DOMAIN E : y < t
  BY IdsAreNumbers DEF Rotates, Pairable
<1>1. /\ DOMAIN G = DOMAIN E \cup {t, c}
      /\ \A y \in DOMAIN E \ {t, c} : G[y] = E[y]
      /\ G[t] = PairOf(p)[1] /\ G[c] = PairOf(p)[2]
  BY <1>0, WithPairFacts
<1>2. /\ PairOf(p)[1].kind = "Trigger" /\ PairOf(p)[2].kind = "Checkpoint"
      /\ PairOf(p)[1].past = DOMAIN E /\ PairOf(p)[2].past = DOMAIN E \cup {t}
      /\ PairOf(p)[1].carries = {} /\ PairOf(p)[2].carries = Contents(E)
      /\ PairOf(p)[1].key = t /\ PairOf(p)[2].key = t /\ PairOf(p)[2].label = t
  BY <1>0, PairFacts
<1> HIDE DEF G, t, c
<1>3. /\ \A y \in DOMAIN E : G[y] = E[y]
      /\ G[t].kind = "Trigger" /\ G[t].past = DOMAIN E /\ G[t].carries = {}
      /\ G[c].kind = "Checkpoint" /\ G[c].past = DOMAIN E \cup {t}
      /\ G[c].carries = Contents(E) /\ G[c].key = t /\ G[c].label = t
  BY <1>0, <1>1, <1>2
<1>4. \A y \in DOMAIN E : /\ Ancestors(G, y) = Ancestors(E, y)
                          /\ Ancestors(E, y) \subseteq DOMAIN E /\ E[y].past \subseteq DOMAIN E
  BY <1>3 DEF Ancestors, Graph
<1>5. \A S \in SUBSET DOMAIN E : /\ Checkpoints(G, S) = Checkpoints(E, S)
                                 /\ ContentsOf(G, S) = ContentsOf(E, S)
  BY <1>3 DEF Checkpoints, ContentsOf
<1>6. \A S \in SUBSET DOMAIN E : KeyOf(G, S) = KeyOf(E, S)
  <2>1. ASSUME NEW S \in SUBSET DOMAIN E
        PROVE  KeyOf(G, S) = KeyOf(E, S)
    <3>1. \A y \in Checkpoints(E, S) : G[y].key = E[y].key
      BY <1>3 DEF Checkpoints
    <3>2. QED
      BY <1>5, <3>1, KeyOfSame
  <2>2. QED
    BY <2>1
<1>7. Carrying(G)
  <2>1. ContentsOf(G, G[c].past) = Contents(E)
    BY <1>0, <1>3 DEF ContentsOf, Contents
  <2>2. ASSUME NEW y \in DOMAIN G
        PROVE  G[y].carries = IF G[y].kind = "Checkpoint" THEN ContentsOf(G, G[y].past) ELSE {}
    <3>1. CASE y \in DOMAIN E
      BY <1>3, <1>4, <1>5, <3>1 DEF Keyed, Carrying
    <3>2. CASE y = t \/ y = c
      BY <1>3, <2>1, <3>2
    <3>3. QED
      BY <1>1, <3>1, <3>2
  <2>3. QED
    BY <2>2 DEF Carrying
<1>8. Sealing(G)
  <2>1. ASSUME NEW y \in DOMAIN G, G[y].kind = "Checkpoint"
        PROVE  G[y].key = G[y].label /\ y = G[y].key + 1 /\ G[y].key \in G[y].past
    <3>1. CASE y \in DOMAIN E
      BY <1>3, <2>1, <3>1 DEF Keyed, Sealing
    <3>2. CASE y = t \/ y = c
      BY <1>0, <1>3, <2>1, <3>2
    <3>3. QED
      BY <1>1, <3>1, <3>2
  <2>2. QED
    BY <2>1 DEF Sealing
<1>9. Dividing(G)
  <2>1. \A y \in DOMAIN E : y \in Ancestors(G, t) /\ y \in Ancestors(G, c)
    BY <1>3 DEF Ancestors
  <2>2. t \in Ancestors(G, t) /\ t \in Ancestors(G, c) /\ c \in Ancestors(G, c)
    BY <1>3 DEF Ancestors
  <2>3. \A r \in Rotations(G) : r \in Rotations(E) \/ r \in {t, c}
    BY <1>1, <1>3 DEF Rotations
  <2>4. ASSUME NEW y \in DOMAIN E, NEW r \in Rotations(E)
        PROVE  y \in Ancestors(G, r) \/ r \in Ancestors(G, y)
    BY <1>4 DEF Rotations, Keyed, Dividing
  <2>5. \A r \in Rotations(E) : r \in DOMAIN E
    BY DEF Rotations
  <2>6. ASSUME NEW y \in DOMAIN G, NEW r \in Rotations(G)
        PROVE  y \in Ancestors(G, r) \/ r \in Ancestors(G, y)
    BY <1>1, <2>1, <2>2, <2>3, <2>4, <2>5
  <2>7. QED
    BY <2>6 DEF Dividing
<1>10. KeyOf(G, Ancestors(G, c)) = t
  <2> DEFINE A == Ancestors(G, c)
             C == {InitialEpoch} \cup {G[x].key : x \in Checkpoints(G, A)}
  <2>1. A = DOMAIN E \cup {t, c}
    BY <1>3 DEF Ancestors
  <2>2. c \in Checkpoints(G, A) /\ t \in C
    BY <1>3, <2>1 DEF Checkpoints
  <2>3. ASSUME NEW x \in Checkpoints(G, A), x # c
        PROVE  G[x].key < t /\ G[x].key \in Epoch
    <3>1. x \in DOMAIN E /\ E[x].kind = "Checkpoint" /\ G[x] = E[x]
      BY <1>3, <2>1, <2>3 DEF Checkpoints
    <3>2. x = E[x].key + 1 /\ E[x].key \in E[x].past
      BY <3>1 DEF Keyed, Sealing
    <3>3. E[x].key \in DOMAIN E /\ E[x].key \in Id
      BY <3>1, <3>2 DEF Graph
    <3>4. QED
      BY <1>0, <3>1, <3>3 DEF Epoch
  <2>4. \A x \in C : x = InitialEpoch \/ x = t \/ (x \in Epoch /\ x < t)
    BY <1>3, <2>3
  <2> HIDE DEF C
  <2>5. t \in Nat /\ t > 0 /\ t \in Epoch
    BY <1>0, IdsAreNumbers DEF Epoch
  <2>6. C \in SUBSET Epoch
    BY <2>4, <2>5 DEF Epoch
  <2>7. \A y \in C : y <= t
    <3>1. \A y \in Epoch : y \in Nat
      BY IdsAreNumbers
    <3>2. ASSUME NEW y \in C
          PROVE  y <= t
      <4>1. CASE y = InitialEpoch
        BY <2>5, <4>1 DEF InitialEpoch
      <4>2. CASE y = t
        BY <2>5, <4>2
      <4>3. CASE y \in Epoch /\ y < t
        BY <2>5, <3>1, <4>3
      <4>4. QED
        BY <2>4, <3>2, <4>1, <4>2, <4>3
    <3>3. QED
      BY <3>2
  <2>8. Max(C) = t
    BY <2>2, <2>6, <2>7, MaxIs
  <2>9. QED
    BY <2>8 DEF KeyOf, C
<1>11. Labelling(G)
  <2>1. ASSUME NEW y \in DOMAIN G, G[y].kind # "Trigger"
        PROVE  G[y].key = G[y].label /\ G[y].key = KeyOf(G, Ancestors(G, y))
    <3>1. CASE y \in DOMAIN E
      <4>1. E[y].key = E[y].label /\ E[y].key = KeyOf(E, Ancestors(E, y))
        BY <1>3, <2>1, <3>1 DEF Keyed, Labelling
      <4>2. QED
        BY <1>3, <1>4, <1>6, <3>1, <4>1
    <3>2. CASE y = t
      BY <1>3, <2>1, <3>2
    <3>3. CASE y = c
      BY <1>3, <1>10, <3>3
    <3>4. QED
      BY <1>1, <3>1, <3>2, <3>3
  <2>2. QED
    BY <2>1 DEF Labelling
<1>12. QED
  BY <1>7, <1>8, <1>9, <1>11 DEF Keyed, G

(* The part of a keyed store that an event knows is keyed. *)
LEMMA KnownIsKeyed ==
  ASSUME NEW E, Graph(E), Keyed(E), NEW S \in SUBSET DOMAIN E, S # {},
         Rotations(E) \subseteq S, \A x \in S : E[x].past \subseteq S
  PROVE  /\ Keyed(Known(E, S))
         /\ CurrentKey(Known(E, S)) = CurrentKey(E)
         /\ ProjectedEpoch(Known(E, S)) = CurrentKey(E)
<1> DEFINE K == Known(E, S)
<1>1. DOMAIN K = S /\ \A x \in S : K[x] = E[x]
  BY DEF Known
<1>2. Graph(K)
  BY KnownIsGraph
<1> HIDE DEF K
<1>3. \A x \in S : /\ Ancestors(K, x) = Ancestors(E, x) /\ Ancestors(E, x) \subseteq S
                   /\ E[x].past \subseteq S /\ x \in DOMAIN E
  BY <1>1 DEF Ancestors
<1>4. \A T \in SUBSET S : /\ Checkpoints(K, T) = Checkpoints(E, T)
                          /\ ContentsOf(K, T) = ContentsOf(E, T)
  BY <1>1 DEF Checkpoints, ContentsOf
<1>5. \A T \in SUBSET S : KeyOf(K, T) = KeyOf(E, T)
  <2>1. ASSUME NEW T \in SUBSET S
        PROVE  KeyOf(K, T) = KeyOf(E, T)
    <3>1. \A y \in Checkpoints(E, T) : K[y].key = E[y].key
      BY <1>1 DEF Checkpoints
    <3>2. QED
      BY <1>4, <3>1, KeyOfSame
  <2>2. QED
    BY <2>1
<1>6. Rotations(K) = Rotations(E)
  BY <1>1 DEF Rotations
<1>7. Carrying(K)
  BY <1>1, <1>3, <1>4 DEF Keyed, Carrying
<1>8. Sealing(K)
  BY <1>1, <1>3 DEF Keyed, Sealing
<1>9. Dividing(K)
  <2>1. ASSUME NEW y \in DOMAIN K, NEW r \in Rotations(K)
        PROVE  y \in Ancestors(K, r) \/ r \in Ancestors(K, y)
    <3>1. r \in S /\ y \in S /\ r \in Rotations(E)
      BY <1>1, <1>6
    <3>2. QED
      BY <1>3, <3>1 DEF Keyed, Dividing
  <2>2. QED
    BY <2>1 DEF Dividing
<1>10. Labelling(K)
  <2>1. ASSUME NEW y \in DOMAIN K, K[y].kind # "Trigger"
        PROVE  K[y].key = K[y].label /\ K[y].key = KeyOf(K, Ancestors(K, y))
    <3>1. y \in S /\ K[y] = E[y]
      BY <1>1
    <3>2. E[y].key = E[y].label /\ E[y].key = KeyOf(E, Ancestors(E, y))
      BY <1>3, <2>1, <3>1 DEF Keyed, Labelling
    <3>3. QED
      BY <1>3, <1>5, <3>1, <3>2
  <2>2. QED
    BY <2>1 DEF Labelling
<1>11. Keyed(K)
  BY <1>7, <1>8, <1>9, <1>10 DEF Keyed
<1>12. CurrentKey(K) = CurrentKey(E)
  <2>1. Checkpoints(K, S) = Checkpoints(E, DOMAIN E)
    BY <1>1 DEF Checkpoints, Rotations
  <2>2. \A y \in Checkpoints(E, DOMAIN E) : E[y].key = K[y].key
    BY <1>1, <2>1 DEF Checkpoints
  <2>3. KeyOf(K, S) = KeyOf(E, DOMAIN E)
    BY <2>1, <2>2, KeyOfSame
  <2>4. QED
    BY <1>1, <1>2, <1>11, <2>3, KeyedProjection
<1>13. QED
  BY <1>2, <1>11, <1>12, KeyedProjection DEF K

-----------------------------------------------------------------------------
(***************************************************************************)
(* One tab: the invariant.                                                 *)
(***************************************************************************)

(* The tab holds what the store projects, *)
Fresh(t) ==
  /\ session[t].epoch = CurrentKey(events) /\ session[t].key = CurrentKey(events)
  /\ DOMAIN session[t].records = Contents(events)

(* except while it takes a rotation that is in the store already. *)
Behind(t) ==
  \/ session[t].pc \in {"closed", "load", "epoch"}
  \/ session[t].pc = "checkpoint" /\ Advanced(t)

FreshTab(t) ==
  /\ Behind(t) \/ Fresh(t)
  /\ session[t].pc \in {"epoch", "checkpoint"} =>
       session[t].loaded.epoch = CurrentKey(events) /\ session[t].loaded.key = CurrentKey(events)

FreshInv == \A t \in Tab : FreshTab(t)

(* A plan carries the contents that its trigger will have seen. *)
CarryInv == \A p \in Plans : p.carries = ContentsOf(events, p.past)

(* The marker announces the plan of the rotation under way; what it says   *)
(* of the epoch is in the store, and it is cleared once the identity has   *)
(* seen that epoch.                                                        *)
MarkerInv ==
  /\ marker.stage = "EpochCommitted" =>
       marker.epoch = marker.plan.trigger /\ marker.epoch \in DOMAIN events
  /\ marker.stage = "Committed" =>
       marker.epoch \in DOMAIN events /\ events[marker.epoch].kind = "Trigger"

FollowTab(t) ==
  /\ session[t].pc = "mark" => session[t].plan.trigger \notin DOMAIN events
  /\ session[t].pc \in {"append", "abort", "load", "epoch", "checkpoint"} =>
       Announced /\ marker.plan = session[t].plan
  /\ session[t].pc = "abort" => session[t].plan.trigger \notin DOMAIN events
  /\ session[t].pc \in {"load", "epoch", "checkpoint"} =>
       session[t].plan.trigger \in DOMAIN events
  /\ session[t].pc = "checkpoint" => marker.stage = "EpochCommitted"
  /\ session[t].pc = "persist" /\ session[t].consumes # NoMarker =>
       session[t].consumes.epoch \in session[t].update.ancestors
  /\ session[t].pc = "clear" /\ session[t].consumes # NoMarker =>
       session[t].consumes.epoch \in Ancestors(events, identity.checkpoint)

FollowInv == \A t \in Tab : FollowTab(t)

OneTabInv == Inv /\ Keyed(events) /\ FreshInv /\ CarryInv /\ MarkerInv /\ FollowInv

(* A store grown by an event that uses the current key. *)
LEMMA GraftUnderCurrentKey ==
  ASSUME TypeInv, StoreInv, Keyed(events), Grafted,
         events'[drawn + 1].key = CurrentKey(events), events'[drawn + 1].label = CurrentKey(events)
  PROVE  Keyed(events') /\ CurrentKey(events') = CurrentKey(events)
<1>1. PICK e : /\ Grafts(events, e)
               /\ events' = Put(events, drawn + 1, e)
               /\ drawn' = drawn + 1 /\ drawn + 1 \in Id
  BY DEF Grafted
<1>2. events'[drawn + 1] = e
  BY <1>1 DEF Put
<1>3. drawn + 1 \notin DOMAIN events
  BY NextIds
<1>4. QED
  BY <1>1, <1>2, <1>3, GraftedIsKeyed DEF StoreInv

(* This device writes under the current key while its tab is fresh. *)
LEMMA AppendIsKeyed ==
  ASSUME OneTabInv, NEW t \in Tab, AddSecret(t) \/ MergeHeads(t)
  PROVE  /\ Keyed(events') /\ CurrentKey(events') = CurrentKey(events)
         /\ session' = [session EXCEPT ![t].records = RecordKeys(events')]
         /\ session[t].pc \in {"idle", "observe"} /\ Grafted
<1>1. PICK kind \in {"Content", "Merge"} : AppendEvent(t, kind)
  BY DEF AddSecret, MergeHeads
<1>2. drawn <= MaxEvents
  BY MergeHasRoom, EventsAssumption DEF AddSecret, OneTabInv, Inv, TypeInv
<1>3. Grafted
  BY <1>1, <1>2, AppendIsGraft DEF OneTabInv
<1>4. session[t].pc \in {"idle", "observe"}
  BY DEF AddSecret, MergeHeads
<1>5. Fresh(t)
  BY <1>4 DEF OneTabInv, FreshInv, FreshTab, Behind
<1>6. events'[drawn + 1] = Created("self", kind, DOMAIN events, session[t].epoch, session[t].key, {})
  BY <1>1 DEF AppendEvent, Put
<1>7. events'[drawn + 1].key = CurrentKey(events) /\ events'[drawn + 1].label = CurrentKey(events)
  BY <1>5, <1>6 DEF Created, Fresh
<1>8. Keyed(events') /\ CurrentKey(events') = CurrentKey(events)
  BY <1>3, <1>7, GraftUnderCurrentKey DEF OneTabInv, Inv
<1>9. QED
  BY <1>1, <1>3, <1>4, <1>8 DEF AppendEvent

(* So does another member, who has seen all rotations. *)
LEMMA SyncIsKeyed ==
  ASSUME OneTabInv, NEW t \in Tab, NEW past \in SUBSET DOMAIN events, SyncContent(t, past)
  PROVE  Keyed(events') /\ Grafted
<1> DEFINE E == Known(events, past)
<1>1. Grafted
  BY SyncIsGraft DEF OneTabInv
<1>2. /\ past # {} /\ Rotations(events) \subseteq past
      /\ \A x \in past : events[x].past \subseteq past
  BY DEF SyncContent
<1>3. ProjectedEpoch(E) = CurrentKey(events) /\ CurrentKey(E) = CurrentKey(events)
  BY <1>2, KnownIsKeyed DEF OneTabInv, Inv, StoreInv
<1>4. events'[drawn + 1] = Created("other", "Content", past, ProjectedEpoch(E), CurrentKey(E), {})
  BY DEF SyncContent, Put, Known
<1> HIDE DEF E
<1>5. events'[drawn + 1].key = CurrentKey(events) /\ events'[drawn + 1].label = CurrentKey(events)
  BY <1>3, <1>4 DEF Created
<1>6. QED
  BY <1>1, <1>5, GraftUnderCurrentKey DEF OneTabInv, Inv

(* A planned rotation that enters the store carries all contents. *)
LEMMA AppendPairIsKeyed ==
  ASSUME OneTabInv, NEW t \in Tab, AppendPair(t)
  PROVE  Keyed(events')
<1>1. CASE events' = events
  BY <1>1 DEF OneTabInv
<1>2. CASE Rotates(events, session[t].plan) /\ events' = WithPair(events, session[t].plan)
  <2>1. PICK p : p = session[t].plan
    OBVIOUS
  <2>2. p \in Plans
    <3>1. p # NoPlan
      BY <2>1 DEF AppendPair, OneTabInv, Inv, SessionInv
    <3>2. QED
      BY <2>1, <3>1 DEF Plans
  <2>3. p.carries = ContentsOf(events, p.past) /\ p.past = DOMAIN events
    BY <1>2, <2>1, <2>2 DEF OneTabInv, CarryInv, Rotates
  <2>4. p.carries = Contents(events)
    BY <2>3 DEF ContentsOf, Contents
  <2>5. QED
    BY <1>2, <2>1, <2>4, RotatedIsKeyed DEF OneTabInv, Inv, StoreInv
<1>3. QED
  BY <1>1, <1>2, AppendPairInStore DEF OneTabInv

(* With one tab, every step keeps each event of the store under the key *)
(* of its own history, and the checkpoints in one chain.                *)
LEMMA StoreStaysKeyed ==
  ASSUME OneTabInv, Next
  PROVE  Keyed(events')
<1>1. PICK t \in Tab :
        \/ AddSecret(t) \/ MergeHeads(t) \/ SyncRotation(t) \/ AppendPair(t)
        \/ \E past \in SUBSET DOMAIN events : SyncContent(t, past)
        \/ Elsewhere(t)
  BY StepsOfTabs
<1>2. CASE AddSecret(t) \/ MergeHeads(t)
  BY <1>2, AppendIsKeyed
<1>3. CASE SyncRotation(t)
  <2>1. PICK p : /\ Rotates(events, p) /\ events' = WithPair(events, p)
                 /\ p.carries = Contents(events)
    BY <1>3, SyncIsRotation DEF OneTabInv
  <2>2. QED
    BY <2>1, RotatedIsKeyed DEF OneTabInv, Inv, StoreInv
<1>4. CASE AppendPair(t)
  BY <1>4, AppendPairIsKeyed
<1>5. CASE \E past \in SUBSET DOMAIN events : SyncContent(t, past)
  BY <1>5, SyncIsKeyed
<1>6. CASE Elsewhere(t)
  BY <1>6, ElsewhereInStore DEF OneTabInv
<1>7. QED
  BY <1>1, <1>2, <1>3, <1>4, <1>5, <1>6

(* A tab stays fresh, or catches up with the rotation that it takes. *)
LEMMA TabStaysFresh ==
  ASSUME OneTabInv, Next, \A t, u \in Tab : t = u
  PROVE  FreshInv'
<1>0. Keyed(events') /\ StoreStep /\ Keyed(events) /\ Graph(events) /\ Graph(events')
  BY StoreStaysKeyed, StoreSteps, StoreGrows DEF OneTabInv, Inv, StoreInv
<1>p. /\ ProjectedEpoch(events) = CurrentKey(events) /\ DOMAIN RecordKeys(events) = Contents(events)
      /\ ProjectedEpoch(events') = CurrentKey(events')
      /\ DOMAIN RecordKeys(events') = Contents(events')
  BY <1>0, KeyedProjection, ProjectionIsTyped
<1>1. PICK t \in Tab :
        \/ AddSecret(t) \/ MergeHeads(t) \/ SyncRotation(t) \/ AppendPair(t)
        \/ \E past \in SUBSET DOMAIN events : SyncContent(t, past)
        \/ Elsewhere(t)
  BY StepsOfTabs
<1>2. session \in [Tab -> Memory] /\ session[t] \in Memory /\ FreshTab(t)
  BY DEF OneTabInv, Inv, TypeInv, FreshInv
<1>3. SUFFICES FreshTab(t)'
  BY DEF FreshInv
(* The tab refreshes, *)
<1>4. ASSUME session'[t].epoch = CurrentKey(events'), session'[t].key = CurrentKey(events'),
             DOMAIN session'[t].records = Contents(events'),
             session'[t].pc \notin {"epoch", "checkpoint"}
      PROVE  FreshTab(t)'
  BY <1>4 DEF FreshTab, Fresh
(* or leaves things as they are while the store does not change, *)
<1>5. ASSUME events' = events, ~Behind(t),
             session'[t].epoch = session[t].epoch, session'[t].key = session[t].key,
             session'[t].records = session[t].records,
             session'[t].pc \notin {"epoch", "checkpoint"}
      PROVE  FreshTab(t)'
  BY <1>2, <1>5 DEF FreshTab, Fresh
(* or closes. *)
<1>6. ASSUME session'[t].pc \in {"closed", "load"}
      PROVE  FreshTab(t)'
  BY <1>6 DEF FreshTab, Behind
<1>7. ASSUME Reset(t)
      PROVE  FreshTab(t)'
  BY <1>2, <1>6, <1>7 DEF Reset, Closed
<1>8. ASSUME events' = events, ~Behind(t), NEW pc, Goto(t, pc), pc \notin {"epoch", "checkpoint"}
      PROVE  FreshTab(t)'
  <2>1. /\ session'[t].epoch = session[t].epoch /\ session'[t].key = session[t].key
        /\ session'[t].records = session[t].records /\ session'[t].pc = pc
    BY <1>2, <1>8 DEF Goto, Memory
  <2>2. QED
    BY <1>5, <1>8, <2>1
<1>9. CASE AddSecret(t) \/ MergeHeads(t)
  <2>1. /\ CurrentKey(events') = CurrentKey(events)
        /\ session' = [session EXCEPT ![t].records = RecordKeys(events')]
        /\ session[t].pc \in {"idle", "observe"}
    BY <1>9, AppendIsKeyed
  <2>2. Fresh(t)
    BY <1>2, <2>1 DEF FreshTab, Behind
  <2>3. /\ session'[t].epoch = session[t].epoch /\ session'[t].key = session[t].key
        /\ session'[t].records = RecordKeys(events') /\ session'[t].pc = session[t].pc
    BY <1>2, <2>1 DEF Memory
  <2>4. QED
    BY <1>p, <1>4, <2>1, <2>2, <2>3 DEF Fresh
<1>10. CASE \/ SyncRotation(t) \/ SyncNothing(t)
            \/ \E past \in SUBSET DOMAIN events : SyncContent(t, past)
  <2>1. session' = Refreshed(t, events') /\ session[t].pc \in {"idle", "connecting"}
    BY <1>10 DEF SyncContent, SyncRotation, SyncNothing, MaySync
  <2>2. /\ session'[t].epoch = ProjectedEpoch(events') /\ session'[t].key = CurrentKey(events')
        /\ session'[t].records = RecordKeys(events') /\ session'[t].pc = session[t].pc
    BY <1>2, <2>1 DEF Memory, Refreshed
  <2>3. QED
    BY <1>p, <1>4, <2>1, <2>2
<1>11. CASE AppendPair(t)
  <2>1. CASE Goto(t, "load")
    <3>1. session'[t].pc = "load"
      BY <1>2, <2>1 DEF Goto, Memory
    <3>2. QED
      BY <1>6, <3>1
  <2>2. CASE Goto(t, "abort") /\ events' = events
    <3>1. ~Behind(t)
      BY <1>11 DEF AppendPair, Behind
    <3>2. QED
      BY <1>8, <2>2, <3>1
  <2>3. QED
    BY <1>11, <2>1, <2>2 DEF AppendPair
<1>12. CASE Prepare(t)
  <2>1. ~Behind(t) /\ events' = events
    BY <1>12 DEF Prepare, Behind
  <2>2. session' = [session EXCEPT ![t].pc = "mark", ![t].plan = NewPlan(t)]
    BY <1>12 DEF Prepare, NewPlan
  <2>3. /\ session'[t].epoch = session[t].epoch /\ session'[t].key = session[t].key
        /\ session'[t].records = session[t].records /\ session'[t].pc = "mark"
    BY <1>2, <2>2 DEF Memory
  <2>4. QED
    BY <1>5, <2>1, <2>3
<1>13. CASE Mark(t)
  <2>1. ~Behind(t) /\ events' = events /\ (Goto(t, "append") \/ Goto(t, "idle"))
    BY <1>13 DEF Mark, Behind
  <2>2. QED
    BY <1>8, <2>1
<1>14. CASE Abort(t)
  <2>1. ~Behind(t) /\ events' = events
    BY <1>14 DEF Abort, Behind
  <2>2. CASE session' = [session EXCEPT ![t].pc = "idle", ![t].plan = NoPlan]
    <3>1. /\ session'[t].epoch = session[t].epoch /\ session'[t].key = session[t].key
          /\ session'[t].records = session[t].records /\ session'[t].pc = "idle"
      BY <1>2, <2>2 DEF Memory
    <3>2. QED
      BY <1>5, <2>1, <3>1
  <2>3. QED
    BY <1>7, <1>14, <2>2 DEF Abort
<1>15. CASE LoadProjection(t)
  <2>1. PICK l : l = [epoch |-> ProjectedEpoch(events), key |-> CurrentKey(events)]
    OBVIOUS
  <2>2. session' = [session EXCEPT ![t].pc = "epoch", ![t].loaded = l] /\ events' = events
    BY <1>15, <2>1 DEF LoadProjection
  <2>3. session'[t].pc = "epoch" /\ session'[t].loaded = l
    BY <1>2, <2>2 DEF Memory
  <2>4. l.epoch = CurrentKey(events') /\ l.key = CurrentKey(events')
    BY <1>p, <2>1, <2>2
  <2>5. QED
    BY <2>3, <2>4 DEF FreshTab, Behind
<1>16. CASE CommitEpoch(t)
  <2>1. /\ session[t].pc = "epoch" /\ events' = events
        /\ session[t].loaded.epoch = CurrentKey(events)
        /\ session[t].loaded.key = CurrentKey(events)
    BY <1>2, <1>16 DEF CommitEpoch, FreshTab
  <2>2. CASE Advanced(t) /\ Goto(t, "checkpoint")
    <3>1. /\ session'[t].pc = "checkpoint" /\ session'[t].loaded = session[t].loaded
          /\ session'[t].plan = session[t].plan
      BY <1>2, <2>2 DEF Goto, Memory
    <3>2. QED
      BY <2>1, <2>2, <3>1 DEF FreshTab, Behind, Advanced
  <2>3. CASE ~Advanced(t) /\ Adopt(t, "checkpoint", session[t].plan.trigger, session[t].plan.trigger)
    <3>1. session[t].plan.trigger = CurrentKey(events)
      BY <2>1, <2>3 DEF Advanced
    <3>2. /\ session'[t].pc = "checkpoint" /\ session'[t].loaded = session[t].loaded
          /\ session'[t].epoch = session[t].plan.trigger
          /\ session'[t].key = session[t].plan.trigger
          /\ session'[t].records = RecordKeys(events)
      BY <1>2, <2>3 DEF Adopt, Memory
    <3>3. QED
      BY <1>p, <2>1, <3>1, <3>2 DEF FreshTab, Fresh
  <2>4. QED
    BY <1>7, <1>16, <2>2, <2>3 DEF CommitEpoch
<1>17. CASE CommitCheckpoint(t)
  <2>1. /\ session[t].pc = "checkpoint" /\ events' = events
        /\ session[t].loaded.epoch = CurrentKey(events)
        /\ session[t].loaded.key = CurrentKey(events)
    BY <1>2, <1>17 DEF CommitCheckpoint, FreshTab
  <2>2. CASE Adopt(t, "observe", session[t].loaded.epoch, session[t].loaded.key)
    <3>1. /\ session'[t].pc = "observe"
          /\ session'[t].epoch = session[t].loaded.epoch
          /\ session'[t].key = session[t].loaded.key
          /\ session'[t].records = RecordKeys(events)
      BY <1>2, <2>2 DEF Adopt, Memory
    <3>2. QED
      BY <1>p, <1>4, <2>1, <3>1
  <2>3. CASE ~Advanced(t) /\ Goto(t, "observe")
    <3>1. ~Behind(t)
      BY <2>1, <2>3 DEF Behind
    <3>2. QED
      BY <1>8, <2>1, <2>3, <3>1
  <2>4. QED
    BY <1>7, <1>17, <2>2, <2>3 DEF CommitCheckpoint
<1>18. CASE Observe(t)
  <2>1. ~Behind(t) /\ events' = events
    BY <1>18 DEF Observe, Behind
  <2>2. PICK l : session' = [session EXCEPT ![t].pc = "resolve", ![t].seen = l]
    BY <1>18 DEF Observe
  <2>3. /\ session'[t].epoch = session[t].epoch /\ session'[t].key = session[t].key
        /\ session'[t].records = session[t].records /\ session'[t].pc = "resolve"
    BY <1>2, <2>2 DEF Memory
  <2>4. QED
    BY <1>5, <2>1, <2>3
<1>19. CASE Resolve(t)
  <2>1. ~Behind(t) /\ events' = events
    BY <1>19 DEF Resolve, Behind
  <2>2. ASSUME NEW v, NEW c, Persists(t, v, c)
        PROVE  FreshTab(t)'
    <3>1. /\ session'[t].epoch = session[t].epoch /\ session'[t].key = session[t].key
          /\ session'[t].records = session[t].records /\ session'[t].pc = "persist"
      BY <1>2, <2>2 DEF Memory, Persists
    <3>2. QED
      BY <1>5, <2>1, <3>1
  <2>3. Reset(t) \/ \E v, c : Persists(t, v, c)
    BY <1>2, <1>19, ResolveOutcomes
  <2>4. QED
    BY <1>7, <2>2, <2>3
<1>20. CASE Persist(t)
  <2>1. ~Behind(t) /\ events' = events /\ (Reset(t) \/ Goto(t, "clear"))
    BY <1>20 DEF Persist, Behind
  <2>2. QED
    BY <1>7, <1>8, <2>1
<1>21. CASE ClearConsumed(t)
  <2>1. ~Behind(t) /\ events' = events
    BY <1>21 DEF ClearConsumed, Behind
  <2>2. /\ session'[t].epoch = session[t].epoch /\ session'[t].key = session[t].key
        /\ session'[t].records = session[t].records /\ session'[t].pc \in {"observe", "idle"}
    BY <1>2, <1>21 DEF ClearConsumed, Closed
  <2>3. QED
    BY <1>5, <2>1, <2>2
<1>22. CASE Crash(t)
  BY <1>7, <1>22 DEF Crash
<1>23. CASE Connect(t)
  <2>1. /\ session'[t].epoch = ProjectedEpoch(events) /\ session'[t].key = CurrentKey(events)
        /\ session'[t].records = RecordKeys(events) /\ session'[t].pc = "connecting"
        /\ events' = events
    BY <1>2, <1>23 DEF Connect, Opened, Closed
  <2>2. QED
    BY <1>p, <1>4, <2>1
<1>24. CASE Resume(t)
  <2>1. ~Behind(t) /\ events' = events
    BY <1>24 DEF Resume, Behind
  <2>2. CASE Reset(t) \/ Goto(t, "observe")
    BY <1>7, <1>8, <2>1, <2>2
  <2>3. CASE session' = [session EXCEPT ![t].pc = "append", ![t].plan = marker.plan,
                                        ![t].resumes = TRUE]
    <3>1. /\ session'[t].epoch = session[t].epoch /\ session'[t].key = session[t].key
          /\ session'[t].records = session[t].records /\ session'[t].pc = "append"
      BY <1>2, <2>3 DEF Memory
    <3>2. QED
      BY <1>5, <2>1, <3>1
  <2>4. QED
    BY <1>24, <2>2, <2>3 DEF Resume
<1>25. QED
  BY <1>1, <1>9, <1>10, <1>11, <1>12, <1>13, <1>14, <1>15, <1>16, <1>17, <1>18, <1>19, <1>20,
     <1>21, <1>22, <1>23, <1>24 DEF Elsewhere

(* Plans carry the contents they were drawn up on. *)
LEMMA PlansCarry ==
  ASSUME OneTabInv, Next
  PROVE  CarryInv'
<1>1. \A x \in DOMAIN events : x \in DOMAIN events' /\ events'[x] = events[x]
  BY StoreSteps, StoreGrows DEF OneTabInv, Inv
<1>2. ASSUME NEW p \in Plans
      PROVE  p.carries = ContentsOf(events', p.past)
  <2>1. PICK h \in DOMAIN events : p.past = Ancestors(events, h)
    BY DEF OneTabInv, Inv, PlanInv, Planned
  <2>2. p.past \subseteq DOMAIN events
    BY <2>1 DEF OneTabInv, Inv, StoreInv, Graph, Ancestors
  <2>3. ContentsOf(events', p.past) = ContentsOf(events, p.past)
    BY <1>1, <2>2 DEF ContentsOf
  <2>4. QED
    BY <2>3 DEF OneTabInv, CarryInv
<1>3. ASSUME NEW t \in Tab, Prepare(t), NEW p, p = NewPlan(t)
      PROVE  p.carries = ContentsOf(events', p.past)
  <2>1. Fresh(t) /\ events' = events
    BY <1>3 DEF Prepare, OneTabInv, FreshInv, FreshTab, Behind
  <2>2. p.carries = Contents(events) /\ p.past = DOMAIN events
    BY <1>3, <2>1 DEF NewPlan, Fresh
  <2>3. QED
    BY <2>1, <2>2 DEF ContentsOf, Contents
<1>4. ASSUME NEW p \in Plans'
      PROVE  p.carries = ContentsOf(events', p.past)
  BY <1>2, <1>3, PlansMove DEF OneTabInv
<1>5. QED
  BY <1>4 DEF CarryInv

(* The marker tells the truth about the rotation that it announces. *)
LEMMA MarkerStaysTrue ==
  ASSUME OneTabInv, Next
  PROVE  MarkerInv'
<1>1. PICK t \in Tab :
        \/ AddSecret(t) \/ MergeHeads(t) \/ SyncRotation(t) \/ AppendPair(t)
        \/ \E past \in SUBSET DOMAIN events : SyncContent(t, past)
        \/ Elsewhere(t)
  BY StepsOfTabs
<1>2. \A x \in DOMAIN events : x \in DOMAIN events' /\ events'[x] = events[x]
  BY StoreSteps, StoreGrows DEF OneTabInv, Inv
<1>3. FollowTab(t)
  BY DEF OneTabInv, FollowInv
<1>4. CASE marker' = marker
  BY <1>2, <1>4 DEF OneTabInv, MarkerInv
<1>5. CASE marker' = NoMarker
  BY <1>5 DEF MarkerInv, NoMarker
<1>6. CASE Mark(t) /\ marker' # marker
  <2>1. marker'.stage = "Prepared"
    BY <1>6 DEF Mark
  <2>2. QED
    BY <2>1 DEF MarkerInv
<1>7. CASE CommitEpoch(t) /\ marker' # marker
  <2>1. /\ marker'.stage = "EpochCommitted" /\ marker'.epoch = session[t].plan.trigger
        /\ marker'.plan = marker.plan /\ session[t].pc = "epoch"
    BY <1>7 DEF CommitEpoch
  <2>2. marker.plan = session[t].plan /\ session[t].plan.trigger \in DOMAIN events
    BY <1>3, <2>1 DEF FollowTab
  <2>3. QED
    BY <1>2, <2>1, <2>2 DEF MarkerInv
<1>8. CASE CommitCheckpoint(t) /\ marker' # marker
  <2>1. /\ marker'.stage = "Committed" /\ marker'.epoch = session[t].plan.trigger
        /\ session[t].pc = "checkpoint"
    BY <1>8 DEF CommitCheckpoint
  <2>2. PICK p : p = session[t].plan
    OBVIOUS
  <2>3. p.trigger \in DOMAIN events /\ p \in Plans
    BY <1>3, <2>1, <2>2 DEF FollowTab, Plans
  <2>4. Planned(p) /\ Pairable(p)
    BY <2>3, PlansAreTyped DEF OneTabInv, Inv, PlanInv
  <2>5. events[p.trigger].kind = "Trigger"
    BY <2>3, <2>4, PairFacts DEF Planned
  <2>6. QED
    BY <1>2, <2>1, <2>2, <2>3, <2>5 DEF MarkerInv
<1>9. marker' = marker \/ marker' = NoMarker \/ Mark(t) \/ CommitEpoch(t) \/ CommitCheckpoint(t)
  <2>1. CASE Elsewhere(t)
    BY <2>1 DEF Elsewhere, SyncNothing, Prepare, Abort, LoadProjection,
       Observe, Resolve, Persist, ClearConsumed, Crash, Connect, Resume
  <2>2. QED
    BY <1>1, <2>1 DEF AddSecret, MergeHeads, SyncRotation, AppendPair, SyncContent
<1>10. QED
  BY <1>4, <1>5, <1>6, <1>7, <1>8, <1>9

(* The tab and the marker are in the same rotation. *)
LEMMA TabStaysInRotation ==
  ASSUME OneTabInv, Next, \A t, u \in Tab : t = u
  PROVE  FollowInv'
<1>1. PICK t \in Tab :
        \/ AddSecret(t) \/ MergeHeads(t) \/ SyncRotation(t) \/ AppendPair(t)
        \/ \E past \in SUBSET DOMAIN events : SyncContent(t, past)
        \/ Elsewhere(t)
  BY StepsOfTabs
<1>2. session \in [Tab -> Memory] /\ session[t] \in Memory /\ FollowTab(t)
  BY DEF OneTabInv, Inv, TypeInv, FollowInv
<1>3. SUFFICES FollowTab(t)'
  BY DEF FollowInv
<1>4. ASSUME session'[t].pc \in {"closed", "idle", "connecting", "observe", "resolve"}
      PROVE  FollowTab(t)'
  BY <1>4 DEF FollowTab
<1>5. ASSUME Reset(t)
      PROVE  FollowTab(t)'
  BY <1>2, <1>4, <1>5 DEF Reset, Closed
<1>6. ASSUME NEW pc, Goto(t, pc)
      PROVE  /\ session'[t].pc = pc /\ session'[t].plan = session[t].plan
             /\ session'[t].update = session[t].update
             /\ session'[t].consumes = session[t].consumes
  BY <1>2, <1>6 DEF Goto, Memory
<1>7. CASE AddSecret(t) \/ MergeHeads(t)
  <2>1. session' = [session EXCEPT ![t].records = RecordKeys(events')]
    BY <1>7, AppendIsKeyed
  <2>2. session[t].pc \in {"idle", "observe"}
    BY <1>7, AppendIsKeyed
  <2>3. session'[t].pc = session[t].pc
    BY <1>2, <2>1 DEF Memory
  <2>4. QED
    BY <1>4, <2>2, <2>3
<1>8. CASE \/ SyncRotation(t) \/ SyncNothing(t)
           \/ \E past \in SUBSET DOMAIN events : SyncContent(t, past)
  <2>1. session' = Refreshed(t, events') /\ session[t].pc \in {"idle", "connecting"}
    BY <1>8 DEF SyncContent, SyncRotation, SyncNothing, MaySync
  <2>2. session'[t].pc = session[t].pc
    BY <1>2, <2>1 DEF Memory, Refreshed
  <2>3. QED
    BY <1>4, <2>1, <2>2
<1>9. CASE Prepare(t)
  <2>1. PICK p : p = NewPlan(t)
    OBVIOUS
  <2>2. session' = [session EXCEPT ![t].pc = "mark", ![t].plan = p]
    BY <1>9, <2>1 DEF Prepare, NewPlan
  <2>3. session'[t].pc = "mark" /\ session'[t].plan = p
    BY <1>2, <2>2 DEF Memory
  <2>4. p.trigger \notin DOMAIN events'
    BY <1>9, <2>1, NewPlanIsPlanned DEF OneTabInv
  <2>5. QED
    BY <2>3, <2>4 DEF FollowTab
<1>10. CASE Mark(t)
  <2>1. CASE /\ marker' = [stage |-> "Prepared", plan |-> session[t].plan]
             /\ Goto(t, "append")
    <3>1. session'[t].pc = "append" /\ session'[t].plan = session[t].plan
      BY <1>6, <2>1
    <3>2. Announced' /\ marker'.plan = session[t].plan
      BY <2>1 DEF Announced
    <3>3. QED
      BY <3>1, <3>2 DEF FollowTab
  <2>2. CASE Goto(t, "idle")
    BY <1>4, <1>6, <2>2
  <2>3. QED
    BY <1>10, <2>1, <2>2 DEF Mark
<1>11. CASE AppendPair(t)
  <2>1. /\ session[t].pc = "append" /\ marker' = marker
        /\ Announced /\ marker.plan = session[t].plan
    BY <1>2, <1>11 DEF AppendPair, FollowTab
  <2>2. CASE Goto(t, "load") /\ session[t].plan.trigger \in DOMAIN events'
    <3>1. session'[t].pc = "load" /\ session'[t].plan = session[t].plan
      BY <1>6, <2>2
    <3>2. Announced'
      BY <2>1 DEF Announced
    <3>3. QED
      BY <2>1, <2>2, <3>1, <3>2 DEF FollowTab
  <2>3. CASE Goto(t, "abort") /\ events' = events /\ session[t].plan.trigger \notin DOMAIN events
    <3>1. session'[t].pc = "abort" /\ session'[t].plan = session[t].plan
      BY <1>6, <2>3
    <3>2. Announced'
      BY <2>1 DEF Announced
    <3>3. QED
      BY <2>1, <2>3, <3>1, <3>2 DEF FollowTab
  <2>4. PICK p : p = session[t].plan
    OBVIOUS
  <2>5. \/ Goto(t, "load") /\ events' = WithPair(events, p)
        \/ Goto(t, "abort") /\ events' = events /\ p.trigger \notin DOMAIN events
    BY <1>11, <2>4 DEF AppendPair, PairFits, WithPair
  <2>6. p.trigger \in DOMAIN WithPair(events, p)
    BY DEF WithPair, Put
  <2>7. QED
    BY <2>2, <2>3, <2>4, <2>5, <2>6
<1>12. CASE Abort(t)
  <2>1. CASE session' = [session EXCEPT ![t].pc = "idle", ![t].plan = NoPlan]
    <3>1. session'[t].pc = "idle"
      BY <1>2, <2>1 DEF Memory
    <3>2. QED
      BY <1>4, <3>1
  <2>2. QED
    BY <1>5, <1>12, <2>1 DEF Abort
<1>13. CASE LoadProjection(t)
  <2>1. PICK l : session' = [session EXCEPT ![t].pc = "epoch", ![t].loaded = l]
    BY <1>13 DEF LoadProjection
  <2>2. session'[t].pc = "epoch" /\ session'[t].plan = session[t].plan
    BY <1>2, <2>1 DEF Memory
  <2>3. session[t].pc = "load" /\ marker' = marker /\ events' = events
    BY <1>13 DEF LoadProjection
  <2>4. QED
    BY <1>2, <2>2, <2>3 DEF FollowTab, Announced
<1>14. CASE CommitEpoch(t)
  <2>1. session[t].pc = "epoch" /\ events' = events
    BY <1>14 DEF CommitEpoch
  <2>2. CASE /\ marker' = [stage |-> "EpochCommitted", plan |-> marker.plan,
                           epoch |-> session[t].plan.trigger]
             /\ session'[t].pc = "checkpoint" /\ session'[t].plan = session[t].plan
    <3>1. Announced' /\ marker'.plan = marker.plan /\ marker'.stage = "EpochCommitted"
      BY <2>2 DEF Announced
    <3>2. QED
      BY <1>2, <2>1, <2>2, <3>1 DEF FollowTab
  <2>3. ASSUME NEW e, NEW k, Adopt(t, "checkpoint", e, k)
        PROVE  session'[t].pc = "checkpoint" /\ session'[t].plan = session[t].plan
    BY <1>2, <2>3 DEF Adopt, Memory
  <2>4. \/ Reset(t)
        \/ /\ marker' = [stage |-> "EpochCommitted", plan |-> marker.plan,
                         epoch |-> session[t].plan.trigger]
           /\ Goto(t, "checkpoint") \/ \E e, k : Adopt(t, "checkpoint", e, k)
    BY <1>14 DEF CommitEpoch
  <2>5. QED
    BY <1>5, <1>6, <2>2, <2>3, <2>4
<1>15. CASE CommitCheckpoint(t)
  <2>1. ASSUME NEW e, NEW k, Adopt(t, "observe", e, k)
        PROVE  session'[t].pc = "observe"
    BY <1>2, <2>1 DEF Adopt, Memory
  <2>2. Reset(t) \/ Goto(t, "observe") \/ \E e, k : Adopt(t, "observe", e, k)
    BY <1>15 DEF CommitCheckpoint
  <2>3. QED
    BY <1>4, <1>5, <1>6, <2>1, <2>2
<1>16. CASE Observe(t)
  <2>1. PICK l : session' = [session EXCEPT ![t].pc = "resolve", ![t].seen = l]
    BY <1>16 DEF Observe
  <2>2. session'[t].pc = "resolve"
    BY <1>2, <2>1 DEF Memory
  <2>3. QED
    BY <1>4, <2>2
<1>17. CASE Resolve(t)
  <2>1. ASSUME NEW v, NEW c, Persists(t, v, c), c # NoMarker => c.epoch \in v.ancestors
        PROVE  FollowTab(t)'
    <3>1. session'[t].pc = "persist" /\ session'[t].update = v /\ session'[t].consumes = c
      BY <1>2, <2>1 DEF Memory, Persists
    <3>2. QED
      BY <2>1, <3>1 DEF FollowTab
  <2>2. CASE \E v : Persists(t, v, NoMarker)
    BY <2>1, <2>2
  <2>3. CASE /\ {marker.epoch, marker.checkpoint} \subseteq session[t].seen.ancestors
             /\ Persists(t, Rotation(marker.previousEpoch, session[t].seen), marker)
    <3>1. PICK v, c : /\ v = Rotation(marker.previousEpoch, session[t].seen) /\ c = marker
                      /\ Persists(t, v, c)
      BY <2>3
    <3>2. c.epoch \in v.ancestors
      BY <2>3, <3>1 DEF Rotation
    <3>3. QED
      BY <2>1, <3>1, <3>2
  <2>4. QED
    BY <1>2, <1>5, <1>17, <2>2, <2>3, ResolveOutcomes
<1>18. CASE Persist(t)
  <2>1. CASE Goto(t, "clear") /\ identity'.checkpoint = session[t].update.checkpoint
    <3>1. session'[t].pc = "clear" /\ session'[t].consumes = session[t].consumes
      BY <1>6, <2>1
    <3>2. session[t].pc = "persist" /\ events' = events
      BY <1>18 DEF Persist
    <3>3. session[t].update.ancestors = Ancestors(events, session[t].update.checkpoint)
      BY <3>2 DEF OneTabInv, Inv, SessionInv
    <3>4. session[t].consumes # NoMarker =>
            session[t].consumes.epoch \in Ancestors(events', identity'.checkpoint)
      BY <1>2, <2>1, <3>2, <3>3 DEF FollowTab
    <3>5. QED
      BY <3>1, <3>4 DEF FollowTab
  <2>2. QED
    BY <1>5, <1>18, <2>1 DEF Persist
<1>19. CASE ClearConsumed(t)
  <2>1. session'[t].pc \in {"observe", "idle"}
    BY <1>2, <1>19 DEF ClearConsumed, Closed
  <2>2. QED
    BY <1>4, <2>1
<1>20. CASE Crash(t)
  BY <1>5, <1>20 DEF Crash
<1>21. CASE Connect(t)
  <2>1. session'[t].pc = "connecting"
    BY <1>2, <1>21 DEF Connect, Opened, Closed
  <2>2. QED
    BY <1>4, <2>1
<1>22. CASE Resume(t)
  <2>1. CASE Reset(t) \/ Goto(t, "observe")
    BY <1>4, <1>5, <1>6, <2>1
  <2>2. CASE /\ Announced /\ marker' = marker
             /\ session' = [session EXCEPT ![t].pc = "append", ![t].plan = marker.plan,
                                           ![t].resumes = TRUE]
    <3>1. session'[t].pc = "append" /\ session'[t].plan = marker.plan
      BY <1>2, <2>2 DEF Memory
    <3>2. Announced'
      BY <2>2 DEF Announced
    <3>3. QED
      BY <2>2, <3>1, <3>2 DEF FollowTab
  <2>3. QED
    BY <1>22, <2>1, <2>2 DEF Resume, Announced
<1>23. QED
  BY <1>1, <1>7, <1>8, <1>9, <1>10, <1>11, <1>12, <1>13, <1>14, <1>15, <1>16, <1>17, <1>18,
     <1>19, <1>20, <1>21, <1>22 DEF Elsewhere

(* The first store satisfies the invariant of one tab. *)
LEMMA OneTabInvHoldsAtFirst == Init => OneTabInv
<1> SUFFICES ASSUME Init PROVE OneTabInv
  OBVIOUS
<1>1. Inv
  BY InvHoldsAtFirst
<1>2. PICK R : /\ Graph(R) /\ DOMAIN R = {1} /\ R[1] = Root
               /\ Rotates(R, FirstPlan)
               /\ events = R \/ events = WithPair(R, FirstPlan)
  BY FirstStore
<1>3. /\ Root.kind = "Root" /\ Root.past = {} /\ Root.carries = {}
      /\ Root.key = InitialEpoch /\ Root.label = InitialEpoch
  BY DEF Root, Created
<1>4. Keyed(R)
  <2>1. Rotations(R) = {}
    BY <1>2, <1>3 DEF Rotations
  <2>2. \A S \in SUBSET DOMAIN R : Checkpoints(R, S) = {}
    BY <1>2, <1>3 DEF Checkpoints
  <2>3. KeyOf(R, Ancestors(R, 1)) = InitialEpoch
    <3>1. Ancestors(R, 1) = {1}
      BY <1>2, <1>3 DEF Ancestors
    <3>2. KeyOf(R, {1}) = InitialEpoch \/ \E x \in Checkpoints(R, {1}) : KeyOf(R, {1}) = R[x].key
      BY <1>2, KeyOfBounds
    <3>3. QED
      BY <1>2, <2>2, <3>1, <3>2
  <2>4. QED
    BY <1>2, <1>3, <2>1, <2>3 DEF Keyed, Carrying, Sealing, Dividing, Labelling
<1>5. Keyed(events)
  <2>1. FirstPlan.carries = {} /\ Contents(R) = {}
    BY <1>2, <1>3 DEF FirstPlan, Contents
  <2>2. QED
    BY <1>2, <1>4, <2>1, RotatedIsKeyed
<1>6. marker = NoMarker /\ session = [t \in Tab |-> Opened(events)]
  BY DEF Init
<1>7. /\ Opened(events).pc = "idle" /\ Opened(events).epoch = ProjectedEpoch(events)
      /\ Opened(events).key = CurrentKey(events)
      /\ Opened(events).records = RecordKeys(events) /\ Opened(events).plan = NoPlan
  BY DEF Opened, Closed
<1>8. FreshInv
  <2>1. ProjectedEpoch(events) = CurrentKey(events)
    BY <1>1, <1>5, KeyedProjection DEF Inv, StoreInv
  <2>2. DOMAIN RecordKeys(events) = Contents(events)
    BY <1>1, ProjectionIsTyped DEF Inv, StoreInv
  <2>3. QED
    BY <1>6, <1>7, <2>1, <2>2 DEF FreshInv, FreshTab, Fresh
<1>9. CarryInv
  <2>1. Plans = {}
    BY <1>6, <1>7 DEF Plans, Announced, NoMarker
  <2>2. QED
    BY <2>1 DEF CarryInv
<1>10. MarkerInv
  BY <1>6 DEF MarkerInv, NoMarker
<1>11. FollowInv
  BY <1>6, <1>7 DEF FollowInv, FollowTab
<1>12. QED
  BY <1>1, <1>5, <1>8, <1>9, <1>10, <1>11 DEF OneTabInv

(* With one tab, every step keeps that invariant. *)
LEMMA OneTabInvKept ==
  ASSUME OneTabInv, [Next]_vars, \A t, u \in Tab : t = u
  PROVE  OneTabInv'
<1>0. Inv'
  BY InvKept DEF OneTabInv
<1>1. CASE Next
  <2>1. Keyed(events') /\ FreshInv' /\ CarryInv' /\ MarkerInv' /\ FollowInv'
    BY <1>1, StoreStaysKeyed, TabStaysFresh, PlansCarry, MarkerStaysTrue, TabStaysInRotation
  <2>2. QED
    BY <1>0, <2>1 DEF OneTabInv
<1>2. CASE UNCHANGED vars
  BY <1>0, <1>2 DEF vars, OneTabInv, FreshInv, FreshTab, Fresh, Behind, Advanced, CarryInv, Plans,
     Announced, MarkerInv, FollowInv, FollowTab
<1>3. QED
  BY <1>1, <1>2

(* With one tab open the marker, the tab and the store agree at every step *)
(* of a rotation, whenever the tab is closed (mark, commit_epoch,          *)
(* commit_checkpoint, clear_consumed, resume_pending_security_epoch_       *)
(* rotation).                                                              *)
THEOREM OneTabInvariant ==
  ASSUME \A t, u \in Tab : t = u
  PROVE  Spec => []OneTabInv
<1>1. Init => OneTabInv
  BY OneTabInvHoldsAtFirst
<1>2. OneTabInv /\ [Next]_vars => OneTabInv'
  BY OneTabInvKept
<1>3. QED
  BY <1>1, <1>2, PTL DEF Spec

(* With one tab open, crashes and resumed rotations leave every record of  *)
(* the vault under the current key (prepare_security_epoch_rotation,       *)
(* append_vault_operations). A second tab may still hold the key from      *)
(* before the rotation, and write under it.                                *)
THEOREM RecordsUnderCurrentKey ==
  ASSUME \A t, u \in Tab : t = u
  PROVE  Spec => []AllUnderCurrentKey
<1>1. OneTabInv => AllUnderCurrentKey
  BY KeyedProjection DEF OneTabInv, Inv, StoreInv, AllUnderCurrentKey
<1>2. QED
  BY <1>1, OneTabInvariant, PTL

-----------------------------------------------------------------------------
(***************************************************************************)
(* One tab: every step is a step of the ledger or changes nothing in it.   *)
(***************************************************************************)
LedgerEpochs == Triggers(DOMAIN events)
SeenByIdentity == Triggers(Ancestors(events, identity.checkpoint))
LedgerRecorded == Max({0} \cup SeenByIdentity)

LedgerPending ==
  CASE marker.stage = "None" -> 0
    [] marker.stage = "Prepared" -> marker.plan.trigger
    [] OTHER -> marker.epoch

(* The steps of the ledger, in terms of the store, identity and marker. *)
LEMMA LedgerSteps ==
  /\ Ledger!Init <=> /\ LedgerEpochs \in SUBSET Id
                     /\ LedgerRecorded \in LedgerEpochs \cup {0}
                     /\ LedgerPending = 0
  /\ Ledger!vars = <<LedgerEpochs, LedgerRecorded, LedgerPending>>
  /\ \A e : Ledger!Announce(e) <=>
       /\ LedgerPending = 0 /\ e \notin LedgerEpochs /\ LedgerPending' = e
       /\ LedgerEpochs' = LedgerEpochs /\ LedgerRecorded' = LedgerRecorded
  /\ Ledger!Commit <=>
       /\ LedgerPending # 0 /\ \A f \in LedgerEpochs : f < LedgerPending
       /\ LedgerEpochs' = LedgerEpochs \cup {LedgerPending}
       /\ LedgerRecorded' = LedgerRecorded /\ LedgerPending' = LedgerPending
  /\ \A e : Ledger!Follow(e) <=>
       /\ (\A f \in LedgerEpochs : f < e) /\ e # LedgerPending
       /\ LedgerEpochs' = LedgerEpochs \cup {e}
       /\ LedgerRecorded' = LedgerRecorded /\ LedgerPending' = LedgerPending
  /\ \A e : Ledger!Record(e) <=>
       /\ e \in LedgerEpochs /\ e >= LedgerRecorded /\ LedgerRecorded' = e
       /\ LedgerEpochs' = LedgerEpochs /\ LedgerPending' = LedgerPending
  /\ Ledger!Settle <=>
       /\ LedgerPending # 0 /\ (LedgerPending \in LedgerEpochs => LedgerRecorded >= LedgerPending)
       /\ LedgerPending' = 0
       /\ LedgerEpochs' = LedgerEpochs /\ LedgerRecorded' = LedgerRecorded
  /\ Ledger!Next <=>
       \/ \E e \in Id : Ledger!Announce(e) \/ Ledger!Follow(e) \/ Ledger!Record(e)
       \/ Ledger!Commit
       \/ Ledger!Settle
<1>1. Ledger!Init <=> /\ LedgerEpochs \in SUBSET Id
                      /\ LedgerRecorded \in LedgerEpochs \cup {0}
                      /\ LedgerPending = 0
  BY DEF Ledger!Init, LedgerEpochs, LedgerRecorded, LedgerPending, SeenByIdentity
<1>2. Ledger!vars = <<LedgerEpochs, LedgerRecorded, LedgerPending>>
  BY DEF Ledger!vars, LedgerEpochs, LedgerRecorded, LedgerPending, SeenByIdentity
<1>3. ASSUME NEW e
      PROVE  Ledger!Announce(e) <=>
               /\ LedgerPending = 0 /\ e \notin LedgerEpochs /\ LedgerPending' = e
               /\ LedgerEpochs' = LedgerEpochs /\ LedgerRecorded' = LedgerRecorded
  BY DEF Ledger!Announce, LedgerEpochs, LedgerRecorded, LedgerPending, SeenByIdentity
<1>4. Ledger!Commit <=>
        /\ LedgerPending # 0 /\ \A f \in LedgerEpochs : f < LedgerPending
        /\ LedgerEpochs' = LedgerEpochs \cup {LedgerPending}
        /\ LedgerRecorded' = LedgerRecorded /\ LedgerPending' = LedgerPending
  BY DEF Ledger!Commit, Ledger!Latest, LedgerEpochs, LedgerRecorded, LedgerPending, SeenByIdentity
<1>5. ASSUME NEW e
      PROVE  Ledger!Follow(e) <=>
               /\ (\A f \in LedgerEpochs : f < e) /\ e # LedgerPending
               /\ LedgerEpochs' = LedgerEpochs \cup {e}
               /\ LedgerRecorded' = LedgerRecorded /\ LedgerPending' = LedgerPending
  BY DEF Ledger!Follow, Ledger!Latest, LedgerEpochs, LedgerRecorded, LedgerPending, SeenByIdentity
<1>6. ASSUME NEW e
      PROVE  Ledger!Record(e) <=>
               /\ e \in LedgerEpochs /\ e >= LedgerRecorded /\ LedgerRecorded' = e
               /\ LedgerEpochs' = LedgerEpochs /\ LedgerPending' = LedgerPending
  BY DEF Ledger!Record, LedgerEpochs, LedgerRecorded, LedgerPending, SeenByIdentity
<1>7. Ledger!Settle <=>
        /\ LedgerPending # 0 /\ (LedgerPending \in LedgerEpochs => LedgerRecorded >= LedgerPending)
        /\ LedgerPending' = 0
        /\ LedgerEpochs' = LedgerEpochs /\ LedgerRecorded' = LedgerRecorded
  BY DEF Ledger!Settle, LedgerEpochs, LedgerRecorded, LedgerPending, SeenByIdentity
<1>8. Ledger!Next <=>
        \/ \E e \in Id : Ledger!Announce(e) \/ Ledger!Follow(e) \/ Ledger!Record(e)
        \/ Ledger!Commit
        \/ Ledger!Settle
  BY DEF Ledger!Next
<1>9. QED
  BY <1>1, <1>2, <1>3, <1>4, <1>5, <1>6, <1>7, <1>8

(* A step leaves the ledger alone when it leaves each of its parts alone.  *)
LEMMA LedgerStays ==
  (/\ LedgerEpochs' = LedgerEpochs /\ LedgerRecorded' = LedgerRecorded
   /\ LedgerPending' = LedgerPending)
    => UNCHANGED Ledger!vars
BY DEF Ledger!vars, LedgerEpochs, LedgerRecorded, LedgerPending, SeenByIdentity

(* The pending rotation of the ledger is the one that the marker names, *)
(* and none where there is no marker; no other device draws its id.     *)
LEMMA PendingIs ==
  ASSUME OneTabInv
  PROVE  /\ marker.stage = "None" => LedgerPending = 0
         /\ marker.stage = "Prepared" => LedgerPending = marker.plan.trigger
         /\ marker.stage \in {"EpochCommitted", "Committed"} => LedgerPending = marker.epoch
         /\ Announced => LedgerPending = marker.plan.trigger /\ marker.plan \in Plans
         /\ LedgerPending \in Nat /\ LedgerPending # drawn + 1
         /\ marker.stage # "None" => LedgerPending \in Id
<1>1. /\ marker.stage = "None" => LedgerPending = 0
      /\ marker.stage = "Prepared" => LedgerPending = marker.plan.trigger
      /\ marker.stage \in {"EpochCommitted", "Committed"} => LedgerPending = marker.epoch
  BY DEF LedgerPending
<1>2. marker.stage \in {"None", "Prepared", "EpochCommitted", "Committed"}
  BY MarkerFields DEF OneTabInv, Inv
<1>3. Announced => LedgerPending = marker.plan.trigger /\ marker.plan \in Plans
  BY <1>1 DEF Announced, Plans, OneTabInv, MarkerInv
<1>4. ASSUME Announced
      PROVE  LedgerPending \in Id /\ LedgerPending <= drawn
  <2>1. PICK p \in Plans : p = marker.plan
    BY <1>3, <1>4
  <2>2. Planned(p) /\ Pairable(p)
    BY <2>1, PlansAreTyped DEF OneTabInv, Inv, PlanInv
  <2>3. p.trigger \in Id /\ p.trigger \in Nat /\ p.checkpoint = p.trigger + 1 /\ p.checkpoint <= drawn
    BY <2>2, IdsAreNumbers DEF Planned, Pairable
  <2>4. drawn \in Nat
    BY DEF OneTabInv, Inv, TypeInv
  <2>5. p.trigger <= drawn
    BY <2>3, <2>4
  <2>6. QED
    BY <1>3, <1>4, <2>1, <2>3, <2>5
<1>5. ASSUME marker.stage = "Committed"
      PROVE  LedgerPending \in Id /\ LedgerPending <= drawn
  <2>1. LedgerPending \in DOMAIN events
    BY <1>1, <1>5 DEF OneTabInv, MarkerInv
  <2>2. QED
    BY <2>1, NextIds DEF OneTabInv, Inv, StoreInv, Graph
<1>6. drawn \in Nat
  BY DEF OneTabInv, Inv, TypeInv
<1>7. marker.stage # "None" => LedgerPending \in Id /\ LedgerPending <= drawn
  BY <1>2, <1>4, <1>5 DEF Announced
<1>8. LedgerPending \in Nat /\ LedgerPending <= drawn
  BY <1>1, <1>6, <1>7, IdsAreNumbers
<1>9. LedgerPending # drawn + 1
  BY <1>6, <1>8
<1>10. QED
  BY <1>1, <1>3, <1>7, <1>8, <1>9

(* The last epoch that the identity has seen. *)
LEMMA RecordedIs ==
  ASSUME OneTabInv
  PROVE  /\ SeenByIdentity \subseteq LedgerEpochs /\ LedgerEpochs \in SUBSET Id
         /\ LedgerRecorded \in SeenByIdentity \cup {0} /\ LedgerRecorded \in Nat
         /\ \A e \in SeenByIdentity : e <= LedgerRecorded
<1>1. DOMAIN events \subseteq Id /\ identity.checkpoint \in DOMAIN events
  BY DEF OneTabInv, Inv, StoreInv, Graph
<1>2. Ancestors(events, identity.checkpoint) \subseteq DOMAIN events
  BY <1>1 DEF OneTabInv, Inv, StoreInv, Graph, Ancestors
<1>3. SeenByIdentity \subseteq LedgerEpochs /\ LedgerEpochs \in SUBSET Id
  BY <1>1, <1>2 DEF SeenByIdentity, LedgerEpochs, Triggers
<1> DEFINE C == {0} \cup SeenByIdentity
<1>4. C \in SUBSET Epoch /\ C # {}
  BY <1>3 DEF Epoch, InitialEpoch
<1>5. \A e \in SeenByIdentity : e \in C
  OBVIOUS
<1>6. \A e \in C : e \in SeenByIdentity \cup {0}
  OBVIOUS
<1>7. LedgerRecorded = Max(C)
  BY DEF LedgerRecorded
<1> HIDE DEF C
<1>8. Max(C) \in C /\ \A e \in C : e <= Max(C)
  BY <1>4, MaxOfEpochs
<1>9. Max(C) \in Nat
  BY <1>4, <1>8, IdsAreNumbers
<1>10. QED
  BY <1>3, <1>5, <1>6, <1>7, <1>8, <1>9

(* Events other than rotations are invisible in the ledger, *)
LEMMA NoNewEpoch ==
  ASSUME Inv, events' = events \/ Grafted
  PROVE  LedgerEpochs' = LedgerEpochs
<1>1. CASE events' = events
  BY <1>1 DEF LedgerEpochs, Triggers
<1>2. CASE Grafted
  <2>1. PICK e : Grafts(events, e) /\ events' = Put(events, drawn + 1, e)
    BY <1>2 DEF Grafted
  <2>2. drawn + 1 \notin DOMAIN events /\ e.kind # "Trigger"
    BY <2>1, NextIds DEF Inv, Grafts
  <2>3. /\ DOMAIN events' = DOMAIN events \cup {drawn + 1} /\ events'[drawn + 1] = e
        /\ \A x \in DOMAIN events : events'[x] = events[x]
    BY <2>1, <2>2 DEF Put
  <2>4. QED
    BY <2>2, <2>3 DEF LedgerEpochs, Triggers
<1>3. QED
  BY <1>1, <1>2

(* and a rotation is one new epoch. *)
LEMMA OneNewEpoch ==
  ASSUME NEW p, Rotates(events, p), events' = WithPair(events, p)
  PROVE  LedgerEpochs' = LedgerEpochs \cup {p.trigger}
<1>1. Pairable(p) /\ p.trigger \notin DOMAIN events /\ p.checkpoint \notin DOMAIN events
  BY DEF Rotates
<1>2. /\ DOMAIN events' = DOMAIN events \cup {p.trigger, p.checkpoint}
      /\ \A x \in DOMAIN events \ {p.trigger, p.checkpoint} : events'[x] = events[x]
      /\ events'[p.trigger] = PairOf(p)[1] /\ events'[p.checkpoint] = PairOf(p)[2]
  BY <1>1, WithPairFacts
<1>3. events'[p.trigger].kind = "Trigger" /\ events'[p.checkpoint].kind = "Checkpoint"
  BY <1>1, <1>2, PairFacts
<1>4. \A x \in DOMAIN events : events'[x] = events[x]
  BY <1>1, <1>2
<1>5. QED
  BY <1>2, <1>3, <1>4 DEF LedgerEpochs, Triggers

(* What the identity has seen stays the same while the store grows. *)
LEMMA SeenStays ==
  ASSUME Inv, StoreStep, identity' = identity
  PROVE  LedgerRecorded' = LedgerRecorded
<1>1. /\ identity.checkpoint \in DOMAIN events
      /\ \A x \in DOMAIN events : /\ x \in DOMAIN events' /\ events'[x] = events[x]
                                  /\ Ancestors(events', x) = Ancestors(events, x)
  BY StoreGrows DEF Inv, StoreInv
<1>2. Ancestors(events, identity.checkpoint) \subseteq DOMAIN events
  BY <1>1 DEF Inv, StoreInv, Graph, Ancestors
<1>3. SeenByIdentity' = SeenByIdentity
  BY <1>1, <1>2 DEF SeenByIdentity, Triggers
<1>4. QED
  BY <1>3 DEF LedgerRecorded

(* The same of the state after a step, whose invariant is its premise.     *)
RecordedFacts ==
  /\ SeenByIdentity \subseteq LedgerEpochs /\ LedgerEpochs \in SUBSET Id
  /\ LedgerRecorded \in SeenByIdentity \cup {0} /\ LedgerRecorded \in Nat
  /\ \A e \in SeenByIdentity : e <= LedgerRecorded

(* What the identity has seen, as an implication that can be primed. *)
LEMMA RecordedHere == OneTabInv => RecordedFacts
BY RecordedIs DEF RecordedFacts

(* With one tab, every step is a step of the ledger or leaves it alone: *)
(* Mark announces, AppendPair commits, SyncRotation follows, Persist    *)
(* records, Abort and ClearConsumed settle.                             *)
LEMMA StepOfLedger ==
  ASSUME OneTabInv, Next, \A t, u \in Tab : t = u
  PROVE  Ledger!Next \/ UNCHANGED Ledger!vars
<1>0. StoreStep /\ Inv
  BY StoreSteps DEF OneTabInv
<1>1. PICK t \in Tab :
        \/ AddSecret(t) \/ MergeHeads(t) \/ SyncRotation(t) \/ AppendPair(t)
        \/ \E past \in SUBSET DOMAIN events : SyncContent(t, past)
        \/ Elsewhere(t)
  BY StepsOfTabs
<1>2. session \in [Tab -> Memory] /\ session[t] \in Memory /\ FollowTab(t)
  BY DEF OneTabInv, Inv, TypeInv, FollowInv
<1>3. ASSUME LedgerEpochs' = LedgerEpochs, LedgerRecorded' = LedgerRecorded,
             LedgerPending' = LedgerPending
      PROVE  UNCHANGED Ledger!vars
  BY <1>3, LedgerStays
<1>4. marker' = marker => LedgerPending' = LedgerPending
  BY DEF LedgerPending
<1>5. identity' = identity => LedgerRecorded' = LedgerRecorded
  BY <1>0, SeenStays
<1>6. CASE AddSecret(t) \/ MergeHeads(t) \/ \E past \in SUBSET DOMAIN events : SyncContent(t, past)
  <2>1. Grafted
    BY <1>6, AppendIsKeyed, SyncIsKeyed
  <2>2. marker' = marker /\ identity' = identity
    BY <1>6 DEF AddSecret, MergeHeads, SyncContent
  <2>3. QED
    BY <1>0, <1>3, <1>4, <1>5, <2>1, <2>2, NoNewEpoch
<1>7. CASE SyncRotation(t)
  <2>1. PICK p : /\ Rotates(events, p) /\ events' = WithPair(events, p)
                 /\ p.trigger = drawn + 1
    BY <1>0, <1>7, SyncIsRotation
  <2>2. LedgerEpochs' = LedgerEpochs \cup {drawn + 1}
    BY <2>1, OneNewEpoch
  <2>3. marker' = marker /\ identity' = identity
    BY <1>7 DEF SyncRotation
  <2>4. drawn + 1 \in Id
    BY <2>1 DEF Rotates, Pairable
  <2>5. \A f \in LedgerEpochs : f < drawn + 1
    BY <1>0, NextIds DEF LedgerEpochs, Triggers, Inv
  <2>6. drawn + 1 # LedgerPending
    BY PendingIs
  <2>7. LedgerRecorded' = LedgerRecorded /\ LedgerPending' = LedgerPending
    BY <1>4, <1>5, <2>3
  <2>8. Ledger!Follow(drawn + 1)
    BY <2>2, <2>5, <2>6, <2>7, LedgerSteps
  <2>9. QED
    BY <2>4, <2>8, LedgerSteps
<1>8. CASE AppendPair(t)
  <2>1. marker' = marker /\ identity' = identity /\ session[t].pc = "append"
    BY <1>8 DEF AppendPair
  <2>2. CASE events' = events
    BY <1>0, <1>3, <1>4, <1>5, <2>1, <2>2, NoNewEpoch
  <2>3. CASE Rotates(events, session[t].plan) /\ events' = WithPair(events, session[t].plan)
    <3>1. PICK p : p = session[t].plan
      OBVIOUS
    <3>2. LedgerPending = p.trigger /\ marker.stage # "None"
      BY <1>2, <2>1, <3>1, PendingIs DEF FollowTab, Announced
    <3>3. LedgerPending # 0
      BY <3>2, PendingIs, IdsAreNumbers
    <3>4. LedgerEpochs' = LedgerEpochs \cup {p.trigger}
      BY <2>3, <3>1, OneNewEpoch
    <3>5. \A f \in LedgerEpochs : f < p.trigger
      BY <2>3, <3>1 DEF Rotates, LedgerEpochs, Triggers
    <3>6. LedgerRecorded' = LedgerRecorded /\ LedgerPending' = LedgerPending
      BY <1>4, <1>5, <2>1
    <3>7. Ledger!Commit
      BY <3>2, <3>3, <3>4, <3>5, <3>6, LedgerSteps
    <3>8. QED
      BY <3>7, LedgerSteps
  <2>4. QED
    BY <1>0, <1>8, <2>2, <2>3, AppendPairInStore
<1>9. CASE Persist(t)
  <2>1. LedgerEpochs' = LedgerEpochs /\ LedgerPending' = LedgerPending
    <3>1. events' = events /\ marker' = marker
      BY <1>9 DEF Persist
    <3>2. QED
      BY <1>0, <1>4, <3>1, NoNewEpoch
  <2>2. CASE identity' = identity
    BY <1>3, <1>5, <2>1, <2>2
  <2>3. CASE identity' # identity
    <3>1. identity.checkpoint \in Ancestors(events, identity'.checkpoint)
      <4>1. PICK u \in Tab :
              /\ Accepts(identity, session[u].update)
              /\ session[u].update.ancestors = Ancestors(events, session[u].update.checkpoint)
              /\ identity' = [epoch |-> session[u].update.epoch,
                              checkpoint |-> session[u].update.checkpoint]
        BY <1>0, <2>3, IdentityMoves
      <4>2. session[u].update.checkpoint \in session[u].update.ancestors
        BY <4>1 DEF Ancestors
      <4>3. QED
        BY <4>1, <4>2 DEF Accepts
    <3>2. events' = events /\ identity'.checkpoint \in DOMAIN events
      <4>1. events' = events /\ StoreInv'
        BY <1>0, <1>9, TypesKept DEF Persist
      <4>2. QED
        BY <4>1 DEF StoreInv
    <3>3. Ancestors(events, identity.checkpoint) \subseteq Ancestors(events, identity'.checkpoint)
      BY <1>0, <3>1, <3>2 DEF Inv, StoreInv, Graph, Ancestors
    <3>4. SeenByIdentity \subseteq SeenByIdentity'
      BY <3>2, <3>3 DEF SeenByIdentity, Triggers
    <3>5. OneTabInv'
      BY OneTabInvKept
    <3>6. RecordedFacts'
      BY <3>5, RecordedHere, PTL
    <3>7. LedgerRecorded' >= LedgerRecorded
      BY <3>4, <3>6, RecordedIs DEF RecordedFacts
    <3>8. CASE LedgerRecorded' = 0
      <4>1. LedgerRecorded = 0
        BY <3>7, <3>8, RecordedIs
      <4>2. QED
        BY <1>3, <2>1, <3>8, <4>1
    <3>9. CASE LedgerRecorded' # 0
      <4>1. PICK e : e = LedgerRecorded'
        OBVIOUS
      <4>2. e \in LedgerEpochs /\ e \in Id
        BY <2>1, <3>6, <3>9, <4>1 DEF RecordedFacts
      <4>3. Ledger!Record(e)
        BY <2>1, <3>7, <4>1, <4>2, LedgerSteps
      <4>4. QED
        BY <4>2, <4>3, LedgerSteps
    <3>10. QED
      BY <3>8, <3>9
  <2>4. QED
    BY <2>2, <2>3
<1>10. ASSUME Elsewhere(t), ~Persist(t)
       PROVE  LedgerEpochs' = LedgerEpochs /\ LedgerRecorded' = LedgerRecorded
  <2>1. events' = events
    BY <1>0, <1>10, ElsewhereInStore
  <2>2. identity' = identity
    BY <1>10 DEF Elsewhere, SyncNothing, Prepare, Mark, Abort, LoadProjection, CommitEpoch,
       CommitCheckpoint, Observe, Resolve, ClearConsumed, Crash, Connect, Resume
  <2>3. QED
    BY <1>0, <1>5, <2>1, <2>2, NoNewEpoch
<1>11. ASSUME Elsewhere(t), ~Persist(t), LedgerPending # 0, LedgerPending' = 0,
              LedgerPending \in LedgerEpochs => LedgerRecorded >= LedgerPending
       PROVE  Ledger!Next
  BY <1>10, <1>11, LedgerSteps
<1>12. ASSUME Elsewhere(t), ~Persist(t), marker' = marker
       PROVE  UNCHANGED Ledger!vars
  BY <1>3, <1>4, <1>10, <1>12
<1>13. CASE Mark(t) /\ marker' # marker
  <2>1. Elsewhere(t) /\ ~Persist(t)
    BY <1>13 DEF Elsewhere, Mark, Persist
  <2>2. PICK p : p = session[t].plan
    OBVIOUS
  <2>3. /\ session[t].pc = "mark" /\ marker.stage = "None"
        /\ marker' = [stage |-> "Prepared", plan |-> p]
    BY <1>13, <2>2 DEF Mark, NoMarker
  <2>4. LedgerPending = 0
    BY <2>3, PendingIs
  <2>5. LedgerPending' = p.trigger
    BY <2>3 DEF LedgerPending
  <2>6. p.trigger \notin LedgerEpochs /\ p.trigger \in Id
    <3>1. p.trigger \notin DOMAIN events
      BY <1>2, <2>2, <2>3 DEF FollowTab
    <3>2. p \in Plan
      BY <2>2, <2>3, TabFields DEF OneTabInv, Inv
    <3>3. QED
      BY <3>1, <3>2 DEF LedgerEpochs, Triggers, Plan
  <2>7. LedgerEpochs' = LedgerEpochs /\ LedgerRecorded' = LedgerRecorded
    BY <1>10, <2>1
  <2>8. Ledger!Announce(p.trigger)
    BY <2>4, <2>5, <2>6, <2>7, LedgerSteps
  <2>9. QED
    BY <2>6, <2>8, LedgerSteps
<1>14. CASE Abort(t) /\ marker' # marker
  <2>1. Elsewhere(t) /\ ~Persist(t)
    BY <1>14 DEF Elsewhere, Abort, Persist
  <2>2. /\ session[t].pc = "abort" /\ marker' = NoMarker
        /\ marker = [stage |-> "Prepared", plan |-> session[t].plan]
    BY <1>14 DEF Abort
  <2>3. LedgerPending = session[t].plan.trigger /\ LedgerPending \in Id
    BY <2>2, PendingIs
  <2>4. LedgerPending \notin LedgerEpochs
    BY <1>2, <2>2, <2>3 DEF FollowTab, LedgerEpochs, Triggers
  <2>5. LedgerPending' = 0
    BY <2>2 DEF LedgerPending, NoMarker
  <2>6. LedgerPending # 0
    BY <2>3, IdsAreNumbers
  <2>7. QED
    BY <1>11, <2>1, <2>4, <2>5, <2>6
<1>15. CASE CommitEpoch(t) /\ marker' # marker
  <2>1. Elsewhere(t) /\ ~Persist(t)
    BY <1>15 DEF Elsewhere, CommitEpoch, Persist
  <2>2. /\ session[t].pc = "epoch"
        /\ marker'.stage = "EpochCommitted" /\ marker'.epoch = session[t].plan.trigger
    BY <1>15 DEF CommitEpoch
  <2>3. LedgerPending = session[t].plan.trigger
    BY <1>2, <2>2, PendingIs DEF FollowTab
  <2>4. LedgerPending' = session[t].plan.trigger
    BY <2>2 DEF LedgerPending
  <2>5. QED
    BY <1>3, <1>10, <2>1, <2>3, <2>4
<1>16. CASE CommitCheckpoint(t) /\ marker' # marker
  <2>1. Elsewhere(t) /\ ~Persist(t)
    BY <1>16 DEF Elsewhere, CommitCheckpoint, Persist
  <2>2. /\ session[t].pc = "checkpoint"
        /\ marker'.stage = "Committed" /\ marker'.epoch = session[t].plan.trigger
    BY <1>16 DEF CommitCheckpoint
  <2>3. LedgerPending = session[t].plan.trigger
    BY <1>2, <2>2, PendingIs DEF FollowTab
  <2>4. LedgerPending' = session[t].plan.trigger
    BY <2>2 DEF LedgerPending
  <2>5. QED
    BY <1>3, <1>10, <2>1, <2>3, <2>4
<1>17. CASE ClearConsumed(t) /\ marker' # marker
  <2>1. Elsewhere(t) /\ ~Persist(t)
    BY <1>17 DEF Elsewhere, ClearConsumed, Persist
  <2>2. /\ session[t].pc = "clear" /\ marker' = NoMarker /\ marker = session[t].consumes
        /\ session[t].consumes # NoMarker
    BY <1>17 DEF ClearConsumed
  <2>3. marker.stage = "Committed"
    BY <1>2, <2>2 DEF Memory, Committed
  <2>4. LedgerPending = marker.epoch /\ LedgerPending \in Id
    BY <2>3, PendingIs
  <2>5. marker.epoch \in Ancestors(events, identity.checkpoint)
    BY <1>2, <2>2 DEF FollowTab
  <2>6. marker.epoch \in SeenByIdentity
    BY <2>3, <2>5 DEF SeenByIdentity, Triggers, OneTabInv, MarkerInv
  <2>7. LedgerRecorded >= LedgerPending
    BY <2>4, <2>6, RecordedIs, IdsAreNumbers
  <2>8. LedgerPending' = 0
    BY <2>2 DEF LedgerPending, NoMarker
  <2>9. LedgerPending # 0
    BY <2>4, IdsAreNumbers
  <2>10. QED
    BY <1>11, <2>1, <2>7, <2>8, <2>9
<1>18. ASSUME Elsewhere(t), ~Persist(t)
       PROVE  \/ marker' = marker
              \/ Mark(t) \/ Abort(t) \/ CommitEpoch(t) \/ CommitCheckpoint(t) \/ ClearConsumed(t)
  BY <1>18 DEF Elsewhere, SyncNothing, Prepare, LoadProjection, Observe, Resolve, Crash, Connect,
     Resume
<1>19. QED
  BY <1>1, <1>6, <1>7, <1>8, <1>9, <1>12, <1>13, <1>14, <1>15, <1>16, <1>17, <1>18

(* With one tab open, the rotation protocol implements the ledger: a       *)
(* pending rotation is committed on top of all others, and withdrawn only  *)
(* when it never was committed or the identity directory has followed it,  *)
(* whenever the tab is closed (security_epoch.rs, reconciliation.rs).      *)
THEOREM RotationsImplementLedger ==
  ASSUME \A t, u \in Tab : t = u
  PROVE  Spec => RefinesLedger
<1>1. Init => Ledger!Init
  <2> SUFFICES ASSUME Init PROVE Ledger!Init
    OBVIOUS
  <2>1. OneTabInv /\ marker = NoMarker
    BY OneTabInvHoldsAtFirst DEF Init
  <2>2. LedgerPending = 0
    BY <2>1, PendingIs DEF NoMarker
  <2>3. QED
    BY <2>1, <2>2, RecordedIs, LedgerSteps
<1>2. OneTabInv /\ [Next]_vars => [Ledger!Next]_(Ledger!vars)
  <2> SUFFICES ASSUME OneTabInv, [Next]_vars PROVE Ledger!Next \/ UNCHANGED Ledger!vars
    OBVIOUS
  <2>1. CASE Next
    BY <2>1, StepOfLedger
  <2>2. CASE UNCHANGED vars
    <3>1. /\ LedgerEpochs' = LedgerEpochs /\ LedgerRecorded' = LedgerRecorded
          /\ LedgerPending' = LedgerPending
      BY <2>2 DEF vars, LedgerEpochs, LedgerRecorded, LedgerPending, SeenByIdentity, Triggers
    <3>2. QED
      BY <3>1, LedgerStays
  <2>3. QED
    BY <2>1, <2>2
<1>3. QED
  BY <1>1, <1>2, OneTabInvariant, PTL DEF Spec, RefinesLedger, Ledger!Spec
============================================================================
