--------------------------- MODULE VaultSyncProofs ---------------------------
(***************************************************************************)
(* Devices that share a vault, proved for every number of devices and      *)
(* events, and for every way in which reads, publications and stray events *)
(* interleave.                                                             *)
(*                                                                         *)
(* The first part is about VaultReplication: no store holds a rejected     *)
(* event, half of a rotation or a security conflict, every rotation is one *)
(* step of history, and merging takes nothing back. In the second part the *)
(* outbox, the flush and the repair pass of VaultSync implement that       *)
(* replication, wherever flushes are cut short, so that everything proved  *)
(* in the first part holds of devices that publish in this way.            *)
(***************************************************************************)
EXTENDS VaultSync, EventGraphProofs

-----------------------------------------------------------------------------
(***************************************************************************)
(* Stores and merges (VaultReplication).                                   *)
(***************************************************************************)
History(E) ==
  /\ IsFiniteSet(DOMAIN E)
  /\ Acyclic(E)
  /\ OneCheckpoint(E)
  /\ SealedHistory(E)

(***************************************************************************)
(* The inductive invariant. EpochSealed alone is not inductive: a merge    *)
(* brings together a checkpoint and an event that no store held together   *)
(* before, so the claim must be about all signed events.                   *)
(***************************************************************************)
Inv ==
  /\ TypeOK
  /\ History(events)
  /\ WholeEpochs
  /\ NothingRejected
  /\ NoConflictAdmitted

-----------------------------------------------------------------------------
(***************************************************************************)
(* Steps.                                                                  *)
(***************************************************************************)
NothingIsLost ==
  \A d \in Device :
    Applicable(Graph(d)) \subseteq Applicable(LoadGraph(events', store'[d]))

(* The signed events of a typed state satisfy what the graph lemmas ask. *)
LEMMA TypeIsSigned == TypeOK => Signed(events)
BY DEF TypeOK, Signed

(* What a device signs and applies leaves its store and all others sound. *)
LEMMA SigningStep ==
  ASSUME Inv, SignedAfter(events, events'), NEW d \in Device,
         NEW X \in SUBSET (DOMAIN events' \ DOMAIN events),
         X \subseteq Applicable(LoadGraph(events', store[d] \cup X)),
         \A t \in X : events'[t].kind = "DeviceRevoked" =>
                        \E c \in X : t \in CommittedParents(events'[c]),
         SecurityConflicts(events', store[d] \cup X) = {},
         store' = [store EXCEPT ![d] = @ \cup X]
  PROVE  WholeEpochs' /\ NothingRejected' /\ NoConflictAdmitted' /\ NothingIsLost
<1>1. \A e \in Device : store[e] \in SUBSET DOMAIN events
  BY DEF Inv, TypeOK
<1>2. ASSUME NEW e \in Device, e # d
      PROVE  /\ store'[e] = store[e]
             /\ LoadGraph(events', store[e]) = LoadGraph(events, store[e])
             /\ Incomplete(events', store[e]) = Incomplete(events, store[e])
             /\ SecurityConflicts(events', store[e]) = SecurityConflicts(events, store[e])
  <2>1. store'[e] = store[e]
    BY <1>2 DEF Inv, TypeOK
  <2>2. QED
    BY <1>1, <2>1, GraphIsHistory
<1>3. store'[d] = store[d] \cup X
  BY DEF Inv, TypeOK
<1>4. /\ Quarantined(LoadGraph(events, store[d])) = {}
      /\ Incomplete(events, store[d]) = {}
  BY DEF Inv, NothingRejected, WholeEpochs, Graph
<1>5. Quarantined(LoadGraph(events', store[d] \cup X)) = {}
  BY <1>1, <1>4, SigningKeepsGraphClean
<1>6. Incomplete(events', store[d] \cup X) = {}
  BY <1>1, <1>4, SigningKeepsEpochsWhole
<1>7. Applicable(LoadGraph(events, store[d]))
        \subseteq Applicable(LoadGraph(events', store[d] \cup X))
  BY <1>1, AppliedAfterSigning
<1>8. WholeEpochs'
  BY <1>2, <1>3, <1>6 DEF Inv, WholeEpochs
<1>9. NothingRejected'
  BY <1>2, <1>3, <1>5 DEF Inv, NothingRejected, Graph
<1>10. NoConflictAdmitted'
  BY <1>2, <1>3 DEF Inv, NoConflictAdmitted
<1>11. NothingIsLost
  BY <1>2, <1>3, <1>7 DEF NothingIsLost, Graph
<1>12. QED
  BY <1>8, <1>9, <1>10, <1>11

(* A store that is not empty has heads, so no second root is ever signed. *)
LEMMA HeadsOfStore ==
  ASSUME Inv, NEW d \in Device
  PROVE  /\ Heads(Graph(d)) \subseteq DOMAIN events
         /\ Heads(Graph(d)) \in SUBSET Id
         /\ store[d] # {} => Heads(Graph(d)) # {}
<1>1. Signed(events) /\ store[d] \in SUBSET DOMAIN events
      /\ Quarantined(LoadGraph(events, store[d])) = {}
  BY TypeIsSigned DEF Inv, TypeOK, NothingRejected, Graph
<1>2. Heads(Graph(d)) \subseteq store[d]
  BY <1>1, HeadsOfAcceptedGraph DEF Graph
<1>3. store[d] # {} => Heads(Graph(d)) # {}
  BY <1>1, EverythingIsBelowAHead DEF Graph, Inv, History
<1>4. QED
  BY <1>1, <1>2, <1>3 DEF Signed

(* Appending an event keeps the invariant and loses no event. *)
LEMMA AppendIsSafe ==
  ASSUME Inv, NEW d \in Device, NEW id \in Id, NEW kind \in AppendKind,
         NEW subject \in Device, Append(d, id, kind, subject)
  PROVE  Inv' /\ NothingIsLost
<1> DEFINE e == NewEvent(d, kind, subject)
           S == store[d]
<1>1. /\ S # {} /\ id \in Id \ DOMAIN events
      /\ events' = Sign(id, e)
      /\ Applies(Sign(id, e), S \cup {id}, id)
      /\ store' = [store EXCEPT ![d] = @ \cup {id}]
      /\ provider' = provider
  BY DEF Append
<1>2. Signed(events) /\ S \in SUBSET DOMAIN events
      /\ IsFiniteSet(DOMAIN events) /\ Acyclic(events)
      /\ OneCheckpoint(events) /\ SealedHistory(events)
      /\ Quarantined(LoadGraph(events, S)) = {} /\ Incomplete(events, S) = {}
      /\ SecurityConflicts(events, S) = {}
  BY TypeIsSigned
     DEF Inv, TypeOK, History, NothingRejected, WholeEpochs, NoConflictAdmitted, Graph
<1>3. e.parents \subseteq DOMAIN events /\ e \in Event /\ e.parents # {}
      /\ e.kind = kind /\ e.parents = Heads(LoadGraph(events, S))
  BY <1>1, HeadsOfStore DEF NewEvent, Event, Kind, AppendKind, Graph
<1>4. events' = [x \in DOMAIN events \cup {id} |-> IF x = id THEN e ELSE events[x]]
  BY <1>1 DEF Sign
<1>5. /\ SignedAfter(events, events')
      /\ DOMAIN events' = DOMAIN events \cup {id} /\ events'[id] = e
      /\ IsFiniteSet(DOMAIN events') /\ Acyclic(events')
  <2> HIDE DEF e
  <2>1. QED
    BY <1>1, <1>2, <1>3, <1>4, SignedEventIsLast
<1> HIDE DEF e
<1>6. S \subseteq Past(events', id)
  BY <1>2, <1>3, <1>5, HeadsAreAboveAll
<1>7. id \in Applicable(LoadGraph(events', S \cup {id}))
  BY <1>1 DEF Applies
<1>8. CommittedParents(events'[id]) = {} /\ ~Rotates(events'[id])
  BY <1>3, <1>5 DEF CommittedParents, Rotates, AppendKind
<1>9. History(events')
  <2>1. OneCheckpoint(events') /\ SealedHistory(events')
    BY <1>1, <1>2, <1>5, <1>6, <1>7, <1>8, HeadEventKeepsSeals
  <2>2. QED
    BY <1>5, <2>1 DEF History
<1>10. TypeOK'
  <2>1. \A x \in DOMAIN events : events'[x] = events[x]
    BY <1>5 DEF SignedAfter
  <2>2. /\ DOMAIN events' \subseteq Id
        /\ events' \in [DOMAIN events' -> Event]
        /\ \A x \in DOMAIN events' : events'[x].parents \subseteq DOMAIN events'
    <3>1. events' = [x \in DOMAIN events' |-> events'[x]]
      BY <1>4
    <3>2. \A x \in DOMAIN events' : events'[x] \in Event
      BY <1>3, <1>5, <2>1 DEF Inv, TypeOK
    <3>3. QED
      BY <1>5, <3>1, <3>2 DEF SignedAfter, Signed
  <2>3. \A x \in DOMAIN events' : events'[x].parents = {} => events'[x].kind = "VaultImported"
    BY <1>3, <1>5, <2>1 DEF Inv, TypeOK
  <2>4. /\ store' \in [Device -> SUBSET DOMAIN events']
        /\ provider' \subseteq DOMAIN events'
    BY <1>1, <1>5 DEF Inv, TypeOK
  <2>5. QED
    BY <2>2, <2>3, <2>4 DEF TypeOK
<1>11. SecurityConflicts(events', S \cup {id}) = {}
  <2>1. {id} \in SUBSET (DOMAIN events' \ DOMAIN events) /\ S \cup {id} \in SUBSET DOMAIN events'
    BY <1>1, <1>2, <1>5
  <2> DEFINE A == Applicable(LoadGraph(events, S))
             B == Applicable(LoadGraph(events', S \cup {id}))
  <2>2. B \subseteq A \cup {id}
    <3> DEFINE X == {id}
    <3>1. X \in SUBSET (DOMAIN events' \ DOMAIN events)
      BY <2>1
    <3> HIDE DEF X
    <3>2. Applicable(LoadGraph(events', S \cup X)) \subseteq A \cup X
      BY <1>2, <1>5, <3>1, AppliedAfterSigning
    <3>3. QED
      BY <3>2 DEF X
  <2>3. A \subseteq S /\ S \subseteq DOMAIN events
    BY <1>2, ApplicableIsAccepted
  <2>4. ASSUME NEW p \in SecurityConflicts(events', S \cup {id})
        PROVE  FALSE
    <3>1. /\ p \in B \X B
          /\ Rotates(events'[p[1]])
          /\ Rotates(events'[p[2]]) \/ MutatesAccess(events'[p[2]])
          /\ p[1] # p[2]
          /\ p[1] \notin Past(events', p[2])
          /\ p[2] \notin Past(events', p[1])
      BY <1>5, <2>1, <2>4, ConflictsAreConcurrent DEF SignedAfter
    <3>2. p[1] \in A
      BY <1>8, <2>2, <3>1
    <3>3. p[2] \in A
      BY <1>6, <2>2, <2>3, <3>1, <3>2
    <3>4. \A x \in A : events'[x] = events[x] /\ Past(events', x) = Past(events, x)
      BY <1>5, <2>3, PastIsHistory DEF SignedAfter
    <3>5. p \in A \X A
      BY <3>1, <3>2, <3>3
    <3>6. p \in SecurityConflicts(events, S)
      BY <1>2, <3>1, <3>4, <3>5, ConflictsAreConcurrent
    <3>7. QED
      BY <1>2, <3>6
  <2>5. QED
    BY <2>4
<1>12. WholeEpochs' /\ NothingRejected' /\ NoConflictAdmitted' /\ NothingIsLost
  <2> DEFINE X == {id}
  <2>1. X \in SUBSET (DOMAIN events' \ DOMAIN events)
    BY <1>1, <1>5
  <2>2. \A t \in X : events'[t].kind # "DeviceRevoked"
    BY <1>8 DEF Rotates
  <2>3. /\ X \subseteq Applicable(LoadGraph(events', store[d] \cup X))
        /\ SecurityConflicts(events', store[d] \cup X) = {}
        /\ store' = [store EXCEPT ![d] = @ \cup X]
    BY <1>1, <1>7, <1>11
  <2> HIDE DEF X
  <2>4. QED
    BY <1>5, <2>1, <2>2, <2>3, SigningStep
<1>13. QED
  BY <1>9, <1>10, <1>12 DEF Inv

(* Revoking a device and committing its epoch keeps the invariant and *)
(* loses no event.                                                    *)
LEMMA RotateIsSafe ==
  ASSUME Inv, NEW d \in Device, NEW t \in Id, NEW c \in Id, NEW victim \in Device,
         Rotate(d, t, c, victim)
  PROVE  Inv' /\ NothingIsLost
<1> DEFINE trigger == NewEvent(d, "DeviceRevoked", victim)
           check == CheckpointOf(t, d, victim)
           G == [x \in DOMAIN events \cup {t} |-> IF x = t THEN trigger ELSE events[x]]
           S == store[d]
           X == {t, c}
<1>1. /\ S # {} /\ t \in Id \ DOMAIN events /\ c \in Id \ DOMAIN events /\ t # c
      /\ events' = SignPair(t, trigger, c, check)
      /\ t \in Applicable(LoadGraph(events', S \cup {t, c}))
      /\ c \in Applicable(LoadGraph(events', S \cup {t, c}))
      /\ \A p \in SecurityConflicts(events', S \cup {t, c}) : t \notin {p[1], p[2]}
      /\ store' = [store EXCEPT ![d] = @ \cup {t, c}]
      /\ provider' = provider
  BY DEF Rotate, Applies
<1>2. Signed(events) /\ S \in SUBSET DOMAIN events
      /\ IsFiniteSet(DOMAIN events) /\ Acyclic(events)
      /\ OneCheckpoint(events) /\ SealedHistory(events)
      /\ Quarantined(LoadGraph(events, S)) = {} /\ Incomplete(events, S) = {}
      /\ SecurityConflicts(events, S) = {}
  BY TypeIsSigned
     DEF Inv, TypeOK, History, NothingRejected, WholeEpochs, NoConflictAdmitted, Graph
<1>3. trigger.parents \subseteq DOMAIN events /\ trigger \in Event /\ trigger.parents # {}
      /\ trigger.kind = "DeviceRevoked" /\ trigger.parents = Heads(LoadGraph(events, S))
  BY <1>1, HeadsOfStore DEF NewEvent, Event, Kind, Graph
<1>4. /\ check \in Event /\ check.parents = {t} /\ check.kind = "EpochCheckpoint"
      /\ CommittedParents(check) = {t}
  BY IdAssumption DEF CheckpointOf, Event, Kind, CommittedParents
<1>5. /\ SignedAfter(events, G)
      /\ DOMAIN G = DOMAIN events \cup {t} /\ G[t] = trigger
      /\ IsFiniteSet(DOMAIN G) /\ Acyclic(G)
      /\ Past(G, t) \subseteq DOMAIN events
  <2> DEFINE GG == G
  <2>1. GG = [x \in DOMAIN events \cup {t} |-> IF x = t THEN trigger ELSE events[x]]
    OBVIOUS
  <2> HIDE DEF trigger, GG
  <2>2. /\ SignedAfter(events, GG)
        /\ DOMAIN GG = DOMAIN events \cup {t} /\ GG[t] = trigger
        /\ IsFiniteSet(DOMAIN GG) /\ Acyclic(GG)
        /\ Past(GG, t) \subseteq DOMAIN events
    BY <1>1, <1>2, <1>3, <2>1, SignedEventIsLast
  <2>3. QED
    BY <2>2 DEF GG
<1>6. events' = [x \in DOMAIN G \cup {c} |-> IF x = c THEN check ELSE G[x]]
  BY <1>1 DEF SignPair
<1> HIDE DEF trigger, check, G
<1>7. /\ SignedAfter(G, events')
      /\ DOMAIN events' = DOMAIN G \cup {c} /\ events'[c] = check
      /\ IsFiniteSet(DOMAIN events') /\ Acyclic(events')
  <2>1. Signed(G) /\ check.parents \subseteq DOMAIN G /\ c \in Id \ DOMAIN G
    BY <1>1, <1>4, <1>5 DEF SignedAfter
  <2>2. QED
    BY <1>4, <1>5, <1>6, <2>1, SignedEventIsLast
<1>8. /\ SignedAfter(events, events')
      /\ DOMAIN events' = DOMAIN events \cup {t, c}
      /\ events'[t] = trigger
      /\ X \in SUBSET (DOMAIN events' \ DOMAIN events)
  BY <1>1, <1>5, <1>7 DEF SignedAfter
<1>9. S \subseteq Past(G, t) /\ S \subseteq Past(events', t)
  <2>1. t \in DOMAIN G /\ t \in DOMAIN events'
    BY <1>5, <1>7
  <2>2. QED
    BY <1>2, <1>3, <1>5, <1>8, <2>1, HeadsAreAboveAll
<1>10. History(events')
  <2>1. t \in Applicable(LoadGraph(G, S \cup {t}))
    <3>1. t \in Accepted(events') /\ Past(events', t) \subseteq S \cup {t, c}
      BY <1>1, <1>2, <1>8, ApplicableIsAccepted DEF SignedAfter
    <3>2. Past(G, t) = Past(events', t) /\ t \in Accepted(G)
      BY <1>5, <1>7, <3>1, PastIsHistory, AcceptedIsHistory
    <3>3. Past(G, t) \subseteq S \cup {t}
      BY <1>1, <1>5, <3>1, <3>2
    <3> DEFINE T == S \cup {t}
    <3>4. T \in SUBSET DOMAIN G /\ Signed(G) /\ t \in T
      BY <1>2, <1>5 DEF SignedAfter
    <3> HIDE DEF T
    <3>5. t \in Applicable(LoadGraph(G, T))
      <4>1. Past(G, t) \subseteq T
        BY <3>3 DEF T
      <4>2. QED
        BY <3>2, <3>4, <4>1, ApplicableIsAccepted
    <3>6. QED
      BY <3>5 DEF T
  <2>2. CommittedParents(G[t]) = {}
    BY <1>3, <1>5 DEF CommittedParents
  <2>3. OneCheckpoint(G) /\ SealedHistory(G)
    BY <1>1, <1>2, <1>5, <1>9, <2>1, <2>2, HeadEventKeepsSeals
  <2>4. \A x \in DOMAIN G : t \notin Past(G, x)
    <3>1. \A x \in DOMAIN events : Past(G, x) = Past(events, x) /\ Past(events, x) \subseteq DOMAIN events
      BY <1>2, <1>5, PastIsHistory, PastFacts
    <3>2. QED
      BY <1>1, <1>5, <3>1
  <2>5. OneCheckpoint(events') /\ SealedHistory(events')
    <3>1. c \notin DOMAIN G /\ t \in DOMAIN G /\ events'[c].parents = {t}
      BY <1>1, <1>4, <1>5, <1>7
    <3>2. QED
      BY <1>7, <2>3, <2>4, <3>1, CheckpointKeepsSeals
  <2>6. QED
    BY <1>7, <2>5 DEF History
<1>11. TypeOK'
  <2>1. \A x \in DOMAIN events : events'[x] = events[x]
    BY <1>8 DEF SignedAfter
  <2>2. /\ DOMAIN events' \subseteq Id
        /\ events' \in [DOMAIN events' -> Event]
        /\ \A x \in DOMAIN events' : events'[x].parents \subseteq DOMAIN events'
    <3>1. events' = [x \in DOMAIN events' |-> events'[x]]
      BY <1>6
    <3>2. \A x \in DOMAIN events' : events'[x] \in Event
      BY <1>3, <1>4, <1>7, <1>8, <2>1 DEF Inv, TypeOK
    <3>3. QED
      BY <1>8, <3>1, <3>2 DEF SignedAfter, Signed
  <2>3. \A x \in DOMAIN events' : events'[x].parents = {} => events'[x].kind = "VaultImported"
    BY <1>3, <1>4, <1>7, <1>8, <2>1 DEF Inv, TypeOK
  <2>4. /\ store' \in [Device -> SUBSET DOMAIN events']
        /\ provider' \subseteq DOMAIN events'
    BY <1>1, <1>8 DEF Inv, TypeOK
  <2>5. QED
    BY <2>2, <2>3, <2>4 DEF TypeOK
<1>12. SecurityConflicts(events', S \cup X) = {}
  <2> DEFINE A == Applicable(LoadGraph(events, S))
             B == Applicable(LoadGraph(events', S \cup X))
  <2>1. B \subseteq A \cup X /\ S \cup X \in SUBSET DOMAIN events'
    <3> HIDE DEF X
    <3>1. QED
      BY <1>2, <1>8, AppliedAfterSigning
  <2>2. A \subseteq S /\ S \subseteq DOMAIN events
    BY <1>2, ApplicableIsAccepted
  <2>3. ASSUME NEW p \in SecurityConflicts(events', S \cup X)
        PROVE  FALSE
    <3>1. /\ p \in B \X B
          /\ Rotates(events'[p[1]])
          /\ Rotates(events'[p[2]]) \/ MutatesAccess(events'[p[2]])
          /\ p[1] # p[2]
          /\ p[1] \notin Past(events', p[2])
          /\ p[2] \notin Past(events', p[1])
      <4> HIDE DEF X
      <4>1. QED
        BY <1>8, <2>1, <2>3, ConflictsAreConcurrent DEF SignedAfter
    <3>2. t # p[1] /\ t # p[2]
      BY <1>1, <2>3
    <3>3. c # p[1] /\ c # p[2]
      BY <1>4, <1>7, <3>1 DEF Rotates, MutatesAccess
    <3>4. p[1] \in A /\ p[2] \in A /\ p \in A \X A
      BY <2>1, <3>1, <3>2, <3>3
    <3>5. \A x \in A : events'[x] = events[x] /\ Past(events', x) = Past(events, x)
      BY <1>8, <2>2, PastIsHistory DEF SignedAfter
    <3>6. p \in SecurityConflicts(events, S)
      BY <1>2, <3>1, <3>4, <3>5, ConflictsAreConcurrent
    <3>7. QED
      BY <1>2, <3>6
  <2>4. QED
    BY <2>3
<1>13. WholeEpochs' /\ NothingRejected' /\ NoConflictAdmitted' /\ NothingIsLost
  <2>1. \A r \in X : events'[r].kind = "DeviceRevoked" =>
                       \E k \in X : r \in CommittedParents(events'[k])
    BY <1>4, <1>7
  <2>2. /\ X \subseteq Applicable(LoadGraph(events', store[d] \cup X))
        /\ store' = [store EXCEPT ![d] = @ \cup X]
    BY <1>1
  <2> HIDE DEF X
  <2>3. QED
    BY <1>8, <1>12, <2>1, <2>2, SigningStep
<1>14. QED
  BY <1>10, <1>11, <1>13 DEF Inv

(* Publishing an event keeps the invariant and every store. *)
LEMMA PublishIsSafe ==
  ASSUME Inv, NEW d \in Device, NEW e \in Id, Publish(d, e)
  PROVE  Inv' /\ UNCHANGED store
<1>1. TypeOK'
  <2>1. provider' = provider \cup {e} /\ e \in store[d]
        /\ events' = events /\ store' = store
    BY DEF Publish
  <2>2. QED
    BY <2>1 DEF Inv, TypeOK
<1>2. QED
  BY <1>1 DEF Inv, Publish, WholeEpochs, NothingRejected, NoConflictAdmitted, Graph

(* A merge needs no more of the provider than that it holds signed events. *)
LEMMA PullIsSafe ==
  ASSUME Inv, NEW d \in Device, NEW seen \in SUBSET Id, Pull(d, seen)
  PROVE  Inv' /\ NothingIsLost
<1> DEFINE S == UnionRemote(events, store[d], seen)
<1>1. /\ seen \subseteq provider /\ events' = events /\ provider' = provider
      /\ SecurityConflicts(events, S) = {}
      /\ store' = [store EXCEPT ![d] = S]
  BY DEF Pull, MayCommit
<1>2. /\ Signed(events) /\ store[d] \in SUBSET DOMAIN events
      /\ seen \in SUBSET DOMAIN events
      /\ Incomplete(events, store[d]) = {}
  BY <1>1, TypeIsSigned DEF Inv, TypeOK, WholeEpochs
<1>3. /\ S \subseteq DOMAIN events
      /\ Quarantined(LoadGraph(events, S)) = {}
      /\ Incomplete(events, S) = {}
      /\ Applicable(LoadGraph(events, store[d])) \subseteq Applicable(LoadGraph(events, S))
  BY <1>2, UnionRemoteFacts
<1> HIDE DEF S
<1>4. store'[d] = S /\ \A e \in Device \ {d} : store'[e] = store[e]
  BY <1>1 DEF Inv, TypeOK
<1>5. TypeOK'
  BY <1>1, <1>3 DEF Inv, TypeOK
<1>6. WholeEpochs'
  BY <1>1, <1>3, <1>4 DEF Inv, WholeEpochs
<1>7. NothingRejected'
  BY <1>1, <1>3, <1>4 DEF Inv, NothingRejected, Graph
<1>8. NoConflictAdmitted'
  BY <1>1, <1>4 DEF Inv, NoConflictAdmitted
<1>9. NothingIsLost
  BY <1>1, <1>3, <1>4 DEF NothingIsLost, Graph
<1>10. QED
  BY <1>1, <1>5, <1>6, <1>7, <1>8, <1>9 DEF Inv

(* A stray event is accepted by nobody, and no store holds it yet. *)
LEMMA StrayIsSafe ==
  ASSUME Inv, NEW id \in Id, NEW d \in Device, NEW parents \in SUBSET Id,
         Stray(id, d, parents)
  PROVE  Inv' /\ NothingIsLost
<1> DEFINE e == [parents |-> parents, actor |-> d, kind |-> "Mutation",
                 device |-> d, epoch |-> 0]
<1>1. /\ id \in Id \ DOMAIN events
      /\ parents # {} /\ parents \subseteq provider
      /\ events' = [x \in DOMAIN events \cup {id} |-> IF x = id THEN e ELSE events[x]]
      /\ d \notin Authorized(events', Before(events', DOMAIN events', id))
      /\ provider' = provider \cup {id}
      /\ store' = store
  BY DEF Stray, Sign
<1>2. Signed(events) /\ IsFiniteSet(DOMAIN events) /\ Acyclic(events)
      /\ OneCheckpoint(events) /\ SealedHistory(events)
  BY TypeIsSigned DEF Inv, History
<1>3. e \in Event /\ e.parents = parents /\ e.kind = "Mutation" /\ e.actor = d
      /\ e.parents \subseteq DOMAIN events
  BY <1>1 DEF Event, Kind, Inv, TypeOK
<1> HIDE DEF e
<1>4. /\ SignedAfter(events, events')
      /\ DOMAIN events' = DOMAIN events \cup {id} /\ events'[id] = e
      /\ IsFiniteSet(DOMAIN events') /\ Acyclic(events')
  BY <1>1, <1>2, <1>3, SignedEventIsLast
<1>5. id \notin Accepted(events')
  <2>1. ~ActorAuthorized(events', Past(events', id), e)
    BY <1>1, <1>3 DEF ActorAuthorized, SelfSigned, Past
  <2>2. QED
    BY <1>4, <2>1 DEF Accepted, Lawful
<1>6. Accepted(events') = Accepted(events)
  BY <1>4, <1>5, AcceptedIsHistory DEF Accepted
<1>7. \A x \in DOMAIN events : events'[x] = events[x]
  BY <1>4 DEF SignedAfter
<1>8. History(events')
  <2>1. CommittedParents(events'[id]) = {}
    BY <1>3, <1>4 DEF CommittedParents
  <2>2. OneCheckpoint(events')
    BY <1>2, <1>4, <1>7, <2>1 DEF OneCheckpoint
  <2>3. \A x \in Accepted(events) :
          events'[x] = events[x] /\ Past(events', x) = Past(events, x)
    BY <1>4, <1>7, PastIsHistory DEF Accepted
  <2>4. SealedHistory(events')
    BY <1>2, <1>6, <2>3 DEF SealedHistory
  <2>5. QED
    BY <1>4, <2>2, <2>4 DEF History
<1>9. TypeOK'
  <2>1. /\ DOMAIN events' \subseteq Id
        /\ events' \in [DOMAIN events' -> Event]
        /\ \A x \in DOMAIN events' : events'[x].parents \subseteq DOMAIN events'
    <3>1. events' = [x \in DOMAIN events' |-> events'[x]]
      BY <1>1
    <3>2. \A x \in DOMAIN events' : events'[x] \in Event
      BY <1>3, <1>4, <1>7 DEF Inv, TypeOK
    <3>3. QED
      BY <1>4, <3>1, <3>2 DEF SignedAfter, Signed
  <2>2. \A x \in DOMAIN events' : events'[x].parents = {} => events'[x].kind = "VaultImported"
    BY <1>1, <1>3, <1>4, <1>7 DEF Inv, TypeOK
  <2>3. /\ store' \in [Device -> SUBSET DOMAIN events']
        /\ provider' \subseteq DOMAIN events'
    BY <1>1, <1>4 DEF Inv, TypeOK
  <2>4. QED
    BY <2>1, <2>2, <2>3 DEF TypeOK
<1>10. ASSUME NEW o \in Device
       PROVE  /\ LoadGraph(events', store[o]) = LoadGraph(events, store[o])
              /\ Incomplete(events', store[o]) = Incomplete(events, store[o])
              /\ SecurityConflicts(events', store[o]) = SecurityConflicts(events, store[o])
  <2>1. store[o] \in SUBSET DOMAIN events
    BY DEF Inv, TypeOK
  <2>2. QED
    BY <1>4, <2>1, GraphIsHistory
<1>11. WholeEpochs' /\ NothingRejected' /\ NoConflictAdmitted'
  BY <1>1, <1>10 DEF Inv, WholeEpochs, NothingRejected, NoConflictAdmitted, Graph
<1>12. NothingIsLost
  BY <1>1, <1>10 DEF NothingIsLost, Graph
<1>13. QED
  BY <1>8, <1>9, <1>11, <1>12 DEF Inv

(* The invariant holds at first, with the genesis event of the owner. *)
LEMMA InitIsSafe == Init => Inv
<1> SUFFICES ASSUME Init PROVE Inv
  OBVIOUS
<1>1. PICK id \in Id :
        /\ events = [x \in {id} |-> [parents |-> {}, actor |-> Owner,
                                     kind |-> "VaultImported",
                                     device |-> Owner, epoch |-> 0]]
        /\ store = [d \in Device |-> IF d = Owner THEN {id} ELSE {}]
        /\ provider = {}
  BY DEF Init
<1>2. /\ DOMAIN events = {id} /\ events[id].parents = {}
      /\ events[id].kind = "VaultImported" /\ events[id] \in Event
  BY <1>1, OwnerAssumption DEF Event, Kind
<1>3. TypeOK
  BY <1>1, <1>2 DEF TypeOK
<1>4. Signed(events)
  BY <1>3, TypeIsSigned
<1>5. Past(events, id) = {}
  BY <1>2, <1>4, PastThroughParents
<1>6. CommittedParents(events[id]) = {}
  BY <1>2 DEF CommittedParents
<1>7. History(events)
  <2>1. IsFiniteSet(DOMAIN events)
    BY <1>2, FS_Singleton
  <2>2. Acyclic(events) /\ OneCheckpoint(events)
    BY <1>2, <1>5 DEF Acyclic, OneCheckpoint
  <2>3. SealedHistory(events)
    BY <1>2, <1>6 DEF SealedHistory, Accepted
  <2>4. QED
    BY <2>1, <2>2, <2>3 DEF History
<1>8. Lawful(events, id)
  BY <1>2 DEF Lawful, ValidCheckpoint, ActorAuthorized
<1>9. ASSUME NEW d \in Device
      PROVE  /\ Quarantined(LoadGraph(events, store[d])) = {}
             /\ Incomplete(events, store[d]) = {}
             /\ SecurityConflicts(events, store[d]) = {}
  <2>1. store[d] \in SUBSET DOMAIN events /\ store[d] \subseteq {id}
    BY <1>1, <1>2
  <2>2. Rejects(events, store[d]) = {}
    BY <1>4, <1>8, <2>1, RejectsAreUnlawful
  <2>3. Applicable(LoadGraph(events, store[d])) \subseteq {id}
    BY <1>4, <2>1, ApplicableIsAccepted
  <2>4. Open(events, store[d]) = {}
    BY <1>2, <2>3 DEF Open, Of
  <2>5. SecurityConflicts(events, store[d]) = {}
    <3>1. \A p \in Applicable(LoadGraph(events, store[d]))
                     \X Applicable(LoadGraph(events, store[d])) : p[1] = id
      BY <2>3
    <3>2. QED
      BY <1>2, <3>1 DEF SecurityConflicts, Rotates
  <2>6. Quarantined(LoadGraph(events, store[d])) = {}
    BY <1>4, <2>1, <2>2, LoadedGraph
  <2>7. QED
    BY <1>4, <2>1, <2>4, <2>5, <2>6, OpenFacts
<1>10. QED
  BY <1>3, <1>7, <1>9 DEF Inv, WholeEpochs, NothingRejected, NoConflictAdmitted, Graph

-----------------------------------------------------------------------------
(***************************************************************************)
(* Theorems.                                                               *)
(***************************************************************************)
LEMMA StepIsSafe ==
  ASSUME Inv, [Next]_vars
  PROVE  Inv' /\ (NothingIsLost \/ UNCHANGED store)
<1>1. CASE UNCHANGED vars
  BY <1>1 DEF vars, Inv, TypeOK, WholeEpochs, NothingRejected, NoConflictAdmitted, Graph
<1>2. ASSUME NEW d \in Device, NEW id \in Id, NEW member \in Device,
             \/ Edit(d, id) \/ MergeHeads(d, id) \/ RequestAccess(d, id)
             \/ Enroll(d, id) \/ ApproveJoin(d, id, member)
             \/ ApproveExtension(d, id, member)
      PROVE  Inv' /\ NothingIsLost
  <2>1. PICK kind \in AppendKind, subject \in Device : Append(d, id, kind, subject)
    BY <1>2 DEF Edit, MergeHeads, RequestAccess, Enroll, ApproveJoin, ApproveExtension,
                AppendKind
  <2>2. QED
    BY <2>1, AppendIsSafe
<1>3. ASSUME NEW d \in Device, NEW t \in Id, NEW c \in Id, NEW victim \in Device,
             RevokeMember(d, t, c, victim)
      PROVE  Inv' /\ NothingIsLost
  BY <1>3, RotateIsSafe DEF RevokeMember
<1>4. ASSUME NEW d \in Device, NEW e \in Id, Publish(d, e)
      PROVE  Inv' /\ UNCHANGED store
  BY <1>4, PublishIsSafe
<1>5. ASSUME NEW d \in Device, NEW seen \in SUBSET Id, Pull(d, seen)
      PROVE  Inv' /\ NothingIsLost
  BY <1>5, PullIsSafe
<1>6. ASSUME NEW id \in Id, NEW d \in Device, NEW parents \in SUBSET Id,
             Stray(id, d, parents)
      PROVE  Inv' /\ NothingIsLost
  BY <1>6, StrayIsSafe
<1>7. CASE Next
  BY <1>7, <1>2, <1>3, <1>4, <1>5, <1>6 DEF Next
<1>8. QED
  BY <1>1, <1>7

(* The invariant holds in every state. *)
LEMMA AlwaysInv == Spec => []Inv
<1>1. Inv /\ [Next]_vars => Inv'
  BY StepIsSafe
<1>2. QED
  BY <1>1, InitIsSafe, PTL DEF Spec

(***************************************************************************)
(* Whatever a device reads and whoever writes to the provider, its store   *)
(* holds no rejected event, no revocation without its checkpoint, and no   *)
(* security conflict (prepare, prepare_union, insert_pair).                *)
(***************************************************************************)
THEOREM StoresStaySound ==
  Spec => [](TypeOK /\ WholeEpochs /\ NothingRejected /\ NoConflictAdmitted)
<1>1. Inv => TypeOK /\ WholeEpochs /\ NothingRejected /\ NoConflictAdmitted
  BY DEF Inv
<1>2. QED
  BY <1>1, AlwaysInv, PTL

(***************************************************************************)
(* No store keeps an event that authorization rejects, not even one that   *)
(* was stored as pending and judged only when its ancestors arrived        *)
(* (union_remote).                                                         *)
(***************************************************************************)
THEOREM NothingRejectedIsKept == Spec => []NothingRejected
<1>1. QED
  BY StoresStaySound, PTL

(***************************************************************************)
(* No store holds a revocation next to a concurrent revocation, approval   *)
(* or edit (prepare_union, detect_security_conflicts).                     *)
(***************************************************************************)
THEOREM ConflictsStayOut == Spec => []NoConflictAdmitted
<1>1. QED
  BY StoresStaySound, PTL

(***************************************************************************)
(* In every store, what follows a trigger follows its checkpoint           *)
(* (append_epoch_pair, visibility_gated_remote_events).                    *)
(***************************************************************************)
THEOREM RotationIsOneStep == Spec => []EpochSealed
<1>1. ASSUME Inv, NEW d \in Device
      PROVE  LET A == Applicable(Graph(d))
                 P == Stored(events, store[d])
             IN  \A c, x \in A : \A t \in CommittedParents(events[c]) :
                   t \in Reach(P, x) => IsAncestor(P, c, x)
  <2> DEFINE A == Applicable(LoadGraph(events, store[d]))
             P == Stored(events, store[d])
  <2>1. Signed(events) /\ store[d] \in SUBSET DOMAIN events
    BY <1>1, TypeIsSigned DEF Inv, TypeOK
  <2>2. ASSUME NEW x \in A
        PROVE  x \in Accepted(events) /\ Reach(P, x) = Past(events, x)
    <3>1. x \in store[d] /\ x \in Accepted(events) /\ Past(events, x) \subseteq store[d]
      BY <2>1, ApplicableIsAccepted
    <3>2. QED
      BY <2>1, <3>1, CompleteMeansPast DEF Before
  <2>3. SealedHistory(events)
    BY <1>1 DEF Inv, History
  <2>4. QED
    BY <2>2, <2>3 DEF SealedHistory, IsAncestor, Graph
<1>2. Inv => EpochSealed
  BY <1>1 DEF EpochSealed
<1>3. QED
  BY <1>2, AlwaysInv, PTL

(***************************************************************************)
(* Merging and writing take back nothing that a store has applied, in any  *)
(* step of any device (PreparedRemoteUnion::commit).                       *)
(***************************************************************************)
THEOREM HistoryIsKept == Spec => AppliedIsKept
<1> DEFINE Keeps ==
      \A d \in Device :
        store'[d] # store[d] =>
          Applicable(Graph(d)) \subseteq Applicable(LoadGraph(events', store'[d]))
<1>1. Inv /\ [Next]_vars => [Keeps]_vars
  <2> SUFFICES ASSUME Inv, [Next]_vars PROVE Keeps
    OBVIOUS
  <2>1. NothingIsLost \/ UNCHANGED store
    BY StepIsSafe
  <2>2. QED
    BY <2>1 DEF NothingIsLost
<1>2. QED
  BY <1>1, AlwaysInv, PTL DEF Spec, AppliedIsKept

-----------------------------------------------------------------------------
(***************************************************************************)
(* Outboxes, flushes and repairs (VaultSync).                              *)
(***************************************************************************)

Unpublished(d) == store[d] \ provider

(* A list Q of device d has no unpublished trigger without its checkpoint, *)
(* unless the checkpoint is published.                                     *)
PairOrder(d, Q) ==
  \A t \in Q \cap Unpublished(d), c \in store[d] :
    t \in CommittedParents(events[c]) => c \in provider \cup Q

(***************************************************************************)
(* What is true of a device between any two of its transactions: it        *)
(* applies what it has not published, it clears rows only of what is at    *)
(* the provider (or not stored), it never has a trigger to publish without *)
(* the checkpoint, and a repair has left whatever is unpublished.          *)
(***************************************************************************)
OutboxInv(d) ==
  /\ Unpublished(d) \subseteq Applicable(Graph(d))
  /\ cleared[d] \cap store[d] \subseteq provider
  /\ PairOrder(d, index[d])
  /\ flush[d].stage = "idle" => flush[d] = NoFlush
  /\ flush[d].stage = "outbox" => PairOrder(d, flush[d].left)
  /\ flush[d].stage = "repair" => Unpublished(d) \subseteq flush[d].left

SyncInv ==
  /\ Inv
  /\ SyncTypeOK
  /\ \A d \in Device : OutboxInv(d)

-----------------------------------------------------------------------------
(***************************************************************************)
(* Publishing by priority is publishing checkpoints first.                 *)
(***************************************************************************)
LEMMA CheckpointGoesFirst ==
  ASSUME SyncInv, NEW d \in Device, NEW e \in NextToPublish(d),
         e \in Unpublished(d), events[e].kind = "DeviceRevoked"
  PROVE  PublishedCheckpoint(e)
<1>1. Signed(events) /\ store[d] \in SUBSET DOMAIN events
      /\ Incomplete(events, store[d]) = {}
  BY TypeIsSigned DEF SyncInv, Inv, TypeOK, WholeEpochs
<1>2. e \in Applicable(LoadGraph(events, store[d]))
  BY DEF SyncInv, OutboxInv, Graph
<1>3. e \in Committed(events, Applicable(LoadGraph(events, store[d])))
  BY <1>1, <1>2, OpenFacts DEF Open, Of
<1>4. PICK c \in Applicable(LoadGraph(events, store[d])) :
        e \in CommittedParents(events[c])
  BY <1>3 DEF Committed
<1>5. c \in store[d]
  BY <1>1, ApplicableIsAccepted
<1>6. e \in flush[d].left /\ flush[d].stage \in {"idle", "outbox", "repair"}
  BY DEF NextToPublish, SyncInv, SyncTypeOK, Flush
<1>7. c \in provider \cup flush[d].left
  <2>1. flush[d].stage # "idle"
    BY <1>6 DEF SyncInv, OutboxInv, NoFlush
  <2>2. CASE flush[d].stage = "outbox"
    BY <1>4, <1>5, <1>6, <2>2 DEF SyncInv, OutboxInv, PairOrder
  <2>3. CASE flush[d].stage = "repair"
    BY <1>5, <2>3 DEF SyncInv, OutboxInv, Unpublished
  <2>4. QED
    BY <1>6, <2>1, <2>2, <2>3
<1>8. c \notin flush[d].left
  <2>1. PublishPriority(events[c]) = 0
    BY <1>4 DEF PublishPriority
  <2>2. PublishPriority(events[e]) = 2
    BY DEF PublishPriority, CommittedParents
  <2>3. QED
    BY <2>1, <2>2 DEF NextToPublish
<1>9. QED
  BY <1>4, <1>7, <1>8 DEF PublishedCheckpoint

(* Every step of the detailed system is a step of the abstract one. *)
LEMMA StepImplements ==
  ASSUME SyncInv, [SyncNext]_syncVars
  PROVE  [Next]_vars
<1>1. ASSUME NEW d \in Device, NEW id \in Id, NEW kind \in AppendKind,
             NEW subject \in Device, SignAndQueue(d, id, kind, subject)
      PROVE  Next
  <2>1. Append(d, id, kind, subject)
    BY <1>1 DEF SignAndQueue
  <2>2. kind # "JoinApproved" => subject = d
    BY <2>1 DEF Append
  <2>3. \/ Edit(d, id) \/ MergeHeads(d, id) \/ RequestAccess(d, id)
        \/ ApproveExtension(d, id, subject)
    BY <2>1, <2>2
       DEF AppendKind, Edit, MergeHeads, RequestAccess, ApproveExtension
  <2>4. QED
    BY <2>3 DEF Next
<1>2. ASSUME NEW d \in Device, NEW t \in Id, NEW c \in Id, NEW victim \in Device,
             RotateAndQueue(d, t, c, victim)
      PROVE  Next
  BY <1>2 DEF RotateAndQueue, Next
<1>3. ASSUME NEW d \in Device, NEW seen \in SUBSET Id, Merge(d, seen)
      PROVE  Next
  BY <1>3 DEF Merge, Next
<1>4. ASSUME NEW d \in Device, NEW e \in Id, Put(d, e)
      PROVE  Next
  <2>1. e \in NextToPublish(d) /\ e \in Unpublished(d)
    BY <1>4 DEF Put, Unpublished
  <2>2. events[e].kind = "DeviceRevoked" => PublishedCheckpoint(e)
    BY <2>1, CheckpointGoesFirst
  <2>3. Publish(d, e)
    BY <1>4, <2>2 DEF Put, Publish
  <2>4. QED
    BY <2>3 DEF Next
<1>5. ASSUME NEW d \in Device,
             \/ StartFlush(d) \/ StartRepair(d) \/ FinishFlush(d)
             \/ Fail(d) \/ CloseDuringRemoval(d)
             \/ \E e \in Id : ClearRow(d, e) \/ DropFromIndex(d, e) \/ Repaired(d, e)
      PROVE  UNCHANGED vars
  BY <1>5 DEF StartFlush, StartRepair, FinishFlush, Fail, CloseDuringRemoval,
              ClearRow, DropFromIndex, Repaired, vars
<1>6. ASSUME NEW id \in Id, NEW d \in Device, NEW parents \in SUBSET Id,
             Stray(id, d, parents)
      PROVE  Next
  BY <1>6 DEF Next
<1>7. CASE UNCHANGED syncVars
  BY <1>7 DEF syncVars, vars
<1>8. CASE SyncNext
  BY <1>8, <1>1, <1>2, <1>3, <1>4, <1>5, <1>6 DEF SyncNext, FlushStep
<1>9. QED
  BY <1>7, <1>8

-----------------------------------------------------------------------------
(***************************************************************************)
(* Steps that sign events, or merge them.                                  *)
(***************************************************************************)

(* Whoever is not at work only sees more events signed and published. *)
LEMMA OthersKeepOutbox ==
  ASSUME SyncInv, NEW o \in Device, NothingIsLost \/ events' = events,
         store'[o] = store[o], provider \subseteq provider',
         \A x \in DOMAIN events : events'[x] = events[x],
         index'[o] = index[o], cleared'[o] = cleared[o], flush'[o] = flush[o]
  PROVE  OutboxInv(o)'
<1>1. Unpublished(o)' \subseteq Unpublished(o)
  BY DEF Unpublished
<1>2. store[o] \subseteq DOMAIN events
  BY DEF SyncInv, Inv, TypeOK
<1>3. Unpublished(o)' \subseteq Applicable(Graph(o))'
  BY <1>1 DEF SyncInv, OutboxInv, NothingIsLost, Graph
<1>4. ASSUME NEW Q, PairOrder(o, Q)
      PROVE  \A t \in Q \cap Unpublished(o)', c \in store'[o] :
               t \in CommittedParents(events'[c]) => c \in provider' \cup Q
  BY <1>1, <1>2, <1>4 DEF PairOrder
<1>5. PairOrder(o, index[o])' /\ (flush'[o].stage = "outbox" => PairOrder(o, flush[o].left)')
  BY <1>4 DEF PairOrder, SyncInv, OutboxInv
<1>6. QED
  BY <1>1, <1>3, <1>5 DEF SyncInv, OutboxInv

(* Signing an event together with its outbox row keeps the invariant. *)
LEMMA SigningKeepsOutbox ==
  ASSUME SyncInv, NEW d \in Device, NEW id \in Id, NEW kind \in AppendKind,
         NEW subject \in Device, SignAndQueue(d, id, kind, subject)
  PROVE  SyncInv'
<1>1. /\ flush[d] = NoFlush
      /\ Append(d, id, kind, subject)
      /\ \E queued \in {{}, {id}} : Queue(d, queued)
  BY DEF SignAndQueue
<1>2. Inv' /\ NothingIsLost
  BY <1>1, AppendIsSafe DEF SyncInv
<1>3. /\ id \notin DOMAIN events
      /\ DOMAIN events' = DOMAIN events \cup {id}
      /\ \A x \in DOMAIN events : events'[x] = events[x]
      /\ events'[id].kind = kind
      /\ provider' = provider
      /\ id \in Applicable(LoadGraph(events', store[d] \cup {id}))
      /\ store' = [store EXCEPT ![d] = @ \cup {id}]
  BY <1>1 DEF Append, Sign, NewEvent, Applies
<1>4. /\ cleared' = cleared /\ flush' = flush
      /\ \A o \in Device : o # d => index'[o] = index[o] /\ store'[o] = store[o]
      /\ index'[d] \subseteq index[d] \cup {id} /\ index[d] \subseteq index'[d]
      /\ store'[d] = store[d] \cup {id}
  BY <1>1, <1>3 DEF Queue, SyncInv, SyncTypeOK, TypeOK
<1>5. /\ store[d] \subseteq DOMAIN events /\ cleared[d] \subseteq DOMAIN events
      /\ index[d] \subseteq DOMAIN events
  BY DEF SyncInv, SyncTypeOK, TypeOK
<1>6. SyncTypeOK'
  <2>1. index' \in [Device -> SUBSET DOMAIN events']
    BY <1>1, <1>3 DEF Queue, SyncInv, SyncTypeOK
  <2>2. TypeOK'
    BY <1>2 DEF Inv
  <2>3. QED
    BY <1>3, <1>4, <2>1, <2>2 DEF SyncInv, SyncTypeOK
<1>7. OutboxInv(d)'
  <2>1. Unpublished(d)' \subseteq Unpublished(d) \cup {id}
    BY <1>3, <1>4 DEF Unpublished
  <2>2. Unpublished(d)' \subseteq Applicable(Graph(d))'
    <3>1. Unpublished(d) \subseteq Applicable(Graph(d))
      BY DEF SyncInv, OutboxInv
    <3>2. Applicable(Graph(d)) \subseteq Applicable(LoadGraph(events', store'[d]))
      BY <1>2 DEF NothingIsLost
    <3>3. id \in Applicable(LoadGraph(events', store'[d]))
      BY <1>3, <1>4
    <3>4. QED
      BY <2>1, <3>1, <3>2, <3>3 DEF Graph
  <2>3. cleared'[d] \cap store'[d] \subseteq provider'
    BY <1>3, <1>4, <1>5 DEF SyncInv, OutboxInv
  <2>4. PairOrder(d, index[d])'
    <3>1. ASSUME NEW t \in index'[d] \cap Unpublished(d)', NEW c \in store'[d],
                 t \in CommittedParents(events'[c])
          PROVE  c \in provider' \cup index'[d]
      <4>1. c \in store[d] /\ c \in DOMAIN events
        BY <1>3, <1>4, <1>5, <3>1 DEF CommittedParents, AppendKind
      <4>2. t \in DOMAIN events /\ t \in CommittedParents(events[c])
        BY <1>3, <3>1, <4>1 DEF CommittedParents, SyncInv, Inv, TypeOK
      <4>3. t \in index[d] \cap Unpublished(d)
        BY <1>3, <1>4, <2>1, <4>2
      <4>4. QED
        BY <1>3, <1>4, <4>1, <4>2, <4>3 DEF SyncInv, OutboxInv, PairOrder
    <3>2. QED
      BY <3>1 DEF PairOrder
  <2>5. flush'[d] = NoFlush /\ flush'[d].stage = "idle"
    BY <1>1, <1>4 DEF NoFlush
  <2>6. QED
    BY <2>2, <2>3, <2>4, <2>5 DEF OutboxInv
<1>8. ASSUME NEW o \in Device, o # d PROVE OutboxInv(o)'
  BY <1>2, <1>3, <1>4, <1>8, OthersKeepOutbox
<1>9. QED
  BY <1>2, <1>6, <1>7, <1>8 DEF SyncInv

(* Signing a rotation together with its outbox rows keeps the invariant. *)
LEMMA RotatingKeepsOutbox ==
  ASSUME SyncInv, NEW d \in Device, NEW t \in Id, NEW c \in Id,
         NEW victim \in Device, RotateAndQueue(d, t, c, victim)
  PROVE  SyncInv'
<1>1. /\ flush[d] = NoFlush
      /\ Rotate(d, t, c, victim)
      /\ \E queued \in QueuedPair(t, c) : Queue(d, queued)
  BY DEF RotateAndQueue, RevokeMember
<1>2. Inv' /\ NothingIsLost
  BY <1>1, RotateIsSafe DEF SyncInv
<1>3. /\ t \notin DOMAIN events /\ c \notin DOMAIN events /\ t # c
      /\ DOMAIN events' = DOMAIN events \cup {t, c}
      /\ \A x \in DOMAIN events : events'[x] = events[x]
      /\ events'[t].kind = "DeviceRevoked" /\ events'[c].parents = {t}
      /\ provider' = provider
      /\ t \in Applicable(LoadGraph(events', store[d] \cup {t, c}))
      /\ c \in Applicable(LoadGraph(events', store[d] \cup {t, c}))
      /\ store' = [store EXCEPT ![d] = @ \cup {t, c}]
  BY <1>1 DEF Rotate, SignPair, NewEvent, CheckpointOf, Applies
<1>4. /\ cleared' = cleared /\ flush' = flush
      /\ \A o \in Device : o # d => index'[o] = index[o] /\ store'[o] = store[o]
      /\ index'[d] \subseteq index[d] \cup {t, c} /\ index[d] \subseteq index'[d]
      /\ t \in index'[d] => t \in index[d] \/ c \in index'[d]
      /\ store'[d] = store[d] \cup {t, c}
  BY <1>1, <1>3 DEF Queue, QueuedPair, SyncInv, SyncTypeOK, TypeOK
<1>5. /\ store[d] \subseteq DOMAIN events /\ cleared[d] \subseteq DOMAIN events
      /\ index[d] \subseteq DOMAIN events
  BY DEF SyncInv, SyncTypeOK, TypeOK
<1>6. SyncTypeOK'
  <2>1. index' \in [Device -> SUBSET DOMAIN events']
    BY <1>1, <1>3 DEF Queue, QueuedPair, SyncInv, SyncTypeOK
  <2>2. TypeOK'
    BY <1>2 DEF Inv
  <2>3. QED
    BY <1>3, <1>4, <2>1, <2>2 DEF SyncInv, SyncTypeOK
<1>7. OutboxInv(d)'
  <2>1. Unpublished(d)' \subseteq Unpublished(d) \cup {t, c}
    BY <1>3, <1>4 DEF Unpublished
  <2>2. Unpublished(d)' \subseteq Applicable(Graph(d))'
    <3>1. Unpublished(d) \subseteq Applicable(Graph(d))
      BY DEF SyncInv, OutboxInv
    <3>2. Applicable(Graph(d)) \subseteq Applicable(LoadGraph(events', store'[d]))
      BY <1>2 DEF NothingIsLost
    <3>3. {t, c} \subseteq Applicable(LoadGraph(events', store'[d]))
      BY <1>3, <1>4
    <3>4. QED
      BY <2>1, <3>1, <3>2, <3>3 DEF Graph
  <2>3. cleared'[d] \cap store'[d] \subseteq provider'
    BY <1>3, <1>4, <1>5 DEF SyncInv, OutboxInv
  <2>4. PairOrder(d, index[d])'
    <3>1. ASSUME NEW u \in index'[d] \cap Unpublished(d)', NEW b \in store'[d],
                 u \in CommittedParents(events'[b])
          PROVE  b \in provider' \cup index'[d]
      <4>1. CASE b = c
        <5>1. u = t
          BY <1>3, <3>1, <4>1 DEF CommittedParents
        <5>2. QED
          BY <1>3, <1>4, <1>5, <3>1, <4>1, <5>1
      <4>2. CASE b # c
        <5>1. b \in store[d] /\ b \in DOMAIN events
          BY <1>3, <1>4, <1>5, <3>1, <4>2 DEF CommittedParents
        <5>2. u \in DOMAIN events /\ u \in CommittedParents(events[b])
          BY <1>3, <3>1, <5>1 DEF CommittedParents, SyncInv, Inv, TypeOK
        <5>3. u \in index[d] \cap Unpublished(d)
          BY <1>3, <1>4, <2>1, <3>1, <5>2
        <5>4. QED
          BY <1>3, <1>4, <5>1, <5>2, <5>3 DEF SyncInv, OutboxInv, PairOrder
      <4>3. QED
        BY <4>1, <4>2
    <3>2. QED
      BY <3>1 DEF PairOrder
  <2>5. flush'[d] = NoFlush /\ flush'[d].stage = "idle"
    BY <1>1, <1>4 DEF NoFlush
  <2>6. QED
    BY <2>2, <2>3, <2>4, <2>5 DEF OutboxInv
<1>8. ASSUME NEW o \in Device, o # d PROVE OutboxInv(o)'
  BY <1>2, <1>3, <1>4, <1>8, OthersKeepOutbox
<1>9. QED
  BY <1>2, <1>6, <1>7, <1>8 DEF SyncInv

(* Merging what a provider holds keeps the invariant. *)
LEMMA MergingKeepsOutbox ==
  ASSUME SyncInv, NEW d \in Device, NEW seen \in SUBSET Id, Merge(d, seen)
  PROVE  SyncInv'
<1>1. /\ flush[d] = NoFlush /\ Pull(d, seen)
      /\ index' = index /\ cleared' = cleared /\ flush' = flush
  BY DEF Merge
<1>2. Inv' /\ NothingIsLost
  BY <1>1, PullIsSafe DEF SyncInv
<1>3. /\ events' = events /\ provider' = provider
      /\ \A o \in Device : o # d => store'[o] = store[o]
      /\ store'[d] \subseteq store[d] \cup provider
  <2>1. /\ events' = events /\ provider' = provider /\ seen \subseteq provider
        /\ store' = [store EXCEPT ![d] = UnionRemote(events, store[d], seen)]
    BY <1>1 DEF Pull
  <2>2. UnionRemote(events, store[d], seen) \subseteq store[d] \cup seen
    BY DEF UnionRemote, VisibleRemote
  <2>3. QED
    BY <2>1, <2>2 DEF SyncInv, Inv, TypeOK
<1>4. SyncTypeOK'
  BY <1>1, <1>2, <1>3 DEF SyncInv, SyncTypeOK, Inv
<1>5. OutboxInv(d)'
  <2>1. Unpublished(d)' \subseteq Unpublished(d)
    BY <1>3 DEF Unpublished
  <2>2. Unpublished(d)' \subseteq Applicable(Graph(d))'
    BY <1>2, <2>1 DEF SyncInv, OutboxInv, NothingIsLost, Graph
  <2>3. cleared'[d] \cap store'[d] \subseteq provider'
    BY <1>1, <1>3 DEF SyncInv, OutboxInv
  <2>4. PairOrder(d, index[d])'
    BY <1>1, <1>3, <2>1 DEF PairOrder, SyncInv, OutboxInv
  <2>5. flush'[d] = NoFlush /\ flush'[d].stage = "idle"
    BY <1>1 DEF NoFlush
  <2>6. QED
    BY <2>2, <2>3, <2>4, <2>5 DEF OutboxInv
<1>6. ASSUME NEW o \in Device, o # d PROVE OutboxInv(o)'
  BY <1>1, <1>2, <1>3, <1>6, OthersKeepOutbox
<1>7. QED
  BY <1>2, <1>4, <1>5, <1>6 DEF SyncInv

-----------------------------------------------------------------------------
(***************************************************************************)
(* Steps of a flush.                                                       *)
(***************************************************************************)

(* The provider may only get more, the rest of the vault stays. *)
LEMMA FlushingKeepsVault ==
  ASSUME SyncInv, Inv', events' = events, store' = store,
         provider \subseteq provider', NEW d \in Device,
         SyncTypeOK', OutboxInv(d)',
         \A o \in Device \ {d} : /\ index'[o] = index[o]
                                 /\ cleared'[o] = cleared[o]
                                 /\ flush'[o] = flush[o]
  PROVE  SyncInv'
<1>1. ASSUME NEW o \in Device, o # d PROVE OutboxInv(o)'
  BY <1>1, OthersKeepOutbox
<1>2. QED
  BY <1>1 DEF SyncInv

(* Writing an event to the provider keeps the invariant. *)
LEMMA PutKeepsOutbox ==
  ASSUME SyncInv, NEW d \in Device, NEW e \in Id, Put(d, e)
  PROVE  SyncInv'
<1>1. /\ e \in store[d] \ provider /\ provider' = provider \cup {e}
      /\ events' = events /\ store' = store
      /\ index' = index /\ cleared' = cleared /\ flush' = flush
  BY DEF Put, outbox
<1>2. Publish(d, e)
  <2>1. e \in NextToPublish(d) /\ e \in Unpublished(d)
    BY DEF Put, Unpublished
  <2>2. QED
    BY <1>1, <2>1, CheckpointGoesFirst DEF Publish
<1>3. Inv'
  BY <1>2, PublishIsSafe DEF SyncInv
<1>4. SyncTypeOK'
  BY <1>1, <1>3 DEF SyncInv, SyncTypeOK, Inv
<1>5. OutboxInv(d)'
  BY <1>1, OthersKeepOutbox
<1>6. QED
  BY <1>1, <1>3, <1>4, <1>5, FlushingKeepsVault

(* The flushes that leave events, stores and the provider alone. *)
LEMMA QuietStep ==
  ASSUME SyncInv, UNCHANGED <<events, store, provider>>
  PROVE  Inv' /\ TypeOK'
BY DEF SyncInv, Inv, TypeOK, WholeEpochs, NothingRejected, NoConflictAdmitted, Graph

(* Starting a flush keeps the invariant. *)
LEMMA StartFlushKeepsOutbox ==
  ASSUME SyncInv, NEW d \in Device, StartFlush(d)
  PROVE  SyncInv'
<1>1. /\ events' = events /\ store' = store /\ provider' = provider
      /\ index' = index /\ cleared' = cleared
      /\ flush' = [flush EXCEPT ![d] = [stage |-> "outbox", left |-> index[d]]]
  BY DEF StartFlush, outbox
<1>2. flush'[d] = [stage |-> "outbox", left |-> index[d]]
      /\ \A o \in Device \ {d} : flush'[o] = flush[o]
  BY <1>1 DEF SyncInv, SyncTypeOK
<1>3. Inv' /\ TypeOK'
  BY <1>1, QuietStep
<1>4. index[d] \subseteq DOMAIN events /\ index[d] \subseteq Id
  BY DEF SyncInv, SyncTypeOK, TypeOK
<1>5. SyncTypeOK'
  BY <1>1, <1>2, <1>3, <1>4 DEF SyncInv, SyncTypeOK, Flush
<1>6. OutboxInv(d)'
  BY <1>1, <1>2 DEF SyncInv, OutboxInv, PairOrder, Unpublished, Graph
<1>7. QED
  BY <1>1, <1>2, <1>3, <1>5, <1>6, FlushingKeepsVault

(* Clearing the row of a published event keeps the invariant. *)
LEMMA ClearRowKeepsOutbox ==
  ASSUME SyncInv, NEW d \in Device, NEW e \in Id, ClearRow(d, e)
  PROVE  SyncInv'
<1>1. /\ events' = events /\ store' = store /\ provider' = provider
      /\ index' = index /\ flush' = flush
      /\ cleared' = [cleared EXCEPT ![d] = @ \cup {e}]
      /\ e \in flush[d].left /\ flush[d].stage = "outbox"
      /\ e \in store[d] => e \in provider
  BY DEF ClearRow, NextToPublish
<1>2. cleared'[d] = cleared[d] \cup {e} /\ DOMAIN cleared' = Device
      /\ \A o \in Device \ {d} : cleared'[o] = cleared[o]
  BY <1>1 DEF SyncInv, SyncTypeOK
<1>3. Inv' /\ TypeOK'
  BY <1>1, QuietStep
<1>4. SyncTypeOK'
  BY <1>1, <1>2, <1>3 DEF SyncInv, SyncTypeOK
<1>5. OutboxInv(d)'
  BY <1>1, <1>2 DEF SyncInv, OutboxInv, PairOrder, Unpublished, Graph
<1>6. QED
  BY <1>1, <1>2, <1>3, <1>4, <1>5, FlushingKeepsVault

(* Dropping a cleared row from the index keeps the invariant. *)
LEMMA DropFromIndexKeepsOutbox ==
  ASSUME SyncInv, NEW d \in Device, NEW e \in Id, DropFromIndex(d, e)
  PROVE  SyncInv'
<1>1. /\ events' = events /\ store' = store /\ provider' = provider
      /\ index' = [index EXCEPT ![d] = @ \ {e}]
      /\ cleared' = [cleared EXCEPT ![d] = @ \ {e}]
      /\ flush' = [flush EXCEPT ![d].left = @ \ {e}]
      /\ e \in cleared[d] /\ flush[d].stage = "outbox"
  BY DEF DropFromIndex
<1>2. /\ index'[d] = index[d] \ {e} /\ cleared'[d] = cleared[d] \ {e}
      /\ flush'[d] = [stage |-> "outbox", left |-> flush[d].left \ {e}]
      /\ flush'[d].stage = "outbox" /\ flush'[d].left = flush[d].left \ {e}
      /\ \A o \in Device \ {d} : /\ index'[o] = index[o]
                                 /\ cleared'[o] = cleared[o]
                                 /\ flush'[o] = flush[o]
      /\ DOMAIN cleared' = Device
  BY <1>1 DEF SyncInv, SyncTypeOK, Flush
<1>3. Inv' /\ TypeOK'
  BY <1>1, QuietStep
<1>4. SyncTypeOK'
  <2>1. index' \in [Device -> SUBSET DOMAIN events']
    BY <1>1 DEF SyncInv, SyncTypeOK
  <2>2. flush' \in [Device -> Flush]
    BY <1>1 DEF SyncInv, SyncTypeOK, Flush
  <2>3. QED
    BY <1>1, <1>2, <1>3, <2>1, <2>2 DEF SyncInv, SyncTypeOK
<1>5. OutboxInv(d)'
  <2>1. e \in store[d] => e \in provider
    BY <1>1 DEF SyncInv, OutboxInv
  <2>2. ASSUME NEW Q, PairOrder(d, Q)
        PROVE  \A t \in (Q \ {e}) \cap Unpublished(d)', c \in store'[d] :
                 t \in CommittedParents(events'[c]) => c \in provider' \cup (Q \ {e})
    BY <1>1, <2>1, <2>2 DEF PairOrder, Unpublished
  <2>3. PairOrder(d, index[d]) /\ PairOrder(d, flush[d].left)
    BY <1>1 DEF SyncInv, OutboxInv
  <2>4. PairOrder(d, index[d])'
    BY <1>2, <2>2, <2>3 DEF PairOrder
  <2>5. PairOrder(d, flush[d].left)'
    BY <1>2, <2>2, <2>3 DEF PairOrder
  <2>6. /\ Unpublished(d)' \subseteq Applicable(Graph(d))'
        /\ cleared'[d] \cap store'[d] \subseteq provider'
    BY <1>1, <1>2 DEF SyncInv, OutboxInv, Unpublished, Graph
  <2>7. QED
    BY <1>2, <2>4, <2>5, <2>6 DEF OutboxInv
<1>6. QED
  BY <1>1, <1>2, <1>3, <1>4, <1>5, FlushingKeepsVault

(* Queueing stored events again that the provider lacks keeps the *)
(* invariant.                                                     *)
LEMMA RepairKeepsOutbox ==
  ASSUME SyncInv, NEW d \in Device, NEW e, StartRepair(d) \/ Repaired(d, e)
  PROVE  SyncInv'
<1>1. /\ events' = events /\ store' = store /\ provider' = provider
      /\ index' = index /\ cleared' = cleared
  BY DEF StartRepair, Repaired, outbox
<1>2. /\ DOMAIN flush' = Device
      /\ \A o \in Device \ {d} : flush'[o] = flush[o]
      /\ flush'[d] = [stage |-> "repair", left |-> flush'[d].left]
      /\ flush'[d].stage = "repair"
      /\ flush'[d].left \subseteq DOMAIN events
      /\ Unpublished(d) \subseteq flush'[d].left
  <2>1. CASE StartRepair(d)
    <3>1. flush'[d] = [stage |-> "repair", left |-> store[d] \ provider]
          /\ DOMAIN flush' = Device /\ \A o \in Device \ {d} : flush'[o] = flush[o]
      BY <2>1 DEF StartRepair, SyncInv, SyncTypeOK
    <3>2. store[d] \subseteq DOMAIN events
      BY DEF SyncInv, Inv, TypeOK
    <3>3. QED
      BY <3>1, <3>2 DEF Unpublished
  <2>2. CASE Repaired(d, e)
    <3>1. flush' = [flush EXCEPT ![d].left = @ \ {e}]
          /\ flush[d].stage = "repair" /\ e \in provider
      BY <2>2 DEF Repaired
    <3>2. flush'[d] = [stage |-> "repair", left |-> flush[d].left \ {e}]
          /\ DOMAIN flush' = Device /\ \A o \in Device \ {d} : flush'[o] = flush[o]
      BY <3>1 DEF SyncInv, SyncTypeOK, Flush
    <3>3. Unpublished(d) \subseteq flush[d].left /\ flush[d].left \subseteq DOMAIN events
      BY <3>1 DEF SyncInv, SyncTypeOK, OutboxInv
    <3>4. QED
      BY <3>1, <3>2, <3>3 DEF Unpublished
  <2>3. QED
    BY <2>1, <2>2
<1>3. Inv' /\ TypeOK'
  BY <1>1, QuietStep
<1>4. SyncTypeOK'
  <2>1. flush' = [o \in Device |-> flush'[o]]
    BY <1>1, <1>2 DEF StartRepair, Repaired
  <2>2. flush'[d] \in Flush
    BY <1>2 DEF Flush, SyncInv, Inv, TypeOK
  <2>3. \A o \in Device : flush'[o] \in Flush
    BY <1>2, <2>2 DEF SyncInv, SyncTypeOK
  <2>4. flush' \in [Device -> Flush]
    BY <2>1, <2>3
  <2>5. QED
    BY <1>1, <1>2, <1>3, <2>4 DEF SyncInv, SyncTypeOK
<1>5. OutboxInv(d)'
  BY <1>1, <1>2 DEF SyncInv, OutboxInv, PairOrder, Unpublished, Graph
<1>6. QED
  BY <1>1, <1>2, <1>3, <1>4, <1>5, FlushingKeepsVault

(* The end of a flush, in order, by a failure or by a closed page, keeps *)
(* the invariant.                                                        *)
LEMMA EndOfFlushKeepsOutbox ==
  ASSUME SyncInv, NEW d \in Device,
         FinishFlush(d) \/ Fail(d) \/ CloseDuringRemoval(d)
  PROVE  SyncInv'
<1>1. /\ events' = events /\ store' = store /\ provider' = provider
      /\ index' = index /\ cleared' = cleared
      /\ flush' = [flush EXCEPT ![d] = NoFlush]
  BY DEF FinishFlush, Fail, CloseDuringRemoval, outbox
<1>2. flush'[d] = NoFlush /\ NoFlush.stage = "idle" /\ NoFlush.left = {}
      /\ NoFlush \in Flush
      /\ \A o \in Device \ {d} : flush'[o] = flush[o]
  BY <1>1 DEF SyncInv, SyncTypeOK, NoFlush, Flush
<1>3. Inv' /\ TypeOK'
  BY <1>1, QuietStep
<1>4. SyncTypeOK'
  BY <1>1, <1>2, <1>3 DEF SyncInv, SyncTypeOK
<1>5. OutboxInv(d)'
  BY <1>1, <1>2 DEF SyncInv, OutboxInv, PairOrder, Unpublished, Graph
<1>6. QED
  BY <1>1, <1>2, <1>3, <1>4, <1>5, FlushingKeepsVault

(* An event that some device puts at the provider alone keeps the *)
(* invariant.                                                     *)
LEMMA StrayKeepsOutbox ==
  ASSUME SyncInv, NEW id \in Id, NEW d \in Device, NEW parents \in SUBSET Id,
         Stray(id, d, parents), UNCHANGED <<outbox, flush>>
  PROVE  SyncInv'
<1>1. Inv' /\ NothingIsLost
  BY StrayIsSafe DEF SyncInv
<1>2. /\ DOMAIN events \subseteq DOMAIN events'
      /\ \A x \in DOMAIN events : events'[x] = events[x]
      /\ provider \subseteq provider' /\ store' = store
      /\ index' = index /\ cleared' = cleared /\ flush' = flush
  BY DEF Stray, Sign, outbox
<1>3. SyncTypeOK'
  BY <1>1, <1>2 DEF SyncInv, SyncTypeOK, Inv
<1>4. ASSUME NEW o \in Device PROVE OutboxInv(o)'
  BY <1>1, <1>2, OthersKeepOutbox
<1>5. QED
  BY <1>1, <1>3, <1>4 DEF SyncInv

(* The invariant holds at first, with the genesis event queued. *)
LEMMA GenesisIsQueued == SyncInit => SyncInv
<1> SUFFICES ASSUME SyncInit PROVE SyncInv
  OBVIOUS
<1>1. PICK id \in Id :
        /\ events = [x \in {id} |-> [parents |-> {}, actor |-> Owner,
                                     kind |-> "VaultImported",
                                     device |-> Owner, epoch |-> 0]]
        /\ store = [d \in Device |-> IF d = Owner THEN {id} ELSE {}]
        /\ provider = {}
  BY DEF SyncInit, Init
<1>2. /\ DOMAIN events = {id} /\ events[id].parents = {}
      /\ \A d \in Device : store[d] \subseteq {id}
      /\ index = store /\ \A d \in Device : cleared[d] = {} /\ flush[d] = NoFlush
  BY <1>1 DEF SyncInit
<1>3. Inv
  BY InitIsSafe DEF SyncInit
<1>4. SyncTypeOK
  <2>1. NoFlush \in Flush /\ NoFlush.left = {} /\ NoFlush.stage = "idle"
    BY DEF NoFlush, Flush
  <2>2. QED
    BY <1>2, <1>3, <2>1 DEF SyncInit, SyncTypeOK, Inv, TypeOK
<1>5. ASSUME NEW d \in Device PROVE OutboxInv(d)
  <2>1. Unpublished(d) \subseteq Applicable(Graph(d))
    <3>1. Signed(events) /\ store[d] \in SUBSET DOMAIN events
          /\ Quarantined(LoadGraph(events, store[d])) = {}
      BY <1>3, TypeIsSigned DEF Inv, TypeOK, NothingRejected, Graph
    <3>2. ASSUME NEW x \in store[d]
          PROVE  x \in Applicable(LoadGraph(events, store[d]))
      <4>1. Before(events, store[d], x) \subseteq store[d]
        BY <1>2, <3>1, BeforeFacts
      <4>2. LoadGraph(events, store[d]).parents = Stored(events, store[d])
            /\ DOMAIN Stored(events, store[d]) = store[d]
        BY <3>1, LoadedGraph DEF Stored
      <4>3. QED
        BY <3>1, <4>1, <4>2 DEF Applicable, Live, AncestorsPresent, Before
    <3>3. QED
      BY <3>2 DEF Unpublished, Graph
  <2>2. PairOrder(d, index[d])
    BY <1>2 DEF PairOrder
  <2>3. flush[d] = NoFlush /\ flush[d].stage = "idle"
    BY <1>2 DEF NoFlush
  <2>4. QED
    BY <1>2, <2>1, <2>2, <2>3 DEF OutboxInv
<1>6. QED
  BY <1>3, <1>4, <1>5 DEF SyncInv

-----------------------------------------------------------------------------
(***************************************************************************)
(* Theorems.                                                               *)
(***************************************************************************)
LEMMA StepKeepsSyncInv ==
  ASSUME SyncInv, [SyncNext]_syncVars
  PROVE  SyncInv'
<1>1. CASE UNCHANGED syncVars
  <2>1. Inv' /\ UNCHANGED <<events, store, provider, index, cleared, flush>>
    BY <1>1, QuietStep DEF syncVars
  <2>2. QED
    BY <2>1 DEF SyncInv, SyncTypeOK, TypeOK, OutboxInv, PairOrder, Unpublished, Graph
<1>2. ASSUME NEW d \in Device, NEW id \in Id, NEW kind \in AppendKind,
             NEW subject \in Device, SignAndQueue(d, id, kind, subject)
      PROVE  SyncInv'
  BY <1>2, SigningKeepsOutbox
<1>3. ASSUME NEW d \in Device, NEW t \in Id, NEW c \in Id, NEW victim \in Device,
             RotateAndQueue(d, t, c, victim)
      PROVE  SyncInv'
  BY <1>3, RotatingKeepsOutbox
<1>4. ASSUME NEW d \in Device, NEW seen \in SUBSET Id, Merge(d, seen)
      PROVE  SyncInv'
  BY <1>4, MergingKeepsOutbox
<1>5. ASSUME NEW d \in Device, NEW e \in Id,
             \/ Put(d, e) \/ ClearRow(d, e) \/ DropFromIndex(d, e) \/ Repaired(d, e)
      PROVE  SyncInv'
  BY <1>5, PutKeepsOutbox, ClearRowKeepsOutbox, DropFromIndexKeepsOutbox,
     RepairKeepsOutbox
<1>6. ASSUME NEW d \in Device,
             StartFlush(d) \/ FinishFlush(d) \/ Fail(d) \/ CloseDuringRemoval(d)
      PROVE  SyncInv'
  BY <1>6, StartFlushKeepsOutbox, EndOfFlushKeepsOutbox
<1>7. ASSUME NEW d \in Device, StartRepair(d) PROVE SyncInv'
  BY <1>7, RepairKeepsOutbox
<1>8. ASSUME NEW id \in Id, NEW d \in Device, NEW parents \in SUBSET Id,
             Stray(id, d, parents), UNCHANGED <<outbox, flush>>
      PROVE  SyncInv'
  BY <1>8, StrayKeepsOutbox
<1>9. CASE SyncNext
  BY <1>9, <1>2, <1>3, <1>4, <1>5, <1>6, <1>7, <1>8 DEF SyncNext, FlushStep
<1>10. QED
  BY <1>1, <1>9

(* The invariant of stores and outboxes holds in every state. *)
LEMMA AlwaysSyncInv == SyncSpec => []SyncInv
<1>1. SyncInv /\ [SyncNext]_syncVars => SyncInv'
  BY StepKeepsSyncInv
<1>2. QED
  BY <1>1, GenesisIsQueued, PTL DEF SyncSpec

(***************************************************************************)
(* What is proved of VaultReplication holds of devices that publish        *)
(* through the outbox and the repair pass: every step that changes the     *)
(* vault is one of its steps, and in particular no trigger goes out before *)
(* its checkpoint (flush_event_outbox, RemoteEventWrites::order).          *)
(***************************************************************************)
THEOREM SyncImplementsReplication == SyncSpec => ImplementsReplication
<1>1. SyncInit => Init
  BY DEF SyncInit
<1>2. SyncInv /\ [SyncNext]_syncVars => [Next]_vars
  BY StepImplements
<1>3. QED
  BY <1>1, <1>2, AlwaysSyncInv, PTL DEF SyncSpec, ImplementsReplication, Spec

(***************************************************************************)
(* The outbox stays well formed: what a flush has left of it is indexed,   *)
(* so a flush that is cut short forgets nothing (acknowledge).             *)
(***************************************************************************)
THEOREM OutboxStaysTyped == SyncSpec => []SyncTypeOK
<1>1. SyncInv => SyncTypeOK
  BY DEF SyncInv
<1>2. QED
  BY <1>1, AlwaysSyncInv, PTL
=============================================================================
