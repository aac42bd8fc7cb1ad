------------------------ MODULE SentinelUnlockProofs ------------------------
(***************************************************************************)
(* A Sentinel vault is open only on the device of a participant to which   *)
(* enough participants answered, and only while that vault is loaded:      *)
(* proved for every number of devices, vaults and sessions and for every   *)
(* policy of at least two shares.                                          *)
(***************************************************************************)
EXTENDS SentinelUnlock, FiniteSetTheorems, TLAPS

(* An identifier names one request, wherever copies of it turn up.         *)
IdsAreUnique == \A p, q \in requests : p.id = q.id => p = q

(* Only participants answer, and only requests of participants.            *)
AnswersAreAuthorized ==
  \A r \in responses :
    /\ r.by \in Participant[r.store]
    /\ \E q \in requests :
         q.id = r.id /\ q.store = r.store /\ q.by \in Participant[q.store]

(* A session has published its request and counts who contributed to it.   *)
SessionSound(d) ==
  unlock[d] # NoUnlock =>
    /\ [id |-> unlock[d].id, store |-> unlock[d].store, by |-> d] \in requests
    /\ unlock[d].from \subseteq Contributors(d, unlock[d].id, unlock[d].store)
    /\ unlock[d].count = Cardinality(unlock[d].from)

(* Installed keys are those of the loaded vault, which d is a participant  *)
(* of, and a quorum answered the session that gave them.                   *)
KeySound(d) ==
  keys[d] # None =>
    /\ keys[d] = loaded[d]
    /\ d \in Participant[keys[d]]
    /\ Cardinality(Contributors(d, opened[d], keys[d])) >= Threshold[keys[d]]

DeviceSound(d) == SessionSound(d) /\ KeySound(d)

(* The inductive invariant.                                                *)
IInv ==
  /\ TypeOK
  /\ IdsAreUnique
  /\ AnswersAreAuthorized
  /\ \A d \in Device : DeviceSound(d)

-----------------------------------------------------------------------------
(***************************************************************************)
(* Sets of devices.                                                        *)
(***************************************************************************)
LEMMA MoreDevices ==
  ASSUME NEW A, NEW B, A \subseteq B, B \subseteq Device
  PROVE  /\ IsFiniteSet(A)
         /\ Cardinality(A) \in Nat /\ Cardinality(B) \in Nat
         /\ Cardinality(A) <= Cardinality(B)
<1>1. IsFiniteSet(B)
  BY DeviceAssumption, FS_Subset
<1>2. IsFiniteSet(A) /\ Cardinality(A) <= Cardinality(B)
  BY <1>1, FS_Subset
<1>3. QED
  BY <1>1, <1>2, FS_CardinalityType

(* Only devices contribute to an unlock session. *)
LEMMA ContributorsAreDevices ==
  ASSUME NEW d, NEW x, NEW s \in Store
  PROVE  Contributors(d, x, s) \subseteq Device
BY VaultAssumption DEF Contributors

(* Two answers are one more than one's own.                                *)
LEMMA SomebodyElse ==
  ASSUME NEW A, A \subseteq Device, NEW d, Cardinality(A) >= 2
  PROVE  \E e \in A : e # d
<1>1. SUFFICES ASSUME A \subseteq {d} PROVE FALSE
  OBVIOUS
<1>2. Cardinality({d}) = 1 /\ IsFiniteSet({d})
  BY FS_Singleton
<1>3. Cardinality(A) <= 1 /\ Cardinality(A) \in Nat
  BY <1>1, <1>2, FS_Subset, FS_CardinalityType
<1>4. QED
  BY <1>3

-----------------------------------------------------------------------------
(***************************************************************************)
(* Messages are only ever added, and what holds of a device because of     *)
(* them goes on holding.                                                   *)
(***************************************************************************)
LEMMA MoreAnswers ==
  ASSUME IInv, NEW d \in Device, DeviceSound(d),
         requests \subseteq requests', responses \subseteq responses',
         loaded'[d] = loaded[d], keys'[d] = keys[d],
         unlock'[d] = unlock[d], opened'[d] = opened[d]
  PROVE  DeviceSound(d)'
<1>1. \A x, s : Contributors(d, x, s) \subseteq Contributors(d, x, s)'
  BY DEF Contributors
<1>2. SessionSound(d)'
  BY <1>1 DEF DeviceSound, SessionSound, NoUnlock
<1>3. ASSUME keys[d] # None PROVE KeySound(d)'
  <2>1. keys[d] \in Store
    BY <1>3 DEF IInv, TypeOK
  <2>2. Contributors(d, opened[d], keys[d])' \subseteq Device
    BY <2>1, VaultAssumption DEF Contributors
  <2>3. /\ Cardinality(Contributors(d, opened[d], keys[d]))
             <= Cardinality(Contributors(d, opened[d], keys[d])')
        /\ Cardinality(Contributors(d, opened[d], keys[d])) \in Nat
        /\ Cardinality(Contributors(d, opened[d], keys[d])') \in Nat
    <3>1. Contributors(d, opened[d], keys[d]) \subseteq Contributors(d, opened[d], keys[d])'
      BY <1>1 DEF Contributors
    <3>2. QED
      BY <3>1, <2>2, MoreDevices
  <2>4. Threshold[keys[d]] \in Nat
    BY <2>1, VaultAssumption
  <2>5. QED
    BY <1>3, <2>3, <2>4 DEF DeviceSound, KeySound
<1>4. QED
  BY <1>2, <1>3 DEF DeviceSound, KeySound

(* A step that publishes nothing and touches one device.                   *)
LEMMA QuietStep ==
  ASSUME IInv, TypeOK', UNCHANGED messages, NEW d \in Device, DeviceSound(d)',
         \A e \in Device \ {d} :
           /\ loaded'[e] = loaded[e] /\ keys'[e] = keys[e]
           /\ unlock'[e] = unlock[e] /\ opened'[e] = opened[e]
  PROVE  IInv'
<1>1. requests' = requests /\ responses' = responses
  BY DEF messages
<1>2. \A e \in Device \ {d} : DeviceSound(e)'
  BY <1>1, MoreAnswers DEF IInv
<1>3. IdsAreUnique' /\ AnswersAreAuthorized'
  BY <1>1 DEF IInv, IdsAreUnique, AnswersAreAuthorized
<1>4. QED
  BY <1>2, <1>3 DEF IInv

(* A step that takes the keys, and the session with them or not.           *)
LEMMA KeysTaken ==
  ASSUME IInv, TypeOK', UNCHANGED messages, NEW d \in Device,
         keys'[d] = None, unlock'[d] \in {unlock[d], NoUnlock},
         \A e \in Device \ {d} :
           /\ loaded'[e] = loaded[e] /\ keys'[e] = keys[e]
           /\ unlock'[e] = unlock[e] /\ opened'[e] = opened[e]
  PROVE  IInv'
<1>1. KeySound(d)'
  BY DEF KeySound
<1>2. SessionSound(d)'
  BY DEF SessionSound, Contributors, IInv, DeviceSound, messages
<1>3. QED
  BY <1>1, <1>2, QuietStep DEF DeviceSound

(* The inductive invariant holds at first, with every device locked. *)
LEMMA InitEstablishesIInv == Init => IInv
<1>1. SUFFICES ASSUME Init PROVE IInv
  OBVIOUS
<1>2. TypeOK
  BY <1>1, NoneAssumption DEF Init, TypeOK, Unlock
<1>3. \A d \in Device : DeviceSound(d)
  BY <1>1 DEF Init, DeviceSound, SessionSound, KeySound
<1>4. QED
  BY <1>1, <1>2, <1>3 DEF IInv, Init, IdsAreUnique, AnswersAreAuthorized

-----------------------------------------------------------------------------
(***************************************************************************)
(* The vault session.                                                      *)
(***************************************************************************)
LEMMA LeaveKeepsIInv ==
  ASSUME IInv, NEW d \in Device, Leave(d)
  PROVE  IInv'
<1>1. TypeOK'
  BY NoneAssumption DEF IInv, TypeOK, Leave, ResetVaultSession, Locked, messages, Unlock
<1>2. QED
  BY <1>1, KeysTaken DEF IInv, TypeOK, Leave, ResetVaultSession, Locked

(* Opening a vault keeps the invariant. *)
LEMMA ConnectKeepsIInv ==
  ASSUME IInv, NEW d \in Device, NEW s \in Store, Connect(d, s)
  PROVE  IInv'
<1>1. TypeOK'
  BY NoneAssumption DEF IInv, TypeOK, Connect, Locked, messages, Unlock
<1>2. QED
  BY <1>1, KeysTaken DEF IInv, TypeOK, Connect, Locked

(* Accepting the delivery of a share keeps the invariant. *)
LEMMA AcceptDeliveryKeepsIInv ==
  ASSUME IInv, NEW d \in Device, NEW s \in Store, AcceptDelivery(d, s)
  PROVE  IInv'
<1>1. TypeOK'
  BY NoneAssumption
     DEF IInv, TypeOK, AcceptDelivery, InstallDelivery, Locked, messages
<1>2. QED
  BY <1>1, KeysTaken DEF IInv, TypeOK, AcceptDelivery, InstallDelivery, Locked

(* Loading a stored delivery keeps the invariant. *)
LEMMA LoadDeliveryKeepsIInv ==
  ASSUME IInv, NEW d \in Device, NEW s \in Store, LoadDelivery(d, s)
  PROVE  IInv'
<1>1. TypeOK'
  BY NoneAssumption
     DEF IInv, TypeOK, LoadDelivery, InstallDelivery, Locked, messages
<1>2. QED
  BY <1>1, KeysTaken DEF IInv, TypeOK, LoadDelivery, InstallDelivery, Locked

(* A sync keeps the invariant. *)
LEMMA SyncKeepsIInv ==
  ASSUME IInv, NEW d \in Device, Sync(d)
  PROVE  IInv'
<1>1. TypeOK'
  BY NoneAssumption DEF IInv, TypeOK, Sync, messages
<1>2. DeviceSound(d)'
  BY MoreAnswers DEF IInv, Sync, messages
<1>3. QED
  BY <1>1, <1>2, QuietStep DEF Sync

-----------------------------------------------------------------------------
(***************************************************************************)
(* The ceremony.                                                           *)
(***************************************************************************)
LEMMA StartUnlockKeepsIInv ==
  ASSUME IInv, NEW d \in Device, NEW x \in Session, StartUnlock(d, x)
  PROVE  IInv'
<1>s. loaded[d] \in Store /\ records[d] \in {"own", "all"}
  BY DEF IInv, TypeOK, StartUnlock
<1>1. PICK s \in Store : s = loaded[d]
  BY <1>s
<1> DEFINE from == {d} \cap Participant[s]
<1>2. /\ requests' = requests \cup {[id |-> x, store |-> s, by |-> d]}
      /\ responses' = responses
      /\ \A q \in requests : q.id # x
  BY <1>1 DEF StartUnlock
<1>3. unlock' = [unlock EXCEPT ![d] =
         [id |-> x, store |-> s, covers |-> records[d], from |-> from,
          count |-> IF d \in Participant[s] THEN 1 ELSE 0]]
  BY <1>1 DEF StartUnlock
<1>4. TypeOK'
  <2>1. unlock' \in [Device -> Unlock]
    BY <1>s, <1>1, <1>3, VaultAssumption DEF IInv, TypeOK, Unlock
  <2>2. requests' \subseteq [id : Session, store : Store, by : Device]
    BY <1>1, <1>2 DEF IInv, TypeOK
  <2>3. QED
    BY <2>1, <2>2 DEF IInv, TypeOK, StartUnlock
<1>5. IdsAreUnique'
  BY <1>2 DEF IInv, IdsAreUnique
<1>6. AnswersAreAuthorized'
  BY <1>2 DEF IInv, AnswersAreAuthorized
<1>7. \A e \in Device \ {d} : DeviceSound(e)'
  BY <1>2, MoreAnswers DEF IInv, TypeOK, StartUnlock
<1>8. KeySound(d)'
  BY <1>2 DEF IInv, DeviceSound, KeySound, Contributors, StartUnlock
<1>9. SessionSound(d)'
  <2>1. /\ unlock'[d].id = x /\ unlock'[d].store = s /\ unlock'[d].from = from
        /\ unlock'[d].count = IF d \in Participant[s] THEN 1 ELSE 0
    BY <1>3 DEF IInv, TypeOK
  <2>2. from \subseteq Contributors(d, x, s)'
    BY DEF Contributors
  <2>3. Cardinality(from) = IF d \in Participant[s] THEN 1 ELSE 0
    <3>1. CASE d \in Participant[s]
      <4>1. from = {d}
        BY <3>1
      <4>2. QED
        BY <3>1, <4>1, FS_Singleton
    <3>2. CASE d \notin Participant[s]
      <4>1. from = {}
        BY <3>2
      <4>2. QED
        BY <3>2, <4>1, FS_EmptySet
    <3>3. QED
      BY <3>1, <3>2
  <2>4. Contributors(d, unlock[d].id, unlock[d].store)'
          = Contributors(d, x, s)'
    BY <2>1 DEF Contributors
  <2>5. QED
    BY <1>2, <2>1, <2>2, <2>3, <2>4 DEF SessionSound
<1>10. QED
  BY <1>4, <1>5, <1>6, <1>7, <1>8, <1>9 DEF IInv, DeviceSound

(* Whichever way a request is authorized, its requester is a participant.  *)
LEMMA AuthorizedIsParticipant ==
  ASSUME IInv, NEW d \in Device, NEW q \in requests, Authorized(d, q)
  PROVE  q.by \in Participant[q.store]
BY VaultAssumption DEF IInv, TypeOK, Authorized

(* Answering a request keeps the invariant. *)
LEMMA RespondKeepsIInv ==
  ASSUME IInv, NEW d \in Device, NEW q \in requests, RespondToUnlock(d, q)
  PROVE  IInv'
<1>1. /\ requests' = requests
      /\ responses' = responses \cup {[id |-> q.id, store |-> q.store, by |-> d]}
      /\ d \in Participant[q.store]
  BY DEF RespondToUnlock
<1>2. TypeOK'
  BY <1>1 DEF IInv, TypeOK, RespondToUnlock, memory
<1>3. IdsAreUnique'
  BY <1>1 DEF IInv, IdsAreUnique
<1>4. q.by \in Participant[q.store]
  BY AuthorizedIsParticipant DEF RespondToUnlock
<1>5. AnswersAreAuthorized'
  BY <1>1, <1>4 DEF IInv, AnswersAreAuthorized
<1>6. \A e \in Device : DeviceSound(e)'
  BY <1>1, MoreAnswers DEF IInv, RespondToUnlock, memory
<1>7. QED
  BY <1>2, <1>3, <1>5, <1>6 DEF IInv

(* Taking in an answer keeps the invariant. *)
LEMMA AddUnlockResponseKeepsIInv ==
  ASSUME IInv, NEW d \in Device, NEW r \in responses, AddUnlockResponse(d, r)
  PROVE  IInv'
<1>u. PICK u \in Unlock : u = unlock[d]
  BY DEF IInv, TypeOK
<1>1. /\ u # NoUnlock
      /\ r.id = u.id /\ r.store = u.store /\ r.by \notin u.from
      /\ r \in [id : Session, store : Store, by : Device]
  BY <1>u DEF IInv, TypeOK, AddUnlockResponse, Bound, FirstResponse
<1>2. /\ u.from \subseteq Device /\ u.count \in Nat
      /\ u \in [id : Session, store : Store, covers : {"own", "all"},
                from : SUBSET Device, count : Nat]
  BY <1>1 DEF Unlock
<1>3. /\ unlock'[d] = [u EXCEPT !.from = @ \cup {r.by}, !.count = @ + 1]
      /\ \A e \in Device \ {d} : unlock'[e] = unlock[e]
      /\ unlock' = [unlock EXCEPT ![d] = unlock'[d]]
  BY <1>u DEF IInv, TypeOK, AddUnlockResponse
<1>4. /\ unlock'[d].id = u.id /\ unlock'[d].store = u.store
      /\ unlock'[d].from = u.from \cup {r.by} /\ unlock'[d].count = u.count + 1
  BY <1>2, <1>3
<1>5. TypeOK'
  <2>1. unlock'[d] \in Unlock
    <3>1. u.from \cup {r.by} \in SUBSET Device /\ u.count + 1 \in Nat
      BY <1>1, <1>2
    <3>2. [u EXCEPT !.from = @ \cup {r.by}, !.count = @ + 1]
            \in [id : Session, store : Store, covers : {"own", "all"},
                from : SUBSET Device, count : Nat]
      BY <1>2, <3>1
    <3>3. QED
      BY <1>3, <3>2 DEF Unlock
  <2>2. unlock' \in [Device -> Unlock]
    BY <1>3, <2>1 DEF IInv, TypeOK
  <2>3. QED
    BY <2>2 DEF IInv, TypeOK, AddUnlockResponse, messages
<1>6. KeySound(d)'
  BY DEF IInv, DeviceSound, KeySound, Contributors, AddUnlockResponse, messages
<1>7. SessionSound(d)'
  <2>1. /\ [id |-> u.id, store |-> u.store, by |-> d] \in requests
        /\ u.from \subseteq Contributors(d, u.id, u.store)
        /\ u.count = Cardinality(u.from)
    BY <1>u, <1>1 DEF IInv, DeviceSound, SessionSound
  <2>2. r = [id |-> u.id, store |-> u.store, by |-> r.by]
    BY <1>1
  <2>3. r.by \in Contributors(d, u.id, u.store)
    BY <1>1, <2>2 DEF IInv, AnswersAreAuthorized, Contributors
  <2>4. u.from \cup {r.by} \subseteq Contributors(d, u.id, u.store)
    BY <2>1, <2>3
  <2>5. Cardinality(u.from \cup {r.by}) = u.count + 1
    <3>1. IsFiniteSet(u.from)
      BY <1>2, DeviceAssumption, FS_Subset
    <3>2. QED
      BY <1>1, <1>2, <2>1, <3>1, FS_AddElement
  <2>6. Contributors(d, unlock[d].id, unlock[d].store)'
          = Contributors(d, u.id, u.store)
    <3>1. responses' = responses
      BY DEF AddUnlockResponse, messages
    <3>2. QED
      BY <1>4, <3>1 DEF Contributors
  <2>7. [id |-> u.id, store |-> u.store, by |-> d] \in requests'
    BY <2>1 DEF AddUnlockResponse, messages
  <2>8. QED
    BY <1>4, <2>4, <2>5, <2>6, <2>7 DEF SessionSound
<1>8. QED
  BY <1>3, <1>5, <1>6, <1>7, QuietStep DEF DeviceSound, AddUnlockResponse

-----------------------------------------------------------------------------
(***************************************************************************)
(* Completion. Of the devices behind a quorum at least one is another one; *)
(* it answered a request with the identifier of the session, which is that *)
(* of d: so d is a participant.                                            *)
(***************************************************************************)
LEMMA QuorumIsOfParticipant ==
  ASSUME IInv, NEW d \in Device, Quorum(unlock[d])
  PROVE  /\ unlock[d].id \in Session /\ unlock[d].store \in Store
         /\ d \in Participant[unlock[d].store]
         /\ Cardinality(Contributors(d, unlock[d].id, unlock[d].store))
              >= Threshold[unlock[d].store]
<1>1. PICK u \in Unlock : u = unlock[d]
  BY DEF IInv, TypeOK
<1>2. u \in [id : Session, store : Store, covers : {"own", "all"},
             from : SUBSET Device, count : Nat]
  BY <1>1 DEF Quorum, Unlock
<1>3. /\ [id |-> u.id, store |-> u.store, by |-> d] \in requests
      /\ u.from \subseteq Contributors(d, u.id, u.store)
      /\ u.count = Cardinality(u.from)
  BY <1>1 DEF Quorum, IInv, DeviceSound, SessionSound
<1>4. u.count >= Threshold[u.store] /\ Threshold[u.store] \in Nat /\ Threshold[u.store] >= 2
  BY <1>1, <1>2, VaultAssumption DEF Quorum
<1>5. PICK e \in u.from : e # d
  <2>1. u.from \subseteq Device /\ u.count \in Nat /\ u.count >= 2
    BY <1>2, <1>4
  <2>2. QED
    BY <1>3, <2>1, SomebodyElse
<1>6. [id |-> u.id, store |-> u.store, by |-> e] \in responses
  BY <1>3, <1>5 DEF Contributors
<1>7. PICK q \in requests :
        q.id = u.id /\ q.store = u.store /\ q.by \in Participant[q.store]
  BY <1>6 DEF IInv, AnswersAreAuthorized
<1>8. q = [id |-> u.id, store |-> u.store, by |-> d]
  BY <1>3, <1>7 DEF IInv, IdsAreUnique
<1>9. d \in Participant[u.store]
  BY <1>7, <1>8
<1>10. Cardinality(Contributors(d, u.id, u.store)) >= Threshold[u.store]
  <2>1. Contributors(d, u.id, u.store) \subseteq Device
    BY <1>2, ContributorsAreDevices
  <2>2. QED
    BY <1>3, <1>4, <2>1, MoreDevices
<1>11. QED
  BY <1>1, <1>2, <1>9, <1>10

(* Starting to complete an unlock keeps the invariant. *)
LEMMA FinalizeUnlockKeepsIInv ==
  ASSUME IInv, NEW d \in Device, FinalizeUnlock(d)
  PROVE  IInv'
<1>1. PICK x \in Session, s \in Store :
        /\ x = unlock[d].id /\ s = unlock[d].store /\ s = loaded[d]
        /\ d \in Participant[s]
        /\ Cardinality(Contributors(d, x, s)) >= Threshold[s]
  BY QuorumIsOfParticipant DEF FinalizeUnlock, InContext
<1>2. TypeOK'
  BY <1>1, NoneAssumption DEF IInv, TypeOK, FinalizeUnlock, messages, Unlock
<1>3. /\ keys'[d] = s /\ opened'[d] = x /\ loaded'[d] = s /\ unlock'[d] = NoUnlock
      /\ responses' = responses
  BY <1>1 DEF IInv, TypeOK, FinalizeUnlock, messages
<1>4. KeySound(d)'
  BY <1>1, <1>3 DEF KeySound, Contributors
<1>5. SessionSound(d)'
  BY <1>3 DEF SessionSound
<1>6. QED
  BY <1>2, <1>4, <1>5, QuietStep DEF DeviceSound, FinalizeUnlock, IInv, TypeOK

(* A completion that is refused keeps the invariant. *)
LEMMA FinalizeRejectedKeepsIInv ==
  ASSUME IInv, NEW d \in Device, FinalizeRejected(d)
  PROVE  IInv'
<1>1. unlock[d].id \in Session
  BY QuorumIsOfParticipant DEF FinalizeRejected
<1>2. TypeOK'
  BY <1>1, NoneAssumption
     DEF IInv, TypeOK, FinalizeRejected, ResetVaultSession, Locked, messages, Unlock
<1>3. QED
  BY <1>2, KeysTaken DEF IInv, TypeOK, FinalizeRejected, ResetVaultSession, Locked

(* The end of a completion that succeeds keeps the invariant. *)
LEMMA UnlockCommittedKeepsIInv ==
  ASSUME IInv, NEW d \in Device, UnlockCommitted(d)
  PROVE  IInv'
<1>1. DeviceSound(d)'
  BY MoreAnswers DEF IInv, UnlockCommitted, messages
<1>2. TypeOK'
  BY NoneAssumption DEF IInv, TypeOK, UnlockCommitted, messages
<1>3. QED
  BY <1>1, <1>2, QuietStep DEF UnlockCommitted

(* The end of a completion that fails keeps the invariant. *)
LEMMA UnlockFailedKeepsIInv ==
  ASSUME IInv, NEW d \in Device, UnlockFailed(d)
  PROVE  IInv'
<1>1. TypeOK'
  BY NoneAssumption
     DEF IInv, TypeOK, UnlockFailed, ResetVaultSession, Locked, messages, Unlock
<1>2. QED
  BY <1>1, KeysTaken DEF IInv, TypeOK, UnlockFailed, ResetVaultSession, Locked

-----------------------------------------------------------------------------
(* Every step preserves the inductive invariant.                           *)
LEMMA NextKeepsIInv ==
  ASSUME IInv, [Next]_vars
  PROVE  IInv'
<1>1. CASE Next
  <2>1. PICK d \in Device :
          \/ Leave(d) \/ Sync(d)
          \/ FinalizeUnlock(d) \/ FinalizeRejected(d)
          \/ UnlockCommitted(d) \/ UnlockFailed(d)
          \/ \E s \in Store : Connect(d, s) \/ AcceptDelivery(d, s) \/ LoadDelivery(d, s)
          \/ \E x \in Session : StartUnlock(d, x)
          \/ \E q \in requests : RespondToUnlock(d, q)
          \/ \E r \in responses : AddUnlockResponse(d, r)
    BY <1>1 DEF Next
  <2>2. CASE Leave(d)
    BY <2>2, LeaveKeepsIInv
  <2>3. CASE Sync(d)
    BY <2>3, SyncKeepsIInv
  <2>4. CASE FinalizeUnlock(d)
    BY <2>4, FinalizeUnlockKeepsIInv
  <2>5. CASE FinalizeRejected(d)
    BY <2>5, FinalizeRejectedKeepsIInv
  <2>6. CASE UnlockCommitted(d)
    BY <2>6, UnlockCommittedKeepsIInv
  <2>7. CASE UnlockFailed(d)
    BY <2>7, UnlockFailedKeepsIInv
  <2>8. ASSUME NEW s \in Store, Connect(d, s) \/ AcceptDelivery(d, s) \/ LoadDelivery(d, s)
        PROVE  IInv'
    BY <2>8, ConnectKeepsIInv, AcceptDeliveryKeepsIInv, LoadDeliveryKeepsIInv
  <2>9. ASSUME NEW x \in Session, StartUnlock(d, x)
        PROVE  IInv'
    BY <2>9, StartUnlockKeepsIInv
  <2>10. ASSUME NEW r \in responses, AddUnlockResponse(d, r)
         PROVE  IInv'
    BY <2>10, AddUnlockResponseKeepsIInv
  <2>11. ASSUME NEW q \in requests, RespondToUnlock(d, q)
         PROVE  IInv'
    BY <2>11, RespondKeepsIInv
  <2>12. QED
    BY <2>1, <2>2, <2>3, <2>4, <2>5, <2>6, <2>7, <2>8, <2>9, <2>10, <2>11
<1>2. CASE UNCHANGED vars
  <2>1. /\ requests' = requests /\ responses' = responses
        /\ loaded' = loaded /\ keys' = keys /\ unlock' = unlock /\ opened' = opened
    BY <1>2 DEF vars, memory, messages
  <2>2. TypeOK'
    BY <1>2 DEF IInv, TypeOK, vars, memory, messages
  <2>3. IdsAreUnique' /\ AnswersAreAuthorized'
    BY <2>1 DEF IInv, IdsAreUnique, AnswersAreAuthorized
  <2>4. \A d \in Device : DeviceSound(d)'
    BY <2>1, MoreAnswers DEF IInv
  <2>5. QED
    BY <2>2, <2>3, <2>4 DEF IInv
<1>3. QED
  BY <1>1, <1>2

(* In every state of the unlock ceremony, whatever the devices, the     *)
(* vaults and the threshold, the inductive invariant holds (session.rs, *)
(* unlock_finalization.rs).                                             *)
THEOREM Invariance == Spec => []IInv
BY InitEstablishesIInv, NextKeepsIInv, PTL DEF Spec

(* Every state of the ceremony has its type, and a completion under way is *)
(* that of a loaded vault (unlock_finalization.rs, session.rs).            *)
THEOREM UnlockTypeOK == Spec => []TypeOK
<1>1. IInv => TypeOK
  BY DEF IInv
<1>2. QED
  BY <1>1, Invariance, PTL

(* "A Sentinel vault is not openable when fewer than T distinct valid      *)
(* participant contributions are available": wherever keys are installed,  *)
(* T participants contributed to the session that gave them (the checks of *)
(* sentinel_unlock.rs and of quorum.rs).                                   *)
THEOREM KeysNeedQuorum == Spec => []QuorumBehindKeys
<1>1. IInv => QuorumBehindKeys
  BY DEF IInv, DeviceSound, KeySound, QuorumBehindKeys
<1>2. QED
  BY <1>1, Invariance, PTL

(* The keys in a session are those of the vault it shows: check_context()  *)
(* compares the stores, and whatever loads a vault takes the keys first.   *)
THEOREM KeysMatchVault == Spec => []KeysOfLoadedVault
<1>1. IInv => KeysOfLoadedVault
  BY DEF IInv, DeviceSound, KeySound, KeysOfLoadedVault
<1>2. QED
  BY <1>1, Invariance, PTL

(* "Provider access is never sufficient to open the vault": the device     *)
(* that opens it is a participant, although completing a session does not  *)
(* check that; it follows from who is answered.                            *)
THEOREM ParticipantsOpen == Spec => []OnlyParticipantsOpen
<1>1. IInv => OnlyParticipantsOpen
  BY DEF IInv, DeviceSound, KeySound, OnlyParticipantsOpen
<1>2. QED
  BY <1>1, Invariance, PTL

-----------------------------------------------------------------------------
(***************************************************************************)
(* A session that reached its quorum is gone: what is spent was requested  *)
(* once, so it is neither the session of another device nor a later one.   *)
(***************************************************************************)
SpentIsGone ==
  /\ \A x \in spent : \E q \in requests : q.id = x
  /\ \A d \in Device : unlock[d] # NoUnlock => unlock[d].id \notin spent

(* An unlock session has one requester: no two devices hold the same one. *)
LEMMA SessionsAreTheirOwn ==
  ASSUME IInv, NEW d \in Device, NEW e \in Device,
         unlock[d] # NoUnlock, unlock[e] # NoUnlock, unlock[d].id = unlock[e].id
  PROVE  d = e
<1>1. /\ [id |-> unlock[d].id, store |-> unlock[d].store, by |-> d] \in requests
      /\ [id |-> unlock[e].id, store |-> unlock[e].store, by |-> e] \in requests
  BY DEF IInv, DeviceSound, SessionSound
<1>2. [id |-> unlock[d].id, store |-> unlock[d].store, by |-> d]
        = [id |-> unlock[e].id, store |-> unlock[e].store, by |-> e]
  BY <1>1 DEF IInv, IdsAreUnique
<1>3. QED
  BY <1>2

(* A step that consumes no session and starts none.                        *)
LEMMA NothingSpent ==
  ASSUME SpentIsGone, spent' = spent, requests \subseteq requests',
         \A d \in Device :
           \/ unlock'[d] \in {unlock[d], NoUnlock}
           \/ unlock[d] # NoUnlock /\ unlock'[d].id = unlock[d].id
  PROVE  SpentIsGone'
BY DEF SpentIsGone, NoUnlock

(* Spending a session with its quorum leaves no device in a spent *)
(* session.                                                       *)
LEMMA SpendingKeepsSpentIsGone ==
  ASSUME IInv, SpentIsGone, NEW d \in Device, Quorum(unlock[d]),
         spent' = spent \cup {unlock[d].id}, requests' = requests,
         unlock'[d] = NoUnlock, \A e \in Device \ {d} : unlock'[e] = unlock[e]
  PROVE  SpentIsGone'
<1>1. unlock[d] # NoUnlock
  BY DEF Quorum
<1>2. \E q \in requests : q.id = unlock[d].id
  BY <1>1 DEF IInv, DeviceSound, SessionSound
<1>3. \A e \in Device \ {d} : unlock[e] # NoUnlock => unlock[e].id # unlock[d].id
  BY <1>1, SessionsAreTheirOwn
<1>4. QED
  BY <1>2, <1>3 DEF SpentIsGone, NoUnlock

(* No step leaves a device in a spent session. *)
LEMMA NextKeepsSpentIsGone ==
  ASSUME IInv, SpentIsGone, [Next]_vars
  PROVE  SpentIsGone'
<1>1. ASSUME NEW d \in Device, Leave(d) \/ Sync(d) \/ UnlockCommitted(d) \/ UnlockFailed(d)
      PROVE  SpentIsGone'
  <2>1. spent' = spent /\ requests' = requests
    BY <1>1 DEF Leave, Sync, UnlockCommitted, UnlockFailed, messages
  <2>2. unlock' = unlock \/ unlock' = [unlock EXCEPT ![d] = NoUnlock]
    BY <1>1 DEF Leave, Sync, UnlockCommitted, UnlockFailed, ResetVaultSession
  <2>3. \A e \in Device : unlock'[e] \in {unlock[e], NoUnlock}
    BY <2>2 DEF IInv, TypeOK
  <2>4. requests \subseteq requests'
    BY <2>1
  <2>5. QED
    BY <2>1, <2>3, <2>4 DEF SpentIsGone
<1>2. ASSUME NEW d \in Device, NEW s \in Store,
             Connect(d, s) \/ AcceptDelivery(d, s) \/ LoadDelivery(d, s)
      PROVE  SpentIsGone'
  <2>1. spent' = spent /\ requests' = requests
    BY <1>2 DEF Connect, AcceptDelivery, LoadDelivery, InstallDelivery, messages
  <2>2. unlock' = unlock \/ unlock' = [unlock EXCEPT ![d] = NoUnlock]
    BY <1>2 DEF Connect, AcceptDelivery, LoadDelivery, InstallDelivery
  <2>3. \A e \in Device : unlock'[e] \in {unlock[e], NoUnlock}
    BY <2>2 DEF IInv, TypeOK
  <2>4. requests \subseteq requests'
    BY <2>1
  <2>5. QED
    BY <2>1, <2>3, <2>4 DEF SpentIsGone
<1>3. ASSUME NEW d \in Device, NEW x \in Session, StartUnlock(d, x)
      PROVE  SpentIsGone'
  <2>1. /\ \A q \in requests : q.id # x
        /\ requests \subseteq requests' /\ spent' = spent
        /\ unlock'[d].id = x
        /\ \A e \in Device \ {d} : unlock'[e] = unlock[e]
    BY <1>3 DEF IInv, TypeOK, StartUnlock
  <2>2. x \notin spent
    BY <2>1 DEF SpentIsGone
  <2>3. QED
    BY <2>1, <2>2 DEF SpentIsGone, NoUnlock
<1>4. ASSUME NEW d \in Device, NEW r \in responses, AddUnlockResponse(d, r)
      PROVE  SpentIsGone'
  <2>1. PICK u \in Unlock : u = unlock[d] /\ u # NoUnlock
    BY <1>4 DEF IInv, TypeOK, AddUnlockResponse
  <2>2. u \in [id : Session, store : Store, covers : {"own", "all"},
               from : SUBSET Device, count : Nat]
    BY <2>1 DEF Unlock
  <2>3. /\ unlock'[d] = [u EXCEPT !.from = @ \cup {r.by}, !.count = @ + 1]
        /\ \A e \in Device \ {d} : unlock'[e] = unlock[e]
        /\ spent' = spent /\ requests' = requests
    BY <1>4, <2>1 DEF IInv, TypeOK, AddUnlockResponse, messages
  <2>4. unlock'[d].id = u.id
    BY <2>2, <2>3
  <2>5. QED
    BY <2>1, <2>3, <2>4, NothingSpent
<1>5. ASSUME NEW d \in Device, FinalizeUnlock(d)
      PROVE  SpentIsGone'
  BY <1>5, SpendingKeepsSpentIsGone DEF IInv, TypeOK, FinalizeUnlock, messages
<1>6. ASSUME NEW d \in Device, FinalizeRejected(d)
      PROVE  SpentIsGone'
  BY <1>6, SpendingKeepsSpentIsGone
     DEF IInv, TypeOK, FinalizeRejected, ResetVaultSession, messages
<1>7. ASSUME NEW d \in Device, NEW q \in requests, RespondToUnlock(d, q)
      PROVE  SpentIsGone'
  BY <1>7, NothingSpent DEF RespondToUnlock, memory
<1>8. CASE UNCHANGED vars
  BY <1>8, NothingSpent DEF vars, memory, messages
<1>9. QED
  BY <1>1, <1>2, <1>3, <1>4, <1>5, <1>6, <1>7, <1>8 DEF Next

(* Only a completion changes which session opened a vault to another one.  *)
LEMMA OpensWhatIsNotSpent ==
  ASSUME IInv, SpentIsGone, [Next]_vars, NEW d \in Device,
         opened'[d] # opened[d], opened'[d] # None
  PROVE  opened'[d] \notin spent
<1>1. PICK e \in Device : FinalizeUnlock(e)
  BY DEF IInv, TypeOK, Next, vars, memory, Leave, Sync, FinalizeRejected,
         UnlockCommitted, UnlockFailed, Connect, AcceptDelivery, LoadDelivery,
         InstallDelivery, StartUnlock, AddUnlockResponse, RespondToUnlock,
         ResetVaultSession, Locked
<1>2. d = e /\ opened'[d] = unlock[d].id /\ unlock[d] # NoUnlock
  BY <1>1 DEF IInv, TypeOK, FinalizeUnlock, Quorum
<1>3. QED
  BY <1>2 DEF SpentIsGone

(* Reconstruction is "single-use" (sentinel_unlock.rs): the session of a   *)
(* quorum is consumed with it, so a vault that was locked again, or whose  *)
(* completion failed, is opened by another session.                        *)
THEOREM QuorumIsSpentOnce == Spec => SpentOnce
<1>1. Init => SpentIsGone
  BY DEF Init, SpentIsGone
<1>2. IInv /\ SpentIsGone /\ [Next]_vars => SpentIsGone'
  BY NextKeepsSpentIsGone
<1>3. IInv /\ SpentIsGone /\ [Next]_vars =>
        [\A d \in Device :
           opened'[d] # opened[d] /\ opened'[d] # None => opened'[d] \notin spent]_vars
  BY OpensWhatIsNotSpent
<1>4. QED
  BY <1>1, <1>2, <1>3, Invariance, PTL DEF Spec, SpentOnce
=============================================================================
