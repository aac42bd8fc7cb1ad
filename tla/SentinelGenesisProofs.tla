----------------------- MODULE SentinelGenesisProofs -----------------------
(***************************************************************************)
(* Machine-checked proofs about the genesis ceremony of a Sentinel vault,  *)
(* for every set of tabs, participants, ceremonies and stores, every       *)
(* participant count and any number of closed tabs and failed requests.    *)
(***************************************************************************)
EXTENDS SentinelGenesis, TLAPS

-----------------------------------------------------------------------------
(* Types.                                                                  *)

Plan == [session : Session, store : Store, roster : SUBSET Device]
Delivery == [session : Session, store : Store, to : Device]
Collecting == [id : Session, roster : SUBSET Device]

Phase == {"Inactive", "CollectingParticipants", "ReadyToFinalize",
          "AwaitingCompletionCheck", "DeliveringShares", "Complete"}

Memory ==
  [pc : Steps \cup {"closed", "idle"},
   session : Collecting \cup {NoSession}, phase : Phase,
   plan : Plan \cup {NoPlan}, heads : SUBSET Nat, shown : SUBSET Delivery]

TabInv == tab \in [Tab -> Memory]

DataInv ==
  /\ journal \in Plan \cup {NoPlan}
  /\ saved \in SUBSET Store
  /\ roots \in [Store -> Nat]
  /\ heads \in [Store -> SUBSET Nat]
  /\ held \in [Device -> SUBSET Delivery]
  /\ pending \in [Peer -> Session \cup {None}]
  /\ requests \in SUBSET Session
  /\ responses \in SUBSET [session : requests, from : Peer]
  /\ handed \in SUBSET Delivery
  /\ used \in SUBSET Store

TypeInv == TabInv /\ DataInv

(* A tab that carries out a plan has one.                                  *)
StepInv == \A t \in Tab : tab[t].pc \in Steps => tab[t].plan # NoPlan

-----------------------------------------------------------------------------
(* Rosters: whoever is listed answered the invitation to this ceremony.    *)

Answered(session, roster) ==
  /\ session \in requests
  /\ Initiator \in roster
  /\ \A p \in roster \ {Initiator} : [session |-> session, from |-> p] \in responses

Drawn(plan) ==
  plan # NoPlan => /\ Cardinality(plan.roster) = N
                   /\ Answered(plan.session, plan.roster)

RosterInv ==
  /\ Drawn(journal)
  /\ \A t \in Tab :
       /\ Drawn(tab[t].plan)
       /\ tab[t].session # NoSession => Answered(tab[t].session.id, tab[t].session.roster)

-----------------------------------------------------------------------------
(* Issuance: which store was issued by which ceremony, as told by every    *)
(* plan and every delivery there is.                                       *)

Plans == ({journal} \cup {tab[t].plan : t \in Tab}) \ {NoPlan}

HeldDeliveries == UNION {held[d] : d \in Device}
ShownDeliveries == UNION {tab[t].shown : t \in Tab}
AllDeliveries == HeldDeliveries \cup handed \cup ShownDeliveries

Issues == {<<x.session, x.store>> : x \in Plans \cup AllDeliveries}

IssueInv ==
  /\ \A i, j \in Issues : i[1] = j[1] => i[2] = j[2]
  /\ \A i \in Issues : i[1] \in requests
  /\ \A t \in Tab : tab[t].session # NoSession =>
       /\ \A i \in Issues : i[1] # tab[t].session.id
       /\ \A u \in Tab \ {t} : tab[u].session.id # tab[t].session.id

-----------------------------------------------------------------------------
(* Progress: what the next write of a tab tells about the ones before it.  *)

HasShare(s) == \E d \in held[Initiator] : d.store = s

Progressed(memory) ==
  LET s == memory.plan.store IN
  /\ memory.pc \in {"check", "root", "heads", "share", "clear"} => s \in saved
  /\ memory.pc \in {"heads", "share", "clear"} => roots[s] > 0
  /\ memory.pc = "heads" => memory.heads # {}
  /\ memory.pc \in {"share", "clear"} => heads[s] # {}
  /\ memory.pc = "clear" => HasShare(s)
  /\ \A d \in memory.shown : Done(d.store)

ProgressInv ==
  /\ \A t \in Tab : Progressed(tab[t])
  /\ SharesOfDoneVaults

IInv == TypeInv /\ StepInv /\ RosterInv /\ IssueInv /\ ProgressInv

-----------------------------------------------------------------------------
(* Typing.                                                                 *)


(* Every way in which a step changes the memory of a tab. *)
LEMMA MemoryUpdates ==
  ASSUME NEW m \in Memory
  PROVE  /\ Closed \in Memory /\ Ended(m) \in Memory
         /\ \A pc \in Steps \cup {"idle"} : [m EXCEPT !.pc = pc] \in Memory
         /\ \A ph \in Phase : [m EXCEPT !.phase = ph] \in Memory
         /\ \A c \in Collecting \cup {NoSession}, ph \in Phase :
              [m EXCEPT !.session = c, !.phase = ph] \in Memory
         /\ \A pc \in Steps, plan \in Plan \cup {NoPlan} :
              [m EXCEPT !.pc = pc, !.plan = plan] \in Memory
         /\ \A pc \in Steps, plan \in Plan \cup {NoPlan}, ph \in Phase :
              [m EXCEPT !.session = NoSession, !.phase = ph, !.pc = pc, !.plan = plan] \in Memory
         /\ \A pc \in Steps, h \in SUBSET Nat : [m EXCEPT !.pc = pc, !.heads = h] \in Memory
         /\ \A ph \in Phase, ds \in SUBSET Delivery :
              [Ended(m) EXCEPT !.session = NoSession, !.phase = ph, !.shown = ds] \in Memory
<1>1. Closed \in Memory
  BY DEF Memory, Closed, Phase
<1>2. Ended(m) \in Memory
  BY DEF Memory, Ended
<1>3. \A pc \in Steps \cup {"idle"} : [m EXCEPT !.pc = pc] \in Memory
  BY DEF Memory
<1>4. /\ \A ph \in Phase : [m EXCEPT !.phase = ph] \in Memory
      /\ \A c \in Collecting \cup {NoSession}, ph \in Phase :
           [m EXCEPT !.session = c, !.phase = ph] \in Memory
  BY DEF Memory
<1>5. \A pc \in Steps, plan \in Plan \cup {NoPlan} :
        [m EXCEPT !.pc = pc, !.plan = plan] \in Memory
  BY DEF Memory
<1>6. \A pc \in Steps, plan \in Plan \cup {NoPlan}, ph \in Phase :
        [m EXCEPT !.session = NoSession, !.phase = ph, !.pc = pc, !.plan = plan] \in Memory
  BY DEF Memory
<1>7. \A pc \in Steps, h \in SUBSET Nat : [m EXCEPT !.pc = pc, !.heads = h] \in Memory
  BY DEF Memory
<1>8. \A ph \in Phase, ds \in SUBSET Delivery :
        [Ended(m) EXCEPT !.session = NoSession, !.phase = ph, !.shown = ds] \in Memory
  BY <1>2 DEF Memory
<1>9. QED
  BY <1>1, <1>2, <1>3, <1>4, <1>5, <1>6, <1>7, <1>8

(* A step keeps the memory of every tab typed. *)
LEMMA TabsAreTyped ==
  ASSUME TypeInv, StepInv, Next
  PROVE  TabInv'
<1> DEFINE M(t) == tab[t]
<1>0. /\ \A t \in Tab : M(t) \in Memory
      /\ \A t \in Tab : \A m \in Memory : tab' = [tab EXCEPT ![t] = m] => TabInv'
      /\ UNCHANGED tab => TabInv'
  BY DEF TypeInv, TabInv
<1>1. ASSUME NEW t \in Tab, Open(t) PROVE TabInv'
  <2>1. tab' = [tab EXCEPT ![t] = IF journal = NoPlan THEN [M(t) EXCEPT !.pc = "idle"]
                                  ELSE [M(t) EXCEPT !.pc = "project", !.plan = journal]]
    BY <1>1 DEF Open
  <2>2. journal \in Plan \cup {NoPlan} /\ "project" \in Steps
    BY DEF TypeInv, DataInv, Steps
  <2>3. QED
    BY <1>0, <2>1, <2>2, MemoryUpdates
<1>2. ASSUME NEW t \in Tab, Close(t) PROVE TabInv'
  BY <1>0, <1>2, MemoryUpdates DEF Close
<1>3. ASSUME NEW t \in Tab, RequestFails(t) PROVE TabInv'
  BY <1>0, <1>3, MemoryUpdates DEF RequestFails
<1>4. ASSUME NEW t \in Tab, StartRefused(t) PROVE TabInv'
  <2>1. tab' = [tab EXCEPT ![t] = [M(t) EXCEPT !.session = NoSession,
                                               !.phase = "AwaitingCompletionCheck"]]
    BY <1>4 DEF StartRefused
  <2>2. QED
    BY <1>0, <2>1, MemoryUpdates DEF Phase
<1>5. ASSUME NEW t \in Tab, RetryFinalize(t) PROVE TabInv'
  <2>1. tab' = [tab EXCEPT ![t] = [M(t) EXCEPT
          !.session = NoSession, !.phase = "AwaitingCompletionCheck",
          !.pc = "project", !.plan = journal]]
    BY <1>5 DEF RetryFinalize
  <2>2. journal \in Plan \cup {NoPlan} /\ "project" \in Steps
    BY DEF TypeInv, DataInv, Steps
  <2>3. QED
    BY <1>0, <2>1, <2>2, MemoryUpdates DEF Phase
<1>6. ASSUME NEW t \in Tab, FinalizeNothing(t) PROVE TabInv'
  <2>1. tab' = [tab EXCEPT ![t] = [M(t) EXCEPT !.phase = "Inactive"]]
    BY <1>6 DEF FinalizeNothing
  <2>2. QED
    BY <1>0, <2>1, MemoryUpdates DEF Phase
<1>7. ASSUME NEW t \in Tab, CompleteDelivery(t) PROVE TabInv'
  <2>1. tab' = [tab EXCEPT ![t] = [M(t) EXCEPT !.phase = "Complete"]]
    BY <1>7 DEF CompleteDelivery
  <2>2. QED
    BY <1>0, <2>1, MemoryUpdates DEF Phase
<1>8. ASSUME NEW t \in Tab, NEW s \in Session, StartGenesis(t, s) PROVE TabInv'
  <2> DEFINE session == [id |-> s, roster |-> {Initiator}]
  <2>1. tab' = [tab EXCEPT ![t] = [M(t) EXCEPT !.session = session,
                                               !.phase = PhaseOf(session)]]
    BY <1>8 DEF StartGenesis
  <2>2. session \in Collecting /\ PhaseOf(session) \in Phase
    BY DEF Collecting, Device, PhaseOf, Phase
  <2>3. QED
    BY <1>0, <2>1, <2>2, MemoryUpdates
<1>9. ASSUME NEW t \in Tab, NEW r \in responses, Collect(t, r) PROVE TabInv'
  <2> DEFINE session == [M(t).session EXCEPT !.roster = @ \cup {r.from}]
  <2>1. tab' = [tab EXCEPT ![t] = [M(t) EXCEPT !.session = session,
                                               !.phase = PhaseOf(session)]]
    BY <1>9 DEF Collect
  <2>2. r \in [session : Session, from : Peer] /\ r.session = M(t).session.id
    BY <1>9 DEF Collect, Admissible, TypeInv, DataInv
  <2>3. M(t).session \in Collecting
    <3>1. M(t).session \in Collecting \cup {NoSession}
      BY <1>0 DEF Memory
    <3>2. M(t).session.id # None
      BY <2>2, DeviceAssumption
    <3>3. QED
      BY <3>1, <3>2 DEF NoSession
  <2>4. session \in Collecting /\ PhaseOf(session) \in Phase
    BY <2>2, <2>3 DEF Collecting, Device, PhaseOf, Phase
  <2>5. QED
    BY <1>0, <2>1, <2>4, MemoryUpdates
<1>10. ASSUME NEW t \in Tab, NEW s \in Store, Issue(t, s) PROVE TabInv'
  <2> DEFINE plan == [session |-> M(t).session.id, store |-> s, roster |-> M(t).session.roster]
  <2>1. tab' = [tab EXCEPT ![t] = [M(t) EXCEPT
          !.session = NoSession, !.phase = "AwaitingCompletionCheck",
          !.pc = "journal", !.plan = plan]]
    BY <1>10 DEF Issue
  <2>2. M(t).session \in Collecting
    <3>1. M(t).session \in Collecting \cup {NoSession}
      BY <1>0 DEF Memory
    <3>2. Initiator \in M(t).session.roster
      BY <1>10 DEF Issue, Issuable
    <3>3. QED
      BY <3>1, <3>2 DEF NoSession
  <2>3. plan \in Plan /\ "journal" \in Steps
    BY <2>2 DEF Collecting, Plan, Steps
  <2>4. QED
    BY <1>0, <2>1, <2>3, MemoryUpdates DEF Phase
<1>11. ASSUME NEW t \in Tab, FinishStep(t) PROVE TabInv'
  <2>1. ASSUME NEW pc \in Steps, tab' = [tab EXCEPT ![t] = [M(t) EXCEPT !.pc = pc]]
        PROVE  TabInv'
    BY <1>0, <2>1, MemoryUpdates
  <2>2. CASE SaveJournal(t)
    BY <2>1, <2>2 DEF SaveJournal, Steps
  <2>3. CASE SaveProjection(t)
    BY <2>1, <2>3 DEF SaveProjection, Steps
  <2>4. CASE CheckRoot(t)
    <3> DEFINE n == roots[M(t).plan.store]
    <3>1. tab' = [tab EXCEPT ![t] = CASE n = 0 -> [M(t) EXCEPT !.pc = "root"]
                                      [] n = 1 -> [M(t) EXCEPT !.pc = "heads", !.heads = {1}]
                                      [] OTHER -> Ended(M(t))]
      BY <2>4 DEF CheckRoot
    <3>2. [M(t) EXCEPT !.pc = "root"] \in Memory /\ Ended(M(t)) \in Memory
      BY <1>0, MemoryUpdates DEF Steps
    <3>3. [M(t) EXCEPT !.pc = "heads", !.heads = {1}] \in Memory
      <4>1. {1} \in SUBSET Nat /\ "heads" \in Steps
        BY DEF Steps
      <4>2. QED
        BY <1>0, <4>1, MemoryUpdates
    <3> DEFINE m == CASE n = 0 -> [M(t) EXCEPT !.pc = "root"]
                      [] n = 1 -> [M(t) EXCEPT !.pc = "heads", !.heads = {1}]
                      [] OTHER -> Ended(M(t))
    <3>4. m \in Memory
      <4> HIDE DEF M
      <4>1. CASE n = 0
        BY <3>2, <4>1
      <4>2. CASE n = 1
        BY <3>3, <4>2
      <4>3. CASE n # 0 /\ n # 1
        BY <3>2, <4>3
      <4>4. QED
        BY <4>1, <4>2, <4>3
    <3>5. QED
      BY <1>0, <3>1, <3>4
  <2>5. CASE WriteRoot(t)
    <3> DEFINE n == roots[M(t).plan.store]
    <3>1. tab' = [tab EXCEPT ![t] = [M(t) EXCEPT !.pc = "heads", !.heads = {n + 1}]]
      BY <2>5 DEF WriteRoot
    <3>2. M(t).plan.store \in Store
      <4>1. M(t).plan \in Plan
        BY <1>0, <2>5 DEF WriteRoot, StepInv, Steps, Memory
      <4>2. QED
        BY <4>1 DEF Plan
    <3>3. {n + 1} \in SUBSET Nat
      BY <3>2 DEF TypeInv, DataInv
    <3>4. QED
      BY <1>0, <3>1, <3>3, MemoryUpdates DEF Steps
  <2>6. CASE SaveHeads(t)
    BY <2>1, <2>6 DEF SaveHeads, Steps
  <2>7. CASE SaveOwnShare(t)
    BY <2>1, <2>7 DEF SaveOwnShare, Steps
  <2>8. CASE ClearJournal(t)
    <3>1. tab' = [tab EXCEPT ![t] = [Ended(M(t)) EXCEPT
            !.session = NoSession, !.phase = "DeliveringShares",
            !.shown = Deliveries(M(t).plan)]]
      BY <2>8 DEF ClearJournal
    <3>2. Deliveries(M(t).plan) \in SUBSET Delivery
      <4>1. M(t).plan \in Plan
        BY <1>0, <2>8 DEF ClearJournal, StepInv, Steps, Memory
      <4>2. QED
        BY <4>1 DEF Plan, Deliveries, Delivery
    <3>3. QED
      BY <1>0, <3>1, <3>2, MemoryUpdates DEF Phase
  <2>9. QED
    BY <1>11, <2>2, <2>3, <2>4, <2>5, <2>6, <2>7, <2>8 DEF FinishStep
<1>12. ASSUME NEW t \in Tab, NEW d \in tab[t].shown, HandOver(t, d) PROVE TabInv'
  BY <1>0, <1>12 DEF HandOver
<1>13. ASSUME NEW p \in Peer,
              \/ PeerReloads(p)
              \/ \E s \in requests : Respond(p, s) \/ Remember(p, s)
              \/ \E d \in handed : AcceptDelivery(p, d) \/ AcceptPackage(p, d)
       PROVE  TabInv'
  BY <1>0, <1>13 DEF PeerReloads, Respond, Remember, AcceptDelivery, AcceptPackage
<1>14. QED
  BY <1>1, <1>2, <1>3, <1>4, <1>5, <1>6, <1>7, <1>8, <1>9, <1>10, <1>11, <1>12, <1>13
     DEF Next

(* What a tab holds, field by field. *)
LEMMA TabFields ==
  ASSUME TypeInv, NEW t \in Tab
  PROVE  /\ tab[t] \in Memory
         /\ tab[t].session \in Collecting \cup {NoSession}
         /\ tab[t].plan \in Plan \cup {NoPlan}
         /\ tab[t].plan # NoPlan => tab[t].plan.session \in Session
                                    /\ tab[t].plan.store \in Store
                                    /\ tab[t].plan.roster \in SUBSET Device
         /\ tab[t].heads \in SUBSET Nat
         /\ tab[t].shown \in SUBSET Delivery
<1>1. tab[t] \in Memory
  BY DEF TypeInv, TabInv
<1>2. QED
  BY <1>1 DEF Memory, Plan

(* The deliveries that a plan computes are deliveries. *)
LEMMA DeliveriesAreTyped ==
  ASSUME NEW plan \in Plan
  PROVE  Deliveries(plan) \in SUBSET Delivery
BY DEF Plan, Deliveries, Delivery

(* A step keeps the stored data and the messages typed. *)
LEMMA DataIsTyped ==
  ASSUME TypeInv, StepInv, Next
  PROVE  DataInv'
<1> USE DEF database, messages
<1>0. DataInv
  BY DEF TypeInv
<1>1. ASSUME UNCHANGED <<database, held, pending, messages, used>>
      PROVE  DataInv'
  BY <1>0, <1>1 DEF DataInv
<1>2. ASSUME NEW t \in Tab,
             \/ Open(t) \/ Close(t) \/ RequestFails(t) \/ CheckRoot(t) \/ StartRefused(t)
             \/ RetryFinalize(t) \/ FinalizeNothing(t) \/ CompleteDelivery(t)
      PROVE  DataInv'
  BY <1>1, <1>2 DEF Open, Close, RequestFails, CheckRoot, StartRefused, RetryFinalize,
                    FinalizeNothing, CompleteDelivery
<1>3. ASSUME NEW t \in Tab, NEW r \in responses, Collect(t, r) PROVE DataInv'
  BY <1>1, <1>3 DEF Collect
<1>4. ASSUME NEW t \in Tab, NEW s \in Session, StartGenesis(t, s) PROVE DataInv'
  BY <1>0, <1>4 DEF StartGenesis, DataInv
<1>5. ASSUME NEW t \in Tab, NEW s \in Store, Issue(t, s) PROVE DataInv'
  BY <1>0, <1>5 DEF Issue, DataInv
<1>6. ASSUME NEW t \in Tab, NEW d \in tab[t].shown, HandOver(t, d) PROVE DataInv'
  <2>1. d \in Delivery
    BY TabFields
  <2>2. QED
    BY <1>0, <1>6, <2>1 DEF HandOver, DataInv
<1>7. ASSUME NEW t \in Tab, FinishStep(t) PROVE DataInv'
  <2>1. tab[t].plan \in Plan /\ tab[t].plan.store \in Store
    <3>1. tab[t].plan # NoPlan
      BY <1>7 DEF StepInv, Steps, FinishStep, SaveJournal, SaveProjection, CheckRoot,
                  WriteRoot, SaveHeads, SaveOwnShare, ClearJournal
    <3>2. QED
      BY <3>1, TabFields
  <2>2. CASE SaveJournal(t)
    BY <1>0, <2>1, <2>2 DEF SaveJournal, DataInv
  <2>3. CASE SaveProjection(t)
    BY <1>0, <2>1, <2>3 DEF SaveProjection, DataInv
  <2>4. CASE WriteRoot(t)
    BY <1>0, <2>1, <2>4 DEF WriteRoot, DataInv
  <2>5. CASE SaveHeads(t)
    BY <1>0, <2>1, <2>5, TabFields DEF SaveHeads, DataInv
  <2>6. CASE SaveOwnShare(t)
    <3>1. PICK d \in Deliveries(tab[t].plan) :
            held' = [held EXCEPT ![Initiator] = Replacing(@, d)]
      BY <2>6 DEF SaveOwnShare
    <3>2. d \in Delivery
      BY <2>1, DeliveriesAreTyped
    <3>3. held' \in [Device -> SUBSET Delivery]
      BY <1>0, <3>1, <3>2 DEF Replacing, DataInv
    <3>4. QED
      BY <1>0, <2>6, <3>3 DEF SaveOwnShare, DataInv
  <2>7. CASE ClearJournal(t)
    BY <1>0, <2>7 DEF ClearJournal, DataInv
  <2>8. QED
    BY <1>2, <1>7, <2>2, <2>3, <2>4, <2>5, <2>6, <2>7 DEF FinishStep
<1>8. ASSUME NEW p \in Peer, PeerReloads(p) PROVE DataInv'
  BY <1>0, <1>8 DEF PeerReloads, DataInv
<1>9. ASSUME NEW p \in Peer, NEW s \in requests, Respond(p, s) \/ Remember(p, s)
      PROVE  DataInv'
  BY <1>0, <1>9 DEF Respond, Remember, DataInv
<1>10. ASSUME NEW p \in Peer, NEW d \in handed, AcceptDelivery(p, d) \/ AcceptPackage(p, d)
       PROVE  DataInv'
  <2>1. held' = [held EXCEPT ![p] = Replacing(@, d)] /\ pending' = [pending EXCEPT ![p] = None]
    BY <1>10 DEF AcceptDelivery, AcceptPackage
  <2>2. held' \in [Device -> SUBSET Delivery]
    BY <1>0, <2>1 DEF Replacing, DataInv
  <2>3. QED
    BY <1>0, <1>10, <2>1, <2>2 DEF AcceptDelivery, AcceptPackage, DataInv
<1>11. QED
  BY <1>2, <1>3, <1>4, <1>5, <1>6, <1>7, <1>8, <1>9, <1>10 DEF Next

(* A step, or none, keeps the types. *)
LEMMA TypeHolds ==
  ASSUME TypeInv, StepInv, [Next]_vars
  PROVE  TypeInv'
<1>1. CASE UNCHANGED vars
  BY <1>1 DEF vars, database, messages, TypeInv, TabInv, DataInv
<1>2. QED
  BY <1>1, TabsAreTyped, DataIsTyped DEF TypeInv

-----------------------------------------------------------------------------
(* Where plans, sessions and deliveries come from.                         *)

(* The steps that begin, extend or issue a ceremony. *)
Begins == \E t \in Tab, s \in Session : StartGenesis(t, s)
Admits == \E t \in Tab, r \in responses : Collect(t, r)
IssuesOne == \E t \in Tab, s \in Store : Issue(t, s)

(* All other steps keep or drop sessions, and keep, drop or resume plans.  *)
LEMMA OtherStepsKeep ==
  ASSUME TypeInv, Next, ~Begins, ~Admits, ~IssuesOne, NEW u \in Tab
  PROVE  /\ tab'[u].plan \in {tab[u].plan, NoPlan, journal}
         /\ tab'[u].session \in {tab[u].session, NoSession}
<1> DEFINE Kept == /\ tab'[u].plan \in {tab[u].plan, NoPlan, journal}
                   /\ tab'[u].session \in {tab[u].session, NoSession}
<1>0. tab \in [Tab -> Memory] /\ tab[u] \in Memory
  BY DEF TypeInv, TabInv
<1>1. ASSUME NEW t \in Tab, Open(t) PROVE Kept
  BY <1>0, <1>1 DEF Open, Memory
<1>2. ASSUME NEW t \in Tab, Close(t) PROVE Kept
  BY <1>0, <1>2 DEF Close, Closed, Memory
<1>3. ASSUME NEW t \in Tab, RequestFails(t) PROVE Kept
  BY <1>0, <1>3 DEF RequestFails, Ended, Memory
<1>4. ASSUME NEW t \in Tab, StartRefused(t) PROVE Kept
  BY <1>0, <1>4 DEF StartRefused, Memory
<1>5. ASSUME NEW t \in Tab, RetryFinalize(t) PROVE Kept
  BY <1>0, <1>5 DEF RetryFinalize, Memory
<1>6. ASSUME NEW t \in Tab, FinalizeNothing(t) \/ CompleteDelivery(t) PROVE Kept
  BY <1>0, <1>6 DEF FinalizeNothing, CompleteDelivery, Memory
<1>7. ASSUME NEW t \in Tab, FinishStep(t) PROVE Kept
  <2>1. CASE SaveJournal(t) \/ SaveProjection(t) \/ SaveOwnShare(t) \/ SaveHeads(t)
    BY <1>0, <2>1 DEF SaveJournal, SaveProjection, SaveOwnShare, SaveHeads, Memory
  <2>2. CASE WriteRoot(t)
    BY <1>0, <2>2 DEF WriteRoot, Memory
  <2>3. CASE CheckRoot(t)
    <3>1. CASE roots[tab[t].plan.store] = 0
      BY <1>0, <2>3, <3>1 DEF CheckRoot, Memory
    <3>2. CASE roots[tab[t].plan.store] = 1
      BY <1>0, <2>3, <3>2 DEF CheckRoot, Memory
    <3>3. CASE roots[tab[t].plan.store] # 0 /\ roots[tab[t].plan.store] # 1
      BY <1>0, <2>3, <3>3 DEF CheckRoot, Ended, Memory
    <3>4. QED
      BY <3>1, <3>2, <3>3
  <2>4. CASE ClearJournal(t)
    BY <1>0, <2>4 DEF ClearJournal, Ended, Memory
  <2>5. QED
    BY <1>7, <2>1, <2>2, <2>3, <2>4 DEF FinishStep
<1>8. ASSUME UNCHANGED tab PROVE Kept
  BY <1>8
<1>9. ASSUME NEW t \in Tab, NEW d, HandOver(t, d) PROVE Kept
  BY <1>8, <1>9 DEF HandOver
<1>10. ASSUME NEW p \in Peer,
              \/ PeerReloads(p)
              \/ \E s \in requests : Respond(p, s) \/ Remember(p, s)
              \/ \E d \in handed : AcceptDelivery(p, d) \/ AcceptPackage(p, d)
       PROVE  Kept
  BY <1>8, <1>10 DEF PeerReloads, Respond, Remember, AcceptDelivery, AcceptPackage
<1>11. QED
  BY <1>1, <1>2, <1>3, <1>4, <1>5, <1>6, <1>7, <1>9, <1>10
     DEF Next, Begins, Admits, IssuesOne

(* The journal is written from a tab's plan; messages only accumulate.     *)
LEMMA JournalAndMessages ==
  ASSUME Next
  PROVE  /\ journal' \in {journal, NoPlan} \cup {tab[t].plan : t \in Tab}
         /\ requests \subseteq requests'
         /\ responses \subseteq responses'
<1> DEFINE Kept == /\ journal' \in {journal, NoPlan} \cup {tab[t].plan : t \in Tab}
                   /\ requests \subseteq requests'
                   /\ responses \subseteq responses'
<1> USE DEF database, messages
<1>1. ASSUME NEW t \in Tab,
             \/ Open(t) \/ Close(t) \/ RequestFails(t) \/ CheckRoot(t) \/ StartRefused(t)
             \/ RetryFinalize(t) \/ FinalizeNothing(t) \/ CompleteDelivery(t)
             \/ SaveProjection(t) \/ WriteRoot(t) \/ SaveHeads(t) \/ SaveOwnShare(t)
      PROVE  Kept
  BY <1>1 DEF Open, Close, RequestFails, CheckRoot, StartRefused, RetryFinalize,
              FinalizeNothing, CompleteDelivery, SaveProjection, WriteRoot, SaveHeads,
              SaveOwnShare
<1>2. ASSUME NEW t \in Tab, SaveJournal(t) \/ ClearJournal(t) PROVE Kept
  BY <1>2 DEF SaveJournal, ClearJournal
<1>3. ASSUME NEW t \in Tab,
             \/ \E s \in Session : StartGenesis(t, s)
             \/ \E r \in responses : Collect(t, r)
             \/ \E s \in Store : Issue(t, s)
             \/ \E d \in tab[t].shown : HandOver(t, d)
      PROVE  Kept
  BY <1>3 DEF StartGenesis, Collect, Issue, HandOver
<1>4. ASSUME NEW p \in Peer,
             \/ PeerReloads(p)
             \/ \E s \in requests : Respond(p, s) \/ Remember(p, s)
             \/ \E d \in handed : AcceptDelivery(p, d) \/ AcceptPackage(p, d)
      PROVE  Kept
  BY <1>4 DEF PeerReloads, Respond, Remember, AcceptDelivery, AcceptPackage
<1>5. QED
  BY <1>1, <1>2, <1>3, <1>4 DEF Next, FinishStep

(* A tab that is given something to do has a plan. *)
LEMMA StepHolds ==
  ASSUME TypeInv, StepInv, [Next]_vars
  PROVE  StepInv'
<1> SUFFICES ASSUME NEW u \in Tab, tab'[u].pc \in Steps PROVE tab'[u].plan # NoPlan
  BY DEF StepInv
<1>0. tab \in [Tab -> Memory] /\ tab[u] \in Memory /\ (tab[u].pc \in Steps => tab[u].plan # NoPlan)
  BY DEF TypeInv, TabInv, StepInv
<1> USE DEF Memory
<1>1. ASSUME NEW t \in Tab, Open(t) PROVE tab'[u].plan # NoPlan
  BY <1>0, <1>1 DEF Open, Steps
<1>2. ASSUME NEW t \in Tab, Close(t) PROVE tab'[u].plan # NoPlan
  BY <1>0, <1>2 DEF Close, Closed, Steps
<1>3. ASSUME NEW t \in Tab, RequestFails(t) PROVE tab'[u].plan # NoPlan
  BY <1>0, <1>3 DEF RequestFails, Ended, Steps
<1>4. ASSUME NEW t \in Tab, StartRefused(t) PROVE tab'[u].plan # NoPlan
  BY <1>0, <1>4 DEF StartRefused
<1>5. ASSUME NEW t \in Tab, RetryFinalize(t) PROVE tab'[u].plan # NoPlan
  BY <1>0, <1>5 DEF RetryFinalize
<1>6. ASSUME NEW t \in Tab, FinalizeNothing(t) \/ CompleteDelivery(t)
      PROVE  tab'[u].plan # NoPlan
  BY <1>0, <1>6 DEF FinalizeNothing, CompleteDelivery
<1>7. ASSUME NEW t \in Tab, FinishStep(t) PROVE tab'[u].plan # NoPlan
  <2>1. CASE SaveJournal(t) \/ SaveProjection(t) \/ SaveOwnShare(t) \/ SaveHeads(t)
    BY <1>0, <2>1 DEF SaveJournal, SaveProjection, SaveOwnShare, SaveHeads, Steps
  <2>2. CASE WriteRoot(t)
    BY <1>0, <2>2 DEF WriteRoot, Steps
  <2>3. CASE CheckRoot(t)
    <3>1. CASE roots[tab[t].plan.store] = 0
      BY <1>0, <2>3, <3>1 DEF CheckRoot, Steps
    <3>2. CASE roots[tab[t].plan.store] = 1
      BY <1>0, <2>3, <3>2 DEF CheckRoot, Steps
    <3>3. CASE roots[tab[t].plan.store] # 0 /\ roots[tab[t].plan.store] # 1
      BY <1>0, <2>3, <3>3 DEF CheckRoot, Ended, Steps
    <3>4. QED
      BY <3>1, <3>2, <3>3
  <2>4. CASE ClearJournal(t)
    BY <1>0, <2>4 DEF ClearJournal, Ended, Steps
  <2>5. QED
    BY <1>7, <2>1, <2>2, <2>3, <2>4 DEF FinishStep
<1>8. ASSUME UNCHANGED tab PROVE tab'[u].plan # NoPlan
  BY <1>0, <1>8
<1>9. ASSUME NEW t \in Tab, NEW s \in Session, StartGenesis(t, s) PROVE tab'[u].plan # NoPlan
  BY <1>0, <1>9 DEF StartGenesis
<1>10. ASSUME NEW t \in Tab, NEW r \in responses, Collect(t, r) PROVE tab'[u].plan # NoPlan
  BY <1>0, <1>10 DEF Collect
<1>11. ASSUME NEW t \in Tab, NEW s \in Store, Issue(t, s) PROVE tab'[u].plan # NoPlan
  <2>1. NoPlan.store \notin Store
    BY DeviceAssumption DEF NoPlan
  <2>2. QED
    BY <1>0, <1>11, <2>1 DEF Issue
<1>12. ASSUME NEW t \in Tab, NEW d, HandOver(t, d) PROVE tab'[u].plan # NoPlan
  BY <1>8, <1>12 DEF HandOver
<1>13. ASSUME NEW p \in Peer,
              \/ PeerReloads(p)
              \/ \E s \in requests : Respond(p, s) \/ Remember(p, s)
              \/ \E d \in handed : AcceptDelivery(p, d) \/ AcceptPackage(p, d)
       PROVE  tab'[u].plan # NoPlan
  BY <1>8, <1>13 DEF PeerReloads, Respond, Remember, AcceptDelivery, AcceptPackage
<1>14. CASE UNCHANGED vars
  BY <1>8, <1>14 DEF vars
<1>15. QED
  BY <1>1, <1>2, <1>3, <1>4, <1>5, <1>6, <1>7, <1>9, <1>10, <1>11, <1>12, <1>13, <1>14
     DEF Next

-----------------------------------------------------------------------------
(* Rosters.                                                                *)

(* A participant joins a roster with its response, and a plan is drawn up  *)
(* from a roster that is full.                                             *)
LEMMA RosterHolds ==
  ASSUME TypeInv, RosterInv, [Next]_vars
  PROVE  RosterInv'
<1>1. /\ requests \subseteq requests' /\ responses \subseteq responses'
      /\ journal' \in {journal, NoPlan} \cup {tab[t].plan : t \in Tab}
  BY JournalAndMessages DEF vars, messages, database
<1>2. \A session, roster : Answered(session, roster) => Answered(session, roster)'
  BY <1>1 DEF Answered
<1>3. Drawn(NoPlan)' /\ \A plan : Drawn(plan) => Drawn(plan)'
  BY <1>2 DEF Drawn
<1>4. Drawn(journal)'
  BY <1>1, <1>3 DEF RosterInv, Drawn
<1> DEFINE Good(u) == /\ Drawn(tab[u].plan)
                      /\ tab[u].session # NoSession
                           => Answered(tab[u].session.id, tab[u].session.roster)
<1>5. ASSUME NEW u \in Tab,
             tab'[u].plan \in {tab[u].plan, NoPlan, journal},
             tab'[u].session \in {tab[u].session, NoSession}
      PROVE  Good(u)'
  BY <1>2, <1>3, <1>5 DEF RosterInv, Drawn
<1>6. CASE UNCHANGED tab
  BY <1>4, <1>5, <1>6 DEF RosterInv
<1>7. CASE Next /\ ~Begins /\ ~Admits /\ ~IssuesOne
  BY <1>4, <1>5, <1>7, OtherStepsKeep DEF RosterInv
<1>8. ASSUME NEW t \in Tab, NEW s \in Session, StartGenesis(t, s)
      PROVE  RosterInv'
  <2>1. /\ tab'[t].session = [id |-> s, roster |-> {Initiator}]
        /\ tab'[t].plan = tab[t].plan
        /\ s \in requests'
        /\ \A u \in Tab \ {t} : tab'[u] = tab[u]
    BY <1>8, TabFields DEF StartGenesis, Memory, TypeInv, TabInv
  <2>2. Good(t)'
    BY <1>3, <2>1 DEF RosterInv, Answered, Drawn
  <2>3. QED
    BY <1>4, <1>5, <2>1, <2>2 DEF RosterInv
<1>9. ASSUME NEW t \in Tab, NEW r \in responses, Collect(t, r)
      PROVE  RosterInv'
  <2>1. /\ tab'[t].session = [tab[t].session EXCEPT !.roster = @ \cup {r.from}]
        /\ tab'[t].plan = tab[t].plan
        /\ \A u \in Tab \ {t} : tab'[u] = tab[u]
    BY <1>9, TabFields DEF Collect, Memory, TypeInv, TabInv
  <2>2. r \in [session : requests, from : Peer] /\ r.session = tab[t].session.id
    BY <1>9 DEF Collect, Admissible, TypeInv, DataInv
  <2>3. tab[t].session # NoSession
    BY <2>2, DeviceAssumption DEF NoSession, TypeInv, DataInv
  <2>4. /\ tab'[t].session.id = tab[t].session.id
        /\ tab'[t].session.roster = tab[t].session.roster \cup {r.from}
    BY <2>1, <2>3, TabFields DEF Collecting
  <2>5. r = [session |-> tab[t].session.id, from |-> r.from]
    BY <2>2
  <2>6. Answered(tab[t].session.id, tab[t].session.roster \cup {r.from})
    BY <2>3, <2>5 DEF RosterInv, Answered
  <2>7. Good(t)'
    BY <1>2, <1>3, <2>1, <2>4, <2>6 DEF RosterInv
  <2>8. QED
    BY <1>4, <1>5, <2>1, <2>7 DEF RosterInv
<1>10. ASSUME NEW t \in Tab, NEW s \in Store, Issue(t, s)
       PROVE  RosterInv'
  <2>1. /\ tab'[t].session = NoSession
        /\ tab'[t].plan = [session |-> tab[t].session.id, store |-> s,
                           roster |-> tab[t].session.roster]
        /\ \A u \in Tab \ {t} : tab'[u] = tab[u]
    BY <1>10, TabFields DEF Issue, Memory, TypeInv, TabInv
  <2>2. Cardinality(tab[t].session.roster) = N /\ Initiator \in tab[t].session.roster
    BY <1>10 DEF Issue, Issuable
  <2>3. tab[t].session # NoSession
    BY <2>2 DEF NoSession
  <2>4. Answered(tab[t].session.id, tab[t].session.roster)
    BY <2>3 DEF RosterInv
  <2>5. Good(t)'
    BY <1>2, <2>1, <2>2, <2>4 DEF Drawn
  <2>6. QED
    BY <1>4, <1>5, <2>1, <2>5 DEF RosterInv
<1>11. QED
  BY <1>6, <1>7, <1>8, <1>9, <1>10 DEF vars, Begins, Admits, IssuesOne

-----------------------------------------------------------------------------
(* Issuance.                                                               *)

PlanDeliveries == UNION {Deliveries(tab[t].plan) : t \in Tab}

(* A delivery is copied, or made from the plan that a tab carries out. *)
LEMMA DeliverySources ==
  ASSUME TypeInv, [Next]_vars
  PROVE  AllDeliveries' \subseteq AllDeliveries \cup PlanDeliveries
<1> DEFINE All == AllDeliveries \cup PlanDeliveries
<1> USE DEF database, messages
<1>0. /\ \A d \in Device : held[d] \subseteq All
      /\ handed \subseteq All
      /\ \A t \in Tab : tab[t].shown \subseteq All /\ Deliveries(tab[t].plan) \subseteq All
      /\ tab \in [Tab -> Memory] /\ held \in [Device -> SUBSET Delivery]
      /\ \A t \in Tab : tab[t] \in Memory
  <2>1. /\ tab \in [Tab -> Memory] /\ held \in [Device -> SUBSET Delivery]
        /\ \A t \in Tab : tab[t] \in Memory
    BY DEF TypeInv, TabInv, DataInv
  <2>2. /\ \A d \in Device : held[d] \subseteq HeldDeliveries
        /\ \A t \in Tab : tab[t].shown \subseteq ShownDeliveries
    BY DEF HeldDeliveries, ShownDeliveries
  <2>3. /\ \A d \in Device : held[d] \subseteq AllDeliveries
        /\ handed \subseteq AllDeliveries
        /\ \A t \in Tab : tab[t].shown \subseteq AllDeliveries
    BY <2>2 DEF AllDeliveries
  <2>4. \A t \in Tab : Deliveries(tab[t].plan) \subseteq PlanDeliveries
    BY DEF PlanDeliveries
  <2>5. QED
    BY <2>1, <2>3, <2>4
<1> HIDE DEF All
<1>1. ASSUME \A d \in Device : held'[d] \subseteq All,
             handed' \subseteq All,
             \A t \in Tab : tab'[t].shown \subseteq All
      PROVE  AllDeliveries' \subseteq All
  <2>1. HeldDeliveries' \subseteq All /\ ShownDeliveries' \subseteq All
    BY <1>1 DEF HeldDeliveries, ShownDeliveries
  <2>2. QED
    BY <1>1, <2>1 DEF AllDeliveries
<1> DEFINE Goal == AllDeliveries' \subseteq All
<1>2. ASSUME UNCHANGED <<held, handed>>, NEW t \in Tab, NEW m, m.shown \subseteq All,
             tab' = [tab EXCEPT ![t] = m]
      PROVE  Goal
  <2>1. \A u \in Tab : tab'[u].shown \subseteq All
    BY <1>0, <1>2
  <2>2. QED
    BY <1>0, <1>1, <1>2, <2>1
<1> HIDE DEF Goal
<1>3. ASSUME NEW t \in Tab, Open(t) \/ Close(t) \/ RequestFails(t) PROVE Goal
  <2>1. \/ tab' = [tab EXCEPT ![t] = [@ EXCEPT !.pc = "idle"]]
        \/ tab' = [tab EXCEPT ![t] = [@ EXCEPT !.pc = "project", !.plan = journal]]
        \/ tab' = [tab EXCEPT ![t] = Closed]
        \/ tab' = [tab EXCEPT ![t] = Ended(@)]
    BY <1>3 DEF Open, Close, RequestFails
  <2>2. /\ [tab[t] EXCEPT !.pc = "idle"].shown = tab[t].shown
        /\ [tab[t] EXCEPT !.pc = "project", !.plan = journal].shown = tab[t].shown
        /\ Closed.shown = {}
        /\ Ended(tab[t]).shown = tab[t].shown
    BY <1>0 DEF Memory, Closed, Ended
  <2>3. QED
    BY <1>0, <1>2, <1>3, <2>1, <2>2 DEF Open, Close, RequestFails
<1>4. ASSUME NEW t \in Tab,
             \/ StartRefused(t) \/ RetryFinalize(t) \/ FinalizeNothing(t) \/ CompleteDelivery(t)
             \/ \E s \in Session : StartGenesis(t, s)
             \/ \E r \in responses : Collect(t, r)
             \/ \E s \in Store : Issue(t, s)
             \/ SaveJournal(t) \/ SaveProjection(t) \/ WriteRoot(t) \/ SaveHeads(t)
      PROVE  Goal
  <2>1. UNCHANGED <<held, handed>>
    BY <1>4 DEF StartRefused, RetryFinalize, FinalizeNothing, CompleteDelivery, StartGenesis,
                Collect, Issue, SaveJournal, SaveProjection, WriteRoot, SaveHeads
  <2>2. \A u \in Tab : tab'[u].shown = tab[u].shown
    <3>1. CASE \/ StartRefused(t) \/ RetryFinalize(t) \/ FinalizeNothing(t)
               \/ CompleteDelivery(t)
      BY <1>0, <3>1 DEF StartRefused, RetryFinalize, FinalizeNothing, CompleteDelivery, Memory
    <3>2. ASSUME NEW s \in Session, StartGenesis(t, s)
          PROVE  \A u \in Tab : tab'[u].shown = tab[u].shown
      BY <1>0, <3>2 DEF StartGenesis, Memory
    <3>3. ASSUME NEW r \in responses, Collect(t, r)
          PROVE  \A u \in Tab : tab'[u].shown = tab[u].shown
      BY <1>0, <3>3 DEF Collect, Memory
    <3>4. ASSUME NEW s \in Store, Issue(t, s)
          PROVE  \A u \in Tab : tab'[u].shown = tab[u].shown
      BY <1>0, <3>4 DEF Issue, Memory
    <3>5. CASE SaveJournal(t) \/ SaveProjection(t) \/ SaveHeads(t)
      BY <1>0, <3>5 DEF SaveJournal, SaveProjection, SaveHeads, Memory
    <3>6. CASE WriteRoot(t)
      BY <1>0, <3>6 DEF WriteRoot, Memory
    <3>7. QED
      BY <1>4, <3>1, <3>2, <3>3, <3>4, <3>5, <3>6
  <2>3. QED
    BY <1>0, <1>1, <2>1, <2>2 DEF Goal
<1>5. ASSUME NEW t \in Tab, CheckRoot(t) PROVE Goal
  <2>1. \A u \in Tab : tab'[u].shown = tab[u].shown
    <3>1. CASE roots[tab[t].plan.store] = 0
      BY <1>0, <1>5, <3>1 DEF CheckRoot, Memory
    <3>2. CASE roots[tab[t].plan.store] = 1
      BY <1>0, <1>5, <3>2 DEF CheckRoot, Memory
    <3>3. CASE roots[tab[t].plan.store] # 0 /\ roots[tab[t].plan.store] # 1
      BY <1>0, <1>5, <3>3 DEF CheckRoot, Ended, Memory
    <3>4. QED
      BY <3>1, <3>2, <3>3
  <2>2. QED
    BY <1>0, <1>1, <1>5, <2>1 DEF CheckRoot, Goal
<1>6. ASSUME NEW t \in Tab, SaveOwnShare(t) PROVE Goal
  <2>1. PICK d \in Deliveries(tab[t].plan) :
          d.to = Initiator /\ held' = [held EXCEPT ![Initiator] = Replacing(@, d)]
    BY <1>6 DEF SaveOwnShare
  <2>2. \A e \in Device : held'[e] \subseteq All
    BY <1>0, <2>1 DEF Replacing
  <2>3. \A u \in Tab : tab'[u].shown = tab[u].shown
    BY <1>0, <1>6 DEF SaveOwnShare, Memory
  <2>4. QED
    BY <1>0, <1>1, <1>6, <2>2, <2>3 DEF SaveOwnShare, Goal
<1>7. ASSUME NEW t \in Tab, ClearJournal(t) PROVE Goal
  <2> DEFINE m == [Ended(tab[t]) EXCEPT !.session = NoSession, !.phase = "DeliveringShares",
                                        !.shown = Deliveries(tab[t].plan)]
  <2>1. tab' = [tab EXCEPT ![t] = m] /\ UNCHANGED <<held, handed>>
    BY <1>7 DEF ClearJournal
  <2>2. m.shown = Deliveries(tab[t].plan)
    BY <1>0 DEF Ended, Memory
  <2>3. QED
    BY <1>0, <1>2, <2>1, <2>2
<1>8. ASSUME NEW t \in Tab, NEW d \in tab[t].shown, HandOver(t, d) PROVE Goal
  BY <1>0, <1>1, <1>8 DEF HandOver, Goal
<1>9. ASSUME NEW p \in Peer, NEW d \in handed, AcceptDelivery(p, d) \/ AcceptPackage(p, d)
      PROVE  Goal
  <2>1. /\ held' = [held EXCEPT ![p] = Replacing(@, d)] /\ UNCHANGED <<tab, handed>>
    BY <1>9 DEF AcceptDelivery, AcceptPackage
  <2>2. \A e \in Device : held'[e] \subseteq All
    BY <1>0, <2>1 DEF Replacing
  <2>3. QED
    BY <1>0, <1>1, <2>1, <2>2 DEF Goal
<1>10. ASSUME NEW p \in Peer,
              PeerReloads(p) \/ \E s \in requests : Respond(p, s) \/ Remember(p, s)
       PROVE  Goal
  BY <1>0, <1>1, <1>10 DEF PeerReloads, Respond, Remember, Goal
<1>11. ASSUME UNCHANGED vars PROVE Goal
  <2>1. held' = held /\ handed' = handed /\ tab' = tab
    BY <1>11 DEF vars
  <2>2. QED
    BY <1>0, <1>1, <2>1 DEF Goal
<1>12. Goal
  BY <1>3, <1>4, <1>5, <1>6, <1>7, <1>8, <1>9, <1>10, <1>11 DEF Next, FinishStep
<1>13. QED
  BY <1>12 DEF Goal, All

(* So no step but an issuance pairs a ceremony with a store, and an        *)
(* issuance only the ceremony of the tab with the store id it drew.        *)
LEMMA IssueSources ==
  ASSUME TypeInv, [Next]_vars
  PROVE  /\ ~IssuesOne => Issues' \subseteq Issues
         /\ \A t \in Tab, s \in Store : Issue(t, s) =>
              Issues' \subseteq Issues \cup {<<tab[t].session.id, s>>}
<1> DEFINE Pair(x) == <<x.session, x.store>>
<1>1. ASSUME NEW d \in AllDeliveries'
      PROVE  Pair(d) \in Issues
  <2>1. CASE d \in AllDeliveries
    BY <2>1 DEF Issues
  <2>2. CASE d \notin AllDeliveries
    <3>1. PICK t \in Tab : d \in Deliveries(tab[t].plan)
      BY <1>1, <2>2, DeliverySources DEF PlanDeliveries
    <3>2. /\ d.session = tab[t].plan.session /\ d.store = tab[t].plan.store
          /\ tab[t].plan # NoPlan
      BY <3>1 DEF Deliveries, NoPlan
    <3>3. tab[t].plan \in Plans
      BY <3>2 DEF Plans
    <3>4. QED
      BY <3>2, <3>3 DEF Issues
  <2>3. QED
    BY <2>1, <2>2
<1>2. ASSUME NEW plan \in {journal, NoPlan} \cup {tab[t].plan : t \in Tab}, plan # NoPlan
      PROVE  Pair(plan) \in Issues
  BY <1>2 DEF Plans, Issues
<1>3. journal' \in {journal, NoPlan} \cup {tab[t].plan : t \in Tab}
  BY JournalAndMessages DEF vars, database
<1>4. ASSUME NEW J, \A plan \in Plans' : Pair(plan) \in Issues \cup J
      PROVE  Issues' \subseteq Issues \cup J
  <2>1. ASSUME NEW i \in Issues' PROVE i \in Issues \cup J
    <3>1. PICK x \in Plans' \cup AllDeliveries' : i = Pair(x)
      BY <2>1 DEF Issues
    <3>2. QED
      BY <1>1, <1>4, <3>1
  <2>2. QED
    BY <2>1
<1>5. ASSUME ~IssuesOne
      PROVE  Issues' \subseteq Issues
  <2>1. ASSUME NEW u \in Tab
        PROVE  tab'[u].plan \in {journal, NoPlan} \cup {tab[t].plan : t \in Tab}
    <3>1. CASE UNCHANGED vars
      BY <3>1 DEF vars
    <3>2. CASE Next /\ ~Begins /\ ~Admits
      BY <1>5, <3>2, OtherStepsKeep
    <3>3. ASSUME NEW t \in Tab, NEW s \in Session, StartGenesis(t, s)
          PROVE  tab'[u].plan = tab[u].plan
      BY <3>3, TabFields DEF StartGenesis, Memory, TypeInv, TabInv
    <3>4. ASSUME NEW t \in Tab, NEW r \in responses, Collect(t, r)
          PROVE  tab'[u].plan = tab[u].plan
      BY <3>4, TabFields DEF Collect, Memory, TypeInv, TabInv
    <3>5. QED
      BY <3>1, <3>2, <3>3, <3>4 DEF Begins, Admits
  <2>2. \A plan \in Plans' : Pair(plan) \in Issues
    BY <1>2, <1>3, <2>1 DEF Plans
  <2>3. Issues' \subseteq Issues \cup {}
    BY <1>4, <2>2
  <2>4. QED
    BY <2>3
<1>6. ASSUME NEW t \in Tab, NEW s \in Store, Issue(t, s)
      PROVE  Issues' \subseteq Issues \cup {<<tab[t].session.id, s>>}
  <2>1. /\ tab'[t].plan = [session |-> tab[t].session.id, store |-> s,
                           roster |-> tab[t].session.roster]
        /\ \A u \in Tab \ {t} : tab'[u] = tab[u]
    BY <1>6, TabFields DEF Issue, Memory, TypeInv, TabInv
  <2> DEFINE J == {<<tab[t].session.id, s>>}
  <2>2. Pair(tab'[t].plan) \in J
    BY <2>1
  <2>3. ASSUME NEW plan \in Plans'
        PROVE  Pair(plan) \in Issues \cup J
    <3>1. plan = tab'[t].plan \/ plan \in {journal, NoPlan} \cup {tab[u].plan : u \in Tab}
      BY <1>3, <2>1 DEF Plans
    <3>2. plan # NoPlan
      BY DEF Plans, NoPlan
    <3>3. QED
      BY <1>2, <2>2, <3>1, <3>2
  <2>4. QED
    BY <1>4, <2>3
<1>7. QED
  BY <1>5, <1>6

(* Whether a tab collects responses, told by the ceremony's id. *)
LEMMA SessionIds ==
  ASSUME TypeInv, NEW u \in Tab
  PROVE  tab[u].session # NoSession <=> tab[u].session.id # None
<1>1. tab[u].session \in Collecting \cup {NoSession}
  BY TabFields
<1>2. ASSUME NEW c \in Collecting PROVE c.id # None
  BY <1>2, DeviceAssumption DEF Collecting
<1>3. NoSession.id = None
  BY DEF NoSession
<1>4. QED
  BY <1>1, <1>2, <1>3

(* Only StartGenesis() gives a tab another ceremony. *)
LEMMA IdsStay ==
  ASSUME TypeInv, [Next]_vars, ~Begins, NEW u \in Tab
  PROVE  tab'[u].session.id \in {tab[u].session.id, None}
<1>0. tab \in [Tab -> Memory] /\ tab[u] \in Memory
  BY DEF TypeInv, TabInv
<1>1. CASE UNCHANGED vars
  BY <1>1 DEF vars
<1>2. ASSUME NEW t \in Tab, NEW r \in responses, Collect(t, r)
      PROVE  tab'[u].session.id = tab[u].session.id
  <2>2. tab'[t].session = [tab[t].session EXCEPT !.roster = @ \cup {r.from}]
    BY <1>0, <1>2 DEF Collect, Memory
  <2>3. tab[t].session \in Collecting \cup {NoSession}
    BY TabFields
  <2>4. tab'[t].session.id = tab[t].session.id
    BY <2>2, <2>3 DEF Collecting, NoSession
  <2>5. u # t => tab'[u] = tab[u]
    BY <1>0, <1>2 DEF Collect
  <2>6. QED
    BY <2>4, <2>5
<1>3. ASSUME NEW t \in Tab, NEW s \in Store, Issue(t, s)
      PROVE  tab'[u].session \in {tab[u].session, NoSession}
  BY <1>0, <1>3 DEF Issue, Memory
<1>4. CASE Next /\ ~Admits /\ ~IssuesOne
  BY <1>4, OtherStepsKeep DEF NoSession
<1>5. QED
  BY <1>1, <1>2, <1>3, <1>4 DEF Admits, IssuesOne, NoSession

(* A ceremony is issued by the tab that collected it, when nothing carries *)
(* its id yet, and the tab forgets it in the same step.                    *)
LEMMA IssueHolds ==
  ASSUME TypeInv, StepInv, RosterInv, IssueInv, [Next]_vars
  PROVE  IssueInv'
<1> DEFINE Id(u) == tab[u].session.id
           Apart == \A u \in Tab : Id(u) # None =>
                      /\ \A i \in Issues : i[1] # Id(u)
                      /\ \A v \in Tab \ {u} : Id(v) # Id(u)
<1>0. /\ \A i, j \in Issues : i[1] = j[1] => i[2] = j[2]
      /\ \A i \in Issues : i[1] \in requests
      /\ Apart
      /\ \A u \in Tab : Id(u) # None => Id(u) \in requests
      /\ requests \subseteq requests'
  <2>1. Apart /\ \A u \in Tab : Id(u) # None => Id(u) \in requests
    BY SessionIds DEF IssueInv, RosterInv, Answered
  <2>2. requests \subseteq requests'
    BY JournalAndMessages DEF vars, messages
  <2>3. QED
    BY <2>1, <2>2 DEF IssueInv
<1>1. ASSUME \A i, j \in Issues' : i[1] = j[1] => i[2] = j[2],
             \A i \in Issues' : i[1] \in requests',
             Apart'
      PROVE  IssueInv'
  <2>1. TypeInv'
    BY TypeHolds
  <2>2. \A u \in Tab : tab'[u].session # NoSession => tab'[u].session.id # None
    <3>1. ASSUME NEW u \in Tab PROVE tab'[u].session \in Collecting \cup {NoSession}
      BY <2>1 DEF TypeInv, TabInv, Memory
    <3>2. ASSUME NEW c \in Collecting PROVE c.id # None
      BY <3>2, DeviceAssumption DEF Collecting
    <3>3. QED
      BY <3>1, <3>2
  <2>3. QED
    BY <1>1, <2>2 DEF IssueInv
<1>2. CASE ~Begins /\ ~IssuesOne
  <2>1. Issues' \subseteq Issues
    BY <1>2, IssueSources
  <2>2. \A u \in Tab : tab'[u].session.id \in {Id(u), None}
    BY <1>2, IdsStay
  <2>3. Apart'
    BY <1>0, <2>1, <2>2
  <2>4. QED
    BY <1>0, <1>1, <2>1, <2>3
<1>3. ASSUME NEW t \in Tab, NEW s \in Session, StartGenesis(t, s)
      PROVE  IssueInv'
  <2>1. tab'[t].session = [id |-> s, roster |-> {Initiator}]
        /\ \A u \in Tab \ {t} : tab'[u] = tab[u]
    BY <1>3, TabFields DEF StartGenesis, Memory, TypeInv, TabInv
  <2>2. tab'[t].session.id = s
    BY <2>1
  <2>3. s \notin requests
    BY <1>3 DEF StartGenesis
  <2>4. Issues' \subseteq Issues
    <3>1. ~IssuesOne
      BY <1>3, DeviceAssumption DEF StartGenesis, IssuesOne, Issue
    <3>2. QED
      BY <3>1, IssueSources
  <2>5. Apart'
    BY <1>0, <2>1, <2>2, <2>3, <2>4
  <2>6. QED
    BY <1>0, <1>1, <2>4, <2>5
<1>4. ASSUME NEW t \in Tab, NEW s \in Store, Issue(t, s)
      PROVE  IssueInv'
  <2>1. tab'[t].session = NoSession /\ \A u \in Tab \ {t} : tab'[u] = tab[u]
    BY <1>4, TabFields DEF Issue, Memory, TypeInv, TabInv
  <2>2. tab'[t].session.id = None
    BY <2>1 DEF NoSession
  <2>3. Issues' \subseteq Issues \cup {<<Id(t), s>>}
    BY <1>4, IssueSources
  <2>4. Id(t) # None
    <3>1. tab[t].session # NoSession
      BY <1>4 DEF Issue, Issuable, NoSession
    <3>2. QED
      BY <3>1, SessionIds
  <2>5. Apart'
    BY <1>0, <2>1, <2>2, <2>3, <2>4
  <2>6. \A i \in Issues' : i[1] \in requests'
    BY <1>0, <2>3, <2>4
  <2>7. \A i, j \in Issues' : i[1] = j[1] => i[2] = j[2]
    BY <1>0, <2>3, <2>4
  <2>8. QED
    BY <1>1, <2>5, <2>6, <2>7
<1>5. QED
  BY <1>2, <1>3, <1>4 DEF Begins, IssuesOne

-----------------------------------------------------------------------------
(* Progress.                                                               *)

(* What a store has in the database it keeps: a row is replaced only by    *)
(* one for the same store, and only the initiator's catalog counts.        *)
LEMMA NothingIsLost ==
  ASSUME TypeInv, StepInv, ProgressInv, [Next]_vars, NEW s \in Store
  PROVE  /\ s \in saved => s \in saved'
         /\ roots[s] > 0 => roots'[s] > 0
         /\ heads[s] # {} => heads'[s] # {}
         /\ HasShare(s) => HasShare(s)'
<1> DEFINE Goal == /\ s \in saved => s \in saved'
                   /\ roots[s] > 0 => roots'[s] > 0
                   /\ heads[s] # {} => heads'[s] # {}
                   /\ HasShare(s) => HasShare(s)'
<1> USE DEF database, messages
<1>0. /\ roots \in [Store -> Nat] /\ heads \in [Store -> SUBSET Nat]
      /\ held \in [Device -> SUBSET Delivery]
  BY DEF TypeInv, DataInv
<1>1. ASSUME UNCHANGED <<saved, roots, heads, held>> PROVE Goal
  BY <1>1 DEF HasShare
<1>2. ASSUME NEW t \in Tab,
             \/ Open(t) \/ Close(t) \/ RequestFails(t) \/ CheckRoot(t) \/ StartRefused(t)
             \/ RetryFinalize(t) \/ FinalizeNothing(t) \/ CompleteDelivery(t)
             \/ SaveJournal(t) \/ ClearJournal(t)
             \/ \E x \in Session : StartGenesis(t, x)
             \/ \E r \in responses : Collect(t, r)
             \/ \E x \in Store : Issue(t, x)
             \/ \E d \in tab[t].shown : HandOver(t, d)
      PROVE  Goal
  <2>1. UNCHANGED <<saved, roots, heads, held>>
    BY <1>2 DEF Open, Close, RequestFails, CheckRoot, StartRefused, RetryFinalize,
                FinalizeNothing, CompleteDelivery, SaveJournal, ClearJournal,
                StartGenesis, Collect, Issue, HandOver
  <2>2. QED
    BY <1>1, <2>1
<1>3. ASSUME NEW t \in Tab, SaveProjection(t) PROVE Goal
  BY <1>3 DEF SaveProjection, HasShare
<1>4. ASSUME NEW t \in Tab, WriteRoot(t) PROVE Goal
  BY <1>0, <1>4 DEF WriteRoot, HasShare
<1>5. ASSUME NEW t \in Tab, SaveHeads(t) PROVE Goal
  <2>1. tab[t].heads # {}
    BY <1>5 DEF SaveHeads, ProgressInv, Progressed
  <2>2. QED
    BY <1>0, <1>5, <2>1 DEF SaveHeads, HasShare
<1>6. ASSUME NEW p \in Device, NEW d, held' = [held EXCEPT ![p] = Replacing(@, d)]
      PROVE  HasShare(s) => HasShare(s)'
  <2>1. CASE p # Initiator
    BY <1>0, <1>6, <2>1 DEF HasShare, Device
  <2>2. ASSUME p = Initiator
        PROVE  held'[Initiator] = {h \in held[Initiator] : h.store # d.store} \cup {d}
    BY <1>0, <1>6, <2>2 DEF Device, Replacing
  <2>3. CASE p = Initiator /\ d.store = s
    BY <2>2, <2>3 DEF HasShare
  <2>4. CASE p = Initiator /\ d.store # s
    BY <2>2, <2>4 DEF HasShare
  <2>5. QED
    BY <2>1, <2>3, <2>4
<1>7. ASSUME NEW t \in Tab, SaveOwnShare(t) PROVE Goal
  BY <1>6, <1>7 DEF SaveOwnShare, Device
<1>8. ASSUME NEW p \in Peer, NEW d \in handed, AcceptDelivery(p, d) \/ AcceptPackage(p, d)
      PROVE  Goal
  BY <1>6, <1>8 DEF AcceptDelivery, AcceptPackage, Device
<1>9. ASSUME NEW p \in Peer,
             PeerReloads(p) \/ \E x \in requests : Respond(p, x) \/ Remember(p, x)
      PROVE  Goal
  BY <1>1, <1>9 DEF PeerReloads, Respond, Remember
<1>10. CASE UNCHANGED vars
  BY <1>1, <1>10 DEF vars
<1>11. QED
  BY <1>2, <1>3, <1>4, <1>5, <1>7, <1>8, <1>9, <1>10 DEF Next, FinishStep

(* A finished vault stays finished, and so does what a tab has done. *)
LEMMA ProgressStays ==
  ASSUME TypeInv, StepInv, ProgressInv, [Next]_vars
  PROVE  /\ \A s \in Store : Done(s) => Done(s)'
         /\ \A u \in Tab : tab'[u] = tab[u] => Progressed(tab[u])'
<1>1. \A s \in Store : Done(s) => Done(s)'
  BY NothingIsLost DEF Done, HasShare
<1>2. ASSUME NEW u \in Tab, tab'[u] = tab[u]
      PROVE  Progressed(tab[u])'
  <2> DEFINE s == tab[u].plan.store
  <2>1. tab[u].pc \in Steps => s \in Store
    BY TabFields DEF StepInv
  <2>2. \A d \in tab[u].shown : d.store \in Store
    BY TabFields DEF Delivery
  <2>3. Progressed(tab[u])
    BY DEF ProgressInv
  <2>4. tab[u].pc \in {"check", "root", "heads", "share", "clear"} => s \in saved'
    BY <2>1, <2>3, NothingIsLost DEF Progressed, Steps
  <2>5. tab[u].pc \in {"heads", "share", "clear"} => roots'[s] > 0
    BY <2>1, <2>3, NothingIsLost DEF Progressed, Steps
  <2>6. tab[u].pc \in {"share", "clear"} => heads'[s] # {}
    BY <2>1, <2>3, NothingIsLost DEF Progressed, Steps
  <2>7. tab[u].pc = "clear" => \E d \in held'[Initiator] : d.store = s
    BY <2>1, <2>3, NothingIsLost DEF Progressed, Steps, HasShare
  <2>8. ASSUME NEW d \in tab[u].shown PROVE Done(d.store)'
    <3>1. d.store \in Store /\ Done(d.store)
      BY <2>2, <2>3 DEF Progressed
    <3>2. QED
      BY <1>1, <3>1 DEF Done
  <2>9. QED
    BY <1>2, <2>3, <2>4, <2>5, <2>6, <2>7, <2>8 DEF Progressed, HasShare
<1>3. QED
  BY <1>1, <1>2

(* A share on its way, or with a participant, is a copy of one that was    *)
(* shown; a participant takes none but its own.                            *)
LEMMA SharesHold ==
  ASSUME TypeInv, StepInv, ProgressInv, [Next]_vars
  PROVE  SharesOfDoneVaults'
<1> USE DEF database, messages
<1>0. /\ handed \subseteq Delivery /\ held \in [Device -> SUBSET Delivery]
      /\ \A d \in handed : Done(d.store)
      /\ \A p \in Peer : \A d \in held[p] : d.to = p /\ Done(d.store)
  BY DEF TypeInv, DataInv, ProgressInv, SharesOfDoneVaults
<1>1. ASSUME NEW d \in Delivery, Done(d.store) PROVE Done(d.store)'
  <2>1. d.store \in Store
    BY DEF Delivery
  <2>2. QED
    BY <1>1, <2>1, ProgressStays DEF Done
<1>2. ASSUME handed' \subseteq handed, \A p \in Peer : held'[p] \subseteq held[p]
      PROVE  SharesOfDoneVaults'
  <2>1. ASSUME NEW d \in handed' PROVE Done(d.store)'
    BY <1>0, <1>1, <1>2
  <2>2. ASSUME NEW p \in Peer, NEW d \in held'[p] PROVE d.to = p /\ Done(d.store)'
    <3>1. d \in held[p] /\ d \in Delivery
      BY <1>0, <1>2, <2>2 DEF Device
    <3>2. QED
      BY <1>0, <1>1, <3>1
  <2>3. QED
    BY <2>1, <2>2 DEF SharesOfDoneVaults
<1>3. ASSUME NEW t \in Tab,
             \/ Open(t) \/ Close(t) \/ RequestFails(t) \/ CheckRoot(t) \/ StartRefused(t)
             \/ RetryFinalize(t) \/ FinalizeNothing(t) \/ CompleteDelivery(t)
             \/ SaveJournal(t) \/ SaveProjection(t) \/ WriteRoot(t) \/ SaveHeads(t)
             \/ ClearJournal(t)
             \/ \E s \in Session : StartGenesis(t, s)
             \/ \E r \in responses : Collect(t, r)
             \/ \E s \in Store : Issue(t, s)
      PROVE  SharesOfDoneVaults'
  <2>1. UNCHANGED <<handed, held>>
    BY <1>3 DEF Open, Close, RequestFails, CheckRoot, StartRefused, RetryFinalize,
                FinalizeNothing, CompleteDelivery, SaveJournal, SaveProjection, WriteRoot,
                SaveHeads, ClearJournal, StartGenesis, Collect, Issue
  <2>2. QED
    BY <1>2, <2>1
<1>4. ASSUME NEW t \in Tab, SaveOwnShare(t) PROVE SharesOfDoneVaults'
  <2>1. \A p \in Peer : held'[p] = held[p]
    BY <1>0, <1>4, DeviceAssumption DEF SaveOwnShare, Device
  <2>2. QED
    BY <1>2, <1>4, <2>1 DEF SaveOwnShare
<1>5. ASSUME NEW t \in Tab, NEW d \in tab[t].shown, HandOver(t, d) PROVE SharesOfDoneVaults'
  <2>1. d \in Delivery /\ Done(d.store)
    BY TabFields DEF ProgressInv, Progressed
  <2>2. ASSUME NEW e \in handed' PROVE Done(e.store)'
    BY <1>0, <1>1, <1>5, <2>1 DEF HandOver
  <2>3. ASSUME NEW p \in Peer, NEW e \in held'[p] PROVE e.to = p /\ Done(e.store)'
    <3>1. e \in held[p] /\ e \in Delivery
      BY <1>0, <1>5, <2>3 DEF HandOver, Device
    <3>2. QED
      BY <1>0, <1>1, <3>1
  <2>4. QED
    BY <2>2, <2>3 DEF SharesOfDoneVaults
<1>6. ASSUME NEW p \in Peer, NEW d \in handed, AcceptDelivery(p, d) \/ AcceptPackage(p, d)
      PROVE  SharesOfDoneVaults'
  <2>1. /\ UNCHANGED handed /\ d.to = p
        /\ held' = [held EXCEPT ![p] = Replacing(@, d)]
    BY <1>6 DEF AcceptDelivery, AcceptPackage, Addressed
  <2>2. ASSUME NEW e \in handed' PROVE Done(e.store)'
    BY <1>0, <1>1, <2>1
  <2>3. ASSUME NEW q \in Peer, NEW e \in held'[q] PROVE e.to = q /\ Done(e.store)'
    <3>1. \/ e \in held[q]
          \/ q = p /\ e = d
      BY <1>0, <2>1, <2>3 DEF Replacing, Device
    <3>2. e \in Delivery /\ e.to = q /\ Done(e.store)
      BY <1>0, <2>1, <3>1 DEF Device
    <3>3. QED
      BY <1>1, <3>2
  <2>4. QED
    BY <2>2, <2>3 DEF SharesOfDoneVaults
<1>7. ASSUME NEW p \in Peer,
             PeerReloads(p) \/ \E s \in requests : Respond(p, s) \/ Remember(p, s)
      PROVE  SharesOfDoneVaults'
  BY <1>2, <1>7 DEF PeerReloads, Respond, Remember
<1>8. CASE UNCHANGED vars
  BY <1>2, <1>8 DEF vars
<1>9. QED
  BY <1>3, <1>4, <1>5, <1>6, <1>7, <1>8 DEF Next, FinishStep

(* Each write is made when the ones before it have been, and the           *)
(* deliveries are shown when all of them have.                             *)
LEMMA ProgressHolds ==
  ASSUME TypeInv, StepInv, ProgressInv, [Next]_vars
  PROVE  ProgressInv'
<1> DEFINE Goal == \A u \in Tab : Progressed(tab[u])'
<1> USE DEF database, messages
<1>0. /\ tab \in [Tab -> Memory] /\ \A t \in Tab : tab[t] \in Memory /\ Progressed(tab[t])
      /\ roots \in [Store -> Nat] /\ heads \in [Store -> SUBSET Nat]
      /\ held \in [Device -> SUBSET Delivery]
  BY DEF TypeInv, TabInv, DataInv, ProgressInv
<1>1. ASSUME NEW t \in Tab, \A u \in Tab \ {t} : tab'[u] = tab[u], Progressed(tab[t])'
      PROVE  Goal
  BY <1>1, ProgressStays
<1>2. ASSUME NEW t \in Tab, \A u \in Tab \ {t} : tab'[u] = tab[u],
             tab'[t].pc \in {"closed", "idle", "journal", "project"},
             tab'[t].shown \subseteq tab[t].shown
      PROVE  Goal
  <2>1. ASSUME NEW d \in tab'[t].shown PROVE Done(d.store)'
    <3>1. d \in tab[t].shown /\ Progressed(tab[t])
      BY <1>0, <1>2, <2>1
    <3>2. d.store \in Store
      BY <3>1, TabFields DEF Delivery
    <3>3. Done(d.store)
      BY <3>1 DEF Progressed
    <3>4. QED
      BY <3>2, <3>3, ProgressStays DEF Done
  <2>2. Progressed(tab[t])'
    BY <1>2, <2>1 DEF Progressed
  <2>3. QED
    BY <1>1, <1>2, <2>2
<1>3. ASSUME UNCHANGED tab PROVE Goal
  BY <1>3, ProgressStays
<1> HIDE DEF Goal
<1>4. ASSUME NEW t \in Tab,
             \/ Open(t) \/ Close(t) \/ RequestFails(t) \/ StartRefused(t)
             \/ RetryFinalize(t) \/ FinalizeNothing(t) \/ CompleteDelivery(t)
             \/ SaveJournal(t)
      PROVE  Goal
  <2>1. \A u \in Tab \ {t} : tab'[u] = tab[u]
    BY <1>0, <1>4 DEF Open, Close, RequestFails, StartRefused,
                RetryFinalize, FinalizeNothing, CompleteDelivery, SaveJournal
  <2>2. /\ tab'[t].pc \in {"closed", "idle", "journal", "project"}
        /\ tab'[t].shown \subseteq tab[t].shown
    <3>1. CASE Open(t) /\ journal = NoPlan
      BY <1>0, <3>1 DEF Open, Memory
    <3>2. CASE Open(t) /\ journal # NoPlan
      BY <1>0, <3>2 DEF Open, Memory
    <3>3. CASE Close(t)
      BY <1>0, <3>3 DEF Close, Closed
    <3>4. CASE RequestFails(t)
      BY <1>0, <3>4 DEF RequestFails, Memory, Ended
    <3>5. CASE StartRefused(t) \/ RetryFinalize(t)
      BY <1>0, <3>5 DEF StartRefused, RetryFinalize, Memory
    <3>6. CASE FinalizeNothing(t) \/ CompleteDelivery(t) \/ SaveJournal(t)
      BY <1>0, <3>6 DEF FinalizeNothing, CompleteDelivery, SaveJournal, Memory
    <3>7. QED
      BY <1>4, <3>1, <3>2, <3>3, <3>4, <3>5, <3>6
  <2>3. QED
    BY <1>2, <2>1, <2>2
<1>5. ASSUME NEW t \in Tab, NEW s \in Session, StartGenesis(t, s) PROVE Goal
  <2>1. /\ \A u \in Tab \ {t} : tab'[u] = tab[u]
        /\ tab'[t].pc = "idle" /\ tab'[t].shown = tab[t].shown
    BY <1>0, <1>5 DEF StartGenesis, Memory
  <2>2. QED
    BY <1>2, <2>1
<1>6. ASSUME NEW t \in Tab, NEW r \in responses, Collect(t, r) PROVE Goal
  <2>1. /\ \A u \in Tab \ {t} : tab'[u] = tab[u]
        /\ tab'[t].pc = "idle" /\ tab'[t].shown = tab[t].shown
    BY <1>0, <1>6 DEF Collect, Memory
  <2>2. QED
    BY <1>2, <2>1
<1>7. ASSUME NEW t \in Tab, NEW s \in Store, Issue(t, s) PROVE Goal
  <2>1. /\ \A u \in Tab \ {t} : tab'[u] = tab[u]
        /\ tab'[t].pc = "journal" /\ tab'[t].shown = tab[t].shown
    BY <1>0, <1>7 DEF Issue, Memory
  <2>2. QED
    BY <1>2, <2>1
<1>8. ASSUME NEW t \in Tab, FinishStep(t), ~SaveJournal(t) PROVE Goal
  <2> DEFINE s == tab[t].plan.store
  <2>0. /\ tab[t].plan # NoPlan /\ s \in Store /\ Progressed(tab[t])
        /\ \A d \in tab[t].shown : d.store \in Store
    <3>1. tab[t].plan # NoPlan
      BY <1>8 DEF StepInv, Steps, FinishStep, SaveProjection, CheckRoot, WriteRoot,
                  SaveHeads, SaveOwnShare, ClearJournal
    <3>2. QED
      BY <1>0, <3>1, TabFields DEF Delivery
  <2>1. /\ s \in saved => s \in saved'
        /\ roots[s] > 0 => roots'[s] > 0
        /\ heads[s] # {} => heads'[s] # {}
    BY <2>0, NothingIsLost
  <2>2. ASSUME tab'[t].shown = tab[t].shown
        PROVE  \A d \in tab'[t].shown : Done(d.store)'
    <3>1. ASSUME NEW d \in tab[t].shown PROVE Done(d.store)'
      BY <2>0, <3>1, ProgressStays DEF Progressed, Done
    <3>2. QED
      BY <2>2, <3>1
  <2>3. CASE SaveProjection(t)
    <3>1. /\ \A u \in Tab \ {t} : tab'[u] = tab[u]
          /\ tab'[t].plan = tab[t].plan
          /\ tab'[t].pc = "check" /\ tab'[t].shown = tab[t].shown /\ s \in saved'
      BY <1>0, <2>3 DEF SaveProjection, Memory
    <3>2. Progressed(tab[t])'
      BY <2>2, <3>1 DEF Progressed
    <3>3. QED
      BY <1>1, <3>1, <3>2
  <2>4. CASE CheckRoot(t)
    <3>0. /\ \A u \in Tab \ {t} : tab'[u] = tab[u]
          /\ s \in saved
      BY <1>0, <2>0, <2>4 DEF CheckRoot, Progressed
    <3>1. CASE roots[s] = 0
      <4>1. /\ tab'[t].plan = tab[t].plan /\ tab'[t].pc = "root"
            /\ tab'[t].shown = tab[t].shown
        BY <1>0, <2>4, <3>1 DEF CheckRoot, Memory
      <4>2. Progressed(tab[t])'
        BY <2>1, <2>2, <3>0, <4>1 DEF Progressed
      <4>3. QED
        BY <1>1, <3>0, <4>2
    <3>2. CASE roots[s] = 1
      <4>1. /\ tab'[t].plan = tab[t].plan /\ tab'[t].pc = "heads"
            /\ tab'[t].heads = {1} /\ tab'[t].shown = tab[t].shown
        BY <1>0, <2>4, <3>2 DEF CheckRoot, Memory
      <4>2. Progressed(tab[t])'
        BY <2>1, <2>2, <3>0, <3>2, <4>1 DEF Progressed
      <4>3. QED
        BY <1>1, <3>0, <4>2
    <3>3. CASE roots[s] # 0 /\ roots[s] # 1
      <4>1. tab'[t].pc = "idle" /\ tab'[t].shown = tab[t].shown
        BY <1>0, <2>4, <3>3 DEF CheckRoot, Memory, Ended
      <4>2. QED
        BY <1>2, <3>0, <4>1
    <3>4. QED
      BY <3>1, <3>2, <3>3
  <2>5. CASE WriteRoot(t)
    <3>1. /\ \A u \in Tab \ {t} : tab'[u] = tab[u]
          /\ tab'[t].plan = tab[t].plan /\ tab'[t].pc = "heads"
          /\ tab'[t].heads = {roots[s] + 1} /\ tab'[t].shown = tab[t].shown
      BY <1>0, <2>5 DEF WriteRoot, Memory
    <3>2. s \in saved /\ roots'[s] > 0
      BY <1>0, <2>0, <2>5 DEF WriteRoot, Progressed
    <3>3. Progressed(tab[t])'
      BY <2>1, <2>2, <3>1, <3>2 DEF Progressed
    <3>4. QED
      BY <1>1, <3>1, <3>3
  <2>6. CASE SaveHeads(t)
    <3>1. /\ \A u \in Tab \ {t} : tab'[u] = tab[u]
          /\ tab'[t].plan = tab[t].plan /\ tab'[t].pc = "share"
          /\ tab'[t].shown = tab[t].shown
      BY <1>0, <2>6 DEF SaveHeads, Memory
    <3>2. s \in saved /\ roots[s] > 0 /\ heads'[s] # {}
      BY <1>0, <2>0, <2>6 DEF SaveHeads, Progressed
    <3>3. Progressed(tab[t])'
      BY <2>1, <2>2, <3>1, <3>2 DEF Progressed
    <3>4. QED
      BY <1>1, <3>1, <3>3
  <2>7. CASE SaveOwnShare(t)
    <3>1. /\ \A u \in Tab \ {t} : tab'[u] = tab[u]
          /\ tab'[t].plan = tab[t].plan /\ tab'[t].pc = "clear"
          /\ tab'[t].shown = tab[t].shown
      BY <1>0, <2>7 DEF SaveOwnShare, Memory
    <3>2. s \in saved /\ roots[s] > 0 /\ heads[s] # {}
      BY <2>0, <2>7 DEF SaveOwnShare, Progressed
    <3>3. PICK d \in Deliveries(tab[t].plan) :
            held' = [held EXCEPT ![Initiator] = Replacing(@, d)]
      BY <2>7 DEF SaveOwnShare
    <3>4. d \in held'[Initiator] /\ d.store = s
      BY <1>0, <3>3 DEF Deliveries, Replacing, Device
    <3>5. Progressed(tab[t])'
      BY <2>1, <2>2, <3>1, <3>2, <3>4 DEF Progressed, HasShare
    <3>6. QED
      BY <1>1, <3>1, <3>5
  <2>8. CASE ClearJournal(t)
    <3> DEFINE m == [Ended(tab[t]) EXCEPT !.session = NoSession, !.phase = "DeliveringShares",
                                          !.shown = Deliveries(tab[t].plan)]
    <3>1. tab' = [tab EXCEPT ![t] = m]
      BY <2>8 DEF ClearJournal
    <3>2. m.pc = "idle" /\ m.shown = Deliveries(tab[t].plan)
      BY <1>0 DEF Ended, Memory
    <3> HIDE DEF m
    <3>3. /\ \A u \in Tab \ {t} : tab'[u] = tab[u]
          /\ tab'[t].pc = "idle" /\ tab'[t].shown = Deliveries(tab[t].plan)
      BY <1>0, <3>1, <3>2
    <3>4. Done(s)
      BY <2>0, <2>8 DEF ClearJournal, Progressed, Done, HasShare
    <3>5. \A d \in tab'[t].shown : d.store = s
      BY <3>3 DEF Deliveries
    <3>6. \A d \in tab'[t].shown : Done(d.store)'
      BY <2>0, <3>4, <3>5, ProgressStays DEF Done
    <3>7. Progressed(tab[t])'
      BY <3>3, <3>6 DEF Progressed
    <3>8. QED
      BY <1>1, <3>3, <3>7
  <2>9. QED
    BY <1>8, <2>3, <2>4, <2>5, <2>6, <2>7, <2>8 DEF FinishStep
<1>9. ASSUME \/ \E t \in Tab : \E d \in tab[t].shown : HandOver(t, d)
             \/ \E p \in Peer :
                  \/ PeerReloads(p)
                  \/ \E s \in requests : Respond(p, s) \/ Remember(p, s)
                  \/ \E d \in handed : AcceptDelivery(p, d) \/ AcceptPackage(p, d)
             \/ UNCHANGED vars
      PROVE  Goal
  <2>1. UNCHANGED tab
    BY <1>9 DEF HandOver, PeerReloads, Respond, Remember, AcceptDelivery, AcceptPackage, vars
  <2>2. QED
    BY <1>3, <2>1
<1>10. Goal
  BY <1>4, <1>5, <1>6, <1>7, <1>8, <1>9 DEF Next
<1>11. QED
  BY <1>10, SharesHold DEF ProgressInv, Goal

-----------------------------------------------------------------------------
(* The theorems.                                                           *)

(* The inductive invariant holds at first, with every store empty and *)
(* every tab closed.                                                  *)
LEMMA InitHolds == Init => IInv
<1> SUFFICES ASSUME Init PROVE IInv
  OBVIOUS
<1>1. TypeInv
  <2>1. Closed \in Memory
    BY DEF Closed, Memory, Phase
  <2>2. TabInv
    BY <2>1 DEF Init, TabInv
  <2>3. DataInv
    BY DEF Init, DataInv
  <2>4. QED
    BY <2>2, <2>3 DEF TypeInv
<1>2. \A t \in Tab : /\ tab[t].pc = "closed" /\ tab[t].session = NoSession
                     /\ tab[t].plan = NoPlan /\ tab[t].shown = {}
  BY DEF Init, Closed
<1>3. StepInv
  BY <1>2 DEF StepInv, Steps
<1>4. RosterInv
  BY <1>2 DEF Init, RosterInv, Drawn
<1>5. IssueInv
  <2>1. Plans = {} /\ ShownDeliveries = {}
    BY <1>2 DEF Init, Plans, ShownDeliveries
  <2>2. HeldDeliveries = {} /\ handed = {}
    BY DEF Init, HeldDeliveries
  <2>3. Issues = {}
    BY <2>1, <2>2 DEF Issues, AllDeliveries
  <2>4. QED
    BY <1>2, <2>3 DEF IssueInv
<1>6. ProgressInv
  <2>1. \A t \in Tab : Progressed(tab[t])
    BY <1>2 DEF Progressed
  <2>2. SharesOfDoneVaults
    BY DEF Init, SharesOfDoneVaults, Device
  <2>3. QED
    BY <2>1, <2>2 DEF ProgressInv
<1>7. QED
  BY <1>1, <1>3, <1>4, <1>5, <1>6 DEF IInv

(* The invariant behind the three theorems below: the memory of a tab, the *)
(* journal, the database and the shares on their way always fit together.  *)
THEOREM CeremonyInvariant == Spec => []IInv
<1>1. IInv /\ [Next]_vars => IInv'
  BY TypeHolds, StepHolds, RosterHolds, IssueHolds, ProgressHolds DEF IInv
<1>2. QED
  BY InitHolds, <1>1, PTL DEF Spec

(* finalize_sentinel_genesis() issues a vault only for a full roster of    *)
(* participants who answered this very invitation, whatever responses      *)
(* arrive, and in whichever tab; every plan it journals is such a plan.    *)
THEOREM RosterIsFull == Spec => []FullRoster
<1>1. IInv => FullRoster
  BY DEF IInv, RosterInv, Drawn, Answered, FullRoster
<1>2. QED
  BY CeremonyInvariant, <1>1, PTL

(* A ceremony is issued once: a closed tab, a retry of the plan or a       *)
(* second tab never makes shares of the same ceremony for another store.   *)
THEOREM IssuedOnce == Spec => []OneIssuance
<1>1. IInv => OneIssuance
  <2> SUFFICES ASSUME IInv PROVE OneIssuance
    OBVIOUS
  <2> DEFINE Known(d) == <<d.session, d.store>> \in Issues
  <2>1. ASSUME NEW d \in AllDeliveries PROVE Known(d)
    BY DEF Issues
  <2>2. ASSUME NEW plan \in {journal} \cup {tab[t].plan : t \in Tab},
               NEW d \in Deliveries(plan)
        PROVE  Known(d)
    <3>1. d.session = plan.session /\ d.store = plan.store /\ plan.roster # {}
      BY DEF Deliveries
    <3>2. plan \in Plans
      BY <3>1 DEF Plans, NoPlan
    <3>3. QED
      BY <3>1, <3>2 DEF Issues
  <2>3. \A d \in Device : \A x \in held[d] : Known(x)
    BY <2>1 DEF AllDeliveries, HeldDeliveries
  <2>4. \A t \in Tab : \A x \in tab[t].shown : Known(x)
    BY <2>1 DEF AllDeliveries, ShownDeliveries
  <2>5. \A x \in handed : Known(x)
    BY <2>1 DEF AllDeliveries
  <2>6. \A i, j \in Issues : i[1] = j[1] => i[2] = j[2]
    BY DEF IInv, IssueInv
  <2>7. \A d, e : Known(d) /\ Known(e) /\ d.session = e.session => d.store = e.store
    BY <2>6
  <2> HIDE DEF Known
  <2>8. /\ \A x \in Deliveries(journal) : Known(x)
        /\ \A t \in Tab : \A x \in Deliveries(tab[t].plan) : Known(x)
    BY <2>2
  <2> DEFINE shown == UNION {tab[t].shown \cup Deliveries(tab[t].plan) : t \in Tab}
             all == (UNION {held[d] : d \in Device}) \cup handed \cup Deliveries(journal)
                    \cup shown
  <2>9. \A d \in all : Known(d)
    <3>1. \A x \in UNION {held[d] : d \in Device} : Known(x)
      BY <2>3
    <3>2. \A x \in shown : Known(x)
      BY <2>4, <2>8
    <3>3. QED
      BY <2>5, <2>8, <3>1, <3>2
  <2> HIDE DEF all
  <2>10. \A d, e \in all : d.session = e.session => d.store = e.store
    BY <2>7, <2>9
  <2>11. QED
    BY <2>10 DEF OneIssuance, all
<1>2. QED
  BY CeremonyInvariant, <1>1, PTL

(* complete_sentinel_genesis_finalization() makes its writes in the order  *)
(* that lets no share out before the vault it opens is complete, however   *)
(* often it is interrupted; and no participant stores another's share.     *)
THEOREM SharesComeLast == Spec => []SharesOfDoneVaults
<1>1. IInv => SharesOfDoneVaults
  BY DEF IInv, ProgressInv
<1>2. QED
  BY CeremonyInvariant, <1>1, PTL

-----------------------------------------------------------------------------
(* Roots: between the check and the write of one tab no other may write.   *)

RootInv ==
  /\ OneRoot
  /\ \A t \in Tab : tab[t].pc = "root" => roots[tab[t].plan.store] = 0

(* With one tab, a step keeps the root of a store with the plan that *)
(* signed it.                                                        *)
LEMMA RootHolds ==
  ASSUME \A t, u \in Tab : t = u, TypeInv, StepInv, RootInv, [Next]_vars
  PROVE  RootInv'
<1> USE DEF database
<1>0. /\ tab \in [Tab -> Memory] /\ roots \in [Store -> Nat]
      /\ \A t \in Tab : tab[t] \in Memory
      /\ \A s \in Store : roots[s] <= 1
  BY DEF TypeInv, TabInv, DataInv, RootInv, OneRoot
<1>1. ASSUME UNCHANGED roots, \A t \in Tab : tab'[t].pc # "root" PROVE RootInv'
  BY <1>0, <1>1 DEF RootInv, OneRoot
<1>2. ASSUME UNCHANGED <<roots, tab>> PROVE RootInv'
  BY <1>2 DEF RootInv, OneRoot
<1>3. ASSUME NEW t \in Tab,
             \/ Open(t) \/ Close(t) \/ RequestFails(t) \/ StartRefused(t)
             \/ RetryFinalize(t) \/ FinalizeNothing(t) \/ CompleteDelivery(t)
             \/ SaveJournal(t) \/ SaveProjection(t) \/ SaveHeads(t) \/ SaveOwnShare(t)
             \/ ClearJournal(t)
             \/ \E x \in Session : StartGenesis(t, x)
             \/ \E r \in responses : Collect(t, r)
             \/ \E x \in Store : Issue(t, x)
      PROVE  RootInv'
  <2>1. UNCHANGED roots
    BY <1>3 DEF Open, Close, RequestFails, StartRefused, RetryFinalize, FinalizeNothing,
                CompleteDelivery, SaveJournal, SaveProjection, SaveHeads, SaveOwnShare,
                ClearJournal, StartGenesis, Collect, Issue
  <2>2. tab'[t].pc # "root"
    <3>1. CASE Open(t)
      BY <1>0, <3>1 DEF Open, Memory
    <3>2. CASE Close(t)
      BY <1>0, <3>2 DEF Close, Closed
    <3>3. CASE RequestFails(t)
      BY <1>0, <3>3 DEF RequestFails, Ended, Memory
    <3>4. CASE StartRefused(t) \/ FinalizeNothing(t) \/ CompleteDelivery(t)
      BY <1>0, <3>4 DEF StartRefused, FinalizeNothing, CompleteDelivery, Memory
    <3>5. CASE RetryFinalize(t)
      BY <1>0, <3>5 DEF RetryFinalize, Memory
    <3>6. CASE SaveJournal(t) \/ SaveProjection(t) \/ SaveHeads(t) \/ SaveOwnShare(t)
      BY <1>0, <3>6 DEF SaveJournal, SaveProjection, SaveHeads, SaveOwnShare, Memory
    <3>7. CASE ClearJournal(t)
      BY <1>0, <3>7 DEF ClearJournal, Ended, Memory
    <3>8. ASSUME NEW x \in Session, StartGenesis(t, x) PROVE tab'[t].pc # "root"
      BY <1>0, <3>8 DEF StartGenesis, Memory
    <3>9. ASSUME NEW r \in responses, Collect(t, r) PROVE tab'[t].pc # "root"
      BY <1>0, <3>9 DEF Collect, Memory
    <3>10. ASSUME NEW x \in Store, Issue(t, x) PROVE tab'[t].pc # "root"
      BY <1>0, <3>10 DEF Issue, Memory
    <3>11. QED
      BY <1>3, <3>1, <3>2, <3>3, <3>4, <3>5, <3>6, <3>7, <3>8, <3>9, <3>10
  <2>3. QED
    BY <1>1, <2>1, <2>2
<1>4. ASSUME NEW t \in Tab, CheckRoot(t) PROVE RootInv'
  <2> DEFINE s == tab[t].plan.store
  <2>1. UNCHANGED roots
    BY <1>4 DEF CheckRoot
  <2>2. CASE roots[s] = 0
    <3>1. tab'[t].plan.store = s
      BY <1>0, <1>4, <2>2 DEF CheckRoot, Memory
    <3>2. QED
      BY <1>0, <2>1, <2>2, <3>1 DEF RootInv, OneRoot
  <2>3. CASE roots[s] = 1
    <3>1. tab'[t].pc # "root"
      BY <1>0, <1>4, <2>3 DEF CheckRoot, Memory
    <3>2. QED
      BY <1>1, <2>1, <3>1
  <2>4. CASE roots[s] # 0 /\ roots[s] # 1
    <3>1. tab'[t].pc # "root"
      BY <1>0, <1>4, <2>4 DEF CheckRoot, Ended, Memory
    <3>2. QED
      BY <1>1, <2>1, <3>1
  <2>5. QED
    BY <2>2, <2>3, <2>4
<1>5. ASSUME NEW t \in Tab, WriteRoot(t) PROVE RootInv'
  <2> DEFINE s == tab[t].plan.store
  <2>1. s \in Store
    BY <1>5, TabFields DEF WriteRoot, StepInv, Steps
  <2>2. roots[s] = 0 /\ roots' = [roots EXCEPT ![s] = roots[s] + 1]
    BY <1>5 DEF WriteRoot, RootInv
  <2>3. OneRoot'
    BY <1>0, <2>1, <2>2 DEF OneRoot
  <2>4. tab'[t].pc # "root"
    BY <1>0, <1>5 DEF WriteRoot, Memory
  <2>5. QED
    BY <2>3, <2>4 DEF RootInv
<1>6. ASSUME \/ \E t \in Tab : \E d \in tab[t].shown : HandOver(t, d)
             \/ \E p \in Peer :
                  \/ PeerReloads(p)
                  \/ \E s \in requests : Respond(p, s) \/ Remember(p, s)
                  \/ \E d \in handed : AcceptDelivery(p, d) \/ AcceptPackage(p, d)
             \/ UNCHANGED vars
      PROVE  RootInv'
  <2>1. UNCHANGED <<roots, tab>>
    BY <1>6 DEF HandOver, PeerReloads, Respond, Remember, AcceptDelivery, AcceptPackage, vars
  <2>2. QED
    BY <1>2, <2>1
<1>7. QED
  BY <1>3, <1>4, <1>5, <1>6 DEF Next, FinishStep

(* ensure_sentinel_genesis_event() never creates a second root, however    *)
(* often the plan is carried out again, when one tab is open at a time:    *)
(* its check and its write are two steps, and nothing excludes a second    *)
(* tab from passing the check in between.                                  *)
THEOREM OneTabOneRoot ==
  ASSUME \A t, u \in Tab : t = u
  PROVE  Spec => []OneRoot
<1>1. Init => RootInv
  BY DEF Init, RootInv, OneRoot, Closed
<1>2. IInv /\ RootInv /\ [Next]_vars => RootInv'
  BY RootHolds DEF IInv
<1>3. RootInv => OneRoot
  BY DEF RootInv
<1>4. QED
  BY CeremonyInvariant, <1>1, <1>2, <1>3, PTL DEF Spec
=============================================================================
