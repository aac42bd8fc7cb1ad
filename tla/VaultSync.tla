----------------------------- MODULE VaultSync -----------------------------
(***************************************************************************)
(* How a device publishes: the outbox of nook-wasm, kept in IndexedDB, and *)
(* the flush that works it off, one transaction or request at a time. A    *)
(* device is one browser tab with one provider. Its operations are queued, *)
(* so one runs at a time, but the tab may be closed between any two steps. *)
(*                                                                         *)
(* An outbox row is queued in a transaction after the one that commits the *)
(* event, and removed in two: the row is overwritten with an empty string, *)
(* then its id is taken out of the index.                                  *)
(***************************************************************************)
EXTENDS VaultReplication

VARIABLES
  index,     \* Device -> ids in the outbox index
  cleared,   \* Device -> ids in the index whose row is the empty string
  flush      \* Device -> the flush in progress: its stage and what is left

outbox == <<index, cleared>>

syncVars == <<events, store, provider, index, cleared, flush>>

NoFlush == [stage |-> "idle", left |-> {}]
Done == [stage |-> "repair", left |-> {}]

Flush == [stage : {"idle", "outbox", "repair"}, left : SUBSET Id]

SyncInit ==
  /\ Init
  /\ index = store
  /\ cleared = [d \in Device |-> {}]
  /\ flush = [d \in Device |-> NoFlush]

-----------------------------------------------------------------------------
(***************************************************************************)
(* Queueing. The tab may close before the outbox row of a committed event  *)
(* is indexed. Of a rotation, the checkpoint is queued first.              *)
(***************************************************************************)
Queue(d, ids) ==
  /\ index' = [index EXCEPT ![d] = @ \cup ids]
  /\ UNCHANGED <<cleared, flush>>

SignAndQueue(d, id, kind, subject) ==
  /\ flush[d] = NoFlush
  /\ Append(d, id, kind, subject)
  /\ \E queued \in {{}, {id}} : Queue(d, queued)

\* Mutant: the trigger is queued before the checkpoint.
QueuedPair_TriggerFirst(t, c) == {{}, {t}, {c, t}}

QueuedPair(t, c) == {{}, {c}, {c, t}}

RotateAndQueue(d, t, c, victim) ==
  /\ flush[d] = NoFlush
  /\ RevokeMember(d, t, c, victim)
  /\ \E queued \in QueuedPair(t, c) : Queue(d, queued)

Merge(d, seen) ==
  /\ flush[d] = NoFlush
  /\ Pull(d, seen)
  /\ UNCHANGED <<index, cleared, flush>>

-----------------------------------------------------------------------------
(***************************************************************************)
(* Flushing. The flush first works off the outbox, dropping the rows of    *)
(* events that the store no longer holds, and then publishes whatever else *)
(* of the store the provider lacks. Both lists are sorted by publishing    *)
(* priority and then by id; ids are hashes, so any order within a priority *)
(* can occur. Sorting parses every row: a flush that finds an empty row    *)
(* fails before it has written anything.                                   *)
(***************************************************************************)
Readable(d) == cleared[d] = {}

StartFlush(d) ==
  /\ flush[d] = NoFlush
  /\ store[d] # {}
  /\ Readable(d)
  /\ flush' = [flush EXCEPT ![d] = [stage |-> "outbox", left |-> index[d]]]
  /\ UNCHANGED <<events, store, provider, outbox>>

NextToPublish(d) ==
  {e \in flush[d].left :
     \A f \in flush[d].left :
       PublishPriority(events[e]) <= PublishPriority(events[f])}

Put(d, e) ==
  /\ e \in NextToPublish(d)
  /\ e \in store[d]
  /\ e \notin provider
  /\ provider' = provider \cup {e}
  /\ UNCHANGED <<events, store, outbox, flush>>

(* The put succeeded or found the event, or the row is of no stored event. *)
ClearRow(d, e) ==
  /\ flush[d].stage = "outbox"
  /\ e \in NextToPublish(d)
  /\ e \in store[d] => e \in provider
  /\ e \notin cleared[d]
  /\ cleared' = [cleared EXCEPT ![d] = @ \cup {e}]
  /\ UNCHANGED <<events, store, provider, index, flush>>

DropFromIndex(d, e) ==
  /\ flush[d].stage = "outbox"
  /\ e \in NextToPublish(d) \cap cleared[d]
  /\ index' = [index EXCEPT ![d] = @ \ {e}]
  /\ cleared' = [cleared EXCEPT ![d] = @ \ {e}]
  /\ flush' = [flush EXCEPT ![d].left = @ \ {e}]
  /\ UNCHANGED <<events, store, provider>>

\* Mutant: only queued events are published.
StartRepair_QueuedOnly(d) ==
  /\ flush[d].stage = "outbox"
  /\ flush[d].left = {}
  /\ flush' = [flush EXCEPT ![d] = [stage |-> "repair", left |-> {}]]
  /\ UNCHANGED <<events, store, provider, outbox>>

(* The code lists the provider when the flush starts; an event published   *)
(* by another device since then is put again, which changes nothing.       *)
StartRepair(d) ==
  /\ flush[d].stage = "outbox"
  /\ flush[d].left = {}
  /\ flush' = [flush EXCEPT ![d] =
                 [stage |-> "repair", left |-> store[d] \ provider]]
  /\ UNCHANGED <<events, store, provider, outbox>>

Repaired(d, e) ==
  /\ flush[d].stage = "repair"
  /\ e \in NextToPublish(d) \cap provider
  /\ flush' = [flush EXCEPT ![d].left = @ \ {e}]
  /\ UNCHANGED <<events, store, provider, outbox>>

FinishFlush(d) ==
  /\ flush[d] = Done
  /\ flush' = [flush EXCEPT ![d] = NoFlush]
  /\ UNCHANGED <<events, store, provider, outbox>>

(* A provider request fails, or the tab is closed. *)
Fail(d) ==
  /\ flush[d] \notin {NoFlush, Done}
  /\ cleared[d] = {}
  /\ flush' = [flush EXCEPT ![d] = NoFlush]
  /\ UNCHANGED <<events, store, provider, outbox>>

(* The tab is closed between the two transactions that remove a row. *)
CloseDuringRemoval(d) ==
  /\ flush[d] # NoFlush
  /\ cleared[d] # {}
  /\ flush' = [flush EXCEPT ![d] = NoFlush]
  /\ UNCHANGED <<events, store, provider, outbox>>

FlushStep(d) ==
  \/ \E e \in Id : \/ Put(d, e)
                   \/ ClearRow(d, e)
                   \/ DropFromIndex(d, e)
                   \/ Repaired(d, e)
  \/ StartRepair(d)
  \/ FinishFlush(d)

SyncNext ==
  \/ \E d \in Device :
       \/ \E id \in Id, kind \in AppendKind, subject \in Device :
            SignAndQueue(d, id, kind, subject)
       \/ \E t, c \in Id, victim \in Device : RotateAndQueue(d, t, c, victim)
       \/ \E seen \in SUBSET Id : Merge(d, seen)
       \/ StartFlush(d)
       \/ FlushStep(d)
       \/ Fail(d)
       \/ CloseDuringRemoval(d)
  \/ \E id \in Id, d \in Device, parents \in SUBSET Id :
       Stray(id, d, parents) /\ UNCHANGED <<outbox, flush>>

SyncSpec == SyncInit /\ [][SyncNext]_syncVars

(***************************************************************************)
(* The application synchronizes on a timer for as long as it is open       *)
(* (sync-schedule.ts): it starts a flush again and again, a flush goes on  *)
(* unless it fails, which happens finitely often, and a complete read      *)
(* eventually happens.                                                     *)
(***************************************************************************)
ReadAll(d) == Merge(d, provider \ store[d])

(* What enables a step of ReadAll(d) that changes the store. *)
CanReadAll(d) ==
  /\ flush[d] = NoFlush
  /\ LET S == UnionRemote(events, store[d], provider \ store[d])
     IN  MayCommit(events, S) /\ S # store[d]

Fairness ==
  /\ <>[][\A d \in Device : ~Fail(d)]_syncVars
  /\ \A d \in Device :
       /\ WF_syncVars(StartFlush(d) /\ ~(store[d] \subseteq provider))
       /\ WF_syncVars(FlushStep(d))
       /\ []<>CanReadAll(d) => []<><<ReadAll(d)>>_syncVars

-----------------------------------------------------------------------------
(***************************************************************************)
(* Correctness.                                                            *)
(***************************************************************************)

(* Type invariant of the outbox and the flush. What a flush has left of    *)
(* the outbox is still indexed, so a flush that is cut short forgets       *)
(* nothing (PublishedOutboxEvent::acknowledge comes after the put).        *)
SyncTypeOK ==
  /\ TypeOK
  /\ index \in [Device -> SUBSET DOMAIN events]
  /\ DOMAIN cleared = Device
  /\ \A d \in Device : cleared[d] \subseteq index[d]
  /\ flush \in [Device -> Flush]
  /\ \A d \in Device :
       /\ flush[d].left \subseteq DOMAIN events
       /\ flush[d].stage = "outbox" => flush[d].left \subseteq index[d]

(***************************************************************************)
(* Publishing through the outbox and the repair pass implements the        *)
(* replication of VaultReplication: in particular, wherever a flush is cut *)
(* short, a trigger is published only after its checkpoint                 *)
(* (RemoteEventWrites::order and the order of queueing).                   *)
(***************************************************************************)
ImplementsReplication == Spec

(***************************************************************************)
(* Devices converge: once no more events are signed, every store ends up   *)
(* with what a new device would accept from the provider, and every stored *)
(* event is at the provider, unless the provider holds a security conflict *)
(* (which blocks merging until recovery). A device whose tab was closed    *)
(* while a row was being removed is left out: see EveryEventPublished.     *)
(***************************************************************************)
Settled ==
  LET all == UnionRemote(events, {}, provider)
  IN  \/ SecurityConflicts(events, all) # {}
      \/ \A d \in Device :
           Readable(d) => store[d] = all /\ store[d] \subseteq provider

Converges == <>[]Settled

(***************************************************************************)
(* Retrying works: an event in a durable store is eventually at the        *)
(* provider, since a flush uploads what is queued and then repairs the     *)
(* provider with the rest of the store (flush_event_outbox).               *)
(***************************************************************************)
EveryEventPublished ==
  \A d \in Device, e \in Id : e \in store[d] ~> e \in provider
=============================================================================
