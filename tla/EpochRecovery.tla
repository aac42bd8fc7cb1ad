--------------------------- MODULE EpochRecovery ---------------------------
(***************************************************************************)
(* Rotating the key epoch of one device's vault, across crashes and tabs.  *)
(* The tabs share the browser's database: the event store, the recovery    *)
(* marker and the identity directory. Every database transaction is a step *)
(* of its own; between two steps of a tab the other tabs run, and the tab  *)
(* may be closed. What a tab holds in memory (keys, epoch label, records)  *)
(* is as old as its last refresh.                                          *)
(*                                                                         *)
(* Event ids are drawn in the order of creation. An event carries its      *)
(* causal past; a rotation is a trigger with its checkpoint, which writes  *)
(* the records of the vault anew under the key that the trigger names. A   *)
(* record is the content event that created it. Other members reach the    *)
(* device through Sync; the vault is a Simple vault and this device stays  *)
(* a member.                                                               *)
(***************************************************************************)
EXTENDS Naturals, FiniteSets, FiniteSetsExt

CONSTANTS
  Tab,          \* tabs of the browser
  MaxEvents,    \* bound: once so many ids are drawn, only heads are merged
  MaxCrashes,   \* bound: tabs closed in the middle of something
  StartRotated  \* whether the history starts with a rotation behind it

ASSUME EventsAssumption == MaxEvents \in Nat /\ MaxEvents >= 3
ASSUME CrashesAssumption == MaxCrashes \in Nat
ASSUME StartAssumption == StartRotated \in BOOLEAN

VARIABLES
  events,    \* the event store
  drawn,     \* ids drawn so far, those of plans that were never committed too
  marker,    \* the recovery marker
  identity,  \* the epoch that the identity directory records for the vault
  session,   \* Tab -> what the tab holds in memory
  crashes

vars == <<events, drawn, marker, identity, session, crashes>>

Id == 1..(2 * MaxEvents)   \* a merge follows at least one other event
InitialEpoch == 0     \* derived from the vault id, not the id of an event
Epoch == Id \cup {InitialEpoch}
NoMarker == [stage |-> "None"]

-----------------------------------------------------------------------------
(***************************************************************************)
(* The event store, a function from ids to events.                         *)
(***************************************************************************)
HeadsOf(E) == {x \in DOMAIN E : \A y \in DOMAIN E : x \notin E[y].past}

(* The events that x dominates, x included. *)
Ancestors(E, x) == E[x].past \cup {x}

Put(E, x, e) == [y \in DOMAIN E \cup {x} |-> IF y = x THEN e ELSE E[y]]

Created(author, kind, past, label, key, carries) ==
  [author |-> author, kind |-> kind, past |-> past, label |-> label, key |-> key,
   carries |-> carries]

PairOf(plan) ==
  <<Created(plan.author, "Trigger", plan.past, plan.previousEpoch, plan.trigger, {}),
    Created(plan.author, "Checkpoint", plan.past \cup {plan.trigger}, plan.trigger,
            plan.trigger, plan.carries)>>

(* The last event of the topological order labels the projected epoch. *)
ProjectedEpoch(E) == E[Max(DOMAIN E)].label

(* The envelopes of the last checkpoint hold the current key. *)
CurrentKey(E) ==
  Max({InitialEpoch} \cup {E[x].key : x \in {y \in DOMAIN E : E[y].kind = "Checkpoint"}})

(* The key under which the projection holds each record. *)
RecordKeys(E) ==
  [c \in {x \in DOMAIN E : E[x].kind = "Content"} |->
     E[Max({c} \cup {x \in DOMAIN E : c \in E[x].carries})].key]

-----------------------------------------------------------------------------
(***************************************************************************)
(* A session. pc names what the tab does next; the fields from resumes on  *)
(* are the locals of the operation under way.                              *)
(***************************************************************************)
NoPlan == [trigger |-> 0]
Nothing == [epoch |-> InitialEpoch]

Closed ==
  [pc |-> "closed", epoch |-> InitialEpoch, key |-> InitialEpoch,
   records |-> [c \in {} |-> InitialEpoch], resumes |-> FALSE,
   plan |-> NoPlan, loaded |-> Nothing, seen |-> Nothing,
   update |-> Nothing, consumes |-> NoMarker]

Opened(E) ==
  [Closed EXCEPT !.pc = "idle", !.epoch = ProjectedEpoch(E),
                 !.key = CurrentKey(E), !.records = RecordKeys(E)]

Goto(t, pc) == session' = [session EXCEPT ![t].pc = pc]

(* reset_vault_session() *)
Reset(t) == session' = [session EXCEPT ![t] = Closed]

Root == Created("other", "Root", {}, InitialEpoch, InitialEpoch, {})

FirstPlan ==
  [author |-> "other", trigger |-> 2, checkpoint |-> 3, past |-> {1}, parents |-> {1},
   previousEpoch |-> InitialEpoch, carries |-> {}]

Init ==
  /\ events = IF StartRotated
                THEN Put(Put(Put([x \in {} |-> Root], 1, Root),
                             2, PairOf(FirstPlan)[1]), 3, PairOf(FirstPlan)[2])
                ELSE Put([x \in {} |-> Root], 1, Root)
  /\ drawn = Cardinality(DOMAIN events)
  /\ marker = NoMarker
  /\ identity = [epoch |-> ProjectedEpoch(events), checkpoint |-> Max(DOMAIN events)]
  /\ session = [t \in Tab |-> Opened(events)]
  /\ crashes = 0

-----------------------------------------------------------------------------
(***************************************************************************)
(* Ordinary work of an open tab.                                           *)
(***************************************************************************)

(***************************************************************************)
(* append_vault_operations(): the parents are the heads in the database,   *)
(* the key and the label are the tab's. The append re-reads the heads in   *)
(* its transaction, and an append that finds others fails without effect.  *)
(***************************************************************************)
AppendEvent(t, kind) ==
  /\ drawn' = drawn + 1
  /\ events' = Put(events, drawn + 1,
                   Created("self", kind, DOMAIN events, session[t].epoch, session[t].key, {}))
  /\ session' = [session EXCEPT ![t].records = RecordKeys(events')]

AddSecret(t) ==
  /\ session[t].pc = "idle"
  /\ drawn < MaxEvents
  /\ AppendEvent(t, "Content")
  /\ UNCHANGED <<marker, identity, crashes>>

(* ensure_causal_event_checkpoint() on several heads *)
MergeHeads(t) ==
  /\ session[t].pc \in {"idle", "observe"}
  /\ Cardinality(HeadsOf(events)) > 1
  /\ AppendEvent(t, "Merge")
  /\ UNCHANGED <<marker, identity, crashes>>

(***************************************************************************)
(* sync_events_from_current_provider(): the provider may hold an event     *)
(* that another member wrote with the events in `past` before it, or a     *)
(* rotation. union_remote refuses what would be concurrent with a rotation *)
(* already held. The tab then adopts the projected epoch and its keys.     *)
(***************************************************************************)
Rotations(E) == {x \in DOMAIN E : E[x].kind \in {"Trigger", "Checkpoint"}}

MaySync(t) == session[t].pc \in {"idle", "connecting"}

Refreshed(t, E) ==
  [session EXCEPT ![t].epoch = ProjectedEpoch(E), ![t].key = CurrentKey(E),
                  ![t].records = RecordKeys(E)]

SyncContent(t, past) ==
  /\ MaySync(t)
  /\ drawn < MaxEvents
  /\ past # {} /\ \A x \in past : events[x].past \subseteq past
  /\ Rotations(events) \subseteq past
  /\ drawn' = drawn + 1
  /\ \E E \in {[x \in past |-> events[x]]} :
       events' = Put(events, drawn + 1,
                     Created("other", "Content", past, ProjectedEpoch(E), CurrentKey(E), {}))
  /\ session' = Refreshed(t, events')
  /\ UNCHANGED <<marker, identity, crashes>>

SyncRotation(t) ==
  /\ MaySync(t)
  /\ drawn + 2 <= MaxEvents
  /\ drawn' = drawn + 2
  /\ \E pair \in {PairOf([author |-> "other",
                          trigger |-> drawn + 1, checkpoint |-> drawn + 2,
                          past |-> DOMAIN events,
                          previousEpoch |-> ProjectedEpoch(events),
                          carries |-> DOMAIN RecordKeys(events)])} :
       events' = Put(Put(events, drawn + 1, pair[1]), drawn + 2, pair[2])
  /\ session' = Refreshed(t, events')
  /\ UNCHANGED <<marker, identity, crashes>>

SyncNothing(t) ==
  /\ MaySync(t)
  /\ session' = Refreshed(t, events)
  /\ UNCHANGED <<events, drawn, marker, identity, crashes>>

-----------------------------------------------------------------------------
(***************************************************************************)
(* A rotation. The new records are those the tab holds, decrypted with the *)
(* tab's key; the frontier is read from the database.                      *)
(***************************************************************************)
Prepare(t) ==
  /\ session[t].pc = "idle"
  /\ drawn + 2 <= MaxEvents
  /\ \A c \in DOMAIN session[t].records : session[t].records[c] = session[t].key
  /\ Cardinality(HeadsOf(events)) = 1
  /\ drawn' = drawn + 2
  /\ session' = [session EXCEPT
       ![t].pc = "mark",
       ![t].plan = [author |-> "self",
                    trigger |-> drawn + 1, checkpoint |-> drawn + 2,
                    past |-> DOMAIN events, parents |-> HeadsOf(events),
                    previousEpoch |-> session[t].epoch,
                    carries |-> DOMAIN session[t].records]]
  /\ UNCHANGED <<events, marker, identity, crashes>>

(* mark(): one pending rotation at a time *)
Mark(t) ==
  /\ session[t].pc = "mark"
  /\ IF marker = NoMarker
       THEN /\ marker' = [stage |-> "Prepared", plan |-> session[t].plan]
            /\ Goto(t, "append")
       ELSE Goto(t, "idle") /\ UNCHANGED marker
  /\ UNCHANGED <<events, drawn, identity, crashes>>

(***************************************************************************)
(* append_epoch_pair(): both events or none, and only on the frontier that *)
(* the plan was made for. A pair that is there already is no error.        *)
(***************************************************************************)
\* Mutant: the frontier is not compared with the plan's.
PairFits_Anywhere(E, plan) == TRUE

PairFits(E, plan) == plan.trigger \in DOMAIN E \/ HeadsOf(E) = plan.parents

\* Mutant: the trigger is written, its checkpoint is left for later.
AppendPair_TriggerOnly(t) ==
  /\ session[t].pc = "append"
  /\ \E plan \in {session[t].plan} :
       IF PairFits(events, plan)
         THEN events' = Put(events, plan.trigger, PairOf(plan)[1]) /\ Goto(t, "load")
         ELSE Goto(t, "abort") /\ UNCHANGED events
  /\ UNCHANGED <<drawn, marker, identity, crashes>>

AppendPair(t) ==
  /\ session[t].pc = "append"
  /\ \E plan \in {session[t].plan} :
       IF PairFits(events, plan)
         THEN /\ events' = Put(Put(events, plan.trigger, PairOf(plan)[1]),
                               plan.checkpoint, PairOf(plan)[2])
              /\ Goto(t, "load")
         ELSE Goto(t, "abort") /\ UNCHANGED events
  /\ UNCHANGED <<drawn, marker, identity, crashes>>

(***************************************************************************)
(* abort(): removes the marker only while it still announces this plan. A  *)
(* resumed rotation fails the connect, a fresh one leaves the tab open.    *)
(***************************************************************************)
\* Mutant: the marker stays.
Abort_KeepsMarker(t) ==
  /\ session[t].pc = "abort"
  /\ IF session[t].resumes THEN Reset(t)
       ELSE session' = [session EXCEPT ![t].pc = "idle", ![t].plan = NoPlan]
  /\ UNCHANGED <<events, drawn, marker, identity, crashes>>

Abort(t) ==
  /\ session[t].pc = "abort"
  /\ marker' = IF marker = [stage |-> "Prepared", plan |-> session[t].plan]
                 THEN NoMarker ELSE marker
  /\ IF session[t].resumes THEN Reset(t)
       ELSE session' = [session EXCEPT ![t].pc = "idle", ![t].plan = NoPlan]
  /\ UNCHANGED <<events, drawn, identity, crashes>>

(* complete(): what the store projects decides how the rotation is taken. *)
LoadProjection(t) ==
  /\ session[t].pc = "load"
  /\ session' = [session EXCEPT
       ![t].pc = "epoch",
       ![t].loaded = [epoch |-> ProjectedEpoch(events), key |-> CurrentKey(events)]]
  /\ UNCHANGED <<events, drawn, marker, identity, crashes>>

Advanced(t) == session[t].loaded.epoch # session[t].plan.trigger

Adopt(t, pc, epoch, key) ==
  session' = [session EXCEPT ![t].pc = pc, ![t].epoch = epoch, ![t].key = key,
                             ![t].records = RecordKeys(events)]

(***************************************************************************)
(* commit_epoch(): a prepared marker of any plan takes the epoch. Without  *)
(* an advance the tab then uses the keys of the plan.                      *)
(***************************************************************************)
CommitEpoch(t) ==
  /\ session[t].pc = "epoch"
  /\ \E trigger \in {session[t].plan.trigger} :
       IF \/ marker.stage = "Prepared"
          \/ marker.stage = "EpochCommitted" /\ marker.epoch = trigger
         THEN /\ marker' = [stage |-> "EpochCommitted", plan |-> marker.plan,
                            epoch |-> trigger]
              /\ IF Advanced(t) THEN Goto(t, "checkpoint")
                   ELSE Adopt(t, "checkpoint", trigger, trigger)
         ELSE Reset(t) /\ UNCHANGED marker
  /\ UNCHANGED <<events, drawn, identity, crashes>>

\* Mutant: the marker is dropped with the checkpoint, before the identity.
CommitCheckpoint_Clears(t) ==
  /\ session[t].pc = "checkpoint"
  /\ marker' = NoMarker
  /\ Goto(t, "observe")
  /\ UNCHANGED <<events, drawn, identity, crashes>>

(* commit_checkpoint() *)
CommitCheckpoint(t) ==
  /\ session[t].pc = "checkpoint"
  /\ \E plan \in {session[t].plan} :
       IF \/ marker.stage = "EpochCommitted" /\ marker.epoch = plan.trigger
          \/ /\ marker.stage = "Committed"
             /\ marker.epoch = plan.trigger
             /\ marker.checkpoint = plan.checkpoint
         THEN /\ marker' = IF marker.stage = "Committed" THEN marker
                             ELSE [stage |-> "Committed", epoch |-> plan.trigger,
                                   checkpoint |-> plan.checkpoint,
                                   previousEpoch |-> marker.plan.previousEpoch]
              /\ IF Advanced(t)
                   THEN Adopt(t, "observe", session[t].loaded.epoch, session[t].loaded.key)
                   ELSE Goto(t, "observe")
         ELSE Reset(t) /\ UNCHANGED marker
  /\ UNCHANGED <<events, drawn, identity, crashes>>

-----------------------------------------------------------------------------
(***************************************************************************)
(* ensure_identity_after_connect(): what the tab has seen of the vault is  *)
(* read first, then the marker, then the directory is written, then the    *)
(* marker that was used is cleared.                                        *)
(***************************************************************************)
Observe(t) ==
  /\ session[t].pc = "observe"
  /\ \E h \in Id :
       /\ HeadsOf(events) = {h}
       /\ session' = [session EXCEPT
            ![t].pc = "resolve",
            ![t].seen = [epoch |-> session[t].epoch, head |-> h,
                         ancestors |-> Ancestors(events, h)]]
  /\ UNCHANGED <<events, drawn, marker, identity, crashes>>

(* The epoch before the seen one, when the log names it. *)
VerifiedPrevious(seen) ==
  {events[x].label : x \in {seen.epoch} \cap seen.ancestors} \ {seen.epoch}

Rotation(previous, seen) ==
  [how |-> "Rotate", previous |-> previous, epoch |-> seen.epoch,
   checkpoint |-> seen.head, ancestors |-> seen.ancestors]

Observation(seen) ==
  [how |-> "Observe", epoch |-> seen.epoch, checkpoint |-> seen.head,
   ancestors |-> seen.ancestors]

Resolve(t) ==
  /\ session[t].pc = "resolve"
  /\ \E seen \in {session[t].seen} :
       \/ /\ marker.stage = "None"
          /\ \E update \in IF VerifiedPrevious(seen) = {} THEN {Observation(seen)}
                           ELSE {Rotation(p, seen) : p \in VerifiedPrevious(seen)} :
               session' = [session EXCEPT ![t].pc = "persist", ![t].update = update,
                                          ![t].consumes = NoMarker]
       \/ /\ marker.stage = "Committed"
          /\ {marker.epoch, marker.checkpoint} \subseteq seen.ancestors
          /\ session' = [session EXCEPT
               ![t].pc = "persist", ![t].consumes = marker,
               ![t].update = Rotation(marker.previousEpoch, seen)]
       \/ /\ \/ marker.stage \in {"Prepared", "EpochCommitted"}
             \/ /\ marker.stage = "Committed"
                /\ ~({marker.epoch, marker.checkpoint} \subseteq seen.ancestors)
          /\ Reset(t)
  /\ UNCHANGED <<events, drawn, marker, identity, crashes>>

(***************************************************************************)
(* next_epoch(): the directory moves only along the causal history.        *)
(***************************************************************************)
\* Mutant: the recorded checkpoint is not looked for in the history.
Accepts_AnyCheckpoint(current, update) ==
  \/ current.epoch = update.epoch
  \/ /\ update.how = "Rotate"
     /\ current.epoch \in update.ancestors \cup {update.previous}

Accepts(current, update) ==
  LET same == /\ current.epoch = update.epoch
              /\ current.checkpoint \in update.ancestors \cup {update.checkpoint}
  IN  \/ same
      \/ /\ update.how = "Rotate"
         /\ current.epoch \in update.ancestors \cup {update.previous}
         /\ current.checkpoint \in update.ancestors

Persist(t) ==
  /\ session[t].pc = "persist"
  /\ \E update \in {session[t].update} :
       IF Accepts(identity, update)
         THEN /\ identity' = [epoch |-> update.epoch, checkpoint |-> update.checkpoint]
              /\ Goto(t, "clear")
         ELSE Reset(t) /\ UNCHANGED identity
  /\ UNCHANGED <<events, drawn, marker, crashes>>

(* clear_consumed(); after a resumed rotation the connect observes again. *)
ClearConsumed(t) ==
  /\ session[t].pc = "clear"
  /\ marker' = IF marker = session[t].consumes THEN NoMarker ELSE marker
  /\ session' = [session EXCEPT
       ![t] = [Closed EXCEPT !.pc = IF session[t].resumes THEN "observe" ELSE "idle",
                             !.epoch = session[t].epoch, !.key = session[t].key,
                             !.records = session[t].records]]
  /\ UNCHANGED <<events, drawn, identity, crashes>>

-----------------------------------------------------------------------------
(***************************************************************************)
(* Tabs are closed at any time, and opened again: the connect syncs,       *)
(* resumes a rotation that the marker announces, and reconciles the        *)
(* identity.                                                               *)
(***************************************************************************)
Crash(t) ==
  /\ session[t].pc # "closed"
  /\ crashes < MaxCrashes
  /\ crashes' = crashes + 1
  /\ Reset(t)
  /\ UNCHANGED <<events, drawn, marker, identity>>

Connect(t) ==
  /\ session[t].pc = "closed"
  /\ session' = [session EXCEPT ![t] = [Opened(events) EXCEPT !.pc = "connecting"]]
  /\ UNCHANGED <<events, drawn, marker, identity, crashes>>

\* Mutant: a plan whose epoch was published counts as complete.
Resume_PreparedOnly(t) ==
  /\ session[t].pc = "connecting"
  /\ IF marker.stage = "Prepared"
       THEN session' = [session EXCEPT ![t].pc = "append", ![t].plan = marker.plan,
                                       ![t].resumes = TRUE]
       ELSE Goto(t, "observe")
  /\ UNCHANGED <<events, drawn, marker, identity, crashes>>

Resume(t) ==
  /\ session[t].pc = "connecting"
  /\ \/ /\ marker.stage \in {"None", "Committed"}
        /\ Goto(t, "observe")
     \/ /\ \/ marker.stage = "Prepared"
           \/ marker.stage = "EpochCommitted" /\ marker.epoch = marker.plan.trigger
        /\ session' = [session EXCEPT ![t].pc = "append", ![t].plan = marker.plan,
                                      ![t].resumes = TRUE]
     \/ /\ marker.stage = "EpochCommitted"
        /\ marker.epoch # marker.plan.trigger
        /\ Reset(t)
  /\ UNCHANGED <<events, drawn, marker, identity, crashes>>

(* The steps that follow once an operation is under way. *)
Step(t) ==
  \/ Mark(t) \/ AppendPair(t) \/ Abort(t) \/ LoadProjection(t)
  \/ CommitEpoch(t) \/ CommitCheckpoint(t)
  \/ Observe(t) \/ Resolve(t) \/ Persist(t) \/ ClearConsumed(t)
  \/ Connect(t) \/ Resume(t)
  \/ session[t].pc = "observe" /\ MergeHeads(t)

Next ==
  \E t \in Tab :
    \/ AddSecret(t) \/ MergeHeads(t) \/ Prepare(t)
    \/ \E past \in SUBSET DOMAIN events : SyncContent(t, past)
    \/ SyncRotation(t) \/ SyncNothing(t)
    \/ Crash(t)
    \/ Step(t)

Spec == Init /\ [][Next]_vars

(* A transaction that was started ends, and the user opens the tab again. *)
FairSpec == Spec /\ \A t \in Tab : WF_vars(Step(t))

-----------------------------------------------------------------------------
(***************************************************************************)
(* Correctness.                                                            *)
(***************************************************************************)

(* Type invariant; a pair of a rotation is in the store whole or not. *)
TypeOK ==
  /\ DOMAIN events \subseteq 1..drawn /\ drawn \in Id
  /\ \A x \in DOMAIN events : events[x].past \subseteq DOMAIN events
  /\ \A x \in DOMAIN events : events[x].kind = "Trigger" =>
       \E c \in DOMAIN events : events[c].kind = "Checkpoint" /\ events[c].label = x
  /\ marker.stage \in {"None", "Prepared", "EpochCommitted", "Committed"}
  /\ identity \in [epoch : Epoch, checkpoint : Id]
  /\ \A t \in Tab : session[t].epoch \in Epoch

(***************************************************************************)
(* Epochs never fork: of two rotations, one has seen the other, although   *)
(* tabs plan, resume and retry rotations at the same time                  *)
(* (append_epoch_pair, abort).                                             *)
(***************************************************************************)
EpochsNeverFork ==
  \A x, y \in Rotations(events) : x \in Ancestors(events, y) \/ y \in Ancestors(events, x)

(***************************************************************************)
(* The identity directory follows the vault's history forward only: the    *)
(* checkpoint it records is never replaced by one that has not seen it     *)
(* (next_epoch, under tabs that persist what they resolved long before).   *)
(***************************************************************************)
IdentityAdvances ==
  [][identity.checkpoint \in Ancestors(events, identity'.checkpoint)]_identity

(***************************************************************************)
(* All this implements the ledger of EpochLedger: announce, commit, follow,*)
(* record, settle, each at one step of the code, the rest invisible.       *)
(***************************************************************************)
Triggers(S) == {x \in S : events[x].kind = "Trigger"}

Ledger ==
  INSTANCE EpochLedger WITH
    Epoch <- Id,
    epochs <- Triggers(DOMAIN events),
    recorded <- Max({0} \cup Triggers(Ancestors(events, identity.checkpoint))),
    pending <- CASE marker.stage = "None" -> 0
                 [] marker.stage = "Prepared" -> marker.plan.trigger
                 [] OTHER -> marker.epoch

(* The rotation protocol of this device implements the ledger: a pending   *)
(* rotation is withdrawn only when it was never committed or the identity  *)
(* directory has followed it (security_epoch.rs, reconciliation.rs).       *)
RefinesLedger == Ledger!Spec

(***************************************************************************)
(* Every record of the vault is under the current key: a rotation writes   *)
(* all live records anew, and later ones use the new key                   *)
(* (prepare_security_epoch_rotation, append_vault_operations).             *)
(***************************************************************************)
AllUnderCurrentKey ==
  \A c \in DOMAIN RecordKeys(events) : RecordKeys(events)[c] = CurrentKey(events)

(***************************************************************************)
(* A pending rotation is settled, whatever crash interrupted it: it is     *)
(* completed and the identity follows, or it is aborted                    *)
(* (resume_pending_security_epoch_rotation).                               *)
(***************************************************************************)
RotationSettles == (marker.stage # "None") ~> (marker.stage = "None")

(* A tab that connects ends up open (ensure_identity_after_connect). *)
ConnectSucceeds == \A t \in Tab : (session[t].pc = "connecting") ~> (session[t].pc = "idle")
=============================================================================
