-------------------------- MODULE IdentityControl --------------------------
(***************************************************************************)
(* The identity control log: who belongs to an identity. Every member of   *)
(* the identity - an installation's app key, or a recovery passphrase -    *)
(* signs events that admit, invite, deny or revoke; devices exchange them  *)
(* through a provider, in any order, and each derives the members from the *)
(* events it holds.                                                        *)
(*                                                                         *)
(* An event is content-addressed: its id, a hash, determines it and says   *)
(* nothing about when it was made, so a new event takes any unused number. *)
(* `event` is everything signed so far. A log is what the code keeps in    *)
(* memory: the ids it holds and the ids it rejected in their own right.    *)
(* Nothing of it but the ids is stored: a log is rebuilt from the ids, in  *)
(* id order, whenever it is needed (LoadLog), so disk[d] is always a       *)
(* loaded log, and so is the provider's as its readers see it.             *)
(*                                                                         *)
(* The keys of vaults, labels, names and mounts ride on these events and   *)
(* are left out; "noted" stands for an event that carries only those.      *)
(***************************************************************************)
EXTENDS Naturals, Sequences, FiniteSets, FiniteSetsExt

CONSTANTS
  Installation,   \* app keys, one per installation
  Passphrase,     \* recovery passphrases, each with keys of its own
  Outsider,       \* app keys that never become members
  History,        \* what the founder did before the instance starts
  MaxNew,         \* bound on the events signed afterwards
  Step            \* the steps that occur in this instance

App == Installation \cup Passphrase
Admission == {"created", "approved", "joined", "recovery"}
Operation ==
  Admission \cup {"requested", "denied", "invited", "revoked", "noted"}

(***************************************************************************)
(* History is a sequence of <<kind, app>>: event 1 creates the identity    *)
(* and the founder signs the others, each on top of the one before.        *)
(***************************************************************************)
ASSUME HistoryAssumption ==
  /\ History \in Seq(Operation \X App)
  /\ Len(History) > 0
  /\ \A n \in 1..Len(History) :
       /\ History[n][1] = "created" <=> n = 1
       /\ History[n][1] \in Admission =>
            (History[n][1] = "recovery" <=> History[n][2] \in Passphrase)
ASSUME MaxNewAssumption == MaxNew \in Nat
ASSUME StepAssumption ==
  Step \subseteq (Operation \cup {"added", "recovered", "cut"})
ASSUME AppAssumption ==
  /\ Installation \cap Passphrase = {}
  /\ Outsider \cap App = {}

VARIABLES
  event,       \* id -> the signed event
  disk,        \* installation -> the log its events load to
  provider,    \* the log the provider's events load to
  directory,   \* installation -> app keys its local identity record lists
  memory       \* installation -> the log it projected last

vars == <<event, disk, provider, directory, memory>>

Founder == History[1][2]
LastId == Len(History) + MaxNew
EventId == 1..LastId

-----------------------------------------------------------------------------
(***************************************************************************)
(* The log. E is the set of events signed so far, as a function.           *)
(*                                                                         *)
(* `past` is the transitive closure of `parents`, kept with the event: the *)
(* code walks the parents each time. The walk follows only events the log  *)
(* holds, which makes a difference for an event whose ancestors are        *)
(* missing (Ancestry).                                                     *)
(***************************************************************************)
UpTo(E, i) == E[i].past \cup {i}

IsAncestor(E, a, d) == a \in UpTo(E, d)

Ancestry(E, held, from) ==
  LET visited[S \in SUBSET EventId] ==
        LET more == (UNION {E[i].parents : i \in S \cap held}) \ S
        IN  IF more = {} THEN S ELSE visited[S \cup more]
  IN  visited[from]

EmptyLog == [held |-> {}, rejected |-> {}]

Applicable(E, log) ==
  {i \in log.held :
     UpTo(E, i) \subseteq log.held /\ UpTo(E, i) \cap log.rejected = {}}

ApplicableHeads(E, log) ==
  LET live == Applicable(E, log)
  IN  {i \in live : \A j \in live : i \notin E[j].parents}

(***************************************************************************)
(* Admissions in S that follow every revocation of the same app in S: a    *)
(* concurrent revocation wins. An app is a member while one of its         *)
(* admissions stands, and a recovery passphrase if one of those says so.   *)
(***************************************************************************)
Revocations(E, S, a) == {r \in S : E[r].kind = "revoked" /\ E[r].app = a}

Standing(E, S) ==
  {i \in S :
     /\ E[i].kind \in Admission
     /\ \A r \in Revocations(E, S, E[i].app) : IsAncestor(E, r, i)}

EffectiveMembers(E, S) == {E[i].app : i \in Standing(E, S)}

RecoveryMembers(E, S) ==
  {E[i].app : i \in {j \in Standing(E, S) : E[j].kind = "recovery"}}

(***************************************************************************)
(* Why an event is refused.                                                *)
(***************************************************************************)
MemberActionRejection(E, i) ==
  LET members == EffectiveMembers(E, E[i].past)
  IN  IF E[i].actor \in RecoveryMembers(E, E[i].past)
        THEN ~ \/ E[i].kind = "approved" /\ E[i].app \notin members
               \/ E[i].kind = "revoked" /\ E[i].app = E[i].actor
        ELSE E[i].kind = "recovery" /\ E[i].app \in members

InviteJoinHolds(E, log, i) ==
  E[i].invite \in Ancestry(E, log.held, E[i].parents) \cap log.held

\* Mutant: any other join on the invite refuses this one.
InviteJoinRejection_AnyOther(E, log, i) ==
  \/ ~InviteJoinHolds(E, log, i)
  \/ \E j \in log.held \ {i} :
       /\ E[j].kind = "joined"
       /\ E[j].invite = E[i].invite
       /\ InviteJoinHolds(E, log, j)

InviteJoinRejection(E, log, i) ==
  \/ ~InviteJoinHolds(E, log, i)
  \/ \E j \in log.held :
       /\ j < i
       /\ E[j].kind = "joined"
       /\ E[j].invite = E[i].invite
       /\ InviteJoinHolds(E, log, j)

(***************************************************************************)
(* The words of a removed recovery passphrase approve nobody, on whatever  *)
(* heads they build: an authorized revocation of it counts unless the      *)
(* event precedes that revocation.                                         *)
(***************************************************************************)
RevokedRecoveryRejection(E, log, i) ==
  /\ E[i].actor \in RecoveryMembers(E, E[i].past)
  /\ \E r \in Revocations(E, Applicable(E, log), E[i].actor) :
       /\ ~IsAncestor(E, i, r)
       /\ E[r].actor \in EffectiveMembers(E, E[r].past)

\* Mutant: membership is looked up in the whole log, not in the event's past.
Unauthorized_Now(E, log, i) ==
  CASE E[i].kind \in {"created", "requested"} -> FALSE
    [] E[i].kind = "joined" -> InviteJoinRejection(E, log, i)
    [] OTHER -> \/ E[i].actor \notin EffectiveMembers(E, Applicable(E, log))
                \/ MemberActionRejection(E, i)
                \/ RevokedRecoveryRejection(E, log, i)

Unauthorized(E, log, i) ==
  CASE E[i].kind \in {"created", "requested"} -> FALSE
    [] E[i].kind = "joined" -> InviteJoinRejection(E, log, i)
    [] OTHER -> \/ E[i].actor \notin EffectiveMembers(E, E[i].past)
                \/ MemberActionRejection(E, i)
                \/ RevokedRecoveryRejection(E, log, i)

(***************************************************************************)
(* insert() and quarantine_unauthorized(): passes over the applicable      *)
(* events, in id order, until one rejects nothing. A rejection takes       *)
(* effect within its pass.                                                 *)
(***************************************************************************)
Log == [held : SUBSET EventId, rejected : SUBSET EventId]

InIdOrder(change, log) ==
  LET after[n \in 0..LastId] == IF n = 0 THEN log ELSE change[n][after[n - 1]]
  IN  after[LastId]

Examine(E, log, i) ==
  IF Unauthorized(E, log, i)
    THEN [log EXCEPT !.rejected = @ \cup {i}]
    ELSE log

Pass(E, log, S) ==
  InIdOrder([i \in EventId |-> [l \in Log |-> IF i \in S THEN Examine(E, l, i) ELSE l]], log)

Settle(E, log) ==
  LET settled[l \in Log] ==
        IF \E j \in Applicable(E, l) : Unauthorized(E, l, j)
          THEN settled[Pass(E, l, Applicable(E, l))]
          ELSE l
  IN  settled[log]

\* Mutant: only the event just inserted is examined.
InsertInto_OnlyNew(E, log, i) ==
  LET with == [log EXCEPT !.held = @ \cup {i}]
  IN  IF i \in Applicable(E, with) THEN Examine(E, with, i) ELSE with

InsertInto(E, log, i) == Settle(E, [log EXCEPT !.held = @ \cup {i}])

InsertAll(E, log, T) ==
  InIdOrder([i \in EventId |->
               [l \in Log |-> IF i \in T THEN InsertInto(E, l, i) ELSE l]], log)

LoadLog(E, S) == InsertAll(E, EmptyLog, S)

(***************************************************************************)
(* The projection, as far as it is about members.                          *)
(***************************************************************************)
Members(E, log) == EffectiveMembers(E, Applicable(E, log))

RecoveryKeys(E, log) == RecoveryMembers(E, Applicable(E, log))

\* Mutant: recovery passphrases are listed like app keys.
AppMembers_All(E, log) == Members(E, log)

AppMembers(E, log) == Members(E, log) \ RecoveryKeys(E, log)

Revoked(E, log) ==
  {E[i].app : i \in {j \in Applicable(E, log) : E[j].kind \in Admission}}
    \ Members(E, log)

PendingJoins(E, log) ==
  {a \in Installation \ Members(E, log) :
     \E q \in Applicable(E, log) :
       /\ E[q].kind = "requested" /\ E[q].app = a
       /\ \A s \in Applicable(E, log) :
            (E[s].kind \in Admission \cup {"denied", "revoked"} /\ E[s].app = a)
              => ~IsAncestor(E, q, s)}

NotListed(E, log, a) ==
  a \notin Members(E, log) \cup Revoked(E, log) \cup PendingJoins(E, log)

-----------------------------------------------------------------------------
Signed(E, log, actor, kind, app, invite) ==
  [actor   |-> actor,
   kind    |-> kind,
   app     |-> app,
   invite  |-> invite,
   parents |-> ApplicableHeads(E, log),
   past    |-> UNION {UpTo(E, h) : h \in ApplicableHeads(E, log)}]

Grown(E, i, new) ==
  [j \in DOMAIN E \cup {i} |-> IF j = i THEN new ELSE E[j]]

Told ==
  [n \in 1..Len(History) |->
     [actor   |-> Founder,
      kind    |-> History[n][1],
      app     |-> History[n][2],
      invite  |-> 0,
      parents |-> IF n = 1 THEN {} ELSE {n - 1},
      past    |-> 1..(n - 1)]]

\* What the founder did was not refused (append_identity_operations).
ASSUME FounderAssumption == Applicable(Told, LoadLog(Told, DOMAIN Told)) = DOMAIN Told

Init ==
  LET log == LoadLog(Told, DOMAIN Told)
  IN  /\ event = Told
      /\ provider = log
      /\ disk = [d \in Installation |->
                   IF d \in Members(Told, log) THEN log ELSE EmptyLog]
      /\ directory = [d \in Installation |->
                        IF d \in Members(Told, log)
                          THEN AppMembers(Told, log) ELSE {d}]
      /\ memory = disk

(***************************************************************************)
(* apply_identity_state_locally: an active member adds the app keys of the *)
(* log to its record and drops the revoked ones; an installation the log   *)
(* does not list leaves its record alone, and so does a revoked one, which *)
(* reports an error.                                                       *)
(***************************************************************************)
\* Mutant: the record is only added to.
Mirrored_AddOnly(E, d, log) ==
  IF d \in Members(E, log) THEN directory[d] \cup AppMembers(E, log) ELSE directory[d]

Mirrored(E, d, log) ==
  IF d \in Members(E, log)
    THEN (directory[d] \cup AppMembers(E, log)) \ Revoked(E, log)
    ELSE directory[d]

Project(E, d, log) ==
  /\ directory' = [directory EXCEPT ![d] = Mirrored(E, d, log)]
  /\ memory' = [memory EXCEPT ![d] = log]

Unused == EventId \ DOMAIN event

(***************************************************************************)
(* append_identity_operations: sign on the applicable heads of the stored  *)
(* log; an event that does not apply there is an error and is not stored.  *)
(***************************************************************************)
AppendOperations(d, kind, app) ==
  /\ disk[d].held # {}
  /\ \E i \in Unused :
       LET E == Grown(event, i, Signed(event, disk[d], d, kind, app, 0))
       IN  \E after \in {InsertInto(E, disk[d], i)} :
             /\ i \in Applicable(E, after)
             /\ event' = E
             /\ disk' = [disk EXCEPT ![d] = LoadLog(E, after.held)]
             /\ Project(E, d, after)
  /\ UNCHANGED provider

RevokeMember(d, a) ==
  /\ "revoked" \in Step
  /\ a \in Members(event, disk[d])
  /\ a \in AppMembers(event, disk[d]) => Cardinality(AppMembers(event, disk[d])) # 1
  /\ AppendOperations(d, "revoked", a)

ApproveJoin(d, a) ==
  /\ "approved" \in Step
  /\ a \in PendingJoins(event, disk[d])
  /\ AppendOperations(d, "approved", a)

DenyJoin(d, a) ==
  /\ "denied" \in Step
  /\ a \in PendingJoins(event, disk[d])
  /\ AppendOperations(d, "denied", a)

\* An app a member is shown directly: the browser extension that connects.
AddMember(d, a) ==
  /\ "added" \in Step
  /\ d \in Members(event, disk[d])
  /\ a \notin Members(event, disk[d])
  /\ AppendOperations(d, "approved", a)

AddRecovery(d, p) ==
  /\ "recovery" \in Step
  /\ \A i \in DOMAIN event : event[i].app # p    \* its keys are fresh
  /\ AppendOperations(d, "recovery", p)

IssueInvite(d) ==
  /\ "invited" \in Step
  /\ AppendOperations(d, "invited", d)

\* Renaming, naming, registering a vault, mounting a provider.
Note(d) ==
  /\ "noted" \in Step
  /\ AppendOperations(d, "noted", d)

(***************************************************************************)
(* join_by_invite_at_current_provider: synchronize with the provider, sign *)
(* the join on the heads of the result, store it and synchronize again,    *)
(* unless that fails. Nothing is projected until the next synchronization. *)
(***************************************************************************)
JoinByInvite(d) ==
  /\ "joined" \in Step
  /\ \E read \in SUBSET (provider.held \ disk[d].held) :
       \E log \in {InsertAll(event, disk[d], read)} :
         /\ log.held # {}
         /\ d \notin Members(event, log) \cup Revoked(event, log)
         /\ \E v \in {w \in Applicable(event, log) : event[w].kind = "invited"},
              i \in Unused :
              LET E == Grown(event, i, Signed(event, log, d, "joined", d, v))
              IN  \E after \in {InsertInto(E, log, i)} :
                    /\ i \in Applicable(E, after)
                    /\ event' = E
                    /\ disk' = [disk EXCEPT ![d] = LoadLog(E, after.held)]
                    /\ \E pushed \in {log.held, after.held} :
                         provider' = LoadLog(E, provider.held \cup pushed)
  /\ UNCHANGED <<directory, memory>>

(***************************************************************************)
(* An installation that belongs nowhere yet works on the provider's log:   *)
(* it asks to join, or types the words of a recovery passphrase, which     *)
(* approves it. Both put one event into the provider's log.                *)
(***************************************************************************)
PutAtProvider(actor, kind, app) ==
  /\ \E i \in Unused :
       LET E == Grown(event, i, Signed(event, provider, actor, kind, app, 0))
       IN  /\ i \in Applicable(E, InsertInto(E, provider, i))
           /\ event' = E
           /\ provider' = LoadLog(E, provider.held \cup {i})

RequestJoin(d) ==
  /\ "requested" \in Step
  /\ disk[d].held = {}
  /\ NotListed(event, provider, d)
  /\ PutAtProvider(d, "requested", d)
  /\ UNCHANGED <<disk, directory, memory>>

(***************************************************************************)
(* complete_join_from_log.                                                 *)
(***************************************************************************)
JoinFrom(E, d, log) ==
  /\ d \in Members(E, log)
  /\ disk' = [disk EXCEPT ![d] = log]
  /\ Project(E, d, log)

\* The approval is at the provider before the join completes here; a failure
\* in between leaves the device to complete the join later.
Recover(d, p) ==
  /\ "recovered" \in Step
  /\ disk[d].held = {}
  /\ p \in RecoveryKeys(event, provider)
  /\ d \notin Members(event, provider)
  /\ PutAtProvider(p, "approved", d)
  /\ \/ JoinFrom(event', d, provider')
     \/ UNCHANGED <<disk, directory, memory>>

\* From the provider, or from the log a member hands over to an app it added.
CompleteJoin(d) ==
  /\ disk[d].held = {}
  /\ \E source \in {provider} \cup {disk[c] : c \in Installation} :
       JoinFrom(event, d, source)
  /\ UNCHANGED <<event, provider>>

(***************************************************************************)
(* An event signed by an app key that never was a member reaches the       *)
(* provider, on top of everything there.                                   *)
(***************************************************************************)
Stray(o, kind, a) ==
  /\ \A i \in DOMAIN event : event[i].actor # o
  /\ \E i \in Unused :
       LET E == Grown(event, i, Signed(event, provider, o, kind, a, 0))
       IN  /\ event' = E
           /\ provider' = LoadLog(E, provider.held \cup {i})
  /\ UNCHANGED <<disk, directory, memory>>

(***************************************************************************)
(* union_identity_log_with_current_provider: insert what was read of the   *)
(* missing events, store it, push the rest in id order. A push that fails  *)
(* leaves a part of it at the provider and ends the synchronization before *)
(* anything is projected.                                                  *)
(***************************************************************************)
Pull(d, read) ==
  disk' = [disk EXCEPT ![d] = LoadLog(event, @.held \cup read)]

\* Mutant: quarantined events are not pushed.
Pushed_Applicable(E, log) == Applicable(E, log)

Pushed(E, log) == log.held

Sync(d, read) ==
  /\ disk[d].held # {}
  /\ Pull(d, read)
  /\ \E log \in {InsertAll(event, disk[d], read)} :
       /\ provider' = LoadLog(event, provider.held \cup Pushed(event, log))
       /\ Project(event, d, log)
  /\ UNCHANGED event

SyncCut(d, read) ==
  /\ "cut" \in Step
  /\ disk[d].held # {}
  /\ Pull(d, read)
  /\ \E last \in disk[d].held \ provider.held :
       provider' = LoadLog(event, provider.held
                             \cup {i \in disk[d].held : i < last})
  /\ UNCHANGED <<event, directory, memory>>

SyncAll(d) == Sync(d, provider.held \ disk[d].held)

Next ==
  \/ \E d \in Installation :
       \/ \E a \in App : RevokeMember(d, a)
       \/ \E a \in Installation : ApproveJoin(d, a) \/ DenyJoin(d, a) \/ AddMember(d, a)
       \/ \E p \in Passphrase : AddRecovery(d, p) \/ Recover(d, p)
       \/ IssueInvite(d)
       \/ Note(d)
       \/ JoinByInvite(d)
       \/ RequestJoin(d)
       \/ CompleteJoin(d)
       \/ \E read \in SUBSET (provider.held \ disk[d].held) :
            Sync(d, read) \/ SyncCut(d, read)
  \/ \E o \in Outsider, a \in App : Stray(o, "approved", a) \/ Stray(o, "revoked", a)

Spec == Init /\ [][Next]_vars

FairSpec == Spec /\ \A d \in Installation : WF_vars(SyncAll(d))

-----------------------------------------------------------------------------
\* Every state component has its type, nothing is held that nobody signed, an
\* event's past is closed, and a local identity record lists app keys only, never
\* a recovery passphrase (ReplicatedMembershipRequest::project).
TypeOK ==
  /\ DOMAIN event \subseteq EventId
  /\ \A i \in DOMAIN event :
       /\ event[i].actor \in App \cup Outsider
       /\ event[i].kind \in Operation
       /\ event[i].app \in App
       /\ event[i].invite \in {0} \cup event[i].past
       /\ event[i].past = UNION {UpTo(event, j) : j \in event[i].parents}
  /\ disk \in [Installation -> Log]
  /\ memory \in [Installation -> Log]
  /\ provider \in Log
  /\ directory \in [Installation -> SUBSET Installation]
  /\ \A log \in {provider} \cup {disk[d] : d \in Installation} :
       log.rejected \subseteq log.held /\ log.held \subseteq DOMAIN event

\* The member list does not depend on delivery order (identity-control-log.md),
\* as long as no recovery passphrase was removed: what an installation projected
\* from the events as they arrived is what it projects from the same events after
\* a restart, read back in id order (insert, load_identity_log).
OrderIndependent ==
  \/ \E r \in DOMAIN event : event[r].kind = "revoked" /\ event[r].app \in Passphrase
  \/ \A d \in Installation :
       memory[d].held = disk[d].held
         => Applicable(event, memory[d]) = Applicable(event, disk[d])

\* What a member signed is never taken back by what arrives later, whoever
\* signed that (unauthorized_reason looks at the event's own causal past). Only
\* a join that lost its invite, the words of a recovery passphrase and what an
\* outsider signed are rejected; all else that is quarantined was built on those.
HonestStands ==
  LET Contestable ==
        {i \in DOMAIN event :
           event[i].kind = "joined" \/ event[i].actor \in Passphrase \cup Outsider}
  IN  \A log \in {provider} \cup {disk[d] : d \in Installation} :
        log.rejected \subseteq Contestable

\* The words of a removed recovery passphrase add no device: where a member's
\* removal of the passphrase applies, every approval the passphrase signed that
\* still applies came before that removal (revoked_recovery_rejection), also
\* when the approval was applied first and the removal was delivered later.
RemovedWordsAdmitNobody ==
  \A log \in {provider} \cup {disk[d] : d \in Installation} :
    LET live == Applicable(event, log)
    IN  \A r \in {j \in live : event[j].kind = "revoked" /\ event[j].app \in Passphrase} :
          \A i \in {j \in live : event[j].actor = event[r].app} : IsAncestor(event, i, r)

\* A one-time invite never admits two installations, and the one whose join has
\* the lowest id is admitted unless that join builds on something quarantined
\* (graph.rs: "the lowest event id wins, so every replica keeps the same one").
InviteAdmitsOne ==
  \A log \in {provider} \cup {disk[d] : d \in Installation} :
    LET live     == Applicable(event, log)
        Joins(v) == {i \in log.held : event[i].kind = "joined" /\ event[i].invite = v}
    IN  \A v \in {event[i].invite : i \in {j \in log.held : event[j].kind = "joined"}} :
          /\ Cardinality(Joins(v) \cap live) <= 1
          /\ event[Min(Joins(v))].past \subseteq live => Min(Joins(v)) \in live

\* The local identity record, whose members every new vault key is wrapped to,
\* lists exactly the app keys of the log its installation projected last
\* (replication.rs: "Mirror the replicated members"), as long as nobody joined by
\* invite and no recovery passphrase was removed: only what no later event can
\* quarantine is sure to be either a member or revoked.
DirectoryMirrors ==
  \/ \E i \in DOMAIN event :
       \/ event[i].kind = "joined"
       \/ event[i].kind = "revoked" /\ event[i].app \in Passphrase
  \/ \A d \in Installation :
       d \in Members(event, memory[d]) => directory[d] = AppMembers(event, memory[d])

\* Once nobody signs any more and the installations keep synchronizing, every
\* installation of the identity ends with the provider's log.
Converges ==
  <>[](\A d \in Installation : disk[d].held # {} => memory[d] = provider)
=============================================================================
