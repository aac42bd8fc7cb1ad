-------------------------- MODULE VaultReplication --------------------------
(***************************************************************************)
(* Devices that share one vault through one provider. A device appends     *)
(* events to its own durable store, publishes what the provider lacks, and *)
(* merges what it reads there; the provider keeps immutable events under   *)
(* their ids (put-if-absent). A device is one browser tab, whose manager   *)
(* runs one operation at a time.                                           *)
(*                                                                         *)
(* A read may miss events: a listing can be stale and a listed event can   *)
(* be unreadable, in which case it is skipped. How a device comes to       *)
(* publish an event, through its outbox and a repair pass that may both be *)
(* cut short, is the business of VaultSync, which implements this module.  *)
(***************************************************************************)
EXTENDS VaultEvents

VARIABLES
  events,    \* every event signed so far, by id
  store,     \* Device -> ids in its durable event store
  provider   \* ids stored at the provider

vars == <<events, store, provider>>

Graph(d) == LoadGraph(events, store[d])

(* Genesis: one root event that imports the vault and approves its owner.  *)
Init ==
  \E id \in Id :
    /\ events = [x \in {id} |-> [parents |-> {}, actor |-> Owner,
                                 kind |-> "VaultImported",
                                 device |-> Owner, epoch |-> 0]]
    /\ store = [d \in Device |-> IF d = Owner THEN {id} ELSE {}]
    /\ provider = {}

-----------------------------------------------------------------------------
(***************************************************************************)
(* Appending. The event names the heads of the store as its parents, and   *)
(* the store takes it only if its graph then applies it. A merge event is  *)
(* written only to join several heads, a request to join only by a device  *)
(* that is no member.                                                      *)
(***************************************************************************)
AppendKind == {"Mutation", "Merge", "JoinRequested", "JoinApproved"}

Sign(id, e) == [x \in DOMAIN events \cup {id} |->
                  IF x = id THEN e ELSE events[x]]

NewEvent(d, kind, subject) ==
  [parents |-> Heads(Graph(d)), actor |-> d, kind |-> kind,
   device |-> subject, epoch |-> 0]

Applies(E, S, id) == id \in Applicable(LoadGraph(E, S))

Append(d, id, kind, subject) ==
  /\ store[d] # {}
  /\ id \in Id \ DOMAIN events
  /\ kind # "JoinApproved" => subject = d
  /\ kind = "JoinRequested" => d \notin Roster(events, store[d])
  /\ store' = [store EXCEPT ![d] = @ \cup {id}]
  /\ \E e \in {NewEvent(d, kind, subject)} :
       /\ kind = "Merge" => Cardinality(e.parents) > 1
       /\ Applies(Sign(id, e), store[d] \cup {id}, id)
       /\ events' = Sign(id, e)
  /\ UNCHANGED provider

(***************************************************************************)
(* The operations that append: a change of secrets, names or labels, the   *)
(* merge event that a single head is needed for, a request to join, and    *)
(* three ways to approve a device. A request is open until an approval     *)
(* follows it: a concurrent approval leaves it open here, whichever comes  *)
(* first in the order of replay, and a denial is a "Mutation".             *)
(***************************************************************************)
Edit(d, id) == Append(d, id, "Mutation", d)

MergeHeads(d, id) == Append(d, id, "Merge", d)

RequestAccess(d, id) == Append(d, id, "JoinRequested", d)

OpenRequests(d) ==
  LET A == Applicable(Graph(d))
  IN  {r \in Of(events, A, {"JoinRequested"}) :
         \A a \in Of(events, A, {"JoinApproved"}) :
           events[a].device = events[r].device
             => ~IsAncestor(Stored(events, store[d]), r, a)}

ApproveJoin(d, id, member) ==
  /\ Append(d, id, "JoinApproved", member)
  /\ \E r \in OpenRequests(d) : events[r].device = member

ApproveExtension(d, id, member) == Append(d, id, "JoinApproved", member)

Enroll(d, id) == Append(d, id, "JoinApproved", d)

(***************************************************************************)
(* Rotating the epoch: the trigger and its checkpoint are signed on a      *)
(* single head and committed in one transaction.                           *)
(***************************************************************************)
CheckpointOf(t, d, victim) ==
  [parents |-> {t}, actor |-> d, kind |-> "EpochCheckpoint",
   device |-> victim, epoch |-> t]

SignPair(t, trigger, c, checkpoint) ==
  [x \in DOMAIN events \cup {t, c} |->
     IF x = t THEN trigger ELSE IF x = c THEN checkpoint ELSE events[x]]

Rotate(d, t, c, victim) ==
  /\ store[d] # {}
  /\ {t, c} \subseteq Id \ DOMAIN events
  /\ t # c
  /\ store' = [store EXCEPT ![d] = @ \cup {t, c}]
  /\ \E trigger \in {NewEvent(d, "DeviceRevoked", victim)} :
       LET E == SignPair(t, trigger, c, CheckpointOf(t, d, victim))
           S == store[d] \cup {t, c}
       IN  /\ Cardinality(trigger.parents) = 1
           /\ Applies(E, S, t) /\ Applies(E, S, c)
           /\ \A p \in SecurityConflicts(E, S) : t \notin {p[1], p[2]}
           /\ events' = E
  /\ UNCHANGED provider

(* Another device that is a member is revoked by a rotation. *)
RevokeMember(d, t, c, victim) ==
  /\ Rotate(d, t, c, victim)
  /\ victim # d
  /\ victim \in Roster(events, store[d])

(***************************************************************************)
(* Publishing. A trigger follows its checkpoint.                           *)
(***************************************************************************)
PublishedCheckpoint(t) ==
  \E c \in provider : t \in CommittedParents(events[c])

Publish(d, e) ==
  /\ e \in store[d] \ provider
  /\ events[e].kind = "DeviceRevoked" => PublishedCheckpoint(e)
  /\ provider' = provider \cup {e}
  /\ UNCHANGED <<events, store>>

(***************************************************************************)
(* Reading. The merge is refused, and the store left alone, when it would  *)
(* hold a revocation concurrent with a change of access or content.        *)
(***************************************************************************)
\* Mutant: the merge is committed without looking for conflicts.
MayCommit_Always(E, S) == TRUE

MayCommit(E, S) == SecurityConflicts(E, S) = {}

Pull(d, seen) ==
  /\ seen \subseteq provider \ store[d]
  /\ UNCHANGED <<events, provider>>
  /\ \E S \in {UnionRemote(events, store[d], seen)} :
       /\ MayCommit(events, S)
       /\ store' = [store EXCEPT ![d] = S]

(***************************************************************************)
(* The devices do not control the provider's storage: it may hold a        *)
(* correctly signed event whose causal past does not authorize its signer. *)
(***************************************************************************)
Stray(id, d, parents) ==
  LET E == Sign(id, [parents |-> parents, actor |-> d, kind |-> "Mutation",
                     device |-> d, epoch |-> 0])
  IN  /\ id \in Id \ DOMAIN events
      /\ parents # {} /\ parents \subseteq provider
      /\ d \notin Authorized(E, Before(E, DOMAIN E, id))
      /\ events' = E
      /\ provider' = provider \cup {id}
      /\ UNCHANGED store

Next ==
  \/ \E d \in Device :
       \/ \E id \in Id :
            \/ Edit(d, id)
            \/ MergeHeads(d, id)
            \/ RequestAccess(d, id)
            \/ Enroll(d, id)
            \/ \E member \in Device : \/ ApproveJoin(d, id, member)
                                     \/ ApproveExtension(d, id, member)
       \/ \E t, c \in Id, victim \in Device : RevokeMember(d, t, c, victim)
       \/ \E e \in Id : Publish(d, e)
       \/ \E seen \in SUBSET Id : Pull(d, seen)
  \/ \E id \in Id, d \in Device, parents \in SUBSET Id : Stray(id, d, parents)

Spec == Init /\ [][Next]_vars

-----------------------------------------------------------------------------
(***************************************************************************)
(* Correctness.                                                            *)
(***************************************************************************)

(* Type invariant of the signed events, the stores and the provider: the   *)
(* parents of an event were signed, and only the genesis event has none.   *)
TypeOK ==
  /\ DOMAIN events \subseteq Id
  /\ events \in [DOMAIN events -> Event]
  /\ \A x \in DOMAIN events :
       /\ events[x].parents \subseteq DOMAIN events
       /\ events[x].parents = {} => events[x].kind = "VaultImported"
  /\ store \in [Device -> SUBSET DOMAIN events]
  /\ provider \subseteq DOMAIN events

(***************************************************************************)
(* No device ever holds an applicable revocation without the checkpoint    *)
(* that commits it, whatever part of the provider it managed to read       *)
(* (visibility_gated_remote_events, PreparedRemoteUnion::prepare): it      *)
(* could otherwise write under an epoch that has no keys.                  *)
(***************************************************************************)
WholeEpochs == \A d \in Device : Incomplete(events, store[d]) = {}

(***************************************************************************)
(* No durable store holds an event that its graph rejects, even when the   *)
(* reason to reject it arrived long after the event (prepare, the excluded *)
(* set).                                                                   *)
(***************************************************************************)
NothingRejected == \A d \in Device : Quarantined(Graph(d)) = {}

(***************************************************************************)
(* No store holds a revocation next to a concurrent revocation, approval   *)
(* or edit (prepare_union, insert_pair).                                   *)
(***************************************************************************)
NoConflictAdmitted ==
  \A d \in Device : SecurityConflicts(events, store[d]) = {}

(***************************************************************************)
(* A rotation is one step of history: in every store, what follows a       *)
(* trigger follows its checkpoint too, so nothing is written between the   *)
(* old epoch and the new one (append_epoch_pair and the visibility gate).  *)
(***************************************************************************)
EpochSealed ==
  \A d \in Device :
    LET A == Applicable(Graph(d))
        P == Stored(events, store[d])
    IN  \A c, x \in A :
          \A t \in CommittedParents(events[c]) :
            t \in Reach(P, x) => IsAncestor(P, c, x)

(***************************************************************************)
(* Merging never takes back applied history: an event that a store has     *)
(* applied stays applied (PreparedRemoteUnion::commit drops local events). *)
(***************************************************************************)
AppliedIsKept ==
  [][\A d \in Device :
       store'[d] # store[d] =>
         Applicable(Graph(d)) \subseteq Applicable(LoadGraph(events', store'[d]))]_vars
=============================================================================
