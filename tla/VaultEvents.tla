---------------------------- MODULE VaultEvents ----------------------------
(***************************************************************************)
(* The vault event graph of nook-event-log over the causal graph of        *)
(* nook-replication: who may write, how a key epoch is rotated, and what a *)
(* device accepts from a provider.                                         *)
(*                                                                         *)
(* An event id is the hash of the event's canonical bytes, so one function *)
(* E from ids to events describes every event ever signed, and a graph is  *)
(* determined by the set S of ids a device holds. An event carries         *)
(*   parents  the heads its author had observed                            *)
(*   actor    the device that signed it (one signing key per device)       *)
(*   kind     its operation                                                *)
(*   device   the device the operation is about                            *)
(*   epoch    the key epoch a checkpoint starts (no rule reads others)     *)
(* Operations that the rules below treat alike share a kind: "Mutation" is *)
(* every operation on secrets, names and labels, "Merge" is the event with *)
(* no operation that joins several heads. The vault is a Simple vault.     *)
(***************************************************************************)
EXTENDS CausalOps

CONSTANTS
  Device,   \* devices with a signing key
  Owner     \* the device that creates the vault

ASSUME OwnerAssumption == Owner \in Device

Kind == {"VaultImported", "Mutation", "Merge", "JoinRequested",
         "JoinApproved", "DeviceRevoked", "EpochCheckpoint"}

Event == [parents : SUBSET Id, actor : Device, kind : Kind,
          device : Device, epoch : Nat]

(* The causal index of the events in S, and what lies before x in it. *)
Stored(E, S) == [x \in S |-> E[x].parents]

Before(E, S, x) == Reach(Stored(E, S), x)

-----------------------------------------------------------------------------
(***************************************************************************)
(* Authorization. The root's signer and every device approved in the       *)
(* causal past may write; a revocation anywhere in that past ends it.      *)
(***************************************************************************)
Of(E, A, kinds) == {x \in A : E[x].kind \in kinds}

Authorized(E, past) ==
  {E[a].device : a \in Of(E, past, {"VaultImported", "JoinApproved"})}
    \ {E[a].device : a \in Of(E, past, {"DeviceRevoked"})}

SelfSigned(e) ==
  e.kind \in {"JoinRequested", "JoinApproved"} /\ e.device = e.actor

ActorAuthorized(E, past, e) ==
  \/ e.parents = {}
  \/ SelfSigned(e)
  \/ e.actor \in Authorized(E, past)

(***************************************************************************)
(* A checkpoint has one parent, a revocation, and names it as its epoch.   *)
(***************************************************************************)
CommittedParents(e) ==
  {p \in e.parents : /\ e.kind = "EpochCheckpoint"
                     /\ e.parents = {p}
                     /\ e.epoch = p}

ValidCheckpoint(E, x) ==
  E[x].kind = "EpochCheckpoint" =>
    \E p \in CommittedParents(E[x]) : E[p].kind = "DeviceRevoked"

(***************************************************************************)
(* Loading S: the causal graph, with every complete event that breaks a    *)
(* rule rejected, and everything after a rejected event with it. An event  *)
(* id hashes the parents too, so two parent sets for one id, and parents   *)
(* that form a cycle, do not occur at this level.                          *)
(***************************************************************************)
Rejects(E, S) ==
  {x \in S : LET past == Before(E, S, x)
             IN  /\ past \subseteq S
                 /\ ~(ValidCheckpoint(E, x) /\ ActorAuthorized(E, past, E[x]))}

RuleBroken == 8   \* "Event actor ... was not authorized" and the like

LoadGraph(E, S) ==
  MakeGraph(Stored(E, S), [x \in Rejects(E, S) |-> RuleBroken], {})

-----------------------------------------------------------------------------
(***************************************************************************)
(* Security epochs. A revocation (trigger) is committed by its checkpoint; *)
(* without it the trigger and what follows it are incomplete.              *)
(***************************************************************************)
\* Mutant: checkpoints are not recognized as such.
Committed_None(E, A) == {}

Committed(E, A) == UNION {CommittedParents(E[x]) : x \in A}

\* Mutant: what follows an open trigger is incomplete, the trigger is not.
Incomplete_Descendants(E, S) ==
  LET A    == Applicable(LoadGraph(E, S))
      open == Of(E, A, {"DeviceRevoked"}) \ Committed(E, A)
  IN  {x \in S : \E t \in open : t \in Before(E, S, x)}

Incomplete(E, S) ==
  LET A    == Applicable(LoadGraph(E, S))
      open == Of(E, A, {"DeviceRevoked"}) \ Committed(E, A)
  IN  {x \in S : \E t \in open : IsAncestor(Stored(E, S), t, x)}

PublishPriority(e) ==
  IF CommittedParents(e) # {} THEN 0
  ELSE IF e.kind = "DeviceRevoked" THEN 2
  ELSE 1

(***************************************************************************)
(* A revocation must not be concurrent with another revocation, a grant of *)
(* access or a change of the vault.                                        *)
(***************************************************************************)
Rotates(e) == e.kind = "DeviceRevoked"

\* Mutant: a change of secrets may be concurrent with a rotation.
MutatesAccess_ApprovalsOnly(e) == e.kind = "JoinApproved"

MutatesAccess(e) == e.kind \in {"JoinApproved", "Mutation"}

SecurityConflicts(E, S) ==
  LET A == Applicable(LoadGraph(E, S))
  IN  {p \in A \X A :
         /\ Rotates(E[p[1]])
         /\ Rotates(E[p[2]]) \/ MutatesAccess(E[p[2]])
         /\ AreConcurrent(Stored(E, S), p[1], p[2])}

-----------------------------------------------------------------------------
(***************************************************************************)
(* union_remote(): events read from a provider are admitted unless they    *)
(* belong to an incomplete rotation; then whatever the resulting graph     *)
(* rejects or leaves incomplete is dropped, local events included.         *)
(***************************************************************************)
VisibleRemote(E, S, seen) == seen \ Incomplete(E, S \cup seen)

\* Mutant: the incomplete rotations of the merged graph are kept.
Excluded_OnlyRejected(E, S) == Quarantined(LoadGraph(E, S))

\* Mutant: what the merged graph rejects is kept.
Excluded_OnlyIncomplete(E, S) == Incomplete(E, S)

Excluded(E, S) == Quarantined(LoadGraph(E, S)) \cup Incomplete(E, S)

UnionRemote(E, S, seen) ==
  LET merged == S \cup VisibleRemote(E, S, seen)
  IN  merged \ Excluded(E, merged)

(***************************************************************************)
(* The devices that an approval makes members: it must follow every        *)
(* revocation of the same device.                                          *)
(***************************************************************************)
Roster(E, S) ==
  LET A == Applicable(LoadGraph(E, S))
  IN  {E[a].device : a \in
         {a \in Of(E, A, {"VaultImported", "JoinApproved"}) :
            \A r \in Of(E, A, {"DeviceRevoked"}) :
              E[r].device = E[a].device => IsAncestor(Stored(E, S), r, a)}}
=============================================================================
