-------------------------- MODULE VaultProjection --------------------------
(***************************************************************************)
(* The vault that a device shows: the projection of its event graph. The   *)
(* events of VaultEvents carry here the operation they stand for and the   *)
(* key epoch their author believed current, and from_graph() folds them in *)
(* the graph's topological order: batches of ready events, each batch in   *)
(* the order of event ids.                                                 *)
(*                                                                         *)
(* A projected secret remembers which event created it and which event     *)
(* deleted it last; it is live unless that deletion had seen the creation. *)
(* Contents of secrets are left out, and a name of the vault is the event  *)
(* that gave it. Devices exchange whole stores here: partial reads are the *)
(* business of VaultReplication.                                           *)
(*                                                                         *)
(* The tabs of a browser share its event store, and each works on what it  *)
(* projected last: edits, the records and the name of a checkpoint, and    *)
(* the epoch label come from the tab's memory, parents from the store. All *)
(* tabs are open from the start. Writes to the database succeed, so memory *)
(* that an edit changed before its append failed does not occur here.      *)
(***************************************************************************)
EXTENDS VaultEvents, Sequences, Functions

CONSTANTS
  Tab,      \* tabs of each device's browser
  Member,   \* devices approved before the history that is explored
  Secret    \* secret ids, drawn at random by the device that creates one

ASSUME MemberAssumption ==
  Member \subseteq Device /\ Owner \in Member /\ IsFiniteSet(Member)
ASSUME IdIsPositive == 0 \notin Id

VARIABLES
  events,    \* every event signed so far, by id
  store,     \* Device -> ids in its durable event store
  keyEpoch,  \* Device -> Tab -> the key epoch the tab labels its events with
  memory     \* Device -> Tab -> the vault as the tab projected it last

vars == <<events, store, keyEpoch, memory>>

(***************************************************************************)
(* The epoch of a vault that was never rotated is derived from the vault's *)
(* id. A tab that has not recorded an epoch uses it too.                   *)
(***************************************************************************)
InitialEpoch == 0

Unnamed == 0
Alive == 0      \* no event has deleted the secret

Operation ==
  [op : {"Other", "VaultNamed"}]
    \cup [op : {"SecretsAdded"}, secrets : SUBSET Secret]
    \cup [op : {"SecretDeleted"}, secret : Secret]
    \cup [op : {"SecretReplaced"}, old : Secret, new : Secret]
    \cup [op : {"SecretConflictResolved"}, old : Secret, rejected : SUBSET Secret]
    \cup [op : {"EpochCheckpoint"}, secrets : SUBSET Secret, name : Id \cup {Unnamed}]

Other == [op |-> "Other"]

-----------------------------------------------------------------------------
(***************************************************************************)
(* The fold. p.replaced maps a replaced secret to the pairs of replacing   *)
(* event and new secret.                                                   *)
(***************************************************************************)
NoSecrets == [s \in {} |-> 0]

EmptyProjection ==
  [secrets |-> NoSecrets, replaced |-> [s \in {} |-> {}],
   name |-> Unnamed, epoch |-> InitialEpoch]

InsertSecrets(secrets, S, x) ==
  [s \in DOMAIN secrets \cup S |->
     IF s \in S THEN [by |-> x, deleted |-> Alive] ELSE secrets[s]]

Tombstone(secrets, S, x) ==
  [s \in DOMAIN secrets |->
     IF s \in S THEN [secrets[s] EXCEPT !.deleted = x] ELSE secrets[s]]

\* Mutant: the last replacement is the one that counts.
NoteReplacement_Last(replaced, old, x, new) ==
  [s \in DOMAIN replaced \cup {old} |->
     IF s = old THEN {<<x, new>>} ELSE replaced[s]]

NoteReplacement(replaced, old, x, new) ==
  [s \in DOMAIN replaced \cup {old} |->
     (IF s \in DOMAIN replaced THEN replaced[s] ELSE {})
       \cup (IF s = old THEN {<<x, new>>} ELSE {})]

ApplyOperation(p, x, o) ==
  CASE o.op = "SecretsAdded" ->
         [p EXCEPT !.secrets = InsertSecrets(@, o.secrets, x)]
    [] o.op = "EpochCheckpoint" ->
         [p EXCEPT !.secrets = InsertSecrets(NoSecrets, o.secrets, x), !.name = o.name]
    [] o.op = "SecretDeleted" ->
         [p EXCEPT !.secrets = Tombstone(@, {o.secret}, x)]
    [] o.op = "SecretReplaced" ->
         [p EXCEPT !.secrets = InsertSecrets(Tombstone(@, {o.old}, x), {o.new}, x),
                   !.replaced = NoteReplacement(@, o.old, x, o.new)]
    [] o.op = "SecretConflictResolved" ->
         [p EXCEPT !.secrets = Tombstone(@, o.rejected, x),
                   !.replaced = Restrict(@, DOMAIN @ \ {o.old})]
    [] o.op = "VaultNamed" -> [p EXCEPT !.name = x]
    [] OTHER -> p

Step(E, p, x) ==
  [ApplyOperation(p, x, E[x].operation) EXCEPT !.epoch = E[x].epoch]

FoldOrder(E, order) ==
  LET after[n \in 0..Len(order)] ==
        IF n = 0 THEN EmptyProjection ELSE Step(E, after[n - 1], order[n])
  IN  after[Len(order)]

(***************************************************************************)
(* topological_order() as a sequence. A batch is collected when all of the *)
(* last one is placed, and is placed in the order of ids; `before` is what *)
(* was placed when the current batch was collected.                        *)
(***************************************************************************)
Place(g, s) ==
  LET placed == Range(s.order)
      open   == ReadyAfter(g, s.before) \ placed
      left   == IF open # {} THEN open ELSE ReadyAfter(g, placed)
  IN  [order  |-> Append(s.order, CHOOSE x \in left : \A y \in left : x <= y),
       before |-> IF open # {} THEN s.before ELSE placed]

Sorting(g) ==
  LET sorted[n \in 0..Cardinality(Applicable(g))] ==
        IF n = 0 THEN [order |-> <<>>, before |-> {}] ELSE Place(g, sorted[n - 1])
  IN  sorted

TopologicalOrder(g) == Sorting(g)[Cardinality(Applicable(g))].order

Projection(E, S) == FoldOrder(E, TopologicalOrder(LoadGraph(E, S)))

LiveSecrets(P, secrets) ==
  {s \in DOMAIN secrets :
     \/ secrets[s].deleted = Alive
     \/ ~IsAncestor(P, secrets[s].by, secrets[s].deleted)}

(* detect_replacement_conflicts(): the candidates of every conflict. *)
ReplacementConflicts(P, replaced) ==
  Restrict(replaced,
    {s \in DOMAIN replaced :
       \E q, r \in replaced[s] : AreConcurrent(P, q[1], r[1])})

-----------------------------------------------------------------------------
Epoch == Of(events, DOMAIN events, {"DeviceRevoked"}) \cup {InitialEpoch}

(* What a tab that projects the events in S remembers of the vault. *)
Vault == [secrets : SUBSET Secret, name : Id \cup {Unnamed}, members : SUBSET Device]

Opened(E, S) ==
  LET p == Projection(E, S)
  IN  [secrets |-> LiveSecrets(Stored(E, S), p.secrets),
       name    |-> p.name,
       members |-> Roster(E, S)]

(* What the store of device d shows. *)
View(d) == Projection(events, store[d])
Shown(d) == Opened(events, store[d]).secrets
Conflicts(d) == ReplacementConflicts(Stored(events, store[d]), View(d).replaced)

Creates(o) ==
  CASE o.op \in {"SecretsAdded", "EpochCheckpoint"} -> o.secrets
    [] o.op = "SecretReplaced" -> {o.new}
    [] OTHER -> {}

Deletes(o) ==
  CASE o.op = "SecretDeleted" -> {o.secret}
    [] o.op = "SecretReplaced" -> {o.old}
    [] o.op = "SecretConflictResolved" -> o.rejected
    [] OTHER -> {}

FreshSecrets == Secret \ UNION {Creates(events[x].operation) : x \in DOMAIN events}

-----------------------------------------------------------------------------
(***************************************************************************)
(* Genesis imports secrets, and the other members were approved one after  *)
(* the other; all of them hold that history.                               *)
(***************************************************************************)
Genesis(imported) ==
  [parents |-> {}, actor |-> Owner, kind |-> "VaultImported", device |-> Owner,
   epoch |-> InitialEpoch,
   operation |-> [op |-> "SecretsAdded", secrets |-> imported]]

Approval(parent, member) ==
  [parents |-> {parent}, actor |-> Owner, kind |-> "JoinApproved",
   device |-> member, epoch |-> InitialEpoch, operation |-> Other]

Init ==
  \E members \in {q \in [1..Cardinality(Member) -> Member] :
                    q[1] = Owner /\ \A i, j \in DOMAIN q : q[i] = q[j] => i = j},
     ids \in [1..Cardinality(Member) -> Id],
     imported \in SUBSET Secret :
       /\ \A i, j \in DOMAIN ids : ids[i] = ids[j] => i = j
       /\ events = [x \in {ids[i] : i \in DOMAIN ids} |->
                      LET i == CHOOSE i \in DOMAIN ids : ids[i] = x
                      IN  IF i = 1 THEN Genesis(imported)
                          ELSE Approval(ids[i - 1], members[i])]
       /\ store = [d \in Device |-> IF d \in Member THEN DOMAIN events ELSE {}]
       /\ keyEpoch = [d \in Device |-> [t \in Tab |-> InitialEpoch]]
       /\ memory = [d \in Device |-> [t \in Tab |-> Opened(events, store[d])]]

(***************************************************************************)
(* A tab projects the vault anew after it changed the store, and on every  *)
(* synchronization. A device that is not a member is locked and keeps what *)
(* it had. So may a tab whose keys were retired by another tab's rotation: *)
(* which of them cannot decrypt is left open, EpochRecovery has the keys.  *)
(***************************************************************************)
MayOpen(d, E, S) == d \in Roster(E, S)
MayFail(d, t, E, S) == d \notin Roster(E, S) \/ Tab # {t}

Refresh(d, t, E, S) ==
  \/ MayOpen(d, E, S) /\ memory' = [memory EXCEPT ![d][t] = Opened(E, S)]
  \/ MayFail(d, t, E, S) /\ UNCHANGED memory

(***************************************************************************)
(* Appending one event on the heads of the store, under the tab's label.   *)
(***************************************************************************)
NewEvent(d, t, kind, device, operation) ==
  [parents |-> Heads(LoadGraph(events, store[d])), actor |-> d, kind |-> kind,
   device |-> device, epoch |-> keyEpoch[d][t], operation |-> operation]

Sign(id, e) ==
  [x \in DOMAIN events \cup {id} |-> IF x = id THEN e ELSE events[x]]

Applies(E, S, id) == id \in Applicable(LoadGraph(E, S))

AppendOperation(d, t, id, kind, operation) ==
  /\ store[d] # {}
  /\ id \in Id \ DOMAIN events
  /\ \E e \in {NewEvent(d, t, kind, d, operation)} :
       /\ Applies(Sign(id, e), store[d] \cup {id}, id)
       /\ events' = Sign(id, e)
  /\ store' = [store EXCEPT ![d] = @ \cup {id}]
  /\ Refresh(d, t, events', store'[d])
  /\ UNCHANGED keyEpoch

AddSecret(d, t, id, s) ==
  /\ s \in FreshSecrets
  /\ AppendOperation(d, t, id, "Mutation", [op |-> "SecretsAdded", secrets |-> {s}])

(* Deleting and replacing go by the tab's memory, resolving by the store. *)
DeleteSecret(d, t, id, s) ==
  /\ s \in memory[d][t].secrets
  /\ AppendOperation(d, t, id, "Mutation", [op |-> "SecretDeleted", secret |-> s])

ReplaceSecret(d, t, id, old, new) ==
  /\ old \in memory[d][t].secrets
  /\ new \in FreshSecrets
  /\ AppendOperation(d, t, id, "Mutation",
                     [op |-> "SecretReplaced", old |-> old, new |-> new])

ResolveConflict(d, t, id, old, chosen) ==
  /\ old \in DOMAIN Conflicts(d)
  /\ \E candidates \in {{c[2] : c \in Conflicts(d)[old]}} :
       /\ chosen \in candidates
       /\ AppendOperation(d, t, id, "Mutation",
                 [op |-> "SecretConflictResolved", old |-> old,
                  rejected |-> candidates \ {chosen}])

NameVault(d, t, id) == AppendOperation(d, t, id, "Mutation", [op |-> "VaultNamed"])

MergeHeads(d, t, id) ==
  /\ Cardinality(Heads(LoadGraph(events, store[d]))) > 1
  /\ AppendOperation(d, t, id, "Merge", Other)

RequestAccess(d, t, id) ==
  /\ d \notin Roster(events, store[d])
  /\ AppendOperation(d, t, id, "JoinRequested", Other)

(***************************************************************************)
(* A rotation on a single head of the store: the victim is a member that   *)
(* the tab knows, and the checkpoint carries, under new keys, the secrets  *)
(* and the name that the tab has in memory. Nothing compares these with    *)
(* the store. The checkpoint names the trigger r as its epoch, which the   *)
(* tab uses from then on.                                                  *)
(***************************************************************************)
\* Mutant: the records are taken from the projection, tombstones included.
CheckpointSecrets_WithTombstones(d, t) == DOMAIN View(d).secrets

CheckpointSecrets(d, t) == memory[d][t].secrets

\* Mutant: the new epoch starts without a name.
CheckpointName_Dropped(d, t) == Unnamed

CheckpointName(d, t) == memory[d][t].name

\* Mutant: the tab labels its events with the checkpoint.
AdoptedEpoch_Checkpoint(r, c) == c

AdoptedEpoch(r, c) == r

RotateEpoch(d, t, r, c, victim) ==
  /\ {r, c} \subseteq Id \ DOMAIN events
  /\ r # c
  /\ d \in Roster(events, store[d])
  /\ victim \in memory[d][t].members \ {d}
  /\ \E trigger \in {NewEvent(d, t, "DeviceRevoked", victim, Other)},
        checkpoint \in {[parents |-> {r}, actor |-> d, kind |-> "EpochCheckpoint",
                         device |-> victim, epoch |-> r,
                         operation |-> [op |-> "EpochCheckpoint",
                                        secrets |-> CheckpointSecrets(d, t),
                                        name |-> CheckpointName(d, t)]]} :
       /\ Cardinality(trigger.parents) = 1
       /\ events' = [x \in DOMAIN events \cup {r, c} |->
                       IF x = r THEN trigger
                       ELSE IF x = c THEN checkpoint ELSE events[x]]
  /\ store' = [store EXCEPT ![d] = @ \cup {r, c}]
  /\ keyEpoch' = [keyEpoch EXCEPT ![d][t] = AdoptedEpoch(r, c)]
  /\ Refresh(d, t, events', store'[d])

(***************************************************************************)
(* Merging what another device has published, which may be nothing new. A  *)
(* tab that can open the vault takes the projected epoch for its own; a    *)
(* revoked device is locked out, and one that only asked to join keeps     *)
(* what it has.                                                            *)
(***************************************************************************)
Adopt(d, t, E, S) ==
  \/ MayOpen(d, E, S) /\ keyEpoch' = [keyEpoch EXCEPT ![d][t] = Projection(E, S).epoch]
  \/ MayFail(d, t, E, S) /\ UNCHANGED keyEpoch

Sync(d, t, other) ==
  /\ \E S \in {UnionRemote(events, store[d], store[other])} :
       /\ SecurityConflicts(events, S) = {}
       /\ store' = [store EXCEPT ![d] = S]
       /\ Adopt(d, t, events, S)
       /\ Refresh(d, t, events, S)
  /\ UNCHANGED events

Next ==
  \E d \in Device, t \in Tab :
    \/ \E id \in Id :
         \/ \E s \in Secret : AddSecret(d, t, id, s) \/ DeleteSecret(d, t, id, s)
         \/ \E old, new \in Secret :
              \/ ReplaceSecret(d, t, id, old, new)
              \/ ResolveConflict(d, t, id, old, new)
         \/ NameVault(d, t, id)
         \/ MergeHeads(d, t, id)
         \/ RequestAccess(d, t, id)
    \/ \E r, c \in Id, victim \in Device : RotateEpoch(d, t, r, c, victim)
    \/ \E other \in Device : Sync(d, t, other)

Spec == Init /\ [][Next]_vars

-----------------------------------------------------------------------------
(***************************************************************************)
(* Correctness. A rotation by a tab that has not projected what another    *)
(* tab of its browser appended passes every check and puts the tab's old   *)
(* memory in the checkpoint: NoResurrection, NothingLost and NameIsCurrent *)
(* hold where each device has one tab, and fail with two.                  *)
(***************************************************************************)

(* Type invariant of the signed events, the stores, the epoch labels and   *)
(* the memory of the tabs: a label is the initial epoch or names the       *)
(* revocation that started one.                                            *)
TypeOK ==
  /\ DOMAIN events \subseteq Id
  /\ \A x \in DOMAIN events :
       /\ events[x].parents \subseteq DOMAIN events
       /\ events[x].epoch \in Epoch
       /\ events[x].operation \in Operation
  /\ store \in [Device -> SUBSET DOMAIN events]
  /\ keyEpoch \in [Device -> [Tab -> Epoch]]
  /\ memory \in [Device -> [Tab -> Vault]]

(***************************************************************************)
(* Every order of the applicable events that the causal order allows, and  *)
(* the secrets that are live when the events are folded in that order.     *)
(***************************************************************************)
Longer(E, A, q) ==
  {Append(q, x) : x \in {x \in A \ Range(q) : E[x].parents \subseteq Range(q)}}

Linearizations(d) ==
  LET A == Applicable(LoadGraph(events, store[d]))
      begun[n \in 0..Cardinality(A)] ==
        IF n = 0 THEN {<<>>} ELSE UNION {Longer(events, A, q) : q \in begun[n - 1]}
  IN  begun[Cardinality(A)]

LiveIn(d, order) ==
  LiveSecrets(Stored(events, store[d]), FoldOrder(events, order).secrets)

DeletedBy(order) == UNION {Deletes(events[x].operation) : x \in Range(order)}

(***************************************************************************)
(* A secret that some event deleted, replaced or rejected is not live, in  *)
(* no tie-break of the topological order, although checkpoints of later    *)
(* rotations create the secrets of the vault anew (from_graph,             *)
(* prepare_security_epoch_rotation). One tab per device.                   *)
(***************************************************************************)
NoResurrection ==
  \A d \in Device : \A q \in Linearizations(d) : LiveIn(d, q) \cap DeletedBy(q) = {}

(***************************************************************************)
(* A secret that some event created is live, in every tie-break, unless an *)
(* event deletes exactly this secret: no rotation, merge or concurrent     *)
(* replacement loses one (from_graph, live_secrets, union_remote,          *)
(* prepare_security_epoch_rotation). One tab per device.                   *)
(***************************************************************************)
NothingLost ==
  \A d \in Device : \A q \in Linearizations(d) :
    UNION {Creates(events[x].operation) : x \in Range(q)}
      \subseteq LiveIn(d, q) \cup DeletedBy(q)

(***************************************************************************)
(* Whatever the tie-break, the name shown is the one given by an event     *)
(* that no later naming has seen; a rotation, which carries the name into  *)
(* the new epoch, neither drops nor reverts it (VaultNamed, EpochCheckpoint*)
(* and VaultNameEpochReencryption). One tab per device.                    *)
(***************************************************************************)
NameIsCurrent ==
  \A d \in Device :
    LET P == Stored(events, store[d])
    IN  \A q \in Linearizations(d) :
          LET named  == {x \in Range(q) : events[x].operation.op = "VaultNamed"}
              latest == {x \in named : \A y \in named : x \notin Reach(P, y)}
          IN  named # {} => FoldOrder(events, q).name \in latest

(***************************************************************************)
(* Concurrent replacements of one secret whose results are both live form  *)
(* a conflict group on the old secret, until an event that the device has  *)
(* applied resolves a conflict on it (detect_replacement_conflicts). This  *)
(* holds with any number of tabs: no checkpoint touches replacements.      *)
(***************************************************************************)
ConflictGroup ==
  \A d \in Device :
    LET A == Applicable(LoadGraph(events, store[d]))
        P == Stored(events, store[d])
        shown    == Shown(d)
        groups   == DOMAIN Conflicts(d)
        op(x)    == events[x].operation
        repl     == {x \in A : op(x).op = "SecretReplaced" /\ op(x).new \in shown}
        resolved == {op(x).old : x \in {x \in A : op(x).op = "SecretConflictResolved"}}
    IN  \A x, y \in repl :
          op(x).old = op(y).old /\ AreConcurrent(P, x, y)
            => op(x).old \in groups \cup resolved
=============================================================================
