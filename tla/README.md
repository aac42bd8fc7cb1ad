# Nook: vault replication in TLA+

Nook is a local-first secrets manager. A vault is a set of immutable, signed
events. Each device keeps its own copy in IndexedDB, publishes it to storage the
user chose (Drive, GitHub, S3, a folder, ...), and merges what it finds there.
No server orders anything, so correctness rests on the following, which this
project models:

1. the **causal graph** (`nook-replication`) that decides which events are
   applicable, pending or rejected, whatever the order of delivery;
2. the **vault event graph** (`nook-event-log`) that decides who may write, how
   a key epoch is rotated, and what is accepted from a provider;
3. the **synchronization** (`nook-wasm`) that commits, queues, publishes and
   pulls events in steps that can be cut short;
4. the **identity** that owns vaults: the identity control log decides who its
   members are, and the identity directory which key epoch it has recorded;
5. the **Sentinel ceremonies** that create and open vaults whose key is split
   among several devices.

Source paths below are relative to `src/nook-app/nook-platform/`.

## 1. Inventory

| Component | State | Operations | Interaction | What is hard | Correct when |
|---|---|---|---|---|---|
| Causal graph, `nook-replication/src/causal_graph.rs`, `union.rs` | parents, quarantine roots, cyclic ids, quarantined ids | insert, quarantine, union; heads, applicable, pending, topological order | owned by the event graph and the identity log | delivery order, duplicates, conflicting parents, cycles, incremental bookkeeping | the graph is a function of what was delivered; rejection is final; heads are the frontier; sorting cannot fail |
| Event graph, `nook-event-log/src/graph*` | events + causal graph | insert, load, authorize, roster | built from the local store on every operation | authorization depends on the causal past, which arrives late | no store keeps a rejected event; roster and authorization agree |
| Security epochs, `remote_epoch_visibility.rs`, `epoch.rs`, `projection/security_conflicts.rs` | none (derived from the graph) | incomplete rotations, visibility gate, publishing priority, conflicts | used by the store's union and by the flush | a rotation is two events, published and read one by one | rotations are seen whole; nothing comes between trigger and checkpoint; conflicts are never merged |
| Local store and union, `store.rs`, `store/remote.rs` | event bytes by id | append, union_remote | called inside IndexedDB transactions | a union removes local events too | applied history is never taken back |
| Durable persistence, `nook-wasm/src/storage/event_db/security_epoch.rs` | events, index, heads | append, append_epoch_pair, union_remote, each one transaction | called by the manager | read-then-append races with other tabs | the frontier is re-checked inside the transaction |
| Outbox and provider sync, `storage/event_db/outbox.rs`, `manager/event_log/provider_sync.rs` | outbox rows and index per provider | queue, flush, acknowledge, repair, pull | timer and user operations of the web app; provider adapters | crash between transactions, failed requests, retries | every event reaches the provider, checkpoints before triggers |
| Rotation, `manager/event_log/security_epoch.rs` | persisted recovery plan in a marker | prepare, mark, commit the pair, complete, abort, resume | persistence, outbox, identity directory | a crash at each step, another tab at each step, a frontier that moved on | a rotation happens once or not at all, and the identity follows it |
| Identity directory, `nook-wasm/src/storage/identity_record/reconciliation*`, `nook-auth2/src/auth/identity_epoch.rs` | per identity and vault: recorded epoch and checkpoint; the reconciliation marker | observe, resolve, persist, clear | every connection and every rotation | it is a second record of the epoch, updated in transactions of its own | it never goes back and is never left behind |
| Membership, `manager/multi_device.rs`, `self_enrollment.rs`, `member_lifecycle.rs` | session metadata | request, approve, deny, revoke, self-enroll | append events, rotate | concurrent changes on other devices | only members write |
| Projection, `nook-event-log/src/projection.rs` | secrets, names, conflicts, epoch | fold over topological order | session state, conflict detection, key choice | independence of the tie-break | deleted secrets stay deleted, nothing else disappears, concurrent replacements are reported |
| Identity control log, `nook-event-log/src/identity_control/*`, `nook-wasm/src/manager/identity_control/*` | a second signed log per identity, and the local directory that mirrors its members | add, invite, join, approve, deny, revoke, recover, synchronize | provider; local identity record, to whose members vault keys are wrapped | authorization by causal past, one-time invites, removed passphrases, order of delivery | replicas agree on the members; no removed member or word admits anybody |
| Sentinel vaults, `nook-wasm/src/manager/sentinel*`, `storage/sentinel_storage.rs`, `nook-auth2/src/sentinel_genesis*`, `sentinel_unlock*` | genesis: the collecting session, the phase shown, the journaled plan, projection, root, heads, share deliveries; unlock: the loaded vault with its share records and roster, the unlock session, installed keys | invite, respond, collect, issue and carry out, deliver, accept; load, start unlock, respond, collect, finalize | links or QR codes between devices; the event store and IndexedDB; the web application's helpers | a tab closed between two writes, two tabs on one journal, replayed links, a vault switched during an unlock, a completion that fails half way | one vault per ceremony, with one root, and no share of an unfinished one; keys only after a quorum, of the loaded vault, for participants |
| Replica store, `nook-replication/src/replica_store.rs` | maps of event bytes and outbox entries | insert, read | wrapped by the local store | none of its own | what the local store does with it is modelled there |
| `nook-core`, `nook-auth2` (the rest) | none relevant here | encryption, key derivation, formats | - | - | not modelled |
| Provider adapters, companion and extension, web UI, tooling | - | - | - | - | not modelled |

`PROJECT.json` lists the components with the reasons for leaving parts out, and
the hazards with the line where each one bites.

## 2. Modules

    CausalOps              operators on one causal graph (pure)
      CausalGraph          replicas that insert, reject and merge
      VaultEvents          authorization, rotations, union_remote (pure, over CausalOps)
        VaultReplication   abstract: devices, stores, one provider
          VaultSync        detailed: outbox, flush, crashes; implements VaultReplication
        VaultProjection    what a device shows: the fold, edits, rotations
    EpochLedger            abstract: the epochs of a vault and what an identity records of them
      EpochRecovery        detailed: plan, marker, identity directory, crashes, several tabs
    OutboxTabs             two tabs and one outbox, transaction by transaction
    IdentityControl        members of an identity: log, provider, local directory
    SentinelGenesis        creating a Sentinel vault: ceremony, journal, deliveries
    SentinelUnlock         opening one: sessions, answers, quorum, keys

The modules `MC...` bound these for TLC. Eight modules hold proofs and extend what
they are about (section 5): `EventGraphProofs` (CausalOps and CausalGraph, and the
lemmas about VaultEvents), on which two others build, `VaultSyncProofs` (with
VaultReplication) and `VaultProjectionProofs`; and `EpochRecoveryProofs`,
`OutboxTabsProofs`, `IdentityControlProofs`, `SentinelGenesisProofs` and
`SentinelUnlockProofs`.
In every module an operator whose name ends in `_Something` and whose comment
starts with "Mutant" is a wrong variant of the operator that follows it. It is
used only to check that some property would notice.

**CausalOps.** A graph is a record with the four fields of the struct. `Reach`
is the walk over parents, stated as the least closed set rather than as a loop.
Parent lists are sorted and deduplicated by `normalize_parents`, so they are
sets; `ParentsLess` is the lexicographic order that `insert` and `union` use to
keep the smaller list. Reasons are strings of which only the order matters:
2, 4 and 6 stand for the three fixed strings in their byte order, and
applications may use others in between.

**CausalGraph.** `Insert`, `Quarantine` and `Union` are the three methods that
change a graph. `delivered` and `rejections` are history variables. The
specification is `GraphSpec`, since the proofs about the vault extend this module
together with one that has a `Spec` of its own.

**VaultEvents.** An event id is a hash of the event, parents included. One
function from ids to events therefore describes all events, and a graph is
given by a set of ids. That also rules out conflicting parent sets and cycles at
this level, which `CausalOps` still allows. `Authorized` is
`authorized_actors_before`, `Rejects`/`LoadGraph` the quarantine fixpoint of
`load_graph`, `Incomplete` is `incomplete_security_transition_events`,
`UnionRemote` is `union_remote` with its gate and its excluded set. Operations
that all rules treat alike share a kind.

**VaultReplication.** The promise: devices change the vault by one named
operation at a time (`Edit`, `MergeHeads`, `RequestAccess`, `ApproveJoin`,
`ApproveExtension`, `Enroll`, all through `Append`, and `RevokeMember`, through
`Rotate`), `Publish` one event and `Pull` any part of what the provider holds.
`Append` and `Rotate` are one step each because `VaultEventPersistence` re-reads and re-checks the
frontier in the transaction that writes. `Publish` of a trigger requires its
checkpoint at the provider. `Stray` is external: an event at the provider whose
signer its past does not authorize.

**VaultSync.** The same devices with their outbox: it extends VaultReplication
with the outbox and the flush, `SignAndQueue`, `RotateAndQueue` and `Merge` are
its operations with what they do to the outbox, and `ImplementsReplication` is
its specification `Spec`, over the variables the two share. Committing an event and
queueing it are separate transactions, so a crash leaves any prefix queued.
`StartFlush` lists and sorts the outbox, `Put`/`ClearRow`/`DropFromIndex`
work off a row, `StartRepair`/`Put`/`Repaired` publish the rest of the
store, `Fail` is a failed request or a closed tab, and `CloseDuringRemoval` a
tab closed between the two transactions of `remove_outbox_entry`. Operations of
one tab do not interleave with each other: the web application runs them
through one queue (`enqueueStorage` in the shared web code).

**VaultProjection.** The events carry the operation they stand for and the key
epoch their author believed current. `FoldOrder` is the loop of `from_graph`,
`Step` one turn of it, `ApplyOperation` its match over operations, and
`TopologicalOrder` the order it uses: batches of ready events, each in id order,
placed one event at a time (`Place`). These loops are recursive functions of the
number of turns. A projected secret is the pair of the
event that created it and the last one that deleted it, and is live unless the
deletion had seen the creation (`ProjectedSecret::is_live`). A checkpoint starts
from nothing and creates the secrets it carries anew.

Each device has the tabs in `Tab`, which share its event store. What a tab works
from is its memory, as in the code: `memory[d][t]` holds the secrets, the name and
the members that the session projected last (`Opened`), `keyEpoch[d][t]` its epoch
label. Deletions, replacements and the victim of a rotation are chosen from that
memory; a checkpoint carries its secrets and its name (`CheckpointSecrets`,
`CheckpointName`: `stored_records_snapshot` and `projected_name` in
`prepare_security_epoch_rotation`); parents come from the store
(`load_event_heads`), and nothing compares the two. `Refresh` is the projection
into the session that follows an append and a merge (`persist_built_vault_event`,
`persist_merged_remote_events`), `Adopt` the new label. Both change nothing on a
device that is not a member, and may fail in a tab whose keys another tab's
rotation has retired. All tabs are open from the start, writes to the database
succeed, and devices exchange whole stores.

The properties quantify over `Linearizations`, every order that causality
allows: ids are hashes, so any tie-break can be the one that occurs. Members are
finitely many and were approved before the history that is explored; approvals
during it, and after a revocation, are the business of VaultReplication.

**EpochRecovery.** One device whose tabs share IndexedDB, and other devices that
rotate and append. A rotation goes through `Prepare`, `Mark` (the plan is saved
in the marker), `AppendPair` (one transaction), `CommitEpoch` and
`CommitCheckpoint` (the two stages of the marker), then `Observe`, `Resolve`,
`Persist` and `ClearConsumed` bring the identity directory forward. `session[t]`
holds what a tab read before its next transaction. `Crash` is possible
everywhere; `Connect` and `Resume` are what a tab does when it is opened again.
`Ledger` is the refinement mapping: `INSTANCE EpochLedger WITH` the triggers in
the store, the newest of them that the recorded checkpoint has seen, and the
rotation that the marker names.

**OutboxTabs.** `append_outbox_index` and `remove_outbox_entry` read the index in
one transaction and write it in another; `LoadIndex` and `LoadRows` are the two
of `load_outbox`. Every transaction is a step, so two tabs lose each other's
updates as the code does.

**IdentityControl.** An event keeps its causal past with it. A log is the ids it
holds and the ids rejected in their own right; `InsertInto` is `insert` with the
passes of `quarantine_unauthorized` (`Pass`, repeated by `Settle` until one rejects
nothing), `LoadLog` the reload in id order. `FounderAssumption` says of the
constant `History` that what the founder did applied; the code stores nothing else.
`Unauthorized` is `unauthorized_reason`: the signer must be a member in the
event's own past, a join needs its invite and must be the first on it, and
`RevokedRecoveryRejection` is the rule about removed recovery passphrases.
`disk` is what an installation stored, `memory` what it projected last,
`directory` the local identity record. An action is one manager operation; the
operations that talk to a provider have a variant in which the request fails
half way (`SyncCut`, and the second alternative of `Recover` and
`JoinByInvite`). Keys of vaults, names and mounts ride on events that are all
`Note` here.

**SentinelGenesis.** `tab[t]` is the memory of one tab of the initiator: the
session that collects responses, the phase shown, and, while a finalization
runs, its next write (`pc`) with its plan. Every write of
`complete_sentinel_genesis_finalization` is an action of its own: `SaveJournal`,
`SaveProjection`, `CheckRoot`/`WriteRoot` (the look into the event store and the
append are separate transactions), `SaveHeads`, `SaveOwnShare`, `ClearJournal`.
`Close` and `RequestFails` may come between any two, and `Open` resumes a
journaled plan from its first write. Requests, responses and deliveries are sets
of records from which anything may be taken at any time and again; a signature
is that only its signer adds the record. `Issue` consumes the session and draws a
fresh store id. A root carries its date, so `roots` counts the distinct ones.

**SentinelUnlock.** For each device: the vault in its session (`loaded`), the
share records it has of it (none, its own, all), whether it knows the roster, the
keys installed and the unlock session. `Connect` and `InstallDelivery` are the
two ways a vault gets into a session; only the second keeps an unlock session
under way. `Authorized` has the two sources of the code, the roster of the log
and the stored delivery. `FinalizeUnlock` consumes the session and installs keys,
`UnlockCommitted` or `UnlockFailed` ends the completion, `FinalizeRejected` is a
quorum that fails in the context it meets. `opened` and `spent` are history. The
core lets a device respond in any state.

## 3. Runs

| Run | Bounds | Distinct states | Shows |
|---|---|---|---|
| causal_graph | 3 ids, any parents, 2 replicas, 4 deliveries or rejections of which at most 3 when both replicas are told something, merges in any direction, replica symmetry | 60,310 | order independence, final rejection, heads, sorting |
| vault_epochs | 2 devices, 5 events; events of every kind and one stray event in histories of up to 4; partial reads | 105,069 | rotations seen whole, sealed, never merged with a conflict; nothing rejected is kept, nothing applied is lost |
| vault_sync | 2 devices, 6 events with at most 2 outside rotations (3 without rotations); up to 4 events also partial reads and a tab closed while a row is removed; failing flushes | 68,282 | refinement of VaultReplication, convergence |
| outbox_retry | 2 devices, 2 events, one tab closed during row removal | 310 | violated, see findings |
| vault_content | 2 members with 1 tab each; 6 events with edits of secrets, or 7 with names of the vault; 3 secrets | 19,581 | no resurrection, nothing lost, current name, conflict groups |
| epoch_recovery | 1 tab, 8 events, 2 crashes, a vault that was rotated before | 115,229 | one key, refinement of EpochLedger, rotations and connections end |
| epoch_tabs | 2 tabs, 6 events, 1 crash, tab symmetry | 687,437 | epochs never fork, the directory never goes back |
| outbox_tabs | 2 tabs, an edit and a rotation, 1 failure, tab symmetry | 142,904 | a flush that succeeds has published everything |
| identity_invite | 3 installations, one invite, 3 events after it: joins, removals, cut synchronizations | 14,073 | one join per invite, convergence |
| identity_recovery | 2 installations, 2 recovery passphrases, an outsider; 3 events of every kind, 2 where one is an invite or a `Note` that only adds to the others' past | 84,769 | order independence, honest events stand, removed words admit nobody, the local directory |
| sentinel_genesis | 1 tab, 2 peers of which a vault needs one, 2 ceremonies, 2 store ids, 2 crashes or failures | 204,469 | full roster, one issuance per ceremony, one root, shares of finished vaults only, journaled plans are carried out |
| sentinel_unlock | 2 participants and a device that only reads, 2 vaults, 2 unlock sessions, symmetry | 571,470 | quorum behind keys, keys of the loaded vault, only participants open, a quorum is spent once |

*Why the bounds are enough to be interesting.* Three ids give cycles of every
length up to three, a diamond is not needed because rejection spreads along
paths; four deliveries reach a second parent set for a member of a three-cycle.
Five events are genesis, an approval, a rotation (two events) and something
concurrent with, before or after it; six with two outside rotations are genesis,
an approval and two rotations, so the outbox and repair lists hold two pairs at
once. In vault_content six events are genesis, an approval, two concurrent
replacements or deletions, and a resolution, a merge or a rotation around them;
seven are two concurrent names, their merge and a rotation that carries one of
them into the new epoch. Three of its properties need one tab per device (see
below); the other two are proved for any number of tabs. In epoch_recovery eight events are a rotated vault, a
rotation by this device and one by another, and an edit. Three events on top of
an invite are two joins and a removal. Ids are numbered in the order of signing
where no rule depends on their order: the flush, which sorts by id, is modelled
with any order within a priority, the properties of the projection quantify over
every tie-break, and IdentityControl, whose rule for invites compares ids, gives
a new event any unused id. In sentinel_genesis a second peer can answer a
ceremony that has room for one, and a second ceremony can meet the responses of
the first; two failures interrupt a plan and its resumption; new ids are drawn
in a fixed order, being interchangeable. In sentinel_unlock the second vault is
the one to switch to during an unlock, the second session the one whose old
answers are replayed. Quorums of more than two are left to the proof.

*Types.* The type invariants of CausalGraph, VaultReplication, VaultProjection,
VaultSync, OutboxTabs, EpochRecovery, IdentityControl and SentinelUnlock are proved
(section 5), and so are the types of SentinelGenesis, as part of its inductive
invariant.

*Deadlock* is not checked where a bounded history simply ends. It is checked in
epoch_recovery, epoch_tabs, outbox_tabs and the Sentinel runs, in which some tab
or device can always go on.

*Fairness.* vault_sync and outbox_retry: the web application synchronizes on
an interval timer for as long as it is open (`sync-schedule.ts`), so a flush is
started again and again while the store holds something the provider lacks, and
a started flush goes on unless it fails. Requests are assumed to fail finitely
often, since otherwise no protocol could publish anything. A read that sees
everything is assumed to happen again and again when it would change something.
The strong fairness of reading is written out with its enabling condition
because evaluating ENABLED on it is too slow. epoch_recovery: a transaction or
computation that was started ends, and a tab that was closed is opened again
(weak fairness of each tab's `Step`); crashes are bounded, rotations and edits
have no fairness. identity_invite: an unlocked installation synchronizes its
log with the provider again and again, and such a synchronization eventually
succeeds (weak fairness of `SyncAll`). Users' operations have no fairness.
sentinel_genesis: a finalization that has begun goes on to its next write, a
closed page is opened again (which resumes the plan), and a page that says it
awaits completion is asked to finalize again, as it tells the user to; failures
are bounded.

## 4. Findings

**A closed tab can block the outbox (outbox_retry).** `remove_outbox_entry`
first overwrites the row with an empty string and later, in another transaction,
removes the id from the index. If the tab is closed in between, the next flush
loads an indexed row with no event in it, fails to parse it while sorting, and
returns before it publishes or repairs anything. Nothing removes the row, so all
later flushes fail too. The documentation describes the outbox as a "Durable
per-provider retry queue". The safety properties are not affected:
`ImplementsReplication` holds with such crashes included.

### Limits of the properties

Some properties above are stated with an exception, because the code does not
meet the sentence of its documentation in that case. The exceptions were found
by model checking the unrestricted statement, and each can be reproduced by
dropping it:

- `AllUnderCurrentKey` is checked with one tab. `append_vault_operations`
  encrypts with the key and labels with the epoch the tab has in memory, and takes
  the parents from the database; after another tab committed a rotation, the first
  tab's next append lies on top of the new checkpoint under the retired key. The
  transaction compares the heads with the parents, not the epoch, although its
  comment gives just this race as its reason. (Added to
  epoch_tabs, this invariant fails within five events.)
- `NoResurrection`, `NothingLost` and `NameIsCurrent` are checked, and proved, with
  one tab per device. A rotation takes the records and the name of its checkpoint
  from the session (`security_epoch.rs:127`, `:137`); `load_event_heads`
  (`event_log.rs:198`), from which both the prepared and the persisted plan take
  the frontier, reads the database, and neither `revoke_vault_member` nor
  `rotate_security_epoch_classified` projects the store before it uses the
  session, unless there are several heads to merge. When another tab has added a secret, deleted one or renamed the vault meanwhile, the
  rotation of a tab that has not projected this passes every check, and its
  checkpoint drops the secret, creates the deleted one anew or brings back the old
  name. (`Tab = {t1, t2}` in `MCVaultContent.cfg` violates each of the three in two
  steps: the edit of one tab, the rotation of the other.) `TypeOK` and
  `ConflictGroup` do not need the restriction, and `OnlyStaleRotationsHarm` says
  that such checkpoints are all that a second tab adds.
- The same three properties assume that no write fails. Adding, replacing and
  deleting a secret change the session's records before the append
  (`secrets.rs:298`, `:72`, `:425`), and an append that fails does not change them
  back. A rotation that follows without a projection in between puts into its
  checkpoint what no event says: the secret that the failed deletion removed is
  then lost.
- Roster and authorization differ about a device that is approved again after its
  revocation: it is in `authorized_roster` (`roster.rs:72`), and
  `authorized_actors_before`, to which any revocation in the past is final,
  rejects what it writes. No property says that a member of the roster may write.
- `OneRoot` and `PlanCompletes` are checked with one tab.
  `ensure_sentinel_genesis_event` (`provider_io.rs:446`) loads the event store and,
  if it is empty, signs a root dated now and saves it in a later transaction. Two
  tabs that start while the journal is filled resume the same plan, both find the
  store empty, and save different roots; `load_graph` rejects such a store from
  then on. The comment at `provider_io.rs:438` promises no second root. The journal
  is one row, so a tab may also save or clear its plan over another's
  (`genesis_finalization.rs:157`, `:212`). (`Tab = {t1, t2}` in
  `MCSentinelGenesis.cfg` shows the two roots without any failure.)
- No property says that a share reaches its participant. Of the deliveries in a
  plan only the initiator's own is stored (`genesis_finalization.rs:204`) before
  the journal is cleared; the others live in the page that shows them, and a page
  that is closed takes them with it. The documentation
  (`.cortex/docs/architecture/sentinel-genesis.md:160`) says that a retry
  re-delivers the same artifact. The encrypted share is still inside the genesis
  event, but no operation makes a delivery of it.
- No property says that any participant is answered. The helper of the web
  application loads the stored delivery before it responds
  (`sentinel-unlock.ts:395`), which drops the roster (`delivery.rs:179`); what is
  left of the authorization admits the initiator only (`sentinel.rs:305`), who by
  the documentation "is not a privileged permanent owner"
  (`sentinel-genesis.md:153`).
- `ConflictGroup` excepts secrets whose conflict was resolved. Applying
  `SecretConflictResolved` forgets all replacements recorded for the old secret
  (`projection/operation_application.rs:87`); a replacement that is concurrent
  with the resolution is then live next to the chosen one without a conflict
  group.
- `OrderIndependent` (IdentityControl) excepts identities from which a recovery
  passphrase was removed. `revoked_recovery_rejection` looks at the revocations
  that are applicable at that moment (`identity_control/graph.rs:548`), and the
  rejection it causes stays in memory when the removal itself is rejected later;
  reading the log back gives other members.
- `InviteAdmitsOne` claims an admission only when the lowest join builds on
  nothing quarantined. `invite_join_rejection` (`graph.rs:491`) also counts a
  lower join that is quarantined for what it builds on, and the invite then
  admits nobody.
- An identity may lose its last app key: the guard of a revocation looks at the
  local log (`builder.rs:298`), two members that remove each other concurrently
  both see two app keys, and the merged log has none.
- `DirectoryMirrors` excepts identities in which somebody joined by invite or
  from which a recovery passphrase was removed. A join that lost its invite after
  it was mirrored is neither a member nor revoked, and
  `apply_replicated_membership` (`replication.rs:139`) removes only revoked ones:
  the local directory keeps it. So it does with an installation that a passphrase
  approved while a member, concurrently, removed that passphrase: a third
  installation that hears of the approval first mirrors it and keeps it. The
  second case takes three installations, more than the run has; it came up in
  the proof, in the step that projects a log.
- `ConnectSucceeds` starts from a vault that was rotated before. The epoch of a
  vault that was never rotated is no event, so `next_epoch`
  (`identity_epoch.rs:65`) never finds it among the ancestors of a checkpoint:
  an identity that recorded it and missed two rotations is refused at every
  later connection. It is checked with one tab: a tab that resumes a rotation
  while another completes it and prepares the next one sets the stage of the new
  plan (`progress.rs:77`), and connections fail from then on.
- `FlushPublishesAll` speaks of flushes that end. With two tabs, a lost index
  update (`outbox.rs:75`, `:126`) can put an emptied row back into the index,
  without any crash, and no later flush ends; or it can leave a queued trigger
  without its checkpoint, which the flush then publishes first. The order of
  publishing is therefore claimed for one tab only (`ImplementsReplication`).
- The projected epoch is the label of the last event in the order
  (`projection.rs:208`). An access request that a device without the new key
  appends on top of a rotation carries the old label, and takes it back. No
  property speaks of that label in VaultProjection beyond its type.
- `Converges` (VaultSync) leaves out a device whose row was left empty, and a
  provider that holds a security conflict, which stops merging by design.

## 5. Proofs

TLC checks small instances; the theorems below hold for every set of ids,
devices, tabs, reasons and replicas. They assume what the modules assume by
name: ids and policy reasons are natural numbers (ordered, and zero is no id of
VaultProjection), the owner is a device, the members of a projected vault are
finitely many devices and the owner is one, two rotations share no event,
installations, passphrases and outsiders are distinct keys, what the founder did
applied. None of the bounds of the `MC` modules is used. Where the code keeps a
promise for one open tab only, the theorem has the hypothesis `\A t, u \in Tab :
t = u`; "Limits of the properties" says what a second tab does.

**One causal graph (`EventGraphProofs`; its first part is on the walk over
parents).**

- `AlwaysOrderIndependent`: `GraphSpec => [](GraphTypeOK /\ OrderIndependent)`. The
  conjunction is inductive as it stands. The heart of it is that the cyclic set
  stays exact: `NewIdClosesOwnCycles` shows that a new id closes only cycles
  through itself, so extending the set by `cycle_members` is enough; that
  `ParentsLess` is a strict total order, so that keeping the smaller of two
  lists keeps the least of all (`MinParentsIsLeast`); and that merging two
  graphs merges least values (`UnionSound`).
- `AlwaysConverged`: `GraphSpec => []Converged`, since least values are unique.
- `RejectionIsFinal`: `GraphSpec => QuarantineIsFinal`. The key lemma,
  `RejectionGrows`, says that a change of parents only happens to ids that
  become roots, so an event that is not rejected afterwards had at most these
  ancestors before.
- `HeadsAreTheFrontier`: `GraphSpec => []HeadsAreFrontier`. A set of ids need not be
  finite, but a graph is (`Finite`, an invariant of its own: each step delivers
  one event). Of an event and those above it, one with the largest past is
  taken (`SmallestSubset`). An event that is not rejected and names it as a parent would
  have a larger past, since nothing that is not rejected is on a cycle. So it is
  a head.
- `SortingNeverFails`: `GraphSpec => []SortNeverFails`. Of the applicable
  events that are left, one with the smallest past has no ancestor among them,
  so it is ready (`SomeEventIsReady`). Each batch places at least one event until
  none is left, so as many batches as there are applicable events are enough
  (`BatchesMakeProgress`). What the loop computes after n batches is argued by a
  least n for which it fails, which needs no induction theorem.

**The vault (`EventGraphProofs`, last part, on loading, merging and signing;
`VaultSyncProofs`, first part).**

- `StoresStaySound`, `NothingRejectedIsKept`, `ConflictsStayOut`:
  `Spec => [](TypeOK /\ WholeEpochs /\ NothingRejected /\ NoConflictAdmitted)`.
- `RotationIsOneStep`: `Spec => []EpochSealed`.
- `HistoryIsKept`: `Spec => AppliedIsKept`.

The argument has two halves. *What one device applies does not depend on the
device.* Authorization and the place of a checkpoint are judged by the causal
past of an event, and an applicable event has all of its past in the store; so
it was judged by its whole past (`ApplicableIsAccepted`), and every device that
applies it agrees. `Accepted` is the set of events that a device with the whole
history would apply. From this, a merge never drops what was applied before
(`MergeKeepsApplied`), leaves nothing rejected (`MergeRejectsNothing`) and no
half rotation (`MergeIsWhole`), whatever was read.
*What is signed next keeps it so.* The parents of a new event are the heads of
the store, and everything applicable is at or below a head
(`EverythingIsBelowAHead`: the applicable set is finite, so above any event
there is one with a largest past), so a new event conflicts with nothing.
`EpochSealed` is not inductive: a merge brings together a checkpoint and an event
that no store held together before. Its strengthening `SealedHistory` speaks of
all accepted events, wherever they are, with `OneCheckpoint`: a trigger has at
most one checkpoint ever.

**What a vault shows (`VaultProjectionProofs`).** For any ids, devices, members,
secrets and number of events, if each device has one tab
(`\A t, u \in Tab : t = u`):

- `DeletedStaysDeleted`: `Spec => []NoResurrection`;
  `NothingIsLost`: `Spec => []NothingLost`;
  `NameStaysCurrent`: `Spec => []NameIsCurrent`.

For any number of tabs as well:

- `OnlyStaleRotationsHarm`: these three hold in every state in which each
  checkpoint records the secrets and a name of its trigger's past
  (`Checkpoints(events)`).
- `ReplacementsAreGrouped`: `Spec => []ConflictGroup`, with the exception that the
  property states.
- `ProjectionTypes`: `Spec => []TypeOK`.

*The orders.* An order in which a store may be folded is a chain (`Chain`): each
event once, after its parents. `LinearizationsAreOrdered` and
`TopologicalOrderIsOrdered` say that every order of the properties, and the one of
the code, is such a chain of all applicable events. What these loops compute after n
turns is argued by a least n for which it fails (`CountingUp`).

*The fold.* `Faithful` relates a projection to the set W of events folded so far.
With `Born` for what W created, checkpoints not counted, and `Gone` for what it
deleted, every entry is in `Born`, and every replacement is recorded unless a
resolution is in W. If every checkpoint recorded its past (`Checkpoints`), the
entries that are alive are those of `Held`, the difference, any other entry is a
tombstone whose deletion has seen its creation, and the name is one of the last.
`StepIsFaithful` shows that one turn keeps this, `FoldIsFaithful` that a whole
fold does, `LiveIsHeld` that what is shown is then `Held`, which mentions no order
at all. An event other than a checkpoint is easy: it deletes only what its past
had created, which W contains. A checkpoint throws the projection away, and there
the security of rotations is needed. `CheckpointCuts`: in a store without security
conflicts, every change lies before the trigger or after the checkpoint.
So when the fold reaches a checkpoint, the changes in W are those of the trigger's
past (`CheckpointRecords`), and these are what the checkpoint has recorded.

*The history.* What this needs of the events is the inductive invariant `Inv`, the
conjunction of `Base` and `Memories`.
`Content`: the events signed, on all devices together, form an accepted history
with one root, whose triggers are sealed by their checkpoints (`Seals`, as for
VaultReplication); a secret is created by one event (`Creations`) and deleted only
by events that follow it (`Deletions`); a checkpoint carries only what the past of
its trigger created (`Carried`). `Approvals`: no approval follows a
revocation, which makes the roster the set of those who may write. `Labels`:
epochs are the initial one or revocations. `Stores`: each store contains the past of
its events, no conflict and no half rotation. `Memories`: a secret that a tab
remembers was created in its device's store, however stale the tab is. A rotation
joins the history as two events at once (`RotationJoins`), and two stores merge into
their union (`CleanStoresUnite`) or not at all.

*The tabs.* Every step is one of `Proceeds`: it keeps `Base` and, if it signs a
checkpoint, puts the memory of the tab into it (`Moves`). With one tab per device
`Recorded` is kept too: the memory of the tab of a member is what its store shows,
and every checkpoint recorded its past. A tab that a refresh may leave behind is
one of several, or its device is not a member and cannot rotate
(`MovesKeepRecorded`); the stores of other devices show what they did
(`OthersStayRecorded`). Neither half is inductive alone: memory is up to date
because the projection is faithful, which rests on the checkpoints, and these
are made from memory.

**Publishing (`VaultSyncProofs`, second part).**

- `SyncImplementsReplication`: `SyncSpec => ImplementsReplication`. The safety
  theorems above therefore hold of devices that publish through an outbox.
- `OutboxStaysTyped`: `SyncSpec => []SyncTypeOK`.

The step that needs an argument is the put of a trigger, which VaultReplication
allows only once its checkpoint is at the provider. The invariant `OutboxInv`
says that every list a flush works from (the index, what is left of it, the
repair list) holds, next to an unpublished trigger, its checkpoint, unless that
is published; lists are worked off by priority, so the checkpoint goes first
(`CheckpointGoesFirst`). A row is cleared only once its event is at the provider
(or no longer in the store), which is
what makes a flush that is cut short harmless.

**Rotating a key and recovering (`EpochRecoveryProofs`).** For any number of tabs
and crashes:

- `RecoveryTypes`: `Spec => []TypeOK`; `NoForkOfEpochs`: `Spec => []EpochsNeverFork`;
  `IdentityNeverReturns`: `Spec => IdentityAdvances`.

They follow from one inductive invariant (`RecoveryInvariant`), and none of them
is inductive alone. A tab works with what it read several transactions ago, so
`Inv` has to say what of that is still true. `StoreInv`: the store is a graph
whose rotations are ordered. `PlanInv`: every plan, in a tab or in the marker, was
drawn up on the whole past of one stored event, its pair is in the store as
planned or not at all, and no two plans share an id; that is what makes it
harmless that one tab appends the pair which another planned. `SessionInv`: the
ancestors that a tab observed are the ancestors of the observed head to this day,
since events never change. An accepted update has the recorded checkpoint among
these ancestors, hence `IdentityAdvances`. A pair is appended only while its
parent is the only head; the rotation then follows everything in the store
(`PairIsHead`), hence `EpochsNeverFork`. `RoomInv` is about the bound `MaxEvents`
alone.

For one open tab, closed and opened again anywhere:

- `RecordsUnderCurrentKey`: `Spec => []AllUnderCurrentKey`;
- `RotationsImplementLedger`: `Spec => RefinesLedger`, the refinement of
  EpochLedger.

`OneTabInv` adds what a second tab would break. `Keyed`: every rotation carries
all content before it, every event that is no trigger lies before or after every
rotation, and it is under the key of its own past. So the newest event
that carries a record is under the newest key (`KeyedProjection`). `FreshInv`: the
tab has the current key in memory, except between the append of a pair and the
reload of the projection. `CarryInv`: a plan carries all content it was drawn up
on. `MarkerInv` and `FollowInv`: the marker holds the plan that the tab
works on, and is cleared only after the identity has seen its epoch.
The steps of the ledger are these: `Mark` announces, `AppendPair` commits (or
finds the pair there already), `SyncRotation` follows, `Persist` records, `Abort`
and `ClearConsumed` settle; every other step leaves the ledger alone
(`StepOfLedger`). The two steps that settle need `FollowInv`, the commit needs
that the marker names the plan of the tab.

**Two tabs (`OutboxTabsProofs`).** `AlwaysFlushPublishesAll`:
`Spec => [](TypeOK /\ FlushPublishesAll)`, for any number of tabs, events and
closed tabs. Index entries do get lost; the invariant `TabInv` says that what a
tab takes for listed is at the provider and that a repair still has to do
whatever of its copy of the store is not.

**Who belongs to an identity (`IdentityControlProofs`).** For any installations,
passphrases, outsiders, history of the founder and number of new events:

- `HonestOperationsStand`: `Spec => []HonestStands`;
  `RemovedWordsAreDead`: `Spec => []RemovedWordsAdmitNobody`;
  `InvitesAreOneTime`: `Spec => []InviteAdmitsOne`.
- `OrderDoesNotMatter`: `Spec => []OrderIndependent`;
  `DirectoryFollowsLog`: `Spec => []DirectoryMirrors`, each with the exception
  that the property states.
- `IdentityTypes`: `Spec => []TypeOK`.

The log is computed by loops (the passes, the walk over parents), and a loop ends
because of a measure: `LoopExists` and `LoopInduction` say, for any loop
whose size goes down, that it has a result and that the result is in every set
which its steps do not leave. From them, `SettleQuarantines`: the passes end, with
a log in which nothing that applies would be refused. `AncestryIsPast`: holding
all that an event builds on, the walk finds exactly its causal past.
The inductive invariant `IInv` (`IdentityInvariant`) has three parts. `Events`:
the events form a graph (`Graph`), each kind is signed by those who may
(`Roles`), and what nobody can contest was signed by a member as its own past
tells (`Lawful`). `LogInv`: every log is `Sound`, that is, stable, and each
rejection in it was made by a log that held no more but all of the
event's past (`Refused`). This second half is what the properties need about
rejections, which are never reconsidered: a reason that only more events can
make stronger (`VerdictStays`) still holds now. While no passphrase is removed
every reason is of that kind, hence `ApplicableByVerdict`: what applies is a
function of what is held. Without joins by invite it also only grows
(`ApplicableGrows`), which is what `DirectoryInv` needs for a record that is
updated by difference.

**Creating a Sentinel vault (`SentinelGenesisProofs`).**

- `RosterIsFull`, `IssuedOnce`, `SharesComeLast`: `Spec` implies `[]FullRoster`,
  `[]OneIssuance` and `[]SharesOfDoneVaults`, for any number of tabs that
  share a journal, any participants and failures.
- `OneTabOneRoot`: `Spec => []OneRoot` with one tab open.

The inductive invariant `IInv` (`CeremonyInvariant`) has three parts besides types.
`RosterInv`: whoever a session or a plan lists answered that very ceremony.
`IssueInv`: plans and deliveries, wherever they are, agree on the store of a
ceremony, and a session that still collects has issued nothing and is in no other
tab; issuing consumes it, so no ceremony is issued twice. `ProgressInv`: the next
write of a tab tells which writes are done, whoever did them, and a share is shown
only after the last. The rows of a store are only ever filled, so another tab
takes none of this back. `OneRoot` needs that the event store is still empty when
a tab writes after its check (`RootInv`), which only one tab guarantees.

**Opening a Sentinel vault (`SentinelUnlockProofs`).**

- `KeysNeedQuorum`, `KeysMatchVault`, `ParticipantsOpen`: `Spec` implies
  `[]QuorumBehindKeys`, `[]KeysOfLoadedVault` and `[]OnlyParticipantsOpen`, for
  any devices, vaults and sessions, thresholds of at least two.
- `QuorumIsSpentOnce`: `Spec => SpentOnce`. `UnlockTypeOK`: `Spec => []TypeOK`.

The code nowhere checks that the device that opens a vault is a participant, and
the inductive invariant `IInv` says why it is. A session id determines the
request (`IdsAreUnique`); whoever answers a request holds a share, and answers
only requests of participants (`AnswersAreAuthorized`); a session counts distinct
devices, each of which is the requester itself or has answered it
(`SessionSound`). With a threshold of two a quorum holds the answer of someone
else, so the requester is a participant. Keys come from a session with a quorum
in the vault that was loaded, and every way of loading another vault takes them
away (`KeySound`). That thresholds are at least two is an assumption
(`VaultAssumption`) that the code enforces on every policy
(`SentinelGenesisPolicy::validate`). For `SpentOnce`
the invariant is that no pending session is a consumed one (`SpentIsGone`).

*Only model-checked:* liveness (`Converges`, in two modules, `RotationSettles`,
`ConnectSucceeds`, `PlanCompletes`), since the prover handles neither fairness
nor ENABLED. Every safety property that a passing run checks is the subject of a
theorem, under the hypothesis of one tab where it says so.

## 6. Not modelled

The models cover the replication core of about 10,000 lines. Most of the
repository's other code is user interface, translations, bindings to
JavaScript, classification of web forms, provider adapters, formats,
cryptography and tooling, whose state the replication does not depend on or
which is a pure function of bytes; models of it would restate it.

Of the Sentinel ceremonies: keys, shares and their splitting are opaque, and so
are labels and the provider snapshot that an onboarding package may carry. Not
modelled: deliveries of formats before the current one, and keys that a session
holds already when it connects. The events of a Sentinel vault replicate as
those of any other.

Within the core: one provider per device; one signing key per device. Not
modelled: several providers per device, damaged rows, other vaults'
events at the same provider, genesis bootstrap (Init is a completed genesis, and
several roots fail closed), member records, passwords and imports in the
projection, expiry and proofs of identity invites, the wrapping of vault keys to
members. The replica store has no logic of its own (maps of event bytes and of
outbox entries, wrapped by the local store). A security conflict stops merging until
the user recovers; the recovery is not modelled, and `Converges` says so.

## 7. Plan

1. `IdentityVault`: the identity log and the epochs of a vault together
   (`manager/identity_control/vault_access.rs`): a removed member, the rotation
   it calls for, and writes in between.
2. Several providers per device in VaultSync; put-if-absent of the adapters.
3. The pairing of the companion, as a protocol of its own.
