----------------------------- MODULE OutboxTabs -----------------------------
(***************************************************************************)
(* The outbox of one device, shared by the tabs of its browser. The rows   *)
(* and the index of the outbox live in one database, but each read and     *)
(* each write is a transaction of its own: the index is read, changed in   *)
(* memory and written back. VaultSync has the same outbox with one tab.    *)
(*                                                                         *)
(* An event is an ordinary one, or a checkpoint or trigger of a rotation.  *)
(* Tabs only add events to the store; other devices, and events that the   *)
(* store drops, are the business of VaultSync.                             *)
(***************************************************************************)
EXTENDS Naturals, FiniteSets

CONSTANTS
  Tab,        \* tabs of the browser
  Ordinary,   \* events of ordinary edits
  Pair,       \* rotations, pairs <<checkpoint, trigger>>
  Closes      \* bound: how often a tab is closed or a request fails

ASSUME PairAssumption == \A p, q \in Pair : p # q => {p[1], p[2]} \cap {q[1], q[2]} = {}
ASSUME ClosesAssumption == Closes \in Nat

Checkpoints == {p[1] : p \in Pair}
Triggers == {p[2] : p \in Pair}
Event == Ordinary \cup Checkpoints \cup Triggers

VARIABLES
  store,      \* events in the event store
  row,        \* Event -> its outbox row: none, full, or the empty string
  index,      \* events in the outbox index
  provider,   \* events at the provider
  tab,        \* Tab -> what the tab is doing
  closes

vars == <<store, row, index, provider, tab, closes>>

(***************************************************************************)
(* work: the events still to be handled, in groups of equal priority; now: *)
(* the one at hand; copy: the index as the tab last read it; local: the    *)
(* store when the flush began; listed: what the provider held then, and    *)
(* what the flush has published since.                                     *)
(***************************************************************************)
Idle == [pc |-> "idle", work |-> <<>>, now |-> {}, copy |-> {},
         local |-> {}, listed |-> {}]

Init ==
  /\ store = {}
  /\ row = [e \in Event |-> "none"]
  /\ index = {}
  /\ provider = {}
  /\ tab = [t \in Tab |-> Idle]
  /\ closes = 0

(* The events in S by publishing priority: a checkpoint goes before all    *)
(* others, its trigger after all others.                                   *)
ByPriority(S) == <<S \cap Checkpoints, S \cap Ordinary, S \cap Triggers>>

First(work) ==
  LET filled == {i \in DOMAIN work : work[i] # {}}
  IN  UNION {work[i] : i \in {i \in filled : \A j \in filled : i <= j}}

Without(work, S) == [i \in DOMAIN work |-> work[i] \ S]

Exhausted(work) == \A i \in DOMAIN work : work[i] = {}

-----------------------------------------------------------------------------
(***************************************************************************)
(* An edit or a rotation: the events are committed to the store, then      *)
(* queued one by one, the checkpoint before the trigger.                   *)
(***************************************************************************)
Commit(t, S, work) ==
  /\ tab[t].pc = "idle"
  /\ S \cap store = {}
  /\ store' = store \cup S
  /\ tab' = [tab EXCEPT ![t].pc = "queue", ![t].work = work]
  /\ UNCHANGED <<row, index, provider, closes>>

CommitEvent(t) ==
  \/ \E e \in Ordinary : Commit(t, {e}, <<{e}>>)
  \/ \E p \in Pair : Commit(t, {p[1], p[2]}, <<{p[1]}, {p[2]}>>)

(* queue_outbox_entry() *)
QueueRow(t, e) ==
  /\ tab[t].pc = "queue"
  /\ e \in First(tab[t].work)
  /\ row' = [row EXCEPT ![e] = "full"]
  /\ tab' = [tab EXCEPT ![t].pc = "queueRead", ![t].now = {e}]
  /\ UNCHANGED <<store, index, provider, closes>>

(* append_outbox_index(): one transaction reads the index, *)
QueueRead(t) ==
  /\ tab[t].pc = "queueRead"
  /\ tab' = [tab EXCEPT ![t].pc = "queueWrite", ![t].copy = index]
  /\ UNCHANGED <<store, row, index, provider, closes>>

(* and another writes it back. *)
QueueWrite(t) ==
  /\ tab[t].pc = "queueWrite"
  /\ index' = tab[t].copy \cup tab[t].now
  /\ \E left \in {Without(tab[t].work, tab[t].now)} :
       tab' = [tab EXCEPT ![t] = IF Exhausted(left) THEN Idle
                                 ELSE [Idle EXCEPT !.pc = "queue", !.work = left]]
  /\ UNCHANGED <<store, row, provider, closes>>

-----------------------------------------------------------------------------
(***************************************************************************)
(* flush_event_outbox(): the provider is listed and the store's ids are    *)
(* loaded, the index is read, then the rows. An empty row cannot be parsed *)
(* for the order, and the flush fails.                                     *)
(***************************************************************************)
StartFlush(t) ==
  /\ tab[t].pc = "idle"
  /\ store # {}
  /\ tab' = [tab EXCEPT ![t] = [Idle EXCEPT !.pc = "load", !.listed = provider,
                                                !.local = store]]
  /\ UNCHANGED <<store, row, index, provider, closes>>

LoadIndex(t) ==
  /\ tab[t].pc = "load"
  /\ tab' = [tab EXCEPT ![t].pc = "rows", ![t].copy = index]
  /\ UNCHANGED <<store, row, index, provider, closes>>

LoadRows(t) ==
  /\ tab[t].pc = "rows"
  /\ IF \E e \in tab[t].copy : row[e] = "empty"
       THEN tab' = [tab EXCEPT ![t] = Idle]
       ELSE tab' = [tab EXCEPT ![t].pc = "publish", ![t].work = ByPriority(tab[t].copy)]
  /\ UNCHANGED <<store, row, index, provider, closes>>

(* publish(): the provider keeps what it has. *)
Publish(t, e) ==
  /\ tab[t].pc = "publish"
  /\ e \in First(tab[t].work) \cap tab[t].local
  /\ provider' = provider \cup {e}
  /\ tab' = [tab EXCEPT ![t].pc = "remove", ![t].now = {e}, ![t].listed = @ \cup {e}]
  /\ UNCHANGED <<store, row, index, closes>>

(* discard(): an event that the store did not hold when the flush began *)
Discard(t, e) ==
  /\ tab[t].pc = "publish"
  /\ e \in First(tab[t].work) \ tab[t].local
  /\ tab' = [tab EXCEPT ![t].pc = "remove", ![t].now = {e}]
  /\ UNCHANGED <<store, row, index, provider, closes>>

(* remove_outbox_entry(), in three transactions *)
RemoveRow(t) ==
  /\ tab[t].pc = "remove"
  /\ row' = [e \in Event |-> IF e \in tab[t].now THEN "empty" ELSE row[e]]
  /\ tab' = [tab EXCEPT ![t].pc = "removeRead"]
  /\ UNCHANGED <<store, index, provider, closes>>

RemoveRead(t) ==
  /\ tab[t].pc = "removeRead"
  /\ tab' = [tab EXCEPT ![t].pc = "removeWrite", ![t].copy = index]
  /\ UNCHANGED <<store, row, index, provider, closes>>

RemoveWrite(t) ==
  /\ tab[t].pc = "removeWrite"
  /\ index' = tab[t].copy \ tab[t].now
  /\ tab' = [tab EXCEPT ![t].pc = "publish", ![t].work = Without(@, tab[t].now),
                        ![t].now = {}, ![t].copy = {}]
  /\ UNCHANGED <<store, row, provider, closes>>

(***************************************************************************)
(* Whatever else of the store was not listed and not put is put now. What  *)
(* another tab queued and lost from the index goes out here.               *)
(***************************************************************************)
\* Mutant: only what the outbox held is published.
Missing_None(t) == {}

Missing(t) == store \ tab[t].listed

StartRepair(t) ==
  /\ tab[t].pc = "publish"
  /\ Exhausted(tab[t].work)
  /\ tab' = [tab EXCEPT ![t].pc = "repair", ![t].work = ByPriority(Missing(t)),
                        ![t].copy = store]
  /\ UNCHANGED <<store, row, index, provider, closes>>

Repair(t, e) ==
  /\ tab[t].pc = "repair"
  /\ e \in First(tab[t].work)
  /\ provider' = provider \cup {e}
  /\ tab' = [tab EXCEPT ![t].work = Without(@, {e})]
  /\ UNCHANGED <<store, row, index, closes>>

FinishFlush(t) ==
  /\ tab[t].pc = "repair"
  /\ Exhausted(tab[t].work)
  /\ tab' = [tab EXCEPT ![t] = Idle]
  /\ UNCHANGED <<store, row, index, provider, closes>>

(* A request fails, or the tab is closed and opened again. *)
Close(t) ==
  /\ tab[t].pc # "idle"
  /\ closes < Closes
  /\ closes' = closes + 1
  /\ tab' = [tab EXCEPT ![t] = Idle]
  /\ UNCHANGED <<store, row, index, provider>>

Next ==
  \E t \in Tab :
    \/ CommitEvent(t) \/ QueueRead(t) \/ QueueWrite(t)
    \/ StartFlush(t) \/ LoadIndex(t) \/ LoadRows(t)
    \/ RemoveRow(t) \/ RemoveRead(t) \/ RemoveWrite(t)
    \/ StartRepair(t) \/ FinishFlush(t) \/ Close(t)
    \/ \E e \in Event : QueueRow(t, e) \/ Publish(t, e) \/ Discard(t, e) \/ Repair(t, e)

Spec == Init /\ [][Next]_vars

-----------------------------------------------------------------------------
(***************************************************************************)
(* Correctness.                                                            *)
(***************************************************************************)

(* Type invariant: the index and the provider hold stored events only. *)
TypeOK ==
  /\ store \subseteq Event
  /\ row \in [Event -> {"none", "full", "empty"}]
  /\ index \cup provider \subseteq store
  /\ \A e \in index : row[e] # "none"

(***************************************************************************)
(* A flush that reports success leaves nothing behind: everything in the   *)
(* store when it looked last is at the provider, although other tabs       *)
(* queue, discard and remove rows meanwhile and entries get lost from the  *)
(* index (flush_event_outbox).                                             *)
(***************************************************************************)
FlushPublishesAll ==
  \A t \in Tab :
    tab[t].pc = "repair" /\ Exhausted(tab[t].work) => tab[t].copy \subseteq provider
=============================================================================
