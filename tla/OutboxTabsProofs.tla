-------------------------- MODULE OutboxTabsProofs --------------------------
(***************************************************************************)
(* The index of the outbox may lose entries, but a flush that reports      *)
(* success has published the store it looked at last: proved for every     *)
(* number of tabs, events and failures.                                    *)
(***************************************************************************)
EXTENDS OutboxTabs, TLAPS

(* The events on a work list. *)
All(work) == UNION {work[i] : i \in DOMAIN work}

Fields == {"pc", "work", "now", "copy", "local", "listed"}

(* The events that have, or had, a row. *)
Rows == {e \in store : row[e] # "none"}

(***************************************************************************)
(* What is true of a tab between any two of its transactions: it works on  *)
(* stored events, it takes for listed only what the provider has, what it  *)
(* will write to the index has rows, and a repair still has to do whatever *)
(* of its copy of the store is not at the provider.                        *)
(***************************************************************************)
TabInv(t) ==
  /\ DOMAIN tab[t] = Fields
  /\ All(tab[t].work) \cup tab[t].now \cup tab[t].copy \cup tab[t].local
       \subseteq store
  /\ tab[t].listed \subseteq provider
  /\ tab[t].pc \in {"queueRead", "queueWrite"} => tab[t].now \subseteq Rows
  /\ tab[t].pc \in {"queueWrite", "removeWrite"} => tab[t].copy \subseteq Rows
  /\ tab[t].pc = "repair" => tab[t].copy \subseteq provider \cup All(tab[t].work)

Inv ==
  /\ TypeOK
  /\ DOMAIN tab = Tab
  /\ \A t \in Tab : TabInv(t)

-----------------------------------------------------------------------------
(***************************************************************************)
(* Work lists.                                                             *)
(***************************************************************************)
LEMMA FirstIsOnTheList ==
  ASSUME NEW work
  PROVE  First(work) \subseteq All(work)
BY DEF First, All

(* Removing events from a list of batches removes them from the set of *)
(* its events.                                                         *)
LEMMA WithoutIsRemoved ==
  ASSUME NEW work, NEW S
  PROVE  All(Without(work, S)) = All(work) \ S
BY DEF Without, All

(* An exhausted list has no event left. *)
LEMMA ExhaustedIsEmpty ==
  ASSUME NEW work, Exhausted(work)
  PROVE  All(work) = {}
BY DEF Exhausted, All

(* Sorting a set by priority, checkpoints first and triggers last, loses *)
(* no event.                                                             *)
LEMMA SortingKeepsAll ==
  ASSUME NEW S, S \subseteq Event
  PROVE  All(ByPriority(S)) = S
<1> DEFINE w == <<S \cap Checkpoints, S \cap Ordinary, S \cap Triggers>>
<1>1. /\ DOMAIN w = 1..3
      /\ w[1] = S \cap Checkpoints /\ w[2] = S \cap Ordinary /\ w[3] = S \cap Triggers
  OBVIOUS
<1> HIDE DEF w
<1>2. All(w) = w[1] \cup w[2] \cup w[3]
  BY <1>1 DEF All
<1>3. QED
  BY <1>1, <1>2 DEF w, ByPriority, Event

(* The events of a list of no, one and two batches. *)
LEMMA ShortLists ==
  /\ All(<<>>) = {}
  /\ \A S : All(<<S>>) = S
  /\ \A S, T : All(<<S, T>>) = S \cup T
<1>1. All(<<>>) = {}
  BY DEF All
<1>2. ASSUME NEW S PROVE All(<<S>>) = S
  BY DEF All
<1>3. ASSUME NEW S, NEW T PROVE All(<<S, T>>) = S \cup T
  <2>1. DOMAIN <<S, T>> = {1, 2}
    OBVIOUS
  <2>2. QED
    BY <2>1 DEF All
<1>4. QED
  BY <1>1, <1>2, <1>3

-----------------------------------------------------------------------------
(***************************************************************************)
(* A step of one tab leaves the others as they are: nothing that TabInv    *)
(* says of them can be undone by more events, rows or publications.        *)
(***************************************************************************)
LEMMA UntouchedTab ==
  ASSUME NEW t, TabInv(t), tab'[t] = tab[t],
         store \subseteq store', provider \subseteq provider', Rows \subseteq Rows'
  PROVE  TabInv(t)'
<1>1. All(tab'[t].work) = All(tab[t].work)
  OBVIOUS
<1>2. QED
  BY <1>1 DEF TabInv

(* A step of one tab that only adds to the store, the provider and the *)
(* rows keeps the invariant, when it keeps that of its own tab.        *)
LEMMA StepOfOneTab ==
  ASSUME Inv, NEW t \in Tab, TypeOK', DOMAIN tab' = Tab, TabInv(t)',
         \A s \in Tab \ {t} : tab'[s] = tab[s],
         store \subseteq store', provider \subseteq provider', Rows \subseteq Rows'
  PROVE  Inv'
BY UntouchedTab DEF Inv

(* The invariant holds at first, with nothing stored and every tab idle. *)
LEMMA InitEstablishesInv == Init => Inv
<1>1. SUFFICES ASSUME Init PROVE Inv
  OBVIOUS
<1>2. TypeOK
  BY <1>1 DEF Init, TypeOK
<1>3. ASSUME NEW t \in Tab PROVE TabInv(t)
  <2>1. tab[t] = Idle
    BY <1>1 DEF Init
  <2>2. All(tab[t].work) = {}
    BY <2>1, ShortLists DEF Idle
  <2>3. QED
    BY <2>1, <2>2 DEF TabInv, Idle, Fields
<1>4. QED
  BY <1>1, <1>2, <1>3 DEF Inv, Init

(***************************************************************************)
(* Queueing.                                                               *)
(***************************************************************************)
LEMMA CommitKeepsInv ==
  ASSUME Inv, NEW t \in Tab, NEW S, NEW work, S \subseteq Event,
         All(work) = S, Commit(t, S, work)
  PROVE  Inv'
<1>1. TypeOK'
  BY DEF Inv, TypeOK, Commit
<1>2. /\ store \subseteq store' /\ provider' = provider /\ Rows \subseteq Rows'
      /\ DOMAIN tab' = Tab
      /\ \A s \in Tab \ {t} : tab'[s] = tab[s]
  BY DEF Inv, Commit, Rows
<1>3. /\ DOMAIN tab'[t] = Fields
      /\ tab'[t].pc = "queue" /\ tab'[t].work = work /\ tab'[t].now = tab[t].now
      /\ tab'[t].copy = tab[t].copy /\ tab'[t].local = tab[t].local
      /\ tab'[t].listed = tab[t].listed
  BY DEF Inv, TabInv, Commit, Fields
<1>4. TabInv(t)'
  BY <1>2, <1>3 DEF Inv, TabInv, Commit
<1>5. QED
  BY <1>1, <1>2, <1>4, StepOfOneTab

(* Appending one event keeps the invariant. *)
LEMMA CommitEventKeepsInv ==
  ASSUME Inv, NEW t \in Tab, CommitEvent(t)
  PROVE  Inv'
<1>1. ASSUME NEW e \in Ordinary, Commit(t, {e}, <<{e}>>) PROVE Inv'
  BY <1>1, CommitKeepsInv, ShortLists DEF Event
<1>2. ASSUME NEW p \in Pair, Commit(t, {p[1], p[2]}, <<{p[1]}, {p[2]}>>) PROVE Inv'
  <2>1. All(<<{p[1]}, {p[2]}>>) = {p[1], p[2]}
    BY ShortLists
  <2>2. {p[1], p[2]} \subseteq Event
    BY DEF Event, Checkpoints, Triggers
  <2>3. QED
    BY <1>2, <2>1, <2>2, CommitKeepsInv
<1>3. QED
  BY <1>1, <1>2 DEF CommitEvent

(* Writing the row of an event keeps the invariant. *)
LEMMA QueueRowKeepsInv ==
  ASSUME Inv, NEW t \in Tab, NEW e \in Event, QueueRow(t, e)
  PROVE  Inv'
<1>1. TypeOK'
  BY FirstIsOnTheList DEF Inv, TypeOK, TabInv, Rows, QueueRow
<1>2. /\ store \subseteq store' /\ provider \subseteq provider' /\ Rows \subseteq Rows'
      /\ DOMAIN tab' = Tab
      /\ \A s \in Tab \ {t} : tab'[s] = tab[s]
  BY DEF Inv, TypeOK, Rows, QueueRow
<1>3. /\ DOMAIN tab'[t] = Fields
      /\ tab'[t].pc = "queueRead" /\ tab'[t].work = tab[t].work
      /\ tab'[t].now = {e} /\ tab'[t].copy = tab[t].copy
      /\ tab'[t].local = tab[t].local /\ tab'[t].listed = tab[t].listed
  BY DEF Inv, TabInv, QueueRow, Fields
<1>4. TabInv(t)'
  BY <1>2, <1>3, FirstIsOnTheList DEF Inv, TypeOK, TabInv, Rows, QueueRow
<1>5. QED
  BY <1>1, <1>2, <1>4, StepOfOneTab

(* Reading the index before a write keeps the invariant. *)
LEMMA QueueReadKeepsInv ==
  ASSUME Inv, NEW t \in Tab, QueueRead(t)
  PROVE  Inv'
<1>1. TypeOK'
  BY DEF Inv, TypeOK, TabInv, Rows, QueueRead
<1>2. /\ store \subseteq store' /\ provider \subseteq provider' /\ Rows \subseteq Rows'
      /\ DOMAIN tab' = Tab
      /\ \A s \in Tab \ {t} : tab'[s] = tab[s]
  BY DEF Inv, TypeOK, Rows, QueueRead
<1>3. /\ DOMAIN tab'[t] = Fields
      /\ tab'[t].pc = "queueWrite" /\ tab'[t].work = tab[t].work
      /\ tab'[t].now = tab[t].now /\ tab'[t].copy = index
      /\ tab'[t].local = tab[t].local /\ tab'[t].listed = tab[t].listed
  BY DEF Inv, TabInv, QueueRead, Fields
<1>4. TabInv(t)'
  BY <1>2, <1>3 DEF Inv, TypeOK, TabInv, Rows, QueueRead
<1>5. QED
  BY <1>1, <1>2, <1>4, StepOfOneTab

(* Writing back the index, with whatever another tab wrote in between *)
(* lost from it, keeps the invariant: the row is still there.         *)
LEMMA QueueWriteKeepsInv ==
  ASSUME Inv, NEW t \in Tab, QueueWrite(t)
  PROVE  Inv'
<1> DEFINE left == Without(tab[t].work, tab[t].now)
<1>1. All(left) \subseteq All(tab[t].work)
  BY WithoutIsRemoved
<1>2. TypeOK'
  BY DEF Inv, TypeOK, TabInv, Rows, QueueWrite
<1>3. /\ store \subseteq store' /\ provider \subseteq provider' /\ Rows \subseteq Rows'
      /\ DOMAIN tab' = Tab
      /\ \A s \in Tab \ {t} : tab'[s] = tab[s]
  BY DEF Inv, TypeOK, Rows, QueueWrite
<1>4. TabInv(t)'
  <2>1. CASE Exhausted(left)
    <3>1. tab'[t] = Idle
      BY <2>1 DEF Inv, QueueWrite
    <3>2. All(tab'[t].work) = {}
      BY <3>1, ShortLists DEF Idle
    <3>3. QED
      BY <3>1, <3>2 DEF TabInv, Idle, Fields
  <2>2. CASE ~Exhausted(left)
    <3>1. tab'[t] = [Idle EXCEPT !.pc = "queue", !.work = left]
      BY <2>2 DEF Inv, QueueWrite
    <3>2. tab'[t] = [pc |-> "queue", work |-> left, now |-> {}, copy |-> {},
                     local |-> {}, listed |-> {}]
      BY <3>1 DEF Idle
    <3>3. QED
      BY <1>1, <1>3, <3>2 DEF Inv, TabInv, Fields
  <2>3. QED
    BY <2>1, <2>2
<1>5. QED
  BY <1>2, <1>3, <1>4, StepOfOneTab

(***************************************************************************)
(* Flushing.                                                               *)
(***************************************************************************)
LEMMA StoppedTab ==
  ASSUME Inv, NEW t \in Tab, tab' = [tab EXCEPT ![t] = Idle],
         UNCHANGED <<store, row, index, provider>>
  PROVE  Inv'
<1>1. TypeOK'
  BY DEF Inv, TypeOK
<1>2. tab'[t] = Idle
  BY DEF Inv
<1>3. TabInv(t)'
  BY <1>2, ShortLists DEF TabInv, Idle, Fields
<1>4. QED
  BY <1>1, <1>3, StepOfOneTab DEF Inv, Rows

(* Starting a flush keeps the invariant. *)
LEMMA StartFlushKeepsInv ==
  ASSUME Inv, NEW t \in Tab, StartFlush(t)
  PROVE  Inv'
<1>1. TypeOK'
  BY DEF Inv, TypeOK, StartFlush
<1>2. tab'[t] = [pc |-> "load", work |-> <<>>, now |-> {}, copy |-> {},
                 local |-> store, listed |-> provider]
  BY DEF Inv, StartFlush, Idle
<1>3. TabInv(t)'
  <2>1. All(tab'[t].work) = {}
    BY <1>2, ShortLists
  <2>2. store' = store /\ provider' = provider
    BY DEF StartFlush
  <2>3. QED
    BY <1>2, <2>1, <2>2 DEF TabInv, Fields
<1>4. QED
  BY <1>1, <1>3, StepOfOneTab DEF Inv, StartFlush, Rows

(* Loading the index for a flush keeps the invariant. *)
LEMMA LoadIndexKeepsInv ==
  ASSUME Inv, NEW t \in Tab, LoadIndex(t)
  PROVE  Inv'
<1>1. TypeOK'
  BY DEF Inv, TypeOK, TabInv, Rows, LoadIndex
<1>2. /\ store \subseteq store' /\ provider \subseteq provider' /\ Rows \subseteq Rows'
      /\ DOMAIN tab' = Tab
      /\ \A s \in Tab \ {t} : tab'[s] = tab[s]
  BY DEF Inv, TypeOK, Rows, LoadIndex
<1>3. /\ DOMAIN tab'[t] = Fields
      /\ tab'[t].pc = "rows" /\ tab'[t].work = tab[t].work
      /\ tab'[t].now = tab[t].now /\ tab'[t].copy = index
      /\ tab'[t].local = tab[t].local /\ tab'[t].listed = tab[t].listed
  BY DEF Inv, TabInv, LoadIndex, Fields
<1>4. TabInv(t)'
  BY <1>2, <1>3 DEF Inv, TypeOK, TabInv, Rows, LoadIndex
<1>5. QED
  BY <1>1, <1>2, <1>4, StepOfOneTab

(* Loading the rows that the index names keeps the invariant, and so does *)
(* the flush that stops at a missing one.                                 *)
LEMMA LoadRowsKeepsInv ==
  ASSUME Inv, NEW t \in Tab, LoadRows(t)
  PROVE  Inv'
<1>1. CASE \E e \in tab[t].copy : row[e] = "empty"
  BY <1>1, StoppedTab DEF LoadRows
<1>2. CASE ~(\E e \in tab[t].copy : row[e] = "empty")
  <2>1. TypeOK'
    BY <1>2 DEF Inv, TypeOK, LoadRows
  <2>2. tab' = [tab EXCEPT ![t].pc = "publish", ![t].work = ByPriority(tab[t].copy)]
    BY <1>2 DEF LoadRows
  <2>3. /\ DOMAIN tab'[t] = Fields
        /\ tab'[t].pc = "publish" /\ tab'[t].work = ByPriority(tab[t].copy)
        /\ tab'[t].now = tab[t].now /\ tab'[t].copy = tab[t].copy
        /\ tab'[t].local = tab[t].local /\ tab'[t].listed = tab[t].listed
    BY <2>2 DEF Inv, TabInv, Fields
  <2>4. All(tab'[t].work) = tab[t].copy
    <3>1. tab[t].copy \subseteq Event
      BY DEF Inv, TypeOK, TabInv
    <3>2. QED
      BY <2>3, <3>1, SortingKeepsAll
  <2>5. TabInv(t)'
    BY <2>3, <2>4 DEF Inv, TabInv, LoadRows
  <2>6. QED
    BY <2>1, <2>2, <2>5, StepOfOneTab DEF Inv, LoadRows, Rows
<1>3. QED
  BY <1>1, <1>2

(* Publishing an event to the provider keeps the invariant. *)
LEMMA PublishKeepsInv ==
  ASSUME Inv, NEW t \in Tab, NEW e \in Event, Publish(t, e)
  PROVE  Inv'
<1>1. TypeOK'
  BY DEF Inv, TypeOK, TabInv, Rows, Publish
<1>2. /\ store \subseteq store' /\ provider \subseteq provider' /\ Rows \subseteq Rows'
      /\ DOMAIN tab' = Tab
      /\ \A s \in Tab \ {t} : tab'[s] = tab[s]
  BY DEF Inv, TypeOK, Rows, Publish
<1>3. /\ DOMAIN tab'[t] = Fields
      /\ tab'[t].pc = "remove" /\ tab'[t].work = tab[t].work
      /\ tab'[t].now = {e} /\ tab'[t].copy = tab[t].copy
      /\ tab'[t].local = tab[t].local /\ tab'[t].listed = tab[t].listed \cup {e}
  BY DEF Inv, TabInv, Publish, Fields
<1>4. TabInv(t)'
  BY <1>2, <1>3 DEF Inv, TypeOK, TabInv, Rows, Publish
<1>5. QED
  BY <1>1, <1>2, <1>4, StepOfOneTab

(* Discarding an event that the provider has already keeps the invariant. *)
LEMMA DiscardKeepsInv ==
  ASSUME Inv, NEW t \in Tab, NEW e \in Event, Discard(t, e)
  PROVE  Inv'
<1>1. TypeOK'
  BY FirstIsOnTheList DEF Inv, TypeOK, TabInv, Rows, Discard
<1>2. /\ store \subseteq store' /\ provider \subseteq provider' /\ Rows \subseteq Rows'
      /\ DOMAIN tab' = Tab
      /\ \A s \in Tab \ {t} : tab'[s] = tab[s]
  BY DEF Inv, TypeOK, Rows, Discard
<1>3. /\ DOMAIN tab'[t] = Fields
      /\ tab'[t].pc = "remove" /\ tab'[t].work = tab[t].work
      /\ tab'[t].now = {e} /\ tab'[t].copy = tab[t].copy
      /\ tab'[t].local = tab[t].local /\ tab'[t].listed = tab[t].listed
  BY DEF Inv, TabInv, Discard, Fields
<1>4. TabInv(t)'
  BY <1>2, <1>3, FirstIsOnTheList DEF Inv, TypeOK, TabInv, Rows, Discard
<1>5. QED
  BY <1>1, <1>2, <1>4, StepOfOneTab

(* Removing the row of a published event keeps the invariant. *)
LEMMA RemoveRowKeepsInv ==
  ASSUME Inv, NEW t \in Tab, RemoveRow(t)
  PROVE  Inv'
<1>1. TypeOK'
  BY DEF Inv, TypeOK, TabInv, Rows, RemoveRow
<1>2. /\ store \subseteq store' /\ provider \subseteq provider' /\ Rows \subseteq Rows'
      /\ DOMAIN tab' = Tab
      /\ \A s \in Tab \ {t} : tab'[s] = tab[s]
  BY DEF Inv, TypeOK, Rows, RemoveRow
<1>3. /\ DOMAIN tab'[t] = Fields
      /\ tab'[t].pc = "removeRead" /\ tab'[t].work = tab[t].work
      /\ tab'[t].now = tab[t].now /\ tab'[t].copy = tab[t].copy
      /\ tab'[t].local = tab[t].local /\ tab'[t].listed = tab[t].listed
  BY DEF Inv, TabInv, RemoveRow, Fields
<1>4. TabInv(t)'
  BY <1>2, <1>3 DEF Inv, TypeOK, TabInv, Rows, RemoveRow
<1>5. QED
  BY <1>1, <1>2, <1>4, StepOfOneTab

(* Reading the index before a removal keeps the invariant. *)
LEMMA RemoveReadKeepsInv ==
  ASSUME Inv, NEW t \in Tab, RemoveRead(t)
  PROVE  Inv'
<1>1. TypeOK'
  BY DEF Inv, TypeOK, TabInv, Rows, RemoveRead
<1>2. /\ store \subseteq store' /\ provider \subseteq provider' /\ Rows \subseteq Rows'
      /\ DOMAIN tab' = Tab
      /\ \A s \in Tab \ {t} : tab'[s] = tab[s]
  BY DEF Inv, TypeOK, Rows, RemoveRead
<1>3. /\ DOMAIN tab'[t] = Fields
      /\ tab'[t].pc = "removeWrite" /\ tab'[t].work = tab[t].work
      /\ tab'[t].now = tab[t].now /\ tab'[t].copy = index
      /\ tab'[t].local = tab[t].local /\ tab'[t].listed = tab[t].listed
  BY DEF Inv, TabInv, RemoveRead, Fields
<1>4. TabInv(t)'
  BY <1>2, <1>3 DEF Inv, TypeOK, TabInv, Rows, RemoveRead
<1>5. QED
  BY <1>1, <1>2, <1>4, StepOfOneTab

(* Writing back the index after a removal keeps the invariant. *)
LEMMA RemoveWriteKeepsInv ==
  ASSUME Inv, NEW t \in Tab, RemoveWrite(t)
  PROVE  Inv'
<1>1. TypeOK'
  BY DEF Inv, TypeOK, TabInv, Rows, RemoveWrite
<1>2. /\ store \subseteq store' /\ provider \subseteq provider' /\ Rows \subseteq Rows'
      /\ DOMAIN tab' = Tab
      /\ \A s \in Tab \ {t} : tab'[s] = tab[s]
  BY DEF Inv, TypeOK, Rows, RemoveWrite
<1>3. /\ DOMAIN tab'[t] = Fields
      /\ tab'[t].pc = "publish" /\ tab'[t].work = Without(tab[t].work, tab[t].now)
      /\ tab'[t].now = {} /\ tab'[t].copy = {}
      /\ tab'[t].local = tab[t].local /\ tab'[t].listed = tab[t].listed
  BY DEF Inv, TabInv, RemoveWrite, Fields
<1>4. TabInv(t)'
  BY <1>2, <1>3, WithoutIsRemoved DEF Inv, TypeOK, TabInv, Rows, RemoveWrite
<1>5. QED
  BY <1>1, <1>2, <1>4, StepOfOneTab

(* Starting a repair keeps the invariant. *)
LEMMA StartRepairKeepsInv ==
  ASSUME Inv, NEW t \in Tab, StartRepair(t)
  PROVE  Inv'
<1>1. TypeOK'
  BY DEF Inv, TypeOK, StartRepair
<1>2. /\ DOMAIN tab'[t] = Fields
      /\ tab'[t].pc = "repair" /\ tab'[t].work = ByPriority(Missing(t))
      /\ tab'[t].now = tab[t].now /\ tab'[t].copy = store
      /\ tab'[t].local = tab[t].local /\ tab'[t].listed = tab[t].listed
  BY DEF Inv, TabInv, StartRepair, Fields
<1>3. All(tab'[t].work) = store \ tab[t].listed
  <2>1. Missing(t) \subseteq Event
    BY DEF Inv, TypeOK, Missing
  <2>2. QED
    BY <1>2, <2>1, SortingKeepsAll DEF Missing
<1>4. TabInv(t)'
  BY <1>2, <1>3 DEF Inv, TabInv, StartRepair
<1>5. QED
  BY <1>1, <1>4, StepOfOneTab DEF Inv, StartRepair, Rows

(* A repair that queues a stored event again keeps the invariant. *)
LEMMA RepairKeepsInv ==
  ASSUME Inv, NEW t \in Tab, NEW e \in Event, Repair(t, e)
  PROVE  Inv'
<1>1. TypeOK'
  BY FirstIsOnTheList DEF Inv, TypeOK, TabInv, Rows, Repair
<1>2. /\ store \subseteq store' /\ provider \subseteq provider' /\ Rows \subseteq Rows'
      /\ DOMAIN tab' = Tab
      /\ \A s \in Tab \ {t} : tab'[s] = tab[s]
  BY DEF Inv, TypeOK, Rows, Repair
<1>3. /\ DOMAIN tab'[t] = Fields
      /\ tab'[t].pc = tab[t].pc /\ tab'[t].work = Without(tab[t].work, {e})
      /\ tab'[t].now = tab[t].now /\ tab'[t].copy = tab[t].copy
      /\ tab'[t].local = tab[t].local /\ tab'[t].listed = tab[t].listed
  BY DEF Inv, TabInv, Repair, Fields
<1>4. TabInv(t)'
  BY <1>2, <1>3, WithoutIsRemoved DEF Inv, TypeOK, TabInv, Rows, Repair
<1>5. QED
  BY <1>1, <1>2, <1>4, StepOfOneTab

(***************************************************************************)
(* The invariant, and what it is for.                                      *)
(***************************************************************************)
LEMMA NextKeepsInv == Inv /\ [Next]_vars => Inv'
<1>1. SUFFICES ASSUME Inv, [Next]_vars PROVE Inv'
  OBVIOUS
<1>2. CASE UNCHANGED vars
  BY <1>1, <1>2 DEF vars, Inv, TypeOK, TabInv, Rows
<1>3. ASSUME NEW t \in Tab, FinishFlush(t) \/ Close(t) PROVE Inv'
  BY <1>1, <1>3, StoppedTab DEF FinishFlush, Close
<1>4. ASSUME NEW t \in Tab, NEW e \in Event,
             QueueRow(t, e) \/ Publish(t, e) \/ Discard(t, e) \/ Repair(t, e)
      PROVE  Inv'
  BY <1>1, <1>4, QueueRowKeepsInv, PublishKeepsInv, DiscardKeepsInv, RepairKeepsInv
<1>5. ASSUME NEW t \in Tab, \/ CommitEvent(t) \/ QueueRead(t) \/ QueueWrite(t)
                             \/ StartFlush(t) \/ LoadIndex(t) \/ LoadRows(t)
      PROVE  Inv'
  BY <1>1, <1>5, CommitEventKeepsInv, QueueReadKeepsInv, QueueWriteKeepsInv,
     StartFlushKeepsInv, LoadIndexKeepsInv, LoadRowsKeepsInv
<1>6. ASSUME NEW t \in Tab, \/ RemoveRow(t) \/ RemoveRead(t) \/ RemoveWrite(t)
                             \/ StartRepair(t)
      PROVE  Inv'
  BY <1>1, <1>6, RemoveRowKeepsInv, RemoveReadKeepsInv, RemoveWriteKeepsInv,
     StartRepairKeepsInv
<1>7. QED
  BY <1>1, <1>2, <1>3, <1>4, <1>5, <1>6 DEF Next

(***************************************************************************)
(* However the transactions of any number of tabs interleave and wherever  *)
(* tabs are closed, a flush that reports success leaves nothing behind     *)
(* (flush_event_outbox).                                                   *)
(***************************************************************************)
THEOREM AlwaysFlushPublishesAll == Spec => [](TypeOK /\ FlushPublishesAll)
<1>1. Inv => TypeOK /\ FlushPublishesAll
  BY ExhaustedIsEmpty DEF Inv, TabInv, FlushPublishesAll
<1>2. QED
  BY <1>1, InitEstablishesInv, NextKeepsInv, PTL DEF Spec
=============================================================================
