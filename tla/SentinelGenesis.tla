-------------------------- MODULE SentinelGenesis --------------------------
(***************************************************************************)
(* The genesis ceremony of a Sentinel vault. A tab of the initiator's      *)
(* browser invites the other participants, collects their signed           *)
(* responses, and once the roster is full issues the vault: a plan with    *)
(* the store, the roster and one encrypted share for each participant is   *)
(* journaled, then carried out one write at a time. A tab may be closed    *)
(* between any two writes; a tab that starts while the journal is filled   *)
(* carries the plan out again from its first write.                        *)
(*                                                                         *)
(* Keys, shares and signatures are opaque: a response or a delivery is the *)
(* record of what its signature covers, and only its signer creates it.    *)
(* Requests, responses and deliveries travel as links or QR codes, so they *)
(* may arrive late, twice, out of order or never.                          *)
(***************************************************************************)
EXTENDS Naturals, FiniteSets

CONSTANTS
  Tab,        \* tabs of the initiator's browser
  Initiator,  \* the device that starts ceremonies
  Peer,       \* the other devices
  N,          \* participant count of the policy
  Session,    \* ceremonies, by session id
  Store,      \* store ids still to be generated
  None,
  Failures    \* bound: how often a tab is closed or a request fails

ASSUME DeviceAssumption == Initiator \notin Peer /\ None \notin Session \cup Store
ASSUME CountAssumption == N \in Nat /\ N >= 2 /\ Failures \in Nat

Device == Peer \cup {Initiator}

VARIABLES
  journal,    \* the plan to be completed, or NoPlan
  saved,      \* stores whose projection row is written
  roots,      \* Store -> number of distinct root events in the event store
  heads,      \* Store -> the heads row, a set of root events
  held,       \* Device -> share deliveries it has stored
  tab,        \* Tab -> memory of the tab
  pending,    \* Peer -> the request it remembers, or None
  requests,   \* sessions whose invitation has been shown
  responses,  \* participant responses sent
  handed,     \* deliveries handed over by the initiator
  used,       \* store ids generated so far
  failures

database == <<journal, saved, roots, heads>>
messages == <<requests, responses, handed>>
vars == <<database, held, tab, pending, messages, used, failures>>

NoPlan == [session |-> None, store |-> None, roster |-> {}]
NoSession == [id |-> None, roster |-> {}]

(* The deliveries of a plan, one for each participant of its roster.       *)
Deliveries(plan) ==
  {[session |-> plan.session, store |-> plan.store, to |-> d] : d \in plan.roster}

(***************************************************************************)
(* Memory of a tab: the session that collects responses, the phase shown,  *)
(* the finalization at hand (its next write and its plan), the heads it    *)
(* computed, and the deliveries on the screen.                             *)
(***************************************************************************)
Closed == [pc |-> "closed", session |-> NoSession, phase |-> "Inactive",
           plan |-> NoPlan, heads |-> {}, shown |-> {}]

(* The tab's call is over; its plan and heads are gone with it.            *)
Ended(memory) == [memory EXCEPT !.pc = "idle", !.plan = NoPlan, !.heads = {}]

Steps == {"journal", "project", "check", "root", "heads", "share", "clear"}

(* from_session() *)
PhaseOf(session) ==
  IF Cardinality(session.roster) = N THEN "ReadyToFinalize" ELSE "CollectingParticipants"

Init ==
  /\ journal = NoPlan
  /\ saved = {}
  /\ roots = [s \in Store |-> 0]
  /\ heads = [s \in Store |-> {}]
  /\ held = [d \in Device |-> {}]
  /\ tab = [t \in Tab |-> Closed]
  /\ pending = [p \in Peer |-> None]
  /\ requests = {} /\ responses = {} /\ handed = {}
  /\ used = {}
  /\ failures = 0

-----------------------------------------------------------------------------
(* A tab starts: it resumes a journaled plan before anything else.         *)
Open(t) ==
  /\ tab[t].pc = "closed"
  /\ tab' = [tab EXCEPT ![t] =
       IF journal = NoPlan THEN [@ EXCEPT !.pc = "idle"]
       ELSE [@ EXCEPT !.pc = "project", !.plan = journal]]
  /\ UNCHANGED <<database, held, pending, messages, used, failures>>

(* The tab is closed, in the middle of whatever it is doing. Between calls *)
(* reset_vault_session() forgets the ceremony just the same.               *)
Close(t) ==
  /\ tab[t].pc # "closed"
  /\ failures < Failures
  /\ failures' = failures + 1
  /\ tab' = [tab EXCEPT ![t] = Closed]
  /\ UNCHANGED <<database, held, pending, messages, used>>

(* A database request fails: the call returns its error, memory stays.     *)
RequestFails(t) ==
  /\ tab[t].pc \in Steps
  /\ failures < Failures
  /\ failures' = failures + 1
  /\ tab' = [tab EXCEPT ![t] = Ended(@)]
  /\ UNCHANGED <<database, held, pending, messages, used>>

-----------------------------------------------------------------------------
(* Starting a ceremony replaces the tab's session; its own response is     *)
(* collected at once. A journaled plan comes first.                        *)
StartGenesis(t, s) ==
  /\ tab[t].pc = "idle"
  /\ s \notin requests
  /\ journal = NoPlan
  /\ LET session == [id |-> s, roster |-> {Initiator}]
     IN  tab' = [tab EXCEPT ![t].session = session, ![t].phase = PhaseOf(session)]
  /\ requests' = requests \cup {s}
  /\ UNCHANGED <<database, held, pending, responses, handed, used, failures>>

StartRefused(t) ==
  /\ tab[t].pc = "idle"
  /\ journal # NoPlan
  /\ tab' = [tab EXCEPT ![t].session = NoSession, ![t].phase = "AwaitingCompletionCheck"]
  /\ UNCHANGED <<database, held, pending, messages, used, failures>>

(* A participant answers an invitation and remembers it; a later one       *)
(* replaces it. remember_sentinel_genesis_request() only remembers it.     *)
Respond(p, s) ==
  /\ s \in requests
  /\ pending' = [pending EXCEPT ![p] = s]
  /\ responses' = responses \cup {[session |-> s, from |-> p]}
  /\ UNCHANGED <<database, held, tab, requests, handed, used, failures>>

Remember(p, s) ==
  /\ s \in requests
  /\ pending' = [pending EXCEPT ![p] = s]
  /\ UNCHANGED <<database, held, tab, messages, used, failures>>

(* The peer's page is reloaded: the request it remembers is gone.          *)
PeerReloads(p) ==
  /\ pending[p] # None
  /\ pending' = [pending EXCEPT ![p] = None]
  /\ UNCHANGED <<database, held, tab, messages, used, failures>>

\* Mutant: a response to another ceremony is admitted.
Admissible_AnySession(session, r) ==
  /\ r.from \notin session.roster
  /\ Cardinality(session.roster) < N

(* validate_response(), validate_roster_admission() *)
Admissible(session, r) ==
  /\ r.session = session.id
  /\ r.from \notin session.roster
  /\ Cardinality(session.roster) < N

(* A refused response leaves the session as it was.                        *)
Collect(t, r) ==
  /\ tab[t].pc = "idle"
  /\ Admissible(tab[t].session, r)
  /\ LET session == [tab[t].session EXCEPT !.roster = @ \cup {r.from}]
     IN  tab' = [tab EXCEPT ![t].session = session, ![t].phase = PhaseOf(session)]
  /\ UNCHANGED <<database, held, pending, messages, used, failures>>

-----------------------------------------------------------------------------
\* Mutant: a retry draws a new store id.
RetryFinalize_NewStore(t) ==
  /\ tab[t].pc = "idle"
  /\ journal # NoPlan
  /\ \E s \in Store \ used :
       /\ used' = used \cup {s}
       /\ tab' = [tab EXCEPT ![t].session = NoSession, ![t].phase = "AwaitingCompletionCheck",
                             ![t].pc = "project", ![t].plan = [journal EXCEPT !.store = s]]
  /\ UNCHANGED <<database, held, pending, messages, failures>>

(* finalize_sentinel_genesis() with a journaled plan completes that plan.  *)
RetryFinalize(t) ==
  /\ tab[t].pc = "idle"
  /\ journal # NoPlan
  /\ tab' = [tab EXCEPT ![t].session = NoSession, ![t].phase = "AwaitingCompletionCheck",
                        ![t].pc = "project", ![t].plan = journal]
  /\ UNCHANGED <<database, held, pending, messages, used, failures>>

(* ... with neither a plan nor a session, the phase is put right.          *)
FinalizeNothing(t) ==
  /\ tab[t].pc = "idle"
  /\ journal = NoPlan
  /\ tab[t].session = NoSession
  /\ tab[t].phase = "AwaitingCompletionCheck"
  /\ tab' = [tab EXCEPT ![t].phase = "Inactive"]
  /\ UNCHANGED <<database, held, pending, messages, used, failures>>

(* validate_issuance(): the roster is complete and lists the initiator.    *)
Issuable(session) ==
  /\ Cardinality(session.roster) = N
  /\ Initiator \in session.roster

(* ... with a session: a full one is consumed and its plan drawn up, with  *)
(* a new store id. One that is not full is kept.                           *)
Issue(t, s) ==
  /\ tab[t].pc = "idle"
  /\ journal = NoPlan
  /\ Issuable(tab[t].session)
  /\ s \notin used
  /\ used' = used \cup {s}
  /\ tab' = [tab EXCEPT ![t].session = NoSession, ![t].phase = "AwaitingCompletionCheck",
                        ![t].pc = "journal",
                        ![t].plan = [session |-> tab[t].session.id, store |-> s,
                                     roster |-> tab[t].session.roster]]
  /\ UNCHANGED <<database, held, pending, messages, failures>>

SaveJournal(t) ==
  /\ tab[t].pc = "journal"
  /\ journal' = tab[t].plan
  /\ tab' = [tab EXCEPT ![t].pc = "project"]
  /\ UNCHANGED <<saved, roots, heads, held, pending, messages, used, failures>>

-----------------------------------------------------------------------------
(* complete_sentinel_genesis_finalization(), one write at a time.          *)
SaveProjection(t) ==
  /\ tab[t].pc = "project"
  /\ saved' = saved \cup {tab[t].plan.store}
  /\ tab' = [tab EXCEPT ![t].pc = "check"]
  /\ UNCHANGED <<journal, roots, heads, held, pending, messages, used, failures>>

\* Mutant: a root is written whether or not there is one.
CheckRoot_Always(t) ==
  /\ tab[t].pc = "check"
  /\ tab' = [tab EXCEPT ![t].pc = "root"]
  /\ UNCHANGED <<database, held, pending, messages, used, failures>>

\* Mutant: an event store with a root is refused.
CheckRoot_Refuse(t) ==
  /\ tab[t].pc = "check"
  /\ tab' = [tab EXCEPT ![t] =
       IF roots[@.plan.store] = 0 THEN [@ EXCEPT !.pc = "root"] ELSE Ended(@)]
  /\ UNCHANGED <<database, held, pending, messages, used, failures>>

(* ensure_sentinel_genesis_event(): an empty event store gets a root; from *)
(* any other the heads are rebuilt. Two roots are not a graph.             *)
CheckRoot(t) ==
  /\ tab[t].pc = "check"
  /\ LET n == roots[tab[t].plan.store]
     IN  tab' = [tab EXCEPT ![t] =
           CASE n = 0 -> [@ EXCEPT !.pc = "root"]
             [] n = 1 -> [@ EXCEPT !.pc = "heads", !.heads = {1}]
             [] OTHER -> Ended(@)]
  /\ UNCHANGED <<database, held, pending, messages, used, failures>>

(* The root is dated when it is signed, so each root written is another    *)
(* event. Queueing it in the outbox is the business of VaultSync.          *)
WriteRoot(t) ==
  /\ tab[t].pc = "root"
  /\ LET s == tab[t].plan.store
     IN  /\ roots' = [roots EXCEPT ![s] = @ + 1]
         /\ tab' = [tab EXCEPT ![t].pc = "heads", ![t].heads = {roots[s] + 1}]
  /\ UNCHANGED <<journal, saved, heads, held, pending, messages, used, failures>>

SaveHeads(t) ==
  /\ tab[t].pc = "heads"
  /\ heads' = [heads EXCEPT ![tab[t].plan.store] = tab[t].heads]
  /\ tab' = [tab EXCEPT ![t].pc = "share"]
  /\ UNCHANGED <<journal, saved, roots, held, pending, messages, used, failures>>

(* A device's catalog of deliveries has one row for each store.            *)
Replacing(rows, d) == {h \in rows : h.store # d.store} \cup {d}

\* Mutant: the share is left for later and the journal cleared.
SaveOwnShare_Skip(t) ==
  /\ tab[t].pc = "share"
  /\ tab' = [tab EXCEPT ![t].pc = "clear"]
  /\ UNCHANGED <<database, held, pending, messages, used, failures>>

(* The initiator stores its own delivery, and no other.                    *)
SaveOwnShare(t) ==
  /\ tab[t].pc = "share"
  /\ \E d \in Deliveries(tab[t].plan) :
       d.to = Initiator /\ held' = [held EXCEPT ![Initiator] = Replacing(@, d)]
  /\ tab' = [tab EXCEPT ![t].pc = "clear"]
  /\ UNCHANGED <<database, pending, messages, used, failures>>

(* The journal is emptied and the deliveries are put on the screen.        *)
ClearJournal(t) ==
  /\ tab[t].pc = "clear"
  /\ journal' = NoPlan
  /\ tab' = [tab EXCEPT ![t] =
       [Ended(@) EXCEPT !.session = NoSession, !.phase = "DeliveringShares",
                        !.shown = Deliveries(tab[t].plan)]]
  /\ UNCHANGED <<saved, roots, heads, held, pending, messages, used, failures>>

FinishStep(t) ==
  \/ SaveJournal(t) \/ SaveProjection(t) \/ CheckRoot(t) \/ WriteRoot(t)
  \/ SaveHeads(t) \/ SaveOwnShare(t) \/ ClearJournal(t)

-----------------------------------------------------------------------------
(* A delivery on the screen is copied and given to its participant.        *)
HandOver(t, d) ==
  /\ d \in tab[t].shown \ handed
  /\ handed' = handed \cup {d}
  /\ UNCHANGED <<database, held, tab, pending, requests, responses, used, failures>>

CompleteDelivery(t) ==
  /\ tab[t].pc = "idle"
  /\ tab[t].phase = "DeliveringShares"
  /\ tab' = [tab EXCEPT ![t].phase = "Complete"]
  /\ UNCHANGED <<database, held, pending, messages, used, failures>>

(* validate_recipient() *)
Addressed(p, d) == d \in handed /\ d.to = p

(* check() and save: a bare delivery must answer the request remembered.   *)
(* What the peer's session then shows is the business of SentinelUnlock.   *)
AcceptDelivery(p, d) ==
  /\ Addressed(p, d)
  /\ d.session = pending[p]
  /\ held' = [held EXCEPT ![p] = Replacing(@, d)]
  /\ pending' = [pending EXCEPT ![p] = None]
  /\ UNCHANGED <<database, tab, messages, used, failures>>

(* An onboarding package brings its own request.                           *)
AcceptPackage(p, d) ==
  /\ Addressed(p, d)
  /\ held' = [held EXCEPT ![p] = Replacing(@, d)]
  /\ pending' = [pending EXCEPT ![p] = None]
  /\ UNCHANGED <<database, tab, messages, used, failures>>

Next ==
  \/ \E t \in Tab :
       \/ Open(t) \/ Close(t) \/ RequestFails(t) \/ FinishStep(t)
       \/ StartRefused(t) \/ RetryFinalize(t) \/ FinalizeNothing(t) \/ CompleteDelivery(t)
       \/ \E s \in Session : StartGenesis(t, s)
       \/ \E r \in responses : Collect(t, r)
       \/ \E s \in Store : Issue(t, s)
       \/ \E d \in tab[t].shown : HandOver(t, d)
  \/ \E p \in Peer :
       \/ PeerReloads(p)
       \/ \E s \in requests : Respond(p, s) \/ Remember(p, s)
       \/ \E d \in handed : AcceptDelivery(p, d) \/ AcceptPackage(p, d)

Spec == Init /\ [][Next]_vars

(***************************************************************************)
(* A call of the core that has begun goes on to its next write, a closed   *)
(* page is opened again, and a page that shows "awaiting completion" is    *)
(* asked to finalize again. The last two are the user's part.              *)
(***************************************************************************)
FairSpec ==
  /\ Spec
  /\ \A t \in Tab : WF_vars(FinishStep(t)) /\ WF_vars(Open(t)) /\ WF_vars(RetryFinalize(t))

-----------------------------------------------------------------------------
(***************************************************************************)
(* A store is done when its projection, its root, its heads and the        *)
(* initiator's share are all in the database.                              *)
(***************************************************************************)
Done(s) ==
  /\ s \in saved
  /\ roots[s] > 0
  /\ heads[s] # {}
  /\ \E d \in held[Initiator] : d.store = s

(* ensure_sentinel_genesis_event() promises never to create a second root, *)
(* however often a plan is carried out again.                              *)
OneRoot == \A s \in Store : roots[s] <= 1

(* "Generate ... as one result after all N signed participant responses    *)
(* are verified": a plan lists N devices, and every one but the initiator  *)
(* answered the invitation to this very ceremony.                          *)
FullRoster ==
  \A plan \in ({journal} \cup {tab[t].plan : t \in Tab}) \ {NoPlan} :
    /\ Cardinality(plan.roster) = N
    /\ \A p \in plan.roster \ {Initiator} :
         [session |-> plan.session, from |-> p] \in responses

(* "Finalization itself is one-shot": all shares of one ceremony that any  *)
(* device, screen, message or plan carries are shares of one store.        *)
OneIssuance ==
  LET shown == UNION {tab[t].shown \cup Deliveries(tab[t].plan) : t \in Tab}
      all == (UNION {held[d] : d \in Device}) \cup handed \cup Deliveries(journal) \cup shown
  IN  \A d, e \in all : d.session = e.session => d.store = e.store

(* A share leaves the initiator only when the vault it opens is complete   *)
(* in the initiator's database, and a device stores only its own share.    *)
SharesOfDoneVaults ==
  /\ \A d \in handed : Done(d.store)
  /\ \A p \in Peer : \A d \in held[p] : d.to = p /\ Done(d.store)

(* "This plan is the commit marker", and "a retry resumes this exact       *)
(* store": a journaled plan is carried out before the journal gives it up. *)
PlanCompletes == \A s \in Store : journal.store = s ~> Done(s) /\ journal.store # s
=============================================================================
