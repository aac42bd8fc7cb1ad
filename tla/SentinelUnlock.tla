--------------------------- MODULE SentinelUnlock ---------------------------
(***************************************************************************)
(* Opening Sentinel vaults. A device that has loaded a locked vault starts *)
(* an unlock session and publishes its request; devices that hold a share  *)
(* of the vault answer it; with enough answers the session is consumed and *)
(* the keys are reconstructed. Sessions and loaded vaults live in memory;  *)
(* only the share deliveries are stored. Requests and responses travel as  *)
(* links, so an old one may turn up at any time.                           *)
(*                                                                         *)
(* Keys and ciphertexts are opaque: a response stands for the share of its *)
(* sender, sealed to the requester of its session. The policy of a vault   *)
(* is fixed at its genesis, so a store determines it. Every vault here is  *)
(* a Sentinel vault; a device runs one vault manager.                      *)
(***************************************************************************)
EXTENDS Naturals, FiniteSets

CONSTANTS
  Device, Store, Session,
  None,
  Initiator,    \* Store -> the device that held the genesis ceremony
  Participant,  \* Store -> the devices with a share
  Reader,       \* Store -> the devices that can fetch its event log
  Threshold     \* Store -> how many shares open it

ASSUME DeviceAssumption == IsFiniteSet(Device)
ASSUME NoneAssumption == None \notin Device \cup Store \cup Session
ASSUME VaultAssumption ==
  \A s \in Store :
    /\ Initiator[s] \in Participant[s] \cap Reader[s]
    /\ Participant[s] \subseteq Device
    /\ Reader[s] \subseteq Device
    /\ Threshold[s] \in Nat /\ Threshold[s] >= 2

VARIABLES
  held,       \* Device -> stores of which it has stored a delivery
  loaded,     \* Device -> store of the vault in the session, or None
  records,    \* Device -> share records of that vault: none, own or all
  roster,     \* Device -> whether the participant roster is known
  keys,       \* Device -> store whose keys are installed, or None
  unlock,     \* Device -> its unlock session, or NoUnlock
  busy,       \* Device -> whether an unlock is being completed
  opened,     \* Device -> session that gave the keys, or None (history)
  spent,      \* sessions consumed at their quorum (history)
  requests,   \* unlock requests published
  responses   \* unlock responses published

memory == <<loaded, records, roster, keys, unlock, busy, opened>>
messages == <<requests, responses>>
vars == <<held, memory, spent, messages>>

(* An unlock session: its request, the share records it copied, who has    *)
(* answered, and how many responses it has collected.                      *)
NoUnlock == [id |-> None, store |-> None, covers |-> "none", from |-> {}, count |-> 0]

(* After genesis the initiator has its own delivery and nothing is loaded. *)
Init ==
  /\ held = [d \in Device |-> {s \in Store : d = Initiator[s]}]
  /\ loaded = [d \in Device |-> None]
  /\ records = [d \in Device |-> "none"]
  /\ roster = [d \in Device |-> FALSE]
  /\ keys = [d \in Device |-> None]
  /\ unlock = [d \in Device |-> NoUnlock]
  /\ busy = [d \in Device |-> FALSE]
  /\ opened = [d \in Device |-> None]
  /\ spent = {}
  /\ requests = {} /\ responses = {}

Locked(d) ==
  /\ roster' = [roster EXCEPT ![d] = FALSE]
  /\ keys' = [keys EXCEPT ![d] = None]
  /\ opened' = [opened EXCEPT ![d] = None]
  /\ busy' = [busy EXCEPT ![d] = FALSE]

(* reset_vault_session()                                                   *)
ResetVaultSession(d) ==
  /\ Locked(d)
  /\ loaded' = [loaded EXCEPT ![d] = None]
  /\ records' = [records EXCEPT ![d] = "none"]
  /\ unlock' = [unlock EXCEPT ![d] = NoUnlock]

-----------------------------------------------------------------------------
(* The user locks the vault, or the page is reloaded at any moment.        *)
Leave(d) ==
  /\ loaded[d] # None
  /\ ResetVaultSession(d)
  /\ UNCHANGED <<held, spent, messages>>

(* Vault s is selected and its projection prepared for the ceremony: the   *)
(* session is a new one, and records carry shares but no roster.           *)
Connect(d, s) ==
  /\ ~busy[d]
  /\ d \in Reader[s]
  /\ Locked(d)
  /\ loaded' = [loaded EXCEPT ![d] = s]
  /\ records' = [records EXCEPT ![d] = "all"]
  /\ unlock' = [unlock EXCEPT ![d] = NoUnlock]
  /\ UNCHANGED <<held, spent, messages>>

(* A delivery is put in the session: it locks the session and loads the    *)
(* device's own share, but an unlock session under way is kept.            *)
InstallDelivery(d, s) ==
  /\ ~busy[d]
  /\ Locked(d)
  /\ loaded' = [loaded EXCEPT ![d] = s]
  /\ records' = [records EXCEPT ![d] = "own"]
  /\ UNCHANGED <<unlock, spent>>

AcceptDelivery(d, s) ==
  /\ d \in Participant[s]
  /\ InstallDelivery(d, s)
  /\ held' = [held EXCEPT ![d] = @ \cup {s}]
  /\ UNCHANGED messages

LoadDelivery(d, s) ==
  /\ s \in held[d]
  /\ InstallDelivery(d, s)
  /\ UNCHANGED <<held, messages>>

(* The event log of the loaded vault is synchronized: all shares and the   *)
(* roster are read from it, with or without keys.                          *)
Sync(d) ==
  /\ ~busy[d]
  /\ loaded[d] # None
  /\ d \in Reader[loaded[d]]
  /\ records' = [records EXCEPT ![d] = "all"]
  /\ roster' = [roster EXCEPT ![d] = TRUE]
  /\ UNCHANGED <<held, loaded, keys, unlock, busy, opened, spent, messages>>

-----------------------------------------------------------------------------
(* start_sentinel_unlock(): the session copies the share records at hand,  *)
(* replaces the one before, and counts the device's own share if it is     *)
(* among them.                                                             *)
StartUnlock(d, x) ==
  /\ ~busy[d]
  /\ loaded[d] # None
  /\ \A q \in requests : q.id # x
  /\ unlock' = [unlock EXCEPT ![d] =
       [id |-> x, store |-> loaded[d], covers |-> records[d],
        from |-> {d} \cap Participant[loaded[d]],
        count |-> IF d \in Participant[loaded[d]] THEN 1 ELSE 0]]
  /\ requests' = requests \cup {[id |-> x, store |-> loaded[d], by |-> d]}
  /\ UNCHANGED <<held, loaded, records, roster, keys, busy, opened, spent, responses>>

\* Mutant: whoever asks for the loaded vault is answered.
Authorized_AnyRequester(d, q) == q.store = loaded[d]

(* The request is for the loaded vault, and its requester is on the        *)
(* roster, or it is the initiator named by the delivery d has stored.      *)
Authorized(d, q) ==
  /\ q.store = loaded[d]
  /\ \/ roster[d] /\ q.by \in Participant[q.store]
     \/ q.store \in held[d] /\ q.by = Initiator[q.store]

(* respond_to_sentinel_unlock_request() *)
RespondToUnlock(d, q) ==
  /\ ~busy[d]
  /\ Authorized(d, q)
  /\ d \in Participant[q.store]
  /\ responses' = responses \cup {[id |-> q.id, store |-> q.store, by |-> d]}
  /\ UNCHANGED <<held, memory, spent, requests>>

\* Mutant: a response to an earlier session of the vault is collected.
Bound_ToStore(session, r) == r.store = session.store

(* validate_binding() *)
Bound(session, r) == r.id = session.id /\ r.store = session.store

(* validate_response(): one response per participant.                      *)
FirstResponse(session, r) == r.by \notin session.from

(* add_sentinel_unlock_response(): a refused response leaves the session   *)
(* as it was.                                                              *)
AddUnlockResponse(d, r) ==
  /\ ~busy[d]
  /\ unlock[d] # NoUnlock
  /\ Bound(unlock[d], r)
  /\ FirstResponse(unlock[d], r)
  /\ unlock' = [unlock EXCEPT ![d].from = @ \cup {r.by}, ![d].count = @ + 1]
  /\ UNCHANGED <<held, loaded, records, roster, keys, busy, opened, spent, messages>>

-----------------------------------------------------------------------------
(* into_quorum(): with too few responses the session is kept.              *)
Quorum(session) ==
  /\ session # NoUnlock
  /\ session.count >= Threshold[session.store]

\* Mutant: the context of the session is not checked.
InContext_Any(d) == unlock[d].covers = "all" \/ unlock[d].from \subseteq {d}

(* check_context(): the session was started for the vault now loaded; and  *)
(* the records it copied list every device that answered.                  *)
InContext(d) ==
  /\ unlock[d].store = loaded[d]
  /\ unlock[d].covers = "all" \/ unlock[d].from \subseteq {d}

\* Mutant: the session is still there after its quorum was used.
FinalizeUnlock_Keep(d) ==
  /\ ~busy[d]
  /\ Quorum(unlock[d])
  /\ InContext(d)
  /\ keys' = [keys EXCEPT ![d] = unlock[d].store]
  /\ opened' = [opened EXCEPT ![d] = unlock[d].id]
  /\ spent' = spent \cup {unlock[d].id}
  /\ roster' = [roster EXCEPT ![d] = FALSE]
  /\ busy' = [busy EXCEPT ![d] = TRUE]
  /\ UNCHANGED <<held, loaded, records, unlock, messages>>

(* finalize_sentinel_unlock(): the session is consumed and the keys are    *)
(* installed ...                                                           *)
FinalizeUnlock(d) ==
  /\ ~busy[d]
  /\ Quorum(unlock[d])
  /\ InContext(d)
  /\ keys' = [keys EXCEPT ![d] = unlock[d].store]
  /\ opened' = [opened EXCEPT ![d] = unlock[d].id]
  /\ spent' = spent \cup {unlock[d].id}
  /\ roster' = [roster EXCEPT ![d] = FALSE]
  /\ unlock' = [unlock EXCEPT ![d] = NoUnlock]
  /\ busy' = [busy EXCEPT ![d] = TRUE]
  /\ UNCHANGED <<held, loaded, records, messages>>

(* ... or the session is consumed and the whole vault session is reset.    *)
FinalizeRejected(d) ==
  /\ ~busy[d]
  /\ Quorum(unlock[d])
  /\ ~InContext(d)
  /\ ResetVaultSession(d)
  /\ spent' = spent \cup {unlock[d].id}
  /\ UNCHANGED <<held, messages>>

(* The projection of the event log is applied and the access recorded.     *)
UnlockCommitted(d) ==
  /\ busy[d]
  /\ busy' = [busy EXCEPT ![d] = FALSE]
  /\ records' = [records EXCEPT ![d] = "all"]
  /\ roster' = [roster EXCEPT ![d] = TRUE]
  /\ UNCHANGED <<held, loaded, keys, unlock, opened, spent, messages>>

(* An error on the way resets the vault session, keys included.            *)
UnlockFailed(d) ==
  /\ busy[d]
  /\ ResetVaultSession(d)
  /\ UNCHANGED <<held, spent, messages>>

Next ==
  \E d \in Device :
    \/ Leave(d) \/ Sync(d)
    \/ FinalizeUnlock(d) \/ FinalizeRejected(d) \/ UnlockCommitted(d) \/ UnlockFailed(d)
    \/ \E s \in Store : Connect(d, s) \/ AcceptDelivery(d, s) \/ LoadDelivery(d, s)
    \/ \E x \in Session : StartUnlock(d, x)
    \/ \E q \in requests : RespondToUnlock(d, q)
    \/ \E r \in responses : AddUnlockResponse(d, r)

Spec == Init /\ [][Next]_vars

-----------------------------------------------------------------------------
Unlock ==
  [id : Session, store : Store, covers : {"own", "all"}, from : SUBSET Device, count : Nat]
  \cup {NoUnlock}

TypeOK ==
  /\ held \in [Device -> SUBSET Store]
  /\ loaded \in [Device -> Store \cup {None}]
  /\ records \in [Device -> {"none", "own", "all"}]
  /\ \A d \in Device : records[d] = "none" <=> loaded[d] = None
  /\ roster \in [Device -> BOOLEAN]
  /\ keys \in [Device -> Store \cup {None}]
  /\ unlock \in [Device -> Unlock]
  /\ busy \in [Device -> BOOLEAN]
  /\ \A d \in Device : busy[d] => loaded[d] # None
  /\ opened \in [Device -> Session \cup {None}]
  /\ spent \subseteq Session
  /\ requests \subseteq [id : Session, store : Store, by : Device]
  /\ responses \subseteq [id : Session, store : Store, by : Device]

(* The devices that gave a share of store s to session x of device d.      *)
Contributors(d, x, s) ==
  {e \in Participant[s] : e = d \/ [id |-> x, store |-> s, by |-> e] \in responses}

(* "A Sentinel vault is not openable when fewer than T distinct valid      *)
(* participant contributions are available": behind installed keys are the *)
(* answers of T participants to the very session that opened the vault.    *)
QuorumBehindKeys ==
  \A d \in Device : keys[d] # None =>
    Cardinality(Contributors(d, opened[d], keys[d])) >= Threshold[keys[d]]

(* The keys in a session are those of the vault it shows: keys of one      *)
(* vault would encrypt the edits of another beyond recovery.               *)
KeysOfLoadedVault == \A d \in Device : keys[d] \in {None, loaded[d]}

(* "Provider access is never sufficient to open the vault": a device that  *)
(* reads the whole event log but is not a participant gets no answer, so   *)
(* it never gets the keys.                                                 *)
OnlyParticipantsOpen == \A d \in Device : keys[d] # None => d \in Participant[keys[d]]

(* Reconstruction is "single-use": contributions that reached a quorum     *)
(* once do not open a vault again, however the completion ended.           *)
SpentOnce ==
  [][\A d \in Device :
       opened'[d] # opened[d] /\ opened'[d] # None => opened'[d] \notin spent]_vars
=============================================================================
