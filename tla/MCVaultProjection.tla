------------------------- MODULE MCVaultProjection -------------------------
(***************************************************************************)
(* Id bounds the events ever signed, numbered in the order of signing (the *)
(* properties quantify over every tie-break). Genesis imports the secrets  *)
(* in Imported. Secrets are taken in order, since their ids are random. A  *)
(* history either changes secrets, and then ends with MaxEdited events, or *)
(* names the vault. Merge events and requests are never the last event.    *)
(* Each device has one tab, which has nothing to gain from a               *)
(* synchronization that brings nothing new.                                *)
(***************************************************************************)
EXTENDS VaultProjection, TLC

CONSTANTS Imported, MaxEdited

ASSUME BoundsAssumption == Imported \subseteq Secret /\ MaxEdited \in Nat

FreshId == Cardinality(DOMAIN events) + 1

NextSecret ==
  {s \in FreshSecrets : \A r \in FreshSecrets : s <= r}

Ops == {events[x].operation.op : x \in DOMAIN events \ {1}}

Named  == "VaultNamed" \in Ops
Edited == Ops \cap {"SecretsAdded", "SecretDeleted", "SecretReplaced"} # {}

Fits(last) == last \in Id /\ (Edited => last <= MaxEdited)

EditSecrets(d, t) ==
  \/ \E s \in NextSecret : AddSecret(d, t, FreshId, s)
  \/ \E known \in {memory[d][t].secrets} :
       \/ \E s \in known : DeleteSecret(d, t, FreshId, s)
       \/ \E old \in known, new \in NextSecret : ReplaceSecret(d, t, FreshId, old, new)
  \/ \E old \in DOMAIN Conflicts(d), chosen \in Secret :
       ResolveConflict(d, t, FreshId, old, chosen)

LocalStep(d, t) ==
  \/ /\ FreshId <= MaxEdited
     /\ ~Named
     /\ EditSecrets(d, t)
  \/ /\ Fits(FreshId)
     /\ ~Edited
     /\ NameVault(d, t, FreshId)
  \/ /\ Fits(FreshId + 1)
     /\ \/ MergeHeads(d, t, FreshId)
        \/ RequestAccess(d, t, FreshId)
        \/ \E victim \in Device : RotateEpoch(d, t, FreshId, FreshId + 1, victim)

BoundedNext ==
  \E d \in Device, t \in Tab :
    \/ store[d] # {} /\ LocalStep(d, t)
    \/ \E other \in Device :
         /\ store[other] \ store[d] # {} \/ Tab # {t}
         /\ Sync(d, t, other)

BoundedInit ==
  /\ Init
  /\ \A x \in DOMAIN events : \A y \in events[x].parents : y < x
  /\ DOMAIN events = 1..Cardinality(Member)
  /\ Creates(events[1].operation) = Imported

BoundedSpec == BoundedInit /\ [][BoundedNext]_vars
=============================================================================
