---------------------------- MODULE MCVaultSync ----------------------------
(***************************************************************************)
(* As MCVaultReplication: Id bounds the events that are ever signed, in    *)
(* the order of signing, Kinds the operations a device appends. MaxPlain   *)
(* bounds the events outside rotations, with one more in histories without *)
(* any. In histories of up to MaxShort events reads may miss some, and     *)
(* MaxClosed tabs are closed while a row is removed; such a tab ends the   *)
(* rotations.                                                              *)
(***************************************************************************)
EXTENDS VaultSync, TLC

CONSTANTS Kinds, MaxPlain, MaxShort, MaxClosed

ASSUME KindsAssumption == Kinds \subseteq AppendKind
ASSUME BoundsAssumption == {MaxPlain, MaxShort, MaxClosed} \subseteq Nat

Fresh == Cardinality(DOMAIN events) + 1

Plain ==
  DOMAIN events \ Of(events, DOMAIN events, {"DeviceRevoked", "EpochCheckpoint"})

LeftBehind == {d \in Device : flush[d] = NoFlush /\ cleared[d] # {}}

Short == Cardinality(DOMAIN events) <= MaxShort

MayAppend ==
  \/ Cardinality(Plain) < MaxPlain
  \/ Cardinality(DOMAIN events) = MaxPlain /\ Plain = DOMAIN events /\ LeftBehind = {}

MayRotate == Cardinality(Plain) <= MaxPlain /\ LeftBehind = {}

Reads(d) ==
  IF Short /\ LeftBehind = {}
    THEN SUBSET (provider \ store[d]) ELSE {provider \ store[d]}

BoundedNext ==
  \E d \in Device :
    \/ /\ MayAppend
       /\ \E kind \in Kinds, subject \in Device :
            SignAndQueue(d, Fresh, kind, subject)
    \/ /\ MayRotate
       /\ \E victim \in Device : RotateAndQueue(d, Fresh, Fresh + 1, victim)
    \/ \E seen \in Reads(d) : Merge(d, seen)
    \/ StartFlush(d)
    \/ \E e \in Id : Put(d, e)
    \/ \E e \in Id : ClearRow(d, e)
    \/ \E e \in Id : DropFromIndex(d, e)
    \/ StartRepair(d)
    \/ \E e \in Id : Repaired(d, e)
    \/ FinishFlush(d)
    \/ Fail(d)
    \/ /\ Short
       /\ Cardinality(LeftBehind) < MaxClosed
       /\ CloseDuringRemoval(d)

BoundedInit == SyncInit /\ 1 \in DOMAIN events

BoundedSpec == BoundedInit /\ [][BoundedNext]_syncVars

FairBoundedSpec == BoundedSpec /\ Fairness
=============================================================================
