---------------------------- MODULE EpochLedger ----------------------------
(***************************************************************************)
(* What a device promises about the rotations of its vault's key: an       *)
(* abstract specification that EpochRecovery implements. A rotation is     *)
(* announced before it is committed. The identity follows the committed    *)
(* epochs forward. An announcement is withdrawn only when the epoch was    *)
(* never committed or the identity has reached it.                         *)
(***************************************************************************)
EXTENDS Naturals

CONSTANT Epoch    \* epochs, numbered in the order of creation

VARIABLES
  epochs,     \* the committed epochs
  recorded,   \* the last epoch that the identity has followed, or 0
  pending     \* the epoch announced and not yet settled, or 0

vars == <<epochs, recorded, pending>>

Latest(e) == \A f \in epochs : f < e

Init ==
  /\ epochs \in SUBSET Epoch
  /\ recorded \in epochs \cup {0}
  /\ pending = 0

Announce(e) ==
  /\ pending = 0
  /\ e \notin epochs
  /\ pending' = e
  /\ UNCHANGED <<epochs, recorded>>

(* Commits the announced epoch, on top of all others, *)
Commit ==
  /\ pending # 0
  /\ Latest(pending)
  /\ epochs' = epochs \cup {pending}
  /\ UNCHANGED <<recorded, pending>>

(* or takes over an epoch that another member started. *)
Follow(e) ==
  /\ Latest(e)
  /\ e # pending
  /\ epochs' = epochs \cup {e}
  /\ UNCHANGED <<recorded, pending>>

Record(e) ==
  /\ e \in epochs
  /\ e >= recorded
  /\ recorded' = e
  /\ UNCHANGED <<epochs, pending>>

Settle ==
  /\ pending # 0
  /\ pending \in epochs => recorded >= pending
  /\ pending' = 0
  /\ UNCHANGED <<epochs, recorded>>

Next ==
  \/ \E e \in Epoch : Announce(e) \/ Follow(e) \/ Record(e)
  \/ Commit
  \/ Settle

Spec == Init /\ [][Next]_vars
=============================================================================
