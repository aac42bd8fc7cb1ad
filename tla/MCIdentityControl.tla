------------------------- MODULE MCIdentityControl -------------------------
(***************************************************************************)
(* Instances of IdentityControl: installations a, b and c, the recovery    *)
(* passphrases r and s and the app key o of an outsider. The history is    *)
(* what the founder, a, signed before: what the instance needs to reach    *)
(* its cases within few new events.                                        *)
(***************************************************************************)
EXTENDS IdentityControl

CONSTANTS a, b, c, r, s, o

WithInvite == << <<"created", a>>, <<"invited", a>> >>
WithRecovery == << <<"created", a>>, <<"recovery", r>> >>

\* Histories with an event that neither admits nor removes anybody stay shorter:
\* such an event only adds to the causal past of the others.
AsidesAreShort ==
  (\E i \in DOMAIN event \ DOMAIN Told : event[i].kind \in {"noted", "invited"})
    => Cardinality(DOMAIN event \ DOMAIN Told) < MaxNew
=============================================================================
