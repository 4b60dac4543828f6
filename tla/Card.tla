------------------------------- MODULE Card -------------------------------
(***************************************************************************)
(* What a licence card promises (the comments of activation.service.ts and *)
(* licenses.service.ts): it admits at most so many devices at a time, a    *)
(* ban or a revocation turns every one of them away at once, a lifted ban  *)
(* brings none of them back by itself, and revoked is final.  No requests, *)
(* no versions, no locks, no clock.                                        *)
(***************************************************************************)
EXTENDS Integers, FiniteSets

CONSTANTS Devices, Limit

VARIABLES
  phase,      \* "open", "banned" or "revoked"
  admitted    \* the devices whose token would be accepted if the card is open

cardState == <<phase, admitted>>

Init == phase = "open" /\ admitted = {}

(* A device activates, or shows that it was activated. *)
Admit(d) ==
  /\ phase = "open"
  /\ Cardinality(admitted \cup {d}) <= Limit
  /\ admitted' = admitted \cup {d}
  /\ UNCHANGED phase

(* Taking any device off ends every token of the card. *)
Recall == admitted' = {} /\ UNCHANGED phase

Ban == phase = "open" /\ phase' = "banned" /\ admitted' = {}

Unban == phase = "banned" /\ phase' = "open" /\ UNCHANGED admitted

Revoke == phase # "revoked" /\ phase' = "revoked" /\ admitted' = {}

Next == (\E d \in Devices : Admit(d)) \/ Recall \/ Ban \/ Unban \/ Revoke

Spec == Init /\ [][Next]_cardState

=============================================================================
