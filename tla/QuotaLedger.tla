---------------------------- MODULE QuotaLedger ----------------------------
(***************************************************************************)
(* What two-phase consumption promises the buyer of a pay-per-use card     *)
(* (the class comment of consume.service.ts): each reservation freezes its *)
(* amount once, against what is left of the device's quota, and ends once, *)
(* charged or given back.  No counters, no transactions, no clock.         *)
(***************************************************************************)
EXTENDS Integers, FiniteSets

CONSTANTS Devices, Reservations, Null, Quota, MaxAmount

Amounts == 1..MaxAmount

VARIABLE entry   \* each reservation: its state, device and amount

(* The uses that a device's reservations in one of the given states stand for. *)
Uses(d, states) ==
  {u \in Reservations \X Amounts :
     entry[u[1]].state \in states /\ entry[u[1]].dev = d /\ u[2] <= entry[u[1]].amount}

Taken(d) == Cardinality(Uses(d, {"frozen", "spent"}))

Init == entry = [r \in Reservations |-> [state |-> "none", dev |-> Null, amount |-> 0]]

Freeze(r, d, a) ==
  /\ entry[r].state = "none"
  /\ Taken(d) + a <= Quota
  /\ entry' = [entry EXCEPT ![r] = [state |-> "frozen", dev |-> d, amount |-> a]]

Spend(r) ==
  /\ entry[r].state = "frozen"
  /\ entry' = [entry EXCEPT ![r].state = "spent"]

Refund(r) ==
  /\ entry[r].state = "frozen"
  /\ entry' = [entry EXCEPT ![r].state = "refunded"]

Next ==
  \E r \in Reservations :
    \/ \E d \in Devices, a \in Amounts : Freeze(r, d, a)
    \/ Spend(r)
    \/ Refund(r)

Spec == Init /\ [][Next]_entry

=============================================================================
