----------------------------- MODULE MCControl -----------------------------
(* Control on a small instance: bodies that stop, restrict and free the       *)
(* application, and one that sends a field alone.                             *)
EXTENDS Control, TLC

Full(kill, maintenance, least) ==
  [killSwitch |-> kill, maintenance |-> maintenance, minVersion |-> least,
   latestVersion |-> 2]

Revive == [killSwitch |-> FALSE, maintenance |-> Unset, minVersion |-> Unset, latestVersion |-> Unset]

Asked == {Full(FALSE, FALSE, 0), Full(TRUE, FALSE, 0), Full(FALSE, TRUE, 0), Full(FALSE, FALSE, 2),
          Revive}

ControlSymmetry == Permutations(Slots)
=============================================================================
