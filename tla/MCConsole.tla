------------------------------- MODULE MCConsole -------------------------------
(* Instances of Console for TLC: the constants are all in the configurations. *)
EXTENDS Console
=============================================================================
