----------------------------- MODULE MCConsume -----------------------------
(* Consume on small instances.                                               *)
EXTENDS Consume, TLC

Symmetry == Permutations(Requests) \cup Permutations(Reservations)
=============================================================================
