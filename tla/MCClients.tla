------------------------------- MODULE MCClients -------------------------------
(* The places requests take at the server are interchangeable.               *)
EXTENDS Clients, TLC

MCSkews == {-1, 0}

Symmetry == Permutations(Slots)

=============================================================================
