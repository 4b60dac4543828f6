---------------------------- MODULE MCLicensing ----------------------------
(* Licensing on small instances: model values for requests and devices, and  *)
(* the permutations TLC may apply to them in the runs without liveness.      *)
EXTENDS Licensing, TLC

Symmetry == Permutations(Clients) \cup Permutations(Devices)
=============================================================================
