------------------------------- MODULE MCGateway -------------------------------
(* Instances of Gateway for TLC. *)
EXTENDS Gateway

(* One caller whose requests are copied, by how far its clock is ahead; one
   whose secret is rotated; and several within the limits. *)
One == CHOOSE C \in SUBSET Callers : Cardinality(C) = 1
MCScenes ==
  {[callers |-> One, copies |-> 2, limits |-> FALSE, admins |-> {}, ahead |-> n] :
     n \in 0 .. Skew + 1}
  \cup {[callers |-> One, copies |-> 1, limits |-> FALSE, admins |-> Admins, ahead |-> 0],
        [callers |-> Callers, copies |-> 1, limits |-> TRUE, admins |-> {}, ahead |-> 0]}
MCLimit == [k \in Keys |-> IF k = "ip" THEN 3 ELSE 2]
MCWindow == [k \in Keys |-> 2]
=============================================================================
