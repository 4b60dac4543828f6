------------------------------- MODULE MCCatalog -------------------------------
(* Two administrators, interchangeable, and two releases; the first device is *)
(* in the part of the second release's rollout, the other one in none.        *)
EXTENDS Catalog, TLC

CONSTANTS d1, d2

MCDevices == {d1, d2}
MCLucky == {<<d1, 2>>}
MCUploads ==
  {[kinds |-> {"package", "installer"}, link |-> FALSE, away |-> FALSE],
   [kinds |-> {"installer"}, link |-> FALSE, away |-> FALSE],
   [kinds |-> {}, link |-> TRUE, away |-> TRUE]}

(* What update is sent: a status, a rollout, a link taken away. *)
NoEdit == [status |-> Null, rollout |-> Null, link |-> Null]
MCEdits ==
  {[NoEdit EXCEPT !.status = status] : status \in {"draft", "published", "archived"}}
  \cup {[NoEdit EXCEPT !.rollout = percent] : percent \in {50, 100}}
  \cup {[NoEdit EXCEPT !.link = FALSE]}
MCParties == {Admins} \cup {{a, Buyer} : a \in Admins}
Symmetry == Permutations(Admins)

=============================================================================
