------------------------------- MODULE RateLimit -------------------------------
(***************************************************************************)
(* The fixed-window counters in Redis. A counter is made by its first INCR *)
(* and gets its expiry by a second call; it goes with its window.          *)
(***************************************************************************)
EXTENDS Integers

CONSTANTS
  Null,   \* no expiry
  Keys,   \* the counters: a scope, a dimension and whom it is about
  Limit,  \* key -> the limit
  Window, \* key -> windowSeconds
  Cap     \* bound: counted no further

ASSUME RateLimitAssumption ==
  /\ Limit \in [Keys -> Nat] /\ Window \in [Keys -> Nat \ {0}]
  /\ Cap \in Nat /\ \A k \in Keys : Cap > Limit[k]
  /\ Null \notin Nat

VARIABLE counter \* key -> its count, and what is left of its window

Zero == [n |-> 0, left |-> Null]
CountersInit == counter = [k \in Keys |-> Zero]

(* Mutant of Incr: every call starts the window anew. *)
IncrSliding(k) ==
  counter' = [counter EXCEPT ![k].n = IF @ = Cap THEN @ ELSE @ + 1,
                             ![k].left = IF counter[k].n = 0 THEN @ ELSE Window[k]]

(* incrWindow: INCR, and for the first EXPIRE. *)
First(k) == counter[k].n = 0
Incr(k) == counter' = [counter EXCEPT ![k].n = IF @ = Cap THEN @ ELSE @ + 1]
Expire(k) ==
  counter' = [counter EXCEPT ![k].left = IF counter[k].n = 0 THEN @ ELSE Window[k]]

(* consume asks what its INCR returned, gate what is there. *)
Exceeds(k) == counter[k].n + 1 > Limit[k]

(* Mutant of Closed: one failure more. *)
ClosedLate(k) == counter[k].n > Limit[k]

Closed(k) == counter[k].n >= Limit[k]

(* A unit of time passes for a counter that has an expiry. *)
Older(c) == IF c.left = 1 THEN Zero ELSE [c EXCEPT !.left = @ - 1]
Aged == [k \in Keys |-> IF counter[k].left = Null THEN counter[k] ELSE Older(counter[k])]

=============================================================================
