-------------------------------- MODULE Clients --------------------------------
(***************************************************************************)
(* A program that uses one of the four SDKs against the licensing server,  *)
(* over a network that loses requests and answers or delays them, with     *)
(* crashes, an administrator, and proxies that answer in the server's      *)
(* stead.                                                                  *)
(***************************************************************************)
EXTENDS ClientNode, ClientPython, ClientCsharp, ClientPhp

Start ==
  \/ program = "node"    /\ (NodeActivate \/ NodeVerify \/ NodeDeactivate)
  \/ program = "metered" /\ NodeConsume
  \/ program = "python"  /\ (PyActivate \/ PyVerify \/ PyDeactivate)
  \/ program = "csharp"  /\ (CsActivate \/ CsVerify \/ CsDeactivate)
  \/ program = "php"     /\ (PhpActivate \/ PhpVerify \/ PhpDeactivate)

Proceed ==
  \/ program \in {"node", "metered"} /\ (NodeRequest \/ NodeWork)
  \/ program = "python"  /\ PyRequest
  \/ program = "csharp"  /\ CsRequest
  \/ program = "php"     /\ PhpRequest

(* Python's _persist fails before it writes an answer without content. *)
Die == Crash(program # "php" /\ ~call.given /\ Persisting(program \in {"node", "csharp"}))

ClientWaits == Quiet /\ UNCHANGED <<device, file, call, calls, keys, worked>>
Serving == Serve /\ ClientWaits
Outside == (Administrate \/ (Unhurried /\ Tick) \/ \E r \in Rsvs : Expire(r)) /\ ClientWaits

Next == Start \/ Send \/ Proceed \/ Die
        \/ (program = "csharp" /\ CsCancel) \/ (program # "metered" /\ ClearLocal)
        \/ (program \notin {"metered", "php"} /\ SetClock)
        \/ Serving \/ Outside

Spec == Init /\ [][Next]_vars

-----------------------------------------------------------------------------
(* client.ts:57-59: whoever is let in without an answer, by a licence that has a
   grace, was let in by the server within the grace the server set, before the
   card ended by the device's clock; an activation answered from an idempotency
   record adds the age of the record, and a clock set back what it was set back. *)
Earned ==
  /\ vouched # Null
  /\ now <= vouched.at + card.grace + (IF vouched.cached THEN Retention ELSE 0) + back
  /\ card.expires # Null => Local < card.expires
OfflineIsEarned ==
  [][outcome'.how = "offline" => call.state.grace = Null \/ Earned]_outcome

(* Claimed: the comment of client.ts:59, that past the grace the answer is
   always no. Violated by Node after an answer without content, whose licence
   has no grace, and by a clock set back.                                    *)
GraceEnds ==
  [][outcome'.how = "offline" =>
       vouched # Null /\ now <= vouched.at + card.grace + Retention]_outcome

(* client.ts:89-107: when deactivate returns on an answer of the endpoint, the
   device is unbound, unless an activation that was given up before binds it
   again.                                                                    *)
DeactivatedIsUnbound ==
  outcome.op = "deactivate" /\ outcome.how = "returned" => ~card.bound \/ late

(* Claimed: the comment of client.ts:89, that deactivate unbinds the device.
   Violated on every SDK by a good status without content.                   *)
DeactivateUnbinds ==
  outcome.op = "deactivate" /\ outcome.how \in {"returned", "blank"} => ~card.bound \/ late

(* open.controller.ts:169-172: one key, one unbinding, however often the call
   is tried and whenever its requests arrive, unless two of them are at work at
   the same time. *)
KeyUnbindsOnce == charged > 1 => unguarded

(* client.ts:145-162: no reservation is charged whose work was not done; consume
   returns, on an answer of the endpoint, only when its reservation is charged;
   and when it throws, the reservation is charged only if an answer to confirm
   was lost.                                                                 *)
ConsumeIsExact ==
  /\ \A r \in Rsvs : rsv[r].charges > 0 => r \in worked
  /\ outcome.op = "confirm" /\ outcome.how = "returned" => rsv[outcome.rsv].charges > 0
  /\ outcome.op = "release" /\ outcome.rsv # Null /\ rsv[outcome.rsv].charges > 0 => outcome.unsure

(* Claimed: the comment of client.ts:152, that consume that returned has
   charged, and consume that threw has given back. The first is violated by a
   good status without content, the second by a lost answer to confirm.      *)
ReturnedIsCharged ==
  outcome.op = "confirm" /\ outcome.how \in {"returned", "blank"} =>
    outcome.rsv # Null /\ rsv[outcome.rsv].charges > 0
ThrownIsReleased ==
  outcome.op = "release" /\ outcome.rsv # Null => rsv[outcome.rsv].charges = 0

=============================================================================
