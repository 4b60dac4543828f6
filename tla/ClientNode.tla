------------------------------- MODULE ClientNode -------------------------------
(***************************************************************************)
(* The Node SDK's client (client.ts, storage.ts), with consume(): reserve, *)
(* work, confirm, and release when either of the last two throws.          *)
(***************************************************************************)
EXTENDS Client

(* Anything that is no JSON makes JSON.parse throw, whatever its status; an
   empty body is read as an object without fields.                           *)
NodeKind == [mishap \in Mishaps |->
  CASE mishap \in {"passing", "bad blank"} -> "passing"
    [] mishap = "denied" -> "refused"
    [] mishap = "blank" -> "blank"
    [] OTHER -> "network"]
NodeAgain == {"network", "passing"}

(* SecureStorage: one file, written in place; what cannot be deleted stays. *)
NodeWrite(record) == file' = record
NodeClear == file' \in {Absent, file}

NodeActivate == Begin("activate", FALSE)
NodeVerify == Readable /\ Begin("verify", FALSE)
NodeDeactivate == Readable /\ Begin("deactivate", FALSE)
NodeConsume == Readable /\ Begin("reserve", FALSE)

(* persist writes whatever there is. *)
NodePersist(answer) ==
  /\ NodeWrite(Record(IF answer.kind = "ok" THEN answer.body ELSE Blank))
  /\ Fulfilled /\ End(Returned(answer)) /\ UNCHANGED worked

(* Mutant of NodeFallback: an offline start counts as a verification. *)
NodeFallbackPersists ==
  /\ IF MayRunOffline(call.state)
     THEN End("offline") /\ file' = [call.state EXCEPT !.at = Local]
     ELSE End("thrown") /\ file' = file
  /\ UNCHANGED <<keys, worked>>

NodeFallback ==
  /\ IF MayRunOffline(call.state) THEN End("offline") ELSE End("thrown")
  /\ UNCHANGED <<file, keys, worked>>

NodeThrow == End("thrown") /\ UNCHANGED <<file, keys, worked>>

(* Mutant of NodeDeactivated: clears although the answer was lost. *)
NodeDeactivatedAnyway(answer) ==
  IF Good(answer) \/ answer.kind = "network"
  THEN NodeClear /\ Fulfilled /\ End(Returned(answer)) /\ UNCHANGED worked
  ELSE NodeThrow

NodeDeactivated(answer) ==
  IF Good(answer)
  THEN NodeClear /\ Fulfilled /\ End(Returned(answer)) /\ UNCHANGED worked
  ELSE NodeThrow

Continue(op, unsure) ==
  /\ call' = [call EXCEPT !.op = op, !.at = "send", !.attempt = 0, !.unsure = unsure]
  /\ Quiet /\ UNCHANGED <<file, keys>>

(* Without content there is no reservation_id to go on with. *)
NodeReserved(answer) ==
  /\ call' = [call EXCEPT !.at = "work", !.rsv = IF answer.kind = "ok" THEN answer.body ELSE Null]
  /\ Quiet /\ UNCHANGED <<file, keys, worked>>

(* The caller's own function returns or throws. *)
NodeWork ==
  /\ call # Idle /\ call.at = "work"
  /\ \/ Continue("confirm", FALSE) /\ worked' = worked \cup ({call.rsv} \ {Null})
     \/ Continue("release", FALSE) /\ UNCHANGED worked
  /\ UNCHANGED <<device, calls, serverVars>>

NodeConfirmed(end) ==
  IF Good(end.answer) THEN End(Returned(end.answer)) /\ UNCHANGED <<file, keys, worked>>
                      ELSE Continue("release", Unsure(end)) /\ UNCHANGED worked

(* consume throws whatever became of the release. *)
NodeFinish(end) ==
  CASE call.op \in {"activate", "verify"} /\ Good(end.answer) -> NodePersist(end.answer)
    [] call.op = "verify" /\ end.answer.kind = "network" -> NodeFallback
    [] call.op = "deactivate" -> NodeDeactivated(end.answer)
    [] call.op = "reserve" /\ Good(end.answer) -> NodeReserved(end.answer)
    [] call.op = "confirm" -> NodeConfirmed(end)
    [] OTHER -> NodeThrow

NodeRequest ==
  \E s \in Asked : \E end \in Ends(s, NodeKind) :
    /\ Attempt(s, end)
    /\ IF Repeats(end, NodeAgain) THEN Repeat(end) ELSE NodeFinish(end)

=============================================================================
