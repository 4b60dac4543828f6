------------------------------ MODULE ClientPython ------------------------------
(***************************************************************************)
(* The Python SDK's client (client.py, storage.py), on a desktop or in a   *)
(* service that hands each call its token (given).                         *)
(***************************************************************************)
EXTENDS Client

(* An error whose body cannot be parsed is an INTERNAL_ERROR. *)
PyKind == [mishap \in Mishaps |->
  CASE mishap \in {"passing", "bad page", "bad blank"} -> "passing"
    [] mishap = "denied" -> "refused"
    [] mishap = "blank" -> "blank"
    [] OTHER -> "network"]
PyAgain == {"network", "passing"}

PyWrite(record) == file' = record
PyClear == file' \in {Absent, file}

PyActivate == Begin("activate", FALSE)
PyVerify == Readable /\ \E given \in BOOLEAN : Begin("verify", given)
PyDeactivate ==
  Readable /\ \E given \in BOOLEAN : Begin("deactivate", given)

PyPersist(body) == PyWrite(Record(body)) /\ Fulfilled /\ End("returned") /\ UNCHANGED worked

PyFallback ==
  /\ IF MayRunOffline(call.state) THEN End("offline") ELSE End("thrown")
  /\ UNCHANGED <<file, keys, worked>>

PyDeactivated(answer) == PyClear /\ Fulfilled /\ End(Returned(answer)) /\ UNCHANGED worked

PyThrow == End("thrown") /\ UNCHANGED <<file, keys, worked>>

(* Without a state read from the file there is nothing to fall back on; where
   an answer has no license_token, _persist raises before it writes.         *)
PyFinish(answer) ==
  CASE call.op \in {"activate", "verify"} /\ answer.kind = "ok" -> PyPersist(answer.body)
    [] call.op = "verify" /\ answer.kind = "network" /\ ~call.given -> PyFallback
    [] call.op = "deactivate" /\ Good(answer) -> PyDeactivated(answer)
    [] OTHER -> PyThrow

PyRequest ==
  \E s \in Asked : \E end \in Ends(s, PyKind) :
    /\ Attempt(s, end)
    /\ IF Repeats(end, PyAgain) THEN Repeat(end) ELSE PyFinish(end.answer)

=============================================================================
