------------------------------ MODULE ClientCsharp ------------------------------
(***************************************************************************)
(* The C# SDK's client (LicenseClient.cs, SecureStorage.cs). A request     *)
(* whose answer is lost is not tried again, since NETWORK_UNAVAILABLE is   *)
(* not among the retryable codes; the caller may cancel a call.            *)
(***************************************************************************)
EXTENDS Client

CsKind == [mishap \in Mishaps |->
  CASE mishap \in {"passing", "bad page", "bad blank"} -> "passing"
    [] mishap = "denied" -> "refused"
    [] mishap = "blank" -> "blank"
    [] OTHER -> "network"]
CsAgain == {"passing"}

CsWrite(record) == file' = record
CsClear == file' \in {Absent, file}

CsActivate == Begin("activate", FALSE)
CsVerify == Readable /\ Begin("verify", FALSE)
CsDeactivate == Readable /\ Begin("deactivate", FALSE)

(* What is missing is null, or 0 where it is a number. *)
CsPersist(answer) ==
  /\ CsWrite(Record(IF answer.kind = "ok" THEN answer.body ELSE [Blank EXCEPT !.grace = 0]))
  /\ Fulfilled /\ End(Returned(answer)) /\ UNCHANGED worked

CsFallback ==
  /\ IF MayRunOffline(call.state) THEN End("offline") ELSE End("thrown")
  /\ UNCHANGED <<file, keys, worked>>

CsDeactivated(answer) == CsClear /\ Fulfilled /\ End(Returned(answer)) /\ UNCHANGED worked

CsThrow == End("thrown") /\ UNCHANGED <<file, keys, worked>>

CsFinish(answer) ==
  CASE call.op \in {"activate", "verify"} /\ Good(answer) -> CsPersist(answer)
    [] call.op = "verify" /\ answer.kind = "network" -> CsFallback
    [] call.op = "deactivate" /\ Good(answer) -> CsDeactivated(answer)
    [] OTHER -> CsThrow

CsRequest ==
  \E s \in Asked : \E end \in Ends(s, CsKind) :
    /\ Attempt(s, end)
    /\ IF Repeats(end, CsAgain) THEN Repeat(end) ELSE CsFinish(end.answer)

(* OperationCanceledException reaches the caller; the request goes on. *)
CsCancel ==
  /\ call # Idle
  /\ IF Waiting THEN \E s \in Slots : Waited(s) /\ Abandon(s) ELSE jobs' = jobs
  /\ CsThrow
  /\ UNCHANGED <<device, calls, now, server>>

=============================================================================
