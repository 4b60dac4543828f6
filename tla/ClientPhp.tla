------------------------------- MODULE ClientPhp -------------------------------
(***************************************************************************)
(* The PHP SDK's client (LicenseClient.php). It keeps nothing: the caller  *)
(* stores the token it returns, in a database that is never torn, and      *)
(* hands it in. It never lets a program run offline.                       *)
(***************************************************************************)
EXTENDS Client

(* A body that is no JSON, or none, counts as an empty array; with a good
   status that is returned.                                                  *)
PhpKind == [mishap \in Mishaps |->
  CASE mishap = "silence" -> "network"
    [] mishap \in {"page", "blank"} -> "blank"
    [] mishap = "denied" -> "refused"
    [] OTHER -> "passing"]
PhpAgain == {"network", "passing"}

PhpActivate == Begin("activate", TRUE)
PhpVerify == Readable /\ Begin("verify", TRUE)
PhpDeactivate == Readable /\ Begin("deactivate", TRUE)

(* The caller stores or drops the token. An empty array holds none, and as
   nothing was thrown a caller may take it for an unbinding.                 *)
Store(record) == file' = record /\ Fulfilled /\ End("returned") /\ UNCHANGED worked
PhpEmpty ==
  /\ file' \in IF call.op = "deactivate" THEN {file, Absent} ELSE {file}
  /\ End("blank") /\ UNCHANGED <<keys, worked>>

PhpFinish(answer) ==
  CASE answer.kind = "ok" -> Store(IF call.op = "deactivate" THEN Absent ELSE Record(answer.body))
    [] answer.kind = "blank" -> PhpEmpty
    [] OTHER -> End("thrown") /\ UNCHANGED <<file, keys, worked>>

PhpRequest ==
  \E s \in Asked : \E end \in Ends(s, PhpKind) :
    /\ Attempt(s, end)
    /\ IF Repeats(end, PhpAgain) THEN Repeat(end) ELSE PhpFinish(end.answer)

=============================================================================
