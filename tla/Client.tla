--------------------------------- MODULE Client --------------------------------
(***************************************************************************)
(* What the clients of the four SDKs share: the file the licence is kept   *)
(* in, the call in progress and the requests it makes. A request is tried  *)
(* again when its answer is lost or says so; the SDKs differ in what they  *)
(* take for a lost answer, in what they make of an answer without content, *)
(* in what they try again, in where they keep the licence and in whether   *)
(* they let the program run without an answer. The device has a clock of   *)
(* its own.                                                                *)
(***************************************************************************)
EXTENDS LicenseServer

CONSTANTS
  Programs,    \* programs considered: of one of the four SDKs, or one that is
               \*   activated and only calls the Node SDK's consume()
  Absent,      \* no file
  Damaged,     \* a file that cannot be read
  Idle,        \* no call
  Skews,       \* how far the device's clock may be from the server's
  MaxRetries,  \* the client's maxRetries
  MaxCalls     \* bound: calls the program makes and settings of its clock

(* A licence as it is kept, with Null for what it lacks, and a call. *)
Licences == [version : Nat \cup {Null}, expires : Expiries \cup {Null},
             grace : Graces \cup {0, Null}, at : Int]
Calls ==
  [op : {"activate", "verify", "deactivate", "reserve", "confirm", "release"},
   at : {"send", "wait", "work"}, attempt : Nat, given : BOOLEAN, keyed : BOOLEAN,
   state : Licences \cup {Null}, rsv : Rsvs \cup {Null}, unsure : BOOLEAN]

ASSUME ClientAssumption ==
  /\ Programs \subseteq {"node", "python", "csharp", "php", "metered"}
  /\ MaxRetries \in Nat /\ MaxCalls \in Nat /\ Idle \notin Calls
  /\ Skews \subseteq Int /\ 0 \in Skews

VARIABLES
  program,   \* which of them it is
  skew,      \* what the device's clock is ahead of the server's
  file,      \* the licence kept on the device, or in the caller's database
  call,      \* the call in progress, or Idle
  calls,     \* how many were begun, with the settings of the clock
  keys,      \* endpoint -> the caller's key for it is "new", "tried" or "over"
  worked,    \* history: reservations whose work was done
  back,      \* history: hours the clock was set back, in all
  outcome    \* how the last call ended

device == <<program, skew, back>>
clientVars == <<device, file, call, calls, keys, worked, outcome>>
vars == <<serverVars, clientVars>>

Nothing == [op |-> "none", how |-> "none", rsv |-> Null, unsure |-> FALSE]
Quiet == outcome' = Nothing

(* The device's time, and a licence as it is written at that time. *)
Local == now + skew
Record(body) == [version |-> body.version, expires |-> body.expires,
                 grace |-> body.grace, at |-> Local]

(* What is read from an answer that has none of the fields. *)
Blank == [version |-> Null, expires |-> Null, grace |-> Null]

Init ==
  /\ program \in Programs /\ ServerInit(program = "metered")
  /\ skew = 0 /\ back = 0
  /\ file = IF program = "metered" THEN Record(Grant) ELSE Absent
  /\ call = Idle /\ calls = 0 /\ keys = [op \in Keyed |-> "new"] /\ worked = {} /\ outcome = Nothing

Readable == file \notin {Absent, Damaged}

-----------------------------------------------------------------------------
(* A call: reads the file, sends a request, waits, tries again, ends.       *)

(* A key is for one intention: every call with it has it until one succeeds or,
   for deactivation, until the caller activates again. Later calls have none. *)
KeyFor(op) == op \in Keyed /\ keys[op] # "over"
KeysAt(op) ==
  [k \in Keyed |-> IF k = op /\ keys[k] = "new" THEN "tried"
                   ELSE IF k = "deactivate" /\ op = "activate" /\ keys[k] = "tried" THEN "over"
                   ELSE keys[k]]

(* given: the token is the caller's argument and no file is read. *)
Begin(op, given) ==
  /\ call = Idle /\ calls < MaxCalls /\ calls' = calls + 1
  /\ call' = [op |-> op, at |-> "send", attempt |-> 0, given |-> given, keyed |-> KeyFor(op),
              state |-> IF op = "activate" THEN Null ELSE file, rsv |-> Null, unsure |-> FALSE]
  /\ late' = (late /\ keys["deactivate"] = "tried") /\ keys' = KeysAt(op) /\ Quiet
  /\ UNCHANGED <<device, file, worked, now, jobs, database>>

(* A request without the token or the reservation it should have is refused by
   the validation of its body. *)
Incomplete(c) ==
  \/ c.op \in {"confirm", "release"} /\ c.rsv = Null
  \/ c.op \in {"verify", "deactivate", "reserve"} /\ c.state.version = Null

Request(c) ==
  [op |-> c.op, keyed |-> c.keyed, rsv |-> c.rsv, waited |-> TRUE,
   version |-> IF c.state = Null THEN 0 ELSE IF c.state.version = Null THEN 0 ELSE c.state.version,
   at |-> IF Incomplete(c) THEN "done" ELSE "sent", answer |-> IF Incomplete(c) THEN No ELSE Null]

(* Each attempt is signed anew, so the server takes it for a new request. *)
Send ==
  /\ call # Idle /\ call.at = "send"
  /\ \E s \in Slots : jobs[s] = Null /\ jobs' = [jobs EXCEPT ![s] = Request(call)]
  /\ call' = [call EXCEPT !.at = "wait"]
  /\ Quiet
  /\ UNCHANGED <<device, file, calls, keys, worked, now, server>>

Waited(s) == jobs[s] # Null /\ jobs[s].waited
Waiting == call # Idle /\ call.at = "wait"

(* What an attempt may come to, when it is not the endpoint's own answer: no
   answer in time; with a good or a bad status, a page that is not the server's
   or an answer without content, an empty body or one with none of the fields;
   a passing error (too many requests, an exception); a refusal by what stands
   before the endpoint (the plugin, the application's switches). *)
Strangers == {"silence", "page", "bad page", "blank", "bad blank"}
Mishaps == Strangers \cup {"passing", "denied"}

(* The server goes on with a request whose caller is gone; of verify that
   leaves no trace. *)
Abandon(s) ==
  jobs' = [jobs EXCEPT ![s] = IF @.op = "verify" \/ @.at = "done" THEN Null
                              ELSE [@ EXCEPT !.waited = FALSE]]

(* The request may have been lost or go on without anyone waiting for it; what
   answers an error has ended. *)
Befall(mishap, s) ==
  \/ /\ mishap = "denied" => jobs[s].at = "sent"
     /\ jobs' = [jobs EXCEPT ![s] = Null]
     /\ unguarded' = (unguarded \/ jobs[s].at = "ran")
  \/ mishap \in Strangers /\ Abandon(s) /\ UNCHANGED unguarded

Asked == {s \in Slots : Waiting /\ Waited(s)}

(* How an attempt may end: with the server's answer, or with a mishap, which
   the SDK takes for an answer of kind kinds[mishap].                        *)
Ends(s, kinds) ==
  (IF jobs[s].at = "done" THEN {[answer |-> jobs[s].answer, mishap |-> "none"]} ELSE {})
  \cup {[answer |-> [kind |-> kinds[m], body |-> Null], mishap |-> m] : m \in Mishaps}

Attempt(s, end) ==
  /\ IF end.mishap = "none"
     THEN jobs' = [jobs EXCEPT ![s] = Null] /\ UNCHANGED unguarded
     ELSE Befall(end.mishap, s)
  /\ UNCHANGED <<device, calls, now, card, saved, rsv, vouched, charged, late>>

(* request() tries again after the kinds of answers in again. *)
Repeats(end, again) == end.answer.kind \in again /\ call.attempt < MaxRetries
Unsure(end) == call.unsure \/ (call.op = "confirm" /\ end.mishap \notin {"none", "denied"})
Repeat(end) ==
  /\ call' = [call EXCEPT !.at = "send", !.attempt = @ + 1, !.unsure = Unsure(end)]
  /\ Quiet /\ UNCHANGED <<file, keys, worked>>

-----------------------------------------------------------------------------
(* How calls end.                                                           *)

End(how) ==
  /\ call' = Idle
  /\ outcome' = [op |-> call.op, how |-> how, rsv |-> call.rsv, unsure |-> call.unsure]

(* A good status is a success, with content or without. *)
Good(answer) == answer.kind \in {"ok", "blank"}
Returned(answer) == IF answer.kind = "blank" THEN "blank" ELSE "returned"

(* A key is over when its call succeeds. *)
Fulfilled == keys' = IF call.keyed THEN [keys EXCEPT ![call.op] = "over"] ELSE keys

(* By the device's clock, within the grace of the last answer and before the
   card's own date. A grace that is missing fails no comparison.             *)
MayRunOffline(state) ==
  /\ state.grace # Null => state.grace > 0 /\ Local - state.at <= state.grace
  /\ Local >= state.at
  /\ state.expires # Null => Local < state.expires

(* A licence is being written: the server's, or where blank what came of an
   answer without content. *)
Persisting(blank) ==
  /\ Waiting /\ call.op \in {"activate", "verify"}
  /\ \E s \in Slots :
       Waited(s) /\ (blank \/ (jobs[s].at = "done" /\ jobs[s].answer.kind = "ok"))

(* The program dies: the request goes on, a file being written is left torn. *)
Crash(writing) ==
  /\ call # Idle
  /\ call' = Idle /\ Quiet
  /\ IF Waiting THEN \E s \in Slots : Waited(s) /\ Abandon(s) ELSE jobs' = jobs
  /\ file' \in IF writing THEN {file, Damaged} ELSE {file}
  /\ UNCHANGED <<device, calls, keys, worked, now, server>>

(* The caller forgets the licence without telling the server. *)
ClearLocal ==
  /\ call = Idle /\ file # Absent /\ file' = Absent
  /\ Quiet
  /\ UNCHANGED <<device, call, calls, keys, worked, serverVars>>

(* Calls last seconds, and so does what the server is at work on, but for the
   caller's own work in the middle of consume.                               *)
Unhurried == (call # Idle => call.at = "work") /\ \A s \in Slots : jobs[s] = Null

(* The user sets the device's clock. *)
SetClock ==
  /\ Unhurried /\ calls < MaxCalls /\ calls' = calls + 1
  /\ \E to \in Skews :
       /\ to # skew /\ skew' = to
       /\ back' = back + (IF to < skew THEN skew - to ELSE 0)
  /\ Quiet
  /\ UNCHANGED <<program, file, call, keys, worked, serverVars>>

=============================================================================
