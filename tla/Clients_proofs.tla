----------------------------- MODULE Clients_proofs -----------------------------
(* Theorems about Clients, for any number of requests at the server, retries,    *)
(* calls, reservations and administrators' acts.                                 *)
EXTENDS Clients, TLAPS

-----------------------------------------------------------------------------
(* The steps, without what tells the four SDKs apart. *)

Starts == {"activate", "verify", "deactivate", "reserve"}
Begun ==
  \E op \in Starts, given \in BOOLEAN :
    /\ Begin(op, given)
    /\ op # "activate" => Readable
    /\ program = "php" => op # "reserve"

(* How an attempt ends: with the server's answer, or with what is no yes. *)
Possible(s, end) ==
  \/ end.mishap = "none" /\ jobs[s].at = "done" /\ end.answer = jobs[s].answer
  \/ end.mishap \in Mishaps /\ end.answer.kind # "ok"

Blanks == {Blank, [Blank EXCEPT !.grace = 0]}
Succeeded(answer) ==
  /\ Good(answer) /\ End(Returned(answer)) /\ call.op \notin {"reserve", "release"}
  /\ Fulfilled \/ keys' = keys
  /\ \/ file' \in {file, Absent}
     \/ /\ call.op \in {"activate", "verify"}
        /\ \/ answer.kind = "ok" /\ file' = Record(answer.body)
           \/ \E body \in Blanks : file' = Record(body)
  /\ worked' = worked
Offline ==
  End("offline") /\ call.op = "verify" /\ MayRunOffline(call.state) /\ UNCHANGED <<file, keys, worked>>
Failed == End("thrown") /\ UNCHANGED <<file, keys, worked>>

Finishing(end) ==
  \/ end.answer.kind # "ok" /\ Repeat(end)
  \/ Succeeded(end.answer) \/ Offline \/ Failed
  \/ call.op = "reserve" /\ Good(end.answer) /\ NodeReserved(end.answer)
  \/ call.op = "confirm" /\ ~Good(end.answer) /\ Continue("release", Unsure(end)) /\ worked' = worked

Answering(s, end) == s \in Asked /\ Possible(s, end) /\ Attempt(s, end) /\ Finishing(end)

(* The program dies, or the caller cancels. *)
GivenUp ==
  /\ call # Idle /\ call' = Idle /\ (outcome' = Nothing \/ End("thrown"))
  /\ file' \in {file, Damaged}
  /\ IF Waiting THEN \E s \in Slots : Waited(s) /\ Abandon(s) ELSE jobs' = jobs
  /\ UNCHANGED <<device, calls, keys, worked, now, server>>

LEMMA NodeAnswers == NodeRequest => \E s \in Slots : \E end : Answering(s, end)
<1> SUFFICES ASSUME NodeRequest PROVE \E s \in Slots : \E end : Answering(s, end)
  OBVIOUS
<1>1. PICK s \in Asked : \E end \in Ends(s, NodeKind) :
             Attempt(s, end) /\ IF Repeats(end, NodeAgain) THEN Repeat(end) ELSE NodeFinish(end)
  BY DEF NodeRequest
<1>2. PICK end \in Ends(s, NodeKind) :
             Attempt(s, end) /\ IF Repeats(end, NodeAgain) THEN Repeat(end) ELSE NodeFinish(end)
  BY <1>1
<1>3. \A m \in Mishaps : NodeKind[m] # "ok"
  BY DEF NodeKind
<1>4. Possible(s, end)
  BY <1>2, <1>3 DEF Ends, Possible
<1>5. ASSUME NodeFinish(end) PROVE Finishing(end)
  <2> DEFINE a == end.answer
  <2>1. \/ call.op \in {"activate", "verify"} /\ Good(a) /\ NodePersist(a)
        \/ call.op = "verify" /\ NodeFallback
        \/ call.op = "deactivate" /\ NodeDeactivated(a)
        \/ call.op = "reserve" /\ Good(a) /\ NodeReserved(a)
        \/ call.op = "confirm" /\ NodeConfirmed(end)
        \/ NodeThrow
    BY <1>5, Zenon DEF NodeFinish
  <2>2. CASE call.op \in {"activate", "verify"} /\ Good(a) /\ NodePersist(a)
    BY <2>2 DEF NodePersist, NodeWrite, Finishing, Succeeded, Blanks
  <2>3. CASE call.op = "verify" /\ NodeFallback
    BY <2>3 DEF NodeFallback, Finishing, Offline, Failed
  <2>4. CASE call.op = "deactivate" /\ NodeDeactivated(a)
    BY <2>4 DEF NodeDeactivated, NodeClear, NodeThrow, Finishing, Succeeded, Failed
  <2>5. CASE call.op = "reserve" /\ Good(a) /\ NodeReserved(a)
    BY <2>5 DEF Finishing
  <2>6. CASE call.op = "confirm" /\ NodeConfirmed(end)
    BY <2>6 DEF NodeConfirmed, Finishing, Succeeded
  <2>7. CASE NodeThrow
    BY <2>7 DEF NodeThrow, Finishing, Failed
  <2> QED
    BY <2>1, <2>2, <2>3, <2>4, <2>5, <2>6, <2>7
<1>6. Finishing(end)
  BY <1>2, <1>5 DEF Finishing, Repeats, NodeAgain
<1> QED
  BY <1>1, <1>2, <1>4, <1>6 DEF Answering, Asked

LEMMA PyAnswers == PyRequest => \E s \in Slots : \E end : Answering(s, end)
<1> SUFFICES ASSUME PyRequest PROVE \E s \in Slots : \E end : Answering(s, end)
  OBVIOUS
<1>1. PICK s \in Asked : \E end \in Ends(s, PyKind) :
             Attempt(s, end) /\ IF Repeats(end, PyAgain) THEN Repeat(end) ELSE PyFinish(end.answer)
  BY DEF PyRequest
<1>2. PICK end \in Ends(s, PyKind) :
             Attempt(s, end) /\ IF Repeats(end, PyAgain) THEN Repeat(end) ELSE PyFinish(end.answer)
  BY <1>1
<1>3. \A m \in Mishaps : PyKind[m] # "ok"
  BY DEF PyKind
<1>4. Possible(s, end)
  BY <1>2, <1>3 DEF Ends, Possible
<1>5. ASSUME PyFinish(end.answer) PROVE Finishing(end)
  <2> DEFINE a == end.answer
  <2>1. \/ call.op \in {"activate", "verify"} /\ a.kind = "ok" /\ PyPersist(a.body)
        \/ call.op = "verify" /\ PyFallback
        \/ call.op = "deactivate" /\ Good(a) /\ PyDeactivated(a)
        \/ PyThrow
    BY <1>5, Zenon DEF PyFinish
  <2>2. CASE call.op \in {"activate", "verify"} /\ a.kind = "ok" /\ PyPersist(a.body)
    BY <2>2 DEF PyPersist, PyWrite, Finishing, Succeeded, Good, Returned
  <2>3. CASE call.op = "verify" /\ PyFallback
    BY <2>3 DEF PyFallback, Finishing, Offline, Failed
  <2>4. CASE call.op = "deactivate" /\ Good(a) /\ PyDeactivated(a)
    BY <2>4 DEF PyDeactivated, PyClear, Finishing, Succeeded
  <2>5. CASE PyThrow
    BY <2>5 DEF PyThrow, Finishing, Failed
  <2> QED
    BY <2>1, <2>2, <2>3, <2>4, <2>5
<1>6. Finishing(end)
  BY <1>2, <1>5 DEF Finishing, Repeats, PyAgain
<1> QED
  BY <1>1, <1>2, <1>4, <1>6 DEF Answering, Asked

LEMMA CsAnswers == CsRequest => \E s \in Slots : \E end : Answering(s, end)
<1> SUFFICES ASSUME CsRequest PROVE \E s \in Slots : \E end : Answering(s, end)
  OBVIOUS
<1>1. PICK s \in Asked : \E end \in Ends(s, CsKind) :
             Attempt(s, end) /\ IF Repeats(end, CsAgain) THEN Repeat(end) ELSE CsFinish(end.answer)
  BY DEF CsRequest
<1>2. PICK end \in Ends(s, CsKind) :
             Attempt(s, end) /\ IF Repeats(end, CsAgain) THEN Repeat(end) ELSE CsFinish(end.answer)
  BY <1>1
<1>3. \A m \in Mishaps : CsKind[m] # "ok"
  BY DEF CsKind
<1>4. Possible(s, end)
  BY <1>2, <1>3 DEF Ends, Possible
<1>5. ASSUME CsFinish(end.answer) PROVE Finishing(end)
  <2> DEFINE a == end.answer
  <2>1. \/ call.op \in {"activate", "verify"} /\ Good(a) /\ CsPersist(a)
        \/ call.op = "verify" /\ CsFallback
        \/ call.op = "deactivate" /\ Good(a) /\ CsDeactivated(a)
        \/ CsThrow
    BY <1>5, Zenon DEF CsFinish
  <2>2. CASE call.op \in {"activate", "verify"} /\ Good(a) /\ CsPersist(a)
    BY <2>2 DEF CsPersist, CsWrite, Finishing, Succeeded, Good, Blanks
  <2>3. CASE call.op = "verify" /\ CsFallback
    BY <2>3 DEF CsFallback, Finishing, Offline, Failed
  <2>4. CASE call.op = "deactivate" /\ Good(a) /\ CsDeactivated(a)
    BY <2>4 DEF CsDeactivated, CsClear, Finishing, Succeeded
  <2>5. CASE CsThrow
    BY <2>5 DEF CsThrow, Finishing, Failed
  <2> QED
    BY <2>1, <2>2, <2>3, <2>4, <2>5
<1>6. Finishing(end)
  BY <1>2, <1>5 DEF Finishing, Repeats, CsAgain
<1> QED
  BY <1>1, <1>2, <1>4, <1>6 DEF Answering, Asked

LEMMA PhpAnswers == PhpRequest /\ call.op \in {"activate", "verify", "deactivate"}
                    => \E s \in Slots : \E end : Answering(s, end)
<1> SUFFICES ASSUME PhpRequest, call.op \in {"activate", "verify", "deactivate"}
             PROVE \E s \in Slots : \E end : Answering(s, end)
  OBVIOUS
<1>1. PICK s \in Asked : \E end \in Ends(s, PhpKind) :
             Attempt(s, end) /\ IF Repeats(end, PhpAgain) THEN Repeat(end) ELSE PhpFinish(end.answer)
  BY DEF PhpRequest
<1>2. PICK end \in Ends(s, PhpKind) :
             Attempt(s, end) /\ IF Repeats(end, PhpAgain) THEN Repeat(end) ELSE PhpFinish(end.answer)
  BY <1>1
<1>3. \A m \in Mishaps : PhpKind[m] # "ok"
  BY DEF PhpKind
<1>4. Possible(s, end)
  BY <1>2, <1>3 DEF Ends, Possible
<1>5. ASSUME PhpFinish(end.answer) PROVE Finishing(end)
  <2> DEFINE a == end.answer
  <2>1. \/ a.kind = "ok" /\ Store(IF call.op = "deactivate" THEN Absent ELSE Record(a.body))
        \/ a.kind = "blank" /\ PhpEmpty
        \/ End("thrown") /\ UNCHANGED <<file, keys, worked>>
    BY <1>5, Zenon DEF PhpFinish
  <2>2. CASE a.kind = "ok" /\ Store(IF call.op = "deactivate" THEN Absent ELSE Record(a.body))
    BY <2>2 DEF Store, Finishing, Succeeded, Good, Returned
  <2>3. CASE a.kind = "blank" /\ PhpEmpty
    BY <2>3 DEF PhpEmpty, Finishing, Succeeded, Good, Returned
  <2>4. CASE End("thrown") /\ UNCHANGED <<file, keys, worked>>
    BY <2>4 DEF Finishing, Failed
  <2> QED
    BY <2>1, <2>2, <2>3, <2>4
<1>6. Finishing(end)
  BY <1>2, <1>5 DEF Finishing, Repeats, PhpAgain
<1> QED
  BY <1>1, <1>2, <1>4, <1>6 DEF Answering, Asked

LEMMA Steps ==
  ASSUME [Next]_vars, program = "php" /\ call # Idle => call.op \in {"activate", "verify", "deactivate"}
  PROVE  \/ Begun \/ Send \/ (\E s \in Slots : \E end : Answering(s, end)) \/ NodeWork \/ GivenUp
         \/ ClearLocal \/ SetClock \/ Serving \/ Outside \/ UNCHANGED vars
<1>1. Start => Begun
  BY DEF Start, Begun, Starts, NodeActivate, NodeVerify, NodeDeactivate, NodeConsume, PyActivate, PyVerify,
         PyDeactivate, CsActivate, CsVerify, CsDeactivate, PhpActivate, PhpVerify, PhpDeactivate
<1>2. PhpRequest => call # Idle
  BY DEF PhpRequest, Asked, Waiting
<1>3. Proceed => (\E s \in Slots : \E end : Answering(s, end)) \/ NodeWork
  BY <1>2, NodeAnswers, PyAnswers, CsAnswers, PhpAnswers DEF Proceed
<1>4. Die => GivenUp
  BY DEF Die, Crash, GivenUp, Quiet, Nothing
<1>5. CsCancel => GivenUp
  BY DEF CsCancel, CsThrow, End, GivenUp
<1> QED
  BY <1>1, <1>3, <1>4, <1>5 DEF Next, vars

-----------------------------------------------------------------------------
(* The shape of requests, calls and what is kept: a key belongs to activate and
   deactivate, and what waits to be saved is a yes.                            *)

Fits(op, answer) ==
  /\ answer \in Answers
  /\ answer.kind = "ok" =>
       /\ op \in {"activate", "verify"} => answer.body \in Grants
       /\ op = "deactivate" => answer.body = Null
       /\ op = "reserve" => answer.body \in Rsvs

RequestShape(j) ==
  /\ j.keyed => j.op \in Keyed
  /\ j.at \in {"missed", "ran"} => j.keyed
  /\ j.op \in {"confirm", "release"} /\ j.rsv = Null => j.at = "done" /\ j.answer = No
  /\ j.at = "read" => j.op \in {"confirm", "release"}
  /\ j.at \in {"ran", "done"} => Fits(j.op, j.answer)
  /\ j.at = "ran" => j.answer.kind = "ok"

CallShape(c) ==
  /\ c.keyed => c.op \in Keyed
  /\ c.at = "work" \/ c.op \in {"confirm", "release"} => ~c.keyed
  /\ c.op = "verify" => c.state \in Licences
  /\ c.at = "work" => c.op = "reserve"
  /\ program = "php" => c.op \in {"activate", "verify", "deactivate"}

JobsType ==
  /\ jobs \in [Slots -> Requests \cup {Null}]
  /\ \A s \in Slots : jobs[s] # Null => RequestShape(jobs[s])

ServerType ==
  /\ now \in Nat
  /\ card \in [barred : BOOLEAN, expires : Expiries, grace : Graces, bound : BOOLEAN,
               version : Nat, rebinds : Nat]
  /\ saved \in [Keyed -> Records \cup {Null}]
  /\ saved["activate"] # Null => saved["activate"].body \in Grants
  /\ saved["deactivate"] # Null => saved["deactivate"].body = Null
  /\ rsv \in [Rsvs -> [status : {"none", "frozen", "spent", "refunded"}, charges : Nat]]
  /\ charged \in Nat /\ unguarded \in BOOLEAN /\ late \in BOOLEAN

ClientType ==
  /\ file \in Licences \cup {Absent, Damaged}
  /\ call # Idle => call \in Calls /\ CallShape(call)
  /\ keys \in [Keyed -> {"new", "tried", "over"}]
  /\ skew \in Int /\ back \in Nat

TypeInv == JobsType /\ ServerType /\ ClientType

LEMMA NullIsNone ==
  /\ Null \notin Nat /\ Null \notin Records /\ Null \notin Vouchers /\ Null \notin Requests
  /\ Rsvs \subseteq Nat /\ Null \notin Rsvs /\ Idle \notin Calls /\ Retention \in Nat
BY LicenseServerAssumption, ClientAssumption DEF LicenseServerAssumption, ClientAssumption

(* A request at the server goes to a place, where it may have an answer; when
   nobody waits for that answer, it is gone.                                  *)
Turns(s, place, answer) ==
  /\ jobs[s] # Null
  /\ \A t \in Slots \ {s} : jobs'[t] = jobs[t]
  /\ \/ jobs'[s] = Null /\ ~jobs[s].waited /\ place = "done"
     \/ jobs'[s] = [jobs[s] EXCEPT !.at = place, !.answer = answer]

LEMMA TurnsType ==
  ASSUME JobsType, NEW s \in Slots, NEW place \in {"missed", "ran", "read", "done"}, NEW answer \in Answers \cup {Null},
         Turns(s, place, answer), jobs[s].at # "done",
         place \in {"missed", "ran"} => jobs[s].keyed,
         place = "read" => jobs[s].op \in {"confirm", "release"},
         place \in {"ran", "done"} => Fits(jobs[s].op, answer),
         place = "ran" => answer.kind = "ok",
         jobs' = [t \in Slots |-> jobs'[t]]
  PROVE  JobsType'
<1> DEFINE k == [jobs[s] EXCEPT !.at = place, !.answer = answer]
<1>1. jobs[s] \in Requests /\ RequestShape(jobs[s])
  BY DEF JobsType, Turns
<1>2. /\ k \in Requests /\ k.op = jobs[s].op /\ k.keyed = jobs[s].keyed /\ k.rsv = jobs[s].rsv
      /\ k.at = place /\ k.answer = answer
  BY <1>1 DEF Requests
<1>3. RequestShape(k)
  BY <1>1, <1>2 DEF RequestShape
<1>4. \A t \in Slots : jobs'[t] \in Requests \cup {Null} /\ (jobs'[t] # Null => RequestShape(jobs'[t]))
  BY <1>2, <1>3 DEF JobsType, Turns
<1>5. \A t \in Slots : jobs'[t] # Null => RequestShape(jobs[t])'
  BY <1>4 DEF RequestShape, Fits
<1> QED
  BY <1>4, <1>5 DEF JobsType

LEMMA DoneTurns ==
  ASSUME JobsType, NEW s \in Slots, jobs[s] # Null, NEW answer, Done(s, answer)
  PROVE  Turns(s, "done", answer) /\ jobs' = [t \in Slots |-> jobs'[t]]
<1>1. jobs[s] \in Requests
  BY DEF JobsType
<1> QED
  BY <1>1 DEF JobsType, Turns, Done, Requests

LEMMA MoveTurns ==
  ASSUME JobsType, NEW s \in Slots, jobs[s] # Null, NEW place, Move(s, place)
  PROVE  Turns(s, place, jobs[s].answer) /\ jobs' = [t \in Slots |-> jobs'[t]] /\ jobs[s].answer \in Answers \cup {Null}
<1>1. jobs[s] \in Requests
  BY DEF JobsType
<1> QED
  BY <1>1 DEF JobsType, Turns, Move, Requests

LEMMA AnswerTurns ==
  ASSUME JobsType, NEW s \in Slots, jobs[s] # Null, NEW answer, Answer(s, answer)
  PROVE  /\ Turns(s, IF jobs[s].keyed /\ answer.kind = "ok" THEN "ran" ELSE "done", answer)
         /\ jobs' = [t \in Slots |-> jobs'[t]]
<1>1. jobs[s] \in Requests
  BY DEF JobsType
<1>2. CASE jobs[s].keyed /\ answer.kind = "ok"
  BY <1>1, <1>2 DEF Answer, JobsType, Turns, Requests
<1>3. CASE ~(jobs[s].keyed /\ answer.kind = "ok")
  BY <1>3, DoneTurns DEF Answer
<1> QED
  BY <1>2, <1>3

-----------------------------------------------------------------------------
(* Steps of the server keep the shape. *)

LEMMA YesNoFit ==
  ASSUME ServerType
  PROVE  /\ \A op : Fits(op, No) /\ No.kind # "ok"
         /\ Grant \in Grants /\ \A body : Yes(body).kind = "ok" /\ Yes(body).body = body
         /\ \A op \in {"activate", "verify"}, body \in Grants : Fits(op, Yes(body))
         /\ \A op \in {"deactivate", "confirm", "release"} : Fits(op, Yes(Null))
         /\ \A r \in Rsvs : Fits("reserve", Yes(r))
BY DEF ServerType, Fits, No, Yes, Grant, Grants, Answers

LEMMA LookupType ==
  ASSUME JobsType, ServerType, NEW s \in Slots, Lookup(s)
  PROVE  JobsType' /\ ServerType'
<1> DEFINE job == jobs[s]
           found == saved[job.op]
<1>1. job \in Requests /\ RequestShape(job) /\ job.op \in Keyed /\ job # Null /\ job.at = "sent" /\ job.keyed
  BY DEF Lookup, At, JobsType, RequestShape
<1>2. CASE Hit(s)
  <2>1. found \in Records /\ found # Null
    BY <1>1, <1>2 DEF Hit, ServerType
  <2>2. Fits(job.op, IF found.version = job.version THEN Yes(found.body) ELSE No)
    BY <1>1, <2>1, YesNoFit DEF ServerType, Keyed
  <2>3. Done(s, IF found.version = job.version THEN Yes(found.body) ELSE No)
    BY <1>2 DEF Lookup
  <2>4. JobsType'
    BY <1>1, <2>2, <2>3, DoneTurns, TurnsType DEF Fits
  <2>5. UNCHANGED <<now, card, saved, rsv, charged, unguarded, late>>
    BY <1>2 DEF Lookup
  <2> QED
    BY <2>4, <2>5 DEF ServerType
<1>3. CASE ~Hit(s)
  <2>1. /\ Move(s, "missed") /\ saved' = [saved EXCEPT ![job.op] = Null]
        /\ unguarded' \in BOOLEAN /\ UNCHANGED <<now, card, rsv, charged, late>>
    BY <1>3 DEF Lookup, ServerType
  <2>2. JobsType'
    BY <1>1, <2>1, MoveTurns, TurnsType
  <2> QED
    BY <1>1, <2>1, <2>2 DEF ServerType, Keyed
<1> QED
  BY <1>2, <1>3

LEMMA SaveType ==
  ASSUME JobsType, ServerType, NEW s \in Slots, Save(s)
  PROVE  JobsType' /\ ServerType' /\ saved'[jobs[s].op] # Null
<1> DEFINE job == jobs[s]
           record == [version |-> job.version, body |-> job.answer.body, until |-> now + Retention]
<1>1. job \in Requests /\ RequestShape(job) /\ job.op \in Keyed /\ job # Null /\ job.at = "ran"
  BY DEF Save, At, JobsType, RequestShape
<1>2. Fits(job.op, job.answer) /\ job.answer.kind = "ok" /\ job.answer \in Answers
  BY <1>1 DEF RequestShape, Fits
<1>3. JobsType'
  BY <1>1, <1>2, DoneTurns, TurnsType DEF Save, Fits
<1>4. /\ record \in Records
      /\ job.op = "activate" => record.body \in Grants
      /\ job.op = "deactivate" => record.body = Null
  BY <1>1, <1>2, NullIsNone DEF Records, Fits, Requests, Keyed, ServerType
<1>5. UNCHANGED <<now, card, rsv, charged, unguarded, late>> /\ (saved' = saved \/ saved' = [saved EXCEPT ![job.op] = record])
  BY DEF Save
<1>6. /\ saved' \in [Keyed -> Records \cup {Null}]
      /\ \A op \in Keyed : saved'[op] = saved[op] \/ (op = job.op /\ saved'[op] = record)
  <2> HIDE DEF record
  <2>1. record \in Records \cup {Null} /\ saved \in [Keyed -> Records \cup {Null}]
    BY <1>4 DEF ServerType
  <2> QED
    BY <1>5, <2>1
<1>7. /\ saved'["activate"] # Null => saved'["activate"].body \in Grants
      /\ saved'["deactivate"] # Null => saved'["deactivate"].body = Null
  <2> HIDE DEF record
  <2> QED
    BY <1>4, <1>6 DEF ServerType, Keyed
<1>8. saved'[job.op] # Null
  BY <1>1, <1>4, NullIsNone DEF Save, ServerType
<1> QED
  BY <1>3, <1>5, <1>6, <1>7, <1>8 DEF ServerType

LEMMA RunType ==
  ASSUME JobsType, ServerType, NEW s \in Slots,
         RunActivate(s) \/ RunVerify(s) \/ RunDeactivate(s) \/ RunReserve(s) \/ ReadRsv(s) \/ WriteRsv(s)
  PROVE  JobsType' /\ ServerType'
<1> DEFINE job == jobs[s]
<1>1. job \in Requests /\ RequestShape(job) /\ job # Null /\ job.at # "done"
  BY DEF RunActivate, RunVerify, RunDeactivate, RunReserve, ReadRsv, WriteRsv, Ready, At, JobsType
<1>2. ASSUME NEW answer, Answer(s, answer), Fits(job.op, answer) PROVE JobsType'
  BY <1>1, <1>2, AnswerTurns, TurnsType DEF Fits
<1>3. ASSUME NEW answer, Done(s, answer), Fits(job.op, answer) PROVE JobsType'
  BY <1>1, <1>3, DoneTurns, TurnsType DEF Fits
<1>4. CASE RunActivate(s)
  <2>1. JobsType'
    BY <1>2, <1>4, YesNoFit DEF RunActivate
  <2>2. /\ card' \in {card, [card EXCEPT !.bound = TRUE]} /\ late' \in BOOLEAN
        /\ UNCHANGED <<now, saved, rsv, charged, unguarded>>
    BY <1>1, <1>4 DEF RunActivate, ServerType, Requests
  <2> QED
    BY <2>1, <2>2 DEF ServerType
<1>5. CASE RunVerify(s)
  <2>1. JobsType'
    BY <1>2, <1>5, YesNoFit DEF RunVerify
  <2> QED
    BY <1>5, <2>1 DEF RunVerify, ServerType
<1>6. CASE RunDeactivate(s)
  <2>1. JobsType'
    BY <1>2, <1>6, YesNoFit DEF RunDeactivate
  <2>2. /\ card' = card \/ card' = [card EXCEPT !.bound = FALSE, !.version = @ + 1, !.rebinds = @ + 1]
        /\ late' \in BOOLEAN /\ (charged' = charged \/ charged' = charged + 1 \/ charged' = charged + 0)
        /\ UNCHANGED <<now, saved, rsv, unguarded>>
    BY <1>1, <1>6 DEF RunDeactivate, ServerType, Requests
  <2>3. card' \in [barred : BOOLEAN, expires : Expiries, grace : Graces, bound : BOOLEAN,
                   version : Nat, rebinds : Nat]
    <3>1. CASE card' = [card EXCEPT !.bound = FALSE, !.version = @ + 1, !.rebinds = @ + 1]
      <4>1. card.version + 1 \in Nat /\ card.rebinds + 1 \in Nat
        BY DEF ServerType
      <4> QED
        BY <3>1, <4>1 DEF ServerType
    <3> QED
      BY <2>2, <3>1 DEF ServerType
  <2>4. charged' \in Nat
    BY <2>2 DEF ServerType
  <2> QED
    BY <2>1, <2>2, <2>3, <2>4 DEF ServerType
<1>7. CASE RunReserve(s)
  <2>1. JobsType'
    BY <1>2, <1>7, YesNoFit DEF RunReserve
  <2>2. /\ rsv' = rsv \/ \E r \in Rsvs : rsv' = [rsv EXCEPT ![r].status = "frozen"]
        /\ UNCHANGED <<now, card, saved, charged, unguarded, late>>
    BY <1>7 DEF RunReserve
  <2> QED
    BY <2>1, <2>2 DEF ServerType
<1>8. CASE ReadRsv(s)
  <2>1. JobsType'
    <3>1. CASE Move(s, "read")
      BY <1>1, <1>8, <3>1, MoveTurns, TurnsType DEF ReadRsv
    <3>2. CASE Done(s, Yes(Null)) \/ Done(s, No)
      BY <1>3, <1>8, <3>2, YesNoFit DEF ReadRsv
    <3> QED
      BY <1>8, <3>1, <3>2 DEF ReadRsv
  <2> QED
    BY <1>8, <2>1 DEF ReadRsv, server, database, ServerType
<1>9. CASE WriteRsv(s)
  <2>1. job.op \in {"confirm", "release"} /\ job.rsv \in Rsvs
    BY <1>1, <1>9 DEF WriteRsv, At, RequestShape, Requests
  <2>2. JobsType'
    BY <1>3, <1>9, <2>1, YesNoFit DEF WriteRsv
  <2>3. /\ \/ rsv' = [rsv EXCEPT ![job.rsv] = [status |-> "spent", charges |-> @.charges + 1]]
           \/ rsv' = [rsv EXCEPT ![job.rsv].status = "refunded"]
        /\ UNCHANGED <<now, card, saved, charged, unguarded, late>>
    BY <1>9 DEF WriteRsv
  <2> QED
    BY <2>1, <2>2, <2>3 DEF ServerType
<1> QED
  BY <1>4, <1>5, <1>6, <1>7, <1>8, <1>9

LEMMA ServeType == JobsType /\ ServerType /\ Serve => JobsType' /\ ServerType'
BY LookupType, SaveType, RunType DEF Serve

-----------------------------------------------------------------------------
(* So do those of the client, of the network and of the administrator. *)

LEMMA TypeInit == Init => TypeInv
<1> SUFFICES ASSUME Init PROVE TypeInv
  OBVIOUS
<1>1. JobsType /\ ServerType
  <2>1. card \in [barred : BOOLEAN, expires : Expiries, grace : Graces, bound : BOOLEAN,
                 version : Nat, rebinds : Nat]
    <3>1. ASSUME NEW bound \in BOOLEAN, ServerInit(bound)
          PROVE  card \in [barred : {FALSE}, expires : Expiries, grace : Graces, bound : {bound},
                          version : {0}, rebinds : {0}]
      BY <3>1, Zenon DEF ServerInit
    <3>2. (program = "metered") \in BOOLEAN /\ ServerInit(program = "metered")
      BY Zenon DEF Init
    <3>3. PICK bound \in BOOLEAN : ServerInit(bound)
      BY <3>2, Zenon
    <3>4. {bound} \subseteq BOOLEAN /\ {FALSE} \subseteq BOOLEAN /\ {0} \subseteq Nat
      BY <3>3
    <3>5. card \in [barred : {FALSE}, expires : Expiries, grace : Graces, bound : {bound},
                   version : {0}, rebinds : {0}]
      BY <3>1, <3>3, Zenon
    <3> QED
      BY <3>4, <3>5, Zenon
  <2>2. jobs = [s \in Slots |-> Null] /\ saved = [op \in Keyed |-> Null]
        /\ rsv = [r \in Rsvs |-> [status |-> "none", charges |-> 0]]
        /\ now = 0 /\ charged = 0 /\ unguarded = FALSE /\ late = FALSE
    BY DEF Init, ServerInit
  <2>3. JobsType
    BY <2>2 DEF JobsType
  <2> QED
    BY <2>1, <2>2, <2>3 DEF ServerType, Keyed
<1>2. Grant \in Grants /\ skew = 0 /\ back = 0
  BY <1>1, YesNoFit DEF Init
<1>3. Record(Grant) \in Licences
  BY <1>1, <1>2 DEF ServerType, Record, Local, Grants, Licences
<1> QED
  BY <1>1, <1>2, <1>3 DEF Init, ClientType, TypeInv

LEMMA BeginType == TypeInv /\ Begun => TypeInv'
<1> SUFFICES ASSUME TypeInv, NEW op \in Starts, NEW given \in BOOLEAN, Begin(op, given), op # "activate" => Readable,
                    program = "php" => op # "reserve"
             PROVE  TypeInv'
  BY DEF Begun
<1> DEFINE c == [op |-> op, at |-> "send", attempt |-> 0, given |-> given, keyed |-> KeyFor(op),
                 state |-> IF op = "activate" THEN Null ELSE file, rsv |-> Null, unsure |-> FALSE]
<1>1. call' = c /\ UNCHANGED <<device, file, now, jobs, database>> /\ late' \in BOOLEAN /\ keys' = KeysAt(op)
  BY DEF Begin, TypeInv, ServerType
<1>2. op # "activate" => file \in Licences
  BY DEF TypeInv, ClientType, Readable
<1>3. c \in Calls /\ (c.keyed => op \in Keyed)
  BY <1>2 DEF Calls, Starts, KeyFor
<1>4. ClientType'
  <2>1. keys' \in [Keyed -> {"new", "tried", "over"}]
    <3>1. \A k \in Keyed : KeysAt(op)[k] \in {"tried", "over", keys[k]}
      BY DEF KeysAt
    <3>2. KeysAt(op) = [k \in Keyed |-> KeysAt(op)[k]]
      BY DEF KeysAt
    <3> QED
      BY <1>1, <3>1, <3>2 DEF TypeInv, ClientType
  <2>2. CallShape(call)'
    BY <1>1, <1>2, <1>3 DEF device, CallShape, Starts
  <2> QED
    BY <1>1, <1>3, <2>1, <2>2 DEF device, TypeInv, ClientType
<1>5. JobsType' /\ ServerType'
  BY <1>1 DEF TypeInv, JobsType, RequestShape, Fits, ServerType, database
<1> QED
  BY <1>4, <1>5 DEF TypeInv

(* The request a call makes is under way, or refused at once. *)
Fresh(j) == j.at = "sent" \/ (j.at = "done" /\ j.answer = No)

LEMMA RequestFits ==
  ASSUME TypeInv, call # Idle
  PROVE  /\ Request(call) \in Requests /\ RequestShape(Request(call)) /\ Request(call) # Null
         /\ Fresh(Request(call)) /\ Request(call).waited
         /\ \A field \in {"op", "keyed", "rsv"} : Request(call)[field] = call[field]
<1> DEFINE r == Request(call)
<1>1. call \in Calls /\ CallShape(call)
  BY DEF TypeInv, ClientType
<1>2. r.version \in Nat
  BY <1>1, NullIsNone DEF Request, Calls, Licences
<1>3. No \in Answers /\ No.kind # "ok"
  BY DEF No, Answers
<1>4. /\ r.op = call.op /\ r.keyed = call.keyed /\ r.rsv = call.rsv /\ r.waited
      /\ IF Incomplete(call) THEN r.at = "done" /\ r.answer = No ELSE r.at = "sent" /\ r.answer = Null
  BY DEF Request
<1>5. r \in Requests
  <2>1. \E at \in {"sent", "done"}, answer \in Answers \cup {Null}, version \in Nat :
           r = [op |-> call.op, keyed |-> call.keyed, rsv |-> call.rsv, waited |-> TRUE, version |-> version,
                at |-> at, answer |-> answer]
    BY <1>2, <1>3 DEF Request
  <2> HIDE DEF r
  <2> QED
    BY <1>1, <2>1 DEF Requests, Calls
<1>6. RequestShape(r)
  <2>1. r.at \in {"sent", "done"} /\ (r.at = "done" => r.answer = No)
    BY <1>4
  <2>2. r.op \in {"confirm", "release"} /\ r.rsv = Null => r.at = "done" /\ r.answer = No
    BY <1>4 DEF Incomplete
  <2>3. r.keyed => r.op \in Keyed
    BY <1>1, <1>4 DEF CallShape
  <2>4. \A op : Fits(op, No)
    BY <1>3 DEF Fits
  <2> QED
    BY <2>1, <2>2, <2>3, <2>4 DEF RequestShape
<1> QED
  BY <1>4, <1>5, <1>6, NullIsNone DEF Fresh

LEMMA SendType == TypeInv /\ Send => TypeInv'
<1> SUFFICES ASSUME TypeInv, Send PROVE TypeInv'
  OBVIOUS
<1>1. PICK s \in Slots : jobs[s] = Null /\ jobs' = [jobs EXCEPT ![s] = Request(call)]
  BY DEF Send
<1>2. /\ call # Idle /\ call \in Calls /\ CallShape(call) /\ call.at = "send"
      /\ call' = [call EXCEPT !.at = "wait"]
      /\ UNCHANGED <<device, file, keys, now, server>>
  BY DEF Send, TypeInv, ClientType
<1>3. JobsType'
  <2>1. jobs' \in [Slots -> Requests \cup {Null}]
    BY <1>1, <1>2, RequestFits DEF TypeInv, JobsType
  <2>2. \A t \in Slots : jobs'[t] # Null => RequestShape(jobs'[t])
    BY <1>1, <1>2, RequestFits DEF TypeInv, JobsType
  <2> QED
    BY <2>1, <2>2 DEF JobsType, RequestShape, Fits
<1>4. ServerType'
  BY <1>2 DEF TypeInv, ServerType, server, database
<1>5. ClientType'
  <2>1. /\ call' \in Calls /\ call'.at = "wait"
        /\ \A field \in {"op", "keyed", "state", "rsv"} : call'[field] = call[field]
    BY <1>2 DEF Calls
  <2>2. CallShape(call)'
    BY <1>2, <2>1 DEF device, CallShape
  <2> QED
    BY <1>2, <2>1, <2>2 DEF device, TypeInv, ClientType
<1> QED
  BY <1>3, <1>4, <1>5 DEF TypeInv

(* Whoever stops waiting leaves the request alone or takes it back. *)
LEMMA JobsDropped ==
  ASSUME JobsType, NEW s \in Slots, jobs[s] # Null, jobs' = [jobs EXCEPT ![s] = Null] \/ Abandon(s)
  PROVE  JobsType' /\ \/ jobs' = [jobs EXCEPT ![s] = Null]
                      \/ jobs' = [jobs EXCEPT ![s].waited = FALSE] /\ jobs[s].op # "verify" /\ jobs[s].at # "done"
<1>1. jobs[s] \in Requests /\ RequestShape(jobs[s])
  BY DEF JobsType
<1>2. CASE jobs' = [jobs EXCEPT ![s] = Null]
  BY <1>2 DEF JobsType, RequestShape, Fits
<1>3. CASE jobs' = [jobs EXCEPT ![s] = [jobs[s] EXCEPT !.waited = FALSE]] /\ jobs[s].op # "verify" /\ jobs[s].at # "done"
  <2> DEFINE j == [jobs[s] EXCEPT !.waited = FALSE]
  <2>1. j \in Requests /\ RequestShape(j)
    BY <1>1 DEF Requests, RequestShape
  <2>2. /\ jobs' \in [Slots -> Requests \cup {Null}]
        /\ \A t \in Slots : jobs'[t] # Null => RequestShape(jobs'[t])
    <3> HIDE DEF j
    <3> QED
      BY <1>3, <2>1 DEF JobsType, j
  <2> QED
    BY <1>3, <2>2 DEF JobsType, RequestShape, Fits
<1> QED
  BY <1>2, <1>3 DEF Abandon

(* What an answer of the server holds, and what an attempt changes. *)
LEMMA AttemptType ==
  ASSUME TypeInv, NEW s \in Slots, NEW end, Answering(s, end)
  PROVE  /\ JobsType' /\ ServerType' /\ call # Idle /\ call \in Calls /\ CallShape(call) /\ call.at = "wait"
         /\ jobs[s] # Null /\ jobs[s].waited /\ UNCHANGED device
         /\ end.answer.kind = "ok" => jobs[s].at = "done" /\ end.answer = jobs[s].answer /\ Fits(jobs[s].op, end.answer)
         /\ \/ jobs' = [jobs EXCEPT ![s] = Null]
            \/ jobs' = [jobs EXCEPT ![s].waited = FALSE] /\ jobs[s].op # "verify" /\ jobs[s].at # "done"
<1>1. call # Idle /\ call.at = "wait" /\ call \in Calls /\ CallShape(call) /\ jobs[s] # Null /\ jobs[s].waited
  BY DEF Answering, Asked, Waiting, Waited, TypeInv, ClientType
<1>2. /\ jobs' = [jobs EXCEPT ![s] = Null] \/ Abandon(s)
      /\ unguarded' = unguarded \/ unguarded' = (unguarded \/ jobs[s].at = "ran")
      /\ UNCHANGED <<device, calls, now, card, saved, rsv, vouched, charged, late>>
  BY DEF Answering, Attempt, Befall
<1>3. end.answer.kind = "ok" => jobs[s].at = "done" /\ end.answer = jobs[s].answer /\ Fits(jobs[s].op, end.answer)
  BY <1>1 DEF Answering, Possible, TypeInv, JobsType, RequestShape
<1>4. ServerType'
  BY <1>2 DEF TypeInv, ServerType
<1> QED
  BY <1>1, <1>2, <1>3, <1>4, JobsDropped DEF TypeInv

-----------------------------------------------------------------------------
(* The request somebody waits for is the one the call has made last. *)

WaitInv ==
  \A s \in Slots : Waited(s) =>
    /\ Waiting /\ \A t \in Slots : Waited(t) => t = s
    /\ jobs[s].op = call.op /\ jobs[s].keyed = call.keyed /\ jobs[s].rsv = call.rsv

LEMMA ServeTurns ==
  JobsType /\ ServerType /\ Serve => \E s \in Slots : \E place, answer : Turns(s, place, answer)
<1> SUFFICES ASSUME JobsType, ServerType,
                    NEW s \in Slots,
                    \/ Lookup(s) \/ Save(s) \/ RunActivate(s) \/ RunVerify(s) \/ RunDeactivate(s)
                    \/ RunReserve(s) \/ ReadRsv(s) \/ WriteRsv(s)
             PROVE  \E place, answer : Turns(s, place, answer)
  BY DEF Serve
<1>1. jobs[s] # Null
  BY DEF Lookup, Save, RunActivate, RunVerify, RunDeactivate, RunReserve, ReadRsv, WriteRsv, Ready, At
<1>2. ASSUME NEW answer, Done(s, answer) PROVE \E place, a : Turns(s, place, a)
  BY <1>1, <1>2, DoneTurns
<1>3. ASSUME NEW place, Move(s, place) PROVE \E p, answer : Turns(s, p, answer)
  BY <1>1, <1>3, MoveTurns
<1>4. ASSUME NEW answer, Answer(s, answer) PROVE \E place, a : Turns(s, place, a)
  BY <1>1, <1>4, AnswerTurns
<1>5. CASE Lookup(s)
  BY <1>2, <1>3, <1>5 DEF Lookup
<1>6. CASE Save(s)
  BY <1>2, <1>6 DEF Save
<1>7. CASE RunActivate(s) \/ RunVerify(s) \/ RunDeactivate(s) \/ RunReserve(s)
  BY <1>4, <1>7 DEF RunActivate, RunVerify, RunDeactivate, RunReserve
<1>8. CASE ReadRsv(s) \/ WriteRsv(s)
  BY <1>2, <1>3, <1>8 DEF ReadRsv, WriteRsv
<1> QED
  BY <1>5, <1>6, <1>7, <1>8

LEMMA TurnsWaited ==
  ASSUME JobsType, NEW s \in Slots, NEW place, NEW answer, Turns(s, place, answer)
  PROVE  \A t \in Slots : Waited(t)' =>
           /\ Waited(t) /\ jobs'[t].op = jobs[t].op /\ jobs'[t].keyed = jobs[t].keyed /\ jobs'[t].rsv = jobs[t].rsv
           /\ jobs'[t].version = jobs[t].version
<1>1. jobs[s] \in Requests
  BY DEF JobsType, Turns
<1>2. jobs'[s] # Null =>
        /\ jobs'[s].op = jobs[s].op /\ jobs'[s].keyed = jobs[s].keyed /\ jobs'[s].rsv = jobs[s].rsv
        /\ jobs'[s].version = jobs[s].version /\ jobs'[s].waited = jobs[s].waited
  BY <1>1 DEF Turns, Requests
<1> QED
  BY <1>2 DEF Turns, Waited

LEMMA WaitInit == Init => WaitInv
BY DEF Init, ServerInit, WaitInv, Waited

(* After an attempt has ended, or the call was given up, nobody waits. *)
LEMMA NobodyWaits ==
  ASSUME JobsType, WaitInv, NEW s \in Slots, Waited(s),
         jobs' = [jobs EXCEPT ![s] = Null] \/ jobs' = [jobs EXCEPT ![s].waited = FALSE]
  PROVE  \A t \in Slots : ~Waited(t)'
<1>1. jobs[s] \in Requests
  BY DEF JobsType, Waited
<1>2. ~Waited(s)'
  BY <1>1 DEF JobsType, Waited, Requests
<1>3. \A t \in Slots \ {s} : jobs'[t] = jobs[t]
  BY DEF JobsType
<1> QED
  BY <1>2, <1>3 DEF WaitInv, Waited

LEMMA AnsweringType == TypeInv /\ WaitInv /\ (\E s \in Slots : \E end : Answering(s, end)) => TypeInv' /\ WaitInv'
<1> SUFFICES ASSUME TypeInv, WaitInv, NEW s \in Slots, NEW end, Answering(s, end)
             PROVE  TypeInv' /\ WaitInv'
  OBVIOUS
<1>1. /\ JobsType' /\ ServerType' /\ call # Idle /\ call \in Calls /\ CallShape(call) /\ call.at = "wait"
      /\ jobs[s] # Null /\ jobs[s].waited /\ UNCHANGED device /\ Finishing(end)
      /\ end.answer.kind = "ok" => Fits(jobs[s].op, end.answer)
      /\ jobs' = [jobs EXCEPT ![s] = Null] \/ jobs' = [jobs EXCEPT ![s].waited = FALSE]
  BY AttemptType DEF Answering
<1>2. jobs[s].op = call.op /\ Waited(s)
  BY <1>1 DEF WaitInv, Waited
<1>3. WaitInv'
  BY <1>1, <1>2, NobodyWaits DEF TypeInv, WaitInv
<1>4. call.keyed => call.op \in Keyed
  BY <1>1 DEF CallShape
<1>5. CASE Repeat(end)
  <2>1. /\ call' \in Calls /\ call'.at = "send"
        /\ \A field \in {"op", "keyed", "state", "rsv"} : call'[field] = call[field]
    <3>1. call' = [call EXCEPT !.at = "send", !.attempt = call.attempt + 1, !.unsure = Unsure(end)]
          /\ call.attempt + 1 \in Nat /\ Unsure(end) \in BOOLEAN
      BY <1>1, <1>5 DEF Repeat, Unsure, Calls
    <3> QED
      BY <1>1, <3>1 DEF Calls
  <2>2. CallShape(call)'
    BY <1>1, <2>1 DEF device, CallShape
  <2> QED
    BY <1>1, <1>3, <1>5, <2>1, <2>2 DEF Repeat, device, TypeInv, ClientType
<1>6. CASE Succeeded(end.answer)
  <2>1. call' = Idle
    BY <1>6 DEF Succeeded, End
  <2>2. keys' \in [Keyed -> {"new", "tried", "over"}]
    BY <1>4, <1>6 DEF Succeeded, Fulfilled, TypeInv, ClientType
  <2>3. file' \in Licences \cup {Absent, Damaged}
    <3>1. Local \in Int
      BY DEF Local, TypeInv, ServerType, ClientType
    <3>2. CASE file' \in {file, Absent}
      BY <3>2 DEF TypeInv, ClientType
    <3>3. CASE call.op \in {"activate", "verify"} /\ end.answer.kind = "ok" /\ file' = Record(end.answer.body)
      <4>1. end.answer.body \in Grants
        BY <1>1, <1>2, <3>3 DEF Fits
      <4> QED
        BY <3>1, <3>3, <4>1 DEF Record, Grants, Licences
    <3>4. ASSUME NEW body \in Blanks, file' = Record(body) PROVE file' \in Licences
      BY <3>1, <3>4 DEF Blanks, Blank, Record, Licences
    <3> QED
      BY <1>6, <3>2, <3>3, <3>4 DEF Succeeded
  <2> QED
    BY <1>1, <1>3, <2>1, <2>2, <2>3 DEF device, TypeInv, ClientType
<1>7. CASE Offline \/ Failed
  BY <1>1, <1>3, <1>7 DEF Offline, Failed, End, device, TypeInv, ClientType
<1>8. CASE call.op = "reserve" /\ Good(end.answer) /\ NodeReserved(end.answer)
  <2>1. (IF end.answer.kind = "ok" THEN end.answer.body ELSE Null) \in Rsvs \cup {Null}
    BY <1>1, <1>2, <1>8 DEF Fits
  <2>2. /\ call' \in Calls /\ call'.at = "work"
        /\ \A field \in {"op", "keyed", "state"} : call'[field] = call[field]
    BY <1>1, <1>8, <2>1 DEF NodeReserved, Calls
  <2>3. CallShape(call)'
    BY <1>1, <1>8, <2>1, <2>2 DEF device, CallShape, Keyed
  <2> QED
    BY <1>1, <1>3, <1>8, <2>2, <2>3 DEF NodeReserved, device, TypeInv, ClientType
<1>9. CASE call.op = "confirm" /\ Continue("release", Unsure(end)) /\ worked' = worked
  <2>1. /\ call' \in Calls /\ call'.at = "send" /\ call'.op = "release"
        /\ \A field \in {"keyed", "state", "rsv"} : call'[field] = call[field]
    <3>1. call' = [call EXCEPT !.op = "release", !.at = "send", !.attempt = 0, !.unsure = Unsure(end)]
          /\ Unsure(end) \in BOOLEAN
      BY <1>1, <1>9 DEF Continue, Unsure, Calls
    <3> QED
      BY <1>1, <3>1 DEF Calls
  <2>2. CallShape(call)'
    BY <1>1, <1>9, <2>1 DEF device, CallShape, Keyed
  <2> QED
    BY <1>1, <1>3, <1>9, <2>1, <2>2 DEF Continue, device, TypeInv, ClientType
<1> QED
  BY <1>1, <1>5, <1>6, <1>7, <1>8, <1>9 DEF Finishing

LEMMA WorkType == TypeInv /\ WaitInv /\ NodeWork => TypeInv' /\ WaitInv'
<1> SUFFICES ASSUME TypeInv, WaitInv, NodeWork PROVE TypeInv' /\ WaitInv'
  OBVIOUS
<1>1. /\ call \in Calls /\ CallShape(call) /\ call.at = "work" /\ call.op = "reserve"
      /\ \E op \in {"confirm", "release"} :
           call' = [call EXCEPT !.op = op, !.at = "send", !.attempt = 0, !.unsure = FALSE]
      /\ UNCHANGED <<device, file, keys, serverVars>>
  BY DEF NodeWork, TypeInv, ClientType, CallShape, Continue
<1>2. JobsType' /\ ServerType'
  BY <1>1 DEF serverVars, TypeInv, JobsType, RequestShape, Fits, ServerType
<1>3. /\ call' \in Calls /\ call'.at = "send" /\ call'.op \in {"confirm", "release"}
      /\ \A field \in {"keyed", "state", "rsv"} : call'[field] = call[field]
  <2>1. PICK op \in {"confirm", "release"} :
               call' = [call EXCEPT !.op = op, !.at = "send", !.attempt = 0, !.unsure = FALSE]
    BY <1>1
  <2> QED
    BY <1>1, <2>1 DEF Calls
<1>4. CallShape(call)'
  BY <1>1, <1>3 DEF device, CallShape
<1>5. WaitInv'
  BY <1>1 DEF WaitInv, Waiting, Waited, serverVars
<1> QED
  BY <1>1, <1>2, <1>3, <1>4, <1>5 DEF device, TypeInv, ClientType

LEMMA GivenUpType == TypeInv /\ WaitInv /\ GivenUp => TypeInv' /\ WaitInv'
<1> SUFFICES ASSUME TypeInv, WaitInv, GivenUp PROVE TypeInv' /\ WaitInv'
  OBVIOUS
<1>1. /\ call' = Idle /\ file' \in {file, Damaged}
      /\ UNCHANGED <<device, calls, keys, worked, now, server>>
  BY DEF GivenUp
<1>2. ServerType'
  BY <1>1 DEF TypeInv, ServerType, server, database
<1>3. ClientType'
  BY <1>1 DEF device, TypeInv, ClientType
<1>4. JobsType' /\ WaitInv'
  <2>1. CASE Waiting
    <3>1. PICK s \in Slots : Waited(s) /\ Abandon(s)
      BY <2>1 DEF GivenUp
    <3>2. JobsType' /\ (jobs' = [jobs EXCEPT ![s] = Null] \/ jobs' = [jobs EXCEPT ![s].waited = FALSE])
      BY <3>1, JobsDropped DEF TypeInv, Waited
    <3> QED
      BY <3>1, <3>2, NobodyWaits DEF TypeInv, WaitInv
  <2>2. CASE ~Waiting
    <3>1. jobs' = jobs
      BY <2>2 DEF GivenUp
    <3> QED
      BY <2>2, <3>1 DEF TypeInv, JobsType, RequestShape, Fits, WaitInv, Waited
  <2> QED
    BY <2>1, <2>2
<1> QED
  BY <1>2, <1>3, <1>4 DEF TypeInv

LEMMA ServingType == TypeInv /\ WaitInv /\ Serving => TypeInv' /\ WaitInv'
<1> SUFFICES ASSUME TypeInv, WaitInv, Serving PROVE TypeInv' /\ WaitInv'
  OBVIOUS
<1>1. Serve /\ UNCHANGED <<device, file, call, calls, keys, worked>>
  BY DEF Serving, ClientWaits
<1>2. JobsType' /\ ServerType'
  BY <1>1, ServeType DEF TypeInv
<1>3. ClientType'
  BY <1>1 DEF device, TypeInv, ClientType, CallShape
<1>4. PICK s \in Slots : \E place, answer : Turns(s, place, answer)
  BY <1>1, ServeTurns DEF TypeInv
<1>5. \A t \in Slots : Waited(t)' =>
         Waited(t) /\ jobs'[t].op = jobs[t].op /\ jobs'[t].keyed = jobs[t].keyed /\ jobs'[t].rsv = jobs[t].rsv
  BY <1>4, TurnsWaited DEF TypeInv
<1>6. WaitInv'
  BY <1>1, <1>5 DEF WaitInv, Waiting
<1> QED
  BY <1>2, <1>3, <1>6 DEF TypeInv

LEMMA OutsideType == TypeInv /\ WaitInv /\ Outside => TypeInv' /\ WaitInv'
<1> SUFFICES ASSUME TypeInv, WaitInv, Outside PROVE TypeInv' /\ WaitInv'
  OBVIOUS
<1>1. UNCHANGED <<device, file, call, calls, keys, worked, jobs, saved, vouched, charged, unguarded, late>>
  BY DEF Outside, ClientWaits, Administrate, Tick, Expire, server, database
<1>2. ClientType' /\ JobsType' /\ WaitInv'
  BY <1>1 DEF device, TypeInv, ClientType, CallShape, JobsType, RequestShape, Fits, WaitInv, Waiting, Waited
<1>3. CASE Administrate
  <2>1. card.version + 1 \in Nat
    BY DEF TypeInv, ServerType
  <2>2. /\ \/ card' = [card EXCEPT !.barred = TRUE, !.version = card.version + 1]
           \/ card' = [card EXCEPT !.barred = FALSE]
           \/ card' = [card EXCEPT !.bound = FALSE, !.version = card.version + 1]
        /\ UNCHANGED <<now, rsv>>
    BY <1>3 DEF Administrate
  <2>3. card' \in [barred : BOOLEAN, expires : Expiries, grace : Graces, bound : BOOLEAN,
                   version : Nat, rebinds : Nat]
    BY <2>1, <2>2 DEF TypeInv, ServerType
  <2> QED
    BY <1>1, <1>2, <2>2, <2>3 DEF TypeInv, ServerType
<1>4. CASE Tick
  BY <1>1, <1>2, <1>4 DEF Tick, server, database, TypeInv, ServerType
<1>5. ASSUME NEW r \in Rsvs, Expire(r) PROVE ServerType'
  BY <1>1, <1>5 DEF Expire, TypeInv, ServerType
<1> QED
  BY <1>2, <1>3, <1>4, <1>5 DEF Outside, TypeInv

(* The clock is set; what it was set back is counted. *)
LEMMA SetClockMoves ==
  ASSUME TypeInv, SetClock
  PROVE  skew' \in Int /\ back' \in Nat /\ skew' + back' >= skew + back
<1>1. PICK to \in Skews : skew' = to /\ back' = back + (IF to < skew THEN skew - to ELSE 0)
  BY DEF SetClock
<1>2. to \in Int /\ skew \in Int /\ back \in Nat
  BY ClientAssumption DEF ClientAssumption, TypeInv, ClientType
<1> QED
  BY <1>1, <1>2

LEMMA TypeStep == TypeInv /\ WaitInv /\ [Next]_vars => TypeInv' /\ WaitInv'
<1> SUFFICES ASSUME TypeInv, WaitInv, [Next]_vars PROVE TypeInv' /\ WaitInv'
  OBVIOUS
<1>1. program = "php" /\ call # Idle => call.op \in {"activate", "verify", "deactivate"}
  BY DEF TypeInv, ClientType, CallShape
<1>2. CASE UNCHANGED vars
  BY <1>2 DEF vars, serverVars, clientVars, device, TypeInv, JobsType, RequestShape, Fits, ServerType, ClientType,
              CallShape, WaitInv, Waiting, Waited
<1>3. CASE Begun
  <2>1. call = Idle /\ UNCHANGED jobs
    BY <1>3 DEF Begun, Begin
  <2> QED
    BY <1>3, <2>1, BeginType DEF WaitInv, Waiting, Waited
<1>4. CASE Send
  <2>1. PICK s \in Slots : jobs[s] = Null /\ jobs' = [jobs EXCEPT ![s] = Request(call)]
    BY <1>4 DEF Send
  <2>2. call # Idle /\ call \in Calls /\ call.at = "send" /\ call' = [call EXCEPT !.at = "wait"]
    BY <1>4 DEF Send, TypeInv, ClientType
  <2>3. \A t \in Slots : Waited(t)' => t = s
    BY <2>1, <2>2 DEF WaitInv, Waiting, Waited, TypeInv, JobsType
  <2>4. jobs'[s].op = call'.op /\ jobs'[s].keyed = call'.keyed /\ jobs'[s].rsv = call'.rsv
    BY <2>1, <2>2, RequestFits DEF TypeInv, JobsType, Calls
  <2>5. Waiting'
    <3>1. call' \in Calls /\ call'.at = "wait"
      BY <2>2 DEF Calls
    <3> QED
      BY <3>1, NullIsNone DEF Waiting
  <2> QED
    BY <1>4, <2>3, <2>4, <2>5, SendType DEF WaitInv
<1>5. CASE ClearLocal
  BY <1>5 DEF ClearLocal, serverVars, device, TypeInv, JobsType, RequestShape, Fits, ServerType, ClientType,
              CallShape, WaitInv, Waiting, Waited
<1>6. CASE SetClock
  <2>1. skew' \in Int /\ back' \in Nat
    BY <1>6, SetClockMoves
  <2> QED
    BY <1>6, <2>1 DEF SetClock, serverVars, TypeInv, JobsType, RequestShape, Fits, ServerType, ClientType,
                      CallShape, WaitInv, Waiting, Waited
<1> QED
  BY <1>1, <1>2, <1>3, <1>4, <1>5, <1>6, AnsweringType, WorkType, GivenUpType, ServingType, OutsideType, Steps

(* Every request, call, key and record keeps its shape, in all four SDKs and at
   the server: what waits to be saved under a key is a yes of the key's own
   endpoint, verify always has a licence to fall back on, and the request whose
   answer is waited for is the one the call made last (client.ts:161-200). *)
THEOREM TypeCorrect == Spec => [](TypeInv /\ WaitInv)
BY TypeInit, WaitInit, TypeStep, PTL DEF Spec

-----------------------------------------------------------------------------
(* One key, one unbinding: as long as nothing has left the key unguarded, one
   request with it is at work at most, it is at work only while no record is
   kept, and what it was charged for is kept or is still being saved.         *)

AtWork(s) == jobs[s] # Null /\ jobs[s].op = "deactivate" /\ jobs[s].keyed /\ jobs[s].at \in {"missed", "ran"}

UnbindInv ==
  ~unguarded =>
    /\ charged <= 1
    /\ \A s, t \in Slots : AtWork(s) /\ AtWork(t) => s = t
    /\ \A s \in Slots : AtWork(s) => saved["deactivate"] = Null /\ (jobs[s].at = "missed" => charged = 0)
    /\ charged > 0 => saved["deactivate"] # Null \/ \E s \in Slots : AtWork(s)

LEMMA UnbindInit == Init => UnbindInv
BY DEF Init, ServerInit, UnbindInv, AtWork

(* Requests at work stay so, none is added, and the record and the charge are
   left alone.                                                               *)
LEMMA UnbindFrame ==
  ASSUME UnbindInv, unguarded => unguarded', charged' = charged, saved'["deactivate"] = saved["deactivate"],
         \A t \in Slots : /\ AtWork(t)' => AtWork(t) /\ jobs'[t].at = jobs[t].at
                          /\ AtWork(t) => AtWork(t)' \/ charged = 0
  PROVE  UnbindInv'
BY DEF UnbindInv

(* A request left alone by its caller is as it was. *)
LEMMA LeftAlone ==
  ASSUME JobsType, NEW s \in Slots, jobs[s] # Null, jobs' = [jobs EXCEPT ![s].waited = FALSE]
  PROVE  /\ jobs'[s] \in Requests /\ jobs'[s] # Null /\ ~jobs'[s].waited
         /\ \A field \in {"op", "keyed", "version", "rsv", "at", "answer"} : jobs'[s][field] = jobs[s][field]
         /\ \A t \in Slots \ {s} : jobs'[t] = jobs[t]
<1> DEFINE j == [jobs[s] EXCEPT !.waited = FALSE]
<1>1. jobs[s] \in Requests
  BY DEF JobsType
<1>2. j \in Requests /\ ~j.waited /\ \A field \in {"op", "keyed", "version", "rsv", "at", "answer"} : j[field] = jobs[s][field]
  BY <1>1 DEF Requests
<1>3. jobs'[s] = j /\ \A t \in Slots \ {s} : jobs'[t] = jobs[t]
  BY DEF JobsType
<1> QED
  BY <1>2, <1>3, NullIsNone

LEMMA UnbindDropped ==
  ASSUME TypeInv, UnbindInv, NEW s \in Slots, jobs[s] # Null,
         jobs' = [jobs EXCEPT ![s] = Null] \/ jobs' = [jobs EXCEPT ![s].waited = FALSE],
         unguarded => unguarded', jobs' = [jobs EXCEPT ![s] = Null] /\ AtWork(s) /\ jobs[s].at = "ran" => unguarded',
         charged' = charged, saved' = saved
  PROVE  UnbindInv'
<1>1. jobs[s] \in Requests /\ jobs \in [Slots -> Requests \cup {Null}]
  BY DEF TypeInv, JobsType
<1>2. CASE unguarded'
  BY <1>2 DEF UnbindInv
<1>3. CASE ~unguarded' /\ jobs' = [jobs EXCEPT ![s].waited = FALSE]
  <2>1. /\ jobs'[s].op = jobs[s].op /\ jobs'[s].keyed = jobs[s].keyed /\ jobs'[s].at = jobs[s].at
        /\ jobs'[s] # Null /\ \A t \in Slots \ {s} : jobs'[t] = jobs[t]
    BY <1>3, LeftAlone DEF TypeInv
  <2> QED
    BY <1>3, <2>1, UnbindFrame DEF AtWork
<1>4. CASE ~unguarded' /\ jobs' = [jobs EXCEPT ![s] = Null]
  <2>1. jobs'[s] = Null /\ \A t \in Slots \ {s} : jobs'[t] = jobs[t]
    BY <1>1, <1>4
  <2>2. AtWork(s) => charged = 0
    BY <1>4 DEF UnbindInv, AtWork
  <2> QED
    BY <1>4, <2>1, <2>2, UnbindFrame DEF AtWork
<1> QED
  BY <1>2, <1>3, <1>4

LEMMA LookupUnbind ==
  ASSUME TypeInv, UnbindInv, NEW s \in Slots, Lookup(s)
  PROVE  UnbindInv'
<1> DEFINE job == jobs[s]
           found == saved[job.op]
<1>1. job \in Requests /\ job # Null /\ job.at = "sent" /\ job.keyed /\ job.op \in Keyed /\ charged' = charged
  BY DEF Lookup, At, TypeInv, JobsType, RequestShape
<1>2. ~AtWork(s)
  BY <1>1 DEF AtWork
<1>3. CASE Hit(s)
  <2>1. \E answer : Done(s, answer)
    BY <1>3 DEF Lookup
  <2>2. \E answer : Turns(s, "done", answer)
    BY <1>1, <2>1, DoneTurns DEF TypeInv
  <2>3. ~AtWork(s)' /\ \A t \in Slots \ {s} : jobs'[t] = jobs[t]
    BY <1>1, <2>2 DEF Turns, AtWork, Requests
  <2>4. saved' = saved /\ unguarded' = unguarded
    BY <1>3 DEF Lookup
  <2> QED
    BY <1>1, <1>2, <2>3, <2>4, UnbindFrame DEF AtWork
<1>4. CASE ~Hit(s)
  <2>1. /\ Move(s, "missed") /\ saved' = [saved EXCEPT ![job.op] = Null]
        /\ unguarded => unguarded'
        /\ ~unguarded' => ~(found # Null /\ now > found.until)
        /\ ~unguarded' => \A t \in Slots \ {s} :
             ~(jobs[t] # Null /\ jobs[t].op = job.op /\ jobs[t].keyed /\ jobs[t].at \in {"missed", "ran"})
    BY <1>4 DEF Lookup
  <2>2. saved \in [Keyed -> Records \cup {Null}] /\ now \in Nat
    BY DEF TypeInv, ServerType
  <2>3. /\ \A t \in Slots \ {s} : jobs'[t] = jobs[t]
        /\ jobs'[s] # Null => jobs'[s].op = job.op /\ jobs'[s].keyed = job.keyed /\ jobs'[s].at = "missed"
    <3>1. Turns(s, "missed", job.answer)
      BY <1>1, <2>1, MoveTurns DEF TypeInv
    <3>2. jobs'[s] = [job EXCEPT !.at = "missed", !.answer = job.answer] /\ \A t \in Slots \ {s} : jobs'[t] = jobs[t]
      BY <3>1 DEF Turns
    <3> QED
      BY ZenonT(40), <1>1, <3>2 DEF Requests
  <2>4. CASE job.op = "activate"
    <3>1. saved'["deactivate"] = saved["deactivate"]
      BY <2>1, <2>2, <2>4 DEF Keyed
    <3>2. ~AtWork(s)'
      BY <2>3, <2>4 DEF AtWork
    <3> QED
      BY <1>1, <1>2, <2>1, <2>3, <3>1, <3>2, UnbindFrame DEF AtWork
  <2>5. CASE job.op = "deactivate" /\ ~unguarded'
    <3>1. found = Null
      <4>1. found # Null => found.until \in Nat
        BY <1>1, <2>2 DEF Records
      <4> QED
        BY <1>4, <2>1, <2>2, <2>5, <4>1 DEF Hit
    <3>2. saved'["deactivate"] = Null
      BY <2>1, <2>2, <2>5 DEF Keyed
    <3>3. \A t \in Slots : ~AtWork(t)
      BY <1>2, <2>1, <2>5 DEF AtWork
    <3>4. charged = 0 \/ ~(charged > 0)
      BY <2>1, <2>5, <3>1, <3>3 DEF UnbindInv
    <3>5. charged = 0
      BY <3>4 DEF TypeInv, ServerType
    <3>6. \A t \in Slots : AtWork(t)' => t = s
      BY <2>3, <3>3 DEF AtWork
    <3> QED
      BY <1>1, <3>2, <3>5, <3>6 DEF UnbindInv
  <2>6. CASE unguarded'
    BY <2>6 DEF UnbindInv
  <2> QED
    BY <1>1, <2>4, <2>5, <2>6 DEF Keyed
<1> QED
  BY <1>3, <1>4

LEMMA RunUnbind ==
  ASSUME TypeInv, UnbindInv, NEW s \in Slots,
         Save(s) \/ RunActivate(s) \/ RunVerify(s) \/ RunDeactivate(s) \/ RunReserve(s) \/ ReadRsv(s) \/ WriteRsv(s)
  PROVE  UnbindInv'
<1> DEFINE job == jobs[s]
<1>1. /\ job \in Requests /\ job # Null /\ RequestShape(job)
      /\ saved \in [Keyed -> Records \cup {Null}] /\ charged \in Nat
  BY DEF Save, RunActivate, RunVerify, RunDeactivate, RunReserve, ReadRsv, WriteRsv, Ready, At, TypeInv, JobsType,
         ServerType
<1>2. PICK place, answer : Turns(s, place, answer)
  BY <1>1, DoneTurns, MoveTurns, AnswerTurns
     DEF Save, RunActivate, RunVerify, RunDeactivate, RunReserve, ReadRsv, WriteRsv, TypeInv
<1>3. /\ \A t \in Slots \ {s} : jobs'[t] = jobs[t]
      /\ jobs'[s] # Null => jobs'[s].op = job.op /\ jobs'[s].keyed = job.keyed
  BY <1>1, <1>2 DEF Turns, Requests
<1>4. CASE job.op # "deactivate"
  <2>1. ~AtWork(s) /\ ~AtWork(s)'
    BY <1>3, <1>4 DEF AtWork
  <2>2. charged' = charged /\ unguarded' = unguarded
    BY <1>4 DEF Save, RunActivate, RunVerify, RunDeactivate, RunReserve, ReadRsv, WriteRsv, server, database
  <2>3. saved'["deactivate"] = saved["deactivate"]
    <3>1. saved' = saved \/ Save(s)
      BY DEF RunActivate, RunVerify, RunDeactivate, RunReserve, ReadRsv, WriteRsv, server, database
    <3>2. ASSUME Save(s) PROVE saved'["deactivate"] = saved["deactivate"]
      BY <1>1, <1>4, <3>2 DEF Save, Keyed
    <3> QED
      BY <3>1, <3>2
  <2> QED
    BY <1>3, <2>1, <2>2, <2>3, UnbindFrame DEF AtWork
<1>5. CASE job.op = "deactivate" /\ Save(s)
  <2>1. AtWork(s) /\ charged' = charged /\ unguarded' = unguarded
    BY <1>1, <1>5 DEF AtWork, Save, At, RequestShape
  <2>2. saved'["deactivate"] # Null
    BY <1>5, SaveType DEF TypeInv
  <2>3. ~AtWork(s)'
    <3>1. Turns(s, "done", job.answer)
      BY <1>1, <1>5, DoneTurns DEF Save, TypeInv
    <3> QED
      BY <1>1, <3>1 DEF Turns, AtWork, Requests
  <2>4. ~unguarded => \A t \in Slots : ~AtWork(t)'
    BY <1>3, <2>1, <2>3 DEF UnbindInv, AtWork
  <2> QED
    BY <2>1, <2>2, <2>4 DEF UnbindInv
<1>6. CASE job.op = "deactivate" /\ RunDeactivate(s) /\ job.keyed
  <2>1. AtWork(s) /\ job.at = "missed" /\ unguarded' = unguarded /\ saved' = saved
    BY <1>1, <1>6 DEF AtWork, RunDeactivate, Ready, At
  <2>2. charged' = charged + 1 \/ (charged' = charged /\ Answer(s, No))
    BY <1>6 DEF RunDeactivate
  <2>3. ~unguarded => charged = 0 /\ saved["deactivate"] = Null /\ \A t \in Slots : AtWork(t) => t = s
    BY <2>1 DEF UnbindInv
  <2>4. CASE charged' = charged /\ Answer(s, No)
    <3>1. Turns(s, "done", No)
      BY <1>1, <2>4, DoneTurns DEF Answer, No, TypeInv
    <3>2. ~AtWork(s)'
      BY <1>1, <3>1 DEF Turns, AtWork, Requests
    <3>3. ~unguarded => \A t \in Slots : ~AtWork(t)'
      BY <1>3, <2>3, <3>2 DEF AtWork
    <3> QED
      BY <2>1, <2>3, <2>4, <3>3 DEF UnbindInv
  <2>5. CASE charged' = charged + 1 /\ ~(charged' = charged /\ Answer(s, No))
    <3>1. Answer(s, Yes(Null))
      BY <1>6, <2>5 DEF RunDeactivate
    <3>2. jobs' = [jobs EXCEPT ![s].at = "ran", ![s].answer = Yes(Null)]
      BY <1>6, <3>1 DEF Answer, Yes
    <3>3. jobs'[s].at = "ran" /\ jobs'[s].op = job.op /\ jobs'[s].keyed = job.keyed
      BY <1>1, <3>2 DEF TypeInv, JobsType, Requests
    <3>4. jobs'[s] # Null
      <4>1. jobs'[s] \in Requests
        BY <1>1, <3>2 DEF Requests, Yes, Answers, TypeInv, JobsType
      <4> QED
        BY <4>1, NullIsNone
    <3>5. ~unguarded => \A t \in Slots : AtWork(t)' => t = s
      BY <1>3, <2>3 DEF AtWork
    <3>6. AtWork(s)'
      BY <1>6, <3>3, <3>4 DEF AtWork
    <3> QED
      BY <1>1, <2>1, <2>3, <2>5, <3>3, <3>5, <3>6 DEF UnbindInv
  <2> QED
    BY <2>2, <2>4, <2>5
<1>7. CASE job.op = "deactivate" /\ RunDeactivate(s) /\ ~job.keyed
  <2>1. charged' = charged /\ unguarded' = unguarded /\ saved' = saved
    BY <1>1, <1>7 DEF RunDeactivate
  <2> QED
    BY <1>3, <1>7, <2>1, UnbindFrame DEF AtWork
<1>8. job.op = "deactivate" => Save(s) \/ RunDeactivate(s)
  BY <1>1 DEF RunActivate, RunVerify, RunReserve, ReadRsv, WriteRsv, At, RequestShape
<1> QED
  BY <1>4, <1>5, <1>6, <1>7, <1>8

LEMMA UnbindStep == TypeInv /\ WaitInv /\ UnbindInv /\ [Next]_vars => UnbindInv'
<1> SUFFICES ASSUME TypeInv, WaitInv, UnbindInv, [Next]_vars PROVE UnbindInv'
  OBVIOUS
<1>1. program = "php" /\ call # Idle => call.op \in {"activate", "verify", "deactivate"}
  BY DEF TypeInv, ClientType, CallShape
<1>2. CASE Begun \/ NodeWork \/ ClearLocal \/ SetClock \/ Outside \/ UNCHANGED vars
  <2>1. UNCHANGED <<jobs, saved, charged, unguarded>>
    BY <1>2 DEF Begun, Begin, NodeWork, ClearLocal, SetClock, Outside, ClientWaits, Administrate, Tick, Expire, vars, serverVars,
                server, database
  <2> QED
    BY <2>1 DEF UnbindInv, AtWork
<1>3. CASE Send
  <2>1. PICK s \in Slots : jobs[s] = Null /\ jobs' = [jobs EXCEPT ![s] = Request(call)]
    BY <1>3 DEF Send
  <2>2. jobs'[s].at \in {"sent", "done"} /\ \A t \in Slots \ {s} : jobs'[t] = jobs[t]
    BY <1>3, <2>1, RequestFits DEF Send, Fresh, TypeInv, JobsType
  <2>3. UNCHANGED <<saved, charged, unguarded>>
    BY <1>3 DEF Send, server, database
  <2> QED
    BY <2>1, <2>2, <2>3, UnbindFrame DEF AtWork
<1>4. ASSUME NEW s \in Slots, NEW end, Answering(s, end) PROVE UnbindInv'
  <2>1. jobs[s] # Null /\ saved' = saved /\ charged' = charged
    BY <1>4 DEF Answering, Asked, Waited, Attempt
  <2>2. jobs' = [jobs EXCEPT ![s] = Null] \/ jobs' = [jobs EXCEPT ![s].waited = FALSE]
    BY <1>4, AttemptType
  <2>3. unguarded => unguarded'
    BY <1>4 DEF Answering, Attempt, Befall
  <2>4. jobs' = [jobs EXCEPT ![s] = Null] /\ AtWork(s) /\ jobs[s].at = "ran" => unguarded'
    <3>1. CASE end.mishap = "none"
      BY <1>4, <3>1 DEF Answering, Possible, Mishaps, Strangers
    <3>2. CASE end.mishap # "none" /\ Abandon(s)
      <4>1. AtWork(s) /\ jobs[s].at = "ran" => jobs' = [jobs EXCEPT ![s].waited = FALSE] /\ jobs[s].waited
        BY <1>4, <3>2 DEF Abandon, AtWork, Answering, Asked, Waited
      <4>2. jobs' = [jobs EXCEPT ![s].waited = FALSE] => jobs'[s] # Null
        BY <2>1, LeftAlone DEF TypeInv
      <4>3. jobs' = [jobs EXCEPT ![s] = Null] => jobs'[s] = Null
        BY DEF TypeInv, JobsType
      <4> QED
        BY <4>1, <4>2, <4>3
    <3>3. CASE end.mishap # "none" /\ ~Abandon(s)
      BY <1>4, <3>3 DEF Answering, Attempt, Befall
    <3> QED
      BY <3>1, <3>2, <3>3
  <2> QED
    BY <2>1, <2>2, <2>3, <2>4, UnbindDropped
<1>5. CASE GivenUp
  <2>1. UNCHANGED <<saved, charged, unguarded>>
    BY <1>5 DEF GivenUp, server, database
  <2>2. CASE Waiting
    <3>1. PICK s \in Slots : Waited(s) /\ Abandon(s)
      BY <1>5, <2>2 DEF GivenUp
    <3>2. jobs[s] # Null /\ jobs[s] \in Requests /\ jobs \in [Slots -> Requests \cup {Null}]
      BY <3>1 DEF Waited, TypeInv, JobsType
    <3>3. AtWork(s) => jobs' = [jobs EXCEPT ![s].waited = FALSE]
      BY <3>1 DEF Abandon, AtWork
    <3>4. jobs' = [jobs EXCEPT ![s].waited = FALSE] => jobs' # [jobs EXCEPT ![s] = Null]
      <4>1. jobs' = [jobs EXCEPT ![s].waited = FALSE] => jobs'[s] # Null
        BY <3>2, LeftAlone DEF TypeInv
      <4>2. jobs' = [jobs EXCEPT ![s] = Null] => jobs'[s] = Null
        BY <3>2
      <4> QED
        BY <4>1, <4>2
    <3>5. jobs' = [jobs EXCEPT ![s] = Null] \/ jobs' = [jobs EXCEPT ![s].waited = FALSE]
      BY <3>1, <3>2, JobsDropped DEF TypeInv
    <3> QED
      BY <2>1, <3>2, <3>3, <3>4, <3>5, UnbindDropped
  <2>3. CASE ~Waiting
    BY <1>5, <2>1, <2>3 DEF GivenUp, UnbindInv, AtWork
  <2> QED
    BY <2>2, <2>3
<1>6. CASE Serving
  <2>1. PICK s \in Slots : \/ Lookup(s) \/ Save(s) \/ RunActivate(s) \/ RunVerify(s) \/ RunDeactivate(s)
                           \/ RunReserve(s) \/ ReadRsv(s) \/ WriteRsv(s)
    BY <1>6 DEF Serving, Serve
  <2> QED
    BY <2>1, LookupUnbind, RunUnbind
<1> QED
  BY <1>1, <1>2, <1>3, <1>4, <1>5, <1>6, Steps

(* However often a call with one key is repeated, however late its requests come
   and whatever becomes of their answers, it unbinds once, unless a request with
   the key had no record to meet (open.controller.ts:161-187, client.ts:89-107). *)
THEOREM OneKeyUnbindsOnce == Spec => []KeyUnbindsOnce
<1>1. TypeInv /\ UnbindInv => KeyUnbindsOnce
  BY DEF TypeInv, ServerType, UnbindInv, KeyUnbindsOnce
<1> QED
  BY TypeInit, WaitInit, TypeStep, UnbindInit, UnbindStep, <1>1, PTL DEF Spec

-----------------------------------------------------------------------------
(* Charges: a reservation is confirmed by a call, and charged by its request,
   after its work; a confirmation the server has answered yes is charged.     *)

ChargeInv ==
  /\ \A r \in Rsvs : (rsv[r].charges > 0 => r \in worked) /\ (rsv[r].status = "spent" => rsv[r].charges > 0)
  /\ call # Idle /\ call.op = "confirm" /\ call.rsv # Null => call.rsv \in worked
  /\ \A s \in Slots : jobs[s] # Null /\ jobs[s].op = "confirm" /\ jobs[s].rsv # Null =>
       /\ jobs[s].rsv \in worked
       /\ jobs[s].at = "done" /\ jobs[s].answer.kind = "ok" => rsv[jobs[s].rsv].charges > 0
  /\ outcome.op = "confirm" /\ outcome.how = "returned" => rsv[outcome.rsv].charges > 0

LEMMA ChargeInit == Init => ChargeInv
BY DEF Init, ServerInit, ChargeInv, Nothing

(* A request moves on at the server, or in nobody's hands, and no charge is
   taken back.                                                              *)
LEMMA ChargeFrame ==
  ASSUME TypeInv, ChargeInv, NEW s \in Slots, jobs[s] # Null,
         \A t \in Slots \ {s} : jobs'[t] = jobs[t],
         jobs'[s] # Null /\ jobs'[s].op = "confirm" /\ jobs'[s].rsv # Null =>
           /\ jobs[s].op = "confirm" /\ jobs'[s].rsv = jobs[s].rsv
           /\ jobs'[s].at = "done" /\ jobs'[s].answer.kind = "ok" => rsv'[jobs[s].rsv].charges > 0,
         \A r \in Rsvs : /\ rsv[r].charges > 0 => rsv'[r].charges > 0
                         /\ rsv'[r].charges > 0 => rsv[r].charges > 0 \/ r \in worked
                         /\ rsv'[r].status = "spent" => rsv'[r].charges > 0,
         UNCHANGED <<call, worked>>, outcome'.op = "none"
  PROVE  ChargeInv'
<1>1. \A t \in Slots : jobs[t] # Null /\ jobs[t].rsv # Null => jobs[t].rsv \in Rsvs
  BY DEF TypeInv, JobsType, Requests
<1> QED
  BY <1>1 DEF ChargeInv

LEMMA ServingCharges == TypeInv /\ ChargeInv /\ Serving => ChargeInv'
<1> SUFFICES ASSUME TypeInv, ChargeInv, UNCHANGED <<call, worked>>, outcome'.op = "none",
                    NEW s \in Slots,
                    \/ Lookup(s) \/ Save(s) \/ RunActivate(s) \/ RunVerify(s) \/ RunDeactivate(s)
                    \/ RunReserve(s) \/ ReadRsv(s) \/ WriteRsv(s)
             PROVE  ChargeInv'
  BY DEF Serving, Serve, ClientWaits, Quiet, Nothing
<1> DEFINE job == jobs[s]
<1>1. /\ job # Null /\ job \in Requests /\ RequestShape(job)
      /\ rsv \in [Rsvs -> [status : {"none", "frozen", "spent", "refunded"}, charges : Nat]]
  BY DEF Lookup, Save, RunActivate, RunVerify, RunDeactivate, RunReserve, ReadRsv, WriteRsv, Ready, At, TypeInv, JobsType,
         ServerType
<1>2. ASSUME NEW place, NEW answer, Turns(s, place, answer)
      PROVE  /\ \A t \in Slots \ {s} : jobs'[t] = jobs[t]
             /\ jobs'[s] # Null => jobs'[s].op = job.op /\ jobs'[s].rsv = job.rsv /\ jobs'[s].at = place /\ jobs'[s].answer = answer
  BY <1>1, <1>2 DEF Turns, Requests
<1>3. CASE Lookup(s) \/ Save(s) \/ RunActivate(s) \/ RunVerify(s) \/ RunDeactivate(s)
  <2>1. job.op # "confirm" /\ rsv' = rsv
    BY <1>1, <1>3 DEF Lookup, Save, At, RequestShape, RunActivate, RunVerify, RunDeactivate, Keyed
  <2>2. PICK place, answer : Turns(s, place, answer)
    BY <1>1, <1>3, DoneTurns, MoveTurns, AnswerTurns DEF Lookup, Save, RunActivate, RunVerify, RunDeactivate, TypeInv
  <2> QED
    BY <1>1, <1>2, <2>1, <2>2, ChargeFrame DEF ChargeInv
<1>4. CASE RunReserve(s)
  <2>1. job.op # "confirm" /\ (rsv' = rsv \/ \E r \in Rsvs : rsv[r].status = "none" /\ rsv' = [rsv EXCEPT ![r].status = "frozen"])
    BY <1>4 DEF RunReserve
  <2>2. PICK place, answer : Turns(s, place, answer)
    BY <1>1, <1>4, AnswerTurns DEF RunReserve, TypeInv
  <2>3. \A r \in Rsvs : rsv'[r].charges = rsv[r].charges /\ rsv'[r].status \in {rsv[r].status, "frozen"}
    BY <1>1, <2>1
  <2>4. \A r \in Rsvs : rsv'[r].status = "spent" => rsv'[r].charges > 0
    BY <2>3 DEF ChargeInv
  <2> QED
    BY <1>1, <1>2, <2>1, <2>2, <2>3, <2>4, ChargeFrame
<1>5. CASE ReadRsv(s)
  <2>1. rsv' = rsv
    BY <1>5 DEF ReadRsv, server, database
  <2>2. CASE Move(s, "read")
    BY <1>1, <1>2, <2>1, <2>2, MoveTurns, ChargeFrame DEF TypeInv, ChargeInv
  <2>3. CASE ~Move(s, "read")
    <3>1. Done(s, No) \/ (Done(s, Yes(Null)) /\ (job.op = "confirm" => rsv[job.rsv].status = "spent"))
      BY <1>5, <2>3 DEF ReadRsv
    <3>2. job.rsv \in Rsvs
      BY <1>1, <1>5 DEF ReadRsv, Ready, At, RequestShape, Requests
    <3>3. PICK answer : /\ Turns(s, "done", answer)
                        /\ answer.kind = "ok" => (job.op = "confirm" => rsv[job.rsv].status = "spent")
      BY <1>1, <3>1, DoneTurns DEF TypeInv, No
    <3>4. answer.kind = "ok" /\ job.op = "confirm" => rsv'[job.rsv].charges > 0
      BY <2>1, <3>2, <3>3 DEF ChargeInv
    <3> QED
      BY <1>1, <1>2, <2>1, <3>3, <3>4, ChargeFrame DEF ChargeInv
  <2> QED
    BY <2>2, <2>3
<1>6. CASE WriteRsv(s)
  <2>1. job.op \in {"confirm", "release"} /\ job.rsv \in Rsvs
    BY <1>1, <1>6 DEF WriteRsv, At, RequestShape, Requests
  <2>2. Turns(s, "done", Yes(Null))
    BY <1>1, <1>6, DoneTurns DEF WriteRsv, TypeInv
  <2>3. CASE job.op = "confirm"
    <3>1. rsv' = [rsv EXCEPT ![job.rsv] = [status |-> "spent", charges |-> rsv[job.rsv].charges + 1]]
      BY <1>6, <2>3 DEF WriteRsv
    <3>2. /\ rsv'[job.rsv].charges = rsv[job.rsv].charges + 1 /\ rsv[job.rsv].charges \in Nat
          /\ \A r \in Rsvs \ {job.rsv} : rsv'[r] = rsv[r]
      BY <1>1, <2>1, <3>1
    <3>3. job.rsv \in worked
      BY <1>1, <2>1, <2>3, NullIsNone DEF ChargeInv
    <3>4. /\ rsv'[job.rsv].charges > 0
          /\ \A r \in Rsvs : /\ rsv[r].charges > 0 => rsv'[r].charges > 0
                             /\ rsv'[r].charges > 0 => rsv[r].charges > 0 \/ r \in worked
                             /\ rsv'[r].status = "spent" => rsv'[r].charges > 0
      BY <3>2, <3>3 DEF ChargeInv
    <3> QED
      BY <1>1, <1>2, <2>2, <2>3, <3>4, ChargeFrame
  <2>4. CASE job.op # "confirm"
    <3>1. rsv' = [rsv EXCEPT ![job.rsv].status = "refunded"]
      BY <1>6, <2>4 DEF WriteRsv
    <3>2. \A r \in Rsvs : rsv'[r].charges = rsv[r].charges /\ rsv'[r].status \in {rsv[r].status, "refunded"}
      BY <1>1, <3>1
    <3> QED
      BY <1>1, <1>2, <2>2, <2>4, <3>2, ChargeFrame DEF ChargeInv
  <2> QED
    BY <2>3, <2>4
<1> QED
  BY <1>3, <1>4, <1>5, <1>6

(* Whoever stops waiting takes no request but his own away. *)
LEMMA FewerRequests ==
  ASSUME TypeInv, NEW s \in Slots, jobs[s] # Null,
         jobs' = [jobs EXCEPT ![s] = Null] \/ jobs' = [jobs EXCEPT ![s].waited = FALSE]
  PROVE  \A t \in Slots : jobs'[t] # Null =>
           jobs[t] # Null /\ jobs'[t].op = jobs[t].op /\ jobs'[t].keyed = jobs[t].keyed /\ jobs'[t].rsv = jobs[t].rsv
           /\ jobs'[t].at = jobs[t].at /\ jobs'[t].answer = jobs[t].answer
BY LeftAlone DEF TypeInv, JobsType

LEMMA GivenUpRequests ==
  ASSUME TypeInv, WaitInv, GivenUp
  PROVE  \A t \in Slots :
           /\ ~Waited(t)'
           /\ jobs'[t] # Null =>
                jobs[t] # Null /\ jobs'[t].op = jobs[t].op /\ jobs'[t].keyed = jobs[t].keyed /\ jobs'[t].rsv = jobs[t].rsv
                /\ jobs'[t].at = jobs[t].at /\ jobs'[t].answer = jobs[t].answer
<1>1. CASE ~Waiting
  BY <1>1 DEF GivenUp, WaitInv, Waited
<1>2. CASE Waiting
  <2>1. PICK s \in Slots : Waited(s) /\ Abandon(s)
    BY <1>2 DEF GivenUp
  <2>2. jobs[s] # Null /\ (jobs' = [jobs EXCEPT ![s] = Null] \/ jobs' = [jobs EXCEPT ![s].waited = FALSE])
    BY <2>1, JobsDropped DEF Waited, TypeInv
  <2>3. \A t \in Slots : ~Waited(t)'
    BY <2>1, <2>2, NobodyWaits DEF TypeInv
  <2> QED
    BY <2>2, <2>3, FewerRequests
<1> QED
  BY <1>1, <1>2

(* The request that is sent is the call's, and new. *)
LEMMA SendAdds ==
  ASSUME TypeInv, Send
  PROVE  \E s \in Slots :
           /\ jobs[s] = Null /\ \A t \in Slots \ {s} : jobs'[t] = jobs[t]
           /\ jobs'[s] # Null /\ Fresh(jobs'[s]) /\ jobs'[s].waited
           /\ jobs'[s].op = call.op /\ jobs'[s].keyed = call.keyed /\ jobs'[s].rsv = call.rsv
           /\ call # Idle /\ call \in Calls /\ call.at = "send"
           /\ call'.op = call.op /\ call'.keyed = call.keyed /\ call'.rsv = call.rsv /\ call'.state = call.state
           /\ call'.unsure = call.unsure
           /\ outcome'.op = "none" /\ UNCHANGED <<device, file, keys, worked, now, server>>
<1>1. PICK s \in Slots : jobs[s] = Null /\ jobs' = [jobs EXCEPT ![s] = Request(call)]
  BY DEF Send
<1>2. /\ call # Idle /\ call \in Calls /\ call.at = "send" /\ call' = [call EXCEPT !.at = "wait"]
      /\ outcome'.op = "none" /\ UNCHANGED <<device, file, keys, worked, now, server>>
  BY DEF Send, TypeInv, ClientType, Quiet, Nothing
<1>3. /\ call'.op = call.op /\ call'.keyed = call.keyed /\ call'.rsv = call.rsv /\ call'.state = call.state
      /\ call'.unsure = call.unsure
  BY <1>2 DEF Calls
<1>4. jobs'[s] = Request(call) /\ \A t \in Slots \ {s} : jobs'[t] = jobs[t]
  BY <1>1 DEF TypeInv, JobsType
<1> QED
  BY <1>1, <1>2, <1>3, <1>4, RequestFits

(* The expiry task gives back and charges nothing. *)
LEMMA ExpiryCharges ==
  ASSUME TypeInv, Outside
  PROVE  \A r \in Rsvs : rsv'[r].charges = rsv[r].charges /\ rsv'[r].status \in {rsv[r].status, "refunded"}
<1>1. rsv' = rsv \/ \E r \in Rsvs : rsv' = [rsv EXCEPT ![r].status = "refunded"]
  BY DEF Outside, Administrate, Tick, Expire, server, database
<1> QED
  BY <1>1 DEF TypeInv, ServerType

(* What the client does leaves the charges to the server. *)
LEMMA ChargeStep == TypeInv /\ WaitInv /\ ChargeInv /\ [Next]_vars => ChargeInv'
<1> SUFFICES ASSUME TypeInv, WaitInv, ChargeInv, [Next]_vars PROVE ChargeInv'
  OBVIOUS
<1>1. program = "php" /\ call # Idle => call.op \in {"activate", "verify", "deactivate"}
  BY DEF TypeInv, ClientType, CallShape
<1>2. CASE Begun
  <2>1. call'.op # "confirm" /\ UNCHANGED <<rsv, jobs, worked>> /\ outcome'.op = "none"
    BY <1>2 DEF Begun, Begin, Starts, Quiet, Nothing, database
  <2> QED
    BY <2>1 DEF ChargeInv
<1>3. CASE Send
  <2>1. PICK s \in Slots :
               /\ \A t \in Slots \ {s} : jobs'[t] = jobs[t]
               /\ Fresh(jobs'[s]) /\ jobs'[s].op = call.op /\ jobs'[s].rsv = call.rsv
               /\ call # Idle /\ call'.op = call.op /\ call'.rsv = call.rsv
               /\ outcome'.op = "none" /\ UNCHANGED <<worked, rsv>>
    BY <1>3, SendAdds DEF server, database
  <2>2. jobs'[s].at = "done" => jobs'[s].answer.kind # "ok"
    BY <2>1 DEF Fresh, No
  <2> QED
    BY <2>1, <2>2 DEF ChargeInv
<1>4. ASSUME NEW s \in Slots, NEW end, Answering(s, end) PROVE ChargeInv'
  <2>1. /\ call # Idle /\ call \in Calls /\ CallShape(call) /\ jobs[s] # Null /\ jobs[s].waited
        /\ end.answer.kind = "ok" => jobs[s].at = "done" /\ end.answer = jobs[s].answer
        /\ jobs' = [jobs EXCEPT ![s] = Null] \/ jobs' = [jobs EXCEPT ![s].waited = FALSE]
        /\ rsv' = rsv /\ Finishing(end)
    BY <1>4, AttemptType DEF Answering, Attempt
  <2>2. \A t \in Slots : jobs'[t] # Null =>
          jobs[t] # Null /\ jobs'[t].op = jobs[t].op /\ jobs'[t].rsv = jobs[t].rsv /\ jobs'[t].at = jobs[t].at
          /\ jobs'[t].answer = jobs[t].answer
    BY <2>1, FewerRequests
  <2>3. jobs[s].op = call.op /\ jobs[s].rsv = call.rsv
    BY <2>1 DEF WaitInv, Waited
  <2>4. CASE Repeat(end)
    <3>1. call'.op = call.op /\ call'.rsv = call.rsv /\ worked' = worked /\ outcome'.op = "none"
      BY <2>1, <2>4 DEF Repeat, Quiet, Nothing, Calls
    <3> QED
      BY <2>1, <2>2, <3>1 DEF ChargeInv
  <2>5. CASE Succeeded(end.answer)
    <3>1. /\ call' = Idle /\ worked' = worked /\ outcome'.op = call.op /\ outcome'.rsv = call.rsv
          /\ outcome'.how = "returned" => end.answer.kind = "ok"
      BY <2>5 DEF Succeeded, End, Good, Returned
    <3>2. call.op = "confirm" /\ outcome'.how = "returned" => rsv[call.rsv].charges > 0
      <4> SUFFICES ASSUME call.op = "confirm", outcome'.how = "returned" PROVE rsv[call.rsv].charges > 0
        OBVIOUS
      <4>1. jobs[s].at = "done" /\ jobs[s].answer.kind = "ok" /\ jobs[s].op = "confirm"
        BY <2>1, <2>3, <3>1
      <4>2. jobs[s].rsv # Null
        BY <2>1, <4>1 DEF TypeInv, JobsType, RequestShape, No
      <4> QED
        BY <2>1, <2>3, <4>1, <4>2 DEF ChargeInv
    <3> QED
      BY <2>1, <2>2, <3>1, <3>2 DEF ChargeInv
  <2>6. CASE Offline \/ Failed
    <3>1. call' = Idle /\ worked' = worked /\ outcome'.how # "returned"
      BY <2>6 DEF Offline, Failed, End
    <3> QED
      BY <2>1, <2>2, <3>1 DEF ChargeInv
  <2>7. CASE call.op = "reserve" /\ NodeReserved(end.answer)
    <3>1. call'.op = "reserve" /\ worked' = worked /\ outcome'.op = "none"
      BY <2>1, <2>7 DEF NodeReserved, Quiet, Nothing, Calls
    <3> QED
      BY <2>1, <2>2, <3>1 DEF ChargeInv
  <2>8. CASE Continue("release", Unsure(end)) /\ worked' = worked
    <3>1. call'.op = "release" /\ outcome'.op = "none"
      BY <2>1, <2>8 DEF Continue, Quiet, Nothing, Calls
    <3> QED
      BY <2>1, <2>2, <2>8, <3>1 DEF ChargeInv
  <2> QED
    BY <2>1, <2>4, <2>5, <2>6, <2>7, <2>8 DEF Finishing
<1>5. CASE NodeWork
  <2>1. call \in Calls /\ call # Idle /\ UNCHANGED <<rsv, jobs>>
    BY <1>5 DEF NodeWork, TypeInv, ClientType, serverVars
  <2>2. CASE Continue("confirm", FALSE) /\ worked' = worked \cup ({call.rsv} \ {Null})
    <3>1. call'.rsv = call.rsv /\ outcome'.op = "none"
      BY <2>1, <2>2 DEF Continue, Calls, Quiet, Nothing
    <3> QED
      BY <2>1, <2>2, <3>1 DEF ChargeInv
  <2>3. CASE Continue("release", FALSE) /\ worked' = worked
    <3>1. call'.op = "release" /\ outcome'.op = "none"
      BY <2>1, <2>3 DEF Continue, Calls, Quiet, Nothing
    <3> QED
      BY <2>1, <2>3, <3>1 DEF ChargeInv
  <2> QED
    BY <1>5, <2>2, <2>3 DEF NodeWork
<1>6. CASE GivenUp
  <2>1. call' = Idle /\ UNCHANGED <<rsv, worked>> /\ outcome'.how # "returned"
    BY <1>6 DEF GivenUp, Nothing, End, server, database
  <2> QED
    BY <1>6, <2>1, GivenUpRequests DEF ChargeInv
<1>7. CASE ClearLocal \/ SetClock
  BY <1>7 DEF ClearLocal, SetClock, serverVars, ChargeInv, Quiet, Nothing
<1>8. CASE Serving
  BY <1>8, ServingCharges
<1>9. CASE Outside
  <2>1. UNCHANGED <<call, worked, jobs>> /\ outcome'.op = "none"
    BY <1>9 DEF Outside, ClientWaits, Quiet, Nothing, Administrate, Tick, Expire
  <2>2. \A r \in Rsvs : rsv'[r].charges = rsv[r].charges /\ rsv'[r].status \in {rsv[r].status, "refunded"}
    BY <1>9, ExpiryCharges
  <2>3. \A t \in Slots : jobs[t] # Null /\ jobs[t].rsv # Null => jobs[t].rsv \in Rsvs
    BY DEF TypeInv, JobsType, Requests
  <2> QED
    BY <2>1, <2>2, <2>3 DEF ChargeInv
<1>10. CASE UNCHANGED vars
  BY <1>10 DEF vars, serverVars, clientVars, ChargeInv
<1> QED
  BY <1>1, <1>2, <1>3, <1>4, <1>5, <1>6, <1>7, <1>8, <1>9, <1>10, Steps

-----------------------------------------------------------------------------
(* What consume knows when it throws: a reservation is clean as long as it is
   neither charged nor to be confirmed by a request; that of a confirm none of
   whose answers was lost is charged, if at all, by the request it waits for.  *)

Confirming(s, r) == jobs[s] # Null /\ jobs[s].op = "confirm" /\ jobs[s].rsv = r
Clean(r) == ~(rsv[r].charges > 0) /\ \A s \in Slots : ~Confirming(s, r)
Agreed(s) == Waited(s) /\ jobs[s].at = "done" /\ jobs[s].answer.kind = "ok"
Sure(r) ==
  /\ \A s \in Slots : Confirming(s, r) => Waited(s)
  /\ rsv[r].charges > 0 => \E s \in Slots : Agreed(s)

CallIsSure ==
  call # Idle /\ call.rsv # Null =>
    /\ rsv[call.rsv].status # "none"
    /\ call.op = "reserve" \/ (call.op = "release" /\ ~call.unsure) => Clean(call.rsv)
    /\ call.op = "confirm" /\ ~call.unsure => Sure(call.rsv)

SureInv ==
  /\ \A r \in Rsvs : rsv[r].status = "none" => Clean(r)
  /\ \A s \in Slots : Agreed(s) /\ jobs[s].op = "reserve" =>
       rsv[jobs[s].answer.body].status # "none" /\ Clean(jobs[s].answer.body)
  /\ CallIsSure
  /\ outcome.op = "release" /\ outcome.rsv # Null /\ rsv[outcome.rsv].charges > 0 => outcome.unsure

LEMMA SureInit == Init => SureInv
BY DEF Init, ServerInit, SureInv, CallIsSure, Clean, Confirming, Agreed, Waited, Nothing

(* A request moves on at the server; only a confirm charges, and its own. *)
LEMMA SureFrame ==
  ASSUME TypeInv, SureInv, UNCHANGED call, outcome'.op = "none",
         NEW s \in Slots, jobs[s] # Null, jobs[s].at # "done", \A t \in Slots \ {s} : jobs'[t] = jobs[t],
         jobs'[s] # Null =>
           /\ jobs'[s].op = jobs[s].op /\ jobs'[s].rsv = jobs[s].rsv /\ jobs'[s].waited = jobs[s].waited
           /\ jobs'[s].op = "reserve" /\ jobs'[s].at = "done" /\ jobs'[s].answer.kind = "ok" =>
                rsv'[jobs'[s].answer.body].status # "none" /\ Clean(jobs[s].answer.body)',
         \A r \in Rsvs :
           /\ rsv'[r].status = "none" => rsv[r].status = "none"
           /\ \/ rsv'[r].charges = rsv[r].charges
              \/ /\ Confirming(s, r)
                 /\ jobs'[s] = Null => ~jobs[s].waited
                 /\ jobs'[s] # Null => jobs'[s].at = "done" /\ jobs'[s].answer.kind = "ok"
  PROVE  SureInv'
<1>1. \A r : \A t \in Slots : Confirming(t, r)' => Confirming(t, r)
  BY DEF Confirming
<1>2. \A r \in Rsvs : Clean(r) => Clean(r)'
  BY <1>1 DEF Clean
<1>3. \A t \in Slots : Agreed(t) => t # s /\ Agreed(t)'
  BY DEF Agreed, Waited
<1>4. ASSUME NEW r \in Rsvs, Sure(r) PROVE Sure(r)'
  <2>1. \A t \in Slots : Confirming(t, r)' => Waited(t)'
    BY <1>1, <1>4 DEF Sure, Confirming, Waited
  <2>2. ASSUME rsv'[r].charges > 0 PROVE \E t \in Slots : Agreed(t)'
    <3>1. CASE rsv[r].charges > 0
      BY <1>3, <1>4, <3>1 DEF Sure
    <3>2. CASE ~(rsv[r].charges > 0)
      BY <1>4, <2>2, <3>2 DEF Sure, Confirming, Agreed, Waited
    <3> QED
      BY <3>1, <3>2
  <2> QED
    BY <2>1, <2>2 DEF Sure
<1>5. CallIsSure'
  <2>1. call # Idle /\ call.rsv # Null => call.rsv \in Rsvs
    BY DEF TypeInv, ClientType, Calls
  <2> SUFFICES ASSUME call # Idle, call.rsv # Null, call.rsv \in Rsvs
               PROVE  /\ rsv'[call.rsv].status # "none"
                      /\ call.op = "reserve" \/ (call.op = "release" /\ ~call.unsure) => Clean(call.rsv)'
                      /\ call.op = "confirm" /\ ~call.unsure => Sure(call.rsv)'
    BY <2>1 DEF CallIsSure
  <2> QED
    BY <1>2, <1>4 DEF SureInv, CallIsSure
<1>6. ASSUME NEW t \in Slots, Agreed(t)', jobs'[t].op = "reserve"
      PROVE  rsv'[jobs'[t].answer.body].status # "none" /\ Clean(jobs[t].answer.body)'
  <2>1. CASE t = s
    BY <1>6, <2>1 DEF Agreed, Waited
  <2>2. CASE t # s
    <3>1. jobs'[t] = jobs[t] /\ Agreed(t) /\ jobs[t].op = "reserve"
      BY <1>6, <2>2 DEF Agreed, Waited
    <3>2. jobs[t].answer.body \in Rsvs
      BY <3>1 DEF Agreed, Waited, TypeInv, JobsType, RequestShape, Fits
    <3>3. rsv[jobs[t].answer.body].status # "none" /\ Clean(jobs[t].answer.body)
      BY <3>1 DEF SureInv
    <3>4. PICK r \in Rsvs : r = jobs[t].answer.body
      BY <3>2
    <3>5. Clean(r)' /\ rsv'[r].status # "none"
      BY <1>2, <3>3, <3>4
    <3>6. r = jobs'[t].answer.body
      BY <3>1, <3>4
    <3> QED
      BY <3>5, <3>6 DEF Clean, Confirming
  <2> QED
    BY <2>1, <2>2
<1> QED
  BY <1>2, <1>5, <1>6 DEF SureInv

LEMMA ServingSure == TypeInv /\ SureInv /\ Serving => SureInv'
<1> SUFFICES ASSUME TypeInv, SureInv, UNCHANGED call, outcome'.op = "none",
                    NEW s \in Slots,
                    \/ Lookup(s) \/ Save(s) \/ RunActivate(s) \/ RunVerify(s) \/ RunDeactivate(s)
                    \/ RunReserve(s) \/ ReadRsv(s) \/ WriteRsv(s)
             PROVE  SureInv'
  BY DEF Serving, Serve, ClientWaits, Quiet, Nothing
<1> DEFINE job == jobs[s]
<1>1. /\ job # Null /\ job \in Requests /\ RequestShape(job) /\ job.at # "done"
      /\ rsv \in [Rsvs -> [status : {"none", "frozen", "spent", "refunded"}, charges : Nat]]
  BY DEF Lookup, Save, RunActivate, RunVerify, RunDeactivate, RunReserve, ReadRsv, WriteRsv, Ready, At, TypeInv, JobsType,
         ServerType
<1>2. ASSUME NEW place, NEW answer, Turns(s, place, answer)
      PROVE  /\ \A t \in Slots \ {s} : jobs'[t] = jobs[t]
             /\ jobs'[s] # Null => /\ jobs'[s].op = job.op /\ jobs'[s].rsv = job.rsv /\ jobs'[s].waited = job.waited
                                   /\ jobs'[s].at = place /\ jobs'[s].answer = answer
  BY <1>1, <1>2 DEF Turns, Requests
<1>3. CASE Lookup(s) \/ Save(s) \/ RunActivate(s) \/ RunVerify(s) \/ RunDeactivate(s)
  <2>1. job.op # "reserve" /\ rsv' = rsv
    BY <1>1, <1>3 DEF Lookup, Save, At, RequestShape, RunActivate, RunVerify, RunDeactivate, Keyed
  <2>2. PICK place, answer : Turns(s, place, answer)
    BY <1>1, <1>3, DoneTurns, MoveTurns, AnswerTurns DEF Lookup, Save, RunActivate, RunVerify, RunDeactivate, TypeInv
  <2> QED
    BY <1>1, <1>2, <2>1, <2>2, SureFrame
<1>4. CASE RunReserve(s)
  <2>1. CASE Answer(s, No) /\ rsv' = rsv
    <3>1. Turns(s, "done", No) /\ No.kind # "ok"
      BY <1>1, <2>1, DoneTurns DEF Answer, No, TypeInv
    <3> QED
      BY <1>1, <1>2, <2>1, <3>1, SureFrame
  <2>2. ASSUME NEW r \in Rsvs, rsv[r].status = "none", rsv' = [rsv EXCEPT ![r].status = "frozen"], Answer(s, Yes(r))
        PROVE  SureInv'
    <3>1. PICK place : Turns(s, place, Yes(r))
      BY <1>1, <2>2, AnswerTurns DEF TypeInv
    <3>2. /\ rsv'[r].status = "frozen" /\ rsv'[r].charges = rsv[r].charges
          /\ \A q \in Rsvs \ {r} : rsv'[q] = rsv[q]
      BY <1>1, <2>2
    <3>3. job.op = "reserve"
      BY <1>4 DEF RunReserve
    <3>4. Clean(r)'
      BY <1>2, <2>2, <3>1, <3>2, <3>3 DEF SureInv, Clean, Confirming
    <3>5. jobs'[s] # Null => jobs'[s].answer.body = r
      BY <1>2, <3>1 DEF Yes
    <3>6. jobs'[s] # Null => rsv'[jobs'[s].answer.body].status # "none" /\ Clean(jobs[s].answer.body)'
      BY <3>2, <3>4, <3>5 DEF Clean, Confirming
    <3> QED
      BY <1>1, <1>2, <3>1, <3>2, <3>6, SureFrame
  <2> QED
    BY <1>4, <2>1, <2>2 DEF RunReserve
<1>5. CASE ReadRsv(s)
  <2>1. job.op # "reserve" /\ rsv' = rsv
    BY <1>5 DEF ReadRsv, server, database
  <2>2. PICK place, answer : Turns(s, place, answer)
    BY <1>1, <1>5, DoneTurns, MoveTurns DEF ReadRsv, TypeInv
  <2> QED
    BY <1>1, <1>2, <2>1, <2>2, SureFrame
<1>6. CASE WriteRsv(s)
  <2>1. job.op \in {"confirm", "release"} /\ job.rsv \in Rsvs
    BY <1>1, <1>6 DEF WriteRsv, At, RequestShape, Requests
  <2>2. Turns(s, "done", Yes(Null)) /\ Yes(Null).kind = "ok" /\ Yes(Null) \in Answers
    BY <1>1, <1>6, DoneTurns DEF WriteRsv, TypeInv, Yes, Answers
  <2>3. jobs'[s] = Null => ~job.waited
    <3>1. [job EXCEPT !.at = "done", !.answer = Yes(Null)] \in Requests
      BY <1>1, <2>2 DEF Requests
    <3> QED
      BY <2>2, <3>1, NullIsNone DEF Turns
  <2>4. rsv' = IF job.op = "confirm"
               THEN [rsv EXCEPT ![job.rsv] = [status |-> "spent", charges |-> rsv[job.rsv].charges + 1]]
               ELSE [rsv EXCEPT ![job.rsv].status = "refunded"]
    BY <1>6 DEF WriteRsv
  <2>5. /\ rsv'[job.rsv].status # "none" /\ \A r \in Rsvs \ {job.rsv} : rsv'[r] = rsv[r]
        /\ job.op # "confirm" => rsv'[job.rsv].charges = rsv[job.rsv].charges
    BY <1>1, <2>1, <2>4
  <2>6. \A r \in Rsvs :
           /\ rsv'[r].status = "none" => rsv[r].status = "none"
           /\ rsv'[r].charges = rsv[r].charges \/ Confirming(s, r)
    BY <1>1, <2>1, <2>5 DEF Confirming
  <2> QED
    BY <1>1, <1>2, <2>1, <2>2, <2>3, <2>6, SureFrame
<1> QED
  BY <1>3, <1>4, <1>5, <1>6

(* A confirm that is not agreed to, and none of whose answers was lost, has left
   its reservation clean. *)
LEMMA RefusedIsClean ==
  ASSUME TypeInv, WaitInv, SureInv, NEW s \in Slots, NEW end, Answering(s, end), end.answer.kind # "ok",
         NEW r \in Rsvs, call.op = "confirm", call.rsv = r, ~Unsure(end)
  PROVE  Clean(r)'
<1>1. /\ Waited(s) /\ ~call.unsure /\ call # Idle /\ end.mishap \in {"none", "denied"} /\ rsv' = rsv
      /\ jobs \in [Slots -> Requests \cup {Null}]
  <2>1. ~call.unsure /\ end.mishap \in {"none", "denied"}
    BY Zenon DEF Unsure
  <2> QED
    BY <2>1 DEF Answering, Asked, Waiting, Attempt, TypeInv, JobsType
<1>2. /\ jobs' = [jobs EXCEPT ![s] = Null]
      /\ end.mishap = "denied" => jobs[s].at = "sent"
      /\ end.mishap = "none" => end.answer = jobs[s].answer
  BY <1>1 DEF Answering, Attempt, Befall, Possible, Mishaps, Strangers
<1>3. ~Agreed(s) /\ \A t \in Slots : Waited(t) => t = s
  BY <1>1, <1>2 DEF Agreed, WaitInv
<1>4. Sure(r)
  BY <1>1, NullIsNone, Zenon DEF SureInv, CallIsSure
<1>5. \A t \in Slots : Confirming(t, r) => t = s
  BY <1>3, <1>4 DEF Sure
<1>6. jobs'[s] = Null /\ \A t \in Slots \ {s} : jobs'[t] = jobs[t]
  BY <1>1, <1>2
<1>7. ~(rsv[r].charges > 0)
  BY <1>3, <1>4 DEF Sure, Agreed
<1> QED
  BY <1>1, <1>5, <1>6, <1>7 DEF Clean, Confirming

LEMMA SureStep == TypeInv /\ WaitInv /\ SureInv /\ [Next]_vars => SureInv'
<1> SUFFICES ASSUME TypeInv, WaitInv, SureInv, [Next]_vars PROVE SureInv'
  OBVIOUS
<1>1. program = "php" /\ call # Idle => call.op \in {"activate", "verify", "deactivate"}
  BY DEF TypeInv, ClientType, CallShape
(* Nothing is charged, no request to confirm is added, and nobody waits. *)
<1>2. ASSUME \A t \in Slots : jobs'[t] # Null => jobs[t] # Null /\ jobs'[t].op = jobs[t].op /\ jobs'[t].rsv = jobs[t].rsv,
             \A r \in Rsvs : rsv'[r].charges = rsv[r].charges /\ (rsv'[r].status = "none" => rsv[r].status = "none")
      PROVE  \A r \in Rsvs : /\ Clean(r) => Clean(r)'
                             /\ rsv'[r].status = "none" => Clean(r)'
  BY <1>2 DEF SureInv, Clean, Confirming
<1>3. ASSUME NEW r \in Rsvs, Clean(r)' PROVE Sure(r)'
  BY <1>3 DEF Clean, Sure
<1>4. call # Idle => call \in Calls /\ call.rsv \in Rsvs \cup {Null}
  BY DEF TypeInv, ClientType, Calls
<1>5. CASE Begun
  <2>1. call = Idle /\ call'.rsv = Null /\ UNCHANGED <<rsv, jobs>> /\ outcome'.op = "none"
    BY <1>5 DEF Begun, Begin, Quiet, Nothing, database
  <2>2. \A t \in Slots : ~Waited(t)'
    BY <2>1 DEF WaitInv, Waited, Waiting
  <2> QED
    BY <2>1, <2>2, <1>2 DEF SureInv, CallIsSure, Agreed
<1>6. CASE Send
  <2>1. PICK s \in Slots :
               /\ jobs[s] = Null /\ \A t \in Slots \ {s} : jobs'[t] = jobs[t]
               /\ jobs'[s] # Null /\ Fresh(jobs'[s]) /\ jobs'[s].waited /\ jobs'[s].op = call.op /\ jobs'[s].rsv = call.rsv
               /\ call # Idle /\ call.at = "send" /\ call'.op = call.op /\ call'.rsv = call.rsv
               /\ call'.unsure = call.unsure /\ outcome'.op = "none" /\ UNCHANGED rsv
    BY <1>6, SendAdds DEF server, database
  <2>2. \A t \in Slots : ~Waited(t)
    BY <2>1 DEF WaitInv, Waiting
  <2>3. \A t \in Slots : ~Agreed(t)'
    BY <2>1, <2>2 DEF Agreed, Waited, Fresh, No
  <2>4. \A r : \A t \in Slots : Confirming(t, r)' => Confirming(t, r) \/ (t = s /\ call.op = "confirm" /\ call.rsv = r)
    BY <2>1 DEF Confirming
  <2>5. ASSUME NEW r \in Rsvs, Clean(r), ~(call.op = "confirm" /\ call.rsv = r) PROVE Clean(r)'
    BY <2>1, <2>4, <2>5 DEF Clean
  <2>6. \A r \in Rsvs : rsv'[r].status = "none" => Clean(r)'
    <3> SUFFICES ASSUME NEW r \in Rsvs, rsv'[r].status = "none" PROVE Clean(r)'
      OBVIOUS
    <3>1. rsv[r].status = "none" /\ Clean(r)
      BY <2>1 DEF SureInv
    <3>2. call.rsv # r
      BY <2>1, <3>1, NullIsNone DEF SureInv, CallIsSure
    <3> QED
      BY <2>5, <3>1, <3>2
  <2>7. CallIsSure'
    <3> SUFFICES ASSUME NEW r \in Rsvs, r = call.rsv
                 PROVE  /\ rsv'[r].status # "none"
                        /\ call.op = "reserve" \/ (call.op = "release" /\ ~call.unsure) => Clean(r)'
                        /\ call.op = "confirm" /\ ~call.unsure => Sure(r)'
      BY <1>4, <2>1 DEF CallIsSure, Clean, Sure, Confirming
    <3>1. /\ rsv[r].status # "none"
          /\ call.op = "reserve" \/ (call.op = "release" /\ ~call.unsure) => Clean(r)
          /\ call.op = "confirm" /\ ~call.unsure => Sure(r)
      BY <2>1, NullIsNone DEF SureInv, CallIsSure
    <3>2. ASSUME call.op = "confirm", ~call.unsure PROVE Sure(r)'
      <4>1. \A t \in Slots : ~Confirming(t, r)
        BY <2>2, <3>1, <3>2 DEF Sure
      <4>2. \A t \in Slots : Confirming(t, r)' => Waited(t)'
        BY <2>1, <2>4, <4>1 DEF Waited
      <4>3. ~(rsv'[r].charges > 0)
        BY <2>1, <2>2, <3>1, <3>2 DEF Sure, Agreed
      <4> QED
        BY <4>2, <4>3 DEF Sure
    <3> QED
      BY <2>1, <2>5, <3>1, <3>2
  <2> QED
    BY <2>1, <2>3, <2>6, <2>7 DEF SureInv
<1>7. ASSUME NEW s \in Slots, NEW end, Answering(s, end) PROVE SureInv'
  <2>1. /\ call # Idle /\ call \in Calls /\ jobs[s] # Null /\ jobs[s].waited /\ Waited(s)
        /\ end.answer.kind = "ok" => jobs[s].at = "done" /\ end.answer = jobs[s].answer /\ Fits(jobs[s].op, end.answer)
        /\ jobs' = [jobs EXCEPT ![s] = Null] \/ jobs' = [jobs EXCEPT ![s].waited = FALSE]
        /\ rsv' = rsv /\ Finishing(end)
    BY <1>7, AttemptType DEF Answering, Attempt, Waited
  <2>2. \A r \in Rsvs : (Clean(r) => Clean(r)') /\ (rsv'[r].status = "none" => Clean(r)')
    <3>1. \A t \in Slots : jobs'[t] # Null => jobs[t] # Null /\ jobs'[t].op = jobs[t].op /\ jobs'[t].rsv = jobs[t].rsv
      BY <2>1, FewerRequests
    <3> QED
      BY <1>2, <2>1, <3>1
  <2>3. \A t \in Slots : ~Waited(t)'
    BY <2>1, NobodyWaits DEF TypeInv
  <2>4. jobs[s].op = call.op
    BY <2>1 DEF WaitInv
  <2>5. SUFFICES CallIsSure' /\ (outcome'.op = "release" /\ outcome'.rsv # Null /\ rsv'[outcome'.rsv].charges > 0 => outcome'.unsure)
    BY <2>2, <2>3 DEF SureInv, Agreed
  <2>6. CASE end.answer.kind # "ok" /\ Repeat(end)
    <3>1. call'.op = call.op /\ call'.rsv = call.rsv /\ call'.unsure = Unsure(end) /\ outcome'.op = "none"
      <4>1. call' = [call EXCEPT !.at = "send", !.attempt = call.attempt + 1, !.unsure = Unsure(end)]
        BY <2>6 DEF Repeat
      <4> QED
        BY <2>1, <2>6, <4>1 DEF Repeat, Quiet, Nothing, Calls
    <3>2. ~Unsure(end) => ~call.unsure
      BY Zenon DEF Unsure
    <3> SUFFICES ASSUME NEW r \in Rsvs, r = call.rsv
                 PROVE  /\ rsv'[r].status # "none"
                        /\ call.op = "reserve" \/ (call.op = "release" /\ ~Unsure(end)) => Clean(r)'
                        /\ call.op = "confirm" /\ ~Unsure(end) => Sure(r)'
      BY <1>4, <2>1, <3>1 DEF CallIsSure, Clean, Sure, Confirming
    <3>3. /\ rsv[r].status # "none"
          /\ call.op = "reserve" \/ (call.op = "release" /\ ~call.unsure) => Clean(r)
      BY <2>1, NullIsNone DEF SureInv, CallIsSure
    <3>4. ASSUME call.op = "confirm", ~Unsure(end) PROVE Sure(r)'
      BY <1>3, <1>7, <2>6, <3>4, RefusedIsClean
    <3> QED
      BY <2>1, <2>2, <3>2, <3>3, <3>4
  <2>7. CASE Succeeded(end.answer) \/ Offline \/ Failed
    <3>1. call' = Idle /\ outcome'.op = call.op /\ outcome'.rsv = call.rsv /\ outcome'.unsure = call.unsure
      BY <2>7 DEF Succeeded, Offline, Failed, End
    <3>2. call.op = "release" /\ call.rsv # Null /\ rsv[call.rsv].charges > 0 => call.unsure
      BY <2>1 DEF SureInv, CallIsSure, Clean
    <3> QED
      BY <2>1, <3>1, <3>2 DEF CallIsSure
  <2>8. CASE call.op = "reserve" /\ NodeReserved(end.answer)
    <3>1. /\ call'.op = "reserve" /\ call'.rsv = (IF end.answer.kind = "ok" THEN end.answer.body ELSE Null)
          /\ outcome'.op = "none"
      BY <2>1, <2>8 DEF NodeReserved, Quiet, Nothing, Calls
    <3> SUFFICES ASSUME end.answer.kind = "ok", NEW r \in Rsvs, r = end.answer.body
                 PROVE  rsv'[r].status # "none" /\ Clean(r)'
      BY <2>1, <2>4, <2>8, <3>1 DEF CallIsSure, Clean, Confirming, Fits
    <3>2. rsv[r].status # "none" /\ Clean(r)
      BY <2>1, <2>4, <2>8 DEF SureInv, Agreed
    <3> QED
      BY <2>1, <2>2, <3>2
  <2>9. CASE call.op = "confirm" /\ ~Good(end.answer) /\ Continue("release", Unsure(end)) /\ worked' = worked
    <3>1. call'.op = "release" /\ call'.rsv = call.rsv /\ call'.unsure = Unsure(end) /\ outcome'.op = "none"
      <4>1. call' = [call EXCEPT !.op = "release", !.at = "send", !.attempt = 0, !.unsure = Unsure(end)]
        BY <2>9 DEF Continue
      <4> QED
        BY <2>1, <2>9, <4>1 DEF Continue, Quiet, Nothing, Calls
    <3> SUFFICES ASSUME NEW r \in Rsvs, r = call.rsv
                 PROVE  rsv'[r].status # "none" /\ (~Unsure(end) => Clean(r)')
      BY <1>4, <2>1, <3>1 DEF CallIsSure, Clean, Confirming
    <3>2. rsv[r].status # "none"
      BY <2>1, NullIsNone DEF SureInv, CallIsSure
    <3> QED
      BY <1>7, <2>1, <2>9, <3>2, RefusedIsClean DEF Good
  <2> QED
    BY <2>1, <2>6, <2>7, <2>8, <2>9 DEF Finishing
<1>8. CASE NodeWork
  <2>1. call # Idle /\ call \in Calls /\ call.op = "reserve" /\ UNCHANGED <<rsv, jobs>>
    BY <1>8 DEF NodeWork, TypeInv, ClientType, CallShape, serverVars
  <2>2. /\ call'.op \in {"confirm", "release"} /\ call'.rsv = call.rsv /\ call'.unsure = FALSE /\ call'.at = "send"
        /\ outcome'.op = "none"
    <3>1. CASE Continue("confirm", FALSE)
      BY <2>1, <3>1 DEF Continue, Quiet, Nothing, Calls
    <3>2. CASE Continue("release", FALSE)
      BY <2>1, <3>2 DEF Continue, Quiet, Nothing, Calls
    <3> QED
      BY <1>8, <3>1, <3>2 DEF NodeWork
  <2>3. \A t \in Slots : ~Waited(t)'
    BY <1>8, <2>1 DEF NodeWork, WaitInv, Waiting, Waited
  <2>4. CallIsSure'
    <3> SUFFICES ASSUME NEW r \in Rsvs, r = call.rsv PROVE rsv'[r].status # "none" /\ Clean(r)' /\ Sure(r)'
      BY <1>4, <2>1, <2>2 DEF CallIsSure, Clean, Sure, Confirming
    <3>1. rsv[r].status # "none" /\ Clean(r)
      BY <2>1, NullIsNone DEF SureInv, CallIsSure
    <3> QED
      BY <1>2, <1>3, <2>1, <3>1
  <2> QED
    BY <1>2, <2>1, <2>2, <2>3, <2>4 DEF SureInv, Agreed
<1>9. CASE GivenUp
  <2>1. /\ call # Idle /\ call' = Idle /\ UNCHANGED rsv
        /\ outcome'.op = "none" \/ (outcome'.op = call.op /\ outcome'.rsv = call.rsv /\ outcome'.unsure = call.unsure)
    BY <1>9 DEF GivenUp, Nothing, End, server, database
  <2>2. call.op = "release" /\ call.rsv # Null /\ rsv[call.rsv].charges > 0 => call.unsure
    BY <2>1 DEF SureInv, CallIsSure, Clean
  <2>3. /\ \A t \in Slots : ~Waited(t)'
        /\ \A t \in Slots : jobs'[t] # Null => jobs[t] # Null /\ jobs'[t].op = jobs[t].op /\ jobs'[t].rsv = jobs[t].rsv
    BY <1>9, GivenUpRequests
  <2> QED
    BY <1>2, <2>1, <2>2, <2>3 DEF SureInv, CallIsSure, Agreed
<1>10. CASE ClearLocal \/ SetClock \/ Outside
  <2>1. UNCHANGED <<call, jobs>> /\ outcome'.op = "none"
    BY <1>10 DEF ClearLocal, SetClock, serverVars, Outside, ClientWaits, Quiet, Nothing, Administrate, Tick, Expire
  <2>2. \A r \in Rsvs : rsv'[r].charges = rsv[r].charges /\ (rsv'[r].status = "none" => rsv[r].status = "none")
    <3>1. ClearLocal \/ SetClock => rsv' = rsv
      BY DEF ClearLocal, SetClock, serverVars
    <3> QED
      BY <1>10, <3>1, ExpiryCharges
  <2>3. \A r \in Rsvs : Clean(r)' <=> Clean(r)
    BY <2>1, <2>2 DEF Clean, Confirming
  <2>4. \A r \in Rsvs : Sure(r)' <=> Sure(r)
    BY <2>1, <2>2 DEF Sure, Confirming, Agreed, Waited
  <2>5. CallIsSure'
    <3> SUFFICES ASSUME call # Idle, NEW r \in Rsvs, r = call.rsv
                 PROVE  /\ rsv'[r].status # "none"
                        /\ call.op = "reserve" \/ (call.op = "release" /\ ~call.unsure) => Clean(r)'
                        /\ call.op = "confirm" /\ ~call.unsure => Sure(r)'
      BY <1>4, <2>1 DEF CallIsSure, Clean, Sure, Confirming, Agreed, Waited
    <3> QED
      BY <2>2, <2>3, <2>4, NullIsNone DEF SureInv, CallIsSure
  <2>6. ASSUME NEW t \in Slots, Agreed(t)', jobs'[t].op = "reserve"
        PROVE  rsv'[jobs'[t].answer.body].status # "none" /\ Clean(jobs[t].answer.body)'
    <3>1. Agreed(t) /\ jobs[t].op = "reserve" /\ jobs' = jobs
      BY <2>1, <2>6 DEF Agreed, Waited
    <3>2. PICK r \in Rsvs : r = jobs[t].answer.body
      BY <3>1 DEF Agreed, Waited, TypeInv, JobsType, RequestShape, Fits
    <3>3. rsv[r].status # "none" /\ Clean(r)
      BY <3>1, <3>2 DEF SureInv
    <3> QED
      BY <2>2, <2>3, <3>1, <3>2, <3>3 DEF Clean, Confirming
  <2> QED
    BY <1>2, <2>1, <2>2, <2>5, <2>6 DEF SureInv
<1>11. CASE Serving
  BY <1>11, ServingSure
<1>12. CASE UNCHANGED vars
  BY <1>12 DEF vars, serverVars, clientVars, SureInv, CallIsSure, Clean, Sure, Confirming, Agreed, Waited
<1> QED
  BY <1>1, <1>5, <1>6, <1>7, <1>8, <1>9, <1>10, <1>11, <1>12, Steps

(* consume charges no reservation whose work was not done; it returns, on an
   answer of the endpoint, only when its reservation is charged at least once;
   and when it throws, its reservation is charged only if an answer to confirm
   was lost (client.ts:145-162, consume.service.ts:107-173). *)
THEOREM ConsumeChargesExactly == Spec => []ConsumeIsExact
<1>1. ChargeInv /\ SureInv => ConsumeIsExact
  BY DEF ChargeInv, SureInv, ConsumeIsExact
<1> QED
  BY TypeInit, WaitInit, TypeStep, ChargeInit, ChargeStep, SureInit, SureStep, <1>1, PTL DEF Spec

-----------------------------------------------------------------------------
(* Unbound when deactivate returns: what was answered yes with the key while the
   caller holds on to it left the device unbound, and only a request that was
   given up has bound it again since.                                           *)

Loose == ~card.bound \/ late

LooseInv ==
  /\ keys["deactivate"] = "new" =>
       /\ saved["deactivate"] = Null
       /\ \A s \in Slots : jobs[s] # Null /\ jobs[s].op = "deactivate" => ~jobs[s].keyed
  /\ keys["deactivate"] = "tried" =>
       /\ saved["deactivate"] # Null => Loose
       /\ \A s \in Slots : jobs[s] # Null /\ jobs[s].op = "deactivate" /\ jobs[s].at = "ran" => Loose
  /\ call # Idle =>
       /\ call.keyed /\ call.op = "deactivate" => keys["deactivate"] = "tried"
       /\ call.op = "activate" => keys["deactivate"] # "tried"
  /\ \A s \in Slots : Waited(s) /\ jobs[s].op = "deactivate" /\ jobs[s].at = "done" /\ jobs[s].answer.kind = "ok" => Loose
  /\ DeactivatedIsUnbound

LEMMA LooseInit == Init => LooseInv
BY DEF Init, ServerInit, LooseInv, Keyed, Waited, DeactivatedIsUnbound, Nothing

(* A request moves on at the server and the device stays loose. *)
LEMMA LooseFrame ==
  ASSUME LooseInv, Loose => Loose', UNCHANGED <<call, keys>>, outcome'.op = "none",
         keys["deactivate"] = "new" => saved'["deactivate"] = Null,
         keys["deactivate"] = "tried" /\ saved'["deactivate"] # Null => Loose',
         NEW s \in Slots, jobs[s] # Null,
         \A t \in Slots \ {s} : jobs'[t] = jobs[t],
         jobs'[s] # Null =>
           /\ jobs'[s].op = jobs[s].op /\ jobs'[s].keyed = jobs[s].keyed /\ jobs'[s].waited = jobs[s].waited
           /\ jobs'[s].op = "deactivate" /\ jobs'[s].at = "ran" /\ keys["deactivate"] = "tried" => Loose'
           /\ jobs'[s].op = "deactivate" /\ jobs'[s].at = "done" /\ jobs'[s].waited /\ jobs'[s].answer.kind = "ok" => Loose'
  PROVE  LooseInv'
<1>1. \A t \in Slots : Waited(t)' /\ jobs'[t].op = "deactivate" /\ jobs'[t].at = "done" /\ jobs'[t].answer.kind = "ok"
                       => Loose'
  BY DEF LooseInv, Waited
<1>2. DeactivatedIsUnbound'
  BY DEF DeactivatedIsUnbound
<1>3. \A t \in Slots : jobs'[t] # Null /\ jobs'[t].op = "deactivate" /\ jobs'[t].at = "ran" /\ keys["deactivate"] = "tried"
                       => Loose'
  BY DEF LooseInv
<1> QED
  BY <1>1, <1>2, <1>3 DEF LooseInv

LEMMA ServingLoose == TypeInv /\ WaitInv /\ LooseInv /\ Serving => LooseInv'
<1> SUFFICES ASSUME TypeInv, WaitInv, LooseInv, UNCHANGED <<call, keys>>, outcome'.op = "none",
                    NEW s \in Slots,
                    \/ Lookup(s) \/ Save(s) \/ RunActivate(s) \/ RunVerify(s) \/ RunDeactivate(s)
                    \/ RunReserve(s) \/ ReadRsv(s) \/ WriteRsv(s)
             PROVE  LooseInv'
  BY DEF Serving, Serve, ClientWaits, Quiet, Nothing
<1> DEFINE job == jobs[s]
<1>1. /\ job # Null /\ job \in Requests /\ RequestShape(job) /\ saved \in [Keyed -> Records \cup {Null}]
      /\ card \in [barred : BOOLEAN, expires : Expiries, grace : Graces, bound : BOOLEAN, version : Nat, rebinds : Nat]
  BY DEF Lookup, Save, RunActivate, RunVerify, RunDeactivate, RunReserve, ReadRsv, WriteRsv, Ready, At, TypeInv, JobsType,
         ServerType
<1>2. ASSUME NEW place, NEW answer, Turns(s, place, answer)
      PROVE  /\ \A t \in Slots \ {s} : jobs'[t] = jobs[t]
             /\ jobs'[s] # Null => /\ jobs'[s].op = job.op /\ jobs'[s].keyed = job.keyed /\ jobs'[s].waited = job.waited
                                   /\ jobs'[s].at = place /\ jobs'[s].answer = answer
  BY <1>1, <1>2 DEF Turns, Requests
(* A request somebody waits for is of the call, which holds on to its key. *)
<1>3. job.waited /\ job.op = "deactivate" /\ job.keyed => keys["deactivate"] = "tried"
  BY <1>1 DEF WaitInv, Waited, Waiting, LooseInv
<1>4. CASE Lookup(s)
  <2>1. job.keyed /\ job.op \in Keyed /\ UNCHANGED <<card, late>>
    BY <1>1, <1>4 DEF Lookup, At, RequestShape
  <2>2. CASE Hit(s)
    <3>1. PICK answer : Turns(s, "done", answer)
      BY <1>1, <1>4, <2>2, DoneTurns DEF Lookup, TypeInv
    <3>2. saved' = saved /\ (job.op = "deactivate" => saved["deactivate"] # Null)
      BY <1>4, <2>2 DEF Lookup, Hit
    <3>3. job.op = "deactivate" /\ job.waited => Loose
      BY <1>3, <2>1, <3>2 DEF LooseInv
    <3> QED
      BY <1>1, <1>2, <2>1, <3>1, <3>2, <3>3, LooseFrame DEF LooseInv, Loose
  <2>3. CASE ~Hit(s)
    <3>1. Turns(s, "missed", job.answer) /\ saved' = [saved EXCEPT ![job.op] = Null]
      BY <1>1, <1>4, <2>3, MoveTurns DEF Lookup, TypeInv
    <3>2. saved'["deactivate"] \in {Null, saved["deactivate"]}
      BY <1>1, <3>1 DEF Keyed
    <3>3. Loose' = Loose
      BY <2>1 DEF Loose
    <3>4. /\ keys["deactivate"] = "new" => saved'["deactivate"] = Null
          /\ keys["deactivate"] = "tried" /\ saved'["deactivate"] # Null => Loose
      BY <3>2 DEF LooseInv
    <3>5. /\ jobs[s] # Null /\ \A t \in Slots \ {s} : jobs'[t] = jobs[t]
          /\ jobs'[s] # Null => /\ jobs'[s].op = jobs[s].op /\ jobs'[s].keyed = jobs[s].keyed
                                /\ jobs'[s].waited = jobs[s].waited /\ jobs'[s].at = "missed"
      BY <1>1, <1>2, <3>1
    <3> QED
      BY <3>3, <3>4, <3>5, LooseFrame
  <2> QED
    BY <2>2, <2>3
<1>5. CASE Save(s)
  <2>1. Turns(s, "done", job.answer) /\ job.at = "ran" /\ job.keyed /\ UNCHANGED <<card, late>>
    BY <1>1, <1>5, DoneTurns DEF Save, At, TypeInv, RequestShape
  <2>2. job.op # "deactivate" => saved'["deactivate"] = saved["deactivate"]
    BY <1>1, <1>5 DEF Save
  <2>3. job.op = "deactivate" => (keys["deactivate"] = "tried" => Loose) /\ keys["deactivate"] # "new"
    BY <1>1, <2>1 DEF LooseInv
  <2> QED
    BY <1>1, <1>2, <1>3, <2>1, <2>2, <2>3, LooseFrame DEF LooseInv, Loose
<1>6. CASE RunActivate(s)
  <2>1. saved' = saved /\ job.op = "activate"
    BY <1>6 DEF RunActivate
  <2>2. PICK place, answer : Turns(s, place, answer)
    BY <1>1, <1>6, AnswerTurns DEF RunActivate, TypeInv
  <2>3. CASE job.waited
    <3>1. keys["deactivate"] # "tried" /\ \A t \in Slots : Waited(t) => t = s
      BY <1>1, <2>1, <2>3 DEF WaitInv, Waited, Waiting, LooseInv
    <3>2. \A t \in Slots : ~(Waited(t)' /\ jobs'[t].op = "deactivate")
      BY <1>2, <2>1, <2>2, <3>1 DEF Waited
    <3>3. DeactivatedIsUnbound'
      BY DEF DeactivatedIsUnbound
    <3>4. \A t \in Slots : jobs'[t] # Null => jobs[t] # Null /\ jobs'[t].op = jobs[t].op /\ jobs'[t].keyed = jobs[t].keyed
      BY <1>1, <1>2, <2>2
    <3> QED
      BY <2>1, <3>1, <3>2, <3>3, <3>4 DEF LooseInv
  <2>4. CASE ~job.waited
    <3>1. late' \/ UNCHANGED <<card, late>>
      BY <1>6, <2>4 DEF RunActivate
    <3> QED
      BY <1>1, <1>2, <2>1, <2>2, <3>1, LooseFrame DEF LooseInv, Loose
  <2> QED
    BY <2>3, <2>4
<1>7. CASE RunDeactivate(s)
  <2>1. saved' = saved
    BY <1>7 DEF RunDeactivate
  <2>2. CASE card.bound /\ card.rebinds < RebindLimit
    <3>1. ~card'.bound /\ Answer(s, Yes(Null))
      <4>1. card' = [card EXCEPT !.bound = FALSE, !.version = card.version + 1, !.rebinds = card.rebinds + 1]
            /\ Answer(s, Yes(Null))
        BY <1>7, <2>2 DEF RunDeactivate
      <4> QED
        BY <1>1, <4>1
    <3>2. PICK place : Turns(s, place, Yes(Null))
      BY <1>1, <3>1, AnswerTurns DEF TypeInv
    <3> QED
      BY <1>1, <1>2, <2>1, <3>1, <3>2, LooseFrame DEF LooseInv, Loose
  <2>3. CASE ~(card.bound /\ card.rebinds < RebindLimit)
    <3>1. Done(s, No) /\ UNCHANGED <<card, late>>
      BY <1>7, <2>3 DEF RunDeactivate, Answer, No
    <3>2. Turns(s, "done", No)
      BY <1>1, <3>1, DoneTurns DEF TypeInv
    <3> QED
      BY <1>1, <1>2, <2>1, <3>1, <3>2, LooseFrame DEF LooseInv, Loose, No
  <2> QED
    BY <2>2, <2>3
<1>8. CASE RunVerify(s) \/ RunReserve(s) \/ ReadRsv(s) \/ WriteRsv(s)
  <2>1. job.op # "deactivate" /\ UNCHANGED <<saved, card, late>>
    BY <1>1, <1>8 DEF RunVerify, RunReserve, ReadRsv, WriteRsv, At, RequestShape, server, database
  <2>2. PICK place, answer : Turns(s, place, answer)
    BY <1>1, <1>8, DoneTurns, MoveTurns, AnswerTurns DEF RunVerify, RunReserve, ReadRsv, WriteRsv, TypeInv
  <2> QED
    BY <1>1, <1>2, <2>1, <2>2, LooseFrame DEF LooseInv, Loose
<1> QED
  BY <1>4, <1>5, <1>6, <1>7, <1>8

LEMMA BegunLoose == TypeInv /\ WaitInv /\ LooseInv /\ Begun => LooseInv'
<1> SUFFICES ASSUME TypeInv, WaitInv, LooseInv, NEW op \in Starts, NEW given \in BOOLEAN, Begin(op, given)
             PROVE  LooseInv'
  BY DEF Begun
<1>1. /\ call = Idle /\ UNCHANGED <<jobs, saved, card>> /\ outcome'.op = "none"
      /\ late' = (late /\ keys["deactivate"] = "tried") /\ keys' = KeysAt(op)
      /\ call'.op = op /\ call'.keyed = KeyFor(op)
  BY DEF Begin, database, Quiet, Nothing
<1>2. \A s \in Slots : ~Waited(s)'
  BY <1>1 DEF WaitInv, Waited, Waiting
<1>3. keys["deactivate"] \in {"new", "tried", "over"}
  BY DEF TypeInv, ClientType, Keyed
<1>4. keys'["deactivate"] =
        IF op = "deactivate" /\ keys["deactivate"] = "new" THEN "tried"
        ELSE IF op = "activate" /\ keys["deactivate"] = "tried" THEN "over" ELSE keys["deactivate"]
  BY <1>1 DEF KeysAt, Keyed
<1>5. /\ keys'["deactivate"] = "new" => keys["deactivate"] = "new"
      /\ keys'["deactivate"] = "tried" => keys["deactivate"] = "new" \/ (keys["deactivate"] = "tried" /\ late' = late)
  BY <1>1, <1>3, <1>4 DEF TypeInv, ServerType
<1>6. /\ op = "activate" => keys'["deactivate"] # "tried"
      /\ op = "deactivate" /\ call'.keyed => keys'["deactivate"] = "tried"
  BY <1>1, <1>3, <1>4 DEF KeyFor
<1>7. \A s \in Slots : jobs[s] # Null /\ jobs[s].op = "deactivate" /\ jobs[s].at = "ran" => jobs[s].keyed
  BY DEF TypeInv, JobsType, RequestShape
<1>8. DeactivatedIsUnbound'
  BY <1>1 DEF DeactivatedIsUnbound
<1> QED
  BY <1>1, <1>2, <1>5, <1>6, <1>7, <1>8 DEF LooseInv, Loose

LEMMA LooseStep == TypeInv /\ WaitInv /\ LooseInv /\ [Next]_vars => LooseInv'
<1> SUFFICES ASSUME TypeInv, WaitInv, LooseInv, [Next]_vars PROVE LooseInv'
  OBVIOUS
<1>1. program = "php" /\ call # Idle => call.op \in {"activate", "verify", "deactivate"}
  BY DEF TypeInv, ClientType, CallShape
<1>2. CASE Begun
  BY <1>2, BegunLoose
<1>3. CASE Send
  <2>1. PICK s \in Slots :
               /\ \A t \in Slots \ {s} : jobs'[t] = jobs[t]
               /\ Fresh(jobs'[s]) /\ jobs'[s].op = call.op /\ jobs'[s].keyed = call.keyed
               /\ call # Idle /\ call'.op = call.op /\ call'.keyed = call.keyed
               /\ outcome'.op = "none" /\ UNCHANGED <<saved, card, late, keys>>
    BY <1>3, SendAdds DEF server, database
  <2>2. jobs'[s].at # "ran" /\ (jobs'[s].at = "done" => jobs'[s].answer.kind # "ok")
    BY <2>1 DEF Fresh, No
  <2>3. DeactivatedIsUnbound'
    BY <2>1 DEF DeactivatedIsUnbound
  <2>4. \A t \in Slots : Waited(t)' /\ jobs'[t].at = "done" /\ jobs'[t].answer.kind = "ok" => Waited(t) /\ jobs'[t] = jobs[t]
    BY <2>1, <2>2 DEF Waited
  <2> QED
    BY <2>1, <2>2, <2>3, <2>4 DEF LooseInv, Loose
<1>4. ASSUME NEW s \in Slots, NEW end, Answering(s, end) PROVE LooseInv'
  <2>1. /\ call # Idle /\ call \in Calls /\ CallShape(call) /\ jobs[s] # Null /\ jobs[s].waited /\ Waited(s)
        /\ end.answer.kind = "ok" => jobs[s].at = "done" /\ end.answer = jobs[s].answer
        /\ jobs' = [jobs EXCEPT ![s] = Null] \/ jobs' = [jobs EXCEPT ![s].waited = FALSE]
        /\ UNCHANGED <<saved, card, late>> /\ Finishing(end)
    BY <1>4, AttemptType DEF Answering, Attempt, Waited
  <2>2. \A t \in Slots : jobs'[t] # Null =>
          jobs[t] # Null /\ jobs'[t].op = jobs[t].op /\ jobs'[t].keyed = jobs[t].keyed /\ jobs'[t].at = jobs[t].at
    BY <2>1, FewerRequests
  <2>3. \A t \in Slots : ~Waited(t)'
    BY <2>1, NobodyWaits DEF TypeInv
  <2>4. jobs[s].op = call.op
    BY <2>1 DEF WaitInv
  <2>5. /\ keys'["deactivate"] \in {keys["deactivate"], "over"}
        /\ call' # Idle => call'.op \notin {"activate", "deactivate"} \/
                             (call'.op = call.op /\ call'.keyed = call.keyed /\ keys' = keys)
        /\ outcome'.op = "deactivate" /\ outcome'.how = "returned" => end.answer.kind = "ok" /\ call.op = "deactivate"
    <3>1. CASE Repeat(end)
      BY <2>1, <3>1 DEF Repeat, Quiet, Nothing, Calls
    <3>2. CASE Succeeded(end.answer)
      <4>1. keys' = keys \/ keys' = [keys EXCEPT ![call.op] = "over"]
        BY <3>2 DEF Succeeded, Fulfilled
      <4> QED
        BY <3>2, <4>1 DEF Succeeded, Good, Returned, End, TypeInv, ClientType, Keyed
    <3>3. CASE Offline \/ Failed
      BY <3>3 DEF Offline, Failed, End
    <3>4. CASE call.op = "reserve" /\ NodeReserved(end.answer)
      BY <2>1, <3>4 DEF NodeReserved, Quiet, Nothing, Calls
    <3>5. CASE Continue("release", Unsure(end))
      BY <2>1, <3>5 DEF Continue, Quiet, Nothing, Calls
    <3> QED
      BY <2>1, <3>1, <3>2, <3>3, <3>4, <3>5 DEF Finishing
  <2>6. DeactivatedIsUnbound'
    BY <2>1, <2>4, <2>5 DEF DeactivatedIsUnbound, LooseInv, Loose
  <2>7. \A t \in Slots : jobs[t] # Null /\ jobs[t].op = "deactivate" /\ jobs[t].at = "ran" /\ keys["deactivate"] = "tried" => Loose
    BY DEF LooseInv
  <2> QED
    BY <2>1, <2>2, <2>3, <2>5, <2>6, <2>7 DEF LooseInv, Loose
<1>5. CASE NodeWork
  <2>1. /\ call \in Calls /\ call # Idle /\ UNCHANGED <<jobs, saved, card, late, keys>> /\ outcome'.op = "none"
        /\ call'.op \notin {"activate", "deactivate"}
    <3>1. call \in Calls /\ call # Idle /\ UNCHANGED serverVars /\ (Continue("confirm", FALSE) \/ Continue("release", FALSE))
      BY <1>5 DEF NodeWork, TypeInv, ClientType
    <3>2. CASE Continue("confirm", FALSE)
      BY <3>1, <3>2 DEF Continue, Calls, serverVars, Quiet, Nothing
    <3>3. CASE Continue("release", FALSE)
      BY <3>1, <3>3 DEF Continue, Calls, serverVars, Quiet, Nothing
    <3> QED
      BY <3>1, <3>2, <3>3
  <2> QED
    BY <2>1 DEF LooseInv, Loose, Waited, DeactivatedIsUnbound
<1>6. CASE GivenUp
  <2>1. /\ call' = Idle /\ UNCHANGED <<keys, saved, card, late>> /\ outcome'.how # "returned"
    BY <1>6 DEF GivenUp, Nothing, End, server, database
  <2>2. \A t \in Slots : /\ ~Waited(t)'
                         /\ jobs'[t] # Null => jobs[t] # Null /\ jobs'[t].op = jobs[t].op
                                               /\ jobs'[t].keyed = jobs[t].keyed /\ jobs'[t].at = jobs[t].at
    BY <1>6, GivenUpRequests
  <2> QED
    BY <2>1, <2>2 DEF LooseInv, Loose, DeactivatedIsUnbound
<1>7. CASE ClearLocal \/ SetClock
  BY <1>7 DEF ClearLocal, SetClock, serverVars, LooseInv, Loose, Waited, DeactivatedIsUnbound, Quiet, Nothing
<1>8. CASE Serving
  BY <1>8, ServingLoose
<1>9. CASE Outside
  <2>1. UNCHANGED <<call, keys, jobs, saved, late>> /\ outcome'.op = "none"
    BY <1>9 DEF Outside, ClientWaits, Quiet, Nothing, Administrate, Tick, Expire, server, database
  <2>2. Loose => Loose'
    <3>1. \/ card' = card
          \/ \E version : card' = [card EXCEPT !.barred = TRUE, !.version = version]
          \/ card' = [card EXCEPT !.barred = FALSE]
          \/ \E version : card' = [card EXCEPT !.bound = FALSE, !.version = version]
      BY <1>9 DEF Outside, Administrate, Tick, Expire, server, database
    <3>2. card' = card \/ card'.bound = card.bound \/ ~card'.bound
      <4>1. card \in [barred : BOOLEAN, expires : Expiries, grace : Graces, bound : BOOLEAN, version : Nat, rebinds : Nat]
        BY DEF TypeInv, ServerType
      <4>2. ASSUME NEW version, card' = [card EXCEPT !.barred = TRUE, !.version = version] PROVE card'.bound = card.bound
        BY <4>1, <4>2
      <4>3. ASSUME NEW version, card' = [card EXCEPT !.bound = FALSE, !.version = version] PROVE ~card'.bound
        BY <4>1, <4>3
      <4>4. card' = [card EXCEPT !.barred = FALSE] => card'.bound = card.bound
        BY <4>1
      <4> QED
        BY <3>1, <4>2, <4>3, <4>4
    <3> QED
      BY <2>1, <3>2 DEF Loose
  <2> QED
    BY <2>1, <2>2 DEF LooseInv, Waited, DeactivatedIsUnbound
<1>10. CASE UNCHANGED vars
  BY <1>10 DEF vars, serverVars, clientVars, LooseInv, Loose, Waited, DeactivatedIsUnbound
<1> QED
  BY <1>1, <1>2, <1>3, <1>4, <1>5, <1>6, <1>7, <1>8, <1>9, <1>10, Steps

(* deactivate returns, on an answer of the endpoint, only when the device is
   unbound, though its yes may come from an idempotency record or from the
   request before, unless an activation that was given up has bound the device
   again (client.ts:89-107, open.controller.ts:161-187). *)
THEOREM ReturnedDeactivateUnbinds == Spec => []DeactivatedIsUnbound
<1>1. LooseInv => DeactivatedIsUnbound
  BY DEF LooseInv
<1> QED
  BY TypeInit, WaitInit, TypeStep, LooseInit, LooseStep, <1>1, PTL DEF Spec

-----------------------------------------------------------------------------
(* Offline use: a licence that is kept, if it has a grace, was granted by the
   server as the card is, no later than the server last said yes, or a record did
   within its retention; its time is the device's, and what the clock is ahead of
   the server's can only have become less by being set back.                   *)

Since(at) == at <= vouched.at + (IF vouched.cached THEN Retention ELSE 0)
Matches(grant) == grant.expires = card.expires /\ grant.grace = card.grace
Marked(state) == state.at - (skew + back)
Kept(state) ==
  \/ state.grace \in {0, Null}
  \/ vouched # Null /\ Matches(state) /\ Marked(state) <= now /\ Since(Marked(state))
Granted(job) == job.op \in {"activate", "verify"} /\ job.at \in {"ran", "done"} /\ job.answer.kind = "ok"

OfflineInv ==
  /\ vouched \in Vouchers \cup {Null}
  /\ vouched # Null => vouched.at <= now
  /\ Readable => Kept(file)
  /\ call # Idle /\ call.op = "verify" => Kept(call.state)
  /\ \A s \in Slots :
       jobs[s] # Null /\ Granted(jobs[s]) => vouched # Null /\ Matches(jobs[s].answer.body) /\ Since(now)
  /\ \A s \in Slots :
       jobs[s] # Null /\ jobs[s].op = "activate" /\ jobs[s].at = "ran" => vouched # Null /\ now <= vouched.at
  /\ saved["activate"] # Null =>
       /\ vouched # Null /\ Matches(saved["activate"].body)
       /\ saved["activate"].until <= vouched.at + Retention

LEMMA OfflineInit == Init => OfflineInv
<1> SUFFICES ASSUME Init PROVE OfflineInv
  OBVIOUS
<1>1. /\ now = 0 /\ skew = 0 /\ back = 0 /\ jobs = [s \in Slots |-> Null] /\ saved = [op \in Keyed |-> Null] /\ call = Idle
      /\ vouched = IF program = "metered" THEN [at |-> now, cached |-> FALSE] ELSE Null
      /\ file = IF program = "metered" THEN Record(Grant) ELSE Absent
  BY DEF Init, ServerInit
<1>2. CASE program = "metered"
  <2>1. vouched = [at |-> 0, cached |-> FALSE] /\ file = Record(Grant) /\ vouched \in Vouchers
    BY <1>1, <1>2 DEF Vouchers
  <2>2. vouched # Null
    BY <2>1, NullIsNone
  <2>3. vouched.at <= now
    BY <1>1, <2>1
  <2>4. Kept(file)
    <3>1. Matches(file) /\ Marked(file) = 0
      BY <1>1, <2>1 DEF Matches, Marked, Record, Local, Grant
    <3>2. Since(0)
      BY <2>1 DEF Since
    <3> QED
      BY <1>1, <2>2, <3>1, <3>2 DEF Kept
  <2> QED
    BY <1>1, <2>1, <2>2, <2>3, <2>4 DEF OfflineInv, Keyed
<1>3. CASE program # "metered"
  BY <1>1, <1>3 DEF OfflineInv, Readable, Keyed
<1> QED
  BY <1>2, <1>3

(* The server says yes, or a record does: nothing that was granted is forgotten. *)
Grown == \/ vouched' = vouched
         \/ vouched # Null /\ vouched' = [vouched EXCEPT !.cached = TRUE]
         \/ vouched' = [at |-> now, cached |-> FALSE]

LEMMA GrownKeeps ==
  ASSUME TypeInv, OfflineInv, Grown, UNCHANGED <<now, device>>, card'.expires = card.expires, card'.grace = card.grace
  PROVE  /\ vouched' \in Vouchers \cup {Null}
         /\ vouched' # Null => vouched'.at <= now
         /\ \A state \in Licences : Kept(state) => Kept(state)'
         /\ \A grant : Matches(grant) => Matches(grant)'
         /\ vouched # Null /\ Since(now) => vouched' # Null /\ Since(now)'
         /\ vouched # Null /\ now <= vouched.at => vouched' # Null /\ now <= vouched'.at
         /\ \A until \in Nat : vouched # Null /\ until <= vouched.at + Retention
                               => vouched' # Null /\ until <= vouched'.at + Retention
<1>1. now \in Nat /\ Retention \in Nat /\ (vouched = Null \/ vouched \in Vouchers)
  BY NullIsNone DEF TypeInv, ServerType, OfflineInv
<1>2. \A state \in Licences : Marked(state) \in Int /\ Marked(state)' = Marked(state)
  BY DEF Licences, Marked, TypeInv, ClientType, device
<1>3. CASE vouched' = vouched
  <2>1. \A state \in Licences : Kept(state) => Kept(state)'
    BY <1>2, <1>3 DEF Kept, Matches, Since
  <2> QED
    BY <1>1, <1>3, <2>1 DEF OfflineInv, Matches, Since
<1>4. CASE vouched # Null /\ vouched' = [vouched EXCEPT !.cached = TRUE]
  <2>1. /\ vouched' \in Vouchers /\ vouched' # Null /\ vouched'.at = vouched.at /\ vouched'.cached
        /\ vouched.at \in Nat /\ vouched.at <= now
    BY <1>1, <1>4, NullIsNone DEF Vouchers, OfflineInv
  <2> QED
    BY <1>1, <1>2, <2>1 DEF Kept, Matches, Since
<1>5. CASE vouched' = [at |-> now, cached |-> FALSE]
  <2>1. vouched' \in Vouchers /\ vouched'.at = now /\ vouched'.cached = FALSE
    BY <1>1, <1>5 DEF Vouchers
  <2>3. vouched' # Null
    BY <2>1, NullIsNone
  <2>2. vouched # Null => vouched.at \in Nat /\ vouched.at <= now
    BY <1>1 DEF Vouchers, OfflineInv
  <2> QED
    BY <1>1, <1>2, <2>1, <2>2, <2>3 DEF Kept, Matches, Since
<1> QED
  BY <1>3, <1>4, <1>5 DEF Grown

(* A request moves on at the server. *)
LEMMA OfflineFrame ==
  ASSUME TypeInv, OfflineInv, Grown, UNCHANGED <<now, device, file, call>>,
         card'.expires = card.expires, card'.grace = card.grace,
         saved'["activate"] \in {Null, saved["activate"]} \/
           /\ vouched' # Null /\ Matches(saved["activate"].body)'
           /\ saved'["activate"].until <= vouched'.at + Retention,
         NEW s \in Slots, jobs[s] # Null,
         \A t \in Slots \ {s} : jobs'[t] = jobs[t],
         jobs'[s] # Null =>
           /\ Granted(jobs'[s]) => vouched' # Null /\ Matches(jobs[s].answer.body)' /\ Since(now)'
           /\ jobs'[s].op = "activate" /\ jobs'[s].at = "ran" => vouched' # Null /\ now' <= vouched'.at
  PROVE  OfflineInv'
<1>1. Readable => file \in Licences
  BY DEF Readable, TypeInv, ClientType
<1>2. call # Idle /\ call.op = "verify" => call.state \in Licences
  BY DEF TypeInv, ClientType, CallShape
<1>3. saved["activate"] # Null => saved["activate"].until \in Nat
  BY DEF TypeInv, ServerType, Keyed, Records
<1>4. (Readable => Kept(file))' /\ (call # Idle /\ call.op = "verify" => Kept(call.state))'
  BY <1>1, <1>2, GrownKeeps DEF OfflineInv, Readable, Kept, Matches, Marked, Since, device
<1>5. ASSUME NEW t \in Slots, jobs'[t] # Null, Granted(jobs'[t])
      PROVE  vouched' # Null /\ Matches(jobs[t].answer.body)' /\ Since(now)'
  <2>1. CASE t = s
    BY <1>5, <2>1
  <2>2. CASE t # s
    <3>1. jobs'[t] = jobs[t] /\ vouched # Null /\ Matches(jobs[t].answer.body) /\ Since(now)
      BY <1>5, <2>2 DEF OfflineInv
    <3> QED
      BY <3>1, GrownKeeps DEF Matches
  <2> QED
    BY <2>1, <2>2
<1>6. \A t \in Slots : (jobs[t] # Null /\ jobs[t].op = "activate" /\ jobs[t].at = "ran" => vouched # Null /\ now <= vouched.at)'
  BY GrownKeeps DEF OfflineInv
<1>7. (saved["activate"] # Null => /\ vouched # Null /\ Matches(saved["activate"].body)
                                   /\ saved["activate"].until <= vouched.at + Retention)'
  <2>1. CASE saved'["activate"] = saved["activate"] /\ saved["activate"] # Null
    <3>1. vouched # Null /\ Matches(saved["activate"].body) /\ saved["activate"].until <= vouched.at + Retention
      BY <2>1 DEF OfflineInv
    <3> QED
      BY <1>3, <2>1, <3>1, GrownKeeps DEF Matches
  <2>2. CASE ~(saved'["activate"] = saved["activate"] /\ saved["activate"] # Null)
    BY <2>2
  <2> QED
    BY <2>1, <2>2
<1>8. (vouched \in Vouchers \cup {Null} /\ (vouched # Null => vouched.at <= now))'
  BY GrownKeeps
<1> QED
  BY <1>4, <1>5, <1>6, <1>7, <1>8 DEF OfflineInv, Granted

LEMMA ServingOffline == TypeInv /\ OfflineInv /\ Serving => OfflineInv'
<1> SUFFICES ASSUME TypeInv, OfflineInv, UNCHANGED <<device, call, file>>,
                    NEW s \in Slots,
                    \/ Lookup(s) \/ Save(s) \/ RunActivate(s) \/ RunVerify(s) \/ RunDeactivate(s)
                    \/ RunReserve(s) \/ ReadRsv(s) \/ WriteRsv(s)
             PROVE  OfflineInv'
  BY DEF Serving, Serve, ClientWaits
<1> DEFINE job == jobs[s]
<1>1. /\ job # Null /\ job \in Requests /\ RequestShape(job) /\ saved \in [Keyed -> Records \cup {Null}]
      /\ card \in [barred : BOOLEAN, expires : Expiries, grace : Graces, bound : BOOLEAN, version : Nat, rebinds : Nat]
      /\ now \in Nat /\ Retention \in Nat
  BY NullIsNone
     DEF Lookup, Save, RunActivate, RunVerify, RunDeactivate, RunReserve, ReadRsv, WriteRsv, Ready, At, TypeInv, JobsType,
         ServerType
<1>2. ASSUME NEW place, NEW answer, Turns(s, place, answer)
      PROVE  /\ \A t \in Slots \ {s} : jobs'[t] = jobs[t]
             /\ jobs'[s] # Null => jobs'[s].op = job.op /\ jobs'[s].at = place /\ jobs'[s].answer = answer
  BY <1>1, <1>2 DEF Turns, Requests
(* What is no yes of activate or verify adds nothing. *)
<1>3. ASSUME Grown, now' = now, card'.expires = card.expires, card'.grace = card.grace,
             saved'["activate"] \in {Null, saved["activate"]},
             NEW place, NEW answer, Turns(s, place, answer),
             job.op \notin {"activate", "verify"} \/ place \notin {"ran", "done"} \/ (place = "done" /\ answer.kind # "ok")
      PROVE  OfflineInv'
  BY <1>1, <1>2, <1>3, OfflineFrame DEF Granted
<1>4. CASE Lookup(s)
  <2>1. job.keyed /\ job.op \in Keyed /\ UNCHANGED <<now, card>>
    BY <1>1, <1>4 DEF Lookup, At, RequestShape
  <2>2. CASE ~Hit(s)
    <3>1. Turns(s, "missed", job.answer) /\ saved' = [saved EXCEPT ![job.op] = Null] /\ vouched' = vouched
      BY <1>1, <1>4, <2>2, MoveTurns DEF Lookup, TypeInv
    <3>2. saved'["activate"] \in {Null, saved["activate"]}
      BY <1>1, <3>1 DEF Keyed
    <3> QED
      BY <1>3, <2>1, <3>1, <3>2 DEF Grown
  <2>3. CASE Hit(s) /\ ~(job.op = "activate" /\ saved[job.op].version = job.version)
    <3>1. saved' = saved /\ vouched' = vouched
      BY <1>4, <2>3 DEF Lookup
    <3>2. \E answer : Done(s, answer) /\ (job.op = "activate" => answer.kind # "ok")
      BY <1>4, <2>3 DEF Lookup, No
    <3>3. PICK answer : Turns(s, "done", answer) /\ (job.op = "activate" => answer.kind # "ok")
      BY <1>1, <3>2, DoneTurns DEF TypeInv
    <3> QED
      BY <1>3, <2>1, <3>1, <3>3 DEF Grown, Keyed
  <2>4. CASE Hit(s) /\ job.op = "activate" /\ saved[job.op].version = job.version
    <3> DEFINE found == saved["activate"]
    <3>1. /\ saved' = saved /\ vouched' = [vouched EXCEPT !.cached = TRUE] /\ Done(s, Yes(found.body))
          /\ found # Null /\ now <= found.until
      BY <1>4, <2>4 DEF Lookup, Hit
    <3>2. Turns(s, "done", Yes(found.body))
      BY <1>1, <3>1, DoneTurns DEF TypeInv
    <3>3. vouched # Null /\ vouched \in Vouchers /\ Matches(found.body) /\ found.until <= vouched.at + Retention
      BY <3>1 DEF OfflineInv
    <3>4. found.until \in Nat /\ vouched.at \in Nat
      BY <1>1, <3>1, <3>3 DEF Keyed, Records, Vouchers
    <3>5. vouched'.cached = TRUE /\ vouched'.at = vouched.at /\ vouched' \in Vouchers
      BY <3>1, <3>3 DEF Vouchers
    <3>6. vouched' # Null
      BY <3>5, NullIsNone
    <3>7. Since(now)'
      BY <1>1, <2>1, <3>1, <3>3, <3>4, <3>5 DEF Since
    <3>8. Grown
      BY <3>1, <3>3 DEF Grown
    <3>9. jobs'[s] # Null => /\ Matches(jobs[s].answer.body)'
                             /\ jobs'[s].at = "done"
      <4>1. jobs'[s] # Null => jobs'[s].answer.body = found.body /\ jobs'[s].at = "done"
        BY <1>2, <3>2 DEF Yes
      <4> QED
        BY <2>1, <3>3, <4>1 DEF Matches
    <3> QED
      BY <1>1, <1>2, <2>1, <3>1, <3>2, <3>6, <3>7, <3>8, <3>9, OfflineFrame
  <2> QED
    BY <2>2, <2>3, <2>4
<1>5. CASE Save(s)
  <2>1. Turns(s, "done", job.answer) /\ job.at = "ran" /\ job.keyed /\ job.op \in Keyed /\ UNCHANGED <<now, card, vouched>>
    BY <1>1, <1>5, DoneTurns DEF Save, At, TypeInv, RequestShape
  <2>2. Grown
    BY <2>1 DEF Grown
  <2>3. CASE job.op # "activate"
    <3>1. saved'["activate"] = saved["activate"]
      BY <1>1, <1>5, <2>3 DEF Save
    <3> QED
      BY <1>3, <2>1, <2>2, <2>3, <3>1 DEF Keyed
  <2>4. CASE job.op = "activate"
    <3>1. vouched # Null /\ Matches(job.answer.body) /\ Since(now) /\ now <= vouched.at
      BY <1>1, <2>1, <2>4 DEF OfflineInv, Granted, RequestShape
    <3>2. vouched.at \in Nat
      BY <3>1 DEF OfflineInv, Vouchers
    <3>3. saved'["activate"] = saved["activate"] \/
            saved'["activate"] = [version |-> job.version, body |-> job.answer.body, until |-> now + Retention]
      BY <1>1, <1>5, <2>4 DEF Save
    <3>4. saved'["activate"] \in {Null, saved["activate"]} \/
            /\ vouched' # Null /\ Matches(saved["activate"].body)'
            /\ saved'["activate"].until <= vouched'.at + Retention
      BY <1>1, <2>1, <3>1, <3>2, <3>3 DEF Matches
    <3>5. jobs'[s] # Null => /\ Matches(jobs[s].answer.body)' /\ jobs'[s].at = "done"
      BY <1>2, <2>1, <3>1 DEF Matches
    <3>6. vouched' # Null /\ Since(now)'
      BY <2>1, <3>1 DEF Since
    <3> QED
      BY <1>1, <1>2, <2>1, <2>2, <3>4, <3>5, <3>6, OfflineFrame
  <2> QED
    BY <2>3, <2>4
<1>6. CASE RunActivate(s) \/ RunVerify(s)
  <2>1. UNCHANGED <<now, saved>> /\ card'.expires = card.expires /\ card'.grace = card.grace
    BY <1>1, <1>6 DEF RunActivate, RunVerify
  <2>2. CASE Answer(s, No) /\ vouched' = vouched
    <3>1. Turns(s, "done", No)
      BY <1>1, <2>2, DoneTurns DEF Answer, No, TypeInv
    <3> QED
      BY <1>3, <2>1, <2>2, <3>1 DEF Grown, No
  <2>3. CASE Answer(s, Yes(Grant)) /\ vouched' = [at |-> now, cached |-> FALSE]
    <3>1. PICK place : Turns(s, place, Yes(Grant))
      BY <1>1, <2>3, AnswerTurns DEF TypeInv
    <3>2. vouched' \in Vouchers /\ vouched'.at = now /\ vouched'.cached = FALSE
      BY <1>1, <2>3 DEF Vouchers
    <3>3. vouched' # Null
      BY <3>2, NullIsNone
    <3>4. Since(now)'
      BY <1>1, <2>1, <3>2 DEF Since
    <3>5. jobs'[s] # Null => Matches(jobs[s].answer.body)'
      <4>1. jobs'[s] # Null => jobs'[s].answer.body = Grant
        BY <1>2, <3>1 DEF Yes
      <4> QED
        BY <2>1, <4>1 DEF Matches, Grant
    <3>6. Grown
      BY <2>3 DEF Grown
    <3>7. now' <= vouched'.at
      BY <1>1, <2>1, <3>2
    <3> QED
      BY <1>1, <1>2, <2>1, <3>1, <3>3, <3>4, <3>5, <3>6, <3>7, OfflineFrame
  <2> QED
    BY <1>6, <2>2, <2>3 DEF RunActivate, RunVerify, Vouch
<1>7. CASE RunDeactivate(s) \/ RunReserve(s) \/ ReadRsv(s) \/ WriteRsv(s)
  <2>1. job.op \notin {"activate", "verify"} /\ UNCHANGED <<now, saved, vouched>>
    BY <1>1, <1>7 DEF RunDeactivate, RunReserve, ReadRsv, WriteRsv, At, RequestShape, server, database
  <2>2. card'.expires = card.expires /\ card'.grace = card.grace
    <3>1. card' = card \/ card' = [card EXCEPT !.bound = FALSE, !.version = @ + 1, !.rebinds = @ + 1]
      BY <1>7 DEF RunDeactivate, RunReserve, ReadRsv, WriteRsv, server, database
    <3> QED
      BY <1>1, <3>1
  <2>3. PICK place, answer : Turns(s, place, answer)
    BY <1>1, <1>7, DoneTurns, MoveTurns, AnswerTurns DEF RunDeactivate, RunReserve, ReadRsv, WriteRsv, TypeInv
  <2> QED
    BY <1>3, <2>1, <2>2, <2>3 DEF Grown
<1> QED
  BY <1>4, <1>5, <1>6, <1>7

(* The server's side of the world stands still, and no request is added that has
   an answer.                                                                  *)
LEMMA OfflineStill ==
  ASSUME OfflineInv, UNCHANGED <<now, vouched, saved>>, card'.expires = card.expires, card'.grace = card.grace,
         \A t \in Slots : jobs'[t] # Null =>
           \/ Fresh(jobs'[t])
           \/ jobs[t] # Null /\ jobs'[t].op = jobs[t].op /\ jobs'[t].at = jobs[t].at /\ jobs'[t].answer = jobs[t].answer,
         (Readable => Kept(file))', (call # Idle /\ call.op = "verify" => Kept(call.state))'
  PROVE  OfflineInv'
<1>1. \A t \in Slots : (jobs[t] # Null /\ Granted(jobs[t]) => vouched # Null /\ Matches(jobs[t].answer.body) /\ Since(now))'
  BY DEF OfflineInv, Granted, Fresh, No, Matches, Since
<1>2. \A t \in Slots : (jobs[t] # Null /\ jobs[t].op = "activate" /\ jobs[t].at = "ran" => vouched # Null /\ now <= vouched.at)'
  BY DEF OfflineInv, Fresh
<1>3. (saved["activate"] # Null => /\ vouched # Null /\ Matches(saved["activate"].body)
                                   /\ saved["activate"].until <= vouched.at + Retention)'
  BY DEF OfflineInv, Matches
<1> QED
  BY <1>1, <1>2, <1>3 DEF OfflineInv

LEMMA OfflineStep == TypeInv /\ WaitInv /\ OfflineInv /\ [Next]_vars => OfflineInv'
<1> SUFFICES ASSUME TypeInv, WaitInv, OfflineInv, [Next]_vars PROVE OfflineInv'
  OBVIOUS
<1>1. program = "php" /\ call # Idle => call.op \in {"activate", "verify", "deactivate"}
  BY DEF TypeInv, ClientType, CallShape
<1>2. CASE Begun
  <2>1. PICK op \in Starts, given \in BOOLEAN : Begin(op, given) /\ (op # "activate" => Readable)
    BY <1>2 DEF Begun
  <2>2. /\ call'.op = op /\ (op = "verify" => call'.state = file)
        /\ UNCHANGED <<device, file, now, jobs, card, saved, vouched>>
    BY <2>1 DEF Begin, database
  <2>3. (Readable => Kept(file))' /\ (call # Idle /\ call.op = "verify" => Kept(call.state))'
    BY <2>1, <2>2 DEF OfflineInv, Readable, Kept, Matches, Marked, Since, device
  <2> QED
    BY <2>2, <2>3, OfflineStill
<1>3. CASE Send
  <2>1. PICK s \in Slots :
               /\ \A t \in Slots \ {s} : jobs'[t] = jobs[t]
               /\ Fresh(jobs'[s]) /\ call # Idle /\ call'.op = call.op /\ call'.state = call.state
               /\ UNCHANGED <<device, file, now, card, saved, vouched>>
    BY <1>3, SendAdds DEF server, database
  <2>2. (Readable => Kept(file))' /\ (call # Idle /\ call.op = "verify" => Kept(call.state))'
    BY <2>1 DEF OfflineInv, Readable, Kept, Matches, Marked, Since, device
  <2> QED
    BY <2>1, <2>2, OfflineStill
<1>4. ASSUME NEW s \in Slots, NEW end, Answering(s, end) PROVE OfflineInv'
  <2>1. /\ call # Idle /\ call \in Calls /\ CallShape(call) /\ jobs[s] # Null /\ jobs[s].waited /\ Waited(s)
        /\ end.answer.kind = "ok" => jobs[s].at = "done" /\ end.answer = jobs[s].answer
        /\ jobs' = [jobs EXCEPT ![s] = Null] \/ jobs' = [jobs EXCEPT ![s].waited = FALSE]
        /\ UNCHANGED <<device, now, card, saved, vouched>> /\ Finishing(end)
    BY <1>4, AttemptType DEF Answering, Attempt, Waited
  <2>2. \A t \in Slots : jobs'[t] # Null =>
          jobs[t] # Null /\ jobs'[t].op = jobs[t].op /\ jobs'[t].at = jobs[t].at /\ jobs'[t].answer = jobs[t].answer
    BY <2>1, FewerRequests
  <2>3. jobs[s].op = call.op
    BY <2>1 DEF WaitInv
  <2>4. /\ call' # Idle => call'.op # "verify" \/ (call'.op = call.op /\ call'.state = call.state)
        /\ \/ file' = file \/ file' = Absent
           \/ call.op \in {"activate", "verify"} /\ end.answer.kind = "ok" /\ file' = Record(end.answer.body)
           \/ \E body \in Blanks : file' = Record(body)
    <3>1. CASE Repeat(end)
      BY <2>1, <3>1 DEF Repeat, Calls
    <3>2. CASE Succeeded(end.answer)
      BY <3>2 DEF Succeeded, End
    <3>3. CASE Offline \/ Failed
      BY <3>3 DEF Offline, Failed, End
    <3>4. CASE call.op = "reserve" /\ NodeReserved(end.answer)
      BY <2>1, <3>4 DEF NodeReserved, Calls
    <3>5. CASE Continue("release", Unsure(end))
      BY <2>1, <3>5 DEF Continue, Calls
    <3> QED
      BY <2>1, <3>1, <3>2, <3>3, <3>4, <3>5 DEF Finishing
  <2>5. (call # Idle /\ call.op = "verify" => Kept(call.state))'
    BY <2>1, <2>4 DEF OfflineInv, Kept, Matches, Marked, Since, device
  <2>6. (Readable => Kept(file))'
    <3>1. CASE file' = file \/ file' = Absent
      BY <2>1, <3>1 DEF OfflineInv, Readable, Kept, Matches, Marked, Since, device
    <3>2. CASE call.op \in {"activate", "verify"} /\ end.answer.kind = "ok" /\ file' = Record(end.answer.body)
      <4>1. vouched # Null /\ Matches(end.answer.body) /\ Since(now)
        BY <2>1, <2>3, <3>2 DEF OfflineInv, Granted
      <4>2. file'.expires = end.answer.body.expires /\ file'.grace = end.answer.body.grace /\ file'.at = now + skew
        BY <3>2 DEF Record, Local
      <4>3. /\ now \in Nat /\ back \in Nat /\ skew \in Int /\ Retention \in Nat
            /\ vouched.at \in Nat
        BY <4>1, NullIsNone DEF TypeInv, ServerType, ClientType, OfflineInv, Vouchers
      <4>4. PICK mark : mark = now - back
        OBVIOUS
      <4>5. Marked(file)' = mark /\ mark <= now /\ Since(mark)
        BY <2>1, <4>1, <4>2, <4>3, <4>4 DEF Marked, Since, device
      <4> QED
        BY <2>1, <4>1, <4>2, <4>5 DEF Kept, Matches, Since
    <3>3. CASE \E body \in Blanks : file' = Record(body)
      BY <3>3 DEF Blanks, Blank, Record, Kept
    <3> QED
      BY <2>4, <3>1, <3>2, <3>3
  <2> QED
    BY <2>1, <2>2, <2>5, <2>6, OfflineStill
<1>5. CASE NodeWork
  <2>1. /\ call \in Calls /\ UNCHANGED <<device, file, now, jobs, card, saved, vouched>>
        /\ Continue("confirm", FALSE) \/ Continue("release", FALSE)
    BY <1>5 DEF NodeWork, Continue, TypeInv, ClientType, serverVars
  <2>2. call'.op # "verify"
    BY <2>1 DEF Continue, Calls
  <2>3. (Readable => Kept(file))' /\ (call # Idle /\ call.op = "verify" => Kept(call.state))'
    BY <2>1, <2>2 DEF OfflineInv, Readable, Kept, Matches, Marked, Since, device
  <2> QED
    BY <2>1, <2>3, OfflineStill
<1>6. CASE GivenUp
  <2>1. call' = Idle /\ file' \in {file, Damaged} /\ UNCHANGED <<device, now, card, saved, vouched>>
    BY <1>6 DEF GivenUp, server, database
  <2>2. (Readable => Kept(file))' /\ (call # Idle /\ call.op = "verify" => Kept(call.state))'
    BY <2>1 DEF OfflineInv, Readable, Kept, Matches, Marked, Since, device
  <2> QED
    BY <1>6, <2>1, <2>2, GivenUpRequests, OfflineStill
<1>7. CASE ClearLocal
  <2>1. file' = Absent /\ call = Idle /\ UNCHANGED <<call, now, jobs, card, saved, vouched>>
    BY <1>7 DEF ClearLocal, serverVars
  <2>2. (Readable => Kept(file))' /\ (call # Idle /\ call.op = "verify" => Kept(call.state))'
    BY <2>1 DEF Readable
  <2> QED
    BY <2>1, <2>2, OfflineStill
<1>8. CASE Serving
  BY <1>8, ServingOffline
<1>9. CASE Outside
  <2>1. UNCHANGED <<device, file, call, jobs, saved, vouched>>
    BY <1>9 DEF Outside, ClientWaits, Administrate, Tick, Expire, server, database
  <2>2. card'.expires = card.expires /\ card'.grace = card.grace
    <3>1. card \in [barred : BOOLEAN, expires : Expiries, grace : Graces, bound : BOOLEAN, version : Nat, rebinds : Nat]
      BY DEF TypeInv, ServerType
    <3>2. CASE Administrate
      <4>1. \/ card' = [card EXCEPT !.barred = TRUE, !.version = card.version + 1]
            \/ card' = [card EXCEPT !.barred = FALSE]
            \/ card' = [card EXCEPT !.bound = FALSE, !.version = card.version + 1]
        BY <3>2 DEF Administrate
      <4> QED
        BY <3>1, <4>1
    <3>3. CASE ~Administrate
      BY <1>9, <3>3 DEF Outside, Tick, Expire, server, database
    <3> QED
      BY <3>2, <3>3
  <2>3. CASE now' = now
    <3>1. (Readable => Kept(file))' /\ (call # Idle /\ call.op = "verify" => Kept(call.state))'
      BY <2>1, <2>2, <2>3 DEF OfflineInv, Readable, Kept, Matches, Marked, Since, device
    <3> QED
      BY <2>1, <2>2, <2>3, <3>1, OfflineStill
  <2>4. CASE Tick
    <3>1. now' = now + 1 /\ now \in Nat /\ \A s \in Slots : jobs[s] = Null
      BY <2>4 DEF Tick, TypeInv, ServerType
    <3>2. \A state \in Licences : Kept(state) => Kept(state)'
      <4>1. \A state \in Licences : Marked(state) \in Int /\ Marked(state)' = Marked(state)
        BY <2>1 DEF Licences, Marked, TypeInv, ClientType, device
      <4> QED
        BY <2>1, <2>2, <3>1, <4>1 DEF Kept, Matches, Since
    <3>3. /\ Readable => file \in Licences
          /\ call # Idle /\ call.op = "verify" => call.state \in Licences
      BY DEF Readable, TypeInv, ClientType, CallShape
    <3>4. (Readable => Kept(file))' /\ (call # Idle /\ call.op = "verify" => Kept(call.state))'
      BY <2>1, <3>2, <3>3 DEF OfflineInv, Readable, Kept, Matches, Marked, Since, device
    <3>5. vouched' # Null => vouched'.at <= now'
      BY <2>1, <3>1 DEF OfflineInv, Vouchers
    <3> QED
      BY <2>1, <2>2, <3>1, <3>4, <3>5 DEF OfflineInv, Matches
  <2> QED
    BY <1>9, <2>3, <2>4 DEF Outside, Administrate, Expire
<1>10. CASE UNCHANGED vars
  BY <1>10 DEF vars, serverVars, clientVars, device, OfflineInv, Readable, Kept, Matches, Marked, Since, Granted
<1>11. CASE SetClock
  <2>1. UNCHANGED <<file, call, now, jobs, card, saved, vouched>>
    BY <1>11 DEF SetClock, serverVars
  <2>2. /\ skew \in Int /\ back \in Nat /\ skew' \in Int /\ back' \in Nat /\ skew' + back' >= skew + back
        /\ now \in Nat /\ Retention \in Nat /\ (vouched # Null => vouched.at \in Nat)
    BY <1>11, SetClockMoves, NullIsNone DEF TypeInv, ClientType, ServerType, OfflineInv, Vouchers
  <2>3. \A state \in Licences : Kept(state) => Kept(state)'
    <3>1. \A state \in Licences : Marked(state) \in Int /\ Marked(state)' \in Int /\ Marked(state)' <= Marked(state)
      <4>1. ASSUME NEW at \in Int, NEW m \in Int, NEW n \in Int, m >= n
            PROVE  at - n \in Int /\ at - m \in Int /\ at - m <= at - n
        BY <4>1
      <4>2. skew + back \in Int /\ skew' + back' \in Int
        BY <2>2
      <4>3. \A state \in Licences : state.at \in Int
        BY DEF Licences
      <4> QED
        BY <2>2, <4>1, <4>2, <4>3 DEF Marked
    <3>2. ASSUME NEW at \in Int, NEW to \in Int, to <= at, vouched # Null
          PROVE  (at <= now => to <= now) /\ (Since(at) => Since(to))
      <4>1. PICK most \in Int : most = vouched.at + (IF vouched.cached THEN Retention ELSE 0)
        BY <2>2, <3>2
      <4> QED
        BY <2>2, <3>2, <4>1 DEF Since
    <3> QED
      BY <2>1, <3>1, <3>2 DEF Kept, Matches, Since
  <2>4. /\ Readable => file \in Licences
        /\ call # Idle /\ call.op = "verify" => call.state \in Licences
    BY DEF Readable, TypeInv, ClientType, CallShape
  <2>5. (Readable => Kept(file))' /\ (call # Idle /\ call.op = "verify" => Kept(call.state))'
    BY <2>1, <2>3, <2>4 DEF OfflineInv, Readable, Kept, Matches, Marked, Since
  <2> QED
    BY <2>1, <2>5, OfflineStill
<1> QED
  BY <1>1, <1>2, <1>3, <1>4, <1>5, <1>6, <1>7, <1>8, <1>9, <1>10, <1>11, Steps

(* Only verify lets a program run without the server's answer. *)
LEMMA OfflineIsOffline ==
  TypeInv /\ WaitInv /\ [Next]_vars => outcome' = outcome \/ outcome'.how # "offline" \/ (call # Idle /\ Offline)
<1> SUFFICES ASSUME TypeInv, WaitInv, [Next]_vars PROVE outcome' = outcome \/ outcome'.how # "offline" \/ (call # Idle /\ Offline)
  OBVIOUS
<1>1. program = "php" /\ call # Idle => call.op \in {"activate", "verify", "deactivate"}
  BY DEF TypeInv, ClientType, CallShape
<1>2. CASE \E s \in Slots : \E end : Answering(s, end)
  BY <1>2 DEF Answering, Asked, Waiting, Finishing, Repeat, Succeeded, Returned, Failed, End, NodeReserved, Continue, Quiet,
              Nothing
<1>3. CASE Begun \/ Send \/ NodeWork \/ GivenUp \/ ClearLocal \/ SetClock \/ Serving \/ Outside
  BY <1>3 DEF Begun, Begin, Send, NodeWork, Continue, GivenUp, End, ClearLocal, SetClock, Serving, Outside, ClientWaits,
              Quiet, Nothing
<1> QED
  BY <1>1, <1>2, <1>3, Steps DEF vars, clientVars

(* Whoever is let in without an answer, by a licence that has a grace, was let in
   by the server within the grace the server set, and before the card ended by
   the device's clock, in all four SDKs and however the program crashed, its files
   were damaged or its answers were lost; a yes from an idempotency record may be
   older by as long as records are kept, and a clock that is set back adds what it
   was set back (client.ts:57-87, :202-221, open.controller.ts:161-187). *)
THEOREM OfflineUseIsEarned == Spec => OfflineIsEarned
<1>1. TypeInv /\ WaitInv /\ OfflineInv /\ [Next]_vars
      => [outcome'.how = "offline" => call.state.grace = Null \/ Earned]_outcome
  <2> SUFFICES ASSUME TypeInv, WaitInv, OfflineInv, call # Idle, Offline, call.state.grace # Null PROVE Earned
    BY OfflineIsOffline
  <2>1. call.state \in Licences /\ Kept(call.state) /\ MayRunOffline(call.state)
    BY DEF Offline, OfflineInv, TypeInv, ClientType, CallShape
  <2>2. /\ call.state.grace > 0 /\ Local - call.state.at <= call.state.grace
        /\ call.state.expires # Null => Local < call.state.expires
    BY <2>1 DEF MayRunOffline
  <2>3. vouched # Null /\ Matches(call.state) /\ Since(Marked(call.state))
    BY <2>1, <2>2 DEF Kept
  <2>4. now \in Nat /\ Retention \in Nat /\ vouched.at \in Nat /\ skew \in Int /\ back \in Nat
    BY <2>3, NullIsNone DEF OfflineInv, Vouchers, TypeInv, ServerType, ClientType
  <2>5. call.state.at \in Int /\ card.grace \in Nat
    BY <2>1, LicenseServerAssumption DEF Licences, LicenseServerAssumption, TypeInv, ServerType
  <2> QED
    BY <2>2, <2>3, <2>4, <2>5 DEF Matches, Marked, Since, Local, Earned
<1> QED
  BY TypeInit, WaitInit, TypeStep, OfflineInit, OfflineStep, <1>1, PTL DEF Spec, OfflineIsEarned

=============================================================================
