----------------------------- MODULE LicenseServer -----------------------------
(***************************************************************************)
(* The licensing server as one device's SDK meets it: one card, requests   *)
(* that go on when nobody waits for them any more, idempotency keys and    *)
(* reservations. Licensing and Consume look inside activate and reserve;   *)
(* here each is one step, but confirm and release keep their two.          *)
(***************************************************************************)
EXTENDS Integers, FiniteSets

CONSTANTS
  Null,         \* no date, no answer
  Graces,       \* offline_grace_hours a card may have
  Expiries,     \* dates a card may end at, or Null
  Retention,    \* hours an idempotency record is kept
  RebindLimit,  \* unbindings the card allows
  Slots,        \* bound: requests at the server at a time
  Rsvs,         \* bound: reservations of a device
  MaxVersion,   \* bound: no administrator acts at a higher tokenVersion
  MaxTime       \* bound: the last hour

(* What activate and verify grant, what is kept under a key, and a request. *)
Grants   == [version : Nat, expires : Expiries, grace : Graces]
Answers  == [kind : {"ok", "refused"}, body : Grants \cup Rsvs \cup {Null}]
Records  == [version : Nat, body : Grants \cup {Null}, until : Nat]
Vouchers == [at : Nat, cached : BOOLEAN]
Requests ==
  [op : {"activate", "verify", "deactivate", "reserve", "confirm", "release"},
   keyed : BOOLEAN, version : Nat, rsv : Rsvs \cup {Null},
   at : {"sent", "missed", "ran", "read", "done"}, answer : Answers \cup {Null}, waited : BOOLEAN]

ASSUME LicenseServerAssumption ==
  /\ Graces \subseteq Nat /\ Expiries \subseteq Nat \cup {Null}
  /\ Null \notin Nat \cup Records \cup Vouchers \cup Requests
  /\ Retention \in Nat /\ RebindLimit \in Nat /\ Rsvs \subseteq Nat /\ MaxVersion \in Nat
  /\ IsFiniteSet(Slots) /\ MaxTime \in Nat

VARIABLES
  now,      \* the hour
  card,     \* status, date, grace, binding and tokenVersion of card and device
  saved,    \* endpoint -> the idempotency record of its one key, or Null
  rsv,      \* reservation -> its status and how often it was charged
  jobs,     \* slot -> a request at the server, or Null
  vouched,  \* history: when activate or verify last said yes to this device
            \*   and whether since then an idempotency record did
  charged,  \* history: unbindings charged to requests with the key
  unguarded, \* history: a request with a key had no record to meet: the one
            \*   before was still running, was lost unsaved, or its record expired
  late      \* history: an activation that was given up bound the device, in the
            \*   current call or since the key to deactivate was first tried

database == <<card, saved, rsv, vouched, charged, unguarded>>
server == <<database, late>>
serverVars == <<now, card, saved, rsv, jobs, vouched, charged, unguarded, late>>

Keyed == {"activate", "deactivate"}

(* A card not yet activated, or one activated on this device. *)
ServerInit(bound) ==
  /\ now = 0
  /\ card \in [barred : {FALSE}, expires : Expiries, grace : Graces, bound : {bound},
               version : {0}, rebinds : {0}]
  /\ saved = [op \in Keyed |-> Null]
  /\ rsv = [r \in Rsvs |-> [status |-> "none", charges |-> 0]]
  /\ jobs = [s \in Slots |-> Null]
  /\ vouched = (IF bound THEN [at |-> now, cached |-> FALSE] ELSE Null) /\ charged = 0 /\ unguarded = FALSE /\ late = FALSE

Usable == ~card.barred /\ (card.expires # Null => now < card.expires)

(* What activate and verify answer; the token is the tokenVersion in it. *)
Grant == [version |-> card.version, expires |-> card.expires, grace |-> card.grace]
Yes(body) == [kind |-> "ok", body |-> body]
No == [kind |-> "refused", body |-> Null]

At(s, place) == jobs[s] # Null /\ jobs[s].at = place
Move(s, place) == jobs' = [jobs EXCEPT ![s].at = place]

(* An answer nobody waits for is gone. *)
Done(s, answer) ==
  jobs' = [jobs EXCEPT ![s] = IF @.waited THEN [@ EXCEPT !.at = "done", !.answer = answer] ELSE Null]

-----------------------------------------------------------------------------
(* withIdempotency: look up, run, save, in three steps. *)

(* Mutant of Hit: the test of the record's time turned round. *)
HitExpired(s) == LET job == jobs[s] IN saved[job.op] # Null /\ now > saved[job.op].until

(* A record found after its time is deleted. *)
Hit(s) == LET job == jobs[s] IN saved[job.op] # Null /\ now <= saved[job.op].until

Lookup(s) ==
  /\ At(s, "sent") /\ jobs[s].keyed
  /\ LET job == jobs[s]
         found == saved[job.op]
     IN  IF Hit(s)
         THEN /\ Done(s, IF found.version = job.version THEN Yes(found.body) ELSE No)
              /\ vouched' = IF job.op = "activate" /\ found.version = job.version
                            THEN [vouched EXCEPT !.cached = TRUE] ELSE vouched
              /\ UNCHANGED <<saved, unguarded>>
         ELSE /\ Move(s, "missed")
              /\ saved' = [saved EXCEPT ![job.op] = Null]
              /\ unguarded' = \/ unguarded
                              \/ found # Null /\ now > found.until
                              \/ \E t \in Slots \ {s} :
                                   /\ jobs[t] # Null /\ jobs[t].op = job.op /\ jobs[t].keyed
                                   /\ jobs[t].at \in {"missed", "ran"}
              /\ UNCHANGED vouched
  /\ UNCHANGED <<now, card, rsv, charged, late>>

Save(s) ==
  /\ At(s, "ran")
  /\ LET job == jobs[s]
     IN  /\ Done(s, job.answer)
         /\ saved' = IF saved[job.op] = Null
                     THEN [saved EXCEPT ![job.op] =
                             [version |-> job.version, body |-> job.answer.body,
                              until |-> now + Retention]]
                     ELSE saved
  /\ UNCHANGED <<now, card, rsv, vouched, charged, unguarded, late>>

(* The operation answers; its answer is still to be saved under the key. *)
Ready(s) == At(s, IF jobs[s].keyed THEN "missed" ELSE "sent")
Answer(s, answer) ==
  IF jobs[s].keyed /\ answer.kind = "ok"
  THEN jobs' = [jobs EXCEPT ![s].at = "ran", ![s].answer = answer]
  ELSE Done(s, answer)
Vouch == vouched' = [at |-> now, cached |-> FALSE]

-----------------------------------------------------------------------------
(* The endpoints. *)

RunActivate(s) ==
  /\ Ready(s) /\ jobs[s].op = "activate"
  /\ IF Usable
     THEN /\ card' = [card EXCEPT !.bound = TRUE]
          /\ Answer(s, Yes(Grant)) /\ Vouch
          /\ late' = (late \/ ~jobs[s].waited)
     ELSE Answer(s, No) /\ UNCHANGED <<card, vouched, late>>
  /\ UNCHANGED <<now, saved, rsv, charged, unguarded>>

RunVerify(s) ==
  /\ Ready(s) /\ jobs[s].op = "verify"
  /\ IF Usable /\ card.bound /\ jobs[s].version = card.version
     THEN Answer(s, Yes(Grant)) /\ Vouch
     ELSE Answer(s, No) /\ UNCHANGED vouched
  /\ UNCHANGED <<now, card, saved, rsv, charged, unguarded, late>>

(* The token only says which card: its tokenVersion is not compared. *)
RunDeactivate(s) ==
  /\ Ready(s) /\ jobs[s].op = "deactivate"
  /\ IF card.bound /\ card.rebinds < RebindLimit
     THEN /\ card' = [card EXCEPT !.bound = FALSE, !.version = @ + 1, !.rebinds = @ + 1]
          /\ charged' = charged + (IF jobs[s].keyed THEN 1 ELSE 0)
          /\ Answer(s, Yes(Null))
     ELSE Answer(s, No) /\ UNCHANGED <<card, charged>>
  /\ UNCHANGED <<now, saved, rsv, vouched, unguarded, late>>

(* No request_id: every attempt freezes anew. The quota may be used up. *)
RunReserve(s) ==
  /\ Ready(s) /\ jobs[s].op = "reserve"
  /\ \/ /\ Usable /\ card.bound /\ jobs[s].version = card.version
        /\ \E r \in Rsvs : /\ rsv[r].status = "none"
                           /\ \A q \in Rsvs : q < r => rsv[q].status # "none"
                           /\ rsv' = [rsv EXCEPT ![r].status = "frozen"]
                           /\ Answer(s, Yes(r))
     \/ Answer(s, No) /\ UNCHANGED rsv
  /\ UNCHANGED <<now, card, saved, vouched, charged, unguarded, late>>

(* confirm and release read the row, then write it by its id. *)
ReadRsv(s) ==
  /\ Ready(s) /\ jobs[s].op \in {"confirm", "release"}
  /\ LET status == rsv[jobs[s].rsv].status
         already == IF jobs[s].op = "confirm" THEN {"spent"} ELSE {"refunded"}
     IN  IF status = "frozen" THEN Move(s, "read")
         ELSE Done(s, IF status \in already THEN Yes(Null) ELSE No)
  /\ UNCHANGED <<now, server>>

(* Mutant of WriteRsv: takes the job for a confirm whatever it is. *)
WriteRsvAsConfirm(s) ==
  /\ At(s, "read")
  /\ rsv' = [rsv EXCEPT ![jobs[s].rsv] = [status |-> "spent", charges |-> 1]]
  /\ Done(s, Yes(Null))
  /\ UNCHANGED <<now, card, saved, vouched, charged, unguarded, late>>

WriteRsv(s) ==
  /\ At(s, "read")
  /\ LET r == jobs[s].rsv
     IN  rsv' = IF jobs[s].op = "confirm"
                THEN [rsv EXCEPT ![r] = [status |-> "spent", charges |-> @.charges + 1]]
                ELSE [rsv EXCEPT ![r].status = "refunded"]
  /\ Done(s, Yes(Null))
  /\ UNCHANGED <<now, card, saved, vouched, charged, unguarded, late>>

(* The expiry task. *)
Expire(r) ==
  /\ rsv[r].status = "frozen"
  /\ rsv' = [rsv EXCEPT ![r].status = "refunded"]
  /\ UNCHANGED <<now, card, saved, jobs, vouched, charged, unguarded, late>>

-----------------------------------------------------------------------------
(* Ban, unban and forced unbinding. *)
Administrate ==
  /\ \/ /\ card.version < MaxVersion /\ ~card.barred
        /\ card' = [card EXCEPT !.barred = TRUE, !.version = @ + 1]
     \/ /\ card.barred
        /\ card' = [card EXCEPT !.barred = FALSE]
     \/ /\ card.version < MaxVersion /\ card.bound
        /\ card' = [card EXCEPT !.bound = FALSE, !.version = @ + 1]
  /\ UNCHANGED <<now, saved, rsv, jobs, vouched, charged, unguarded, late>>

(* An hour is longer than any request. *)
Tick ==
  /\ now < MaxTime /\ \A s \in Slots : jobs[s] = Null
  /\ now' = now + 1
  /\ UNCHANGED <<jobs, server>>

Serve ==
  \E s \in Slots :
    \/ Lookup(s) \/ Save(s) \/ RunActivate(s) \/ RunVerify(s) \/ RunDeactivate(s)
    \/ RunReserve(s) \/ ReadRsv(s) \/ WriteRsv(s)

=============================================================================
