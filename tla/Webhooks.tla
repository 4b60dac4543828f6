------------------------------ MODULE Webhooks ------------------------------
(***************************************************************************)
(* Webhook deliveries (webhooks.service.ts, webhook-retry.task.ts,         *)
(* endpoints.service.ts). An event of a card becomes one delivery row per  *)
(* listening endpoint; each row is tried at once, then by a task that runs *)
(* every minute, and by hand. An attempt reads the row, waits for the      *)
(* endpoint for up to 8 seconds and writes the row back by its id, so      *)
(* attempts of one row overlap: a run of the task may last longer than a   *)
(* minute, and the next one starts beside it.                              *)
(***************************************************************************)
EXTENDS Integers, Sequences

CONSTANTS
  Events,          \* events emitted by the card services
  Endpoints,       \* rows of webhook_endpoints
  Tasks,           \* runs of the retry task in progress
  Requests,        \* administrators' redelivery requests in progress
  Null,            \* SQL NULL
  MaxAttempts,     \* webhook_deliveries.maxAttempts
  Backoff,         \* RETRY_BACKOFF, in runs of the task
  MaxFaults,       \* bound: crashes and failed database calls
  MaxRedeliveries  \* bound: redeliveries asked for

Deliveries == Events \X Endpoints

(* The first attempt of a delivery runs on its own. *)
Workers == Deliveries \cup Tasks \cup Requests

ASSUME WebhooksAssumption ==
  /\ Null \notin Nat \cup Deliveries
  /\ Deliveries \cap (Tasks \cup Requests) = {} /\ Tasks \cap Requests = {}
  /\ MaxAttempts \in Nat \ {0}
  /\ Backoff \in Seq(Nat) /\ Backoff # <<>>
  /\ MaxFaults \in Nat /\ MaxRedeliveries \in Nat

VARIABLES
  listening,     \* endpoint -> events it is enabled and subscribed for
  created,       \* endpoints that have been set up
  removed,       \* endpoints deleted, their deliveries with them
  handled,       \* events whose handler has read the endpoints
  queue,         \* event -> endpoints its handler has yet to create a row for
  status,        \* delivery -> status of its row, "none" without a row
  attempts,      \* delivery -> attempts of its row
  wait,          \* delivery -> time left until nextRetryAt, or Null
  job,           \* worker -> the attempt it is making
  todo,          \* task -> deliveries it found due and has not tried yet
  posts,         \* history: POSTs sent, counted up to MaxAttempts
  accepted,      \* history: deliveries the endpoint has answered with 2xx
  faults, redeliveries

row  == <<status, attempts, wait>>
sent == <<posts, accepted>>
cfg  == <<listening, created, removed>>
bus  == <<handled, queue>>
vars == <<cfg, bus, row, job, todo, sent, faults, redeliveries>>

Statuses == {"none", "pending", "failed", "delivered", "dead"}
Settled  == {"delivered", "dead"}

Idle == [step |-> "idle", dlv |-> Null, attempt |-> 0]
At(step, d, n) == [step |-> step, dlv |-> d, attempt |-> n]
Job  == [step : {"read", "post", "won", "lost"}, dlv : Deliveries, attempt : Nat]

Init ==
  /\ listening = [ep \in Endpoints |-> {}] /\ created = {} /\ removed = {}
  /\ handled = {} /\ queue = [e \in Events |-> {}]
  /\ status = [d \in Deliveries |-> "none"]
  /\ attempts = [d \in Deliveries |-> 0]
  /\ wait = [d \in Deliveries |-> Null]
  /\ job = [w \in Workers |-> Idle]
  /\ todo = [t \in Tasks |-> {}]
  /\ posts = [d \in Deliveries |-> 0] /\ accepted = {}
  /\ faults = 0 /\ redeliveries = 0

Do(w, j) == job' = [job EXCEPT ![w] = j]

-----------------------------------------------------------------------------
(* handle                                                                   *)

(* The event is emitted and its handler finds the endpoints to notify. *)
Handle(e) ==
  /\ e \notin handled
  /\ handled' = handled \cup {e}
  /\ queue' = [queue EXCEPT ![e] = {ep \in created \ removed : e \in listening[ep]}]
  /\ UNCHANGED <<cfg, row, job, todo, sent, faults, redeliveries>>

(* One row, and its first attempt, which the handler does not wait for. *)
CreateDelivery(e, ep) ==
  /\ ep \in queue[e] \ removed
  /\ queue' = [queue EXCEPT ![e] = @ \ {ep}]
  /\ status' = [status EXCEPT ![<<e, ep>>] = "pending"]
  /\ Do(<<e, ep>>, At("read", <<e, ep>>, 0))
  /\ UNCHANGED <<cfg, handled, attempts, wait, todo, sent, faults, redeliveries>>

(* The row's endpoint is gone: the handler throws, the other endpoints too
   are left without theirs. *)
HandleFails(e) ==
  /\ queue[e] \cap removed # {}
  /\ queue' = [queue EXCEPT ![e] = {}]
  /\ UNCHANGED <<cfg, handled, row, job, todo, sent, faults, redeliveries>>

-----------------------------------------------------------------------------
(* attempt                                                                  *)

Read(w) ==
  /\ job[w].step = "read"
  /\ LET d == job[w].dlv IN
     \/ status[d] \in Settled \cup {"none"} /\ Do(w, Idle)
     \/ status[d] \in {"pending", "failed"} /\ Do(w, At("post", d, attempts[d] + 1))
  /\ UNCHANGED <<cfg, bus, row, todo, sent, faults, redeliveries>>

(* Mutant of Post: any answer at all counts as taken. *)
PostAnyAnswer(w) ==
  /\ job[w].step = "post"
  /\ LET d == job[w].dlv IN
     /\ posts' = [posts EXCEPT ![d] = IF @ < MaxAttempts THEN @ + 1 ELSE @]
     /\ accepted' \in {accepted, accepted \cup {d}}
     /\ Do(w, [job[w] EXCEPT !.step = "won"])
  /\ UNCHANGED <<cfg, bus, row, todo, faults, redeliveries>>

(* The endpoint takes the event and says so; or takes it and the answer is
   late or lost; or does not take it. *)
Post(w) ==
  /\ job[w].step = "post"
  /\ LET d == job[w].dlv IN
     /\ posts' = [posts EXCEPT ![d] = IF @ < MaxAttempts THEN @ + 1 ELSE @]
     /\ \/ accepted' = accepted \cup {d} /\ Do(w, [job[w] EXCEPT !.step = "won"])
        \/ accepted' = accepted \cup {d} /\ Do(w, [job[w] EXCEPT !.step = "lost"])
        \/ UNCHANGED accepted /\ Do(w, [job[w] EXCEPT !.step = "lost"])
  /\ UNCHANGED <<cfg, bus, row, todo, faults, redeliveries>>

(* Mutant of Exhausted: one attempt too few. *)
ExhaustedEarly(n) == n + 1 >= MaxAttempts

Exhausted(n) == n >= MaxAttempts

Delay(n) == Backoff[IF n < Len(Backoff) THEN n ELSE Len(Backoff)]

(* Mutant of Write: the attempts are not counted. *)
WriteUncounted(d, s, n, after) ==
  /\ status' = [status EXCEPT ![d] = s]
  /\ wait' = [wait EXCEPT ![d] = after]
  /\ UNCHANGED attempts

Write(d, s, n, after) ==
  /\ status' = [status EXCEPT ![d] = s]
  /\ attempts' = [attempts EXCEPT ![d] = n]
  /\ wait' = [wait EXCEPT ![d] = after]

(* The row, if it is still there, is written by its id with what this attempt
   has counted. *)
Record(w) ==
  /\ job[w].step \in {"won", "lost"}
  /\ Do(w, Idle)
  /\ LET d == job[w].dlv
         n == job[w].attempt IN
     \/ status[d] = "none" /\ UNCHANGED row
     \/ /\ status[d] # "none"
        /\ \/ job[w].step = "won" /\ Write(d, "delivered", n, Null)
           \/ job[w].step = "lost" /\ Exhausted(n) /\ Write(d, "dead", n, Null)
           \/ job[w].step = "lost" /\ ~Exhausted(n) /\ Write(d, "failed", n, Delay(n))
  /\ UNCHANGED <<cfg, bus, todo, sent, faults, redeliveries>>

(* A database call of the attempt fails: the attempt throws, its caller
   catches. *)
Throw(w) ==
  /\ job[w].step # "idle" /\ faults < MaxFaults
  /\ faults' = faults + 1
  /\ Do(w, Idle)
  /\ UNCHANGED <<cfg, bus, row, todo, sent, redeliveries>>

-----------------------------------------------------------------------------
(* processRetries, redeliver                                                *)

Due == {d \in Deliveries : status[d] = "failed" /\ wait[d] = 0}

TaskStart(t) ==
  /\ job[t] = Idle /\ todo[t] = {} /\ Due # {}
  /\ todo' = [todo EXCEPT ![t] = Due]
  /\ UNCHANGED <<cfg, bus, row, job, sent, faults, redeliveries>>

(* One after the other; what was due when the run began is tried even if it
   no longer is. *)
TaskNext(t, d) ==
  /\ job[t] = Idle /\ d \in todo[t]
  /\ todo' = [todo EXCEPT ![t] = @ \ {d}]
  /\ Do(t, At("read", d, 0))
  /\ UNCHANGED <<cfg, bus, row, sent, faults, redeliveries>>

(* Mutant of Redeliver: nextRetryAt is left as it was. *)
RedeliverScheduled(q, d) ==
  /\ job[q] = Idle /\ status[d] # "none" /\ redeliveries < MaxRedeliveries
  /\ redeliveries' = redeliveries + 1
  /\ status' = [status EXCEPT ![d] = "pending"]
  /\ Do(q, At("read", d, 0))
  /\ UNCHANGED <<cfg, bus, attempts, wait, todo, sent, faults>>

(* Any row may be sent again, whatever its status. *)
Redeliver(q, d) ==
  /\ job[q] = Idle /\ status[d] # "none" /\ redeliveries < MaxRedeliveries
  /\ redeliveries' = redeliveries + 1
  /\ status' = [status EXCEPT ![d] = "pending"]
  /\ wait' = [wait EXCEPT ![d] = Null]
  /\ Do(q, At("read", d, 0))
  /\ UNCHANGED <<cfg, bus, attempts, todo, sent, faults>>

-----------------------------------------------------------------------------
(* Endpoints                                                                *)

CreateEndpoint(ep, es) ==
  /\ ep \notin created
  /\ created' = created \cup {ep}
  /\ listening' = [listening EXCEPT ![ep] = es]
  /\ UNCHANGED <<removed, bus, row, job, todo, sent, faults, redeliveries>>

(* Enabled, disabled, or subscribed anew. *)
UpdateEndpoint(ep, es) ==
  /\ ep \in created \ removed /\ listening[ep] # es
  /\ listening' = [listening EXCEPT ![ep] = es]
  /\ UNCHANGED <<created, removed, bus, row, job, todo, sent, faults, redeliveries>>

(* ON DELETE CASCADE takes the endpoint's deliveries with it. *)
RemoveEndpoint(ep) ==
  /\ ep \in created \ removed
  /\ removed' = removed \cup {ep}
  /\ status' = [d \in Deliveries |-> IF d[2] = ep THEN "none" ELSE status[d]]
  /\ wait' = [d \in Deliveries |-> IF d[2] = ep THEN Null ELSE wait[d]]
  /\ UNCHANGED <<listening, created, bus, attempts, job, todo, sent, faults, redeliveries>>

-----------------------------------------------------------------------------

(* The server restarts: what its handlers, attempts and tasks held in memory
   is gone, the rows are not. *)
Crash ==
  /\ faults < MaxFaults
  /\ faults' = faults + 1
  /\ queue' = [e \in Events |-> {}]
  /\ job' = [w \in Workers |-> Idle]
  /\ todo' = [t \in Tasks |-> {}]
  /\ UNCHANGED <<cfg, handled, row, sent, redeliveries>>

Tick ==
  /\ \E d \in Deliveries : wait[d] \notin {Null, 0}
  /\ wait' = [d \in Deliveries |-> IF wait[d] \in {Null, 0} THEN wait[d] ELSE wait[d] - 1]
  /\ UNCHANGED <<cfg, bus, status, attempts, job, todo, sent, faults, redeliveries>>

HandlerStep(e) == (\E ep \in Endpoints : CreateDelivery(e, ep)) \/ HandleFails(e)
Attempt(w)     == Read(w) \/ Post(w) \/ Record(w)
Configure(ep, es) == CreateEndpoint(ep, es) \/ UpdateEndpoint(ep, es)
TaskStep(t)    == TaskStart(t) \/ \E d \in Deliveries : TaskNext(t, d)

Next ==
  \/ \E e \in Events : Handle(e) \/ HandlerStep(e)
  \/ \E w \in Workers : Attempt(w) \/ Throw(w)
  \/ \E t \in Tasks : TaskStep(t)
  \/ \E q \in Requests, d \in Deliveries : Redeliver(q, d)
  \/ \E ep \in Endpoints : RemoveEndpoint(ep) \/ \E es \in SUBSET Events : Configure(ep, es)
  \/ Crash \/ Tick

Spec == Init /\ [][Next]_vars

(* Handlers and attempts run on, fetch times out after 8 seconds, the task
   runs every minute. *)
Fairness ==
  /\ \A e \in Events : WF_vars(HandlerStep(e))
  /\ \A w \in Workers : WF_vars(Attempt(w))
  /\ \A t \in Tasks : WF_vars(TaskStep(t))
  /\ WF_vars(Tick)

FairSpec == Spec /\ Fairness

-----------------------------------------------------------------------------

TypeOK ==
  /\ listening \in [Endpoints -> SUBSET Events]
  /\ created \subseteq Endpoints /\ removed \subseteq Endpoints
  /\ handled \subseteq Events
  /\ queue \in [Events -> SUBSET Endpoints]
  /\ status \in [Deliveries -> Statuses]
  /\ attempts \in [Deliveries -> Nat]
  /\ wait \in [Deliveries -> Nat \cup {Null}]
  /\ job \in [Workers -> Job \cup {Idle}]
  /\ todo \in [Tasks -> SUBSET Deliveries]
  /\ posts \in [Deliveries -> 0..MaxAttempts]
  /\ accepted \subseteq Deliveries
  /\ faults \in Nat /\ redeliveries \in Nat

(* However attempts of it overlap, a row that says delivered was accepted. *)
DeliveredWasAccepted == \A d \in Deliveries : status[d] = "delivered" => d \in accepted

(* No event is given up before it has really been sent maxAttempts times,
   although attempts count on from what they read. *)
DeadWasTried == \A d \in Deliveries : status[d] = "dead" => posts[d] = MaxAttempts

(* A failed row always has the time of its next attempt, so the task will find
   it; no other row has one. *)
FailedIsScheduled == \A d \in Deliveries : (status[d] = "failed") <=> (wait[d] # Null)

(* An event is not retried for ever: crashes, lost answers and attempts that
   set the counter back included, a failed delivery is delivered, dead, sent
   again by hand or deleted in the end. *)
RetriesEnd == \A d \in Deliveries : status[d] = "failed" ~> status[d] # "failed"

(* "Tried at once, failures are left to the task" (webhooks.service.ts:21):
   a delivery does not stay pending. *)
PendingIsTried == \A d \in Deliveries : status[d] = "pending" ~> status[d] # "pending"

=============================================================================
