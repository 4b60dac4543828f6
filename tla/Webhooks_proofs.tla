-------------------------- MODULE Webhooks_proofs --------------------------
(* Theorems about Webhooks, for every set of events, endpoints, runs of the   *)
(* task and requests, every number of attempts and every list of delays.      *)
EXTENDS Webhooks, TLAPS

LEMMA JobTypes ==
  ASSUME TypeOK, NEW w \in Workers
  PROVE  /\ job[w].step # "idle" => job[w] \in Job
         /\ job[w].step # "idle" => job[w].dlv \in Deliveries /\ job[w].attempt \in Nat
         /\ job[w].step \in {"idle", "read", "post", "won", "lost"}
<1>1. job[w] \in Job \cup {Idle}
  BY DEF TypeOK
<1> QED
  BY <1>1 DEF Job, Idle

LEMMA DelayType == ASSUME NEW n \in Nat \ {0} PROVE Delay(n) \in Nat
<1>1. Backoff \in Seq(Nat) /\ Len(Backoff) \in Nat \ {0}
  BY WebhooksAssumption DEF WebhooksAssumption
<1> QED
  BY <1>1 DEF Delay

-----------------------------------------------------------------------------
(* Type correctness. The delay is an element of Backoff only for an attempt
   that has been counted: attempts start at 1.                               *)

CountsFromOne == \A w \in Workers : job[w].step \in {"post", "won", "lost"} => job[w].attempt > 0

TypeInv == TypeOK /\ CountsFromOne

LEMMA TypeInit == Init => TypeInv
  BY WebhooksAssumption
  DEF WebhooksAssumption, Init, TypeInv, TypeOK, CountsFromOne, Idle, Statuses

LEMMA MoveType ==
  ASSUME TypeInv, NEW w \in Workers, NEW j \in Job \cup {Idle}, Do(w, j),
         j.step \in {"post", "won", "lost"} => j.attempt > 0
  PROVE  job' \in [Workers -> Job \cup {Idle}] /\ CountsFromOne'
  BY DEF TypeInv, TypeOK, CountsFromOne, Do

LEMMA IdleIsJob == Idle \in Job \cup {Idle} /\ Idle.step = "idle"
  BY DEF Idle

LEMMA TypeStep == TypeInv /\ [Next]_vars => TypeInv'
<1> SUFFICES ASSUME TypeInv, [Next]_vars PROVE TypeInv'
  OBVIOUS
<1>0. TypeOK
  BY DEF TypeInv
<1> USE DEF row, sent, cfg, bus
<1>1. ASSUME NEW e \in Events, Handle(e) \/ HandleFails(e)
      PROVE  TypeInv'
  BY <1>1 DEF TypeInv, TypeOK, CountsFromOne, Handle, HandleFails
<1>2. ASSUME NEW e \in Events, NEW ep \in Endpoints, CreateDelivery(e, ep)
      PROVE  TypeInv'
  <2>1. <<e, ep>> \in Deliveries /\ <<e, ep>> \in Workers
    BY DEF Deliveries, Workers
  <2>2. At("read", <<e, ep>>, 0) \in Job /\ At("read", <<e, ep>>, 0).step = "read"
    BY <2>1 DEF At, Job
  <2>3. job' \in [Workers -> Job \cup {Idle}] /\ CountsFromOne'
    BY <1>2, <2>1, <2>2, MoveType DEF CreateDelivery
  <2>4. status' \in [Deliveries -> Statuses] /\ queue' \in [Events -> SUBSET Endpoints]
    BY <1>0, <1>2, <2>1 DEF CreateDelivery, TypeOK, Statuses
  <2> QED
    BY <1>0, <1>2, <2>3, <2>4 DEF CreateDelivery, TypeInv, TypeOK
<1>3. ASSUME NEW w \in Workers, Read(w)
      PROVE  TypeInv'
  <2>1. job[w].dlv \in Deliveries
    BY <1>0, <1>3, JobTypes DEF Read
  <2>2. /\ At("post", job[w].dlv, attempts[job[w].dlv] + 1) \in Job
        /\ At("post", job[w].dlv, attempts[job[w].dlv] + 1).attempt > 0
    BY <1>0, <2>1 DEF TypeOK, At, Job
  <2>3. job' \in [Workers -> Job \cup {Idle}] /\ CountsFromOne'
    BY <1>3, <2>2, MoveType, IdleIsJob DEF Read
  <2> QED
    BY <1>0, <1>3, <2>3 DEF Read, TypeInv, TypeOK
<1>4. ASSUME NEW w \in Workers, Post(w)
      PROVE  TypeInv'
  <2>1. job[w] \in Job /\ job[w].dlv \in Deliveries /\ job[w].attempt > 0
    BY <1>0, <1>4, JobTypes DEF Post, TypeInv, CountsFromOne
  <2>2. \A s \in {"won", "lost"} :
          [job[w] EXCEPT !.step = s] \in Job /\ [job[w] EXCEPT !.step = s].attempt > 0
    BY <2>1 DEF Job
  <2>3. job' \in [Workers -> Job \cup {Idle}] /\ CountsFromOne'
    BY <1>4, <2>2, MoveType DEF Post
  <2>4. posts' \in [Deliveries -> 0..MaxAttempts] /\ accepted' \subseteq Deliveries
    BY <1>0, <1>4, <2>1, WebhooksAssumption DEF Post, TypeOK, WebhooksAssumption
  <2> QED
    BY <1>0, <1>4, <2>3, <2>4 DEF Post, TypeInv, TypeOK
<1>5. ASSUME NEW w \in Workers, Record(w)
      PROVE  TypeInv'
  <2>1. job[w].dlv \in Deliveries /\ job[w].attempt \in Nat \ {0}
    BY <1>0, <1>5, JobTypes DEF Record, TypeInv, CountsFromOne
  <2>2. job' \in [Workers -> Job \cup {Idle}] /\ CountsFromOne'
    BY <1>5, MoveType, IdleIsJob DEF Record
  <2>3. \/ UNCHANGED row
        \/ \E s \in Statuses, after \in Nat \cup {Null} :
             Write(job[w].dlv, s, job[w].attempt, after)
    BY <1>5, <2>1, DelayType DEF Record, Statuses
  <2>4. /\ status' \in [Deliveries -> Statuses]
        /\ attempts' \in [Deliveries -> Nat]
        /\ wait' \in [Deliveries -> Nat \cup {Null}]
    BY <1>0, <2>1, <2>3 DEF Write, TypeOK
  <2> QED
    BY <1>0, <1>5, <2>2, <2>4 DEF Record, TypeInv, TypeOK
<1>6. ASSUME NEW w \in Workers, Throw(w)
      PROVE  TypeInv'
  <2>1. job' \in [Workers -> Job \cup {Idle}] /\ CountsFromOne'
    BY <1>6, MoveType, IdleIsJob DEF Throw
  <2> QED
    BY <1>0, <1>6, <2>1 DEF Throw, TypeInv, TypeOK
<1>7. ASSUME NEW t \in Tasks, TaskStart(t)
      PROVE  TypeInv'
  BY <1>7 DEF TaskStart, Due, TypeInv, TypeOK, CountsFromOne
<1>8. ASSUME NEW t \in Tasks, NEW d \in Deliveries, TaskNext(t, d)
      PROVE  TypeInv'
  <2>1. At("read", d, 0) \in Job /\ At("read", d, 0).step = "read" /\ t \in Workers
    BY DEF At, Job, Workers
  <2>2. job' \in [Workers -> Job \cup {Idle}] /\ CountsFromOne'
    BY <1>8, <2>1, MoveType DEF TaskNext
  <2> QED
    BY <1>0, <1>8, <2>2 DEF TaskNext, TypeInv, TypeOK
<1>9. ASSUME NEW q \in Requests, NEW d \in Deliveries, Redeliver(q, d)
      PROVE  TypeInv'
  <2>1. At("read", d, 0) \in Job /\ At("read", d, 0).step = "read" /\ q \in Workers
    BY DEF At, Job, Workers
  <2>2. job' \in [Workers -> Job \cup {Idle}] /\ CountsFromOne'
    BY <1>9, <2>1, MoveType DEF Redeliver
  <2> QED
    BY <1>0, <1>9, <2>2 DEF Redeliver, TypeInv, TypeOK, Statuses
<1>10. ASSUME NEW ep \in Endpoints,
              RemoveEndpoint(ep) \/ \E es \in SUBSET Events : Configure(ep, es)
       PROVE  TypeInv'
  BY <1>10 DEF RemoveEndpoint, Configure, CreateEndpoint, UpdateEndpoint, TypeInv, TypeOK, CountsFromOne, Statuses
<1>11. ASSUME Crash
       PROVE  TypeInv'
  BY <1>11, IdleIsJob DEF Crash, TypeInv, TypeOK, CountsFromOne
<1>12. ASSUME Tick
       PROVE  TypeInv'
  <2>1. wait' \in [Deliveries -> Nat \cup {Null}]
    BY <1>0, <1>12 DEF Tick, TypeOK
  <2> QED
    BY <1>12, <2>1 DEF Tick, TypeInv, TypeOK, CountsFromOne
<1>13. ASSUME UNCHANGED vars
       PROVE  TypeInv'
  BY <1>13 DEF vars, TypeInv, TypeOK, CountsFromOne
<1> QED
  BY <1>1, <1>2, <1>3, <1>4, <1>5, <1>6, <1>7, <1>8, <1>9, <1>10, <1>11, <1>12, <1>13
     DEF Next, HandlerStep, Attempt, TaskStep

(* Rows, attempts in progress and the task's lists keep their shape: no attempt
   reads a delay beyond RETRY_BACKOFF, however often a delivery is sent again. *)
THEOREM TypeCorrect == Spec => []TypeOK
<1>1. TypeInv => TypeOK
  BY DEF TypeInv
<1> QED
  BY TypeInit, TypeStep, <1>1, PTL DEF Spec

-----------------------------------------------------------------------------
(* What a row says. The write of an attempt is unconditional, so a row's status
   and its nextRetryAt stay in step only because every write sets both.       *)

(* An event is handled once, and has no row before. *)
FreshRows ==
  \A e \in Events :
    /\ queue[e] # {} => e \in handled
    /\ \A ep \in Endpoints : e \notin handled \/ ep \in queue[e] => status[<<e, ep>>] = "none"

LEMMA FreshStep == TypeInv /\ FreshRows /\ [Next]_vars => FreshRows'
<1> SUFFICES ASSUME TypeInv, FreshRows, [Next]_vars PROVE FreshRows'
  OBVIOUS
<1>0. TypeOK
  BY DEF TypeInv
<1> USE DEF row, sent, cfg, bus
<1>1. ASSUME NEW e \in Events, Handle(e) \/ HandleFails(e)
      PROVE  FreshRows'
  BY <1>0, <1>1 DEF Handle, HandleFails, FreshRows, TypeOK
<1>2. ASSUME NEW e \in Events, NEW ep \in Endpoints, CreateDelivery(e, ep)
      PROVE  FreshRows'
  <2>1. \A f \in Events, x \in Endpoints :
          <<f, x>> # <<e, ep>> => status'[<<f, x>>] = status[<<f, x>>]
    BY <1>0, <1>2 DEF CreateDelivery, TypeOK, Deliveries
  <2>2. queue'[e] = queue[e] \ {ep} /\ e \in handled
    BY <1>0, <1>2 DEF CreateDelivery, TypeOK, FreshRows
  <2>3. \A f \in Events \ {e} : queue'[f] = queue[f]
    BY <1>0, <1>2 DEF CreateDelivery, TypeOK
  <2>4. handled' = handled
    BY <1>2 DEF CreateDelivery
  <2> QED
    BY <2>1, <2>2, <2>3, <2>4 DEF FreshRows
<1>3. ASSUME \A d \in Deliveries : status[d] = "none" => status'[d] = "none",
             UNCHANGED bus
      PROVE  FreshRows'
  BY <1>3 DEF FreshRows, Deliveries
<1>4. ASSUME NEW w \in Workers, Record(w)
      PROVE  FreshRows'
  <2>1. \A d \in Deliveries : status[d] = "none" => status'[d] = "none"
    BY <1>0, <1>4 DEF Record, Write, TypeOK
  <2> QED
    BY <1>3, <1>4, <2>1 DEF Record
<1>5. ASSUME NEW q \in Requests, NEW d \in Deliveries, Redeliver(q, d)
      PROVE  FreshRows'
  <2>1. \A x \in Deliveries : status[x] = "none" => status'[x] = "none"
    BY <1>0, <1>5 DEF Redeliver, TypeOK
  <2> QED
    BY <1>3, <1>5, <2>1 DEF Redeliver
<1>6. ASSUME NEW ep \in Endpoints, RemoveEndpoint(ep)
      PROVE  FreshRows'
  <2>1. \A x \in Deliveries : status[x] = "none" => status'[x] = "none"
    BY <1>0, <1>6 DEF RemoveEndpoint, TypeOK
  <2> QED
    BY <1>3, <1>6, <2>1 DEF RemoveEndpoint
<1>7. ASSUME Crash
      PROVE  FreshRows'
  BY <1>0, <1>7 DEF Crash, FreshRows, TypeOK
<1>8. ASSUME \/ \E w \in Workers : Read(w) \/ Post(w) \/ Throw(w)
             \/ \E t \in Tasks : TaskStep(t)
             \/ \E ep \in Endpoints, es \in SUBSET Events : Configure(ep, es)
             \/ Tick \/ UNCHANGED vars
      PROVE  FreshRows'
  <2>1. UNCHANGED <<status, bus>>
    BY <1>8 DEF Read, Post, Throw, TaskStep, TaskStart, TaskNext, Configure, CreateEndpoint, UpdateEndpoint, Tick, vars
  <2> QED
    BY <2>1 DEF FreshRows
<1> QED
  BY <1>1, <1>2, <1>4, <1>5, <1>6, <1>7, <1>8 DEF Next, HandlerStep, Attempt

LEMMA ScheduleStep == TypeInv /\ FreshRows /\ FailedIsScheduled /\ [Next]_vars => FailedIsScheduled'
<1> SUFFICES ASSUME TypeInv, FreshRows, FailedIsScheduled, [Next]_vars
             PROVE  FailedIsScheduled'
  OBVIOUS
<1>0. TypeOK /\ Null \notin Nat
  BY WebhooksAssumption DEF TypeInv, WebhooksAssumption
<1> USE DEF row, sent, cfg, bus
<1>1. ASSUME NEW e \in Events, NEW ep \in Endpoints, CreateDelivery(e, ep)
      PROVE  FailedIsScheduled'
  <2>1. <<e, ep>> \in Deliveries /\ status[<<e, ep>>] = "none"
    BY <1>0, <1>1 DEF CreateDelivery, FreshRows, Deliveries
  <2>2. status' = [status EXCEPT ![<<e, ep>>] = "pending"] /\ UNCHANGED wait
    BY <1>1 DEF CreateDelivery
  <2> QED
    BY <1>0, <2>1, <2>2 DEF FailedIsScheduled, TypeOK
<1>2. ASSUME NEW w \in Workers, Record(w)
      PROVE  FailedIsScheduled'
  <2>1. job[w].dlv \in Deliveries /\ job[w].attempt \in Nat \ {0}
    BY <1>0, <1>2, JobTypes DEF Record, TypeInv, CountsFromOne
  <2>2. Delay(job[w].attempt) # Null
    BY <1>0, <2>1, DelayType
  <2>3. \/ UNCHANGED row
        \/ \E s \in Statuses, after \in Nat \cup {Null} :
             /\ Write(job[w].dlv, s, job[w].attempt, after)
             /\ s = "failed" <=> after # Null
    BY <1>2, <2>1, <2>2, DelayType DEF Record, Statuses
  <2> QED
    BY <1>0, <2>1, <2>3 DEF Write, FailedIsScheduled, TypeOK
<1>3. ASSUME NEW q \in Requests, NEW d \in Deliveries, Redeliver(q, d)
      PROVE  FailedIsScheduled'
  BY <1>0, <1>3 DEF Redeliver, FailedIsScheduled, TypeOK
<1>4. ASSUME NEW ep \in Endpoints, RemoveEndpoint(ep)
      PROVE  FailedIsScheduled'
  BY <1>0, <1>4 DEF RemoveEndpoint, FailedIsScheduled, TypeOK
<1>5. ASSUME Tick
      PROVE  FailedIsScheduled'
  <2>1. \A d \in Deliveries : wait'[d] = Null <=> wait[d] = Null
    BY <1>0, <1>5 DEF Tick, TypeOK
  <2> QED
    BY <1>5, <2>1 DEF Tick, FailedIsScheduled
<1>6. ASSUME UNCHANGED <<status, wait>>
      PROVE  FailedIsScheduled'
  BY <1>6 DEF FailedIsScheduled
<1>7. ASSUME \/ \E e \in Events : Handle(e) \/ HandleFails(e)
             \/ \E w \in Workers : Read(w) \/ Post(w) \/ Throw(w)
             \/ \E t \in Tasks : TaskStep(t)
             \/ \E ep \in Endpoints, es \in SUBSET Events : Configure(ep, es)
             \/ Crash \/ UNCHANGED vars
      PROVE  UNCHANGED <<status, wait>>
  BY <1>7 DEF Handle, HandleFails, Read, Post, Throw, TaskStep, TaskStart, TaskNext,
         Configure, CreateEndpoint, UpdateEndpoint, Crash, vars
<1> QED
  BY <1>1, <1>2, <1>3, <1>4, <1>5, <1>6, <1>7 DEF Next, HandlerStep, Attempt

(* A failed row always has the time of its next attempt and no other row has
   one, whichever attempts, redeliveries and deletions interleave: the task finds
   every failed delivery and nothing else. *)
THEOREM FailedRowsAreScheduled == Spec => []FailedIsScheduled
<1>1. Init => FreshRows /\ FailedIsScheduled
  BY DEF Init, FreshRows, FailedIsScheduled, Deliveries
<1> QED
  BY <1>1, TypeInit, TypeStep, FreshStep, ScheduleStep, PTL DEF Spec

-----------------------------------------------------------------------------
(* What was sent. An attempt that won was accepted; one past its POST, and the
   counter it wrote, are backed by as many POSTs, counted up to MaxAttempts.  *)

Sent(d, n) == n <= posts[d] \/ posts[d] = MaxAttempts

WonWasAccepted == \A w \in Workers : job[w].step = "won" => job[w].dlv \in accepted

CountsAreSent ==
  /\ \A d \in Deliveries : Sent(d, attempts[d])
  /\ \A w \in Workers :
       /\ job[w].step = "post" => Sent(job[w].dlv, job[w].attempt - 1)
       /\ job[w].step \in {"won", "lost"} => Sent(job[w].dlv, job[w].attempt)

SentInv == WonWasAccepted /\ DeliveredWasAccepted /\ CountsAreSent /\ DeadWasTried

LEMMA MoveSent ==
  ASSUME TypeInv, SentInv, NEW w \in Workers, NEW j, Do(w, j), UNCHANGED sent,
         j.step = "won" => j.dlv \in accepted,
         j.step = "post" => Sent(j.dlv, j.attempt - 1),
         j.step \in {"won", "lost"} => Sent(j.dlv, j.attempt)
  PROVE  /\ WonWasAccepted'
         /\ \A x \in Workers :
              /\ job'[x].step = "post" => Sent(job'[x].dlv, job'[x].attempt - 1)
              /\ job'[x].step \in {"won", "lost"} => Sent(job'[x].dlv, job'[x].attempt)
<1>1. job'[w] = j /\ \A x \in Workers \ {w} : job'[x] = job[x]
  BY DEF TypeInv, TypeOK, Do
<1> QED
  BY <1>1 DEF SentInv, WonWasAccepted, CountsAreSent, sent

LEMMA SentStep == TypeInv /\ SentInv /\ [Next]_vars => SentInv'
<1> SUFFICES ASSUME TypeInv, SentInv, [Next]_vars PROVE SentInv'
  OBVIOUS
<1>0. TypeOK /\ MaxAttempts \in Nat \ {0}
  BY WebhooksAssumption DEF TypeInv, WebhooksAssumption
<1> USE DEF row, sent, cfg, bus
<1> DEFINE JobsSent ==
      /\ WonWasAccepted'
      /\ \A x \in Workers :
           /\ job'[x].step = "post" => Sent(job'[x].dlv, job'[x].attempt - 1)
           /\ job'[x].step \in {"won", "lost"} => Sent(job'[x].dlv, job'[x].attempt)
<1>1. ASSUME JobsSent, UNCHANGED <<sent, attempts>>,
             \A d \in Deliveries : status'[d] \in Settled => status'[d] = status[d]
      PROVE  SentInv'
  BY <1>1 DEF SentInv, DeliveredWasAccepted, CountsAreSent, DeadWasTried, Sent, Settled
<1>2. ASSUME NEW w \in Workers, NEW j, j.step \in {"idle", "read"}, Do(w, j), UNCHANGED sent
      PROVE  JobsSent
  BY <1>2, MoveSent
<1>3. ASSUME UNCHANGED <<job, sent>>
      PROVE  JobsSent
  BY <1>3 DEF SentInv, WonWasAccepted, CountsAreSent
<1>4. ASSUME NEW e \in Events, NEW ep \in Endpoints, CreateDelivery(e, ep)
      PROVE  SentInv'
  <2>1. <<e, ep>> \in Workers /\ At("read", <<e, ep>>, 0).step = "read"
    BY DEF Workers, Deliveries, At
  <2>2. JobsSent
    BY <1>2, <1>4, <2>1 DEF CreateDelivery
  <2>3. \A d \in Deliveries : status'[d] \in Settled => status'[d] = status[d]
    BY <1>0, <1>4 DEF CreateDelivery, TypeOK, Settled
  <2> QED
    BY <1>1, <1>4, <2>2, <2>3 DEF CreateDelivery
<1>5. ASSUME NEW w \in Workers, Read(w)
      PROVE  SentInv'
  <2>1. job[w].dlv \in Deliveries /\ attempts[job[w].dlv] \in Nat
    BY <1>0, <1>5, JobTypes DEF Read, TypeOK
  <2> DEFINE j == At("post", job[w].dlv, attempts[job[w].dlv] + 1)
  <2>2. j.step = "post" /\ j.dlv = job[w].dlv /\ j.attempt - 1 = attempts[job[w].dlv]
    BY <2>1 DEF At
  <2>3. Sent(j.dlv, j.attempt - 1)
    BY <2>1, <2>2 DEF SentInv, CountsAreSent
  <2>4. UNCHANGED sent /\ (Do(w, j) \/ Do(w, Idle))
    BY <1>5 DEF Read
  <2> HIDE DEF j
  <2>5. Do(w, j) => JobsSent
    BY <2>2, <2>3, <2>4, MoveSent
  <2>6. JobsSent
    BY <1>2, <2>4, <2>5, IdleIsJob
  <2> QED
    BY <1>1, <1>5, <2>6 DEF Read
<1>6. ASSUME NEW w \in Workers, Post(w)
      PROVE  SentInv'
  <2> DEFINE d == job[w].dlv
  <2>1. d \in Deliveries /\ job[w].attempt \in Nat \ {0} /\ job[w] \in Job
    BY <1>0, <1>6, JobTypes DEF Post, TypeInv, CountsFromOne
  <2>2. posts' = [posts EXCEPT ![d] = IF @ < MaxAttempts THEN @ + 1 ELSE @]
    BY <1>6 DEF Post
  <2>3. Sent(d, job[w].attempt - 1)
    BY <1>6 DEF Post, SentInv, CountsAreSent
  <2>4. ASSUME NEW x \in Deliveries, NEW n \in Int, Sent(x, n)
        PROVE  Sent(x, n)'
    BY <1>0, <2>1, <2>2, <2>4 DEF Sent, TypeOK
  <2>5. job[w].attempt <= posts'[d] \/ posts'[d] = MaxAttempts
    BY <1>0, <2>1, <2>2, <2>3 DEF Sent, TypeOK
  <2>6. accepted \subseteq accepted'
    BY <1>6 DEF Post
  <2>7. PICK s \in {"won", "lost"} :
          Do(w, [job[w] EXCEPT !.step = s]) /\ (s = "won" => d \in accepted')
    BY <1>6 DEF Post
  <2>8. /\ job'[w].step = s /\ job'[w].dlv = d /\ job'[w].attempt = job[w].attempt
        /\ \A x \in Workers \ {w} : job'[x] = job[x]
    BY <1>0, <2>1, <2>7 DEF Do, TypeOK, Job
  <2>9. WonWasAccepted'
    BY <2>6, <2>7, <2>8 DEF SentInv, WonWasAccepted
  <2>10. CountsAreSent'
    <3>1. \A x \in Deliveries : Sent(x, attempts[x])'
      BY <1>0, <1>6, <2>4 DEF Post, TypeOK, SentInv, CountsAreSent
    <3>2. ASSUME NEW x \in Workers \ {w}, job[x].step \in {"post", "won", "lost"}
          PROVE  /\ job[x].dlv \in Deliveries /\ job[x].attempt \in Int
                 /\ job[x].attempt - 1 \in Int
      BY <1>0, <3>2, JobTypes
    <3> QED
      BY <2>4, <2>5, <2>7, <2>8, <3>1, <3>2 DEF SentInv, CountsAreSent, Sent
  <2>11. DeliveredWasAccepted' /\ DeadWasTried'
    BY <1>0, <1>6, <2>2, <2>6 DEF Post, TypeOK, SentInv, DeliveredWasAccepted, DeadWasTried
  <2> QED
    BY <2>9, <2>10, <2>11 DEF SentInv
<1>7. ASSUME NEW w \in Workers, Record(w)
      PROVE  SentInv'
  <2> DEFINE d == job[w].dlv
             n == job[w].attempt
  <2>1. d \in Deliveries /\ n \in Nat \ {0}
    BY <1>0, <1>7, JobTypes DEF Record, TypeInv, CountsFromOne
  <2>2. JobsSent
    BY <1>2, <1>7, IdleIsJob DEF Record
  <2>3. Sent(d, n) /\ (job[w].step = "won" => d \in accepted)
    BY <1>7 DEF Record, SentInv, CountsAreSent, WonWasAccepted
  <2>4. CASE UNCHANGED row
    BY <1>1, <1>7, <2>2, <2>4 DEF Record
  <2>5. ASSUME NEW s, NEW after, Write(d, s, n, after),
               s = "delivered" => d \in accepted,
               s = "dead" => Exhausted(n)
        PROVE  SentInv'
    <3>1. Exhausted(n) => posts[d] = MaxAttempts
      BY <1>0, <2>1, <2>3 DEF Exhausted, Sent, TypeOK
    <3>2. DeliveredWasAccepted' /\ DeadWasTried'
      BY <1>0, <1>7, <2>1, <2>5, <3>1 DEF Record, Write, SentInv, DeliveredWasAccepted, DeadWasTried, TypeOK
    <3>3. \A x \in Deliveries : Sent(x, attempts'[x])
      BY <1>0, <2>1, <2>3, <2>5 DEF Write, TypeOK, SentInv, CountsAreSent
    <3>4. CountsAreSent'
      BY <1>7, <2>2, <3>3 DEF Record, CountsAreSent, Sent
    <3> QED
      BY <2>2, <3>2, <3>4 DEF SentInv
  <2> QED
    BY <1>7, <2>3, <2>4, <2>5 DEF Record
<1>8. ASSUME NEW w \in Workers, Throw(w)
      PROVE  SentInv'
  BY <1>1, <1>2, <1>8, IdleIsJob DEF Throw
<1>9. ASSUME NEW t \in Tasks, NEW d \in Deliveries, TaskNext(t, d)
      PROVE  SentInv'
  <2>1. t \in Workers /\ At("read", d, 0).step = "read"
    BY DEF Workers, At
  <2> QED
    BY <1>1, <1>2, <1>9, <2>1 DEF TaskNext
<1>10. ASSUME NEW q \in Requests, NEW d \in Deliveries, Redeliver(q, d)
       PROVE  SentInv'
  <2>1. q \in Workers /\ At("read", d, 0).step = "read"
    BY DEF Workers, At
  <2>2. JobsSent
    BY <1>2, <1>10, <2>1 DEF Redeliver
  <2>3. \A x \in Deliveries : status'[x] \in Settled => status'[x] = status[x]
    BY <1>0, <1>10 DEF Redeliver, TypeOK, Settled
  <2> QED
    BY <1>1, <1>10, <2>2, <2>3 DEF Redeliver
<1>11. ASSUME NEW ep \in Endpoints, RemoveEndpoint(ep)
       PROVE  SentInv'
  <2>1. \A x \in Deliveries : status'[x] \in Settled => status'[x] = status[x]
    BY <1>0, <1>11 DEF RemoveEndpoint, TypeOK, Settled
  <2> QED
    BY <1>1, <1>3, <1>11, <2>1 DEF RemoveEndpoint
<1>12. ASSUME Crash
       PROVE  SentInv'
  <2>1. JobsSent
    BY <1>12, IdleIsJob DEF Crash, WonWasAccepted
  <2> QED
    BY <1>1, <1>12, <2>1 DEF Crash
<1>13. ASSUME \/ \E e \in Events : Handle(e) \/ HandleFails(e)
              \/ \E t \in Tasks : TaskStart(t)
              \/ \E ep \in Endpoints, es \in SUBSET Events : Configure(ep, es)
              \/ Tick \/ UNCHANGED vars
       PROVE  SentInv'
  <2>1. UNCHANGED <<job, sent, attempts, status>>
    BY <1>13 DEF Handle, HandleFails, TaskStart, Configure, CreateEndpoint, UpdateEndpoint, Tick, vars
  <2> QED
    BY <1>1, <1>3, <2>1
<1> QED
  BY <1>4, <1>5, <1>6, <1>7, <1>8, <1>9, <1>10, <1>11, <1>12, <1>13
     DEF Next, HandlerStep, Attempt, TaskStep

LEMMA SentAlways == Spec => []SentInv
<1>1. Init => SentInv
  BY WebhooksAssumption
  DEF WebhooksAssumption, Init, SentInv, WonWasAccepted, DeliveredWasAccepted, CountsAreSent,
      DeadWasTried, Sent, Idle
<1> QED
  BY <1>1, TypeInit, TypeStep, SentStep, PTL DEF Spec

(* A delivery is recorded as delivered only if its endpoint accepted it, however
   many attempts of it overlap. *)
THEOREM DeliveredRowsWereAccepted == Spec => []DeliveredWasAccepted
<1>1. SentInv => DeliveredWasAccepted
  BY DEF SentInv
<1> QED
  BY <1>1, SentAlways, PTL

(* A delivery is recorded as dead only after maxAttempts POSTs, though attempts
   that overlap write their counters over one another. *)
THEOREM DeadRowsWereTried == Spec => []DeadWasTried
<1>1. SentInv => DeadWasTried
  BY DEF SentInv
<1> QED
  BY <1>1, SentAlways, PTL

=============================================================================
