------------------------------ MODULE Consume ------------------------------
(***************************************************************************)
(* Pay-per-use cards: the two-phase consumption of consume.service.ts      *)
(* (reserve, confirm, release) and the task that expires reservations      *)
(* nobody finished (consume-expiry.task.ts), for the devices of one card.  *)
(*                                                                         *)
(* Each transaction is two steps: its plain reads, which see a snapshot,   *)
(* and its updates with COMMIT, which act on the rows as they are by then  *)
(* and are atomic because the first of them locks the device's row.        *)
(***************************************************************************)
EXTENDS Integers, FiniteSets

CONSTANTS
  Requests,      \* plugin requests in progress
  Sweepers,      \* runs of the expiry task in progress
  Devices,       \* devices of the card
  Reservations,  \* ids for license_reservations rows; as many as there may be
  Keys,          \* ReserveDto.request_id values
  Null,          \* no request_id
  Quota,         \* license_keys.quotaPerDevice, each device's quotaTotal
  MaxAmount,     \* the most ReserveDto.amount may be
  Ttls,          \* ReserveDto.ttl_seconds values
  MaxTtl,        \* MAX_TTL_SECONDS
  Batch,         \* how many reservations one run of the task takes up
  MaxTime        \* bound: the clock stops here, unless a reservation is open

ASSUME ConsumeAssumption ==
  /\ IsFiniteSet(Reservations)
  /\ Null \notin Keys \cup Devices \cup Reservations
  /\ Quota \in Nat
  /\ MaxAmount \in Nat
  /\ Ttls \subseteq Nat \ {0}
  /\ MaxTtl \in Nat \ {0}
  /\ Batch \in Nat \ {0}
  /\ MaxTime \in Nat

VARIABLES
  bound,     \* license_devices: no row, active or unbound
  used,      \* license_devices.quotaUsed
  reserved,  \* license_devices.quotaReserved
  rsv,       \* license_reservations
  now,       \* the clock
  job,       \* each request: its step, its input and what it has read
  due        \* each sweeper: the reservations it has yet to look at

quotas == <<used, reserved>>
vars == <<bound, used, reserved, rsv, now, job, due>>

Amounts == 1..MaxAmount

Finals == {"confirmed", "released", "expired"}

NoRow == [status |-> "none", dev |-> Null, amount |-> 0, key |-> Null, expiresAt |-> 0]
Row   == [status : {"reserved"} \cup Finals, dev : Devices, amount : Amounts,
          key : Keys \cup {Null}, expiresAt : Nat]

Idle == [step |-> "idle"]
Ask  == [step : {"lookup", "freeze"}, dev : Devices, amount : Amounts,
         key : Keys \cup {Null}, ttl : Ttls]
End  == [step : {"confirm", "release", "expire"}, rsv : Reservations]

Procs == Requests \cup Sweepers

(* Mutant of Available: what is frozen does not count. *)
NotYetUsed(d) == Quota - used[d]

Available(d) == Quota - used[d] - reserved[d]

Init ==
  /\ bound = [d \in Devices |-> "none"]
  /\ used = [d \in Devices |-> 0] /\ reserved = [d \in Devices |-> 0]
  /\ rsv = [r \in Reservations |-> NoRow]
  /\ now = 0
  /\ job = [p \in Procs |-> Idle]
  /\ due = [s \in Sweepers |-> {}]

Goto(p, j) == job' = [job EXCEPT ![p] = j]

-----------------------------------------------------------------------------
(* The device's row, written by activation and unbinding: the quota is given *)
(* once, with the row, and a device bound again gets its old row back.       *)

(* Mutant of Bind: a device bound again starts with its full quota. *)
BindAfresh(d) ==
  /\ bound[d] # "active"
  /\ bound' = [bound EXCEPT ![d] = "active"]
  /\ used' = [used EXCEPT ![d] = 0]
  /\ reserved' = [reserved EXCEPT ![d] = 0]
  /\ UNCHANGED <<rsv, now, job, due>>

Bind(d) ==
  /\ bound[d] # "active"
  /\ bound' = [bound EXCEPT ![d] = "active"]
  /\ used' = IF bound[d] = "none" THEN [used EXCEPT ![d] = 0] ELSE used
  /\ reserved' = IF bound[d] = "none" THEN [reserved EXCEPT ![d] = 0] ELSE reserved
  /\ UNCHANGED <<rsv, now, job, due>>

Unbind(d) ==
  /\ bound[d] = "active"
  /\ bound' = [bound EXCEPT ![d] = "unbound"]
  /\ UNCHANGED <<quotas, rsv, now, job, due>>

-----------------------------------------------------------------------------
(* reserve                                                                   *)

(* locate: the device is bound and its token good, before any transaction. *)
Locate(p, d, a, k, t) ==
  /\ job[p].step = "idle"
  /\ bound[d] = "active"
  /\ Goto(p, [step |-> "lookup", dev |-> d, amount |-> a, key |-> k, ttl |-> t])
  /\ UNCHANGED <<bound, quotas, rsv, now, due>>

(* Mutant of KeyTaken: a finished reservation frees its request_id. *)
KeyTakenWhileOpen(k) ==
  k # Null /\ \E r \in Reservations : rsv[r].status = "reserved" /\ rsv[r].key = k

KeyTaken(k) == k # Null /\ \E r \in Reservations : rsv[r].status # "none" /\ rsv[r].key = k

(* A request_id already there is answered with its reservation, as it is. *)
Lookup(p) ==
  /\ job[p].step = "lookup"
  /\ \/ KeyTaken(job[p].key) /\ Goto(p, Idle)
     \/ ~KeyTaken(job[p].key) /\ Goto(p, [job[p] EXCEPT !.step = "freeze"])
  /\ UNCHANGED <<bound, quotas, rsv, now, due>>

(* UPDATE .. WHERE available >= amount, then the reservation's row; the unique
   index on (licenseId, idempotencyKey) rolls both back. *)
Freeze(p) ==
  /\ job[p].step = "freeze"
  /\ Available(job[p].dev) >= job[p].amount
  /\ ~KeyTaken(job[p].key)
  /\ \E r \in Reservations :
       /\ rsv[r].status = "none"
       /\ rsv' = [rsv EXCEPT ![r] =
            [status |-> "reserved", dev |-> job[p].dev, amount |-> job[p].amount,
             key |-> job[p].key,
             expiresAt |-> now + IF job[p].ttl < MaxTtl THEN job[p].ttl ELSE MaxTtl]]
  /\ reserved' = [reserved EXCEPT ![job[p].dev] = @ + job[p].amount]
  /\ Goto(p, Idle)
  /\ UNCHANGED <<bound, used, now, due>>

(* QUOTA_EXHAUSTED, or the unique index refuses the key. *)
FreezeRefused(p) ==
  /\ job[p].step = "freeze"
  /\ Available(job[p].dev) < job[p].amount \/ KeyTaken(job[p].key)
  /\ Goto(p, Idle)
  /\ UNCHANGED <<bound, quotas, rsv, now, due>>

-----------------------------------------------------------------------------
(* confirm, release and the expiry task. All three read the reservation      *)
(* without a lock, and write only if they saw it 'reserved'.                 *)

(* Mutant of ReadReserved: the status is not looked at. *)
ReadAny(p, r, step) ==
  /\ job[p].step = "idle"
  /\ rsv[r].status # "none"
  /\ Goto(p, [step |-> step, rsv |-> r])

ReadReserved(p, r, step) ==
  /\ job[p].step = "idle"
  /\ rsv[r].status = "reserved"
  /\ Goto(p, [step |-> step, rsv |-> r])

Confirm(p, r) ==
  ReadReserved(p, r, "confirm") /\ UNCHANGED <<bound, quotas, rsv, now, due>>

Release(p, r) ==
  ReadReserved(p, r, "release") /\ UNCHANGED <<bound, quotas, rsv, now, due>>

Settle(r, status) == rsv' = [rsv EXCEPT ![r].status = status]

(* Mutant of ConfirmWrite: charged, and frozen still. *)
ConfirmKeepsFrozen(p) ==
  /\ job[p].step = "confirm"
  /\ LET r == job[p].rsv IN
     /\ used' = [used EXCEPT ![rsv[r].dev] = @ + rsv[r].amount]
     /\ Settle(r, "confirmed")
  /\ Goto(p, Idle)
  /\ UNCHANGED <<bound, reserved, now, due>>

ConfirmWrite(p) ==
  /\ job[p].step = "confirm"
  /\ LET r == job[p].rsv IN
     /\ reserved' = [reserved EXCEPT ![rsv[r].dev] = @ - rsv[r].amount]
     /\ used' = [used EXCEPT ![rsv[r].dev] = @ + rsv[r].amount]
     /\ Settle(r, "confirmed")
  /\ Goto(p, Idle)
  /\ UNCHANGED <<bound, now, due>>

(* releaseReservation, for release and for the task. *)
GiveBack(p, step, status) ==
  /\ job[p].step = step
  /\ LET r == job[p].rsv IN
     /\ reserved' = [reserved EXCEPT ![rsv[r].dev] =
                       IF @ >= rsv[r].amount THEN @ - rsv[r].amount ELSE 0]
     /\ Settle(r, status)
  /\ Goto(p, Idle)
  /\ UNCHANGED <<bound, used, now, due>>

ReleaseWrite(p) == GiveBack(p, "release", "released")

(* Mutant of Expired: the comparison the other way round. *)
NotExpired == {r \in Reservations : rsv[r].status = "reserved" /\ rsv[r].expiresAt > now}

Expired == {r \in Reservations : rsv[r].status = "reserved" /\ rsv[r].expiresAt < now}

(* findMany .. take: a batch of the reservations past their time. *)
SweepStart(s) ==
  /\ job[s].step = "idle" /\ due[s] = {}
  /\ Expired # {}
  /\ \E b \in SUBSET Expired :
       /\ Cardinality(b) = IF Cardinality(Expired) < Batch THEN Cardinality(Expired) ELSE Batch
       /\ due' = [due EXCEPT ![s] = b]
  /\ UNCHANGED <<bound, quotas, rsv, now, job>>

(* The second look, in a transaction of its own. *)
SweepRead(s, r) ==
  /\ job[s].step = "idle" /\ r \in due[s]
  /\ due' = [due EXCEPT ![s] = @ \ {r}]
  /\ \/ ReadReserved(s, r, "expire")
     \/ rsv[r].status # "reserved" /\ UNCHANGED job
  /\ UNCHANGED <<bound, quotas, rsv, now>>

SweepWrite(s) == GiveBack(s, "expire", "expired")

(* A request dies, or its transaction is rolled back; the task goes on with
   the next reservation. *)
Abort(p) ==
  /\ job[p].step # "idle"
  /\ Goto(p, Idle)
  /\ UNCHANGED <<bound, quotas, rsv, now, due>>

-----------------------------------------------------------------------------

Tick ==
  /\ now < MaxTime \/ \E r \in Reservations : rsv[r].status = "reserved" /\ rsv[r].expiresAt >= now
  /\ now' = now + 1
  /\ UNCHANGED <<bound, quotas, rsv, job, due>>

Reserve(p) ==
  \/ \E d \in Devices, a \in Amounts, k \in Keys \cup {Null}, t \in Ttls : Locate(p, d, a, k, t)
  \/ Lookup(p) \/ Freeze(p) \/ FreezeRefused(p)

Finish(p) ==
  \/ \E r \in Reservations : Confirm(p, r) \/ Release(p, r)
  \/ ConfirmWrite(p) \/ ReleaseWrite(p)

Sweep(s) ==
  \/ SweepStart(s)
  \/ \E r \in Reservations : SweepRead(s, r)
  \/ SweepWrite(s)

Next ==
  \/ \E d \in Devices : Bind(d) \/ Unbind(d)
  \/ \E p \in Requests : Reserve(p) \/ Finish(p)
  \/ \E s \in Sweepers : Sweep(s)
  \/ \E p \in Procs : Abort(p)
  \/ Tick

Spec == Init /\ [][Next]_vars

(* What a program using the SDK one call at a time does, with a TTL longer than
   its work: no two transactions ever finish the same reservation at once. *)
Finishing(p) == job[p].step \in {"confirm", "release", "expire"}
Exclusive ==
  \A p, q \in Procs : p # q /\ Finishing(p) /\ Finishing(q) => job[p].rsv # job[q].rsv

ExclusiveNext == Next /\ Exclusive'
ExclusiveSpec == Init /\ [][ExclusiveNext]_vars

(* Time passes, the task runs every minute, and its transactions do not fail
   for ever. *)
Fairness ==
  /\ WF_vars(Tick)
  /\ \A s \in Sweepers :
       /\ WF_vars(SweepStart(s) \/ \E r \in Reservations : SweepRead(s, r))
       /\ SF_vars(SweepWrite(s))

FairSpec == Spec /\ Fairness

-----------------------------------------------------------------------------

TypeOK ==
  /\ bound \in [Devices -> {"none", "active", "unbound"}]
  /\ used \in [Devices -> Int] /\ reserved \in [Devices -> Int]
  /\ rsv \in [Reservations -> Row \cup {NoRow}]
  /\ now \in Nat
  /\ job \in [Procs -> {Idle} \cup Ask \cup End]
  /\ due \in [Sweepers -> SUBSET Reservations]

(* The uses that a device's reservations of one status stand for, one by one. *)
Uses(d, status) ==
  {u \in Reservations \X Amounts :
     rsv[u[1]].status = status /\ rsv[u[1]].dev = d /\ u[2] <= rsv[u[1]].amount}

Count(d, status) == Cardinality(Uses(d, status))

(* A request_id freezes quota once, however often and however concurrently its
   request is repeated. *)
OneFreezePerKey ==
  \A r, q \in Reservations : rsv[r].key # Null /\ rsv[r].key = rsv[q].key => r = q

(* The device's counters are what its reservations say they are. *)
LedgerExact ==
  \A d \in Devices : used[d] = Count(d, "confirmed") /\ reserved[d] = Count(d, "reserved")

(* No more uses are granted than were sold. *)
NeverOversold ==
  \A d \in Devices : Count(d, "confirmed") + Count(d, "reserved") <= Quota

(* A device is charged at most once for each of its reservations. *)
ChargedAtMostOnce ==
  \A d \in Devices :
    used[d] <= Cardinality(UNION {Uses(d, status) : status \in {"reserved"} \cup Finals})

(* No more uses are confirmed on a device than it was sold. *)
ConfirmedWithinQuota == \A d \in Devices : Count(d, "confirmed") <= Quota

(* Counters, snapshots and races hidden, the service is the ledger of
   QuotaLedger: every reservation frozen once, within the quota, and settled
   once. *)
LedgerState == [none |-> "none", reserved |-> "frozen", confirmed |-> "spent",
                released |-> "refunded", expired |-> "refunded"]

Ledger == INSTANCE QuotaLedger WITH
  entry <- [r \in Reservations |->
              [state |-> LedgerState[rsv[r].status], dev |-> rsv[r].dev,
               amount |-> rsv[r].amount]]

ImplementsLedger == Ledger!Spec

(* A use once charged is never handed back, by binding the device again either. *)
UsedNeverFalls == [][\A d \in Devices : used'[d] >= used[d]]_vars

(* Quota is not locked up for ever by a client that crashed. *)
ReservationsEnd ==
  \A r \in Reservations : rsv[r].status = "reserved" ~> rsv[r].status # "reserved"

=============================================================================
