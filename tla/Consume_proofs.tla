-------------------------- MODULE Consume_proofs --------------------------
(* Theorems about Consume, for every set of requests, sweepers, devices and  *)
(* reservations, every quota, amount and time to live.                       *)
EXTENDS Consume, FiniteSetTheorems, TLAPS

-----------------------------------------------------------------------------
(* Type correctness, for requests in any interleaving. A request about to    *)
(* finish a reservation names one that exists.                               *)

RowsExist == \A p \in Procs : Finishing(p) => rsv[job[p].rsv].status # "none"

TypeInv == TypeOK /\ RowsExist

LEMMA JobTypes ==
  ASSUME TypeOK, NEW p \in Procs
  PROVE  /\ job[p].step = "idle" => job[p] = Idle
         /\ job[p].step \in {"lookup", "freeze"} => job[p] \in Ask
         /\ job[p].step \in {"confirm", "release", "expire"} => job[p] \in End
<1>1. job[p] \in {Idle} \cup Ask \cup End
  BY DEF TypeOK
<1> QED
  BY <1>1 DEF Idle, Ask, End

LEMMA RowTypes ==
  ASSUME TypeOK, NEW r \in Reservations
  PROVE  /\ rsv[r].status = "none" <=> rsv[r] = NoRow
         /\ rsv[r].status # "none" => rsv[r] \in Row
         /\ rsv[r].amount \in Nat
<1>1. rsv[r] \in Row \cup {NoRow}
  BY DEF TypeOK
<1> QED
  BY <1>1, ConsumeAssumption DEF ConsumeAssumption, Row, NoRow, Finals, Amounts

LEMMA TypeInit == Init => TypeInv
  BY DEF Init, TypeInv, TypeOK, RowsExist, Finishing, Idle

LEMMA TypeStep == TypeInv /\ [Next]_vars => TypeInv'
<1> SUFFICES ASSUME TypeInv, [Next]_vars PROVE TypeInv'
  OBVIOUS
<1>0. TypeOK /\ RowsExist
  BY DEF TypeInv
<1> USE <1>0, ConsumeAssumption DEF ConsumeAssumption, TypeInv, quotas, Goto
<1>1. ASSUME NEW d \in Devices, Bind(d) \/ Unbind(d)
      PROVE  TypeInv'
  BY <1>1 DEF TypeOK, RowsExist, Finishing, Bind, Unbind
<1>2. ASSUME NEW p \in Requests, Reserve(p)
      PROVE  TypeInv'
  <2>1. ASSUME NEW d \in Devices, NEW a \in Amounts, NEW k \in Keys \cup {Null}, NEW t \in Ttls,
               Locate(p, d, a, k, t)
        PROVE  TypeInv'
    <3>1. [step |-> "lookup", dev |-> d, amount |-> a, key |-> k, ttl |-> t] \in Ask
      BY DEF Ask
    <3> QED
      BY <2>1, <3>1 DEF TypeOK, RowsExist, Finishing, Locate, Procs
  <2>2. CASE Lookup(p)
    <3>1. /\ [job[p] EXCEPT !.step = "freeze"] \in Ask
          /\ [job[p] EXCEPT !.step = "freeze"].step = "freeze"
      BY <2>2, JobTypes DEF Lookup, Ask, Procs
    <3>2. PICK j \in {Idle} \cup Ask : j.step \in {"idle", "freeze"} /\ job' = [job EXCEPT ![p] = j]
      BY <2>2, <3>1 DEF Lookup, Idle
    <3> QED
      BY <2>2, <3>2 DEF TypeOK, RowsExist, Finishing, Lookup, Procs
  <2>3. CASE Freeze(p)
    <3>1. job[p] \in Ask
      BY <2>3, JobTypes DEF Freeze, Procs
    <3>2. PICK r \in Reservations :
            /\ rsv[r].status = "none"
            /\ rsv' = [rsv EXCEPT ![r] =
                 [status |-> "reserved", dev |-> job[p].dev, amount |-> job[p].amount,
                  key |-> job[p].key,
                  expiresAt |-> now + IF job[p].ttl < MaxTtl THEN job[p].ttl ELSE MaxTtl]]
      BY <2>3 DEF Freeze
    <3>3. rsv'[r] \in Row
      <4>1. job[p].ttl \in Nat /\ job[p].dev \in Devices /\ job[p].amount \in Amounts
            /\ job[p].key \in Keys \cup {Null}
        BY <3>1 DEF Ask
      <4>2. now + (IF job[p].ttl < MaxTtl THEN job[p].ttl ELSE MaxTtl) \in Nat
        BY <4>1 DEF TypeOK
      <4> QED
        BY <3>2, <4>1, <4>2 DEF TypeOK, Row
    <3>4. reserved' \in [Devices -> Int]
      BY <2>3, <3>1 DEF Freeze, TypeOK, Ask, Amounts
    <3>5. rsv' \in [Reservations -> Row \cup {NoRow}]
      BY <3>2, <3>3 DEF TypeOK
    <3>6. job' \in [Procs -> {Idle} \cup Ask \cup End]
      BY <2>3 DEF TypeOK, Freeze
    <3>7. RowsExist'
      BY <2>3, <3>2, <3>3 DEF TypeOK, RowsExist, Finishing, Freeze, Idle, Row, Finals
    <3> QED
      BY <2>3, <3>4, <3>5, <3>6, <3>7 DEF Freeze, TypeOK
  <2>4. CASE FreezeRefused(p)
    BY <2>4 DEF TypeOK, RowsExist, Finishing, FreezeRefused, Idle
  <2> QED
    BY <1>2, <2>1, <2>2, <2>3, <2>4 DEF Reserve
<1>3. ASSUME NEW p \in Procs, NEW r \in Reservations,
             NEW s \in {"confirm", "release", "expire"}, ReadReserved(p, r, s),
             UNCHANGED <<bound, quotas, rsv, now>>, due' \in [Sweepers -> SUBSET Reservations]
      PROVE  TypeInv'
  <2>1. [step |-> s, rsv |-> r] \in End
    BY DEF End
  <2> QED
    BY <1>3, <2>1 DEF TypeOK, RowsExist, Finishing, ReadReserved
<1>4. ASSUME NEW p \in Procs, ConfirmWrite(p)
      PROVE  TypeInv'
  <2>1. job[p].rsv \in Reservations /\ rsv[job[p].rsv] \in Row
    BY <1>4, JobTypes, RowTypes DEF ConfirmWrite, RowsExist, Finishing, End
  <2>2. rsv' \in [Reservations -> Row \cup {NoRow}] /\ rsv'[job[p].rsv] \in Row
    BY <1>4, <2>1 DEF ConfirmWrite, Settle, TypeOK, Row, Finals
  <2>3. used' \in [Devices -> Int] /\ reserved' \in [Devices -> Int]
    BY <1>4, <2>1 DEF ConfirmWrite, TypeOK, Row, Amounts
  <2>4. RowsExist'
    <3>1. \A r \in Reservations : rsv[r].status # "none" => rsv'[r].status # "none"
      BY <1>4, <2>1, <2>2 DEF ConfirmWrite, Settle, TypeOK, Row, Finals
    <3>2. \A q \in Procs : Finishing(q)' => Finishing(q) /\ job'[q] = job[q]
      <4>1. job' = [job EXCEPT ![p] = Idle]
        BY <1>4 DEF ConfirmWrite, Goto
      <4> QED
        BY <4>1, JobTypes DEF Finishing, Idle, TypeOK
    <3>3. \A q \in Procs : Finishing(q) => job[q].rsv \in Reservations
      BY JobTypes DEF Finishing, End
    <3> QED
      BY <3>1, <3>2, <3>3 DEF RowsExist
  <2> QED
    BY <1>4, <2>2, <2>3, <2>4 DEF ConfirmWrite, TypeOK
<1>5. ASSUME NEW p \in Procs, NEW s \in {"release", "expire"}, NEW o \in {"released", "expired"},
             GiveBack(p, s, o)
      PROVE  TypeInv'
  <2>1. job[p].rsv \in Reservations /\ rsv[job[p].rsv] \in Row
    BY <1>5, JobTypes, RowTypes DEF GiveBack, RowsExist, Finishing, End
  <2>2. rsv' \in [Reservations -> Row \cup {NoRow}] /\ rsv'[job[p].rsv] \in Row
    BY <1>5, <2>1 DEF GiveBack, Settle, TypeOK, Row, Finals
  <2>3. reserved' \in [Devices -> Int]
    BY <1>5, <2>1 DEF GiveBack, TypeOK, Row, Amounts
  <2>4. RowsExist'
    <3>1. \A r \in Reservations : rsv[r].status # "none" => rsv'[r].status # "none"
      BY <1>5, <2>1, <2>2 DEF GiveBack, Settle, TypeOK, Row, Finals
    <3>2. \A q \in Procs : Finishing(q)' => Finishing(q) /\ job'[q] = job[q]
      <4>1. job' = [job EXCEPT ![p] = Idle]
        BY <1>5 DEF GiveBack, Goto
      <4> QED
        BY <4>1, JobTypes DEF Finishing, Idle, TypeOK
    <3>3. \A q \in Procs : Finishing(q) => job[q].rsv \in Reservations
      BY JobTypes DEF Finishing, End
    <3> QED
      BY <3>1, <3>2, <3>3 DEF RowsExist
  <2> QED
    BY <1>5, <2>2, <2>3, <2>4 DEF GiveBack, TypeOK
<1>6. ASSUME NEW p \in Requests, Finish(p)
      PROVE  TypeInv'
  BY <1>3, <1>4, <1>5, <1>6 DEF Finish, Confirm, Release, ReleaseWrite, TypeOK, Procs
<1>7. ASSUME NEW s \in Sweepers, Sweep(s)
      PROVE  TypeInv'
  <2>1. CASE SweepStart(s)
    BY <2>1 DEF SweepStart, Expired, TypeOK, RowsExist, Finishing
  <2>2. ASSUME NEW r \in Reservations, SweepRead(s, r)
        PROVE  TypeInv'
    <3>1. due' \in [Sweepers -> SUBSET Reservations]
      BY <2>2 DEF SweepRead, TypeOK
    <3> QED
      BY <1>3, <2>2, <3>1 DEF SweepRead, TypeOK, RowsExist, Finishing, Procs
  <2>3. CASE SweepWrite(s)
    BY <1>5, <2>3 DEF SweepWrite, Procs
  <2> QED
    BY <1>7, <2>1, <2>2, <2>3 DEF Sweep
<1>8. ASSUME NEW p \in Procs, Abort(p)
      PROVE  TypeInv'
  BY <1>8 DEF Abort, TypeOK, RowsExist, Finishing, Idle
<1>9. ASSUME Tick \/ UNCHANGED vars
      PROVE  TypeInv'
  BY <1>9 DEF Tick, vars, TypeOK, RowsExist, Finishing
<1> QED
  BY <1>1, <1>2, <1>6, <1>7, <1>8, <1>9 DEF Next

(* Counters stay numbers, reservations stay complete rows, and a transaction
   never finishes a reservation that is not there. *)
THEOREM TypeCorrect == Spec => []TypeOK
<1>1. TypeInv => TypeOK
  BY DEF TypeInv
<1> QED
  BY TypeInit, TypeStep, <1>1, PTL DEF Spec

-----------------------------------------------------------------------------
(* Idempotent reservation. Every interleaving of lookups and inserts ends at *)
(* the unique index, which Freeze checks with its update.                    *)

LEMMA KeyStep == TypeInv /\ OneFreezePerKey /\ [Next]_vars => OneFreezePerKey'
<1> SUFFICES ASSUME TypeInv, OneFreezePerKey, [Next]_vars PROVE OneFreezePerKey'
  OBVIOUS
<1> USE DEF TypeInv
<1>1. ASSUME NEW p \in Requests, Freeze(p)
      PROVE  OneFreezePerKey'
  <2>1. PICK r \in Reservations :
          \E row : row.key = job[p].key /\ rsv[r].status = "none" /\ rsv' = [rsv EXCEPT ![r] = row]
    BY <1>1 DEF Freeze
  <2>7. PICK row :
          row.key = job[p].key /\ rsv[r].status = "none" /\ rsv' = [rsv EXCEPT ![r] = row]
    BY <2>1
  <2>2. ~KeyTaken(row.key)
    BY <1>1, <2>7 DEF Freeze
  <2>3. rsv'[r] = row /\ \A q \in Reservations \ {r} : rsv'[q] = rsv[q]
    BY <2>7 DEF TypeOK
  <2>4. ASSUME NEW q \in Reservations \ {r}, rsv[q].key = row.key, row.key # Null
        PROVE  FALSE
    <3>1. rsv[q].status # "none"
      BY <2>4, RowTypes DEF NoRow
    <3> QED
      BY <2>2, <2>4, <3>1 DEF KeyTaken
  <2> QED
    BY <2>3, <2>4 DEF OneFreezePerKey
<1>2. ASSUME \A q \in Reservations : rsv'[q].key = rsv[q].key
      PROVE  OneFreezePerKey'
  BY <1>2 DEF OneFreezePerKey
<1>3. ASSUME NEW r \in Reservations, NEW o \in Finals, Settle(r, o)
      PROVE  \A q \in Reservations : rsv'[q].key = rsv[q].key
  BY <1>3 DEF Settle, TypeOK
<1>4. ASSUME NEW p \in Requests, Reserve(p), ~Freeze(p)
      PROVE  UNCHANGED rsv
  BY <1>4 DEF Reserve, Locate, Lookup, FreezeRefused
<1>5. ASSUME NEW p \in Requests, Finish(p)
      PROVE  \A q \in Reservations : rsv'[q].key = rsv[q].key
  <2>7. \/ UNCHANGED rsv
        \/ job[p].step \in {"confirm", "release"} /\ \E o \in Finals : Settle(job[p].rsv, o)
    BY <1>5 DEF Finish, Confirm, Release, ConfirmWrite, ReleaseWrite, GiveBack, Finals
  <2> QED
    BY <1>3, <2>7, JobTypes DEF Procs, End
<1>6. ASSUME NEW s \in Sweepers, Sweep(s)
      PROVE  \A q \in Reservations : rsv'[q].key = rsv[q].key
  <2>7. \/ UNCHANGED rsv
        \/ job[s].step = "expire" /\ \E o \in Finals : Settle(job[s].rsv, o)
    BY <1>6 DEF Sweep, SweepStart, SweepRead, SweepWrite, GiveBack, Finals
  <2> QED
    BY <1>3, <2>7, JobTypes DEF Procs, End
<1>7. ASSUME \/ \E d \in Devices : Bind(d) \/ Unbind(d)
             \/ \E p \in Procs : Abort(p)
             \/ Tick \/ UNCHANGED vars
      PROVE  UNCHANGED rsv
  BY <1>7 DEF Bind, Unbind, Abort, Tick, vars
<1> QED
  BY <1>1, <1>2, <1>4, <1>5, <1>6, <1>7 DEF Next

(* However its retries interleave, one request_id holds one reservation. *)
THEOREM RetriesFreezeOnce == Spec => []OneFreezePerKey
<1>1. Init => OneFreezePerKey
  BY DEF Init, OneFreezePerKey, NoRow
<1>2. TypeInv /\ OneFreezePerKey /\ [Next]_vars => (TypeInv /\ OneFreezePerKey)'
  BY TypeStep, KeyStep
<1> QED
  BY TypeInit, <1>1, <1>2, PTL DEF Spec

-----------------------------------------------------------------------------
(* Counting uses. A reservation of n uses is a block of n.                   *)

Block(r, n) == {r} \X (1..n)

LEMMA BlockSize ==
  ASSUME NEW r, NEW n \in Nat
  PROVE  IsFiniteSet(Block(r, n)) /\ Cardinality(Block(r, n)) = n
<1>1. IsFiniteSet({r}) /\ Cardinality({r}) = 1
  BY FS_Singleton
<1>2. IsFiniteSet(1..n) /\ Cardinality(1..n) = n
  BY FS_Interval
<1> DEFINE One == {r}  All == 1..n
<1>3. IsFiniteSet(One \X All) /\ Cardinality(One \X All) = Cardinality(One) * Cardinality(All)
  <2> HIDE DEF One, All
  <2>1. IsFiniteSet(One) /\ IsFiniteSet(All)
    BY <1>1, <1>2 DEF One, All
  <2> QED
    BY <2>1, FS_Product
<1>4. 1 * n = n
  OBVIOUS
<1> QED
  BY <1>1, <1>2, <1>3, <1>4, Zenon DEF Block

LEMMA UsesFinite ==
  ASSUME NEW d, NEW t
  PROVE  IsFiniteSet(Uses(d, t)) /\ Count(d, t) \in Nat
<1>1. IsFiniteSet(Reservations \X Amounts)
  <2>1. IsFiniteSet(Amounts) /\ IsFiniteSet(Reservations)
    BY FS_Interval, ConsumeAssumption DEF ConsumeAssumption, Amounts
  <2> QED
    BY <2>1, FS_Product
<1>2. Uses(d, t) \subseteq Reservations \X Amounts
  BY DEF Uses
<1> QED
  BY <1>1, <1>2, FS_Subset, FS_CardinalityType DEF Count

(* Disjoint blocks come and go one by one. *)
LEMMA AddBlock ==
  ASSUME NEW S, IsFiniteSet(S), NEW r, NEW n \in Nat, S \cap Block(r, n) = {}
  PROVE  Cardinality(S \cup Block(r, n)) = Cardinality(S) + n
<1>1. Cardinality(S \cap Block(r, n)) = 0
  BY FS_EmptySet
<1>2. IsFiniteSet(Block(r, n)) /\ Cardinality(Block(r, n)) = n /\ Cardinality(S) \in Nat
  BY BlockSize, FS_CardinalityType
<1>3. Cardinality(S \cup Block(r, n)) =
        Cardinality(S) + Cardinality(Block(r, n)) - Cardinality(S \cap Block(r, n))
  BY <1>2, FS_Union
<1> QED
  BY <1>1, <1>2, <1>3

(* A new reservation adds its block to the uses reserved, and to no other. *)
LEMMA FreezeCounts ==
  ASSUME TypeOK, NEW r \in Reservations, rsv[r] = NoRow,
         NEW row \in Row, row.status = "reserved", rsv' = [rsv EXCEPT ![r] = row],
         NEW d \in Devices, NEW t
  PROVE  Count(d, t)' = Count(d, t) + (IF d = row.dev /\ t = "reserved" THEN row.amount ELSE 0)
<1>1. rsv'[r] = row /\ \A x \in Reservations \ {r} : rsv'[x] = rsv[x]
  BY DEF TypeOK
<1>2. row.amount \in Nat /\ 1..row.amount \subseteq Amounts
  BY ConsumeAssumption DEF ConsumeAssumption, Row, Amounts
<1>3. NoRow.dev # d
  BY ConsumeAssumption DEF ConsumeAssumption, NoRow
<1>4. CASE d = row.dev /\ t = "reserved"
  <2>1. Uses(d, t)' = Uses(d, t) \cup Block(r, row.amount)
    <3>1. ASSUME NEW u \in Reservations \X Amounts
          PROVE  u \in Uses(d, t)' <=> u \in Uses(d, t) \/ u \in Block(r, row.amount)
      BY <1>1, <1>2, <1>3, <1>4 DEF Uses, Block, Amounts
    <3>2. Block(r, row.amount) \subseteq Reservations \X Amounts
      BY <1>2 DEF Block
    <3> QED
      BY <3>1, <3>2 DEF Uses
  <2>2. Uses(d, t) \cap Block(r, row.amount) = {}
    BY <1>3 DEF Uses, Block
  <2> QED
    BY <1>2, <1>4, <2>1, <2>2, AddBlock, UsesFinite DEF Count
<1>5. CASE ~(d = row.dev /\ t = "reserved")
  <2>1. Uses(d, t)' = Uses(d, t)
    BY <1>1, <1>3, <1>5 DEF Uses
  <2> QED
    BY <1>5, <2>1, UsesFinite DEF Count
<1> QED
  BY <1>4, <1>5

(* Settling a reservation moves its block from the uses reserved to those of
   its outcome. *)
LEMMA SettleCounts ==
  ASSUME TypeOK, NEW r \in Reservations, rsv[r].status = "reserved",
         NEW o \in Finals, Settle(r, o), NEW d \in Devices, NEW t
  PROVE  Count(d, t)' = Count(d, t) + (IF d # rsv[r].dev THEN 0
                                       ELSE IF t = o THEN rsv[r].amount
                                       ELSE IF t = "reserved" THEN 0 - rsv[r].amount ELSE 0)
<1> DEFINE n == rsv[r].amount
<1>1. /\ rsv'[r].status = o /\ rsv'[r].dev = rsv[r].dev /\ rsv'[r].amount = n
      /\ \A x \in Reservations \ {r} : rsv'[x] = rsv[x]
  BY RowTypes DEF TypeOK, Settle, Row
<1>2. n \in Nat /\ 1..n \subseteq Amounts /\ o # "reserved"
  BY RowTypes, ConsumeAssumption DEF ConsumeAssumption, Row, Amounts, Finals
<1>3. Block(r, n) \subseteq Reservations \X Amounts
  BY <1>2 DEF Block
<1> HIDE DEF n
<1>4. CASE d = rsv[r].dev /\ t = o
  <2>1. Uses(d, t)' = Uses(d, t) \cup Block(r, n)
    <3>1. ASSUME NEW u \in Reservations \X Amounts
          PROVE  u \in Uses(d, t)' <=> u \in Uses(d, t) \/ u \in Block(r, n)
      BY <1>1, <1>2, <1>4 DEF Uses, Block, Amounts
    <3> QED
      BY <1>3, <3>1 DEF Uses
  <2>2. Uses(d, t) \cap Block(r, n) = {}
    BY <1>2, <1>4 DEF Uses, Block
  <2> QED
    BY <1>2, <1>4, <2>1, <2>2, AddBlock, UsesFinite DEF Count, n
<1>5. CASE d = rsv[r].dev /\ t = "reserved"
  <2>1. Uses(d, t) = Uses(d, t)' \cup Block(r, n)
    <3>1. ASSUME NEW u \in Reservations \X Amounts
          PROVE  u \in Uses(d, t) <=> u \in Uses(d, t)' \/ u \in Block(r, n)
      BY <1>1, <1>2, <1>5 DEF Uses, Block, Amounts, n
    <3> QED
      BY <1>3, <3>1 DEF Uses
  <2>2. Uses(d, t)' \cap Block(r, n) = {}
    BY <1>1, <1>2, <1>5 DEF Uses, Block
  <2>3. IsFiniteSet(Uses(d, t)') /\ Cardinality(Uses(d, t)') \in Nat
    <3>1. Uses(d, t)' \subseteq Uses(d, t)
      BY <2>1
    <3> QED
      BY <3>1, UsesFinite, FS_Subset, FS_CardinalityType
  <2>4. Cardinality(Uses(d, t)) = Cardinality(Uses(d, t)') + n
    BY <1>2, <2>1, <2>2, <2>3, AddBlock
  <2> QED
    BY <1>2, <1>5, <2>3, <2>4, UsesFinite DEF Count, n
<1>6. CASE d # rsv[r].dev \/ t \notin {o, "reserved"}
  <2>1. Uses(d, t)' = Uses(d, t)
    BY <1>1, <1>6 DEF Uses
  <2> QED
    BY <1>2, <1>6, <2>1, UsesFinite DEF Count
<1> QED
  BY <1>4, <1>5, <1>6

LEMMA ReservedAtLeast ==
  ASSUME TypeOK, NEW r \in Reservations, rsv[r].status = "reserved"
  PROVE  rsv[r].amount <= Count(rsv[r].dev, "reserved")
<1>1. rsv[r].amount \in Nat /\ 1..rsv[r].amount \subseteq Amounts
  BY RowTypes, ConsumeAssumption DEF ConsumeAssumption, Row, Amounts
<1>2. Block(r, rsv[r].amount) \subseteq Uses(rsv[r].dev, "reserved")
  BY <1>1 DEF Block, Uses
<1>3. Cardinality(Block(r, rsv[r].amount)) <= Cardinality(Uses(rsv[r].dev, "reserved"))
  BY <1>2, UsesFinite, FS_Subset
<1> QED
  BY <1>1, <1>3, BlockSize DEF Count

-----------------------------------------------------------------------------
(* What a step does to the counters and to the reservations, when no two     *)
(* transactions finish one reservation at once. Two more facts are needed:   *)
(* quota is only ever held by devices that have their row, so that binding   *)
(* one for the first time resets nothing; and a transaction about to finish  *)
(* a reservation has read the status the reservation still has.              *)

KnownDevices ==
  /\ \A p \in Procs : job[p].step \in {"lookup", "freeze"} => bound[job[p].dev] # "none"
  /\ \A r \in Reservations : rsv[r].status # "none" => bound[rsv[r].dev] # "none"

ReadsAreFresh == \A p \in Procs : Finishing(p) => rsv[job[p].rsv].status = "reserved"

Frozen(r) ==
  \E row \in Row :
    /\ rsv[r].status = "none" /\ row.status = "reserved" /\ bound[row.dev] # "none"
    /\ used[row.dev] + reserved[row.dev] + row.amount <= Quota
    /\ rsv' = [rsv EXCEPT ![r] = row]
    /\ reserved' = [reserved EXCEPT ![row.dev] = @ + row.amount]
    /\ UNCHANGED <<used, bound>>

Settled(r, o) ==
  /\ rsv[r].status = "reserved"
  /\ Settle(r, o)
  /\ IF o = "confirmed"
     THEN /\ reserved' = [reserved EXCEPT ![rsv[r].dev] = @ - rsv[r].amount]
          /\ used' = [used EXCEPT ![rsv[r].dev] = @ + rsv[r].amount]
     ELSE /\ reserved' = [reserved EXCEPT ![rsv[r].dev] =
                            IF @ >= rsv[r].amount THEN @ - rsv[r].amount ELSE 0]
          /\ UNCHANGED used
  /\ UNCHANGED bound

LedgerKept ==
  /\ UNCHANGED rsv
  /\ \A d \in Devices :
       \/ used'[d] = used[d] /\ reserved'[d] = reserved[d]
       \/ bound[d] = "none" /\ used'[d] = 0 /\ reserved'[d] = 0
  /\ \A d \in Devices : bound[d] # "none" => bound'[d] # "none"

LEMMA StepShape ==
  ASSUME TypeInv, KnownDevices, ReadsAreFresh, [Next]_vars
  PROVE  \/ \E r \in Reservations : Frozen(r) \/ \E o \in Finals : Settled(r, o)
         \/ LedgerKept
<1> USE DEF TypeInv, quotas
<1>1. ASSUME NEW d \in Devices, Bind(d) \/ Unbind(d)
      PROVE  LedgerKept
  BY <1>1 DEF Bind, Unbind, LedgerKept, TypeOK
<1>2. ASSUME NEW p \in Requests, Freeze(p)
      PROVE  \E r \in Reservations : Frozen(r)
  <2>1. job[p] \in Ask /\ bound[job[p].dev] # "none"
    BY <1>2, JobTypes DEF Freeze, Procs, KnownDevices
  <2>2. job[p].ttl \in Nat /\ MaxTtl \in Nat /\ now \in Nat
    BY <2>1, ConsumeAssumption DEF ConsumeAssumption, TypeOK, Ask
  <2> DEFINE row == [status |-> "reserved", dev |-> job[p].dev, amount |-> job[p].amount,
                     key |-> job[p].key,
                     expiresAt |-> now + IF job[p].ttl < MaxTtl THEN job[p].ttl ELSE MaxTtl]
  <2>3. row \in Row
    <3>1. now + (IF job[p].ttl < MaxTtl THEN job[p].ttl ELSE MaxTtl) \in Nat
      BY <2>2
    <3> QED
      BY <2>1, <3>1 DEF Row, Ask
  <2>4. /\ row.status = "reserved" /\ row.dev = job[p].dev /\ row.amount = job[p].amount
        /\ row.dev \in Devices
    BY <2>1 DEF Ask
  <2>5. PICK r \in Reservations : rsv[r].status = "none" /\ rsv' = [rsv EXCEPT ![r] = row]
    BY <1>2 DEF Freeze
  <2> HIDE DEF row
  <2>6. used[row.dev] + reserved[row.dev] + row.amount <= Quota
    <3>1. /\ used[row.dev] \in Int /\ reserved[row.dev] \in Int
          /\ row.amount \in Int /\ Quota \in Int
      BY <2>3, <2>4, ConsumeAssumption DEF ConsumeAssumption, TypeOK, Row, Amounts
    <3>2. Quota - used[row.dev] - reserved[row.dev] >= row.amount
      BY <1>2, <2>4 DEF Freeze, Available
    <3> QED
      BY <3>1, <3>2
  <2>7. reserved' = [reserved EXCEPT ![row.dev] = @ + row.amount] /\ UNCHANGED <<used, bound>>
    BY <1>2, <2>4 DEF Freeze
  <2>8. bound[row.dev] # "none"
    BY <2>1, <2>4
  <2> QED
    BY <2>3, <2>4, <2>5, <2>6, <2>7, <2>8 DEF Frozen
<1>3. ASSUME NEW p \in Procs,
             ConfirmWrite(p) \/ GiveBack(p, "release", "released") \/ GiveBack(p, "expire", "expired")
      PROVE  \E r \in Reservations, o \in Finals : Settled(r, o)
  <2>1. job[p].rsv \in Reservations /\ rsv[job[p].rsv].status = "reserved"
    BY <1>3, JobTypes DEF ConfirmWrite, GiveBack, ReadsAreFresh, Finishing, End
  <2>2. CASE ConfirmWrite(p)
    BY <2>1, <2>2 DEF ConfirmWrite, Settled, Finals
  <2>3. CASE GiveBack(p, "release", "released")
    BY <2>1, <2>3 DEF GiveBack, Settled, Finals
  <2>4. CASE GiveBack(p, "expire", "expired")
    BY <2>1, <2>4 DEF GiveBack, Settled, Finals
  <2> QED
    BY <1>3, <2>2, <2>3, <2>4
<1>4. ASSUME UNCHANGED <<bound, used, reserved, rsv>>
      PROVE  LedgerKept
  BY <1>4 DEF LedgerKept
<1>5. ASSUME NEW p \in Requests, Reserve(p), ~Freeze(p)
      PROVE  LedgerKept
  BY <1>4, <1>5 DEF Reserve, Locate, Lookup, FreezeRefused
<1>6. ASSUME NEW p \in Requests, Finish(p)
      PROVE  LedgerKept \/ \E r \in Reservations, o \in Finals : Settled(r, o)
  BY <1>3, <1>4, <1>6 DEF Finish, Confirm, Release, ReleaseWrite, Procs
<1>7. ASSUME NEW s \in Sweepers, Sweep(s)
      PROVE  LedgerKept \/ \E r \in Reservations, o \in Finals : Settled(r, o)
  BY <1>3, <1>4, <1>7 DEF Sweep, SweepStart, SweepRead, SweepWrite, Procs
<1>8. ASSUME NEW p \in Procs, Abort(p)
      PROVE  LedgerKept
  BY <1>4, <1>8 DEF Abort
<1>9. ASSUME Tick \/ UNCHANGED vars
      PROVE  LedgerKept
  BY <1>4, <1>9 DEF Tick, vars
<1> QED
  BY <1>1, <1>2, <1>5, <1>6, <1>7, <1>8, <1>9 DEF Next

LEMMA ShapeOfRows ==
  ASSUME TypeInv, NEW r \in Reservations,
         Frozen(r) \/ \E o \in Finals : Settled(r, o)
  PROVE  /\ rsv'[r].status # "none" /\ rsv'[r].dev \in Devices
         /\ rsv[r].status # "none" => rsv'[r].dev = rsv[r].dev
         /\ Frozen(r) => rsv[r].status = "none" /\ bound[rsv'[r].dev] # "none"
         /\ \A q \in Reservations \ {r} : rsv'[q] = rsv[q]
         /\ UNCHANGED bound
<1>1. CASE Frozen(r)
  BY <1>1 DEF Frozen, TypeInv, TypeOK, Row
<1>2. ASSUME NEW o \in Finals, Settled(r, o)
      PROVE  /\ rsv'[r].status = o /\ o # "none" /\ rsv'[r].dev = rsv[r].dev
             /\ rsv[r].status = "reserved" /\ rsv[r].dev \in Devices
             /\ \A q \in Reservations \ {r} : rsv'[q] = rsv[q]
             /\ UNCHANGED bound
  BY <1>2, RowTypes DEF Settled, Settle, TypeInv, TypeOK, Row, Finals
<1>3. CASE \E o \in Finals : Settled(r, o)
  BY <1>2, <1>3 DEF Frozen
<1> QED
  BY <1>1, <1>3

LEMMA KnownDevicesStep ==
  TypeInv /\ KnownDevices /\ ReadsAreFresh /\ [Next]_vars => KnownDevices'
<1> SUFFICES ASSUME TypeInv, KnownDevices, ReadsAreFresh, [Next]_vars
             PROVE  KnownDevices'
  OBVIOUS
<1>1. \A d \in Devices : bound[d] # "none" => bound'[d] # "none"
  BY StepShape, ShapeOfRows DEF LedgerKept
<1>2. ASSUME NEW r \in Reservations, rsv'[r].status # "none"
      PROVE  bound'[rsv'[r].dev] # "none"
  <2>1. CASE LedgerKept
    BY <1>1, <1>2, <2>1, RowTypes DEF LedgerKept, KnownDevices, TypeInv, Row
  <2>2. ASSUME NEW q \in Reservations, Frozen(q) \/ \E o \in Finals : Settled(q, o)
        PROVE  bound'[rsv'[r].dev] # "none"
    BY <1>2, <2>2, ShapeOfRows DEF KnownDevices, Settled
  <2> QED
    BY <2>1, <2>2, StepShape
<1>3. ASSUME NEW p \in Procs, job'[p].step \in {"lookup", "freeze"}
      PROVE  bound'[job'[p].dev] # "none"
  <2> DEFINE Known == \/ job'[p] = job[p]
                      \/ job[p].step = "lookup" /\ job'[p].dev = job[p].dev
                      \/ \E d \in Devices : bound[d] = "active" /\ job'[p].dev = d
  <2>1. Known
    <3>1. ASSUME NEW q \in Requests, Reserve(q)
          PROVE  Known
      <4>1. ASSUME NEW d \in Devices, NEW a \in Amounts, NEW k \in Keys \cup {Null}, NEW t \in Ttls,
                   Locate(q, d, a, k, t)
            PROVE  Known
        <5>1. bound[d] = "active" /\ \E j : j.dev = d /\ job' = [job EXCEPT ![q] = j]
          BY <4>1 DEF Locate, Goto
        <5> QED
          BY <5>1 DEF TypeInv, TypeOK, Procs
      <4>2. CASE Lookup(q)
        <5> DEFINE j == [job[q] EXCEPT !.step = "freeze"]
        <5>1. j.dev = job[q].dev /\ job[q].step = "lookup"
          BY <4>2, JobTypes DEF Lookup, TypeInv, Procs, Ask
        <5>2. job' = [job EXCEPT ![q] = j] \/ job' = [job EXCEPT ![q] = Idle]
          BY <4>2 DEF Lookup, Goto
        <5> HIDE DEF j
        <5> QED
          BY <1>3, <5>1, <5>2 DEF TypeInv, TypeOK, Procs, Idle
      <4>3. CASE Freeze(q) \/ FreezeRefused(q)
        BY <1>3, <4>3 DEF Freeze, FreezeRefused, Goto, TypeInv, TypeOK, Procs, Idle
      <4> QED
        BY <3>1, <4>1, <4>2, <4>3 DEF Reserve
    <3>2. ASSUME NEW q \in Procs,
                 \/ \E j \in {Idle} \cup End : Goto(q, j)
                 \/ UNCHANGED job
          PROVE  job'[p] = job[p]
      BY <1>3, <3>2 DEF Goto, TypeInv, TypeOK, Idle, End
    <3>3. ASSUME NEW q \in Procs, NEW r \in Reservations,
                 NEW s \in {"confirm", "release", "expire"}, ReadReserved(q, r, s)
          PROVE  \E j \in {Idle} \cup End : Goto(q, j)
      BY <3>3 DEF ReadReserved, End
    <3>4. ASSUME NEW q \in Requests, Finish(q)
          PROVE  job'[p] = job[p]
      BY <3>2, <3>3, <3>4 DEF Finish, Confirm, Release, ConfirmWrite, ReleaseWrite, GiveBack, Procs
    <3>5. ASSUME NEW q \in Sweepers, Sweep(q)
          PROVE  job'[p] = job[p]
      BY <3>2, <3>3, <3>5 DEF Sweep, SweepStart, SweepRead, SweepWrite, GiveBack, Procs
    <3>6. ASSUME NEW q \in Procs, Abort(q)
          PROVE  job'[p] = job[p]
      BY <3>2, <3>6 DEF Abort
    <3>7. ASSUME Tick \/ UNCHANGED vars \/ \E d \in Devices : Bind(d) \/ Unbind(d)
          PROVE  job'[p] = job[p]
      BY <3>7 DEF Tick, vars, Bind, Unbind
    <3> QED
      BY <3>1, <3>4, <3>5, <3>6, <3>7 DEF Next
  <2>2. job[p].step \in {"lookup", "freeze"} => job[p].dev \in Devices
    BY JobTypes DEF TypeInv, Ask
  <2> QED
    BY <1>1, <1>3, <2>1, <2>2 DEF KnownDevices
<1> QED
  BY <1>2, <1>3 DEF KnownDevices

LEMMA FreshStep ==
  TypeInv /\ ReadsAreFresh /\ Exclusive /\ [Next]_vars => ReadsAreFresh'
<1> SUFFICES ASSUME TypeInv, ReadsAreFresh, Exclusive, [Next]_vars
             PROVE  ReadsAreFresh'
  OBVIOUS
<1> USE DEF TypeInv, Goto
<1>1. ASSUME NEW q \in Procs,
             ConfirmWrite(q) \/ GiveBack(q, "release", "released") \/ GiveBack(q, "expire", "expired")
      PROVE  ReadsAreFresh'
  <2>1. PICK o \in Finals : Settle(job[q].rsv, o)
    BY <1>1 DEF ConfirmWrite, GiveBack, Finals
  <2>2. Finishing(q) /\ job' = [job EXCEPT ![q] = Idle]
    BY <1>1 DEF ConfirmWrite, GiveBack, Finishing
  <2>3. ASSUME NEW p \in Procs, Finishing(p)'
        PROVE  rsv'[job'[p].rsv].status = "reserved"
    <3>1. p # q /\ job'[p] = job[p] /\ Finishing(p)
      BY <2>2, <2>3 DEF TypeOK, Finishing, Idle
    <3>2. job[p].rsv # job[q].rsv /\ job[p].rsv \in Reservations
      BY <2>2, <3>1, JobTypes DEF Exclusive, Finishing, End
    <3> QED
      BY <2>1, <3>1, <3>2 DEF Settle, TypeOK, ReadsAreFresh
  <2> QED
    BY <2>3 DEF ReadsAreFresh
<1>2. ASSUME NEW q \in Requests, Freeze(q)
      PROVE  ReadsAreFresh'
  <2>1. PICK r \in Reservations :
          rsv[r].status = "none" /\ \E row : rsv' = [rsv EXCEPT ![r] = row]
    BY <1>2 DEF Freeze
  <2>2. job' = [job EXCEPT ![q] = Idle]
    BY <1>2 DEF Freeze
  <2>3. ASSUME NEW p \in Procs, Finishing(p)'
        PROVE  rsv'[job'[p].rsv].status = "reserved"
    <3>1. job'[p] = job[p] /\ Finishing(p)
      BY <2>2, <2>3 DEF TypeOK, Finishing, Idle, Procs
    <3>2. job[p].rsv \in Reservations /\ rsv[job[p].rsv].status = "reserved"
      BY <3>1, JobTypes DEF Finishing, End, ReadsAreFresh
    <3> QED
      BY <2>1, <3>1, <3>2 DEF TypeOK
  <2> QED
    BY <2>3 DEF ReadsAreFresh
<1>3. ASSUME NEW q \in Procs, NEW r \in Reservations, NEW s, ReadReserved(q, r, s), UNCHANGED rsv
      PROVE  ReadsAreFresh'
  BY <1>3 DEF ReadReserved, TypeOK, ReadsAreFresh, Finishing
<1>4. ASSUME UNCHANGED rsv,
             \/ UNCHANGED job
             \/ \E q \in Procs, j \in {Idle} \cup Ask : job' = [job EXCEPT ![q] = j]
      PROVE  ReadsAreFresh'
  BY <1>4 DEF TypeOK, ReadsAreFresh, Finishing, Idle, Ask
<1>5. ASSUME NEW q \in Requests, Reserve(q)
      PROVE  ReadsAreFresh'
  <2>1. ASSUME NEW d \in Devices, NEW a \in Amounts, NEW k \in Keys \cup {Null}, NEW t \in Ttls,
               Locate(q, d, a, k, t)
        PROVE  ReadsAreFresh'
    <3>1. [step |-> "lookup", dev |-> d, amount |-> a, key |-> k, ttl |-> t] \in Ask
      BY DEF Ask
    <3> QED
      BY <1>4, <2>1, <3>1 DEF Locate, Procs
  <2>2. CASE Lookup(q)
    <3>1. [job[q] EXCEPT !.step = "freeze"] \in Ask
      BY <2>2, JobTypes DEF Lookup, Ask, Procs
    <3> QED
      BY <1>4, <2>2, <3>1 DEF Lookup, Procs
  <2>3. CASE FreezeRefused(q)
    BY <1>4, <2>3 DEF FreezeRefused, Procs
  <2> QED
    BY <1>2, <1>5, <2>1, <2>2, <2>3 DEF Reserve
<1>6. ASSUME NEW q \in Requests, Finish(q)
      PROVE  ReadsAreFresh'
  BY <1>1, <1>3, <1>6 DEF Finish, Confirm, Release, ReleaseWrite, Procs
<1>7. ASSUME NEW q \in Sweepers, Sweep(q)
      PROVE  ReadsAreFresh'
  BY <1>1, <1>3, <1>4, <1>7 DEF Sweep, SweepStart, SweepRead, SweepWrite, Procs
<1>8. ASSUME NEW q \in Procs, Abort(q)
      PROVE  ReadsAreFresh'
  BY <1>4, <1>8 DEF Abort
<1>9. ASSUME Tick \/ UNCHANGED vars \/ \E d \in Devices : Bind(d) \/ Unbind(d)
      PROVE  ReadsAreFresh'
  BY <1>4, <1>9 DEF Tick, vars, Bind, Unbind
<1> QED
  BY <1>5, <1>6, <1>7, <1>8, <1>9 DEF Next

-----------------------------------------------------------------------------
(* The ledger                                                                *)

LEMMA NoRowNoUse ==
  ASSUME KnownDevices, NEW d \in Devices, bound[d] = "none", NEW t, t # "none"
  PROVE  Count(d, t) = 0
<1>1. Uses(d, t) = {}
  BY DEF KnownDevices, Uses
<1> QED
  BY <1>1, FS_EmptySet DEF Count

LEMMA LedgerStep ==
  TypeInv /\ KnownDevices /\ ReadsAreFresh /\ LedgerExact /\ [Next]_vars => LedgerExact'
<1> SUFFICES ASSUME TypeInv, KnownDevices, ReadsAreFresh, LedgerExact, [Next]_vars,
                    NEW d \in Devices
             PROVE  used'[d] = Count(d, "confirmed")' /\ reserved'[d] = Count(d, "reserved")'
  BY DEF LedgerExact
<1>1. used[d] = Count(d, "confirmed") /\ reserved[d] = Count(d, "reserved")
  BY DEF LedgerExact
<1>2. Count(d, "confirmed") \in Nat /\ Count(d, "reserved") \in Nat
  BY UsesFinite
<1> USE DEF TypeInv
<1>3. ASSUME NEW r \in Reservations, Frozen(r)
      PROVE  used'[d] = Count(d, "confirmed")' /\ reserved'[d] = Count(d, "reserved")'
  <2>1. PICK row \in Row :
          /\ rsv[r].status = "none" /\ row.status = "reserved"
          /\ rsv' = [rsv EXCEPT ![r] = row]
          /\ reserved' = [reserved EXCEPT ![row.dev] = @ + row.amount]
          /\ used' = used
    BY <1>3 DEF Frozen
  <2>2. rsv[r] = NoRow /\ row.amount \in Nat
    BY <2>1, RowTypes, ConsumeAssumption DEF ConsumeAssumption, Row, Amounts
  <2>3. /\ Count(d, "confirmed")' = Count(d, "confirmed") + 0
        /\ Count(d, "reserved")' = Count(d, "reserved") + IF d = row.dev THEN row.amount ELSE 0
    BY <2>1, <2>2, FreezeCounts
  <2> QED
    BY <1>1, <1>2, <2>1, <2>2, <2>3 DEF TypeOK
<1>4. ASSUME NEW r \in Reservations, NEW o \in Finals, Settled(r, o)
      PROVE  used'[d] = Count(d, "confirmed")' /\ reserved'[d] = Count(d, "reserved")'
  <2> DEFINE n == rsv[r].amount
  <2>1. n \in Nat /\ rsv[r].status = "reserved" /\ Settle(r, o) /\ o # "reserved"
    BY <1>4, RowTypes DEF Settled, Finals
  <2>2. n <= Count(rsv[r].dev, "reserved")
    BY <2>1, ReservedAtLeast
  <2>3. /\ Count(d, "confirmed")' =
             Count(d, "confirmed") + IF d = rsv[r].dev /\ o = "confirmed" THEN n ELSE 0
        /\ Count(d, "reserved")' = Count(d, "reserved") + IF d = rsv[r].dev THEN 0 - n ELSE 0
    BY <2>1, SettleCounts
  <2> HIDE DEF n
  <2>4. CASE o = "confirmed"
    BY <1>1, <1>2, <1>4, <2>1, <2>3, <2>4 DEF Settled, TypeOK, n
  <2>5. CASE o # "confirmed"
    <3>1. /\ reserved' = [reserved EXCEPT ![rsv[r].dev] = IF @ >= n THEN @ - n ELSE 0]
          /\ used' = used
      BY <1>4, <2>5 DEF Settled, n
    <3>2. d = rsv[r].dev => n <= reserved[d]
      BY <1>1, <2>2
    <3> QED
      BY <1>1, <1>2, <2>1, <2>3, <2>5, <3>1, <3>2 DEF TypeOK
  <2> QED
    BY <2>4, <2>5
<1>5. CASE LedgerKept
  <2>1. Count(d, "confirmed")' = Count(d, "confirmed") /\ Count(d, "reserved")' = Count(d, "reserved")
    BY <1>5 DEF LedgerKept, Count, Uses
  <2>2. bound[d] = "none" => Count(d, "confirmed") = 0 /\ Count(d, "reserved") = 0
    BY NoRowNoUse
  <2> QED
    BY <1>1, <1>5, <2>1, <2>2 DEF LedgerKept
<1> QED
  BY <1>3, <1>4, <1>5, StepShape

LEMMA QuotaStep ==
  /\ TypeInv /\ KnownDevices /\ ReadsAreFresh /\ LedgerExact /\ NeverOversold
  /\ [Next]_vars
  => NeverOversold'
<1> SUFFICES ASSUME TypeInv, KnownDevices, ReadsAreFresh, LedgerExact, NeverOversold,
                    [Next]_vars, NEW d \in Devices
             PROVE  used'[d] + reserved'[d] <= Quota
  BY LedgerStep DEF NeverOversold, LedgerExact
<1>1. used[d] + reserved[d] <= Quota /\ used[d] \in Nat /\ reserved[d] \in Nat
  BY UsesFinite DEF NeverOversold, LedgerExact
<1> USE DEF TypeInv
<1>2. ASSUME NEW r \in Reservations, Frozen(r)
      PROVE  used'[d] + reserved'[d] <= Quota
  BY <1>1, <1>2, ConsumeAssumption DEF ConsumeAssumption, Frozen, TypeOK, Row, Amounts
<1>3. ASSUME NEW r \in Reservations, NEW o \in Finals, Settled(r, o)
      PROVE  used'[d] + reserved'[d] <= Quota
  <2> DEFINE n == rsv[r].amount
  <2>1. n \in Nat /\ Quota \in Nat
    BY RowTypes, ConsumeAssumption DEF ConsumeAssumption
  <2> HIDE DEF n
  <2>2. CASE o = "confirmed"
    BY <1>1, <1>3, <2>1, <2>2 DEF Settled, TypeOK, n
  <2>3. CASE o # "confirmed"
    <3>1. /\ reserved' = [reserved EXCEPT ![rsv[r].dev] = IF @ >= n THEN @ - n ELSE 0]
          /\ used' = used
      BY <1>3, <2>3 DEF Settled, n
    <3> QED
      BY <1>1, <2>1, <3>1 DEF TypeOK
  <2> QED
    BY <2>2, <2>3
<1>4. CASE LedgerKept
  BY <1>1, <1>4, ConsumeAssumption DEF LedgerKept, ConsumeAssumption
<1> QED
  BY <1>2, <1>3, <1>4, StepShape

LedgerInv ==
  TypeInv /\ Exclusive /\ KnownDevices /\ ReadsAreFresh /\ LedgerExact /\ NeverOversold

LEMMA LedgerInit == Init => LedgerInv
<1> SUFFICES ASSUME Init PROVE LedgerInv
  OBVIOUS
<1>1. Exclusive /\ KnownDevices /\ ReadsAreFresh
  BY DEF Init, Exclusive, KnownDevices, ReadsAreFresh, Finishing, Idle, NoRow
<1>2. ASSUME NEW d \in Devices
      PROVE  Count(d, "confirmed") = 0 /\ Count(d, "reserved") = 0
  BY <1>1, NoRowNoUse DEF Init
<1>3. LedgerExact /\ NeverOversold
  BY <1>2, ConsumeAssumption DEF ConsumeAssumption, Init, LedgerExact, NeverOversold
<1> QED
  BY TypeInit, <1>1, <1>3 DEF LedgerInv

LEMMA LedgerInvStep == LedgerInv /\ [ExclusiveNext]_vars => LedgerInv'
<1> SUFFICES ASSUME LedgerInv, [ExclusiveNext]_vars PROVE LedgerInv'
  OBVIOUS
<1>1. [Next]_vars
  BY DEF ExclusiveNext
<1>2. Exclusive'
  BY DEF LedgerInv, ExclusiveNext, Exclusive, Finishing, vars
<1> QED
  BY <1>1, <1>2, TypeStep, KnownDevicesStep, FreshStep, LedgerStep, QuotaStep DEF LedgerInv

(* As long as no two transactions finish one reservation at once, a device's
   two counters are exactly the uses its reservations stand for, whatever else
   is interleaved: nothing is charged twice, given back twice or lost. *)
THEOREM LedgerIsExact == ExclusiveSpec => []LedgerExact
<1>1. LedgerInv => LedgerExact
  BY DEF LedgerInv
<1> QED
  BY LedgerInit, LedgerInvStep, <1>1, PTL DEF ExclusiveSpec

(* And then a device is never granted more uses than were sold, however many
   requests compete for the last of them. *)
THEOREM QuotaHolds == ExclusiveSpec => []NeverOversold
<1>1. LedgerInv => NeverOversold
  BY DEF LedgerInv
<1> QED
  BY LedgerInit, LedgerInvStep, <1>1, PTL DEF ExclusiveSpec
(* A use once charged stays charged: whatever overlaps, no step takes one back,
   binding a device again included, since its quota is given with its row and
   a device that had none has no use charged.                                 *)
THEOREM UsesStayCharged == ExclusiveSpec => UsedNeverFalls
<1>1. LedgerInv /\ [ExclusiveNext]_vars => [\A d \in Devices : used'[d] >= used[d]]_vars
  <2> SUFFICES ASSUME LedgerInv, [Next]_vars, NEW d \in Devices PROVE used'[d] >= used[d]
    BY DEF ExclusiveNext
  <2>0. TypeInv /\ KnownDevices /\ ReadsAreFresh /\ LedgerExact /\ used \in [Devices -> Int]
    BY DEF LedgerInv, TypeInv, TypeOK
  <2>1. ASSUME NEW r \in Reservations, Frozen(r)
        PROVE  used'[d] >= used[d]
    BY <2>0, <2>1 DEF Frozen
  <2>2. ASSUME NEW r \in Reservations, NEW o \in Finals, Settled(r, o)
        PROVE  used'[d] >= used[d]
    <3>1. rsv[r].amount \in Nat
      BY <2>0, RowTypes DEF TypeInv
    <3> QED
      BY <2>0, <2>2, <3>1 DEF Settled
  <2>3. CASE LedgerKept
    <3>1. CASE used'[d] = used[d]
      BY <2>0, <3>1
    <3>2. CASE bound[d] = "none" /\ used'[d] = 0
      <4>1. used[d] = 0
        BY <2>0, <3>2, NoRowNoUse DEF LedgerExact
      <4> QED
        BY <3>2, <4>1
    <3> QED
      BY <2>3, <3>1, <3>2 DEF LedgerKept
  <2> QED
    BY <2>0, <2>1, <2>2, <2>3, StepShape
<1> QED
  BY LedgerInit, LedgerInvStep, <1>1, PTL DEF ExclusiveSpec, UsedNeverFalls

-----------------------------------------------------------------------------
(* Refinement                                                                *)

LEMMA LedgerStates ==
  /\ LedgerState["none"] = "none" /\ LedgerState["reserved"] = "frozen"
  /\ LedgerState["confirmed"] = "spent" /\ LedgerState["released"] = "refunded"
  /\ LedgerState["expired"] = "refunded"
  BY DEF LedgerState

LEMMA TakenIsCounted ==
  ASSUME TypeOK, LedgerExact, NEW d \in Devices
  PROVE  Ledger!Taken(d) = used[d] + reserved[d]
<1> DEFINE Held == Uses(d, "reserved")  Spent == Uses(d, "confirmed")
<1>1. \A r \in Reservations :
        LedgerState[rsv[r].status] \in {"frozen", "spent"} <=> rsv[r].status \in {"reserved", "confirmed"}
  BY LedgerStates DEF TypeOK, Row, NoRow, Finals
<1>2. Ledger!Uses(d, {"frozen", "spent"}) = Held \cup Spent
  BY <1>1 DEF Ledger!Uses, Ledger!Amounts, Uses, Amounts
<1>3. Held \cap Spent = {}
  BY DEF Uses
<1>4. /\ IsFiniteSet(Held) /\ IsFiniteSet(Spent)
      /\ Cardinality(Held) = reserved[d] /\ Cardinality(Spent) = used[d]
      /\ reserved[d] \in Nat /\ used[d] \in Nat
  BY UsesFinite DEF LedgerExact, Count
<1> HIDE DEF Held, Spent
<1>5. Cardinality(Held \cup Spent) = Cardinality(Held) + Cardinality(Spent) - 0
  BY <1>3, <1>4, FS_Union, FS_EmptySet
<1>6. Ledger!Taken(d) = Cardinality(Held \cup Spent)
  <2>1. Ledger!Taken(d) = Cardinality(Ledger!Uses(d, {"frozen", "spent"}))
    BY Zenon DEF Ledger!Taken, Ledger!Cardinality, Cardinality
  <2> QED
    BY <1>2, <2>1
<1> QED
  BY <1>4, <1>5, <1>6

LEMMA LedgerRefinementStep ==
  LedgerInv /\ [ExclusiveNext]_vars => Ledger!Next \/ UNCHANGED rsv
<1> SUFFICES ASSUME LedgerInv, [ExclusiveNext]_vars, ~UNCHANGED rsv
             PROVE  Ledger!Next
  OBVIOUS
<1> USE DEF LedgerInv, TypeInv
<1> DEFINE entry == [r \in Reservations |->
              [state |-> LedgerState[rsv[r].status], dev |-> rsv[r].dev,
               amount |-> rsv[r].amount]]
<1>1. [Next]_vars
  BY DEF ExclusiveNext
<1>2. ASSUME NEW r \in Reservations, Frozen(r)
      PROVE  Ledger!Next
  <2>1. PICK row \in Row :
          /\ rsv[r].status = "none" /\ row.status = "reserved"
          /\ used[row.dev] + reserved[row.dev] + row.amount <= Quota
          /\ rsv' = [rsv EXCEPT ![r] = row]
    BY <1>2 DEF Frozen
  <2>2. row.dev \in Devices /\ row.amount \in Amounts
    BY <2>1 DEF Row
  <2>3. Ledger!Taken(row.dev) + row.amount <= Quota
    BY <2>1, <2>2, TakenIsCounted
  <2>4. entry' = [entry EXCEPT ![r] = [state |-> "frozen", dev |-> row.dev, amount |-> row.amount]]
    BY <2>1, LedgerStates DEF TypeOK
  <2>5. entry[r].state = "none"
    BY <2>1, LedgerStates
  <2>6. Ledger!Freeze(r, row.dev, row.amount)
    BY <2>3, <2>4, <2>5 DEF Ledger!Freeze
  <2> QED
    BY <2>2, <2>6 DEF Ledger!Next, Ledger!Amounts, Amounts
<1>3. ASSUME NEW r \in Reservations, NEW o \in Finals, Settled(r, o)
      PROVE  Ledger!Next
  <2>1. rsv[r].status = "reserved" /\ rsv' = [rsv EXCEPT ![r].status = o]
    BY <1>3 DEF Settled, Settle
  <2>2. /\ rsv'[r].status = o /\ rsv'[r].dev = rsv[r].dev /\ rsv'[r].amount = rsv[r].amount
        /\ \A q \in Reservations \ {r} : rsv'[q] = rsv[q]
    BY <2>1, RowTypes DEF TypeOK, Row
  <2>3. entry[r].state = "frozen"
    BY <2>1, LedgerStates
  <2>4. entry' = [entry EXCEPT ![r].state = LedgerState[o]]
    BY <2>2
  <2>5. LedgerState[o] \in {"spent", "refunded"}
    BY LedgerStates DEF Finals
  <2>6. Ledger!Spend(r) \/ Ledger!Refund(r)
    BY <2>3, <2>4, <2>5 DEF Ledger!Spend, Ledger!Refund
  <2> QED
    BY <2>6 DEF Ledger!Next
<1> QED
  BY <1>1, <1>2, <1>3, StepShape DEF LedgerKept

(* Counters, snapshots, sweeps, retries and rebinding included, the service
   implements the abstract ledger: it grants each reservation once, within the
   quota, and settles it once. *)
THEOREM ConsumeImplementsLedger == ExclusiveSpec => ImplementsLedger
<1>1. Init => Ledger!Init
  BY LedgerStates DEF Init, Ledger!Init, NoRow
<1>2. LedgerInv /\ [ExclusiveNext]_vars =>
        [Ledger!Next]_([r \in Reservations |->
              [state |-> LedgerState[rsv[r].status], dev |-> rsv[r].dev,
               amount |-> rsv[r].amount]])
  BY LedgerRefinementStep
<1> QED
  BY LedgerInit, LedgerInvStep, <1>1, <1>2, PTL DEF ExclusiveSpec, ImplementsLedger, Ledger!Spec

=============================================================================
