------------------------- MODULE Licensing_proofs -------------------------
(* Theorems about Licensing and Sales, for every set of requests, clerks and  *)
(* devices and every value of the plan's limits.                             *)
EXTENDS Licensing, Sales, FiniteSetTheorems, TLAPS

-----------------------------------------------------------------------------
(* Type correctness. Sign builds a token from the request's device, so TypeOK
   alone is not inductive: a request in progress names a device.             *)

RequestsNameDevices == \A c \in Clients : pc[c] # "idle" => req[c].dev \in Devices

TypeInv == TypeOK /\ RequestsNameDevices

LEMMA TypeInit == Init => TypeInv
  BY LicensingAssumption
  DEF LicensingAssumption, Init, TypeInv, TypeOK, RequestsNameDevices, Statuses,
      Steps, NoReq, Request, NoCmd, Command, Ops, Token

LEMMA TypeStep == TypeInv /\ [Next]_vars => TypeInv'
<1> SUFFICES ASSUME TypeInv, [Next]_vars PROVE TypeInv'
  OBVIOUS
<1> USE LicensingAssumption
    DEF LicensingAssumption, TypeInv, TypeOK, RequestsNameDevices, cardVars, Statuses,
        Steps, Token, Request, NoReq, Goto, Finish, Unlock
<1>1. ASSUME NEW c \in Clients, NEW d \in Devices, Activate(c, d) \/ Deactivate(c, d)
      PROVE  TypeInv'
  <2>1. PICK s \in {"bindRead", "unbindRead"} : LockCard(c, d, s)
    BY <1>1 DEF Activate, Deactivate
  <2>2. [NoReq EXCEPT !.dev = d] \in Request
    OBVIOUS
  <2> QED
    BY <2>1, <2>2 DEF LockCard
<1>2. ASSUME NEW c \in Clients, NEW t \in tokens, Verify(c, t)
      PROVE  TypeInv'
  BY <1>2 DEF Verify
<1>3. ASSUME NEW c \in Clients, BindRead(c)
      PROVE  TypeInv'
  <2>1. req' \in [Clients -> Request]
    BY <1>3 DEF BindRead
  <2>2. pc' \in [Clients -> Steps] /\ lock' \in Clients \cup {Null}
    BY <1>3 DEF BindRead
  <2>3. RequestsNameDevices'
    BY <1>3 DEF BindRead
  <2> QED
    BY <1>3, <2>1, <2>2, <2>3 DEF BindRead
<1>4. ASSUME NEW c \in Clients, BindWrite(c)
      PROVE  TypeInv'
  <2>1. expiresAt' \in Nat \cup {Null} /\ activatedAt' \in Nat \cup {Null}
    BY <1>4 DEF BindWrite, ExpiryFrom
  <2>2. req' \in [Clients -> Request] /\ pc' \in [Clients -> Steps]
    BY <1>4 DEF BindWrite
  <2>3. RequestsNameDevices'
    BY <1>4 DEF BindWrite
  <2> QED
    BY <1>4, <2>1, <2>2, <2>3 DEF BindWrite
<1>5. ASSUME NEW c \in Clients, Sign(c)
      PROVE  TypeInv'
  <2>1. [dev |-> req[c].dev, ver |-> req[c].ver] \in Token
    BY <1>5 DEF Sign
  <2> QED
    BY <1>5, <2>1 DEF Sign
<1>6. ASSUME NEW c \in Clients, MarkExpired(c) \/ ReadDevice(c)
      PROVE  TypeInv'
  <2>1. CASE MarkExpired(c)
    BY <2>1 DEF MarkExpired
  <2>2. CASE ReadDevice(c)
    BY <2>2 DEF ReadDevice
  <2> QED
    BY <1>6, <2>1, <2>2
<1>7. ASSUME NEW c \in Clients, UnbindRead(c) \/ UnbindWrite(c) \/ Abort(c)
      PROVE  TypeInv'
  <2>1. CASE UnbindRead(c)
    BY <2>1 DEF UnbindRead
  <2>2. CASE UnbindWrite(c)
    BY <2>2 DEF UnbindWrite
  <2>3. CASE Abort(c)
    BY <2>3 DEF Abort
  <2> QED
    BY <1>7, <2>1, <2>2, <2>3
<1>8. ASSUME NEW a \in Admins, AdminOrder(a)
      PROVE  TypeInv'
  <2>1. CASE OrderBan(a) \/ OrderRevoke(a) \/ OrderUnban(a)
    <3>1. PICK op \in Ops, s \in Statuses : Order(a, op, s, Null, Null)
      BY <2>1 DEF OrderBan, OrderRevoke, OrderUnban, Ops
    <3> QED
      BY <3>1 DEF Order, Command
  <2>2. CASE OrderRenew(a)
    <3>1. PICK s \in Statuses, e \in Nat : Order(a, "renew", s, e, Null)
      BY <2>2 DEF OrderRenew
    <3> QED
      BY <3>1 DEF Order, Command, Ops
  <2>3. ASSUME NEW d \in Devices, OrderUnbind(a, d, "unbind") \/ OrderUnbind(a, d, "unbindCounted")
        PROVE  TypeInv'
    BY <2>3 DEF OrderUnbind, Order, Command, Ops
  <2> QED
    BY <1>8, <2>1, <2>2, <2>3 DEF AdminOrder
<1>9. ASSUME NEW a \in Admins, AdminWrite(a) \/ AbortOrder(a)
      PROVE  TypeInv'
  BY <1>9 DEF AdminWrite, WriteStatus, WriteUnbind, AbortOrder, Dismiss, NoCmd, Command, Ops
<1>10. ASSUME Tick
       PROVE  TypeInv'
  BY <1>10 DEF Tick
<1>11. ASSUME UNCHANGED vars
       PROVE  TypeInv'
  BY <1>11 DEF vars
<1> QED
  BY <1>1, <1>2, <1>3, <1>4, <1>5, <1>6, <1>7, <1>8, <1>9, <1>10, <1>11
     DEF Next, ClientStart, ClientStep

(* The state of a card, its devices and the requests on it keep the shape that
   the database columns and the code's locals give them. *)
THEOREM TypeCorrect == Spec => []TypeOK
<1>1. TypeInv => TypeOK
  BY DEF TypeInv
<1> QED
  BY TypeInit, TypeStep, <1>1, PTL DEF Spec

-----------------------------------------------------------------------------
(* The row lock. Between bindDevice's or deactivate's read and its write the *)
(* transaction holds the card's row, so what it read still stands.           *)

InTransaction == {"bindRead", "bindWrite", "unbindRead", "unbindWrite"}

LockInv == \A c \in Clients : pc[c] \in InTransaction => lock = c

(* Room for the device a transaction is about to bind. *)
BindInv ==
  /\ IsFiniteSet(ActiveDevices)
  /\ Cardinality(ActiveDevices) <= DeviceLimit
  /\ \A c \in Clients :
       pc[c] = "bindWrite" => Cardinality(ActiveDevices \cup {req[c].dev}) <= DeviceLimit

(* Room in the rebind quota for an unbinding about to be written. *)
RebindInv ==
  /\ selfUnbinds <= rebindCount
  /\ RebindLimit # Null => selfUnbinds <= RebindLimit
  /\ \A c \in Clients :
       pc[c] = "unbindWrite" /\ RebindLimit # Null => rebindCount < RebindLimit

(* Versions only grow; a token, or one about to be signed, that carries the
   current version belongs to a bound device. *)
TokenInv ==
  /\ \A t \in tokens : t.ver <= tokenVersion
  /\ \A t \in tokens : t.ver = tokenVersion => binding[t.dev] = "active"
  /\ \A c \in Clients : req[c].ver <= tokenVersion
  /\ \A c \in Clients :
       pc[c] = "sign" /\ req[c].ver = tokenVersion => binding[req[c].dev] = "active"

(* One administrator at a time: what its command read is still so when it is
   written, as far as banned and revoked go. *)
OneAdmin == \A a, b \in Admins : a = b

Barred == {"banned", "revoked"}

BarredInv ==
  /\ status \in Barred => \A t \in tokens : t.ver # tokenVersion
  /\ status \in Barred => \A c \in Clients :
        pc[c] \in {"readDevice", "sign"} => req[c].ver # tokenVersion
  /\ \A c \in Clients : pc[c] = "bindWrite" => status \notin Barred
  /\ \A a \in Admins :
       /\ cmd[a].op = "unban" => cmd[a].status \notin Barred
       /\ cmd[a].op = "ban" => cmd[a].status = "banned"
       /\ cmd[a].op = "revoke" => cmd[a].status = "revoked"
       /\ cmd[a].op \in {"ban", "unban", "renew"} => status # "revoked"
       /\ cmd[a].op = "renew" => cmd[a].status # "revoked"
       /\ cmd[a].op = "renew" /\ cmd[a].status = "banned" => status = "banned"

LEMMA LockStep == TypeInv /\ LockInv /\ [Next]_vars => LockInv'
<1> SUFFICES ASSUME TypeInv, LockInv, [Next]_vars PROVE LockInv'
  OBVIOUS
<1> USE LicensingAssumption
    DEF LicensingAssumption, TypeInv, TypeOK, cardVars, LockInv, InTransaction, Goto, Finish, Unlock
<1>1. ASSUME NEW c \in Clients, NEW d \in Devices, Activate(c, d) \/ Deactivate(c, d)
      PROVE  LockInv'
  BY <1>1 DEF Activate, Deactivate, LockCard, NoReq
<1>2. ASSUME NEW c \in Clients, NEW t \in tokens, Verify(c, t)
      PROVE  LockInv'
  BY <1>2 DEF Verify, NoReq
<1>3. ASSUME NEW c \in Clients, BindRead(c)
      PROVE  LockInv'
  BY <1>3 DEF BindRead
<1>4. ASSUME NEW c \in Clients, BindWrite(c)
      PROVE  LockInv'
  BY <1>4 DEF BindWrite, ExpiryFrom
<1>5. ASSUME NEW c \in Clients, Sign(c) \/ MarkExpired(c) \/ ReadDevice(c)
      PROVE  LockInv'
  BY <1>5 DEF Sign, MarkExpired, ReadDevice
<1>6. ASSUME NEW c \in Clients, UnbindRead(c)
      PROVE  LockInv'
  BY <1>6 DEF UnbindRead
<1>7. ASSUME NEW c \in Clients, UnbindWrite(c)
      PROVE  LockInv'
  BY <1>7 DEF UnbindWrite
<1>8. ASSUME NEW c \in Clients, Abort(c)
      PROVE  LockInv'
  BY <1>8 DEF Abort
<1>9. ASSUME NEW a \in Admins, AdminOrder(a) \/ AbortOrder(a)
      PROVE  LockInv'
  BY <1>9 DEF AdminOrder, OrderBan, OrderRevoke, OrderUnban, OrderRenew, OrderUnbind, Order,
         AbortOrder, Dismiss, NoCmd
<1>10. ASSUME NEW a \in Admins, WriteStatus(a)
       PROVE  LockInv'
  BY <1>10 DEF WriteStatus, Dismiss, NoCmd
<1>11. ASSUME NEW a \in Admins, WriteUnbind(a)
       PROVE  LockInv'
  BY <1>11 DEF WriteUnbind, Dismiss, NoCmd
<1>12. ASSUME Tick \/ UNCHANGED vars
       PROVE  LockInv'
  BY <1>12 DEF Tick, vars
<1> QED
  BY <1>1, <1>2, <1>3, <1>4, <1>5, <1>6, <1>7, <1>8, <1>9, <1>10, <1>11, <1>12
     DEF Next, ClientStart, ClientStep, AdminWrite

LEMMA BindStep == TypeInv /\ LockInv /\ BindInv /\ [Next]_vars => BindInv'
<1> SUFFICES ASSUME TypeInv, LockInv, BindInv, [Next]_vars PROVE BindInv'
  OBVIOUS
<1> USE LicensingAssumption
    DEF LicensingAssumption, TypeInv, TypeOK, RequestsNameDevices, cardVars, LockInv, InTransaction,
        BindInv, Goto, Finish, Unlock
<1>1. ASSUME NEW c \in Clients, NEW d \in Devices, Activate(c, d) \/ Deactivate(c, d)
      PROVE  BindInv'
  <2>1. PICK s \in {"bindRead", "unbindRead"} : LockCard(c, d, s)
    BY <1>1 DEF Activate, Deactivate
  <2>2. ActiveDevices' = ActiveDevices
    BY <2>1 DEF ActiveDevices, LockCard
  <2>3. \A x \in Clients : pc'[x] = "bindWrite" => pc[x] = "bindWrite" /\ req'[x] = req[x]
    BY <2>1 DEF LockCard
  <2> QED
    BY <2>2, <2>3
<1>2. ASSUME NEW c \in Clients, NEW t \in tokens, Verify(c, t)
      PROVE  BindInv'
  BY <1>2 DEF ActiveDevices, Verify, NoReq
<1>3. ASSUME NEW c \in Clients, BindRead(c)
      PROVE  BindInv'
  <2>1. ActiveDevices' = ActiveDevices /\ \A x \in Clients \ {c} : pc'[x] = pc[x] /\ req'[x] = req[x]
    BY <1>3 DEF ActiveDevices, BindRead
  <2>2. ASSUME pc'[c] = "bindWrite"
        PROVE  Cardinality(ActiveDevices \cup {req'[c].dev}) <= DeviceLimit
    <3>1. req'[c].dev = req[c].dev /\ ~BindRefused(c) /\ EffectiveStatus # "expired"
      BY <1>3, <2>2 DEF BindRead, Request
    <3>2. EffectiveStatus \in {"unused", "active"}
      BY <3>1 DEF BindRefused, EffectiveStatus, Statuses
    <3>3. CASE req[c].dev \in ActiveDevices
      <4>1. ActiveDevices \cup {req[c].dev} = ActiveDevices
        BY <3>3
      <4> QED
        BY <3>1, <4>1
    <3>4. CASE req[c].dev \notin ActiveDevices
      <4>1. ~(Cardinality(ActiveDevices) >= DeviceLimit)
        BY <3>1, <3>2, <3>4, <1>3 DEF ActiveDevices, BindRefused, BindRead
      <4>2. Cardinality(ActiveDevices \cup {req[c].dev}) = Cardinality(ActiveDevices) + 1
        BY <3>4, FS_AddElement
      <4> QED
        BY <3>1, <4>1, <4>2, FS_CardinalityType
    <3> QED
      BY <3>3, <3>4
  <2> QED
    BY <2>1, <2>2
<1>4. ASSUME NEW c \in Clients, BindWrite(c)
      PROVE  BindInv'
  <2>1. ActiveDevices' = ActiveDevices \cup {req[c].dev}
    BY <1>4 DEF ActiveDevices, BindWrite
  <2>2. \A x \in Clients : pc'[x] # "bindWrite"
    BY <1>4 DEF BindWrite
  <2>3. IsFiniteSet(ActiveDevices \cup {req[c].dev})
    BY FS_AddElement
  <2> QED
    BY <1>4, <2>1, <2>2, <2>3 DEF BindWrite
<1>5. ASSUME NEW c \in Clients, Sign(c) \/ MarkExpired(c) \/ ReadDevice(c)
      PROVE  BindInv'
  <2>1. ActiveDevices' = ActiveDevices
    BY <1>5 DEF ActiveDevices, Sign, MarkExpired, ReadDevice
  <2>2. \A x \in Clients : pc'[x] = "bindWrite" => pc[x] = "bindWrite" /\ req'[x] = req[x]
    BY <1>5 DEF Sign, MarkExpired, ReadDevice
  <2> QED
    BY <2>1, <2>2
<1>6. ASSUME NEW c \in Clients, UnbindRead(c)
      PROVE  BindInv'
  <2>1. ActiveDevices' = ActiveDevices
    BY <1>6 DEF ActiveDevices, UnbindRead
  <2>2. \A x \in Clients : pc'[x] = "bindWrite" => pc[x] = "bindWrite" /\ req'[x] = req[x]
    BY <1>6 DEF UnbindRead
  <2> QED
    BY <2>1, <2>2
<1>7. ASSUME NEW c \in Clients, UnbindWrite(c)
      PROVE  BindInv'
  <2>1. ActiveDevices' \subseteq ActiveDevices
    BY <1>7 DEF ActiveDevices, UnbindWrite
  <2>2. \A x \in Clients : pc'[x] # "bindWrite"
    BY <1>7 DEF UnbindWrite
  <2>3. IsFiniteSet(ActiveDevices') /\ Cardinality(ActiveDevices') <= Cardinality(ActiveDevices)
    BY <2>1, FS_Subset
  <2> QED
    BY <2>2, <2>3, FS_CardinalityType
<1>8. ASSUME NEW c \in Clients, Abort(c)
      PROVE  BindInv'
  BY <1>8 DEF ActiveDevices, Abort
<1>9. ASSUME NEW a \in Admins, AdminOrder(a) \/ AbortOrder(a)
      PROVE  BindInv'
  BY <1>9 DEF ActiveDevices, AdminOrder, OrderBan, OrderRevoke, OrderUnban, OrderRenew, OrderUnbind, Order,
         AbortOrder, Dismiss, NoCmd
<1>10. ASSUME NEW a \in Admins, WriteStatus(a)
       PROVE  BindInv'
  BY <1>10 DEF ActiveDevices, WriteStatus, Dismiss, NoCmd
<1>11. ASSUME NEW a \in Admins, WriteUnbind(a)
       PROVE  BindInv'
  <2>1. ActiveDevices' \subseteq ActiveDevices
    BY <1>11 DEF ActiveDevices, WriteUnbind
  <2>2. \A x \in Clients : pc'[x] # "bindWrite"
    BY <1>11 DEF WriteUnbind
  <2>3. IsFiniteSet(ActiveDevices') /\ Cardinality(ActiveDevices') <= Cardinality(ActiveDevices)
    BY <2>1, FS_Subset
  <2> QED
    BY <2>2, <2>3, FS_CardinalityType
<1>12. ASSUME Tick \/ UNCHANGED vars
       PROVE  BindInv'
  BY <1>12 DEF ActiveDevices, Tick, vars
<1> QED
  BY <1>1, <1>2, <1>3, <1>4, <1>5, <1>6, <1>7, <1>8, <1>9, <1>10, <1>11, <1>12
     DEF Next, ClientStart, ClientStep, AdminWrite

LEMMA RebindStep == TypeInv /\ LockInv /\ RebindInv /\ [Next]_vars => RebindInv'
<1> SUFFICES ASSUME TypeInv, LockInv, RebindInv, [Next]_vars PROVE RebindInv'
  OBVIOUS
<1> USE LicensingAssumption
    DEF LicensingAssumption, TypeInv, TypeOK, cardVars, LockInv, InTransaction,
        RebindInv, MayUnbind, Goto, Finish, Unlock
<1>1. ASSUME NEW c \in Clients, NEW d \in Devices, Activate(c, d) \/ Deactivate(c, d)
      PROVE  RebindInv'
  BY <1>1 DEF Activate, Deactivate, LockCard, NoReq
<1>2. ASSUME NEW c \in Clients, NEW t \in tokens, Verify(c, t)
      PROVE  RebindInv'
  BY <1>2 DEF Verify, NoReq
<1>3. ASSUME NEW c \in Clients, BindRead(c)
      PROVE  RebindInv'
  BY <1>3 DEF BindRead
<1>4. ASSUME NEW c \in Clients, BindWrite(c)
      PROVE  RebindInv'
  BY <1>4 DEF BindWrite, ExpiryFrom
<1>5. ASSUME NEW c \in Clients, Sign(c) \/ MarkExpired(c) \/ ReadDevice(c)
      PROVE  RebindInv'
  BY <1>5 DEF Sign, MarkExpired, ReadDevice
<1>6. ASSUME NEW c \in Clients, UnbindRead(c)
      PROVE  RebindInv'
  BY <1>6 DEF UnbindRead
<1>7. ASSUME NEW c \in Clients, UnbindWrite(c)
      PROVE  RebindInv'
  BY <1>7 DEF UnbindWrite
<1>8. ASSUME NEW c \in Clients, Abort(c)
      PROVE  RebindInv'
  BY <1>8 DEF Abort
<1>9. ASSUME NEW a \in Admins, AdminOrder(a) \/ AbortOrder(a)
      PROVE  RebindInv'
  BY <1>9 DEF AdminOrder, OrderBan, OrderRevoke, OrderUnban, OrderRenew, OrderUnbind, Order,
         AbortOrder, Dismiss, NoCmd
<1>10. ASSUME NEW a \in Admins, WriteStatus(a)
       PROVE  RebindInv'
  BY <1>10 DEF WriteStatus, Dismiss, NoCmd
<1>11. ASSUME NEW a \in Admins, WriteUnbind(a)
       PROVE  RebindInv'
  BY <1>11 DEF WriteUnbind, Dismiss, NoCmd
<1>12. ASSUME Tick \/ UNCHANGED vars
       PROVE  RebindInv'
  BY <1>12 DEF Tick, vars
<1> QED
  BY <1>1, <1>2, <1>3, <1>4, <1>5, <1>6, <1>7, <1>8, <1>9, <1>10, <1>11, <1>12
     DEF Next, ClientStart, ClientStep, AdminWrite

LEMMA TokenStep == TypeInv /\ TokenInv /\ [Next]_vars => TokenInv'
<1> SUFFICES ASSUME TypeInv, TokenInv, [Next]_vars PROVE TokenInv'
  OBVIOUS
<1> USE LicensingAssumption
    DEF LicensingAssumption, TypeInv, TypeOK, RequestsNameDevices, cardVars, Token, Request, NoReq,
        TokenInv, Goto, Finish, Unlock
<1>1. ASSUME NEW c \in Clients, NEW d \in Devices, Activate(c, d) \/ Deactivate(c, d)
      PROVE  TokenInv'
  <2>1. PICK s \in {"bindRead", "unbindRead"} : LockCard(c, d, s)
    BY <1>1 DEF Activate, Deactivate
  <2>2. UNCHANGED <<tokens, tokenVersion, binding>>
    BY <2>1 DEF LockCard
  <2>3. pc'[c] # "sign" /\ req'[c].ver = 0
    BY <2>1 DEF LockCard
  <2>4. \A x \in Clients \ {c} : pc'[x] = pc[x] /\ req'[x] = req[x]
    BY <2>1 DEF LockCard
  <2> QED
    BY <2>2, <2>3, <2>4
<1>2. ASSUME NEW c \in Clients, NEW t \in tokens, Verify(c, t)
      PROVE  TokenInv'
  BY <1>2 DEF Verify, NoReq
<1>3. ASSUME NEW c \in Clients, BindRead(c)
      PROVE  TokenInv'
  <2>1. UNCHANGED <<tokens, tokenVersion, binding>>
    BY <1>3 DEF BindRead
  <2>2. pc'[c] # "sign" /\ req'[c].ver \in {0, req[c].ver}
    BY <1>3 DEF BindRead
  <2>3. \A x \in Clients \ {c} : pc'[x] = pc[x] /\ req'[x] = req[x]
    BY <1>3 DEF BindRead
  <2> QED
    BY <2>1, <2>2, <2>3
<1>4. ASSUME NEW c \in Clients, BindWrite(c)
      PROVE  TokenInv'
  BY <1>4 DEF BindWrite, ExpiryFrom
<1>5. ASSUME NEW c \in Clients, Sign(c) \/ MarkExpired(c) \/ ReadDevice(c)
      PROVE  TokenInv'
  BY <1>5 DEF Sign, MarkExpired, ReadDevice
<1>6. ASSUME NEW c \in Clients, UnbindRead(c)
      PROVE  TokenInv'
  BY <1>6 DEF UnbindRead
<1>7. ASSUME NEW c \in Clients, UnbindWrite(c)
      PROVE  TokenInv'
  BY <1>7 DEF UnbindWrite
<1>8. ASSUME NEW c \in Clients, Abort(c)
      PROVE  TokenInv'
  BY <1>8 DEF Abort
<1>9. ASSUME NEW a \in Admins, AdminOrder(a) \/ AbortOrder(a)
      PROVE  TokenInv'
  BY <1>9 DEF AdminOrder, OrderBan, OrderRevoke, OrderUnban, OrderRenew, OrderUnbind, Order,
         AbortOrder, Dismiss, NoCmd
<1>10. ASSUME NEW a \in Admins, WriteStatus(a)
       PROVE  TokenInv'
  BY <1>10 DEF WriteStatus, Dismiss, NoCmd
<1>11. ASSUME NEW a \in Admins, WriteUnbind(a)
       PROVE  TokenInv'
  BY <1>11 DEF WriteUnbind, Dismiss, NoCmd
<1>12. ASSUME Tick \/ UNCHANGED vars
       PROVE  TokenInv'
  BY <1>12 DEF Tick, vars
<1> QED
  BY <1>1, <1>2, <1>3, <1>4, <1>5, <1>6, <1>7, <1>8, <1>9, <1>10, <1>11, <1>12
     DEF Next, ClientStart, ClientStep, AdminWrite

LEMMA BarredStep ==
  ASSUME OneAdmin
  PROVE  TypeInv /\ LockInv /\ TokenInv /\ BarredInv /\ [Next]_vars => BarredInv'
<1> SUFFICES ASSUME TypeInv, LockInv, TokenInv, BarredInv, [Next]_vars PROVE BarredInv'
  OBVIOUS
<1> USE LicensingAssumption
    DEF LicensingAssumption, TypeInv, TypeOK, cardVars, LockInv, InTransaction, TokenInv,
        BarredInv, Barred, OneAdmin, EffectiveStatus, Goto, Finish, Unlock
<1>1. ASSUME NEW c \in Clients, NEW d \in Devices, Activate(c, d) \/ Deactivate(c, d)
      PROVE  BarredInv'
  BY <1>1 DEF Activate, Deactivate, LockCard, NoReq
<1>2. ASSUME NEW c \in Clients, NEW t \in tokens, Verify(c, t)
      PROVE  BarredInv'
  BY <1>2 DEF Verify, NoReq
<1>3. ASSUME NEW c \in Clients, BindRead(c)
      PROVE  BarredInv'
  <2>1. pc'[c] = "bindWrite" => status \notin Barred
    BY <1>3 DEF BindRead, BindRefused
  <2>2. \A x \in Clients : pc'[x] \in {"readDevice", "sign"} =>
                              pc'[x] = pc[x] /\ req'[x] = req[x]
    BY <1>3 DEF BindRead
  <2>3. \A x \in Clients \ {c} : pc'[x] = pc[x]
    BY <1>3 DEF BindRead
  <2> QED
    BY <1>3, <2>1, <2>2, <2>3 DEF BindRead
<1>4. ASSUME NEW c \in Clients, BindWrite(c)
      PROVE  BarredInv'
  BY <1>4 DEF BindWrite, ExpiryFrom
<1>5. ASSUME NEW c \in Clients, Sign(c) \/ MarkExpired(c) \/ ReadDevice(c)
      PROVE  BarredInv'
  BY <1>5 DEF Sign, MarkExpired, ReadDevice
<1>6. ASSUME NEW c \in Clients, UnbindRead(c)
      PROVE  BarredInv'
  BY <1>6 DEF UnbindRead
<1>7. ASSUME NEW c \in Clients, UnbindWrite(c)
      PROVE  BarredInv'
  BY <1>7 DEF UnbindWrite
<1>8. ASSUME NEW c \in Clients, Abort(c)
      PROVE  BarredInv'
  BY <1>8 DEF Abort
<1>9. ASSUME NEW a \in Admins, AdminOrder(a) \/ AbortOrder(a)
      PROVE  BarredInv'
  BY <1>9 DEF AdminOrder, OrderBan, OrderRevoke, OrderUnban, OrderRenew, OrderUnbind, Order,
         AbortOrder, Dismiss, NoCmd
<1>10. ASSUME NEW a \in Admins, WriteStatus(a)
       PROVE  BarredInv'
  <2>1. \A b \in Admins : cmd'[b].op = "none"
    BY <1>10 DEF WriteStatus, Dismiss, NoCmd
  <2>2. \A x \in Clients : pc[x] # "bindWrite"
    BY <1>10 DEF WriteStatus
  <2>3. CASE cmd[a].op \in {"ban", "revoke"}
    <3>1. tokenVersion' = tokenVersion + 1
      BY <1>10, <2>3 DEF WriteStatus, Raising
    <3> QED
      BY <1>10, <2>1, <2>2, <3>1 DEF WriteStatus, Token, Request
  <2>4. CASE cmd[a].op = "unban"
    BY <1>10, <2>1, <2>2, <2>4 DEF WriteStatus
  <2>5. CASE cmd[a].op = "renew"
    <3>1. tokenVersion' = tokenVersion
      BY <1>10, <2>5 DEF WriteStatus, Raising
    <3> QED
      BY <1>10, <2>1, <2>2, <2>5, <3>1 DEF WriteStatus
  <2> QED
    BY <1>10, <2>3, <2>4, <2>5 DEF WriteStatus
<1>11. ASSUME NEW a \in Admins, WriteUnbind(a)
       PROVE  BarredInv'
  BY <1>11 DEF WriteUnbind, Dismiss, NoCmd
<1>12. ASSUME Tick \/ UNCHANGED vars
       PROVE  BarredInv'
  BY <1>12 DEF Tick, vars
<1> QED
  BY <1>1, <1>2, <1>3, <1>4, <1>5, <1>6, <1>7, <1>8, <1>9, <1>10, <1>11, <1>12
     DEF Next, ClientStart, ClientStep, AdminWrite

-----------------------------------------------------------------------------
(* The theorems.                                                             *)

SafetyInv == TypeInv /\ LockInv /\ BindInv /\ RebindInv /\ TokenInv

LEMMA SafetyInit == Init => SafetyInv /\ BarredInv
<1> SUFFICES ASSUME Init PROVE SafetyInv /\ BarredInv
  OBVIOUS
<1>1. TypeInv
  BY TypeInit
<1>2. ActiveDevices = {} /\ \A c \in Clients : pc[c] = "idle" /\ req[c].ver = 0
  BY DEF Init, ActiveDevices, NoReq
<1>3. LockInv
  BY <1>2 DEF LockInv, InTransaction
<1>4. BindInv
  BY <1>2, FS_EmptySet, LicensingAssumption DEF LicensingAssumption, BindInv
<1>5. RebindInv
  BY <1>2, LicensingAssumption DEF LicensingAssumption, Init, RebindInv
<1>6. TokenInv
  BY <1>2 DEF Init, TokenInv
<1>7. BarredInv
  BY <1>2 DEF Init, BarredInv, Barred, NoCmd
<1> QED
  BY <1>1, <1>3, <1>4, <1>5, <1>6, <1>7 DEF SafetyInv

LEMMA SafetyInductive == Spec => []SafetyInv
<1>1. Init => SafetyInv
  BY SafetyInit
<1>2. SafetyInv /\ [Next]_vars => SafetyInv'
  BY TypeStep, LockStep, BindStep, RebindStep, TokenStep DEF SafetyInv
<1> QED
  BY <1>1, <1>2, PTL DEF Spec

(* However many activations race, no card ends up on more devices than it was
   sold for: bindDevice counts and inserts under one row lock. *)
THEOREM DeviceLimitHolds == Spec => []WithinDeviceLimit
<1>1. SafetyInv => WithinDeviceLimit
  BY DEF SafetyInv, BindInv, WithinDeviceLimit
<1> QED
  BY <1>1, SafetyInductive, PTL

(* Whoever unbinds a device, and whatever activation or verification of it is
   under way, no token of an unbound device carries the current version. *)
THEOREM UnboundDeviceHasNoLiveToken == Spec => []LiveTokensAreBound
<1>1. SafetyInv => LiveTokensAreBound
  BY DEF SafetyInv, TokenInv, LiveTokensAreBound, LiveTokens
<1> QED
  BY <1>1, SafetyInductive, PTL

(* Racing deactivate calls never take more devices off than the plan allows. *)
THEOREM RebindLimitHolds == Spec => []SelfUnbindsWithinLimit
<1>1. SafetyInv => SelfUnbindsWithinLimit
  BY DEF SafetyInv, RebindInv, SelfUnbindsWithinLimit
<1> QED
  BY <1>1, SafetyInductive, PTL

LEMMA BarredInductive ==
  ASSUME OneAdmin
  PROVE  Spec => [](SafetyInv /\ BarredInv)
<1>1. Init => SafetyInv /\ BarredInv
  BY SafetyInit
<1>2. SafetyInv /\ BarredInv /\ [Next]_vars => (SafetyInv /\ BarredInv)'
  BY OneAdmin, BarredStep, TypeStep, LockStep, BindStep, RebindStep, TokenStep DEF SafetyInv
<1> QED
  BY <1>1, <1>2, PTL DEF Spec

(* A ban or revocation kills every token of the card, those still being signed
   included, provided administrators act one at a time. *)
THEOREM BanKillsTokens ==
  ASSUME OneAdmin
  PROVE  Spec => []BarredCardHasNoLiveTokens
<1>1. SafetyInv /\ BarredInv => BarredCardHasNoLiveTokens
  BY DEF BarredInv, Barred, BarredCardHasNoLiveTokens, LiveTokens
<1> QED
  BY <1>1, BarredInductive, PTL

(* No activation, expiry or renewal in flight brings a revoked card back,
   provided administrators act one at a time. *)
THEOREM RevocationIsFinal ==
  ASSUME OneAdmin
  PROVE  Spec => RevokedIsFinal
<1>1. SafetyInv /\ BarredInv /\ [Next]_vars =>
        [status = "revoked" => status' = "revoked"]_vars
  <2> SUFFICES ASSUME SafetyInv, BarredInv, [Next]_vars, status = "revoked"
               PROVE  status' = "revoked"
    OBVIOUS
  <2>1. ASSUME NEW c \in Clients, BindWrite(c)
        PROVE  FALSE
    BY <2>1 DEF BindWrite, BarredInv, Barred
  <2>2. ASSUME NEW a \in Admins, WriteStatus(a)
        PROVE  status' = "revoked"
    BY <2>2 DEF WriteStatus, BarredInv
  <2>3. ASSUME NEW a \in Admins, AdminOrder(a) \/ WriteUnbind(a) \/ AbortOrder(a)
        PROVE  status' = status
    BY <2>3 DEF AdminOrder, OrderBan, OrderRevoke, OrderUnban, OrderRenew, OrderUnbind,
                Order, WriteUnbind, AbortOrder, cardVars
  <2>4. ASSUME NEW c \in Clients,
               ClientStart(c) \/ Abort(c) \/ (ClientStep(c) /\ ~BindWrite(c))
        PROVE  status' = status
    BY <2>4 DEF ClientStart, ClientStep, Activate, Deactivate, LockCard, Verify, BindRead,
                Sign, MarkExpired, ReadDevice, UnbindRead, UnbindWrite, Abort, cardVars
  <2>5. ASSUME Tick \/ UNCHANGED vars
        PROVE  status' = status
    BY <2>5 DEF Tick, vars, cardVars
  <2> QED
    BY <2>1, <2>2, <2>3, <2>4, <2>5 DEF Next, AdminWrite
<1> QED
  BY <1>1, BarredInductive, PTL DEF Spec, RevokedIsFinal

-----------------------------------------------------------------------------
(* The card keeps its promise: every step of Licensing is a step of Card or   *)
(* leaves its state alone.  A token carrying the current version stands for   *)
(* an admitted device, so raising tokenVersion recalls all of them at once.   *)

Phase == IF status \in {"banned", "revoked"} THEN status ELSE "open"
Admitted == {t.dev : t \in LiveTokens}

(* Raising the version leaves no device admitted: no token is of a version
   the card has not had yet. *)
LEMMA RaisedRecalls ==
  ASSUME TypeInv, TokenInv, tokenVersion' = tokenVersion + 1, UNCHANGED tokens
  PROVE  Admitted' = {}
<1>1. \A t \in tokens : t.ver # tokenVersion + 1
  BY DEF TypeInv, TypeOK, TokenInv, Token
<1> QED
  BY <1>1 DEF Admitted, LiveTokens

LEMMA CardUntouched ==
  ASSUME UNCHANGED <<tokens, tokenVersion>>
  PROVE  UNCHANGED Admitted
BY DEF Admitted, LiveTokens

(* A token signed with the version of the card admits its device, which the
   device limit has room for; one signed with an older version admits nobody. *)
LEMMA SignAdmits ==
  ASSUME SafetyInv, BarredInv, NEW c \in Clients, Sign(c)
  PROVE  UNCHANGED Phase /\ (Promise!Admit(req[c].dev) \/ UNCHANGED Admitted)
<1> USE LicensingAssumption
    DEF LicensingAssumption, SafetyInv, TypeInv, TypeOK, RequestsNameDevices, Request
<1>1. req[c].dev \in Devices /\ UNCHANGED <<status, tokenVersion, binding>>
      /\ tokens' = tokens \cup {[dev |-> req[c].dev, ver |-> req[c].ver]}
  BY DEF Sign, cardVars
<1>2. UNCHANGED Phase
  BY <1>1 DEF Phase
<1>3. CASE req[c].ver # tokenVersion
  BY <1>1, <1>2, <1>3 DEF Admitted, LiveTokens
<1>4. CASE req[c].ver = tokenVersion
  <2>1. Admitted' = Admitted \cup {req[c].dev}
    <3>1. LiveTokens' = LiveTokens \cup {[dev |-> req[c].dev, ver |-> req[c].ver]}
      BY <1>1, <1>4 DEF LiveTokens
    <3>2. [dev |-> req[c].dev, ver |-> req[c].ver].dev = req[c].dev
      OBVIOUS
    <3>3. \A x : x \in Admitted' <=> \E t \in LiveTokens' : x = t.dev
      BY DEF Admitted
    <3>4. \A x : x \in Admitted <=> \E t \in LiveTokens : x = t.dev
      BY DEF Admitted
    <3> QED
      <4> HIDE DEF Admitted, LiveTokens
      <4> QED BY <3>1, <3>2, <3>3, <3>4
  <2>2. Phase = "open"
    BY <1>4 DEF Phase, BarredInv, Barred, Sign
  <2>3. Admitted \cup {req[c].dev} \subseteq ActiveDevices
    BY <1>1, <1>4 DEF Admitted, LiveTokens, ActiveDevices, TokenInv, Sign, Token
  <2>4. Cardinality(Admitted \cup {req[c].dev}) <= DeviceLimit
    <3>1. /\ IsFiniteSet(Admitted \cup {req[c].dev})
          /\ Cardinality(Admitted \cup {req[c].dev}) <= Cardinality(ActiveDevices)
      BY <2>3, FS_Subset DEF BindInv
    <3>2. Cardinality(Admitted \cup {req[c].dev}) \in Nat /\ Cardinality(ActiveDevices) \in Nat
      BY <3>1, FS_CardinalityType DEF BindInv
    <3> QED
      BY <3>1, <3>2 DEF BindInv
  <2> QED
    <3>1. Promise!Cardinality(Admitted \cup {req[c].dev}) <= DeviceLimit
      BY <2>4, Zenon DEF Promise!Cardinality, Cardinality
    <3> QED
      BY <1>2, <2>1, <2>2, <3>1, Zenon DEF Promise!Admit, Phase, Admitted
<1> QED
  BY <1>2, <1>3, <1>4

LEMMA CardStep ==
  ASSUME OneAdmin
  PROVE  SafetyInv /\ BarredInv /\ [Next]_vars => [Promise!Next]_(Promise!cardState)
<1> SUFFICES ASSUME SafetyInv, BarredInv, [Next]_vars
             PROVE  Promise!Next \/ (UNCHANGED Phase /\ UNCHANGED Admitted)
  BY DEF Promise!cardState, Phase, Admitted
<1> USE DEF SafetyInv
<1>1. ASSUME NEW c \in Clients, NEW d \in Devices, Activate(c, d) \/ Deactivate(c, d)
      PROVE  UNCHANGED Phase /\ UNCHANGED Admitted
  BY <1>1, CardUntouched DEF Activate, Deactivate, LockCard, cardVars, Phase
<1>2. ASSUME NEW c \in Clients,
             \/ \E t \in tokens : Verify(c, t)
             \/ BindRead(c) \/ ReadDevice(c) \/ UnbindRead(c) \/ Abort(c)
      PROVE  UNCHANGED Phase /\ UNCHANGED Admitted
  BY <1>2, CardUntouched
     DEF Verify, BindRead, ReadDevice, UnbindRead, Abort, cardVars, Phase
<1>3. ASSUME NEW c \in Clients, BindWrite(c)
      PROVE  UNCHANGED Phase /\ UNCHANGED Admitted
  BY <1>3, CardUntouched DEF BindWrite, BarredInv, Barred, Phase
<1>4. ASSUME NEW c \in Clients, Sign(c)
      PROVE  Promise!Next \/ (UNCHANGED Phase /\ UNCHANGED Admitted)
  <2>1. req[c].dev \in Devices
    BY <1>4 DEF Sign, TypeInv, TypeOK, RequestsNameDevices
  <2>2. CASE Promise!Admit(req[c].dev)
    <3>1. \E d \in Devices : Promise!Admit(d)
      BY <2>1, <2>2, Zenon DEF Promise!Admit, Promise!Cardinality
    <3> QED
      BY <3>1 DEF Promise!Next
  <2>3. CASE UNCHANGED Phase /\ UNCHANGED Admitted
    BY <2>3
  <2> QED
    <3> HIDE DEF SafetyInv
    <3>1. UNCHANGED Phase /\ (Promise!Admit(req[c].dev) \/ UNCHANGED Admitted)
      BY <1>4, SignAdmits
    <3> QED
      BY <2>2, <2>3, <3>1, Zenon
<1>5. ASSUME NEW c \in Clients, MarkExpired(c)
      PROVE  UNCHANGED Phase /\ UNCHANGED Admitted
  BY <1>5, CardUntouched DEF MarkExpired, Phase
<1>6. ASSUME NEW c \in Clients, UnbindWrite(c)
      PROVE  Promise!Next
  <2>1. Admitted' = {} /\ UNCHANGED Phase
    BY <1>6, RaisedRecalls DEF UnbindWrite, Phase
  <2> QED
    BY <2>1 DEF Promise!Next, Promise!Recall, Phase, Admitted
<1>7. ASSUME NEW a \in Admins, WriteUnbind(a)
      PROVE  Promise!Next
  <2>1. Admitted' = {} /\ UNCHANGED Phase
    BY <1>7, RaisedRecalls DEF WriteUnbind, Phase
  <2> QED
    BY <2>1 DEF Promise!Next, Promise!Recall, Phase, Admitted
<1>8. ASSUME NEW a \in Admins, AdminOrder(a) \/ AbortOrder(a)
      PROVE  UNCHANGED Phase /\ UNCHANGED Admitted
  BY <1>8, CardUntouched
     DEF AdminOrder, OrderBan, OrderRevoke, OrderUnban, OrderRenew, OrderUnbind, Order,
         AbortOrder, cardVars, Phase
<1>9. ASSUME NEW a \in Admins, WriteStatus(a)
      PROVE  Promise!Next \/ (UNCHANGED Phase /\ UNCHANGED Admitted)
  <2>1. cmd[a].op \in {"ban", "revoke", "unban", "renew"} /\ status' = cmd[a].status
    BY <1>9 DEF WriteStatus
  <2>2. status \in Barred => Admitted = {}
    BY DEF BarredInv, Admitted, LiveTokens
  <2>3. CASE cmd[a].op \in {"ban", "revoke"}
    <3>1. Admitted' = {}
      BY <1>9, <2>3, RaisedRecalls DEF WriteStatus, Raising
    <3>2. CASE cmd[a].op = "revoke"
      BY <2>1, <2>2, <3>1, <3>2
         DEF BarredInv, Barred, Promise!Next, Promise!Revoke, Phase, Admitted
    <3>3. CASE cmd[a].op = "ban"
      BY <2>1, <2>2, <3>1, <3>3
         DEF BarredInv, Barred, Promise!Next, Promise!Ban, Phase, Admitted
    <3> QED
      BY <2>3, <3>2, <3>3
  <2>4. CASE cmd[a].op \in {"unban", "renew"}
    <3>1. UNCHANGED Admitted
      BY <1>9, <2>4, CardUntouched DEF WriteStatus, Raising
    <3> QED
      BY <2>1, <2>4, <3>1 DEF BarredInv, Barred, Promise!Next, Promise!Unban, Phase, Admitted
  <2> QED
    BY <2>1, <2>3, <2>4
<1>10. ASSUME Tick \/ UNCHANGED vars
       PROVE  UNCHANGED Phase /\ UNCHANGED Admitted
  BY <1>10, CardUntouched DEF Tick, vars, cardVars, Phase
<1> QED
  BY <1>1, <1>2, <1>3, <1>4, <1>5, <1>6, <1>7, <1>8, <1>9, <1>10
     DEF Next, ClientStart, ClientStep, AdminWrite

(* With one administrator at a time the card admits at most DeviceLimit devices
   at once, a ban or a revocation turns all of them away, lifting a ban brings
   none back by itself and a revoked card admits nobody ever again. *)
THEOREM LicensingImplementsCard ==
  ASSUME OneAdmin
  PROVE  Spec => ImplementsCard
<1>1. Init => Promise!Init
  BY DEF Init, Promise!Init, LiveTokens
<1>2. SafetyInv /\ BarredInv /\ [Next]_vars => [Promise!Next]_(Promise!cardState)
  BY OneAdmin, CardStep
<1> QED
  BY <1>1, <1>2, BarredInductive, PTL DEF Spec, ImplementsCard, Promise!Spec

-----------------------------------------------------------------------------
(* Sales: types. Every plan that exists, every offer and every card has rules *)
(* that the plan form can hold.                                               *)

CardStatuses == {"unused", "active", "banned", "revoked"}

Generating == {"declare", "stock", "answer"}

PlanRow == [state : {"none", "active", "inactive", "removed"}, rules : Rules \cup {Unset}]

BatchRow ==
  [state : {"none", "present", "removed"}, plan : Plans \cup {Unset}, over : Special \cup {Unset}]

CardRow ==
  [status : CardStatuses \cup {"none"}, activated : BOOLEAN, rules : Rules \cup {Unset}]

Desk ==
  [step : {"rest", "form", "drop", "close"} \cup Generating, plan : Plans \cup {Unset},
   batch : Batches \cup {Unset}, form : PlanForm \cup Special \cup {Unset},
   rules : Rules \cup {Unset}]

Bars == [op : {"none", "banned", "revoked", "unban", "revokeAll"},
         todo : UNION {[D -> CardStatuses] : D \in SUBSET Cards},
         batch : Batches \cup {Unset}]

SalesTypeOK ==
  /\ plan \in [Plans -> PlanRow]
  /\ batch \in [Batches -> BatchRow]
  /\ card \in [Cards -> CardRow]
  /\ appGone \in BOOLEAN
  /\ desk \in [Sellers -> Desk]
  /\ order \in [Managers -> Bars]
  /\ offered \in [Plans -> SUBSET Rules]
  /\ handed \subseteq Cards
  /\ quashed \subseteq Batches

(* What each seller's dialog or request holds, by its step; no plan exists
   without rules. *)
DeskHolds ==
  /\ \A p \in Plans : PlanExists(p) => plan[p].rules \in Rules
  /\ \A s \in Sellers :
       /\ desk[s].step = "form" => desk[s].form \in PlanForm
       /\ desk[s].step = "drop" => desk[s].plan \in Plans
       /\ desk[s].step \in Generating =>
            /\ desk[s].plan \in Plans /\ desk[s].batch \in Batches
            /\ desk[s].form \in Special /\ desk[s].rules \in Rules
       /\ desk[s].step \notin Generating => desk[s].batch = Unset

(* The foreign keys: a batch that is present refers to a plan that exists, a
   card to a batch that is present; the removal of the application leaves none
   of the three, and nothing else removes a batch. *)
RefersToRows ==
  /\ \A b \in Batches :
       /\ batch[b].state = "present" => batch[b].plan \in Plans /\ PlanExists(batch[b].plan)
       /\ batch[b].state = "removed" => appGone
  /\ \A c \in Cards : CardExists(c) => batch[c[1]].state = "present"
  /\ appGone => \A p \in Plans : ~PlanExists(p)

(* A plan on sale has been offered as it is.  Requests to generate have a batch
   each; what they hold is an offer of their plan with the terms asked for,
   and the row of the batch says so. *)
DeskAndBatchAgree ==
  /\ \A p \in Plans : plan[p].state = "active" => plan[p].rules \in offered[p]
  /\ \A s, t \in Sellers : desk[s].batch = desk[t].batch /\ desk[s].batch # Unset => s = t
  /\ \A s \in Sellers :
       /\ desk[s].step \in Generating =>
            \E r \in offered[desk[s].plan] : desk[s].rules = With(r, desk[s].form)
       /\ desk[s].step = "declare" => batch[desk[s].batch].state = "none"
       /\ desk[s].step \in {"stock", "answer"} =>
            /\ batch[desk[s].batch].state # "none"
            /\ batch[desk[s].batch].plan = desk[s].plan
            /\ batch[desk[s].batch].over = desk[s].form
       /\ desk[s].step \in {"declare", "stock"} =>
            \A c \in CardsOf(desk[s].batch) : ~CardExists(c)
       /\ desk[s].step = "answer" =>
            appGone \/ \A c \in CardsOf(desk[s].batch) : CardExists(c)

HandedExist == appGone \/ \A c \in handed : CardExists(c)

SalesInv ==
  /\ SalesTypeOK /\ DeskHolds /\ RefersToRows /\ DeskAndBatchAgree
  /\ SoldOnOffer /\ HandedExist

(* A row that a plan on sale or off it can have. *)
Row == [state : {"active", "inactive"}, rules : Rules]

(* Whatever is sent, what is written has rules: a null reaches neither a device
   limit nor a grace. *)
LEMMA RowsTyped ==
  /\ \A f \in PlanForm : BodyOf(f) \in PlanBody
  /\ \A body \in PlanBody : Creatable(body) => Created(body) \in Row
  /\ \A row \in Row, body \in PlanBody : Writable(body) => Updated(row, body) \in Row
  /\ \A r \in Rules, o \in Special : With(r, o) \in Rules
<1> USE SalesAssumption DEF SalesAssumption, Optional
<1>1. ASSUME NEW f \in PlanForm PROVE BodyOf(f) \in PlanBody
  BY DEF PlanForm, PlanBody, BodyOf
<1>2. ASSUME NEW body \in PlanBody, Creatable(body) PROVE Created(body) \in Row
  <2>1. body.device_limit \in Nat
    BY <1>2 DEF Creatable, PlanBody
  <2>2. /\ Default(body.status, "active") \in {"active", "inactive"}
        /\ Default(body.duration_days, Unset) \in Nat \cup {Unset}
        /\ Default(body.allow_rebind, TRUE) \in BOOLEAN
        /\ Default(body.rebind_limit, Unset) \in Nat \cup {Unset}
        /\ Default(body.offline_grace_hours, 72) \in Nat
        /\ Default(body.quota_per_device, Unset) \in Nat \cup {Unset}
    BY DEF Default, PlanBody
  <2> QED
    BY <2>1, <2>2 DEF Created, Row, Rules
<1>3. ASSUME NEW row \in Row, NEW body \in PlanBody, Writable(body) PROVE Updated(row, body) \in Row
  <2>1. row.state \in {"active", "inactive"} /\ row.rules \in Rules
    BY DEF Row
  <2>2. /\ Sent(body.status, row.state) \in {"active", "inactive"}
        /\ Sent(body.duration_days, row.rules.durationDays) \in Nat \cup {Unset}
        /\ Sent(body.device_limit, row.rules.deviceLimit) \in Nat
        /\ Sent(body.allow_rebind, row.rules.allowRebind) \in BOOLEAN
        /\ Sent(body.rebind_limit, row.rules.rebindLimit) \in Nat \cup {Unset}
        /\ Sent(body.offline_grace_hours, row.rules.offlineGraceHours) \in Nat
        /\ Sent(body.quota_per_device, row.rules.quotaPerDevice) \in Nat \cup {Unset}
    BY <1>3, <2>1 DEF Sent, Writable, PlanBody, Rules
  <2> QED
    BY <2>2 DEF Updated, Row, Rules
<1>4. ASSUME NEW r \in Rules, NEW o \in Special PROVE With(r, o) \in Rules
  <2>1. /\ Or(o.duration_days, r.durationDays) \in Optional
        /\ Or(o.device_limit, r.deviceLimit) \in Nat
        /\ Or(o.quota_per_device, r.quotaPerDevice) \in Optional
    BY DEF Or, Rules, Special
  <2> QED
    BY <2>1 DEF With, Rules
<1> QED
  BY <1>1, <1>2, <1>3, <1>4

LEMMA FormTyped ==
  ASSUME NEW row, row.state \in {"active", "inactive"}, row.rules \in Rules
  PROVE  FormOf(row) \in PlanForm
  BY SalesAssumption DEF SalesAssumption, PlanForm, Rules, FormOf, Or, Optional

(* Saving a plan as its form was opened changes nothing that the plan lets a buyer
   do, whatever the plan: the form holds every row of plans, nulls included, and the
   database takes it back (PlansView.vue openEdit, save; plans.service.ts update). *)
THEOREM FormKeepsRules ==
  ASSUME NEW row \in Row
  PROVE  /\ Writable(BodyOf(FormOf(row)))
         /\ Effect(Updated(row, BodyOf(FormOf(row))).rules) = Effect(row.rules)
         /\ Updated(row, BodyOf(FormOf(row))).state = row.state
<1> DEFINE r == row.rules
           b == BodyOf(FormOf(row))
           u == Updated(row, b).rules
<1>1. /\ Unset \notin Nat /\ Left \notin Nat /\ Left \notin BOOLEAN /\ Left # Unset
      /\ Left \notin {"active", "inactive"}
      /\ Unset \notin BOOLEAN /\ Unset \notin {"active", "inactive"}
      /\ row.state \in {"active", "inactive"} /\ r \in Rules
  BY SalesAssumption DEF SalesAssumption, Row
<1>2. /\ r.durationDays \in Nat \cup {Unset} /\ r.deviceLimit \in Nat
      /\ r.allowRebind \in BOOLEAN /\ r.rebindLimit \in Nat \cup {Unset}
      /\ r.offlineGraceHours \in Nat /\ r.quotaPerDevice \in Nat \cup {Unset}
  BY <1>1 DEF Rules, Optional
<1>3. /\ b.duration_days = r.durationDays
      /\ b.device_limit = r.deviceLimit
      /\ b.allow_rebind = r.allowRebind
      /\ b.rebind_limit = (IF r.allowRebind THEN r.rebindLimit ELSE Unset)
      /\ b.offline_grace_hours = r.offlineGraceHours
      /\ b.quota_per_device = r.quotaPerDevice
      /\ b.status = row.state
  BY <1>1, <1>2 DEF BodyOf, FormOf, Or
<1>4. /\ u = [durationDays |-> Sent(b.duration_days, r.durationDays),
               deviceLimit |-> Sent(b.device_limit, r.deviceLimit),
               allowRebind |-> Sent(b.allow_rebind, r.allowRebind),
               rebindLimit |-> Sent(b.rebind_limit, r.rebindLimit),
               offlineGraceHours |-> Sent(b.offline_grace_hours, r.offlineGraceHours),
               quotaPerDevice |-> Sent(b.quota_per_device, r.quotaPerDevice)]
      /\ Updated(row, b).state = Sent(b.status, row.state)
  BY DEF Updated
<1> HIDE DEF b, u, r
<1>5. u = [durationDays |-> r.durationDays, deviceLimit |-> r.deviceLimit,
           allowRebind |-> r.allowRebind,
           rebindLimit |-> IF r.allowRebind THEN r.rebindLimit ELSE Unset,
           offlineGraceHours |-> r.offlineGraceHours, quotaPerDevice |-> r.quotaPerDevice]
  BY <1>1, <1>2, <1>3, <1>4 DEF Sent
<1>6. r = [durationDays |-> r.durationDays, deviceLimit |-> r.deviceLimit,
           allowRebind |-> r.allowRebind, rebindLimit |-> r.rebindLimit,
           offlineGraceHours |-> r.offlineGraceHours, quotaPerDevice |-> r.quotaPerDevice]
  BY <1>1 DEF Rules
<1>7. Effect(u) = Effect(r)
  <2>1. CASE r.allowRebind
    BY <1>5, <1>6, <2>1 DEF Effect
  <2>2. CASE ~r.allowRebind
    BY <1>5, <1>6, <2>2 DEF Effect
  <2> QED
    BY <2>1, <2>2
<1>8. Writable(b)
  BY <1>1, <1>2, <1>3 DEF Writable
<1>9. Updated(row, b).state = row.state
  BY <1>3, <1>4 DEF Sent
<1> QED
  BY <1>7, <1>8, <1>9 DEF b, u, r

LEMMA SalesTypeInit == SalesInit => SalesTypeOK /\ DeskHolds
<1> SUFFICES ASSUME SalesInit PROVE SalesTypeOK /\ DeskHolds
  OBVIOUS
<1>1. [c \in {} |-> Unset] \in UNION {[D -> CardStatuses] : D \in SUBSET Cards}
  <2>1. [c \in {} |-> Unset] \in [{} -> CardStatuses]
    OBVIOUS
  <2>2. {} \in SUBSET Cards
    OBVIOUS
  <2> QED
    BY <2>1, <2>2
<1> QED
  BY <1>1 DEF SalesInit, SalesTypeOK, DeskHolds, NoPlan, NoBatch, NoCard, AtRest, NoOrder,
     PlanRow, BatchRow, CardRow, Desk, Bars, Generating, PlanExists

(* What a manager has still to write is for cards, and stays so when one is done. *)
LEMMA TodoTyped ==
  ASSUME SalesTypeOK, NEW m \in Managers, NEW c \in DOMAIN order[m].todo
  PROVE  c \in Cards /\ order[m].todo[c] \in CardStatuses
<1>1. order[m].todo \in UNION {[D -> CardStatuses] : D \in SUBSET Cards}
  BY DEF SalesTypeOK, Bars
<1>2. PICK D \in SUBSET Cards : order[m].todo \in [D -> CardStatuses]
  BY <1>1, Zenon
<1> QED
  BY <1>2

LEMMA ShorterOrder ==
  ASSUME SalesTypeOK, NEW m \in Managers, NEW c
  PROVE  [order[m] EXCEPT !.todo = [x \in (DOMAIN @) \ {c} |-> @[x]]] \in Bars
<1> DEFINE f == order[m].todo
           rest == [x \in (DOMAIN f) \ {c} |-> f[x]]
<1>1. order[m] \in Bars
  BY DEF SalesTypeOK
<1>2. f \in UNION {[D -> CardStatuses] : D \in SUBSET Cards}
  BY <1>1 DEF Bars
<1> HIDE DEF f
<1>3. PICK D \in SUBSET Cards : f \in [D -> CardStatuses]
  BY <1>2, Zenon
<1>4. rest \in [D \ {c} -> CardStatuses] /\ D \ {c} \in SUBSET Cards
  BY <1>3
<1> HIDE DEF rest
<1>5. rest \in UNION {[E -> CardStatuses] : E \in SUBSET Cards}
  BY <1>4, Zenon
<1>6. [order[m] EXCEPT !.todo = rest] \in Bars
  BY <1>1, <1>5 DEF Bars
<1> QED
  BY <1>6 DEF f, rest

(* A plan is written, from the form or by another caller ... *)
PlanWrite(p) ==
  \/ \E s \in Sellers : Save(s, p)
  \/ \E body \in Bodies : Call(p, body)

(* ... with a row of the type: a new one, or over a plan that is there. *)
LEMMA PlanWritten ==
  ASSUME SalesTypeOK, DeskHolds, NEW p \in Plans, PlanWrite(p)
  PROVE  /\ \E row \in Row : WritePlan(p, row)
         /\ (~appGone /\ plan[p].state = "none") \/ PlanExists(p)
<1>1. ASSUME NEW body \in PlanBody, CreatePlan(p, body) \/ UpdatePlan(p, body)
      PROVE  /\ \E row \in Row : WritePlan(p, row)
             /\ (~appGone /\ plan[p].state = "none") \/ PlanExists(p)
  <2>1. CASE CreatePlan(p, body)
    BY <2>1, RowsTyped DEF CreatePlan
  <2>2. CASE UpdatePlan(p, body)
    <3>1. plan[p] \in Row
      BY <2>2 DEF UpdatePlan, PlanExists, DeskHolds, SalesTypeOK, PlanRow, Row
    <3> QED
      BY <2>2, <3>1, RowsTyped DEF UpdatePlan
  <2> QED
    BY <1>1, <2>1, <2>2
<1>2. ASSUME NEW s \in Sellers, Save(s, p)
      PROVE  \E body \in PlanBody : CreatePlan(p, body) \/ UpdatePlan(p, body)
  <2>1. BodyOf(desk[s].form) \in PlanBody
    BY <1>2, RowsTyped DEF Save, DeskHolds
  <2> QED
    BY <1>2, <2>1 DEF Save
<1>3. Bodies \subseteq PlanBody
  BY SalesAssumption DEF SalesAssumption
<1> QED
  BY <1>1, <1>2, <1>3 DEF PlanWrite, Call

LEMMA PlanWriteLeaves ==
  ASSUME NEW p, PlanWrite(p)
  PROVE  /\ UNCHANGED <<batch, card, appGone, order, handed, quashed>>
         /\ desk' = desk \/ \E s \in Sellers : Rest(s)
<1>1. \A row : WritePlan(p, row) => UNCHANGED <<batch, card, appGone, order, handed, quashed>>
  BY DEF WritePlan
<1>2. \A body : CreatePlan(p, body) \/ UpdatePlan(p, body)
                  => UNCHANGED <<batch, card, appGone, order, handed, quashed>>
  BY <1>1 DEF CreatePlan, UpdatePlan
<1> QED
  BY <1>2 DEF PlanWrite, Save, Call

(* The other steps of a seller that write rows or give keys out; all others only
   move what a desk or an order holds. *)
SellerWrites(s) ==
  DropPlan(s) \/ CloseApp(s) \/ Declare(s) \/ Stock(s) \/ Answer(s)

LEMMA StepKinds ==
  ASSUME [SalesNext]_salesVars
  PROVE  \/ UNCHANGED <<stockVars, order, offered, handed, quashed>>
         \/ \E p \in Plans : PlanWrite(p)
         \/ \E s \in Sellers : SellerWrites(s)
         \/ \E S \in SUBSET Cards, b \in Batches : ExportPlain(S, b)
         \/ \E c \in Cards : Redeem(c)
         \/ \E m \in Managers : ManagerStep(m)
<1> DEFINE Still == UNCHANGED <<stockVars, order, offered, handed, quashed>>
<1>1. ASSUME NEW s \in Sellers, SellerStep(s)
      PROVE  Still \/ SellerWrites(s) \/ \E p \in Plans : PlanWrite(p)
  <2>1. OpenCreate(s) \/ CountAllCards(s) \/ GiveUp(s) => Still
    BY DEF OpenCreate, CountAllCards, GiveUp
  <2>2. ASSUME NEW f \in Forms, FillIn(s, f) PROVE Still
    BY <2>2 DEF FillIn
  <2>3. ASSUME NEW p \in Plans, OpenEdit(s, p) \/ CountCards(s, p) PROVE Still
    BY <2>3 DEF OpenEdit, CountCards
  <2>4. ASSUME NEW p \in Plans, NEW b \in Batches, NEW o \in Overrides, Generate(s, p, b, o)
        PROVE  Still
    BY <2>4 DEF Generate
  <2> HIDE DEF Still
  <2> QED
    BY <1>1, <2>1, <2>2, <2>3, <2>4 DEF SellerStep, SellerWrites, PlanWrite
<1>2. UNCHANGED salesVars => Still
  BY DEF salesVars
<1> HIDE DEF Still
<1>3. CASE SalesNext
  BY <1>1, <1>3 DEF SalesNext, PlanWrite, Still
<1>4. CASE UNCHANGED salesVars
  BY <1>2, <1>4 DEF Still
<1> QED
  BY <1>3, <1>4

LEMMA RowSteps ==
  ASSUME [SalesNext]_salesVars
  PROVE  \/ UNCHANGED <<stockVars, offered, handed>>
         \/ \E p \in Plans : PlanWrite(p)
         \/ \E s \in Sellers : SellerWrites(s)
         \/ \E S \in SUBSET Cards, b \in Batches : ExportPlain(S, b)
         \/ \E c \in Cards : Redeem(c)
         \/ \E m \in Managers, c \in Cards : WriteNext(m, c)
<1> DEFINE Still == UNCHANGED <<stockVars, offered, handed>>
<1>1. ASSUME NEW m \in Managers, ManagerStep(m)
      PROVE  Still \/ \E c \in Cards : WriteNext(m, c)
  <2>1. \A op, todo, b : Begin(m, op, todo, b) => Still
    BY DEF Begin
  <2>2. Complete(m) \/ GiveUpOrder(m) => Still
    BY DEF Complete, GiveUpOrder
  <2> HIDE DEF Still
  <2> QED
    BY <1>1, <2>1, <2>2 DEF ManagerStep, Transition, Unban, RevokeAll
<1>2. UNCHANGED <<stockVars, order, offered, handed, quashed>> => Still
  OBVIOUS
<1> HIDE DEF Still
<1> QED
  BY <1>1, <1>2, StepKinds DEF Still

LEMMA SalesTypeStep ==
  SalesTypeOK /\ DeskHolds /\ [SalesNext]_salesVars => SalesTypeOK' /\ DeskHolds'
<1> SUFFICES ASSUME SalesTypeOK, DeskHolds, [SalesNext]_salesVars
             PROVE  SalesTypeOK' /\ DeskHolds'
  OBVIOUS
<1> USE SalesAssumption
    DEF SalesAssumption, SalesTypeOK, DeskHolds, PlanExists, CardExists, Generating, AtRest, Rest,
        stockVars
<1>1. CASE UNCHANGED salesVars
  BY <1>1 DEF salesVars
<1>2. ASSUME NEW s \in Sellers, OpenCreate(s) PROVE SalesTypeOK' /\ DeskHolds'
  <2>1. BlankForm \in PlanForm
    BY DEF BlankForm, PlanForm, Optional
  <2> QED
    BY <1>2, <2>1 DEF OpenCreate, Desk
<1>3. ASSUME NEW s \in Sellers, NEW p \in Plans, OpenEdit(s, p) PROVE SalesTypeOK' /\ DeskHolds'
  <2>1. FormOf(plan[p]) \in PlanForm
    BY <1>3, FormTyped DEF OpenEdit, PlanRow
  <2> QED
    BY <1>3, <2>1 DEF OpenEdit, Desk
<1>4. ASSUME NEW s \in Sellers, NEW f \in Forms, FillIn(s, f) PROVE SalesTypeOK' /\ DeskHolds'
  BY <1>4 DEF FillIn, Desk
<1>5. ASSUME NEW p \in Plans, NEW row \in Row, WritePlan(p, row)
      PROVE  /\ plan' \in [Plans -> PlanRow] /\ offered' \in [Plans -> SUBSET Rules]
             /\ \A q \in Plans : plan'[q].state \in {"active", "inactive"} => plan'[q].rules \in Rules
  BY <1>5 DEF WritePlan, PlanRow, Row
<1>6. ASSUME NEW p \in Plans, PlanWrite(p) PROVE SalesTypeOK' /\ DeskHolds'
  <2>1. /\ plan' \in [Plans -> PlanRow] /\ offered' \in [Plans -> SUBSET Rules]
        /\ \A q \in Plans : plan'[q].state \in {"active", "inactive"} => plan'[q].rules \in Rules
    BY <1>5, <1>6, PlanWritten
  <2> QED
    BY <1>6, <2>1, PlanWriteLeaves, SMTT(30) DEF Desk
<1>8. ASSUME NEW s \in Sellers, NEW p \in Plans, CountCards(s, p)
      PROVE  SalesTypeOK' /\ DeskHolds'
  BY <1>8 DEF CountCards, Desk
<1>9. ASSUME NEW s \in Sellers, DropPlan(s) PROVE SalesTypeOK' /\ DeskHolds'
  BY <1>9 DEF DropPlan, Desk, PlanRow
<1>10. ASSUME NEW s \in Sellers, CountAllCards(s) PROVE SalesTypeOK' /\ DeskHolds'
  BY <1>10 DEF CountAllCards, Desk
<1>11. ASSUME NEW s \in Sellers, CloseApp(s) PROVE SalesTypeOK' /\ DeskHolds'
  <2>1. plan' \in [Plans -> PlanRow] /\ \A p \in Plans : ~PlanExists(p)'
    BY <1>11 DEF CloseApp, PlanRow
  <2>2. batch' \in [Batches -> BatchRow]
    <3>1. \A b \in Batches : [batch[b] EXCEPT !.state = "removed"] \in BatchRow
      BY DEF BatchRow
    <3> QED
      BY <1>11, <3>1 DEF CloseApp
  <2>3. card' \in [Cards -> CardRow]
    BY <1>11 DEF CloseApp, CardRow, NoCard
  <2> QED
    BY <1>11, <2>1, <2>2, <2>3 DEF CloseApp, Desk
<1>12. ASSUME NEW s \in Sellers, NEW p \in Plans, NEW b \in Batches, NEW o \in Overrides,
              Generate(s, p, b, o)
       PROVE  SalesTypeOK' /\ DeskHolds'
  BY <1>12, RowsTyped DEF Generate, Desk
<1>13. ASSUME NEW s \in Sellers, Declare(s) PROVE SalesTypeOK' /\ DeskHolds'
  BY <1>13 DEF Declare, Desk, BatchRow
<1>14. ASSUME NEW s \in Sellers, Stock(s) PROVE SalesTypeOK' /\ DeskHolds'
  <2>1. card' \in [Cards -> CardRow]
    BY <1>14 DEF Stock, NewCard, CardRow, CardStatuses
  <2> QED
    BY <1>14, <2>1 DEF Stock, Desk
<1>15. ASSUME NEW s \in Sellers, Answer(s) PROVE SalesTypeOK' /\ DeskHolds'
  BY <1>15 DEF Answer, Desk, CardsOf
<1>16. ASSUME NEW s \in Sellers, GiveUp(s) PROVE SalesTypeOK' /\ DeskHolds'
  BY <1>16 DEF GiveUp, Desk
<1>17. ASSUME NEW S \in SUBSET Cards, NEW b \in Batches, ExportPlain(S, b)
       PROVE  SalesTypeOK' /\ DeskHolds'
  BY <1>17 DEF ExportPlain, Picked, CardsOf
<1>18. ASSUME NEW c \in Cards, Redeem(c) PROVE SalesTypeOK' /\ DeskHolds'
  <2>1. [card[c] EXCEPT !.status = "active", !.activated = TRUE] \in CardRow
    BY DEF CardRow, CardStatuses
  <2>2. card' = [card EXCEPT ![c] = [card[c] EXCEPT !.status = "active", !.activated = TRUE]]
    BY <1>18 DEF Redeem
  <2>3. card' \in [Cards -> CardRow]
    BY <2>1, <2>2
  <2> QED
    BY <1>18, <2>3 DEF Redeem
<1>19. ASSUME NEW m \in Managers, NEW op \in {"banned", "revoked", "unban", "revokeAll"},
              NEW D \in SUBSET Cards, NEW todo \in [D -> CardStatuses],
              NEW b \in Batches \cup {Unset}, Begin(m, op, todo, b)
       PROVE  SalesTypeOK' /\ DeskHolds'
  BY <1>19 DEF Begin, Bars
<1>20. ASSUME NEW m \in Managers, NEW S \in SUBSET Cards,
              Transition(m, S, "banned") \/ Transition(m, S, "revoked")
       PROVE  SalesTypeOK' /\ DeskHolds'
  <2>1. PICK to \in {"banned", "revoked"} : Transition(m, S, to)
    BY <1>20
  <2>2. [c \in Barrable(S, to) |-> to] \in [Barrable(S, to) -> CardStatuses]
    BY DEF CardStatuses
  <2>3. Barrable(S, to) \in SUBSET Cards
    BY DEF Barrable
  <2>4. Begin(m, to, [c \in Barrable(S, to) |-> to], Unset)
    BY <2>1 DEF Transition
  <2> HIDE DEF SalesTypeOK, DeskHolds
  <2> QED
    BY <1>19, <2>2, <2>3, <2>4
<1>21. ASSUME NEW m \in Managers, NEW S \in SUBSET Cards, Unban(m, S)
       PROVE  SalesTypeOK' /\ DeskHolds'
  <2> DEFINE D == {x \in S : card[x].status = "banned"}
  <2>1. [c \in D |-> IF card[c].activated THEN "active" ELSE "unused"] \in [D -> CardStatuses]
    BY DEF CardStatuses
  <2>2. D \in SUBSET Cards
    OBVIOUS
  <2>3. Begin(m, "unban", [c \in D |-> IF card[c].activated THEN "active" ELSE "unused"], Unset)
    BY <1>21 DEF Unban
  <2> HIDE DEF D, SalesTypeOK, DeskHolds
  <2> QED
    BY <1>19, <2>1, <2>2, <2>3
<1>22. ASSUME NEW m \in Managers, NEW b \in Batches, RevokeAll(m, b)
       PROVE  SalesTypeOK' /\ DeskHolds'
  <2> DEFINE D == Barrable(CardsOf(b), "revoked")
  <2>1. [c \in D |-> "revoked"] \in [D -> CardStatuses]
    BY DEF CardStatuses
  <2>2. D \in SUBSET Cards
    BY DEF Barrable, CardsOf
  <2>3. PICK w \in Batches \cup {Unset} : Begin(m, "revokeAll", [c \in D |-> "revoked"], w)
    BY <1>22 DEF RevokeAll
  <2> HIDE DEF D, SalesTypeOK, DeskHolds
  <2> QED
    BY <1>19, <2>1, <2>2, <2>3
<1>23. ASSUME NEW m \in Managers, NEW c \in Cards, WriteNext(m, c)
       PROVE  SalesTypeOK' /\ DeskHolds'
  <2>1. order[m].todo[c] \in CardStatuses
    BY <1>23, TodoTyped DEF WriteNext
  <2>2. [card[c] EXCEPT !.status = order[m].todo[c]] \in CardRow
    BY <2>1 DEF CardRow
  <2>3. card' = [card EXCEPT ![c] = [card[c] EXCEPT !.status = order[m].todo[c]]]
    BY <1>23 DEF WriteNext
  <2>4. card' \in [Cards -> CardRow]
    BY <2>2, <2>3
  <2>5. order' = [order EXCEPT ![m] =
                    [order[m] EXCEPT !.todo = [x \in (DOMAIN @) \ {c} |-> @[x]]]]
    BY <1>23 DEF WriteNext
  <2>6. order' \in [Managers -> Bars]
    BY <2>5, ShorterOrder
  <2> QED
    BY <1>23, <2>4, <2>6 DEF WriteNext
<1>24. ASSUME NEW m \in Managers, Complete(m) \/ GiveUpOrder(m) PROVE SalesTypeOK' /\ DeskHolds'
  <2>1. NoOrder \in Bars
    <3>1. [c \in {} |-> Unset] \in [{} -> CardStatuses] /\ {} \in SUBSET Cards
      OBVIOUS
    <3> QED
      BY <3>1 DEF NoOrder, Bars
  <2>2. quashed' \subseteq Batches
    BY <1>24 DEF Complete, GiveUpOrder, Bars
  <2> QED
    BY <1>24, <2>1, <2>2 DEF Complete, GiveUpOrder
<1> QED
  BY <1>1, <1>2, <1>3, <1>4, <1>6, <1>8, <1>9, <1>10, <1>11, <1>12, <1>13, <1>14, <1>15,
     <1>16, <1>17, <1>18, <1>20, <1>21, <1>22, <1>23, <1>24
  DEF SalesNext, SellerStep, ManagerStep, PlanWrite

LEMMA RefersStep ==
  SalesTypeOK /\ DeskHolds /\ RefersToRows /\ DeskAndBatchAgree /\ [SalesNext]_salesVars
    => RefersToRows'
<1> SUFFICES ASSUME SalesTypeOK, DeskHolds, RefersToRows, DeskAndBatchAgree,
                    [SalesNext]_salesVars
             PROVE  RefersToRows'
  OBVIOUS
<1> USE SalesAssumption DEF SalesAssumption, SalesTypeOK, RefersToRows, PlanExists, CardExists
<1>1. CASE UNCHANGED stockVars
  BY <1>1 DEF stockVars
<1>2. ASSUME NEW p \in Plans, NEW row \in Row, WritePlan(p, row), ~appGone
      PROVE  RefersToRows'
  BY <1>2 DEF WritePlan, Row, BatchRow
<1>3. ASSUME NEW p \in Plans, PlanWrite(p) PROVE RefersToRows'
  <2>1. ~appGone
    BY <1>3, PlanWritten
  <2> QED
    BY <1>2, <1>3, <2>1, PlanWritten
<1>5. ASSUME NEW s \in Sellers, DropPlan(s) PROVE RefersToRows'
  BY <1>5 DEF DropPlan, Referred, DeskHolds, PlanRow, BatchRow
<1>6. ASSUME NEW s \in Sellers, CloseApp(s) PROVE RefersToRows'
  <2>1. \A p \in Plans : plan'[p].state \notin {"active", "inactive"}
    BY <1>6 DEF CloseApp, PlanRow
  <2>2. \A b \in Batches : batch'[b].state # "present"
    BY <1>6 DEF CloseApp, BatchRow
  <2>3. \A c \in Cards : card'[c].status = "none"
    BY <1>6 DEF CloseApp, NoCard
  <2> QED
    BY <1>6, <2>1, <2>2, <2>3 DEF CloseApp
<1>7. ASSUME NEW s \in Sellers, Declare(s) PROVE RefersToRows'
  BY <1>7 DEF Declare, DeskHolds, DeskAndBatchAgree, Generating, BatchRow, Cards
<1>8. ASSUME NEW s \in Sellers, Stock(s) PROVE RefersToRows'
  <2>1. desk[s].plan \in Plans /\ desk[s].batch \in Batches
    BY <1>8 DEF Stock, DeskHolds, Generating
  <2>2. batch[desk[s].batch].state = "present"
    BY <1>8, <2>1 DEF Stock, DeskAndBatchAgree, BatchRow
  <2>3. \A c \in Cards : card'[c].status # "none" =>
          c[1] = desk[s].batch \/ card[c].status # "none"
    BY <1>8 DEF Stock
  <2> QED
    BY <1>8, <2>1, <2>2, <2>3 DEF Stock
<1>9. ASSUME NEW c \in Cards, Redeem(c) PROVE RefersToRows'
  BY <1>9 DEF Redeem, CardRow
<1>10. ASSUME NEW m \in Managers, NEW c \in Cards, WriteNext(m, c) PROVE RefersToRows'
  BY <1>10 DEF WriteNext, CardRow
<1> QED
  BY <1>1, <1>3, <1>5, <1>6, <1>7, <1>8, <1>9, <1>10, RowSteps
  DEF SellerWrites, Answer, ExportPlain

(* The plans and the offers that writing a plan leaves. *)
LEMMA OffersGrow ==
  ASSUME SalesTypeOK, DeskHolds, [SalesNext]_salesVars
  PROVE  \A p \in Plans : offered[p] \subseteq offered'[p]
<1> USE DEF SalesTypeOK
<1>1. ASSUME NEW p \in Plans, NEW row \in Row, WritePlan(p, row)
      PROVE  \A q \in Plans : offered[q] \subseteq offered'[q]
  BY <1>1 DEF WritePlan
<1>2. ASSUME NEW p \in Plans, PlanWrite(p)
      PROVE  \A q \in Plans : offered[q] \subseteq offered'[q]
  BY <1>1, <1>2, PlanWritten
<1> QED
  BY <1>2, RowSteps
  DEF SellerWrites, DropPlan, CloseApp, Declare, Stock, Answer, ExportPlain, Redeem, WriteNext

LEMMA OnSaleStep ==
  SalesTypeOK /\ DeskHolds /\ [SalesNext]_salesVars
    /\ (\A p \in Plans : plan[p].state = "active" => plan[p].rules \in offered[p])
    => (\A p \in Plans : plan[p].state = "active" => plan[p].rules \in offered[p])'
<1> SUFFICES ASSUME SalesTypeOK, DeskHolds, [SalesNext]_salesVars,
                    \A p \in Plans : plan[p].state = "active" => plan[p].rules \in offered[p]
             PROVE  (\A p \in Plans : plan[p].state = "active" => plan[p].rules \in offered[p])'
  OBVIOUS
<1> DEFINE OnSale == \A p \in Plans : plan[p].state = "active" => plan[p].rules \in offered[p]
<1> USE DEF SalesTypeOK
<1>1. ASSUME NEW p \in Plans, NEW row \in Row, WritePlan(p, row) PROVE OnSale'
  BY <1>1 DEF WritePlan
<1>2. ASSUME NEW p \in Plans, PlanWrite(p) PROVE OnSale'
  BY <1>1, <1>2, PlanWritten
<1>4. ASSUME NEW s \in Sellers, DropPlan(s) PROVE OnSale'
  BY <1>4 DEF DropPlan
<1>5. ASSUME NEW s \in Sellers, CloseApp(s) PROVE OnSale'
  BY <1>5 DEF CloseApp, PlanExists
<1> QED
  BY <1>2, <1>4, <1>5, RowSteps
  DEF SellerWrites, stockVars, Declare, Stock, Answer, ExportPlain, Redeem, WriteNext

(* Of one seller: the second half of DeskAndBatchAgree. *)
DeskAgrees(s) ==
  /\ desk[s].step \in Generating =>
       \E r \in offered[desk[s].plan] : desk[s].rules = With(r, desk[s].form)
  /\ desk[s].step = "declare" => batch[desk[s].batch].state = "none"
  /\ desk[s].step \in {"stock", "answer"} =>
       /\ batch[desk[s].batch].state # "none"
       /\ batch[desk[s].batch].plan = desk[s].plan
       /\ batch[desk[s].batch].over = desk[s].form
  /\ desk[s].step \in {"declare", "stock"} =>
       \A c \in CardsOf(desk[s].batch) : ~CardExists(c)
  /\ desk[s].step = "answer" =>
       appGone \/ \A c \in CardsOf(desk[s].batch) : CardExists(c)

OwnBatch == \A s, t \in Sellers : desk[s].batch = desk[t].batch /\ desk[s].batch # Unset => s = t

(* A seller whose desk a step leaves alone still agrees with the rows after it. *)
LEMMA OthersAgree ==
  ASSUME SalesTypeOK, DeskHolds, RefersToRows, DeskAndBatchAgree, [SalesNext]_salesVars,
         NEW t \in Sellers, desk'[t] = desk[t]
  PROVE  DeskAgrees(t)'
<1> USE SalesAssumption
    DEF SalesAssumption, SalesTypeOK, CardExists, DeskAgrees, CardsOf
<1> DEFINE Offer(s) == \E r \in offered[desk[s].plan] : desk[s].rules = With(r, desk[s].form)
<1>1. desk[t].step \in Generating => desk[t].plan \in Plans /\ desk[t].batch \in Batches
  BY DEF DeskHolds
<1>2. desk[t].step \in Generating => Offer(t)
  BY DEF DeskAndBatchAgree
<1>3. (desk[t].step \in Generating => Offer(t))'
  BY <1>1, <1>2, OffersGrow
<1>4. /\ desk[t].step = "declare" => batch[desk[t].batch].state = "none"
      /\ desk[t].step \in {"stock", "answer"} =>
           /\ batch[desk[t].batch].state # "none"
           /\ batch[desk[t].batch].plan = desk[t].plan
           /\ batch[desk[t].batch].over = desk[t].form
      /\ desk[t].step \in {"declare", "stock"} =>
           \A c \in CardsOf(desk[t].batch) : ~CardExists(c)
      /\ desk[t].step = "answer" =>
           appGone \/ \A c \in CardsOf(desk[t].batch) : CardExists(c)
  BY DEF DeskAndBatchAgree
<1> HIDE DEF Offer
<1>5. CASE UNCHANGED <<batch, card, appGone>>
  BY <1>3, <1>4, <1>5 DEF Offer, Generating
<1>6. ASSUME NEW s \in Sellers, CloseApp(s) PROVE DeskAgrees(t)'
  <2>1. /\ appGone' = TRUE /\ \A c \in Cards : card'[c].status = "none"
        /\ \A b \in Batches : /\ batch'[b].state = "none" <=> batch[b].state = "none"
                              /\ batch'[b].plan = batch[b].plan
                              /\ batch'[b].over = batch[b].over
    BY <1>6 DEF CloseApp, NoCard, BatchRow
  <2> QED
    BY <1>1, <1>3, <1>4, <2>1 DEF Offer, Generating
<1>7. ASSUME NEW s \in Sellers, Declare(s) PROVE DeskAgrees(t)'
  <2>1. s # t /\ desk[s].batch \in Batches
    BY <1>7 DEF Declare, DeskHolds, Desk, Generating
  <2>2. desk[t].step \in Generating => desk[t].batch # desk[s].batch
    BY <1>1, <2>1 DEF DeskAndBatchAgree
  <2>3. \A b \in Batches : b # desk[s].batch => batch'[b] = batch[b]
    BY <1>7 DEF Declare
  <2> QED
    BY <1>1, <1>3, <1>4, <1>7, <2>2, <2>3 DEF Declare, Offer, Generating
<1>8. ASSUME NEW s \in Sellers, Stock(s) PROVE DeskAgrees(t)'
  <2>1. s # t /\ desk[s].batch \in Batches
    BY <1>8 DEF Stock, DeskHolds, Desk, Generating
  <2>2. desk[t].step \in Generating => desk[t].batch # desk[s].batch
    BY <1>1, <2>1 DEF DeskAndBatchAgree
  <2>3. \A c \in Cards : c[1] # desk[s].batch => card'[c] = card[c]
    BY <1>8 DEF Stock
  <2> QED
    BY <1>1, <1>3, <1>4, <1>8, <2>2, <2>3 DEF Stock, Offer, Generating
<1>9. ASSUME NEW c \in Cards, Redeem(c) PROVE DeskAgrees(t)'
  <2>1. \A d \in Cards : card'[d].status = "none" <=> card[d].status = "none"
    BY <1>9 DEF Redeem, CardRow
  <2> QED
    BY <1>3, <1>4, <1>9, <2>1 DEF Redeem, Offer, Generating
<1>10. ASSUME NEW m \in Managers, NEW c \in Cards, WriteNext(m, c) PROVE DeskAgrees(t)'
  <2>1. order[m].todo[c] # "none"
    BY <1>10, TodoTyped DEF WriteNext, CardStatuses
  <2>2. \A d \in Cards : card'[d].status = "none" <=> card[d].status = "none"
    BY <1>10, <2>1 DEF WriteNext, CardRow
  <2> QED
    BY <1>3, <1>4, <1>10, <2>2 DEF WriteNext, Offer, Generating
<1> QED
  BY <1>5, <1>6, <1>7, <1>8, <1>9, <1>10, RowSteps, PlanWriteLeaves
  DEF SellerWrites, stockVars, DropPlan, Answer, ExportPlain

(* A step changes one desk, and gives it a batch that no other has. *)
LEMMA OneDesk ==
  ASSUME SalesTypeOK, DeskHolds, RefersToRows, DeskAndBatchAgree, [SalesNext]_salesVars
  PROVE  OwnBatch' /\ \A t \in Sellers : desk'[t] = desk[t] \/ DeskAgrees(t)'
<1> USE SalesAssumption DEF SalesAssumption, SalesTypeOK, Rest, AtRest
<1> DEFINE Goal == OwnBatch' /\ \A t \in Sellers : desk'[t] = desk[t] \/ DeskAgrees(t)'
<1>1. OwnBatch
  BY DEF DeskAndBatchAgree, OwnBatch
<1>2. CASE UNCHANGED desk
  BY <1>1, <1>2 DEF OwnBatch
<1>3. ASSUME NEW s \in Sellers, NEW st \in {"rest", "form", "drop", "close"},
             \E d \in Desk : d.step = st /\ d.batch = Unset /\ desk' = [desk EXCEPT ![s] = d]
      PROVE  Goal
  BY <1>1, <1>3 DEF OwnBatch, DeskAgrees, Generating
<1>4. ASSUME NEW s \in Sellers,
             \/ OpenCreate(s) \/ CountAllCards(s) \/ DropPlan(s) \/ CloseApp(s)
             \/ Answer(s) \/ GiveUp(s)
             \/ \E f \in Forms : FillIn(s, f)
             \/ \E p \in Plans : OpenEdit(s, p) \/ CountCards(s, p) \/ Save(s, p)
      PROVE  Goal
  <2>1. SalesTypeOK' /\ DeskHolds'
    BY SalesTypeStep
  <2>2. desk'[s] \in Desk
    BY <2>1
  <2>3. desk' = [desk EXCEPT ![s] = desk'[s]]
    BY <1>4 DEF OpenCreate, CountAllCards, DropPlan, CloseApp, Answer, GiveUp, FillIn, OpenEdit,
         CountCards, Save
  <2>4. desk'[s].step \in {"rest", "form", "drop", "close"}
    <3>1. ASSUME NEW f \in Forms, FillIn(s, f) PROVE desk'[s].step = "form"
      BY <3>1 DEF FillIn, Desk
    <3>2. ASSUME NEW p \in Plans, OpenEdit(s, p) PROVE desk'[s].step = "form"
      BY <3>2 DEF OpenEdit
    <3>3. ASSUME NEW p \in Plans, CountCards(s, p) PROVE desk'[s].step = "drop"
      BY <3>3 DEF CountCards
    <3>4. ASSUME NEW p \in Plans, Save(s, p) PROVE desk'[s].step = "rest"
      BY <3>4 DEF Save
    <3>5. OpenCreate(s) => desk'[s].step = "form"
      BY DEF OpenCreate
    <3>6. CountAllCards(s) => desk'[s].step = "close"
      BY DEF CountAllCards
    <3>7. CASE DropPlan(s) \/ CloseApp(s) \/ Answer(s) \/ GiveUp(s)
      BY <3>7 DEF DropPlan, CloseApp, Answer, GiveUp
    <3> QED
      BY <1>4, <3>1, <3>2, <3>3, <3>4, <3>5, <3>6, <3>7
  <2>5. desk'[s].batch = Unset
    BY <2>1, <2>4 DEF DeskHolds, Generating
  <2> QED
    BY <1>3, <2>2, <2>3, <2>4, <2>5
<1>5. ASSUME NEW s \in Sellers, NEW p \in Plans, NEW b \in Batches, NEW o \in Overrides,
             Generate(s, p, b, o)
      PROVE  Goal
  <2>1. \A t \in Sellers : desk[t].batch # b
    BY <1>5 DEF Generate, Held
  <2>2. /\ \A t \in Sellers \ {s} : desk'[t] = desk[t]
        /\ desk'[s].step = "declare" /\ desk'[s].plan = p /\ desk'[s].batch = b
        /\ desk'[s].form = o /\ desk'[s].rules = With(plan[p].rules, o)
    BY <1>5 DEF Generate
  <2>3. OwnBatch'
    BY <1>1, <2>1, <2>2 DEF OwnBatch
  <2>4. \A c \in CardsOf(b) : ~CardExists(c)
    BY <1>5 DEF Generate, RefersToRows, CardsOf, Cards
  <2>5. plan[p].rules \in offered[p]
    BY <1>5 DEF Generate, DeskAndBatchAgree
  <2>6. DeskAgrees(s)'
    BY <1>5, <2>2, <2>4, <2>5 DEF Generate, DeskAgrees, Generating, CardExists, stockVars
  <2> QED
    BY <2>2, <2>3, <2>6
<1>6. ASSUME NEW s \in Sellers, Declare(s) PROVE Goal
  <2>1. /\ \A t \in Sellers \ {s} : desk'[t] = desk[t]
        /\ desk'[s] = [desk[s] EXCEPT !.step = "stock"]
    BY <1>6 DEF Declare
  <2>2. OwnBatch'
    BY <1>1, <2>1 DEF OwnBatch, Desk
  <2>3. desk[s].batch \in Batches /\ desk[s].step = "declare"
    BY <1>6 DEF Declare, DeskHolds, Generating
  <2>4. DeskAgrees(s)'
    BY <1>6, <2>1, <2>3 DEF Declare, DeskAgrees, DeskAndBatchAgree, Generating, CardExists, Desk
  <2> QED
    BY <2>1, <2>2, <2>4
<1>7. ASSUME NEW s \in Sellers, Stock(s) PROVE Goal
  <2>1. /\ \A t \in Sellers \ {s} : desk'[t] = desk[t]
        /\ desk'[s] = [desk[s] EXCEPT !.step = "answer"]
    BY <1>7 DEF Stock
  <2>2. OwnBatch'
    BY <1>1, <2>1 DEF OwnBatch, Desk
  <2>3. desk[s].batch \in Batches /\ desk[s].step = "stock"
    BY <1>7 DEF Stock, DeskHolds, Generating
  <2>4. \A c \in CardsOf(desk[s].batch) : card'[c].status = "unused"
    BY <1>7 DEF Stock, CardsOf, NewCard
  <2>5. /\ \E r \in offered[desk[s].plan] : desk[s].rules = With(r, desk[s].form)
        /\ batch[desk[s].batch].state # "none"
        /\ batch[desk[s].batch].plan = desk[s].plan
        /\ batch[desk[s].batch].over = desk[s].form
    BY <2>3 DEF DeskAndBatchAgree, Generating
  <2>6. /\ desk'[s].step = "answer" /\ desk'[s].plan = desk[s].plan
        /\ desk'[s].batch = desk[s].batch /\ desk'[s].form = desk[s].form
        /\ desk'[s].rules = desk[s].rules
    BY <2>1 DEF Desk
  <2>7. UNCHANGED <<batch, offered>>
    BY <1>7 DEF Stock
  <2>8. \A c \in CardsOf(desk[s].batch) : CardExists(c)'
    BY <2>4 DEF CardExists
  <2>9. DeskAgrees(s)'
    BY <2>5, <2>6, <2>7, <2>8 DEF DeskAgrees
  <2> QED
    BY <2>1, <2>2, <2>9
<1> QED
  BY <1>2, <1>4, <1>5, <1>6, <1>7
  DEF SalesNext, SellerStep, ManagerStep, salesVars, Call, ExportPlain, Redeem, Transition, Unban,
      RevokeAll, Begin, WriteNext, Complete, GiveUpOrder

LEMMA AgreeStep ==
  SalesTypeOK /\ DeskHolds /\ RefersToRows /\ DeskAndBatchAgree /\ [SalesNext]_salesVars
    => DeskAndBatchAgree'
<1> SUFFICES ASSUME SalesTypeOK, DeskHolds, RefersToRows, DeskAndBatchAgree,
                    [SalesNext]_salesVars
             PROVE  DeskAndBatchAgree'
  OBVIOUS
<1>1. OwnBatch' /\ \A t \in Sellers : DeskAgrees(t)'
  BY OneDesk, OthersAgree
<1>2. (\A p \in Plans : plan[p].state = "active" => plan[p].rules \in offered[p])'
  BY OnSaleStep DEF DeskAndBatchAgree
<1> QED
  BY <1>1, <1>2 DEF DeskAndBatchAgree, DeskAgrees, OwnBatch

(* The statuses of the cards after a step: only generating creates a card, only
   the removal of the application takes one away, and only generating writes its
   terms. *)
LEMMA CardsAfter ==
  ASSUME SalesTypeOK, DeskHolds, [SalesNext]_salesVars, NEW c \in Cards
  PROVE  \/ card'[c].rules = card[c].rules /\ (CardExists(c)' <=> CardExists(c))
         \/ appGone' /\ ~CardExists(c)'
         \/ \E s \in Sellers : Stock(s) /\ c \in CardsOf(desk[s].batch)
<1> USE DEF SalesTypeOK, CardExists
<1> DEFINE Kept == card'[c].rules = card[c].rules /\ (CardExists(c)' <=> CardExists(c))
<1>1. CASE UNCHANGED card
  BY <1>1
<1>2. ASSUME NEW s \in Sellers, CloseApp(s) PROVE appGone' /\ ~CardExists(c)'
  BY <1>2 DEF CloseApp, NoCard
<1>3. ASSUME NEW s \in Sellers, Stock(s) PROVE Kept \/ c \in CardsOf(desk[s].batch)
  BY <1>3 DEF Stock, CardsOf
<1>4. ASSUME NEW d \in Cards, Redeem(d) PROVE Kept
  BY <1>4 DEF Redeem, CardRow
<1>5. ASSUME NEW m \in Managers, NEW d \in Cards, WriteNext(m, d) PROVE Kept
  <2>1. order[m].todo[d] # "none"
    BY <1>5, TodoTyped DEF WriteNext, CardStatuses
  <2> QED
    BY <1>5, <2>1 DEF WriteNext, CardRow
<1> QED
  BY <1>1, <1>2, <1>3, <1>4, <1>5, RowSteps, PlanWriteLeaves
  DEF SellerWrites, stockVars, DropPlan, Declare, Answer, ExportPlain

LEMMA SoldStep ==
  SalesTypeOK /\ DeskHolds /\ RefersToRows /\ DeskAndBatchAgree /\ SoldOnOffer
    /\ [SalesNext]_salesVars => SoldOnOffer'
<1> SUFFICES ASSUME SalesTypeOK, DeskHolds, RefersToRows, DeskAndBatchAgree, SoldOnOffer,
                    [SalesNext]_salesVars, NEW b \in Batches,
                    NEW c0 \in CardsOf(b), CardExists(c0)'
             PROVE  (\E r \in offered[batch[b].plan] :
                       \A c \in CardsOf(b) : CardExists(c) /\ card[c].rules = With(r, batch[b].over))'
  BY DEF SoldOnOffer, CardsOf
<1> USE SalesAssumption DEF SalesAssumption, CardsOf
<1>1. CASE \E s \in Sellers : Stock(s) /\ desk[s].batch = b
  <2>1. PICK s \in Sellers : Stock(s) /\ desk[s].batch = b
    BY <1>1
  <2>2. \A c \in CardsOf(b) : card'[c] = NewCard(desk[s].rules)
    BY <2>1 DEF Stock, SalesTypeOK
  <2>3. PICK r \in offered[desk[s].plan] : desk[s].rules = With(r, desk[s].form)
    BY <2>1 DEF Stock, DeskAndBatchAgree, Generating
  <2>4. batch'[b].plan = desk[s].plan /\ batch'[b].over = desk[s].form
    BY <2>1 DEF Stock, DeskAndBatchAgree
  <2>5. offered' = offered
    BY <2>1 DEF Stock
  <2> QED
    BY <2>2, <2>3, <2>4, <2>5 DEF NewCard, CardExists
<1>2. CASE ~\E s \in Sellers : Stock(s) /\ desk[s].batch = b
  <2>1. \A c \in CardsOf(b) : \/ card'[c].rules = card[c].rules /\ (CardExists(c)' <=> CardExists(c))
                              \/ appGone' /\ ~CardExists(c)'
    BY <1>2, CardsAfter
  <2>2. ~appGone'
    BY RefersStep DEF RefersToRows, SalesTypeOK, Cards
  <2>3. \A c \in CardsOf(b) : card'[c].rules = card[c].rules /\ (CardExists(c)' <=> CardExists(c))
    BY <2>1, <2>2
  <2>4. CardExists(c0)
    BY <2>3
  <2>5. PICK r \in offered[batch[b].plan] :
          \A c \in CardsOf(b) : CardExists(c) /\ card[c].rules = With(r, batch[b].over)
    BY <2>4 DEF SoldOnOffer
  <2>6. batch[b].state = "present" /\ batch[b].plan \in Plans
    BY <2>4 DEF RefersToRows, Cards
  <2>7. batch'[b].plan = batch[b].plan /\ batch'[b].over = batch[b].over
    <3>1. ASSUME NEW s \in Sellers, Declare(s) PROVE batch'[b] = batch[b]
      BY <3>1, <2>6 DEF Declare, DeskAndBatchAgree, SalesTypeOK
    <3>2. ASSUME NEW s \in Sellers, CloseApp(s) PROVE FALSE
      BY <3>2, <2>2 DEF CloseApp
    <3> QED
      BY <3>1, <3>2, RowSteps, PlanWriteLeaves
      DEF SellerWrites, stockVars, DropPlan, Stock, Answer, ExportPlain, Redeem, WriteNext
  <2>8. r \in offered'[batch'[b].plan]
    BY <2>5, <2>6, <2>7, OffersGrow
  <2> QED
    BY <2>3, <2>5, <2>7, <2>8
<1> QED
  BY <1>1, <1>2

(* Existing cards stay as long as the application does. *)
LEMMA CardsStay ==
  ASSUME SalesTypeOK, DeskHolds, [SalesNext]_salesVars, NEW c \in Cards, CardExists(c)
  PROVE  appGone' \/ CardExists(c)'
<1>1. ASSUME NEW s \in Sellers, Stock(s), c \in CardsOf(desk[s].batch) PROVE CardExists(c)'
  BY <1>1 DEF Stock, CardsOf, NewCard, CardExists, SalesTypeOK
<1> QED
  BY <1>1, CardsAfter

LEMMA GoneForGood == [SalesNext]_salesVars /\ appGone => appGone'
  BY RowSteps, PlanWriteLeaves
  DEF SellerWrites, stockVars, DropPlan, CloseApp, Declare, Stock, Answer, ExportPlain, Redeem,
      WriteNext

LEMMA HandedStep ==
  SalesTypeOK /\ DeskHolds /\ DeskAndBatchAgree /\ HandedExist /\ [SalesNext]_salesVars
    => HandedExist'
<1> SUFFICES ASSUME SalesTypeOK, DeskHolds, DeskAndBatchAgree, HandedExist,
                    [SalesNext]_salesVars, ~appGone', NEW c \in handed'
             PROVE  CardExists(c)'
  BY DEF HandedExist
<1>1. ~appGone /\ handed \subseteq Cards
  BY GoneForGood DEF SalesTypeOK
<1>2. c \in Cards
  BY SalesTypeStep DEF SalesTypeOK
<1>3. CASE c \in handed
  BY <1>1, <1>2, <1>3, CardsStay DEF HandedExist
<1>4. ASSUME NEW s \in Sellers, Answer(s), c \notin handed PROVE CardExists(c)'
  BY <1>1, <1>2, <1>4, CardsStay DEF Answer, DeskAndBatchAgree
<1>5. ASSUME NEW S \in SUBSET Cards, NEW b \in Batches, ExportPlain(S, b), c \notin handed
      PROVE  CardExists(c)'
  BY <1>1, <1>2, <1>5, CardsStay DEF ExportPlain
<1> QED
  BY <1>3, <1>4, <1>5, RowSteps, PlanWriteLeaves
  DEF SellerWrites, DropPlan, CloseApp, Declare, Stock, Redeem, WriteNext

LEMMA SalesSafetyInit == SalesInit => SalesInv
<1> SUFFICES ASSUME SalesInit PROVE SalesInv
  OBVIOUS
<1>1. SalesTypeOK /\ DeskHolds
  BY SalesTypeInit
<1>2. /\ \A p \in Plans : plan[p].state = "none"
      /\ \A b \in Batches : batch[b].state = "none"
      /\ \A c \in Cards : ~CardExists(c)
      /\ \A s \in Sellers : desk[s].step = "rest" /\ desk[s].batch = Unset
      /\ ~appGone /\ handed = {}
  BY DEF SalesInit, NoPlan, NoBatch, NoCard, AtRest, CardExists
<1>3. RefersToRows /\ HandedExist
  BY <1>2 DEF RefersToRows, HandedExist, PlanExists
<1>4. DeskAndBatchAgree
  BY <1>2 DEF DeskAndBatchAgree, Generating
<1>5. SoldOnOffer
  BY <1>2 DEF SoldOnOffer, CardsOf
<1> QED
  BY <1>1, <1>3, <1>4, <1>5 DEF SalesInv

LEMMA SalesInductive == SalesSpec => []SalesInv
<1>1. SalesInit => SalesInv
  BY SalesSafetyInit
<1>2. SalesInv /\ [SalesNext]_salesVars => SalesInv'
  BY SalesTypeStep, RefersStep, AgreeStep, SoldStep, HandedStep DEF SalesInv
<1> QED
  BY <1>1, <1>2, PTL DEF SalesSpec

(* Whatever a form was left with and whatever callers send, field by field, every
   plan and every card has a device limit and a grace, and every dialog and request
   what its step needs (plan.dto.ts, plans.service.ts:57-90, license.dto.ts). *)
THEOREM SalesTypesHold == SalesSpec => [](SalesTypeOK /\ DeskHolds)
<1>1. SalesInv => SalesTypeOK /\ DeskHolds
  BY DEF SalesInv
<1> QED
  BY <1>1, SalesInductive, PTL

(* All cards of a batch carry one set of terms that their plan had on sale, apart
   from what the request asked for, whatever is written to the plan between the
   statements of generate (licenses.service.ts:31-104). *)
THEOREM BatchesAreSoldOnOffer == SalesSpec => []SoldOnOffer
<1>1. SalesInv => SoldOnOffer
  BY DEF SalesInv
<1> QED
  BY <1>1, SalesInductive, PTL

(* A key that was given out opens a card whose plan is there, however the removal
   of plans races with generation: the foreign keys refuse what the count missed
   (plans.service.ts:93-107), and only the application's removal cascades
   (applications.service.ts:169-189). *)
THEOREM HandedCardsAreKept == SalesSpec => []HandedCardsStay
<1>1. SalesInv => HandedCardsStay
  <2> SUFFICES ASSUME SalesInv, ~appGone, NEW c \in handed
               PROVE  CardExists(c) /\ PlanExists(batch[c[1]].plan)
    BY DEF HandedCardsStay
  <2>1. c \in Cards /\ CardExists(c)
    BY DEF SalesInv, SalesTypeOK, HandedExist
  <2> QED
    BY <2>1 DEF SalesInv, RefersToRows, Cards
<1> QED
  BY <1>1, SalesInductive, PTL

-----------------------------------------------------------------------------
(* Barring whole batches. *)

Whole(b) == appGone \/ \A c \in CardsOf(b) : CardExists(c)

Ordered(m) ==
  /\ order[m].batch # Unset =>
       /\ Whole(order[m].batch)
       /\ \A c \in DOMAIN order[m].todo : order[m].todo[c] = "revoked"
       /\ \A c \in CardsOf(order[m].batch) :
            card[c].status \in {"revoked", "none"} \/ c \in DOMAIN order[m].todo
  /\ \A c \in DOMAIN order[m].todo : order[m].todo[c] # "revoked" => card[c].status # "revoked"

(* A batch that is, or is being, revoked as a whole had all its cards; what one
   manager has still to write to a card that is not "revoked" by then, the card
   is not either. *)
OneManager == \A m, n \in Managers : m = n

QuashInv ==
  /\ \A b \in quashed : Whole(b)
  /\ \A m \in Managers : Ordered(m)
  /\ QuashedStaysDead

LEMMA QuashStep ==
  ASSUME OneManager
  PROVE  SalesInv /\ QuashInv /\ [SalesNext]_salesVars => QuashInv'
<1> SUFFICES ASSUME SalesInv, QuashInv, [SalesNext]_salesVars PROVE QuashInv'
  OBVIOUS
<1> USE SalesAssumption DEF SalesAssumption, SalesInv, SalesTypeOK, CardExists, QuashInv, Ordered
<1>1. ASSUME NEW b \in Batches, Whole(b) PROVE Whole(b)'
  BY <1>1, CardsStay, GoneForGood DEF CardsOf, Whole
<1>2. ASSUME NEW m \in Managers PROVE order[m].batch \in Batches \cup {Unset}
  BY DEF Bars
<1>3. quashed \subseteq Batches
  OBVIOUS
(* A step that leaves the orders alone and turns no card from or to "revoked",
   nor brings one back. *)
<1>4. ASSUME UNCHANGED <<order, quashed>>,
             \A c \in Cards :
               \/ card'[c].status = card[c].status
               \/ card[c].status # "revoked" /\ card'[c].status = "none"
               \/ card[c].status = "revoked" /\ card'[c].status = "none"
               \/ card[c].status = "unused" /\ card'[c].status = "active"
               \/ /\ card[c].status = "none" /\ card'[c].status = "unused"
                  /\ \A b \in Batches : c \in CardsOf(b) => ~Whole(b)
      PROVE  QuashInv'
  <2>1. \A b \in quashed' : Whole(b)'
    BY <1>1, <1>3, <1>4
  <2>2. QuashedStaysDead'
    BY <1>3, <1>4 DEF QuashedStaysDead, CardsOf
  <2>3. ASSUME NEW m \in Managers PROVE Ordered(m)'
    <3>1. Ordered(m)
      OBVIOUS
    <3>2. \A c \in DOMAIN order[m].todo : c \in Cards
      BY TodoTyped
    <3>3. \A b \in Batches : b = order[m].batch => Whole(b)'
      BY <1>1, <3>1
    <3>4. order[m].batch # Unset =>
            \A c \in CardsOf(order[m].batch) :
              card'[c].status \in {"revoked", "none"} \/ c \in DOMAIN order[m].todo
      BY <1>2, <1>4, <3>1 DEF CardsOf
    <3>5. \A c \in DOMAIN order[m].todo :
            order[m].todo[c] # "revoked" => card'[c].status # "revoked"
      BY <1>4, <3>1, <3>2
    <3> QED
      BY <1>2, <1>4, <3>1, <3>3, <3>4, <3>5
  <2> QED
    BY <2>1, <2>2, <2>3
<1>5. CASE UNCHANGED <<card, order, quashed>>
  BY <1>4, <1>5
<1>6. ASSUME NEW s \in Sellers, CloseApp(s) PROVE QuashInv'
  <2>1. \A c \in Cards : card'[c].status = "none"
    BY <1>6 DEF CloseApp, NoCard
  <2> QED
    BY <1>4, <1>6, <2>1 DEF CloseApp
<1>7. ASSUME NEW s \in Sellers, Stock(s) PROVE QuashInv'
  <2>1. ~appGone
    BY <1>7 DEF Stock, RefersToRows, DeskHolds, Generating
  <2>2. \A c \in CardsOf(desk[s].batch) : card[c].status = "none"
    BY <1>7 DEF Stock, DeskAndBatchAgree
  <2>3. \A c \in Cards : c[1] = desk[s].batch =>
          card[c].status = "none" /\ card'[c].status = "unused"
    BY <1>7, <2>2 DEF Stock, NewCard, CardsOf
  <2>4. \A c \in Cards : c[1] # desk[s].batch => card'[c] = card[c]
    BY <1>7 DEF Stock
  <2>5. \A c \in Cards : card[c].status = "none" => \A b \in Batches : c \in CardsOf(b) => ~Whole(b)
    BY <2>1 DEF Whole
  <2> QED
    BY <1>4, <1>7, <2>3, <2>4, <2>5 DEF Stock
<1>8. ASSUME NEW d \in Cards, Redeem(d) PROVE QuashInv'
  <2>1. \A c \in Cards : \/ card'[c].status = card[c].status
                         \/ card[c].status = "unused" /\ card'[c].status = "active"
    BY <1>8 DEF Redeem, CardRow
  <2> QED
    BY <1>4, <1>8, <2>1 DEF Redeem
<1>9. ASSUME NEW m \in Managers, NEW op, NEW todo, NEW b \in Batches \cup {Unset},
              Begin(m, op, todo, b),
              \A c \in DOMAIN todo : todo[c] # "revoked" => card[c].status # "revoked",
              b # Unset => /\ \A c \in CardsOf(b) : CardExists(c)
                           /\ \A c \in DOMAIN todo : todo[c] = "revoked"
                           /\ \A c \in CardsOf(b) :
                                card[c].status \in {"revoked", "none"} \/ c \in DOMAIN todo
       PROVE  QuashInv'
  <2>1. UNCHANGED <<card, quashed, appGone>>
    BY <1>9 DEF Begin, stockVars
  <2>2. /\ order'[m].todo = todo /\ order'[m].batch = b
        /\ \A n \in Managers \ {m} : order'[n] = order[n]
    BY <1>9 DEF Begin
  <2>3. Ordered(m)'
    BY <1>9, <2>1, <2>2 DEF Whole
  <2>4. ASSUME NEW n \in Managers \ {m} PROVE Ordered(n)'
    BY <2>1, <2>2 DEF Whole
  <2>5. (\A q \in quashed : Whole(q))' /\ QuashedStaysDead'
    BY <2>1 DEF Whole, QuashedStaysDead
  <2> QED
    BY <2>3, <2>4, <2>5
<1>10. ASSUME NEW m \in Managers, NEW S \in SUBSET Cards, NEW to \in {"banned", "revoked"},
              Transition(m, S, to)
       PROVE  QuashInv'
  <2> DEFINE todo == [c \in Barrable(S, to) |-> to]
  <2>1. \A c \in DOMAIN todo : card[c].status # "revoked"
    BY DEF Barrable
  <2> HIDE DEF todo
  <2> QED
    BY <1>9, <1>10, <2>1 DEF Transition, todo
<1>11. ASSUME NEW m \in Managers, NEW S \in SUBSET Cards, Unban(m, S) PROVE QuashInv'
  <2> DEFINE todo == [c \in {x \in S : card[x].status = "banned"} |->
                        IF card[c].activated THEN "active" ELSE "unused"]
  <2>1. \A c \in DOMAIN todo : card[c].status # "revoked"
    OBVIOUS
  <2> HIDE DEF todo
  <2> QED
    BY <1>9, <1>11, <2>1 DEF Unban, todo
<1>12. ASSUME NEW m \in Managers, NEW b \in Batches, RevokeAll(m, b) PROVE QuashInv'
  <2> DEFINE todo == [c \in Barrable(CardsOf(b), "revoked") |-> "revoked"]
             bb == IF \A c \in CardsOf(b) : CardExists(c) THEN b ELSE Unset
  <2>1. /\ \A c \in DOMAIN todo : todo[c] = "revoked"
        /\ \A c \in CardsOf(b) : card[c].status \in {"revoked", "none"} \/ c \in DOMAIN todo
    BY DEF Barrable
  <2>2. bb \in Batches \cup {Unset} /\ bb # Unset => bb = b /\ \A c \in CardsOf(b) : CardExists(c)
    OBVIOUS
  <2>3. Begin(m, "revokeAll", todo, bb)
    BY <1>12 DEF RevokeAll
  <2>4. bb \in Batches \cup {Unset}
    OBVIOUS
  <2> HIDE DEF todo, bb
  <2> QED
    BY <1>9, <2>1, <2>2, <2>3, <2>4
<1>13. ASSUME NEW m \in Managers, NEW d \in Cards, WriteNext(m, d) PROVE QuashInv'
  <2> DEFINE v == order[m].todo[d]
  <2>1. d \in DOMAIN order[m].todo /\ v \in CardStatuses /\ card[d].status # "none"
    BY <1>13, TodoTyped DEF WriteNext
  <2>2. /\ card'[d].status = v
        /\ \A c \in Cards \ {d} : card'[c] = card[c]
        /\ UNCHANGED <<quashed, appGone>>
    BY <1>13 DEF WriteNext, CardRow
  <2>3. /\ order'[m].batch = order[m].batch
        /\ DOMAIN order'[m].todo = (DOMAIN order[m].todo) \ {d}
        /\ \A c \in DOMAIN order'[m].todo : order'[m].todo[c] = order[m].todo[c]
    BY <1>13 DEF WriteNext, Bars
  <2>4. Ordered(m) /\ \A n \in Managers : n = m
    BY OneManager DEF OneManager
  <2>5. \A c \in DOMAIN order[m].todo : c \in Cards
    BY TodoTyped
  <2>6. \A b \in Batches : b = order[m].batch => Whole(b)'
    BY <1>1, <2>4
  <2>7. order[m].batch # Unset =>
          \A c \in CardsOf(order[m].batch) :
            card'[c].status \in {"revoked", "none"} \/ c \in (DOMAIN order[m].todo) \ {d}
    <3> SUFFICES ASSUME order[m].batch # Unset, NEW c \in CardsOf(order[m].batch)
                 PROVE  card'[c].status \in {"revoked", "none"} \/ c \in (DOMAIN order[m].todo) \ {d}
      OBVIOUS
    <3>1. CASE c = d
      BY <2>1, <2>2, <2>4, <3>1
    <3>2. CASE c # d
      BY <2>2, <2>4, <3>2 DEF CardsOf
    <3> QED
      BY <3>1, <3>2
  <2>8. \A c \in DOMAIN order'[m].todo : order'[m].todo[c] # "revoked" => card'[c].status # "revoked"
    BY <2>2, <2>3, <2>4, <2>5
  <2>9. order[m].batch # Unset => \A c \in DOMAIN order'[m].todo : order'[m].todo[c] = "revoked"
    BY <2>3, <2>4
  <2>10. Ordered(m)'
    BY <1>2, <2>3, <2>6, <2>7, <2>8, <2>9
  <2>11. \A b \in quashed' : Whole(b)'
    BY <1>1, <1>3, <2>2
  <2>12. QuashedStaysDead'
    <3> SUFFICES ASSUME NEW b \in quashed, NEW c \in CardsOf(b)
                 PROVE  card'[c].status \in {"revoked", "none"}
      BY <2>2 DEF QuashedStaysDead
    <3>1. card[c].status \in {"revoked", "none"} /\ c \in Cards
      BY DEF QuashedStaysDead, CardsOf
    <3>2. CASE c = d
      BY <2>1, <2>2, <2>4, <3>1, <3>2
    <3>3. CASE c # d
      BY <2>2, <3>1, <3>3
    <3> QED
      BY <3>2, <3>3
  <2> QED
    BY <2>4, <2>10, <2>11, <2>12
<1>14. ASSUME NEW m \in Managers, Complete(m) \/ GiveUpOrder(m) PROVE QuashInv'
  <2>1. UNCHANGED <<card, appGone>>
    BY <1>14 DEF Complete, GiveUpOrder, stockVars
  <2>2. /\ order'[m].batch = Unset /\ DOMAIN order'[m].todo = {}
        /\ \A n \in Managers \ {m} : order'[n] = order[n]
    BY <1>14 DEF Complete, GiveUpOrder, NoOrder
  <2>3. Ordered(m)'
    BY <2>2
  <2>4. ASSUME NEW n \in Managers \ {m} PROVE Ordered(n)'
    BY <2>1, <2>2 DEF Whole
  <2>5. Ordered(m)
    OBVIOUS
  <2>6. \A b \in quashed' : b \in quashed \/ (b = order[m].batch /\ b # Unset /\ DOMAIN order[m].todo = {})
    BY <1>14 DEF Complete, GiveUpOrder
  <2>7. (\A q \in quashed : Whole(q))'
    BY <2>1, <2>5, <2>6 DEF Whole
  <2>8. QuashedStaysDead'
    BY <2>1, <2>5, <2>6 DEF QuashedStaysDead
  <2> QED
    BY <2>3, <2>4, <2>7, <2>8
<1>15. ASSUME NEW m \in Managers, ManagerStep(m) PROVE QuashInv'
  BY <1>10, <1>11, <1>12, <1>13, <1>14, <1>15 DEF ManagerStep
<1>16. ASSUME NEW s \in Sellers, SellerWrites(s) PROVE QuashInv'
  <2>1. \/ UNCHANGED <<card, order, quashed, appGone>> \/ CloseApp(s) \/ Stock(s)
    BY <1>16 DEF SellerWrites, stockVars, DropPlan, Declare, Answer
  <2> HIDE DEF QuashInv
  <2> QED
    BY <1>5, <1>6, <1>7, <2>1
<1>17. ASSUME NEW S \in SUBSET Cards, NEW b \in Batches, ExportPlain(S, b) PROVE QuashInv'
  BY <1>5, <1>17 DEF ExportPlain, stockVars
<1>18. ASSUME NEW p \in Plans, PlanWrite(p) PROVE QuashInv'
  BY <1>5, <1>18, PlanWriteLeaves DEF stockVars
<1> HIDE DEF QuashInv
<1> QED
  BY <1>5, <1>8, <1>15, <1>16, <1>17, <1>18, StepKinds DEF stockVars

(* Once a batch that had all its cards was revoked as a whole, none of them is
   ever anything but revoked again (batches.service.ts:130-150), as long as those
   who bar cards act one at a time: ban, revoke and unban check the status they
   read and write by id (licenses.service.ts:246-295). *)
THEOREM QuashedBatchesStayDead ==
  ASSUME OneManager
  PROVE  SalesSpec => []QuashedStaysDead
<1>1. SalesInit => QuashInv
  BY DEF SalesInit, QuashInv, Ordered, NoOrder, QuashedStaysDead
<1>2. SalesInv /\ SalesInv' /\ QuashInv /\ [SalesNext]_salesVars => QuashInv'
  BY QuashStep
<1>3. QuashInv => QuashedStaysDead
  BY DEF QuashInv
<1> QED
  BY <1>1, <1>2, <1>3, SalesInductive, PTL DEF SalesSpec

=============================================================================
