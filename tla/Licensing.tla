----------------------------- MODULE Licensing -----------------------------
(***************************************************************************)
(* One licence card and the devices bound to it: activation, verification  *)
(* and self-service unbinding by clients (activation.service.ts), and the  *)
(* administrator's ban, revoke, unban, renew, forced unbind and batch      *)
(* revocation (licenses.service.ts, batches.service.ts).                   *)
(*                                                                         *)
(* No operation touches two cards at once, so one card is the whole        *)
(* interaction.  A step is one database statement group whose effect other *)
(* sessions can see: what is read in one step and used in a later one is   *)
(* kept in the process's own record (req, cmd), as the code keeps it in a  *)
(* local variable.  MySQL runs at REPEATABLE READ: a plain SELECT takes no *)
(* lock, SELECT .. FOR UPDATE and every UPDATE do.                         *)
(***************************************************************************)
EXTENDS Integers, FiniteSets

CONSTANTS
  Clients,       \* requests of the licensed programs in progress
  Admins,        \* requests of administrators in progress
  Devices,       \* device fingerprints
  Null,          \* SQL NULL
  DeviceLimit,   \* license_keys.deviceLimit
  DurationDays,  \* license_keys.durationDays, Null for a permanent card
  AllowRebind,   \* license_keys.allowRebind
  RebindLimit,   \* license_keys.rebindLimit, Null for no limit
  RenewDays,     \* RenewLicenseDto.days
  MaxTime,       \* bound: the clock stops here, and no renewal starts past it
  MaxVersion     \* bound: no operation that would raise tokenVersion past it starts

ASSUME LicensingAssumption ==
  /\ Null \notin Nat \cup Clients \cup Devices
  /\ DeviceLimit \in Nat \ {0}
  /\ DurationDays \in (Nat \ {0}) \cup {Null}
  /\ AllowRebind \in BOOLEAN
  /\ RebindLimit \in Nat \cup {Null}
  /\ RenewDays \in Nat \ {0}
  /\ MaxTime \in Nat
  /\ MaxVersion \in Nat

Statuses == {"unused", "active", "expired", "banned", "revoked"}

VARIABLES
  status,           \* license_keys.status
  activatedAt,      \* license_keys.activatedAt
  expiresAt,        \* license_keys.expiresAt
  tokenVersion,     \* license_keys.tokenVersion
  rebindCount,      \* license_keys.rebindCount
  binding,          \* license_devices: no row, active or unbound
  lock,             \* who holds the row lock of the card
  tokens,           \* license tokens signed so far
  now,              \* the clock, in days
  pc,               \* where each client's request is
  req,              \* and what it has read
  cmd,              \* the administrator's command, once its read is done
  selfUnbinds       \* history: bindings removed by deactivate

cardVars == <<status, activatedAt, expiresAt, tokenVersion, rebindCount>>
vars == <<cardVars, binding, lock, tokens, now, pc, req, cmd, selfUnbinds>>

Steps == {"idle", "bindRead", "bindWrite", "unbindRead", "unbindWrite",
          "readDevice", "sign", "markExpired"}

Token   == [dev : Devices, ver : Nat]
(* A request's device, the tokenVersion it read and, when bindDevice decided
   that this is the first activation, the time it read for activatedAt. *)
NoReq   == [dev |-> Null, ver |-> 0, first |-> Null]
Request == [dev : Devices \cup {Null}, ver : Nat, first : Nat \cup {Null}]

Ops == {"none", "ban", "revoke", "unban", "renew", "unbind", "unbindCounted"}
NoCmd   == [op |-> "none", status |-> "unused", expiresAt |-> Null, dev |-> Null]
Command == [op : Ops, status : Statuses, expiresAt : Nat \cup {Null},
            dev : Devices \cup {Null}]

ActiveDevices == {d \in Devices : binding[d] = "active"}

(* A stored "active" counts as expired once its time has come. *)
EffectiveStatus ==
  IF status = "active" /\ expiresAt # Null /\ expiresAt <= now
  THEN "expired" ELSE status

(* Tokens that verify would accept on their version alone. *)
LiveTokens == {t \in tokens : t.ver = tokenVersion}

Init ==
  /\ status = "unused" /\ activatedAt = Null /\ expiresAt = Null
  /\ tokenVersion = 0 /\ rebindCount = 0
  /\ binding = [d \in Devices |-> "none"]
  /\ lock = Null
  /\ tokens = {}
  /\ now = 0
  /\ pc = [c \in Clients |-> "idle"] /\ req = [c \in Clients |-> NoReq]
  /\ cmd = [a \in Admins |-> NoCmd]
  /\ selfUnbinds = 0

-----------------------------------------------------------------------------
(* How a request moves.                                                     *)

Goto(c, step) == pc' = [pc EXCEPT ![c] = step]

(* Mutant of Unlock: the transaction is left open. *)
UnlockForgotten == UNCHANGED lock

(* A transaction ends, by COMMIT or ROLLBACK, and its row lock with it. *)
Unlock == lock' = Null

(* The request answers (or fails) and is forgotten. *)
Finish(c) == Goto(c, "idle") /\ req' = [req EXCEPT ![c] = NoReq]

(* Mutant of LockCard: a plain SELECT. *)
LockCardPlainly(c, d, step) ==
  /\ pc[c] = "idle"
  /\ lock' = c
  /\ Goto(c, step)
  /\ req' = [req EXCEPT ![c] = [NoReq EXCEPT !.dev = d]]
  /\ UNCHANGED <<cardVars, binding, tokens, now, cmd, selfUnbinds>>

(* BEGIN; SELECT .. FOR UPDATE: waits until no other transaction holds the row. *)
LockCard(c, d, step) ==
  /\ pc[c] = "idle"
  /\ lock = Null
  /\ lock' = c
  /\ Goto(c, step)
  /\ req' = [req EXCEPT ![c] = [NoReq EXCEPT !.dev = d]]
  /\ UNCHANGED <<cardVars, binding, tokens, now, cmd, selfUnbinds>>

-----------------------------------------------------------------------------
(* POST /license/activate                                                   *)

Activate(c, d) == LockCard(c, d, "bindRead")

BindRefused(c) ==
  \/ EffectiveStatus \in {"revoked", "banned"}
  \/ /\ EffectiveStatus \in {"unused", "active"}
     /\ binding[req[c].dev] # "active"
     /\ Cardinality(ActiveDevices) >= DeviceLimit

(* bindDevice's reads and decision, on the snapshot taken after the lock. *)
BindRead(c) ==
  /\ pc[c] = "bindRead"
  /\ \/ /\ BindRefused(c)
        /\ Finish(c) /\ Unlock
     \/ /\ EffectiveStatus = "expired"
        /\ Goto(c, "markExpired") /\ Unlock
        /\ UNCHANGED req
     \/ /\ ~BindRefused(c) /\ EffectiveStatus # "expired"
        /\ Goto(c, "bindWrite")
        /\ req' = [req EXCEPT ![c].first = IF status = "unused" THEN now ELSE Null]
        /\ UNCHANGED lock
  /\ UNCHANGED <<cardVars, binding, tokens, now, cmd, selfUnbinds>>

ExpiryFrom(t) == IF DurationDays = Null THEN Null ELSE t + DurationDays

(* bindDevice's writes and COMMIT. The version the token will carry is the
   one of the row just written. *)
BindWrite(c) ==
  /\ pc[c] = "bindWrite"
  /\ binding' = [binding EXCEPT ![req[c].dev] = "active"]
  /\ status' = "active"
  /\ IF req[c].first # Null
     THEN activatedAt' = req[c].first /\ expiresAt' = ExpiryFrom(req[c].first)
     ELSE UNCHANGED <<activatedAt, expiresAt>>
  /\ req' = [req EXCEPT ![c].ver = tokenVersion]
  /\ Goto(c, "sign") /\ Unlock
  /\ UNCHANGED <<tokenVersion, rebindCount, tokens, now, cmd, selfUnbinds>>

(* Mutant of Sign: the version is read again for signing. *)
SignLate(c) ==
  /\ pc[c] = "sign"
  /\ tokens' = tokens \cup {[dev |-> req[c].dev, ver |-> tokenVersion]}
  /\ Finish(c)
  /\ UNCHANGED <<cardVars, binding, lock, now, cmd, selfUnbinds>>

(* The token is signed after the transaction, with what it returned. The
   webhook events emitted here leave the card's state for good. *)
Sign(c) ==
  /\ pc[c] = "sign"
  /\ tokens' = tokens \cup {[dev |-> req[c].dev, ver |-> req[c].ver]}
  /\ Finish(c)
  /\ UNCHANGED <<cardVars, binding, lock, now, cmd, selfUnbinds>>

(* Mutant of MarkExpired: an update by id alone. *)
MarkExpiredAlways(c) ==
  /\ pc[c] = "markExpired"
  /\ lock = Null
  /\ status' = "expired"
  /\ Finish(c)
  /\ UNCHANGED <<activatedAt, expiresAt, tokenVersion, rebindCount, binding,
                 lock, tokens, now, cmd, selfUnbinds>>

(* markExpired: one UPDATE .. WHERE status = 'active', outside any
   transaction, some time after the request saw the card expired. *)
MarkExpired(c) ==
  /\ pc[c] = "markExpired"
  /\ lock = Null
  /\ status' = IF status = "active" THEN "expired" ELSE status
  /\ Finish(c)
  /\ UNCHANGED <<activatedAt, expiresAt, tokenVersion, rebindCount, binding,
                 lock, tokens, now, cmd, selfUnbinds>>

-----------------------------------------------------------------------------
(* POST /license/verify                                                     *)

(* The card is read once; a token of an older version is refused there. *)
Verify(c, t) ==
  /\ pc[c] = "idle"
  /\ t.ver = tokenVersion
  /\ \/ EffectiveStatus = "active"  /\ Goto(c, "readDevice")
     \/ EffectiveStatus = "expired" /\ Goto(c, "markExpired")
  /\ req' = [req EXCEPT ![c] = [NoReq EXCEPT !.dev = t.dev, !.ver = tokenVersion]]
  /\ UNCHANGED <<cardVars, binding, lock, tokens, now, cmd, selfUnbinds>>

(* Then its device; the new token carries the version read before. *)
ReadDevice(c) ==
  /\ pc[c] = "readDevice"
  /\ \/ binding[req[c].dev] = "active" /\ Goto(c, "sign") /\ UNCHANGED req
     \/ binding[req[c].dev] # "active" /\ Finish(c)
  /\ UNCHANGED <<cardVars, binding, lock, tokens, now, cmd, selfUnbinds>>

-----------------------------------------------------------------------------
(* POST /license/deactivate                                                 *)

(* Mutant of Raising: revoking leaves the tokens alone. *)
RaisingUnlessRevoked == {"ban", "unbind", "unbindCounted"}

(* Commands that have read and will raise tokenVersion. *)
Raising == {"ban", "revoke", "unbind", "unbindCounted"}
MayRaise ==
  tokenVersion + Cardinality({a \in Admins : cmd[a].op \in Raising})
               + Cardinality({c \in Clients : pc[c] \in {"unbindRead", "unbindWrite"}})
    < MaxVersion

Deactivate(c, d) == MayRaise /\ LockCard(c, d, "unbindRead")

(* Mutant of MayUnbind: one unbinding too many. *)
MayUnbindOnceMore(d) ==
  /\ binding[d] = "active"
  /\ AllowRebind
  /\ RebindLimit # Null => rebindCount <= RebindLimit

MayUnbind(d) ==
  /\ binding[d] = "active"
  /\ AllowRebind
  /\ RebindLimit # Null => rebindCount < RebindLimit

UnbindRead(c) ==
  /\ pc[c] = "unbindRead"
  /\ \/ MayUnbind(req[c].dev) /\ Goto(c, "unbindWrite") /\ UNCHANGED <<req, lock>>
     \/ ~MayUnbind(req[c].dev) /\ Finish(c) /\ Unlock
  /\ UNCHANGED <<cardVars, binding, tokens, now, cmd, selfUnbinds>>

UnbindWrite(c) ==
  /\ pc[c] = "unbindWrite"
  /\ binding' = [binding EXCEPT ![req[c].dev] = "unbound"]
  /\ rebindCount' = rebindCount + 1
  /\ tokenVersion' = tokenVersion + 1
  /\ selfUnbinds' = selfUnbinds + 1
  /\ Finish(c) /\ Unlock
  /\ UNCHANGED <<status, activatedAt, expiresAt, tokens, now, cmd>>

(* A request dies between two steps: its process crashes, or InnoDB picks its
   transaction as the victim of a deadlock. The transaction rolls back. *)
Abort(c) ==
  /\ pc[c] # "idle"
  /\ Finish(c)
  /\ lock' = IF lock = c THEN Null ELSE lock
  /\ UNCHANGED <<cardVars, binding, tokens, now, cmd, selfUnbinds>>

-----------------------------------------------------------------------------
(* Administrators. Every command reads first and writes later, without a    *)
(* lock in between; the write is unconditional, and waits while a           *)
(* transaction holds the row.                                               *)

Order(a, op, s, e, d) ==
  /\ cmd[a].op = "none"
  /\ cmd' = [cmd EXCEPT ![a] = [op |-> op, status |-> s, expiresAt |-> e, dev |-> d]]
  /\ UNCHANGED <<cardVars, binding, lock, tokens, now, pc, req, selfUnbinds>>

OrderBan(a) ==
  MayRaise /\ status \notin {"banned", "revoked"} /\ Order(a, "ban", "banned", Null, Null)

(* licenses.revoke and batches.revokeAll read and write the same. *)
OrderRevoke(a) ==
  MayRaise /\ status # "revoked" /\ Order(a, "revoke", "revoked", Null, Null)

OrderUnban(a) ==
  /\ status = "banned"
  /\ Order(a, "unban", IF activatedAt # Null THEN "active" ELSE "unused", Null, Null)

(* The new expiry, and the status to write back, come from the row read. *)
OrderRenew(a) ==
  /\ status # "revoked"
  /\ ~(DurationDays = Null /\ expiresAt = Null)
  /\ expiresAt # Null => expiresAt <= MaxTime
  /\ LET base == IF expiresAt # Null /\ expiresAt > now THEN expiresAt ELSE now IN
     Order(a, "renew", IF status = "expired" THEN "active" ELSE status,
           base + RenewDays, Null)

(* Forced unbind, counted against the user's rebind quota or not. *)
OrderUnbind(a, d, op) ==
  /\ MayRaise
  /\ binding[d] = "active"
  /\ Order(a, op, "unused", Null, d)

Dismiss(a) == cmd' = [cmd EXCEPT ![a] = NoCmd]

WriteStatus(a) ==
  /\ cmd[a].op \in {"ban", "revoke", "unban", "renew"}
  /\ lock = Null
  /\ status' = cmd[a].status
  /\ expiresAt' = IF cmd[a].op = "renew" THEN cmd[a].expiresAt ELSE expiresAt
  /\ tokenVersion' = IF cmd[a].op \in Raising THEN tokenVersion + 1 ELSE tokenVersion
  /\ Dismiss(a)
  /\ UNCHANGED <<activatedAt, rebindCount, binding, lock, tokens, now, pc, req, selfUnbinds>>

(* Mutant of WriteUnbind: a forced unbind leaves the tokens alone. *)
WriteUnbindTokensKept(a) ==
  /\ cmd[a].op \in {"unbind", "unbindCounted"}
  /\ lock = Null
  /\ binding' = [binding EXCEPT ![cmd[a].dev] = "unbound"]
  /\ rebindCount' = IF cmd[a].op = "unbindCounted" THEN rebindCount + 1 ELSE rebindCount
  /\ Dismiss(a)
  /\ UNCHANGED <<status, activatedAt, expiresAt, tokenVersion, lock, tokens, now, pc,
                 req, selfUnbinds>>

WriteUnbind(a) ==
  /\ cmd[a].op \in {"unbind", "unbindCounted"}
  /\ lock = Null
  /\ binding' = [binding EXCEPT ![cmd[a].dev] = "unbound"]
  /\ tokenVersion' = tokenVersion + 1
  /\ rebindCount' = IF cmd[a].op = "unbindCounted" THEN rebindCount + 1 ELSE rebindCount
  /\ Dismiss(a)
  /\ UNCHANGED <<status, activatedAt, expiresAt, lock, tokens, now, pc, req,
                 selfUnbinds>>

(* The server dies between an administrator's read and its write. *)
AbortOrder(a) ==
  /\ cmd[a].op # "none"
  /\ Dismiss(a)
  /\ UNCHANGED <<cardVars, binding, lock, tokens, now, pc, req, selfUnbinds>>

-----------------------------------------------------------------------------

Tick ==
  /\ now < MaxTime
  /\ now' = now + 1
  /\ UNCHANGED <<cardVars, binding, lock, tokens, pc, req, cmd, selfUnbinds>>

ClientStep(c) ==
  \/ BindRead(c) \/ BindWrite(c) \/ Sign(c) \/ MarkExpired(c)
  \/ ReadDevice(c)
  \/ UnbindRead(c) \/ UnbindWrite(c)

ClientStart(c) ==
  \/ \E d \in Devices : Activate(c, d) \/ Deactivate(c, d)
  \/ \E t \in tokens : Verify(c, t)

AdminOrder(a) ==
  \/ OrderBan(a) \/ OrderRevoke(a) \/ OrderUnban(a) \/ OrderRenew(a)
  \/ \E d \in Devices : OrderUnbind(a, d, "unbind") \/ OrderUnbind(a, d, "unbindCounted")

AdminWrite(a) == WriteStatus(a) \/ WriteUnbind(a)

Next ==
  \/ \E c \in Clients : ClientStart(c) \/ ClientStep(c) \/ Abort(c)
  \/ \E a \in Admins : AdminOrder(a) \/ AdminWrite(a) \/ AbortOrder(a)
  \/ Tick

Spec == Init /\ [][Next]_vars

(* A started request keeps running; InnoDB grants row locks in the order they
   were asked for, so an update that waits is not overtaken for ever. *)
Fairness ==
  /\ \A c \in Clients : WF_vars(ClientStep(c)) /\ SF_vars(MarkExpired(c))
  /\ \A a \in Admins : SF_vars(AdminWrite(a))

FairSpec == Spec /\ Fairness

-----------------------------------------------------------------------------

TypeOK ==
  /\ status \in Statuses
  /\ activatedAt \in Nat \cup {Null}
  /\ expiresAt \in Nat \cup {Null}
  /\ tokenVersion \in Nat
  /\ rebindCount \in Nat
  /\ binding \in [Devices -> {"none", "active", "unbound"}]
  /\ lock \in Clients \cup {Null}
  /\ tokens \subseteq Token
  /\ now \in Nat
  /\ pc \in [Clients -> Steps]
  /\ req \in [Clients -> Request]
  /\ cmd \in [Admins -> Command]
  /\ selfUnbinds \in Nat

(* Concurrent activations never bind more devices than the card allows: what
   the FOR UPDATE lock in bindDevice is there for. *)
WithinDeviceLimit == Cardinality(ActiveDevices) <= DeviceLimit

(* Unbinding a device, by anyone and at any moment of its own activation or
   verification, leaves no token of that device that verify would accept. *)
LiveTokensAreBound == \A t \in LiveTokens : binding[t.dev] = "active"

(* While one administrator acts at a time, a banned or revoked card has no
   token left that a later unban would bring back to life. *)
BarredCardHasNoLiveTokens == status \in {"banned", "revoked"} => LiveTokens = {}

(* Users never unbind themselves more often than the plan lets them. *)
SelfUnbindsWithinLimit == RebindLimit # Null => selfUnbinds <= RebindLimit

(* Once revoked, a card stays revoked: "revoked is final, no further change"
   (licenses.service.ts:276), against activations and expiries in flight. *)
RevokedIsFinal == [][status = "revoked" => status' = "revoked"]_vars

(* Requests, versions, locks and expiries aside, the card keeps the promise of
   Card while one administrator acts at a time: the devices it admits are those
   with a token of the current version. *)
Promise == INSTANCE Card WITH
  Limit <- DeviceLimit,
  phase <- IF status \in {"banned", "revoked"} THEN status ELSE "open",
  admitted <- {t.dev : t \in LiveTokens}

ImplementsCard == Promise!Spec

(* The rebind quota is charged only by a step that takes a device off. *)
ChargedPerDetach == [][rebindCount' > rebindCount => binding' # binding]_vars

(* A card is recorded as expired only once its time has passed. *)
ExpiredMeansPast == status = "expired" => expiresAt # Null /\ expiresAt <= now

(* Only a card that was never activated is activated for the first time, gets
   its term from now on and emits license.activated. *)
FirstActivationOnce ==
  \A c \in Clients : pc[c] = "bindWrite" /\ req[c].first # Null => activatedAt = Null

(* A command that has been ordered is carried out, or its request dies: no
   activation or unbinding in flight keeps the row locked for ever. *)
OrdersEnd == \A a \in Admins : cmd[a].op # "none" ~> cmd[a].op = "none"

=============================================================================
