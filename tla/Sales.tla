------------------------------- MODULE Sales -------------------------------
(***************************************************************************)
(* From a plan to the cards of a batch: the console's plan form            *)
(* (PlansView.vue), plans, their removal and the application's             *)
(* (plans.service.ts, applications.service.ts), the generation of a batch  *)
(* and its export (licenses.service.ts), and the commands that bar many    *)
(* cards in one request, card by card (licenses.service.ts,                *)
(* batches.service.ts).                                                    *)
(*                                                                         *)
(* A step is one statement: generate and remove read, then write, with no  *)
(* transaction around it; a foreign key refuses a plan that a batch or a   *)
(* card refers to.  What becomes of one card between a client and an       *)
(* administrator is Licensing's.                                           *)
(***************************************************************************)
EXTENDS Integers, FiniteSets

CONSTANTS
  Sellers,    \* requests, or open forms, of those who keep plans and generate
  Managers,   \* requests that bar cards in progress
  Plans,      \* plans.id
  Batches,    \* license_batches.id: each names one request to generate
  Slots,      \* the cards of a batch
  Unset,      \* SQL NULL, a number input that was cleared
  Left,       \* a field that a request leaves out
  Forms,      \* bound: what an administrator may leave in the plan form
  Bodies,     \* bound: what other callers of the plans' endpoints send
  Overrides   \* bound: the terms that a request to generate gives itself

Optional == Nat \cup {Unset}

(* What a plan sells and a card keeps. *)
Rules ==
  [durationDays : Optional, deviceLimit : Nat, allowRebind : BOOLEAN,
   rebindLimit : Optional, offlineGraceHours : Nat, quotaPerDevice : Optional]

(* The plan dialog: switches, and number inputs that may have been cleared. *)
PlanForm ==
  [permanent : BOOLEAN, duration_days : Optional, device_limit : Optional,
   allow_rebind : BOOLEAN, unlimited_rebind : BOOLEAN, rebind_limit : Optional,
   offline_grace_hours : Optional, count_card : BOOLEAN, quota_per_device : Optional,
   status : {"active", "inactive"}]

(* CreatePlanDto and UpdatePlanDto, as they come through the validation. *)
PlanBody ==
  [duration_days : Optional \cup {Left}, device_limit : Optional \cup {Left},
   allow_rebind : BOOLEAN \cup {Unset, Left}, rebind_limit : Optional \cup {Left},
   offline_grace_hours : Optional \cup {Left}, quota_per_device : Optional \cup {Left},
   status : {"active", "inactive", Unset, Left}]

Special == [duration_days : Optional, device_limit : Optional, quota_per_device : Optional]

ASSUME SalesAssumption ==
  /\ Unset \notin Nat \cup Plans \cup Batches \cup BOOLEAN \cup {"active", "inactive"}
  /\ Left \notin Nat \cup BOOLEAN \cup {Unset, "active", "inactive"}
  /\ Forms \subseteq PlanForm /\ Bodies \subseteq PlanBody
  /\ Overrides \subseteq Special

Cards == Batches \X Slots
CardsOf(b) == {c \in Cards : c[1] = b}

-----------------------------------------------------------------------------
(* The plan form.                                                           *)

Or(x, default) == IF x = Unset THEN default ELSE x

BlankForm ==
  [permanent |-> FALSE, duration_days |-> 30, device_limit |-> 1,
   allow_rebind |-> TRUE, unlimited_rebind |-> FALSE, rebind_limit |-> 3,
   offline_grace_hours |-> 72, count_card |-> FALSE, quota_per_device |-> 100,
   status |-> "active"]

(* openEdit: the row into the form. *)
FormOf(row) ==
  LET r == row.rules IN
  [permanent |-> r.durationDays = Unset, duration_days |-> Or(r.durationDays, 30),
   device_limit |-> r.deviceLimit, allow_rebind |-> r.allowRebind,
   unlimited_rebind |-> r.allowRebind /\ r.rebindLimit = Unset,
   rebind_limit |-> Or(r.rebindLimit, 3),
   offline_grace_hours |-> r.offlineGraceHours,
   count_card |-> r.quotaPerDevice # Unset,
   quota_per_device |-> Or(r.quotaPerDevice, 100),
   status |-> row.state]

(* save: the form into the body of the request. *)
BodyOf(f) ==
  [duration_days |-> IF f.permanent THEN Unset ELSE f.duration_days,
   device_limit |-> f.device_limit, allow_rebind |-> f.allow_rebind,
   rebind_limit |-> IF ~f.allow_rebind \/ f.unlimited_rebind THEN Unset ELSE f.rebind_limit,
   offline_grace_hours |-> f.offline_grace_hours,
   quota_per_device |-> IF f.count_card THEN f.quota_per_device ELSE Unset,
   status |-> f.status]

(* create: what is left out or null has a default, but for the device limit. *)
Default(x, default) == IF x \in {Left, Unset} THEN default ELSE x
Creatable(body) == body.device_limit \notin {Left, Unset}
Created(body) ==
  [state |-> Default(body.status, "active"),
   rules |-> [durationDays |-> Default(body.duration_days, Unset),
              deviceLimit |-> body.device_limit,
              allowRebind |-> Default(body.allow_rebind, TRUE),
              rebindLimit |-> Default(body.rebind_limit, Unset),
              offlineGraceHours |-> Default(body.offline_grace_hours, 72),
              quotaPerDevice |-> Default(body.quota_per_device, Unset)]]

(* update: what is left out stays, what is null is written; the columns that
   take no null refuse it. *)
Sent(x, old) == IF x = Left THEN old ELSE x
Writable(body) ==
  /\ body.device_limit # Unset /\ body.offline_grace_hours # Unset
  /\ body.allow_rebind # Unset /\ body.status # Unset
Updated(row, body) ==
  [state |-> Sent(body.status, row.state),
   rules |-> [durationDays |-> Sent(body.duration_days, row.rules.durationDays),
              deviceLimit |-> Sent(body.device_limit, row.rules.deviceLimit),
              allowRebind |-> Sent(body.allow_rebind, row.rules.allowRebind),
              rebindLimit |-> Sent(body.rebind_limit, row.rules.rebindLimit),
              offlineGraceHours |-> Sent(body.offline_grace_hours, row.rules.offlineGraceHours),
              quotaPerDevice |-> Sent(body.quota_per_device, row.rules.quotaPerDevice)]]

(* What a card of these rules lets its buyer do: without rebinding, a limit of
   rebindings says nothing. *)
Effect(r) == IF r.allowRebind THEN r ELSE [r EXCEPT !.rebindLimit = Unset]

(* A card's terms: those the request gives, for the rest the plan's. *)
With(r, o) ==
  [r EXCEPT !.durationDays = Or(o.duration_days, r.durationDays),
            !.deviceLimit = Or(o.device_limit, r.deviceLimit),
            !.quotaPerDevice = Or(o.quota_per_device, r.quotaPerDevice)]

-----------------------------------------------------------------------------

VARIABLES
  plan,      \* plans: state (none, active, inactive or removed) and rules
  batch,     \* license_batches: state, plan; and the terms asked for
  card,      \* license_keys: status, activatedAt set or not, terms
  appGone,   \* the application is deleted
  desk,      \* what each seller is at
  order,     \* what each manager's request has still to write
  offered,   \* history: the rules each plan had while on sale
  handed,    \* history: cards whose plaintext was given out
  quashed    \* history: batches revoked as a whole, their cards being there

stockVars == <<plan, batch, card, appGone>>
salesVars == <<stockVars, desk, order, offered, handed, quashed>>

NoPlan  == [state |-> "none", rules |-> Unset]
NoBatch == [state |-> "none", plan |-> Unset, over |-> Unset]
NoCard  == [status |-> "none", activated |-> FALSE, rules |-> Unset]
AtRest  == [step |-> "rest", plan |-> Unset, batch |-> Unset, form |-> Unset, rules |-> Unset]
NoOrder == [op |-> "none", todo |-> [c \in {} |-> Unset], batch |-> Unset]

PlanExists(p) == plan[p].state \in {"active", "inactive"}
CardExists(c) == card[c].status # "none"
Held(b) == batch[b].state = "none" /\ \E s \in Sellers : desk[s].batch = b

(* The rows a plan's foreign keys see. *)
Referred(p) ==
  \/ \E b \in Batches : batch[b].state = "present" /\ batch[b].plan = p
  \/ \E c \in Cards : CardExists(c) /\ batch[c[1]].plan = p

SalesInit ==
  /\ plan = [p \in Plans |-> NoPlan]
  /\ batch = [b \in Batches |-> NoBatch]
  /\ card = [c \in Cards |-> NoCard]
  /\ appGone = FALSE
  /\ desk = [s \in Sellers |-> AtRest]
  /\ order = [m \in Managers |-> NoOrder]
  /\ offered = [p \in Plans |-> {}]
  /\ handed = {} /\ quashed = {}

Rest(s) == desk' = [desk EXCEPT ![s] = AtRest]

-----------------------------------------------------------------------------
(* Plans.                                                                   *)

OpenCreate(s) ==
  /\ desk[s].step = "rest"
  /\ desk' = [desk EXCEPT ![s] = [AtRest EXCEPT !.step = "form", !.form = BlankForm]]
  /\ UNCHANGED <<stockVars, order, offered, handed, quashed>>

(* The row comes from the list, which may have been loaded long ago. *)
OpenEdit(s, p) ==
  /\ desk[s].step = "rest"
  /\ PlanExists(p)
  /\ desk' = [desk EXCEPT ![s] =
       [AtRest EXCEPT !.step = "form", !.plan = p, !.form = FormOf(plan[p])]]
  /\ UNCHANGED <<stockVars, order, offered, handed, quashed>>

FillIn(s, f) ==
  /\ desk[s].step = "form"
  /\ desk' = [desk EXCEPT ![s].form = f]
  /\ UNCHANGED <<stockVars, order, offered, handed, quashed>>

WritePlan(p, row) ==
  /\ plan' = [plan EXCEPT ![p] = row]
  /\ offered' = IF row.state = "active"
                THEN [offered EXCEPT ![p] = @ \cup {row.rules}] ELSE offered
  /\ UNCHANGED <<batch, card, appGone, order, handed, quashed>>

CreatePlan(p, body) ==
  /\ ~appGone /\ plan[p].state = "none" /\ Creatable(body)
  /\ WritePlan(p, Created(body))

UpdatePlan(p, body) ==
  /\ PlanExists(p) /\ Writable(body)
  /\ WritePlan(p, Updated(plan[p], body))

(* save; a form that is refused stays open. *)
Save(s, p) ==
  /\ desk[s].step = "form" /\ desk[s].plan \in {Unset, p}
  /\ IF desk[s].plan = Unset THEN CreatePlan(p, BodyOf(desk[s].form))
                             ELSE UpdatePlan(p, BodyOf(desk[s].form))
  /\ Rest(s)

(* Somebody else calls the endpoints, with whatever they let through. *)
Call(p, body) ==
  /\ CreatePlan(p, body) \/ UpdatePlan(p, body)
  /\ desk' = desk

(* remove: no cards yet, so far as the count tells. *)
CountCards(s, p) ==
  /\ desk[s].step = "rest"
  /\ PlanExists(p)
  /\ \A c \in Cards : CardExists(c) => batch[c[1]].plan # p
  /\ desk' = [desk EXCEPT ![s] = [AtRest EXCEPT !.step = "drop", !.plan = p]]
  /\ UNCHANGED <<stockVars, order, offered, handed, quashed>>

(* Mutant of DropPlan: the relations of batches and cards cascade. *)
DropPlanCascading(s) ==
  /\ desk[s].step = "drop"
  /\ PlanExists(desk[s].plan)
  /\ plan' = [plan EXCEPT ![desk[s].plan].state = "removed"]
  /\ batch' = [b \in Batches |->
       IF batch[b].plan = desk[s].plan THEN [batch[b] EXCEPT !.state = "removed"] ELSE batch[b]]
  /\ card' = [c \in Cards |-> IF batch[c[1]].plan = desk[s].plan THEN NoCard ELSE card[c]]
  /\ Rest(s)
  /\ UNCHANGED <<appGone, order, offered, handed, quashed>>

DropPlan(s) ==
  /\ desk[s].step = "drop"
  /\ PlanExists(desk[s].plan) /\ ~Referred(desk[s].plan)
  /\ plan' = [plan EXCEPT ![desk[s].plan].state = "removed"]
  /\ Rest(s)
  /\ UNCHANGED <<batch, card, appGone, order, offered, handed, quashed>>

-----------------------------------------------------------------------------
(* The application.                                                         *)

CountAllCards(s) ==
  /\ desk[s].step = "rest"
  /\ ~appGone
  /\ \A c \in Cards : ~CardExists(c)
  /\ desk' = [desk EXCEPT ![s] = [AtRest EXCEPT !.step = "close"]]
  /\ UNCHANGED <<stockVars, order, offered, handed, quashed>>

(* Every relation to the application cascades (or the database refuses all of it,
   for the plans that batches still refer to: GiveUp). *)
CloseApp(s) ==
  /\ desk[s].step = "close"
  /\ ~appGone
  /\ appGone' = TRUE
  /\ plan' = [p \in Plans |-> IF PlanExists(p) THEN [plan[p] EXCEPT !.state = "removed"]
                                               ELSE plan[p]]
  /\ batch' = [b \in Batches |->
       IF batch[b].state = "present" THEN [batch[b] EXCEPT !.state = "removed"] ELSE batch[b]]
  /\ card' = [c \in Cards |-> NoCard]
  /\ Rest(s)
  /\ UNCHANGED <<order, offered, handed, quashed>>

-----------------------------------------------------------------------------
(* Generating and exporting.                                                *)

Generate(s, p, b, o) ==
  /\ desk[s].step = "rest"
  /\ batch[b].state = "none" /\ ~Held(b)
  /\ plan[p].state = "active"
  /\ desk' = [desk EXCEPT ![s] =
       [AtRest EXCEPT !.step = "declare", !.plan = p, !.batch = b,
                      !.form = o, !.rules = With(plan[p].rules, o)]]
  /\ UNCHANGED <<stockVars, order, offered, handed, quashed>>

(* licenseBatch.create: refused when the plan is gone. *)
Declare(s) ==
  /\ desk[s].step = "declare"
  /\ PlanExists(desk[s].plan)
  /\ batch' = [batch EXCEPT ![desk[s].batch] =
       [state |-> "present", plan |-> desk[s].plan, over |-> desk[s].form]]
  /\ desk' = [desk EXCEPT ![s].step = "stock"]
  /\ UNCHANGED <<plan, card, appGone, order, offered, handed, quashed>>

NewCard(rules) == [status |-> "unused", activated |-> FALSE, rules |-> rules]

(* Mutant of Stock: the terms are those the plan has by now. *)
StockAnew(s) ==
  /\ desk[s].step = "stock"
  /\ PlanExists(desk[s].plan)
  /\ card' = [c \in Cards |->
       IF c[1] = desk[s].batch
       THEN NewCard(With(plan[desk[s].plan].rules, desk[s].form)) ELSE card[c]]
  /\ desk' = [desk EXCEPT ![s].step = "answer"]
  /\ UNCHANGED <<plan, batch, appGone, order, offered, handed, quashed>>

(* licenseKey.createMany: one statement, all of the batch or nothing. *)
Stock(s) ==
  /\ desk[s].step = "stock"
  /\ PlanExists(desk[s].plan)
  /\ card' = [c \in Cards |->
       IF c[1] = desk[s].batch THEN NewCard(desk[s].rules) ELSE card[c]]
  /\ desk' = [desk EXCEPT ![s].step = "answer"]
  /\ UNCHANGED <<plan, batch, appGone, order, offered, handed, quashed>>

Answer(s) ==
  /\ desk[s].step = "answer"
  /\ handed' = handed \cup CardsOf(desk[s].batch)
  /\ Rest(s)
  /\ UNCHANGED <<stockVars, order, offered, quashed>>

(* exportCsv: the cards that were ticked, or else those of a batch. *)
Picked(S, b) == IF S # {} THEN S ELSE CardsOf(b)

(* exportPlain: the cards it finds of those, if any. *)
ExportPlain(S, b) ==
  LET found == {c \in Picked(S, b) : CardExists(c)} IN
  /\ found # {}
  /\ handed' = handed \cup found
  /\ UNCHANGED <<stockVars, desk, order, offered, quashed>>

(* A form is closed, a statement is refused by a foreign key, a request dies. *)
GiveUp(s) ==
  /\ desk[s].step # "rest"
  /\ Rest(s)
  /\ UNCHANGED <<stockVars, order, offered, handed, quashed>>

-----------------------------------------------------------------------------
(* Barring.                                                                 *)

(* A buyer activates the card for the first time. *)
Redeem(c) ==
  /\ c \in handed
  /\ card[c].status = "unused"
  /\ card' = [card EXCEPT ![c].status = "active", ![c].activated = TRUE]
  /\ UNCHANGED <<plan, batch, appGone, desk, order, offered, handed, quashed>>

(* One findMany, then an update for each card that it found to need one. *)
Begin(m, op, todo, b) ==
  /\ order[m].op = "none"
  /\ order' = [order EXCEPT ![m] = [op |-> op, todo |-> todo, batch |-> b]]
  /\ UNCHANGED <<stockVars, desk, offered, handed, quashed>>

(* Mutant of Barrable: a revoked card can be banned. *)
BarrableAgain(S, to) == {c \in S : CardExists(c) /\ card[c].status # to}

Barrable(S, to) == {c \in S : CardExists(c) /\ card[c].status \notin {to, "revoked"}}

(* transition: ban and revoke, of one card or of those ticked. *)
Transition(m, S, to) == Begin(m, to, [c \in Barrable(S, to) |-> to], Unset)

Unban(m, S) ==
  Begin(m, "unban",
        [c \in {x \in S : card[x].status = "banned"} |->
           IF card[c].activated THEN "active" ELSE "unused"], Unset)

RevokeAll(m, b) ==
  /\ batch[b].state = "present"
  /\ Begin(m, "revokeAll", [c \in Barrable(CardsOf(b), "revoked") |-> "revoked"],
           IF \A c \in CardsOf(b) : CardExists(c) THEN b ELSE Unset)

(* The update by id alone; it fails, and the request with it, when the row is
   gone. *)
WriteNext(m, c) ==
  /\ c \in DOMAIN order[m].todo
  /\ CardExists(c)
  /\ card' = [card EXCEPT ![c].status = order[m].todo[c]]
  /\ order' = [order EXCEPT ![m].todo = [x \in (DOMAIN @) \ {c} |-> @[x]]]
  /\ UNCHANGED <<plan, batch, appGone, desk, offered, handed, quashed>>

Complete(m) ==
  /\ order[m].op # "none" /\ DOMAIN order[m].todo = {}
  /\ quashed' = IF order[m].batch # Unset THEN quashed \cup {order[m].batch} ELSE quashed
  /\ order' = [order EXCEPT ![m] = NoOrder]
  /\ UNCHANGED <<stockVars, desk, offered, handed>>

(* The request dies half-way: the cards before keep what was written. *)
GiveUpOrder(m) ==
  /\ order[m].op # "none"
  /\ order' = [order EXCEPT ![m] = NoOrder]
  /\ UNCHANGED <<stockVars, desk, offered, handed, quashed>>

-----------------------------------------------------------------------------

SellerStep(s) ==
  \/ OpenCreate(s) \/ DropPlan(s)
  \/ CountAllCards(s) \/ CloseApp(s)
  \/ Declare(s) \/ Stock(s) \/ Answer(s) \/ GiveUp(s)
  \/ \E f \in Forms : FillIn(s, f)
  \/ \E p \in Plans :
       \/ OpenEdit(s, p) \/ Save(s, p) \/ CountCards(s, p)
       \/ \E b \in Batches, o \in Overrides : Generate(s, p, b, o)

ManagerStep(m) ==
  \/ \E S \in SUBSET Cards :
       Transition(m, S, "banned") \/ Transition(m, S, "revoked") \/ Unban(m, S)
  \/ \E b \in Batches : RevokeAll(m, b)
  \/ \E c \in Cards : WriteNext(m, c)
  \/ Complete(m) \/ GiveUpOrder(m)

SalesNext ==
  \/ \E s \in Sellers : SellerStep(s)
  \/ \E m \in Managers : ManagerStep(m)
  \/ \E p \in Plans, body \in Bodies : Call(p, body)
  \/ \E c \in Cards : Redeem(c)
  \/ \E S \in SUBSET Cards, b \in Batches : ExportPlain(S, b)

SalesSpec == SalesInit /\ [][SalesNext]_salesVars

-----------------------------------------------------------------------------

(* Whatever is changed about a plan while its cards are being generated, all
   cards of a batch carry one set of terms that the plan had on sale, apart from
   what the request itself asked for. *)
SoldOnOffer ==
  \A b \in Batches :
    (\E c \in CardsOf(b) : CardExists(c)) =>
      \E r \in offered[batch[b].plan] :
        \A c \in CardsOf(b) : CardExists(c) /\ card[c].rules = With(r, batch[b].over)

(* A key that was given out, by generate or by an export, opens a card whose
   plan is there too, however the removal of plans races with its generation:
   only the removal of the whole application takes it away. *)
HandedCardsStay ==
  appGone \/ \A c \in handed : CardExists(c) /\ PlanExists(batch[c[1]].plan)

(* Claimed: the switch of PlansView.vue:175 between permanent cards and limited
   ones: a plan saved as limited has a date. Violated when its days are cleared. *)
LimitedHasDays ==
  [][ \A s \in Sellers, p \in Plans :
        Save(s, p) /\ ~desk[s].form.permanent => plan'[p].rules.durationDays # Unset ]_salesVars

(* A batch revoked as a whole stays revoked to its last card, while those who
   bar cards act one at a time. *)
QuashedStaysDead ==
  \A b \in quashed : \A c \in CardsOf(b) : card[c].status \in {"revoked", "none"}

=============================================================================
