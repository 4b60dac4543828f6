------------------------------ MODULE Control ------------------------------
(***************************************************************************)
(* How a switch thrown in the console reaches a program: the remote        *)
(* controls of an application (ApplicationsView.vue,                       *)
(* applications.service.ts), the check every activation and verification   *)
(* passes (policy.service.ts), the records that answer a repeated          *)
(* activation without it (open.controller.ts, idempotency.service.ts), and *)
(* the program that runs on without an answer (client.ts).                 *)
(*                                                                         *)
(* One application and one program: programs do not meet.  What becomes of *)
(* the card and its devices is Licensing's, what of the licence file       *)
(* Clients'; here every refusal that is not the application's is an error. *)
(***************************************************************************)
EXTENDS Integers

CONSTANTS
  Editors,    \* administrators with the page of applications open
  Slots,      \* requests of the program that may be at the server together
  Bodies,     \* bound: what an administrator may send to updatePolicy
  Releases,   \* versions that may be published
  Version,    \* client_version
  Unset,      \* SQL NULL, or a field that a request leaves out
  Never,      \* no answer kept
  Grace,      \* offline_grace_hours
  Retention,  \* RETENTION_HOURS of an idempotency record
  Patience,   \* timeoutMs: how long the program waits for an answer
  Slack,      \* assumed: the longest an activation takes from check to record
  Horizon     \* bound: the last instant

Dto ==
  [killSwitch : BOOLEAN \cup {Unset}, maintenance : BOOLEAN \cup {Unset},
   minVersion : Nat \cup {Unset}, latestVersion : Nat \cup {Unset}]

ASSUME ControlAssumption ==
  /\ Unset \notin Nat \cup BOOLEAN /\ Never \notin Nat
  /\ Bodies \subseteq Dto /\ Releases \subseteq Nat /\ Version \in Nat
  /\ Grace \in Nat /\ Retention \in Nat /\ Patience \in Nat /\ Slack \in Nat
  /\ Horizon \in Nat

VARIABLES
  app,          \* applications: status and controls
  drawer,       \* editor -> what the open drawer was filled from, if it is open
  asking,       \* the program's call in progress
  request,      \* the requests of the program
  saved,        \* until when the idempotency record is good, or Never
  verified,     \* lastVerifiedAt in the licence file, or Never
  clock,        \* the time
  repeats,      \* history: an activation was sent with an idempotency key
  lastAllowed,  \* history: when the application last let the program run
  lastOpen,     \*   and when it last let it activate
  told          \* history: how the last call ended, if at this instant

platformVars == <<app, drawer, saved>>
programVars == <<asking, request, verified, repeats, told>>
controlVars == <<platformVars, programVars, clock, lastAllowed, lastOpen>>

NoRequest == [at |-> "none", kind |-> "none", keyed |-> FALSE, sent |-> 0, since |-> 0,
              waited |-> FALSE]
NoCall == [kind |-> "none", keyed |-> FALSE, at |-> "none"]

-----------------------------------------------------------------------------
(* assertRunnable.                                                          *)

(* Versions are numbers here; compareVersion orders the written ones. *)
TooOld(a) == a.minVersion # Unset /\ Version < a.minVersion

Allows(a) == a.status = "active" /\ ~a.killSwitch /\ ~TooOld(a)
Admits(a) == Allows(a) /\ ~a.maintenance

(* Mutant of assertRunnable: maintenance is forgotten. *)
assertRunnableAnyway(a, kind) == a.status = "active" /\ ~a.killSwitch /\ ~TooOld(a)

assertRunnable(a, kind) ==
  /\ a.status = "active" /\ ~a.killSwitch
  /\ ~(a.maintenance /\ kind = "activate")
  /\ ~TooOld(a)

ControlInit ==
  /\ app = [status |-> "active", killSwitch |-> FALSE, maintenance |-> FALSE,
            minVersion |-> Unset, latestVersion |-> Unset]
  /\ drawer = [e \in Editors |-> "closed"]
  /\ asking = NoCall /\ request = [s \in Slots |-> NoRequest]
  /\ saved = Never /\ verified = Never /\ clock = 0 /\ repeats = FALSE
  /\ lastAllowed = 0 /\ lastOpen = 0 /\ told = "nothing"

(* The histories follow the switches and the clock. *)
Watch(a, t) ==
  /\ lastAllowed' = IF Allows(a) THEN t ELSE lastAllowed
  /\ lastOpen' = IF Admits(a) THEN t ELSE lastOpen

-----------------------------------------------------------------------------
(* The console.                                                             *)

(* update, as the switch for the status of an application uses it. *)
UpdateApp(next) ==
  /\ app' = [app EXCEPT !.status = next]
  /\ Watch([app EXCEPT !.status = next], clock)
  /\ UNCHANGED <<saved, programVars, clock>>

(* toggleStatus: the opposite of what the list shows, which may be old. *)
ToggleStatus(next) == UpdateApp(next) /\ UNCHANGED drawer

(* openControl: the drawer is filled once, and stays as the row changes. *)
OpenControl(e) ==
  /\ drawer[e] = "closed"
  /\ drawer' = [drawer EXCEPT ![e] = IF app.killSwitch THEN "killed" ELSE "running"]
  /\ UNCHANGED <<app, saved, programVars, clock, lastAllowed, lastOpen>>

CloseControl(e) ==
  /\ drawer[e] # "closed"
  /\ drawer' = [drawer EXCEPT ![e] = "closed"]
  /\ UNCHANGED <<app, saved, programVars, clock, lastAllowed, lastOpen>>

(* 0 stands for the empty string, which takes a version back. *)
Given(x, old) == IF x = Unset THEN old ELSE IF x = 0 THEN Unset ELSE x

UpdatePolicy(b) ==
  LET new == [app EXCEPT
        !.killSwitch = IF b.killSwitch = Unset THEN @ ELSE b.killSwitch,
        !.maintenance = IF b.maintenance = Unset THEN @ ELSE b.maintenance,
        !.minVersion = Given(b.minVersion, app.minVersion),
        !.latestVersion = Given(b.latestVersion, app.latestVersion)] IN
  /\ (b.minVersion \notin {Unset, 0} /\ b.latestVersion \notin {Unset, 0})
        => b.minVersion <= b.latestVersion
  /\ app' = new
  /\ Watch(new, clock)
  /\ UNCHANGED <<saved, programVars, clock>>

(* The switches and inputs of the drawer all hold a value, an empty one at least. *)
Filled(b) == Unset \notin {b.killSwitch, b.maintenance, b.minVersion, b.latestVersion}

(* saveControl: all that the drawer holds, whatever the row has become. *)
SaveControl(e, b) ==
  /\ drawer[e] # "closed"
  /\ Filled(b)
  /\ UpdatePolicy(b)
  /\ drawer' = [drawer EXCEPT ![e] = "closed"]

(* A script of the administrator's, which may send a field alone. *)
CallPolicy(b) == UpdatePolicy(b) /\ UNCHANGED drawer

(* releases.service.ts: any release published becomes the latest. *)
Publish(v) ==
  /\ app' = [app EXCEPT !.latestVersion = v]
  /\ UNCHANGED <<drawer, saved, programVars, clock, lastAllowed, lastOpen>>

-----------------------------------------------------------------------------
(* The program.                                                             *)

Repeated(s) == request[s].kind = "activate" /\ request[s].keyed

Call(kind, keyed) ==
  /\ asking.at = "none"
  /\ kind = "verify" => verified # Never /\ ~keyed
  /\ asking' = [kind |-> kind, keyed |-> keyed, at |-> "send"]
  /\ repeats' = (repeats \/ keyed) /\ told' = "nothing"
  /\ UNCHANGED <<platformVars, request, verified, clock, lastAllowed, lastOpen>>

Send(s) ==
  /\ asking.at = "send" /\ request[s].at = "none"
  /\ request' = [request EXCEPT ![s] =
       [at |-> "sent", kind |-> asking.kind, keyed |-> asking.keyed, sent |-> clock,
        since |-> 0, waited |-> TRUE]]
  /\ asking' = [asking EXCEPT !.at = "wait"]
  /\ UNCHANGED <<platformVars, verified, repeats, told, clock, lastAllowed, lastOpen>>

(* The answer is there: the licence is kept, and the program runs. *)
Hear(s) ==
  /\ request[s].at \in {"answered", "replayed"} /\ request[s].waited
  /\ request' = [request EXCEPT ![s] = NoRequest]
  /\ asking' = NoCall
  /\ verified' = clock
  /\ told' = IF request[s].at = "replayed" THEN "again"
             ELSE IF request[s].kind = "activate" THEN "join" ELSE "run"
  /\ UNCHANGED <<platformVars, repeats, clock, lastAllowed, lastOpen>>

(* No answer in time, or none at all: the request goes on by itself, and leaves
   something here if it is an activation with a key. *)
NoAnswer(s) ==
  /\ request[s].waited
  /\ request' = [request EXCEPT ![s] =
       IF @.at \in {"answered", "replayed"} \/ ~Repeated(s) THEN NoRequest
       ELSE [@ EXCEPT !.waited = FALSE, !.sent = 0]]
  /\ asking' = [asking EXCEPT !.at = "lost"]
  /\ UNCHANGED <<platformVars, verified, repeats, told, clock, lastAllowed, lastOpen>>

(* It asks again, as often as maxRetries says ... *)
Retry ==
  /\ asking.at = "lost"
  /\ asking' = [asking EXCEPT !.at = "send"]
  /\ UNCHANGED <<platformVars, request, verified, repeats, told, clock, lastAllowed,
                 lastOpen>>

(* Mutant of FallbackOffline: a run without an answer counts as verified. *)
FallbackVerified ==
  /\ asking.at = "lost" /\ asking.kind = "verify"
  /\ Grace > 0 /\ clock - verified <= Grace
  /\ asking' = NoCall
  /\ verified' = clock /\ told' = "run"
  /\ UNCHANGED <<platformVars, request, repeats, clock, lastAllowed, lastOpen>>

(* ... then verify lets the program run within the grace, ... *)
FallbackOffline ==
  /\ asking.at = "lost" /\ asking.kind = "verify"
  /\ Grace > 0 /\ clock - verified <= Grace
  /\ asking' = NoCall
  /\ told' = "run"
  /\ UNCHANGED <<platformVars, request, verified, repeats, clock, lastAllowed, lastOpen>>

(* ... and anything else is thrown. *)
Throw ==
  /\ asking.at = "lost"
  /\ asking' = NoCall
  /\ UNCHANGED <<platformVars, request, verified, repeats, told, clock, lastAllowed,
                 lastOpen>>

-----------------------------------------------------------------------------
(* The server.                                                              *)

(* Mutant of OnRecord: a record is good for ever. *)
OnRecordForEver(s) == Repeated(s) /\ saved # Never

OnRecord(s) == Repeated(s) /\ saved # Never /\ clock <= saved

(* withIdempotency: the first answer, however the application stands now. *)
Replay(s) ==
  /\ request[s].at = "sent" /\ OnRecord(s)
  /\ request' = IF request[s].waited
                THEN [request EXCEPT ![s].at = "replayed"]
                ELSE [request EXCEPT ![s] = NoRequest]
  /\ UNCHANGED <<platformVars, asking, verified, repeats, told, clock, lastAllowed,
                 lastOpen>>

(* A record past its time is deleted. *)
Lookup(s) ==
  /\ request[s].at = "sent" /\ Repeated(s) /\ ~OnRecord(s)
  /\ saved' = Never
  /\ request' = [request EXCEPT ![s].at = "missed"]
  /\ UNCHANGED <<app, drawer, asking, verified, repeats, told, clock, lastAllowed, lastOpen>>

Arrived(s) == IF Repeated(s) THEN request[s].at = "missed" ELSE request[s].at = "sent"

(* resolveApp and assertRunnable: the handler goes on, ... *)
CheckApp(s) ==
  /\ Arrived(s)
  /\ assertRunnable(app, request[s].kind)
  /\ request' = [request EXCEPT ![s].at = "let", ![s].since = IF Repeated(s) THEN clock ELSE 0]
  /\ UNCHANGED <<platformVars, asking, verified, repeats, told, clock, lastAllowed, lastOpen>>

(* A request is refused, and whoever waits for it is told. *)
Turned(s) ==
  /\ request' = [request EXCEPT ![s] = NoRequest]
  /\ asking' = IF request[s].waited THEN NoCall ELSE asking

(* ... or not. *)
Refuse(s) ==
  /\ Arrived(s)
  /\ ~assertRunnable(app, request[s].kind)
  /\ Turned(s)
  /\ UNCHANGED <<platformVars, verified, repeats, told, clock, lastAllowed, lastOpen>>

(* Any other error, of the guards, the card or the database: one that passes is
   tried again. *)
Fail(s) ==
  /\ request[s].at \in {"sent", "missed", "let"}
  /\ \/ Turned(s)
     \/ /\ request[s].waited
        /\ request' = [request EXCEPT ![s] = NoRequest]
        /\ asking' = [asking EXCEPT !.at = "send"]
  /\ UNCHANGED <<platformVars, verified, repeats, told, clock, lastAllowed, lastOpen>>

(* The handler is through; save keeps the first record there is. *)
Finish(s) ==
  /\ request[s].at = "let"
  /\ saved' = IF Repeated(s) /\ saved = Never THEN clock + Retention ELSE saved
  /\ request' = IF request[s].waited
                THEN [request EXCEPT ![s].at = "answered", ![s].since = 0]
                ELSE [request EXCEPT ![s] = NoRequest]
  /\ UNCHANGED <<app, drawer, asking, verified, repeats, told, clock, lastAllowed,
                 lastOpen>>

(* The program gives up in time, and no activation is longer at work than Slack. *)
Due(s) ==
  \/ request[s].waited /\ clock >= request[s].sent + Patience
  \/ request[s].at = "let" /\ Repeated(s) /\ clock >= request[s].since + Slack

Pass ==
  /\ clock < Horizon
  /\ \A s \in Slots : ~Due(s)
  /\ clock' = clock + 1
  /\ Watch(app, clock + 1)
  /\ told' = "nothing"
  /\ UNCHANGED <<platformVars, asking, request, verified, repeats>>

-----------------------------------------------------------------------------

EditorStep(e) ==
  \/ OpenControl(e) \/ CloseControl(e)
  \/ \E b \in Bodies : SaveControl(e, b)

RequestStep(s) ==
  \/ Send(s) \/ Hear(s) \/ NoAnswer(s)
  \/ Replay(s) \/ Lookup(s) \/ CheckApp(s) \/ Refuse(s) \/ Fail(s) \/ Finish(s)

ControlNext ==
  \/ \E e \in Editors : EditorStep(e)
  \/ \E next \in {"active", "disabled"} : ToggleStatus(next)
  \/ \E b \in Bodies : CallPolicy(b)
  \/ \E v \in Releases : Publish(v)
  \/ \E kind \in {"activate", "verify"}, keyed \in BOOLEAN : Call(kind, keyed)
  \/ \E s \in Slots : RequestStep(s)
  \/ Retry \/ FallbackOffline \/ Throw \/ Pass

ControlSpec == ControlInit /\ [][ControlNext]_controlVars

-----------------------------------------------------------------------------

(* How much longer an answer on record may speak for a check made before it. *)
Stale == IF repeats THEN Slack + Retention ELSE 0

(* Once an application is stopped, by its kill switch, its status or its least
   version, no program is told to run for longer than it waits for one answer and
   its offline grace, and, if it activates with idempotency keys, the life of a
   record; however late requests are served and however often they are repeated. *)
KilledProgramsStop ==
  told # "nothing" => clock <= lastAllowed + Stale + Patience + Grace

(* While an application is stopped or under maintenance nobody new comes in: an
   activation that the check let through was sent before the door closed, and one
   answered from a record speaks for an earlier check no longer than the record lives. *)
NewcomersStop ==
  /\ told = "join" => clock <= lastOpen + Patience
  /\ told = "again" => clock <= lastOpen + Stale + Patience

(* A claim of ApplicationsView.vue:388, INTEGRATION.md:439 and DEVELOPMENT.md:413: once
   the switch is thrown every activation is refused, apart from an answer on its way. *)
RefusedAtOnce == told \in {"join", "again"} => clock <= lastOpen + Patience

(* A claim of the console: a kill switch is thrown only after a second question,
   which is asked when the drawer was opened on a running application. *)
KillIsConfirmed ==
  [][\A e \in Editors, b \in Bodies :
       SaveControl(e, b) /\ ~app.killSwitch /\ app'.killSwitch
         => drawer[e] = "running"]_controlVars

(* A claim of updatePolicy: the least version is never above the latest. *)
SomeVersionRuns ==
  app.minVersion # Unset /\ app.latestVersion # Unset => app.minVersion <= app.latestVersion

=============================================================================
