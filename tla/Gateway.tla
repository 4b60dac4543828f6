-------------------------------- MODULE Gateway --------------------------------
(***************************************************************************)
(* What stands before the open API: the guard that checks a plugin's       *)
(* signature and takes its nonce, the rotation of the plugin's secret, and *)
(* the rate limits and the counter of failed activations. Time is what is  *)
(* left until something expires; a unit is longer than the guard takes,    *)
(* and no longer than a request is on its way. The callers' clocks may be  *)
(* ahead of the server's.                                                  *)
(***************************************************************************)
EXTENDS RateLimit, Integers, FiniteSets

CONSTANTS
  Callers,  \* clients of one plugin behind one address
  Admins,   \* administrators who rotate the secret
  Scenes,   \* bound: what may happen together
  Secrets,  \* bound: secrets told apart at a time
  Skew,     \* SIGNATURE_WINDOW_SECONDS
  Grace     \* the grace periods rotations ask for

ASSUME GatewayAssumption ==
  /\ {"ip", "miss"} \subseteq Keys /\ Skew \in Nat \ {0}
  /\ IsFiniteSet(Callers) /\ Callers # {}
  /\ Grace \subseteq Nat /\ \E n \in Grace : \A m \in Grace : m <= n
  /\ Secrets \subseteq Nat /\ 0 \in Secrets
  /\ Scenes \subseteq [callers : SUBSET Callers, copies : 1 .. 2, limits : BOOLEAN,
                       admins : SUBSET Admins, ahead : Nat]
  /\ \A s \in Scenes : s.limits => s.copies = 1

VARIABLES
  scene,   \* which of Scenes this is
  plugin,  \* its status, its secret, the one before and what is left of that
  job,     \* administrator -> the secret a rotation has read, or Null
  held,    \* caller -> the secret it signs with
  msg,     \* caller -> its last request: its age by its stamp, and the secret it is signed with
  copy,    \* caller, number -> where that copy of the request is
  nonce,   \* caller -> what is left of its request's nonce in Redis
  word,    \* history: secret -> how long rotations said it would work
  hurried, \* history: a rotation within the grace of another, or beside it
  passed,  \* history: caller -> how often the guard let its request in
  cut      \* history: a request with a secret that should work was refused

vars == <<counter, scene, plugin, job, held, msg, copy, nonce, word, hurried, passed, cut>>

Forever == 1 + CHOOSE n \in Grace : \A m \in Grace : m <= n
Copies == Callers \X (1 .. 2)
Of(d) == d[1]

Init ==
  /\ CountersInit /\ scene \in Scenes
  /\ plugin = [on |-> TRUE, secret |-> 0, prev |-> Null, left |-> 0]
  /\ job = [a \in Admins |-> Null] /\ held = [c \in Callers |-> 0]
  /\ msg = [c \in Callers |-> [age |-> Skew + 1, secret |-> 0]]
  /\ copy = [d \in Copies |-> "done"] /\ nonce = [c \in Callers |-> 0]
  /\ word = [s \in Secrets |-> IF s = 0 THEN Forever ELSE 0]
  /\ hurried = FALSE /\ passed = [c \in Callers |-> 0] /\ cut = FALSE

guardVars == <<plugin, job, held, msg, nonce, word, hurried, passed, cut>>
Goto(d, place) == copy' = [copy EXCEPT ![d] = place]
Refuse(d) == Goto(d, "done")

-----------------------------------------------------------------------------
(* The caller stamps a request by its own clock, which is scene.ahead of the
   server's, and signs it with a new nonce; the network may deliver it any
   number of times (two at once) or not at all.                             *)
Sign(c) ==
  /\ c \in scene.callers
  /\ \A d \in Copies : Of(d) = c => copy[d] \in {"way", "done"}
  /\ msg' = [msg EXCEPT ![c] = [age |-> -scene.ahead, secret |-> held[c]]]
  /\ copy' = [d \in Copies |-> IF Of(d) # c THEN copy[d]
                               ELSE IF d[2] <= scene.copies THEN "way" ELSE "done"]
  /\ nonce' = [nonce EXCEPT ![c] = 0] /\ passed' = [passed EXCEPT ![c] = 0]
  /\ UNCHANGED <<counter, scene, plugin, job, held, word, hurried, cut>>

Redeliver(d) ==
  /\ scene.copies = 2
  /\ copy[d] = "done" /\ msg[Of(d)].age <= Skew /\ Goto(d, "way")
  /\ UNCHANGED <<counter, scene, guardVars>>

(* It takes up the secret it is told is the newest. *)
TakeUp(c) ==
  /\ c \in scene.callers
  /\ \E s \in Secrets : word[s] = Forever /\ held' = [held EXCEPT ![c] = s]
  /\ UNCHANGED <<counter, scene, plugin, job, msg, copy, nonce, word, hurried, passed, cut>>

-----------------------------------------------------------------------------
(* PluginSignatureGuard.                                                     *)

(* Mutant of Valid: the new secret alone. *)
ValidNewest(secret) == secret = plugin.secret

Valid(secret) == secret = plugin.secret \/ (secret = plugin.prev /\ plugin.left > 0)

Verify(d) ==
  LET m == msg[Of(d)]
      fresh == plugin.on /\ -Skew <= m.age /\ m.age <= Skew
  IN  /\ copy[d] = "way" /\ m.age > -scene.ahead
      /\ IF fresh /\ Valid(m.secret) THEN Goto(d, "nonce") ELSE Refuse(d)
      /\ cut' = (cut \/ (fresh /\ word[m.secret] > 0 /\ ~Valid(m.secret)))
      /\ UNCHANGED <<counter, scene, plugin, job, held, msg, nonce, word, hurried, passed>>

(* Mutant of NonceTtl: one unit short. *)
NonceTtlShort == Skew - 1

NonceTtl == Skew

(* SET NX EX. *)
TakeNonce(d) ==
  /\ copy[d] = "nonce"
  /\ IF nonce[Of(d)] = 0
     THEN /\ nonce' = [nonce EXCEPT ![Of(d)] = NonceTtl]
          /\ passed' = [passed EXCEPT ![Of(d)] = @ + 1]
          /\ Goto(d, "count")
     ELSE Refuse(d) /\ UNCHANGED <<nonce, passed>>
  /\ UNCHANGED <<counter, scene, plugin, job, held, msg, word, hurried, cut>>

-----------------------------------------------------------------------------
(* OpenController.activate: consume, gate, the handler, penalize. The limits per
   plugin and device count like the one per address.                        *)

Count(d) ==
  /\ copy[d] = "count"
  /\ IF ~scene.limits THEN Goto(d, "run") /\ UNCHANGED counter
     ELSE /\ Incr("ip")
          /\ CASE First("ip")   -> Goto(d, "expire ip")
               [] Exceeds("ip") -> Refuse(d)
               [] OTHER         -> Goto(d, "gate")
  /\ UNCHANGED <<scene, guardVars>>

ExpireIp(d) ==
  /\ copy[d] = "expire ip"
  /\ Expire("ip") /\ Goto(d, "gate")
  /\ UNCHANGED <<scene, guardVars>>

Gate(d) ==
  /\ copy[d] = "gate"
  /\ IF Closed("miss") THEN Refuse(d) ELSE Goto(d, "run")
  /\ UNCHANGED <<counter, scene, guardVars>>

Run(d) ==
  /\ copy[d] = "run"
  /\ Goto(d, "done") \/ (scene.limits /\ Goto(d, "penalize"))
  /\ UNCHANGED <<counter, scene, guardVars>>

Penalize(d) ==
  /\ copy[d] = "penalize"
  /\ Incr("miss") /\ IF First("miss") THEN Goto(d, "expire miss") ELSE Goto(d, "done")
  /\ UNCHANGED <<scene, guardVars>>

ExpireMiss(d) ==
  /\ copy[d] = "expire miss"
  /\ Expire("miss") /\ Goto(d, "done")
  /\ UNCHANGED <<scene, guardVars>>

(* The process dies, or a call to Redis or the database fails. *)
Fail(d) ==
  /\ copy[d] \notin {"way", "done"} /\ Refuse(d)
  /\ UNCHANGED <<counter, scene, guardVars>>

-----------------------------------------------------------------------------
(* PluginsService.rotateSecret: read, then write the row by its id. Bound: no
   rotation follows a hurried one.                                          *)

Used == {plugin.secret, plugin.prev} \cup {held[c] : c \in Callers}
          \cup {msg[c].secret : c \in Callers} \cup {job[a] : a \in Admins}

RotateRead(a) ==
  /\ a \in scene.admins /\ job[a] = Null /\ ~hurried
  /\ job' = [job EXCEPT ![a] = plugin.secret]
  /\ hurried' = (hurried \/ plugin.left > 0 \/ \E b \in Admins : job[b] # Null)
  /\ UNCHANGED <<counter, scene, plugin, held, msg, copy, nonce, word, passed, cut>>

RotateWrite(a) ==
  /\ job[a] # Null /\ Secrets \ Used # {}
  /\ \E grace \in Grace :
       LET fresh == CHOOSE s \in Secrets : s \notin Used
       IN  /\ plugin' = [plugin EXCEPT !.secret = fresh, !.left = grace,
                                       !.prev = IF grace > 0 THEN job[a] ELSE Null]
           /\ word' = [word EXCEPT ![fresh] = Forever, ![job[a]] = grace]
  /\ job' = [job EXCEPT ![a] = Null]
  /\ UNCHANGED <<counter, scene, held, msg, copy, nonce, hurried, passed, cut>>

(* update: the status; remove ends like it. *)
Switch ==
  /\ scene.admins # {} /\ plugin' = [plugin EXCEPT !.on = ~@]
  /\ UNCHANGED <<counter, scene, job, held, msg, copy, nonce, word, hurried, passed, cut>>

Less(n) == IF n = 0 THEN 0 ELSE n - 1
Tick ==
  /\ \A d \in Copies : copy[d] # "nonce"
  /\ counter' = Aged
  /\ msg' = [c \in Callers |-> [msg[c] EXCEPT !.age = IF @ > Skew THEN @ ELSE @ + 1]]
  /\ nonce' = [c \in Callers |-> Less(nonce[c])]
  /\ plugin' = [plugin EXCEPT !.left = Less(@)]
  /\ word' = [s \in Secrets |-> IF word[s] = Forever THEN Forever ELSE Less(word[s])]
  /\ UNCHANGED <<scene, job, held, copy, hurried, passed, cut>>

Handle(d) == Count(d) \/ ExpireIp(d) \/ Gate(d) \/ Run(d) \/ Penalize(d) \/ ExpireMiss(d)

Next ==
  \/ \E c \in Callers : Sign(c) \/ TakeUp(c)
  \/ \E d \in Copies : Redeliver(d) \/ Verify(d) \/ TakeNonce(d) \/ Handle(d) \/ Fail(d)
  \/ \E a \in Admins : RotateRead(a) \/ RotateWrite(a)
  \/ Switch \/ Tick

(* Time goes on, and a copy the guard has begun to look at is looked at. *)
Spec ==
  /\ Init /\ [][Next]_vars /\ WF_vars(Tick)
  /\ \A d \in Copies : WF_vars(TakeNonce(d) \/ Fail(d))

-----------------------------------------------------------------------------
(* plugin-signature.guard.ts:76-96: however often a request is delivered, it is
   let in as often as its nonce, kept for Skew from its receipt, runs out while
   its stamp is within Skew of the server's clock on either side: once for a
   clock that is not ahead, twice for one ahead by no more than the window,
   three times for one ahead by more.                                       *)
AdmissionsFitTheWindow ==
  \A c \in Callers : passed[c] <= IF scene.ahead = 0 THEN 1
                                  ELSE IF scene.ahead <= Skew THEN 2 ELSE 3

(* Claimed: the comment of plugin-signature.guard.ts:95, that the nonce, kept as
   long as the window is, keeps replays out. Violated by a caller whose clock is
   ahead: its stamp is fresh for up to twice the window.                    *)
AcceptedOnce == \A c \in Callers : passed[c] <= 1

(* plugins.service.ts:118: a client that signs with a secret rotateSecret said
   would still work is not refused for it, whenever it takes up the new one,
   unless another rotation came before the grace was over or ran beside it. *)
NobodyIsCutOff == hurried \/ ~cut

(* open.controller.ts:47-50: failed activations from one address stop at the
   limit, but for those already past the gate when it closed. *)
MissesBounded == counter["miss"].n <= Limit["miss"] + Cardinality(Callers) - 1

(* rate-limit.service.ts:23: who is refused is let in again when the window is
   over, however many refused calls it makes meanwhile, unless the counter
   lost its expiry to a failure. *)
LockoutEnds ==
  \A k \in Keys : counter[k].n > 0 /\ counter[k].left # Null ~> counter[k].n = 0

=============================================================================
