-------------------------------- MODULE Console --------------------------------
(***************************************************************************)
(* The admin console in one browser tab: requests that carry the stored    *)
(* access token, the interceptor that renews it once for all of them when  *)
(* it has expired, and the account's server. What an answer sets off runs  *)
(* without interruption: JavaScript finishes it before the next event.     *)
(***************************************************************************)
EXTENDS AdminAuth

CONSTANTS
  Calls,   \* requests under way together
  Renewal  \* the request of auth.refresh()

ASSUME ConsoleAssumption == Renewal \notin Calls

VARIABLES
  store,    \* the auth store's two tokens
  renewing, \* the promise `refreshing` is there
  call,     \* request -> what it is and where it stands
  out       \* history: the session in the store was logged out

vars == <<serverVars, store, renewing, call, out>>

Empty == [access |-> Null, refresh |-> Null]
Idle == [op |-> "none", at |-> "idle", token |-> Null, pw |-> 0, retried |-> FALSE,
         read |-> Null, code |-> "none", pair |-> Null]

Init ==
  /\ ServerInit
  /\ store = Empty /\ renewing = FALSE /\ out = FALSE
  /\ call = [c \in Calls \cup {Renewal} |-> Idle]

At(c, place) == call[c].at = place
Is(c, op) == call[c].op = op
Answer(c, code, pair) ==
  call' = [call EXCEPT ![c].at = "answered", ![c].code = code, ![c].pair = pair, ![c].read = Null]
Reads(c) == call' = [call EXCEPT ![c].at = "read", ![c].read = account]
Sent(op, token, pw) == [Idle EXCEPT !.op = op, !.at = "sent", !.token = token, !.pw = pw]

-----------------------------------------------------------------------------
(* What the administrator does. Views need a stored token, the login page does
   not; whoever logs in may have an older password in mind.                  *)

Start(c) ==
  /\ At(c, "idle")
  /\ \/ \E op \in {"api", "logout"} :
          store.access # Null /\ call' = [call EXCEPT ![c] = Sent(op, store.access, 0)]
     \/ \E pw \in 0 .. account.pw : call' = [call EXCEPT ![c] = Sent("login", store.access, pw)]
  /\ UNCHANGED <<serverVars, store, renewing, out>>

-----------------------------------------------------------------------------
(* The server.                                                               *)

(* The guard, and the handlers that change nothing here. *)
Guard(c) ==
  /\ At(c, "sent") /\ call[c].op \in {"api", "logout"}
  /\ IF Is(c, "logout") /\ Check(call[c].token) = "ok" THEN Reads(c)
     ELSE Answer(c, Check(call[c].token), Null)
  /\ UNCHANGED <<serverVars, store, renewing, out>>

SignOut(c) ==
  /\ At(c, "read") /\ Is(c, "logout")
  /\ Logout /\ Answer(c, "ok", Null) /\ out' = TRUE
  /\ UNCHANGED <<change, issued, now, store, renewing>>

LoginRead(c) ==
  /\ At(c, "sent") /\ Is(c, "login")
  /\ Reads(c)
  /\ UNCHANGED <<serverVars, store, renewing, out>>

LoginIssue(c) ==
  /\ At(c, "read") /\ Is(c, "login")
  /\ LET pair == Issue(call[c].read, call[c].pw)
     IN  IF call[c].pw = call[c].read.pw THEN Record(call[c].read, call[c].pw) /\ Answer(c, "ok", pair)
         ELSE Answer(c, "BAD_CREDENTIALS", Null) /\ UNCHANGED issued
  /\ UNCHANGED <<account, change, now, store, renewing, out>>

RefreshRead ==
  /\ At(Renewal, "sent")
  /\ LET code == Check(call[Renewal].token)
     IN  IF code = "ok" THEN Reads(Renewal) ELSE Answer(Renewal, code, Null)
  /\ UNCHANGED <<serverVars, store, renewing, out>>

RefreshIssue ==
  /\ At(Renewal, "read")
  /\ LET pair == Issue(call[Renewal].read, call[Renewal].token.pw)
     IN  Record(call[Renewal].read, call[Renewal].token.pw) /\ Answer(Renewal, "ok", pair)
  /\ UNCHANGED <<account, change, now, store, renewing, out>>

(* The request is lost, the handler fails, 30 s pass, or the rate limit or a
   lock refuses a login. A lost answer amounts to the same: the console sees no
   more of it. *)
Lose(c) ==
  /\ call[c].at \in {"sent", "read"}
  /\ Answer(c, "NETWORK", Null)
  /\ UNCHANGED <<serverVars, store, renewing, out>>

-----------------------------------------------------------------------------
(* The response interceptor, and whoever called.                             *)

(* Mutant of Renewable: an invalid token is worth a renewal too. *)
RenewableOrInvalid(c) ==
  /\ call[c].code \in {"TOKEN_EXPIRED", "TOKEN_INVALID"}
  /\ ~call[c].retried /\ store.refresh # Null

Renewable(c) == call[c].code = "TOKEN_EXPIRED" /\ ~call[c].retried /\ store.refresh # Null

(* The renewal's own answer passes through here as well. *)
Wait(c) ==
  /\ At(c, "answered") /\ Renewable(c)
  /\ LET waiting == [call EXCEPT ![c].at = "waiting", ![c].retried = TRUE, ![c].code = "none"]
     IN  call' = IF renewing THEN waiting
                 ELSE [waiting EXCEPT ![Renewal] = Sent("refresh", store.refresh, 0)]
  /\ renewing' = TRUE
  /\ UNCHANGED <<serverVars, store, out>>

Denied(c) == call[c].code \in {"TOKEN_INVALID", "UNAUTHORIZED", "TOKEN_EXPIRED"}

(* login keeps what it is answered; logout forgets whatever it is answered. *)
Entered(c) == Is(c, "login") /\ call[c].code = "ok"
Left(c) == Is(c, "logout")

Settle(c) ==
  /\ c # Renewal /\ At(c, "answered") /\ ~Renewable(c)
  /\ store' = CASE Entered(c) -> call[c].pair
                [] Denied(c) \/ Left(c) -> Empty
                [] OTHER -> store
  /\ out' = (out /\ ~Entered(c))
  /\ call' = [call EXCEPT ![c] = Idle]
  /\ UNCHANGED <<serverVars, renewing>>

(* Everybody who waits goes on: again with the new token, or gives up. *)
Renewed ==
  /\ At(Renewal, "answered") /\ ~Renewable(Renewal)
  /\ LET ok == call[Renewal].code = "ok"
         GoOn(w) == CASE w = Renewal \/ (At(w, "waiting") /\ ~ok) -> Idle
                      [] At(w, "waiting") /\ ok ->
                           [call[w] EXCEPT !.at = "sent", !.token = call[Renewal].pair.access]
                      [] OTHER -> call[w]
     IN  /\ call' = [w \in Calls \cup {Renewal} |-> GoOn(w)]
         /\ store' = IF ok THEN call[Renewal].pair ELSE Empty
  /\ renewing' = FALSE
  /\ UNCHANGED <<serverVars, out>>

-----------------------------------------------------------------------------
Serve(c) == Guard(c) \/ SignOut(c) \/ LoginRead(c) \/ LoginIssue(c)
Renew == RefreshRead \/ RefreshIssue \/ Renewed
React(c) == Wait(c) \/ Settle(c)

Next ==
  \/ \E c \in Calls : Start(c) \/ Serve(c)
  \/ \E c \in Calls \cup {Renewal} : React(c) \/ Lose(c)
  \/ Renew
  \/ Elsewhere /\ UNCHANGED <<store, renewing, call, out>>

(* A request is answered or times out, and the browser runs what it waits for. *)
Spec ==
  /\ Init /\ [][Next]_vars
  /\ \A c \in Calls : WF_vars(Serve(c) \/ Lose(c)) /\ WF_vars(React(c))
  /\ WF_vars(Renew \/ Wait(Renewal) \/ Lose(Renewal))

-----------------------------------------------------------------------------
(* auth.service.ts:129: once the server has logged the console out, no token that
   a refresh under way then brings back is a live one. *)
LogoutIsFinal ==
  out /\ store.access # Null => store.access.ver # account.ver

(* http.ts:26-46: a request the views wait for ends, through a renewal others
   share if need be, whoever signs out meanwhile and whatever is lost; while
   the refresh token has not expired. *)
RequestsSettle == \A c \in Calls : ~At(c, "idle") ~> At(c, "idle")

(* http.ts:26 and 33-38: who waits for the renewal goes on when it has ended, on
   the login page if it failed. With an expired refresh token the renewal waits
   for itself, and everybody with it.                                        *)
WaitersGoOn == \A c \in Calls : At(c, "waiting") ~> ~At(c, "waiting")

=============================================================================
