----------------------------- MODULE Console_proofs -----------------------------
(* Theorems about Console, for any number of requests under way, any lifetimes  *)
(* of the tokens, and however often the password changes; and about Control,    *)
(* for any windows, any switches and any number of requests.                    *)
EXTENDS Console, Control, TLAPS

Everyone == Calls \cup {Renewal}
Account == [ver : Nat, pw : Nat]
Request ==
  [op : {"none", "api", "login", "logout", "refresh"},
   at : {"idle", "sent", "read", "answered", "waiting"},
   token : Token \cup {Null}, pw : Nat, retried : BOOLEAN, read : Account \cup {Null},
   code : {"none", "ok", "NETWORK", "BAD_CREDENTIALS", "UNAUTHORIZED", "TOKEN_EXPIRED", "TOKEN_INVALID"},
   pair : Pair \cup {Null}]

(* What the state consists of, and which answers bring tokens. *)
TypeInv ==
  /\ account \in Account /\ issued \subseteq Account /\ now \in Nat
  /\ store \in [access : Token \cup {Null}, refresh : Token \cup {Null}]
  /\ call \in [Everyone -> Request]
  /\ \A c \in Calls : call[c].op # "refresh"
  /\ \A c \in Everyone : call[c].at = "read" => call[c].read \in Account
  /\ \A c \in Everyone :
       call[c].at = "answered" /\ call[c].code = "ok" /\ call[c].op \in {"login", "refresh"}
         => call[c].pair \in Pair
  /\ call[Renewal].at # "idle" => call[Renewal].op = "refresh"
  /\ call[Renewal].at = "read" =>
       /\ call[Renewal].token \in Token /\ call[Renewal].token # Null
       /\ call[Renewal].token.ver = call[Renewal].read.ver

LEMMA IdleIsRequest == Idle \in Request
  BY DEF Idle, Request

LEMMA SentIsRequest ==
  ASSUME NEW op \in {"api", "login", "logout", "refresh"}, NEW token \in Token \cup {Null}, NEW pw \in Nat
  PROVE  /\ Sent(op, token, pw) \in Request /\ Sent(op, token, pw).op = op
         /\ Sent(op, token, pw).at = "sent" /\ Sent(op, token, pw).token = token
         /\ Sent(op, token, pw).pair = Null
<1>1. Idle \in Request /\ Idle.pair = Null
  BY DEF Idle, Request
<1> QED
  BY <1>1 DEF Sent, Request

LEMMA AnswerIs ==
  ASSUME TypeInv, NEW c \in Everyone, NEW pair \in Pair \cup {Null},
         NEW code \in {"ok", "NETWORK", "BAD_CREDENTIALS", "UNAUTHORIZED", "TOKEN_EXPIRED", "TOKEN_INVALID"},
         Answer(c, code, pair)
  PROVE  /\ call' \in [Everyone -> Request]
         /\ \A d \in Everyone \ {c} : call'[d] = call[d]
         /\ call'[c].op = call[c].op /\ call'[c].at = "answered" /\ call'[c].token = call[c].token
         /\ call'[c].code = code /\ call'[c].pair = pair
<1>1. call[c] \in Request /\ call \in [Everyone -> Request]
  BY DEF TypeInv
<1> DEFINE r == [call[c] EXCEPT !.at = "answered", !.code = code, !.pair = pair, !.read = Null]
<1>2. call' = [call EXCEPT ![c] = r]
  BY <1>1 DEF Answer
<1>3. r \in Request
  BY <1>1 DEF Request
<1>4. /\ r.op = call[c].op /\ r.at = "answered" /\ r.token = call[c].token
      /\ r.code = code /\ r.pair = pair
  BY <1>1 DEF Request
<1> HIDE DEF r
<1> QED
  BY <1>1, <1>2, <1>3, <1>4

LEMMA ReadsIs ==
  ASSUME TypeInv, NEW c \in Everyone, Reads(c)
  PROVE  /\ call' \in [Everyone -> Request]
         /\ \A d \in Everyone \ {c} : call'[d] = call[d]
         /\ call'[c].op = call[c].op /\ call'[c].at = "read" /\ call'[c].token = call[c].token
         /\ call'[c].read = account /\ call'[c].pair = call[c].pair
<1>1. call[c] \in Request /\ call \in [Everyone -> Request] /\ account \in Account
  BY DEF TypeInv
<1> DEFINE r == [call[c] EXCEPT !.at = "read", !.read = account]
<1>2. call' = [call EXCEPT ![c] = r]
  BY <1>1 DEF Reads
<1>3. r \in Request
  BY <1>1 DEF Request
<1>4. /\ r.op = call[c].op /\ r.at = "read" /\ r.token = call[c].token
      /\ r.read = account /\ r.pair = call[c].pair
  BY <1>1 DEF Request
<1> HIDE DEF r
<1> QED
  BY <1>1, <1>2, <1>3, <1>4

LEMMA IssueIs ==
  ASSUME TypeInv, NEW read \in Account, NEW pw \in Nat
  PROVE  /\ Issue(read, pw) \in Pair
         /\ Issue(read, pw).access.ver = read.ver /\ Issue(read, pw).access.pw = pw
         /\ Issue(read, pw).refresh.ver = read.ver /\ Issue(read, pw).refresh.pw = pw
  BY AuthAssumption DEF AuthAssumption, TypeInv, Issue, Sign, Pair, Token, Account

LEMMA CheckIs ==
  ASSUME NEW token
  PROVE  /\ Check(token) \in {"ok", "UNAUTHORIZED", "TOKEN_EXPIRED", "TOKEN_INVALID"}
         /\ Check(token) = "ok" => token # Null /\ token.ver = account.ver
  BY DEF Check

(* What everybody does when the renewal has ended. *)
LEMMA RenewedIs ==
  ASSUME NEW w \in Everyone, Renewed
  PROVE  \/ call'[w] \in {Idle, call[w]} /\ (w = Renewal => call'[w] = Idle)
         \/ /\ w # Renewal /\ call[Renewal].code = "ok"
            /\ call'[w] = [call[w] EXCEPT !.at = "sent", !.token = call[Renewal].pair.access]
<1>1. call' = [v \in Everyone |->
        CASE v = Renewal \/ (At(v, "waiting") /\ ~(call[Renewal].code = "ok")) -> Idle
          [] At(v, "waiting") /\ call[Renewal].code = "ok" ->
               [call[v] EXCEPT !.at = "sent", !.token = call[Renewal].pair.access]
          [] OTHER -> call[v]]
  BY DEF Renewed, Everyone
<1>2. CASE w = Renewal
  <2>1. ~At(Renewal, "waiting")
    BY DEF Renewed, At
  <2> QED
    BY <1>1, <1>2, <2>1
<1>3. CASE w # Renewal /\ At(w, "waiting") /\ call[Renewal].code # "ok"
  BY <1>1, <1>3
<1>4. CASE w # Renewal /\ At(w, "waiting") /\ call[Renewal].code = "ok"
  BY <1>1, <1>4
<1>5. CASE w # Renewal /\ ~At(w, "waiting")
  BY <1>1, <1>5
<1> QED
  BY <1>2, <1>3, <1>4, <1>5

LEMMA TypeInit == Init => TypeInv
<1> SUFFICES ASSUME Init PROVE TypeInv
  OBVIOUS
<1>1. account \in Account /\ issued \subseteq Account /\ now \in Nat
  BY DEF Init, ServerInit, Account
<1>2. store \in [access : Token \cup {Null}, refresh : Token \cup {Null}]
  BY DEF Init, Empty
<1>3. call \in [Everyone -> Request] /\ \A c \in Everyone : call[c] = Idle
  BY IdleIsRequest DEF Init, Everyone
<1>4. Idle.op = "none" /\ Idle.at = "idle"
  BY DEF Idle
<1> QED
  BY <1>1, <1>2, <1>3, <1>4 DEF TypeInv, Everyone

(* Everything but the requests has kept its shape; one request has moved. *)
LEMMA TypeMove ==
  ASSUME TypeInv, NEW c \in Everyone, call' \in [Everyone -> Request],
         \A d \in Everyone \ {c} : call'[d] = call[d],
         IF c = Renewal THEN call'[c].at = "idle" \/ call'[c].op = "refresh"
                        ELSE call'[c].op # "refresh",
         call'[c].at = "read" => call'[c].read \in Account,
         c = Renewal /\ call'[c].at = "read" =>
           /\ call'[c].token \in Token /\ call'[c].token # Null
           /\ call'[c].token.ver = call'[c].read.ver,
         call'[c].at = "answered" /\ call'[c].code = "ok" /\ call'[c].op \in {"login", "refresh"}
           => call'[c].pair \in Pair,
         account' \in Account, issued' \subseteq Account, now' \in Nat,
         store' \in [access : Token \cup {Null}, refresh : Token \cup {Null}]
  PROVE  TypeInv'
  BY ConsoleAssumption DEF ConsoleAssumption, TypeInv, Everyone

LEMMA TypeStep == TypeInv /\ [Next]_vars => TypeInv'
<1> SUFFICES ASSUME TypeInv, [Next]_vars PROVE TypeInv'
  OBVIOUS
<1> USE DEF serverVars
<1>0. /\ account \in Account /\ issued \subseteq Account /\ now \in Nat
      /\ store \in [access : Token \cup {Null}, refresh : Token \cup {Null}]
      /\ \A c \in Calls : c \in Everyone /\ c # Renewal /\ call[c].op # "refresh"
      /\ Renewal \in Everyone /\ (call[Renewal].at = "idle" \/ call[Renewal].op = "refresh")
      /\ call \in [Everyone -> Request] /\ \A c \in Everyone : call[c] \in Request
  BY ConsoleAssumption DEF ConsoleAssumption, TypeInv, Everyone
<1>1. ASSUME NEW c \in Calls, Start(c)
      PROVE  TypeInv'
  <2>1. PICK op \in {"api", "login", "logout"}, pw \in Nat :
          call' = [call EXCEPT ![c] = Sent(op, store.access, pw)]
    <3>1. \A pw \in 0 .. account.pw : pw \in Nat
      BY <1>0 DEF Account
    <3> QED
      BY <1>1, <3>1 DEF Start
  <2>2. store.access \in Token \cup {Null}
    BY <1>0
  <2> DEFINE r == Sent(op, store.access, pw)
  <2>3. r \in Request /\ r.at = "sent" /\ r.op = op
    BY <2>2, SentIsRequest
  <2> HIDE DEF r
  <2>4. call' = [call EXCEPT ![c] = r]
    BY <2>1 DEF r
  <2>5. /\ call' \in [Everyone -> Request] /\ call'[c] = r
        /\ \A d \in Everyone \ {c} : call'[d] = call[d]
    BY <1>0, <2>3, <2>4
  <2> QED
    BY <1>0, <1>1, <2>3, <2>5, TypeMove DEF Start
<1>2. ASSUME NEW c \in Calls, Guard(c)
      PROVE  TypeInv'
  <2>1. CASE Reads(c)
    BY <1>0, <1>2, <2>1, ReadsIs, TypeMove DEF Guard
  <2>2. CASE Answer(c, Check(call[c].token), Null) /\ call[c].op \in {"api", "logout"}
    BY <1>0, <1>2, <2>2, AnswerIs, CheckIs, TypeMove DEF Guard
  <2> QED
    BY <1>2, <2>1, <2>2 DEF Guard
<1>3. ASSUME NEW c \in Calls, SignOut(c)
      PROVE  TypeInv'
  <2>1. account' \in Account
    BY <1>0, <1>3 DEF SignOut, Logout, Account
  <2>2. call[c].op = "logout" /\ Answer(c, "ok", Null)
    BY <1>3 DEF SignOut, Is
  <2> QED
    BY <1>0, <1>3, <2>1, <2>2, AnswerIs, TypeMove DEF SignOut
<1>4. ASSUME NEW c \in Calls, LoginRead(c)
      PROVE  TypeInv'
  BY <1>0, <1>4, ReadsIs, TypeMove DEF LoginRead
<1>5. ASSUME NEW c \in Calls, LoginIssue(c)
      PROVE  TypeInv'
  <2>1. call[c].read \in Account /\ call[c].pw \in Nat
    BY <1>0, <1>5 DEF LoginIssue, At, TypeInv, Request
  <2> DEFINE pair == Issue(call[c].read, call[c].pw)
  <2>2. pair \in Pair /\ [ver |-> pair.access.ver, pw |-> call[c].pw] \in Account
    BY <2>1, IssueIs DEF Account
  <2>3. CASE Record(call[c].read, call[c].pw) /\ Answer(c, "ok", pair)
    <3>1. issued' \subseteq Account
      BY <1>0, <2>2, <2>3 DEF Record
    <3> HIDE DEF pair
    <3> QED
      BY <1>0, <1>5, <2>2, <2>3, <3>1, AnswerIs, TypeMove DEF LoginIssue
  <2>4. CASE Answer(c, "BAD_CREDENTIALS", Null) /\ UNCHANGED issued
    BY <1>0, <1>5, <2>4, AnswerIs, TypeMove DEF LoginIssue
  <2> QED
    BY <1>5, <2>3, <2>4 DEF LoginIssue
<1>6. ASSUME RefreshRead
      PROVE  TypeInv'
  <2>1. CASE Reads(Renewal) /\ Check(call[Renewal].token) = "ok"
    <3>1. /\ call[Renewal].token \in Token /\ call[Renewal].token # Null
          /\ call[Renewal].token.ver = account.ver
      BY <1>0, <2>1, CheckIs DEF Request
    <3> QED
      BY <1>0, <1>6, <2>1, <3>1, ReadsIs, TypeMove DEF RefreshRead, At
  <2>2. CASE Answer(Renewal, Check(call[Renewal].token), Null) /\ Check(call[Renewal].token) # "ok"
    BY <1>0, <1>6, <2>2, AnswerIs, CheckIs, TypeMove DEF RefreshRead, At
  <2> QED
    BY <1>6, <2>1, <2>2 DEF RefreshRead
<1>7. ASSUME RefreshIssue
      PROVE  TypeInv'
  <2>1. call[Renewal].read \in Account /\ call[Renewal].token.pw \in Nat
    BY <1>0, <1>7 DEF RefreshIssue, At, TypeInv, Token
  <2> DEFINE pair == Issue(call[Renewal].read, call[Renewal].token.pw)
  <2>2. pair \in Pair /\ [ver |-> pair.access.ver, pw |-> call[Renewal].token.pw] \in Account
    BY <2>1, IssueIs DEF Account
  <2>3. Record(call[Renewal].read, call[Renewal].token.pw) /\ Answer(Renewal, "ok", pair)
    BY <1>7 DEF RefreshIssue
  <2>4. issued' \subseteq Account
    BY <1>0, <2>2, <2>3 DEF Record
  <2> HIDE DEF pair
  <2> QED
    BY <1>0, <1>7, <2>2, <2>3, <2>4, AnswerIs, TypeMove DEF RefreshIssue, At
<1>8. ASSUME NEW c \in Everyone, Lose(c)
      PROVE  TypeInv'
  <2>1. Answer(c, "NETWORK", Null) /\ call[c].at # "idle" /\ UNCHANGED <<account, issued, now, store>>
    BY <1>8 DEF Lose
  <2>2. /\ call' \in [Everyone -> Request] /\ \A d \in Everyone \ {c} : call'[d] = call[d]
        /\ call'[c].op = call[c].op /\ call'[c].at = "answered" /\ call'[c].code = "NETWORK"
    BY <2>1, AnswerIs
  <2>3. IF c = Renewal THEN call[c].op = "refresh" ELSE call[c].op # "refresh"
    BY <1>0, <2>1 DEF Everyone
  <2> QED
    BY <1>0, <2>1, <2>2, <2>3, TypeMove
<1>9. ASSUME NEW c \in Everyone, Wait(c)
      PROVE  TypeInv'
  <2> DEFINE w == [call[c] EXCEPT !.at = "waiting", !.retried = TRUE, !.code = "none"]
             waiting == [call EXCEPT ![c] = w]
             r == Sent("refresh", store.refresh, 0)
  <2>1. w \in Request /\ w.at = "waiting" /\ w.op = call[c].op
    BY ZenonT(40), <1>0 DEF Request
  <2>2. r \in Request /\ r.at = "sent" /\ r.op = "refresh"
    BY <1>0, SentIsRequest
  <2>3. waiting = [call EXCEPT ![c].at = "waiting", ![c].retried = TRUE, ![c].code = "none"]
    BY <1>0
  <2>4. call' = (IF renewing THEN waiting ELSE [waiting EXCEPT ![Renewal] = r])
    BY <1>9, <2>3 DEF Wait
  <2> HIDE DEF w, r
  <2>5. waiting \in [Everyone -> Request]
    BY <1>0, <2>1
  <2>6. /\ call' \in [Everyone -> Request]
        /\ \A d \in Everyone : call'[d] \in {call[d], waiting[d]} \/ (d = Renewal /\ call'[d] = r)
    BY <1>0, <2>2, <2>4, <2>5
  <2>7. \A d \in Everyone : waiting[d] = IF d = c THEN w ELSE call[d]
    BY <1>0
  <2>8. UNCHANGED <<account, issued, now, store>>
    BY <1>9 DEF Wait
  <2>9. call[c].at = "answered"
    BY <1>9 DEF Wait, At
  <2> HIDE DEF waiting
  <2> QED
    BY <1>0, <2>1, <2>2, <2>6, <2>7, <2>8, <2>9 DEF TypeInv
<1>10. ASSUME NEW c \in Calls, Settle(c)
       PROVE  TypeInv'
  <2>1. store' \in [access : Token \cup {Null}, refresh : Token \cup {Null}]
    <3>1. Empty \in [access : Token \cup {Null}, refresh : Token \cup {Null}]
      BY DEF Empty
    <3>2. Entered(c) => call[c].pair \in [access : Token \cup {Null}, refresh : Token \cup {Null}]
      BY <1>0, <1>10 DEF Entered, Settle, At, Is, TypeInv, Pair
    <3> QED
      BY <1>0, <1>10, <3>1, <3>2 DEF Settle
  <2>2. call' = [call EXCEPT ![c] = Idle] /\ UNCHANGED <<account, issued, now>>
    BY <1>10 DEF Settle
  <2>3. Idle.at = "idle" /\ Idle.op = "none"
    BY DEF Idle
  <2> QED
    BY <1>0, <2>1, <2>2, <2>3, IdleIsRequest, TypeMove
<1>11. ASSUME Renewed
       PROVE  TypeInv'
  <2>1. store' \in [access : Token \cup {Null}, refresh : Token \cup {Null}]
    <3>1. Empty \in [access : Token \cup {Null}, refresh : Token \cup {Null}]
      BY DEF Empty
    <3>2. call[Renewal].code = "ok" => call[Renewal].pair \in [access : Token \cup {Null}, refresh : Token \cup {Null}]
      BY <1>0, <1>11 DEF Renewed, At, TypeInv, Pair
    <3> QED
      BY <1>11, <3>1, <3>2 DEF Renewed
  <2> DEFINE again(w) == [call[w] EXCEPT !.at = "sent", !.token = call[Renewal].pair.access]
  <2>2. ASSUME NEW w \in Everyone
        PROVE  \/ call'[w] \in {Idle, call[w]} /\ (w = Renewal => call'[w] = Idle)
               \/ w # Renewal /\ call[Renewal].code = "ok" /\ call'[w] = again(w)
    BY <1>11, RenewedIs
  <2>3. call[Renewal].code = "ok" => call[Renewal].pair.access \in Token
    BY <1>0, <1>11 DEF Renewed, At, TypeInv, Pair
  <2>4. ASSUME NEW w \in Everyone, call[Renewal].code = "ok"
        PROVE  again(w) \in Request /\ again(w).at = "sent" /\ again(w).op = call[w].op
    BY ZenonT(40), <1>0, <2>3, <2>4 DEF Request
  <2> HIDE DEF again
  <2>5. Idle.at = "idle" /\ Idle.op = "none"
    BY DEF Idle
  <2>6. \A w \in Everyone : call'[w] \in Request
    BY <1>0, <2>2, <2>4, IdleIsRequest
  <2>7. call' \in [Everyone -> Request] /\ UNCHANGED <<account, issued, now>>
    BY <1>11, <2>6 DEF Renewed, Everyone
  <2> QED
    BY <1>0, <2>1, <2>2, <2>4, <2>5, <2>7 DEF TypeInv
<1>12. ASSUME Elsewhere /\ UNCHANGED <<store, renewing, call, out>>
       PROVE  TypeInv'
  <2>1. account' \in Account /\ issued' = issued /\ now' \in Nat
    BY <1>0, <1>12 DEF Elsewhere, ChangeRead, ChangeWrite, ChangeFails, LogoutElsewhere, Logout, Tick, Account
  <2> QED
    BY <1>0, <1>12, <2>1 DEF TypeInv
<1>13. ASSUME UNCHANGED vars
       PROVE  TypeInv'
  BY <1>13 DEF vars, TypeInv
<1>14. ~Settle(Renewal)
  BY DEF Settle
<1> QED
  BY <1>1, <1>2, <1>3, <1>4, <1>5, <1>6, <1>7, <1>8, <1>9, <1>10, <1>11, <1>12, <1>13, <1>14
     DEF Next, Serve, React, Renew, Everyone

-----------------------------------------------------------------------------
(* Whoever holds a live token knows the password. A token is true when it is of
   an older version than the account's, or of the account's version and
   password; raising the version and the password together keeps every token
   true, and login and refresh sign for what they have read, which was true
   then. The invariant covers what is on its way: accounts read, answers given,
   tokens in requests.                                                         *)

True(t, a) == t.ver <= a.ver /\ (t.ver = a.ver => t.pw = a.pw)

TruePair(pair, a) == True(pair.access, a) /\ True(pair.refresh, a)

TrueCall(r, a) ==
  /\ r.token # Null => True(r.token, a)
  /\ r.pair # Null => TruePair(r.pair, a)
  /\ r.at = "read" => True(r.read, a)

TrueStore(s, a) ==
  /\ s.access # Null => True(s.access, a)
  /\ s.refresh # Null => True(s.refresh, a)

TokensTrue ==
  /\ \A t \in issued : True(t, account)
  /\ TrueStore(store, account)
  /\ \A c \in Everyone : TrueCall(call[c], account)

LEMMA TrueInit == Init => TokensTrue
<1> SUFFICES ASSUME Init PROVE TokensTrue
  OBVIOUS
<1>1. issued = {} /\ store = Empty /\ \A c \in Everyone : call[c] = Idle
  BY DEF Init, ServerInit, Everyone
<1>2. Empty.access = Null /\ Empty.refresh = Null
  BY DEF Empty
<1>3. Idle.token = Null /\ Idle.pair = Null /\ Idle.at = "idle"
  BY DEF Idle
<1> QED
  BY <1>1, <1>2, <1>3 DEF TokensTrue, TrueStore, TrueCall

LEMMA IdleIsTrue == ASSUME NEW a PROVE TrueCall(Idle, a) /\ TrueStore(Empty, a)
<1>1. Empty.access = Null /\ Empty.refresh = Null
  BY DEF Empty
<1>2. Idle.token = Null /\ Idle.pair = Null /\ Idle.at = "idle"
  BY DEF Idle
<1> QED
  BY <1>1, <1>2 DEF TrueStore, TrueCall

(* An account that is raised, or stays. *)
LEMMA TrueLater ==
  ASSUME NEW t, t.ver \in Nat, NEW a \in Account, NEW b \in Account,
         b = a \/ b.ver > a.ver, True(t, a)
  PROVE  True(t, b)
  BY DEF True, Account

LEMMA AllTrueLater ==
  ASSUME TypeInv, TokensTrue, account' \in Account, account' = account \/ account'.ver > account.ver
  PROVE  /\ \A t \in issued : True(t, account')
         /\ TrueStore(store, account')
         /\ \A c \in Everyone : TrueCall(call[c], account')
<1>1. account \in Account
  BY DEF TypeInv
<1>2. \A t \in Account \cup Token : t.ver \in Nat
  BY DEF Account, Token
<1>3. \A t \in issued : True(t, account')
  BY <1>1, <1>2, TrueLater DEF TypeInv, TokensTrue
<1>4. TrueStore(store, account')
  BY <1>1, <1>2, TrueLater DEF TypeInv, TokensTrue, TrueStore
<1>5. ASSUME NEW c \in Everyone
      PROVE  TrueCall(call[c], account')
  <2>1. call[c] \in Request /\ TrueCall(call[c], account) /\ (call[c].at = "read" => call[c].read \in Account)
    BY DEF TypeInv, TokensTrue
  <2>2. call[c].token # Null => True(call[c].token, account')
    BY <1>1, <1>2, <2>1, TrueLater DEF Request, TrueCall
  <2>3. ASSUME call[c].pair # Null
        PROVE  TruePair(call[c].pair, account')
    <3>1. call[c].pair.access \in Token /\ call[c].pair.refresh \in Token
      BY <2>1, <2>3 DEF Request, Pair
    <3> QED
      BY <1>1, <1>2, <2>1, <2>3, <3>1, TrueLater DEF TruePair, TrueCall
  <2>4. call[c].at = "read" => True(call[c].read, account')
    BY <1>1, <1>2, <2>1, TrueLater DEF TrueCall
  <2> QED
    BY <2>2, <2>3, <2>4 DEF TrueCall
<1> QED
  BY <1>3, <1>4, <1>5

LEMMA TrueStep == TypeInv /\ TypeInv' /\ TokensTrue /\ [Next]_vars => TokensTrue'
<1> SUFFICES ASSUME TypeInv, TypeInv', TokensTrue, [Next]_vars PROVE TokensTrue'
  OBVIOUS
<1> USE DEF serverVars
<1>0. /\ account \in Account /\ Renewal \in Everyone /\ Calls \subseteq Everyone
      /\ call \in [Everyone -> Request] /\ \A c \in Everyone : call[c] \in Request
      /\ \A t \in issued : True(t, account)
      /\ TrueStore(store, account) /\ \A c \in Everyone : TrueCall(call[c], account)
  BY DEF TypeInv, TokensTrue, Everyone
<1>a. ASSUME NEW c \in Everyone, \A d \in Everyone \ {c} : call'[d] = call[d],
             TrueCall(call'[c], account), UNCHANGED account,
             \A t \in issued' : t \in issued \/ True(t, account),
             TrueStore(store', account)
      PROVE  TokensTrue'
  BY <1>0, <1>a DEF TokensTrue
<1>1. ASSUME NEW c \in Calls, Start(c)
      PROVE  TokensTrue'
  <2>1. PICK op \in {"api", "login", "logout"}, pw \in Nat :
          call' = [call EXCEPT ![c] = Sent(op, store.access, pw)]
    <3>1. \A pw \in 0 .. account.pw : pw \in Nat
      BY <1>0 DEF Account
    <3> QED
      BY <1>1, <3>1 DEF Start
  <2> DEFINE r == Sent(op, store.access, pw)
  <2>0. store.access \in Token \cup {Null}
    BY DEF TypeInv
  <2>2. r.at = "sent" /\ r.token = store.access /\ r.pair = Null
    BY <2>0, SentIsRequest
  <2>3. call' = [call EXCEPT ![c] = r]
    BY <2>1
  <2> HIDE DEF r
  <2>4. TrueCall(r, account)
    BY <1>0, <2>2 DEF TrueCall, TrueStore
  <2>5. call'[c] = r /\ \A d \in Everyone \ {c} : call'[d] = call[d]
    BY <1>0, <2>3
  <2> QED
    BY <1>0, <1>1, <1>a, <2>4, <2>5 DEF Start
<1>b. ASSUME NEW c \in Everyone, Reads(c), UNCHANGED <<account, issued, store>>
      PROVE  TokensTrue'
  <2>1. True(account, account)
    BY <1>0 DEF True, Account
  <2>2. TrueCall(call'[c], account)
    BY <1>0, <1>b, <2>1, ReadsIs DEF TrueCall
  <2> QED
    BY <1>0, <1>a, <1>b, <2>2, ReadsIs
<1>c. ASSUME NEW c \in Everyone, NEW pair \in Pair \cup {Null},
             NEW code \in {"ok", "NETWORK", "BAD_CREDENTIALS", "UNAUTHORIZED", "TOKEN_EXPIRED", "TOKEN_INVALID"},
             Answer(c, code, pair), pair # Null => TruePair(pair, account), UNCHANGED <<account, store>>,
             \A t \in issued' : t \in issued \/ True(t, account)
      PROVE  TokensTrue'
  <2>1. TrueCall(call'[c], account)
    BY <1>0, <1>c, AnswerIs DEF TrueCall
  <2> QED
    BY <1>0, <1>a, <1>c, <2>1, AnswerIs
<1>2. ASSUME NEW c \in Calls, Guard(c)
      PROVE  TokensTrue'
  <2>1. CASE Reads(c)
    BY <1>0, <1>2, <1>b, <2>1 DEF Guard
  <2>2. CASE Answer(c, Check(call[c].token), Null)
    BY <1>0, <1>2, <1>c, <2>2, CheckIs DEF Guard
  <2> QED
    BY <1>2, <2>1, <2>2 DEF Guard
<1>3. ASSUME NEW c \in Calls, SignOut(c)
      PROVE  TokensTrue'
  <2>1. account' \in Account /\ account'.ver > account.ver
    BY <1>0, <1>3 DEF SignOut, Logout, Account
  <2>2. Answer(c, "ok", Null) /\ UNCHANGED <<issued, store>>
    BY <1>3 DEF SignOut
  <2>3. TrueCall(call'[c], account')
    BY <1>0, <2>1, <2>2, AllTrueLater, AnswerIs DEF TrueCall
  <2>4. \A d \in Everyone \ {c} : call'[d] = call[d]
    BY <1>0, <2>2, AnswerIs
  <2> QED
    BY <2>1, <2>2, <2>3, <2>4, AllTrueLater DEF TokensTrue
<1>4. ASSUME NEW c \in Calls, LoginRead(c)
      PROVE  TokensTrue'
  BY <1>0, <1>4, <1>b DEF LoginRead
<1>5. ASSUME NEW c \in Calls, LoginIssue(c)
      PROVE  TokensTrue'
  <2>1. call[c].read \in Account /\ call[c].pw \in Nat /\ True(call[c].read, account)
    BY <1>0, <1>5 DEF LoginIssue, At, TypeInv, Request, TrueCall
  <2> DEFINE pair == Issue(call[c].read, call[c].pw)
  <2>2. CASE Record(call[c].read, call[c].pw) /\ Answer(c, "ok", pair) /\ call[c].pw = call[c].read.pw
    <3>1. pair \in Pair /\ TruePair(pair, account)
      BY <2>1, <2>2, IssueIs DEF TruePair, True
    <3>2. \A t \in issued' : t \in issued \/ t = [ver |-> pair.access.ver, pw |-> call[c].pw]
      BY <2>2 DEF Record
    <3>3. \A t \in issued' : t \in issued \/ True(t, account)
      BY <2>1, <2>2, <3>2, IssueIs DEF True
    <3> HIDE DEF pair
    <3> QED
      BY <1>0, <1>5, <1>c, <2>2, <3>1, <3>3 DEF LoginIssue
  <2>3. CASE Answer(c, "BAD_CREDENTIALS", Null) /\ UNCHANGED issued
    BY <1>0, <1>5, <1>c, <2>3 DEF LoginIssue
  <2> QED
    BY <1>5, <2>2, <2>3 DEF LoginIssue
<1>6. ASSUME RefreshRead
      PROVE  TokensTrue'
  BY <1>0, <1>6, <1>b, <1>c, CheckIs DEF RefreshRead
<1>7. ASSUME RefreshIssue
      PROVE  TokensTrue'
  <2> DEFINE token == call[Renewal].token
             read == call[Renewal].read
             pair == Issue(read, token.pw)
  <2>0. read \in Account /\ token \in Token /\ token # Null /\ token.ver = read.ver /\ token.pw \in Nat
    BY <1>0, <1>7 DEF RefreshIssue, At, TypeInv, Token
  <2>1. True(token, account)
    BY <1>0, <2>0 DEF TrueCall
  <2>2. pair \in Pair /\ TruePair(pair, account)
    BY <2>0, <2>1, IssueIs DEF TruePair, True
  <2>3. \A t \in issued' : t \in issued \/ t = [ver |-> pair.access.ver, pw |-> token.pw]
    BY <1>7 DEF RefreshIssue, Record
  <2>4. \A t \in issued' : t \in issued \/ True(t, account)
    BY <2>0, <2>1, <2>3, IssueIs DEF True
  <2> QED
    BY <1>0, <1>7, <1>c, <2>2, <2>4 DEF RefreshIssue
<1>8. ASSUME NEW c \in Everyone, Lose(c)
      PROVE  TokensTrue'
  BY <1>0, <1>8, <1>c DEF Lose
<1>9. ASSUME NEW c \in Everyone, Wait(c)
      PROVE  TokensTrue'
  <2> DEFINE w == [call[c] EXCEPT !.at = "waiting", !.retried = TRUE, !.code = "none"]
             waiting == [call EXCEPT ![c] = w]
             r == Sent("refresh", store.refresh, 0)
  <2>1. w.token = call[c].token /\ w.pair = call[c].pair /\ w.at = "waiting"
    BY <1>0 DEF Request
  <2>0. store.refresh \in Token \cup {Null}
    BY DEF TypeInv
  <2>2. r.at = "sent" /\ r.token = store.refresh /\ r.pair = Null
    BY <2>0, SentIsRequest
  <2>3. waiting = [call EXCEPT ![c].at = "waiting", ![c].retried = TRUE, ![c].code = "none"]
    BY <1>0
  <2>4. call' = (IF renewing THEN waiting ELSE [waiting EXCEPT ![Renewal] = r])
    BY <1>9, <2>3 DEF Wait
  <2> HIDE DEF w, r
  <2>5. TrueCall(w, account) /\ TrueCall(r, account)
    BY <1>0, <2>1, <2>2 DEF TrueCall, TrueStore
  <2>6. \A d \in Everyone : waiting[d] = IF d = c THEN w ELSE call[d]
    BY <1>0
  <2>7. \A d \in Everyone : call'[d] \in {call[d], w, r}
    BY <1>0, <2>4, <2>6
  <2>8. UNCHANGED <<account, issued, store>>
    BY <1>9 DEF Wait
  <2> QED
    BY <1>0, <2>5, <2>7, <2>8 DEF TokensTrue
<1>10. ASSUME NEW c \in Calls, Settle(c)
       PROVE  TokensTrue'
  <2>1. TrueStore(store', account)
    <3>1. CASE Entered(c)
      <4>1. call[c].pair \in Pair /\ store' = call[c].pair
        BY <1>0, <1>10, <3>1 DEF Entered, Denied, Left, Settle, At, Is, TypeInv
      <4>2. call[c].pair # Null => TruePair(call[c].pair, account)
        BY <1>0 DEF TrueCall
      <4> QED
        BY <4>1, <4>2, AuthAssumption DEF AuthAssumption, TruePair, TrueStore
    <3>2. CASE ~Entered(c)
      BY <1>0, <1>10, <3>2, IdleIsTrue DEF Settle
    <3> QED
      BY <3>1, <3>2
  <2>2. call' = [call EXCEPT ![c] = Idle] /\ UNCHANGED <<account, issued>>
    BY <1>10 DEF Settle
  <2> QED
    BY <1>0, <1>a, <2>1, <2>2, IdleIsTrue
<1>11. ASSUME Renewed
       PROVE  TokensTrue'
  <2> DEFINE pair == call[Renewal].pair
             again(w) == [call[w] EXCEPT !.at = "sent", !.token = pair.access]
  <2>1. ASSUME call[Renewal].code = "ok"
        PROVE  pair \in Pair /\ TruePair(pair, account)
    <3>1. pair \in Pair
      BY <1>0, <1>11, <2>1 DEF Renewed, At, TypeInv
    <3> QED
      BY <1>0, <3>1, AuthAssumption DEF AuthAssumption, TrueCall
  <2>2. TrueStore(store', account)
    <3>1. CASE call[Renewal].code = "ok"
      BY <1>11, <2>1, <3>1 DEF Renewed, TruePair, TrueStore
    <3>2. CASE call[Renewal].code # "ok"
      BY <1>11, <3>2, IdleIsTrue DEF Renewed
    <3> QED
      BY <3>1, <3>2
  <2>3. ASSUME NEW w \in Everyone
        PROVE  \/ call'[w] \in {Idle, call[w]}
               \/ call[Renewal].code = "ok" /\ call'[w] = again(w)
    BY <1>11, <2>3, RenewedIs
  <2>4. ASSUME NEW w \in Everyone, call[Renewal].code = "ok"
        PROVE  TrueCall(again(w), account)
    <3>1. again(w).token = pair.access /\ again(w).pair = call[w].pair /\ again(w).at = "sent"
      BY <1>0 DEF Request
    <3> QED
      BY <1>0, <2>1, <2>4, <3>1 DEF TrueCall, TruePair
  <2> HIDE DEF again
  <2>5. \A w \in Everyone : TrueCall(call'[w], account)
    BY <1>0, <2>3, <2>4, IdleIsTrue
  <2>6. UNCHANGED <<account, issued>>
    BY <1>11 DEF Renewed
  <2> QED
    BY <1>0, <2>2, <2>5, <2>6 DEF TokensTrue
<1>12. ASSUME Elsewhere /\ UNCHANGED <<store, renewing, call, out>>
       PROVE  TokensTrue'
  <2>1. /\ issued' = issued /\ account' \in Account
        /\ account' = account \/ account'.ver > account.ver
    BY <1>0, <1>12 DEF Elsewhere, ChangeRead, ChangeWrite, ChangeFails, LogoutElsewhere, Logout, Tick, Account
  <2> QED
    BY <1>12, <2>1, AllTrueLater DEF TokensTrue
<1>13. ASSUME UNCHANGED vars
       PROVE  TokensTrue'
  BY <1>13 DEF vars, TokensTrue
<1>14. ~Settle(Renewal)
  BY DEF Settle
<1> QED
  BY <1>1, <1>2, <1>3, <1>4, <1>5, <1>6, <1>7, <1>8, <1>9, <1>10, <1>11, <1>12, <1>13, <1>14
     DEF Next, Serve, React, Renew, Everyone

(* A changed password ends every session: whoever holds a token that is still
   good has shown the password the account has now, whatever logins, refreshes
   and logouts were under way when it changed.                                *)
THEOREM PasswordEndsSessions == Spec => []LiveSessionsKnowThePassword
<1>1. TypeInv /\ TokensTrue => LiveSessionsKnowThePassword
  BY DEF TokensTrue, True, LiveSessionsKnowThePassword
<1> QED
  BY TypeInit, TypeStep, TrueInit, TrueStep, <1>1, PTL DEF Spec

-----------------------------------------------------------------------------
(* A logout is final. Once the server has raised the version for the console,
   what the console still has, and what its renewal may yet bring, is of an
   older version: a refresh signs for the version of the token it was sent.    *)

Older(t, a) == t # Null => t.ver < a.ver

OlderPair(pair, a) == Older(pair.access, a) /\ Older(pair.refresh, a)

OnlyOlder ==
  out => /\ OlderPair(store, account)
         /\ Older(call[Renewal].token, account)
         /\ call[Renewal].pair # Null => OlderPair(call[Renewal].pair, account)

LEMMA OnlyOlderInit == Init => OnlyOlder
  BY DEF Init, OnlyOlder

LEMMA OnlyOlderStep ==
  TypeInv /\ TypeInv' /\ TokensTrue /\ OnlyOlder /\ [Next]_vars => OnlyOlder'
<1> SUFFICES ASSUME TypeInv, TypeInv', TokensTrue, OnlyOlder, [Next]_vars PROVE OnlyOlder'
  OBVIOUS
<1> USE DEF serverVars
<1>0. /\ account \in Account /\ account' \in Account
      /\ Renewal \in Everyone /\ Calls \subseteq Everyone /\ Renewal \notin Calls
      /\ call \in [Everyone -> Request] /\ call[Renewal] \in Request
      /\ store \in [access : Token \cup {Null}, refresh : Token \cup {Null}]
  BY ConsoleAssumption DEF ConsoleAssumption, TypeInv, Everyone
<1>t. /\ \A t \in Token : t.ver \in Nat
      /\ \A a \in Account : a.ver \in Nat
      /\ \A pair \in Pair : pair.access \in Token /\ pair.refresh \in Token
  BY DEF Token, Account, Pair
<1>a. ASSUME UNCHANGED <<store, out>>, call'[Renewal] = call[Renewal],
             account' = account \/ account'.ver > account.ver
      PROVE  OnlyOlder'
  <2>1. ASSUME NEW t \in Token \cup {Null}, Older(t, account)
        PROVE  Older(t, account')
    BY <1>0, <1>t, <1>a, <2>1 DEF Older
  <2>2. call[Renewal].pair # Null => call[Renewal].pair \in Pair
    BY <1>0 DEF Request
  <2>3. call[Renewal].token \in Token \cup {Null}
    BY <1>0 DEF Request
  <2> QED
    BY <1>0, <1>t, <1>a, <2>1, <2>2, <2>3 DEF OnlyOlder, OlderPair
<1>b. ASSUME NEW c \in Calls, \A d \in Everyone \ {c} : call'[d] = call[d], UNCHANGED <<account, store, out>>
      PROVE  OnlyOlder'
  BY <1>0, <1>a, <1>b
<1>c. ASSUME NEW c \in Calls, Reads(c), UNCHANGED <<account, store, out>>
      PROVE  OnlyOlder'
  BY <1>0, <1>b, <1>c, ReadsIs
<1>d. ASSUME NEW c \in Calls, NEW pair \in Pair \cup {Null},
             NEW code \in {"ok", "NETWORK", "BAD_CREDENTIALS", "UNAUTHORIZED", "TOKEN_EXPIRED", "TOKEN_INVALID"},
             Answer(c, code, pair), UNCHANGED <<account, store, out>>
      PROVE  OnlyOlder'
  BY <1>0, <1>b, <1>d, AnswerIs
<1>1. ASSUME NEW c \in Calls, Start(c)
      PROVE  OnlyOlder'
  <2>1. call'[Renewal] = call[Renewal]
    BY <1>0, <1>1 DEF Start
  <2> QED
    BY <1>1, <1>a, <2>1 DEF Start
<1>2. ASSUME NEW c \in Calls, Guard(c)
      PROVE  OnlyOlder'
  <2>1. CASE Reads(c)
    BY <1>2, <1>c, <2>1 DEF Guard
  <2>2. CASE Answer(c, Check(call[c].token), Null)
    BY <1>2, <1>d, <2>2, CheckIs DEF Guard
  <2> QED
    BY <1>2, <2>1, <2>2 DEF Guard
<1>3. ASSUME NEW c \in Calls, SignOut(c)
      PROVE  OnlyOlder'
  <2>1. account'.ver = account.ver + 1 /\ UNCHANGED store
    BY <1>0, <1>3 DEF SignOut, Logout, Account
  <2>2. ASSUME NEW t \in Token \cup {Null}, t # Null => True(t, account)
        PROVE  Older(t, account')
    BY <1>0, <1>t, <2>1, <2>2 DEF Older, True
  <2>3. Answer(c, "ok", Null)
    BY <1>3 DEF SignOut
  <2>4. call'[Renewal] = call[Renewal]
    BY <1>0, <2>3, AnswerIs
  <2>5. TrueStore(store, account) /\ TrueCall(call[Renewal], account)
    BY <1>0 DEF TokensTrue
  <2>6. OlderPair(store, account')
    BY <1>0, <2>2, <2>5 DEF TrueStore, OlderPair
  <2>7. Older(call[Renewal].token, account')
    BY <1>0, <2>2, <2>5 DEF TrueCall, Request
  <2>8. ASSUME call[Renewal].pair # Null
        PROVE  OlderPair(call[Renewal].pair, account')
    <3>1. call[Renewal].pair \in Pair /\ TruePair(call[Renewal].pair, account)
      BY <1>0, <2>5, <2>8 DEF TrueCall, Request
    <3> QED
      BY <1>t, <2>2, <3>1 DEF TruePair, OlderPair
  <2> QED
    BY <2>1, <2>4, <2>6, <2>7, <2>8 DEF OnlyOlder
<1>4. ASSUME NEW c \in Calls, LoginRead(c)
      PROVE  OnlyOlder'
  BY <1>4, <1>c DEF LoginRead
<1>5. ASSUME NEW c \in Calls, LoginIssue(c)
      PROVE  OnlyOlder'
  <2>1. call[c].read \in Account /\ call[c].pw \in Nat
    BY <1>0, <1>5 DEF LoginIssue, At, TypeInv, Request
  <2>2. Issue(call[c].read, call[c].pw) \in Pair
    BY <2>1, IssueIs
  <2> QED
    BY <1>5, <1>d, <2>2 DEF LoginIssue
<1>6. ASSUME RefreshRead
      PROVE  OnlyOlder'
  <2>1. UNCHANGED <<account, store, out>>
    BY <1>6 DEF RefreshRead
  <2>2. /\ call'[Renewal].token = call[Renewal].token
        /\ call'[Renewal].pair = call[Renewal].pair \/ call'[Renewal].pair = Null
    BY <1>0, <1>6, ReadsIs, AnswerIs, CheckIs DEF RefreshRead
  <2> QED
    BY <2>1, <2>2 DEF OnlyOlder
<1>7. ASSUME RefreshIssue
      PROVE  OnlyOlder'
  <2> DEFINE token == call[Renewal].token
             read == call[Renewal].read
             pair == Issue(read, token.pw)
  <2>1. read \in Account /\ token \in Token /\ token # Null /\ token.ver = read.ver /\ token.pw \in Nat
    BY <1>0, <1>7 DEF RefreshIssue, At, TypeInv, Token
  <2>2. pair \in Pair /\ pair.access.ver = token.ver /\ pair.refresh.ver = token.ver
    BY <2>1, IssueIs
  <2>3. Answer(Renewal, "ok", pair) /\ UNCHANGED <<account, store, out>>
    BY <1>7 DEF RefreshIssue
  <2> HIDE DEF pair
  <2>4. call'[Renewal].token = token /\ call'[Renewal].pair = pair
    BY <1>0, <2>2, <2>3, AnswerIs
  <2>5. out => OlderPair(pair, account)
    BY <2>1, <2>2 DEF OnlyOlder, OlderPair, Older
  <2> QED
    BY <2>3, <2>4, <2>5 DEF OnlyOlder
<1>8. ASSUME NEW c \in Everyone, Lose(c)
      PROVE  OnlyOlder'
  <2>1. UNCHANGED <<account, store, out>> /\ Answer(c, "NETWORK", Null)
    BY <1>8 DEF Lose
  <2>2. /\ call'[Renewal].token = call[Renewal].token
        /\ call'[Renewal].pair = call[Renewal].pair \/ call'[Renewal].pair = Null
    BY <1>0, <2>1, AnswerIs
  <2> QED
    BY <2>1, <2>2 DEF OnlyOlder
<1>9. ASSUME NEW c \in Everyone, Wait(c)
      PROVE  OnlyOlder'
  <2> DEFINE w == [call[c] EXCEPT !.at = "waiting", !.retried = TRUE, !.code = "none"]
             waiting == [call EXCEPT ![c] = w]
             r == Sent("refresh", store.refresh, 0)
  <2>0. store.refresh \in Token \cup {Null} /\ call[c] \in Request
    BY <1>0
  <2>1. w.token = call[c].token /\ w.pair = call[c].pair
    BY <2>0 DEF Request
  <2>2. r.token = store.refresh /\ r.pair = Null
    BY <2>0, SentIsRequest
  <2>3. waiting = [call EXCEPT ![c].at = "waiting", ![c].retried = TRUE, ![c].code = "none"]
    BY <1>0
  <2>4. call' = (IF renewing THEN waiting ELSE [waiting EXCEPT ![Renewal] = r])
    BY <1>9, <2>3 DEF Wait
  <2> HIDE DEF w, r
  <2>5. call'[Renewal] \in {call[Renewal], r} \/ (c = Renewal /\ call'[Renewal] = w)
    BY <1>0, <2>4
  <2>6. UNCHANGED <<account, store, out>>
    BY <1>9 DEF Wait
  <2> QED
    BY <2>1, <2>2, <2>5, <2>6 DEF OnlyOlder, OlderPair
<1>10. ASSUME NEW c \in Calls, Settle(c)
       PROVE  OnlyOlder'
  <2>1. CASE Entered(c)
    BY <1>10, <2>1 DEF Settle, OnlyOlder
  <2>2. CASE ~Entered(c)
    <3>1. store' \in {store, Empty} /\ account' = account
      BY <1>10, <2>2 DEF Settle
    <3>4. out' => out
      BY <1>10, Zenon DEF Settle
    <3>2. call'[Renewal] = call[Renewal]
      BY <1>0, <1>10 DEF Settle
    <3>3. OlderPair(Empty, account)
      BY DEF Empty, OlderPair, Older
    <3> QED
      BY <3>1, <3>2, <3>3, <3>4 DEF OnlyOlder
  <2> QED
    BY <2>1, <2>2
<1>11. ASSUME Renewed
       PROVE  OnlyOlder'
  <2>1. call'[Renewal] = Idle /\ Idle.token = Null /\ Idle.pair = Null
    <3>1. ~At(Renewal, "waiting")
      BY <1>11 DEF Renewed, At
    <3> QED
      BY <1>0, <1>11, <3>1 DEF Renewed, Idle, Everyone
  <2>2. call[Renewal].code = "ok" => call[Renewal].pair # Null
    BY <1>0, <1>11, AuthAssumption DEF AuthAssumption, Renewed, At, TypeInv
  <2>3. store' = (IF call[Renewal].code = "ok" THEN call[Renewal].pair ELSE Empty)
    BY <1>11 DEF Renewed
  <2>4. OlderPair(Empty, account)
    BY DEF Empty, OlderPair, Older
  <2>5. UNCHANGED <<account, out>>
    BY <1>11 DEF Renewed
  <2> QED
    BY <2>1, <2>2, <2>3, <2>4, <2>5 DEF OnlyOlder, Older
<1>12. ASSUME Elsewhere /\ UNCHANGED <<store, renewing, call, out>>
       PROVE  OnlyOlder'
  <2>1. account' = account \/ account'.ver > account.ver
    BY <1>0, <1>12 DEF Elsewhere, ChangeRead, ChangeWrite, ChangeFails, LogoutElsewhere, Logout, Tick, Account
  <2> QED
    BY <1>12, <1>a, <2>1
<1>13. ASSUME UNCHANGED vars
       PROVE  OnlyOlder'
  BY <1>13 DEF vars, OnlyOlder
<1>14. ~Settle(Renewal)
  BY DEF Settle
<1> QED
  BY <1>1, <1>2, <1>3, <1>4, <1>5, <1>6, <1>7, <1>8, <1>9, <1>10, <1>11, <1>12, <1>13, <1>14
     DEF Next, Serve, React, Renew, Everyone

(* A logout the server has carried out leaves the console no live token, those
   a renewal under way then brings included, until somebody logs in.          *)
THEOREM LogoutKillsTheSession == Spec => []LogoutIsFinal
<1>1. TypeInv /\ OnlyOlder => LogoutIsFinal
  BY DEF TypeInv, OnlyOlder, OlderPair, Older, LogoutIsFinal, Token, Account
<1> QED
  BY TypeInit, TypeStep, TrueInit, TrueStep, OnlyOlderInit, OnlyOlderStep, <1>1, PTL DEF Spec

-----------------------------------------------------------------------------
(* Control.                                                                 *)

(* What the state consists of. *)
CallType ==
  [kind : {"none", "activate", "verify"}, keyed : BOOLEAN, at : {"none", "send", "wait", "lost"}]
RequestType ==
  [at : {"none", "sent", "missed", "let", "answered", "replayed"}, kind : {"none", "activate", "verify"},
   keyed : BOOLEAN, sent : Nat, since : Nat, waited : BOOLEAN]

ControlTypeOK ==
  /\ asking \in CallType /\ request \in [Slots -> RequestType]
  /\ saved \in Nat \cup {Never} /\ verified \in Nat \cup {Never}
  /\ clock \in Nat /\ lastAllowed \in Nat /\ lastOpen \in Nat
  /\ repeats \in BOOLEAN /\ told \in {"nothing", "run", "join", "again"}

(* The histories are those of the switches. *)
Watched ==
  /\ Allows(app) => lastAllowed = clock
  /\ Admits(app) => lastOpen = clock
  /\ lastOpen <= lastAllowed /\ lastAllowed <= clock

(* A key that was used has been counted, and a verification has a licence. *)
CallKnown ==
  /\ asking.keyed => repeats
  /\ asking.kind = "verify" => verified # Never

(* Whoever waits has not waited too long; what was let in was sent while the
   application let it, and what a record answers not much later. *)
InTime(r) ==
  /\ r.keyed => repeats
  /\ r.sent <= clock
  /\ r.waited => clock <= r.sent + Patience
  /\ r.at = "let" =>
       /\ r.sent <= lastAllowed
       /\ r.kind = "activate" => r.sent <= lastOpen
       /\ r.kind = "activate" /\ r.keyed => r.since <= lastOpen /\ clock <= r.since + Slack
  /\ r.at = "answered" =>
       /\ r.sent <= lastAllowed
       /\ r.kind = "activate" => r.sent <= lastOpen
  /\ r.at = "replayed" => r.sent <= lastOpen + Stale

RequestsInTime == \A s \in Slots : InTime(request[s])

(* A record dies in time, and a licence is kept only of an answer in time. *)
RecordInTime == saved # Never => repeats /\ saved <= lastOpen + Slack + Retention
LicenceInTime == verified # Never => verified <= lastAllowed + Stale + Patience

ControlInv ==
  /\ ControlTypeOK /\ Watched /\ CallKnown
  /\ RequestsInTime /\ RecordInTime /\ LicenceInTime
  /\ KilledProgramsStop /\ NewcomersStop

(* What the server's check lets through. *)
LEMMA CheckedIsAllowed ==
  ASSUME NEW a, NEW kind, assertRunnable(a, kind)
  PROVE  Allows(a) /\ (kind = "activate" => Admits(a))
BY DEF assertRunnable, Allows, Admits

LEMMA AdmittedIsAllowed == \A a : Admits(a) => Allows(a)
BY DEF Admits

LEMMA StaleIsNat == ControlTypeOK => Stale \in Nat
BY ControlAssumption DEF ControlTypeOK, Stale, ControlAssumption

(* What is due by a time is due by a later one. *)
LEMMA SumsGrow ==
  \A a, b, c, d \in Nat :
    a <= c /\ b <= d =>
      \A t, p, g \in Nat :
        /\ t <= a + b => t <= c + d
        /\ t <= a + b + p => t <= c + d + p
        /\ t <= a + b + p + g => t <= c + d + p + g
OBVIOUS

LEMMA BoundsGrow ==
  ASSUME ControlTypeOK, ControlTypeOK', lastAllowed <= lastAllowed', lastOpen <= lastOpen',
         Stale \in Nat, Stale' \in Nat, Stale <= Stale'
  PROVE  \A t \in Nat :
           /\ t <= lastAllowed + Stale => t <= lastAllowed' + Stale'
           /\ t <= lastOpen + Stale => t <= lastOpen' + Stale'
           /\ t <= lastAllowed + Stale + Patience => t <= lastAllowed' + Stale' + Patience
           /\ t <= lastOpen + Stale + Patience => t <= lastOpen' + Stale' + Patience
           /\ t <= lastOpen + Patience => t <= lastOpen' + Patience
           /\ t <= lastAllowed + Stale + Patience + Grace => t <= lastAllowed' + Stale' + Patience + Grace
<1>1. lastAllowed \in Nat /\ lastOpen \in Nat /\ lastAllowed' \in Nat /\ lastOpen' \in Nat
      /\ Patience \in Nat /\ Grace \in Nat
  BY ControlAssumption DEF ControlTypeOK, ControlAssumption
<1> DEFINE a == lastAllowed    b == Stale
           c == lastAllowed'   d == Stale'
           e == lastOpen       f == lastOpen'
<1>2. /\ a \in Nat /\ b \in Nat /\ c \in Nat /\ d \in Nat /\ e \in Nat /\ f \in Nat
      /\ a <= c /\ b <= d /\ e <= f
  BY <1>1
<1> HIDE DEF a, b, c, d, e, f
<1>3. \A t \in Nat :
        /\ t <= a + b => t <= c + d
        /\ t <= e + b => t <= f + d
        /\ t <= a + b + Patience => t <= c + d + Patience
        /\ t <= e + b + Patience => t <= f + d + Patience
        /\ t <= e + Patience => t <= f + Patience
        /\ t <= a + b + Patience + Grace => t <= c + d + Patience + Grace
  BY <1>1, <1>2, SumsGrow
<1> QED
  BY <1>3 DEF a, b, c, d, e, f

LEMMA ControlInitInv == ControlInit => ControlInv
<1> SUFFICES ASSUME ControlInit PROVE ControlInv
  OBVIOUS
<1>1. ControlTypeOK
  BY DEF ControlInit, ControlTypeOK, CallType, RequestType, NoCall, NoRequest
<1>2. Watched /\ CallKnown /\ RecordInTime /\ LicenceInTime /\ KilledProgramsStop /\ NewcomersStop
  BY DEF ControlInit, Watched, CallKnown, RecordInTime, LicenceInTime, KilledProgramsStop,
         NewcomersStop, NoCall
<1>3. RequestsInTime
  BY ControlAssumption DEF ControlInit, RequestsInTime, InTime, NoRequest, ControlAssumption
<1> QED
  BY <1>1, <1>2, <1>3 DEF ControlInv

(* The histories grow, and what is bounded by them stays so, when a step leaves the
   requests, the record and the licence alone. *)
Bystanders == <<request, saved, verified, asking, repeats>>

LEMMA SwitchedInv ==
  ASSUME ControlInv, NEW a, Watch(a, clock), app' = a,
         UNCHANGED <<Bystanders, clock, told>>
  PROVE  ControlInv'
<1> USE ControlAssumption DEF ControlAssumption
<1>1. ControlTypeOK'
  BY DEF ControlInv, ControlTypeOK, Watch, Bystanders
<1>2. Watched'
  <2>1. (Allows(app)' <=> Allows(a)) /\ (Admits(app)' <=> Admits(a))
    BY DEF Allows, Admits, TooOld
  <2> QED
    BY <1>1, <2>1, AdmittedIsAllowed DEF ControlInv, ControlTypeOK, Watched, Watch
<1>3. lastAllowed' >= lastAllowed /\ lastOpen' >= lastOpen /\ Stale' = Stale
  BY DEF ControlInv, ControlTypeOK, Watched, Watch, Stale, Bystanders
<1>4. Stale \in Nat
  BY StaleIsNat DEF ControlInv
<1>5. RequestsInTime'
  <2> SUFFICES ASSUME NEW s \in Slots PROVE InTime(request[s])'
    BY DEF RequestsInTime
  <2>1. InTime(request[s]) /\ request'[s] = request[s] /\ request[s].sent \in Nat /\ request[s].since \in Nat
    BY DEF ControlInv, RequestsInTime, ControlTypeOK, RequestType, Bystanders
  <2> QED
    BY <1>1, <1>3, <1>4, <2>1 DEF InTime, ControlInv, ControlTypeOK, Bystanders
<1>6. RecordInTime' /\ CallKnown'
  BY <1>1, <1>3 DEF ControlInv, ControlTypeOK, RecordInTime, CallKnown, Bystanders
<1>9. \A t \in Nat :
         /\ t <= lastAllowed + Stale + Patience => t <= lastAllowed' + Stale' + Patience
         /\ t <= lastOpen + Stale + Patience => t <= lastOpen' + Stale' + Patience
         /\ t <= lastOpen + Patience => t <= lastOpen' + Patience
         /\ t <= lastAllowed + Stale + Patience + Grace => t <= lastAllowed' + Stale' + Patience + Grace
  <2>1. lastAllowed <= lastAllowed' /\ lastOpen <= lastOpen' /\ Stale <= Stale' /\ Stale' \in Nat
    BY <1>1, <1>3, <1>4 DEF ControlInv, ControlTypeOK
  <2> QED
    BY <1>1, <1>4, <2>1, BoundsGrow DEF ControlInv
<1>8. LicenceInTime'
  BY <1>9, Zenon DEF ControlInv, ControlTypeOK, LicenceInTime, Bystanders
<1>7. KilledProgramsStop' /\ NewcomersStop'
  BY <1>9, Zenon DEF ControlInv, ControlTypeOK, KilledProgramsStop, NewcomersStop, Bystanders
<1> QED
  BY <1>1, <1>2, <1>5, <1>6, <1>7, <1>8 DEF ControlInv

(* A step of the program or the server leaves the switches and the clock alone: what
   it does to one request, to the record and to the licence is to be looked at. *)
LEMMA ServedInv ==
  ASSUME ControlInv, ControlTypeOK',
         UNCHANGED <<app, clock, lastAllowed, lastOpen>>,
         repeats => repeats',
         CallKnown', RequestsInTime', RecordInTime', LicenceInTime',
         \/ told' = told \/ told' = "nothing"
         \/ KilledProgramsStop' /\ NewcomersStop'
  PROVE  ControlInv'
<1> USE ControlAssumption DEF ControlAssumption
<1>1. Watched'
  BY DEF ControlInv, Watched, Allows, Admits, TooOld
<1>2. Stale \in Nat /\ Stale' \in Nat /\ Stale <= Stale'
  BY DEF ControlInv, ControlTypeOK, Stale
<1>3. ASSUME told' = told \/ told' = "nothing" PROVE KilledProgramsStop' /\ NewcomersStop'
  <2>1. lastAllowed <= lastAllowed' /\ lastOpen <= lastOpen'
    BY DEF ControlInv, ControlTypeOK
  <2>2. clock \in Nat /\ ControlTypeOK
    BY DEF ControlInv, ControlTypeOK
  <2>3. /\ clock <= lastOpen + Stale + Patience => clock <= lastOpen' + Stale' + Patience
        /\ clock <= lastOpen + Patience => clock <= lastOpen' + Patience
        /\ clock <= lastAllowed + Stale + Patience + Grace
             => clock <= lastAllowed' + Stale' + Patience + Grace
    BY <1>2, <2>1, <2>2, BoundsGrow
  <2> QED
    BY <1>3, <2>3, Zenon DEF ControlInv, KilledProgramsStop, NewcomersStop
<1> QED
  BY <1>1, <1>3 DEF ControlInv

LEMMA EditorsKeepInv ==
  ASSUME ControlInv,
         \/ \E e \in Editors : EditorStep(e)
         \/ \E next \in {"active", "disabled"} : ToggleStatus(next)
         \/ \E b \in Bodies : CallPolicy(b)
         \/ \E v \in Releases : Publish(v)
  PROVE  ControlInv'
<1>1. ASSUME NEW e \in Editors, OpenControl(e) \/ CloseControl(e)
      PROVE  ControlInv'
  <2>1. UNCHANGED <<app, Bystanders, clock, told, lastAllowed, lastOpen>>
    BY <1>1 DEF OpenControl, CloseControl, programVars, Bystanders
  <2>2. Watch(app, clock)
    BY <2>1 DEF ControlInv, Watched, Watch
  <2> QED
    BY <2>1, <2>2, SwitchedInv
<1>2. ASSUME NEW b \in Bodies, UpdatePolicy(b)
      PROVE  ControlInv'
  BY <1>2, SwitchedInv DEF UpdatePolicy, programVars, Bystanders
<1>3. ASSUME NEW next \in {"active", "disabled"}, ToggleStatus(next)
      PROVE  ControlInv'
  BY <1>3, SwitchedInv DEF ToggleStatus, UpdateApp, programVars, Bystanders
<1>4. ASSUME NEW v \in Releases, Publish(v)
      PROVE  ControlInv'
  <2>1. UNCHANGED <<Bystanders, clock, told, lastAllowed, lastOpen>>
    BY <1>4 DEF Publish, programVars, Bystanders
  <2>2. (Allows(app') <=> Allows(app)) /\ (Admits(app') <=> Admits(app))
    BY <1>4 DEF Publish, Allows, Admits, TooOld
  <2>3. Watch(app', clock)
    BY <2>1, <2>2 DEF ControlInv, Watched, Watch
  <2> QED
    BY <2>1, <2>3, SwitchedInv
<1> QED
  BY <1>1, <1>2, <1>3, <1>4 DEF EditorStep, SaveControl, CallPolicy

(* The others' requests stay in time when one is changed. *)
LEMMA OthersInTime ==
  ASSUME ControlInv, NEW s \in Slots, InTime(request[s])',
         \A x \in Slots \ {s} : request'[x] = request[x],
         UNCHANGED <<clock, repeats, lastAllowed, lastOpen>>
  PROVE  RequestsInTime'
<1>1. ASSUME NEW x \in Slots, x # s PROVE InTime(request[x])'
  <2>1. InTime(request[x]) /\ request'[x] = request[x]
    BY <1>1 DEF ControlInv, RequestsInTime
  <2> QED
    BY <2>1 DEF InTime, Stale
<1> QED
  BY <1>1 DEF RequestsInTime

LEMMA NoRequestInTime == ControlTypeOK => InTime(NoRequest)
BY ControlAssumption, StaleIsNat DEF ControlAssumption, ControlTypeOK, InTime, NoRequest

LEMMA ProgramKeepsInv ==
  ASSUME ControlInv,
         \/ \E kind \in {"activate", "verify"}, keyed \in BOOLEAN : Call(kind, keyed)
         \/ Retry \/ FallbackOffline \/ Throw
  PROVE  ControlInv'
<1> USE ControlAssumption DEF ControlAssumption
<1>0. Stale \in Nat
  BY StaleIsNat DEF ControlInv
<1>1. ASSUME NEW kind \in {"activate", "verify"}, NEW keyed \in BOOLEAN, Call(kind, keyed)
      PROVE  ControlInv'
  <2>1. ControlTypeOK'
    BY <1>1 DEF ControlInv, ControlTypeOK, Call, platformVars, CallType, RequestType
  <2>2. CallKnown'
    BY <1>1 DEF ControlInv, CallKnown, Call
  <2>3. Stale' \in Nat /\ Stale <= Stale'
    BY <1>1, <2>1 DEF ControlInv, ControlTypeOK, Call, Stale
  <2>4. RequestsInTime'
    <3> SUFFICES ASSUME NEW s \in Slots PROVE InTime(request[s])'
      BY DEF RequestsInTime
    <3>1. InTime(request[s]) /\ request[s].sent \in Nat
      BY DEF ControlInv, RequestsInTime, ControlTypeOK, RequestType
    <3> QED
      BY <1>0, <1>1, <2>3, <3>1 DEF InTime, Call, ControlInv, ControlTypeOK
  <2>5. RecordInTime'
    BY <1>1 DEF ControlInv, RecordInTime, Call, platformVars
  <2>6. LicenceInTime'
    <3>1. lastAllowed <= lastAllowed' /\ lastOpen <= lastOpen' /\ verified' = verified
      BY <1>1 DEF ControlInv, ControlTypeOK, Call
    <3>2. \A t \in Nat : t <= lastAllowed + Stale + Patience => t <= lastAllowed' + Stale' + Patience
      BY <1>0, <2>1, <2>3, <3>1, BoundsGrow DEF ControlInv
    <3> QED
      BY <3>1, <3>2, Zenon DEF ControlInv, ControlTypeOK, LicenceInTime
  <2> QED
    BY <1>1, <2>1, <2>2, <2>4, <2>5, <2>6, ServedInv DEF Call, platformVars
<1>2. ASSUME Retry \/ FallbackOffline \/ Throw
      PROVE  ControlInv'
  <2>1. ControlTypeOK'
    <3>1. NoCall \in CallType /\ [asking EXCEPT !.at = "send"] \in CallType
      BY DEF ControlInv, ControlTypeOK, NoCall, CallType
    <3> QED
      BY <1>2, <3>1 DEF ControlInv, ControlTypeOK, Retry, FallbackOffline, Throw, platformVars
  <2>2. /\ UNCHANGED <<request, saved, verified, app, clock, lastAllowed, lastOpen, repeats>>
        /\ asking' = NoCall \/ asking' = [asking EXCEPT !.at = "send"]
    BY <1>2 DEF Retry, FallbackOffline, Throw, platformVars
  <2>5. CallKnown'
    BY <2>2 DEF ControlInv, ControlTypeOK, CallType, CallKnown, NoCall
  <2>6. Stale' = Stale
    BY <2>2 DEF Stale
  <2>7. RequestsInTime'
    <3> SUFFICES ASSUME NEW s \in Slots PROVE InTime(request[s])'
      BY DEF RequestsInTime
    <3>1. InTime(request[s])
      BY DEF ControlInv, RequestsInTime
    <3> QED
      BY <2>2, <2>6, <3>1 DEF InTime
  <2>3. CallKnown' /\ RequestsInTime' /\ RecordInTime' /\ LicenceInTime'
    BY <2>2, <2>5, <2>6, <2>7 DEF ControlInv, RecordInTime, LicenceInTime
  <2>4. told' = told \/ (KilledProgramsStop' /\ NewcomersStop')
    <3>1. CASE FallbackOffline
      <4>1. verified \in Nat /\ verified <= lastAllowed + Stale + Patience
        BY <3>1 DEF ControlInv, ControlTypeOK, CallKnown, LicenceInTime, FallbackOffline
      <4>2. clock <= verified + Grace
        BY <3>1, <4>1 DEF FallbackOffline, ControlInv, ControlTypeOK
      <4> QED
        BY <1>0, <2>2, <3>1, <4>1, <4>2
           DEF FallbackOffline, KilledProgramsStop, NewcomersStop, Stale, ControlInv, ControlTypeOK
    <3> QED
      BY <1>2, <3>1 DEF Retry, Throw
  <2> QED
    BY <2>1, <2>2, <2>3, <2>4, ServedInv
<1> QED
  BY <1>1, <1>2

LEMMA ServerKeepsInv ==
  ASSUME ControlInv, NEW s \in Slots, RequestStep(s)
  PROVE  ControlInv'
<1> USE ControlAssumption DEF ControlAssumption
<1> DEFINE r == request[s]
<1>0. /\ Stale \in Nat /\ ControlTypeOK /\ InTime(r) /\ InTime(NoRequest)
      /\ r.sent \in Nat /\ r.since \in Nat /\ clock \in Nat /\ lastOpen \in Nat /\ lastAllowed \in Nat
      /\ lastOpen <= lastAllowed /\ lastAllowed <= clock
  BY StaleIsNat, NoRequestInTime DEF ControlInv, ControlTypeOK, RequestType, RequestsInTime, Watched
<1>1. CASE Send(s)
  <2>1. ControlTypeOK'
    BY <1>0, <1>1 DEF ControlTypeOK, Send, platformVars, CallType, RequestType
  <2>2. InTime(request[s])' /\ \A x \in Slots \ {s} : request'[x] = request[x]
    BY <1>0, <1>1 DEF InTime, Send, ControlTypeOK, RequestType, ControlInv, CallKnown, Stale
  <2>3. RequestsInTime' /\ CallKnown' /\ RecordInTime' /\ LicenceInTime'
    <3>1. RequestsInTime'
      BY <1>1, <2>2, OthersInTime DEF Send
    <3> QED
      BY <1>0, <1>1, <3>1 DEF Send, platformVars, ControlInv, ControlTypeOK, CallKnown, RecordInTime,
                              LicenceInTime, Stale
  <2> QED
    BY <1>1, <2>1, <2>3, ServedInv DEF Send, platformVars
<1>2. CASE Hear(s)
  <2>1. ControlTypeOK'
    BY <1>0, <1>2 DEF ControlTypeOK, Hear, platformVars, NoCall, NoRequest, CallType, RequestType
  <2>2. Stale' = Stale
    BY <1>2 DEF Hear, Stale
  <2>6. request'[s] = NoRequest /\ \A x \in Slots \ {s} : request'[x] = request[x]
    BY <1>0, <1>2 DEF Hear, ControlTypeOK
  <2>3. /\ clock <= r.sent + Patience /\ r.sent <= lastAllowed + Stale
        /\ r.at = "replayed" => r.sent <= lastOpen + Stale
        /\ r.at # "replayed" /\ r.kind = "activate" => r.sent <= lastOpen
    BY <1>0, <1>2 DEF Hear, InTime
  <2>4. RequestsInTime'
    <3>1. InTime(request[s])'
      BY <1>0, <1>2, <2>2, <2>6 DEF Hear, InTime, NoRequest
    <3> QED
      BY <1>2, <2>6, <3>1, OthersInTime DEF Hear
  <2>5. CallKnown' /\ RecordInTime' /\ LicenceInTime' /\ KilledProgramsStop' /\ NewcomersStop'
    BY <1>0, <1>2, <2>2, <2>3 DEF Hear, platformVars, ControlInv, ControlTypeOK, CallKnown,
       RecordInTime, LicenceInTime, KilledProgramsStop, NewcomersStop, NoCall
  <2> QED
    BY <1>2, <2>1, <2>4, <2>5, ServedInv DEF Hear, platformVars
<1>3. CASE NoAnswer(s)
  <2>1. ControlTypeOK'
    <3>1. request[s] \in RequestType /\ NoRequest \in RequestType
      BY <1>0 DEF ControlTypeOK, RequestType, NoRequest
    <3>2. [request[s] EXCEPT !.waited = FALSE, !.sent = 0] \in RequestType
      BY <3>1 DEF RequestType
    <3>3. request' \in [Slots -> RequestType]
      BY <1>0, <1>3, <3>1, <3>2 DEF ControlTypeOK, NoAnswer
    <3>4. asking' \in CallType
      BY <1>0, <1>3 DEF ControlTypeOK, NoAnswer, CallType
    <3> QED
      BY <1>0, <1>3, <3>3, <3>4 DEF ControlTypeOK, NoAnswer, platformVars
  <2>2. Stale' = Stale
    BY <1>3 DEF NoAnswer, Stale
  <2>3. InTime(request[s])' /\ \A x \in Slots \ {s} : request'[x] = request[x]
    BY <1>0, <1>3, <2>2 DEF NoAnswer, InTime, NoRequest, ControlTypeOK, RequestType
  <2>4. RequestsInTime'
    BY <1>3, <2>3, OthersInTime DEF NoAnswer
  <2>5. CallKnown' /\ RecordInTime' /\ LicenceInTime'
    BY <1>0, <1>3, <2>2 DEF NoAnswer, platformVars, ControlInv, ControlTypeOK, CallKnown,
       RecordInTime, LicenceInTime
  <2> QED
    BY <1>3, <2>1, <2>4, <2>5, ServedInv DEF NoAnswer, platformVars
<1>4. CASE Replay(s)
  <2>1. ControlTypeOK'
    BY <1>0, <1>4 DEF ControlTypeOK, Replay, platformVars, NoRequest, CallType, RequestType
  <2>2. Stale' = Stale
    BY <1>4 DEF Replay, Stale
  <2>3. clock <= lastOpen + Stale
    BY <1>0, <1>4 DEF Replay, OnRecord, ControlInv, ControlTypeOK, RecordInTime, Stale
  <2>4. InTime(request[s])' /\ \A x \in Slots \ {s} : request'[x] = request[x]
    BY <1>0, <1>4, <2>2, <2>3 DEF Replay, InTime, NoRequest, ControlTypeOK, RequestType
  <2>5. RequestsInTime'
    BY <1>4, <2>4, OthersInTime DEF Replay
  <2>6. CallKnown' /\ RecordInTime' /\ LicenceInTime'
    BY <1>0, <1>4, <2>2 DEF Replay, platformVars, ControlInv, ControlTypeOK, CallKnown,
       RecordInTime, LicenceInTime
  <2> QED
    BY <1>4, <2>1, <2>5, <2>6, ServedInv DEF Replay, platformVars
<1>5. CASE Lookup(s)
  <2>1. ControlTypeOK'
    BY <1>0, <1>5 DEF ControlTypeOK, Lookup, CallType, RequestType
  <2>2. Stale' = Stale
    BY <1>5 DEF Lookup, Stale
  <2>4. InTime(request[s])' /\ \A x \in Slots \ {s} : request'[x] = request[x]
    BY <1>0, <1>5, <2>2 DEF Lookup, InTime, ControlTypeOK, RequestType
  <2>5. RequestsInTime'
    BY <1>5, <2>4, OthersInTime DEF Lookup
  <2>6. CallKnown' /\ RecordInTime' /\ LicenceInTime'
    BY <1>0, <1>5, <2>2 DEF Lookup, ControlInv, ControlTypeOK, CallKnown, RecordInTime, LicenceInTime
  <2> QED
    BY <1>5, <2>1, <2>5, <2>6, ServedInv DEF Lookup
<1>6. CASE CheckApp(s)
  <2>1. ControlTypeOK'
    <3>1. request[s] \in RequestType
      BY <1>0 DEF ControlTypeOK
    <3>2. [request[s] EXCEPT !.at = "let", !.since = IF Repeated(s) THEN clock ELSE 0] \in RequestType
      BY <1>0, <3>1 DEF RequestType
    <3>3. request' \in [Slots -> RequestType]
      BY <1>0, <1>6, <3>1, <3>2 DEF ControlTypeOK, CheckApp
    <3> QED
      BY <1>0, <1>6, <3>3 DEF ControlTypeOK, CheckApp, platformVars
  <2>2. Stale' = Stale
    BY <1>6 DEF CheckApp, Stale
  <2>3. lastAllowed = clock /\ (r.kind = "activate" => lastOpen = clock)
    BY <1>6, CheckedIsAllowed DEF CheckApp, ControlInv, Watched
  <2>4. InTime(request[s])' /\ \A x \in Slots \ {s} : request'[x] = request[x]
    BY <1>0, <1>6, <2>2, <2>3 DEF CheckApp, Repeated, InTime, ControlTypeOK, RequestType
  <2>5. RequestsInTime'
    BY <1>6, <2>4, OthersInTime DEF CheckApp
  <2>6. CallKnown' /\ RecordInTime' /\ LicenceInTime'
    BY <1>0, <1>6, <2>2 DEF CheckApp, platformVars, ControlInv, ControlTypeOK, CallKnown,
       RecordInTime, LicenceInTime
  <2> QED
    BY <1>6, <2>1, <2>5, <2>6, ServedInv DEF CheckApp, platformVars
<1>7. CASE Refuse(s) \/ Fail(s)
  <2>1. /\ UNCHANGED <<platformVars, verified, repeats, told, clock, lastAllowed, lastOpen>>
        /\ request' = [request EXCEPT ![s] = NoRequest]
        /\ asking' \in {asking, NoCall, [asking EXCEPT !.at = "send"]}
    BY <1>7 DEF Refuse, Fail, Turned
  <2>2. ControlTypeOK'
    <3>1. NoCall \in CallType /\ [asking EXCEPT !.at = "send"] \in CallType
      BY <1>0 DEF ControlTypeOK, NoCall, CallType
    <3>2. NoRequest \in RequestType
      BY DEF NoRequest, RequestType
    <3> QED
      BY <1>0, <2>1, <3>1, <3>2 DEF ControlTypeOK, platformVars
  <2>5. request'[s] = NoRequest /\ \A x \in Slots \ {s} : request'[x] = request[x]
    BY <1>0, <2>1 DEF ControlTypeOK
  <2>3. RequestsInTime'
    <3>1. InTime(request[s])'
      BY <1>0, <2>1, <2>5 DEF InTime, NoRequest, Stale
    <3> QED
      BY <2>1, <2>5, <3>1, OthersInTime
  <2>6. CallKnown'
    BY <1>0, <2>1 DEF ControlInv, ControlTypeOK, CallType, CallKnown, NoCall
  <2>7. Stale' = Stale
    BY <2>1 DEF Stale
  <2>4. CallKnown' /\ RecordInTime' /\ LicenceInTime'
    BY <2>1, <2>6, <2>7 DEF platformVars, ControlInv, RecordInTime, LicenceInTime
  <2> QED
    BY <2>1, <2>2, <2>3, <2>4, ServedInv DEF platformVars
<1>8. CASE Finish(s)
  <2>1. ControlTypeOK'
    <3>1. request[s] \in RequestType /\ NoRequest \in RequestType
      BY <1>0 DEF ControlTypeOK, RequestType, NoRequest
    <3>2. [request[s] EXCEPT !.at = "answered", !.since = 0] \in RequestType
      BY <3>1 DEF RequestType
    <3>3. request' \in [Slots -> RequestType]
      BY <1>0, <1>8, <3>1, <3>2 DEF ControlTypeOK, Finish
    <3>4. saved' \in Nat \cup {Never}
      BY <1>0, <1>8 DEF ControlTypeOK, Finish
    <3> QED
      BY <1>0, <1>8, <3>3, <3>4 DEF ControlTypeOK, Finish
  <2>2. Stale' = Stale
    BY <1>8 DEF Finish, Stale
  <2>4. InTime(request[s])' /\ \A x \in Slots \ {s} : request'[x] = request[x]
    BY <1>0, <1>8, <2>2 DEF Finish, InTime, NoRequest, ControlTypeOK, RequestType
  <2>5. RequestsInTime'
    BY <1>8, <2>4, OthersInTime DEF Finish
  <2>6. RecordInTime'
    BY <1>0, <1>8 DEF Finish, Repeated, InTime, ControlInv, ControlTypeOK, RecordInTime
  <2>7. CallKnown' /\ LicenceInTime'
    BY <1>0, <1>8, <2>2 DEF Finish, ControlInv, ControlTypeOK, CallKnown, LicenceInTime
  <2> QED
    BY <1>8, <2>1, <2>5, <2>6, <2>7, ServedInv DEF Finish
<1> QED
  BY <1>1, <1>2, <1>3, <1>4, <1>5, <1>6, <1>7, <1>8 DEF RequestStep

LEMMA PassKeepsInv == ControlInv /\ Pass => ControlInv'
<1> USE ControlAssumption DEF ControlAssumption
<1> SUFFICES ASSUME ControlInv, Pass PROVE ControlInv'
  OBVIOUS
<1>1. ControlTypeOK'
  BY DEF ControlInv, ControlTypeOK, Pass, Watch, platformVars, Allows, Admits
<1>2. Stale \in Nat /\ Stale' = Stale
  BY StaleIsNat DEF ControlInv, Pass, Stale
<1>3. Watched' /\ lastAllowed' >= lastAllowed /\ lastOpen' >= lastOpen
  <2>1. (Allows(app)' <=> Allows(app)) /\ (Admits(app)' <=> Admits(app))
    BY DEF Allows, Admits, TooOld, Pass, platformVars
  <2>2. Admits(app) => Allows(app)
    BY AdmittedIsAllowed
  <2> QED
    BY <2>1, <2>2 DEF ControlInv, ControlTypeOK, Watched, Watch, Pass, platformVars
<1>4. RequestsInTime'
  <2> SUFFICES ASSUME NEW s \in Slots PROVE InTime(request[s])'
    BY DEF RequestsInTime
  <2>1. InTime(request[s]) /\ request[s].sent \in Nat /\ request[s].since \in Nat /\ request'[s] = request[s]
    BY DEF ControlInv, RequestsInTime, ControlTypeOK, RequestType, Pass
  <2>2. ~Due(s)
    BY DEF Pass
  <2> QED
    BY <1>1, <1>2, <1>3, <2>1, <2>2 DEF InTime, Due, Repeated, Pass, ControlInv, ControlTypeOK
<1>5. CallKnown' /\ RecordInTime'
  <2>1. CallKnown'
    BY DEF ControlInv, Pass, CallKnown
  <2>2. saved' = saved /\ repeats' = repeats /\ RecordInTime
    BY DEF ControlInv, Pass, platformVars
  <2>3. lastOpen \in Nat /\ lastOpen' \in Nat /\ lastOpen' >= lastOpen
    BY <1>1, <1>3 DEF ControlTypeOK, ControlInv
  <2>4. ASSUME saved # Never PROVE repeats' /\ saved' <= lastOpen' + Slack + Retention
    <3>1. repeats /\ saved <= lastOpen + Slack + Retention
      BY <2>2, <2>4 DEF RecordInTime
    <3>2. saved \in Nat
      BY <2>4 DEF ControlInv, ControlTypeOK
    <3>3. \A t, l, m \in Nat : m >= l /\ t <= l + Slack + Retention => t <= m + Slack + Retention
      OBVIOUS
    <3>4. saved <= lastOpen' + Slack + Retention
      BY <2>3, <3>1, <3>2, <3>3
    <3> QED
      BY <2>2, <3>1, <3>4, Zenon
  <2>5. RecordInTime'
    BY <2>2, <2>4 DEF RecordInTime
  <2> QED
    BY <2>1, <2>5
<1>7. LicenceInTime'
  <2>1. lastAllowed <= lastAllowed' /\ lastOpen <= lastOpen' /\ Stale <= Stale' /\ ControlTypeOK
    BY <1>1, <1>2, <1>3 DEF ControlInv, ControlTypeOK
  <2>2. \A t \in Nat : t <= lastAllowed + Stale + Patience => t <= lastAllowed' + Stale' + Patience
    BY <1>1, <1>2, <2>1, BoundsGrow
  <2> QED
    BY <2>1, <2>2, Zenon DEF ControlInv, ControlTypeOK, LicenceInTime, Pass
<1>6. KilledProgramsStop' /\ NewcomersStop'
  BY DEF Pass, KilledProgramsStop, NewcomersStop
<1> QED
  BY <1>1, <1>3, <1>4, <1>5, <1>6, <1>7 DEF ControlInv

LEMMA ControlStepInv == ControlInv /\ [ControlNext]_controlVars => ControlInv'
<1> SUFFICES ASSUME ControlInv, [ControlNext]_controlVars PROVE ControlInv'
  OBVIOUS
<1>1. CASE UNCHANGED controlVars
  <2>1. UNCHANGED <<app, Bystanders, clock, told, lastAllowed, lastOpen>>
    BY <1>1 DEF controlVars, platformVars, programVars, Bystanders
  <2>2. Watch(app, clock)
    BY <2>1 DEF ControlInv, Watched, Watch
  <2> QED
    BY <2>1, <2>2, SwitchedInv
<1> QED
  BY <1>1, EditorsKeepInv, ProgramKeepsInv, ServerKeepsInv, PassKeepsInv DEF ControlNext

(* A stopped application stops its programs: nothing tells one to run for longer
   after the last moment at which the application let it than the windows of the
   code, one behind the other.                                                 *)
THEOREM StoppedProgramsStop == ControlSpec => []KilledProgramsStop
<1>1. ControlInv => KilledProgramsStop
  BY DEF ControlInv
<1> QED
  BY <1>1, ControlInitInv, ControlStepInv, PTL DEF ControlSpec

(* Nor does anybody new come in, while it is stopped or under maintenance: what the
   check let in was sent before, and a record answers no longer than it lives. *)
THEOREM ClosedDoorStaysClosed == ControlSpec => []NewcomersStop
<1>1. ControlInv => NewcomersStop
  BY DEF ControlInv
<1> QED
  BY <1>1, ControlInitInv, ControlStepInv, PTL DEF ControlSpec

=============================================================================
