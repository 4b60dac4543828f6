------------------------------- MODULE AdminAuth -------------------------------
(***************************************************************************)
(* One administrator's account on the server. Tokens are signed for the    *)
(* account's tokenVersion; logging out and changing the password raise it. *)
(* login, refresh and changePassword read the account and answer or write  *)
(* later: the check of a password takes its time in between.               *)
(***************************************************************************)
EXTENDS Integers

CONSTANTS
  Null,       \* no token, nothing read
  AccessTtl,  \* JWT_ACCESS_TTL
  RefreshTtl, \* JWT_REFRESH_TTL
  MaxVersion, \* bound: how often tokenVersion is raised
  MaxTime     \* bound: the last instant

(* A token names the version it is signed for; which password its holder has
   shown is a history. *)
Token == [ver : Nat, pw : Nat, until : Nat]
Pair == [access : Token, refresh : Token]

ASSUME AuthAssumption ==
  /\ AccessTtl \in Nat /\ RefreshTtl \in Nat /\ MaxVersion \in Nat /\ MaxTime \in Nat
  /\ Null \notin Pair

VARIABLES
  account,  \* tokenVersion, and the password as the number of times it changed
  change,   \* a changePassword in progress: what it read, or Null
  issued,   \* history: for which version and password tokens were signed
  now       \* the time

serverVars == <<account, change, issued, now>>

ServerInit ==
  account = [ver |-> 0, pw |-> 0] /\ change = Null /\ issued = {} /\ now = 0

Expired(token) == now >= token.until
Sign(ver, pw, ttl) == [ver |-> ver, pw |-> pw, until |-> now + ttl]

(* What a token is answered; the order of the checks is the code's. *)
Check(token) ==
  CASE token = Null               -> "UNAUTHORIZED"
    [] token # Null /\ Expired(token) -> "TOKEN_EXPIRED"
    [] OTHER -> IF token.ver = account.ver THEN "ok" ELSE "TOKEN_INVALID"

(* Mutant of Issue: for the version the account has by now. *)
IssueForNow(read, pw) ==
  [access |-> Sign(account.ver, pw, AccessTtl), refresh |-> Sign(account.ver, pw, RefreshTtl)]

(* issueTokens: for the version that was read. *)
Issue(read, pw) ==
  [access |-> Sign(read.ver, pw, AccessTtl), refresh |-> Sign(read.ver, pw, RefreshTtl)]

Record(read, pw) ==
  issued' = issued \cup {[ver |-> Issue(read, pw).access.ver, pw |-> pw]}

(* In some browser, not long ago. *)
SignedIn == \E token \in issued : token.ver = account.ver

(* Mutant of Logout: the console forgets its tokens, the server nothing. *)
LogoutForgotten == account' = account

Logout == account.ver < MaxVersion /\ account' = [account EXCEPT !.ver = @ + 1]

(* changePassword by whoever is signed in and knows the password. *)
ChangeRead ==
  /\ change = Null /\ account.ver < MaxVersion
  /\ SignedIn /\ change' = account
  /\ UNCHANGED <<account, issued, now>>

ChangeWrite ==
  /\ change # Null /\ account.ver < MaxVersion
  /\ account' = [ver |-> account.ver + 1, pw |-> account.pw + 1]
  /\ change' = Null
  /\ UNCHANGED <<issued, now>>

(* It fails, or somebody signs out in another browser. *)
ChangeFails == change # Null /\ change' = Null /\ UNCHANGED <<account, issued, now>>

LogoutElsewhere ==
  /\ SignedIn /\ Logout
  /\ UNCHANGED <<change, issued, now>>

Tick == now < MaxTime /\ now' = now + 1 /\ UNCHANGED <<account, change, issued>>

Elsewhere == ChangeRead \/ ChangeWrite \/ ChangeFails \/ LogoutElsewhere \/ Tick

-----------------------------------------------------------------------------
(* auth.service.ts:152: a changed password ends every session, those whose login
   or refresh was on its way when it changed included: who holds a live token
   has shown the password there is now. *)
LiveSessionsKnowThePassword ==
  \A token \in issued : token.ver = account.ver => token.pw = account.pw

=============================================================================
