----------------------------- MODULE Gateway_proofs -----------------------------
(* Theorems about Gateway, for every set of callers, administrators, secrets   *)
(* and grace periods and every signature window.                               *)
EXTENDS Gateway, FiniteSetTheorems, TLAPS

-----------------------------------------------------------------------------
(* The shape of the state the two theorems speak of.                           *)

Message == [age : Int, secret : Secrets]

Places == {"way", "nonce", "count", "expire ip", "gate", "run", "penalize", "expire miss", "done"}

GuardType ==
  /\ scene \in Scenes /\ scene.ahead \in Nat
  /\ copy \in [Copies -> Places]
  /\ msg \in [Callers -> Message] /\ held \in [Callers -> Secrets]
  /\ nonce \in [Callers -> Nat] /\ passed \in [Callers -> Nat]

LEMMA GuardTypeInit == Init => GuardType
<1> SUFFICES ASSUME Init PROVE GuardType
  OBVIOUS
<1>1. [age |-> Skew + 1, secret |-> 0] \in Message /\ 0 \in Secrets
  BY GatewayAssumption DEF GatewayAssumption, Message
<1>2. copy \in [Copies -> Places] /\ msg \in [Callers -> Message]
  BY <1>1 DEF Init, Places
<1>3. held \in [Callers -> Secrets] /\ nonce \in [Callers -> Nat] /\ passed \in [Callers -> Nat]
  BY <1>1 DEF Init
<1>4. scene \in Scenes /\ scene.ahead \in Nat
  BY GatewayAssumption DEF GatewayAssumption, Init
<1> QED
  BY <1>2, <1>3, <1>4 DEF GuardType

LEMMA GuardTypeStep == GuardType /\ [Next]_vars => GuardType'
<1> SUFFICES ASSUME GuardType, [Next]_vars PROVE GuardType'
  OBVIOUS
<1>0. Skew \in Nat \ {0}
  BY GatewayAssumption DEF GatewayAssumption
<1> USE DEF GuardType
<1>1. ASSUME NEW c \in Callers, Sign(c)
      PROVE  GuardType'
  <2>1. [age |-> -scene.ahead, secret |-> held[c]] \in Message
    BY DEF Message
  <2>2. copy' \in [Copies -> Places]
    BY <1>1 DEF Sign, Places
  <2> QED
    BY <1>1, <2>1, <2>2 DEF Sign
<1>2. ASSUME NEW c \in Callers, TakeUp(c)
      PROVE  GuardType'
  BY <1>2 DEF TakeUp
<1>3. ASSUME NEW d \in Copies, Redeliver(d) \/ Verify(d)
      PROVE  GuardType'
  BY <1>3 DEF Redeliver, Verify, Refuse, Goto, guardVars, Places
<1>4. ASSUME NEW d \in Copies, TakeNonce(d)
      PROVE  GuardType'
  <2>1. copy' \in [Copies -> Places] /\ UNCHANGED <<scene, msg, held>>
    BY <1>4 DEF TakeNonce, Refuse, Goto, Places
  <2>2. \/ UNCHANGED <<nonce, passed>>
        \/ nonce' = [nonce EXCEPT ![Of(d)] = Skew] /\ passed' = [passed EXCEPT ![Of(d)] = @ + 1]
    BY <1>4 DEF TakeNonce, NonceTtl
  <2>3. nonce' \in [Callers -> Nat] /\ passed' \in [Callers -> Nat]
    BY <1>0, <2>2
  <2> QED
    BY <2>1, <2>3
<1>5. ASSUME NEW d \in Copies, Handle(d) \/ Fail(d)
      PROVE  GuardType'
  BY <1>5 DEF Handle, Count, ExpireIp, Gate, Run, Penalize, ExpireMiss, Fail, Refuse, Goto, guardVars, Places
<1>6. ASSUME NEW a \in Admins, RotateRead(a) \/ RotateWrite(a)
      PROVE  GuardType'
  BY <1>6 DEF RotateRead, RotateWrite
<1>7. ASSUME Switch \/ UNCHANGED vars
      PROVE  GuardType'
  BY <1>7 DEF Switch, vars
<1>8. ASSUME Tick
      PROVE  GuardType'
  <2>0. nonce' = [c \in Callers |-> Less(nonce[c])]
    BY <1>8 DEF Tick
  <2>1. nonce' \in [Callers -> Nat]
    BY <2>0 DEF Less
  <2>2. ASSUME NEW c \in Callers
        PROVE  [msg[c] EXCEPT !.age = IF @ > Skew THEN @ ELSE @ + 1] \in Message
    BY DEF Message
  <2>3. msg' \in [Callers -> Message]
    BY <1>8, <2>2 DEF Tick
  <2> QED
    BY <1>8, <2>1, <2>3 DEF Tick
<1> QED
  BY <1>1, <1>2, <1>3, <1>4, <1>5, <1>6, <1>7, <1>8 DEF Next

LEMMA CopyOf == \A d \in Copies : Of(d) \in Callers
  BY DEF Copies, Of

-----------------------------------------------------------------------------
(* A request is let in as often as its nonce runs out while it is in the window.
   With what is left of the nonce its age exceeds the earliest age it can be let
   in at by one window for every time it was; and no time passes between the
   look at the timestamp and the look at the nonce.                           *)

Earliest == IF scene.ahead > Skew THEN -Skew ELSE 1 - scene.ahead

LookedAt(d) == copy[d] \notin {"way", "done"}

NonceLasts ==
  /\ \A d \in Copies : LookedAt(d) => msg[Of(d)].age >= Earliest
  /\ \A d \in Copies : copy[d] = "nonce" => msg[Of(d)].age <= Skew
  /\ \A c \in Callers :
       \/ passed[c] = 0
       \/ passed[c] \in 1 .. 3 /\ Earliest + (passed[c] - 1) * Skew <= Skew
          /\ (msg[c].age > Skew \/ nonce[c] + msg[c].age >= Earliest + passed[c] * Skew)

LEMMA EarliestType == GuardType => Earliest \in Int /\ Earliest >= -Skew /\ Earliest <= 1
<1>1. Skew \in Nat \ {0}
  BY GatewayAssumption DEF GatewayAssumption
<1> QED
  BY <1>1 DEF GuardType, Earliest

LEMMA NonceInit == Init => NonceLasts
<1> SUFFICES ASSUME Init PROVE NonceLasts
  OBVIOUS
<1>1. \A d \in Copies : copy[d] = "done"
  BY DEF Init
<1>2. \A c \in Callers : passed[c] = 0
  BY DEF Init
<1> QED
  BY <1>1, <1>2 DEF NonceLasts, LookedAt

LEMMA OtherPlace ==
  ASSUME GuardType, NonceLasts, NEW d \in Copies, NEW place \in Places \ {"nonce"},
         Goto(d, place), copy[d] \notin {"done", "way"} \/ place \in {"done", "way"},
         UNCHANGED <<scene, msg, nonce, passed>>
  PROVE  NonceLasts'
<1>1. \A e \in Copies : copy'[e] = IF e = d THEN place ELSE copy[e]
  BY DEF GuardType, Goto
<1>2. Earliest' = Earliest
  BY DEF Earliest
<1>3. \A e \in Copies : LookedAt(e)' => LookedAt(e)
  BY <1>1 DEF LookedAt
<1>4. \A e \in Copies : copy'[e] = "nonce" => copy[e] = "nonce"
  BY <1>1
<1> QED
  BY <1>2, <1>3, <1>4 DEF NonceLasts

(* A copy that finds the nonce gone is let in: the third condition of NonceLasts. *)
LEMMA OneMore ==
  ASSUME NEW k \in 0 .. 3, NEW first \in Int, NEW age \in Int, Skew \in Nat \ {0}, first >= -Skew,
         age <= Skew, age >= first, k = 0 \/ age >= first + k * Skew
  PROVE  k + 1 \in 1 .. 3 /\ first + ((k + 1) - 1) * Skew <= Skew
         /\ Skew + age >= first + (k + 1) * Skew
<1>1. CASE k = 0
  BY <1>1
<1>2. CASE k = 1
  BY <1>2
<1>3. CASE k = 2
  BY <1>3
<1>4. CASE k = 3
  BY <1>4
<1> QED
  BY <1>1, <1>2, <1>3, <1>4

LEMMA NonceStep == GuardType /\ NonceLasts /\ [Next]_vars => NonceLasts'
<1> SUFFICES ASSUME GuardType, NonceLasts, [Next]_vars PROVE NonceLasts'
  OBVIOUS
<1>0. Skew \in Nat \ {0} /\ Earliest \in Int /\ Earliest >= -Skew
  BY GatewayAssumption, EarliestType DEF GatewayAssumption
<1>1. ASSUME NEW c \in Callers, Sign(c)
      PROVE  NonceLasts'
  <2>1. \A d \in Copies : Of(d) = c => copy'[d] \in {"way", "done"}
    BY <1>1 DEF Sign
  <2>2. \A d \in Copies : Of(d) # c => copy'[d] = copy[d]
    BY <1>1 DEF Sign
  <2>3. \A b \in Callers \ {c} : passed'[b] = passed[b] /\ nonce'[b] = nonce[b] /\ msg'[b] = msg[b]
    BY <1>1 DEF Sign, GuardType
  <2>4. passed'[c] = 0
    BY <1>1 DEF Sign, GuardType
  <2>5. Earliest' = Earliest
    BY <1>1 DEF Sign, Earliest
  <2> QED
    BY CopyOf, <2>1, <2>2, <2>3, <2>4, <2>5 DEF NonceLasts, LookedAt
<1>2. ASSUME UNCHANGED <<scene, msg, nonce, passed, copy>>
      PROVE  NonceLasts'
  BY <1>2 DEF NonceLasts, LookedAt, Earliest
<1>3. ASSUME NEW d \in Copies, Verify(d)
      PROVE  NonceLasts'
  <2>1. UNCHANGED <<scene, msg, nonce, passed>>
    BY <1>3 DEF Verify
  <2>2. CASE Goto(d, "done")
    BY <2>1, <2>2, OtherPlace DEF Places
  <2>3. CASE ~Goto(d, "done")
    <3>1. /\ -Skew <= msg[Of(d)].age /\ msg[Of(d)].age <= Skew /\ msg[Of(d)].age > -scene.ahead
          /\ Goto(d, "nonce")
      BY <1>3, <2>3 DEF Verify, Refuse
    <3>2. msg[Of(d)].age \in Int /\ scene.ahead \in Nat
      BY CopyOf DEF GuardType, Message
    <3>3. msg[Of(d)].age >= Earliest
      BY <1>0, <3>1, <3>2 DEF Earliest
    <3>4. \A e \in Copies : copy'[e] = IF e = d THEN "nonce" ELSE copy[e]
      BY <3>1 DEF Goto, GuardType
    <3>5. Earliest' = Earliest
      BY <2>1 DEF Earliest
    <3> QED
      BY <2>1, <3>1, <3>3, <3>4, <3>5 DEF NonceLasts, LookedAt
  <2> QED
    BY <2>2, <2>3
<1>4. ASSUME NEW d \in Copies, TakeNonce(d)
      PROVE  NonceLasts'
  <2>1. CASE nonce[Of(d)] # 0
    <3>1. Goto(d, "done") /\ UNCHANGED <<scene, msg, nonce, passed>>
      BY <1>4, <2>1 DEF TakeNonce, Refuse
    <3> QED
      BY <3>1, OtherPlace DEF Places
  <2>2. CASE nonce[Of(d)] = 0
    <3> DEFINE c == Of(d)
               k == passed[c]
    <3>0. c \in Callers
      BY CopyOf
    <3>1. /\ msg[c].age \in Int /\ copy[d] = "nonce" /\ k \in 0 .. 3
          /\ msg[c].age >= Earliest /\ msg[c].age <= Skew
      BY <1>4, <3>0 DEF TakeNonce, NonceLasts, LookedAt, GuardType, Message
    <3>2. k = 0 \/ msg[c].age >= Earliest + k * Skew
      BY <1>0, <2>2, <3>0, <3>1 DEF NonceLasts
    <3>3. nonce' = [nonce EXCEPT ![c] = Skew] /\ passed' = [passed EXCEPT ![c] = @ + 1]
      BY <1>4, <2>2 DEF TakeNonce, NonceTtl
    <3>4. copy' = [copy EXCEPT ![d] = "count"] /\ msg' = msg /\ Earliest' = Earliest
      BY <1>4, <2>2 DEF TakeNonce, Goto, Earliest
    <3>5. nonce'[c] = Skew /\ passed'[c] = k + 1
      BY <3>0, <3>3 DEF GuardType
    <3>6. \A b \in Callers \ {c} : passed'[b] = passed[b] /\ nonce'[b] = nonce[b]
      BY <3>3 DEF GuardType
    <3>7. \A e \in Copies : copy'[e] = IF e = d THEN "count" ELSE copy[e]
      BY <3>4 DEF GuardType
    <3>8. k + 1 \in 1 .. 3 /\ Earliest + ((k + 1) - 1) * Skew <= Skew
          /\ Skew + msg[c].age >= Earliest + (k + 1) * Skew
      <4> HIDE DEF c, k
      <4> QED
        BY <1>0, <3>1, <3>2, OneMore
    <3>9. /\ passed'[c] \in 1 .. 3 /\ Earliest' + (passed'[c] - 1) * Skew <= Skew
          /\ nonce'[c] + msg'[c].age >= Earliest' + passed'[c] * Skew
      <4> HIDE DEF c, k
      <4> QED
        BY <3>4, <3>5, <3>8
    <3>10. \A e \in Copies : LookedAt(e)' => msg'[Of(e)].age >= Earliest'
      BY <3>1, <3>4, <3>7 DEF NonceLasts, LookedAt
    <3>11. \A e \in Copies : copy'[e] = "nonce" => msg'[Of(e)].age <= Skew
      BY <3>4, <3>7 DEF NonceLasts
    <3>12. \A b \in Callers \ {c} :
             \/ passed'[b] = 0
             \/ passed'[b] \in 1 .. 3 /\ Earliest' + (passed'[b] - 1) * Skew <= Skew
                /\ (msg'[b].age > Skew \/ nonce'[b] + msg'[b].age >= Earliest' + passed'[b] * Skew)
      BY <3>4, <3>6 DEF NonceLasts
    <3> HIDE DEF c, k
    <3> QED
      BY <3>9, <3>10, <3>11, <3>12 DEF NonceLasts
  <2> QED
    BY <2>1, <2>2
<1>5. ASSUME NEW d \in Copies, Redeliver(d) \/ Handle(d) \/ Fail(d)
      PROVE  NonceLasts'
  <2>1. CASE Redeliver(d)
    <3>1. Goto(d, "way") /\ UNCHANGED <<scene, msg, nonce, passed>>
      BY <2>1 DEF Redeliver, guardVars
    <3> QED
      BY <3>1, OtherPlace DEF Places
  <2>2. CASE Handle(d) \/ Fail(d)
    <3>1. PICK place \in Places \ {"way", "nonce"} : Goto(d, place)
      BY <2>2 DEF Handle, Count, ExpireIp, Gate, Run, Penalize, ExpireMiss, Fail, Refuse, Places
    <3>2. copy[d] \notin {"done", "way"} /\ UNCHANGED <<scene, msg, nonce, passed>>
      BY <2>2 DEF Handle, Count, ExpireIp, Gate, Run, Penalize, ExpireMiss, Fail, guardVars
    <3> QED
      BY <3>1, <3>2, OtherPlace
  <2> QED
    BY <1>5, <2>1, <2>2
<1>6. ASSUME Tick
      PROVE  NonceLasts'
  <2>1. ASSUME NEW c \in Callers
        PROVE  /\ msg[c].age \in Int /\ nonce[c] \in Nat
               /\ msg'[c].age = (IF msg[c].age > Skew THEN msg[c].age ELSE msg[c].age + 1)
               /\ nonce'[c] = (IF nonce[c] = 0 THEN 0 ELSE nonce[c] - 1)
    BY <1>6 DEF Tick, Less, GuardType, Message
  <2>2. /\ copy' = copy /\ passed' = passed /\ \A e \in Copies : copy[e] # "nonce"
        /\ Earliest' = Earliest
    BY <1>6 DEF Tick, Earliest
  <2>3. \A c \in Callers : msg'[c].age >= msg[c].age /\ (msg[c].age > Skew => msg'[c].age > Skew)
                           /\ (msg[c].age <= Skew => nonce'[c] + msg'[c].age >= nonce[c] + msg[c].age)
    BY <1>0, <2>1
  <2>4. \A e \in Copies : LookedAt(e)' => msg'[Of(e)].age >= Earliest'
    BY <1>0, <2>1, <2>2, <2>3, CopyOf DEF NonceLasts, LookedAt
  <2>5. ASSUME NEW c \in Callers, passed[c] # 0
        PROVE  msg'[c].age > Skew \/ nonce'[c] + msg'[c].age >= Earliest + passed[c] * Skew
    <3>1. msg[c].age > Skew \/ nonce[c] + msg[c].age >= Earliest + passed[c] * Skew
      BY <2>5 DEF NonceLasts
    <3>2. passed[c] * Skew \in Int /\ msg'[c].age \in Int /\ nonce'[c] \in Int
      BY <1>0, <2>1 DEF GuardType
    <3> DEFINE m == passed[c] * Skew
    <3> HIDE DEF m
    <3>3. m \in Int /\ (msg[c].age > Skew \/ nonce[c] + msg[c].age >= Earliest + m)
      BY <3>1, <3>2 DEF m
    <3>4. msg'[c].age > Skew \/ nonce'[c] + msg'[c].age >= Earliest + m
      BY <1>0, <2>1, <2>3, <3>2, <3>3
    <3> QED
      BY <3>4 DEF m
  <2> QED
    BY <2>2, <2>4, <2>5 DEF NonceLasts
<1>7. ASSUME NEW a \in Admins, RotateRead(a) \/ RotateWrite(a)
      PROVE  NonceLasts'
  BY <1>2, <1>7 DEF RotateRead, RotateWrite
<1> QED
  BY <1>1, <1>2, <1>3, <1>4, <1>5, <1>6, <1>7 DEF Next, TakeUp, Switch, vars

(* However often and however late the network delivers a signed request, and
   whatever fails at the server, it is let in at most once if its stamp is not
   ahead of the server's clock, at most twice if it is ahead by no more than the
   window, and at most three times however far it is ahead.                    *)
THEOREM CopiesAreBounded == Spec => []AdmissionsFitTheWindow
<1>1. GuardType /\ NonceLasts => AdmissionsFitTheWindow
  <2> SUFFICES ASSUME GuardType, NonceLasts, NEW c \in Callers
               PROVE  passed[c] <= IF scene.ahead = 0 THEN 1 ELSE IF scene.ahead <= Skew THEN 2 ELSE 3
    BY DEF AdmissionsFitTheWindow
  <2>1. Skew \in Nat \ {0} /\ scene.ahead \in Nat
    BY GatewayAssumption DEF GatewayAssumption, GuardType
  <2>2. \/ passed[c] = 0
        \/ passed[c] \in 1 .. 3 /\ Earliest + (passed[c] - 1) * Skew <= Skew
    BY DEF NonceLasts
  <2>3. CASE passed[c] \in {0, 1}
    BY <2>1, <2>3
  <2>4. CASE passed[c] = 2
    <3>1. Earliest + Skew <= Skew
      BY <2>1, <2>2, <2>4, EarliestType
    <3> QED
      BY <2>1, <2>4, <3>1, EarliestType DEF Earliest
  <2>5. CASE passed[c] = 3
    <3>1. Earliest + 2 * Skew <= Skew
      BY <2>1, <2>2, <2>5, EarliestType
    <3> QED
      BY <2>1, <2>5, <3>1, EarliestType DEF Earliest
  <2> QED
    BY <2>2, <2>3, <2>4, <2>5
<1> QED
  BY GuardTypeInit, GuardTypeStep, NonceInit, NonceStep, <1>1, PTL DEF Spec

-----------------------------------------------------------------------------
(* Nobody is cut off. While rotations keep their distance, the secrets that were
   said to work are the row's two: the current one, and the previous one for as
   long as it was said to. A rotation in progress has read the current one.    *)

SecretType ==
  /\ plugin \in [on : BOOLEAN, secret : Secrets, prev : Secrets \cup {Null}, left : Nat]
  /\ job \in [Admins -> Secrets \cup {Null}] /\ word \in [Secrets -> Nat]

LEMMA ForeverIsLonger == Forever \in Nat /\ \A n \in Grace : n < Forever /\ n \in Nat
<1>1. PICK top \in Grace : \A m \in Grace : m <= top
  BY GatewayAssumption DEF GatewayAssumption
<1> DEFINE longest == CHOOSE n \in Grace : \A m \in Grace : m <= n
<1>2. longest \in Grace /\ \A m \in Grace : m <= longest
  BY <1>1
<1>3. Grace \subseteq Nat /\ Forever = 1 + longest
  BY GatewayAssumption DEF GatewayAssumption, Forever
<1> HIDE DEF longest
<1> QED
  BY <1>2, <1>3

LEMMA SecretTypeInit == Init => SecretType
<1> SUFFICES ASSUME Init PROVE SecretType
  OBVIOUS
<1>1. 0 \in Secrets
  BY GatewayAssumption DEF GatewayAssumption
<1>2. word \in [Secrets -> Nat]
  BY ForeverIsLonger DEF Init
<1>3. plugin = [on |-> TRUE, secret |-> 0, prev |-> Null, left |-> 0] /\ job = [a \in Admins |-> Null]
  BY DEF Init
<1> QED
  BY <1>1, <1>2, <1>3 DEF SecretType

LEMMA SecretTypeStep == SecretType /\ [Next]_vars => SecretType'
<1> SUFFICES ASSUME SecretType, [Next]_vars PROVE SecretType'
  OBVIOUS
<1>1. ASSUME UNCHANGED <<plugin, job, word>>
      PROVE  SecretType'
  BY <1>1 DEF SecretType
<1>2. ASSUME NEW a \in Admins, RotateRead(a)
      PROVE  SecretType'
  BY <1>2 DEF RotateRead, SecretType
<1>3. ASSUME NEW a \in Admins, RotateWrite(a)
      PROVE  SecretType'
  <2>1. PICK fresh \in Secrets, grace \in Grace :
          /\ plugin' = [plugin EXCEPT !.secret = fresh, !.left = grace,
                                      !.prev = IF grace > 0 THEN job[a] ELSE Null]
          /\ word' = [word EXCEPT ![fresh] = Forever, ![job[a]] = grace]
    BY <1>3 DEF RotateWrite
  <2>2. grace \in Nat /\ Forever \in Nat
    BY ForeverIsLonger
  <2>3. job[a] \in Secrets /\ job' = [job EXCEPT ![a] = Null]
    BY <1>3 DEF RotateWrite, SecretType
  <2>4. word' \in [Secrets -> Nat]
    BY <2>1, <2>2, <2>3 DEF SecretType
  <2>5. plugin' \in [on : BOOLEAN, secret : Secrets, prev : Secrets \cup {Null}, left : Nat]
    BY <2>1, <2>2, <2>3 DEF SecretType
  <2> QED
    BY <2>3, <2>4, <2>5 DEF SecretType
<1>4. ASSUME Switch
      PROVE  SecretType'
  BY <1>4 DEF Switch, SecretType
<1>5. ASSUME Tick
      PROVE  SecretType'
  <2>1. job' = job /\ plugin' = [plugin EXCEPT !.left = Less(@)]
    BY <1>5 DEF Tick
  <2>2. word' = [s \in Secrets |-> IF word[s] = Forever THEN Forever ELSE Less(word[s])]
    BY <1>5 DEF Tick
  <2>3. \A n \in Nat : Less(n) \in Nat
    BY DEF Less
  <2>4. word' \in [Secrets -> Nat]
    BY <2>2, <2>3, ForeverIsLonger DEF SecretType
  <2> QED
    BY <2>1, <2>3, <2>4 DEF SecretType
<1>6. ASSUME NEW d \in Copies, Redeliver(d) \/ Verify(d) \/ TakeNonce(d) \/ Handle(d) \/ Fail(d)
      PROVE  UNCHANGED <<plugin, job, word>>
  BY <1>6 DEF Redeliver, Verify, TakeNonce, Handle, Count, ExpireIp, Gate, Run, Penalize, ExpireMiss, Fail, guardVars
<1>7. ASSUME NEW c \in Callers, Sign(c) \/ TakeUp(c)
      PROVE  UNCHANGED <<plugin, job, word>>
  BY <1>7 DEF Sign, TakeUp
<1> QED
  BY <1>1, <1>2, <1>3, <1>4, <1>5, <1>6, <1>7 DEF Next, vars

Promises ==
  /\ \A s \in Secrets : word[s] > 0 =>
       \/ s = plugin.secret
       \/ s = plugin.prev /\ plugin.left = word[s] /\ word[s] < Forever
  /\ \A a \in Admins : job[a] # Null => job[a] = plugin.secret /\ plugin.left = 0
  /\ \A a, b \in Admins : job[a] # Null /\ job[b] # Null => a = b

Kept == hurried \/ (~cut /\ Promises)

LEMMA KeptInit == Init => Kept
<1> SUFFICES ASSUME Init PROVE Kept
  OBVIOUS
<1>1. plugin.secret = 0 /\ ~cut /\ \A a \in Admins : job[a] = Null
  BY DEF Init
<1>2. \A s \in Secrets : word[s] > 0 => s = 0
  BY DEF Init
<1> QED
  BY <1>1, <1>2 DEF Kept, Promises

LEMMA KeptStep == GuardType /\ SecretType /\ Kept /\ [Next]_vars => Kept'
<1> SUFFICES ASSUME GuardType, SecretType, Kept, [Next]_vars PROVE Kept'
  OBVIOUS
<1>0. Null \notin Secrets
  BY GatewayAssumption, RateLimitAssumption DEF GatewayAssumption, RateLimitAssumption
<1>1. ASSUME UNCHANGED <<plugin, job, word, hurried, cut>>
      PROVE  Kept'
  BY <1>1 DEF Kept, Promises
<1>2. ASSUME NEW d \in Copies, Verify(d)
      PROVE  Kept'
  <2>1. UNCHANGED <<plugin, job, word, hurried>>
    BY <1>2 DEF Verify
  <2>2. CASE hurried
    BY <2>1, <2>2 DEF Kept
  <2>3. CASE ~hurried
    <3>1. msg[Of(d)].secret \in Secrets /\ Promises /\ ~cut
      BY <2>3, CopyOf DEF GuardType, Message, Kept
    <3>2. word[msg[Of(d)].secret] > 0 => Valid(msg[Of(d)].secret)
      BY <3>1 DEF Promises, Valid, SecretType
    <3>3. ~cut'
      BY <1>2, <3>1, <3>2 DEF Verify
    <3> QED
      BY <2>1, <3>1, <3>3 DEF Kept, Promises
  <2> QED
    BY <2>2, <2>3
<1>3. ASSUME NEW a \in Admins, RotateRead(a)
      PROVE  Kept'
  <2>1. CASE hurried'
    BY <2>1 DEF Kept
  <2>2. CASE ~hurried'
    <3>0. ~(plugin.left > 0) /\ ~hurried /\ \A b \in Admins : job[b] = Null
      BY <1>3, <2>2, Zenon DEF RotateRead
    <3>1. plugin.left = 0 /\ ~hurried /\ \A b \in Admins : job[b] = Null
      BY <3>0 DEF SecretType
    <3>2. \A b \in Admins : job'[b] = IF b = a THEN plugin.secret ELSE Null
      BY <1>3, <3>1 DEF RotateRead, SecretType
    <3>3. UNCHANGED <<plugin, word, cut>>
      BY <1>3 DEF RotateRead
    <3> QED
      BY <3>1, <3>2, <3>3 DEF Kept, Promises
  <2> QED
    BY <2>1, <2>2
<1>4. ASSUME NEW a \in Admins, RotateWrite(a)
      PROVE  Kept'
  <2>1. CASE hurried
    BY <1>4, <2>1 DEF RotateWrite, Kept
  <2>2. CASE ~hurried
    <3>1. PICK fresh \in Secrets, grace \in Grace :
            /\ fresh # plugin.secret
            /\ plugin' = [plugin EXCEPT !.secret = fresh, !.left = grace,
                                        !.prev = IF grace > 0 THEN job[a] ELSE Null]
            /\ word' = [word EXCEPT ![fresh] = Forever, ![job[a]] = grace]
      BY <1>4 DEF RotateWrite, Used
    <3>2. /\ job[a] = plugin.secret /\ plugin.left = 0 /\ Promises /\ ~cut
          /\ \A b \in Admins \ {a} : job[b] = Null
      BY <1>4, <2>2 DEF RotateWrite, Kept, Promises
    <3>3. \A b \in Admins : job'[b] = Null
      BY <1>4, <3>2 DEF RotateWrite, SecretType
    <3>4. plugin.secret \in Secrets /\ grace \in Nat /\ grace < Forever /\ Forever \in Nat
      BY ForeverIsLonger DEF SecretType
    <3>5. /\ plugin'.secret = fresh /\ plugin'.left = grace
          /\ grace > 0 => plugin'.prev = plugin.secret
      BY <3>1, <3>2 DEF SecretType
    <3>6. /\ word'[fresh] = Forever /\ word'[plugin.secret] = grace
          /\ \A s \in Secrets \ {fresh, plugin.secret} : word'[s] = word[s]
      BY <3>1, <3>2, <3>4 DEF SecretType
    <3>7. \A s \in Secrets \ {plugin.secret} : ~(word[s] > 0)
      BY <3>2 DEF Promises, SecretType
    <3>8. UNCHANGED <<cut, hurried>>
      BY <1>4 DEF RotateWrite
    <3>9. \A s \in Secrets : word'[s] > 0 =>
            \/ s = plugin'.secret
            \/ s = plugin'.prev /\ plugin'.left = word'[s] /\ word'[s] < Forever
      BY <3>4, <3>5, <3>6, <3>7
    <3> QED
      BY <3>2, <3>3, <3>8, <3>9 DEF Kept, Promises
  <2> QED
    BY <2>1, <2>2
<1>5. ASSUME Switch
      PROVE  Kept'
  <2>1. plugin'.secret = plugin.secret /\ plugin'.prev = plugin.prev /\ plugin'.left = plugin.left
    BY <1>5 DEF Switch, SecretType
  <2>2. UNCHANGED <<job, word, hurried, cut>>
    BY <1>5 DEF Switch
  <2> QED
    BY <2>1, <2>2 DEF Kept, Promises
<1>6. ASSUME Tick
      PROVE  Kept'
  <2>1. CASE hurried
    BY <1>6, <2>1 DEF Tick, Kept
  <2>2. CASE ~hurried
    <3>1. plugin' = [plugin EXCEPT !.left = Less(@)] /\ UNCHANGED <<job, hurried, cut>>
      BY <1>6 DEF Tick
    <3>2. plugin'.secret = plugin.secret /\ plugin'.prev = plugin.prev /\ plugin'.left = Less(plugin.left)
      BY <3>1 DEF SecretType
    <3>3. ASSUME NEW s \in Secrets
          PROVE  word'[s] = (IF word[s] = Forever THEN Forever ELSE Less(word[s])) /\ word[s] \in Nat
      BY <1>6 DEF Tick, SecretType
    <3>4. Less(0) = 0 /\ \A n \in Nat : Less(n) <= n /\ Less(n) \in Nat
      BY DEF Less
    <3>5. ASSUME NEW s \in Secrets, word'[s] > 0
          PROVE  \/ s = plugin'.secret
                 \/ s = plugin'.prev /\ plugin'.left = word'[s] /\ word'[s] < Forever
      <4>1. word[s] > 0
        BY <3>3, <3>4, <3>5, ForeverIsLonger
      <4>2. CASE s = plugin.secret
        BY <3>2, <4>2
      <4>3. CASE s = plugin.prev /\ plugin.left = word[s] /\ word[s] < Forever
        BY <3>2, <3>3, <3>4, <4>3, ForeverIsLonger
      <4> QED
        BY <2>2, <4>1, <4>2, <4>3 DEF Kept, Promises
    <3> QED
      BY <2>2, <3>1, <3>2, <3>4, <3>5 DEF Kept, Promises
  <2> QED
    BY <2>1, <2>2
<1>7. ASSUME NEW d \in Copies, TakeNonce(d) \/ Handle(d) \/ Fail(d)
      PROVE  UNCHANGED <<plugin, job, word, hurried, cut>>
  BY <1>7 DEF TakeNonce, Handle, Count, ExpireIp, Gate, Run, Penalize, ExpireMiss, Fail, guardVars
<1>8. ASSUME NEW c \in Callers, Sign(c) \/ TakeUp(c)
      PROVE  UNCHANGED <<plugin, job, word, hurried, cut>>
  BY <1>8 DEF Sign, TakeUp
<1>9. ASSUME NEW d \in Copies, Redeliver(d)
      PROVE  UNCHANGED <<plugin, job, word, hurried, cut>>
  BY <1>9 DEF Redeliver, guardVars
<1> QED
  BY <1>1, <1>2, <1>3, <1>4, <1>5, <1>6, <1>7, <1>8, <1>9 DEF Next, vars

(* A client that signs with a secret rotateSecret said would still work is not
   refused for it, at whatever moment it takes up the new one, as long as no
   rotation follows another within its grace or runs beside one.              *)
THEOREM PromisedSecretsWork == Spec => []NobodyIsCutOff
<1>1. Kept => NobodyIsCutOff
  BY DEF Kept, NobodyIsCutOff
<1> QED
  BY GuardTypeInit, GuardTypeStep, SecretTypeInit, SecretTypeStep, KeptInit, KeptStep, <1>1, PTL DEF Spec

-----------------------------------------------------------------------------
(* Failed activations. A caller past the gate is counted in advance: with those
   the counter never exceeds the limit by as many as there are callers.        *)

Beyond == {c \in Callers : copy[<<c, 1>>] \in {"run", "penalize"}}

CounterType ==
  scene \in Scenes /\ counter \in [Keys -> [n : Nat, left : (Nat \ {0}) \cup {Null}]]

Limited == scene.limits

MissInv ==
  /\ Limited => /\ \A c \in Callers : copy[<<c, 2>>] = "done"
                /\ counter["miss"].n + Cardinality(Beyond) <= Limit["miss"] + Cardinality(Callers) - 1
  /\ ~Limited => counter["miss"].n = 0 /\ \A d \in Copies : copy[d] # "penalize"

LEMMA Constants ==
  /\ "ip" \in Keys /\ "miss" \in Keys /\ \A k \in Keys : Limit[k] \in Nat /\ Window[k] \in Nat \ {0} /\ Cap \in Nat
  /\ IsFiniteSet(Callers) /\ Cardinality(Callers) \in Nat \ {0}
<1>1. IsFiniteSet(Callers) /\ Callers # {}
  BY GatewayAssumption DEF GatewayAssumption
<1>2. Cardinality(Callers) \in Nat \ {0}
  BY <1>1, FS_CardinalityType, FS_EmptySet
<1> QED
  BY <1>1, <1>2, GatewayAssumption, RateLimitAssumption DEF GatewayAssumption, RateLimitAssumption

LEMMA BeyondFinite ==
  /\ IsFiniteSet(Beyond) /\ Cardinality(Beyond) \in Nat
  /\ \A c \in Callers \ Beyond : Cardinality(Beyond) < Cardinality(Callers)
<1>1. Beyond \in SUBSET Callers
  BY DEF Beyond
<1>2. IsFiniteSet(Beyond) /\ Cardinality(Beyond) \in Nat /\ Cardinality(Beyond) <= Cardinality(Callers)
  BY <1>1, Constants, FS_Subset, FS_CardinalityType
<1>3. Cardinality(Callers) = Cardinality(Beyond) => Callers = Beyond
  BY <1>1, Constants, FS_Subset
<1> QED
  BY <1>2, <1>3, Constants

LEMMA BeyondMoves ==
  ASSUME GuardType, NEW c \in Callers, NEW place \in Places, Goto(<<c, 1>>, place)
  PROVE  /\ place \notin {"run", "penalize"} => Cardinality(Beyond') <= Cardinality(Beyond)
         /\ c \in Beyond => Cardinality(Beyond') <= Cardinality(Beyond)
         /\ c \in Beyond /\ place \notin {"run", "penalize"} => Cardinality(Beyond') = Cardinality(Beyond) - 1
         /\ Cardinality(Beyond') <= Cardinality(Beyond) + 1
         /\ Cardinality(Beyond') \in Nat
         /\ \A b \in Callers : copy'[<<b, 2>>] = copy[<<b, 2>>]
<1>1. \A b \in Callers : <<b, 1>> \in Copies /\ <<b, 2>> \in Copies
  BY DEF Copies
<1>2. /\ \A b \in Callers : copy'[<<b, 1>>] = IF b = c THEN place ELSE copy[<<b, 1>>]
      /\ \A b \in Callers : copy'[<<b, 2>>] = copy[<<b, 2>>]
  <2>1. \A d \in Copies : copy'[d] = IF d = <<c, 1>> THEN place ELSE copy[d]
    BY DEF GuardType, Goto
  <2>2. \A b \in Callers : (<<b, 1>> = <<c, 1>> <=> b = c) /\ <<b, 2>> # <<c, 1>>
    OBVIOUS
  <2> QED
    BY <1>1, <2>1, <2>2
<1>3. CASE place \in {"run", "penalize"}
  <2>1. Beyond' = Beyond \cup {c}
    BY <1>2, <1>3 DEF Beyond
  <2>2. Cardinality(Beyond') = IF c \in Beyond THEN Cardinality(Beyond) ELSE Cardinality(Beyond) + 1
    BY <2>1, BeyondFinite, FS_AddElement
  <2> QED
    BY <1>2, <1>3, <2>2, BeyondFinite
<1>4. CASE place \notin {"run", "penalize"}
  <2>1. Beyond' = Beyond \ {c}
    BY <1>2, <1>4 DEF Beyond
  <2>2. Cardinality(Beyond') = IF c \in Beyond THEN Cardinality(Beyond) - 1 ELSE Cardinality(Beyond)
    BY <2>1, BeyondFinite, FS_RemoveElement
  <2>3. c \in Beyond => Cardinality(Beyond) # 0
    BY BeyondFinite, FS_EmptySet
  <2> QED
    BY <1>2, <1>4, <2>2, <2>3, BeyondFinite
<1> QED
  BY <1>3, <1>4

LEMMA MissInit == Init => CounterType /\ MissInv
<1> SUFFICES ASSUME Init PROVE CounterType /\ MissInv
  OBVIOUS
<1>1. CounterType
  BY DEF Init, CountersInit, Zero, CounterType
<1>2. Beyond = {} /\ \A c \in Callers : copy[<<c, 2>>] = "done"
  BY DEF Beyond, Init, Copies
<1>3. counter["miss"].n = 0 /\ \A d \in Copies : copy[d] # "penalize"
  BY Constants DEF Init, CountersInit, Zero
<1> QED
  BY <1>1, <1>2, <1>3, Constants, FS_EmptySet DEF MissInv

LEMMA CounterStep == CounterType /\ [Next]_vars => CounterType'
<1> SUFFICES ASSUME CounterType, [Next]_vars PROVE CounterType'
  OBVIOUS
<1> USE Constants DEF CounterType
<1>1. ASSUME NEW k \in Keys, Incr(k) PROVE counter' \in [Keys -> [n : Nat, left : (Nat \ {0}) \cup {Null}]]
  BY <1>1 DEF Incr
<1>2. ASSUME NEW k \in Keys, Expire(k) PROVE counter' \in [Keys -> [n : Nat, left : (Nat \ {0}) \cup {Null}]]
  BY <1>2 DEF Expire
<1>3. ASSUME Tick PROVE counter' \in [Keys -> [n : Nat, left : (Nat \ {0}) \cup {Null}]]
  <2>1. ASSUME NEW k \in Keys
        PROVE  Aged[k] \in [n : Nat, left : (Nat \ {0}) \cup {Null}]
    <3>1. CASE counter[k].left = Null
      BY <3>1 DEF Aged
    <3>2. CASE counter[k].left = 1
      <4>1. counter[k].left # Null
        BY <3>2, RateLimitAssumption DEF RateLimitAssumption
      <4>2. Aged[k] = Zero
        BY <3>2, <4>1 DEF Aged, Older
      <4> QED
        BY <4>2 DEF Zero
    <3>3. CASE counter[k].left \notin {Null, 1}
      <4>1. counter[k].left \in Nat \ {0} /\ counter[k].left - 1 \in Nat \ {0}
        BY <3>3
      <4>2. Aged[k] = [counter[k] EXCEPT !.left = counter[k].left - 1]
        BY <3>3 DEF Aged, Older
      <4> QED
        BY <4>1, <4>2
    <3> QED
      BY <3>1, <3>2, <3>3
  <2>2. counter' = [k \in Keys |-> IF counter[k].left = Null THEN counter[k] ELSE Older(counter[k])]
    BY <1>3 DEF Tick, Aged
  <2>3. \A k \in Keys : counter'[k] \in [n : Nat, left : (Nat \ {0}) \cup {Null}]
    BY <2>1, <2>2 DEF Aged
  <2>4. counter' = [k \in Keys |-> counter'[k]]
    BY <2>2
  <2> QED
    BY <2>3, <2>4
<1>4. UNCHANGED scene
  BY DEF Next, vars, Sign, TakeUp, Redeliver, Verify, TakeNonce, Handle, Count, ExpireIp, Gate, Run, Penalize, ExpireMiss,
         Fail, RotateRead, RotateWrite, Switch, Tick
<1>5. UNCHANGED counter \/ Tick \/ \E k \in Keys : Incr(k) \/ Expire(k)
  BY DEF Next, vars, Sign, TakeUp, Redeliver, Verify, TakeNonce, Handle, Count, ExpireIp, Gate, Run, Penalize, ExpireMiss,
         Fail, RotateRead, RotateWrite, Switch
<1> QED
  BY <1>1, <1>2, <1>3, <1>4, <1>5

LEMMA LimitedStays ==
  ASSUME CounterType, UNCHANGED scene
  PROVE  /\ Limited \in BOOLEAN /\ Limited' = Limited
         /\ Limited => scene.copies = 1
<1>1. scene \in [callers : SUBSET Callers, copies : 1 .. 2, limits : BOOLEAN, admins : SUBSET Admins,
                    ahead : Nat]
  BY GatewayAssumption DEF GatewayAssumption, CounterType
<1> QED
  BY <1>1, GatewayAssumption DEF GatewayAssumption, CounterType, Limited

LEMMA OneForAnother ==
  ASSUME NEW m \in Nat, NEW n \in Nat, NEW x \in Nat, NEW y \in Nat, NEW b \in Nat,
         m <= n + 1, y = x - 1, n + x <= b
  PROVE  m + y <= b
<1>1. y + 1 = x
  OBVIOUS
<1>2. m + y <= (n + 1) + y
  OBVIOUS
<1> QED
  BY <1>1, <1>2

LEMMA MissStep == GuardType /\ CounterType /\ MissInv /\ [Next]_vars => MissInv'
<1> SUFFICES ASSUME GuardType, CounterType, MissInv, [Next]_vars PROVE MissInv'
  OBVIOUS
<1> DEFINE Bound == Limit["miss"] + Cardinality(Callers) - 1
<1>0. /\ Bound \in Nat /\ Cap \in Nat /\ Limit["miss"] \in Nat /\ "miss" \in Keys /\ "ip" \in Keys
      /\ counter["miss"].n \in Nat /\ Cardinality(Beyond) \in Nat
  BY Constants, BeyondFinite DEF CounterType
<1>1. \A d \in Copies : \E c \in Callers : d \in {<<c, 1>>, <<c, 2>>} /\ Of(d) = c
  BY DEF Copies, Of
<1>2. ASSUME NEW c \in Callers, Sign(c)
      PROVE  MissInv'
  <2>1. /\ UNCHANGED <<counter, scene>>
        /\ copy' = [d \in Copies |-> IF Of(d) # c THEN copy[d]
                                      ELSE IF d[2] <= scene.copies THEN "way" ELSE "done"]
        /\ \A d \in Copies : Of(d) = c => copy[d] \in {"way", "done"}
    BY <1>2 DEF Sign
  <2>0. Limited \in BOOLEAN /\ Limited' = Limited /\ (Limited => scene.copies = 1)
    BY <2>1, LimitedStays
  <2>2. \A b \in Callers : <<b, 1>> \in Copies /\ <<b, 2>> \in Copies /\ Of(<<b, 1>>) = b /\ Of(<<b, 2>>) = b
    BY DEF Copies, Of
  <2>3. \A b \in Callers : copy'[<<b, 1>>] = copy[<<b, 1>>]
                            \/ {copy'[<<b, 1>>], copy[<<b, 1>>]} \subseteq {"way", "done"}
    BY <2>1, <2>2
  <2>4. Beyond' = Beyond
    BY <2>3 DEF Beyond
  <2>5. Limited => \A b \in Callers : copy[<<b, 2>>] = "done" => copy'[<<b, 2>>] = "done"
    <3>1. ASSUME NEW b \in Callers, scene.copies = 1, copy[<<b, 2>>] = "done"
          PROVE  copy'[<<b, 2>>] = "done"
      <4>1. <<b, 2>>[2] = 2 /\ ~(2 <= scene.copies)
        BY <3>1
      <4>2. copy'[<<b, 2>>] = IF Of(<<b, 2>>) # c THEN copy[<<b, 2>>]
                              ELSE IF 2 <= scene.copies THEN "way" ELSE "done"
        BY <2>1, <2>2, <4>1
      <4> QED
        BY <3>1, <4>1, <4>2
    <3> QED
      BY <2>0, <3>1
  <2>6. \A d \in Copies : copy[d] # "penalize" => copy'[d] # "penalize"
    BY <2>1
  <2> QED
    BY <2>0, <2>1, <2>4, <2>5, <2>6 DEF MissInv
<1>3. ASSUME NEW d \in Copies, Verify(d) \/ TakeNonce(d) \/ Handle(d) \/ Fail(d), Limited
      PROVE  MissInv'
  <2>1. copy[d] # "done" /\ UNCHANGED scene /\ Limited' = Limited
    BY <1>3, LimitedStays DEF Verify, TakeNonce, Handle, Count, ExpireIp, Gate, Run, Penalize, ExpireMiss, Fail
  <2>2. PICK c \in Callers : d = <<c, 1>> /\ <<c, 1>> \in Copies
    BY <1>1, <1>3, <2>1 DEF MissInv
  <2>3. counter["miss"].n + Cardinality(Beyond) <= Bound /\ \A b \in Callers : copy[<<b, 2>>] = "done"
    BY <1>3 DEF MissInv
  <2>4. ASSUME NEW place \in Places, Goto(d, place),
               counter'["miss"].n + Cardinality(Beyond') <= Bound
        PROVE  MissInv'
    BY <1>3, <2>1, <2>2, <2>3, <2>4, BeyondMoves DEF MissInv
  <2>5. ASSUME NEW place \in Places \ {"run", "penalize"}, Goto(d, place), counter'["miss"].n = counter["miss"].n
        PROVE  MissInv'
    BY <1>0, <2>2, <2>3, <2>4, <2>5, BeyondMoves
  <2>6. CASE Verify(d) \/ TakeNonce(d) \/ Fail(d)
    BY <2>5, <2>6 DEF Verify, TakeNonce, Fail, Refuse, Places
  <2>7. CASE Count(d)
    <3>1. counter'["miss"].n = counter["miss"].n
      BY <1>0, <1>3, <2>7 DEF Count, Incr, CounterType
    <3>2. \E place \in {"expire ip", "done", "gate"} : Goto(d, place)
      BY <1>3, <2>7, Zenon DEF Count, Refuse, Limited
    <3> QED
      BY <2>5, <3>1, <3>2 DEF Places
  <2>8. CASE ExpireIp(d) \/ ExpireMiss(d)
    <3>1. counter'["miss"].n = counter["miss"].n
      BY <1>0, <2>8 DEF ExpireIp, ExpireMiss, Expire, CounterType
    <3> QED
      BY <2>5, <2>8, <3>1 DEF ExpireIp, ExpireMiss, Places
  <2>9. CASE Gate(d)
    <3>1. CASE Closed("miss")
      BY <2>5, <2>9, <3>1 DEF Gate, Refuse, Places
    <3>2. CASE ~Closed("miss")
      <4>1. Goto(d, "run") /\ counter["miss"].n < Limit["miss"] /\ counter' = counter /\ c \notin Beyond
        BY <1>0, <2>2, <2>9, <3>2 DEF Gate, Closed, Beyond
      <4>2. Cardinality(Beyond) <= Cardinality(Callers) - 1 /\ Cardinality(Callers) \in Nat
        BY <1>0, <4>1, BeyondFinite, Constants
      <4>3. Cardinality(Beyond') <= Cardinality(Beyond) + 1 /\ Cardinality(Beyond') \in Nat
        BY <2>2, <4>1, BeyondMoves DEF Places
      <4>4. counter'["miss"].n + Cardinality(Beyond') <= Bound
        BY <1>0, <4>1, <4>2, <4>3
      <4> QED
        BY <2>4, <4>1, <4>4 DEF Places
    <3> QED
      BY <3>1, <3>2
  <2>10. CASE Run(d)
    <3>1. c \in Beyond /\ counter' = counter
      BY <2>2, <2>10 DEF Run, Beyond
    <3>2. CASE Goto(d, "done")
      BY <2>5, <3>1, <3>2 DEF Places
    <3>3. CASE Goto(d, "penalize")
      <4>1. Cardinality(Beyond') <= Cardinality(Beyond) /\ Cardinality(Beyond') \in Nat
        BY <2>2, <3>1, <3>3, BeyondMoves DEF Places
      <4>2. counter'["miss"].n + Cardinality(Beyond') <= Bound
        BY <1>0, <2>3, <3>1, <4>1
      <4> QED
        BY <2>4, <3>3, <4>2 DEF Places
    <3> QED
      BY <2>10, <3>2, <3>3 DEF Run
  <2>11. CASE Penalize(d)
    <3>1. c \in Beyond
      BY <2>2, <2>11 DEF Penalize, Beyond
    <3>2. counter'["miss"].n <= counter["miss"].n + 1 /\ counter'["miss"].n \in Nat
      <4>1. counter'["miss"].n = IF counter["miss"].n = Cap THEN counter["miss"].n ELSE counter["miss"].n + 1
        BY <1>0, <2>11 DEF Penalize, Incr, CounterType
      <4> QED
        BY <1>0, <4>1
    <3>3. PICK place \in {"expire miss", "done"} : Goto(d, place)
      BY <2>11 DEF Penalize
    <3>4. Cardinality(Beyond') = Cardinality(Beyond) - 1 /\ Cardinality(Beyond') \in Nat
      BY <2>2, <3>1, <3>3, BeyondMoves DEF Places
    <3>5. counter'["miss"].n + Cardinality(Beyond') <= Bound
      <4> HIDE DEF Bound
      <4>2. counter["miss"].n + Cardinality(Beyond) <= Bound
        BY <2>3
      <4> QED
        BY <1>0, <3>2, <3>4, <4>2, OneForAnother
    <3> QED
      BY <2>4, <3>3, <3>5 DEF Places
  <2> QED
    BY <1>3, <2>6, <2>7, <2>8, <2>9, <2>10, <2>11 DEF Handle
<1>4. ASSUME NEW d \in Copies, Verify(d) \/ TakeNonce(d) \/ Handle(d) \/ Fail(d), ~Limited
      PROVE  MissInv'
  <2>1. counter["miss"].n = 0 /\ \A e \in Copies : copy[e] # "penalize"
    BY <1>4 DEF MissInv
  <2>2. UNCHANGED scene /\ ~Penalize(d) /\ ~Limited' /\ ~scene.limits
    <3>1. UNCHANGED scene
      BY <1>4 DEF Verify, TakeNonce, Handle, Count, ExpireIp, Gate, Run, Penalize, ExpireMiss, Fail
    <3>2. ~Penalize(d)
      BY <2>1 DEF Penalize
    <3> QED
      BY <1>4, <3>1, <3>2, LimitedStays, Zenon DEF Limited
  <2>3. \E place \in Places \ {"penalize"} : Goto(d, place)
    BY <1>4, <2>2, Zenon DEF Verify, TakeNonce, Handle, Count, ExpireIp, Gate, Run, ExpireMiss, Fail, Refuse, Places
  <2>4. counter'["miss"].n = 0
    <3>1. CASE ExpireIp(d) \/ ExpireMiss(d)
      BY <1>0, <2>1, <3>1 DEF ExpireIp, ExpireMiss, Expire, CounterType
    <3>2. CASE Count(d) \/ Verify(d) \/ TakeNonce(d) \/ Gate(d) \/ Run(d) \/ Fail(d)
      <4>1. counter' = counter
        BY <2>2, <3>2, Zenon DEF Count, Verify, TakeNonce, Gate, Run, Fail
      <4> QED
        BY <2>1, <4>1
    <3> QED
      BY <1>4, <2>2, <3>1, <3>2 DEF Handle
  <2>5. \A e \in Copies : copy'[e] # "penalize"
    BY <2>1, <2>3 DEF Goto, GuardType
  <2> QED
    BY <1>4, <2>2, <2>4, <2>5 DEF MissInv
<1>10. ASSUME NEW d \in Copies, Redeliver(d)
       PROVE  MissInv'
  <2>1. scene.copies = 2 /\ UNCHANGED <<scene, counter>> /\ Goto(d, "way")
    BY <1>10 DEF Redeliver, guardVars
  <2>2. ~Limited /\ ~Limited'
    <3>1. Limited \in BOOLEAN /\ Limited' = Limited /\ (Limited => scene.copies = 1)
      BY <2>1, LimitedStays
    <3> QED
      BY <2>1, <3>1
  <2>3. \A e \in Copies : copy'[e] \in {copy[e], "way"}
    BY <2>1 DEF Goto, GuardType
  <2> QED
    BY <2>1, <2>2, <2>3 DEF MissInv
<1>5. CASE Tick
  <2>1. counter' = Aged /\ UNCHANGED <<scene, copy>> /\ Limited' = Limited
    BY <1>5, LimitedStays DEF Tick
  <2>2. counter'["miss"].n \in {0, counter["miss"].n}
    BY <1>0, <2>1 DEF Aged, Older, Zero, CounterType
  <2> QED
    BY <1>0, <2>1, <2>2 DEF MissInv, Beyond
<1>6. ASSUME UNCHANGED <<counter, scene, copy>>
      PROVE  MissInv'
  BY <1>6, LimitedStays DEF MissInv, Beyond
<1>7. ASSUME NEW c \in Callers, TakeUp(c)
      PROVE  MissInv'
  BY <1>6, <1>7 DEF TakeUp
<1>8. ASSUME NEW a \in Admins, RotateRead(a) \/ RotateWrite(a)
      PROVE  MissInv'
  BY <1>6, <1>8 DEF RotateRead, RotateWrite
<1>9. ASSUME Switch \/ UNCHANGED vars
      PROVE  MissInv'
  BY <1>6, <1>9 DEF Switch, vars
<1> QED
  BY <1>2, <1>3, <1>4, <1>5, <1>7, <1>8, <1>9, <1>10 DEF Next

(* open.controller.ts:47-54: however many callers activate at once, and whatever *)
(* fails or expires, the failures counted exceed the limit by no more than the   *)
(* callers that were past the gate when it closed.                               *)
THEOREM FailuresAreBounded == Spec => []MissesBounded
<1>1. CounterType /\ MissInv => MissesBounded
  BY Constants, BeyondFinite DEF CounterType, MissInv, MissesBounded
<1> QED
  BY GuardTypeInit, GuardTypeStep, MissInit, CounterStep, MissStep, <1>1, PTL DEF Spec

=============================================================================
