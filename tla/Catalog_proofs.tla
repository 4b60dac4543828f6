----------------------------- MODULE Catalog_proofs -----------------------------
(* Theorems about Catalog, for any number of administrators, releases and       *)
(* orders, and any bounds.                                                      *)
EXTENDS Catalog, FiniteSetTheorems, WellFoundedInduction, TLAPS

-----------------------------------------------------------------------------
(* The shape of orders and rows. What sets of files and which dates occur does  *)
(* not matter here: some sets F and T hold them.                                *)

Statuses == {"none", "draft", "published", "archived", "gone"}
Places == {"uploaded", "insert", "keys", "generate", "commit", "edit", "unlink", "delete", "list", "purge",
           "drop"}
Keys == Admins \cup {Null}

Ops == {"create", "publish", "key", "edit", "remove", "remove app"}

Orders(F, T) ==
  [op : Ops, rel : Releases, at : Places, key : Keys, files : F, link : BOOLEAN, away : BOOLEAN, dated : T]
Rows(F, T) ==
  [status : Statuses, files : F, link : BOOLEAN, away : BOOLEAN, signed : Keys, rollout : {50, 100}, at : T]

Shape(F, T) ==
  /\ {} \in F /\ Null \in T
  /\ order \in [Admins -> Orders(F, T) \cup {Null}]
  /\ row \in [Releases -> Rows(F, T)]

TypeInv ==
  /\ app \in [exists : BOOLEAN, keys : Keys, cards : BOOLEAN, open : BOOLEAN]
  /\ \E F, T : Shape(F, T)

LEMMA TypeInit == Init => TypeInv
<1> SUFFICES ASSUME Init PROVE TypeInv
  OBVIOUS
<1>1. NoRow \in Rows({{}}, {Null})
  BY DEF NoRow, Rows, Statuses, Keys
<1>2. Shape({{}}, {Null})
  BY <1>1 DEF Init, Shape
<1>3. app \in [exists : BOOLEAN, keys : Keys, cards : BOOLEAN, open : BOOLEAN]
  BY DEF Init, Keys
<1> QED
  BY <1>2, <1>3 DEF TypeInv

LEMMA WhicheverRelease == Whichever \in Releases
  BY CatalogAssumption DEF CatalogAssumption, Whichever

LEMMA MovesKeepOrders ==
  ASSUME NEW F, NEW T, order \in [Admins -> Orders(F, T) \cup {Null}], NEW a \in Admins
  PROVE  /\ Over(a) => order' \in [Admins -> Orders(F, T) \cup {Null}]
         /\ \A place \in Places : order[a] # Null /\ Goto(a, place) => order' \in [Admins -> Orders(F, T) \cup {Null}]
<1>1. Over(a) => order' \in [Admins -> Orders(F, T) \cup {Null}]
  BY DEF Over
<1>2. ASSUME NEW place \in Places, order[a] # Null, Goto(a, place)
      PROVE  order' \in [Admins -> Orders(F, T) \cup {Null}]
  <2>1. [order[a] EXCEPT !.at = place] \in Orders(F, T)
    BY <1>2 DEF Orders
  <2>2. order' = [order EXCEPT ![a] = [order[a] EXCEPT !.at = place]]
    BY <1>2 DEF Goto
  <2> QED
    BY <2>1, <2>2
<1> QED
  BY <1>1, <1>2

LEMMA BeginKeepsOrders ==
  ASSUME NEW F, NEW T, Shape(F, T), NEW a \in Admins, NEW r \in Releases,
         NEW op \in Ops, NEW place \in Places,
         Begin(a, op, r, place)
  PROVE  order' \in [Admins -> Orders(F \cup {row[r].files}, T) \cup {Null}]
<1> DEFINE o == [op |-> op, rel |-> r, at |-> place, key |-> Null,
                 files |-> row[r].files, link |-> FALSE, away |-> FALSE, dated |-> row[r].at]
           G == F \cup {row[r].files}
<1>1. o \in Orders(G, T)
  BY DEF Orders, Keys, Shape, Rows
<1>2. order \in [Admins -> Orders(G, T) \cup {Null}]
  BY DEF Shape, Orders
<1>3. order' = [order EXCEPT ![a] = o]
  BY DEF Begin
<1> HIDE DEF o
<1> QED
  BY <1>1, <1>2, <1>3

LEMMA NewRow ==
  ASSUME NEW F, NEW T, NEW x \in Rows(F, T), NEW dated \in T
  PROVE  /\ \A percent \in {50, 100}, key \in Keys : PublishedRow(x, percent, dated, key) \in Rows(F, T \cup {Stamp})
         /\ \A sent \in Edits : EditedRow(x, sent, dated) \in Rows(F, T \cup {Stamp})
<1>1. /\ x.at \in T /\ x.signed \in Keys /\ x.files \in F /\ x.link \in BOOLEAN /\ x.away \in BOOLEAN
      /\ x.status \in Statuses /\ x.rollout \in {50, 100} /\ {"draft", "published", "archived"} \subseteq Statuses
  BY DEF Rows, Statuses
<1>2. ASSUME NEW percent \in {50, 100}, NEW key \in Keys
      PROVE  PublishedRow(x, percent, dated, key) \in Rows(F, T \cup {Stamp})
  BY <1>1 DEF PublishedRow, Rows
<1>3. ASSUME NEW sent \in Edits
      PROVE  EditedRow(x, sent, dated) \in Rows(F, T \cup {Stamp})
  <2>1. /\ sent.status \in {"draft", "published", "archived", Null} /\ sent.rollout \in {50, 100, Null}
        /\ sent.link \in BOOLEAN \cup {Null}
    BY CatalogAssumption DEF CatalogAssumption
  <2>2. /\ Sent(sent.status, x.status) \in Statuses /\ Sent(sent.rollout, x.rollout) \in {50, 100}
        /\ Sent(sent.link, x.link) \in BOOLEAN
    BY <1>1, <2>1 DEF Sent
  <2>3. EditedRow(x, sent, dated).at \in T \cup {Stamp}
    BY <1>1 DEF EditedRow
  <2> QED
    BY <1>1, <2>2, <2>3 DEF EditedRow, Rows
<1> QED
  BY <1>2, <1>3, Zenon

LEMMA OneRowChanged ==
  ASSUME NEW F, NEW T, NEW stamp, row \in [Releases -> Rows(F, T)], NEW r \in Releases,
         NEW x \in Rows(F, T \cup {stamp}), row' = [row EXCEPT ![r] = x]
  PROVE  row' \in [Releases -> Rows(F, T \cup {stamp})]
<1>1. row \in [Releases -> Rows(F, T \cup {stamp})]
  BY DEF Rows
<1> QED
  BY <1>1

LEMMA RowsGrow ==
  ASSUME NEW F, NEW G, NEW T, NEW S, F \subseteq G, T \subseteq S
  PROVE  /\ [Releases -> Rows(F, T)] \subseteq [Releases -> Rows(G, S)]
         /\ [Admins -> Orders(F, T) \cup {Null}] \subseteq [Admins -> Orders(G, S) \cup {Null}]
  BY ZenonT(40) DEF Rows, Orders

LEMMA TypeStep == TypeInv /\ [Next]_vars => TypeInv'
<1> SUFFICES ASSUME TypeInv, [Next]_vars PROVE TypeInv'
  OBVIOUS
<1> DEFINE App == [exists : BOOLEAN, keys : Keys, cards : BOOLEAN, open : BOOLEAN]
<1>0. PICK F, T : Shape(F, T)
  BY DEF TypeInv
<1>f. /\ {} \in F /\ Null \in T /\ order \in [Admins -> Orders(F, T) \cup {Null}]
      /\ row \in [Releases -> Rows(F, T)] /\ app \in App
  BY <1>0 DEF Shape, TypeInv
<1>a. ASSUME app' \in App, NEW G, NEW S, {} \in G, Null \in S,
             order' \in [Admins -> Orders(G, S) \cup {Null}], row' \in [Releases -> Rows(G, S)]
      PROVE  TypeInv'
  BY <1>a DEF TypeInv, Shape
<1>b. ASSUME NEW a \in Admins, NEW r \in Releases,
             NEW op \in Ops, NEW place \in Places,
             Begin(a, op, r, place), UNCHANGED <<app, row>>
      PROVE  TypeInv'
  <2> DEFINE G == F \cup {row[r].files}
  <2>1. order' \in [Admins -> Orders(G, T) \cup {Null}] /\ F \subseteq G
    BY <1>0, <1>b, BeginKeepsOrders
  <2> HIDE DEF G
  <2>2. row' \in [Releases -> Rows(G, T)]
    BY <1>b, <1>f, <2>1, RowsGrow
  <2> QED
    BY <1>a, <1>b, <1>f, <2>1, <2>2
<1>c. ASSUME NEW a \in Admins, Over(a) \/ \E place \in Places : order[a] # Null /\ Goto(a, place),
             app' \in App, row' \in [Releases -> Rows(F, T)]
      PROVE  TypeInv'
  BY <1>a, <1>c, <1>f, MovesKeepOrders
<1>1. ASSUME NEW a \in Admins, NEW r \in Releases, NEW sent \in Uploads, Upload(a, r, sent)
      PROVE  TypeInv'
  <2> DEFINE files == {File(a, r, kind) : kind \in sent.kinds}
             o == [op |-> "create", rel |-> r, at |-> "uploaded", key |-> Null, files |-> files,
                   link |-> sent.link, away |-> sent.away, dated |-> Null]
             G == F \cup {files}
  <2>1. sent.link \in BOOLEAN /\ sent.away \in BOOLEAN
    BY CatalogAssumption DEF CatalogAssumption
  <2>2. o \in Orders(G, T)
    BY <1>f, <2>1 DEF Orders, Ops, Places, Keys
  <2>3. order' = [order EXCEPT ![a] = o] /\ UNCHANGED <<app, row>>
    BY <1>1 DEF Upload
  <2> HIDE DEF o, files
  <2>4. order' \in [Admins -> Orders(G, T) \cup {Null}] /\ row' \in [Releases -> Rows(G, T)]
    BY <1>f, <2>2, <2>3, RowsGrow
  <2>5. {} \in G /\ Null \in T /\ app' \in App
    BY <1>f, <2>3
  <2> HIDE DEF G
  <2> QED
    BY <1>a, <2>4, <2>5
<1>2. ASSUME NEW a \in Admins, CreateCheck(a)
      PROVE  TypeInv'
  BY <1>2, <1>c, <1>f DEF CreateCheck, At, Places
<1>3. ASSUME NEW a \in Admins, CreateInsert(a)
      PROVE  TypeInv'
  <2>1. order[a] \in Orders(F, T) /\ Over(a) /\ app' = app
    BY <1>3, <1>f DEF CreateInsert, At
  <2>2. [NoRow EXCEPT !.status = "draft", !.files = order[a].files, !.link = order[a].link,
                      !.away = order[a].away] \in Rows(F, T)
    BY <1>f, <2>1 DEF NoRow, Rows, Orders, Statuses, Keys
  <2>3. row' \in [Releases -> Rows(F, T)]
    BY <1>3, <1>f, <2>2 DEF CreateInsert
  <2> QED
    BY <1>c, <1>f, <2>1, <2>3
<1>4. ASSUME NEW a \in Admins, NEW r \in Releases, Publish(a, r)
      PROVE  TypeInv'
  BY <1>4, <1>b DEF Publish, Places, Ops
<1>5. ASSUME NEW a \in Admins, EnsureSignKey(a) \/ RemoveApp(a)
      PROVE  TypeInv'
  BY <1>5, <1>b, WhicheverRelease DEF EnsureSignKey, RemoveApp, Places, Ops
<1>k. ASSUME NEW a \in Admins, NEW key \in Keys, order[a] # Null, KeyIs(a, key), app' \in App, row' = row
      PROVE  TypeInv'
  <2>1. CASE Over(a)
    BY <1>c, <1>f, <1>k, <2>1
  <2>2. CASE order' = [order EXCEPT ![a].key = key, ![a].at = "commit"]
    <3>1. [order[a] EXCEPT !.key = key, !.at = "commit"] \in Orders(F, T)
      BY <1>f, <1>k DEF Orders, Places
    <3>2. order' = [order EXCEPT ![a] = [order[a] EXCEPT !.key = key, !.at = "commit"]]
      BY <1>f, <2>2
    <3>3. order' \in [Admins -> Orders(F, T) \cup {Null}]
      BY <1>f, <3>1, <3>2
    <3> QED
      BY <1>a, <1>f, <1>k, <3>3
  <2> QED
    BY <1>k, <2>1, <2>2 DEF KeyIs
<1>6. ASSUME NEW a \in Admins, ReadKeys(a)
      PROVE  TypeInv'
  <2>1. order[a] # Null /\ app' \in App /\ row' = row /\ app.keys \in Keys
    BY <1>6, <1>f DEF ReadKeys, At
  <2>2. Over(a) \/ Goto(a, "generate") \/ KeyIs(a, app.keys)
    BY <1>6 DEF ReadKeys
  <2> QED
    BY <1>c, <1>f, <1>k, <2>1, <2>2 DEF Places
<1>7. ASSUME NEW a \in Admins, WriteKeys(a)
      PROVE  TypeInv'
  <2>1. order[a] # Null /\ row' = row
    BY <1>7 DEF WriteKeys, At
  <2>2. app' \in App
    BY <1>7, <1>f DEF WriteKeys, Keys
  <2>3. Over(a) \/ KeyIs(a, a)
    BY <1>7 DEF WriteKeys
  <2> QED
    BY <1>c, <1>f, <1>k, <2>1, <2>2, <2>3 DEF Keys
<1>w. ASSUME NEW a \in Admins, Over(a), app' = app, NEW r \in Releases, NEW x \in Rows(F, T \cup {Stamp}),
             row' = [row EXCEPT ![r] = x]
      PROVE  TypeInv'
  <2>1. row' \in [Releases -> Rows(F, T \cup {Stamp})]
    BY <1>f, <1>w, OneRowChanged
  <2>2. order' \in [Admins -> Orders(F, T) \cup {Null}] /\ Null \in T \cup {Stamp}
    BY <1>f, <1>w, MovesKeepOrders
  <2> DEFINE S == T \cup {Stamp}
  <2>3. order' \in [Admins -> Orders(F, S) \cup {Null}]
    BY <2>2, RowsGrow
  <2> HIDE DEF S
  <2> QED
    BY <1>a, <1>f, <1>w, <2>1, <2>2, <2>3 DEF S
<1>8. ASSUME NEW a \in Admins, PublishCommit(a)
      PROVE  TypeInv'
  <2>1. order[a] \in Orders(F, T) /\ Over(a) /\ app' = app
    BY <1>8, <1>f DEF PublishCommit, At
  <2>2. CASE row' = row
    BY <1>c, <1>f, <2>1, <2>2
  <2>3. ASSUME NEW r \in Releases, NEW percent \in {50, 100}, Exists(r),
               row' = [row EXCEPT ![r] = PublishedRow(row[r], percent, order[a].dated, order[a].key)]
        PROVE  TypeInv'
    <3>1. order[a].dated \in T /\ order[a].key \in Keys /\ row[r] \in Rows(F, T)
      BY <1>f, <2>1 DEF Orders
    <3>2. PublishedRow(row[r], percent, order[a].dated, order[a].key) \in Rows(F, T \cup {Stamp})
      BY <3>1, NewRow
    <3> QED
      BY <1>w, <2>1, <2>3, <3>2
  <2>4. Exists(order[a].rel) => order[a].rel \in Releases
    BY <2>1 DEF Orders
  <2> QED
    BY <1>8, <2>2, <2>3, <2>4 DEF PublishCommit
<1>9. ASSUME NEW a \in Admins, EditWrite(a)
      PROVE  TypeInv'
  <2>1. order[a] \in Orders(F, T) /\ Over(a) /\ app' = app
    BY <1>9, <1>f DEF EditWrite, At
  <2>2. CASE row' = row
    BY <1>c, <1>f, <2>1, <2>2
  <2>3. ASSUME NEW r \in Releases, NEW sent \in Edits, Exists(r),
               row' = [row EXCEPT ![r] = EditedRow(row[r], sent, order[a].dated)]
        PROVE  TypeInv'
    <3>1. order[a].dated \in T /\ row[r] \in Rows(F, T)
      BY <1>f, <2>1 DEF Orders
    <3>2. EditedRow(row[r], sent, order[a].dated) \in Rows(F, T \cup {Stamp})
      BY <3>1, NewRow
    <3> QED
      BY <1>w, <2>1, <2>3, <3>2
  <2>4. Exists(order[a].rel) => order[a].rel \in Releases
    BY <2>1 DEF Orders
  <2> QED
    BY <1>9, <2>2, <2>3, <2>4 DEF EditWrite
<1>e. ASSUME NEW a \in Admins, NEW r \in Releases, Edit(a, r)
      PROVE  TypeInv'
  BY <1>e, <1>b DEF Edit, Places, Ops
<1>v. ASSUME NEW r \in Releases, Archive(r)
      PROVE  TypeInv'
  <2>1. [row[r] EXCEPT !.status = "archived"] \in Rows(F, T) /\ UNCHANGED <<app, order>>
    BY <1>f, <1>v DEF Rows, Statuses, Archive
  <2>2. row' \in [Releases -> Rows(F, T)]
    BY <1>f, <1>v, <2>1 DEF Archive
  <2> QED
    BY <1>a, <1>f, <2>1, <2>2
<1>10. ASSUME NEW a \in Admins, NEW r \in Releases, Remove(a, r)
       PROVE  TypeInv'
  BY <1>10, <1>b DEF Remove, Places, Ops
<1>11. ASSUME NEW a \in Admins, Unlink(a) \/ Purge(a) \/ Fail(a)
       PROVE  TypeInv'
  BY <1>11, <1>c, <1>f DEF Unlink, Purge, Fail, At, Places
<1>12. ASSUME NEW a \in Admins, Delete(a)
       PROVE  TypeInv'
  <2>1. \A r \in Releases : [row[r] EXCEPT !.status = "gone"] \in Rows(F, T)
    BY <1>f DEF Rows, Statuses
  <2>2. row' \in [Releases -> Rows(F, T)]
    BY <1>12, <1>f, <2>1 DEF Delete
  <2> QED
    BY <1>12, <1>c, <1>f, <2>2 DEF Delete
<1>13. ASSUME NEW a \in Admins, ListFiles(a)
       PROVE  TypeInv'
  <2> DEFINE files == UNION {row[r].files : r \in {s \in Releases : Exists(s)}}
             G == F \cup {files}
  <2>1. order[a] \in Orders(F, T) /\ order' = [order EXCEPT ![a] = [order[a] EXCEPT !.at = "purge", !.files = files]]
    BY <1>13, <1>f DEF ListFiles, At
  <2>2. UNCHANGED <<app, row>>
    BY <1>13 DEF ListFiles
  <2> HIDE DEF files
  <2>3. [order[a] EXCEPT !.at = "purge", !.files = files] \in Orders(G, T)
    BY <2>1 DEF Orders, Places
  <2>4. order' \in [Admins -> Orders(G, T) \cup {Null}] /\ row' \in [Releases -> Rows(G, T)]
    BY <1>f, <2>1, <2>2, <2>3, RowsGrow
  <2>5. {} \in G /\ Null \in T /\ app' \in App
    BY <1>f, <2>2
  <2> HIDE DEF G
  <2> QED
    BY <1>a, <2>4, <2>5
<1>14. ASSUME NEW a \in Admins, Drop(a)
       PROVE  TypeInv'
  <2>1. \A r \in Releases : [row[r] EXCEPT !.status = "gone"] \in Rows(F, T)
    BY <1>f DEF Rows, Statuses
  <2>2. row' \in [Releases -> Rows(F, T)] /\ app' \in App
    BY <1>14, <1>f, <2>1 DEF Drop
  <2> QED
    BY <1>14, <1>c, <1>f, <2>2 DEF Drop
<1>15. ASSUME GenerateCards \/ Switch
       PROVE  TypeInv'
  <2>1. app' \in App /\ UNCHANGED <<order, row>>
    BY <1>15, <1>f DEF GenerateCards, Switch
  <2> QED
    BY <1>a, <1>f, <2>1
<1>16. ASSUME UNCHANGED <<app, order, row>>
       PROVE  TypeInv'
  BY <1>a, <1>f, <1>16
<1>17. ASSUME Unlock \/ Download \/ Tick \/ UNCHANGED vars
       PROVE  UNCHANGED <<app, order, row>>
  BY <1>17 DEF Unlock, Download, Tick, vars
<1> QED
  BY <1>1, <1>2, <1>3, <1>4, <1>5, <1>6, <1>7, <1>8, <1>9, <1>e, <1>v, <1>10, <1>11, <1>12, <1>13, <1>14, <1>15, <1>16,
     <1>17 DEF Next, Create, Publishing, Editing, Removing, Site

-----------------------------------------------------------------------------
(* Unless two orders made a pair at once, there is one key: what was given out,  *)
(* what signs releases and what orders carry to their commit is the application's, *)
(* and whoever is about to make a pair does so because there is none.            *)

OrderFits(o, keys) ==
  o # Null => /\ o.at = "commit" => o.key \in {Null, keys}
              /\ o.at = "generate" => keys = Null

OneKey ==
  /\ \A key \in given : key = app.keys /\ key # Null
  /\ \A r \in Releases : row[r].signed \in {Null, app.keys}
  /\ \A a \in Admins : OrderFits(order[a], app.keys)

KeyInv == twins \/ OneKey

LEMMA KeyInit == Init => KeyInv
  BY DEF Init, KeyInv, OneKey, OrderFits, NoRow

(* A step that leaves the keys alone, signs with nothing new and changes one     *)
(* order keeps it.                                                               *)
LEMMA KeyFrame ==
  ASSUME OneKey, app'.keys = app.keys, given' \subseteq given \cup {app.keys}, given' # given => app.keys # Null,
         \A r \in Releases : row'[r].signed \in {row[r].signed, Null, app.keys},
         \A a \in Admins : order'[a] = order[a] \/ OrderFits(order'[a], app.keys)
  PROVE  OneKey'
<1>1. \A key \in given' : key = app'.keys /\ key # Null
  BY DEF OneKey
<1>2. \A r \in Releases : row'[r].signed \in {Null, app'.keys}
  BY DEF OneKey
<1>3. \A a \in Admins : OrderFits(order'[a], app'.keys)
  BY DEF OneKey
<1> QED
  BY <1>1, <1>2, <1>3 DEF OneKey, OrderFits

LEMMA MovesFit ==
  ASSUME TypeInv, NEW a \in Admins,
         Over(a) \/ \E place \in Places \ {"commit", "generate"} : order[a] # Null /\ Goto(a, place)
  PROVE  \A b \in Admins : order'[b] = order[b] \/ OrderFits(order'[b], app.keys)
<1>1. PICK F, T : Shape(F, T)
  BY DEF TypeInv
<1>2. CASE Over(a)
  BY <1>1, <1>2 DEF Shape, Over, OrderFits
<1>3. ASSUME NEW place \in Places \ {"commit", "generate"}, order[a] # Null, Goto(a, place)
      PROVE  \A b \in Admins : order'[b] = order[b] \/ OrderFits(order'[b], app.keys)
  <2>1. order[a] \in Orders(F, T) /\ order' = [order EXCEPT ![a] = [order[a] EXCEPT !.at = place]]
    BY <1>1, <1>3 DEF Shape, Goto
  <2>2. order'[a].at = place /\ \A b \in Admins \ {a} : order'[b] = order[b]
    BY <1>1, <2>1 DEF Shape, Orders
  <2> QED
    BY <1>3, <2>2 DEF OrderFits
<1> QED
  BY <1>2, <1>3

LEMMA BeginFits ==
  ASSUME TypeInv, NEW a \in Admins, NEW r, NEW op, NEW place \in Places \ {"generate"}, Begin(a, op, r, place)
  PROVE  \A b \in Admins : order'[b] = order[b] \/ OrderFits(order'[b], app.keys)
<1>1. PICK F, T : Shape(F, T)
  BY DEF TypeInv
<1>2. order'[a].at = place /\ order'[a].key = Null /\ \A b \in Admins \ {a} : order'[b] = order[b]
  BY <1>1 DEF Shape, Begin
<1> QED
  BY <1>2 DEF OrderFits

LEMMA SameSignature ==
  ASSUME TypeInv
  PROVE  /\ \A a \in Admins : CreateInsert(a) \/ Delete(a) \/ Drop(a)
              => \A r \in Releases : row'[r].signed \in {row[r].signed, Null}
         /\ \A a \in Admins : EditWrite(a) => \A r \in Releases : row'[r].signed = row[r].signed
         /\ \A s \in Releases : Archive(s) => \A r \in Releases : row'[r].signed = row[r].signed
<1>1. PICK F, T : Shape(F, T)
  BY DEF TypeInv
<1>2. ASSUME NEW a \in Admins, CreateInsert(a)
      PROVE  \A r \in Releases : row'[r].signed \in {row[r].signed, Null}
  BY <1>1, <1>2 DEF CreateInsert, NoRow, Shape, Rows
<1>3. ASSUME NEW a \in Admins, Delete(a)
      PROVE  \A r \in Releases : row'[r].signed \in {row[r].signed, Null}
  BY <1>1, <1>3 DEF Delete, Shape, Rows
<1>4. ASSUME NEW a \in Admins, Drop(a)
      PROVE  \A r \in Releases : row'[r].signed \in {row[r].signed, Null}
  BY <1>1, <1>4 DEF Drop, Shape, Rows
<1>5. ASSUME NEW a \in Admins, EditWrite(a)
      PROVE  \A r \in Releases : row'[r].signed = row[r].signed
  <2>1. ASSUME NEW sent, NEW s, NEW dated, row' = [row EXCEPT ![s] = EditedRow(row[s], sent, dated)]
        PROVE  \A r \in Releases : row'[r].signed = row[r].signed
    <3>1. EditedRow(row[s], sent, dated).signed = row[s].signed
      BY DEF EditedRow
    <3> QED
      BY <1>1, <2>1, <3>1 DEF Shape
  <2> QED
    BY <1>5, <2>1 DEF EditWrite
<1>6. ASSUME NEW s \in Releases, Archive(s)
      PROVE  \A r \in Releases : row'[r].signed = row[r].signed
  BY <1>1, <1>6 DEF Archive, Shape, Rows
<1> QED
  BY <1>2, <1>3, <1>4, <1>5, <1>6

LEMMA KeyIsFits ==
  ASSUME TypeInv, NEW a \in Admins, NEW key, order[a] # Null, KeyIs(a, key)
  PROVE  /\ given' \subseteq given \cup {key}
         /\ OrderFits(order'[a], key) /\ \A b \in Admins \ {a} : order'[b] = order[b]
<1>1. PICK F, T : Shape(F, T)
  BY DEF TypeInv
<1>2. order \in [Admins -> Orders(F, T) \cup {Null}] /\ order[a] \in Orders(F, T)
  BY <1>1 DEF Shape
<1>3. CASE order[a].op = "key"
  BY <1>2, <1>3 DEF KeyIs, Over, OrderFits
<1>4. CASE order[a].op # "key"
  <2>1. order' = [order EXCEPT ![a] = [order[a] EXCEPT !.key = key, !.at = "commit"]] /\ given' = given
    BY <1>2, <1>4 DEF KeyIs
  <2>2. order'[a].key = key /\ order'[a].at = "commit" /\ \A b \in Admins \ {a} : order'[b] = order[b]
    BY <1>2, <2>1 DEF Orders
  <2> QED
    BY <2>1, <2>2 DEF OrderFits
<1> QED
  BY <1>3, <1>4

LEMMA KeyStep == TypeInv /\ KeyInv /\ [Next]_vars => KeyInv'
<1> SUFFICES ASSUME TypeInv, OneKey, [Next]_vars, ~twins' PROVE OneKey'
  <2>a. ASSUME NEW a \in Admins, Create(a) \/ Publishing(a) \/ Editing(a) \/ Removing(a) \/ Fail(a), ~WriteKeys(a)
        PROVE  UNCHANGED twins
    BY <2>a, Zenon DEF Create, Publishing, Editing, Edit, EditWrite, Removing, Upload, CreateCheck, CreateInsert, Publish, EnsureSignKey,
       ReadKeys, PublishCommit, Remove, Unlink, Delete, RemoveApp, ListFiles, Purge, Drop, Fail
  <2>b. ASSUME (\E r \in Releases : Archive(r)) \/ GenerateCards \/ Site \/ UNCHANGED vars
        PROVE  UNCHANGED twins
    BY <2>b, Zenon DEF Archive, GenerateCards, Site, Unlock, Download, Switch, Tick, vars
  <2>1. [Next]_vars => UNCHANGED twins \/ \E a \in Admins : WriteKeys(a)
    BY <2>a, <2>b DEF Next
  <2>2. ASSUME NEW a \in Admins, WriteKeys(a), twins PROVE twins'
    BY <2>2, Zenon DEF WriteKeys
  <2>3. [Next]_vars => (twins => twins')
    BY <2>1, <2>2, Zenon
  <2> QED
    BY <2>3, Zenon DEF KeyInv
<1>a. ASSUME app'.keys = app.keys, UNCHANGED given,
             \A r \in Releases : row'[r].signed \in {row[r].signed, Null, app.keys},
             \A b \in Admins : order'[b] = order[b] \/ OrderFits(order'[b], app.keys)
      PROVE  OneKey'
  BY <1>a, KeyFrame
<1>b. ASSUME NEW a \in Admins, UNCHANGED <<given, row>>, app'.keys = app.keys,
             Over(a) \/ \E place \in Places \ {"commit", "generate"} : order[a] # Null /\ Goto(a, place)
      PROVE  OneKey'
  BY <1>a, <1>b, MovesFit
<1>c. ASSUME NEW a \in Admins, NEW r, NEW op, NEW place \in Places \ {"generate"}, Begin(a, op, r, place),
             UNCHANGED <<given, row, app>>
      PROVE  OneKey'
  BY <1>a, <1>c, BeginFits
<1>1. ASSUME NEW a \in Admins, NEW r, NEW sent, Upload(a, r, sent)
      PROVE  OneKey'
  <2>1. PICK F, T : Shape(F, T)
    BY DEF TypeInv
  <2>2. order'[a].at = "uploaded" /\ \A b \in Admins \ {a} : order'[b] = order[b]
    BY <1>1, <2>1 DEF Upload, Shape
  <2>3. UNCHANGED <<given, row, app>>
    BY <1>1 DEF Upload
  <2> QED
    BY <1>a, <2>2, <2>3 DEF OrderFits
<1>2. ASSUME NEW a \in Admins, CreateCheck(a)
      PROVE  OneKey'
  BY <1>b, <1>2 DEF CreateCheck, At, Places
<1>3. ASSUME NEW a \in Admins, CreateInsert(a) \/ Delete(a)
      PROVE  OneKey'
  <2>1. Over(a) /\ UNCHANGED <<given, app>>
    BY <1>3 DEF CreateInsert, Delete
  <2>2. \A r \in Releases : row'[r].signed \in {row[r].signed, Null}
    BY <1>3, SameSignature
  <2> QED
    BY <1>a, <2>1, <2>2, MovesFit
<1>4. ASSUME NEW a \in Admins, NEW r \in Releases, Publish(a, r) \/ Edit(a, r) \/ Remove(a, r)
      PROVE  OneKey'
  BY <1>4, <1>c DEF Publish, Edit, Remove, Places
<1>5. ASSUME NEW a \in Admins, EnsureSignKey(a) \/ RemoveApp(a)
      PROVE  OneKey'
  BY <1>5, <1>c DEF EnsureSignKey, RemoveApp, Places
<1>6. ASSUME NEW a \in Admins, ReadKeys(a)
      PROVE  OneKey'
  <2>1. order[a] # Null /\ UNCHANGED <<app, row>>
    BY <1>6 DEF ReadKeys, At
  <2>2. CASE Over(a) /\ UNCHANGED given
    BY <1>b, <2>1, <2>2
  <2>3. CASE app.keys # Null /\ KeyIs(a, app.keys)
    <3>1. given' \subseteq given \cup {app.keys} /\ OrderFits(order'[a], app.keys)
          /\ \A b \in Admins \ {a} : order'[b] = order[b]
      BY <2>1, <2>3, KeyIsFits
    <3>2. \A b \in Admins : order'[b] = order[b] \/ OrderFits(order'[b], app.keys)
      BY <3>1
    <3> QED
      BY <2>1, <2>3, <3>1, <3>2, KeyFrame
  <2>4. CASE app.keys = Null /\ Goto(a, "generate") /\ UNCHANGED given
    <3>1. PICK F, T : Shape(F, T)
      BY DEF TypeInv
    <3>2. order[a] \in Orders(F, T) /\ order' = [order EXCEPT ![a] = [order[a] EXCEPT !.at = "generate"]]
      BY <2>1, <2>4, <3>1 DEF Shape, Goto
    <3>3. order'[a].at = "generate" /\ \A b \in Admins \ {a} : order'[b] = order[b]
      BY <3>1, <3>2 DEF Shape, Orders
    <3>4. \A b \in Admins : order'[b] = order[b] \/ OrderFits(order'[b], app.keys)
      BY <2>4, <3>3 DEF OrderFits
    <3> QED
      BY <1>a, <2>1, <2>4, <3>4
  <2>5. \/ Over(a) /\ UNCHANGED given
        \/ app.keys # Null /\ KeyIs(a, app.keys)
        \/ app.keys = Null /\ Goto(a, "generate") /\ UNCHANGED given
    BY <1>6 DEF ReadKeys
  <2> QED
    BY <2>2, <2>3, <2>4, <2>5
<1>7. ASSUME NEW a \in Admins, WriteKeys(a)
      PROVE  OneKey'
  <2>1. /\ order[a] # Null /\ order[a].at = "generate" /\ row' = row
        /\ \A b \in Admins \ {a} : ~At(b, "generate")
    BY <1>7 DEF WriteKeys, At
  <2>2. CASE ~app.exists
    BY <1>7, <1>b, <2>2 DEF WriteKeys
  <2>3. CASE app.exists
    <3>1. app.keys = Null /\ given = {} /\ a # Null
      BY <2>1, CatalogAssumption DEF OneKey, OrderFits, CatalogAssumption
    <3>2. app' = [app EXCEPT !.keys = a] /\ KeyIs(a, a)
      BY <1>7, <2>3 DEF WriteKeys
    <3>3. app'.keys = a
      BY <3>2 DEF TypeInv
    <3>4. given' \subseteq given \cup {a} /\ OrderFits(order'[a], a)
          /\ \A b \in Admins \ {a} : order'[b] = order[b]
      BY <2>1, <3>2, KeyIsFits
    <3>5. \A key \in given' : key = app'.keys /\ key # Null
      BY <3>1, <3>3, <3>4
    <3>6. \A r \in Releases : row'[r].signed \in {Null, app'.keys}
      BY <2>1, <3>1 DEF OneKey
    <3>7. \A b \in Admins : OrderFits(order'[b], app'.keys)
      BY <2>1, <3>1, <3>3, <3>4 DEF OneKey, OrderFits, At
    <3> QED
      BY <3>5, <3>6, <3>7 DEF OneKey, OrderFits
  <2> QED
    BY <2>2, <2>3
<1>8. ASSUME NEW a \in Admins, PublishCommit(a)
      PROVE  OneKey'
  <2>1. PICK F, T : Shape(F, T)
    BY DEF TypeInv
  <2>2. Over(a) /\ UNCHANGED <<given, app>> /\ order[a] # Null /\ order[a].key \in {Null, app.keys}
    BY <1>8 DEF PublishCommit, At, OneKey, OrderFits
  <2>3. \A r \in Releases : row'[r].signed \in {row[r].signed, Null, app.keys}
    BY <1>8, <2>1, <2>2 DEF PublishCommit, PublishedRow, Shape
  <2> QED
    BY <1>a, <2>2, <2>3, MovesFit
<1>9. ASSUME NEW a \in Admins, EditWrite(a)
      PROVE  OneKey'
  <2>1. UNCHANGED <<given, app>> /\ Over(a)
    BY <1>9 DEF EditWrite
  <2>2. \A s \in Releases : row'[s].signed = row[s].signed
    BY <1>9, SameSignature
  <2> QED
    BY <1>a, <2>1, <2>2, MovesFit
<1>v. ASSUME NEW r \in Releases, Archive(r)
      PROVE  OneKey'
  <2>1. UNCHANGED <<given, app, order>>
    BY <1>v DEF Archive
  <2>2. \A s \in Releases : row'[s].signed = row[s].signed
    BY <1>v, SameSignature
  <2> QED
    BY <1>a, <2>1, <2>2
<1>10. ASSUME NEW a \in Admins, Unlink(a) \/ Purge(a) \/ Fail(a)
       PROVE  OneKey'
  BY <1>10, <1>b DEF Unlink, Purge, Fail, At, Places
<1>11. ASSUME NEW a \in Admins, ListFiles(a)
       PROVE  OneKey'
  <2>1. PICK F, T : Shape(F, T)
    BY DEF TypeInv
  <2> DEFINE files == UNION {row[r].files : r \in {s \in Releases : Exists(s)}}
  <2>2. order[a] \in Orders(F, T) /\ order' = [order EXCEPT ![a] = [order[a] EXCEPT !.at = "purge", !.files = files]]
    BY <1>11, <2>1 DEF ListFiles, At, Shape
  <2> HIDE DEF files
  <2>3. order'[a].at = "purge" /\ \A b \in Admins \ {a} : order'[b] = order[b]
    BY <2>1, <2>2 DEF Shape, Orders
  <2>4. UNCHANGED <<given, row, app>>
    BY <1>11 DEF ListFiles
  <2> QED
    BY <1>a, <2>3, <2>4 DEF OrderFits
<1>12. ASSUME NEW a \in Admins, Drop(a)
       PROVE  OneKey'
  <2>1. Over(a) /\ UNCHANGED given /\ app'.keys = app.keys
    BY <1>12 DEF Drop, TypeInv
  <2>2. \A r \in Releases : row'[r].signed \in {row[r].signed, Null}
    BY <1>12, SameSignature
  <2> QED
    BY <1>a, <2>1, <2>2, MovesFit
<1>13. ASSUME GenerateCards \/ Switch
       PROVE  OneKey'
  <2>1. app'.keys = app.keys /\ UNCHANGED <<given, row, order>>
    BY <1>13 DEF GenerateCards, Switch, TypeInv
  <2> QED
    BY <1>a, <2>1
<1>14. ASSUME Unlock \/ Download \/ Tick \/ UNCHANGED vars
       PROVE  OneKey'
  <2>1. UNCHANGED <<app, order, row, given>>
    BY <1>14 DEF Unlock, Download, Tick, vars
  <2> QED
    BY <1>a, <2>1
<1> QED
  BY <1>1, <1>2, <1>3, <1>4, <1>5, <1>6, <1>7, <1>8, <1>9, <1>v, <1>10, <1>11, <1>12, <1>13, <1>14
     DEF Next, Create, Publishing, Editing, Removing, Site

(* applications.service.ts:195-201, releases.service.ts:169-176: a release is    *)
(* signed with the key that was given out, whatever is published, edited,        *)
(* removed or fails meanwhile, as long as two orders never made a pair at once.  *)
THEOREM OneKeyForever == Spec => []SignedByTheKeyGivenOut
<1>1. Init => TypeInv /\ KeyInv
  BY TypeInit, KeyInit
<1>2. TypeInv /\ KeyInv /\ [Next]_vars => TypeInv' /\ KeyInv'
  BY TypeStep, KeyStep
<1>3. KeyInv => SignedByTheKeyGivenOut
  BY DEF KeyInv, OneKey, SignedByTheKeyGivenOut
<1> QED
  BY <1>1, <1>2, <1>3, PTL DEF Spec

-----------------------------------------------------------------------------
(* A ticket ends Ttl after the buyer was let in.                                *)
TicketInv == ticket # Null => ticket.until = shown + Ttl

LEMMA TicketStep == TicketInv /\ [Next]_vars => TicketInv'
<1> SUFFICES ASSUME TicketInv, [Next]_vars PROVE TicketInv'
  OBVIOUS
<1>1. CASE Unlock
  BY <1>1 DEF Unlock, SignTicket, TicketInv
<1>2. CASE UNCHANGED <<ticket, shown>>
  BY <1>2 DEF TicketInv
<1> QED
  BY ZenonT(40), <1>1, <1>2
  DEF Next, vars, siteVars, Create, Publishing, Editing, Removing, Site, Upload, CreateCheck, CreateInsert,
      Publish, EnsureSignKey, ReadKeys, WriteKeys, PublishCommit, Edit, EditWrite, Archive, Remove, Unlink,
      Delete, RemoveApp, ListFiles, Purge, Drop, Fail, GenerateCards, Download, Switch, Tick

(* dist.service.ts:181-215, dist-public.controller.ts:76: whatever the site gives, *)
(* file or address, it gives no longer after letting the buyer in than a ticket  *)
(* lasts, and a release that is not published only by its address elsewhere.     *)
THEOREM DownloadsAreEarned == Spec => DownloadIsEarned
<1> DEFINE Earned == <<downloads, led>>' # <<downloads, led>> =>
                       /\ now <= shown + Ttl
                       /\ row[ticket.rel].status = "published" \/ row[ticket.rel].away
<1>1. Init => TicketInv
  BY DEF Init, TicketInv
<1>2. TicketInv /\ [Next]_vars => [Earned]_<<downloads, led>>
  <2> SUFFICES ASSUME TicketInv, [Next]_vars PROVE [Earned]_<<downloads, led>>
    OBVIOUS
  <2>1. CASE Download
    BY <2>1 DEF Download, VerifyTicket, TicketInv
  <2>2. CASE UNCHANGED <<downloads, led>>
    BY <2>2
  <2> QED
    BY ZenonT(90), <2>1, <2>2
    DEF Next, vars, siteVars, Create, Publishing, Editing, Removing, Site, Upload, CreateCheck, CreateInsert,
        Publish, EnsureSignKey, ReadKeys, WriteKeys, PublishCommit, Edit, EditWrite, Archive, Remove, Unlink,
        Delete, RemoveApp, ListFiles, Purge, Drop, Fail, GenerateCards, Unlock, Switch, Tick
<1>3. TicketInv /\ [Next]_vars => TicketInv'
  BY TicketStep
<1> QED
  BY <1>1, <1>2, <1>3, PTL DEF Spec, DownloadIsEarned

-----------------------------------------------------------------------------
(* An upload's files carry its release's name, and an order to remove a release  *)
(* holds all its files until it has deleted those that can be: nothing brings    *)
(* them back.                                                                    *)

OwnFiles ==
  /\ \A r \in Releases : \A f \in row[r].files : f[2] = r
  /\ \A a \in Admins : At(a, "uploaded") \/ At(a, "insert") => \A f \in order[a].files : f[2] = order[a].rel

Unlinking(o, x, files, left) ==
  /\ o.at \in {"unlink", "delete"} => x.status # "none"
  /\ o.at = "unlink" => x.files = o.files
  /\ o.at = "delete" => x.files \cap files \subseteq left

FilesInv ==
  /\ OwnFiles
  /\ \A a \in Admins : order[a] # Null => Unlinking(order[a], row[order[a].rel], disk, stuck)

LEMMA FilesInit == Init => FilesInv
  BY DEF Init, FilesInv, OwnFiles, NoRow, At

(* Once a row is there its files stay the same; a new row has its order's. *)
LEMMA RowsKeepFiles ==
  ASSUME TypeInv, [Next]_vars, NEW r \in Releases
  PROVE  \/ row'[r] = row[r]
         \/ /\ row[r].status # "none" /\ row'[r].status # "none" /\ row'[r].files = row[r].files
         \/ \E a \in Admins : CreateInsert(a) /\ r = order[a].rel
<1> DEFINE Kept == row[r].status # "none" /\ row'[r].status # "none" /\ row'[r].files = row[r].files
<1>0. PICK F, T : Shape(F, T)
  BY DEF TypeInv
<1>1. ASSUME NEW a \in Admins, CreateInsert(a), r # order[a].rel
      PROVE  row'[r] = row[r]
  BY <1>0, <1>1 DEF CreateInsert, Shape
<1>2. ASSUME NEW a \in Admins, PublishCommit(a)
      PROVE  row'[r] = row[r] \/ Kept
  BY <1>0, <1>2 DEF PublishCommit, PublishedRow, Shape, Exists
<1>3. ASSUME NEW a \in Admins, Delete(a)
      PROVE  row'[r] = row[r] \/ Kept
  BY <1>0, <1>3 DEF Delete, Shape, Rows, Exists
<1>4. ASSUME NEW a \in Admins, Drop(a)
      PROVE  row'[r] = row[r] \/ Kept
  BY <1>0, <1>4 DEF Drop, Shape, Rows, Exists
<1>5. ASSUME NEW a \in Admins, EditWrite(a)
      PROVE  row'[r] = row[r] \/ Kept
  <2>1. ASSUME NEW sent \in Edits, NEW s, Exists(s), row' = [row EXCEPT ![s] = EditedRow(row[s], sent, order[a].dated)]
        PROVE  row'[r] = row[r] \/ Kept
    <3>1. Sent(sent.status, row[s].status) # "none"
      BY <2>1, CatalogAssumption DEF CatalogAssumption, Sent, Exists
    <3> QED
      BY <1>0, <2>1, <3>1 DEF EditedRow, Shape, Exists
  <2> QED
    BY <1>5, <2>1 DEF EditWrite
<1>v. ASSUME NEW s \in Releases, Archive(s)
      PROVE  row'[r] = row[r] \/ Kept
  BY <1>0, <1>v DEF Archive, Shape, Rows, Exists
<1>6. ASSUME UNCHANGED row PROVE row'[r] = row[r]
  BY <1>6
<1> HIDE DEF Kept
<1>7. ASSUME NEW a \in Admins, Create(a) \/ Publishing(a) \/ Editing(a) \/ Removing(a) \/ Fail(a),
             ~CreateInsert(a), ~PublishCommit(a), ~EditWrite(a), ~Delete(a), ~Drop(a)
      PROVE  UNCHANGED row
  BY <1>7, Zenon DEF Create, Publishing, Editing, Removing, Upload, CreateCheck, Publish, EnsureSignKey,
     ReadKeys, WriteKeys, Edit, Remove, Unlink, RemoveApp, ListFiles, Purge, Fail
<1>8. ASSUME GenerateCards \/ Site \/ UNCHANGED vars
      PROVE  UNCHANGED row
  BY <1>8, Zenon DEF GenerateCards, Site, Unlock, Download, Switch, Tick, vars
<1>9. row'[r] = row[r] \/ Kept \/ \E a \in Admins : CreateInsert(a) /\ r = order[a].rel
  <2>1. ASSUME NEW a \in Admins, Create(a) \/ Publishing(a) \/ Editing(a) \/ Removing(a) \/ Fail(a)
        PROVE  row'[r] = row[r] \/ Kept \/ (CreateInsert(a) /\ r = order[a].rel)
    BY <1>1, <1>2, <1>3, <1>4, <1>5, <1>6, <1>7, <2>1
  <2> QED
    BY <1>v, <1>6, <1>8, <2>1 DEF Next
<1> QED
  BY <1>9 DEF Kept

(* What could not be deleted is not forgotten. *)
LEMMA StuckGrows == [Next]_vars => stuck \subseteq stuck'
<1> SUFFICES ASSUME [Next]_vars PROVE stuck \subseteq stuck'
  OBVIOUS
<1>1. ASSUME NEW files, SafeUnlink(files) PROVE stuck \subseteq stuck'
  BY <1>1 DEF SafeUnlink
<1>2. CASE UNCHANGED stuck
  BY <1>2
<1>3. ASSUME NEW a \in Admins, CreateCheck(a) \/ Unlink(a) \/ Purge(a)
      PROVE  UNCHANGED stuck \/ \E files : SafeUnlink(files)
  BY <1>3, Zenon DEF CreateCheck, Unlink, Purge
<1>4. ASSUME NEW a \in Admins, Create(a) \/ Publishing(a) \/ Editing(a) \/ Removing(a) \/ Fail(a)
      PROVE  UNCHANGED stuck \/ \E files : SafeUnlink(files)
  BY <1>3, <1>4, Zenon DEF Create, Publishing, Editing, Removing, Upload, CreateInsert, Publish, EnsureSignKey,
     ReadKeys, WriteKeys, PublishCommit, Edit, EditWrite, Remove, Delete, RemoveApp, ListFiles, Drop, Fail
<1>5. ASSUME (\E r \in Releases : Archive(r)) \/ GenerateCards \/ Site \/ UNCHANGED vars
      PROVE  UNCHANGED stuck
  BY <1>5, Zenon DEF Archive, GenerateCards, Site, Unlock, Download, Switch, Tick, vars
<1> QED
  BY <1>1, <1>2, <1>4, <1>5 DEF Next

RowsKept ==
  \A r \in Releases :
    \/ row'[r] = row[r]
    \/ row[r].status # "none" /\ row'[r].status # "none" /\ row'[r].files = row[r].files

(* An order that neither uploads nor unlinks is of no concern. *)
Aside(o) == o = Null \/ o.at \notin {"uploaded", "insert", "unlink", "delete"}

LEMMA FilesFrame ==
  ASSUME TypeInv, FilesInv, RowsKept, disk' \subseteq disk, stuck \subseteq stuck',
         \A a \in Admins : order'[a] = order[a] \/ Aside(order'[a])
  PROVE  FilesInv'
<1>0. PICK F, T : Shape(F, T)
  BY DEF TypeInv
<1>1. \A r \in Releases : \A f \in row'[r].files : f[2] = r
  BY DEF RowsKept, FilesInv, OwnFiles
<1>2. \A a \in Admins : order'[a] # Null /\ order'[a].at \in {"uploaded", "insert"}
                        => \A f \in order'[a].files : f[2] = order'[a].rel
  BY DEF Aside, FilesInv, OwnFiles, At
<1>3. ASSUME NEW a \in Admins, order'[a] # Null
      PROVE  Unlinking(order'[a], row'[order'[a].rel], disk', stuck')
  <2>1. CASE Aside(order'[a])
    BY <1>3, <2>1 DEF Aside, Unlinking
  <2>2. CASE order'[a] = order[a]
    <3>1. order[a].rel \in Releases /\ Unlinking(order[a], row[order[a].rel], disk, stuck)
      BY <1>0, <1>3, <2>2 DEF Shape, Orders, FilesInv
    <3> QED
      BY <2>2, <3>1 DEF RowsKept, Unlinking
  <2> QED
    BY <2>1, <2>2
<1> QED
  BY <1>1, <1>2, <1>3 DEF FilesInv, OwnFiles, At

LEMMA FilesStep == TypeInv /\ FilesInv /\ [Next]_vars => FilesInv'
<1> SUFFICES ASSUME TypeInv, FilesInv, [Next]_vars PROVE FilesInv'
  OBVIOUS
<1>0. PICK F, T : Shape(F, T)
  BY DEF TypeInv
<1>1. /\ order \in [Admins -> Orders(F, T) \cup {Null}] /\ row \in [Releases -> Rows(F, T)]
      /\ \A b \in Admins : order[b] # Null => order[b].rel \in Releases
  BY <1>0 DEF Shape, Orders
<1>s. stuck \subseteq stuck'
  BY StuckGrows
<1>2. ASSUME NEW a \in Admins, CreateInsert(a)
      PROVE  FilesInv'
  <2> DEFINE r == order[a].rel
  <2>1. r \in Releases /\ order' = [order EXCEPT ![a] = Null] /\ disk' = disk
    BY <1>1, <1>2 DEF CreateInsert, At, Over
  <2>2. row' = row \/ /\ row[r].status = "none" /\ row'[r].files = order[a].files
                      /\ \A s \in Releases \ {r} : row'[s] = row[s]
    BY <1>1, <1>2 DEF CreateInsert, Exists, NoRow
  <2>3. \A s \in Releases : \A f \in row'[s].files : f[2] = s
    BY <1>2, <2>2 DEF CreateInsert, FilesInv, OwnFiles
  <2>4. \A b \in Admins : order'[b] = Null \/ (b # a /\ order'[b] = order[b])
    BY <1>1, <2>1
  <2>5. ASSUME NEW b \in Admins, order'[b] # Null
        PROVE  Unlinking(order'[b], row'[order'[b].rel], disk', stuck')
    <3>1. /\ b # a /\ order'[b] = order[b] /\ order[b] # Null /\ order[b].rel \in Releases
          /\ Unlinking(order[b], row[order[b].rel], disk, stuck)
      BY <1>1, <2>4, <2>5 DEF FilesInv
    <3>2. row'[order[b].rel] = row[order[b].rel] \/ row[order[b].rel].status = "none"
      BY <2>2, <3>1
    <3> QED
      BY <1>s, <2>1, <3>1, <3>2 DEF Unlinking
  <2> QED
    BY <2>3, <2>4, <2>5 DEF FilesInv, OwnFiles, At
<1>3. CASE ~\E a \in Admins : CreateInsert(a)
  <2>0. RowsKept
    BY <1>3, RowsKeepFiles DEF RowsKept
  <2>1. ASSUME NEW a \in Admins, NEW r \in Releases, NEW sent, Upload(a, r, sent)
        PROVE  FilesInv'
    <3> DEFINE files == {File(a, r, kind) : kind \in sent.kinds}
               o == [op |-> "create", rel |-> r, at |-> "uploaded", key |-> Null, files |-> files,
                     link |-> sent.link, away |-> sent.away, dated |-> Null]
    <3>1. /\ row' = row /\ disk' = disk \cup files /\ files \cap row[r].files = {} /\ stuck' = stuck
          /\ order' = [order EXCEPT ![a] = o]
      BY <2>1 DEF Upload
    <3>2. \A f \in files : f[2] = r
      BY DEF File
    <3>3. \A s \in Releases : row[s].files \cap files = {}
      BY <3>1, <3>2 DEF FilesInv, OwnFiles
    <3>4. o.at = "uploaded" /\ o.files = files /\ o.rel = r
      OBVIOUS
    <3> HIDE DEF o, files
    <3>5. order'[a] = o /\ \A b \in Admins \ {a} : order'[b] = order[b]
      BY <1>1, <3>1
    <3>6. ASSUME NEW b \in Admins, order'[b] # Null
          PROVE  Unlinking(order'[b], row'[order'[b].rel], disk', stuck')
      BY <1>1, <3>1, <3>3, <3>4, <3>5, <3>6 DEF FilesInv, Unlinking
    <3>7. OwnFiles'
      BY <3>1, <3>2, <3>4, <3>5 DEF FilesInv, OwnFiles, At
    <3> QED
      BY <3>6, <3>7 DEF FilesInv
  <2>2. ASSUME NEW a \in Admins, CreateCheck(a)
        PROVE  FilesInv'
    <3>1. row' = row /\ disk' \subseteq disk /\ order[a] # Null /\ order[a].at = "uploaded"
      BY <2>2 DEF CreateCheck, At, SafeUnlink
    <3>2. Over(a) \/ Goto(a, "insert")
      BY <2>2 DEF CreateCheck
    <3>3. CASE Over(a)
      BY <1>1, <1>s, <2>0, <3>1, <3>3, FilesFrame DEF Over, Aside
    <3>4. CASE Goto(a, "insert")
      <4>1. order' = [order EXCEPT ![a] = [order[a] EXCEPT !.at = "insert"]] /\ order[a] \in Orders(F, T)
        BY <1>1, <3>1, <3>4 DEF Goto
      <4>2. /\ order'[a].at = "insert" /\ order'[a].rel = order[a].rel /\ order'[a].files = order[a].files
            /\ \A b \in Admins \ {a} : order'[b] = order[b]
        BY <1>1, <4>1 DEF Orders
      <4>3. ASSUME NEW b \in Admins, order'[b] # Null
            PROVE  Unlinking(order'[b], row'[order'[b].rel], disk', stuck')
        BY <1>1, <1>s, <3>1, <4>2, <4>3 DEF FilesInv, Unlinking
      <4>4. OwnFiles'
        BY <3>1, <4>2 DEF FilesInv, OwnFiles, At
      <4> QED
        BY <4>3, <4>4 DEF FilesInv
    <3> QED
      BY <3>2, <3>3, <3>4
  <2>3. ASSUME NEW a \in Admins, NEW r \in Releases, Remove(a, r)
        PROVE  FilesInv'
    <3>1. row' = row /\ disk' = disk /\ stuck' = stuck /\ row[r].status # "none"
      BY <2>3 DEF Remove, Exists
    <3>2. /\ order'[a].at = "unlink" /\ order'[a].rel = r /\ order'[a].files = row[r].files
          /\ \A b \in Admins \ {a} : order'[b] = order[b]
      BY <1>1, <2>3 DEF Remove, Begin
    <3>3. ASSUME NEW b \in Admins, order'[b] # Null
          PROVE  Unlinking(order'[b], row'[order'[b].rel], disk', stuck')
      BY <1>1, <3>1, <3>2, <3>3 DEF FilesInv, Unlinking
    <3>4. OwnFiles'
      BY <3>1, <3>2 DEF FilesInv, OwnFiles, At
    <3> QED
      BY <3>3, <3>4 DEF FilesInv
  <2>4. ASSUME NEW a \in Admins, Unlink(a)
        PROVE  FilesInv'
    <3>1. /\ row' = row /\ SafeUnlink(order[a].files) /\ order[a] # Null /\ order[a].at = "unlink"
          /\ order' = [order EXCEPT ![a] = [order[a] EXCEPT !.at = "delete"]] /\ order[a] \in Orders(F, T)
      BY <1>1, <2>4 DEF Unlink, Unlinked, At, Goto
    <3>d. disk' \subseteq disk /\ order[a].files \cap disk' \subseteq stuck'
      BY <3>1 DEF SafeUnlink
    <3>2. /\ order'[a].at = "delete" /\ order'[a].rel = order[a].rel
          /\ \A b \in Admins \ {a} : order'[b] = order[b]
      BY <1>1, <3>1 DEF Orders
    <3>3. Unlinking(order[a], row[order[a].rel], disk, stuck)
      BY <3>1 DEF FilesInv
    <3>4. ASSUME NEW b \in Admins, order'[b] # Null
          PROVE  Unlinking(order'[b], row'[order'[b].rel], disk', stuck')
      BY <1>1, <1>s, <3>1, <3>d, <3>2, <3>3, <3>4 DEF FilesInv, Unlinking
    <3>5. OwnFiles'
      BY <3>1, <3>2 DEF FilesInv, OwnFiles, At
    <3> QED
      BY <3>4, <3>5 DEF FilesInv
  <2>5. ASSUME disk' \subseteq disk, \A a \in Admins : order'[a] = order[a] \/ Aside(order'[a])
        PROVE  FilesInv'
    BY <1>s, <2>0, <2>5, FilesFrame
  <2>6. ASSUME NEW a \in Admins, NEW r, NEW op, NEW place \in {"keys", "commit", "edit", "list"}, Begin(a, op, r, place), disk' = disk
        PROVE  FilesInv'
    <3>1. order'[a].at = place /\ \A b \in Admins \ {a} : order'[b] = order[b]
      BY <1>1, <2>6 DEF Begin
    <3> QED
      BY <2>5, <2>6, <3>1 DEF Aside
  <2>7. ASSUME NEW a \in Admins, Over(a), disk' \subseteq disk
        PROVE  FilesInv'
    BY <1>1, <2>5, <2>7 DEF Over, Aside
  <2>8. ASSUME NEW a \in Admins, order'[a].at \in {"generate", "commit", "purge", "drop"},
               \A b \in Admins \ {a} : order'[b] = order[b], disk' \subseteq disk
        PROVE  FilesInv'
    BY <2>5, <2>8 DEF Aside
  <2>9. ASSUME NEW a \in Admins, ReadKeys(a) \/ WriteKeys(a)
        PROVE  FilesInv'
    <3>1. order[a] # Null /\ disk' = disk /\ order[a] \in Orders(F, T)
      BY <1>1, <2>9, Zenon DEF ReadKeys, WriteKeys, At
    <3>2. Over(a) \/ Goto(a, "generate") \/ \E key : KeyIs(a, key)
      BY <2>9, Zenon DEF ReadKeys, WriteKeys
    <3>3. CASE Over(a)
      BY <2>7, <3>1, <3>3
    <3>4. CASE Goto(a, "generate")
      <4>1. order' = [order EXCEPT ![a] = [order[a] EXCEPT !.at = "generate"]]
        BY <3>4 DEF Goto
      <4>2. order'[a].at = "generate" /\ \A b \in Admins \ {a} : order'[b] = order[b]
        BY <1>1, <3>1, <4>1 DEF Orders
      <4> QED
        BY <2>8, <3>1, <4>2
    <3>5. ASSUME NEW key, KeyIs(a, key), ~Over(a)
          PROVE  FilesInv'
      <4>1. order' = [order EXCEPT ![a] = [order[a] EXCEPT !.key = key, !.at = "commit"]]
        BY <3>5 DEF KeyIs
      <4>2. order'[a].at = "commit" /\ \A b \in Admins \ {a} : order'[b] = order[b]
        BY <1>1, <3>1, <4>1 DEF Orders
      <4> QED
        BY <2>8, <3>1, <4>2
    <3> QED
      BY <3>2, <3>3, <3>4, <3>5
  <2>10. ASSUME NEW a \in Admins, ListFiles(a) \/ Purge(a)
         PROVE  FilesInv'
    <3>1. disk' \subseteq disk /\ order[a] \in Orders(F, T)
      BY <1>1, <2>10 DEF ListFiles, Purge, At, SafeUnlink
    <3>2. order'[a].at \in {"purge", "drop"} /\ \A b \in Admins \ {a} : order'[b] = order[b]
      <4>1. CASE ListFiles(a)
        <5> DEFINE o == [order EXCEPT ![a].at = "purge"]
        <5>1. o[a].at = "purge" /\ \A b \in Admins \ {a} : o[b] = order[b]
          BY <1>1, <3>1 DEF Orders
        <5>2. o \in [Admins -> Orders(F, T) \cup {Null}] /\ o[a] \in Orders(F, T)
          BY <1>1, <3>1 DEF Orders, Places
        <5>3. PICK files : order' = [o EXCEPT ![a] = [o[a] EXCEPT !.files = files]]
          BY <1>1, <3>1, <4>1 DEF ListFiles
        <5> HIDE DEF o
        <5> QED
          BY <5>1, <5>2, <5>3 DEF Orders
      <4>2. CASE Purge(a)
        <5>1. order' = [order EXCEPT ![a] = [order[a] EXCEPT !.at = "drop"]]
          BY <4>2 DEF Purge, Goto
        <5> QED
          BY <1>1, <3>1, <5>1 DEF Orders
      <4> QED
        BY <2>10, <4>1, <4>2
    <3> QED
      BY <2>8, <3>1, <3>2
  <2>11. ASSUME NEW a \in Admins, PublishCommit(a) \/ EditWrite(a) \/ Delete(a) \/ Drop(a) \/ Fail(a)
         PROVE  FilesInv'
    BY <2>7, <2>11 DEF PublishCommit, EditWrite, Delete, Drop, Fail
  <2>12. ASSUME NEW a \in Admins, (\E r \in Releases : Publish(a, r) \/ Edit(a, r)) \/ EnsureSignKey(a) \/ RemoveApp(a)
         PROVE  FilesInv'
    BY <2>6, <2>12 DEF Publish, Edit, EnsureSignKey, RemoveApp
  <2>13. ASSUME (\E r \in Releases : Archive(r)) \/ GenerateCards \/ Site \/ UNCHANGED vars
         PROVE  FilesInv'
    <3>1. UNCHANGED <<order, disk>>
      BY <2>13, Zenon DEF Archive, GenerateCards, Site, Unlock, Download, Switch, Tick, vars
    <3> QED
      BY <2>5, <3>1
  <2>14. ASSUME NEW a \in Admins, Create(a) \/ Publishing(a) \/ Editing(a) \/ Removing(a) \/ Fail(a)
         PROVE  FilesInv'
    BY <1>3, <2>1, <2>2, <2>3, <2>4, <2>9, <2>10, <2>11, <2>12, <2>14 DEF Create, Publishing, Editing, Removing
  <2> QED
    BY <2>13, <2>14 DEF Next
<1> QED
  BY <1>2, <1>3

(* releases.service.ts:266-270: whoever else edits, publishes, uploads or         *)
(* removes, when a release's row is deleted only such of its files are left as   *)
(* a deletion failed for, whatever failed before.                                *)
THEOREM RemovalsLeaveNoFile == Spec => RemovedLeavesNoFile
<1> DEFINE Clean == \A r \in Releases : Removed(r) => row[r].files \cap disk' \subseteq stuck'
<1>1. Init => TypeInv /\ FilesInv
  BY TypeInit, FilesInit
<1>2. TypeInv /\ FilesInv /\ [Next]_vars => TypeInv' /\ FilesInv'
  BY TypeStep, FilesStep
<1>3. TypeInv /\ FilesInv /\ [Next]_vars => [Clean]_row
  <2> SUFFICES ASSUME TypeInv, FilesInv, [Next]_vars, NEW r \in Releases, Exists(r),
                      row'[r].status = "gone", app'.exists
               PROVE  row[r].files \cap disk' \subseteq stuck'
    BY DEF Removed
  <2>0. PICK F, T : Shape(F, T)
    BY DEF TypeInv
  <2>1. PICK a \in Admins : Delete(a)
    <3>1. ASSUME NEW a \in Admins, CreateInsert(a) \/ PublishCommit(a)
          PROVE  FALSE
      BY <2>0, <3>1 DEF CreateInsert, PublishCommit, PublishedRow, NoRow, Exists, Shape
    <3>2. ASSUME NEW a \in Admins, Drop(a)
          PROVE  FALSE
      BY <3>2 DEF Drop, TypeInv
    <3>3. ASSUME NEW a \in Admins, EditWrite(a)
          PROVE  FALSE
      <4>1. PICK sent \in Edits, s \in {order[a].rel} : Exists(s) /\ row' = [row EXCEPT ![s] = EditedRow(row[s], sent, order[a].dated)]
        BY <3>3 DEF EditWrite, Exists
      <4>2. Sent(sent.status, row[s].status) # "gone"
        BY <4>1, CatalogAssumption DEF CatalogAssumption, Sent, Exists
      <4> QED
        BY <2>0, <4>1, <4>2 DEF EditedRow, Exists, Shape
    <3>v. ASSUME NEW s \in Releases, Archive(s)
          PROVE  FALSE
      BY <2>0, <3>v DEF Archive, Exists, Shape, Rows
    <3>4. row' # row
      BY DEF Exists
    <3>5. ASSUME NEW a \in Admins, Create(a) \/ Publishing(a) \/ Editing(a) \/ Removing(a) \/ Fail(a), ~Delete(a)
          PROVE  FALSE
      <4>1. ~CreateInsert(a) /\ ~PublishCommit(a) /\ ~EditWrite(a) /\ ~Drop(a)
        BY <3>1, <3>2, <3>3
      <4>2. UNCHANGED row
        BY <3>5, <4>1, Zenon DEF Create, Publishing, Editing, Removing, Upload, CreateCheck, Publish, EnsureSignKey,
           ReadKeys, WriteKeys, Edit, Remove, Unlink, RemoveApp, ListFiles, Purge, Fail
      <4> QED
        BY <3>4, <4>2
    <3>6. ~(GenerateCards \/ Site \/ UNCHANGED vars)
      BY <3>4, Zenon DEF GenerateCards, Site, Unlock, Download, Switch, Tick, vars
    <3> QED
      BY <3>v, <3>5, <3>6 DEF Next
  <2>2. order[a] # Null /\ order[a].at = "delete" /\ order[a].rel = r /\ disk' = disk /\ stuck' = stuck
    BY <2>0, <2>1 DEF Delete, At, Exists, Shape
  <2> QED
    BY <2>2 DEF FilesInv, Unlinking
<1> QED
  BY <1>1, <1>2, <1>3, PTL DEF Spec, RemovedLeavesNoFile

-----------------------------------------------------------------------------
(* The highest version: a finite set of naturals. *)

LEMMA Least ==
  ASSUME NEW S \in SUBSET Nat, S # {}
  PROVE  \E x \in S : \A y \in S : x <= y
<1> DEFINE R == OpToRel(<, Nat)
<1>1. \A x, y \in Nat : x < y => <<x, y>> \in R
  BY Zenon DEF OpToRel
<1>2. IsWellFoundedOn(R, Nat)
  BY NatLessThanWellFounded, Zenon
<1> HIDE DEF R
<1>3. PICK x \in S : \A y \in S : ~(<<y, x>> \in R)
  BY <1>2, WFMin, Zenon
<1>4. ASSUME NEW y \in S
      PROVE  ~(y < x)
  BY <1>1, <1>3, Zenon
<1>5. \A y \in S : x <= y
  BY <1>4
<1> QED
  BY <1>5

Larger(n, S) == {m \in S : m > n}

(* The one with the fewest over it has none over it. *)
LEMMA Greatest ==
  ASSUME NEW S \in SUBSET Nat, S # {}, IsFiniteSet(S)
  PROVE  \E x \in S : \A y \in S : x >= y
<1> DEFINE Sizes == {Cardinality(Larger(n, S)) : n \in S}
<1>1. \A n \in S : IsFiniteSet(Larger(n, S)) /\ Cardinality(Larger(n, S)) \in Nat
  BY FS_Subset, FS_CardinalityType DEF Larger
<1>2. Sizes \subseteq Nat /\ Sizes # {}
  BY <1>1
<1>3. PICK c \in Sizes : \A m \in Sizes : c <= m
  BY <1>2, Least
<1>4. PICK x \in S : c = Cardinality(Larger(x, S))
  BY <1>3
<1>5. ASSUME NEW y \in S, y > x
      PROVE  FALSE
  <2>0. x \in Nat /\ y \in Nat /\ \A m \in S : m \in Nat
    BY <1>4
  <2>1. y \in Larger(x, S) /\ y \notin Larger(y, S) /\ Larger(y, S) \subseteq Larger(x, S)
    <3>1. y \in Larger(x, S) /\ y \notin Larger(y, S)
      BY <1>5, <2>0 DEF Larger
    <3>2. \A m \in S : m > y => m > x
      BY <1>5, <2>0
    <3> QED
      BY <3>1, <3>2 DEF Larger
  <2>2. Cardinality(Larger(y, S)) <= Cardinality(Larger(x, S)) /\ Cardinality(Larger(y, S)) # Cardinality(Larger(x, S))
    BY <1>1, <2>1, FS_Subset
  <2>3. Cardinality(Larger(x, S)) <= Cardinality(Larger(y, S))
    BY <1>3, <1>4
  <2> QED
    BY <1>1, <2>2, <2>3
<1> QED
  BY <1>5

-----------------------------------------------------------------------------
(* The policy offers the highest of the last published releases that reaches the *)
(* device.                                                                       *)

Reaching(d) == {r \in LastPublished : Reached(d, r)}

LEMMA OfferIsHighest ==
  ASSUME NEW d
  PROVE  /\ Offer(d) \in Nat
         /\ Reaching(d) # {} => Offer(d) \in Reaching(d)
         /\ Reaching(d) = {} => Offer(d) = 0
         /\ \A s \in Reaching(d) : s <= Offer(d)
<1>1. Offer(d) = IF Reaching(d) = {} THEN 0 ELSE CHOOSE r \in Reaching(d) : \A s \in Reaching(d) : s <= r
  BY DEF Offer, Reaching
<1>2. Reaching(d) \in SUBSET Nat /\ IsFiniteSet(Reaching(d))
  BY CatalogAssumption, FS_Subset DEF CatalogAssumption, Reaching, LastPublished, Published
<1>3. CASE Reaching(d) = {}
  BY <1>1, <1>3
<1>4. CASE Reaching(d) # {}
  <2>1. PICK x \in Reaching(d) : \A y \in Reaching(d) : x >= y
    BY <1>2, <1>4, Greatest
  <2>2. \A y \in Reaching(d) : y <= x
    BY <1>2, <2>1
  <2> QED
    BY <1>1, <1>2, <1>4, <2>2
<1> QED
  BY <1>3, <1>4

(* policy.service.ts:114-133: what a device is offered falls only when a release *)
(* is taken back, its rollout is lowered, or the one it was offered is no longer *)
(* among the Take last published, however publishing, editing and raising        *)
(* rollouts are ordered.                                                         *)
THEOREM OffersNeverFall == Spec => OfferNeverFalls
<1> DEFINE Rises == ~TakenBack =>
                      \A d \in Devices : Offer(d) \in LastPublished' => Offer(d)' >= Offer(d)
<1>1. Init => TypeInv
  BY TypeInit
<1>2. TypeInv /\ [Next]_vars => TypeInv'
  BY TypeStep
<1>3. ASSUME NEW d PROVE (Offer(d) \in Nat /\ \A s \in Reaching(d) : s <= Offer(d))'
  BY OfferIsHighest, PTL
<1>4. TypeInv /\ TypeInv' => Rises
  <2> SUFFICES ASSUME TypeInv, TypeInv', ~TakenBack, NEW d \in Devices, Offer(d) \in LastPublished'
               PROVE  Offer(d)' >= Offer(d)
    OBVIOUS
  <2>0. PICK F, T, G, S : Shape(F, T) /\ Shape(G, S)'
    BY DEF TypeInv
  <2>1. PICK r \in Releases : r = Offer(d) /\ r \in LastPublished' /\ r \in Published' /\ r # 0
    BY CatalogAssumption DEF CatalogAssumption, LastPublished, Published
  <2>2. r \in Published /\ Reached(d, r)
    BY <2>1, OfferIsHighest DEF Reaching, LastPublished
  <2>3. row[r].rollout \in {50, 100} /\ row'[r].rollout \in {50, 100} /\ ~(row'[r].rollout < row[r].rollout)
    BY <2>0, <2>1, <2>2 DEF TakenBack, Published, Shape, Rows
  <2>4. Reached(d, r)'
    BY <2>2, <2>3 DEF Reached
  <2>5. r \in Reaching(d)'
    BY <2>1, <2>4 DEF Reaching
  <2>6. r <= Offer(d)'
    BY <1>3, <2>5
  <2>7. Offer(d)' >= r
    <3>1. Offer(d)' \in Nat /\ r \in Nat
      BY <2>1, <1>3, CatalogAssumption DEF CatalogAssumption
    <3> QED
      BY <2>6, <3>1
  <2> QED
    BY <2>1, <2>7
<1> QED
  BY <1>1, <1>2, <1>4, PTL DEF Spec, OfferNeverFalls

================================================================================
