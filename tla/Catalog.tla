-------------------------------- MODULE Catalog --------------------------------
(***************************************************************************)
(* The releases of one application: administrators upload, publish, edit,  *)
(* archive and remove them, or remove the application; the policy offers   *)
(* one to every device, and the distribution site gives the installer to   *)
(* whoever shows a usable card. Reads, writes and the files on the disk    *)
(* are steps of their own, as between two awaits of the code.              *)
(***************************************************************************)
EXTENDS Integers, FiniteSets, FiniteSetsExt

CONSTANTS
  Null,      \* no order, no signature, no date, no ticket
  Admins,    \* administrators, each with one order at a time
  Buyer,     \* somebody who downloads from the site
  Parties,   \* bound: who may be active together
  Releases,  \* version numbers; bound: a version is created once
  Uploads,   \* bound: what create is sent: kinds of files, a link to a package or
             \*   none, one to an installer or none
  Edits,     \* bound: what update is sent: fields, or Null for what it is not
  Devices,   \* devices that ask for the policy
  Lucky,     \* <<device, release>>: the bucket is below a partial rollout
  Take,      \* how many of the last published releases are looked at
  Ttl,       \* how long a ticket is good for
  MaxTime,   \* bound: the last instant
  MaxOrders, \* bound: orders given
  MaxStuck   \* bound: files whose deletion fails

ASSUME CatalogAssumption ==
  /\ Releases \subseteq Nat \ {0} /\ Releases # {} /\ IsFiniteSet(Releases)
  /\ Lucky \subseteq Devices \X Releases
  /\ Take \in Nat \ {0} /\ Ttl \in Nat /\ MaxTime \in Nat /\ MaxStuck \in Nat
  /\ Null \notin Admins \cup Nat \cup BOOLEAN \cup {"draft", "published", "archived"}
  /\ Uploads \subseteq [kinds : SUBSET {"package", "installer"}, link : BOOLEAN, away : BOOLEAN]
  /\ Edits \subseteq [status : {"draft", "published", "archived", Null},
                      rollout : {50, 100, Null}, link : BOOLEAN \cup {Null}]
  /\ Parties \subseteq SUBSET (Admins \cup {Buyer})

VARIABLES
  active,   \* who is active
  app,      \* whether it exists, its signing keys, whether it has cards, and
            \*   whether the site lets the buyer in
  row,      \* release -> its row in app_releases
  disk,     \* the files under the storage directory
  order,    \* administrator -> the order being carried out, or Null
  orders,   \* how many were given
  now,      \* the time
  ticket,   \* the buyer's ticket, or Null
  given,    \* history: public keys some developer has built into a client
  twins,    \* history: two orders found no keys at the same time
  stuck,    \* history: files whose deletion failed
  shown,    \* history: when the site last let the buyer in
  downloads, \* the site's downloadCount; bound: 1
  led       \* history: how often it led the buyer elsewhere; bound: 1

vars == <<active, app, row, disk, order, orders, now, ticket, given, twins, stuck, shown,
          downloads, led>>
siteVars == <<active, now, ticket, shown, downloads, led>>

(* Names are random: one for every upload. *)
File(a, r, kind) == <<a, r, kind>>
NoRow == [status |-> "none", files |-> {}, link |-> FALSE, away |-> FALSE, signed |-> Null,
          rollout |-> 100, at |-> Null]

(* An application that may be older than signed packages. *)
Init ==
  /\ active \in Parties
  /\ app \in [exists : {TRUE}, keys : Admins \cup {Null}, cards : {FALSE}, open : {TRUE}]
  /\ row = [r \in Releases |-> NoRow] /\ disk = {} /\ order = [a \in Admins |-> Null] /\ orders = 0
  /\ now = 0 /\ ticket = Null /\ given = {} /\ twins = FALSE /\ stuck = {}
  /\ shown = Null /\ downloads = 0 /\ led = 0

Exists(r) == row[r].status \notin {"none", "gone"}
Has(r, kind) == \E f \in row[r].files : f[3] = kind
Published == {r \in Releases : row[r].status = "published"}

(* The date of a release published now, as a rank among those that are known. *)
Dates == {row[r].at : r \in Releases} \cup {order[a].dated : a \in {b \in Admins : order[b] # Null}}
Stamp == 1 + Max((Dates \ {Null}) \cup {0})

Whichever == CHOOSE r \in Releases : TRUE
Count == orders < MaxOrders /\ orders' = orders + 1
At(a, place) == order[a] # Null /\ order[a].at = place
Goto(a, place) == order' = [order EXCEPT ![a].at = place] /\ orders' = orders
Over(a) == order' = [order EXCEPT ![a] = Null] /\ orders' = orders
Begin(a, op, r, place) ==
  /\ order[a] = Null /\ Count
  /\ order' = [order EXCEPT ![a] = [op |-> op, rel |-> r, at |-> place, key |-> Null,
                                 files |-> row[r].files, link |-> FALSE, away |-> FALSE,
                                 dated |-> row[r].at]]

(* safeUnlink: what cannot be deleted stays, and nobody is told. *)
SafeUnlink(files) ==
  \E left \in SUBSET (files \cap disk) :
    /\ left # {} => Cardinality(stuck \cup left) <= MaxStuck
    /\ disk' = disk \ (files \ left)
    /\ stuck' = stuck \cup left

-----------------------------------------------------------------------------
(* create: the files are on the disk before the handler runs.               *)

Upload(a, r, sent) ==
  /\ order[a] = Null /\ row[r].status # "gone" /\ Count
  /\ LET files == {File(a, r, kind) : kind \in sent.kinds}
     IN  /\ order' = [order EXCEPT ![a] = [op |-> "create", rel |-> r, at |-> "uploaded",
                                          key |-> Null, files |-> files, link |-> sent.link,
                                          away |-> sent.away, dated |-> Null]]
         /\ files \cap (disk \cup row[r].files) = {} /\ disk' = disk \cup files
  /\ UNCHANGED <<app, row, given, twins, stuck, siteVars>>

(* Without a package and a link it throws, and leaves the installer behind. *)
CreateCheck(a) ==
  /\ At(a, "uploaded")
  /\ LET o == order[a]
         fits == o.link \/ \E f \in o.files : f[3] = "package"
     IN  IF ~app.exists \/ Exists(o.rel)
         THEN SafeUnlink(o.files) /\ Over(a)
         ELSE UNCHANGED <<disk, stuck>> /\ IF fits THEN Goto(a, "insert") ELSE Over(a)
  /\ UNCHANGED <<app, row, given, twins, siteVars>>

(* The unique index or the foreign key may refuse it; the files stay. Bound: a
   version that was removed is not created again.                           *)
CreateInsert(a) ==
  /\ At(a, "insert") /\ row[order[a].rel].status # "gone"
  /\ LET o == order[a]
     IN  row' = IF app.exists /\ ~Exists(o.rel)
                THEN [row EXCEPT ![o.rel] = [NoRow EXCEPT
                             !.status = "draft", !.files = o.files, !.link = o.link,
                             !.away = o.away]]
                ELSE row
  /\ Over(a)
  /\ UNCHANGED <<app, disk, given, twins, stuck, siteVars>>

-----------------------------------------------------------------------------
(* publish: read, sign, and one transaction.                                *)

Publish(a, r) ==
  /\ Exists(r) /\ (Has(r, "package") \/ row[r].link)
  /\ Begin(a, "publish", r,
           IF row[r].signed = Null /\ Has(r, "package") THEN "keys" ELSE "commit")
  /\ UNCHANGED <<app, row, disk, given, twins, stuck, siteVars>>

EnsureSignKey(a) ==
  /\ app.exists
  /\ Begin(a, "key", Whichever, "keys")
  /\ UNCHANGED <<app, row, disk, given, twins, stuck, siteVars>>

(* The answer to ensureSignKey goes into a client; publish goes on to sign. *)
KeyIs(a, key) ==
  IF order[a].op = "key" THEN Over(a) /\ given' = given \cup {key}
  ELSE /\ order' = [order EXCEPT ![a].key = key, ![a].at = "commit"]
       /\ UNCHANGED <<orders, given>>

(* Mutant of ReadKeys: makes a new pair although there is one. *)
ReadKeysAlways(a) ==
  /\ At(a, "keys")
  /\ Goto(a, "generate") /\ UNCHANGED <<given, app, row, disk, twins, stuck, siteVars>>

ReadKeys(a) ==
  /\ At(a, "keys")
  /\ CASE ~app.exists      -> Over(a) /\ UNCHANGED given
       [] app.keys # Null  -> KeyIs(a, app.keys)
       [] OTHER            -> Goto(a, "generate") /\ UNCHANGED given
  /\ UNCHANGED <<app, row, disk, twins, stuck, siteVars>>

WriteKeys(a) ==
  /\ At(a, "generate")
  /\ IF app.exists THEN app' = [app EXCEPT !.keys = a] /\ KeyIs(a, a)
                   ELSE Over(a) /\ UNCHANGED <<app, given>>
  /\ twins' = (twins \/ \E b \in Admins \ {a} : At(b, "generate"))
  /\ UNCHANGED <<row, disk, stuck, siteVars>>

(* The row of a release as it is published; dated is the date that was read. *)
PublishedRow(x, percent, dated, key) ==
  [status |-> "published", files |-> x.files, link |-> x.link, away |-> x.away, rollout |-> percent,
   at |-> IF dated = Null THEN Stamp ELSE dated, signed |-> IF key = Null THEN x.signed ELSE key]

PublishCommit(a) ==
  /\ At(a, "commit")
  /\ LET o == order[a]
     IN  IF Exists(o.rel)
         THEN \E percent \in {50, 100} :
              row' = [row EXCEPT ![o.rel] = PublishedRow(row[o.rel], percent, o.dated, o.key)]
         ELSE row' = row
  /\ Over(a)
  /\ UNCHANGED <<app, disk, given, twins, stuck, siteVars>>

-----------------------------------------------------------------------------
(* update: reads the row, then writes the fields it was sent, and with a status
   the date it has read. A release published so is neither signed nor the
   latest version. archive looks at nothing but that the release is there.   *)

Edit(a, r) ==
  /\ Exists(r) /\ Begin(a, "edit", r, "edit")
  /\ UNCHANGED <<app, row, disk, given, twins, stuck, siteVars>>

Sent(field, old) == IF field = Null THEN old ELSE field
EditedRow(x, sent, dated) ==
  [status |-> Sent(sent.status, x.status), files |-> x.files, link |-> Sent(sent.link, x.link),
   away |-> x.away, rollout |-> Sent(sent.rollout, x.rollout), signed |-> x.signed,
   at |-> CASE sent.status = Null -> x.at
            [] sent.status = "published" /\ dated = Null -> Stamp
            [] OTHER -> dated]

EditWrite(a) ==
  /\ At(a, "edit")
  /\ LET o == order[a]
     IN  IF Exists(o.rel)
         THEN \E sent \in Edits :
                row' = [row EXCEPT ![o.rel] = EditedRow(row[o.rel], sent, o.dated)]
         ELSE row' = row
  /\ Over(a)
  /\ UNCHANGED <<app, disk, given, twins, stuck, siteVars>>

Archive(r) ==
  /\ Exists(r) /\ row[r].status # "archived" /\ Count
  /\ row' = [row EXCEPT ![r].status = "archived"]
  /\ UNCHANGED <<app, disk, order, given, twins, stuck, siteVars>>

-----------------------------------------------------------------------------
(* remove: read, unlink both files, delete the row.                         *)

Remove(a, r) ==
  /\ Exists(r) /\ row[r].status # "published"
  /\ Begin(a, "remove", r, "unlink")
  /\ UNCHANGED <<app, row, disk, given, twins, stuck, siteVars>>

(* Mutant of Unlinked: the package alone. *)
UnlinkedPackage(o) == {f \in o.files : f[3] = "package"}

Unlinked(o) == o.files

Unlink(a) ==
  /\ At(a, "unlink")
  /\ SafeUnlink(Unlinked(order[a])) /\ Goto(a, "delete")
  /\ UNCHANGED <<app, row, given, twins, siteVars>>

Delete(a) ==
  /\ At(a, "delete")
  /\ LET r == order[a].rel
     IN  row' = IF Exists(r) THEN [row EXCEPT ![r].status = "gone"] ELSE row
  /\ Over(a)
  /\ UNCHANGED <<app, disk, given, twins, stuck, siteVars>>

(* Removing the application: no cards, then the files, then the row with all
   that hangs on it, cards added meanwhile included.                        *)
RemoveApp(a) ==
  /\ app.exists /\ ~app.cards
  /\ Begin(a, "remove app", Whichever, "list")
  /\ UNCHANGED <<app, row, disk, given, twins, stuck, siteVars>>

ListFiles(a) ==
  /\ At(a, "list")
  /\ order' = [order EXCEPT ![a].at = "purge",
                            ![a].files = UNION {row[r].files : r \in {s \in Releases : Exists(s)}}]
  /\ orders' = orders
  /\ UNCHANGED <<app, row, disk, given, twins, stuck, siteVars>>

Purge(a) ==
  /\ At(a, "purge")
  /\ SafeUnlink(order[a].files) /\ Goto(a, "drop")
  /\ UNCHANGED <<app, row, given, twins, siteVars>>

Drop(a) ==
  /\ At(a, "drop")
  /\ app' = [app EXCEPT !.exists = FALSE, !.cards = FALSE]
  /\ row' = [r \in Releases |-> IF Exists(r) THEN [row[r] EXCEPT !.status = "gone"] ELSE row[r]]
  /\ Over(a)
  /\ UNCHANGED <<disk, given, twins, stuck, siteVars>>

(* The process dies, or a statement fails: the order stops where it is. *)
Fail(a) ==
  /\ order[a] # Null /\ Over(a)
  /\ UNCHANGED <<app, row, disk, given, twins, stuck, siteVars>>

GenerateCards ==
  /\ app.exists /\ ~app.cards /\ app' = [app EXCEPT !.cards = TRUE]
  /\ UNCHANGED <<row, disk, order, orders, given, twins, stuck, siteVars>>

-----------------------------------------------------------------------------
(* What the policy offers.                                                  *)

LastPublished ==
  {r \in Published : Cardinality({s \in Published : row[s].at > row[r].at}) < Take}
Reached(d, r) == row[r].rollout = 100 \/ <<d, r>> \in Lucky

(* Mutant of Offer: the last published, whatever its number. *)
OfferLast(d) ==
  LET reached == {r \in LastPublished : Reached(d, r)}
  IN  IF reached = {} THEN 0 ELSE CHOOSE r \in reached : \A s \in reached : row[s].at <= row[r].at

(* The highest version that reaches the device; 0 when there is none. *)
Offer(d) ==
  LET reached == {r \in LastPublished : Reached(d, r)}
  IN  IF reached = {} THEN 0 ELSE CHOOSE r \in reached : \A s \in reached : s <= r

-----------------------------------------------------------------------------
(* The distribution site.                                                   *)

Installers == {r \in LastPublished : Has(r, "installer") \/ row[r].away}

SignTicket(r) == [rel |-> r, until |-> now + Ttl]
VerifyTicket == ticket # Null /\ now <= ticket.until

(* Shows the last published release that has an installer. *)
Unlock ==
  /\ app.exists /\ app.open /\ Installers # {}
  /\ \E r \in Installers :
       /\ \A s \in Installers : row[s].at <= row[r].at
       /\ ticket' = SignTicket(r)
  /\ shown' = now
  /\ UNCHANGED <<app, row, disk, order, orders, given, twins, stuck, active, now, downloads, led>>

(* An installer elsewhere is looked for first, whatever the release's status. *)
Download ==
  /\ VerifyTicket /\ Exists(ticket.rel)
  /\ LET x == row[ticket.rel]
     IN  IF x.away
         THEN led = 0 /\ led' = 1 /\ UNCHANGED downloads
         ELSE /\ x.status = "published" /\ \E f \in x.files \cap disk : f[3] = "installer"
              /\ downloads = 0 /\ downloads' = 1 /\ UNCHANGED led
  /\ UNCHANGED <<app, row, disk, order, orders, given, twins, stuck, active, now, ticket, shown>>

(* The site lets in whom it asks for no card or who has a usable one: its two
   switches and the card's status. *)
Switch ==
  /\ app.exists /\ app' = [app EXCEPT !.open = ~@]
  /\ UNCHANGED <<row, disk, order, orders, given, twins, stuck, siteVars>>

Tick ==
  /\ now < MaxTime /\ now' = now + 1
  /\ UNCHANGED <<app, row, disk, order, orders, given, twins, stuck, active, ticket, shown, downloads, led>>

-----------------------------------------------------------------------------
Create(a) ==
  \/ \E r \in Releases, sent \in Uploads : Upload(a, r, sent)
  \/ CreateCheck(a) \/ CreateInsert(a)
Publishing(a) ==
  (\E r \in Releases : Publish(a, r)) \/ EnsureSignKey(a) \/ ReadKeys(a) \/ WriteKeys(a)
  \/ PublishCommit(a)
Editing(a) == (\E r \in Releases : Edit(a, r)) \/ EditWrite(a)
Removing(a) ==
  (\E r \in Releases : Remove(a, r)) \/ Unlink(a) \/ Delete(a)
  \/ RemoveApp(a) \/ ListFiles(a) \/ Purge(a) \/ Drop(a)
Site == Buyer \in active /\ (Unlock \/ Download \/ Switch \/ Tick)

Next ==
  \/ \E a \in Admins \cap active : Create(a) \/ Publishing(a) \/ Editing(a) \/ Removing(a) \/ Fail(a)
  \/ (\E r \in Releases : Archive(r)) \/ GenerateCards \/ Site

Spec == Init /\ [][Next]_vars

-----------------------------------------------------------------------------
(* policy.service.ts:114-133: what a device is offered falls only when a release
   is taken back, its rollout is lowered or Take others are published after it,
   however publishing and raising rollouts are ordered. *)
TakenBack ==
  \E r \in Published : row'[r].status # "published" \/ row'[r].rollout < row[r].rollout
OfferNeverFalls ==
  [][ ~TakenBack =>
        \A d \in Devices : Offer(d) \in LastPublished' => Offer(d)' >= Offer(d) ]_row

(* applications.service.ts:195-201: a public key that was given out stays the
   one releases are signed with, unless two orders made a pair at once. *)
SignedByTheKeyGivenOut ==
  twins \/ \A r \in Releases, key \in given : row[r].signed \in {Null, key}

(* releases.service.ts:266-270: of a release that was removed only such files
   stay as could not be deleted. *)
Removed(r) == Exists(r) /\ row'[r].status = "gone" /\ app'.exists
RemovedLeavesNoFile ==
  [][ \A r \in Releases : Removed(r) => row[r].files \cap disk' \subseteq stuck' ]_row

(* Claimed: the comment of releases.service.ts:266, that nothing of it stays.
   Violated, as a deletion that fails is passed over and the row deleted.    *)
RemovedLeavesNothing ==
  [][ \A r \in Releases : Removed(r) => row[r].files \cap disk' = {} ]_row

(* dist.service.ts:175-215: an installer is given only within Ttl of the buyer
   being let in, with a usable card where the site asks for one; one that is
   kept here only while its release is published, whatever happened to the
   release and the site in between. *)
DownloadIsEarned ==
  [][ <<downloads, led>>' # <<downloads, led>> =>
        /\ now <= shown + Ttl
        /\ row[ticket.rel].status = "published" \/ row[ticket.rel].away ]_<<downloads, led>>

(* Claimed: the check of dist.service.ts:188, that only what is published is given.
   Violated by an installer elsewhere (dist-public.controller.ts:76, before that
   check), which is given while its row is there.                            *)
OnlyPublishedIsGiven ==
  [][ <<downloads, led>>' # <<downloads, led>> =>
        row[ticket.rel].status = "published" ]_<<downloads, led>>

=============================================================================
