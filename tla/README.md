# Verification of auth-platform

TLA+ models, model-checking configurations and machine-checked proofs for the
licensing platform in this repository: the NestJS server (`packages/server`), its
MySQL database and Redis, the admin console (`packages/admin`) and the four SDKs
(`packages/sdk-*`) with their updaters. Each module says which functions it stands
for; `PROJECT.json` gives the lines, definition by definition.

## 1. The system

A software author registers an *application*, sells *licence cards* for it and
ships a program with an SDK. The program exchanges the card for a licence token
and asks the server, at start and before each paid use, whether it may run; it also
learns which release it should update to, and its updater installs that release.
Administrators ban, renew and unbind cards, publish releases and rotate the secrets
the programs sign with; endpoints of the author's own are told of events by webhook,
and buyers download the program from a distribution site. All lasting state is in
MySQL (REPEATABLE READ), Redis and one storage directory; the server processes hold
only what a request has read so far.

| Component | State it keeps | Operations | Interacts with | Module |
|---|---|---|---|---|
| Activation, verification, unbinding (`activation.service.ts`) | `license_keys`, `license_devices`; tokens at the client | activate, verify, deactivate, markExpired | consumption, webhooks, administration (same rows) | `Licensing` |
| Licence administration (`licenses.service.ts`, `batches.service.ts`) | the same rows | ban, unban, revoke, renew, forced unbind, batch revocation, generation, export | the same rows; plans | `Licensing`, `Sales` |
| Two-phase consumption (`consume.service.ts`, `consume-expiry.task.ts`) | `license_reservations`, quota counters | reserve, confirm, release, releaseExpired | activation, SDK `consume()` | `Consume`, `QuotaLedger` |
| Webhooks (`webhooks.service.ts`, `webhook-retry.task.ts`) | endpoints, deliveries; attempts in memory | handle, attempt, processRetries, redeliver | event bus; endpoints over HTTP | `Webhooks` |
| Open API controller, idempotency (`open.controller.ts`, `idempotency.service.ts`) | `idempotency_records` | withIdempotency: lookup, run, save | every SDK call | `LicenseServer`, `Gateway` |
| Plugin signatures (`plugin-signature.guard.ts`), secrets (`plugins.service.ts`) | nonces in Redis; the secret and the one before | check time, signature, nonce; rotate, disable | every open API call | `Gateway` |
| Rate limits (`rate-limit.service.ts`, `redis.service.ts`) | counters in Redis | consume, gate, penalize | open API, login, site | `RateLimit`, `Gateway` |
| SDK clients (Node, Python, PHP, C#) | the licence file | activate, verify with an offline grace, deactivate, `consume()`, retries | server | `Client*`, `Clients` |
| SDK updaters and launcher | `versions/`, `current.txt` | apply, stage, rollback, prune | releases | `Archive`, `Updater*` |
| Releases (`releases.service.ts`), remote policy (`policy.service.ts`), signing keys (`applications.service.ts`) | `app_releases`, files, key pair | upload, publish, edit, archive, remove; offer | updaters, site | `Catalog` |
| Distribution site (`dist.service.ts`) | download tickets | unlock, download | releases, cards | `Catalog` |
| Plans (`plans.service.ts`, `PlansView.vue`) | `plans` | the form, create, update, remove | generation, which copies a plan's terms | `Sales` |
| Applications and their remote controls (`applications.service.ts`, `policy.service.ts` `assertRunnable`) | status, kill switch, maintenance, versions | the drawer, updatePolicy, remove | every activation and verification, idempotency records | `Control`, `Sales`, `Catalog` |
| Administrator accounts (`auth.service.ts`, `admin-jwt.guard.ts`) | `tokenVersion`, password | login, refresh, logout, change password | admin API | `AdminAuth` |
| Admin console (`http.ts`, `stores/auth.ts`) | two tokens, the renewal under way | interceptors, login, logout | admin API | `Console` |
| Maintenance, logs, analytics, docs, other views | rows, append-only records | CRUD, queries, purges | - | - |

### Where it is hard

* **Rows read in one statement and written in another.** Only `bindDevice` and
  `deactivate` lock the row they decide on. Every administrator command, confirm,
  release, the expiry task, a rotation of secrets and the first publication check
  with a plain SELECT and write by id.
* **Work after the transaction.** Tokens are signed, and events emitted, once the
  lock is gone; login and refresh sign for an account read earlier.
* **Retries.** The SDKs give up on an answer after ten seconds and send the call
  again while the first may be running; idempotency is lookup, run and save.
* **Two stores for one thing.** Files and rows of a release, the directory of a
  version and the pointer to it, a licence and the file it is kept in: each pair is
  written in steps that may fail between.
* **Windows.** Nonces, signature timestamps, grace periods, rate windows and tickets
  are all clocks that must fit each other.
* **Tasks beside requests, and restarts.** Both tasks start every minute whether or
  not their last run has ended; first webhook attempts are in memory only.

What makes each component correct: never more devices than the card allows; no usable
token left for an unbound device or a barred card; *revoked* is final; never more
uses granted than sold, none lost; every failed delivery is tried again; one signed
request is let in once and no client is cut off by a rotation; a call that returned
has happened, and nobody runs offline beyond the grace; the program on the disk is
always whole and genuine, and can be rolled back; what a client is offered does not
fall and is signed by the key it has; a session ends with the password and the
logout; all cards of a batch are sold on one offer, and what was sold stays; a program
whose application is stopped stops. Where the code keeps less than that, section 3
says what it does keep, as a property that is checked, and what it does not, as a claim
that TLC refutes. `PROJECT.json` lists the hazards by line with the properties that
watch them.

## 2. Modules

| Module | Models | Composed with |
|---|---|---|
| `Card` | the abstract promise of a licence card | - |
| `Licensing` | one card, its devices, clients' requests and administrators' commands | `INSTANCE Card`: `Licensing` implements it |
| `Sales` | the plan form, plans, the batches and cards made from them, export, barring card by card | - |
| `QuotaLedger` | the abstract promise of two-phase consumption | - |
| `Consume` | reserve, confirm, release and the expiry task on one card's devices | `INSTANCE QuotaLedger`: `Consume` implements it |
| `Webhooks` | deliveries, attempts, the retry task, redelivery, endpoints, restarts | - |
| `RateLimit` | a fixed-window counter in Redis | extended by `Gateway` |
| `Gateway` | signature guard, nonces, rotation of the secret, limits of activate | extends `RateLimit` |
| `LicenseServer` | the server as one device meets it: idempotency records, requests nobody waits for | extended by `Client` |
| `Client` | what the SDK clients share: the licence file, a call and its attempts | extends `LicenseServer` |
| `ClientNode`, `ClientPython`, `ClientCsharp`, `ClientPhp` | what each SDK does with a lost answer, with its file and without an answer | extend `Client` |
| `Clients` | one program, on any of the SDKs, and the server, administrator and network | extends the four |
| `Archive` | names in packages: stripping the outer directory, resolving, staying inside | extended by `Updater` |
| `Updater` | what the updaters share: directories, the pointer, steps that fail | extends `Archive` |
| `UpdaterNode`, `UpdaterPython`, `UpdaterCsharp`, `UpdaterPhp` | each SDK's steps and what it does when one fails; `UpdaterPython` also the launcher | extend `Updater` |
| `Updaters` | one program that updates itself with any of them | extends the four |
| `Catalog` | releases, their files, the signing key, the offer and the distribution site | - |
| `Control` | an application's switches, what they let a program do, records and grace in between | - |
| `AdminAuth` | one administrator's account on the server | extended by `Console` |
| `Console` | a browser tab: requests, the shared renewal, login and logout | extends `AdminAuth` |
| `MC*` | instances, symmetry sets and bounds for TLC | extend the modules above |
| `*_proofs` | theorems and their proofs | extend the modules above |

Operators named "Mutant of X" stand just before X. Nothing uses them: they are
plausible bugs of the code, kept to show that each property would notice one.

### Licensing

The variables are the columns of the card's row (`status`, `activatedAt`,
`expiresAt`, `tokenVersion`, `rebindCount`), one status per device (`binding`),
the row lock, the tokens signed so far and the clock. `pc` and `req` are a
client request's place and local variables, `cmd` an administrator's.

| Action | Code |
|---|---|
| `Activate`, `Deactivate` (both `LockCard`) | BEGIN and SELECT .. FOR UPDATE |
| `BindRead`, `BindWrite` | `bindDevice`: reads and refusals; writes and COMMIT |
| `Sign` | `activate` and `verify` signing, with the version read earlier |
| `MarkExpired` | the UPDATE outside any transaction |
| `Verify`, `ReadDevice` | `verify`: the card, then its device |
| `UnbindRead`, `UnbindWrite` | `deactivate` |
| `Order*` | the read and checks of ban, revoke, unban, renew, forced unbind |
| `WriteStatus`, `WriteUnbind` | their unconditional write |
| `Abort`, `AbortOrder` | an exception, deadlock victim or restart between two steps |

One card is enough because no operation touches two. `OrderRevoke` also stands
for batch revocation, which does the same to each card. A token's own 24-hour life
is left out: tokens that never age only make the safety properties harder to meet.

`Card` has a phase (open, banned, revoked) and the set of devices it admits; no
requests, locks, versions or clock. `Licensing!Promise` maps the status to the phase
(*unused*, *active* and *expired* are open) and the devices of the tokens that carry
the current version to those admitted: an activation or verification is `Admit` when
its token is signed, any unbinding is `Recall`, as it raises the version.

### Consume and QuotaLedger

`used` and `reserved` are the device's counters, `rsv` the reservation rows, `job`
a request's step and what it has read, `due` a run of the task's list. Each
transaction is its snapshot reads (`Lookup`, `Confirm`, `Release`, `SweepRead`)
and then its writes (`Freeze`, `ConfirmWrite`, `ReleaseWrite`, `SweepWrite`). The
conditional UPDATE of reserve, the unique index on the request id and the
`GREATEST(0, ..)` of release are modelled as they are. A reservation is kept or
absent, never deleted.

`ExclusiveSpec` is `Spec` without the steps after which two transactions are
finishing the same reservation. That is what a program does which makes one call at
a time, has no timeout strike while the server is still at work, and asks for a TTL
longer than its work. The ledger properties are stated under it. Without it they
fail, and the run `double_confirm` shows how.

`QuotaLedger` has no counters, no transactions, no clock: each reservation freezes
its amount once if the quota allows and ends once, spent or refunded.
`Consume!Ledger` maps a row's status, device and amount to an entry; released and
expired both mean refunded.

### Webhooks

One delivery per event and endpoint. `job` holds each worker's attempt: what it
read and how its POST went. `todo` is the list a run of the task found. A POST is
accepted and answered, accepted with the answer late or lost, or not accepted. `Throw`
is any database call of an attempt that fails; `Crash` empties everything held in
memory. `wait` is the time left to `nextRetryAt`. The task takes up to 100 rows at a
time in order of `nextRetryAt`; the model takes all that are due, in any order, which
includes every order the code can choose for fewer than a hundred.

### Gateway and RateLimit

A caller stamps a request (`Sign`) by its own clock and signs it with the secret it
holds; the network delivers it or a copy of it, late or never, and again after it was
answered (`Redeliver`). `Verify` and `TakeNonce` are the guard up to and at
`SET NX EX`; `Count`, `ExpireIp`, `Gate`, `Run`, `Penalize`, `ExpireMiss` are
`OpenController.activate`, with INCR and EXPIRE as the two calls they are, and `Fail`
between any two of them. `RotateRead` and `RotateWrite` are `rotateSecret`. Time is
kept as what is left: of a nonce, of the grace of the old secret, of a window; `word`
remembers what each answer of a rotation promised of a secret.

The age of a request is its age by its stamp: below zero while the caller's clock,
which a scene sets `ahead` of the server's, says a later time than the server's does.
The guard takes a stamp up to the window on either side of its own clock, but keeps a
nonce for one window from its receipt. `AdmissionsFitTheWindow` says what that comes to:
a request of a clock that is right is let in once; of one that is ahead by no more than
the window, at most twice; of one further ahead, whose requests have to wait until they
are fresh, at most three times. Clocks that are behind only shorten the time.

Assumed: a unit of time is longer than the guard takes, and a request takes at least
one to arrive. One counter stands for the rules by address, plugin and device, which
count alike.

### LicenseServer, Client and Clients

The server side here is coarser than in `Licensing` and `Consume`, which look inside
the same handlers, and finer around them: `withIdempotency` is `Lookup`, the handler
and `Save`, each request goes on when its client has given it up (`Abandon`), and
several are at the server at a time (`jobs`). `Client` is `request`: attempts, signed
anew, until one is answered with something final. `Mishaps` lists what may come
instead of the endpoint's answer: silence, which a refused connection ends like too; a
proxy's page, or an answer without content, each with a good or a bad status (`Strangers`);
a passing error; a refusal by what stands before the endpoint. The four SDK modules
differ where the code does:

| | a page that is no JSON | an error page that is no JSON | a good answer without content | a lost answer is tried again | the licence file | without an answer |
|---|---|---|---|---|---|---|
| Node | taken for a network failure | the same | a success (`client.ts:315`); a licence kept then has no grace and no end | yes | written in place | offline within the grace |
| Python | taken for a network failure | INTERNAL_ERROR | a success (`client.py:349`), but `_persist` raises before it writes | yes | written in place | offline within the grace |
| C# | taken for a network failure | INTERNAL_ERROR | a success (`LicenseClient.cs:380`); a licence kept then has a grace of 0 | no (`LicenseClient.cs:395`) | written in place | offline within the grace |
| PHP | an empty answer, returned | INTERNAL_ERROR | an empty answer, returned | yes | the caller's database | the caller's affair |

A call ends as `returned` when the endpoint answered, and as `blank` when it returned all
the same. An outcome is `unsure` when some attempt to confirm got neither an answer nor
a refusal.

The device has a clock of its own, `skew` ahead of the server's; `SetClock` sets it, and
`back` adds up by how much it was set back. A licence is dated by it (`Record`), and
`MayRunOffline` compares with it, as `client.ts:216` does: a device before the date of
its licence is refused, and a grace that is missing fails no comparison.

`Die` and `Crash` are a crash of the program, also in the middle of writing the file.
`late` records that an activation the program had given up bound the device again after
an unbinding, and `unguarded` that a request with a key met no record although one had
been sent before: the properties say what holds apart from these, which the server
cannot exclude.

### Archive, Updater and Updaters

`disk` says which version's files each directory under `versions/` holds, whole,
`Broken` or absent; `pointer` is `current.txt`. A call is a sequence of steps: fetch
(download and verify), unpack, delete an old `.pending`, move there, delete the old
directory, rename into place, switch the pointer, prune, run the post-install
command. Deleting a directory is not atomic and may stop half-way; renaming is. Each
SDK module has its own way at each step that may fail (Node's `rmSync` throws,
Python's `ignore_errors` goes on and `shutil.move` then nests, C# catches and its
fallback of `File.Replace` deletes the pointer first, PHP checks the results of few).
PHP looks at none of its writes: what it downloads, unpacks or writes to the pointer may
be cut short (`CutShort`, `PhpSwitchTo`) and it goes on, as the hash is of the bytes
received. `marred` has the versions such a failure went into, or Python's nesting, or
whose broken directory somebody rolled back to. `Crash` may come at any point of a call.

What the server sends is a plan of any fields, sizes and signatures (`Plans`) and any
bytes; a signature is the platform's for one version, one content and one size.
Packages are sets of entries whose names are sequences of parts, among them `..` and
`.`; each SDK's extraction is modelled by what it resolves, refuses and skips.

### Catalog

Every order of an administrator is its reads and writes, one per await, with the
files on the disk apart from the rows: `Upload`, `CreateCheck`, `CreateInsert`;
`Publish`, `ReadKeys`, `WriteKeys`, `PublishCommit`; `Edit`, which reads the row with
its date, and `EditWrite`, which writes the fields it was sent and with a status that
date; `Archive`; `Remove`, `Unlink`, `Delete`; `RemoveApp`, `ListFiles`, `Purge`, `Drop`.
`Fail` ends one anywhere. `SafeUnlink` leaves what cannot be deleted, of which nobody is
told, and `stuck` remembers it. `Offer` is `pickRelease`: of the `Take` last published,
from the highest version down, the first whose rollout reaches the device. `Unlock` and
`Download` are the site, with its ticket: a release whose installer is elsewhere
(`away`) leads the buyer there (`led`) before its status is looked at.

### Sales

A step is one statement. A seller's `desk` is the plan dialog (`OpenCreate`,
`OpenEdit`, `FillIn`, then `CreatePlan` or `UpdatePlan`), a removal between its count
and its DELETE (`CountCards`, `DropPlan`; `CountAllCards`, `CloseApp` for the
application) or a request to generate: `Generate` reads the plan, `Declare` writes the
batch, `Stock` all its cards, `Answer` gives the keys out; `ExportPlain` does so too.
`GiveUp` ends any of them, also when a foreign key refuses. A manager's `order` is the
list `transition`, `unban` or `revokeAll` has read; `WriteNext` updates one card of it
by id. `FormOf` and `BodyOf` are the two conversions of the dialog, whose number inputs
are `Unset` when they are cleared; `Save` sends its body. `Call` is any other caller of
the two endpoints, with any body the validation lets through (`PlanBody`): fields left
out (`Left`) or null. `Created` and `Updated` are what the services make of a body,
`Writable` the columns that take no null. The histories
`offered`, `handed` and `quashed` hold the terms each plan had on sale, the keys
given out, and the batches that were revoked as a whole.

### Control

One application and one program. `app` is its row, `drawer` what an open drawer of the
console was filled from. `ToggleStatus`, `SaveControl`, `CallPolicy` and `Publish`
write the row; `CheckApp` is `assertRunnable` on the way of a request between `Lookup`
and `Finish`, which keeps the record from which `Replay` answers without that check.
The program sends (`Send`), hears, gives up after `Patience`, repeats, and falls back
to its file within `Grace`. `lastAllowed` and `lastOpen` remember when the application
last let it run and activate, and `told` what it was told at this instant.

Assumed: an activation takes at most `Slack` from the check to its record. The code
bounds it by nothing; without a bound, a record could speak for a check made long ago.
The device's clock is right here, and an answer has its content: what becomes of the
grace otherwise is `Clients`'.

### AdminAuth and Console

`login`, `refresh` and `changePassword` read the account in one step and answer or
write in a later one; `Check` is the guard. `Console` is one browser tab: JavaScript
finishes what an answer sets off before the next event, so `Wait` and `Settle`, the
response interceptor, are one step each. `Renewal` is the request of `auth.refresh()`,
which passes the same interceptor. Other tabs and clients appear as
`LogoutElsewhere` and `changePassword` (the console has no form for the latter). A
lost answer stands for a handler that fails, too.

## 3. Runs

| Run | Asks | Shows |
|---|---|---|
| `licensing` | two clients, one administrator, two devices, limit 1 | device limit, tokens of unbound devices, tokens of barred cards, rebind quota, finality of *revoked* hold in every interleaving; refinement of `Card` |
| `consume` | `ExclusiveSpec`, two requests, one run of the task | counters equal reservations, no overselling, refinement of `QuotaLedger`, no charge undone by rebinding |
| `consume_live` | `FairSpec` | a forgotten reservation ends |
| `double_confirm` (violation) | `Spec`, overlapping confirms | one reservation is charged twice |
| `webhooks` | `FairSpec`, two runs of the task, a redelivery, two faults | delivered means accepted, dead means sent maxAttempts times, retries end |
| `updaters` | four SDKs, three versions, hostile archives, two faults | the current version is whole but for failures that its SDK does not look at; what is in full is genuine; a failed update changes nothing; a version to roll back to stays; archives stay inside and lose no file; a good update lands |
| `sdk` | five programs, two requests at the server, three calls or settings of the clock, one retry each | a deactivation the endpoint answered happened, one key unbinds once, consume charges only for work done, offline only within the grace a licence has and what the clock was set back |
| `catalog` | two administrators, or one and a buyer, on two releases | the offer falls only when something is taken back or leaves the last published, signatures match the key given out, removed releases leave no file but those that could not be deleted |
| `access` | two requests, the renewal, logins, logouts, password changes | no session outlives its password, a logout is final for requests under way, every request of the views ends |
| `gateway` | copies and later deliveries, of clocks right and ahead; rotations by two administrators; callers at their limits | a request is let in as often as its nonce runs out within its window, no promised secret is refused, failed activations are bounded, lockouts end |
| `sales` | two sellers and one who bars, on one plan and one batch | a batch is sold on one offer, keys given out open a card whose plan is there, a batch revoked as a whole stays so |
| `control` | one administrator, a program with two requests at the server | a stopped program stops within the windows of the code, and nobody new comes in but by an answer under way or on record |

The violation run contradicts a sentence of the repository, quoted under
"findings" in `PROJECT.json`. Further claims the code does not keep are listed below.

### Bounds

* *Licensing*: a device limit of 1 with two devices and two clients makes every
  activation a race for the last place; a duration and renewal of one day with a clock
  up to 2 give expiry before, during and after each request; `MaxVersion` 2 lets one
  unbinding and one ban follow each other. `MayRaise` refuses to *start* an operation
  past the bound, so none in flight is cut off.
* *Consume*: quota 2 with amounts 1 and 2 gives exact fits, overdrafts and room for
  two; one key shared by two requests is the retry race; TTLs 1 and 2 against
  `MaxTtl` 1 exercise the cap; `Batch` 1 with two reservations makes the task return
  for the second. The clock stops at `MaxTime` unless a reservation is still open.
* *Webhooks*: one delivery is tried by up to four workers at once (its first attempt,
  two runs, a redelivery); three attempts leave room for the counter to be set
  back; delays 1 and 2 with three attempts use the clamp at the end of the list. Two
  faults allow a failing write and a restart. `posts` counts up to `MaxAttempts`,
  which is all the property asks.
* *Updaters*: three versions are one to update from, one to update to and one more to
  prune or to roll back to; `KeepVersions` 2 prunes in that case. Two faults let a
  step fail, or a write be cut short, and the program die, or die twice. The packages are pairs of entries
  over names that are flat, nested, absolute in effect (`..`) or leave and come back,
  with and without an entry for the directory itself, a link, and a single file.
* *Clients*: two requests at the server are a call and the one it gave up. A grace of
  1 and a card that ends at 3, or never, on a clock up to 3 give every order of last
  verification, end of grace and end of card; `Retention` 1 lets a record outlive the
  answer it holds. The device's clock is right or one unit behind, so that it may be
  set back between a verification and the end of its grace, and on again; the theorem
  has any. A rebind limit of 2 leaves room for a second charge. `MaxVersion`
  1 allows one ban; `MaxRetries` 1 with `MaxCalls` 3 allows a repeated call followed
  by one that comes to different ends; each of two reservations is used once.
* *Catalog*: two releases and `Take` 2, so that the offer has a choice; two devices,
  one inside a rollout; a clock up to 1 with tickets that live 0 more units, so that
  one expires. `MaxOrders` 4 is two orders of each of two administrators. `MaxStuck` 1
  leaves one file of a release and deletes the other. An upload has both files, an
  installer alone, or links alone; an edit has one field. A version that was removed is
  not created again. Two releases never exceed `Take`: the theorem `OffersNeverFall` has
  any number of releases and any `Take`.
* *Sales*: one plan, one batch of two cards and two sellers make each pair of an edit, a
  removal and a generation meet between any two statements; two forms (off sale, and
  other terms with cleared days), one body that puts a plan on sale and leaves the rest
  out, and one request with terms of its own. Two cards leave a batch half barred. The
  theorem has any forms and bodies.
* *Control*: record, patience and grace last one unit each, so that 3 is the last moment
  at which a program stopped at 0 may be told to run; a clock up to 4 goes past it. A
  unit is longer than an activation is at work (`Slack` 0; the theorems have any). Two
  requests are one at work and its repetition. The bodies stop, restrict and free the
  application, and one frees it by the kill switch alone.
* *Console*: an access token lives one unit and the clock goes to 2, so it expires
  between any two steps; the refresh token outlives the
  clock. One raise of the token version is one password change or logout.
* *Gateway*: a signature window of 2, two copies at a time and any number one after the
  other, clocks ahead by 0 to 3, that is up to one more than the window; four secrets, reused when
  nobody holds one, with a grace of 0 or 2; limits 3 (address) and 2 (failed
  activations), a counter that stops at 4, past both. Six scenes (copies for each
  clock, rotations, limits), chosen at the start, keep the instance small: they share no state but the clock. No rotation
  follows one that came within the grace of another.

Deadlock is not checked where the system really may stop: in `webhooks` when every
delivery is settled, removed or stuck; in `sdk` and `catalog` when the bounded calls
or orders are used up.
Symmetry is used only where no liveness is checked (`licensing`, `consume`,
`sdk`, `catalog`, `sales`, `control`).

### Fairness

* `consume_live`: time passes, cron starts the task every minute, and its writes do
  not fail for ever (strong fairness of `SweepWrite`, which `Abort` can disable).
  Nothing is assumed of clients.
* `webhooks`: handlers and attempts run on, `fetch` is aborted after 8 seconds, the
  task runs every minute. Faults are bounded, so they stop.
* `updaters`: an installation whose package has been unpacked goes on, as it is one
  function without waiting for anybody. Nothing is assumed of the download.
* `access`: a request is answered or lost (`http.ts:6` limits it to 30 seconds), the
  browser runs what waits for an answer, and so does the renewal. Nothing is assumed
  of the user.
* `gateway`: time passes, and a request the guard has begun to look at is let in,
  refused or fails. `LockoutEnds` needs nothing else, as callers may keep calling.
* The other runs check safety only.

`OrdersEnd` (`Licensing`: each administrator command ends, although clients keep locking
the row) is stated and no run lists it. It holds in `MCLicensing.cfg` with
`SPECIFICATION FairSpec`, no symmetry, `AllowRebind = FALSE`, `RebindLimit = Null`,
`MaxTime = 1` and `MaxVersion = 1`. There a request that has started keeps running, and
the writes that wait for the row get strong fairness, because InnoDB grants a row lock
in order of asking: a waiting UPDATE is not overtaken for ever.

### Claims the code does not keep

One of them is a run. The others are definitions of the modules which no run of the
project checks, as it keeps its runs for what holds; TLC finds each violated within two
minutes when the setting named here is used with the definition as its only property.

| Claim of the repository | Definition, setting | What happens |
|---|---|---|
| `docs/INTEGRATION.md:534`: confirm is idempotent, a retry does not charge again | `ChargedAtMostOnce`, run `double_confirm` | confirm reads without a lock and writes without a condition (`consume.service.ts:131`): two that overlap both charge |
| `http.ts:36`: the session is over, please log in again | `WaitersGoOn`, `MCConsole.cfg` with `RefreshTtl = 2` and `CHECK_DEADLOCK FALSE` | TOKEN_EXPIRED for the refresh itself makes the interceptor await its own promise (`http.ts:29`); nothing goes on |
| `licenses.service.ts:276`: revoked is final | `RevokedIsFinal`, `MCLicensing.cfg` with `Admins = {a1, a2}` | a ban, unban or renewal that read before a revocation writes after it (`:277`, `:312`) |
| `activation.service.ts:471`: completes cards whose time has passed | `ExpiredMeansPast`, `MCLicensing.cfg` | a card renewed since it was read is marked expired with its end in the future (`:474`) |
| `activation.service.ts:66`: only the first activation sends `activated` | `FirstActivationOnce`, `MCLicensing.cfg` | a renewal that read *unused* writes it back over an activation (`licenses.service.ts:317`); the next one is a first one again |
| `DEVELOPMENT.md:193`: the quota limits how often a licence is taken off a machine | `ChargedPerDetach`, `MCLicensing.cfg` | a forced and a self-service unbinding of one binding overlap (`licenses.service.ts:349`): two charges |
| `docs/INTEGRATION.md:503`: never oversold | `ConfirmedWithinQuota`, `MCConsume.cfg` with `Spec` | a confirm and a release of one reservation overlap: its quota is charged and given back |
| `webhooks.service.ts:22`: tried at once, failures are left to the task | `PendingIsTried`, `MCWebhooks.cfg` | the task looks for *failed* only (`:126`): a delivery whose first attempt died stays *pending* |
| `docs/INTEGRATION.md:698`: a single `app/` level or flat, both are supported | `SingleRootIsStripped`, `MCUpdaters.cfg` | an archive with an entry for `app/` itself, as `zip -r` makes it, is not stripped (`archive.ts:69`) |
| `client.ts:152`: when it throws, the quota has been given back | `ThrownIsReleased`, `MCClients.cfg` with `Programs = {"metered"}` | every answer to confirm is lost, release is refused and that is swallowed: it throws, charged |
| `client.ts:152`: when it returns, the quota has been charged | `ReturnedIsCharged`, `MCClients.cfg` with `Programs = {"metered"}` | an answer to confirm without content is taken for a yes (`client.ts:315`) |
| `client.ts:89`: deactivate unbinds the device | `DeactivateUnbinds`, `MCClients.cfg` | the same, on every SDK: it returns, the device is still bound |
| `client.ts:59`: past the grace the answer is always no | `GraceEnds` as PROPERTY, `MCClients.cfg` | after an answer without content Node's licence has no grace, and no comparison with it fails (`client.ts:216`); a clock set back prolongs one |
| `updater.ts:342`, `Updater.php:416`: no version is there by half | `CurrentIsWhole`, `MCUpdaters.cfg` | PHP's writes are cut short unnoticed (`Updater.php:321`, `:540`); Python moves into what `rmtree` left (`updater.py:369`) |
| `Updater.cs:452`, `Updater.php:216`: no failure damages the pointer | `PointerIsKept` as PROPERTY, `MCUpdaters.cfg` | C# deletes it before it moves the new one there (`Updater.cs:476`); PHP's may be written empty |
| `updater.ts:364`, `docs/INTEGRATION.md:688`: the latest versions are kept, so the one replaced is | `ReplacedIsKept`, `MCUpdaters.cfg` | versions are ordered as strings (`updater.ts:365`): with 1.9.0 there, 1.10.0 goes when it is replaced |
| `releases.service.ts:266`: a removal leaves no file on the disk | `RemovedLeavesNothing` as PROPERTY, `MCCatalog.cfg` | `safeUnlink` swallows every error (`:341`) and the row goes all the same (`:270`) |
| `dist.service.ts:188`: only a published release is downloaded | `OnlyPublishedIsGiven` as PROPERTY, `MCCatalog.cfg` | the address of an installer elsewhere is given first, without that check (`dist-public.controller.ts:76`) |
| `PlansView.vue:175`: the switch between permanent cards and limited ones | `LimitedHasDays` as PROPERTY, `MCSales.cfg` | the days of a limited plan are cleared, the null passes the validation and the cards are permanent (`plan.dto.ts:20`) |
| `ApplicationsView.vue:388`, `docs/INTEGRATION.md:439`, `DEVELOPMENT.md:413`: activations are refused at once | `RefusedAtOnce`, `MCControl.cfg` | an activation repeated with its key is answered from its record, before the application is looked at (`open.controller.ts:177`) |
| `plugin-signature.guard.ts:95`, `docs/INTEGRATION.md:150`: the nonce keeps replays out | `AcceptedOnce`, `MCGateway.cfg` | a request stamped ahead stays fresh for up to two windows (`:76`), its nonce lives one (`:96`): it is let in again |
| `ApplicationsView.vue:193`: the kill switch is thrown only after a second question | `KillIsConfirmed` as PROPERTY, `MCControl.cfg` | a drawer opened while the application was stopped, and saved after somebody let it run, stops it again unasked |
| `applications.service.ts:140`: the least version is not above the latest, or nobody could run | `SomeVersionRuns`, `MCControl.cfg` with `Releases = {1}` | the two are compared only when both are sent: each may come alone, or with a publication in between |
| `batches.service.ts:130`: the whole batch is revoked | `QuashedStaysDead`, `MCSales.cfg` with `Managers = {m1, m2}` | a ban that read before the revocation writes over it |

## 4. Proofs

All theorems hold for every value of the constants that satisfies the assumption of
the modules they speak of (`LicensingAssumption`, `ConsumeAssumption`,
`SalesAssumption`, `WebhooksAssumption`, `GatewayAssumption` with `RateLimitAssumption`,
`AuthAssumption` with `ConsoleAssumption`, `ControlAssumption`, `CatalogAssumption`,
`LicenseServerAssumption` with `ClientAssumption`, `UpdaterAssumption`), that is for any
number of clients, administrators, devices, reservations, deliveries, task runs, callers, secrets,
requests, plans, batches, cards, releases, versions, names in packages, retries and
crashes.

**Licensing_proofs.** `TypeCorrect` (a request in progress names a device, or `Sign`
could build no token). `DeviceLimitHolds`: `LockInv` says that a transaction between
its read and its write holds the row; with it, the room `bindDevice` counted is
still there when it writes (`BindInv`). `RebindLimitHolds`: the same for the rebind
quota (`RebindInv`). `UnboundDeviceHasNoLiveToken`: versions only grow, and a token,
or a request about to sign one, with the current version belongs to a bound device
(`TokenInv`); `LiveTokensAreBound` alone is not inductive, as signing comes after the
lock. `BanKillsTokens` and `RevocationIsFinal` assume `OneAdmin`, at most one
administrator command in flight: `BarredInv` then carries what a command read to its
write. With two administrators they fail, as said above. `LicensingImplementsCard`, also
under `OneAdmin`, rests on the invariants of the theorems before: `Admit` needs that
the devices of current tokens are bound, and those within the limit; `Ban` and `Revoke`,
that raising the version leaves no current token; `Unban`, that a barred card has none.

The same module holds what is proved of `Sales`. `FormKeepsRules`: a plan opened in the
dialog and saved as it is sells what it sold. One inductive invariant, `SalesInv`, gives
`SalesTypesHold`, `BatchesAreSoldOnOffer` and `HandedCardsAreKept`: `RefersToRows` is
what the foreign keys guarantee, `DeskAndBatchAgree` says that a request to generate
holds an offer of its plan and the batch row says which, so that a plan edited, put off
sale or removed between the two statements changes nothing. `QuashedBatchesStayDead`
assumes `OneManager`, at most one order that bars in progress: another manager's ban or
unban, read before a revocation, writes over it. `Ordered` then says that what an order
has still to write to a card is no way back from *revoked*, and that a batch being
revoked is a whole one, `Whole`.

**Consume_proofs.** `TypeCorrect` and `RetriesFreezeOnce` for `Spec`.
`LedgerIsExact`, `QuotaHolds` and `ConsumeImplementsLedger` for `ExclusiveSpec`. The
invariant adds to `LedgerExact` and `NeverOversold` that only bound devices have
reservations (`KnownDevices`), that a transaction about to write finds the reservation
still reserved (`ReadsAreFresh`), and `Exclusive`. A device's uses are counted as a
set of pairs, so that freezing, charging and refunding move one block of them and
cardinalities of finite sets do the sums. The refinement proof maps each step to a
`Freeze`, `Spend`, `Refund` or stutter of the ledger; `Taken + a <= Quota` there
comes from `LedgerExact`. `UsesStayCharged`: a refund takes back what was frozen only.

**Webhooks_proofs.** `TypeCorrect`: attempts count from 1, so no delay outside the
list is looked up. `FailedRowsAreScheduled`: needs that an event is handled once and
has no row before (`FreshRows`). `DeliveredRowsWereAccepted` and `DeadRowsWereTried`
come from one invariant, `SentInv`: although attempts write counters over one another,
a counter, and one about to be written, is never larger than the POSTs made
(`CountsAreSent`), and an attempt that has won was accepted (`WonWasAccepted`).

**Gateway_proofs.** `CopiesAreBounded`: a request is let in once, twice or three times,
by how far its clock is ahead. The invariant `NonceLasts` says that its stamp was no
younger than `Earliest` when it first came in, and that from there its age and what is
left of its nonce have gone on by one window each time it was let in; a second and a
third time there must be room for that within the window. `PromisedSecretsWork`: `Kept` says, while no rotation was hurried, that nobody was
cut off and that each secret with something left of its promise is the current one, or
the one before with at least as much grace left (`Promises`); a rotation under way
has read the current secret and found no grace running. `FailuresAreBounded`:
`MissInv` counts a caller past the gate as if it had failed already; the counter and
those together never exceed the limit by as many as there are callers, as the gate
lets one in only below the limit and a failure moves one caller from one to the other.

**Console_proofs.** `PasswordEndsSessions`: `TokensTrue` attaches to every token, and
to every account a login or refresh has read and is about to sign for, that its
version is no newer than the account's and, if it is the account's own, that it was
earned with the password of now. `LogoutKillsTheSession`: `OnlyOlder` says of every
place a token can be (the store, a request, an answer, what the renewal read) that
after the logout its version is older than the account's; the renewal that comes in
afterwards then brings back nothing that works.

`StoppedProgramsStop` and `ClosedDoorStaysClosed` are about `Control`. `ControlInv` puts
the windows end to end: a request let in was sent while the application let it
(`RequestsInTime`), a record ends at most `Slack + Retention` after the application was
last open (`RecordInTime`), and a licence is dated no later than that and `Patience`
(`LicenceInTime`); the grace is counted from that date. `Watched` ties the histories
to the switches.

**Catalog_proofs.** `OneKeyForever`: `KeyInv` says that, unless two publications made
a pair of keys at once (`twins`), whatever was given out, signed or is about to be
written is the application's one key. `DownloadsAreEarned`: a ticket expires `Ttl`
after `unlock` (`TicketInv`), and the release is read again at the download.
It covers the download of a file and of an address elsewhere, for which a row that has
one is all the code asks; files are given of published releases only.
`RemovalsLeaveNoFile`: `FilesInv` says that files carry the name of their release, and
that an order to remove holds all its row's files until it has deleted them, but those
whose deletion failed; these are remembered (`StuckGrows`).

`OffersNeverFall`: the offer is the highest version among the `Take` last published
whose rollout reaches the device (`OfferIsHighest`). As long as the release it is stays
among those, and neither it nor its rollout is taken back, it is there to be found again:
so the offer is no lower, whatever the dates that editing, archiving and publishing
write, for any number of releases and any `Take`.

**Clients_proofs.** `TypeCorrect` carries `WaitInv` with it: the request whose answer is
waited for is the one the call made last, and verify has a licence to fall back on.
`OneKeyUnbindsOnce`: `UnbindInv` is about requests with the key between their look for the record
and their saving it: unless one was `unguarded`, there is at most one of them, there is
no record beside it, and the card has not been charged before it runs. `ConsumeChargesExactly`: `ChargeInv`
says that whoever asks to confirm a reservation, the
call or a request still at the server, does so after the work was done, and that a yes
to it, on its way to the program, goes with a charge already made. `SureInv` is about
the calls that throw: a reservation somebody may have charged unknown to the program is
one of which a call is `unsure`; otherwise the request to confirm is the one waited for
and its yes is still there to be heard (`Sure`), or nobody asks any more (`Clean`).
`ReturnedDeactivateUnbinds`: `LooseInv` says that a yes to a deactivation, in an
answer, in the record of its key or in a request that has run, goes with an unbound
device or with `late`. `OfflineUseIsEarned`: `OfflineInv` says of every licence that has
a grace (the file, the one a call read, the one in an answer or in a record) that it has
the card's own grace and date, and that its date, counted by the server's clock
(`Marked`: less what the device's clock is ahead and ever was set back), is no later than
the server's last yes, or than a record of that yes is kept; a crash in the middle of a
write leaves it or nothing.

**Updaters_proofs.** One classification of steps (`Steps`) forgets what tells the SDKs
apart, so that each step has one lemma. `Safe` is the inductive invariant: `Genuine`, a
directory in full is its own version's; `Whole`, what the step of the call needs is
there in full; `Current`, the pointer names a version in full unless that one is `marred`,
and then at least a directory; `Apart`,
no step from cleaning to placing works on the version the pointer names;
`Unswitched`, the pointer has not moved before the switch. `CurrentVersionStarts`
alone is not inductive: the deletion before a rename is harmless only because of
`Apart`. Its consequences are `CurrentVersionStarts`, `NothingForeignInstalled`,
`FailureChangesNothing` and `CurrentVersionUntouched`. `Unfailed` adds what holds until
a first step fails: no `.pending` but the one being placed (`Tidy`); once `prune` has
its list, no more directories off it than are to be kept (`Few`); the pointer on the
new version after the switch (`Landed`); and the one replaced, or one whose name sorts
after it, off the list (`Replaced`). `prune` deletes the lowest names first,
which `TopFew`, `PruneKeepsFew` and `PruneKeepsLater` turn into `FewVersionsStay` and
`RollbackStays`: not always the version that was replaced, but always one in full
(`Intact`). `FilesStayInside`: Node, Python and C# resolve a name before
they compare it with the directory, so that it holds for any name.

All of these invariants were checked with TLC, conjunct by conjunct, before they were
proved. `RetriesFreezeOnce`, `FailedRowsAreScheduled`, `DownloadsAreEarned`,
`CurrentVersionUntouched` and `FewVersionsStay` state properties that no run lists any
more: the proofs cover every instance of them.

**Model-checked only.** All liveness (`ReservationsEnd`, `RetriesEnd`,
`GoodUpdateLands`, `RequestsSettle`, `LockoutEnds`, and `OrdersEnd` as said under
Fairness), since fairness and ENABLED are
beyond the prover. `StrippingLosesNothing`, and `ExtractsInside` for PHP: both speak of
what a fold over the parts of a name computes (`Resolve`, PHP's counting of `..`),
which takes an induction over sequences whose theorem the provers cannot instantiate.
The least element of a set of numbers, which pruning and the offer need, is
within reach through `WFMin`, a fact about sets.

## 5. Not modelled

* Read-only queries (status, policy beyond the release it offers and whether a program
  may run, lists, analytics); maintenance purges beside the expiry of idempotency
  records; logs and audit records, which nothing reads back to decide.
* Of the plans, batches and applications: names, descriptions, notes, announcements,
  channels, statistics and the credentials a new application gets.
* Signatures, hashes and encryption as such: they are genuine or not.
* Layout: rendered pages, the console's views other than the requests they send.
* Of the accounts: roles, failed logins and the lock after them. `auth.service.ts:69`
  reads the counter and writes it back, so attempts in parallel count as one.
* Of the plugins: `rotateToken`, which has no grace and so nothing to race with.
* Of the releases: links to external files beyond their presence.
* Of the policy: `latestVersion` is reported when no release fits the device, and
  publishing an older release sets it back (`releases.service.ts:187`); `Control` keeps
  it, no property reads it but `SomeVersionRuns`.
* Of the clients: `consume()` of the SDKs other than Node's, which make the same
  calls; two first starts at once, which make two device ids; two browser tabs.
* Of the updaters: two processes that update the same program at once, of which the
  code takes no notice.
* Webhooks: a disabled endpoint still gets the retries of its earlier deliveries, as
  in the code; that every endpoint hears of every event is not claimed, as a handler
  that throws skips the rest.

### Observed on the way

Behaviour the models contain, and their properties are worded around:

* *Clients*: the licence file is written in place, so a crash may leave one that is
  refused as tampered; clearing it swallows errors; the answer of a deactivation that
  is lost, without a key to repeat it by, leaves a licence usable within its grace; an
  activation answered from an idempotency record starts the grace again. A request that
  was given up may change the card after the call has ended.
* *Updaters*: Node's, Python's and C#'s count a `.pending` directory that could not be
  deleted as a version; versions are ordered as strings when pruned; `apply` throws
  after the switch when pruning or the post-install command fails; a crash leaves
  staging directories.
* *Catalog*: two first publications may each make a pair of keys, and a client built
  with the first public key then refuses every update; a release refused by `create`
  leaves the installer it was uploaded with; a publication between the two steps of
  `remove` deletes a published release; a release uploaded while its application is
  deleted leaves its files; a crash between deleting files and row leaves a draft
  without files that can be published.
* *Gateway*: two rotations at once, or one within the grace of another, end a secret
  before its promise (`plugins.service.ts:119`); a crash between INCR and EXPIRE leaves
  a counter that never expires (`redis.service.ts:42`).
* *Sales*: a batch revoked between the two statements of its generation keeps its cards
  (`batches.service.ts:130` finds none yet); the count before an application's removal
  races with a generation, and the cascade takes sold cards away
  (`applications.service.ts:178`); a batch's statistics count cards that were barred
  unused as used; a second click on the button makes a second batch.
* *Control*: a drawer opened long ago writes all its fields back, so that saving an
  announcement undoes another administrator's kill; a program that was refused online
  still runs offline within its grace, as the refusal leaves its file.
* *Console*: a late TOKEN_INVALID of an old request resets a session opened since;
  when the request of a logout fails, the tokens stay good until they expire.

## 6. Plan

What is left, in order of importance to the system:

1. `AdminAuth`: failed logins, their counter and the lock, with parallel attempts.
2. The composition of `Consume` and `LicenseServer`, so that what `consume()` tells
   its caller is stated against `QuotaLedger`.
3. Two processes updating one program; two first starts of one program.
4. Administrators who overlap: which of `Card`'s promises survive two of them, and what
   a condition on the status in each UPDATE would restore.
