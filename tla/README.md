# LockGate in TLA+

LockGate hands secrets to applications, but only after an administrator has
approved the application's request, and only inside the paths configured for
it. It is one Go program over one PostgreSQL database. This directory holds a
formal model of it: TLA+ modules translated from the source, TLC configurations
that check them on small instances, and TLAPS proofs for any sizes.
Paths below are relative to the repository (`src/`); `PROJECT.json` maps every
definition to the lines it models.

## 1. The system

### Components

| Component | State it keeps | Operations |
| --- | --- | --- |
| **Access store** `internal/store/access.go`, `store.go` | tables `applications`, `application_tokens`, `access_requests`, `request_instances`, `grants`, the audit log | `Access`, `Poll`, `Resolve`, `CreateApplication`, `ChangeApplication` (rotate, disable, enable, paths, revoke) |
| **Secrets** `internal/store/secrets.go` | tables `secrets`, `secret_versions` | `SaveSecret`, `Restore`, `Archive`, `ReadSecret` |
| **Startup** `store.go`, `cmd/lockgate/main.go`, `migrations/` | tables `schema_migrations`, `lockgate_master_key`; the process's `KeyProvider` | `Migrate`, `InitializeMasterKey`, run by `serve`, `migrate`, `admin-create`, `key-import` |
| **Live approvals page** `internal/server/pages.go`, `web/static/app.js` | per stream: the hash of the last snapshot; per window: what it shows | `approvals`, `events`, the page's `EventSource` |
| **Administrators** `internal/store/admin.go` | tables `admins` (TOTP columns), `sessions` | `Login`, `Session`, `Logout`, `BeginMFA`, `SetMFA`, `MFA` |
| **Login gate** `internal/server/server.go` | map `attempts`, channel `loginSlots`, in memory | `loginAllowed`, the slot of `login` |
| **Envelope encryption, tokens, TOTP, passwords** `internal/secure/secure.go` | none | `Seal`, `Open`, `Token`, `VerifyTOTP`, `Password` |
| **Path rules** `secure.go`, `store.go` | none | `ValidPath`, `ValidPattern`, `Allowed`, `normalizePaths` |
| **HTTP server** `server.go`, `pages.go` | none of its own | routing, session and CSRF middleware, error mapping |
| **Clients** `pkg/client`, `sdk/javascript`, `sdk/python` | one loop: key, request id, paths | post, poll, post again when revoked |
| **Command line, shutdown** `cmd/lockgate/main.go` | none | commands, `Shutdown` |

### How they interact

Components meet in the database. Every call is one transaction at READ
COMMITTED, and the row locks it takes are the only synchronisation between
calls:

- A call of the access API locks its application's row (`FOR UPDATE OF a`) first
  and keeps it to the end; `Resolve` and `ChangeApplication` lock the same row.
  The secrets table is *not* under that lock: archiving and saving go on beside
  an access call.
- `SaveSecret` and `Restore` lock the row of the secret, `Archive` takes it by
  its `UPDATE`, readers take nothing.
- `SetMFA` locks the row of the administrator, `BeginMFA` takes it by its
  `UPDATE`, `Login` reads it without a lock.
- `Migrate` and `InitializeMasterKey` each take an advisory lock of their
  transaction.
- The event stream polls `Approvals` every three seconds and tells the page, by
  an event without content, to load again.
- The login gate alone keeps its state in memory, under a mutex.

### What is hard about it

Tests run one request after the other, or many equal ones at once. What they
hardly reach, and what the modules are for (the full list, with lines, is
`hazards` in `PROJECT.json`):

- changes that commit between the statements of a call (access, secrets, MFA);
- grants that run out in the middle of a transaction, whose `now()` is the time
  it began;
- early returns, hang-ups and crashes with locks held and events half written;
- two processes that start, migrate and draw a master key at the same moment, or
  start again after one died in between;
- an event stream whose page, snapshot and session change independently, and a
  server that stops or is killed under it;
- clients whose answers get lost, whose handles are revoked and whose
  successors join the request they left pending;
- patterns that match letter by letter, and lists that are compared in order;
- limits that count in fixed windows, a full map, slots that must come back.

### What makes each component correct

| Component | Correct when |
| --- | --- |
| Access store | secrets leave only under an approval that no later change has invalidated, for the current token, inside today's boundary; one decision is open per application and it is final; the audit log tells what the tables say; every call is answered |
| Secrets | versions are numbered without gap or collision, never change, open under their own path and number; the trail retells them |
| Startup | the schema a server runs on is complete, all servers hold the one key and it opens everything stored |
| Live page | a change appears, the page comes to rest, the stream ends with the session |
| Administrators | the authenticator cannot lock its owner out, and goes off only by its code |
| Login gate | limits are limits, slots come back, a lock-out ends |
| Path rules | a boundary is a set of subtrees; a key stands for a set of paths, not for a list |
| Clients | a process starts with what it named, meets no conflict of its own making, and does not ask for ever |
| Shutdown | it ends, and cuts nobody short before its time |

## 2. The modules

| Module | What it is |
| --- | --- |
| `AccessPolicy` | abstract: five phases of an application and who may be served |
| `AccessStore` | the access store, statement by statement; implements `AccessPolicy` |
| `AccessStore_proofs` | the theorems about it, among them that it implements `AccessPolicy` |
| `SecretHistory` | abstract: a growing sequence of versions per path |
| `Secrets` | the transactions of `secrets.go`; implements `SecretHistory` |
| `Secrets_proofs` | the proof that it does, that versions never collide and that the trail retells them |
| `Startup` | processes that migrate and initialise the master key |
| `Startup_proofs` | theorems about them |
| `Client` | the clients' loop, composed with `AccessStore` |
| `Client_proofs` | that it keeps to the store's specification, and theorems about the loop |
| `PathRules` | paths as strings, patterns, and lists of them |
| `PathRules_proofs` | what a pattern means and that lists can be sorted, for every string; the properties |
| `EventStream` | one window, its stream, the queue others change |
| `Shutdown` | the server process that stops and starts, composed with `EventStream` |
| `Shutdown_proofs` | theorems about both |
| `AdminMfa` | one administrator, several windows, several logins |
| `AdminMfa_proofs` | theorems about them |
| `LoginGate` | `loginAllowed` and the Argon2id slots |
| `LoginGate_proofs` | theorems about the map and the slots |
| `MC...` | instances of these for TLC |

Each module names, beside a definition, one or a few *mutants*: the same
definition with a plausible mistake (a lock forgotten, an off-by-one, a missing
rollback). Nothing uses them in the specification. Put in place of the
definition they must break a property, which shows that the property depends on
that line of the code; `mutants` in `PROJECT.json` pairs them.

### AccessStore

One entry per application for its row and its grant, one per request, one per
HTTP handler (`pc` is the statement it is at). A handler begins with any token
ever issued or none, waits for the row lock in `Authenticate`, resolves the
paths it stands for in `ResolvePaths`, looks each of them up in `CheckPath` (a
step per query, because the secrets table moves under it) and ends in
`FinishAccess` or `FinishPoll`. What those write is visible to nobody before the
commit, for the lock covers it, so writes and commit are one step. `Abort` can
strike at any statement. An administrator's transaction reads nothing outside
the lock and is one action.

`FreshId` picks the id of a new request: ids are only compared with each other,
so it does not matter which unused one is drawn.

Abstractions: a path set stands for a list of patterns, and sets for lists of
paths (`PathRules` has both as they are); a token is its serial number, the last one issued is the one not
revoked; `request_id` is the pair of request and idempotency key, which the
table makes unique; a call without a key draws a fresh one, so it behaves as one
that uses a key nobody else has; contents of secrets do not appear. `gen` counts the
changes that must invalidate approvals, and `trail` folds the audit events of an
application: both are history variables that no guard reads, but for the bound
`gen[a] < MaxChange`. No code sets `grants.expires_at`; the README of the
repository says that expiring grants are honoured, so `SetExpiry` is an
operator's statement in SQL and marked external.

### Secrets

`Insert`, `Lock`, `TakeNumber`, `Write`, `Commit` are the statements of
`SaveSecret` and `writeVersion`; `ReadOld` and `ReadNewest` are `readSecret`
under `Restore` and `ReadSecret`; `ArchiveRow` is the `UPDATE` of `Archive`. A
stored version carries the path and number its ciphertext is bound to, and
`Opens` compares them as the authenticated data of AES-GCM does; a version that
is not there is reported as such, one that does not open as a failure
(`Unread`). Audit ids are
drawn from a sequence when the event is inserted, not when it commits, and a
rollback leaves a gap: `TrailAgrees` is about the order of these ids.

### Startup

Commands are processes with a release (a number of migrations) and perhaps a key
file. The two advisory locks, the migrations run so far inside the open
transaction, the key row, and the set of keys under which ciphertext exists are
the state. The start is an empty database or that of a release that kept its
key in a file. A process may die anywhere and start again; a key file that cannot be
read ends it as well (`ChooseKey`). `LoseKeyRow` is
the restored backup without the key row that the code's error message speaks of;
it happens while no process runs.

### Client

Three clients share one loop, `waitForSecrets` in Go. A process is launched with
the token its application has at that time and a key nobody had before; `Post`
and `Poll` are the `BeginAccess` and `BeginPoll` of a handler of `AccessStore`,
and `Receive` takes the handler's answer and goes where the loop's `switch` goes:
start, wait, post again, or end with an error. `GiveUp` may strike while it
sleeps or waits: the server is out of reach, the answer does not come in time,
the context ends, the process dies. The handler then goes on with nobody to hear
it, and a process that is launched again meets what its predecessor left behind:
an instance under another key in the same pending request. `GetConfig`, which
wants exactly one bundle, may refuse an answer that `GetConfigured` takes, so for
a call without names both outcomes are possible. Retries end only with the
outcome: the Go code posts again after every revocation, without a limit.
`steady` is a history variable: for an attempt without names, whether what is
published inside its boundary has stayed the same since it began. Without it
nothing could be said of what such an attempt is due.

### PathRules

Strings are sequences of eight characters (`Bytes`: what the rules tell apart,
with a few of the letters and digits), in the order of their bytes. `ValidPath` is
the regular expression, `Allowed` the comparison of prefixes, `Normal` the
sorting and deduplication of `normalizePaths`, `Configured` the rows in the order
of the database's collation. That is the constant `Collates`, any strict total
order, as PostgreSQL's are (ties are broken by bytes); in the run it differs from
the order of the bytes. `Ascending` stands for both sorts: the list of a set's
elements in an order. `Below` is the reference: directories cut out of a path at its
slashes. One pending request stands for the rest of the access store; statements
and locks are left to `AccessStore`.

### EventStream and Shutdown, AdminMfa, LoginGate

`EventStream` follows the loop of `Server.events`: session, snapshot, compare,
wait; and the browser: load, connect, reload, reconnect. `Shutdown` puts the
process around it: pages and streams are served while the listener is open
(`Arrive`) or their connection stands (`Stream`), another handler may be in a
query or writing its answer, `Signal` begins the shutdown, `Drained` and `Close`
are the two ways out of `httpServer.Shutdown`, `Exit` is the end of `DB.Close`.
`Kill` is a crash or a supervisor that waits no longer than `main` does
(`compose.yaml` sets no grace period, `lockgate.service` 15 seconds). A proxy
that answers 502 meanwhile ends an `EventSource` for good and leaves a reload on an
error page (`Refused`), as does a 500 of the session middleware (`Fail500`).

`AdminMfa` has `Login` in its three steps (read, verify, insert), the middleware's
single look at the session, and the two transactions on the row of `admins`. A
transaction changes just the columns its `UPDATE` names, in the row as it is
then (`Updated`): enabling sets the flag alone, so that without `FOR UPDATE` it
could be set beside a secret that was never shown, or none. `could` is a history
variable: whether the row, at some moment since a login was sent, would have let
it in.

In `LoginGate` an entry's time is counted down in ticks; a login that has a slot
leaves by one of the returns of `login` (`Ways`: a field too long, turned down,
failed, a session), and gives its slot back on each. `recent` is a history
variable: for every span up to a window, what was let through within so many
ticks.

## 3. The runs

All finish within three minutes.

| Run | Asks | Bounds |
| --- | --- | --- |
| `access_races` | Can a change that commits between the statements of two calls, or a grant that runs out there, be overlooked? `TypeOK`, `FreshApproval`, `OneDecision`, `TrailFaithful`, `DeliveryAuthorized`, `DecisionsFinal` | 1 application, 1 path inside or outside of the boundary, 2 handlers, 3 requests, 1 change, 1 tick, issued tokens only |
| `access_paths` | Does a handle stand for exactly what was asked, and does every call get its row lock and its answer? `HandleIsExact`, `EveryCallAnswered` | 1 application, 2 paths, 1 key, narrow and wide boundary, 2 handlers, 2 requests, no change, no tick |
| `client` | Do processes that come and go get what is theirs, and an end? `StartsWithItsOwn`, `NoSelfConflict`, `EveryAttemptEnds`, `ImplementsPolicy` | 1 application, 2 paths, 2 attempts, 3 requests, 1 handler, 1 change, no tick |
| `path_rules` | Do patterns cut out subtrees, and keys stand for sets? `AnswersBySubtree`, `KeyNamesOneSet` | every string of 3 characters out of 4 and some longer ones, 5 secrets, 3 boundaries, 1 key |
| `revoked_handle` | *violated*: a revoked handle says so (finding 1) | 2 paths, 1 handler |
| `secret_races` | `NoVersionConflict`, `TrailAgrees`, `ImplementsHistory`, `EveryRequestEnds` | 2 writers, 1 path, 2 values, 5 events |
| `startup_races` | `NoClash`, `ServesOnWholeSchema`, `OneKeyOpensAll`, `StartEnds` | 2 processes, releases with 2 and 3 migrations, 1 loss |
| `key_label` | *violated*: the imported key opens its ciphertext (finding 2) | 2 processes, 1 loss |
| `live_page` | `RestartedPageFollows`, `ReloadsSettle`, `StreamEndsWithSession`, `ShutdownEnds`, `OrderlyEnd` | 3 queues, 3 changes, 1 broken connection, 2 stops or crashes |
| `live_gap` | *violated*: new requests appear (finding 3) | 3 queues, 2 changes |
| `mfa_windows` | `NeverLockedOut`, `LogAlternates`, `OnlyItsCodeTurnsItOff`, `LaterLoginsNeedCode` | 2 requests, 2 secrets, 2 sessions, 5 events |
| `login_burst` | `AtMostTwiceTheLimit`, `SlotsAreReturned`, `LockoutEnds` | 2 handlers, 2 peers, limit 2, window 2 ticks, 1 entry, 1 slot |

### Why these bounds are enough

- **Two actors.** Locks make all conflicts pairwise: a third handler on one row
  waits in the same queue. Two handlers and the administrators' atomic actions
  give every order in which a change can fall between two statements. In
  `access_paths` the two handlers wait for the same row; with weak fairness
  alone one of them could be passed over for ever.
- **One application.** Applications share no row, so calls of two of them do not
  meet. That a handle is of no use to another application is a clause of
  `DeliveryAuthorized`; with one application it is not exercised and rests on the
  theorem, `DeliveryAuthorizedHolds`, which has any number of them.
- **Requests.** Three let a request be decided, raised again and revoked, with
  one to spare; `RoomForRequest` makes sure that a call in flight finds one
  (`secure.Random` never runs out).
- **Issued tokens.** In `access_races` nobody calls with a token that was never
  issued (`IssuedTokens`): such a call is refused before it looks at a table, and
  `access_paths` has it. Tokens that have been replaced are there.
- **One handler in `client`.** Between handlers the races are those of
  `access_races`; here a process and the requests, keys and handlers its
  predecessors left behind are what interacts, one call after another. Two
  attempts, one change and no tick make three requests enough for every `Post`.
  So `EveryAttemptEnds` is about one revocation; grants that run out under a
  client are in the theorems (`StartsWithItsOwnHolds`, `NoSelfConflictHolds`)
  and not in the run.
- **Three characters** separate a name, a neighbour that begins alike, a dot, a
  slash and a star; the longer names are below, beside and deeper.
- **One path in `secret_races`.** Two paths share the sequence of audit ids and
  nothing else; gaps in it already come from rollbacks.
- **Five events** are room for two saves, an archiving and a restore with its two
  events.
- **Releases 2 and 3 with the key table in 2** stand for 4 migrations with the
  key table in the fourth: what matters is an older release beside a newer one,
  and a database from before the key table.
- **Limit 2 in 2 ticks** for 10 in 10 minutes: the smallest where an attempt can
  be first, last or too many, at the beginning or the end of a window. One entry
  and one slot make both run out.
- `MaxChange`, `MaxClock`, `MaxEvent`, `MaxLoss`, `MaxDrop`, `MaxStop`, `MaxLog`
  bound counters which the program does not bound. They stop the environment, not the
  program: the guards that use them are on actions of administrators, callers,
  time and accidents. The one exception is `Len(log) < MaxLog` in `AdminMfa`,
  which has safety properties only. `MaxChange` matters to one liveness property:
  it makes revocations finitely many, and a client that is revoked for ever asks
  for ever (`client.go:182` has no limit).

Symmetry is used in runs without liveness properties only, over sets whose
members are compared for equality: handlers and processes, not requests, for
`FreshId` picks one of them. Deadlock checking is off where the
environment's bounds let a finished system stop.

### Fairness

Liveness is checked where code makes something happen:

- weak fairness of the steps of a handler or process: goroutines are scheduled,
  a query returns or fails, the browser loads what it asked for, tickers tick;
- strong fairness of the statements that wait for a row or an advisory lock:
  PostgreSQL queues waiters and grants in order, so a lock that is free again
  and again reaches each of them (`EveryCallAnswered` fails without it);
- strong fairness of a client's loop: its next call finds a handler that is free
  again and again, and its sleep ends;
- in `Shutdown` the timer runs, cancelled queries return, and whoever stopped the
  server starts it again; a handler need not ever finish;
- none of the environment: nobody has to call, approve, change, log out, break a
  connection, crash or hang up. In `LoginGate` time passes.

## 4. What is proved

Eight modules hold proofs. They are about the specifications that the runs
check, but for every value of the constants.

### The access store

`AccessStore_proofs` shows, for any finite or infinite sets of applications,
paths, keys, requests and handlers, any boundaries and any bounds:

| Theorem | Says |
| --- | --- |
| `TypeCorrect` | `Spec => []TypeOK` |
| `OneDecisionHolds` | one request to decide per application, none beside an active grant row |
| `FreshApprovalHolds` | pending and approved requests and grants are younger than the last change of identity or boundary |
| `DeliveryAuthorizedHolds` | every answer that carries secrets is authorised in the very step that gives it |
| `DecisionsFinalHolds` | denied and revoked stay, approved can only be revoked |
| `ImplementsPolicyHolds` | every step of `AccessStore` is a step of `AccessPolicy` or a stutter |
| `TrailFaithfulHolds` | the audit log, replayed, agrees with the tables |
| `HandleIsExactHolds` | a handle given out stands for the paths that were asked for |

Assumptions are those of the module: `None` is none of the others
(`NoneAssumption`), boundaries and requests are sets of paths
(`InputAssumption`), bounds are naturals (`BoundAssumption`).

None of the properties is inductive. `FreshApproval` needs to know that a call
about to enqueue a request acts for an application that is still enabled;
`DeliveryAuthorized` compares a call's early reads with the tables at its end.
Both follow from what the row lock protects, which the inductive invariant
`IInv` spells out:

- `Shape`: types, plus `JobOK` (a handler at work has an application, a key and,
  polling, a request) and `RowOK` (a request has an application exactly when it
  exists);
- `LockOK`: a handler past `authenticate` holds its application's row, presented
  its current token, and the application is enabled;
- `PathsOK`: paths that were resolved are not empty and lie inside the boundary,
  and those of a poll are the ones stored under its own handle;
- `Decided`: `OneDecision` and `FreshApproval`.

`KeptByOthers` carries the argument: while a handler is between `authenticate`
and its answer, nothing that `LockOK` and `PathsOK` read about its application is
changed by anyone else, because administrators wait for the lock and other
handlers that hold a lock hold another one. `NextShape`, `NextLock`, `NextPaths`
and the lemmas on decisions then go through `Next` action by action;
`Invariance` puts them together, and the two action properties follow from it.

Its second part adds three facts to `IInv` (`RInv`): a transaction's `now()`
is not later than the clock (`NowOK`), so that a grant it finds run out has run
out; only an application that exists is enabled (`ExistsOK`); an answer that
carries secrets or a handle is the handler's last (`ReplyOK`). `HandlerSteps`
sorts what a handler does into four kinds, `Calm`, `Delivers`, `Raises` and
`Lapses`; for the policy these are `Forget`, `Serve`, `Ask` (or nothing, when
the request is joined) and `Lapse`. `PhaseFacts` says by which columns the phases
are told apart, `MoveStep` that a step which touches one application's columns
is a move of the policy. Without `OneDecision` the refinement would not hold: an
approval or a lapse must not leave a pending request behind.

### Secrets

For any sets of paths, values and writers, `Secrets_proofs` shows

| Theorem | Says |
| --- | --- |
| `NoVersionConflictHolds` | no writer ever meets `UNIQUE(secret_id, version)` |
| `ImplementsHistoryHolds` | every step of `Secrets` is a step of `SecretHistory` or a stutter |
| `TrailAgreesHolds` | one event per version, the creation first, and the path is archived exactly if its last change is an archiving |
| `TypeOKHolds` | types, and that the numbers of events stay within `MaxEvent` |

The invariant has two parts. `RowsOK`: the rows of a path are numbered 1, 2, ...
up to their count, each once, and each is bound to its own path and number.
`WriterOK`: a transaction past `Lock` or `Insert` holds the row, and what it has
drawn is still the next number. `NextIsCount` shows that
`COALESCE(max(version),0)+1` is then the count plus one, `AddVersion` that one
more row is one more element at the end of the history. `OthersHold` is the use
of the lock: a commit disturbs nobody else's draft, for whoever has one holds
another row.

`TrailAgrees` speaks of the order of numbers that are drawn before the commit, so
it is not inductive: `MineOK` says that what a transaction has drawn is later
than every change of its path that the trail shows. That holds because it draws
them under the row's lock, and a change that shows has given the lock back. A
read has no lock, and its number may well be smaller than that of a change which
commits first; but it has seen a version, so its number is later than the
creation, and that is all the trail's first rule needs. `AddRead`, `AddArchiving`
and `AddVersionEvent` then say what one more event does to the trail of a path.
`RoomInv` is the account behind the bound: every transaction in flight that has
drawn nothing yet may still draw two numbers, so the numbers drawn and twice
these transactions stay within `MaxEvent`; and no path has more versions than
numbers were drawn.

### The client

For any number of processes that share any number of handlers:

| Theorem | Says |
| --- | --- |
| `ClientRefinesStore` | every step of the clients is a step of `AccessStore` or a stutter |
| `ClientKeepsPolicy` | clients and store together implement `AccessPolicy` |
| `StartsWithItsOwnHolds` | a process starts with exactly the secrets it named or, without names and while nothing it stands for changed, with exactly what is published inside its boundary |
| `NoSelfConflictHolds` | an attempt is never refused for its own key |

The first carries every theorem about the store over to the composition. The
invariant `CInv` then ties a client to the handler that works for it and to the
rows its key has left behind. `OwnKey`: no other attempt and no abandoned handler
has its key. `RowsAsDue`, `ResolvedAsDue` and `StartedAsDue`: what is stored under
that key, what is about to be delivered and what it has started with is what it
is due; the store alone guarantees only that it is inside the boundary.
`WatchedStep`: as long as `steady` holds, what an attempt without names is due
stays the same set (`DueStays`). `HandleKnown`: the handle it polls is one
its own post made. `PastClosed` is the reason why it meets no conflict: every
request in which the key has a row is decided, except the one it is waiting for,
and it posts again only when that one was revoked. A step of somebody else
leaves all this standing (`BystanderOK`); `ReceiveOK` goes through the `switch` of
the loop.

### Startup

For any number of processes, any releases, `KeyTable` and key files:

| Theorem | Says |
| --- | --- |
| `TypeCorrect` | `Spec => []TypeOK` |
| `NoClashHolds` | no migration runs twice, no second key row is inserted |
| `ServesOnWholeSchemaHolds` | a server that listens has its whole schema |
| `OneKeyOpensAllHolds` | all servers hold one key, and it opens what was sealed |

`SchemaOK` says what the first advisory lock protects (what is applied has no
gap, what a process has found missing is still missing), `KeyOK` what the second
does (the row that was read is the row there is). `OneKeyOpensAllHolds` assumes
`Generated \cap Files = {}`: nobody has put a generated key into a file. Without
that it is false, as finding 2 shows. Its proof fixes the one key that will ever
be (`KeysAgree`); losing the row does not help to a second one, because a
database that holds ciphertext refuses to draw a key.

### Administrators

For any number of windows, logins, sessions and secrets:

| Theorem | Says |
| --- | --- |
| `TypeCorrect` | `Spec => []TypeOK` |
| `NeverLockedOutHolds` | protection is only on with a secret the phone holds |
| `OnlyItsCodeTurnsItOffHolds` | it goes off only by a disabling that had its code |
| `LaterLoginsNeedCodeHolds` | a login is let in only if the row, at some moment since it was sent, would have let it in |
| `LogAlternatesHolds` | what the log says last is what holds, and on and off alternate |

`DraftOK` says what a transaction on the row of `admins` knows under its lock: the
state it found is the state it will change, so the row it leaves is one that the
CHECK allows and whose secret, if it protects, the phone has (`UpdatedRow`).
`SeenOK` is what the last action property needs: what a login has read was the
row at a moment since it was sent (`WatchKeeps` and `SeenStays` carry that
along), and a login past the check was let in by it.
`LogAlternates` reads every beginning of the log; `OnAfterPrefix` and
`OnAfterOneMore` say what one more event changes, and each event but
`MFA_SETUP_STARTED` is written under the lock of a row in the other state.

### Login gate

For any number of logins and peers and any limits, `LoginGate_proofs` shows
`TypeCorrect` (with it, that the map never takes more than `Cap` entries),
`SlotsAreReturnedHolds` and `AtMostTwiceTheLimitHolds`. The first two need that
entries and lent slots are finitely many. The third is about windows that slide
while the code's windows are fixed: `SpansOK` says, for every span of ticks, that
what was let through since the entry began is at most its count and the limit,
and that a longer span reaches into one earlier entry and adds at most one limit
more.

### Path rules

For any strings, lists and boundaries, any length limits and any collation:

| Theorem | Says |
| --- | --- |
| `AllowedIsSubtree` | comparing prefixes letter by letter is the same as lying below a named directory, for strings over any characters |
| `AnswersBySubtreeHolds` | a caller is refused for its boundary exactly when it names something outside of the subtrees, and without names it gets all there is inside |
| `KeyNamesOneSetHolds` | a key used again in the same way, by a caller that has to wait, is refused exactly when the set of paths is another one |

`StringsAssumption` says that what is entered are strings and lists of strings,
`CollationAssumption` that the collation orders any two paths. That the order of
bytes does so too is proved (`LessIrreflexive`, `LessTransitive`, `LessTotal`;
the last looks at the first difference, which exists because the naturals are
well-founded). `SortExists` builds the sorted list of a finite set: the place of
an element is the number of those before it. `SortedCovers` says that such a list
names every element. The invariant `RulesInv` keeps, with what is stored under a
key, in which order it was put (`StoredOK`): the list of its set, so that lists
are equal exactly when their sets are.

### Live page and shutdown

`Shutdown_proofs` shows `ShutdownTypeCorrect` and `OrderlyEndHolds` for any queue
and any number of changes, broken connections, signals and crashes. `Served`:
handlers are at work only while there is a server for them, and cancelled queries
keep it from ending; `Excused`: a caller that got nothing has waited out the ten
seconds or met a crash.

### What is only model-checked

Liveness, outside the prover's reach: `EveryCallAnswered`, `EveryAttemptEnds`,
`EveryRequestEnds`, `StartEnds`, `RestartedPageFollows`, `ReloadsSettle`,
`StreamEndsWithSession`, `ShutdownEnds`, `LockoutEnds`. Every invariant and every
action property that a passing run checks is also proved.

## 5. Findings

1. **A revoked handle is refused, not reported** (`revoked_handle`). `Poll` runs
   `checkPaths` before it looks at the status (`access.go:199`). When an edit of
   the boundary revoked the handle, the answer is 403 (404 if the path was
   archived), while `README.md:161` promises `{"status":"revoked"}`. Clients
   retry on that status only, so they give up.
2. **A generated key cannot be imported back** (`key_label`). `store.go:117`
   tells the operator to import the existing key; the import labels it `file-v1`
   (`store.go:104`) while data sealed under a generated key asks for `db-v1`. The
   same key material no longer opens it, and the row cannot be written again.
3. **A request can stay invisible** (`live_gap`). The first snapshot of a stream
   is never announced (`pages.go:253`), so a request that arrives between the
   rendering and that snapshot shows only with the next change, although
   `approvals.html:1` says that new requests appear automatically.

Smaller disagreements that are noted as hazards: a key used again for other
paths is accepted while a grant is active (`README.md:145` says 409); the login
limit of `README.md:101` is per window, so twice as many pass across a border,
which `AtMostTwiceTheLimit` bounds; a login that read the row of `admins` before
the authenticator went on is let in without a code (`security.html:27`), and
`LaterLoginsNeedCode` states what does hold: at that moment no code was due. The
line that finding 1 quotes also says that requests revalidate their paths, and
`store_test.go:341` expects that of a poll: for a narrowed boundary the two
sentences exclude each other.

## 6. Not modelled

- **Cryptography and encodings**: AES-GCM, Argon2id, SHA-256 and TOTP arithmetic
  are taken for what they promise; only what a ciphertext is bound to and which
  key label it asks for matter to the protocols.
- **Input**: how forms and JSON are cut into names and patterns, limits on sizes
  and lengths other than those of paths, the checks of URLs and of the
  environment, `keygen`.
- **HTTP details**: parsing, CSRF tokens, headers, templates, static files: no
  state that outlives a request. A listener that fails after it was opened
  (`main.go:137`) is counted among the crashes of `Kill`.
- **PostgreSQL** itself: READ COMMITTED, row locks, unique indexes and sequences
  are modelled by what they do to these statements.

## 7. Plan

1. That `AccessStore` is a refinement of `PathRules` with its patterns and lists,
   not only a module over the sets they stand for.
2. Larger instances of `client`: two replicas of an application at once, and
   grants that run out under them.
3. Proofs: the safety half of the liveness properties, that what they wait for
   comes nearer with every step of those concerned and is not put off by others
   (a draining server, a window that rests, a request that holds its lock).
