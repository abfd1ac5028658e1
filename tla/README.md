# Projects-Service: a verification project

TLA+ models of Projects-Service, the runs that check them with TLC, and the
theorems about them that TLAPS checks. The service takes applications for
projects from external initiators (no login) and lets administrators accept or
reject them; it is a Go program over one PostgreSQL database, and several
copies of it may run at once.

## The system

| Part | Code | State | Operations | Hard because of |
|---|---|---|---|---|
| HTTP transport | `internal/transport/http/router.go`, generated binding in `api/gen.go` | per request: id, actor | bind path and query, `withAdmin`, decode JSON, map errors | the role is re-read once and then trusted |
| Use cases | `internal/application/service.go` | none | login, list types, submit, get, list, accept, reject | check and act are separate statements |
| Transactor | `internal/platform/postgres/tx.go` | one transaction, one pooled connection | begin, run, rollback or commit | every call may fail, with or without effect in the database |
| Pool | `internal/platform/postgres/db.go` | at most 10 connections | acquire, release | exhaustion, connections that break |
| Repositories | `internal/platform/postgres/repositories.go` | table rows | `GetByIDForUpdate`, `UpdateDecision`, `Create`, `List`, `Exists`, `GetByLogin`, `GetByID` | row locks, constraints, separate snapshots |
| Migrations | `internal/platform/postgres/migrations.go`, `migrations/*.sql` | `schema_migrations`, schema, an advisory lock | `RunMigrations` at each start | concurrent starts, crashes half way, 002 is not repeatable |
| Demo seed | `internal/platform/postgres/seed.go` | users, project types | four upserts at start | no transaction, no lock, overwrites roles |
| Tokens | `internal/platform/auth` | none (signed claims) | generate, parse, hash, verify | tokens outlive role changes |
| Process | `cmd/service/main.go`, `internal/config` | listening, draining, exited | start, serve, shut down within 10 s | requests in flight at the end |

How they interact: a request passes `withMiddleware`, the generated binding and
`withAdmin` (one read of `users` on a connection of its own), then a use case.
Accept and reject share `changeDecision`: `BEGIN`, `SELECT ... FOR UPDATE`, a
test of the status in Go, `UPDATE`, `COMMIT`, all on one connection that the
context carries to the repositories. A submission is two statements in no
transaction, a listing likewise. What copies of the service share is the
database alone: its rows, row locks and, at start, the advisory lock.

What makes each part correct:

* decisions: an application leaves PENDING once; what a client is told agrees
  with the table, now and later; only administrators decide; a request never
  waits for ever and never leaves a row locked;
* migrations: the journal and the schema agree after any crash; a copy serves
  only on the full schema; concurrent starts do not hurt each other and all end;
* submissions: every acknowledged application exists once, is PENDING and
  refers to an existing type; inputs are judged as the contract says;
* listings: count and page describe the same set; paging loses nothing;
* seed: a start leaves the demo data complete and touches nothing else; it can
  be repeated after any crash;
* login and access: every answer was true at some moment of the call; a token
  never speaks for another account;
* process: it serves only when it is ready, ends when it is told to, and breaks
  off no answer that could still be delivered.

## Modules

| Module | Models | Extends / instantiates |
|---|---|---|
| `ApplicationDomain` | statuses, rows, the CHECK constraint, classes of reject bodies | |
| `DecisionRegister` | **abstract**: every application is a write-once register | `ApplicationDomain` |
| `Decisions` | accept and reject from middleware to database, on any number of instances | `ApplicationDomain`, instance of `DecisionRegister` |
| `SubmissionRegister` | **abstract**: every request is stored at most once and answered truthfully | |
| `Submission` | a submission from body to row, with retries and types that come and go | instance of `SubmissionRegister` |
| `Catalogue` | the list endpoint as two statements, and a client who pages through it | `ApplicationDomain` |
| `MigrationLedger` | **abstract**: migrations take effect one by one, each at one instant, and then copies serve | |
| `Migrations` | `RunMigrations` in any number of boots | instance of `MigrationLedger` |
| `Seeding` | `Seed` in any number of starts, on tables that operators edit | |
| `Access` | login, tokens and admission, over the tables of `Seeding` as they change | `Seeding` |
| `Lifecycle` | `main` from environment to exit status, its server, signals and requests | |
| `DecisionsProofs`, `SubmissionProofs`, `CatalogueProofs`, `MigrationsProofs`, `SeedingProofs`, `AccessProofs`, `LifecycleProofs` | theorems about the module of that name | that module; `AccessProofs` also `SeedingProofs` |
| `MC...` | constants for TLC | the module of that name |

How they fit together. `Access` composes two components: its steps are those of
`Seeding` (restarts, seeds, operators) and those of the endpoints, and the
invariant of `Seeding` is used in its proof. The other modules meet at named
points: `Migrations` and `Seeding` say what the steps `Migrate` and `Seed` of
`Lifecycle` do inside; `Crash` in `Decisions` and `Submission` is what the end of
a process in `Lifecycle` does to requests in flight; `Create` and `Decide` in
`Catalogue` are the effects that `Submission` and `Decisions` commit; deleted
types in `Submission` and changed roles in `Decisions` are the operators of
`Seeding`.

### `Decisions`

One process per request. `pc[r]` is where the handler is; a step ends where the
code waits for the database:

| `pc` | next in the code | actions |
|---|---|---|
| `idle` | the client sends the request | `Arrive` |
| `auth` | path binding, `withAdmin` | `RejectPath`, `RejectToken`, `LoadActor`, `LoadActorFails` |
| `handle` | id, body, `authorizeAdmin`, reason | `Handle` (its order of checks is `Precheck`) |
| `begin` | `db.BeginTx` | `BeginTx`, `BeginTxFails` |
| `select` | `GetByIDForUpdate` | `SelectForUpdate`, `StatementFails` |
| `update` | status test, `UpdateDecision` | `RefuseDecided`, `Update`, `StatementFails` |
| `commit`, `committing` | `tx.Commit` sent, answered | `SendCommit`, `CommitAcked`, `CommitFails` |
| `rollback` | `tx.Rollback` | `Rollback` |
| `done`, `crashed` | answered; or the instance died | |

The server side is separate: `tx[r]` (`none`, `open`, `commitSent`, `committed`,
`aborted`) and `lock[a]` are what PostgreSQL knows, `conn[r]` what the pool
knows. This separation is where the failures live: `CommitFails` answers 500
while `tx[r]` may be `commitSent`, and `ServerCommit` may still apply it; a
`Rollback` that is lost, a broken connection and a `Crash` leave `tx[r]` open
and `lock[a]` taken until `ServerAbort`. A pending UPDATE needs no variable of
its own: what it writes is a function of the request (`Decision`), and the table
changes at `ServerCommit`. `users` changes at any time (`ChangeRole`); the
history variable `admins` remembers which requests had an administrator behind
them at some moment since they arrived.

A text is a class: a reason, a reason inside white space, blanks (an empty text
behaves alike), tabs, more than 750 bytes, one with U+0000, malformed JSON, a
body above 1 MiB. `TrimSpace` and `Btrim` are what Go and PostgreSQL make of each
class; U+0000 means nothing to the code, and PostgreSQL refuses it (`Storable`).

The reads of `withAdmin` take a connection and give it back in one step; they
hold no second resource, so this only shortens the time a connection is busy.

### `DecisionRegister`

Four actions: `Submit`, `Invoke`, `Decide`, `Answer`. A decision takes effect
at one instant after its call or never; `ok` only after it; `invalidState` only
if another call's decision took effect; `internal` (HTTP 500) promises nothing,
in particular not that nothing happened; any other answer means never. This is
the contract a client of the two endpoints may rely on, and `RegisterSpec` says
that `Decisions` implements it under the mapping `callBar`, `effectiveBar`
(requests whose transaction PostgreSQL has committed), `answerBar`.

### `Migrations`

One process per boot, a restart being another boot. `registered`, `journal`
and `schema` are the committed state; `work[b]` the schema inside an open
transaction; `session[b]` PostgreSQL's view of the boot's connection, which
holds the transaction and the advisory lock and outlives the boot until
`ServerEndsSession`. `File` has the statements of the three SQL files, `Apply` and
`Refused` what each does: 001 creates what is missing, 002 fails when the
constraint exists or a row violates it, 003 drops it in one statement and adds
its own in the next. `Exec` runs one statement, the one at `line[b]`, on what the
transaction has made of the schema so far (`Seen`), and a boot may fail or die
between two. `Init` covers a database of every earlier release, one whose
tables are older than the journal, and one with rows 002 cannot accept
(`legacy`).

`MigrationLedger` is what all this amounts to for whoever looks at the database:
`Migrate` makes the next schema at one instant, `Serve` admits a copy after the
last. `LedgerSpec` says that `Migrations` implements it, with `appliedBar` (how
many versions are registered) and `servingBar` (the boots that run).

### `Submission`

One process per attempt of a client: `handle` (`decodeJSON`, `normalizeCreateInput`,
`validateCreateInput`), `exists` (`ProjectTypes.Exists`), `insert`, `inserting`
(the INSERT is on its way). `stmt[r]` is the INSERT as PostgreSQL knows it: it may
be executed after the handler has answered 500 (`StatementFails`) or died
(`Crash`). `types` changes at any time, within the foreign key. A client sends
its body again only when it cannot know what became of it. A body is a function
from fields to classes of values; `Decode` gives a missing field its zero value,
`Validate` reports the first fault in the code's order. A text with U+0000 is
valid; PostgreSQL answers its INSERT with an error for which `mapDatabaseError`
has no case (`stmt[r] = "unstorable"`), so that its client gets a 500 although
nothing has failed. `AckedExactlyOnce` and `RefusedLeavesNothing` say what holds
for each attempt. Two rows for one client are possible, since the service has no
idempotency key; `DuplicateOnlyAfterFailure` says that this takes a lost answer,
a failed statement or a crash, and not merely a 500.

### `Catalogue`

One listing at a time: `exists`, `count`, `page`, each a statement on its own
snapshot. A query with a parameter that is not of its type (`Malformed`) does
not bind and is answered before the handler runs (`Ask`); `Normalise` and
`Refused` are what the handler and the service make of the parameters. The
client takes the number of rows it received as the step of its offset and stops
at an empty page. Writers (`Create`, `Decide`) are the committed effects of the
other modules; a stamp is any value, since inserts are stamped by the database
and decisions by the clock of some instance. `Orderings` is ORDER BY
`updated_at`, with ties in any order. The history variable `walk` remembers what
was selected at the start, what was listed, and whether rows left or joined the
filter or shared a stamp; no property holds without these conditions, and that
is what a reader should know of the endpoint: paging through pending
applications while others decide skips some.

### `Seeding`

`boot[b]` and `next[b]` say which of the four statements of `Seed` a start is at.
Each statement is a transaction of its own and the whole runs outside the
advisory lock, so that seeds of several starts interleave. A process may die
with a statement on its way (`orphan`), which PostgreSQL may still execute. The
upsert of an account is one step, because the login is the only key it can
conflict with. That of a type is two: PostgreSQL looks for the id, which is all
that `ON CONFLICT (id)` covers, and either updates the row (`UpdateType`) or goes
on to insert (`ProbeType`, which puts b into `probed`). By the time of the
`InsertType` another row may bear the id, and PostgreSQL starts again, or the
name, and `UNIQUE (name)` makes the statement fail; so may it in `UpdateType`.
`Seed` returns that error and `main` exits (`Exits`).

Operators add, change and delete accounts and add and
rename types with SQL, the service having no endpoint for it. Ids come from
sequences, which `INSERT ... ON CONFLICT` advances also when the row exists and
which explicit ids (1 and 2 of the demo types) do not move: `AddType` may fail
for that. `failed`, `beside`, `disturbed`, `demoted`, `deleted` and `clash` are
history.

What this shows of the seed: on each start with `ENABLE_DEMO_SEED=true` the
accounts `admin` and `user` get the demo passwords and roles again, whatever an
operator made of them (`DemotedStaysDown` holds only because the seed is allowed
to reinstate), and types 1 and 2 their demo names. It fails, and with it the
start, if an operator has given a demo name to another type, and it may fail if
an operator edits meanwhile or if another start seeds beside it; a start that
meets none of these and no failure gets through (`AloneSeedGetsThrough`).

### `Access`

`pc[c]` is where the handler of c's call is: `login` (up to `GetByLogin`; a body
that `decodeJSON` refuses ends in `RefuseBody`, with 400 or 413), `verify`
(bcrypt, `Generate`), and for `GET .../{applicationId}` `bind`, `auth`
(`withAdmin`), `get`. `found[c]` is the row that was read, which may be stale
when it is used. `saw[c]` is history: what was true of the call's account at the
moments since it began; answers are judged by it. A password is a value and its
hash is that value; a token is its claims, which nobody forges, and `Expire`
ends its 24 hours at any time. Of the guarded endpoints the one modelled here is
the one that reads a single application, because it completes what `Decisions`
(accept, reject) and `Catalogue` (list) leave out; all four share `withAdmin`.

### `Lifecycle`

Two goroutines per process: `pc[p]` is function `main`, `srv[p]` the goroutine
that listens. `env[p]` is the environment: `Loadable` is `config.Load`. `Open`,
`Migrate` and `Seed` may fail, which exits with status 1; only `Open` has a
timeout. `Signal` kills a process that has not called `NotifyContext` and is
remembered by one that has. `StartDrain`, `Drained` and `DrainTimesOut` are
`Server.Shutdown`; `ClosePool` is the deferred `db.Close`. A request goes from
`sent` (a new connection) or `kept` (a connection that a request has left) to
`handling` and `answered`, `late` (after `WriteTimeout`), `lost` (nobody has read
it) or `cut` (its process went while the handler ran). Time is counted in units
of 5 s: `ReadHeaderTimeout` 1, `WriteTimeout` and that of Shutdown 2. What
`ReadTimeout` adds for bodies is left out; it only shortens handlers.

The operators whose names say what is wrong with them
(`SelectForUpdateNoLock`, `UnlockForgotten`, ...) are plausible mistakes. No
specification uses them; each stands before the definition it would replace and
is listed with the property that it breaks under `mutants` in `PROJECT.json`.

## Runs

| Run | Question | Bounds and why they are enough |
|---|---|---|
| `race` | can concurrent decisions on one application contradict each other or their answers? | 3 requests, 1 application: a winner, one waiting for the lock and one in any other phase; 2 connections, so that the third waits for the pool; one body, since texts play no part; symmetric requests |
| `inputs` | who may decide, and what reaches the table? does the model implement the register? | 2 requests, every token, path and body class, each on an instance with a pool of its own; two suffice for one to meet the other's effects |
| `pool` | does everybody get an answer when connections are scarce, and is every row lock released? | 2 requests, a pool of 1: every acquisition is contended, and the survivor of a failure contends with the dead session |
| `starts` | do journal and schema agree, whatever starts and dies when, and does every start end? does the model implement the ledger? | 3 boots: one dead half way, one at work, one waiting |
| `submissions` | what does an answer to a submission say about the table, and what can be stored? does the model implement the register? | 2 clients with 2 attempts, so that ids interleave, an INSERT outlives its request and a body is stored twice; a type that comes and goes; a good body, one to be trimmed and completed, one that only PostgreSQL refuses, and one for each fault of each field, since validation looks at one field at a time |
| `walk` | what does a client miss who pages through a changing list? what reaches PostgreSQL? do count and page agree? | 3 applications, pages of 1 or 2: one listed, one at the boundary, one to come; 3 stamps, so that all orders and ties occur; every parameter below, at and above its limits, and not of its type; 20, 100 and 2^64 are scaled down to 1, 2 and 16 |
| `seed` | what do repeated, overlapping and broken seeds leave, and when do they fail? | 3 starts, 2 of them seeding: one dead half way and one at work, and one that must not seed; 2 edits: one to make a row, one to change it |
| `access` | were answers true when they were given? whose token is it? | 1 client, since clients share nothing; 1 seeding start; 2 edits: an account deleted and its login given away, or created and demoted; a password that is wrong until it is set, one that fits once trimmed, none; bodies that do not decode |
| `lifecycle` | who serves, who ends, what is broken off? | 2 copies on one port, so that one finds it in use or takes over; 2 requests: one that is handled when the signal comes, one on its connection or behind it; a good environment and each mistake in one |
| `count` | is `count` what api.json says? (it is not) | 2 applications, ordinary parameters |
| `lengths` | are the limits those the errors name? (they are not) | 1 client, one odd field |
| `required_fields` | is what the contract requires required? (not `isPayed`) | 1 client, one odd field |

The type invariants and the inductive invariants below are not repeated in the
runs: TLAPS proves them.

Requests and boots are served once, and there are finitely many of them; the
artificial bounds are `MaxAttempts` in `Submission`, how often a client tries,
and `MaxEdits` in `Seeding` and `Access`, how often operators edit. The runs
stop when all are done, which is why deadlock is not checked; that nobody is
stuck before is what `EveryRequestAnswered`, `LocksReleased`, `EveryBootEnds`,
`SignalEnds` and `EitherServesOrEnds` say. Liveness of decisions is checked for
one instance; what another would add is a session that holds the row lock when
its client has gone, which a broken connection of the one leaves too.

Fairness. `Progress(r)`: a goroutine whose call has returned goes on, a free
connection is handed to a waiting goroutine, and PostgreSQL grants a free row
lock; each process is served once, so weak fairness is enough. Failures are not
fair, except that a statement on a transaction that PostgreSQL has aborted does
fail. `ServerProgress(r)`: PostgreSQL completes a commit it has received, and
ends a session whose client has closed its socket (pgx closes it, or the kernel
does when a process dies). For a host that disappears without closing sockets
this rests on TCP keepalive. Arrivals, starts, role changes and crashes are not
fair.

In `Lifecycle` time passes (`Tick`) and each goroutine goes on when what it
waits for has come (`Main`, `Server`): `config.Load` returns, `Open` is bounded by
the 5 s of its ping, `Shutdown` by its deadline. `Migrate` and `Seed` are not
fair, since PostgreSQL may never answer; nor are clients, handlers, signals and
kills. `SignalEnds` holds without them: before `NotifyContext` a signal kills, and
after `Shutdown` has returned no handler is left that `db.Close` could wait for.

## Where the code and its documents differ

* `count`: COUNT and the page are two snapshots. An application submitted in
  between is on the page and not in the count, so that a listing can say
  `count: 0` and carry a row. `api.json` calls it the number of applications
  that the filter selects. `CountAgreesUnlessWritten` is what does hold.
* `lengths`: `len` counts bytes. 751 Cyrillic letters in `additionalInformation`
  are refused with "additionalInformation exceeds 1500 characters", 76 in a name
  with "fullName exceeds 150 characters", and so for every text limit (and the
  reason of a rejection, which `Decisions` keeps in bytes as the code does).
* `required_fields`: a body without `isPayed`, which `api.json` requires, is
  stored with `false`. The other required fields are missed when absent,
  because their zero values are refused.

Met while modelling, without a run of their own:

* README.md:201-203 calls `DATABASE_URL` mandatory; config.go:24 has a default,
  and only a variable that is set and empty is an error (`Loadable`).
* An empty `ENABLE_DEMO_SEED` is an error, not `false`; an empty `HTTP_PORT` makes
  the address `:`, a port of the system's choice.
* A submission has no idempotency key: a client that repeats one after a lost
  answer may be stored twice, which `SubmissionRegister` allows.
* README.md:29 promises an "Idempotent demo seed", which compose.yaml:29 enables.
  Repeated it is; but when two copies start on an empty database together, both
  may find type 1 missing, and the second INSERT fails on `UNIQUE (name)`, which
  `ON CONFLICT (id)` does not cover: that copy exits, and gets through when it is
  started again. `AloneSeedGetsThrough` excludes starts that seed beside one
  another (`beside`); without that, the run `seed` finds this behaviour.
* A text with U+0000, in a submission or in the reason of a rejection, is
  answered with 500 rather than 400.
* A stop that kills after the same 10 s that `Shutdown` is given may come before
  the process has exited by itself.

## Proofs

`DecisionsProofs` proves, for every number of requests, instances, users,
applications, bodies and connections: the type invariant, `SingleDecision`,
`AckedDecisionStands`, `RefusalMeansDecided`, `FailureIsClean`,
`DecisionHasAuthor`, `ConstraintNeverFires`, `RejectionExplained`, `Lifecycle`
(rows change only as README.md draws it),
and `Refinement`: `Spec => RegisterSpec`.

The argument is one inductive invariant, `DecisionInv`. `SingleDecision` alone
is not inductive: it must be known that a request about to commit still sees a
PENDING row. `LockInv` says so: between the SELECT and the end of its
transaction on the server a request holds the row lock, so what it has read is
the row (`seen[r] = table[...].status`), and a transaction whose COMMIT is on
its way holds the lock of a PENDING row. `TableInv` ties the table to the
requests that have committed, `RequestInv` says that only requests fit to be
written get to a transaction, `PhaseInv` relates the handler to the server and
`ResultInv` what clients are told to what was committed. `Init => DecisionInv`
is `InitInv`; each action preserves it by a lemma of its own (`...Step`), and
the theorems follow. In the refinement, `ServerCommit` is the register's
`Decide`, replies are `Answer`s, and all else is a stutter.

That requests cannot deadlock is proved as a safety property, for any number of
them: `Waits(r, s)` is the wait-for graph (r needs a connection of an exhausted
pool and s has one, or r needs the row lock that s has), and `NoCircularWait`
says that no path in it is longer than two. `HoldInv` is why: who has a
connection no longer waits for one, and who has a row lock waits for nothing.
`PoolBound` adds that no pool lends more connections than it has and that a
request that finds none free does wait for a request that has one. That those at
the end of a chain go on is fairness, and checked in `pool`.

`SubmissionProofs` proves, for every number of clients and attempts and all
types and bodies: the type invariant, `AckedExactlyOnce`,
`RefusedLeavesNothing`, `DuplicateOnlyAfterFailure` and `StoredFits`. The
inductive invariant is `SubmissionInv`. `AckedExactlyOnce` needs that rows and
executed INSERTs are one to one (`RowsInv`), `RefusedLeavesNothing` that a
refusal is decided before an INSERT is sent or by PostgreSQL's answer to it
(`AnswerInv`), `DuplicateOnlyAfterFailure` that every earlier attempt has
crashed or ended in a 500 (`RetryInv`), which without a failure comes only from
an INSERT that stored nothing (`AnswerInv`), and `StoredFits` that whatever is
sent was found valid (`InputInv`) together with a lemma on the validation
itself, `ValidFields`, which holds for every body.

`Refinement` says that `Spec => RegisterSpec`: `ServerInsert` is the register's
`Store`, which may come after the answer; every reply is a `Tell`.

`MigrationsProofs` proves, for every number of boots: the type invariant,
`SchemaMatchesJournal`, `ReadyMeansMigrated`, `OneMigrator`,
`RefusedOnlyForLegacyRows` and `ConstraintNeverLost`. In `MigrationInv`, `LockInv`
ties the advisory lock to the session of the boot that works, so that
(`PhaseInv`) the open transaction of the holder has been built on the schema
that is still the committed one, and holds what the statements up to `line[b]` of
the first missing file make of it (`AfterFile` when all are done). Without it,
`SchemaMatchesJournal` is not inductive: a second transaction could commit on a
stale snapshot, or half a file. `ConstraintNeverLost` follows because the schema
between DROP and ADD of 003 exists in `work[b]` only, and what is committed is
the schema after both. In `Refinement`
(`Spec => LedgerSpec`) `ServerCommit` is `Migrate`, an `Unlock` after the last
version is `Serve`, and every other step of a boot or of PostgreSQL is a stutter.

`CatalogueProofs` proves, for every finite table, all stamps and criteria, page
sizes and parameters: the type invariant, `StatementInRange`,
`CountAgreesUnlessWritten`, `WalkMissesOnlyAfterDeparture`,
`WalkRepeatsOnlyAfterArrival` and `DecidedWalkMissesNothing`; and from them
`WalkListsExactly`: on a list that nothing joins or leaves, with distinct
stamps, paging shows every application once and nothing else. The argument is
about ranks. `Rank(a)` is the number of selected applications that come before
a; a page holds those whose rank lies from its offset to the next
(`OrderedByRank`, `SliceForm`). While nobody leaves the filter, ranks do not
fall, so that whoever has been there from the start and is not listed stays at
or beyond the next offset (`MissInv`); while nobody joins, ranks do not grow, so
that whoever is listed stays before it (`RepeatInv`). An empty page means that
the offset is beyond all ranks, hence `EndInv`. The order of a page is given by
`Orderings`, which speaks of all pairs of places, so that no induction over the
sequence is needed.

`SeedingProofs` proves, for any starts, passwords and number of edits:
`DemotedStaysDown`, `SeededUnlessEdited`, `AloneSeedGetsThrough` and
`SeedKeepsTheRest`. `SeedInv` adds that keys are unique (`RowsInv`), that what a
start has executed stays in place until an operator edits (`ProgressInv`),
that only enabled starts execute anything (`StartInv`), and that a start which
inserts a type still finds the id free unless it has been disturbed or is not
alone (`AloneInv`).

`AccessProofs` proves, for any clients besides: `TokenSpeaksForItsOwner`,
`LoginTrueDuringCall`, `AnswerTrueDuringRequest` and
`TokenLivesAsLongAsItsAccount`. `IdentityInv` says that an id, once drawn, goes
with one login for ever, in the table, in a row that was read and in a token
(ids are never drawn twice, logins never change); `CallInv` that what has been
read was true at a moment that `saw` remembers. Every step of `Seeding` keeps
both because it changes accounts in place.

`LifecycleProofs` proves, for any copies, requests, environments and timeouts
with `WriteTimeout` at most that of Shutdown: the type invariant,
`GracefulLosesNothing`, `ServesOnlyWhenReady` and `DrainCutsNoDeliverableAnswer`.
`LifecycleInv` says what a process has at each point of `main` (`MainInv`), that a
handler runs only in a process that has not got beyond Shutdown (`RequestInv`),
and that an answer that was due when Shutdown began is due before it ends
(`DrainInv`, which time keeps because it runs alike for both).

Assumptions used: the applications are finitely many, at most half of 2^64
(their ids are positive BIGINTs), and a client's numbers fit an int, so that
offsets which are advanced by what was received never wrap; the limits are
ordered as router.go and service.go set them; there is at least one way to
filter; a parameter that is not of its type is no value; `NoRequest` is no
request, `NoUser` is no user and tokens are of users or nobody's, ids in paths
are ids of applications or one of two bad ones, bodies are of the known classes;
`NoBoot` is no boot and `NoCopy` no copy; the demo passwords are among the
passwords, and no password is empty or has white space around it; WriteTimeout
is no longer than the timeout of Shutdown, which main.go satisfies with
equality.

Only model-checked: liveness (`EveryRequestAnswered`, `LocksReleased`,
`EveryBootEnds`, `SignalEnds`, `EitherServesOrEnds`), which is beyond the prover,
as is that an action is enabled. Every safety property of the passing runs is
proved. The three runs that expect a violation are counterexamples and have
nothing to prove.

## Not modelled

* Reading the project types is a single statement without parameters and state.
* Logging, request ids, recovery from panics, the layout of responses.
* Generated code beyond the outcomes that matter: a path or query that does not
  bind. U+0000 in a login or a search, which ends in the 500 that `QueryFails`
  in `Access` and `StatementFails` in `Catalogue` already allow. The query files
  behind `sqlc` are not in the repository; their statements are modelled from
  how the repositories use them.
* PostgreSQL, pgx, bcrypt, JWT and the Go library are modelled from their use:
  their actions are marked external in `PROJECT.json`.
* Liveness under repeated failures of PostgreSQL: no code retries anything.

## Plan

Done: all modules above with their runs, and the theorems of seven of them. What
could follow, in this order:

1. One register of applications, with submissions, decisions and listings, that
   `Submission`, `Decisions` and `Catalogue` together implement.
2. Theorems about the abstract modules themselves: what a client may conclude
   from `DecisionRegister` and `SubmissionRegister` alone.
3. Larger instances: three copies in `lifecycle`, two clients in `access`.
