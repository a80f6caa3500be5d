# TLA+ models of api-example

A verification project for the Go service in `src/`: a REST API with accounts
and documents, a background worker, and a migration runner, on PostgreSQL,
Redis and an object store. The modules here are translated from the code; the
line each definition stands for is in `PROJECT.json` under `map`.

## 1. Inventory

| Part | Source | State it keeps | Operations |
|---|---|---|---|
| Document service | `internal/service/document_service.go`, `internal/handler/document.go` | none of its own: the rest of a request is in its local variables | `Create`, `Get`, `List`, `Download`, `Delete` |
| Documents table | `migrations/list/03_create_documents.go`, `internal/repository` | a row per document: status, `deleted_at` | INSERT, claim, mark ready, mark failed, soft delete |
| Queue | `internal/queue/redis.go` | three Redis lists: main, processing, dead letter | `Enqueue`, `Consume`, `Ack`, `Retry` |
| Worker | `internal/service/document_worker.go`, `cmd/worker` | the claimed job and the row it loaded | `Run`, `Process`, `fail` |
| Object store | `internal/storage` | files or S3 objects | `Put`, `Open`, `Delete` |
| Upload readers | `document_service.go:173-209` | bytes left under the limit, bytes counted | `Read` |
| Auth service | `internal/service/auth_service.go`, `internal/repository/auth_repository.go` | `users`, `refresh_sessions` | `Register`, `Login`, `Refresh`, `Logout`, `Me` |
| JWT, passwords | `internal/auth` | none | sign, validate, hash |
| Migration runner | `cmd/migration`, `migrations/list` | the `migrations` table and the schema | `up`, `down N`, read-only commands |
| Application | `internal/app`, `cmd/*` | the stack of resources to close, the listener, the requests in flight | `Build`, `RunServer`, `RunWorker`, `Close` |
| HTTP layer | `internal/handler`, `internal/middleware`, `internal/router` | none | authenticate, decode, map errors to statuses |
| Listing | `internal/domain/pagination.go`, `document_repository.go`, `pkg/validator` | none: a page and its total are two reads | `List` |
| Configuration | `internal/config` | none after start | `Load`, `Validate` |
| Errors, logging | `pkg` | none | pure functions |

**How they interact.** A `POST /documents` writes the object, then the row, then
the job, in three services that share no transaction. Workers (any number of
processes) move a payload from the main list to the processing list, claim the
row with a conditional UPDATE, read the object, record the outcome, and then
either remove the payload (`Ack`) or remove it and push its next attempt
(`Retry`, two commands). Requests and workers meet only in the table, the lists
and the store. Every call carries a `context.Context`: the client's connection
or SIGTERM ends it in the middle of an operation. Auth requests meet in the
rows of `users` and `refresh_sessions`; migration processes meet in the
changelog. Inside a server, the main goroutine, the one that listens and the
handlers meet in a channel, in `http.Server.Shutdown` and in the pool.

**What is hard.** Dual writes with partial failure and lost replies; the
compensation that shares the fate of what failed; duplicate jobs and late
answers of workers whose row was deleted or finished meanwhile; the crash or
cancellation between the commands of `Retry`; a token refreshed by several
requests at once, replayed, or logged out while it is being rotated; migration
commands that act on a changelog read earlier; a page whose rows and total are
read apart and whose offset is cut to 32 bits; a check of ownership followed by
an act on a row that may be gone; a shutdown that gives up on handlers which
still hold connections of the pool it closes next. `PROJECT.json` lists each of
these hazards at its line, with the property that covers it or why none does.

**What makes each part correct.**
Documents: at most one owner, ready and deleted are final, a row has its
object. Queue: a busy worker has a copy of its own, no accepted document loses
its last job, the lists drain. Uploads: the limit is exact, readers see whole
objects, a failed `Put` leaves nothing. Sessions: one working session per
login, a revoked one never works again, what a client holds is stored.
Migrations: the changelog is a prefix of the registry and agrees with the
schema, success means complete. Access: only owners and administrators, a
deleted document stays gone, every answer is a documented one. Listing: a page,
its total and a walk through all pages disagree by no more than what changed
meanwhile. Application: it stops when told to, a server that exits with status 0 has
answered every request (a worker may exit with 0 in the middle of a job: finding
2), what was opened is closed in the opposite order. What a fault leaves
behind (a stranded payload, a row stuck in `processing`, a row without a job) is
left by that fault only, and never by a step whose calls all succeeded.

## 2. Modules

```
Dependencies ---- RedisQueue ------+
     |  \                          |
     |   +------ DocumentTable ----+-- DocumentUpload --+
     |   |                         |                    +-- DocumentPipeline -- MCDocumentPipeline
     |   +------ ObjectStorage ----+-- DocumentWorker --+     |   |   |
     |                                                        |   |   +-- DocumentPipelineProofs, DeliveryProofs
     |                 DocumentLifecycle, ReliableQueue <-----+   |
     |                                     (implements)           |
     +-- Actors ----------------------------------------- DocumentAccess -- MCDocumentAccess, DocumentAccessProofs
     |     |
     |     +-- DocumentTable, MachineIntegers ----------- DocumentListing -- MCDocumentListing, DocumentListingProofs

MachineIntegers -- Configuration -- AppLifecycle -- MCAppLifecycle, AppLifecycleProofs
UploadStream -- LocalStorage (implements ObjectStorage) -- LocalStorageProofs
RefreshSessions (implements SessionChain) -- MCRefreshSessions, RefreshSessionsProofs
Migrations -- MCMigrations, MigrationsProofs
```

* **Dependencies**: a call to PostgreSQL, Redis or the store is `ok`, `refused`
  (nothing happened) or `lost` (it happened, the caller got an error). A
  cancelled context refuses every further call. `Refusing` and `Losing` say
  which services may fail in an instance.
* **RedisQueue**: one operator per Redis command. `main` is a sequence whose
  head is the right end of the list; `processing` and `deadLetter` count the
  copies of each payload, as they are only pushed to and removed from by value.
* **DocumentTable**: one operator per SQL statement; `Claimable` and `Markable`
  are the WHERE clauses.
* **ObjectStorage**: the set of objects that exist. `Put` is one step and all or
  nothing; LocalStorage shows that the steps of the local adapter come to it.
* **DocumentUpload**: `upload[d]` is the next call of the request that makes
  document `d`: `new`, `insert`, `compensate`, `enqueue`, then how it ended.
* **DocumentWorker**: `pc[w]` is the next call of worker `w` and `claim[w]` its
  payload. `Process` and `Retry` are cut at every call.
* **DocumentPipeline** composes them and adds the operator's re-enqueue (which
  `docs/architecture.md` mentions; not in the code), malformed payloads,
  crashes, SIGTERM and restarts.
* **DocumentLifecycle** is the abstract specification: the status diagram, one
  owner at a time, and ready and deleted as ends. DocumentPipeline implements
  it, with the owner of a document mapped to the worker that holds it.
* **ReliableQueue** is the abstract specification of the three lists: payloads
  wait in order, each copy is handed out to one worker, and comes back once: for
  good, for its next attempt, or as a dead letter after the last. DocumentPipeline
  implements it. A copy that is out is one in the processing list, or with a
  worker between the two commands of `Retry`. What a dead worker had stays out:
  the queue promises that nothing is taken twice, not that it returns.
* **RefreshSessions**: users and refresh sessions of one account; `pc[r]` is
  the next statement of request `r`. The rotation, a transaction that locks the
  row it revokes, is one step; what `Refresh` read before it may be stale.
  `origin` and `used` are history variables.
* **SessionChain** is their abstract specification: a login starts a chain, whose
  last token may work, is handed on before it expires to one nobody has had, or
  is stopped; a stopped chain does not go on. RefreshSessions implements it, with
  the token that works of a login mapped to its active session.
* **Migrations**: `changelog` is the table in the order of `executed_at`,
  `schema` the migrations whose tables or rows exist. A migration and its
  record are one transaction; what was read before it may be stale. `MayMix`
  says whether `up` and `down` may run at the same time.
* **UploadStream** and **LocalStorage**: the readers of an upload, and the
  temporary file that the local adapter renames once it is complete.
* **Actors**: the users, who of them are administrators, whose a document is,
  and `May`, which is `authorizeDocument` and the choice of listing statement.
* **DocumentAccess**: `call[c]` is the request of caller `c`: `Receive` is the
  middleware and the parsing of the id, then come the statement of `Get`, the
  look at the status, `Open` of the object, or the UPDATE of `Delete`, each a
  step between which the whole pipeline runs. `StatusOf` and `As` are the table
  of `pkg/errors` and its `errors.As`. The module extends DocumentPipeline and
  replaces its `Delete` by requests.
* **DocumentListing**: one reader and the rest of the world. `Ask` validates and
  normalises, `SelectItems` and `CountItems` are the two statements. `gone`,
  `between` and `walk` are history: what was deleted before the page was asked
  for, what changed between the statements, and what a client that walks
  through the pages has been shown. Ids come from a sequence but rows appear in
  the order of their commits, so any id may be inserted next.
* **MachineIntegers**: `Int32` is Go's conversion, at a width of `2 * Int32Limit`.
* **Configuration**: `Load` as a function of an environment: what is unset, does
  not parse, is cut to 32 bits, or is refused by `Validate`.
* **AppLifecycle**: one process, server or worker, from its environment to its
  exit status. `pc` is the main goroutine; `listener` and `channel` are
  the goroutine of `ListenAndServe`; `handler[h]` is a connection: `idle`,
  `running`, or in a `statement`, which holds a connection of the pool.
  `http.Server` and `pgxpool` are modelled as the code relies on them.

Definitions named "Mutated form" are plausible bugs. No specification uses
them; each is there to show that some property would notice it.

## 3. Runs

| Run | Instance | What it shows |
|---|---|---|
| `faults` | 1 document, 2 workers, every fault, 2 attempts, 2 injected payloads | exclusive claims, rows with objects, backed claims, final states, the refinements of DocumentLifecycle and ReliableQueue; and which step may strand a payload (`StrandedByStops`), leave a row `processing` with nobody at it (`OrphanedByFault`), or a row without a job (`JoblessIsReported`) |
| `delivery` | 2 documents, 2 workers, an object store that fails at will, 1 injected payload | no accepted document loses its last job; each document settles or is dead-lettered; the lists drain |
| `sessions` | 4 tokens, 3 requests, refused and lost statements | one working session per login, final revocation, atomic rotation, the refinement of SessionChain |
| `migrate` | 3 processes, one command at a time | history, schema and success agree |
| `local_put` | limit 4, streams of 0 to 7 bytes | exact limit, whole objects, nothing left by a failed `Put`, which is one step to the rest of the service |
| `access` | 1 document, 1 worker, 2 callers, 5 credentials, failing database and store | only owners get through and a deleted document stays gone (`RequestsAreGuarded`), a download finds its object unless a failed upload took it away, every answer is in `api-spec.yml` |
| `listing` | 4 documents of 2 owners, pages of 1 or 2, `Int32Limit` 8 | a page shows what its reader may see, agrees with its total, and a walk is complete, up to what changed meanwhile |
| `app` | server and worker, 77 environments each, 2 connections | exit status, release of resources, a usable pool, and that the process stops |
| `failed_insert` | 1 document, clients may hang up | **violation**: the compensation is refused with the insert |
| `lost_retry` | 1 document, 1 worker, failing store, SIGTERM | **violation**: the job of a failed document is on no list |
| `stuck_processing` | 1 document, 1 worker, failing database | **violation**: a row stays `processing` with no job |
| `migrate_mixed` | 2 processes, `up` and `down` at once | **violation**: a migration is recorded whose work is gone |

**Bounds, and why they are enough.** Requests touch one document each and
meet others only through the workers, so one document with two workers,
duplicate jobs (injected) and two attempts has every race on a row, and
`delivery` adds a second document so that queue positions matter. (The
`faults` instance with two documents was run by hand and passes as well; at
eight million states it is too slow to be kept.) Two attempts are enough to
retry once and be dead-lettered. Three requests make one rotation, one racing
rotation and one logout or login possible at once, and four tokens a login
rotated twice beside another login. Three processes let two of them act on what
the third has changed. Streams of 0 to 7 bytes lie on both sides of a limit of 4,
at it and at one byte more. `MaxInjected`, `Tokens` and `MaxLength` are bounds of the
models; in `delivery`, one injected payload also means that a malformed one ends
one worker and leaves the other: a malformed payload for each worker would stop
them all (`document_worker.go:63-66`), and nothing would drain until a restart,
which the run does not have. In `access` two callers make a delete under another
caller's download, and the five credentials are an owner's, a stranger's, an
administrator's, a spoilt one and a refresh token; one worker is enough because
the requests meet it only in the row, and the proofs of section 5 carry the
pipeline's own properties over. In `listing`, four documents make two full pages
and let one page shift under a walk while the pages differ in length; with
`Int32Limit` 8, page 9 has an offset that wraps to a negative one (size 1) or
to 0 (size 2). In `app`, two connections are one statement that holds the pool
and one that waits for it (a pool of one is among the environments); each
environment differs from a sensible one in one variable, at and beside every
limit the code compares with. `MaxAttempts` and `MaxUploadBytes` are settings of the program.

**Deadlock** is checked for the migrations only: an idle pipeline, used-up
tokens, a finished upload, an answered request, an exited process and a reader
who asks for nothing more may rest.

**Fairness.** `FairSpec` has weak fairness of each worker's own steps: a
goroutine that can run is scheduled, and a BLMOVE on a list that is not empty
returns. It has none for requests, restarts, or the operator. No liveness is
claimed where every worker may die or the queue or the database may fail: the
violating runs show that it does not hold there. `AppLifecycle!FairSpec` has the
goroutines that can run scheduled, the ten seconds of `Shutdown` over at last,
the listener closed once `Shutdown` has begun, and PostgreSQL answering a statement
(nothing in the code bounds one). It has no fairness for jobs, signals, requests
or failures of `Accept`, so `StopsOnSignal` holds although a handler may run
for ever, and leaves out the one wait that it must: whether SIGTERM ends a BLMOVE
without a timeout (`redis.go:49`) is up to the client library.

## 4. Findings

1. `document_service.go:76`: the compensating delete uses the request's
   context. If the insert failed because the client hung up, the delete fails
   for the same reason and the object is orphaned.
2. `queue/redis.go:94-97`: `Retry` removes the payload before it pushes the next
   one. Between the two a SIGTERM, an error or a crash loses the job.
3. `document_worker.go:39`: after a claim, a failed `MarkReady` or `MarkFailed` leaves
   the row `processing`; the retried job cannot claim it and is acknowledged.
4. `cmd/migration/main.go:128, 154`: nothing keeps an `up` and a `down` apart.
   A `down` that listed `01` drops the role tables under an `up` that has just
   recorded `02`; the seed stays recorded, its rows are gone, and later `up`s
   skip it.

Gaps no document promises away are not findings: the processing list is never
recovered after a crash; an INSERT whose reply is lost is compensated although
its row exists, which then has no object (`document_service.go:74-76`); a server
that dies between `Put` and the INSERT leaves an object without a row; `Logout` leaves the successor of a rotated token
working, and a crash while a file is written leaves a temporary file. Neither are
these, which the models have or imply and no run is about: `CreateUser` answers
409, an email conflict, when the INSERT finds no row of the role
(`auth_repository.go:36`), as after finding 4; a page whose offset does not fit in
32 bits is a 500 or shows earlier rows again (`pagination.go:22`; `api-spec.yml`
sets no largest page, so `PageAgreesWithTotal` speaks of offsets that fit); and
nothing bounds the closing of the pool, which waits for statements of handlers
that `Shutdown` gave up on (`resources.go:38`).

## 5. Proofs

TLAPS checks some 6900 obligations in eight modules. The theorems hold for every
value of the constants, under the named assumptions of the modules: the constants have their types (`ServicesAssumption`,
`MaxAttemptsAssumption`, `MaxInjectedAssumption`, `FaultsAssumption`,
`SizesAssumption`), the sentinels are none of
the values they stand apart from (`MalformedAssumption`, `NoJobAssumption`,
`TokensAssumption`), processes are distinct and workers finitely many
(`ProcessesAssumption`, `WorkersAssumption`). Of the later modules,
`ActorsAssumption`, `CallersAssumption`, `ListingAssumption`,
`Int32LimitAssumption` and `EnvironmentsAssumption` say the types of their
constants, `MayMixAssumption` that of the switch, and `RegistryIsValid`, which
`ValidateMigrations` tests, that no name is in the registry twice.

* **DocumentPipelineProofs**: types (`TypeCorrect`); the inductive invariant
  (`Invariance`, of `IInv`); `MutualExclusion`, `NoDanglingRow`, `SettledStays`,
  `Backing`; `Implementation`, that the pipeline implements DocumentLifecycle; and
  `RowsKeepObjects`, that the rows of failed requests, which `NoDanglingRow` leaves
  out, have their objects too while no reply of PostgreSQL is lost.
  Exclusive claims are not inductive alone: `HolderOwnsRow` says that the row
  of a held document is `processing`, so a second claim finds it not claimable.
  Rows with objects need `UploadOrder`, which ties the row, the object and the
  step of the request together. `Backing` counts: a worker that becomes busy
  with a payload has just added a copy, and one that removes a copy stops being
  busy. The refinement follows the three ways a holder changes: a claim won, a
  marking that ends it, and every other step.
* **RefreshSessionsProofs**: `OneWorkingSession`, `RevocationIsFinal`,
  `RotationIsAtomic`, `DeliveredTokens`, and `SessionsAreChains`, the refinement.
  The strengthening is `FreshIsAbsent` (a generated token belongs to one request until its row is inserted) and
  `OriginExists` (an origin has a row, so a new login cannot share one). The
  refinement rests on `OneActivePerLogin`: the session chosen as the one that
  works is the only one there is (`CurrentIs`), so an INSERT starts a chain, a
  rotation hands one on and a logout stops one, whether or not their replies
  arrive, and lookups and refused statements are steps of none.
* **LocalStorageProofs**: `ExactLimit`, `WholeObjects`, `AllOrNothing`, and
  `AdapterImplementsStore`, that `Put` is the one step ObjectStorage takes it
  for. The strengthening is `NothingSkipped` (bytes counted plus bytes left are
  the stream) and `StepsInOrder`.
* **DeliveryProofs**: `NothingLeftBehind` (the processing list holds what the
  workers are busy with, and nothing else) and `NoJobIsLost` (`UnfinishedHasJob`), with a premise each in the statement: that no queue call fails and no
  process stops (`QueueCallsSucceed`), and that only the store fails
  (`OnlyStorageFails`). The violating runs
  show that jobs are lost without the second. The argument: a payload in the
  processing list is held by a worker, a document that another worker is
  processing has that worker's job (`HolderExists`), and a job that is about to
  be acknowledged does not count as the last one (`JobKept`). Then the promises
  that the violating runs refute, with the faults under which they hold:
  `FailedJobIsKept` while no queue call fails and no process stops, with
  PostgreSQL and the store failing at will (an acknowledged row was ready or
  could not be claimed, and a failed one can); `ProcessingJobIsKept` while only
  the store fails; `CompensationWorks` while the store answers and no client
  hangs up (`StorageCallsSucceed`), with PostgreSQL and Redis failing: a failed
  request leaves no object, and an object without a row is that of a request
  under way or of one whose server died. The rest has no premise. `QueueIsReliable`: a worker that
  removes a copy removes one that is there, as `Backing` says, so LREM by value
  does what a removal of its own copy would; the first command of a retry
  moves the copy from the list to the worker and changes nothing else.
  `OnlyStopsStrand`: copies in the list less busy workers grows by one when a busy
  worker stops with its copy still there, and otherwise stays. `OnlyFaultsOrphan`: a holder that
  was told of no error has moved its row, and a claim that won has a holder.
  `NoSilentLoss`: an acknowledged job is no loss to a `pending` row, because its
  row was seen beyond `pending` and never goes back (`AckedIsTaken`), which needs
  that jobs are pushed for rows only (`JobsHaveRows`).
* **DocumentAccessProofs**: `RequestsImplementPipeline`, that `AccessSpec` implements
  the pipeline's `Spec`, so that everything proved of the pipeline holds under
  requests too; then `Guarded`, `ContractKept` and `ObjectIsThere`, which rests on
  `NoDanglingRow`, taken over by that refinement, and like it leaves out the
  object that a failed upload took away; `NoDownloadMisses` says that this needs
  a lost reply of PostgreSQL.
* **DocumentListingProofs**: `NothingDeletedIsShown` and `PageAndTotalAgree`, for
  any finite set of documents and any page whose offset fits. The lemmas
  count: the rows a page skips are as many as its offset if it shows any, a page
  is no longer than its size, and a short page is the last (`PageIsBacked`,
  `ShortPageIsLast`). `Drifted` carries this from the first statement to the
  second: what was visible then and is not now is in `between.went`, and what is
  new in `between.appeared`. `WalksAreComplete` is the theorem about
  whole walks, for any number of pages. An insertion or a deletion moves
  every rank by at most one (`RanksMoveByOne`), so a deletion moves at most one of
  the rows still owed to before the place the walk has come to, where it will
  not be shown (`DeletionShifts`), and an insertion moves at most one of those
  shown to behind it, where it will be shown again (`InsertionShifts`). The invariant
  `WalkInv` counts both against what was deleted and inserted since the walk began.
* **AppLifecycleProofs**: `CleanExit`, which speaks of the requests of a server and
  not of a worker's job, `AllReleased` and `UsablePool`. `Stages`
  says what is added, open and closed at each step of `Build` and `Close`; `Order`
  that nothing but `Shutdown` makes `ListenAndServe` return `ErrServerClosed`, so
  that main cannot leave its select with a nil that no drain stands behind.
* **MigrationsProofs**: `MigrationTypes`, `History`, `SchemaRecorded`,
  `RecordedMeansApplied` (the promise finding 4 breaks) and `SuccessMeansDone`,
  for any number of processes that run one command
  (`~MayMix`; finding 4 is what happens otherwise). The strengthening: the
  changelog is a first part of the registry (`Height`), all running processes have one
  command (`OneCommand`), and what each has read stays true enough: nothing is
  missing below the place an `up` has come to (`Climbing`), nothing is recorded
  above the one a `down` has come to (`Falling`).

Only model-checked: the liveness properties `AcceptedSettles`, `QueueDrains`,
`StopsOnSignal` and `FailureStopsServer`, as fairness is out of the prover's reach
here. Every other property of a passing run is proved, and every property that a
violating run refutes is proved under the faults it survives.

## 6. Not modelled

* The contents of objects and rows: sizes agree if the object is there; a
  changed object would end in `failed` like an unreadable one.
* Passwords: bcrypt, and what a password or an email must look like.
* Signatures: an access token is in order or not, and its user is believed; that
  it outlives a deactivated account, by at most its expiry, is by design of
  `middleware/auth.go`, which asks no database.
* The statuses of the authentication routes, the decoding of bodies, request ids,
  CORS, recovery from panics, the health check.
* The messages and log lines of errors, the level and format of the logger
  beyond that they may be wrong.
* A source that answers the probe for the extra byte with neither a byte nor an
  error (`document_service.go:190`), which `multipart.File` never does.
* The retention of deleted objects, which the code leaves to others; the
  client libraries' own retries; the S3 SDK behind one call; the validation of
  object keys (`storage` refuses what leaves its root), which is about text.
* `status`, `dry-run`, `check`, `validate` of the migration command, and `Me`,
  which change no state; `internal/scaffold`, a test of the repository's own
  layout.

Seven of the listed hazards have no property, each for a reason given with it in
`PROJECT.json`: the compensation after an INSERT whose reply was lost (the two
theorems above say what it takes), a user registered without a session, the
successor of a token that was rotated before a logout, abandoned temporary files,
an object whose `PutObject` succeeded with its reply lost, an offset that does
not fit in 32 bits, and an idle worker's wait after SIGTERM.

## 7. Plan

1. *Done*: the pipeline and its lifecycle, sessions, migrations, the local store,
   the requests to one document, listing, configuration, the life of a process;
   the proofs of section 5, with the refinements of the lifecycle, the queue,
   the sessions, the local store and the requests.
2. Prove next: bounds that help the liveness arguments without being one (a
   document with finitely many re-enqueues has finitely many attempts); an
   abstract changelog, a stack of migrations, that Migrations implements while
   one command runs; that AppLifecycle's resources are a stack.
3. Model next: the authentication routes from body to status (with the 409 of a
   missing role); access tokens that outlive the account or the role they were
   made for.
