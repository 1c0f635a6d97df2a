# go-avatar in TLA+

A verification project for the avatar service: an HTTP server that stores
uploaded images in S3 and their metadata in PostgreSQL, a transactional outbox,
and worker processes that move events from the outbox to RabbitMQ and handle
them (thumbnails, physical deletion) with retries and dead letters.

The modules model the whole path of an avatar call by call, with several
processes, failing calls, lost connections and crashes; the two transactions
statement by statement; and the life of the processes from start to stop. TLC checks them on small
instances, TLAPS proves every safety property of the passing runs for all sizes. Paths below
are relative to `src/`.

## Inventory

| Part | State it keeps | Operations | Interacts with |
|---|---|---|---|
| Service (`internal/service/avatar.go`) | what a request has read | Upload, Delete, reads | repositories, S3 client |
| Repositories (`internal/storage/postgres`) | tables `avatars`, `outbox_events`, `processed_messages` | two transactions, single updates, reads | called by service, publisher, worker |
| Outbox publisher (`internal/worker/outbox_publisher.go`) | batch in hand | every second: read pending, publish, mark | outbox, RabbitMQ |
| Worker (`internal/worker/worker.go`, `avatar_processor.go`, `avatar_deleter.go`) | message in hand | check, process, mark, acknowledge, retry, reject | RabbitMQ, tables, S3 |
| RabbitMQ client (`internal/broker/rabbitmq`) | two work queues, three retry queues each, dead letters, one connection per process | publish, publish retry, consume, ack, reject | exchange, queues |
| Circuit breaker (`internal/resilience`) | state, failures, opening time | beforeCall, afterCall | wraps publishes and object requests |
| S3 client (`internal/storage/s3`) | the bucket | put, get, delete, ensure bucket | service, worker |
| HTTP handlers (`internal/http/avatar_handler.go`) | none | upload, reads, deletions | service |
| Processes (`cmd/server`, `cmd/worker`) | stage of `main`, SIGTERM received | start, run, drain, stop | all of the above |
| Health (`internal/health`, `internal/http/health_handler.go`) | readiness flag, registered checks | readiness probe | processes, all three dependencies |
| Migrations (`internal/storage/postgres/migrations.go`) | schema version, dirty mark | run at the start of a server | PostgreSQL |
| Image code (`internal/image`) | none | validate, crop, scale | service, worker |
| Configuration, metrics, tracing, web page, deployment | - | - | - |

What makes it hard: the server, several publishers and several workers share
tables, queues and bucket without locks across calls; every call can fail with
or without having had its effect; a process may stop between any two of them;
messages are repeated and reordered; requests of one user meet in the table
at READ COMMITTED; processes start in any order on an empty store and are told
to stop in the middle of anything. What has to hold: no live avatar ever
lacks an object its row names, an event in the outbox is never forgotten, a
deletion is final and removes the original, at most one avatar of a user is
current, a status code and a readiness report are true, a stop cuts nothing
short that it could wait for, and everything settles in the end. `PROJECT.json` lists the hazards
line by line.

## Modules

| Module | Models |
|---|---|
| `AvatarEvents` | the upload and the delete event of an avatar |
| `Faults` | the budget `MaxFaults` of failures every other module draws from |
| `AvatarStorage` | tables and bucket; one operator per statement, transaction or object request |
| `AvatarBroker` | RabbitMQ: work queues, retry queues, dead letters, connections |
| `AvatarService` | Upload and Delete requests, step by step |
| `OutboxPublisher` | the publisher goroutine of each worker process |
| `AvatarWorker` | the message loop, both handlers, retry and rejection |
| `AvatarPipeline` | all of these together, the life of a worker process, the properties |
| `AvatarLifecycle`, `AvatarRefinement` | what a client is promised, and that the pipeline implements it |
| `AvatarReads` | image requests beside the pipeline |
| `AvatarTransactions` | `CreateWithOutbox` and `DeleteWithOutbox` statement by statement, with row locks and the unique index |
| `AvatarUploads` | an upload from the request to its status code: checks, object, row |
| `AvatarProcesses` | start, readiness, migrations, bucket, drain and stop of servers and workers, with uploads under way |
| `ImageCrop` | the geometry of the centre crop, with its theorem |
| `CircuitBreaker` | the breaker, calls that overlap its changes of state, its clock |
| `AvatarInvariant` | the inductive invariants `IInv`, `Delivery`, `RetriesArePaid` and `SingleInv` |
| `*Proofs` | the theorems |
| `MC*` | instances for TLC |

How state and actions correspond to the code:

- `row`, `outbox`, `payload`, `processed`, `objects` are the three tables, the
  `s3_keys` of delete events and the bucket. An avatar id is a fresh UUID per
  upload, so one element of `Avatars` is both an upload request and its avatar;
  message ids are fresh too, so an event is known by its kind and avatar.
- `row[a].st` folds `upload_status` and `deleted_at`, which are set together.
  `failed` is never written by the code and is not a status of the model.
- `ready`, `retry`, `dlq` are bags: the worker selects between its two
  consumers at random and redelivered or retried messages overtake others, so
  no property rests on an order of two messages. The attempt of a message,
  which travels in its header, tells which retry queue it waits in.
- `conn[w]` is the one AMQP connection of process `w`; publisher and worker use
  channels of it. Deliveries the process has not acknowledged return to their
  queue when it closes. The client prefetches without limit: a delivery waiting
  inside the client is in `ready` here. The library may hand on one more
  message per consumer after the connection is gone; handling it then is what a
  further disconnection under that message does.
- `wpc`, `msg`, `todo` are where the worker's handler is, its message and the
  keys a delete still has to remove; `ppc`, `batch`, `publishing` the same for
  the publisher; `uploading` and `deleting` for the requests.
- An external call is one step with three outcomes: done; an error without
  effect; an error after the effect. The errors are `Fault` steps, and so are
  dropped connections and crashes. A call refused by an open circuit breaker is
  an error without effect. A unique violation of two concurrent uploads is one
  too (`UploadCreate`).
- `Redeploy` is a process without connection being stopped from outside and
  started again. `Run` does not end by itself in that state (see *What the
  documentation says*).

Atomicity of the pipeline: a statement, a transaction and an object request are
atomic; all that lies between two of them interleaves. `created_at` orders the
upload event of an avatar before its delete event (the delete transaction starts
after the upload's has committed; the database clock is assumed not to run
backwards in between), and orders no other two events.

`AvatarTransactions` is where the atomicity of transactions comes from. `row`
stays the committed table; `version` is the newest version of each row and
`lockedBy` the session whose open transaction wrote it. A statement sees what is
committed when it starts: `BeginUpload` is BEGIN and the selection of the first
UPDATE, `Retire` its writing, which waits for locks and then tests the WHERE
clause again, as PostgreSQL does at READ COMMITTED. `InsertRow` waits while the
partial unique index is in doubt about another row of the user, and `Refused` is
its violation, which reaches the client as a 500. `Abort` is any error on the
way. The worker's updates commit on their own (`Autocommit`). Sessions are
connections of the pool; how many the pool has (10) does not matter to a
property. `AreAtomic` states that every committed change is a step of
`AvatarStorage`, which is what the pipeline is built on.

`AvatarProcesses`: `stage[p]` is the next blocking call of `main` of process
`p`; each error return is `Returns`, and a process at `"down"` is started again
by its orchestrator. `told` is the context of `signal.NotifyContext`: what is
given this context fails once it is cancelled, what is not (the dial, the
migrations) does not look. `ready` and `checks` are the flag and the list of the
readiness handler; `probe` is one probe whose checks run in any order between
the steps of everything else. `connected` is the AMQP connection, which nothing
opens again. `overrun` remembers that the drain ended with requests left. A
server runs migrations itself, as in `docker-compose.yml`; the chart's migration
job is the same step made by one process alone. The worker's loop while it is
`"running"` is the subject of `AvatarPipeline`; here it ends when it is told to.

`AvatarUploads`: a body is what the checks of the handler and of
`DecodeAndValidate` can tell of it, in units of which the program's limit has
10 Mi and the model's `MaxFileSize`. The form around a file takes more than one
byte. `kept` is what a request has left in bucket and tables. A request that its
process takes with it (`CutAll`) has its call in doubt: store or database may
have received it and carry it out all the same (`UnderWay`).

## Runs

| Run | Instance | Shows |
|---|---|---|
| `single` | 1 avatar, 1 process, 3 retries, 2 failures, one of which may be a lost publish | types, no event lost, a single process never puts back a deleted object and never leaves a processed avatar uncompleted, one failure never sends a message that can be handled to the dead letters; the inductive invariants behind these, `SingleInv` and `RetriesArePaid` |
| `pair` | 1 avatar, 2 processes, no retry queue, 1 failure | objects behind rows, order of publishing, finality of deletion, `IInv` and `Delivery`, with duplicate publishing and two concurrent handlers; a processed upload that every handler has left is not handled again |
| `users` | 2 avatars of one user, 2 deletions, 1 reader, 1 process, batch of 1, no retry queue, no failure | the refinement with two deletions of the same avatar, one active avatar per user, image requests fail only after a deletion |
| `live` | 1 avatar, 1 process, 3 retries, 1 failure, `AttendedSpec` | every event is handled, every avatar settles |
| `breaker` | 3 callers, threshold 2, timeout 2 ticks, 3 calls that fail for reasons of their own | the breaker's state, its probe, its recovery |
| `transactions` | 3 avatars of one user, 2 sessions, 1 update of the worker, 1 failure, `TxFairSpec` | transactions are atomic to everyone else, only rival uploads meet the unique index, who waits for a lock holds none, no deadlock |
| `processes` | 1 server, 1 worker, 1 upload, limit of 2 units, 1 SIGTERM, 1 failure, `ProcessFairSpec` | true answers, honest readiness, no upload without tables and bucket, stops that cut nothing and end, recovery of every process |

Bounds. `MaxFaults` limits failures per behaviour, `MaxLosses` how many of
them are publishes swallowed by a dying connection, `MaxFailures` where the breaker's model stops
counting. Avatars interact only through the current avatar of their user (run
`users` and `transactions`) and through the batch, which `BatchSize = 1` makes smaller than the
outbox. `pair` has no retry queue: a retry is one more copy of a message in the
bags, and two processes, a duplicate publication and a redelivery give copies
already; the theorems below cover every number of retries, processes, avatars
and failures, for the properties of `SingleInv` every number but that of processes. The
avatars and the deletions of `users` are symmetric, its properties safety alone;
it has no failures, which `Implementation`, `OneActive` and `ReadsSucceed` cover
for any number. Two sessions and three
avatars give a current avatar and its deletion or its retirement beside a rival
upload; locks are waited for in pairs, and a transaction holds at most two. In `processes` the two processes race for
the bucket and meet every order of start, stop, outage and kill. The
bodies offered (`MCBodies`) take one way through the checks each, at the size
limit, above it and without a file included; `UploadsAnswered` covers every
other body. Three callers
are what it takes for a stale success, a stale failure and a probe to coexist;
three failures of their own (cancelled by the caller, or for a missing object)
open the circuit of a healthy dependency and fail the probe after it.
Deadlock is not checked where the pipeline may come to rest: nothing uploaded,
nothing pending. The two processes of `pair` are symmetric; no liveness is
checked there.

Fairness. `FairSpec` assumes that publishers tick, workers loop and TTLs run
out, and nothing of clients, failures or connections. Liveness of the pipeline
also needs that a process without its connection is restarted (`Attended`).
Nothing in the code or its deployment does this: the process does not exit and
its liveness probe only opens the metrics port, so this is an assumption about
whoever operates it, and run `v_stuck` shows what happens without. The
breaker's `FairSpec` assumes that time passes, calls return and somebody
calls, as the publisher does every second while an event is pending.
`TxFairSpec` assumes that the database carries out the next statement of a
transaction unless it waits for a lock. `ProcessFairness` assumes that processes
run and are started again (`restart: unless-stopped`, a Deployment), that an
outage ends and that the database answers an upload. It assumes nothing of an
object request: the S3 client sets no deadline, so `ToldToStop` is checked with
uploads that hang. Failures and signals are never forced.

`BackInService` excepts what the code cannot heal (`NeedsHand`): a process that
runs without its RabbitMQ connection is unready for good, since nothing connects
again and liveness always answers OK; and an interrupted migration leaves the
schema dirty, which every later start refuses.

## What the documentation says and the program does not keep

Five runs expect a violation; the trace of each is the finding's evidence.

- `v_orphans`: a deletion that reads the row before the worker has saved the
  thumbnail keys leaves thumbnails nobody will remove (README.md:634).
  `DeletedOriginalGone` and `DeletedObjectsGone` are what does hold.
- `v_lost`: publishing without confirms can lose an event (README.md:110).
  `NoEventLost` says that this is the only way.
- `v_stuck`: `Run` skips the test that would end it when both consumers have
  closed (worker.go:191), so after a dropped connection events stay where they
  are (README.md:25).
- `v_repeat`: two processes with copies of one message both pass the check for
  processed messages; when the first has completed the avatar, the second sets it
  back to `processing`, and a single failure there leaves it so (README.md:22,
  861). For good: `HandledUploadsStay` says that a processed upload which every
  handler has left is never handled again. `LeftAlone` excludes the moment in
  which the second handler is still on its way to completing the avatar again.
  With one process none of this can happen (`ProcessedIsCompleted` in run
  `single`).
- `v_breaker`: a late success closes an open circuit (README.md:1221).
  `StaysOpenWhenQuiet` is what does hold.

Read off the code without a run: thumbnails are never served, since
`GetContent` ignores the size (service/avatar.go:607, against README.md:525); an
image within the size of its form of 10 MiB is refused with 413, since the limit
counts the form (avatar_handler.go:143, against README.md:491); a worker
withdraws its readiness after the message in hand and not first
(cmd/worker/main.go:257, against README.md:1157).

## Proofs

The theorems hold for every value of the constants that the `ASSUME`s allow: at
least one event per batch, an image limit above zero, servers apart from
workers, owners that are users, natural bounds, `None` apart
from messages and events. A few theorems name one hypothesis more, which is no
`ASSUME` of a module since other runs do without: those of `AvatarSingleProofs`
take a single worker process (`SingleProcess`: what `docker-compose.yml` and the
chart's `worker.replicaCount` start; the overlap of a rolling update is two;
all but `HandledOnce`),
`RetriesPaid` and `OneFailureSurvived` at least one retry queue (the code has
three). Nothing is assumed finite but batches read by
`GetPending`, whose size the proofs do not use.

- `AvatarPipelineProofs`. The safety properties are not inductive: that
  a live row's thumbnails exist, for instance, holds because a worker past its
  first put knows the object to be there *if the row is still live*, since
  only a delete event removes objects and only a deleted row has one. `IInv`
  adds these beliefs: `Provenance` (a copy of an event anywhere stems from the
  outbox), `RowsAndEvents` (an event exists only with its row, a delete event
  only of a deleted one), `BucketBehindRows`, `BatchesInOrder`, `OriginalFirst`
  and `ActiveIsLive`. `Next` is first split into its effects on each group
  of variables; then one lemma per conjunct shows that no step breaks it.
  `TypeCorrect`, `Invariance`, `OriginalAvailable`, `ThumbnailsAvailable`,
  `PublishedInOrder`, `OriginalRemoved`, `OneActive` and the action property
  `DeletedIsFinal` follow.
- `AvatarDeliveryProofs`. `DeliveryHolds` and `NothingLost`: `Delivery` says
  that whoever is about to forget an event (a publisher that will mark it, a
  worker that will acknowledge it) has seen to another copy first. A copy in
  the hands of a worker about to acknowledge does not count, hence `SafeCopy`.
  `RetriesPaid` and `OneFailureSurvived`, for any number of processes: a message
  whose event can still be handled is never on an attempt beyond the number of
  failures so far, since every way into the retry branch is a failing call, and
  it is given up only by a second failure, that of publishing the retry or of
  a later attempt. The exception, `Outdated`, is the upload of an avatar deleted
  since, which fails without anybody's fault; deletion being final, an event
  once outdated stays so.
- `AvatarSingleProofs`. `HandledOnce`, for any number of processes: a handler
  begins only behind a check that found its event unprocessed, `processed` never
  shrinks, and nothing but the calls of a handler writes status and thumbnails
  of a row that exists. Then `SingleInvariance`, `DeletionIsFinal` and
  `UploadsComplete`, for one process: two break the last one (`v_repeat`), so
  the proof has to use that there is one. From the check of a message to its
  acknowledgement nobody else marks or handles its event, so a handler that works
  is on an event not yet processed (`CompletedForGood`), no thumbnail is put
  back for an avatar whose deletion is processed (`RemovedForGood`), and what
  the handler has removed or written so far is still so at the next call.
- `AvatarClientProofs`. `Implementation`: under the mapping of
  `AvatarRefinement` each step is one of `AvatarLifecycle` or a stutter.
  `ReadsSucceed`, for any number of readers; `ReadersOnlyRead` carries theorems
  of the pipeline over to it with readers beside, hence
  `ImplementationUnderReads`.
- `CircuitBreakerProofs`. `ThresholdDecides`, `ProbeUnderWay` and
  `QuietCircuitStaysOpen`, for any number of callers, threshold and timeout.
- `AvatarTransactionsProofs`. `TxInv` is itself inductive: an unlocked row has
  no uncommitted version (`CleanIfUnlocked`), a lock is explained by where its
  session is (`LocksExplained`), and past its INSERT a transaction is the only
  one of its user and holds every active row of the user (`InsertsAlone`), which
  is what the index and the locks enforce together. With it a commit writes
  exactly the rows `CreateWithOutbox` or `DeleteWithOutbox` of `AvatarStorage`
  would, hence `TransactionsAreAtomic`; `RefusedOnlyByRivalHolds` needs that
  every row an upload found is retired or no longer active when it inserts.
  `NobodyWaitsInACircle`: who waits at the unique index holds no row, since a
  rival in doubt has inserted and then holds the active row of the user itself.
  The run's two sessions can only make circles of two; the theorem excludes all.
- `AvatarProcessesProofs`. `ProcessInv` says where the flag may be up
  (`ReadySound`: only with all checks registered), what a request has left at
  each step (`UploadsSound`) and on which stage its server is (`HostsSound`).
  `MainEffects` and `MainStages` first sum up what a step of `main` may do to
  each group of variables, so that no conjunct is proved once per stage.
  `ReadyIsChecked` and `UploadsAnswered` follow; `OrderlyStops` is the action
  property: a step of `main` that cuts a request closes a process whose drain
  has run out. `StoresComeFirst` rests on `StoresSound`: nothing takes a store
  away, and every stage of `main` is past the stores it needs, whoever created
  them.
- `ImageCrop`. `CropAlwaysFits`, for images of every size and corner.

Only model-checked: all liveness (`EventsAreHandled`, `AvatarsSettle`, the
breaker's, `TransactionsEnd`, `ToldToStop`, `BackInService`), which needs
fairness and ENABLED. Of `TransactionsEnd` the half that is safety is proved,
that nobody waits in a circle. The proofs use no recursion and no induction over
data.

## Not modelled, and the plan

Not modelled: list and metadata requests, which read one statement; forms that
do not parse (they are refused like one without a file); a channel that closes
without its connection; a listener that cannot open its port; the history of the
schema (a pending event from before migration 5 has no `trace_parent`, which the
scan of `GetPending` refuses); `Create` and `Delete` without an event, which
only tests call; codecs and the scaling of pixels; metrics, tracing,
configuration.

Order of work; all but the last is done:

1. storage, broker, service, publisher, worker and their composition;
2. safety properties, the inductive invariant and its proof;
3. the abstract life of an avatar and its refinement;
4. delivery: nothing published is lost, and the liveness of handling;
5. image requests;
6. the circuit breaker;
7. `AvatarTransactions`: the statements of both transactions, and the theorem
   that `AvatarStorage` may take them as one;
8. `AvatarUploads` and `AvatarProcesses`: the checks of an upload, readiness,
   start on an empty store, drain and stop;
9. `ImageCrop`: the centre crop, with its theorem;
10. theorems for the properties of a single process, of retries and of locks;
11. `BreakerClients`: the breaker composed with the publisher, and calls that
    hang.

## Running

    tlc -config single.cfg MCAvatarPipeline     # also pair, live, v_orphans, v_lost, v_stuck, v_repeat
    tlc -config users.cfg MCAvatarReads
    tlc -config breaker.cfg MCCircuitBreaker    # also v_breaker
    tlc -config transactions.cfg MCAvatarTransactions
    tlc -config processes.cfg MCAvatarProcesses
    tlapm AvatarPipelineProofs.tla              # and the other *Proofs modules, ImageCrop

Operators preceded by a comment that starts with *Bug* are mutations: put in
place of the definition after them, each breaks the property `PROJECT.json`
names with it.
