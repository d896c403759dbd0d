# Verification of m4lTelemetryAPI

TLA+ models of the telemetry receiver in this repository, TLC configurations that
check them on small instances, and proofs that TLAPS checks for every instance.

The system stores events that Max for Live devices (`bz.telemetry`, a separate
program) keep in files on disk and send in batches. What must be right is the
contract between the two: **a device deletes a batch when it sees a 200, so a 200
must mean that the events are in the table; and it retries a batch on a 5xx, so
a 5xx must be something that passes.** Most of the project is about that contract.

## Inventory

| Component | State | Operations | Talks to |
|---|---|---|---|
| Ingest handler (`app/routes/events.py`, `app/ndjson.py`) | one request: objects, parse errors, rows, errors | size check, choice of parser, parse loop, cap, validation loop, one INSERT | event model, session |
| Event model (`app/schemas.py`, `app/models.py`) | none | `IngestEvent.model_validate`, `coerce_props`, column types | handler, PostgreSQL |
| Token check and settings (`app/auth.py`, `app/config.py`) | the cached `Settings` of a process | `require_ingest_token`, `get_settings` | handler |
| Sessions and engine (`app/db.py`) | engine, pool, one transaction per request | `init_engine`, `dispose_engine`; `session_scope`: commit after the handler, roll back on any exception, close | PostgreSQL, all requests of a process |
| Probes (`app/routes/health.py`, `k8s/deployment.yaml`) | pod readiness, failure counts | `/healthz`, `/readyz`, three probes | kubelet, session |
| Event queries (`list_events`, `get_event`, `event_facets`) | none; two to four snapshots per request | count, page, distinct values | table |
| Statistics (`app/routes/stats.py`) | none | two GROUP BY statements | table |
| Metrics (`app/main.py`) | counters per process | label, time and count a request; scrape | every request |
| Token rotation (`token_refresh.md`, `playbook.yml`, `tokens.env.j2`) | token list, `tokens.env`, environment of the containers | edit, play, ship, retire | settings, devices |
| Migrations (`alembic/`) | the version table, one transaction | `upgrade head` | database |
| Roll-out (`playbook.yml`, `deploy.yml`, `docker-compose.yml.j2`) | containers, their environment | migrate, then start the API | migrations, API |
| Backup and restore (`backup.sh.j2`, `deploy/README.md`) | snapshots of a restic repository | dump into a snapshot, forget, wipe and restore | database, migrations |

Hard behaviour:

* **Concurrency.** A device that times out sends the batch again while the first
  attempt is still being handled; both can commit. Every `await` of the handler and
  of its session is a point at which a process may die or a connection break.
* **Failure.** The COMMIT happens after the handler has returned and before the
  answer is sent (FastAPI runs the exit of a `yield` dependency there), so an answer
  and the table can disagree in one direction only, which has to be the right one.
* **Ordering.** Which parser runs is decided by the body as well as by the content
  type; errors are numbered by two loops; pages are read from snapshots that move.
* **Retry.** Whatever fails for a reason that lies in the batch fails for ever.
* **Shared limits.** Requests of a process compete for its pool, processes for the
  connections of PostgreSQL; a connection lost on one exit of `session_scope` is lost
  for the life of the process.
* **Operators.** The play, the deploy workflow, the nightly backup and a restore by
  hand act on one database, and each may break off anywhere.

Correctness, per component: the handler accounts for every text of a body once;
the ingest path loses no accepted event, stores no refused one, and duplicates only
in doubt; a batch that can leave the queue does; the probes restart nothing on an
outage and restore the Service after it; a scan of pages misses no row and the
statistics count each once; no pool loses a connection; the API never serves a database
that is not migrated; the last good backup can be restored.

## Modules

| Module | Models | How |
|---|---|---|
| `IngestBatch` | a body and what the handler makes of it | operators. A text is abstracted to how far it gets: blank, broken, null, scalar, invalid, typeError, unstorable, good. `Lines` is `splitlines` of each layout; `Objects`, `Rows`, `Refusal`, `DbRefuses` are the reference definitions; `Kept` is the filter both lists come from |
| `IngestRequest` | `ingest_events`, `parse_ndjson`, `get_session` | a sequential state machine, one action per early return and per loop turn; `pc` is the place in the handler, the other variables are its local variables |
| `Ingest` | device, request stages, transaction, table | `fate`, `credential`, `current`, `heard` are the device; `carries`, `bearer`, `stage`, `status`, `broken` the API; `tx`, `table`, `dbUp` PostgreSQL. One action per stretch of code between two awaits |
| `Delivery` | what the ingest path promises a device | two variables, `place` of a batch and its `copies`; no requests, transactions or faults |
| `Readiness` | `/healthz`, `/readyz`, the kubelet, the Service | `db` is up, refusing or hanging; `probe` is the `/readyz` request in flight |
| `TokenRotation` | the runbook `token_refresh.md`, the tasks of the play, the deploy workflow, devices | `step` to `shipped` are the operator, `token`, `paused` the devices, `play`, `changed`, `image`, `tokensFile` the play and its files, `todo`, `settings` the containers |
| `Pagination` | `list_events` against inserts | a page is the difference of two prefixes of an order by `ts`, so that ties are resolved differently by every statement |
| `Queries` | `event_facets`, `recent_devices`, `timeline` | EXTENDS `Pagination`; a client asks one of them, or scans, while batches commit. `facets` grows by one column per statement, `chart` is the response of a statistics endpoint, `read` the table its statement saw |
| `Workers` | `app/db.py` and the lifespan of `app/main.py` | one life of a process is a `worker`; `slots`, `idle`, `stale` are its QueuePool, `conn` the connection of a session; with what status a request is answered is left out |
| `Stack` | alembic, the launchers of the stack, `backup.sh.j2`, the restore | `db`, `rows` are committed, `tx` what the transaction of each migration has created; `mig` and `phase` are the migration and its launcher; `snaps` the repository; `promised` and `cut` are ghosts |
| `IngestProofs` | | the theorems about `Ingest`, and that it implements `Delivery` |
| `RequestProofs` | | the theorems about `IngestRequest` |
| `WorkersProofs`, `StackProofs`, `QueriesProofs`, `ReadinessProofs`, `TokenRotationProofs` | | the theorems about the module of that name |
| `Sums` | | lemmas the proofs share: induction over numbers and over finite sets, and what `SumFunction` of the community modules returns |

`Ingest` EXTENDS `IngestBatch` and takes from it which bodies are refused and
how many rows they have (`Verdict`, `Unstorable`, `RowSet`); `IngestRequest` EXTENDS it too,
and its invariant `AgreesWithReference`, checked and proved, says that the loops of the
handler compute those very definitions. `Ingest` INSTANCEs `Delivery` with a refinement mapping: a copy of a
batch is a request that has rows in the table, and a paused batch is still queued.
`Ingest` and `Workers` look at a request from two sides: the one at what its
transaction does to the table, the other at what it holds on the way.

`MC*` modules give the constants their values for TLC. A definition named
`Operation_What` is a variant of `Operation` with one plausible fault; PROJECT.json
names, for each property, the variant under which TLC finds it violated.

### What a step is

`ParseAndValidate` of `Ingest` is one step although it stands for sixty lines:
from the arrival of the body to `session.execute` the coroutine awaits nothing, so
no other request of the process runs in between and a crash inside it is not
different from one before it. `Insert`, `BeginCommit`, the COMMIT inside PostgreSQL
(`DbCommits`) and its acknowledgement (`CommitReturns`) are separate steps because
a crash, a broken connection or an outage between any two of them leads to another
state. A broken connection loses a COMMIT on its way or only its acknowledgement.

A batch without a storable event never opens a transaction: the session checks no
connection out, its COMMIT is empty, and the status is 200 even while the database
is away.

A worker of `Workers` begins with `init_engine` in its lifespan and ends by `Kill` or, after
SIGTERM and once its requests are through, by `dispose_engine`. Its connections go with it:
the kernel closes the sockets of a dead process, and a host that vanishes is not modelled. At
most `MaxServing` serve at once, and those that drain come on top, as pods do that terminate
while their successors start; how many lives follow one another is open. A
session holds no connection before its first statement and none after its COMMIT or
ROLLBACK, which run before the response goes out; hence `uploading` and `replying`, in
which a request waits for its client, hold none. Every `asking` request may also answer
without the database (a 4xx, an empty batch, a `TypeError`), except a probe. PostgreSQL may
refuse a statement of a read as well as of a batch: a NUL in a filter, an offset beyond BIGINT.

A migration of `Stack` is one transaction (`env.py:45-50`) that creates the version table, the
table, its indexes and the row with the revision, one step each. CREATE waits for another
transaction that has created the same name and fails once that one has committed. A snapshot
is a prefix of an archive in the order in which `pg_dump` writes it: schema, rows, indexes; a
restore may stop anywhere in it, and may find no archive at all.

The device is not in this repository. It is modelled from the contract that
`app/routes/events.py:15-20` and `README.md:176-184` state: delete on 200, pause on
401 and 403, drop on 413 and 422, retry on 5xx or no answer. The identity of a
request that is over and left nothing in the table is used again, which keeps the
model finite while a device retries for ever.

## Runs

| Run | Question | Result |
|---|---|---|
| `request` | every body of up to 3 texts of 8 kinds, with either content type, as lines, array or spread document, cap 2, error cap 2 | holds |
| `json_newline` | are all events of a JSON array accepted? | **violated** |
| `ingest_safety` | a batch with two rows, one over the cap and one with a row PostgreSQL refuses, 3 requests, 2 faults, with or without a token | holds, with refinement of `Delivery` |
| `ingest_liveness` | a batch with two rows and one over the cap, 3 requests, 1 fault, a wrong token | holds, with the fairness of `Delivery` |
| `wedge` | does every batch leave the queue? | **violated** without any fault, by an event the model trips over and by one that only PostgreSQL refuses |
| `readiness` | 2 pods, threshold 3, 2 crashes, a database that changes at will | holds |
| `readiness_outage` | does a refusing database take pods out of the Service? | **violated** |
| `rotation` | 2 containers, 2 devices, 2 rotations, 2 failed plays, 2 roll-outs; the image is on the host | holds |
| `rotation_skipped` | does a play that succeeds put the new tokens in force? | **violated** if the image is missing |
| `queries` | 6 rows, two of them tied, one filtered out, limit 2, either order; a window and a bucket it cuts | holds |
| `workers` | 3 lives of workers, 2 of which serve at once, a pool of 1 and an overflow of 1 each, 2 connections in all, a batch, a read and a probe; the database stops at any time, clients never finish | holds, with liveness |
| `stack` | both launchers, 3 backups on 2 days of which one is kept, 1 row, restores and failures anywhere | holds |

What they show:

* **No loss** (`DeletedIsStored`). A file is deleted only if every event of it that
  the API accepted is in the table.
* **No ghost** (`DroppedIsNowhere`). No attempt at a dropped batch has stored any of it.
* **Duplicates** (`DuplicatesOnlyInDoubt`). ARCHITECTURE.md, section 9, names one source of
  duplicates, a lost 200. There are three: a lost 200, a COMMIT whose acknowledgement
  is lost (answered with 500), and an attempt that outlives the device's patience.
  In each the device was told nothing, or 500 over a broken connection.
* **All or nothing** (`WholeBatchAtOnce`). The table grows by all rows of one
  request or not at all: a row that PostgreSQL refuses takes the good ones before it along,
  which a session that committed what is left after a failed statement would not do.
* **Handler** (`NothingUncounted`, `StoresTheGoodOnes`, `ErrorsPointAtRejections`,
  `BadRowsAreSoft`). Counts, rows and error positions survive any mixture of good
  and bad texts. A parse error carries the number of its line or item, a validation error
  that of its object among the objects.
* **Probes.** Outages restart nothing; recovery restores the Service; silence, unlike
  refusal, takes the pods out of it.
* **Rotation** (`OnlyLaggardsPause`, `RetiredIsRefused`, `RotationFinishes`). A device pauses
  only if its user missed the window in which both tokens are valid, although `get_settings` keeps
  the tokens of a process for its life, plays fail at any task,
  and roll-outs replace containers in between. What saves a play that failed after
  `Render tokens.env` is not the handler, which the next play does not notify again, but
  `compose up`, which compares the environment of the containers with the file.
* **Pages.** Inserts of any age between two pages never hide a row from a scan, if
  its `ts` is its own. Tied rows are excluded because the order of `list_events` has no
  tie-breaker: without the exclusion TLC finds a tied row that no page shows. The client
  that stops at a page that is not full has reached the total beside it, although count
  and rows come from two snapshots.
* **Facets** (`FacetsSelectSomething`). The drop-downs come from four snapshots; each
  offers what was there when the request began and nothing a list request would not find.
* **Statistics** (`StatisticsAddUp`). Every event of the window is in one group, and in
  one bucket; only the first bucket can be cut by the window.
* **Pool** (`NoConnectionLeaks`, `RefusedOnlyInOverflow`, `SlowClientsStarveNobody`). Every
  exit gives the connection back. The capacity the configuration plans for, `pool_size`
  per serving process, is there unless a process is in its overflow or one that drains still
  has connections: nine processes of ten connections are below `max_connections` of 100, nine
  of twenty are not, and neither are nine with some that terminate beside them. A client that
  uploads or reads for ever holds no connection.
* **Stack** (`NeverServesUnmigrated`, `LastBackupHolds`). However the play and the workflow
  overlap and wherever a migration breaks off, the API serves a migrated database. The last
  good backup outlives any number of failed dumps, for `pipefail` keeps the script from its
  `forget`, and a restore that reports no error has all its rows. A restore that takes the
  partial archive of a failed dump, which is the latest snapshot after one, loses rows; nothing
  in the repository promises otherwise, and the property does not.

### Disagreements with the documentation

1. `json_newline`. `"\n" in raw` sends a JSON document over several lines to the ndjson
   parser (`events.py:98`), which rejects its lines softly: status 200, `accepted: 0`,
   and the client believes it was stored. `events.py:5-6` says such bodies are accepted.
2. `wedge`. `coerce_props` raises `TypeError` (`schemas.py:74`); pydantic v2 wraps only
   `ValueError` and `AssertionError`, so `except ValidationError` (`events.py:142`) does
   not see it, and the batch gets a 500 each time. `events.py:8-10` says a single rotten
   event never wedges a queue.
3. `readiness_outage`. `/readyz` answers 200 with `"degraded"` (`health.py:34-37`), and
   a readiness probe looks at the status only. `ARCHITECTURE.md:130-132` and
   `health.py:26-28` say an outage takes the pod out of the Service. No data is lost
   over it: devices get a 500 and keep the batch.
4. `rotation_skipped`. If `api_image:api_image_tag` is neither on the host nor can be
   pulled, the play renders `tokens.env`, skips compose and the handler, and reports
   success (`playbook.yml:297-330`, `397-398`); the containers keep the old tokens, and
   devices that are then shipped with the new one pause. `playbook.yml:279-280` says that
   the play "is all it takes to rotate". The workflow pins another tag, so that a
   running stack does not imply that the image is there.
5. `wedge` again, for another cause. A `ts_ms` beyond BIGINT (`schemas.py:59` admits any
   integer, `models.py:108` does not) or a NUL in a text passes `IngestEvent`; PostgreSQL
   refuses the one INSERT of the batch, and the whole batch gets a 500 each time. The
   sentence of `events.py:8-10` is the same as in 2, the cause and the cure are not: in the
   behaviour TLC finds one batch of either sort goes round for ever.

### Bounds

* Three texts cover each pair of kinds around each third one, a batch at, below and
  above the cap of two, and more rejections than the error cap of two.
* Three requests let two attempts at a batch overlap with a third; two faults are what
  it takes to lose the answer of one attempt and break another. The proofs below have
  no such bounds.
* An INSERT that is refused at its second row has a good one before it; that batch, one to
  store and one to refuse share three requests. Without a token, a request is refused as it is
  with a wrong one.
* For liveness the identities of requests must not run out: a stored attempt is never
  reused, a batch with rows needs one more than there are faults, each other batch one.
  `MaxFaults` bounds faults because no system delivers under faults that never cease.
* Threshold 3 and two pods are the values of `k8s/deployment.yaml`.
* Two rotations let a device skip one; two containers can differ during a roll; a play
  can fail on the way to either list. The proofs have no such bounds.
* Six rows give three full pages, ties within and across pages, and inserts before,
  between and behind them. Of the same rows one is older than the window, one lacks a
  version, and the window cuts a bucket.
* Two workers with a pool of one and an overflow of one already ask for more than the two
  connections there are; three requests let one wait while two hold; a third life starts beside
  one that drains. The proofs have no such bounds; they assume what the configuration provides
  for, that the pools of the processes that serve at once fit `max_connections`
  (`CapacityAssumption`: `hpa.yaml:11-12` and `maxSurge` of `deployment.yaml:15` make nine
  processes, `cluster.yaml:77` a hundred connections). How many processes there have been
  before is not bounded.
* Three backups on two days, one day kept: a failed one before, after and between good
  ones, on the same day or the next. `StackProofs` covers every number.

Deadlock is not checked where the system may rightly stop: a request that has been
answered, queues that are empty, a scan that is over, the last rotation done.

### Fairness

`Ingest!Fairness`: the event loop resumes a handler whose await is over (`Handle`);
PostgreSQL finishes a COMMIT it has received and is started again; a device flushes
its queue periodically and reads its answers; its user fixes the token. All weak:
each action stays enabled until it is taken. Timeouts and faults are not fair.
`Readiness!Fairness`: kubelets probe periodically, containers start, a probe ends by
an answer or by its timeout. The database is under no obligation. `IngestRequest`
assumes that the handler, which waits for nobody else, goes on. `Workers!Fairness`: the event loop
hands a free connection to a request that waits, and a statement returns or fails. Clients may
upload and read as slowly as they like, nobody is terminated, and the 30 seconds of QueuePool
need never pass. `TokenRotation!Fairness`:
the play and compose go on with what they have begun, and the operator follows the
runbook; users need not update. Plays fail finitely often. The operator does not run the
play while the workflow rolls: nothing in the repository excludes it, and a `compose up`
that has read the old file could then replace a container last.

## Proofs

The proofs hold for every value of the constants that meets the named assumptions of the
module; the bounds of the runs are not among them. Each follows the same line: an
inductive invariant in named parts, a lemma per action, a theorem for the invariant, and
one for each property that follows from it. Every invariant and every action property that
a passing run checks is proved.

**Induction.** The theorems of the library that induct take an operator as a parameter, which
no backend instantiates. `Sums` states induction of sets instead: `UpTo` puts every number up
to `n` into a set that has 0 and grows by one, `SumInduction` every finite set and its sum into
a relation that has `<<{}, 0>>` and grows by one element. Both come from the least element of a
nonempty set of naturals. `SumAtMost` bounds a sum by the bounds of its terms, `GroupsAddUp`
says that the sizes of the groups of a finite set add up to its own.

| Module | Theorem | Says |
|---|---|---|
| `IngestProofs` | `Invariance`, `TypeCorrect` | `SafeSpec => []IInv`, `[]TypeOK` |
| | `DeletedMeansStored` | `SafeSpec => []DeletedIsStored` |
| | `DroppedMeansNowhere` | `SafeSpec => []DroppedIsNowhere` |
| | `TableGrowsByBatches` | `SafeSpec => WholeBatchAtOnce` |
| | `DeliveryInvariance` | `SafeSpec => []DInv` |
| | `DuplicatesOnlyWhenInDoubt` | `SafeSpec => []DuplicatesOnlyInDoubt` |
| | `IngestImplementsDelivery` | `SafeSpec => ImplementsDelivery` |
| `RequestProofs` | `RequestInvariance`, `RequestTypeCorrect` | `Spec => []IInv`, `[]TypeOK` |
| | `NothingEverUncounted` | `Spec => []NothingUncounted` |
| | `ErrorsAlwaysPointAtRejections` | `Spec => []ErrorsPointAtRejections` |
| | `RequestReads` | `Spec => []RInv` |
| | `AlwaysAgreesWithReference` | `Spec => []AgreesWithReference` |
| | `AlwaysStoresTheGoodOnes` | `Spec => []StoresTheGoodOnes` |
| | `BadRowsAreAlwaysSoft` | `Spec => []BadRowsAreSoft` |
| | `JsonOnOneLineIsAccepted` | `Spec => [](~HasNewline(body) => JsonDocumentAccepted)` |
| | `HandlerMovesOn` | `Spec => [][MovesOn]_vars`: every step lessens `Remaining`, at most two steps per text and six |
| `WorkersProofs` | `WorkersInvariance`, `WorkersTypeCorrect` | `SafeSpec => []Parts`, `[]TypeOK` |
| | `NoConnectionEverLeaks` | `SafeSpec => []NoConnectionLeaks` |
| | `RefusedOnlyEverInOverflow` | `SafeSpec => []RefusedOnlyInOverflow` |
| `StackProofs` | `StackInvariance`, `StackTypeCorrect` | `Spec => []Parts`, `[]TypeOK` |
| | `NeverEverServesUnmigrated` | `Spec => []NeverServesUnmigrated` |
| | `LastBackupAlwaysHolds` | `Spec => []LastBackupHolds` |
| `QueriesProofs` | `QueriesInvariance`, `QueriesTypeCorrect` | `QuerySpec => []IInv`, `[]TypeOK` |
| | `PagesAlwaysInOrder` | `QuerySpec => []PagesInOrder` |
| | `NoScanMissesAnything` | `QuerySpec => []ScanMissesNothing` |
| | `FacetsAlwaysSelectSomething` | `QuerySpec => []FacetsSelectSomething` |
| | `StatisticsAlwaysAddUp` | `QuerySpec => []StatisticsAddUp` |
| `ReadinessProofs` | `ReadinessInvariance`, `ReadinessTypeCorrect` | `Spec => []IInv`, `[]TypeOK` |
| | `OutageNeverRestarts` | `Spec => OutageRestartsNothing` |
| `TokenRotationProofs` | `RotationTypeCorrect` | `SafeSpec => []TypeOK` |
| | `RotationInvariance` | `SafeSpec => []IInv`, if the image is on the host |
| | `OnlyLaggardsEverPause` | `SafeSpec => []OnlyLaggardsPause`, likewise |
| | `RetiredIsAlwaysRefused` | `SafeSpec => []RetiredIsRefused`, likewise |
| | `PlaysPutTokensInForce` | `SafeSpec => []PlayPutsTokensInForce`, likewise |

**Ingest.** None of the properties is inductive alone. That a deleted batch is stored needs
that a 200 is true when it is *heard*, hence when it was *given* (`AnswersAreTrue`), hence
that a transaction seen as committed has its rows in the table and keeps them
(`TableIsCommitted`), that the answer heard belongs to the batch (`WaitsForItsOwn`),
and that a stage and a transaction only occur together as they do in the code
(`Lifecycle`). That a dropped batch is nowhere needs that a refused body never gets
as far as a transaction (`Unrefused`), and that a 413 or 422 speaks of the body and
not of the moment. Even the type of `table` depends on it: the rows a COMMIT adds are
rows of a batch only because the request carries one. `TableFrame` and `AbortIsLocal`
carry the actions that do not commit. `DInv` adds what a status says of the
transaction behind it (`Truthful`) and that a device waits for one request at a time
(`Hears`); with them two copies leave one attempt whose 200 was not heard, and every step
maps to a step or a stutter of `Delivery`. The fairness of `Delivery` is left to TLC.

**Requests.** `Parsing` says that what the first loop has read is objects and errors, as many
as there are texts that are not blank (`NonBlank`), and that errors carry numbers of their
texts; `Validating` that what the second loop has read is rows and errors. Two errors never
have the same number because the loop position passes each number once. The counts of the
response are sums of the two.

`RInv` adds what the lists contain: after n turns the objects are `Kept` of the first n texts
(`Parses`), and the rows point at `Kept` of the first n objects (`Validates`). The j-th element
of `Kept` is the text that has j kept ones up to it. `KeptOneMore` says that a position at the
end changes no element before it, `KeptIsSeq` by induction that the result is a sequence, and
`KeptGrows` that it grows by `Append`, as the lists of the handler do. With it a loop that is
over holds the reference's list, so that each early return is the reference's refusal (`Ends`).
Two corollaries tell how far the findings reach: without a newline a JSON array is accepted as
a whole (`JsonOnOneLineIsAccepted`), and with the image on the host a play that succeeds has put
the tokens in force (`PlaysPutTokensInForce` of `TokenRotationProofs`).

**Workers.** `Accounts` is the account of a pool: records are at rest or held. It needs `Places`:
a request has a connection while it is querying and at no other time, and a worker that
runs. `Capacity` says that no more than `MaxServing` serve, however many have before. For
`RefusedOnlyInOverflow` the open connections, a sum over the pools and the requests, are
bounded worker by worker: none for one that is new or gone (`WithinRecords`), none for one
that drains and at most `pool_size` for one that serves, unless the conclusion holds. If the one
that asks is below its size, the sum (`SumAtMost`, `RoomIsLeft`) is below `MaxServing * PoolSize`.

**Stack.** `Transactions` says that no two migrations have created the same object, nor one
that is there; with `Schema` (a revision is never without its table, in the database, an
archive or a snapshot) it carries `NeverServesUnmigrated`. `Repository` orders snapshots by
number and day: of two that are whole the newer is `promised`, and forgetting takes place
only right after a whole one, while that is the newest of all. `Kept` follows the rows of
`promised` through the wipe of a restore.

**Queries.** The scan needs `UnseenIsAhead`: an untied row that has not been shown has at
least `offset` rows before it. Inserts only add to them, and a page that ends before the row
is full. `TotalIsReached` does the same for the count. `ChartIsOfRead` says that a chart was made
of the rows its statement read; its groups, or buckets, split these rows (`GroupsAddUp`), and a
bucket that begins before the window is the first because buckets are multiples of the width
(`BucketIs`).

**Readiness.** The liveness probe never fails, for `/healthz` asks nobody; a pod that has
missed too many readiness probes is out of the Service.

**Rotation.** The file and each container hold the list as it was before the operator's edit
or as it is after it (`OldOrNew`), which of them have it already in each stage of the play
(`PlayProgress`), and a device holds a token that was shipped (`DevicesFollow`). From it
`RefusedIsUnlisted` follows: a token of a device that is missing on the list of some container
is missing on the list in force. Without the image on the host the first two parts of
`PlayProgress` fail, and run `rotation_skipped` shows how.

Left to TLC are liveness and fairness, which are out of the prover's reach: `AlwaysAnswers`
(`HandlerMovesOn` is as much of it as is safety), `EveryBatchSettles`, `DeliversWhatItPromises`,
`RecoveryRestoresService`, `SilenceLeavesService`, `SlowClientsStarveNobody`, `RotationFinishes`.

## Plan

Done in this order: `IngestBatch`, `IngestRequest`, `Ingest`, `Delivery`, `IngestProofs`,
`Readiness`, `Pagination`, `TokenRotation`, `TokenRotationProofs`, `Workers`, `Queries`, `Stack`,
and the other proof modules. What could still be added:

1. A play and a roll-out that overlap, in `TokenRotation`, and the older procedure of
   `deploy/README.md:338-341`, which edits an `.env` that no api container reads.
2. The bootstrap order of `local-bootstrap.sh`, which applies the Deployment before the
   migration job.
3. The metrics: counter, histogram, labels, and a scrape that reaches any of several processes.
4. The resolution of settings from the environment (`app/config.py`).

## Not modelled

* Declarative infrastructure (CloudNativePG, HPA, NetworkPolicy, MinIO, Caddy), image builds,
  development scripts, logging and wording, CORS, the root route. The limits the
  infrastructure sets are constants of `Workers`.
* `get_event` is a lookup by key; it occurs as a request of `Workers` that may answer 400 or
  404. The constraints of single fields of `IngestEvent` are the kind of a text.
* The offline mode and `downgrade` of the migration, which nothing in the repository runs.
* Weekly and monthly retention, which only keep more snapshots than the daily one.
* A deploy during a restore: the restore is a procedure by hand that stops the stack first.
  Its lines up to the empty database are one step. What it loses when `pg_restore` reports an
  error is in `cut`, for the operator to repeat.
* The metrics. The middleware sees no route, so that the label is the path. A request that
  raises leaves it at `call_next` (`main.py:110-112`), before the counter: its 500, written
  outside, is in the histogram and in no series of `telemetry_requests_total`, which
  `main.py:91-93` declares as "Total HTTP requests", by status.

Remarks on the documentation that no run shows: the restore of `deploy/README.md:359` sources
`.env`, while the `RESTIC_*` variables live in `secrets.env`; `backup.sh.j2:10-11` restores with
`psql` what is a custom-format dump; `app/db.py:43` speaks of a rebuild against another DSN that
`init_engine` does not do; `k8s/migrate-job.yaml:1-2` asks for the migration before the
Deployment and `local-bootstrap.sh:186` applies them in the other order.
