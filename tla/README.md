# A verification project for orders-service

`src/demo_project` is one Go program, `orders-service`: it consumes orders from
Kafka, stores them in PostgreSQL, keeps the recent ones in an LRU cache and
serves them over HTTP. This directory holds TLA+ specifications of it, the TLC
configurations that check them on small instances, and proofs of their main
properties for every value of the constants.

The reference is the source. Every definition that models code is listed in
`PROJECT.json` under `map` with the lines it stands for.

## 1. Inventory

| Component | State | Operations | Interacts with |
|---|---|---|---|
| LRU cache, `internal/cache/lru.go` | map uid → node, doubly linked list, capacity | `Get`, `Set`, `SetIfAbsent`, `Len`, `Stats`; one mutex over each | called by the service |
| Order service, `internal/service/order_service.go` | none of its own | `Save`, `Get`, `Warmup` | repository, then cache (or the reverse) without a common lock |
| Order repository, `internal/repository/postgres/order_repo.go` | tables orders, deliveries, payments, items | `Save` (one transaction, one batch), `GetByUID`, `ListRecent` (two queries on a snapshot) | Postgres sessions, which outlive a lost connection |
| Kafka consumer, `internal/broker/kafka/consumer.go` | message in hand, attempt, backoff; reader position; committed offsets at the broker | `Run`, `handle`, `decode`, `save` | service; broker (fetch, commit, rebalance) |
| Process, `cmd/orders-service/main.go` | phase of `run()`, contexts, errgroup | start, warm up, serve, stop, exit | owns all of the above |
| HTTP, `internal/transport/http` | requests in flight, response recorder | `GetOrder`, `Healthz`, `Readyz`, middleware, graceful shutdown | service, pool, cache |
| Pool and migrations, `internal/repository/postgres` | connections | `NewPool`, `waitReady`, `Migrate` | Postgres |
| Domain, config, logger, frontend, deployment | | validation, error classes, settings, page, restart policy | |

What makes them correct:

* **cache**: one sound list over exactly the keys of the map, never more entries
  than the capacity, and what leaves is the least recently used entry;
* **service**: the cache shows only what the database committed, and never an old
  version for good;
* **repository**: an order is written and read whole, and a save that seemed to
  fail does no harm later;
* **consumer**: at-least-once in offset order. Nothing acknowledged is missing in
  the database, a redelivery undoes nothing, no message blocks the topic;
* **process**: warm before it serves, and whatever ends it, a restart resumes; it
  starts on usable settings only, ends when one of its parts ends, says why, and
  does end;
* **HTTP**: one answer per request, from one author, and a log that tells it;
* **several instances**: what one of them acknowledges is stored, whoever it was,
  and no instance undoes the work of another.

Hard behaviours: consumer and requests interleave at each call into database or
cache; a save or an offset commit may fail with an unknown outcome; kills,
signals, rebalances and restarts come at any step; a server session keeps
running after its client has gone; an instance that has lost a partition is still
at work on a message of it; a handler, its time limit, a panic and the end of the
connection race for one answer; two deadlines and a deferred `Close` decide when
the process ends. `PROJECT.json` lists them under `hazards`,
each at its line, with the properties that watch it or the reason why none does.

## 2. Modules

```
LruCache  <---- LruList ----> LruRecency            (MCLru, LruListProof,
                                                     LruRefinementProof)
   ^
OrderService <- OrderPipeline <- PipelineProperties (MCPipeline, PipelineProof,
                                                     WarmupProof)
                      |implements
                DeliveryContract

OrderStore <----- OrderRepository <- RepositoryProperties
         implemented by                             (MCRepository, RepositoryProof)

OrderInstances <- InstancesProperties               (MCInstances, InstancesProof)
Settings <- Lifecycle <- LifecycleProperties        (MCLifecycle, LifecycleProof)
HttpRequest <- RequestProperties                    (MCRequest, RequestProof)
```

The pipeline is one instance in every detail of its messages. The three modules
of the last lines each take one side of it that the pipeline leaves out: several
instances, the process around the consumer, the request around `Get`.

* **LruCache** is the cache as its callers see it: `held` (uid → version) and
  `recency` (uids, the most recent first). The service is specified on it.
* **LruList** is `lru.go`: `next`, `prev`, `head`, `tail` and the operations that
  move pointers (`PushFront`, `Unlink`, `MoveToFront`, `Insert`). Each method
  holds the mutex throughout and is one action. **LruRecency** adds the history
  of use that the property about eviction needs. A node is identified by its uid,
  since the map never has two nodes for one key.
* **OrderService** has the halves of `Save` (`SaveInDb`, `SaveInCache`), of `Get`
  (`GetHit`/`GetMiss`, `GetFound`/`GetFails`, `GetFill`) and of `Warmup`
  (`ListRecent`, `WarmOne`), split where another goroutine can come between.
* **OrderPipeline** says who calls them: `Fetch`, `SaveStores`, `SaveCaches`,
  `SaveRefused`, `SaveRetries`, `BackoffElapses`, `SaveGivesUp`,
  `CommitSucceeds`, `CommitFails` are the branches of `Run`, `handle` and `save`
  in `consumer.go`; `Start`, `WarmStep`, `Serve`, `Stop`, `Exit`, `Crash` are the
  phases of `run()` in `main.go`; `Rejoin` is a rebalance as kafka-go shows it.
  A version of an order is named by the message that carries it.
* **DeliveryContract** is the promise of the doc comment of `Run` alone: messages
  of a partition are settled in order, a valid one only after it is stored.
* **OrderRepository** is `order_repo.go` against Postgres sessions. The client
  (`BeginSave`, `SendCommit`, `SaveReturns`, `SaveRefused`, `StatementFails`,
  `ConnectionLost`) and the session (`UpsertOrder`, `DeleteItems`, `InsertItem`,
  `Commit`, `Abort`) are separate actors: after `ConnectionLost` the session goes
  on with what it has received while the client calls `Save` again on another
  one. Readers (`SelectOrders`, `LoadItems`, `EndRead`) take their snapshot at
  the first query.
* **OrderStore** is what the service assumes of it: `Save` and reads are single
  steps. That `OrderRepository` implements it is the reason why `SaveInDb` and
  `GetFound` may be single steps in `OrderService`.
* **OrderInstances** is the consumer, the cache and the fill of several processes
  over one database and one group. `Fetch`, `SaveStores`, `SaveCaches`,
  `SaveRefused`, `SaveRetries`, `SaveGivesUp`, `BackoffElapses`, `CommitSucceeds`,
  `CommitFails`, `Query` and `Fill` are those of the pipeline, each for an instance
  `i`. `Rebalance` is the coordinator: it settles on members, hands each partition
  to one of them and starts every reader from the committed offset, without regard
  to what a consumer has in hand. `orphans` are transactions whose COMMIT was sent
  on a connection since lost, by a failed attempt or by a process that ended:
  `OrphanCommits` and `OrphanAborts` settle them later, also in the time of the
  next process.
* **Settings** is `config.go`: `Normalized` and `Accepted` over the record of
  settings are `normalize` and `validate`, field by field.
* **Lifecycle** is one process: `Load`, `PingSucceeds`, `PingFails`,
  `PauseElapses`, `PauseCancelled` are `config.Load` and `waitReady`;
  `QuerySucceeds` and `QueryFails` are `Migrate` and `Warmup`; `StartGroup` to
  `ShutdownExpires` are the members of the errgroup with `Server.Run` and its
  `ListenAndServe`; `BeginWait`, `GroupReturned`, `WaitExpires`, `PoolCloses` are
  the end of `run()`. `groupError` is the error that errgroup keeps, `dropped` says
  that it was given another one.
* **HttpRequest** is one request in the chain of `NewRouter`: `Begin` to
  `WriteBody` are the handlers up to `writeJSON`, `HandlerReturns` and `GiveUp` are
  `http.TimeoutHandler`, `Recover` is `recoverPanic` (`RecoveredIn` says
  in which goroutine it finds the panic), `LogRequest` is `logRequests`
  with `responseRecorder` and `levelFor`. `inner` is the goroutine of the handler,
  `outer` that of the connection; without a limit they are one.

Definitions called "Mutant" in the comments are deliberate mistakes, each beside
the definition it replaces. No specification uses them; they exist to show that
each property can fail.

### What is abstracted, and how

* Orders are versions; equality of versions is equality of whole orders. Fields
  appear only where the repository splits an order into rows (`OrderRepository`).
* The outcome of a save that returns an error is chosen at once in the pipeline
  (`MaybeStored`: nothing or everything). In reality the server may decide later;
  `OrderRepository` has that, and `LateCommitHarmless` shows that it decides
  before the caller gets past that order. A COMMIT that outlives the whole process,
  into the warmup of the next one, is in `OrderInstances`.
* In `OrderPipeline`, `Exit` stands both for the return after all goroutines and
  for the shutdown timeout; `Crash` also for a start that fails. `Start` includes
  the pool and the migrations.
* `Get` may fail at its query at any time: not found, database error, cancelled
  request, or handler timeout. A fill has no deadline: the handler goroutine
  outlives the timeout handler.
* Between the commit in Postgres and `cache.Set` a hit is older than the row, and
  a miss right after it may be newer. That is the design; `CacheFresh` allows it
  for the order in the consumer's hands and for no other.
* `ListRecent` orders by `date_created`, which nothing ties to the order of
  messages: the listing is any sequence of stored orders of the right length.
* The pauses of the consumer have no length. `LruList` counts hits and misses as `Get`
  does, up to a bound; what reads them (`Stats`, `Len`) is left out. Of the logs only
  the entry of the access log and that of a panic are modelled.
* `OrderInstances`: a consumer that returns takes its process with it at once (the
  steps between are in `Lifecycle`), caches have room for every order, retries are
  not counted, and one request is in flight. An instance that the coordinator
  expelled reads on until its next commit fails.
* `Lifecycle`: time is counted in ticks from the cancellation of the group's
  context. `Tick` waits for what a goroutine can do at once (`Prompt`): a tick is
  long against scheduling and short against `ShutdownTimeout`. A request that was
  answered by its time limit and whose handler still has a connection is `late`.
  Signals count from `signal.NotifyContext` on; they kill once `stop()` was called
  (`Released`), which after a failed start is only behind `pool.Close`. A listener that
  fails while the context is done may find `Run` in either branch of its `select`; in
  the second its error is thrown away behind `Shutdown`. The consumer is off, running,
  hanging or done.
* `HttpRequest`: bodies are named by who wrote them; headers, request identifiers
  and the content of the page are left out. `TimeoutHandler` is external: it buffers, and
  sends the buffer or its own answer, or raises a panic of the handler again in the
  goroutine of the connection. `http.ErrAbortHandler`, which `reportPanic` raises again
  and no code here raises first, is left out. What the client reads
  of an answer is not modelled, only what was sent to it.

## 3. Runs

| Run | Instance | Checks | Result |
|---|---|---|---|
| `lru` | 4 uids, 2 versions, capacity 3 | `TypeOK`, `ListSound`, `MostRecentlyUsedKept`, `ImplementsLruCache` | hold, 4 404 states |
| `pipeline` | 3 uids, capacity 2, 2 partitions of 2 messages, 2 requests, 2 attempts, 3 faults | `TypeOK`, `NoAckedOrderLost`, `CacheWasCommitted`, `WarmupKeepsFreshest`, `RedeliveryNeverRegresses` | hold, 466 398 states |
| `delivery` | the same with 2 uids, capacity 2, with fairness | `CacheFresh`, `ImplementsDelivery`, `Converges` | hold, 83 703 states |
| `repository` | 2 orders, 2 writers, 3 sessions, 1 reader, 2 failures, with fairness | `TypeOK`, `OrdersWhole`, `ReadsAreWhole`, `ReturnedSavesStay`, `LateCommitHarmless`, `ImplementsOrderStore`, `SavesFinish` | hold, 523 752 states |
| `instances` | 2 instances, 2 partitions of 2 messages, 1 uid, 1 fault, with fairness | `TypeOK`, `NoAckedOrderLost`, `StaleOnlyByOthers`, `RegressNeedsOverlap`, `ContractUntilOverlap`, `EveryOrderStored`, `ConvergesWithoutOverlap` | hold, 654 038 states |
| `lifecycle` | 29 environments, 2 requests, 2 faults, grace 1, longest pause 2, with fairness | `TypeOK`, `StartsUsable`, `FailureIsReported`, `CleanExitDrained`, `TimeoutMeansStuck`, `SharedFate`, `StopsInTheEnd`, `StartEnds` | hold, 120 796 states |
| `request` | uids of the greatest length and one beyond it, with and without a limit, with fairness | `TypeOK`, `OneAnswer`, `LogTellsStatus`, `PanicAnswered`, `StoredIsReadable`, `EveryRequestLogged` | hold, 3 628 states |
| `stale_fill` | as `delivery`, capacity 1 | `CacheFresh` | violated, see findings |
| `overlap` | 2 instances, 1 partition of 2 messages, 2 faults | `RedeliveryIsHarmless` | violated, see findings |
| `stuck` | as `lifecycle`, no handler timeout | `ExitsAnyway` | violated, see findings |
| `lost_stack` | as `request`, without fairness | `PanicLeavesItsStack` | violated, see findings |
| `long_uid` | a uid of two characters with two bytes each, limit 2 | `StoredIsReadable` | violated, see findings |

Deadlock is checked in the runs of the cache, the pipeline and the repository. The
others end: the topic is read through, the process exits, the request is over.

**Bounds.** Four uids over capacity three let a node be unlinked from head,
middle and tail and make an insertion evict with both neighbours present. Two
messages per partition are an update of an order, two partitions an order that is
updated from both; the logs mix valid, invalid and refused messages. Three faults
cover the combinations that need several: a save whose answer is lost, the
commit that fails after it, and the kill during the redelivery. Capacity is below
the number of orders where eviction matters (`pipeline`, `stale_fill`) and equal
to it where it must not happen (`delivery`). Three sessions and two failures in
`repository` give a retry beside two sessions given up; the items of the
first order shrink from two to one, so that a leftover row shows.

In `instances` a rebalance costs no fault when it is due (a process came or went),
so one fault buys an expulsion, a failed save, a failed commit or a kill, each with
rebalances before and after it; a kill leaves a transaction behind that commits in
the time of the next process. The overlap of `overlap` needs two: the failed save
that makes an instance wait, and the expulsion. One order with three valid
versions over two partitions is enough for an order or an offset to go back. In
`lifecycle` each number is once below its least value and each name once blank;
four usable environments add the long first pause, the default of the warmup limit,
blank brokers to be dropped, and the absence of a handler timeout. Two faults are, for
instance, a database that falls silent and a consumer that hangs, or two components
that fail; two ticks of shutdown and one of grace tell the two deadlines apart. In
`request` there is nothing to bound: one uid fits, one does not.

Each property of a passing run is refuted by its mutant on the same instance.

**Fairness.** `Start`: docker-compose restarts the container (`restart:
unless-stopped`). `WarmStep`, `Serve` and `Exit`: `run()` goes on, and its wait is
bounded by the shutdown timeout. `Consume`: the consumer goroutine is scheduled,
and Postgres and Kafka answer, when no fault is injected. Nothing is assumed of
requests or of faults; faults end only because the model counts them
(`MaxFaults`, `MaxLosses`), so the liveness properties read "once the faults are
over". In `repository`, a client that can go on does, and a server session
executes what it has received and finds out about a broken connection.

`OrderInstances` adds that Postgres settles what a lost connection left
(`Settle`), and that the coordinator completes a rebalance that is due
(`NeedsRebalance /\ Coordinate`); one that is not due never has to come. In
`Lifecycle` the goroutines of `run()` are scheduled (`StartStep`, `ServerStep`,
`ConsumerStops`, `StopStep`), time passes (`Tick`), and a request is answered, or
reaches its limit, or its late handler notices that its context is done; a silent
database answers nothing. Clients may leave an answer undelivered for ever, and a hanging
consumer need not come back. In `HttpRequest` handler and chain are scheduled and the
limit elapses, but a database need not answer a query: with a limit
`EveryRequestLogged` holds all the same, without one it is claimed only of the
routes that do not query.

## 4. Findings

* **Stale fill** (`stale_fill`, `order_service.go:72`). `SetIfAbsent` is there so
  that a reader does not overwrite the fresher version the consumer has put into
  the cache. It does so only while that version is still there. In the trace a
  reader misses order `a` and reads version 1; the consumer saves and caches
  version 2; another order evicts it; the reader's `SetIfAbsent` finds nothing and
  puts version 1 back, where later requests hit it. `FreshWithoutEviction` proves
  the other side: with room for all orders it cannot happen.
* **Overlap** (`overlap`, `consumer.go:231`). The doc of `Run` relies on the write
  being idempotent, `order_service.go:52` on nothing being fresher than the order
  just written. Both need one writer per partition. In the trace an instance has a
  transient error and waits; the group hands the partition to another instance,
  which saves the same message and then the next version of the order; the pause is
  over, and the first instance writes the old version over the new one. Postgres
  keeps it until the order is sent again. The other side is proved: orders and
  offsets go back in no other way (`RegressNeedsOverlap`), until then a version that
  was stored before replaces only one that came from another partition
  (`RedeliveriesHarmless`), and the group as a whole keeps the contract that one
  consumer has (`GroupKeepsContract`).
* **Stuck** (`stuck`, `main.go:77`). "shutdown timed out, exiting anyway" is logged
  before the deferred `pool.Close`, which waits for every connection. With
  `HTTP_HANDLER_TIMEOUT=0`, which `config.go` allows on purpose, a handler whose query
  is never answered keeps its connection, and the process stays until it is killed.
* **Lost stack** (`lost_stack`, `middleware.go:168`). The doc of `recoverPanic` says that
  it leaves the stack of a panic in the log. With `HTTP_HANDLER_TIMEOUT` on, the default,
  the handler runs in a goroutine of `http.TimeoutHandler`, which recovers the panic
  there and raises its value again in `ServeHTTP`. `debug.Stack` is called in that second
  goroutine: the entry has the value of the panic, and the stack of `TimeoutHandler` and
  the middleware. Where the handler panicked is in no log. Without a limit
  the stack is the right one; `LimitLosesStacks` proves both sides. A `recover` inside of
  the limit, or around the handler, would keep it.
* **Long uid** (`long_uid`, `handler.go:60`). The comments at the limit in `handler.go`
  and in `order.go` want one limit for both ends. The number is one, but the
  validator's `max` counts characters and `len(uid)` counts bytes: an order whose
  uid has 64 characters and more than 64 bytes is stored, and each request for it is
  answered with 400. `StoredReadable` proves the other side, for uids whose characters
  are one byte each.

One comment is out of date without a run of its own: `order.go:15` says that data which
pass the validator and break a CHECK would be taken for a transient error and retried
for ever. `classifyError` (`order_repo.go:363`) makes class 23 permanent; such a message
is skipped and its offset committed, as `SaveRefused` of the pipeline has it.

## 5. Proofs

All theorems hold for every value of the constants under the named assumptions of
the modules: finite sets of uids, capacity and attempts at least one, `Absent`
different from everything real, saves that are sequences of orders, a topic of finite
logs, environments that are records of settings, a grace of at least one tick, uids
with no fewer bytes than characters.

* **LruListProof**: `TypesCorrect`, `ListCorrect`. The invariant says that a
  chain exists: a sequence without repetition of exactly the cached uids, along
  which `next` and `prev` run and whose ends are `head` and `tail`. Every pointer
  operation is a lemma on chains (`PushFrontChain`, `UnlinkChain`,
  `MoveToFrontChain`), and the bound on the capacity follows from the length of
  the chain, which is the number of cached uids.
* **LruRefinementProof**: `ListImplementsCache`, `KeepsMostRecentlyUsed`. The recency
  of the abstract cache is `Walk`, the uids met from `head` along `next`. That it is
  the chain of `LruListProof` goes by the first place where the two could differ
  (`<` on the naturals is well-founded); then each method does to the chain what
  `LruCache` does to `recency`, eviction included. For the second theorem
  `HistoryInv` says that the walk is the front of the history of uses, and that
  anything behind it means a full cache.
* **PipelineProof**: `TypesCorrect`, `AckedOrdersKept`, `CommittedBeforeCached`,
  `RedeliverySafe`, `EndsWithLatest`, `ImplementsContract`, `FreshWithoutEviction`,
  `TopicGoesOn`. None of the properties is inductive. The invariant is built in
  layers: control (program
  counter, message and process belong together); offsets (`Lag`: after a
  rebalance the reader is at most one message behind what is committed, so the
  message in hand is the next one or the last one again); what is stored (at most
  one message ahead of the committed offset, and then the one being read); copies
  (listing, requests and cache hold committed versions). Redelivery is safe
  because of the second and third layer: when a message comes back, no later one
  of its partition has been stored. Freshness has a layer of its own, for a cache
  that never evicts. `EndsWithLatest` adds `LatestInv`: what the database has of an
  order is the last version of it that was stored from some partition, so with the
  topic worked off it is the last one there is. `TopicGoesOn` uses the second layer
  once more: a consumer between two messages is never past one that is not settled.
* **WarmupProof**: `WarmupKeepsNewest`. The cache is empty when the listing is read,
  the uids of a listing are distinct (`ListedOnce`) and nobody else uses the cache
  before the service serves; so each `Set` puts a new order in front, and what it
  pushes out of a full cache is the one put first.
* **RepositoryProof**: `TypesCorrect`, `SavedOrdersWhole`, `ReadOrdersWhole`,
  `NoLateCommit`, `ReturnedSavesKept`, `ImplementsStore`, `SavesGoOn`. The
  invariant: one session holds the row of an order, it has seen all of its items and inserted a prefix of the new ones; a
  session that has been asked to commit runs the version its writer is at; once
  the writer's own session has the row, no other session of that writer is still
  to commit. The last part is where the order of statements in `Save` enters:
  COMMIT is sent only after the batch, whose first statement takes the lock.
  `KeptInv` follows from it: what a writer has got past is stored, and nothing of
  that writer comes after it except its later saves. `SavesGoOn` rules out that
  clients and sessions wait for each other: a session that waits for a row waits for
  one that can go on, as each takes one lock only and takes it first.
* **InstancesProof**: `TypesCorrect`, `NothingAckedIsLost`,
  `StalenessComesFromOthers`, `OverlapIsTheOnlyWayBack`, `GroupEndsWithLatest`,
  `RedeliveriesHarmless`, `GroupKeepsContract`, `GroupGoesOn`. Overlaps included, a reader
  is only past messages that are stored, except the one in its consumer's hand
  (`Offsets`), so any offset anyone commits covers stored messages only. A stale
  copy is traced through the query and the consumer's hands to whoever wrote last
  (`CacheInv`). The third layer holds as long as nobody was overlapped (`Ordered`):
  a reader is at most one message behind what is committed, nothing that is applied
  is beyond the message its partition is at (`Reach`), and an orphaned transaction,
  of which an order has at most one, carries no version older than what is applied.
  A fourth says what the rows are worth (`HInv`): what the database has of an order is
  a version that was applied, always a valid one, and until an overlap the last of its
  partition (`HoldsApplied`, `ValidOnTheWay`, `LatestOfItsPartition`). The refinement of the contract is a step of it for each save
  that stores, each orphan that commits and each offset that is committed. `GroupGoesOn`
  assumes one instance at least; after an overlap it speaks of valid messages that are
  not stored only, as an offset may then stay behind until the next rebalance.
* **LifecycleProof**: `TypesCorrect`, `OnlyUsableStarts`, `FailuresReported`,
  `CleanExitsDrain`, `GraceSuffices`, `RunsGoForward`, `StopsAreNeverStuck`.
  The invariant says how far each goroutine is at each phase, that a server that is done has drained its requests or left an error
  behind, and that past its own deadline the server is done: with any positive
  grace `main` does not run out of patience first. `Station` counts phases and
  connection attempts in the order in which a run passes them. `StopsAreNeverStuck`
  goes through the phases: after a cancellation each has somebody who can move,
  under the one condition that requests have a timeout, the condition of
  `StopsInTheEnd`; `Due` adds that the group has no error before it is started.
* **RequestProof**: `TypesCorrect`, `AnsweredOnce`, `LogTrue`, `PanicsAnswered`,
  `LimitLosesStacks`, `StoredReadable`, `NothingTakenBack`, `RequestsAreFinite`,
  `RequestsGoOn`. `Written` says what the handler has put into the buffer or the answer for each place it can be at, `Sent` what the chain made of it. An empty
  answer is the hard case: the handler leaves it out only if the client has gone.
  `Reported` says that a panic is logged when it is recovered and never otherwise.
  `RequestsAreFinite` gives every state a number that each step raises, up to nine.

**Only model-checked**: liveness (`Converges`, `SavesFinish`, the fair half of
`ImplementsDelivery`, `EveryOrderStored`, `ConvergesWithoutOverlap`, `SharedFate`,
`StopsInTheEnd`, `StartEnds`, `EveryRequestLogged`), since the prover has no rules
for fairness and ENABLED. Every invariant and every action property the runs check is
also a theorem. Of the liveness properties the safe part is proved where it says most:

| Liveness | Proved of it | Left to TLC |
|---|---|---|
| `Converges`, `ConvergesWithoutOverlap` | a topic worked off means the last versions (`EndsWithLatest`, `GroupEndsWithLatest`); until then a step is possible (`TopicGoesOn`, `GroupGoesOn`) | that what is possible is done, and that it ends |
| `EveryOrderStored` | as long as a valid order is not stored somebody can go on (`GroupGoesOn`) | the same |
| `ImplementsDelivery` | each step is one of the contract (`ImplementsContract`) | the progress of the contract |
| `EveryRequestLogged` | until the request is logged a scheduled step is possible (`RequestsGoOn`), and there are nine at most (`RequestsAreFinite`) | that what is possible is done |
| `SavesFinish` | a client or a session can go on (`SavesGoOn`), with one session at least | the same |
| `StopsInTheEnd`, `SharedFate`, `StartEnds` | somebody can go on (`StopsAreNeverStuck`), phases and attempts are bounded (`RunsGoForward`) | the same |

"Can go on" is stated by the guards (`ClientCanGoOn`, `HandlerCanGoOn`,
`StartCanGoOn` and the like), written out beside the theorems since ENABLED is out of
the prover's reach.

## 6. Plan

Done: the cache, the service, the consumer, the pipeline and its contract, the
repository and its store, several instances, the lifecycle with its settings, the
request; with proofs of the safety of each.

Left, the most important first:

1. The two ways of `date_created` to a response: as the message had it, or as Postgres
   rounded it.
2. The sequence of pauses of the consumer, with the first one above its ceiling.
3. Proofs: a measure of the steps from a cancellation to the exit, and of those of a
   message from its fetch to its commit, as `RequestsAreFinite` has one for a request.

## 7. Not modelled

* **Logger**: formats lines, and its errors end in `config.Load`, which is modelled.
* **Frontend** (`static/app.js`): runs in the browser and shares no state with the
  service. Overlapping searches are listed as a hazard.
* **Exercise 1.1** (`src/Модуль_1`): a separate exercise in struct embedding.
* **Migrations**: `Migrate` is one query that succeeds or fails; what it runs is
  inside the goose library, behind its session lock.
* **Validation**: which tags make a message invalid is data of one message, apart
  from the length of the uid, which the handler repeats.
* **net/http**: the timeouts of reading and writing a connection, keep-alive, and a
  panic after the time limit, which `TimeoutHandler` keeps to itself.
* **Request identifiers, headers, JSON**: names and layout.
* **Deployment**: the order in which compose brings up its containers; the restart
  policy is an assumption of fairness.

`PROJECT.json` has the reasons per component and per hazard.
