# Commerce: a TLA+ model, its checks and its proofs

Commerce is the reference application of the Spice framework: an HTTP service
that sells one product. This directory models its order placement, its
in-memory storage backend, its order lookup and receipts, its catalog cache,
the path of a request through the server, the life of its process and its two
verification tools; TLC checks the models on small instances, and TLAPS proves
for every instance the safety properties TLC checks and the three refinements.

Paths below are relative to the repository; `spice/` stands for
`vendor/github.com/spice-framework/spice/` and `gen/` for
`internal/spicegen/commerce/`.

## 1. Inventory

| Component | State | Operations | Used by |
|---|---|---|---|
| `orders` | `Service.nextID`; `ViewAudit.views` | `place`, `Find`, `Catalog`, `Record` | HTTP routes |
| `inventory` | `stock` per SKU | `Reserve`, `Release`, `Audit`, `VerifySKU` | `orders`, scheduler, executor |
| `payments` | `approved` authorizations | `Authorize`, `Approved` | `orders` |
| `storage` | the table `commerce_orders`, the migration registry; for `memory`: one connection with its `tx` | `Save`, `Find`, `Migrate`, `BeginTx`, `Commit`, `Rollback` | `orders`, `data.Manager`, lifecycle |
| `spice/data` `Manager` | a `sql.Tx` per call | `Within` | the placement route |
| `notifications`, mail transports | the test sender's attempts; retry attempts of a call | `SendReceipt`, `Send`, `retry.Do` | the receipt route |
| `spice/event` topic | none | `Publish` | `Service.Find` |
| `platform.Server` | listener, `serveErrors` | `Start`, `Stop` | lifecycle |
| `spice/lifecycle` `Coordinator` | `state`, `started`, `cleanups`, `stopErr` | `Abort`, `Start`, `Stop`, `Run` | generated application |
| `spice/schedule` | the audit's goroutine, first error | `Start`, `Shutdown`, `runJob` | lifecycle |
| `spice/async` | slots, `Closed`, results | `Submit`, `run`, `Shutdown` | generated application |
| generated code | wiring | construction, routes, `RunCommand` | `main` |
| `spice/cache` | map and linked list of entries, a clock reading per call | `Get`, `Put`, `Delete`, `PurgeExpired` | the catalog route |
| developer authentication, `spice/security`, `spice/web` | the principal in a request's context, the status written | `developerAuthentication`, `Guard`, `observeRequest`, `DecodeJSON` | every route |
| `spice/management` | `HTTPMetrics` per route | `BeginHTTP`, `finish`, `Report` | routes, `/management` |
| configuration | immutable once resolved | | construction |
| `internal/corecompat` | temporary modfiles and mirror, digests of the repository | `run`, `runBoundary`, `prepareBoundary`, `verifyBoundary` | `make compatibility`, CI |
| `internal/qualitygate` | temporary vendor tree and profile, the files it formats | `run`, `format`, `checkModule`, `coverage`, ... | `make verify`, CI |

**How they interact.** A `POST /orders` is decoded and validated by the
generated route, which calls `Manager.Within`; inside the transaction
`orders.Service.place` allocates a number, reserves stock, authorizes the
payment and saves the row. Only the row is transactional. Stock, approvals and
numbers are process memory guarded by three separate mutexes, and `place`
undoes a reservation by calling `Release` itself. A `GET` or a receipt reads
the row through the pool, publishes a view event synchronously and, for a
receipt, mails it. The coordinator starts migration, server and scheduler in
that order and stops them in reverse before it runs the cleanups of the
executor and the database.

**What is hard.** Requests interleave between mutex sections; a request's
context can end anywhere, and `database/sql` then rolls back on its own; the
store can fail or lose the answer to a commit; memory is lost at a restart and
the table is not; the memory backend has one connection whose `tx` field
serves whoever holds it; several goroutines stop the application, with
deadlines, while work is in flight; a mail server can take a message and its
answer can be lost. `PROJECT.json` lists each hazard at its line.

**What makes each part correct.**

- placement: stock is conserved, numbers never collide, orders are paid for
  exactly once and priced without overflow, answers agree with the table;
- storage: isolated atomic transactions over immutable rows, one migration,
  no call that never returns;
- receipts: only committed orders are revealed, every reveal is audited, one
  request never delivers twice;
- lifecycle: whatever was opened is closed once and in order, success means
  everything is released, a signal always ends the process; a ready report is
  true;
- catalog: the cache is a bounded least-recently-used cache although calls
  read the clock before they lock it, and a live response is not loaded again;
- server: no protected handler runs without the token, and the metrics account
  for every request, also one that panics;
- tools: a pass means what it says about the repository, and nothing is left
  behind silently.

## 2. Modules

| Module | Models |
|---|---|
| `OrderPlacement` | `POST /orders` across routes, `Within`, `orders`, `inventory`, `payments`, table |
| `OrderStore` | abstract specification of the storage the order service relies on |
| `MemoryStore` | the memory backend under `database/sql`, and `Migrate`; implements `OrderStore` |
| `OrderReceipts` | `GET /orders/{id}` and `POST /orders/{id}/receipt` down to SMTP |
| `CompatRunner` | `internal/corecompat`: verification against pairs of core and toolchain versions |
| `Shutdown` | abstract specification of stopping an application with several callers |
| `ApplicationLifecycle` | `RunCommand`, coordinator, server, scheduler, executor, database cleanup, readiness; implements `Shutdown` |
| `LRUCache` | abstract specification of a bounded cache in order of use |
| `MemoryCache` | `cache.Memory` with its linked list; implements `LRUCache` |
| `CatalogRoute` | `GET /catalog`, over `MemoryCache` |
| `RequestPipeline` | `NewServer`, authentication, observation, authorization, binding, response |
| `QualityGate` | `internal/qualitygate` |
| `OrderPlacementProofs`, `MemoryStoreProofs`, `OrderReceiptsProofs`, `ApplicationLifecycleProofs`, `RequestPipelineProofs`, `QualityGateProofs`, `CompatRunnerProofs` | theorems and proofs about the module each is named after |
| `MemoryCacheProofs` | theorems and proofs about `MemoryCache` and `CatalogRoute` |
| `MC*` | constants and symmetry sets for TLC |

The composition is by responsibility. `OrderPlacement` composes orders,
inventory, payments and transactions over a table that behaves as `OrderStore`;
`MemoryStore` shows that the memory backend is such a table; `OrderReceipts`
reads the rows placement commits (`CommitOrder`); `ApplicationLifecycle`
composes the coordinator with the four resources it owns. `CatalogRoute`
extends `MemoryCache`: its requests are the cache's callers. `RequestPipeline`
is what surrounds the terminals that `OrderPlacement`, `OrderReceipts` and
`CatalogRoute` detail, so a terminal there just returns, fails or panics.

Operators named `...Stale`, `...Dropped`, `...Unchecked` and so on, with a
comment "Mutant of", are deliberate faults. They are not part of any
specification; substituting one for the definition it varies must make TLC
report the property it is paired with. Every module states its types in
`TypeOK`; the runs list it where it bounds something the code could get wrong
(stock that is never negative, a full test transport), and elsewhere it is the
typing part of the inductive invariants of section 4.

### OrderPlacement

One action is one critical section. `pc[r]` walks
`begin -> place -> reserve -> authorize -> save -> commit -> done`; failures
leave through `release` (the compensation) and `rollback`. `reply[r]` is fixed
where `publicOrderError` would classify the error and is sent at `done`.

| Action | Code |
|---|---|
| `Arrive` | generated placement route, `PlaceOrderRequest.Validate` |
| `BeginTx`, `Rollback`, `Commit` | `Manager.Within` |
| `Place`, `AllocateID` | `Service.place` to `allocateID` |
| `Reserve`, `Release` | `inventory.Service` |
| `Authorize` | `payments.Service.Authorize` |
| `Save`, `Insert` | `OrderRepository.Save`, driver insert |
| `Cancel`, `AwaitDone` | request context; `database/sql`'s own rollback |
| `Restart` | a new process over the same table |

Abstractions. There is one SKU, as in the application. Numbers stand for the
IDs formatted from them (`order-%06d` is injective). `Total` wraps as a two's
complement int of `MaxInt`. A duplicate insert into an uncommitted PostgreSQL
row waits for the other transaction; the model lets it proceed to its commit,
where it fails, and `CommitNeverCollides` shows that this does not arise.
`Commit` on a done context frees the connection at once here, while
`MemoryStore` models the delay until `AwaitDone`. The incarnation in a row is
auxiliary. `StoreFaults` is FALSE and `MaxRestarts` 0 for the memory backend,
which neither fails nor survives its process.

### OrderStore and MemoryStore

`OrderStore` has a table, the set of active transactions, their pending rows
and what each client last read. `MemoryStore` has the pool's `holder`, the
connection's `connTx` and each client's `sql.Tx`. Callers begin transactions,
read and insert through the pool, or migrate; contexts end at any time. The
refinement mapping is in the module: `table <- records`,
`active <- clients whose sql.Tx is open`, `pending <- written`.

A refused driver call changes nothing and is a stuttering step of the caller.
A connection closed because of `AwaitDone` is replaced at once, so the pool
has one connection with `tx` empty again. The registry is kept as its length.

### OrderReceipts

`pc[r]` walks `find -> publish -> compose` and then `test`, or
`smtp -> session -> data` for each attempt. Rows are immutable, so an order is
its ID, and `Composable` is the set of orders that `validateReceipt` accepts
(it refuses a SKU with a character outside `[A-Za-z0-9_-]`). All SMTP stages
before the message itself are marked safe to retry and are one stage; the
transport is a setting, chosen in `Init`. `Data`
separates whether the server took the message from whether its answer arrived.

### ApplicationLifecycle

`pc` of `Main` follows `RunCommand`: construction
(`ConstructDatabase`, `ConstructExecutor`, `Constructed`, or `BeanRefused` and
`ConfigurationRefused`), `BeginStart` and `StartHook`, `running`, `MainStop`. Other
goroutines may call `Stop` from the moment the application exists. A caller
that runs the callbacks holds them in `todo` and its progress inside one in
`phase`, so that waiting for requests, the audit, tasks or Serve's result
interleaves with everything else; `expired` says whose context is done.
`Serve`, `Request`, `RunJob`, `Submit`, `RunTask` and `TasksDone` are the other
goroutines. `http.Server` is modelled by its contract: `Shutdown` closes the
listeners `Serve` registered and waits for active connections; `Serve` closes
its listener when it returns, also when it was called after `Shutdown`.
`runCallbacks` passes over a hook that has no stop callback, as migration
(`SkipHook`), so what `OrderlyStop` compares is the turns of the callbacks. It
takes the cleanups after the stop callbacks; the model takes both at once,
since nobody else can take them while the state is stopping.
`Up` is the answer of the lifecycle checks in `spice/management`; it is an
operator because a probe only reads the coordinator's state.

`Shutdown` keeps of all this a phase, the outcome of the only stop and what
each caller was told: the application ends at most once, and a caller hears of
success only after that end and only if that was its outcome. The mapping is
at the end of `ApplicationLifecycle`.

### LRUCache, MemoryCache and CatalogRoute

`LRUCache` is a sequence of entries, most recently used first, changed by one
atomic step per call. `asked` holds the call each caller is in, with its key,
value, TTL and beginning, and the step does that call and no other: `Hit` and
`Miss` answer for the key asked for, `Store` stores the value given,
`Invalidate` drops that key. A call judges expiry at some instant between its
beginning and its effect. `MemoryCache` has the map and the list as the code
has them (`head`, `tail`, `previous`, `next`), with the key in place of the
pointer to its entry, and splits every call at the mutex: `Begin` reads the
clock, and the locked section uses the reading. `PurgeExpired` visits the map
in any order and unlinks what is expired, one entry after the other
(`unlinkAll`). The mapping takes each caller's operation and arguments for what
it asked (`Asked`) and the one order of the held keys that the list links
(`Order`) for the entries. A context that is done
makes a call return before the clock is read, which changes nothing. The
counters of `Snapshot` and the observers are left out.

`CatalogRoute` runs the generated terminal: `LookUp`, `LookedUp`, `Catalog`,
`Fill`, `Filled`, with `Fail` wherever the context is looked at. Nothing
prevents two requests from loading at once, and nothing needs to: the product
is fixed when the service is constructed.

### RequestPipeline

`pc[r]` walks `observe -> guard -> bind -> terminal -> finish`, or goes
`elsewhere` for the management handler and unknown paths, which are not
observed. `form` is the first thing wrong with the request. 404, 409 and 500
stand for the problems a terminal may return. `tally` is auxiliary: it records
each outcome where it is decided, to be compared with what the shared counters
say. Only the metrics observer is modelled; the logging observer beside it has
no state. The limit on the number of observed routes is not reached by four.

### QualityGate

A mode is a sequence of steps and a step a sequence of instructions, such as
`<<"run", "vet">>`. `Subprocess`, `Look`, `Make`, `ListBatch` and `WriteBatch`
are the ways an instruction succeeds; `Fail` is how any of them fails, the
deadline included. `defects` is the set of checks that would find something.
The checks are those of `verify` itself, so a step missing from its list would
not be noticed.
That a tool finds the defect that is there is assumed; what is checked is that
the gate runs it, in the right place, over all the files, and heeds its
answer. `root` is what `repositoryRoot` found: it accepts `tools/`, whose
module path begins with the repository's, and `Present` says which
instructions succeed there. What the model takes from the formatters is that
each satisfies itself, that `goimports` may leave work for `gofumpt`, and that
`gofumpt` leaves the imports alone. The environment of the subprocesses is left
out.

### CompatRunner

The sequential runner behind `make compatibility`. One action per step of
`execute`, `run`, `runBoundary`, `prepareBoundary` and `verifyBoundary`; each
may fail. `defers` is Go's stack of deferred calls: `DeferredCleanup` and
`DeferredCompare` run on every return, while `EditModfile` and
`ApplicationMirror` clean up themselves when they fail, before their caller
has a cleanup to defer. `contract`, `goMod` and `graph` (the versions the
other modules ask for) are chosen in `Init`; versions are numbers and 0 stands
for an alias such as `latest` or an absent requirement. What is wrong with a
contract file is not told apart: `ReadContract` just fails. `repo` maps paths
to digests, and any `go list`, `download`, `vet` or `test` run in the
repository may leave any contents there; the commands run in the mirror are
taken to write only to the mirror, and a rewritten `go.mod` to change the
repository's digest but not the requirements copied into the modfile. A
removal that fails leaves its file behind with a warning, at most
`MaxLeftovers` times. A kill of the process, which runs no defers, is not
modelled.

## 3. Runs

| Run | Instance | States | Properties |
|---|---|---|---|
| `placement_postgres` | 3 requests, quantities 1 and 3, stock 3, 2 connections, faults, 1 restart | 2 589 592 | `TypeOK`, `StockAccounted`, `CommitNeverCollides`, `OrdersPaid`, `ReplyAgreesWithStore` |
| `placement_memory` | 3 requests, quantities 0, 1, 3, 13, 1 connection | 461 606 | `PricedExactly`, `RequestsAnswered` |
| `placement_stock`, `placement_payment` | 2 requests, memory | | violations, see below |
| `memory_store` | 2 clients, 2 IDs | 308 728 | `ConnectionExclusive`, `AppliedOnce`, `ImplementsOrderStore`, `CallsReturn` |
| `lifecycle` | `Main`, 1 stopper, 2 submissions, 1 slot, 2 requests | 333 358 | `StopReleasesAll`, `FailuresReported`, `OrderlyStop`, `WorkKeepsDatabase`, `NoTaskAfterDone`, `TerminalStopsAll`, `ReadinessTruthful`, `ImplementsShutdown`, `ShutdownCompletes` |
| `order_receipts` | 3 requests, 2 orders (one not composable), SMTP with 2 attempts or a test transport of capacity 2 | 569 539 | `TypeOK`, `NeverReplayed`, `ReceiptTruthful`, `OnlyCommittedRevealed`, `RevealedIsAudited`, `Answered` |
| `compat_runner` | 2 versions, 2 files, all contracts, `go.mod`s and graphs | 1 997 388 | `PairsVerified`, `ModificationReported`, `MirrorIsCommitted`, `LeftoversWarned` |
| `memory_cache` | 4 keys, capacity 3, 2 values, 2 callers, TTL 1, time 0..1 | 123 697 | `ListMatchesMap`, `ImplementsLRU` |
| `catalog_route` | 2 requests, TTL 0, 1 and 2, time 0..3 | 220 636 | `LoadOnlyWithoutLiveEntry`, `CatalogAnswered` |
| `request_pipeline` | 2 connections, 3 requests, 3 routes | 2 316 795 | `MetricsConserved`, `OutcomesCounted`, `ProtectedByToken` |
| `quality_gate` | 5 files in batches of 2, at most 1 defect and 2 formatter complaints | 561 356 | `PassMeansClean`, `PassIsAboutRepository`, `LeftoversReported` |

**Why the bounds suffice for the interesting cases.** Three requests over a
stock of three give a success, a refusal for lack of stock and a declined
payment (3 * 5 > 10) in every overlap; one restart makes numbers repeat; with
`MaxInt` 31 a quantity of 13 at price 5 wraps to a total of 1, which the
payment policy would approve. Two clients are enough for one to use the
connection another gave up. `Main` and one stopper take turns at running the
callbacks and waiting for them; more waiters would all watch the same closed
channel and share nothing else. Two submissions and one slot
leave one waiting for the slot while admission closes. Three receipts against a
capacity of two reach the limit. Deadlock checking is off where the system may
stop: when all requests are answered or the process has ended; `MemoryStore`
never stops and is checked, and `CompatRunner` stops only in `Exited`, so
deadlock checking shows that no step of it is stuck. Two versions make a pair
differ in one module, in both or in none, and let the graph raise a
requirement; one committed and one vendored file with two digests give a
changed, a removed, an added and a replaced file. A cache of three has an
entry with two neighbours to unlink, and a fourth key evicts; a clock of two
instants lets an entry of TTL 1 expire between a reading and its use. Route
`receipt` differs from `place` only in its scope and is left out of
`request_pipeline`. Five files in batches of two end in a partial batch.
Defects do not interact, since the gate stops at the first, so one at a time
is enough. Both of these runs have deadlock checking off: the requests are
used up, or the command has exited.

**Fairness.** `OrderPlacement` and `OrderReceipts`: weak fairness on each
request's own steps, since a runnable goroutine runs and an SMTP attempt is
bounded by its timeout; outcomes are not constrained, and clients need not
arrive or cancel. `MemoryStore`: weak fairness on steps that finish a call;
strong fairness on acquiring the connection, which `database/sql` hands to a
waiting request as it is returned, and on the mutex, which a starved waiter is
handed. `ApplicationLifecycle`: weak fairness on the goroutines of the
coordinator's callers, `Serve` and the end of the tasks, and on the deadline of
`Main`'s shutdown context, whose timeout the constructor requires to be
positive. Handlers, audits and tasks are given no fairness: they may run for
ever. `CatalogRoute`: weak fairness on each handler's own steps, since no
lock is held across a blocking call; clients need not come or cancel, and time
need not pass.

### Where the code and its comments disagree

- `placement_stock`: `orders/service.go:23` calls placement "one compensated
  operation" and `README.md:8` speaks of "compensated reservations". `place`
  compensates a failed authorization and a failed save. It cannot see the
  commit, which happens after it returned: if the context ends before it, the
  client gets an error, there is no row, and the stock stays reserved until
  the process restarts.
- `placement_payment`: `orders/errors.go:8` says `ErrOrderRejected` reports a
  rejection "after compensation". When `Save` fails the stock is released and
  the approved authorization remains; `Processor` has no operation to void it.

`StockAccounted` and `OrdersPaid` state what does hold: the units such a
request keeps are exactly its own, and every row that exists is paid for.

## 4. Proofs

All theorems hold for every value of the constants that satisfies the modules'
`ASSUME`s: the checks of the constructors (limits, capacities and attempts are
positive, times to live are not negative, stock and prices are in the range of
Go's int), that a value standing for "none" is none of the others (`NoneAssumption`,
`NoOrder`, `Nil`, `Nothing`), and that the sets a run draws from are finite
where the proof counts them. TLC evaluates all of them. The abstractions of
section 2 are the other assumption.

**`OrderPlacementProofs`.** `StockAccounted` and the others are not inductive:
that a request may release `qty[r]` needs to know that it took it, that a
number is new needs to know that every number in use is at most `nextID`. The
inductive invariant is a conjunction of layers, each proved preserved on its
own from the ones before it:

- `Typed`: the type invariant, and that a quantity past validation is positive;
- `Numbered`: the numbers allocated in an incarnation are at most `nextID` and
  distinct, and a request in flight belongs to the current incarnation;
- `Authorized`: a request holding an authorization is the one its entry in
  `approved` names, for its total;
- `Stored`: staged and committed rows are the records of the requests that
  wrote them, a staged row's number is not in the table, and a request told
  "created" has its row there;
- `Ledger`: the running sums of units taken, which a step that changes one
  request's share shifts from that request on;
- `Bounded`: a request past `Reserve` holds no more than the initial stock,
  so its total is exact when the initial stock can be priced.

From `Invariance` follow `TypeCorrect`, `StockIsAccounted`,
`CommitsDoNotCollide`, `OrdersArePaid`, `RepliesAgreeWithStore` and
`OrdersArePricedExactly`.

**`MemoryStoreProofs`.** `IInv` adds to `TypeOK` and `ConnectionExclusive`:
`TxWhereBegun` (a transaction is open only where the control flow began one),
`WrittenInTx` (rows are pending only in an open transaction), `RowsHold` (open rows hold the connection), `MutexHeld` (whoever is
inside the migration owns the mutex) and `ApplyOnEmpty` (whoever applies has
seen, and still has, an empty registry). `MigrationAppliedOnce` and
`ConnectionIsExclusive` follow. `MemoryStoreImplementsOrderStore` is a step
simulation: `StepRefines` maps every step under `IInv` to a step of
`OrderStore` or a stutter. The delicate case is a pool read or insert, which
goes through `connTx` in the code and must not in the abstraction:
`ConnectionExclusive` makes the two agree.

**`OrderReceiptsProofs`.** `Truth` adds to `TypeOK` what the request counts:
`AttemptsLeft` (an attempt is under way only while one is left),
`AnsweredOnce` (a request has its reply when it is done and not before),
`DeliveredOnce` (the mail server has at most one message of a request, which is
over then) and `FoundCommitted` (whatever is past `Find` works on a committed
row). It gives
`NoReceiptReplayed`, `AnswersAreTruthful` and `NothingUncommittedRevealed`.
`RevealedIsAudited` is not inductive: between the publication and the answer a
request has been counted and has revealed nothing. `Audited` counts the
requests `Publish` let through instead of those that answered.

**`ApplicationLifecycleProofs`.** Construction and start arm callbacks one by
one, always in the same order, and whoever stops the application runs them
backwards. So the callbacks armed, or taken and not yet run, are the first `n`
of `Arming`. `Lifecycle(n, p)` states every resource as a function of `n` and
of the point `p` that the callback being run has reached: `Armed`, `Left`,
`DatabaseAt`, `ExecutorAt`, `ServerAt`, `SchedulerAt`, `RanAt` and `CallersAt`;
`Inv` says that some `n` and `p` fit. An action of a resource keeps both, an action
of the coordinator moves one of them. All seven invariants of the run follow
from `Inv`, and `EndsOnce` shows by step simulation that every step is a step
of `Shutdown` or a stutter.

**`RequestPipelineProofs`.** `Access` is `TypeOK`, `Staged` (where a request
is tells what it has done), `Authenticated` (a principal comes from the token
of a server that listens on the loopback interface only) and `Guarded` (past
`Guard` a protected route has a principal); `OrdersAreProtected` follows. `Counted` says
that only finitely many requests are observed and both conservation laws
together. Each law equates a counter with the size of a set of requests, so
the proof is that one step moves one request into or out of each set, or none.

**`QualityGateProofs`.** `Inv` speaks of the rest of the program: `Sought`
(every defect has its check ahead), `Foreign` (outside the repository a step
ahead cannot succeed), `Formatting` and `Batched` (a formatter is still to list
what it complains of, and the batches that are done have found it), `Removing`
(each temporary file is to be removed, was warned of, or the gate fails). That
it holds at the start is a set of lemmas about the seven programs; that it
ends well needs that the batches of `BatchSize` cover all of `FileCount` files.

**`CompatRunnerProofs`.** `Safe` is `Types` with `Counted` (how many names of
temporary files are drawn), `Stacked` (which stack of deferred calls belongs to each point of
`runBoundary` and `verifyBoundary`), `Disk` (a file on disk is warned of, owned
by a deferred call or about to be) and `Kept` (the repository is as it was, or
the difference is reported). `Progress` needs `Safe`: `Agreed`, `Accounted`
(every pair asked for is verified, to do or under way), `Staged` (which checks
have passed for the pair under way) and `Judged` (the mirrors that were
verified are those of the repository as it was).

**`MemoryCacheProofs`.** The held keys stand in some sequence that the list
links (`Holds`): no key twice, `head` first, `tail` last, `previous` and `next`
its neighbours, and no longer than the capacity. Each list operation is an
operation on that sequence: `insertFront` puts a key before it, `unlink` takes
one out, `moveToFront` does both, `unlinkAll` keeps a subsequence. That the
sequence is unique, and `unlinkAll` itself, need an induction; it is made by
the least counterexample, whose existence the lemma `Least` gets from the library's
minimum principle for well-founded relations. `CacheInv` adds `Calls`, that no
reading of the clock lies in the future. `Refinement` maps every locked
section to the step of `LRUCache` that was asked for, on its key; the delicate case is `PurgeExpired`, whose
selection of positions by rank has to be the subsequence the list is left
with. `RouteInv` adds where each catalog request is (`Requests`), and gives
`CatalogLoadedOnlyWhenNeeded` and the safety half of `CatalogAnswered`,
`OnlyCancelledRequestsFail`.

**Only model-checked.** The liveness properties `RequestsAnswered`,
`CallsReturn`, `ShutdownCompletes`, `Answered` and `CatalogAnswered`: they rest
on fairness, whose proof needs ENABLED, which the proof system cannot treat.
The two violations are traces TLC finds. Every other property of a run is a
theorem above.

## 5. Not modelled

- the cache's statistics and observers, lifecycle and authorization observers,
  and the management endpoints other than health and metrics: they report and
  change nothing;
- body limits, header and JSON parsing: an outcome of `Bind`;
- configuration resolution: sequential, finished before any component exists;
- SQL, `pgx`, the PostgreSQL starter's migration lock: outside the repository's
  own code;
- MIME, TLS, back-off times, log and error texts;
- panics inside `Within`, the executor and the scheduler, which convert them to
  errors or pass them on (a panic of a handler is in `RequestPipeline`);
- the executor's list of results, which grows with every submission and is
  bounded here by the number of submissions;
- a client that repeats a receipt request: the protection is per request;
- a subprocess of the quality gate whose own children keep its output open
  after the deadline;
- `payments/offline_processor.go`, which no code calls, and the generated
  contract and settings types, which are declarations.

## 6. Plan

Every component that is modelled has its safety properties proved. What is
left:

1. Action properties from the invariants already proved: rows are immutable
   and numbers grow within an incarnation (`OrderPlacement`), a response once
   fixed is not changed (`RequestPipeline`), the coordinator's state only moves
   forward (`ApplicationLifecycle`).
2. The composition: that the table of `OrderPlacement`, with `StoreFaults`
   FALSE, takes only steps of `OrderStore`, which `MemoryStore` implements.
