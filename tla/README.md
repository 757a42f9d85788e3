# TLA+ verification of egl-utils-go

egl-utils-go is a library of small, independent Go packages for services
(`src/pkg/*`), an example service that wires them together
(`src/examples/service`) and two contributed health probes (`src/contrib`).
Most of what can go wrong in it is concurrency: goroutines that meet in a mutex,
a channel, a context or a deadline. This directory models those packages in
TLA+, checks the models with TLC on small instances, and proves the central
safety properties with TLAPS for every size.

`PROJECT.json` lists components, runs, mutants, the map from definitions to
source lines, findings, hazards and theorems.

## 1. Inventory

### 1.1 Components, their state and operations

| Component | State | Operations that change it | Hard part |
|---|---|---|---|
| circuitbreaker | state, generation, failures, successes, inFlight, openedAt under one mutex | `Do` (= `admit`, the function, `record`), lazy time transition | outcomes that arrive after the breaker moved on; the probe budget under concurrency |
| workerpool | queue channel, closed flag under an RWMutex, execution context, WaitGroup | `Submit` (blocking or not), `Close(ctx)`, the worker loop, panic policy | closing a channel with senders about; drain against deadline |
| pubsub | registry of subscriptions, closed flag under an RWMutex, one channel and one context watcher per subscription | `Publish`, `deliver` (three policies), `Subscribe`, `remove`, `Close`, context callbacks | three parties close channels; DropOldest's three-step window |
| lifecycle | hooks, started, finished, result, triggered | `Register`, `Trigger`, `Shutdown`, `WaitForSignals` | concurrent shutdowns, late registration, failing hooks, the deadline |
| examples/service | a coordinator, a worker pool, an HTTP server, a recorder, a limiter | request handling, shutdown hooks | server and pool drain inside one deadline; what a panic does to the chain |
| ratelimit | tokens (may go into debt), last, under a mutex | `Allow`, `Wait`, the middleware | reservations repaid by cancelled waiters behind whom others have reserved |
| cache | sharded maps with deadlines, a sweeper goroutine | `Set`, `Get`, `Delete`, sweep, `Close` | clock reads outside the lock |
| retry | none (one loop per call) | `Backoff` | cancellation during a wait; overflow in the backoff |
| fanin, fanout | per call: goroutines and channels | merge, distribute | cancellation with a value in hand |
| metrics | series with atomic counters behind an RWMutex | observe, scrape | a snapshot that is not atomic; series creation race |
| health | per request: one goroutine per probe | handler | panics off the request goroutine |
| db | one transaction per call | `Transaction` | every way out of the callback; a commit whose reply is lost |
| semaphore | held by golang.org/x/sync | `Acquire`, `TryAcquire`, `Release` | external |
| middleware | per request | Recoverer, Logger, RequestID, CORS | order of the chain when a handler panics |
| config, env, validator, hash, errx, logger, syncpool | none, or a `sync.Pool` | pure or sequential functions | none that interleaves |
| contrib probes, tools | none | one ping each; Python linters | pure I/O, not part of the library |

### 1.2 Interactions

The packages do not call each other except where the service composes them:
`lifecycle` calls the hooks it was given (`pool.Close`, `server.Shutdown`) with
the context of the call that runs them; HTTP handlers submit to the pool;
`metrics`, `ratelimit` and `middleware` wrap the handlers. Everything else meets
its environment through three Go mechanisms that the models make explicit:

* **`sync.RWMutex`.** Readers and writers exclude each other, and a writer that
  waits keeps new readers out. The worker pool holds the read lock *while it
  blocks* on a channel; this makes lock waiting part of its behaviour, so
  `WorkerPool` has the waiting writer as a state. In `PubSub` no reader blocks,
  and a write section is one step that needs the readers gone.
* **Channels.** Buffered contents are a sequence; a parked receiver is explicit
  where a capacity of 0 needs one; a send on a closed channel or a second close
  sets `fault`, after which the process takes no further step.
* **Contexts.** A set of calls or subscriptions whose context is done; any member
  may join it at any moment. `context.AfterFunc` is a per-subscription watcher
  that is armed, fired, stopped or has run.

### 1.3 What makes each component correct

* circuitbreaker: outcomes count only in the episode that admitted the call;
  at most the needed number of probes is out; the breaker trips on consecutive
  failures and nothing else; it recovers.
* workerpool: closing is race-free; an accepted task runs exactly once; a nil
  `Close` means drained; nobody waits for ever; the deadline is honoured.
* pubsub: no channel panic; each offered message is delivered or reported once
  and in order; a cancelled subscription is closed; `Publish` never waits.
* lifecycle: hooks run once, in reverse order, all of them; all callers get the
  same result; triggers are not lost; the timeout bounds the shutdown.
* ratelimit: tokens are conserved whoever cancels; a waiter sleeps until its token
  is funded; what a window of time admits is bounded.
* cache: no expired value is returned, the sweeper never removes a live one and
  goes on until `Close`.
* retry and db: the attempt budget is exact, delays double to the cap, nil means one
  confirmed commit, no transaction stays open.
* fanin and fanout: each value is delivered once and in order within its lane; no
  forwarder is left behind.
* metrics: no observation is lost; a scrape is a monotone histogram.
* service: no order meets a closed pool, a clean stop is complete, log and metrics
  say what the client saw, a request to stop ends the process.

## 2. Modules

| Module | What it is |
|---|---|
| `BreakerContract` | abstract specification of the circuit breaker: episodes, the outcomes each has recorded, live and stale calls; no counters, no generation |
| `CircuitBreaker` | `Breaker` as implemented, and the refinement mapping to `BreakerContract` |
| `WorkerPool` | `Pool`, its RWMutex, workers, tasks and contexts |
| `PubSub` | `Broker`, publishers, subscribers, context watchers |
| `Lifecycle` | `coordinator`, callers of `Shutdown` and `WaitForSignals`, hooks |
| `RateLimiter` | `Limiter`: `Allow`, `Wait` with reservation, sleep and repayment, in fractional tokens |
| `Cache` | `Cache`: `Set`, `Get`, `Delete`, `Close`, ticker and sweeper |
| `Transaction` | `db.Transaction` over database/sql: the steps of one call, without a specification of its own |
| `Retry` | `retry.Backoff` around `Transaction` |
| `Pipeline` | `fanout.Split` feeding `fanin.Merge` |
| `Metrics` | `Recorder`: observations atomic by atomic, and scrapes |
| `Middleware` | the HTTP middleware as operators on the outcome of the wrapped handler |
| `Service` | the example service: instances of `WorkerPool` and `Lifecycle`, the chain of `Middleware`, the HTTP server |
| `MC*` | instances for TLC, with the `.cfg` files named after the run |
| `*Proofs` | TLAPS theorems about the modules they extend: `ResilienceProofs` about `CircuitBreaker` and `Retry`, `DataProofs` about `Pipeline` and `Cache`, the others about the module they are named after |

Operators called `Bug_...` stand directly before the definition they vary; each is
a plausible mistake in that line of code, and `PROJECT.json` names the property
that catches it.

### 2.1 CircuitBreaker

State: the struct's fields (`openedAt` as `elapsed`, the ticks since the breaker
opened, capped at the timeout), each caller's place in `Do` and its local `gen`.
`admit` and `record` hold the mutex from end to end, so each outcome of either is
one action: `AdmitClosed`, `AdmitProbe`, `AdmitFirstProbe` (the lazy transition
followed by the budget check), `AdmitRefused`, `DoCanceled`; `RecordDiscarded`,
`RecordSuccessClosed`, `RecordFailureClosed`, `RecordSuccessProbe`,
`RecordFailureProbe`. A panicking function is recorded as a failure, as in the
deferred call of `Do`. `outcomes` is auxiliary: it exists for the refinement.
`uint64` wrap-around of the generation is not modelled (it would take 2^64
transitions within one outstanding call).

### 2.2 WorkerPool

A task stands for itself and for its `Submit` call. `SubmitCalled` is the call on
its way to `RLock`; `SubmitRLock` takes the lock and tests `closed`; then one of the
select cases: `SubmitSend` (hand-off to a parked worker or into the buffer)
or `SubmitRefused` (`default` or `ctx.Done`). `Close` is `CloseLock` (waiting for the write
lock, which keeps readers out), `CloseQueue` (the critical section), then
`CloseDrained` or `CloseExpired`; both cancel the execution context. Workers take,
park, exit; tasks return or panic. `LongTasks` return only once the execution
context is canceled, the behaviour the package asks of tasks. The helper goroutine
of `Close` only waits for the WaitGroup and is folded into `AllExited`.

### 2.3 PubSub

One topic: topics share the lock and the closed flag, and nothing else. The
options (`bufSize`, `policy`) are chosen in `Init`, as `NewBroker` does. `Publish`
takes the read lock and fixes the targets; each target is then served in any order
(Go's map iteration) by `DeliverSend`, `DeliverDrop`, or under DropOldest by
`DeliverFull`, `DeliverEvict`, `DeliverResend`, with subscribers and other
publishers acting in between; `PublishUnlock` and `PublishDisconnect` follow.
`WatcherRuns` is the context callback. `fate` is auxiliary: what became of each
message per subscription.

### 2.4 Lifecycle

`register` and the test of `started` in `shutdown` are single steps under the
mutex. The call that wins runs `HookStarts`, then `HookSucceeds`, `HookFails` or
`HookPanics` for each hook from the last index down, then writes the result and,
as a step of its own, closes `finished`. Others go to `joining`. A waiter enters,
is woken by a signal or by the latched trigger, gets its deadline, and calls
shutdown. `LongHooks` return only once the context they were given is done.

### 2.5 RateLimiter

A token is `One` units and a nanosecond of the clock adds `Rate` of them, so that
fractions of a token, the debt of a reservation and the ceiling in the sleep are
kept. The rounding error of float64 is not, nor is the range of a `Duration`: at
`ratelimit.go:96` a shortfall that takes more than 292 years to repay overflows the
conversion, and `wait` (`d <= 0`, lines 123-125) returns at once. In the model the
sleep of a shortfall is never 0, so that branch is not taken. The sections under the mutex, the
refill of `advance` included, are one step. `WaitReserves` computes the sleep,
`TimerStarts` creates the timer at any later instant, `WaitFunded` and `WaitRepaid`
are the cases of the select. `log`, `repaid` and `spilled` are auxiliary.

### 2.6 Cache

`Set` reads the clock (`SetStamps`) and stores later (`SetStores`); `Get` reads the
entry (`GetReads`) and the clock later (`GetJudges`). The sweeper selects
(`SweeperExits` or `SweepStarts`, which reads the clock), then takes the shards one by
one (`SweepShard`). Instants are relative to the clock (`left`, `age`), which keeps the
state space finite without a last instant; the ticker's channel holds one tick.

### 2.7 Retry and Transaction

`Retry` is the composition ADR-0022 names: `Backoff` calling `Transaction`. A
`Duration` is an integer from `-Half` to `Half - 1` (`Half` is 2^63 in Go) that wraps; `jittered` yields the set of possible delays,
for a float that does not fit both conversions Go's ports make. `PolicyAssumption` is
`mustBeValid` (`retry.go:78-89`) but for `Jitter`: the model has quarters, and NaN, which
passes the comparisons of line 86, is left out. `Transaction` has
every way out of `fn`: a nil, an error, a panic, `runtime.Goexit`, and an `fn` that
finalises the `*sql.Tx` itself. database/sql is external and modelled by what db.go
relies on: Commit refused on an ended context, `ErrTxDone`, the rollback database/sql
does itself when the context ends, a driver error with or without effect. `commits`
and `unseen` are auxiliary.

### 2.8 Pipeline

Every channel is unbuffered, so a send and its receive are one step: `SplitTakes`
(source to splitter), `LanePasses` (splitter to merger), `MergeSends` (merger to
consumer). `ExitsOnClose` and `ExitsOnCancel` serve the forwarders of both halves,
whose loops are alike; `OutCloses` is Merge's waiting goroutine.

### 2.9 Metrics

`Served` is the return of the handler; `observe` and `newSeries` are the two lookups;
`AddBucket`, `LoadSum`, `SwapSum` or `SwapFails`, `AddCount` are the atomics in program
order. A scrape copies the registry (`ScrapeStarts`), loads sum, count and each bucket
one by one (`ScrapeLoads`) and serves (`ScrapeServes`).

### 2.10 Middleware and Service

A middleware maps the outcome of its handler (status, how it ended, headers, what was
recorded) to its own; `Chain` composes them as `service.handler` does. `Service` adds
who meets whom: `main` registers the hooks and waits, the listener serves or fails,
requests and readiness probes submit to the pool, the hooks run under one grace
period. The actions of `WorkerPool` and `Lifecycle` are taken through `INSTANCE`, with
the pool non-blocking and `main` the only caller. The limiter is a free choice of
`Shed`. The mux routes `POST /orders` only (`Routed`): another path is a 404 and another
method on that path a 405, an `OPTIONS` that Cors does not take for a preflight because it
has no `Origin` among them. Requests, tasks and probes that panic or hang are faults of the environment:
the service's own handler and probe do not panic by themselves.

## 3. Runs

| Run | Instance | Shows |
|---|---|---|
| `MCCircuitBreaker` | 4 callers, thresholds 2, timeout 2 | budget, orphaned outcomes, observer, refinement, recovery |
| `MCWorkerPool` | 3 blocking Submits, 1 worker, queue 1, 2 Closes, every context cancellable, one panicking task, one that waits for the hard stop | race-free close, tasks run once, drain, hard stop, termination |
| `MCWorkerPoolDeadline` | blocking, a long task | **violation**: `Close` can miss its deadline |
| `MCPubSub` | all policies, buffers 0 and 2, 2 subscriptions (one filtered), 2 publishers of 2, cancellation, Close | one fate per message, order, loss reported, no channel panic, registry in step with channels and watchers, prompt closing, `Publish` returns |
| `MCLifecycle` | 2 hooks (one may panic, one waits for its deadline), 1 direct call, 2 waiters | order, one result, no forgotten hook, termination |
| `MCLifecycleTimeout` | a direct call without deadline and a waiter | **violation**: the waiter's timeout does not bound the shutdown |
| `MCService` | 2 requests in 3 mixes of orders, preflights, other methods and unknown routes, 1 probe, 1 worker, queue 1 | no order meets the closed pool, clean stop, log and metrics agree, ids, termination |
| `MCRateLimiter` | 5 calls, burst 1, 3 units a token and 2 a tick, 2 ticks | conservation, funded sleeps, rate, order |
| `MCCache` | 1 writer, 1 reader, 2 keys in 2 shards, TTL 2, sweeps as long as the interval | honest Get, no live entry lost, reclaiming, Close |
| `MCMetrics` | 3 requests on one key, 2 scrapes | no lost observation, +Inf covers count, monotone scrapes |
| `MCRetry` | 5-bit Durations, 1 or 4 attempts, every base delay under 3 caps, 3 jitters | commits accounted, nothing left open, exponential delay, budget |
| `MCPipeline` | 2 lanes, 4 values, both contexts | delivered once, lane order, complete close, no leak |

### 3.1 Bounds

* `MaxGeneration` (8): the dependency fails only while the generation is below it.
  Closed, open, half-open, open, half-open, closed and a second trip fit, so a call
  can outlive two full cycles. The breaker itself is never bounded.
* Four callers: two probes, a stale closed call and a stale probe at once.
* Three tasks with one worker and a queue of one: one runs, one is queued, one
  Submit is blocked when `Close` comes; two Closes: one may expire while the other
  drains. The non-blocking pool is the one inside `Service`; a pool without queue, more
  workers and a panic without handler are covered by the theorems, which hold for all
  of them.
* `PerPub` (2), with a buffer of two: a channel holds two messages of one publisher, or
  one of each, when a third comes, so that order within it matters; and the slot that a
  `deliver` has evicted is refilled by the other publisher, or the channel drained by
  the subscriber, before it sends again. Buffers of other sizes are covered by the
  theorems.
* Two hooks, three callers: a winner, a joiner, and a caller that comes when all is
  over.
* Five calls of the limiter: two that cancel, one ahead of them, two behind, which is
  the least in which repayments reorder service. A token takes a tick and a half, so
  sleeps are rounded.
* `Half` (16): doubling overflows within four attempts, and the jittered delay does not
  fit for the larger half of the base delays.
* `MaxValues` (4): each of the four forwarders can hold one.
* Three requests on one series: two that race for its creation and its sum and a third
  that finds it; two scrapes to compare.
* In `Service` the third task finds one running and one queued.
* Deadlock checking is off where calls are finite in number and the system simply comes
  to rest; `MCCache` runs for ever and has it on.

### 3.2 Fairness

Weak fairness of goroutine steps only: a goroutine that can proceed does (Go's
scheduler), a ready select case is taken, a started timer fires. No fairness is
assumed for the environment: nobody need call, cancel, signal, fail or panic.
`CircuitBreaker` also assumes that somebody keeps calling (recovery is lazy and
happens in `admit`) and that guarded functions return. In `PubSub` weak fairness of
`WatcherRuns` stands for the RWMutex's preference for waiting writers; the number of
publishes is finite. `Cache` has strong fairness of `SweeperExits`: a select with two
ready cases chooses at random, so it cannot take the tick for ever. In `Service` the
requests and the tasks have no fairness at all: the stop must not depend on them. In
`Pipeline` a consumer that reads goes on reading; the source need not send or close.

### 3.3 What the violations say

* **`Close` and its deadline** (`workerpool.go:128`). A blocking `Submit` holds the
  read lock while it waits for queue space. `Close` must first get the write lock
  and looks at its context only afterwards. With workers on tasks that end only on
  the hard stop, and a Submit blocked on the full queue, `Close` waits past its
  deadline and the hard stop never comes. The comments say it honours its context
  as a deadline. A `Submit` that arrives meanwhile waits in `RLock` and ignores its
  own context too. The non-blocking pool does not have this (`StopRequestStops` of
  `Service` depends on it).
* **Shutdown timeout** (`lifecycle.go:191`). A `WaitForSignals` that finds a
  `Shutdown` running joins it and drops its own deadline.

### 3.4 Other disagreements met while modelling

Where a comment or a design record says more than the code does, the property states
what the code does keep, and the comment of the property names the exception.

* ADR-0012:80-82, "admissions over any window obey `admitted <= burst + rate * elapsed`
  (the token-bucket law)": not once reservations are repaid (`ratelimit.go:100`). A
  `Wait` that is canceled gives its token back when others already sleep behind it; they
  keep the instants they were given, and the next to arrive is given the one in front.
  One repayment is enough to fund two calls at one instant with a burst of one.
  `RateHolds` is the bound that does hold: the law plus the reservations repaid between
  the arrivals of the first and the last call of the window, and so the law itself for
  every window without such a repayment.
* `ratelimit.go:79-80` and ADR-0012:83, "served in the order they arrive": in the same way
  a later call is served before an earlier one, but only after two repayments between
  their arrivals (`ServedInOrder`).
* `metrics.go:80-81`, "for every request": the recorder observes after the handler and not
  deferred (line 95), so one that panics is not counted. `RecordsAgree` claims nothing of
  panicking handlers but that they have their log line, with the client's id.
* `recoverer.go:28-30` and `logger.go:21-22` ask for Recoverer inside Logger, "so the outer
  middleware observe the recovered 500"; the service has it outside (`service.go:154`), so
  such a panic is logged with status 200 where the client got a 500 (`RecordsAgree`), and
  the panic line has no request id.
* `exposition.go:81-83`, a count "behind the buckets and the sum, never ahead of them":
  `collect` loads the sum before the count (line 151), so the count may be ahead of the
  sum; that it is behind the buckets holds (`ScrapeMonotone`).
* ADR-0022:68-69, "never leaked open: every path out of `fn` commits or rolls back": an
  `fn` that calls `runtime.Goexit` leaves the transaction open, since `recover` returns nil
  (`NoTxLeftOpen`).
* `cache.go:154`: a key that is refreshed before its deadline and live at every moment
  can be reported absent, when the refresh falls between Get's two steps
  (`GetIsHonest`).
* `main.go:119-120`, "the pool is drained": only when no hook failed (`StoppedClean`).
* `retry.go:107` calls the negative branch theoretical; on amd64 a jittered delay that
  does not fit becomes an immediate retry (`DelaysKeepPolicy`).
* `fanout.go:7-8`, every forwarder exits when the input closes: not one whose lane was
  abandoned by a `Merge` canceled alone (`NothingLeaks`).
* `options.go:39-40` of pubsub, "receives nothing further": between fan-out and `remove`
  a second publisher can get one more message through to a subscriber that drains. No
  message loses its single fate (`ExactlyOnce`).

Two more have no property, since nothing is left of the claim but the assignments
themselves; the model shows the code's behaviour:

* `service.go:124-125`, "a panicking probe must not take the process down": the check runs
  on a goroutine of its own (`health.go:105`), where the Recoverer of the handler is no
  help, and the process ends (`ProbePanics`). The stop properties hold with this crash.
* ADR-0017:53 and 88-89, "cache-safe": the actual response to an origin that is not allowed
  has no `Vary` (`cors.go:184`, `actual` of `Middleware`), so a cache may serve it to one
  that is. Preflights always vary.

## 4. Proofs

All theorems hold for every value of the constants under the assumptions named in
the modules (the option checks of the constructors, finiteness of the caller set
for cardinalities, model values distinct from the state names). `Retry` and
`Cache` name their specifications `BackoffSpec` and `CacheSpec`, so that each shares a
proof module with another component.

* **ResilienceProofs, the breaker.** The inductive invariant adds to `TypeOK` that a running
  call's generation is at most the current one, that half-open counters count this
  generation's probes exactly, and that no call has the generation of an open
  breaker. It is needed because a decrement of `inFlight` is only right if the
  matching call is one of the counted probes. The refinement
  `BreakerImplementsContract` adds the relation between counters and history
  (trailing failures of the last `FailureThreshold` outcomes are `failures`; the
  half-open history has length `successes`).
* **WorkerPoolProofs.** `Inv`: no reader once closed, callers past the critical
  section imply closed, exited workers imply closed and empty queue, a nil `Close`
  implies all exited, the cause of a hard stop, and `OneHome`. The key is
  `NoReaderOnceClosed`: the write lock waited for the readers and later readers see
  the flag.
* **PubSubProofs.** `NoChannelPanic` and `RegistryIsTruth`: a publisher in its
  fan-out holds only targets that are still registered, because every removal needs
  the readers gone; registered means open, so neither a send nor a close can hit a
  closed channel. `ExactlyOnce` and `InOrder` rest on a second invariant, `DataInv`:
  what a fan-out has still to visit has no fate yet (`StillOffered`), a message without
  a fate is one its publisher is at, and the fate "buffered" belongs to exactly the
  messages in the channel (`OneFate`); no subscription has heard of a message beyond
  the last its publisher numbered (`Numbered`, `NotAhead`); the messages of a publisher
  lie in a channel in order, behind everything received from it (`Ordered`,
  `ReceivedFirst`). A parked receiver exists only on a channel without buffer
  (`Rendezvous`), so that no hand-off overtakes a buffered message. `LossTold` ties the
  error `Publish` will return to the handler calls on each of `deliver`'s paths, an
  eviction under way included.
* **LifecycleProofs.** One runner at most; its index plus the hooks that ran make up
  the frozen registry; before the start nothing ran; after `finished` the result is
  the list of failures and nobody is running. Late registration is excluded because
  nothing is appended once `started`.

* **RateLimiterProofs.** `Conservation` is carried with `TypeOK` and `OneTokenEach` (a
  call enters the log at most once, and a call that waits is in it): a repayment takes
  exactly one entry out of `Kept` only because the waiting call has exactly one.
  `DebtCovered`, `RateHolds` and `ServedInOrder` follow from `RateInv`, which compares,
  at every instant `t` to come, the level the bucket would have then (`Level(t)`, it may
  be negative) with the units of the calls funded later. The sum is never negative
  (`AllCovered`). What was taken behind a call is paid for by the bucket at the instant
  the call is funded and by what was repaid since it arrived (`Anchored`); from it, for
  the next call to arrive, comes the bound between any two arrivals, which no later step
  changes (`Paced`), and `RateHolds` is that bound for the first and the last call of the
  window, since all it funds arrived between them. At the instant of a call that still
  waits the level is less than a tick's refill plus what was repaid since it arrived
  (`NothingSpare`), which is why one repayment does not let anybody overtake it. Each action is shown to be
  one of three steps (`Flows`, `Takes`, `Repays`), and each of these to keep `RateInv`.
* **ResilienceProofs, Backoff.** The strengthening says where an open transaction can be: with the call
  that holds it, with a goroutine that is gone, or with database/sql under a done
  context; the last is why a retry, which runs only while its call is over, never
  begins over a transaction it lost. Attempts and calls of `fn` are tied together, so
  that `fn`'s error is returned only when they are used up. `DelaysKeepPolicy` holds for
  a `Duration` of any width: a delay within the cap doubles to less than the range, so
  wrap-around makes it negative and the test `doubled < d` of `next` catches exactly the
  overflow (`WrapFacts`, `NextDoubles`). That the delay is the `attempt`-th doubling needs
  powers of two, which the solvers do not know: `Power2` is a recursive function, and the
  lemmas derive its equation from the least-element principle of the natural numbers.
  `BackoffTypeCorrect` adds that an attempt commits at most once (`OneCommitEach`).
* **DataProofs, the pipeline.** `PInv` accounts for every value the source has sent: it is in
  exactly one hand, delivered or dropped (`Accounted`, `Distinct`), and only canceled
  halves drop (`DropsCanceled`). Along a lane, what was delivered is older than what the
  merger holds, which is older than what the splitter holds (`AlongLane`): `LaneOrder` is
  not inductive without it. `Orderly` says that forwarders return with empty hands,
  the output closes behind the last, and, while no context is canceled, nobody returns
  before its input has closed; from it `ClosedMeansComplete` follows.
* **DataProofs, the cache.** `CInv`: a Get between its two steps either holds the entry
  its key still has, as live as that is, or has seen its key without a live entry or
  overwritten (`Witnessed`). The clock and the sweeper act between the two reads, and
  what they take away is what `Get` must notice; `GetIsHonest` says nothing of that
  moment and is not inductive without it. `NoLiveEntryLost` needs only the types: the
  sweep compares with a clock that is never ahead, so what it takes has expired.
* **MetricsProofs.** `MInv` has two halves. `Exact`: a series holds, in its count, its
  sum and each bucket, the requests of its key that have got as far as that number. It
  rests on `Registered`: whoever wins the registration, a request past its lookup works
  on the series that is registered, so no observation lands in a loser's series; and a
  compare-and-swap that succeeds adds to the sum it loaded. `Scraped`: the exposition
  before is behind the series in every number (`Behind`), and a scrape that has made
  `n` of its loads has them no less than that exposition (`Snapped`). The count is the
  hard case: `collect` loads it before the buckets, so what keeps it under the +Inf
  bucket is that it is covered by the buckets loaded since together with those still to
  be loaded. Numbers only grow (`GrowthKeeps`), which carries this over every step of a
  request between two loads. Sums over sets are folds; `SumAdd`, `SumRises` and the
  others are derived from a least counterexample (`LeastSubset`, `LeastIndex`), and
  `Cumulated` adds the buckets up slot by slot. `RequestAssumption` (finitely many
  requests, at least one status code) is what the sums need.
* **ServiceProofs.** The service is first shown to implement `WorkerPool` and `Lifecycle`
  (`ServiceRunsWorkerPool`, `ServiceRunsLifecycle`): each of its steps is a step or a
  stutter of either, for the constants it gives them. The inductive invariants of
  `WorkerPoolProofs` and `LifecycleProofs`, taken through `INSTANCE`, are then facts about
  the service. On top of them `SInv` says how far the task of a request in each stage can
  be (`TaskStage`), that the hooks are the two `main` registered, the pool's first
  (`HooksWired`), that the server's hook leaves no request behind unless it failed, and
  that the pool is closed only by its own hook, which runs after it (`StopOrder`);
  together they keep requests from the closed pool. `StoppedClean` also
  uses the pool's own theorem that a nil `Close` has drained it. `RecordsAgree`
  comes from `Responded`: an answer is what `Chain` makes of some outcome
  of the handler, and the lemmas about `Chain` follow the outcome through each middleware.

Only model-checked: the liveness properties (fairness and ENABLED are out of the proof
system's reach here). Every safety invariant and every action property of a passing run
is also a theorem. No module with theorems uses a RECURSIVE operator.

## 5. Plan

Done: circuit breaker, worker pool, broker, lifecycle with proofs; then the service
composition, rate limiter, cache, retry and transactions, pipelines and metrics; proofs
of the limiter's conservation and of the transaction properties.

Then the proofs of delivery in `PubSub`, of `Pipeline`, of the limiter's rate and order,
of the delays of `Retry`, and of `Service` from the theorems of its parts.

Last, the proofs of `Cache` and `Metrics`, with which every safety property of a passing
run has one.

What could follow: the semaphore, if its queue were in the repository; several checks
of one health handler; and liveness, should a prover for fairness become available.

## 6. Not modelled

* Logging, formatting, JSON and the exposition's text; config, env, validator, hash,
  errx, logger, syncpool: sequential code over data or over external libraries, with no
  state between calls, which a table of tests covers as well as a model would.
* Wildcard origins and credentials in CORS; in the limiter, the rounding of float64 and
  sleeps beyond the range of a `Duration`; in `retry`, a `Jitter` that is NaN or lies
  between quarters;
  several checks of one health handler (they share one mutex around a map).
* `runtime.Goexit` in a task of the worker pool: the worker ends through its deferred
  `Done`, and when all have, `Close` returns nil over a queue that is not empty. What the
  worker pool's properties say is said of tasks that return or panic.
* Arithmetic wrap-around of uint64 counters.
* The semaphore: its queue lives in golang.org/x/sync.
* Callbacks that re-enter (a task that submits to its own full pool, a drop handler
  that calls the broker, a hook that calls `Shutdown`): the docs forbid them or leave
  them to the caller; listed as hazards.
* Contributed probes and Python tools: I/O, not part of the library.
