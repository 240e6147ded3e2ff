# sql_exporter in TLA+

TLA+ models of [sql_exporter](https://github.com/burningalchemist/sql_exporter), a Prometheus exporter that runs SQL
queries on the databases it is configured with whenever it is scraped. The models are translated from the Go code; file
names and line numbers below are those of the repository. TLC checks them on small instances, TLAPS proves
their safety for every value of the constants.

- [The system](#the-system): its components, their state, what makes them hard and what makes them correct
- [Modules](#modules): which module models what, and how
- [Runs](#runs): what TLC checks, the bounds and the fairness
- [Proofs](#proofs)
- [Where code and documentation differ](#where-code-and-documentation-differ)
- [Not modelled](#not-modelled)
- [Plan](#plan)

## The system

A request for `/metrics` goes through the handler (`cmd/sql_exporter/promhttp.go`) to the exporter (`exporter.go`), which
collects its targets (`target.go`) concurrently; a target runs its collectors (`collector.go`) concurrently, and a
collector its queries (`query.go`). Everything they find goes through one channel back to the handler. The exporter is
one object that all requests share, and so are the targets, their database handles, the prepared statements of their
queries and the caches of their collectors. `/reload` and SIGHUP (`reload.go`) replace the targets while requests use
them.

| Component | State | Operations | Interacts by |
|---|---|---|---|
| Exporter (`exporter.go`) | `config`, `targets`, `jobFilters`, the registry with `scrape_errors_total` | `WithContext`, `Gather`, `SetJobFilters`, `FilterScrapeErrorsTotal`, `UpdateTarget`, `DropErrorMetrics` | copies of itself that share its slices; goroutines and a channel |
| Handler (`promhttp.go`) | none of its own | sets filters, gathers, filters, answers | the shared exporter, without a lock |
| Target (`target.go`, `sql.go`) | `conn`, `lastPingTime`, the lock `mu` | `Collect`, `ping`, `Close` | `mu`; reads of `conn` outside it |
| Query (`query.go`) | `conn`, `stmt` | `Collect`, `run`, `Close` | loads and stores without a lock |
| Collector (`collector.go`) | `cache`, and the channel `cacheSem` that holds its age | `Collect`, `Close` | the channel as a lock, contexts |
| Reload (`reload.go`, `main.go`) | the shared `config` | `Reload` for a target and for jobs | changes the configuration in place; closes and replaces targets |
| Configuration (`config/`) | the configuration being built, the cache of secrets | `Load` and its steps | files, the environment, secret stores |
| Ticker (`main.go`) | — | resets `scrape_errors_total` | the shared registry |
| Warmup (`warmup.go`) | the channel `done`, closed when every target is warm | fills caches at the start, answers 425 until then | targets and collectors, concurrently with reloads |
| MySQL TLS (`tls_mysql.go`) | names registered with the driver | registers a certificate once per name | process-wide maps |

What is hard about it, and what would make it correct:

- **Handles and statements.** `target.ping` opens the handle under `mu`, `Collect` reads it after the lock is released,
  and a query compares it with the one its statement was prepared on, and panics if they differ. `Close` takes all of
  them away at any point in between. *No pool may be opened twice, and none left open but in ways that are known;
  concurrent scrapes may not break one another; a handle may not change under a target that is served.*
- **Goroutines of a scrape.** Three levels of them send to one bounded channel that a fourth closes. *Nothing is sent
  after the close, no sender outlives the scrape, and it ends; every target and every query is accounted for once, in
  order, whichever of them fail.*
- **The cache.** The channel of capacity one is a lock and carries the age of the cache; contexts may close at any
  moment. *One call holds it, none loses it; no answer is older than `min_interval`, none is mixed from two runs; no
  call receives another's timeout.*
- **Requests that share an exporter.** `jobs[]` is stored in the exporter, a slice at a time, word by word. *A response
  has the jobs and the errors of its request; it is not aborted, and a failure does not look like health.*
- **Reloads** change the shared configuration first and may fail afterwards, several at once. *The targets are those of
  one file; a failed reload leaves them alone; connections of jobs that stay are kept; no SIGHUP is lost.*
- **Up and down.** A ping may be skipped, repeated, cut off by its context or held up by another's; TLS certificates are
  registered once for all. *What is told up has been reached of late; what can be reached is told up.*
- **Warmup** holds every request until the last target is warm, whatever databases do. *No request gets past it early;
  after
  the timeout none is held but by a driver; no target's collectors start in a herd.*
- **Rows** become metrics in a buffer that all of them share, by a configuration that was checked long before. *No
  accepted configuration panics; every row is told, by its own values, as different series.*
- **Loading** ranges over maps, whose order Go picks, and waits for secret stores. *Neither order nor delay decides what
  is loaded; a load ends.*

`PROJECT.json` lists the hazards at their lines, each with the properties that would catch it.

## Modules

| Module | Models | Built on |
|---|---|---|
| `TargetHandle` | a target's handle and a query's statement among scrapes and reloads | implements `PoolLedger` |
| `PoolLedger` | the abstract promise: a pool has one target, which lets it go only by closing it | |
| `CachingCollector` | `cachingCollector.Collect` | |
| `Gather` | `exporter.Gather` and the goroutines under it | |
| `MetricsHandler` | the handler of `/metrics`, job filters, scrape errors | |
| `TargetPing` | `target.ping` and `OpenConnection` in time, the registration of TLS certificates | |
| `Warmup` | warmup, the gate of `/metrics`, the deadlines of scrapes | extends `TargetPing` |
| `RowMetrics` | from the configuration of metrics and the rows of a query to samples | |
| `Reload` | `Reload`, the shared configuration and the targets | |
| `ConfigLoad` | `config.Load` | |
| `*Proofs` | theorems about the module they are named after | extend it and TLAPS |
| `MC*` | constants for TLC | extend the module |

The modules cut the system at its narrow places. `Gather` takes a collector as its queries, `CachingCollector` takes the
collector it wraps as a source of metrics; `MetricsHandler` takes a job as its targets, and what `Gather` shows of each
is what it uses; `Gather` has a row become a metric or an error, and `RowMetrics` says which; `TargetHandle` has `ping`
open a handle and answer, `TargetPing` when it does and what it answers; `Reload` replaces the targets in one step, and
`TargetHandle` has the steps of closing them among scrapes. Histories, which the code does not have, are marked as such
where they are declared. Operators marked *Mutant* are variants of the definition that follows them, with a plausible
mistake, and no specification uses them: each property fails under the mutant listed for it in `PROJECT.json`, so that
it does say something about the code.

**TargetHandle.** A scrape `s` is one goroutine in `target.Collect` with one query: `Snapshot` (the targets are copied
by `WithContext`), `PingLock`, `OpenConnection` with its two ways to fail (`OpenFails`, and `OpenAbandoned`: the context
closes and the scrape leaves, while a goroutine of its own goes on), `PingReturns`, `ReadConn` (the read of `t.conn`
outside the lock), then every load and store of `Query.run` in program order, up to `Exec` or a panic. A reload `r` is
`Build`, `ReadTargets`, `CloseLock`, `CloseStmt`, `ClearQueryConn`, `ClosePool`, `UpdateTarget`. Handles are named after
the scrape that opens them, targets after the reload that builds them. A scrape that has left (`left`) has its goroutine
still in `sql.Open`, whose pool (`SqlOpens`) is open, referred to by nobody and never closed (`orphaned`):
`PoolsAccounted` counts it as leaked, and says which other pools are. A panic in a goroutine ends the process: `Next` is
disabled by `Crashed`. The pings themselves, their number and `ping_interval` are those of `TargetPing`: they read and
write nothing of the rest.

**TargetPing.** `ping` from the lock to its verdict, for any number of callers: `PingLock`, the opening with the
registration of the certificate (`Register`, `RegisterFails`, `OpenUnregistered`) and of a DSN that the driver accepts
or not (`global.openable`, `OpenFails`), the loop over bad connections
(`PingBadConn`, `PingAnswers`, `PingFails`, `PingCanceled`, and `NoPing` when the loop has no turn), `Check` for the ping
that may be skipped. A database is up, down or hung and may change; `stale` counts the bad connections of the pool. A
pool is named by the certificate it uses, and only a pool with the certificate of its target reaches the database; `tls`
is `onceMap` and the driver's registry together. A caller has a deadline; its context is closed when that has come.
`CloseLock` and `Close` are `target.Close`, which holds `mu` from the one to the other, while statements and pool wait
for the queries that use them.

**Warmup.** A target's warmup and a scrape are callers of `TargetPing`. The warmup goes on to its collectors one by one
(`StartCollector`, `CollectorReturns`, `DelayOver`, `DelayCanceled`) and `Finish` opens the gate. `Timeout` is
`contextFor`. Time is what the properties are about, so it passes (`Tick`) only when there is nothing left that the
program would do at once (`Ready`, and `AllWarm` before the gate is open): computing takes no time, databases take any.
What ends with the context is what the code ends itself: the select in `PingDB`, the delay, the check before a
collector. A collector ends when its driver returns (`Returns`), however long after its context has closed: a driver need
not be given the context when it opens a connection (sql.go:94), and `Query.run` waits for it. `Unstuck` is the other
half: whoever is ready can in fact go on. A scrape is that of one target, since those of a request share a deadline and
nothing else; collectors with their caches and queries are one step that returns, on a pool that a reload may have closed
or be closing (`CloseTarget`, and `TargetClosed` when it is done, which takes any time too).

**RowMetrics.** The metrics of one query are checked as `LoadConfig` and `NewQuery` do; a run then goes through columns,
rows, metric families and their value columns in the order of the code (`CollectValue` is one turn of the loop of
`MetricFamily.Collect`, `CollectEnds` what follows it), with what is sent in `out`. Cells are NULL, readable as what their
column is for, or not; `dest` is the buffer that `rows.Scan` fills up to the first cell it cannot convert.

**CachingCollector.** `token` is the content of `cacheSem`, a set of at most one time; the steps of `Collect` are
actions, and `CloseContext` and `Tick` may come between any two. The wrapped collector yields values and errors of
queries, up to `MaxRows`, and the calls' channels are drained, which is what `Gather` does and shows. A run whose own
context closes (only that of a call in `Timed` does) may end at any of its metrics (`EndFresh`): those before are the
cache, dated like a whole run's. The history `size` is what a run has to tell. `collTime` is taken before the wait for
the semaphore, as in the code.

**Gather.** A program counter for `Gather`, the goroutine that closes the channel, and each target, collector and query;
a `WaitGroup` is the set of those it waits for; `chan` is the bounded channel. Sending on the closed channel sets `panic`
and ends everything. Every target may be down, every query may fail when it runs, at its columns or at each row, or be
cut off by its context. The goroutines that `PingDB` (sql.go:100) and `OpenConnection` (sql.go:70) start are not among
these: they go on after a closed context and after the scrape, but do not send on its channel; what the latter leave
open is in `TargetHandle`.

**MetricsHandler.** `jobFilters` is a slice with an array and a length that `Store` writes in either order, while other
requests copy it (`WithContext`) or read it in the shared exporter (`Unfiltered`, `Filtered`, `SiftChild`). A length that
exceeds the array reads whatever is behind it; a nil array with a length faults, and `net/http` recovers the panic.
(A reader may also see the words of a later store before those of an earlier one: one store per word is what a 64 bit
build does.) `counted` are the children of `scrape_errors_total`, which the ticker resets at any time. The request's
status follows the order of the code: errors of gathering matter only if no family at all was found.

**Reload.** `config` is one object, changed in place: collectors first, before the modes are compared, then — in the mode
of both — connections are preserved from the configuration into the new one, jobs or target assigned, targets built from
the *shared* configuration and replaced. Each of these is a step, and another reload may come between any two. Files may
fail to load, or load and fail to build. Edits of the file are the environment's, and so are SIGHUPs: `Hangup` leaves one
in the channel of `signalHandler`, `Receive` takes it and reloads once more.

**ConfigLoad.** `Parse` stands for the unmarshalling and its checks, with the environment's overrides; then collector
files one by one, required fields, names and intervals, references and secrets, in the order of the code. A loop over a
map is a step per key, in any order (`MatchName`, and `KeepLiteral`, `Cached`, `Fetch` for the targets of a job). A
reference is the set of names it matches; a collector in the file itself may lack its name (`Unset`), and `*` matches
that too. The secret stores are external: each fetch is answered with a payload of any shape (a plain string, or an
object with some of the keys) and any version (`Answers`, and the history `answers`), or not at all; `FetchFails` is an
error of the provider, at the latest that of the context after 30 seconds. A job has one `static_config`; the target is a
job with one connection, of which the environment overwrites the references, the data source name, both or neither
(`FromEnvironment`). `IsConfig` says which documents unmarshal; templates, which wrap a value in text, are left out.

## Runs

| Run | Instance | Shows |
|---|---|---|
| `target_handle` | two scrapes, two reloads, prepared statement | `PoolsAccounted`, `PanicsConfined`, `HandleStable`, `ClosedBeforeReplaced`, `PoolLedger` implemented, `AllEnd` |
| `target_panic` | two scrapes and a reload | violated: `SameHandle`, the panic of query.go:175 |
| `warmup` | two scrapes and two targets of one host, one with `enable_ping` and one with a DSN that cannot be opened, or one of the two; six configurations | `UpTellsTruth`, `HerdAvoided`, `GateOpens`, `ScrapesInTime` |
| `cache` | three calls, two with contexts that may close, interval 1, two ticks, at most two metrics a run | `OneToken`, `BoundedStaleness`, `SameAsRun`, `OwnErrors`, `RunSpacing`, `CollectEnds` |
| `cache_invalid` | as above, smaller | violated: `InvalidNotCached`, collector.go:154 |
| `gather` | two named targets, two collectors, one query of at most two rows, a channel for one metric | `CloseIsLast`, `Reports`, `GatherEnds` |
| `rows` | 480 forms of a metric and 16 pairs, five results of at most two rows | `EveryRowTold`, `SeriesDistinct` |
| `metrics` | two requests with any of the parameters of `MCMetricsHandler`, all modes | `UndisturbedAnswers`, `SomeonesJobs`, `FailuresReported` |
| `metrics_jobs` | two requests | violated: `OwnJobs`, README.md:312 |
| `reload` | SIGHUPs and a request, two jobs or a target, two edits | `TargetsConsistent`, `RequestsServed`, `AllOrNothing`, `ConnectionsKept` |
| `config` | 2160 documents, two secrets in two places, every answer a plain string or an object with any of two keys, of either of two versions | `OrderBlind`, `CollectorsResolved`, `SecretsAsWritten`, `LoadEnds` |
| `config_region` | the same documents | violated: `OwnPlace`, README.md:407 |

Each passing run also checks the type invariant of its module. What the properties mean is said where they are defined.

**Bounds.** Two scrapes and two reloads are the least in which a lock has a waiter of either kind, a target is closed by
both reloads and replaced twice, and one scrape runs what another prepared; the panic needs no more. Three calls of a
cache are a holder and two that wait, of which one gives up; two metrics have an order, and a run that ends between
them; two ticks make a cache young, old, and old again. All metrics of `cache` are values, since no guard of `Collect`
looks at the kind of one; `cache_invalid` has errors. A channel for one metric makes every sender wait; two rows are the
least that can fail in the middle. Two requests are all that a torn slice needs, with lists of no, one and two names,
one of them unknown. SIGHUPs have no bound: a failure, what follows it and a request that overlaps either are there. The
configurations of `warmup` are those at which its rules bend: two targets that warm up side by side, of which one cannot
be opened, and then one target with a ping every time, with one that may be skipped, with no limit of connections in
both its forms, no timeout, no delay, an offset that takes all the time there is; three ticks are a deadline that
passes, twice the interval, and the time after; one upset of a database is what a ping can meet. Two rows are one that
fails, and one that finds the buffer it has left; columns come missing, twice, and not asked for.
`MaxVersion`, `MaxTime`, `MaxUpsets`, `MaxRows` bound the environment, never the code.

**Deadlock.** Every run sets `CHECK_DEADLOCK FALSE`: requests, reloads and loads are finite in number and all end. That
they do end, rather than wait for one another, is a liveness property in `target_handle`, `cache`, `gather` and `config`.

**Fairness.** `TargetHandle`: weak for the steps of a process once it has begun — the driver answers or the context
closes, the scheduler runs everybody — and strong for taking `target.mu`, since `sync.Mutex` hands itself to a waiter
that has starved for a millisecond. Nothing makes a request or a reload arrive. `CachingCollector`: weak for each call
that has begun; contexts need not close. `Gather`: weak for each goroutine; a sender gets its place in the channel
because Go channels queue senders in order, and each has finitely many sends. `ConfigLoad`: weak for the loader's own
steps, among which is the failure of a fetch, as the context has a deadline; a store owes no answer. Reloads and
requests have safety properties only: they wait for nothing but what the other modules show to end. `Warmup` states its
liveness as safety: time does not pass while the program has something to do, so a gate or a scrape that is late has
waited for nothing but a driver or a lock, and the properties say for which.

## Proofs

TLAPS checks the modules below to the last leaf: every invariant and every safety property of the runs, for every value
of the constants.

| Module | Theorem | States |
|---|---|---|
| `TargetHandleProofs` | `TypeCorrect`, `NoPoolLost`, `ScrapesCompatible` and `ReplacementFollows`, together `PanicsAreConfined`, `HandleNeverChanges`, `ReplacedAreClosed` | the safety properties of `target_handle` |
| | `ImplementsLedger` | the refinement of `PoolLedger` |
| | `SteadyStateSafe`, `UnpreparedSafe` | no panic without reloads; none on the handle with `no_prepared_statement`, whatever reloads do |
| `CachingCollectorProofs` | `TypeCorrect`, `CacheLocked`, `StalenessBounded`, `AnswersAreOneRuns`, `ErrorsOwned`, `RunsSpaced` | the safety properties of `cache` |
| `GatherProofs` | `TypeCorrect`, `NeverSendsOnClosed` and `NoSenderIsLeft`, together `ClosesLast`, `ScrapesReport` | those of `gather` |
| `MetricsHandlerProofs` | `TypeCorrect`, `UndisturbedAnswered`, `FailuresAreReported`, `SomeoneAskedForIt` | those of `metrics` |
| `ReloadProofs` | `TypeCorrect`, `TargetsAreConsistent`, `RequestsAreServed`, `ReloadsAreAllOrNothing`, `ConnectionsAreKept` | those of `reload` |
| `WarmupProofs` | `TypeCorrect`, `UpIsTheTruth`, `HerdIsAvoided`, `GateIsOpened`, `ScrapesAreInTime` | those of `warmup`, but for `Unstuck` in the last two |
| `RowMetricsProofs` | `TypeCorrect`, `RowsAreTold`, `SeriesAreDistinct` | those of `rows` |
| | `NoAcceptedPanic` | no metrics that are accepted make `Collect` panic |
| `ConfigLoadProofs` | `TypeCorrect`, `ReferencesAreOrderBlind`, `CollectorsAreResolved`, `SecretsAreAsWritten` | those of `config` |

**Assumptions** are the `ASSUME`s of the modules, no more. Names that the code keeps apart differ, `Nil`, `Null` and the
like are none of the values they stand for the lack of, and bounds are naturals, of any size. Beyond that: a cache has a
positive `min_interval`; a collector has one target and a query one collector (`StructureAssumption` of `Gather`);
targets of a host share its registration (`TargetAssumption`); the documents and the metrics are any that unmarshal
(`DocumentAssumption` of `ConfigLoad`, `QueriesAssumption` of `RowMetrics`), the results any list of columns.

**Argument.** Each module states its inductive invariant `IInv` as a conjunction of named parts, which TLC has checked,
and shows that `Init` implies it and that every action preserves each part.

- *TargetHandle.* That a query finds its own handle depends on what every other scrape of the target has taken.
  `OneHandle` says that until `Close` begins all of them, the target and the statement share one handle; `LockHeld` and
  `HandlesFresh` say why: it is set once, under the lock, when there was none. `ReloadOrder` ties `closed` to where
  reloads are. Without reloads nothing is ever closed, and `SteadyStateSafe` follows. That a pool is leaked in no way
  but three (`LeaksConfined`) is about reloads that do not overlap, which come one after the other (`InTurn`): a target
  is the current one, or closed, or about to be (`Attended`).
- *CachingCollector.* `Exclusion` makes the token a lock; `CacheDated` says that the time in the token, or in the hands
  of its holder, is that of the run whose metrics the cache has. Staleness and spacing follow by arithmetic. That an
  answer is of one run takes three parts that follow its metrics: from the run to the cache (`CallsCopy`), in the cache
  (`CacheCopies`: they are those that the run kept, at their places), and to the answers served from it (`AnswersCopy`).
  `CacheBegins` and `AnswersBegin` compare them with what the run had to tell: they are its first ones, and all of them
  unless its context has closed.
- *Gather.* `Covered` is the nesting of the wait groups: whoever works is waited for by one that is itself at work.
  `Fresh` says that nothing starts before its turn, which is what makes the sets the code adds to the right ones, and
  `Closing` that the channel stays open as long as somebody works. `Reports` is about what has been received in the end,
  which has all been in the channel: a second invariant, `RInv`, counts what has been sent (`Tally` of `Sent`).
  `TargetsCounted` and `QueriesCounted` tie the number of each metric to the place of its sender, `Started` the state of
  collectors and queries to the `up` of their target, and `Framed` is the order among them; receiving changes none of
  these.
- *MetricsHandler.* `StoredOwn` follows the filters of a request that meets none for other jobs: each word, once stored,
  is as good as its own, even if another request with the same names stored it again; `CollectsOwn` and `SiftsOwn` follow
  them through gathering and sifting. A second invariant, `FInv`, follows failures: what has failed is among the
  children of the counter, or the ticker has been there (`FailuresCounted`), and so there is something to answer with
  (`Loud`). `SomeonesJobs` is about requests that do disturb one another,
  with lists of any length: the array that is read was stored by one that named known jobs (`Asked`), the length is that
  of a list too, and so the jobs are a beginning of the one list or, if the other is longer, all of it and what lies
  behind it in memory (`Mixed`, kept by `CollectsSomeones`).
- *Reload.* One version of the file is followed from `next` to the shared configuration, to what is built from it and to
  the targets: `Unmixed` says it stays of one file, `Built` that it could be built, `Switched` that it is of the mode of
  the exporter. Of a reload that runs alone (`Alone`), `Began`, `BuiltFromConfig` and `Carried` tell more: the targets
  are those it began with until it replaces them, what it built is what the configuration says, which has the jobs of
  its file, with the connections in use, but for jobs that a file which could not be built has left out (`Keeps`).
  `Heeded` accounts for SIGHUPs: one is in the channel, or its file has been read.
- *Warmup.* `Locked` makes `mu` a lock of the caller that is inside, or of `Close`; `Counted` keeps the loop over bad
  connections from ending before them, by which a database that stays up is never told down; `Recent` dates the last
  ping that counted by an answer. `Gated` and `Delayed` say how far warmup may be with the gate closed. What becomes of
  time follows from the guard of `Tick`: a caller out of time that is not ready is with a driver or at the lock
  (`OutOfTime`), and whoever is inside that lock with its own time over would be ready.
- *RowMetrics.* `Checked` is what loading and building have found out, `Scannable` that `dest` then has a place for
  every column that is used, and `Current` that the row at hand is the last one read: no assertion on a type fails.
  `Told` goes along with the loops: what is behind them is told by just one sample, what is ahead by none. The last of
  several columns with a name exists because a finite set that is not empty has a smallest one after it.
- *ConfigLoad.* `Resolving` says what the references up to the one at hand have found, and that its own finds are what
  is done of it, in whatever order; `Blamed` is the same for the one that fails. `Written` compares each data source
  name with the document before its turn and with the cache after it; the cache never changes what it has, and has it
  from a store (`Answered`).

**Only model-checked.** Liveness (`AllEnd`, `CollectEnds`, `GatherEnds`, `LoadEnds`) and `Unstuck`, which is the part
of `GateOpens` and `ScrapesInTime` that speaks of `ENABLED`: the prover has neither.

## Where code and documentation differ

Found while modelling, and shown by a run:

- `target_panic`: a scrape that holds a target during its `Close` reopens it, and the next query panics on the check of
  query.go:174, in a goroutine nobody recovers.
- `cache_invalid`: collector.go:154 wants invalid metrics not to be cached; the code tests the context instead, so the
  error of a query is served for `min_interval`.
- `metrics_jobs`: overlapping requests with different `jobs[]` answer with each other's jobs, and where their lists
  differ in length with jobs that neither asked for. `SomeonesJobs` delimits it.
- `config_region`: two references to secrets of one name in two regions share the first one fetched.

Found while modelling, and not the subject of a run:

- sql.go:69: the pool that `sql.Open` returns after the context of its scrape has closed is closed by nobody. It is one
  of the three leaks that `PoolsAccounted` names; the next two entries have the others.
- target.go:201: a scrape that took a target before its `Close` may open a pool on it that nothing closes any more
  (reload.go:65 closes targets to release their pools); query.go:191 may meet a statement that `Close` has just taken
  away. `PanicsConfined` and `SteadyStateSafe` delimit both.
- reload.go:66: concurrent `/reload` requests close the same targets and replace each other's unclosed:
  `ClosedBeforeReplaced` holds until reloads overlap.
- reload.go:75 wants "to preserve `static_configs` from the previous config revision to avoid any connection changes",
  but reload.go:83 replaces the jobs of the shared configuration before NewJob may fail (it does for metrics of one
  `query_ref` that disagree on a column): after such a failure the targets in use are the old ones and the configuration
  has other jobs, so that a later reload takes the connections of its file. `ConnectionsKept` holds until then.
- target.go:213: `max_connections` below zero means no ping at all, so that `up` is 1 for a database that is down; zero
  leaves a single ping, which one bad connection of the pool fails. Both are "no limit" to `database/sql`.
- target.go:226: "or if we've never pinged before" is not so with `enable_ping: false`: a target whose first ping failed
  keeps its handle, is not pinged again, and is up.
- promhttp.go:122: "unless the result would be negative or zero": an offset equal to the timeout leaves zero, and zero
  is no timeout (promhttp.go:138) unless `scrape_timeout` is set.
- target.go:198: the wait for `target.mu` does not end with the context: a scrape may wait beyond its deadline behind
  another one with a later deadline, or behind `Close`, which holds `mu` while statements and pool wait for the queries
  that use them (target.go:169). `ScrapesInTime` delimits it.
- sql.go:94: `database/sql` does not give the driver the context when it opens a connection. `PingDB` does not wait for
  the driver, but a query does: a collector may hold a scrape beyond its deadline, or the gate of warmup beyond its
  timeout. `ScrapesInTime` and `GateOpens` delimit it.
- collector.go:154: a run that its context cuts off has the metrics it read before cached, dated like a whole run, and
  served without any error to the calls of the next `min_interval`. `SameAsRun` delimits it.
- warmup.go:33: "sequentially triggers each collector across all targets", but each target has a goroutine of its own:
  collectors of different targets start together. warmup.go:38: a `scrape_timeout` of zero ends warmup at once, with
  nothing warmed. Targets of a reload during warmup are never warmed.
- sql.go:40: "a unique name for the TLS configuration": it is that of the host and port, written together. A target with
  another certificate for the same host gets the first one registered, and a registration that failed is never tried
  again; the error after the first is that of `sql.Open`.
- config/metric_config.go:117: "Check for duplicate values" checks that there are any; a column named twice makes two
  samples of one series. `static_labels` and the labels of `static_configs` are compared with no others.
- collector.go:139: `min_interval` is "minimum interval between query executions" (config/collector_config.go:16), but
  a call that waited dates its run with the time it began to wait, and a run that returned nothing is repeated at once.
- promhttp.go:68: the scrape errors of a response are sifted by the filters of whoever set them last.
- promhttp.go:61: an unreachable database is answered with 200 rather than 500 (README.md:86) once
  `scrape_errors_total` has a child.
- reload.go:41: from a target to jobs a reload does nothing and succeeds; the opposite is refused (reload.go:43).
- reload.go:54: README.md:416 suggests a reload for secrets that have changed; the data source names in use are kept.
- README.md:408 has `gcpsecretsmanager://`, the code knows `gcpsecretmanager` (config/secret_resolver.go:29): the
  reference of the README is taken for a literal data source name.
- config/util.go:43: a reference whose names were all matched by earlier ones is "unknown": `[pricing_*, pricing_x]`
  fails to load, `[pricing_x, pricing_*]` loads if there is another. `OrderBlind` states the rule.

## Not modelled

- The drivers, `database/sql` and the Prometheus client: they appear as what they answer.
- Names, types and defaults of the fields of a configuration: checks without state, part of a file that does not parse.
- The conversion of a timeout's text, and durations that overflow; the precision of time.
- Statements prepared twice at once, of which one is lost until its pool closes; a slice of targets read while it is
  stored (`WithContext` reads `targets` without the lock): both are races on data the models take as one step.
- Templates, logging, profiling pages, buffers, error texts, generated imports of drivers.

## Plan

Built, in this order: `TargetHandle` with `PoolLedger`, `CachingCollector`, `Gather`, `MetricsHandler`, `Reload`,
`ConfigLoad`, the proofs of the first four; then `TargetPing`, `Warmup`, `RowMetrics`, and SIGHUP in `Reload`; then the
proofs of `Reload`, `Warmup`, `ConfigLoad` and `RowMetrics`, and what had been missing of the others.

Next:

1. A promise like `PoolLedger` for the cache (metrics are published whole, with a date, by one run at a time) and for
   the gate of warmup, with the refinement proved: the invariants they need are there.
2. Necessary conditions turned around: that `UndisturbedAnswers` and `ConnectionsKept` fail for every request and every
   reload that they exclude is shown by the violations at most; the exact condition would be a sharper theorem.
3. Statements in `TargetHandle`, one each that is prepared, so that the loss of one in two is counted; the read of
   `targets` by words, as that of `jobFilters` is.
