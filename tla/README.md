# TLA+ models of AgentLedger

AgentLedger is a reverse proxy between AI agents and LLM providers. It meters
every response into a ledger, enforces budgets and rate limits, tracks agent
sessions, raises alerts, and meters MCP tool calls. This directory models its
core: what its goroutines do to shared state, in which order, and what holds
of it in the end. Modules are checked by TLC on small instances; the central
results are proved by TLAPS for every value of the constants.

`PROJECT.json` maps every definition to the source lines it models, and lists
the runs, the theorems, the hazards they are aimed at, and for every property
of a passing run a faulty variant of the code that breaks it (the operators
marked "Faulty" in the modules).

## The system

| Component (source) | State | Operations | Module |
|---|---|---|---|
| Usage recorder (`internal/ledger/recorder.go`) | buffered channel, drop counter, workers, `sync.Once` | Record, worker loop, Close | `Recorder`, `UsageLog` |
| Circuit breaker (`internal/budget/circuit_breaker.go`) | atomic state and failure count, trip time under a mutex | RoundTrip | `CircuitBreaker` |
| Budget manager (`internal/budget/budget.go`) | rules, spend cache | Check, UpdateRules, evictStaleCache | `BudgetRules`, `Budget` |
| Rate limiter (`internal/ratelimit/limiter.go`) | minute and hour windows per key hash | Allow, evictExpired | `RateLimiter` |
| Session tracker (`internal/agent`) | sessions map, dirty marks | TrackCall, EndSession, RecordCost, background flush / expiry / ghost detection, Close | `AgentTracker` |
| Stream interceptor (`internal/proxy/streaming.go`) | parse buffer, accumulated usage, `sync.Once` | Read, Close | `StreamInterceptor` |
| Proxy pipeline and server (`internal/proxy/proxy.go`, `cmd/agentledger/serve.go`) | one handler per request, shutdown state, deferred calls | ServeHTTP, modifyResponse, runServe | `Proxy` |
| Admin API and blocklist (`internal/admin`) | two lists in `admin_config`, cached blocklist | create/delete rule, block/unblock key, IsBlocked, refresh, restart | `Admin` |
| MCP metering (`internal/mcp`, `cmd/agentledger/mcpwrap.go`) | pending calls by JSON-RPC ID, server name | HandleMessage, Run, ServeHTTP | `MCPInterceptor`, `MCPStdio`, `MCPHttp` |
| Alerting (`internal/alert`) | last-sent table | Notify | `Alerts` |
| Providers (`internal/provider`) | registry, fixed at start | Detect, ParseRequest, ParseResponse, ParseStreamChunk | `Routing`, `Providers` |
| Tenant resolution (`internal/tenant`) | key mappings | ResolveTenant | `Routing` |
| Cost meter (`internal/meter`) | price table | Calculate, KnownModel, CountTokens | `Meter` |
| Ledger storage (`internal/ledger`) | two tables, connection pool | RecordUsage, UpsertSession, the queries | `Ledger` |
| Dashboard, listings of the admin API, commands `costs` and `export` | none | one report each | `Reports` |

How they interact. `ServeHTTP` runs one goroutine per request. It consults the
blocklist, the tracker, the limiter and the budget manager in this order, each
of which may answer the request itself; it then forwards through the breaker's
transport, and `modifyResponse` (or `finalize` of a stream) meters the response,
hands a usage record to the recorder and adds the cost to the session. Which
provider serves a request, which key and tenant it is charged to and what it
costs is decided by pure functions over tables that Go iterates in random order. The
recorder's workers write to the ledger, which the budget manager queries
through its cache; the tracker flushes sessions to the same store, and reports
read both tables through the same connection pool, which has a single
connection with SQLite. The admin API
replaces the budget manager's rules and refreshes the blocklist. The budget
manager and the tracker call the alert notifier, the tracker while it holds its
mutex. `runServe` closes limiter,
tracker, metrics, budget manager, recorder and store in this order, after a
signal, a failed shutdown or a failed listener.

Not modelled:

- configuration loading (`internal/config`): its values are the constants of the
  modules, and nothing writes it after the start;
- metrics except the sessions gauge: counters and histograms are written once
  per record and never read by the program;
- authentication, the static files of the dashboard, the listing handlers that
  only read a list another module has (rules, blocked keys, live sessions);
- migrations, JSON syntax, CSV and table layout, HTTP headers that no decision
  depends on;
- code nothing calls: `GetSession`, `ListActiveSessions`, `Store.Delete`,
  `ExtractGeminiModel`, `NewGroq` and its like.

What is left open in one module is decided by another: `Proxy` lets every gate
pass or refuse at will, and `Reports` lets every response be metered or not.

### What is hard about it

- records, results or refreshes applied out of order: a slow spend query stores
  an older result over a newer cache entry; an older blocklist is installed over
  a newer one; a success that began before a trip closes the circuit after it;
- state cleared before the write it stands for: `flush` clears dirty marks and
  removes finished sessions, then writes to the store, which may fail;
- a bounded queue in front of a slow ledger, closed while senders are active;
- two queries, two counters or two calls that belong together with a gap in
  between;
- bytes split anywhere into reads, IDs reused as soon as an answer is out;
- windows, TTLs and cooldowns at their boundaries, midnight, eviction at a limit;
- shutdown with handlers, background loops and workers still running;
- a mutex held while a webhook is called, one database connection for everybody;
- Go maps iterated in random order where order could decide a price or a provider;
- restarts in the middle of an admin change.

`PROJECT.json` lists each of these at its line under "hazards".

## Modules

Common conventions. One action per critical section, atomic operation, channel
operation or store call; a handler's steps are told apart by a program counter
`pc`. Time is a tick counter bounded by `MaxTime`, or an age capped where it
ceases to matter (`CircuitBreaker`, `Admin`, `Alerts`). Variables marked
"history" are read by properties only. A glob pattern is the set of keys it
matches. Money is whole cents.

**`Recorder`** splits Record into the send, the full-buffer case and the count
of the drop (three interleaving points), a worker into receive, write and exit,
Close into its `Once` cases. **`UsageLog`** is what callers rely on: a record is
accepted, dropped or answered by a panic; accepted records settle once as
stored or failed; Close returns when all accepted records have settled.
`Recorder` implements it through `fate`, `chClosed` and `OnceDone`, and `Proxy`
uses `UsageLog` in place of the recorder.

**`CircuitBreaker`** has one step for every atomic load, compare-and-swap, add
and store and for the critical sections of RoundTrip. `age` is the time since
the last trip, `stamp` what is known under the mutex; `overlap` is the set of
requests that were under way when the circuit last tripped.

**`BudgetRules`** holds the pure part: rule matching, merging with the default,
decisions, the pre-flight test. **`Budget`** runs Check as separate steps for
the rule match, cache lookup, each of the two queries, the store and the tenant
pass, followed by the decision, the response, and the record's insertion at
some later time. `UpdateRules` and the cache sweep have two steps each. Records
carry the start time of their request and, as history, the time of insertion.
The spend of a period is the number of cents its records hold. A failed query
counts as 0, as in the code. `MaxQuery` bounds the ticks the two
queries of a check take; `ClearCache` empties the cache in one step.

**`RateLimiter`** has one step per outcome of Allow and one for the sweep.
Keys may share a hash and still have different rules. As history `admitted`
keeps, per hash, when requests were let through.

**`AgentTracker`** has one step per critical section; the upserts of a flush
follow one by one. A session keeps the history the code keeps, cut at `trimIdx`,
and as history the full one (`all`). Close runs its own flush, does not wait for
the background loop, and may run while handlers still track calls and costs, as
after a shutdown that timed out. A session ID may come back after its session has
left the map; the new session then starts from nothing. As history `truth` holds
all that was ever metered under an ID, `before` what of it preceded the last entry
of the ID in the map, `taken` the last row a flush took, `rivals` the rows the other
flush held by then, `short`, `evicted` and `failed` the IDs of which something was
lost, and in which way, `due` what Close answers for, and `drift` what the sessions
gauge missed or counted twice.

**`StreamInterceptor`** has streams of up to `MaxEvents` events in the format of
each provider type over an alphabet of one symbol per event and per line end.
While `src.Read` waits the upstream sends one symbol at a time, so that reads
split the stream anywhere, inside a terminator too; it ends with or after the
last bytes and breaks off at any point. Events are read by `Providers`, priced by
`Meter`; the property compares with `says`, which takes the counts of an event
under whatever name. As history, `sent` are the events begun, `rest` what is to come
of the last one, `reported` what the first, the first two ... events say.

**`Proxy`** follows one handler from arrival to reply, with every early return,
against `runServe`. A panic in Record (send on a closed channel) drops the
connection. `mu` is the tracker's mutex, held by a request or by the ghost
detection while an alert is under way. `known` are the sessions in the tracker's
map: TrackCall enters them, `Forget` removes one at any time (a flush or an
eviction, which `AgentTracker` has in detail), and `RecordCost` adds a cost only to a
session in the map and discards it otherwise, as it does when the tracker is not
enabled. As history `opened` are the requests TrackCall counted, `gone` those whose
session was removed before they were done. Which of the error statuses a refusal
has is left out.

**`Admin`** runs the four changing handlers as read, change, write, apply, with
no lock, on lists as sets of entries (an entry is removed with all its copies), together with blocklist refreshes by admin calls and by proxied
requests. `MaxRead` bounds the ticks of a refresh. Restart resets everything in
memory and takes the rules from the YAML file.

**`MCPInterceptor`** gives the interceptor as operators. **`MCPStdio`** runs the
two pumps, the child and Run; **`MCPHttp`** runs concurrent requests with an
interceptor each. The client, which is external, takes the lowest ID not awaiting
an answer. A line over `maxScanBuffer` is a line of kind "big".
`MCP` composes both in one specification; `MCMCP` only gives values.

**`Alerts`** has one step for the critical section of Notify and one per
destination tried. A destination accepts, refuses or stays silent, and may change
at any time; a call to a silent one hangs for good, since the clients have no
timeout. Alerts of the tracker are raised one at a time, under its mutex and with
a context that never ends (`mayRaise`); an alert of the budget ends when the client
of its request goes away (`Leave`).

**`Providers`** and **`Meter`** hold the pure functions on requests, responses and
prices. A model name is a sequence of parts, so that one name starts with
another exactly if the strings do. The price table is the constant `Pricing`; the
runs give it `DefaultPricing`, an excerpt of the built-in table in which names
start each other. `iterations` are the orders of a Go map. **`Routing`** holds the registry,
the match rules, the mux, path rewriting, key extraction and the tenant chain.

**`Ledger`** states the SQL of both drivers over sets of rows; what `ORDER BY ...
LIMIT` may return is a set of results, since rows that tie come in any order.
**`Reports`** composes the four: requests become records, written at any later
time, while a report acquires a connection, queries once or twice, and replies
or fails. A query that fails ends a report with status 500 (`Fail`), but for the budget
status, which counts nothing (`FailIgnored`), and for the durations of SQLite's
latency report, where an error in the middle of the rows is lost and the reply is
`null` with status 200 (`ReadFails`). A report is one of the handlers or commands, told apart by its kind;
they share everything but the query and the window.

**`RuleMatch`** is the first-match search that MCP pricing, the registry, the key
headers and the key mappings share. Budget and limiter state the first match as the
index of a rule that no earlier one precedes.

**`RecorderProofs`**, **`ProxyProofs`** (handlers, shutdown, breaker),
**`MeteringProofs`** (streams, providers, prices, attribution, reports),
**`BudgetProofs`**, **`RateLimiterProofs`** (limiter and alert cooldown),
**`AdminProofs`**, **`AgentTrackerProofs`** and **`MCPProofs`** hold the theorems.

## Runs

Every run finishes in a few minutes with two workers.

| Run | Instance | What it shows |
|---|---|---|
| `recorder` | 4 records, buffer 2, 2 workers, 2 closers | `Accounted`, `DrainedOnClose`, `DropsExplained`, `RefinesUsageLog`, `AcceptedSettles`, `CloseReturns` |
| `breaker` | 3 requests, 2 failures to trip, timeout 1 | `TimerNotAhead`, `OpenLasts`, `Recovers`, `OutageOpens` |
| `budget` | TTL 1, queries of up to 1 tick, day of 2 and month of 4 ticks. `HardCorner`: 3 requests of one key with a limit of a cent, cache sweeps, 4 ticks; `TenantCorner`: 2 requests of a tenant, two rule lists swapped at any time, failing queries, 3 ticks | `OverspendWindow`, `BlockJustified`, `MonthCoversDay` |
| `limiter` | 4 keys, 2 of them with one hash, minute 2, hour 4, 8 ticks | `CountsPassed`, `TwiceTheLimit`, `RefusalJustified` |
| `tracker` | 3 requests, 2 session IDs, room for 1 session, failing upserts; all 3 requests, or 2 and Close | `NothingForgotten`, `GaugeExact`, `LoopExact`, `IdleSettles` |
| `stream` | all streams of up to 3 events of 3 or 4 kinds, in 5 formats and 2 framings | `ChunkingInvisible`, `RecordedOnce`, `EventuallyRecorded` |
| `proxy` | 2 requests, 1 session that may be removed at any time, all gates, all ways to stop | `MeteredExactly`, `GracefulLosesNothing`, `StoreOutlivesRecorder`, `ShutdownEnds`, `TrackerNeverStuck` |
| `admin` | 2 admin calls, 1 proxied request, both lists, failing reads and writes, restarts | `AcknowledgedHolds`, `BlockedWithinTTL` |
| `mcp` | stdio: 3 requests, 2 IDs, pipes of 1 line, all faults; HTTP: 2 requests with equal IDs, streams of up to 2 events | `AnswersRecorded`, `DrainedOnReturn`, `InputEndsRun`, `OwnAnswerRecorded` |
| `alerts` | 2 goroutines, 2 keys, 2 destinations that refuse or hang, cooldown 2; one key of the budget, one of the tracker | `AlertsTypeOK`, `CooldownExact`, `GetsThrough` |
| `reports` | 2 requests (one of 7 shapes, to five providers or to none), a report of 11 kinds with SQLite and 3 with PostgreSQL, day of 1 and month of 2 ticks, 2 ticks | `Attribution`, `ReportsTrue`, `QueriesReturn` |
| `admin_restart` | 1 admin call, 2 patterns | `RulesInForce` is violated, see Findings |

Each module's type invariant is checked too, as an invariant of its own in `alerts`
and as the first conjunct of `MonthCoversDay`, `CountsPassed`, `NothingForgotten`,
`RecordedOnce`, `MeteredExactly`, `AcknowledgedHolds`, `AnswersRecorded` and
`OwnAnswerRecorded` elsewhere; those of `Recorder` and `CircuitBreaker` are proved.

Why the bounds are enough for the interesting cases. In `recorder` two records
are in workers' hands and two in the buffer, so the drop path, a second Close
during the first and a Close with a full buffer all happen. In `breaker` two
requests trip the circuit while the third is late. In `budget` one
recorded response exhausts a limit, so a second request meets it; a third
stores an old result over a new one; the clock passes the TTL and midnight.
Two corners of one instance are explored because their product is too large:
which one a behaviour is in depends on its initial rules, and `MCNext` only
leaves steps out.
`limiter` runs over several minute windows and two
hour windows. `tracker` evicts with the second session, trims at the third
call and has time for a session to expire and be flushed; one session ID leaves
and comes back, and the second request arrives before, during or after Close. Session
IDs are interchangeable, so its `MCNext` lets the first request name only one of
them; and it lets the third request arrive only in behaviours without Close, as the
product of both is too large. The proofs have neither restriction. The requests of
`proxy` are interchangeable too; its `MCNext` lets them arrive in a fixed order.
In `alerts` one of the two callers can hang while the other goes on.
`admin` has one
pattern, which two calls add and remove concurrently; two patterns exceed what
TLC can do here, and are covered by the proofs. `mcp` has room for
two calls under way and the reuse of an ID. `reports` passes two midnights and
the end of a month, has a record arrive between the two queries of a report, a
record older than the day, equal and different costs, and more durations than a
percentile interpolates between; every combination of two records and one
report meets. Two reports at once would add nothing to `ReportsTrue`, since
reports change nothing, and to `QueriesReturn` only waiting for each other, which
needs a handler that asks for a second connection while it holds one.

Symmetry is used in `budget` and `admin`, whose properties are
safety properties that do not tell requests, or calls, apart.

Deadlock is not checked where a model has an end: every request or record is
handled once (`recorder`, `budget`, `stream`), the clock stops at its bound
(`tracker`), the process exits (`proxy`), the report has its reply (`reports`). The other models
run for ever, and deadlock is checked.

Fairness, only where a liveness property needs it:

- `recorder`: workers run and a ledger call returns (weak fairness of each
  worker); a goroutine inside Close goes on when it can. Nobody has to call
  Record or Close.
- `breaker`: a request under way goes on and the clock advances; upstream
  calls return, as they do under the transport's timeouts.
- `tracker`: the ticker and the background goroutine run; handlers need not.
- `stream`: the handler's goroutine runs, and the upstream ends or breaks.
- `proxy`: the shutdown deadline passes, runServe goes on, workers settle
  records, and a handler that waits for the tracker's mutex takes it when it is
  free. Elsewhere no handler is assumed to make progress. `ShutdownEnds` and
  `TrackerNeverStuck` assume in addition that alert destinations answer
  (`AlertsReturn`), which the code does not enforce: its HTTP clients have no
  timeout. The assumption is part of the properties, not of the specification.
- `reports`: a free connection goes to the report that waits for one, and a
  query returns a result or an error, as `database/sql` and the drivers do.
- `mcp`: the pumps and Run go on; the child reads, answers, and exits at the
  end of its input (it may exit earlier).
- `alerts`: the clock runs, a lasting condition keeps being reported (strong
  fairness of Notify per key, since goroutines are shared), and a caller goes on
  when its destination answers. A call to a silent destination never returns, and
  no fairness says otherwise. `GetsThrough` states what it needs instead: from
  some time on the destinations work, one caller does not hang, and for the
  tracker's alerts no alert of the tracker hangs, as that call would keep the
  tracker's mutex. This is the assumption `AlertsReturn` of `proxy`, seen from
  the notifier.

## Theorems

All for arbitrary sets of threads, requests, sessions, keys and any bounds. Each
inductive invariant was checked by TLC on the instance of the component's run
before it was proved.

- `RecorderProofs`. `RecorderTypeOK`, `RecorderAccounted`,
  `RecorderDrainedOnClose`, `RecorderDropsExplained`, `RecorderRefinesUsageLog`.
  The inductive invariant is `TypeOK /\ Accounted /\ CloseProtocol`:
  `DrainedOnClose` alone says nothing about workers that leave early, so
  `CloseProtocol` records that a worker leaves with empty hands after the
  channel was closed and emptied, and that Close returns after all have left.
  `DropsExplained` needs in addition that the counter is the number of counted
  drops among finitely many answered calls (`DropsCounted`); the rest is the
  partition of the answered calls that `Accounted` gives.
  The refinement maps each step to a step of `UsageLog` or to a stutter.
  Assumptions: positive default buffer and worker count, `None` is no record.
- `ProxyProofs`, the breaker. `BreakerTypeOK`; `BreakerTimerNotAhead`, from
  `LockInv`, which adds mutual exclusion of trips; `BreakerOpenLasts`, from
  `OpenInv`, which adds that a request that is about to end an open period
  early is in `overlap` (`LateComer`). `SequentialRejectsForTimeout` and
  `SequentialFailedProbeReopens`: with a single caller at a time the breaker
  does what its documentation says (`SeqInv`).
- `ProxyProofs`, the handlers and the shutdown. `ProxyGracefulLosesNothing` and `ProxyStoreOutlivesRecorder`,
  from `CloseOrder /\ LogState /\ Quiet`: how far the deferred calls are
  determines what the recorder may still do, and after a graceful shutdown no
  handler is active. A record whose write failed counts as off the recorder's
  hands, as the ledger reported the failure. `ProxyMeteredExactly`, from `MInv`,
  which says for every place a handler can be at (`Progress`) whether it has been
  metered, has its record and has its cost: the property itself only speaks of the
  last place, and that a request in `opened` but not in `gone` has its session in the
  map while it is active (`Links`), which is what makes its cost arrive.
- `MeteringProofs`, streams. `StreamChunkingInvisible` and `StreamRecordedOnce`, from
  `StreamInv`: what the interceptor has passed to the parser is the first events
  of the stream (`Told`), its buffer is the bytes of the events after them, short
  of what the upstream still has to send (`Framed`, for either terminator), and a
  record was reported if and only if the stream is over (`Recorded`). The core is
  that the first terminator found in such a buffer is that of its first event,
  and that a buffer without one holds no complete event, wherever reads fell.
  Assumption: the events of each type are in that type's format (`StreamAssumption`).
- `MeteringProofs`, what Go's map order could change. `PriceUnordered`: a call costs
  the same whichever way the price table is iterated, for every finite table. Two
  orders end with a longest name that starts the model's, and two such names of one
  length are equal. That the search keeps the longest so far is shown by the least
  index at which it would not. `DetectUnordered`: two starts of one configuration
  find the same provider for a path, since a match tells the first segment
  (`MatchPath`), and of the built-in providers' paths the second. Both built-in
  providers are enabled (`registries`), as in the default configuration.
- `MeteringProofs`, records and reports. `ReportsAttribution` and `ReportsAreTrue`,
  from `ReportsInv` (`ReportsInvariant`). Attribution speaks of records, the
  invariant of the requests they come from: one that waits for its upstream was
  sent where every registry would send it (`RequestOK`). `ReportsTrue` speaks of
  finished reports; the invariant says of each result, as soon as it is read, what
  it says of the table it was made of (`Holds`), and that this table is part of the
  present one and of the one the next query sees (`Answered`, `Report`). That is
  why the day's cost is at most the month's though records come in between, and
  why the day of the first query lies in the month of the second though midnight
  passes (`Calendar`). The rest are facts about the SQL: a sum over a table is the
  sum over its groups of their sums (`SumGroups`), by the smallest subset for
  which it is not; percentiles interpolate between two neighbours of an ascending
  sequence and so are ordered (`PercentilesOrdered`).
  Assumptions: prices are naturals (`MeterAssumption`); paths and model names are
  sequences of strings, a month is a whole number of days, the percentile query
  takes at least one row (`ReportsAssumption`); and `ExtrasAssumption`, a condition
  on the configuration that the code does not check: no two extra providers, of
  types other than anthropic, have prefixes with the same first segment, and none
  begins with `v1`. Without it the registry's order would decide.
- `MCPProofs`. `StdioAnswersRecorded` and `StdioDrainedOnReturn`, from `OnePlace`
  (an ID that is awaited is in one place only: a pipe, a pump or the child) and
  `Flow` (what the child has written is, in this order, what was passed on, what
  the pump holds and what the pipe holds). `HttpOwnAnswerRecorded`, from `HttpInv`
  (what each place in the handler knows of its interceptor);
  `MeteredAnswersRecorded` is the first two for both composed. Assumptions: rules
  name known servers and tools, or wildcards, and cost a natural number; the absent
  ID or tool is neither; pipes have room (`StdioAssumption`).
- `BudgetProofs`. Of the decision rules: `DecisionMonotone` (more spend never
  weakens a decision), `StricterThanBoth` (the tenant's result never weakens the
  key's), `MergeKeepsLimits`, `ExhaustedRejectsPreflight`. Of the manager:
  `BudgetMonthCoversDay`, `BudgetOverspendWindow`, `BudgetBlockJustified`, from
  `EnvInv /\ CacheInv /\ HandlersInv`. Its core is what an amount is worth: one
  queried at time u holds no more than the ledger has for the period of u
  (`NotMore`), and no less than the records that were in the ledger before u
  (`NotLess`), unless a query has failed since. Both survive whatever is
  inserted later, so it does not matter in which order results reach the
  cache; an entry is at most `MaxQuery` older than its fetch time says
  (`EntryOK`). A handler carries the two consequences from the evaluation of its
  first scope to its decision: a blocking result is `Backed`, a scope it has
  passed is `Clean`, which stays true because `DecisionMonotone` applies to
  periods that can only shrink as days and months begin. Assumptions: a month is
  a whole number of days, the TTL is positive (it is a constant in the code),
  amounts and limits are naturals.
- `RateLimiterProofs`, the limiter. `LimiterCountsPassed`, `LimiterTwiceTheLimit`,
  `LimiterRefusalJustified`, from `MinuteInv /\ HourInv`, one statement about a
  window, its length and the limits of the keys that share it, proved once. That
  twice the limit bounds any stretch is not inductive: the invariant adds that
  the window's length before the present window saw at most one limit, also when
  a sweep has dropped the window (`Exact`).
- `RateLimiterProofs`, the alerts' rate limit. `AlertsTyped` and `AlertsCooldownExact`, from the agreement
  of the table with the true time of the last alert, which survives eviction
  because entries are evicted only after twice the cooldown.
- `AdminProofs`. `AdminAcknowledgedHolds`, from `IInv`: a call that is alone
  writes a list that has its own change and every promise made before, and
  overlapping calls promise nothing. `AdminBlockedWithinTTL`, from `TInv`: the
  age of a list in a reader's hands, of the installed list, and of the list a
  request sees after its own refresh. Assumption: a refresh takes no longer than
  the TTL (10 seconds in the code); otherwise a request may see a list that is
  older than the TTL when its own refresh ends.
- `AgentTrackerProofs`. `TrackerGaugeExact`; `TrackerNothingForgotten`, from
  `TruthInv` (a session in memory, or the last row taken of one that has left, has
  all that came after the ID was last entered, and no row has more than was
  metered), `SavedInv` (a clean session is as its last row; this row, or the one the
  other flush held when it was taken, is stored or on its way unless an upsert
  failed) and `CloseInv` (what Close answers for is covered by memory, by every row on its
  way, and by the store when Close has no row of the session left); `TrackerLoopExact`, from
  `SessionInv`: the history kept is the end of the full one, and every call cut off
  is older than the loop window. Assumption: loop or ghost
  detection is configured; otherwise the proxy does not use the tracker (`Enabled`).

Every safety property of the passing runs is proved. Only model-checked is liveness
under fairness, which the prover does not support: `AcceptedSettles`,
`CloseReturns`, `Recovers`, `OutageOpens`, `IdleSettles`, `EventuallyRecorded`,
`ShutdownEnds`, `TrackerNeverStuck`, `QueriesReturn`, `InputEndsRun`, `GetsThrough`.
Induction theorems that take an operator cannot be used with these provers; where
an induction is needed, the proofs take a least counterexample instead (a least
number, `LeastNumber`, or a smallest finite set, `SmallestSet`).

## Findings

`admin_restart`: `runServe` builds the budget manager from the YAML rules
(`src/cmd/agentledger/serve.go:113`) and never loads the stored ones. After a
restart a rule created through the API is listed and not enforced;
`src/docs/admin-api.md:67` says "Runtime rules take effect immediately and
persist across restarts."

Other places where the models follow the code and a document says otherwise.
No run is spent on them; where a property would fail because of them, it says
so in its comment.

- Breaker: every request passes a half-open circuit, not one; a success begun
  before the trip closes the circuit early (hence the exception in
  `OpenLasts`); a failed probe may leave the circuit half-open when a success
  overlaps. An open circuit is answered 502, not 503.
- Budget: a request over its limit passes for up to the cache TTL and a query;
  a failed query counts as nothing spent; the pre-flight test answers 429 also
  under action "warn"; it looks at the tenant's limits only when the tenant's
  result is the stricter one.
- Limiter: windows are fixed, not sliding, so twice the limit may pass;
  Retry-After is rounded to the nearest second.
- Tracker: a session ID that comes back after its session has ended, expired or
  been evicted starts a new session with zero totals
  (`src/internal/agent/session.go:128`), whose rows overwrite those stored under
  the ID (`src/internal/ledger/sqlite.go:269`). A cost that arrives after the session
  has left the map is discarded without a log line (`src/internal/agent/session.go:201`),
  so that session totals fall short of the usage records. Close also runs after a
  shutdown that timed out or a listener that failed (`src/cmd/agentledger/serve.go:369`);
  what handlers track after its flush is lost.
  Close does not wait for a background flush that has taken rows, whose
  older row may then overwrite Close's; the sessions gauge drifts when sessions
  end twice or are evicted (`GaugeExact` says by how much). Alerts are sent
  under its mutex by HTTP clients without a timeout
  (`src/internal/agent/session.go:187`, `:400`): while a webhook does not
  answer, requests with a session, session costs and the shutdown wait;
  `src/README.md:182` says cost recording "never blocks responses".
- Routing: the base path of an upstream is put in front before the provider's
  prefix is trimmed (`src/internal/proxy/proxy.go:259`), so for upstreams with
  a base path (the defaults of groq, fireworks and openrouter) the prefix is
  forwarded; `src/docs/features/providers.md:31` says it is stripped. Of two
  extra providers of type anthropic the one that serves is chosen at random at
  each start; an extra of unknown type without an upstream is skipped silently.
- Tenants: `extractRawKey` is said to read "the same sources as
  provider.ExtractAPIKey" (`src/internal/tenant/tenant.go:37`) but ignores the
  api-key header, and goes on after an empty bearer token.
- Reports: only 2xx responses are recorded, and streams as 200, so that the
  error rate of the dashboard is always 0; the error statistics of an empty
  window fail (SUM is NULL); percentiles are those of the 10000 shortest calls;
  the SQLite latency report answers `null` with status 200 when the durations cannot
  be read to the end, since `src/internal/ledger/sqlite.go:445` returns `err`, which is
  nil, in place of `rowsErr`; PostgreSQL rejects `QueryCosts`, so that its cost reports fail and the budget
  status shows 0; the budget status shows total spend for every rule, and 0 for
  a query that failed.
- Stream: events ended by CRLF CRLF followed in the buffer by one ended by
  LF LF are joined; a streaming error response is metered, as status 200.
- Admin: concurrent changes of one list lose updates; a failed read empties the
  list with the next write.
- MCP: a line over 1 MB ends forwarding, and Run may then wait for a blocked
  child; prices prefer an exact rule to an earlier wildcard; behind the HTTP
  proxy the server's name stays "unknown".
- Alerts: an alert that no destination accepted starts the cooldown too; a
  destination that accepts a connection and never answers keeps the call, and keeps
  those behind it in the list from being tried, as the clients have no timeout
  (`src/internal/alert/slack.go:21`, `src/internal/alert/webhook.go:22`).

Where a property is weaker than it may look:

- `BlockJustified` takes the spend of the key or of the tenant from the start of the
  day or month that any amount the check may use is from, up to now: around
  midnight that is more than the day's spend the block is about.
- `GracefulLosesNothing` and `StoreOutlivesRecorder` look at the recorder's workers;
  a background flush of the tracker that Close did not wait for may still write.
- `AcknowledgedHolds` promises nothing about changes that overlap or follow a failed
  read: the code does not either.
- The child of the stdio model answers in the order it was asked.
- `Attribution` excepts the api-key header, empty bearer tokens and upstreams with a
  base path, where the code and its documents differ.

## Plan

Modelled in this order: recorder and its abstract log, breaker, budget, limiter,
tracker, stream, proxy and shutdown, admin, MCP, alerts; then the tracker's
mutex and gauge, providers, routing, tenants, prices, ledger and reports. Proved
in this order: recorder, breaker, alerts, shutdown, the decision rules; then the
limiter, the admin API, the tracker, metering in the proxy and the budget
manager; then MCP, streams and prices; last attribution and reports. What comes
next:

1. An abstract specification of session persistence that `AgentTracker`
   implements, and one of the spend gate for `Budget`.
