------------------------------- MODULE Reports ------------------------------
(***************************************************************************)
(* From a request to the reports: what a request is recorded as (its       *)
(* provider, key, tenant, model and price: Routing, Providers, Meter), and *)
(* what the dashboard and the command line then read from the tables       *)
(* (Ledger) while further records are written.                             *)
(*                                                                         *)
(* A record carries the time its request was forwarded, and is written     *)
(* when its response has been read and a recorder's worker gets to it.     *)
(* All queries of the gateway share the connections of one pool.           *)
(***************************************************************************)
EXTENDS Ledger, Meter, Providers, Routing

CONSTANTS
    Requests,       \* names of the requests
    Traffic,        \* Traffic[q]: what request q may look like
    Extras,         \* the providers of config.Extra
    Mappings,       \* key mappings of the tenancy configuration
    NoSession,      \* no X-Agent-Session header
    Queries,        \* Queries[driver]: what a report may be asked for, which is its kind,
                    \* the tenant, and by, its group_by, interval or status
    Windows,        \* the lengths of time a report may cover
    MonthLen,       \* ticks in a month
    FirstTime, MaxTime,
    TopLimit        \* LIMIT of the lists

\* What a report may be.
kinds == {"summary", "status", "keys", "costs", "cli", "timeseries", "tokens",
          "expensive", "stats", "latency", "history"}

ASSUME ReportsAssumption ==
    /\ IsFiniteSet(Requests)
    /\ \A q \in Requests : \A r \in Traffic[q] : r.path \in Seq(STRING) /\ r.model \in Seq(STRING)
    /\ \A d \in Drivers : \A q \in Queries[d] : q.kind \in kinds
    /\ FirstTime \in Nat /\ Windows \subseteq Nat
    /\ DayLen \in Nat \ {0} /\ \E days \in 1 .. MonthLen : MonthLen = days * DayLen
    /\ PercentileRows \in Nat \ {0}

\* The extra providers that have a prefix are told apart by its first segment,
\* which is not the built-in ones' - what the configuration should see to, and
\* the code does not check.
ASSUME ExtrasAssumption ==
    LET made == Extras \ {NoProvider}
        prefixed == {p \in made : p.style # "anthropic"}
    IN  /\ IsFiniteSet(Extras)
        /\ made \subseteq [name : STRING, style : Styles, prefix : Seq(STRING), base : Seq(STRING)]
        /\ NoProvider \notin {provider("openai", "openai", <<>>, <<>>),
                               provider("anthropic", "anthropic", <<>>, <<>>)}
        /\ \A p \in made \ prefixed : p.prefix = <<>>
        /\ \A p \in prefixed : p.prefix # <<>> /\ Head(p.prefix) # "v1"
        /\ \A p, o \in prefixed : Head(p.prefix) = Head(o.prefix) => p = o

VARIABLES
    now,
    driver,     \* the storage driver of the configuration
    h,          \* h[q]: a request in the proxy
    rows,       \* usage_records
    sessions,   \* agent_sessions
    pooled,     \* does the report hold a connection of the pool?
    job         \* a report

vars == <<now, driver, h, rows, sessions, pooled, job>>

connFree == maxOpen(driver) > IF pooled THEN 1 ELSE 0

Init ==
    /\ now = FirstTime
    /\ driver \in Drivers
    /\ h = [q \in Requests |-> [stage |-> "new"]]
    /\ rows = {} /\ sessions = {}
    /\ pooled = FALSE
    /\ job = [pc |-> "idle"]

-----------------------------------------------------------------------------
(* A request becomes a record.                                             *)

\* The registries of the processes that may run with this configuration.
registries == {NewRegistry(TRUE, TRUE, extras) : extras \in SetToSeqs(Extras \ {NoProvider})}

\* The health check and what no provider serves are answered by the gateway.
Forward(q) ==
    /\ h[q].stage = "new"
    /\ \E r \in Traffic[q], registry \in registries :
          LET p == Detect(registry, r)
          IN  h' = [h EXCEPT ![q] =
                     IF routed(registry, r.path) /\ r.path # <<"health">> /\ p # NoProvider
                     THEN [stage |-> "upstream", r |-> r, p |-> p, start |-> now]
                     ELSE [stage |-> "refused", r |-> r]]
    /\ UNCHANGED <<now, driver, rows, sessions, pooled, job>>

\* What the upstream answers: a dated name of the model, one token in and two
\* out, under the names of the style.
body(style, r) ==
    [model |-> r.model \o <<"-2025">>,
     usage |-> CASE style \in {"azure", "gemini"} -> counts(1, 2, 0, 0)
                 [] style = "openai"              -> IF "responses" \in ToSet(r.path)
                                                     THEN counts(0, 0, 1, 2) ELSE counts(1, 2, 0, 0)
                 [] OTHER                         -> counts(0, 0, 1, 2)]

\* The record modifyResponse makes of a response.
proxyRecord(q, status, order) ==
    LET r     == h[q].r
        p     == h[q].p
        resp  == ParseResponse(p.style, body(p.style, r))
        model == IF resp.model = NoModel THEN RequestModel(p.style, r.model) ELSE resp.model
    IN  [id |-> q, ts |-> h[q].start, provider |-> p.name, model |-> model,
         key |-> ExtractAPIKey(r), tenant |-> ResolveTenant(TRUE, Mappings, r),
         input |-> resp.input, output |-> resp.output,
         cost |-> Calculate(order, model, resp.input, resp.output),
         estimated |-> ~KnownModel(order, model),
         duration |-> now - h[q].start, status |-> status,
         path |-> rewrite(p, r.path), agent |-> r.session, session |-> r.session]

\* Only successful responses that can be read and parsed are metered.
Respond(q) ==
    /\ h[q].stage = "upstream"
    /\ \/ h' = [h EXCEPT ![q] = [stage |-> "unmetered"]]
       \/ \E order \in iterations :
             h' = [h EXCEPT ![q] = [stage |-> "queued", r |-> h[q].r,
                                    row |-> proxyRecord(q, 200, order)]]
    /\ UNCHANGED <<now, driver, rows, sessions, pooled, job>>

\* A worker of the recorder writes the record.
Insert(q) ==
    /\ h[q].stage = "queued" /\ connFree
    /\ rows' = RecordUsage(rows, h[q].row)
    /\ h' = [h EXCEPT ![q] = [stage |-> "recorded"]]
    /\ UNCHANGED <<now, driver, sessions, pooled, job>>

\* The flush of the tracker writes the session of a request.
Flush(q) ==
    /\ h[q].stage = "upstream" /\ h[q].r.session # NoSession /\ connFree
    /\ \E status \in {"active", "completed"} :
          sessions' = UpsertSession(sessions, [id |-> h[q].r.session, started |-> h[q].start,
                                               status |-> status])
    /\ UNCHANGED <<now, driver, h, rows, pooled, job>>

-----------------------------------------------------------------------------
(* A report: a handler of the dashboard or of the admin API, or a command. *)
(* They differ in the queries they make and in the window they ask about,  *)
(* which ends when they start.  (The list of rules the budget status       *)
(* shows, and the sessions the summary counts, belong to Admin and         *)
(* AgentTracker.)                                                          *)

dayStart(t)   == t - (t % DayLen)
monthStart(t) == t - (t % MonthLen)

\* The summary of the dashboard and the budget status of the admin API cover
\* the day and the month.
twoWindows == {"summary", "status"}

\* The reports that ask QueryCosts, once or twice.
costReports == twoWindows \cup {"costs", "cli", "keys"}

\* The commands costs and export open a store of their own.
commands == {"cli"}

queries(kind) == IF kind \in twoWindows \cup {"latency"} THEN 2 ELSE 1

\* A handler reads the clock once and asks the pool for a connection; a
\* command opens the database itself.
Start ==
    /\ job.pc = "idle"
    /\ \E q \in Queries[driver], length \in Windows :
          job' = [pc |-> IF q.kind \in commands THEN "query" ELSE "wait",
                  kind |-> q.kind, by |-> q.by, tenant |-> q.tenant,
                  since |-> now - length, until |-> now, parts |-> <<>>, seen |-> <<>>]
    /\ UNCHANGED <<now, driver, h, rows, sessions, pooled>>

\* database/sql hands out a connection.
Acquire ==
    /\ job.pc = "wait" /\ connFree
    /\ job' = [job EXCEPT !.pc = "query"]
    /\ pooled' = TRUE
    /\ UNCHANGED <<now, driver, h, rows, sessions>>

\* Where the window of the next query starts, if the clock shows t.
sinceAt(j, t) ==
    CASE j.kind \in twoWindows /\ j.parts = <<>>                       -> dayStart(t)
      [] j.kind = "keys" \/ (j.kind \in twoWindows /\ j.parts # <<>>) -> monthStart(t)
      [] OTHER                                                         -> j.since

\* Faulty: the second query reads the clock again.
queryWindowReread(j) ==
    LET t == IF j.parts = <<>> THEN j.until ELSE now
    IN  [since |-> sinceAt(j, t), until |-> t]

\* The queries of a report go by one reading of the clock.
queryWindow(j) == [since |-> sinceAt(j, j.until), until |-> j.until]

\* The results the next query may have.
results(j) ==
    LET w == queryWindow(j)
    IN  CASE j.kind \in costReports ->
                IF rejectsQueryCosts(driver) THEN {}
                ELSE {QueryCosts(rows, w.since, w.until, j.tenant, j.by)}
          [] j.kind = "timeseries" ->
                {QueryCostTimeseries(rows, j.by, w.since, w.until, j.tenant)}
          [] j.kind = "tokens" ->
                {QueryTokenTimeseries(rows, j.by, w.since, w.until, j.tenant)}
          [] j.kind = "expensive" ->
                QueryRecentExpensive(rows, w.since, w.until, j.tenant, TopLimit)
          [] j.kind = "stats" ->
                {s \in {QueryErrorStats(rows, w.since, w.until, j.tenant)} : s.ok}
          [] j.kind = "latency" ->
                {IF j.parts = <<>> THEN latencyBuckets(rows, w.since, w.until, j.tenant)
                 ELSE IF driver = "sqlite"
                      THEN latencyPercentiles(rows, w.since, w.until, j.tenant)
                      ELSE pgPercentiles(rows, w.since, w.until, j.tenant)}
          [] j.kind = "history" ->
                QueryRecentSessions(sessions, w.since, w.until, j.by, TopLimit)

\* A query is over: the next one follows, or the reply.
advance(result) ==
    job' = [job EXCEPT !.parts = Append(@, result), !.seen = Append(@, rows),
                       !.pc = IF Len(job.parts) + 1 = queries(job.kind) THEN "done" ELSE "wait"]

\* A result has been read; the report keeps its connection if held.
AnswerThen(held) ==
    /\ job.pc = "query"
    /\ \E result \in results(job) : advance(result)
    /\ pooled' = held
    /\ UNCHANGED <<now, driver, h, rows, sessions>>

\* Faulty: the latency histogram is closed when the handler returns.
AnswerHolding == AnswerThen(job.kind = "latency" /\ job.parts = <<>>)

\* The rows of a result are read to the end, which gives the connection back.
Answer == AnswerThen(FALSE)

\* A query fails, or the client has gone away: status 500.
Fail ==
    /\ job.pc \in {"query", "wait"} /\ job.kind # "status"
    /\ job' = [pc |-> "failed"]
    /\ pooled' = FALSE
    /\ UNCHANGED <<now, driver, h, rows, sessions>>

\* The budget status ignores the error and counts nothing.
FailIgnored ==
    /\ job.pc \in {"query", "wait"} /\ job.kind = "status"
    /\ advance({})
    /\ pooled' = FALSE
    /\ UNCHANGED <<now, driver, h, rows, sessions>>

\* The reply null, with status 200.
NoStats == <<>>

\* The durations of SQLite's latency report cannot be read to the end: the
\* query returns neither statistics nor an error, which is shadowed, and the
\* handler takes that for success.
ReadFails ==
    /\ job.pc = "query" /\ job.kind = "latency" /\ job.parts # <<>> /\ driver = "sqlite"
    /\ advance(NoStats)
    /\ pooled' = FALSE
    /\ UNCHANGED <<now, driver, h, rows, sessions>>

Tick ==
    /\ now < MaxTime
    /\ now' = now + 1
    /\ UNCHANGED <<driver, h, rows, sessions, pooled, job>>

\* Bound: behaviours are followed until the report has its reply.
open == job.pc \notin {"done", "failed"}

Next ==
    \/ \E q \in Requests : open /\ (Forward(q) \/ Respond(q) \/ Insert(q) \/ Flush(q))
    \/ open /\ Tick
    \/ Start \/ Acquire \/ Answer \/ Fail \/ FailIgnored \/ ReadFails

Spec == Init /\ [][Next]_vars

\* A connection that is free is handed to the one who waits, and the database
\* answers or fails.
FairSpec ==
    /\ Spec
    /\ WF_vars(Acquire)
    /\ WF_vars(job.pc = "query" /\ (Answer \/ Fail \/ FailIgnored \/ ReadFails))

-----------------------------------------------------------------------------
(* What the records say.                                                   *)

\* The price a reader of the table expects: that of the longest name that
\* starts the model's.
expectedCost(rec) ==
    LET fits == {key \in DOMAIN Pricing : IsPrefix(key, rec.model)}
        best == CHOOSE key \in fits : \A other \in fits : Len(other) <= Len(key)
    IN  IF fits = {} THEN 0
        ELSE rec.input * Pricing[best].input + rec.output * Pricing[best].output

\* The tenant of a key: the header's, else the one its mapping names.
expectedTenant(r) ==
    IF r.tenant # NoTenant THEN r.tenant
    ELSE first(Mappings, LAMBDA m : ExtractAPIKey(r) \in m.pattern, [tenant |-> NoTenant]).tenant

\* A record is attributed to the provider that any restart would find again
\* (Go maps are iterated in random order), priced by the longest known name
\* of its model whichever way the table is iterated, and charged to the tenant
\* whose key pays for it - except for a key in Azure's api-key header, or
\* behind an empty bearer token, which the tenant resolver does not see.  The
\* upstream sees its native path.  What no provider serves is not forwarded.
Attribution ==
    \A q \in Requests :
        /\ h[q].stage = "refused" =>
              \A registry \in registries : \A p \in ToSet(registry) : ~Match(p, h[q].r)
        /\ h[q].stage = "queued" =>
              LET r == h[q].r
                  rec == h[q].row
              IN  /\ \A registry \in registries :
                        LET p == Detect(registry, r)
                        IN  /\ p # NoProvider /\ p.name = rec.provider
                            /\ p.base = <<>> => p.prefix \o rec.path = r.path
                  /\ rec.cost = expectedCost(rec)
                  /\ rec.estimated => rec.cost = 0
                  /\ r.model # NoModel => rec.model # NoModel
                  /\ r.apiKey = NoKey /\ r.bearer # EmptyBearer => rec.tenant = expectedTenant(r)

-----------------------------------------------------------------------------
(* What the reports say.                                                   *)

\* The records that were stored when part i was queried, of the tenant and
\* since t.
covered(i, t) ==
    {rec \in job.seen[i] : /\ t <= rec.ts /\ rec.ts <= job.until
                           /\ job.tenant \in {AnyTenant, rec.tenant}}

\* Entries account for each covered record exactly once, in every column.
CostsAddUp(i, since) ==
    /\ SumFunction([e \in job.parts[i] |-> e.requests]) = Cardinality(covered(i, since))
    /\ totalCost(job.parts[i]) = totalCost(covered(i, since))

TokensAddUp(i, since) ==
    /\ totalInput(job.parts[i]) = totalInput(covered(i, since))
    /\ totalOutput(job.parts[i]) = totalOutput(covered(i, since))

Accounts(i, since) == CostsAddUp(i, since) /\ TokensAddUp(i, since)

\* Grouped by key, or for a tenant, the report shows what budgets go by.
AgreesWithBudgets(since) ==
    /\ job.by = "key" /\ job.tenant = AnyTenant => \A e \in job.parts[1] :
          e.cost = GetTotalSpend(job.seen[1], e.group, since, job.until)
    /\ job.tenant # AnyTenant =>
          totalCost(job.parts[1]) = GetTotalSpendByTenant(job.seen[1], job.tenant, since, job.until)

today     == DayLen * (job.until \div DayLen)
thisMonth == MonthLen * (job.until \div MonthLen)

\* The month contains the day, though records were written in between.
SummaryTrue ==
    /\ Accounts(1, today) /\ Accounts(2, thisMonth)
    /\ totalCost(job.parts[1]) <= totalCost(job.parts[2])

\* Likewise, or a number whose query failed is 0.
StatusTrue ==
    /\ job.parts[1] # {} => Accounts(1, today)
    /\ job.parts[2] # {} => Accounts(2, thisMonth)

\* On SQLite the report may be lost as a whole.
LatencyTrue ==
    LET lasted == {rec.duration : rec \in {c \in covered(2, job.since) : c.duration > 0}}
        p      == job.parts[2]
    IN  \/ p = NoStats /\ driver = "sqlite"
        \/ /\ SumFunction(job.parts[1]) = Cardinality(covered(1, job.since))
           /\ p[1] <= p[2] /\ p[2] <= p[3]
           /\ IF lasted = {} THEN p[3] = 0 ELSE 100 * Min(lasted) <= p[1] /\ p[3] <= 100 * Max(lasted)

\* A session stored is one that a request of this run began, in the window.
HistoryTrue ==
    \A s \in job.parts[1] :
        /\ s.started \in job.since .. job.until
        /\ \E q \in Requests : h[q].stage # "new" /\ \E r \in Traffic[q] : r.session = s.id

\* A finished report tells the truth about its window: costs add up to the
\* records that were stored when it was queried, whatever it groups by and
\* however late records come in, and agree with what budgets are checked
\* against; series add up to the same; the day is part of the month even if
\* the report spans midnight; no cheaper request displaces a dearer one;
\* percentiles are ordered and lie within what was measured, or the reply is
\* null.
ReportsTrue ==
    job.pc = "done" =>
        CASE job.kind = "summary"    -> SummaryTrue
          [] job.kind = "status"     -> StatusTrue
          [] job.kind = "keys"       -> Accounts(1, thisMonth) /\ AgreesWithBudgets(thisMonth)
          [] job.kind \in {"costs", "cli"} ->
                Accounts(1, job.since) /\ AgreesWithBudgets(job.since)
          [] job.kind = "timeseries" -> CostsAddUp(1, job.since)
          [] job.kind = "tokens"     -> TokensAddUp(1, job.since)
          [] job.kind = "expensive"  ->
                \A x \in covered(1, job.since) \ job.parts[1], y \in job.parts[1] : x.cost <= y.cost
          [] job.kind = "stats"      ->
                /\ job.parts[1].requests = Cardinality(covered(1, job.since))
                /\ job.parts[1].requests > 0
          [] job.kind = "latency"    -> LatencyTrue
          [] job.kind = "history"    -> HistoryTrue

\* Every report that asks for a connection is answered or fails, even with the
\* single connection of SQLite, which records, sessions and all reports share:
\* no handler asks for a second connection while it holds the first.
QueriesReturn == job.pc = "wait" ~> job.pc \in {"done", "failed"}
=============================================================================
