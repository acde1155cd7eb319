------------------------------- MODULE Budget -------------------------------
(***************************************************************************)
(* Budget enforcement: internal/budget/budget.go as ServeHTTP of           *)
(* internal/proxy/proxy.go uses it.  Every request is a goroutine that     *)
(* matches a rule, looks its spend up in the cache or queries the ledger   *)
(* (two queries, then a cache store), is blocked, rejected by the          *)
(* pre-flight test or forwarded, and is recorded in the ledger some time   *)
(* after its response, by a worker of the recorder.  Rules are replaced    *)
(* and stale cache entries swept concurrently.                             *)
(*                                                                         *)
(* Time is a bounded tick counter with days of DayLen and months of        *)
(* MonthLen ticks.  An API key stands for its hash; a scope (a key or a    *)
(* tenant) is a cache key.                                                 *)
(***************************************************************************)
EXTENDS BudgetRules, FiniteSets

CONSTANTS
    Requests,       \* requests, one goroutine each
    Keys,           \* raw API keys, possibly with NoKey
    Tenants,        \* resolved tenants, possibly with NoTenant
    Worsts,         \* worst-case costs computed from max_tokens, 0 for none
    Costs,          \* actual costs of metered responses
    Default,        \* config.Default
    RuleSets,       \* the rule lists the configuration may hold
    CacheTTL,       \* cacheTTL in ticks
    DayLen, MonthLen,
    MaxTime,        \* bound on the clock
    QueryErrors,    \* whether ledger queries may fail
    MaxQuery,       \* bound on the ticks the two queries of a check take
    None

Rule == [pattern : SUBSET (Keys \cup {NoKey}), tenant : Tenants \cup {NoTenant},
         daily : Nat, monthly : Nat, soft : Nat, action : {"block", "warn", ""}]

\* A cached amount (spendEntry).
Entry == [daily : Nat, monthly : Nat, fetched : Nat]

ASSUME BudgetAssumption ==
    /\ Default \in Rule /\ RuleSets \subseteq Seq(Rule) /\ NoRule \notin Rule
    /\ Worsts \subseteq Nat /\ Costs \subseteq Nat
    /\ CacheTTL \in Nat \ {0} /\ MaxTime \in Nat
    /\ DayLen \in Nat \ {0} /\ MonthLen \in Nat \ {0}
    /\ MonthLen % DayLen = 0
    /\ QueryErrors \in BOOLEAN /\ MaxQuery \in Nat
    /\ None \notin Entry /\ None \notin Nat

VARIABLES
    now,        \* the clock
    rules,      \* config.Rules
    clearing,   \* UpdateRules has replaced the rules, not yet cleared the cache
    cache,      \* cache[s]: [daily, monthly, fetched] or None
    doomed,     \* entries evictStaleCache has found stale and not yet deleted
    ledger,     \* persisted usage records
    h,          \* h[q]: the local state of request q's handler
    lastError   \* history: when a query for the scope last failed, or None

vars == <<now, rules, clearing, cache, doomed, ledger, h, lastError>>

Scopes == ({"key"} \X Keys) \cup ({"tenant"} \X (Tenants \ {NoTenant}))

dayStart(t)   == t - (t % DayLen)
monthStart(t) == t - (t % MonthLen)

\* Result of a request no rule applies to; any result is stricter.
Unchecked == [decision |-> -1, dailySpent |-> 0, dailyLimit |-> 0,
              monthlySpent |-> 0, monthlyLimit |-> 0]

NewHandler == [pc |-> "new", key |-> NoKey, tenant |-> NoTenant, worst |-> 0,
               checkedAt |-> 0, rule |-> NoRule, scope |-> None, until |-> 0,
               daily |-> 0, monthly |-> 0, result |-> Unchecked,
               start |-> 0, cost |-> 0,
               kept |-> FALSE]      \* history: the rules are those it arrived under

Init ==
    /\ now = 0
    /\ rules \in RuleSets
    /\ clearing = FALSE
    /\ cache = [s \in Scopes |-> None]
    /\ doomed = {}
    /\ ledger = {}
    /\ h = [q \in Requests |-> NewHandler]
    /\ lastError = [s \in Scopes |-> None]

\* GetTotalSpend and GetTotalSpendByTenant over a set of ledger records: the
\* sum of their costs, as the number of the cents they hold.
within(records, s, since, until) ==
    {rec \in records : s \in rec.scopes /\ rec.ts >= since /\ rec.ts <= until}
cents(records) == UNION {{rec} \X (1 .. rec.cost) : rec \in records}
Spend(records, s, since, until) == Cardinality(cents(within(records, s, since, until)))

\* The handler returns; its locals are gone.
Finish(q, label) == h' = [h EXCEPT ![q] = [NewHandler EXCEPT !.pc = label]]

-----------------------------------------------------------------------------
(* Check.                                                                  *)

Enabled == hasLimit(Default) \/ Len(rules) > 0

\* The request reaches the budget gate and matches its key's rule.
Arrive(q) ==
    /\ h[q].pc = "new"
    /\ \E k \in Keys, t \in Tenants, w \in Worsts :
         LET rule == matchRule(rules, Default, k)
         IN  h' = [h EXCEPT ![q] = [@ EXCEPT
                 !.key = k, !.tenant = t, !.worst = w, !.checkedAt = now, !.kept = TRUE,
                 !.rule = rule, !.scope = <<"key", k>>,
                 !.pc = IF ~Enabled THEN "decide"
                        ELSE IF hasLimit(rule) THEN "lookup"
                        ELSE IF t # NoTenant THEN "tenant" ELSE "decide"]]
    /\ UNCHANGED <<now, rules, clearing, cache, doomed, ledger, lastError>>

\* matchTenantRule, which reads the rules a second time.
MatchTenant(q) ==
    /\ h[q].pc = "tenant"
    /\ LET rule == matchTenantRule(rules, Default, h[q].tenant)
       IN  h' = [h EXCEPT ![q] = [@ EXCEPT
                 !.rule = rule, !.scope = <<"tenant", h[q].tenant>>,
                 !.pc = IF rule = NoRule THEN "decide" ELSE "lookup"]]
    /\ UNCHANGED <<now, rules, clearing, cache, doomed, ledger, lastError>>

\* The handler after its rule has been evaluated against the amounts spent:
\* the key's result is kept and the tenant's merged into it.
evaluated(q, daily, monthly) ==
    [h[q] EXCEPT !.result = stricter(@, evaluateRule(h[q].rule, daily, monthly)),
                 !.daily = 0, !.monthly = 0, !.until = 0,
                 !.pc = IF h[q].scope[1] = "key" /\ h[q].tenant # NoTenant
                        THEN "tenant" ELSE "decide"]

\* Faulty: an entry as old as the TTL still counts.
freshAtTTL(entry) == entry # None /\ now - entry.fetched <= CacheTTL

fresh(entry) == entry # None /\ now - entry.fetched < CacheTTL

\* getSpend, cache hit.
Hit(q) ==
    LET entry == cache[h[q].scope]
    IN  /\ h[q].pc = "lookup"
        /\ fresh(entry)
        /\ h' = [h EXCEPT ![q] = evaluated(q, entry.daily, entry.monthly)]
        /\ UNCHANGED <<now, rules, clearing, cache, doomed, ledger, lastError>>

\* getSpend, cache miss: the query interval ends at the present moment.
Miss(q) ==
    /\ h[q].pc = "lookup"
    /\ ~fresh(cache[h[q].scope])
    /\ h' = [h EXCEPT ![q] = [@ EXCEPT !.until = now, !.pc = "daily"]]
    /\ UNCHANGED <<now, rules, clearing, cache, doomed, ledger, lastError>>

\* The amount a query returns; a failed one is logged and counts as 0.
queryResult(q, since, ok) ==
    IF ok THEN Spend(ledger, h[q].scope, since, h[q].until) ELSE 0

noteError(q, ok) ==
    lastError' = IF ok THEN lastError ELSE [lastError EXCEPT ![h[q].scope] = now]

QueryDaily(q) ==
    /\ h[q].pc = "daily"
    /\ \E ok \in {TRUE, ~QueryErrors} :
         /\ h' = [h EXCEPT ![q] = [@ EXCEPT
                !.daily = queryResult(q, dayStart(h[q].until), ok), !.pc = "monthly"]]
         /\ noteError(q, ok)
    /\ UNCHANGED <<now, rules, clearing, cache, doomed, ledger>>

QueryMonthly(q) ==
    /\ h[q].pc = "monthly"
    /\ \E ok \in {TRUE, ~QueryErrors} :
         /\ h' = [h EXCEPT ![q] = [@ EXCEPT
                !.monthly = queryResult(q, monthStart(h[q].until), ok), !.pc = "store"]]
         /\ noteError(q, ok)
    /\ UNCHANGED <<now, rules, clearing, cache, doomed, ledger>>

\* Faulty: the two amounts change places.
StoreEntrySwapped(q) ==
    /\ h[q].pc = "store"
    /\ cache' = [cache EXCEPT ![h[q].scope] =
           [daily |-> h[q].monthly, monthly |-> h[q].daily, fetched |-> now]]
    /\ h' = [h EXCEPT ![q] = evaluated(q, h[q].daily, h[q].monthly)]
    /\ UNCHANGED <<now, rules, clearing, doomed, ledger, lastError>>

\* The amounts are cached from this moment on, failed queries included.
StoreEntry(q) ==
    /\ h[q].pc = "store"
    /\ cache' = [cache EXCEPT ![h[q].scope] =
           [daily |-> h[q].daily, monthly |-> h[q].monthly, fetched |-> now]]
    /\ h' = [h EXCEPT ![q] = evaluated(q, h[q].daily, h[q].monthly)]
    /\ UNCHANGED <<now, rules, clearing, doomed, ledger, lastError>>

-----------------------------------------------------------------------------
(* ServeHTTP after Check, and the response.                                *)

\* 429 for a blocked request, 429 for a failed pre-flight test, else the
\* request is forwarded and its start time taken.
Decide(q) ==
    /\ h[q].pc = "decide"
    /\ \/ /\ h[q].result.decision = Block
          /\ Finish(q, "blocked")
       \/ /\ h[q].result.decision # Block
          /\ preflightRejects(h[q].result, h[q].worst)
          /\ Finish(q, "preflight")
       \/ /\ h[q].result.decision # Block
          /\ ~preflightRejects(h[q].result, h[q].worst)
          /\ h' = [h EXCEPT ![q] = [NewHandler EXCEPT !.pc = "upstream", !.start = now,
                                       !.key = h[q].key, !.tenant = h[q].tenant]]
    /\ UNCHANGED <<now, rules, clearing, cache, doomed, ledger, lastError>>

\* The response is metered and its usage record enqueued.
Respond(q) ==
    /\ h[q].pc = "upstream"
    /\ \E c \in Costs : h' = [h EXCEPT ![q] = [@ EXCEPT !.cost = c, !.pc = "enqueued"]]
    /\ UNCHANGED <<now, rules, clearing, cache, doomed, ledger, lastError>>

\* A recorder worker inserts the record, stamped with the request's start.
\* `at` is history: when the insert happened.
Persist(q) ==
    /\ h[q].pc = "enqueued"
    /\ ledger' = ledger \cup
           {[id |-> q, cost |-> h[q].cost, ts |-> h[q].start, at |-> now,
             scopes |-> {<<"key", h[q].key>>, <<"tenant", h[q].tenant>>}]}
    /\ Finish(q, "done")
    /\ UNCHANGED <<now, rules, clearing, cache, doomed, lastError>>

\* The response is not metered (an error status, an unreadable body), or
\* the record is dropped by a full buffer or refused by the ledger.
NotRecorded(q) ==
    /\ h[q].pc \in {"upstream", "enqueued"}
    /\ Finish(q, "done")
    /\ UNCHANGED <<now, rules, clearing, cache, doomed, ledger, lastError>>

-----------------------------------------------------------------------------
(* UpdateRules, evictStaleCache and the clock.                             *)

UpdateRules ==
    /\ ~clearing
    /\ rules' \in RuleSets
    /\ clearing' = TRUE
    /\ h' = [q \in Requests |-> [h[q] EXCEPT !.kept = FALSE]]
    /\ UNCHANGED <<now, cache, doomed, ledger, lastError>>

ClearCache ==
    /\ clearing
    /\ cache' = [s \in Scopes |-> None]
    /\ clearing' = FALSE
    /\ UNCHANGED <<now, rules, doomed, ledger, h, lastError>>

\* Range finds the stale entries; a fresh one may be stored before ...
EvictScan ==
    /\ doomed = {}
    /\ doomed' = {s \in Scopes : cache[s] # None /\ now - cache[s].fetched > CacheTTL}
    /\ doomed' # {}
    /\ UNCHANGED <<now, rules, clearing, cache, ledger, h, lastError>>

\* ... Delete removes whatever the key holds by then.
EvictDelete ==
    /\ doomed # {}
    /\ cache' = [s \in Scopes |-> IF s \in doomed THEN None ELSE cache[s]]
    /\ doomed' = {}
    /\ UNCHANGED <<now, rules, clearing, ledger, h, lastError>>

Tick ==
    /\ now < MaxTime
    /\ \A q \in Requests : h[q].pc \in {"daily", "monthly", "store"}
                            => now - h[q].until < MaxQuery
    /\ now' = now + 1
    /\ UNCHANGED <<rules, clearing, cache, doomed, ledger, h, lastError>>

Handle(q) ==
    \/ Arrive(q) \/ MatchTenant(q) \/ Hit(q) \/ Miss(q) \/ QueryDaily(q)
    \/ QueryMonthly(q) \/ StoreEntry(q) \/ Decide(q) \/ Respond(q)
    \/ Persist(q) \/ NotRecorded(q)

Next == \/ UpdateRules \/ ClearCache \/ EvictScan \/ EvictDelete \/ Tick
        \/ \E q \in Requests : Handle(q)

Spec == Init /\ [][Next]_vars

-----------------------------------------------------------------------------
(* Properties.                                                             *)

Results == [decision : -1 .. 2, dailySpent : Nat, dailyLimit : Nat,
            monthlySpent : Nat, monthlyLimit : Nat]
PCs == {"new", "tenant", "lookup", "daily", "monthly", "store", "decide",
        "blocked", "preflight", "upstream", "enqueued", "done"}

\* Every variable has its type; a handler past its match has a scope.
TypeOK ==
    /\ now \in 0 .. MaxTime
    /\ rules \in RuleSets
    /\ clearing \in BOOLEAN
    /\ \A s \in Scopes : cache[s] # None =>
          /\ cache[s].daily \in Nat /\ cache[s].monthly \in Nat
          /\ cache[s].fetched \in 0 .. now
    /\ doomed \subseteq Scopes
    /\ \A rec \in ledger : rec.ts <= rec.at /\ rec.at <= now
    /\ \A q \in Requests :
          /\ h[q].pc \in PCs
          /\ h[q].result \in Results
          /\ h[q].pc \in {"lookup", "daily", "monthly", "store"} => h[q].scope \in Scopes
    /\ \A s \in Scopes : lastError[s] # None => lastError[s] \in 0 .. now

forwarded(q) == h[q].pc = "decide" /\ h'[q].pc = "upstream"
blocked(q)   == h[q].pc = "decide" /\ h'[q].pc = "blocked"

\* The rule that governs a scope: the key's rule, or the tenant's.
ruleOf(s) == IF s[1] = "key" THEN matchRule(rules, Default, s[2])
             ELSE matchTenantRule(rules, Default, s[2])
scopesOf(q) == {<<"key", h[q].key>>, <<"tenant", h[q].tenant>>} \cap Scopes

\* The decision the records given would have produced for the scope today.
verdict(s, records) ==
    IF ruleOf(s) = NoRule THEN Allow
    ELSE decision(ruleOf(s), Spend(records, s, dayStart(now), now),
                             Spend(records, s, monthStart(now), now))

\* The oldest query a check that began at checkedAt may rely on: a cached
\* amount is younger than CacheTTL, and counted from the end of its queries.
oldest(q) == h[q].checkedAt - CacheTTL - MaxQuery

\* A key or tenant whose recorded spend has reached a blocking limit is let
\* through only for CacheTTL and the duration of a query longer: if the
\* records that were in the ledger that long before the check began already
\* exhaust a limit, the request is not forwarded - unless a failed query has
\* put 0 into the cache within that time.  Concurrent checks, late records,
\* older results stored over newer ones, cache sweeps and rule updates before
\* the check do not extend the window.
OverspendBounded ==
    \A q \in Requests : forwarded(q) /\ h[q].kept => \A s \in scopesOf(q) :
        \/ lastError[s] # None /\ lastError[s] > oldest(q)
        \/ verdict(s, {rec \in ledger : rec.at <= oldest(q)}) # Block

OverspendWindow == [][OverspendBounded]_vars

\* The spend of a period: what the ledger holds for a scope in the day, or
\* the month, of time t.
spentInDay(s, t)   == Spend(ledger, s, dayStart(t), now)
spentInMonth(s, t) == Spend(ledger, s, monthStart(t), now)

\* No request is blocked on money that was not spent: behind every block
\* there is a scope whose records exhaust the limit in the period of the
\* decision, or in the period of the queries it relies on (an amount fetched
\* before midnight outlives it).
BlockOnMoneySpent ==
    \A q \in Requests : blocked(q) =>
        LET r == h[q].result
        IN  \E s \in scopesOf(q), t \in oldest(q) .. now :
               /\ t >= 0
               /\ \/ r.dailyLimit > 0 /\ spentInDay(s, t) >= r.dailyLimit
                  \/ r.monthlyLimit > 0 /\ spentInMonth(s, t) >= r.monthlyLimit

BlockJustified == [][BlockOnMoneySpent]_vars

\* The pair of cached amounts is consistent although it comes from two
\* queries with inserts in between: this month's spend covers today's, so
\* a block on the daily amount is never contradicted by the monthly one.
\* (Stated of well-typed states.)
MonthCoversDay ==
    /\ TypeOK
    /\ \A s \in Scopes : cache[s] # None /\ lastError[s] = None
                          => cache[s].monthly >= cache[s].daily
=============================================================================
