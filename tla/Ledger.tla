------------------------------- MODULE Ledger -------------------------------
(***************************************************************************)
(* The queries of internal/ledger over the two tables, as sqlite.go and    *)
(* postgres.go state them.  A table is a set of rows; a usage record has a *)
(* timestamp ts, the columns reports group by, tokens, cost and duration.  *)
(* Times are ticks: an hour is HourLen, a day DayLen of them.              *)
(***************************************************************************)
EXTENDS Integers, Sequences, SequencesExt, FiniteSetsExt, TLC

CONSTANTS
    AnyTenant,      \* no tenant filter
    MinuteLen, HourLen, DayLen,
    LatencyLimits,  \* bounds of the latency histogram
    PercentileRows, \* LIMIT of the percentile query (10000)
    PoolSize        \* MaxOpenConns of PostgreSQL

\* WHERE timestamp >= ? AND timestamp <= ? [AND tenant_id = ?]
selected(table, since, until, tenant) ==
    {rec \in table : /\ rec.ts >= since /\ rec.ts <= until
                     /\ tenant = AnyTenant \/ rec.tenant = tenant}

\* SUM of a column.
totalCost(S)   == SumFunction([rec \in S |-> rec.cost])
totalInput(S)  == SumFunction([rec \in S |-> rec.input])
totalOutput(S) == SumFunction([rec \in S |-> rec.output])

\* The column to group by; whatever is not listed groups by model.
groupCol(groupBy, rec) ==
    CASE groupBy = "provider" -> rec.provider
      [] groupBy = "key"      -> rec.key
      [] groupBy = "agent"    -> rec.agent
      [] groupBy = "session"  -> rec.session
      [] OTHER                -> rec.model

\* One entry per group.  (The columns that are not grouped by have the value
\* of some row of the group.)
QueryCosts(table, since, until, tenant, groupBy) ==
    LET rows == selected(table, since, until, tenant)
    IN  {LET members == {rec \in rows : groupCol(groupBy, rec) = g}
         IN  [group |-> g, requests |-> Cardinality(members), cost |-> totalCost(members),
              input |-> totalInput(members), output |-> totalOutput(members)]
         : g \in {groupCol(groupBy, rec) : rec \in rows}}

\* The time a timestamp is cut to; an unknown interval means an hour.
bucket(interval, t) ==
    LET unit == CASE interval = "minute" -> MinuteLen
                  [] interval = "day"    -> DayLen
                  [] OTHER               -> HourLen
    IN  t - (t % unit)

\* GROUP BY bucket: the rows of each bucket.
buckets(table, interval, since, until, tenant) ==
    LET rows == selected(table, since, until, tenant)
    IN  [b \in {bucket(interval, rec.ts) : rec \in rows} |->
            {rec \in rows : bucket(interval, rec.ts) = b}]

QueryCostTimeseries(table, interval, since, until, tenant) ==
    LET series == buckets(table, interval, since, until, tenant)
    IN  {[at |-> b, requests |-> Cardinality(series[b]), cost |-> totalCost(series[b])]
         : b \in DOMAIN series}

QueryTokenTimeseries(table, interval, since, until, tenant) ==
    LET series == buckets(table, interval, since, until, tenant)
    IN  {[at |-> b, input |-> totalInput(series[b]), output |-> totalOutput(series[b])]
         : b \in DOMAIN series}

GetTotalSpend(table, key, since, until) ==
    totalCost({rec \in selected(table, since, until, AnyTenant) : rec.key = key})

GetTotalSpendByTenant(table, tenant, since, until) ==
    totalCost(selected(table, since, until, tenant))

\* The results an ORDER BY ... DESC LIMIT may return, by the rank of the rows:
\* rows that tie come in any order.
top(rank, limit) ==
    LET rows == DOMAIN rank
    IN  {s \in kSubset(IF Cardinality(rows) < limit THEN Cardinality(rows) ELSE limit, rows) :
            \A x \in s, y \in rows \ s : rank[x] >= rank[y]}

QueryRecentExpensive(table, since, until, tenant, limit) ==
    top([rec \in selected(table, since, until, tenant) |-> rec.cost], limit)

\* SUM over no row is NULL, which does not scan into an int.
QueryErrorStats(table, since, until, tenant) ==
    LET rows == selected(table, since, until, tenant)
    IN  [ok |-> rows # {}, requests |-> Cardinality(rows),
         errors |-> Cardinality({rec \in rows : rec.status >= 400}),
         cost |-> totalCost(rows)]          \* the average's numerator

QueryRecentSessions(table, since, until, status, limit) ==
    LET found == {s \in table : /\ s.started >= since /\ s.started <= until
                                /\ status = "" \/ s.status = status}
    IN  top([s \in found |-> s.started], limit)

\* The histogram of QueryLatencyPercentiles, with durations in ticks: bucket i
\* holds those that reach i of the limits.
latencyBuckets(table, since, until, tenant) ==
    LET rows == selected(table, since, until, tenant)
        label(rec) == Cardinality({limit \in LatencyLimits : rec.duration >= limit})
    IN  [i \in {label(rec) : rec \in rows} |-> Cardinality({rec \in rows : label(rec) = i})]

\* The positive durations of a window in ascending order: i of them are at most
\* as long as the i-th.
sortedDurations(table, since, until, tenant) ==
    LET rows == {rec \in selected(table, since, until, tenant) : rec.duration > 0}
        upTo(d) == Cardinality({rec \in rows : rec.duration <= d})
    IN  [i \in 1 .. Cardinality(rows) |->
            Min({d \in {rec.duration : rec \in rows} : upTo(d) >= i})]

\* percentile, p in hundredths and the result in hundredths of a tick:
\* linear interpolation between the two neighbours.
percentile(sorted, p) ==
    LET idx   == p * (Len(sorted) - 1)
        lower == idx \div 100
        upper == lower + 1
        frac  == idx % 100
    IN  IF sorted = <<>> THEN 0
        ELSE IF upper >= Len(sorted) THEN 100 * sorted[Len(sorted)]
        ELSE sorted[lower + 1] * (100 - frac) + sorted[upper + 1] * frac

p50p90p99(sorted) == <<percentile(sorted, 50), percentile(sorted, 90), percentile(sorted, 99)>>

\* SQLite: percentile over the PercentileRows smallest durations.
latencyPercentiles(table, since, until, tenant) ==
    LET sorted == sortedDurations(table, since, until, tenant)
    IN  p50p90p99(SubSeq(sorted, 1, IF Len(sorted) < PercentileRows
                                    THEN Len(sorted) ELSE PercentileRows))

\* PostgreSQL: PERCENTILE_CONT, which interpolates alike, over all of them.
pgPercentiles(table, since, until, tenant) ==
    p50p90p99(sortedDurations(table, since, until, tenant))

-----------------------------------------------------------------------------
(* The two drivers differ in the size of their connection pool, and in     *)
(* that PostgreSQL rejects QueryCosts: it selects columns it neither       *)
(* groups by nor aggregates.                                               *)

Drivers == {"sqlite", "postgres"}

maxOpen(driver) == IF driver = "sqlite" THEN 1 ELSE PoolSize

rejectsQueryCosts(driver) == driver = "postgres"

\* INSERT INTO usage_records.
RecordUsage(table, rec) == table \cup {rec}

\* INSERT INTO agent_sessions ... ON CONFLICT(id) DO UPDATE: the start of a
\* session that is stored stays as it is.
UpsertSession(table, sess) ==
    LET old == {s \in table : s.id = sess.id}
    IN  (table \ old) \cup (IF old = {} THEN {sess}
                            ELSE {[s EXCEPT !.status = sess.status] : s \in old})
=============================================================================
