---------------------------- MODULE BudgetProofs ----------------------------
(***************************************************************************)
(* What budget enforcement guarantees for all rules, amounts, requests and *)
(* clocks: first the decision rules, then the manager with its cache.      *)
(***************************************************************************)
EXTENDS Budget, FiniteSetTheorems, TLAPS

-----------------------------------------------------------------------------
(* The decision rules.                                                     *)

\* A soft limit that was reached stays reached when more is spent.
LEMMA NearLimitMonotone ==
  ASSUME NEW rule, rule.daily \in Nat, rule.monthly \in Nat, rule.soft \in Nat,
         NEW d1 \in Nat, NEW d2 \in Nat, NEW m1 \in Nat, NEW m2 \in Nat,
         d1 <= d2, m1 <= m2, nearLimit(rule, d1, m1)
  PROVE  nearLimit(rule, d2, m2)
  <1> DEFINE pd == rule.daily * rule.soft
             pm == rule.monthly * rule.soft
  <1>1. pd \in Nat /\ pm \in Nat
    OBVIOUS
  <1>2. 100 * d1 >= pd => 100 * d2 >= pd
    <2> HIDE DEF pd
    <2> QED BY <1>1
  <1>3. 100 * m1 >= pm => 100 * m2 >= pm
    <2> HIDE DEF pm
    <2> QED BY <1>1
  <1> QED BY <1>2, <1>3 DEF nearLimit

\* Spending more never weakens the decision of a rule: a spend cache that is
\* too low can only let a request through, never block it wrongly.
THEOREM DecisionMonotone ==
  ASSUME NEW rule, rule.daily \in Nat, rule.monthly \in Nat, rule.soft \in Nat,
         NEW d1 \in Nat, NEW d2 \in Nat, NEW m1 \in Nat, NEW m2 \in Nat,
         d1 <= d2, m1 <= m2
  PROVE  decision(rule, d1, m1) <= decision(rule, d2, m2)
  <1>1. exceeded(rule, d1, m1) => exceeded(rule, d2, m2)
    BY DEF exceeded
  <1>2. nearLimit(rule, d1, m1) => nearLimit(rule, d2, m2)
    BY NearLimitMonotone
  <1> QED BY <1>1, <1>2 DEF decision, Allow, Warn, Block

\* Merging the tenant's result never weakens the key's, and a blocking
\* result of either blocks the request (Check merges by strictness).
THEOREM StricterThanBoth ==
  ASSUME NEW a, NEW b, a.decision \in -1 .. Block, b.decision \in -1 .. Block
  PROVE  /\ stricter(a, b).decision >= a.decision
         /\ stricter(a, b).decision >= b.decision
         /\ stricter(a, b).decision = Block <=> (a.decision = Block \/ b.decision = Block)
  BY DEF stricter, Block

\* Merging never loses a limit: where the default rule or the matching rule
\* has a limit the merged rule has one.
THEOREM MergeKeepsLimits ==
  ASSUME NEW r \in Rule, NEW default \in Rule,
         hasLimit(r) \/ hasLimit(default)
  PROVE  hasLimit(mergeWithDefault(r, default))
  <1> DEFINE m == mergeWithDefault(r, default)
  <1>1. /\ r.daily \in Nat /\ r.monthly \in Nat
        /\ default.daily \in Nat /\ default.monthly \in Nat
    BY DEF Rule
  <1>2. m.daily = IF r.daily <= 0 THEN default.daily ELSE r.daily
    BY DEF mergeWithDefault
  <1>3. m.monthly = IF r.monthly <= 0 THEN default.monthly ELSE r.monthly
    BY DEF mergeWithDefault
  <1> HIDE DEF m
  <1>4. hasLimit(m)
    BY <1>1, <1>2, <1>3 DEF hasLimit
  <1> QED BY <1>4 DEF m

\* Where a limit is exhausted, the pre-flight test rejects every request that
\* states max_tokens, whatever the rule's action: "warn" does not only warn.
THEOREM ExhaustedRejectsPreflight ==
  ASSUME NEW rule, rule.daily \in Nat, rule.monthly \in Nat,
         NEW daily \in Nat, NEW monthly \in Nat, NEW worst \in Nat, worst > 0,
         exceeded(rule, daily, monthly)
  PROVE  preflightRejects(evaluateRule(rule, daily, monthly), worst)
  BY DEF exceeded, preflightRejects, evaluateRule

-----------------------------------------------------------------------------
(* The inductive invariant of the manager.                                 *)

Handler == [pc : PCs, key : Keys \cup {NoKey}, tenant : Tenants \cup {NoTenant}, worst : Nat,
            checkedAt : Nat, rule : Rule \cup {NoRule}, scope : Scopes \cup {None}, until : Nat,
            daily : Nat, monthly : Nat, result : Results, start : Nat, cost : Nat, kept : BOOLEAN]

\* The records that a query at time u or later finds for certain.
settled(u) == {rec \in ledger : rec.at < u}

\* An amount d for the period from since to u holds no money that was not
\* spent, and, unless a query has failed since, all that was settled.
NotMore(s, d, since, u) == d <= Spend(ledger, s, since, u)
NotLess(s, d, since, u) ==
    \/ lastError[s] # None /\ lastError[s] >= u
    \/ Spend(settled(u), s, since, u) <= d

\* The clock, the rules, the ledger and the errors.
EnvInv ==
    /\ now \in 0 .. MaxTime /\ rules \in RuleSets /\ clearing \in BOOLEAN /\ doomed \subseteq Scopes
    /\ \A rec \in ledger : /\ rec.cost \in Nat /\ rec.ts \in Nat /\ rec.at \in Nat
                           /\ rec.ts <= rec.at /\ rec.at <= now
    /\ IsFiniteSet(cents(ledger))
    /\ lastError \in [Scopes -> Nat \cup {None}]
    /\ \A s \in Scopes : lastError[s] # None => lastError[s] <= now

\* A cached pair of amounts was queried at most MaxQuery before it was stored.
EntryOK(s, e) ==
    /\ e \in Entry /\ e.fetched <= now
    /\ lastError[s] = None => e.daily <= e.monthly
    /\ \E u \in 0 .. e.fetched :
          /\ e.fetched - MaxQuery <= u
          /\ NotMore(s, e.daily, dayStart(u), u) /\ NotMore(s, e.monthly, monthStart(u), u)
          /\ NotLess(s, e.daily, dayStart(u), u) /\ NotLess(s, e.monthly, monthStart(u), u)

CacheInv ==
    /\ cache \in [Scopes -> Entry \cup {None}]
    /\ \A s \in Scopes : cache[s] # None => EntryOK(s, cache[s])

\* The scopes of a handler, and the oldest query it may rely on.
own(g)    == {<<"key", g.key>>, <<"tenant", g.tenant>>} \cap Scopes
horizon(g) == g.checkedAt - CacheTTL - MaxQuery

\* A blocking result is backed by recorded spend.
Backed(g) ==
    \E s \in own(g), t \in horizon(g) .. now :
       /\ t >= 0
       /\ \/ g.result.dailyLimit > 0 /\ spentInDay(s, t) >= g.result.dailyLimit
          \/ g.result.monthlyLimit > 0 /\ spentInMonth(s, t) >= g.result.monthlyLimit

\* What was spent in the scope before the horizon does not block.
Clean(g, s) ==
    \/ lastError[s] # None /\ lastError[s] > horizon(g)
    \/ verdict(s, {rec \in ledger : rec.at <= horizon(g)}) # Block

\* The scopes whose rule the handler has evaluated.
evaluatedScopes(g) ==
    IF g.pc = "decide" THEN own(g)
    ELSE IF g.pc = "tenant" \/ g.scope = <<"tenant", g.tenant>> THEN {<<"key", g.key>>} ELSE {}

Checking == {"tenant", "lookup", "daily", "monthly", "store", "decide"}
Looking  == {"lookup", "daily", "monthly", "store"}
Querying == {"daily", "monthly", "store"}

\* Where the handler stands: what it has matched and when it began.
PlaceOK(g) ==
    /\ g \in Handler
    /\ g.pc \in Checking => g.key \in Keys /\ g.tenant \in Tenants /\ g.checkedAt <= now
    /\ g.pc \in {"upstream", "enqueued"} => g.start <= now
    /\ g.pc = "new" => g.result = Unchecked
    /\ g.pc = "tenant" => g.tenant # NoTenant
    /\ g.pc \in Looking => /\ g.scope \in own(g) /\ g.rule \in Rule
                           /\ g.kept => g.rule = ruleOf(g.scope)
    /\ g.pc \in Querying => g.checkedAt <= g.until /\ g.until <= now /\ now - g.until <= MaxQuery

\* The amounts it has queried.
AmountsOK(g) ==
    /\ g.pc \in {"monthly", "store"} => /\ NotMore(g.scope, g.daily, dayStart(g.until), g.until)
                                        /\ NotLess(g.scope, g.daily, dayStart(g.until), g.until)
    /\ g.pc = "store" => /\ NotMore(g.scope, g.monthly, monthStart(g.until), g.until)
                         /\ NotLess(g.scope, g.monthly, monthStart(g.until), g.until)
                         /\ lastError[g.scope] = None => g.daily <= g.monthly

\* The result it has so far.
OutcomeOK(g) ==
    g.pc \in Checking =>
       /\ g.result.decision = Block => Backed(g)
       /\ g.result.decision # Block /\ g.kept => \A s \in evaluatedScopes(g) : Clean(g, s)

HandlerOK(g) == PlaceOK(g) /\ AmountsOK(g) /\ OutcomeOK(g)

HandlersInv ==
    /\ h \in [Requests -> Handler]
    /\ \A q \in Requests : HandlerOK(h[q])

IInv == EnvInv /\ CacheInv /\ HandlersInv

-----------------------------------------------------------------------------
(* Days and months.                                                        *)

LEMMA Multiples ==
  ASSUME NEW L \in Nat \ {0}, NEW a \in Int, NEW b \in Int, a < b
  PROVE  L * a + L <= L * b
  <1>1. b - a - 1 \in Nat
    OBVIOUS
  <1>2. L * (b - a - 1) \in Nat
    BY <1>1
  <1>3. L * b = L * a + L + L * (b - a - 1)
    OBVIOUS
  <1>4. L * a \in Int /\ L * b \in Int
    OBVIOUS
  <1> QED BY <1>2, <1>3, <1>4

LEMMA Remainder ==
  ASSUME NEW L \in Nat \ {0}, NEW t \in Nat
  PROVE  /\ t = L * (t \div L) + (t % L) /\ t \div L \in Nat /\ t % L \in 0 .. L - 1
         /\ L * (t \div L) \in Nat
  OBVIOUS

\* Periods of length L begin no earlier for later times.
LEMMA StartMonotone ==
  ASSUME NEW L \in Nat \ {0}, NEW t \in Nat, NEW u \in Nat, t <= u
  PROVE  t - (t % L) <= u - (u % L)
  <1> DEFINE a == t \div L
             b == u \div L
             x == L * a
             y == L * b
  <1>1. /\ t = x + (t % L) /\ a \in Nat /\ t % L \in 0 .. L - 1 /\ x \in Nat
        /\ u = y + (u % L) /\ b \in Nat /\ u % L \in 0 .. L - 1 /\ y \in Nat
    BY Remainder
  <1>2. b < a => y + L <= x
    BY <1>1, Multiples
  <1>3. a < b => x + L <= y
    BY <1>1, Multiples
  <1>4. a = b => x = y
    OBVIOUS
  <1> HIDE DEF a, b, x, y
  <1> QED BY <1>1, <1>2, <1>3, <1>4

\* A longer period, of whole shorter ones, begins no later.
LEMMA LongerStarts ==
  ASSUME NEW D \in Nat \ {0}, NEW M \in Nat \ {0}, M % D = 0, NEW t \in Nat
  PROVE  t - (t % M) <= t - (t % D)
  <1> DEFINE k == M \div D
             a == t \div M
             r == t % M
             b == t \div D
             c == r \div D
  <1>1. M = D * k /\ k \in Nat
    BY Remainder
  <1>2. t = M * a + r /\ a \in Nat /\ r \in Nat
    BY Remainder
  <1>3. t = D * b + (t % D) /\ b \in Nat /\ t % D \in 0 .. D - 1
    BY Remainder
  <1>4. M * a = D * (k * a) /\ k * a \in Nat
    BY <1>1, <1>2
  <1> DEFINE e == k * a
             x == D * e
             y == D * b
  <1> HIDE DEF k, a, r, b
  <1>5. x \in Nat /\ y \in Nat /\ e \in Nat /\ t = x + r /\ t = y + (t % D)
    BY <1>2, <1>3, <1>4
  <1>6. b < e => y + D <= x
    BY <1>3, <1>4, Multiples
  <1>7. e < b => x + D <= y
    BY <1>3, <1>4, Multiples
  <1>8. e = b => x = y
    OBVIOUS
  <1> HIDE DEF e, x, y
  <1>9. t % D <= r
    BY <1>2, <1>3, <1>5, <1>6, <1>7, <1>8
  <1> QED BY <1>2, <1>3, <1>9 DEF r

LEMMA Periods ==
  /\ \A t \in Nat : /\ dayStart(t) \in Nat /\ dayStart(t) <= t
                    /\ monthStart(t) \in Nat /\ monthStart(t) <= dayStart(t)
  /\ \A t, u \in Nat : t <= u => dayStart(t) <= dayStart(u) /\ monthStart(t) <= monthStart(u)
  <1>1. DayLen \in Nat \ {0} /\ MonthLen \in Nat \ {0} /\ MonthLen % DayLen = 0
    BY BudgetAssumption
  <1>2. ASSUME NEW t \in Nat
        PROVE  /\ dayStart(t) \in Nat /\ dayStart(t) <= t
               /\ monthStart(t) \in Nat /\ monthStart(t) <= dayStart(t)
    <2>1. /\ t - (t % DayLen) \in Nat /\ t - (t % DayLen) <= t
          /\ t - (t % MonthLen) \in Nat
      <3>1. /\ t = DayLen * (t \div DayLen) + (t % DayLen)
            /\ DayLen * (t \div DayLen) \in Nat /\ t % DayLen \in Nat
        BY <1>1, Remainder
      <3>2. /\ t = MonthLen * (t \div MonthLen) + (t % MonthLen)
            /\ MonthLen * (t \div MonthLen) \in Nat /\ t % MonthLen \in Nat
        BY <1>1, Remainder
      <3> DEFINE x == DayLen * (t \div DayLen)
                 y == t % DayLen
                 z == MonthLen * (t \div MonthLen)
                 w == t % MonthLen
      <3> HIDE DEF x, y, z, w
      <3> QED BY <3>1, <3>2 DEF x, y, z, w
    <2>2. t - (t % MonthLen) <= t - (t % DayLen)
      BY <1>1, LongerStarts
    <2> QED BY <2>1, <2>2 DEF dayStart, monthStart
  <1>3. ASSUME NEW t \in Nat, NEW u \in Nat, t <= u
        PROVE  dayStart(t) <= dayStart(u) /\ monthStart(t) <= monthStart(u)
    BY <1>1, <1>3, StartMonotone DEF dayStart, monthStart
  <1> QED BY <1>2, <1>3

-----------------------------------------------------------------------------
(* Amounts spent.                                                          *)

LEMMA CentsMonotone ==
  ASSUME NEW A, NEW B, A \subseteq B, IsFiniteSet(cents(B))
  PROVE  /\ IsFiniteSet(cents(A)) /\ Cardinality(cents(A)) <= Cardinality(cents(B))
         /\ Cardinality(cents(A)) \in Nat
  <1>1. cents(A) \subseteq cents(B)
    BY DEF cents
  <1>2. IsFiniteSet(cents(A)) /\ Cardinality(cents(A)) <= Cardinality(cents(B))
    BY <1>1, FS_Subset
  <1> QED BY <1>2, FS_CardinalityType

\* What more records, or a wider period, hold is no less.
LEMMA SpendMonotone ==
  ASSUME NEW A, NEW B, NEW s, NEW a, NEW b, NEW c, NEW d, IsFiniteSet(cents(B)),
         within(A, s, a, b) \subseteq within(B, s, c, d)
  PROVE  /\ Spend(A, s, a, b) \in Nat /\ Spend(B, s, c, d) \in Nat
         /\ Spend(A, s, a, b) <= Spend(B, s, c, d)
  <1>1. within(B, s, c, d) \subseteq B
    BY DEF within
  <1>2. IsFiniteSet(cents(within(B, s, c, d))) /\ Spend(B, s, c, d) \in Nat
    BY <1>1, CentsMonotone DEF Spend
  <1> QED BY <1>2, CentsMonotone DEF Spend

-----------------------------------------------------------------------------
(* Rules.                                                                  *)

LEMMA MergeType == ASSUME NEW r \in Rule, NEW d \in Rule PROVE mergeWithDefault(r, d) \in Rule
  <1> DEFINE K == SUBSET (Keys \cup {NoKey})
             T == Tenants \cup {NoTenant}
             A == {"block", "warn", ""}
  <1>1. Rule = [pattern : K, tenant : T, daily : Nat, monthly : Nat, soft : Nat, action : A]
    BY DEF Rule
  <1> HIDE DEF K, T, A
  <1> QED BY <1>1 DEF mergeWithDefault

LEMMA MatchTypes ==
  ASSUME NEW rs \in Seq(Rule)
  PROVE  /\ \A k : matchRule(rs, Default, k) \in Rule
         /\ \A t : matchTenantRule(rs, Default, t) \in Rule \cup {NoRule}
  <1>1. Default \in Rule /\ \A i \in 1 .. Len(rs) : rs[i] \in Rule
    BY BudgetAssumption
  <1>2. \A i \in 1 .. Len(rs) : mergeWithDefault(rs[i], Default) \in Rule
    BY <1>1, MergeType
  <1>3. ASSUME NEW k PROVE matchRule(rs, Default, k) \in Rule
    <2>1. CASE \E i \in 1 .. Len(rs) : firstForKey(rs, k, i)
      <3> DEFINE j == CHOOSE i \in 1 .. Len(rs) : firstForKey(rs, k, i)
      <3>1. j \in 1 .. Len(rs)
        BY <2>1
      <3>2. matchRule(rs, Default, k) = mergeWithDefault(rs[j], Default)
        BY <2>1 DEF matchRule
      <3> HIDE DEF j
      <3> QED BY <1>2, <3>1, <3>2
    <2>2. CASE ~ \E i \in 1 .. Len(rs) : firstForKey(rs, k, i)
      BY <1>1, <2>2 DEF matchRule
    <2> QED BY <2>1, <2>2
  <1>4. ASSUME NEW t PROVE matchTenantRule(rs, Default, t) \in Rule \cup {NoRule}
    <2>1. CASE \E i \in 1 .. Len(rs) : firstForTenant(rs, t, i)
      <3> DEFINE j == CHOOSE i \in 1 .. Len(rs) : firstForTenant(rs, t, i)
      <3>1. j \in 1 .. Len(rs)
        BY <2>1
      <3>2. matchTenantRule(rs, Default, t) = mergeWithDefault(rs[j], Default)
        BY <2>1 DEF matchTenantRule
      <3> HIDE DEF j
      <3> QED BY <1>2, <3>1, <3>2
    <2>2. CASE ~ \E i \in 1 .. Len(rs) : firstForTenant(rs, t, i)
      BY <2>2 DEF matchTenantRule
    <2> QED BY <2>1, <2>2
  <1> QED BY <1>3, <1>4

LEMMA RuleOfType ==
  ASSUME EnvInv, NEW s PROVE ruleOf(s) \in Rule \cup {NoRule}
  BY MatchTypes, BudgetAssumption DEF EnvInv, ruleOf

LEMMA RuleFields ==
  ASSUME NEW r \in Rule
  PROVE  r.daily \in Nat /\ r.monthly \in Nat /\ r.soft \in Nat /\ r # NoRule
  BY BudgetAssumption DEF Rule

\* A rule without limit blocks nothing.
LEMMA NoLimitNoBlock ==
  ASSUME NEW r \in Rule, ~hasLimit(r), NEW d \in Nat, NEW m \in Nat
  PROVE  decision(r, d, m) # Block
  BY RuleFields DEF hasLimit, decision, exceeded, Block, Warn, Allow

\* Only a limit that is reached blocks.
LEMMA BlockReached ==
  ASSUME NEW r, NEW d, NEW m, decision(r, d, m) = Block
  PROVE  (r.daily > 0 /\ d >= r.daily) \/ (r.monthly > 0 /\ m >= r.monthly)
  BY DEF decision, exceeded, Block, Warn, Allow

LEMMA DecisionType == \A r, d, m : decision(r, d, m) \in 0 .. 2
  BY DEF decision, Block, Warn, Allow

-----------------------------------------------------------------------------
(* What every step does to the clock, the ledger and the errors: records   *)
(* and errors are added, with the present time.                            *)

Grows ==
    /\ now \in Nat /\ now' \in Nat /\ now <= now'
    /\ IsFiniteSet(cents(ledger))
    /\ ledger \subseteq ledger' /\ IsFiniteSet(cents(ledger'))
    /\ \A rec \in ledger' : rec.at \in Nat /\ rec.ts \in Nat /\ rec.ts <= rec.at /\ rec.at <= now'
    /\ \A rec \in ledger' \ ledger : now <= rec.at
    /\ \A s \in Scopes : \/ lastError'[s] = lastError[s]
                         \/ lastError'[s] \in Nat /\ now <= lastError'[s]

LEMMA CentsAdd ==
  ASSUME NEW R, IsFiniteSet(cents(R)), NEW r, r.cost \in Nat
  PROVE  IsFiniteSet(cents(R \cup {r}))
  <1> DEFINE C == {r} \X (1 .. r.cost)
  <1>1. cents(R \cup {r}) = cents(R) \cup C
    BY DEF cents
  <1>2. IsFiniteSet({r}) /\ IsFiniteSet(1 .. r.cost)
    <2>1. IsFiniteSet({r})
      BY FS_Singleton
    <2>2. 1 \in Int /\ r.cost \in Int
      OBVIOUS
    <2>3. IsFiniteSet(1 .. r.cost)
      BY <2>2, FS_Interval
    <2> QED BY <2>1, <2>3
  <1>3. IsFiniteSet(C)
    BY <1>2, FS_Product
  <1> HIDE DEF C
  <1> QED BY <1>1, <1>3, FS_Union

LEMMA EnvSame ==
  ASSUME EnvInv, UNCHANGED <<now, ledger, lastError>>, rules' \in RuleSets,
         clearing' \in BOOLEAN, doomed' \subseteq Scopes
  PROVE  EnvInv' /\ Grows
  BY BudgetAssumption DEF EnvInv, Grows

LEMMA EnvStep == IInv /\ [Next]_vars => EnvInv' /\ Grows
  <1> SUFFICES ASSUME IInv, [Next]_vars PROVE EnvInv' /\ Grows
    OBVIOUS
  <1> USE BudgetAssumption
  <1>1. EnvInv /\ HandlersInv /\ CacheInv
    BY DEF IInv
  <1>2. CASE UNCHANGED <<now, rules, clearing, doomed, ledger, lastError>>
    BY <1>1, <1>2, EnvSame DEF EnvInv
  <1>3. CASE UpdateRules
    BY <1>1, <1>3, EnvSame DEF UpdateRules, EnvInv
  <1>4. CASE ClearCache
    BY <1>1, <1>4, EnvSame DEF ClearCache, EnvInv
  <1>5. CASE EvictScan
    BY <1>1, <1>5, EnvSame DEF EvictScan, EnvInv
  <1>6. CASE EvictDelete
    BY <1>1, <1>6, EnvSame DEF EvictDelete, EnvInv
  <1>7. CASE Tick
    <2>1. now' = now + 1 /\ now < MaxTime /\ UNCHANGED <<rules, clearing, doomed, ledger, lastError>>
      BY <1>7 DEF Tick
    <2>2. now \in 0 .. MaxTime /\ now' \in 0 .. MaxTime
      BY <1>1, <2>1 DEF EnvInv
    <2>3. \A rec \in ledger : /\ rec.cost \in Nat /\ rec.ts \in Nat /\ rec.at \in Nat
                              /\ rec.ts <= rec.at /\ rec.at <= now'
      BY <1>1, <2>1, <2>2 DEF EnvInv
    <2>4. \A s \in Scopes : lastError[s] # None => lastError[s] <= now'
      BY <1>1, <2>1, <2>2 DEF EnvInv
    <2> QED BY <1>1, <2>1, <2>2, <2>3, <2>4 DEF EnvInv, Grows
  <1>8. ASSUME NEW q \in Requests, QueryDaily(q) \/ QueryMonthly(q) PROVE EnvInv' /\ Grows
    <2>1. UNCHANGED <<now, rules, clearing, doomed, ledger>>
      BY <1>8 DEF QueryDaily, QueryMonthly
    <2>2. lastError' = lastError \/ lastError' = [lastError EXCEPT ![h[q].scope] = now]
      BY <1>8 DEF QueryDaily, QueryMonthly, noteError
    <2>3. now \in Nat /\ lastError \in [Scopes -> Nat \cup {None}]
          /\ \A s \in Scopes : lastError[s] # None => lastError[s] <= now
      BY <1>1 DEF EnvInv
    <2>4. /\ lastError' \in [Scopes -> Nat \cup {None}]
          /\ \A s \in Scopes : lastError'[s] = lastError[s] \/ lastError'[s] = now
      BY <2>2, <2>3
    <2>5. /\ \A s \in Scopes : lastError'[s] # None => lastError'[s] <= now'
          /\ \A s \in Scopes : \/ lastError'[s] = lastError[s]
                               \/ lastError'[s] \in Nat /\ now <= lastError'[s]
      BY <2>1, <2>3, <2>4
    <2> QED BY <1>1, <2>1, <2>4, <2>5 DEF EnvInv, Grows
  <1>9. ASSUME NEW q \in Requests, Persist(q) PROVE EnvInv' /\ Grows
    <2> DEFINE r == [id |-> q, cost |-> h[q].cost, ts |-> h[q].start, at |-> now,
                     scopes |-> {<<"key", h[q].key>>, <<"tenant", h[q].tenant>>}]
    <2>1. ledger' = ledger \cup {r} /\ UNCHANGED <<now, rules, clearing, doomed, lastError>>
      BY <1>9 DEF Persist
    <2>2. h[q].pc = "enqueued" /\ HandlerOK(h[q])
      BY <1>1, <1>9 DEF Persist, HandlersInv
    <2>3. h[q].start \in Nat /\ h[q].start <= now /\ h[q].cost \in Nat
      BY <2>2 DEF HandlerOK, PlaceOK, Handler
    <2>4. now \in Nat /\ r.cost \in Nat /\ r.ts \in Nat /\ r.at = now /\ r.ts <= r.at
      BY <1>1, <2>3 DEF EnvInv
    <2> HIDE DEF r
    <2>5. IsFiniteSet(cents(ledger'))
      BY <1>1, <2>1, <2>4, CentsAdd DEF EnvInv
    <2>6. \A rec \in ledger' : /\ rec.cost \in Nat /\ rec.ts \in Nat /\ rec.at \in Nat
                               /\ rec.ts <= rec.at /\ rec.at <= now'
      BY <1>1, <2>1, <2>4 DEF EnvInv
    <2>7. ledger \subseteq ledger' /\ \A rec \in ledger' \ ledger : now <= rec.at
      BY <2>1, <2>4
    <2> QED BY <1>1, <2>1, <2>4, <2>5, <2>6, <2>7 DEF EnvInv, Grows
  <1>10. ASSUME NEW q \in Requests, Handle(q) PROVE EnvInv' /\ Grows
    <2>1. CASE QueryDaily(q) \/ QueryMonthly(q)
      BY <1>8, <2>1
    <2>2. CASE Persist(q)
      BY <1>9, <2>2
    <2>3. CASE ~(QueryDaily(q) \/ QueryMonthly(q) \/ Persist(q))
      BY <1>2, <1>10, <2>3 DEF Handle, Arrive, MatchTenant, Hit, Miss, StoreEntry, Decide, Respond,
           NotRecorded
    <2> QED BY <2>1, <2>2, <2>3
  <1> QED BY <1>2, <1>3, <1>4, <1>5, <1>6, <1>7, <1>10 DEF Next, vars

-----------------------------------------------------------------------------
(* What stays true as time passes and records arrive.                      *)

LEMMA AmountsStable ==
  ASSUME Grows, NEW s \in Scopes, NEW d \in Nat, NEW since \in Nat, NEW u \in Nat, u <= now
  PROVE  /\ NotMore(s, d, since, u) => NotMore(s, d, since, u)'
         /\ NotLess(s, d, since, u) => NotLess(s, d, since, u)'
  <1>1. ASSUME NotMore(s, d, since, u) PROVE NotMore(s, d, since, u)'
    <2>1. within(ledger, s, since, u) \subseteq within(ledger', s, since, u)
      BY DEF Grows, within
    <2>2. /\ Spend(ledger, s, since, u) \in Nat /\ Spend(ledger', s, since, u) \in Nat
          /\ Spend(ledger, s, since, u) <= Spend(ledger', s, since, u)
      BY <2>1, SpendMonotone DEF Grows
    <2>3. d <= Spend(ledger', s, since, u)
      BY <1>1, <2>2 DEF NotMore
    <2> QED BY <2>3 DEF NotMore
  <1>2. ASSUME NotLess(s, d, since, u) PROVE NotLess(s, d, since, u)'
    <2>1. CASE lastError[s] # None /\ lastError[s] >= u
      <3>1. lastError'[s] # None /\ lastError'[s] >= u
        BY <2>1, BudgetAssumption DEF Grows
      <3> QED BY <3>1 DEF NotLess
    <2>2. CASE Spend(settled(u), s, since, u) <= d
      <3>1. settled(u)' = settled(u)
        <4>1. \A rec \in ledger' : rec.at < u => rec \in ledger
          BY DEF Grows
        <4>2. ledger \subseteq ledger'
          BY DEF Grows
        <4> QED BY <4>1, <4>2 DEF settled
      <3>2. Spend(settled(u)', s, since, u) <= d
        BY <2>2, <3>1
      <3> QED BY <3>2 DEF NotLess
    <2> QED BY <1>2, <2>1, <2>2 DEF NotLess
  <1> QED BY <1>1, <1>2

LEMMA EntryStable ==
  ASSUME Grows, NEW s \in Scopes, NEW e, EntryOK(s, e)
  PROVE  EntryOK(s, e)'
  <1>1. /\ e \in Entry /\ e.fetched \in Nat /\ e.fetched <= now /\ e.fetched <= now'
        /\ e.daily \in Nat /\ e.monthly \in Nat
    BY DEF EntryOK, Entry, Grows
  <1>2. lastError'[s] = None => e.daily <= e.monthly
    BY BudgetAssumption DEF Grows, EntryOK
  <1>3. PICK u \in 0 .. e.fetched :
          /\ e.fetched - MaxQuery <= u
          /\ NotMore(s, e.daily, dayStart(u), u) /\ NotMore(s, e.monthly, monthStart(u), u)
          /\ NotLess(s, e.daily, dayStart(u), u) /\ NotLess(s, e.monthly, monthStart(u), u)
    BY DEF EntryOK
  <1>4. u \in Nat /\ u <= now /\ dayStart(u) \in Nat /\ monthStart(u) \in Nat
    <2>1. u \in Nat /\ u <= now
      BY <1>1 DEF Grows
    <2> QED BY <2>1, Periods
  <1>5. NotMore(s, e.daily, dayStart(u), u)' /\ NotLess(s, e.daily, dayStart(u), u)'
    BY <1>1, <1>3, <1>4, AmountsStable
  <1>6. NotMore(s, e.monthly, monthStart(u), u)' /\ NotLess(s, e.monthly, monthStart(u), u)'
    BY <1>1, <1>3, <1>4, AmountsStable
  <1> QED BY <1>1, <1>2, <1>3, <1>5, <1>6 DEF EntryOK

LEMMA BackedStable ==
  ASSUME Grows, NEW g \in Handler, Backed(g)
  PROVE  Backed(g)'
  <1> DEFINE a == g.result.dailyLimit
             b == g.result.monthlyLimit
  <1>1. PICK s \in own(g), t \in horizon(g) .. now :
          /\ t >= 0
          /\ \/ a > 0 /\ spentInDay(s, t) >= a
             \/ b > 0 /\ spentInMonth(s, t) >= b
    BY DEF Backed
  <1>2. a \in Nat /\ b \in Nat
    BY DEF Handler, Results
  <1>3. now \in Nat /\ now' \in Nat /\ now <= now' /\ horizon(g) \in Int
    BY BudgetAssumption DEF Grows, horizon, Handler
  <1>4. t \in Nat /\ t \in horizon(g) .. now'
    BY <1>1, <1>3
  <1>5. dayStart(t) \in Nat /\ monthStart(t) \in Nat
    BY <1>4, Periods
  <1>6. \A x \in Nat : within(ledger, s, x, now) \subseteq within(ledger', s, x, now')
    BY <1>3 DEF Grows, within
  <1>7. IsFiniteSet(cents(ledger'))
    BY DEF Grows
  <1>8. /\ spentInDay(s, t) \in Nat /\ spentInDay(s, t)' \in Nat /\ spentInDay(s, t) <= spentInDay(s, t)'
        /\ spentInMonth(s, t) \in Nat /\ spentInMonth(s, t)' \in Nat /\ spentInMonth(s, t) <= spentInMonth(s, t)'
    BY <1>5, <1>6, <1>7, SpendMonotone DEF spentInDay, spentInMonth
  <1> HIDE DEF a, b
  <1>9. \/ a > 0 /\ spentInDay(s, t)' >= a
        \/ b > 0 /\ spentInMonth(s, t)' >= b
    BY <1>1, <1>2, <1>8
  <1>10. own(g)' = own(g) /\ horizon(g)' = horizon(g)
    BY DEF own, horizon
  <1> QED BY <1>1, <1>4, <1>9, <1>10 DEF Backed, a, b

\* What the records of one set would decide never gets stricter.
LEMMA VerdictEases ==
  ASSUME EnvInv, Grows, rules' = rules, NEW O, O \subseteq ledger, NEW s, verdict(s, O) # Block
  PROVE  verdict(s, O)' # Block
  <1> DEFINE r == ruleOf(s)
             d1 == Spend(O, s, dayStart(now'), now')
             m1 == Spend(O, s, monthStart(now'), now')
             d2 == Spend(O, s, dayStart(now), now)
             m2 == Spend(O, s, monthStart(now), now)
  <1>1. ruleOf(s)' = r /\ r \in Rule \cup {NoRule}
    BY RuleOfType DEF ruleOf
  <1>2. CASE r = NoRule
    BY <1>1, <1>2 DEF verdict, Allow, Block
  <1>3. CASE r # NoRule
    <2>1. now \in Nat /\ now' \in Nat /\ now <= now'
      BY DEF Grows
    <2>2. /\ dayStart(now) <= dayStart(now') /\ dayStart(now) \in Nat /\ dayStart(now') \in Nat
          /\ monthStart(now) <= monthStart(now') /\ monthStart(now) \in Nat /\ monthStart(now') \in Nat
      BY <2>1, Periods
    <2>3. \A rec \in O : rec.ts \in Nat /\ rec.ts <= now
      <3>1. \A rec \in O : rec.ts \in Nat /\ rec.at \in Nat /\ rec.ts <= rec.at /\ rec.at <= now
        BY DEF EnvInv
      <3> QED BY <2>1, <3>1
    <2>4. /\ within(O, s, dayStart(now'), now') \subseteq within(O, s, dayStart(now), now)
          /\ within(O, s, monthStart(now'), now') \subseteq within(O, s, monthStart(now), now)
      BY <2>1, <2>2, <2>3 DEF within
    <2>5. IsFiniteSet(cents(O))
      BY CentsMonotone DEF EnvInv
    <2>6. d1 \in Nat /\ d2 \in Nat /\ m1 \in Nat /\ m2 \in Nat /\ d1 <= d2 /\ m1 <= m2
      BY <2>4, <2>5, SpendMonotone
    <2>7. verdict(s, O) = decision(r, d2, m2) /\ verdict(s, O)' = decision(r, d1, m1)
      BY <1>1, <1>3 DEF verdict
    <2> HIDE DEF r, d1, d2, m1, m2
    <2>8. r.daily \in Nat /\ r.monthly \in Nat /\ r.soft \in Nat
      BY <1>1, <1>3, RuleFields
    <2>9. decision(r, d1, m1) <= decision(r, d2, m2)
      BY <2>6, <2>8, DecisionMonotone
    <2>10. decision(r, d1, m1) \in 0 .. 2 /\ decision(r, d2, m2) \in 0 .. 2
      BY DecisionType
    <2> QED BY <2>7, <2>9, <2>10 DEF Block
  <1> QED BY <1>2, <1>3

LEMMA CleanStable ==
  ASSUME EnvInv, Grows, rules' = rules, NEW g \in Handler, g.checkedAt <= now,
         NEW s \in Scopes, Clean(g, s)
  PROVE  Clean(g, s)'
  <1>1. now \in Nat /\ horizon(g) \in Int /\ horizon(g) < now
    BY BudgetAssumption DEF Grows, horizon, Handler
  <1>2. CASE lastError[s] # None /\ lastError[s] > horizon(g)
    <2>1. lastError'[s] # None /\ lastError'[s] > horizon(g)
      BY <1>1, <1>2, BudgetAssumption DEF Grows
    <2> QED BY <2>1 DEF Clean, horizon
  <1>3. CASE verdict(s, {rec \in ledger : rec.at <= horizon(g)}) # Block
    <2>1. PICK O : O = {rec \in ledger : rec.at <= horizon(g)}
      OBVIOUS
    <2>2. O = {rec \in ledger' : rec.at <= horizon(g)}
      <3>1. \A rec \in ledger' : rec.at <= horizon(g) => rec \in ledger
        BY <1>1 DEF Grows
      <3>2. ledger \subseteq ledger'
        BY DEF Grows
      <3> QED BY <2>1, <3>1, <3>2
    <2>3. verdict(s, O)' # Block
      BY <1>3, <2>1, VerdictEases
    <2>4. O = {rec \in ledger : rec.at <= horizon(g)}'
      BY <2>2 DEF horizon
    <2>5. verdict(s, {rec \in ledger : rec.at <= horizon(g)})' # Block
      BY <2>3, <2>4 DEF verdict
    <2> QED BY <2>5 DEF Clean
  <1> QED BY <1>2, <1>3 DEF Clean

LEMMA OwnScopes ==
  ASSUME NEW g
  PROVE  /\ own(g) \subseteq Scopes
         /\ g.key \in Keys => <<"key", g.key>> \in own(g)
         /\ g.tenant \in Tenants /\ g.tenant # NoTenant => <<"tenant", g.tenant>> \in own(g)
         /\ g.tenant = NoTenant => \A s \in own(g) : s = <<"key", g.key>>
         /\ \A s \in own(g) : s = <<"key", g.key>> \/ s = <<"tenant", g.tenant>>
  BY DEF own, Scopes

LEMMA PlaceStable ==
  ASSUME EnvInv, Grows, NEW g, PlaceOK(g), OutcomeOK(g), g.kept => rules' = rules,
         g.pc \in Querying => now' - g.until <= MaxQuery
  PROVE  PlaceOK(g)' /\ OutcomeOK(g)'
  <1>1. g \in Handler /\ g.until \in Nat /\ g.checkedAt \in Nat /\ g.start \in Nat
    BY DEF PlaceOK, Handler
  <1>2. now \in Nat /\ now' \in Nat /\ now <= now' /\ MaxQuery \in Nat
    BY BudgetAssumption DEF Grows
  <1>3. PlaceOK(g)'
    <2>1. g.kept => \A s : ruleOf(s)' = ruleOf(s)
      BY DEF ruleOf
    <2>2. own(g)' = own(g)
      BY DEF own
    <2>3. g.pc \in Checking => g.checkedAt <= now'
      BY <1>1, <1>2 DEF PlaceOK
    <2>4. g.pc \in {"upstream", "enqueued"} => g.start <= now'
      BY <1>1, <1>2 DEF PlaceOK
    <2>5. g.pc \in Querying => g.until <= now'
      BY <1>1, <1>2 DEF PlaceOK
    <2>6. g.kept => ruleOf(g.scope)' = ruleOf(g.scope)
      BY <2>1
    <2> QED BY <2>2, <2>3, <2>4, <2>5, <2>6 DEF PlaceOK
  <1>4. OutcomeOK(g)'
    <2> SUFFICES ASSUME g.pc \in Checking
                 PROVE  /\ g.result.decision = Block => Backed(g)'
                        /\ g.result.decision # Block /\ g.kept =>
                              \A s \in evaluatedScopes(g) : Clean(g, s)'
      BY DEF OutcomeOK, evaluatedScopes, own
    <2>1. g.result.decision = Block => Backed(g)'
      BY <1>1, BackedStable DEF OutcomeOK
    <2>2. ASSUME g.result.decision # Block, g.kept, NEW s \in evaluatedScopes(g)
          PROVE  Clean(g, s)'
      <3>1. Clean(g, s) /\ g.checkedAt <= now /\ rules' = rules
        BY <2>2 DEF OutcomeOK, PlaceOK
      <3>2. s \in Scopes
        BY <2>2, OwnScopes DEF evaluatedScopes, PlaceOK
      <3> QED BY <1>1, <3>1, <3>2, CleanStable
    <2> QED BY <2>1, <2>2
  <1> QED BY <1>3, <1>4

LEMMA HandlerStable ==
  ASSUME EnvInv, Grows, NEW g, HandlerOK(g), g.kept => rules' = rules,
         g.pc \in Querying => now' - g.until <= MaxQuery
  PROVE  HandlerOK(g)'
  <1>1. PlaceOK(g) /\ AmountsOK(g) /\ OutcomeOK(g)
    BY DEF HandlerOK
  <1>2. g \in Handler /\ g.daily \in Nat /\ g.monthly \in Nat /\ g.until \in Nat
    BY <1>1 DEF PlaceOK, Handler
  <1>3. PlaceOK(g)' /\ OutcomeOK(g)'
    BY <1>1, PlaceStable
  <1>4. ASSUME g.pc \in {"monthly", "store"}
        PROVE  /\ g.scope \in Scopes /\ g.until <= now
               /\ dayStart(g.until) \in Nat /\ monthStart(g.until) \in Nat
    BY <1>1, <1>2, <1>4, Periods, OwnScopes DEF PlaceOK, Looking, Querying
  <1>5. AmountsOK(g)'
    <2>1. ASSUME g.pc \in {"monthly", "store"}
          PROVE  /\ NotMore(g.scope, g.daily, dayStart(g.until), g.until)'
                 /\ NotLess(g.scope, g.daily, dayStart(g.until), g.until)'
      BY <1>1, <1>2, <1>4, <2>1, AmountsStable DEF AmountsOK
    <2>2. ASSUME g.pc = "store"
          PROVE  /\ NotMore(g.scope, g.monthly, monthStart(g.until), g.until)'
                 /\ NotLess(g.scope, g.monthly, monthStart(g.until), g.until)'
                 /\ lastError'[g.scope] = None => g.daily <= g.monthly
      <3>1. /\ NotMore(g.scope, g.monthly, monthStart(g.until), g.until)'
            /\ NotLess(g.scope, g.monthly, monthStart(g.until), g.until)'
        BY <1>1, <1>2, <1>4, <2>2, AmountsStable DEF AmountsOK
      <3>2. lastError'[g.scope] = None => g.daily <= g.monthly
        BY <1>1, <1>4, <2>2, BudgetAssumption DEF AmountsOK, Grows
      <3> QED BY <3>1, <3>2
    <2> QED BY <2>1, <2>2 DEF AmountsOK
  <1> QED BY <1>3, <1>5 DEF HandlerOK

\* A handler that is not checking has no more to promise.
LEMMA HandlerAway ==
  ASSUME NEW g \in Handler, g.pc \notin Checking \cup {"new"}, g.pc \in {"upstream", "enqueued"} => g.start <= now
  PROVE  HandlerOK(g)
  BY DEF HandlerOK, PlaceOK, AmountsOK, OutcomeOK, Checking, Looking, Querying

-----------------------------------------------------------------------------
(* The assignments to a handler.                                           *)

LEMMA NewHandlerType ==
  /\ NewHandler \in Handler /\ NewHandler.pc = "new" /\ NewHandler.result = Unchecked
  /\ \A pc \in PCs : [NewHandler EXCEPT !.pc = pc] \in Handler /\ [NewHandler EXCEPT !.pc = pc].pc = pc
  <1>1. Unchecked \in Results
    BY DEF Unchecked, Results
  <1>2. "new" \in PCs
    BY DEF PCs
  <1> QED BY <1>1, <1>2 DEF NewHandler, Handler

\* A handler after Arrive, MatchTenant, Miss, the queries, and the forwarding.
arrived(g, k, t, w, c, r, pc) ==
    [g EXCEPT !.key = k, !.tenant = t, !.worst = w, !.checkedAt = c, !.kept = TRUE,
              !.rule = r, !.scope = <<"key", k>>, !.pc = pc]
matched(g, r, s, pc) == [g EXCEPT !.rule = r, !.scope = s, !.pc = pc]
missed(g, t)         == [g EXCEPT !.until = t, !.pc = "daily"]
queriedDay(g, d)     == [g EXCEPT !.daily = d, !.pc = "monthly"]
queriedMonth(g, m)   == [g EXCEPT !.monthly = m, !.pc = "store"]
unkept(g)            == [g EXCEPT !.kept = FALSE]

LEMMA ArrivedType ==
  ASSUME NEW g \in Handler, NEW k \in Keys, NEW t \in Tenants, NEW w \in Nat, NEW c \in Nat,
         NEW r \in Rule, NEW pc \in PCs
  PROVE  LET x == arrived(g, k, t, w, c, r, pc)
         IN  /\ x \in Handler /\ x.key = k /\ x.tenant = t /\ x.checkedAt = c /\ x.kept
             /\ x.rule = r /\ x.scope = <<"key", k>> /\ x.pc = pc /\ x.result = g.result
  <1> DEFINE s == <<"key", k>>
  <1>1. s \in Scopes \cup {None}
    BY DEF Scopes
  <1> HIDE DEF s
  <1>2. arrived(g, k, t, w, c, r, pc) =
          [g EXCEPT !.key = k, !.tenant = t, !.worst = w, !.checkedAt = c, !.kept = TRUE,
                    !.rule = r, !.scope = s, !.pc = pc]
    BY DEF arrived, s
  <1> DEFINE x == arrived(g, k, t, w, c, r, pc)
             K == Keys \cup {NoKey}
             T == Tenants \cup {NoTenant}
             R == Rule \cup {NoRule}
             S == Scopes \cup {None}
  <1>3. Handler = [pc : PCs, key : K, tenant : T, worst : Nat, checkedAt : Nat, rule : R,
                   scope : S, until : Nat, daily : Nat, monthly : Nat, result : Results,
                   start : Nat, cost : Nat, kept : BOOLEAN]
    BY DEF Handler
  <1>4. k \in K /\ t \in T /\ r \in R /\ s \in S
    BY <1>1
  <1>5. x = [g EXCEPT !.key = k, !.tenant = t, !.worst = w, !.checkedAt = c, !.kept = TRUE,
                      !.rule = r, !.scope = s, !.pc = pc]
    BY <1>2
  <1> HIDE DEF x, K, T, R, S
  <1>6. x \in Handler
    BY <1>3, <1>4, <1>5
  <1>7. /\ x.key = k /\ x.tenant = t /\ x.checkedAt = c /\ x.kept
        /\ x.rule = r /\ x.scope = s /\ x.pc = pc /\ x.result = g.result
    BY <1>3, <1>5
  <1> QED BY <1>6, <1>7 DEF s, x

LEMMA MatchedType ==
  ASSUME NEW g \in Handler, NEW r \in Rule \cup {NoRule}, NEW s \in Scopes, NEW pc \in PCs
  PROVE  LET x == matched(g, r, s, pc)
         IN  /\ x \in Handler /\ x.key = g.key /\ x.tenant = g.tenant /\ x.checkedAt = g.checkedAt
             /\ x.kept = g.kept /\ x.rule = r /\ x.scope = s /\ x.pc = pc /\ x.result = g.result
  BY DEF Handler, matched

LEMMA MissedType ==
  ASSUME NEW g \in Handler, NEW t \in Nat
  PROVE  LET x == missed(g, t)
         IN  /\ x \in Handler /\ x.key = g.key /\ x.tenant = g.tenant /\ x.checkedAt = g.checkedAt
             /\ x.kept = g.kept /\ x.rule = g.rule /\ x.scope = g.scope /\ x.result = g.result
             /\ x.pc = "daily" /\ x.until = t
  <1>1. "daily" \in PCs
    BY DEF PCs
  <1> QED BY <1>1 DEF Handler, missed

LEMMA QueriedDayType ==
  ASSUME NEW g \in Handler, NEW t \in Nat
  PROVE  LET x == queriedDay(g, t)
         IN  /\ x \in Handler /\ x.key = g.key /\ x.tenant = g.tenant /\ x.checkedAt = g.checkedAt
             /\ x.kept = g.kept /\ x.rule = g.rule /\ x.scope = g.scope /\ x.result = g.result
             /\ x.pc = "monthly" /\ x.until = g.until /\ x.daily = t
  <1>1. "monthly" \in PCs
    BY DEF PCs
  <1> QED BY <1>1 DEF Handler, queriedDay

LEMMA QueriedMonthType ==
  ASSUME NEW g \in Handler, NEW t \in Nat
  PROVE  LET x == queriedMonth(g, t)
         IN  /\ x \in Handler /\ x.key = g.key /\ x.tenant = g.tenant /\ x.checkedAt = g.checkedAt
             /\ x.kept = g.kept /\ x.rule = g.rule /\ x.scope = g.scope /\ x.result = g.result
             /\ x.pc = "store" /\ x.until = g.until /\ x.daily = g.daily /\ x.monthly = t
  <1>1. "store" \in PCs
    BY DEF PCs
  <1> QED BY <1>1 DEF Handler, queriedMonth

\* A claim of a handler is about its key, its tenant, its start and its result.
LEMMA SameClaims ==
  ASSUME NEW g, NEW x, x.key = g.key, x.tenant = g.tenant, x.checkedAt = g.checkedAt
  PROVE  /\ own(x) = own(g) /\ horizon(x) = horizon(g)
         /\ x.result = g.result => (Backed(x) <=> Backed(g))
         /\ \A s : Clean(x, s) <=> Clean(g, s)
  <1>1. own(x) = own(g) /\ horizon(x) = horizon(g)
    BY DEF own, horizon
  <1>2. x.result = g.result => (Backed(x) <=> Backed(g))
    BY <1>1 DEF Backed
  <1>3. \A s : Clean(x, s) <=> Clean(g, s)
    BY <1>1 DEF Clean
  <1> QED BY <1>1, <1>2, <1>3

\* A scope without rule, or with a rule without limit, is clean.
LEMMA NoLimitClean ==
  ASSUME EnvInv, NEW g, NEW s, ruleOf(s) = NoRule \/ ~hasLimit(ruleOf(s))
  PROVE  Clean(g, s)
  <1> DEFINE O == {rec \in ledger : rec.at <= horizon(g)}
             d == Spend(O, s, dayStart(now), now)
             m == Spend(O, s, monthStart(now), now)
  <1>1. ruleOf(s) \in Rule \cup {NoRule}
    BY RuleOfType
  <1>2. CASE ruleOf(s) = NoRule
    BY <1>2 DEF Clean, verdict, Allow, Block
  <1>3. CASE ruleOf(s) # NoRule
    <2>1. IsFiniteSet(cents(O))
      BY CentsMonotone DEF EnvInv
    <2>2. d \in Nat /\ m \in Nat
      <3> HIDE DEF O
      <3> QED BY <2>1, SpendMonotone
    <2>3. decision(ruleOf(s), d, m) # Block
      BY <1>1, <1>3, <2>2, NoLimitNoBlock
    <2>4. verdict(s, O) = decision(ruleOf(s), d, m)
      BY <1>3 DEF verdict
    <2> HIDE DEF d, m
    <2> QED BY <2>3, <2>4 DEF Clean
  <1> QED BY <1>2, <1>3

\* A request that no rule limits is decided at once.
LEMMA ArrivedOK ==
  ASSUME EnvInv, NEW g, HandlerOK(g), g.pc = "new", NEW k \in Keys, NEW t \in Tenants, NEW w \in Nat
  PROVE  LET r == matchRule(rules, Default, k)
         IN  HandlerOK(arrived(g, k, t, w, now, r,
                 IF ~Enabled THEN "decide" ELSE IF hasLimit(r) THEN "lookup"
                 ELSE IF t # NoTenant THEN "tenant" ELSE "decide"))
  <1> DEFINE r  == matchRule(rules, Default, k)
             pc == IF ~Enabled THEN "decide" ELSE IF hasLimit(r) THEN "lookup"
                   ELSE IF t # NoTenant THEN "tenant" ELSE "decide"
             x  == arrived(g, k, t, w, now, r, pc)
             s  == <<"key", k>>
  <1>1. g \in Handler /\ g.result = Unchecked
    BY DEF HandlerOK, PlaceOK
  <1>2. now \in Nat /\ rules \in Seq(Rule) /\ Default \in Rule
    BY BudgetAssumption DEF EnvInv
  <1>3. r \in Rule /\ r = ruleOf(s)
    BY <1>2, MatchTypes DEF ruleOf
  <1>4. /\ pc \in {"decide", "lookup", "tenant"}
        /\ pc = "lookup" => hasLimit(r)
        /\ pc = "tenant" => t # NoTenant /\ ~hasLimit(r)
        /\ pc = "decide" => ~Enabled \/ (t = NoTenant /\ ~hasLimit(r))
    OBVIOUS
  <1>5. pc \in PCs /\ pc \in Checking
    BY <1>4 DEF PCs, Checking
  <1> HIDE DEF r, pc
  <1>6. /\ x \in Handler /\ x.key = k /\ x.tenant = t /\ x.checkedAt = now /\ x.kept
        /\ x.rule = r /\ x.scope = s /\ x.pc = pc /\ x.result = g.result
    <2>1. \A c \in Nat : LET y == arrived(g, k, t, w, c, r, pc)
                          IN  /\ y \in Handler /\ y.key = k /\ y.tenant = t /\ y.checkedAt = c /\ y.kept
                              /\ y.rule = r /\ y.scope = <<"key", k>> /\ y.pc = pc /\ y.result = g.result
      BY <1>1, <1>3, <1>5, ArrivedType
    <2> QED BY <1>2, <2>1
  <1> HIDE DEF x
  <1>7. s \in own(x) /\ own(x) \subseteq Scopes /\ (t = NoTenant => \A z \in own(x) : z = s)
        /\ \A z \in own(x) : z = s \/ z = <<"tenant", t>>
    BY <1>6, OwnScopes
  <1>8. PlaceOK(x)
    BY <1>2, <1>3, <1>4, <1>6, <1>7 DEF PlaceOK, Looking, Querying
  <1>9. AmountsOK(x)
    BY <1>4, <1>6 DEF AmountsOK
  <1>10. x.result.decision # Block
    BY <1>1, <1>6 DEF Unchecked, Block
  <1>11. ~Enabled => rules = <<>> /\ ~hasLimit(Default)
    BY <1>2 DEF Enabled
  <1>12. ~Enabled => \A z \in own(x) : ruleOf(z) = NoRule \/ ~hasLimit(ruleOf(z))
    <2> SUFFICES ASSUME ~Enabled, NEW z \in own(x) PROVE ruleOf(z) = NoRule \/ ~hasLimit(ruleOf(z))
      OBVIOUS
    <2>1. Len(rules) = 0 /\ ~hasLimit(Default)
      BY <1>11
    <2>2. \A a : matchRule(rules, Default, a) = Default /\ matchTenantRule(rules, Default, a) = NoRule
      BY <2>1 DEF matchRule, matchTenantRule
    <2> QED BY <2>1, <2>2 DEF ruleOf
  <1>13. ASSUME NEW z \in evaluatedScopes(x) PROVE Clean(x, z)
    <2>1. CASE pc = "decide"
      <3>1. z \in own(x)
        BY <1>6, <1>13, <2>1 DEF evaluatedScopes
      <3>2. ruleOf(z) = NoRule \/ ~hasLimit(ruleOf(z))
        BY <1>3, <1>4, <1>7, <1>12, <2>1, <3>1
      <3> QED BY <3>2, NoLimitClean
    <2>2. CASE pc = "tenant"
      <3>1. z = s /\ ~hasLimit(ruleOf(z))
        BY <1>3, <1>4, <1>6, <1>13, <2>2 DEF evaluatedScopes
      <3> QED BY <3>1, NoLimitClean
    <2>3. CASE pc = "lookup"
      BY <1>6, <1>13, <2>3 DEF evaluatedScopes
    <2> QED BY <1>4, <2>1, <2>2, <2>3
  <1>14. OutcomeOK(x)
    BY <1>10, <1>13 DEF OutcomeOK
  <1>15. HandlerOK(x)
    BY <1>8, <1>9, <1>14 DEF HandlerOK
  <1> QED BY <1>15 DEF x, r, pc

LEMMA MatchedOK ==
  ASSUME EnvInv, NEW g, HandlerOK(g), g.pc = "tenant"
  PROVE  LET r == matchTenantRule(rules, Default, g.tenant)
         IN  HandlerOK(matched(g, r, <<"tenant", g.tenant>>, IF r = NoRule THEN "decide" ELSE "lookup"))
  <1> DEFINE r  == matchTenantRule(rules, Default, g.tenant)
             pc == IF r = NoRule THEN "decide" ELSE "lookup"
             s  == <<"tenant", g.tenant>>
             k  == <<"key", g.key>>
             x  == matched(g, r, s, pc)
  <1>1. PlaceOK(g) /\ OutcomeOK(g) /\ g \in Handler
    BY DEF HandlerOK, PlaceOK
  <1>2. g.key \in Keys /\ g.tenant \in Tenants /\ g.tenant # NoTenant /\ g.checkedAt <= now
    BY <1>1 DEF PlaceOK, Checking
  <1>3. rules \in Seq(Rule)
    BY BudgetAssumption DEF EnvInv
  <1>4. r \in Rule \cup {NoRule} /\ r = ruleOf(s)
    BY <1>3, MatchTypes DEF ruleOf
  <1>5. pc \in PCs /\ pc \in Checking /\ ((pc = "decide" /\ r = NoRule) \/ (pc = "lookup" /\ r # NoRule))
    BY DEF PCs, Checking
  <1>6. s \in own(g) /\ s \in Scopes /\ \A z \in own(g) : z = k \/ z = s
    BY <1>2, OwnScopes
  <1> HIDE DEF r, pc, s, k
  <1>7. /\ x \in Handler /\ x.key = g.key /\ x.tenant = g.tenant /\ x.checkedAt = g.checkedAt
        /\ x.kept = g.kept /\ x.rule = r /\ x.scope = s /\ x.pc = pc /\ x.result = g.result
    BY <1>1, <1>4, <1>5, <1>6, MatchedType
  <1> HIDE DEF x
  <1>8. own(x) = own(g) /\ (Backed(x) <=> Backed(g)) /\ \A z : Clean(x, z) <=> Clean(g, z)
    BY <1>7, SameClaims
  <1>9. PlaceOK(x)
    BY <1>2, <1>4, <1>5, <1>6, <1>7, <1>8 DEF PlaceOK, Looking, Querying
  <1>10. AmountsOK(x)
    BY <1>5, <1>7 DEF AmountsOK
  <1>11. OutcomeOK(x)
    <2>1. evaluatedScopes(g) = {k}
      BY DEF evaluatedScopes, k
    <2>2. \A z \in evaluatedScopes(x) : z = k \/ (z = s /\ r = NoRule)
      BY <1>5, <1>6, <1>7, <1>8 DEF evaluatedScopes, s, k
    <2>3. r = NoRule => Clean(x, s)
      BY <1>4, NoLimitClean
    <2>4. g.result.decision = Block => Backed(g)
      BY <1>1 DEF OutcomeOK, Checking
    <2>5. g.result.decision # Block /\ g.kept => Clean(g, k)
      BY <1>1, <2>1 DEF OutcomeOK, Checking
    <2> QED BY <1>7, <1>8, <2>2, <2>3, <2>4, <2>5 DEF OutcomeOK
  <1>12. HandlerOK(x)
    BY <1>9, <1>10, <1>11 DEF HandlerOK
  <1> QED BY <1>12 DEF x, r, pc, s

\* The claims of a handler that goes on looking at the same scope.
LEMMA LookingClaims ==
  ASSUME NEW g, NEW x, OutcomeOK(g), g.pc \in Looking, x.pc \in Looking,
         x.key = g.key, x.tenant = g.tenant, x.checkedAt = g.checkedAt,
         x.kept = g.kept, x.scope = g.scope, x.result = g.result
  PROVE  OutcomeOK(x) /\ own(x) = own(g)
  <1>1. own(x) = own(g) /\ (Backed(x) <=> Backed(g)) /\ \A z : Clean(x, z) <=> Clean(g, z)
    BY SameClaims
  <1>2. evaluatedScopes(x) = evaluatedScopes(g)
    BY DEF evaluatedScopes, Looking
  <1>3. g.pc \in Checking
    BY DEF Looking, Checking
  <1> QED BY <1>1, <1>2, <1>3 DEF OutcomeOK

LEMMA MissedOK ==
  ASSUME EnvInv, NEW g, HandlerOK(g), g.pc = "lookup"
  PROVE  HandlerOK(missed(g, now))
  <1> DEFINE x == missed(g, now)
  <1>1. PlaceOK(g) /\ OutcomeOK(g) /\ g \in Handler /\ now \in Nat /\ MaxQuery \in Nat
    BY BudgetAssumption DEF HandlerOK, PlaceOK, EnvInv
  <1>2. /\ x \in Handler /\ x.key = g.key /\ x.tenant = g.tenant /\ x.checkedAt = g.checkedAt
        /\ x.kept = g.kept /\ x.rule = g.rule /\ x.scope = g.scope /\ x.result = g.result
        /\ x.pc = "daily" /\ x.until = now
    BY <1>1, MissedType
  <1> HIDE DEF x
  <1>3. OutcomeOK(x) /\ own(x) = own(g)
    BY <1>1, <1>2, LookingClaims DEF Looking
  <1>4. PlaceOK(x)
    BY <1>1, <1>2, <1>3 DEF PlaceOK, Checking, Looking, Querying
  <1>5. AmountsOK(x)
    BY <1>2 DEF AmountsOK
  <1>6. HandlerOK(x)
    BY <1>3, <1>4, <1>5 DEF HandlerOK
  <1> QED BY <1>6 DEF x

\* What a query returns: the spend of the period, or 0 and a note of the error.
LEMMA QueryReturns ==
  ASSUME EnvInv, UNCHANGED <<now, ledger>>, NEW s \in Scopes, NEW since \in Nat,
         NEW u \in Nat, u <= now, NEW ok \in BOOLEAN, NEW d,
         d = IF ok THEN Spend(ledger, s, since, u) ELSE 0,
         ok \/ lastError'[s] = now
  PROVE  d \in Nat /\ NotMore(s, d, since, u)' /\ NotLess(s, d, since, u)'
  <1>1. now \in Nat /\ now # None /\ IsFiniteSet(cents(ledger))
    BY BudgetAssumption DEF EnvInv
  <1>2. Spend(ledger, s, since, u) \in Nat
    BY <1>1, SpendMonotone
  <1>3. d \in Nat /\ d <= Spend(ledger, s, since, u)
    BY <1>2
  <1>4. NotMore(s, d, since, u)'
    BY <1>3 DEF NotMore
  <1>5. NotLess(s, d, since, u)'
    <2>1. CASE ok
      <3>1. within(settled(u), s, since, u) \subseteq within(ledger, s, since, u)
        BY DEF within, settled
      <3>2. Spend(settled(u), s, since, u) <= d
        BY <1>1, <2>1, <3>1, SpendMonotone
      <3>3. settled(u)' = settled(u)
        BY DEF settled
      <3>4. Spend(settled(u)', s, since, u) <= d
        BY <3>2, <3>3
      <3> QED BY <3>4 DEF NotLess
    <2>2. CASE ~ok
      <3>1. lastError'[s] = now /\ now # None /\ now >= u
        BY <1>1, <2>2
      <3> QED BY <3>1 DEF NotLess
    <2> QED BY <2>1, <2>2
  <1> QED BY <1>3, <1>4, <1>5

LEMMA QueriedDayOK ==
  ASSUME EnvInv, Grows, UNCHANGED <<now, ledger, rules>>, NEW g, HandlerOK(g), g.pc = "daily",
         NEW ok \in BOOLEAN, NEW d, d = IF ok THEN Spend(ledger, g.scope, dayStart(g.until), g.until) ELSE 0,
         ok \/ lastError'[g.scope] = now
  PROVE  HandlerOK(queriedDay(g, d))'
  <1> DEFINE x == queriedDay(g, d)
  <1>1. /\ PlaceOK(g) /\ OutcomeOK(g) /\ g \in Handler /\ g.scope \in own(g) /\ g.scope \in Scopes
        /\ g.until \in Nat /\ g.until <= now /\ now - g.until <= MaxQuery
    BY OwnScopes DEF HandlerOK, PlaceOK, Handler, Looking, Querying
  <1>2. dayStart(g.until) \in Nat
    BY <1>1, Periods
  <1>3. /\ d \in Nat
        /\ NotMore(g.scope, d, dayStart(g.until), g.until)'
        /\ NotLess(g.scope, d, dayStart(g.until), g.until)'
    BY <1>1, <1>2, QueryReturns
  <1>4. /\ x \in Handler /\ x.key = g.key /\ x.tenant = g.tenant /\ x.checkedAt = g.checkedAt
        /\ x.kept = g.kept /\ x.rule = g.rule /\ x.scope = g.scope /\ x.result = g.result
        /\ x.pc = "monthly" /\ x.until = g.until /\ x.daily = d
    <2>1. \A t \in Nat : LET y == queriedDay(g, t)
                         IN  /\ y \in Handler /\ y.key = g.key /\ y.tenant = g.tenant
                             /\ y.checkedAt = g.checkedAt /\ y.kept = g.kept /\ y.rule = g.rule
                             /\ y.scope = g.scope /\ y.result = g.result
                             /\ y.pc = "monthly" /\ y.until = g.until /\ y.daily = t
      BY <1>1, QueriedDayType
    <2> QED BY <1>3, <2>1
  <1>5. PICK y : y = x
    OBVIOUS
  <1> HIDE DEF x
  <1>6. OutcomeOK(y) /\ own(y) = own(g)
    BY <1>1, <1>4, <1>5, LookingClaims DEF Looking
  <1>7. PlaceOK(y)
    BY <1>1, <1>4, <1>5, <1>6 DEF PlaceOK, Checking, Looking, Querying
  <1>8. PlaceOK(y)' /\ OutcomeOK(y)'
    BY <1>1, <1>4, <1>5, <1>6, <1>7, PlaceStable
  <1>9. AmountsOK(y)'
    BY <1>3, <1>4, <1>5 DEF AmountsOK
  <1>10. HandlerOK(y)'
    BY <1>8, <1>9 DEF HandlerOK
  <1> QED BY <1>5, <1>10 DEF x

LEMMA QueriedMonthOK ==
  ASSUME EnvInv, Grows, UNCHANGED <<now, ledger, rules>>, NEW g, HandlerOK(g), g.pc = "monthly",
         NEW ok \in BOOLEAN, NEW m, m = IF ok THEN Spend(ledger, g.scope, monthStart(g.until), g.until) ELSE 0,
         ok \/ lastError'[g.scope] = now
  PROVE  HandlerOK(queriedMonth(g, m))'
  <1> DEFINE x == queriedMonth(g, m)
  <1>1. /\ PlaceOK(g) /\ OutcomeOK(g) /\ g \in Handler /\ g.scope \in own(g) /\ g.scope \in Scopes
        /\ g.until \in Nat /\ g.until <= now /\ now - g.until <= MaxQuery /\ g.daily \in Nat
    BY OwnScopes DEF HandlerOK, PlaceOK, Handler, Looking, Querying
  <1>2. /\ dayStart(g.until) \in Nat /\ monthStart(g.until) \in Nat
        /\ monthStart(g.until) <= dayStart(g.until)
    BY <1>1, Periods
  <1>3. /\ m \in Nat
        /\ NotMore(g.scope, m, monthStart(g.until), g.until)'
        /\ NotLess(g.scope, m, monthStart(g.until), g.until)'
    BY <1>1, <1>2, QueryReturns
  <1>4. /\ NotMore(g.scope, g.daily, dayStart(g.until), g.until)
        /\ NotLess(g.scope, g.daily, dayStart(g.until), g.until)
    BY DEF HandlerOK, AmountsOK
  <1>5. /\ NotMore(g.scope, g.daily, dayStart(g.until), g.until)'
        /\ NotLess(g.scope, g.daily, dayStart(g.until), g.until)'
    BY <1>1, <1>2, <1>4, AmountsStable
  <1>6. lastError'[g.scope] = None => g.daily <= m
    <2> SUFFICES ASSUME lastError'[g.scope] = None PROVE g.daily <= m
      OBVIOUS
    <2>1. now # None /\ IsFiniteSet(cents(ledger)) /\ \A rec \in ledger : rec.ts \in Nat
      BY BudgetAssumption DEF EnvInv
    <2>2. m = Spend(ledger, g.scope, monthStart(g.until), g.until)
      BY <2>1
    <2>3. within(ledger, g.scope, dayStart(g.until), g.until)
            \subseteq within(ledger, g.scope, monthStart(g.until), g.until)
      BY <1>2, <2>1 DEF within
    <2>4. /\ Spend(ledger, g.scope, dayStart(g.until), g.until) \in Nat
          /\ Spend(ledger, g.scope, dayStart(g.until), g.until) <= m
      BY <2>1, <2>2, <2>3, SpendMonotone
    <2>5. g.daily <= Spend(ledger, g.scope, dayStart(g.until), g.until)
      BY <1>4 DEF NotMore
    <2> QED BY <1>1, <1>3, <2>4, <2>5
  <1>7. /\ x \in Handler /\ x.key = g.key /\ x.tenant = g.tenant /\ x.checkedAt = g.checkedAt
        /\ x.kept = g.kept /\ x.rule = g.rule /\ x.scope = g.scope /\ x.result = g.result
        /\ x.pc = "store" /\ x.until = g.until /\ x.daily = g.daily /\ x.monthly = m
    <2>1. \A t \in Nat : LET y == queriedMonth(g, t)
                         IN  /\ y \in Handler /\ y.key = g.key /\ y.tenant = g.tenant
                             /\ y.checkedAt = g.checkedAt /\ y.kept = g.kept /\ y.rule = g.rule
                             /\ y.scope = g.scope /\ y.result = g.result
                             /\ y.pc = "store" /\ y.until = g.until /\ y.daily = g.daily /\ y.monthly = t
      BY <1>1, QueriedMonthType
    <2> QED BY <1>3, <2>1
  <1>8. PICK y : y = x
    OBVIOUS
  <1> HIDE DEF x
  <1>9. OutcomeOK(y) /\ own(y) = own(g)
    BY <1>1, <1>7, <1>8, LookingClaims DEF Looking
  <1>10. PlaceOK(y)
    BY <1>1, <1>7, <1>8, <1>9 DEF PlaceOK, Checking, Looking, Querying
  <1>11. PlaceOK(y)' /\ OutcomeOK(y)'
    BY <1>1, <1>7, <1>8, <1>9, <1>10, PlaceStable
  <1>12. AmountsOK(y)'
    BY <1>3, <1>5, <1>6, <1>7, <1>8 DEF AmountsOK
  <1>13. HandlerOK(y)'
    BY <1>11, <1>12 DEF HandlerOK
  <1> QED BY <1>8, <1>13 DEF x

-----------------------------------------------------------------------------
(* The evaluation of a rule against the amounts found.                     *)

judged(g, r, pc) ==
    [g EXCEPT !.result = r, !.daily = 0, !.monthly = 0, !.until = 0, !.pc = pc]

LEMMA JudgedType ==
  ASSUME NEW g \in Handler, NEW r \in Results, NEW pc \in PCs
  PROVE  LET x == judged(g, r, pc)
         IN  /\ x \in Handler /\ x.key = g.key /\ x.tenant = g.tenant /\ x.checkedAt = g.checkedAt
             /\ x.kept = g.kept /\ x.scope = g.scope /\ x.result = r /\ x.pc = pc
  BY DEF Handler, judged

LEMMA EvaluateRuleType ==
  ASSUME NEW rule \in Rule, NEW d \in Nat, NEW m \in Nat
  PROVE  LET e == evaluateRule(rule, d, m)
         IN  /\ e \in Results /\ e.decision = decision(rule, d, m)
             /\ e.dailyLimit = rule.daily /\ e.monthlyLimit = rule.monthly
  BY RuleFields, DecisionType DEF evaluateRule, Results

\* The scope a handler looks at, and what it has evaluated before.
LEMMA LookingScope ==
  ASSUME NEW g, PlaceOK(g), g.pc \in Looking
  PROVE  /\ g \in Handler /\ g.key \in Keys /\ g.tenant \in Tenants /\ g.checkedAt <= now
         /\ g.scope \in own(g) /\ g.scope \in Scopes /\ g.rule \in Rule
         /\ \/ g.scope = <<"key", g.key>> /\ g.scope[1] = "key"
            \/ /\ g.scope = <<"tenant", g.tenant>> /\ g.scope[1] # "key"
               /\ evaluatedScopes(g) = {<<"key", g.key>>}
  <1>1. g.pc \in Checking /\ g.pc # "decide"
    BY DEF Checking, Looking
  <1>2. g.scope \in own(g) /\ g.scope \in Scopes /\ g.rule \in Rule
    BY OwnScopes DEF PlaceOK
  <1>3. g.scope = <<"key", g.key>> \/ g.scope = <<"tenant", g.tenant>>
    BY <1>2, OwnScopes
  <1>4. g.scope = <<"tenant", g.tenant>> => evaluatedScopes(g) = {<<"key", g.key>>}
    BY <1>1 DEF evaluatedScopes
  <1>5. <<"key", g.key>>[1] = "key" /\ <<"tenant", g.tenant>>[1] # "key"
    OBVIOUS
  <1> QED BY <1>1, <1>2, <1>3, <1>4, <1>5 DEF PlaceOK

\* Amounts as of u that hold no money that was not spent justify a block.
LEMMA BlockBacked ==
  ASSUME EnvInv, NEW g, NEW s \in own(g), NEW d \in Nat, NEW m \in Nat, NEW u \in Nat, u <= now,
         g.checkedAt \in Nat, horizon(g) < u, NEW rule \in Rule, decision(rule, d, m) = Block,
         g.result.dailyLimit = rule.daily, g.result.monthlyLimit = rule.monthly,
         NotMore(s, d, dayStart(u), u), NotMore(s, m, monthStart(u), u)
  PROVE  Backed(g)
  <1>1. now \in Nat /\ IsFiniteSet(cents(ledger)) /\ horizon(g) \in Int
    BY BudgetAssumption DEF EnvInv, horizon
  <1>2. dayStart(u) \in Nat /\ monthStart(u) \in Nat /\ rule.daily \in Nat /\ rule.monthly \in Nat
    BY Periods, RuleFields
  <1>3. \A c \in Nat : within(ledger, s, c, u) \subseteq within(ledger, s, c, now)
    BY <1>1 DEF within, EnvInv
  <1>4. \A c \in Nat : /\ Spend(ledger, s, c, u) \in Nat /\ Spend(ledger, s, c, now) \in Nat
                       /\ Spend(ledger, s, c, u) <= Spend(ledger, s, c, now)
    BY <1>1, <1>3, SpendMonotone
  <1>5. d <= spentInDay(s, u) /\ m <= spentInMonth(s, u)
        /\ spentInDay(s, u) \in Nat /\ spentInMonth(s, u) \in Nat
    BY <1>2, <1>4 DEF NotMore, spentInDay, spentInMonth
  <1>6. (rule.daily > 0 /\ d >= rule.daily) \/ (rule.monthly > 0 /\ m >= rule.monthly)
    BY BlockReached
  <1>7. \/ rule.daily > 0 /\ spentInDay(s, u) >= rule.daily
        \/ rule.monthly > 0 /\ spentInMonth(s, u) >= rule.monthly
    BY <1>2, <1>5, <1>6
  <1>8. u \in horizon(g) .. now /\ u >= 0
    BY <1>1
  <1> QED BY <1>7, <1>8 DEF Backed

\* Amounts as of u that hold all that was settled and do not block: what was
\* spent before the horizon does not block either.
LEMMA PassClean ==
  ASSUME EnvInv, NEW g, NEW s \in Scopes, NEW d \in Nat, NEW m \in Nat, NEW u \in Nat, u <= now,
         g.checkedAt \in Nat, horizon(g) < u, ruleOf(s) \in Rule, decision(ruleOf(s), d, m) # Block,
         NotLess(s, d, dayStart(u), u), NotLess(s, m, monthStart(u), u)
  PROVE  Clean(g, s)
  <1> DEFINE O  == {rec \in ledger : rec.at <= horizon(g)}
             d1 == Spend(O, s, dayStart(now), now)
             m1 == Spend(O, s, monthStart(now), now)
             d2 == Spend(settled(u), s, dayStart(u), u)
             m2 == Spend(settled(u), s, monthStart(u), u)
  <1>1. now \in Nat /\ horizon(g) \in Int /\ lastError \in [Scopes -> Nat \cup {None}]
    BY BudgetAssumption DEF EnvInv, horizon
  <1>2. CASE lastError[s] # None /\ lastError[s] >= u
    BY <1>1, <1>2 DEF Clean
  <1>3. CASE ~(lastError[s] # None /\ lastError[s] >= u)
    <2>1. d2 <= d /\ m2 <= m
      BY <1>3 DEF NotLess
    <2>2. /\ dayStart(u) <= dayStart(now) /\ dayStart(u) \in Nat /\ dayStart(now) \in Nat
          /\ monthStart(u) <= monthStart(now) /\ monthStart(u) \in Nat /\ monthStart(now) \in Nat
      BY <1>1, Periods
    <2>3. \A rec \in O : rec \in settled(u) /\ rec.ts \in Nat /\ rec.ts <= u
      <3>1. \A rec \in ledger : rec.ts \in Nat /\ rec.at \in Nat /\ rec.ts <= rec.at
        BY DEF EnvInv
      <3> QED BY <1>1, <3>1 DEF settled
    <2>4. /\ within(O, s, dayStart(now), now) \subseteq within(settled(u), s, dayStart(u), u)
          /\ within(O, s, monthStart(now), now) \subseteq within(settled(u), s, monthStart(u), u)
      <3> HIDE DEF O
      <3> QED BY <2>2, <2>3 DEF within
    <2>5. IsFiniteSet(cents(settled(u)))
      BY CentsMonotone DEF EnvInv, settled
    <2>6. d1 \in Nat /\ d2 \in Nat /\ m1 \in Nat /\ m2 \in Nat /\ d1 <= d2 /\ m1 <= m2
      <3> HIDE DEF O
      <3> QED BY <2>4, <2>5, SpendMonotone
    <2>7. verdict(s, O) = decision(ruleOf(s), d1, m1)
      <3>1. ruleOf(s) # NoRule
        BY RuleFields
      <3> QED BY <3>1 DEF verdict
    <2> HIDE DEF d1, d2, m1, m2
    <2>8. d1 <= d /\ m1 <= m
      BY <2>1, <2>6
    <2>9. decision(ruleOf(s), d1, m1) <= decision(ruleOf(s), d, m)
      <3>1. ruleOf(s).daily \in Nat /\ ruleOf(s).monthly \in Nat /\ ruleOf(s).soft \in Nat
        BY RuleFields
      <3> QED BY <2>6, <2>8, <3>1, DecisionMonotone
    <2>10. decision(ruleOf(s), d1, m1) \in 0 .. 2 /\ decision(ruleOf(s), d, m) \in 0 .. 2
      BY DecisionType
    <2>11. verdict(s, O) # Block
      BY <2>7, <2>9, <2>10 DEF Block
    <2> QED BY <2>11 DEF Clean
  <1> QED BY <1>2, <1>3

LEMMA JudgedOK ==
  ASSUME EnvInv, NEW g, HandlerOK(g), g.pc \in Looking, NEW d \in Nat, NEW m \in Nat,
         NEW u \in Nat, u <= now, horizon(g) < u,
         NotMore(g.scope, d, dayStart(u), u), NotMore(g.scope, m, monthStart(u), u),
         NotLess(g.scope, d, dayStart(u), u), NotLess(g.scope, m, monthStart(u), u)
  PROVE  HandlerOK(judged(g, stricter(g.result, evaluateRule(g.rule, d, m)),
                          IF g.scope[1] = "key" /\ g.tenant # NoTenant THEN "tenant" ELSE "decide"))
  <1> DEFINE e  == evaluateRule(g.rule, d, m)
             r  == stricter(g.result, e)
             pc == IF g.scope[1] = "key" /\ g.tenant # NoTenant THEN "tenant" ELSE "decide"
             x  == judged(g, r, pc)
             k  == <<"key", g.key>>
  <1>1. PlaceOK(g) /\ OutcomeOK(g)
    BY DEF HandlerOK
  <1>2. /\ g \in Handler /\ g.key \in Keys /\ g.tenant \in Tenants /\ g.checkedAt <= now
        /\ g.scope \in own(g) /\ g.scope \in Scopes /\ g.rule \in Rule
        /\ \/ g.scope = <<"key", g.key>> /\ g.scope[1] = "key"
           \/ /\ g.scope = <<"tenant", g.tenant>> /\ g.scope[1] # "key"
              /\ evaluatedScopes(g) = {<<"key", g.key>>}
    BY <1>1, LookingScope
  <1>3. g.result \in Results /\ g.checkedAt \in Nat
    BY <1>2 DEF Handler
  <1>4. /\ e \in Results /\ e.decision = decision(g.rule, d, m)
        /\ e.dailyLimit = g.rule.daily /\ e.monthlyLimit = g.rule.monthly
    BY <1>2, EvaluateRuleType
  <1> HIDE DEF e
  <1>5. g.result.decision \in -1 .. 2 /\ e.decision \in -1 .. 2
    BY <1>3, <1>4 DEF Results
  <1>6. /\ r \in Results
        /\ r.decision = Block => (g.result.decision = Block /\ r = g.result) \/ (e.decision = Block /\ r = e)
        /\ r.decision # Block => g.result.decision # Block /\ e.decision # Block
    BY <1>3, <1>4, <1>5 DEF stricter, Block
  <1>7. /\ pc \in {"tenant", "decide"} /\ pc \in PCs /\ pc \in Checking
        /\ pc = "tenant" <=> (g.scope[1] = "key" /\ g.tenant # NoTenant)
    BY DEF PCs, Checking
  <1> HIDE DEF r, pc, k
  <1>8. /\ x \in Handler /\ x.key = g.key /\ x.tenant = g.tenant /\ x.checkedAt = g.checkedAt
        /\ x.kept = g.kept /\ x.scope = g.scope /\ x.result = r /\ x.pc = pc
    BY <1>2, <1>6, <1>7, JudgedType
  <1> HIDE DEF x
  <1>9. /\ own(x) = own(g) /\ horizon(x) = horizon(g)
        /\ x.result = g.result => (Backed(x) <=> Backed(g))
        /\ \A z : Clean(x, z) <=> Clean(g, z)
    BY <1>8, SameClaims
  <1>10. PlaceOK(x)
    BY <1>2, <1>7, <1>8 DEF PlaceOK, Looking, Querying
  <1>11. AmountsOK(x)
    BY <1>7, <1>8 DEF AmountsOK
  <1>12. g.pc \in Checking
    BY DEF Looking, Checking
  <1>13. r.decision = Block => Backed(x)
    <2>1. CASE g.result.decision = Block /\ r = g.result
      BY <1>1, <1>8, <1>9, <1>12, <2>1 DEF OutcomeOK
    <2>2. CASE e.decision = Block /\ r = e
      <3>1. /\ g.scope \in own(x) /\ decision(g.rule, d, m) = Block /\ x.checkedAt \in Nat /\ horizon(x) < u
            /\ x.result.dailyLimit = g.rule.daily /\ x.result.monthlyLimit = g.rule.monthly
        BY <1>2, <1>3, <1>4, <1>8, <1>9, <2>2
      <3> QED BY <1>2, <3>1, BlockBacked
    <2> QED BY <1>6, <2>1, <2>2
  <1>14. ASSUME r.decision # Block, x.kept, NEW z \in evaluatedScopes(x) PROVE Clean(x, z)
    <2>1. z = g.scope \/ (z \in evaluatedScopes(g))
      <3>1. \A y \in own(g) : y = k \/ y = <<"tenant", g.tenant>>
        BY OwnScopes DEF k
      <3>2. g.tenant = NoTenant => \A y \in own(g) : y = k
        BY OwnScopes DEF k
      <3>3. pc = "tenant" => z = k
        BY <1>8, <1>14 DEF evaluatedScopes, k
      <3>4. pc = "decide" => z \in own(g)
        BY <1>8, <1>9, <1>14 DEF evaluatedScopes
      <3> QED BY <1>2, <1>7, <3>1, <3>2, <3>3, <3>4 DEF k
    <2>2. CASE z = g.scope
      <3>1. g.rule = ruleOf(g.scope) /\ decision(g.rule, d, m) # Block
        BY <1>1, <1>4, <1>6, <1>8, <1>14 DEF PlaceOK
      <3>2. Clean(g, g.scope)
        BY <1>2, <1>3, <3>1, PassClean
      <3> QED BY <1>9, <2>2, <3>2
    <2>3. CASE z \in evaluatedScopes(g)
      BY <1>1, <1>6, <1>8, <1>9, <1>12, <1>14, <2>3 DEF OutcomeOK
    <2> QED BY <2>1, <2>2, <2>3
  <1>15. OutcomeOK(x)
    BY <1>8, <1>13, <1>14 DEF OutcomeOK
  <1>16. HandlerOK(x)
    BY <1>10, <1>11, <1>15 DEF HandlerOK
  <1> QED BY <1>16 DEF x, r, e, pc

-----------------------------------------------------------------------------
(* The invariant is inductive.                                             *)

LEMMA HandlersStep ==
  ASSUME EnvInv, HandlersInv, Grows, UNCHANGED <<now, rules>>, NEW q \in Requests, NEW x,
         h' = [h EXCEPT ![q] = x], HandlerOK(x)'
  PROVE  HandlersInv'
  <1>1. x \in Handler /\ h \in [Requests -> Handler]
    BY DEF HandlerOK, PlaceOK, HandlersInv, Handler
  <1>2. h' \in [Requests -> Handler] /\ h'[q] = x /\ \A p \in Requests : p # q => h'[p] = h[p]
    BY <1>1
  <1>3. ASSUME NEW p \in Requests PROVE HandlerOK(h[p])'
    <2>1. CASE p = q
      BY <1>2, <2>1
    <2>2. CASE p # q
      <3>1. PICK g : g = h[p]
        OBVIOUS
      <3>2. HandlerOK(g) /\ h'[p] = g
        BY <1>2, <2>2, <3>1 DEF HandlersInv
      <3>3. g.pc \in Querying => now' - g.until <= MaxQuery
        BY <3>2 DEF HandlerOK, PlaceOK
      <3>4. HandlerOK(g)'
        BY <3>2, <3>3, HandlerStable
      <3> QED BY <3>2, <3>4
    <2> QED BY <2>1, <2>2
  <1> QED BY <1>2, <1>3 DEF HandlersInv, Handler

\* The same for a step that leaves all that the claims are about alone.
LEMMA HandlersAssign ==
  ASSUME EnvInv, HandlersInv, Grows, UNCHANGED <<now, rules, ledger, lastError>>, NEW q \in Requests, NEW x,
         h' = [h EXCEPT ![q] = x], HandlerOK(x)
  PROVE  HandlersInv'
  <1>1. x.pc \in Querying => now' - x.until <= MaxQuery
    BY DEF HandlerOK, PlaceOK
  <1>2. HandlerOK(x)'
    BY <1>1, HandlerStable
  <1> QED BY <1>2, HandlersStep

LEMMA CacheStep ==
  ASSUME CacheInv, Grows, cache' \in [Scopes -> Entry \cup {None}],
         \A s \in Scopes : cache'[s] = cache[s] \/ cache'[s] = None
  PROVE  CacheInv'
  <1>1. ASSUME NEW s \in Scopes, cache'[s] # None PROVE EntryOK(s, cache[s])'
    <2>1. PICK e : e = cache[s]
      OBVIOUS
    <2>2. EntryOK(s, e) /\ cache'[s] = e
      BY <1>1, <2>1 DEF CacheInv
    <2>3. EntryOK(s, e)'
      BY <2>2, EntryStable
    <2> QED BY <2>2, <2>3
  <1> QED BY <1>1 DEF CacheInv

LEMMA InitIInv == Init => IInv
  <1> SUFFICES ASSUME Init PROVE IInv
    OBVIOUS
  <1> USE BudgetAssumption
  <1>1. cents(ledger) = {}
    BY DEF Init, cents
  <1>2. EnvInv
    <2>1. IsFiniteSet(cents(ledger))
      BY <1>1, FS_EmptySet
    <2>2. now \in 0 .. MaxTime /\ rules \in RuleSets /\ doomed \subseteq Scopes
      BY DEF Init
    <2>3. clearing \in BOOLEAN
      BY Zenon DEF Init
    <2>4. lastError \in [Scopes -> Nat \cup {None}] /\ \A s \in Scopes : lastError[s] = None
      BY DEF Init
    <2>5. ledger = {}
      BY DEF Init
    <2> QED BY <2>1, <2>2, <2>3, <2>4, <2>5 DEF EnvInv
  <1>3. CacheInv
    BY DEF Init, CacheInv
  <1>4. NewHandler \in Handler /\ NewHandler.pc = "new" /\ NewHandler.result = Unchecked
    BY NewHandlerType
  <1>5. HandlerOK(NewHandler)
    BY <1>4 DEF HandlerOK, PlaceOK, AmountsOK, OutcomeOK, Checking, Looking, Querying
  <1>6. HandlersInv
    BY <1>4, <1>5 DEF Init, HandlersInv
  <1> QED BY <1>2, <1>3, <1>6 DEF IInv

\* A check, up to its decision, one action at a time.
LEMMA CheckStep ==
  ASSUME IInv, Grows, NEW q \in Requests,
         Arrive(q) \/ MatchTenant(q) \/ Miss(q) \/ QueryDaily(q) \/ QueryMonthly(q)
  PROVE  HandlersInv'
  <1>1. EnvInv /\ HandlersInv /\ h \in [Requests -> Handler]
    BY DEF IInv, HandlersInv
  <1>2. PICK g : g = h[q]
    OBVIOUS
  <1>3. HandlerOK(g)
    BY <1>1, <1>2 DEF HandlersInv
  <1>4. CASE Arrive(q)
    <2> DEFINE r(k) == matchRule(rules, Default, k)
               pc(k, t) == IF ~Enabled THEN "decide" ELSE IF hasLimit(r(k)) THEN "lookup"
                           ELSE IF t # NoTenant THEN "tenant" ELSE "decide"
    <2>1. PICK k \in Keys, t \in Tenants, w \in Worsts :
            h' = [h EXCEPT ![q] = arrived(g, k, t, w, now, r(k), pc(k, t))]
      BY <1>1, <1>2, <1>4 DEF Arrive, arrived
    <2>2. PICK x : x = arrived(g, k, t, w, now, r(k), pc(k, t))
      OBVIOUS
    <2>3. g.pc = "new" /\ w \in Nat /\ UNCHANGED <<now, rules, ledger, lastError>>
      BY <1>2, <1>4, BudgetAssumption DEF Arrive
    <2>4. HandlerOK(x)
      BY <1>1, <1>3, <2>2, <2>3, ArrivedOK
    <2>5. h' = [h EXCEPT ![q] = x]
      BY <2>1, <2>2
    <2> QED BY <1>1, <2>3, <2>4, <2>5, HandlersAssign
  <1>5. CASE MatchTenant(q)
    <2> DEFINE r == matchTenantRule(rules, Default, g.tenant)
    <2>1. PICK x : x = matched(g, r, <<"tenant", g.tenant>>, IF r = NoRule THEN "decide" ELSE "lookup")
      OBVIOUS
    <2>2. h' = [h EXCEPT ![q] = x] /\ g.pc = "tenant" /\ UNCHANGED <<now, rules, ledger, lastError>>
      BY <1>1, <1>2, <1>5, <2>1 DEF MatchTenant, matched
    <2>3. HandlerOK(x)
      BY <1>1, <1>3, <2>1, <2>2, MatchedOK
    <2> QED BY <1>1, <2>2, <2>3, HandlersAssign
  <1>6. CASE Miss(q)
    <2>1. PICK x : x = missed(g, now)
      OBVIOUS
    <2>2. h' = [h EXCEPT ![q] = x] /\ g.pc = "lookup" /\ UNCHANGED <<now, rules, ledger, lastError>>
      BY <1>1, <1>2, <1>6, <2>1 DEF Miss, missed
    <2>3. HandlerOK(x)
      BY <1>1, <1>3, <2>1, <2>2, MissedOK
    <2> QED BY <1>1, <2>2, <2>3, HandlersAssign
  <1>7. CASE QueryDaily(q) \/ QueryMonthly(q)
    <2>1. g.pc \in {"daily", "monthly"} /\ UNCHANGED <<now, rules, ledger>>
      BY <1>2, <1>7 DEF QueryDaily, QueryMonthly
    <2>2. g.scope \in Scopes /\ lastError \in [Scopes -> Nat \cup {None}]
      BY <1>1, <1>3, <2>1, LookingScope DEF HandlerOK, EnvInv, Looking
    <2>3. ASSUME NEW ok \in BOOLEAN, noteError(q, ok) PROVE ok \/ lastError'[g.scope] = now
      BY <1>2, <2>2, <2>3 DEF noteError
    <2>4. CASE QueryDaily(q)
      <3>1. PICK ok \in BOOLEAN :
              /\ h' = [h EXCEPT ![q] = queriedDay(g, queryResult(q, dayStart(g.until), ok))]
              /\ noteError(q, ok)
        BY <1>1, <1>2, <2>4, BudgetAssumption DEF QueryDaily, queriedDay
      <3>2. PICK d : d = queryResult(q, dayStart(g.until), ok)
        OBVIOUS
      <3>3. d = IF ok THEN Spend(ledger, g.scope, dayStart(g.until), g.until) ELSE 0
        BY <1>2, <3>2 DEF queryResult
      <3>4. g.pc = "daily" /\ (ok \/ lastError'[g.scope] = now)
        BY <1>2, <2>3, <2>4, <3>1 DEF QueryDaily
      <3>5. HandlerOK(queriedDay(g, d))'
        BY <1>1, <1>3, <2>1, <3>3, <3>4, QueriedDayOK
      <3>6. PICK x : x = queriedDay(g, d)
        OBVIOUS
      <3>7. HandlerOK(x)' /\ h' = [h EXCEPT ![q] = x]
        BY <3>1, <3>2, <3>5, <3>6
      <3> QED BY <1>1, <2>1, <3>7, HandlersStep
    <2>5. CASE QueryMonthly(q)
      <3>1. PICK ok \in BOOLEAN :
              /\ h' = [h EXCEPT ![q] = queriedMonth(g, queryResult(q, monthStart(g.until), ok))]
              /\ noteError(q, ok)
        BY <1>1, <1>2, <2>5, BudgetAssumption DEF QueryMonthly, queriedMonth
      <3>2. PICK m : m = queryResult(q, monthStart(g.until), ok)
        OBVIOUS
      <3>3. m = IF ok THEN Spend(ledger, g.scope, monthStart(g.until), g.until) ELSE 0
        BY <1>2, <3>2 DEF queryResult
      <3>4. g.pc = "monthly" /\ (ok \/ lastError'[g.scope] = now)
        BY <1>2, <2>3, <2>5, <3>1 DEF QueryMonthly
      <3>5. HandlerOK(queriedMonth(g, m))'
        BY <1>1, <1>3, <2>1, <3>3, <3>4, QueriedMonthOK
      <3>6. PICK x : x = queriedMonth(g, m)
        OBVIOUS
      <3>7. HandlerOK(x)' /\ h' = [h EXCEPT ![q] = x]
        BY <3>1, <3>2, <3>5, <3>6
      <3> QED BY <1>1, <2>1, <3>7, HandlersStep
    <2> QED BY <1>7, <2>4, <2>5
  <1> QED BY <1>4, <1>5, <1>6, <1>7

\* The two steps that evaluate a rule: on a cached pair, on a queried one.
LEMMA EvaluationStep ==
  ASSUME IInv, Grows, NEW q \in Requests, Hit(q) \/ StoreEntry(q)
  PROVE  HandlersInv' /\ CacheInv'
  <1>1. EnvInv /\ HandlersInv /\ CacheInv /\ h \in [Requests -> Handler]
    BY DEF IInv, HandlersInv
  <1>2. PICK g : g = h[q]
    OBVIOUS
  <1>3. /\ HandlerOK(g) /\ PlaceOK(g) /\ g.pc \in Looking
        /\ UNCHANGED <<now, rules, ledger, lastError>>
    BY <1>1, <1>2 DEF HandlersInv, HandlerOK, Hit, StoreEntry, Looking
  <1>4. g \in Handler /\ g.checkedAt <= now /\ g.scope \in Scopes
    BY <1>3, LookingScope
  <1>5. now \in Nat /\ MaxQuery \in Nat /\ CacheTTL \in Nat \ {0} /\ g.checkedAt \in Nat
        /\ g.daily \in Nat /\ g.monthly \in Nat /\ g.until \in Nat
    BY <1>1, <1>4, BudgetAssumption DEF EnvInv, Handler
  <1>6. ASSUME NEW d \in Nat, NEW m \in Nat, NEW u \in Nat, u <= now, horizon(g) < u,
               NotMore(g.scope, d, dayStart(u), u), NotMore(g.scope, m, monthStart(u), u),
               NotLess(g.scope, d, dayStart(u), u), NotLess(g.scope, m, monthStart(u), u),
               h' = [h EXCEPT ![q] = evaluated(q, d, m)]
        PROVE  HandlersInv'
    <2>1. PICK x : x = judged(g, stricter(g.result, evaluateRule(g.rule, d, m)),
                              IF g.scope[1] = "key" /\ g.tenant # NoTenant THEN "tenant" ELSE "decide")
      OBVIOUS
    <2>2. x = evaluated(q, d, m)
      BY <1>2, <1>4, <2>1 DEF evaluated, judged, Handler
    <2>3. HandlerOK(x)
      BY <1>1, <1>3, <1>6, <2>1, JudgedOK
    <2>4. h' = [h EXCEPT ![q] = x]
      BY <1>6, <2>2
    <2> QED BY <1>1, <1>3, <2>3, <2>4, HandlersAssign
  <1>7. CASE Hit(q)
    <2>1. PICK e : e = cache[g.scope]
      OBVIOUS
    <2>2. e # None /\ now - e.fetched < CacheTTL /\ cache' = cache
      BY <1>2, <1>7, <2>1 DEF Hit, fresh
    <2>3. EntryOK(g.scope, e)
      BY <1>1, <1>4, <2>1, <2>2 DEF CacheInv
    <2>4. e.fetched \in Nat /\ e.fetched <= now /\ e.daily \in Nat /\ e.monthly \in Nat
      BY <2>3 DEF EntryOK, Entry
    <2>5. PICK u \in 0 .. e.fetched :
            /\ e.fetched - MaxQuery <= u
            /\ NotMore(g.scope, e.daily, dayStart(u), u) /\ NotMore(g.scope, e.monthly, monthStart(u), u)
            /\ NotLess(g.scope, e.daily, dayStart(u), u) /\ NotLess(g.scope, e.monthly, monthStart(u), u)
      BY <2>3 DEF EntryOK
    <2>6. u \in Nat /\ u <= now /\ g.checkedAt - CacheTTL - MaxQuery < u
      BY <1>4, <1>5, <2>2, <2>4, <2>5
    <2>7. horizon(g) < u
      BY <2>6 DEF horizon
    <2>8. h' = [h EXCEPT ![q] = evaluated(q, e.daily, e.monthly)]
      BY <1>2, <1>7, <2>1 DEF Hit
    <2>9. HandlersInv'
      BY <1>6, <2>4, <2>5, <2>6, <2>7, <2>8
    <2>10. CacheInv'
      BY <1>1, <2>2, CacheStep DEF CacheInv
    <2> QED BY <2>9, <2>10
  <1>8. CASE StoreEntry(q)
    <2>1. g.pc = "store" /\ h' = [h EXCEPT ![q] = evaluated(q, g.daily, g.monthly)]
      BY <1>2, <1>8 DEF StoreEntry
    <2>2. g.checkedAt <= g.until /\ g.until <= now /\ now - g.until <= MaxQuery
      BY <1>3, <2>1 DEF PlaceOK, Querying
    <2>3. /\ NotMore(g.scope, g.daily, dayStart(g.until), g.until)
          /\ NotLess(g.scope, g.daily, dayStart(g.until), g.until)
          /\ NotMore(g.scope, g.monthly, monthStart(g.until), g.until)
          /\ NotLess(g.scope, g.monthly, monthStart(g.until), g.until)
          /\ lastError[g.scope] = None => g.daily <= g.monthly
      BY <1>3, <2>1 DEF HandlerOK, AmountsOK
    <2>4. horizon(g) < g.until
      BY <1>5, <2>2 DEF horizon
    <2>5. HandlersInv'
      BY <1>5, <1>6, <2>1, <2>2, <2>3, <2>4
    <2>6. PICK e : e = [daily |-> g.daily, monthly |-> g.monthly, fetched |-> now]
      OBVIOUS
    <2>7. e \in Entry /\ e.daily = g.daily /\ e.monthly = g.monthly /\ e.fetched = now
      BY <1>5, <2>6 DEF Entry
    <2>8. EntryOK(g.scope, e)
      <3>1. g.until \in 0 .. e.fetched /\ e.fetched - MaxQuery <= g.until /\ e.fetched <= now
        BY <1>5, <2>2, <2>7
      <3> QED BY <2>3, <2>7, <3>1 DEF EntryOK
    <2>9. cache' = [cache EXCEPT ![g.scope] = e]
      BY <1>2, <1>8, <2>6 DEF StoreEntry
    <2>10. CacheInv'
      <3>1. cache' \in [Scopes -> Entry \cup {None}] /\ cache'[g.scope] = e
            /\ \A s \in Scopes : s # g.scope => cache'[s] = cache[s]
        BY <1>1, <1>4, <2>7, <2>9 DEF CacheInv
      <3>2. ASSUME NEW s \in Scopes, cache'[s] # None PROVE EntryOK(s, cache[s])'
        <4>1. PICK f : f = cache'[s]
          OBVIOUS
        <4>2. EntryOK(s, f)
          BY <1>1, <2>8, <3>1, <3>2, <4>1 DEF CacheInv
        <4>3. EntryOK(s, f)'
          BY <4>2, EntryStable
        <4> QED BY <4>1, <4>3
      <3> QED BY <3>1, <3>2 DEF CacheInv
    <2> QED BY <2>5, <2>10
  <1> QED BY <1>7, <1>8

\* The decision, the response and the record.
LEMMA DecidedStep ==
  ASSUME IInv, EnvInv', Grows, NEW q \in Requests,
         Decide(q) \/ Respond(q) \/ Persist(q) \/ NotRecorded(q)
  PROVE  HandlersInv'
  <1>1. EnvInv /\ HandlersInv /\ h \in [Requests -> Handler] /\ UNCHANGED <<now, rules>>
    BY DEF IInv, HandlersInv, Decide, Respond, Persist, NotRecorded
  <1>2. PICK g : g = h[q]
    OBVIOUS
  <1>3. HandlerOK(g) /\ PlaceOK(g) /\ g \in Handler /\ now \in Nat
    BY <1>1, <1>2 DEF HandlersInv, HandlerOK, PlaceOK, Grows
  <1>4. ASSUME NEW x \in Handler, x.pc \notin Checking \cup {"new"},
               x.pc \in {"upstream", "enqueued"} => x.start <= now,
               h' = [h EXCEPT ![q] = x]
        PROVE  HandlersInv'
    <2>1. HandlerOK(x)
      BY <1>4, HandlerAway
    <2>2. HandlerOK(x)'
      <3>1. x.kept => rules' = rules
        BY <1>1
      <3>2. x.pc \notin Querying
        BY <1>4 DEF Checking, Querying
      <3> QED BY <1>1, <2>1, <3>1, <3>2, HandlerStable
    <2> QED BY <1>1, <1>4, <2>2, HandlersStep
  <1>5. ASSUME NEW label \in {"blocked", "preflight", "done"}, Finish(q, label) PROVE HandlersInv'
    <2>1. PICK x : x = [NewHandler EXCEPT !.pc = label]
      OBVIOUS
    <2>2. label \in PCs
      BY DEF PCs
    <2>3. x \in Handler /\ x.pc = label
      BY <2>1, <2>2, NewHandlerType
    <2>4. h' = [h EXCEPT ![q] = x]
      BY <1>5, <2>1 DEF Finish
    <2>5. x.pc \notin Checking \cup {"new"} /\ x.pc \notin {"upstream", "enqueued"}
      BY <2>3 DEF Checking
    <2> QED BY <1>4, <2>3, <2>4, <2>5
  <1>6. CASE Decide(q)
    <2>1. CASE Finish(q, "blocked") \/ Finish(q, "preflight")
      BY <1>5, <2>1
    <2>2. CASE h' = [h EXCEPT ![q] = [NewHandler EXCEPT !.pc = "upstream", !.start = now,
                                         !.key = h[q].key, !.tenant = h[q].tenant]]
      <3>1. PICK x : x = [NewHandler EXCEPT !.pc = "upstream", !.start = now,
                                            !.key = g.key, !.tenant = g.tenant]
        OBVIOUS
      <3>2. "upstream" \in PCs /\ NewHandler \in Handler
        BY NewHandlerType DEF PCs
      <3>3. g.key \in Keys \cup {NoKey} /\ g.tenant \in Tenants \cup {NoTenant}
        BY <1>3 DEF Handler
      <3>4. x \in Handler /\ x.pc = "upstream" /\ x.start = now
        BY <1>3, <3>1, <3>2, <3>3 DEF Handler
      <3>5. h' = [h EXCEPT ![q] = x] /\ x.pc \notin Checking \cup {"new"} /\ x.start <= now
        BY <1>2, <1>3, <2>2, <3>1, <3>4 DEF Checking
      <3> QED BY <1>4, <3>4, <3>5
    <2> QED BY <1>6, <2>1, <2>2 DEF Decide
  <1>7. CASE Respond(q)
    <2>1. PICK c \in Costs : h' = [h EXCEPT ![q] = [g EXCEPT !.cost = c, !.pc = "enqueued"]]
      BY <1>1, <1>2, <1>7 DEF Respond
    <2>2. PICK x : x = [g EXCEPT !.cost = c, !.pc = "enqueued"]
      OBVIOUS
    <2>3. "enqueued" \in PCs /\ c \in Nat
      BY BudgetAssumption DEF PCs
    <2>4. x \in Handler /\ x.pc = "enqueued" /\ x.start = g.start
      BY <1>3, <2>2, <2>3 DEF Handler
    <2>5. g.start <= now
      BY <1>2, <1>3, <1>7 DEF Respond, PlaceOK
    <2>6. h' = [h EXCEPT ![q] = x] /\ x.pc \notin Checking \cup {"new"} /\ x.start <= now
      BY <2>1, <2>2, <2>4, <2>5 DEF Checking
    <2> QED BY <1>4, <2>4, <2>6
  <1>8. CASE Persist(q) \/ NotRecorded(q)
    BY <1>5, <1>8 DEF Persist, NotRecorded
  <1> QED BY <1>6, <1>7, <1>8

LEMMA UnkeptType ==
  ASSUME NEW g \in Handler
  PROVE  LET x == unkept(g)
         IN  /\ x \in Handler /\ x.key = g.key /\ x.tenant = g.tenant /\ x.checkedAt = g.checkedAt
             /\ ~x.kept /\ x.rule = g.rule /\ x.scope = g.scope /\ x.result = g.result /\ x.pc = g.pc
             /\ x.until = g.until /\ x.daily = g.daily /\ x.monthly = g.monthly /\ x.start = g.start
  BY DEF Handler, unkept

\* New rules void the claims that depend on them, and no others.
LEMMA UnkeptOK ==
  ASSUME NEW g, HandlerOK(g)
  PROVE  HandlerOK(unkept(g))
  <1> DEFINE x == unkept(g)
  <1>1. PlaceOK(g) /\ AmountsOK(g) /\ OutcomeOK(g) /\ g \in Handler
    BY DEF HandlerOK, PlaceOK
  <1>2. /\ x \in Handler /\ x.key = g.key /\ x.tenant = g.tenant /\ x.checkedAt = g.checkedAt
        /\ ~x.kept /\ x.rule = g.rule /\ x.scope = g.scope /\ x.result = g.result /\ x.pc = g.pc
        /\ x.until = g.until /\ x.daily = g.daily /\ x.monthly = g.monthly /\ x.start = g.start
    BY <1>1, UnkeptType
  <1> HIDE DEF x
  <1>3. own(x) = own(g) /\ (Backed(x) <=> Backed(g))
    BY <1>2, SameClaims
  <1>4. PlaceOK(x)
    BY <1>1, <1>2, <1>3 DEF PlaceOK
  <1>5. AmountsOK(x)
    BY <1>1, <1>2 DEF AmountsOK
  <1>6. OutcomeOK(x)
    BY <1>1, <1>2, <1>3 DEF OutcomeOK
  <1>7. HandlerOK(x)
    BY <1>4, <1>5, <1>6 DEF HandlerOK
  <1> QED BY <1>7 DEF x

\* The steps that are not a handler's.
LEMMA ManagerStep ==
  ASSUME IInv, EnvInv', Grows, UpdateRules \/ ClearCache \/ EvictScan \/ EvictDelete \/ Tick
  PROVE  HandlersInv' /\ CacheInv'
  <1>1. EnvInv /\ HandlersInv /\ CacheInv /\ h \in [Requests -> Handler]
    BY DEF IInv, HandlersInv
  <1>2. CacheInv'
    <2>1. cache \in [Scopes -> Entry \cup {None}]
      BY <1>1 DEF CacheInv
    <2>2. /\ cache' \in [Scopes -> Entry \cup {None}]
          /\ \A s \in Scopes : cache'[s] = cache[s] \/ cache'[s] = None
      BY <2>1 DEF UpdateRules, ClearCache, EvictScan, EvictDelete, Tick
    <2> QED BY <1>1, <2>2, CacheStep
  <1>3. CASE UpdateRules
    <2>1. h' = [q \in Requests |-> unkept(h[q])] /\ now' = now
      BY <1>3 DEF UpdateRules, unkept
    <2>2. ASSUME NEW q \in Requests PROVE HandlerOK(h[q])' /\ h'[q] \in Handler
      <3>1. PICK g : g = h[q]
        OBVIOUS
      <3>2. HandlerOK(g) /\ g \in Handler
        BY <1>1, <3>1 DEF HandlersInv
      <3>3. PICK x : x = unkept(g)
        OBVIOUS
      <3>4. HandlerOK(x) /\ ~x.kept /\ x \in Handler
        BY <3>2, <3>3, UnkeptOK, UnkeptType
      <3>5. x.pc \in Querying => now' - x.until <= MaxQuery
        BY <2>1, <3>4 DEF HandlerOK, PlaceOK
      <3>6. HandlerOK(x)'
        BY <1>1, <3>4, <3>5, HandlerStable
      <3>7. h'[q] = x
        BY <2>1, <3>1, <3>3
      <3> QED BY <3>4, <3>6, <3>7
    <2>3. h' \in [Requests -> Handler]
      BY <2>1, <2>2
    <2> QED BY <1>2, <2>2, <2>3 DEF HandlersInv, Handler
  <1>4. CASE ClearCache \/ EvictScan \/ EvictDelete \/ Tick
    <2>1. h' = h /\ rules' = rules
      BY <1>4 DEF ClearCache, EvictScan, EvictDelete, Tick
    <2>2. ASSUME NEW q \in Requests PROVE HandlerOK(h[q])'
      <3>1. PICK g : g = h[q]
        OBVIOUS
      <3>2. HandlerOK(g) /\ h'[q] = g /\ g.until \in Nat
        BY <1>1, <2>1, <3>1 DEF HandlersInv, Handler
      <3>3. g.pc \in Querying => now' - g.until <= MaxQuery
        <4>1. CASE Tick
          <5>1. g.pc \in Querying => now - g.until < MaxQuery
            BY <3>1, <4>1 DEF Tick, Querying
          <5>2. now' = now + 1 /\ now \in Nat /\ MaxQuery \in Nat
            BY <4>1, BudgetAssumption DEF Tick, Grows
          <5> QED BY <3>2, <5>1, <5>2
        <4>2. CASE ~Tick
          BY <1>4, <3>2, <4>2 DEF ClearCache, EvictScan, EvictDelete, HandlerOK, PlaceOK
        <4> QED BY <4>1, <4>2
      <3>4. HandlerOK(g)'
        BY <1>1, <2>1, <3>2, <3>3, HandlerStable
      <3> QED BY <3>2, <3>4
    <2> QED BY <1>1, <1>2, <2>1, <2>2 DEF HandlersInv, Handler
  <1> QED BY <1>3, <1>4

LEMMA IInvStep == IInv /\ [Next]_vars => IInv'
  <1> SUFFICES ASSUME IInv, [Next]_vars PROVE IInv'
    OBVIOUS
  <1>1. EnvInv' /\ Grows /\ EnvInv /\ CacheInv /\ HandlersInv
    BY EnvStep DEF IInv
  <1>2. cache' = cache => CacheInv'
    BY <1>1, CacheStep DEF CacheInv
  <1>3. CASE UNCHANGED vars
    <2>1. UNCHANGED <<now, rules, h>> /\ cache' = cache
      BY <1>3 DEF vars
    <2>2. ASSUME NEW q \in Requests PROVE HandlerOK(h[q])'
      <3>1. PICK g : g = h[q]
        OBVIOUS
      <3>2. HandlerOK(g) /\ h'[q] = g
        BY <1>1, <2>1, <3>1 DEF HandlersInv
      <3>3. g.pc \in Querying => now' - g.until <= MaxQuery
        BY <2>1, <3>2 DEF HandlerOK, PlaceOK
      <3>4. HandlerOK(g)'
        BY <1>1, <2>1, <3>2, <3>3, HandlerStable
      <3> QED BY <3>2, <3>4
    <2> QED BY <1>1, <1>2, <2>1, <2>2 DEF IInv, HandlersInv, Handler
  <1>4. CASE UpdateRules \/ ClearCache \/ EvictScan \/ EvictDelete \/ Tick
    BY <1>1, <1>4, ManagerStep DEF IInv
  <1>5. ASSUME NEW q \in Requests, Handle(q) PROVE IInv'
    <2>1. CASE Hit(q) \/ StoreEntry(q)
      BY <1>1, <2>1, EvaluationStep DEF IInv
    <2>2. CASE Arrive(q) \/ MatchTenant(q) \/ Miss(q) \/ QueryDaily(q) \/ QueryMonthly(q)
      <3>1. cache' = cache
        BY <2>2 DEF Arrive, MatchTenant, Miss, QueryDaily, QueryMonthly
      <3>2. HandlersInv'
        BY <1>1, <2>2, CheckStep
      <3> QED BY <1>1, <1>2, <3>1, <3>2 DEF IInv
    <2>3. CASE Decide(q) \/ Respond(q) \/ Persist(q) \/ NotRecorded(q)
      <3>1. cache' = cache
        BY <2>3 DEF Decide, Respond, Persist, NotRecorded
      <3>2. HandlersInv'
        BY <1>1, <2>3, DecidedStep
      <3> QED BY <1>1, <1>2, <3>1, <3>2 DEF IInv
    <2> QED BY <1>5, <2>1, <2>2, <2>3 DEF Handle
  <1> QED BY <1>3, <1>4, <1>5 DEF Next

-----------------------------------------------------------------------------
(* The theorems.                                                           *)

\* The invariant holds throughout: each cached or queried amount lies between
\* what was settled before its query and what the ledger holds, and each
\* result rests on such an amount.
THEOREM BudgetInvariant == Spec => []IInv
  BY InitIInv, IInvStep, PTL DEF Spec

LEMMA TypesHold == IInv => MonthCoversDay
  <1> SUFFICES ASSUME IInv PROVE MonthCoversDay
    OBVIOUS
  <1>1. EnvInv /\ CacheInv /\ HandlersInv
    BY DEF IInv
  <1>2. now \in 0 .. MaxTime /\ now \in Nat
    BY <1>1, BudgetAssumption DEF EnvInv
  <1>3. ASSUME NEW s \in Scopes, cache[s] # None
        PROVE  /\ cache[s].daily \in Nat /\ cache[s].monthly \in Nat /\ cache[s].fetched \in 0 .. now
               /\ lastError[s] = None => cache[s].monthly >= cache[s].daily
    <2>1. EntryOK(s, cache[s])
      BY <1>1, <1>3 DEF CacheInv
    <2>2. cache[s].daily \in Nat /\ cache[s].monthly \in Nat /\ cache[s].fetched \in Nat
      BY <2>1 DEF EntryOK, Entry
    <2> QED BY <1>2, <2>1, <2>2 DEF EntryOK
  <1>4. \A rec \in ledger : rec.ts <= rec.at /\ rec.at <= now
    BY <1>1 DEF EnvInv
  <1>5. ASSUME NEW q \in Requests
        PROVE  /\ h[q].pc \in PCs /\ h[q].result \in Results
               /\ h[q].pc \in {"lookup", "daily", "monthly", "store"} => h[q].scope \in Scopes
    <2>1. PlaceOK(h[q]) /\ h[q] \in Handler
      BY <1>1 DEF HandlersInv, HandlerOK
    <2>2. h[q].pc \in {"lookup", "daily", "monthly", "store"} => h[q].scope \in Scopes
      BY <2>1, LookingScope DEF Looking
    <2> QED BY <2>1, <2>2 DEF Handler
  <1>6. \A s \in Scopes : lastError[s] # None => lastError[s] \in 0 .. now
    BY <1>1, <1>2 DEF EnvInv
  <1>7. rules \in RuleSets /\ clearing \in BOOLEAN /\ doomed \subseteq Scopes
    BY <1>1 DEF EnvInv
  <1>8. TypeOK
    BY <1>2, <1>3, <1>4, <1>5, <1>6, <1>7 DEF TypeOK
  <1> QED BY <1>3, <1>8 DEF MonthCoversDay

\* The cached pair is consistent although getSpend fetches it with two
\* queries, between which workers insert records and other requests store
\* their own pairs: while no query of the scope has failed, the month's
\* amount covers the day's.  (With it: every variable has its type.)
THEOREM BudgetMonthCoversDay == Spec => []MonthCoversDay
  BY BudgetInvariant, TypesHold, PTL

\* Only ServeHTTP's decision forwards or blocks a request, by its result.
LEMMA OnlyDecide ==
  ASSUME IInv, Next, NEW q \in Requests, h[q].pc = "decide", h'[q].pc \in {"upstream", "blocked"}
  PROVE  h'[q].pc = "blocked" <=> h[q].result.decision = Block
  <1>1. h \in [Requests -> Handler]
    BY DEF IInv, HandlersInv
  <1>2. NewHandler \in Handler
    BY NewHandlerType
  <1>3. ASSUME NEW x, h' = [h EXCEPT ![q] = x] PROVE h'[q] = x
    BY <1>1, <1>3
  <1>4. CASE Decide(q)
    <2>1. Finish(q, "blocked") => h'[q].pc = "blocked"
      BY <1>1, <1>2 DEF Finish, Handler
    <2>2. Finish(q, "preflight") => h'[q].pc = "preflight"
      BY <1>1, <1>2 DEF Finish, Handler
    <2>3. h' = [h EXCEPT ![q] = [NewHandler EXCEPT !.pc = "upstream", !.start = now,
                                    !.key = h[q].key, !.tenant = h[q].tenant]]
            => h'[q].pc = "upstream"
      BY <1>1, <1>2 DEF Handler
    <2> QED BY <1>4, <2>1, <2>2, <2>3 DEF Decide
  <1>5. CASE UpdateRules
    <2>1. h'[q].pc = h[q].pc
      BY <1>1, <1>5 DEF UpdateRules, Handler
    <2> QED BY <2>1
  <1>6. CASE ClearCache \/ EvictScan \/ EvictDelete \/ Tick
    BY <1>6 DEF ClearCache, EvictScan, EvictDelete, Tick
  <1>7. ASSUME NEW p \in Requests, Handle(p), ~Decide(q) PROVE h'[q].pc = "blocked" <=> h[q].result.decision = Block
    <2>1. CASE p = q
      BY <1>7, <2>1 DEF Handle, Arrive, MatchTenant, Hit, Miss, QueryDaily, QueryMonthly, StoreEntry,
           Respond, Persist, NotRecorded
    <2>2. CASE p # q
      <3>1. h'[q] = h[q]
        BY <1>1, <1>7, <2>2 DEF Handle, Arrive, MatchTenant, Hit, Miss, QueryDaily, QueryMonthly,
             StoreEntry, Decide, Respond, Persist, NotRecorded, Finish
      <3> QED BY <3>1
    <2> QED BY <2>1, <2>2
  <1> QED BY <1>4, <1>5, <1>6, <1>7 DEF Next

LEMMA DecisionStep == IInv /\ [Next]_vars => [OverspendBounded /\ BlockOnMoneySpent]_vars
  <1> SUFFICES ASSUME IInv, Next PROVE OverspendBounded /\ BlockOnMoneySpent
    OBVIOUS
  <1>1. ASSUME NEW q \in Requests, h[q].pc = "decide"
        PROVE  /\ own(h[q]) = scopesOf(q) /\ horizon(h[q]) = oldest(q)
               /\ h[q].result.decision = Block => Backed(h[q])
               /\ h[q].result.decision # Block /\ h[q].kept => \A s \in scopesOf(q) : Clean(h[q], s)
    <2>1. own(h[q]) = scopesOf(q) /\ horizon(h[q]) = oldest(q)
      BY DEF own, scopesOf, horizon, oldest
    <2>2. OutcomeOK(h[q])
      BY DEF IInv, HandlersInv, HandlerOK
    <2>3. evaluatedScopes(h[q]) = own(h[q]) /\ h[q].pc \in Checking
      BY <1>1 DEF evaluatedScopes, Checking
    <2> QED BY <2>1, <2>2, <2>3 DEF OutcomeOK
  <1>2. ASSUME NEW q \in Requests, forwarded(q), h[q].kept, NEW s \in scopesOf(q)
        PROVE  \/ lastError[s] # None /\ lastError[s] > oldest(q)
               \/ verdict(s, {rec \in ledger : rec.at <= oldest(q)}) # Block
    <2>1. h[q].pc = "decide" /\ h[q].result.decision # Block
      BY <1>2, OnlyDecide DEF forwarded
    <2>2. Clean(h[q], s) /\ horizon(h[q]) = oldest(q)
      BY <1>1, <1>2, <2>1
    <2> QED BY <2>2 DEF Clean
  <1>3. ASSUME NEW q \in Requests, blocked(q)
        PROVE  \E s \in scopesOf(q), t \in oldest(q) .. now :
                  /\ t >= 0
                  /\ \/ h[q].result.dailyLimit > 0 /\ spentInDay(s, t) >= h[q].result.dailyLimit
                     \/ h[q].result.monthlyLimit > 0 /\ spentInMonth(s, t) >= h[q].result.monthlyLimit
    <2>1. h[q].pc = "decide" /\ h[q].result.decision = Block
      BY <1>3, OnlyDecide DEF blocked
    <2>2. Backed(h[q]) /\ own(h[q]) = scopesOf(q) /\ horizon(h[q]) = oldest(q)
      BY <1>1, <2>1
    <2> QED BY <2>2 DEF Backed
  <1> QED BY <1>2, <1>3 DEF OverspendBounded, BlockOnMoneySpent

\* A key or tenant whose recorded spend has reached a blocking limit is let
\* through only for the cache's TTL and the duration of a query longer,
\* whatever the number of concurrent checks, the order in which their results
\* reach the cache, and the sweeps and rule updates before the check.
THEOREM BudgetOverspendWindow == Spec => OverspendWindow
  <1>1. IInv /\ [Next]_vars => [OverspendBounded]_vars
    BY DecisionStep
  <1> QED BY <1>1, BudgetInvariant, PTL DEF Spec, OverspendWindow

\* No request is blocked on money that was not spent: behind every 429 of the
\* budget check there is a scope of the request whose records exhaust the
\* limit in the period of the decision or of the queries it relies on.
THEOREM BudgetBlockJustified == Spec => BlockJustified
  <1>1. IInv /\ [Next]_vars => [BlockOnMoneySpent]_vars
    BY DecisionStep
  <1> QED BY <1>1, BudgetInvariant, PTL DEF Spec, BlockJustified
=============================================================================
