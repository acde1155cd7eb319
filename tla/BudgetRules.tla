---------------------------- MODULE BudgetRules -----------------------------
(***************************************************************************)
(* The decision rules of internal/budget/budget.go and the pre-flight test *)
(* of internal/proxy/proxy.go, as functions of a rule and an amount spent. *)
(*                                                                         *)
(* Amounts are whole cents.  A rule is a record                            *)
(*   pattern  the raw API keys its glob matches ({NoKey} is the glob "")   *)
(*   tenant   its tenant, or NoTenant                                      *)
(*   daily, monthly   limits, 0 for none                                   *)
(*   soft     soft limit in percent, 0 for none                            *)
(*   action   "block", "warn" or "" (take the default rule's)              *)
(***************************************************************************)
EXTENDS Integers, Sequences

CONSTANTS NoKey,        \* a request without API key
          NoTenant,     \* a request or a rule without tenant
          NoRule        \* matchTenantRule's nil

\* Decisions in the order of their strictness (iota).
Allow == 0
Warn  == 1
Block == 2

hasLimit(rule) == rule.daily > 0 \/ rule.monthly > 0

\* Zero fields of a matching rule are filled from the default rule.
mergeWithDefault(r, default) ==
    [pattern |-> r.pattern, tenant |-> r.tenant,
     daily   |-> IF r.daily <= 0 THEN default.daily ELSE r.daily,
     monthly |-> IF r.monthly <= 0 THEN default.monthly ELSE r.monthly,
     soft    |-> IF r.soft <= 0 THEN default.soft ELSE r.soft,
     action  |-> IF r.action = "" THEN default.action ELSE r.action]

\* The first rule whose glob matches the raw key, else the default rule.
firstForKey(rules, key, i) ==
    key \in rules[i].pattern /\ \A j \in 1 .. i - 1 : key \notin rules[j].pattern
matchRule(rules, default, key) ==
    IF \E i \in 1 .. Len(rules) : firstForKey(rules, key, i)
    THEN mergeWithDefault(rules[CHOOSE i \in 1 .. Len(rules) : firstForKey(rules, key, i)], default)
    ELSE default

\* The first rule for the tenant that has no API key glob, else nil.
targets(r, tenant) == r.tenant = tenant /\ r.pattern = {NoKey}
firstForTenant(rules, tenant, i) ==
    targets(rules[i], tenant) /\ \A j \in 1 .. i - 1 : ~targets(rules[j], tenant)
matchTenantRule(rules, default, tenant) ==
    IF \E i \in 1 .. Len(rules) : firstForTenant(rules, tenant, i)
    THEN mergeWithDefault(rules[CHOOSE i \in 1 .. Len(rules) : firstForTenant(rules, tenant, i)], default)
    ELSE NoRule

exceeded(rule, daily, monthly) ==
    \/ rule.daily > 0 /\ daily >= rule.daily
    \/ rule.monthly > 0 /\ monthly >= rule.monthly

nearLimit(rule, daily, monthly) ==
    /\ rule.soft > 0
    /\ \/ rule.daily > 0 /\ 100 * daily >= rule.daily * rule.soft
       \/ rule.monthly > 0 /\ 100 * monthly >= rule.monthly * rule.soft

\* Faulty: a soft limit blocks.
softBlocks(rule, daily, monthly) ==
    IF exceeded(rule, daily, monthly) \/ nearLimit(rule, daily, monthly)
    THEN IF rule.action = "block" THEN Block ELSE Warn
    ELSE Allow

decision(rule, daily, monthly) ==
    IF exceeded(rule, daily, monthly)
    THEN IF rule.action = "block" THEN Block ELSE Warn
    ELSE IF nearLimit(rule, daily, monthly) THEN Warn ELSE Allow

\* The Result a rule gives for the amounts spent today and this month.
evaluateRule(rule, daily, monthly) ==
    [decision     |-> decision(rule, daily, monthly),
     dailySpent   |-> daily,   dailyLimit   |-> rule.daily,
     monthlySpent |-> monthly, monthlyLimit |-> rule.monthly]

\* The tenant's result replaces the key's only when it is stricter.
stricter(result, tenantResult) ==
    IF tenantResult.decision > result.decision THEN tenantResult ELSE result

\* ServeHTTP's pre-flight test; worst = 0 stands for a request without
\* max_tokens or with a model of unknown price.
preflightRejects(result, worst) ==
    /\ worst > 0
    /\ \/ result.dailyLimit > 0 /\ worst > result.dailyLimit - result.dailySpent
       \/ result.monthlyLimit > 0 /\ worst > result.monthlyLimit - result.monthlySpent
=============================================================================
