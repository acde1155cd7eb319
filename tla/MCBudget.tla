------------------------------ MODULE MCBudget ------------------------------
(* A small instance of budget enforcement, explored in two corners that    *)
(* differ in the rules in force.  Limits are one to three cents, so that a *)
(* single recorded request exhausts a limit.                               *)
(*                                                                         *)
(* Under the key's and the tenant's rules: two requests of one key and one *)
(* tenant, one with max_tokens at most, rules that are replaced at any     *)
(* time, failing queries of either scope, midnight.                        *)
(* Under the hard limit: three requests without tenant, cache sweeps, slow *)
(* queries that succeed, so that an old result is stored over a new one.   *)
EXTENDS Budget, TLC

CONSTANTS k1, ta, q1, q2, q3

rule(pattern, tenant, daily, monthly, soft, action) ==
    [pattern |-> pattern, tenant |-> tenant, daily |-> daily, monthly |-> monthly,
     soft |-> soft, action |-> action]

NoDefault == rule({NoKey}, NoTenant, 0, 0, 0, "")

\* Rule lists: a tenant limit, alone and with a monthly limit for k1; a limit
\* of a cent for k1.
MonthlyK1 == rule({k1}, NoTenant, 0, 3, 50, "block")
TenantOne == rule({NoKey}, ta, 1, 2, 0, "block")
HardK1    == rule({k1}, NoTenant, 1, 1, 0, "block")

MCRuleSets == {<<TenantOne>>, <<MonthlyK1, TenantOne>>, <<HardK1>>}

Three      == {q1, q2, q3}
K1         == {k1}
MaybeTenant == {ta, NoTenant}

hard == rules = <<HardK1>>

querying(q) == h[q].pc \in {"daily", "monthly", "store"}
recorded    == {rec.cost : rec \in ledger} \cup {h[q].cost : q \in Requests}

HardCorner ==
    /\ \A q \in Requests : h[q].tenant = NoTenant /\ h[q].worst = 0
    /\ recorded \subseteq {0, 1}
    /\ \A s \in Scopes : lastError[s] = None
    /\ ~clearing

TenantCorner ==
    /\ now <= 2 /\ doomed = {}
    /\ Cardinality({q \in Requests : h[q].pc # "new"}) <= 2
    /\ \A q \in Requests : /\ h[q].pc \in {"new", "blocked", "preflight", "done"} \/ h[q].tenant = ta
                           /\ querying(q) => h[q].until = now
    /\ Cardinality({q \in Requests : h[q].worst > 0}) <= 1
    /\ Cardinality({s \in Scopes : lastError[s] # None}) <= 1
    /\ recorded \subseteq {0, 2}

MCNext == /\ Next
          /\ hard' = hard
          /\ IF hard' THEN HardCorner' ELSE TenantCorner'

MCSpec == Init /\ [][MCNext]_vars

Symmetry == Permutations({q1, q2, q3})
=============================================================================
