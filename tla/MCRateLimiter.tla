--------------------------- MODULE MCRateLimiter ----------------------------
(* Small instances of the rate limiter: two keys that share a fingerprint  *)
(* under different rules, a third key of its own with only an hour limit,  *)
(* and a fourth without limits.                                            *)
EXTENDS RateLimiter

CONSTANTS k1, k2, k3, k4, x1, x2, x3

limits(m, hr) == [perMinute |-> m, perHour |-> hr]
rule(pattern, m, hr) == [pattern |-> pattern, perMinute |-> m, perHour |-> hr]

KeySet  == {k1, k2, k3, k4}
HashSet == {x1, x2, x3}
Shared  == [k \in KeySet |-> IF k = k3 THEN x2 ELSE IF k = k4 THEN x3 ELSE x1]
\* k1: 1 a minute, 3 an hour; k2: 2 and 3; k3: 1 an hour.  The second rule for
\* k1 never applies.
NoDefault   == limits(0, 0)
SharedRules == <<rule({k1}, 1, 3), rule({k1, k2}, 2, 3), rule({k3}, 0, 1)>>
=============================================================================
