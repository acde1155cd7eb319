------------------------------ MODULE MCAdmin -------------------------------
(* Small instances of the admin API: two keys, a pattern for one of them   *)
(* and a pattern for both.                                                 *)
EXTENDS Admin, TLC

CONSTANTS k1, k2, c1, c2, q1, q2

KeySet   == {k1, k2}
OneKey   == {k1}
OnePat   == {{k1}}
TwoPats  == {{k1}, {k1, k2}}
NoRules  == {}
JustRules   == {Budget}
Both        == {Budget, Blocked}
Symmetry    == Permutations({c1, c2}) \cup Permutations({q1, q2})
=============================================================================
