----------------------------- MODULE RuleMatch ------------------------------
(***************************************************************************)
(* First match over an ordered list, as the MCP pricer looks up a rule and *)
(* the registry a provider.                                                *)
(***************************************************************************)
EXTENDS Integers, Sequences, SequencesExt

\* The first of the rules that matches, or none.
first(rules, matches(_), none) ==
    LET i == SelectInSeq(rules, matches)
    IN  IF i = 0 THEN none ELSE rules[i]
=============================================================================
