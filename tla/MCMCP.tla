------------------------------- MODULE MCMCP --------------------------------
(* A small instance of MCP metering, in both of its modes.                 *)
EXTENDS MCP

CONSTANTS q1, q2, t1, t2, files, unknown, any

rule(s, t, n) == [server |-> s, tool |-> t, cost |-> n]
ToolSet   == {t1, t2}
ServerSet == {unknown, files}
\* An exact price and a wildcard for the server.
Prices    == <<rule(files, any, 1), rule(files, t1, 2)>>
=============================================================================
