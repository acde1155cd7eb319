-------------------------------- MODULE MCP ---------------------------------
(***************************************************************************)
(* Metering of MCP tool calls in its two forms: a process is either the    *)
(* stdio wrapper (mcp-wrap) or the gateway with its HTTP proxy.  Both use  *)
(* the interceptor, and share nothing: `mode` tells which of the two a     *)
(* behaviour is of, and the state of the other one stays put.              *)
(***************************************************************************)
EXTENDS MCPStdio

CONSTANTS Requests, MaxEvents, Upstream

ASSUME HttpAssumption == MaxEvents \in Nat /\ Upstream \in Servers

VARIABLES mode, h, icpt, served
httpVars == <<h, icpt, served>>

H == INSTANCE MCPHttp WITH records <- served

MCPInit == Init /\ H!Init /\ mode \in {"stdio", "http"}
MCPNext == /\ UNCHANGED mode
           /\ \/ mode = "stdio" /\ Next /\ UNCHANGED httpVars
              \/ mode = "http" /\ H!Next /\ UNCHANGED vars

MCPSpec == MCPInit /\ [][MCPNext]_<<vars, httpVars, mode>>

\* The wrapper's fairness asks for nothing before the client has sent a line
\* or closed its end, hence for nothing in the other mode.
FairMCPSpec == MCPSpec /\ Fairness

\* A request to the HTTP proxy causes one record if and only if its call was
\* answered, for its own tool and with the outcome of the first answer, whatever
\* IDs concurrent requests use.  (Stated of well-typed states.)
OwnAnswerRecorded == H!TypeOK /\ H!OwnAnswerRecorded
=============================================================================
