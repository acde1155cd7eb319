--------------------------- MODULE MCPInterceptor ---------------------------
(***************************************************************************)
(* Metering of MCP tool calls: internal/mcp/interceptor.go, jsonrpc.go and *)
(* pricing.go as operators on the state of one Interceptor, the pending    *)
(* calls by JSON-RPC ID and the server's name.                             *)
(*                                                                         *)
(* A message is a record with a kind: "call" is a tools/call request with  *)
(* an ID and readable parameters, "result", "error" and "init" are         *)
(* responses (the last with a serverInfo name), "other" is everything the  *)
(* interceptor ignores: other requests, notifications, lines that are not  *)
(* JSON-RPC.  The tool of a response is not on the wire; it is carried as  *)
(* history, to be compared with what is recorded.                          *)
(***************************************************************************)
EXTENDS Integers, Sequences, SequencesExt, RuleMatch

CONSTANTS
    Ids,        \* JSON-RPC IDs
    Tools,
    Servers,    \* server names
    Unknown,    \* the name before the server has told its own
    Wildcard,   \* the empty Tool (or Server) of a pricing rule
    PricingRules, \* [server, tool, cost], in order
    None

ASSUME InterceptorAssumption ==
    /\ Unknown \in Servers /\ Wildcard \notin Tools /\ None \notin Tools \cup Ids
    /\ PricingRules \in Seq([server : Servers \cup {Wildcard}, tool : Tools \cup {Wildcard},
                             cost : Nat])

message(kind, id, tool, name) == [kind |-> kind, id |-> id, tool |-> tool, name |-> name]

Interceptors == [serverName : Servers, inflight : [Ids -> Tools \cup {None}]]
NewInterceptor == [serverName |-> Unknown, inflight |-> [x \in Ids |-> None]]

\* CostForCall: the first rule for server and tool, else the last wildcard rule
\* of the server, else nothing.
CostForCall(server, tool) ==
    LET priced(r, t) == r.server = server /\ r.tool = t
        exact == first(PricingRules, LAMBDA r : priced(r, tool), None)
        wild  == first(Reverse(PricingRules), LAMBDA r : priced(r, Wildcard), None)
    IN  IF exact # None THEN exact.cost ELSE IF wild # None THEN wild.cost ELSE 0

\* HandleMessage for a message of the client.
handleClientRequest(i, m) ==
    IF m.kind = "call" THEN [i EXCEPT !.inflight[m.id] = m.tool] ELSE i

isResponse(m)  == m.kind \in {"result", "error", "init"}
isPending(i, m) == isResponse(m) /\ i.inflight[m.id] # None

\* HandleMessage for a message of the server: the interceptor afterwards ...
handleServerResponse(i, m) ==
    IF isPending(i, m) THEN [i EXCEPT !.inflight[m.id] = None]
    ELSE IF m.kind = "init" THEN [i EXCEPT !.serverName = m.name]
    ELSE i

\* ... and what it records: nothing, or the pending call with this ID.
recordOf(i, m) ==
    IF isPending(i, m)
    THEN <<[server |-> i.serverName, tool |-> i.inflight[m.id],
            cost |-> CostForCall(i.serverName, i.inflight[m.id]),
            status |-> IF m.kind = "error" THEN 500 ELSE 200]>>
    ELSE <<>>
=============================================================================
