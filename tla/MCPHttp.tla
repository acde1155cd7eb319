------------------------------- MODULE MCPHttp ------------------------------
(***************************************************************************)
(* The MCP HTTP proxy: internal/mcp/httpproxy.go.  Every request is one    *)
(* JSON-RPC message, forwarded to the upstream server; its answer is one   *)
(* message or a stream of events.  Each request has an interceptor of its  *)
(* own, so JSON-RPC IDs need to be unique only within a request: clients   *)
(* choose them independently.                                              *)
(***************************************************************************)
EXTENDS MCPInterceptor

CONSTANTS
    Requests,   \* HTTP requests, one goroutine each
    MaxEvents,  \* bound on the messages of an event stream
    Upstream    \* the name the upstream server gives itself

VARIABLES
    h,          \* h[q]: [pc, request, body, read], the messages of the response
                \* still to be read and those read
    icpt,       \* the interceptors
    records     \* records[q]: the usage records request q has caused

vars == <<h, icpt, records>>

NewHandler == [pc |-> "new", request |-> None, body |-> <<>>, read |-> <<>>]

Init ==
    /\ h = [q \in Requests |-> NewHandler]
    /\ icpt = [q \in Requests |-> NewInterceptor]
    /\ records = [q \in Requests |-> <<>>]

\* Faulty: one interceptor for all.
interceptorShared(q) == CHOOSE x \in Requests : TRUE

\* "per-request interceptor so concurrent requests don't share inflight state"
interceptorOf(q) == q

goto(q, pc) == h' = [h EXCEPT ![q].pc = pc]

\* Refused: not a POST (405), a path with "..", or an unreadable body (400).
Refuse(q) ==
    /\ h[q].pc = "new"
    /\ goto(q, "done")
    /\ UNCHANGED <<icpt, records>>

clientMessages ==
    {message("call", x, t, None) : x \in Ids, t \in Tools}
    \cup {message("other", x, None, None) : x \in Ids}

Receive(q) ==
    /\ h[q].pc = "new"
    /\ \E m \in clientMessages :
         /\ h' = [h EXCEPT ![q].pc = "forward", ![q].request = m]
         /\ icpt' = [icpt EXCEPT ![interceptorOf(q)] = handleClientRequest(NewInterceptor, m)]
    /\ UNCHANGED records

\* The upstream URL, the request to it or the answer's body fails: 500 or 502.
Fail(q) ==
    /\ h[q].pc \in {"forward", "body"}
    /\ goto(q, "done")
    /\ UNCHANGED <<icpt, records>>

\* What the upstream may send for a message: an answer, possibly repeated, and
\* messages that are none.
upstreamMessages(m) ==
    {message("other", None, None, None)} \cup
    (IF m.kind = "call" THEN {message(r, m.id, m.tool, None) : r \in {"result", "error"}}
     ELSE {message("result", m.id, None, None), message("init", m.id, None, Upstream)})

Respond(q) ==
    /\ h[q].pc = "forward"
    /\ \/ \E m \in upstreamMessages(h[q].request) :
             h' = [h EXCEPT ![q].pc = "body", ![q].body = <<m>>]
       \/ \E n \in 0 .. MaxEvents : \E s \in [1 .. n -> upstreamMessages(h[q].request)] :
             h' = [h EXCEPT ![q].pc = "sse", ![q].body = s]
    /\ UNCHANGED <<icpt, records>>

Handle(q, pc) ==
    /\ LET m == Head(h[q].body)
           i == icpt[interceptorOf(q)]
       IN  /\ icpt' = [icpt EXCEPT ![interceptorOf(q)] = handleServerResponse(i, m)]
           /\ records' = [records EXCEPT ![q] = @ \o recordOf(i, m)]
           /\ h' = [h EXCEPT ![q].pc = pc, ![q].body = Tail(@), ![q].read = Append(@, m)]

\* A complete body: one message.
Body(q) == h[q].pc = "body" /\ Handle(q, "done")

\* handleSSE: the next data line.
Event(q) == h[q].pc = "sse" /\ h[q].body # <<>> /\ Handle(q, "sse")

\* The stream ends, breaks off or holds a line too long for the scanner.
EventsEnd(q) ==
    /\ h[q].pc = "sse"
    /\ goto(q, "done")
    /\ UNCHANGED <<icpt, records>>

\* The handler returns; another request may follow.
Return(q) ==
    /\ h[q].pc = "done"
    /\ h' = [h EXCEPT ![q] = NewHandler]
    /\ records' = [records EXCEPT ![q] = <<>>]
    /\ UNCHANGED icpt

ServeHTTP(q) == \/ Refuse(q) \/ Receive(q) \/ Fail(q) \/ Respond(q)
                \/ Body(q) \/ Event(q) \/ EventsEnd(q) \/ Return(q)

Next == \E q \in Requests : ServeHTTP(q)

Spec == Init /\ [][Next]_vars

-----------------------------------------------------------------------------
(* Properties.                                                             *)

\* Every variable has its type, and a request causes at most one record.
TypeOK ==
    /\ \A q \in Requests : /\ h[q].pc \in {"new", "forward", "body", "sse", "done"}
                           /\ h[q].request \in clientMessages \cup {None}
    /\ icpt \in [Requests -> Interceptors]
    /\ \A q \in Requests : Len(records[q]) <= 1

\* The answers to q's tool call among the messages that have been read.
toolAnswers(q) == {n \in 1 .. Len(h[q].read) : h[q].read[n].tool # None}

\* A request causes one record if and only if its call was answered, for its
\* own tool and with the outcome of the first answer, whatever IDs concurrent
\* requests use.
OwnAnswerRecorded ==
    \A q \in Requests :
       /\ Len(records[q]) = IF toolAnswers(q) = {} THEN 0 ELSE 1
       /\ \A n \in toolAnswers(q) : (\A k \in toolAnswers(q) : n <= k) =>
            /\ records[q][1].tool = h[q].request.tool
            /\ records[q][1].status = IF h[q].read[n].kind = "error" THEN 500 ELSE 200
=============================================================================
