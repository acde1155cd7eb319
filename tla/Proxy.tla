------------------------------- MODULE Proxy --------------------------------
(***************************************************************************)
(* The life of a request in internal/proxy/proxy.go, and the life of the   *)
(* server in cmd/agentledger/serve.go.                                     *)
(*                                                                         *)
(* A handler passes its request through the gates (blocklist, session      *)
(* tracker, rate limiter, budget), forwards it, meters the response and    *)
(* adds its cost to the session.  What a gate decides is left open here:   *)
(* AgentTracker, RateLimiter and Budget model it, CircuitBreaker models    *)
(* the transport and StreamInterceptor the body of a streaming response.   *)
(* The usage recorder appears as UsageLog, which Recorder implements.      *)
(* Handlers run concurrently with each other and with the shutdown, and    *)
(* meet at the tracker's mutex, which is held while an alert is sent: the  *)
(* notifier is called under it, and its HTTP client has no timeout.  When  *)
(* the tracker removes a session - ended or timed out and flushed, or      *)
(* evicted - is left open too: it may happen before a slow response has    *)
(* been metered, and then the cost is silently discarded.                  *)
(***************************************************************************)
EXTENDS Integers, Sequences, FiniteSets

CONSTANTS
    Requests,       \* requests, one handler each
    Sessions,       \* sessions a request may name
    Gates,          \* the gates that are configured
    None

ASSUME ProxyAssumption == Gates \subseteq {"blocklist", "track", "limit", "budget"}

VARIABLES
    h,              \* h[q]: the handler of request q
    fate, closing, closed,      \* the usage recorder (see UsageLog)
    mu,             \* who holds Tracker.mu to send an alert: None, a request, or
                    \* the tracker's background loop
    known,          \* sessions in the tracker's map
    ghosts,         \* those of them reported as ghosts
    opened,         \* history: requests that TrackCall counted in their session
    gone,           \* history: those whose session was removed before their cost came
    costed,         \* history: requests whose cost was added to their session
    flushed,        \* history: costed when Tracker.Close flushed
    server,         \* where runServe stands
    graceful,       \* srv.Shutdown returned nil
    made            \* deferred calls of runServe that have returned

log    == <<fate, closing, closed>>
serve  == <<server, graceful, made, flushed>>
sessions == <<known, opened, gone>>
tracker == <<mu, ghosts, sessions>>
vars   == <<h, log, tracker, costed, serve>>

Log == INSTANCE UsageLog WITH Records <- Requests

\* Faulty: the store is closed before its writers.
DeferredStoreFirst == <<"limiter", "tracker", "metrics", "budget", "store", "recorder">>

\* The deferred calls of runServe, in the order they are made.
Deferred == <<"limiter", "tracker", "metrics", "budget", "recorder", "store">>

NewHandler == [pc |-> "new", session |-> None, refused |-> FALSE,
               forwarded |-> FALSE, stream |-> FALSE, parsed |-> FALSE]

Init ==
    /\ h = [q \in Requests |-> NewHandler]
    /\ Log!Init
    /\ mu = None
    /\ ghosts = {}
    /\ known = {}
    /\ opened = {}
    /\ gone = {}
    /\ costed = {}
    /\ flushed = {}
    /\ server = "up"
    /\ graceful = FALSE
    /\ made = 0

\* The handler of q is at pc; after the process has ended it is nowhere.
at(q, pc) == h[q].pc = pc /\ server # "exited"
active(q) == h[q].pc \notin {"new", "done"}

Go(q, pc) == h' = [h EXCEPT ![q].pc = pc]
Refuse(q) == h' = [h EXCEPT ![q].pc = "done", ![q].refused = TRUE]

-----------------------------------------------------------------------------
(* ServeHTTP.                                                              *)

\* A request is answered at once (health check 200, no provider 502, body too
\* large 413, unreadable 400) or goes to the gates.
Arrive(q) ==
    /\ at(q, "new") /\ server \in {"up", "failing"}
    /\ \/ Refuse(q)
       \/ \E s \in Sessions \cup {None} :
             h' = [h EXCEPT ![q].pc = "blocklist", ![q].session = s]
    /\ UNCHANGED <<log, tracker, costed, serve>>

after(gate) == CASE gate = "blocklist" -> "track"
                 [] gate = "track"     -> "limit"
                 [] gate = "limit"     -> "budget"
                 [] gate = "budget"    -> "upstream"

\* The blocklist (403), the rate limiter (429) or the budget (429), which may
\* refuse if it is configured.
Gate(q, gate) ==
    /\ at(q, gate)
    /\ \/ Go(q, after(gate))
       \/ gate \in Gates /\ Refuse(q)
    /\ UNCHANGED <<log, tracker, costed, serve>>

tracked(q) == "track" \in Gates /\ h[q].session # None

\* TrackCall finds the session of q, or enters it.
TrackCall(q) ==
    /\ known' = known \cup {h[q].session}
    /\ opened' = opened \cup {q}
    /\ UNCHANGED gone

\* The tracker sees only requests that name a session.  EndSession, which adds
\* nothing, and TrackCall take the mutex; a loop alert goes out before it is
\* released.
Track(q) ==
    /\ at(q, "track")
    /\ tracked(q) => mu = None
    /\ \/ Go(q, after("track")) /\ UNCHANGED <<mu, sessions>>
       \/ tracked(q) /\ TrackCall(q) /\ Go(q, after("track")) /\ UNCHANGED mu
       \/ tracked(q) /\ TrackCall(q) /\ Go(q, "alerting") /\ mu' = q
    /\ UNCHANGED <<log, ghosts, costed, serve>>

\* A flush removes a session that is over, or TrackCall evicts one (see
\* AgentTracker), whatever its requests are doing.
Forget(s) ==
    /\ s \in known /\ mu = None /\ server # "exited"
    /\ known' = known \ {s}
    /\ ghosts' = ghosts \ {s}
    /\ gone' = gone \cup {q \in opened : h[q].session = s /\ active(q)}
    /\ UNCHANGED <<h, log, mu, opened, costed, serve>>

\* Faulty: a request that is turned away keeps the mutex.
AlertKeepsMutex(q) ==
    /\ at(q, "alerting")
    /\ \/ Go(q, after("track")) /\ mu' = None
       \/ Refuse(q) /\ UNCHANGED mu
    /\ UNCHANGED <<log, ghosts, sessions, costed, serve>>

\* The destinations have answered: TrackCall returns the alert, and the
\* request is turned away (429) if loops are blocked.
AlertReturns(q) ==
    /\ at(q, "alerting")
    /\ mu' = None
    /\ Go(q, after("track")) \/ Refuse(q)
    /\ UNCHANGED <<log, ghosts, sessions, costed, serve>>

\* detectGhosts of the background loop sends its alerts under the mutex too,
\* one after the other for the sessions in the map that are ghosts now.
GhostAlert ==
    /\ server # "exited"
    /\ mu = None
    /\ \E found \in SUBSET (known \ ghosts) :
         found # {} /\ ghosts' = ghosts \cup found
    /\ mu' = "background"
    /\ UNCHANGED <<h, log, sessions, costed, serve>>

\* The last of them has been answered.
GhostAlertReturns ==
    /\ mu = "background" /\ server # "exited"
    /\ mu' = None
    /\ UNCHANGED <<h, log, ghosts, sessions, costed, serve>>

\* Forwarding: a transport error, or the open circuit, which is one to the
\* reverse proxy; errorHandler answers both alike, 502 ...
UpstreamError(q) ==
    /\ at(q, "upstream")
    /\ h' = [h EXCEPT ![q].pc = "done", ![q].forwarded = TRUE]
    /\ UNCHANGED <<log, tracker, costed, serve>>

\* ... or a response, streaming or not.
UpstreamResponse(q) ==
    /\ at(q, "upstream")
    /\ \E stream \in BOOLEAN :
          h' = [h EXCEPT ![q].pc = "modify", ![q].forwarded = TRUE, ![q].stream = stream]
    /\ UNCHANGED <<log, tracker, costed, serve>>

-----------------------------------------------------------------------------
(* modifyResponse and, for a stream, finalize.                             *)

\* A stream is wrapped; it is copied to the client and then finalized.
Wrap(q) ==
    /\ at(q, "modify") /\ h[q].stream
    /\ Go(q, "stream")
    /\ UNCHANGED <<log, tracker, costed, serve>>

StreamEnds(q) ==
    /\ at(q, "stream")
    /\ Go(q, "record")
    /\ UNCHANGED <<log, tracker, costed, serve>>

\* A body that cannot be read, one with an error status and one that cannot be
\* parsed are not metered.
ReadBody(q) ==
    /\ at(q, "modify") /\ ~h[q].stream
    /\ \/ Go(q, "done")
       \/ h' = [h EXCEPT ![q].pc = "record", ![q].parsed = TRUE]
    /\ UNCHANGED <<log, tracker, costed, serve>>

\* Record returns, or panics once the recorder is being closed: net/http
\* recovers and drops the connection.
Record(q) ==
    /\ at(q, "record")
    /\ Log!Answer(q)
    /\ Go(q, IF closing THEN "done" ELSE "cost")
    /\ UNCHANGED <<tracker, costed, serve>>

\* Faulty: only non-streaming responses reach the session.
RecordCostUnstreamed(q) ==
    /\ at(q, "cost")
    /\ h[q].session # None => mu = None
    /\ costed' = IF h[q].session \in known /\ ~h[q].stream THEN costed \cup {q} ELSE costed
    /\ Go(q, "done")
    /\ UNCHANGED <<log, tracker, serve>>

\* Tracker.RecordCost, when the request names a session, takes the mutex and
\* adds the cost if the session is in the map; if not, it returns without a
\* word.  Then the reply.
RecordCost(q) ==
    /\ at(q, "cost")
    /\ h[q].session # None => mu = None
    /\ costed' = IF h[q].session \in known THEN costed \cup {q} ELSE costed
    /\ Go(q, "done")
    /\ UNCHANGED <<log, tracker, serve>>

\* A recorder worker writes an accepted record.
Settle(q) == Log!Settle(q) /\ UNCHANGED <<h, tracker, costed, serve>>

-----------------------------------------------------------------------------
(* runServe.                                                               *)

\* A signal: srv.Shutdown stops accepting and waits for the handlers.
Signal ==
    /\ server = "up"
    /\ server' = "draining"
    /\ UNCHANGED <<h, log, tracker, costed, graceful, made, flushed>>

\* The listener fails: runServe returns without Shutdown, and open
\* connections may go on to send requests.
ListenError ==
    /\ server = "up"
    /\ server' = "failing"
    /\ UNCHANGED <<h, log, tracker, costed, graceful, made, flushed>>

\* Faulty: the server is closed without waiting for its handlers.
ShutdownAtOnce ==
    /\ server = "draining"
    /\ server' = "closing"
    /\ graceful' = TRUE
    /\ UNCHANGED <<h, log, tracker, costed, made, flushed>>

ShutdownReturns ==
    /\ server = "draining"
    /\ \A q \in Requests : ~active(q)
    /\ server' = "closing"
    /\ graceful' = TRUE
    /\ UNCHANGED <<h, log, tracker, costed, made, flushed>>

\* Faulty: Shutdown is given a context without a deadline.
ShutdownNoTimeout == FALSE /\ UNCHANGED vars

\* The context expires first: runServe returns the error.
ShutdownTimeout ==
    /\ server = "draining"
    /\ \E q \in Requests : active(q)
    /\ server' = "closing"
    /\ UNCHANGED <<h, log, tracker, costed, graceful, made, flushed>>

returning == server \in {"closing", "failing"}
due(what) == returning /\ made < Len(Deferred) /\ Deferred[made + 1] = what
Made == made' = made + 1 /\ UNCHANGED <<server, graceful>>

\* limiter.Close, metricsShutdown, budgetMgr.Close and store.Close.
CloseOther ==
    /\ \E what \in {"limiter", "metrics", "budget", "store"} : due(what)
    /\ Made
    /\ UNCHANGED <<h, log, tracker, costed, flushed>>

\* tracker.Close takes the mutex and flushes the sessions as they are (see
\* AgentTracker).
CloseTracker ==
    /\ due("tracker")
    /\ mu = None
    /\ flushed' = costed
    /\ Made
    /\ UNCHANGED <<h, log, tracker, costed>>

\* rec.Close closes the channel, and returns when it is drained.
CloseRecorder ==
    /\ due("recorder")
    /\ \/ Log!StartClose /\ UNCHANGED <<serve, h, tracker, costed>>
       \/ Log!Close /\ Made /\ UNCHANGED <<h, tracker, costed, flushed>>

\* runServe has returned and main ends, whatever the handlers are doing.
Exit ==
    /\ returning /\ made = Len(Deferred)
    /\ server' = "exited"
    /\ UNCHANGED <<h, log, tracker, costed, graceful, made, flushed>>

Handler(q) ==
    \/ Arrive(q)
    \/ Gate(q, "blocklist") \/ Track(q) \/ AlertReturns(q)
    \/ Gate(q, "limit") \/ Gate(q, "budget")
    \/ UpstreamError(q) \/ UpstreamResponse(q)
    \/ Wrap(q) \/ StreamEnds(q) \/ ReadBody(q) \/ Record(q) \/ RecordCost(q)

Serve == \/ Signal \/ ListenError \/ ShutdownReturns \/ ShutdownTimeout
         \/ CloseOther \/ CloseTracker \/ CloseRecorder \/ Exit

Ghosts == GhostAlert \/ GhostAlertReturns

Next == Serve \/ Ghosts \/ (\E s \in Sessions : Forget(s)) \/ \E q \in Requests : Handler(q) \/ Settle(q)

Spec == Init /\ [][Next]_vars

\* The deadline passes, runServe goes on and the recorder's workers work; who
\* waits for the mutex takes it when it is free (each request and each session
\* raises one alert, so that nobody is overtaken for ever).  No handler is
\* assumed to make progress elsewhere, since a stream may last for ever, and
\* no alert to be answered.
ProxyFairness ==
    /\ WF_vars(ShutdownReturns \/ ShutdownTimeout)
    /\ WF_vars(CloseOther \/ CloseTracker \/ CloseRecorder \/ Exit)
    /\ \A q \in Requests : WF_vars(Settle(q)) /\ WF_vars(Track(q) \/ RecordCost(q))

FairSpec == Spec /\ ProxyFairness

-----------------------------------------------------------------------------
(* Properties.                                                             *)

PCs == {"new", "blocklist", "track", "alerting", "limit", "budget", "upstream", "modify",
        "stream", "record", "cost", "done"}

\* Every variable has its type.
TypeOK ==
    /\ \A q \in Requests : h[q].pc \in PCs /\ h[q].session \in Sessions \cup {None}
    /\ fate \in [Requests -> Log!Fates]
    /\ closing \in BOOLEAN /\ closed \in BOOLEAN /\ graceful \in BOOLEAN
    /\ known \subseteq Sessions /\ ghosts \subseteq known
    /\ gone \subseteq opened /\ opened \subseteq Requests
    /\ mu \in Requests \cup {"background", None}
    /\ costed \subseteq Requests /\ flushed \subseteq costed
    /\ server \in {"up", "draining", "closing", "failing", "exited"}
    /\ made \in 0 .. Len(Deferred)

metered(q) == h[q].stream \/ h[q].parsed

\* Usage records and session costs agree as far as the code makes them: a
\* handler that has replied called Record exactly when the response was
\* metered.  It added its cost to a session only then, if the call did not
\* panic (the recorder was being closed), and only to a session that a request
\* opened by TrackCall.  And if TrackCall counted the request itself, the cost
\* did follow the call into the session - unless the session was removed
\* meanwhile, when RecordCost discards it.  A request that a gate has refused
\* is not forwarded and leaves neither, whatever its handler does.  (Stated of
\* well-typed states.)
MeteredExactly ==
    /\ TypeOK
    /\ \A q \in Requests :
         /\ h[q].pc = "done" =>
               /\ fate[q] # "new" <=> metered(q)
               /\ metered(q) /\ fate[q] # "panicked" /\ q \in opened \ gone => q \in costed
         /\ q \in costed => /\ metered(q) /\ fate[q] \notin {"new", "panicked"}
                            /\ \E p \in opened : h[p].session = h[q].session
         /\ h[q].refused =>
               ~h[q].forwarded /\ fate[q] = "new" /\ q \notin costed

\* A graceful shutdown loses nothing: no call of Record panics, every record
\* that was not dropped is off the recorder's hands before the process ends -
\* written, or its write reported as failed - and no cost is added to a session
\* after the tracker's last flush.
GracefulLosesNothing ==
    graceful =>
       /\ \A q \in Requests : fate[q] # "panicked"
       /\ server = "exited" => /\ \A q \in Requests : fate[q] # "accepted"
                               /\ flushed = costed

\* The store outlives its writers, however the server ends: no worker writes
\* a record once the store has been closed.
StoreOutlivesRecorder ==
    [][\A q \in Requests : fate[q] = "accepted" /\ fate'[q] # "accepted" =>
          \E i \in made + 1 .. Len(Deferred) : Deferred[i] = "store"]_vars

waiting(q) == h[q].pc \in {"track", "cost"}
alerting == mu = "background" \/ \E q \in Requests : h[q].pc = "alerting"

\* The alert destinations answer in the end.  Nothing in the code enforces
\* it: the clients that call them have no timeout.
AlertsReturn == []<>(~alerting)

\* Once asked to stop, the process ends, even if a stream never does - but
\* not if an alert is never answered: tracker.Close waits for the mutex.
ShutdownEnds == AlertsReturn => (server = "draining" ~> server = "exited")

\* The tracker's mutex is always given back: as long as alerts are answered,
\* a request with a session gets past the tracker, and the cost of a metered
\* response to its session and its reply to the client, on every path through
\* the alerts - a loop that is let pass, one that is turned away, a ghost.
TrackerNeverStuck ==
    AlertsReturn => \A q \in Requests : waiting(q) ~> ~waiting(q) \/ server = "exited"
=============================================================================
