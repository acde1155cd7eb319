---------------------------- MODULE ProxyProofs -----------------------------
(***************************************************************************)
(* What the shutdown of the proxy guarantees, for any number of requests   *)
(* and any configuration of the gates: a graceful shutdown loses nothing,  *)
(* and the store is closed after the last record has been written.  Then   *)
(* the proxy's transport, the circuit breaker: the trip time under any     *)
(* concurrency, and the documented behaviour when round trips do not       *)
(* overlap.                                                                *)
(***************************************************************************)
EXTENDS Proxy, CircuitBreaker, FiniteSetTheorems, SequenceTheorems, TLAPS

\* While runServe waits nothing has been closed; afterwards the recorder is
\* closed exactly when its deferred call has returned.
CloseOrder ==
    /\ made \in 0 .. 6
    /\ server \in {"up", "draining"} => made = 0 /\ ~closing
    /\ server = "exited" => made = 6
    /\ closed <=> made >= 5
    /\ closed => closing

\* A record panics only when the recorder is being closed, and a closed
\* recorder owes no record its verdict.
LogState ==
    /\ fate \in [Requests -> Log!Fates]
    /\ \A q \in Requests : fate[q] = "panicked" => closing
    /\ closed => \A q \in Requests : fate[q] # "accepted"

\* After a graceful shutdown no handler is active and none can start, so
\* nothing panics and the session costs stay as the tracker flushed them.
Quiet ==
    graceful => /\ server \in {"closing", "exited"}
                /\ \A q \in Requests : ~active(q)
                /\ \A q \in Requests : fate[q] # "panicked"
                /\ made >= 2 => flushed = costed

IInv == CloseOrder /\ LogState /\ Quiet

\* The deferred calls, by their position.
LEMMA DeferredOrder ==
  /\ Len(Deferred) = 6
  /\ Deferred[2] = "tracker" /\ Deferred[5] = "recorder" /\ Deferred[6] = "store"
  /\ \A i \in 1 .. 6 : /\ Deferred[i] = "tracker" => i = 2
                       /\ Deferred[i] = "recorder" => i = 5
  BY DEF Deferred

LEMMA InitIInv == Init => IInv
  BY DEF Init, Log!Init, IInv, CloseOrder, LogState, Quiet, Log!Fates

\* A step of a handler needs an active handler, or a server that takes
\* requests; apart from Record it leaves the recorder alone.
LEMMA HandlerFacts ==
  ASSUME NEW q \in Requests, Handler(q)
  PROVE  /\ active(q) \/ server \in {"up", "failing"}
         /\ Log!Answer(q) \/ UNCHANGED log
         /\ UNCHANGED serve
  BY DEF Handler, Arrive, Gate, Track, AlertReturns, UpstreamError, UpstreamResponse,
         Wrap, StreamEnds, ReadBody, Record, RecordCost, active, at

LEMMA HandlerStep ==
  ASSUME IInv, NEW q \in Requests, Handler(q)
  PROVE  IInv'
  <1>1. UNCHANGED <<server, graceful, made, flushed>>
    BY HandlerFacts DEF serve
  <1>2. ~graceful
    BY HandlerFacts DEF IInv, Quiet
  <1>3. UNCHANGED <<closing, closed>>
    BY HandlerFacts DEF log, Log!Answer
  <1>4. LogState'
    <2>1. CASE UNCHANGED log
      BY <2>1 DEF log, IInv, LogState
    <2>2. CASE Log!Answer(q)
      BY <1>3, <2>2 DEF Log!Answer, IInv, LogState, CloseOrder, Log!Fates, Log!Verdicts
    <2> QED BY <2>1, <2>2, HandlerFacts
  <1>5. CloseOrder'
    BY <1>1, <1>3 DEF IInv, CloseOrder
  <1>6. Quiet'
    BY <1>1, <1>2 DEF Quiet
  <1> QED BY <1>4, <1>5, <1>6 DEF IInv

LEMMA SettleStep ==
  ASSUME IInv, NEW q \in Requests, Settle(q)
  PROVE  IInv'
  <1>1. UNCHANGED <<h, closing, closed, costed, server, graceful, made, flushed>>
    BY DEF Settle, Log!Settle, serve
  <1>2. PICK f \in {"stored", "failed"} : fate' = [fate EXCEPT ![q] = f]
    BY DEF Settle, Log!Settle
  <1>3. ~closed
    BY DEF Settle, Log!Settle
  <1>4. LogState'
    BY <1>1, <1>2, <1>3 DEF IInv, LogState, Log!Fates, Log!Verdicts
  <1>5. CloseOrder'
    BY <1>1 DEF IInv, CloseOrder
  <1>6. Quiet'
    BY <1>1, <1>2 DEF IInv, LogState, Quiet, active
  <1> QED BY <1>4, <1>5, <1>6 DEF IInv

LEMMA GhostsStep ==
  ASSUME IInv, Ghosts
  PROVE  IInv'
  BY DEF Ghosts, GhostAlert, GhostAlertReturns, log, serve, IInv, CloseOrder, LogState,
         Quiet, active

LEMMA ForgetStep ==
  ASSUME IInv, NEW s \in Sessions, Forget(s)
  PROVE  IInv'
  BY DEF Forget, log, serve, IInv, CloseOrder, LogState, Quiet, active

\* Signal, listener failure and the two ends of Shutdown.
LEMMA ShutdownStep ==
  ASSUME IInv, Signal \/ ListenError \/ ShutdownReturns \/ ShutdownTimeout
  PROVE  IInv'
  <1>1. UNCHANGED <<h, fate, closing, closed, costed, made, flushed>>
    BY DEF Signal, ListenError, ShutdownReturns, ShutdownTimeout, log
  <1>2. server \in {"up", "draining"} /\ server' \in {"draining", "closing", "failing"}
    BY DEF Signal, ListenError, ShutdownReturns, ShutdownTimeout
  <1>3. ~graceful
    BY <1>2 DEF IInv, Quiet
  <1>4. LogState'
    BY <1>1 DEF IInv, LogState
  <1>5. CloseOrder'
    BY <1>1, <1>2 DEF IInv, CloseOrder
  <1>6. Quiet'
    <2>1. CASE ShutdownReturns
      BY <1>1, <1>2, <2>1 DEF ShutdownReturns, IInv, CloseOrder, LogState, Quiet, active
    <2>2. CASE UNCHANGED graceful
      BY <1>3, <2>2 DEF Quiet
    <2> QED BY <2>1, <2>2 DEF Signal, ListenError, ShutdownTimeout
  <1> QED BY <1>4, <1>5, <1>6 DEF IInv

\* The deferred calls and the end of the process.
LEMMA CloseStep ==
  ASSUME IInv, CloseOther \/ CloseTracker \/ CloseRecorder \/ Exit
  PROVE  IInv'
  <1>0. made \in 0 .. 6 /\ UNCHANGED <<h, costed, graceful, fate>>
    BY DEF IInv, CloseOrder, CloseOther, CloseTracker, CloseRecorder, Exit, Made,
           Log!StartClose, Log!Close, log, serve
  <1>1. CASE CloseOther
    <2>1. made' = made + 1 /\ made # 1 /\ made # 4 /\ made < 6 /\ returning
      BY <1>0, <1>1, DeferredOrder DEF CloseOther, due, Made
    <2>2. UNCHANGED <<closing, closed, flushed, server>>
      BY <1>1 DEF CloseOther, Made, log
    <2> QED BY <1>0, <2>1, <2>2 DEF IInv, CloseOrder, LogState, Quiet, active, returning
  <1>2. CASE CloseTracker
    <2>1. made = 1 /\ made' = 2 /\ returning /\ flushed' = costed
      BY <1>0, <1>2, DeferredOrder DEF CloseTracker, due, Made
    <2>2. UNCHANGED <<closing, closed, server>>
      BY <1>2 DEF CloseTracker, Made, log
    <2> QED BY <1>0, <2>1, <2>2 DEF IInv, CloseOrder, LogState, Quiet, active, returning
  <1>3. CASE CloseRecorder
    <2>0. made = 4 /\ returning
      BY <1>0, <1>3, DeferredOrder DEF CloseRecorder, due
    <2>1. CASE Log!StartClose /\ UNCHANGED <<serve, h, tracker, costed>>
      BY <1>0, <2>0, <2>1 DEF Log!StartClose, serve, IInv, CloseOrder, LogState, Quiet,
                              active, returning
    <2>2. CASE Log!Close /\ Made /\ UNCHANGED <<h, tracker, costed, flushed>>
      BY <1>0, <2>0, <2>2 DEF Log!Close, Made, IInv, CloseOrder, LogState, Quiet,
                              active, returning
    <2> QED BY <1>3, <2>1, <2>2 DEF CloseRecorder
  <1>4. CASE Exit
    <2>1. made = 6 /\ returning /\ server' = "exited" /\ UNCHANGED <<closing, closed, made, flushed>>
      BY <1>4, DeferredOrder DEF Exit, log
    <2> QED BY <1>0, <2>1 DEF IInv, CloseOrder, LogState, Quiet, active, returning
  <1> QED BY <1>1, <1>2, <1>3, <1>4

LEMMA ProxyIInv == Spec => []IInv
  <1>1. Init => IInv
    BY InitIInv
  <1>2. IInv /\ [Next]_vars => IInv'
    <2>1. IInv /\ Next => IInv'
      BY HandlerStep, SettleStep, GhostsStep, ForgetStep, ShutdownStep, CloseStep DEF Next, Serve
    <2>2. IInv /\ UNCHANGED vars => IInv'
      BY DEF vars, log, serve, IInv, CloseOrder, LogState, Quiet, active
    <2> QED BY <2>1, <2>2
  <1> QED BY <1>1, <1>2, PTL DEF Spec

\* A graceful shutdown loses nothing: Shutdown has waited for the handlers,
\* so no call of Record meets a closed channel, rec.Close drains what they
\* recorded, and the tracker's last flush has every session cost.
THEOREM ProxyGracefulLosesNothing == Spec => []GracefulLosesNothing
  <1>1. IInv => GracefulLosesNothing
    BY DEF IInv, CloseOrder, LogState, Quiet, GracefulLosesNothing
  <1> QED BY <1>1, ProxyIInv, PTL

\* However the server ends, no record is written to a closed store: the
\* deferred calls close the recorder, which drains, before the store.
THEOREM ProxyStoreOutlivesRecorder == Spec => StoreOutlivesRecorder
  <1> DEFINE A == \A q \in Requests : fate[q] = "accepted" /\ fate'[q] # "accepted" =>
                     \E i \in made + 1 .. Len(Deferred) : Deferred[i] = "store"
  <1>1. IInv /\ [Next]_vars => [A]_vars
    <2> SUFFICES ASSUME IInv, Next, NEW q \in Requests,
                        fate[q] = "accepted", fate'[q] # "accepted"
                 PROVE  \E i \in made + 1 .. Len(Deferred) : Deferred[i] = "store"
      OBVIOUS
    <2>1. ~closed
      BY DEF IInv, LogState
    <2>2. 6 \in made + 1 .. Len(Deferred)
      BY <2>1, DeferredOrder DEF IInv, CloseOrder
    <2> QED BY <2>2, DeferredOrder
  <1> QED BY <1>1, ProxyIInv, PTL DEF Spec, StoreOutlivesRecorder

-----------------------------------------------------------------------------
(* Records and session costs.                                              *)

HandlerRecord ==
    [pc : PCs, session : Sessions \cup {None}, refused : BOOLEAN,
     forwarded : BOOLEAN, stream : BOOLEAN, parsed : BOOLEAN]

\* What a request that has not been answered from upstream looks like.
Untouched(q) ==
    ~h[q].forwarded /\ ~metered(q) /\ fate[q] = "new" /\ q \notin costed

\* What the handler of q has done, by the place it has reached: it is metered
\* before it calls Record, has a record before it adds its cost, and is turned
\* away only while it has neither.
Progress(q) ==
    /\ h[q].pc \in {"new", "blocklist", "track", "alerting", "limit", "budget", "upstream"} =>
          Untouched(q) /\ ~h[q].refused
    /\ h[q].pc \in {"modify", "stream", "record"} =>
          fate[q] = "new" /\ q \notin costed /\ ~h[q].refused
    /\ h[q].pc = "modify" => ~h[q].parsed
    /\ h[q].pc = "stream" => h[q].stream
    /\ h[q].pc \in {"record", "cost"} => metered(q)
    /\ h[q].pc = "cost" =>
          fate[q] \notin {"new", "panicked"} /\ q \notin costed /\ ~h[q].refused
    /\ h[q].pc = "done" =>
          /\ fate[q] # "new" <=> metered(q)
          /\ metered(q) /\ fate[q] # "panicked" /\ q \in opened \ gone => q \in costed
    /\ q \in costed => metered(q) /\ fate[q] \notin {"new", "panicked"}
    /\ h[q].refused => Untouched(q)

\* A request that TrackCall counted finds its session in the map until the
\* session is removed; a session is in the map, and a cost was added to it,
\* only if a request opened it.
Links ==
    /\ \A q \in opened : /\ h[q].pc \notin {"new", "blocklist", "track"}
                         /\ q \notin gone /\ active(q) => h[q].session \in known
    /\ \A s \in known : \E p \in opened : h[p].session = s
    /\ \A q \in costed : \E p \in opened : h[p].session = h[q].session

MInv == TypeOK /\ h \in [Requests -> HandlerRecord] /\ (\A q \in Requests : Progress(q)) /\ Links

LEMMA InitMInv == Init => MInv
  <1> SUFFICES ASSUME Init PROVE MInv
    OBVIOUS
  <1>1. h \in [Requests -> HandlerRecord]
    BY DEF Init, NewHandler, HandlerRecord, PCs
  <1>2. TypeOK
    <2>1. \A q \in Requests : h[q].pc \in PCs /\ h[q].session \in Sessions \cup {None}
      BY <1>1 DEF HandlerRecord
    <2>2. fate \in [Requests -> Log!Fates] /\ closing \in BOOLEAN /\ closed \in BOOLEAN
      BY DEF Init, Log!Init, Log!Fates
    <2>3. /\ graceful \in BOOLEAN
          /\ server \in {"up", "draining", "closing", "failing", "exited"}
          /\ mu \in Requests \cup {"background", None}
      BY DEF Init
    <2>4. made \in 0 .. Len(Deferred)
      BY DeferredOrder DEF Init
    <2>5. /\ costed \subseteq Requests /\ flushed \subseteq costed
          /\ known \subseteq Sessions /\ ghosts \subseteq known
          /\ gone \subseteq opened /\ opened \subseteq Requests
      BY DEF Init
    <2> QED BY <2>1, <2>2, <2>3, <2>4, <2>5 DEF TypeOK
  <1>3. \A q \in Requests : Progress(q)
    BY DEF Init, Log!Init, NewHandler, Progress, Untouched, metered
  <1>4. Links
    BY DEF Init, Links
  <1> QED BY <1>1, <1>2, <1>3, <1>4 DEF MInv

\* A handler's step leaves the tracker's map alone, or is the TrackCall of its
\* own request.
LEMMA MapFacts ==
  ASSUME NEW q \in Requests, Handler(q)
  PROVE  UNCHANGED sessions \/ (TrackCall(q) /\ at(q, "track") /\ tracked(q) /\ Track(q))
  BY DEF Handler, Arrive, Gate, Track, AlertReturns, UpstreamError, UpstreamResponse,
         Wrap, StreamEnds, ReadBody, Record, RecordCost, tracker

\* A step of q's handler, or a verdict on its record, is about q alone.
LEMMA OthersUntouched ==
  ASSUME MInv, NEW q \in Requests, Handler(q) \/ Settle(q)
  PROVE  \A p \in Requests \ {q} :
            /\ h'[p] = h[p] /\ fate'[p] = fate[p] /\ (p \in costed' <=> p \in costed)
            /\ (p \in opened' <=> p \in opened) /\ (p \in gone' <=> p \in gone)
  <1> USE DEF MInv, TypeOK
  <1>0. \A p \in Requests \ {q} : (p \in opened' <=> p \in opened) /\ (p \in gone' <=> p \in gone)
    BY MapFacts DEF sessions, TrackCall, Settle, tracker
  <1> USE <1>0
  <1>1. CASE Arrive(q) BY <1>1 DEF Arrive, Refuse, log
  <1>2. CASE Gate(q, "blocklist") \/ Gate(q, "limit") \/ Gate(q, "budget")
    BY <1>2 DEF Gate, Refuse, Go, log
  <1>3. CASE Track(q) BY <1>3 DEF Track, Go, log
  <1>4. CASE AlertReturns(q) BY <1>4 DEF AlertReturns, Refuse, Go, log
  <1>5. CASE UpstreamError(q) BY <1>5 DEF UpstreamError, log
  <1>6. CASE UpstreamResponse(q) BY <1>6 DEF UpstreamResponse, log
  <1>7. CASE Wrap(q) \/ StreamEnds(q) BY <1>7 DEF Wrap, StreamEnds, Go, log
  <1>8. CASE ReadBody(q) BY <1>8 DEF ReadBody, Go, log
  <1>9. CASE Record(q) BY <1>9 DEF Record, Go, Log!Answer
  <1>10. CASE RecordCost(q) BY <1>10 DEF RecordCost, Go, log
  <1>11. CASE Settle(q) BY <1>11 DEF Settle, Log!Settle
  <1> QED BY <1>1, <1>2, <1>3, <1>4, <1>5, <1>6, <1>7, <1>8, <1>9, <1>10, <1>11 DEF Handler

\* The handler's record keeps its type.
LEMMA HandlerTypes ==
  ASSUME h \in [Requests -> HandlerRecord], NEW q \in Requests, Handler(q)
  PROVE  h' \in [Requests -> HandlerRecord]
  <1> USE DEF HandlerRecord, PCs
  <1>1. CASE Arrive(q) BY <1>1 DEF Arrive, Refuse
  <1>2. CASE Gate(q, "blocklist") BY <1>2 DEF Gate, Refuse, Go, after
  <1>3. CASE Gate(q, "limit") BY <1>3 DEF Gate, Refuse, Go, after
  <1>4. CASE Gate(q, "budget") BY <1>4 DEF Gate, Refuse, Go, after
  <1>5. CASE Track(q) BY <1>5 DEF Track, Go, after
  <1>6. CASE AlertReturns(q) BY <1>6 DEF AlertReturns, Refuse, Go, after
  <1>7. CASE UpstreamError(q) BY <1>7 DEF UpstreamError
  <1>8. CASE UpstreamResponse(q)
    <2>1. PICK stream \in BOOLEAN :
             h' = [h EXCEPT ![q].pc = "modify", ![q].forwarded = TRUE, ![q].stream = stream]
      BY <1>8 DEF UpstreamResponse
    <2> DEFINE r == [h[q] EXCEPT !.pc = "modify", !.forwarded = TRUE, !.stream = stream]
    <2>2. r \in HandlerRecord
      OBVIOUS
    <2>3. h' = [h EXCEPT ![q] = r]
      BY <2>1
    <2> HIDE DEF r, HandlerRecord
    <2> QED BY <2>2, <2>3
  <1>9. CASE Wrap(q) \/ StreamEnds(q) BY <1>9 DEF Wrap, StreamEnds, Go
  <1>10. CASE ReadBody(q) BY <1>10 DEF ReadBody, Go
  <1>11. CASE Record(q) BY <1>11 DEF Record, Go
  <1>12. CASE RecordCost(q) BY <1>12 DEF RecordCost, Go
  <1> QED BY <1>1, <1>2, <1>3, <1>4, <1>5, <1>6, <1>7, <1>8, <1>9, <1>10, <1>11, <1>12
          DEF Handler

\* Each step of a handler leaves its request as the next place expects it.
LEMMA HandlerProgress ==
  ASSUME MInv, NEW q \in Requests, Handler(q)
  PROVE  Progress(q)'
  <1> USE DEF MInv, HandlerRecord, Progress, Untouched, metered, at
  <1>1. CASE Arrive(q) BY <1>1 DEF Arrive, Refuse, log
  <1>2. CASE Gate(q, "blocklist") BY <1>2 DEF Gate, Refuse, Go, after, log
  <1>3. CASE Gate(q, "limit") BY <1>3 DEF Gate, Refuse, Go, after, log
  <1>4. CASE Gate(q, "budget") BY <1>4 DEF Gate, Refuse, Go, after, log
  <1>5. CASE Track(q) BY <1>5 DEF Track, Go, after, log
  <1>6. CASE AlertReturns(q) BY <1>6 DEF AlertReturns, Refuse, Go, after, log
  <1>7. CASE UpstreamError(q) BY <1>7 DEF UpstreamError, log
  <1>8. CASE UpstreamResponse(q) BY <1>8 DEF UpstreamResponse, log
  <1>9. CASE Wrap(q) BY <1>9 DEF Wrap, Go, log
  <1>10. CASE StreamEnds(q) BY <1>10 DEF StreamEnds, Go, log
  <1>11. CASE ReadBody(q) BY <1>11 DEF ReadBody, Go, log
  <1>12. CASE Record(q)
    <2>1. /\ fate' \in [Requests -> Log!Fates] /\ fate'[q] # "new" /\ costed' = costed
          /\ fate'[q] = "panicked" <=> closing
      BY <1>12 DEF Record, Log!Answer, Log!Fates, Log!Verdicts, TypeOK
    <2>2. CASE closing
      BY <1>12, <2>1, <2>2 DEF Record, Go
    <2>3. CASE ~closing
      BY <1>12, <2>1, <2>3 DEF Record, Go
    <2> QED BY <2>2, <2>3
  <1>13. CASE RecordCost(q)
    <2>1. /\ h' = [h EXCEPT ![q].pc = "done"] /\ h[q].pc = "cost"
          /\ UNCHANGED <<fate, opened, gone>>
          /\ costed' = IF h[q].session \in known THEN costed \cup {q} ELSE costed
      BY <1>13 DEF RecordCost, Go, log, tracker, sessions
    <2>2. q \in opened \ gone => h[q].session \in known
      BY <2>1 DEF Links, active
    <2> QED BY <2>1, <2>2
  <1> QED BY <1>1, <1>2, <1>3, <1>4, <1>5, <1>6, <1>7, <1>8, <1>9, <1>10, <1>11, <1>12, <1>13
          DEF Handler

\* The other variables keep their types.
LEMMA HandlerTypeOK ==
  ASSUME MInv, NEW q \in Requests, Handler(q)
  PROVE  TypeOK'
  <1>1. h' \in [Requests -> HandlerRecord]
    BY HandlerTypes DEF MInv
  <1>2. \A p \in Requests : h'[p].pc \in PCs /\ h'[p].session \in Sessions \cup {None}
    BY <1>1 DEF HandlerRecord
  <1>3. fate' \in [Requests -> Log!Fates] /\ closing' = closing /\ closed' = closed
    BY HandlerFacts DEF MInv, TypeOK, log, Log!Answer, Log!Fates, Log!Verdicts
  <1>4. mu' \in Requests \cup {"background", None} /\ ghosts' = ghosts
    BY DEF MInv, TypeOK, Handler, Arrive, Gate, Track, AlertReturns, UpstreamError,
           UpstreamResponse, Wrap, StreamEnds, ReadBody, Record, RecordCost, tracker
  <1>5. costed' = costed \/ costed' = costed \cup {q}
    BY DEF Handler, Arrive, Gate, Track, AlertReturns, UpstreamError,
           UpstreamResponse, Wrap, StreamEnds, ReadBody, Record, RecordCost
  <1>6. /\ known' \subseteq Sessions /\ known \subseteq known'
        /\ gone' \subseteq opened' /\ opened' \subseteq Requests
    BY MapFacts DEF MInv, TypeOK, TrackCall, tracked, sessions
  <1> QED BY <1>2, <1>3, <1>4, <1>5, <1>6, HandlerFacts DEF MInv, TypeOK, serve

\* Only a request that has just arrived chooses its session.
LEMMA SessionKept ==
  ASSUME h \in [Requests -> HandlerRecord], NEW q \in Requests, Handler(q), h[q].pc # "new"
  PROVE  /\ h'[q].session = h[q].session
         /\ h[q].pc \notin {"blocklist", "track"} => h'[q].pc \notin {"new", "blocklist", "track"}
         /\ Track(q) => h'[q].pc \notin {"new", "blocklist", "track"}
         /\ active(q)' => active(q)
  <1> USE DEF HandlerRecord, PCs, at, active
  <1>1. CASE Arrive(q) BY <1>1 DEF Arrive
  <1>2. CASE Gate(q, "blocklist") BY <1>2 DEF Gate, Refuse, Go, after, Track
  <1>3. CASE Gate(q, "limit") BY <1>3 DEF Gate, Refuse, Go, after, Track
  <1>4. CASE Gate(q, "budget") BY <1>4 DEF Gate, Refuse, Go, after, Track
  <1>5. CASE Track(q) BY <1>5 DEF Track, Go, after
  <1>6. CASE AlertReturns(q) BY <1>6 DEF AlertReturns, Refuse, Go, after, Track
  <1>7. CASE UpstreamError(q) BY <1>7 DEF UpstreamError, Track
  <1>8. CASE UpstreamResponse(q) BY <1>8 DEF UpstreamResponse, Track
  <1>9. CASE Wrap(q) \/ StreamEnds(q) BY <1>9 DEF Wrap, StreamEnds, Go, Track
  <1>10. CASE ReadBody(q) BY <1>10 DEF ReadBody, Go, Track
  <1>11. CASE Record(q) BY <1>11 DEF Record, Go, Track
  <1>12. CASE RecordCost(q) BY <1>12 DEF RecordCost, Go, Track
  <1> QED BY <1>1, <1>2, <1>3, <1>4, <1>5, <1>6, <1>7, <1>8, <1>9, <1>10, <1>11, <1>12
          DEF Handler

\* A handler's step keeps requests, costs and the tracker's map linked.
LEMMA HandlerLinks ==
  ASSUME MInv, NEW q \in Requests, Handler(q)
  PROVE  Links'
  <1>1. /\ Links /\ TypeOK /\ h \in [Requests -> HandlerRecord]
        /\ opened \subseteq Requests /\ costed \subseteq Requests
    BY DEF MInv, TypeOK
  <1>2. \A p \in Requests \ {q} : h'[p] = h[p] /\ (p \in costed' <=> p \in costed)
    BY OthersUntouched
  <1>3. /\ gone' = gone /\ known \subseteq known' /\ opened \subseteq opened'
        /\ opened' \subseteq Requests /\ costed' \subseteq Requests
    <2>1. /\ gone' = gone /\ known \subseteq known' /\ opened \subseteq opened'
          /\ opened' \subseteq opened \cup {q}
      BY MapFacts DEF TrackCall, sessions
    <2>2. costed' \subseteq costed \cup {q}
      BY DEF Handler, Arrive, Gate, Track, AlertReturns, UpstreamError,
             UpstreamResponse, Wrap, StreamEnds, ReadBody, Record, RecordCost
    <2> QED BY <1>1, <2>1, <2>2
  <1>4. \A p \in opened : h'[p].session = h[p].session
    BY <1>1, <1>2, SessionKept DEF Links
  <1>5. ASSUME NEW p \in opened'
        PROVE  /\ h'[p].pc \notin {"new", "blocklist", "track"}
               /\ p \notin gone' /\ active(p)' => h'[p].session \in known'
    <2>1. CASE p # q
      <3>1. p \in opened
        BY <2>1, <1>5, MapFacts DEF TrackCall, sessions
      <3>2. h'[p] = h[p]
        BY <1>1, <1>2, <2>1, <3>1
      <3> QED BY <1>1, <1>3, <3>1, <3>2 DEF Links, active
    <2>2. CASE p = q /\ q \in opened
      <3>1. h[q].pc \notin {"new", "blocklist", "track"}
        BY <1>1, <2>2 DEF Links
      <3> QED BY <1>1, <1>3, <2>2, <3>1, SessionKept DEF Links
    <2>3. CASE p = q /\ q \notin opened
      <3>1. TrackCall(q) /\ at(q, "track") /\ Track(q)
        BY <1>5, <2>3, MapFacts DEF sessions
      <3>2. h'[q].session = h[q].session /\ h[q].session \in known'
        BY <1>1, <3>1, SessionKept DEF TrackCall, at
      <3> QED BY <1>1, <2>3, <3>1, <3>2, SessionKept DEF at
    <2> QED BY <2>1, <2>2, <2>3
  <1>6. ASSUME NEW s \in known' PROVE \E p \in opened' : h'[p].session = s
    <2>1. CASE s \in known
      BY <1>1, <1>3, <1>4, <2>1 DEF Links
    <2>2. CASE s \notin known
      <3>1. TrackCall(q) /\ at(q, "track") /\ s = h[q].session
        BY <1>6, <2>2, MapFacts DEF TrackCall, sessions
      <3>2. q \in opened' /\ h'[q].session = h[q].session
        BY <1>1, <3>1, SessionKept DEF TrackCall, at
      <3> QED BY <3>1, <3>2
    <2> QED BY <2>1, <2>2
  <1>7. ASSUME NEW c \in costed' PROVE \E p \in opened' : h'[p].session = h'[c].session
    <2>1. CASE c \in costed
      <3>1. h[c].pc # "new" /\ c \in Requests
        BY <1>1, <2>1 DEF MInv, Progress, Untouched
      <3>2. h'[c].session = h[c].session
        BY <1>1, <1>2, <3>1, SessionKept
      <3> QED BY <1>1, <1>3, <1>4, <2>1, <3>2 DEF Links
    <2>2. CASE c \notin costed
      <3>1. c = q /\ RecordCost(q) /\ h[q].session \in known
        BY <1>2, <1>3, <1>7, <2>2 DEF Handler, Arrive, Gate, Track, AlertReturns, UpstreamError,
             UpstreamResponse, Wrap, StreamEnds, ReadBody, Record, RecordCost
      <3>2. h'[q].session = h[q].session
        BY <1>1, <3>1, SessionKept DEF RecordCost, at
      <3> QED BY <1>1, <1>3, <1>4, <3>1, <3>2 DEF Links
    <2> QED BY <2>1, <2>2
  <1> QED BY <1>5, <1>6, <1>7 DEF Links

\* Removing a session keeps them linked: its requests are gone.
LEMMA ForgetKeeps ==
  ASSUME MInv, NEW s \in Sessions, Forget(s)
  PROVE  MInv'
  <1>1. /\ UNCHANGED <<h, fate, closing, closed, mu, opened, costed, serve>>
        /\ known' = known \ {s} /\ ghosts' = ghosts \ {s}
        /\ gone' = gone \cup {q \in opened : h[q].session = s /\ active(q)}
    BY DEF Forget, log
  <1>2. TypeOK'
    BY <1>1 DEF MInv, TypeOK, serve
  <1>3. \A q \in Requests : Progress(q)'
    BY <1>1 DEF MInv, Progress, Untouched, metered
  <1>4. Links'
    BY <1>1 DEF MInv, Links, active
  <1> QED BY <1>1, <1>2, <1>3, <1>4 DEF MInv

LEMMA MInvStep == IInv /\ MInv /\ [Next]_vars => MInv'
  <1> SUFFICES ASSUME IInv, MInv, [Next]_vars PROVE MInv'
    OBVIOUS
  <1>1. ASSUME NEW q \in Requests, Handler(q) PROVE MInv'
    <2>1. \A p \in Requests \ {q} : Progress(p)'
      BY <1>1, OthersUntouched DEF MInv, Progress, Untouched, metered
    <2> QED BY <1>1, <2>1, HandlerTypes, HandlerProgress, HandlerTypeOK, HandlerLinks DEF MInv
  <1>2. ASSUME NEW q \in Requests, Settle(q) PROVE MInv'
    <2>1. PICK f \in {"stored", "failed"} : fate' = [fate EXCEPT ![q] = f]
      BY <1>2 DEF Settle, Log!Settle
    <2>2. UNCHANGED <<h, closing, closed, mu, ghosts, known, opened, gone, costed,
                      server, graceful, made, flushed>>
      BY <1>2 DEF Settle, Log!Settle, serve, tracker, sessions
    <2>3. /\ fate' \in [Requests -> Log!Fates]
          /\ \A p \in Requests : /\ fate'[p] = "new" <=> fate[p] = "new"
                                 /\ fate'[p] = "panicked" <=> fate[p] = "panicked"
      BY <1>2, <2>1 DEF Settle, Log!Settle, MInv, TypeOK, Log!Fates, Log!Verdicts
    <2>4. TypeOK'
      BY <2>2, <2>3 DEF MInv, TypeOK
    <2>5. \A p \in Requests : Progress(p)'
      BY <2>2, <2>3 DEF MInv, Progress, Untouched, metered
    <2>6. Links'
      BY <2>2 DEF MInv, Links, active
    <2> QED BY <2>2, <2>4, <2>5, <2>6 DEF MInv
  <1>3. ASSUME UNCHANGED <<h, fate, costed, sessions>>, TypeOK' PROVE MInv'
    BY <1>3 DEF MInv, Progress, Untouched, metered, Links, active, sessions
  <1>4. CASE Ghosts
    <2>1. TypeOK'
      BY <1>4 DEF Ghosts, GhostAlert, GhostAlertReturns, log, serve, sessions, MInv, TypeOK
    <2> QED BY <1>3, <1>4, <2>1 DEF Ghosts, GhostAlert, GhostAlertReturns, log
  <1>5. CASE Serve
    <2>1. UNCHANGED <<h, fate, mu, ghosts, sessions, costed>>
      BY <1>5 DEF Serve, Signal, ListenError, ShutdownReturns, ShutdownTimeout, CloseOther,
                  CloseTracker, CloseRecorder, Exit, log, tracker, Log!StartClose, Log!Close
    <2>2. /\ closing' \in BOOLEAN /\ closed' \in BOOLEAN /\ graceful' \in BOOLEAN
          /\ flushed' \subseteq costed
          /\ server' \in {"up", "draining", "closing", "failing", "exited"}
      BY <1>5 DEF Serve, Signal, ListenError, ShutdownReturns, ShutdownTimeout, CloseOther,
                  CloseTracker, CloseRecorder, Exit, Made, log, serve, Log!StartClose,
                  Log!Close, MInv, TypeOK
    <2>3. made' \in 0 .. Len(Deferred)
      BY <1>5, DeferredOrder
         DEF Serve, Signal, ListenError, ShutdownReturns, ShutdownTimeout, CloseOther,
             CloseTracker, CloseRecorder, Exit, Made, due, serve, MInv, TypeOK
    <2>4. TypeOK'
      BY <2>1, <2>2, <2>3 DEF MInv, TypeOK, sessions
    <2> QED BY <1>3, <2>1, <2>4
  <1>6. CASE UNCHANGED vars
    <2>1. TypeOK'
      BY <1>6 DEF vars, log, serve, tracker, sessions, MInv, TypeOK
    <2> QED BY <1>3, <1>6, <2>1 DEF vars, log, tracker
  <1> QED BY <1>1, <1>2, <1>4, <1>5, <1>6, ForgetKeeps DEF Next

\* Usage records and session costs agree, for any number of requests and
\* sessions, whatever the gates decide, however the server ends and whenever
\* the tracker removes sessions: a handler that has replied called Record
\* exactly when it metered the response, its cost followed its call into the
\* session unless that was removed meanwhile, and no cost went anywhere else; a
\* refused request leaves neither.
THEOREM ProxyMeteredExactly == Spec => []MeteredExactly
  <1>1. MInv => MeteredExactly
    BY DEF MInv, TypeOK, Progress, Untouched, Links, MeteredExactly
  <1> QED BY <1>1, InitMInv, MInvStep, ProxyIInv, PTL DEF Spec

-----------------------------------------------------------------------------
(* The circuit breaker.                                                    *)


\* Types are preserved by every step.
LEMMA TypeStep == BreakerTypeOK /\ [BreakerNext]_breakerVars => BreakerTypeOK'
  <1> SUFFICES ASSUME BreakerTypeOK, [BreakerNext]_breakerVars PROVE BreakerTypeOK'
    OBVIOUS
  <1> USE BreakerAssumption DEF BreakerTypeOK, BreakerStates, RoundTripPCs, Goto, Expired, later, underWay
  <1>1. CASE Tick BY <1>1 DEF Tick
  <1>2. CASE Flip BY <1>2 DEF Flip
  <1>3. ASSUME NEW t \in Threads, RoundTrip(t) PROVE BreakerTypeOK'
    <2>1. CASE Load(t) BY <2>1 DEF Load
    <2>2. CASE ReadTripped(t) BY <2>2 DEF ReadTripped
    <2>3. CASE CAS(t) BY <2>3 DEF CAS
    <2>4. CASE Respond(t) BY <2>4 DEF Respond
    <2>5. CASE AddFailure(t) BY <2>5 DEF AddFailure
    <2>6. CASE TripOpen(t) BY <2>6 DEF TripOpen
    <2>7. CASE TripStamp(t) BY <2>7 DEF TripStamp
    <2>8. CASE ResetFailures(t) BY <2>8 DEF ResetFailures
    <2>9. CASE StoreClosed(t) BY <2>9 DEF StoreClosed
    <2> QED BY <1>3, <2>1, <2>2, <2>3, <2>4, <2>5, <2>6, <2>7, <2>8, <2>9 DEF RoundTrip
  <1>4. CASE UNCHANGED breakerVars BY <1>4 DEF breakerVars
  <1> QED BY <1>1, <1>2, <1>3, <1>4 DEF BreakerNext

\* The initial state is well typed.
LEMMA InitType == BreakerInit => BreakerTypeOK
  BY BreakerAssumption DEF BreakerInit, BreakerTypeOK, BreakerStates, RoundTripPCs, Expired

\* Every variable keeps its type; the failure count keeps its bound.
THEOREM BreakerTypes == BreakerSpec => []BreakerTypeOK
  BY InitType, TypeStep, PTL DEF BreakerSpec

-----------------------------------------------------------------------------
(* The mutex and the trip time.                                            *)

\* The mutex: two trips never overlap.
OneTripAtATime ==
    \A t, u \in Threads : pc[t] = "stamp" /\ pc[u] = "stamp" => t = u

\* Two goroutines are never both between the store of "open" and the unlock,
\* and outside that section the trip time is not older than the last trip.
LockInv == BreakerTypeOK /\ OneTripAtATime /\ TimerNotAhead

\* The mutex discipline is inductive.
LEMMA LockStep == LockInv /\ [BreakerNext]_breakerVars => LockInv'
  <1> SUFFICES ASSUME LockInv, [BreakerNext]_breakerVars PROVE OneTripAtATime' /\ TimerNotAhead'
    BY TypeStep DEF LockInv
  <1> USE BreakerAssumption DEF LockInv, OneTripAtATime, TimerNotAhead, LockFree, Goto, BreakerTypeOK
  <1>1. CASE Tick BY <1>1 DEF Tick, later, Expired
  <1>2. CASE Flip BY <1>2 DEF Flip
  <1>3. ASSUME NEW t \in Threads, RoundTrip(t) PROVE OneTripAtATime' /\ TimerNotAhead'
    <2>1. CASE Load(t) BY <2>1 DEF Load
    <2>2. CASE ReadTripped(t) BY <2>2 DEF ReadTripped
    <2>3. CASE CAS(t) BY <2>3 DEF CAS
    <2>4. CASE Respond(t) BY <2>4 DEF Respond
    <2>5. CASE AddFailure(t) BY <2>5 DEF AddFailure
    <2>6. CASE TripOpen(t) BY <2>6 DEF TripOpen
    <2>7. CASE TripStamp(t) BY <2>7 DEF TripStamp, Expired
    <2>8. CASE ResetFailures(t) BY <2>8 DEF ResetFailures
    <2>9. CASE StoreClosed(t) BY <2>9 DEF StoreClosed
    <2> QED BY <1>3, <2>1, <2>2, <2>3, <2>4, <2>5, <2>6, <2>7, <2>8, <2>9 DEF RoundTrip
  <1>4. CASE UNCHANGED breakerVars BY <1>4 DEF breakerVars
  <1> QED BY <1>1, <1>2, <1>3, <1>4 DEF BreakerNext

\* For any number of concurrent requests, the timeout that allow() measures
\* under the mutex starts no earlier than the trip it has seen.
THEOREM BreakerTimerNotAhead == BreakerSpec => []TimerNotAhead
  <1>1. BreakerInit => LockInv
    BY InitType, BreakerAssumption
    DEF BreakerInit, LockInv, OneTripAtATime, TimerNotAhead, LockFree, Expired
  <1>2. LockInv => TimerNotAhead
    BY DEF LockInv
  <1> QED BY <1>1, <1>2, LockStep, PTL DEF BreakerSpec

-----------------------------------------------------------------------------
(* The open circuit under concurrency.                                     *)

\* A request that began after the last trip is not past allow() while the
\* circuit is open, and if it has found the timeout expired, it still is; it
\* cannot have found so while a trip is being stamped.
LateComer(t) ==
    t \notin overlap =>
        /\ state = "open" => pc[t] \in {"idle", "sawOpen", "expired"}
        /\ pc[t] = "expired" => LockFree /\ age > Timeout
        /\ pc[t] # "stamp"

OpenInv == LockInv /\ \A t \in Threads : LateComer(t)

\* The invariant of late comers is preserved by every step.
LEMMA OpenStep == OpenInv /\ [BreakerNext]_breakerVars => OpenInv'
  <1> SUFFICES ASSUME OpenInv, [BreakerNext]_breakerVars, NEW u \in Threads PROVE LateComer(u)'
    BY LockStep DEF OpenInv
  <1> USE BreakerAssumption DEF OpenInv, LockInv, BreakerTypeOK, RoundTripPCs, LateComer, LockFree, Goto
  <1>1. CASE Tick BY <1>1 DEF Tick, later, Expired
  <1>2. CASE Flip BY <1>2 DEF Flip
  <1>3. ASSUME NEW t \in Threads, RoundTrip(t) PROVE LateComer(u)'
    <2>1. CASE Load(t) BY <2>1 DEF Load
    <2>2. CASE ReadTripped(t) BY <2>2 DEF ReadTripped
    <2>3. CASE CAS(t) BY <2>3 DEF CAS
    <2>4. CASE Respond(t) BY <2>4 DEF Respond
    <2>5. CASE AddFailure(t) BY <2>5 DEF AddFailure
    <2>6. CASE TripOpen(t) BY <2>6 DEF TripOpen, underWay
    <2>7. CASE TripStamp(t) BY <2>7 DEF TripStamp, OneTripAtATime
    <2>8. CASE ResetFailures(t) BY <2>8 DEF ResetFailures
    <2>9. CASE StoreClosed(t) BY <2>9 DEF StoreClosed
    <2> QED BY <1>3, <2>1, <2>2, <2>3, <2>4, <2>5, <2>6, <2>7, <2>8, <2>9 DEF RoundTrip
  <1>4. CASE UNCHANGED breakerVars BY <1>4 DEF breakerVars
  <1> QED BY <1>1, <1>2, <1>3, <1>4 DEF BreakerNext

\* For any number of concurrent requests, the circuit leaves the open state
\* before the timeout only through a request that was under way at the trip.
THEOREM BreakerOpenLasts == BreakerSpec => OpenLasts
  <1>1. BreakerInit => OpenInv
    BY InitType, BreakerAssumption
    DEF BreakerInit, OpenInv, LockInv, OneTripAtATime, TimerNotAhead, LockFree, Expired, LateComer
  <1>2. OpenInv /\ [BreakerNext]_breakerVars => [state = "open" /\ state' # "open" =>
                age > Timeout \/ \E t \in overlap : pc'[t] # pc[t]]_breakerVars
    <2> SUFFICES ASSUME OpenInv, BreakerNext, state = "open", state' # "open"
                 PROVE  age > Timeout \/ \E t \in overlap : pc'[t] # pc[t]
      OBVIOUS
    <2> USE DEF OpenInv, LockInv, BreakerTypeOK, LateComer, Goto
    <2>1. PICK t \in Threads : RoundTrip(t)
      BY DEF BreakerNext, Tick, Flip
    <2>2. CASE CAS(t) BY <2>2 DEF CAS
    <2>3. CASE StoreClosed(t) BY <2>3 DEF StoreClosed
    <2> QED BY <2>1, <2>2, <2>3 DEF RoundTrip, Load, ReadTripped, Respond, AddFailure,
                        TripOpen, TripStamp, ResetFailures
  <1> QED BY <1>1, <1>2, OpenStep, PTL DEF BreakerSpec, OpenLasts

-----------------------------------------------------------------------------
(* One request at a time.                                                  *)

\* With a single goroutine, a circuit that is not closed has its full count
\* of failures, an open one has no request upstream, and a request that found
\* the timeout expired still finds it expired.
SeqInv(t) ==
    /\ BreakerTypeOK
    /\ state # "closed" /\ pc[t] # "close" => failures = MaxFailures
    /\ pc[t] = "trip" => failures = MaxFailures
    /\ state = "open" => pc[t] \in {"idle", "sawOpen", "expired", "stamp"}
    /\ pc[t] = "expired" => state = "open" /\ age > Timeout
    /\ pc[t] = "sawOpen" => state = "open"

\* The sequential invariant holds initially and is preserved by every step.
LEMMA SeqStep ==
  ASSUME NEW t, Threads = {t}
  PROVE  (BreakerInit => SeqInv(t)) /\ (SeqInv(t) /\ [BreakerNext]_breakerVars => SeqInv(t)')
  <1>1. BreakerInit => SeqInv(t)
    BY InitType DEF BreakerInit, SeqInv
  <1>2. ASSUME SeqInv(t), [BreakerNext]_breakerVars PROVE SeqInv(t)'
    <2>0. BreakerTypeOK'
      BY <1>2, TypeStep DEF SeqInv
    <2> USE <1>2, <2>0, BreakerAssumption DEF SeqInv, Goto, BreakerTypeOK, RoundTripPCs, underWay
    <2>1. CASE Tick BY <2>1 DEF Tick, later, Expired
    <2>2. CASE Flip BY <2>2 DEF Flip
    <2>3. CASE RoundTrip(t)
      <3>1. CASE Load(t) BY <3>1 DEF Load
      <3>2. CASE ReadTripped(t) BY <3>2 DEF ReadTripped
      <3>3. CASE CAS(t) BY <3>3 DEF CAS
      <3>4. CASE Respond(t) BY <3>4 DEF Respond
      <3>5. CASE AddFailure(t) BY <3>5 DEF AddFailure
      <3>6. CASE TripOpen(t) BY <3>6 DEF TripOpen
      <3>7. CASE TripStamp(t) BY <3>7 DEF TripStamp
      <3>8. CASE ResetFailures(t) BY <3>8 DEF ResetFailures
      <3>9. CASE StoreClosed(t) BY <3>9 DEF StoreClosed
      <3> QED BY <2>3, <3>1, <3>2, <3>3, <3>4, <3>5, <3>6, <3>7, <3>8, <3>9 DEF RoundTrip
    <2>4. CASE UNCHANGED breakerVars BY <2>4 DEF breakerVars
    <2> QED BY <2>1, <2>2, <2>3, <2>4 DEF BreakerNext
  <1> QED BY <1>1, <1>2

\* When round trips do not overlap, an open circuit stays open, and rejects,
\* until more than the timeout has passed since it tripped.
THEOREM SequentialRejectsForTimeout ==
  ASSUME NEW t, Threads = {t}
  PROVE  BreakerSpec => RejectsForTimeout
  <1>1. SeqInv(t) /\ [BreakerNext]_breakerVars
          => [state = "open" /\ state' # "open" => age > Timeout]_breakerVars
    <2> SUFFICES ASSUME SeqInv(t), BreakerNext, state = "open", state' # "open"
                 PROVE  age > Timeout
      OBVIOUS
    <2> USE DEF SeqInv
    <2>1. RoundTrip(t)
      BY DEF BreakerNext, Tick, Flip
    <2> QED BY <2>1 DEF RoundTrip, Load, ReadTripped, CAS, Respond, AddFailure,
                        TripOpen, TripStamp, ResetFailures, StoreClosed
  <1> QED BY <1>1, SeqStep, PTL DEF BreakerSpec, RejectsForTimeout

\* When round trips do not overlap, a failed half-open probe trips the
\* circuit again at once.
THEOREM SequentialFailedProbeReopens ==
  ASSUME NEW t, Threads = {t}
  PROVE  BreakerSpec => FailedProbeReopens
  <1>1. SeqInv(t) /\ [BreakerNext]_breakerVars => [SoleProbeReopens]_breakerVars
    <2> SUFFICES ASSUME SeqInv(t), BreakerNext, state = "halfOpen", pc[t] = "failed",
                        pc'[t] # "failed"
                 PROVE  pc'[t] = "trip"
      BY DEF SoleProbeReopens
    <2> USE BreakerAssumption DEF SeqInv, BreakerTypeOK, Goto
    <2>1. RoundTrip(t)
      BY DEF BreakerNext, Tick, Flip
    <2>2. AddFailure(t)
      BY <2>1 DEF RoundTrip, Load, ReadTripped, CAS, Respond, TripOpen, TripStamp,
                  ResetFailures, StoreClosed
    <2> QED BY <2>2 DEF AddFailure
  <1> QED BY <1>1, SeqStep, PTL DEF BreakerSpec, FailedProbeReopens

-----------------------------------------------------------------------------
=============================================================================
