---------------------------- MODULE AgentTracker ----------------------------
(***************************************************************************)
(* Agent session tracking: internal/agent/session.go and detector.go.      *)
(*                                                                         *)
(* The tracker keeps sessions in a map under one mutex.  Proxy handlers    *)
(* call TrackCall or EndSession when a request arrives and RecordCost when *)
(* its response is metered.  A background loop flushes dirty sessions to   *)
(* the store, expires idle ones and looks for ghosts; Close flushes once   *)
(* more, in its own goroutine.  Each critical section is one step; the     *)
(* upserts of a flush happen one by one after the mutex is released.       *)
(***************************************************************************)
EXTENDS Integers, Sequences, FiniteSets

CONSTANTS
    Sessions,           \* session IDs agents may send
    Paths,              \* request paths
    NumRequests,        \* requests that carry a session ID
    Costs,              \* costs of metered responses
    MaxActive,          \* maxActiveSessions (10000 in the code)
    TrimFactor,         \* history kept before trimming, in thresholds (10)
    LoopThreshold, LoopWindow, LoopBlocks,
    SessionTimeout,
    GhostMaxAge, GhostMinCalls, GhostMinCost,
    StoreErrors,        \* whether UpsertSession may fail
    MaxTime,            \* bound on the clock
    Horizon,            \* no request arrives after this time
    None

CallRecord == [at : Nat, path : Paths]
Status     == {"active", "completed"}

TrackedSession ==
    [startedAt : Nat, status : Status, calls : Seq(CallRecord), callCount : Nat, cost : Nat,
     dirty : BOOLEAN, ghostAlerted : BOOLEAN,
     all : Seq(CallRecord),     \* history: every call, trimmed or not
     ghosts : 0 .. 1]           \* history: how often it was reported as a ghost

\* The columns UpsertSession overwrites on conflict.
Row == [status : Status, callCount : Nat, cost : Nat]

Totals == [calls : Nat, cost : Nat]

ASSUME TrackerAssumption ==
    /\ MaxActive \in Nat \ {0} /\ TrimFactor \in Nat \ {0}
    /\ LoopThreshold > 0 \/ GhostMaxAge > 0      \* else the tracker is not Enabled
    /\ LoopThreshold \in Nat /\ LoopWindow \in Nat /\ LoopBlocks \in BOOLEAN
    /\ SessionTimeout \in Nat
    /\ GhostMaxAge \in Nat /\ GhostMinCalls \in Nat /\ GhostMinCost \in Nat
    /\ StoreErrors \in BOOLEAN
    /\ MaxTime \in Nat /\ Horizon \in Nat /\ NumRequests \in Nat
    /\ Costs \subseteq Nat
    /\ None \notin Sessions /\ None \notin TrackedSession /\ None \notin Row

VARIABLES
    now,
    sessions,   \* sessions[s]: the tracked session, or None
    store,      \* store[s]: the persisted row, or None
    pending,    \* pending[f]: rows flush f has taken and not yet upserted
    bg,         \* where the background loop stands
    close,      \* where Close stands
    req,        \* req[r]: where request r stands, and its session
    gauge,      \* the active-sessions gauge of the metrics
    \* history, of the calls and costs of every session ID:
    truth,      \* all calls tracked and all costs metered under it
    before,     \* those of them before the ID was last entered in the map
    short,      \* IDs evicted while dirty, or charged while not in the map
    evicted,    \* IDs evicted and not entered again
    drift,      \* active sessions evicted less ends of sessions already over
    \* history, of the flushes:
    taken,      \* the last row a flush took of the session, or None
    rivals,     \* the rows of it the other flush had not upserted by then
    failed,     \* sessions with a failed upsert since their last row was taken
    due         \* due[s]: what Close has to have stored of s, or None

account == <<truth, before, short, evicted, drift>>
flushes == <<taken, rivals, failed, due>>
vars == <<now, sessions, store, pending, bg, close, req, gauge, account, flushes>>

Flushes == {"bg", "close"}

Tracked == {s \in Sessions : sessions[s] # None}
Active  == {s \in Tracked : sessions[s].status = "active"}

\* Requests are numbered in the order of their arrival.
Requests == 1 .. NumRequests
arrives(r) ==
    /\ req[r].pc = "new" /\ now <= Horizon
    /\ r > 1 => req[r - 1].pc # "new"

row(ts) == [status |-> ts.status, callCount |-> ts.callCount, cost |-> ts.cost]

Init ==
    /\ now = 0
    /\ sessions = [s \in Sessions |-> None]
    /\ store = [s \in Sessions |-> None]
    /\ pending = [f \in Flushes |-> {}]
    /\ bg = "wait"
    /\ close = "new"
    /\ req = [r \in Requests |-> [pc |-> "new", session |-> None, alert |-> FALSE]]
    /\ gauge = 0
    /\ truth = [s \in Sessions |-> [calls |-> 0, cost |-> 0]]
    /\ before = truth
    /\ short = {} /\ evicted = {} /\ drift = 0
    /\ taken = [s \in Sessions |-> None]
    /\ rivals = [s \in Sessions |-> {}]
    /\ failed = {}
    /\ due = [s \in Sessions |-> None]

-----------------------------------------------------------------------------
(* TrackCall.                                                              *)

isDirty(s) == s \in Tracked /\ sessions[s].dirty
isOver(s)  == s \in Tracked /\ sessions[s].status # "active"

NewSession == [startedAt |-> now, status |-> "active", calls |-> <<>>,
               callCount |-> 0, cost |-> 0, dirty |-> FALSE, ghostAlerted |-> FALSE,
               all |-> <<>>, ghosts |-> 0]

lastActivity(ts) == IF ts.calls = <<>> THEN ts.startedAt ELSE ts.calls[Len(ts.calls)].at

\* What evictOldest deletes to make room for s: nothing, or one session with
\* the oldest activity (ties fall to the map's iteration order).
evictOldest(s) ==
    IF s \in Tracked \/ Cardinality(Tracked) < MaxActive THEN {{}}
    ELSE {{v} : v \in {u \in Tracked : \A t \in Tracked :
                          lastActivity(sessions[u]) <= lastActivity(sessions[t])}}

\* The number of calls at the front of the history that are before the cutoff.
trimIdx(calls, cutoff) ==
    CHOOSE n \in 0 .. Len(calls) : /\ \A j \in 1 .. n : calls[j].at < cutoff
                                   /\ n < Len(calls) => calls[n + 1].at >= cutoff

\* Faulty: a call at the very edge of the loop window is cut.
trimEdge(calls) ==
    IF LoopWindow > 0 /\ Len(calls) > LoopThreshold * TrimFactor
    THEN SubSeq(calls, trimIdx(calls, now - LoopWindow + 1) + 1, Len(calls))
    ELSE calls

\* A long history loses its prefix of calls older than the loop window.
trim(calls) ==
    IF LoopWindow > 0 /\ Len(calls) > LoopThreshold * TrimFactor
    THEN SubSeq(calls, trimIdx(calls, now - LoopWindow) + 1, Len(calls))
    ELSE calls

\* CheckLoop: the path has been called LoopThreshold times in the window.
CheckLoop(calls, path) ==
    /\ LoopThreshold > 0 /\ LoopWindow > 0
    /\ Cardinality({i \in 1 .. Len(calls) : calls[i].path = path /\ calls[i].at >= now - LoopWindow})
         >= LoopThreshold

\* The tracked session s after one more call.
called(s, call) ==
    [(IF s \in Tracked THEN sessions[s] ELSE NewSession)
        EXCEPT !.calls = trim(Append(@, call)), !.callCount = @ + 1, !.dirty = TRUE,
               !.all = Append(@, call)]

\* A handler tracks its request; a loop alert turns it away if so configured.
\* A session not in the map starts from nothing, whatever the store has of it.
TrackCall(r, s, path) ==
    LET call  == [at |-> now, path |-> path]
        ts    == called(s, call)
        alert == CheckLoop(ts.calls, path)
        new   == {s} \ Tracked
    IN  /\ arrives(r)
        /\ \E victims \in evictOldest(s) :
              /\ sessions' = [t \in Sessions |->
                     IF t = s THEN ts ELSE IF t \in victims THEN None ELSE sessions[t]]
              /\ short' = (short \cup {v \in victims : isDirty(v)}) \ new
              /\ evicted' = (evicted \cup victims) \ new
              /\ drift' = drift + Cardinality(victims \cap Active)
        /\ gauge' = gauge + (IF s \in new THEN 1 ELSE 0)
        /\ req' = [req EXCEPT ![r] = [pc |-> IF alert /\ LoopBlocks THEN "blocked" ELSE "tracked",
                                      session |-> s, alert |-> alert]]
        /\ truth' = [truth EXCEPT ![s].calls = @ + 1]
        /\ before' = [t \in Sessions |-> IF t \in new THEN truth[t] ELSE before[t]]
        /\ due' = [t \in Sessions |-> IF t \in new THEN None ELSE due[t]]
        /\ UNCHANGED <<now, store, pending, bg, close, taken, rivals, failed>>

\* A session known to the tracker is changed and becomes dirty.
Touch(s, ts) == sessions' = [sessions EXCEPT ![s] = [ts EXCEPT !.dirty = TRUE]]

\* A request with X-Agent-Session-End: the session is completed and leaves the
\* gauge, whatever its status was; the request itself goes on.
EndSession(r, s) ==
    /\ arrives(r)
    /\ req' = [req EXCEPT ![r] = [pc |-> "tracked", session |-> s, alert |-> FALSE]]
    /\ IF s \in Tracked
       THEN /\ Touch(s, [sessions[s] EXCEPT !.status = "completed"])
            /\ gauge' = gauge - 1
            /\ drift' = drift - (IF s \in Active THEN 0 ELSE 1)
       ELSE UNCHANGED <<sessions, gauge, drift>>
    /\ UNCHANGED <<now, store, pending, bg, close, truth, before, short, evicted, flushes>>

\* The response is metered: its cost goes to the session if still in memory,
\* and is discarded otherwise.
RecordCost(r, c) ==
    LET s == req[r].session
    IN  /\ req[r].pc = "tracked"
        /\ req' = [req EXCEPT ![r] = [pc |-> "done", session |-> None, alert |-> FALSE]]
        /\ IF s \in Tracked
           THEN /\ Touch(s, [sessions[s] EXCEPT !.cost = @ + c])
                /\ UNCHANGED short
           ELSE /\ short' = short \cup {s}
                /\ UNCHANGED sessions
        /\ truth' = [truth EXCEPT ![s].cost = @ + c]
        /\ UNCHANGED <<now, store, pending, bg, close, gauge, before, evicted, drift, flushes>>

-----------------------------------------------------------------------------
(* flush, first part: under the mutex, take the dirty sessions, clear      *)
(* their marks and drop the sessions that are over.                        *)

\* Flush f takes the sessions D.
Take(f, D) ==
    /\ pending' = [pending EXCEPT ![f] = {<<s, row(sessions[s])>> : s \in D}]
    /\ taken' = [s \in Sessions |-> IF s \in D THEN row(sessions[s]) ELSE taken[s]]
    /\ rivals' = [s \in Sessions |-> IF s \in D
                      THEN {p[2] : p \in {q \in UNION {pending[g] : g \in Flushes} : q[1] = s}} ELSE rivals[s]]
    /\ failed' = failed \ D

\* What stays in the map, its marks cleared, when the sessions X are deleted.
Sweep(X) ==
    sessions' = [s \in Sessions |-> IF s \notin Tracked \ X THEN None
                                    ELSE [sessions[s] EXCEPT !.dirty = FALSE]]

Dirty == {s \in Sessions : isDirty(s)}
Over  == {s \in Sessions : isOver(s)}

\* Faulty: sessions that are over are dropped before the dirty ones are taken.
FlushDropFirst(f) == Take(f, Dirty \ Over) /\ Sweep(Over)

\* Faulty: sessions that are over stay in the map.
FlushKeepOver(f) == Take(f, Dirty) /\ Sweep({})

FlushTake(f) == Take(f, Dirty) /\ Sweep(Over)

\* Second part, without the mutex: the rows are upserted one by one, in any
\* order; a failed upsert is only logged.
FlushUpsert(f) ==
    /\ \E p \in pending[f] :
         /\ pending' = [pending EXCEPT ![f] = @ \ {p}]
         /\ \/ /\ store' = [store EXCEPT ![p[1]] = p[2]]
               /\ UNCHANGED <<failed, due>>
            \/ /\ StoreErrors
               /\ failed' = failed \cup {p[1]}
               /\ due' = [s \in Sessions |-> IF f = "close" /\ s = p[1] THEN None ELSE due[s]]
               /\ UNCHANGED store
    /\ UNCHANGED <<now, sessions, bg, close, req, gauge, account, taken, rivals>>

-----------------------------------------------------------------------------
(* backgroundLoop: flush, expireIdleSessions, detectGhosts, then wait.     *)

BgFlush ==
    /\ bg = "wait"
    /\ bg' = "flush"
    /\ FlushTake("bg")
    /\ UNCHANGED <<now, store, close, req, gauge, account, due>>

BgUpsert == bg = "flush" /\ FlushUpsert("bg")

idle(s) == now - lastActivity(sessions[s]) > SessionTimeout

\* Faulty: a session that times out stays in the gauge.
expireSilently ==
    LET expired == {s \in Active : SessionTimeout > 0 /\ idle(s)}
    IN  /\ bg = "flush" /\ pending["bg"] = {}
        /\ bg' = "expired"
        /\ sessions' = [s \in Sessions |-> IF s \notin expired THEN sessions[s]
                            ELSE [sessions[s] EXCEPT !.status = "completed", !.dirty = TRUE]]
        /\ UNCHANGED <<now, store, pending, close, req, gauge, account, flushes>>

expireIdleSessions ==
    LET expired == {s \in Active : SessionTimeout > 0 /\ idle(s)}
    IN  /\ bg = "flush" /\ pending["bg"] = {}
        /\ bg' = "expired"
        /\ sessions' = [s \in Sessions |-> IF s \notin expired THEN sessions[s]
                            ELSE [sessions[s] EXCEPT !.status = "completed", !.dirty = TRUE]]
        /\ gauge' = gauge - Cardinality(expired)
        /\ UNCHANGED <<now, store, pending, close, req, account, flushes>>

\* CheckGhost: old enough, busy enough and expensive enough.
CheckGhost(ts) ==
    /\ GhostMaxAge > 0
    /\ now - ts.startedAt >= GhostMaxAge
    /\ ts.callCount >= GhostMinCalls
    /\ ts.cost >= GhostMinCost

detectGhosts ==
    LET found == {s \in Active : ~sessions[s].ghostAlerted /\ CheckGhost(sessions[s])}
    IN  /\ bg = "expired"
        /\ bg' = "wait"
        /\ sessions' = [s \in Sessions |-> IF s \notin found THEN sessions[s]
                            ELSE [sessions[s] EXCEPT !.ghostAlerted = TRUE, !.ghosts = @ + 1]]
        /\ UNCHANGED <<now, store, pending, close, req, gauge, account, flushes>>

\* The loop sees the closed channel (it may take one more tick first).
BgStop ==
    /\ bg = "wait" /\ close # "new"
    /\ bg' = "stopped"
    /\ UNCHANGED <<now, sessions, store, pending, close, req, gauge, account, flushes>>

Background == BgFlush \/ BgUpsert \/ expireIdleSessions \/ detectGhosts \/ BgStop

-----------------------------------------------------------------------------
(* Close, deferred by serve.go, also runs after a shutdown that timed out  *)
(* or a listener that failed, with handlers still under way; it does not   *)
(* wait for the background loop either.                                    *)

\* Close answers for the sessions in the map, but for those of which the
\* background loop has a row on its way, or lost the last one.
CloseFlush ==
    /\ close = "new"
    /\ close' = "flush"
    /\ FlushTake("close")
    /\ due' = [s \in Sessions |->
                  IF /\ s \in Tracked /\ s \notin failed \ Dirty
                     /\ \A p \in pending["bg"] : p[1] # s
                  THEN row(sessions[s]) ELSE None]
    /\ UNCHANGED <<now, store, bg, req, gauge, account>>

CloseUpsert == close = "flush" /\ FlushUpsert("close")

CloseReturn ==
    /\ close = "flush" /\ pending["close"] = {}
    /\ close' = "returned"
    /\ UNCHANGED <<now, sessions, store, pending, bg, req, gauge, account, flushes>>

\* The clock; runServe returns, and the process ends, soon after Close.
Tick ==
    /\ now < MaxTime
    /\ close # "returned"
    /\ now' = now + 1
    /\ UNCHANGED <<sessions, store, pending, bg, close, req, gauge, account, flushes>>

Handle(r) ==
    \/ \E s \in Sessions, p \in Paths : TrackCall(r, s, p)
    \/ \E s \in Sessions : EndSession(r, s)
    \/ \E c \in Costs : RecordCost(r, c)

Next == \/ Background \/ CloseFlush \/ CloseUpsert \/ CloseReturn \/ Tick
        \/ \E r \in Requests : Handle(r)

Spec == Init /\ [][Next]_vars

\* The ticker keeps firing and the background goroutine is scheduled.
FairSpec == Spec /\ WF_vars(Background) /\ WF_vars(Tick)

-----------------------------------------------------------------------------
(* Properties.                                                             *)

\* Every variable has its type, the map never exceeds its capacity, and a
\* session is reported as a ghost at most once.
TypeOK ==
    /\ now \in 0 .. MaxTime
    /\ sessions \in [Sessions -> TrackedSession \cup {None}]
    /\ Cardinality(Tracked) <= MaxActive
    /\ \A s \in Tracked : sessions[s].callCount > 0 /\ sessions[s].startedAt <= now
    /\ store \in [Sessions -> Row \cup {None}]
    /\ pending \in [Flushes -> SUBSET (Sessions \X Row)]
    /\ bg \in {"wait", "flush", "expired", "stopped"}
    /\ close \in {"new", "flush", "returned"}
    /\ req \in [Requests -> [pc : {"new", "tracked", "blocked", "done"},
                             session : Sessions \cup {None}, alert : BOOLEAN]]
    /\ gauge \in Int /\ drift \in Int
    /\ truth \in [Sessions -> Totals] /\ before \in [Sessions -> Totals]
    /\ short \subseteq Sessions /\ evicted \subseteq Sessions /\ failed \subseteq Sessions
    /\ taken \in [Sessions -> Row \cup {None}] /\ due \in [Sessions -> Row \cup {None}]
    /\ rivals \in [Sessions -> SUBSET Row]

\* The row has at least the calls and the cost of the other one.
covers(r, d) == r # None /\ r.callCount >= d.callCount /\ r.cost >= d.cost

\* The row and what came before it are all that was ever metered under the ID.
complete(s, r) ==
    /\ r.callCount + before[s].calls = truth[s].calls
    /\ r.cost + before[s].cost = truth[s].cost

\* The row has nothing that was not metered under the ID, and nothing twice.
true(s, r) == r.callCount <= truth[s].calls /\ r.cost <= truth[s].cost

\* A session in memory has every call and cost since its ID was last entered;
\* so has the last row flushed of a session that left, unless it was evicted
\* while dirty or charged too late.
Complete(s) ==
    /\ s \in Tracked => complete(s, row(sessions[s]))
    /\ s \notin Tracked \cup short =>
          IF taken[s] = None THEN truth[s] = before[s] ELSE complete(s, taken[s])

\* No row counts a call or a cost twice.
NotTwice(s) ==
    /\ s \in Tracked => true(s, row(sessions[s]))
    /\ store[s] # None => true(s, store[s])
    /\ \A f \in Flushes : \A p \in pending[f] : p[1] = s => true(s, p[2])

\* A clean session is as it was flushed; what was flushed last, or the row the
\* other flush held at that moment, is on its way or stored unless an upsert
\* failed.
Saved(s) ==
    /\ s \in Tracked /\ ~isDirty(s) => row(sessions[s]) = taken[s]
    /\ taken[s] # None /\ s \notin failed =>
          \E r \in {taken[s]} \cup rivals[s] : store[s] = r \/ \E f \in Flushes : <<s, r>> \in pending[f]

\* No call and no cost of a session is forgotten, through flushes, timeouts,
\* evictions, failing upserts, Close and handlers that outlive it: it is in
\* memory or in the last row flushed, a clean session's row is stored or on
\* its way, no row counts anything twice, and when Close returns the store has
\* at least the totals Close answers for.  What the code does lose is named:
\* what was metered before an ID was entered again, which the new session's
\* rows overwrite (before); changes no flush had taken when the session was
\* evicted, and costs that come after it left the map (short); rows whose
\* upsert failed (failed); and the newer of two rows that both flushes carry at
\* once, as the older may be stored last (rivals).  (Stated of well-typed
\* states.)
NothingForgotten ==
    /\ TypeOK
    /\ \A s \in Sessions : Complete(s) /\ NotTwice(s) /\ Saved(s)
    /\ close = "returned" => \A s \in Sessions : due[s] # None => covers(store[s], due[s])

\* The gauge of active sessions counts the active sessions, through every
\* order of calls, ends, timeouts, removals and evictions; it drifts only by
\* one per active session evicted (never counted down) and one per end of a
\* session that is already over (counted down twice).
GaugeExact == gauge = Cardinality(Active) + drift

\* Trimming the history never hides a loop nor invents one: a tracked call
\* raises an alert exactly when the full history of the session holds
\* LoopThreshold calls of that path within the window.
LoopExact ==
    [][\A r \in Requests, s \in Sessions :
          LET all    == sessions'[s].all
              n      == IF s \in Tracked THEN Len(sessions[s].all) ELSE 0
          IN  /\ req[r].pc = "new" /\ req'[r].session = s
              /\ sessions'[s] # None /\ Len(all) > n
              => (req'[r].alert <=> CheckLoop(all, all[Len(all)].path))]_vars

\* Until Close stops the loop, an idle session settles: one round expires it
\* and a later one flushes it, so that it leaves memory and is stored as
\* completed, unless it was evicted or its last upsert failed.
IdleSettles ==
    \A s \in Sessions : s \in Tracked ~>
        \/ close # "new"
        \/ s \notin Tracked /\ s \in evicted \cup failed
        \/ s \notin Tracked /\ store[s] # None /\ store[s].status = "completed"
=============================================================================
