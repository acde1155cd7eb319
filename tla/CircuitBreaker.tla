--------------------------- MODULE CircuitBreaker ---------------------------
(***************************************************************************)
(* The circuit breaker of internal/budget/circuit_breaker.go: an           *)
(* http.RoundTripper whose state and failure count are two independent     *)
(* atomics and whose trip time is guarded by a mutex.  RoundTrip runs in   *)
(* one goroutine per proxied request; each atomic load, store, add, CAS    *)
(* and each critical section is a step of its own.                         *)
(*                                                                         *)
(* Two exact reductions keep the model finite.  The failure count is only  *)
(* compared with maxFailures and reset, so it saturates there.  The trip   *)
(* time is only compared with the clock, so the model keeps its age, which *)
(* saturates once it exceeds the timeout.                                  *)
(***************************************************************************)
EXTENDS Integers, FiniteSets

CONSTANTS
    Threads,        \* goroutines that call RoundTrip, one request at a time
    MaxFailures,    \* maxFailures
    Timeout         \* timeout, in ticks of the clock

\* serve.go builds the breaker only for max_failures > 0 and replaces a zero
\* timeout by 30 seconds (a negative one would never reject anything).
ASSUME BreakerAssumption ==
    /\ MaxFailures \in Nat \ {0}
    /\ Timeout \in Nat \ {0}

VARIABLES
    state,      \* bt.state
    failures,   \* bt.failures, saturating at MaxFailures
    age,        \* now - bt.lastTripped, saturating at Timeout + 1
    pc,         \* pc[t]: where t's RoundTrip stands
    healthy,    \* whether the upstream answers below 500 (environment)
    overlap,    \* history: threads that were under way at the last trip and
                \* have not returned since
    sinceTrip   \* history: time since the last store of "open", saturating

breakerVars == <<state, failures, age, pc, healthy, overlap, sinceTrip>>

BreakerStates == {"closed", "open", "halfOpen"}
RoundTripPCs == {"idle", "sawOpen", "expired", "upstream",
        "failed", "trip", "stamp", "ok", "close"}

Expired == Timeout + 1
later(a) == IF a < Expired THEN a + 1 ELSE a
underWay == {t \in Threads : pc[t] # "idle"}
Goto(t, label) ==
    /\ pc' = [pc EXCEPT ![t] = label]
    /\ overlap' = IF label = "idle" THEN overlap \ {t} ELSE overlap

\* bt.mu is held across a step only while a trip is being stamped.
LockFree == \A t \in Threads : pc[t] # "stamp"

\* lastTripped is the zero time until the first trip.
BreakerInit ==
    /\ state = "closed"
    /\ failures = 0
    /\ age = Expired
    /\ pc = [t \in Threads |-> "idle"]
    /\ healthy \in BOOLEAN
    /\ overlap = {}
    /\ sinceTrip = Expired

-----------------------------------------------------------------------------
(* allow.                                                                  *)

\* A request arrives and loads the state: closed and half-open admit it.
Load(t) ==
    /\ pc[t] = "idle"
    /\ Goto(t, IF state = "open" THEN "sawOpen" ELSE "upstream")
    /\ UNCHANGED <<state, failures, age, healthy, sinceTrip>>

\* Faulty: the comparison is reversed, the wait is skipped.
ReadTrippedEarly(t) ==
    /\ pc[t] = "sawOpen" /\ LockFree
    /\ Goto(t, IF age <= Timeout THEN "expired" ELSE "idle")
    /\ UNCHANGED <<state, failures, age, healthy, sinceTrip>>

\* Faulty: a rejected request starts the wait anew.
ReadTrippedExtends(t) ==
    /\ pc[t] = "sawOpen" /\ LockFree
    /\ Goto(t, IF age > Timeout THEN "expired" ELSE "idle")
    /\ age' = IF age > Timeout THEN age ELSE 0
    /\ UNCHANGED <<state, failures, healthy, sinceTrip>>

\* Under the mutex: has the timeout passed?  If not, ErrCircuitOpen.
ReadTripped(t) ==
    /\ pc[t] = "sawOpen"
    /\ LockFree
    /\ Goto(t, IF age > Timeout THEN "expired" ELSE "idle")
    /\ UNCHANGED <<state, failures, age, healthy, sinceTrip>>

\* CompareAndSwap(open, halfOpen); its result is ignored.
CAS(t) ==
    /\ pc[t] = "expired"
    /\ state' = IF state = "open" THEN "halfOpen" ELSE state
    /\ Goto(t, "upstream")
    /\ UNCHANGED <<failures, age, healthy, sinceTrip>>

-----------------------------------------------------------------------------
(* RoundTrip, recordFailure, recordSuccess.                                *)

\* The wrapped transport answers: an error or a 5xx counts as a failure.
Respond(t) ==
    /\ pc[t] = "upstream"
    /\ Goto(t, IF healthy THEN "ok" ELSE "failed")
    /\ UNCHANGED <<state, failures, age, healthy, sinceTrip>>

\* Faulty: only a closed circuit trips, so a failed probe changes nothing.
AddFailureWhenClosed(t) ==
    /\ pc[t] = "failed"
    /\ failures' = IF failures < MaxFailures THEN failures + 1 ELSE failures
    /\ Goto(t, IF state = "closed" /\ failures + 1 >= MaxFailures THEN "trip" ELSE "idle")
    /\ UNCHANGED <<state, age, healthy, sinceTrip>>

\* failures.Add(1), and the test of its result.
AddFailure(t) ==
    /\ pc[t] = "failed"
    /\ failures' = IF failures < MaxFailures THEN failures + 1 ELSE failures
    /\ Goto(t, IF failures + 1 >= MaxFailures THEN "trip" ELSE "idle")
    /\ UNCHANGED <<state, age, healthy, sinceTrip>>

\* mu.Lock; state.Store(open) - visible to loads at once ...
TripOpen(t) ==
    /\ pc[t] = "trip"
    /\ LockFree
    /\ state' = "open"
    /\ sinceTrip' = 0
    /\ pc' = [pc EXCEPT ![t] = "stamp"]
    /\ overlap' = underWay
    /\ UNCHANGED <<failures, age, healthy>>

\* Faulty: the trip time is left as it was.
TripUnstamped(t) ==
    /\ pc[t] = "stamp"
    /\ Goto(t, "idle")
    /\ UNCHANGED <<state, failures, age, healthy, sinceTrip>>

\* ... lastTripped = time.Now(); mu.Unlock.
TripStamp(t) ==
    /\ pc[t] = "stamp"
    /\ age' = 0
    /\ Goto(t, "idle")
    /\ UNCHANGED <<state, failures, healthy, sinceTrip>>

\* recordSuccess: failures.Store(0) ...
ResetFailures(t) ==
    /\ pc[t] = "ok"
    /\ failures' = 0
    /\ Goto(t, "close")
    /\ UNCHANGED <<state, age, healthy, sinceTrip>>

\* ... and then state.Store(closed), a second atomic.
StoreClosed(t) ==
    /\ pc[t] = "close"
    /\ state' = "closed"
    /\ Goto(t, "idle")
    /\ UNCHANGED <<failures, age, healthy, sinceTrip>>

-----------------------------------------------------------------------------
(* The environment.                                                        *)

\* One unit of time passes.
Tick ==
    /\ age' = later(age)
    /\ sinceTrip' = later(sinceTrip)
    /\ UNCHANGED <<state, failures, pc, healthy, overlap>>

\* The upstream provider fails or recovers.
Flip ==
    /\ healthy' = ~healthy
    /\ UNCHANGED <<state, failures, age, pc, overlap, sinceTrip>>

RoundTrip(t) ==
    \/ Load(t) \/ ReadTripped(t) \/ CAS(t) \/ Respond(t)
    \/ AddFailure(t) \/ TripOpen(t) \/ TripStamp(t)
    \/ ResetFailures(t) \/ StoreClosed(t)

BreakerNext == Tick \/ Flip \/ \E t \in Threads : RoundTrip(t)

BreakerSpec == BreakerInit /\ [][BreakerNext]_breakerVars

\* Goroutines are scheduled, the transport answers (ResponseHeaderTimeout),
\* clients keep sending requests, and time passes.
Fairness == WF_breakerVars(Tick) /\ \A t \in Threads : WF_breakerVars(RoundTrip(t))
FairBreakerSpec == BreakerSpec /\ Fairness

-----------------------------------------------------------------------------
(* Properties that hold for any number of concurrent requests.             *)

\* Every variable has its type, the failure count its bound.
BreakerTypeOK ==
    /\ state \in BreakerStates
    /\ failures \in 0 .. MaxFailures
    /\ age \in 0 .. Expired
    /\ pc \in [Threads -> RoundTripPCs]
    /\ healthy \in BOOLEAN
    /\ overlap \subseteq Threads
    /\ sinceTrip \in 0 .. Expired

\* Outside the critical section the trip time is never older than the last
\* store of "open": although loads of the state do not take the mutex, a
\* request that sees a trip and then takes the mutex measures the timeout
\* from that trip or a later one.
TimerNotAhead == LockFree => age <= sinceTrip

\* Once the upstream stays healthy the circuit ends up closed for good,
\* whatever late failures, trips and half-open probes were under way.
Recovers == <>[]healthy => <>[](state = "closed")

\* While the upstream stays down the circuit opens again and again: no
\* interleaving leaves it closed or half-open forever.
OutageOpens == <>[](~healthy) => []<>(state = "open")

\* The open circuit lasts for the timeout except where requests overlap: it
\* is left early only by a request that was already under way when it tripped
\* (a late success, or a request that had found an older timeout expired).
OpenLasts ==
    [][state = "open" /\ state' # "open" =>
          age > Timeout \/ \E t \in overlap : pc'[t] # pc[t]]_breakerVars

-----------------------------------------------------------------------------
(* What the documentation says of the breaker; it holds when calls of      *)
(* RoundTrip do not overlap.                                               *)

\* "the circuit opens and rejects requests for TimeoutSecs": it leaves the
\* open state only after the timeout.
RejectsForTimeout == [][state = "open" /\ state' # "open" => age > Timeout]_breakerVars

SoleProbeReopens == \A t \in Threads :
    /\ state = "halfOpen" /\ pc[t] = "failed" /\ pc'[t] # "failed"
    /\ \A u \in Threads \ {t} : pc[u] = "idle"
    => pc'[t] = "trip"

\* "If it fails, the circuit opens again": when the only request under way is
\* a failed probe of a half-open circuit, recording it trips the circuit.
FailedProbeReopens == [][SoleProbeReopens]_breakerVars
=============================================================================
