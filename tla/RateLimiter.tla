----------------------------- MODULE RateLimiter ----------------------------
(***************************************************************************)
(* The request rate limiter of internal/ratelimit/limiter.go: per API key  *)
(* hash a minute window and an hour window, each a count and an end time,  *)
(* started by the first request after the previous window has ended.       *)
(* Allow and evictExpired each run under the limiter's mutex, so each is   *)
(* one step.                                                               *)
(*                                                                         *)
(* Time is a bounded tick counter; Minute and Hour are the two window      *)
(* lengths in ticks.                                                       *)
(***************************************************************************)
EXTENDS Integers, Sequences, FiniteSets

CONSTANTS
    Keys,           \* raw API keys
    Hashes,         \* their fingerprints
    hash,           \* hash[k]: HashAPIKey, which may map two keys to one
    Default,        \* config.Default: [perMinute, perHour], 0 for no limit
    Rules,          \* config.Rules: [pattern, perMinute, perHour], in order,
                    \* the pattern as the set of raw keys its glob matches
    Minute, Hour,
    MaxTime,        \* bound on the clock
    None

Window == [count : Nat, windowEnd : Nat]

ASSUME LimiterAssumption ==
    /\ hash \in [Keys -> Hashes]
    /\ Default \in [perMinute : Nat, perHour : Nat]
    /\ Rules \in Seq([pattern : SUBSET Keys, perMinute : Nat, perHour : Nat])
    /\ Minute \in Nat \ {0} /\ Hour \in Nat \ {0}
    /\ MaxTime \in Nat
    /\ None \notin Window

VARIABLES
    now,
    minuteCounters, \* minuteCounters[x]: [count, windowEnd] or None
    hourCounters,
    admitted,       \* history: admitted[x], when requests of limited keys were
                    \* let through for hash x, in order
    refused         \* history: the last refusal, [hash, at] or None

\* mergeWithDefault and matchRule: the first matching rule, its missing limits
\* filled from the default.
mergeWithDefault(r) ==
    [perMinute |-> IF r.perMinute <= 0 THEN Default.perMinute ELSE r.perMinute,
     perHour   |-> IF r.perHour <= 0 THEN Default.perHour ELSE r.perHour]
firstFor(k, i) == k \in Rules[i].pattern /\ \A j \in 1 .. i - 1 : k \notin Rules[j].pattern
matchRule(k) ==
    IF \E i \in 1 .. Len(Rules) : firstFor(k, i)
    THEN mergeWithDefault(Rules[CHOOSE i \in 1 .. Len(Rules) : firstFor(k, i)])
    ELSE Default
perMinute == [k \in Keys |-> matchRule(k).perMinute]
perHour   == [k \in Keys |-> matchRule(k).perHour]

vars == <<now, minuteCounters, hourCounters, admitted, refused>>

Times == 0 .. MaxTime

Init ==
    /\ now = 0
    /\ minuteCounters = [x \in Hashes |-> None]
    /\ hourCounters = [x \in Hashes |-> None]
    /\ admitted = [x \in Hashes |-> <<>>]
    /\ refused = None

\* getOrCreateWindow: a window is live until strictly after its end.
window(w, duration) ==
    IF w = None \/ now > w.windowEnd THEN [count |-> 0, windowEnd |-> now + duration] ELSE w

put(counters, x, w) == [counters EXCEPT ![x] = w]
counted(w) == [w EXCEPT !.count = @ + 1]

-----------------------------------------------------------------------------
(* Allow, by outcome.  A window is created even when the request is then   *)
(* refused.                                                                *)

minuteWindow(k) == window(minuteCounters[hash[k]], Minute)
hourWindow(k)   == window(hourCounters[hash[k]], Hour)

\* Faulty: one request too few, one too many.
minuteFullEarly(k) == perMinute[k] > 0 /\ minuteWindow(k).count + 1 >= perMinute[k]
hourFullLate(k)    == perHour[k] > 0 /\ hourWindow(k).count > perHour[k]

minuteFull(k) == perMinute[k] > 0 /\ minuteWindow(k).count >= perMinute[k]
hourFull(k)   == perHour[k] > 0 /\ hourWindow(k).count >= perHour[k]

Refuse(k) == refused' = [hash |-> hash[k], at |-> now]

\* The minute limit refuses: the hour window is not touched.
AllowMinuteFull(k) ==
    /\ minuteFull(k)
    /\ minuteCounters' = put(minuteCounters, hash[k], minuteWindow(k))
    /\ Refuse(k)
    /\ UNCHANGED <<now, hourCounters, admitted>>

\* Faulty: the minute counter is charged before the hour limit is tested.
AllowHourFullCharged(k) ==
    /\ ~minuteFull(k) /\ hourFull(k)
    /\ minuteCounters' = IF perMinute[k] > 0
                         THEN put(minuteCounters, hash[k], counted(minuteWindow(k)))
                         ELSE minuteCounters
    /\ hourCounters' = put(hourCounters, hash[k], hourWindow(k))
    /\ Refuse(k)
    /\ UNCHANGED <<now, admitted>>

\* The hour limit refuses: neither counter is charged.
AllowHourFull(k) ==
    /\ ~minuteFull(k)
    /\ hourFull(k)
    /\ minuteCounters' = IF perMinute[k] > 0
                         THEN put(minuteCounters, hash[k], minuteWindow(k))
                         ELSE minuteCounters
    /\ hourCounters' = put(hourCounters, hash[k], hourWindow(k))
    /\ Refuse(k)
    /\ UNCHANGED <<now, admitted>>

\* Both limits have room: both counters are charged.
AllowPass(k) ==
    /\ perMinute[k] > 0 \/ perHour[k] > 0
    /\ ~minuteFull(k)
    /\ ~hourFull(k)
    /\ minuteCounters' = IF perMinute[k] > 0
                         THEN put(minuteCounters, hash[k], counted(minuteWindow(k)))
                         ELSE minuteCounters
    /\ hourCounters' = IF perHour[k] > 0
                       THEN put(hourCounters, hash[k], counted(hourWindow(k)))
                       ELSE hourCounters
    /\ admitted' = [admitted EXCEPT ![hash[k]] = Append(@, now)]
    /\ UNCHANGED <<now, refused>>

\* A key without limits is let through and leaves no trace.
Allow(k) == AllowMinuteFull(k) \/ AllowHourFull(k) \/ AllowPass(k)

\* Windows that have ended are dropped.
swept(counters) ==
    [x \in Hashes |-> IF counters[x] # None /\ now > counters[x].windowEnd
                      THEN None ELSE counters[x]]

evictExpired ==
    /\ minuteCounters' = swept(minuteCounters)
    /\ hourCounters' = swept(hourCounters)
    /\ UNCHANGED <<now, admitted, refused>>

Tick ==
    /\ now < MaxTime
    /\ now' = now + 1
    /\ UNCHANGED <<minuteCounters, hourCounters, admitted, refused>>

Next == evictExpired \/ Tick \/ \E k \in Keys : Allow(k)

Spec == Init /\ [][Next]_vars

-----------------------------------------------------------------------------
(* Properties.                                                             *)

\* Every variable has its type.
TypeOK ==
    /\ now \in Times
    /\ minuteCounters \in [Hashes -> Window \cup {None}]
    /\ hourCounters \in [Hashes -> Window \cup {None}]
    /\ admitted \in [Hashes -> Seq(Times)]

\* Requests let through for hash x from time a to time b.
passed(x, a, b) == Cardinality({i \in 1 .. Len(admitted[x]) :
                                   a <= admitted[x][i] /\ admitted[x][i] <= b})
allLimited(limit, x) == /\ \E k \in Keys : hash[k] = x
                        /\ \A k \in Keys : hash[k] = x => limit[k] > 0

\* A window counts exactly the requests let through since it began: requests
\* refused by the other limit, new windows and evictions never disturb it.
\* (Stated of well-typed states.)
CountsPassed ==
    /\ TypeOK
    /\ \A x \in Hashes :
          /\ allLimited(perMinute, x) /\ minuteCounters[x] # None =>
               minuteCounters[x].count = passed(x, minuteCounters[x].windowEnd - Minute,
                                                   minuteCounters[x].windowEnd)
          /\ allLimited(perHour, x) /\ hourCounters[x] # None =>
               hourCounters[x].count = passed(x, hourCounters[x].windowEnd - Hour,
                                                 hourCounters[x].windowEnd)

\* What the fixed window guarantees: any stretch of time as long as a window
\* meets at most two windows, so it sees at most twice the largest limit of
\* the keys that share the hash.
TwiceTheLimit ==
    \A x \in Hashes, t \in Times :
       /\ allLimited(perMinute, x) =>
             \E k \in Keys : hash[k] = x /\ passed(x, t, t + Minute) <= 2 * perMinute[k]
       /\ allLimited(perHour, x) =>
             \E k \in Keys : hash[k] = x /\ passed(x, t, t + Hour) <= 2 * perHour[k]

\* Nobody is refused without cause: in the window before the refusal some
\* key of that hash was let through as often as one of its limits allows.
RefusalJustified ==
    refused # None =>
       \E k \in Keys : hash[k] = refused.hash /\
          \/ perMinute[k] > 0 /\ passed(hash[k], refused.at - Minute, refused.at) >= perMinute[k]
          \/ perHour[k] > 0 /\ passed(hash[k], refused.at - Hour, refused.at) >= perHour[k]
=============================================================================
