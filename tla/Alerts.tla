------------------------------- MODULE Alerts -------------------------------
(***************************************************************************)
(* Alerting: RateLimitedNotifier of internal/alert/ratelimit.go around the *)
(* MultiNotifier of alert.go, as serve.go combines them.  Budget checks    *)
(* and the session tracker call Notify from many goroutines; the test and  *)
(* the update of the table of alert keys are one critical section, the     *)
(* sending to each destination comes after it.                             *)
(*                                                                         *)
(* The HTTP clients have no timeout: a destination that accepts the        *)
(* connection and stays silent keeps the call for good.  The tracker       *)
(* raises its alerts under its own mutex and with a context that never     *)
(* ends; a budget alert ends with the request it was raised for.           *)
(*                                                                         *)
(* Time appears only as ages, capped where they cease to matter.           *)
(***************************************************************************)
EXTENDS Integers

CONSTANTS
    Goroutines,     \* callers of Notify
    AlertKeys,      \* values of alertKey: type and session or API key
    TrackerKeys,    \* those of the session tracker's alerts, loops and ghosts
    N,              \* number of destinations (Slack and webhooks)
    Cooldown,       \* in ticks
    NoEntry         \* no entry of a key, no key

ASSUME AlertsAssumption == /\ N \in Nat \ {0} /\ Cooldown \in Nat \ {0}
                           /\ NoEntry \notin Nat
                           /\ TrackerKeys \subseteq AlertKeys /\ NoEntry \notin AlertKeys

VARIABLES
    seen,       \* seen[k]: age of the entry of k, or NoEntry
    g,          \* g[a]: [pc, key, next], next the destination to try next
    answers,    \* answers[n]: whether destination n accepts, refuses or stays silent
    attempted,  \* history: how long ago an alert with key k was last let through
    delivered   \* history: how long ago one was last accepted by a destination

alertsVars == <<seen, g, answers, attempted, delivered>>

Destinations == 1 .. N
Idle == [pc |-> "idle", key |-> NoEntry, next |-> 1]

AlertsInit ==
    /\ seen = [k \in AlertKeys |-> NoEntry]
    /\ g = [a \in Goroutines |-> Idle]
    /\ answers = [n \in Destinations |-> "accepts"]
    /\ attempted = [k \in AlertKeys |-> Cooldown]
    /\ delivered = [k \in AlertKeys |-> Cooldown]

suppressed(k) == seen[k] # NoEntry /\ seen[k] < Cooldown

\* Faulty: entries are evicted before they are of no more use.
evictedEarly(table) ==
    [k \in AlertKeys |-> IF table[k] # NoEntry /\ 2 * table[k] >= Cooldown THEN NoEntry ELSE table[k]]

evicted(table) ==
    [k \in AlertKeys |-> IF table[k] # NoEntry /\ table[k] > 2 * Cooldown THEN NoEntry ELSE table[k]]

\* The tracker holds its mutex while it raises an alert.
mayRaise(k) == k \in TrackerKeys => \A b \in Goroutines : g[b].key \notin TrackerKeys

\* Faulty: the notifier's mutex is held while the alert is sent.
NotifyLocked(a, k) ==
    /\ g[a].pc = "idle" /\ mayRaise(k)
    /\ \A b \in Goroutines : g[b].pc \notin {"send", "hung"}
    /\ IF suppressed(k)
       THEN /\ g' = [g EXCEPT ![a].key = k, ![a].pc = "suppressed"]
            /\ UNCHANGED <<seen, attempted>>
       ELSE /\ g' = [g EXCEPT ![a].key = k, ![a].pc = "send"]
            /\ seen' = evicted([seen EXCEPT ![k] = 0])
            /\ attempted' = [attempted EXCEPT ![k] = 0]
    /\ UNCHANGED <<answers, delivered>>

\* The critical section of RateLimitedNotifier.Notify.
Notify(a, k) ==
    /\ g[a].pc = "idle" /\ mayRaise(k)
    /\ IF suppressed(k)
       THEN /\ g' = [g EXCEPT ![a].key = k, ![a].pc = "suppressed"]
            /\ UNCHANGED <<seen, attempted>>
       ELSE /\ g' = [g EXCEPT ![a].key = k, ![a].pc = "send"]
            /\ seen' = evicted([seen EXCEPT ![k] = 0])
            /\ attempted' = [attempted EXCEPT ![k] = 0]
    /\ UNCHANGED <<answers, delivered>>

\* Faulty: the first error ends the loop.
afterStop(a, ok) == [g[a] EXCEPT !.next = @ + 1,
                                 !.pc = IF g[a].next = N \/ ~ok THEN "returned" ELSE "send"]

\* MultiNotifier.Notify: with or without an error, the loop goes on.
after(a, ok) == [g[a] EXCEPT !.next = @ + 1,
                             !.pc = IF g[a].next = N THEN "returned" ELSE "send"]

\* A destination that is tried answers.
Send(a) ==
    /\ g[a].pc = "send" /\ answers[g[a].next] # "silent"
    /\ g' = [g EXCEPT ![a] = after(a, answers[g[a].next] = "accepts")]
    /\ delivered' = IF answers[g[a].next] = "accepts" THEN [delivered EXCEPT ![g[a].key] = 0]
                    ELSE delivered
    /\ UNCHANGED <<seen, answers, attempted>>

\* Or it never does.
Hang(a) ==
    /\ g[a].pc = "send" /\ answers[g[a].next] = "silent"
    /\ g' = [g EXCEPT ![a].pc = "hung"]
    /\ UNCHANGED <<seen, answers, attempted, delivered>>

\* The client of a request that raised a budget alert goes away: the request's
\* context ends the call under way and fails those to the other destinations.
Leave(a) ==
    /\ g[a].pc \in {"send", "hung"} /\ g[a].key \notin TrackerKeys
    /\ g' = [g EXCEPT ![a].pc = "left"]
    /\ UNCHANGED <<seen, answers, attempted, delivered>>

\* Every caller ignores the error that is returned.
Return(a) ==
    /\ g[a].pc \in {"suppressed", "returned", "left"}
    /\ g' = [g EXCEPT ![a] = Idle]
    /\ UNCHANGED <<seen, answers, attempted, delivered>>

\* A destination goes down, turns silent or comes back.
Change(n) ==
    /\ \E how \in {"accepts", "refuses", "silent"} : answers' = [answers EXCEPT ![n] = how]
    /\ UNCHANGED <<seen, g, attempted, delivered>>

older(x, cap) == IF x < cap THEN x + 1 ELSE x

AlertsTick ==
    /\ seen' = [k \in AlertKeys |-> IF seen[k] = NoEntry THEN NoEntry ELSE older(seen[k], 2 * Cooldown + 1)]
    /\ attempted' = [k \in AlertKeys |-> older(attempted[k], Cooldown)]
    /\ delivered' = [k \in AlertKeys |-> older(delivered[k], Cooldown)]
    /\ UNCHANGED <<g, answers>>

AlertsNext == \/ \E a \in Goroutines : Send(a) \/ Hang(a) \/ Leave(a) \/ Return(a)
        \/ \E a \in Goroutines, k \in AlertKeys : Notify(a, k)
        \/ \E n \in Destinations : Change(n)
        \/ AlertsTick

AlertsSpec == AlertsInit /\ [][AlertsNext]_alertsVars

\* Time passes, callers run, and what is wrong keeps being reported.  A call
\* returns only if its destination answers: nothing ends one that hangs.
FairAlertsSpec ==
    /\ AlertsSpec
    /\ WF_alertsVars(AlertsTick)
    /\ \A a \in Goroutines : WF_alertsVars(Send(a)) /\ WF_alertsVars(Return(a))
    /\ \A k \in AlertKeys : SF_alertsVars(\E a \in Goroutines : Notify(a, k))

-----------------------------------------------------------------------------
(* Properties.                                                             *)

\* Every variable has its type, and a call whose request is still there ends
\* only after all destinations were tried, however many of them failed.
AlertsTypeOK ==
    /\ seen \in [AlertKeys -> (0 .. 2 * Cooldown + 1) \cup {NoEntry}]
    /\ g \in [Goroutines -> [pc : {"idle", "send", "suppressed", "hung", "left", "returned"},
                             key : AlertKeys \cup {NoEntry}, next : 1 .. N + 1]]
    /\ \A a \in Goroutines : g[a].pc = "returned" => g[a].next = N + 1
    /\ answers \in [Destinations -> {"accepts", "refuses", "silent"}]
    /\ attempted \in [AlertKeys -> 0 .. Cooldown]
    /\ delivered \in [AlertKeys -> 0 .. Cooldown]

\* "The same alert key is suppressed for the cooldown duration", by however
\* many goroutines it is raised and whatever is evicted meanwhile, and no
\* longer.
CooldownExact ==
    [][\A a \in Goroutines : g[a].pc = "idle" =>
         /\ g'[a].pc = "send"       => attempted[g'[a].key] = Cooldown
         /\ g'[a].pc = "suppressed" => attempted[g'[a].key] < Cooldown]_alertsVars

\* A condition that keeps being reported is announced again and again once the
\* destinations work, however often it is reported, and although other calls
\* hang in a destination that was silent before: the table's mutex is not held
\* while an alert is sent.  It takes a caller that does not hang itself, and
\* for the tracker's alerts that none of them hangs, for that call keeps the
\* tracker's mutex for ever.
GetsThrough ==
    \A k \in AlertKeys :
       <>[](/\ \A n \in Destinations : answers[n] = "accepts"
            /\ \A a \in Goroutines : g[a].pc # "left"
            /\ \E a \in Goroutines : g[a].pc # "hung"
            /\ k \in TrackerKeys =>
                 \A a \in Goroutines : g[a].pc = "hung" => g[a].key \notin TrackerKeys)
       => []<>(delivered[k] = 0)
=============================================================================
