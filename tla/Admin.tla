------------------------------- MODULE Admin --------------------------------
(***************************************************************************)
(* The admin API and the key blocklist: internal/admin/handlers.go,        *)
(* store.go and blocklist.go.  Two configuration entries, the budget rules *)
(* and the blocked key patterns, are lists in the admin_config table.  The *)
(* four handlers that change them all do the same: read the list, change   *)
(* it, write it back, and make it effective, without a lock.  Rules become *)
(* effective by UpdateRules of the budget manager, blocked patterns by a   *)
(* refresh of the blocklist, which proxied requests consult and refresh    *)
(* themselves when it is older than its TTL.                               *)
(*                                                                         *)
(* A pattern is the set of API keys its glob matches; a rule is            *)
(* identified with its pattern, and a list is the set of its entries: an   *)
(* entry is removed with all its copies, and nothing here depends on the   *)
(* order (see BudgetRules for the first match).  Time appears only as      *)
(* ages, capped where they cease to matter.                                *)
(***************************************************************************)
EXTENDS Integers

CONSTANTS
    Calls,          \* admin requests under way at the same time
    Requests,       \* proxied requests under way at the same time
    Keys,           \* raw API keys
    Patterns,       \* glob patterns, as sets of keys
    ConfigKeys,     \* the entries that admin requests change
    FileRules,      \* budget.Config.Rules as configured by YAML
    TTL,            \* Blocklist.ttl in ticks
    MaxRead,        \* bound on the ticks a refresh takes
    ReadErrors,     \* whether reads of the table may fail
    WriteErrors,    \* whether writes to it may fail
    Restarts,       \* whether the process may be restarted
    None

Budget  == "budget_rules"
Blocked == "blocked_keys"
Entries == {Budget, Blocked}
Cap     == TTL + MaxRead + 1

ASSUME AdminAssumption ==
    /\ Patterns \subseteq SUBSET Keys
    /\ ConfigKeys \subseteq Entries
    /\ FileRules \subseteq Patterns
    /\ TTL \in Nat /\ MaxRead \in 0 .. TTL
    /\ ReadErrors \in BOOLEAN /\ WriteErrors \in BOOLEAN /\ Restarts \in BOOLEAN
    /\ Calls \cap Requests = {}
    /\ None \notin Entries /\ None \notin 0 .. Cap

VARIABLES
    stored,     \* stored[e]: the list in the table
    rules,      \* the budget manager's rules
    cached,     \* the blocklist: [patterns, age], age since lastLoad
    h,          \* h[a]: the local state of a handler
    acked,      \* history: acked[e][p], what the last answered change of p
                \* promised: "present", "absent", or "unknown"; changes of one
                \* list that overlap, and failed reads of it, promise nothing
    blockedFor, \* history: how long the stored list has been covering a key
    failedFor   \* history: how long ago a refresh last failed to read

vars == <<stored, rules, cached, h, acked, blockedFor, failedFor>>

Actors == Calls \cup Requests

Idle == [pc |-> "idle", entry |-> None, op |-> None, pattern |-> None,
         key |-> None, list |-> {}, age |-> 0,
         alone |-> FALSE]   \* history: no other change of the list overlaps

Unknown == [p \in Patterns |-> "unknown"]

\* NewBlocklist: lastLoad is zero, so the first use loads the list.
NewBlocklist == [patterns |-> {}, age |-> TTL + 1]

Init ==
    /\ stored = [e \in Entries |-> {}]
    /\ rules = FileRules
    /\ cached = NewBlocklist
    /\ h = [a \in Actors |-> Idle]
    /\ acked = [e \in Entries |-> Unknown]
    /\ blockedFor = [k \in Keys |-> None]
    /\ failedFor = Cap

\* GetJSON with its error ignored: a failed read leaves the list empty.
GetJSON(e) == {stored[e]} \cup (IF ReadErrors THEN {{}} ELSE {})

matches(list, k) == \E p \in list : k \in p

-----------------------------------------------------------------------------
(* handleCreateRule, handleDeleteRule, handleBlockKey, handleUnblockKey.   *)

underWay(e) == {d \in Calls : h[d].entry = e}

\* A well-formed request arrives; others are answered 400 and change nothing.
Receive(c) ==
    /\ h[c].pc = "idle"
    /\ \E e \in ConfigKeys, op \in {"add", "remove"}, p \in Patterns :
         /\ h' = [a \in Actors |->
                   IF a = c THEN [Idle EXCEPT !.pc = "get", !.entry = e, !.op = op,
                                              !.pattern = p, !.alone = underWay(e) = {}]
                   ELSE [h[a] EXCEPT !.alone = @ /\ h[a].entry # e]]
         /\ acked' = [acked EXCEPT ![e] = IF underWay(e) # {} THEN Unknown
                                          ELSE [@ EXCEPT ![p] = "unknown"]]
    /\ UNCHANGED <<stored, rules, cached, blockedFor, failedFor>>

added(list, p)   == list \cup {p}
removed(list, p) == list \ {p}

\* The list is read and changed.  Nothing to remove is answered 404.
Get(c) ==
    /\ h[c].pc = "get"
    /\ \E list \in GetJSON(h[c].entry) :
         /\ h' = [h EXCEPT ![c] =
                 IF h[c].op = "add"
                 THEN [@ EXCEPT !.pc = "set", !.list = added(list, h[c].pattern)]
                 ELSE IF h[c].pattern \in list
                 THEN [@ EXCEPT !.pc = "set", !.list = removed(list, h[c].pattern)]
                 ELSE Idle]
         /\ acked' = IF list = stored[h[c].entry] THEN acked
                     ELSE [acked EXCEPT ![h[c].entry] = Unknown]
    /\ UNCHANGED <<stored, rules, cached, blockedFor, failedFor>>

\* SetJSON succeeds.
Set(c) ==
    /\ h[c].pc = "set"
    /\ stored' = [stored EXCEPT ![h[c].entry] = h[c].list]
    /\ h' = [h EXCEPT ![c].pc = IF h[c].entry = Budget THEN "apply" ELSE "load"]
    /\ blockedFor' = IF h[c].entry # Blocked THEN blockedFor
                     ELSE [k \in Keys |-> IF ~matches(h[c].list, k) THEN None
                                          ELSE IF blockedFor[k] = None THEN 0
                                          ELSE blockedFor[k]]
    /\ UNCHANGED <<rules, cached, acked, failedFor>>

\* Faulty: the error of SetJSON is not looked at.
SetErrorIgnored(c) ==
    /\ WriteErrors
    /\ h[c].pc = "set"
    /\ h' = [h EXCEPT ![c].pc = IF h[c].entry = Budget THEN "apply" ELSE "load"]
    /\ UNCHANGED <<stored, rules, cached, acked, blockedFor, failedFor>>

\* SetJSON fails: 500, and nothing becomes effective.
SetError(c) ==
    /\ WriteErrors
    /\ h[c].pc = "set"
    /\ h' = [h EXCEPT ![c] = Idle]
    /\ UNCHANGED <<stored, rules, cached, acked, blockedFor, failedFor>>

\* 201 or 204.
Answer(c) ==
    /\ h' = [h EXCEPT ![c] = Idle]
    /\ acked' = IF ~h[c].alone THEN acked
                ELSE [acked EXCEPT ![h[c].entry][h[c].pattern] =
                        IF h[c].op = "add" THEN "present" ELSE "absent"]

\* UpdateRules of the budget manager.
Apply(c) ==
    /\ h[c].pc = "apply"
    /\ rules' = h[c].list
    /\ Answer(c)
    /\ UNCHANGED <<stored, cached, blockedFor, failedFor>>

-----------------------------------------------------------------------------
(* Blocklist.refresh, for handlers of both kinds.                          *)

Load(a) ==
    /\ h[a].pc = "load"
    /\ \E list \in GetJSON(Blocked) :
         h' = [h EXCEPT ![a].pc = "install", ![a].list = list, ![a].age = 0]
    /\ failedFor' = IF h'[a].list = stored[Blocked] THEN failedFor ELSE 0
    /\ UNCHANGED <<stored, rules, cached, acked, blockedFor>>

Install(a) ==
    /\ h[a].pc = "install"
    /\ cached' = [patterns |-> h[a].list, age |-> 0]
    /\ IF a \in Calls THEN Answer(a)
       ELSE h' = [h EXCEPT ![a].pc = "match", ![a].list = {}] /\ UNCHANGED acked
    /\ UNCHANGED <<stored, rules, blockedFor, failedFor>>

-----------------------------------------------------------------------------
(* IsBlocked, called by the proxy for every request.                       *)

verdict(k) == IF matches(cached.patterns, k) THEN "refused" ELSE "passed"

\* Faulty: only the admin API loads the list.
staleNever == FALSE

stale == cached.age > TTL

IsBlocked(q) ==
    /\ h[q].pc = "idle"
    /\ \E k \in Keys :
         h' = [h EXCEPT ![q].key = k, ![q].pc = IF stale THEN "load" ELSE verdict(k)]
    /\ UNCHANGED <<stored, rules, cached, acked, blockedFor, failedFor>>

\* After the refresh the list is read again, whoever has installed it.
Match(q) ==
    /\ h[q].pc = "match"
    /\ h' = [h EXCEPT ![q].pc = verdict(h[q].key)]
    /\ UNCHANGED <<stored, rules, cached, acked, blockedFor, failedFor>>

\* The request has been refused with 403 or has gone on.
Done(q) ==
    /\ h[q].pc \in {"passed", "refused"}
    /\ h' = [h EXCEPT ![q] = Idle]
    /\ UNCHANGED <<stored, rules, cached, acked, blockedFor, failedFor>>

-----------------------------------------------------------------------------
older(n, cap) == IF n < cap THEN n + 1 ELSE n
refreshing(a) == h[a].pc \in {"install", "match"}

\* Time passes, but no refresh takes longer than MaxRead.
Tick ==
    /\ \A a \in Actors : refreshing(a) => h[a].age < MaxRead
    /\ cached' = [cached EXCEPT !.age = older(@, TTL + 1)]
    /\ h' = [a \in Actors |-> IF refreshing(a) THEN [h[a] EXCEPT !.age = @ + 1] ELSE h[a]]
    /\ blockedFor' = [k \in Keys |-> IF blockedFor[k] = None THEN None
                                     ELSE older(blockedFor[k], Cap)]
    /\ failedFor' = older(failedFor, Cap)
    /\ UNCHANGED <<stored, rules, acked>>

\* runServe on an existing database: the rules come from the YAML file alone.
Restart ==
    /\ Restarts
    /\ rules' = FileRules
    /\ cached' = NewBlocklist
    /\ h' = [a \in Actors |-> Idle]
    /\ UNCHANGED <<stored, acked, blockedFor, failedFor>>

Call(c) == Receive(c) \/ Get(c) \/ Set(c) \/ SetError(c) \/ Apply(c)
Check(q) == IsBlocked(q) \/ Match(q) \/ Done(q)

Next == \/ \E c \in Calls : Call(c)
        \/ \E q \in Requests : Check(q)
        \/ \E a \in Actors : Load(a) \/ Install(a)
        \/ Tick
        \/ Restart

Spec == Init /\ [][Next]_vars

-----------------------------------------------------------------------------
(* Properties.                                                             *)

handler ==
    [pc : {"idle", "get", "set", "apply", "load", "install", "match", "passed", "refused"},
     entry : ConfigKeys \cup {None}, op : {"add", "remove", None},
     pattern : Patterns \cup {None}, key : Keys \cup {None},
     list : SUBSET Patterns, age : 0 .. MaxRead, alone : BOOLEAN]

\* Every variable has its type.
TypeOK ==
    /\ stored \in [Entries -> SUBSET Patterns]
    /\ rules \subseteq Patterns
    /\ cached \in [patterns : SUBSET Patterns, age : 0 .. TTL + 1]
    /\ h \in [Actors -> handler]
    /\ acked \in [Entries -> [Patterns -> {"present", "absent", "unknown"}]]
    /\ blockedFor \in [Keys -> (0 .. Cap) \cup {None}]
    /\ failedFor \in 0 .. Cap

\* However changes, refreshes and restarts interleave, a key that the stored
\* blocklist has been covering for longer than the TTL and one refresh is not
\* let through, unless a refresh failed to read the list meanwhile.
BlockedWithinTTL ==
    [][\A q \in Requests :
         h[q].pc # "passed" /\ h'[q].pc = "passed" =>
            \/ blockedFor[h'[q].key] = None
            \/ blockedFor[h'[q].key] <= TTL + MaxRead
            \/ failedFor <= TTL + MaxRead]_vars

\* What the last answer about a pattern said is what the table holds: after a
\* creation was answered it lists the pattern, after a deletion it does not,
\* until the next request to change the pattern, through failed writes and
\* restarts in the middle of other changes.  Nothing is promised where the
\* handlers promise nothing: when another change of the same list overlaps (no
\* lock spans read and write), or after a read failed (its error is ignored).
\* (Stated of well-typed states.)
AcknowledgedHolds ==
    /\ TypeOK
    /\ \A e \in Entries, p \in Patterns :
         /\ acked[e][p] = "present" => p \in stored[e]
         /\ acked[e][p] = "absent"  => p \notin stored[e]

\* "Runtime rules take effect immediately and persist across restarts": a rule
\* whose creation was answered is enforced by the budget manager, one whose
\* deletion was answered is not.
RulesInForce ==
    \A p \in Patterns :
       /\ acked[Budget][p] = "present" => p \in rules
       /\ acked[Budget][p] = "absent"  => p \notin rules
=============================================================================
