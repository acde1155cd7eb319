---------------------------- MODULE AdminProofs -----------------------------
(***************************************************************************)
(* What an answer of the admin API is worth and how soon a blocked key is  *)
(* refused, for any number of concurrent admin and proxied requests, any   *)
(* patterns and any TTL.                                                   *)
(***************************************************************************)
EXTENDS Admin, TLAPS

\* Where a handler can be.  Only calls change a list, and only from "get" to
\* the refresh; "apply" belongs to the rules, the refresh of a call to the
\* blocked keys.
CallOK(r) ==
    /\ r.pc \in {"idle", "get", "set", "apply", "load", "install"}
    /\ r.pc = "idle" <=> r.entry = None
    /\ r.alone => r.entry # None
    /\ r.entry # None => r.op \in {"add", "remove"} /\ r.pattern \in Patterns
    /\ r.pc = "apply" => r.entry = Budget
    /\ r.pc \in {"load", "install"} => r.entry = Blocked

RequestOK(r) ==
    /\ r.pc \in {"idle", "load", "install", "match", "passed", "refused"}
    /\ r.entry = None /\ ~r.alone
    /\ r.pc \in {"load", "install", "match"} => r.key \in Keys

HandlerInv == (\A c \in Calls : CallOK(h[c])) /\ (\A q \in Requests : RequestOK(h[q]))

\* A call that is alone is the only one under way for its entry.
AloneInv ==
    \A c, d \in Calls : h[c].alone /\ h[d].entry = h[c].entry => c = d

\* Nothing is promised about the pattern a call is about to change, and
\* nothing at all about a list that overlapping calls change.
PromiseInv ==
    \A c \in Calls : h[c].entry # None =>
       /\ acked[h[c].entry][h[c].pattern] = "unknown"
       /\ ~h[c].alone => \A p \in Patterns : acked[h[c].entry][p] = "unknown"

\* A list with the change that the handler r makes.
changedIn(r, list) == IF r.op = "add" THEN r.pattern \in list ELSE r.pattern \notin list

\* A list that has what entry e promises.
Kept(e, list) == \A p \in Patterns : /\ acked[e][p] = "present" => p \in list
                                     /\ acked[e][p] = "absent" => p \notin list

\* The list a lone call is going to write has its change and every promise;
\* once it is written, the stored list has the change.
Writes(r) ==
    r.alone =>
       /\ r.pc = "set" => changedIn(r, r.list) /\ Kept(r.entry, r.list)
       /\ r.pc \in {"apply", "load", "install"} => changedIn(r, stored[r.entry])

WriteInv == \A c \in Calls : Writes(h[c])

StoredInv == \A e \in Entries : Kept(e, stored[e])

IInv == TypeOK /\ HandlerInv /\ AloneInv /\ PromiseInv /\ WriteInv /\ StoredInv

-----------------------------------------------------------------------------
(* Time.                                                                   *)

\* How long a key may have been covered, or a read may have failed, when the
\* list in hand, as old as n, does not cover it.
Excused(k, n) == blockedFor[k] = None \/ blockedFor[k] <= n \/ failedFor <= n

\* blockedFor says which keys the stored list covers.
CoveredInv == \A k \in Keys : blockedFor[k] = None <=> ~matches(stored[Blocked], k)

\* A list read but not installed is as old as its reader says.
ReadInv ==
    \A a \in Actors : h[a].pc = "install" =>
       \A k \in Keys : matches(h[a].list, k) \/ Excused(k, h[a].age)

\* A list installed may have been read up to MaxRead earlier.
CachedInv ==
    cached.age <= TTL =>
       \A k \in Keys : matches(cached.patterns, k) \/ Excused(k, cached.age + MaxRead)

\* Between its refresh and its verdict, a request sees no older list than its own.
FreshInv == \A q \in Actors : h[q].pc = "match" => cached.age <= h[q].age

TInv == CoveredInv /\ ReadInv /\ CachedInv /\ FreshInv

-----------------------------------------------------------------------------
(* Steps of one handler.                                                   *)

PCs == {"idle", "get", "set", "apply", "load", "install", "match", "passed", "refused"}

\* The local state of a handler after its assignments.
LEMMA Assigned ==
  ASSUME NEW r \in handler, NEW pc \in PCs, NEW list \in SUBSET Patterns,
         NEW age \in 0 .. MaxRead, NEW key \in Keys \cup {None}, NEW b \in BOOLEAN
  PROVE  /\ [r EXCEPT !.pc = pc] \in handler
         /\ [r EXCEPT !.pc = pc, !.list = list] \in handler
         /\ [r EXCEPT !.pc = pc, !.list = list, !.age = age] \in handler
         /\ [r EXCEPT !.pc = pc, !.key = key] \in handler
         /\ [r EXCEPT !.age = age] \in handler
         /\ [r EXCEPT !.alone = b] \in handler
  <1> DEFINE pcs == PCs
  <1>1. handler = [pc : pcs, entry : ConfigKeys \cup {None}, op : {"add", "remove", None},
                   pattern : Patterns \cup {None}, key : Keys \cup {None},
                   list : SUBSET Patterns, age : 0 .. MaxRead, alone : BOOLEAN]
    BY DEF handler, PCs
  <1>2. pc \in pcs
    OBVIOUS
  <1> HIDE DEF pcs
  <1>3. [r EXCEPT !.pc = pc] \in handler
    BY <1>1, <1>2
  <1>4. [r EXCEPT !.pc = pc, !.list = list] \in handler
    BY <1>1, <1>2
  <1>5. [r EXCEPT !.pc = pc, !.list = list, !.age = age] \in handler
    BY <1>1, <1>2
  <1>6. [r EXCEPT !.pc = pc, !.key = key] \in handler
    BY <1>1, <1>2
  <1>7. [r EXCEPT !.age = age] \in handler
    BY <1>1
  <1>8. [r EXCEPT !.alone = b] \in handler
    BY <1>1
  <1> QED BY <1>3, <1>4, <1>5, <1>6, <1>7, <1>8

LEMMA IdleOK == Idle \in handler /\ CallOK(Idle) /\ RequestOK(Idle)
  BY AdminAssumption DEF Idle, handler, CallOK, RequestOK

LEMMA InitIInv == Init => IInv
  <1> SUFFICES ASSUME Init PROVE IInv
    OBVIOUS
  <1> USE AdminAssumption
  <1>2. TypeOK
    <2>1. h \in [Actors -> handler]
      BY IdleOK DEF Init
    <2>2. cached \in [patterns : SUBSET Patterns, age : 0 .. TTL + 1]
      BY DEF Init, NewBlocklist
    <2>3. failedFor \in 0 .. Cap
      BY DEF Init, Cap
    <2>4. acked \in [Entries -> [Patterns -> {"present", "absent", "unknown"}]]
      BY DEF Init, Unknown
    <2> QED BY <2>1, <2>2, <2>3, <2>4 DEF Init, TypeOK
  <1>3. \A a \in Actors : h[a] = Idle
    BY DEF Init
  <1>4. HandlerInv
    BY <1>3, IdleOK DEF HandlerInv, Actors
  <1>5. AloneInv /\ PromiseInv /\ WriteInv
    BY <1>3 DEF AloneInv, PromiseInv, WriteInv, Writes, Idle, Actors
  <1>6. StoredInv
    BY DEF Init, StoredInv, Kept, Unknown
  <1> QED BY <1>2, <1>4, <1>5, <1>6 DEF IInv

\* One handler moves, the others stay where they are.
LEMMA OneMoves ==
  ASSUME IInv, NEW a \in Actors, NEW r \in handler, h' = [h EXCEPT ![a] = r],
         a \in Calls => CallOK(r), a \in Requests => RequestOK(r)
  PROVE  /\ h' \in [Actors -> handler] /\ h'[a] = r
         /\ \A d \in Actors : d # a => h'[d] = h[d]
         /\ HandlerInv'
  <1>1. h \in [Actors -> handler]
    BY DEF IInv, TypeOK
  <1>2. h' \in [Actors -> handler] /\ h'[a] = r /\ \A d \in Actors : d # a => h'[d] = h[d]
    BY <1>1
  <1>3. HandlerInv'
    BY <1>2 DEF IInv, HandlerInv, CallOK, RequestOK, Actors
  <1> QED BY <1>2, <1>3

\* A step that promises no more than before and writes nothing keeps the
\* invariant, if its calls either end or go on with the same change, and the
\* lists they hold are right.
LEMMA Quiet ==
  ASSUME IInv, TypeOK', HandlerInv', UNCHANGED stored,
         \A e \in Entries, p \in Patterns : acked'[e][p] \in {acked[e][p], "unknown"},
         \A c \in Calls :
            \/ h'[c] = Idle
            \/ /\ h'[c].entry = h[c].entry /\ h'[c].op = h[c].op
               /\ h'[c].pattern = h[c].pattern /\ h'[c].alone = h[c].alone
               /\ (h'[c].pc = h[c].pc /\ h'[c].list = h[c].list) \/ Writes(h[c])'
  PROVE  IInv'
  <1>1. Idle.entry = None /\ Idle.alone = FALSE
    BY DEF Idle
  <1>2. AloneInv'
    BY <1>1 DEF IInv, AloneInv, HandlerInv, CallOK
  <1>3. \A c \in Calls : h[c].entry # None => h[c].entry \in Entries /\ h[c].pattern \in Patterns
    BY AdminAssumption DEF IInv, TypeOK, HandlerInv, CallOK, handler, Actors
  <1>4. PromiseInv'
    BY <1>1, <1>3 DEF IInv, PromiseInv
  <1>5. \A e \in Entries : \A list : Kept(e, list) =>
           \A p \in Patterns : /\ acked'[e][p] = "present" => p \in list
                               /\ acked'[e][p] = "absent" => p \notin list
    BY DEF Kept
  <1>6. WriteInv'
    <2> SUFFICES ASSUME NEW c \in Calls PROVE Writes(h[c])'
      BY DEF WriteInv
    <2>1. CASE h'[c] = Idle
      BY <1>1, <2>1 DEF Writes
    <2>2. CASE h'[c] # Idle /\ ~Writes(h[c])'
      <3>1. /\ h'[c].entry = h[c].entry /\ h'[c].op = h[c].op
            /\ h'[c].pattern = h[c].pattern /\ h'[c].alone = h[c].alone
            /\ h'[c].pc = h[c].pc /\ h'[c].list = h[c].list
        BY <2>2
      <3>2. CASE ~h[c].alone
        BY <3>1, <3>2 DEF Writes
      <3>3. CASE h[c].alone
        <4>1. h[c].entry \in Entries /\ Writes(h[c])
          BY <1>3, <3>3 DEF IInv, HandlerInv, CallOK, WriteInv
        <4> QED BY <1>5, <3>1, <3>3, <4>1 DEF Writes, changedIn, Kept
      <3> QED BY <3>2, <3>3
    <2> QED BY <2>1, <2>2
  <1>7. StoredInv'
    BY <1>5 DEF IInv, StoredInv, Kept
  <1> QED BY <1>2, <1>4, <1>6, <1>7 DEF IInv

-----------------------------------------------------------------------------
(* The steps.                                                              *)

LEMMA Fresh ==
  ASSUME NEW e \in ConfigKeys, e # None, NEW op \in {"add", "remove"}, NEW p \in Patterns,
         NEW b \in BOOLEAN
  PROVE  LET r == [Idle EXCEPT !.pc = "get", !.entry = e, !.op = op, !.pattern = p, !.alone = b]
         IN  r \in handler /\ CallOK(r)
  <1> DEFINE r == [Idle EXCEPT !.pc = "get", !.entry = e, !.op = op, !.pattern = p, !.alone = b]
  <1>1. Idle \in handler
    BY IdleOK
  <1>2. /\ r.pc = "get" /\ r.entry = e /\ r.op = op /\ r.pattern = p
        /\ r \in handler
    BY <1>1 DEF handler
  <1>3. CallOK(r)
    BY <1>2 DEF CallOK
  <1> QED BY <1>2, <1>3

LEMMA ReceiveStep ==
  ASSUME IInv, NEW c \in Calls, Receive(c)
  PROVE  IInv'
  <1> USE AdminAssumption
  <1>1. PICK e \in ConfigKeys, op \in {"add", "remove"}, p \in Patterns :
           /\ h' = [a \in Actors |->
                     IF a = c THEN [Idle EXCEPT !.pc = "get", !.entry = e, !.op = op,
                                                !.pattern = p, !.alone = underWay(e) = {}]
                     ELSE [h[a] EXCEPT !.alone = @ /\ h[a].entry # e]]
           /\ acked' = [acked EXCEPT ![e] = IF underWay(e) # {} THEN Unknown
                                            ELSE [@ EXCEPT ![p] = "unknown"]]
    BY DEF Receive
  <1> DEFINE first == underWay(e) = {}
             still(a) == h[a].alone /\ h[a].entry # e
             new == [Idle EXCEPT !.pc = "get", !.entry = e, !.op = op,
                                 !.pattern = p, !.alone = first]
  <1>2. h[c].pc = "idle" /\ UNCHANGED <<stored, rules, cached, blockedFor, failedFor>>
    BY DEF Receive
  <1>3. e \in Entries /\ e # None
    OBVIOUS
  <1>4. h \in [Actors -> handler] /\ c \in Actors
    BY DEF IInv, TypeOK, Actors
  <1>5. new \in handler /\ CallOK(new)
    <2>1. first \in BOOLEAN
      OBVIOUS
    <2> HIDE DEF first
    <2> QED BY <2>1, <1>3, Fresh
  <1>6. ASSUME NEW a \in Actors PROVE [h[a] EXCEPT !.alone = still(a)] \in handler
    <2>1. still(a) \in BOOLEAN /\ h[a] \in handler
      BY <1>4
    <2> HIDE DEF still
    <2>2. "idle" \in PCs /\ {} \in SUBSET Patterns /\ 0 \in 0 .. MaxRead /\ None \in Keys \cup {None}
      BY DEF PCs
    <2> QED BY <2>1, <2>2, Assigned
  <1>7. h' = [a \in Actors |-> IF a = c THEN new ELSE [h[a] EXCEPT !.alone = still(a)]]
    <2>1. ASSUME NEW a \in Actors
          PROVE  [h[a] EXCEPT !.alone = @ /\ h[a].entry # e] = [h[a] EXCEPT !.alone = still(a)]
      OBVIOUS
    <2> QED BY <1>1, <2>1
  <1>8. h' \in [Actors -> handler] /\ h'[c] = new
    <2> HIDE DEF new, still
    <2> QED BY <1>4, <1>5, <1>6, <1>7
  <1>9. /\ h'[c].pc = "get" /\ h'[c].entry = e /\ h'[c].op = op /\ h'[c].pattern = p
        /\ h'[c].alone <=> first
    BY <1>8 DEF Idle
  <1>10. ASSUME NEW d \in Calls, d # c
         PROVE  /\ h'[d].pc = h[d].pc /\ h'[d].entry = h[d].entry /\ h'[d].op = h[d].op
                /\ h'[d].pattern = h[d].pattern /\ h'[d].list = h[d].list
                /\ h'[d].alone <=> h[d].alone /\ h[d].entry # e
    <2>1. h'[d] = [h[d] EXCEPT !.alone = still(d)] /\ h[d] \in handler
      BY <1>4, <1>7, <1>10 DEF Actors
    <2> QED BY <2>1 DEF handler
  <1>11. ASSUME NEW q \in Requests PROVE RequestOK(h[q])'
    <2>1. h'[q] = [h[q] EXCEPT !.alone = still(q)] /\ h[q] \in handler /\ RequestOK(h[q])
      BY <1>4, <1>7 DEF Actors, IInv, HandlerInv
    <2> QED BY <2>1 DEF handler, RequestOK
  <1>12. HandlerInv'
    <2>1. CallOK(h[c])'
      BY <1>5, <1>8 DEF CallOK
    <2>2. ASSUME NEW d \in Calls, d # c PROVE CallOK(h[d])'
      BY <1>10, <2>2 DEF IInv, HandlerInv, CallOK
    <2> QED BY <1>11, <2>1, <2>2 DEF HandlerInv
  <1>13. /\ acked'[e][p] = "unknown"
         /\ ~first => \A x \in Patterns : acked'[e][x] = "unknown"
         /\ \A x \in Patterns : acked'[e][x] \in {acked[e][x], "unknown"}
         /\ \A f \in Entries \ {e} : acked'[f] = acked[f]
         /\ acked' \in [Entries -> [Patterns -> {"present", "absent", "unknown"}]]
    <2>1. acked \in [Entries -> [Patterns -> {"present", "absent", "unknown"}]]
      BY DEF IInv, TypeOK
    <2>2. CASE first
      <3>1. acked' = [acked EXCEPT ![e] = [acked[e] EXCEPT ![p] = "unknown"]]
        BY <1>1, <2>2
      <3> QED BY <1>3, <2>1, <2>2, <3>1
    <2>3. CASE ~first
      <3>1. acked' = [acked EXCEPT ![e] = Unknown]
        BY <1>1, <2>3
      <3> QED BY <1>3, <2>1, <2>3, <3>1 DEF Unknown
    <2> QED BY <2>2, <2>3
  <1>14. \A d \in Calls : h[d].entry = e => ~first
    BY DEF underWay
  <1> HIDE DEF first, new, still
  <1>15. TypeOK'
    BY <1>2, <1>8, <1>13 DEF IInv, TypeOK
  <1>16. AloneInv'
    BY <1>3, <1>9, <1>10, <1>14 DEF IInv, AloneInv
  <1>17. \A d \in Calls : d # c /\ h[d].entry # None =>
                          h[d].entry \in Entries /\ h[d].pattern \in Patterns
    BY <1>4 DEF IInv, HandlerInv, CallOK, handler, Actors
  <1>18. PromiseInv'
    <2> SUFFICES ASSUME NEW d \in Calls, h'[d].entry # None
                 PROVE  /\ acked'[h'[d].entry][h'[d].pattern] = "unknown"
                        /\ ~h'[d].alone => \A x \in Patterns : acked'[h'[d].entry][x] = "unknown"
      BY DEF PromiseInv
    <2>1. CASE d = c
      BY <1>9, <1>13, <2>1
    <2>2. CASE d # c /\ h[d].entry = e
      BY <1>3, <1>10, <1>13, <1>14, <1>17, <2>2
    <2>3. CASE d # c /\ h[d].entry # e
      BY <1>10, <1>13, <1>17, <2>3 DEF IInv, PromiseInv
    <2> QED BY <2>1, <2>2, <2>3
  <1>19. WriteInv'
    <2> SUFFICES ASSUME NEW d \in Calls PROVE Writes(h[d])'
      BY DEF WriteInv
    <2>1. CASE d = c
      BY <1>9, <2>1 DEF Writes
    <2>2. CASE d # c /\ h'[d].alone
      <3>1. /\ h'[d].pc = h[d].pc /\ h'[d].entry = h[d].entry /\ h'[d].op = h[d].op
            /\ h'[d].pattern = h[d].pattern /\ h'[d].list = h[d].list /\ h[d].alone
            /\ h[d].entry # e
        BY <1>10, <2>2
      <3>2. h[d].entry \in Entries
        BY <1>17, <2>2, <3>1 DEF IInv, HandlerInv, CallOK
      <3>3. acked'[h[d].entry] = acked[h[d].entry]
        BY <1>13, <3>1, <3>2
      <3>4. Writes(h[d])
        BY DEF IInv, WriteInv
      <3> QED BY <1>2, <3>1, <3>3, <3>4 DEF Writes, changedIn, Kept
    <2>3. CASE ~h'[d].alone
      BY <2>3 DEF Writes
    <2> QED BY <2>1, <2>2, <2>3
  <1>20. StoredInv'
    BY <1>2, <1>13 DEF IInv, StoredInv, Kept
  <1> QED BY <1>12, <1>15, <1>16, <1>18, <1>19, <1>20 DEF IInv

\* A call under way has an entry, a change and a pattern.
LEMMA UnderWay ==
  ASSUME IInv, NEW c \in Calls, h[c].pc # "idle"
  PROVE  /\ c \in Actors /\ h[c] \in handler /\ CallOK(h[c])
         /\ h[c].entry \in ConfigKeys /\ h[c].entry \in Entries
         /\ h[c].op \in {"add", "remove"} /\ h[c].pattern \in Patterns
         /\ h[c].list \subseteq Patterns
  BY AdminAssumption DEF IInv, TypeOK, HandlerInv, CallOK, handler, Actors

LEMMA GetStep ==
  ASSUME IInv, NEW c \in Calls, Get(c)
  PROVE  IInv'
  <1> USE AdminAssumption
  <1> DEFINE e == h[c].entry  p == h[c].pattern
  <1>1. /\ h[c].pc = "get" /\ UNCHANGED <<stored, rules, cached, blockedFor, failedFor>>
    BY DEF Get
  <1>2. /\ c \in Actors /\ h[c] \in handler /\ CallOK(h[c]) /\ e \in Entries
        /\ h[c].op \in {"add", "remove"} /\ p \in Patterns
    BY <1>1, UnderWay
  <1>3. PICK list \in GetJSON(e) :
           /\ h' = [h EXCEPT ![c] =
                  IF h[c].op = "add"
                  THEN [h[c] EXCEPT !.pc = "set", !.list = added(list, p)]
                  ELSE IF p \in list
                  THEN [h[c] EXCEPT !.pc = "set", !.list = removed(list, p)]
                  ELSE Idle]
           /\ acked' = IF list = stored[e] THEN acked ELSE [acked EXCEPT ![e] = Unknown]
    BY DEF Get
  <1>4. list \subseteq Patterns
    BY <1>2 DEF GetJSON, IInv, TypeOK
  <1>5. PICK r : /\ h' = [h EXCEPT ![c] = r]
                 /\ \/ r = Idle
                    \/ h[c].op = "add" /\ r = [h[c] EXCEPT !.pc = "set", !.list = added(list, p)]
                    \/ h[c].op # "add" /\ r = [h[c] EXCEPT !.pc = "set", !.list = removed(list, p)]
    BY <1>3
  <1> HIDE DEF e, p
  <1>6. /\ added(list, p) \in SUBSET Patterns /\ removed(list, p) \in SUBSET Patterns
        /\ "set" \in PCs /\ 0 \in 0 .. MaxRead /\ None \in Keys \cup {None}
    BY <1>2, <1>4 DEF added, removed, PCs
  <1>7. r \in handler /\ CallOK(r)
    <2>1. CASE r = Idle
      BY <2>1, IdleOK
    <2>2. CASE r # Idle
      <3>1. PICK l \in SUBSET Patterns : r = [h[c] EXCEPT !.pc = "set", !.list = l]
        BY <1>5, <1>6, <2>2
      <3>2. r \in handler
        BY <1>2, <1>6, <3>1, Assigned
      <3>3. CallOK(r)
        BY <1>1, <1>2, <3>1 DEF CallOK, handler
      <3> QED BY <3>2, <3>3
    <2> QED BY <2>1, <2>2
  <1>8. /\ h' \in [Actors -> handler] /\ h'[c] = r
        /\ \A d \in Actors : d # c => h'[d] = h[d]
        /\ HandlerInv'
    BY <1>2, <1>5, <1>7, OneMoves DEF Actors
  <1>9. /\ acked' \in [Entries -> [Patterns -> {"present", "absent", "unknown"}]]
        /\ \A f \in Entries, x \in Patterns : acked'[f][x] \in {acked[f][x], "unknown"}
        /\ list # stored[e] => \A x \in Patterns : acked'[e][x] = "unknown"
    <2>1. acked \in [Entries -> [Patterns -> {"present", "absent", "unknown"}]]
      BY DEF IInv, TypeOK
    <2>2. CASE list = stored[e]
      BY <1>3, <2>1, <2>2 DEF e
    <2>3. CASE list # stored[e]
      <3>1. acked' = [acked EXCEPT ![e] = Unknown]
        BY <1>3, <2>3 DEF e
      <3> QED BY <1>2, <2>1, <2>3, <3>1 DEF Unknown
    <2> QED BY <2>2, <2>3
  <1>10. TypeOK'
    BY <1>1, <1>8, <1>9 DEF IInv, TypeOK
  <1>11. ASSUME r # Idle
         PROVE  /\ r.entry = h[c].entry /\ r.op = h[c].op /\ r.pattern = h[c].pattern
                /\ r.alone = h[c].alone /\ Writes(h[c])'
    <2>1. /\ r.entry = h[c].entry /\ r.op = h[c].op /\ r.pattern = h[c].pattern
          /\ r.alone = h[c].alone /\ r.pc = "set"
          /\ r.list = IF h[c].op = "add" THEN added(list, p) ELSE removed(list, p)
      BY <1>2, <1>5, <1>11 DEF handler
    <2>2. changedIn(r, r.list)
      BY <2>1 DEF changedIn, added, removed, p
    <2>3. ASSUME r.alone
          PROVE  \A x \in Patterns : /\ acked'[e][x] = "present" => x \in r.list
                                     /\ acked'[e][x] = "absent" => x \notin r.list
      <3>1. CASE list # stored[e]
        BY <1>9, <3>1
      <3>2. CASE list = stored[e]
        <4>1. acked[e][p] = "unknown"
          BY <1>1, <1>2 DEF IInv, PromiseInv, e, p
        <4>2. Kept(e, list)
          BY <1>2, <3>2 DEF IInv, StoredInv
        <4>3. acked' = acked
          BY <1>3, <3>2 DEF e
        <4> QED BY <2>1, <4>1, <4>2, <4>3 DEF Kept, added, removed
      <3> QED BY <3>1, <3>2
    <2> QED BY <1>8, <2>1, <2>2, <2>3 DEF Writes, Kept, changedIn, e
  <1>12. ASSUME NEW d \in Calls
         PROVE  \/ h'[d] = Idle
                \/ /\ h'[d].entry = h[d].entry /\ h'[d].op = h[d].op
                   /\ h'[d].pattern = h[d].pattern /\ h'[d].alone = h[d].alone
                   /\ (h'[d].pc = h[d].pc /\ h'[d].list = h[d].list) \/ Writes(h[d])'
    <2>1. CASE d = c
      BY <1>8, <1>11, <2>1
    <2>2. CASE d # c
      BY <1>8, <2>2 DEF Actors
    <2> QED BY <2>1, <2>2
  <1> QED BY <1>1, <1>8, <1>9, <1>10, <1>12, Quiet

\* SetJSON fails, the process restarts, time passes, or a proxied request is
\* checked: calls end or stay as they are.
LEMMA SetErrorStep ==
  ASSUME IInv, NEW c \in Calls, SetError(c)
  PROVE  IInv'
  <1>1. /\ h' = [h EXCEPT ![c] = Idle]
        /\ UNCHANGED <<stored, rules, cached, acked, blockedFor, failedFor>>
    BY DEF SetError
  <1>2. /\ h' \in [Actors -> handler] /\ h'[c] = Idle
        /\ \A d \in Actors : d # c => h'[d] = h[d]
        /\ HandlerInv'
    BY <1>1, IdleOK, OneMoves DEF Actors
  <1>3. TypeOK'
    BY <1>1, <1>2 DEF IInv, TypeOK
  <1>4. \A d \in Calls : h'[d] = Idle \/ h'[d] = h[d]
    BY <1>2 DEF Actors
  <1> QED BY <1>1, <1>2, <1>3, <1>4, Quiet

LEMMA RestartStep ==
  ASSUME IInv, Restart
  PROVE  IInv'
  <1>1. /\ h' = [a \in Actors |-> Idle] /\ rules' = FileRules /\ cached' = NewBlocklist
        /\ UNCHANGED <<stored, acked, blockedFor, failedFor>>
    BY DEF Restart
  <1>2. /\ h' \in [Actors -> handler] /\ \A a \in Actors : h'[a] = Idle
    BY <1>1, IdleOK
  <1>3. HandlerInv'
    BY <1>2, IdleOK DEF HandlerInv, Actors, CallOK, RequestOK
  <1>4. cached' \in [patterns : SUBSET Patterns, age : 0 .. TTL + 1]
    BY <1>1, AdminAssumption DEF NewBlocklist
  <1>5. TypeOK'
    BY <1>1, <1>2, <1>4, AdminAssumption DEF IInv, TypeOK
  <1> QED BY <1>1, <1>2, <1>3, <1>5, Quiet DEF Actors

LEMMA TickStep ==
  ASSUME IInv, Tick
  PROVE  IInv'
  <1> USE AdminAssumption
  <1>1. /\ \A a \in Actors : refreshing(a) => h[a].age < MaxRead
        /\ cached' = [cached EXCEPT !.age = older(@, TTL + 1)]
        /\ h' = [a \in Actors |-> IF refreshing(a) THEN [h[a] EXCEPT !.age = @ + 1] ELSE h[a]]
        /\ blockedFor' = [k \in Keys |-> IF blockedFor[k] = None THEN None
                                         ELSE older(blockedFor[k], Cap)]
        /\ failedFor' = older(failedFor, Cap)
        /\ UNCHANGED <<stored, rules, acked>>
    BY DEF Tick
  <1>2. Cap \in Nat
    BY DEF Cap
  <1>3. \A n \in 0 .. Cap : older(n, Cap) \in 0 .. Cap
    BY <1>2 DEF older
  <1>4. failedFor' \in 0 .. Cap /\ blockedFor' \in [Keys -> (0 .. Cap) \cup {None}]
    BY <1>1, <1>3 DEF IInv, TypeOK
  <1>5. cached' \in [patterns : SUBSET Patterns, age : 0 .. TTL + 1]
    <2>1. cached \in [patterns : SUBSET Patterns, age : 0 .. TTL + 1]
      BY DEF IInv, TypeOK
    <2>2. older(cached.age, TTL + 1) \in 0 .. TTL + 1
      BY <2>1 DEF older
    <2>3. cached' = [cached EXCEPT !.age = older(cached.age, TTL + 1)]
      BY <1>1
    <2> QED BY <2>1, <2>2, <2>3
  <1>6. h \in [Actors -> handler]
    BY DEF IInv, TypeOK
  <1>7. ASSUME NEW a \in Actors, refreshing(a)
        PROVE  [h[a] EXCEPT !.age = h[a].age + 1] \in handler
    <2>1. h[a].age + 1 \in 0 .. MaxRead
      BY <1>1, <1>6, <1>7 DEF handler
    <2>2. "idle" \in PCs /\ {} \in SUBSET Patterns /\ FALSE \in BOOLEAN /\ None \in Keys \cup {None}
      BY DEF PCs
    <2> QED BY <1>6, <2>1, <2>2, Assigned
  <1>8. h' \in [Actors -> handler]
    BY <1>1, <1>6, <1>7
  <1>9. ASSUME NEW a \in Actors
        PROVE  /\ h'[a].pc = h[a].pc /\ h'[a].entry = h[a].entry /\ h'[a].op = h[a].op
               /\ h'[a].pattern = h[a].pattern /\ h'[a].list = h[a].list
               /\ h'[a].alone = h[a].alone /\ h'[a].key = h[a].key
    <2>1. CASE refreshing(a)
      <3>1. h'[a] = [h[a] EXCEPT !.age = h[a].age + 1]
        BY <1>1, <2>1
      <3> QED BY <1>6, <3>1 DEF handler
    <2>2. CASE ~refreshing(a)
      BY <1>1, <2>2
    <2> QED BY <2>1, <2>2
  <1>10. HandlerInv'
    BY <1>9 DEF IInv, HandlerInv, CallOK, RequestOK, Actors
  <1>11. TypeOK'
    BY <1>1, <1>4, <1>5, <1>8 DEF IInv, TypeOK
  <1> QED BY <1>1, <1>9, <1>10, <1>11, Quiet DEF Actors

\* A proxied request moves, or any refresh reads the list.
LEMMA CheckStep ==
  ASSUME IInv, NEW q \in Requests, Check(q)
  PROVE  IInv'
  <1> USE AdminAssumption
  <1>1. UNCHANGED <<stored, rules, cached, acked, blockedFor, failedFor>>
    BY DEF Check, IsBlocked, Match, Done
  <1>2. q \in Actors /\ q \notin Calls /\ h[q] \in handler /\ RequestOK(h[q])
    BY DEF IInv, TypeOK, HandlerInv, Actors
  <1>3. \A k : verdict(k) \in {"passed", "refused"}
    BY DEF verdict
  <1>4. PICK r \in handler : h' = [h EXCEPT ![q] = r] /\ RequestOK(r)
    <2>1. CASE Done(q)
      BY <2>1, IdleOK DEF Done
    <2>2. CASE IsBlocked(q)
      <3>1. PICK k \in Keys : h' = [h EXCEPT ![q].key = k, ![q].pc = IF stale THEN "load" ELSE verdict(k)]
        BY <2>2 DEF IsBlocked
      <3>2. PICK pc \in {"load", "passed", "refused"} : h' = [h EXCEPT ![q].key = k, ![q].pc = pc]
        BY <1>3, <3>1
      <3>3. h' = [h EXCEPT ![q] = [h[q] EXCEPT !.pc = pc, !.key = k]]
        BY <1>2, <3>2 DEF IInv, TypeOK, handler
      <3>4. [h[q] EXCEPT !.pc = pc, !.key = k] \in handler
        <4>1. pc \in PCs /\ {} \in SUBSET Patterns /\ 0 \in 0 .. MaxRead /\ FALSE \in BOOLEAN
          BY DEF PCs
        <4> QED BY <1>2, <4>1, Assigned
      <3>5. RequestOK([h[q] EXCEPT !.pc = pc, !.key = k])
        BY <1>2 DEF RequestOK, handler
      <3> QED BY <3>3, <3>4, <3>5
    <2>3. CASE Match(q)
      <3>1. PICK pc \in {"passed", "refused"} : h' = [h EXCEPT ![q] = [h[q] EXCEPT !.pc = pc]]
        BY <1>3, <2>3 DEF Match
      <3>2. [h[q] EXCEPT !.pc = pc] \in handler
        <4>1. /\ pc \in PCs /\ {} \in SUBSET Patterns /\ 0 \in 0 .. MaxRead /\ FALSE \in BOOLEAN
              /\ None \in Keys \cup {None}
          BY DEF PCs
        <4> QED BY <1>2, <4>1, Assigned
      <3>3. RequestOK([h[q] EXCEPT !.pc = pc])
        BY <1>2 DEF RequestOK, handler
      <3> QED BY <3>1, <3>2, <3>3
    <2> QED BY <2>1, <2>2, <2>3 DEF Check
  <1>5. /\ h' \in [Actors -> handler] /\ \A d \in Actors : d # q => h'[d] = h[d]
        /\ HandlerInv'
    BY <1>2, <1>4, OneMoves
  <1>6. TypeOK'
    BY <1>1, <1>5 DEF IInv, TypeOK
  <1> QED BY <1>1, <1>2, <1>5, <1>6, Quiet DEF Actors

LEMMA LoadStep ==
  ASSUME IInv, NEW a \in Actors, Load(a)
  PROVE  IInv'
  <1> USE AdminAssumption
  <1>1. h[a].pc = "load" /\ UNCHANGED <<stored, rules, cached, acked, blockedFor>>
    BY DEF Load
  <1>2. PICK list \in GetJSON(Blocked) :
           h' = [h EXCEPT ![a].pc = "install", ![a].list = list, ![a].age = 0]
    BY DEF Load
  <1>3. list \in SUBSET Patterns
    BY DEF GetJSON, IInv, TypeOK, Entries
  <1>4. h[a] \in handler /\ HandlerInv
    BY DEF IInv, TypeOK
  <1> DEFINE r == [h[a] EXCEPT !.pc = "install", !.list = list, !.age = 0]
  <1>5. h' = [h EXCEPT ![a] = r]
    BY <1>2, <1>4 DEF IInv, TypeOK, handler
  <1>6. r \in handler
    <2>1. "install" \in PCs /\ 0 \in 0 .. MaxRead /\ FALSE \in BOOLEAN /\ None \in Keys \cup {None}
      BY DEF PCs
    <2> QED BY <1>3, <1>4, <2>1, Assigned
  <1>7. /\ r.pc = "install" /\ r.entry = h[a].entry /\ r.op = h[a].op
        /\ r.pattern = h[a].pattern /\ r.alone = h[a].alone /\ r.key = h[a].key
    BY <1>4 DEF handler
  <1> HIDE DEF r
  <1>8. (a \in Calls => CallOK(r)) /\ (a \in Requests => RequestOK(r))
    BY <1>1, <1>4, <1>7 DEF HandlerInv, CallOK, RequestOK
  <1>9. /\ h' \in [Actors -> handler] /\ h'[a] = r
        /\ \A d \in Actors : d # a => h'[d] = h[d]
        /\ HandlerInv'
    BY <1>5, <1>6, <1>8, OneMoves
  <1>10. failedFor' \in 0 .. Cap
    BY DEF Load, IInv, TypeOK, Cap
  <1>11. TypeOK'
    BY <1>1, <1>9, <1>10 DEF IInv, TypeOK
  <1>12. ASSUME a \in Calls PROVE Writes(h[a])'
    <2>1. Writes(h[a])
      BY <1>12 DEF IInv, WriteInv
    <2> QED BY <1>1, <1>7, <1>9, <2>1 DEF Writes, changedIn
  <1> QED BY <1>1, <1>7, <1>9, <1>11, <1>12, Quiet DEF Actors

\* The list of entry e is written.  A lone call writes what is promised, and
\* nothing is promised about a list that overlapping calls write.
LEMMA SetStep ==
  ASSUME IInv, NEW c \in Calls, Set(c)
  PROVE  IInv'
  <1> USE AdminAssumption
  <1> DEFINE e == h[c].entry
  <1>1. /\ h[c].pc = "set" /\ stored' = [stored EXCEPT ![e] = h[c].list]
        /\ UNCHANGED <<rules, cached, acked, failedFor>>
    BY DEF Set
  <1>2. /\ c \in Actors /\ h[c] \in handler /\ CallOK(h[c]) /\ e \in Entries
        /\ h[c].op \in {"add", "remove"} /\ h[c].pattern \in Patterns
        /\ h[c].list \subseteq Patterns
    BY <1>1, UnderWay
  <1>3. PICK pc \in {"apply", "load"} : /\ h' = [h EXCEPT ![c] = [h[c] EXCEPT !.pc = pc]]
                                        /\ pc = IF e = Budget THEN "apply" ELSE "load"
    BY DEF Set
  <1> DEFINE r == [h[c] EXCEPT !.pc = pc]
  <1>4. r \in handler
    <2>1. /\ pc \in PCs /\ {} \in SUBSET Patterns /\ 0 \in 0 .. MaxRead /\ FALSE \in BOOLEAN
          /\ None \in Keys \cup {None}
      BY DEF PCs
    <2> QED BY <1>2, <2>1, Assigned
  <1>5. /\ r.pc = pc /\ r.entry = e /\ r.op = h[c].op /\ r.pattern = h[c].pattern
        /\ r.alone = h[c].alone /\ r.list = h[c].list
    BY <1>2 DEF handler
  <1> HIDE DEF r
  <1>6. CallOK(r)
    BY <1>1, <1>2, <1>3, <1>5 DEF CallOK, Entries
  <1>7. /\ h' \in [Actors -> handler] /\ h'[c] = r
        /\ \A d \in Actors : d # c => h'[d] = h[d]
        /\ HandlerInv'
    <2>1. h' = [h EXCEPT ![c] = r]
      BY <1>3 DEF r
    <2> QED BY <1>2, <1>4, <1>6, <2>1, OneMoves DEF Actors
  <1>8. /\ stored' \in [Entries -> SUBSET Patterns] /\ stored'[e] = h[c].list
        /\ \A f \in Entries : f # e => stored'[f] = stored[f]
    BY <1>1, <1>2 DEF IInv, TypeOK
  <1>9. blockedFor' \in [Keys -> (0 .. Cap) \cup {None}]
    <2>1. blockedFor \in [Keys -> (0 .. Cap) \cup {None}] /\ 0 \in 0 .. Cap
      BY DEF IInv, TypeOK, Cap
    <2> QED BY <2>1 DEF Set
  <1>10. TypeOK'
    BY <1>1, <1>7, <1>8, <1>9 DEF IInv, TypeOK
  <1> HIDE DEF e
  <1>11. ASSUME NEW d \in Calls
         PROVE  /\ h'[d].entry = h[d].entry /\ h'[d].op = h[d].op
                /\ h'[d].pattern = h[d].pattern /\ h'[d].alone = h[d].alone
                /\ h'[d].list = h[d].list
    BY <1>5, <1>7 DEF Actors, e
  <1>12. AloneInv' /\ PromiseInv'
    BY <1>1, <1>11 DEF IInv, AloneInv, PromiseInv
  <1>13. WriteInv'
    <2> SUFFICES ASSUME NEW d \in Calls, h[d].alone PROVE Writes(h[d])'
      BY <1>11 DEF WriteInv, Writes
    <2>1. CASE d = c
      <3>1. changedIn(h[c], h[c].list)
        BY <1>1, <2>1 DEF IInv, WriteInv, Writes
      <3> QED BY <1>3, <1>5, <1>7, <1>8, <2>1, <3>1 DEF Writes, changedIn
    <2>2. CASE d # c
      <3>1. h[d].entry # e /\ h'[d] = h[d] /\ Writes(h[d])
        BY <1>7, <2>2 DEF IInv, AloneInv, WriteInv, e, Actors
      <3>2. h[d].entry \in Entries
        BY DEF IInv, TypeOK, HandlerInv, CallOK, handler, Actors
      <3> QED BY <1>1, <1>8, <3>1, <3>2 DEF Writes, changedIn, Kept
    <2> QED BY <2>1, <2>2
  <1>14. StoredInv'
    <2> SUFFICES ASSUME NEW f \in Entries PROVE Kept(f, stored[f])'
      BY DEF StoredInv
    <2>1. CASE f # e
      BY <1>1, <1>8, <2>1 DEF IInv, StoredInv, Kept
    <2>2. CASE f = e /\ h[c].alone
      <3>1. Kept(e, h[c].list)
        BY <1>1, <2>2 DEF IInv, WriteInv, Writes, e
      <3> QED BY <1>1, <1>8, <2>2, <3>1 DEF Kept
    <2>3. CASE f = e /\ ~h[c].alone
      <3>1. \A p \in Patterns : acked[e][p] = "unknown"
        BY <1>2, <2>3 DEF IInv, PromiseInv, e
      <3> QED BY <1>1, <2>3, <3>1 DEF Kept
    <2> QED BY <2>1, <2>2, <2>3
  <1> QED BY <1>7, <1>10, <1>12, <1>13, <1>14 DEF IInv

\* A call is answered after its write.  The answer of a lone call promises its
\* change, which is in the stored list.
LEMMA AnswerStep ==
  ASSUME IInv, NEW c \in Calls, h[c].pc \in {"apply", "install"}, Answer(c),
         UNCHANGED <<stored, blockedFor, failedFor>>,
         rules' \subseteq Patterns, cached' \in [patterns : SUBSET Patterns, age : 0 .. TTL + 1]
  PROVE  IInv'
  <1> USE AdminAssumption
  <1> DEFINE e == h[c].entry  p == h[c].pattern
  <1>1. /\ c \in Actors /\ h[c] \in handler /\ CallOK(h[c]) /\ e \in Entries
        /\ h[c].op \in {"add", "remove"} /\ p \in Patterns
    BY UnderWay
  <1>2. /\ h' \in [Actors -> handler] /\ h'[c] = Idle
        /\ \A d \in Actors : d # c => h'[d] = h[d]
        /\ HandlerInv'
    BY <1>1, IdleOK, OneMoves DEF Answer
  <1>3. CASE ~h[c].alone
    <2>1. acked' = acked
      BY <1>3 DEF Answer
    <2>2. TypeOK'
      BY <1>2, <2>1 DEF IInv, TypeOK
    <2>3. \A d \in Calls : h'[d] = Idle \/ h'[d] = h[d]
      BY <1>2 DEF Actors
    <2> QED BY <1>2, <2>1, <2>2, <2>3, Quiet
  <1>4. CASE h[c].alone
    <2> DEFINE v == IF h[c].op = "add" THEN "present" ELSE "absent"
    <2>1. acked' = [acked EXCEPT ![e] = [acked[e] EXCEPT ![p] = v]]
      BY <1>4 DEF Answer
    <2>2. v \in {"present", "absent"}
      OBVIOUS
    <2> HIDE DEF e, p, v
    <2>3. /\ acked' \in [Entries -> [Patterns -> {"present", "absent", "unknown"}]]
          /\ acked'[e][p] = v
          /\ \A x \in Patterns : x # p => acked'[e][x] = acked[e][x]
          /\ \A f \in Entries : f # e => acked'[f] = acked[f]
      BY <1>1, <2>1, <2>2 DEF IInv, TypeOK
    <2>4. TypeOK'
      BY <1>2, <2>3 DEF IInv, TypeOK
    <2>5. Idle.entry = None /\ Idle.alone = FALSE
      BY DEF Idle
    <2>6. AloneInv'
      BY <1>2, <2>5 DEF IInv, AloneInv, HandlerInv, CallOK, Actors
    <2>7. ASSUME NEW d \in Calls, d # c
          PROVE  /\ h'[d] = h[d] /\ h[d].entry # e
                 /\ h[d].entry # None => acked'[h[d].entry] = acked[h[d].entry]
      <3>1. h'[d] = h[d] /\ h[d].entry # e
        BY <1>2, <1>4, <2>7 DEF IInv, AloneInv, e, Actors
      <3>2. h[d].entry # None => h[d].entry \in Entries
        BY DEF IInv, TypeOK, handler, Actors
      <3> QED BY <2>3, <3>1, <3>2
    <2>8. PromiseInv'
      BY <1>2, <2>5, <2>7 DEF IInv, PromiseInv
    <2>9. WriteInv'
      <3> SUFFICES ASSUME NEW d \in Calls PROVE Writes(h[d])'
        BY DEF WriteInv
      <3>1. CASE d = c
        BY <1>2, <2>5, <3>1 DEF Writes
      <3>2. CASE d # c
        <4>1. h[d].alone => h[d].entry # None
          BY DEF IInv, HandlerInv, CallOK
        <4>2. Writes(h[d])
          BY DEF IInv, WriteInv
        <4> QED BY <2>7, <3>2, <4>1, <4>2 DEF Writes, changedIn, Kept
      <3> QED BY <3>1, <3>2
    <2>10. StoredInv'
      <3> SUFFICES ASSUME NEW f \in Entries PROVE Kept(f, stored[f])'
        BY DEF StoredInv
      <3>1. Kept(f, stored[f])
        BY DEF IInv, StoredInv
      <3>2. CASE f # e
        BY <2>3, <3>1, <3>2 DEF Kept
      <3>3. CASE f = e
        <4>1. IF h[c].op = "add" THEN p \in stored[e] ELSE p \notin stored[e]
          BY <1>4 DEF IInv, WriteInv, Writes, changedIn, e, p
        <4> QED BY <2>3, <3>1, <3>3, <4>1 DEF Kept, v
      <3> QED BY <3>2, <3>3
    <2> QED BY <1>2, <2>4, <2>6, <2>8, <2>9, <2>10 DEF IInv
  <1> QED BY <1>3, <1>4

LEMMA ApplyStep ==
  ASSUME IInv, NEW c \in Calls, Apply(c)
  PROVE  IInv'
  <1>1. h[c].pc = "apply" /\ rules' = h[c].list /\ Answer(c)
        /\ UNCHANGED <<stored, cached, blockedFor, failedFor>>
    BY DEF Apply
  <1>2. rules' \subseteq Patterns
    BY <1>1, UnderWay
  <1>3. cached' \in [patterns : SUBSET Patterns, age : 0 .. TTL + 1]
    BY <1>1 DEF IInv, TypeOK
  <1> QED BY <1>1, <1>2, <1>3, AnswerStep

LEMMA InstallStep ==
  ASSUME IInv, NEW a \in Actors, Install(a)
  PROVE  IInv'
  <1> USE AdminAssumption
  <1>1. /\ h[a].pc = "install" /\ cached' = [patterns |-> h[a].list, age |-> 0]
        /\ UNCHANGED <<stored, rules, blockedFor, failedFor>>
    BY DEF Install
  <1>2. h[a] \in handler
    BY DEF IInv, TypeOK
  <1>3. cached' \in [patterns : SUBSET Patterns, age : 0 .. TTL + 1]
    BY <1>1, <1>2 DEF handler
  <1>4. CASE a \in Calls
    <2>1. rules' \subseteq Patterns
      BY <1>1 DEF IInv, TypeOK
    <2>2. Answer(a)
      BY <1>4 DEF Install
    <2> QED BY <1>1, <1>3, <1>4, <2>1, <2>2, AnswerStep
  <1>5. CASE a \notin Calls
    <2> DEFINE r == [h[a] EXCEPT !.pc = "match", !.list = {}]
    <2>1. acked' = acked /\ h' = [h EXCEPT ![a] = r]
      BY <1>2, <1>5 DEF Install, IInv, TypeOK, handler
    <2>2. r \in handler
      <3>1. /\ "match" \in PCs /\ {} \in SUBSET Patterns /\ 0 \in 0 .. MaxRead
            /\ FALSE \in BOOLEAN /\ None \in Keys \cup {None}
        BY DEF PCs
      <3> QED BY <1>2, <3>1, Assigned
    <2>3. RequestOK(h[a])
      BY <1>5 DEF IInv, HandlerInv, Actors
    <2>4. RequestOK(r)
      BY <1>1, <1>2, <2>3 DEF RequestOK, handler
    <2> HIDE DEF r
    <2>5. /\ h' \in [Actors -> handler] /\ \A d \in Actors : d # a => h'[d] = h[d]
          /\ HandlerInv'
      BY <1>5, <2>1, <2>2, <2>4, OneMoves
    <2>6. TypeOK'
      BY <1>1, <1>3, <2>1, <2>5 DEF IInv, TypeOK
    <2>7. \A d \in Calls : h'[d] = h[d]
      BY <1>5, <2>5 DEF Actors
    <2> QED BY <1>1, <2>1, <2>5, <2>6, <2>7, Quiet
  <1> QED BY <1>4, <1>5

LEMMA IInvStep == IInv /\ [Next]_vars => IInv'
  <1> SUFFICES ASSUME IInv, [Next]_vars PROVE IInv'
    OBVIOUS
  <1>1. ASSUME NEW c \in Calls, Call(c) PROVE IInv'
    BY <1>1, ReceiveStep, GetStep, SetStep, SetErrorStep, ApplyStep DEF Call
  <1>2. ASSUME NEW q \in Requests, Check(q) PROVE IInv'
    BY <1>2, CheckStep
  <1>3. ASSUME NEW a \in Actors, Load(a) \/ Install(a) PROVE IInv'
    BY <1>3, LoadStep, InstallStep
  <1>4. CASE Tick
    BY <1>4, TickStep
  <1>5. CASE Restart
    BY <1>5, RestartStep
  <1>6. CASE UNCHANGED vars
    BY <1>6 DEF vars, IInv, TypeOK, HandlerInv, CallOK, RequestOK, AloneInv, PromiseInv,
                WriteInv, Writes, changedIn, Kept, StoredInv
  <1> QED BY <1>1, <1>2, <1>3, <1>4, <1>5, <1>6 DEF Next

\* What every reachable state of the API, its store and the blocklist cache
\* satisfies (admin/handlers.go, store.go, blocklist.go).
THEOREM AdminInvariant == Spec => []IInv
  BY InitIInv, IInvStep, PTL DEF Spec

\* What the last answer of handleCreateRule, handleDeleteRule, handleBlockKey
\* or handleUnblockKey about a pattern said is what the table holds, for any
\* number of concurrent requests, any patterns, failed reads and writes, and
\* restarts between any two steps; overlapping changes and failed reads are
\* the only exceptions.
THEOREM AdminAcknowledgedHolds == Spec => []AcknowledgedHolds
  <1>1. IInv => AcknowledgedHolds
    BY DEF IInv, StoredInv, Kept, AcknowledgedHolds
  <1> QED BY <1>1, AdminInvariant, PTL

-----------------------------------------------------------------------------
(* How soon a blocked key is refused.                                      *)

LEMMA InitTInv == Init => TInv
  <1> SUFFICES ASSUME Init PROVE TInv
    OBVIOUS
  <1>1. \A a \in Actors : h[a].pc = "idle"
    BY DEF Init, Idle
  <1>2. \A k \in Keys : blockedFor[k] = None /\ ~matches(stored[Blocked], k)
    BY DEF Init, matches, Entries
  <1>3. CachedInv
    BY <1>2 DEF CachedInv, Excused
  <1> QED BY <1>1, <1>2, <1>3 DEF TInv, CoveredInv, ReadInv, FreshInv

\* A step keeps the facts about time when no age changes, the cached list is
\* the same, and a list read or about to be matched was so before.
LEMMA Timeless ==
  ASSUME TInv, UNCHANGED <<stored, cached, blockedFor, failedFor>>,
         \A a \in Actors :
            h'[a].pc \in {"install", "match"} =>
               h'[a].pc = h[a].pc /\ h'[a].list = h[a].list /\ h'[a].age = h[a].age
  PROVE  TInv'
  <1>1. \A k, n : Excused(k, n)' <=> Excused(k, n)
    BY DEF Excused
  <1>2. CoveredInv' /\ CachedInv'
    BY DEF TInv, CoveredInv, CachedInv, Excused, matches
  <1>3. ReadInv'
    BY <1>1 DEF TInv, ReadInv, Excused, matches
  <1>4. FreshInv'
    BY DEF TInv, FreshInv
  <1> QED BY <1>2, <1>3, <1>4 DEF TInv

\* A write of the blocked keys starts the time of the keys newly covered.
LEMMA SetTime ==
  ASSUME IInv, TInv, NEW c \in Calls, Set(c)
  PROVE  TInv'
  <1> USE AdminAssumption
  <1>1. /\ h[c].pc = "set" /\ stored' = [stored EXCEPT ![h[c].entry] = h[c].list]
        /\ h' = [h EXCEPT ![c].pc = IF h[c].entry = Budget THEN "apply" ELSE "load"]
        /\ UNCHANGED <<rules, cached, acked, failedFor>>
    BY DEF Set
  <1>2. /\ c \in Actors /\ h[c] \in handler /\ h[c].entry \in Entries
        /\ h \in [Actors -> handler]
    BY <1>1, UnderWay DEF IInv, TypeOK
  <1>3. /\ \A a \in Actors : a # c => h'[a] = h[a]
        /\ h'[c].pc \notin {"install", "match"}
    BY <1>1, <1>2 DEF handler
  <1>4. CASE h[c].entry # Blocked
    <2>1. UNCHANGED <<stored[Blocked], blockedFor>>
      BY <1>1, <1>2, <1>4 DEF Set, IInv, TypeOK, Entries
    <2>2. CoveredInv' /\ CachedInv'
      BY <1>1, <2>1 DEF TInv, CoveredInv, CachedInv, Excused, matches
    <2>3. ReadInv' /\ FreshInv'
      BY <1>1, <1>3, <2>1 DEF TInv, ReadInv, FreshInv, Excused, matches
    <2> QED BY <2>2, <2>3 DEF TInv
  <1>5. CASE h[c].entry = Blocked
    <2>1. stored'[Blocked] = h[c].list
      BY <1>1, <1>2, <1>5 DEF IInv, TypeOK
    <2>2. \A k \in Keys :
             blockedFor'[k] = IF ~matches(h[c].list, k) THEN None
                              ELSE IF blockedFor[k] = None THEN 0 ELSE blockedFor[k]
      BY <1>5 DEF Set
    <2>3. CoveredInv'
      <3>1. 0 # None
        BY DEF Cap
      <3> QED BY <2>1, <2>2, <3>1 DEF CoveredInv, matches
    <2>4. \A k \in Keys, n \in Nat : Excused(k, n) => Excused(k, n)'
      BY <1>1, <2>2 DEF Excused
    <2>5. ReadInv'
      <3> SUFFICES ASSUME NEW a \in Actors, h'[a].pc = "install", NEW k \in Keys
                   PROVE  matches(h[a].list, k)' \/ Excused(k, h[a].age)'
        BY DEF ReadInv
      <3>1. h'[a] = h[a] /\ h[a].age \in Nat
        BY <1>2, <1>3 DEF handler
      <3>2. matches(h[a].list, k) \/ Excused(k, h[a].age)
        BY <3>1 DEF TInv, ReadInv
      <3> QED BY <2>4, <3>1, <3>2 DEF matches, Excused
    <2>6. CachedInv'
      <3>1. cached.age + MaxRead \in Nat
        BY DEF IInv, TypeOK
      <3> QED BY <1>1, <2>4, <3>1 DEF TInv, CachedInv, matches, Excused
    <2>7. FreshInv'
      BY <1>1, <1>3 DEF TInv, FreshInv
    <2> QED BY <2>3, <2>5, <2>6, <2>7 DEF TInv
  <1> QED BY <1>4, <1>5

\* A refresh has read the list: the keys it does not cover are not covered by
\* the table, or the read has just failed.
LEMMA LoadTime ==
  ASSUME IInv, TInv, NEW a \in Actors, Load(a)
  PROVE  TInv'
  <1> USE AdminAssumption
  <1>1. UNCHANGED <<stored, rules, cached, acked, blockedFor>>
    BY DEF Load
  <1>2. PICK list \in GetJSON(Blocked) :
           h' = [h EXCEPT ![a].pc = "install", ![a].list = list, ![a].age = 0]
    BY DEF Load
  <1>3. h \in [Actors -> handler]
    BY DEF IInv, TypeOK
  <1>4. /\ h'[a].pc = "install" /\ h'[a].list = list /\ h'[a].age = 0
        /\ \A d \in Actors : d # a => h'[d] = h[d]
    BY <1>2, <1>3 DEF handler
  <1>5. failedFor' = IF list = stored[Blocked] THEN failedFor ELSE 0
    BY <1>4 DEF Load
  <1>6. \A k \in Keys, n \in Nat : Excused(k, n) => Excused(k, n)'
    BY <1>1, <1>5 DEF Excused
  <1>7. ReadInv'
    <2> SUFFICES ASSUME NEW d \in Actors, h'[d].pc = "install", NEW k \in Keys
                 PROVE  matches(h[d].list, k)' \/ Excused(k, h[d].age)'
      BY DEF ReadInv
    <2>1. CASE d = a
      <3>1. CASE list = stored[Blocked]
        BY <1>1, <1>4, <2>1, <3>1 DEF TInv, CoveredInv, Excused, matches
      <3>2. CASE list # stored[Blocked]
        BY <1>4, <1>5, <2>1, <3>2 DEF Excused
      <3> QED BY <3>1, <3>2
    <2>2. CASE d # a
      <3>1. h'[d] = h[d] /\ h[d].age \in Nat
        BY <1>3, <1>4, <2>2 DEF handler
      <3>2. matches(h[d].list, k) \/ Excused(k, h[d].age)
        BY <3>1 DEF TInv, ReadInv
      <3> QED BY <1>6, <3>1, <3>2 DEF matches, Excused
    <2> QED BY <2>1, <2>2
  <1>8. CachedInv'
    <2>1. cached.age + MaxRead \in Nat
      BY DEF IInv, TypeOK
    <2> QED BY <1>1, <1>6, <2>1 DEF TInv, CachedInv, matches, Excused
  <1>9. CoveredInv' /\ FreshInv'
    BY <1>1, <1>4 DEF TInv, CoveredInv, FreshInv, matches
  <1> QED BY <1>7, <1>8, <1>9 DEF TInv

\* A list is installed: it was read at most MaxRead ago.
LEMMA InstallTime ==
  ASSUME IInv, TInv, NEW a \in Actors, Install(a)
  PROVE  TInv'
  <1> USE AdminAssumption
  <1>1. /\ h[a].pc = "install" /\ cached' = [patterns |-> h[a].list, age |-> 0]
        /\ UNCHANGED <<stored, rules, blockedFor, failedFor>>
    BY DEF Install
  <1>2. h \in [Actors -> handler] /\ h[a].age \in 0 .. MaxRead
    BY DEF IInv, TypeOK, handler
  <1>3. /\ \A d \in Actors : d # a => h'[d] = h[d]
        /\ h'[a] = Idle \/ h'[a] = [h[a] EXCEPT !.pc = "match", !.list = {}]
    BY <1>2 DEF Install, Answer, handler
  <1>4. /\ h'[a].pc # "install"
        /\ h'[a].pc = "match" => h'[a].age = h[a].age
    <2>1. h[a] \in handler
      BY <1>2
    <2>2. CASE h'[a] = Idle
      BY <2>2 DEF Idle
    <2>3. CASE h'[a] = [h[a] EXCEPT !.pc = "match", !.list = {}]
      BY <2>1, <2>3 DEF handler
    <2> QED BY <1>3, <2>2, <2>3
  <1>5. \A k, n : Excused(k, n)' <=> Excused(k, n)
    BY <1>1 DEF Excused
  <1>6. ReadInv'
    BY <1>1, <1>3, <1>4 DEF TInv, ReadInv, matches, Excused
  <1>7. CachedInv'
    <2>1. cached'.patterns = h[a].list /\ cached'.age = 0
      BY <1>1
    <2> SUFFICES ASSUME NEW k \in Keys
                 PROVE  matches(cached.patterns, k)' \/ Excused(k, cached.age + MaxRead)'
      BY DEF CachedInv
    <2>2. matches(h[a].list, k) \/ Excused(k, h[a].age)
      BY <1>1 DEF TInv, ReadInv
    <2>3. CASE matches(h[a].list, k)
      BY <2>1, <2>3 DEF matches
    <2>4. CASE Excused(k, h[a].age)
      <3>1. /\ blockedFor[k] \in (0 .. Cap) \cup {None} /\ failedFor \in 0 .. Cap /\ Cap \in Nat
        BY DEF IInv, TypeOK, Cap
      <3> QED BY <1>1, <1>2, <2>1, <2>4, <3>1 DEF Excused
    <2> QED BY <2>2, <2>3, <2>4
  <1>8. FreshInv'
    <2> SUFFICES ASSUME NEW q \in Actors, h'[q].pc = "match" PROVE cached'.age <= h'[q].age
      BY DEF FreshInv
    <2>1. h'[q].age \in Nat
      BY <1>2, <1>3, <1>4 DEF handler
    <2> QED BY <1>1, <2>1
  <1>9. CoveredInv'
    BY <1>1 DEF TInv, CoveredInv, matches
  <1> QED BY <1>6, <1>7, <1>8, <1>9 DEF TInv

\* Time passes for all ages alike.
LEMMA TickTime ==
  ASSUME IInv, TInv, Tick
  PROVE  TInv'
  <1> USE AdminAssumption
  <1>1. /\ cached' = [cached EXCEPT !.age = older(cached.age, TTL + 1)]
        /\ h' = [a \in Actors |-> IF refreshing(a) THEN [h[a] EXCEPT !.age = h[a].age + 1] ELSE h[a]]
        /\ blockedFor' = [k \in Keys |-> IF blockedFor[k] = None THEN None
                                         ELSE older(blockedFor[k], Cap)]
        /\ failedFor' = older(failedFor, Cap)
        /\ UNCHANGED <<stored, rules, acked>>
    BY DEF Tick
  <1>2. /\ Cap \in Nat /\ h \in [Actors -> handler] /\ failedFor \in 0 .. Cap
        /\ blockedFor \in [Keys -> (0 .. Cap) \cup {None}]
        /\ cached \in [patterns : SUBSET Patterns, age : 0 .. TTL + 1]
    BY DEF IInv, TypeOK, Cap
  <1>3. \A n \in 0 .. Cap : older(n, Cap) \in 0 .. Cap /\ older(n, Cap) <= n + 1
    BY <1>2 DEF older
  <1>4. ASSUME NEW k \in Keys, NEW n \in Nat, Excused(k, n) PROVE Excused(k, n + 1)'
    <2>1. CASE blockedFor[k] = None
      BY <1>1, <2>1 DEF Excused
    <2>2. CASE blockedFor[k] # None /\ blockedFor[k] <= n
      <3>1. blockedFor'[k] = older(blockedFor[k], Cap) /\ blockedFor[k] \in 0 .. Cap
        BY <1>1, <1>2, <2>2
      <3>2. blockedFor'[k] <= n + 1
        BY <1>2, <1>3, <2>2, <3>1
      <3> QED BY <3>2 DEF Excused
    <2>3. CASE failedFor <= n
      <3>1. failedFor' <= n + 1
        BY <1>1, <1>2, <1>3, <2>3
      <3> QED BY <3>1 DEF Excused
    <2> QED BY <1>4, <2>1, <2>2, <2>3 DEF Excused
  <1>5. CoveredInv'
    <2> SUFFICES ASSUME NEW k \in Keys
                 PROVE  blockedFor'[k] = None <=> blockedFor[k] = None
      BY <1>1 DEF TInv, CoveredInv, matches
    <2>1. CASE blockedFor[k] = None
      BY <1>1, <2>1
    <2>2. CASE blockedFor[k] # None
      BY <1>1, <1>2, <1>3, <2>2
    <2> QED BY <2>1, <2>2
  <1>6. ASSUME NEW a \in Actors, h[a].pc \in {"install", "match"}
        PROVE  h'[a].age = h[a].age + 1 /\ h'[a].list = h[a].list /\ h[a].age \in Nat
    BY <1>1, <1>2, <1>6 DEF refreshing, handler
  <1>7. \A a \in Actors : h'[a].pc = h[a].pc
    BY <1>1, <1>2 DEF handler
  <1>8. ReadInv'
    <2> SUFFICES ASSUME NEW a \in Actors, h'[a].pc = "install", NEW k \in Keys
                 PROVE  matches(h[a].list, k)' \/ Excused(k, h[a].age)'
      BY DEF ReadInv
    <2>1. h[a].pc = "install"
      BY <1>7
    <2>2. matches(h[a].list, k) \/ Excused(k, h[a].age)
      BY <2>1 DEF TInv, ReadInv
    <2>3. h'[a].age = h[a].age + 1 /\ h'[a].list = h[a].list /\ h[a].age \in Nat
      BY <1>6, <2>1
    <2>4. CASE matches(h[a].list, k)
      BY <2>3, <2>4 DEF matches
    <2>5. CASE Excused(k, h[a].age)
      <3>1. PICK n \in Nat : n = h[a].age
        BY <2>3
      <3>2. Excused(k, n)
        BY <2>5, <3>1
      <3>3. Excused(k, n + 1)'
        BY <1>4, <3>2
      <3>4. h'[a].age = n + 1
        BY <2>3, <3>1
      <3> QED BY <3>3, <3>4 DEF Excused
    <2> QED BY <2>2, <2>4, <2>5
  <1>9. CachedInv'
    <2> SUFFICES ASSUME cached'.age <= TTL, NEW k \in Keys
                 PROVE  matches(cached.patterns, k)' \/ Excused(k, cached.age + MaxRead)'
      BY DEF CachedInv
    <2>1. cached'.age = cached.age + 1 /\ cached.age <= TTL /\ cached'.patterns = cached.patterns
      BY <1>1, <1>2 DEF older
    <2>2. matches(cached.patterns, k) \/ Excused(k, cached.age + MaxRead)
      BY <2>1 DEF TInv, CachedInv
    <2>3. CASE matches(cached.patterns, k)
      BY <2>1, <2>3 DEF matches
    <2>4. CASE Excused(k, cached.age + MaxRead)
      <3>1. cached.age + MaxRead \in Nat /\ cached'.age + MaxRead = (cached.age + MaxRead) + 1
        BY <1>2, <2>1
      <3> DEFINE n == cached.age + MaxRead
      <3>2. Excused(k, n)
        BY <2>4
      <3>3. n \in Nat
        BY <3>1
      <3> QED BY <1>4, <3>1, <3>2, <3>3 DEF Excused
    <2> QED BY <2>2, <2>3, <2>4
  <1>10. FreshInv'
    <2> SUFFICES ASSUME NEW q \in Actors, h'[q].pc = "match" PROVE cached'.age <= h'[q].age
      BY DEF FreshInv
    <2>1. h[q].pc = "match" /\ cached.age <= h[q].age
      BY <1>7 DEF TInv, FreshInv
    <2>2. h'[q].age = h[q].age + 1 /\ h[q].age \in Nat
      BY <1>6, <2>1
    <2> QED BY <1>1, <1>2, <2>1, <2>2 DEF older
  <1> QED BY <1>5, <1>8, <1>9, <1>10 DEF TInv

\* Where the reception and the reading of a call leave the handlers.
LEMMA ReceiveMoves ==
  ASSUME IInv, NEW c \in Calls, Receive(c)
  PROVE  /\ h'[c].pc = "get"
         /\ \A a \in Actors : a # c =>
               h'[a].pc = h[a].pc /\ h'[a].list = h[a].list /\ h'[a].age = h[a].age
  <1>1. h \in [Actors -> handler] /\ c \in Actors
    BY DEF IInv, TypeOK, Actors
  <1>2. PICK e \in ConfigKeys, op \in {"add", "remove"}, p \in Patterns :
           /\ h' = [a \in Actors |->
                     IF a = c THEN [Idle EXCEPT !.pc = "get", !.entry = e, !.op = op,
                                                !.pattern = p, !.alone = underWay(e) = {}]
                     ELSE [h[a] EXCEPT !.alone = @ /\ h[a].entry # e]]
           /\ acked' = [acked EXCEPT ![e] = IF underWay(e) # {} THEN Unknown
                                            ELSE [@ EXCEPT ![p] = "unknown"]]
    BY DEF Receive
  <1>3. h'[c].pc = "get"
    BY <1>1, <1>2 DEF Idle
  <1>4. ASSUME NEW a \in Actors, a # c
        PROVE  h'[a].pc = h[a].pc /\ h'[a].list = h[a].list /\ h'[a].age = h[a].age
    <2>1. h'[a] = [h[a] EXCEPT !.alone = @ /\ h[a].entry # e] /\ h[a] \in handler
      BY <1>1, <1>2, <1>4
    <2> QED BY <2>1 DEF handler
  <1> QED BY <1>3, <1>4

LEMMA GetMoves ==
  ASSUME IInv, NEW c \in Calls, Get(c)
  PROVE  h'[c].pc \in {"idle", "set"} /\ \A a \in Actors : a # c => h'[a] = h[a]
  <1>1. h \in [Actors -> handler] /\ c \in Actors /\ Idle.pc = "idle"
    BY DEF IInv, TypeOK, Actors, Idle
  <1>2. PICK list \in GetJSON(h[c].entry) :
           /\ h' = [h EXCEPT ![c] =
                  IF h[c].op = "add"
                  THEN [h[c] EXCEPT !.pc = "set", !.list = added(list, h[c].pattern)]
                  ELSE IF h[c].pattern \in list
                  THEN [h[c] EXCEPT !.pc = "set", !.list = removed(list, h[c].pattern)]
                  ELSE Idle]
           /\ acked' = IF list = stored[h[c].entry] THEN acked
                       ELSE [acked EXCEPT ![h[c].entry] = Unknown]
    BY DEF Get
  <1>3. /\ \A a \in Actors : a # c => h'[a] = h[a]
        /\ \/ h'[c] = Idle
           \/ \E l : h'[c] = [h[c] EXCEPT !.pc = "set", !.list = l]
    BY <1>1, <1>2
  <1>4. ASSUME NEW l, h'[c] = [h[c] EXCEPT !.pc = "set", !.list = l] PROVE h'[c].pc = "set"
    <2>1. h[c] \in handler
      BY <1>1
    <2> QED BY <1>4, <2>1 DEF handler
  <1> QED BY <1>1, <1>3, <1>4

LEMMA TInvStep == IInv /\ TInv /\ [Next]_vars => TInv'
  <1> SUFFICES ASSUME IInv, TInv, [Next]_vars PROVE TInv'
    OBVIOUS
  <1> USE AdminAssumption
  <1>1. h \in [Actors -> handler] /\ Calls \subseteq Actors /\ Requests \subseteq Actors
    BY DEF IInv, TypeOK, Actors
  <1>2. Idle.pc = "idle"
    BY DEF Idle
  <1>3. ASSUME NEW c \in Calls, Receive(c) PROVE TInv'
    <2>1. /\ h'[c].pc = "get"
          /\ \A a \in Actors : a # c =>
                h'[a].pc = h[a].pc /\ h'[a].list = h[a].list /\ h'[a].age = h[a].age
      BY <1>3, ReceiveMoves
    <2>2. UNCHANGED <<stored, cached, blockedFor, failedFor>>
      BY <1>3 DEF Receive
    <2> QED BY <2>1, <2>2, Timeless
  <1>4. ASSUME NEW c \in Calls, Get(c) PROVE TInv'
    <2>1. h'[c].pc \in {"idle", "set"} /\ \A a \in Actors : a # c => h'[a] = h[a]
      BY <1>4, GetMoves
    <2>2. UNCHANGED <<stored, cached, blockedFor, failedFor>>
      BY <1>4 DEF Get
    <2> QED BY <2>1, <2>2, Timeless
  <1>5. ASSUME NEW c \in Calls, SetError(c) \/ Apply(c) PROVE TInv'
    <2>1. h' = [h EXCEPT ![c] = Idle] /\ UNCHANGED <<stored, cached, blockedFor, failedFor>>
      BY <1>5 DEF SetError, Apply, Answer
    <2>2. h'[c].pc = "idle" /\ \A a \in Actors : a # c => h'[a] = h[a]
      BY <1>1, <1>2, <2>1
    <2> QED BY <2>1, <2>2, Timeless
  <1>6. ASSUME NEW q \in Requests, Check(q) PROVE TInv'
    <2>1. UNCHANGED <<stored, cached, blockedFor, failedFor>>
      BY <1>6 DEF Check, IsBlocked, Match, Done
    <2>2. \A k : verdict(k) \in {"passed", "refused"}
      BY DEF verdict
    <2>3. h'[q].pc \in {"idle", "load", "passed", "refused"}
      <3>1. CASE IsBlocked(q)
        <4>1. PICK k \in Keys : h' = [h EXCEPT ![q].key = k, ![q].pc = IF stale THEN "load" ELSE verdict(k)]
          BY <3>1 DEF IsBlocked
        <4>2. h'[q].pc = IF stale THEN "load" ELSE verdict(k)
          BY <1>1, <4>1 DEF handler
        <4> QED BY <2>2, <4>2
      <3>2. CASE Match(q)
        <4>1. h'[q].pc = verdict(h[q].key)
          BY <1>1, <3>2 DEF Match, handler
        <4> QED BY <2>2, <4>1
      <3>3. CASE Done(q)
        BY <1>1, <1>2, <3>3 DEF Done
      <3> QED BY <1>6, <3>1, <3>2, <3>3 DEF Check
    <2>4. \A a \in Actors : a # q => h'[a] = h[a]
      BY <1>1, <1>6 DEF Check, IsBlocked, Match, Done
    <2> QED BY <2>1, <2>3, <2>4, Timeless
  <1>7. CASE Restart
    <2>1. /\ h' = [a \in Actors |-> Idle] /\ cached' = NewBlocklist
          /\ UNCHANGED <<stored, blockedFor, failedFor>>
      BY <1>7 DEF Restart
    <2>2. \A a \in Actors : h'[a].pc = "idle"
      BY <1>2, <2>1
    <2>3. ~(cached'.age <= TTL)
      BY <2>1 DEF NewBlocklist
    <2> QED BY <2>1, <2>2, <2>3 DEF TInv, CoveredInv, ReadInv, CachedInv, FreshInv, matches
  <1>8. CASE UNCHANGED vars
    BY <1>8, Timeless DEF vars
  <1>9. ASSUME NEW c \in Calls, Call(c) PROVE TInv'
    BY <1>3, <1>4, <1>5, <1>9, SetTime DEF Call
  <1>10. ASSUME NEW a \in Actors, Load(a) \/ Install(a) PROVE TInv'
    BY <1>10, LoadTime, InstallTime
  <1>11. CASE Tick
    BY <1>11, TickTime
  <1> QED BY <1>6, <1>7, <1>8, <1>9, <1>10, <1>11 DEF Next

\* A request is let through only by a list no older than the TTL, read at most
\* MaxRead before it was installed.
LEMMA Passes ==
  ASSUME IInv, TInv, [Next]_vars, NEW q \in Requests,
         h[q].pc # "passed", h'[q].pc = "passed"
  PROVE  Excused(h'[q].key, TTL + MaxRead)
  <1> USE AdminAssumption
  <1>1. h \in [Actors -> handler] /\ Calls \subseteq Actors /\ q \in Actors /\ q \notin Calls
    BY DEF IInv, TypeOK, Actors
  <1>2. Idle.pc = "idle"
    BY DEF Idle
  <1>3. Check(q)
    <2>1. ASSUME NEW c \in Calls, Call(c) PROVE h'[q].pc = h[q].pc
      <3>1. CASE Receive(c)
        BY <1>1, <3>1, ReceiveMoves
      <3>2. CASE Get(c)
        BY <1>1, <3>2, GetMoves
      <3>3. CASE Set(c) \/ SetError(c) \/ Apply(c)
        <4>1. PICK r : h' = [h EXCEPT ![c] = r]
          BY <3>3 DEF Set, SetError, Apply, Answer
        <4> QED BY <1>1, <4>1
      <3> QED BY <2>1, <3>1, <3>2, <3>3 DEF Call
    <2>2. ASSUME NEW d \in Requests, d # q, Check(d) PROVE h'[q].pc = h[q].pc
      BY <1>1, <2>2 DEF Check, IsBlocked, Match, Done
    <2>3. ASSUME NEW a \in Actors, Load(a) PROVE h'[q].pc # "passed"
      BY <1>1, <2>3 DEF Load, handler
    <2>4. ASSUME NEW a \in Actors, Install(a) PROVE h'[q].pc # "passed"
      <3>1. PICK r : h' = [h EXCEPT ![a] = r] /\ r.pc # "passed"
        BY <1>1, <1>2, <2>4 DEF Install, Answer, handler
      <3> QED BY <1>1, <3>1
    <2>5. CASE Tick
      BY <1>1, <2>5 DEF Tick, handler
    <2>6. CASE Restart
      BY <1>1, <1>2, <2>6 DEF Restart
    <2>7. CASE UNCHANGED vars
      BY <2>7 DEF vars
    <2> QED BY <2>1, <2>2, <2>3, <2>4, <2>5, <2>6, <2>7 DEF Next
  <1>4. PICK k \in Keys : /\ h'[q].key = k /\ ~matches(cached.patterns, k)
                         /\ cached.age <= TTL
    <2>1. cached.age \in 0 .. TTL + 1 /\ h[q].age \in 0 .. MaxRead
      BY <1>1 DEF IInv, TypeOK, handler
    <2>2. CASE IsBlocked(q)
      <3>1. PICK k \in Keys : h' = [h EXCEPT ![q].key = k, ![q].pc = IF stale THEN "load" ELSE verdict(k)]
        BY <2>2 DEF IsBlocked
      <3>2. h'[q].key = k /\ ~stale /\ verdict(k) = "passed"
        BY <1>1, <3>1 DEF handler
      <3> QED BY <2>1, <3>2 DEF stale, verdict
    <2>3. CASE Match(q)
      <3>1. h[q].pc = "match" /\ h'[q].key = h[q].key /\ verdict(h[q].key) = "passed"
        BY <1>1, <2>3 DEF Match, handler
      <3>2. cached.age <= h[q].age
        BY <1>1, <3>1 DEF TInv, FreshInv
      <3>3. h[q].key \in Keys
        BY <3>1 DEF IInv, HandlerInv, RequestOK
      <3> QED BY <2>1, <3>1, <3>2, <3>3 DEF verdict
    <2>4. CASE Done(q)
      BY <1>1, <1>2, <2>4 DEF Done
    <2> QED BY <1>3, <2>2, <2>3, <2>4 DEF Check
  <1>5. Excused(k, cached.age + MaxRead)
    BY <1>4 DEF TInv, CachedInv
  <1>6. /\ blockedFor[k] \in (0 .. Cap) \cup {None} /\ failedFor \in 0 .. Cap /\ Cap \in Nat
        /\ cached.age \in 0 .. TTL + 1
    BY DEF IInv, TypeOK, Cap
  <1> QED BY <1>4, <1>5, <1>6 DEF Excused

\* However admin changes, refreshes of the blocklist, failed reads and restarts
\* interleave with proxied requests, IsBlocked lets no key through that the
\* stored list has been covering for longer than the TTL and one refresh,
\* unless a refresh failed meanwhile: for any TTL and any time a refresh may
\* take up to it.
THEOREM AdminBlockedWithinTTL == Spec => BlockedWithinTTL
  <1> DEFINE A == \A q \in Requests :
                    h[q].pc # "passed" /\ h'[q].pc = "passed" =>
                       \/ blockedFor[h'[q].key] = None
                       \/ blockedFor[h'[q].key] <= TTL + MaxRead
                       \/ failedFor <= TTL + MaxRead
  <1>1. IInv /\ TInv /\ [Next]_vars => [A]_vars
    BY Passes DEF Excused
  <1>2. Spec => [](IInv /\ TInv)
    BY InitIInv, IInvStep, InitTInv, TInvStep, PTL DEF Spec
  <1> QED BY <1>1, <1>2, PTL DEF Spec, BlockedWithinTTL
=============================================================================
