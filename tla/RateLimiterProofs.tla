------------------------- MODULE RateLimiterProofs --------------------------
(***************************************************************************)
(* What the two limits of rate guarantee: that of requests, and that of    *)
(* alerts (RateLimitedNotifier).                                           *)
(*                                                                         *)
(* Requests, for any keys, hashes, rules, window lengths and stretch of    *)
(* time: a window counts what it lets through, no stretch of a window's    *)
(* length sees more than twice a limit, and nobody is refused without      *)
(* cause.  One window is studied at a time, as a function of the counter   *)
(* w, the times s at which requests of its hash were let through and the   *)
(* clock n; D is its length and L the limits of the keys that share its    *)
(* hash.                                                                   *)
(*                                                                         *)
(* Alerts, for any number of goroutines, alert keys and destinations and   *)
(* any cooldown.  The cooldown is exact because the table agrees with      *)
(* history: an entry younger than the cooldown is as old as the last alert *)
(* let through, and an older or a missing entry means that the last one is *)
(* at least a cooldown ago.  Evicting entries older than twice the         *)
(* cooldown keeps the agreement.                                           *)
(***************************************************************************)
EXTENDS RateLimiter, Alerts, FiniteSetTheorems, SequenceTheorems, TLAPS

\* The requests let through from time a to time b, and their number.
In(s, a, b) == {i \in 1 .. Len(s) : a <= s[i] /\ s[i] <= b}
number(s, a, b) == Cardinality(In(s, a, b))

Within(n, L) == \E l \in L : n <= l

\* Requests are let through in the past, windows began there, and a window
\* never counts more than was let through in it.
Sound(w, s, n, D) ==
    /\ s \in Seq(0 .. n)
    /\ w \in Window \cup {None}
    /\ w # None => /\ w.windowEnd - D \in 0 .. n
                   /\ w.count <= number(s, w.windowEnd - D, w.windowEnd)

\* Where every key of the hash is limited, a window counts all that was let
\* through in it, which is within a limit, nothing has been let through after
\* its end, and what was let through in the window's length before it is
\* within a limit too.  A window that has been dropped leaves the last of
\* these facts to the stretch that ends now.
Exact(w, s, n, D, L) ==
    /\ w # None => /\ w.count = number(s, w.windowEnd - D, w.windowEnd)
                   /\ Within(w.count, L)
                   /\ \A i \in 1 .. Len(s) : s[i] <= w.windowEnd
                   /\ Within(number(s, w.windowEnd - 2 * D, w.windowEnd - D - 1), L)
    /\ w = None => /\ \A i \in 1 .. Len(s) : s[i] < n
                   /\ Within(number(s, n - D, n), L)

\* No stretch as long as a window has seen more than two windows' worth.
Twice(s, D, L) == \A t \in Nat : \E l \in L : number(s, t, t + D) <= 2 * l

LimitsOf(limit, x) == {limit[k] : k \in {j \in Keys : hash[j] = x}}

Windows(counters, adm, n, limit, D) ==
    /\ counters \in [Hashes -> Window \cup {None}]
    /\ \A x \in Hashes :
          /\ Sound(counters[x], adm[x], n, D)
          /\ allLimited(limit, x) => /\ Exact(counters[x], adm[x], n, D, LimitsOf(limit, x))
                                     /\ Twice(adm[x], D, LimitsOf(limit, x))

MinuteInv == Windows(minuteCounters, admitted, now, perMinute, Minute)
HourInv   == Windows(hourCounters, admitted, now, perHour, Hour)

IInv == TypeOK /\ MinuteInv /\ HourInv

-----------------------------------------------------------------------------
(* The requests in a stretch of time.                                      *)

LEMMA InFinite ==
  ASSUME NEW s, Len(s) \in Nat, NEW a, NEW b
  PROVE  IsFiniteSet(In(s, a, b)) /\ number(s, a, b) \in Nat
  <1>1. IsFiniteSet(1 .. Len(s))
    BY FS_Interval
  <1>2. In(s, a, b) \in SUBSET (1 .. Len(s))
    BY DEF In
  <1>3. IsFiniteSet(In(s, a, b))
    BY <1>1, <1>2, FS_Subset
  <1> QED BY <1>3, FS_CardinalityType DEF number

\* A stretch that has no request the other has not, has no more of them.
LEMMA NumberSubset ==
  ASSUME NEW s, NEW r, Len(s) \in Nat, Len(r) \in Nat, NEW a, NEW b, NEW c, NEW d,
         In(s, a, b) \subseteq In(r, c, d)
  PROVE  number(s, a, b) <= number(r, c, d)
  BY InFinite, FS_Subset DEF number

\* A stretch that is covered by two others.
LEMMA NumberCovered ==
  ASSUME NEW s, Len(s) \in Nat, NEW a, NEW b, NEW c, NEW d, NEW e, NEW f,
         In(s, a, b) \subseteq In(s, c, d) \cup In(s, e, f)
  PROVE  number(s, a, b) <= number(s, c, d) + number(s, e, f)
  <1> DEFINE X == In(s, c, d)
             Y == In(s, e, f)
  <1>1. IsFiniteSet(X) /\ IsFiniteSet(Y)
    BY InFinite
  <1>2. /\ Cardinality(X) \in Nat /\ Cardinality(Y) \in Nat /\ Cardinality(In(s, a, b)) \in Nat
        /\ number(s, a, b) = Cardinality(In(s, a, b))
        /\ number(s, c, d) = Cardinality(X) /\ number(s, e, f) = Cardinality(Y)
    BY InFinite DEF number
  <1> HIDE DEF X, Y
  <1>3. IsFiniteSet(X \cup Y) /\ Cardinality(X \cup Y) = Cardinality(X) + Cardinality(Y) - Cardinality(X \cap Y)
    BY <1>1, FS_Union
  <1>4. Cardinality(X \cap Y) \in Nat
    BY <1>1, FS_Intersection, FS_CardinalityType
  <1>5. Cardinality(In(s, a, b)) <= Cardinality(X \cup Y)
    BY <1>3, FS_Subset DEF X, Y
  <1> QED BY <1>2, <1>3, <1>4, <1>5

\* One more request, now.
LEMMA InAppend ==
  ASSUME NEW n \in Nat, NEW s \in Seq(0 .. n), NEW a \in Int, NEW b \in Int
  PROVE  /\ Len(s) \in Nat /\ Len(Append(s, n)) = Len(s) + 1
         /\ In(Append(s, n), a, b) = IF a <= n /\ n <= b THEN In(s, a, b) \cup {Len(s) + 1}
                                     ELSE In(s, a, b)
         /\ number(Append(s, n), a, b) = IF a <= n /\ n <= b THEN number(s, a, b) + 1
                                         ELSE number(s, a, b)
  <1>1. /\ Len(s) \in Nat /\ Len(Append(s, n)) = Len(s) + 1
        /\ Append(s, n)[Len(s) + 1] = n
        /\ \A i \in 1 .. Len(s) : Append(s, n)[i] = s[i]
    OBVIOUS
  <1>2. 1 .. Len(s) + 1 = (1 .. Len(s)) \cup {Len(s) + 1}
    BY <1>1
  <1>3. In(Append(s, n), a, b) = IF a <= n /\ n <= b THEN In(s, a, b) \cup {Len(s) + 1}
                                 ELSE In(s, a, b)
    BY <1>1, <1>2 DEF In
  <1>4. Len(s) + 1 \notin In(s, a, b)
    BY <1>1 DEF In
  <1>5. IsFiniteSet(In(s, a, b))
    BY <1>1, InFinite
  <1> QED BY <1>1, <1>3, <1>4, <1>5, FS_AddElement DEF number

-----------------------------------------------------------------------------
(* One window.                                                             *)

\* What getOrCreateWindow returns at time n.
renewed(w, n, D) ==
    IF w = None \/ n > w.windowEnd THEN [count |-> 0, windowEnd |-> n + D] ELSE w

\* getOrCreateWindow returns a live window that is as sound as the old one.
LEMMA RenewSound ==
  ASSUME NEW D \in Nat, NEW n \in Nat, NEW w, NEW s, Sound(w, s, n, D)
  PROVE  /\ renewed(w, n, D) \in Window /\ n <= renewed(w, n, D).windowEnd
         /\ Sound(renewed(w, n, D), s, n, D)
  <1>1. CASE w = None \/ n > w.windowEnd
    <2> DEFINE r == renewed(w, n, D)
    <2>1. r = [count |-> 0, windowEnd |-> n + D]
      BY <1>1 DEF renewed
    <2>2. r \in Window /\ r.count = 0 /\ r.windowEnd = n + D
      BY <2>1 DEF Window
    <2> HIDE DEF r
    <2>3. s \in Seq(0 .. n) /\ Len(s) \in Nat
      BY DEF Sound
    <2>4. r.count <= number(s, r.windowEnd - D, r.windowEnd)
      BY <2>2, <2>3, InFinite
    <2>5. Sound(r, s, n, D)
      BY <2>2, <2>3, <2>4 DEF Sound
    <2> QED BY <2>2, <2>5 DEF r
  <1>2. CASE w # None /\ ~(n > w.windowEnd)
    BY <1>2 DEF renewed, Sound, Window
  <1> QED BY <1>1, <1>2

\* A new window starts exact: nothing was let through since n, and what went
\* through before it is the previous window's, or what that window left behind.
LEMMA RenewExact ==
  ASSUME NEW D \in Nat, NEW n \in Nat, NEW w, NEW s, Sound(w, s, n, D),
         NEW L, L \subseteq Nat, L # {}, Exact(w, s, n, D, L)
  PROVE  Exact(renewed(w, n, D), s, n, D, L)
  <1>1. CASE w = None \/ n > w.windowEnd
    <2> DEFINE r == renewed(w, n, D)
    <2>1. r = [count |-> 0, windowEnd |-> n + D]
      BY <1>1 DEF renewed
    <2>2. r \in Window /\ r.count = 0 /\ r.windowEnd = n + D /\ r # None
      BY <2>1, LimiterAssumption DEF Window
    <2> HIDE DEF r
    <2>3. s \in Seq(0 .. n) /\ Len(s) \in Nat /\ \A i \in 1 .. Len(s) : s[i] \in 0 .. n
      BY DEF Sound
    <2>4. \A i \in 1 .. Len(s) : s[i] < n
      BY <1>1, <2>3 DEF Exact, Sound, Window
    <2>5. number(s, n, n + D) = 0
      <3>1. In(s, n, n + D) = {}
        BY <2>3, <2>4 DEF In
      <3> QED BY <3>1, FS_EmptySet DEF number
    <2>6. Within(0, L)
      <3>1. PICK l : l \in L
        OBVIOUS
      <3>2. l \in Nat
        BY <3>1
      <3> QED BY <3>1, <3>2 DEF Within
    <2>7. Within(number(s, n - D, n - 1), L)
      <3>1. CASE w = None
        <4>1. In(s, n - D, n - 1) \subseteq In(s, n - D, n)
          BY <2>3 DEF In
        <4>2. number(s, n - D, n - 1) <= number(s, n - D, n)
          BY <4>1, <2>3, NumberSubset
        <4>3. number(s, n - D, n - 1) \in Nat /\ number(s, n - D, n) \in Nat
          BY <2>3, InFinite
        <4> QED BY <3>1, <4>2, <4>3 DEF Exact, Within
      <3>2. CASE w # None
        <4>1. w.windowEnd \in Nat /\ n > w.windowEnd
          BY <1>1, <3>2 DEF Sound, Window
        <4>2. In(s, n - D, n - 1) \subseteq In(s, w.windowEnd - D, w.windowEnd)
          BY <2>3, <3>2, <4>1 DEF In, Exact
        <4>3. number(s, n - D, n - 1) <= number(s, w.windowEnd - D, w.windowEnd)
          BY <4>2, <2>3, NumberSubset
        <4>4. number(s, n - D, n - 1) \in Nat /\ number(s, w.windowEnd - D, w.windowEnd) \in Nat
          BY <2>3, InFinite
        <4> QED BY <3>2, <4>3, <4>4 DEF Exact, Within
      <3> QED BY <3>1, <3>2
    <2>8. r.windowEnd - D = n /\ r.windowEnd - 2 * D = n - D /\ r.windowEnd - D - 1 = n - 1
      BY <2>2
    <2>9. \A i \in 1 .. Len(s) : s[i] <= r.windowEnd
      BY <2>2, <2>3
    <2>10. Exact(r, s, n, D, L)
      BY <2>2, <2>5, <2>6, <2>7, <2>8, <2>9 DEF Exact
    <2> QED BY <2>10 DEF r
  <1>2. CASE w # None /\ ~(n > w.windowEnd)
    BY <1>2 DEF renewed
  <1> QED BY <1>1, <1>2

\* A request that is let through without being counted.
LEMMA UncountedSound ==
  ASSUME NEW D \in Nat, NEW n \in Nat, NEW w, NEW s, Sound(w, s, n, D)
  PROVE  Sound(w, Append(s, n), n, D)
  <1>1. s \in Seq(0 .. n) /\ Append(s, n) \in Seq(0 .. n) /\ w \in Window \cup {None}
    BY DEF Sound
  <1>2. ASSUME w # None
        PROVE  w.count <= number(Append(s, n), w.windowEnd - D, w.windowEnd)
    <2>1. w.count \in Nat /\ w.windowEnd \in Nat /\ w.windowEnd - D \in Int
      BY <1>1, <1>2 DEF Window
    <2>2. number(s, w.windowEnd - D, w.windowEnd) \in Nat
      BY <1>1, InFinite
    <2>3. w.count <= number(s, w.windowEnd - D, w.windowEnd)
      BY <1>2 DEF Sound
    <2> DEFINE a == w.windowEnd - D
               b == w.windowEnd
    <2>4. a \in Int /\ b \in Int
      BY <2>1
    <2> HIDE DEF a, b
    <2>5. number(Append(s, n), a, b) \in {number(s, a, b), number(s, a, b) + 1}
      BY <1>1, <2>4, InAppend
    <2> QED BY <2>1, <2>2, <2>3, <2>5 DEF a, b
  <1> QED BY <1>1, <1>2 DEF Sound

\* A request that is let through and counted, in a live window.
LEMMA CountedSound ==
  ASSUME NEW D \in Nat, NEW n \in Nat, NEW w \in Window, n <= w.windowEnd, NEW s,
         Sound(w, s, n, D)
  PROVE  /\ counted(w) \in Window /\ counted(w) # None
         /\ counted(w).windowEnd = w.windowEnd /\ counted(w).count = w.count + 1
         /\ number(Append(s, n), w.windowEnd - D, w.windowEnd)
              = number(s, w.windowEnd - D, w.windowEnd) + 1
         /\ Sound(counted(w), Append(s, n), n, D)
  <1>0. w # None /\ w.windowEnd \in Nat /\ w.count \in Nat
    BY LimiterAssumption DEF Window
  <1>1. /\ counted(w) \in Window /\ counted(w).windowEnd = w.windowEnd
        /\ counted(w).count = w.count + 1
    BY DEF counted, Window
  <1>2. counted(w) # None
    BY <1>1, LimiterAssumption
  <1>3. /\ s \in Seq(0 .. n) /\ Append(s, n) \in Seq(0 .. n)
        /\ w.windowEnd - D \in 0 .. n /\ w.count <= number(s, w.windowEnd - D, w.windowEnd)
    BY <1>0 DEF Sound
  <1>4. number(Append(s, n), w.windowEnd - D, w.windowEnd)
          = number(s, w.windowEnd - D, w.windowEnd) + 1
    BY <1>0, <1>3, InAppend
  <1>5. number(s, w.windowEnd - D, w.windowEnd) \in Nat
    BY <1>3, InFinite
  <1> QED BY <1>0, <1>1, <1>2, <1>3, <1>4, <1>5 DEF Sound

LEMMA CountedExact ==
  ASSUME NEW D \in Nat, NEW n \in Nat, NEW w \in Window, n <= w.windowEnd, NEW s,
         Sound(w, s, n, D),
         NEW L, L \subseteq Nat, Exact(w, s, n, D, L), NEW l \in L, w.count < l
  PROVE  Exact(counted(w), Append(s, n), n, D, L)
  <1> DEFINE r == counted(w)
  <1>0. w # None /\ w.windowEnd \in Nat /\ w.count \in Nat /\ s \in Seq(0 .. n)
        /\ w.windowEnd - D \in 0 .. n
    BY LimiterAssumption DEF Window, Sound
  <1>1. r.windowEnd = w.windowEnd /\ r.count = w.count + 1 /\ r # None
    BY CountedSound
  <1>2. r.count = number(Append(s, n), r.windowEnd - D, r.windowEnd)
    BY <1>0, <1>1, CountedSound DEF Exact
  <1> HIDE DEF r
  <1>3. Within(r.count, L)
    BY <1>0, <1>1 DEF Within
  <1>4. \A i \in 1 .. Len(Append(s, n)) : Append(s, n)[i] <= r.windowEnd
    BY <1>0, <1>1 DEF Exact
  <1>5. number(Append(s, n), w.windowEnd - 2 * D, w.windowEnd - D - 1)
          = number(s, w.windowEnd - 2 * D, w.windowEnd - D - 1)
    BY <1>0, InAppend
  <1>6. Within(number(Append(s, n), r.windowEnd - 2 * D, r.windowEnd - D - 1), L)
    BY <1>0, <1>1, <1>5 DEF Exact
  <1>7. Exact(r, Append(s, n), n, D, L)
    BY <1>1, <1>2, <1>3, <1>4, <1>6 DEF Exact
  <1> QED BY <1>7 DEF r

\* A stretch that ends in the window meets it and the one before, no other.
LEMMA TwiceStep ==
  ASSUME NEW D \in Nat, NEW n \in Nat, NEW s \in Seq(0 .. n), NEW w \in Window,
         Sound(w, Append(s, n), n, D),
         NEW L, L \subseteq Nat, Exact(w, Append(s, n), n, D, L), Twice(s, D, L)
  PROVE  Twice(Append(s, n), D, L)
  <1> DEFINE r == Append(s, n)
             e == w.windowEnd
  <1> SUFFICES ASSUME NEW t \in Nat PROVE \E l \in L : number(r, t, t + D) <= 2 * l
    BY DEF Twice
  <1>0. w # None /\ e \in Nat /\ w.count \in Nat /\ e - D \in 0 .. n
    BY LimiterAssumption DEF Window, Sound
  <1>1. CASE ~(t <= n /\ n <= t + D)
    <2>1. number(r, t, t + D) = number(s, t, t + D)
      BY <1>1, InAppend
    <2> QED BY <2>1 DEF Twice
  <1>2. CASE t <= n /\ n <= t + D
    <2>0. r \in Seq(0 .. n)
      OBVIOUS
    <2>1. Len(r) \in Nat /\ \A i \in 1 .. Len(r) : r[i] \in 0 .. n /\ r[i] <= e
      <3>1. \A i \in 1 .. Len(r) : r[i] <= e
        BY <1>0 DEF Exact
      <3> HIDE DEF r
      <3> QED BY <2>0, <3>1
    <2> HIDE DEF r, e
    <2>2. In(r, t, t + D) \subseteq In(r, e - 2 * D, e - D - 1) \cup In(r, e - D, e)
      BY <1>0, <1>2, <2>1 DEF In
    <2>3. number(r, t, t + D) <= number(r, e - 2 * D, e - D - 1) + number(r, e - D, e)
      BY <2>1, <2>2, NumberCovered
    <2>4. /\ number(r, t, t + D) \in Nat
          /\ number(r, e - 2 * D, e - D - 1) \in Nat /\ number(r, e - D, e) \in Nat
      BY <2>1, InFinite
    <2>5. PICK l1 \in L : number(r, e - D, e) <= l1
      BY <1>0 DEF Exact, Within, r, e
    <2>6. PICK l2 \in L : number(r, e - 2 * D, e - D - 1) <= l2
      BY <1>0 DEF Exact, Within, r, e
    <2>7. l1 \in Nat /\ l2 \in Nat
      OBVIOUS
    <2>8. CASE l1 <= l2
      BY <2>3, <2>4, <2>5, <2>6, <2>7, <2>8
    <2>9. CASE l2 <= l1
      BY <2>3, <2>4, <2>5, <2>6, <2>7, <2>9
    <2> QED BY <2>7, <2>8, <2>9
  <1> QED BY <1>1, <1>2

\* evictExpired drops a window that has ended.
LEMMA SweepExact ==
  ASSUME NEW D \in Nat, NEW n \in Nat, NEW w \in Window, n > w.windowEnd, NEW s,
         Sound(w, s, n, D), NEW L, L \subseteq Nat, Exact(w, s, n, D, L)
  PROVE  Exact(None, s, n, D, L)
  <1>0. w # None /\ w.windowEnd \in Nat /\ s \in Seq(0 .. n)
    BY LimiterAssumption DEF Window, Sound
  <1>1. /\ Len(s) \in Nat
        /\ \A i \in 1 .. Len(s) : s[i] \in 0 .. n /\ s[i] <= w.windowEnd
    BY <1>0 DEF Exact
  <1>2. In(s, n - D, n) \subseteq In(s, w.windowEnd - D, w.windowEnd)
    BY <1>0, <1>1 DEF In
  <1>3. number(s, n - D, n) <= number(s, w.windowEnd - D, w.windowEnd)
    BY <1>1, <1>2, NumberSubset
  <1>4. number(s, n - D, n) \in Nat /\ number(s, w.windowEnd - D, w.windowEnd) \in Nat
    BY <1>1, InFinite
  <1>5. PICK l \in L : number(s, w.windowEnd - D, w.windowEnd) <= l
    BY <1>0 DEF Exact, Within
  <1>6. Within(number(s, n - D, n), L)
    BY <1>3, <1>4, <1>5 DEF Within
  <1> QED BY <1>0, <1>1, <1>6 DEF Exact

\* Time passes.
LEMMA TickWindow ==
  ASSUME NEW D \in Nat, NEW n \in Nat, NEW w, NEW s, Sound(w, s, n, D)
  PROVE  /\ Sound(w, s, n + 1, D)
         /\ \A L \in SUBSET Nat : Exact(w, s, n, D, L) => Exact(w, s, n + 1, D, L)
  <1>1. s \in Seq(0 .. n) /\ Len(s) \in Nat /\ \A i \in 1 .. Len(s) : s[i] \in 0 .. n
    BY DEF Sound
  <1>2. s \in Seq(0 .. n + 1)
    BY <1>1
  <1>3. Sound(w, s, n + 1, D)
    BY <1>2 DEF Sound
  <1>4. ASSUME NEW L \in SUBSET Nat, Exact(w, s, n, D, L) PROVE Exact(w, s, n + 1, D, L)
    <2>1. In(s, n + 1 - D, n + 1) \subseteq In(s, n - D, n)
      BY <1>1 DEF In
    <2>2. number(s, n + 1 - D, n + 1) <= number(s, n - D, n)
      BY <1>1, <2>1, NumberSubset
    <2>3. number(s, n + 1 - D, n + 1) \in Nat /\ number(s, n - D, n) \in Nat
      BY <1>1, InFinite
    <2>4. Within(number(s, n - D, n), L) => Within(number(s, n + 1 - D, n + 1), L)
      BY <2>2, <2>3 DEF Within
    <2>5. (\A i \in 1 .. Len(s) : s[i] < n) => \A i \in 1 .. Len(s) : s[i] < n + 1
      BY <1>1
    <2> QED BY <1>4, <2>4, <2>5 DEF Exact
  <1> QED BY <1>3, <1>4

-----------------------------------------------------------------------------
(* All windows of one kind.                                                *)

LEMMA LimitsFacts ==
  ASSUME NEW limit \in [Keys -> Nat], NEW x, allLimited(limit, x)
  PROVE  /\ LimitsOf(limit, x) \subseteq Nat /\ LimitsOf(limit, x) # {}
         /\ \A k \in Keys : hash[k] = x => limit[k] > 0 /\ limit[k] \in LimitsOf(limit, x)
  BY DEF LimitsOf, allLimited

\* A refused request may leave a new window behind.
LEMMA RenewWindows ==
  ASSUME NEW limit \in [Keys -> Nat], NEW D \in Nat, NEW n \in Nat, NEW c, NEW adm,
         Windows(c, adm, n, limit, D), NEW x \in Hashes
  PROVE  Windows([c EXCEPT ![x] = renewed(c[x], n, D)], adm, n, limit, D)
  <1> DEFINE c2 == [c EXCEPT ![x] = renewed(c[x], n, D)]
  <1>1. c \in [Hashes -> Window \cup {None}] /\ \A y \in Hashes : Sound(c[y], adm[y], n, D)
    BY DEF Windows
  <1>2. renewed(c[x], n, D) \in Window /\ Sound(renewed(c[x], n, D), adm[x], n, D)
    BY <1>1, RenewSound
  <1>3. /\ c2 \in [Hashes -> Window \cup {None}] /\ c2[x] = renewed(c[x], n, D)
        /\ \A y \in Hashes \ {x} : c2[y] = c[y]
    BY <1>1, <1>2
  <1>4. allLimited(limit, x) => Exact(renewed(c[x], n, D), adm[x], n, D, LimitsOf(limit, x))
    BY <1>1, LimitsFacts, RenewExact DEF Windows
  <1> HIDE DEF c2
  <1>5. Windows(c2, adm, n, limit, D)
    BY <1>2, <1>3, <1>4 DEF Windows
  <1> QED BY <1>5 DEF c2

\* A request that is let through, counted by this kind of window ...
LEMMA CountedWindows ==
  ASSUME NEW limit \in [Keys -> Nat], NEW D \in Nat, NEW n \in Nat, NEW c,
         NEW adm \in [Hashes -> Seq(0 .. n)], Windows(c, adm, n, limit, D),
         NEW k \in Keys, hash[k] \in Hashes,
         renewed(c[hash[k]], n, D).count < limit[k]
  PROVE  Windows([c EXCEPT ![hash[k]] = counted(renewed(c[hash[k]], n, D))],
                 [adm EXCEPT ![hash[k]] = Append(@, n)], n, limit, D)
  <1> DEFINE x  == hash[k]
             w  == renewed(c[x], n, D)
             c2 == [c EXCEPT ![x] = counted(w)]
             a2 == [adm EXCEPT ![x] = Append(@, n)]
             L  == LimitsOf(limit, x)
  <1>1. c \in [Hashes -> Window \cup {None}] /\ \A y \in Hashes : Sound(c[y], adm[y], n, D)
    BY DEF Windows
  <1>2. w \in Window /\ n <= w.windowEnd /\ Sound(w, adm[x], n, D)
    BY <1>1, RenewSound
  <1> HIDE DEF w
  <1>3. counted(w) \in Window /\ Sound(counted(w), Append(adm[x], n), n, D)
    BY <1>2, CountedSound
  <1>4. ASSUME allLimited(limit, x)
        PROVE  /\ Exact(counted(w), Append(adm[x], n), n, D, L)
               /\ Twice(Append(adm[x], n), D, L)
    <2>1. L \subseteq Nat /\ L # {} /\ limit[k] \in L
      BY <1>4, LimitsFacts
    <2>2. Exact(c[x], adm[x], n, D, L) /\ Twice(adm[x], D, L)
      BY <1>4 DEF Windows
    <2>3. Exact(w, adm[x], n, D, L)
      BY <1>1, <2>1, <2>2, RenewExact DEF w
    <2>4. w.count < limit[k]
      BY DEF w
    <2> HIDE DEF L
    <2>5. Exact(counted(w), Append(adm[x], n), n, D, L)
      BY <1>2, <2>1, <2>3, <2>4, CountedExact
    <2>6. adm[x] \in Seq(0 .. n)
      OBVIOUS
    <2> QED BY <1>3, <2>1, <2>2, <2>5, <2>6, TwiceStep
  <1>5. /\ c2 \in [Hashes -> Window \cup {None}] /\ c2[x] = counted(w)
        /\ \A y \in Hashes \ {x} : c2[y] = c[y]
        /\ a2[x] = Append(adm[x], n) /\ \A y \in Hashes \ {x} : a2[y] = adm[y]
    BY <1>1, <1>3
  <1> HIDE DEF c2, a2, x
  <1>6. Windows(c2, a2, n, limit, D)
    BY <1>3, <1>4, <1>5 DEF Windows
  <1> QED BY <1>6 DEF c2, a2, w, x

\* ... or not, because its key has no limit of this kind.
LEMMA UncountedWindows ==
  ASSUME NEW limit \in [Keys -> Nat], NEW D \in Nat, NEW n \in Nat, NEW c,
         NEW adm \in [Hashes -> Seq(0 .. n)], Windows(c, adm, n, limit, D),
         NEW k \in Keys, hash[k] \in Hashes, ~(limit[k] > 0)
  PROVE  Windows(c, [adm EXCEPT ![hash[k]] = Append(@, n)], n, limit, D)
  <1> DEFINE x  == hash[k]
             a2 == [adm EXCEPT ![x] = Append(@, n)]
  <1>1. ~allLimited(limit, x)
    BY DEF allLimited
  <1>2. Sound(c[x], Append(adm[x], n), n, D)
    BY UncountedSound DEF Windows
  <1>3. a2[x] = Append(adm[x], n) /\ \A y \in Hashes \ {x} : a2[y] = adm[y]
    OBVIOUS
  <1> HIDE DEF a2, x
  <1>4. Windows(c, a2, n, limit, D)
    BY <1>1, <1>2, <1>3 DEF Windows
  <1> QED BY <1>4 DEF a2, x

LEMMA SweptWindows ==
  ASSUME NEW limit \in [Keys -> Nat], NEW D \in Nat, now \in Nat, NEW c, NEW adm,
         Windows(c, adm, now, limit, D)
  PROVE  Windows(swept(c), adm, now, limit, D)
  <1>1. swept(c) \in [Hashes -> Window \cup {None}]
    BY DEF swept, Windows
  <1>2. ASSUME NEW x \in Hashes
        PROVE  /\ Sound(swept(c)[x], adm[x], now, D)
               /\ allLimited(limit, x) =>
                     Exact(swept(c)[x], adm[x], now, D, LimitsOf(limit, x))
    <2>1. CASE c[x] # None /\ now > c[x].windowEnd
      <3>1. swept(c)[x] = None /\ c[x] \in Window
        BY <2>1 DEF swept, Windows
      <3>2. Sound(None, adm[x], now, D)
        BY DEF Sound, Windows
      <3>3. allLimited(limit, x) => Exact(None, adm[x], now, D, LimitsOf(limit, x))
        BY <2>1, <3>1, SweepExact, LimitsFacts DEF Windows
      <3> QED BY <3>1, <3>2, <3>3
    <2>2. CASE ~(c[x] # None /\ now > c[x].windowEnd)
      BY <2>2 DEF swept, Windows
    <2> QED BY <2>1, <2>2
  <1> QED BY <1>1, <1>2 DEF Windows

LEMMA TickWindows ==
  ASSUME NEW limit \in [Keys -> Nat], NEW D \in Nat, NEW n \in Nat, NEW c, NEW adm,
         Windows(c, adm, n, limit, D)
  PROVE  Windows(c, adm, n + 1, limit, D)
  <1> SUFFICES ASSUME NEW x \in Hashes
               PROVE  /\ Sound(c[x], adm[x], n + 1, D)
                      /\ allLimited(limit, x) =>
                            Exact(c[x], adm[x], n + 1, D, LimitsOf(limit, x))
    BY DEF Windows
  <1>1. Sound(c[x], adm[x], n, D)
    BY DEF Windows
  <1>2. allLimited(limit, x) => LimitsOf(limit, x) \in SUBSET Nat
    BY LimitsFacts
  <1> QED BY <1>1, <1>2, TickWindow DEF Windows

-----------------------------------------------------------------------------
(* The limiter.                                                            *)

\* The limits in force are numbers, whatever the rules say.
LEMMA LimitTypes == perMinute \in [Keys -> Nat] /\ perHour \in [Keys -> Nat]
  <1>1. Default.perMinute \in Nat /\ Default.perHour \in Nat
    BY LimiterAssumption
  <1>2. \A i \in 1 .. Len(Rules) : Rules[i].perMinute \in Nat /\ Rules[i].perHour \in Nat
    <2>1. \A i \in 1 .. Len(Rules) :
             Rules[i] \in [pattern : SUBSET Keys, perMinute : Nat, perHour : Nat]
      BY LimiterAssumption, ElementOfSeq
    <2> QED BY <2>1
  <1>3. \A i \in 1 .. Len(Rules) : /\ mergeWithDefault(Rules[i]).perMinute \in Nat
                                   /\ mergeWithDefault(Rules[i]).perHour \in Nat
    <2> SUFFICES ASSUME NEW i \in 1 .. Len(Rules)
                 PROVE  /\ mergeWithDefault(Rules[i]).perMinute \in Nat
                        /\ mergeWithDefault(Rules[i]).perHour \in Nat
      OBVIOUS
    <2>1. mergeWithDefault(Rules[i]).perMinute \in {Default.perMinute, Rules[i].perMinute}
      BY DEF mergeWithDefault
    <2>2. mergeWithDefault(Rules[i]).perHour \in {Default.perHour, Rules[i].perHour}
      BY DEF mergeWithDefault
    <2> QED BY <1>1, <1>2, <2>1, <2>2
  <1>4. ASSUME NEW k PROVE matchRule(k).perMinute \in Nat /\ matchRule(k).perHour \in Nat
    <2>1. CASE \E i \in 1 .. Len(Rules) : firstFor(k, i)
      <3> DEFINE j == CHOOSE i \in 1 .. Len(Rules) : firstFor(k, i)
      <3>1. j \in 1 .. Len(Rules)
        BY <2>1
      <3> HIDE DEF j
      <3>2. matchRule(k) = mergeWithDefault(Rules[j])
        BY <2>1 DEF matchRule, j
      <3> QED BY <1>3, <3>1, <3>2
    <2>2. CASE ~\E i \in 1 .. Len(Rules) : firstFor(k, i)
      BY <1>1, <2>2 DEF matchRule
    <2> QED BY <2>1, <2>2
  <1> QED BY <1>4 DEF perMinute, perHour

LEMMA IInvFacts ==
  ASSUME IInv
  PROVE  /\ now \in Nat /\ Minute \in Nat /\ Hour \in Nat
         /\ admitted \in [Hashes -> Seq(0 .. now)]
         /\ \A k \in Keys : /\ hash[k] \in Hashes
                            /\ minuteWindow(k) = renewed(minuteCounters[hash[k]], now, Minute)
                            /\ hourWindow(k) = renewed(hourCounters[hash[k]], now, Hour)
                            /\ minuteWindow(k).count \in Nat /\ hourWindow(k).count \in Nat
                            /\ perMinute[k] \in Nat /\ perHour[k] \in Nat
  <1>1. now \in Nat /\ Minute \in Nat /\ Hour \in Nat
    BY LimiterAssumption DEF IInv, TypeOK, Times
  <1>2. \A x \in Hashes : admitted[x] \in Seq(0 .. now)
    BY DEF IInv, MinuteInv, Windows, Sound
  <1>3. admitted \in [Hashes -> Seq(0 .. now)]
    BY <1>2 DEF IInv, TypeOK
  <1>4. ASSUME NEW k \in Keys
        PROVE  /\ hash[k] \in Hashes
               /\ minuteWindow(k) = renewed(minuteCounters[hash[k]], now, Minute)
               /\ hourWindow(k) = renewed(hourCounters[hash[k]], now, Hour)
               /\ minuteWindow(k).count \in Nat /\ hourWindow(k).count \in Nat
               /\ perMinute[k] \in Nat /\ perHour[k] \in Nat
    <2>1. hash[k] \in Hashes
      BY LimiterAssumption
    <2>2. /\ minuteWindow(k) = renewed(minuteCounters[hash[k]], now, Minute)
          /\ hourWindow(k) = renewed(hourCounters[hash[k]], now, Hour)
      BY DEF minuteWindow, hourWindow, window, renewed
    <2>3. Sound(minuteCounters[hash[k]], admitted[hash[k]], now, Minute)
      BY <2>1 DEF IInv, MinuteInv, Windows
    <2>4. Sound(hourCounters[hash[k]], admitted[hash[k]], now, Hour)
      BY <2>1 DEF IInv, HourInv, Windows
    <2>5. minuteWindow(k) \in Window /\ hourWindow(k) \in Window
      BY <1>1, <2>2, <2>3, <2>4, RenewSound
    <2> QED BY <2>1, <2>2, <2>5, LimitTypes DEF Window
  <1> QED BY <1>1, <1>3, <1>4

LEMMA InitIInv == Init => IInv
  <1> SUFFICES ASSUME Init PROVE IInv
    OBVIOUS
  <1>1. now = 0 /\ \A x \in Hashes : /\ minuteCounters[x] = None /\ hourCounters[x] = None
                                     /\ admitted[x] = <<>>
    BY DEF Init
  <1>2. TypeOK
    BY LimiterAssumption DEF Init, TypeOK, Times
  <1>3. ASSUME NEW a, NEW b PROVE number(<<>>, a, b) = 0
    <2>1. In(<<>>, a, b) = {}
      BY DEF In
    <2> QED BY <2>1, FS_EmptySet DEF number
  <1>4. ASSUME NEW D \in Nat PROVE Sound(None, <<>>, 0, D)
    BY DEF Sound
  <1>5. ASSUME NEW D \in Nat, NEW L, L \subseteq Nat, L # {}
        PROVE  Exact(None, <<>>, 0, D, L) /\ Twice(<<>>, D, L)
    <2>1. PICK l \in L : l \in Nat
      BY <1>5
    <2>2. Within(0, L) /\ \E j \in L : 0 <= 2 * j
      BY <2>1 DEF Within
    <2> QED BY <1>3, <2>2 DEF Exact, Twice
  <1>6. ASSUME NEW limit \in [Keys -> Nat], NEW D \in Nat, NEW c,
               c \in [Hashes -> Window \cup {None}], \A x \in Hashes : c[x] = None
        PROVE  Windows(c, admitted, now, limit, D)
    BY <1>1, <1>4, <1>5, <1>6, LimitsFacts DEF Windows
  <1>7. Minute \in Nat /\ Hour \in Nat
    BY LimiterAssumption
  <1>8. MinuteInv
    BY <1>1, <1>2, <1>6, <1>7, LimitTypes DEF MinuteInv, TypeOK
  <1>9. HourInv
    BY <1>1, <1>2, <1>6, <1>7, LimitTypes DEF HourInv, TypeOK
  <1> QED BY <1>2, <1>8, <1>9 DEF IInv

LEMMA IInvStep == IInv /\ [Next]_vars => IInv'
  <1> SUFFICES ASSUME IInv, [Next]_vars PROVE IInv'
    OBVIOUS
  <1> DEFINE MW(c, a) == Windows(c, a, now, perMinute, Minute)
             HW(c, a) == Windows(c, a, now, perHour, Hour)
  <1>0. TypeOK /\ MW(minuteCounters, admitted) /\ HW(hourCounters, admitted)
    BY DEF IInv, MinuteInv, HourInv
  <1>1. /\ MinuteInv' /\ HourInv'
        /\ now' \in Times /\ admitted' \in [Hashes -> Seq(Times)]
        => IInv'
    BY DEF IInv, TypeOK, MinuteInv, HourInv, Windows
  <1>2. ASSUME NEW k \in Keys, AllowMinuteFull(k) PROVE IInv'
    <2>1. UNCHANGED <<now, hourCounters, admitted>>
      BY <1>2 DEF AllowMinuteFull
    <2>2. MW([minuteCounters EXCEPT ![hash[k]] = minuteWindow(k)], admitted)
      BY <1>0, IInvFacts, LimitTypes, RenewWindows
    <2>3. minuteCounters' = [minuteCounters EXCEPT ![hash[k]] = minuteWindow(k)]
      BY <1>2 DEF AllowMinuteFull, put
    <2> QED BY <1>0, <1>1, <2>1, <2>2, <2>3 DEF MinuteInv, HourInv, TypeOK
  <1>3. ASSUME NEW k \in Keys, AllowHourFull(k) PROVE IInv'
    <2>1. UNCHANGED <<now, admitted>>
      BY <1>3 DEF AllowHourFull
    <2>2. MW([minuteCounters EXCEPT ![hash[k]] = minuteWindow(k)], admitted)
      BY <1>0, IInvFacts, LimitTypes, RenewWindows
    <2>3. HW([hourCounters EXCEPT ![hash[k]] = hourWindow(k)], admitted)
      BY <1>0, IInvFacts, LimitTypes, RenewWindows
    <2>4. /\ \/ minuteCounters' = [minuteCounters EXCEPT ![hash[k]] = minuteWindow(k)]
             \/ minuteCounters' = minuteCounters
          /\ hourCounters' = [hourCounters EXCEPT ![hash[k]] = hourWindow(k)]
      BY <1>3 DEF AllowHourFull, put
    <2> QED BY <1>0, <1>1, <2>1, <2>2, <2>3, <2>4 DEF MinuteInv, HourInv, TypeOK
  <1>4. ASSUME NEW k \in Keys, AllowPass(k) PROVE IInv'
    <2> DEFINE a2 == [admitted EXCEPT ![hash[k]] = Append(@, now)]
    <2>1. now' = now /\ admitted' = a2
      BY <1>4 DEF AllowPass
    <2>2. a2 \in [Hashes -> Seq(Times)]
      BY <1>0, IInvFacts DEF TypeOK, Times
    <2>3. MW(minuteCounters', a2)
      <3>1. CASE perMinute[k] > 0
        <4>1. minuteWindow(k).count < perMinute[k]
          BY <1>4, <3>1, IInvFacts DEF AllowPass, minuteFull
        <4>2. minuteCounters' = [minuteCounters EXCEPT ![hash[k]] = counted(minuteWindow(k))]
          BY <1>4, <3>1 DEF AllowPass, put
        <4> QED BY <1>0, <4>1, <4>2, IInvFacts, LimitTypes, CountedWindows
      <3>2. CASE ~(perMinute[k] > 0)
        <4>1. minuteCounters' = minuteCounters
          BY <1>4, <3>2 DEF AllowPass
        <4> QED BY <1>0, <3>2, <4>1, IInvFacts, LimitTypes, UncountedWindows
      <3> QED BY <3>1, <3>2
    <2>4. HW(hourCounters', a2)
      <3>1. CASE perHour[k] > 0
        <4>1. hourWindow(k).count < perHour[k]
          BY <1>4, <3>1, IInvFacts DEF AllowPass, hourFull
        <4>2. hourCounters' = [hourCounters EXCEPT ![hash[k]] = counted(hourWindow(k))]
          BY <1>4, <3>1 DEF AllowPass, put
        <4> QED BY <1>0, <4>1, <4>2, IInvFacts, LimitTypes, CountedWindows
      <3>2. CASE ~(perHour[k] > 0)
        <4>1. hourCounters' = hourCounters
          BY <1>4, <3>2 DEF AllowPass
        <4> QED BY <1>0, <3>2, <4>1, IInvFacts, LimitTypes, UncountedWindows
      <3> QED BY <3>1, <3>2
    <2> QED BY <1>0, <1>1, <2>1, <2>2, <2>3, <2>4 DEF MinuteInv, HourInv, TypeOK
  <1>5. CASE evictExpired
    <2>1. /\ minuteCounters' = swept(minuteCounters) /\ hourCounters' = swept(hourCounters)
          /\ now' = now /\ admitted' = admitted
      BY <1>5 DEF evictExpired
    <2>2. MW(swept(minuteCounters), admitted) /\ HW(swept(hourCounters), admitted)
      BY <1>0, IInvFacts, LimitTypes, SweptWindows
    <2> QED BY <1>0, <1>1, <2>1, <2>2 DEF MinuteInv, HourInv, TypeOK
  <1>6. CASE Tick
    <2>1. /\ UNCHANGED <<minuteCounters, hourCounters, admitted>>
          /\ now' = now + 1 /\ now' \in Times
      BY <1>6, LimiterAssumption DEF Tick, IInv, TypeOK, Times
    <2>2. /\ Windows(minuteCounters, admitted, now + 1, perMinute, Minute)
          /\ Windows(hourCounters, admitted, now + 1, perHour, Hour)
      BY <1>0, IInvFacts, LimitTypes, TickWindows
    <2> QED BY <1>0, <1>1, <2>1, <2>2 DEF MinuteInv, HourInv, TypeOK
  <1>7. CASE UNCHANGED vars
    BY <1>0, <1>1, <1>7 DEF vars, MinuteInv, HourInv, TypeOK
  <1> QED BY <1>2, <1>3, <1>4, <1>5, <1>6, <1>7 DEF Next, Allow

LEMMA LimiterIInv == Spec => []IInv
  BY InitIInv, IInvStep, PTL DEF Spec

LEMMA PassedNumber == \A x, a, b : passed(x, a, b) = number(admitted[x], a, b)
  BY DEF passed, number, In

\* A window counts exactly the requests let through since it began, where
\* every key that shares its hash has such a limit.
THEOREM LimiterCountsPassed == Spec => []CountsPassed
  <1>1. IInv => CountsPassed
    BY PassedNumber DEF IInv, MinuteInv, HourInv, Windows, Exact, CountsPassed
  <1> QED BY <1>1, LimiterIInv, PTL

\* Any stretch of time as long as a window sees at most twice a limit of the
\* keys that share the hash, at whatever moments windows begin, end and are
\* swept.
THEOREM LimiterTwiceTheLimit == Spec => []TwiceTheLimit
  <1>1. IInv => TwiceTheLimit
    <2> SUFFICES ASSUME IInv, NEW x \in Hashes, NEW t \in Times
                 PROVE  /\ allLimited(perMinute, x) =>
                             \E k \in Keys : hash[k] = x /\ passed(x, t, t + Minute) <= 2 * perMinute[k]
                        /\ allLimited(perHour, x) =>
                             \E k \in Keys : hash[k] = x /\ passed(x, t, t + Hour) <= 2 * perHour[k]
      BY DEF TwiceTheLimit
    <2>1. t \in Nat
      BY DEF Times
    <2>2. ASSUME allLimited(perMinute, x)
          PROVE  \E l \in LimitsOf(perMinute, x) : passed(x, t, t + Minute) <= 2 * l
      BY <2>1, <2>2, PassedNumber DEF IInv, MinuteInv, Windows, Twice
    <2>3. ASSUME allLimited(perHour, x)
          PROVE  \E l \in LimitsOf(perHour, x) : passed(x, t, t + Hour) <= 2 * l
      BY <2>1, <2>3, PassedNumber DEF IInv, HourInv, Windows, Twice
    <2> QED BY <2>2, <2>3 DEF LimitsOf
  <1> QED BY <1>1, LimiterIInv, PTL

-----------------------------------------------------------------------------
(* Refusals.                                                               *)

\* A full window was filled by requests of the last window's length.
LEMMA FullNumber ==
  ASSUME NEW D \in Nat, NEW n \in Nat, NEW w, NEW s, Sound(w, s, n, D),
         NEW l \in Nat, l > 0, renewed(w, n, D).count >= l
  PROVE  number(s, n - D, n) >= l
  <1>1. w # None /\ ~(n > w.windowEnd)
    <2>1. CASE w = None \/ n > w.windowEnd
      <3>1. renewed(w, n, D).count = 0
        BY <2>1 DEF renewed
      <3> QED BY <3>1
    <2> QED BY <2>1
  <1>2. /\ w.count >= l /\ w.count \in Nat /\ w.windowEnd \in Nat
        /\ w.count <= number(s, w.windowEnd - D, w.windowEnd)
    BY <1>1 DEF renewed, Sound, Window
  <1>3. Len(s) \in Nat /\ \A i \in 1 .. Len(s) : s[i] \in 0 .. n
    BY DEF Sound
  <1>4. In(s, w.windowEnd - D, w.windowEnd) \subseteq In(s, n - D, n)
    BY <1>1, <1>2, <1>3 DEF In
  <1>5. number(s, w.windowEnd - D, w.windowEnd) <= number(s, n - D, n)
    BY <1>3, <1>4, NumberSubset
  <1>6. number(s, w.windowEnd - D, w.windowEnd) \in Nat /\ number(s, n - D, n) \in Nat
    BY <1>3, InFinite
  <1> QED BY <1>2, <1>5, <1>6

\* Why a refusal of hash x at time t is justified by the requests adm.
Cause(adm, x, t) ==
    \E k \in Keys : hash[k] = x /\
       \/ perMinute[k] > 0 /\ number(adm[x], t - Minute, t) >= perMinute[k]
       \/ perHour[k] > 0 /\ number(adm[x], t - Hour, t) >= perHour[k]

Justified ==
    refused # None => /\ refused.hash \in Hashes /\ refused.at \in Nat
                      /\ Cause(admitted, refused.hash, refused.at)

\* Letting requests through takes no cause away.
LEMMA CauseKept ==
  ASSUME NEW n \in Nat, NEW adm \in [Hashes -> Seq(0 .. n)], NEW y \in Hashes,
         NEW x \in Hashes, NEW t \in Nat, Cause(adm, x, t)
  PROVE  Cause([adm EXCEPT ![y] = Append(@, n)], x, t)
  <1> DEFINE a2 == [adm EXCEPT ![y] = Append(@, n)]
  <1>1. ASSUME NEW D \in Nat
        PROVE  /\ number(a2[x], t - D, t) \in Nat /\ number(adm[x], t - D, t) \in Nat
               /\ number(a2[x], t - D, t) >= number(adm[x], t - D, t)
    <2>0. adm[x] \in Seq(0 .. n) /\ Len(adm[x]) \in Nat /\ t - D \in Int /\ t \in Int
      OBVIOUS
    <2>1. number(adm[x], t - D, t) \in Nat
      BY <2>0, InFinite
    <2>2. CASE x = y
      <3>1. a2[x] = Append(adm[x], n)
        BY <2>2
      <3>2. number(Append(adm[x], n), t - D, t)
              \in {number(adm[x], t - D, t), number(adm[x], t - D, t) + 1}
        BY <2>0, InAppend
      <3> QED BY <2>1, <3>1, <3>2
    <2>3. CASE x # y
      BY <2>1, <2>3
    <2> QED BY <2>2, <2>3
  <1>2. PICK k \in Keys : hash[k] = x /\
             \/ perMinute[k] > 0 /\ number(adm[x], t - Minute, t) >= perMinute[k]
             \/ perHour[k] > 0 /\ number(adm[x], t - Hour, t) >= perHour[k]
    BY DEF Cause
  <1>3. Minute \in Nat /\ Hour \in Nat /\ perMinute[k] \in Nat /\ perHour[k] \in Nat
    BY LimiterAssumption, LimitTypes
  <1> HIDE DEF a2
  <1>4. \/ perMinute[k] > 0 /\ number(a2[x], t - Minute, t) >= perMinute[k]
        \/ perHour[k] > 0 /\ number(a2[x], t - Hour, t) >= perHour[k]
    <2>1. /\ number(a2[x], t - Minute, t) \in Nat /\ number(adm[x], t - Minute, t) \in Nat
          /\ number(a2[x], t - Minute, t) >= number(adm[x], t - Minute, t)
      BY <1>1, <1>3
    <2>2. /\ number(a2[x], t - Hour, t) \in Nat /\ number(adm[x], t - Hour, t) \in Nat
          /\ number(a2[x], t - Hour, t) >= number(adm[x], t - Hour, t)
      BY <1>1, <1>3
    <2>3. CASE perMinute[k] > 0 /\ number(adm[x], t - Minute, t) >= perMinute[k]
      <3>1. number(a2[x], t - Minute, t) >= perMinute[k]
        BY <1>3, <2>1, <2>3
      <3> QED BY <2>3, <3>1
    <2>4. CASE perHour[k] > 0 /\ number(adm[x], t - Hour, t) >= perHour[k]
      <3>1. number(a2[x], t - Hour, t) >= perHour[k]
        BY <1>3, <2>2, <2>4
      <3> QED BY <2>4, <3>1
    <2> QED BY <1>2, <2>3, <2>4
  <1>5. Cause(a2, x, t)
    BY <1>2, <1>4 DEF Cause
  <1> QED BY <1>5 DEF a2

LEMMA JustifiedStep == IInv /\ Justified /\ [Next]_vars => Justified'
  <1> SUFFICES ASSUME IInv, Justified, [Next]_vars PROVE Justified'
    OBVIOUS
  <1>1. ASSUME NEW k \in Keys, AllowMinuteFull(k) \/ AllowHourFull(k) PROVE Justified'
    <2>1. refused'.hash = hash[k] /\ refused'.at = now /\ admitted' = admitted
      BY <1>1 DEF AllowMinuteFull, AllowHourFull, Refuse
    <2>2. /\ Sound(minuteCounters[hash[k]], admitted[hash[k]], now, Minute)
          /\ Sound(hourCounters[hash[k]], admitted[hash[k]], now, Hour)
      BY IInvFacts DEF IInv, MinuteInv, HourInv, Windows
    <2>3. \/ perMinute[k] > 0 /\ minuteWindow(k).count >= perMinute[k]
          \/ perHour[k] > 0 /\ hourWindow(k).count >= perHour[k]
      BY <1>1 DEF AllowMinuteFull, AllowHourFull, minuteFull, hourFull
    <2>4. \/ perMinute[k] > 0 /\ number(admitted[hash[k]], now - Minute, now) >= perMinute[k]
          \/ perHour[k] > 0 /\ number(admitted[hash[k]], now - Hour, now) >= perHour[k]
      BY <2>2, <2>3, IInvFacts, FullNumber
    <2>5. Cause(admitted, hash[k], now)
      BY <2>4 DEF Cause
    <2> QED BY <2>1, <2>5, IInvFacts DEF Justified
  <1>2. ASSUME NEW k \in Keys, AllowPass(k) PROVE Justified'
    <2>1. refused' = refused /\ admitted' = [admitted EXCEPT ![hash[k]] = Append(@, now)]
      BY <1>2 DEF AllowPass
    <2> QED BY <2>1, IInvFacts, CauseKept DEF Justified
  <1>3. CASE UNCHANGED <<admitted, refused>>
    BY <1>3 DEF Justified
  <1> QED BY <1>1, <1>2, <1>3 DEF Next, Allow, evictExpired, Tick, vars

\* Nobody is refused without cause: within the last minute, or the last hour,
\* some key of the hash was let through as often as its limit allows, and no
\* later request, window or sweep takes that away.
THEOREM LimiterRefusalJustified == Spec => []RefusalJustified
  <1>1. Init => Justified
    BY DEF Init, Justified
  <1>2. Justified => RefusalJustified
    BY PassedNumber DEF Justified, Cause, RefusalJustified
  <1> QED BY <1>1, <1>2, JustifiedStep, LimiterIInv, PTL DEF Spec

-----------------------------------------------------------------------------
(* Alerts.                                                                 *)

\* What the table says of key k agrees with the last alert let through.
Agrees(k) ==
    /\ seen[k] = NoEntry => attempted[k] = Cooldown
    /\ seen[k] # NoEntry /\ seen[k] < Cooldown => attempted[k] = seen[k]
    /\ seen[k] # NoEntry /\ seen[k] >= Cooldown => attempted[k] = Cooldown

\* The state of a call: what it may be, and how far it has come.
Locals == [pc : {"idle", "send", "suppressed", "hung", "left", "returned"},
           key : AlertKeys \cup {NoEntry}, next : 1 .. N + 1]

InLoop(a) ==
    /\ g[a].pc = "idle" => g[a].next = 1
    /\ g[a].pc = "send" => g[a].next \in 1 .. N /\ g[a].key \in AlertKeys
    /\ g[a].pc = "returned" => g[a].next = N + 1

Tables ==
    /\ seen \in [AlertKeys -> (0 .. 2 * Cooldown + 1) \cup {NoEntry}]
    /\ attempted \in [AlertKeys -> 0 .. Cooldown]
    /\ \A k \in AlertKeys : Agrees(k)

Callers ==
    /\ g \in [Goroutines -> Locals]
    /\ \A a \in Goroutines : InLoop(a)

Others ==
    /\ answers \in [Destinations -> {"accepts", "refuses", "silent"}]
    /\ delivered \in [AlertKeys -> 0 .. Cooldown]

AlertsInv == Tables /\ Callers /\ Others

\* The inductive invariant contains the type invariant.
LEMMA AlertsInvTypeOK == AlertsInv => AlertsTypeOK
BY DEF AlertsInv, Tables, Callers, Others, AlertsTypeOK, Locals, InLoop

\* Eviction yields a table.
LEMMA EvictedType ==
    ASSUME NEW table \in [AlertKeys -> (0 .. 2 * Cooldown + 1) \cup {NoEntry}]
    PROVE  evicted(table) \in [AlertKeys -> (0 .. 2 * Cooldown + 1) \cup {NoEntry}]
BY AlertsAssumption DEF evicted

\* Initially the table is empty and no alert has been let through.
LEMMA InitAlertsInv == AlertsInit => AlertsInv
<1> SUFFICES ASSUME AlertsInit PROVE AlertsInv OBVIOUS
<1> USE AlertsAssumption DEF AlertsInit
<1>1. Tables BY DEF Tables, Agrees
<1>2. Callers BY DEF Callers, Locals, InLoop, Idle
<1>3. Others BY DEF Others
<1> QED BY <1>1, <1>2, <1>3 DEF AlertsInv

\* A step that moves one call to a legal state keeps all calls legal.
LEMMA CallersStep ==
    ASSUME Callers, NEW a \in Goroutines, NEW v \in Locals, g' = [g EXCEPT ![a] = v],
           v.pc = "idle" => v.next = 1,
           v.pc = "send" => v.next \in 1 .. N /\ v.key \in AlertKeys,
           v.pc = "returned" => v.next = N + 1
    PROVE  Callers'
<1>1. g' \in [Goroutines -> Locals]
  BY DEF Callers
<1>2. ASSUME NEW b \in Goroutines PROVE InLoop(b)'
  BY DEF Callers, InLoop
<1> QED BY <1>1, <1>2 DEF Callers

\* The critical section of Notify keeps table and history in agreement:
\* eviction never removes an entry that still suppresses alerts.
LEMMA NotifyTables ==
    ASSUME Tables, NEW a \in Goroutines, NEW k \in AlertKeys, Notify(a, k)
    PROVE  Tables'
<1> USE AlertsAssumption
<1>1. CASE suppressed(k)
  <2>1. UNCHANGED <<seen, attempted>>
    BY <1>1 DEF Notify
  <2> QED BY <2>1 DEF Tables, Agrees
<1>2. CASE ~suppressed(k)
  <2>1. /\ seen' = evicted([seen EXCEPT ![k] = 0])
        /\ attempted' = [attempted EXCEPT ![k] = 0]
    BY <1>2 DEF Notify
  <2>2. seen' \in [AlertKeys -> (0 .. 2 * Cooldown + 1) \cup {NoEntry}]
    <3>1. [seen EXCEPT ![k] = 0] \in [AlertKeys -> (0 .. 2 * Cooldown + 1) \cup {NoEntry}]
      BY DEF Tables
    <3> QED BY <2>1, <3>1, EvictedType
  <2>3. attempted' \in [AlertKeys -> 0 .. Cooldown]
    BY <2>1 DEF Tables
  <2>4. ASSUME NEW j \in AlertKeys PROVE Agrees(j)'
    <3>1. /\ seen \in [AlertKeys -> (0 .. 2 * Cooldown + 1) \cup {NoEntry}]
          /\ attempted \in [AlertKeys -> 0 .. Cooldown]
          /\ Agrees(j)
      BY DEF Tables
    <3>2. CASE j = k
      <4>1. seen'[j] = 0 /\ attempted'[j] = 0
        BY <2>1, <3>1, <3>2 DEF evicted
      <4> QED BY <4>1 DEF Agrees
    <3>3. CASE j # k
      <4>1. attempted'[j] = attempted[j]
        BY <2>1, <3>1, <3>3
      <4>2. seen'[j] = IF seen[j] # NoEntry /\ seen[j] > 2 * Cooldown THEN NoEntry ELSE seen[j]
        BY <2>1, <3>1, <3>3 DEF evicted
      <4> QED BY <3>1, <4>1, <4>2 DEF Agrees
    <3> QED BY <3>2, <3>3
  <2> QED BY <2>2, <2>3, <2>4 DEF Tables
<1> QED BY <1>1, <1>2

\* Time makes an entry and the alert it stands for older alike.
LEMMA TickTables ==
    ASSUME Tables, AlertsTick
    PROVE  Tables'
<1> USE AlertsAssumption
<1>1. /\ seen' \in [AlertKeys -> (0 .. 2 * Cooldown + 1) \cup {NoEntry}]
      /\ attempted' \in [AlertKeys -> 0 .. Cooldown]
  BY DEF Tables, AlertsTick, older
<1>2. ASSUME NEW k \in AlertKeys PROVE Agrees(k)'
  <2>1. /\ seen[k] \in (0 .. 2 * Cooldown + 1) \cup {NoEntry}
        /\ attempted[k] \in 0 .. Cooldown
        /\ Agrees(k)
    BY DEF Tables
  <2>2. /\ seen'[k] = IF seen[k] = NoEntry THEN NoEntry ELSE older(seen[k], 2 * Cooldown + 1)
        /\ attempted'[k] = older(attempted[k], Cooldown)
    BY DEF AlertsTick
  <2> QED BY <2>1, <2>2 DEF Agrees, older
<1> QED BY <1>1, <1>2 DEF Tables

\* Every step preserves the inductive invariant.
LEMMA NextAlertsInv == AlertsInv /\ [AlertsNext]_alertsVars => AlertsInv'
<1> SUFFICES ASSUME AlertsInv, [AlertsNext]_alertsVars PROVE AlertsInv' OBVIOUS
<1> USE AlertsAssumption
<1>0. Tables /\ Callers /\ Others
  BY DEF AlertsInv
<1>1. ASSUME NEW a \in Goroutines, NEW k \in AlertKeys, Notify(a, k) PROVE AlertsInv'
  <2>1. Tables'
    BY <1>0, <1>1, NotifyTables
  <2>2. Callers'
    <3>1. g[a] \in Locals /\ g[a].pc = "idle" /\ g[a].next = 1
      BY <1>0, <1>1 DEF Callers, InLoop, Notify
    <3>2. PICK p \in {"suppressed", "send"} : g' = [g EXCEPT ![a] = [@ EXCEPT !.key = k, !.pc = p]]
      BY <1>1 DEF Notify
    <3> DEFINE v == [g[a] EXCEPT !.key = k, !.pc = p]
    <3>3. /\ v \in Locals
          /\ v.pc # "idle" /\ v.pc # "returned"
          /\ v.next \in 1 .. N /\ v.key \in AlertKeys
      <4>0. v = [g[a] EXCEPT !.key = k, !.pc = p]
        OBVIOUS
      <4> HIDE DEF v
      <4>1. v = [pc |-> p, key |-> k, next |-> 1]
        BY <3>1, <4>0 DEF Locals
      <4>2. v \in Locals
        BY <4>1, AlertsAssumption DEF Locals
      <4> QED BY <4>1, <4>2
    <3>4. g' = [g EXCEPT ![a] = v]
      BY <3>2
    <3> HIDE DEF v
    <3> QED BY <1>0, <3>3, <3>4, CallersStep
  <2>3. Others'
    BY <1>0, <1>1 DEF Others, Notify
  <2> QED BY <2>1, <2>2, <2>3 DEF AlertsInv
<1>2. ASSUME NEW a \in Goroutines, Send(a) PROVE AlertsInv'
  <2>1. g[a] \in Locals /\ g[a].pc = "send" /\ g[a].next \in 1 .. N /\ g[a].key \in AlertKeys
    BY <1>0, <1>2 DEF Callers, InLoop, Send
  <2>2. Tables'
    BY <1>0, <1>2 DEF Tables, Agrees, Send
  <2>3. Callers'
    <3> DEFINE v == after(a, answers[g[a].next] = "accepts")
    <3>1. v = [g[a] EXCEPT !.next = g[a].next + 1,
                           !.pc = IF g[a].next = N THEN "returned" ELSE "send"]
      BY Zenon DEF after
    <3> HIDE DEF v
    <3>3. v = [pc |-> IF g[a].next = N THEN "returned" ELSE "send", key |-> g[a].key,
               next |-> g[a].next + 1]
      BY <2>1, <3>1 DEF Locals
    <3>4. v \in Locals
      BY <2>1, <3>3 DEF Locals
    <3>5. /\ v.pc = "send" => v.next \in 1 .. N /\ v.key \in AlertKeys
          /\ v.pc = "returned" => v.next = N + 1
          /\ v.pc # "idle"
      BY <2>1, <3>3
    <3>6. g' = [g EXCEPT ![a] = v]
      BY <1>2 DEF Send, v
    <3> QED BY <1>0, <3>4, <3>5, <3>6, CallersStep
  <2>4. Others'
    BY <1>0, <1>2, <2>1 DEF Others, Send
  <2> QED BY <2>2, <2>3, <2>4 DEF AlertsInv
<1>3. ASSUME NEW a \in Goroutines, Hang(a) \/ Leave(a) PROVE AlertsInv'
  <2>1. g[a] \in Locals
    BY <1>0 DEF Callers
  <2>2. PICK p \in {"hung", "left"} : g' = [g EXCEPT ![a].pc = p]
    BY <1>3 DEF Hang, Leave
  <2> DEFINE v == [g[a] EXCEPT !.pc = p]
  <2>3. v \in Locals /\ v.pc = p
    BY <2>1 DEF Locals
  <2>4. g' = [g EXCEPT ![a] = v]
    BY <2>2
  <2> HIDE DEF v
  <2>5. Callers'
    BY <1>0, <2>3, <2>4, CallersStep
  <2>6. Tables' /\ Others'
    BY <1>0, <1>3 DEF Hang, Leave, Tables, Agrees, Others
  <2> QED BY <2>5, <2>6 DEF AlertsInv
<1>4. ASSUME NEW a \in Goroutines, Return(a) PROVE AlertsInv'
  <2>1. Idle \in Locals /\ Idle.pc = "idle" /\ Idle.next = 1
    BY DEF Idle, Locals
  <2>2. g' = [g EXCEPT ![a] = Idle]
    BY <1>4 DEF Return
  <2>3. Callers'
    BY <1>0, <2>1, <2>2, CallersStep
  <2>4. Tables' /\ Others'
    BY <1>0, <1>4 DEF Return, Tables, Agrees, Others
  <2> QED BY <2>3, <2>4 DEF AlertsInv
<1>5. ASSUME NEW n \in Destinations, Change(n) PROVE AlertsInv'
  <2>1. Tables' /\ Callers'
    BY <1>0, <1>5 DEF Change, Tables, Agrees, Callers, InLoop
  <2>2. Others'
    BY <1>0, <1>5 DEF Change, Others
  <2> QED BY <2>1, <2>2 DEF AlertsInv
<1>6. CASE AlertsTick
  <2>1. Callers'
    BY <1>0, <1>6 DEF AlertsTick, Callers, InLoop
  <2>2. Others'
    BY <1>0, <1>6 DEF AlertsTick, Others, older
  <2> QED BY <1>0, <1>6, <2>1, <2>2, TickTables DEF AlertsInv
<1>7. CASE UNCHANGED alertsVars
  BY <1>0, <1>7 DEF AlertsInv, alertsVars, Tables, Agrees, Callers, InLoop, Others
<1> QED BY <1>1, <1>2, <1>3, <1>4, <1>5, <1>6, <1>7 DEF AlertsNext

\* The inductive invariant holds in every reachable state.
LEMMA SpecAlertsInv == AlertsSpec => []AlertsInv
BY InitAlertsInv, NextAlertsInv, PTL DEF AlertsSpec

\* Every variable has its type, and a call of Notify whose request has not
\* gone away returns only after every destination was tried, for any number of
\* callers, keys and destinations.
THEOREM AlertsTyped == AlertsSpec => []AlertsTypeOK
BY SpecAlertsInv, AlertsInvTypeOK, PTL

\* An alert is let through exactly when the last one with its key is a
\* cooldown ago, whatever goroutines raise it and whatever is evicted.
THEOREM AlertsCooldownExact == AlertsSpec => CooldownExact
<1> USE AlertsAssumption
<1> DEFINE Suited(a) == g[a].pc = "idle" =>
                 /\ g'[a].pc = "send"       => attempted[g'[a].key] = Cooldown
                 /\ g'[a].pc = "suppressed" => attempted[g'[a].key] < Cooldown
<1>1. ASSUME AlertsInv, [AlertsNext]_alertsVars, NEW a \in Goroutines, g[a].pc = "idle",
             g'[a].pc \in {"send", "suppressed"}
      PROVE  Suited(a)
  <2>0. g \in [Goroutines -> Locals]
    BY <1>1 DEF AlertsInv, Callers
  <2>1. PICK k \in AlertKeys : Notify(a, k)
    <3>1. g'[a] # g[a]
      BY <1>1
    <3>2. ASSUME NEW b \in Goroutines, b # a, NEW w, g' = [g EXCEPT ![b] = w] PROVE FALSE
      BY <2>0, <3>1, <3>2
    <3>3. ASSUME NEW b \in Goroutines, Send(b) PROVE FALSE
      <4>1. b # a
        BY <1>1, <3>3 DEF Send
      <4> QED BY <3>2, <3>3, <4>1 DEF Send
    <3>4. ASSUME NEW b \in Goroutines, Return(b) PROVE FALSE
      <4>1. b # a
        BY <1>1, <3>4 DEF Return
      <4> QED BY <3>2, <3>4, <4>1 DEF Return
    <3>5. ASSUME NEW b \in Goroutines, Hang(b) \/ Leave(b) PROVE FALSE
      <4>1. b # a
        BY <1>1, <3>5 DEF Hang, Leave
      <4> QED BY <3>2, <3>5, <4>1 DEF Hang, Leave
    <3>6. ASSUME NEW b \in Goroutines, NEW k \in AlertKeys, Notify(b, k), b # a PROVE FALSE
      BY <2>0, <3>1, <3>6 DEF Notify
    <3>7. ~AlertsTick /\ g' # g /\ ~\E n \in Destinations : Change(n)
      BY <3>1 DEF AlertsTick, Change
    <3> QED BY <1>1, <3>3, <3>4, <3>5, <3>6, <3>7 DEF AlertsNext, alertsVars
  <2>2. g[a] \in Locals /\ Agrees(k) /\ attempted[k] \in 0 .. Cooldown
        /\ seen[k] \in (0 .. 2 * Cooldown + 1) \cup {NoEntry}
    BY <1>1, <2>0 DEF AlertsInv, Tables
  <2>3. CASE suppressed(k)
    <3>1. g'[a].key = k /\ g'[a].pc = "suppressed"
      BY <2>0, <2>1, <2>2, <2>3 DEF Notify, Locals
    <3> QED BY <2>2, <2>3, <3>1 DEF Agrees, suppressed
  <2>4. CASE ~suppressed(k)
    <3>1. g'[a].key = k /\ g'[a].pc = "send"
      BY <2>0, <2>1, <2>2, <2>4 DEF Notify, Locals
    <3> QED BY <2>2, <2>4, <3>1 DEF Agrees, suppressed
  <2> QED BY <2>3, <2>4
<1>2. AlertsInv /\ [AlertsNext]_alertsVars => [\A a \in Goroutines : Suited(a)]_alertsVars
  BY <1>1
<1>3. AlertsSpec => [][\A a \in Goroutines : Suited(a)]_alertsVars
  BY <1>2, SpecAlertsInv, PTL DEF AlertsSpec
<1> QED BY <1>3 DEF CooldownExact
=============================================================================
