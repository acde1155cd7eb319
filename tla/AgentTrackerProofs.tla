------------------------- MODULE AgentTrackerProofs -------------------------
(***************************************************************************)
(* What the session tracker guarantees for any number of sessions and      *)
(* requests, any thresholds, timeouts and capacity: the gauge is exact, no *)
(* update is forgotten between memory and store, and trimming a history    *)
(* changes no loop verdict.                                                *)
(***************************************************************************)
EXTENDS AgentTracker, FiniteSetTheorems, NaturalsInduction,
        WellFoundedInduction, TLAPS

\* Only finitely many sessions are tracked, and the gauge is exact.
GaugeInv == IsFiniteSet(Tracked) /\ GaugeExact

\* A flush that is not under way has no rows left; a request is tracked for a
\* session.
ControlInv ==
    /\ bg # "flush" => pending["bg"] = {}
    /\ close # "flush" => pending["close"] = {}
    /\ \A r \in Requests : /\ req[r].pc = "new" => req[r].session = None
                           /\ req[r].pc = "tracked" => req[r].session \in Sessions

\* What is in memory or was flushed last is complete, and nothing is counted
\* twice.
TruthInv == \A s \in Sessions : Complete(s) /\ NotTwice(s)

\* Flush f has no row of session s left to upsert.
clear(f, s) == \A p \in pending[f] : p[1] # s

\* A clean session is as it was flushed; unless an upsert of it failed, the
\* rows on their way, and the stored one when there is none, are the last one
\* taken or a rival of it; without Close there are no rivals.
SavedInv ==
    \A s \in Sessions :
       /\ s \in Tracked /\ ~isDirty(s) => row(sessions[s]) = taken[s]
       /\ close = "new" => rivals[s] = {}
       /\ s \notin failed => \A f \in Flushes : \A p \in pending[f] : p[1] = s => p[2] \in {taken[s]} \cup rivals[s]
       /\ s \notin failed /\ taken[s] # None /\ (\A f \in Flushes : clear(f, s)) =>
             store[s] \in {taken[s]} \cup rivals[s]

\* Rows that agree but for the status; a row that has at least what another has.
alike(a, b) == a \in Row /\ b \in Row /\ a.callCount = b.callCount /\ a.cost = b.cost
grown(a, b) == a \in Row /\ b \in Row /\ a.callCount <= b.callCount /\ a.cost <= b.cost

\* What Close answers for only grows, in memory and on its way, and is stored
\* when Close has no row of the session left.
CloseInv ==
    \A s \in Sessions :
       /\ close = "new" => due[s] = None
       /\ due[s] # None =>
             /\ s \in Tracked => covers(row(sessions[s]), due[s])
             /\ \A f \in Flushes : \A p \in pending[f] : p[1] = s => covers(p[2], due[s])
             /\ clear("close", s) => covers(store[s], due[s])

\* The history kept is the end of the full history, and every call cut from it
\* is older than the loop window.
EndOf(calls, all) ==
    LET n == Len(all) - Len(calls)
    IN  /\ n >= 0
        /\ LoopWindow = 0 => n = 0
        /\ \A i \in 1 .. Len(calls) : calls[i] = all[n + i]
        /\ \A i \in 1 .. n : all[i].at < now - LoopWindow

\* A tracked session is well-formed: it has a call, it is no ghost before it
\* was reported, and its history is the end of the full one.
SessionOK(ts) ==
    /\ ts \in TrackedSession
    /\ ts.callCount > 0 /\ ts.startedAt <= now
    /\ ~ts.ghostAlerted => ts.ghosts = 0
    /\ EndOf(ts.calls, ts.all)

SessionInv == \A s \in Tracked : SessionOK(sessions[s])

IInv == TypeOK /\ GaugeInv /\ ControlInv /\ SessionInv /\ TruthInv /\ SavedInv /\ CloseInv

-----------------------------------------------------------------------------
(* Records.                                                                *)

\* A tracked session after its assignments.
LEMMA Assigned ==
  ASSUME NEW ts \in TrackedSession
  PROVE  /\ \A calls, all \in Seq(CallRecord), n \in Nat, b \in BOOLEAN :
              [ts EXCEPT !.calls = calls, !.callCount = n, !.dirty = b, !.all = all] \in TrackedSession
         /\ \A st \in Status : [ts EXCEPT !.status = st] \in TrackedSession
         /\ \A n \in Nat : [ts EXCEPT !.cost = n] \in TrackedSession
         /\ \A b \in BOOLEAN : [ts EXCEPT !.dirty = b] \in TrackedSession
         /\ \A st \in Status, b \in BOOLEAN : [ts EXCEPT !.status = st, !.dirty = b] \in TrackedSession
         /\ \A g \in 0 .. 1, b \in BOOLEAN :
              [ts EXCEPT !.ghostAlerted = b, !.ghosts = g] \in TrackedSession
  <1> DEFINE C == Seq(CallRecord)
  <1>1. TrackedSession =
          [startedAt : Nat, status : Status, calls : C, callCount : Nat, cost : Nat,
           dirty : BOOLEAN, ghostAlerted : BOOLEAN, all : C, ghosts : 0 .. 1]
    BY DEF TrackedSession
  <1> HIDE DEF C
  <1>3. \A calls, all \in C, n \in Nat, b \in BOOLEAN :
           [ts EXCEPT !.calls = calls, !.callCount = n, !.dirty = b, !.all = all] \in TrackedSession
    BY <1>1
  <1>4. /\ \A st \in Status : [ts EXCEPT !.status = st] \in TrackedSession
        /\ \A n \in Nat : [ts EXCEPT !.cost = n] \in TrackedSession
    BY <1>1
  <1>5. \A b \in BOOLEAN : [ts EXCEPT !.dirty = b] \in TrackedSession
    BY <1>1
  <1>6. \A st \in Status, b \in BOOLEAN : [ts EXCEPT !.status = st, !.dirty = b] \in TrackedSession
    BY <1>1
  <1>7. \A g \in 0 .. 1, b \in BOOLEAN :
           [ts EXCEPT !.ghostAlerted = b, !.ghosts = g] \in TrackedSession
    BY <1>1
  <1> QED BY <1>3, <1>4, <1>5, <1>6, <1>7 DEF C

LEMMA RowType == ASSUME NEW ts \in TrackedSession PROVE row(ts) \in Row
  BY DEF TrackedSession, row, Row

\* The variables of a well-typed state.
LEMMA TrackedFacts ==
  ASSUME TypeOK
  PROVE  /\ \A s \in Sessions : s \in Tracked <=> sessions[s] \in TrackedSession
         /\ \A s \in Tracked : s \in Sessions /\ row(sessions[s]) \in Row /\ row(sessions[s]) # None
         /\ \A s \in Sessions : /\ truth[s].calls \in Nat /\ truth[s].cost \in Nat
                                /\ before[s].calls \in Nat /\ before[s].cost \in Nat
         /\ \A s \in Sessions : taken[s] # None => taken[s] \in Row
         /\ \A s \in Sessions : store[s] # None => store[s] \in Row
         /\ \A s \in Sessions : due[s] # None => due[s] \in Row
         /\ \A f \in Flushes : \A p \in pending[f] : p[1] \in Sessions /\ p[2] \in Row
  <1>1. \A s \in Sessions : s \in Tracked <=> sessions[s] \in TrackedSession
    BY TrackerAssumption DEF TypeOK, Tracked
  <1>2. \A s \in Tracked : s \in Sessions /\ row(sessions[s]) \in Row /\ row(sessions[s]) # None
    BY <1>1, RowType, TrackerAssumption DEF Tracked
  <1>3. \A s \in Sessions : /\ truth[s].calls \in Nat /\ truth[s].cost \in Nat
                            /\ before[s].calls \in Nat /\ before[s].cost \in Nat
    BY DEF TypeOK, Totals
  <1>4. /\ \A s \in Sessions : taken[s] # None => taken[s] \in Row
        /\ \A s \in Sessions : store[s] # None => store[s] \in Row
        /\ \A s \in Sessions : due[s] # None => due[s] \in Row
    BY DEF TypeOK
  <1>5. \A f \in Flushes : \A p \in pending[f] : p[1] \in Sessions /\ p[2] \in Row
    BY DEF TypeOK
  <1> QED BY <1>1, <1>2, <1>3, <1>4, <1>5

\* Some of it in the next state.
LEMMA NextFacts ==
  ASSUME TypeOK'
  PROVE  /\ \A s \in Tracked' : s \in Sessions /\ row(sessions'[s]) \in Row
         /\ \A s \in Sessions : /\ truth'[s].calls \in Nat /\ truth'[s].cost \in Nat
                                /\ before'[s].calls \in Nat /\ before'[s].cost \in Nat
  <1>1. \A s \in Tracked' : s \in Sessions /\ sessions'[s] \in TrackedSession
    BY DEF TypeOK, Tracked
  <1>2. \A s \in Tracked' : s \in Sessions /\ row(sessions'[s]) \in Row
    BY <1>1, RowType
  <1>3. \A s \in Sessions : /\ truth'[s].calls \in Nat /\ truth'[s].cost \in Nat
                            /\ before'[s].calls \in Nat /\ before'[s].cost \in Nat
    BY DEF TypeOK, Totals
  <1> QED BY <1>2, <1>3

LEMMA RowFields == \A ts : row(ts).callCount = ts.callCount /\ row(ts).cost = ts.cost
  BY DEF row

LEMMA Covers ==
  ASSUME NEW a, NEW b, NEW d \in Row, grown(a, b), covers(a, d)
  PROVE  covers(b, d)
  BY TrackerAssumption DEF grown, covers, Row

-----------------------------------------------------------------------------
(* Histories.                                                              *)

LEMMA NatLeast ==
  ASSUME NEW T, T \subseteq Nat, T # {}
  PROVE  \E x \in T : \A y \in T : x <= y
  <1>1. IsWellFoundedOn(OpToRel(<, Nat), Nat)
    BY NatLessThanWellFounded
  <1>2. PICK x \in T : \A y \in T : ~(<<y, x>> \in OpToRel(<, Nat))
    BY <1>1, WFMin
  <1>3. \A y \in T : ~(y < x)
    BY <1>2 DEF OpToRel
  <1> QED BY <1>3

\* The prefix that is cut exists and is what it is said to be.
LEMMA TrimIdx ==
  ASSUME NEW calls \in Seq(CallRecord), NEW cutoff \in Int
  PROVE  LET n == trimIdx(calls, cutoff)
         IN  n \in 0 .. Len(calls) /\ \A j \in 1 .. n : calls[j].at < cutoff
  <1> DEFINE T == {j \in 1 .. Len(calls) : ~(calls[j].at < cutoff)}
             P(n) == /\ \A j \in 1 .. n : calls[j].at < cutoff
                     /\ n < Len(calls) => calls[n + 1].at >= cutoff
  <1>1. Len(calls) \in Nat /\ \A j \in 1 .. Len(calls) : calls[j].at \in Nat
    <2>1. Len(calls) \in Nat /\ \A j \in 1 .. Len(calls) : calls[j] \in CallRecord
      OBVIOUS
    <2> QED BY <2>1 DEF CallRecord
  <1>2. \E n \in 0 .. Len(calls) : P(n)
    <2>1. CASE T = {}
      BY <1>1, <2>1
    <2>2. CASE T # {}
      <3>1. PICK x \in T : \A y \in T : x <= y
        <4>1. T \subseteq Nat
          BY <1>1
        <4> HIDE DEF T
        <4> QED BY <2>2, <4>1, NatLeast
      <3>2. P(x - 1)
        <4>1. calls[(x - 1) + 1].at >= cutoff
          BY <1>1, <3>1
        <4>2. ASSUME NEW j \in 1 .. x - 1 PROVE calls[j].at < cutoff
          BY <1>1, <3>1
        <4> QED BY <4>1, <4>2
      <3>3. x - 1 \in 0 .. Len(calls)
        BY <1>1
      <3> HIDE DEF P
      <3> QED BY <3>2, <3>3
    <2> QED BY <2>1, <2>2
  <1> QED BY <1>2 DEF trimIdx

\* Trimming keeps the end of a history and cuts what is older than the window.
LEMMA Trim ==
  ASSUME NEW calls \in Seq(CallRecord), now \in Nat
  PROVE  /\ trim(calls) \in Seq(CallRecord)
         /\ Len(trim(calls)) <= Len(calls)
         /\ LoopWindow = 0 => Len(trim(calls)) = Len(calls)
         /\ \A i \in 1 .. Len(trim(calls)) : trim(calls)[i] = calls[Len(calls) - Len(trim(calls)) + i]
         /\ \A i \in 1 .. Len(calls) - Len(trim(calls)) : calls[i].at < now - LoopWindow
  <1>1. LoopWindow \in Nat /\ now - LoopWindow \in Int /\ Len(calls) \in Nat
    BY TrackerAssumption
  <1>2. CASE trim(calls) = calls
    BY <1>1, <1>2
  <1>3. CASE trim(calls) # calls
    <2> DEFINE n == trimIdx(calls, now - LoopWindow)
    <2>1. n \in 0 .. Len(calls) /\ \A j \in 1 .. n : calls[j].at < now - LoopWindow
      BY <1>1, TrimIdx
    <2> HIDE DEF n
    <2>2. LoopWindow > 0 /\ trim(calls) = SubSeq(calls, n + 1, Len(calls))
      BY <1>3 DEF trim, n
    <2>3. /\ trim(calls) \in Seq(CallRecord) /\ Len(trim(calls)) = Len(calls) - n
          /\ \A i \in 1 .. Len(calls) - n : trim(calls)[i] = calls[n + i]
      BY <1>1, <2>1, <2>2
    <2> DEFINE t == trim(calls)
               k == Len(calls) - Len(t)
    <2>4. k = n /\ Len(t) = Len(calls) - n /\ LoopWindow # 0
      BY <1>1, <2>1, <2>2, <2>3
    <2> HIDE DEF t, k
    <2>5. Len(t) <= Len(calls) /\ \A i \in 1 .. k : calls[i].at < now - LoopWindow
      BY <1>1, <2>1, <2>4
    <2>6. \A i \in 1 .. Len(t) : t[i] = calls[k + i]
      BY <2>3, <2>4 DEF t
    <2> QED BY <2>3, <2>4, <2>5, <2>6 DEF t, k
  <1> QED BY <1>2, <1>3

LEMMA EndOfIf ==
  ASSUME NEW calls, NEW all, NEW n \in Nat, Len(all) - Len(calls) = n,
         LoopWindow = 0 => n = 0,
         \A i \in 1 .. Len(calls) : calls[i] = all[n + i],
         \A i \in 1 .. n : all[i].at < now - LoopWindow
  PROVE  EndOf(calls, all)
  <1> DEFINE m == Len(all) - Len(calls)
  <1>1. m = n
    OBVIOUS
  <1> HIDE DEF m
  <1>2. /\ m >= 0 /\ (LoopWindow = 0 => m = 0)
        /\ \A i \in 1 .. Len(calls) : calls[i] = all[m + i]
        /\ \A i \in 1 .. m : all[i].at < now - LoopWindow
    BY <1>1
  <1> QED BY <1>2 DEF EndOf, m

LEMMA EndOfAppend ==
  ASSUME NEW calls \in Seq(CallRecord), NEW all \in Seq(CallRecord), NEW c \in CallRecord,
         EndOf(calls, all)
  PROVE  EndOf(Append(calls, c), Append(all, c))
  <1> DEFINE n == Len(all) - Len(calls)
             a == Append(calls, c)
             A == Append(all, c)
  <1>1. /\ n \in Nat /\ (LoopWindow = 0 => n = 0)
        /\ \A i \in 1 .. Len(calls) : calls[i] = all[n + i]
        /\ \A i \in 1 .. n : all[i].at < now - LoopWindow
    BY DEF EndOf
  <1>2. /\ Len(a) = Len(calls) + 1 /\ Len(A) = Len(all) + 1
        /\ a[Len(calls) + 1] = c /\ A[Len(all) + 1] = c
        /\ \A i \in 1 .. Len(calls) : a[i] = calls[i]
        /\ \A i \in 1 .. Len(all) : A[i] = all[i]
        /\ Len(calls) \in Nat /\ Len(all) \in Nat
    OBVIOUS
  <1>3. Len(all) = n + Len(calls)
    BY <1>2
  <1>4. Len(A) - Len(a) = n
    BY <1>2, <1>3
  <1> HIDE DEF n, a, A
  <1>5. ASSUME NEW i \in 1 .. Len(a) PROVE a[i] = A[n + i]
    <2>1. CASE i = Len(calls) + 1
      BY <1>1, <1>2, <1>3, <2>1
    <2>2. CASE i \in 1 .. Len(calls)
      <3>1. n + i \in 1 .. Len(all)
        BY <1>1, <1>2, <1>3, <2>2
      <3> QED BY <1>1, <1>2, <2>2, <3>1
    <2> QED BY <1>2, <2>1, <2>2
  <1>6. ASSUME NEW i \in 1 .. n PROVE A[i].at < now - LoopWindow
    <2>1. i \in 1 .. Len(all)
      BY <1>1, <1>2, <1>3
    <2> QED BY <1>1, <1>2, <2>1
  <1>7. EndOf(a, A)
    BY <1>1, <1>4, <1>5, <1>6, EndOfIf
  <1> QED BY <1>7 DEF a, A

LEMMA EndOfTrim ==
  ASSUME NEW calls \in Seq(CallRecord), NEW all \in Seq(CallRecord), now \in Nat,
         EndOf(calls, all)
  PROVE  EndOf(trim(calls), all)
  <1> DEFINE t == trim(calls)
             n == Len(all) - Len(calls)
             k == Len(calls) - Len(t)
  <1>1. /\ n \in Nat /\ (LoopWindow = 0 => n = 0)
        /\ \A i \in 1 .. Len(calls) : calls[i] = all[n + i]
        /\ \A i \in 1 .. n : all[i].at < now - LoopWindow
    BY DEF EndOf
  <1>2. /\ t \in Seq(CallRecord) /\ k >= 0 /\ (LoopWindow = 0 => k = 0)
        /\ \A i \in 1 .. Len(t) : t[i] = calls[k + i]
        /\ \A i \in 1 .. k : calls[i].at < now - LoopWindow
    BY Trim
  <1>3. Len(calls) \in Nat /\ Len(all) \in Nat /\ Len(t) \in Nat
    BY <1>2
  <1>4. k \in Nat /\ Len(all) - Len(t) = n + k /\ Len(calls) = k + Len(t)
    BY <1>2, <1>3
  <1> HIDE DEF t, n, k
  <1>5. ASSUME NEW i \in 1 .. Len(t) PROVE t[i] = all[(n + k) + i]
    <2>1. k + i \in 1 .. Len(calls) /\ n + (k + i) = (n + k) + i
      BY <1>1, <1>3, <1>4
    <2> QED BY <1>1, <1>2, <2>1
  <1>6. ASSUME NEW i \in 1 .. n + k PROVE all[i].at < now - LoopWindow
    <2>1. CASE i \in 1 .. n
      BY <1>1, <2>1
    <2>2. CASE i \notin 1 .. n
      <3>1. i - n \in 1 .. k /\ i - n \in 1 .. Len(calls) /\ n + (i - n) = i
        BY <1>1, <1>3, <1>4, <2>2
      <3> QED BY <1>1, <1>2, <3>1
    <2> QED BY <2>1, <2>2
  <1>7. EndOf(t, all)
    <2>1. n + k \in Nat /\ (LoopWindow = 0 => n + k = 0)
      BY <1>1, <1>2, <1>4
    <2> QED BY <1>4, <1>5, <1>6, <2>1, EndOfIf
  <1> QED BY <1>7 DEF t

\* A loop is found in the history kept exactly when it is in the full one.
LEMMA SameVerdict ==
  ASSUME NEW calls \in Seq(CallRecord), NEW all \in Seq(CallRecord), now \in Nat, NEW path,
         EndOf(calls, all)
  PROVE  CheckLoop(calls, path) <=> CheckLoop(all, path)
  <1> DEFINE n == Len(all) - Len(calls)
             I == {i \in 1 .. Len(calls) : calls[i].path = path /\ calls[i].at >= now - LoopWindow}
             J == {i \in 1 .. Len(all) : all[i].path = path /\ all[i].at >= now - LoopWindow}
             f == [i \in I |-> n + i]
  <1>1. /\ n \in Nat /\ Len(calls) \in Nat /\ Len(all) \in Nat
        /\ \A i \in 1 .. Len(calls) : calls[i] = all[n + i]
        /\ \A i \in 1 .. n : all[i].at < now - LoopWindow
    BY DEF EndOf
  <1>2. Len(all) = n + Len(calls)
    BY <1>1
  <1>3. LoopWindow \in Nat /\ \A i \in 1 .. Len(all) : all[i].at \in Nat
    <2>1. \A i \in 1 .. Len(all) : all[i] \in CallRecord
      OBVIOUS
    <2> QED BY <2>1, TrackerAssumption DEF CallRecord
  <1>4. f \in Bijection(I, J)
    <2> HIDE DEF n
    <2>1. f \in [I -> J]
      BY <1>1, <1>2
    <2>2. \A x, y \in I : f[x] = f[y] => x = y
      BY <1>1
    <2>3. ASSUME NEW j \in J PROVE \E i \in I : f[i] = j
      <3>1. j \notin 1 .. n
        BY <1>1, <1>3
      <3>2. j - n \in 1 .. Len(calls) /\ n + (j - n) = j
        BY <1>1, <1>2, <3>1
      <3>3. j - n \in I
        BY <1>1, <3>2
      <3> QED BY <3>2, <3>3
    <2> QED BY <2>1, <2>2, <2>3 DEF Bijection, Injection, Surjection, IsInjective
  <1>5. IsFiniteSet(I)
    <2>1. I \subseteq 1 .. Len(calls) /\ IsFiniteSet(1 .. Len(calls))
      BY <1>1, FS_Interval
    <2> QED BY <2>1, FS_Subset
  <1>6. Cardinality(I) = Cardinality(J)
    <2> HIDE DEF I, J, f
    <2> QED BY <1>4, <1>5, FS_Bijection DEF ExistsBijection
  <1> QED BY <1>6 DEF CheckLoop

-----------------------------------------------------------------------------
(* Steps and sessions.                                                     *)

LEMMA NewSessionOK ==
  ASSUME now \in Nat
  PROVE  /\ NewSession \in TrackedSession /\ NewSession.status = "active"
         /\ NewSession.calls = <<>> /\ NewSession.all = <<>> /\ NewSession.callCount = 0
         /\ NewSession.cost = 0 /\ NewSession.startedAt = now /\ NewSession.ghosts = 0
         /\ EndOf(NewSession.calls, NewSession.all)
  <1>1. /\ NewSession \in TrackedSession /\ NewSession.status = "active"
        /\ NewSession.calls = <<>> /\ NewSession.all = <<>> /\ NewSession.callCount = 0
        /\ NewSession.cost = 0 /\ NewSession.startedAt = now /\ NewSession.ghosts = 0
    BY DEF NewSession, TrackedSession, Status
  <1>2. EndOf(<<>>, <<>>)
    BY EndOfIf
  <1> QED BY <1>1, <1>2

LEMMA Called ==
  ASSUME IInv, NEW s \in Sessions, NEW path \in Paths
  PROVE  LET call == [at |-> now, path |-> path]
             ts   == called(s, call)
             old  == IF s \in Tracked THEN sessions[s] ELSE NewSession
         IN  /\ SessionOK(ts) /\ ts.dirty /\ ts.status = old.status
             /\ old \in TrackedSession /\ ts.all = Append(old.all, call)
             /\ ts.calls = trim(Append(old.calls, call))
             /\ EndOf(ts.calls, ts.all)
             /\ ts.callCount = old.callCount + 1 /\ ts.cost = old.cost
  <1> DEFINE call == [at |-> now, path |-> path]
             ts   == called(s, call)
             old  == IF s \in Tracked THEN sessions[s] ELSE NewSession
             a    == Append(old.calls, call)
             A    == Append(old.all, call)
             n    == old.callCount + 1
  <1>1. now \in Nat /\ call \in CallRecord
    BY TrackerAssumption DEF IInv, TypeOK, CallRecord
  <1>2. /\ old \in TrackedSession /\ EndOf(old.calls, old.all) /\ old.startedAt <= now
        /\ ~old.ghostAlerted => old.ghosts = 0
    <2>1. CASE s \in Tracked
      BY <2>1 DEF IInv, SessionInv, SessionOK
    <2>2. CASE s \notin Tracked
      BY <1>1, <2>2, NewSessionOK
    <2> QED BY <2>1, <2>2
  <1> HIDE DEF old
  <1>3. old.calls \in Seq(CallRecord) /\ old.all \in Seq(CallRecord) /\ old.callCount \in Nat
    BY <1>2 DEF TrackedSession
  <1> HIDE DEF call
  <1>4. a \in Seq(CallRecord) /\ A \in Seq(CallRecord) /\ n \in Nat /\ n > 0
    BY <1>1, <1>3
  <1>5. EndOf(a, A)
    BY <1>1, <1>2, <1>3, EndOfAppend
  <1> HIDE DEF a, A, n
  <1>6. trim(a) \in Seq(CallRecord) /\ EndOf(trim(a), A)
    BY <1>1, <1>4, <1>5, Trim, EndOfTrim
  <1>7. ts = [old EXCEPT !.calls = trim(a), !.callCount = n, !.dirty = TRUE, !.all = A]
    BY DEF called, a, A, n, old
  <1> HIDE DEF ts
  <1>8. /\ ts \in TrackedSession
        /\ ts.calls = trim(a) /\ ts.all = A /\ ts.callCount = n /\ ts.dirty
        /\ ts.status = old.status /\ ts.startedAt = old.startedAt /\ ts.cost = old.cost
        /\ ts.ghostAlerted = old.ghostAlerted /\ ts.ghosts = old.ghosts
    <2> DEFINE t == trim(a)
    <2>1. t \in Seq(CallRecord) /\ ts = [old EXCEPT !.calls = t, !.callCount = n, !.dirty = TRUE, !.all = A]
      BY <1>6, <1>7
    <2> HIDE DEF t
    <2>2. /\ ts \in TrackedSession
          /\ ts.calls = t /\ ts.all = A /\ ts.callCount = n /\ ts.dirty
          /\ ts.status = old.status /\ ts.startedAt = old.startedAt /\ ts.cost = old.cost
          /\ ts.ghostAlerted = old.ghostAlerted /\ ts.ghosts = old.ghosts
      <3>1. A \in Seq(CallRecord) /\ n \in Nat /\ old \in TrackedSession
        BY <1>2, <1>4
      <3>2. ts \in TrackedSession
        BY <2>1, <3>1, Assigned
      <3> QED BY <2>1, <3>1, <3>2 DEF TrackedSession
    <2> QED BY <2>2 DEF t
  <1>9. SessionOK(ts)
    BY <1>2, <1>4, <1>6, <1>8 DEF SessionOK
  <1>10. /\ ts.dirty /\ ts.status = old.status /\ ts.all = A /\ ts.calls = trim(a)
         /\ EndOf(ts.calls, ts.all)
    BY <1>6, <1>8
  <1>11. ts.callCount = old.callCount + 1 /\ ts.cost = old.cost
    BY <1>8 DEF n
  <1> QED BY <1>2, <1>9, <1>10, <1>11 DEF call, ts, old, a, A

\* The other assignments to a session: its end, a cost, the flush, the timeout
\* and the report as a ghost.
ended(ts)      == [[ts EXCEPT !.status = "completed"] EXCEPT !.dirty = TRUE]
charged(ts, c) == [[ts EXCEPT !.cost = @ + c] EXCEPT !.dirty = TRUE]
cleaned(ts)    == [ts EXCEPT !.dirty = FALSE]
timedOut(ts)   == [ts EXCEPT !.status = "completed", !.dirty = TRUE]
reported(ts)   == [ts EXCEPT !.ghostAlerted = TRUE, !.ghosts = @ + 1]

LEMMA Ended ==
  ASSUME NEW ts, SessionOK(ts)
  PROVE  LET u == ended(ts)
         IN  SessionOK(u) /\ u.dirty /\ u.status = "completed" /\ alike(row(ts), row(u)) /\ u.all = ts.all
  <1> DEFINE v == [ts EXCEPT !.status = "completed"]
             u == ended(ts)
  <1>1. ts \in TrackedSession
    BY DEF SessionOK
  <1>2. u \in TrackedSession
    <2>1. v \in TrackedSession
      BY <1>1, Assigned DEF Status
    <2>2. u = [v EXCEPT !.dirty = TRUE]
      BY DEF ended
    <2> HIDE DEF u, v
    <2> QED BY <2>1, <2>2, Assigned
  <1>3. /\ u.dirty /\ u.status = "completed" /\ u.calls = ts.calls /\ u.all = ts.all
        /\ u.callCount = ts.callCount /\ u.startedAt = ts.startedAt /\ u.cost = ts.cost
        /\ u.ghostAlerted = ts.ghostAlerted /\ u.ghosts = ts.ghosts
    BY <1>1 DEF TrackedSession, ended
  <1> HIDE DEF u
  <1>4. SessionOK(u) /\ alike(row(ts), row(u))
    BY <1>1, <1>2, <1>3, RowType, RowFields DEF SessionOK, alike
  <1> QED BY <1>3, <1>4 DEF u

LEMMA Charged ==
  ASSUME NEW ts, SessionOK(ts), NEW c \in Nat
  PROVE  LET u == charged(ts, c)
         IN  /\ SessionOK(u) /\ u.dirty /\ u.status = ts.status /\ u.all = ts.all
             /\ u.callCount = ts.callCount /\ u.cost = ts.cost + c
  <1> DEFINE v == [ts EXCEPT !.cost = ts.cost + c]
             u == charged(ts, c)
  <1>1. ts \in TrackedSession
    BY DEF SessionOK
  <1>2. u \in TrackedSession
    <2>1. ts.cost + c \in Nat
      BY <1>1 DEF TrackedSession
    <2>2. v \in TrackedSession
      BY <1>1, <2>1, Assigned
    <2>3. u = [v EXCEPT !.dirty = TRUE]
      BY DEF charged
    <2> HIDE DEF u, v
    <2> QED BY <2>2, <2>3, Assigned
  <1>3. /\ u.dirty /\ u.status = ts.status /\ u.calls = ts.calls /\ u.all = ts.all
        /\ u.callCount = ts.callCount /\ u.startedAt = ts.startedAt /\ u.cost = ts.cost + c
        /\ u.ghostAlerted = ts.ghostAlerted /\ u.ghosts = ts.ghosts
    BY <1>1 DEF TrackedSession, charged
  <1> HIDE DEF u
  <1>4. SessionOK(u)
    BY <1>2, <1>3 DEF SessionOK
  <1> QED BY <1>3, <1>4 DEF u

LEMMA Cleaned ==
  ASSUME NEW ts, SessionOK(ts)
  PROVE  LET u == cleaned(ts)
         IN  SessionOK(u) /\ ~u.dirty /\ u.status = ts.status /\ row(u) = row(ts) /\ u.all = ts.all
  <1> DEFINE u == cleaned(ts)
  <1>1. ts \in TrackedSession
    BY DEF SessionOK
  <1>2. u \in TrackedSession
    BY <1>1, Assigned DEF cleaned
  <1>3. /\ ~u.dirty /\ u.status = ts.status /\ u.calls = ts.calls /\ u.all = ts.all
        /\ u.callCount = ts.callCount /\ u.startedAt = ts.startedAt /\ u.cost = ts.cost
        /\ u.ghostAlerted = ts.ghostAlerted /\ u.ghosts = ts.ghosts
    BY <1>1 DEF TrackedSession, cleaned
  <1> HIDE DEF u
  <1>4. SessionOK(u) /\ row(u) = row(ts)
    BY <1>2, <1>3 DEF SessionOK, row
  <1> QED BY <1>3, <1>4 DEF u

LEMMA TimedOut ==
  ASSUME NEW ts, SessionOK(ts)
  PROVE  LET u == timedOut(ts)
         IN  SessionOK(u) /\ u.dirty /\ u.status = "completed" /\ alike(row(ts), row(u)) /\ u.all = ts.all
  <1> DEFINE u == timedOut(ts)
  <1>1. ts \in TrackedSession
    BY DEF SessionOK
  <1>2. u \in TrackedSession
    BY <1>1, Assigned DEF timedOut, Status
  <1>3. /\ u.dirty /\ u.status = "completed" /\ u.calls = ts.calls /\ u.all = ts.all
        /\ u.callCount = ts.callCount /\ u.startedAt = ts.startedAt /\ u.cost = ts.cost
        /\ u.ghostAlerted = ts.ghostAlerted /\ u.ghosts = ts.ghosts
    BY <1>1 DEF TrackedSession, timedOut
  <1> HIDE DEF u
  <1>4. SessionOK(u)
    BY <1>2, <1>3 DEF SessionOK
  <1>5. row(u) \in Row /\ row(ts) \in Row
    BY <1>1, <1>2, RowType
  <1>6. alike(row(ts), row(u))
    BY <1>3, <1>5 DEF alike, row
  <1> QED BY <1>3, <1>4, <1>6 DEF u

LEMMA Reported ==
  ASSUME NEW ts, SessionOK(ts), ~ts.ghostAlerted
  PROVE  LET u == reported(ts)
         IN  SessionOK(u) /\ u.dirty = ts.dirty /\ u.status = ts.status /\ row(u) = row(ts)
             /\ u.all = ts.all
  <1> DEFINE u == reported(ts)
  <1>1. ts \in TrackedSession /\ ts.ghosts + 1 \in 0 .. 1
    BY DEF SessionOK
  <1>2. u \in TrackedSession
    BY <1>1, Assigned DEF reported
  <1>3. /\ u.dirty = ts.dirty /\ u.status = ts.status /\ u.calls = ts.calls /\ u.all = ts.all
        /\ u.callCount = ts.callCount /\ u.startedAt = ts.startedAt /\ u.cost = ts.cost
        /\ u.ghostAlerted
    BY <1>1 DEF TrackedSession, reported
  <1> HIDE DEF u
  <1>4. SessionOK(u) /\ row(u) = row(ts)
    BY <1>2, <1>3 DEF SessionOK, row
  <1> QED BY <1>3, <1>4 DEF u

-----------------------------------------------------------------------------
(* Steps that leave the flushes and the store alone.                       *)

\* What changes in memory becomes dirty.
LEMMA DirtyKeepsSaved ==
  ASSUME IInv, UNCHANGED <<pending, store, close, taken, rivals, failed>>,
         \A s \in Tracked' : ~isDirty(s)' =>
            s \in Tracked /\ ~isDirty(s) /\ row(sessions'[s]) = row(sessions[s])
  PROVE  SavedInv'
  <1> SUFFICES ASSUME NEW s \in Sessions
               PROVE  /\ s \in Tracked' /\ ~isDirty(s)' => row(sessions'[s]) = taken'[s]
                      /\ close' = "new" => rivals'[s] = {}
                      /\ s \notin failed' => \A f \in Flushes : \A p \in pending'[f] :
                            p[1] = s => p[2] \in {taken'[s]} \cup rivals'[s]
                      /\ s \notin failed' /\ taken'[s] # None /\ (\A f \in Flushes : clear(f, s)') =>
                            store'[s] \in {taken'[s]} \cup rivals'[s]
    BY DEF SavedInv
  <1>1. \A f \in Flushes : clear(f, s)' <=> clear(f, s)
    BY DEF clear
  <1>2. s \in Tracked' /\ ~isDirty(s)' => row(sessions'[s]) = taken'[s]
    BY DEF IInv, SavedInv
  <1> QED BY <1>1, <1>2 DEF IInv, SavedInv

\* What Close answers for only grows in memory.
LEMMA GrowKeepsClose ==
  ASSUME IInv, UNCHANGED <<pending, store, close>>,
         \A s \in Sessions : due'[s] # None =>
            /\ due'[s] = due[s]
            /\ s \in Tracked' => s \in Tracked /\ grown(row(sessions[s]), row(sessions'[s]))
  PROVE  CloseInv'
  <1> SUFFICES ASSUME NEW s \in Sessions
               PROVE  /\ close' = "new" => due'[s] = None
                      /\ due'[s] # None =>
                            /\ s \in Tracked' => covers(row(sessions'[s]), due'[s])
                            /\ \A f \in Flushes : \A p \in pending'[f] : p[1] = s => covers(p[2], due'[s])
                            /\ clear("close", s)' => covers(store'[s], due'[s])
    BY DEF CloseInv, covers
  <1>1. close' = "new" => due'[s] = None
    BY DEF IInv, CloseInv
  <1>2. ASSUME due'[s] # None
        PROVE  /\ s \in Tracked' => covers(row(sessions'[s]), due'[s])
               /\ \A f \in Flushes : \A p \in pending'[f] : p[1] = s => covers(p[2], due'[s])
               /\ clear("close", s)' => covers(store'[s], due'[s])
    <2>1. due'[s] = due[s] /\ due[s] # None /\ due[s] \in Row
      BY <1>2, TrackedFacts DEF IInv
    <2>2. /\ \A f \in Flushes : \A p \in pending[f] : p[1] = s => covers(p[2], due[s])
          /\ clear("close", s) => covers(store[s], due[s])
      BY <2>1 DEF IInv, CloseInv
    <2>3. clear("close", s)' <=> clear("close", s)
      BY DEF clear
    <2>4. ASSUME s \in Tracked' PROVE covers(row(sessions'[s]), due'[s])
      <3>1. covers(row(sessions[s]), due[s]) /\ grown(row(sessions[s]), row(sessions'[s]))
        BY <1>2, <2>1, <2>4 DEF IInv, CloseInv
      <3> QED BY <2>1, <3>1, Covers
    <2> QED BY <2>1, <2>2, <2>3, <2>4
  <1> QED BY <1>1, <1>2

\* Completeness is enough, in memory; the rows elsewhere are as they were.
LEMMA TruthGrows ==
  ASSUME IInv, TypeOK', UNCHANGED <<pending, store>>,
         \A s \in Sessions : /\ truth[s].calls <= truth'[s].calls /\ truth[s].cost <= truth'[s].cost
                             /\ Complete(s)'
  PROVE  TruthInv'
  <1> SUFFICES ASSUME NEW s \in Sessions PROVE NotTwice(s)'
    BY DEF TruthInv
  <1>1. TypeOK /\ NotTwice(s)
    BY DEF IInv, TruthInv
  <1>2. /\ truth[s].calls \in Nat /\ truth[s].cost \in Nat
        /\ truth'[s].calls \in Nat /\ truth'[s].cost \in Nat
        /\ before'[s].calls \in Nat /\ before'[s].cost \in Nat
    BY <1>1, TrackedFacts, NextFacts
  <1>3. ASSUME NEW r \in Row, true(s, r) PROVE true(s, r)'
    BY <1>2, <1>3 DEF true, Row
  <1>4. store'[s] # None => true(s, store[s])'
    <2>1. store[s] # None => store[s] \in Row /\ true(s, store[s])
      BY <1>1, TrackedFacts DEF NotTwice
    <2>2. store[s] # None => true(s, store[s])'
      <3>1. ASSUME store[s] # None PROVE true(s, store[s])'
        <4>1. /\ store[s].callCount \in Nat /\ store[s].cost \in Nat
              /\ store[s].callCount <= truth[s].calls /\ store[s].cost <= truth[s].cost
          BY <2>1, <3>1 DEF true, Row
        <4> QED BY <1>2, <4>1 DEF true
      <3> QED BY <3>1
    <2> QED BY <2>2
  <1>5. \A f \in Flushes : \A p \in pending'[f] : p[1] = s => true(s, p[2])'
    <2>1. \A f \in Flushes : \A p \in pending[f] : p[1] = s => p[2] \in Row /\ true(s, p[2])
      BY <1>1, TrackedFacts DEF NotTwice
    <2> QED BY <1>3, <2>1
  <1>6. ASSUME s \in Tracked' PROVE true(s, row(sessions[s]))'
    <2> DEFINE x == row(sessions'[s])
    <2>1. x \in Row /\ complete(s, row(sessions[s]))'
      BY <1>6, NextFacts DEF Complete
    <2>2. /\ x.callCount + before'[s].calls = truth'[s].calls
          /\ x.cost + before'[s].cost = truth'[s].cost
      BY <2>1 DEF complete
    <2> HIDE DEF x
    <2>3. x.callCount <= truth'[s].calls /\ x.cost <= truth'[s].cost
      BY <1>2, <2>1, <2>2 DEF Row
    <2> QED BY <2>3 DEF true, x
  <1> QED BY <1>4, <1>5, <1>6 DEF NotTwice

LEMMA AlikeKeepsTruth ==
  ASSUME IInv, TypeOK', UNCHANGED <<pending, store, truth, before, short, taken>>, Tracked' = Tracked,
         \A s \in Tracked : alike(row(sessions[s]), row(sessions'[s]))
  PROVE  TruthInv'
  <1>1. \A s \in Sessions : truth[s].calls \in Nat /\ truth[s].cost \in Nat
    BY TrackedFacts DEF IInv
  <1>2. ASSUME NEW s \in Sessions PROVE Complete(s)'
    <2>1. Complete(s)
      BY DEF IInv, TruthInv
    <2>2. s \in Tracked => (complete(s, row(sessions[s])) => complete(s, row(sessions[s]))')
      BY DEF alike, complete
    <2>3. \A x : complete(s, x)' <=> complete(s, x)
      BY DEF complete
    <2> QED BY <2>1, <2>2, <2>3 DEF Complete
  <1>3. \A s \in Sessions : /\ truth[s].calls <= truth'[s].calls /\ truth[s].cost <= truth'[s].cost
                            /\ Complete(s)'
    BY <1>1, <1>2
  <1> QED BY <1>3, TruthGrows

\* A request is tracked: the new state of the map.
LEMMA TrackView ==
  ASSUME IInv, NEW r \in Requests, NEW s \in Sessions, NEW path \in Paths, TrackCall(r, s, path)
  PROVE  \E V \in SUBSET Tracked, ts \in TrackedSession :
           /\ SessionOK(ts) /\ ts.dirty
           /\ ts.status = IF s \in Tracked THEN sessions[s].status ELSE "active"
           /\ ts.callCount = (IF s \in Tracked THEN sessions[s].callCount ELSE 0) + 1
           /\ ts.cost = IF s \in Tracked THEN sessions[s].cost ELSE 0
           /\ s \notin V /\ (s \in Tracked => V = {})
           /\ \/ V = {} /\ (s \in Tracked \/ Cardinality(Tracked) < MaxActive)
              \/ \E v \in Tracked : V = {v}
           /\ sessions' = [t \in Sessions |->
                             IF t = s THEN ts ELSE IF t \in V THEN None ELSE sessions[t]]
           /\ short' = (short \cup {v \in V : isDirty(v)}) \ ({s} \ Tracked)
           /\ evicted' = (evicted \cup V) \ ({s} \ Tracked)
           /\ drift' = drift + Cardinality(V \cap Active)
           /\ gauge' = gauge + (IF s \notin Tracked THEN 1 ELSE 0)
  <1> DEFINE call == [at |-> now, path |-> path]
             ts   == called(s, call)
  <1>1. PICK V \in evictOldest(s) :
           /\ sessions' = [t \in Sessions |->
                             IF t = s THEN ts ELSE IF t \in V THEN None ELSE sessions[t]]
           /\ short' = (short \cup {v \in V : isDirty(v)}) \ ({s} \ Tracked)
           /\ evicted' = (evicted \cup V) \ ({s} \ Tracked)
           /\ drift' = drift + Cardinality(V \cap Active)
    BY DEF TrackCall
  <1>2. gauge' = gauge + (IF s \notin Tracked THEN 1 ELSE 0)
    <2>1. s \in {s} \ Tracked <=> s \notin Tracked
      OBVIOUS
    <2> QED BY <2>1 DEF TrackCall
  <1>3. /\ V \in SUBSET Tracked /\ s \notin V /\ (s \in Tracked => V = {})
        /\ \/ V = {} /\ (s \in Tracked \/ Cardinality(Tracked) < MaxActive)
           \/ \E v \in Tracked : V = {v}
    BY DEF evictOldest
  <1>4. /\ SessionOK(ts) /\ ts.dirty
        /\ ts.status = IF s \in Tracked THEN sessions[s].status ELSE "active"
        /\ ts.callCount = (IF s \in Tracked THEN sessions[s].callCount ELSE 0) + 1
        /\ ts.cost = IF s \in Tracked THEN sessions[s].cost ELSE 0
    <2> DEFINE old == IF s \in Tracked THEN sessions[s] ELSE NewSession
    <2>1. now \in Nat
      BY TrackerAssumption DEF IInv, TypeOK
    <2>2. NewSession.status = "active" /\ NewSession.callCount = 0 /\ NewSession.cost = 0
      BY <2>1, NewSessionOK
    <2>3. /\ SessionOK(ts) /\ ts.dirty /\ ts.status = old.status
          /\ ts.callCount = old.callCount + 1 /\ ts.cost = old.cost
      BY Called
    <2> HIDE DEF ts
    <2>4. /\ old.status = IF s \in Tracked THEN sessions[s].status ELSE "active"
          /\ old.callCount = IF s \in Tracked THEN sessions[s].callCount ELSE 0
          /\ old.cost = IF s \in Tracked THEN sessions[s].cost ELSE 0
      BY <2>2
    <2> HIDE DEF old
    <2> QED BY <2>3, <2>4
  <1>5. ts \in TrackedSession
    BY <1>4 DEF SessionOK
  <1> HIDE DEF ts
  <1> QED BY <1>1, <1>2, <1>3, <1>4, <1>5

LEMMA TrackStep ==
  ASSUME IInv, NEW r \in Requests, NEW s \in Sessions, NEW path \in Paths, TrackCall(r, s, path)
  PROVE  IInv'
  <1> USE TrackerAssumption
  <1>1. PICK V \in SUBSET Tracked, ts \in TrackedSession :
           /\ SessionOK(ts) /\ ts.dirty
           /\ ts.status = IF s \in Tracked THEN sessions[s].status ELSE "active"
           /\ ts.callCount = (IF s \in Tracked THEN sessions[s].callCount ELSE 0) + 1
           /\ ts.cost = IF s \in Tracked THEN sessions[s].cost ELSE 0
           /\ s \notin V /\ (s \in Tracked => V = {})
           /\ \/ V = {} /\ (s \in Tracked \/ Cardinality(Tracked) < MaxActive)
              \/ \E v \in Tracked : V = {v}
           /\ sessions' = [t \in Sessions |->
                             IF t = s THEN ts ELSE IF t \in V THEN None ELSE sessions[t]]
           /\ short' = (short \cup {v \in V : isDirty(v)}) \ ({s} \ Tracked)
           /\ evicted' = (evicted \cup V) \ ({s} \ Tracked)
           /\ drift' = drift + Cardinality(V \cap Active)
           /\ gauge' = gauge + (IF s \notin Tracked THEN 1 ELSE 0)
    BY TrackView
  <1>2. /\ UNCHANGED <<now, store, pending, bg, close, taken, rivals, failed>>
        /\ truth' = [truth EXCEPT ![s].calls = @ + 1]
        /\ before' = [t \in Sessions |-> IF t \in {s} \ Tracked THEN truth[t] ELSE before[t]]
        /\ due' = [t \in Sessions |-> IF t \in {s} \ Tracked THEN None ELSE due[t]]
        /\ req[r].pc = "new"
    BY DEF TrackCall, arrives
  <1>3. PICK pc \in {"blocked", "tracked"}, alert \in BOOLEAN :
           req' = [req EXCEPT ![r] = [pc |-> pc, session |-> s, alert |-> alert]]
    <2> DEFINE alert == CheckLoop(called(s, [at |-> now, path |-> path]).calls, path)
    <2>1. req' = [req EXCEPT ![r] = [pc |-> IF alert /\ LoopBlocks THEN "blocked" ELSE "tracked",
                                     session |-> s, alert |-> alert]]
      BY DEF TrackCall
    <2>2. alert \in BOOLEAN
      BY DEF CheckLoop
    <2> HIDE DEF alert
    <2>3. CASE alert /\ LoopBlocks
      BY <2>1, <2>2, <2>3
    <2>4. CASE ~(alert /\ LoopBlocks)
      BY <2>1, <2>2, <2>4
    <2> QED BY <2>3, <2>4
  <1>4. TypeOK /\ ts # None
    BY <1>1 DEF IInv, SessionOK
  <1>5. /\ sessions' \in [Sessions -> TrackedSession \cup {None}]
        /\ sessions'[s] = ts
        /\ \A t \in V : sessions'[t] = None
        /\ \A t \in Sessions : t # s /\ t \notin V => sessions'[t] = sessions[t]
    BY <1>1, <1>4 DEF TypeOK, SessionOK, Tracked
  <1>6. Tracked' = (Tracked \ V) \cup {s}
    BY <1>4, <1>5 DEF Tracked
  <1>7. SessionInv'
    <2> SUFFICES ASSUME NEW t \in Tracked' PROVE SessionOK(sessions[t])'
      BY DEF SessionInv
    <2>1. SessionOK(sessions'[t])
      BY <1>1, <1>5, <1>6 DEF IInv, SessionInv, Tracked
    <2> QED BY <1>2, <2>1 DEF SessionOK, EndOf
  <1>8. Active \subseteq Tracked /\ Active' = IF s \in Tracked THEN Active ELSE (Active \ V) \cup {s}
    BY <1>1, <1>5, <1>6 DEF Active, Tracked
  <1>9. IsFiniteSet(Tracked) /\ IsFiniteSet(Active) /\ Cardinality(Tracked) \in Nat
    BY <1>8, FS_Subset, FS_CardinalityType DEF IInv, GaugeInv
  <1>10. IsFiniteSet(Tracked') /\ Cardinality(Tracked') <= MaxActive
    <2>1. Cardinality(Tracked) <= MaxActive
      BY <1>4 DEF TypeOK
    <2>2. CASE s \in Tracked
      <3>1. Tracked' = Tracked
        BY <1>1, <1>6, <2>2
      <3> QED BY <1>9, <2>1, <3>1
    <2>3. CASE s \notin Tracked /\ V = {}
      <3>1. Tracked' = Tracked \cup {s} /\ Cardinality(Tracked) < MaxActive
        BY <1>1, <1>6, <2>3
      <3>2. IsFiniteSet(Tracked \cup {s}) /\ Cardinality(Tracked \cup {s}) = Cardinality(Tracked) + 1
        BY <1>9, <2>3, FS_AddElement
      <3> QED BY <1>9, <3>1, <3>2
    <2>4. CASE s \notin Tracked /\ V # {}
      <3>1. PICK v \in Tracked : V = {v}
        BY <1>1, <2>4
      <3> DEFINE W == Tracked \ {v}
      <3>2. IsFiniteSet(W) /\ Cardinality(W) = Cardinality(Tracked) - 1
        BY <1>9, FS_RemoveElement
      <3>3. s \notin W /\ Tracked' = W \cup {s}
        BY <1>6, <2>4, <3>1
      <3> HIDE DEF W
      <3>4. IsFiniteSet(W \cup {s}) /\ Cardinality(W \cup {s}) = Cardinality(W) + 1
        BY <3>2, <3>3, FS_AddElement
      <3>5. Cardinality(W \cup {s}) = Cardinality(Tracked)
        BY <1>9, <3>2, <3>4
      <3> QED BY <2>1, <3>3, <3>4, <3>5
    <2> QED BY <2>2, <2>3, <2>4
  <1>11. GaugeInv' /\ drift' \in Int /\ gauge' \in Int
    <2>1. gauge = Cardinality(Active) + drift /\ gauge \in Int /\ drift \in Int
      BY <1>4 DEF IInv, GaugeInv, GaugeExact, TypeOK
    <2>2. Cardinality(Active) \in Nat
      BY <1>9, FS_CardinalityType
    <2>3. CASE s \in Tracked
      <3>1. V \cap Active = {} /\ Active' = Active
        BY <1>1, <1>8, <2>3
      <3>2. Cardinality(V \cap Active) = 0
        BY <3>1, FS_EmptySet
      <3>3. gauge' = gauge /\ drift' = drift
        BY <1>1, <2>1, <2>3, <3>2
      <3> QED BY <1>10, <2>1, <3>1, <3>3 DEF GaugeInv, GaugeExact
    <2>4. CASE s \notin Tracked
      <3> DEFINE W == Active \ V
                 n == Cardinality(V \cap Active)
      <3>1. /\ IsFiniteSet(W) /\ Cardinality(W) = Cardinality(Active) - Cardinality(Active \cap V)
        BY <1>9, FS_Difference
      <3>2. Active \cap V = V \cap Active
        OBVIOUS
      <3>3. Cardinality(W) \in Nat /\ Cardinality(W) = Cardinality(Active) - n
        BY <3>1, <3>2, FS_CardinalityType
      <3>4. n \in Nat
        <4>1. V \cap Active \subseteq Active
          OBVIOUS
        <4> QED BY <1>9, <4>1, FS_Subset, FS_CardinalityType
      <3>5. s \notin W /\ Active' = W \cup {s}
        BY <1>8, <2>4
      <3> HIDE DEF W
      <3>6. Cardinality(W \cup {s}) = Cardinality(W) + 1
        BY <3>1, <3>5, FS_AddElement
      <3>7. gauge' = gauge + 1 /\ drift' = drift + n
        BY <1>1, <2>4
      <3> HIDE DEF n
      <3>8. gauge' = Cardinality(Active') + drift'
        BY <2>1, <2>2, <3>3, <3>4, <3>5, <3>6, <3>7
      <3> QED BY <1>10, <2>1, <3>4, <3>7, <3>8 DEF GaugeInv, GaugeExact
    <2> QED BY <2>3, <2>4
  <1>12. req' \in [Requests -> [pc : {"new", "tracked", "blocked", "done"},
                               session : Sessions \cup {None}, alert : BOOLEAN]]
    BY <1>3, <1>4 DEF TypeOK
  <1>20. /\ truth' \in [Sessions -> Totals] /\ before' \in [Sessions -> Totals]
         /\ due' \in [Sessions -> Row \cup {None}]
         /\ truth'[s].calls = truth[s].calls + 1 /\ truth'[s].cost = truth[s].cost
         /\ \A t \in Sessions : t # s => truth'[t] = truth[t] /\ before'[t] = before[t]
         /\ before'[s] = IF s \in Tracked THEN before[s] ELSE truth[s]
    <2>1. truth \in [Sessions -> Totals] /\ before \in [Sessions -> Totals] /\ due \in [Sessions -> Row \cup {None}]
      BY <1>4 DEF TypeOK
    <2>2. before' \in [Sessions -> Totals] /\ due' \in [Sessions -> Row \cup {None}]
      BY <1>2, <2>1
    <2>3. /\ \A t \in Sessions : t # s => truth'[t] = truth[t] /\ before'[t] = before[t]
          /\ before'[s] = IF s \in Tracked THEN before[s] ELSE truth[s]
      BY <1>2, <2>1
    <2>4. [truth[s] EXCEPT !.calls = @ + 1] \in Totals
      BY <2>1 DEF Totals
    <2>5. truth'[s] = [truth[s] EXCEPT !.calls = @ + 1]
      BY <1>2, <2>1
    <2>6. truth' \in [Sessions -> Totals]
      BY <1>2, <2>1, <2>4
    <2>7. truth'[s].calls = truth[s].calls + 1 /\ truth'[s].cost = truth[s].cost
      BY <2>1, <2>5 DEF Totals
    <2> QED BY <2>2, <2>3, <2>6, <2>7
  <1>13. TypeOK'
    <2>1. short' \subseteq Sessions /\ evicted' \subseteq Sessions
      BY <1>1, <1>4 DEF TypeOK, Tracked
    <2>2. \A t \in Tracked' : sessions'[t].callCount > 0 /\ sessions'[t].startedAt <= now'
      BY <1>7 DEF SessionInv, SessionOK
    <2> QED BY <1>2, <1>4, <1>5, <1>10, <1>11, <1>12, <1>20, <2>1, <2>2 DEF TypeOK
  <1>14. ControlInv'
    BY <1>2, <1>3, <1>4 DEF IInv, ControlInv, TypeOK
  <1>15. \A t \in Tracked' : t # s => t \in Tracked /\ t \notin V /\ sessions'[t] = sessions[t]
    BY <1>5, <1>6 DEF Tracked
  <1>16. SavedInv'
    <2>1. ASSUME NEW t \in Tracked', ~isDirty(t)'
          PROVE  t \in Tracked /\ ~isDirty(t) /\ row(sessions'[t]) = row(sessions[t])
      <3>1. t # s
        BY <1>1, <1>5, <1>6, <2>1 DEF isDirty
      <3> QED BY <1>15, <2>1, <3>1 DEF isDirty
    <2> QED BY <1>2, <2>1, DirtyKeepsSaved
  <1>17. CloseInv'
    <2>1. ASSUME NEW t \in Sessions, due'[t] # None
          PROVE  /\ due'[t] = due[t]
                 /\ t \in Tracked' => t \in Tracked /\ grown(row(sessions[t]), row(sessions'[t]))
      <3>1. due'[t] = due[t] /\ (t = s => s \in Tracked)
        BY <1>2, <2>1
      <3>2. ASSUME t \in Tracked' PROVE t \in Tracked /\ grown(row(sessions[t]), row(sessions'[t]))
        <4>1. t \in Tracked
          BY <1>15, <3>1, <3>2
        <4>2. row(sessions[t]) \in Row /\ row(sessions'[t]) \in Row
          BY <1>4, <1>13, <3>2, <4>1, TrackedFacts, NextFacts
        <4>3. row(sessions[t]).callCount \in Nat /\ row(sessions[t]).cost \in Nat
          BY <4>2 DEF Row
        <4>4. CASE t = s
          <5>1. /\ row(sessions'[t]).callCount = row(sessions[t]).callCount + 1
                /\ row(sessions'[t]).cost = row(sessions[t]).cost
            BY <1>1, <1>5, <4>1, <4>4, RowFields
          <5> QED BY <4>1, <4>2, <4>3, <5>1 DEF grown
        <4>5. CASE t # s
          BY <1>15, <3>2, <4>1, <4>2, <4>3, <4>5 DEF grown
        <4> QED BY <4>4, <4>5
      <3> QED BY <3>1, <3>2
    <2> QED BY <1>2, <2>1, GrowKeepsClose
  <1>18. TruthInv'
    <2> SUFFICES ASSUME NEW t \in Sessions
                 PROVE  /\ truth[t].calls <= truth'[t].calls /\ truth[t].cost <= truth'[t].cost
                        /\ Complete(t)'
      BY <1>2, <1>13, TruthGrows
    <2>1. /\ truth[t].calls \in Nat /\ truth[t].cost \in Nat
          /\ before[t].calls \in Nat /\ before[t].cost \in Nat /\ Complete(t)
      BY <1>4, TrackedFacts DEF IInv, TruthInv
    <2>2. truth[t].calls <= truth'[t].calls /\ truth[t].cost <= truth'[t].cost
      BY <1>20, <2>1
    <2>3. CASE t = s
      <3>1. /\ row(ts).callCount + before'[s].calls = truth'[s].calls
            /\ row(ts).cost + before'[s].cost = truth'[s].cost
        <4>1. CASE s \in Tracked
          <5> DEFINE x == sessions[s]
          <5>1. x.callCount \in Nat /\ x.cost \in Nat
            BY <1>4, <4>1, TrackedFacts DEF TrackedSession
          <5>2. x.callCount + before[s].calls = truth[s].calls /\ x.cost + before[s].cost = truth[s].cost
            BY <2>1, <2>3, <4>1, RowFields DEF Complete, complete
          <5>3. ts.callCount = x.callCount + 1 /\ ts.cost = x.cost
            BY <1>1, <4>1
          <5> HIDE DEF x
          <5>4. before'[s] = before[s]
            BY <1>20, <4>1
          <5>5. ts.callCount + before[s].calls = truth[s].calls + 1
            BY <2>1, <2>3, <5>1, <5>2, <5>3
          <5> QED BY <1>20, <5>2, <5>3, <5>4, <5>5, RowFields
        <4>2. CASE s \notin Tracked
          <5>1. ts.callCount = 1 /\ ts.cost = 0 /\ before'[s] = truth[s]
            BY <1>1, <1>20, <4>2
          <5> QED BY <1>20, <2>1, <2>3, <5>1, RowFields
        <4> QED BY <4>1, <4>2
      <3> QED BY <1>5, <1>6, <2>2, <2>3, <3>1 DEF Complete, complete
    <2>4. CASE t # s
      <3>1. truth'[t] = truth[t] /\ before'[t] = before[t] /\ taken'[t] = taken[t]
        BY <1>2, <1>20, <2>4
      <3>2. \A x : complete(t, x)' <=> complete(t, x)
        BY <3>1 DEF complete
      <3>3. CASE t \in Tracked'
        <4>1. t \in Tracked /\ sessions'[t] = sessions[t]
          BY <1>15, <2>4, <3>3
        <4>2. complete(t, row(sessions[t]))
          BY <2>1, <4>1 DEF Complete
        <4>3. complete(t, row(sessions[t]))'
          BY <4>1, <4>2 , <3>1 DEF complete
        <4> QED BY <2>2, <3>3, <4>3 DEF Complete
      <3>4. CASE t \notin Tracked' /\ t \in V
        <4>1. t \in Tracked /\ (isDirty(t) => t \in short')
          BY <1>1, <2>4, <3>4
        <4>2. ASSUME t \notin short' PROVE taken[t] # None /\ complete(t, taken[t])
          <5>1. row(sessions[t]) = taken[t]
            BY <4>1, <4>2 DEF IInv, SavedInv
          <5>2. complete(t, row(sessions[t])) /\ row(sessions[t]) # None
            BY <1>4, <2>1, <4>1, TrackedFacts DEF Complete
          <5> QED BY <5>1, <5>2
        <4> QED BY <2>2, <3>1, <3>2, <3>4, <4>2 DEF Complete
      <3>5. CASE t \notin Tracked' /\ t \notin V
        <4>1. t \notin Tracked /\ (t \notin short' => t \notin short)
          BY <1>1, <1>6, <2>4, <3>5
        <4> QED BY <2>1, <2>2, <3>1, <3>2, <3>5, <4>1 DEF Complete
      <3> QED BY <3>3, <3>4, <3>5
    <2> QED BY <2>3, <2>4
  <1> QED BY <1>7, <1>11, <1>13, <1>14, <1>16, <1>17, <1>18 DEF IInv

-----------------------------------------------------------------------------
(* Steps that change tracked sessions in place.                            *)

\* What changes becomes dirty, or changes no column of its row, and grows.
LEMMA InPlace ==
  ASSUME IInv, UNCHANGED <<now, store, pending, close, taken, rivals, failed, due>>,
         sessions' \in [Sessions -> TrackedSession \cup {None}],
         \A t \in Sessions \ Tracked : sessions'[t] = None,
         \A t \in Tracked : /\ SessionOK(sessions'[t])
                            /\ grown(row(sessions[t]), row(sessions'[t]))
                            /\ sessions'[t].dirty \/ ( /\ ~sessions[t].dirty
                                                       /\ row(sessions'[t]) = row(sessions[t]))
  PROVE  /\ Tracked' = Tracked /\ SessionInv' /\ SavedInv' /\ CloseInv'
         /\ Cardinality(Tracked') <= MaxActive /\ IsFiniteSet(Tracked')
         /\ \A t \in Tracked' : sessions'[t].callCount > 0 /\ sessions'[t].startedAt <= now'
  <1>1. TypeOK /\ TrackedSession \cap {None} = {}
    BY TrackerAssumption DEF IInv
  <1>2. Tracked' = Tracked
    BY <1>1 DEF Tracked, SessionOK
  <1>3. SessionInv'
    <2> SUFFICES ASSUME NEW t \in Tracked' PROVE SessionOK(sessions[t])'
      BY DEF SessionInv
    <2>1. SessionOK(sessions'[t])
      BY <1>2
    <2> QED BY <2>1 DEF SessionOK, EndOf
  <1>4. SavedInv'
    <2>1. \A s \in Tracked' : ~isDirty(s)' =>
             s \in Tracked /\ ~isDirty(s) /\ row(sessions'[s]) = row(sessions[s])
      BY <1>2 DEF isDirty
    <2> QED BY <2>1, DirtyKeepsSaved
  <1>5. /\ Cardinality(Tracked') <= MaxActive /\ IsFiniteSet(Tracked')
        /\ \A t \in Tracked' : sessions'[t].callCount > 0 /\ sessions'[t].startedAt <= now'
    BY <1>2, <1>3 DEF IInv, TypeOK, GaugeInv, SessionInv, SessionOK
  <1>6. CloseInv'
    BY <1>2, GrowKeepsClose
  <1> QED BY <1>2, <1>3, <1>4, <1>5, <1>6

LEMMA AlikeGrows == \A a, b : alike(a, b) => grown(a, b)
  <1> SUFFICES ASSUME NEW a, NEW b, alike(a, b) PROVE grown(a, b)
    OBVIOUS
  <1>1. a \in Row /\ b \in Row /\ a.callCount = b.callCount /\ a.cost = b.cost
    BY DEF alike
  <1>2. a.callCount \in Nat /\ a.cost \in Nat
    BY <1>1 DEF Row
  <1>3. a.callCount <= b.callCount /\ a.cost <= b.cost
    BY <1>1, <1>2
  <1> QED BY <1>1, <1>3 DEF grown

\* An unchanged session is alike.
LEMMA SameAlike ==
  ASSUME IInv
  PROVE  \A t \in Tracked : alike(row(sessions[t]), row(sessions[t])) /\ sessions[t].dirty \in BOOLEAN
  BY TrackedFacts DEF IInv, alike, TrackedSession

LEMMA EndStep ==
  ASSUME IInv, NEW r \in Requests, NEW s \in Sessions, EndSession(r, s)
  PROVE  IInv'
  <1>1. /\ TypeOK
        /\ UNCHANGED <<now, store, pending, bg, close, truth, before, short, evicted, taken, rivals, failed, due>>
    BY DEF IInv, EndSession, arrives, flushes
  <1>2. req' = [req EXCEPT ![r] = [pc |-> "tracked", session |-> s, alert |-> FALSE]]
    BY DEF EndSession
  <1>3. req' \in [Requests -> [pc : {"new", "tracked", "blocked", "done"},
                               session : Sessions \cup {None}, alert : BOOLEAN]]
    BY <1>1, <1>2 DEF TypeOK
  <1>4. ControlInv'
    BY <1>1, <1>2 DEF IInv, ControlInv, TypeOK
  <1>6. CASE s \in Tracked
    <2>1. /\ sessions' = [sessions EXCEPT ![s] = ended(sessions[s])]
          /\ gauge' = gauge - 1 /\ drift' = drift - (IF s \in Active THEN 0 ELSE 1)
      BY <1>6 DEF EndSession, Touch, ended
    <2>2. \A t \in Tracked : SessionOK(sessions[t])
      BY DEF IInv, SessionInv
    <2>3. SessionOK(ended(sessions[s])) /\ ended(sessions[s]).dirty
          /\ ended(sessions[s]).status = "completed" /\ alike(row(sessions[s]), row(ended(sessions[s])))
      BY <1>6, <2>2, Ended
    <2>4. /\ sessions' \in [Sessions -> TrackedSession \cup {None}]
          /\ sessions'[s] = ended(sessions[s])
          /\ \A t \in Sessions \ {s} : sessions'[t] = sessions[t]
      BY <1>1, <2>1, <2>3 DEF TypeOK, SessionOK
    <2>5. /\ \A t \in Sessions \ Tracked : sessions'[t] = None
          /\ \A t \in Tracked : SessionOK(sessions'[t])
                                /\ alike(row(sessions[t]), row(sessions'[t]))
                                /\ (sessions'[t].dirty \/ sessions'[t] = sessions[t])
      BY <1>6, <2>2, <2>3, <2>4, SameAlike DEF Tracked
    <2>6. /\ Tracked' = Tracked /\ SessionInv' /\ SavedInv' /\ CloseInv'
          /\ Cardinality(Tracked') <= MaxActive /\ IsFiniteSet(Tracked')
          /\ \A t \in Tracked' : sessions'[t].callCount > 0 /\ sessions'[t].startedAt <= now'
      BY <1>1, <2>4, <2>5, SameAlike, AlikeGrows, InPlace
    <2>7. GaugeInv' /\ gauge' \in Int /\ drift' \in Int
      <3>1. Active \subseteq Tracked /\ IsFiniteSet(Active) /\ Active' = Active \ {s}
        <4>1. Active \subseteq Tracked /\ Active' = Active \ {s}
          BY <1>6, <2>3, <2>4, <2>6 DEF Active, Tracked
        <4> QED BY <4>1, FS_Subset DEF IInv, GaugeInv
      <3>2. gauge = Cardinality(Active) + drift /\ gauge \in Int /\ drift \in Int
        BY <1>1 DEF IInv, GaugeInv, GaugeExact, TypeOK
      <3>3. Cardinality(Active) \in Nat
        BY <3>1, FS_CardinalityType
      <3>4. CASE s \in Active
        <4>1. Cardinality(Active \ {s}) = Cardinality(Active) - 1
          BY <3>1, <3>4, FS_RemoveElement
        <4>2. Cardinality(Active') = Cardinality(Active) - 1 /\ drift' = drift
          BY <2>1, <3>1, <3>2, <3>4, <4>1
        <4> QED BY <2>1, <2>6, <3>2, <3>3, <4>2 DEF GaugeInv, GaugeExact
      <3>5. CASE s \notin Active
        <4>1. Active' = Active /\ drift' = drift - 1
          BY <2>1, <3>1, <3>5
        <4> QED BY <2>1, <2>6, <3>2, <3>3, <4>1 DEF GaugeInv, GaugeExact
      <3> QED BY <3>4, <3>5
    <2>8. TypeOK'
      BY <1>1, <1>3, <2>4, <2>6, <2>7 DEF TypeOK
    <2>9. TruthInv'
      BY <1>1, <2>5, <2>6, <2>8, AlikeKeepsTruth
    <2> QED BY <1>4, <2>6, <2>7, <2>8, <2>9 DEF IInv
  <1>7. CASE s \notin Tracked
    <2>1. UNCHANGED <<sessions, gauge, drift>>
      BY <1>7 DEF EndSession
    <2>2. TypeOK'
      BY <1>1, <1>3, <2>1 DEF TypeOK, Tracked
    <2>3. GaugeInv'
      BY <1>1, <2>1 DEF IInv, GaugeInv, GaugeExact, Active, Tracked
    <2>4. /\ sessions' \in [Sessions -> TrackedSession \cup {None}]
          /\ \A t \in Sessions \ Tracked : sessions'[t] = None
          /\ \A t \in Tracked : SessionOK(sessions'[t]) /\ sessions'[t] = sessions[t]
      BY <1>1, <2>1 DEF IInv, SessionInv, SessionOK, TypeOK, Tracked
    <2>5. SessionInv' /\ SavedInv' /\ CloseInv' /\ Tracked' = Tracked
      BY <1>1, <2>4, SameAlike, AlikeGrows, InPlace
    <2>6. TruthInv'
      BY <1>1, <2>2, <2>4, <2>5, SameAlike, AlikeKeepsTruth
    <2> QED BY <1>4, <2>2, <2>3, <2>5, <2>6 DEF IInv
  <1> QED BY <1>6, <1>7

LEMMA CostStep ==
  ASSUME IInv, NEW r \in Requests, NEW c \in Costs, RecordCost(r, c)
  PROVE  IInv'
  <1> DEFINE s == req[r].session
  <1>1. /\ TypeOK /\ c \in Nat /\ s \in Sessions
        /\ UNCHANGED <<now, store, pending, bg, close, gauge, before, evicted, drift, taken, rivals, failed, due>>
        /\ truth' = [truth EXCEPT ![s].cost = @ + c]
    BY TrackerAssumption DEF IInv, RecordCost, ControlInv, flushes
  <1>2. req' = [req EXCEPT ![r] = [pc |-> "done", session |-> None, alert |-> FALSE]]
    BY DEF RecordCost
  <1>3. req' \in [Requests -> [pc : {"new", "tracked", "blocked", "done"},
                               session : Sessions \cup {None}, alert : BOOLEAN]]
    BY <1>1, <1>2 DEF TypeOK
  <1>4. ControlInv'
    BY <1>1, <1>2 DEF IInv, ControlInv, TypeOK
  <1>5. /\ truth' \in [Sessions -> Totals]
        /\ truth'[s].calls = truth[s].calls /\ truth'[s].cost = truth[s].cost + c
        /\ \A t \in Sessions \ {s} : truth'[t] = truth[t]
    <2> HIDE DEF s
    <2>1. truth \in [Sessions -> Totals]
      BY <1>1 DEF TypeOK
    <2>2. truth[s].calls \in Nat /\ truth[s].cost + c \in Nat
      BY <1>1, <2>1 DEF Totals
    <2>3. truth' = [truth EXCEPT ![s] = [truth[s] EXCEPT !.cost = @ + c]]
      BY <1>1, <2>1
    <2>4. [truth[s] EXCEPT !.cost = @ + c] = [calls |-> truth[s].calls, cost |-> truth[s].cost + c]
      BY <1>1, <2>1 DEF Totals
    <2>5. truth'[s] = [calls |-> truth[s].calls, cost |-> truth[s].cost + c]
      BY <1>1, <2>1, <2>3, <2>4
    <2> QED BY <1>1, <2>1, <2>2, <2>3, <2>5 DEF Totals
  <1>8. \A t \in Sessions : /\ truth[t].calls \in Nat /\ truth[t].cost \in Nat
                            /\ before[t].calls \in Nat /\ before[t].cost \in Nat
                            /\ truth[t].calls <= truth'[t].calls /\ truth[t].cost <= truth'[t].cost
    BY <1>1, <1>5, TrackedFacts
  <1>6. CASE s \in Tracked
    <2>1. sessions' = [sessions EXCEPT ![s] = charged(sessions[s], c)] /\ short' = short
      BY <1>6 DEF RecordCost, Touch, charged
    <2> HIDE DEF s
    <2>2. \A t \in Tracked : SessionOK(sessions[t])
      BY DEF IInv, SessionInv
    <2> DEFINE u == charged(sessions[s], c)
    <2>3. /\ SessionOK(u) /\ u.dirty /\ u.status = sessions[s].status
          /\ u.callCount = sessions[s].callCount /\ u.cost = sessions[s].cost + c
      BY <1>1, <1>6, <2>2, Charged
    <2>12. /\ row(sessions[s]) \in Row /\ sessions[s].callCount \in Nat /\ sessions[s].cost \in Nat
          /\ row(u) \in Row
      BY <1>6, <2>2, <2>3, RowType DEF SessionOK, TrackedSession
    <2>4. sessions' = [sessions EXCEPT ![s] = u]
      BY <2>1
    <2> HIDE DEF u
    <2>5. /\ sessions' \in [Sessions -> TrackedSession \cup {None}]
          /\ sessions'[s] = u
          /\ \A t \in Sessions \ {s} : sessions'[t] = sessions[t]
      BY <1>1, <2>3, <2>4 DEF TypeOK, SessionOK
    <2>13. grown(row(sessions[s]), row(u))
      BY <1>1, <2>3, <2>12, RowFields DEF grown
    <2>6. /\ \A t \in Sessions \ Tracked : sessions'[t] = None
          /\ \A t \in Tracked : SessionOK(sessions'[t])
                                /\ grown(row(sessions[t]), row(sessions'[t]))
                                /\ (sessions'[t].dirty \/ sessions'[t] = sessions[t])
      BY <1>6, <2>2, <2>3, <2>5, <2>13, SameAlike, AlikeGrows DEF Tracked
    <2>7. /\ Tracked' = Tracked /\ SessionInv' /\ SavedInv' /\ CloseInv'
          /\ Cardinality(Tracked') <= MaxActive /\ IsFiniteSet(Tracked')
          /\ \A t \in Tracked' : sessions'[t].callCount > 0 /\ sessions'[t].startedAt <= now'
      BY <1>1, <2>5, <2>6, SameAlike, InPlace
    <2>8. Active' = Active
      BY <1>6, <2>3, <2>5, <2>7 DEF Active, Tracked
    <2>9. GaugeInv'
      BY <1>1, <2>7, <2>8 DEF IInv, GaugeInv, GaugeExact
    <2>10. TypeOK'
      BY <1>1, <1>3, <1>5, <2>1, <2>5, <2>7 DEF TypeOK
    <2>11. TruthInv'
      <3>1. ASSUME NEW t \in Sessions PROVE Complete(t)'
        <4>1. Complete(t)
          BY DEF IInv, TruthInv
        <4>2. CASE t = s
          <5>1. /\ sessions[s].callCount + before[s].calls = truth[s].calls
                /\ sessions[s].cost + before[s].cost = truth[s].cost
            BY <1>6, <4>1, <4>2, RowFields DEF Complete, complete
          <5>2. /\ u.callCount + before[s].calls = truth[s].calls
                /\ u.cost + before[s].cost = truth[s].cost + c
            BY <1>1, <1>8, <2>3, <2>12, <4>2, <5>1
          <5>3. /\ sessions'[t] = u /\ before'[t] = before[s] /\ t \in Tracked'
                /\ truth'[t].calls = truth[s].calls /\ truth'[t].cost = truth[s].cost + c
            BY <1>1, <1>5, <1>6, <2>5, <2>7, <4>2
          <5>4. complete(t, row(sessions[t]))'
            BY <5>2, <5>3, RowFields DEF complete
          <5> QED BY <5>3, <5>4 DEF Complete
        <4>3. CASE t # s
          <5>1. truth'[t] = truth[t] /\ before'[t] = before[t] /\ taken'[t] = taken[t] /\ short' = short
                /\ sessions'[t] = sessions[t]
            BY <1>1, <1>5, <2>1, <2>5, <4>3
          <5> QED BY <2>7, <4>1, <5>1 DEF Complete, complete, row
        <4> QED BY <4>2, <4>3
      <3> QED BY <1>1, <1>8, <2>10, <3>1, TruthGrows
    <2> QED BY <1>4, <2>7, <2>9, <2>10, <2>11 DEF IInv
  <1>7. CASE s \notin Tracked
    <2>1. UNCHANGED sessions /\ short' = short \cup {s}
      BY <1>7 DEF RecordCost
    <2>2. TypeOK'
      BY <1>1, <1>3, <1>5, <2>1 DEF TypeOK, Tracked
    <2>3. GaugeInv'
      BY <1>1, <2>1 DEF IInv, GaugeInv, GaugeExact, Active, Tracked
    <2>4. /\ sessions' \in [Sessions -> TrackedSession \cup {None}]
          /\ \A t \in Sessions \ Tracked : sessions'[t] = None
          /\ \A t \in Tracked : SessionOK(sessions'[t]) /\ sessions'[t] = sessions[t]
      BY <1>1, <2>1 DEF IInv, SessionInv, SessionOK, TypeOK, Tracked
    <2>5. SessionInv' /\ SavedInv' /\ CloseInv' /\ Tracked' = Tracked
      BY <1>1, <2>4, SameAlike, AlikeGrows, InPlace
    <2>6. TruthInv'
      <3>1. ASSUME NEW t \in Sessions PROVE Complete(t)'
        <4>1. Complete(t)
          BY DEF IInv, TruthInv
        <4>2. CASE t = s
          BY <1>7, <2>1, <2>5, <4>2 DEF Complete
        <4>3. CASE t # s
          <5>1. truth'[t] = truth[t] /\ before'[t] = before[t] /\ taken'[t] = taken[t]
                /\ sessions'[t] = sessions[t] /\ (t \in short' <=> t \in short)
            BY <1>1, <1>5, <2>1, <4>3
          <5> QED BY <2>5, <4>1, <5>1 DEF Complete, complete, row
        <4> QED BY <4>2, <4>3
      <3> QED BY <1>1, <1>8, <2>2, <3>1, TruthGrows
    <2> QED BY <1>4, <2>2, <2>3, <2>5, <2>6 DEF IInv
  <1> QED BY <1>6, <1>7

LEMMA ExpireStep ==
  ASSUME IInv, expireIdleSessions
  PROVE  IInv'
  <1> DEFINE E == {s \in Active : SessionTimeout > 0 /\ idle(s)}
  <1>1. /\ TypeOK /\ bg = "flush" /\ pending["bg"] = {} /\ bg' = "expired"
        /\ UNCHANGED <<now, store, pending, close, req, truth, before, short, evicted, drift, taken, rivals, failed, due>>
        /\ gauge' = gauge - Cardinality(E)
    BY DEF IInv, expireIdleSessions, account, flushes
  <1>2. sessions' = [s \in Sessions |-> IF s \notin E THEN sessions[s] ELSE timedOut(sessions[s])]
    BY DEF expireIdleSessions, timedOut
  <1>3. E \subseteq Active /\ Active \subseteq Tracked /\ Tracked \subseteq Sessions
    BY DEF Active, Tracked
  <1> HIDE DEF E
  <1>4. \A t \in Tracked : SessionOK(sessions[t])
    BY DEF IInv, SessionInv
  <1>5. \A t \in E : /\ sessions'[t] = timedOut(sessions[t])
                     /\ SessionOK(sessions'[t]) /\ sessions'[t].dirty
                     /\ sessions'[t].status = "completed" /\ alike(row(sessions[t]), row(sessions'[t]))
    <2> SUFFICES ASSUME NEW t \in E
                 PROVE  /\ sessions'[t] = timedOut(sessions[t])
                        /\ SessionOK(sessions'[t]) /\ sessions'[t].dirty
                        /\ sessions'[t].status = "completed" /\ alike(row(sessions[t]), row(sessions'[t]))
      OBVIOUS
    <2>1. sessions'[t] = timedOut(sessions[t])
      BY <1>2, <1>3
    <2>2. /\ SessionOK(timedOut(sessions[t])) /\ timedOut(sessions[t]).dirty
          /\ timedOut(sessions[t]).status = "completed"
          /\ alike(row(sessions[t]), row(timedOut(sessions[t])))
      BY <1>3, <1>4, TimedOut
    <2> QED BY <2>1, <2>2
  <1>6. \A t \in Sessions \ E : sessions'[t] = sessions[t]
    BY <1>2
  <1>7. sessions' \in [Sessions -> TrackedSession \cup {None}]
    BY <1>1, <1>2, <1>5 DEF TypeOK, SessionOK
  <1>8. /\ \A t \in Sessions \ Tracked : sessions'[t] = None
        /\ \A t \in Tracked : SessionOK(sessions'[t])
                              /\ (sessions'[t].dirty \/ sessions'[t] = sessions[t])
    BY <1>3, <1>4, <1>5, <1>6 DEF Tracked
  <1>9. \A t \in Tracked : alike(row(sessions[t]), row(sessions'[t]))
    <2> SUFFICES ASSUME NEW t \in Tracked PROVE alike(row(sessions[t]), row(sessions'[t]))
      OBVIOUS
    <2>1. CASE t \in E
      BY <1>5, <2>1
    <2>2. CASE t \notin E
      <3>1. row(sessions[t]) \in Row /\ sessions'[t] = sessions[t]
        BY <1>3, <1>4, <1>6, <2>2, RowType DEF SessionOK
      <3> QED BY <3>1 DEF alike
    <2> QED BY <2>1, <2>2
  <1>10. /\ Tracked' = Tracked /\ SessionInv' /\ SavedInv' /\ CloseInv'
         /\ Cardinality(Tracked') <= MaxActive /\ IsFiniteSet(Tracked')
         /\ \A t \in Tracked' : sessions'[t].callCount > 0 /\ sessions'[t].startedAt <= now'
    <2>1. \A t \in Tracked : /\ SessionOK(sessions'[t])
                             /\ grown(row(sessions[t]), row(sessions'[t]))
                             /\ sessions'[t].dirty \/ ( /\ ~sessions[t].dirty
                                                        /\ row(sessions'[t]) = row(sessions[t]))
      BY <1>8, <1>9, SameAlike, AlikeGrows
    <2> QED BY <1>1, <1>7, <1>8, <2>1, InPlace
  <1>11. GaugeInv' /\ gauge' \in Int
    <2>1. Active' = Active \ E
      BY <1>3, <1>5, <1>6, <1>10 DEF Active, Tracked
    <2>2. IsFiniteSet(Active)
      BY <1>3, FS_Subset DEF IInv, GaugeInv
    <2>3. IsFiniteSet(E)
      BY <1>3, <2>2, FS_Subset
    <2>4. Cardinality(Active) \in Nat /\ Cardinality(E) \in Nat
      BY <2>2, <2>3, FS_CardinalityType
    <2>5. Cardinality(Active \ E) = Cardinality(Active) - Cardinality(Active \cap E)
      BY <2>2, FS_Difference
    <2>6. Active \cap E = E
      BY <1>3
    <2>7. Cardinality(Active') = Cardinality(Active) - Cardinality(E)
      BY <2>1, <2>5, <2>6
    <2>8. gauge = Cardinality(Active) + drift /\ gauge \in Int /\ drift \in Int
      BY <1>1 DEF IInv, GaugeInv, GaugeExact, TypeOK
    <2>9. gauge' = Cardinality(Active') + drift' /\ gauge' \in Int
      BY <1>1, <2>4, <2>7, <2>8
    <2> QED BY <1>10, <2>9 DEF GaugeInv, GaugeExact
  <1>12. TypeOK'
    BY <1>1, <1>7, <1>10, <1>11 DEF TypeOK
  <1>13. ControlInv'
    BY <1>1 DEF IInv, ControlInv
  <1>14. TruthInv'
    BY <1>1, <1>9, <1>10, <1>12, AlikeKeepsTruth
  <1> QED BY <1>10, <1>11, <1>12, <1>13, <1>14 DEF IInv

LEMMA GhostStep ==
  ASSUME IInv, detectGhosts
  PROVE  IInv'
  <1> DEFINE F == {s \in Active : ~sessions[s].ghostAlerted /\ CheckGhost(sessions[s])}
  <1>1. /\ TypeOK /\ bg = "expired" /\ bg' = "wait"
        /\ UNCHANGED <<now, store, pending, close, req, gauge, truth, before, short, evicted, drift, taken, rivals, failed, due>>
    BY DEF IInv, detectGhosts, account, flushes
  <1>2. sessions' = [s \in Sessions |-> IF s \notin F THEN sessions[s] ELSE reported(sessions[s])]
    BY DEF detectGhosts, reported
  <1>3. /\ F \subseteq Active /\ Active \subseteq Tracked /\ Tracked \subseteq Sessions
        /\ \A t \in F : ~sessions[t].ghostAlerted
    BY DEF Active, Tracked
  <1> HIDE DEF F
  <1>4. \A t \in Tracked : SessionOK(sessions[t])
    BY DEF IInv, SessionInv
  <1>5. \A t \in F : /\ SessionOK(sessions'[t]) /\ sessions'[t].dirty = sessions[t].dirty
                     /\ sessions'[t].status = sessions[t].status
                     /\ row(sessions'[t]) = row(sessions[t])
    <2> SUFFICES ASSUME NEW t \in F
                 PROVE  /\ SessionOK(sessions'[t]) /\ sessions'[t].dirty = sessions[t].dirty
                        /\ sessions'[t].status = sessions[t].status
                        /\ row(sessions'[t]) = row(sessions[t])
      OBVIOUS
    <2>1. sessions'[t] = reported(sessions[t])
      BY <1>2, <1>3
    <2>2. /\ SessionOK(reported(sessions[t])) /\ reported(sessions[t]).dirty = sessions[t].dirty
          /\ reported(sessions[t]).status = sessions[t].status
          /\ row(reported(sessions[t])) = row(sessions[t])
      BY <1>3, <1>4, Reported
    <2> QED BY <2>1, <2>2
  <1>6. \A t \in Sessions \ F : sessions'[t] = sessions[t]
    BY <1>2
  <1>7. sessions' \in [Sessions -> TrackedSession \cup {None}]
    BY <1>1, <1>2, <1>5 DEF TypeOK, SessionOK
  <1>8. /\ \A t \in Sessions \ Tracked : sessions'[t] = None
        /\ \A t \in Tracked : SessionOK(sessions'[t]) /\ sessions'[t].dirty = sessions[t].dirty
                              /\ sessions'[t].status = sessions[t].status
                              /\ row(sessions'[t]) = row(sessions[t])
    BY <1>3, <1>4, <1>5, <1>6 DEF Tracked
  <1>9. \A t \in Tracked : alike(row(sessions[t]), row(sessions'[t]))
    <2>1. \A t \in Tracked : row(sessions[t]) \in Row
      BY <1>4, RowType DEF SessionOK
    <2> QED BY <1>8, <2>1 DEF alike
  <1>10. /\ Tracked' = Tracked /\ SessionInv' /\ SavedInv' /\ CloseInv'
         /\ Cardinality(Tracked') <= MaxActive /\ IsFiniteSet(Tracked')
         /\ \A t \in Tracked' : sessions'[t].callCount > 0 /\ sessions'[t].startedAt <= now'
    <2>1. \A t \in Tracked : /\ SessionOK(sessions'[t])
                             /\ grown(row(sessions[t]), row(sessions'[t]))
                             /\ sessions'[t].dirty \/ ( /\ ~sessions[t].dirty
                                                        /\ row(sessions'[t]) = row(sessions[t]))
      BY <1>8, <1>9, SameAlike, AlikeGrows
    <2> QED BY <1>1, <1>7, <1>8, <2>1, InPlace
  <1>11. Active' = Active
    BY <1>3, <1>8, <1>10 DEF Active
  <1>12. TypeOK' /\ GaugeInv' /\ ControlInv'
    BY <1>1, <1>7, <1>10, <1>11 DEF TypeOK, IInv, GaugeInv, GaugeExact, ControlInv
  <1>13. TruthInv'
    BY <1>1, <1>9, <1>10, <1>12, AlikeKeepsTruth
  <1> QED BY <1>10, <1>12, <1>13 DEF IInv

-----------------------------------------------------------------------------
(* The two parts of a flush.                                               *)

\* Under the mutex: every session that was dirty is on its way, with the rows
\* the other flush has of it as rivals, and every session is as it was taken.
LEMMA TakeView ==
  ASSUME IInv, NEW f \in Flushes, pending[f] = {}, FlushTake(f), UNCHANGED now
  PROVE  /\ sessions' \in [Sessions -> TrackedSession \cup {None}] /\ SessionInv'
         /\ Tracked' \subseteq Tracked /\ Active' = Active
         /\ taken' \in [Sessions -> Row \cup {None}] /\ rivals' \in [Sessions -> SUBSET Row]
         /\ pending' \in [Flushes -> SUBSET (Sessions \X Row)] /\ failed' = failed \ Dirty
         /\ \A g \in Flushes \ {f} : pending'[g] = pending[g]
         /\ \A s \in Tracked' : ~isDirty(s)' /\ row(sessions'[s]) = row(sessions[s])
         /\ \A s \in Tracked : taken'[s] = row(sessions[s])
         /\ \A s \in Dirty : /\ \A g \in Flushes : \A p \in pending[g] : p[1] = s => p[2] \in rivals'[s]
                             /\ (\A g \in Flushes : pending[g] = {}) => rivals'[s] = {}
                             /\ \A p \in pending'[f] : p[1] = s => p[2] = row(sessions[s])
                             /\ ~clear(f, s)'
         /\ \A s \in Sessions \ Dirty : /\ taken'[s] = taken[s] /\ rivals'[s] = rivals[s]
                                        /\ clear(f, s) /\ clear(f, s)'
  <1> DEFINE D == {<<s, row(sessions[s])>> : s \in Dirty}
             others(s) == {p[2] : p \in {q \in UNION {pending[g] : g \in Flushes} : q[1] = s}}
  <1>1. /\ TypeOK /\ pending' = [pending EXCEPT ![f] = D]
        /\ sessions' = [s \in Sessions |-> IF s \notin Tracked \ Over THEN None ELSE cleaned(sessions[s])]
        /\ taken' = [s \in Sessions |-> IF s \in Dirty THEN row(sessions[s]) ELSE taken[s]]
        /\ rivals' = [s \in Sessions |-> IF s \in Dirty THEN others(s) ELSE rivals[s]]
        /\ failed' = failed \ Dirty
    BY DEF IInv, FlushTake, Take, Sweep, cleaned
  <1>2. /\ \A p \in D : p[1] \in Dirty /\ p = <<p[1], row(sessions[p[1]])>>
        /\ \A s \in Dirty : <<s, row(sessions[s])>> \in D
    OBVIOUS
  <1>3. \A t \in Tracked : t \in Sessions /\ SessionOK(sessions[t]) /\ sessions[t] \in TrackedSession
                           /\ row(sessions[t]) \in Row
    BY RowType DEF IInv, SessionInv, SessionOK, Tracked
  <1>4. /\ Over \subseteq Tracked /\ Dirty \subseteq Tracked /\ Tracked \subseteq Sessions
        /\ \A s \in Tracked : s \in Over <=> s \notin Active
        /\ \A s \in Sessions : s \in Dirty <=> isDirty(s)
    BY DEF Over, Dirty, isOver, isDirty, Active, Tracked
  <1>5. \A t \in Tracked : /\ SessionOK(cleaned(sessions[t])) /\ ~cleaned(sessions[t]).dirty
                           /\ cleaned(sessions[t]).status = sessions[t].status
                           /\ row(cleaned(sessions[t])) = row(sessions[t])
    BY <1>3, Cleaned
  <1>6. /\ \A s \in Sessions : s \notin Tracked \ Over => sessions'[s] = None
        /\ \A s \in Tracked \ Over : sessions'[s] = cleaned(sessions[s])
    BY <1>1, <1>3
  <1>7. sessions' \in [Sessions -> TrackedSession \cup {None}]
    BY <1>1, <1>5 DEF SessionOK
  <1>8. Tracked' = Tracked \ Over
    BY <1>3, <1>5, <1>6, TrackerAssumption DEF Tracked, SessionOK
  <1>9. SessionInv'
    <2> SUFFICES ASSUME NEW t \in Tracked' PROVE SessionOK(sessions[t])'
      BY DEF SessionInv
    <2>1. SessionOK(sessions'[t])
      BY <1>5, <1>6, <1>8
    <2> QED BY <2>1 DEF SessionOK, EndOf
  <1>10. Active' = Active
    BY <1>4, <1>5, <1>6, <1>8 DEF Active
  <1>11. taken' \in [Sessions -> Row \cup {None}]
    BY <1>1, <1>3, <1>4 DEF TypeOK
  <1>12. D \subseteq Sessions \X Row
    BY <1>3, <1>4
  <1>13. ASSUME NEW s \in Dirty
         PROVE  /\ \A g \in Flushes : \A p \in pending[g] : p[1] = s => p[2] \in rivals'[s]
                /\ (\A g \in Flushes : pending[g] = {}) => rivals'[s] = {}
                /\ rivals'[s] \subseteq Row
    <2>1. rivals'[s] = others(s)
      BY <1>1, <1>4
    <2>2. \A g \in Flushes : \A p \in pending[g] : p[2] \in Row
      BY <1>1, TrackedFacts
    <2> QED BY <2>1, <2>2
  <1> HIDE DEF D, others
  <1>14. rivals' \in [Sessions -> SUBSET Row]
    BY <1>1, <1>4, <1>13 DEF TypeOK
  <1>15. /\ pending' \in [Flushes -> SUBSET (Sessions \X Row)]
         /\ pending'[f] = D /\ \A g \in Flushes \ {f} : pending'[g] = pending[g]
    BY <1>1, <1>12 DEF TypeOK
  <1>16. \A s \in Tracked' : ~isDirty(s)' /\ row(sessions'[s]) = row(sessions[s])
    BY <1>5, <1>6, <1>8 DEF isDirty
  <1>17. ASSUME NEW s \in Tracked PROVE taken'[s] = row(sessions[s])
    <2>1. CASE s \in Dirty
      BY <1>1, <1>4, <2>1
    <2>2. CASE s \notin Dirty
      BY <1>1, <1>4, <2>2 DEF IInv, SavedInv
    <2> QED BY <2>1, <2>2
  <1>18. ASSUME NEW s \in Dirty
         PROVE  (\A p \in pending'[f] : p[1] = s => p[2] = row(sessions[s])) /\ ~clear(f, s)'
    <2>1. \A p \in pending'[f] : p[1] = s => p[2] = row(sessions[s])
      BY <1>2, <1>15
    <2>2. <<s, row(sessions[s])>> \in pending'[f]
      BY <1>2, <1>15
    <2> QED BY <2>1, <2>2 DEF clear
  <1>19. \A s \in Sessions \ Dirty : /\ taken'[s] = taken[s] /\ rivals'[s] = rivals[s]
                                     /\ clear(f, s) /\ clear(f, s)'
    BY <1>1, <1>2, <1>15 DEF clear
  <1>20. Tracked' \subseteq Tracked
    BY <1>8
  <1> QED BY <1>1, <1>7, <1>9, <1>10, <1>11, <1>13, <1>14, <1>15, <1>16, <1>17, <1>18, <1>19, <1>20

LEMMA TakeStep ==
  ASSUME IInv, NEW f \in Flushes, pending[f] = {}, FlushTake(f),
         UNCHANGED <<now, store, req, gauge, account>>,
         bg' \in {"wait", "flush", "expired", "stopped"}, close' \in {"new", "flush", "returned"},
         close' = "new" => close = "new" /\ f = "bg", due' \in [Sessions -> Row \cup {None}]
  PROVE  TypeOK' /\ GaugeInv' /\ SessionInv' /\ TruthInv' /\ SavedInv'
  <1>1. /\ sessions' \in [Sessions -> TrackedSession \cup {None}] /\ SessionInv'
        /\ Tracked' \subseteq Tracked /\ Active' = Active
        /\ taken' \in [Sessions -> Row \cup {None}] /\ rivals' \in [Sessions -> SUBSET Row]
        /\ pending' \in [Flushes -> SUBSET (Sessions \X Row)] /\ failed' = failed \ Dirty
        /\ \A g \in Flushes \ {f} : pending'[g] = pending[g]
        /\ \A s \in Tracked' : ~isDirty(s)' /\ row(sessions'[s]) = row(sessions[s])
        /\ \A s \in Tracked : taken'[s] = row(sessions[s])
        /\ \A s \in Dirty : /\ \A g \in Flushes : \A p \in pending[g] : p[1] = s => p[2] \in rivals'[s]
                            /\ (\A g \in Flushes : pending[g] = {}) => rivals'[s] = {}
                            /\ \A p \in pending'[f] : p[1] = s => p[2] = row(sessions[s])
                            /\ ~clear(f, s)'
        /\ \A s \in Sessions \ Dirty : /\ taken'[s] = taken[s] /\ rivals'[s] = rivals[s]
                                       /\ clear(f, s) /\ clear(f, s)'
    BY TakeView
  <1>2. UNCHANGED <<truth, before, short, evicted, drift>> /\ TypeOK
    BY DEF IInv, account
  <1>3. IsFiniteSet(Tracked') /\ Cardinality(Tracked') <= MaxActive
    <2>1. IsFiniteSet(Tracked) /\ Cardinality(Tracked) <= MaxActive
      BY DEF IInv, GaugeInv, TypeOK
    <2>2. IsFiniteSet(Tracked') /\ Cardinality(Tracked') <= Cardinality(Tracked)
      BY <1>1, <2>1, FS_Subset
    <2>3. Cardinality(Tracked) \in Nat /\ Cardinality(Tracked') \in Nat /\ MaxActive \in Nat
      BY <2>1, <2>2, FS_CardinalityType, TrackerAssumption
    <2> QED BY <2>1, <2>2, <2>3
  <1>4. GaugeInv'
    BY <1>1, <1>2, <1>3 DEF IInv, GaugeInv, GaugeExact
  <1>5. TypeOK'
    <2>1. \A t \in Tracked' : sessions'[t].callCount > 0 /\ sessions'[t].startedAt <= now'
      BY <1>1 DEF SessionInv, SessionOK
    <2>2. failed' \subseteq Sessions
      BY <1>1, <1>2 DEF TypeOK
    <2> QED BY <1>1, <1>2, <1>3, <2>1, <2>2 DEF TypeOK
  <1>6. Dirty \subseteq Tracked /\ \A s \in Sessions : isDirty(s) => s \in Dirty
    BY DEF Dirty, isDirty
  <1>7. TruthInv'
    <2> SUFFICES ASSUME NEW s \in Sessions PROVE Complete(s)' /\ NotTwice(s)'
      BY DEF TruthInv
    <2>1. Complete(s) /\ NotTwice(s)
      BY DEF IInv, TruthInv
    <2>2. \A x : (complete(s, x)' <=> complete(s, x)) /\ (true(s, x)' <=> true(s, x))
      BY <1>2 DEF complete, true
    <2>3. Complete(s)'
      <3>1. CASE s \in Tracked
        <4>1. complete(s, row(sessions[s])) /\ taken'[s] = row(sessions[s]) /\ taken'[s] # None
          BY <1>1, <1>2, <2>1, <3>1, TrackedFacts DEF Complete
        <4>3. s \in Tracked' => complete(s, row(sessions[s]))'
          <5>1. ASSUME s \in Tracked' PROVE complete(s, row(sessions[s]))'
            <6>1. row(sessions'[s]) = row(sessions[s])
              BY <1>1, <5>1
            <6> QED BY <1>2, <4>1, <6>1 DEF complete
          <5> QED BY <5>1
        <4>4. complete(s, taken[s])'
          BY <1>2, <4>1 DEF complete
        <4> QED BY <4>1, <4>3, <4>4 DEF Complete
      <3>2. CASE s \notin Tracked
        <4>1. s \notin Tracked' /\ taken'[s] = taken[s]
          BY <1>1, <1>6, <3>2
        <4>2. complete(s, taken[s])' <=> complete(s, taken[s])
          BY <1>2, <4>1 DEF complete
        <4> QED BY <1>2, <2>1, <3>2, <4>1, <4>2 DEF Complete
      <3> QED BY <3>1, <3>2
    <2>4. s \in Tracked' => true(s, row(sessions[s]))'
      <3>1. ASSUME s \in Tracked' PROVE true(s, row(sessions[s]))'
        <4>1. row(sessions'[s]) = row(sessions[s]) /\ true(s, row(sessions[s]))
          BY <1>1, <2>1, <3>1 DEF NotTwice
        <4> QED BY <1>2, <4>1 DEF true
      <3> QED BY <3>1
    <2>5. store'[s] # None => true(s, store[s])'
      BY <1>2, <2>1 DEF NotTwice, true
    <2>6. ASSUME NEW g \in Flushes, NEW p \in pending'[g], p[1] = s PROVE true(s, p[2])'
      <3>1. true(s, p[2])
        <4>1. CASE g # f
          BY <1>1, <2>1, <2>6, <4>1 DEF NotTwice
        <4>2. CASE g = f
          <5>1. s \in Dirty
            BY <1>1, <2>6, <4>2 DEF clear
          <5>2. p[2] = row(sessions[s]) /\ s \in Tracked
            BY <1>1, <1>6, <2>6, <4>2, <5>1
          <5> QED BY <2>1, <5>2 DEF NotTwice
        <4> QED BY <4>1, <4>2
      <3> QED BY <1>2, <3>1 DEF true
    <2> QED BY <2>3, <2>4, <2>5, <2>6 DEF NotTwice
  <1>8. SavedInv'
    <2> SUFFICES ASSUME NEW s \in Sessions
                 PROVE  /\ s \in Tracked' /\ ~isDirty(s)' => row(sessions'[s]) = taken'[s]
                        /\ close' = "new" => rivals'[s] = {}
                        /\ s \notin failed' => \A g \in Flushes : \A p \in pending'[g] :
                              p[1] = s => p[2] \in {taken'[s]} \cup rivals'[s]
                        /\ s \notin failed' /\ taken'[s] # None /\ (\A g \in Flushes : clear(g, s)') =>
                              store'[s] \in {taken'[s]} \cup rivals'[s]
      BY DEF SavedInv
    <2>1. s \in Tracked' => row(sessions'[s]) = taken'[s]
      BY <1>1
    <2>2. ASSUME close' = "new" PROVE rivals'[s] = {}
      <3>1. close = "new" /\ \A g \in Flushes : pending[g] = {}
        BY <2>2 DEF IInv, ControlInv, Flushes
      <3> QED BY <1>1, <3>1 DEF IInv, SavedInv
    <2>3. CASE s \in Dirty
      <3>1. \A g \in Flushes : \A p \in pending'[g] : p[1] = s => p[2] \in {taken'[s]} \cup rivals'[s]
        BY <1>1, <1>6, <2>3
      <3> QED BY <1>1, <2>1, <2>2, <2>3, <3>1
    <2>4. CASE s \notin Dirty
      <3>1. /\ taken'[s] = taken[s] /\ rivals'[s] = rivals[s] /\ (s \in failed' <=> s \in failed)
            /\ \A g \in Flushes : \A p \in pending'[g] : p[1] = s => p \in pending[g]
            /\ \A g \in Flushes : clear(g, s)' => clear(g, s)
        BY <1>1, <2>4 DEF clear
      <3>2. /\ s \notin failed => \A g \in Flushes : \A p \in pending[g] : p[1] = s => p[2] \in {taken[s]} \cup rivals[s]
            /\ s \notin failed /\ taken[s] # None /\ (\A g \in Flushes : clear(g, s)) =>
                  store[s] \in {taken[s]} \cup rivals[s]
        BY DEF IInv, SavedInv
      <3> QED BY <2>1, <2>2, <3>1, <3>2
    <2> QED BY <2>3, <2>4
  <1> QED BY <1>1, <1>4, <1>5, <1>7, <1>8

LEMMA BgFlushStep ==
  ASSUME IInv, BgFlush
  PROVE  IInv'
  <1>1. /\ bg = "wait" /\ bg' = "flush" /\ FlushTake("bg") /\ "bg" \in Flushes /\ "close" \in Flushes
        /\ UNCHANGED <<now, store, close, req, gauge, account, due>> /\ TypeOK
    BY DEF BgFlush, Flushes, IInv
  <1>2. /\ pending["bg"] = {} /\ close \in {"new", "flush", "returned"}
        /\ due' \in [Sessions -> Row \cup {None}]
    BY <1>1 DEF IInv, ControlInv, TypeOK
  <1>3. TypeOK' /\ GaugeInv' /\ SessionInv' /\ TruthInv' /\ SavedInv'
    BY <1>1, <1>2, TakeStep
  <1>4. /\ pending'["close"] = pending["close"]
        /\ \A g \in Flushes \ {"bg"} : pending'[g] = pending[g]
        /\ Tracked' \subseteq Tracked /\ \A s \in Tracked' : row(sessions'[s]) = row(sessions[s])
        /\ \A s \in Sessions : \A p \in pending'["bg"] : p[1] = s => s \in Tracked /\ p[2] = row(sessions[s])
    <2>1. /\ \A g \in Flushes \ {"bg"} : pending'[g] = pending[g]
          /\ Tracked' \subseteq Tracked /\ \A s \in Tracked' : row(sessions'[s]) = row(sessions[s])
          /\ \A s \in Dirty : \A p \in pending'["bg"] : p[1] = s => p[2] = row(sessions[s])
          /\ \A s \in Sessions \ Dirty : clear("bg", s)'
      BY <1>1, <1>2, TakeView
    <2>2. "close" # "bg" /\ Dirty \subseteq Tracked
      BY DEF Dirty, isDirty
    <2> QED BY <1>1, <2>1, <2>2 DEF clear
  <1>5. ControlInv'
    BY <1>1, <1>4 DEF IInv, ControlInv
  <1>6. CloseInv'
    <2> SUFFICES ASSUME NEW s \in Sessions
                 PROVE  /\ close' = "new" => due'[s] = None
                        /\ due'[s] # None =>
                              /\ s \in Tracked' => covers(row(sessions'[s]), due'[s])
                              /\ \A g \in Flushes : \A p \in pending'[g] : p[1] = s => covers(p[2], due'[s])
                              /\ clear("close", s)' => covers(store'[s], due'[s])
      BY DEF CloseInv, covers
    <2>1. /\ close = "new" => due[s] = None
          /\ due[s] # None =>
                /\ s \in Tracked => covers(row(sessions[s]), due[s])
                /\ \A g \in Flushes : \A p \in pending[g] : p[1] = s => covers(p[2], due[s])
                /\ clear("close", s) => covers(store[s], due[s])
      BY DEF IInv, CloseInv
    <2>2. clear("close", s)' <=> clear("close", s)
      BY <1>4 DEF clear
    <2> QED BY <1>1, <1>4, <2>1, <2>2
  <1> QED BY <1>3, <1>5, <1>6 DEF IInv

LEMMA CloseFlushStep ==
  ASSUME IInv, CloseFlush
  PROVE  IInv'
  <1>1. /\ close = "new" /\ close' = "flush" /\ FlushTake("close") /\ "bg" \in Flushes /\ "close" \in Flushes
        /\ UNCHANGED <<now, store, bg, req, gauge, account>> /\ TypeOK
        /\ due' = [s \in Sessions |->
                     IF /\ s \in Tracked /\ s \notin failed \ Dirty
                        /\ \A p \in pending["bg"] : p[1] # s
                     THEN row(sessions[s]) ELSE None]
    BY DEF CloseFlush, Flushes, IInv
  <1>2. /\ pending["close"] = {} /\ bg \in {"wait", "flush", "expired", "stopped"}
        /\ due' \in [Sessions -> Row \cup {None}]
    BY <1>1, TrackedFacts DEF IInv, ControlInv, TypeOK
  <1>3. TypeOK' /\ GaugeInv' /\ SessionInv' /\ TruthInv' /\ SavedInv'
    BY <1>1, <1>2, TakeStep
  <1>4. /\ \A g \in Flushes \ {"close"} : pending'[g] = pending[g]
        /\ Tracked' \subseteq Tracked /\ \A s \in Tracked' : row(sessions'[s]) = row(sessions[s])
        /\ \A s \in Dirty : /\ \A p \in pending'["close"] : p[1] = s => p[2] = row(sessions[s])
                            /\ ~clear("close", s)'
        /\ \A s \in Sessions \ Dirty : clear("close", s) /\ clear("close", s)'
    BY <1>1, <1>2, TakeView
  <1>5. pending'["bg"] = pending["bg"] /\ Flushes = {"bg", "close"}
    <2>1. "bg" # "close"
      OBVIOUS
    <2> QED BY <1>1, <1>4, <2>1 DEF Flushes
  <1>6. ControlInv'
    BY <1>1, <1>5 DEF IInv, ControlInv
  <1>7. CloseInv'
    <2> SUFFICES ASSUME NEW s \in Sessions, due'[s] # None
                 PROVE  /\ s \in Tracked' => covers(row(sessions'[s]), due'[s])
                        /\ \A g \in Flushes : \A p \in pending'[g] : p[1] = s => covers(p[2], due'[s])
                        /\ clear("close", s)' => covers(store'[s], due'[s])
      BY <1>1 DEF CloseInv, covers
    <2>1. /\ s \in Tracked /\ s \notin failed \ Dirty /\ clear("bg", s)
          /\ due'[s] = row(sessions[s])
      BY <1>1 DEF clear
    <2>2. covers(row(sessions[s]), row(sessions[s])) /\ row(sessions[s]) # None
      <3>1. row(sessions[s]) \in Row /\ row(sessions[s]) # None
        BY <1>1, <2>1, TrackedFacts
      <3> QED BY <3>1 DEF covers, Row
    <2>3. s \in Tracked' => covers(row(sessions'[s]), due'[s])
      BY <1>4, <2>1, <2>2
    <2>4. \A g \in Flushes : \A p \in pending'[g] : p[1] = s => covers(p[2], due'[s])
      <3>1. \A p \in pending'["bg"] : p[1] # s
        BY <1>5, <2>1 DEF clear
      <3>2. \A p \in pending'["close"] : p[1] = s => p[2] = row(sessions[s])
        BY <1>4 DEF clear
      <3> QED BY <1>5, <2>1, <2>2, <3>1, <3>2
    <2>5. ASSUME clear("close", s)' PROVE covers(store'[s], due'[s])
      <3>1. s \notin Dirty /\ s \notin failed /\ ~isDirty(s)
        BY <1>4, <2>1, <2>5 DEF Dirty
      <3>2. \A g \in Flushes : clear(g, s)
        BY <1>4, <1>5, <2>1, <3>1
      <3>3. taken[s] = row(sessions[s]) /\ rivals[s] = {}
        BY <1>1, <2>1, <3>1 DEF IInv, SavedInv
      <3>4. store[s] = row(sessions[s])
        BY <2>2, <3>1, <3>2, <3>3 DEF IInv, SavedInv
      <3> QED BY <1>1, <2>1, <2>2, <3>4
    <2> QED BY <2>3, <2>4, <2>5
  <1> QED BY <1>3, <1>6, <1>7 DEF IInv

\* Without the mutex: one row of the flush is stored, or lost.
LEMMA UpsertStep ==
  ASSUME IInv, NEW f \in Flushes, FlushUpsert(f), f = "bg" => bg = "flush", f = "close" => close = "flush"
  PROVE  IInv'
  <1>1. UNCHANGED <<now, sessions, bg, close, req, gauge, truth, before, short, evicted, drift, taken, rivals>>
    BY DEF FlushUpsert, account
  <1>2. PICK p \in pending[f] :
          /\ pending' = [pending EXCEPT ![f] = @ \ {p}]
          /\ \/ /\ store' = [store EXCEPT ![p[1]] = p[2]]
                /\ UNCHANGED <<failed, due>>
             \/ /\ StoreErrors
                /\ failed' = failed \cup {p[1]}
                /\ due' = [s \in Sessions |-> IF f = "close" /\ s = p[1] THEN None ELSE due[s]]
                /\ UNCHANGED store
    BY DEF FlushUpsert
  <1>3. TypeOK /\ p[1] \in Sessions /\ p[2] \in Row
    BY DEF IInv, TypeOK
  <1>4. /\ pending' \in [Flushes -> SUBSET (Sessions \X Row)]
        /\ pending'[f] = pending[f] \ {p} /\ \A g \in Flushes \ {f} : pending'[g] = pending[g]
    BY <1>2, <1>3 DEF TypeOK
  <1>5. /\ store' \in [Sessions -> Row \cup {None}] /\ failed' \subseteq Sessions /\ failed \subseteq failed'
        /\ due' \in [Sessions -> Row \cup {None}]
        /\ \A s \in Sessions : s # p[1] => store'[s] = store[s] /\ due'[s] = due[s]
        /\ store'[p[1]] = p[2] \/ (p[1] \in failed' /\ store'[p[1]] = store[p[1]])
        /\ \A s \in Sessions : due'[s] # None => due'[s] = due[s]
        /\ due'[p[1]] # None => store'[p[1]] = p[2] \/ (f # "close" /\ store'[p[1]] = store[p[1]])
    BY <1>2, <1>3 DEF TypeOK
  <1>6. Tracked' = Tracked /\ Active' = Active
    BY <1>1 DEF Tracked, Active
  <1>7. TypeOK'
    BY <1>1, <1>3, <1>4, <1>5, <1>6 DEF TypeOK
  <1>8. GaugeInv' /\ SessionInv'
    BY <1>1, <1>6 DEF IInv, GaugeInv, GaugeExact, SessionInv, SessionOK, EndOf
  <1>9. ControlInv'
    BY <1>1, <1>4 DEF IInv, ControlInv, Flushes
  <1>11. \A g \in Flushes : pending'[g] \subseteq pending[g]
    BY <1>4
  <1>12. \A s \in Sessions \ {p[1]}, g \in Flushes : clear(g, s)' => clear(g, s)
    BY <1>4 DEF clear
  <1>13. TruthInv'
    <2> SUFFICES ASSUME NEW s \in Sessions PROVE Complete(s)' /\ NotTwice(s)'
      BY DEF TruthInv
    <2>1. Complete(s) /\ NotTwice(s)
      BY DEF IInv, TruthInv
    <2>2. Complete(s)'
      BY <1>1, <1>6, <2>1 DEF Complete, complete, row
    <2>3. s \in Tracked' => true(s, row(sessions[s]))'
      BY <1>1, <1>6, <2>1 DEF NotTwice, true, row
    <2>4. \A g \in Flushes : \A q \in pending'[g] : q[1] = s => true(s, q[2])'
      BY <1>1, <1>11, <2>1 DEF NotTwice, true
    <2>5. store'[s] # None => true(s, store[s])'
      <3>1. (s = p[1] => true(s, p[2])) /\ (store[s] # None => true(s, store[s]))
        BY <2>1 DEF NotTwice
      <3>2. store'[s] = store[s] \/ (s = p[1] /\ store'[s] = p[2])
        BY <1>5
      <3> QED BY <1>1, <3>1, <3>2 DEF true
    <2> QED BY <2>2, <2>3, <2>4, <2>5 DEF NotTwice
  <1>14. SavedInv'
    <2> SUFFICES ASSUME NEW s \in Sessions
                 PROVE  /\ s \in Tracked' /\ ~isDirty(s)' => row(sessions'[s]) = taken'[s]
                        /\ close' = "new" => rivals'[s] = {}
                        /\ s \notin failed' => \A g \in Flushes : \A q \in pending'[g] :
                              q[1] = s => q[2] \in {taken'[s]} \cup rivals'[s]
                        /\ s \notin failed' /\ taken'[s] # None /\ (\A g \in Flushes : clear(g, s)') =>
                              store'[s] \in {taken'[s]} \cup rivals'[s]
      BY DEF SavedInv
    <2>1. /\ s \in Tracked /\ ~isDirty(s) => row(sessions[s]) = taken[s]
          /\ close = "new" => rivals[s] = {}
          /\ s \notin failed => \A g \in Flushes : \A q \in pending[g] : q[1] = s => q[2] \in {taken[s]} \cup rivals[s]
          /\ s \notin failed /\ taken[s] # None /\ (\A g \in Flushes : clear(g, s)) =>
                store[s] \in {taken[s]} \cup rivals[s]
      BY DEF IInv, SavedInv
    <2>2. s \in Tracked' /\ ~isDirty(s)' => row(sessions'[s]) = taken'[s]
      BY <1>1, <1>6, <2>1 DEF isDirty
    <2>3. s \notin failed' => \A g \in Flushes : \A q \in pending'[g] : q[1] = s => q[2] \in {taken'[s]} \cup rivals'[s]
      BY <1>1, <1>5, <1>11, <2>1
    <2>4. ASSUME s \notin failed', taken'[s] # None, \A g \in Flushes : clear(g, s)'
          PROVE  store'[s] \in {taken'[s]} \cup rivals'[s]
      <3>1. CASE s = p[1]
        <4>1. store'[s] = p[2] /\ s \notin failed
          BY <1>5, <2>4, <3>1
        <4> QED BY <1>1, <2>1, <3>1, <4>1
      <3>2. CASE s # p[1]
        <4>1. store'[s] = store[s] /\ s \notin failed /\ \A g \in Flushes : clear(g, s)
          BY <1>5, <1>12, <2>4, <3>2
        <4> QED BY <1>1, <2>1, <2>4, <4>1
      <3> QED BY <3>1, <3>2
    <2> QED BY <1>1, <2>1, <2>2, <2>3, <2>4
  <1>15. CloseInv'
    <2> SUFFICES ASSUME NEW s \in Sessions
                 PROVE  /\ close' = "new" => due'[s] = None
                        /\ due'[s] # None =>
                              /\ s \in Tracked' => covers(row(sessions'[s]), due'[s])
                              /\ \A g \in Flushes : \A q \in pending'[g] : q[1] = s => covers(q[2], due'[s])
                              /\ clear("close", s)' => covers(store'[s], due'[s])
      BY DEF CloseInv, covers
    <2>1. /\ close = "new" => due[s] = None
          /\ due[s] # None =>
                /\ s \in Tracked => covers(row(sessions[s]), due[s])
                /\ \A g \in Flushes : \A q \in pending[g] : q[1] = s => covers(q[2], due[s])
                /\ clear("close", s) => covers(store[s], due[s])
      BY DEF IInv, CloseInv
    <2>2. close' = "new" => due'[s] = None
      BY <1>1, <1>5, <2>1
    <2>3. ASSUME due'[s] # None, clear("close", s)' PROVE covers(store'[s], due'[s])
      <3>1. due'[s] = due[s] /\ due[s] # None
        BY <1>5, <2>3
      <3>2. CASE s = p[1] /\ store'[s] = p[2]
        BY <2>1, <3>1, <3>2
      <3>3. CASE ~(s = p[1] /\ store'[s] = p[2])
        <4>1. store'[s] = store[s] /\ (s = p[1] => f # "close")
          BY <1>5, <2>3, <3>3
        <4>2. clear("close", s)
          BY <1>4, <1>12, <2>3, <4>1 DEF clear, Flushes
        <4> QED BY <2>1, <3>1, <4>1, <4>2
      <3> QED BY <3>2, <3>3
    <2>4. ASSUME due'[s] # None
          PROVE  /\ s \in Tracked' => covers(row(sessions'[s]), due'[s])
                 /\ \A g \in Flushes : \A q \in pending'[g] : q[1] = s => covers(q[2], due'[s])
      <3>1. due'[s] = due[s] /\ due[s] # None
        BY <1>5, <2>4
      <3> QED BY <1>1, <1>6, <1>11, <2>1, <3>1
    <2> QED BY <2>2, <2>3, <2>4
  <1> QED BY <1>7, <1>8, <1>9, <1>13, <1>14, <1>15 DEF IInv

-----------------------------------------------------------------------------
(* The invariant, and the properties.                                      *)

LEMMA InitIInv == Init => IInv
  <1> SUFFICES ASSUME Init PROVE IInv
    OBVIOUS
  <1>1. Tracked = {} /\ Active = {}
    BY DEF Init, Tracked, Active
  <1>2. IsFiniteSet({}) /\ Cardinality({}) = 0
    BY FS_EmptySet
  <1>3. TypeOK
    <2>1. [calls |-> 0, cost |-> 0] \in Totals
      BY DEF Totals
    <2> QED BY <1>1, <1>2, <2>1, TrackerAssumption DEF Init, TypeOK
  <1>4. GaugeInv /\ SessionInv
    BY <1>1, <1>2 DEF Init, GaugeInv, GaugeExact, SessionInv
  <1>5. ControlInv
    BY DEF Init, ControlInv, Flushes
  <1>6. TruthInv
    BY <1>1 DEF Init, TruthInv, Complete, NotTwice
  <1>7. SavedInv
    BY <1>1 DEF Init, SavedInv
  <1>8. CloseInv
    BY <1>1 DEF Init, CloseInv
  <1> QED BY <1>3, <1>4, <1>5, <1>6, <1>7, <1>8 DEF IInv

\* Steps that move only the clock, the loop or Close.
LEMMA QuietStep ==
  ASSUME IInv, UNCHANGED <<sessions, store, pending, req, gauge, account, flushes>>,
         now' \in now .. MaxTime,
         bg' \in {"wait", "flush", "expired", "stopped"}, close' \in {"new", "flush", "returned"},
         bg' # "flush" => pending["bg"] = {}, close' # "flush" => pending["close"] = {},
         close' # "new" <=> close # "new"
  PROVE  IInv'
  <1>1. UNCHANGED <<sessions, store, pending, req, gauge, truth, before, short, evicted, drift,
                    taken, rivals, failed, due>>
    BY DEF account, flushes
  <1>2. TypeOK /\ now \in Nat /\ now' \in Nat /\ now <= now' /\ now' \in 0 .. MaxTime
        /\ LoopWindow \in Nat /\ MaxTime \in Nat
    BY TrackerAssumption DEF IInv, TypeOK
  <1>3. Tracked' = Tracked /\ Active' = Active
    BY <1>1 DEF Tracked, Active
  <1>4. SessionInv'
    <2> SUFFICES ASSUME NEW t \in Tracked PROVE SessionOK(sessions[t])'
      BY <1>3 DEF SessionInv
    <2> DEFINE ts == sessions[t]
               a  == Len(ts.all)
               c  == Len(ts.calls)
               n  == a - c
    <2>1. SessionOK(ts)
      BY DEF IInv, SessionInv
    <2>2. ts \in TrackedSession
      BY <2>1 DEF SessionOK
    <2>3. ts.startedAt \in Nat /\ ts.all \in Seq(CallRecord) /\ ts.calls \in Seq(CallRecord)
      BY <2>2 DEF TrackedSession
    <2>4. n \in Int /\ n <= a /\ a \in Nat /\ \A i \in 1 .. a : ts.all[i].at \in Nat
      <3>1. \A i \in 1 .. a : ts.all[i] \in CallRecord
        BY <2>3
      <3>2. \A i \in 1 .. a : ts.all[i].at \in Nat
        BY <3>1 DEF CallRecord
      <3>3. a \in Nat /\ c \in Nat
        BY <2>3
      <3> HIDE DEF a, c, ts
      <3>4. n \in Int /\ n <= a
        BY <3>3
      <3> HIDE DEF n
      <3> QED BY <3>2, <3>3, <3>4
    <2>5. \A i \in 1 .. n : ts.all[i].at < now - LoopWindow
      BY <2>1 DEF SessionOK, EndOf
    <2>6. \A i \in 1 .. n : ts.all[i].at < now' - LoopWindow
      <3> HIDE DEF n
      <3> SUFFICES ASSUME NEW i \in 1 .. n PROVE ts.all[i].at < now' - LoopWindow
        OBVIOUS
      <3>1. i \in 1 .. a
        BY <2>4
      <3>2. ts.all[i].at \in Nat /\ ts.all[i].at < now - LoopWindow
        BY <2>4, <2>5, <3>1
      <3> QED BY <1>2, <3>2
    <2>7. ts.startedAt <= now'
      BY <1>2, <2>1, <2>3 DEF SessionOK
    <2>8. EndOf(ts.calls, ts.all)'
      BY <1>1, <2>1, <2>6 DEF SessionOK, EndOf
    <2> QED BY <1>1, <2>1, <2>7, <2>8 DEF SessionOK
  <1>5. TypeOK'
    <2>1. \A t \in Tracked' : sessions'[t].callCount > 0 /\ sessions'[t].startedAt <= now'
      BY <1>4 DEF SessionInv, SessionOK
    <2> QED BY <1>1, <1>2, <1>3, <2>1 DEF TypeOK
  <1>6. GaugeInv'
    BY <1>1, <1>3 DEF IInv, GaugeInv, GaugeExact
  <1>7. ControlInv'
    BY <1>1 DEF IInv, ControlInv
  <1>8. SavedInv'
    BY <1>1, <1>3 DEF IInv, SavedInv, row, isDirty, clear
  <1>9. CloseInv'
    BY <1>1, <1>3 DEF IInv, CloseInv, covers, row, clear
  <1>10. TruthInv'
    BY <1>1, <1>3 DEF IInv, TruthInv, Complete, NotTwice, complete, true, row
  <1> QED BY <1>4, <1>5, <1>6, <1>7, <1>8, <1>9, <1>10 DEF IInv

LEMMA IInvStep == IInv /\ [Next]_vars => IInv'
  <1> SUFFICES ASSUME IInv, [Next]_vars PROVE IInv'
    OBVIOUS
  <1>1. /\ now \in 0 .. MaxTime /\ now \in Nat /\ MaxTime \in Nat
        /\ bg \in {"wait", "flush", "expired", "stopped"} /\ close \in {"new", "flush", "returned"}
        /\ bg # "flush" => pending["bg"] = {}
        /\ close # "flush" => pending["close"] = {}
    BY TrackerAssumption DEF IInv, TypeOK, ControlInv
  <1>2. now \in now .. MaxTime
    BY <1>1
  <1>3. ASSUME NEW r \in Requests, Handle(r) PROVE IInv'
    BY <1>3, TrackStep, EndStep, CostStep DEF Handle
  <1>4. CASE BgFlush
    BY <1>4, BgFlushStep
  <1>5. CASE BgUpsert
    BY <1>5, UpsertStep DEF BgUpsert, Flushes
  <1>6. CASE expireIdleSessions
    BY <1>6, ExpireStep
  <1>7. CASE detectGhosts
    BY <1>7, GhostStep
  <1>8. CASE BgStop
    BY <1>1, <1>2, <1>8, QuietStep DEF BgStop
  <1>9. CASE CloseFlush
    BY <1>9, CloseFlushStep
  <1>10. CASE CloseUpsert
    BY <1>10, UpsertStep DEF CloseUpsert, Flushes
  <1>11. CASE CloseReturn
    BY <1>1, <1>2, <1>11, QuietStep DEF CloseReturn
  <1>12. CASE Tick
    <2>1. now' \in now .. MaxTime
      BY <1>1, <1>12 DEF Tick
    <2> QED BY <1>1, <1>12, <2>1, QuietStep DEF Tick
  <1>13. CASE UNCHANGED vars
    BY <1>1, <1>2, <1>13, QuietStep DEF vars
  <1> QED BY <1>3, <1>4, <1>5, <1>6, <1>7, <1>8, <1>9, <1>10, <1>11, <1>12, <1>13 DEF Next, Background

\* What every reachable state of the tracker satisfies (session.go).
THEOREM TrackerInvariant == Spec => []IInv
  BY InitIInv, IInvStep, PTL DEF Spec

\* The active-sessions gauge equals the number of active sessions plus the
\* drift that evictions and repeated ends cause, whatever the number of
\* sessions, the capacity and the timeout: TrackCall, EndSession,
\* expireIdleSessions and flush adjust it together with the map.
THEOREM TrackerGaugeExact == Spec => []GaugeExact
  <1>1. IInv => GaugeExact
    BY DEF IInv, GaugeInv
  <1> QED BY <1>1, TrackerInvariant, PTL

\* No call and no cost of a session is forgotten between memory and store, and
\* none is counted twice, by flush, timeouts, evictions, failing upserts and a
\* Close that overtakes handlers, for any sessions, requests and capacity: the
\* losses that remain are the ones NothingForgotten names.
THEOREM TrackerNothingForgotten == Spec => []NothingForgotten
  <1>1. IInv => NothingForgotten
    <2> SUFFICES ASSUME IInv PROVE NothingForgotten
      OBVIOUS
    <2>1. TypeOK
      BY DEF IInv
    <2>2. ASSUME NEW s \in Sessions PROVE Complete(s) /\ NotTwice(s) /\ Saved(s)
      <3>1. Complete(s) /\ NotTwice(s)
        BY DEF IInv, TruthInv
      <3>2. s \in Tracked /\ ~isDirty(s) => row(sessions[s]) = taken[s]
        BY DEF IInv, SavedInv
      <3>3. ASSUME taken[s] # None, s \notin failed
            PROVE  \E r \in {taken[s]} \cup rivals[s] :
                      store[s] = r \/ \E f \in Flushes : <<s, r>> \in pending[f]
        <4>1. /\ \A f \in Flushes : \A p \in pending[f] : p[1] = s => p[2] \in {taken[s]} \cup rivals[s]
              /\ (\A f \in Flushes : clear(f, s)) => store[s] \in {taken[s]} \cup rivals[s]
          BY <3>3 DEF IInv, SavedInv
        <4>2. CASE \A f \in Flushes : clear(f, s)
          BY <4>1, <4>2
        <4>3. ASSUME NEW f \in Flushes, NEW p \in pending[f], p[1] = s
              PROVE  <<s, p[2]>> \in pending[f] /\ p[2] \in {taken[s]} \cup rivals[s]
          <5>1. p \in Sessions \X Row
            BY <2>1 DEF TypeOK
          <5>2. p = <<s, p[2]>>
            BY <4>3, <5>1
          <5> QED BY <4>1, <4>3, <5>2
        <4> QED BY <4>2, <4>3 DEF clear
      <3> QED BY <3>1, <3>2, <3>3 DEF Saved
    <2>3. ASSUME close = "returned", NEW s \in Sessions, due[s] # None PROVE covers(store[s], due[s])
      <3>1. clear("close", s)
        BY <2>3 DEF IInv, ControlInv, clear
      <3> QED BY <2>3, <3>1 DEF IInv, CloseInv
    <2> QED BY <2>1, <2>2, <2>3 DEF NothingForgotten
  <1> QED BY <1>1, TrackerInvariant, PTL

\* Trimming a session's history in TrackCall hides no loop and invents none:
\* CheckLoop on what is kept answers as on the full history, for any
\* threshold, window and trim factor and any sequence of calls.
THEOREM TrackerLoopExact == Spec => LoopExact
  <1> DEFINE Verdict == \A r \in Requests, s \in Sessions :
          LET all    == sessions'[s].all
              n      == IF s \in Tracked THEN Len(sessions[s].all) ELSE 0
          IN  /\ req[r].pc = "new" /\ req'[r].session = s
              /\ sessions'[s] # None /\ Len(all) > n
              => (req'[r].alert <=> CheckLoop(all, all[Len(all)].path))
  <1>1. IInv /\ [Next]_vars => [Verdict]_vars
    <2> SUFFICES ASSUME IInv, Next,
                        NEW r \in Requests, NEW s \in Sessions,
                        req[r].pc = "new", req'[r].session = s, sessions'[s] # None,
                        Len(sessions'[s].all) > IF s \in Tracked THEN Len(sessions[s].all) ELSE 0
                 PROVE  req'[r].alert <=> CheckLoop(sessions'[s].all,
                                            sessions'[s].all[Len(sessions'[s].all)].path)
      OBVIOUS
    <2>1. req[r].session # s /\ TypeOK
      BY TrackerAssumption DEF IInv, ControlInv
    <2>2. req' # req
      BY <2>1
    <2>3. PICK q \in Requests : Handle(q)
      BY <2>2 DEF Next, Background, BgFlush, BgUpsert, FlushUpsert, expireIdleSessions, detectGhosts,
           BgStop, CloseFlush, CloseUpsert, CloseReturn, Tick
    <2>4. q = r
      BY <2>1, <2>3 DEF Handle, TrackCall, EndSession, RecordCost, TypeOK
    <2>5. ~ \E c \in Costs : RecordCost(q, c)
      BY <2>4 DEF RecordCost
    <2>6. ~ \E t \in Sessions : EndSession(q, t)
      <3> SUFFICES ASSUME NEW t \in Sessions, EndSession(q, t) PROVE FALSE
        OBVIOUS
      <3>1. t = s
        BY <2>1, <2>4 DEF EndSession, TypeOK
      <3>2. CASE s \in Tracked
        <4>1. sessions' = [sessions EXCEPT ![s] = ended(sessions[s])]
          BY <3>1, <3>2 DEF EndSession, Touch, ended
        <4>2. SessionOK(sessions[s])
          BY <3>2 DEF IInv, SessionInv
        <4>3. ended(sessions[s]).all = sessions[s].all
          BY <4>2, Ended
        <4>4. sessions'[s].all = sessions[s].all
          BY <2>1, <4>1, <4>3 DEF TypeOK
        <4>5. Len(sessions[s].all) \in Nat
          BY <4>2 DEF SessionOK, TrackedSession
        <4> QED BY <3>2, <4>4, <4>5
      <3>3. CASE s \notin Tracked
        BY <3>1, <3>3 DEF EndSession, Tracked
      <3> QED BY <3>2, <3>3
    <2>7. PICK t \in Sessions, path \in Paths : TrackCall(r, t, path)
      BY <2>3, <2>4, <2>5, <2>6 DEF Handle
    <2> DEFINE call == [at |-> now, path |-> path]
               ts   == called(s, call)
               old  == IF s \in Tracked THEN sessions[s] ELSE NewSession
    <2>8. t = s /\ req'[r].alert = CheckLoop(ts.calls, path) /\ sessions'[s] = ts
      <3> DEFINE al == CheckLoop(called(t, call).calls, path)
      <3>1. req' = [req EXCEPT ![r] = [pc |-> IF al /\ LoopBlocks THEN "blocked" ELSE "tracked",
                                       session |-> t, alert |-> al]]
        BY <2>7 DEF TrackCall
      <3>2. sessions'[t] = called(t, call)
        BY <2>7 DEF TrackCall
      <3> HIDE DEF al
      <3>3. req'[r].session = t /\ req'[r].alert = al
        BY <2>1, <3>1 DEF TypeOK
      <3> QED BY <3>2, <3>3 DEF al
    <2>9. /\ SessionOK(ts) /\ old \in TrackedSession /\ ts.all = Append(old.all, call)
          /\ EndOf(ts.calls, ts.all)
      BY Called
    <2> HIDE DEF ts, old
    <2>10. ts.calls \in Seq(CallRecord) /\ ts.all \in Seq(CallRecord) /\ old.all \in Seq(CallRecord)
      BY <2>9 DEF SessionOK, TrackedSession
    <2>11. ts.all[Len(ts.all)] = call /\ call.path = path
      BY <2>9, <2>10
    <2>12. now \in Nat
      BY <2>1, TrackerAssumption DEF TypeOK
    <2>13. CheckLoop(ts.calls, path) <=> CheckLoop(ts.all, path)
      BY <2>9, <2>10, <2>12, SameVerdict
    <2> QED BY <2>8, <2>11, <2>13
  <1> QED BY <1>1, TrackerInvariant, PTL DEF Spec, LoopExact
=============================================================================
