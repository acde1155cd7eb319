--------------------------- MODULE RecorderProofs ---------------------------
(***************************************************************************)
(* The recorder's invariants and its refinement of the abstract usage log, *)
(* for any set of records and closers and any buffer and pool size.        *)
(***************************************************************************)
EXTENDS Recorder, FiniteSetTheorems, TLAPS

\* The inductive invariant: where each record is, and what Close relies on.
IInv == TypeOK /\ Accounted /\ CloseProtocol

\* NewRecorder's defaults make the channel buffered and the pool non-empty.
LEMMA SizesPositive == bufSize \in Nat \ {0} /\ 1 \in Workers
  BY RecorderAssumption DEF bufSize, Workers

\* The initial state satisfies the inductive invariant.
LEMMA InitIInv == Init => IInv
  <1> SUFFICES ASSUME Init PROVE IInv
    OBVIOUS
  <1> USE SizesPositive DEF Init
  <1>1. TypeOK
    <2>1. ch \in Seq(Records) /\ Len(ch) <= bufSize
      BY Len(<<>>) = 0
    <2>2. caller \in [Records -> CallerStates] /\ closer \in [Closers -> CloserStates]
      BY DEF CallerStates, CloserStates
    <2> QED BY <2>1, <2>2 DEF TypeOK
  <1>2. Accounted
    BY RecorderAssumption DEF Accounted, Buffered, Held
  <1>3. CloseProtocol
    BY DEF CloseProtocol, OnceDone
  <1> QED BY <1>1, <1>2, <1>3 DEF IInv

\* Every step of Record, of a worker or of Close keeps the types.
LEMMA TypeStep == TypeOK /\ [Next]_vars => TypeOK'
  <1> SUFFICES ASSUME TypeOK, [Next]_vars PROVE TypeOK'
    OBVIOUS
  <1> USE SizesPositive DEF TypeOK, CallerStates, CloserStates
  <1>1. ASSUME NEW r \in Records, Record(r) PROVE TypeOK'
    <2>1. CASE Send(r) BY <2>1 DEF Send
    <2>2. CASE Full(r) BY <2>2 DEF Full
    <2>3. CASE CountDrop(r) BY <2>3 DEF CountDrop
    <2>4. CASE SendOnClosed(r) BY <2>4 DEF SendOnClosed
    <2> QED BY <1>1, <2>1, <2>2, <2>3, <2>4 DEF Record
  <1>2. ASSUME NEW w \in Workers, Worker(w) PROVE TypeOK'
    <2>1. CASE Receive(w)
      <3>1. Head(ch) \in Records /\ Tail(ch) \in Seq(Records) /\ Len(Tail(ch)) = Len(ch) - 1
        BY <2>1 DEF Receive
      <3> QED BY <2>1, <3>1 DEF Receive
    <2>2. CASE RecordUsage(w) BY <2>2 DEF RecordUsage
    <2>3. CASE RecordUsageError(w) BY <2>3 DEF RecordUsageError
    <2>4. CASE Exit(w) BY <2>4 DEF Exit
    <2> QED BY <1>2, <2>1, <2>2, <2>3, <2>4 DEF Worker
  <1>3. ASSUME NEW c \in Closers, Close(c) PROVE TypeOK'
    BY <1>3 DEF Close, CloseCh, CloseBlocked, WaitDone, CloseAgain
  <1>4. CASE UNCHANGED vars
    BY <1>4 DEF vars
  <1> QED BY <1>1, <1>2, <1>3, <1>4 DEF Next

\* A step that moves no record and answers no caller keeps the accounting.
LEMMA AccountedFrame ==
  ASSUME Accounted, UNCHANGED <<ch, worker, stored, failed>>,
         \A r \in Records : caller'[r] = "sent" <=> caller[r] = "sent"
  PROVE  Accounted'
  BY DEF Accounted, Buffered, Held

\* Every step keeps each accepted record in exactly one place.
LEMMA AccountedStep == IInv /\ [Next]_vars => Accounted'
  <1> SUFFICES ASSUME TypeOK, Accounted, [Next]_vars PROVE Accounted'
    BY DEF IInv
  <1>1. ASSUME NEW r \in Records, Record(r) PROVE Accounted'
    <2>1. CASE Send(r)
      <3>1. /\ ch' \in Seq(Records) /\ Len(ch') = Len(ch) + 1 /\ ch'[Len(ch) + 1] = r
            /\ \A i \in 1 .. Len(ch) : ch'[i] = ch[i]
        BY <2>1 DEF Send, TypeOK
      <3>2. ~Buffered(r) /\ ~Held(r) /\ r \notin stored \cup failed
        BY <2>1 DEF Send, Accounted
      <3>3. \A q \in Records : Buffered(q)' <=> Buffered(q) \/ q = r
        <4>1. Len(ch) \in Nat
          BY DEF TypeOK
        <4>2. 1 .. Len(ch') = (1 .. Len(ch)) \cup {Len(ch) + 1}
          BY <4>1, <3>1
        <4> QED BY <4>2, <3>1 DEF Buffered
      <3>4. \A i, j \in 1 .. Len(ch') : ch'[i] = ch'[j] => i = j
        <4>1. Len(ch) \in Nat /\ 1 .. Len(ch') = (1 .. Len(ch)) \cup {Len(ch) + 1}
          BY <3>1 DEF TypeOK
        <4>2. \A i \in 1 .. Len(ch) : ch'[i] = ch[i] /\ ch[i] # r
          BY <3>1, <3>2 DEF Buffered
        <4> QED BY <4>1, <4>2, <3>1 DEF Accounted
      <3>5. \A q \in Records : caller'[q] = "sent" <=> caller[q] = "sent" \/ q = r
        BY <2>1 DEF Send, TypeOK, CallerStates
      <3>6. \A q \in Records : Held(q)' <=> Held(q)
        BY <2>1 DEF Send, Held
      <3>7. stored' = stored /\ failed' = failed /\ worker' = worker
        BY <2>1 DEF Send
      <3> QED BY <3>2, <3>3, <3>4, <3>5, <3>6, <3>7 DEF Accounted
    <2>2. CASE Full(r)
      BY <2>2, AccountedFrame DEF Full, TypeOK, CallerStates
    <2>3. CASE CountDrop(r)
      BY <2>3, AccountedFrame DEF CountDrop, TypeOK, CallerStates
    <2>4. CASE SendOnClosed(r)
      BY <2>4, AccountedFrame DEF SendOnClosed, TypeOK, CallerStates
    <2> QED BY <1>1, <2>1, <2>2, <2>3, <2>4 DEF Record
  <1>2. ASSUME NEW w \in Workers, Worker(w) PROVE Accounted'
    <2>1. CASE Receive(w)
      <3> DEFINE r == Head(ch)
      <3>1. /\ r \in Records /\ Len(ch) > 0 /\ r = ch[1]
            /\ ch' \in Seq(Records) /\ Len(ch') = Len(ch) - 1
            /\ \A i \in 1 .. Len(ch') : ch'[i] = ch[i + 1]
        BY <2>1 DEF Receive, TypeOK
      <3>2. \A q \in Records : Buffered(q)' <=> Buffered(q) /\ q # r
        <4>1. \A q \in Records : Buffered(q)' => Buffered(q) /\ q # r
          <5> SUFFICES ASSUME NEW q \in Records, NEW i \in 1 .. Len(ch'), ch'[i] = q
                       PROVE  Buffered(q) /\ q # r
            BY DEF Buffered
          <5>1. i + 1 \in 1 .. Len(ch) /\ ch[i + 1] = q /\ i + 1 # 1 /\ 1 \in 1 .. Len(ch)
            BY <3>1 DEF TypeOK
          <5> QED BY <5>1, <3>1 DEF Buffered, Accounted
        <4>2. ASSUME NEW q \in Records, Buffered(q), q # r PROVE Buffered(q)'
          <5>1. PICK i \in 1 .. Len(ch) : ch[i] = q
            BY <4>2 DEF Buffered
          <5>2. i # 1 /\ i - 1 \in 1 .. Len(ch') /\ ch'[i - 1] = q
            BY <5>1, <4>2, <3>1 DEF TypeOK
          <5> QED BY <5>2 DEF Buffered
        <4> QED BY <4>1, <4>2
      <3>3. \A i, j \in 1 .. Len(ch') : ch'[i] = ch'[j] => i = j
        BY <3>1 DEF Accounted, TypeOK
      <3>4. Buffered(r) /\ ~Held(r)
        BY <3>1 DEF Accounted, Buffered
      <3>5. \A q \in Records : Held(q)' <=> Held(q) \/ q = r
        BY <2>1, RecorderAssumption DEF Receive, Held, TypeOK
      <3>6. \A u, v \in Workers : worker'[u] # None /\ worker'[u] = worker'[v] => u = v
        BY <2>1, <3>4 DEF Receive, Held, TypeOK, Accounted
      <3>7. caller' = caller /\ stored' = stored /\ failed' = failed
        BY <2>1 DEF Receive
      <3> QED BY <3>2, <3>3, <3>4, <3>5, <3>6, <3>7 DEF Accounted
    <2>2. ASSUME worker[w] # None, worker' = [worker EXCEPT ![w] = None],
                 UNCHANGED <<ch, caller>>,
                 \/ stored' = stored \cup {worker[w]} /\ failed' = failed
                 \/ failed' = failed \cup {worker[w]} /\ stored' = stored
          PROVE  Accounted'
      <3> DEFINE r == worker[w]
      <3>1. r \in Records /\ Held(r)
        BY <2>2 DEF TypeOK, Held
      <3>2. ~Buffered(r) /\ r \notin stored \cup failed /\ caller[r] = "sent"
        BY <3>1 DEF Accounted
      <3>3. \A q \in Records : Held(q)' <=> Held(q) /\ q # r
        BY <2>2, RecorderAssumption DEF Held, Accounted, TypeOK
      <3>4. \A q \in Records : Buffered(q)' <=> Buffered(q)
        BY <2>2 DEF Buffered
      <3>5. \A u, v \in Workers : worker'[u] # None /\ worker'[u] = worker'[v] => u = v
        BY <2>2 DEF TypeOK, Accounted
      <3>6. \A i, j \in 1 .. Len(ch') : ch'[i] = ch'[j] => i = j
        BY <2>2 DEF Accounted
      <3> QED BY <2>2, <3>1, <3>2, <3>3, <3>4, <3>5, <3>6 DEF Accounted
    <2>3. CASE RecordUsage(w)
      BY <2>2, <2>3 DEF RecordUsage
    <2>4. CASE RecordUsageError(w)
      BY <2>2, <2>4 DEF RecordUsageError
    <2>5. CASE Exit(w)
      BY <2>5, AccountedFrame DEF Exit
    <2> QED BY <1>2, <2>1, <2>3, <2>4, <2>5 DEF Worker
  <1>3. ASSUME NEW c \in Closers, Close(c) PROVE Accounted'
    BY <1>3, AccountedFrame DEF Close, CloseCh, CloseBlocked, WaitDone, CloseAgain
  <1>4. CASE UNCHANGED vars
    BY <1>4, AccountedFrame DEF vars
  <1> QED BY <1>1, <1>2, <1>3, <1>4 DEF Next

\* Every step keeps the facts Close relies on.
LEMMA CloseProtocolStep == IInv /\ [Next]_vars => CloseProtocol'
  <1> SUFFICES ASSUME TypeOK, CloseProtocol, [Next]_vars PROVE CloseProtocol'
    BY DEF IInv
  <1> USE SizesPositive DEF CloseProtocol, OnceDone
  <1>1. ASSUME NEW r \in Records, Record(r) PROVE CloseProtocol'
    BY <1>1 DEF Record, Send, Full, CountDrop, SendOnClosed
  <1>2. ASSUME NEW w \in Workers, Worker(w) PROVE CloseProtocol'
    <2>1. CASE Receive(w) BY <2>1 DEF Receive, TypeOK
    <2>2. CASE RecordUsage(w) BY <2>2 DEF RecordUsage, TypeOK
    <2>3. CASE RecordUsageError(w) BY <2>3 DEF RecordUsageError, TypeOK
    <2>4. CASE Exit(w) BY <2>4 DEF Exit, TypeOK
    <2> QED BY <1>2, <2>1, <2>2, <2>3, <2>4 DEF Worker
  <1>3. ASSUME NEW c \in Closers, Close(c) PROVE CloseProtocol'
    <2>1. CASE CloseCh(c) BY <2>1 DEF CloseCh, TypeOK
    <2>2. CASE CloseBlocked(c) BY <2>2 DEF CloseBlocked, OnceRunning, TypeOK
    <2>3. CASE WaitDone(c) BY <2>3 DEF WaitDone, TypeOK
    <2>4. CASE CloseAgain(c) BY <2>4 DEF CloseAgain, TypeOK
    <2> QED BY <1>3, <2>1, <2>2, <2>3, <2>4 DEF Close
  <1>4. CASE UNCHANGED vars
    BY <1>4 DEF vars
  <1> QED BY <1>1, <1>2, <1>3, <1>4 DEF Next

\* The inductive invariant holds in every reachable state.
LEMMA RecorderIInv == Spec => []IInv
  <1>1. Init => IInv
    BY InitIInv
  <1>2. IInv /\ [Next]_vars => IInv'
    BY TypeStep, AccountedStep, CloseProtocolStep DEF IInv
  <1> QED BY <1>1, <1>2, PTL DEF Spec

\* Types, and a channel that never exceeds its buffer.
THEOREM RecorderTypeOK == Spec => []TypeOK
  <1>1. IInv => TypeOK BY DEF IInv
  <1> QED BY <1>1, RecorderIInv, PTL

\* No record that Record accepted is ever lost or duplicated on its way
\* through the channel and the workers.
THEOREM RecorderAccounted == Spec => []Accounted
  <1>1. IInv => Accounted BY DEF IInv
  <1> QED BY <1>1, RecorderIInv, PTL

\* The inductive invariant says enough about a finished Close.
LEMMA IInvDrained == IInv => DrainedOnClose
  <1> SUFFICES ASSUME IInv, OnceDone, NEW r \in Records, caller[r] = "sent"
               PROVE  r \in stored \cup failed
    BY DEF DrainedOnClose
  <1>1. exited = Workers /\ ch = <<>> /\ \A w \in Workers : worker[w] = None
    BY SizesPositive DEF IInv, CloseProtocol
  <1>2. ~Buffered(r) /\ ~Held(r)
    BY <1>1, RecorderAssumption DEF Buffered, Held
  <1> QED BY <1>2 DEF IInv, Accounted

\* When a call of Close returns, every accepted record has been stored or
\* refused by the ledger: Close drains (serve.go relies on it at exit).
THEOREM RecorderDrainedOnClose == Spec => []DrainedOnClose
  BY IInvDrained, RecorderIInv, PTL

\* The abstract verdict of a record changes only where its caller, the ledger
\* or the log of refused writes changes.
LEMMA FateUnchanged ==
  ASSUME UNCHANGED <<stored, failed>>,
         \A r \in Records : \/ caller'[r] = caller[r]
                            \/ caller[r] = "full" /\ caller'[r] = "counted"
  PROVE  fate' = fate
  BY DEF fate, answer

\* The recorder implements the abstract usage log: each record gets exactly
\* one verdict, and Close returns only after the last accepted record got its.
THEOREM RecorderRefinesUsageLog == Spec => RefinesUsageLog
  <1>1. Init => Log!Init
    BY DEF Init, Log!Init, fate, answer, OnceDone
  <1>2. IInv /\ IInv' /\ [Next]_vars => [Log!Next]_(Log!vars)
    <2> SUFFICES ASSUME IInv, IInv', [Next]_vars PROVE [Log!Next]_(Log!vars)
      OBVIOUS
    <2> USE DEF Log!Next, Log!vars
    <2>1. ASSUME NEW r \in Records, Record(r) PROVE [Log!Next]_(Log!vars)
      <3>0. UNCHANGED <<OnceDone, chClosed>>
        BY <2>1 DEF Record, Send, Full, CountDrop, SendOnClosed, OnceDone
      <3>2. r \notin stored \cup failed \/ caller[r] = "sent"
        BY DEF IInv, Accounted
      <3>3. CASE CountDrop(r)
        BY <3>3, <3>0, FateUnchanged DEF CountDrop, IInv, TypeOK
      <3>4. ASSUME caller[r] = "new", NEW s \in {"sent", "full", "panicked"},
                   caller' = [caller EXCEPT ![r] = s],
                   UNCHANGED <<stored, failed>>, chClosed <=> s = "panicked"
            PROVE  Log!Answer(r)
        <4> DEFINE f == answer(s)
        <4>1. fate[r] = "new"
          BY <3>2, <3>4 DEF fate, answer
        <4>2. fate' = [fate EXCEPT ![r] = f]
          BY <3>2, <3>4 DEF fate, answer, IInv, TypeOK
        <4>3. f \in IF chClosed THEN {"panicked"} ELSE {"accepted", "dropped"}
          BY <3>4 DEF answer
        <4> QED BY <4>1, <4>2, <4>3, <3>0 DEF Log!Answer
      <3>5. CASE Send(r)
        BY <3>4, <3>5 DEF Send
      <3>6. CASE Full(r)
        BY <3>4, <3>6 DEF Full
      <3>7. CASE SendOnClosed(r)
        BY <3>4, <3>7 DEF SendOnClosed
      <3> QED BY <2>1, <3>3, <3>5, <3>6, <3>7 DEF Record
    <2>2. ASSUME NEW w \in Workers, Worker(w) PROVE [Log!Next]_(Log!vars)
      <3>0. UNCHANGED <<OnceDone, chClosed>>
        BY <2>2 DEF Worker, Receive, RecordUsage, RecordUsageError, Exit, OnceDone
      <3>1. CASE Receive(w) \/ Exit(w)
        BY <3>1, <3>0, FateUnchanged DEF Receive, Exit
      <3>2. CASE RecordUsage(w) \/ RecordUsageError(w)
        <4> DEFINE r == worker[w]
        <4>1. r \in Records /\ Held(r)
          BY <3>2 DEF RecordUsage, RecordUsageError, IInv, TypeOK, Held
        <4>2. caller[r] = "sent" /\ r \notin stored \cup failed
          BY <4>1 DEF IInv, Accounted
        <4>3. ~OnceDone
          BY <3>2, SizesPositive DEF RecordUsage, RecordUsageError, IInv, CloseProtocol
        <4>4. fate[r] = "accepted"
          BY <4>1, <4>2 DEF fate, answer
        <4>5. CASE RecordUsage(w)
          <5>1. fate' = [fate EXCEPT ![r] = "stored"]
            BY <4>1, <4>2, <4>5 DEF fate, answer, RecordUsage
          <5> QED BY <5>1, <4>1, <4>3, <4>4, <3>0 DEF Log!Settle
        <4>6. CASE RecordUsageError(w)
          <5>1. fate' = [fate EXCEPT ![r] = "failed"]
            BY <4>1, <4>2, <4>6 DEF fate, answer, RecordUsageError
          <5> QED BY <5>1, <4>1, <4>3, <4>4, <3>0 DEF Log!Settle
        <4> QED BY <3>2, <4>5, <4>6
      <3> QED BY <2>2, <3>1, <3>2 DEF Worker
    <2>3. ASSUME NEW c \in Closers, Close(c) PROVE [Log!Next]_(Log!vars)
      <3>1. fate' = fate
        BY <2>3, FateUnchanged DEF Close, CloseCh, CloseBlocked, WaitDone, CloseAgain
      <3>2. CASE ~OnceDone'
        <4>1. UNCHANGED OnceDone
          BY <2>3, <3>2 DEF Close, CloseCh, CloseBlocked, WaitDone, CloseAgain, OnceDone,
                            IInv, TypeOK
        <4>2. chClosed' = chClosed \/ (~chClosed /\ chClosed' = TRUE)
          <5>1. chClosed' = TRUE \/ UNCHANGED chClosed
            BY <2>3 DEF Close, CloseCh, CloseBlocked, WaitDone, CloseAgain
          <5>2. chClosed \in BOOLEAN
            BY DEF IInv, TypeOK
          <5> QED BY <5>1, <5>2
        <4> QED BY <3>1, <4>1, <4>2 DEF Log!StartClose
      <3>3. CASE OnceDone'
        <4>1. DrainedOnClose'
          BY IInvDrained, PTL
        <4>2. \A r \in Records : fate'[r] # "accepted"
          BY <3>3, <4>1 DEF DrainedOnClose, fate, answer, IInv, TypeOK, CallerStates
        <4>3. chClosed /\ UNCHANGED chClosed
          <5>1. ~CloseCh(c)
            BY <3>3 DEF CloseCh, OnceDone, IInv, TypeOK
          <5>2. UNCHANGED chClosed
            BY <2>3, <5>1 DEF Close, CloseBlocked, WaitDone, CloseAgain
          <5> QED BY <3>3, <5>2 DEF IInv, CloseProtocol, OnceDone
        <4> QED BY <3>1, <3>3, <4>2, <4>3 DEF Log!Close
      <3> QED BY <3>2, <3>3
    <2>4. CASE UNCHANGED vars
      BY <2>4, FateUnchanged DEF vars, OnceDone
    <2> QED BY <2>1, <2>2, <2>3, <2>4 DEF Next
  <1> QED BY <1>1, <1>2, RecorderIInv, PTL DEF Spec, RefinesUsageLog, Log!Spec

-----------------------------------------------------------------------------
(* The counter of dropped records.                                         *)

\* The calls of Record that returned normally, and those among them that
\* dropped their record.  Each is one step of one goroutine, so that only
\* finitely many have happened, however many records there will be.
Answered == {r \in Records : caller[r] \in {"sent", "counted"}}
Counted  == {r \in Records : caller[r] = "counted"}

DropsCounted == IsFiniteSet(Answered) /\ dropped = Cardinality(Counted)

\* The elements of two finite sets that have none in common.
LEMMA DisjointUnion ==
  ASSUME NEW S, NEW T, IsFiniteSet(S), IsFiniteSet(T), S \cap T = {}
  PROVE  /\ IsFiniteSet(S \cup T)
         /\ Cardinality(S \cup T) = Cardinality(S) + Cardinality(T)
  <1>1. Cardinality(S) \in Nat /\ Cardinality(T) \in Nat /\ Cardinality(S \cap T) = 0
    BY FS_CardinalityType, FS_EmptySet
  <1>2. /\ IsFiniteSet(S \cup T)
        /\ Cardinality(S \cup T) = Cardinality(S) + Cardinality(T) - Cardinality(S \cap T)
    BY FS_Union
  <1> QED BY <1>1, <1>2

\* Every step counts the drop it makes, exactly once.
LEMMA DropsCountedStep == TypeOK /\ DropsCounted /\ [Next]_vars => DropsCounted'
  <1> SUFFICES ASSUME TypeOK, DropsCounted, [Next]_vars PROVE DropsCounted'
    OBVIOUS
  <1>0. IsFiniteSet(Counted) /\ Cardinality(Counted) \in Nat
    <2>1. Counted \subseteq Answered
      BY DEF Counted, Answered
    <2> QED BY <2>1, FS_Subset, FS_CardinalityType DEF DropsCounted
  <1>1. ASSUME NEW r \in Records, Record(r) PROVE DropsCounted'
    <2>1. CASE Send(r)
      <3>1. Answered' = Answered \cup {r} /\ Counted' = Counted /\ dropped' = dropped
        BY <2>1 DEF Send, Answered, Counted, TypeOK
      <3> QED BY <3>1, FS_AddElement DEF DropsCounted
    <2>2. CASE Full(r) \/ SendOnClosed(r)
      <3>1. Answered' = Answered /\ Counted' = Counted /\ dropped' = dropped
        BY <2>2 DEF Full, SendOnClosed, Answered, Counted, TypeOK
      <3> QED BY <3>1 DEF DropsCounted
    <2>3. CASE CountDrop(r)
      <3>1. /\ Answered' = Answered \cup {r} /\ Counted' = Counted \cup {r}
            /\ r \notin Counted /\ dropped' = dropped + 1
        BY <2>3 DEF CountDrop, Answered, Counted, TypeOK
      <3>2. IsFiniteSet(Answered')
        BY <3>1, FS_AddElement DEF DropsCounted
      <3>3. Cardinality(Counted') = Cardinality(Counted) + 1
        BY <3>1, <1>0, FS_AddElement
      <3> QED BY <3>1, <3>2, <3>3 DEF DropsCounted
    <2> QED BY <1>1, <2>1, <2>2, <2>3 DEF Record
  <1>2. CASE UNCHANGED <<caller, dropped>>
    BY <1>2 DEF DropsCounted, Answered, Counted
  <1> QED BY <1>1, <1>2 DEF Next, Worker, Receive, RecordUsage, RecordUsageError, Exit,
             Close, CloseCh, CloseBlocked, WaitDone, CloseAgain, vars

\* Where the answered records are: dropped, in the ledger, refused, or open.
LEMMA AnsweredParts ==
  ASSUME IInv, DropsCounted
  PROVE  DropsExplained
  <1> DEFINE open == {r \in Records : Buffered(r) \/ Held(r)}
  <1>1. Answered = ((Counted \cup stored) \cup failed) \cup open
    BY DEF IInv, TypeOK, Accounted, Answered, Counted
  <1>2. /\ Counted \cap stored = {}
        /\ (Counted \cup stored) \cap failed = {}
        /\ ((Counted \cup stored) \cup failed) \cap open = {}
    BY DEF IInv, TypeOK, Accounted, Counted
  <1>3. IsFiniteSet(Counted) /\ IsFiniteSet(stored) /\ IsFiniteSet(failed) /\ IsFiniteSet(open)
    <2> HIDE DEF open
    <2>1. /\ Counted \in SUBSET Answered /\ stored \in SUBSET Answered
          /\ failed \in SUBSET Answered /\ open \in SUBSET Answered
      BY <1>1
    <2> QED BY <2>1, FS_Subset DEF DropsCounted
  <1> HIDE DEF open
  <1>4. /\ Cardinality(Counted) \in Nat /\ Cardinality(stored) \in Nat
        /\ Cardinality(failed) \in Nat /\ Cardinality(open) \in Nat
    BY <1>3, FS_CardinalityType
  <1>5. /\ IsFiniteSet(Counted \cup stored)
        /\ Cardinality(Counted \cup stored) = Cardinality(Counted) + Cardinality(stored)
    BY <1>2, <1>3, DisjointUnion
  <1>6. /\ IsFiniteSet((Counted \cup stored) \cup failed)
        /\ Cardinality((Counted \cup stored) \cup failed)
              = Cardinality(Counted \cup stored) + Cardinality(failed)
    BY <1>2, <1>3, <1>5, DisjointUnion
  <1>7. Cardinality(Answered)
          = Cardinality((Counted \cup stored) \cup failed) + Cardinality(open)
    BY <1>1, <1>2, <1>3, <1>6, DisjointUnion
  <1>8. Cardinality(Answered) = dropped + Cardinality(stored) + Cardinality(failed)
                                + Cardinality(open)
    BY <1>4, <1>5, <1>6, <1>7 DEF DropsCounted
  <1> QED BY <1>8 DEF DropsExplained, Answered, open

\* Dropped() is exact: with what the ledger took, refused or has still to
\* answer, the counter explains every call of Record that returned, whatever
\* the number of callers, the size of the buffer and the pool of workers.
THEOREM RecorderDropsExplained == Spec => []DropsExplained
  <1>1. Init => DropsCounted
    <2> SUFFICES ASSUME Init PROVE DropsCounted
      OBVIOUS
    <2>1. Answered = {} /\ Counted = {} /\ dropped = 0
      BY DEF Init, Answered, Counted
    <2> QED BY <2>1, FS_EmptySet DEF DropsCounted
  <1>2. TypeOK /\ DropsCounted /\ [Next]_vars => DropsCounted'
    BY DropsCountedStep
  <1>3. IInv => TypeOK
    BY DEF IInv
  <1>4. IInv /\ DropsCounted => DropsExplained
    BY AnsweredParts
  <1> QED BY <1>1, <1>2, <1>3, <1>4, RecorderIInv, PTL DEF Spec
=============================================================================
