------------------------------ MODULE Recorder ------------------------------
(***************************************************************************)
(* The asynchronous usage recorder of internal/ledger/recorder.go: a       *)
(* bounded channel, a pool of workers that drain it into the ledger, a     *)
(* counter of dropped records, and Close, which closes the channel and     *)
(* waits for the workers.                                                  *)
(*                                                                         *)
(* Every record is handed to Record by one goroutine (a proxy handler), so *)
(* the record also names that goroutine.  Record, the workers and the      *)
(* callers of Close interleave at the granularity of one channel           *)
(* operation, one atomic add or one ledger call.                           *)
(***************************************************************************)
EXTENDS Integers, Sequences, FiniteSets

CONSTANTS
    Records,            \* usage records, one Record call each
    Closers,            \* goroutines that call Close
    BufSize,            \* the bufSize argument of NewRecorder
    NumWorkers,         \* the workers argument of NewRecorder
    DefaultBufSize,     \* 10000 in the code
    DefaultWorkers,     \* 4 in the code
    None                \* the idle worker's record

ASSUME RecorderAssumption ==
    /\ BufSize \in Int /\ NumWorkers \in Int
    /\ DefaultBufSize \in Nat \ {0}
    /\ DefaultWorkers \in Nat \ {0}
    /\ None \notin Records

VARIABLES
    ch,         \* the records buffered in the channel, oldest first
    chClosed,   \* close(r.ch) has been executed
    caller,     \* caller[r]: where r's call of Record stands
    dropped,    \* the atomic counter read by Dropped()
    worker,     \* worker[w]: the record w is writing, or None
    exited,     \* workers that have left their range loop
    stored,     \* records RecordUsage has committed
    failed,     \* records RecordUsage has refused (only logged)
    closer      \* closer[c]: where c's call of Close stands

vars == <<ch, chClosed, caller, dropped, worker, exited, stored, failed, closer>>

\* NewRecorder replaces non-positive sizes by its defaults.
bufSize == IF BufSize <= 0 THEN DefaultBufSize ELSE BufSize
Workers == 1 .. (IF NumWorkers <= 0 THEN DefaultWorkers ELSE NumWorkers)

CallerStates == {"new", "sent", "full", "counted", "panicked"}
CloserStates == {"new", "waiting", "blocked", "returned"}

\* sync.Once: the function runs in the first caller and has finished.
OnceDone    == \E c \in Closers : closer[c] = "returned"
OnceRunning == \E c \in Closers : closer[c] = "waiting"

Init ==
    /\ ch = <<>>
    /\ chClosed = FALSE
    /\ caller = [r \in Records |-> "new"]
    /\ dropped = 0
    /\ worker = [w \in Workers |-> None]
    /\ exited = {}
    /\ stored = {}
    /\ failed = {}
    /\ closer = [c \in Closers |-> "new"]

-----------------------------------------------------------------------------
(* Record: the non-blocking select.                                        *)

\* Faulty: a record is still accepted after Close has begun.
SendLate(r) ==
    /\ caller[r] = "new" /\ Len(ch) < bufSize
    /\ ch' = Append(ch, r)
    /\ caller' = [caller EXCEPT ![r] = "sent"]
    /\ UNCHANGED <<chClosed, dropped, worker, exited, stored, failed, closer>>

\* A send on an open channel with room: `case r.ch <- record`.
Send(r) ==
    /\ caller[r] = "new"
    /\ ~chClosed
    /\ Len(ch) < bufSize
    /\ ch' = Append(ch, r)
    /\ caller' = [caller EXCEPT ![r] = "sent"]
    /\ UNCHANGED <<chClosed, dropped, worker, exited, stored, failed, closer>>

\* No room: the select takes its default branch ...
Full(r) ==
    /\ caller[r] = "new"
    /\ ~chClosed
    /\ Len(ch) >= bufSize
    /\ caller' = [caller EXCEPT ![r] = "full"]
    /\ UNCHANGED <<ch, chClosed, dropped, worker, exited, stored, failed, closer>>

\* Faulty: the drop is logged and not counted.
CountDropMissed(r) ==
    /\ caller[r] = "full"
    /\ caller' = [caller EXCEPT ![r] = "counted"]
    /\ UNCHANGED <<ch, chClosed, dropped, worker, exited, stored, failed, closer>>

\* ... and counts the record with an atomic add of its own.
CountDrop(r) ==
    /\ caller[r] = "full"
    /\ dropped' = dropped + 1
    /\ caller' = [caller EXCEPT ![r] = "counted"]
    /\ UNCHANGED <<ch, chClosed, worker, exited, stored, failed, closer>>

\* A select with a send case on a closed channel panics, buffer full or not.
SendOnClosed(r) ==
    /\ caller[r] = "new"
    /\ chClosed
    /\ caller' = [caller EXCEPT ![r] = "panicked"]
    /\ UNCHANGED <<ch, chClosed, dropped, worker, exited, stored, failed, closer>>

Record(r) == Send(r) \/ Full(r) \/ CountDrop(r) \/ SendOnClosed(r)

-----------------------------------------------------------------------------
(* worker: `for record := range r.ch { RecordUsage }`.                     *)

\* Faulty: the worker waits for a full buffer, to write in batches.
ReceiveBatch(w) ==
    /\ worker[w] = None /\ w \notin exited
    /\ ch # <<>> /\ (Len(ch) = bufSize \/ chClosed)
    /\ worker' = [worker EXCEPT ![w] = Head(ch)]
    /\ ch' = Tail(ch)
    /\ UNCHANGED <<chClosed, caller, dropped, exited, stored, failed, closer>>

Receive(w) ==
    /\ worker[w] = None
    /\ w \notin exited
    /\ ch # <<>>
    /\ worker' = [worker EXCEPT ![w] = Head(ch)]
    /\ ch' = Tail(ch)
    /\ UNCHANGED <<chClosed, caller, dropped, exited, stored, failed, closer>>

\* RecordUsage returned nil.
RecordUsage(w) ==
    /\ worker[w] # None
    /\ stored' = stored \cup {worker[w]}
    /\ worker' = [worker EXCEPT ![w] = None]
    /\ UNCHANGED <<ch, chClosed, caller, dropped, exited, failed, closer>>

\* Faulty: a refused record is logged as failed and also put back.
RequeueOnError(w) ==
    /\ worker[w] # None
    /\ failed' = failed \cup {worker[w]}
    /\ ch' = Append(ch, worker[w])
    /\ worker' = [worker EXCEPT ![w] = None]
    /\ UNCHANGED <<chClosed, caller, dropped, exited, stored, closer>>

\* RecordUsage returned an error: logged, the record is gone.
RecordUsageError(w) ==
    /\ worker[w] # None
    /\ failed' = failed \cup {worker[w]}
    /\ worker' = [worker EXCEPT ![w] = None]
    /\ UNCHANGED <<ch, chClosed, caller, dropped, exited, stored, closer>>

\* range ends on a closed AND drained channel; the deferred wg.Done runs.
Exit(w) ==
    /\ worker[w] = None
    /\ w \notin exited
    /\ ch = <<>>
    /\ chClosed
    /\ exited' = exited \cup {w}
    /\ UNCHANGED <<ch, chClosed, caller, dropped, worker, stored, failed, closer>>

Worker(w) == Receive(w) \/ RecordUsage(w) \/ RecordUsageError(w) \/ Exit(w)

-----------------------------------------------------------------------------
(* Close: close(r.ch), then wg.Wait, both under sync.Once.                 *)

\* Faulty: Close waits for the workers without closing the channel.
CloseWithoutClosing(c) ==
    /\ closer[c] = "new" /\ ~OnceRunning /\ ~OnceDone
    /\ closer' = [closer EXCEPT ![c] = "waiting"]
    /\ UNCHANGED <<ch, chClosed, caller, dropped, worker, exited, stored, failed>>

CloseCh(c) ==
    /\ closer[c] = "new"
    /\ ~OnceRunning /\ ~OnceDone
    /\ chClosed' = TRUE
    /\ closer' = [closer EXCEPT ![c] = "waiting"]
    /\ UNCHANGED <<ch, caller, dropped, worker, exited, stored, failed>>

\* A later caller blocks in Once.Do while the first is still waiting ...
CloseBlocked(c) ==
    /\ closer[c] = "new"
    /\ OnceRunning
    /\ closer' = [closer EXCEPT ![c] = "blocked"]
    /\ UNCHANGED <<ch, chClosed, caller, dropped, worker, exited, stored, failed>>

\* Faulty: Close does not wait for the workers.
ReturnAtOnce(c) ==
    /\ closer[c] = "waiting"
    /\ closer' = [closer EXCEPT ![c] = "returned"]
    /\ UNCHANGED <<ch, chClosed, caller, dropped, worker, exited, stored, failed>>

\* wg.Wait returns when every worker has called Done.
WaitDone(c) ==
    /\ closer[c] = "waiting"
    /\ exited = Workers
    /\ closer' = [closer EXCEPT ![c] = "returned"]
    /\ UNCHANGED <<ch, chClosed, caller, dropped, worker, exited, stored, failed>>

\* ... and returns without doing anything once the first has finished.
CloseAgain(c) ==
    /\ closer[c] \in {"new", "blocked"}
    /\ OnceDone
    /\ closer' = [closer EXCEPT ![c] = "returned"]
    /\ UNCHANGED <<ch, chClosed, caller, dropped, worker, exited, stored, failed>>

Close(c) == CloseCh(c) \/ CloseBlocked(c) \/ WaitDone(c) \/ CloseAgain(c)

-----------------------------------------------------------------------------
Next == \/ \E r \in Records : Record(r)
        \/ \E w \in Workers : Worker(w)
        \/ \E c \in Closers : Close(c)

Spec == Init /\ [][Next]_vars

\* Workers are goroutines and RecordUsage returns (a local database call); a
\* goroutine inside Close is scheduled once it can go on.  Nobody is obliged
\* to call Record or Close.
WorkerFairness == \A w \in Workers : WF_vars(Worker(w))
CloserFairness == \A c \in Closers : WF_vars(closer[c] # "new" /\ Close(c))

FairSpec == Spec /\ WorkerFairness /\ CloserFairness

-----------------------------------------------------------------------------
(* Properties.                                                             *)

\* Every variable has its type and the channel never holds more than bufSize.
TypeOK ==
    /\ ch \in Seq(Records) /\ Len(ch) <= bufSize
    /\ chClosed \in BOOLEAN
    /\ caller \in [Records -> CallerStates]
    /\ dropped \in Nat
    /\ worker \in [Workers -> Records \cup {None}]
    /\ exited \subseteq Workers
    /\ stored \subseteq Records
    /\ failed \subseteq Records
    /\ closer \in [Closers -> CloserStates]

Buffered(r) == \E i \in 1 .. Len(ch) : ch[i] = r
Held(r)     == \E w \in Workers : worker[w] = r

\* A record whose send succeeded is in exactly one place (the buffer, one
\* worker's hands, the ledger, or the log of refused writes), and a record
\* that was not sent is nowhere: no interleaving of senders and workers loses
\* or duplicates a record that Record accepted.
Accounted ==
    /\ \A i, j \in 1 .. Len(ch) : ch[i] = ch[j] => i = j
    /\ \A v, w \in Workers : worker[v] # None /\ worker[v] = worker[w] => v = w
    /\ \A r \in Records :
          /\ caller[r] = "sent" <=>
                Buffered(r) \/ Held(r) \/ r \in stored \/ r \in failed
          /\ Buffered(r) => ~Held(r) /\ r \notin stored \cup failed
          /\ Held(r) => r \notin stored \cup failed
          /\ r \notin stored \cap failed

\* How Close learns that the channel is drained: a worker leaves its loop only
\* for good, with empty hands, after the channel was closed and emptied, and
\* nothing can enter the channel again; Close returns only when all have left.
CloseProtocol ==
    /\ (\E c \in Closers : closer[c] # "new") => chClosed
    /\ exited # {} => chClosed /\ ch = <<>>
    /\ \A w \in exited : worker[w] = None
    /\ OnceDone => exited = Workers

\* When any call of Close has returned, everything that was accepted has
\* reached its verdict: the buffer is empty, no worker holds a record.
DrainedOnClose ==
    OnceDone => \A r \in Records : caller[r] = "sent" => r \in stored \cup failed

\* Dropped() is exact under concurrent Record calls: with the verdicts of the
\* ledger it explains every call of Record that returned normally, so after
\* Close dropped + stored + failed is the number of such calls.
DropsExplained ==
    LET answered == {r \in Records : caller[r] \in {"sent", "counted"}}
        open     == {r \in Records : Buffered(r) \/ Held(r)}
    IN  Cardinality(answered) = dropped + Cardinality(stored) + Cardinality(failed)
                                + Cardinality(open)

\* The recorder implements the abstract usage log.
answer(s) == IF s = "sent" THEN "accepted"
             ELSE IF s \in {"full", "counted"} THEN "dropped" ELSE s
fate == [r \in Records |-> IF r \in stored THEN "stored"
                           ELSE IF r \in failed THEN "failed" ELSE answer(caller[r])]

Log == INSTANCE UsageLog WITH fate <- fate, closing <- chClosed, closed <- OnceDone

\* Each record gets one final verdict, and Close returns only after the
\* verdicts of all accepted records (the recorder seen by its callers).
RefinesUsageLog == Log!Spec

\* Every accepted record is eventually stored or refused by the ledger.
AcceptedSettles == \A r \in Records : caller[r] = "sent" ~> r \in stored \cup failed

\* Close returns to every caller: workers notice the closed channel, drain it
\* and leave, however many calls of Close overlap.
CloseReturns == \A c \in Closers : closer[c] # "new" ~> closer[c] = "returned"

=============================================================================
