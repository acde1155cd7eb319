------------------------------ MODULE UsageLog ------------------------------
(***************************************************************************)
(* What the asynchronous usage recorder promises its callers, without      *)
(* channel, workers or counters: every usage record handed to Record gets  *)
(* exactly one verdict, a verdict never changes, and once Close has        *)
(* returned no accepted record is still waiting for its verdict.           *)
(***************************************************************************)
CONSTANT Records        \* the usage records the callers produce

VARIABLES
    fate,               \* fate[r]: what has become of record r so far
    closing,            \* TRUE once Close has begun
    closed              \* TRUE once some call of Close has returned

vars == <<fate, closing, closed>>

\* "new" and "accepted" are open; the other four are verdicts.
Verdicts == {"dropped", "stored", "failed", "panicked"}
Fates    == {"new", "accepted"} \cup Verdicts

Init == /\ fate = [r \in Records |-> "new"]
        /\ closing = FALSE
        /\ closed = FALSE

\* A call of Record is answered at once: the record is accepted or dropped
\* because of backlog; from the moment Close has begun the call panics.
Answer(r) == /\ fate[r] = "new"
             /\ \E f \in IF closing THEN {"panicked"} ELSE {"accepted", "dropped"} :
                    fate' = [fate EXCEPT ![r] = f]
             /\ UNCHANGED <<closing, closed>>

\* The ledger takes or refuses an accepted record, never after Close returned.
Settle(r) == /\ fate[r] = "accepted"
             /\ ~closed
             /\ \E f \in {"stored", "failed"} : fate' = [fate EXCEPT ![r] = f]
             /\ UNCHANGED <<closing, closed>>

StartClose == /\ ~closing
              /\ closing' = TRUE
              /\ UNCHANGED <<fate, closed>>

\* Close returns only when every accepted record has its verdict.
Close == /\ closing
         /\ \A r \in Records : fate[r] # "accepted"
         /\ closed' = TRUE
         /\ UNCHANGED <<fate, closing>>

Next == StartClose \/ Close \/ \E r \in Records : Answer(r) \/ Settle(r)

Spec == Init /\ [][Next]_vars
=============================================================================
