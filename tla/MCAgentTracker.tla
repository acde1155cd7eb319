--------------------------- MODULE MCAgentTracker ---------------------------
(* Small instances of the agent session tracker.  The sessions are         *)
(* interchangeable, so the first request may as well name a fixed one:     *)
(* this nearly halves the states and, unlike TLC's symmetry, is sound for  *)
(* the liveness property too.  The last request arrives only if Close does *)
(* not run: a behaviour has all the requests, or all but one and Close.    *)
EXTENDS AgentTracker, TLC

FirstSession == CHOOSE s \in Sessions : TRUE

MCNext ==
    /\ Next
    /\ req'[1].session \in {FirstSession, None}
    /\ close' # "new" => req'[NumRequests].pc = "new"

MCSpec == Init /\ [][MCNext]_vars /\ WF_vars(Background) /\ WF_vars(Tick)

=============================================================================
