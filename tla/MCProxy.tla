------------------------------ MODULE MCProxy -------------------------------
(* Small instances of the proxy's request pipeline and of its shutdown.    *)
(* The requests are interchangeable, so they may as well arrive in a fixed *)
(* order: this nearly halves the states and, unlike TLC's symmetry, is     *)
(* sound for the liveness properties too.                                  *)
EXTENDS Proxy

First == CHOOSE q \in Requests : TRUE

MCNext == Next /\ (h'[First].pc = "new" => \A q \in Requests : h'[q].pc = "new")

MCSpec == Init /\ [][MCNext]_vars /\ ProxyFairness

=============================================================================
