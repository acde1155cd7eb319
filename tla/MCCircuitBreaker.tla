-------------------------- MODULE MCCircuitBreaker --------------------------
(* Small instances of the circuit breaker.                                 *)
EXTENDS CircuitBreaker

=============================================================================
