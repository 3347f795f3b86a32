-------------------------- MODULE MCCircuitBreaker --------------------------
(* Three calls in flight and a threshold of two: failures of calls that     *)
(* began before the breaker opened meet it open, half-open and closed.      *)
EXTENDS CircuitBreaker
=============================================================================
