--------------------------- MODULE MCCircuitBreaker ---------------------------
(* Model-checking instance of CircuitBreaker.                               *)
EXTENDS CircuitBreaker
=============================================================================
