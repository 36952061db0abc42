--------------------------- MODULE MCCircuitBreaker ---------------------------
(* Three goroutines share one breaker; small threshold and timeout. *)
EXTENDS CircuitBreaker
==============================================================================
