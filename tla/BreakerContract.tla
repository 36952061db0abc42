--------------------------- MODULE BreakerContract ---------------------------
(***************************************************************************)
(* What a circuit breaker promises its callers: the automaton of           *)
(* docs/SCREENSHOT_REFACTOR.md (Closed -- Threshold failures in a row -->  *)
(* Open -- time --> HalfOpen -- one result --> Closed or Open), with no    *)
(* clock, no locks and no callers.  CircuitBreaker implements it; the      *)
(* modules that only need a breaker use it in place of the detailed one.   *)
(***************************************************************************)
EXTENDS Naturals

CONSTANT Threshold       \* failureThreshold, at least 1

VARIABLES state,         \* "closed", "open" or "halfOpen"
          failures       \* failures in a row counted towards the threshold

vars == <<state, failures>>

States == {"closed", "open", "halfOpen"}

TypeOK == state \in States /\ failures \in 0..Threshold

Init == state = "closed" /\ failures = 0

\* A failure that does not reach the threshold is counted.
Count == /\ state = "closed" /\ failures + 1 < Threshold
         /\ failures' = failures + 1
         /\ UNCHANGED state

\* The failure that reaches the threshold trips the breaker.
Trip == /\ state = "closed" /\ failures + 1 = Threshold
        /\ state' = "open"
        /\ failures' = Threshold

\* A success while closed forgets the failures counted so far.
Clear == /\ state = "closed"
         /\ failures' = 0
         /\ UNCHANGED state

\* The reset timeout has passed: calls are let through again.
Expire == /\ state = "open"
          /\ state' = "halfOpen"
          /\ UNCHANGED failures

\* A success while half-open closes the breaker and forgets every failure.
Recover == /\ state = "halfOpen"
           /\ state' = "closed"
           /\ failures' = 0

\* A failure while half-open opens the breaker again.
Reopen == /\ state = "halfOpen"
          /\ state' = "open"
          /\ UNCHANGED failures

Next == Count \/ Trip \/ Clear \/ Expire \/ Recover \/ Reopen

\* The one thing that must not be put off for ever is the end of an outage.
Spec == Init /\ [][Next]_vars /\ WF_vars(Expire)
==============================================================================
