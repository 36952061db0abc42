-------------------------- MODULE ScreenshotBreaker --------------------------
(***************************************************************************)
(* How the unified screenshot handler (handlers/screenshot_new.go) and the *)
(* screenshot service use the breaker of the Chrome manager.               *)
(*                                                                         *)
(* The handler records a result for every request it has parsed: for those *)
(* the service turned away before the breaker was asked (invalid), for     *)
(* those it answered from the cache, and for those the breaker rejected.   *)
(* GetContext asks the breaker a second time.                              *)
(***************************************************************************)
EXTENDS CircuitBreaker

VARIABLE outcome         \* of the request in hand: "once" or "twice" allowed by the
                         \* breaker and open, or already "success" or "failure"

shotVars == <<vars, outcome>>

ShotTypeOK == TypeOK /\ outcome \in [Callers -> {"once", "twice", "success", "failure"}]

ShotInit == Init /\ outcome = [c \in Callers |-> "once"]

\* A response that is ready without Chrome, and still has to be recorded.
Ready(c, result) ==
    /\ Move(c, "idle", "running")
    /\ outcome' = [outcome EXCEPT ![c] = result]
    /\ UNCHANGED <<state, failureCount, age, grant, run>>

\* validateRequest or generateConfig refuses it.
Invalid(c) == Ready(c, "failure")

CacheHit(c) == Ready(c, "success")

\* SERVICE_UNAVAILABLE: the breaker is open.
Unavailable(c) == state = "open" /\ age < Expired /\ Ready(c, "failure")

\* executeScreenshot has Chrome running, and GetContext asks the breaker again.
AskAgain(c) ==
    /\ pc[c] = "running" /\ outcome[c] = "once"
    /\ LET rejected == state = "open" /\ age < Expired IN
       outcome' = [outcome EXCEPT ![c] = IF rejected THEN "failure" ELSE "twice"]
    /\ IF state = "open" /\ age = Expired
       THEN pc' = [pc EXCEPT ![c] = "gap"]
       ELSE UNCHANGED pc
    /\ UNCHANGED <<state, failureCount, age, grant, run>>

\* OnSuccess, after a screenshot or a cache hit.
OnSuccess(c) ==
    /\ outcome[c] \in {"twice", "success"}
    /\ RecordSuccess(c)
    /\ outcome' = [outcome EXCEPT ![c] = "once"]

\* OnFailure, also when Chrome cannot be started.
OnFailure(c) ==
    /\ outcome[c] # "success"
    /\ RecordFailure(c)
    /\ outcome' = [outcome EXCEPT ![c] = "once"]

ShotNext ==
    \/ \E c \in Callers :
          \/ Invalid(c) \/ CacheHit(c) \/ Unavailable(c) \/ AskAgain(c)
          \/ OnSuccess(c) \/ OnFailure(c)
          \/ (Admit(c) \/ SeeExpiry(c) \/ HalfOpen(c)) /\ UNCHANGED outcome
    \/ Tick /\ UNCHANGED outcome

\* The fairness of the breaker, and every request in hand is recorded.
ShotFairness ==
    /\ WF_shotVars(Tick /\ UNCHANGED outcome)
    /\ WF_shotVars(\E c \in Callers : SeeExpiry(c) /\ UNCHANGED outcome)
    /\ \A c \in Callers :
          /\ WF_shotVars(HalfOpen(c) /\ UNCHANGED outcome)
          /\ WF_shotVars(OnSuccess(c) \/ OnFailure(c))

ShotSpec == ShotInit /\ [][ShotNext]_shotVars /\ ShotFairness

------------------------------------------------------------------------------
\* docs/SCREENSHOT_REFACTOR.md:665 tells the user of an open breaker to wait
\* for the automatic recovery, one minute as a rule.
OutageEnds == state = "open" ~> state # "open"
==============================================================================
