---------------------------- MODULE CircuitBreaker ----------------------------
(***************************************************************************)
(* services/circuit_breaker.go: one breaker shared by many goroutines.     *)
(*                                                                         *)
(* Every critical section of the code is one action.  AllowRequest has two *)
(* of them when the breaker is open: it reads state and lastFailureTime    *)
(* under the read lock, gives the lock up, and takes the write lock to     *)
(* move to half-open; a caller between the two is in the "gap".            *)
(*                                                                         *)
(* lastFailureTime is only ever compared through time.Since, so the model  *)
(* keeps the time that has passed since, in ticks, and stops counting one  *)
(* past ResetTimeout, where no later reading can tell it apart.            *)
(***************************************************************************)
EXTENDS Naturals, FiniteSets

CONSTANTS Callers,       \* goroutines that use the breaker
          Threshold,     \* failureThreshold
          ResetTimeout   \* resetTimeout, in ticks

ASSUME BreakerAssumption ==
    /\ Threshold \in Nat \ {0}
    /\ ResetTimeout \in Nat

VARIABLES state,         \* cb.state
          failureCount,  \* cb.failureCount
          age,           \* ticks since cb.lastFailureTime, up to Expired
          pc,            \* where each goroutine is
          grant,         \* history: the state each running caller was let in by
          run            \* history: recorded failures since the last recorded
                         \* success, up to Threshold

vars == <<state, failureCount, age, pc, grant, run>>

States == {"closed", "open", "halfOpen"}
Expired == ResetTimeout + 1

TypeOK ==
    /\ state \in States
    /\ failureCount \in 0..Threshold
    /\ age \in 0..Expired
    /\ pc \in [Callers -> {"idle", "gap", "running"}]
    /\ grant \in [Callers -> States]
    /\ run \in 0..Threshold

\* NewCircuitBreaker: closed, no failure, lastFailureTime the zero time.
Init ==
    /\ state = "closed"
    /\ failureCount = 0
    /\ age = Expired
    /\ pc = [c \in Callers |-> "idle"]
    /\ grant = [c \in Callers |-> "closed"]
    /\ run = 0

Move(c, from, to) == pc[c] = from /\ pc' = [pc EXCEPT ![c] = to]

------------------------------------------------------------------------------
(* AllowRequest *)

\* Closed and half-open breakers let every caller in.
Admit(c) ==
    /\ state \in {"closed", "halfOpen"}
    /\ Move(c, "idle", "running")
    /\ grant' = [grant EXCEPT ![c] = state]
    /\ UNCHANGED <<state, failureCount, age, run>>

\* Open, and the reset timeout has not passed: "circuit open".
Reject(c) ==
    /\ state = "open" /\ age < Expired
    /\ pc[c] = "idle"
    /\ UNCHANGED vars

\* Open, and the reset timeout has passed: the read lock is given up.
SeeExpiry(c) ==
    /\ state = "open" /\ age = Expired
    /\ Move(c, "idle", "gap")
    /\ UNCHANGED <<state, failureCount, age, grant, run>>

\* Faulty: the write lock is taken and the state not read again.
HalfOpenUnchecked(c) ==
    /\ Move(c, "gap", "running")
    /\ state' = "halfOpen"
    /\ grant' = [grant EXCEPT ![c] = "halfOpen"]
    /\ UNCHANGED <<failureCount, age, run>>

\* Under the write lock the state is read again, lastFailureTime is not;
\* the caller is let in whatever the state has become.
HalfOpen(c) ==
    /\ Move(c, "gap", "running")
    /\ state' = IF state = "open" THEN "halfOpen" ELSE state
    /\ grant' = [grant EXCEPT ![c] = state']
    /\ UNCHANGED <<failureCount, age, run>>

------------------------------------------------------------------------------
(* RecordResult *)

\* Faulty: a success does not reset the count.
RecordSuccessKeepsCount(c) ==
    /\ Move(c, "running", "idle")
    /\ state' = IF state = "halfOpen" THEN "closed" ELSE state
    /\ run' = 0
    /\ UNCHANGED <<failureCount, age, grant>>

\* A success resets the count, and closes a half-open breaker; an open one
\* ignores it.
RecordSuccess(c) ==
    /\ Move(c, "running", "idle")
    /\ state' = IF state = "halfOpen" THEN "closed" ELSE state
    /\ failureCount' = IF state \in {"halfOpen", "closed"} THEN 0 ELSE failureCount
    /\ run' = 0
    /\ UNCHANGED <<age, grant>>

\* A failure restarts the timeout in every state, is counted when closed,
\* and opens a breaker that is half-open or has reached the threshold.
RecordFailure(c) ==
    /\ Move(c, "running", "idle")
    /\ age' = 0
    /\ failureCount' = IF state = "closed" THEN failureCount + 1 ELSE failureCount
    /\ state' = IF \/ state = "halfOpen"
                   \/ state = "closed" /\ failureCount' >= Threshold
                THEN "open" ELSE state
    /\ run' = IF run < Threshold THEN run + 1 ELSE run
    /\ UNCHANGED grant

\* A call that ends without a result: Execute is left by a panic before it
\* records, and the legacy screenshot handlers never call RecordResult.
Abandon(c) ==
    /\ Move(c, "running", "idle")
    /\ UNCHANGED <<state, failureCount, age, grant, run>>

Tick ==
    /\ age < Expired
    /\ age' = age + 1
    /\ UNCHANGED <<state, failureCount, pc, grant, run>>

------------------------------------------------------------------------------
Next ==
    \/ \E c \in Callers :
          \/ Admit(c) \/ Reject(c) \/ SeeExpiry(c) \/ HalfOpen(c)
          \/ RecordSuccess(c) \/ RecordFailure(c) \/ Abandon(c)
    \/ Tick

\* Time passes, traffic keeps arriving, and a goroutine that waits for the
\* write lock gets it (sync.RWMutex does not starve writers).  Nothing is
\* assumed of the operations: they may hang or never record a result.
Fairness ==
    /\ WF_vars(Tick)
    /\ WF_vars(\E c \in Callers : SeeExpiry(c))
    /\ \A c \in Callers : WF_vars(HalfOpen(c))

Safety == Init /\ [][Next]_vars
Spec == Safety /\ Fairness

------------------------------------------------------------------------------
(* Properties *)

\* The failure count below the threshold is what keeps a breaker closed: at
\* the threshold it is open or probing, and no path leaves a count behind
\* that would trip a closed breaker on its next failure.
CountMatchesState == (state = "closed") <=> (failureCount < Threshold)

\* While closed, the count is the number of failures recorded in a row, late
\* results of calls let in by an earlier state included.
CountIsRun == state = "closed" => failureCount = run

\* The breaker leaves Closed only when the last Threshold results recorded,
\* by whichever callers, were all failures.
TripsOnlyAfterRun ==
    [][state = "closed" /\ state' # "closed" => run' = Threshold]_vars

\* Contract: the clocked, locked breaker implements the automaton, and an
\* outage ends: an open breaker is probed again although late failures of
\* calls let in before the trip restart the timeout.
Contract == INSTANCE BreakerContract WITH failures <- failureCount
ImplementsContract == Contract!Spec
==============================================================================
