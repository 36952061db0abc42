--------------------------- MODULE LifecycleProofs ---------------------------
(***************************************************************************)
(* The worker pool, the asynchronous requests on it, and the process, for  *)
(* any number of requests and workers.                                     *)
(*                                                                         *)
(* The pool: that Stop drains the queue is inductive once it is said that  *)
(* a worker exits only from a closed, empty channel, and that the channel  *)
(* then stays so (PoolIInv).  The requests: every step is a step of the    *)
(* pool or leaves it alone, so the pool's invariant carries over; with it, *)
(* where a handler stands says what its channels, its answer and its task  *)
(* can be (HandlerInv), and that is inductive.                             *)
(*                                                                         *)
(* The process: a step of it is a step of AsyncRequest or leaves its       *)
(* variables alone, so that all of this carries over once more; LifeInv    *)
(* ties the stage of the shutdown to what the pool is doing, and HealthInv *)
(* the stage of the start to what the first health check has done.         *)
(*                                                                         *)
(* The measure PoolWork, after the pool's invariant, counts the steps left *)
(* to the workers: a closed pool comes to an end.                          *)
(***************************************************************************)
EXTENDS Lifecycle, FiniteSetTheorems, TLAPS

ExitInv ==
    /\ \A w \in Workers : worker[w] = Exited => closed /\ queue = <<>>
    /\ stop # "no" => closed
    /\ stop = "returned" => \A w \in Workers : worker[w] = Exited
    /\ stop = "returned" => closed

PoolIInv == PoolTypeOK /\ TaskInOnePlace /\ ExitInv

\* What Submit does to the contents of the channel.
LEMMA AppendFacts ==
    ASSUME NEW S, NEW s \in Seq(S), NEW t \in S
    PROVE  /\ Append(s, t) \in Seq(S)
           /\ Len(Append(s, t)) = Len(s) + 1
           /\ \A i \in 1..Len(s) : Append(s, t)[i] = s[i]
           /\ Append(s, t)[Len(s) + 1] = t
  OBVIOUS

\* What a receive does to the contents of the channel.
LEMMA TailFacts ==
    ASSUME NEW S, NEW s \in Seq(S), s # <<>>
    PROVE  /\ Tail(s) \in Seq(S)
           /\ Len(s) \in Nat \ {0}
           /\ Len(Tail(s)) = Len(s) - 1
           /\ \A i \in 1..Len(Tail(s)) : Tail(s)[i] = s[i + 1]
           /\ Head(s) = s[1] /\ Head(s) \in S
  OBVIOUS

LEMMA CapacityNat == Capacity \in Nat
  BY PoolAssumption DEF Capacity

LEMMA PoolInitInv == PoolInit => PoolIInv
<1> SUFFICES ASSUME PoolInit PROVE PoolIInv
  OBVIOUS
<1> USE PoolAssumption DEF PoolInit
<1>1. PoolTypeOK
  <2>1. queue \in Seq(Tasks) /\ Len(queue) = 0
    OBVIOUS
  <2>3. Len(queue) <= Capacity
    BY <2>1, CapacityNat
  <2>2. [w \in Workers |-> Idle] \in [Workers -> Tasks \cup {Idle, Exited}]
    OBVIOUS
  <2>4. worker \in [Workers -> Tasks \cup {Idle, Exited}]
    BY <2>2
  <2>5. QED BY <2>1, <2>3, <2>4 DEF PoolTypeOK
<1>2. TaskInOnePlace
  BY DEF TaskInOnePlace, Queued, Running
<1>3. ExitInv
  BY DEF ExitInv
<1>4. QED BY <1>1, <1>2, <1>3 DEF PoolIInv

LEMMA SubmitInv == ASSUME PoolIInv, NEW t \in Tasks, Submit(t) PROVE PoolIInv'
<1> USE PoolAssumption DEF Submit, PoolIInv
<1>1. /\ queue' \in Seq(Tasks) /\ Len(queue') = Len(queue) + 1
      /\ \A i \in 1..Len(queue) : queue'[i] = queue[i]
      /\ queue'[Len(queue) + 1] = t /\ Len(queue) \in Nat
  BY AppendFacts DEF PoolTypeOK
<1>2. PoolTypeOK'
  BY <1>1, CapacityNat DEF PoolTypeOK, Capacity
<1>3. Queued' = Queued \cup {t}
  BY <1>1 DEF Queued
<1>4. Running' = Running
  BY DEF Running
<1>5. t \notin Queued /\ t \notin Running /\ t \notin done
  BY DEF TaskInOnePlace
<1>6. \A i, j \in 1..Len(queue') : queue'[i] = queue'[j] => i = j
  BY <1>1, <1>5 DEF TaskInOnePlace, Queued
<1>7. TaskInOnePlace'
  BY <1>3, <1>4, <1>5, <1>6 DEF TaskInOnePlace
<1>8. ExitInv'
  BY DEF ExitInv
<1>9. QED BY <1>2, <1>7, <1>8

LEMMA TakeInv == ASSUME PoolIInv, NEW w \in Workers, Take(w) PROVE PoolIInv'
<1> USE PoolAssumption DEF Take, PoolIInv
<1> DEFINE h == Head(queue)
<1>1. /\ queue' \in Seq(Tasks) /\ Len(queue') = Len(queue) - 1
      /\ \A i \in 1..Len(queue') : queue'[i] = queue[i + 1]
      /\ h = queue[1] /\ h \in Tasks /\ Len(queue) \in Nat \ {0}
  BY TailFacts DEF PoolTypeOK
<1>2. PoolTypeOK'
  BY <1>1, CapacityNat DEF PoolTypeOK, Capacity
<1>3. Queued = Queued' \cup {h} /\ h \notin Queued'
  <2>1. ASSUME NEW i \in 1..Len(queue), i # 1 PROVE queue[i] \in Queued'
    <3>1. i - 1 \in 1..Len(queue') /\ queue'[i - 1] = queue[i]
      BY <1>1, <2>1
    <3>2. QED BY <3>1 DEF Queued
  <2>2. ASSUME NEW i \in 1..Len(queue') PROVE queue'[i] \in Queued /\ queue'[i] # h
    BY <1>1, <2>2 DEF Queued, TaskInOnePlace
  <2>3. h \in Queued
    BY <1>1 DEF Queued
  <2>4. QED BY <1>1, <2>1, <2>2, <2>3 DEF Queued
<1>4. Running' = Running \cup {h}
  <2>1. worker[w] = Idle /\ worker'[w] = h
    BY DEF PoolTypeOK
  <2>2. \A v \in Workers : v # w => worker'[v] = worker[v]
    BY DEF PoolTypeOK
  <2>3. h # Idle /\ h # Exited
    BY <1>1
  <2>4. QED BY <2>1, <2>2, <2>3 DEF Running
<1>5. h \in Queued /\ h \notin Running /\ h \notin done
  BY <1>3 DEF TaskInOnePlace
<1>6. \A i, j \in 1..Len(queue') : queue'[i] = queue'[j] => i = j
  <2> SUFFICES ASSUME NEW i \in 1..Len(queue'), NEW j \in 1..Len(queue'), queue'[i] = queue'[j]
               PROVE  i = j
    OBVIOUS
  <2>1. i + 1 \in 1..Len(queue) /\ j + 1 \in 1..Len(queue) /\ queue[i + 1] = queue[j + 1]
    BY <1>1
  <2>2. i + 1 = j + 1
    BY <2>1 DEF TaskInOnePlace
  <2>3. QED BY <2>2
<1>7. \A u, v \in Workers : worker'[u] = worker'[v] /\ worker'[u] \in Tasks => u = v
  BY <1>5 DEF TaskInOnePlace, PoolTypeOK, Running
<1>8. TaskInOnePlace'
  BY <1>3, <1>4, <1>5, <1>6, <1>7 DEF TaskInOnePlace
<1>9. ExitInv'
  BY <1>1 DEF ExitInv, PoolTypeOK
<1>10. QED BY <1>2, <1>8, <1>9

LEMMA ReturnInv == ASSUME PoolIInv, NEW w \in Workers, Return(w) PROVE PoolIInv'
<1> USE PoolAssumption DEF Return, PoolIInv
<1>1. PoolTypeOK'
  BY DEF PoolTypeOK, Capacity
<1>2. Queued' = Queued
  BY DEF Queued
<1>3. Running = Running' \cup {worker[w]} /\ worker[w] \notin Running'
  <2>1. worker'[w] = Idle /\ \A v \in Workers : v # w => worker'[v] = worker[v]
    BY DEF PoolTypeOK
  <2>2. \A v \in Workers : v # w => worker[v] # worker[w]
    BY DEF TaskInOnePlace
  <2>3. QED BY <2>1, <2>2 DEF Running
<1>4. \A u, v \in Workers : worker'[u] = worker'[v] /\ worker'[u] \in Tasks => u = v
  BY DEF TaskInOnePlace, PoolTypeOK
<1>5. TaskInOnePlace'
  BY <1>2, <1>3, <1>4 DEF TaskInOnePlace
<1>6. ExitInv'
  BY DEF ExitInv, PoolTypeOK
<1>7. QED BY <1>1, <1>5, <1>6

LEMMA ExitStepInv == ASSUME PoolIInv, NEW w \in Workers, Exit(w) PROVE PoolIInv'
<1> USE PoolAssumption DEF Exit, PoolIInv
<1>1. PoolTypeOK'
  BY DEF PoolTypeOK, Capacity
<1>2. Queued' = Queued /\ Running' = Running
  <2>1. worker[w] = Idle /\ worker'[w] = Exited
        /\ \A v \in Workers : v # w => worker'[v] = worker[v]
    BY DEF PoolTypeOK
  <2>2. QED BY <2>1 DEF Queued, Running
<1>3. \A u, v \in Workers : worker'[u] = worker'[v] /\ worker'[u] \in Tasks => u = v
  BY DEF TaskInOnePlace, PoolTypeOK
<1>4. TaskInOnePlace'
  BY <1>2, <1>3 DEF TaskInOnePlace
<1>5. ExitInv'
  BY DEF ExitInv, PoolTypeOK
<1>6. QED BY <1>1, <1>4, <1>5

LEMMA PoolStepInv == PoolIInv /\ [PoolNext]_poolVars => PoolIInv'
<1> SUFFICES ASSUME PoolIInv, [PoolNext]_poolVars PROVE PoolIInv'
  OBVIOUS
<1>1. CASE UNCHANGED poolVars
  BY <1>1 DEF poolVars, PoolIInv, PoolTypeOK, TaskInOnePlace, ExitInv, Queued, Running, Capacity
<1>2. CASE Stop \/ StopReturns
  <2>1. UNCHANGED <<queue, worker, accepted, done>> /\ closed'
        /\ stop' \in {"waiting", "returned"}
    BY <1>2 DEF Stop, StopReturns, PoolIInv, ExitInv
  <2>2. PoolTypeOK' /\ TaskInOnePlace'
    BY <2>1, <1>2 DEF Stop, StopReturns, PoolIInv, PoolTypeOK, TaskInOnePlace, Queued, Running, Capacity
  <2>3. ExitInv'
    BY <2>1, <1>2 DEF Stop, StopReturns, PoolIInv, ExitInv
  <2>4. QED BY <2>2, <2>3 DEF PoolIInv
<1>3. QED
  BY <1>1, <1>2, SubmitInv, TakeInv, ReturnInv, ExitStepInv
     DEF PoolNext, Refuse, SubmitPanics

\* Every accepted task is queued, running or done, and in one of them only.
THEOREM OnePlace == PoolSpec => [](PoolTypeOK /\ TaskInOnePlace)
<1>1. PoolSpec => []PoolIInv
  BY PoolInitInv, PoolStepInv, PTL DEF PoolSpec
<1>2. QED BY <1>1, PTL DEF PoolIInv

\* When Stop returns, every accepted task has run, whatever was queued when
\* the channel was closed.
THEOREM Drains == PoolSpec => []StopDrains
<1>1. PoolSpec => []PoolIInv
  BY PoolInitInv, PoolStepInv, PTL DEF PoolSpec
<1>2. PoolIInv => StopDrains
  <2> SUFFICES ASSUME PoolIInv, stop = "returned" PROVE accepted = done
    BY DEF StopDrains
  <2>1. \A w \in Workers : worker[w] = Exited
    BY DEF PoolIInv, ExitInv
  <2>2. 1 \in Workers
    BY PoolAssumption DEF Workers
  <2>3. queue = <<>>
    BY <2>1, <2>2 DEF PoolIInv, ExitInv
  <2>4. Queued = {} /\ Running = {}
    BY <2>1, <2>3 DEF Queued, Running
  <2>5. QED BY <2>4 DEF PoolIInv, TaskInOnePlace
<1>3. QED BY <1>1, <1>2, PTL

------------------------------------------------------------------------------
(* How long the workers need once the channel is closed. *)

Left == {w \in Workers : worker[w] # Exited}
Busied == {w \in Workers : worker[w] \in Tasks}

\* How many steps the workers have left at most: two for a task in the queue,
\* which is taken and returns, and one each for a task at work and for an exit.
PoolWork == 2 * Len(queue) + Cardinality(Left) + Cardinality(Busied)
MaxPoolWork == 6 * NumWorkers

LEMMA WorkersCounted ==
    ASSUME NEW W \in SUBSET Workers
    PROVE  /\ IsFiniteSet(W) /\ Cardinality(W) \in 0..NumWorkers
           /\ (Cardinality(W) = 0 <=> W = {})
<1> DEFINE n == NumWorkers
<1>1. n \in Nat /\ n \in Int /\ 1 \in Int /\ Workers = 1..n
  BY PoolAssumption DEF Workers
<1>2. IsFiniteSet(1..n) /\ Cardinality(1..n) = IF 1 > n THEN 0 ELSE n - 1 + 1
  BY <1>1, FS_Interval
<1> HIDE DEF n
<1>3. Cardinality(1..n) = n
  BY <1>1, <1>2
<1>4. IsFiniteSet(W) /\ Cardinality(W) <= n
  BY <1>1, <1>2, <1>3, FS_Subset
<1>5. Cardinality(W) \in Nat /\ (Cardinality(W) = 0 <=> W = {})
  BY <1>4, FS_CardinalityType, FS_EmptySet
<1> QED BY <1>1, <1>4, <1>5 DEF n

LEMMA PoolWorkFacts ==
    ASSUME PoolIInv
    PROVE  /\ PoolWork \in 0..MaxPoolWork
           /\ PoolWork = 0 <=> \A w \in Workers : worker[w] = Exited
<1>1. Cardinality(Left) \in 0..NumWorkers /\ (Cardinality(Left) = 0 <=> Left = {})
  BY WorkersCounted DEF Left
<1>2. Cardinality(Busied) \in 0..NumWorkers /\ (Cardinality(Busied) = 0 <=> Busied = {})
  BY WorkersCounted DEF Busied
<1>3. Len(queue) \in 0..(2 * NumWorkers) /\ (Len(queue) = 0 <=> queue = <<>>) /\ NumWorkers \in Nat \ {0}
  BY PoolAssumption DEF PoolIInv, PoolTypeOK, Capacity
<1>4. Left = {} <=> \A w \in Workers : worker[w] = Exited
  BY DEF Left
<1>5. Left = {} => Busied = {} /\ queue = <<>>
  <2>1. 1 \in Workers
    BY <1>3 DEF Workers
  <2> QED BY <1>4, <2>1, PoolAssumption DEF Busied, PoolIInv, ExitInv
<1>6. PoolWork \in 0..MaxPoolWork /\ (PoolWork = 0 <=> Len(queue) = 0 /\ Cardinality(Left) = 0 /\ Cardinality(Busied) = 0)
  BY <1>1, <1>2, <1>3 DEF PoolWork, MaxPoolWork
<1> QED BY <1>1, <1>2, <1>3, <1>4, <1>5, <1>6

LEMMA ClosedPoolStep ==
    ASSUME PoolIInv, closed, [PoolNext]_poolVars
    PROVE  closed' /\ (PoolWork' < PoolWork \/ UNCHANGED <<queue, worker>>)
<1>1. Cardinality(Left) \in Nat /\ Cardinality(Busied) \in Nat /\ Len(queue) \in Nat
      /\ IsFiniteSet(Left) /\ IsFiniteSet(Busied)
  BY WorkersCounted DEF Left, Busied, PoolIInv, PoolTypeOK
<1> USE PoolAssumption
<1>2. ASSUME NEW w \in Workers, Take(w)
      PROVE  closed' /\ PoolWork' < PoolWork
  <2>1. Len(queue') = Len(queue) - 1 /\ Head(queue) \in Tasks /\ queue' = Tail(queue)
    BY <1>2, TailFacts DEF Take, PoolIInv, PoolTypeOK
  <2>2. Left' = Left
    BY <1>2, <2>1 DEF Take, Left, PoolIInv, PoolTypeOK
  <2>3. Busied' = Busied \cup {w} /\ w \notin Busied
    BY <1>2, <2>1 DEF Take, Busied, PoolIInv, PoolTypeOK
  <2>4. Cardinality(Busied') = Cardinality(Busied) + 1
    BY <1>1, <2>3, FS_AddElement
  <2> QED BY <1>1, <1>2, <2>1, <2>2, <2>4 DEF PoolWork, Take
<1>3. ASSUME NEW w \in Workers, Return(w)
      PROVE  closed' /\ PoolWork' < PoolWork
  <2>1. Left' = Left
    BY <1>3 DEF Return, Left, PoolIInv, PoolTypeOK
  <2>2. Busied' = Busied \ {w} /\ w \in Busied
    BY <1>3 DEF Return, Busied, PoolIInv, PoolTypeOK
  <2>3. Cardinality(Busied') = Cardinality(Busied) - 1
    BY <1>1, <2>2, FS_RemoveElement
  <2> QED BY <1>1, <1>3, <2>1, <2>3 DEF PoolWork, Return
<1>4. ASSUME NEW w \in Workers, Exit(w)
      PROVE  closed' /\ PoolWork' < PoolWork
  <2>1. Left' = Left \ {w} /\ w \in Left
    BY <1>4 DEF Exit, Left, PoolIInv, PoolTypeOK
  <2>2. Busied' = Busied
    BY <1>4 DEF Exit, Busied, PoolIInv, PoolTypeOK
  <2>3. Cardinality(Left') = Cardinality(Left) - 1
    BY <1>1, <2>1, FS_RemoveElement
  <2> QED BY <1>1, <1>4, <2>2, <2>3 DEF PoolWork, Exit
<1>5. CASE \E t \in Tasks : Submit(t) \/ Refuse(t, FALSE) \/ SubmitPanics(t)
  BY <1>5 DEF Submit, Refuse, SubmitPanics, poolVars
<1>6. CASE Stop \/ StopReturns \/ UNCHANGED poolVars
  BY <1>6 DEF Stop, StopReturns, poolVars
<1> QED BY <1>2, <1>3, <1>4, <1>5, <1>6 DEF PoolNext

------------------------------------------------------------------------------
(* Requests on the pool *)

USE DEF Requests

LEMMA StepOfPool == [Next]_vars => [PoolNext]_poolVars
<1> SUFFICES ASSUME [Next]_vars PROVE PoolNext \/ UNCHANGED poolVars
  OBVIOUS
<1>1. ASSUME NEW r \in Requests, SubmitTask(r) PROVE PoolNext
  BY <1>1 DEF SubmitTask, PoolNext, Requests
<1>2. ASSUME NEW r \in Requests, Busy(r) \/ SubmitPanic(r) PROVE UNCHANGED poolVars
  BY <1>2 DEF Busy, SubmitPanic, Refuse, SubmitPanics
<1>3. ASSUME NEW r \in Requests,
             \/ Arrive(r) \/ GetResult(r) \/ GetError(r) \/ TimeOut(r)
             \/ CloseResults(r) \/ CloseErrors(r) \/ Expire(r)
      PROVE  UNCHANGED poolVars
  BY <1>3 DEF Arrive, GetResult, GetError, TimeOut, CloseResults, CloseErrors, Expire
<1>4. ASSUME NEW w \in Workers, WorkerTakes(w) \/ WorkerExit(w) PROVE PoolNext
  BY <1>4 DEF WorkerTakes, WorkerExit, PoolNext
<1>5. ASSUME NEW w \in Workers, NEW ch \in Channels, Finish(w, ch) PROVE PoolNext
  BY <1>5 DEF Finish, PoolNext
<1>6. ASSUME StopPool \/ PoolStopped PROVE PoolNext
  BY <1>6 DEF StopPool, PoolStopped, PoolNext
<1>7. ASSUME PanicElsewhere PROVE UNCHANGED poolVars
  BY <1>7 DEF PanicElsewhere
<1>8. ASSUME UNCHANGED vars PROVE UNCHANGED poolVars
  BY <1>8 DEF vars
<1>9. QED
  BY <1>1, <1>2, <1>3, <1>4, <1>5, <1>6, <1>7, <1>8 DEF Next, Work, Handler

LEMMA PoolInv == Safety => []PoolIInv
<1>1. Init => PoolIInv
  BY PoolInitInv DEF Init
<1>2. QED BY <1>1, StepOfPool, PoolStepInv, PTL DEF Safety

------------------------------------------------------------------------------
ReqTypeOK ==
    /\ pc \in [Requests -> {"new", "submit", "wait", "leave", "closing", "over"}]
    /\ answer \in [Requests -> Answers \cup {"none"}]
    /\ expired \in [Requests -> BOOLEAN]
    /\ open \in [Requests -> SUBSET Channels]
    /\ sent \in [Requests -> Channels \cup {"nothing"}]
    /\ crashed \in Crashes

HandlerInv ==
    \A r \in Requests :
        /\ pc[r] \in {"new", "submit"} => r \notin accepted
        /\ pc[r] \in {"new", "submit", "wait", "leave"} => open[r] = Channels
        /\ answer[r] # "none" => pc[r] \in {"leave", "closing", "over"}
        /\ answer[r] \in {"busy", "panic"} => r \notin accepted
        /\ answer[r] \in {"ok", "error"} => r \in done
        /\ pc[r] \in {"leave", "closing", "over"} => answer[r] # "none"
        /\ sent[r] # "nothing" => r \in done

IInv == ReqTypeOK /\ HandlerInv /\ LateSendNeedsTimeout

\* What the pool's invariant says of a task that is with a worker.
LEMMA RunningTask ==
    ASSUME PoolIInv, NEW w \in Workers, worker[w] \in Requests
    PROVE  worker[w] \in accepted \ done
<1>1. worker[w] \in Running
  BY PoolAssumption DEF Running, Workers
<1>2. QED BY <1>1 DEF PoolIInv, TaskInOnePlace

LEMMA HandlerInit == Init => IInv
  BY DEF Init, PoolInit, IInv, ReqTypeOK, HandlerInv, LateSendNeedsTimeout, Answers, Channels, Crashes

LEMMA HandlerStep ==
    ASSUME IInv, Alive, NEW r \in Requests, Arrive(r) \/ Handler(r) \/ Expire(r)
    PROVE  IInv'
<1> USE DEF IInv, ReqTypeOK, HandlerInv, LateSendNeedsTimeout, Alive, Goto, Respond, Answers, Channels
<1>1. CASE Arrive(r)
  BY <1>1 DEF Arrive, poolVars
<1>2. CASE SubmitTask(r)
  BY <1>2 DEF SubmitTask, Submit
<1>3. CASE Busy(r)
  BY <1>3 DEF Busy, Refuse, poolVars
<1>4. CASE SubmitPanic(r)
  BY <1>4 DEF SubmitPanic, SubmitPanics, poolVars
<1>5. CASE GetResult(r)
  BY <1>5 DEF GetResult, poolVars
<1>6. CASE GetError(r)
  BY <1>6 DEF GetError, poolVars
<1>7. CASE TimeOut(r)
  BY <1>7 DEF TimeOut, poolVars
<1>8. CASE CloseResults(r)
  BY <1>8 DEF CloseResults, poolVars
<1>9. CASE CloseErrors(r)
  BY <1>9 DEF CloseErrors, poolVars
<1>10. CASE Expire(r)
  BY <1>10 DEF Expire, poolVars
<1>11. QED
  BY <1>1, <1>2, <1>3, <1>4, <1>5, <1>6, <1>7, <1>8, <1>9, <1>10 DEF Handler

\* The step that may be a late send: its task is accepted and not done, so
\* that a closed channel means that the handler has left with a 504.
LEMMA FinishStep ==
    ASSUME IInv, Alive, PoolIInv, NEW w \in Workers, NEW ch \in Channels, Finish(w, ch)
    PROVE  IInv'
<1> DEFINE r == worker[w]
<1>1. r \in Requests /\ done' = done \cup {r} /\ accepted' = accepted
  BY DEF Finish, Return
<1>2. r \in accepted \ done
  BY <1>1, RunningTask
<1>3. ReqTypeOK'
  BY <1>1 DEF Finish, IInv, ReqTypeOK, Crashes
<1>4. HandlerInv'
  BY <1>1, <1>2 DEF Finish, IInv, ReqTypeOK, HandlerInv, Channels
<1>5. LateSendNeedsTimeout'
  <2>1. CASE ch \in open[r]
    BY <2>1, <1>1 DEF Finish, Alive, LateSendNeedsTimeout
  <2>2. CASE ch \notin open[r]
    <3>1. pc[r] \in {"closing", "over"}
      BY <2>2, <1>1 DEF IInv, ReqTypeOK, HandlerInv
    <3>2. answer[r] = "timeout" /\ sent[r] = "nothing"
      BY <3>1, <1>1, <1>2 DEF IInv, ReqTypeOK, HandlerInv, Answers
    <3>3. QED BY <2>2, <3>2, <1>1 DEF Finish, LateSendNeedsTimeout
  <2>3. QED BY <2>1, <2>2
<1>6. QED BY <1>3, <1>4, <1>5 DEF IInv

LEMMA OtherStep ==
    ASSUME IInv,
           \/ UNCHANGED vars \/ StopPool \/ PoolStopped
           \/ \E w \in Workers : WorkerTakes(w) \/ WorkerExit(w)
    PROVE  IInv'
<1>1. UNCHANGED <<reqVars, accepted, done>>
  BY DEF vars, poolVars, StopPool, PoolStopped, WorkerTakes, WorkerExit,
         Stop, StopReturns, Take, Exit
<1>2. QED BY <1>1 DEF reqVars, IInv, ReqTypeOK, HandlerInv, LateSendNeedsTimeout

LEMMA PanicStep == ASSUME IInv, PanicElsewhere PROVE IInv'
<1>1. UNCHANGED <<pc, answer, expired, open, sent, accepted, done>> /\ crashed' = "elsewhere"
  BY DEF PanicElsewhere, poolVars
<1>2. QED BY <1>1 DEF IInv, ReqTypeOK, HandlerInv, LateSendNeedsTimeout, Crashes

LEMMA Invariant == Safety => [](IInv /\ PoolIInv)
<1>1. IInv /\ PoolIInv /\ [Next]_vars => IInv'
  <2> SUFFICES ASSUME IInv, PoolIInv, [Next]_vars PROVE IInv'
    OBVIOUS
  <2>1. ASSUME Alive, NEW r \in Requests, Arrive(r) \/ Handler(r) \/ Expire(r) PROVE IInv'
    BY <2>1, HandlerStep
  <2>2. ASSUME Alive, NEW w \in Workers, NEW ch \in Channels, Finish(w, ch) PROVE IInv'
    BY <2>2, FinishStep
  <2>3. QED BY <2>1, <2>2, OtherStep, PanicStep DEF Next, Work
<1>2. QED BY <1>1, HandlerInit, PoolInv, PTL DEF Safety

\* Types, for any number of requests and workers; the queue never holds more
\* than twice as many tasks as there are workers.
THEOREM TypeCorrect == Safety => []TypeOK
<1>1. IInv /\ PoolIInv => TypeOK
  BY DEF IInv, ReqTypeOK, TypeOK, PoolIInv
<1>2. QED BY <1>1, Invariant, PTL

\* The worker of a request finds its channels open unless the request was
\* answered 504.
THEOREM LateSendOnlyAfterTimeout == Safety => []OnlyTimeoutsCloseEarly
<1>1. IInv /\ PoolIInv => OnlyTimeoutsCloseEarly
  <2> SUFFICES ASSUME IInv, PoolIInv, NEW r \in accepted \ done, open[r] # Channels
               PROVE  answer[r] = "timeout"
    BY DEF OnlyTimeoutsCloseEarly
  <2>1. r \in Requests
    BY DEF PoolIInv, PoolTypeOK
  <2>2. pc[r] \in {"closing", "over"}
    BY <2>1 DEF IInv, ReqTypeOK, HandlerInv
  <2>3. QED
    BY <2>1, <2>2 DEF IInv, ReqTypeOK, HandlerInv, Answers
<1>2. QED BY <1>1, Invariant, PTL

\* The process dies of a late send only in the task of a request that was
\* answered 504.  Of a panic elsewhere nothing is claimed.
THEOREM LateSendCrashNeedsTimeout == Safety => []LateSendNeedsTimeout
<1>1. IInv => LateSendNeedsTimeout
  BY DEF IInv
<1>2. QED BY <1>1, Invariant, PTL

\* A 200 or 500 answer reports what the request's own task has sent.
THEOREM AnswersMatchTasks == Safety => []AnswerIsFromTask
<1>1. IInv => AnswerIsFromTask
  BY DEF IInv, HandlerInv, AnswerIsFromTask
<1>2. QED BY <1>1, Invariant, PTL

\* A request that was refused, or whose submission panicked, leaves no task.
THEOREM RefusedLeaveNoTask == Safety => []RefusedNeverRuns
<1>1. IInv => RefusedNeverRuns
  BY DEF IInv, HandlerInv, RefusedNeverRuns
<1>2. QED BY <1>1, Invariant, PTL

------------------------------------------------------------------------------
(* The process *)


\* Before the server listens there is no health request; before the other
\* checks begin the first has published its map, which then stays.
HealthInv ==
    /\ HealthTypeOK
    /\ check["refresh"] # "none" => check["first"] = "over"
    /\ check["first"] = "over" => services
    /\ stage # "starting" => check["refresh"] # "none"
    /\ status # "none" => stage # "starting"
    /\ status # "results"

LifeInv ==
    /\ LifeTypeOK
    /\ stage \in {"drained", "closing", "exited"} => stop = "returned"

LEMMA StepOfRequests == [LifeNext]_allVars => [Next]_vars
<1> SUFFICES ASSUME [LifeNext]_allVars PROVE Next \/ UNCHANGED vars
  OBVIOUS
<1>1. CASE UNCHANGED allVars
  BY <1>1 DEF allVars
<1>2. CASE LifeNext
  BY <1>2 DEF LifeNext, Listen, Signal, Drain, CloseListener, ExitProcess, Serve, Checkup, Next
<1>3. QED BY <1>1, <1>2

LEMMA SafetyOfRequests == LifeSafety => Safety
  BY StepOfRequests, PTL DEF LifeSafety, LifeInit, Safety

LEMMA HealthStep ==
    ASSUME HealthInv, stage \in Stages, [LifeNext]_allVars PROVE HealthInv'
<1> USE DEF HealthInv, HealthTypeOK, Checks, Testing, Stages
<1>1. CASE UNCHANGED allVars
  BY <1>1 DEF allVars, healthVars
<1>2. CASE Listen \/ Signal \/ Drain \/ CloseListener \/ ExitProcess
  BY <1>2 DEF Listen, Signal, Drain, CloseListener, ExitProcess, healthVars
<1>3. CASE Serve
  BY <1>3 DEF Serve, healthVars
<1>4. CASE Checkup
  <2>1. ASSUME NEW c \in Checks, StoreWhois(c) PROVE HealthInv'
    BY <1>4, <2>1 DEF Checkup, StoreWhois
  <2>2. ASSUME NEW c \in Checks, PublishServices(c) PROVE HealthInv'
    BY <1>4, <2>2 DEF Checkup, PublishServices
  <2>3. CASE StartLoop
    BY <1>4, <2>3 DEF Checkup, StartLoop
  <2>4. CASE Ticker \/ StopLoop
    BY <1>4, <2>4 DEF Checkup, Ticker, StopLoop
  <2>5. CASE Listening /\ GetHealthStatus
    BY <1>4, <2>5 DEF Checkup, Listening, GetHealthStatus
  <2>6. CASE SendStatus
    BY <1>4, <2>6 DEF Checkup, SendStatus
  <2>7. QED BY <1>4, <2>1, <2>2, <2>3, <2>4, <2>5, <2>6 DEF Checkup, RunHealthCheck
<1>5. QED BY <1>1, <1>2, <1>3, <1>4 DEF LifeNext

LEMMA LifeStep ==
    ASSUME LifeInv, TypeOK', HealthTypeOK', [LifeNext]_allVars PROVE LifeInv'
<1> USE DEF LifeInv, LifeTypeOK, Stages
<1>1. CASE UNCHANGED allVars
  BY <1>1 DEF allVars, vars, poolVars, reqVars
<1>2. CASE Signal
  BY <1>2 DEF Signal
<1>3. CASE Drain
  BY <1>3 DEF Drain, PoolStopped, StopReturns
<1>4. CASE Listen \/ CloseListener \/ ExitProcess
  BY <1>4 DEF Listen, CloseListener, ExitProcess, vars, poolVars
<1>5. CASE Checkup
  BY <1>5 DEF Checkup, vars, poolVars
<1>6. CASE Serve
  <2>1. stop' = stop /\ stage' = stage
    <3>1. ASSUME NEW r \in Requests, Arrive(r) \/ Handler(r) \/ Expire(r) PROVE stop' = stop
      BY <3>1 DEF Arrive, Handler, Expire, SubmitTask, Submit, Busy, Refuse, SubmitPanic,
                  SubmitPanics, GetResult, GetError, TimeOut, CloseResults, CloseErrors, poolVars
    <3>2. ASSUME NEW w \in Workers,
                 WorkerTakes(w) \/ WorkerExit(w) \/ \E ch \in Channels : Finish(w, ch)
          PROVE  stop' = stop
      BY <3>2 DEF WorkerTakes, WorkerExit, Finish, Take, Exit, Return
    <3>3. ASSUME PanicElsewhere PROVE stop' = stop
      BY <3>3 DEF PanicElsewhere, poolVars
    <3>4. QED BY <1>6, <3>1, <3>2, <3>3 DEF Serve, Work
  <2>2. QED BY <2>1
<1>7. QED BY <1>1, <1>2, <1>3, <1>4, <1>5, <1>6 DEF LifeNext

LEMMA LifeCorrect == LifeSafety => [](LifeInv /\ HealthInv)
<1>1. Init => TypeOK
  BY HandlerInit, PoolInitInv DEF Init, IInv, ReqTypeOK, TypeOK, PoolIInv
<1>2. LifeInit => HealthInv
  BY DEF LifeInit, HealthInit, HealthInv, HealthTypeOK, Checks, Testing
<1>3. LifeInit => LifeInv
  BY <1>1, <1>2 DEF LifeInit, LifeInv, LifeTypeOK, Stages, HealthInv
<1>4. LifeInv /\ HealthInv /\ TypeOK' /\ [LifeNext]_allVars => (LifeInv /\ HealthInv)'
  BY LifeStep, HealthStep DEF LifeInv, LifeTypeOK, HealthInv
<1>5. QED BY <1>2, <1>3, <1>4, SafetyOfRequests, TypeCorrect, PTL DEF LifeSafety

\* Redis and Chrome are closed, and the process is left, only after every
\* accepted task has returned, for any number of requests and workers.
THEOREM OrderlyShutdown == LifeSafety => []ServicesOutliveTasks
<1>1. LifeInv /\ StopDrains => ServicesOutliveTasks
  BY DEF LifeInv, StopDrains, ServicesOutliveTasks
<1>2. PoolInit /\ [][PoolNext]_poolVars => []StopDrains
  BY Drains DEF PoolSpec
<1>3. Safety => []StopDrains
  BY <1>2, StepOfPool, PTL DEF Safety, Init
<1>4. QED BY <1>1, <1>3, LifeCorrect, SafetyOfRequests, PTL

\* No health request sends the map that checks write into, however many checks
\* there are at a time: none is served before the first has published its own.
THEOREM HealthStatusSafe == LifeSafety => []StatusNotWritten
<1>1. HealthInv => StatusNotWritten
  BY DEF HealthInv, StatusNotWritten
<1>2. QED BY <1>1, LifeCorrect, PTL

\* Stop waits for a bounded number of steps of the workers, whatever requests
\* arrive meanwhile: once the channel is closed it stays so, nothing is added
\* to the work, and none is left exactly when every worker has exited.
\* ShutdownCompletes follows as soon as each task returns.
THEOREM StopIsBounded ==
    LifeSafety => /\ [](/\ PoolWork \in 0..MaxPoolWork
                        /\ PoolWork = 0 <=> \A w \in Workers : worker[w] = Exited)
                  /\ [][closed => closed' /\ (PoolWork' < PoolWork \/ UNCHANGED <<queue, worker>>)]_allVars
<1>1. Safety => []PoolIInv
  BY PoolInv
<1>2. PoolIInv => /\ PoolWork \in 0..MaxPoolWork
                  /\ PoolWork = 0 <=> \A w \in Workers : worker[w] = Exited
  BY PoolWorkFacts
<1>3. PoolIInv /\ [PoolNext]_poolVars =>
         [closed => closed' /\ (PoolWork' < PoolWork \/ UNCHANGED <<queue, worker>>)]_allVars
  BY ClosedPoolStep
<1>4. [LifeNext]_allVars => [PoolNext]_poolVars
  BY StepOfRequests, StepOfPool
<1>5. QED BY <1>1, <1>2, <1>3, <1>4, SafetyOfRequests, PTL DEF LifeSafety
==============================================================================
