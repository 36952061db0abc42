----------------------------- MODULE WorkerPool -----------------------------
(***************************************************************************)
(* services/worker_pool.go: a fixed set of goroutines that range over one  *)
(* buffered channel of tasks.  The pool knows nothing of what a task does; *)
(* AsyncRequest says what the tasks of the API handlers do.                *)
(***************************************************************************)
EXTENDS Naturals, Sequences

CONSTANTS Tasks,         \* the closures handed to the pool, each one once
          NumWorkers,    \* p.workers, the goroutines Start creates
          Idle,          \* a worker that waits on the channel
          Exited         \* a worker whose range loop is over

ASSUME PoolAssumption ==
    /\ NumWorkers \in Nat \ {0}
    /\ Idle \notin Tasks /\ Exited \notin Tasks /\ Idle # Exited

VARIABLES queue,         \* p.tasks
          closed,        \* p.tasks has been closed
          worker,        \* what each goroutine is doing
          stop,          \* the caller of Stop: "no", "waiting" or "returned"
          accepted,      \* history: the tasks Submit said true for
          done           \* history: the tasks that have returned

poolVars == <<queue, closed, worker, stop, accepted, done>>

Workers == 1..NumWorkers
Capacity == 2 * NumWorkers
Queued == {queue[i] : i \in 1..Len(queue)}
Running == {worker[w] : w \in Workers} \ {Idle, Exited}

PoolTypeOK ==
    /\ queue \in Seq(Tasks) /\ Len(queue) <= Capacity
    /\ closed \in BOOLEAN
    /\ worker \in [Workers -> Tasks \cup {Idle, Exited}]
    /\ stop \in {"no", "waiting", "returned"}
    /\ accepted \subseteq Tasks
    /\ done \subseteq Tasks

\* NewWorkerPool and Start.
PoolInit ==
    /\ queue = <<>>
    /\ closed = FALSE
    /\ worker = [w \in Workers |-> Idle]
    /\ stop = "no"
    /\ accepted = {}
    /\ done = {}

------------------------------------------------------------------------------
\* Faulty: the channel has no bound.
SubmitUnbounded(t) ==
    /\ ~closed
    /\ t \notin accepted
    /\ queue' = Append(queue, t)
    /\ accepted' = accepted \cup {t}
    /\ UNCHANGED <<closed, worker, stop, done>>

\* The select of SubmitWithContext takes the send when there is room.
Submit(t) ==
    /\ ~closed /\ Len(queue) < Capacity
    /\ t \notin accepted
    /\ queue' = Append(queue, t)
    /\ accepted' = accepted \cup {t}
    /\ UNCHANGED <<closed, worker, stop, done>>

\* Faulty: the context is looked at after the send.
RefuseAfterSend(t, ctxDone) == ctxDone /\ Submit(t)

\* It answers false when the channel is full (default) or when the context
\* is done, which select may prefer to a send that is also possible.
Refuse(t, ctxDone) ==
    /\ ctxDone \/ (~closed /\ Len(queue) = Capacity)
    /\ t \notin accepted
    /\ UNCHANGED poolVars

\* A send on the closed channel panics in the submitting goroutine.
SubmitPanics(t) ==
    /\ closed
    /\ t \notin accepted
    /\ UNCHANGED poolVars

\* Faulty: the task is read and not removed.
TakeLeavesTask(w) ==
    /\ worker[w] = Idle
    /\ queue # <<>>
    /\ worker' = [worker EXCEPT ![w] = Head(queue)]
    /\ UNCHANGED <<queue, closed, stop, accepted, done>>

Take(w) ==
    /\ worker[w] = Idle
    /\ queue # <<>>
    /\ worker' = [worker EXCEPT ![w] = Head(queue)]
    /\ queue' = Tail(queue)
    /\ UNCHANGED <<closed, stop, accepted, done>>

Return(w) ==
    /\ worker[w] \in Tasks
    /\ done' = done \cup {worker[w]}
    /\ worker' = [worker EXCEPT ![w] = Idle]
    /\ UNCHANGED <<queue, closed, stop, accepted>>

\* range ends when the channel is closed and empty.
Exit(w) ==
    /\ worker[w] = Idle
    /\ closed /\ queue = <<>>
    /\ worker' = [worker EXCEPT ![w] = Exited]
    /\ UNCHANGED <<queue, closed, stop, accepted, done>>

\* Faulty: Stop waits for workers that nothing tells to exit.
StopWithoutClose ==
    /\ stop = "no"
    /\ stop' = "waiting"
    /\ UNCHANGED <<queue, closed, worker, accepted, done>>

\* Faulty: Stop waits for an empty channel only.
StopReturnsOnEmpty ==
    /\ stop = "waiting"
    /\ queue = <<>>
    /\ stop' = "returned"
    /\ UNCHANGED <<queue, closed, worker, accepted, done>>

\* Stop: close(p.tasks), then p.wg.Wait().
Stop ==
    /\ stop = "no"
    /\ closed' = TRUE
    /\ stop' = "waiting"
    /\ UNCHANGED <<queue, worker, accepted, done>>

StopReturns ==
    /\ stop = "waiting"
    /\ \A w \in Workers : worker[w] = Exited
    /\ stop' = "returned"
    /\ UNCHANGED <<queue, closed, worker, accepted, done>>

PoolNext ==
    \/ \E t \in Tasks : Submit(t) \/ Refuse(t, FALSE) \/ SubmitPanics(t)
    \/ \E w \in Workers : Take(w) \/ Return(w) \/ Exit(w)
    \/ Stop
    \/ StopReturns

PoolSpec == PoolInit /\ [][PoolNext]_poolVars

------------------------------------------------------------------------------
(* Properties *)

\* An accepted task is in exactly one place: in the queue, with one worker,
\* or done.  No task is run twice and none falls between queue and worker.
TaskInOnePlace ==
    /\ accepted = Queued \cup Running \cup done
    /\ Queued \cap Running = {} /\ Queued \cap done = {} /\ Running \cap done = {}
    /\ \A i, j \in 1..Len(queue) : queue[i] = queue[j] => i = j
    /\ \A v, w \in Workers : worker[v] = worker[w] /\ worker[v] \in Tasks => v = w

\* Stop does not return before every task that was accepted has run, those
\* still queued when the channel was closed included.
StopDrains == stop = "returned" => accepted = done
==============================================================================
