---------------------------- MODULE AsyncRequest ----------------------------
(***************************************************************************)
(* One asynchronous API request: asyncWorkerMiddleware (routes/routes.go)  *)
(* makes a context with a deadline and two channels of capacity one, the   *)
(* handler (handlers/api.go, the same skeleton five times) submits a task  *)
(* to the worker pool and selects on the two channels and the context, and *)
(* the middleware cancels and closes what it made when the handler is back.*)
(*                                                                         *)
(* A request and its task have the same name.  Nothing recovers a panic in *)
(* a worker, so that one ends the process: crashed.  There are two kinds.  *)
(* A task that is late sends on a channel the middleware has closed        *)
(* (Finish).  Or a goroutine panics in what it has called, without any     *)
(* closed channel: the task of a screenshot, the health check or the idle  *)
(* timer in ChromeUtil's stopInternal, a whois query without a provider    *)
(* (PanicElsewhere; ChromeUtil and WhoisManager say when that can be).     *)
(***************************************************************************)
EXTENDS WorkerPool

VARIABLES pc,            \* where the handler goroutine of a request is
          answer,        \* the response it wrote
          expired,       \* requestContext is done: deadline or disconnect
          open,          \* which of its two channels are still open
          sent,          \* which channel its task has sent on, if any
          crashed        \* whether the process has died of a panic, and of which

Requests == Tasks        \* each request submits the task of its name

reqVars == <<pc, answer, expired, open, sent, crashed>>
vars == <<poolVars, reqVars>>

Channels == {"result", "error"}
Answers == {"ok", "error", "busy", "timeout", "panic"}
Crashes == {"no", "late send", "elsewhere"}
Alive == crashed = "no"

TypeOK ==
    /\ PoolTypeOK
    /\ pc \in [Requests -> {"new", "submit", "wait", "leave", "closing", "over"}]
    /\ answer \in [Requests -> Answers \cup {"none"}]
    /\ expired \in [Requests -> BOOLEAN]
    /\ open \in [Requests -> SUBSET Channels]
    /\ sent \in [Requests -> Channels \cup {"nothing"}]
    /\ crashed \in Crashes

Init ==
    /\ PoolInit
    /\ pc = [r \in Requests |-> "new"]
    /\ answer = [r \in Requests |-> "none"]
    /\ expired = [r \in Requests |-> FALSE]
    /\ open = [r \in Requests |-> Channels]
    /\ sent = [r \in Requests |-> "nothing"]
    /\ crashed = "no"

Goto(r, from, to) == pc[r] = from /\ pc' = [pc EXCEPT ![r] = to]
Respond(r, a) == answer' = [answer EXCEPT ![r] = a]

------------------------------------------------------------------------------
(* The handler goroutine *)

\* asyncWorkerMiddleware up to c.Next().
Arrive(r) ==
    /\ Goto(r, "new", "submit")
    /\ UNCHANGED <<poolVars, answer, expired, open, sent, crashed>>

SubmitTask(r) ==
    /\ Goto(r, "submit", "wait")
    /\ Submit(r)
    /\ UNCHANGED <<answer, expired, open, sent, crashed>>

\* !submitted: 503 SERVICE_BUSY.
Busy(r) ==
    /\ Goto(r, "submit", "leave")
    /\ Refuse(r, expired[r])
    /\ Respond(r, "busy")
    /\ UNCHANGED <<expired, open, sent, crashed>>

\* The pool is already closed: gin.Recovery answers 500 for the panicking
\* goroutine, which unwinds past the rest of the middleware.
SubmitPanic(r) ==
    /\ Goto(r, "submit", "over")
    /\ SubmitPanics(r)
    /\ Respond(r, "panic")
    /\ UNCHANGED <<expired, open, sent, crashed>>

\* Faulty: the select takes an empty result when the context is done.
GetResultOrNothing(r) ==
    /\ Goto(r, "wait", "leave")
    /\ sent[r] = "result" \/ expired[r]
    /\ Respond(r, "ok")
    /\ UNCHANGED <<poolVars, expired, open, sent, crashed>>

\* Faulty: the context is not one of the cases of the select.
TimeOutOnlyWhenSent(r) ==
    /\ Goto(r, "wait", "leave")
    /\ expired[r] /\ sent[r] # "nothing" /\ Respond(r, "timeout")
    /\ UNCHANGED <<poolVars, expired, open, sent, crashed>>

\* select: a result, an error, or the context; any one that is ready.
GetResult(r) ==
    /\ Goto(r, "wait", "leave")
    /\ sent[r] = "result" /\ Respond(r, "ok")
    /\ UNCHANGED <<poolVars, expired, open, sent, crashed>>

GetError(r) ==
    /\ Goto(r, "wait", "leave")
    /\ sent[r] = "error" /\ Respond(r, "error")
    /\ UNCHANGED <<poolVars, expired, open, sent, crashed>>

TimeOut(r) ==
    /\ Goto(r, "wait", "leave")
    /\ expired[r] /\ Respond(r, "timeout")
    /\ UNCHANGED <<poolVars, expired, open, sent, crashed>>

\* Back in the middleware: channelUsed is never set to true, so it always
\* cancels the context and closes both channels, one after the other.
CloseResults(r) ==
    /\ Goto(r, "leave", "closing")
    /\ expired' = [expired EXCEPT ![r] = TRUE]
    /\ open' = [open EXCEPT ![r] = @ \ {"result"}]
    /\ UNCHANGED <<poolVars, answer, sent, crashed>>

CloseErrors(r) ==
    /\ Goto(r, "closing", "over")
    /\ open' = [open EXCEPT ![r] = @ \ {"error"}]
    /\ UNCHANGED <<poolVars, answer, expired, sent, crashed>>

------------------------------------------------------------------------------
(* The context, the workers, Stop *)

Expire(r) ==
    /\ pc[r] # "new" /\ ~expired[r]
    /\ expired' = [expired EXCEPT ![r] = TRUE]
    /\ UNCHANGED <<poolVars, pc, answer, open, sent, crashed>>

WorkerTakes(w) == Take(w) /\ UNCHANGED reqVars

\* The task is over and sends what it has: one value on one channel of
\* capacity one, which never blocks; on a closed channel it panics.
Finish(w, ch) ==
    /\ Return(w)
    /\ LET r == worker[w] IN
       IF ch \in open[r]
       THEN sent' = [sent EXCEPT ![r] = ch] /\ UNCHANGED crashed
       ELSE crashed' = "late send" /\ UNCHANGED sent
    /\ UNCHANGED <<pc, answer, expired, open>>

\* A nil function, pointer or provider is used by the task of a worker, by the
\* health check or by the idle timer; no request needs to have been answered.
PanicElsewhere ==
    /\ crashed' = "elsewhere"
    /\ UNCHANGED <<poolVars, pc, answer, expired, open, sent>>

WorkerExit(w) == Exit(w) /\ UNCHANGED reqVars
StopPool == Stop /\ UNCHANGED reqVars
PoolStopped == StopReturns /\ UNCHANGED reqVars

Handler(r) ==
    \/ SubmitTask(r) \/ Busy(r) \/ SubmitPanic(r)
    \/ GetResult(r) \/ GetError(r) \/ TimeOut(r)
    \/ CloseResults(r) \/ CloseErrors(r)

Work ==
    \/ \E r \in Requests : Handler(r) \/ Expire(r)
    \/ \E w \in Workers : WorkerTakes(w) \/ WorkerExit(w)
    \/ \E w \in Workers, ch \in Channels : Finish(w, ch)
    \/ PanicElsewhere

Next ==
    /\ Alive
    /\ Work \/ StopPool \/ PoolStopped \/ \E r \in Requests : Arrive(r)

\* A handler that can go on does, and deadlines pass.  Nothing is assumed of
\* the workers: a task may hang, and keep those behind it in the queue.
Fairness ==
    \A r \in Requests : WF_vars(Alive /\ Handler(r)) /\ WF_vars(Alive /\ Expire(r))

Safety == Init /\ [][Next]_vars
Spec == Safety /\ Fairness

------------------------------------------------------------------------------
(* Properties *)

\* A channel is closed under a task that has yet to send on it only when its
\* request was answered 504: a server that never times out never dies of a
\* late send, however requests, workers and Stop interleave.
OnlyTimeoutsCloseEarly ==
    \A r \in accepted \ done : open[r] # Channels => answer[r] = "timeout"

\* ... so that the process dies of a late send only in the task of a request
\* that was answered 504, and whose task had sent nothing before.  It says
\* nothing of a panic elsewhere, which can come before any answer.
LateSendNeedsTimeout ==
    crashed = "late send" =>
        \E r \in done : answer[r] = "timeout" /\ sent[r] = "nothing" /\ open[r] # Channels

\* A request that was told "busy", or whose submission panicked, leaves no
\* task behind that would query a provider nobody waits for.
RefusedNeverRuns ==
    \A r \in Requests : answer[r] \in {"busy", "panic"} => r \notin accepted

\* 200 and 500 answers report what the request's own task sent, once.
AnswerIsFromTask ==
    \A r \in Requests : answer[r] \in {"ok", "error"} => r \in done

\* Every request that reaches its handler is answered, although every worker
\* may hang in an earlier task, or the process dies.
EveryRequestAnswered ==
    \A r \in Requests : pc[r] = "submit" ~> (answer[r] # "none" \/ ~Alive)

==============================================================================
