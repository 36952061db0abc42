------------------------------ MODULE Lifecycle ------------------------------
(***************************************************************************)
(* The process from the first health check to its end: the last lines of   *)
(* main and the shutdown goroutine (main.go), the container's health       *)
(* checker and Shutdown (services/container.go), and the requests of       *)
(* AsyncRequest that are under way meanwhile.                              *)
(*                                                                         *)
(* main listens only when Start of the health checker has returned.        *)
(* The container is shut down first (worker pool, health checker, Redis),  *)
(* then Chrome, and only then the HTTP server; main returns as soon as     *)
(* ListenAndServe does, which is when srv.Shutdown begins.                 *)
(***************************************************************************)
EXTENDS AsyncRequest, HealthChecker

VARIABLE stage           \* how far main and the shutdown goroutine are

allVars == <<vars, healthVars, stage>>

Stages == {"starting", "serving", "stopping", "drained", "closing", "exited"}

LifeTypeOK == TypeOK /\ HealthTypeOK /\ stage \in Stages

LifeInit == Init /\ HealthInit /\ stage = "starting"

\* InitializeHealthChecker has returned; the server takes requests and the
\* shutdown goroutine waits for a signal.
Listen == /\ stage = "starting" /\ check["refresh"] # "none"
          /\ stage' = "serving"
          /\ UNCHANGED <<vars, healthVars>>

\* SIGINT or SIGTERM; Shutdown calls WorkerPool.Stop, which closes the tasks.
Signal == /\ stage = "serving" /\ stage' = "stopping"
          /\ StopPool
          /\ UNCHANGED healthVars

\* Stop has waited for the workers; health checker, Redis and Chrome follow.
Drain == /\ stage = "stopping" /\ stage' = "drained"
         /\ PoolStopped
         /\ UNCHANGED healthVars

\* srv.Shutdown closes the listener, and ListenAndServe returns at once.
CloseListener == /\ stage = "drained" /\ stage' = "closing"
                 /\ UNCHANGED <<vars, healthVars>>

\* main returns, or srv.Shutdown gives up after 10 s and log.Fatalf exits.
ExitProcess == /\ stage = "closing" /\ stage' = "exited"
               /\ UNCHANGED <<vars, healthVars>>

Listening == stage \in {"serving", "stopping", "drained"}

\* Requests are taken until the listener is closed, and handlers and workers
\* run until the process is gone.
Serve == /\ stage # "exited"
         /\ \/ Work
            \/ Listening /\ \E r \in Requests : Arrive(r)
         /\ UNCHANGED <<stage, healthVars>>

\* Checks go on after the loop has been told to stop, which Shutdown does when
\* the workers are back.
Checkup == /\ stage # "exited"
           /\ \/ RunHealthCheck \/ StartLoop \/ Ticker
              \/ stage \in {"drained", "closing"} /\ StopLoop
              \/ Listening /\ GetHealthStatus
              \/ SendStatus
           /\ UNCHANGED <<vars, stage>>

LifeNext ==
    /\ Alive
    /\ \/ Listen \/ Signal \/ Drain \/ CloseListener \/ ExitProcess
       \/ Serve \/ Checkup

Going == Alive /\ stage # "exited"

\* A worker goes on and its task returns (queries, lookups and Chrome runs
\* have time limits of their own); so does the shutdown goroutine.
LifeFairness ==
    /\ \A w \in Workers :
          WF_allVars(Going /\ (WorkerTakes(w) \/ WorkerExit(w) \/ \E ch \in Channels : Finish(w, ch))
                     /\ UNCHANGED <<stage, healthVars>>)
    /\ WF_allVars(Alive /\ (Drain \/ CloseListener \/ ExitProcess))

LifeSafety == LifeInit /\ [][LifeNext]_allVars
LifeSpec == LifeSafety /\ LifeFairness

------------------------------------------------------------------------------
(* Properties *)

\* Redis and Chrome are taken away, and the process left, only when every
\* task the pool has accepted has returned: no accepted query runs without
\* its cache or dies half-way, whatever arrives during the shutdown.
ServicesOutliveTasks == stage \in {"drained", "closing", "exited"} => accepted = done

\* The process does end after a signal, although requests keep arriving and
\* tasks are still queued.
ShutdownCompletes == (stage = "stopping") ~> (stage = "exited" \/ ~Alive)
==============================================================================
