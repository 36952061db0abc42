---------------------------- MODULE ChromeManager ----------------------------
(***************************************************************************)
(* services/chrome_manager.go: the one Chrome of the new screenshot        *)
(* service, and the requests (services/screenshot_service.go) that take    *)
(* their turn on it.                                                       *)
(*                                                                         *)
(* cm.mu is held across a whole Start, which validates the browser and     *)
(* then takes stats.mu, and across nothing else that waits; starter says   *)
(* who holds it so.  isRunning is atomic and is read without the lock.     *)
(* GetStats takes the two locks in the other order; reading says who is    *)
(* inside it.  Every other critical section is one action.                 *)
(*                                                                         *)
(* Abstracted: the breaker, which may deny any request at both places that *)
(* ask it (ScreenshotBreaker models it), and the clock of the idle         *)
(* monitor, of which idle keeps whether lastUsed is IdleTimeout ago.       *)
(***************************************************************************)
EXTENDS Naturals, FiniteSets

CONSTANTS Tasks,         \* goroutines that take screenshots
          Admins,        \* goroutines in Restart
          Watchers,      \* goroutines in GetStats
          Monitors,      \* bound: idle monitors followed, further ones are not
          MaxConcurrent, \* cm.maxConcurrent
          None           \* nobody

ASSUME ChromeAssumption ==
    /\ None \notin Tasks \cup Admins
    /\ Tasks \cap Admins = {}
    /\ MaxConcurrent \in Nat \ {0}
    /\ IsFiniteSet(Tasks)

VARIABLES isRunning,     \* cm.isRunning
          ctx,           \* cm.ctx: "nil", "alive", or "dead" (cancelled)
          allocators,    \* Chrome allocators made and not cancelled yet
          starter,       \* who holds cm.mu in Start
          permits,       \* permits taken from cm.semaphore
          currentTasks,  \* cm.currentTasks
          idle,          \* lastUsed is IdleTimeout ago
          pc,            \* where each task and each administrator is
          cancelled,     \* whether the context of a task is cancelled
          stopped,       \* history: Chrome was stopped since ensureRunning
          monitor,       \* where each idle monitor is
          reading        \* who is in GetStats, with stats.mu read-locked

chrome == <<isRunning, ctx, allocators>>
vars == <<chrome, starter, permits, currentTasks, idle, pc, cancelled, stopped, monitor, reading>>

Users == Tasks \cup Admins

Places == {"idle", "ensure", "health", "decide", "stop", "pause", "start", "validate", "count",
           "permit", "enter", "run", "release", "record"}

TypeOK ==
    /\ isRunning \in BOOLEAN
    /\ ctx \in {"nil", "alive", "dead"}
    /\ allocators \in 0..1
    /\ starter \in Users \cup {None}
    /\ permits \in 0..MaxConcurrent
    /\ currentTasks \in 0..MaxConcurrent
    /\ idle \in BOOLEAN
    /\ pc \in [Users -> Places]
    /\ cancelled \in [Tasks -> BOOLEAN]
    /\ stopped \in [Tasks -> BOOLEAN]
    /\ monitor \in [Monitors -> {"off", "watch", "stop"}]
    /\ reading \subseteq Watchers

Init ==
    /\ isRunning = FALSE /\ ctx = "nil" /\ allocators = 0
    /\ starter = None
    /\ permits = 0 /\ currentTasks = 0
    /\ idle = FALSE
    /\ pc = [u \in Users |-> "idle"]
    /\ cancelled = [t \in Tasks |-> FALSE]
    /\ stopped = [t \in Tasks |-> FALSE]
    /\ monitor = [m \in Monitors |-> "off"]
    /\ reading = {}

At(u, from, to) == pc[u] = from /\ pc' = [pc EXCEPT ![u] = to]
Unlocked == starter = None               \* cm.mu can be taken
Entered == {t \in Tasks : pc[t] = "run"}                           \* who has a context
Holders == {t \in Tasks : pc[t] \in {"enter", "run", "release"}}   \* who has a permit

\* cleanup: the contexts of the browser and of every task on it end.
Cleanup ==
    /\ ctx' = "nil"
    /\ allocators' = 0
    /\ cancelled' = [t \in Tasks |-> cancelled[t] \/ t \in Entered]

\* Faulty: isRunning is left as it is.
StopLeavesFlag ==
    /\ Cleanup
    /\ stopped' = [t \in Tasks |-> stopped[t] \/ isRunning]
    /\ UNCHANGED isRunning

\* Stop, once cm.mu is free.
StopChrome ==
    /\ isRunning' = FALSE
    /\ IF isRunning
       THEN Cleanup /\ stopped' = [t \in Tasks |-> TRUE]
       ELSE UNCHANGED <<ctx, allocators, cancelled, stopped>>

------------------------------------------------------------------------------
(* ensureRunning *)

\* TakeScreenshot: the request is valid, not cached, and the breaker agrees.
Arrive(t) ==
    /\ At(t, "idle", "ensure")
    /\ UNCHANGED <<chrome, starter, permits, currentTasks, idle, cancelled, stopped, monitor, reading>>

\* The first read of isRunning.
ReadRunning(t) ==
    /\ pc[t] = "ensure"
    /\ pc' = [pc EXCEPT ![t] = IF isRunning THEN "health" ELSE "decide"]
    /\ stopped' = [stopped EXCEPT ![t] = FALSE]
    /\ UNCHANGED <<chrome, starter, permits, currentTasks, idle, cancelled, monitor, reading>>

\* Faulty: a context that is there is taken for a healthy one.
CheckHealthByPresence(t) ==
    /\ pc[t] = "health" /\ Unlocked
    /\ pc' = [pc EXCEPT ![t] = IF ctx # "nil" THEN "permit" ELSE "decide"]
    /\ UNCHANGED <<chrome, starter, permits, currentTasks, idle, cancelled, stopped, monitor, reading>>

\* isHealthy, under the read lock.
CheckHealth(t) ==
    /\ pc[t] = "health" /\ Unlocked
    /\ pc' = [pc EXCEPT ![t] = IF ctx = "alive" THEN "permit" ELSE "decide"]
    /\ UNCHANGED <<chrome, starter, permits, currentTasks, idle, cancelled, stopped, monitor, reading>>

\* The second read of isRunning: what runs now is taken for unhealthy.
Decide(t) ==
    /\ pc[t] = "decide"
    /\ pc' = [pc EXCEPT ![t] = IF isRunning THEN "stop" ELSE "start"]
    /\ UNCHANGED <<chrome, starter, permits, currentTasks, idle, cancelled, stopped, monitor, reading>>

Stop(u) ==
    /\ Unlocked
    /\ At(u, "stop", IF u \in Tasks THEN "start" ELSE "pause")
    /\ StopChrome
    /\ UNCHANGED <<starter, permits, currentTasks, idle, monitor, reading>>

------------------------------------------------------------------------------
(* Start *)

\* Where a user goes when Start has returned.
Started(u) == IF u \in Tasks THEN "permit" ELSE "idle"
StartIgnored(u) == IF u \in Tasks THEN "permit" ELSE "idle"  \* Faulty: no error
StartFailed(u) == IF u \in Tasks THEN "record" ELSE "idle"
Settled(u, p) == [t \in Tasks |-> IF t = u /\ p = "permit" THEN FALSE ELSE stopped[t]]

\* Another one has started Chrome meanwhile.
FindStarted(u) ==
    /\ Unlocked /\ isRunning
    /\ At(u, "start", Started(u))
    /\ stopped' = Settled(u, Started(u))
    /\ UNCHANGED <<chrome, starter, permits, currentTasks, idle, cancelled, monitor, reading>>

Launch(u) ==
    /\ Unlocked /\ ~isRunning
    /\ At(u, "start", "validate")
    /\ starter' = u
    /\ ctx' = "alive"
    /\ allocators' = allocators + 1
    /\ UNCHANGED <<isRunning, permits, currentTasks, idle, cancelled, stopped, monitor, reading>>

\* validateChrome agrees.
Validate(u) ==
    /\ At(u, "validate", "count")
    /\ isRunning' = TRUE
    /\ idle' = FALSE
    /\ UNCHANGED <<ctx, allocators, starter, permits, currentTasks, cancelled, stopped, monitor, reading>>

\* Faulty: it returns before cm.mu is given up.
ValidateFailsLocked(u) ==
    /\ At(u, "validate", StartFailed(u))
    /\ Cleanup
    /\ UNCHANGED <<isRunning, starter, permits, currentTasks, idle, stopped, monitor, reading>>

\* It fails, or takes longer than StartupTimeout.
ValidateFails(u) ==
    /\ At(u, "validate", StartFailed(u))
    /\ Cleanup
    /\ starter' = None
    /\ UNCHANGED <<isRunning, permits, currentTasks, idle, stopped, monitor, reading>>

\* restarts++ under stats.mu; a new idle monitor; cm.mu is given up.
CountRestart(u) ==
    /\ reading = {}
    /\ At(u, "count", Started(u))
    /\ starter' = None
    /\ stopped' = Settled(u, Started(u))
    /\ LET off == {m \in Monitors : monitor[m] = "off"} IN
       IF off = {} THEN UNCHANGED monitor
       ELSE \E m \in off : monitor' = [monitor EXCEPT ![m] = "watch"]
    /\ UNCHANGED <<chrome, permits, currentTasks, idle, cancelled, reading>>

------------------------------------------------------------------------------
(* The rest of GetContext, the screenshot, and wrappedCancel *)

\* The breaker is asked again, and denies.
Deny(t) ==
    /\ At(t, "permit", "record")
    /\ UNCHANGED <<chrome, starter, permits, currentTasks, idle, cancelled, stopped, monitor, reading>>

TakePermit(t) ==
    /\ permits < MaxConcurrent
    /\ At(t, "permit", "enter")
    /\ permits' = permits + 1
    /\ UNCHANGED <<chrome, starter, currentTasks, idle, cancelled, stopped, monitor, reading>>

\* No permit for ten seconds.
GiveUp(t) ==
    /\ permits = MaxConcurrent
    /\ At(t, "permit", "record")
    /\ UNCHANGED <<chrome, starter, permits, currentTasks, idle, cancelled, stopped, monitor, reading>>

\* Faulty: the permit is kept by the request that is turned away.
FindStoppedKeepsPermit(t) ==
    /\ Unlocked /\ (~isRunning \/ ctx = "nil")
    /\ At(t, "enter", "record")
    /\ UNCHANGED <<chrome, starter, permits, currentTasks, idle, cancelled, stopped, monitor, reading>>

\* Under the read lock: Chrome does not run any more.
FindStopped(t) ==
    /\ Unlocked /\ (~isRunning \/ ctx = "nil")
    /\ At(t, "enter", "record")
    /\ permits' = permits - 1
    /\ UNCHANGED <<chrome, starter, currentTasks, idle, cancelled, stopped, monitor, reading>>

\* The context of a task is a child of cm.ctx, cancelled if that one is.
Enter(t) ==
    /\ Unlocked /\ isRunning /\ ctx # "nil"
    /\ At(t, "enter", "run")
    /\ currentTasks' = currentTasks + 1
    /\ cancelled' = [cancelled EXCEPT ![t] = ctx = "dead"]
    /\ idle' = FALSE
    /\ UNCHANGED <<chrome, starter, permits, stopped, monitor, reading>>

\* chromedp.Run returns: a picture, an error, its timeout, or cancelled;
\* wrappedCancel takes the task off the count, and then gives the permit up.
Finish(t) ==
    /\ At(t, "run", "release")
    /\ currentTasks' = currentTasks - 1
    /\ cancelled' = [cancelled EXCEPT ![t] = FALSE]
    /\ UNCHANGED <<chrome, starter, permits, idle, stopped, monitor, reading>>

Release(t) ==
    /\ At(t, "release", "record")
    /\ permits' = permits - 1
    /\ UNCHANGED <<chrome, starter, currentTasks, idle, cancelled, stopped, monitor, reading>>

\* OnSuccess or OnFailure, under stats.mu.
Record(t) ==
    /\ reading = {}
    /\ At(t, "record", "idle")
    /\ UNCHANGED <<chrome, starter, permits, currentTasks, idle, cancelled, stopped, monitor, reading>>

------------------------------------------------------------------------------
(* Restart, the idle monitors, GetStats, the browser *)

BeginRestart(a) ==
    /\ At(a, "idle", "stop")
    /\ UNCHANGED <<chrome, starter, permits, currentTasks, idle, cancelled, stopped, monitor, reading>>

\* time.Sleep(2 * time.Second).
Pause(a) ==
    /\ At(a, "pause", "start")
    /\ UNCHANGED <<chrome, starter, permits, currentTasks, idle, cancelled, stopped, monitor, reading>>

\* A tick of the monitor; the lock is not taken.
MonitorLooks(m) ==
    /\ monitor[m] = "watch"
    /\ \/ ~isRunning /\ monitor' = [monitor EXCEPT ![m] = "off"]
       \/ isRunning /\ idle /\ currentTasks = 0 /\ monitor' = [monitor EXCEPT ![m] = "stop"]
    /\ UNCHANGED <<chrome, starter, permits, currentTasks, idle, pc, cancelled, stopped, reading>>

MonitorStops(m) ==
    /\ monitor[m] = "stop" /\ Unlocked
    /\ monitor' = [monitor EXCEPT ![m] = "off"]
    /\ StopChrome
    /\ UNCHANGED <<starter, permits, currentTasks, idle, pc, reading>>

\* GetStats read-locks stats.mu ...
BeginStats(w) ==
    /\ w \notin reading
    /\ reading' = reading \cup {w}
    /\ UNCHANGED <<chrome, starter, permits, currentTasks, idle, pc, cancelled, stopped, monitor>>

\* ... and then cm.mu, in isHealthy.
EndStats(w) ==
    /\ w \in reading /\ Unlocked
    /\ reading' = reading \ {w}
    /\ UNCHANGED <<chrome, starter, permits, currentTasks, idle, pc, cancelled, stopped, monitor>>

GrowIdle ==
    /\ isRunning /\ ~idle
    /\ idle' = TRUE
    /\ UNCHANGED <<chrome, starter, permits, currentTasks, pc, cancelled, stopped, monitor, reading>>

\* External: the browser has gone, and chromedp cancels its context.
ChromeDies ==
    /\ ctx = "alive"
    /\ ctx' = "dead"
    /\ cancelled' = [t \in Tasks |-> cancelled[t] \/ t \in Entered]
    /\ UNCHANGED <<isRunning, allocators, starter, permits, currentTasks, idle, pc, stopped, monitor, reading>>

------------------------------------------------------------------------------
Starting(u) == FindStarted(u) \/ Launch(u) \/ Validate(u) \/ ValidateFails(u) \/ CountRestart(u)

\* The steps that take cm.mu.
Locking(u) ==
    \/ Stop(u) \/ FindStarted(u) \/ Launch(u)
    \/ u \in Tasks /\ (CheckHealth(u) \/ FindStopped(u) \/ Enter(u))

\* What a request does after it has arrived.
Proceed(t) ==
    \/ ReadRunning(t) \/ CheckHealth(t) \/ Decide(t)
    \/ Stop(t) \/ Starting(t)
    \/ Deny(t) \/ TakePermit(t) \/ GiveUp(t)
    \/ FindStopped(t) \/ Enter(t) \/ Finish(t) \/ Release(t) \/ Record(t)

Restarting(a) == Stop(a) \/ Pause(a) \/ Starting(a)

Next ==
    \/ \E t \in Tasks : Arrive(t) \/ Proceed(t)
    \/ \E a \in Admins : BeginRestart(a) \/ Restarting(a)
    \/ \E m \in Monitors : MonitorLooks(m) \/ MonitorStops(m)
    \/ \E w \in Watchers : BeginStats(w) \/ EndStats(w)
    \/ GrowIdle
    \/ ChromeDies

\* Requests keep arriving.  Those that have arrived go on: the browser
\* answers or StartupTimeout and the timeout of the task pass, and a mutex
\* that is free again and again is got (sync.Mutex does not starve).
Fairness ==
    /\ \A t \in Tasks : WF_vars(Arrive(t)) /\ WF_vars(Proceed(t))
    /\ \A a \in Admins : WF_vars(Restarting(a))
    /\ \A u \in Users : SF_vars(Locking(u))
    /\ \A w \in Watchers : SF_vars(EndStats(w))

Safety == Init /\ [][Next]_vars
Spec == Safety /\ Fairness

------------------------------------------------------------------------------
(* Properties *)

\* A permit is taken exactly by those who have one, through every way out of
\* GetContext and of the screenshot, and the count is of those with a context.
PermitsBalance ==
    /\ permits = Cardinality(Holders)
    /\ currentTasks = Cardinality(Entered)

\* One allocator at most is alive, and it is the one cm leads to: whatever
\* starts, stops and failures interleave, no Chrome is left without owner.
OneChrome == /\ (allocators = 1) <=> (ctx # "nil")
             /\ isRunning => ctx # "nil"

\* A request that ensureRunning has let pass finds Chrome stopped only if it
\* was stopped since.
FoundStoppedWasStopped ==
    \A t \in Tasks : pc[t] \in {"permit", "enter"} /\ ~isRunning => stopped[t]

\* A request ends, whatever Chrome, the restarts and the monitors do.
EveryRequestEnds == \A t \in Tasks : pc[t] = "ensure" ~> pc[t] = "idle"

\* A browser that has died is cleaned up, as long as there are requests.
DeadChromeCleanedUp == ctx = "dead" ~> ctx # "dead"

\* docs/SCREENSHOT_REFACTOR.md:273 offers the status of the running Chrome:
\* a status request is answered.
StatusAnswered == \A w \in Watchers : w \in reading ~> w \notin reading
==============================================================================
