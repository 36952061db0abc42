------------------------------ MODULE ChromeUtil ------------------------------
(***************************************************************************)
(* utils/chrome.go: the Chrome of the older screenshot handlers and of the *)
(* ITDog health check, in the automatic mode of DefaultChromeConfig.       *)
(*                                                                         *)
(* cu.mu is held for writing while one start strategy is tried and by      *)
(* Stop, for reading inside IsHealthy and the end of GetContext.           *)
(* EnsureStarted, stopInternal when EnsureStarted calls it, and            *)
(* resetIdleTimer take no lock, and they write what the others read under  *)
(* theirs.  So a step is one statement that reads or writes a field of cu, *)
(* together with the lock or unlock beside it and with usageCount, which   *)
(* has a lock of its own; between a check of a pointer and its use others  *)
(* take steps.                                                             *)
(*                                                                         *)
(* A call of a nil function and the use of a nil context or timer panic.   *)
(* gin.Recovery ends the request of a handler goroutine; in a worker of    *)
(* the pool, a health check, the start in the background or a timer        *)
(* nothing recovers, and the process is over.                              *)
(*                                                                         *)
(* Time is left out: a timer may expire, and a task end, at any moment.    *)
(***************************************************************************)
EXTENDS Naturals, FiniteSets

CONSTANTS Tasks,         \* goroutines that take screenshots
          Boot,          \* InitGlobalChromeUtil, in the background of main
          Closer,        \* the goroutine of an idle timer that has expired
          Nobody,        \* holds cu.mu when it is free
          MaxConcurrent, \* cu.maxConcurrent
          Frequent,      \* uses from which on a start sets the idle timer
          MaxUses,       \* bound: nobody calls once Chrome has been used so often
          Strategies     \* bound: start strategies (four in the code)

ASSUME UtilAssumption ==
    /\ MaxConcurrent \in Nat \ {0} /\ Frequent \in Nat /\ MaxUses \in Nat
    /\ Strategies \in Nat \ {0}
    /\ IsFiniteSet(Tasks)
    /\ Boot \notin Tasks /\ Closer \notin Tasks /\ Nobody \notin Tasks
    /\ Cardinality({Boot, Closer, Nobody}) = 3

VARIABLES isRunning,  \* cu.isRunning
          set,        \* which of cu's contexts and cancel functions are not nil
          browser,    \* of the context made last: "none", "alive" or "dead"
          alloc,      \* the allocator made last: "fresh", "used" for that context, "dead"
          idleTimer,  \* cu.idleTimer: "nil", "spent" or "pending"
          stray,      \* a timer is pending that cu.idleTimer has lost
          holder,     \* who holds cu.mu for writing
          permits,    \* permits taken from cu.concurrencySem
          usage,      \* cu.usageCount
          pc,         \* where everyone is
          warm,       \* tasks that found frequent use before they started
          tries,      \* start strategies tried
          leaked,     \* history: permits whose task has panicked
          panicked,   \* history: somebody has
          met         \* history: a stop has met somebody who relies on a pointer

chrome == <<isRunning, set, browser, alloc>>
timer == <<idleTimer, stray>>
work == <<usage, warm, tries>>
panics == <<leaked, panicked>>
vars == <<chrome, timer, holder, permits, work, pc, panics, met>>

Users == Tasks \cup {Boot, Closer}
Fields == {"ctx", "cancel", "allocCtx", "allocCancel"}

\* Inside stopInternal, past its first check.
Stopping == {"checkTimer", "stopTimer", "dropTimer", "checkCancel", "callCancel", "dropCancel",
             "checkAlloc", "callAlloc", "dropAlloc", "clear", "clearCtx", "clearAlloc"}
Starting == {"alloc", "context", "limit", "test"}   \* a strategy that found nothing running
Reading == {"present", "done", "attach"}            \* holds cu.mu for reading
Places == {"idle", "ensure", "health", "decide", "halt", "start", "lock", "confirm",
           "disarm", "unarm", "arm", "permit", "enter", "run", "want", "over"}
          \cup Stopping \cup Starting \cup Reading

TypeOK ==
    /\ isRunning \in BOOLEAN /\ set \subseteq Fields
    /\ browser \in {"none", "alive", "dead"} /\ alloc \in {"fresh", "used", "dead"}
    /\ idleTimer \in {"nil", "spent", "pending"} /\ stray \in BOOLEAN
    /\ holder \in Users \cup {Nobody}
    /\ permits \in 0..MaxConcurrent /\ leaked \in 0..MaxConcurrent
    /\ usage \in Nat
    /\ pc \in [Users -> Places]
    /\ warm \in [Tasks -> BOOLEAN]
    /\ tries \in [Users -> 0..(Strategies - 1)]
    /\ panicked \in BOOLEAN /\ met \in BOOLEAN

Init ==
    /\ isRunning = FALSE /\ set = {} /\ browser = "none" /\ alloc = "used"
    /\ idleTimer = "nil" /\ stray = FALSE
    /\ holder = Nobody /\ permits = 0 /\ usage = 0
    /\ pc = [u \in Users |-> IF u = Boot THEN "lock" ELSE "idle"]
    /\ warm = [t \in Tasks |-> FALSE]
    /\ tries = [u \in Users |-> 0]
    /\ leaked = 0 /\ panicked = FALSE /\ met = FALSE

At(u, from, to) == pc[u] = from /\ pc' = [pc EXCEPT ![u] = to]
Crashed == pc[Closer] = "over"           \* a panic has ended the process
NotWritten == holder = Nobody
Free == NotWritten /\ \A t \in Tasks : pc[t] \notin Reading
Holders == {t \in Tasks : pc[t] \in {"enter", "attach", "run"}}   \* who has a permit

\* A panic in u, where it is now: cu.mu is unlocked by a defer, a permit is not
\* given back.
Panic(u) ==
    /\ panicked' = TRUE
    /\ leaked' = IF pc[u] = "attach" THEN leaked + 1 ELSE leaked
    /\ \/ /\ pc' = [v \in Users |-> "over"]
          /\ UNCHANGED <<holder, warm, tries>>
       \/ /\ u \in Tasks /\ pc' = [pc EXCEPT ![u] = "idle"]
          /\ holder' = IF holder = u THEN Nobody ELSE holder
          /\ warm' = [warm EXCEPT ![u] = FALSE]
          /\ tries' = [tries EXCEPT ![u] = 0]
    /\ UNCHANGED <<chrome, timer, permits, usage>>

------------------------------------------------------------------------------
(* EnsureStarted *)

\* A handler or the health check; each of the three attempts of an ITDog
\* screenshot is a call of its own.
Call(t) ==
    /\ usage < MaxUses
    /\ At(t, "idle", "ensure")
    /\ UNCHANGED <<chrome, timer, holder, permits, work, panics>>

\* The use is counted; the first read of isRunning.
EnsureStarted(t) ==
    /\ pc[t] = "ensure"
    /\ pc' = [pc EXCEPT ![t] = IF isRunning THEN "health" ELSE "decide"]
    /\ usage' = usage + 1
    /\ UNCHANGED <<chrome, timer, holder, permits, warm, tries, panics>>

\* IsHealthy: cu.mu is taken, and the flag read again; then cu.ctx; then
\* whether that is done.
IsHealthy(t) ==
    /\ NotWritten
    /\ At(t, "health", IF isRunning THEN "present" ELSE "decide")
    /\ UNCHANGED <<chrome, timer, holder, permits, work, panics>>

ContextPresent(t) ==
    /\ At(t, "present", IF "ctx" \in set THEN "done" ELSE "decide")
    /\ UNCHANGED <<chrome, timer, holder, permits, work, panics>>

\* Faulty: a browser that is there is taken for a healthy one.
ContextTaken(t) ==
    /\ At(t, "done", "disarm")
    /\ UNCHANGED <<chrome, timer, holder, permits, work, panics>>

ContextDone(t) ==
    \/ /\ "ctx" \in set
       /\ At(t, "done", IF browser = "alive" THEN "disarm" ELSE "decide")
       /\ UNCHANGED <<chrome, timer, holder, permits, work, panics>>
    \/ pc[t] = "done" /\ "ctx" \notin set /\ Panic(t)

\* The second read: if Chrome runs, it is taken to be unhealthy.
Decide(t) ==
    /\ pc[t] = "decide"
    /\ pc' = [pc EXCEPT ![t] = IF isRunning THEN "halt" ELSE "start"]
    /\ UNCHANGED <<chrome, timer, holder, permits, work, panics>>

\* The frequency is read, and startInternal returns if Chrome runs.
StartInternal(t) ==
    /\ pc[t] = "start"
    /\ LET often == usage > Frequent IN
       /\ pc' = [pc EXCEPT ![t] = IF ~isRunning THEN "lock" ELSE IF often THEN "disarm" ELSE "permit"]
       /\ warm' = [warm EXCEPT ![t] = often /\ ~isRunning]
    /\ UNCHANGED <<chrome, timer, holder, permits, usage, tries, panics>>

------------------------------------------------------------------------------
(* stopInternal, statement by statement *)

AfterStop(u) == IF u = Closer THEN "idle" ELSE "start"
Unlock(u) == holder' = IF u = Closer THEN Nobody ELSE holder

StoppedAlready(u) ==
    /\ ~isRunning
    /\ At(u, "halt", AfterStop(u)) /\ Unlock(u)
    /\ UNCHANGED <<chrome, timer, permits, work, panics>>

BeginStop(u) ==
    /\ isRunning
    /\ At(u, "halt", "checkTimer")
    /\ UNCHANGED <<chrome, timer, holder, permits, work, panics>>

\* The idle timer is stopped if there is one, and forgotten.
CheckTimer(u) ==
    /\ At(u, "checkTimer", IF idleTimer # "nil" THEN "stopTimer" ELSE "checkCancel")
    /\ UNCHANGED <<chrome, timer, holder, permits, work, panics>>

StopTimer(u) ==
    \/ /\ idleTimer # "nil" /\ idleTimer' = "spent"
       /\ At(u, "stopTimer", "dropTimer")
       /\ UNCHANGED <<chrome, stray, holder, permits, work, panics>>
    \/ pc[u] = "stopTimer" /\ idleTimer = "nil" /\ Panic(u)

DropTimer(u) ==
    /\ At(u, "dropTimer", "checkCancel")
    /\ idleTimer' = "nil"
    /\ stray' = (stray \/ idleTimer = "pending")
    /\ UNCHANGED <<chrome, holder, permits, work, panics>>

\* A cancel function is called if there is one, and forgotten.
Check(u, function, from, call, skip) ==
    /\ At(u, from, IF function \in set THEN call ELSE skip)
    /\ UNCHANGED <<chrome, timer, holder, permits, work, panics>>
Drop(u, field, from, to) ==
    /\ At(u, from, to)
    /\ set' = set \ {field}
    /\ UNCHANGED <<isRunning, browser, alloc, timer, holder, permits, work, panics>>

Kill == browser' = IF browser = "alive" THEN "dead" ELSE browser

CheckCancel(u) == Check(u, "cancel", "checkCancel", "callCancel", "checkAlloc")
CallCancel(u) ==
    \/ /\ "cancel" \in set /\ Kill
       /\ At(u, "callCancel", "dropCancel")
       /\ UNCHANGED <<isRunning, set, alloc, timer, holder, permits, work, panics>>
    \/ pc[u] = "callCancel" /\ "cancel" \notin set /\ Panic(u)
DropCancel(u) == Drop(u, "cancel", "dropCancel", "checkAlloc")

\* The allocator's ends the browser of a context that was made from it, and
\* any that will be.
CheckAlloc(u) == Check(u, "allocCancel", "checkAlloc", "callAlloc", "clear")
CallAlloc(u) ==
    \/ /\ "allocCancel" \in set
       /\ IF alloc = "used" THEN Kill /\ UNCHANGED alloc ELSE alloc' = "dead" /\ UNCHANGED browser
       /\ At(u, "callAlloc", "dropAlloc")
       /\ UNCHANGED <<isRunning, set, timer, holder, permits, work, panics>>
    \/ pc[u] = "callAlloc" /\ "allocCancel" \notin set /\ Panic(u)
DropAlloc(u) == Drop(u, "allocCancel", "dropAlloc", "clear")

\* Three writes, whatever there is by now: once the flag is down, a start may
\* come between it and the others.
ClearRunning(u) ==
    /\ At(u, "clear", "clearCtx")
    /\ isRunning' = FALSE
    /\ UNCHANGED <<set, browser, alloc, timer, holder, permits, work, panics>>
ClearCtx(u) == Drop(u, "ctx", "clearCtx", "clearAlloc")
ClearAllocCtx(u) ==
    /\ At(u, "clearAlloc", AfterStop(u)) /\ Unlock(u)
    /\ set' = set \ {"allocCtx"}
    /\ UNCHANGED <<isRunning, browser, alloc, timer, permits, work, panics>>

------------------------------------------------------------------------------
(* The start strategies *)

\* A strategy finds that someone else has started Chrome.
FindRunning(u) ==
    /\ isRunning /\ Free
    /\ At(u, "lock", "confirm")
    /\ UNCHANGED <<chrome, timer, holder, permits, work, panics>>

\* Faulty: it does not look again under the lock.
LockUnchecked(u) ==
    /\ Free
    /\ At(u, "lock", "alloc") /\ holder' = u
    /\ UNCHANGED <<chrome, timer, permits, work, panics>>

Lock(u) ==
    /\ ~isRunning /\ Free
    /\ At(u, "lock", "alloc") /\ holder' = u
    /\ UNCHANGED <<chrome, timer, permits, work, panics>>

\* tryStartWithOptions: an allocator, a context made from it, and the context
\* of the test made from that; what an earlier try has left is overwritten.
NewExecAllocator(u) ==
    /\ At(u, "alloc", "context")
    /\ set' = set \cup {"allocCtx", "allocCancel"} /\ alloc' = "fresh"
    /\ UNCHANGED <<isRunning, browser, timer, holder, permits, work, panics>>

NewContext(u) ==
    \/ /\ "allocCtx" \in set
       /\ At(u, "context", "limit")
       /\ set' = set \cup {"ctx", "cancel"} /\ alloc' = "used"
       /\ browser' = IF alloc = "dead" THEN "dead" ELSE "alive"
       /\ UNCHANGED <<isRunning, timer, holder, permits, work, panics>>
    \/ pc[u] = "context" /\ "allocCtx" \notin set /\ Panic(u)

LimitTest(u) ==
    \/ /\ "ctx" \in set
       /\ At(u, "limit", "test")
       /\ UNCHANGED <<chrome, timer, holder, permits, work, panics>>
    \/ pc[u] = "limit" /\ "ctx" \notin set /\ Panic(u)

TestPasses(u) ==
    /\ browser = "alive"
    /\ At(u, "test", "confirm")
    /\ isRunning' = TRUE
    /\ holder' = Nobody
    /\ UNCHANGED <<set, browser, alloc, timer, permits, work, panics>>

\* The test fails, and with its context the browser ends (external); the
\* next strategy follows, or there is none left.
Fail(u) ==
    /\ pc[u] = "test"
    /\ browser' = "dead"
    /\ tries' = [tries EXCEPT ![u] = (@ + 1) % Strategies]
    /\ pc' = [pc EXCEPT ![u] = IF tries[u] < Strategies - 1 THEN "lock" ELSE IF u = Boot THEN "over" ELSE "idle"]
    /\ warm' = [t \in Tasks |-> warm[t] /\ pc'[t] # "idle"]
    /\ UNCHANGED <<isRunning, set, alloc, timer, permits, usage, panics>>

\* Faulty: the lock is kept.
TestFailsLocked(u) == Fail(u) /\ UNCHANGED holder

TestFails(u) == Fail(u) /\ holder' = Nobody

\* startInternal writes isRunning once more, without the lock; Start does not.
Confirm(u) ==
    /\ pc[u] = "confirm"
    /\ IF u = Boot
       THEN pc' = [pc EXCEPT ![u] = "over"] /\ UNCHANGED <<isRunning, warm>>
       ELSE /\ pc' = [pc EXCEPT ![u] = IF warm[u] THEN "disarm" ELSE "permit"]
            /\ isRunning' = TRUE
            /\ warm' = [warm EXCEPT ![u] = FALSE]
    /\ tries' = [tries EXCEPT ![u] = 0]
    /\ UNCHANGED <<set, browser, alloc, timer, holder, permits, usage, panics>>

------------------------------------------------------------------------------
(* The idle timer *)

\* resetIdleTimer stops the timer that cu.idleTimer leads to, if there is one ...
Disarm(t) ==
    /\ At(t, "disarm", IF idleTimer # "nil" THEN "unarm" ELSE "arm")
    /\ UNCHANGED <<chrome, timer, holder, permits, work, panics>>

StopOld(t) ==
    \/ /\ idleTimer # "nil" /\ idleTimer' = "spent"
       /\ At(t, "unarm", "arm")
       /\ UNCHANGED <<chrome, stray, holder, permits, work, panics>>
    \/ pc[t] = "unarm" /\ idleTimer = "nil" /\ Panic(t)

\* ... and sets another; one set by someone else in between goes astray
\* (bound: two that are astray count as one).
Arm(t) ==
    /\ At(t, "arm", "permit")
    /\ idleTimer' = "pending"
    /\ stray' = (stray \/ idleTimer = "pending")
    /\ UNCHANGED <<chrome, holder, permits, work, panics>>

\* Bound: a timer that expires while another one's goroutine is under way waits
\* for it.
Expire ==
    /\ At(Closer, "idle", "want")
    /\ \/ idleTimer = "pending" /\ idleTimer' = "spent" /\ UNCHANGED stray
       \/ stray /\ stray' = FALSE /\ UNCHANGED idleTimer
    /\ UNCHANGED <<chrome, holder, permits, work, panics>>

\* Stop gets cu.mu.
LockToStop ==
    /\ Free
    /\ At(Closer, "want", "halt")
    /\ holder' = Closer
    /\ UNCHANGED <<chrome, timer, permits, work, panics>>

------------------------------------------------------------------------------
(* GetContext and the task *)

TakePermit(t) ==
    /\ At(t, "permit", "enter")
    /\ permits < MaxConcurrent
    /\ permits' = permits + 1
    /\ UNCHANGED <<chrome, timer, holder, work, panics>>

\* 30 seconds without a permit.
GiveUp(t) ==
    /\ At(t, "permit", "idle")
    /\ permits = MaxConcurrent
    /\ UNCHANGED <<chrome, timer, holder, permits, work, panics>>

\* Faulty: the permit is kept.
FindStoppedKeepsPermit(t) ==
    /\ NotWritten
    /\ ~isRunning \/ "ctx" \notin set
    /\ At(t, "enter", "idle")
    /\ UNCHANGED <<chrome, timer, holder, permits, work, panics>>

\* Chrome is not there any more.
FindStopped(t) ==
    /\ NotWritten
    /\ ~isRunning \/ "ctx" \notin set
    /\ At(t, "enter", "idle")
    /\ permits' = permits - 1
    /\ UNCHANGED <<chrome, timer, holder, work, panics>>

\* It is there, cu.mu is held for reading ...
Enter(t) ==
    /\ NotWritten /\ isRunning /\ "ctx" \in set
    /\ At(t, "enter", "attach")
    /\ UNCHANGED <<chrome, timer, holder, permits, work, panics>>

\* ... and the task gets a context; the use is counted a second time.
Attach(t) ==
    \/ /\ "ctx" \in set
       /\ At(t, "attach", "run")
       /\ usage' = usage + 1
       /\ UNCHANGED <<chrome, timer, holder, permits, warm, tries, panics>>
    \/ pc[t] = "attach" /\ "ctx" \notin set /\ Panic(t)

\* The task is over, with a screenshot or without: the page fails, the
\* timeout passes, or the browser has gone.  The permit is given back.
Finish(t) ==
    /\ At(t, "run", "idle")
    /\ permits' = permits - 1
    /\ UNCHANGED <<chrome, timer, holder, work, panics>>

\* External: the browser dies, and chromedp ends its context.
Die ==
    /\ browser = "alive" /\ browser' = "dead"
    /\ UNCHANGED <<isRunning, set, alloc, timer, holder, permits, work, pc, panics>>

------------------------------------------------------------------------------
Stop(u) ==
    /\ pc[u] \in {"halt"} \cup Stopping
    /\ \/ StoppedAlready(u) \/ BeginStop(u) \/ CheckTimer(u) \/ StopTimer(u) \/ DropTimer(u)
       \/ CheckCancel(u) \/ CallCancel(u) \/ DropCancel(u)
       \/ CheckAlloc(u) \/ CallAlloc(u) \/ DropAlloc(u)
       \/ ClearRunning(u) \/ ClearCtx(u) \/ ClearAllocCtx(u)

Start(u) ==
    /\ pc[u] \in {"lock", "confirm"} \cup Starting
    /\ \/ FindRunning(u) \/ Lock(u) \/ NewExecAllocator(u) \/ NewContext(u) \/ LimitTest(u)
       \/ TestPasses(u) \/ TestFails(u) \/ Confirm(u)

StartWithAutoMode(t) ==
    /\ pc[t] \in {"ensure", "health", "present", "done", "decide", "start"}
    /\ \/ EnsureStarted(t) \/ IsHealthy(t) \/ ContextPresent(t) \/ ContextDone(t)
       \/ Decide(t) \/ StartInternal(t)

ResetIdleTimer(t) ==
    /\ pc[t] \in {"disarm", "unarm", "arm"}
    /\ Disarm(t) \/ StopOld(t) \/ Arm(t)

GetContext(t) ==
    /\ pc[t] \in {"permit", "enter", "attach", "run"}
    /\ TakePermit(t) \/ GiveUp(t) \/ Enter(t) \/ Attach(t) \/ FindStopped(t) \/ Finish(t)

Step(t) == StartWithAutoMode(t) \/ Stop(t) \/ Start(t) \/ ResetIdleTimer(t) \/ GetContext(t)

\* A stop is under way, and somebody else in one, or between the statement that
\* has found or made a context or a timer and the one that uses it.
Relying == Stopping \cup {"context", "limit", "done", "attach", "unarm"}
Meeting == \E u \in Users : pc[u] \in Stopping /\ \E v \in Users \ {u} : pc[v] \in Relying
Remember == met' = (met \/ Meeting')

Close == LockToStop \/ Stop(Closer)

Next ==
    \/ \E t \in Tasks : (Call(t) \/ Step(t)) /\ Remember
    \/ Start(Boot) /\ Remember
    \/ Close /\ Remember
    \/ (Expire \/ Die) /\ Remember

\* Whoever has been called goes on, and each of these steps moves pc: the test of
\* a browser and the pages have timeouts, and a task gets a mutex that is free
\* again and again.
Fairness ==
    /\ \A t \in Tasks : SF_pc(Step(t))
    /\ WF_pc(Start(Boot))
    /\ WF_pc(Close)

Safety == Init /\ [][Next]_vars
Spec == Safety /\ Fairness

------------------------------------------------------------------------------
(* Properties *)

\* A permit is taken exactly by the tasks between GetContext and their end,
\* by every way out and through every retry; only a panic between the check
\* of cu.ctx and its use loses one.
PermitsBalance == ~Crashed => permits = Cardinality(Holders) + leaked

\* Whether a function of cu still ends the browser.
Owned == "cancel" \in set \/ ("allocCancel" \in set /\ alloc = "used")

Forgets ==
    /\ browser = "alive"
    /\ (browser' = "alive" /\ ~Owned') \/ \E u \in Users : pc[u] = "context" /\ pc'[u] = "limit"

\* As long as no stop meets another, or somebody between finding or making a
\* context or a timer and its use, nobody panics, and no live browser is
\* forgotten or overwritten.
AloneIsSafe == [][Forgets \/ panicked' => met']_vars

\* A call ends, whatever the starts, the timer and the other tasks do.
EveryCallEnds == \A t \in Tasks : pc[t] = "ensure" ~> pc[t] = "idle" \/ Crashed

\* A healthy Chrome: running, and its context is not done.
Healthy == isRunning /\ "ctx" \in set /\ browser = "alive"

\* A Chrome that is said to run and does not is put right by the next call,
\* unless a panic ends that before it has done so.
DeadChromeReplaced ==
    isRunning /\ ~Healthy /\ (\E t \in Tasks : pc[t] = "ensure")
        ~> ~isRunning \/ Healthy \/ panicked
==============================================================================
