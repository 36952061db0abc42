# whosee-server in TLA+

whosee-server is a Go web service that answers WHOIS, RDAP, DNS and screenshot
requests. This directory holds a specification of the parts of it in which
goroutines, requests or lives of the process meet: the fetching of Chrome before
the start, the rate limits and tokens, the circuit breaker, the worker pool and
the requests on it, the health checks, the end of the process, the WHOIS manager,
the two tools that share one headless Chrome between requests, and both ways to
a screenshot. TLC checks each of them on a small instance, and TLAPS proves most
of their safety properties for instances of every size.

Paths in this file are those of the repository; `file.go:12` is a line.

## 1. The system and its parts

    start of the process                            main.go
      -> finds or fetches a Chrome                  utils/chrome_downloader.go
      -> first health check, then listens           services/container.go
    HTTP request
      -> white list, token, domain, rate limit      middleware/auth.go, services/rate_limiter.go
      -> asyncWorkerMiddleware                      routes/routes.go
           context with deadline, two channels
      -> handler                                    handlers/api.go
           submits a task, waits for result, error or deadline
      -> worker pool                                services/worker_pool.go
           -> WHOIS manager -> providers            services/whois_manager.go
           -> DNS, RDAP clients
           -> older screenshot handlers             handlers/screenshot.go
                -> breaker -> Chrome tool           utils/chrome.go
    HTTP request on /screenshot
      -> unified handler                            handlers/screenshot_new.go
      -> screenshot service -> Chrome manager       services/screenshot_service.go, chrome_manager.go
           (validation, cache, breaker, permits)
    health checker, in the background               services/health_checker.go
           asks providers, DNS servers and Chrome, keeps the last results
    signal -> shutdown goroutine                    main.go, services/container.go

| Component | State | Operations | Hard because |
|---|---|---|---|
| Circuit breaker | state, failures in a row, time of the last failure, one RWMutex | AllowRequest, RecordResult, Execute, GetState | AllowRequest gives its read lock up before it takes the write lock; results come back after the state has moved on |
| Worker pool | a channel of 2 x workers tasks, a wait group | Start, Submit, SubmitWithContext, Stop | Stop closes the channel under submitters; the queue is bounded; nothing recovers in a worker |
| Asynchronous requests | a context, a result and an error channel per request | middleware, the five handlers, their tasks | the deadline races the result; the channels are closed under a task that goes on |
| Process lifecycle | the shutdown goroutine, the container | signal, Shutdown, srv.Shutdown, return of main | requests arrive while services go away one after the other |
| WHOIS manager | per provider: available, errors in a row, last used; one RWMutex | Query, QueryWithProvider, TestProvidersHealth, selectProvider, status | decisions on copies of the status; late answers; a health check that writes old copies back |
| Chrome manager | isRunning (atomic), contexts, a semaphore of permits, stats; two mutexes | Start, Stop, Restart, GetContext, ensureRunning, idle monitor, GetStats, OnSuccess/OnFailure | isRunning is read without the lock, twice; Chrome is stopped under tasks; two mutexes in two orders |
| Screenshot service | cache in Redis, files, one tab for up to three tasks, the Chrome manager's breaker | TakeScreenshot and its four kinds | tasks drive one tab; a file is named long before it is written; two places ask the breaker, and every response is recorded |
| Older Chrome tool | isRunning, contexts, idle timer, semaphore; one RWMutex that most steps do not take | EnsureStarted, GetContext, Start, stopInternal, resetIdleTimer | unlocked check-then-act; a timer callback that stops Chrome |
| Older screenshot handlers | two breakers, cache in Redis, files | AsyncScreenshot, Screenshot, ScreenshotBase64Handler, and seven for ITDog | retries that hold permits, file names drawn twice from the clock, a breaker asked twice |
| Health checker | a map of last results, one RWMutex | Start, ForceRefresh, RunHealthCheck, Stop, GetHealthStatus | checks run two at a time; until one has ended a request is handed the live map, and serialises it without the lock |
| Rate limits, authentication | in Redis: a counter of tokens, nonces, a sorted set of requests per address | GenerateToken, AuthRequired, Allow | several Redis commands to a decision, none of them in a transaction; times to live, some of them in whole seconds |
| Chrome downloader | the directory chrome_runtime, which outlives the process, and a cached path | EnsureChrome, GetChromeExecutablePath | ten sources, three attempts each, two layouts of archives, extraction over what is there, and a process killed anywhere |
| Other middleware, WHOIS handlers, providers, utilities | none that is shared | | left out, section 7 |

What makes each part correct:

- breaker: only a run of failures trips it, a count never outlives the state it
  belongs to, and an outage ends;
- worker pool: an accepted task runs exactly once, and Stop waits for all;
- requests: every request is answered, with what its own task sent, and what is
  refused never runs;
- lifecycle: Redis and Chrome outlive the last task, and the process ends;
- health checker: no request reads a map that a check may write into;
- gate: a token lets one request in, and neither tokens nor requests exceed their
  number per minute, whatever the Redis commands of others come in between;
- downloader: a complete Chrome is never spoilt, an incomplete one is reported
  only where an extraction was cut short, later searches find the same, and the
  start of the server does not hang;
- screenshot service: an answer leads to a picture that exists, of the page that
  was asked for;
- WHOIS manager: a query always ends, never finds "no provider" but by a race,
  and a provider that failed is tried again;
- both Chrome tools: permits are taken by exactly those who hold one, a browser
  that is alive is always the one the tool leads to, a request ends whatever
  becomes of Chrome, and a dead Chrome is replaced;
- older screenshot handlers: what a successful answer or a cache entry names has
  been written, the breaker opens for requests that failed and for nothing else,
  and every round of a run gives its permit back.

How they interact: requests of one address meet in the keys Redis has for it,
before any handler; a handler and its task share two channels and a context; all
tasks of the pool share the WHOIS manager and the older Chrome tool; both
screenshot ways have breakers of their own, and their own Chrome, whose binary
the downloader has left on disk; the health checker calls the WHOIS manager's
TestProvidersHealth, and the server listens only when its first check is over;
the shutdown goroutine stops the pool under all of them.

## 2. Modules

    BreakerContract          what a breaker promises (abstract)
    CircuitBreaker           implements BreakerContract
      ScreenshotBreaker      EXTENDS it: how screenshots use the breaker
      LegacyScreenshot       EXTENDS it: the older screenshot handlers
        LegacyScreenshotProofs    of both
    WorkerPool               the pool, and what it promises of any tasks
      AsyncRequest           EXTENDS it: requests whose tasks run there
        Lifecycle            EXTENDS it and HealthChecker: the process
          LifecycleProofs    of all four
    HealthChecker            the checks and the health request
    WhoisManager           <- WhoisManagerProofs
    ChromeManager          <- ChromeManagerProofs
    ScreenshotService      <- ScreenshotServiceProofs
    Gate                   <- GateProofs
    ChromeDownloader       <- ChromeDownloaderProofs
    ChromeUtil             <- ChromeUtilProofs
    PermitContract           what a channel of permits promises (abstract);
                             ChromeManager, ChromeUtil, LegacyScreenshot implement it
    MC<module>               one for each module that TLC is given

Conventions. One action is one critical section of the code, or, where the code
takes no lock, one read or write of shared state. `pc` says where a goroutine is.
A variable commented "history" is not in the code: it remembers what happened for
a property, and no guard reads it. A definition commented "Faulty" is a plausible
bug of the definition that follows it; nothing uses it, and each property has one
it would catch. A panic in a goroutine that nothing recovers ends the process
(`crashed`, `"over"`).

### CircuitBreaker and BreakerContract: services/circuit_breaker.go

`state`, `failureCount` and `age` (the ticks since `lastFailureTime`) are the
fields. `Admit`, `Reject`, `SeeExpiry` and `HalfOpen` are the branches of
AllowRequest, the last two being the two critical sections between which the
caller holds no lock. `RecordSuccess` and `RecordFailure` are the branches of
RecordResult; `Abandon` is an Execute left by a panic, or a caller that never
records. BreakerContract is the automaton of docs/SCREENSHOT_REFACTOR.md with
neither clock nor callers, and is what `ImplementsContract` refines to
(`failures <- failureCount`), its liveness included.

ScreenshotBreaker adds what the unified handler does: it records a failure for
any response without success, those that the breaker itself refused included,
and GetContext asks the breaker a second time.

### WorkerPool, AsyncRequest, HealthChecker, Lifecycle

WorkerPool has the channel (`queue`, `closed`), the goroutines (`worker`) and the
caller of Stop. `Submit`, `Refuse` and `SubmitPanics` are the outcomes of
SubmitWithContext: select may refuse for the context although there is room, and
a send on a closed channel panics. AsyncRequest adds for each request its handler
goroutine (`pc`, `answer`), its context (`expired`) and its channels (`open`,
`sent`). The middleware always closes both channels when the handler is back
(`CloseResults`, `CloseErrors`): the flag that would keep it from doing so is
never set. `Finish` is the end of a task, a send that panics on a closed channel;
`PanicElsewhere` is any other panic that nothing recovers: the nil function that
the task of an ITDog screenshot, the health check or the idle timer may call in
ChromeUtil, or the nil provider of a WHOIS query. It is let happen at any time,
for what brings it about is those modules' matter. `crashed` tells the two apart.
HealthChecker has the three checks there are: `"first"`, which Start makes before
it returns, `"refresh"`, the goroutine of the container, and `"periodic"`, the
loop. A check is two steps, for the mutex is taken twice: `StoreWhois` writes into
lastCheckResults, and `PublishServices` stores the map of all services in it.
`status` says which of the two maps a health request is turning into JSON; one
request at a time stands for any, since they only read.
Lifecycle adds main and the shutdown goroutine: the server listens when Start is
back, and in the end go the pool, then health checker, Redis and Chrome, then the
listener, and the process is gone at any time after that, for main returns as
soon as ListenAndServe does. Requests without an answer are lost then.

### WhoisManager: services/whois_manager.go

`isAvailable`, `errorCount` and `cooled` (the five minutes since `lastUsed`) are
the status of the providers. `List`, `Select` and `WriteBack` are the three
critical sections of Query and selectProvider before it waits; `GetResponse`,
`GetFailure`, `GetLastFailure` and `TimeOut` are the select in its loop.
QueryWithProvider disables at three errors, Query at two. A health check is
`BeginCheck`, which copies the status, and one `TestPasses` or `TestFails` per
provider, which writes the old copy of it back whole.

### ChromeManager: services/chrome_manager.go, services/screenshot_service.go

`starter` holds cm.mu across a Start, which is the only thing that waits under
it; `reading` are the GetStats calls inside stats.mu. `ReadRunning`,
`CheckHealth`, `Decide` and `Stop` are ensureRunning step by step, then
`FindStarted` .. `CountRestart` are Start, `Deny` .. `Release` are GetContext,
the screenshot and wrappedCancel. `Admins` are restarts by hand, `Monitors` the
idle monitors (each Start makes one), and `ChromeDies` the outside world.

### ChromeUtil: utils/chrome.go

The automatic mode, the only one the program sets. cu.mu is taken for one start
strategy, by Stop, and for reading in IsHealthy and at the end of GetContext; the
rest of EnsureStarted and stopInternal takes no lock, and neither does
resetIdleTimer. So an action is one statement that reads or writes a field, with
the lock or unlock beside it: `CheckTimer`, `StopTimer`, `DropTimer`, then
`CheckCancel`, `CallCancel`, `DropCancel` and the same for the allocator, then the
three writes `ClearRunning`, `ClearCtx`, `ClearAllocCtx` are stopInternal (lines
414-453); `Disarm`, `StopOld` and `Arm` are resetIdleTimer, of which `Arm` makes
the timer that another caller may lose. `NewExecAllocator`, `NewContext` and
`LimitTest` are the three places of tryStartWithOptions where another's stop can
be met. A Go assignment of two results (`cu.ctx, cu.cancel = ...`) is one step.
`set` says which pointers are not nil, `browser` and `alloc` what became of the
context and the allocator made last.

A nil function that is called, or a nil context or timer that is used, panics
(`Panic`). gin.Recovery ends the request of a handler goroutine, whose permit is
then lost (`leaked`) if it had one; in a worker, a health check, the start in the
background or a timer it ends the process. `Relying` is where somebody is between
the statement that has found or made a pointer and the one that uses it, `met`
remembers that a stop was under way while another stop was, or somebody relied.

### PermitContract: the channels of permits of both Chrome tools

Both tools bound their tasks by a buffered channel, on which a task sends one
value when it is let in and from which it receives one on its way out
(services/chrome_manager.go:246, :258, :273; utils/chrome.go:485, :495, :511).
`permits` is what is in the channel, `holders` are the tasks that owe a receive.
A receive is only a step of the contract when the channel is not empty: one too
many would wait for ever, or take the value of another task. There are four ways
out of GetContext and of a round, and retries that come back to it; the proof
modules map their places to `holders` (section 5).

### ScreenshotService: services/screenshot_service.go, handlers/screenshot_new.go

`at` is the place of a request in TakeScreenshot: validated, named
(`GenerateConfig`), looked up, in Chrome (`GetContext` .. `Capture`), saved or
encoded, cached. A page is what buildCacheKey tells apart; pages that are `Alike`
are those for which buildFilePaths makes one name. Every context GetContext gives
out is made from one chromedp context, and chromedp drives the tab that belongs
to it: `tab` is what that tab shows, and `live` whose context is of the Chrome
that runs. How Chrome comes and goes is ChromeManager's matter and is
`ChromeStops` here, at any time; who asks and tells the breaker is
ScreenshotBreaker's, and here `NoContext` may always happen.

### Gate: middleware/auth.go, services/rate_limiter.go, routes/routes.go

One address, for addresses share no key. `Incr`, `Expire` and `Sign` are
GenerateToken, `ParseToken` and `SetNonce` AuthRequired, and `ZRem` .. `ZExpire`
the commands of the pipeline of Allow, each an action; a failed call may have had
its effect or not, and commands go on when the caller has given up (`AllowFails`,
which lets the request through, as rateLimitMiddleware does). `now` counts ticks,
`Second` of them to a second: the expiry of a token is cut to seconds, the times
to live of keys are not. The sets `counted` and `zset` hold who was counted where
the code has a number and timestamps.

### ChromeDownloader: utils/chrome_downloader.go

`disk` has for each directory the search knows what code or browser can tell
apart: nothing, a file that fails validation, an executable whose other files are
missing, a Chrome. It, `zip` and the history `cut` survive `Crash`; the rest is
memory. The search (`possiblePaths`, `findChrome`, `PathAfterLook`), the mapping of
platforms and the lists of sources are pure operators. `Check` is the first look;
`Download*` are the outcomes of an attempt; `OpenFails` .. `ExtractFails` follow an
extraction file by file, as far as the executable is concerned; `LookAgain` is
the look after it.

### LegacyScreenshot: handlers/screenshot.go, screenshot_api.go, async_handlers.go

The requests for one domain, as the routes of routes/screenshot_routes.go lead to
them; the middleware has refused what is no domain. `route` is what is asked
for, `at` the place of the goroutine. The breaker is the one of CircuitBreaker,
whose caller a request is: `Ask` is the AllowRequest that the handlers begin
with, `AskAgain` the one of Execute, and one result is recorded for both
(`RunSucceeds`, `RunFails`), or none. The site and the ITDog routes have
breakers of their own and share nothing, so that a behaviour has one of the two
families. The ITDog runs take permits of the Chrome tool; how that tool comes by
a browser is ChromeUtil's matter, and here GetContext gives a permit (`OpenPage`)
or does not (`NoContext`). Each handler for the site or in `Direct` starts a
Chrome of its own. `cache` and `files` are what requests leave behind for later
ones: a FileURL, drawn from the clock in `NameUrl`, is good if the file of
`NamePath` has the same name.

## 3. What TLC checks

A `pass` run finishes without an error; a `violation` run checks one property that
a document, a comment or a test of the repository states, and TLC finds it false
of what the code does (section 6).

| Run | Instance | Shows |
|---|---|---|
| CircuitBreaker | 3 callers, threshold 2, timeout of 1 tick | `CountIsRun`: no late result leaves a count behind that belongs to another state. `TripsOnlyAfterRun`: a closed breaker trips only after a run of failures. `ImplementsContract`: the automaton is refined, and outages end |
| AsyncRequest | 3 requests, 1 worker (queue of 2) | `OnlyTimeoutsCloseEarly`: channels are closed under a task only after a 504. `RefusedNeverRuns`, `AnswerIsFromTask`. `EveryRequestAnswered`, although every worker may hang |
| Lifecycle | 2 requests, 2 workers, the 3 health checks | `TaskInOnePlace`: no task is lost or run twice. `ServicesOutliveTasks`: Redis and Chrome go after the last task. `StatusNotWritten`: no health request serialises the map that checks write into. `ShutdownCompletes` |
| WhoisManager | 2 providers, one query, one direct query, one health check | `NilNeedsRace`: selectProvider finds nothing only if another disabled a provider meanwhile. `EveryQueryEnds`, though nobody answers. `DisabledComesBack`, unless all are disabled |
| ChromeManager | 2 tasks for 1 permit, 1 restart, 1 monitor | `PermitsBalance`, `OneChrome`, `FoundStoppedWasStopped`: permits, browsers and the flag agree through every failure. `EveryRequestEnds`, `DeadChromeCleanedUp` |
| ChromeUtil | 2 tasks for 1 permit, start in the background, idle timer, 2 start strategies, calls until Chrome has been used twice | `PermitsBalance`: only a panic between check and use of the context loses a permit. `AloneIsSafe`: a live browser is forgotten, or a nil function or pointer used, only if a stop has met another one, or somebody who relies on a pointer. `EveryCallEnds`, `DeadChromeReplaced` |
| LegacyScreenshot | 2 requests of one family, 1 permit, 2 retries, 2 seconds, threshold 1 | `PictureUnlessTorn`: a successful answer leads to a picture, but for the two ways of section 6. `OpenMeansFailures`: neither rounds nor hits nor refusals count as failures. `PermitsBalance`, whichever way a round ends. `LegacyContract`: asking twice keeps to the automaton. `EveryRequestAnswered` |
| ScreenshotService | 3 requests, 3 pages of which 2 share file names, 2 permits, 2 seconds | `PictureOfRequest`: an answer, cached or not, leads to a picture taken for its page, unless a file name was drawn twice. `AloneShowsOwnPage`: a picture of another page is that of a request in Chrome at the same time |
| Gate | 2 token calls, 2 requests, limits of 1, windows of 2 ticks, 6 points in time | `TokenOnce`: a token lets a second request in only if its nonce was stored after the token had expired. `TokenBound`, `WindowBound`: the numbers per minute hold, but for entries that Redis dropped before their EXPIRE |
| ChromeDownloader | 7 kinds of host, at most 6 sources, 2 attempts, 2 starts | `GoodChromeKept`: no start spoils a complete Chrome, at any crash. `WholeUnlessCut`, `LaunchersAgree`: what EnsureChrome reports is complete, unless its extraction was cut short, and is what later searches find. `StartEnds` |
| ScreenshotBreaker | 1 client, threshold 1 | violates `OutageEnds` |
| ChromeManagerStatus | 1 task, 1 status request | violates `StatusAnswered` |

The type invariants (`TypeOK`) are checked with AsyncRequest, WhoisManager and Gate,
where old copies or clocks could leave their range; they and those of the other
modules are part of the invariants of section 5.

Why the bounds are enough. Three callers of the breaker are one in the gap of
AllowRequest and two that trip the breaker and close it again under that one; a
threshold of 2 is the least at which a run and a single failure differ. Three
requests on one worker are one that runs, and two that fill the queue; a fourth
would only be refused as a third on a full queue is (with two in the queue before
the worker takes one). Two providers are one that is disabled and one that is
left; a second query would meet nothing that a query, a direct query and a check
do not do to each other already. Two tasks for one permit are one that has it and
one that waits, and either can find Chrome stopped by the other, by a restart or
by a monitor. In ChromeUtil calls begin until two uses are counted, one when a
call begins and one when its task gets a context: so a call may follow one that
failed, or meet another anywhere before its task has its context, with Chrome
running, dead or half cleared, and use becomes frequent (`Frequent` is 1 there).
Two strategies are one that fails and one that is next; four differ in flags of
the browser only. Two requests on the older routes are one that has stored an
entry, holds the permit or trips the breaker, and one that finds it so, between
its two questions or before; two seconds are one turn of the clock. Retries are
the two of the code.

Three requests of the screenshot service are one that makes a picture, one that
writes over its file, and one that is given the cached entry; or two with a
permit, which is enough to share the tab, and one that waits. Two requests at the
gate with limits of 1 are one within and one beyond; six points in time are more
than two windows, a token's life and one second more, so that every key expires
and is made again. One directory that is complete and one that is cut
short are enough for a search to prefer either; the hosts are one of each kind
that the tables of the downloader tell apart, WSL, a container and an unknown
system among them; two starts are one that is killed and one that finds what it
left. ScreenshotService and Gate, which have no temporal properties, are checked
up to a permutation of requests, of calls, and of the pages that are alike.

Bounds in the modules: `Expired` ends the count of ticks where no reading can
tell a difference; `run` is counted up to the threshold, `errorCount` up to
`DirectRetries`; `MaxUses` ends the calls of ChromeUtil; `MaxChecks` bounds the health
checks of a goroutine, `Monitors` the idle monitors that are followed,
`Strategies` the start strategies; two timers astray count as one, and a timer
that expires while another one's Stop is under way waits for it. `MaxTime` and
`MaxSecond` end the time, `MaxBoots` bounds the starts of the process, `GithubMax`
and `Mirrors` the sources of one kind. The tasks of the pool are submitted once
each, and so are requests and calls elsewhere.

Where a cfg turns the deadlock check off, the process may end in it: by a panic,
a shutdown, or a deadlock that is the finding.

## 4. Fairness

- CircuitBreaker: time passes (`Tick`), traffic keeps arriving (`SeeExpiry`, of
  any caller), and who waits for the write lock gets it. Nothing is assumed of
  the operations: they may hang.
- ScreenshotBreaker: the same, and a request in hand is recorded, for all that
  happens in between has a timeout.
- AsyncRequest: handlers go on when they can and deadlines pass. Workers may
  hang for ever.
- Lifecycle: workers go on and tasks return, for queries, lookups and Chrome
  runs have time limits; so does the shutdown goroutine. Nothing is assumed of
  the requests.
- WhoisManager: time passes, queries keep arriving, and a query goes on. A
  provider need never answer, a direct query or a health check never end.
- ChromeManager: requests arrive and go on, as StartupTimeout and the timeout of
  a task bound every wait on the browser. Taking cm.mu is strongly fair: a Go
  mutex that is free again and again is got. Restarts go on once begun; none need
  begin, and idle monitors need never look.
- ChromeUtil: a task goes on, strongly fair for the same reason; the start in the
  background and the timer's goroutine go on weakly. Each of these steps moves
  `pc`, which is what fairness is stated of (`SF_pc`, `WF_pc`). No call, no timer and no
  death of a browser is assumed.
- ChromeDownloader: every step of EnsureChrome is bounded by a timeout, so that
  it goes on unless the process is killed; none need be killed or started again.
- ScreenshotService, Gate: none. Their properties are safety, and who goes on is
  settled by ChromeManager and AsyncRequest.
- LegacyScreenshot: a request goes on. Every Chrome run has a deadline, and
  GetContext gives up when there is no permit, so nothing else is waited for. The
  clocks of breaker and file names and the expiry of entries need never move.

## 5. What is proved

Every theorem is checked by TLAPS for any values of the constants under the named
assumption of its module (thresholds and pool sizes are positive, the sets of
tasks are finite where they are counted, names of roles differ).

- **LegacyScreenshotProofs, the breaker**. `IInv` is the type invariant with
  `CountMatchesState` and `CountIsRun`. Neither stands alone: that a half-open
  breaker's failure opens it with the count at the threshold needs the equivalence
  of state and count, and the run is tied to the count only while closed. From it:
  `Counting`; `Trips`, the action property; and `Refines`, that the initial state
  and every step map to the contract, a late result of an open breaker to a
  stutter.
- **LifecycleProofs**, of the pool, the requests, the health checks and the
  process. `PoolIInv` is type, `TaskInOnePlace` and that a stopped pool has its
  channel closed and its exited workers an empty queue. A worker exits only on an
  empty closed channel, to which nothing is added, hence `Drains`; `OnePlace` is
  in the invariant itself. Every step of a request is a step of the pool or leaves
  it alone (`StepOfPool`), so that this carries over. `HandlerInv` ties the place
  of the handler to the answer, the channels and what the pool has accepted. From
  it `TypeCorrect`, `LateSendOnlyAfterTimeout`,
  `LateSendCrashNeedsTimeout` (of that panic only: one elsewhere in a worker needs
  no 504), `AnswersMatchTasks` and `RefusedLeaveNoTask`. A step of the process is one of
  the requests or leaves them alone (`StepOfRequests`); `LifeInv` adds that from
  "drained" on Stop has returned, and with `StopDrains` that is `OrderlyShutdown`.
  `HealthInv` says that the other checks begin, and requests come, only when the
  first check is over and the map of services therefore there
  (`HealthStatusSafe`). `PoolWork` counts the steps that workers have left: once
  the channel is closed every step of theirs lowers it and nothing raises it
  (`StopIsBounded`).
- **WhoisManagerProofs**. `NilNeedsRace` needs `ListedAvailable` (between list and
  select some provider is still available unless one was disabled since) and
  `ScoredSelected` (a query that has scored has a provider). The step of a status
  write is one lemma for the four actions that make one. `StatusTypes` says that
  none of the old copies that are written back leaves the bounds of a status.
  `QueryIsBounded`: a waiting query has somebody left to hear from, and hears from
  each provider once. `DisablingIsEarned`: whatever late answers and checks write
  over each other, a provider in use stays below the limit of a direct query, and
  goes out of use only with two errors counted or by a health check, whose old
  copies make the exception necessary (section 6).
- **ChromeManagerProofs**. Two invariants. `PermitInv` counts those who hold a
  permit; each action either leaves that set alone, or adds or removes one, and
  the lemmas on cardinality do the rest (`PermitsNeverLeak`). So every step is one
  of PermitContract, or a stutter (`PermitsRefine`). `LockInv` says what holds
  inside Start, by place, and what holds when cm.mu is free, and with `OneChrome`
  is inductive (`ChromeHasOwner`, `NotRunningWasStopped`). From `LockInv` also
  `NoCircularWait`: as long as no status request is inside stats.mu, who waits for
  cm.mu or stats.mu waits for somebody who does not. The exception is finding 2 of
  section 6. `RequestIsBounded`: no step leads a request or a restart back to a
  place it has left, so that it has 13 at most.
- **ChromeUtilProofs**. `PermitInv` counts the holders as in the manager, and those
  whom a panic has cost their permit (`UtilPermitsKept`); every step that is not a
  panic is one of PermitContract or a stutter (`UtilPermitsRefine`). `UtilInv`
  adds the types, and that cu.mu is held for writing by whoever is inside a start
  strategy, or by the one caller of Stop until it is through, while nobody holds
  it for reading (`UtilTypes`). On both rests `AloneInv`: as long as no stop has
  met another stop or somebody who relies on a pointer, nobody has panicked,
  whoever relies on a pointer finds it there (`PointerInv`), and a browser that is
  alive can be ended by a function cu still has (`BrowserInv`). That is
  inductive, one statement at a time, and `UtilAloneIsSafe` follows.
  `CallIsBounded`: every step of a call leaves fewer, a start strategy that failed
  counting for five; `NoCircularWait`, from `UtilInv`: who waits for cu.mu, to read
  or to write, waits for somebody who is under way and does not wait.
- **LegacyScreenshotProofs, the routes**. `BreakerSteps`: a step of a handler is
  one of the breaker's or leaves it alone, so that the breaker's own `IInv`, kept
  by each of its single steps, holds here, and with it `KeepsContract`. `TInv`
  adds the types and `PermitsBalance`: each step leaves the set of holders alone
  or changes it and `free` by one (`PermitsKept`), which are also the steps of
  PermitContract (`RoundsRefine`). `FInv` bounds the count of failures in a row by
  the requests that were told of one (`OpensForFailures`): a run fails once, and
  no request is answered twice. `PInv` says that whoever is past saving has its
  file written, and that an entry or an answer names what such a request has made
  (`PicturesServed`). `StepsLeft` counts what is left to a request: its place, two
  for each round, and one for a question to an expired breaker that has to be put
  again under the write lock (`RequestIsBounded`).
- **GateProofs**. Three invariants, one for each bound. `TokenInv`: a nonce is
  kept into the second its token expires in (`DivMono`: cutting to seconds is
  monotonic), so that while the token is valid a request that took it has left the
  nonce (`TokensTakenOnce`). `CountInv` and `WindowInv`: what a bound counts is
  still in Redis, under a key whose time to live outlasts it, and was no more than
  the bound when it was counted (`TokensBounded`, `RequestsBounded`). They rest on
  the cardinality of finite sets, and on no relation between a minute, a token's
  life and a window.
- **ScreenshotServiceProofs**. `TabInv`: who holds a permit has met all others
  that do, hence the tab shows the task's own page or that of one it has met
  (`OwnPageWhenAlone`). `MadeInv`: every entry and every answer was made by a
  request for the same page, and every file has an author that drew its name
  (`PicturesOfRequests`).
- **ChromeDownloaderProofs**. `Inv`: while the downloader is at work no directory
  a source could write to holds a complete Chrome, every archive unpacks to a
  directory that is searched (`ArchivesSearched`, from the tables of platforms),
  and what an extraction leaves unfinished is in `cut`. From it `KeepsGoodChrome`,
  `ReportedIsWhole`, `LaunchersFindIt`, and `OverlooksNothing`, that the server
  does without a Chrome of its own only when the directories of its sources hold
  none. `MinIsMember` and `SearchResult` say what the search returns. `WorkLeft`
  is what a start has left to do, in steps: what is left of the three attempts at
  a source, then of its archive, then of the other sources. No step leaves it as
  it was, and it is zero exactly when the start is over (`StartIsBounded`).

`StopIsBounded`, `QueryIsBounded`, `StartIsBounded`, the two `RequestIsBounded`
and `CallIsBounded` are the parts of `ShutdownCompletes`, `EveryQueryEnds`,
`StartEnds`, `EveryRequestAnswered`, `EveryRequestEnds` and `EveryCallEnds` that
need no fairness: there is no way to go on for ever, and, by `NoCircularWait`,
none to wait for each other. What they leave to TLC is that a next step is, under
the fairness of section 4, taken.

Only model-checked: everything that eventually happens, that is the temporal
properties under fairness, the liveness half of `ImplementsContract` included.
Fairness and ENABLED are out of the prover's reach. Every invariant and every
action property of the runs is proved. No data is recursive here, so nothing is
lost to induction.

## 6. Where the code and its documents disagree

1. `ScreenshotBreaker`: requests that the breaker rejected are recorded as
   failures, and each restarts its timeout. A client that asks more often than
   once a minute keeps it open for ever (docs/SCREENSHOT_REFACTOR.md:665 says:
   wait).
2. `ChromeManagerStatus`: GetStats takes stats.mu then cm.mu, Start the reverse;
   a status request during a start blocks both (services/chrome_manager.go:364).

What the models show beside, without a run that is about it. Most of these are
the exception that a property names.

- Requests (`OnlyTimeoutsCloseEarly`): a task that outlives its deadline sends on
  a channel the middleware has closed, and the process dies of the panic.
  routes/routes.go:169 says that a used channel is left to the task, but the flag
  that would tell is never set (docs/reports/P1_CONCURRENCY_TEST_REPORT.md:446).
- WHOIS (`NilNeedsRace`): a query that loses the last provider to another between
  its list and selectProvider dereferences nil (services/whois_manager.go:267).
- WHOIS (`DisablingIsEarned`): TestProvidersHealth writes back a copy as old as
  the test before it took (services/whois_manager.go:638). A test that fails puts
  a provider into use again that queries have disabled meanwhile, with one error,
  if it was in use when the check began; and the other way round it disables one
  that has just been put into use again, after one error.
- Breaker: the comments at services/circuit_breaker.go:20 and :92 say that a
  half-open breaker lets one request through; `Admit` lets every one through, as
  the code does, and all properties of the breaker hold nevertheless.
- Older Chrome tool (`AloneIsSafe`, `PermitsBalance`): two unlocked stops, or a stop
  and a timer being reset, use what the other has cleared (utils/chrome.go:424-443,
  1038), and since isRunning is cleared before the contexts (447-449), one stop and
  a start are enough to lose a browser that has just been made, or to make
  GetContext panic between the check of cu.ctx and its use (494-500). The panic
  ends a request and leaves its permit taken for good; in a worker of the pool,
  the health check or the timer it ends the process, without any 504.
- Older Chrome tool: the idle timer is set when a task begins and closes Chrome
  under a task of more than 90 seconds (utils/chrome.go:1057; utils/README.md:310
  speaks of 90 seconds idle).
- Older screenshots (`PictureUnlessTorn`): the Base64 routes of table, ip and
  resolve fill a `buf` in the loop (handlers/screenshot.go:1514) that is not the
  one they encode (line 1714), so that they answer, and cache, an empty image with
  success, where handlers/README.md:89 promises a screenshot in Base64.
- And names that are torn: FileURL and FilePath call time.Now().Unix() one after
  the other (handlers/screenshot.go:1010, :1011). Over the turn of a second the
  URL names a file that does not exist, for the 12 hours of its entry. Once that
  has happened to a route, `PictureUnlessTorn` asks nothing more of it, for later
  requests are served that entry.
- Screenshot service (`AloneShowsOwnPage`): docs/SCREENSHOT_REFACTOR.md:127 has
  three screenshots at a time, but their contexts share one tab, and one may
  photograph what another has navigated to; the picture is then cached for the
  wrong page.
- `PictureOfRequest`: file names leave URL and selector out
  (services/screenshot_service.go:265), so that two element screenshots of one
  second share a file. And the key of the cache leaves the format out: a request
  for Base64 may be given the URL of a file, with image_base64 empty.
- Gate (`TokenBound` is a bound from above only, and so does not show when a
  counter stays without a time to live and too few are let in): GenerateToken renews the
  counter's time to live on every call (middleware/auth.go:185), so that a client
  that has reached the 31st call and goes on asking within every minute is never
  given a token again, where the comment at line 191 says 30 a minute. A failure
  of Redis refuses tokens and lets requests through.
- CORSWithConfig, SecurityWithConfig and RateLimitWithConfig are used on the
  engine (routes/routes.go:215-224) after the group of the API was made from it,
  and gin copies the handlers of a group when it is made: they apply to none of
  its routes. So Gate has one limiter, that of the groups.
- Downloader (`WholeUnlessCut`): IsChromeBinaryExists (line 755) asks only whether
  a file exists. What an extraction left that was cut short, when it comes first
  in the search or is all there is, is taken for a Chrome at every later start;
  the validation of the search asks for a megabyte (line 722), not for a Chrome.
  And main.go:244 announces the system's Chrome after a failed download, but the
  launchers pass the default path of the downloader in any case
  (services/chrome_manager.go:144, utils/chrome.go:344).
- Health checks: README.md:480 has an interval of one day by default, and
  services/container.go:56 sets three whatever the environment says.

## 7. What is not modelled, and why

- WHOIS providers, DNS and RDAP clients, what a probe of the health checker asks:
  I/O and parsing; to the modules above they are answers, failures and timeouts.
- The middleware that looks at one request alone (CORS, security headers, size,
  validation, logging), the configuration, the types: no state.
- The white list: its verdict, which Redis keeps for five minutes, depends on the
  configuration only, and is a free choice in `NotListed`. RateLimitWithConfig,
  HealthCheckRateLimit, IPWhitelistMiddleware and GetCurrentCount apply to no
  route of the API.
- Scores of providers, content of responses, the cache of WHOIS: any provider may
  be the best, any request may be a hit. The WHOIS handlers around the manager
  read Redis and format. The comparison (handlers/whois_comparison.go) asks every
  provider in goroutines of its own and joins them; one that answers after the
  deadline writes variables that nobody reads any more, and no state is left
  between two requests.
- The older handlers that no route leads to: ScreenshotBase64, ElementScreenshot
  and its Base64 form, ItdogScreenshotBase64, ChromeStatus, ChromeDiagnose and
  ChromeForceReset. The routes for elements are served by the unified handler. So
  are the handlers of screenshot_new.go without a route.
- In utils/chrome.go Restart, ForceReset, the health monitor, Diagnose and GetStats
  have no caller in the program. Two of them would block: ForceReset calls Start
  with cu.mu held (line 639), and GetStats read-locks cu.mu twice (line 562).
- In the downloader the lists of addresses that nothing reads (GetChromeUrls,
  getDynamicChromeUrls, getStaticBackupUrls, getLatestChromeVersion), TestChrome,
  CleanupOldVersions and GetChromeInfo; in the health checker UpdateCheckResults,
  GetLastCheckResults and ShouldRunCheck: no callers.
- What a file holds while os.WriteFile writes it: a write is one step that makes
  the file or, on an error, does not, so that a picture is never half there. What
  is extracted in full is taken to pass the validation of one megabyte
  (utils/chrome_downloader.go:724), which the small launcher of a bundle may not.
- That the first task of a Chrome runs its browser process: when it ends, so may
  the browser, which ChromeManager and ScreenshotService allow at any time.

## 8. Plan

In the order of what matters. Done:

1. CircuitBreaker with its contract, and ScreenshotBreaker, which composes it
   with the handler.
2. WorkerPool, AsyncRequest on it, Lifecycle around both.
3. WhoisManager.
4. ChromeManager with the requests of the screenshot service.
5. ChromeUtil with the tasks of the older handlers.
6. LegacyScreenshot: the older handlers on their breaker.
7. ScreenshotService: cache, files and the shared tab.
8. Gate: tokens, nonces and the rate limit.
9. ChromeDownloader, across crashes and restarts.
10. HealthChecker, composed into Lifecycle.
11. The proofs of section 5: all invariants and action properties of the runs,
    the refinements, and the bounds on a start, a stop, a query, a request.

Left:

12. Proofs: what lies under `DisabledComesBack` and `DeadChromeCleanedUp`, where
    progress is shared among requests; and abstract specifications of the gate (how
    many are let in) and of the picture store (what an answer leads to), with
    proofs that Gate and ScreenshotService implement them.
13. ScreenshotService on ChromeManager, in place of `ChromeStops` and `NoContext`:
    that every request ends although three share the tab.
