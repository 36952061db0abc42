-------------------------- MODULE LegacyScreenshot --------------------------
(***************************************************************************)
(* The older screenshot routes, for one domain: handlers/screenshot.go,    *)
(* handlers/screenshot_api.go and handlers/async_handlers.go, with the     *)
(* breaker, the Redis entries, the files under ./static and the permits of *)
(* the Chrome tool they share.                                             *)
(*                                                                         *)
(* A route is one of                                                       *)
(*   site         AsyncScreenshot, Screenshot: a Chrome of its own         *)
(*   siteBase64   ScreenshotBase64Handler: the same, without a breaker     *)
(*   map          AsyncItdogScreenshot, ItdogScreenshot                    *)
(*   mapBase64    ITDogBase64Handler: a Chrome of its own, no breaker      *)
(*   table        ItdogTableScreenshot; those of ip and resolve are alike  *)
(*   tableBase64  ItdogTableScreenshotBase64, likewise                     *)
(* The site and the ITDog routes have a breaker each and meet nowhere, so  *)
(* a behaviour has requests of one family only.                            *)
(*                                                                         *)
(* The handlers ask the breaker twice: once themselves, never recording a  *)
(* result for it, and once more inside Execute, which records one.         *)
(***************************************************************************)
EXTENDS CircuitBreaker

CONSTANTS Permits,       \* of the Chrome tool: maxConcurrent
          MaxRetries,    \* maxRetries
          MaxSecond      \* bound: the seconds file names are drawn from

ASSUME LegacyAssumption ==
    /\ IsFiniteSet(Callers)
    /\ Permits \in Nat
    /\ MaxRetries \in Nat
    /\ MaxSecond \in Nat

Requests == Callers

VARIABLES route,         \* what a request asks for
          at,            \* where its goroutine is
          tries,         \* retry
          url, path,     \* the seconds in FileURL and in FilePath
          image,         \* what its answer shows: a cache entry
          answer,        \* the kind of answer
          cache,         \* Redis: the entry of each route
          files,         \* the files written
          free,          \* permits of the Chrome tool not taken
          second         \* time.Now().Unix()

reqVars == <<route, at, tries, url, path, image, answer>>
storeVars == <<cache, files, free, second>>
legacyVars == <<vars, reqVars, storeVars>>

Sites == {"site", "siteBase64"}
ItdogRoutes == {"map", "table", "tableBase64"}   \* performITDogScreenshot, also in Base64
Direct == {"siteBase64", "mapBase64"}
Routes == Sites \cup ItdogRoutes \cup Direct
Early == Direct \cup {"site", "map"}             \* routes that ask Redis first

Seconds == 0..MaxSecond

\* table and tableBase64 draw their file names from the same template.
Stem(k) == IF k = "tableBase64" THEN "table" ELSE k

Files == Routes \X Seconds

\* What Redis and an answer hold: a FileURL, a picture in Base64, or "".
Entries == [kind : {"none", "file", "picture", "empty"}, second : Seconds]
Entry(kind, s) == [kind |-> kind, second |-> s]
None == Entry("none", 0)

Ats == {"new", "url", "path", "ask", "lookup", "execute", "attempt", "page",
        "save", "saved", "failed", "store", "over"}

Answers == {"none", "fresh", "cached", "unavailable", "failed"}

LegacyTypeOK ==
    /\ TypeOK
    /\ route \in [Requests -> Routes]
    /\ at \in [Requests -> Ats]
    /\ tries \in [Requests -> 0..MaxRetries]
    /\ url \in [Requests -> Seconds]
    /\ path \in [Requests -> Seconds]
    /\ image \in [Requests -> Entries]
    /\ answer \in [Requests -> Answers]
    /\ cache \in [Routes -> Entries]
    /\ files \in SUBSET Files
    /\ free \in 0..Permits
    /\ second \in Seconds

LegacyInit ==
    /\ Init
    /\ \E family \in {Sites, Routes \ Sites} : route \in [Requests -> family]
    /\ at = [r \in Requests |-> IF route[r] \in Early THEN "new" ELSE "url"]
    /\ tries = [r \in Requests |-> 0]
    /\ url = [r \in Requests |-> 0]
    /\ path = [r \in Requests |-> 0]
    /\ image = [r \in Requests |-> None]
    /\ answer = [r \in Requests |-> "none"]
    /\ cache = [k \in Routes |-> None]
    /\ files = {}
    /\ free = Permits
    /\ second = 0

Goto(r, from, to) == at[r] = from /\ at' = [at EXCEPT ![r] = to]

\* A step that only moves the goroutine on.
Go(r, from, to) ==
    /\ Goto(r, from, to)
    /\ UNCHANGED <<route, tries, url, path, image, answer>>

\* c.JSON: the last thing a handler does.
Reply(r, from, kind, entry) ==
    /\ Goto(r, from, "over")
    /\ answer' = [answer EXCEPT ![r] = kind]
    /\ image' = [image EXCEPT ![r] = entry]
    /\ UNCHANGED <<route, tries, url, path>>

Refuse(r, from, kind) == Reply(r, from, kind, None)

------------------------------------------------------------------------------
(* Before the breaker *)

\* The asynchronous and the direct routes answer from Redis before anything
\* else, whatever the breaker says.
EarlyHit(r) ==
    /\ cache[route[r]] # None
    /\ Reply(r, "new", "cached", cache[route[r]])
    /\ UNCHANGED <<vars, storeVars>>

\* No entry, or Redis does not give it.
EarlyMiss(r) ==
    /\ Go(r, "new", IF route[r] \in Direct THEN "attempt"
                    ELSE IF route[r] \in Sites THEN "ask" ELSE "url")
    /\ UNCHANGED <<vars, storeVars>>

\* ItdogScreenshot and its like read the clock for each name anew.
NameUrl(r) ==
    /\ Goto(r, "url", "path")
    /\ url' = [url EXCEPT ![r] = second]
    /\ UNCHANGED <<vars, route, tries, path, image, answer, storeVars>>

NamePath(r) ==
    /\ Goto(r, "path", "ask")
    /\ path' = [path EXCEPT ![r] = second]
    /\ UNCHANGED <<vars, route, tries, url, image, answer, storeVars>>

------------------------------------------------------------------------------
(* The two questions to the breaker *)

Ask(r) ==
    /\ \/ (Admit(r) \/ HalfOpen(r)) /\ Go(r, "ask", "lookup")
       \/ SeeExpiry(r) /\ at[r] = "ask" /\ UNCHANGED reqVars
       \/ Reject(r) /\ Refuse(r, "ask", "unavailable")
    /\ UNCHANGED storeVars

\* Faulty: a deferred RecordResult also counts the answers from Redis.
CacheHitRecorded(r) ==
    /\ cache[route[r]] # None
    /\ RecordFailure(r)
    /\ Reply(r, "lookup", "cached", cache[route[r]])
    /\ UNCHANGED storeVars

CacheHit(r) ==
    /\ cache[route[r]] # None
    /\ Abandon(r)
    /\ Reply(r, "lookup", "cached", cache[route[r]])
    /\ UNCHANGED storeVars

\* The directory is there; Screenshot draws one name for both uses.
CacheMiss(r) ==
    /\ Goto(r, "lookup", "execute")
    /\ LET named == IF route[r] \in Sites THEN second ELSE url[r] IN
       url' = [url EXCEPT ![r] = named]
    /\ path' = IF route[r] \in Sites THEN [path EXCEPT ![r] = second] ELSE path
    /\ UNCHANGED <<vars, route, tries, image, answer, storeVars>>

NoDirectory(r) ==
    /\ Abandon(r)
    /\ Refuse(r, "lookup", "failed")
    /\ UNCHANGED storeVars

\* Execute asks again, and may find the breaker open by now.
AskAgain(r) ==
    /\ \/ /\ pc[r] = "running" /\ state # "open"
          /\ Go(r, "execute", "attempt") /\ UNCHANGED vars
       \/ HalfOpen(r) /\ Go(r, "execute", "attempt")
       \/ /\ state = "open" /\ age = Expired
          /\ Move(r, "running", "gap")
          /\ at[r] = "execute"
          /\ UNCHANGED <<state, failureCount, age, grant, run, reqVars>>
       \/ /\ state = "open" /\ age < Expired
          /\ Abandon(r) /\ Refuse(r, "execute", "unavailable")
    /\ UNCHANGED storeVars

------------------------------------------------------------------------------
(* The run inside Execute *)

UsesTool(r) == route[r] \in ItdogRoutes

\* Faulty: the rounds are not counted.
RetryUncounted(r, from) ==
    /\ Goto(r, from, IF UsesTool(r) THEN "attempt" ELSE "failed")
    /\ UNCHANGED <<vars, route, tries, url, path, image, answer, cache, files, second>>

\* The next round of the loop, or the end of the run; only the ITDog runs
\* have a loop.
Retry(r, from) ==
    /\ IF UsesTool(r) /\ tries[r] < MaxRetries
       THEN Goto(r, from, "attempt") /\ tries' = [tries EXCEPT ![r] = @ + 1]
       ELSE Goto(r, from, "failed") /\ UNCHANGED tries
    /\ UNCHANGED <<vars, route, url, path, image, answer, cache, files, second>>

\* cancel: the permit goes back to the Chrome tool.
Cancel(r) == free' = IF UsesTool(r) THEN free + 1 ELSE free

\* GetContext takes a permit of the Chrome tool.
OpenPage(r) ==
    /\ UsesTool(r) /\ free > 0
    /\ Go(r, "attempt", "page")
    /\ free' = free - 1
    /\ UNCHANGED <<vars, cache, files, second>>

\* chromedp.NewContext starts a Chrome for this request alone.
OpenOwnPage(r) ==
    /\ ~UsesTool(r)
    /\ Go(r, "attempt", "page")
    /\ UNCHANGED <<vars, storeVars>>

\* GetContext fails: no permit in time, or no browser.
NoContext(r) == UsesTool(r) /\ Retry(r, "attempt") /\ UNCHANGED free

\* Faulty: a context that is already done is dropped without cancel.
ContextLeaked(r) == UsesTool(r) /\ Retry(r, "page") /\ UNCHANGED free

\* The context is done before it is used.
ContextDone(r) == UsesTool(r) /\ Retry(r, "page") /\ Cancel(r)

PageFails(r) == Retry(r, "page") /\ Cancel(r)

PageTaken(r) ==
    /\ route[r] \notin Direct
    /\ Go(r, "page", "save")
    /\ Cancel(r)
    /\ UNCHANGED <<vars, cache, files, second>>

\* The direct routes keep their picture in memory.
DirectTaken(r) ==
    /\ route[r] \in Direct
    /\ Go(r, "page", "store")
    /\ UNCHANGED <<vars, storeVars>>

\* Faulty: an error of os.WriteFile is ignored.
SaveOrNot(r) ==
    /\ Go(r, "save", "saved")
    /\ files' \in {files, files \cup {<<Stem(route[r]), path[r]>>}}
    /\ UNCHANGED <<vars, cache, free, second>>

Save(r) ==
    /\ Go(r, "save", "saved")
    /\ files' = files \cup {<<Stem(route[r]), path[r]>>}
    /\ UNCHANGED <<vars, cache, free, second>>

SaveFails(r) == Go(r, "save", "failed") /\ UNCHANGED <<vars, storeVars>>

\* Execute records one result, however many rounds the run took.
RunSucceeds(r) ==
    /\ RecordSuccess(r)
    /\ Go(r, "saved", "store")
    /\ UNCHANGED storeVars

RunFails(r) ==
    /\ route[r] \notin Direct
    /\ RecordFailure(r)
    /\ Refuse(r, "failed", "failed")
    /\ UNCHANGED storeVars

DirectFails(r) ==
    /\ route[r] \in Direct
    /\ Refuse(r, "failed", "failed")
    /\ UNCHANGED <<vars, storeVars>>

------------------------------------------------------------------------------
(* The answer *)

\* In performITDogScreenshotBase64 the loop fills a buf of its own, so the
\* one that is encoded is still empty.
Made(r) ==
    CASE route[r] \in Direct -> Entry("picture", 0)
      [] route[r] = "tableBase64" -> Entry("empty", 0)
      [] OTHER -> Entry("file", url[r])

\* The entry is written, unless Redis fails, which nobody notices.
Store(r) ==
    /\ \/ cache' = [cache EXCEPT ![route[r]] = Made(r)]
       \/ UNCHANGED cache
    /\ Reply(r, "store", "fresh", Made(r))
    /\ UNCHANGED <<vars, files, free, second>>

\* 12 or 24 hours have passed.
Evict(k) ==
    /\ cache[k] # None
    /\ cache' = [cache EXCEPT ![k] = None]
    /\ UNCHANGED <<vars, reqVars, files, free, second>>

Second ==
    /\ second < MaxSecond
    /\ second' = second + 1
    /\ UNCHANGED <<vars, reqVars, cache, files, free>>

TickLegacy == Tick /\ UNCHANGED <<reqVars, storeVars>>

Step(r) ==
    \/ EarlyHit(r) \/ EarlyMiss(r) \/ NameUrl(r) \/ NamePath(r)
    \/ Ask(r) \/ CacheHit(r) \/ CacheMiss(r) \/ NoDirectory(r) \/ AskAgain(r)
    \/ OpenPage(r) \/ OpenOwnPage(r) \/ NoContext(r) \/ ContextDone(r)
    \/ PageFails(r) \/ PageTaken(r) \/ DirectTaken(r)
    \/ Save(r) \/ SaveFails(r) \/ RunSucceeds(r) \/ RunFails(r) \/ DirectFails(r)
    \/ Store(r)

LegacyNext ==
    \/ \E r \in Requests : Step(r)
    \/ \E k \in Routes : Evict(k)
    \/ Second \/ TickLegacy

\* A handler that can go on does: GetContext gives up when it gets no permit,
\* and every Chrome run has a deadline.
LegacyFairness == \A r \in Requests : WF_legacyVars(Step(r))

LegacySafety == LegacyInit /\ [][LegacyNext]_legacyVars
LegacySpec == LegacySafety /\ LegacyFairness

------------------------------------------------------------------------------
(* Properties *)

\* The ITDog runs that are in a page.
Holders == {r \in Requests : at[r] = "page" /\ UsesTool(r)}

\* Every permit of the Chrome tool is free or held by one such run, whichever
\* of the ways out of a round its loop takes.
PermitsBalance == free + Cardinality(Holders) = Permits

Shows(k, entry) ==
    \/ entry.kind = "picture"
    \/ entry.kind = "file" /\ <<Stem(k), entry.second>> \in files

\* The clock moved on between the two names of a request for this route.
Torn(k) ==
    \E q \in Requests : route[q] = k /\ at[q] \notin {"url", "path"} /\ url[q] # path[q]

\* A successful answer, fresh or from Redis, leads to a picture, but for the
\* two ways the code loses it: the Base64 answers of table, ip and resolve
\* are empty, and a FileURL drawn in an earlier second than its FilePath
\* names a file that nobody has written, for as long as the entry lives.
PictureUnlessTorn ==
    \A r \in Requests : answer[r] \in {"fresh", "cached"} =>
        Shows(route[r], image[r]) \/ route[r] = "tableBase64" \/ Torn(route[r])

\* Requests that were told of a failure.
Failed == {r \in Requests : answer[r] = "failed"}

\* The breaker opens only when Threshold requests have themselves failed:
\* the rounds of one run count once, and answers from Redis, refusals and
\* the first of the two questions not at all.
OpenMeansFailures == state # "closed" => Cardinality(Failed) >= Threshold

\* Asking twice and recording once keeps the breaker's automaton.
LegacyContract == Contract!Init /\ [][Contract!Next]_(Contract!vars)

\* Every request is answered, although permits run out, runs fail and the
\* breaker opens between its two questions.
EveryRequestAnswered == \A r \in Requests : <>(answer[r] # "none")
==============================================================================
