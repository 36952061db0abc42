-------------------------- MODULE ScreenshotService --------------------------
(***************************************************************************)
(* The unified screenshots: services/screenshot_service.go, as the handlers *)
(* of handlers/screenshot_new.go that routes lead to call it.  A request    *)
(* is validated, named, looked up in Redis, let through by the breaker,     *)
(* taken in Chrome, saved and cached.                                       *)
(*                                                                          *)
(* GetContext hands every task a context made from the one the manager      *)
(* keeps, and chromedp finds its tab through the context: the tasks, up to  *)
(* MaxConcurrent at a time, drive one and the same tab.                     *)
(*                                                                          *)
(* The Chrome manager and its breaker have modules of their own             *)
(* (ChromeManager, ScreenshotBreaker).  Here the breaker may refuse, a      *)
(* start may fail and Chrome may stop whenever they like.                   *)
(***************************************************************************)
EXTENDS Naturals, FiniteSets

CONSTANTS Requests,
          Pages,         \* what the cache key tells apart: type, domain, URL, selector, times
          Alike,         \* pages whose files have one name: no domain, or one with other selectors
          MaxConcurrent, \* permits of the Chrome manager
          MaxSecond,     \* bound: the seconds file names are drawn from
          None

ASSUME ServiceAssumption ==
    /\ IsFiniteSet(Requests)
    /\ Alike \subseteq Pages
    /\ MaxConcurrent \in Nat \ {0}
    /\ MaxSecond \in Nat
    /\ None \notin Requests \cup Pages

VARIABLES asked,         \* the page of a request
          format,        \* and its format
          at,            \* where its goroutine is
          name,          \* FilePath: the stem of the file's name, and its second
          shot,          \* the page that its buffer shows
          image,         \* ImageURL of its answer
          permits,       \* who holds a permit of the Chrome manager
          live,          \* whose context is of the Chrome that runs
          tab,           \* the page in the tab
          cache,         \* Redis: an image for each key
          files,         \* who wrote each file last
          second,        \* time.Now().Unix()
          met            \* history: with whom a request shared Chrome

requestVars == <<asked, format, at, name, shot, image>>
chromeVars == <<permits, live, tab, met>>
vars == <<requestVars, chromeVars, cache, files, second>>

Seconds == 0..MaxSecond

\* buildFilePaths: the name is made of type, domain and second only.
Stem(p) == IF p \in Alike THEN "alike" ELSE p
Names == {Stem(p) : p \in Pages} \X Seconds

\* Faulty: the key leaves the selector and the URL out, as the file name does.
KeyOfStem(p) == IF p \in Alike THEN CHOOSE q \in Alike : TRUE ELSE p

\* buildCacheKey: everything a request asks for but its format.
Key(p) == p

\* What answers and the cache hold: the URL of a file, or a picture itself,
\* which is known by the request that took it.
File(n) == [kind |-> "file", of |-> n]
Base64(r) == [kind |-> "base64", of |-> r]
Failed == [kind |-> "failed", of |-> None]
Nothing == [kind |-> "none", of |-> None]
Pictures == {File(n) : n \in Names} \cup {Base64(r) : r \in Requests}

Ats == {"new", "lookup", "context", "navigate", "capture", "process", "cache", "over"}

ServiceTypeOK ==
    /\ asked \in [Requests -> Pages]
    /\ format \in [Requests -> {"file", "base64"}]
    /\ at \in [Requests -> Ats]
    /\ name \in [Requests -> Names \cup {None}]
    /\ shot \in [Requests -> Pages \cup {None}]
    /\ image \in [Requests -> Pictures \cup {Failed, Nothing}]
    /\ permits \subseteq Requests
    /\ live \subseteq permits
    /\ tab \in Pages \cup {None}
    /\ cache \in [Pages -> Pictures \cup {Nothing}]
    /\ files \in [Names -> Requests \cup {None}]
    /\ second \in Seconds
    /\ met \in [Requests -> SUBSET Requests]

Init ==
    /\ asked \in [Requests -> Pages]
    /\ format \in [Requests -> {"file", "base64"}]
    /\ at = [r \in Requests |-> "new"]
    /\ name = [r \in Requests |-> None]
    /\ shot = [r \in Requests |-> None]
    /\ image = [r \in Requests |-> Nothing]
    /\ permits = {}
    /\ live = {}
    /\ tab = None
    /\ cache = [p \in Pages |-> Nothing]
    /\ files = [n \in Names |-> None]
    /\ second = 0
    /\ met = [r \in Requests |-> {}]

Goto(r, from, to) == at[r] = from /\ at' = [at EXCEPT ![r] = to]

Answer(r, from, i) ==
    /\ Goto(r, from, "over")
    /\ image' = [image EXCEPT ![r] = i]
    /\ UNCHANGED <<asked, format, name, shot>>

------------------------------------------------------------------------------
(* Before Chrome *)

\* parseRequest or validateRequest refuses it.
Invalid(r) ==
    /\ Answer(r, "new", Failed)
    /\ UNCHANGED <<chromeVars, cache, files, second>>

\* generateConfig: only an answer by file has a name, drawn here and not when
\* the file is written.
GenerateConfig(r) ==
    /\ Goto(r, "new", "lookup")
    /\ name' = [name EXCEPT ![r] = IF format[r] = "file" THEN <<Stem(asked[r]), second>> ELSE None]
    /\ UNCHANGED <<asked, format, shot, image, chromeVars, cache, files, second>>

\* getFromCache: what is stored is the answer, in whatever format it is.
CacheHit(r) ==
    /\ cache[Key(asked[r])] # Nothing
    /\ Answer(r, "lookup", cache[Key(asked[r])])
    /\ UNCHANGED <<chromeVars, cache, files, second>>

\* There is no entry, or Redis does not give it.
CacheMiss(r) ==
    /\ Goto(r, "lookup", "context")
    /\ UNCHANGED <<asked, format, name, shot, image, chromeVars, cache, files, second>>

------------------------------------------------------------------------------
(* executeScreenshot *)

\* The breaker refuses, before GetContext or in it, Chrome does not start, or
\* ten seconds pass without a permit.
NoContext(r) ==
    /\ Answer(r, "context", Failed)
    /\ UNCHANGED <<chromeVars, cache, files, second>>

\* Faulty: the permit is given back as soon as the context is made.
GetContextBriefly(r) ==
    /\ Cardinality(permits) < MaxConcurrent
    /\ Goto(r, "context", "navigate")
    /\ live' = live \cup {r}
    /\ met' = [met EXCEPT ![r] = @ \cup permits]
    /\ UNCHANGED <<asked, format, name, shot, image, permits, tab, cache, files, second>>

\* A permit, and a context of the Chrome that runs or has been started.
GetContext(r) ==
    /\ Cardinality(permits) < MaxConcurrent
    /\ Goto(r, "context", "navigate")
    /\ permits' = permits \cup {r}
    /\ live' = live \cup {r}
    /\ met' = [q \in Requests |-> met[q] \cup IF q = r THEN permits
                                              ELSE IF q \in permits THEN {r} ELSE {}]
    /\ UNCHANGED <<asked, format, name, shot, image, tab, cache, files, second>>

\* defer cancel(): the permit goes when executeScreenshot returns.
Release(r) ==
    /\ permits' = permits \ {r}
    /\ live' = live \ {r}
    /\ UNCHANGED <<tab, met>>

\* chromedp.Navigate
Navigate(r) ==
    /\ r \in live
    /\ Goto(r, "navigate", "capture")
    /\ tab' = asked[r]
    /\ UNCHANGED <<asked, format, name, shot, image, permits, live, met, cache, files, second>>

\* The waits are over, and the tab is captured: the page it shows now.
Capture(r) ==
    /\ r \in live
    /\ Goto(r, "capture", "process")
    /\ shot' = [shot EXCEPT ![r] = tab]
    /\ UNCHANGED <<asked, format, name, image, chromeVars, cache, files, second>>

\* Chromedp reports an error, or the context ends: by the timeout of the task
\* or with its Chrome.  Then handleError names it.
TaskFails(r) ==
    /\ \E from \in {"navigate", "capture"} : Answer(r, from, Failed)
    /\ Release(r)
    /\ UNCHANGED <<cache, files, second>>

\* processResult: the file is written, over one of that name if there is one.
Save(r) ==
    /\ name[r] # None
    /\ Goto(r, "process", "cache")
    /\ files' = [files EXCEPT ![name[r]] = r]
    /\ image' = [image EXCEPT ![r] = File(name[r])]
    /\ Release(r)
    /\ UNCHANGED <<asked, format, name, shot, cache, second>>

Encode(r) ==
    /\ name[r] = None
    /\ Goto(r, "process", "cache")
    /\ image' = [image EXCEPT ![r] = Base64(r)]
    /\ Release(r)
    /\ UNCHANGED <<asked, format, name, shot, cache, files, second>>

\* An empty buffer, or WriteFile fails.
SaveFails(r) ==
    /\ Answer(r, "process", Failed)
    /\ Release(r)
    /\ UNCHANGED <<cache, files, second>>

\* cacheResult, and the answer; Redis may not take it.
CacheResult(r) ==
    /\ Goto(r, "cache", "over")
    /\ cache' \in {cache, [cache EXCEPT ![Key(asked[r])] = image[r]]}
    /\ UNCHANGED <<asked, format, name, shot, image, chromeVars, files, second>>

------------------------------------------------------------------------------
(* The rest of the world *)

\* Chrome dies, is idle for too long or is restarted: the contexts made from
\* it end, and the next one has another tab.  Permits stay with their tasks.
ChromeStops ==
    /\ live' = {}
    /\ tab' = None
    /\ UNCHANGED <<requestVars, permits, met, cache, files, second>>

\* The time to live of an entry, 1 to 72 hours.
CacheExpires ==
    /\ \E k \in Pages : cache' = [cache EXCEPT ![k] = Nothing]
    /\ UNCHANGED <<requestVars, chromeVars, files, second>>

Tick ==
    /\ second < MaxSecond
    /\ second' = second + 1
    /\ UNCHANGED <<requestVars, chromeVars, cache, files>>

Step(r) ==
    \/ Invalid(r) \/ GenerateConfig(r)
    \/ CacheHit(r) \/ CacheMiss(r)
    \/ NoContext(r) \/ GetContext(r)
    \/ Navigate(r) \/ Capture(r) \/ TaskFails(r)
    \/ Save(r) \/ Encode(r) \/ SaveFails(r)
    \/ CacheResult(r)

Next ==
    \/ \E r \in Requests : Step(r)
    \/ ChromeStops \/ CacheExpires \/ Tick

Spec == Init /\ [][Next]_vars

------------------------------------------------------------------------------
(* Properties *)

\* Whose picture an answer leads to.
Author(i) == IF i.kind = "file" THEN files[i.of] ELSE i.of

Answered(r) == at[r] = "over" /\ image[r] # Failed

\* An answer leads to a picture that exists and was taken for the very page
\* that was asked for, be it from the cache or not - unless a request for
\* another page drew the same file name, in the same second, and wrote over it.
PictureOfRequest == \A r \in Requests : Answered(r) =>
    LET q == Author(image[r]) IN
    /\ q # None
    /\ asked[q] = asked[r]
       \/ \E p \in Requests \ {q} :
             asked[p] = asked[r] /\ shot[p] # None /\ name[p] = name[q] /\ image[p] = image[r]

\* The page captured may be another than was asked for, but only that of a
\* request that had a permit at the same time: the permit is kept as long as
\* the tab is used, and a new Chrome shows nothing to the tasks of the old.
\* With one permit every picture shows its own page.
AloneShowsOwnPage == \A r \in Requests :
    shot[r] \notin {None, asked[r]} => \E q \in met[r] : asked[q] = shot[r]
==============================================================================
