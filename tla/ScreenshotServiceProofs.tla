----------------------- MODULE ScreenshotServiceProofs -----------------------
(***************************************************************************)
(* The unified screenshots for any number of requests, pages and permits.  *)
(* TabInv is about the tab: whoever holds a permit has met all others that *)
(* do, so that the page in the tab is the task's own or that of one it has *)
(* met.  MadeInv is about the pictures: every entry of the cache and every *)
(* answer was made by a request for the same page, and every file has an   *)
(* author that drew its name.                                              *)
(***************************************************************************)
EXTENDS ScreenshotService, TLAPS

InChrome == {"navigate", "capture", "process"}
After == {"cache", "over"}

TabInv ==
    /\ \A r \in Requests : r \in permits <=> at[r] \in InChrome
    /\ \A p, q \in permits : p # q => q \in met[p]
    /\ \A r \in live : at[r] = "capture" =>
          tab = asked[r] \/ \E q \in met[r] : asked[q] = tab
    /\ AloneShowsOwnPage

\* p has made the picture i, and i can still be had.
Made(p, i) ==
    /\ at[p] \in After /\ shot[p] # None /\ image[p] = i
    /\ \/ name[p] = None /\ i = Base64(p)
       \/ name[p] # None /\ i = File(name[p]) /\ files[name[p]] # None

MadeFor(page, i) == \E p \in Requests : asked[p] = page /\ Made(p, i)

MadeInv ==
    /\ \A r \in Requests : at[r] = "process" => shot[r] # None
    /\ \A r \in Requests : at[r] = "cache" => Made(r, image[r])
    /\ \A r \in Requests : Answered(r) => MadeFor(asked[r], image[r])
    /\ \A k \in Pages : cache[k] # Nothing => MadeFor(k, cache[k])
    /\ \A n \in Names : files[n] # None => name[files[n]] = n /\ at[files[n]] \in After

IInv == ServiceTypeOK /\ TabInv /\ MadeInv

------------------------------------------------------------------------------
(* Types *)

LEMMA NameTypes == \A p \in Pages, s \in Seconds : <<Stem(p), s>> \in Names
  BY DEF Names

LEMMA TypeInit == Init => ServiceTypeOK
  BY ServiceAssumption DEF Init, ServiceTypeOK, Ats, Seconds

LEMMA TypeStep ==
    ASSUME ServiceTypeOK, MadeInv, [Next]_vars PROVE ServiceTypeOK'
<1> USE DEF ServiceTypeOK
<1>1. CASE UNCHANGED vars
  BY <1>1 DEF vars, requestVars, chromeVars
<1>2. ASSUME NEW r \in Requests, Step(r) PROVE ServiceTypeOK'
  <2> USE DEF requestVars, chromeVars, Goto, Answer, Ats
  <2>1. CASE Invalid(r) \/ NoContext(r) \/ CacheMiss(r)
    BY <2>1 DEF Invalid, NoContext, CacheMiss
  <2>2. CASE GenerateConfig(r)
    BY <2>2, NameTypes DEF GenerateConfig
  <2>3. CASE CacheHit(r)
    <3>1. cache[Key(asked[r])] \in Pictures
      BY <2>3 DEF CacheHit, Key
    <3>2. QED BY <2>3, <3>1 DEF CacheHit
  <2>4. CASE GetContext(r)
    <3>1. permits' \subseteq Requests /\ live' \subseteq permits' /\ met' \in [Requests -> SUBSET Requests]
      BY <2>4 DEF GetContext
    <3>2. QED BY <2>4, <3>1 DEF GetContext
  <2>5. CASE Navigate(r) \/ Capture(r)
    BY <2>5 DEF Navigate, Capture
  <2>6. CASE TaskFails(r) \/ SaveFails(r)
    BY <2>6 DEF TaskFails, SaveFails, Release
  <2>7. CASE Save(r)
    <3>1. name[r] \in Names /\ File(name[r]) \in Pictures
      BY <2>7 DEF Save, Pictures
    <3>2. QED BY <2>7, <3>1 DEF Save, Release
  <2>8. CASE Encode(r)
    BY <2>8 DEF Encode, Release, Pictures
  <2>9. CASE CacheResult(r)
    <3>1. Made(r, image[r])
      BY <2>9 DEF CacheResult, MadeInv
    <3>2. image[r] \in Pictures
      BY <3>1 DEF Made, Pictures
    <3>3. QED BY <2>9, <3>2 DEF CacheResult, Key
  <2>10. QED BY <1>2, <2>1, <2>2, <2>3, <2>4, <2>5, <2>6, <2>7, <2>8, <2>9 DEF Step
<1>3. CASE ChromeStops \/ CacheExpires \/ Tick
  BY <1>3, ServiceAssumption DEF ChromeStops, CacheExpires, Tick, requestVars, chromeVars, Seconds
<1>4. QED BY <1>1, <1>2, <1>3 DEF Next

------------------------------------------------------------------------------
(* The tab *)

LEMMA TabInit == Init => TabInv
  BY DEF Init, TabInv, InChrome, AloneShowsOwnPage

LEMMA TabStep ==
    ASSUME ServiceTypeOK, TabInv, [Next]_vars PROVE TabInv'
<1> USE DEF TabInv, InChrome, AloneShowsOwnPage
<1>1. CASE UNCHANGED vars
  BY <1>1 DEF vars, requestVars, chromeVars
<1>2. ASSUME NEW r \in Requests, Step(r) PROVE TabInv'
  <2> USE DEF requestVars, chromeVars, Goto, Answer
  <2>0. at \in [Requests -> Ats] /\ permits \subseteq Requests /\ live \subseteq permits
    BY DEF ServiceTypeOK
  <2>1. CASE Invalid(r) \/ GenerateConfig(r) \/ CacheHit(r) \/ CacheMiss(r) \/ NoContext(r) \/ CacheResult(r)
    BY <2>0, <2>1 DEF Invalid, GenerateConfig, CacheHit, CacheMiss, NoContext, CacheResult
  <2>2. CASE GetContext(r)
    <3>1. r \notin permits
      BY <2>0, <2>2 DEF GetContext
    <3>2. \A q \in Requests : met'[q] = met[q] \cup IF q = r THEN permits
                                                  ELSE IF q \in permits THEN {r} ELSE {}
      BY <2>2 DEF GetContext
    <3>3. \A q \in Requests : met[q] \subseteq met'[q]
      BY <3>2
    <3>4. \A p, q \in permits' : p # q => q \in met'[p]
      BY <2>0, <2>2, <3>1, <3>2 DEF GetContext
    <3>5. QED BY <2>0, <2>2, <3>3, <3>4 DEF GetContext
  <2>3. CASE Navigate(r)
    <3>1. \A q \in live' : at'[q] = "capture" => tab' = asked'[q] \/ \E p \in met'[q] : asked'[p] = tab'
      <4> SUFFICES ASSUME NEW q \in live, q # r PROVE r \in met[q]
        BY <2>3 DEF Navigate
      <4>1. QED BY <2>0, <2>3 DEF Navigate
    <3>2. QED BY <2>0, <2>3, <3>1 DEF Navigate
  <2>4. CASE Capture(r)
    <3>1. shot \in [Requests -> Pages \cup {None}]
      BY DEF ServiceTypeOK
    <3>2. QED BY <2>0, <2>4, <3>1 DEF Capture
  <2>5. CASE TaskFails(r) \/ SaveFails(r)
    BY <2>0, <2>5 DEF TaskFails, SaveFails, Release
  <2>6. CASE Save(r) \/ Encode(r)
    BY <2>0, <2>6 DEF Save, Encode, Release
  <2>7. QED BY <1>2, <2>1, <2>2, <2>3, <2>4, <2>5, <2>6 DEF Step
<1>3. CASE ChromeStops \/ CacheExpires \/ Tick
  BY <1>3 DEF ChromeStops, CacheExpires, Tick, requestVars, chromeVars
<1>4. QED BY <1>1, <1>2, <1>3 DEF Next

------------------------------------------------------------------------------
(* The pictures *)

LEMMA MadeInit == Init => MadeInv
  BY DEF Init, MadeInv, Answered, Nothing

\* A picture that has been made stays: only what may change it is asked about.
LEMMA MadeStays ==
    ASSUME NEW p \in Requests, NEW i, Made(p, i),
           at'[p] \in After, shot'[p] = shot[p], image'[p] = image[p], name'[p] = name[p],
           \A n \in Names : files[n] # None => files'[n] # None,
           ServiceTypeOK
    PROVE  Made(p, i)'
  BY DEF Made, ServiceTypeOK, Base64, File

\* What every step of a request leaves alone.
Frame(r) ==
    /\ asked' = asked
    /\ \A p \in Requests \ {r} :
          at'[p] = at[p] /\ shot'[p] = shot[p] /\ image'[p] = image[p] /\ name'[p] = name[p]

LEMMA FrameStep ==
    ASSUME ServiceTypeOK, NEW r \in Requests, Step(r) PROVE Frame(r)
<1> USE DEF Frame, ServiceTypeOK, requestVars, Goto, Answer
<1>1. CASE Invalid(r) \/ GenerateConfig(r) \/ CacheHit(r) \/ CacheMiss(r) \/ NoContext(r)
  BY <1>1 DEF Invalid, GenerateConfig, CacheHit, CacheMiss, NoContext
<1>2. CASE GetContext(r) \/ Navigate(r) \/ Capture(r) \/ TaskFails(r)
  BY <1>2 DEF GetContext, Navigate, Capture, TaskFails
<1>3. CASE Save(r) \/ Encode(r) \/ SaveFails(r) \/ CacheResult(r)
  BY <1>3 DEF Save, Encode, SaveFails, CacheResult
<1>4. QED BY <1>1, <1>2, <1>3 DEF Step

\* A step that neither writes a file nor caches, and after which its request
\* has not made a picture that it had not made before.
LEMMA QuietStep ==
    ASSUME ServiceTypeOK, MadeInv, NEW r \in Requests, Frame(r),
           at[r] \notin After, at'[r] # "cache",
           at'[r] = "process" => shot'[r] # None,
           at'[r] = "over" /\ image'[r] # Failed => MadeFor(asked[r], image'[r]),
           UNCHANGED <<cache, files>>
    PROVE  MadeInv'
<1> USE DEF MadeInv
<1>1. ASSUME NEW p \in Requests, NEW i, Made(p, i) PROVE Made(p, i)'
  <2>1. p # r
    BY <1>1 DEF Made
  <2>2. at[p] \in After
    BY <1>1 DEF Made
  <2>3. QED BY <1>1, <2>1, <2>2, MadeStays DEF Frame
<1>2. ASSUME NEW page, NEW i, MadeFor(page, i) PROVE MadeFor(page, i)'
  BY <1>1, <1>2 DEF MadeFor, Frame
<1>3. \A p \in Requests : at'[p] = "process" => shot'[p] # None
  BY DEF Frame
<1>4. \A p \in Requests : at'[p] = "cache" => Made(p, image[p])' /\ image'[p] = image[p]
  BY <1>1 DEF Frame
<1>5. \A p \in Requests : Answered(p)' => MadeFor(asked[p], image[p])'
  <2> SUFFICES ASSUME NEW p \in Requests, at'[p] = "over", image'[p] # Failed
               PROVE  MadeFor(asked[p], image[p])'
    BY DEF Answered, Failed
  <2>1. MadeFor(asked[p], image'[p])
    BY DEF Frame, Answered
  <2>2. QED BY <1>2, <2>1 DEF Frame
<1>6. \A k \in Pages : cache'[k] # Nothing => MadeFor(k, cache[k])'
  BY <1>2 DEF Nothing
<1>7. \A n \in Names : files'[n] # None => name'[files'[n]] = n /\ at'[files'[n]] \in After
  BY DEF Frame, ServiceTypeOK
<1>8. QED BY <1>3, <1>4, <1>5, <1>6, <1>7 DEF Nothing

LEMMA SaveStep ==
    ASSUME ServiceTypeOK, MadeInv, NEW r \in Requests, Save(r) \/ Encode(r) PROVE MadeInv'
<1> USE DEF MadeInv
<1>1. Frame(r) /\ at[r] = "process" /\ at'[r] = "cache" /\ cache' = cache
      /\ name' = name /\ shot' = shot
  BY FrameStep DEF Step, Save, Encode, Goto, ServiceTypeOK
<1>2. \A n \in Names : files'[n] = files[n] \/ (n = name[r] /\ files'[n] = r)
  BY DEF Save, Encode, ServiceTypeOK
<1>3. \A n \in Names : files[n] # None => files'[n] # None
  BY <1>2, ServiceAssumption
<1>4. ASSUME NEW p \in Requests, NEW i, Made(p, i) PROVE Made(p, i)'
  <2>1. p # r /\ at[p] \in After
    BY <1>1, <1>4 DEF Made, After
  <2>2. QED BY <1>1, <1>3, <1>4, <2>1, MadeStays DEF Frame
<1>5. ASSUME NEW page, NEW i, MadeFor(page, i) PROVE MadeFor(page, i)'
  BY <1>1, <1>4, <1>5 DEF MadeFor, Frame
<1>6. Made(r, image[r])'
  <2>1. shot'[r] # None
    BY <1>1
  <2>2. CASE Save(r)
    BY <1>1, <2>1, <2>2, ServiceAssumption DEF Made, Save, After, ServiceTypeOK
  <2>3. CASE Encode(r)
    BY <1>1, <2>1, <2>3 DEF Made, Encode, After, ServiceTypeOK
  <2>4. QED BY <2>2, <2>3
<1>7. \A p \in Requests : at'[p] = "process" => shot'[p] # None
  BY <1>1 DEF Frame
<1>8. \A p \in Requests : at'[p] = "cache" => Made(p, image[p])'
  <2> SUFFICES ASSUME NEW p \in Requests \ {r}, at'[p] = "cache" PROVE Made(p, image[p])'
    BY <1>6
  <2>1. Made(p, image[p])
    BY <1>1 DEF Frame
  <2>2. QED BY <1>1, <1>4, <2>1 DEF Frame
<1>9. \A p \in Requests : Answered(p)' => MadeFor(asked[p], image[p])'
  <2> SUFFICES ASSUME NEW p \in Requests, at'[p] = "over", image'[p] # Failed
               PROVE  MadeFor(asked[p], image[p])'
    BY DEF Answered, Failed
  <2>1. MadeFor(asked[p], image[p]) /\ p # r
    BY <1>1 DEF Frame, Answered
  <2>2. QED BY <1>1, <1>5, <2>1 DEF Frame
<1>10. \A k \in Pages : cache'[k] # Nothing => MadeFor(k, cache[k])'
  BY <1>1, <1>5 DEF Nothing
<1>11. \A n \in Names : files'[n] # None => name'[files'[n]] = n /\ at'[files'[n]] \in After
  BY <1>1, <1>2 DEF Frame, ServiceTypeOK, After
<1>12. QED BY <1>7, <1>8, <1>9, <1>10, <1>11 DEF Nothing

LEMMA CacheStep ==
    ASSUME ServiceTypeOK, MadeInv, NEW r \in Requests, CacheResult(r) PROVE MadeInv'
<1> USE DEF MadeInv
<1>1. Frame(r) /\ at[r] = "cache" /\ at'[r] = "over" /\ files' = files
      /\ name' = name /\ shot' = shot /\ image' = image
  BY FrameStep DEF Step, CacheResult, Goto, ServiceTypeOK
<1>2. ASSUME NEW p \in Requests, NEW i, Made(p, i) PROVE Made(p, i)'
  <2>1. at'[p] \in After
    BY <1>1, <1>2 DEF Made, Frame, After
  <2>2. QED BY <1>1, <1>2, <2>1, MadeStays
<1>3. ASSUME NEW page, NEW i, MadeFor(page, i) PROVE MadeFor(page, i)'
  BY <1>1, <1>2, <1>3 DEF MadeFor, Frame
<1>4. Made(r, image[r])
  BY <1>1
<1>5. MadeFor(asked[r], image[r])
  BY <1>4 DEF MadeFor
<1>6. \A p \in Requests : at'[p] = "process" => shot'[p] # None
  BY <1>1 DEF Frame
<1>7. \A p \in Requests : at'[p] = "cache" => Made(p, image[p])'
  BY <1>1, <1>2 DEF Frame
<1>8. \A p \in Requests : Answered(p)' => MadeFor(asked[p], image[p])'
  <2> SUFFICES ASSUME NEW p \in Requests, at'[p] = "over", image'[p] # Failed
               PROVE  MadeFor(asked[p], image[p])'
    BY DEF Answered, Failed
  <2>1. MadeFor(asked[p], image[p])
    BY <1>1, <1>5 DEF Frame, Answered
  <2>2. QED BY <1>1, <1>3, <2>1 DEF Frame
<1>9. \A k \in Pages : cache'[k] # Nothing => MadeFor(k, cache[k])'
  <2> SUFFICES ASSUME NEW k \in Pages, cache'[k] # Nothing PROVE MadeFor(k, cache[k])'
    BY DEF Nothing
  <2>1. cache'[k] = cache[k] \/ (k = asked[r] /\ cache'[k] = image[r])
    BY DEF CacheResult, Key, ServiceTypeOK
  <2>2. MadeFor(k, cache'[k])
    BY <1>5, <2>1
  <2>3. QED BY <1>3, <2>2
<1>10. \A n \in Names : files'[n] # None => name'[files'[n]] = n /\ at'[files'[n]] \in After
  BY <1>1 DEF Frame, ServiceTypeOK, After
<1>11. QED BY <1>6, <1>7, <1>8, <1>9, <1>10 DEF Nothing

\* No request moves: ChromeStops, CacheExpires, Tick, stuttering.
LEMMA StillStep ==
    ASSUME MadeInv, UNCHANGED <<requestVars, files>>,
           \A k \in Pages : cache'[k] \in {cache[k], Nothing}
    PROVE  MadeInv'
  BY DEF MadeInv, requestVars, Answered, MadeFor, Made, Nothing, Failed, File, Base64

LEMMA MadeStep ==
    ASSUME ServiceTypeOK, TabInv, MadeInv, [Next]_vars PROVE MadeInv'
<1>1. CASE UNCHANGED vars
  BY <1>1, StillStep DEF vars
<1>2. CASE ChromeStops \/ CacheExpires \/ Tick
  BY <1>2, StillStep DEF ChromeStops, CacheExpires, Tick, ServiceTypeOK
<1>3. ASSUME NEW r \in Requests, Step(r) PROVE MadeInv'
  <2>0. Frame(r)
    BY <1>3, FrameStep
  <2> USE DEF After, Goto, Answer, ServiceTypeOK
  <2>1. CASE Invalid(r) \/ NoContext(r) \/ TaskFails(r) \/ SaveFails(r)
    BY <2>0, <2>1, QuietStep DEF Invalid, NoContext, TaskFails, SaveFails
  <2>2. CASE GenerateConfig(r) \/ CacheMiss(r) \/ GetContext(r) \/ Navigate(r)
    BY <2>0, <2>2, QuietStep DEF GenerateConfig, CacheMiss, GetContext, Navigate
  <2>3. CASE CacheHit(r)
    <3>1. MadeFor(asked[r], image'[r])
      BY <2>3 DEF CacheHit, Key, MadeInv
    <3>2. QED BY <2>0, <2>3, <3>1, QuietStep DEF CacheHit
  <2>4. CASE Capture(r)
    <3>1. tab \in Pages
      BY <2>4 DEF Capture, TabInv
    <3>2. shot'[r] # None
      BY <2>4, <3>1, ServiceAssumption DEF Capture
    <3>3. QED BY <2>0, <2>4, <3>2, QuietStep DEF Capture
  <2>5. CASE Save(r) \/ Encode(r)
    BY <2>5, SaveStep
  <2>6. CASE CacheResult(r)
    BY <2>6, CacheStep
  <2>7. QED BY <1>3, <2>1, <2>2, <2>3, <2>4, <2>5, <2>6 DEF Step
<1>4. QED BY <1>1, <1>2, <1>3 DEF Next

------------------------------------------------------------------------------
(* Theorems *)

LEMMA ServiceCorrect == Spec => []IInv
<1>1. Init => IInv
  BY TypeInit, TabInit, MadeInit DEF IInv
<1>2. IInv /\ [Next]_vars => IInv'
  BY TypeStep, TabStep, MadeStep DEF IInv
<1>3. QED BY <1>1, <1>2, PTL DEF Spec

\* A picture shows its own page, or that of a request that had a permit at the
\* same time.
THEOREM OwnPageWhenAlone == Spec => []AloneShowsOwnPage
<1>1. IInv => AloneShowsOwnPage
  BY DEF IInv, TabInv
<1>2. QED BY <1>1, ServiceCorrect, PTL

\* Every answer, cached or not, leads to a picture taken for its page, unless
\* another page's request drew the same file name in the same second.
THEOREM PicturesOfRequests == Spec => []PictureOfRequest
<1>1. IInv => PictureOfRequest
  <2> SUFFICES ASSUME IInv, NEW r \in Requests, Answered(r)
               PROVE  LET q == Author(image[r]) IN
                      /\ q # None
                      /\ asked[q] = asked[r]
                         \/ \E p \in Requests \ {q} :
                               asked[p] = asked[r] /\ shot[p] # None
                               /\ name[p] = name[q] /\ image[p] = image[r]
    BY DEF PictureOfRequest
  <2>1. PICK p \in Requests : asked[p] = asked[r] /\ Made(p, image[r])
    BY DEF IInv, MadeInv, MadeFor
  <2>2. CASE name[p] = None
    <3>1. Author(image[r]) = p
      BY <2>1, <2>2 DEF Made, Base64, Author
    <3>2. QED BY <2>1, <3>1, ServiceAssumption
  <2>3. CASE name[p] # None
    <3>1. image[r] = File(name[p]) /\ files[name[p]] # None /\ name[p] \in Names
      BY <2>1, <2>3 DEF Made, IInv, ServiceTypeOK
    <3>2. Author(image[r]) = files[name[p]]
      BY <3>1 DEF File, Author
    <3>3. name[files[name[p]]] = name[p]
      BY <3>1 DEF IInv, MadeInv
    <3>4. shot[p] # None /\ image[p] = image[r]
      BY <2>1 DEF Made
    <3>5. QED BY <2>1, <3>1, <3>2, <3>3, <3>4
  <2>4. QED BY <2>2, <2>3
<1>2. QED BY <1>1, ServiceCorrect, PTL
==============================================================================
