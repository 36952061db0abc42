------------------------ MODULE LegacyScreenshotProofs ------------------------
(***************************************************************************)
(* The circuit breaker for any number of callers, any threshold and any    *)
(* timeout, and the older screenshot routes on it for any requests,        *)
(* permits and rounds.                                                     *)
(*                                                                         *)
(* The breaker: the counting invariant is inductive only together with the *)
(* fact that the history variable run stays below the threshold while      *)
(* closed, which CountIsRun and CountMatchesState give when they are taken *)
(* together.                                                               *)
(*                                                                         *)
(* The routes, in three arguments: the steps of the handlers are, for the  *)
(* breaker, its own steps or stutters (so that what is shown of it holds   *)
(* here); permits and their holders change together; and a file is written *)
(* before anything names it.                                               *)
(*                                                                         *)
(* At the end, the measure StepsLeft counts what is left to a request.     *)
(***************************************************************************)
EXTENDS LegacyScreenshot, FiniteSetTheorems, TLAPS

(* The breaker *)

IInv == TypeOK /\ CountMatchesState /\ CountIsRun

LEMMA InitInv == Init => IInv
  BY BreakerAssumption DEF Init, IInv, TypeOK, CountMatchesState, CountIsRun, States, Expired

LEMMA StepInv == IInv /\ [Next]_vars => IInv'
<1> SUFFICES ASSUME IInv, [Next]_vars PROVE IInv'
  OBVIOUS
<1> USE BreakerAssumption DEF IInv, TypeOK, CountMatchesState, CountIsRun, States, Expired, Move
<1>1. ASSUME NEW c \in Callers, Admit(c) PROVE IInv'
  BY <1>1 DEF Admit
<1>2. ASSUME NEW c \in Callers, Reject(c) PROVE IInv'
  BY <1>2 DEF Reject, vars
<1>3. ASSUME NEW c \in Callers, SeeExpiry(c) PROVE IInv'
  BY <1>3 DEF SeeExpiry
<1>4. ASSUME NEW c \in Callers, HalfOpen(c) PROVE IInv'
  BY <1>4 DEF HalfOpen
<1>5. ASSUME NEW c \in Callers, RecordSuccess(c) PROVE IInv'
  BY <1>5 DEF RecordSuccess
<1>6. ASSUME NEW c \in Callers, RecordFailure(c) PROVE IInv'
  <2>1. CASE state = "closed"
    BY <1>6, <2>1 DEF RecordFailure
  <2>2. CASE state # "closed"
    BY <1>6, <2>2 DEF RecordFailure
  <2>3. QED BY <2>1, <2>2
<1>7. ASSUME NEW c \in Callers, Abandon(c) PROVE IInv'
  BY <1>7 DEF Abandon
<1>8. CASE Tick
  BY <1>8 DEF Tick
<1>9. CASE UNCHANGED vars
  BY <1>9 DEF vars
<1>10. QED
  BY <1>1, <1>2, <1>3, <1>4, <1>5, <1>6, <1>7, <1>8, <1>9 DEF Next

\* Whatever the callers, the threshold and the timeout: the variables keep
\* their types, the count is below the threshold exactly when the breaker is
\* closed, and then it is the number of failures recorded in a row.
THEOREM Counting == Safety => [](TypeOK /\ CountMatchesState /\ CountIsRun)
<1>1. Safety => []IInv
  BY InitInv, StepInv, PTL DEF Safety
<1>2. QED
  BY <1>1, PTL DEF IInv

\* What takes a breaker out of Closed is the failure that completes a run.
LEMMA StepTrips ==
    ASSUME IInv, Next, state = "closed", state' # "closed"
    PROVE  run' = Threshold
<1>1. PICK c \in Callers : RecordFailure(c)
  BY DEF Next, Admit, Reject, SeeExpiry, HalfOpen, RecordSuccess, Abandon, Tick, vars
<1>2. QED
  BY <1>1, BreakerAssumption
     DEF RecordFailure, IInv, TypeOK, CountMatchesState, CountIsRun

\* The breaker leaves Closed only on the failure that completes a run of
\* Threshold recorded failures with no success between them.
THEOREM Trips == Safety => TripsOnlyAfterRun
<1>1. IInv /\ [Next]_vars => [state = "closed" /\ state' # "closed" => run' = Threshold]_vars
  BY StepTrips DEF vars
<1>2. Safety => []IInv
  BY InitInv, StepInv, PTL DEF Safety
<1>3. QED
  BY <1>1, <1>2, PTL DEF Safety, TripsOnlyAfterRun

\* A step of the locked breaker is one of the automaton or a stutter.
LEMMA StepRefines == IInv /\ [Next]_vars => Contract!Next \/ UNCHANGED <<state, failureCount>>
<1> SUFFICES ASSUME IInv, [Next]_vars
             PROVE  Contract!Next \/ UNCHANGED <<state, failureCount>>
  OBVIOUS
<1> USE BreakerAssumption DEF IInv, TypeOK, CountMatchesState, States
<1> DEFINE Goal == Contract!Next \/ UNCHANGED <<state, failureCount>>
<1>1. ASSUME NEW c \in Callers, HalfOpen(c) PROVE Goal
  BY <1>1 DEF HalfOpen, Contract!Next, Contract!Expire
<1>2. ASSUME NEW c \in Callers, RecordSuccess(c) PROVE Goal
  BY <1>2 DEF RecordSuccess, Contract!Next, Contract!Clear, Contract!Recover
<1>3. ASSUME NEW c \in Callers, RecordFailure(c) PROVE Goal
  BY <1>3 DEF RecordFailure, Contract!Next, Contract!Count, Contract!Trip, Contract!Reopen
<1>4. ASSUME NEW c \in Callers, Admit(c) \/ Reject(c) \/ SeeExpiry(c) \/ Abandon(c)
      PROVE Goal
  BY <1>4 DEF Admit, Reject, SeeExpiry, Abandon, vars
<1>5. CASE Tick \/ UNCHANGED vars
  BY <1>5 DEF Tick, vars
<1>6. QED
  BY <1>1, <1>2, <1>3, <1>4, <1>5 DEF Next

\* Every step of the locked, clocked breaker is a step of the automaton its
\* documentation draws, or leaves that automaton where it is.
THEOREM Refines == Safety => Contract!Init /\ [][Contract!Next]_<<state, failureCount>>
<1>1. Init => Contract!Init
  BY DEF Init, Contract!Init
<1>2. IInv /\ [Next]_vars => [Contract!Next]_<<state, failureCount>>
  <2> SUFFICES ASSUME IInv, [Next]_vars
               PROVE  Contract!Next \/ UNCHANGED <<state, failureCount>>
    OBVIOUS
  <2>1. QED BY StepRefines
<1>3. Safety => []IInv
  BY InitInv, StepInv, PTL DEF Safety
<1>4. QED
  BY <1>1, <1>2, <1>3, PTL DEF Safety

------------------------------------------------------------------------------
(* The handlers on the breaker *)

\* A request about to be asked for the second time waits for the write lock.
SecondGap ==
    \E r \in Requests :
        /\ Move(r, "running", "gap")
        /\ UNCHANGED <<state, failureCount, age, grant, run>>

\* What the handlers do to the breaker.
LEMMA BreakerSteps == LegacyNext => Next \/ UNCHANGED vars \/ SecondGap
<1> USE DEF reqVars, storeVars
<1>1. ASSUME NEW r \in Requests,
             \/ EarlyHit(r) \/ EarlyMiss(r) \/ NameUrl(r) \/ NamePath(r) \/ CacheMiss(r)
             \/ OpenPage(r) \/ OpenOwnPage(r) \/ NoContext(r) \/ ContextDone(r) \/ PageFails(r) \/ PageTaken(r) \/ DirectTaken(r)
             \/ Save(r) \/ SaveFails(r) \/ DirectFails(r) \/ Store(r)
      PROVE  UNCHANGED vars
  BY <1>1 DEF EarlyHit, EarlyMiss, NameUrl, NamePath, CacheMiss, OpenPage, OpenOwnPage, NoContext,
              ContextDone, PageFails, PageTaken, DirectTaken, Save, SaveFails, DirectFails, Store, Retry
<1>2. ASSUME NEW r \in Requests, Ask(r) PROVE Next
  BY <1>2 DEF Ask, Next, Requests
<1>3. ASSUME NEW r \in Requests, CacheHit(r) \/ NoDirectory(r) PROVE Next
  BY <1>3 DEF CacheHit, NoDirectory, Next, Requests
<1>4. ASSUME NEW r \in Requests, RunSucceeds(r) \/ RunFails(r) PROVE Next
  BY <1>4 DEF RunSucceeds, RunFails, Next, Requests
<1>5. ASSUME NEW r \in Requests, AskAgain(r) PROVE Next \/ UNCHANGED vars \/ SecondGap
  BY <1>5 DEF AskAgain, Next, SecondGap, Requests
<1>6. ASSUME NEW k \in Routes, Evict(k) PROVE UNCHANGED vars
  BY <1>6 DEF Evict
<1>7. CASE Second
  BY <1>7 DEF Second
<1>8. CASE TickLegacy
  BY <1>8 DEF TickLegacy, Next
<1>9. QED
  BY <1>1, <1>2, <1>3, <1>4, <1>5, <1>6, <1>7, <1>8 DEF LegacyNext, Step

\* The breaker's own invariant is not disturbed by the second question.
LEMMA BreakerInv == IInv /\ [LegacyNext]_legacyVars => IInv'
<1> SUFFICES ASSUME IInv, [LegacyNext]_legacyVars PROVE IInv'
  OBVIOUS
<1>1. CASE SecondGap
  BY <1>1 DEF SecondGap, Move, IInv, TypeOK, CountMatchesState, CountIsRun, States, Expired, Requests
<1>2. CASE Next \/ UNCHANGED vars
  BY <1>2, StepInv
<1>3. QED
  BY <1>1, <1>2, BreakerSteps DEF legacyVars

\* Whatever the requests, the threshold and the timeout, and although every
\* request asks twice and records at most once, the breaker the handlers
\* share takes only steps of the automaton in BreakerContract.
THEOREM KeepsContract == LegacySafety => LegacyContract
<1>1. LegacyInit => Contract!Init
  BY DEF LegacyInit, Init, Contract!Init
<1>2. IInv /\ [LegacyNext]_legacyVars => [Contract!Next]_(Contract!vars)
  <2> SUFFICES ASSUME IInv, [LegacyNext]_legacyVars
               PROVE  Contract!Next \/ UNCHANGED <<state, failureCount>>
    BY DEF Contract!vars
  <2>1. CASE SecondGap \/ UNCHANGED vars
    BY <2>1 DEF SecondGap, vars
  <2>2. CASE Next
    BY <2>2, StepRefines
  <2>3. QED
    BY <2>1, <2>2, BreakerSteps DEF legacyVars
<1>3. LegacyInit => IInv
  BY InitInv DEF LegacyInit
<1>4. QED
  BY <1>1, <1>2, <1>3, BreakerInv, PTL DEF LegacySafety, LegacyContract

------------------------------------------------------------------------------
(* Types *)

ReqTypeOK ==
    /\ route \in [Requests -> Routes]
    /\ at \in [Requests -> Ats]
    /\ tries \in [Requests -> 0..MaxRetries]
    /\ url \in [Requests -> Seconds]
    /\ path \in [Requests -> Seconds]
    /\ image \in [Requests -> Entries]
    /\ answer \in [Requests -> Answers]

StoreTypeOK ==
    /\ cache \in [Routes -> Entries]
    /\ files \in SUBSET Files
    /\ free \in 0..Permits
    /\ second \in Seconds

LEMMA Constants ==
    /\ None \in Entries /\ None.kind = "none"
    /\ \A k \in Routes : Stem(k) \in Routes
    /\ \A s \in Seconds : \A kind \in {"none", "file", "picture", "empty"} :
          Entry(kind, s) \in Entries
    /\ 0 \in Seconds /\ Permits \in Nat /\ MaxRetries \in Nat /\ MaxSecond \in Nat
<1>1. 0 \in Seconds /\ Permits \in Nat /\ MaxRetries \in Nat /\ MaxSecond \in Nat
  BY LegacyAssumption DEF Seconds
<1>2. QED
  BY <1>1 DEF None, Entry, Entries, Stem, Routes, Sites, ItdogRoutes, Direct

LEMMA MadeType == ASSUME ReqTypeOK, NEW r \in Requests PROVE Made(r) \in Entries
<1>1. url[r] \in Seconds
  BY DEF ReqTypeOK
<1>2. QED
  BY <1>1, Constants DEF Made

LEMMA RetryTypes ==
    ASSUME ReqTypeOK, NEW r \in Requests, NEW from, Retry(r, from)
    PROVE  ReqTypeOK'
<1>1. at' \in [Requests -> Ats]
  BY DEF Retry, Goto, ReqTypeOK, Ats
<1>2. tries' \in [Requests -> 0..MaxRetries]
  BY Constants DEF Retry, ReqTypeOK
<1>3. QED
  BY <1>1, <1>2 DEF Retry, ReqTypeOK

LEMMA GoTypes ==
    ASSUME ReqTypeOK, NEW r \in Requests, NEW from, NEW to \in Ats, Go(r, from, to)
    PROVE  ReqTypeOK'
  BY DEF Go, Goto, ReqTypeOK

LEMMA ReplyTypes ==
    ASSUME ReqTypeOK, NEW r \in Requests, NEW from, NEW kind \in Answers, NEW entry \in Entries,
           Reply(r, from, kind, entry)
    PROVE  ReqTypeOK'
  BY DEF Reply, Goto, ReqTypeOK, Ats

LEMMA ReqTypes ==
    ASSUME ReqTypeOK, StoreTypeOK, NEW r \in Requests, Step(r)
    PROVE  ReqTypeOK'
<1> USE Constants
<1>1. {"new", "url", "path", "ask", "lookup", "execute", "attempt", "page", "save",
       "saved", "failed", "store", "over"} \subseteq Ats
  BY DEF Ats
<1>2. {"fresh", "cached", "unavailable", "failed"} \subseteq Answers
  BY DEF Answers
<1>3. route[r] \in Routes /\ cache[route[r]] \in Entries
  BY DEF ReqTypeOK, StoreTypeOK
<1>4. CASE EarlyHit(r) \/ CacheHit(r)
  BY <1>2, <1>3, <1>4, ReplyTypes DEF EarlyHit, CacheHit
<1>5. CASE EarlyMiss(r) \/ OpenPage(r) \/ OpenOwnPage(r) \/ PageTaken(r) \/ DirectTaken(r) \/ Save(r) \/ SaveFails(r) \/ RunSucceeds(r)
  BY <1>1, <1>5, GoTypes DEF EarlyMiss, OpenPage, OpenOwnPage, PageTaken, DirectTaken, Save, SaveFails, RunSucceeds
<1>6. CASE NameUrl(r)
  BY <1>6 DEF NameUrl, Goto, ReqTypeOK, StoreTypeOK, Ats
<1>7. CASE NamePath(r)
  BY <1>7 DEF NamePath, Goto, ReqTypeOK, StoreTypeOK, Ats
<1>8. CASE CacheMiss(r)
  BY <1>8 DEF CacheMiss, Goto, ReqTypeOK, StoreTypeOK, Ats
<1>9. CASE Ask(r)
  <2>1. CASE Go(r, "ask", "lookup")
    BY <1>1, <2>1, GoTypes
  <2>2. CASE UNCHANGED reqVars
    BY <2>2 DEF reqVars, ReqTypeOK
  <2>3. CASE Refuse(r, "ask", "unavailable")
    BY <1>2, <2>3, ReplyTypes DEF Refuse
  <2>4. QED BY <1>9, <2>1, <2>2, <2>3 DEF Ask
<1>10. CASE AskAgain(r)
  <2>1. CASE Go(r, "execute", "attempt")
    BY <1>1, <2>1, GoTypes
  <2>2. CASE UNCHANGED reqVars
    BY <2>2 DEF reqVars, ReqTypeOK
  <2>3. CASE Refuse(r, "execute", "unavailable")
    BY <1>2, <2>3, ReplyTypes DEF Refuse
  <2>4. QED BY <1>10, <2>1, <2>2, <2>3 DEF AskAgain, reqVars
<1>11. CASE NoDirectory(r) \/ RunFails(r) \/ DirectFails(r)
  BY <1>2, <1>11, ReplyTypes DEF NoDirectory, RunFails, DirectFails, Refuse
<1>12. CASE NoContext(r) \/ ContextDone(r) \/ PageFails(r)
  BY <1>12, RetryTypes DEF NoContext, ContextDone, PageFails
<1>13. CASE Store(r)
  BY <1>2, <1>13, MadeType, ReplyTypes DEF Store
<1>14. QED
  BY <1>4, <1>5, <1>6, <1>7, <1>8, <1>9, <1>10, <1>11, <1>12, <1>13 DEF Step

------------------------------------------------------------------------------
(* Permits *)

LEMMA HoldersFinite ==
    /\ IsFiniteSet(Holders)
    /\ Cardinality(Holders) \in Nat
    /\ \A r \in Holders : Cardinality(Holders) >= 1
<1>1. IsFiniteSet(Holders)
  BY LegacyAssumption, FS_Subset DEF Holders, Requests
<1>2. Cardinality(Holders) \in Nat
  BY <1>1, FS_CardinalityType
<1>3. ASSUME NEW r \in Holders PROVE Cardinality(Holders) >= 1
  BY <1>1, <1>2, FS_EmptySet
<1>4. QED BY <1>1, <1>2, <1>3

\* Everything but opening and leaving a page leaves the holders alone.
Elsewhere(r) ==
    \/ EarlyHit(r) \/ EarlyMiss(r) \/ NameUrl(r) \/ NamePath(r)
    \/ Ask(r) \/ CacheHit(r) \/ CacheMiss(r) \/ NoDirectory(r) \/ AskAgain(r)
    \/ NoContext(r) \/ Save(r) \/ SaveFails(r) \/ RunSucceeds(r) \/ RunFails(r)
    \/ DirectFails(r) \/ Store(r)

LEMMA ElsewhereHolders ==
    ASSUME ReqTypeOK, NEW r \in Requests, Elsewhere(r)
    PROVE  Holders' = Holders /\ free' = free
<1> USE DEF Goto, storeVars, reqVars
<1>1. route' = route /\ free' = free
  BY DEF Elsewhere, EarlyHit, EarlyMiss, NameUrl, NamePath, Ask, CacheHit, CacheMiss, NoDirectory,
         AskAgain, NoContext, Retry, Save, SaveFails, RunSucceeds, RunFails, DirectFails, Store,
         Go, Reply, Refuse
<1>2. \A q \in Requests : at'[q] = "page" <=> at[q] = "page"
  <2>1. CASE at' = at
    BY <2>1
  <2>2. ASSUME NEW from, NEW to, from # "page", to # "page", Goto(r, from, to)
        PROVE  \A q \in Requests : at'[q] = "page" <=> at[q] = "page"
    BY <2>2 DEF ReqTypeOK
  <2>3. at' = at \/ \E from, to \in Ats \ {"page"} : Goto(r, from, to)
    BY DEF Elsewhere, EarlyHit, EarlyMiss, NameUrl, NamePath, Ask, CacheHit, CacheMiss, NoDirectory,
           AskAgain, NoContext, Retry, Save, SaveFails, RunSucceeds, RunFails, DirectFails, Store,
           Go, Reply, Refuse, Ats
  <2>4. QED BY <2>1, <2>2, <2>3
<1>3. QED
  BY <1>1, <1>2 DEF Holders, UsesTool

LEMMA PermitStep ==
    ASSUME ReqTypeOK, StoreTypeOK, PermitsBalance, NEW r \in Requests, Step(r)
    PROVE  PermitsBalance' /\ free' \in 0..Permits
<1> USE Constants, HoldersFinite
<1>1. CASE Elsewhere(r)
  BY <1>1, ElsewhereHolders DEF PermitsBalance, StoreTypeOK
<1>2. ASSUME ~UsesTool(r), OpenOwnPage(r) \/ DirectTaken(r) \/ PageFails(r) \/ PageTaken(r)
      PROVE  PermitsBalance' /\ free' \in 0..Permits
  <2>1. route' = route /\ free' = free
    BY <1>2 DEF OpenOwnPage, DirectTaken, PageFails, PageTaken, Cancel, Retry, Go, storeVars
  <2>2. \A q \in Requests : q # r => at'[q] = at[q]
    BY <1>2 DEF OpenOwnPage, DirectTaken, PageFails, PageTaken, Retry, Go, Goto, ReqTypeOK
  <2>3. Holders' = Holders
    BY <1>2, <2>1, <2>2 DEF Holders, UsesTool
  <2>4. QED BY <2>1, <2>3 DEF PermitsBalance, StoreTypeOK
<1>3. ASSUME UsesTool(r), OpenPage(r) PROVE PermitsBalance' /\ free' \in 0..Permits
  <2>1. route' = route /\ free > 0 /\ free' = free - 1 /\ at' = [at EXCEPT ![r] = "page"]
        /\ at[r] = "attempt"
    BY <1>3 DEF OpenPage, Go, Goto
  <2>2. r \notin Holders /\ Holders' = Holders \cup {r}
    BY <1>3, <2>1 DEF Holders, UsesTool, ReqTypeOK
  <2>3. Cardinality(Holders') = Cardinality(Holders) + 1
    BY <2>2, FS_AddElement
  <2>4. QED BY <2>1, <2>3 DEF PermitsBalance, StoreTypeOK
<1>4. ASSUME UsesTool(r), ContextDone(r) \/ PageFails(r) \/ PageTaken(r)
      PROVE  PermitsBalance' /\ free' \in 0..Permits
  <2>1. route' = route /\ free' = free + 1 /\ at[r] = "page"
    BY <1>4 DEF ContextDone, PageFails, PageTaken, Cancel, Retry, Go, Goto
  <2>2. at'[r] # "page" /\ \A q \in Requests : q # r => at'[q] = at[q]
    BY <1>4 DEF ContextDone, PageFails, PageTaken, Retry, Go, Goto, ReqTypeOK
  <2>3. r \in Holders /\ Holders' = Holders \ {r}
    BY <1>4, <2>1, <2>2 DEF Holders, UsesTool
  <2>4. Cardinality(Holders') = Cardinality(Holders) - 1
    BY <2>3, FS_RemoveElement
  <2>5. QED BY <2>1, <2>3, <2>4 DEF PermitsBalance, StoreTypeOK
<1>5. QED
  BY <1>1, <1>2, <1>3, <1>4 DEF Step, Elsewhere, OpenPage, OpenOwnPage, DirectTaken, ContextDone,
     UsesTool, ItdogRoutes, Direct

LEMMA StoreTypes ==
    ASSUME ReqTypeOK, StoreTypeOK, PermitsBalance, NEW r \in Requests, Step(r)
    PROVE  StoreTypeOK'
<1> USE Constants, MadeType
<1>1. free' \in 0..Permits
  BY PermitStep
<1>2. second' = second
  BY DEF Step, EarlyHit, EarlyMiss, NameUrl, NamePath, Ask, CacheHit, CacheMiss, NoDirectory,
         AskAgain, OpenPage, OpenOwnPage, NoContext, ContextDone, PageFails, PageTaken, DirectTaken, Retry, Save, SaveFails,
         RunSucceeds, RunFails, DirectFails, Store, storeVars
<1>3. files' \in SUBSET Files
  <2>1. files' = files \/ files' = files \cup {<<Stem(route[r]), path[r]>>}
    BY DEF Step, EarlyHit, EarlyMiss, NameUrl, NamePath, Ask, CacheHit, CacheMiss, NoDirectory,
           AskAgain, OpenPage, OpenOwnPage, NoContext, ContextDone, PageFails, PageTaken, DirectTaken, Retry, Save, SaveFails,
           RunSucceeds, RunFails, DirectFails, Store, storeVars
  <2>2. <<Stem(route[r]), path[r]>> \in Files
    BY DEF ReqTypeOK, Files
  <2>3. QED BY <2>1, <2>2 DEF StoreTypeOK
<1>4. cache' \in [Routes -> Entries]
  <2>1. cache' = cache \/ cache' = [cache EXCEPT ![route[r]] = Made(r)]
    BY DEF Step, EarlyHit, EarlyMiss, NameUrl, NamePath, Ask, CacheHit, CacheMiss, NoDirectory,
           AskAgain, OpenPage, OpenOwnPage, NoContext, ContextDone, PageFails, PageTaken, DirectTaken, Retry, Save, SaveFails,
           RunSucceeds, RunFails, DirectFails, Store, storeVars
  <2>2. QED BY <2>1 DEF StoreTypeOK
<1>5. QED
  BY <1>1, <1>2, <1>3, <1>4 DEF StoreTypeOK

TInv == IInv /\ ReqTypeOK /\ StoreTypeOK /\ PermitsBalance

LEMMA TInvInit == LegacyInit => TInv
<1> SUFFICES ASSUME LegacyInit PROVE TInv
  OBVIOUS
<1> USE Constants DEF LegacyInit
<1>1. IInv
  BY InitInv
<1>2. ReqTypeOK
  <2>1. route \in [Requests -> Routes]
    BY DEF Routes, Sites
  <2>2. QED BY <2>1 DEF ReqTypeOK, Ats, Answers
<1>3. StoreTypeOK
  BY DEF StoreTypeOK
<1>4. PermitsBalance
  <2>1. Holders = {}
    BY DEF Holders
  <2>2. QED BY <2>1, FS_EmptySet DEF PermitsBalance
<1>5. QED BY <1>1, <1>2, <1>3, <1>4 DEF TInv

LEMMA TInvStep == TInv /\ [LegacyNext]_legacyVars => TInv'
<1> SUFFICES ASSUME TInv, [LegacyNext]_legacyVars PROVE TInv'
  OBVIOUS
<1> USE Constants DEF TInv
<1>1. IInv'
  BY BreakerInv
<1>2. ASSUME NEW r \in Requests, Step(r) PROVE ReqTypeOK' /\ StoreTypeOK' /\ PermitsBalance'
  BY <1>2, ReqTypes, StoreTypes, PermitStep
<1>3. ASSUME UNCHANGED reqVars, free' = free, StoreTypeOK'
      PROVE  ReqTypeOK' /\ StoreTypeOK' /\ PermitsBalance'
  BY <1>3 DEF reqVars, ReqTypeOK, PermitsBalance, Holders, UsesTool
<1>4. ASSUME NEW k \in Routes, Evict(k)
      PROVE  UNCHANGED reqVars /\ free' = free /\ StoreTypeOK'
  BY <1>4 DEF Evict, StoreTypeOK, reqVars
<1>5. ASSUME Second \/ TickLegacy \/ UNCHANGED legacyVars
      PROVE  UNCHANGED reqVars /\ free' = free /\ StoreTypeOK'
  BY <1>5 DEF Second, TickLegacy, legacyVars, storeVars, StoreTypeOK, Seconds
<1>6. QED
  BY <1>1, <1>2, <1>3, <1>4, <1>5 DEF LegacyNext

\* Whatever the requests, permits and rounds: the variables keep their types
\* and no way out of a round loses a permit of the Chrome tool or gives one
\* back twice.
THEOREM PermitsKept == LegacySafety => [](LegacyTypeOK /\ PermitsBalance)
<1>1. TInv => LegacyTypeOK /\ PermitsBalance
  BY DEF TInv, IInv, ReqTypeOK, StoreTypeOK, LegacyTypeOK
<1>2. QED
  BY <1>1, TInvInit, TInvStep, PTL DEF LegacySafety

\* The abstract specification, with the ITDog runs in a page as the holders.
Channel == INSTANCE PermitContract
               WITH Tasks <- Requests, MaxConcurrent <- Permits,
                    permits <- Permits - free, holders <- Holders

LEMMA PermitMove ==
    ASSUME TInv, [LegacyNext]_legacyVars
    PROVE  UNCHANGED <<free, Holders>> \/ \E r \in Requests : Channel!TakePermit(r) \/ Channel!Release(r)
<1> USE Constants, HoldersFinite DEF TInv
<1>0. free \in 0..Permits /\ Permits - free = Cardinality(Holders)
  BY DEF StoreTypeOK, PermitsBalance
<1>1. ASSUME NEW r \in Requests, Elsewhere(r) PROVE UNCHANGED <<free, Holders>>
  BY <1>1, ElsewhereHolders
<1>2. ASSUME NEW r \in Requests,
             ~UsesTool(r), OpenOwnPage(r) \/ DirectTaken(r) \/ PageFails(r) \/ PageTaken(r)
      PROVE  UNCHANGED <<free, Holders>>
  <2>1. route' = route /\ free' = free
    BY <1>2 DEF OpenOwnPage, DirectTaken, PageFails, PageTaken, Cancel, Retry, Go, storeVars
  <2>2. \A q \in Requests : q # r => at'[q] = at[q]
    BY <1>2 DEF OpenOwnPage, DirectTaken, PageFails, PageTaken, Retry, Go, Goto, ReqTypeOK
  <2>3. Holders' = Holders
    BY <1>2, <2>1, <2>2 DEF Holders, UsesTool
  <2> QED BY <2>1, <2>3
<1>3. ASSUME NEW r \in Requests, UsesTool(r), OpenPage(r) PROVE Channel!TakePermit(r)
  <2>1. route' = route /\ free > 0 /\ free' = free - 1 /\ at' = [at EXCEPT ![r] = "page"]
        /\ at[r] = "attempt"
    BY <1>3 DEF OpenPage, Go, Goto
  <2>2. r \notin Holders /\ Holders' = Holders \cup {r}
    BY <1>3, <2>1 DEF Holders, UsesTool, ReqTypeOK
  <2>3. Permits - free < Permits /\ Permits - free' = Permits - free + 1
    BY <1>0, <2>1
  <2> QED BY <2>2, <2>3 DEF Channel!TakePermit
<1>4. ASSUME NEW r \in Requests, UsesTool(r), ContextDone(r) \/ PageFails(r) \/ PageTaken(r)
      PROVE  Channel!Release(r)
  <2>1. route' = route /\ free' = free + 1 /\ at[r] = "page"
    BY <1>4 DEF ContextDone, PageFails, PageTaken, Cancel, Retry, Go, Goto
  <2>2. at'[r] # "page" /\ \A q \in Requests : q # r => at'[q] = at[q]
    BY <1>4 DEF ContextDone, PageFails, PageTaken, Retry, Go, Goto, ReqTypeOK
  <2>3. r \in Holders /\ Holders' = Holders \ {r}
    BY <1>4, <2>1, <2>2 DEF Holders, UsesTool
  <2>4. Permits - free > 0 /\ Permits - free' = Permits - free - 1
    BY <1>0, <2>1, <2>3
  <2> QED BY <2>3, <2>4 DEF Channel!Release
<1>5. ASSUME NEW r \in Requests, Step(r)
      PROVE  UNCHANGED <<free, Holders>> \/ Channel!TakePermit(r) \/ Channel!Release(r)
  BY <1>1, <1>2, <1>3, <1>4, <1>5 DEF Step, Elsewhere, OpenPage, OpenOwnPage, DirectTaken,
     ContextDone, UsesTool, ItdogRoutes, Direct
<1>6. ASSUME \/ \E k \in Routes : Evict(k)
             \/ Second \/ TickLegacy \/ UNCHANGED legacyVars
      PROVE  UNCHANGED <<free, Holders>>
  BY <1>6 DEF Evict, Second, TickLegacy, legacyVars, storeVars, reqVars, Holders, UsesTool
<1> QED
  BY <1>5, <1>6 DEF LegacyNext

\* The rounds of the ITDog routes implement the contract of permits: each way
\* out of a round gives back the permit of its own round, and that receive
\* never waits.
THEOREM RoundsRefine == LegacySafety => Channel!Spec
<1>1. LegacyInit => Channel!Init
  <2>1. LegacyInit => Holders = {}
    BY DEF LegacyInit, Holders
  <2>2. LegacyInit => Permits - free = 0
    BY Constants DEF LegacyInit
  <2> QED BY <2>1, <2>2 DEF Channel!Init
<1>2. TInv /\ [LegacyNext]_legacyVars => [Channel!Next]_(Channel!vars)
  <2> SUFFICES ASSUME TInv, [LegacyNext]_legacyVars PROVE [Channel!Next]_(Channel!vars)
    OBVIOUS
  <2>1. UNCHANGED <<free, Holders>> => UNCHANGED Channel!vars
    BY DEF Channel!vars
  <2> QED BY <2>1, PermitMove DEF Channel!Next
<1>3. QED BY <1>1, <1>2, TInvInit, TInvStep, PTL DEF LegacySafety, Channel!Spec

------------------------------------------------------------------------------
(* Failures *)

\* A request has its answer when it is over, and the failures recorded since
\* the last success are failures of requests.
FInv ==
    /\ \A r \in Requests : at[r] # "over" => answer[r] = "none"
    /\ run <= Cardinality(Failed)
    /\ OpenMeansFailures

LEMMA FailedFinite ==
    /\ IsFiniteSet(Failed) /\ Cardinality(Failed) \in Nat
    /\ IsFiniteSet(Failed') /\ Cardinality(Failed') \in Nat
<1>1. IsFiniteSet(Failed) /\ IsFiniteSet(Failed')
  BY LegacyAssumption, FS_Subset DEF Failed, Requests
<1>2. QED
  BY <1>1, FS_CardinalityType

\* An answer is given once, at the end.
LEMMA AnswerOnce ==
    ASSUME ReqTypeOK, NEW r \in Requests, Step(r)
    PROVE  \/ answer' = answer /\ \A q \in Requests : at'[q] = "over" <=> at[q] = "over"
           \/ /\ at[r] # "over"
              /\ at' = [at EXCEPT ![r] = "over"]
              /\ \E a \in Answers \ {"none"} : answer' = [answer EXCEPT ![r] = a]
<1>1. CASE UNCHANGED reqVars
  BY <1>1 DEF reqVars
<1>2. ASSUME NEW from, NEW to, from # "over", to # "over", Goto(r, from, to), answer' = answer
      PROVE  answer' = answer /\ \A q \in Requests : at'[q] = "over" <=> at[q] = "over"
  BY <1>2 DEF Goto, ReqTypeOK
<1>3. ASSUME NEW from, NEW kind \in Answers \ {"none"}, NEW entry, from # "over", Reply(r, from, kind, entry)
      PROVE  /\ at[r] # "over" /\ at' = [at EXCEPT ![r] = "over"]
             /\ \E a \in Answers \ {"none"} : answer' = [answer EXCEPT ![r] = a]
  BY <1>3 DEF Reply, Goto
<1>4. {"fresh", "cached", "unavailable", "failed"} \subseteq Answers \ {"none"}
  BY DEF Answers
<1>5. CASE EarlyMiss(r) \/ NameUrl(r) \/ NamePath(r) \/ CacheMiss(r) \/ OpenPage(r) \/ OpenOwnPage(r)
           \/ NoContext(r) \/ ContextDone(r) \/ PageFails(r) \/ PageTaken(r) \/ DirectTaken(r)
           \/ Save(r) \/ SaveFails(r) \/ RunSucceeds(r)
  BY <1>2, <1>5 DEF EarlyMiss, NameUrl, NamePath, CacheMiss, OpenPage, OpenOwnPage, NoContext, ContextDone,
                    PageFails, PageTaken, DirectTaken, Save, SaveFails, RunSucceeds, Retry, Go
<1>6. CASE EarlyHit(r) \/ CacheHit(r) \/ NoDirectory(r) \/ RunFails(r) \/ DirectFails(r) \/ Store(r)
  BY <1>3, <1>4, <1>6 DEF EarlyHit, CacheHit, NoDirectory, RunFails, DirectFails, Store, Refuse
<1>7. CASE Ask(r)
  BY <1>1, <1>2, <1>3, <1>4, <1>7 DEF Ask, Go, Refuse
<1>8. CASE AskAgain(r)
  BY <1>1, <1>2, <1>3, <1>4, <1>8 DEF AskAgain, Go, Refuse, reqVars
<1>9. QED
  BY <1>5, <1>6, <1>7, <1>8 DEF Step

\* Only the end of a failed run adds to the failures in a row.
LEMMA RunGrows ==
    ASSUME IInv, NEW r \in Requests, Step(r)
    PROVE  run' <= run \/ (run' <= run + 1 /\ RunFails(r))
<1> USE BreakerAssumption DEF IInv, TypeOK
<1>1. CASE RunFails(r)
  BY <1>1 DEF RunFails, RecordFailure
<1>2. CASE RunSucceeds(r)
  BY <1>2 DEF RunSucceeds, RecordSuccess
<1>3. CASE ~RunFails(r) /\ ~RunSucceeds(r)
  <2>1. run' = run
    BY <1>3 DEF Step, EarlyHit, EarlyMiss, NameUrl, NamePath, Ask, CacheHit, CacheMiss, NoDirectory,
         AskAgain, OpenPage, OpenOwnPage, NoContext, ContextDone, PageFails, PageTaken, DirectTaken, Retry, Save, SaveFails,
         DirectFails, Store, vars, Admit, HalfOpen, SeeExpiry, Reject, Abandon
  <2>2. QED BY <2>1
<1>4. QED BY <1>1, <1>2, <1>3

LEMMA FInvStep == TInv /\ FInv /\ [LegacyNext]_legacyVars => FInv'
<1> SUFFICES ASSUME TInv, FInv, [LegacyNext]_legacyVars PROVE FInv'
  OBVIOUS
<1> USE FailedFinite, BreakerAssumption DEF TInv
<1> DEFINE Told == \A r \in Requests : at[r] # "over" => answer[r] = "none"
<1>1. run \in Nat /\ run' \in Nat
  <2>1. IInv'
    BY BreakerInv
  <2>2. QED BY <2>1 DEF IInv, TypeOK
<1>2. Told' /\ Failed \subseteq Failed' /\ run' <= Cardinality(Failed')
  <2>1. ASSUME NEW r \in Requests, Step(r)
        PROVE  Told' /\ Failed \subseteq Failed'
    BY <2>1, AnswerOnce DEF FInv, Failed, ReqTypeOK
  <2>2. ASSUME NEW r \in Requests, RunFails(r)
        PROVE  Cardinality(Failed') = Cardinality(Failed) + 1
    <3>1. r \notin Failed /\ Failed' = Failed \cup {r}
      BY <2>2 DEF RunFails, Refuse, Reply, Goto, FInv, Failed, ReqTypeOK
    <3>2. QED BY <3>1, FS_AddElement
  <2>3. ASSUME NEW r \in Requests, Step(r)
        PROVE  run' <= Cardinality(Failed')
    <3>1. Cardinality(Failed) <= Cardinality(Failed')
      BY <2>1, <2>3, FS_Subset
    <3>2. QED BY <1>1, <2>2, <2>3, <3>1, RunGrows DEF FInv
  <2>4. ASSUME UNCHANGED reqVars, run' = run
        PROVE  Told' /\ Failed \subseteq Failed' /\ run' <= Cardinality(Failed')
    <3>1. Failed' = Failed
      BY <2>4 DEF reqVars, Failed
    <3>2. QED BY <2>4, <3>1 DEF reqVars, FInv
  <2>5. ASSUME (\E k \in Routes : Evict(k)) \/ Second \/ TickLegacy \/ UNCHANGED legacyVars
        PROVE  UNCHANGED reqVars /\ run' = run
    BY <2>5 DEF Evict, Second, TickLegacy, Tick, legacyVars, vars, reqVars
  <2>6. QED BY <2>1, <2>3, <2>4, <2>5 DEF LegacyNext
<1>3. OpenMeansFailures'
  <2> SUFFICES ASSUME state' # "closed" PROVE Cardinality(Failed') >= Threshold
    BY DEF OpenMeansFailures
  <2>1. CASE state # "closed"
    <3>1. Cardinality(Failed) <= Cardinality(Failed')
      BY <1>2, FS_Subset
    <3>2. QED BY <2>1, <3>1 DEF FInv, OpenMeansFailures
  <2>2. CASE state = "closed"
    <3>1. Next
      BY <2>2, BreakerSteps DEF SecondGap, vars, legacyVars
    <3>2. run' = Threshold
      BY <2>2, <3>1, StepTrips
    <3>3. QED BY <1>2, <3>2
  <2>3. QED BY <2>1, <2>2
<1>4. QED BY <1>2, <1>3 DEF FInv

\* Whatever the requests, the threshold and the rounds of a run: while the
\* breaker is not closed, Threshold requests have been told of a failure.
THEOREM OpensForFailures == LegacySafety => []OpenMeansFailures
<1>1. LegacyInit => FInv
  <2> SUFFICES ASSUME LegacyInit PROVE FInv
    OBVIOUS
  <2>1. Failed = {}
    BY DEF LegacyInit, Failed
  <2>2. Cardinality(Failed) = 0
    BY <2>1, FS_EmptySet
  <2>3. QED BY <2>2 DEF LegacyInit, Init, FInv, OpenMeansFailures
<1>2. FInv => OpenMeansFailures
  BY DEF FInv
<1>3. QED
  BY <1>1, <1>2, TInvInit, TInvStep, FInvStep, PTL DEF LegacySafety

------------------------------------------------------------------------------
(* Pictures *)

\* What an entry of a route may be.
Good(k, entry) ==
    entry.kind = "none" \/ Shows(k, entry) \/ k = "tableBase64" \/ Torn(k)

\* A run has written its file before it stores anything; Screenshot draws one
\* name; and names are drawn before the breaker is asked.
PInv ==
    /\ \A r \in Requests : at[r] \in {"saved", "store"} /\ route[r] \notin Direct =>
          <<Stem(route[r]), path[r]>> \in files
    /\ \A r \in Requests : at[r] = "new" \/ route[r] \in Sites => url[r] = path[r]
    /\ \A r \in Requests : at[r] \in {"url", "path"} => route[r] \notin Sites
    /\ \A k \in Routes : Good(k, cache[k]) /\ (cache[k] # None => cache[k].kind # "none")
    /\ \A r \in Requests : Good(route[r], image[r])
    /\ \A r \in Requests : answer[r] \in {"fresh", "cached"} => image[r].kind # "none"

\* Files stay, routes stay, and names are not drawn again.
LEMMA Lasting ==
    ASSUME ReqTypeOK, PInv, NEW r \in Requests, Step(r)
    PROVE  /\ route' = route
           /\ files \subseteq files'
           /\ \A k : Torn(k) => Torn(k)'
<1>1. route' = route /\ files \subseteq files'
  BY DEF Step, EarlyHit, EarlyMiss, NameUrl, NamePath, Ask, CacheHit, CacheMiss, NoDirectory,
         AskAgain, OpenPage, OpenOwnPage, NoContext, ContextDone, PageFails, PageTaken, DirectTaken, Retry, Save, SaveFails,
         RunSucceeds, RunFails, DirectFails, Store, storeVars, reqVars, Go, Reply, Refuse
<1>2. ASSUME NEW q \in Requests, at[q] \notin {"url", "path"}, url[q] # path[q]
      PROVE  at'[q] \notin {"url", "path"} /\ url'[q] = url[q] /\ path'[q] = path[q]
  <2>1. at[q] # "new" /\ route[q] \notin Sites
    BY <1>2 DEF PInv
  <2>2. ASSUME NEW from, NEW to, to \notin {"url", "path"} \/ r # q,
               Goto(r, from, to), url' = url, path' = path
        PROVE  at'[q] \notin {"url", "path"} /\ url'[q] = url[q] /\ path'[q] = path[q]
    BY <1>2, <2>2 DEF Goto, ReqTypeOK
  <2>3. CASE UNCHANGED reqVars
    BY <1>2, <2>3 DEF reqVars
  <2>4. CASE EarlyMiss(r)
    BY <2>1, <2>2, <2>4 DEF EarlyMiss, Go, Goto
  <2>5. CASE NameUrl(r) \/ NamePath(r)
    BY <1>2, <2>5 DEF NameUrl, NamePath, Goto, ReqTypeOK
  <2>6. CASE CacheMiss(r)
    BY <1>2, <2>1, <2>6 DEF CacheMiss, Goto, ReqTypeOK
  <2>7. CASE EarlyHit(r) \/ CacheHit(r) \/ NoDirectory(r) \/ RunFails(r) \/ DirectFails(r) \/ Store(r)
    BY <2>2, <2>7 DEF EarlyHit, CacheHit, NoDirectory, RunFails, DirectFails, Store, Refuse, Reply
  <2>8. CASE OpenPage(r) \/ OpenOwnPage(r) \/ PageTaken(r) \/ DirectTaken(r) \/ Save(r) \/ SaveFails(r) \/ RunSucceeds(r)
    BY <2>2, <2>8 DEF OpenPage, OpenOwnPage, PageTaken, DirectTaken, Save, SaveFails, RunSucceeds, Go
  <2>9. CASE NoContext(r) \/ ContextDone(r) \/ PageFails(r)
    BY <2>2, <2>9 DEF NoContext, ContextDone, PageFails, Retry
  <2>10. CASE Ask(r)
    BY <2>2, <2>3, <2>10 DEF Ask, Go, Refuse, Reply
  <2>11. CASE AskAgain(r)
    BY <2>2, <2>3, <2>11 DEF AskAgain, Go, Refuse, Reply, reqVars
  <2>12. QED
    BY <2>4, <2>5, <2>6, <2>7, <2>8, <2>9, <2>10, <2>11 DEF Step
<1>3. ASSUME NEW k, Torn(k) PROVE Torn(k)'
  <2>1. PICK q \in Requests : route[q] = k /\ at[q] \notin {"url", "path"} /\ url[q] # path[q]
    BY <1>3 DEF Torn
  <2>2. at'[q] \notin {"url", "path"} /\ url'[q] # path'[q]
    BY <1>2, <2>1
  <2>3. QED BY <1>1, <2>1, <2>2 DEF Torn
<1>4. QED BY <1>1, <1>3

LEMMA GoodLasts ==
    ASSUME ReqTypeOK, PInv, NEW r \in Requests, Step(r), NEW k \in Routes, NEW entry, Good(k, entry)
    PROVE  \/ entry.kind = "none" \/ entry.kind = "picture"
           \/ entry.kind = "file" /\ <<Stem(k), entry.second>> \in files'
           \/ k = "tableBase64" \/ Torn(k)'
  BY Lasting DEF Good, Shows

\* What a request stores is good, as its file is there.
LEMMA MadeGood ==
    ASSUME ReqTypeOK, PInv, NEW r \in Requests, at[r] = "store"
    PROVE  Good(route[r], Made(r)) /\ Made(r).kind # "none"
<1>1. CASE route[r] \in Direct \/ route[r] = "tableBase64"
  BY <1>1 DEF Made, Entry, Good, Shows, Direct
<1>2. CASE route[r] \notin Direct /\ route[r] # "tableBase64"
  <2>1. Made(r).kind = "file" /\ Made(r).second = url[r]
    BY <1>2 DEF Made, Entry
  <2>2. <<Stem(route[r]), path[r]>> \in files
    BY <1>2 DEF PInv
  <2>3. CASE url[r] = path[r]
    BY <2>1, <2>2, <2>3 DEF Good, Shows
  <2>4. CASE url[r] # path[r]
    BY <2>1, <2>4 DEF Good, Torn
  <2>5. QED BY <2>1, <2>3, <2>4
<1>3. QED BY <1>1, <1>2

\* The file of a run that has got so far is there, also after any step.
LEMMA SavedStep ==
    ASSUME ReqTypeOK, PInv, NEW r \in Requests, Step(r),
           NEW q \in Requests, at'[q] \in {"saved", "store"}, route[q] \notin Direct
    PROVE  <<Stem(route[q]), path'[q]>> \in files'
<1> USE DEF Goto
<1>1. files \subseteq files'
  BY Lasting
<1>2. CASE Save(r) /\ q = r
  BY <1>2 DEF Save, Go, ReqTypeOK
<1>3. CASE ~(Save(r) /\ q = r)
  <2>1. at[q] \in {"saved", "store"} /\ path'[q] = path[q]
    <3>1. CASE EarlyMiss(r) \/ OpenPage(r) \/ OpenOwnPage(r) \/ PageTaken(r) \/ DirectTaken(r) \/ Save(r) \/ SaveFails(r) \/ RunSucceeds(r)
      BY <1>3, <3>1 DEF EarlyMiss, OpenPage, OpenOwnPage, PageTaken, DirectTaken, Save, SaveFails, RunSucceeds, Go, ReqTypeOK
    <3>2. CASE NameUrl(r) \/ NamePath(r) \/ CacheMiss(r)
      BY <3>2 DEF NameUrl, NamePath, CacheMiss, ReqTypeOK
    <3>3. CASE EarlyHit(r) \/ CacheHit(r) \/ NoDirectory(r) \/ RunFails(r) \/ DirectFails(r) \/ Store(r)
      BY <3>3 DEF EarlyHit, CacheHit, NoDirectory, RunFails, DirectFails, Store, Refuse, Reply, ReqTypeOK
    <3>4. CASE NoContext(r) \/ ContextDone(r) \/ PageFails(r)
      BY <3>4 DEF NoContext, ContextDone, PageFails, Retry, ReqTypeOK
    <3>5. CASE Ask(r) \/ AskAgain(r)
      BY <3>5 DEF Ask, AskAgain, Go, Refuse, Reply, reqVars, ReqTypeOK
    <3>6. QED BY <3>1, <3>2, <3>3, <3>4, <3>5 DEF Step
  <2>2. QED BY <1>1, <2>1 DEF PInv
<1>4. QED BY <1>2, <1>3

LEMMA NamesStep ==
    ASSUME ReqTypeOK, PInv, NEW r \in Requests, Step(r), NEW q \in Requests
    PROVE  /\ at'[q] = "new" \/ route[q] \in Sites => url'[q] = path'[q]
           /\ at'[q] \in {"url", "path"} => route[q] \notin Sites
<1> USE DEF Goto
<1>1. CASE EarlyMiss(r) \/ OpenPage(r) \/ OpenOwnPage(r) \/ PageTaken(r) \/ DirectTaken(r) \/ Save(r) \/ SaveFails(r) \/ RunSucceeds(r)
  BY <1>1 DEF EarlyMiss, OpenPage, OpenOwnPage, PageTaken, DirectTaken, Save, SaveFails, RunSucceeds, Go, ReqTypeOK, PInv
<1>2. CASE NameUrl(r) \/ NamePath(r)
  BY <1>2 DEF NameUrl, NamePath, ReqTypeOK, PInv
<1>3. CASE CacheMiss(r)
  BY <1>3 DEF CacheMiss, ReqTypeOK, PInv
<1>4. CASE EarlyHit(r) \/ CacheHit(r) \/ NoDirectory(r) \/ RunFails(r) \/ DirectFails(r) \/ Store(r)
  BY <1>4 DEF EarlyHit, CacheHit, NoDirectory, RunFails, DirectFails, Store, Refuse, Reply, ReqTypeOK, PInv
<1>5. CASE NoContext(r) \/ ContextDone(r) \/ PageFails(r)
  BY <1>5 DEF NoContext, ContextDone, PageFails, Retry, ReqTypeOK, PInv
<1>6. CASE Ask(r) \/ AskAgain(r)
  BY <1>6 DEF Ask, AskAgain, Go, Refuse, Reply, reqVars, ReqTypeOK, PInv
<1>7. QED BY <1>1, <1>2, <1>3, <1>4, <1>5, <1>6 DEF Step

\* Entries come from Store, and answers show nothing, an entry or what was
\* just made.
LEMMA Sources ==
    ASSUME NEW r \in Requests, Step(r)
    PROVE  /\ cache' = cache \/ (at[r] = "store" /\ cache' = [cache EXCEPT ![route[r]] = Made(r)])
           /\ \/ image' = image /\ answer' = answer
              \/ \E kind \in {"unavailable", "failed"} :
                    image' = [image EXCEPT ![r] = None] /\ answer' = [answer EXCEPT ![r] = kind]
              \/ /\ cache[route[r]] # None
                 /\ image' = [image EXCEPT ![r] = cache[route[r]]]
                 /\ answer' = [answer EXCEPT ![r] = "cached"]
              \/ /\ at[r] = "store"
                 /\ image' = [image EXCEPT ![r] = Made(r)]
                 /\ answer' = [answer EXCEPT ![r] = "fresh"]
<1> USE DEF Goto, storeVars
<1>1. CASE EarlyMiss(r) \/ OpenPage(r) \/ OpenOwnPage(r) \/ PageTaken(r) \/ DirectTaken(r) \/ Save(r) \/ SaveFails(r) \/ RunSucceeds(r)
           \/ NameUrl(r) \/ NamePath(r) \/ CacheMiss(r)
  BY <1>1 DEF EarlyMiss, OpenPage, OpenOwnPage, PageTaken, DirectTaken, Save, SaveFails, RunSucceeds, Go, NameUrl, NamePath, CacheMiss
<1>2. CASE EarlyHit(r) \/ CacheHit(r) \/ NoDirectory(r) \/ RunFails(r) \/ DirectFails(r) \/ Store(r)
  BY <1>2 DEF EarlyHit, CacheHit, NoDirectory, RunFails, DirectFails, Store, Refuse, Reply
<1>3. CASE NoContext(r) \/ ContextDone(r) \/ PageFails(r)
  BY <1>3 DEF NoContext, ContextDone, PageFails, Retry
<1>4. CASE Ask(r) \/ AskAgain(r)
  BY <1>4 DEF Ask, AskAgain, Go, Refuse, Reply, reqVars
<1>5. QED BY <1>1, <1>2, <1>3, <1>4 DEF Step

LEMMA PInvStep == TInv /\ PInv /\ [LegacyNext]_legacyVars => PInv'
<1> SUFFICES ASSUME TInv, PInv, [LegacyNext]_legacyVars PROVE PInv'
  OBVIOUS
<1> USE Constants DEF TInv
<1> DEFINE Still(k, entry) ==
             \/ entry.kind = "none" \/ entry.kind = "picture"
             \/ entry.kind = "file" /\ <<Stem(k), entry.second>> \in files'
             \/ k = "tableBase64" \/ Torn(k)'
<1>1. ASSUME NEW r \in Requests, Step(r) PROVE PInv'
  <2>1. route' = route /\ ReqTypeOK'
    BY <1>1, Lasting, ReqTypes
  <2>2. \A k \in Routes : \A entry : Good(k, entry) => Still(k, entry)
    BY <1>1, GoodLasts
  <2>3. at[r] = "store" => Good(route[r], Made(r)) /\ Made(r).kind # "none"
    BY <1>1, MadeGood
  <2>4. \A q \in Requests : route[q] \in Routes
    BY DEF ReqTypeOK
  <2>5. ASSUME NEW k \in Routes
        PROVE  Still(k, cache'[k]) /\ (cache'[k] # None => cache'[k].kind # "none")
    <3>1. CASE cache' = cache
      BY <2>2, <3>1 DEF PInv
    <3>2. CASE at[r] = "store" /\ cache' = [cache EXCEPT ![route[r]] = Made(r)]
      BY <2>2, <2>3, <2>4, <3>2 DEF PInv, StoreTypeOK
    <3>3. QED BY <1>1, <3>1, <3>2, Sources
  <2>6. ASSUME NEW q \in Requests
        PROVE  /\ Still(route[q], image'[q])
               /\ answer'[q] \in {"fresh", "cached"} => image'[q].kind # "none"
    <3>0. /\ Good(route[q], image[q])
          /\ answer[q] \in {"fresh", "cached"} => image[q].kind # "none"
      BY DEF PInv
    <3>a. Good(route[q], image'[q]) => Still(route[q], image'[q])
      <4> HIDE DEF Still
      <4>1. QED BY <2>2, <2>4
    <3> SUFFICES /\ Good(route[q], image'[q])
                 /\ answer'[q] \in {"fresh", "cached"} => image'[q].kind # "none"
      BY <3>a
    <3> HIDE DEF Still
    <3>1. CASE image' = image /\ answer' = answer
      BY <3>0, <3>1 DEF Good, Shows
    <3>2. CASE \E kind \in {"unavailable", "failed"} :
                  image' = [image EXCEPT ![r] = None] /\ answer' = [answer EXCEPT ![r] = kind]
      <4>1. CASE q = r
        BY <3>2, <4>1 DEF ReqTypeOK, Good
      <4>2. CASE q # r
        BY <3>0, <3>2, <4>2 DEF ReqTypeOK
      <4>3. QED BY <4>1, <4>2
    <3>3. CASE /\ cache[route[r]] # None
               /\ image' = [image EXCEPT ![r] = cache[route[r]]]
               /\ answer' = [answer EXCEPT ![r] = "cached"]
      <4>1. Good(route[r], cache[route[r]]) /\ cache[route[r]].kind # "none"
        BY <2>4, <3>3 DEF PInv
      <4>2. CASE q = r
        BY <3>3, <4>1, <4>2 DEF ReqTypeOK
      <4>3. CASE q # r
        BY <3>0, <3>3, <4>3 DEF ReqTypeOK
      <4>4. QED BY <4>2, <4>3
    <3>4. CASE /\ at[r] = "store"
               /\ image' = [image EXCEPT ![r] = Made(r)]
               /\ answer' = [answer EXCEPT ![r] = "fresh"]
      <4>1. CASE q = r
        BY <2>3, <3>4, <4>1 DEF ReqTypeOK
      <4>2. CASE q # r
        BY <3>0, <3>4, <4>2 DEF ReqTypeOK
      <4>3. QED BY <4>1, <4>2
    <3>5. QED BY <1>1, <3>1, <3>2, <3>3, <3>4, Sources
  <2>7. QED
    BY <1>1, <2>1, <2>5, <2>6, SavedStep, NamesStep DEF PInv, Good, Shows
<1>2. ASSUME NEW k \in Routes, Evict(k) PROVE PInv'
  BY <1>2 DEF Evict, PInv, Good, Shows, Torn, reqVars, StoreTypeOK
<1>3. CASE Second \/ TickLegacy \/ UNCHANGED legacyVars
  BY <1>3 DEF Second, TickLegacy, legacyVars, reqVars, storeVars, PInv, Good, Shows, Torn
<1>4. QED BY <1>1, <1>2, <1>3 DEF LegacyNext

\* Whatever the requests and however they meet in Redis and in ./static: an
\* answer that claims success leads to a picture, but for the Base64 answers
\* of table, ip and resolve and for names torn by the clock.
THEOREM PicturesServed == LegacySafety => []PictureUnlessTorn
<1>1. LegacyInit => PInv
  BY Constants DEF LegacyInit, PInv, Good, Early, Sites, Direct
<1>2. PInv => PictureUnlessTorn
  BY DEF PInv, PictureUnlessTorn, Good
<1>3. QED
  BY <1>1, <1>2, TInvInit, TInvStep, PInvStep, PTL DEF LegacySafety

------------------------------------------------------------------------------
(* How long a request can take *)

Tail == {"save", "saved", "failed", "store", "over"}     \* behind the rounds
PlaceLeft == [place \in Ats |->
                 CASE place = "new" -> 14 [] place = "url" -> 13 [] place = "path" -> 12
                   [] place = "ask" -> 10 [] place = "lookup" -> 9 [] place = "execute" -> 7
                   [] place = "attempt" -> 6 [] place = "page" -> 5 [] place = "save" -> 3
                   [] place \in {"saved", "failed"} -> 2 [] place = "store" -> 1 [] place = "over" -> 0]
MaxSteps == 2 * MaxRetries + 14

\* How many steps a request has left at most: those of its place, two for a
\* round that is left, and one for a question to the breaker that may find it
\* expired and be asked again under the other lock.
StepsAt(place, round, lock) ==
    PlaceLeft[place]
    + (IF place \in Tail THEN 0 ELSE 2 * (MaxRetries - round))
    + (IF place \in {"ask", "execute"} /\ lock # "gap" THEN 1 ELSE 0)

StepsLeft(r) == StepsAt(at[r], tries[r], pc[r])

AnsweredInv == \A r \in Requests : at[r] = "over" <=> answer[r] # "none"

LEMMA PlaceValues ==
    /\ PlaceLeft["new"] = 14 /\ PlaceLeft["url"] = 13 /\ PlaceLeft["path"] = 12
    /\ PlaceLeft["ask"] = 10 /\ PlaceLeft["lookup"] = 9 /\ PlaceLeft["execute"] = 7
    /\ PlaceLeft["attempt"] = 6 /\ PlaceLeft["page"] = 5 /\ PlaceLeft["save"] = 3
    /\ PlaceLeft["saved"] = 2 /\ PlaceLeft["failed"] = 2 /\ PlaceLeft["store"] = 1
    /\ PlaceLeft["over"] = 0
  BY DEF PlaceLeft, Ats

LEMMA StepsFacts ==
    ASSUME NEW place \in Ats, NEW round \in 0..MaxRetries, NEW lock
    PROVE  /\ StepsAt(place, round, lock) \in 0..MaxSteps
           /\ StepsAt(place, round, lock) = 0 <=> place = "over"
<1>1. MaxRetries \in Nat
  BY Constants
<1> DEFINE rounds == 2 * (MaxRetries - round)
           twice == IF place \in {"ask", "execute"} /\ lock # "gap" THEN 1 ELSE 0
<1>2. rounds \in Nat /\ rounds <= 2 * MaxRetries /\ twice \in {0, 1}
  BY <1>1
<1>3. StepsAt(place, round, lock) = PlaceLeft[place] + (IF place \in Tail THEN 0 ELSE rounds) + twice
  BY DEF StepsAt
<1>4. twice = 1 => place \in {"ask", "execute"}
  OBVIOUS
<1> HIDE DEF rounds, twice
<1>5. QED BY <1>1, <1>2, <1>3, <1>4, PlaceValues DEF Ats, Tail, MaxSteps

\* The places a step may lead to without another round.
LEMMA MoveOn ==
    ASSUME ReqTypeOK, ReqTypeOK', NEW r \in Requests,
           tries'[r] = tries[r],
           PlaceLeft[at'[r]] + 1 < PlaceLeft[at[r]] \/ (PlaceLeft[at'[r]] < PlaceLeft[at[r]] /\ at'[r] \notin {"ask", "execute"})
    PROVE  StepsLeft(r)' < StepsLeft(r)
<1>1. /\ at[r] \in Ats /\ at'[r] \in Ats /\ tries[r] \in 0..MaxRetries /\ MaxRetries \in Nat
  BY Constants DEF ReqTypeOK
<1> DEFINE rounds == 2 * (MaxRetries - tries[r])
           now == IF at[r] \in {"ask", "execute"} /\ pc[r] # "gap" THEN 1 ELSE 0
           then == IF at'[r] \in {"ask", "execute"} /\ pc'[r] # "gap" THEN 1 ELSE 0
<1>2. rounds \in Nat /\ now \in {0, 1} /\ then \in {0, 1} /\ (at'[r] \notin {"ask", "execute"} => then = 0)
  BY <1>1
<1>3. StepsLeft(r) = PlaceLeft[at[r]] + (IF at[r] \in Tail THEN 0 ELSE rounds) + now
  BY DEF StepsLeft, StepsAt
<1>4. StepsLeft(r)' = PlaceLeft[at'[r]] + (IF at'[r] \in Tail THEN 0 ELSE rounds) + then
  BY DEF StepsLeft, StepsAt, PlaceLeft
<1> HIDE DEF rounds, now, then
<1>5. at[r] \in Tail => at'[r] \in Tail
  BY <1>1, PlaceValues DEF Ats, Tail
<1>6. PlaceLeft[at[r]] \in Nat /\ PlaceLeft[at'[r]] \in Nat
  BY <1>1, PlaceValues DEF Ats
<1>7. QED BY <1>2, <1>3, <1>4, <1>5, <1>6

LEMMA NextRound ==
    ASSUME ReqTypeOK, ReqTypeOK', NEW r \in Requests,
           at[r] \in {"attempt", "page"}, at'[r] = "attempt", tries'[r] = tries[r] + 1
    PROVE  StepsLeft(r)' < StepsLeft(r)
<1>1. tries[r] \in 0..MaxRetries /\ tries'[r] \in 0..MaxRetries /\ MaxRetries \in Nat
  BY Constants DEF ReqTypeOK
<1>2. StepsLeft(r) = PlaceLeft[at[r]] + 2 * (MaxRetries - tries[r]) + 0
  BY DEF StepsLeft, StepsAt, Tail
<1>3. StepsLeft(r)' = PlaceLeft["attempt"] + 2 * (MaxRetries - tries'[r]) + 0
  BY DEF StepsLeft, StepsAt, Tail, PlaceLeft
<1>4. PlaceLeft[at[r]] \in {5, 6} /\ PlaceLeft["attempt"] = 6
  BY PlaceValues
<1>5. 6 + 2 * (MaxRetries - (tries[r] + 1)) + 0 < 5 + 2 * (MaxRetries - tries[r]) + 0
  BY <1>1
<1>6. QED BY <1>1, <1>2, <1>3, <1>4, <1>5

\* The breaker has expired, and will be asked under its write lock.
LEMMA NextQuestion ==
    ASSUME ReqTypeOK, NEW r \in Requests,
           at'[r] = at[r], tries'[r] = tries[r], at[r] \in {"ask", "execute"}, pc[r] # "gap", pc'[r] = "gap"
    PROVE  StepsLeft(r)' < StepsLeft(r)
<1>1. tries[r] \in 0..MaxRetries /\ MaxRetries \in Nat
  BY Constants DEF ReqTypeOK
<1> DEFINE rounds == 2 * (MaxRetries - tries[r])
<1>2. rounds \in Nat /\ PlaceLeft[at[r]] \in {7, 10}
  BY <1>1, PlaceValues
<1>3. StepsLeft(r) = PlaceLeft[at[r]] + rounds + 1
  BY DEF StepsLeft, StepsAt, Tail
<1>4. StepsLeft(r)' = PlaceLeft[at[r]] + rounds + 0
  BY DEF StepsLeft, StepsAt, Tail, PlaceLeft
<1> HIDE DEF rounds
<1>5. QED BY <1>2, <1>3, <1>4

LEMMA OwnStep ==
    ASSUME TInv, TInv', NEW r \in Requests, Step(r)
    PROVE  StepsLeft(r)' < StepsLeft(r)
<1> USE PlaceValues
<1>0. ReqTypeOK /\ ReqTypeOK' /\ r \in DOMAIN at /\ r \in DOMAIN tries /\ r \in DOMAIN pc
  BY DEF TInv, ReqTypeOK, IInv, TypeOK, Requests
<1>1. ASSUME NEW from \in Ats, NEW to \in Ats, Goto(r, from, to), tries' = tries,
             PlaceLeft[to] + 1 < PlaceLeft[from] \/ (PlaceLeft[to] < PlaceLeft[from] /\ to \notin {"ask", "execute"})
      PROVE  StepsLeft(r)' < StepsLeft(r)
  <2>1. at[r] = from /\ at'[r] = to /\ tries'[r] = tries[r]
    BY <1>0, <1>1 DEF Goto
  <2>2. QED BY <1>0, <1>1, <2>1, MoveOn
<1>2. ASSUME NEW from \in {"attempt", "page"}, Retry(r, from) PROVE StepsLeft(r)' < StepsLeft(r)
  <2>1. CASE UsesTool(r) /\ tries[r] < MaxRetries
    <3>1. at[r] = from /\ at'[r] = "attempt" /\ tries'[r] = tries[r] + 1
      BY <1>0, <1>2, <2>1 DEF Retry, Goto
    <3>2. QED BY <1>0, <3>1, NextRound
  <2>2. CASE ~ (UsesTool(r) /\ tries[r] < MaxRetries)
    BY <1>1, <1>2, <2>2 DEF Retry, Ats
  <2>3. QED BY <2>1, <2>2
<1>3. CASE EarlyMiss(r) \/ NameUrl(r) \/ NamePath(r) \/ CacheMiss(r)
  BY <1>1, <1>3 DEF EarlyMiss, NameUrl, NamePath, CacheMiss, Go, Ats
<1>4. CASE OpenPage(r) \/ OpenOwnPage(r) \/ PageTaken(r) \/ DirectTaken(r)
           \/ Save(r) \/ SaveFails(r) \/ RunSucceeds(r)
  BY <1>1, <1>4 DEF OpenPage, OpenOwnPage, PageTaken, DirectTaken, Save, SaveFails, RunSucceeds, Go, Ats
<1>5. CASE EarlyHit(r) \/ CacheHit(r) \/ NoDirectory(r) \/ RunFails(r) \/ DirectFails(r) \/ Store(r)
  BY <1>1, <1>5 DEF EarlyHit, CacheHit, NoDirectory, RunFails, DirectFails, Store, Refuse, Reply, Ats
<1>6. CASE NoContext(r) \/ ContextDone(r) \/ PageFails(r)
  BY <1>2, <1>6 DEF NoContext, ContextDone, PageFails
<1>7. CASE Ask(r)
  <2>1. CASE SeeExpiry(r) /\ at[r] = "ask" /\ UNCHANGED reqVars
    <3>1. at'[r] = at[r] /\ tries'[r] = tries[r] /\ pc[r] # "gap" /\ pc'[r] = "gap"
      BY <1>0, <2>1 DEF SeeExpiry, Move, reqVars
    <3>2. QED BY <1>0, <2>1, <3>1, NextQuestion
  <2>2. CASE Go(r, "ask", "lookup") \/ Refuse(r, "ask", "unavailable")
    BY <1>1, <2>2 DEF Go, Refuse, Reply, Ats
  <2>3. QED BY <1>7, <2>1, <2>2 DEF Ask
<1>8. CASE AskAgain(r)
  <2>1. CASE Move(r, "running", "gap") /\ at[r] = "execute" /\ UNCHANGED reqVars
    <3>1. at'[r] = at[r] /\ tries'[r] = tries[r] /\ pc[r] # "gap" /\ pc'[r] = "gap"
      BY <1>0, <2>1 DEF Move, reqVars
    <3>2. QED BY <1>0, <2>1, <3>1, NextQuestion
  <2>2. CASE Go(r, "execute", "attempt") \/ Refuse(r, "execute", "unavailable")
    BY <1>1, <2>2 DEF Go, Refuse, Reply, Ats
  <2>3. QED BY <1>8, <2>1, <2>2 DEF AskAgain
<1>9. QED BY <1>3, <1>4, <1>5, <1>6, <1>7, <1>8 DEF Step

\* A step of one request is no step of another.
LEMMA OthersWait ==
    ASSUME TInv, NEW r \in Requests, Step(r), NEW q \in Requests, q # r
    PROVE  at'[q] = at[q] /\ tries'[q] = tries[q] /\ pc'[q] = pc[q]
<1>0. at \in [Requests -> Ats] /\ tries \in [Requests -> 0..MaxRetries] /\ q \in DOMAIN pc
  BY DEF TInv, ReqTypeOK, IInv, TypeOK, Requests
<1>1. at' = at \/ \E to : at' = [at EXCEPT ![r] = to]
  BY DEF Step, EarlyHit, EarlyMiss, NameUrl, NamePath, Ask, CacheHit, CacheMiss, NoDirectory,
         AskAgain, OpenPage, OpenOwnPage, NoContext, ContextDone, PageFails, PageTaken, DirectTaken, Retry, Save, SaveFails,
         RunSucceeds, RunFails, DirectFails, Store, Go, Goto, Refuse, Reply, reqVars
<1>2. tries' = tries \/ \E n : tries' = [tries EXCEPT ![r] = n]
  BY DEF Step, EarlyHit, EarlyMiss, NameUrl, NamePath, Ask, CacheHit, CacheMiss, NoDirectory,
         AskAgain, OpenPage, OpenOwnPage, NoContext, ContextDone, PageFails, PageTaken, DirectTaken, Retry, Save, SaveFails,
         RunSucceeds, RunFails, DirectFails, Store, Go, Refuse, Reply, reqVars
<1>3. pc' = pc \/ \E to : pc' = [pc EXCEPT ![r] = to]
  BY DEF Step, EarlyHit, EarlyMiss, NameUrl, NamePath, Ask, CacheHit, CacheMiss, NoDirectory,
         AskAgain, OpenPage, OpenOwnPage, NoContext, ContextDone, PageFails, PageTaken, DirectTaken, Retry, Save, SaveFails,
         RunSucceeds, RunFails, DirectFails, Store, vars, Admit, Reject, SeeExpiry, HalfOpen, Abandon,
         RecordSuccess, RecordFailure, Move
<1>4. QED BY <1>0, <1>1, <1>2, <1>3

LEMMA AnsweredStep == TInv /\ AnsweredInv /\ [LegacyNext]_legacyVars => AnsweredInv'
<1> SUFFICES ASSUME TInv, AnsweredInv, [LegacyNext]_legacyVars PROVE AnsweredInv'
  OBVIOUS
<1>1. ASSUME NEW r \in Requests, Step(r) PROVE AnsweredInv'
  BY <1>1, AnswerOnce DEF TInv, AnsweredInv, ReqTypeOK
<1>2. ASSUME (\E k \in Routes : Evict(k)) \/ Second \/ TickLegacy \/ UNCHANGED legacyVars
      PROVE  AnsweredInv'
  BY <1>2 DEF Evict, Second, TickLegacy, legacyVars, reqVars, AnsweredInv
<1>3. QED BY <1>1, <1>2 DEF LegacyNext

\* What a step of the system does to each request.
LEMMA StepsStep ==
    ASSUME TInv, TInv', [LegacyNext]_legacyVars, NEW r \in Requests
    PROVE  (Step(r) => StepsLeft(r)' < StepsLeft(r)) /\ StepsLeft(r)' <= StepsLeft(r)
<1>1. StepsLeft(r) \in Nat /\ MaxSteps \in Nat
  <2>1. at[r] \in Ats /\ tries[r] \in 0..MaxRetries /\ MaxSteps \in Nat
    BY Constants DEF TInv, ReqTypeOK, MaxSteps
  <2>2. StepsAt(at[r], tries[r], pc[r]) \in 0..MaxSteps
    BY <2>1, StepsFacts
  <2>3. QED BY <2>1, <2>2 DEF StepsLeft
<1>2. CASE Step(r)
  <2>1. StepsLeft(r)' < StepsLeft(r)
    BY <1>2, OwnStep
  <2>2. StepsLeft(r)' \in Nat
    <3>1. at'[r] \in Ats /\ tries'[r] \in 0..MaxRetries
      BY Constants DEF TInv, ReqTypeOK
    <3>2. StepsAt(at'[r], tries'[r], pc'[r]) \in 0..MaxSteps
      BY <3>1, StepsFacts
    <3>3. StepsLeft(r)' = StepsAt(at'[r], tries'[r], pc'[r])
      BY DEF StepsLeft, StepsAt, PlaceLeft
    <3>4. QED BY <1>1, <3>2, <3>3
  <2>3. QED BY <1>1, <2>1, <2>2
<1>3. ASSUME at'[r] = at[r], tries'[r] = tries[r], pc'[r] = pc[r], ~Step(r)
      PROVE  (Step(r) => StepsLeft(r)' < StepsLeft(r)) /\ StepsLeft(r)' <= StepsLeft(r)
  <2>1. StepsLeft(r)' = StepsLeft(r)
    BY <1>3 DEF StepsLeft, StepsAt, PlaceLeft
  <2>2. QED BY <1>1, <1>3, <2>1
<1>4. ASSUME ~Step(r), NEW q \in Requests, Step(q)
      PROVE  at'[r] = at[r] /\ tries'[r] = tries[r] /\ pc'[r] = pc[r]
  BY <1>4, OthersWait
<1>5. ASSUME (\E k \in Routes : Evict(k)) \/ Second \/ TickLegacy \/ UNCHANGED legacyVars
      PROVE  at'[r] = at[r] /\ tries'[r] = tries[r] /\ pc'[r] = pc[r]
  BY <1>5 DEF Evict, Second, TickLegacy, Tick, legacyVars, vars, reqVars
<1>6. QED BY <1>2, <1>3, <1>4, <1>5 DEF LegacyNext

\* Every request has a bounded number of steps left until its answer, whatever
\* the others do and the breaker and the rounds decide: each step of its own
\* leaves it fewer, no step of another more, and none are left exactly when it
\* is answered. EveryRequestAnswered follows as soon as each step is taken.
THEOREM RequestIsBounded ==
    LegacySafety =>
        /\ [](\A r \in Requests : StepsLeft(r) \in 0..MaxSteps /\ (StepsLeft(r) = 0 <=> answer[r] # "none"))
        /\ [][\A r \in Requests : /\ Step(r) => StepsLeft(r)' < StepsLeft(r)
                                  /\ StepsLeft(r)' <= StepsLeft(r)]_legacyVars
<1>1. LegacyInit => AnsweredInv
  BY DEF LegacyInit, AnsweredInv, Early
<1>2. TInv /\ AnsweredInv =>
         \A r \in Requests : StepsLeft(r) \in 0..MaxSteps /\ (StepsLeft(r) = 0 <=> answer[r] # "none")
  <2> SUFFICES ASSUME TInv, AnsweredInv, NEW r \in Requests
               PROVE  StepsLeft(r) \in 0..MaxSteps /\ (StepsLeft(r) = 0 <=> answer[r] # "none")
    OBVIOUS
  <2>1. at[r] \in Ats /\ tries[r] \in 0..MaxRetries
    BY DEF TInv, ReqTypeOK
  <2>2. at[r] = "over" <=> answer[r] # "none"
    BY DEF AnsweredInv
  <2>3. QED BY <2>1, <2>2, StepsFacts DEF StepsLeft
<1>3. TInv /\ TInv' /\ [LegacyNext]_legacyVars =>
         [\A r \in Requests : /\ Step(r) => StepsLeft(r)' < StepsLeft(r)
                              /\ StepsLeft(r)' <= StepsLeft(r)]_legacyVars
  BY StepsStep
<1>4. QED BY <1>1, <1>2, <1>3, TInvInit, TInvStep, AnsweredStep, PTL DEF LegacySafety
==============================================================================
