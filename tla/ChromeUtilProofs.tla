--------------------------- MODULE ChromeUtilProofs ---------------------------
(***************************************************************************)
(* The older Chrome tool for any number of tasks, permits and start        *)
(* strategies.  Three invariants, each resting on the one before it:       *)
(* PermitInv counts those who have a permit and those whom a panic has     *)
(* cost it; UtilInv adds the types and who holds cu.mu; AloneInv says      *)
(* which pointers are there and when a browser is alive, as long as no     *)
(* stop has met anybody who relies on one of them.                         *)
(*                                                                         *)
(* At the end: a call is over after boundedly many steps, and nobody waits *)
(* in a circle.                                                            *)
(***************************************************************************)
EXTENDS ChromeUtil, FiniteSetTheorems, TLAPS

USE DEF Users, At

LEMMA Names ==
    /\ Boot \notin Tasks /\ Closer \notin Tasks
    /\ Boot # Closer /\ Nobody \notin Users
<1>1. ASSUME NEW a, NEW b PROVE Cardinality({a, b}) # 3
  <2>1. IsFiniteSet({a}) /\ Cardinality({a}) = 1
    BY FS_Singleton
  <2>2. Cardinality({a} \cup {b}) = 1 \/ Cardinality({a} \cup {b}) = 2
    BY <2>1, FS_AddElement
  <2>3. {a, b} = {a} \cup {b}
    OBVIOUS
  <2>4. QED BY <2>2, <2>3
<1>2. Boot # Closer
  <2> SUFFICES ASSUME Boot = Closer PROVE FALSE
    OBVIOUS
  <2>1. {Boot, Closer, Nobody} = {Boot, Nobody}
    OBVIOUS
  <2>2. QED BY <1>1, <2>1, UtilAssumption
<1>3. Nobody # Closer
  <2> SUFFICES ASSUME Nobody = Closer PROVE FALSE
    OBVIOUS
  <2>1. {Boot, Closer, Nobody} = {Boot, Nobody}
    OBVIOUS
  <2>2. QED BY <1>1, <2>1, UtilAssumption
<1>4. Nobody # Boot
  <2> SUFFICES ASSUME Nobody = Boot PROVE FALSE
    OBVIOUS
  <2>1. {Boot, Closer, Nobody} = {Boot, Closer}
    OBVIOUS
  <2>2. QED BY <1>1, <2>1, UtilAssumption
<1>5. QED BY <1>2, <1>3, <1>4, UtilAssumption

-------------------------------------------------------------------------------
(* Permits *)

Inside == {"enter", "attach", "run"}

PermitInv ==
    /\ pc \in [Users -> Places]
    /\ permits \in 0..MaxConcurrent /\ leaked \in 0..MaxConcurrent
    /\ Crashed => panicked /\ \A u \in Users : pc[u] = "over"
    /\ PermitsBalance

LEMMA FiniteHolders == IsFiniteSet(Holders)
  BY FS_Subset, UtilAssumption DEF Holders

LEMMA PermitInit == Init => PermitInv
<1> SUFFICES ASSUME Init PROVE PermitInv
  OBVIOUS
<1>1. Holders = {}
  BY Names DEF Init, Holders
<1>2. pc \in [Users -> Places] /\ ~Crashed
  BY Names DEF Init, Places, Crashed
<1>3. 0 \in 0..MaxConcurrent
  BY UtilAssumption
<1>4. QED BY <1>1, <1>2, <1>3, FS_EmptySet DEF Init, PermitInv, PermitsBalance

\* Somebody goes from one place to another, and neither takes nor loses a permit.
Move(u, to) ==
    /\ pc[u] # "over" /\ (pc[u] \in Inside <=> to \in Inside)
    /\ to = "over" => u = Boot
    /\ pc' = [pc EXCEPT ![u] = to]
    /\ UNCHANGED <<permits, leaked, panicked>>

\* The kinds of steps there are: moves, the three that take a permit or give
\* it back, panics, and those that leave everybody where he is.
LEMMA Kinds ==
    ASSUME PermitInv, [Next]_vars
    PROVE  \/ \E u \in Users : \E to \in Places : Move(u, to)
           \/ \E t \in Tasks : TakePermit(t) \/ FindStopped(t) \/ Finish(t)
           \/ \E u \in Users : Panic(u) /\ pc[u] \notin {"enter", "run", "over"} /\ (pc[u] = "attach" => u \in Tasks)
           \/ UNCHANGED <<pc, permits, leaked, panicked>>
<1> USE Names DEF panics
<1>1. ASSUME NEW t \in Tasks, Call(t) PROVE \E to \in Places : Move(t, to)
  BY <1>1 DEF Call, Move, Places, Inside
<1>2. ASSUME NEW t \in Tasks, StartWithAutoMode(t)
      PROVE  (\E to \in Places : Move(t, to)) \/ (Panic(t) /\ pc[t] = "done")
  <2>1. CASE EnsureStarted(t) \/ Decide(t) \/ StartInternal(t)
    BY <2>1 DEF EnsureStarted, Decide, StartInternal, Move, Places, Inside
  <2>2. CASE IsHealthy(t) \/ ContextPresent(t)
    BY <2>2 DEF IsHealthy, ContextPresent, Move, Places, Reading, Inside
  <2>3. CASE ContextDone(t)
    BY <2>3 DEF ContextDone, Move, Places, Reading, Inside
  <2> QED BY <1>2, <2>1, <2>2, <2>3 DEF StartWithAutoMode
<1>3. ASSUME NEW u \in Users, Stop(u)
      PROVE  (\E to \in Places : Move(u, to)) \/ (Panic(u) /\ pc[u] \in {"stopTimer", "callCancel", "callAlloc"})
  <2> USE DEF Move, Places, Stopping, Inside
  <2>1. CASE StoppedAlready(u) \/ BeginStop(u) \/ ClearAllocCtx(u)
    BY <2>1 DEF StoppedAlready, BeginStop, ClearAllocCtx, AfterStop
  <2>2. CASE CheckTimer(u) \/ DropTimer(u) \/ ClearRunning(u)
    BY <2>2 DEF CheckTimer, DropTimer, ClearRunning
  <2>3. CASE CheckCancel(u) \/ CheckAlloc(u)
    BY <2>3 DEF CheckCancel, CheckAlloc, Check
  <2>4. CASE DropCancel(u) \/ DropAlloc(u) \/ ClearCtx(u)
    BY <2>4 DEF DropCancel, DropAlloc, ClearCtx, Drop
  <2>5. CASE StopTimer(u)
    BY <2>5 DEF StopTimer
  <2>6. CASE CallCancel(u) \/ CallAlloc(u)
    BY <2>6 DEF CallCancel, CallAlloc
  <2> QED BY <1>3, <2>1, <2>2, <2>3, <2>4, <2>5, <2>6 DEF Stop
<1>4. ASSUME NEW u \in Tasks \cup {Boot}, Start(u)
      PROVE  (\E to \in Places : Move(u, to)) \/ (Panic(u) /\ pc[u] \in {"context", "limit"})
  <2> USE DEF Move, Places, Starting, Inside
  <2>1. CASE FindRunning(u) \/ Lock(u) \/ NewExecAllocator(u)
    BY <2>1 DEF FindRunning, Lock, NewExecAllocator
  <2>2. CASE NewContext(u) \/ LimitTest(u)
    BY <2>2 DEF NewContext, LimitTest
  <2>3. CASE TestPasses(u) \/ TestFails(u)
    BY <2>3 DEF TestPasses, TestFails, Fail
  <2>4. CASE Confirm(u)
    BY <2>4 DEF Confirm
  <2> QED BY <1>4, <2>1, <2>2, <2>3, <2>4 DEF Start
<1>5. ASSUME NEW t \in Tasks, ResetIdleTimer(t)
      PROVE  (\E to \in Places : Move(t, to)) \/ (Panic(t) /\ pc[t] = "unarm")
  BY <1>5 DEF ResetIdleTimer, Disarm, StopOld, Arm, Move, Places, Inside
<1>6. ASSUME NEW t \in Tasks, GetContext(t)
      PROVE  \/ \E to \in Places : Move(t, to)
             \/ TakePermit(t) \/ FindStopped(t) \/ Finish(t)
             \/ Panic(t) /\ pc[t] = "attach"
  BY <1>6 DEF GetContext, GiveUp, Enter, Attach, Move, Places, Reading, Inside
<1>7. ASSUME Expire \/ LockToStop PROVE \E to \in Places : Move(Closer, to)
  BY <1>7 DEF Expire, LockToStop, Move, Places, Inside
<1>8. ASSUME Die \/ UNCHANGED vars PROVE UNCHANGED <<pc, permits, leaked, panicked>>
  BY <1>8 DEF Die, vars
<1>9. Boot \in Users /\ Closer \in Users /\ Tasks \subseteq Users
  OBVIOUS
<1>10. CASE \E t \in Tasks : Call(t) \/ Step(t)
  BY <1>1, <1>2, <1>3, <1>4, <1>5, <1>6, <1>9, <1>10 DEF Step
<1>11. CASE Start(Boot) \/ Close \/ Expire
  BY <1>3, <1>4, <1>7, <1>9, <1>11 DEF Close
<1>12. QED BY <1>8, <1>10, <1>11 DEF Next

\* A task that has a permit loses it.
LEMMA OneLess ==
    ASSUME NEW t \in Holders, Holders' = Holders \ {t}
    PROVE  Cardinality(Holders') = Cardinality(Holders) - 1 /\ Cardinality(Holders') \in Nat
<1>1. IsFiniteSet(Holders') /\ Cardinality(Holders') = Cardinality(Holders) - 1
  BY FiniteHolders, FS_RemoveElement
<1>2. QED BY <1>1, FS_CardinalityType

LEMMA PermitStep == PermitInv /\ [Next]_vars => PermitInv'
<1> SUFFICES ASSUME PermitInv, [Next]_vars PROVE PermitInv'
  OBVIOUS
<1> USE Names
<1>0. MaxConcurrent \in Nat /\ permits \in Nat /\ leaked \in Nat /\ permits <= MaxConcurrent
  BY UtilAssumption DEF PermitInv
<1>1. ASSUME NEW u \in Users, NEW to \in Places, Move(u, to) PROVE PermitInv'
  <2>1. ~Crashed /\ ~Crashed'
    BY <1>1 DEF Move, PermitInv, Crashed
  <2>2. Holders' = Holders
    BY <1>1 DEF Move, Holders, Inside, PermitInv
  <2>3. pc' \in [Users -> Places]
    BY <1>1 DEF Move, PermitInv
  <2> QED BY <1>1, <2>1, <2>2, <2>3 DEF Move, PermitInv, PermitsBalance
<1>2. ASSUME NEW t \in Tasks, TakePermit(t) PROVE PermitInv'
  <2>1. ~Crashed /\ ~Crashed' /\ pc' \in [Users -> Places]
    BY <1>2 DEF TakePermit, PermitInv, Crashed, Places
  <2>2. t \notin Holders /\ Holders' = Holders \cup {t}
    BY <1>2 DEF TakePermit, Holders, PermitInv
  <2>3. Cardinality(Holders') = Cardinality(Holders) + 1 /\ Cardinality(Holders) \in Nat
    BY <2>2, FiniteHolders, FS_AddElement, FS_CardinalityType
  <2>4. permits' = permits + 1 /\ permits < MaxConcurrent /\ leaked' = leaked /\ panicked' = panicked
    BY <1>2 DEF TakePermit, panics
  <2> QED BY <1>0, <2>1, <2>3, <2>4 DEF PermitInv, PermitsBalance
<1>3. ASSUME NEW t \in Tasks, FindStopped(t) \/ Finish(t) PROVE PermitInv'
  <2>1. ~Crashed /\ ~Crashed' /\ pc' \in [Users -> Places]
    BY <1>3 DEF FindStopped, Finish, PermitInv, Crashed, Places
  <2>2. t \in Holders /\ Holders' = Holders \ {t}
    BY <1>3 DEF FindStopped, Finish, Holders, PermitInv
  <2>3. permits' = permits - 1 /\ leaked' = leaked /\ panicked' = panicked
    BY <1>3 DEF FindStopped, Finish, panics
  <2>4. Cardinality(Holders') = Cardinality(Holders) - 1 /\ Cardinality(Holders') \in Nat
    BY <2>2, OneLess
  <2>5. permits = Cardinality(Holders) + leaked /\ Cardinality(Holders) \in Nat
    BY <2>1, FiniteHolders, FS_CardinalityType DEF PermitInv, PermitsBalance
  <2> QED BY <1>0, <2>1, <2>3, <2>4, <2>5 DEF PermitInv, PermitsBalance
<1>4. ASSUME NEW u \in Users, Panic(u), pc[u] \notin {"enter", "run", "over"}, pc[u] = "attach" => u \in Tasks
      PROVE  PermitInv'
  <2>1. ~Crashed
    BY <1>4 DEF PermitInv
  <2>2. leaked' \in 0..MaxConcurrent
    <3>1. CASE pc[u] = "attach"
      <4>1. u \in Holders /\ IsFiniteSet(Holders)
        BY <1>4, <3>1, FiniteHolders DEF Holders
      <4>2. Cardinality(Holders) \in Nat /\ Cardinality(Holders) # 0
        BY <4>1, FS_CardinalityType, FS_EmptySet
      <4> QED BY <1>0, <1>4, <2>1, <3>1, <4>2 DEF Panic, PermitInv, PermitsBalance
    <3>2. CASE pc[u] # "attach"
      BY <1>4, <3>2 DEF Panic, PermitInv
    <3> QED BY <3>1, <3>2
  <2>3. CASE pc' = [v \in Users |-> "over"]
    BY <1>4, <2>2, <2>3 DEF Panic, PermitInv, PermitsBalance, Crashed, Places
  <2>4. CASE u \in Tasks /\ pc' = [pc EXCEPT ![u] = "idle"]
    <3>1. ~Crashed' /\ pc' \in [Users -> Places]
      BY <2>1, <2>4 DEF PermitInv, Crashed, Places
    <3>2. CASE pc[u] = "attach"
      <4>1. u \in Holders /\ Holders' = Holders \ {u}
        BY <2>4, <3>2 DEF Holders, PermitInv
      <4>2. permits' = permits /\ leaked' = leaked + 1
        BY <1>4, <3>2 DEF Panic
      <4>3. Cardinality(Holders') = Cardinality(Holders) - 1 /\ Cardinality(Holders) \in Nat
        BY <4>1, OneLess, FiniteHolders, FS_CardinalityType
      <4> QED BY <1>0, <2>1, <2>2, <3>1, <4>2, <4>3 DEF PermitInv, PermitsBalance
    <3>3. CASE pc[u] # "attach"
      <4>1. Holders' = Holders
        BY <1>4, <2>4, <3>3 DEF Holders, PermitInv
      <4>2. permits' = permits /\ leaked' = leaked
        BY <1>4, <3>3 DEF Panic
      <4> QED BY <2>1, <2>2, <3>1, <4>1, <4>2 DEF PermitInv, PermitsBalance
    <3> QED BY <3>2, <3>3
  <2> QED BY <1>4, <2>3, <2>4 DEF Panic
<1>5. ASSUME UNCHANGED <<pc, permits, leaked, panicked>> PROVE PermitInv'
  BY <1>5 DEF PermitInv, PermitsBalance, Holders, Crashed
<1>6. QED BY <1>1, <1>2, <1>3, <1>4, <1>5, Kinds

\* cu.concurrencySem holds a token for exactly the tasks that are between
\* GetContext and their end, and for those whom a panic has ended inside
\* GetContext: no retry, no Chrome found stopped and no way out of a screenshot
\* leaks a permit or gives one back twice.
THEOREM UtilPermitsKept == Safety => []PermitsBalance
<1>1. PermitInv => PermitsBalance
  BY DEF PermitInv
<1>2. QED BY <1>1, PermitInit, PermitStep, PTL DEF Safety

\* The abstract specification, with the tasks from GetContext to their end as
\* the holders.
Channel == INSTANCE PermitContract WITH holders <- Holders

LEMMA PermitMove ==
    ASSUME PermitInv, [Next]_vars
    PROVE  \/ UNCHANGED <<permits, Holders>> \/ \E u \in Users : Panic(u)
           \/ \E t \in Tasks : Channel!TakePermit(t) \/ Channel!Release(t)
<1> USE Names
<1>1. ASSUME NEW t \in Tasks, TakePermit(t) PROVE Channel!TakePermit(t)
  BY <1>1 DEF TakePermit, Channel!TakePermit, Holders, PermitInv
<1>2. ASSUME NEW t \in Tasks, FindStopped(t) \/ Finish(t) PROVE Channel!Release(t)
  <2>1. t \in Holders /\ Holders' = Holders \ {t} /\ permits' = permits - 1
    BY <1>2 DEF FindStopped, Finish, Holders, PermitInv
  <2>2. permits > 0
    <3>1. Cardinality(Holders) # 0 /\ Cardinality(Holders) \in Nat
      BY <2>1, FiniteHolders, FS_EmptySet, FS_CardinalityType
    <3>2. ~Crashed
      BY <1>2 DEF FindStopped, Finish, PermitInv
    <3>3. permits = Cardinality(Holders) + leaked /\ leaked \in Nat
      BY <3>2, UtilAssumption DEF PermitInv, PermitsBalance
    <3> QED BY <3>1, <3>3
  <2> QED BY <2>1, <2>2 DEF Channel!Release
<1>3. ASSUME NEW u \in Users, NEW to \in Places, Move(u, to) PROVE UNCHANGED <<permits, Holders>>
  BY <1>3 DEF Move, Holders, Inside, PermitInv
<1>4. ASSUME UNCHANGED <<pc, permits, leaked, panicked>> PROVE UNCHANGED <<permits, Holders>>
  BY <1>4 DEF Holders
<1> QED BY <1>1, <1>2, <1>3, <1>4, Kinds

\* The older tool implements the contract of permits in every step that is not
\* a panic: a permit is taken for a task that has none and given back by one
\* that has it, whose receive never waits.
THEOREM UtilPermitsRefine ==
    Safety => Channel!Init /\ [][Channel!Next \/ \E u \in Users : Panic(u)]_(Channel!vars)
<1>1. Init => PermitInv /\ Channel!Init
  <2>1. Init => Holders = {} /\ permits = 0
    BY Names DEF Init, Holders
  <2> QED BY <2>1, PermitInit DEF Channel!Init
<1>2. PermitInv /\ [Next]_vars => [Channel!Next \/ \E u \in Users : Panic(u)]_(Channel!vars)
  BY PermitMove DEF Channel!Next, Channel!vars
<1>3. QED BY <1>1, <1>2, PermitStep, PTL DEF Safety

-------------------------------------------------------------------------------
(* Types, and who holds cu.mu *)

\* The closer of timers never starts a browser, Boot never stops one.
RoleInv ==
    /\ pc[Closer] \in {"idle", "want", "halt", "over"} \cup Stopping
    /\ pc[Boot] \in {"lock", "confirm", "over"} \cup Starting

\* Who tries a start strategy holds cu.mu, and so does the closer from
\* LockToStop on; nobody else writes under it, and nobody reads meanwhile.
LockInv ==
    /\ \A u \in Tasks \cup {Boot} : holder = u <=> pc[u] \in Starting
    /\ holder = Closer <=> pc[Closer] \in {"halt"} \cup Stopping
    /\ \A t \in Tasks : pc[t] \in Reading => holder = Nobody

UtilInv == TypeOK /\ RoleInv /\ (~Crashed => LockInv)

LEMMA UtilInit == Init => UtilInv
<1> SUFFICES ASSUME Init PROVE UtilInv
  OBVIOUS
<1> USE Names, UtilAssumption DEF Init
<1>1. /\ pc \in [Users -> Places] /\ warm \in [Tasks -> BOOLEAN]
      /\ tries \in [Users -> 0..(Strategies - 1)]
  BY DEF Places
<1>2. isRunning \in BOOLEAN /\ stray \in BOOLEAN /\ met \in BOOLEAN /\ panicked \in BOOLEAN
  OBVIOUS
<1>3. permits \in 0..MaxConcurrent /\ leaked \in 0..MaxConcurrent /\ usage \in Nat /\ set \subseteq Fields
  OBVIOUS
<1>4. TypeOK
  BY <1>1, <1>2, <1>3 DEF TypeOK
<1>5. RoleInv /\ LockInv
  BY DEF RoleInv, LockInv, Stopping, Starting, Reading
<1>6. QED BY <1>4, <1>5 DEF UtilInv

LEMMA NextTry ==
    ASSUME NEW k \in 0..(Strategies - 1)
    PROVE  (k + 1) % Strategies \in 0..(Strategies - 1)
  BY UtilAssumption

\* The conjuncts of UtilInv but the types of pc, the permits and met.
Rest ==
    /\ isRunning \in BOOLEAN /\ set \subseteq Fields
    /\ browser \in {"none", "alive", "dead"} /\ alloc \in {"fresh", "used", "dead"}
    /\ idleTimer \in {"nil", "spent", "pending"} /\ stray \in BOOLEAN
    /\ holder \in Users \cup {Nobody} /\ usage \in Nat
    /\ warm \in [Tasks -> BOOLEAN]
    /\ tries \in [Users -> 0..(Strategies - 1)]
    /\ panicked \in BOOLEAN
    /\ RoleInv /\ (~Crashed => LockInv)

LEMMA PanicRest ==
    ASSUME Rest, PermitInv, NEW u \in Users, Panic(u)
    PROVE  Rest'
<1> USE Names DEF Rest, RoleInv, LockInv, PermitInv, Crashed, chrome, timer, Places
<1>1. CASE pc' = [v \in Users |-> "over"]
  BY <1>1 DEF Panic
<1>2. CASE u \in Tasks /\ pc' = [pc EXCEPT ![u] = "idle"]
  <2>1. tries' \in [Users -> 0..(Strategies - 1)]
    BY <1>2, UtilAssumption DEF Panic
  <2>2. warm' \in [Tasks -> BOOLEAN] /\ holder' \in Users \cup {Nobody} /\ panicked' \in BOOLEAN
    BY <1>2 DEF Panic
  <2>3. RoleInv'
    BY <1>2
  <2>4. ~Crashed' => LockInv'
    BY <1>2 DEF Panic, Starting, Reading, Stopping
  <2> QED BY <2>1, <2>2, <2>3, <2>4 DEF Panic
<1>3. QED BY <1>1, <1>2 DEF Panic

LEMMA RestStep == Rest /\ PermitInv /\ [Next]_vars => Rest'
<1> SUFFICES ASSUME Rest, PermitInv, [Next]_vars PROVE Rest'
  OBVIOUS
<1> USE Names
<1>p. \A u \in Users : Panic(u) => Rest'
  BY PanicRest
<1> USE DEF Rest, RoleInv, LockInv, PermitInv, Crashed, Places, Stopping, Starting, Reading,
            chrome, timer, work, panics
<1>1. ASSUME NEW t \in Tasks, Call(t) PROVE Rest'
  BY <1>1 DEF Call
<1>2. ASSUME NEW t \in Tasks, StartWithAutoMode(t) PROVE Rest'
  <2>1. CASE EnsureStarted(t) \/ Decide(t)
    BY <2>1 DEF EnsureStarted, Decide
  <2>2. CASE StartInternal(t)
    BY <2>2 DEF StartInternal
  <2>3. CASE IsHealthy(t) \/ ContextPresent(t)
    BY <2>3 DEF IsHealthy, ContextPresent, NotWritten
  <2>4. CASE ContextDone(t)
    BY <1>p, <2>4 DEF ContextDone
  <2> QED BY <1>2, <2>1, <2>2, <2>3, <2>4 DEF StartWithAutoMode
<1>3. ASSUME NEW u \in Tasks \cup {Closer}, Stop(u) PROVE Rest'
  <2>1. CASE StoppedAlready(u)
    BY <2>1 DEF StoppedAlready, AfterStop, Unlock
  <2>2. CASE ClearAllocCtx(u)
    BY <2>2 DEF ClearAllocCtx, AfterStop, Unlock
  <2>3. CASE BeginStop(u) \/ CheckTimer(u)
    BY <2>3 DEF BeginStop, CheckTimer
  <2>4. CASE StopTimer(u)
    BY <1>p, <2>4 DEF StopTimer
  <2>5. CASE DropTimer(u)
    <3>1. stray' \in BOOLEAN
      BY <2>5 DEF DropTimer
    <3> QED BY <2>5, <3>1 DEF DropTimer
  <2>a. CASE ClearRunning(u)
    <3>1. RoleInv' /\ (~Crashed' => LockInv')
      BY <2>a DEF ClearRunning
    <3> QED BY <2>a, <3>1 DEF ClearRunning
  <2>6. CASE CheckCancel(u) \/ CheckAlloc(u)
    BY <2>6 DEF CheckCancel, CheckAlloc, Check
  <2>7. CASE DropCancel(u) \/ DropAlloc(u) \/ ClearCtx(u)
    BY <2>7 DEF DropCancel, DropAlloc, ClearCtx, Drop
  <2>8. CASE CallCancel(u)
    BY <1>p, <2>8 DEF CallCancel, Kill
  <2>9. CASE CallAlloc(u)
    BY <1>p, <2>9 DEF CallAlloc, Kill
  <2> QED BY <1>3, <2>1, <2>2, <2>3, <2>4, <2>5, <2>a, <2>6, <2>7, <2>8, <2>9 DEF Stop
<1>4. ASSUME NEW u \in Tasks \cup {Boot}, Start(u) PROVE Rest'
  <2>1. CASE FindRunning(u)
    BY <2>1 DEF FindRunning
  <2>2. CASE Lock(u)
    BY <2>2 DEF Lock, Free, NotWritten
  <2>3. CASE NewExecAllocator(u)
    BY <2>3 DEF NewExecAllocator, Fields
  <2>4. CASE NewContext(u)
    <3>1. CASE Panic(u)
      BY <1>p, <3>1
    <3>2. CASE ~Panic(u)
      <4>1. browser' \in {"alive", "dead"} /\ set' \subseteq Fields
        BY <2>4, <3>2 DEF NewContext, Fields
      <4> QED BY <2>4, <3>2, <4>1 DEF NewContext
    <3> QED BY <3>1, <3>2
  <2>5. CASE LimitTest(u)
    BY <1>p, <2>5 DEF LimitTest
  <2>6. CASE TestPasses(u)
    BY <2>6 DEF TestPasses
  <2>7. CASE TestFails(u)
    <3>1. tries' \in [Users -> 0..(Strategies - 1)]
      BY <2>7, NextTry DEF TestFails, Fail
    <3> QED BY <2>7, <3>1 DEF TestFails, Fail
  <2>8. CASE Confirm(u)
    <3>1. tries' \in [Users -> 0..(Strategies - 1)]
      BY <2>8, UtilAssumption DEF Confirm
    <3>2. isRunning' \in BOOLEAN /\ warm' \in [Tasks -> BOOLEAN]
      BY <2>8 DEF Confirm
    <3>3. RoleInv' /\ (~Crashed' => LockInv')
      BY <2>8 DEF Confirm
    <3> QED BY <2>8, <3>1, <3>2, <3>3 DEF Confirm
  <2> QED BY <1>4, <2>1, <2>2, <2>3, <2>4, <2>5, <2>6, <2>7, <2>8 DEF Start
<1>5. ASSUME NEW t \in Tasks, ResetIdleTimer(t) PROVE Rest'
  <2>1. CASE Disarm(t)
    BY <2>1 DEF Disarm
  <2>2. CASE StopOld(t)
    BY <1>p, <2>2 DEF StopOld
  <2>3. CASE Arm(t)
    BY <2>3 DEF Arm
  <2> QED BY <1>5, <2>1, <2>2, <2>3 DEF ResetIdleTimer
<1>6. ASSUME NEW t \in Tasks, GetContext(t) PROVE Rest'
  <2>1. CASE TakePermit(t) \/ GiveUp(t) \/ FindStopped(t) \/ Finish(t)
    BY <2>1 DEF TakePermit, GiveUp, FindStopped, Finish
  <2>2. CASE Enter(t)
    BY <2>2 DEF Enter, NotWritten
  <2>3. CASE Attach(t)
    BY <1>p, <2>3 DEF Attach
  <2> QED BY <1>6, <2>1, <2>2, <2>3 DEF GetContext
<1>7. ASSUME Expire PROVE Rest'
  <2>1. stray' \in BOOLEAN /\ idleTimer' \in {"nil", "spent", "pending"}
    BY <1>7 DEF Expire
  <2>2. UNCHANGED <<isRunning, set, browser, alloc, holder, usage, warm, tries, panicked>>
    BY <1>7 DEF Expire
  <2>3. pc[Closer] = "idle" /\ pc' = [pc EXCEPT ![Closer] = "want"]
    BY <1>7 DEF Expire
  <2>4. RoleInv' /\ (~Crashed' => LockInv')
    BY <2>2, <2>3
  <2> QED BY <2>1, <2>2, <2>4
<1>8. ASSUME LockToStop PROVE Rest'
  BY <1>8 DEF LockToStop, Free, NotWritten
<1>9. ASSUME Die \/ UNCHANGED vars PROVE Rest'
  BY <1>9 DEF Die, vars
<1> HIDE DEF Rest, PermitInv
<1>10. CASE \E t \in Tasks : Call(t) \/ Step(t)
  BY <1>1, <1>2, <1>3, <1>4, <1>5, <1>6, <1>10 DEF Step
<1>11. CASE Start(Boot) \/ Close
  BY <1>3, <1>4, <1>8, <1>11 DEF Close
<1>12. QED BY <1>7, <1>9, <1>10, <1>11 DEF Next

LEMMA UtilStep == UtilInv /\ PermitInv /\ PermitInv' /\ [Next]_vars => UtilInv'
<1> SUFFICES ASSUME UtilInv, PermitInv, PermitInv', [Next]_vars PROVE UtilInv'
  OBVIOUS
<1>1. Rest
  BY DEF UtilInv, TypeOK, Rest
<1>2. Rest'
  BY <1>1, RestStep
<1>3. met' \in BOOLEAN
  BY DEF Next, Remember, vars, UtilInv, TypeOK
<1>4. TypeOK'
  BY <1>2, <1>3 DEF TypeOK, Rest, PermitInv
<1>5. QED BY <1>2, <1>4 DEF UtilInv, Rest

LEMMA UtilAlways == Safety => [](PermitInv /\ UtilInv)
  BY PermitInit, PermitStep, UtilInit, UtilStep, PTL DEF Safety

\* Type correctness, the bounds of all counters included.
THEOREM UtilTypes == Safety => []TypeOK
<1>1. UtilInv => TypeOK
  BY DEF UtilInv
<1>2. QED BY <1>1, UtilAlways, PTL

-------------------------------------------------------------------------------
(* Pointers and browsers, while no stop meets anybody who relies on one *)

\* What somebody has found or made is there when he uses it.
PointerInv ==
    \A u \in Users :
        /\ pc[u] \in {"stopTimer", "unarm"} => idleTimer # "nil"
        /\ pc[u] = "callCancel" => "cancel" \in set
        /\ pc[u] = "callAlloc" => "allocCancel" \in set
        /\ pc[u] = "context" => "allocCtx" \in set
        /\ pc[u] \in {"limit", "done", "attach"} => "ctx" \in set

\* Where a stop has cancelled what there was.
Cancelled == {"dropCancel", "checkAlloc", "callAlloc", "dropAlloc", "clear", "clearCtx", "clearAlloc"}

\* A live browser can be cancelled, and Chrome is said to run unless the browser
\* is still to be tested; no stop has come past the cancelling, and no strategy
\* is about to make another browser.
BrowserInv ==
    browser = "alive" =>
        /\ "cancel" \in set
        /\ isRunning \/ \E u \in Users : pc[u] \in {"limit", "test"}
        /\ \A u \in Users : pc[u] \notin Cancelled \cup {"alloc", "context"}

Alone == ~panicked /\ ~Meeting /\ PointerInv /\ BrowserInv
AloneInv == met \/ Alone

LEMMA AloneInit == Init => AloneInv
<1> SUFFICES ASSUME Init PROVE AloneInv
  OBVIOUS
<1>1. QED
  BY Names DEF Init, AloneInv, Alone, Meeting, Stopping, PointerInv, BrowserInv, Cancelled

LEMMA AloneStep == PermitInv /\ UtilInv /\ AloneInv /\ [Next]_vars => AloneInv'
<1> SUFFICES ASSUME PermitInv, UtilInv, Alone, [Next]_vars, ~met' PROVE Alone'
  BY DEF AloneInv, Next, Remember, vars
<1> USE Names
<1>0. ~Crashed /\ LockInv /\ RoleInv /\ pc \in [Users -> Places]
  BY DEF Alone, PermitInv, UtilInv
<1>1. ~Meeting'
  <2>1. CASE Next
    BY <2>1 DEF Next, Remember
  <2>2. CASE UNCHANGED vars
    BY <2>2 DEF vars, Meeting, Alone
  <2> QED BY <2>1, <2>2
<1> SUFFICES ~panicked' /\ PointerInv' /\ BrowserInv'
  BY <1>1 DEF Alone
<1>a. ~panicked /\ ~Meeting /\ PointerInv /\ BrowserInv
  BY DEF Alone
<1> DEFINE Goal == ~panicked' /\ PointerInv' /\ BrowserInv'
<1> USE <1>0, <1>1, <1>a DEF PointerInv, BrowserInv, chrome, timer, work, panics
<1>2. ASSUME NEW t \in Tasks, Call(t) PROVE Goal
  BY <1>2 DEF Call, Cancelled
<1>3. ASSUME NEW t \in Tasks, StartWithAutoMode(t) PROVE Goal
  <2>1. CASE EnsureStarted(t) \/ Decide(t)
    BY <2>1 DEF EnsureStarted, Decide, Cancelled
  <2>2. CASE StartInternal(t)
    BY <2>2 DEF StartInternal, Cancelled
  <2>3. CASE IsHealthy(t) \/ ContextPresent(t)
    BY <2>3 DEF IsHealthy, ContextPresent, Cancelled
  <2>4. CASE ContextDone(t)
    BY <2>4 DEF ContextDone, Cancelled
  <2> QED BY <1>3, <2>1, <2>2, <2>3, <2>4 DEF StartWithAutoMode
<1>4. ASSUME NEW u \in Tasks \cup {Closer}, Stop(u) PROVE Goal
  <2> USE DEF Meeting, Relying, Stopping, Cancelled
  <2>1. CASE StoppedAlready(u)
    BY <2>1 DEF StoppedAlready, AfterStop
  <2>2. CASE BeginStop(u) \/ CheckTimer(u)
    BY <2>2 DEF BeginStop, CheckTimer
  <2>3. CASE StopTimer(u)
    BY <2>3 DEF StopTimer
  <2>4. CASE DropTimer(u)
    BY <2>4 DEF DropTimer
  <2>5. CASE CheckCancel(u)
    BY <2>5 DEF CheckCancel, Check
  <2>6. CASE CheckAlloc(u)
    BY <2>6 DEF CheckAlloc, Check
  <2>7. CASE CallCancel(u)
    BY <2>7 DEF CallCancel, Kill
  <2>8. CASE CallAlloc(u)
    BY <2>8 DEF CallAlloc, Kill
  <2>9. CASE DropCancel(u) \/ DropAlloc(u)
    BY <2>9 DEF DropCancel, DropAlloc, Drop
  <2>10. CASE ClearRunning(u)
    BY <2>10 DEF ClearRunning
  <2>11. CASE ClearCtx(u)
    BY <2>11 DEF ClearCtx, Drop
  <2>12. CASE ClearAllocCtx(u)
    BY <2>12 DEF ClearAllocCtx, AfterStop
  <2> QED BY <1>4, <2>1, <2>2, <2>3, <2>4, <2>5, <2>6, <2>7, <2>8, <2>9, <2>10, <2>11, <2>12 DEF Stop
<1>5. ASSUME NEW u \in Tasks \cup {Boot}, Start(u) PROVE Goal
  <2> USE DEF LockInv, Starting, Cancelled
  <2>1. CASE FindRunning(u)
    BY <2>1 DEF FindRunning
  <2>2. CASE Lock(u)
    BY <2>2 DEF Lock, Free, NotWritten, RoleInv, Stopping
  <2>3. CASE NewExecAllocator(u)
    BY <2>3 DEF NewExecAllocator
  <2>4. CASE NewContext(u)
    <3>1. pc[u] = "context" /\ "allocCtx" \in set
      BY <2>4 DEF NewContext, Panic
    <3>2. \A v \in Users \ {u} : pc[v] \notin Cancelled
      BY <3>1 DEF Meeting, Relying, Stopping
    <3>3. \A v \in Users \ {u} : pc[v] \notin {"alloc", "context"}
      BY <3>1 DEF RoleInv, Stopping
    <3>4. /\ pc' = [pc EXCEPT ![u] = "limit"] /\ set' = set \cup {"ctx", "cancel"}
          /\ UNCHANGED <<idleTimer, panicked>>
      BY <2>4, <3>1 DEF NewContext
    <3> QED BY <3>1, <3>2, <3>3, <3>4
  <2>5. CASE LimitTest(u)
    BY <2>5 DEF LimitTest
  <2>6. CASE TestPasses(u)
    BY <2>6 DEF TestPasses
  <2>7. CASE TestFails(u)
    BY <2>7 DEF TestFails, Fail
  <2>8. CASE Confirm(u)
    BY <2>8 DEF Confirm
  <2> QED BY <1>5, <2>1, <2>2, <2>3, <2>4, <2>5, <2>6, <2>7, <2>8 DEF Start
<1>6. ASSUME NEW t \in Tasks, ResetIdleTimer(t) PROVE Goal
  BY <1>6 DEF ResetIdleTimer, Disarm, StopOld, Arm, Cancelled
<1>7. ASSUME NEW t \in Tasks, GetContext(t) PROVE Goal
  <2>1. CASE TakePermit(t) \/ GiveUp(t) \/ FindStopped(t) \/ Finish(t)
    BY <2>1 DEF TakePermit, GiveUp, FindStopped, Finish, Cancelled
  <2>2. CASE Enter(t) \/ Attach(t)
    BY <2>2 DEF Enter, Attach, Cancelled
  <2> QED BY <1>7, <2>1, <2>2 DEF GetContext
<1>8. ASSUME Expire \/ LockToStop PROVE Goal
  BY <1>8 DEF Expire, LockToStop, Cancelled
<1>9. ASSUME Die \/ UNCHANGED vars PROVE Goal
  BY <1>9 DEF Die, vars, Cancelled
<1> HIDE DEF Goal, PointerInv, BrowserInv
<1>10. CASE \E t \in Tasks : Call(t) \/ Step(t)
  BY <1>2, <1>3, <1>4, <1>5, <1>6, <1>7, <1>10 DEF Step, Goal
<1>11. CASE Start(Boot) \/ Close
  BY <1>4, <1>5, <1>8, <1>11 DEF Close, Goal
<1>12. QED BY <1>8, <1>9, <1>10, <1>11 DEF Next, Goal

LEMMA AloneAlways == Safety => [](PermitInv /\ UtilInv /\ AloneInv)
  BY UtilAlways, AloneInit, AloneStep, PTL DEF Safety

\* stopInternal takes no lock when EnsureStarted calls it, nor does
\* resetIdleTimer, and what they clear, others have just found there: as long
\* as no stop has met anybody between such a find and the use of it, nobody
\* panics, and no live browser is forgotten or overwritten.
THEOREM UtilAloneIsSafe == Safety => AloneIsSafe
<1>1. PermitInv /\ UtilInv /\ AloneInv /\ AloneInv' /\ [Next]_vars => [Forgets \/ panicked' => met']_vars
  <2> SUFFICES ASSUME PermitInv, UtilInv, AloneInv, AloneInv', Next, Forgets \/ panicked', ~met'
               PROVE  FALSE
    OBVIOUS
  <2>1. Alone /\ Alone'
    BY DEF AloneInv, Next, Remember
  <2>2. ~panicked'
    BY <2>1 DEF Alone
  <2>3. browser' = "alive" => Owned'
    BY <2>1 DEF Alone, BrowserInv, Owned
  <2>4. browser = "alive" => \A u \in Users : pc[u] # "context"
    BY <2>1 DEF Alone, BrowserInv
  <2> QED BY <2>2, <2>3, <2>4 DEF Forgets
<1>2. QED BY <1>1, AloneAlways, PTL DEF Safety, AloneIsSafe

-------------------------------------------------------------------------------
(* How long a call can take, and what it waits for *)

\* Behind the start strategies, or done.
Through == {"confirm", "disarm", "unarm", "arm", "permit", "enter", "attach", "run", "idle", "over"}
PlaceLeft == [place \in Places |->
    CASE place \in {"idle", "over"} -> 0
      [] place = "run" -> 1 [] place = "attach" -> 2 [] place = "enter" -> 3 [] place = "permit" -> 4
      [] place = "arm" -> 5 [] place = "unarm" -> 6 [] place = "disarm" -> 7 [] place = "confirm" -> 8
      [] place = "test" -> 4 [] place = "limit" -> 5 [] place = "context" -> 6 [] place = "alloc" -> 7
      [] place = "lock" -> 8 [] place = "start" -> 9
      [] place = "clearAlloc" -> 10 [] place = "clearCtx" -> 11 [] place = "clear" -> 12
      [] place = "dropAlloc" -> 13 [] place = "callAlloc" -> 14 [] place = "checkAlloc" -> 15
      [] place = "dropCancel" -> 16 [] place = "callCancel" -> 17 [] place = "checkCancel" -> 18
      [] place = "dropTimer" -> 19 [] place = "stopTimer" -> 20 [] place = "checkTimer" -> 21
      [] place = "halt" -> 22 [] place \in {"decide", "want"} -> 23
      [] place = "done" -> 24 [] place = "present" -> 25 [] place = "health" -> 26 [] place = "ensure" -> 27]
MaxSteps == 5 * Strategies + 27

\* How many steps a caller has left at most: those of its place, and five for
\* a strategy that is left.
StepsAt(place, n) == PlaceLeft[place] + (IF place \in Through THEN 0 ELSE 5 * (Strategies - n))
StepsLeft(u) == StepsAt(pc[u], tries[u])

\* The steps of a call that has been made, of the start in the background, or
\* of an idle timer that has expired.
GoesOn(u) ==
    \/ u \in Tasks /\ Step(u)
    \/ u = Boot /\ Start(u)
    \/ u = Closer /\ Close

UnderWay == {u \in Users : pc[u] \notin {"idle", "over"}}

LEMMA PlaceValues ==
    /\ PlaceLeft["idle"] = 0 /\ PlaceLeft["over"] = 0
    /\ PlaceLeft["run"] = 1 /\ PlaceLeft["attach"] = 2 /\ PlaceLeft["enter"] = 3 /\ PlaceLeft["permit"] = 4
    /\ PlaceLeft["arm"] = 5 /\ PlaceLeft["unarm"] = 6 /\ PlaceLeft["disarm"] = 7 /\ PlaceLeft["confirm"] = 8
    /\ PlaceLeft["test"] = 4 /\ PlaceLeft["limit"] = 5 /\ PlaceLeft["context"] = 6 /\ PlaceLeft["alloc"] = 7
    /\ PlaceLeft["lock"] = 8 /\ PlaceLeft["start"] = 9
    /\ PlaceLeft["clearAlloc"] = 10 /\ PlaceLeft["clearCtx"] = 11 /\ PlaceLeft["clear"] = 12
    /\ PlaceLeft["dropAlloc"] = 13 /\ PlaceLeft["callAlloc"] = 14 /\ PlaceLeft["checkAlloc"] = 15
    /\ PlaceLeft["dropCancel"] = 16 /\ PlaceLeft["callCancel"] = 17 /\ PlaceLeft["checkCancel"] = 18
    /\ PlaceLeft["dropTimer"] = 19 /\ PlaceLeft["stopTimer"] = 20 /\ PlaceLeft["checkTimer"] = 21
    /\ PlaceLeft["halt"] = 22 /\ PlaceLeft["decide"] = 23 /\ PlaceLeft["want"] = 23
    /\ PlaceLeft["done"] = 24 /\ PlaceLeft["present"] = 25 /\ PlaceLeft["health"] = 26 /\ PlaceLeft["ensure"] = 27
  BY DEF PlaceLeft, Places, Stopping, Starting, Reading

LEMMA PlaceRange == ASSUME NEW place \in Places PROVE PlaceLeft[place] \in 0..27
  BY PlaceValues DEF Places, Stopping, Starting, Reading

LEMMA StepsFacts ==
    ASSUME NEW place \in Places, NEW n \in 0..(Strategies - 1)
    PROVE  /\ StepsAt(place, n) \in 0..MaxSteps
           /\ StepsAt(place, n) = 0 <=> place \in {"idle", "over"}
<1> DEFINE rounds == 5 * (Strategies - n)
<1>1. rounds \in Nat /\ rounds <= 5 * Strategies /\ rounds >= 5 /\ Strategies \in Nat
  BY UtilAssumption
<1>2. StepsAt(place, n) = PlaceLeft[place] + (IF place \in Through THEN 0 ELSE rounds)
  BY DEF StepsAt
<1> HIDE DEF rounds
<1>3. CASE place \in Through
  <2>1. PlaceLeft[place] = 0 <=> place \in {"idle", "over"}
    BY <1>3, PlaceValues DEF Through
  <2> QED BY <1>1, <1>2, <1>3, <2>1, PlaceRange DEF MaxSteps
<1>4. CASE place \notin Through
  BY <1>1, <1>2, <1>4, PlaceRange DEF MaxSteps, Through
<1>5. QED BY <1>3, <1>4

\* From place to place: within a strategy or on the way to one, past them all,
\* or to the next.
LEMMA Onward ==
    ASSUME NEW from \in Places, NEW to \in Places,
           NEW n \in 0..(Strategies - 1), NEW m \in 0..(Strategies - 1),
           \/ PlaceLeft[to] < PlaceLeft[from] /\ m = n /\ from \notin Through
           \/ PlaceLeft[to] < PlaceLeft[from] /\ to \in Through
           \/ from \in {"lock"} \cup Starting /\ to \in {"confirm", "idle", "over"}
           \/ from = "test" /\ to = "lock" /\ m = n + 1
    PROVE  StepsAt(to, m) < StepsAt(from, n)
<1>1. /\ Strategies \in Nat /\ 5 * (Strategies - n) \in Nat /\ 5 * (Strategies - m) \in Nat
      /\ 5 * (Strategies - n) >= 5 /\ 5 * (Strategies - (n + 1)) = 5 * (Strategies - n) - 5
  BY UtilAssumption
<1>2. PlaceLeft[from] \in 0..27 /\ PlaceLeft[to] \in 0..27
  BY PlaceRange
<1>3. CASE from = "test" /\ to = "lock" /\ m = n + 1
  <2>1. StepsAt(from, n) = 4 + 5 * (Strategies - n) /\ StepsAt(to, m) = 8 + 5 * (Strategies - (n + 1))
    BY <1>3, PlaceValues DEF StepsAt, Through
  <2>2. QED BY <1>1, <2>1
<1>4. CASE from \in {"lock"} \cup Starting /\ to \in {"confirm", "idle", "over"}
  <2>1. StepsAt(from, n) = PlaceLeft[from] + 5 * (Strategies - n) /\ PlaceLeft[from] >= 4
    BY <1>4, PlaceValues DEF StepsAt, Through, Starting
  <2>2. StepsAt(to, m) = PlaceLeft[to] + 0 /\ PlaceLeft[to] <= 8
    BY <1>4, PlaceValues DEF StepsAt, Through
  <2>3. QED BY <1>1, <1>2, <2>1, <2>2
<1>5. CASE PlaceLeft[to] < PlaceLeft[from] /\ to \in Through
  <2>1. StepsAt(to, m) = PlaceLeft[to] + 0
    BY <1>5 DEF StepsAt
  <2>2. \/ StepsAt(from, n) = PlaceLeft[from] + 0
        \/ StepsAt(from, n) = PlaceLeft[from] + 5 * (Strategies - n)
    BY DEF StepsAt
  <2>3. QED BY <1>1, <1>2, <1>5, <2>1, <2>2
<1>6. CASE PlaceLeft[to] < PlaceLeft[from] /\ m = n /\ from \notin Through /\ to \notin Through
  <2>1. /\ StepsAt(to, m) = PlaceLeft[to] + 5 * (Strategies - n)
        /\ StepsAt(from, n) = PlaceLeft[from] + 5 * (Strategies - n)
    BY <1>6 DEF StepsAt
  <2>2. QED BY <1>1, <1>2, <1>6, <2>1
<1>7. QED BY <1>3, <1>4, <1>5, <1>6

LEMMA OwnStep ==
    ASSUME UtilInv, UtilInv', NEW u \in UnderWay, GoesOn(u)
    PROVE  StepsAt(pc'[u], tries'[u]) < StepsAt(pc[u], tries[u])
<1>1. /\ u \in Users /\ pc[u] \notin {"idle", "over"}
      /\ pc \in [Users -> Places] /\ tries \in [Users -> 0..(Strategies - 1)]
      /\ pc[u] \in Places /\ pc'[u] \in Places
      /\ tries[u] \in 0..(Strategies - 1) /\ tries'[u] \in 0..(Strategies - 1)
  BY DEF UtilInv, TypeOK, UnderWay
<1> DEFINE Goal == StepsAt(pc'[u], tries'[u]) < StepsAt(pc[u], tries[u])
<1>2. ASSUME NEW from, NEW to, pc[u] = from, pc'[u] = to, tries' = tries,
             from \notin Through, PlaceLeft[to] < PlaceLeft[from]
      PROVE  Goal
  BY <1>1, <1>2, Onward
<1>3. ASSUME NEW from, NEW to, pc[u] = from, pc'[u] = to,
             to \in Through, PlaceLeft[to] < PlaceLeft[from] \/ (from \in {"lock"} \cup Starting /\ to = "confirm")
      PROVE  Goal
  <2>1. CASE PlaceLeft[to] < PlaceLeft[from]
    BY <1>1, <1>3, <2>1, Onward
  <2>2. CASE from \in {"lock"} \cup Starting /\ to = "confirm"
    BY <1>1, <1>3, <2>2, Onward
  <2>3. QED BY <1>3, <2>1, <2>2
<1>p. ASSUME Panic(u) PROVE Goal
  <2>1. pc'[u] \in {"idle", "over"}
    BY <1>1, <1>p DEF Panic
  <2>2. StepsAt(pc'[u], tries'[u]) = 0
    BY <1>1, <2>1, StepsFacts
  <2>3. StepsAt(pc[u], tries[u]) \in Nat /\ StepsAt(pc[u], tries[u]) # 0
    BY <1>1, StepsFacts, UtilAssumption DEF MaxSteps
  <2> HIDE DEF Goal
  <2> QED BY <2>2, <2>3 DEF Goal
<1> HIDE DEF Goal
<1> USE Names, PlaceValues DEF Through, work
<1>4. ASSUME StartWithAutoMode(u) PROVE Goal
  <2>1. CASE EnsureStarted(u) \/ Decide(u)
    BY <1>1, <1>2, <2>1 DEF EnsureStarted, Decide
  <2>2. CASE StartInternal(u)
    BY <1>1, <1>2, <1>3, <2>2 DEF StartInternal
  <2>3. CASE IsHealthy(u) \/ ContextPresent(u)
    BY <1>1, <1>2, <2>3 DEF IsHealthy, ContextPresent
  <2>4. CASE ContextDone(u)
    BY <1>1, <1>2, <1>3, <1>p, <2>4 DEF ContextDone
  <2> QED BY <1>4, <2>1, <2>2, <2>3, <2>4 DEF StartWithAutoMode
<1>5. ASSUME Stop(u) PROVE Goal
  <2>1. CASE StoppedAlready(u) \/ ClearAllocCtx(u)
    <3>1. pc[u] \in {"halt", "clearAlloc"} /\ pc'[u] \in {"idle", "start"} /\ tries' = tries
      BY <1>1, <2>1 DEF StoppedAlready, ClearAllocCtx, AfterStop
    <3> QED BY <1>2, <3>1
  <2>2. CASE BeginStop(u) \/ CheckTimer(u) \/ DropTimer(u)
    BY <1>1, <1>2, <2>2 DEF BeginStop, CheckTimer, DropTimer
  <2>3. CASE StopTimer(u)
    BY <1>1, <1>2, <1>p, <2>3 DEF StopTimer
  <2>4. CASE CheckCancel(u) \/ CheckAlloc(u)
    BY <1>1, <1>2, <2>4 DEF CheckCancel, CheckAlloc, Check
  <2>5. CASE CallCancel(u) \/ CallAlloc(u)
    BY <1>1, <1>2, <1>p, <2>5 DEF CallCancel, CallAlloc
  <2>6. CASE DropCancel(u) \/ DropAlloc(u) \/ ClearCtx(u)
    BY <1>1, <1>2, <2>6 DEF DropCancel, DropAlloc, ClearCtx, Drop
  <2>7. CASE ClearRunning(u)
    BY <1>1, <1>2, <2>7 DEF ClearRunning
  <2> QED BY <1>5, <2>1, <2>2, <2>3, <2>4, <2>5, <2>6, <2>7 DEF Stop
<1>6. ASSUME Start(u) PROVE Goal
  <2>1. CASE FindRunning(u) \/ TestPasses(u)
    BY <1>1, <1>3, <2>1 DEF FindRunning, TestPasses, Starting
  <2>2. CASE Lock(u) \/ NewExecAllocator(u)
    BY <1>1, <1>2, <2>2 DEF Lock, NewExecAllocator
  <2>3. CASE NewContext(u) \/ LimitTest(u)
    BY <1>1, <1>2, <1>p, <2>3 DEF NewContext, LimitTest
  <2>4. CASE TestFails(u)
    <3>1. CASE tries[u] < Strategies - 1
      <4>1. pc[u] = "test" /\ pc'[u] = "lock" /\ tries'[u] = (tries[u] + 1) % Strategies
        BY <1>1, <2>4, <3>1 DEF TestFails, Fail
      <4>2. (tries[u] + 1) % Strategies = tries[u] + 1
        BY <1>1, <3>1, UtilAssumption
      <4>3. QED BY <1>1, <4>1, <4>2, Onward DEF Goal
    <3>2. CASE ~ (tries[u] < Strategies - 1)
      <4>1. pc[u] = "test" /\ pc'[u] \in {"idle", "over"}
        BY <1>1, <2>4, <3>2 DEF TestFails, Fail
      <4>2. QED BY <1>1, <4>1, Onward DEF Goal, Starting
    <3>3. QED BY <3>1, <3>2
  <2>5. CASE Confirm(u)
    <3>1. pc[u] = "confirm" /\ pc'[u] \in {"over", "disarm", "permit"}
      BY <1>1, <2>5 DEF Confirm
    <3>2. QED BY <1>3, <3>1
  <2> QED BY <1>6, <2>1, <2>2, <2>3, <2>4, <2>5 DEF Start
<1>7. ASSUME ResetIdleTimer(u) PROVE Goal
  BY <1>1, <1>3, <1>p, <1>7 DEF ResetIdleTimer, Disarm, StopOld, Arm
<1>8. ASSUME GetContext(u) PROVE Goal
  <2>1. CASE TakePermit(u) \/ GiveUp(u) \/ FindStopped(u)
    BY <1>1, <1>3, <2>1 DEF TakePermit, GiveUp, FindStopped
  <2>2. CASE Enter(u) \/ Attach(u) \/ Finish(u)
    BY <1>1, <1>3, <1>p, <2>2 DEF Enter, Attach, Finish
  <2> QED BY <1>8, <2>1, <2>2 DEF GetContext
<1>9. ASSUME u = Closer, LockToStop PROVE Goal
  BY <1>1, <1>2, <1>9 DEF LockToStop
<1>10. QED BY <1>4, <1>5, <1>6, <1>7, <1>8, <1>9 DEF GoesOn, Step, Close, Goal

\* A step of one caller is no step of another, unless it is a panic that ends
\* the process.
LEMMA OthersWait ==
    ASSUME UtilInv, NEW u \in Users, GoesOn(u), NEW v \in Users \ {u}
    PROVE  (pc'[v] = pc[v] /\ tries'[v] = tries[v]) \/ pc'[v] = "over"
<1>0. pc \in [Users -> Places] /\ tries \in [Users -> 0..(Strategies - 1)] /\ v \in Users /\ v # u
  BY DEF UtilInv, TypeOK
<1> DEFINE Goal == (pc'[v] = pc[v] /\ tries'[v] = tries[v]) \/ pc'[v] = "over"
<1>p. ASSUME Panic(u) PROVE Goal
  BY <1>0, <1>p DEF Panic
<1> USE <1>0 DEF work
<1>1. ASSUME StartWithAutoMode(u) PROVE Goal
  BY <1>p, <1>1 DEF StartWithAutoMode, EnsureStarted, IsHealthy, ContextPresent, ContextDone, Decide, StartInternal
<1>2. ASSUME Stop(u) PROVE Goal
  BY <1>p, <1>2 DEF Stop, StoppedAlready, BeginStop, CheckTimer, StopTimer, DropTimer, CheckCancel, CallCancel,
         DropCancel, CheckAlloc, CallAlloc, DropAlloc, ClearRunning, ClearCtx, ClearAllocCtx, Check, Drop
<1>3. ASSUME Start(u) PROVE Goal
  BY <1>p, <1>3 DEF Start, FindRunning, Lock, NewExecAllocator, NewContext, LimitTest, TestPasses, TestFails,
         Fail, Confirm
<1>4. ASSUME ResetIdleTimer(u) \/ GetContext(u) PROVE Goal
  BY <1>p, <1>4 DEF ResetIdleTimer, Disarm, StopOld, Arm, GetContext, TakePermit, GiveUp, Enter, Attach,
         FindStopped, Finish
<1>5. ASSUME u = Closer, LockToStop PROVE Goal
  BY <1>5 DEF LockToStop
<1>6. QED BY <1>1, <1>2, <1>3, <1>4, <1>5 DEF GoesOn, Step, Close

\* What a step of the tool does to somebody who is under way.
LEMMA StepsStep ==
    ASSUME UtilInv, UtilInv', [Next]_vars, NEW u \in UnderWay
    PROVE  (GoesOn(u) => StepsLeft(u)' < StepsLeft(u)) /\ StepsLeft(u)' <= StepsLeft(u)
<1>1. u \in Users /\ pc[u] \notin {"idle", "over"}
  BY DEF UnderWay
<1>2. /\ pc[u] \in Places /\ pc'[u] \in Places
      /\ tries[u] \in 0..(Strategies - 1) /\ tries'[u] \in 0..(Strategies - 1)
  BY <1>1 DEF UtilInv, TypeOK
<1> DEFINE now == StepsAt(pc[u], tries[u])
           then == StepsAt(pc'[u], tries'[u])
<1>3. now \in 0..MaxSteps /\ then \in 0..MaxSteps /\ MaxSteps \in Nat
  BY <1>2, StepsFacts, UtilAssumption DEF MaxSteps
<1>4. StepsLeft(u) = now
  BY DEF StepsLeft
<1>5. StepsLeft(u)' = then
  BY DEF StepsLeft, StepsAt, PlaceLeft
<1>6. CASE GoesOn(u)
  <2>1. then < now
    BY <1>6, OwnStep
  <2>2. QED BY <1>3, <1>4, <1>5, <2>1
<1>7. CASE ~GoesOn(u)
  <2>1. (pc'[u] = pc[u] /\ tries'[u] = tries[u]) \/ pc'[u] = "over"
    <3>1. ASSUME NEW v \in Users, GoesOn(v) PROVE (pc'[u] = pc[u] /\ tries'[u] = tries[u]) \/ pc'[u] = "over"
      BY <1>1, <1>7, <3>1, OthersWait
    <3>2. ASSUME NEW t \in Tasks, Call(t) PROVE pc'[u] = pc[u] /\ tries'[u] = tries[u]
      BY <1>1, <3>2 DEF Call, work
    <3>3. ASSUME Expire PROVE pc'[u] = pc[u] /\ tries'[u] = tries[u]
      BY <1>1, <3>3 DEF Expire, work
    <3>4. ASSUME Die \/ UNCHANGED vars PROVE pc'[u] = pc[u] /\ tries'[u] = tries[u]
      BY <3>4 DEF Die, vars, work
    <3>5. Boot \in Users /\ Closer \in Users
      OBVIOUS
    <3>6. QED BY <3>1, <3>2, <3>3, <3>4, <3>5 DEF Next, GoesOn
  <2>2. then = now \/ then = 0
    BY <1>2, <2>1, StepsFacts
  <2>3. then <= now
    BY <1>3, <2>2
  <2>4. QED BY <1>4, <1>5, <1>7, <2>3
<1>8. QED BY <1>6, <1>7

\* A call has a bounded number of steps left, in whatever state the others
\* leave Chrome between them: each of its own leaves it fewer, those of others
\* no more, and none are left exactly when it is over.
THEOREM CallIsBounded ==
    Safety => /\ [](\A u \in Users : StepsLeft(u) \in 0..MaxSteps /\ (StepsLeft(u) = 0 <=> u \notin UnderWay))
              /\ [][\A u \in UnderWay : /\ GoesOn(u) => StepsLeft(u)' < StepsLeft(u)
                                        /\ StepsLeft(u)' <= StepsLeft(u)]_vars
<1>1. UtilInv => \A u \in Users : StepsLeft(u) \in 0..MaxSteps /\ (StepsLeft(u) = 0 <=> u \notin UnderWay)
  <2> SUFFICES ASSUME UtilInv, NEW u \in Users
               PROVE  StepsLeft(u) \in 0..MaxSteps /\ (StepsLeft(u) = 0 <=> u \notin UnderWay)
    OBVIOUS
  <2>1. pc[u] \in Places /\ tries[u] \in 0..(Strategies - 1)
    BY DEF UtilInv, TypeOK
  <2>2. u \notin UnderWay <=> pc[u] \in {"idle", "over"}
    BY DEF UnderWay
  <2>3. QED BY <2>1, <2>2, StepsFacts DEF StepsLeft
<1>2. UtilInv /\ UtilInv' /\ [Next]_vars =>
         [\A u \in UnderWay : /\ GoesOn(u) => StepsLeft(u)' < StepsLeft(u)
                              /\ StepsLeft(u)' <= StepsLeft(u)]_vars
  BY StepsStep
<1>3. QED BY <1>1, <1>2, UtilAlways, PTL DEF Safety

\* What the next step of a caller waits for: cu.mu, to read or to write under
\* it.  For a permit it waits only so long, and then gives up.
Waits(u) ==
    \/ pc[u] \in {"health", "enter"} /\ ~NotWritten
    \/ pc[u] \in {"lock", "want"} /\ ~Free
Has(u) == holder = u \/ pc[u] \in Reading

\* Who waits for cu.mu does so for somebody who is under way and does not wait:
\* neither the steps of stopInternal without the lock nor the idle timer with
\* it nor the readers can block each other.
THEOREM NoCircularWait ==
    Safety => [](~Crashed => /\ \A u \in Users : Waits(u) => \E v \in Users \ {u} : Has(v)
                             /\ \A v \in Users : Has(v) => v \in UnderWay /\ ~Waits(v))
<1>1. ASSUME UtilInv, ~Crashed
      PROVE  /\ \A u \in Users : Waits(u) => \E v \in Users \ {u} : Has(v)
             /\ \A v \in Users : Has(v) => v \in UnderWay /\ ~Waits(v)
  <2>1. LockInv /\ RoleInv /\ holder \in Users \cup {Nobody}
    BY <1>1 DEF UtilInv, TypeOK
  <2>2. \A v \in Users : Has(v) => pc[v] \in Starting \cup {"halt"} \cup Stopping \cup Reading
    BY <2>1, Names DEF Has, LockInv
  <2>3. \A v \in Users : Has(v) => v \in UnderWay /\ ~Waits(v)
    BY <2>2 DEF UnderWay, Waits, Starting, Stopping, Reading
  <2>4. ASSUME NEW u \in Users, Waits(u) PROVE \E v \in Users \ {u} : Has(v)
    <3>1. \E v \in Users : Has(v)
      BY <2>1, <2>4 DEF Waits, Free, NotWritten, Has
    <3> QED BY <2>3, <2>4, <3>1
  <2> QED BY <2>3, <2>4
<1>2. QED BY <1>1, UtilAlways, PTL
===============================================================================
