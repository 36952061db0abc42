------------------------- MODULE ChromeManagerProofs -------------------------
(***************************************************************************)
(* The Chrome manager for any number of tasks, administrators, watchers,   *)
(* monitors and permits.  Two invariants that need nothing of each other:  *)
(* the permits and the count of tasks are those of the tasks that hold     *)
(* one, and the browser has one owner.                                     *)
(*                                                                         *)
(* On these rest the refinement of PermitContract, that nobody waits in a  *)
(* circle, and that a request is over after boundedly many steps.          *)
(***************************************************************************)
EXTENDS ChromeManager, FiniteSetTheorems, TLAPS

PermitInv ==
    /\ pc \in [Users -> Places]
    /\ permits \in 0..MaxConcurrent
    /\ PermitsBalance

\* Whoever validates or counts is the one who holds cm.mu; while nobody does,
\* a browser that is there is running.
LockInv ==
    /\ \A u \in Users : pc[u] \in {"validate", "count"} <=> starter = u
    /\ \A u \in Users : pc[u] = "validate" => ~isRunning /\ ctx # "nil"
    /\ \A u \in Users : pc[u] = "count" => isRunning
    /\ starter = None => (isRunning <=> ctx # "nil")

OwnerType ==
    /\ isRunning \in BOOLEAN
    /\ ctx \in {"nil", "alive", "dead"}
    /\ allocators \in 0..1
    /\ starter \in Users \cup {None}
    /\ pc \in [Users -> Places]
    /\ stopped \in [Tasks -> BOOLEAN]

OwnerInv == OwnerType /\ LockInv /\ OneChrome /\ FoundStoppedWasStopped

USE DEF Users

------------------------------------------------------------------------------
(* Permits *)

Inside == {"enter", "run", "release"}

LEMMA MoveOutside ==
    ASSUME pc \in [Users -> Places], NEW u \in Users, NEW to \in Places,
           pc[u] \notin Inside, to \notin Inside, pc' = [pc EXCEPT ![u] = to]
    PROVE  pc' \in [Users -> Places] /\ Holders' = Holders /\ Entered' = Entered
  BY DEF Holders, Entered, Inside

LEMMA FiniteHolders == IsFiniteSet(Holders) /\ IsFiniteSet(Entered)
<1>1. Holders \subseteq Tasks /\ Entered \subseteq Tasks
  BY DEF Holders, Entered
<1>2. QED BY <1>1, FS_Subset, ChromeAssumption DEF ChromeAssumption

\* There are never more contexts than permits.
LEMMA EnteredHold == PermitInv => currentTasks \in 0..MaxConcurrent
<1> SUFFICES ASSUME PermitInv PROVE currentTasks \in 0..MaxConcurrent
  OBVIOUS
<1>1. Entered \subseteq Holders
  BY DEF Holders, Entered
<1>2. Cardinality(Entered) <= Cardinality(Holders) /\ Cardinality(Entered) \in Nat
  BY <1>1, FiniteHolders, FS_Subset, FS_CardinalityType
<1>3. MaxConcurrent \in Nat
  BY ChromeAssumption DEF ChromeAssumption
<1>4. QED BY <1>2, <1>3 DEF PermitInv, PermitsBalance

LEMMA PermitInit == Init => PermitInv
<1> SUFFICES ASSUME Init PROVE PermitInv
  OBVIOUS
<1>1. Holders = {} /\ Entered = {}
  BY DEF Init, Holders, Entered
<1>2. 0 \in 0..MaxConcurrent
  BY ChromeAssumption DEF ChromeAssumption
<1>3. QED BY <1>1, <1>2, FS_EmptySet DEF Init, PermitInv, PermitsBalance, Places

LEMMA PermitStep == PermitInv /\ [Next]_vars => PermitInv'
<1> SUFFICES ASSUME PermitInv, [Next]_vars PROVE PermitInv'
  OBVIOUS
<1> USE DEF PermitInv, At
<1>0. MaxConcurrent \in Nat /\ permits \in Nat /\ currentTasks \in Nat
  BY ChromeAssumption, EnteredHold DEF ChromeAssumption
<1>a. ASSUME Holders' = Holders, Entered' = Entered, pc' \in [Users -> Places],
             UNCHANGED <<permits, currentTasks>>
      PROVE  PermitInv'
  BY <1>a DEF PermitsBalance
<1>b. ASSUME NEW u \in Users, pc[u] \notin Inside, NEW to \in Places \ Inside,
             pc' = [pc EXCEPT ![u] = to], UNCHANGED <<permits, currentTasks>>
      PROVE  PermitInv'
  BY <1>a, <1>b, MoveOutside
<1>c. ASSUME UNCHANGED <<pc, permits, currentTasks>> PROVE PermitInv'
  BY <1>a, <1>c DEF Holders, Entered
<1>1. ASSUME NEW t \in Tasks,
             Arrive(t) \/ ReadRunning(t) \/ CheckHealth(t) \/ Decide(t)
      PROVE  PermitInv'
  BY <1>1, <1>b DEF Arrive, ReadRunning, CheckHealth, Decide, Places, Inside
<1>2. ASSUME NEW u \in Users, Stop(u) PROVE PermitInv'
  BY <1>2, <1>b DEF Stop, Places, Inside
<1>3. ASSUME NEW u \in Users, Starting(u) PROVE PermitInv'
  <2>1. CASE FindStarted(u)
    BY <2>1, <1>b DEF FindStarted, Started, Places, Inside
  <2>2. CASE Launch(u) \/ Validate(u)
    BY <2>2, <1>b DEF Launch, Validate, Places, Inside
  <2>3. CASE ValidateFails(u)
    BY <2>3, <1>b DEF ValidateFails, StartFailed, Places, Inside
  <2>4. CASE CountRestart(u)
    BY <2>4, <1>b DEF CountRestart, Started, Places, Inside
  <2>5. QED BY <1>3, <2>1, <2>2, <2>3, <2>4 DEF Starting
<1>4. ASSUME NEW t \in Tasks, Deny(t) \/ GiveUp(t) \/ Record(t) PROVE PermitInv'
  BY <1>4, <1>b DEF Deny, GiveUp, Record, Places, Inside
<1>5. ASSUME NEW t \in Tasks, TakePermit(t) PROVE PermitInv'
  <2>1. t \notin Holders /\ Holders' = Holders \cup {t} /\ Entered' = Entered
    BY <1>5 DEF TakePermit, Holders, Entered
  <2>2. Cardinality(Holders') = permits'
    BY <1>0, <1>5, <2>1, FiniteHolders, FS_AddElement DEF TakePermit, PermitsBalance
  <2>3. QED BY <1>0, <1>5, <2>1, <2>2 DEF TakePermit, PermitsBalance, Places
<1>6. ASSUME NEW t \in Tasks, FindStopped(t) \/ Release(t) PROVE PermitInv'
  <2>1. t \in Holders /\ Holders' = Holders \ {t} /\ Entered' = Entered
    BY <1>6 DEF FindStopped, Release, Holders, Entered
  <2>2. Cardinality(Holders') = permits'
    BY <1>0, <1>6, <2>1, FiniteHolders, FS_RemoveElement DEF FindStopped, Release, PermitsBalance
  <2>3. permits' \in Nat /\ permits' = permits - 1
    BY <1>6, <2>1, <2>2, FiniteHolders, FS_RemoveElement, FS_CardinalityType DEF FindStopped, Release
  <2>4. QED BY <1>0, <1>6, <2>1, <2>2, <2>3 DEF FindStopped, Release, PermitsBalance, Places
<1>7. ASSUME NEW t \in Tasks, Enter(t) PROVE PermitInv'
  <2>1. t \notin Entered /\ Entered' = Entered \cup {t} /\ Holders' = Holders
    BY <1>7 DEF Enter, Holders, Entered
  <2>2. Cardinality(Entered') = currentTasks'
    BY <1>0, <1>7, <2>1, FiniteHolders, FS_AddElement DEF Enter, PermitsBalance
  <2>3. QED BY <1>0, <1>7, <2>1, <2>2 DEF Enter, PermitsBalance, Places
<1>8. ASSUME NEW t \in Tasks, Finish(t) PROVE PermitInv'
  <2>1. t \in Entered /\ Entered' = Entered \ {t} /\ Holders' = Holders
    BY <1>8 DEF Finish, Holders, Entered
  <2>2. Cardinality(Entered') = currentTasks'
    BY <1>0, <1>8, <2>1, FiniteHolders, FS_RemoveElement DEF Finish, PermitsBalance
  <2>3. QED BY <1>0, <1>8, <2>1, <2>2 DEF Finish, PermitsBalance, Places
<1>9. ASSUME NEW a \in Admins, BeginRestart(a) \/ Pause(a) PROVE PermitInv'
  BY <1>9, <1>b DEF BeginRestart, Pause, Places, Inside
<1>10. CASE \E m \in Monitors : MonitorLooks(m) \/ MonitorStops(m)
  BY <1>10, <1>c DEF MonitorLooks, MonitorStops
<1>11. CASE \E w \in Watchers : BeginStats(w) \/ EndStats(w)
  BY <1>11, <1>c DEF BeginStats, EndStats
<1>12. CASE GrowIdle \/ ChromeDies \/ UNCHANGED vars
  BY <1>12, <1>c DEF GrowIdle, ChromeDies, vars
<1>13. QED
  BY <1>1, <1>2, <1>3, <1>4, <1>5, <1>6, <1>7, <1>8, <1>9, <1>10, <1>11, <1>12
  DEF Next, Proceed, Restarting

\* cm.semaphore and cm.currentTasks count exactly the tasks that hold a
\* permit and a context: no path through GetContext, and none through a
\* screenshot that fails, times out or loses its Chrome, leaks a permit.
THEOREM PermitsNeverLeak == Safety => []PermitsBalance
<1>1. Init => PermitInv
  BY PermitInit
<1>2. PermitInv /\ [Next]_vars => PermitInv'
  BY PermitStep
<1>3. PermitInv => PermitsBalance
  BY DEF PermitInv
<1>4. QED BY <1>1, <1>2, <1>3, PTL DEF Safety

\* The abstract specification, with the tasks from GetContext to the end of
\* wrappedCancel as the holders.
Channel == INSTANCE PermitContract WITH holders <- Holders

LEMMA PermitMove ==
    ASSUME PermitInv, [Next]_vars
    PROVE  UNCHANGED <<permits, Holders>> \/ \E t \in Tasks : Channel!TakePermit(t) \/ Channel!Release(t)
<1> USE DEF PermitInv, At
<1>a. ASSUME NEW u \in Users, pc[u] \notin Inside, NEW to \in Places \ Inside,
             pc' = [pc EXCEPT ![u] = to], UNCHANGED permits
      PROVE  UNCHANGED <<permits, Holders>>
  BY <1>a, MoveOutside
<1>b. ASSUME UNCHANGED <<pc, permits>> PROVE UNCHANGED <<permits, Holders>>
  BY <1>b DEF Holders
<1>1. ASSUME NEW t \in Tasks, TakePermit(t) PROVE Channel!TakePermit(t)
  BY <1>1 DEF TakePermit, Channel!TakePermit, Holders
<1>2. ASSUME NEW t \in Tasks, FindStopped(t) \/ Release(t) PROVE Channel!Release(t)
  <2>1. t \in Holders /\ Holders' = Holders \ {t} /\ permits' = permits - 1
    BY <1>2 DEF FindStopped, Release, Holders
  <2>2. permits > 0
    <3>1. Cardinality(Holders) # 0
      BY <2>1, FiniteHolders, FS_EmptySet
    <3>2. permits \in Nat /\ permits = Cardinality(Holders)
      BY ChromeAssumption DEF PermitsBalance
    <3> QED BY <3>1, <3>2
  <2> QED BY <2>1, <2>2 DEF Channel!Release
<1>3. ASSUME NEW t \in Tasks,
             \/ Arrive(t) \/ ReadRunning(t) \/ CheckHealth(t) \/ Decide(t)
             \/ Deny(t) \/ GiveUp(t) \/ Record(t)
      PROVE  UNCHANGED <<permits, Holders>>
  BY <1>3, <1>a DEF Arrive, ReadRunning, CheckHealth, Decide, Deny, GiveUp, Record, Places, Inside
<1>4. ASSUME NEW t \in Tasks, Enter(t) \/ Finish(t) PROVE UNCHANGED <<permits, Holders>>
  BY <1>4 DEF Enter, Finish, Holders
<1>5. ASSUME NEW u \in Users, Stop(u) PROVE UNCHANGED <<permits, Holders>>
  BY <1>5, <1>a DEF Stop, Places, Inside
<1>6. ASSUME NEW u \in Users, Starting(u) PROVE UNCHANGED <<permits, Holders>>
  BY <1>6, <1>a DEF Starting, FindStarted, Started, Launch, Validate, ValidateFails, StartFailed,
                    CountRestart, Places, Inside
<1>7. ASSUME NEW a \in Admins, BeginRestart(a) \/ Pause(a) PROVE UNCHANGED <<permits, Holders>>
  BY <1>7, <1>a DEF BeginRestart, Pause, Places, Inside
<1>8. ASSUME \/ \E m \in Monitors : MonitorLooks(m) \/ MonitorStops(m)
             \/ \E w \in Watchers : BeginStats(w) \/ EndStats(w)
             \/ GrowIdle \/ ChromeDies \/ UNCHANGED vars
      PROVE  UNCHANGED <<permits, Holders>>
  BY <1>8, <1>b DEF MonitorLooks, MonitorStops, BeginStats, EndStats, GrowIdle, ChromeDies, vars
<1> QED
  BY <1>1, <1>2, <1>3, <1>4, <1>5, <1>6, <1>7, <1>8 DEF Next, Proceed, Restarting

\* The manager implements the contract of permits: every step takes one permit
\* for a task that has none, or gives back the one permit of a task that has
\* one, or leaves them alone, and the receive that gives one back never waits.
THEOREM PermitsRefine == Safety => Channel!Spec
<1>1. Init => PermitInv /\ Channel!Init
  <2>1. Init => Holders = {} /\ permits = 0
    BY DEF Init, Holders
  <2> QED BY <2>1, PermitInit DEF Channel!Init
<1>2. PermitInv /\ [Next]_vars => PermitInv'
  BY PermitStep
<1>3. PermitInv /\ [Next]_vars => [Channel!Next]_(Channel!vars)
  BY PermitMove DEF Channel!Next, Channel!vars
<1>4. QED BY <1>1, <1>2, <1>3, PTL DEF Safety, Channel!Spec

------------------------------------------------------------------------------
(* The owner of the browser *)

LEMMA OwnerInit == Init => OwnerInv
<1> SUFFICES ASSUME Init PROVE OwnerInv
  OBVIOUS
<1>1. None \notin Users
  BY ChromeAssumption DEF ChromeAssumption
<1>2. OwnerType
  <2>1. pc \in [Users -> Places]
    BY DEF Init, Places
  <2>2. stopped \in [Tasks -> BOOLEAN]
    BY DEF Init
  <2>3. isRunning \in BOOLEAN
    BY DEF Init
  <2>4. ctx = "nil" /\ allocators \in 0..1 /\ starter = None
    BY DEF Init
  <2>5. QED BY <2>1, <2>2, <2>3, <2>4 DEF OwnerType
<1>3. LockInv /\ OneChrome /\ FoundStoppedWasStopped
  BY <1>1 DEF Init, LockInv, OneChrome, FoundStoppedWasStopped
<1>4. QED BY <1>2, <1>3 DEF OwnerInv

\* A step that moves one user, and touches neither lock nor browser.
LEMMA OwnerMove ==
    ASSUME OwnerInv, NEW u \in Users, NEW to \in Places,
           pc' = [pc EXCEPT ![u] = to], pc[u] \notin {"validate", "count"}, to \notin {"validate", "count"},
           UNCHANGED <<chrome, starter>>, stopped' \in [Tasks -> BOOLEAN],
           \A t \in Tasks : pc'[t] \in {"permit", "enter"} /\ ~isRunning => stopped'[t]
    PROVE  OwnerInv'
  BY DEF OwnerInv, OwnerType, LockInv, OneChrome, FoundStoppedWasStopped, chrome

\* Stop, by whomever it is called, once cm.mu is free.
LEMMA OwnerStop ==
    ASSUME OwnerInv, Unlocked, StopChrome, UNCHANGED starter,
           pc' \in [Users -> Places],
           \A u \in Users : pc'[u] \notin {"validate", "count"},
           \A t \in Tasks : pc'[t] \in {"permit", "enter"} => pc[t] \in {"permit", "enter"}
    PROVE  OwnerInv'
<1>1. starter = None /\ None \notin Users
  BY ChromeAssumption DEF Unlocked, ChromeAssumption
<1>2. isRunning' = FALSE /\ starter' = None /\ ctx' = "nil" /\ allocators' = 0
  BY <1>1 DEF OwnerInv, OwnerType, LockInv, OneChrome, StopChrome, Cleanup
<1>3. stopped' \in [Tasks -> BOOLEAN] /\ \A t \in Tasks : stopped'[t] \/ (stopped'[t] = stopped[t] /\ ~isRunning)
  BY DEF OwnerInv, OwnerType, StopChrome
<1>4. LockInv' /\ OneChrome'
  BY <1>1, <1>2 DEF LockInv, OneChrome
<1>5. OwnerType'
  <2>1. isRunning' \in BOOLEAN
    BY <1>2
  <2>2. ctx' = "nil" /\ allocators' \in 0..1 /\ starter' = None
    BY <1>2
  <2>3. QED BY <1>3, <2>1, <2>2 DEF OwnerType
<1>6. FoundStoppedWasStopped'
  BY <1>3 DEF OwnerInv, FoundStoppedWasStopped
<1>7. QED BY <1>4, <1>5, <1>6 DEF OwnerInv

LEMMA OwnerStart == ASSUME OwnerInv, NEW u \in Users, Starting(u) PROVE OwnerInv'
<1> USE DEF At
<1>0. None \notin Users /\ Tasks \cap Admins = {}
  BY ChromeAssumption DEF ChromeAssumption
<1>1. CASE FindStarted(u)
  BY <1>1, OwnerMove
  DEF FindStarted, Started, Settled, Places, OwnerInv, OwnerType, chrome, FoundStoppedWasStopped
<1>2. CASE Launch(u)
  BY <1>0, <1>2
  DEF Launch, Unlocked, Places, OwnerInv, OwnerType, LockInv, OneChrome, FoundStoppedWasStopped
<1>3. CASE Validate(u)
  BY <1>0, <1>3
  DEF Validate, Places, OwnerInv, OwnerType, LockInv, OneChrome, FoundStoppedWasStopped
<1>4. CASE ValidateFails(u)
  <2>1. /\ starter = u /\ ~isRunning /\ isRunning' = isRunning /\ starter' = None
        /\ ctx' = "nil" /\ allocators' = 0 /\ stopped' = stopped
    BY <1>4 DEF ValidateFails, Cleanup, OwnerInv, LockInv
  <2>2. /\ pc' \in [Users -> Places]
        /\ \A v \in Users : pc'[v] \notin {"validate", "count"}
        /\ \A t \in Tasks : pc'[t] \in {"permit", "enter"} => pc[t] \in {"permit", "enter"}
    BY <1>0, <1>4, <2>1 DEF ValidateFails, StartFailed, Places, OwnerInv, OwnerType, LockInv
  <2>3. QED
    BY <1>0, <2>1, <2>2 DEF OwnerInv, OwnerType, LockInv, OneChrome, FoundStoppedWasStopped
<1>5. CASE CountRestart(u)
  <2>1. /\ starter = u /\ isRunning /\ isRunning' = isRunning /\ starter' = None
        /\ ctx' = ctx /\ allocators' = allocators /\ stopped' \in [Tasks -> BOOLEAN]
    BY <1>5 DEF CountRestart, Settled, chrome, OwnerInv, OwnerType, LockInv
  <2>2. /\ pc' \in [Users -> Places]
        /\ \A v \in Users : pc'[v] \notin {"validate", "count"}
    BY <1>0, <1>5, <2>1 DEF CountRestart, Started, Places, OwnerInv, OwnerType, LockInv
  <2>3. QED
    BY <1>0, <2>1, <2>2 DEF OwnerInv, OwnerType, LockInv, OneChrome, FoundStoppedWasStopped
<1>6. QED BY <1>1, <1>2, <1>3, <1>4, <1>5 DEF Starting

LEMMA OwnerStep == OwnerInv /\ [Next]_vars => OwnerInv'
<1> SUFFICES ASSUME OwnerInv, [Next]_vars PROVE OwnerInv'
  OBVIOUS
<1> USE DEF At
<1>0. None \notin Users
  BY ChromeAssumption DEF ChromeAssumption
<1>a. ASSUME UNCHANGED <<isRunning, starter, allocators, pc, stopped>>,
             ctx' \in {"nil", "alive", "dead"}, ctx' = "nil" <=> ctx = "nil"
      PROVE  OwnerInv'
  BY <1>a DEF OwnerInv, OwnerType, LockInv, OneChrome, FoundStoppedWasStopped
<1>b. stopped \in [Tasks -> BOOLEAN] /\ ctx \in {"nil", "alive", "dead"}
  BY DEF OwnerInv, OwnerType
<1>1. ASSUME NEW t \in Tasks, Arrive(t) PROVE OwnerInv'
  BY <1>1, <1>b, OwnerMove DEF Arrive, Places, OwnerInv, OwnerType, FoundStoppedWasStopped
<1>2. ASSUME NEW t \in Tasks, ReadRunning(t) PROVE OwnerInv'
  BY <1>2, <1>b, OwnerMove DEF ReadRunning, Places, OwnerInv, OwnerType, FoundStoppedWasStopped, chrome
<1>3. ASSUME NEW t \in Tasks, CheckHealth(t) PROVE OwnerInv'
  <2>1. ctx = "alive" => isRunning
    BY <1>3 DEF CheckHealth, Unlocked, OwnerInv, LockInv
  <2>2. QED
    BY <1>3, <1>b, <2>1, OwnerMove DEF CheckHealth, Places, OwnerInv, OwnerType, FoundStoppedWasStopped, chrome
<1>4. ASSUME NEW t \in Tasks, Decide(t) PROVE OwnerInv'
  BY <1>4, <1>b, OwnerMove DEF Decide, Places, OwnerInv, OwnerType, FoundStoppedWasStopped
<1>5. ASSUME NEW u \in Users, Stop(u) PROVE OwnerInv'
  <2>1. /\ pc' \in [Users -> Places]
        /\ \A v \in Users : pc'[v] \notin {"validate", "count"}
        /\ \A t \in Tasks : pc'[t] \in {"permit", "enter"} => pc[t] \in {"permit", "enter"}
    BY <1>0, <1>5 DEF Stop, Unlocked, Places, OwnerInv, OwnerType, LockInv
  <2>2. QED BY <1>5, <2>1, OwnerStop DEF Stop
<1>6. ASSUME NEW u \in Users, Starting(u) PROVE OwnerInv'
  BY <1>6, OwnerStart
<1>7. ASSUME NEW t \in Tasks,
             Deny(t) \/ TakePermit(t) \/ GiveUp(t) \/ FindStopped(t) \/ Release(t) \/ Record(t)
      PROVE  OwnerInv'
  BY <1>7, <1>b, OwnerMove
  DEF Deny, TakePermit, GiveUp, FindStopped, Release, Record, Places, OwnerInv, OwnerType, FoundStoppedWasStopped
<1>8. ASSUME NEW t \in Tasks, Enter(t) \/ Finish(t) PROVE OwnerInv'
  BY <1>8, <1>b, OwnerMove DEF Enter, Finish, Places, OwnerInv, OwnerType, FoundStoppedWasStopped
<1>9. ASSUME NEW a \in Admins, BeginRestart(a) \/ Pause(a) PROVE OwnerInv'
  BY <1>9, <1>b, OwnerMove DEF BeginRestart, Pause, Places, OwnerInv, OwnerType, FoundStoppedWasStopped
<1>10. ASSUME NEW k \in Monitors, MonitorLooks(k) PROVE OwnerInv'
  BY <1>10, <1>a, <1>b DEF MonitorLooks, chrome
<1>11. ASSUME NEW k \in Monitors, MonitorStops(k) PROVE OwnerInv'
  <2>1. /\ pc' \in [Users -> Places]
        /\ \A v \in Users : pc'[v] \notin {"validate", "count"}
        /\ \A t \in Tasks : pc'[t] \in {"permit", "enter"} => pc[t] \in {"permit", "enter"}
    BY <1>0, <1>11 DEF MonitorStops, Unlocked, OwnerInv, OwnerType, LockInv
  <2>2. QED BY <1>11, <2>1, OwnerStop DEF MonitorStops
<1>12. CASE \E w \in Watchers : BeginStats(w) \/ EndStats(w)
  BY <1>12, <1>a, <1>b DEF BeginStats, EndStats, chrome
<1>13. CASE GrowIdle \/ UNCHANGED vars
  BY <1>13, <1>a, <1>b DEF GrowIdle, vars, chrome
<1>14. CASE ChromeDies
  BY <1>14, <1>a, <1>b DEF ChromeDies
<1>15. QED
  BY <1>1, <1>2, <1>3, <1>4, <1>5, <1>6, <1>7, <1>8, <1>9, <1>10, <1>11, <1>12, <1>13, <1>14
  DEF Next, Proceed, Restarting

LEMMA OwnerAlways == Safety => []OwnerInv
  BY OwnerInit, OwnerStep, PTL DEF Safety

\* Starts, stops, failed validations and browsers that die, in whatever
\* order: at most one allocator is alive, and cm leads to it.
THEOREM ChromeHasOwner == Safety => []OneChrome
<1>1. OwnerInv => OneChrome
  BY DEF OwnerInv
<1>2. QED BY <1>1, OwnerAlways, PTL

\* GetContext reports "not running" only to a request whose Chrome somebody
\* has stopped after ensureRunning returned.
THEOREM NotRunningWasStopped == Safety => []FoundStoppedWasStopped
<1>1. OwnerInv => FoundStoppedWasStopped
  BY DEF OwnerInv
<1>2. QED BY <1>1, OwnerAlways, PTL

------------------------------------------------------------------------------
(* How long a request can take, and what it waits for *)

PlaceLeft == [place \in Places |->
                 CASE place = "ensure" -> 13 [] place = "health" -> 12 [] place = "decide" -> 11
                   [] place = "stop" -> 10 [] place = "pause" -> 9 [] place = "start" -> 8
                   [] place = "validate" -> 7 [] place = "count" -> 6 [] place = "permit" -> 5
                   [] place = "enter" -> 4 [] place = "run" -> 3 [] place = "release" -> 2
                   [] place = "record" -> 1 [] place = "idle" -> 0]

\* How many steps a request or a restart has left at most.
StepsLeft(u) == PlaceLeft[pc[u]]

\* The steps of a request that has arrived, or of a restart that has begun.
GoesOn(u) == (u \in Tasks /\ Proceed(u)) \/ (u \in Admins /\ Restarting(u))

LEMMA PlaceValues ==
    /\ PlaceLeft["ensure"] = 13 /\ PlaceLeft["health"] = 12 /\ PlaceLeft["decide"] = 11
    /\ PlaceLeft["stop"] = 10 /\ PlaceLeft["pause"] = 9 /\ PlaceLeft["start"] = 8
    /\ PlaceLeft["validate"] = 7 /\ PlaceLeft["count"] = 6 /\ PlaceLeft["permit"] = 5
    /\ PlaceLeft["enter"] = 4 /\ PlaceLeft["run"] = 3 /\ PlaceLeft["release"] = 2
    /\ PlaceLeft["record"] = 1 /\ PlaceLeft["idle"] = 0
  BY DEF PlaceLeft, Places

LEMMA OwnStep ==
    ASSUME pc \in [Users -> Places], NEW u \in Users, GoesOn(u)
    PROVE  /\ StepsLeft(u)' < StepsLeft(u)
           /\ \A v \in Users \ {u} : pc'[v] = pc[v]
<1>1. PICK to : /\ pc' = [pc EXCEPT ![u] = to]
                /\ PlaceLeft[to] < PlaceLeft[pc[u]]
  <2>1. CASE Stop(u) \/ Starting(u)
    BY <2>1, PlaceValues
    DEF Stop, Starting, FindStarted, Launch, Validate, ValidateFails, CountRestart, Started, StartFailed, At
  <2>2. CASE u \in Admins /\ Pause(u)
    <3>1. pc' = [pc EXCEPT ![u] = "start"] /\ PlaceLeft["start"] < PlaceLeft[pc[u]]
      BY <2>2, PlaceValues DEF Pause, At
    <3>2. QED BY <3>1, Zenon
  <2>3. CASE ReadRunning(u) \/ CheckHealth(u) \/ Decide(u)
    BY <2>3, PlaceValues DEF ReadRunning, CheckHealth, Decide
  <2>4. CASE Deny(u) \/ TakePermit(u) \/ GiveUp(u) \/ FindStopped(u) \/ Enter(u)
    BY <2>4, PlaceValues DEF Deny, TakePermit, GiveUp, FindStopped, Enter, At
  <2>5. CASE Finish(u) \/ Release(u) \/ Record(u)
    BY <2>5, PlaceValues DEF Finish, Release, Record, At
  <2>6. QED BY <2>1, <2>2, <2>3, <2>4, <2>5 DEF GoesOn, Proceed, Restarting
<1>2. StepsLeft(u)' = PlaceLeft[to]
  BY <1>1 DEF StepsLeft, PlaceLeft
<1>3. QED BY <1>1, <1>2 DEF StepsLeft

\* What a step of the system does to somebody who is under way.
LEMMA StepsStep ==
    ASSUME pc \in [Users -> Places], pc' \in [Users -> Places], [Next]_vars, NEW u \in Users, pc[u] # "idle"
    PROVE  (GoesOn(u) => StepsLeft(u)' < StepsLeft(u)) /\ StepsLeft(u)' <= StepsLeft(u)
<1>1. PlaceLeft[pc[u]] \in 0..13 /\ PlaceLeft[pc'[u]] \in 0..13 /\ StepsLeft(u)' = PlaceLeft[pc'[u]]
  <2>1. pc[u] \in Places /\ pc'[u] \in Places
    OBVIOUS
  <2>2. \A place \in Places : PlaceLeft[place] \in 0..13
    BY PlaceValues DEF Places
  <2>3. StepsLeft(u)' = PlaceLeft[pc'[u]]
    BY DEF StepsLeft, PlaceLeft
  <2>4. QED BY <2>1, <2>2, <2>3
<1>2. CASE GoesOn(u)
  <2>1. StepsLeft(u)' < StepsLeft(u)
    BY <1>2, OwnStep
  <2>2. QED BY <1>1, <2>1 DEF StepsLeft
<1>3. ASSUME ~GoesOn(u), pc'[u] = pc[u]
      PROVE  (GoesOn(u) => StepsLeft(u)' < StepsLeft(u)) /\ StepsLeft(u)' <= StepsLeft(u)
  BY <1>1, <1>3 DEF StepsLeft
<1>4. ASSUME ~GoesOn(u), NEW v \in Users, GoesOn(v) PROVE pc'[u] = pc[u]
  BY <1>4, OwnStep
<1>5. ASSUME NEW v \in Users, Arrive(v) \/ BeginRestart(v) PROVE pc'[u] = pc[u]
  BY <1>5 DEF Arrive, BeginRestart, At
<1>6. ASSUME \/ \E m \in Monitors : MonitorLooks(m) \/ MonitorStops(m)
             \/ \E w \in Watchers : BeginStats(w) \/ EndStats(w)
             \/ GrowIdle \/ ChromeDies \/ UNCHANGED vars
      PROVE  pc'[u] = pc[u]
  BY <1>6 DEF MonitorLooks, MonitorStops, BeginStats, EndStats, GrowIdle, ChromeDies, vars
<1>7. QED BY <1>2, <1>3, <1>4, <1>5, <1>6 DEF Next, GoesOn

\* A request has at most 13 steps to its end, whatever Chrome, the restarts,
\* the monitors and the other requests do: nothing sends it back to a place it
\* has left, not even a Chrome that is stopped as soon as it was started.
THEOREM RequestIsBounded ==
    Safety => [][\A u \in Users : pc[u] # "idle" =>
                     /\ GoesOn(u) => StepsLeft(u)' < StepsLeft(u)
                     /\ StepsLeft(u)' <= StepsLeft(u)]_vars
<1>1. PermitInv /\ PermitInv' /\ [Next]_vars =>
         [\A u \in Users : pc[u] # "idle" =>
             /\ GoesOn(u) => StepsLeft(u)' < StepsLeft(u)
             /\ StepsLeft(u)' <= StepsLeft(u)]_vars
  BY StepsStep DEF PermitInv
<1>2. Init => PermitInv
  BY PermitInit
<1>3. PermitInv /\ [Next]_vars => PermitInv'
  BY PermitStep
<1>4. QED BY <1>1, <1>2, <1>3, PTL DEF Safety

\* What the next step of a request or a restart is waiting for: cm.mu, or
\* stats.mu.
Waits(u) ==
    \/ pc[u] \in {"health", "stop", "start", "enter"} /\ ~Unlocked
    \/ pc[u] \in {"count", "record"} /\ reading # {}

\* Unless a status request is inside stats.mu, who waits does so for somebody
\* who does not wait: requests and restarts cannot block each other.  With
\* GetStats they can, and StatusAnswered fails.
THEOREM NoCircularWait ==
    Safety => [](reading = {} =>
                    \A u \in Users : Waits(u) => starter \in Users \ {u} /\ pc[starter] # "idle" /\ ~Waits(starter))
<1>1. OwnerInv => (reading = {} =>
         \A u \in Users : Waits(u) => starter \in Users \ {u} /\ pc[starter] # "idle" /\ ~Waits(starter))
  BY DEF OwnerInv, OwnerType, LockInv, Waits, Unlocked
<1>2. QED BY <1>1, OwnerAlways, PTL
==============================================================================
