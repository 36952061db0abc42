---------------------------- MODULE WhoisManager ----------------------------
(***************************************************************************)
(* services/whois_manager.go: WHOIS queries over several providers, whose  *)
(* status (available, errors in a row, last used) is shared by every query *)
(* and by the health checks.                                               *)
(*                                                                         *)
(* Every section under m.mu is one action.  Query has three of them before *)
(* it waits: it lists the available providers, selectProvider copies the   *)
(* status, and after scoring the copy writes back; others run in between.  *)
(* TestProvidersHealth copies the status once, asks one provider after the *)
(* other, and writes each provider's copy back as a whole.                 *)
(*                                                                         *)
(* lastUsed is kept as far as it is tested: cooled[p] says that p is       *)
(* disabled and was last used more than five minutes ago.  Any provider    *)
(* that may be used can have the lowest score.  A result has its effect    *)
(* when it is received, and is chosen then.  A cache hit ends a query      *)
(* before it looks at the status, and is left out.                         *)
(***************************************************************************)
EXTENDS Naturals

CONSTANTS Providers,
          Queries,        \* goroutines in Query
          Directs,        \* goroutines in QueryWithProvider
          Checkers,       \* goroutines in TestProvidersHealth
          MaxChecks,      \* bound: health checks each of them runs
          None            \* no provider

ASSUME WhoisAssumption == None \notin Providers /\ MaxChecks \in Nat

MAX_RETRIES == 2          \* errors that disable a provider in Query
DirectRetries == 3        \* errors that disable it in QueryWithProvider

VARIABLES isAvailable,    \* status.isAvailable
          errorCount,     \* status.errorCount, up to DirectRetries
          cooled,         \* ~isAvailable, and lastUsed is five minutes ago
          pc,             \* where each query is
          listed,         \* its availableProviders not heard of yet
          reEnable,       \* its pendingReEnable
          selected,       \* its selectedProvider
          target,         \* the provider each direct query waits for
          todo,           \* providers a health check still has to ask
          copy,           \* its statusSnapshot
          checks,         \* health checks begun
          crashed,        \* a goroutine has dereferenced a nil provider
          raced           \* history: a provider was disabled since listed

status == <<isAvailable, errorCount, cooled>>
queryVars == <<pc, listed, reEnable, selected>>
others == <<target, todo, copy, checks>>
vars == <<status, queryVars, others, crashed, raced>>

Errors == 0..DirectRetries
Statuses == [isAvailable : BOOLEAN, errorCount : Errors]

TypeOK ==
    /\ isAvailable \in [Providers -> BOOLEAN]
    /\ errorCount \in [Providers -> Errors]
    /\ cooled \in [Providers -> BOOLEAN]
    /\ pc \in [Queries -> {"idle", "listed", "scored", "waiting"}]
    /\ listed \in [Queries -> SUBSET Providers]
    /\ reEnable \in [Queries -> SUBSET Providers]
    /\ selected \in [Queries -> Providers \cup {None}]
    /\ target \in [Directs -> Providers \cup {None}]
    /\ todo \in [Checkers -> SUBSET Providers]
    /\ copy \in [Checkers -> [Providers -> Statuses]]
    /\ checks \in [Checkers -> 0..MaxChecks]
    /\ crashed \in BOOLEAN
    /\ raced \in [Queries -> BOOLEAN]

NoCopy == [isAvailable |-> TRUE, errorCount |-> 0]

\* AddProvider, before the server starts.
Init ==
    /\ isAvailable = [p \in Providers |-> TRUE]
    /\ errorCount = [p \in Providers |-> 0]
    /\ cooled = [p \in Providers |-> FALSE]
    /\ pc = [q \in Queries |-> "idle"]
    /\ listed = [q \in Queries |-> {}]
    /\ reEnable = [q \in Queries |-> {}]
    /\ selected = [q \in Queries |-> None]
    /\ target = [d \in Directs |-> None]
    /\ todo = [k \in Checkers |-> {}]
    /\ copy = [k \in Checkers |-> [p \in Providers |-> NoCopy]]
    /\ checks = [k \in Checkers |-> 0]
    /\ crashed = FALSE
    /\ raced = [q \in Queries |-> FALSE]

Available == {p \in Providers : isAvailable[p]}

\* GetOverallStatus.
OverallStatus ==
    CASE Available = {} -> "down"
      [] Available = Providers -> "up"
      [] OTHER -> "degraded"

Goto(q, from, to) == pc[q] = from /\ pc' = [pc EXCEPT ![q] = to]

\* status.errorCount++, up to where no test can tell a difference.
OneMore(n) == IF n < DirectRetries THEN n + 1 ELSE n

\* What a write to the status of p leaves, and whom it races with: queries
\* that have listed the providers and not yet copied the status.
SetStatus(p, available, errors) ==
    /\ isAvailable' = [isAvailable EXCEPT ![p] = available]
    /\ errorCount' = [errorCount EXCEPT ![p] = errors]
    /\ cooled' = [cooled EXCEPT ![p] = FALSE]
    /\ raced' = [q \in Queries |->
                   pc[q] = "listed" /\ (raced[q] \/ (isAvailable[p] /\ ~available))]

\* A failure is counted, and the limit-th in a row disables the provider.
Failure(p, limit) ==
    LET errors == OneMore(errorCount[p]) IN
    SetStatus(p, isAvailable[p] /\ errors < limit, errors)

\* Faulty: a success takes one failure back.
SuccessForgetsOne(p) == SetStatus(p, isAvailable[p], errorCount[p] - 1)

\* A success resets the count; a disabled provider stays disabled.
Success(p) == SetStatus(p, isAvailable[p], 0)

------------------------------------------------------------------------------
(* Query *)

\* Every provider is disabled: "no provider available", at once.
Refuse(q) ==
    /\ pc[q] = "idle"
    /\ Available = {}
    /\ UNCHANGED vars

\* The providers available now.
List(q) ==
    /\ Available # {}
    /\ Goto(q, "idle", "listed")
    /\ listed' = [listed EXCEPT ![q] = Available]
    /\ raced' = [raced EXCEPT ![q] = FALSE]
    /\ UNCHANGED <<status, reEnable, selected, others, crashed>>

\* Faulty: a provider that has failed lately is not selected.
SelectUnfailed(q) ==
    LET usable == {p \in Available : errorCount[p] = 0}
    IN /\ Goto(q, "listed", "scored")
       /\ \/ \E p \in usable : selected' = [selected EXCEPT ![q] = p] /\ UNCHANGED crashed
          \/ usable = {} /\ crashed' = TRUE /\ UNCHANGED selected
       /\ UNCHANGED <<status, listed, reEnable, others, raced>>

\* selectProvider copies the status: disabled providers that have cooled down
\* may be used again.  It returns nil when there is none at all, and the
\* goroutines of the query then call nil.Name().
Select(q) ==
    LET back == {p \in Providers : cooled[p]}
        usable == Available \cup back
    IN /\ Goto(q, "listed", "scored")
       /\ reEnable' = [reEnable EXCEPT ![q] = back]
       /\ \/ \E p \in usable : selected' = [selected EXCEPT ![q] = p] /\ UNCHANGED crashed
          \/ usable = {} /\ crashed' = TRUE /\ UNCHANGED selected
       /\ UNCHANGED <<status, listed, others, raced>>

\* Faulty: only the selected provider is written back.
WriteBackSelected(q) ==
    /\ Goto(q, "scored", "waiting")
    /\ cooled' = [cooled EXCEPT ![selected[q]] = FALSE]
    /\ reEnable' = [reEnable EXCEPT ![q] = {}]
    /\ selected' = [selected EXCEPT ![q] = None]
    /\ UNCHANGED <<isAvailable, errorCount, listed, others, crashed, raced>>

\* The write-back: what the copy found cooled down is enabled, the selected
\* provider is marked as used, and the calls are started.
WriteBack(q) ==
    /\ Goto(q, "scored", "waiting")
    /\ isAvailable' = [p \in Providers |-> isAvailable[p] \/ p \in reEnable[q]]
    /\ errorCount' = [p \in Providers |-> IF p \in reEnable[q] THEN 0 ELSE errorCount[p]]
    /\ cooled' = [p \in Providers |-> cooled[p] /\ p \notin reEnable[q] \cup {selected[q]}]
    /\ reEnable' = [reEnable EXCEPT ![q] = {}]
    /\ selected' = [selected EXCEPT ![q] = None]
    /\ UNCHANGED <<listed, others, crashed, raced>>

\* The query is over; what its goroutines still do, nobody reads.
Leave(q) ==
    /\ pc' = [pc EXCEPT ![q] = "idle"]
    /\ listed' = [listed EXCEPT ![q] = {}]
    /\ selected' = [selected EXCEPT ![q] = None]
    /\ UNCHANGED <<reEnable, others, crashed>>

\* The first success is cached and returned.
GetResponse(q, p) ==
    /\ pc[q] = "waiting" /\ p \in listed[q]
    /\ Success(p)
    /\ Leave(q)

\* A failure, or queryWithTimeout's, that leaves others to wait for.
GetFailure(q, p) ==
    /\ pc[q] = "waiting" /\ p \in listed[q] /\ listed[q] # {p}
    /\ Failure(p, MAX_RETRIES)
    /\ listed' = [listed EXCEPT ![q] = @ \ {p}]
    /\ UNCHANGED <<pc, reEnable, selected, others, crashed>>

\* The failure of the last one: its error is returned.
GetLastFailure(q, p) ==
    /\ pc[q] = "waiting" /\ listed[q] = {p}
    /\ Failure(p, MAX_RETRIES)
    /\ Leave(q)

\* Faulty: the timer is read only after an answer.
TimeOutAfterAnswer(q) ==
    /\ pc[q] = "waiting" /\ listed[q] # Providers
    /\ Leave(q)
    /\ UNCHANGED <<status, raced>>

\* Twelve seconds, 25 for the domains known to be slow.
TimeOut(q) ==
    /\ pc[q] = "waiting"
    /\ Leave(q)
    /\ UNCHANGED <<status, raced>>

------------------------------------------------------------------------------
(* QueryWithProvider *)

\* It answers an error at once when the provider is disabled.
Ask(d, p) ==
    /\ target[d] = None /\ isAvailable[p]
    /\ target' = [target EXCEPT ![d] = p]
    /\ UNCHANGED <<status, queryVars, todo, copy, checks, crashed, raced>>

\* The provider has answered, or has failed, or was given up.
Answered(d) ==
    /\ target[d] # None
    /\ target' = [target EXCEPT ![d] = None]
    /\ UNCHANGED <<queryVars, todo, copy, checks, crashed>>

DirectResponse(d) == Answered(d) /\ Success(target[d])
DirectFailure(d) == Answered(d) /\ Failure(target[d], DirectRetries)

------------------------------------------------------------------------------
(* TestProvidersHealth *)

BeginCheck(k) ==
    /\ todo[k] = {} /\ checks[k] < MaxChecks
    /\ todo' = [todo EXCEPT ![k] = Providers]
    /\ copy' = [copy EXCEPT ![k] = [p \in Providers |->
                  [isAvailable |-> isAvailable[p], errorCount |-> errorCount[p]]]]
    /\ checks' = [checks EXCEPT ![k] = @ + 1]
    /\ UNCHANGED <<status, queryVars, target, crashed, raced>>

\* The copy, which may be old by now, is updated and written over the status.
Tested(k, p) ==
    /\ p \in todo[k]
    /\ todo' = [todo EXCEPT ![k] = @ \ {p}]
    /\ copy' = [copy EXCEPT ![k][p] = NoCopy]
    /\ UNCHANGED <<queryVars, target, checks, crashed>>

TestPasses(k, p) ==
    /\ Tested(k, p)
    /\ SetStatus(p, TRUE, 0)

TestFails(k, p) ==
    /\ Tested(k, p)
    /\ LET errors == OneMore(copy[k][p].errorCount) IN
       SetStatus(p, copy[k][p].isAvailable /\ errors < MAX_RETRIES, errors)

------------------------------------------------------------------------------
Cool(p) ==
    /\ ~isAvailable[p] /\ ~cooled[p]
    /\ cooled' = [cooled EXCEPT ![p] = TRUE]
    /\ UNCHANGED <<isAvailable, errorCount, queryVars, others, crashed, raced>>

Next ==
    /\ ~crashed
    /\ \/ \E q \in Queries :
             \/ Refuse(q) \/ List(q) \/ Select(q) \/ WriteBack(q) \/ TimeOut(q)
       \/ \E q \in Queries, p \in Providers :
             GetResponse(q, p) \/ GetFailure(q, p) \/ GetLastFailure(q, p)
       \/ \E d \in Directs :
             \/ \E p \in Providers : Ask(d, p)
             \/ DirectResponse(d) \/ DirectFailure(d)
       \/ \E k \in Checkers :
             \/ BeginCheck(k)
             \/ \E p \in Providers : TestPasses(k, p) \/ TestFails(k, p)
       \/ \E p \in Providers : Cool(p)

\* Time passes, queries for domains that are not cached keep arriving, and a
\* query goes on when it can.  Providers need never answer.
Fairness ==
    /\ \A p \in Providers : WF_vars(~crashed /\ Cool(p))
    /\ \A q \in Queries :
          /\ WF_vars(~crashed /\ List(q))
          /\ WF_vars(~crashed /\ (Select(q) \/ WriteBack(q) \/ TimeOut(q)))

Safety == Init /\ [][Next]_vars
Spec == Safety /\ Fairness

------------------------------------------------------------------------------
(* Properties *)

\* selectProvider finds no provider only for a query that has lost a race:
\* another query or a health check has disabled one since it was listed.  A
\* query on its own, whatever came before it, never ends the process.
NilNeedsRace == crashed => \E q \in Queries : raced[q]

\* A query comes back whether its providers answer or not.
EveryQueryEnds == \A q \in Queries : pc[q] = "waiting" ~> (pc[q] = "idle" \/ crashed)

\* A disabled provider is used again after a while, as long as another one
\* is left for the queries that re-enable it.
DisabledComesBack ==
    \A p \in Providers :
        ~isAvailable[p] ~> (isAvailable[p] \/ OverallStatus = "down" \/ crashed)

==============================================================================
