------------------------- MODULE WhoisManagerProofs -------------------------
(***************************************************************************)
(* WHOIS queries for any providers, queries, direct queries and health     *)
(* checks.  A nil selection is traced back to a race by the invariant that *)
(* the providers a query has listed are still available until a write that *)
(* disables one marks the query as raced.                                  *)
(*                                                                         *)
(* Two more arguments follow: a query hears from each provider once, so    *)
(* that it is over after boundedly many answers; and a provider goes out   *)
(* of use only for errors that were counted, or by a health check.         *)
(***************************************************************************)
EXTENDS WhoisManager, TLAPS

\* A query has listed at least one provider, and as long as it has lost no
\* race they are all available.
ListedAvailable ==
    \A q \in Queries : pc[q] = "listed" /\ ~raced[q] =>
        listed[q] # {} /\ \A p \in listed[q] : isAvailable[p]

ScoredSelected == ~crashed => \A q \in Queries : pc[q] = "scored" => selected[q] \in Providers

IInv == TypeOK /\ ListedAvailable /\ ScoredSelected /\ NilNeedsRace

LEMMA OneMoreType == \A n \in Errors : OneMore(n) \in Errors
  BY DEF OneMore, Errors, DirectRetries

\* Every write to the status of one provider keeps its types, and leaves the
\* queries it does not mark with available providers.
LEMMA SetStatusFacts ==
    ASSUME TypeOK, ListedAvailable, NEW p \in Providers,
           NEW a \in BOOLEAN, NEW e \in Errors, SetStatus(p, a, e)
    PROVE  /\ isAvailable' \in [Providers -> BOOLEAN]
           /\ errorCount' \in [Providers -> Errors]
           /\ cooled' \in [Providers -> BOOLEAN]
           /\ raced' \in [Queries -> BOOLEAN]
           /\ \A q \in Queries : pc[q] = "listed" /\ ~raced'[q] =>
                listed[q] # {} /\ \A r \in listed[q] : isAvailable'[r]
<1>1. raced' \in [Queries -> BOOLEAN]
  BY DEF SetStatus, TypeOK
<1>2. /\ isAvailable' \in [Providers -> BOOLEAN]
      /\ errorCount' \in [Providers -> Errors]
      /\ cooled' \in [Providers -> BOOLEAN]
  BY DEF SetStatus, TypeOK
<1>3. ASSUME NEW q \in Queries, pc[q] = "listed", ~raced'[q]
      PROVE  listed[q] # {} /\ \A r \in listed[q] : isAvailable'[r]
  <2>1. ~raced[q] /\ ~(isAvailable[p] /\ ~a)
    BY <1>3 DEF SetStatus
  <2>2. listed[q] # {} /\ \A r \in listed[q] : isAvailable[r]
    BY <1>3, <2>1 DEF ListedAvailable
  <2>3. ASSUME NEW r \in listed[q] PROVE isAvailable'[r]
    <3>1. r \in Providers /\ isAvailable[r]
      BY <2>2 DEF TypeOK
    <3>2. CASE r = p
      BY <2>1, <3>1, <3>2 DEF SetStatus, TypeOK
    <3>3. CASE r # p
      BY <3>1, <3>3 DEF SetStatus, TypeOK
    <3>4. QED BY <3>2, <3>3
  <2>4. QED BY <2>2, <2>3
<1>4. QED BY <1>1, <1>2, <1>3

LEMMA InitInv == Init => IInv
<1> SUFFICES ASSUME Init PROVE IInv
  OBVIOUS
<1>1. NoCopy \in Statuses /\ 0 \in Errors /\ 0 \in 0..MaxChecks
  BY WhoisAssumption DEF NoCopy, Statuses, Errors, DirectRetries
<1>2. TypeOK
  BY <1>1 DEF Init, TypeOK
<1>3. QED BY <1>2 DEF Init, IInv, ListedAvailable, ScoredSelected, NilNeedsRace

------------------------------------------------------------------------------
LEMMA ListInv == ASSUME IInv, ~crashed, NEW q \in Queries, List(q) PROVE IInv'
<1> USE DEF IInv, List, Goto, status, others, Available
<1>1. TypeOK'
  BY DEF TypeOK
<1>2. ListedAvailable'
  BY DEF TypeOK, ListedAvailable
<1>3. ScoredSelected' /\ NilNeedsRace'
  BY DEF TypeOK, ScoredSelected, NilNeedsRace
<1>4. QED BY <1>1, <1>2, <1>3

LEMMA SelectInv == ASSUME IInv, ~crashed, NEW q \in Queries, Select(q) PROVE IInv'
<1> USE DEF IInv, Select, Goto, status, others
<1>1. TypeOK'
  BY DEF TypeOK, Available
<1>2. ListedAvailable'
  BY DEF TypeOK, ListedAvailable
<1>3. ScoredSelected'
  BY DEF TypeOK, ScoredSelected, Available
<1>4. NilNeedsRace'
  <2> SUFFICES ASSUME crashed' PROVE raced'[q]
    BY DEF NilNeedsRace
  <2>1. Available = {}
    OBVIOUS
  <2>2. ~(listed[q] # {} /\ \A p \in listed[q] : isAvailable[p])
    BY <2>1 DEF Available, TypeOK
  <2>3. QED BY <2>2 DEF ListedAvailable, TypeOK
<1>5. QED BY <1>1, <1>2, <1>3, <1>4

LEMMA WriteBackInv == ASSUME IInv, ~crashed, NEW q \in Queries, WriteBack(q) PROVE IInv'
<1> USE DEF IInv, WriteBack, Goto, others
<1>1. TypeOK'
  BY DEF TypeOK, Errors, DirectRetries
<1>2. ListedAvailable'
  BY DEF TypeOK, ListedAvailable
<1>3. ScoredSelected' /\ NilNeedsRace'
  BY DEF TypeOK, ScoredSelected, NilNeedsRace
<1>4. QED BY <1>1, <1>2, <1>3

\* The answers of one provider, to a query, a direct query or a health check.
LEMMA AnswerInv ==
    ASSUME IInv, ~crashed, NEW p \in Providers, NEW a \in BOOLEAN, NEW e \in Errors,
           SetStatus(p, a, e),
           UNCHANGED <<reEnable, crashed>>,
           pc' \in [Queries -> {"idle", "listed", "scored", "waiting"}],
           listed' \in [Queries -> SUBSET Providers],
           selected' \in [Queries -> Providers \cup {None}],
           target' \in [Directs -> Providers \cup {None}],
           todo' \in [Checkers -> SUBSET Providers],
           copy' \in [Checkers -> [Providers -> Statuses]],
           checks' = checks,
           \A q \in Queries : pc'[q] # "idle" /\ pc'[q] # "waiting" =>
               pc[q] = pc'[q] /\ listed'[q] = listed[q] /\ selected'[q] = selected[q]
    PROVE  IInv'
<1>1. TypeOK'
  BY SetStatusFacts DEF IInv, TypeOK
<1>2. ListedAvailable'
  BY SetStatusFacts DEF IInv, ListedAvailable
<1>3. ScoredSelected' /\ NilNeedsRace'
  BY DEF IInv, ScoredSelected, NilNeedsRace
<1>4. QED BY <1>1, <1>2, <1>3 DEF IInv

LEMMA QueryAnswerInv ==
    ASSUME IInv, ~crashed, NEW q \in Queries, NEW p \in Providers,
           GetResponse(q, p) \/ GetFailure(q, p) \/ GetLastFailure(q, p)
    PROVE  IInv'
<1> DEFINE errors == OneMore(errorCount[p])
<1>1. errorCount[p] \in Errors /\ isAvailable[p] \in BOOLEAN /\ errors \in Errors /\ 0 \in Errors
  BY OneMoreType DEF IInv, TypeOK, Errors, DirectRetries
<1>2. /\ UNCHANGED <<reEnable, crashed, others>>
      /\ pc' \in [Queries -> {"idle", "listed", "scored", "waiting"}]
      /\ listed' \in [Queries -> SUBSET Providers]
      /\ selected' \in [Queries -> Providers \cup {None}]
      /\ \A r \in Queries : pc'[r] # "idle" /\ pc'[r] # "waiting" =>
            pc[r] = pc'[r] /\ listed'[r] = listed[r] /\ selected'[r] = selected[r]
  BY DEF GetResponse, GetFailure, GetLastFailure, Leave, IInv, TypeOK
<1>3. \E a \in BOOLEAN, e \in Errors : SetStatus(p, a, e)
  BY <1>1 DEF GetResponse, GetFailure, GetLastFailure, Success, Failure
<1>4. /\ target' \in [Directs -> Providers \cup {None}] /\ checks' = checks
      /\ todo' \in [Checkers -> SUBSET Providers] /\ copy' \in [Checkers -> [Providers -> Statuses]]
  BY <1>2 DEF others, IInv, TypeOK
<1>5. QED BY <1>2, <1>3, <1>4, AnswerInv

LEMMA TimeOutInv == ASSUME IInv, ~crashed, NEW q \in Queries, TimeOut(q) PROVE IInv'
  BY DEF IInv, TimeOut, Leave, status, others, TypeOK, ListedAvailable, ScoredSelected, NilNeedsRace

LEMMA AskInv ==
    ASSUME IInv, ~crashed, NEW d \in Directs, NEW p \in Providers, Ask(d, p) PROVE IInv'
  BY DEF IInv, Ask, status, queryVars, TypeOK, ListedAvailable, ScoredSelected, NilNeedsRace

LEMMA DirectAnswerInv ==
    ASSUME IInv, ~crashed, NEW d \in Directs, DirectResponse(d) \/ DirectFailure(d)
    PROVE  IInv'
<1> DEFINE p == target[d]
<1>1. p \in Providers /\ UNCHANGED <<queryVars, todo, copy, checks, crashed>>
      /\ target' \in [Directs -> Providers \cup {None}]
  BY DEF DirectResponse, DirectFailure, Answered, IInv, TypeOK
<1>2. errorCount[p] \in Errors /\ isAvailable[p] \in BOOLEAN /\ OneMore(errorCount[p]) \in Errors
      /\ 0 \in Errors
  BY <1>1, OneMoreType DEF IInv, TypeOK, Errors, DirectRetries
<1>3. \E a \in BOOLEAN, e \in Errors : SetStatus(p, a, e)
  BY <1>2 DEF DirectResponse, DirectFailure, Success, Failure
<1>4. /\ UNCHANGED <<pc, listed, reEnable, selected, todo, copy, checks, crashed>>
      /\ pc' \in [Queries -> {"idle", "listed", "scored", "waiting"}]
      /\ listed' \in [Queries -> SUBSET Providers]
      /\ selected' \in [Queries -> Providers \cup {None}]
      /\ todo' \in [Checkers -> SUBSET Providers] /\ copy' \in [Checkers -> [Providers -> Statuses]]
  BY <1>1 DEF queryVars, IInv, TypeOK
<1>5. QED BY <1>1, <1>3, <1>4, AnswerInv

LEMMA BeginCheckInv == ASSUME IInv, ~crashed, NEW k \in Checkers, BeginCheck(k) PROVE IInv'
<1> USE DEF IInv, BeginCheck, status, queryVars
<1>1. copy' \in [Checkers -> [Providers -> Statuses]]
  BY DEF TypeOK, Statuses
<1>2. checks' \in [Checkers -> 0..MaxChecks]
  BY WhoisAssumption DEF TypeOK
<1>3. TypeOK'
  BY <1>1, <1>2 DEF TypeOK
<1>4. QED BY <1>3 DEF ListedAvailable, ScoredSelected, NilNeedsRace

LEMMA TestInv ==
    ASSUME IInv, ~crashed, NEW k \in Checkers, NEW p \in Providers,
           TestPasses(k, p) \/ TestFails(k, p)
    PROVE  IInv'
<1>1. /\ UNCHANGED <<pc, listed, reEnable, selected, target, checks, crashed>>
      /\ todo' \in [Checkers -> SUBSET Providers]
  BY DEF TestPasses, TestFails, Tested, queryVars, IInv, TypeOK
<1>2. copy' \in [Checkers -> [Providers -> Statuses]]
  <2>1. NoCopy \in Statuses
    BY DEF NoCopy, Statuses, Errors, DirectRetries
  <2>2. copy' = [copy EXCEPT ![k][p] = NoCopy]
    BY DEF TestPasses, TestFails, Tested
  <2>3. QED BY <2>1, <2>2 DEF IInv, TypeOK
<1>3. \E a \in BOOLEAN, e \in Errors : SetStatus(p, a, e)
  <2>1. copy[k][p] \in Statuses
    BY DEF IInv, TypeOK
  <2>2. copy[k][p].isAvailable \in BOOLEAN /\ OneMore(copy[k][p].errorCount) \in Errors /\ 0 \in Errors
    BY <2>1, OneMoreType DEF Statuses, Errors, DirectRetries
  <2>3. QED BY <2>2 DEF TestPasses, TestFails
<1>4. /\ pc' \in [Queries -> {"idle", "listed", "scored", "waiting"}]
      /\ listed' \in [Queries -> SUBSET Providers]
      /\ selected' \in [Queries -> Providers \cup {None}]
      /\ target' \in [Directs -> Providers \cup {None}]
  BY <1>1 DEF IInv, TypeOK
<1>5. QED BY <1>1, <1>2, <1>3, <1>4, AnswerInv

LEMMA CoolInv == ASSUME IInv, ~crashed, NEW p \in Providers, Cool(p) PROVE IInv'
  BY DEF IInv, Cool, queryVars, others, TypeOK, ListedAvailable, ScoredSelected, NilNeedsRace

LEMMA StepInv == IInv /\ [Next]_vars => IInv'
<1> SUFFICES ASSUME IInv, [Next]_vars PROVE IInv'
  OBVIOUS
<1>1. ASSUME UNCHANGED vars PROVE IInv'
  BY <1>1 DEF vars, status, queryVars, others, IInv, TypeOK, ListedAvailable, ScoredSelected,
              NilNeedsRace
<1>2. ASSUME NEW q \in Queries, Refuse(q) PROVE IInv'
  BY <1>1, <1>2 DEF Refuse
<1>3. QED
  BY <1>1, <1>2, ListInv, SelectInv, WriteBackInv, QueryAnswerInv, TimeOutInv, AskInv,
     DirectAnswerInv, BeginCheckInv, TestInv, CoolInv DEF Next

LEMMA Invariant == Safety => []IInv
  BY InitInv, StepInv, PTL DEF Safety

\* Type correctness: what queries, direct queries and health checks write over
\* each other's copies of a status stays a status.
THEOREM StatusTypes == Safety => []TypeOK
  BY Invariant, PTL DEF IInv

\* selectProvider finds nothing only for a query during which another
\* goroutine has disabled a provider, for any number of each.
THEOREM NilOnlyInRace == Safety => []NilNeedsRace
  BY Invariant, PTL DEF IInv

------------------------------------------------------------------------------
(* What a query waits for *)

\* A query always has a provider left to hear from.
SomebodyToHear == \A q \in Queries : pc[q] # "idle" => listed[q] # {}

\* A step leaves the query waiting for the same providers, or ends it, or it
\* has heard from one of several.
HearsOne(q) ==
    \/ pc'[q] = pc[q] /\ listed'[q] = listed[q]
    \/ pc'[q] = "idle"
    \/ /\ pc'[q] = "waiting"
       /\ \E p \in listed[q] : listed'[q] = listed[q] \ {p} /\ listed'[q] # {}

LEMMA QueryStep ==
    ASSUME TypeOK, SomebodyToHear, [Next]_vars
    PROVE  SomebodyToHear' /\ \A q \in Queries : pc[q] = "waiting" => HearsOne(q)
<1> USE DEF SomebodyToHear, HearsOne
<1>1. CASE UNCHANGED <<pc, listed>>
  BY <1>1
<1>2. ASSUME NEW q \in Queries, List(q) \/ Select(q) \/ WriteBack(q)
      PROVE  SomebodyToHear' /\ \A r \in Queries : pc[r] = "waiting" => HearsOne(r)
  BY <1>2 DEF List, Select, WriteBack, Goto, TypeOK
<1>3. ASSUME NEW q \in Queries, Leave(q)
      PROVE  SomebodyToHear' /\ \A r \in Queries : pc[r] = "waiting" => HearsOne(r)
  BY <1>3 DEF Leave, TypeOK
<1>4. ASSUME NEW q \in Queries, NEW p \in Providers, GetFailure(q, p)
      PROVE  SomebodyToHear' /\ \A r \in Queries : pc[r] = "waiting" => HearsOne(r)
  <2>1. /\ pc' = pc /\ pc[q] = "waiting" /\ p \in listed[q] /\ listed[q] # {p}
        /\ \A r \in Queries : listed'[r] = IF r = q THEN listed[q] \ {p} ELSE listed[r]
    BY <1>4 DEF GetFailure, TypeOK
  <2> QED BY <2>1
<1>5. ASSUME NEW q \in Queries, Refuse(q) \/ (\E p \in Providers : Cool(p))
      PROVE  UNCHANGED <<pc, listed>>
  BY <1>5 DEF Refuse, Cool, queryVars, vars
<1>6. ASSUME \/ \E d \in Directs : (\E p \in Providers : Ask(d, p)) \/ DirectResponse(d) \/ DirectFailure(d)
             \/ \E k \in Checkers : BeginCheck(k) \/ \E p \in Providers : TestPasses(k, p) \/ TestFails(k, p)
             \/ \E p \in Providers : Cool(p)
             \/ UNCHANGED vars
      PROVE  UNCHANGED <<pc, listed>>
  BY <1>6 DEF Ask, DirectResponse, DirectFailure, Answered, BeginCheck, TestPasses, TestFails, Tested,
              Cool, queryVars, vars
<1> QED
  BY <1>1, <1>2, <1>3, <1>4, <1>5, <1>6 DEF Next, TimeOut, GetResponse, GetLastFailure

\* A query that waits always waits for an answer that is still to come, and
\* hears from each provider once: with any number of them it waits for at most
\* as many answers as it has listed providers (the counting loop of Query).
THEOREM QueryIsBounded ==
    Safety => /\ []SomebodyToHear
              /\ [][\A q \in Queries : pc[q] = "waiting" => HearsOne(q)]_vars
<1>1. Init => SomebodyToHear
  BY DEF Init, SomebodyToHear
<1>2. TypeOK /\ SomebodyToHear /\ [Next]_vars =>
         /\ SomebodyToHear'
         /\ [\A q \in Queries : pc[q] = "waiting" => HearsOne(q)]_vars
  BY QueryStep
<1>3. QED BY <1>1, <1>2, StatusTypes, PTL DEF Safety

------------------------------------------------------------------------------
(* Who is disabled *)

\* No provider in use has failed as often as disables it everywhere.
InUseBelowLimit == \A p \in Providers : isAvailable[p] => errorCount[p] < DirectRetries

\* A provider is disabled by failures in a row, or by a health check.
Earned(p) ==
    isAvailable[p] /\ ~isAvailable'[p] =>
        errorCount'[p] >= MAX_RETRIES \/ \E k \in Checkers : p \in todo[k] \ todo'[k]

LEMMA SetStatusOf ==
    ASSUME TypeOK, NEW p \in Providers, NEW a \in BOOLEAN, NEW e \in Errors, SetStatus(p, a, e)
    PROVE  /\ isAvailable'[p] = a /\ errorCount'[p] = e
           /\ \A r \in Providers \ {p} : isAvailable'[r] = isAvailable[r] /\ errorCount'[r] = errorCount[r]
BY DEF SetStatus, TypeOK

LEMMA FailureStep ==
    ASSUME TypeOK, InUseBelowLimit, NEW p \in Providers, NEW limit \in {MAX_RETRIES, DirectRetries},
           Success(p) \/ Failure(p, limit)
    PROVE  InUseBelowLimit' /\ \A r \in Providers : Earned(r)
<1>1. isAvailable[p] \in BOOLEAN /\ OneMore(errorCount[p]) \in Errors /\ 0 \in Errors
  BY OneMoreType DEF TypeOK, Errors, DirectRetries
<1>2. CASE Success(p)
  BY <1>1, <1>2, SetStatusOf DEF Success, InUseBelowLimit, Earned, DirectRetries
<1>3. CASE Failure(p, limit)
  <2> DEFINE e == OneMore(errorCount[p])
             a == isAvailable[p] /\ e < limit
  <2>1. SetStatus(p, a, e) /\ a \in BOOLEAN /\ e \in Errors
    BY <1>1, <1>3 DEF Failure
  <2>2. limit \in {2, 3} /\ e \in 0..3
    BY <1>1 DEF MAX_RETRIES, DirectRetries, Errors
  <2>3. (a => e < 3) /\ (isAvailable[p] /\ ~a => e >= 2)
    BY <2>2
  <2> HIDE DEF a, e
  <2>4. /\ isAvailable'[p] = a /\ errorCount'[p] = e
        /\ \A r \in Providers \ {p} : isAvailable'[r] = isAvailable[r] /\ errorCount'[r] = errorCount[r]
    BY <2>1, SetStatusOf
  <2>5. (isAvailable'[p] => errorCount'[p] < 3) /\ Earned(p)
    BY <2>3, <2>4 DEF Earned, MAX_RETRIES
  <2>6. ASSUME NEW r \in Providers \ {p}
        PROVE  (isAvailable'[r] => errorCount'[r] < 3) /\ Earned(r)
    BY <2>4 DEF InUseBelowLimit, Earned, DirectRetries
  <2> QED BY <2>5, <2>6 DEF InUseBelowLimit, DirectRetries
<1> QED BY <1>2, <1>3

LEMMA TestStep ==
    ASSUME TypeOK, InUseBelowLimit, NEW k \in Checkers, NEW p \in Providers,
           TestPasses(k, p) \/ TestFails(k, p)
    PROVE  InUseBelowLimit' /\ \A r \in Providers : Earned(r)
<1>1. p \in todo[k] \ todo'[k]
  <2>1. p \in todo[k] /\ todo' = [todo EXCEPT ![k] = @ \ {p}]
    BY DEF TestPasses, TestFails, Tested
  <2> QED BY <2>1 DEF TypeOK
<1>2. PICK a \in BOOLEAN, e \in Errors : SetStatus(p, a, e) /\ (a => e < DirectRetries)
  <2>1. CASE TestPasses(k, p)
    <3>1. SetStatus(p, TRUE, 0)
      BY <2>1 DEF TestPasses
    <3>2. 0 \in Errors /\ 0 < DirectRetries
      BY DEF Errors, DirectRetries
    <3> QED BY <3>1, <3>2
  <2>2. CASE TestFails(k, p)
    <3> DEFINE e == OneMore(copy[k][p].errorCount)
               a == copy[k][p].isAvailable /\ e < MAX_RETRIES
    <3>1. copy[k][p] \in Statuses
      BY DEF TypeOK
    <3>2. e \in Errors
      BY <3>1, OneMoreType DEF Statuses
    <3>3. a \in BOOLEAN /\ (a => e < DirectRetries)
      BY <3>1, <3>2 DEF Statuses, MAX_RETRIES, DirectRetries, Errors
    <3>4. SetStatus(p, a, e)
      BY <2>2 DEF TestFails
    <3> QED BY <3>2, <3>3, <3>4
  <2> QED BY <2>1, <2>2
<1>3. /\ isAvailable'[p] = a /\ errorCount'[p] = e
      /\ \A r \in Providers \ {p} : isAvailable'[r] = isAvailable[r] /\ errorCount'[r] = errorCount[r]
  BY <1>2, SetStatusOf
<1>4. Earned(p)
  BY <1>1 DEF Earned
<1> QED BY <1>2, <1>3, <1>4 DEF InUseBelowLimit, Earned

LEMMA StatusStep ==
    ASSUME TypeOK, InUseBelowLimit, [Next]_vars
    PROVE  InUseBelowLimit' /\ \A p \in Providers : Earned(p)
<1>1. CASE UNCHANGED <<isAvailable, errorCount>>
  BY <1>1 DEF InUseBelowLimit, Earned
<1>2. ASSUME NEW q \in Queries, WriteBack(q)
      PROVE  InUseBelowLimit' /\ \A p \in Providers : Earned(p)
  BY <1>2 DEF WriteBack, InUseBelowLimit, Earned, DirectRetries, TypeOK
<1>3. ASSUME NEW q \in Queries, NEW p \in Providers,
             GetResponse(q, p) \/ GetFailure(q, p) \/ GetLastFailure(q, p)
      PROVE  Success(p) \/ Failure(p, MAX_RETRIES)
  BY <1>3 DEF GetResponse, GetFailure, GetLastFailure
<1>4. ASSUME NEW d \in Directs, DirectResponse(d) \/ DirectFailure(d)
      PROVE  target[d] \in Providers /\ (Success(target[d]) \/ Failure(target[d], DirectRetries))
  BY <1>4 DEF DirectResponse, DirectFailure, Answered, TypeOK
<1>5. ASSUME \/ \E q \in Queries : Refuse(q) \/ List(q) \/ Select(q) \/ TimeOut(q)
             \/ \E d \in Directs, p \in Providers : Ask(d, p)
             \/ \E k \in Checkers : BeginCheck(k)
             \/ \E p \in Providers : Cool(p)
             \/ UNCHANGED vars
      PROVE  UNCHANGED <<isAvailable, errorCount>>
  BY <1>5 DEF Refuse, List, Select, TimeOut, Ask, BeginCheck, Cool, status, vars
<1> QED
  BY <1>1, <1>2, <1>3, <1>4, <1>5, FailureStep, TestStep DEF Next

\* Whatever late answers, health checks and re-enabling queries write over each
\* other, no provider in use has three errors counted against it, and none is
\* taken out of use before two errors are counted, except by a health check.
THEOREM DisablingIsEarned ==
    Safety => []InUseBelowLimit /\ [][\A p \in Providers : Earned(p)]_vars
<1>1. Init => InUseBelowLimit
  BY DEF Init, InUseBelowLimit, DirectRetries
<1>2. TypeOK /\ InUseBelowLimit /\ [Next]_vars =>
         InUseBelowLimit' /\ [\A p \in Providers : Earned(p)]_vars
  BY StatusStep
<1>3. QED BY <1>1, <1>2, StatusTypes, PTL DEF Safety
==============================================================================
