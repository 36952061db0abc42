-------------------------------- MODULE Gate --------------------------------
(***************************************************************************)
(* What stands before every handler, for one client address:               *)
(* middleware/auth.go hands tokens out and takes each of them once,        *)
(* services/rate_limiter.go counts the requests of the last minute in a    *)
(* sorted set of Redis, and routes/routes.go says what a failure means     *)
(* (a token is then refused, a request waved through).                     *)
(*                                                                         *)
(* Every Redis command is an action, for other requests and the clock come *)
(* in between: Pipeline is no transaction, and go-redis may give up on     *)
(* commands that Redis still runs.  A key is gone when its time to live    *)
(* is over, or a sorted set when it is empty.                              *)
(*                                                                         *)
(* Time is counted in ticks, Second of them a second: tokens carry their   *)
(* expiry in whole seconds.  All servers and Redis are taken to share one  *)
(* clock, and two requests of one tick to differ in their nanoseconds.     *)
(* Addresses share no key, and a token of another address is refused.      *)
(***************************************************************************)
EXTENDS Integers, FiniteSets

CONSTANTS Issues,          \* calls of GenerateToken, and the tokens they sign
          Requests,        \* calls of the API
          MaxTokens,       \* 30: tokens a minute
          Minute,          \* time.Minute
          TokenExpiration, \* 30 seconds
          Limit, Window,   \* of the limiter: 60 a minute
          Second,          \* ticks of a second
          MaxTime,         \* bound: the last tick
          None             \* no token

ASSUME GateAssumption ==
    /\ IsFiniteSet(Issues) /\ IsFiniteSet(Requests)
    /\ None \notin Issues
    /\ MaxTokens \in Nat /\ Limit \in Nat /\ MaxTime \in Nat
    /\ {Minute, TokenExpiration, Window, Second} \subseteq Nat \ {0}

VARIABLES now,
          issue,       \* where each call of GenerateToken is
          paidAt,      \* when its EXPIRE ran
          expiresAt,   \* the second its token expires in
          counted,     \* Redis: the calls that the count of token:ip holds
          countTTL,    \* Redis: when token:ip expires, or Never
          uncounted,   \* history: calls whose count expired before their EXPIRE
          nonce,       \* Redis: when each token's nonce expires, 0 when absent
          pc,          \* where each request is
          bearer,      \* its token
          late,        \* history: requests whose token expired before SETNX
          stamp,       \* now in Allow
          cmd,         \* how many commands of its pipeline Redis has run
          within,      \* its ZCARD was within the limit
          zset,        \* Redis: the requests in limit:api
          zsetTTL,     \* Redis: when limit:api expires, or Never
          forgotten    \* history: requests whose entry expired before their EXPIRE

tokenVars == <<issue, paidAt, expiresAt, counted, countTTL, uncounted>>
authVars == <<pc, bearer, late, nonce>>
limitVars == <<stamp, cmd, within, zset, zsetTTL, forgotten>>
vars == <<now, tokenVars, authVars, limitVars>>

Never == -1
Time == 0..MaxTime

IssuePlaces == {"idle", "under", "over", "paid", "issued", "denied", "error"}
Places == {"idle", "parsed", "fresh", "asked", "admitted", "limited", "waved", "refused"}

TypeOK ==
    /\ now \in Time
    /\ issue \in [Issues -> IssuePlaces]
    /\ paidAt \in [Issues -> Time]
    /\ expiresAt \in [Issues -> Nat]
    /\ counted \in SUBSET Issues
    /\ countTTL \in Nat \cup {Never}
    /\ uncounted \in SUBSET Issues
    /\ nonce \in [Issues -> Nat]
    /\ pc \in [Requests -> Places]
    /\ bearer \in [Requests -> Issues \cup {None}]
    /\ late \in SUBSET Requests
    /\ stamp \in [Requests -> Time]
    /\ cmd \in [Requests -> 0..4]
    /\ within \in [Requests -> BOOLEAN]
    /\ zset \in SUBSET Requests
    /\ zsetTTL \in Nat \cup {Never}
    /\ forgotten \in SUBSET Requests

Init ==
    /\ now = 0
    /\ issue = [i \in Issues |-> "idle"]
    /\ paidAt = [i \in Issues |-> 0]
    /\ expiresAt = [i \in Issues |-> 0]
    /\ counted = {} /\ countTTL = Never /\ uncounted = {}
    /\ nonce = [i \in Issues |-> 0]
    /\ pc = [r \in Requests |-> "idle"]
    /\ bearer = [r \in Requests |-> None]
    /\ late = {}
    /\ stamp = [r \in Requests |-> 0]
    /\ cmd = [r \in Requests |-> 0]
    /\ within = [r \in Requests |-> FALSE]
    /\ zset = {} /\ zsetTTL = Never /\ forgotten = {}

-----------------------------------------------------------------------------
(* GenerateToken.                                                          *)

Call(i, from, to) == issue[i] = from /\ issue' = [issue EXCEPT ![i] = to]

OnlyTokens == UNCHANGED <<now, authVars, limitVars>>

\* Faulty: the count is read before the call is added.
IncrAfterGet(i) ==
    /\ counted' = counted \cup {i}
    /\ Call(i, "idle", IF Cardinality(counted) <= MaxTokens THEN "under" ELSE "over")
    /\ UNCHANGED <<paidAt, expiresAt, countTTL, uncounted>>
    /\ OnlyTokens

Incr(i) ==
    /\ counted' = counted \cup {i}
    /\ Call(i, "idle", IF Cardinality(counted') <= MaxTokens THEN "under" ELSE "over")
    /\ UNCHANGED <<paidAt, expiresAt, countTTL, uncounted>>
    /\ OnlyTokens

\* No answer: Redis may have counted the call or not.
IncrFails(i) ==
    /\ Call(i, "idle", "error")
    /\ counted' \in {counted, counted \cup {i}}
    /\ UNCHANGED <<paidAt, expiresAt, countTTL, uncounted>>
    /\ OnlyTokens

\* EXPIRE does nothing to a key that is not there.
CountExpiry == IF counted = {} THEN countTTL ELSE now + Minute

Expire(i) ==
    /\ \/ Call(i, "under", "paid")
       \/ Call(i, "over", "denied")
    /\ countTTL' = CountExpiry
    /\ paidAt' = [paidAt EXCEPT ![i] = now]
    /\ UNCHANGED <<expiresAt, counted, uncounted>>
    /\ OnlyTokens

ExpireFails(i) ==
    /\ \E from \in {"under", "over"} : Call(i, from, "error")
    /\ countTTL' \in {countTTL, CountExpiry}
    /\ UNCHANGED <<paidAt, expiresAt, counted, uncounted>>
    /\ OnlyTokens

\* ExpiresAt is cut to seconds.
Sign(i) ==
    /\ Call(i, "paid", "issued")
    /\ expiresAt' = [expiresAt EXCEPT ![i] = (now + TokenExpiration) \div Second]
    /\ UNCHANGED <<paidAt, counted, countTTL, uncounted>>
    /\ OnlyTokens

-----------------------------------------------------------------------------
(* AuthRequired, and the checks without state around it.                   *)

Goto(r, from, to) == pc[r] = from /\ pc' = [pc EXCEPT ![r] = to]

OnlyAuth == UNCHANGED <<now, tokenVars, limitVars>>

Refuse(r, from) ==
    /\ Goto(r, from, "refused")
    /\ UNCHANGED <<bearer, late, nonce>>
    /\ OnlyAuth

\* Neither the address is listed (an answer Redis keeps for five minutes) nor
\* a key given, or one of them is missing in strict mode.
NotListed(r) == Refuse(r, "idle")

\* No header, no Bearer, or no token that is signed, valid and bound to the
\* address.
Unauthorized(r) == Refuse(r, "idle")

\* domainValidationMiddleware finds no domain in path, query or body, or none
\* that is valid.
NoDomain(r) == Refuse(r, "fresh")

\* jwt's verification of the claims.
Valid(i) == issue[i] = "issued" /\ now \div Second < expiresAt[i]

ParseToken(r, i) ==
    /\ Valid(i)
    /\ Goto(r, "idle", "parsed")
    /\ bearer' = [bearer EXCEPT ![r] = i]
    /\ UNCHANGED <<late, nonce>>
    /\ OnlyAuth

\* Faulty: the nonce is kept for a second, not as long as the token.
StoreNonceBriefly(i) == [nonce EXCEPT ![i] = IF @ = 0 THEN now + Second ELSE @]

StoreNonce(i) == [nonce EXCEPT ![i] = IF @ = 0 THEN now + TokenExpiration ELSE @]

\* SETNX: the token is new as long as no nonce is there.
SetNonce(r) ==
    /\ Goto(r, "parsed", IF nonce[bearer[r]] = 0 THEN "fresh" ELSE "refused")
    /\ nonce' = StoreNonce(bearer[r])
    /\ late' = IF Valid(bearer[r]) THEN late ELSE late \cup {r}
    /\ UNCHANGED bearer
    /\ OnlyAuth

NonceFails(r) ==
    /\ Goto(r, "parsed", "refused")
    /\ nonce' \in {nonce, StoreNonce(bearer[r])}
    /\ UNCHANGED <<bearer, late>>
    /\ OnlyAuth

-----------------------------------------------------------------------------
(* rateLimitMiddleware and Allow.                                          *)

\* Faulty: the request is entered at the start of its window.
BeginAtWindowStart(r) ==
    /\ Goto(r, "fresh", "asked")
    /\ stamp' = [stamp EXCEPT ![r] = now - Window]
    /\ UNCHANGED <<now, tokenVars, bearer, late, nonce, cmd, within, zset, zsetTTL, forgotten>>

Begin(r) ==
    /\ Goto(r, "fresh", "asked")
    /\ stamp' = [stamp EXCEPT ![r] = now]
    /\ UNCHANGED <<now, tokenVars, bearer, late, nonce, cmd, within, zset, zsetTTL, forgotten>>

\* Redis runs command k of r's pipeline, whether or not r still waits for it.
Command(r, k) ==
    /\ pc[r] \in {"asked", "waved"}
    /\ cmd[r] = k - 1
    /\ cmd' = [cmd EXCEPT ![r] = k]
    /\ UNCHANGED <<now, tokenVars, authVars, stamp, forgotten>>

ZRem(r) ==
    /\ Command(r, 1)
    /\ zset' = {q \in zset : stamp[q] > stamp[r] - Window}
    /\ zsetTTL' = IF zset' = {} THEN Never ELSE zsetTTL
    /\ UNCHANGED within

ZAdd(r) ==
    /\ Command(r, 2)
    /\ zset' = zset \cup {r}
    /\ UNCHANGED <<zsetTTL, within>>

\* Faulty: the request does not count itself.
ZCardOfOthers(r) ==
    /\ Command(r, 3)
    /\ within' = [within EXCEPT ![r] = Cardinality(zset \ {r}) <= Limit]
    /\ UNCHANGED <<zset, zsetTTL>>

ZCard(r) ==
    /\ Command(r, 3)
    /\ within' = [within EXCEPT ![r] = Cardinality(zset) <= Limit]
    /\ UNCHANGED <<zset, zsetTTL>>

ZExpire(r) ==
    /\ Command(r, 4)
    /\ zsetTTL' = IF zset = {} THEN zsetTTL ELSE now + 2 * Window
    /\ UNCHANGED <<zset, within>>

Exec(r) ==
    /\ cmd[r] = 4
    /\ Goto(r, "asked", IF within[r] THEN "admitted" ELSE "limited")
    /\ UNCHANGED <<now, tokenVars, bearer, late, nonce, limitVars>>

\* An error lets the request through.
AllowFails(r) ==
    /\ Goto(r, "asked", "waved")
    /\ UNCHANGED <<now, tokenVars, bearer, late, nonce, limitVars>>

-----------------------------------------------------------------------------
(* Redis drops what has expired.                                           *)

Gone(ttl) == ttl # Never /\ ttl <= now + 1

DropCount ==
    IF Gone(countTTL)
    THEN /\ counted' = {}
         /\ countTTL' = Never
         /\ uncounted' = uncounted \cup {i \in counted : issue[i] = "under"}
    ELSE UNCHANGED <<counted, countTTL, uncounted>>

DropZset ==
    IF Gone(zsetTTL)
    THEN /\ zset' = {}
         /\ zsetTTL' = Never
         /\ forgotten' = forgotten \cup {r \in zset : cmd[r] < 4}
    ELSE UNCHANGED <<zset, zsetTTL, forgotten>>

Tick ==
    /\ now < MaxTime
    /\ now' = now + 1
    /\ nonce' = [i \in Issues |-> IF nonce[i] <= now' THEN 0 ELSE nonce[i]]
    /\ DropCount
    /\ DropZset
    /\ UNCHANGED <<issue, paidAt, expiresAt, pc, bearer, late, stamp, cmd, within>>

Next ==
    \/ \E i \in Issues : Incr(i) \/ IncrFails(i) \/ Expire(i) \/ ExpireFails(i) \/ Sign(i)
    \/ \E r \in Requests :
        \/ NotListed(r) \/ Unauthorized(r) \/ NoDomain(r)
        \/ SetNonce(r) \/ NonceFails(r)
        \/ \E i \in Issues : ParseToken(r, i)
        \/ Begin(r) \/ ZRem(r) \/ ZAdd(r) \/ ZCard(r) \/ ZExpire(r)
        \/ Exec(r) \/ AllowFails(r)
    \/ Tick

Spec == Init /\ [][Next]_vars

-----------------------------------------------------------------------------

\* The nonce of its token was stored for r, so that it went past AuthRequired.
Took(r) == pc[r] \in {"fresh", "asked", "admitted", "limited", "waved"}

\* A token lets one request in, although its nonce is forgotten after thirty
\* seconds and its expiry is cut to whole seconds: a second request can only be
\* one that was checked before the token expired and stored its nonce after
\* (auth.go:115-158).
TokenOnce ==
    \A r, q \in Requests :
        r # q /\ Took(r) /\ Took(q) /\ bearer[r] = bearer[q] => r \in late \/ q \in late

Recent(t) == t > now - Minute

\* In no minute are more than MaxTokens tokens paid for, however the calls
\* and the expiry of the counter meet; not counted are calls whose count
\* expired between their INCR and their EXPIRE (auth.go:175-197).
TokenBound ==
    Cardinality({i \in Issues \ uncounted : issue[i] \in {"paid", "issued"} /\ Recent(paidAt[i])})
        <= MaxTokens

\* Of the requests of the last Window, Allow has let at most Limit in, with
\* pipelines of several requests interleaved and delayed; not counted are those
\* whose entry expired with the key before their own EXPIRE
\* (rate_limiter.go:43-69).
WindowBound ==
    Cardinality({r \in Requests \ forgotten : pc[r] = "admitted" /\ stamp[r] > now - Window})
        <= Limit

=============================================================================
