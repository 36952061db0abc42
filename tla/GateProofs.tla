----------------------------- MODULE GateProofs -----------------------------
(***************************************************************************)
(* The gate for any number of calls and requests and any limits, windows   *)
(* and ticks.                                                              *)
(*                                                                         *)
(* Each bound is inductive once it is said that what it counts is still in *)
(* Redis: the calls paid for lately in the counter, the requests of the    *)
(* last window that found room in the sorted set, each key with a time to  *)
(* live that outlasts them.  A token is taken once because its nonce is    *)
(* kept into the second the token expires in.                              *)
(***************************************************************************)
EXTENDS Gate, FiniteSetTheorems, TLAPS

\* Refused before the limiter is asked.
Refused(r) == Refuse(r, "idle") \/ Refuse(r, "fresh")

-----------------------------------------------------------------------------
(* Types. *)

LEMMA DivNat == \A t \in Nat : t \div Second \in Nat
  BY GateAssumption

LEMMA InitType == Init => TypeOK
  BY GateAssumption DEF Init, TypeOK, Time, IssuePlaces, Places, Never

LEMMA TokenTypes ==
    ASSUME TypeOK, NEW i \in Issues,
           Incr(i) \/ IncrFails(i) \/ Expire(i) \/ ExpireFails(i) \/ Sign(i)
    PROVE  TypeOK'
<1> USE GateAssumption DEF Call, OnlyTokens, CountExpiry
<1>1. now \in Nat /\ now + Minute \in Nat /\ now + TokenExpiration \in Nat
  BY DEF TypeOK, Time
<1>2. UNCHANGED <<now, authVars, limitVars, uncounted>>
  BY DEF Incr, IncrFails, Expire, ExpireFails, Sign, OnlyTokens
<1>3. issue' \in [Issues -> IssuePlaces] /\ counted' \in SUBSET Issues
  BY DEF TypeOK, IssuePlaces, Incr, IncrFails, Expire, ExpireFails, Sign
<1>4. countTTL' \in Nat \cup {Never} /\ paidAt' \in [Issues -> Time]
  BY <1>1 DEF TypeOK, Incr, IncrFails, Expire, ExpireFails, Sign
<1>5. expiresAt' \in [Issues -> Nat]
  BY <1>1, DivNat DEF TypeOK, Incr, IncrFails, Expire, ExpireFails, Sign
<1>6. QED BY <1>2, <1>3, <1>4, <1>5 DEF TypeOK, authVars, limitVars

LEMMA AuthTypes ==
    ASSUME TypeOK, NEW r \in Requests,
           \/ Refused(r) \/ SetNonce(r) \/ NonceFails(r)
           \/ \E i \in Issues : ParseToken(r, i)
    PROVE  TypeOK'
<1> USE GateAssumption DEF Goto, OnlyAuth
<1>1. UNCHANGED <<now, tokenVars, limitVars>>
  BY DEF Refused, Refuse, SetNonce, NonceFails, ParseToken
<1>2. pc' \in [Requests -> Places] /\ bearer' \in [Requests -> Issues \cup {None}]
      /\ late' \in SUBSET Requests
  BY DEF TypeOK, Places, Refused, Refuse, SetNonce, NonceFails, ParseToken
<1>3. nonce' \in [Issues -> Nat]
  <2>1. now + TokenExpiration \in Nat
    BY DEF TypeOK, Time
  <2>2. \A i : StoreNonce(i) \in [Issues -> Nat]
    BY <2>1 DEF TypeOK, StoreNonce
  <2>3. QED BY <2>2 DEF TypeOK, Refused, Refuse, SetNonce, NonceFails, ParseToken
<1>4. QED BY <1>1, <1>2, <1>3 DEF TypeOK, tokenVars, limitVars

LEMMA LimitTypes ==
    ASSUME TypeOK, NEW r \in Requests,
           \/ Begin(r) \/ ZRem(r) \/ ZAdd(r) \/ ZCard(r) \/ ZExpire(r)
           \/ Exec(r) \/ AllowFails(r)
    PROVE  TypeOK'
<1> USE GateAssumption DEF Goto, Command
<1>1. UNCHANGED <<now, tokenVars, bearer, late, nonce, forgotten>>
  BY DEF Begin, ZRem, ZAdd, ZCard, ZExpire, Exec, AllowFails, authVars, limitVars
<1>2. pc' \in [Requests -> Places] /\ stamp' \in [Requests -> Time]
      /\ cmd' \in [Requests -> 0..4]
  BY DEF TypeOK, Places, Begin, ZRem, ZAdd, ZCard, ZExpire, Exec, AllowFails, authVars, limitVars
<1>3. within' \in [Requests -> BOOLEAN] /\ zset' \in SUBSET Requests
  <2>1. (Cardinality(zset) <= Limit) \in BOOLEAN
    OBVIOUS
  <2>2. within \in [Requests -> BOOLEAN] /\ zset \in SUBSET Requests
    BY DEF TypeOK
  <2>3. CASE ZCard(r)
    BY <2>1, <2>2, <2>3, Zenon DEF ZCard
  <2>4. CASE Begin(r) \/ ZRem(r) \/ ZAdd(r) \/ ZExpire(r) \/ Exec(r) \/ AllowFails(r)
    BY <2>2, <2>4 DEF Begin, ZRem, ZAdd, ZExpire, Exec, AllowFails, limitVars
  <2>5. QED BY <2>3, <2>4
<1>4. zsetTTL' \in Nat \cup {Never}
  BY DEF TypeOK, Time, Begin, ZRem, ZAdd, ZCard, ZExpire, Exec, AllowFails, limitVars
<1>5. QED BY <1>1, <1>2, <1>3, <1>4 DEF TypeOK, tokenVars

LEMMA TickTypes == ASSUME TypeOK, Tick PROVE TypeOK'
<1>1. now' \in Time
  BY GateAssumption DEF Tick, TypeOK, Time
<1>2. nonce' \in [Issues -> Nat]
  BY DEF Tick, TypeOK
<1>3. counted' \in SUBSET Issues /\ countTTL' \in Nat \cup {Never} /\ uncounted' \in SUBSET Issues
  BY DEF Tick, DropCount, TypeOK
<1>4. zset' \in SUBSET Requests /\ zsetTTL' \in Nat \cup {Never} /\ forgotten' \in SUBSET Requests
  BY DEF Tick, DropZset, TypeOK
<1>5. QED BY <1>1, <1>2, <1>3, <1>4 DEF Tick, TypeOK

LEMMA StutterTypes == TypeOK /\ UNCHANGED vars => TypeOK'
  BY DEF TypeOK, vars, tokenVars, authVars, limitVars

LEMMA TypeStep == TypeOK /\ [Next]_vars => TypeOK'
  BY TokenTypes, AuthTypes, LimitTypes, TickTypes, StutterTypes
     DEF Next, Refused, NotListed, Unauthorized, NoDomain

\* Type correctness.
THEOREM GateTypes == Spec => []TypeOK
  BY InitType, TypeStep, PTL DEF Spec

-----------------------------------------------------------------------------
(* A token lets one request in. *)

TokenInv ==
    /\ TypeOK
    /\ \A i \in Issues :
        /\ issue[i] = "issued" => expiresAt[i] <= (now + TokenExpiration) \div Second
        /\ nonce[i] # 0 => issue[i] = "issued" /\ expiresAt[i] <= nonce[i] \div Second
    /\ \A r \in Requests :
        /\ pc[r] \notin {"idle", "refused"} => bearer[r] \in Issues /\ issue[bearer[r]] = "issued"
        /\ Took(r) => nonce[bearer[r]] # 0 \/ expiresAt[bearer[r]] <= now \div Second
    /\ TokenOnce

\* Later ticks lie in later seconds.
LEMMA DivMono == ASSUME NEW a \in Nat, NEW b \in Nat, a <= b PROVE a \div Second <= b \div Second
<1>1. Second \in Nat /\ Second > 0
  BY GateAssumption
<1> DEFINE x == a \div Second
           y == b \div Second
<1>2. x \in Nat /\ y \in Nat /\ a % Second \in Nat /\ b % Second \in Nat /\ b % Second < Second
  BY <1>1
<1>3. a = (Second * x) + (a % Second) /\ b = (Second * y) + (b % Second)
  BY <1>1
<1> HIDE DEF x, y
<1>4. ASSUME x > y PROVE FALSE
  <2>1. PICK d \in Nat : x = y + 1 + d
    <3>1. x - y - 1 \in Nat /\ x = y + 1 + (x - y - 1)
      BY <1>2, <1>4
    <3>2. QED BY <3>1
  <2>2. Second * x = Second * y + Second + Second * d
    BY <2>1, <1>1, <1>2
  <2>3. Second * d >= 0 /\ Second * x \in Nat /\ Second * y \in Nat /\ Second * d \in Nat
    BY <1>1, <1>2, <2>1
  <2>4. Second * x >= Second * y + Second
    BY <2>2, <2>3, <1>1
  <2>5. QED BY <2>3, <2>4, <1>1, <1>2, <1>3
<1>5. x <= y
  BY <1>2, <1>4
<1>6. QED BY <1>5 DEF x, y

LEMMA TokenInit == Init => TokenInv
<1> SUFFICES ASSUME Init PROVE TokenInv
  OBVIOUS
<1>1. TypeOK
  BY InitType
<1>2. QED BY <1>1 DEF Init, TokenInv, Took, TokenOnce

\* Steps of the limiter and of the counter touch no token.
LEMMA TokenFrame ==
    ASSUME TokenInv, TypeOK', UNCHANGED <<now, issue, expiresAt, bearer, late, nonce>>,
           \A r \in Requests : pc'[r] # pc[r] => Took(r)
    PROVE  TokenInv'
<1>1. \A r \in Requests : Took(r)' => Took(r)
  BY DEF Took
<1>2. \A r \in Requests : pc'[r] \notin {"idle", "refused"} => pc[r] \notin {"idle", "refused"}
  BY DEF Took
<1>3. QED BY <1>1, <1>2 DEF TokenInv, TokenOnce

LEMMA TokenCalls ==
    ASSUME TokenInv, NEW i \in Issues,
           Incr(i) \/ IncrFails(i) \/ Expire(i) \/ ExpireFails(i) \/ Sign(i)
    PROVE  TokenInv'
<1>1. TypeOK'
  BY TokenTypes DEF TokenInv
<1>2. UNCHANGED <<now, pc, bearer, late, nonce>> /\ issue[i] # "issued"
  BY DEF Incr, IncrFails, Expire, ExpireFails, Sign, Call, OnlyTokens, authVars
<1>3. \A j \in Issues \ {i} : issue'[j] = issue[j] /\ expiresAt'[j] = expiresAt[j]
  BY DEF Incr, IncrFails, Expire, ExpireFails, Sign, Call, TokenInv, TypeOK
<1>4. issue'[i] = "issued" => expiresAt'[i] = (now + TokenExpiration) \div Second
  BY DEF Incr, IncrFails, Expire, ExpireFails, Sign, Call, TokenInv, TypeOK
<1>5. now + TokenExpiration \in Nat
  BY GateAssumption DEF TokenInv, TypeOK, Time
<1>6. (now + TokenExpiration) \div Second \in Nat
  BY <1>5, DivNat
<1>7. nonce[i] = 0 /\ \A r \in Requests : pc[r] \notin {"idle", "refused"} => bearer[r] # i
  BY <1>2 DEF TokenInv
<1>8. QED BY <1>1, <1>2, <1>3, <1>4, <1>6, <1>7 DEF TokenInv, Took, TokenOnce

LEMMA TokenAuth ==
    ASSUME TokenInv, NEW r \in Requests,
           \/ Refused(r) \/ SetNonce(r) \/ NonceFails(r)
           \/ \E i \in Issues : ParseToken(r, i)
    PROVE  TokenInv'
<1>1. TypeOK' /\ TypeOK
  BY AuthTypes DEF TokenInv
<1>2. UNCHANGED <<now, issue, expiresAt>>
  BY DEF Refused, Refuse, SetNonce, NonceFails, ParseToken, OnlyAuth, tokenVars
<1>3. \A q \in Requests \ {r} : pc'[q] = pc[q] /\ bearer'[q] = bearer[q]
  BY <1>1 DEF Refused, Refuse, SetNonce, NonceFails, ParseToken, Goto, TypeOK
<1>4. CASE Refused(r) \/ \E i \in Issues : ParseToken(r, i)
  <2>1. UNCHANGED <<late, nonce>> /\ ~Took(r)'
    BY <1>1, <1>4 DEF Refused, Refuse, ParseToken, Goto, Took, TypeOK
  <2>2. pc'[r] # "refused" => bearer'[r] \in Issues /\ issue'[bearer'[r]] = "issued"
    BY <1>1, <1>2, <1>4 DEF Refused, Refuse, ParseToken, Goto, Valid, TypeOK
  <2>3. QED BY <1>1, <1>2, <1>3, <2>1, <2>2 DEF TokenInv, Took, TokenOnce
<1>5. CASE SetNonce(r) \/ NonceFails(r)
  <2> DEFINE i == bearer[r]
  <2>1. i \in Issues /\ issue[i] = "issued" /\ UNCHANGED bearer
    BY <1>5 DEF SetNonce, NonceFails, Goto, TokenInv
  <2> HIDE DEF i
  <2>2. now + TokenExpiration \in Nat \ {0}
    BY <1>1, GateAssumption DEF TypeOK, Time
  <2>3. /\ \A j \in Issues \ {i} : nonce'[j] = nonce[j]
        /\ nonce[i] # 0 => nonce'[i] = nonce[i]
        /\ nonce'[i] # nonce[i] => nonce'[i] = now + TokenExpiration
    BY <1>1, <1>5, <2>1 DEF SetNonce, NonceFails, StoreNonce, TypeOK, i
  <2>4. nonce'[i] # 0 => expiresAt[i] <= nonce'[i] \div Second
    BY <2>1, <2>3 DEF TokenInv
  <2>5. \A q \in Requests \ {r} : Took(q)' <=> Took(q)
    BY <1>3 DEF Took
  <2>6. Took(r)' => SetNonce(r) /\ nonce[i] = 0 /\ nonce'[i] = now + TokenExpiration
    BY <1>1, <1>5, <2>1 DEF SetNonce, NonceFails, StoreNonce, Goto, Took, TypeOK, i
  <2>7. ASSUME Took(r)', NEW q \in Requests \ {r}, Took(q), bearer[q] = i PROVE r \in late'
    <3>1. expiresAt[i] <= now \div Second
      BY <2>6, <2>7 DEF TokenInv
    <3>2. ~Valid(i)
      <4>1. now \div Second \in Nat /\ expiresAt[i] \in Nat
        BY <1>1, <2>1, DivNat DEF TypeOK, Time
      <4>2. QED BY <3>1, <4>1 DEF Valid
    <3>3. QED BY <2>6, <2>7, <3>2 DEF SetNonce, i
  <2>8. late \subseteq late'
    BY <1>5 DEF SetNonce, NonceFails
  <2>9. TokenOnce'
    BY <2>1, <2>5, <2>7, <2>8 DEF TokenInv, TokenOnce, i
  <2>10. \A q \in Requests : pc'[q] \notin {"idle", "refused"} => pc[q] \notin {"idle", "refused"}
    BY <1>3, <1>5 DEF SetNonce, NonceFails, Goto
  <2>11. \A q \in Requests : Took(q)' => nonce'[bearer[q]] # 0 \/ expiresAt[bearer[q]] <= now \div Second
    BY <2>2, <2>3, <2>5, <2>6 DEF TokenInv, Took, i
  <2>12. \A j \in Issues : nonce'[j] # 0 => issue[j] = "issued" /\ expiresAt[j] <= nonce'[j] \div Second
    BY <2>1, <2>3, <2>4 DEF TokenInv
  <2>13. QED BY <1>1, <1>2, <2>1, <2>9, <2>10, <2>11, <2>12 DEF TokenInv
<1>6. QED BY <1>4, <1>5

LEMMA TokenTick == ASSUME TokenInv, Tick PROVE TokenInv'
<1>1. TypeOK' /\ TypeOK /\ UNCHANGED <<issue, expiresAt, pc, bearer, late>>
  BY TickTypes DEF TokenInv, Tick
<1>2. now \in Nat /\ now' = now + 1 /\ now' \in Nat /\ TokenExpiration \in Nat
      /\ now + TokenExpiration \in Nat /\ now' + TokenExpiration \in Nat
  BY <1>1, GateAssumption DEF Tick, TypeOK, Time
<1>3. now \div Second <= now' \div Second
  BY <1>2, DivMono
<1>4. (now + TokenExpiration) \div Second <= (now' + TokenExpiration) \div Second
  BY <1>2, DivMono
<1>5. /\ now \div Second \in Nat /\ now' \div Second \in Nat
      /\ (now + TokenExpiration) \div Second \in Nat /\ (now' + TokenExpiration) \div Second \in Nat
  BY <1>2, DivNat
<1>6. \A i \in Issues : expiresAt[i] \in Nat /\ nonce[i] \in Nat
  BY <1>1 DEF TypeOK
<1>7. \A i \in Issues : nonce'[i] = IF nonce[i] <= now' THEN 0 ELSE nonce[i]
  BY DEF Tick
<1>8. ASSUME NEW i \in Issues, nonce[i] # 0, nonce'[i] = 0 PROVE expiresAt[i] <= now' \div Second
  <2>1. nonce[i] <= now'
    BY <1>7, <1>8
  <2>2. nonce[i] \div Second <= now' \div Second
    BY <2>1, <1>2, <1>6, DivMono
  <2>3. expiresAt[i] <= nonce[i] \div Second /\ nonce[i] \div Second \in Nat
    BY <1>6, <1>8, DivNat DEF TokenInv
  <2>4. QED BY <2>2, <2>3, <1>5, <1>6
<1>9. ASSUME NEW i \in Issues PROVE
        /\ issue[i] = "issued" => expiresAt[i] <= (now' + TokenExpiration) \div Second
        /\ nonce'[i] # 0 => issue[i] = "issued" /\ expiresAt[i] <= nonce'[i] \div Second
  <2>1. issue[i] = "issued" => expiresAt[i] <= (now + TokenExpiration) \div Second
    BY DEF TokenInv
  <2>2. issue[i] = "issued" => expiresAt[i] <= (now' + TokenExpiration) \div Second
    BY <2>1, <1>4, <1>5, <1>6
  <2>3. nonce'[i] # 0 => nonce'[i] = nonce[i]
    BY <1>7
  <2>4. QED BY <2>2, <2>3 DEF TokenInv
<1>10. ASSUME NEW r \in Requests, Took(r)
       PROVE  nonce'[bearer[r]] # 0 \/ expiresAt[bearer[r]] <= now' \div Second
  <2>1. bearer[r] \in Issues
    BY <1>10 DEF TokenInv, Took
  <2>2. CASE nonce[bearer[r]] # 0
    BY <2>1, <2>2, <1>8
  <2>3. CASE expiresAt[bearer[r]] <= now \div Second
    BY <2>1, <2>3, <1>3, <1>5, <1>6
  <2>4. QED BY <1>10, <2>2, <2>3 DEF TokenInv
<1>11. TokenOnce' /\ \A r \in Requests : Took(r)' <=> Took(r)
  BY <1>1 DEF TokenInv, TokenOnce, Took
<1>12. QED BY <1>1, <1>9, <1>10, <1>11 DEF TokenInv

LEMMA TokenStep == TokenInv /\ [Next]_vars => TokenInv'
<1> SUFFICES ASSUME TokenInv, [Next]_vars PROVE TokenInv'
  OBVIOUS
<1>1. TypeOK'
  BY TypeStep DEF TokenInv
<1>2. ASSUME NEW r \in Requests,
             \/ Begin(r) \/ ZRem(r) \/ ZAdd(r) \/ ZCard(r) \/ ZExpire(r)
             \/ Exec(r) \/ AllowFails(r)
      PROVE  TokenInv'
  <2>1. UNCHANGED <<now, issue, expiresAt, bearer, late, nonce>>
    BY <1>2 DEF Begin, ZRem, ZAdd, ZCard, ZExpire, Exec, AllowFails, Command, tokenVars, authVars
  <2>2. \A q \in Requests : pc'[q] # pc[q] => Took(q)
    BY <1>2 DEF Begin, ZRem, ZAdd, ZCard, ZExpire, Exec, AllowFails, Command, Goto, authVars,
                Took, TokenInv, TypeOK
  <2>3. QED BY <1>1, <2>1, <2>2, TokenFrame
<1>3. CASE UNCHANGED vars
  BY <1>1, <1>3, TokenFrame DEF vars, tokenVars, authVars
<1>4. QED BY <1>2, <1>3, TokenCalls, TokenAuth, TokenTick
          DEF Next, Refused, NotListed, Unauthorized, NoDomain

\* One request takes a token, unless another stored its nonce too late.
THEOREM TokensTakenOnce == Spec => []TokenOnce
<1>1. Spec => []TokenInv
  BY TokenInit, TokenStep, PTL DEF Spec
<1>2. TokenInv => TokenOnce
  BY DEF TokenInv
<1>3. QED BY <1>1, <1>2, PTL

-----------------------------------------------------------------------------
(* Tokens a minute. *)

\* Calls that were within the bound, and still are of the last minute.
Paid == {i \in Issues \ uncounted :
            issue[i] = "under" \/ (issue[i] \in {"paid", "issued"} /\ Recent(paidAt[i]))}

CountInv ==
    /\ TypeOK
    /\ Paid \subseteq counted /\ Cardinality(Paid) <= MaxTokens
    /\ \A i \in Issues : paidAt[i] <= now
    /\ \A i \in counted : issue[i] \in {"paid", "issued"}
                           => countTTL # Never /\ countTTL >= paidAt[i] + Minute

LEMMA SmallerSet ==
    ASSUME NEW S, NEW T, IsFiniteSet(T), S \subseteq T, NEW n \in Nat, Cardinality(T) <= n
    PROVE  Cardinality(S) <= n
  BY FS_Subset, FS_CardinalityType

LEMMA PaidFinite == \A S : S \subseteq Issues => IsFiniteSet(S)
  BY FS_Subset, GateAssumption

LEMMA CountInit == Init => CountInv
<1> SUFFICES ASSUME Init PROVE CountInv
  OBVIOUS
<1>1. Paid = {}
  BY DEF Paid, Init
<1>2. Cardinality(Paid) = 0
  BY <1>1, FS_EmptySet
<1>3. QED BY <1>1, <1>2, InitType, GateAssumption DEF CountInv, Init

LEMMA CountCalls ==
    ASSUME CountInv, NEW i \in Issues,
           Incr(i) \/ IncrFails(i) \/ Expire(i) \/ ExpireFails(i) \/ Sign(i)
    PROVE  CountInv'
<1>1. TypeOK' /\ TypeOK /\ UNCHANGED <<now, uncounted>>
  BY TokenTypes DEF CountInv, Incr, IncrFails, Expire, ExpireFails, Sign, OnlyTokens
<1>2. now \in Nat /\ Minute \in Nat \ {0}
  BY <1>1, GateAssumption DEF TypeOK, Time
<1>3. \A j \in Issues \ {i} : issue'[j] = issue[j] /\ paidAt'[j] = paidAt[j]
  BY <1>1 DEF Incr, IncrFails, Expire, ExpireFails, Sign, Call, TypeOK
<1>4. \A j \in Issues : paidAt'[j] <= now'
  BY <1>1, <1>2 DEF Incr, IncrFails, Expire, ExpireFails, Sign, CountInv, TypeOK
<1>5. CASE Incr(i)
  <2>1. counted' = counted \cup {i} /\ UNCHANGED <<paidAt, countTTL>> /\ issue[i] = "idle"
    BY <1>5 DEF Incr, Call
  <2>2. issue'[i] = IF Cardinality(counted') <= MaxTokens THEN "under" ELSE "over"
    BY <1>1, <1>5 DEF Incr, Call, TypeOK
  <2>3. Paid' \subseteq Paid \cup {i}
    BY <1>1, <1>3, <2>1 DEF Paid, Recent
  <2>4. Paid' \subseteq counted'
    BY <2>1, <2>3 DEF CountInv
  <2>5. Cardinality(Paid') <= MaxTokens
    <3>1. CASE Cardinality(counted') <= MaxTokens
      BY <1>1, <2>4, <3>1, SmallerSet, PaidFinite, GateAssumption DEF TypeOK
    <3>2. CASE ~(Cardinality(counted') <= MaxTokens)
      <4>1. i \notin Paid'
        BY <2>2, <3>2 DEF Paid
      <4>2. Paid' \subseteq Paid
        BY <2>3, <4>1
      <4>3. QED BY <4>2, SmallerSet, PaidFinite, GateAssumption DEF CountInv, Paid
    <3>3. QED BY <3>1, <3>2
  <2>6. ASSUME NEW j \in counted', issue'[j] \in {"paid", "issued"}
        PROVE  countTTL' # Never /\ countTTL' >= paidAt'[j] + Minute
    <3>1. j \in counted /\ j # i
      BY <2>1, <2>2, <2>6
    <3>2. issue[j] \in {"paid", "issued"}
      BY <1>1, <1>3, <2>6, <3>1 DEF TypeOK
    <3>3. QED BY <2>1, <3>1, <3>2 DEF CountInv
  <2>7. QED BY <1>1, <1>4, <2>4, <2>5, <2>6 DEF CountInv
<1>6. CASE Expire(i)
  <2>1. UNCHANGED counted /\ paidAt'[i] = now /\ countTTL' = CountExpiry
    BY <1>1, <1>6 DEF Expire, TypeOK
  <2>2. Paid' \subseteq Paid
    BY <1>1, <1>3, <1>6 DEF Expire, Call, Paid, Recent, TypeOK
  <2>3. Paid' \subseteq counted' /\ Cardinality(Paid') <= MaxTokens
    BY <2>1, <2>2, SmallerSet, PaidFinite, GateAssumption DEF CountInv, Paid
  <2>4. \A j \in counted : countTTL' = now + Minute /\ countTTL' # Never
    BY <1>2, <2>1 DEF CountExpiry, Never
  <2>5. \A j \in Issues : paidAt'[j] <= now /\ paidAt'[j] \in Nat
    BY <1>1, <1>4 DEF TypeOK, Time
  <2>6. \A j \in counted' : countTTL' # Never /\ countTTL' >= paidAt'[j] + Minute
    BY <1>1, <1>2, <2>1, <2>4, <2>5 DEF TypeOK
  <2>7. QED BY <1>1, <1>4, <2>3, <2>6 DEF CountInv
<1>7. CASE IncrFails(i) \/ ExpireFails(i) \/ Sign(i)
  <2>1. UNCHANGED paidAt /\ counted \subseteq counted'
    BY <1>7 DEF IncrFails, ExpireFails, Sign
  <2>2. issue'[i] = "error" \/ (issue[i] = "paid" /\ issue'[i] = "issued" /\ UNCHANGED <<counted, countTTL>>)
    BY <1>1, <1>7 DEF IncrFails, ExpireFails, Sign, Call, TypeOK
  <2>3. Paid' \subseteq Paid
    BY <1>1, <1>3, <2>1, <2>2 DEF Paid, Recent
  <2>4. Paid' \subseteq counted' /\ Cardinality(Paid') <= MaxTokens
    BY <2>1, <2>3, SmallerSet, PaidFinite, GateAssumption DEF CountInv, Paid
  <2>5. counted' \subseteq counted \cup {i}
    BY <1>7 DEF IncrFails, ExpireFails, Sign
  <2>6. countTTL' = countTTL \/ (counted # {} /\ countTTL' = now + Minute)
    BY <1>7 DEF IncrFails, ExpireFails, Sign, CountExpiry
  <2>7. ASSUME NEW j \in counted', issue'[j] \in {"paid", "issued"}
        PROVE  countTTL' # Never /\ countTTL' >= paidAt'[j] + Minute
    <3>1. j \in counted /\ issue[j] \in {"paid", "issued"} /\ j \in Issues
      BY <1>1, <1>3, <2>2, <2>5, <2>7 DEF TypeOK
    <3>2. paidAt[j] \in Nat /\ paidAt[j] <= now
      BY <1>1, <3>1 DEF CountInv, TypeOK, Time
    <3>3. QED BY <1>2, <2>1, <2>6, <3>1, <3>2 DEF CountInv, Never
  <2>8. QED BY <1>1, <1>4, <2>4, <2>7 DEF CountInv
<1>8. QED BY <1>5, <1>6, <1>7

LEMMA CountTick == ASSUME CountInv, Tick PROVE CountInv'
<1>1. TypeOK' /\ TypeOK /\ UNCHANGED <<issue, paidAt>>
  BY TickTypes DEF CountInv, Tick
<1>2. now' = now + 1 /\ now \in Nat /\ Minute \in Nat \ {0}
      /\ \A i \in Issues : paidAt[i] \in Nat
  BY <1>1, GateAssumption DEF Tick, TypeOK, Time
<1>3. uncounted \subseteq uncounted'
  BY DEF Tick, DropCount
<1>4. Paid' \subseteq Paid
  BY <1>1, <1>2, <1>3 DEF Paid, Recent
<1>5. Cardinality(Paid') <= MaxTokens
  BY <1>4, SmallerSet, PaidFinite, GateAssumption DEF CountInv, Paid
<1>6. \A i \in Issues : paidAt'[i] <= now'
  BY <1>1, <1>2 DEF CountInv
<1>7. CASE ~Gone(countTTL)
  <2>1. UNCHANGED <<counted, countTTL>>
    BY <1>7 DEF Tick, DropCount
  <2>2. QED BY <1>1, <1>4, <1>5, <1>6, <2>1 DEF CountInv
<1>8. CASE Gone(countTTL)
  <2>1. counted' = {} /\ uncounted' = uncounted \cup {i \in counted : issue[i] = "under"}
    BY <1>8 DEF Tick, DropCount
  <2>2. ASSUME NEW i \in Paid' PROVE FALSE
    <3>1. i \in Paid /\ i \in counted /\ i \in Issues
      BY <1>4, <2>2 DEF CountInv, Paid
    <3>2. issue[i] # "under" /\ issue[i] \in {"paid", "issued"} /\ paidAt[i] > now + 1 - Minute
      BY <1>1, <1>2, <2>1, <2>2, <3>1 DEF Paid, Recent
    <3>3. countTTL >= paidAt[i] + Minute /\ countTTL <= now + 1 /\ countTTL \in Nat
      BY <1>1, <1>8, <3>1, <3>2 DEF CountInv, Gone, TypeOK
    <3>4. QED BY <1>2, <3>1, <3>2, <3>3
  <2>3. QED BY <1>1, <1>5, <1>6, <2>1, <2>2 DEF CountInv
<1>9. QED BY <1>7, <1>8

LEMMA CountStep == CountInv /\ [Next]_vars => CountInv'
<1> SUFFICES ASSUME CountInv, [Next]_vars PROVE CountInv'
  OBVIOUS
<1>1. TypeOK'
  BY TypeStep DEF CountInv
<1>2. ASSUME UNCHANGED <<now, tokenVars>> PROVE CountInv'
  BY <1>1, <1>2 DEF CountInv, Paid, Recent, tokenVars
<1>3. ASSUME NEW r \in Requests,
             \/ Refused(r) \/ SetNonce(r) \/ NonceFails(r)
             \/ \E i \in Issues : ParseToken(r, i)
             \/ Begin(r) \/ ZRem(r) \/ ZAdd(r) \/ ZCard(r) \/ ZExpire(r)
             \/ Exec(r) \/ AllowFails(r)
      PROVE  UNCHANGED <<now, tokenVars>>
  BY <1>3 DEF Refused, Refuse, SetNonce, NonceFails, ParseToken, OnlyAuth,
              Begin, ZRem, ZAdd, ZCard, ZExpire, Exec, AllowFails, Command
<1>4. QED BY <1>2, <1>3, CountCalls, CountTick
          DEF Next, vars, Refused, NotListed, Unauthorized, NoDomain

\* At most MaxTokens tokens are paid for in a minute.
THEOREM TokensBounded == Spec => []TokenBound
<1>1. Spec => []CountInv
  BY CountInit, CountStep, PTL DEF Spec
<1>2. ASSUME CountInv PROVE TokenBound
  <2> DEFINE S == {i \in Issues \ uncounted : issue[i] \in {"paid", "issued"} /\ Recent(paidAt[i])}
  <2>1. S \subseteq Paid
    BY DEF Paid
  <2>2. Cardinality(S) <= MaxTokens
    BY <1>2, <2>1, SmallerSet, PaidFinite, GateAssumption DEF CountInv, Paid
  <2>3. QED BY <2>2 DEF TokenBound
<1>3. QED BY <1>1, <1>2, PTL

-----------------------------------------------------------------------------
(* Requests of a window. *)

\* Requests that found room, and still are of the last window.
Found == {r \in Requests \ forgotten : cmd[r] >= 3 /\ within[r] /\ stamp[r] > now - Window}

WindowInv ==
    /\ TypeOK
    /\ Found \subseteq zset /\ Cardinality(Found) <= Limit
    /\ \A r \in Requests :
        /\ stamp[r] <= now
        /\ pc[r] \in {"idle", "parsed", "fresh"} => cmd[r] = 0
        /\ pc[r] = "admitted" => cmd[r] = 4 /\ within[r]
        /\ cmd[r] = 2 => r \in zset \cup forgotten \/ stamp[r] <= now - Window
    /\ \A r \in zset : cmd[r] = 4 => zsetTTL # Never /\ zsetTTL >= stamp[r] + 2 * Window

LEMMA FoundFinite == \A S : S \subseteq Requests => IsFiniteSet(S)
  BY FS_Subset, GateAssumption

LEMMA WindowInit == Init => WindowInv
<1> SUFFICES ASSUME Init PROVE WindowInv
  OBVIOUS
<1>1. Found = {}
  BY DEF Found, Init
<1>2. Cardinality(Found) = 0
  BY <1>1, FS_EmptySet
<1>3. QED BY <1>1, <1>2, InitType, GateAssumption DEF WindowInv, Init

\* What a step outside the pipeline does to r.
Answered(r) ==
    \/ pc'[r] = pc[r]
    \/ pc[r] \in {"idle", "parsed", "fresh"} /\ pc'[r] # "admitted"
    \/ pc[r] = "asked" /\ pc'[r] \in {"limited", "waved"}
    \/ pc[r] = "asked" /\ pc'[r] = "admitted" /\ cmd[r] = 4 /\ within[r]

LEMMA WindowFrame ==
    ASSUME WindowInv, TypeOK', UNCHANGED <<now, limitVars>>,
           \A r \in Requests : Answered(r)
    PROVE  WindowInv'
<1>1. UNCHANGED <<stamp, cmd, within, zset, zsetTTL, forgotten>>
  BY DEF limitVars
<1>2. Found' = Found
  BY <1>1 DEF Found
<1>3. \A r \in Requests :
        /\ pc'[r] \in {"idle", "parsed", "fresh"} => cmd'[r] = 0
        /\ pc'[r] = "admitted" => cmd'[r] = 4 /\ within'[r]
  BY <1>1 DEF WindowInv, Answered
<1>4. QED BY <1>1, <1>2, <1>3 DEF WindowInv

LEMMA WindowOutside ==
    ASSUME WindowInv, TypeOK', NEW r \in Requests,
           \/ Refused(r) \/ SetNonce(r) \/ NonceFails(r)
           \/ \E i \in Issues : ParseToken(r, i)
           \/ Exec(r) \/ AllowFails(r)
    PROVE  WindowInv'
<1>1. UNCHANGED <<now, limitVars>>
  BY DEF Refused, Refuse, SetNonce, NonceFails, ParseToken, Exec, AllowFails, OnlyAuth
<1>2. \A q \in Requests \ {r} : pc'[q] = pc[q]
  BY DEF Refused, Refuse, SetNonce, NonceFails, ParseToken, Exec, AllowFails, Goto, WindowInv, TypeOK
<1>3. Answered(r)
  <2>1. CASE Exec(r)
    BY <2>1 DEF Exec, Goto, WindowInv, TypeOK, Answered
  <2>2. CASE AllowFails(r)
    BY <2>2 DEF AllowFails, Goto, WindowInv, TypeOK, Answered
  <2>3. CASE Refused(r) \/ SetNonce(r) \/ NonceFails(r) \/ \E i \in Issues : ParseToken(r, i)
    BY <2>3 DEF Refused, Refuse, SetNonce, NonceFails, ParseToken, Goto, WindowInv, TypeOK, Answered
  <2>4. QED BY <2>1, <2>2, <2>3
<1>4. \A q \in Requests : Answered(q)
  BY <1>2, <1>3 DEF Answered
<1>5. QED BY <1>1, <1>4, WindowFrame

LEMMA WindowBegin == ASSUME WindowInv, TypeOK', NEW r \in Requests, Begin(r) PROVE WindowInv'
<1>1. UNCHANGED <<now, cmd, within, zset, zsetTTL, forgotten>> /\ pc[r] = "fresh" /\ pc'[r] = "asked"
      /\ stamp'[r] = now
  BY DEF Begin, Goto, WindowInv, TypeOK
<1>2. \A q \in Requests \ {r} : pc'[q] = pc[q] /\ stamp'[q] = stamp[q]
  BY DEF Begin, Goto, WindowInv, TypeOK
<1>3. cmd[r] = 0 /\ now \in Nat
  BY <1>1 DEF WindowInv, TypeOK, Time
<1>4. Found' = Found
  BY <1>1, <1>2, <1>3 DEF Found
<1>5. \A q \in Requests : stamp'[q] <= now
  BY <1>1, <1>2, <1>3 DEF WindowInv
<1>6. \A q \in zset : cmd[q] = 4 => zsetTTL # Never /\ zsetTTL >= stamp'[q] + 2 * Window
  BY <1>2, <1>3 DEF WindowInv, TypeOK
<1>7. \A q \in Requests :
        /\ pc'[q] \in {"idle", "parsed", "fresh"} => cmd[q] = 0
        /\ pc'[q] = "admitted" => cmd[q] = 4 /\ within[q]
  BY <1>1, <1>2 DEF WindowInv
<1>8. \A q \in Requests : cmd[q] = 2 => q \in zset \cup forgotten \/ stamp'[q] <= now - Window
  BY <1>2, <1>3 DEF WindowInv
<1>9. QED BY <1>1, <1>4, <1>5, <1>6, <1>7, <1>8 DEF WindowInv

LEMMA WindowCommand ==
    ASSUME WindowInv, TypeOK', NEW r \in Requests,
           ZRem(r) \/ ZAdd(r) \/ ZCard(r) \/ ZExpire(r)
    PROVE  WindowInv'
<1>1. UNCHANGED <<now, pc, stamp, forgotten>> /\ pc[r] \in {"asked", "waved"} /\ cmd[r] < 4
  BY DEF ZRem, ZAdd, ZCard, ZExpire, Command, authVars, WindowInv, TypeOK
<1>2. now \in Nat /\ Window \in Nat \ {0} /\ Limit \in Nat /\ \A q \in Requests : stamp[q] \in Nat /\ stamp[q] <= now
  BY GateAssumption DEF WindowInv, TypeOK, Time
<1>3. \A q \in Requests \ {r} : cmd'[q] = cmd[q] /\ within'[q] = within[q]
  BY DEF ZRem, ZAdd, ZCard, ZExpire, Command, WindowInv, TypeOK
<1>4. \A q \in Requests :
        /\ pc'[q] \in {"idle", "parsed", "fresh"} => cmd'[q] = 0
        /\ pc'[q] = "admitted" => cmd'[q] = 4 /\ within'[q]
  BY <1>1, <1>3 DEF WindowInv
<1>9. ASSUME NEW q \in Requests, cmd'[q] = 2, ~ZRem(r)
      PROVE  q \in zset' \cup forgotten' \/ stamp'[q] <= now' - Window
  <2>1. zset \subseteq zset' /\ (q = r => q \in zset')
    BY <1>9 DEF ZAdd, ZCard, ZExpire, Command, WindowInv, TypeOK
  <2>2. q # r => cmd[q] = 2
    BY <1>3, <1>9
  <2>3. QED BY <1>1, <2>1, <2>2 DEF WindowInv
<1>5. CASE ZRem(r)
  <2>1. cmd[r] = 0 /\ cmd'[r] = 1 /\ UNCHANGED within
    BY <1>5 DEF ZRem, Command, WindowInv, TypeOK
  <2>2. zset' = {q \in zset : stamp[q] > stamp[r] - Window} /\ zsetTTL' = IF zset' = {} THEN Never ELSE zsetTTL
    BY <1>5 DEF ZRem
  <2>3. Found' = Found
    BY <1>1, <1>3, <2>1 DEF Found
  <2>4. ASSUME NEW q \in Found PROVE q \in zset'
    <3>1. q \in zset /\ q \in Requests /\ stamp[q] > now - Window
      BY <2>4 DEF WindowInv, Found
    <3>2. stamp[q] > stamp[r] - Window
      BY <1>2, <3>1
    <3>3. QED BY <2>2, <3>1, <3>2
  <2>5. \A q \in zset' : cmd'[q] = 4 => zsetTTL' # Never /\ zsetTTL' >= stamp'[q] + 2 * Window
    BY <1>1, <1>3, <2>1, <2>2 DEF WindowInv, TypeOK
  <2>6. ASSUME NEW q \in Requests, cmd'[q] = 2
        PROVE  q \in zset' \cup forgotten \/ stamp[q] <= now - Window
    <3>1. cmd[q] = 2
      BY <1>3, <2>1, <2>6
    <3>2. CASE q \in zset /\ q \notin zset'
      BY <1>2, <2>2, <3>2
    <3>3. QED BY <3>1, <3>2 DEF WindowInv
  <2>7. QED BY <1>1, <1>2, <1>4, <2>3, <2>4, <2>5, <2>6 DEF WindowInv
<1>6. CASE ZAdd(r)
  <2>0. ~ZRem(r)
    BY <1>6 DEF ZAdd, ZRem, Command
  <2>1. cmd[r] = 1 /\ cmd'[r] = 2 /\ UNCHANGED <<within, zsetTTL>> /\ zset' = zset \cup {r}
    BY <1>6 DEF ZAdd, Command, WindowInv, TypeOK
  <2>2. Found' = Found
    BY <1>1, <1>3, <2>1 DEF Found
  <2>3. \A q \in zset' : cmd'[q] = 4 => zsetTTL' # Never /\ zsetTTL' >= stamp'[q] + 2 * Window
    BY <1>1, <1>3, <2>1 DEF WindowInv, TypeOK
  <2>4. QED BY <1>1, <1>2, <1>4, <1>9, <2>1, <2>2, <2>3, <2>0 DEF WindowInv
<1>7. CASE ZCard(r)
  <2>0. ~ZRem(r)
    BY <1>7 DEF ZCard, ZRem, Command
  <2>1. cmd[r] = 2 /\ cmd'[r] = 3 /\ UNCHANGED <<zset, zsetTTL>> /\ within'[r] = (Cardinality(zset) <= Limit)
    BY <1>7 DEF ZCard, Command, WindowInv, TypeOK
  <2>2. Found' \subseteq Found \cup {r}
    BY <1>1, <1>3 DEF Found
  <2>3. Cardinality(Found') <= Limit /\ Found' \subseteq zset'
    <3>1. CASE Cardinality(zset) <= Limit /\ r \in zset
      <4>1. Found' \subseteq zset
        BY <2>2, <3>1 DEF WindowInv
      <4>2. QED BY <1>2, <2>1, <3>1, <4>1, SmallerSet, FoundFinite DEF WindowInv, TypeOK
    <3>2. CASE ~(Cardinality(zset) <= Limit)
      <4>1. Found' \subseteq Found
        BY <2>1, <2>2, <3>2 DEF Found
      <4>2. QED BY <1>2, <2>1, <4>1, SmallerSet, FoundFinite DEF WindowInv, Found
    <3>3. CASE r \notin zset
      <4>1. r \notin Found'
        BY <1>1, <1>2, <2>1, <3>3 DEF WindowInv, Found
      <4>2. Found' \subseteq Found
        BY <2>2, <4>1
      <4>3. QED BY <1>2, <2>1, <4>2, SmallerSet, FoundFinite DEF WindowInv, Found
    <3>4. QED BY <3>1, <3>2, <3>3
  <2>4. \A q \in zset' : cmd'[q] = 4 => zsetTTL' # Never /\ zsetTTL' >= stamp'[q] + 2 * Window
    BY <1>1, <1>3, <2>1 DEF WindowInv, TypeOK
  <2>5. QED BY <1>1, <1>2, <1>4, <1>9, <2>3, <2>4, <2>0 DEF WindowInv
<1>8. CASE ZExpire(r)
  <2>0. ~ZRem(r)
    BY <1>8 DEF ZExpire, ZRem, Command
  <2>1. cmd[r] = 3 /\ cmd'[r] = 4 /\ UNCHANGED <<zset, within>>
        /\ zsetTTL' = IF zset = {} THEN zsetTTL ELSE now + 2 * Window
    BY <1>8 DEF ZExpire, Command, WindowInv, TypeOK
  <2>2. Found' = Found
    BY <1>1, <1>3, <2>1 DEF Found
  <2>3. \A q \in zset' : zsetTTL' # Never /\ zsetTTL' >= stamp'[q] + 2 * Window
    BY <1>1, <1>2, <2>1 DEF WindowInv, TypeOK, Never
  <2>4. QED BY <1>1, <1>2, <1>4, <1>9, <2>1, <2>2, <2>3, <2>0 DEF WindowInv
<1>10. QED BY <1>5, <1>6, <1>7, <1>8

LEMMA WindowTick == ASSUME WindowInv, Tick PROVE WindowInv'
<1>1. TypeOK' /\ TypeOK /\ UNCHANGED <<pc, stamp, cmd, within>>
  BY TickTypes DEF WindowInv, Tick
<1>2. now' = now + 1 /\ now \in Nat /\ Window \in Nat \ {0} /\ Limit \in Nat
      /\ \A r \in Requests : stamp[r] \in Nat
  BY <1>1, GateAssumption DEF Tick, TypeOK, Time
<1>3. forgotten \subseteq forgotten'
  BY DEF Tick, DropZset
<1>4. Found' \subseteq Found
  BY <1>1, <1>2, <1>3 DEF Found
<1>5. Cardinality(Found') <= Limit
  BY <1>2, <1>4, SmallerSet, FoundFinite DEF WindowInv, Found
<1>6. \A r \in Requests :
        /\ stamp'[r] <= now'
        /\ pc'[r] \in {"idle", "parsed", "fresh"} => cmd'[r] = 0
        /\ pc'[r] = "admitted" => cmd'[r] = 4 /\ within'[r]
  BY <1>1, <1>2 DEF WindowInv
<1>7. CASE ~Gone(zsetTTL)
  <2>1. UNCHANGED <<zset, zsetTTL, forgotten>>
    BY <1>7 DEF Tick, DropZset
  <2>2. \A r \in Requests : cmd'[r] = 2 => r \in zset' \cup forgotten' \/ stamp'[r] <= now' - Window
    BY <1>1, <1>2, <2>1 DEF WindowInv
  <2>3. QED BY <1>1, <1>4, <1>5, <1>6, <2>1, <2>2 DEF WindowInv
<1>8. CASE Gone(zsetTTL)
  <2>1. zset' = {} /\ forgotten' = forgotten \cup {r \in zset : cmd[r] < 4}
    BY <1>8 DEF Tick, DropZset
  <2>2. ASSUME NEW r \in Found' PROVE FALSE
    <3>1. r \in Found /\ r \in zset /\ r \in Requests /\ r \notin forgotten'
      BY <1>4, <2>2 DEF WindowInv, Found
    <3>2. cmd[r] = 4
      BY <1>1, <2>1, <3>1 DEF TypeOK
    <3>3. stamp[r] > now + 1 - Window
      BY <1>1, <1>2, <2>2 DEF Found
    <3>4. zsetTTL >= stamp[r] + 2 * Window /\ zsetTTL <= now + 1 /\ zsetTTL \in Nat
      BY <1>1, <1>8, <3>1, <3>2 DEF WindowInv, Gone, TypeOK
    <3>5. QED BY <1>2, <3>1, <3>3, <3>4
  <2>3. \A r \in Requests : cmd'[r] = 2 => r \in zset' \cup forgotten' \/ stamp'[r] <= now' - Window
    BY <1>1, <1>2, <2>1 DEF WindowInv
  <2>4. QED BY <1>1, <1>5, <1>6, <2>1, <2>2, <2>3 DEF WindowInv
<1>9. QED BY <1>7, <1>8

LEMMA WindowStep == WindowInv /\ [Next]_vars => WindowInv'
<1> SUFFICES ASSUME WindowInv, [Next]_vars PROVE WindowInv'
  OBVIOUS
<1>1. TypeOK'
  BY TypeStep DEF WindowInv
<1>2. ASSUME UNCHANGED <<now, pc, limitVars>> PROVE WindowInv'
  <2>1. \A q \in Requests : Answered(q)
    BY <1>2 DEF Answered
  <2>2. QED BY <1>1, <1>2, <2>1, WindowFrame
<1>3. ASSUME NEW i \in Issues,
             Incr(i) \/ IncrFails(i) \/ Expire(i) \/ ExpireFails(i) \/ Sign(i)
      PROVE  UNCHANGED <<now, pc, limitVars>>
  BY <1>3 DEF Incr, IncrFails, Expire, ExpireFails, Sign, OnlyTokens, authVars
<1>4. QED BY <1>1, <1>2, <1>3, WindowOutside, WindowBegin, WindowCommand, WindowTick
          DEF Next, vars, authVars, Refused, NotListed, Unauthorized, NoDomain

\* Allow lets at most Limit requests of a window in.
THEOREM RequestsBounded == Spec => []WindowBound
<1>1. Spec => []WindowInv
  BY WindowInit, WindowStep, PTL DEF Spec
<1>2. ASSUME WindowInv PROVE WindowBound
  <2> DEFINE S == {r \in Requests \ forgotten : pc[r] = "admitted" /\ stamp[r] > now - Window}
  <2>1. S \subseteq Found
    BY <1>2 DEF WindowInv, Found
  <2>2. Cardinality(S) <= Limit
    BY <1>2, <2>1, SmallerSet, FoundFinite, GateAssumption DEF WindowInv, Found
  <2>3. QED BY <2>2 DEF WindowBound
<1>3. QED BY <1>1, <1>2, PTL
=============================================================================
