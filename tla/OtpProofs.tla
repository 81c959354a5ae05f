----------------------------- MODULE OtpProofs -----------------------------
(***************************************************************************)
(* What the OTP service and the limit in front of it guarantee: OtpService *)
(* for any number of concurrent requests, any lifetime and any attempt     *)
(* limit; OtpRateLimit for any number of phones and of concurrent calls,   *)
(* any limit and any window.  The two share no variable, and each theorem  *)
(* is about one of them.                                                   *)
(***************************************************************************)
EXTENDS OtpService, OtpRateLimit, FiniteSetTheorems, TLAPS

(***************************************************************************)
(* Requests on their way to GET: those counted for the newest code, and    *)
(* those counted for an earlier one.                                       *)
(***************************************************************************)
Own == {r \in Requests : pc[r] \in Waiting /\ since[r] = issued}
Late == {r \in Requests : pc[r] \in Waiting /\ since[r] # issued}

(***************************************************************************)
(* The code in Redis is the newest one and, while it lives, its counter    *)
(* lives at least as long.                                                 *)
(***************************************************************************)
LifetimeInv ==
    /\ code # NoCode => code = issued /\ codeTtl >= 1
    /\ code # NoCode /\ attemptsTtl # NoExpiry => attemptsTtl >= codeTtl

(***************************************************************************)
(* What the locals of a request in progress are.                           *)
(***************************************************************************)
LocalInv ==
    \A r \in Requests : /\ since[r] <= issued
                        /\ pc[r] = "expire" => mine[r] = 1

(***************************************************************************)
(* The comparisons made plus those still to come are covered by the        *)
(* counter, which only exists while the code does.                         *)
(***************************************************************************)
CountInv ==
    /\ code # NoCode => /\ compared + Cardinality(Own) <= attempts
                        /\ compared + Cardinality(Own) <= OTP_MAX_ATTEMPTS
    /\ comparedLate + Cardinality(Late) <= carried

IInv ==
    /\ TypeOK /\ LifetimeInv /\ LocalInv /\ CountInv
    /\ BoundedGuesses /\ OverLimitIsBurned

-----------------------------------------------------------------------------
(***************************************************************************)
(* The initial state has the right types.                                  *)
(***************************************************************************)
LEMMA TypeInit == Init => TypeOK
<1> USE TtlAssumption, MaxAttemptsAssumption, BoundsAssumption, RequestsAssumption
        DEF NoCode, NoExpiry, Codes, Steps
<1> SUFFICES ASSUME Init PROVE TypeOK
  OBVIOUS
<1> USE DEF Init
<1>1. code \in 0 .. MaxIssues /\ codeTtl \in 0 .. OTP_TTL_SECONDS
  OBVIOUS
<1>2. attempts \in 0 .. MaxCounter /\ attemptsTtl \in {NoExpiry} \cup 0 .. OTP_TTL_SECONDS
  OBVIOUS
<1>3. pc \in [Requests -> Steps] /\ mine \in [Requests -> 0 .. MaxCounter]
  OBVIOUS
<1>4. submitted \in [Requests -> 0 .. MaxIssues] /\ since \in [Requests -> 0 .. MaxIssues]
  OBVIOUS
<1>5. accepted \in [Codes -> Nat] /\ overlapped \subseteq Codes
  OBVIOUS
<1>6. issued \in 0 .. MaxIssues
  OBVIOUS
<1>7. lost \in BOOLEAN
  BY Zenon
<1>8. compared \in Nat /\ comparedLate \in Nat /\ carried \in Nat
  OBVIOUS
<1> QED BY <1>1, <1>2, <1>3, <1>4, <1>5, <1>6, <1>7, <1>8 DEF TypeOK

(***************************************************************************)
(* Every step keeps every variable in its type.                            *)
(***************************************************************************)
LEMMA TypeStep == TypeOK /\ [Next]_vars => TypeOK'
<1> USE TtlAssumption, MaxAttemptsAssumption, BoundsAssumption, RequestsAssumption
        DEF NoCode, NoExpiry, Codes, Steps, acceptVars
<1> SUFFICES ASSUME TypeOK, [Next]_vars PROVE TypeOK'
  OBVIOUS
<1> USE DEF TypeOK
<1>1. CASE issue
  <2>1. Cardinality({r \in Requests : pc[r] \in Waiting}) \in Nat
    <3>1. IsFiniteSet({r \in Requests : pc[r] \in Waiting})
      BY FS_Subset
    <3> QED BY <3>1, FS_CardinalityType
  <2> QED BY <1>1, <2>1 DEF issue, requestVars
<1>2. CASE Tick
  BY <1>2 DEF Tick, requestVars, historyVars
<1>3. ASSUME NEW r \in Requests, VerifyIncr(r) PROVE TypeOK'
  BY <1>3 DEF VerifyIncr, AfterCount, historyVars
<1>4. ASSUME NEW r \in Requests, VerifyExpire(r) PROVE TypeOK'
  BY <1>4 DEF VerifyExpire, AfterCount, historyVars
<1>5. ASSUME NEW r \in Requests, VerifyBurn(r) PROVE TypeOK'
  BY <1>5 DEF VerifyBurn, Return, historyVars
<1>6. ASSUME NEW r \in Requests, VerifyGet(r) PROVE TypeOK'
  <2>1. /\ pc' \in [Requests -> Steps] /\ mine' \in [Requests -> 0 .. MaxCounter]
        /\ submitted' \in [Requests -> 0 .. MaxIssues]
        /\ since' \in [Requests -> 0 .. MaxIssues]
    <3>1. CASE code # NoCode /\ code = submitted[r]
      BY <1>6, <3>1 DEF VerifyGet
    <3>2. CASE ~(code # NoCode /\ code = submitted[r])
      <4>1. Return(r)
        BY <1>6, <3>2 DEF VerifyGet
      <4> QED BY <4>1 DEF Return
    <3> QED BY <3>1, <3>2
  <2>2. compared' \in Nat /\ comparedLate' \in Nat
    <3>1. CASE code = NoCode
      BY <1>6, <3>1 DEF VerifyGet
    <3>2. CASE code # NoCode /\ since[r] = issued
      BY <1>6, <3>2 DEF VerifyGet
    <3>3. CASE code # NoCode /\ since[r] # issued
      BY <1>6, <3>3 DEF VerifyGet
    <3> QED BY <3>1, <3>2, <3>3
  <2>3. overlapped' \subseteq Codes
    BY <1>6 DEF VerifyGet
  <2>4. UNCHANGED <<code, codeTtl, attempts, attemptsTtl, issued, carried, accepted, lost>>
    BY <1>6 DEF VerifyGet, redisVars
  <2> QED BY <2>1, <2>2, <2>3, <2>4
<1>7. ASSUME NEW r \in Requests, VerifyConsume(r) PROVE TypeOK'
  <2>1. accepted' \in [Codes -> Nat]
    <3>1. accepted' = [c \in Codes |-> IF c = submitted[r] THEN accepted[c] + 1 ELSE accepted[c]]
      BY <1>7 DEF VerifyConsume
    <3>2. \A c \in Codes : accepted[c] \in Nat /\ accepted[c] + 1 \in Nat
      OBVIOUS
    <3> QED BY <3>1, <3>2
  <2>2. /\ pc' \in [Requests -> Steps] /\ mine' \in [Requests -> 0 .. MaxCounter]
        /\ submitted' \in [Requests -> 0 .. MaxIssues]
        /\ since' \in [Requests -> 0 .. MaxIssues]
    BY <1>7 DEF VerifyConsume, Return
  <2> QED BY <1>7, <2>1, <2>2 DEF VerifyConsume
<1>8. ASSUME NEW r \in Requests, LoseRequest(r) PROVE TypeOK'
  BY <1>8 DEF LoseRequest, Return, redisVars
<1>9. CASE UNCHANGED vars
  BY <1>9 DEF vars, redisVars, requestVars, historyVars
<1> QED BY <1>1, <1>2, <1>3, <1>4, <1>5, <1>6, <1>7, <1>8, <1>9 DEF Next

(***************************************************************************)
(* Every variable keeps its type: the two TTLs stay in range, and each     *)
(* request is at one of its five commands.                                 *)
(***************************************************************************)
THEOREM TypeCorrect == Spec => []TypeOK
BY TypeInit, TypeStep, PTL DEF Spec

(***************************************************************************)
(* The sets of waiting requests are finite, so their sizes are numbers.    *)
(***************************************************************************)
LEMMA WaitingFinite ==
    /\ IsFiniteSet(Own) /\ Cardinality(Own) \in Nat
    /\ IsFiniteSet(Late) /\ Cardinality(Late) \in Nat
<1>1. Own \in SUBSET Requests /\ Late \in SUBSET Requests
  BY DEF Own, Late
<1>2. IsFiniteSet(Own) /\ IsFiniteSet(Late)
  BY <1>1, RequestsAssumption, FS_Subset
<1> QED BY <1>2, FS_CardinalityType

(***************************************************************************)
(* A step that ends request r, or moves it past GET, takes r and nothing   *)
(* else out of the waiting sets.                                           *)
(***************************************************************************)
LEMMA LeavesWaiting ==
    ASSUME NEW r \in Requests, TypeOK, issued' = issued,
           NEW p \in Steps \ Waiting,
           pc' = [pc EXCEPT ![r] = p],
           \A q \in Requests \ {r} : since'[q] = since[q]
    PROVE  Own' = Own \ {r} /\ Late' = Late \ {r}
BY DEF Own, Late, TypeOK, Steps, Waiting

(***************************************************************************)
(* The invariant holds initially.                                          *)
(***************************************************************************)
LEMMA IInvInit == Init => IInv
<1> SUFFICES ASSUME Init PROVE IInv
  OBVIOUS
<1> USE MaxAttemptsAssumption DEF Init, NoCode
<1>1. TypeOK
  BY TypeInit
<1>2. Late = {} /\ Cardinality(Late) = 0
  <2>1. Late = {}
    BY DEF Late, Waiting
  <2> QED BY <2>1, FS_EmptySet
<1>3. LifetimeInv /\ LocalInv
  BY DEF LifetimeInv, LocalInv
<1>4. CountInv
  BY <1>2 DEF CountInv
<1>5. BoundedGuesses /\ OverLimitIsBurned
  BY DEF BoundedGuesses, OverLimitIsBurned
<1> QED BY <1>1, <1>3, <1>4, <1>5 DEF IInv

(***************************************************************************)
(* Every step preserves the invariant: one step per action, then one per   *)
(* conjunct it can disturb.                                                *)
(***************************************************************************)
LEMMA IInvStep == IInv /\ [Next]_vars => IInv'
<1> SUFFICES ASSUME IInv, [Next]_vars PROVE IInv'
  OBVIOUS
<1> USE TtlAssumption, MaxAttemptsAssumption, BoundsAssumption, RequestsAssumption
        DEF NoCode, NoExpiry
<1>t. TypeOK /\ TypeOK'
  BY TypeStep DEF IInv
<1>i. LifetimeInv /\ LocalInv /\ CountInv /\ BoundedGuesses /\ OverLimitIsBurned
  BY DEF IInv
<1>f. /\ IsFiniteSet(Own) /\ Cardinality(Own) \in Nat
      /\ IsFiniteSet(Late) /\ Cardinality(Late) \in Nat
  BY WaitingFinite
<1>1. CASE issue
  <2>1. LifetimeInv' /\ LocalInv'
    BY <1>1, <1>t, <1>i DEF issue, requestVars, LifetimeInv, LocalInv, TypeOK
  <2>2. Own' = {} /\ Cardinality(Own') = 0
    <3>1. Own' = {}
      BY <1>1, <1>t, <1>i DEF issue, requestVars, LocalInv, TypeOK, Own
    <3> QED BY <3>1, FS_EmptySet
  <2>3. Late' = {r \in Requests : pc[r] \in Waiting}
    BY <1>1, <1>t, <1>i DEF issue, requestVars, LocalInv, TypeOK, Late
  <2>4. Cardinality(Late') = carried'
    BY <1>1, <2>3 DEF issue
  <2>5. CountInv' /\ BoundedGuesses'
    BY <1>1, <1>t, <2>2, <2>4 DEF issue, CountInv, BoundedGuesses, TypeOK
  <2>6. OverLimitIsBurned'
    BY <1>1 DEF issue, OverLimitIsBurned
  <2> QED BY <1>t, <2>1, <2>5, <2>6 DEF IInv
<1>2. CASE Tick
  <2>1. LifetimeInv' /\ LocalInv'
    BY <1>2, <1>t, <1>i DEF Tick, requestVars, LifetimeInv, LocalInv, TypeOK
  <2>2. Own' = Own /\ Late' = Late
    BY <1>2 DEF Tick, requestVars, Own, Late
  <2>3. code' # NoCode => code' = code /\ attempts' = attempts
    BY <1>2, <1>t, <1>i DEF Tick, LifetimeInv, TypeOK
  <2>4. CountInv' /\ BoundedGuesses'
    BY <1>2, <1>i, <2>2, <2>3 DEF Tick, historyVars, CountInv, BoundedGuesses
  <2>5. OverLimitIsBurned'
    BY <1>2, <1>i, <2>3 DEF Tick, requestVars, historyVars, OverLimitIsBurned
  <2> QED BY <1>t, <2>1, <2>4, <2>5 DEF IInv
<1>3. ASSUME NEW r \in Requests, VerifyIncr(r) PROVE IInv'
  <2>1. LifetimeInv' /\ LocalInv'
    BY <1>3, <1>t, <1>i DEF VerifyIncr, AfterCount, LifetimeInv, LocalInv, TypeOK
  <2>2. r \notin Own /\ Late' = Late
    BY <1>3, <1>t DEF VerifyIncr, Own, Late, Waiting, TypeOK
  <2>3. CASE attempts + 1 <= OTP_MAX_ATTEMPTS
    <3>1. Own' = Own \cup {r}
      BY <1>3, <1>t, <2>3 DEF VerifyIncr, AfterCount, Own, Waiting, TypeOK
    <3>2. Cardinality(Own') = Cardinality(Own) + 1
      BY <3>1, <2>2, <1>f, FS_AddElement
    <3>3. CountInv' /\ BoundedGuesses'
      BY <1>3, <1>t, <1>f, <1>i, <2>2, <2>3, <3>2
         DEF VerifyIncr, historyVars, CountInv, BoundedGuesses, TypeOK
    <3>4. OverLimitIsBurned'
      BY <1>3, <1>t, <2>3 DEF VerifyIncr, OverLimitIsBurned, TypeOK
    <3> QED BY <1>t, <2>1, <3>3, <3>4 DEF IInv
  <2>4. CASE attempts + 1 > OTP_MAX_ATTEMPTS
    <3>1. pc' = [pc EXCEPT ![r] = "burn"]
      <4>1. attempts + 1 # 1 /\ AfterCount(attempts + 1) = "burn"
        BY <1>t, <2>4 DEF AfterCount, TypeOK
      <4> QED BY <1>3, <4>1 DEF VerifyIncr
    <3>2. Own' = Own
      BY <1>3, <1>t, <2>2, <3>1 DEF VerifyIncr, Own, Waiting, TypeOK
    <3>3. CountInv' /\ BoundedGuesses'
      BY <1>3, <1>t, <1>f, <1>i, <2>2, <3>2
         DEF VerifyIncr, historyVars, CountInv, BoundedGuesses, TypeOK
    <3>4. pc'[r] = "burn"
      BY <3>1, <1>t DEF TypeOK
    <3>5. OverLimitIsBurned'
      BY <3>4 DEF OverLimitIsBurned
    <3> QED BY <1>t, <2>1, <3>3, <3>5 DEF IInv
  <2> QED BY <1>t, <2>3, <2>4 DEF TypeOK
<1>4. ASSUME NEW r \in Requests, VerifyExpire(r) PROVE IInv'
  <2>1. pc' = [pc EXCEPT ![r] = "get"]
    <3>1. AfterCount(mine[r]) = "get"
      BY <1>4, <1>i DEF VerifyExpire, AfterCount, LocalInv
    <3> QED BY <1>4, <3>1 DEF VerifyExpire
  <2>2. LifetimeInv' /\ LocalInv'
    BY <1>4, <1>t, <1>i, <2>1 DEF VerifyExpire, LifetimeInv, LocalInv, TypeOK
  <2>3. Own' = Own /\ Late' = Late
    BY <1>4, <1>t, <2>1 DEF VerifyExpire, Own, Late, Waiting, TypeOK
  <2>4. CountInv' /\ BoundedGuesses'
    BY <1>4, <1>i, <2>3 DEF VerifyExpire, historyVars, CountInv, BoundedGuesses
  <2>5. OverLimitIsBurned'
    BY <1>4, <1>t, <1>i, <2>1
       DEF VerifyExpire, historyVars, OverLimitIsBurned, TypeOK
  <2> QED BY <1>t, <2>2, <2>4, <2>5 DEF IInv
<1>5. ASSUME NEW r \in Requests, VerifyBurn(r) PROVE IInv'
  <2>1. LifetimeInv' /\ LocalInv'
    BY <1>5, <1>t, <1>i DEF VerifyBurn, Return, LifetimeInv, LocalInv, TypeOK
  <2>2. Late' = Late
    BY <1>5, <1>t DEF VerifyBurn, Return, Late, Waiting, TypeOK
  <2>3. CountInv' /\ BoundedGuesses' /\ OverLimitIsBurned'
    BY <1>5, <1>i, <2>2
       DEF VerifyBurn, historyVars, CountInv, BoundedGuesses, OverLimitIsBurned
  <2> QED BY <1>t, <2>1, <2>3 DEF IInv
<1>6. ASSUME NEW r \in Requests, VerifyGet(r) PROVE IInv'
  <2>1. PICK p \in {"consume", "idle"} : pc' = [pc EXCEPT ![r] = p]
    BY <1>6 DEF VerifyGet, Return
  <2>2. \A q \in Requests \ {r} : since'[q] = since[q] /\ mine'[q] = mine[q]
    <3>1. CASE code # NoCode /\ code = submitted[r]
      BY <1>6, <3>1 DEF VerifyGet
    <3>2. CASE ~(code # NoCode /\ code = submitted[r])
      <4>1. Return(r)
        BY <1>6, <3>2 DEF VerifyGet
      <4> QED BY <4>1, <1>t DEF Return, TypeOK
    <3> QED BY <3>1, <3>2
  <2>3. since'[r] \in {since[r], 0}
    <3>1. CASE code # NoCode /\ code = submitted[r]
      BY <1>6, <3>1 DEF VerifyGet
    <3>2. CASE ~(code # NoCode /\ code = submitted[r])
      <4>1. Return(r)
        BY <1>6, <3>2 DEF VerifyGet
      <4> QED BY <4>1, <1>t DEF Return, TypeOK
    <3> QED BY <3>1, <3>2
  <2>4. /\ code' = code /\ codeTtl' = codeTtl /\ attempts' = attempts
        /\ attemptsTtl' = attemptsTtl /\ issued' = issued
        /\ carried' = carried /\ lost' = lost
    BY <1>6 DEF VerifyGet, redisVars
  <2>5. LifetimeInv' /\ LocalInv'
    <3>1. LifetimeInv'
      BY <1>i, <2>4 DEF LifetimeInv
    <3>2. LocalInv'
      BY <1>i, <1>t, <2>1, <2>2, <2>3, <2>4 DEF LocalInv, TypeOK
    <3> QED BY <3>1, <3>2
  <2>6. Own' = Own \ {r} /\ Late' = Late \ {r}
    BY <1>t, <2>1, <2>2, <2>4, LeavesWaiting DEF Steps, Waiting
  <2>7. /\ Cardinality(Own') = IF r \in Own THEN Cardinality(Own) - 1 ELSE Cardinality(Own)
        /\ Cardinality(Late') = IF r \in Late THEN Cardinality(Late) - 1 ELSE Cardinality(Late)
    BY <2>6, <1>f, FS_RemoveElement
  <2>m. Cardinality(Own') \in Nat /\ Cardinality(Late') \in Nat
    BY <2>6, <1>f, FS_RemoveElement, FS_CardinalityType
  <2>n. /\ compared \in Nat /\ comparedLate \in Nat /\ carried \in Nat
        /\ attempts \in Nat
    BY <1>t DEF TypeOK
  <2>8. CASE code = NoCode
    <3>1. compared' = compared /\ comparedLate' = comparedLate
      BY <1>6, <2>8 DEF VerifyGet
    <3> QED BY <1>t, <1>f, <1>i, <2>4, <2>5, <2>7, <2>8, <3>1
            DEF IInv, CountInv, BoundedGuesses, OverLimitIsBurned, TypeOK
  <2>o. OverLimitIsBurned'
    BY <1>6, <1>t, <1>i, <2>1, <2>4 DEF VerifyGet, OverLimitIsBurned, TypeOK
  <2>9. CASE code # NoCode /\ since[r] = issued
    <3>1. compared' = compared + 1 /\ comparedLate' = comparedLate
      BY <1>6, <2>9 DEF VerifyGet
    <3>2. r \in Own /\ r \notin Late
      BY <1>6, <2>9 DEF VerifyGet, Own, Late, Waiting
    <3>3. /\ Cardinality(Own') = Cardinality(Own) - 1
          /\ Cardinality(Late') = Cardinality(Late)
      BY <2>7, <3>2
    <3>4. CountInv' /\ BoundedGuesses'
      BY <1>f, <1>i, <2>m, <2>n, <2>4, <2>9, <3>1, <3>3 DEF CountInv, BoundedGuesses
    <3> QED BY <1>t, <2>5, <2>o, <3>4 DEF IInv
  <2>10. CASE code # NoCode /\ since[r] # issued
    <3>1. compared' = compared /\ comparedLate' = comparedLate + 1
      BY <1>6, <2>10 DEF VerifyGet
    <3>2. r \in Late /\ r \notin Own
      BY <1>6, <2>10 DEF VerifyGet, Own, Late, Waiting
    <3>3. /\ Cardinality(Late') = Cardinality(Late) - 1
          /\ Cardinality(Own') = Cardinality(Own)
      BY <2>7, <3>2
    <3>4. CountInv' /\ BoundedGuesses'
      BY <1>f, <1>i, <2>m, <2>n, <2>4, <2>10, <3>1, <3>3 DEF CountInv, BoundedGuesses
    <3> QED BY <1>t, <2>5, <2>o, <3>4 DEF IInv
  <2> QED BY <2>8, <2>9, <2>10
<1>7. ASSUME NEW r \in Requests, VerifyConsume(r) PROVE IInv'
  <2>1. LifetimeInv' /\ LocalInv'
    BY <1>7, <1>t, <1>i DEF VerifyConsume, Return, LifetimeInv, LocalInv, TypeOK
  <2>2. Late' = Late
    BY <1>7, <1>t DEF VerifyConsume, Return, Late, Waiting, TypeOK
  <2>3. CountInv' /\ BoundedGuesses' /\ OverLimitIsBurned'
    BY <1>7, <1>i, <2>2
       DEF VerifyConsume, CountInv, BoundedGuesses, OverLimitIsBurned
  <2> QED BY <1>t, <2>1, <2>3 DEF IInv
<1>8. ASSUME NEW r \in Requests, LoseRequest(r) PROVE IInv'
  <2>1. LifetimeInv' /\ LocalInv'
    BY <1>8, <1>t, <1>i
       DEF LoseRequest, Return, redisVars, LifetimeInv, LocalInv, TypeOK
  <2>2. Own' = Own \ {r} /\ Late' = Late \ {r}
    BY <1>8, <1>t, LeavesWaiting DEF LoseRequest, Return, Steps, Waiting, TypeOK
  <2>3. Cardinality(Own') <= Cardinality(Own) /\ Cardinality(Late') <= Cardinality(Late)
    <3>1. /\ Cardinality(Own') = IF r \in Own THEN Cardinality(Own) - 1 ELSE Cardinality(Own)
          /\ Cardinality(Late') = IF r \in Late THEN Cardinality(Late) - 1 ELSE Cardinality(Late)
      BY <2>2, <1>f, FS_RemoveElement
    <3> QED BY <3>1, <1>f
  <2>4. Cardinality(Own') \in Nat /\ Cardinality(Late') \in Nat
    BY <2>2, <1>f, FS_RemoveElement, FS_CardinalityType
  <2>5. CountInv' /\ BoundedGuesses'
    BY <1>8, <1>t, <1>f, <1>i, <2>3, <2>4
       DEF LoseRequest, redisVars, CountInv, BoundedGuesses, TypeOK
  <2>6. OverLimitIsBurned'
    <3>1. CASE pc[r] = "burn"
      <4>1. lost'
        BY <1>8, <3>1 DEF LoseRequest
      <4> QED BY <4>1 DEF OverLimitIsBurned
    <3>2. CASE pc[r] # "burn"
      <4>1. lost => lost'
        BY <1>8 DEF LoseRequest
      <4> QED BY <1>8, <1>t, <1>i, <3>2, <4>1
              DEF LoseRequest, Return, redisVars, OverLimitIsBurned, TypeOK
    <3> QED BY <3>1, <3>2
  <2> QED BY <1>t, <2>1, <2>5, <2>6 DEF IInv
<1>9. CASE UNCHANGED vars
  <2>1. Own' = Own /\ Late' = Late
    BY <1>9 DEF vars, requestVars, Own, Late
  <2> QED BY <1>9, <1>t, <1>i, <2>1
          DEF vars, redisVars, requestVars, historyVars, IInv, LifetimeInv,
              LocalInv, CountInv, BoundedGuesses, OverLimitIsBurned
<1> QED BY <1>1, <1>2, <1>3, <1>4, <1>5, <1>6, <1>7, <1>8, <1>9 DEF Next

(***************************************************************************)
(* IInv holds in every reachable state.                                    *)
(***************************************************************************)
THEOREM Invariance == Spec => []IInv
BY IInvInit, IInvStep, PTL DEF Spec

(***************************************************************************)
(* For any number of concurrent verify() calls, a code is compared with at *)
(* most OTP_MAX_ATTEMPTS inputs counted for it, plus one per request that  *)
(* was on its way to GET when the code was issued.                         *)
(***************************************************************************)
THEOREM GuessesAreBounded == Spec => []BoundedGuesses
<1>1. IInv => BoundedGuesses
  BY DEF IInv
<1> QED BY <1>1, Invariance, PTL

(***************************************************************************)
(* A code whose counter passed the maximum is about to be deleted by some  *)
(* request, unless that request was lost.                                  *)
(***************************************************************************)
THEOREM OverLimitCodeIsBurned == Spec => []OverLimitIsBurned
<1>1. IInv => OverLimitIsBurned
  BY DEF IInv
<1> QED BY <1>1, Invariance, PTL

(***************************************************************************)
(* The attempt counter of a live code never goes down.                     *)
(***************************************************************************)
THEOREM CounterNeverReset == Spec => CounterOutlivesCode
<1>1. IInv /\ [Next]_vars
        => [code # NoCode /\ code' = code /\ issued' = issued
              => attempts' >= attempts]_vars
  <2> SUFFICES ASSUME IInv, Next, code # NoCode, code' = code, issued' = issued
               PROVE  attempts' >= attempts
    OBVIOUS
  <2> USE BoundsAssumption DEF IInv, TypeOK, NoCode
  <2>1. CASE issue
    BY <2>1 DEF issue
  <2>2. CASE Tick
    BY <2>2 DEF Tick, LifetimeInv, NoExpiry
  <2>3. ASSUME NEW r \in Requests,
               VerifyIncr(r) \/ VerifyExpire(r) \/ VerifyBurn(r)
                 \/ VerifyGet(r) \/ LoseRequest(r)
        PROVE  attempts' >= attempts
    BY <2>3 DEF VerifyIncr, VerifyExpire, VerifyBurn, VerifyGet, LoseRequest, redisVars
  <2>4. ASSUME NEW r \in Requests, VerifyConsume(r) PROVE attempts' >= attempts
    BY <2>4 DEF VerifyConsume
  <2> QED BY <2>1, <2>2, <2>3, <2>4 DEF Next
<1> QED BY <1>1, Invariance, PTL DEF Spec, CounterOutlivesCode

(***************************************************************************)
(* What the calls that have matched a code know of it: it was issued, only *)
(* one of them has it and it was not accepted before unless they           *)
(* overlapped, and a code that was accepted is not in Redis.               *)
(***************************************************************************)
AcceptInv ==
    /\ \A c \in Codes : accepted[c] > 0 => c <= issued /\ c # code
    /\ \A r \in Requests : pc[r] = "consume" => submitted[r] \in 1 .. issued
    /\ \A c \in Codes \ overlapped : \A r \in Requests :
         Matched(r, c) => /\ accepted[c] = 0
                          /\ \A q \in Requests : Matched(q, c) => q = r
    /\ AcceptedOnce

(***************************************************************************)
(* Every step preserves AcceptInv.                                         *)
(***************************************************************************)
LEMMA AcceptStep == IInv /\ AcceptInv /\ [Next]_vars => AcceptInv'
<1> SUFFICES ASSUME IInv, AcceptInv, [Next]_vars PROVE AcceptInv'
  OBVIOUS
<1> USE BoundsAssumption DEF NoCode, Codes, AcceptedOnce
<1>t. TypeOK /\ LifetimeInv
  BY DEF IInv
<1>k. ASSUME issued' \in Nat, issued <= issued', UNCHANGED acceptVars,
             code' \in {code, NoCode, issued + 1},
             \A q \in Requests : pc'[q] = "consume" =>
                 pc[q] = "consume" /\ submitted'[q] = submitted[q]
      PROVE  AcceptInv'
  <2>1. \A q \in Requests, c \in Codes : Matched(q, c)' => Matched(q, c)
    BY <1>k DEF Matched
  <2>2. \A c \in Codes : accepted'[c] > 0 => c <= issued' /\ c # code'
    BY <1>k, <1>t DEF AcceptInv, acceptVars, TypeOK
  <2>3. \A q \in Requests : pc'[q] = "consume" => submitted'[q] \in 1 .. issued'
    BY <1>k, <1>t DEF AcceptInv, TypeOK
  <2> QED BY <1>k, <2>1, <2>2, <2>3 DEF AcceptInv, acceptVars
<1>1. CASE issue
  BY <1>1, <1>t, <1>k DEF issue, requestVars, TypeOK
<1>2. CASE Tick
  BY <1>2, <1>t, <1>k DEF Tick, requestVars, historyVars, TypeOK
<1>3. ASSUME NEW r \in Requests, VerifyIncr(r) \/ VerifyExpire(r) PROVE AcceptInv'
  <2>1. \A q \in Requests : pc'[q] = "consume" => pc[q] = "consume" /\ submitted'[q] = submitted[q]
    BY <1>3, <1>t DEF VerifyIncr, VerifyExpire, AfterCount, TypeOK
  <2>2. code' = code /\ issued' = issued /\ UNCHANGED acceptVars
    BY <1>3 DEF VerifyIncr, VerifyExpire, historyVars
  <2> QED BY <2>1, <2>2, <1>t, <1>k DEF TypeOK
<1>4. ASSUME NEW r \in Requests, Return(r), issued' = issued, UNCHANGED acceptVars,
             code' \in {code, NoCode}
      PROVE  AcceptInv'
  <2>1. \A q \in Requests : pc'[q] = "consume" => pc[q] = "consume" /\ submitted'[q] = submitted[q]
    BY <1>4, <1>t DEF Return, TypeOK
  <2> QED BY <2>1, <1>4, <1>t, <1>k DEF TypeOK
<1>5. ASSUME NEW r \in Requests, VerifyGet(r) PROVE AcceptInv'
  <2>1. issued' = issued /\ accepted' = accepted /\ code' = code
    BY <1>5 DEF VerifyGet, redisVars
  <2>2. CASE code # NoCode /\ code = submitted[r]
    <3>1. pc' = [pc EXCEPT ![r] = "consume"] /\ submitted' = submitted
      BY <1>5, <2>2 DEF VerifyGet
    <3>2. submitted[r] \in 1 .. issued
      BY <1>t, <2>2 DEF LifetimeInv, TypeOK
    <3>3. overlapped \subseteq overlapped'
          /\ (code \in overlapped' \/ \A q \in Requests : ~Matched(q, code))
      BY <1>5, <1>t, <2>2 DEF VerifyGet, TypeOK
    <3>4. \A q \in Requests, c \in Codes :
              Matched(q, c)' <=> (Matched(q, c) /\ q # r) \/ (q = r /\ c = code)
      BY <3>1, <2>2, <1>5, <1>t DEF Matched, VerifyGet, TypeOK
    <3>5. code \in Codes => accepted[code] = 0
      BY <1>t DEF AcceptInv, TypeOK
    <3>6. \A c \in Codes \ overlapped' : \A q \in Requests :
             Matched(q, c)' => /\ accepted[c] = 0
                               /\ \A p \in Requests : Matched(p, c)' => p = q
      BY <3>3, <3>4, <3>5 DEF AcceptInv
    <3>7. \A q \in Requests : pc'[q] = "consume" => submitted'[q] \in 1 .. issued
      BY <3>1, <3>2, <1>t DEF AcceptInv, TypeOK
    <3>8. \A c \in Codes : accepted[c] <= 1 \/ c \in overlapped'
      BY <3>3 DEF AcceptInv
    <3> QED BY <2>1, <3>6, <3>7, <3>8 DEF AcceptInv
  <2>3. CASE ~(code # NoCode /\ code = submitted[r])
    <3>1. Return(r) /\ overlapped' = overlapped
      BY <1>5, <2>3, <1>t DEF VerifyGet, TypeOK
    <3> QED BY <2>1, <3>1, <1>4 DEF acceptVars
  <2> QED BY <2>2, <2>3
<1>6. ASSUME NEW r \in Requests, VerifyConsume(r) PROVE AcceptInv'
  <2> DEFINE d == submitted[r]
  <2>1. d \in Codes /\ d <= issued /\ Matched(r, d)
    BY <1>6, <1>t DEF VerifyConsume, AcceptInv, Matched, TypeOK
  <2>2. /\ code' = NoCode /\ issued' = issued /\ overlapped' = overlapped
        /\ accepted' = [c \in Codes |-> IF c = d THEN accepted[c] + 1 ELSE accepted[c]]
    BY <1>6, <1>t DEF VerifyConsume, TypeOK
  <2>3. \A q \in Requests, c \in Codes : Matched(q, c)' => Matched(q, c) /\ q # r
    BY <1>6, <1>t DEF VerifyConsume, Return, Matched, TypeOK
  <2>4. \A c \in Codes : accepted'[c] > 0 => c <= issued /\ c # NoCode
    BY <2>1, <2>2 DEF AcceptInv
  <2>5. \A q \in Requests : pc'[q] = "consume" => submitted'[q] \in 1 .. issued
    BY <1>6, <1>t DEF VerifyConsume, Return, AcceptInv, TypeOK
  <2>6. \A c \in Codes \ overlapped : \A q \in Requests :
           Matched(q, c)' => /\ accepted'[c] = 0
                             /\ \A p \in Requests : Matched(p, c)' => p = q
    BY <2>1, <2>2, <2>3 DEF AcceptInv
  <2>7. \A c \in Codes : accepted'[c] <= 1 \/ c \in overlapped
    BY <2>1, <2>2, <1>t DEF AcceptInv, TypeOK
  <2> QED BY <2>2, <2>4, <2>5, <2>6, <2>7 DEF AcceptInv
<1>7. ASSUME NEW r \in Requests, VerifyBurn(r) \/ LoseRequest(r) PROVE AcceptInv'
  BY <1>7, <1>4 DEF VerifyBurn, LoseRequest, redisVars, historyVars
<1>8. CASE UNCHANGED vars
  BY <1>8, <1>t, <1>k DEF vars, redisVars, requestVars, historyVars, TypeOK
<1> QED BY <1>1, <1>2, <1>3, <1>5, <1>6, <1>7, <1>8 DEF Next

(***************************************************************************)
(* No code is accepted twice unless a call read it between the GET and the *)
(* DEL of another, for any number of concurrent verify() calls, reissues   *)
(* and expiries.                                                           *)
(***************************************************************************)
THEOREM CodesAreSingleUse == Spec => []AcceptedOnce
<1>1. Init => AcceptInv
  BY BoundsAssumption DEF Init, NoCode, Codes, AcceptInv, AcceptedOnce, Matched
<1>2. AcceptInv => AcceptedOnce
  BY DEF AcceptInv
<1> QED BY <1>1, <1>2, AcceptStep, Invariance, PTL DEF Spec
-----------------------------------------------------------------------------
(***************************************************************************)
(* Requests that may still send a code on the present count of phone p.    *)
(***************************************************************************)
Live(p) ==
    {r \in Calls : /\ at[r] \in Counted /\ phone[r] = p
                   /\ r \notin stale /\ hourlyOf[r] <= MAX_PER_HOUR}

(***************************************************************************)
(* A request at work has a phone, and one past the limits was within its   *)
(* hourly limit.                                                           *)
(***************************************************************************)
CallInv ==
    \A r \in Calls : /\ at[r] # "idle" => phone[r] \in Phones
                     /\ at[r] \in {"cool", "issue"} => hourlyOf[r] <= MAX_PER_HOUR

(***************************************************************************)
(* Codes sent, and those that may still be sent, were counted.             *)
(***************************************************************************)
HourInv ==
    \A p \in Phones : /\ granted[p] + Cardinality(Live(p)) <= hourly[p]
                      /\ granted[p] + Cardinality(Live(p)) <= MAX_PER_HOUR

LimitInv == LimitTypeOK /\ CallInv /\ HourInv

-----------------------------------------------------------------------------
(***************************************************************************)
(* The set of such requests is finite.                                     *)
(***************************************************************************)
LEMMA LiveFinite ==
    ASSUME NEW p
    PROVE  /\ IsFiniteSet(Live(p)) /\ Cardinality(Live(p)) \in Nat
           /\ IsFiniteSet(Live(p))' /\ Cardinality(Live(p))' \in Nat
<1>1. Live(p) \subseteq Calls /\ Live(p)' \subseteq Calls
  BY DEF Live
<1>2. IsFiniteSet(Live(p)) /\ IsFiniteSet(Live(p)')
  BY <1>1, LimitsAssumption, FS_Subset
<1> QED BY <1>2, FS_CardinalityType

(***************************************************************************)
(* Initially nothing is counted or sent.                                   *)
(***************************************************************************)
LEMMA LimitInvInit == LimitInit => LimitInv
<1> SUFFICES ASSUME LimitInit PROVE LimitInv
  OBVIOUS
<1> USE LimitsAssumption DEF LimitInit
<1>1. LimitTypeOK
  BY DEF LimitTypeOK, CallSteps, NoTtl
<1>2. CallInv
  BY DEF CallInv
<1>3. \A p \in Phones : Live(p) = {}
  BY DEF Live, Counted
<1>4. HourInv
  BY <1>3, FS_EmptySet DEF HourInv
<1> QED BY <1>1, <1>2, <1>4 DEF LimitInv

(***************************************************************************)
(* What the end of request r does to its locals.                           *)
(***************************************************************************)
LEMMA CallEnds ==
    ASSUME LimitTypeOK, NEW r \in Calls, EndCall(r)
    PROVE  /\ at' \in [Calls -> CallSteps] /\ phone' \in [Calls -> Phones \cup {NoPhone}]
           /\ hourlyOf' \in [Calls -> 0 .. MaxCount] /\ ipOf' \in [Calls -> 0 .. MaxCount]
           /\ stale' \subseteq Calls
           /\ at'[r] = "idle"
           /\ \A q \in Calls \ {r} : /\ at'[q] = at[q] /\ phone'[q] = phone[q]
                                     /\ hourlyOf'[q] = hourlyOf[q] /\ (q \in stale' <=> q \in stale)
           /\ \A p : Live(p)' = Live(p) \ {r}
<1> USE LimitsAssumption
<1>1. /\ at' \in [Calls -> CallSteps] /\ phone' \in [Calls -> Phones \cup {NoPhone}]
      /\ hourlyOf' \in [Calls -> 0 .. MaxCount] /\ ipOf' \in [Calls -> 0 .. MaxCount]
      /\ stale' \subseteq Calls
  BY DEF LimitTypeOK, EndCall, Goto, CallSteps
<1>2. /\ at'[r] = "idle"
      /\ \A q \in Calls \ {r} : /\ at'[q] = at[q] /\ phone'[q] = phone[q]
                                /\ hourlyOf'[q] = hourlyOf[q] /\ (q \in stale' <=> q \in stale)
  BY DEF LimitTypeOK, EndCall, Goto
<1>3. \A p : Live(p)' = Live(p) \ {r}
  BY <1>2 DEF Live, Counted
<1> QED BY <1>1, <1>2, <1>3

(***************************************************************************)
(* A request that ends without sending a code leaves the invariant alone,  *)
(* whatever happens to the cooldowns and to the counter of the address.    *)
(***************************************************************************)
LEMMA CallEndKeeps ==
    ASSUME LimitInv, NEW r \in Calls, EndCall(r), LimitTypeOK', UNCHANGED <<hourly, granted>>
    PROVE  LimitInv'
<1>1. CallInv'
  BY CallEnds DEF LimitInv, CallInv
<1>2. HourInv'
  <2> SUFFICES ASSUME NEW p \in Phones
               PROVE  /\ granted'[p] + Cardinality(Live(p)') <= hourly'[p]
                      /\ granted'[p] + Cardinality(Live(p)') <= MAX_PER_HOUR
    BY DEF HourInv
  <2>1. Live(p)' = Live(p) \ {r}
    BY CallEnds DEF LimitInv
  <2>2. Cardinality(Live(p)') \in {Cardinality(Live(p)), Cardinality(Live(p)) - 1}
    BY <2>1, LiveFinite, FS_RemoveElement
  <2>3. granted[p] \in Nat /\ hourly[p] \in Nat /\ MAX_PER_HOUR \in Nat
    BY LimitsAssumption DEF LimitInv, LimitTypeOK
  <2>4. /\ granted[p] + Cardinality(Live(p)) <= hourly[p]
        /\ granted[p] + Cardinality(Live(p)) <= MAX_PER_HOUR
    BY DEF LimitInv, HourInv
  <2>5. Cardinality(Live(p)) \in Nat
    BY LiveFinite
  <2> QED BY <2>2, <2>3, <2>4, <2>5
<1> QED BY <1>1, <1>2 DEF LimitInv

(***************************************************************************)
(* A request that goes on to another step after it was counted keeps the   *)
(* invariant, if it is within its limit where that matters.                *)
(***************************************************************************)
LEMMA GoesOn ==
    ASSUME LimitInv, NEW r \in Calls, NEW s \in Counted, at[r] \in Counted, Goto(r, s), LimitTypeOK',
           UNCHANGED <<hourly, granted, phone, hourlyOf, stale>>,
           s \in {"cool", "issue"} => hourlyOf[r] <= MAX_PER_HOUR
    PROVE  LimitInv'
<1>1. \A q \in Calls : at'[q] = IF q = r THEN s ELSE at[q]
  BY DEF LimitInv, LimitTypeOK, Goto
<1>2. CallInv'
  BY <1>1 DEF LimitInv, CallInv, Counted
<1>3. \A p : Live(p)' = Live(p)
  BY <1>1 DEF Live
<1>4. HourInv'
  BY <1>3 DEF LimitInv, HourInv
<1> QED BY <1>2, <1>4 DEF LimitInv

(***************************************************************************)
(* Every step preserves the invariant.                                     *)
(***************************************************************************)
LEMMA LimitInvStep == LimitInv /\ [LimitNext]_limitVars => LimitInv'
<1> SUFFICES ASSUME LimitInv, [LimitNext]_limitVars PROVE LimitInv'
  OBVIOUS
<1> USE LimitsAssumption DEF NoTtl
<1>t. LimitTypeOK /\ CallInv /\ HourInv
  BY DEF LimitInv
<1>1. ASSUME NEW r \in Calls, NEW p \in Phones, CheckCooldown(r, p) PROVE LimitInv'
  <2>1. LimitTypeOK'
    BY <1>1, <1>t DEF CheckCooldown, Goto, keyVars, LimitTypeOK, CallSteps
  <2>2. /\ UNCHANGED <<hourly, granted, hourlyOf, stale>> /\ at[r] = "idle"
        /\ at' = [at EXCEPT ![r] = "incrHour"] /\ phone' = [phone EXCEPT ![r] = p]
    BY <1>1 DEF CheckCooldown, Goto, keyVars
  <2>3. CallInv'
    BY <2>2, <1>t DEF CallInv, LimitTypeOK
  <2>4. \A x : Live(x)' = Live(x)
    BY <2>2, <1>t DEF Live, Counted, LimitTypeOK
  <2>5. HourInv'
    BY <2>2, <2>4, <1>t DEF HourInv
  <2> QED BY <2>1, <2>3, <2>5 DEF LimitInv
<1>2. ASSUME NEW r \in Calls, IncrHourly(r) PROVE LimitInv'
  <2> DEFINE x == phone[r]
             n == hourly[x] + 1
  <2>1. /\ at[r] = "incrHour" /\ n <= MaxCount
        /\ hourly' = [hourly EXCEPT ![x] = n] /\ hourlyOf' = [hourlyOf EXCEPT ![r] = n]
        /\ at' = [at EXCEPT ![r] = AfterIncrHourly(n)]
        /\ UNCHANGED <<cooldown, hourlyTtl, ipCount, ipTtl, phone, ipOf, lostCalls, stale, granted>>
    BY <1>2 DEF IncrHourly, Goto
  <2>2. x \in Phones /\ n \in 0 .. MaxCount /\ hourly[x] \in Nat
    BY <2>1, <1>t DEF CallInv, LimitTypeOK
  <2>3. AfterIncrHourly(n) \in {"expireHour", "incrIp"}
    BY DEF AfterIncrHourly
  <2>4. LimitTypeOK'
    BY <2>1, <2>2, <2>3, <1>t DEF LimitTypeOK, CallSteps
  <2>5. /\ \A q \in Calls : /\ at'[q] = IF q = r THEN AfterIncrHourly(n) ELSE at[q]
                            /\ hourlyOf'[q] = IF q = r THEN n ELSE hourlyOf[q]
        /\ \A p \in Phones : hourly'[p] = IF p = x THEN n ELSE hourly[p]
    BY <2>1, <1>t DEF LimitTypeOK
  <2>6. CallInv'
    BY <2>1, <2>2, <2>3, <2>5, <1>t DEF CallInv
  <2>7. \A p \in Phones : /\ r \notin Live(p)
                          /\ p # x => Live(p)' = Live(p)
                          /\ p = x => Live(p)' = Live(p) \cup {r} \/ Live(p)' = Live(p)
                          /\ p = x /\ n > MAX_PER_HOUR => Live(p)' = Live(p)
    <3> HIDE DEF n, x
    <3> SUFFICES ASSUME NEW p \in Phones
                 PROVE  /\ r \notin Live(p)
                        /\ p # x => Live(p)' = Live(p)
                        /\ p = x => Live(p)' = Live(p) \cup {r} \/ Live(p)' = Live(p)
                        /\ p = x /\ n > MAX_PER_HOUR => Live(p)' = Live(p)
      OBVIOUS
    <3>1. phone' = phone /\ stale' = stale /\ x = phone[r]
      BY <2>1 DEF x
    <3>2. r \notin Live(p)
      BY <2>1 DEF Live, Counted
    <3>3. \A q \in Calls : q # r => (q \in Live(p)' <=> q \in Live(p))
      BY <2>5, <3>1 DEF Live
    <3>4. r \in Live(p)' => p = x /\ n <= MAX_PER_HOUR
      BY <2>5, <3>1 DEF Live
    <3>5. Live(p) \subseteq Calls /\ Live(p)' \subseteq Calls
      BY DEF Live
    <3>6. n \in Nat /\ MAX_PER_HOUR \in Nat
      BY <2>2
    <3>7. n > MAX_PER_HOUR => r \notin Live(p)'
      BY <3>4, <3>6
    <3>8. r \notin Live(p)' => Live(p)' = Live(p)
      BY <3>2, <3>3, <3>5
    <3>9. r \in Live(p)' => Live(p)' = Live(p) \cup {r}
      BY <3>2, <3>3, <3>5
    <3> QED BY <3>2, <3>4, <3>7, <3>8, <3>9
  <2>8. HourInv'
    <3> SUFFICES ASSUME NEW p \in Phones
                 PROVE  /\ granted'[p] + Cardinality(Live(p)') <= hourly'[p]
                        /\ granted'[p] + Cardinality(Live(p)') <= MAX_PER_HOUR
      BY DEF HourInv
    <3>1. granted[p] \in Nat /\ hourly[p] \in Nat /\ Cardinality(Live(p)) \in Nat /\ granted' = granted
      BY <1>t, <2>1, LiveFinite DEF LimitTypeOK
    <3>2. /\ granted[p] + Cardinality(Live(p)) <= hourly[p]
          /\ granted[p] + Cardinality(Live(p)) <= MAX_PER_HOUR
      BY <1>t DEF HourInv
    <3>3. CASE Live(p)' = Live(p)
      BY <2>2, <2>5, <3>1, <3>2, <3>3
    <3>4. CASE p = x /\ n <= MAX_PER_HOUR /\ Live(p)' = Live(p) \cup {r}
      <4>1. Cardinality(Live(p)') = Cardinality(Live(p)) + 1
        BY <2>7, <3>4, LiveFinite, FS_AddElement
      <4> QED BY <2>2, <2>5, <3>1, <3>2, <3>4, <4>1
    <3> QED BY <2>2, <2>7, <3>3, <3>4
  <2> QED BY <2>4, <2>6, <2>8 DEF LimitInv
<1>3. ASSUME NEW r \in Calls, ExpireHourly(r) PROVE LimitInv'
  <2>1. /\ at[r] = "expireHour" /\ Goto(r, "incrIp")
        /\ UNCHANGED <<cooldown, hourly, ipCount, ipTtl, phone, hourlyOf, ipOf, lostCalls, stale, granted>>
    BY <1>3 DEF ExpireHourly, localVars
  <2>2. hourlyTtl' \in [Phones -> {NoTtl} \cup 1 .. HOUR]
    <3>1. HOUR \in {NoTtl} \cup 1 .. HOUR
      OBVIOUS
    <3>2. hourlyTtl \in [Phones -> {NoTtl} \cup 1 .. HOUR]
      BY <1>t DEF LimitTypeOK
    <3>3. \/ hourlyTtl' = hourlyTtl
          \/ hourlyTtl' = [hourlyTtl EXCEPT ![phone[r]] = HOUR]
      BY <1>3 DEF ExpireHourly
    <3> QED BY <3>1, <3>2, <3>3
  <2>3. LimitTypeOK'
    BY <2>1, <2>2, <1>t DEF Goto, LimitTypeOK, CallSteps
  <2> QED BY <2>1, <2>3, GoesOn DEF Counted
<1>4. ASSUME NEW r \in Calls, IncrIp(r) PROVE LimitInv'
  <2> DEFINE n == ipCount + 1
  <2>1. /\ at[r] = "incrIp" /\ n <= MaxCount /\ ipCount' = n
        /\ UNCHANGED <<cooldown, hourly, hourlyTtl, ipTtl, lostCalls, granted>>
    BY <1>4 DEF IncrIp
  <2>n. n \in 0 .. MaxCount
    BY <2>1, <1>t DEF LimitTypeOK
  <2>2. ASSUME NEW s \in {"expireIp", "cool"}, Goto(r, s), ipOf' = [ipOf EXCEPT ![r] = n],
               UNCHANGED <<phone, hourlyOf, stale>>, s = "cool" => ~Refused(hourlyOf[r], n)
        PROVE  LimitInv'
    <3>1. LimitTypeOK'
      BY <2>1, <2>n, <2>2, <1>t DEF Goto, LimitTypeOK, CallSteps
    <3>2. hourlyOf[r] \in Nat /\ MAX_PER_HOUR \in Nat
      BY <1>t DEF LimitTypeOK
    <3>3. s = "cool" => hourlyOf[r] <= MAX_PER_HOUR
      BY <2>2, <3>2 DEF Refused
    <3> QED BY <2>1, <2>2, <3>1, <3>3, GoesOn DEF Counted
  <2>3. CASE EndCall(r)
    <3>1. LimitTypeOK'
      BY <2>1, <2>n, <2>3, <1>t, CallEnds DEF LimitTypeOK
    <3> QED BY <2>1, <2>3, <3>1, CallEndKeeps
  <2> QED BY <1>4, <2>2, <2>3 DEF IncrIp
<1>5. ASSUME NEW r \in Calls, ExpireIp(r) PROVE LimitInv'
  <2>1. /\ at[r] = "expireIp" /\ ipTtl' \in {NoTtl} \cup 1 .. HOUR
        /\ UNCHANGED <<cooldown, hourly, hourlyTtl, ipCount, lostCalls, granted>>
    BY <1>5, <1>t DEF ExpireIp, LimitTypeOK
  <2>2. CASE EndCall(r)
    <3>1. LimitTypeOK'
      BY <2>1, <2>2, <1>t, CallEnds DEF LimitTypeOK
    <3> QED BY <2>1, <2>2, <3>1, CallEndKeeps
  <2>3. CASE ~Refused(hourlyOf[r], ipOf[r]) /\ Goto(r, "cool") /\ UNCHANGED <<localVars, stale>>
    <3>1. LimitTypeOK'
      BY <2>1, <2>3, <1>t DEF Goto, localVars, LimitTypeOK, CallSteps
    <3>2. hourlyOf[r] \in Nat /\ MAX_PER_HOUR \in Nat
      BY <1>t DEF LimitTypeOK
    <3>3. hourlyOf[r] <= MAX_PER_HOUR
      BY <2>3, <3>2 DEF Refused
    <3> QED BY <2>1, <2>3, <3>1, <3>3, GoesOn DEF Counted, localVars
  <2> QED BY <1>5, <2>2, <2>3 DEF ExpireIp
<1>6. ASSUME NEW r \in Calls, SetCooldown(r) PROVE LimitInv'
  <2>1. /\ at[r] = "cool" /\ Goto(r, "issue") /\ cooldown' = [cooldown EXCEPT ![phone[r]] = COOLDOWN]
        /\ UNCHANGED <<hourly, hourlyTtl, ipCount, ipTtl, phone, hourlyOf, ipOf, lostCalls, stale, granted>>
    BY <1>6 DEF SetCooldown, localVars
  <2>2. LimitTypeOK'
    <3>1. COOLDOWN \in 0 .. COOLDOWN
      OBVIOUS
    <3>2. cooldown' \in [Phones -> 0 .. COOLDOWN]
      BY <2>1, <3>1, <1>t DEF LimitTypeOK
    <3> QED BY <2>1, <3>2, <1>t DEF Goto, LimitTypeOK, CallSteps
  <2>3. hourlyOf[r] <= MAX_PER_HOUR
    BY <2>1, <1>t DEF CallInv
  <2> QED BY <2>1, <2>2, <2>3, GoesOn DEF Counted
<1>7. ASSUME NEW r \in Calls, request_otp(r) PROVE LimitInv'
  <2> DEFINE x == phone[r]
             sent == x \in Registered /\ r \notin stale
  <2>1. at[r] = "issue" /\ EndCall(r) /\ UNCHANGED <<cooldown, hourly, hourlyTtl, ipCount, ipTtl, lostCalls>>
    BY <1>7 DEF request_otp, keyVars
  <2>2. x \in Phones /\ hourlyOf[r] <= MAX_PER_HOUR /\ granted[x] \in Nat
    BY <2>1, <1>t DEF CallInv, LimitTypeOK
  <2>3. granted' = IF sent THEN [granted EXCEPT ![x] = granted[x] + 1] ELSE granted
    BY <1>7 DEF request_otp
  <2>4. granted' \in [Phones -> Nat]
    BY <2>2, <2>3, <1>t DEF LimitTypeOK
  <2>5. LimitTypeOK'
    BY <2>1, <2>4, <1>t, CallEnds DEF LimitTypeOK
  <2>6. CASE ~sent
    BY <2>1, <2>3, <2>5, <2>6, CallEndKeeps
  <2>7. CASE sent
    <3>1. CallInv'
      BY <2>1, <1>t, CallEnds DEF CallInv
    <3>2. r \in Live(x) /\ \A p : p # x => r \notin Live(p)
      BY <2>1, <2>2, <2>7 DEF Live, Counted
    <3>3. HourInv'
      <4> SUFFICES ASSUME NEW p \in Phones
                   PROVE  /\ granted'[p] + Cardinality(Live(p)') <= hourly'[p]
                          /\ granted'[p] + Cardinality(Live(p)') <= MAX_PER_HOUR
        BY DEF HourInv
      <4>1. granted[p] \in Nat /\ hourly'[p] = hourly[p] /\ hourly[p] \in Nat
            /\ Cardinality(Live(p)) \in Nat
        BY <1>t, <2>1, LiveFinite DEF LimitTypeOK
      <4>2. /\ granted[p] + Cardinality(Live(p)) <= hourly[p]
            /\ granted[p] + Cardinality(Live(p)) <= MAX_PER_HOUR
        BY <1>t DEF HourInv
      <4>3. Live(p)' = Live(p) \ {r}
        BY <2>1, <1>t, CallEnds
      <4>4. CASE p = x
        <5>1. Cardinality(Live(p)') = Cardinality(Live(p)) - 1
          BY <3>2, <4>3, <4>4, LiveFinite, FS_RemoveElement
        <5>2. granted'[p] = granted[p] + 1
          BY <2>2, <2>3, <2>7, <4>4, <1>t DEF LimitTypeOK
        <5> QED BY <4>1, <4>2, <5>1, <5>2
      <4>5. CASE p # x
        <5>1. Live(p)' = Live(p) /\ granted'[p] = granted[p]
          BY <2>3, <3>2, <4>3, <4>5, <1>t DEF LimitTypeOK
        <5> QED BY <4>1, <4>2, <5>1
      <4> QED BY <4>4, <4>5
    <3> QED BY <2>5, <3>1, <3>3 DEF LimitInv
  <2> QED BY <2>6, <2>7
<1>8. ASSUME NEW r \in Calls, LoseCall(r) PROVE LimitInv'
  <2>1. EndCall(r) /\ lostCalls' \in 0 .. MaxLost
        /\ UNCHANGED <<cooldown, hourly, hourlyTtl, ipCount, ipTtl, granted>>
    BY <1>8, <1>t DEF LoseCall, keyVars, LimitTypeOK
  <2>2. LimitTypeOK'
    BY <2>1, <1>t, CallEnds DEF LimitTypeOK
  <2> QED BY <2>1, <2>2, CallEndKeeps
<1>9. CASE LimitTick
  <2> DEFINE ended == {p \in Phones : hourlyTtl[p] = 1}
  <2>1. /\ hourly' = [p \in Phones |-> IF p \in ended THEN 0 ELSE hourly[p]]
        /\ granted' = [p \in Phones |-> IF p \in ended THEN 0 ELSE granted[p]]
        /\ stale' = stale \cup {r \in Calls : at[r] \in Counted /\ phone[r] \in ended}
        /\ UNCHANGED <<at, phone, hourlyOf, ipOf, lostCalls>>
    BY <1>9 DEF LimitTick, localVars
  <2>2. LimitTypeOK'
    BY <1>9, <2>1, <1>t DEF LimitTick, Shorter, LimitTypeOK
  <2>3. CallInv'
    BY <2>1, <1>t DEF CallInv
  <2>4. \A p \in Phones : Live(p)' = IF p \in ended THEN {} ELSE Live(p)
    BY <2>1 DEF Live
  <2>5. HourInv'
    <3> SUFFICES ASSUME NEW p \in Phones
                 PROVE  /\ granted'[p] + Cardinality(Live(p)') <= hourly'[p]
                        /\ granted'[p] + Cardinality(Live(p)') <= MAX_PER_HOUR
      BY DEF HourInv
    <3>1. CASE p \in ended
      BY <2>1, <2>4, <3>1, FS_EmptySet
    <3>2. CASE p \notin ended
      BY <2>1, <2>4, <3>2, <1>t DEF HourInv
    <3> QED BY <3>1, <3>2
  <2> QED BY <2>2, <2>3, <2>5 DEF LimitInv
<1>10. CASE UNCHANGED limitVars
  <2>1. \A p : Live(p)' = Live(p)
    BY <1>10 DEF limitVars, localVars, Live
  <2> QED BY <1>10, <1>t, <2>1 DEF limitVars, keyVars, localVars, LimitInv, LimitTypeOK, CallInv, HourInv
<1> QED BY <1>1, <1>2, <1>3, <1>4, <1>5, <1>6, <1>7, <1>8, <1>9, <1>10 DEF LimitNext, RequestStep

(***************************************************************************)
(* LimitInv holds in every reachable state.                                *)
(***************************************************************************)
THEOREM LimitInvariance == LimitSpec => []LimitInv
BY LimitInvInit, LimitInvStep, PTL DEF LimitSpec

(***************************************************************************)
(* The counters, the cooldowns and the locals keep their types.            *)
(***************************************************************************)
THEOREM LimitTypeCorrect == LimitSpec => []LimitTypeOK
<1>1. LimitInv => LimitTypeOK
  BY DEF LimitInv
<1> QED BY <1>1, LimitInvariance, PTL

(***************************************************************************)
(* For any number of overlapping requests, a phone is sent at most         *)
(* _OTP_MAX_PER_HOUR codes in one life of its hourly counter.              *)
(***************************************************************************)
THEOREM HourlyLimitHolds == LimitSpec => []CodesPerHour
<1>1. LimitInv => CodesPerHour
  <2> SUFFICES ASSUME LimitInv, NEW p \in Phones PROVE granted[p] <= MAX_PER_HOUR
    BY DEF CodesPerHour
  <2>1. granted[p] \in Nat /\ Cardinality(Live(p)) \in Nat /\ MAX_PER_HOUR \in Nat
    BY LiveFinite, LimitsAssumption DEF LimitInv, LimitTypeOK
  <2>2. granted[p] + Cardinality(Live(p)) <= MAX_PER_HOUR
    BY DEF LimitInv, HourInv
  <2> QED BY <2>1, <2>2
<1> QED BY <1>1, LimitInvariance, PTL
=============================================================================
