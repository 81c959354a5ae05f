---------------------------- MODULE OtpRateLimit ----------------------------
(***************************************************************************)
(* POST /auth/request-otp: _rate_limit_otp and request_otp of              *)
(* app/api/routes/auth.py.  Several requests run together; every Redis     *)
(* command is a step.  All phones are behind one IP address, so the        *)
(* per-address counter is shared by them.                                  *)
(*                                                                         *)
(* A request can be lost between two commands (process killed, Redis       *)
(* error raised into the handler); MaxLost bounds how many.                *)
(***************************************************************************)
EXTENDS Integers, FiniteSets

CONSTANTS
    Calls,          \* requests that can be in progress together
    Phones,         \* phone numbers typed by users
    Registered,     \* those that belong to an ACTIVE user
    COOLDOWN,       \* _OTP_COOLDOWN_SECONDS, in clock ticks
    HOUR,           \* the 3600 s window, in clock ticks
    MAX_PER_HOUR,   \* _OTP_MAX_PER_HOUR
    MaxCount,       \* bound: value of a counter explored
    MaxLost         \* bound: requests lost between two commands

ASSUME LimitsAssumption ==
    /\ Registered \subseteq Phones
    /\ COOLDOWN \in Nat \ {0} /\ HOUR \in Nat \ {0} /\ MAX_PER_HOUR \in Nat \ {0}
    /\ MaxCount \in Nat /\ MaxLost \in Nat
    /\ IsFiniteSet(Calls)

VARIABLES
    cooldown,    \* cooldown[p]: remaining life of otp:cooldown:{p}, 0 if absent
    hourly,      \* hourly[p]: otp:hourly:{p}, 0 if absent
    hourlyTtl,   \* hourlyTtl[p]: its remaining life, or NoTtl
    ipCount,     \* otp:ip:{ip}, 0 if absent
    ipTtl,       \* its remaining life, or NoTtl
    at,          \* at[r]: next command of request r
    phone,       \* phone[r]: phone number of request r
    hourlyOf,    \* hourlyOf[r]: value r got from INCR hourly
    ipOf,        \* ipOf[r]: value r got from INCR ip
    lostCalls,   \* requests lost so far
    stale,       \* history: requests counted in an earlier life of the hourly key
    granted      \* history: granted[p]: codes sent to p by requests counted in
                 \*   the present life of the hourly key

keyVars == <<cooldown, hourly, hourlyTtl, ipCount, ipTtl>>
localVars == <<phone, hourlyOf, ipOf>>
limitVars == <<keyVars, at, localVars, lostCalls, stale, granted>>

NoTtl == -1
NoPhone == "none"
MAX_PER_IP == MAX_PER_HOUR * 4

CallSteps == {"idle", "incrHour", "expireHour", "incrIp", "expireIp", "cool", "issue"}
Counted == {"expireHour", "incrIp", "expireIp", "cool", "issue"}

LimitTypeOK ==
    /\ cooldown \in [Phones -> 0 .. COOLDOWN]
    /\ hourly \in [Phones -> 0 .. MaxCount]
    /\ hourlyTtl \in [Phones -> {NoTtl} \cup 1 .. HOUR]
    /\ ipCount \in 0 .. MaxCount
    /\ ipTtl \in {NoTtl} \cup 1 .. HOUR
    /\ at \in [Calls -> CallSteps]
    /\ phone \in [Calls -> Phones \cup {NoPhone}]
    /\ hourlyOf \in [Calls -> 0 .. MaxCount]
    /\ ipOf \in [Calls -> 0 .. MaxCount]
    /\ lostCalls \in 0 .. MaxLost
    /\ stale \subseteq Calls
    /\ granted \in [Phones -> Nat]

LimitInit ==
    /\ cooldown = [p \in Phones |-> 0]
    /\ hourly = [p \in Phones |-> 0]
    /\ hourlyTtl = [p \in Phones |-> NoTtl]
    /\ ipCount = 0 /\ ipTtl = NoTtl
    /\ at = [r \in Calls |-> "idle"]
    /\ phone = [r \in Calls |-> NoPhone]
    /\ hourlyOf = [r \in Calls |-> 0]
    /\ ipOf = [r \in Calls |-> 0]
    /\ lostCalls = 0 /\ stale = {}
    /\ granted = [p \in Phones |-> 0]

Goto(r, step) == at' = [at EXCEPT ![r] = step]

\* The request is over: answered with 429 or with the cooldown, or lost.
EndCall(r) ==
    /\ Goto(r, "idle")
    /\ phone' = [phone EXCEPT ![r] = NoPhone]
    /\ hourlyOf' = [hourlyOf EXCEPT ![r] = 0]
    /\ ipOf' = [ipOf EXCEPT ![r] = 0]
    /\ stale' = stale \ {r}

-----------------------------------------------------------------------------
(***************************************************************************)
(* Lines 50-55: EXISTS cooldown.  A request that finds the key is refused  *)
(* and changes nothing.                                                    *)
(***************************************************************************)
CheckCooldown(r, p) ==
    /\ at[r] = "idle"
    /\ cooldown[p] = 0
    /\ Goto(r, "incrHour")
    /\ phone' = [phone EXCEPT ![r] = p]
    /\ UNCHANGED <<keyVars, hourlyOf, ipOf, lostCalls, stale, granted>>

\* The life of the counter is never set.
AfterIncrHourlyForgets(n) == "incrIp"

\* Line 58: only the first INCR of a life of the key sets its TTL.
AfterIncrHourly(n) == IF n = 1 THEN "expireHour" ELSE "incrIp"

(***************************************************************************)
(* Line 57: INCR hourly.                                                   *)
(***************************************************************************)
IncrHourly(r) ==
    LET n == hourly[phone[r]] + 1
    IN /\ at[r] = "incrHour"
       /\ n <= MaxCount
       /\ hourly' = [hourly EXCEPT ![phone[r]] = n]
       /\ hourlyOf' = [hourlyOf EXCEPT ![r] = n]
       /\ Goto(r, AfterIncrHourly(n))
       /\ UNCHANGED <<cooldown, hourlyTtl, ipCount, ipTtl, phone, ipOf,
                      lostCalls, stale, granted>>

(***************************************************************************)
(* Line 59: EXPIRE hourly 3600, without effect on an absent key.           *)
(***************************************************************************)
ExpireHourly(r) ==
    /\ at[r] = "expireHour"
    /\ hourlyTtl' = IF hourly[phone[r]] = 0 THEN hourlyTtl
                    ELSE [hourlyTtl EXCEPT ![phone[r]] = HOUR]
    /\ Goto(r, "incrIp")
    /\ UNCHANGED <<cooldown, hourly, ipCount, ipTtl, localVars, lostCalls, stale, granted>>

\* The per-phone limit taken one too high.
RefusedLate(h, i) == h > MAX_PER_HOUR + 1 \/ i > MAX_PER_IP

\* Line 64: the request is over one of its limits.
Refused(h, i) == h > MAX_PER_HOUR \/ i > MAX_PER_IP

(***************************************************************************)
(* Lines 60 and 64-68: INCR ip; without an EXPIRE to do, the limits are    *)
(* tested at once and a request over one of them is refused.               *)
(***************************************************************************)
IncrIp(r) ==
    LET n == ipCount + 1
    IN /\ at[r] = "incrIp"
       /\ n <= MaxCount
       /\ ipCount' = n
       /\ \/ /\ n = 1
             /\ Goto(r, "expireIp")
             /\ ipOf' = [ipOf EXCEPT ![r] = n]
             /\ UNCHANGED <<phone, hourlyOf, stale>>
          \/ /\ n # 1 /\ ~Refused(hourlyOf[r], n)
             /\ Goto(r, "cool")
             /\ ipOf' = [ipOf EXCEPT ![r] = n]
             /\ UNCHANGED <<phone, hourlyOf, stale>>
          \/ /\ n # 1 /\ Refused(hourlyOf[r], n)
             /\ EndCall(r)
       /\ UNCHANGED <<cooldown, hourly, hourlyTtl, ipTtl, lostCalls, granted>>

(***************************************************************************)
(* Lines 61-68: EXPIRE ip 3600, then the limits.                           *)
(***************************************************************************)
ExpireIp(r) ==
    /\ at[r] = "expireIp"
    /\ ipTtl' = IF ipCount = 0 THEN ipTtl ELSE HOUR
    /\ \/ /\ ~Refused(hourlyOf[r], ipOf[r])
          /\ Goto(r, "cool")
          /\ UNCHANGED <<localVars, stale>>
       \/ /\ Refused(hourlyOf[r], ipOf[r])
          /\ EndCall(r)
    /\ UNCHANGED <<cooldown, hourly, hourlyTtl, ipCount, lostCalls, granted>>

(***************************************************************************)
(* Line 70: SET cooldown EX 60.                                            *)
(***************************************************************************)
SetCooldown(r) ==
    /\ at[r] = "cool"
    /\ cooldown' = [cooldown EXCEPT ![phone[r]] = COOLDOWN]
    /\ Goto(r, "issue")
    /\ UNCHANGED <<hourly, hourlyTtl, ipCount, ipTtl, localVars, lostCalls, stale, granted>>

(***************************************************************************)
(* request_otp, lines 83-91: an ACTIVE user gets a new code by SMS; the    *)
(* answer is the same for an unknown number.                               *)
(***************************************************************************)
request_otp(r) ==
    /\ at[r] = "issue"
    /\ granted' = IF phone[r] \in Registered /\ r \notin stale
                    THEN [granted EXCEPT ![phone[r]] = @ + 1] ELSE granted
    /\ EndCall(r)
    /\ UNCHANGED <<keyVars, lostCalls>>

LoseCall(r) ==
    /\ at[r] # "idle"
    /\ lostCalls < MaxLost
    /\ lostCalls' = lostCalls + 1
    /\ EndCall(r)
    /\ UNCHANGED <<keyVars, granted>>

\* The remaining life of a key one tick later.
Shorter(ttl) == IF ttl > 1 THEN ttl - 1 ELSE NoTtl

(***************************************************************************)
(* One unit of time: Redis drops the keys whose life ends.                 *)
(***************************************************************************)
LimitTick ==
    LET ended == {p \in Phones : hourlyTtl[p] = 1}
    IN /\ \/ ipTtl # NoTtl
          \/ \E p \in Phones : cooldown[p] > 0 \/ hourlyTtl[p] # NoTtl
       /\ cooldown' = [p \in Phones |-> IF cooldown[p] > 0 THEN cooldown[p] - 1 ELSE 0]
       /\ hourlyTtl' = [p \in Phones |-> Shorter(hourlyTtl[p])]
       /\ hourly' = [p \in Phones |-> IF p \in ended THEN 0 ELSE hourly[p]]
       /\ ipTtl' = Shorter(ipTtl)
       /\ ipCount' = IF ipTtl = 1 THEN 0 ELSE ipCount
       /\ granted' = [p \in Phones |-> IF p \in ended THEN 0 ELSE granted[p]]
       /\ stale' = stale \cup {r \in Calls : at[r] \in Counted /\ phone[r] \in ended}
       /\ UNCHANGED <<at, localVars, lostCalls>>

RequestStep(r) ==
    \/ IncrHourly(r) \/ ExpireHourly(r) \/ IncrIp(r) \/ ExpireIp(r)
    \/ SetCooldown(r) \/ request_otp(r)

LimitNext ==
    \/ \E r \in Calls, p \in Phones : CheckCooldown(r, p)
    \/ \E r \in Calls : RequestStep(r)
    \/ \E r \in Calls : LoseCall(r)
    \/ LimitTick

(***************************************************************************)
(* Time passes, and a handler that was started keeps running: asyncio      *)
(* resumes every coroutine whose Redis reply has arrived.                  *)
(***************************************************************************)
LimitFairness == WF_limitVars(LimitTick) /\ \A r \in Calls : WF_limitVars(RequestStep(r))

LimitSpec == LimitInit /\ [][LimitNext]_limitVars
LimitFairSpec == LimitSpec /\ LimitFairness

-----------------------------------------------------------------------------
(***************************************************************************)
(* During one life of otp:hourly:{phone} at most _OTP_MAX_PER_HOUR codes   *)
(* are sent by requests it counted, whatever requests overlap: INCR hands  *)
(* out each number once, so overtaking the cooldown check gains nothing.   *)
(***************************************************************************)
CodesPerHour == \A p \in Phones : granted[p] <= MAX_PER_HOUR

(***************************************************************************)
(* A phone, or an address, that is over its limit is below it again some   *)
(* time later, unless a request was lost between two of its commands.      *)
(***************************************************************************)
LockoutEndsUnlessLost ==
    /\ \A p \in Phones :
         hourly[p] > MAX_PER_HOUR ~> (hourly[p] <= MAX_PER_HOUR \/ lostCalls > 0)
    /\ ipCount > MAX_PER_IP ~> (ipCount <= MAX_PER_IP \/ lostCalls > 0)
=============================================================================
