----------------------------- MODULE OtpService -----------------------------
(***************************************************************************)
(* One-time codes of one user: class OtpService of                         *)
(* app/services/otp_service.py, at the granularity of Redis commands.      *)
(*                                                                         *)
(* `issue' is one MULTI pipeline, hence one step.  `verify' awaits after   *)
(* every command, and requests for the same user are served by several     *)
(* coroutines and API replicas, so each command is a step of its own and   *)
(* the steps of different requests interleave.  A request can be lost      *)
(* between two commands (process killed, Redis connection error).          *)
(*                                                                         *)
(* A code is represented by the number of the issue() call that made it;   *)
(* two codes drawn by generate_otp are taken to differ.                    *)
(***************************************************************************)
EXTENDS Integers, FiniteSets

CONSTANTS
    Requests,             \* verify() calls that can be in progress together
    OTP_TTL_SECONDS,      \* lifetime of the code key, in clock ticks
    OTP_MAX_ATTEMPTS,     \* settings.OTP_MAX_ATTEMPTS
    MaxIssues,            \* bound: issue() calls explored
    MaxCounter            \* bound: value of the attempts counter explored

ASSUME RequestsAssumption == IsFiniteSet(Requests)
ASSUME TtlAssumption == OTP_TTL_SECONDS \in Nat \ {0}
ASSUME MaxAttemptsAssumption == OTP_MAX_ATTEMPTS \in Nat \ {0}
ASSUME BoundsAssumption == MaxIssues \in Nat /\ MaxCounter \in Nat

VARIABLES
    code,          \* otp:{user}: number of the stored code, NoCode if absent
    codeTtl,       \* remaining life of that key
    attempts,      \* otp:attempts:{user}: counter, 0 if the key is absent
    attemptsTtl,   \* its remaining life, or NoExpiry
    issued,        \* issue() calls so far
    pc,            \* pc[r]: the next command of request r
    submitted,     \* submitted[r]: the code the user typed
    mine,          \* mine[r]: attempt number r was given by INCR
    since,         \* history: number of the newest code when r did its INCR
    compared,      \* history: comparisons of the newest code with an input,
                   \*   by requests counted after it was issued
    comparedLate,  \* history: the same, by requests counted before
    carried,       \* history: requests past INCR when the newest code was issued
    accepted,      \* history: accepted[c]: verify() calls that returned True for c
    overlapped,    \* history: codes a call read while another one that had
                   \*   matched them had not deleted them yet
    lost           \* history: a request was lost before it burned the code

redisVars == <<code, codeTtl, attempts, attemptsTtl>>
requestVars == <<pc, submitted, mine, since>>
acceptVars == <<accepted, overlapped>>
historyVars == <<compared, comparedLate, carried, acceptVars, lost>>
vars == <<redisVars, issued, requestVars, historyVars>>

NoCode == 0
NoExpiry == -1
Codes == 1 .. MaxIssues

Steps == {"idle", "expire", "burn", "get", "consume"}

(***************************************************************************)
(* Requests counted for an earlier code that have not read the code key.   *)
(***************************************************************************)
Waiting == {"expire", "get"}

TypeOK ==
    /\ code \in 0 .. MaxIssues
    /\ codeTtl \in 0 .. OTP_TTL_SECONDS
    /\ attempts \in 0 .. MaxCounter
    /\ attemptsTtl \in {NoExpiry} \cup 0 .. OTP_TTL_SECONDS
    /\ issued \in 0 .. MaxIssues
    /\ pc \in [Requests -> Steps]
    /\ submitted \in [Requests -> 0 .. MaxIssues]
    /\ mine \in [Requests -> 0 .. MaxCounter]
    /\ since \in [Requests -> 0 .. MaxIssues]
    /\ compared \in Nat
    /\ comparedLate \in Nat
    /\ carried \in Nat
    /\ accepted \in [Codes -> Nat] /\ overlapped \subseteq Codes
    /\ lost \in BOOLEAN

Init ==
    /\ code = NoCode /\ codeTtl = 0
    /\ attempts = 0 /\ attemptsTtl = NoExpiry
    /\ issued = 0
    /\ pc = [r \in Requests |-> "idle"]
    /\ submitted = [r \in Requests |-> NoCode]
    /\ mine = [r \in Requests |-> 0]
    /\ since = [r \in Requests |-> 0]
    /\ compared = 0 /\ comparedLate = 0 /\ carried = 0
    /\ accepted = [c \in Codes |-> 0] /\ overlapped = {}
    /\ lost = FALSE

-----------------------------------------------------------------------------
\* A version of issue that leaves the attempts key alone.
issueKeepsAttempts ==
    /\ issued < MaxIssues
    /\ issued' = issued + 1
    /\ code' = issued + 1 /\ codeTtl' = OTP_TTL_SECONDS
    /\ UNCHANGED <<attempts, attemptsTtl>>
    /\ compared' = 0 /\ comparedLate' = 0
    /\ carried' = Cardinality({r \in Requests : pc[r] \in Waiting})
    /\ UNCHANGED <<requestVars, acceptVars, lost>>

(***************************************************************************)
(* issue: SET code EX ttl and DEL attempts in one transaction.             *)
(***************************************************************************)
issue ==
    /\ issued < MaxIssues
    /\ issued' = issued + 1
    /\ code' = issued + 1 /\ codeTtl' = OTP_TTL_SECONDS
    /\ attempts' = 0 /\ attemptsTtl' = NoExpiry
    /\ compared' = 0 /\ comparedLate' = 0
    /\ carried' = Cardinality({r \in Requests : pc[r] \in Waiting})
    /\ UNCHANGED <<requestVars, acceptVars, lost>>

(***************************************************************************)
(* The end of a call: its local variables are gone.                        *)
(***************************************************************************)
Return(r) ==
    /\ pc' = [pc EXCEPT ![r] = "idle"]
    /\ submitted' = [submitted EXCEPT ![r] = NoCode]
    /\ mine' = [mine EXCEPT ![r] = 0]
    /\ since' = [since EXCEPT ![r] = 0]

\* The limit taken as "more than one past the maximum".
AfterCountOffByOne(n) == IF n > OTP_MAX_ATTEMPTS + 1 THEN "burn" ELSE "get"

(***************************************************************************)
(* The branch taken once the attempt is counted: over the limit the code   *)
(* is deleted, otherwise it is read.                                       *)
(***************************************************************************)
AfterCount(n) == IF n > OTP_MAX_ATTEMPTS THEN "burn" ELSE "get"

(***************************************************************************)
(* verify, line 49: INCR attempts.  The input is any code issued so far or *)
(* a wrong one (NoCode).                                                   *)
(***************************************************************************)
VerifyIncr(r) ==
    /\ pc[r] = "idle"
    /\ attempts < MaxCounter
    /\ attempts' = attempts + 1
    /\ mine' = [mine EXCEPT ![r] = attempts + 1]
    /\ since' = [since EXCEPT ![r] = issued]
    /\ \E c \in 0 .. issued : submitted' = [submitted EXCEPT ![r] = c]
    /\ pc' = [pc EXCEPT ![r] =
                 IF attempts + 1 = 1 THEN "expire" ELSE AfterCount(attempts + 1)]
    /\ UNCHANGED <<code, codeTtl, attemptsTtl, issued, historyVars>>

(***************************************************************************)
(* verify, lines 50-51: EXPIRE attempts, without effect on an absent key.  *)
(***************************************************************************)
VerifyExpire(r) ==
    /\ pc[r] = "expire"
    /\ attemptsTtl' = IF attempts = 0 THEN attemptsTtl ELSE OTP_TTL_SECONDS
    /\ pc' = [pc EXCEPT ![r] = AfterCount(mine[r])]
    /\ UNCHANGED <<code, codeTtl, attempts, issued, submitted, mine, since,
                   historyVars>>

\* Over the limit the request is refused and the code is left in place.
VerifyBurnRefusesOnly(r) ==
    /\ pc[r] = "burn"
    /\ Return(r)
    /\ UNCHANGED <<redisVars, issued, historyVars>>

(***************************************************************************)
(* verify, lines 53-55: DEL code, return False.                            *)
(***************************************************************************)
VerifyBurn(r) ==
    /\ pc[r] = "burn"
    /\ code' = NoCode /\ codeTtl' = 0
    /\ Return(r)
    /\ UNCHANGED <<attempts, attemptsTtl, issued, historyVars>>

\* A call that has read code c and found it equal, but not deleted it yet.
Matched(q, c) == pc[q] = "consume" /\ submitted[q] = c

(***************************************************************************)
(* verify, lines 57-61: GET code, compare.  The comparison has no await:   *)
(* it belongs to the same step.                                            *)
(***************************************************************************)
VerifyGet(r) ==
    /\ pc[r] = "get"
    /\ IF code # NoCode /\ code = submitted[r]
         THEN pc' = [pc EXCEPT ![r] = "consume"] /\ UNCHANGED <<submitted, mine, since>>
         ELSE Return(r)
    /\ IF code = NoCode THEN UNCHANGED <<compared, comparedLate>>
       ELSE IF since[r] = issued
         THEN compared' = compared + 1 /\ UNCHANGED comparedLate
         ELSE comparedLate' = comparedLate + 1 /\ UNCHANGED compared
    /\ overlapped' = overlapped \cup {c \in Codes : /\ c = code /\ c = submitted[r]
                                                   /\ \E q \in Requests : Matched(q, c)}
    /\ UNCHANGED <<redisVars, issued, carried, accepted, lost>>

\* A matching code is left in place.
VerifyConsumeKeeps(r) ==
    /\ pc[r] = "consume"
    /\ attempts' = 0 /\ attemptsTtl' = NoExpiry
    /\ accepted' = [accepted EXCEPT ![submitted[r]] = @ + 1]
    /\ Return(r)
    /\ UNCHANGED <<code, codeTtl, issued, compared, comparedLate, carried, overlapped, lost>>

(***************************************************************************)
(* verify, lines 62-63: DEL code attempts, return True.                    *)
(***************************************************************************)
VerifyConsume(r) ==
    /\ pc[r] = "consume"
    /\ code' = NoCode /\ codeTtl' = 0
    /\ attempts' = 0 /\ attemptsTtl' = NoExpiry
    /\ accepted' = [accepted EXCEPT ![submitted[r]] = @ + 1]
    /\ Return(r)
    /\ UNCHANGED <<issued, compared, comparedLate, carried, overlapped, lost>>

(***************************************************************************)
(* The request ends between two commands: no further command of it runs.   *)
(***************************************************************************)
LoseRequest(r) ==
    /\ pc[r] # "idle"
    /\ Return(r)
    /\ lost' = (lost \/ pc[r] = "burn")
    /\ UNCHANGED <<redisVars, issued, compared, comparedLate, carried, acceptVars>>

(***************************************************************************)
(* One unit of time: Redis drops the keys whose life ends.                 *)
(***************************************************************************)
Tick ==
    /\ codeTtl > 0 \/ attemptsTtl > 0
    /\ codeTtl' = IF codeTtl > 0 THEN codeTtl - 1 ELSE 0
    /\ code' = IF codeTtl = 1 THEN NoCode ELSE code
    /\ attemptsTtl' = IF attemptsTtl > 1 THEN attemptsTtl - 1 ELSE NoExpiry
    /\ attempts' = IF attemptsTtl = 1 THEN 0 ELSE attempts
    /\ UNCHANGED <<issued, requestVars, historyVars>>

Next ==
    \/ issue
    \/ Tick
    \/ \E r \in Requests :
         \/ VerifyIncr(r) \/ VerifyExpire(r) \/ VerifyBurn(r)
         \/ VerifyGet(r) \/ VerifyConsume(r) \/ LoseRequest(r)

Spec == Init /\ [][Next]_vars

-----------------------------------------------------------------------------
(***************************************************************************)
(* One issued code is compared with at most OTP_MAX_ATTEMPTS inputs of     *)
(* requests counted since it was issued, and with at most one input of     *)
(* each request that had been counted for an earlier code and was still on *)
(* its way to GET: verify() counts before it reads, and no interleaving,   *)
(* expiry or lost request resets the counter of a live code.               *)
(***************************************************************************)
BoundedGuesses ==
    /\ compared <= OTP_MAX_ATTEMPTS
    /\ comparedLate <= carried

(***************************************************************************)
(* While a code stays in Redis its attempt counter never goes down: the    *)
(* counter key, given its TTL by a later command than the code key, does   *)
(* not expire first, and only issue() and a success delete it.             *)
(***************************************************************************)
CounterOutlivesCode ==
    [][code # NoCode /\ code' = code /\ issued' = issued
         => attempts' >= attempts]_vars

(***************************************************************************)
(* "a brute-force attempt burns the OTP rather than leaving it live": a    *)
(* code whose counter is past the maximum is still stored only while a     *)
(* request is about to delete it, unless such a request was lost.          *)
(***************************************************************************)
OverLimitIsBurned ==
    code # NoCode /\ attempts > OTP_MAX_ATTEMPTS
        => lost \/ \E r \in Requests : pc[r] = "burn"

(***************************************************************************)
(* "second attempt with same code fails" (tests/test_otp_service.py:84): a *)
(* code is accepted by two verify() calls only if one of them read it      *)
(* between the GET and the DEL of another.  No expiry, late delete,        *)
(* reissue or lost request lets a code be accepted again.                  *)
(***************************************************************************)
AcceptedOnce == \A c \in Codes : accepted[c] <= 1 \/ c \in overlapped
=============================================================================
