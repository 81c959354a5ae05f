---------------------------- MODULE GroupsProofs ----------------------------
(***************************************************************************)
(* What Groups guarantees for any number of users and of handlers that     *)
(* overlap in any way.                                                     *)
(***************************************************************************)
EXTENDS Groups, TLAPS

(***************************************************************************)
(* What a handler in slot r holds: a user who asked to join, except while  *)
(* it sends typing frames.                                                 *)
(***************************************************************************)
Handler == [pc : {"free", "existing", "join", "select", "decide", "typing", "publish"},
            user : Everyone, approve : BOOLEAN, loaded : Statuses, to : SUBSET Everyone]

\* Handlers that have read and may still write for their user.
Writing == {"existing", "join", "decide"}

(***************************************************************************)
(* Only a group that asks for approval has pending requests.               *)
(***************************************************************************)
PendingInv ==
    /\ \A u \in Users : status[u] = "pending" => approval
    /\ \A r \in Requests : req[r].pc = "decide" => approval
    /\ \A r \in Requests : req[r].pc \in Writing \cup {"select"} => req[r].user \in Users

(***************************************************************************)
(* A handler that may still write for a member was overtaken.              *)
(***************************************************************************)
OvertakenInv ==
    \A r \in Requests : req[r].pc \in Writing /\ req[r].user \in members => req[r].user \in raced

\* Only members type.
TypistInv == \A r \in Requests : req[r].pc = "typing" => req[r].user \in members

IInv ==
    /\ TypeOK /\ PendingInv /\ OvertakenInv /\ TypistInv
    /\ AuditedOnce /\ ApprovedIsMember /\ MismatchNeedsRace /\ TypingAmongMembers

-----------------------------------------------------------------------------
(***************************************************************************)
(* The invariant holds before the group is created.                        *)
(***************************************************************************)
LEMMA IInvInit == Init => IInv
<1> SUFFICES ASSUME Init PROVE IInv
  OBVIOUS
<1> USE GroupsAssumption DEF Init
<1>1. Free \in Handler
  BY DEF Free, Handler, Everyone, Statuses
<1>2. TypeOK
  BY <1>1 DEF TypeOK, Handler, Statuses
<1>3. PendingInv /\ OvertakenInv /\ TypistInv /\ TypingAmongMembers
  BY DEF PendingInv, OvertakenInv, TypistInv, TypingAmongMembers, Writing, Free
<1>4. AuditedOnce /\ ApprovedIsMember /\ MismatchNeedsRace
  BY DEF AuditedOnce, ApprovedIsMember, MismatchNeedsRace
<1> QED BY <1>2, <1>3, <1>4 DEF IInv

(***************************************************************************)
(* A step that only moves the handler in r to h, without writing.          *)
(***************************************************************************)
LEMMA Moves ==
    ASSUME IInv, NEW r \in Requests, NEW h \in Handler,
           req' = [req EXCEPT ![r] = h], UNCHANGED <<groupVars, raced>>,
           h.pc \in Writing \cup {"select"} => h.user \in Users,
           h.pc = "decide" => approval,
           h.pc \in Writing /\ h.user \in members => h.user \in raced,
           h.pc = "typing" => h.user \in members,
           h.pc = "publish" => h.user \in members /\ h.to \subseteq members \ {h.user}
    PROVE  IInv'
<1>1. TypeOK'
  BY DEF IInv, TypeOK, groupVars, Handler
<1>2. \A q \in Requests : req'[q] = IF q = r THEN h ELSE req[q]
  BY DEF IInv, TypeOK
<1>3. UNCHANGED <<approval, members, status, audits, raced>>
  BY DEF groupVars
<1>4. PendingInv' /\ OvertakenInv' /\ TypistInv' /\ TypingAmongMembers'
  BY <1>2, <1>3 DEF IInv, PendingInv, OvertakenInv, TypistInv, TypingAmongMembers
<1>5. AuditedOnce' /\ ApprovedIsMember' /\ MismatchNeedsRace'
  BY <1>3 DEF IInv, AuditedOnce, ApprovedIsMember, MismatchNeedsRace
<1> QED BY <1>1, <1>4, <1>5 DEF IInv

(***************************************************************************)
(* The slot of a handler that ends is free and well typed.                 *)
(***************************************************************************)
LEMMA FreeSlot == Free \in Handler /\ Free.pc = "free"
BY DEF Free, Handler, Everyone, Statuses

(***************************************************************************)
(* A commit of the handler in r for its user u: u's status is written, and *)
(* u becomes a member exactly when it says so or was one already.          *)
(***************************************************************************)
LEMMA Commits ==
    ASSUME IInv, NEW r \in Requests, req[r].pc \in {"join", "decide"},
           NEW s \in Statuses, NEW join \in BOOLEAN, NEW audit \in BOOLEAN,
           members' = IF join THEN members \cup {req[r].user} ELSE members,
           status' = [status EXCEPT ![req[r].user] = s],
           audits' = [audits EXCEPT ![req[r].user] = IF audit THEN @ + 1 ELSE @],
           approval' = approval, NoteRace(r), Finish(r),
           s = "approved" <=> join, s = "pending" => approval,
           join => req[r].user \notin members,
           join => (audit <=> approval), ~join => ~audit
    PROVE  IInv'
<1> USE GroupsAssumption
<1> DEFINE u == req[r].user
<1>t. TypeOK
  BY DEF IInv
<1>u. u \in Users /\ u \in Everyone
  BY DEF IInv, PendingInv, Writing, Everyone
<1>2. \A q \in Requests : req'[q] = IF q = r THEN Free ELSE req[q]
  BY <1>t DEF TypeOK, Finish
<1>3. /\ raced' \subseteq Users /\ raced \subseteq raced'
      /\ \A q \in Requests \ {r} : req[q].user = u /\ req[q].pc \in Writing => u \in raced'
  BY <1>t, <1>u DEF TypeOK, NoteRace, Writing
<1>4. \A v \in Users : status'[v] = IF v = u THEN s ELSE status[v]
  BY <1>t DEF TypeOK
<1>5. \A v \in Users : audits'[v] = IF v = u /\ audit THEN audits[v] + 1 ELSE audits[v]
  BY <1>t DEF TypeOK
<1>6. members \subseteq members' /\ members' \subseteq members \cup {u}
  OBVIOUS
<1>7. TypeOK'
  <2>1. req' \in [Requests -> Handler]
    BY <1>t, FreeSlot DEF TypeOK, Finish, Handler
  <2>2. audits' \in [Users -> Nat]
    <3> DEFINE n == IF audit THEN audits[u] + 1 ELSE audits[u]
    <3>1. n \in Nat
      BY <1>t, <1>u DEF TypeOK
    <3>2. audits' = [audits EXCEPT ![u] = n]
      OBVIOUS
    <3> HIDE DEF n
    <3> QED BY <1>t, <3>1, <3>2 DEF TypeOK
  <2>3. status' \in [Users -> Statuses]
    BY <1>t DEF TypeOK
  <2> QED BY <1>t, <1>u, <1>3, <1>6, <2>1, <2>2, <2>3 DEF TypeOK, Handler
<1>8. PendingInv'
  BY <1>2, <1>4, FreeSlot DEF IInv, PendingInv, Writing
<1>9. OvertakenInv'
  BY <1>2, <1>3, <1>6, FreeSlot DEF IInv, OvertakenInv, Writing
<1>10. TypistInv' /\ TypingAmongMembers'
  BY <1>2, <1>6, FreeSlot DEF IInv, TypistInv, TypingAmongMembers
<1>11. AuditedOnce'
  <2> SUFFICES ASSUME NEW v \in Users
               PROVE  audits'[v] = IF approval' /\ v \in members' THEN 1 ELSE 0
    BY DEF AuditedOnce
  <2>1. audits[v] = IF approval /\ v \in members THEN 1 ELSE 0
    BY DEF IInv, AuditedOnce
  <2>2. CASE v = u /\ join
    BY <1>5, <2>1, <2>2
  <2>3. CASE ~(v = u /\ join)
    BY <1>5, <2>1, <2>3
  <2> QED BY <2>2, <2>3
<1>12. ApprovedIsMember'
  BY <1>4, <1>6 DEF IInv, ApprovedIsMember
<1>13. MismatchNeedsRace'
  <2> SUFFICES ASSUME NEW v \in members' \cap Users, status'[v] # "approved"
               PROVE  v \in raced'
    BY DEF MismatchNeedsRace
  <2>1. CASE v # u
    BY <1>3, <1>4, <1>6, <2>1 DEF IInv, MismatchNeedsRace
  <2>2. CASE v = u
    <3>1. v \in members
      BY <1>4, <2>2
    <3> QED BY <1>3, <2>2, <3>1 DEF IInv, OvertakenInv, Writing
  <2> QED BY <2>1, <2>2
<1> QED BY <1>7, <1>8, <1>9, <1>10, <1>11, <1>12, <1>13 DEF IInv

(***************************************************************************)
(* Every step preserves the invariant: one step per action.                *)
(***************************************************************************)
LEMMA IInvStep == IInv /\ [Next]_vars => IInv'
<1> SUFFICES ASSUME IInv, [Next]_vars PROVE IInv'
  OBVIOUS
<1> USE GroupsAssumption
<1>t. TypeOK
  BY DEF IInv
<1>h. \A r \in Requests : req[r] \in Handler
  BY <1>t DEF TypeOK, Handler
<1>e. Users \subseteq Everyone
  BY DEF Everyone
<1>0. ASSUME NEW r \in Requests, Finish(r), UNCHANGED <<groupVars, raced>> PROVE IInv'
  <2>1. req' = [req EXCEPT ![r] = Free]
    BY <1>0 DEF Finish
  <2> QED BY <1>0, <2>1, FreeSlot, Moves DEF Writing
<1>1. CASE create_group
  <2>1. members = {} /\ members' = {Owner} /\ UNCHANGED <<approval, status, audits, req, raced>>
    BY <1>1 DEF create_group
  <2>2. TypeOK'
    BY <2>1, <1>t DEF TypeOK, Everyone
  <2>3. PendingInv' /\ OvertakenInv' /\ TypistInv' /\ TypingAmongMembers'
    BY <2>1 DEF IInv, PendingInv, OvertakenInv, TypistInv, TypingAmongMembers, Writing
  <2>4. AuditedOnce' /\ ApprovedIsMember' /\ MismatchNeedsRace'
    BY <2>1 DEF IInv, AuditedOnce, ApprovedIsMember, MismatchNeedsRace
  <2> QED BY <2>2, <2>3, <2>4 DEF IInv
<1>2. ASSUME NEW r \in Requests, NEW u \in Users, request_join(r, u) PROVE IInv'
  <2> DEFINE h == [Free EXCEPT !.pc = "existing", !.user = u, !.approve = FALSE]
  <2>1. h \in Handler /\ h.pc = "existing" /\ h.user = u
    BY <1>e, FreeSlot DEF Free, Handler
  <2>2. req' = [req EXCEPT ![r] = h] /\ UNCHANGED <<groupVars, raced>> /\ u \notin members
    BY <1>2 DEF request_join, Start
  <2> HIDE DEF h
  <2> QED BY <2>1, <2>2, Moves
<1>3. ASSUME NEW r \in Requests, NEW u \in Users, NEW approve \in BOOLEAN,
             _require_admin_member(r, u, approve)
      PROVE  IInv'
  <2> DEFINE h == [Free EXCEPT !.pc = "select", !.user = u, !.approve = approve]
  <2>1. h \in Handler /\ h.pc = "select" /\ h.user = u
    BY <1>e, FreeSlot DEF Free, Handler
  <2>2. req' = [req EXCEPT ![r] = h] /\ UNCHANGED <<groupVars, raced>>
    BY <1>3 DEF _require_admin_member, Start
  <2> HIDE DEF h
  <2> QED BY <2>1, <2>2, Moves DEF Writing
<1>4. ASSUME NEW r \in Requests, NEW u \in Everyone, update_typing(r, u) PROVE IInv'
  <2> DEFINE h == [Free EXCEPT !.pc = "typing", !.user = u, !.approve = FALSE]
  <2>1. h \in Handler /\ h.pc = "typing" /\ h.user = u
    BY FreeSlot DEF Free, Handler
  <2>2. req' = [req EXCEPT ![r] = h] /\ UNCHANGED <<groupVars, raced>> /\ u \in members
    BY <1>4 DEF update_typing, Start
  <2> HIDE DEF h
  <2> QED BY <2>1, <2>2, Moves DEF Writing
<1>5. ASSUME NEW r \in Requests, LoadExisting(r) PROVE IInv'
  <2>p. req[r].pc = "existing" /\ UNCHANGED <<groupVars, raced>>
    BY <1>5 DEF LoadExisting
  <2>1. CASE status[req[r].user] = "pending"
    BY <1>5, <2>p, <2>1, <1>0 DEF LoadExisting, Finish
  <2>2. CASE status[req[r].user] # "pending"
    <3> DEFINE h == [req[r] EXCEPT !.pc = "join", !.loaded = status[req[r].user]]
    <3>1. req[r].user \in Users
      BY <2>p DEF IInv, PendingInv, Writing
    <3>2. h \in Handler /\ h.pc = "join" /\ h.user = req[r].user
      BY <1>h, <1>t, <3>1 DEF Handler, TypeOK
    <3>3. req' = [req EXCEPT ![r] = h]
      BY <1>5, <1>t, <2>2 DEF LoadExisting, TypeOK
    <3>4. h.user \in members => h.user \in raced
      BY <2>p, <3>2 DEF IInv, OvertakenInv, Writing
    <3> HIDE DEF h
    <3> QED BY <2>p, <3>1, <3>2, <3>3, <3>4, Moves
  <2> QED BY <2>1, <2>2
<1>6. ASSUME NEW r \in Requests, CommitJoin(r) PROVE IInv'
  <2> DEFINE u == req[r].user
             conflict == \/ ~approval /\ u \in members
                         \/ req[r].loaded = "none" /\ status[u] # "none"
  <2>p. req[r].pc = "join" /\ Finish(r)
    BY <1>6 DEF CommitJoin
  <2>u. u \in Users
    BY <2>p DEF IInv, PendingInv, Writing
  <2>1. CASE conflict
    BY <1>6, <2>p, <2>1, <1>0 DEF CommitJoin
  <2>2. CASE ~conflict
    <3>1. /\ members' = IF approval THEN members ELSE members \cup {u}
          /\ status' = [status EXCEPT ![u] = JoinStatus]
          /\ NoteRace(r) /\ approval' = approval /\ audits' = audits
      BY <1>6, <2>2 DEF CommitJoin
    <3>2. JoinStatus \in Statuses /\ (JoinStatus = "approved" <=> ~approval)
          /\ (JoinStatus = "pending" => approval)
      BY DEF JoinStatus, Statuses
    <3>3. audits' = [audits EXCEPT ![u] = IF FALSE THEN @ + 1 ELSE @]
      BY <3>1, <1>t DEF TypeOK
    <3>4. members' = IF ~approval THEN members \cup {u} ELSE members
      BY <3>1
    <3>5. approval \in BOOLEAN /\ (~approval => u \notin members)
      BY <1>t, <2>2 DEF TypeOK
    <3>6. (~approval) \in BOOLEAN
      BY Zenon
    <3> QED BY <2>p, <3>1, <3>2, <3>3, <3>4, <3>5, <3>6, Commits
  <2> QED BY <2>1, <2>2
<1>7. ASSUME NEW r \in Requests, decide_request(r) PROVE IInv'
  <2>p. req[r].pc = "select" /\ UNCHANGED <<groupVars, raced>>
    BY <1>7 DEF decide_request
  <2>u. req[r].user \in Users
    BY <2>p DEF IInv, PendingInv
  <2>1. CASE status[req[r].user] # "pending"
    BY <1>7, <2>p, <2>1, <1>0 DEF decide_request, Finish
  <2>2. CASE status[req[r].user] = "pending"
    <3> DEFINE h == [req[r] EXCEPT !.pc = "decide"]
    <3>1. h \in Handler /\ h.pc = "decide" /\ h.user = req[r].user
      BY <1>h DEF Handler
    <3>2. req' = [req EXCEPT ![r] = h]
      BY <1>7, <1>t, <2>2 DEF decide_request, TypeOK
    <3>3. approval
      BY <2>u, <2>2 DEF IInv, PendingInv
    <3>4. h.user \in members => h.user \in raced
      BY <2>u, <2>2, <3>1 DEF IInv, MismatchNeedsRace
    <3> HIDE DEF h
    <3> QED BY <2>p, <2>u, <3>1, <3>2, <3>3, <3>4, Moves
  <2> QED BY <2>1, <2>2
<1>8. ASSUME NEW r \in Requests, CommitDecision(r) PROVE IInv'
  <2> DEFINE u == req[r].user
             s == IF req[r].approve THEN "approved" ELSE "rejected"
  <2>p. req[r].pc = "decide" /\ Finish(r)
    BY <1>8 DEF CommitDecision
  <2>1. CASE req[r].approve /\ u \in members
    BY <1>8, <2>p, <2>1, <1>0 DEF CommitDecision
  <2>2. CASE ~(req[r].approve /\ u \in members)
    <3>1. /\ status' = [status EXCEPT ![u] = s]
          /\ members' = IF req[r].approve THEN members \cup {u} ELSE members
          /\ audits' = [audits EXCEPT ![u] = IF req[r].approve THEN @ + 1 ELSE @]
          /\ NoteRace(r) /\ approval' = approval
      BY <1>8, <2>2 DEF CommitDecision
    <3>2. s \in Statuses /\ (s = "approved" <=> req[r].approve) /\ s # "pending"
      BY DEF Statuses
    <3>3. req[r].approve \in BOOLEAN /\ approval
      BY <1>h, <2>p DEF Handler, IInv, PendingInv
    <3> HIDE DEF s
    <3> QED BY <2>p, <2>2, <3>1, <3>2, <3>3, Commits
  <2> QED BY <2>1, <2>2
<1>9. ASSUME NEW r \in Requests, broadcast_typing(r) PROVE IInv'
  <2> DEFINE h == [req[r] EXCEPT !.pc = "publish", !.to = members \ {req[r].user}]
  <2>1. h \in Handler /\ h.pc = "publish" /\ h.user = req[r].user
        /\ h.to = members \ {req[r].user}
    BY <1>h, <1>t DEF Handler, TypeOK
  <2>2. req' = [req EXCEPT ![r] = h] /\ UNCHANGED <<groupVars, raced>>
    BY <1>9, <1>t DEF broadcast_typing, TypeOK
  <2>3. req[r].user \in members
    BY <1>9 DEF broadcast_typing, IInv, TypistInv
  <2> HIDE DEF h
  <2> QED BY <2>1, <2>2, <2>3, Moves DEF Writing
<1>10. ASSUME NEW r \in Requests, PublishTyping(r) PROVE IInv'
  <2>p. req[r].pc = "publish" /\ UNCHANGED <<groupVars, raced>>
    BY <1>10 DEF PublishTyping
  <2>1. CASE req[r].to = {}
    BY <1>10, <2>p, <2>1, <1>0 DEF PublishTyping
  <2>2. CASE req[r].to # {}
    <3>1. PICK u \in req[r].to : req' = [req EXCEPT ![r].to = @ \ {u}]
      BY <1>10, <2>2 DEF PublishTyping
    <3> DEFINE h == [req[r] EXCEPT !.to = @ \ {u}]
    <3>2. h \in Handler /\ h.pc = "publish" /\ h.user = req[r].user /\ h.to = req[r].to \ {u}
      BY <1>h, <2>p DEF Handler
    <3>3. req' = [req EXCEPT ![r] = h]
      BY <3>1, <1>t DEF TypeOK
    <3>4. h.user \in members /\ h.to \subseteq members \ {h.user}
      BY <2>p, <3>2 DEF IInv, TypingAmongMembers
    <3> HIDE DEF h
    <3> QED BY <2>p, <3>2, <3>3, <3>4, Moves DEF Writing
  <2> QED BY <2>1, <2>2
<1>11. ASSUME NEW r \in Requests, Fail(r) PROVE IInv'
  BY <1>11, <1>0 DEF Fail
<1>12. CASE UNCHANGED vars
  BY <1>12 DEF vars, IInv, TypeOK, PendingInv, OvertakenInv, TypistInv, AuditedOnce,
               ApprovedIsMember, MismatchNeedsRace, TypingAmongMembers
<1> QED BY <1>1, <1>2, <1>3, <1>4, <1>5, <1>6, <1>7, <1>8, <1>9, <1>10, <1>11, <1>12
        DEF Next, HandlerStep, Arrival

(***************************************************************************)
(* IInv holds in every reachable state.                                    *)
(***************************************************************************)
THEOREM Invariance == Spec => []IInv
BY IInvInit, IInvStep, PTL DEF Spec

(***************************************************************************)
(* The rows and the handlers keep their types.                             *)
(***************************************************************************)
THEOREM TypeCorrect == Spec => []TypeOK
<1>1. IInv => TypeOK
  BY DEF IInv
<1> QED BY <1>1, Invariance, PTL

(***************************************************************************)
(* However many approvals of a user overlap, one takes effect and one      *)
(* audit entry is written.                                                 *)
(***************************************************************************)
THEOREM ApprovalsAreAudited == Spec => []AuditedOnce
<1>1. IInv => AuditedOnce
  BY DEF IInv
<1> QED BY <1>1, Invariance, PTL

(***************************************************************************)
(* Who is told "approved" is a member.                                     *)
(***************************************************************************)
THEOREM ApprovedMembers == Spec => []ApprovedIsMember
<1>1. IInv => ApprovedIsMember
  BY DEF IInv
<1> QED BY <1>1, Invariance, PTL

(***************************************************************************)
(* Only handlers that overlap can leave a member pending or rejected.      *)
(***************************************************************************)
THEOREM OnlyRacesMismatch == Spec => []MismatchNeedsRace
<1>1. IInv => MismatchNeedsRace
  BY DEF IInv
<1> QED BY <1>1, Invariance, PTL

(***************************************************************************)
(* Typing frames go from members to members.                               *)
(***************************************************************************)
THEOREM TypingStaysInside == Spec => []TypingAmongMembers
<1>1. IInv => TypingAmongMembers
  BY DEF IInv
<1> QED BY <1>1, Invariance, PTL
=============================================================================
