------------------------------- MODULE Groups -------------------------------
(***************************************************************************)
(* Membership of one group: create_group, request_join and decide_request  *)
(* of app/api/routes/groups.py over the tables of app/models/group.py, and *)
(* the typing indicator of app/api/routes/receipts.py, which reads the     *)
(* members.                                                                *)
(*                                                                         *)
(* A handler reads with one SELECT per await and writes in one transaction *)
(* at the end; nothing it read is locked meanwhile.  A violated unique     *)
(* index rolls its transaction back.  No endpoint grants a role, so the    *)
(* owner is the only one who manages members; several devices of the owner *)
(* and of the users send requests at the same time.                        *)
(***************************************************************************)
EXTENDS Integers, FiniteSets

CONSTANTS
    Users,      \* users who ask to join
    Owner,      \* the user who created the group
    Requests    \* handlers that can be at work at one time

ASSUME GroupsAssumption == Owner \notin Users

VARIABLES
    approval,   \* join_approval_required
    members,    \* user_id of the rows of group_members
    status,     \* status[u]: of the row of group_join_requests, "none" without one
    audits,     \* audits[u]: GROUP_MEMBER_ADDED entries that name u
    req,        \* req[r]: the handler in slot r
    raced       \* history: users for whom a handler wrote while another
                \*   had read and had still to write

vars == <<approval, members, status, audits, req, raced>>
groupVars == <<approval, members, status, audits>>

Everyone == Users \cup {Owner}
Statuses == {"none", "pending", "approved", "rejected"}
Free == [pc |-> "free", user |-> Owner, approve |-> FALSE, loaded |-> "none", to |-> {}]

TypeOK ==
    /\ approval \in BOOLEAN
    /\ members \subseteq Everyone
    /\ status \in [Users -> Statuses]
    /\ audits \in [Users -> Nat]
    /\ req \in [Requests -> [pc : {"free", "existing", "join", "select", "decide", "typing", "publish"},
                             user : Everyone, approve : BOOLEAN, loaded : Statuses,
                             to : SUBSET Everyone]]
    /\ raced \subseteq Users

Init ==
    /\ approval \in BOOLEAN
    /\ members = {}
    /\ status = [u \in Users |-> "none"]
    /\ audits = [u \in Users |-> 0]
    /\ req = [r \in Requests |-> Free]
    /\ raced = {}

Start(r, pc, u, approve) ==
    /\ req[r].pc = "free"
    /\ req' = [req EXCEPT ![r] = [Free EXCEPT !.pc = pc, !.user = u, !.approve = approve]]
    /\ UNCHANGED <<groupVars, raced>>

Finish(r) == req' = [req EXCEPT ![r] = Free]

\* The handler in r writes for its user: who else is about to?
NoteRace(r) ==
    raced' = raced \cup {req[r].user : q \in {q \in Requests \ {r} :
                              req[q].user = req[r].user /\ req[q].pc \in {"existing", "join", "decide"}}}

-----------------------------------------------------------------------------
(***************************************************************************)
(* create_group: the group, its owner's row and the audit entry in one     *)
(* transaction.                                                            *)
(***************************************************************************)
create_group ==
    /\ members = {}
    /\ members' = {Owner}
    /\ UNCHANGED <<approval, status, audits, req, raced>>

(***************************************************************************)
(* request_join lines 193-197: the group exists and the user is no member. *)
(***************************************************************************)
request_join(r, u) ==
    /\ members # {} /\ u \notin members
    /\ Start(r, "existing", u, FALSE)

(***************************************************************************)
(* Lines 199-206: the user's request row, 409 while it is pending.         *)
(***************************************************************************)
LoadExisting(r) ==
    LET loaded == status[req[r].user]
    IN /\ req[r].pc = "existing"
       /\ req' = [req EXCEPT ![r] = IF loaded = "pending" THEN Free
                                    ELSE [@ EXCEPT !.pc = "join", !.loaded = loaded]]
       /\ UNCHANGED <<groupVars, raced>>

\* The two outcomes of lines 217-221 are swapped.
JoinStatusSwapped == IF approval THEN "approved" ELSE "pending"

\* Lines 217-221.
JoinStatus == IF approval THEN "pending" ELSE "approved"

(***************************************************************************)
(* Lines 208-224: the transaction.  An open group takes the user in at     *)
(* once.  A member row that exists (ix_group_members_unique), or a request *)
(* row that has appeared since (ix_join_req_unique_pending), undoes it.    *)
(***************************************************************************)
CommitJoin(r) ==
    LET u == req[r].user
        conflict == \/ ~approval /\ u \in members
                    \/ req[r].loaded = "none" /\ status[u] # "none"
    IN /\ req[r].pc = "join"
       /\ IF conflict THEN UNCHANGED <<groupVars, raced>>
          ELSE /\ members' = IF approval THEN members ELSE members \cup {u}
               /\ status' = [status EXCEPT ![u] = JoinStatus]
               /\ NoteRace(r)
               /\ UNCHANGED <<approval, audits>>
       /\ Finish(r)

(***************************************************************************)
(* decide_request line 253: the caller manages members.                    *)
(***************************************************************************)
_require_admin_member(r, u, approve) ==
    /\ Owner \in members
    /\ Start(r, "select", u, approve)

\* A request that was decided before is decided again.
decide_requestAnyStatus(r) ==
    /\ req[r].pc = "select"
    /\ req' = [req EXCEPT ![r] = IF status[req[r].user] # "none" THEN [@ EXCEPT !.pc = "decide"]
                                 ELSE Free]
    /\ UNCHANGED <<groupVars, raced>>

(***************************************************************************)
(* Lines 255-263: the request, if it is still pending, else 404.           *)
(***************************************************************************)
decide_request(r) ==
    /\ req[r].pc = "select"
    /\ req' = [req EXCEPT ![r] = IF status[req[r].user] = "pending" THEN [@ EXCEPT !.pc = "decide"]
                                 ELSE Free]
    /\ UNCHANGED <<groupVars, raced>>

\* group_members has no unique index.
CommitDecisionDuplicate(r) ==
    LET u == req[r].user
    IN /\ req[r].pc = "decide"
       /\ status' = [status EXCEPT ![u] = IF req[r].approve THEN "approved" ELSE "rejected"]
       /\ members' = IF req[r].approve THEN members \cup {u} ELSE members
       /\ audits' = [audits EXCEPT ![u] = IF req[r].approve THEN @ + 1 ELSE @]
       /\ NoteRace(r)
       /\ UNCHANGED approval
       /\ Finish(r)

(***************************************************************************)
(* Lines 265-285: the decision, written by primary key whatever the row    *)
(* holds by now, with the member and the audit entry of an approval.       *)
(***************************************************************************)
CommitDecision(r) ==
    LET u == req[r].user
    IN /\ req[r].pc = "decide"
       /\ IF req[r].approve /\ u \in members THEN UNCHANGED <<groupVars, raced>>
          ELSE /\ status' = [status EXCEPT ![u] = IF req[r].approve THEN "approved" ELSE "rejected"]
               /\ members' = IF req[r].approve THEN members \cup {u} ELSE members
               /\ audits' = [audits EXCEPT ![u] = IF req[r].approve THEN @ + 1 ELSE @]
               /\ NoteRace(r)
               /\ UNCHANGED approval
       /\ Finish(r)

(***************************************************************************)
(* update_typing of receipts.py with the group's id: members only.         *)
(***************************************************************************)
update_typing(r, u) == u \in members /\ Start(r, "typing", u, FALSE)

(***************************************************************************)
(* broadcast_typing: the other members ...                                 *)
(***************************************************************************)
broadcast_typing(r) ==
    /\ req[r].pc = "typing"
    /\ req' = [req EXCEPT ![r].pc = "publish", ![r].to = members \ {req[r].user}]
    /\ UNCHANGED <<groupVars, raced>>

(***************************************************************************)
(* ... get one PUBLISH each.                                               *)
(***************************************************************************)
PublishTyping(r) ==
    /\ req[r].pc = "publish"
    /\ IF req[r].to = {} THEN Finish(r)
       ELSE \E u \in req[r].to : req' = [req EXCEPT ![r].to = @ \ {u}]
    /\ UNCHANGED <<groupVars, raced>>

\* A handler that fails has written nothing yet.
Fail(r) ==
    /\ req[r].pc # "free"
    /\ Finish(r)
    /\ UNCHANGED <<groupVars, raced>>

HandlerStep(r) ==
    \/ LoadExisting(r) \/ CommitJoin(r) \/ decide_request(r) \/ CommitDecision(r)
    \/ broadcast_typing(r) \/ PublishTyping(r) \/ Fail(r)

Arrival(r, u) ==
    \/ request_join(r, u)
    \/ \E approve \in BOOLEAN : _require_admin_member(r, u, approve)

Next ==
    \/ create_group
    \/ \E r \in Requests : \/ HandlerStep(r)
                           \/ \E u \in Users : Arrival(r, u)
                           \/ \E u \in Everyone : update_typing(r, u)

Spec == Init /\ [][Next]_vars

-----------------------------------------------------------------------------
(***************************************************************************)
(* Two approvals that overlap add one member and write one audit entry:    *)
(* GROUP_MEMBER_ADDED names exactly the users an approval made members.    *)
(***************************************************************************)
AuditedOnce ==
    \A u \in Users : audits[u] = IF approval /\ u \in members THEN 1 ELSE 0

(***************************************************************************)
(* A user who is told "approved" is a member, whatever joins, approvals    *)
(* and rejections of the same user overlap.                                *)
(***************************************************************************)
ApprovedIsMember == \A u \in Users : status[u] = "approved" => u \in members

(***************************************************************************)
(* A member's request is approved, unless a handler once wrote for that    *)
(* user between the reads and the write of another one: then a member may  *)
(* be listed as pending, which no later approval can settle, or rejected.  *)
(***************************************************************************)
MismatchNeedsRace ==
    \A u \in members \cap Users : status[u] # "approved" => u \in raced

(***************************************************************************)
(* A typing frame is only ever about to go from a member to another member *)
(* of the group.                                                           *)
(***************************************************************************)
TypingAmongMembers ==
    \A r \in Requests : req[r].pc = "publish" =>
        req[r].user \in members /\ req[r].to \subseteq members \ {req[r].user}
=============================================================================
