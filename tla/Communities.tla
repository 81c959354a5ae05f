---------------------------- MODULE Communities ----------------------------
(***************************************************************************)
(* One channel or one community of the older backend: the endpoints of     *)
(* backend/app/api/routes/channels.py and communities.py over the tables   *)
(* of backend/app/models/channel.py and community.py.  A channel has       *)
(* subscriptions, posts and analytics, a community members, permissions,   *)
(* events, answers to events and resources.                                *)
(*                                                                         *)
(* The endpoints are plain functions that run in a thread pool.  A handler *)
(* reads the channel or community first, checks with further queries, and  *)
(* commits once; SQLAlchemy writes a counter as the value it computed from *)
(* that first read.  No index keeps a user from having two rows.           *)
(***************************************************************************)
EXTENDS Integers, FiniteSets

CONSTANTS
    Users,      \* users who subscribe, or whom an administrator adds
    Requests,   \* handlers at work at one time
    MaxRows     \* subscriptions or memberships ever made (bound)

ASSUME CommunitiesAssumption == MaxRows \in Nat

VARIABLES
    kind,       \* "channel" or "community"
    space,      \* its row: "absent", "created", "ready" or "deleted"; a
                \*   community is ready once it has its owner and permissions
    rows,       \* rows[u]: ids of the subscriptions or memberships of u
    made,       \* ids given out so far
    count,      \* subscriber_count or member_count
    parts,      \* tables with rows that point to it: "posts", "analytics",
                \*   "events", "resources"
    rsvps,      \* rsvps[u]: rows of community_event_rsvps
    req,        \* req[r]: the handler in slot r
    raced       \* history: "count" if two handlers had read the counter
                \*   at one time, u if two added rows for u

vars == <<kind, space, rows, made, count, parts, rsvps, req, raced>>

Free == [pc |-> "free", op |-> "none", user |-> "none", loaded |-> 0, row |-> 0]
Rows == UNION {rows[u] : u \in Users}
Counting == {"join", "leave"}

TypeOK ==
    /\ kind \in {"channel", "community"}
    /\ space \in {"absent", "created", "ready", "deleted"}
    /\ made \in 0 .. MaxRows /\ rows \in [Users -> SUBSET (1 .. made)]
    /\ count \in Int
    /\ parts \subseteq {"posts", "analytics", "events", "resources"}
    /\ rsvps \in [Users -> Nat]
    /\ req \in [Requests -> [pc : {"free", "check", "commit"},
                             op : {"none", "create", "join", "leave", "delete", "rsvp", "posts",
                                   "analytics", "events", "resources"},
                             user : Users \cup {"none"}, loaded : Int, row : Nat]]
    /\ raced \subseteq (Users \cup {"count"})

Init ==
    /\ kind \in {"channel", "community"}
    /\ space = "absent"
    /\ rows = [u \in Users |-> {}] /\ made = 0 /\ count = 0
    /\ parts = {} /\ rsvps = [u \in Users |-> 0]
    /\ req = [r \in Requests |-> Free]
    /\ raced = {}

Exists == space \in {"created", "ready"}
\* The caller has an owner's or administrator's role (communities only).
Allowed == kind = "channel" \/ space = "ready"
Fill(r, fields) == req' = [req EXCEPT ![r] = fields]
End(r) == Fill(r, Free)
dbVars == <<kind, space, rows, made, count, parts, rsvps>>

-----------------------------------------------------------------------------
\* One commit.
create_channel ==
    /\ kind = "channel" /\ space = "absent"
    /\ space' = "ready"
    /\ UNCHANGED <<kind, rows, made, count, parts, rsvps, req, raced>>

\* Lines 21-29: the community is committed before its owner is known.
create_community(r) ==
    /\ kind = "community" /\ space = "absent" /\ req[r].pc = "free"
    /\ space' = "created"
    /\ Fill(r, [Free EXCEPT !.pc = "commit", !.op = "create"])
    /\ UNCHANGED <<kind, rows, made, count, parts, rsvps, raced>>

\* create_community lines 31-53; without the community its keys dangle.
CommitOwner(r) ==
    /\ req[r].op = "create"
    /\ space' = IF space = "created" THEN "ready" ELSE space
    /\ End(r)
    /\ UNCHANGED <<kind, rows, made, count, parts, rsvps, raced>>

(***************************************************************************)
(* A request is looked up: 404 without the channel or community.           *)
(***************************************************************************)
Arrive(r, op, u) ==
    /\ req[r].pc = "free" /\ Exists
    /\ Fill(r, [Free EXCEPT !.pc = "check", !.op = op, !.user = u, !.loaded = count])
    /\ UNCHANGED <<dbVars, raced>>

subscribe_to_channel(r, u) == kind = "channel" /\ Arrive(r, "join", u)
unsubscribe_from_channel(r, u) == kind = "channel" /\ Arrive(r, "leave", u)
add_community_member(r, u) == kind = "community" /\ Arrive(r, "join", u)
rsvp_to_community_event(r, u) == kind = "community" /\ Arrive(r, "rsvp", u)
delete_channel(r) == kind = "channel" /\ Arrive(r, "delete", "none")
delete_community(r) == kind = "community" /\ Arrive(r, "delete", "none")
create_channel_post(r) == kind = "channel" /\ Arrive(r, "posts", "none")
read_channel_analytics(r) == kind = "channel" /\ Arrive(r, "analytics", "none")
create_community_event(r) == kind = "community" /\ Arrive(r, "events", "none")
add_community_resource(r) == kind = "community" /\ Arrive(r, "resources", "none")

\* Nobody asks whether the user has a row.
MayJoinAgain(u) == Allowed

\* No role is asked for.
MayJoinAnyone(u) == rows[u] = {}

\* channels.py lines 161-167, communities.py lines 139-151.
MayJoin(u) == Allowed /\ rows[u] = {}

\* communities.py lines 247-266.
MayAnswer(u) == "events" \in parts /\ rows[u] # {} /\ rsvps[u] = 0

(***************************************************************************)
(* The checks of each endpoint; it answers 400 or 403 if they fail.        *)
(* read_channel_analytics looks for a row and inserts one if it has none.  *)
(***************************************************************************)
MayGoOn(r) ==
    CASE req[r].op = "join" -> MayJoin(req[r].user)
      [] req[r].op = "rsvp" -> MayAnswer(req[r].user)
      [] req[r].op = "leave" -> rows[req[r].user] # {}
      [] req[r].op = "analytics" -> "analytics" \notin parts
      [] req[r].op \in {"events", "resources"} -> Allowed
      [] OTHER -> TRUE

Check(r) ==
    /\ req[r].pc = "check"
    /\ IF ~MayGoOn(r) THEN End(r)
       ELSE IF req[r].op = "leave"
       THEN \E row \in rows[req[r].user] : Fill(r, [req[r] EXCEPT !.pc = "commit", !.row = row])
       ELSE Fill(r, [req[r] EXCEPT !.pc = "commit"])
    /\ UNCHANGED <<dbVars, raced>>

\* Who else has read the counter, or is about to add a row for the user?
NoteRace(r) ==
    raced' = raced
        \cup (IF req[r].op \in Counting /\ \E q \in Requests \ {r} : req[q].op \in Counting
              THEN {"count"} ELSE {})
        \cup {req[q].user : q \in {q \in Requests \ {r} :
                 req[q].op = req[r].op /\ req[q].user = req[r].user /\ req[r].op # "leave"}}

\* A commit against a row that is gone fails: the foreign key, or no row.
Gone(r) == ~Exists /\ End(r) /\ UNCHANGED <<dbVars, raced>>

\* A commit after the channel is gone is not noticed.
CommitJoinDangling(r) ==
    /\ req[r].pc = "commit" /\ req[r].op = "join" /\ made < MaxRows
    /\ made' = made + 1
    /\ rows' = [rows EXCEPT ![req[r].user] = @ \cup {made'}]
    /\ count' = req[r].loaded + 1
    /\ NoteRace(r) /\ End(r)
    /\ UNCHANGED <<kind, space, parts, rsvps>>

\* channels.py lines 168-176, communities.py lines 152-160.
CommitJoin(r) ==
    /\ req[r].pc = "commit" /\ req[r].op = "join"
    /\ \/ Gone(r)
       \/ /\ Exists /\ made < MaxRows
          /\ made' = made + 1
          /\ rows' = [rows EXCEPT ![req[r].user] = @ \cup {made'}]
          /\ count' = req[r].loaded + 1
          /\ NoteRace(r) /\ End(r)
          /\ UNCHANGED <<kind, space, parts, rsvps>>

\* The counter is left as it is.
CommitLeaveUncounted(r) ==
    /\ req[r].pc = "commit" /\ req[r].op = "leave"
    /\ rows' = [rows EXCEPT ![req[r].user] = @ \ {req[r].row}]
    /\ NoteRace(r) /\ End(r)
    /\ UNCHANGED <<kind, space, made, count, parts, rsvps>>

(***************************************************************************)
(* channels.py lines 198-200: a row that another handler has deleted since *)
(* is no error, the counter goes down all the same.                        *)
(***************************************************************************)
CommitLeave(r) ==
    /\ req[r].pc = "commit" /\ req[r].op = "leave"
    /\ \/ Gone(r)
       \/ /\ Exists
          /\ rows' = [rows EXCEPT ![req[r].user] = @ \ {req[r].row}]
          /\ count' = req[r].loaded - 1
          /\ NoteRace(r) /\ End(r)
          /\ UNCHANGED <<kind, space, made, parts, rsvps>>

\* communities.py lines 267-273.
CommitAnswer(r) ==
    /\ req[r].pc = "commit" /\ req[r].op = "rsvp"
    /\ \/ Gone(r)
       \/ /\ Exists
          /\ rsvps' = [rsvps EXCEPT ![req[r].user] = @ + 1]
          /\ NoteRace(r) /\ End(r)
          /\ UNCHANGED <<kind, space, rows, made, count, parts>>

\* channels.py 116-126, 220-222, communities.py 202-212, 298-306.
CommitPart(r) ==
    /\ req[r].pc = "commit" /\ req[r].op \in {"posts", "analytics", "events", "resources"}
    /\ \/ Gone(r)
       \/ /\ Exists
          /\ parts' = parts \cup {req[r].op}
          /\ End(r)
          /\ UNCHANGED <<kind, space, rows, made, count, rsvps, raced>>

(***************************************************************************)
(* delete_channel and delete_community take the rows with cascade along.   *)
(* The analytics of a channel and the permissions of a community have no   *)
(* cascade: with one of them the transaction fails.                        *)
(***************************************************************************)
CommitDelete(r) ==
    /\ req[r].pc = "commit" /\ req[r].op = "delete"
    /\ IF ~Exists \/ "analytics" \in parts \/ (kind = "community" /\ space = "ready")
       THEN UNCHANGED dbVars
       ELSE /\ space' = "deleted"
            /\ rows' = [u \in Users |-> {}] /\ parts' = {}
            /\ UNCHANGED <<kind, made, count, rsvps>>
    /\ End(r)
    /\ UNCHANGED raced

\* A process dies; its transaction is rolled back.
Crash(r) ==
    /\ req[r].pc # "free"
    /\ End(r)
    /\ UNCHANGED <<dbVars, raced>>

Next ==
    \/ create_channel
    \/ \E r \in Requests :
        \/ create_community(r) \/ CommitOwner(r) \/ delete_channel(r) \/ delete_community(r)
        \/ create_channel_post(r) \/ read_channel_analytics(r)
        \/ create_community_event(r) \/ add_community_resource(r)
        \/ \E u \in Users : \/ subscribe_to_channel(r, u) \/ unsubscribe_from_channel(r, u)
                            \/ add_community_member(r, u) \/ rsvp_to_community_event(r, u)
        \/ Check(r) \/ CommitJoin(r) \/ CommitLeave(r) \/ CommitAnswer(r) \/ CommitPart(r)
        \/ CommitDelete(r) \/ Crash(r)

Spec == Init /\ [][Next]_vars

-----------------------------------------------------------------------------
(***************************************************************************)
(* The counter agrees with the table (the owner of a community is not      *)
(* counted and not in rows), unless two handlers that write it had read it *)
(* at the same time.                                                       *)
(***************************************************************************)
CountMatches == Exists => count = Cardinality(Rows) \/ "count" \in raced

(***************************************************************************)
(* A user has one subscription or membership and one answer to an event,   *)
(* unless two such requests for the same user overlapped.                  *)
(***************************************************************************)
OncePerUser ==
    \A u \in Users \ raced : Cardinality(rows[u]) <= 1 /\ rsvps[u] <= 1

(***************************************************************************)
(* Nothing is left of a channel or community that was deleted, whatever    *)
(* handlers were on their way to add something.                            *)
(***************************************************************************)
NothingLeft == space = "deleted" => Rows = {} /\ parts = {}

(***************************************************************************)
(* A community whose creation was interrupted between its two commits      *)
(* stays empty: nobody has the role that adding anything needs.            *)
(***************************************************************************)
InterruptedStaysEmpty ==
    kind = "community" /\ space = "created" => Rows = {} /\ parts = {}
=============================================================================
