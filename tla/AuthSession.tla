----------------------------- MODULE AuthSession ----------------------------
(***************************************************************************)
(* Access tokens, sessions and WebSocket tickets of one user account:      *)
(* verify, create_ws_ticket and revoke_session of app/api/routes/auth.py,  *)
(* get_current_user of app/api/deps.py, set_user_status of                 *)
(* app/api/routes/admin.py and the ticket check of chat_socket in          *)
(* app/api/routes/websocket.py.                                            *)
(*                                                                         *)
(* A handler loads the user row into its own ORM session, awaits other     *)
(* things, and writes the columns it changed at commit.  The database      *)
(* runs at READ COMMITTED and nothing locks the row, so what a handler     *)
(* read may be old when it writes: `seen' is the token_version it read and *)
(* `wasSuspended' whether the status it read was SUSPENDED.  A column set  *)
(* to the value it was loaded with is not written.                         *)
(*                                                                         *)
(* A token is named by the login that minted it.  Its 30-minute expiry is  *)
(* left out: the properties are about tokens that are young enough.        *)
(***************************************************************************)
EXTENDS Integers, FiniteSets

CONSTANTS
    Handlers,     \* HTTP handlers that can be in progress together
    Tickets,      \* WebSocket tickets that can be drawn
    MaxLogins,    \* bound: successful logins explored
    MaxSuspends   \* bound: suspensions explored

ASSUME BoundsAssumption == MaxLogins \in Nat /\ MaxSuspends \in Nat

VARIABLES
    status,       \* users.status
    version,      \* users.token_version
    logins,       \* successful logins so far
    tokenVer,     \* tokenVer[l]: claim "ver" of the token of login l, 0 if none
    session,      \* session[l]: the user_sessions row of login l
    ticket,       \* ticket[t]: ws:ticket:{t} in Redis: "none", "live" or "gone"
    sockets,      \* sockets[t]: WebSockets opened with ticket t
    pc,           \* pc[h]: what handler h does next
    seen,         \* seen[h]: token_version in the row h loaded
    wasSuspended, \* wasSuspended[h]: status in the row h loaded is SUSPENDED
    about,        \* about[h]: the login whose session h revokes
    suspends,     \* suspensions begun so far
    notices,      \* account_suspended frames published
    outdated,     \* history: tokens minted before the last version change
    lostUpdate    \* history: some handler wrote over a version it had not read

dbVars == <<status, version, session>>
tokenVars == <<logins, tokenVer>>
ticketVars == <<ticket, sockets>>
handlerVars == <<pc, seen, wasSuspended, about>>
vars == <<dbVars, tokenVars, ticketVars, handlerVars, suspends, notices,
          outdated, lostUpdate>>

Logins == 1 .. MaxLogins
Minted == 1 .. logins

TypeOK ==
    /\ status \in {"active", "suspended"}
    /\ version \in Nat
    /\ logins \in 0 .. MaxLogins
    /\ tokenVer \in [Logins -> Nat]
    /\ session \in [Logins -> {"none", "live", "revoked"}]
    /\ ticket \in [Tickets -> {"none", "live", "gone"}]
    /\ sockets \in [Tickets -> Nat]
    /\ pc \in [Handlers -> {"idle", "login", "suspend", "announced", "activate",
                            "ticket", "revoke", "revoked"}]
    /\ seen \in [Handlers -> Nat]
    /\ wasSuspended \in [Handlers -> BOOLEAN]
    /\ about \in [Handlers -> 0 .. MaxLogins]
    /\ suspends \in 0 .. MaxSuspends
    /\ notices \in Nat
    /\ outdated \subseteq Logins
    /\ lostUpdate \in BOOLEAN

Init ==
    /\ status = "active" /\ version = 1
    /\ logins = 0
    /\ tokenVer = [l \in Logins |-> 0]
    /\ session = [l \in Logins |-> "none"]
    /\ ticket = [t \in Tickets |-> "none"]
    /\ sockets = [t \in Tickets |-> 0]
    /\ pc = [h \in Handlers |-> "idle"]
    /\ seen = [h \in Handlers |-> 0]
    /\ wasSuspended = [h \in Handlers |-> FALSE]
    /\ about = [h \in Handlers |-> 0]
    /\ suspends = 0 /\ notices = 0
    /\ outdated = {} /\ lostUpdate = FALSE

(***************************************************************************)
(* Locals of a handler; they vanish when it returns.                       *)
(***************************************************************************)
Begin(h, step, l) ==
    /\ pc[h] = "idle"
    /\ pc' = [pc EXCEPT ![h] = step]
    /\ seen' = [seen EXCEPT ![h] = version]
    /\ wasSuspended' = [wasSuspended EXCEPT ![h] = (status = "suspended")]
    /\ about' = [about EXCEPT ![h] = l]

Return(h) ==
    /\ pc' = [pc EXCEPT ![h] = "idle"]
    /\ seen' = [seen EXCEPT ![h] = 0]
    /\ wasSuspended' = [wasSuspended EXCEPT ![h] = FALSE]
    /\ about' = [about EXCEPT ![h] = 0]

(***************************************************************************)
(* get_current_user: the account is active and the token carries the       *)
(* present version.                                                        *)
(***************************************************************************)
get_current_user(l) ==
    /\ l \in Minted
    /\ status = "active"
    /\ tokenVer[l] = version

-----------------------------------------------------------------------------
(***************************************************************************)
(* verify, lines 108-114: the row is loaded, the account must be active.   *)
(***************************************************************************)
LoginLoad(h) ==
    /\ status = "active"
    /\ Begin(h, "login", 0)
    /\ UNCHANGED <<dbVars, tokenVars, ticketVars, suspends, notices,
                   outdated, lostUpdate>>

(***************************************************************************)
(* verify, lines 116-133: the code or the military ID is wrong.  Only an   *)
(* audit row is written.                                                   *)
(***************************************************************************)
LoginRefused(h) ==
    /\ pc[h] = "login"
    /\ Return(h)
    /\ UNCHANGED <<dbVars, tokenVars, ticketVars, suspends, notices,
                   outdated, lostUpdate>>

\* The version is embedded in the token without being rotated.
LoginCommitNoRotation(h) ==
    /\ pc[h] = "login"
    /\ logins < MaxLogins
    /\ logins' = logins + 1
    /\ tokenVer' = [tokenVer EXCEPT ![logins + 1] = seen[h]]
    /\ session' = [session EXCEPT ![logins + 1] = "live"]
    /\ outdated' = Minted
    /\ lostUpdate' = (lostUpdate \/ seen[h] # version)
    /\ Return(h)
    /\ UNCHANGED <<status, version, ticketVars, suspends, notices>>

\* The whole row is written back, the status it was loaded with included.
LoginCommitWholeRow(h) ==
    /\ pc[h] = "login"
    /\ logins < MaxLogins
    /\ logins' = logins + 1
    /\ version' = seen[h] + 1
    /\ status' = "active"
    /\ tokenVer' = [tokenVer EXCEPT ![logins + 1] = seen[h] + 1]
    /\ session' = [session EXCEPT ![logins + 1] = "live"]
    /\ outdated' = Minted
    /\ lostUpdate' = (lostUpdate \/ seen[h] # version)
    /\ Return(h)
    /\ UNCHANGED <<ticketVars, suspends, notices>>

(***************************************************************************)
(* verify, lines 135-187: the version read is incremented, a token with    *)
(* the new version is minted, a session row added; one commit writes the   *)
(* changed columns (token_version among them, status not).                 *)
(***************************************************************************)
LoginCommit(h) ==
    /\ pc[h] = "login"
    /\ logins < MaxLogins
    /\ logins' = logins + 1
    /\ version' = seen[h] + 1
    /\ tokenVer' = [tokenVer EXCEPT ![logins + 1] = seen[h] + 1]
    /\ session' = [session EXCEPT ![logins + 1] = "live"]
    /\ outdated' = Minted
    /\ lostUpdate' = (lostUpdate \/ seen[h] # version)
    /\ Return(h)
    /\ UNCHANGED <<status, ticketVars, suspends, notices>>

(***************************************************************************)
(* set_user_status, lines 110-119, action "suspend": the row is loaded.    *)
(***************************************************************************)
SuspendLoad(h) ==
    /\ suspends < MaxSuspends
    /\ suspends' = suspends + 1
    /\ Begin(h, "suspend", 0)
    /\ UNCHANGED <<dbVars, tokenVars, ticketVars, notices, outdated, lostUpdate>>

(***************************************************************************)
(* Line 122: the account_suspended frame goes out, before the commit.      *)
(***************************************************************************)
SuspendPublish(h) ==
    /\ pc[h] = "suspend"
    /\ notices' = notices + 1
    /\ pc' = [pc EXCEPT ![h] = "announced"]
    /\ UNCHANGED <<dbVars, tokenVars, ticketVars, seen, wasSuspended, about, suspends,
                   outdated, lostUpdate>>

(***************************************************************************)
(* Lines 127-136: audit row and commit of status (if it changed) and       *)
(* token_version.                                                          *)
(***************************************************************************)
SuspendCommit(h) ==
    /\ pc[h] = "announced"
    /\ status' = IF wasSuspended[h] THEN status ELSE "suspended"
    /\ version' = seen[h] + 1
    /\ outdated' = Minted
    /\ lostUpdate' = (lostUpdate \/ seen[h] # version)
    /\ Return(h)
    /\ UNCHANGED <<session, tokenVars, ticketVars, suspends, notices>>

(***************************************************************************)
(* The publish or the commit raises: get_db rolls back.                    *)
(***************************************************************************)
SuspendFails(h) ==
    /\ pc[h] \in {"suspend", "announced"}
    /\ Return(h)
    /\ UNCHANGED <<dbVars, tokenVars, ticketVars, suspends, notices,
                   outdated, lostUpdate>>

(***************************************************************************)
(* set_user_status, lines 110 and 124, action "activate": load.            *)
(***************************************************************************)
ActivateLoad(h) ==
    /\ status = "suspended"
    /\ Begin(h, "activate", 0)
    /\ UNCHANGED <<dbVars, tokenVars, ticketVars, suspends, notices,
                   outdated, lostUpdate>>

ActivateCommit(h) ==
    /\ pc[h] = "activate"
    /\ status' = "active"
    /\ Return(h)
    /\ UNCHANGED <<version, session, tokenVars, ticketVars, suspends, notices,
                   outdated, lostUpdate>>

(***************************************************************************)
(* create_ws_ticket: the token is checked, then SET ws:ticket EX 30.       *)
(***************************************************************************)
TicketAuthorise(h, l) ==
    /\ get_current_user(l)
    /\ Begin(h, "ticket", l)
    /\ UNCHANGED <<dbVars, tokenVars, ticketVars, suspends, notices,
                   outdated, lostUpdate>>

create_ws_ticket(h, t) ==
    /\ pc[h] = "ticket"
    /\ ticket[t] = "none"
    /\ ticket' = [ticket EXCEPT ![t] = "live"]
    /\ Return(h)
    /\ UNCHANGED <<dbVars, tokenVars, sockets, suspends, notices,
                   outdated, lostUpdate>>

TicketExpires(t) ==
    /\ ticket[t] = "live"
    /\ ticket' = [ticket EXCEPT ![t] = "gone"]
    /\ UNCHANGED <<dbVars, tokenVars, sockets, handlerVars, suspends, notices,
                   outdated, lostUpdate>>

(***************************************************************************)
(* chat_socket, lines 70-76: GETDEL of the ticket; the account itself is   *)
(* not looked at.  A ticket that is not there closes the socket.           *)
(***************************************************************************)
chat_socket(t) ==
    /\ ticket[t] = "live"
    /\ ticket' = [ticket EXCEPT ![t] = "gone"]
    /\ sockets' = [sockets EXCEPT ![t] = @ + 1]
    /\ UNCHANGED <<dbVars, tokenVars, handlerVars, suspends, notices,
                   outdated, lostUpdate>>

(***************************************************************************)
(* revoke_session, lines 249-257: token l is checked and the session of    *)
(* login k is loaded if it is not revoked.                                 *)
(***************************************************************************)
RevokeLoad(h, l, k) ==
    /\ get_current_user(l)
    /\ session[k] = "live"
    /\ Begin(h, "revoke", k)
    /\ UNCHANGED <<dbVars, tokenVars, ticketVars, suspends, notices,
                   outdated, lostUpdate>>

(***************************************************************************)
(* Lines 259-268: revoked_at and an audit row, committed.                  *)
(***************************************************************************)
RevokeCommit(h) ==
    /\ pc[h] = "revoke"
    /\ session' = [session EXCEPT ![about[h]] = "revoked"]
    /\ pc' = [pc EXCEPT ![h] = "revoked"]
    /\ UNCHANGED <<status, version, tokenVars, ticketVars, seen, wasSuspended, about, suspends,
                   notices, outdated, lostUpdate>>

(***************************************************************************)
(* Lines 270-274: the session_revoked frame.  No part of the Flutter       *)
(* client reacts to it.                                                    *)
(***************************************************************************)
RevokePublish(h) ==
    /\ pc[h] = "revoked"
    /\ Return(h)
    /\ UNCHANGED <<dbVars, tokenVars, ticketVars, suspends, notices,
                   outdated, lostUpdate>>

Next ==
    \/ \E h \in Handlers :
         \/ LoginLoad(h) \/ LoginRefused(h) \/ LoginCommit(h)
         \/ SuspendLoad(h) \/ SuspendPublish(h) \/ SuspendCommit(h) \/ SuspendFails(h)
         \/ ActivateLoad(h) \/ ActivateCommit(h)
         \/ RevokeCommit(h) \/ RevokePublish(h)
         \/ \E t \in Tickets : create_ws_ticket(h, t)
         \/ \E l \in Logins : TicketAuthorise(h, l)
         \/ \E l, k \in Logins : RevokeLoad(h, l, k)
    \/ \E t \in Tickets : TicketExpires(t) \/ chat_socket(t)

Spec == Init /\ [][Next]_vars

-----------------------------------------------------------------------------
(***************************************************************************)
(* As long as no handler has written over a token_version it had not read, *)
(* a token minted before the last login or suspension is refused, and no   *)
(* token carries a version that is still to come: the version column works *)
(* as O(1) logout whenever its updates are serial.                         *)
(***************************************************************************)
SerialRotationKillsTokens ==
    ~lostUpdate => /\ \A l \in Minted : tokenVer[l] <= version
                   /\ \A l \in outdated : tokenVer[l] # version

(***************************************************************************)
(* Only an administrator's activation lifts a suspension: a login that     *)
(* loaded the row while the account was active and commits after the       *)
(* suspension does not write its old status back.                          *)
(***************************************************************************)
OnlyActivationLiftsSuspension ==
    [][status = "suspended" /\ status' = "active"
         => \E h \in Handlers : pc[h] = "activate" /\ pc'[h] = "idle"]_vars

(***************************************************************************)
(* A ticket is worthless after its first use: of all the connection        *)
(* attempts that present it, at most one opens a socket.                   *)
(***************************************************************************)
TicketOpensOneSocket == \A t \in Tickets : sockets[t] <= 1
=============================================================================
