----------------------------- MODULE Broadcasts -----------------------------
(***************************************************************************)
(* Urgent broadcasts as one user gets them: send_broadcast of              *)
(* app/api/routes/admin.py, unacked_broadcasts and ack_broadcast of        *)
(* app/api/routes/broadcasts.py, and the banner of the client              *)
(* (broadcast_banner.dart), which keeps a list of its own.                 *)
(*                                                                         *)
(* The banner is filled by live frames and, once per start of the app, by  *)
(* the list the server answers; the answer replaces what is there.         *)
(***************************************************************************)
EXTENDS Integers, FiniteSets

CONSTANTS
    Broadcasts,     \* broadcasts administrators send
    Devices         \* devices of the user

VARIABLES
    dept,       \* dept[b]: whom b is for: "all", "mine" or "other" departments
    send,       \* send[b]: progress of send_broadcast
    acked,      \* broadcast_id of the user's rows of broadcast_acks
    up,         \* up[d]: the app is open
    socket,     \* socket[d]: it is subscribed to the broadcast channel
    inbox,      \* inbox[d]: frames on the way to d
    pending,    \* pending[d]: the banner's list _pending
    load,       \* load[d]: the call of _loadUnacked
    ack,        \* ack[d]: the POST of _ack in progress
    shown       \* history: broadcasts some device has shown

vars == <<dept, send, acked, up, socket, inbox, pending, load, ack, shown>>
serverVars == <<dept, send, acked>>
appVars == <<up, socket, inbox, pending, load, shown>>

None == "none"
NoLoad == [pc |-> "done", rows |-> {}]
Committed == {b \in Broadcasts : send[b] # "draft"}

TypeOK ==
    /\ dept \in [Broadcasts -> {"all", "mine", "other"}]
    /\ send \in [Broadcasts -> {"draft", "committed", "published", "done"}]
    /\ acked \subseteq Broadcasts /\ shown \subseteq Broadcasts
    /\ up \in [Devices -> BOOLEAN] /\ socket \in [Devices -> BOOLEAN]
    /\ inbox \in [Devices -> SUBSET Broadcasts]
    /\ pending \in [Devices -> SUBSET Broadcasts]
    /\ load \in [Devices -> [pc : {"done", "asked", "answered"}, rows : SUBSET Broadcasts]]
    /\ ack \in [Devices -> [pc : {"none", "select", "insert"}, b : Broadcasts \cup {None}]]

Init ==
    /\ dept \in [Broadcasts -> {"all", "mine", "other"}]
    /\ send = [b \in Broadcasts |-> "draft"]
    /\ acked = {} /\ shown = {}
    /\ up = [d \in Devices |-> FALSE] /\ socket = [d \in Devices |-> FALSE]
    /\ inbox = [d \in Devices |-> {}] /\ pending = [d \in Devices |-> {}]
    /\ load = [d \in Devices |-> NoLoad]
    /\ ack = [d \in Devices |-> [pc |-> "none", b |-> None]]

-----------------------------------------------------------------------------
(***************************************************************************)
(* send_broadcast lines 187-210: the broadcast and its audit entry in one  *)
(* transaction.                                                            *)
(***************************************************************************)
send_broadcast(b) ==
    /\ send[b] = "draft"
    /\ send' = [send EXCEPT ![b] = "committed"]
    /\ UNCHANGED <<dept, acked, appVars, ack>>

\* The frame goes out before the transaction is committed.
publish_broadcastFirst(b) ==
    /\ send[b] = "draft"
    /\ send' = send
    /\ inbox' = [d \in Devices |-> IF socket[d] THEN inbox[d] \cup {b} ELSE inbox[d]]
    /\ UNCHANGED <<dept, acked, up, socket, pending, load, ack, shown>>

(***************************************************************************)
(* Line 221: one PUBLISH to every subscribed device, whatever the          *)
(* department.                                                             *)
(***************************************************************************)
publish_broadcast(b) ==
    /\ send[b] = "committed"
    /\ send' = [send EXCEPT ![b] = "published"]
    /\ inbox' = [d \in Devices |-> IF socket[d] THEN inbox[d] \cup {b} ELSE inbox[d]]
    /\ UNCHANGED <<dept, acked, up, socket, pending, load, ack, shown>>

(***************************************************************************)
(* Lines 224-234: the pushes to the devices' FCM tokens, which change      *)
(* nothing here; or the handler failed, before or after the PUBLISH.       *)
(***************************************************************************)
send_broadcast_push(b) ==
    /\ send[b] \in {"committed", "published"}
    /\ send' = [send EXCEPT ![b] = "done"]
    /\ UNCHANGED <<dept, acked, appVars, ack>>

-----------------------------------------------------------------------------
\* The app counts on live frames alone.
initStateNoLoad(d) ==
    /\ ~up[d]
    /\ up' = [up EXCEPT ![d] = TRUE]
    /\ UNCHANGED <<serverVars, socket, inbox, pending, load, ack, shown>>

\* The list is asked for until a broadcast has been shown.
initStateUntilShown(d) ==
    /\ ~up[d]
    /\ up' = [up EXCEPT ![d] = TRUE]
    /\ load' = [load EXCEPT ![d] = IF shown = {} THEN [NoLoad EXCEPT !.pc = "asked"] ELSE NoLoad]
    /\ UNCHANGED <<serverVars, socket, inbox, pending, ack, shown>>

\* initState: an empty list, _loadUnacked, and a listener on the frames.
initState(d) ==
    /\ ~up[d]
    /\ up' = [up EXCEPT ![d] = TRUE]
    /\ load' = [load EXCEPT ![d] = [NoLoad EXCEPT !.pc = "asked"]]
    /\ UNCHANGED <<serverVars, socket, inbox, pending, ack, shown>>

\* The app is closed; a POST it has sent goes on.
dispose(d) ==
    /\ up[d]
    /\ up' = [up EXCEPT ![d] = FALSE]
    /\ socket' = [socket EXCEPT ![d] = FALSE]
    /\ inbox' = [inbox EXCEPT ![d] = {}]
    /\ pending' = [pending EXCEPT ![d] = {}]
    /\ load' = [load EXCEPT ![d] = NoLoad]
    /\ UNCHANGED <<serverVars, ack, shown>>

\* The WebSocket comes up, or is lost together with the frames on the way.
Reconnect(d) ==
    /\ up[d]
    /\ socket' = [socket EXCEPT ![d] = ~@]
    /\ inbox' = [inbox EXCEPT ![d] = {}]
    /\ UNCHANGED <<serverVars, up, pending, load, ack, shown>>

\* The listener of initState inserts the broadcast of a frame.
OnFrame(d, b) ==
    /\ b \in inbox[d]
    /\ inbox' = [inbox EXCEPT ![d] = @ \ {b}]
    /\ pending' = [pending EXCEPT ![d] = @ \cup {b}]
    /\ shown' = shown \cup {b}
    /\ UNCHANGED <<serverVars, up, socket, load, ack>>

\* unacked_broadcasts lines 39-50.
Unacked == {b \in Committed : b \notin acked /\ dept[b] \in {"all", "mine"}}

\* The server runs the query of unacked_broadcasts.
unacked_broadcasts(d) ==
    /\ load[d].pc = "asked"
    /\ load' = [load EXCEPT ![d] = [pc |-> "answered", rows |-> Unacked]]
    /\ UNCHANGED <<serverVars, up, socket, inbox, pending, ack, shown>>

\* _loadUnacked lines 76-87: the answer replaces the list.
_loadUnacked(d) ==
    /\ load[d].pc = "answered"
    /\ pending' = [pending EXCEPT ![d] = load[d].rows]
    /\ shown' = shown \cup load[d].rows
    /\ load' = [load EXCEPT ![d] = NoLoad]
    /\ UNCHANGED <<serverVars, up, socket, inbox, ack>>

\* Lines 88-90: the request failed; the next start of the app asks again.
LoadFails(d) ==
    /\ load[d].pc # "done"
    /\ load' = [load EXCEPT ![d] = NoLoad]
    /\ UNCHANGED <<serverVars, up, socket, inbox, pending, ack, shown>>

(***************************************************************************)
(* _ack: a tap takes the broadcast off the list, then sends the POST.      *)
(***************************************************************************)
_ack(d, b) ==
    /\ b \in pending[d] /\ ack[d].pc = "none"
    /\ pending' = [pending EXCEPT ![d] = @ \ {b}]
    /\ ack' = [ack EXCEPT ![d] = [pc |-> "select", b |-> b]]
    /\ UNCHANGED <<serverVars, up, socket, inbox, load, shown>>

EndAck(d) == ack' = [ack EXCEPT ![d] = [pc |-> "none", b |-> None]]

(***************************************************************************)
(* ack_broadcast lines 60-69: the broadcast, and the user's row if there   *)
(* is one.                                                                 *)
(***************************************************************************)
ack_broadcast(d) ==
    /\ ack[d].pc = "select"
    /\ IF ack[d].b \notin Committed \/ ack[d].b \in acked THEN EndAck(d)
       ELSE ack' = [ack EXCEPT ![d].pc = "insert"]
    /\ UNCHANGED <<serverVars, appVars>>

(***************************************************************************)
(* Lines 70-72: INSERT; against a row another device inserted meanwhile    *)
(* the unique index fails the transaction, with the same outcome.          *)
(***************************************************************************)
InsertAck(d) ==
    /\ ack[d].pc = "insert"
    /\ acked' = acked \cup {ack[d].b}
    /\ EndAck(d)
    /\ UNCHANGED <<dept, send, appVars>>

\* _ack lines 101-103: the POST is lost; nobody tries again.
AckLost(d) ==
    /\ ack[d].pc # "none"
    /\ EndAck(d)
    /\ UNCHANGED <<serverVars, appVars>>

Next ==
    \/ \E b \in Broadcasts : send_broadcast(b) \/ publish_broadcast(b) \/ send_broadcast_push(b)
    \/ \E d \in Devices :
         \/ initState(d) \/ dispose(d) \/ Reconnect(d) \/ unacked_broadcasts(d)
         \/ _loadUnacked(d) \/ LoadFails(d) \/ ack_broadcast(d) \/ InsertAck(d) \/ AckLost(d)
         \/ \E b \in Broadcasts : OnFrame(d, b) \/ _ack(d, b)

(***************************************************************************)
(* The user keeps opening and closing the app, and not every request the   *)
(* app makes when it starts fails.                                         *)
(***************************************************************************)
Fairness ==
    \A d \in Devices : /\ WF_vars(initState(d)) /\ WF_vars(dispose(d))
                       /\ SF_vars(unacked_broadcasts(d)) /\ SF_vars(_loadUnacked(d))

Spec == Init /\ [][Next]_vars
FairSpec == Spec /\ Fairness

-----------------------------------------------------------------------------
phase ==
    [b \in Broadcasts |-> CASE b \in acked -> "acked"
                            [] b \in shown \ acked -> "shown"
                            [] OTHER -> IF b \in Committed THEN "sent" ELSE "unsent"]

N == INSTANCE Notice WITH Broadcasts <- Broadcasts, phase <- phase

(***************************************************************************)
(* The database, the frames and the banners of all devices implement       *)
(* Notice: a broadcast is shown only after it is committed, acknowledged   *)
(* only after a device showed it, and stays acknowledged.                  *)
(***************************************************************************)
ImplementsNotice == N!Spec

(***************************************************************************)
(* A broadcast for the user that is committed is shown to the user in the  *)
(* end, though its frame, its push and any number of requests may be lost: *)
(* "Fetched again on next app open" (broadcast_banner.dart:89).            *)
(***************************************************************************)
EventuallyShown ==
    \A b \in Broadcasts : (b \in Committed /\ dept[b] # "other") ~> b \in shown

(***************************************************************************)
(* "Unacked server-side -> reappears next launch"                          *)
(* (broadcast_banner.dart:102): as long as a broadcast for the user is     *)
(* without its acknowledgement row it is on the banner of every device     *)
(* again and again, whatever took it away: a tap whose POST was lost, an   *)
(* answer of the server older than the frame that had brought it, or the   *)
(* end of the app.                                                         *)
(***************************************************************************)
Reappears ==
    \A b \in Broadcasts, d \in Devices :
        (b \in Committed /\ dept[b] # "other") ~> (b \in pending[d] \/ b \in acked)
=============================================================================
