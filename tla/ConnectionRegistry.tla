------------------------- MODULE ConnectionRegistry -------------------------
(***************************************************************************)
(* Presence of one user: ConnectionManager of app/services/ws_manager.py   *)
(* as chat_socket, _relay_loop and the message branch of _handle_frame in  *)
(* app/api/routes/websocket.py use it.                                     *)
(*                                                                         *)
(* register is one Redis pipeline; unregister is a pipeline, SCARD and     *)
(* perhaps SREM, with an await between them.  Connections of the user live *)
(* on several API replicas, any of which can crash.  Each member of Conns  *)
(* is one connection, from ticket to close; connection ids never repeat.   *)
(***************************************************************************)
EXTENDS Integers, FiniteSets

CONSTANTS
    Conns,              \* connections the user's devices make
    Replicas,           \* API processes
    Messages,           \* messages other users send to this user
    CONN_TTL_SECONDS,   \* life of ws:conn:{id}, in clock ticks
    CrashAllowed        \* whether replicas crash

ASSUME RegistryAssumption ==
    /\ IsFiniteSet(Conns)
    /\ CONN_TTL_SECONDS \in Nat \ {0}
    /\ CrashAllowed \in BOOLEAN

VARIABLES
    pc,         \* pc[c]: where the handler chat_socket of c is
    host,       \* host[c]: the replica that holds the socket
    relay,      \* relay[c]: the Pub/Sub listener of c: "off", "on" or "dead"
    connTtl,    \* connTtl[c]: remaining life of ws:conn:{c}, 0 if absent
    userSet,    \* ws:user:{user}
    online,     \* whether ws:online contains the user
    crashed,    \* connections whose replica crashed
    send,       \* send[m]: progress of the sender's handler for message m
    reached,    \* reached[m]: connections that were sent the frame
    raced       \* history: a connection registered between the SCARD and
                \*   the SREM of another one's unregister

connVars == <<pc, host, relay, connTtl, userSet, online, crashed, raced>>
sendVars == <<send, reached>>
vars == <<connVars, sendVars>>

(***************************************************************************)
(* A connection registers ("new" to "open"), is served, and on disconnect  *)
(* goes through the three commands of unregister.                          *)
(***************************************************************************)
Steps == {"new", "open", "closing", "scard", "srem", "closed"}

TypeOK ==
    /\ pc \in [Conns -> Steps]
    /\ host \in [Conns -> Replicas]
    /\ relay \in [Conns -> {"off", "on", "dead"}]
    /\ connTtl \in [Conns -> 0 .. CONN_TTL_SECONDS]
    /\ userSet \subseteq Conns
    /\ online \in BOOLEAN
    /\ crashed \subseteq Conns
    /\ send \in [Messages -> {"unsent", "push", "publish", "done", "failed"}]
    /\ reached \in [Messages -> SUBSET Conns]
    /\ raced \in BOOLEAN

Init ==
    /\ pc = [c \in Conns |-> "new"]
    /\ host \in [Conns -> Replicas]
    /\ relay = [c \in Conns |-> "off"]
    /\ connTtl = [c \in Conns |-> 0]
    /\ userSet = {} /\ online = FALSE /\ crashed = {}
    /\ send = [m \in Messages |-> "unsent"]
    /\ reached = [m \in Messages |-> {}]
    /\ raced = FALSE

Goto(c, step) == pc' = [pc EXCEPT ![c] = step]

-----------------------------------------------------------------------------
(***************************************************************************)
(* chat_socket line 77, register: SET ws:conn EX, SADD ws:user, SADD       *)
(* ws:online in one pipeline.                                              *)
(***************************************************************************)
register(c) ==
    /\ pc[c] = "new"
    /\ Goto(c, "open")
    /\ connTtl' = [connTtl EXCEPT ![c] = CONN_TTL_SECONDS]
    /\ userSet' = userSet \cup {c}
    /\ online' = TRUE
    /\ raced' = (raced \/ \E d \in Conns : pc[d] = "srem")
    /\ UNCHANGED <<host, relay, crashed, sendVars>>

(***************************************************************************)
(* chat_socket line 78, _relay_loop lines 45-46: the task created after    *)
(* register subscribes to the user's channel.                              *)
(***************************************************************************)
Subscribe(c) ==
    /\ pc[c] = "open" /\ c \notin crashed /\ relay[c] = "off"
    /\ relay' = [relay EXCEPT ![c] = "on"]
    /\ UNCHANGED <<pc, host, connTtl, userSet, online, crashed, raced, sendVars>>

(***************************************************************************)
(* _relay_loop lines 57-61: any exception ends the listener; the socket    *)
(* and its registration stay.                                              *)
(***************************************************************************)
RelayDies(c) ==
    /\ pc[c] = "open" /\ c \notin crashed /\ relay[c] = "on"
    /\ relay' = [relay EXCEPT ![c] = "dead"]
    /\ UNCHANGED <<pc, host, connTtl, userSet, online, crashed, raced, sendVars>>

(***************************************************************************)
(* A ping frame: EXPIRE ws:conn, without effect once the key is gone.      *)
(***************************************************************************)
heartbeat(c) ==
    /\ pc[c] = "open" /\ c \notin crashed
    /\ connTtl' = [connTtl EXCEPT ![c] = IF @ > 0 THEN CONN_TTL_SECONDS ELSE 0]
    /\ UNCHANGED <<pc, host, relay, userSet, online, crashed, raced, sendVars>>

(***************************************************************************)
(* chat_socket lines 97-100: the client is gone, the listener is cancelled.*)
(***************************************************************************)
Disconnect(c) ==
    /\ pc[c] = "open" /\ c \notin crashed
    /\ Goto(c, "closing")
    /\ relay' = [relay EXCEPT ![c] = "dead"]
    /\ UNCHANGED <<host, connTtl, userSet, online, crashed, raced, sendVars>>

(***************************************************************************)
(* unregister lines 59-64: DEL ws:conn, SREM ws:user in one pipeline.      *)
(***************************************************************************)
UnregisterRemove(c) ==
    /\ pc[c] = "closing" /\ c \notin crashed
    /\ Goto(c, "scard")
    /\ connTtl' = [connTtl EXCEPT ![c] = 0]
    /\ userSet' = userSet \ {c}
    /\ UNCHANGED <<host, relay, online, crashed, raced, sendVars>>

\* The user counts as gone when one device is left.
AfterScardOffByOne(n) == IF n <= 1 THEN "srem" ELSE "closed"

\* Line 68.
AfterScard(n) == IF n = 0 THEN "srem" ELSE "closed"

(***************************************************************************)
(* unregister line 67: SCARD ws:user.                                      *)
(***************************************************************************)
UnregisterScard(c) ==
    /\ pc[c] = "scard" /\ c \notin crashed
    /\ Goto(c, AfterScard(Cardinality(userSet)))
    /\ UNCHANGED <<host, relay, connTtl, userSet, online, crashed, raced, sendVars>>

\* The user stays on ws:online.
UnregisterSremForgets(c) ==
    /\ pc[c] = "srem" /\ c \notin crashed
    /\ Goto(c, "closed")
    /\ UNCHANGED <<host, relay, connTtl, userSet, online, crashed, raced, sendVars>>

(***************************************************************************)
(* unregister line 69: SREM ws:online.                                     *)
(***************************************************************************)
UnregisterSrem(c) ==
    /\ pc[c] = "srem" /\ c \notin crashed
    /\ Goto(c, "closed")
    /\ online' = FALSE
    /\ UNCHANGED <<host, relay, connTtl, userSet, crashed, raced, sendVars>>

(***************************************************************************)
(* A replica dies with every socket it holds: none of their handlers runs  *)
(* any further.                                                            *)
(***************************************************************************)
CrashReplica(r) ==
    LET hit == {c \in Conns : host[c] = r /\ pc[c] \notin {"new", "closed"}}
    IN /\ CrashAllowed
       /\ ~(hit \subseteq crashed)
       /\ crashed' = crashed \cup hit
       /\ relay' = [c \in Conns |-> IF c \in hit THEN "dead" ELSE relay[c]]
       /\ UNCHANGED <<pc, host, connTtl, userSet, online, raced, sendVars>>

Tick ==
    /\ \E c \in Conns : connTtl[c] > 0
    /\ connTtl' = [c \in Conns |-> IF connTtl[c] > 0 THEN connTtl[c] - 1 ELSE 0]
    /\ UNCHANGED <<pc, host, relay, userSet, online, crashed, raced, sendVars>>

(***************************************************************************)
(* _handle_frame line 154 in the sender's socket: is_online of the user.   *)
(***************************************************************************)
is_online(m) ==
    /\ send[m] = "unsent"
    /\ send' = [send EXCEPT ![m] = IF online THEN "publish" ELSE "push"]
    /\ UNCHANGED <<connVars, reached>>

(***************************************************************************)
(* Lines 155-167: an offline user gets an FCM push; the frame is published *)
(* all the same.                                                           *)
(***************************************************************************)
send_message_push(m) ==
    /\ send[m] = "push"
    /\ send' = [send EXCEPT ![m] = "publish"]
    /\ UNCHANGED <<connVars, reached>>

(***************************************************************************)
(* The push raises: the exception ends the sender's socket handler, which  *)
(* neither acknowledges nor publishes the stored message.                  *)
(***************************************************************************)
PushFails(m) ==
    /\ send[m] = "push"
    /\ send' = [send EXCEPT ![m] = "failed"]
    /\ UNCHANGED <<connVars, reached>>

(***************************************************************************)
(* _handle_frame line 178: PUBLISH; every subscribed listener relays it.   *)
(***************************************************************************)
Publish(m) ==
    /\ send[m] = "publish"
    /\ send' = [send EXCEPT ![m] = "done"]
    /\ reached' = [reached EXCEPT ![m] = {c \in Conns : relay[c] = "on"}]
    /\ UNCHANGED connVars

ConnStep(c) ==
    \/ Subscribe(c) \/ UnregisterRemove(c) \/ UnregisterScard(c) \/ UnregisterSrem(c)

Next ==
    \/ \E c \in Conns : \/ ConnStep(c) \/ register(c) \/ RelayDies(c)
                        \/ heartbeat(c) \/ Disconnect(c)
    \/ \E r \in Replicas : CrashReplica(r)
    \/ Tick
    \/ \E m \in Messages : is_online(m) \/ send_message_push(m) \/ PushFails(m) \/ Publish(m)

(***************************************************************************)
(* Time passes, and a replica that is up keeps running its coroutines.     *)
(***************************************************************************)
Fairness == WF_vars(Tick) /\ \A c \in Conns : WF_vars(ConnStep(c))

Spec == Init /\ [][Next]_vars
FairSpec == Spec /\ Fairness

-----------------------------------------------------------------------------
(***************************************************************************)
(* Without a crash, ws:online names the user only while a device is        *)
(* connected or its handler is still on the way to remove the user: the    *)
(* last of several devices that leave together always finds SCARD = 0.     *)
(***************************************************************************)
NoGhostPresence ==
    online => \/ crashed # {}
              \/ \E c \in Conns : pc[c] \in {"open", "closing", "scard", "srem"}

(***************************************************************************)
(* A user with a registered device is on ws:online unless, at some time, a *)
(* device registered between the SCARD and the SREM of another one that    *)
(* was leaving: nothing but that window takes a connected user offline.    *)
(***************************************************************************)
RegisteredIsOnline == userSet # {} /\ ~raced => online

(***************************************************************************)
(* Once the user's devices have left, ws:online eventually stops naming    *)
(* the user, unless a device comes back or a replica crashed.              *)
(***************************************************************************)
EventuallyOffline ==
    (\A c \in Conns : pc[c] # "open")
        ~> (~online \/ crashed # {} \/ \E c \in Conns : pc[c] = "open")
=============================================================================
