---------------------- MODULE ConnectionRegistryProofs ----------------------
(***************************************************************************)
(* Proofs about ConnectionRegistry, for any finite set of connections, any *)
(* replicas and messages, with and without crashes.                        *)
(***************************************************************************)
EXTENDS ConnectionRegistry, FiniteSetTheorems, TLAPS

(***************************************************************************)
(* The two parts of TypeOK that need different provers.                    *)
(***************************************************************************)
StoreType ==
    /\ pc \in [Conns -> Steps]
    /\ host \in [Conns -> Replicas]
    /\ relay \in [Conns -> {"off", "on", "dead"}]
    /\ connTtl \in [Conns -> 0 .. CONN_TTL_SECONDS]
    /\ userSet \subseteq Conns
    /\ crashed \subseteq Conns

SendType ==
    /\ send \in [Messages -> {"unsent", "push", "publish", "done", "failed"}]
    /\ reached \in [Messages -> SUBSET Conns]

FlagType == online \in BOOLEAN /\ raced \in BOOLEAN

\* An empty Redis and no open socket satisfy the type invariant.
LEMMA TypeInit == Init => TypeOK
<1> SUFFICES ASSUME Init PROVE TypeOK
    OBVIOUS
<1>1. StoreType
    BY RegistryAssumption DEF Init, StoreType, Steps
<1>2. SendType
    BY DEF Init, SendType
<1>3. FlagType
    BY Zenon DEF Init, FlagType
<1> QED
    BY <1>1, <1>2, <1>3, Zenon DEF TypeOK, StoreType, SendType, FlagType

(***************************************************************************)
(* Every step of a connection, a replica, a sender and the clock keeps the *)
(* state well typed.                                                       *)
(***************************************************************************)
LEMMA TypeStep == TypeOK /\ [Next]_vars => TypeOK'
<1> SUFFICES ASSUME TypeOK, [Next]_vars PROVE TypeOK'
    OBVIOUS
<1>t. StoreType /\ SendType /\ FlagType
    BY Zenon DEF TypeOK, StoreType, SendType, FlagType
<1>p. StoreType' /\ SendType' /\ FlagType' => TypeOK'
    BY Zenon DEF TypeOK, StoreType, SendType, FlagType
<1> USE RegistryAssumption DEF connVars, sendVars
<1>1. ASSUME NEW c \in Conns, register(c) PROVE TypeOK'
  <2>1. StoreType'
      BY <1>1, <1>t DEF register, Goto, StoreType, Steps
  <2>2. SendType'
      BY <1>1, <1>t DEF register, SendType
  <2>3. FlagType'
      BY <1>1, Zenon DEF register, FlagType
  <2> QED BY <2>1, <2>2, <2>3, <1>p
<1>2. ASSUME NEW c \in Conns,
             Subscribe(c) \/ RelayDies(c) \/ Disconnect(c)
      PROVE  TypeOK'
  <2>1. StoreType'
      BY <1>2, <1>t DEF Subscribe, RelayDies, Disconnect, Goto, StoreType, Steps
  <2>2. SendType' /\ FlagType'
      BY <1>2, <1>t DEF Subscribe, RelayDies, Disconnect, SendType, FlagType
  <2> QED BY <2>1, <2>2, <1>p
<1>3. ASSUME NEW c \in Conns, heartbeat(c) PROVE TypeOK'
  <2>1. StoreType'
      BY <1>3, <1>t DEF heartbeat, StoreType
  <2>2. SendType' /\ FlagType'
      BY <1>3, <1>t DEF heartbeat, SendType, FlagType
  <2> QED BY <2>1, <2>2, <1>p
<1>4. ASSUME NEW c \in Conns, UnregisterRemove(c) PROVE TypeOK'
  <2>1. StoreType'
      BY <1>4, <1>t DEF UnregisterRemove, Goto, StoreType, Steps
  <2>2. SendType' /\ FlagType'
      BY <1>4, <1>t DEF UnregisterRemove, SendType, FlagType
  <2> QED BY <2>1, <2>2, <1>p
<1>5. ASSUME NEW c \in Conns, UnregisterScard(c) PROVE TypeOK'
  <2>1. AfterScard(Cardinality(userSet)) \in Steps
      BY DEF AfterScard, Steps
  <2>2. StoreType'
      BY <1>5, <1>t, <2>1 DEF UnregisterScard, Goto, StoreType
  <2>3. SendType' /\ FlagType'
      BY <1>5, <1>t DEF UnregisterScard, SendType, FlagType
  <2> QED BY <2>2, <2>3, <1>p
<1>6. ASSUME NEW c \in Conns, UnregisterSrem(c) PROVE TypeOK'
  <2>1. StoreType'
      BY <1>6, <1>t DEF UnregisterSrem, Goto, StoreType, Steps
  <2>2. SendType' /\ FlagType'
      BY <1>6, <1>t DEF UnregisterSrem, SendType, FlagType
  <2> QED BY <2>1, <2>2, <1>p
<1>7. ASSUME NEW r \in Replicas, CrashReplica(r) PROVE TypeOK'
  <2>1. StoreType'
      BY <1>7, <1>t DEF CrashReplica, StoreType
  <2>2. SendType' /\ FlagType'
      BY <1>7, <1>t DEF CrashReplica, SendType, FlagType
  <2> QED BY <2>1, <2>2, <1>p
<1>8. ASSUME Tick PROVE TypeOK'
  <2>1. connTtl' \in [Conns -> 0 .. CONN_TTL_SECONDS]
      BY <1>8, <1>t DEF Tick, StoreType
  <2>2. StoreType'
      BY <1>8, <1>t, <2>1 DEF Tick, StoreType
  <2>3. SendType' /\ FlagType'
      BY <1>8, <1>t DEF Tick, SendType, FlagType
  <2> QED BY <2>2, <2>3, <1>p
<1>9. ASSUME NEW m \in Messages,
             is_online(m) \/ send_message_push(m) \/ PushFails(m) \/ Publish(m)
      PROVE  TypeOK'
  <2>1. StoreType' /\ FlagType'
      BY <1>9, <1>t DEF is_online, send_message_push, PushFails, Publish, StoreType, FlagType
  <2>2. SendType'
    <3>1. CASE is_online(m) \/ send_message_push(m) \/ PushFails(m)
        BY <3>1, <1>t DEF is_online, send_message_push, PushFails, SendType
    <3>2. CASE Publish(m)
        BY <3>2, <1>t DEF Publish, SendType
    <3> QED BY <1>9, <3>1, <3>2
  <2> QED BY <2>1, <2>2, <1>p
<1>10. CASE UNCHANGED vars
    BY <1>10, <1>t, <1>p DEF vars, StoreType, SendType, FlagType
<1> QED
    BY <1>1, <1>2, <1>3, <1>4, <1>5, <1>6, <1>7, <1>8, <1>9, <1>10 DEF Next, ConnStep

(***************************************************************************)
(* The registry, the sockets and the senders keep their types.             *)
(***************************************************************************)
THEOREM TypeCorrect == Spec => []TypeOK
  BY TypeInit, TypeStep, PTL DEF Spec

-----------------------------------------------------------------------------
(***************************************************************************)
(* The inductive invariant behind presence.  ws:user holds exactly the     *)
(* connections between register and the first command of unregister, so a  *)
(* handler that reads SCARD > 0 leaves the duty to another one; and if no  *)
(* registration fell between SCARD and SREM, a handler about to SREM still *)
(* has nobody to wrong.                                                    *)
(***************************************************************************)
SetMatches == userSet = {c \in Conns : pc[c] \in {"open", "closing"}}

SremIsRight == ~raced => \A c \in Conns : pc[c] = "srem" => userSet = {}

PresenceInv == SetMatches /\ SremIsRight /\ NoGhostPresence /\ RegisteredIsOnline

\* With no socket open, nobody is registered and nobody is online.
LEMMA PresenceInit == Init => PresenceInv
  BY DEF Init, PresenceInv, SetMatches, SremIsRight, NoGhostPresence, RegisteredIsOnline

\* Every step of register, unregister, heartbeat and expiry preserves the presence invariant.
LEMMA PresenceStep == TypeOK /\ PresenceInv /\ [Next]_vars => PresenceInv'
<1> SUFFICES ASSUME TypeOK, PresenceInv, [Next]_vars PROVE PresenceInv'
    OBVIOUS
<1> USE DEF connVars, sendVars
<1>i. SetMatches /\ SremIsRight /\ NoGhostPresence /\ RegisteredIsOnline
    BY DEF PresenceInv
<1>t. pc \in [Conns -> Steps] /\ userSet \subseteq Conns
    BY DEF TypeOK
<1>1. ASSUME NEW c \in Conns, register(c) PROVE PresenceInv'
  <2>1. /\ pc' = [pc EXCEPT ![c] = "open"] /\ userSet' = userSet \cup {c}
        /\ online' /\ crashed' = crashed
      BY <1>1 DEF register, Goto
  <2>2. ~raced' => \A d \in Conns : pc[d] # "srem"
      BY <1>1 DEF register
  <2>3. SetMatches'
      BY <2>1, <1>i, <1>t DEF SetMatches
  <2>4. SremIsRight'
      BY <2>1, <2>2, <1>t DEF SremIsRight
  <2>5. NoGhostPresence' /\ RegisteredIsOnline'
      BY <2>1, <1>t DEF NoGhostPresence, RegisteredIsOnline
  <2> QED BY <2>3, <2>4, <2>5 DEF PresenceInv
<1>2. ASSUME NEW c \in Conns, Disconnect(c) PROVE PresenceInv'
  <2>1. /\ pc[c] = "open" /\ pc' = [pc EXCEPT ![c] = "closing"]
        /\ UNCHANGED <<userSet, online, crashed, raced>>
      BY <1>2 DEF Disconnect, Goto
  <2> QED BY <2>1, <1>i, <1>t
          DEF PresenceInv, SetMatches, SremIsRight, NoGhostPresence, RegisteredIsOnline
<1>3. ASSUME NEW c \in Conns, UnregisterRemove(c) PROVE PresenceInv'
  <2>1. /\ pc[c] = "closing" /\ pc' = [pc EXCEPT ![c] = "scard"]
        /\ userSet' = userSet \ {c} /\ UNCHANGED <<online, crashed, raced>>
      BY <1>3 DEF UnregisterRemove, Goto
  <2>2. SetMatches'
      BY <2>1, <1>i, <1>t DEF SetMatches
  <2>3. SremIsRight' /\ NoGhostPresence' /\ RegisteredIsOnline'
      BY <2>1, <1>i, <1>t DEF SremIsRight, NoGhostPresence, RegisteredIsOnline
  <2> QED BY <2>2, <2>3 DEF PresenceInv
<1>4. ASSUME NEW c \in Conns, UnregisterScard(c) PROVE PresenceInv'
  <2>1. /\ pc[c] = "scard" /\ pc' = [pc EXCEPT ![c] = AfterScard(Cardinality(userSet))]
        /\ UNCHANGED <<userSet, online, crashed, raced>>
      BY <1>4 DEF UnregisterScard, Goto
  <2>2. CASE userSet = {}
    <3>1. AfterScard(Cardinality(userSet)) = "srem"
        BY <2>2, FS_EmptySet DEF AfterScard
    <3> QED BY <2>1, <2>2, <3>1, <1>i, <1>t
            DEF PresenceInv, SetMatches, SremIsRight, NoGhostPresence, RegisteredIsOnline
  <2>3. CASE userSet # {}
    <3>1. IsFiniteSet(userSet)
        BY <1>t, RegistryAssumption, FS_Subset
    <3>2. Cardinality(userSet) # 0
        BY <2>3, <3>1, FS_EmptySet
    <3>3. AfterScard(Cardinality(userSet)) = "closed"
        BY <3>2 DEF AfterScard
    <3>4. PICK d \in Conns : pc[d] \in {"open", "closing"}
        BY <2>3, <1>i DEF SetMatches
    <3>5. pc'[d] \in {"open", "closing"}
        BY <2>1, <3>4, <1>t
    <3>6. NoGhostPresence'
        BY <3>5 DEF NoGhostPresence
    <3>7. SetMatches' /\ SremIsRight' /\ RegisteredIsOnline'
        BY <2>1, <3>3, <1>i, <1>t DEF SetMatches, SremIsRight, RegisteredIsOnline
    <3> QED BY <3>6, <3>7 DEF PresenceInv
  <2> QED BY <2>2, <2>3
<1>5. ASSUME NEW c \in Conns, UnregisterSrem(c) PROVE PresenceInv'
  <2>1. /\ pc[c] = "srem" /\ pc' = [pc EXCEPT ![c] = "closed"]
        /\ ~online' /\ UNCHANGED <<userSet, crashed, raced>>
      BY <1>5 DEF UnregisterSrem, Goto
  <2>2. SetMatches' /\ SremIsRight'
      BY <2>1, <1>i, <1>t DEF SetMatches, SremIsRight
  <2>3. NoGhostPresence'
      BY <2>1 DEF NoGhostPresence
  <2>4. RegisteredIsOnline'
      BY <2>1, <1>i DEF SremIsRight, RegisteredIsOnline
  <2> QED BY <2>2, <2>3, <2>4 DEF PresenceInv
<1>6. ASSUME NEW r \in Replicas, CrashReplica(r) PROVE PresenceInv'
  <2>1. UNCHANGED <<pc, userSet, online, raced>> /\ crashed' # {}
      BY <1>6 DEF CrashReplica
  <2> QED BY <2>1, <1>i
          DEF PresenceInv, SetMatches, SremIsRight, NoGhostPresence, RegisteredIsOnline
<1>7. CASE UNCHANGED <<pc, userSet, online, crashed, raced>>
    BY <1>7, <1>i
    DEF PresenceInv, SetMatches, SremIsRight, NoGhostPresence, RegisteredIsOnline
<1>8. ASSUME Next
      PROVE  \/ \E c \in Conns : \/ register(c) \/ Disconnect(c) \/ UnregisterRemove(c)
                                 \/ UnregisterScard(c) \/ UnregisterSrem(c)
             \/ \E r \in Replicas : CrashReplica(r)
             \/ UNCHANGED <<pc, userSet, online, crashed, raced>>
    BY <1>8 DEF Next, ConnStep, Subscribe, RelayDies, heartbeat, Tick, is_online, Publish,
                send_message_push, PushFails
<1>9. CASE UNCHANGED vars
    BY <1>7, <1>9 DEF vars
<1> QED
    BY <1>1, <1>2, <1>3, <1>4, <1>5, <1>6, <1>7, <1>8, <1>9

(***************************************************************************)
(* unregister leaves no ghost: without a crash, a user is on ws:online     *)
(* only while a connection is served or still on its way out.              *)
(***************************************************************************)
THEOREM NoGhosts == Spec => []NoGhostPresence
<1>1. PresenceInv => NoGhostPresence
    BY DEF PresenceInv
<1> QED
    BY <1>1, PresenceInit, PresenceStep, TypeCorrect, PTL DEF Spec

(***************************************************************************)
(* Only a registration between SCARD and SREM of another connection's      *)
(* unregister can take a connected user offline.                           *)
(***************************************************************************)
THEOREM OnlyTheWindowHurts == Spec => []RegisteredIsOnline
<1>1. PresenceInv => RegisteredIsOnline
    BY DEF PresenceInv
<1> QED
    BY <1>1, PresenceInit, PresenceStep, TypeCorrect, PTL DEF Spec
=============================================================================
