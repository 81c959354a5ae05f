-------------------------- MODULE BroadcastsProofs --------------------------
(***************************************************************************)
(* For any number of broadcasts and devices: Broadcasts implements Notice. *)
(***************************************************************************)
EXTENDS Broadcasts, TLAPS

(***************************************************************************)
(* Where a broadcast can be on its way to the database of acks: on a frame *)
(* or in an answer it is committed, in a banner or a POST it was shown.    *)
(***************************************************************************)
FlowInv ==
    /\ acked \subseteq shown /\ shown \subseteq Committed
    /\ \A d \in Devices :
         /\ inbox[d] \subseteq Committed /\ load[d].rows \subseteq Committed
         /\ pending[d] \subseteq shown
         /\ ack[d].pc # "none" => ack[d].b \in shown

IInv == TypeOK /\ FlowInv

\* The types of one call of _loadUnacked and of one POST.
Load == [pc : {"done", "asked", "answered"}, rows : SUBSET Broadcasts]
Post == [pc : {"none", "select", "insert"}, b : Broadcasts \cup {None}]

-----------------------------------------------------------------------------
(***************************************************************************)
(* The invariant holds before anything is sent.                            *)
(***************************************************************************)
LEMMA IInvInit == Init => IInv
<1> SUFFICES ASSUME Init PROVE IInv
  OBVIOUS
<1> USE DEF Init
<1>1. up \in [Devices -> BOOLEAN] /\ socket \in [Devices -> BOOLEAN]
  BY Zenon
<1>2. load \in [Devices -> Load] /\ ack \in [Devices -> Post]
  BY DEF Load, Post, NoLoad, None
<1>3. TypeOK
  BY <1>1, <1>2 DEF TypeOK, Load, Post
<1>4. FlowInv
  BY DEF FlowInv, NoLoad
<1> QED BY <1>3, <1>4 DEF IInv

(***************************************************************************)
(* Every step keeps the types.                                             *)
(***************************************************************************)
LEMMA TypeStep == TypeOK /\ FlowInv /\ [Next]_vars => TypeOK'
<1> SUFFICES ASSUME TypeOK, FlowInv, [Next]_vars PROVE TypeOK'
  OBVIOUS
<1> USE DEF serverVars, appVars, None
<1>l. /\ load \in [Devices -> Load] /\ ack \in [Devices -> Post]
      /\ NoLoad \in Load /\ [NoLoad EXCEPT !.pc = "asked"] \in Load
      /\ Committed \subseteq Broadcasts /\ Unacked \subseteq Broadcasts
  BY DEF TypeOK, Load, Post, NoLoad, Committed, Unacked
<1>m. ASSUME load' \in [Devices -> Load], ack' \in [Devices -> Post],
             dept' = dept, send' \in [Broadcasts -> {"draft", "committed", "published", "done"}],
             acked' \subseteq Broadcasts, shown' \subseteq Broadcasts,
             up' \in [Devices -> BOOLEAN], socket' \in [Devices -> BOOLEAN],
             inbox' \in [Devices -> SUBSET Broadcasts], pending' \in [Devices -> SUBSET Broadcasts]
      PROVE  TypeOK'
  BY <1>m DEF TypeOK, Load, Post
<1>1. ASSUME NEW b \in Broadcasts, send_broadcast(b) \/ send_broadcast_push(b) PROVE TypeOK'
  BY <1>1, <1>l, <1>m DEF TypeOK, send_broadcast, send_broadcast_push
<1>0. ASSUME NEW b \in Broadcasts, publish_broadcast(b) PROVE TypeOK'
  <2>1. inbox' \in [Devices -> SUBSET Broadcasts]
    BY <1>0 DEF publish_broadcast, TypeOK
  <2> QED BY <1>0, <1>l, <1>m, <2>1 DEF TypeOK, publish_broadcast
<1>2. ASSUME NEW d \in Devices, initState(d) PROVE TypeOK'
  <2>1. load' \in [Devices -> Load]
    BY <1>2, <1>l DEF initState
  <2>2. up' \in [Devices -> BOOLEAN]
    BY <1>2 DEF initState, TypeOK
  <2> QED BY <1>2, <1>l, <1>m, <2>1, <2>2 DEF initState, TypeOK
<1>3. ASSUME NEW d \in Devices, dispose(d) PROVE TypeOK'
  <2>1. load' \in [Devices -> Load]
    BY <1>3, <1>l DEF dispose
  <2> QED BY <1>3, <1>l, <1>m, <2>1 DEF dispose, TypeOK
<1>4. ASSUME NEW d \in Devices, Reconnect(d) PROVE TypeOK'
  <2>1. socket' \in [Devices -> BOOLEAN]
    <3>1. (~socket[d]) \in BOOLEAN
      BY Zenon
    <3>2. socket' = [socket EXCEPT ![d] = ~socket[d]]
      BY <1>4 DEF Reconnect
    <3> QED BY <3>1, <3>2 DEF TypeOK
  <2> QED BY <1>4, <1>l, <1>m, <2>1 DEF Reconnect, TypeOK
<1>5. ASSUME NEW d \in Devices, unacked_broadcasts(d) PROVE TypeOK'
  <2>1. [pc |-> "answered", rows |-> Unacked] \in Load
    BY <1>l DEF Load
  <2>2. load' \in [Devices -> Load]
    BY <1>5, <1>l, <2>1 DEF unacked_broadcasts
  <2> QED BY <1>5, <1>l, <1>m, <2>2 DEF unacked_broadcasts, TypeOK
<1>6. ASSUME NEW d \in Devices, _loadUnacked(d) PROVE TypeOK'
  <2>1. load' \in [Devices -> Load] /\ load[d].rows \subseteq Broadcasts
    BY <1>6, <1>l DEF _loadUnacked, Load
  <2> QED BY <1>6, <1>l, <1>m, <2>1 DEF _loadUnacked, TypeOK
<1>7. ASSUME NEW d \in Devices, LoadFails(d) PROVE TypeOK'
  <2>1. load' \in [Devices -> Load]
    BY <1>7, <1>l DEF LoadFails
  <2> QED BY <1>7, <1>l, <1>m, <2>1 DEF LoadFails, TypeOK
<1>8. ASSUME NEW d \in Devices, EndAck(d) PROVE ack' \in [Devices -> Post]
  <2>1. [pc |-> "none", b |-> None] \in Post
    BY DEF Post
  <2> QED BY <1>8, <1>l, <2>1 DEF EndAck
<1>9. ASSUME NEW d \in Devices, ack_broadcast(d) PROVE TypeOK'
  <2>1. ack' \in [Devices -> Post]
    <3>1. CASE EndAck(d)
      BY <3>1, <1>8
    <3>2. CASE ack' = [ack EXCEPT ![d].pc = "insert"]
      BY <3>2, <1>l DEF Post
    <3> QED BY <1>9, <3>1, <3>2 DEF ack_broadcast
  <2> QED BY <1>9, <1>l, <1>m, <2>1 DEF ack_broadcast, TypeOK
<1>10. ASSUME NEW d \in Devices, InsertAck(d) PROVE TypeOK'
  <2>1. ack[d].b \in Broadcasts
    BY <1>10 DEF InsertAck, FlowInv, TypeOK
  <2> QED BY <1>10, <1>l, <1>m, <1>8, <2>1 DEF InsertAck, TypeOK
<1>11. ASSUME NEW d \in Devices, AckLost(d) PROVE TypeOK'
  BY <1>11, <1>l, <1>m, <1>8 DEF AckLost, TypeOK
<1>12. ASSUME NEW d \in Devices, NEW b \in Broadcasts, OnFrame(d, b) PROVE TypeOK'
  BY <1>12, <1>l, <1>m DEF OnFrame, TypeOK
<1>13. ASSUME NEW d \in Devices, NEW b \in Broadcasts, _ack(d, b) PROVE TypeOK'
  <2>1. [pc |-> "select", b |-> b] \in Post
    BY DEF Post
  <2>2. ack' \in [Devices -> Post]
    BY <1>13, <1>l, <2>1 DEF _ack
  <2> QED BY <1>13, <1>l, <1>m, <2>2 DEF _ack, TypeOK
<1>14. CASE UNCHANGED vars
  BY <1>14 DEF vars, TypeOK
<1> QED BY <1>0, <1>1, <1>2, <1>3, <1>4, <1>5, <1>6, <1>7, <1>9, <1>10, <1>11, <1>12, <1>13, <1>14
        DEF Next

(***************************************************************************)
(* No step takes a broadcast back: what is committed, shown, acknowledged  *)
(* stays so, and a broadcast keeps its addressees.                         *)
(***************************************************************************)
LEMMA Monotone ==
    TypeOK /\ [Next]_vars => /\ Committed \subseteq Committed' /\ shown \subseteq shown'
                             /\ acked \subseteq acked' /\ dept' = dept
<1> SUFFICES ASSUME TypeOK, [Next]_vars
             PROVE  /\ Committed \subseteq Committed' /\ shown \subseteq shown'
                    /\ acked \subseteq acked' /\ dept' = dept
  OBVIOUS
<1> USE DEF serverVars, appVars
<1>1. shown \subseteq shown' /\ acked \subseteq acked' /\ dept' = dept
  BY DEF Next, send_broadcast, publish_broadcast, send_broadcast_push, initState, dispose,
         Reconnect, unacked_broadcasts, _loadUnacked, LoadFails, ack_broadcast, InsertAck,
         AckLost, OnFrame, _ack, vars
<1>2. ASSUME NEW b \in Broadcasts, send[b] # "draft" PROVE send'[b] # "draft"
  <2>1. CASE send' = send
    BY <1>2, <2>1
  <2>2. CASE \E a \in Broadcasts : send' = [send EXCEPT ![a] = "committed"]
                \/ send' = [send EXCEPT ![a] = "published"] \/ send' = [send EXCEPT ![a] = "done"]
    BY <1>2, <2>2 DEF TypeOK
  <2> QED BY <2>1, <2>2
       DEF Next, send_broadcast, publish_broadcast, send_broadcast_push, initState, dispose,
           Reconnect, unacked_broadcasts, _loadUnacked, LoadFails, ack_broadcast, InsertAck,
           AckLost, OnFrame, _ack, vars
<1> QED BY <1>1, <1>2 DEF Committed

(***************************************************************************)
(* What FlowInv says of one device.                                        *)
(***************************************************************************)
DeviceInv(d) ==
    /\ inbox[d] \subseteq Committed /\ load[d].rows \subseteq Committed
    /\ pending[d] \subseteq shown
    /\ ack[d].pc # "none" => ack[d].b \in shown

(***************************************************************************)
(* Every step preserves the invariant.                                     *)
(***************************************************************************)
LEMMA IInvStep == IInv /\ [Next]_vars => IInv'
<1> SUFFICES ASSUME IInv, [Next]_vars PROVE IInv'
  OBVIOUS
<1> USE DEF serverVars, appVars
<1>t. TypeOK /\ TypeOK' /\ FlowInv
  BY TypeStep DEF IInv
<1>m. /\ Committed \subseteq Committed' /\ shown \subseteq shown'
      /\ acked \subseteq acked' /\ dept' = dept
  BY <1>t, Monotone
<1>q. ASSUME acked' \subseteq shown', shown' \subseteq Committed', \A e \in Devices : DeviceInv(e)'
      PROVE  IInv'
  BY <1>q, <1>t DEF IInv, FlowInv, DeviceInv
<1>o. ASSUME NEW d \in Devices,
             \A e \in Devices \ {d} : /\ inbox'[e] = inbox[e] /\ load'[e] = load[e]
                                      /\ pending'[e] = pending[e] /\ ack'[e] = ack[e],
             DeviceInv(d)', acked' \subseteq shown', shown' \subseteq Committed'
      PROVE  IInv'
  <2>1. \A e \in Devices \ {d} : DeviceInv(e)'
    BY <1>o, <1>t, <1>m DEF FlowInv, DeviceInv
  <2> QED BY <1>o, <1>q, <2>1
<1>s. /\ acked \subseteq shown /\ shown \subseteq Committed
      /\ \A e \in Devices : DeviceInv(e)
  BY <1>t DEF FlowInv, DeviceInv
<1>1. ASSUME NEW b \in Broadcasts, send_broadcast(b) \/ send_broadcast_push(b) PROVE IInv'
  <2>1. UNCHANGED <<acked, shown, inbox, load, pending, ack>>
    BY <1>1 DEF send_broadcast, send_broadcast_push
  <2> QED BY <2>1, <1>m, <1>q, <1>s DEF DeviceInv
<1>2. ASSUME NEW b \in Broadcasts, publish_broadcast(b) PROVE IInv'
  <2>1. UNCHANGED <<acked, shown, load, pending, ack>>
    BY <1>2 DEF publish_broadcast
  <2>2. b \in Committed
    BY <1>2 DEF publish_broadcast, Committed
  <2>3. \A e \in Devices : inbox'[e] \subseteq inbox[e] \cup {b}
    BY <1>2 DEF publish_broadcast
  <2> QED BY <2>1, <2>2, <2>3, <1>m, <1>q, <1>s DEF DeviceInv
<1>3. ASSUME NEW d \in Devices, initState(d) PROVE IInv'
  <2>1. UNCHANGED <<acked, shown, inbox, pending, ack>>
    BY <1>3 DEF initState
  <2>2. load'[d].rows = {} /\ load'[d].pc = "asked" /\ \A e \in Devices \ {d} : load'[e] = load[e]
    BY <1>3, <1>t DEF initState, NoLoad, TypeOK
  <2> QED BY <2>1, <2>2, <1>m, <1>o, <1>s DEF DeviceInv
<1>4. ASSUME NEW d \in Devices, dispose(d) PROVE IInv'
  <2>1. UNCHANGED <<acked, shown, ack>>
    BY <1>4 DEF dispose
  <2>2. /\ load'[d].rows = {} /\ load'[d].pc = "done" /\ inbox'[d] = {} /\ pending'[d] = {}
        /\ \A e \in Devices \ {d} : load'[e] = load[e] /\ inbox'[e] = inbox[e]
                                    /\ pending'[e] = pending[e]
    BY <1>4, <1>t DEF dispose, NoLoad, TypeOK
  <2> QED BY <2>1, <2>2, <1>m, <1>o, <1>s DEF DeviceInv
<1>5. ASSUME NEW d \in Devices, Reconnect(d) PROVE IInv'
  <2>1. UNCHANGED <<acked, shown, load, pending, ack>>
    BY <1>5 DEF Reconnect
  <2>2. inbox'[d] = {} /\ \A e \in Devices \ {d} : inbox'[e] = inbox[e]
    BY <1>5, <1>t DEF Reconnect, TypeOK
  <2> QED BY <2>1, <2>2, <1>m, <1>o, <1>s DEF DeviceInv
<1>6. ASSUME NEW d \in Devices, unacked_broadcasts(d) PROVE IInv'
  <2>1. UNCHANGED <<acked, shown, inbox, pending, ack>>
    BY <1>6 DEF unacked_broadcasts
  <2>2. /\ load'[d].rows = Unacked
        /\ \A e \in Devices \ {d} : load'[e] = load[e]
    BY <1>6, <1>t DEF unacked_broadcasts, TypeOK
  <2>3. Unacked \subseteq Committed
    BY DEF Unacked
  <2> QED BY <2>1, <2>2, <2>3, <1>m, <1>o, <1>s DEF DeviceInv
<1>7. ASSUME NEW d \in Devices, _loadUnacked(d) PROVE IInv'
  <2>1. UNCHANGED <<acked, inbox, ack>> /\ shown' = shown \cup load[d].rows
    BY <1>7 DEF _loadUnacked
  <2>2. /\ load'[d].rows = {} /\ load'[d].pc = "done" /\ pending'[d] = load[d].rows
        /\ \A e \in Devices \ {d} : load'[e] = load[e] /\ pending'[e] = pending[e]
    BY <1>7, <1>t DEF _loadUnacked, NoLoad, TypeOK
  <2> QED BY <2>1, <2>2, <1>m, <1>o, <1>s DEF DeviceInv
<1>8. ASSUME NEW d \in Devices, LoadFails(d) PROVE IInv'
  <2>1. UNCHANGED <<acked, shown, inbox, pending, ack>>
    BY <1>8 DEF LoadFails
  <2>2. load'[d].rows = {} /\ load'[d].pc = "done" /\ \A e \in Devices \ {d} : load'[e] = load[e]
    BY <1>8, <1>t DEF LoadFails, NoLoad, TypeOK
  <2> QED BY <2>1, <2>2, <1>m, <1>o, <1>s DEF DeviceInv
<1>9. ASSUME NEW d \in Devices, EndAck(d) PROVE ack'[d].pc = "none" /\ \A e \in Devices \ {d} : ack'[e] = ack[e]
  BY <1>9, <1>t DEF EndAck, TypeOK
<1>10. ASSUME NEW d \in Devices, ack_broadcast(d) PROVE IInv'
  <2>1. UNCHANGED <<acked, shown, inbox, pending, load>>
    BY <1>10 DEF ack_broadcast
  <2>2. CASE EndAck(d)
    BY <2>1, <2>2, <1>9, <1>m, <1>o, <1>s DEF DeviceInv
  <2>3. CASE ack' = [ack EXCEPT ![d].pc = "insert"]
    <3>1. ack'[d].b = ack[d].b /\ ack[d].pc # "none" /\ \A e \in Devices \ {d} : ack'[e] = ack[e]
      BY <1>10, <1>t, <2>3 DEF ack_broadcast, TypeOK
    <3> QED BY <2>1, <3>1, <1>m, <1>o, <1>s DEF DeviceInv
  <2> QED BY <1>10, <2>2, <2>3 DEF ack_broadcast
<1>11. ASSUME NEW d \in Devices, InsertAck(d) PROVE IInv'
  <2>1. UNCHANGED <<shown, inbox, pending, load>> /\ acked' = acked \cup {ack[d].b} /\ EndAck(d)
    BY <1>11 DEF InsertAck
  <2>2. ack[d].b \in shown
    BY <1>11, <1>s DEF InsertAck, DeviceInv
  <2> QED BY <2>1, <2>2, <1>9, <1>m, <1>o, <1>s DEF DeviceInv
<1>12. ASSUME NEW d \in Devices, AckLost(d) PROVE IInv'
  <2>1. UNCHANGED <<acked, shown, inbox, pending, load>> /\ EndAck(d)
    BY <1>12 DEF AckLost
  <2> QED BY <2>1, <1>9, <1>m, <1>o, <1>s DEF DeviceInv
<1>13. ASSUME NEW d \in Devices, NEW b \in Broadcasts, OnFrame(d, b) PROVE IInv'
  <2>1. UNCHANGED <<acked, load, ack>> /\ shown' = shown \cup {b} /\ b \in inbox[d]
    BY <1>13 DEF OnFrame
  <2>2. /\ inbox'[d] = inbox[d] \ {b} /\ pending'[d] = pending[d] \cup {b}
        /\ \A e \in Devices \ {d} : inbox'[e] = inbox[e] /\ pending'[e] = pending[e]
    BY <1>13, <1>t DEF OnFrame, TypeOK
  <2> QED BY <2>1, <2>2, <1>m, <1>o, <1>s DEF DeviceInv
<1>14. ASSUME NEW d \in Devices, NEW b \in Broadcasts, _ack(d, b) PROVE IInv'
  <2>1. UNCHANGED <<acked, load, inbox, shown>> /\ b \in pending[d]
    BY <1>14 DEF _ack
  <2>2. /\ ack'[d].b = b /\ pending'[d] = pending[d] \ {b}
        /\ \A e \in Devices \ {d} : ack'[e] = ack[e] /\ pending'[e] = pending[e]
    BY <1>14, <1>t DEF _ack, TypeOK
  <2> QED BY <2>1, <2>2, <1>m, <1>o, <1>s DEF DeviceInv
<1>15. CASE UNCHANGED vars
  BY <1>15, <1>m, <1>q, <1>s DEF vars, DeviceInv
<1> QED BY <1>1, <1>2, <1>3, <1>4, <1>5, <1>6, <1>7, <1>8, <1>10, <1>11, <1>12, <1>13, <1>14, <1>15
        DEF Next

(***************************************************************************)
(* IInv holds in every reachable state.                                    *)
(***************************************************************************)
THEOREM Invariance == Spec => []IInv
BY IInvInit, IInvStep, PTL DEF Spec

(***************************************************************************)
(* Rows, frames, banners and requests keep their types.                    *)
(***************************************************************************)
THEOREM TypeCorrect == Spec => []TypeOK
<1>1. IInv => TypeOK
  BY DEF IInv
<1> QED BY <1>1, Invariance, PTL

-----------------------------------------------------------------------------
\* The phase of a broadcast, read off the three sets it depends on.
PhaseIn(b, A, S, C) ==
    CASE b \in A -> "acked" [] b \in S \ A -> "shown" [] OTHER -> IF b \in C THEN "sent" ELSE "unsent"

(***************************************************************************)
(* Notice's variable is a function of acked, shown and Committed.          *)
(***************************************************************************)
LEMMA PhaseOf ==
    /\ phase = [b \in Broadcasts |-> PhaseIn(b, acked, shown, Committed)]
    /\ phase' = [b \in Broadcasts |-> PhaseIn(b, acked', shown', Committed')]
BY Zenon DEF phase, PhaseIn

(***************************************************************************)
(* The four values of a phase, under FlowInv.                              *)
(***************************************************************************)
LEMMA PhaseValue ==
    ASSUME NEW b, NEW A, NEW S, NEW C, A \subseteq S, S \subseteq C
    PROVE  /\ b \in A => PhaseIn(b, A, S, C) = "acked"
           /\ b \in S \ A => PhaseIn(b, A, S, C) = "shown"
           /\ b \in C \ S => PhaseIn(b, A, S, C) = "sent"
           /\ b \notin C => PhaseIn(b, A, S, C) = "unsent"
BY DEF PhaseIn

(***************************************************************************)
(* Every step of the system is a step of Notice or leaves it unchanged.    *)
(***************************************************************************)
LEMMA StepImplements == IInv /\ IInv' /\ [Next]_vars => [N!Next]_phase
<1> SUFFICES ASSUME IInv, IInv', [Next]_vars PROVE [N!Next]_phase
  OBVIOUS
<1> USE DEF serverVars, appVars
<1>t. TypeOK /\ TypeOK' /\ FlowInv /\ FlowInv'
  BY DEF IInv
<1>f. /\ acked \subseteq shown /\ shown \subseteq Committed
      /\ acked' \subseteq shown' /\ shown' \subseteq Committed'
  BY <1>t DEF FlowInv
<1>0. CASE UNCHANGED <<acked, shown, Committed>>
  <2>1. phase' = phase
    BY <1>0, PhaseOf
  <2> QED BY <2>1
<1>1. ASSUME NEW b \in Broadcasts, send_broadcast(b) PROVE [N!Next]_phase
  <2>1. UNCHANGED <<acked, shown>> /\ b \notin Committed /\ Committed' = Committed \cup {b}
    BY <1>1, <1>t DEF send_broadcast, Committed, TypeOK
  <2>2. phase[b] = "unsent" /\ phase' = [phase EXCEPT ![b] = "sent"]
    <3>1. \A c \in Broadcasts : PhaseIn(c, acked', shown', Committed')
             = IF c = b THEN "sent" ELSE PhaseIn(c, acked, shown, Committed)
      BY <1>f, <2>1 DEF PhaseIn
    <3>2. PhaseIn(b, acked, shown, Committed) = "unsent"
      BY <1>f, <2>1, PhaseValue
    <3> QED BY <3>1, <3>2, PhaseOf
  <2> QED BY <2>2 DEF N!Next, N!Send, N!Advance
<1>2. ASSUME NEW B \in SUBSET Broadcasts, B \subseteq Committed,
             UNCHANGED <<acked, Committed>>, shown' = shown \cup B
      PROVE  [N!Next]_phase
  <2> DEFINE D == B \ shown
  <2>1. \A c \in D : phase[c] = "sent"
    BY <1>2, <1>f, PhaseOf, PhaseValue
  <2>2. phase' = [c \in Broadcasts |-> IF c \in D THEN "shown" ELSE phase[c]]
    <3>1. \A c \in Broadcasts : PhaseIn(c, acked', shown', Committed')
             = IF c \in D THEN "shown" ELSE PhaseIn(c, acked, shown, Committed)
      BY <1>2, <1>f DEF PhaseIn
    <3> QED BY <3>1, PhaseOf
  <2>3. N!ShowAll(D)
    BY <2>1, <2>2 DEF N!ShowAll
  <2> QED BY <2>3 DEF N!Next
<1>3. ASSUME NEW d \in Devices, InsertAck(d) PROVE [N!Next]_phase
  <2> DEFINE b == ack[d].b
  <2>1. UNCHANGED <<shown, Committed>> /\ acked' = acked \cup {b} /\ b \in shown /\ b \in Broadcasts
    BY <1>3, <1>t DEF InsertAck, Committed, FlowInv, TypeOK
  <2>2. CASE b \in acked
    BY <2>1, <2>2, <1>0
  <2>3. CASE b \notin acked
    <3>1. phase[b] = "shown" /\ phase' = [phase EXCEPT ![b] = "acked"]
      <4>1. \A c \in Broadcasts : PhaseIn(c, acked', shown', Committed')
               = IF c = b THEN "acked" ELSE PhaseIn(c, acked, shown, Committed)
        BY <1>f, <2>1 DEF PhaseIn
      <4>2. PhaseIn(b, acked, shown, Committed) = "shown"
        BY <1>f, <2>1, <2>3, PhaseValue
      <4> QED BY <2>1, <4>1, <4>2, PhaseOf
    <3> QED BY <2>1, <3>1 DEF N!Next, N!Acknowledge, N!Advance
  <2> QED BY <2>2, <2>3
<1>4. ASSUME NEW d \in Devices, _loadUnacked(d) PROVE [N!Next]_phase
  <2>1. /\ UNCHANGED <<acked, Committed>> /\ shown' = shown \cup load[d].rows
        /\ load[d].rows \subseteq Committed /\ load[d].rows \in SUBSET Broadcasts
    BY <1>4, <1>t DEF _loadUnacked, Committed, FlowInv, TypeOK
  <2> QED BY <2>1, <1>2
<1>5. ASSUME NEW d \in Devices, NEW b \in Broadcasts, OnFrame(d, b) PROVE [N!Next]_phase
  <2>1. /\ UNCHANGED <<acked, Committed>> /\ shown' = shown \cup {b}
        /\ {b} \subseteq Committed /\ {b} \in SUBSET Broadcasts
    BY <1>5, <1>t DEF OnFrame, Committed, FlowInv
  <2> QED BY <2>1, <1>2
<1>6. ASSUME NEW b \in Broadcasts, publish_broadcast(b) \/ send_broadcast_push(b)
      PROVE  [N!Next]_phase
  <2>1. UNCHANGED <<acked, shown, Committed>>
    BY <1>6, <1>t DEF publish_broadcast, send_broadcast_push, Committed, TypeOK
  <2> QED BY <2>1, <1>0
<1>7. CASE UNCHANGED <<acked, shown, send>>
  BY <1>7, <1>0 DEF Committed
<1>8. ASSUME Next
      PROVE  \/ \E b \in Broadcasts : send_broadcast(b) \/ publish_broadcast(b)
                                        \/ send_broadcast_push(b)
             \/ \E d \in Devices : InsertAck(d) \/ _loadUnacked(d)
             \/ \E d \in Devices, b \in Broadcasts : OnFrame(d, b)
             \/ UNCHANGED <<acked, shown, send>>
  BY <1>8 DEF Next, initState, dispose, Reconnect, unacked_broadcasts, LoadFails,
              ack_broadcast, AckLost, _ack
<1>9. CASE UNCHANGED vars
  BY <1>9, <1>7 DEF vars
<1> QED BY <1>1, <1>3, <1>4, <1>5, <1>6, <1>7, <1>8, <1>9

(***************************************************************************)
(* The server and the banners of all devices implement Notice, for any     *)
(* number of broadcasts and devices and whatever is lost.                  *)
(***************************************************************************)
THEOREM Implements == Spec => ImplementsNotice
<1>1. Init => N!Init
  <2> SUFFICES ASSUME Init PROVE N!Init
    OBVIOUS
  <2>1. acked = {} /\ shown = {} /\ Committed = {}
    BY DEF Init, Committed
  <2>2. \A b \in Broadcasts : PhaseIn(b, acked, shown, Committed) = "unsent"
    BY <2>1 DEF PhaseIn
  <2> QED BY <2>2, PhaseOf DEF N!Init
<1> QED BY <1>1, StepImplements, Invariance, PTL DEF Spec, ImplementsNotice, N!Spec
=============================================================================
