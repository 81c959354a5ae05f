---------------------------- MODULE AccountProofs ---------------------------
(***************************************************************************)
(* Proofs about one account: first its tokens, sessions and tickets        *)
(* (AuthSession), for every number of handlers, tickets, logins and        *)
(* suspensions; then its keys (KeyDirectory), for every set of identifiers *)
(* and every number of requests and keys.  The two specifications share no *)
(* name.                                                                   *)
(***************************************************************************)
EXTENDS AuthSession, KeyDirectory, TLAPS

(***************************************************************************)
(* The two parts of TypeOK that need different provers: the Booleans, and  *)
(* the rest.                                                               *)
(***************************************************************************)
RowType ==
    /\ status \in {"active", "suspended"}
    /\ version \in Nat
    /\ session \in [Logins -> {"none", "live", "revoked"}]

TokenType ==
    /\ logins \in 0 .. MaxLogins
    /\ tokenVer \in [Logins -> Nat]
    /\ outdated \subseteq Logins

TicketType ==
    /\ ticket \in [Tickets -> {"none", "live", "gone"}]
    /\ sockets \in [Tickets -> Nat]

HandlerType ==
    /\ pc \in [Handlers -> {"idle", "login", "suspend", "announced", "activate",
                            "ticket", "revoke", "revoked"}]
    /\ seen \in [Handlers -> Nat]
    /\ about \in [Handlers -> 0 .. MaxLogins]

CountType == suspends \in 0 .. MaxSuspends /\ notices \in Nat

FlagType == wasSuspended \in [Handlers -> BOOLEAN] /\ lostUpdate \in BOOLEAN

(***************************************************************************)
(* TypeOK is the conjunction of its parts.                                 *)
(***************************************************************************)
LEMMA TypeParts ==
    TypeOK <=> /\ RowType /\ TokenType /\ TicketType
               /\ HandlerType /\ CountType /\ FlagType
  BY Zenon DEF TypeOK, RowType, TokenType, TicketType, HandlerType, CountType, FlagType

(***************************************************************************)
(* The initial state is well typed.                                        *)
(***************************************************************************)
LEMMA TypeInit == Init => TypeOK
<1> SUFFICES ASSUME Init PROVE TypeOK
    OBVIOUS
<1>1. RowType
    BY DEF Init, RowType
<1>2. TokenType
    BY BoundsAssumption DEF Init, TokenType
<1>3. TicketType
    BY DEF Init, TicketType
<1>4. HandlerType
    BY BoundsAssumption DEF Init, HandlerType
<1>5. CountType
    BY BoundsAssumption DEF Init, CountType
<1>6. FlagType
    BY Zenon DEF Init, FlagType
<1> QED
    BY <1>1, <1>2, <1>3, <1>4, <1>5, <1>6, TypeParts

(***************************************************************************)
(* Begin and Return, the first and the last thing a handler does, keep its *)
(* locals well typed.                                                      *)
(***************************************************************************)
LEMMA BeginTyped ==
    ASSUME TypeOK, NEW h \in Handlers, NEW l \in 0 .. MaxLogins,
           NEW step \in {"login", "suspend", "activate", "ticket", "revoke"},
           Begin(h, step, l)
    PROVE  HandlerType' /\ wasSuspended' \in [Handlers -> BOOLEAN]
<1>1. HandlerType'
    BY DEF TypeOK, Begin, HandlerType
<1>2. wasSuspended' \in [Handlers -> BOOLEAN]
    BY Zenon DEF TypeOK, Begin
<1> QED
    BY <1>1, <1>2

\* Finishing a request, by an answer or a 401, keeps the table of requests well typed.
LEMMA ReturnTyped ==
    ASSUME TypeOK, NEW h \in Handlers, Return(h)
    PROVE  HandlerType' /\ wasSuspended' \in [Handlers -> BOOLEAN]
<1>1. HandlerType'
    BY BoundsAssumption DEF TypeOK, Return, HandlerType
<1>2. wasSuspended' \in [Handlers -> BOOLEAN]
    BY Zenon DEF TypeOK, Return
<1> QED
    BY <1>1, <1>2

(***************************************************************************)
(* Every step of every handler keeps the state well typed.                 *)
(***************************************************************************)
LEMMA TypeStep == TypeOK /\ [Next]_vars => TypeOK'
<1> SUFFICES ASSUME TypeOK, [Next]_vars PROVE TypeOK'
    OBVIOUS
<1> USE DEF handlerVars, dbVars, tokenVars, ticketVars
<1>t. RowType /\ TokenType /\ TicketType /\ HandlerType /\ CountType /\ FlagType
    BY TypeParts
<1>p. RowType' /\ TokenType' /\ TicketType' /\ HandlerType' /\ CountType' /\ FlagType'
        => TypeOK'
    BY Zenon DEF TypeOK, RowType, TokenType, TicketType, HandlerType, CountType, FlagType
<1>1. ASSUME NEW h \in Handlers, LoginLoad(h) PROVE TypeOK'
  <2>1. HandlerType' /\ wasSuspended' \in [Handlers -> BOOLEAN]
      BY <1>1, BeginTyped, BoundsAssumption DEF LoginLoad
  <2>2. RowType' /\ TokenType' /\ TicketType' /\ CountType' /\ lostUpdate' \in BOOLEAN
      BY <1>1, <1>t DEF LoginLoad, RowType, TokenType, TicketType, CountType, FlagType, Logins
  <2> QED BY <2>1, <2>2, <1>p DEF FlagType
<1>2. ASSUME NEW h \in Handlers, LoginRefused(h) PROVE TypeOK'
  <2>1. HandlerType' /\ wasSuspended' \in [Handlers -> BOOLEAN]
      BY <1>2, ReturnTyped DEF LoginRefused
  <2>2. RowType' /\ TokenType' /\ TicketType' /\ CountType' /\ lostUpdate' \in BOOLEAN
      BY <1>2, <1>t DEF LoginRefused, RowType, TokenType, TicketType, CountType, FlagType, Logins
  <2> QED BY <2>1, <2>2, <1>p DEF FlagType
<1>3. ASSUME NEW h \in Handlers, LoginCommit(h) PROVE TypeOK'
  <2>1. HandlerType' /\ wasSuspended' \in [Handlers -> BOOLEAN]
      BY <1>3, ReturnTyped DEF LoginCommit
  <2>2. RowType'
    <3>1. version' \in Nat
        BY <1>3, <1>t DEF LoginCommit, HandlerType
    <3>2. session' \in [Logins -> {"none", "live", "revoked"}]
        BY <1>3, <1>t DEF LoginCommit, RowType
    <3> QED BY <1>3, <1>t, <3>1, <3>2 DEF LoginCommit, RowType, Logins
  <2>3. TokenType'
      BY <1>3, <1>t, BoundsAssumption DEF LoginCommit, TokenType, HandlerType, Logins, Minted
  <2>4. TicketType' /\ CountType'
      BY <1>3, <1>t DEF LoginCommit, TicketType, CountType
  <2>5. lostUpdate' \in BOOLEAN
      BY <1>3, Zenon DEF LoginCommit
  <2> QED BY <2>1, <2>2, <2>3, <2>4, <2>5, <1>p DEF FlagType
<1>4. ASSUME NEW h \in Handlers, SuspendLoad(h) PROVE TypeOK'
  <2>1. HandlerType' /\ wasSuspended' \in [Handlers -> BOOLEAN]
      BY <1>4, BeginTyped, BoundsAssumption DEF SuspendLoad
  <2>2. RowType' /\ TokenType' /\ TicketType' /\ lostUpdate' \in BOOLEAN
      BY <1>4, <1>t DEF SuspendLoad, RowType, TokenType, TicketType, FlagType, Logins
  <2>3. CountType'
      BY <1>4, <1>t, BoundsAssumption DEF SuspendLoad, CountType
  <2> QED BY <2>1, <2>2, <2>3, <1>p DEF FlagType
<1>5. ASSUME NEW h \in Handlers, SuspendPublish(h) PROVE TypeOK'
  <2>1. HandlerType'
      BY <1>5, <1>t DEF SuspendPublish, HandlerType
  <2>2. RowType' /\ TokenType' /\ TicketType' /\ FlagType'
      BY <1>5, <1>t DEF SuspendPublish, RowType, TokenType, TicketType, FlagType, Logins
  <2>3. CountType'
      BY <1>5, <1>t DEF SuspendPublish, CountType
  <2> QED BY <2>1, <2>2, <2>3, <1>p
<1>6. ASSUME NEW h \in Handlers, SuspendCommit(h) PROVE TypeOK'
  <2>1. HandlerType' /\ wasSuspended' \in [Handlers -> BOOLEAN]
      BY <1>6, ReturnTyped DEF SuspendCommit
  <2>2. RowType'
      BY <1>6, <1>t DEF SuspendCommit, RowType, HandlerType, Logins
  <2>3. TokenType' /\ TicketType' /\ CountType'
      BY <1>6, <1>t, BoundsAssumption
      DEF SuspendCommit, TokenType, TicketType, CountType, Logins, Minted
  <2>4. lostUpdate' \in BOOLEAN
      BY <1>6, Zenon DEF SuspendCommit
  <2> QED BY <2>1, <2>2, <2>3, <2>4, <1>p DEF FlagType
<1>7. ASSUME NEW h \in Handlers, SuspendFails(h) PROVE TypeOK'
  <2>1. HandlerType' /\ wasSuspended' \in [Handlers -> BOOLEAN]
      BY <1>7, ReturnTyped DEF SuspendFails
  <2>2. RowType' /\ TokenType' /\ TicketType' /\ CountType' /\ lostUpdate' \in BOOLEAN
      BY <1>7, <1>t DEF SuspendFails, RowType, TokenType, TicketType, CountType, FlagType, Logins
  <2> QED BY <2>1, <2>2, <1>p DEF FlagType
<1>8. ASSUME NEW h \in Handlers, ActivateLoad(h) PROVE TypeOK'
  <2>1. HandlerType' /\ wasSuspended' \in [Handlers -> BOOLEAN]
      BY <1>8, BeginTyped, BoundsAssumption DEF ActivateLoad
  <2>2. RowType' /\ TokenType' /\ TicketType' /\ CountType' /\ lostUpdate' \in BOOLEAN
      BY <1>8, <1>t DEF ActivateLoad, RowType, TokenType, TicketType, CountType, FlagType, Logins
  <2> QED BY <2>1, <2>2, <1>p DEF FlagType
<1>9. ASSUME NEW h \in Handlers, ActivateCommit(h) PROVE TypeOK'
  <2>1. HandlerType' /\ wasSuspended' \in [Handlers -> BOOLEAN]
      BY <1>9, ReturnTyped DEF ActivateCommit
  <2>2. RowType' /\ TokenType' /\ TicketType' /\ CountType' /\ lostUpdate' \in BOOLEAN
      BY <1>9, <1>t DEF ActivateCommit, RowType, TokenType, TicketType, CountType, FlagType, Logins
  <2> QED BY <2>1, <2>2, <1>p DEF FlagType
<1>10. ASSUME NEW h \in Handlers, NEW t \in Tickets, create_ws_ticket(h, t) PROVE TypeOK'
  <2>1. HandlerType' /\ wasSuspended' \in [Handlers -> BOOLEAN]
      BY <1>10, ReturnTyped DEF create_ws_ticket
  <2>2. RowType' /\ TokenType' /\ CountType' /\ lostUpdate' \in BOOLEAN
      BY <1>10, <1>t DEF create_ws_ticket, RowType, TokenType, CountType, FlagType, Logins
  <2>3. TicketType'
      BY <1>10, <1>t DEF create_ws_ticket, TicketType
  <2> QED BY <2>1, <2>2, <2>3, <1>p DEF FlagType
<1>11. ASSUME NEW h \in Handlers, NEW l \in Logins, TicketAuthorise(h, l) PROVE TypeOK'
  <2>1. HandlerType' /\ wasSuspended' \in [Handlers -> BOOLEAN]
      BY <1>11, BeginTyped, BoundsAssumption DEF TicketAuthorise, Logins
  <2>2. RowType' /\ TokenType' /\ TicketType' /\ CountType' /\ lostUpdate' \in BOOLEAN
      BY <1>11, <1>t DEF TicketAuthorise, RowType, TokenType, TicketType, CountType, FlagType, Logins
  <2> QED BY <2>1, <2>2, <1>p DEF FlagType
<1>12. ASSUME NEW h \in Handlers, NEW l \in Logins, NEW k \in Logins, RevokeLoad(h, l, k)
       PROVE TypeOK'
  <2>1. HandlerType' /\ wasSuspended' \in [Handlers -> BOOLEAN]
      BY <1>12, BeginTyped, BoundsAssumption DEF RevokeLoad, Logins
  <2>2. RowType' /\ TokenType' /\ TicketType' /\ CountType' /\ lostUpdate' \in BOOLEAN
      BY <1>12, <1>t DEF RevokeLoad, RowType, TokenType, TicketType, CountType, FlagType, Logins
  <2> QED BY <2>1, <2>2, <1>p DEF FlagType
<1>13. ASSUME NEW h \in Handlers, RevokeCommit(h) PROVE TypeOK'
  <2>1. HandlerType'
      BY <1>13, <1>t DEF RevokeCommit, HandlerType
  <2>2. RowType'
      BY <1>13, <1>t DEF RevokeCommit, RowType, Logins
  <2>3. TokenType' /\ TicketType' /\ CountType' /\ FlagType'
      BY <1>13, <1>t DEF RevokeCommit, TokenType, TicketType, CountType, FlagType, Logins
  <2> QED BY <2>1, <2>2, <2>3, <1>p
<1>14. ASSUME NEW h \in Handlers, RevokePublish(h) PROVE TypeOK'
  <2>1. HandlerType' /\ wasSuspended' \in [Handlers -> BOOLEAN]
      BY <1>14, ReturnTyped DEF RevokePublish
  <2>2. RowType' /\ TokenType' /\ TicketType' /\ CountType' /\ lostUpdate' \in BOOLEAN
      BY <1>14, <1>t DEF RevokePublish, RowType, TokenType, TicketType, CountType, FlagType, Logins
  <2> QED BY <2>1, <2>2, <1>p DEF FlagType
<1>15. ASSUME NEW t \in Tickets, TicketExpires(t) \/ chat_socket(t) PROVE TypeOK'
  <2>1. RowType' /\ TokenType' /\ HandlerType' /\ CountType' /\ FlagType'
      BY <1>15, <1>t DEF TicketExpires, chat_socket, RowType, TokenType, HandlerType,
                         CountType, FlagType, Logins
  <2>2. TicketType'
      BY <1>15, <1>t DEF TicketExpires, chat_socket, TicketType
  <2> QED BY <2>1, <2>2, <1>p
<1>16. CASE UNCHANGED vars
    BY <1>16, <1>t, <1>p DEF vars, RowType, TokenType, TicketType, HandlerType,
                                  CountType, FlagType, Logins
<1> QED
    BY <1>1, <1>2, <1>3, <1>4, <1>5, <1>6, <1>7, <1>8, <1>9, <1>10, <1>11, <1>12,
       <1>13, <1>14, <1>15, <1>16 DEF Next

(***************************************************************************)
(* The account row, tokens, sessions, tickets and handlers keep their      *)
(* types, whatever handlers overlap.                                       *)
(***************************************************************************)
THEOREM TypeCorrect == Spec => []TypeOK
  BY TypeInit, TypeStep, PTL DEF Spec

-----------------------------------------------------------------------------
(***************************************************************************)
(* Serial rotation is inductive on top of the types: an update that did    *)
(* not overwrite an unread version moves the version past every token.     *)
(***************************************************************************)
LEMMA RotationStep ==
    TypeOK /\ SerialRotationKillsTokens /\ [Next]_vars => SerialRotationKillsTokens'
<1> SUFFICES ASSUME TypeOK, SerialRotationKillsTokens, [Next]_vars
             PROVE  SerialRotationKillsTokens'
    OBVIOUS
<1> USE DEF handlerVars, dbVars, tokenVars, ticketVars
<1>1. ASSUME NEW h \in Handlers, LoginCommit(h) PROVE SerialRotationKillsTokens'
  <2> SUFFICES ASSUME ~lostUpdate'
               PROVE  /\ \A l \in Minted' : tokenVer'[l] <= version'
                      /\ \A l \in outdated' : tokenVer'[l] # version'
      BY DEF SerialRotationKillsTokens
  <2>1. ~lostUpdate /\ seen[h] = version
      BY <1>1 DEF LoginCommit
  <2>2. \A l \in Minted : tokenVer[l] <= version
      BY <2>1 DEF SerialRotationKillsTokens
  <2>3. /\ version \in Nat /\ version' = version + 1
        /\ logins \in 0 .. MaxLogins /\ logins < MaxLogins /\ logins' = logins + 1
        /\ tokenVer \in [Logins -> Nat]
        /\ tokenVer' = [tokenVer EXCEPT ![logins + 1] = version + 1]
        /\ outdated' = Minted
      BY <1>1, <2>1 DEF LoginCommit, TypeOK
  <2>4. \A l \in Minted : l \in Logins /\ tokenVer'[l] = tokenVer[l]
      BY <2>3, BoundsAssumption DEF Minted, Logins
  <2>5. tokenVer'[logins + 1] = version + 1
      BY <2>3, BoundsAssumption DEF Logins
  <2>6. Minted' = Minted \cup {logins + 1}
      BY <2>3, BoundsAssumption DEF Minted
  <2>7. \A l \in Minted : tokenVer'[l] <= version /\ tokenVer'[l] \in Nat
      BY <2>2, <2>3, <2>4
  <2> QED
      BY <2>3, <2>5, <2>6, <2>7
<1>2. ASSUME NEW h \in Handlers, SuspendCommit(h) PROVE SerialRotationKillsTokens'
  <2> SUFFICES ASSUME ~lostUpdate'
               PROVE  /\ \A l \in Minted' : tokenVer'[l] <= version'
                      /\ \A l \in outdated' : tokenVer'[l] # version'
      BY DEF SerialRotationKillsTokens
  <2>1. ~lostUpdate /\ seen[h] = version
      BY <1>2 DEF SuspendCommit
  <2>2. \A l \in Minted : tokenVer[l] <= version
      BY <2>1 DEF SerialRotationKillsTokens
  <2>3. /\ version \in Nat /\ version' = version + 1
        /\ logins \in 0 .. MaxLogins /\ logins' = logins
        /\ tokenVer \in [Logins -> Nat] /\ tokenVer' = tokenVer
        /\ outdated' = Minted
      BY <1>2, <2>1 DEF SuspendCommit, TypeOK
  <2>4. \A l \in Minted : tokenVer[l] \in Nat
      BY <2>3, BoundsAssumption DEF Minted, Logins
  <2> QED
      BY <2>2, <2>3, <2>4 DEF Minted
<1>3. CASE UNCHANGED <<version, logins, tokenVer, outdated, lostUpdate>>
    BY <1>3 DEF SerialRotationKillsTokens, Minted
<1>4. ASSUME Next
      PROVE  \/ \E h \in Handlers : LoginCommit(h) \/ SuspendCommit(h)
             \/ UNCHANGED <<version, logins, tokenVer, outdated, lostUpdate>>
    BY <1>4 DEF Next, LoginLoad, LoginRefused, SuspendLoad, SuspendPublish, SuspendFails,
                ActivateLoad, ActivateCommit, RevokeCommit, RevokePublish, create_ws_ticket,
                TicketAuthorise, RevokeLoad, TicketExpires, chat_socket
<1>5. CASE UNCHANGED vars
    BY <1>3, <1>5 DEF vars
<1> QED
    BY <1>1, <1>2, <1>3, <1>4, <1>5

(***************************************************************************)
(* Tokens of an earlier login or of a time before a suspension are dead as *)
(* long as the updates of token_version do not overwrite each other        *)
(* (verify, set_user_status, get_current_user).                            *)
(***************************************************************************)
THEOREM RotationKillsTokens == Spec => []SerialRotationKillsTokens
<1>1. Init => SerialRotationKillsTokens
    BY BoundsAssumption DEF Init, SerialRotationKillsTokens, Minted
<1> QED
    BY <1>1, RotationStep, TypeCorrect, PTL DEF Spec

(***************************************************************************)
(* The status a login loaded never overwrites a suspension: only           *)
(* set_user_status with "activate" ends one.                               *)
(***************************************************************************)
THEOREM SuspensionSticks == Spec => OnlyActivationLiftsSuspension
<1>1. TypeOK /\ [Next]_vars
        => [status = "suspended" /\ status' = "active"
              => \E h \in Handlers : pc[h] = "activate" /\ pc'[h] = "idle"]_vars
  <2> SUFFICES ASSUME TypeOK, [Next]_vars, status = "suspended", status' = "active"
               PROVE  \E h \in Handlers : pc[h] = "activate" /\ pc'[h] = "idle"
      OBVIOUS
  <2>1. Next
      BY DEF vars, dbVars
  <2>2. (\E h \in Handlers : ActivateCommit(h)) \/ (\E h \in Handlers : SuspendCommit(h))
          \/ status' = status
      BY <2>1 DEF Next, LoginLoad, LoginRefused, LoginCommit, SuspendLoad, SuspendPublish,
                SuspendFails, ActivateLoad, RevokeCommit, RevokePublish,
                create_ws_ticket, TicketAuthorise, RevokeLoad, TicketExpires, chat_socket, dbVars
  <2>3. ASSUME NEW h \in Handlers, SuspendCommit(h) PROVE FALSE
      BY <2>3 DEF SuspendCommit
  <2>4. PICK h \in Handlers : ActivateCommit(h)
      BY <2>2, <2>3
  <2>5. pc[h] = "activate" /\ pc' = [pc EXCEPT ![h] = "idle"]
      BY <2>4 DEF ActivateCommit, Return
  <2> QED
      BY <2>5 DEF TypeOK
<1> QED
    BY <1>1, TypeCorrect, PTL DEF Spec, OnlyActivationLiftsSuspension

-----------------------------------------------------------------------------
(***************************************************************************)
(* A ticket still in Redis, or not drawn yet, has opened no socket: GETDEL *)
(* removes it in the step that opens one.                                  *)
(***************************************************************************)
TicketInv ==
    \A t \in Tickets : /\ sockets[t] <= 1
                       /\ ticket[t] # "gone" => sockets[t] = 0

\* Every step preserves the ticket invariant: GETDEL hands one ticket to one socket.
LEMMA TicketStep == TypeOK /\ TicketInv /\ [Next]_vars => TicketInv'
<1> SUFFICES ASSUME TypeOK, TicketInv, [Next]_vars PROVE TicketInv'
    OBVIOUS
<1> USE DEF handlerVars, dbVars, tokenVars, ticketVars
<1>1. ASSUME NEW t \in Tickets, TicketExpires(t) \/ chat_socket(t) PROVE TicketInv'
    BY <1>1 DEF TypeOK, TicketInv, TicketExpires, chat_socket
<1>2. ASSUME NEW h \in Handlers, NEW t \in Tickets, create_ws_ticket(h, t) PROVE TicketInv'
    BY <1>2 DEF TypeOK, TicketInv, create_ws_ticket
<1>3. CASE UNCHANGED ticketVars
    BY <1>3 DEF TicketInv
<1>4. ASSUME Next
      PROVE  \/ \E t \in Tickets : TicketExpires(t) \/ chat_socket(t)
             \/ \E h \in Handlers, t \in Tickets : create_ws_ticket(h, t)
             \/ UNCHANGED ticketVars
    BY <1>4 DEF Next, LoginLoad, LoginRefused, LoginCommit, SuspendLoad, SuspendPublish,
                SuspendCommit, SuspendFails, ActivateLoad, ActivateCommit, RevokeCommit,
                RevokePublish, TicketAuthorise, RevokeLoad
<1>5. CASE UNCHANGED vars
    BY <1>3, <1>5 DEF vars
<1> QED
    BY <1>1, <1>2, <1>3, <1>4, <1>5

(***************************************************************************)
(* A ticket opens at most one WebSocket (create_ws_ticket, chat_socket).   *)
(***************************************************************************)
THEOREM TicketIsSingleUse == Spec => []TicketOpensOneSocket
<1>1. Init => TicketInv
    BY DEF Init, TicketInv
<1>2. TicketInv => TicketOpensOneSocket
    BY DEF TicketInv, TicketOpensOneSocket
<1> QED
    BY <1>1, <1>2, TicketStep, TypeCorrect, PTL DEF Spec

-----------------------------------------------------------------------------
(***************************************************************************)
(* The key directory: where a consumer of a pre-key is past its HGET.      *)
(***************************************************************************)
Consuming == {"hdel", "del"}

(***************************************************************************)
(* What a request is for at each of its steps, and that it then has its    *)
(* identifier.                                                             *)
(***************************************************************************)
Place(x) ==
    /\ x.pc \in {"load", "create"} => x.op \in Writers \cup {"consume", "sign"}
    /\ x.op \in {"store", "consume"} => x.id \in Ids
    /\ x.pc = "hexists" => x.op = "generate"
    /\ x.pc \in {"private", "public"} => x.op \in Writers /\ x.id \in Ids
    /\ x.pc \in {"hget", "hdel", "del"} => x.op = "consume"
    /\ x.pc \in {"publicKey", "signature"} => x.op \in Signers
    /\ x.pc \in {"getKey", "getSig", "reply"} => x.op = "get"

PlaceInv == \A r \in Requests : Place(req[r])

(***************************************************************************)
(* A key that is not made yet is nowhere.                                  *)
(***************************************************************************)
FreshInv ==
    /\ \A i \in Ids : private[i] <= made
    /\ \A r \in Requests : req[r].pc \in Consuming => req[r].key <= made
    /\ \A k \in Keys : k > made => handed[k] = 0

(***************************************************************************)
(* A private pre-key is under one identifier, and gone from there when its *)
(* consumer is past the pipeline.  While nobody else read it meanwhile, it *)
(* has one consumer, and was not handed out before.                        *)
(***************************************************************************)
OneTimeInv ==
    /\ \A i, j \in Ids : private[i] # 0 /\ private[i] = private[j] => i = j
    /\ \A i \in Ids : private[i] # 0 => handed[private[i]] = 0
    /\ \A r \in Requests : req[r].pc \in Consuming => req[r].key # 0
    /\ \A r \in Requests, j \in Ids :
          req[r].pc \in Consuming /\ private[j] = req[r].key => req[r].pc = "hdel" /\ j = req[r].id
    /\ \A r \in Requests : req[r].pc \in Consuming =>
          \/ <<"key", req[r].key>> \in excuse
          \/ /\ handed[req[r].key] = 0
             /\ \A q \in Requests : req[q].pc \in Consuming /\ req[q].key = req[r].key => q = r

(***************************************************************************)
(* While nothing disturbed identifier i: what is listed has its private    *)
(* half, a writer has stored one before it lists, and a consumer between   *)
(* its two deletions leaves nothing.                                       *)
(***************************************************************************)
PairInv ==
    \A i \in Ids : <<"id", i>> \in excuse \/
        /\ public[i] # 0 => private[i] # 0
        /\ \A r \in Requests : req[r].id = i => /\ req[r].pc = "public" => private[i] # 0
                                                /\ req[r].pc = "del" => private[i] = 0 /\ public[i] = 0

(***************************************************************************)
(* While nothing disturbed the signed pre-key: one writer at most is       *)
(* between its HSETs, and has put the key, unless that expired since; the  *)
(* signature is that of the key otherwise; a reader between its HGETs has  *)
(* the signature's key, if there are both.                                 *)
(***************************************************************************)
TornInv ==
    <<"signed", 0>> \in excuse \/
        /\ \/ signed.publicKey = 0 \/ signed.signature.of = signed.publicKey
           \/ \E r \in Requests : req[r].pc = "signature"
        /\ \A r \in Requests : req[r].pc = "signature" =>
              /\ signed.publicKey \in {0, req[r].key}
              /\ \A q \in Requests : req[q].pc = "signature" => q = r
        /\ \A r \in Requests : req[r].pc = "getSig" =>
              req[r].key = 0 \/ signed.signature = NoSig \/ signed.signature.of = req[r].key
        /\ \A r \in Requests : req[r].pc = "reply" => req[r].sig.of = req[r].key

(***************************************************************************)
(* A stored pair is complete and loads, unless a public key that does not  *)
(* was uploaded next to it.  While no two services found none together, at *)
(* most one is about to create a pair, and then there is none to lose, or  *)
(* one that does not load.                                                 *)
(***************************************************************************)
Lost(k) == <<"identity", k>> \in excuse
IdentityInv ==
    /\ identity.private # 0 => identity.public # 0 /\ (identity.loads \/ Lost(identity.private))
    /\ \/ Lost(0)
       \/ \A r \in Requests : req[r].pc = "create" =>
             /\ identity.private = 0 \/ Lost(identity.private)
             /\ \A q \in Requests : req[q].pc = "create" => q = r
    /\ IdentityStable

KeysInv ==
    /\ KeysTypeOK /\ PlaceInv /\ FreshInv
    /\ OneTimeInv /\ HandedOutOnce /\ PairInv /\ TornInv /\ IdentityInv

-----------------------------------------------------------------------------
(***************************************************************************)
(* No key is there at first.                                               *)
(***************************************************************************)
LEMMA KeysInvInit == KeysInit => KeysInv
<1> SUFFICES ASSUME KeysInit PROVE KeysInv
  OBVIOUS
<1> USE KeysAssumption DEF KeysInit, Free, NoSig
<1>1. KeysTypeOK
  BY DEF KeysTypeOK, Keys
<1>2. PlaceInv
  BY DEF PlaceInv, Place
<1>3. FreshInv
  BY DEF FreshInv, Consuming, Keys
<1>4. OneTimeInv /\ HandedOutOnce
  BY DEF OneTimeInv, HandedOutOnce, Consuming, Keys
<1>5. PairInv
  BY DEF PairInv
<1>6. TornInv
  BY DEF TornInv
<1>7. IdentityInv
  BY DEF IdentityInv, IdentityStable, Lost
<1> QED BY <1>1, <1>2, <1>3, <1>4, <1>5, <1>6, <1>7 DEF KeysInv

(***************************************************************************)
(* Every step keeps the types and what is known of a request's step.       *)
(***************************************************************************)
LEMMA KeysTypeStep == KeysTypeOK /\ PlaceInv /\ [KeysNext]_directoryVars => KeysTypeOK' /\ PlaceInv'
<1> SUFFICES ASSUME KeysTypeOK, PlaceInv, [KeysNext]_directoryVars PROVE KeysTypeOK' /\ PlaceInv'
  OBVIOUS
<1> DEFINE Pcs == {"free", "load", "create", "hexists", "private", "public", "hget", "hdel", "del",
                   "publicKey", "signature", "getKey", "getSig", "reply"}
           Ops == {"none", "generate", "store", "consume", "sign", "upload", "get"}
           Req == [pc : Pcs, op : Ops, id : Ids \cup {0}, key : Keys, me : Keys, sig : [of : Keys, by : Keys]]
<1>t. /\ identity \in [public : Keys, private : Keys, loads : BOOLEAN]
      /\ private \in [Ids -> Keys] /\ public \in [Ids -> Keys]
      /\ signed \in [publicKey : Keys, signature : [of : Keys, by : Keys]]
      /\ made \in Keys /\ handed \in [Keys -> Nat]
      /\ excuse \subseteq {"identity", "signed", "key", "id"} \X (Keys \cup Ids)
      /\ req \in [Requests -> Req] /\ \A r \in Requests : Place(req[r])
  BY DEF KeysTypeOK, PlaceInv
<1>k. /\ 0 \in Keys /\ NoSig \in [of : Keys, by : Keys] /\ Free \in Req
      /\ made < MaxKeys => made + 1 \in Keys
  BY <1>t, KeysAssumption DEF Keys, NoSig, Free
<1>1. ASSUME NEW r \in Requests, NEW x \in Req, Place(x), req' = [req EXCEPT ![r] = x],
             identity' \in [public : Keys, private : Keys, loads : BOOLEAN],
             private' \in [Ids -> Keys], public' \in [Ids -> Keys],
             signed' \in [publicKey : Keys, signature : [of : Keys, by : Keys]],
             made' \in Keys, handed' \in [Keys -> Nat],
             excuse' \subseteq {"identity", "signed", "key", "id"} \X (Keys \cup Ids)
      PROVE  KeysTypeOK' /\ PlaceInv'
  \* One request changes, and all else keeps its type.
  <2>1. req' \in [Requests -> Req] /\ \A q \in Requests : Place(req'[q])
    BY <1>1, <1>t
  <2>2. KeysTypeOK'
    BY <1>1, <2>1 DEF KeysTypeOK
  <2>3. PlaceInv'
    BY <2>1 DEF PlaceInv
  <2> QED BY <2>2, <2>3
<1>n. ASSUME NEW what \in {"identity", "signed", "key", "id"} \X (Keys \cup Ids), NEW when, Note(what, when)
      PROVE  excuse' \subseteq {"identity", "signed", "key", "id"} \X (Keys \cup Ids)
  BY <1>n, <1>t DEF Note
<1> HIDE DEF Req
<1>2. ASSUME NEW r \in Requests, NEW op, NEW id, NEW step, Arrive(r, op, id, step),
             [Free EXCEPT !.op = op, !.id = id, !.pc = step] \in Req,
             Place([Free EXCEPT !.op = op, !.id = id, !.pc = step])
      PROVE  KeysTypeOK' /\ PlaceInv'
  BY <1>1, <1>2, <1>t DEF Arrive, keyVars
<1>3. ASSUME NEW r \in Requests,
             \/ generate_pre_keys(r) \/ generate_signed_pre_key(r) \/ upload_signed_prekey(r)
             \/ get_signed_prekey(r)
      PROVE  KeysTypeOK' /\ PlaceInv'
  <2>1. CASE generate_pre_keys(r)
    BY <1>2, <2>1, <1>k DEF generate_pre_keys, Req, Place, Free, Writers, Signers
  <2>2. CASE generate_signed_pre_key(r)
    BY <1>2, <2>2, <1>k DEF generate_signed_pre_key, Req, Place, Free, Writers, Signers
  <2>3. CASE upload_signed_prekey(r)
    BY <1>2, <2>3, <1>k DEF upload_signed_prekey, Req, Place, Free, Writers, Signers
  <2>4. CASE get_signed_prekey(r)
    BY <1>2, <2>4, <1>k DEF get_signed_prekey, Req, Place, Free, Writers, Signers
  <2> QED BY <1>3, <2>1, <2>2, <2>3, <2>4
<1>4. ASSUME NEW r \in Requests, NEW i \in Ids, upload_prekey(r, i) \/ consume_pre_key(r, i)
      PROVE  KeysTypeOK' /\ PlaceInv'
  <2>1. CASE upload_prekey(r, i)
    BY <1>2, <2>1, <1>k DEF upload_prekey, Req, Place, Free, Writers, Signers
  <2>2. CASE consume_pre_key(r, i)
    BY <1>2, <2>2, <1>k DEF consume_pre_key, Req, Place, Free, Writers, Signers
  <2> QED BY <1>4, <2>1, <2>2
<1>5. ASSUME NEW r \in Requests, NEW i \in Ids, ChooseId(r, i) PROVE KeysTypeOK' /\ PlaceInv'
  <2> DEFINE x == [req[r] EXCEPT !.pc = "private", !.id = i]
  <2>1. x \in Req /\ Place(x) /\ req' = [req EXCEPT ![r] = x]
    <3>1. req[r] \in Req /\ Place(req[r]) /\ req[r].pc = "hexists"
      BY <1>5, <1>t DEF ChooseId
    <3>2. x \in Req /\ Place(x)
      BY <3>1 DEF Req, Place, Writers, Signers
    <3> QED BY <1>5, <3>2 DEF ChooseId
  <2> HIDE DEF x
  <2> QED BY <1>1, <1>5, <2>1, <1>t DEF ChooseId, keyVars
<1>6. ASSUME NEW r \in Requests, LoadIdentity(r) PROVE KeysTypeOK' /\ PlaceInv'
  <2> DEFINE x == [req[r] EXCEPT !.pc = IF HasIdentity THEN AfterIdentity(req[r].op) ELSE "create",
                                 !.me = IF HasIdentity THEN identity.private ELSE 0]
  <2>a. req[r] \in Req /\ Place(req[r]) /\ req[r].pc = "load" /\ identity.private \in Keys
    BY <1>6, <1>t DEF LoadIdentity
  <2>b. /\ req[r].op \in {"generate", "store", "consume", "sign"}
        /\ AfterIdentity(req[r].op) \in {"hexists", "private", "hget", "publicKey"}
        /\ AfterIdentity(req[r].op) = "hexists" => req[r].op = "generate"
        /\ AfterIdentity(req[r].op) = "hget" => req[r].op = "consume"
        /\ AfterIdentity(req[r].op) = "private" => req[r].op = "store"
        /\ AfterIdentity(req[r].op) = "publicKey" => req[r].op = "sign"
    BY <2>a DEF AfterIdentity, Place, Writers
  <2>c. x \in Req
    BY <2>a, <2>b, <1>k DEF Req
  <2>d. Place(x)
    BY <2>a, <2>b DEF Req, Place, Writers, Signers
  <2>1. x \in Req /\ Place(x) /\ req' = [req EXCEPT ![r] = x]
    BY <1>6, <2>c, <2>d DEF LoadIdentity
  <2> HIDE DEF x
  <2>2. excuse' \subseteq {"identity", "signed", "key", "id"} \X (Keys \cup Ids)
    BY <1>6, <1>n, <1>k DEF LoadIdentity
  <2> QED BY <1>1, <1>6, <2>1, <2>2, <1>t DEF LoadIdentity, keyVars
<1>7. ASSUME NEW r \in Requests, CreateIdentity(r) PROVE KeysTypeOK' /\ PlaceInv'
  <2> DEFINE x == [req[r] EXCEPT !.pc = AfterIdentity(req[r].op), !.me = made + 1]
  <2>a. req[r] \in Req /\ Place(req[r]) /\ req[r].pc = "create" /\ made + 1 \in Keys
    BY <1>7, <1>t, <1>k DEF CreateIdentity
  <2>b. /\ req[r].op \in {"generate", "store", "consume", "sign"}
        /\ AfterIdentity(req[r].op) \in {"hexists", "private", "hget", "publicKey"}
        /\ AfterIdentity(req[r].op) = "hexists" => req[r].op = "generate"
        /\ AfterIdentity(req[r].op) = "hget" => req[r].op = "consume"
        /\ AfterIdentity(req[r].op) = "private" => req[r].op = "store"
        /\ AfterIdentity(req[r].op) = "publicKey" => req[r].op = "sign"
    BY <2>a DEF AfterIdentity, Place, Writers
  <2>c. x \in Req
    BY <2>a, <2>b DEF Req
  <2>d. Place(x)
    BY <2>a, <2>b DEF Req, Place, Writers, Signers
  <2>1. x \in Req /\ Place(x) /\ req' = [req EXCEPT ![r] = x]
    BY <1>7, <2>c, <2>d DEF CreateIdentity
  <2> HIDE DEF x
  <2> QED BY <1>1, <1>7, <2>1, <1>t, <1>k DEF CreateIdentity, keyVars
<1>8. ASSUME NEW r \in Requests, StorePrivate(r) PROVE KeysTypeOK' /\ PlaceInv'
  <2> DEFINE x == [req[r] EXCEPT !.pc = "public", !.key = made + 1]
  <2>1. x \in Req /\ Place(x) /\ req' = [req EXCEPT ![r] = x] /\ req[r].id \in Ids
    <3>1. req[r] \in Req /\ Place(req[r]) /\ req[r].pc = "private" /\ made + 1 \in Keys
      BY <1>8, <1>t, <1>k DEF StorePrivate
    <3>2. x \in Req /\ Place(x) /\ req[r].id \in Ids
      BY <3>1 DEF Req, Place, Writers, Signers
    <3> QED BY <1>8, <3>2 DEF StorePrivate
  <2> HIDE DEF x
  <2>2. excuse' \subseteq {"identity", "signed", "key", "id"} \X (Keys \cup Ids)
    BY <1>8, <1>n, <2>1 DEF StorePrivate
  <2> QED BY <1>1, <1>8, <2>1, <2>2, <1>t, <1>k DEF StorePrivate
<1>e. Place(Free)
  BY DEF Place, Free
<1>9. ASSUME NEW r \in Requests, ListPublic(r) PROVE KeysTypeOK' /\ PlaceInv'
  <2>1. req[r].id \in Ids /\ req[r].key \in Keys
    BY <1>9, <1>t DEF ListPublic, Req, Place
  <2>2. excuse' \subseteq {"identity", "signed", "key", "id"} \X (Keys \cup Ids)
    BY <1>9, <1>n, <2>1 DEF ListPublic
  <2>3. made' \in Keys /\ public' \in [Ids -> Keys]
    BY <1>9, <2>1, <1>t, <1>k DEF ListPublic
  <2> QED BY <1>1, <1>9, <2>2, <2>3, <1>t, <1>k, <1>e DEF ListPublic, End
<1>10. ASSUME NEW r \in Requests, ReadPrivate(r) PROVE KeysTypeOK' /\ PlaceInv'
  <2> DEFINE k == private[req[r].id]
             x == [req[r] EXCEPT !.pc = "hdel", !.key = k]
  <2>1. req[r].pc = "hget" /\ req[r].id \in Ids /\ k \in Keys
    BY <1>10, <1>t DEF ReadPrivate, Req, Place
  <2>a. req[r] \in Req /\ Place(req[r])
    BY <1>t
  <2>2. x \in Req /\ Place(x)
    <3> HIDE DEF k
    <3> QED BY <2>1, <2>a DEF Req, Place, Writers, Signers
  <2>3. \/ req' = [req EXCEPT ![r] = Free] /\ excuse' = excuse
        \/ req' = [req EXCEPT ![r] = x] /\ excuse' \subseteq excuse \cup {<<"key", k>>}
    BY <1>10 DEF ReadPrivate, End, Note
  <2> HIDE DEF k, x
  <2>4. excuse' \subseteq {"identity", "signed", "key", "id"} \X (Keys \cup Ids)
    BY <2>1, <2>3, <1>t
  <2> QED BY <1>1, <1>10, <2>2, <2>3, <2>4, <1>t, <1>k, <1>e DEF ReadPrivate, keyVars
<1>11. ASSUME NEW r \in Requests, RemoveKey(r) PROVE KeysTypeOK' /\ PlaceInv'
  <2> DEFINE x == [req[r] EXCEPT !.pc = "del"]
  <2>1. x \in Req /\ Place(x) /\ req' = [req EXCEPT ![r] = x] /\ req[r].id \in Ids
    <3>1. req[r] \in Req /\ Place(req[r]) /\ req[r].pc = "hdel"
      BY <1>11, <1>t DEF RemoveKey
    <3>2. x \in Req /\ Place(x) /\ req[r].id \in Ids
      BY <3>1 DEF Req, Place, Writers, Signers
    <3> QED BY <1>11, <3>2 DEF RemoveKey, Goto
  <2> HIDE DEF x
  <2>2. excuse' \subseteq {"identity", "signed", "key", "id"} \X (Keys \cup Ids)
    BY <1>11, <1>n, <2>1 DEF RemoveKey
  <2> QED BY <1>1, <1>11, <2>1, <2>2, <1>t, <1>k DEF RemoveKey
<1>12. ASSUME NEW r \in Requests, RemoveHash(r) PROVE KeysTypeOK' /\ PlaceInv'
  <2>1. req[r].id \in Ids /\ req[r].key \in Keys
    BY <1>12, <1>t DEF RemoveHash, Req, Place
  <2>2. excuse' \subseteq {"identity", "signed", "key", "id"} \X (Keys \cup Ids)
    BY <1>12, <1>n, <2>1 DEF RemoveHash
  <2>3. handed' \in [Keys -> Nat] /\ private' \in [Ids -> Keys]
    BY <1>12, <2>1, <1>t, <1>k DEF RemoveHash
  <2> QED BY <1>1, <1>12, <2>2, <2>3, <1>t, <1>k, <1>e DEF RemoveHash, End
<1>13. ASSUME NEW r \in Requests, PutSignedKey(r) PROVE KeysTypeOK' /\ PlaceInv'
  <2> DEFINE x == [req[r] EXCEPT !.pc = "signature", !.key = made + 1]
  <2>1. x \in Req /\ Place(x) /\ req' = [req EXCEPT ![r] = x]
    <3>1. req[r] \in Req /\ Place(req[r]) /\ req[r].pc = "publicKey" /\ made + 1 \in Keys
      BY <1>13, <1>t, <1>k DEF PutSignedKey
    <3>2. x \in Req /\ Place(x)
      BY <3>1 DEF Req, Place, Writers, Signers
    <3> QED BY <1>13, <3>2 DEF PutSignedKey
  <2> HIDE DEF x
  <2>2. excuse' \subseteq {"identity", "signed", "key", "id"} \X (Keys \cup Ids)
    BY <1>13, <1>n, <1>k DEF PutSignedKey
  <2> QED BY <1>1, <1>13, <2>1, <2>2, <1>t, <1>k DEF PutSignedKey
<1>14. ASSUME NEW r \in Requests, PutSignature(r) PROVE KeysTypeOK' /\ PlaceInv'
  <2>1. excuse' \subseteq {"identity", "signed", "key", "id"} \X (Keys \cup Ids)
    BY <1>14, <1>n, <1>k DEF PutSignature
  <2>2. signed' \in [publicKey : Keys, signature : [of : Keys, by : Keys]]
    BY <1>14, <1>t DEF PutSignature, Req
  <2> QED BY <1>1, <1>14, <2>1, <2>2, <1>t, <1>k, <1>e DEF PutSignature, End
<1>15. ASSUME NEW r \in Requests, GetSignedKey(r) PROVE KeysTypeOK' /\ PlaceInv'
  <2> DEFINE x == [req[r] EXCEPT !.pc = "getSig", !.key = signed.publicKey]
  <2>1. x \in Req /\ Place(x) /\ req' = [req EXCEPT ![r] = x]
    <3>1. req[r] \in Req /\ Place(req[r]) /\ req[r].pc = "getKey" /\ signed.publicKey \in Keys
      BY <1>15, <1>t DEF GetSignedKey
    <3>2. x \in Req /\ Place(x)
      BY <3>1 DEF Req, Place, Writers, Signers
    <3> QED BY <1>15, <3>2 DEF GetSignedKey
  <2> HIDE DEF x
  <2>2. excuse' \subseteq {"identity", "signed", "key", "id"} \X (Keys \cup Ids)
    BY <1>15, <1>n, <1>k DEF GetSignedKey
  <2> QED BY <1>1, <1>15, <2>1, <2>2, <1>t DEF GetSignedKey, keyVars
<1>16. ASSUME NEW r \in Requests, GetSignature(r) PROVE KeysTypeOK' /\ PlaceInv'
  <2> DEFINE x == [req[r] EXCEPT !.pc = "reply", !.sig = signed.signature]
  <2>1. x \in Req /\ Place(x) /\ (req' = [req EXCEPT ![r] = x] \/ req' = [req EXCEPT ![r] = Free])
    <3>1. /\ req[r] \in Req /\ Place(req[r]) /\ req[r].pc = "getSig"
          /\ signed.signature \in [of : Keys, by : Keys]
      BY <1>16, <1>t DEF GetSignature
    <3>2. x \in Req /\ Place(x)
      BY <3>1 DEF Req, Place, Writers, Signers
    <3> QED BY <1>16, <3>2 DEF GetSignature, End
  <2> HIDE DEF x
  <2> QED BY <1>1, <1>16, <2>1, <1>t, <1>k, <1>e DEF GetSignature, keyVars
<1>17. ASSUME NEW r \in Requests, Reply(r) \/ Crash(r) PROVE KeysTypeOK' /\ PlaceInv'
  <2>1. excuse' \subseteq {"identity", "signed", "key", "id"} \X (Keys \cup Ids)
    BY <1>17, <1>n, <1>t, <1>k DEF Reply, Crash
  <2> QED BY <1>1, <1>17, <2>1, <1>t, <1>k, <1>e DEF Reply, Crash, End, keyVars
<1>18. ASSUME NEW i \in Ids, ExpirePrivate(i) PROVE KeysTypeOK' /\ PlaceInv'
  BY <1>18, <1>t, <1>k DEF ExpirePrivate, KeysTypeOK, PlaceInv, Req
<1>19. ASSUME NEW ok \in BOOLEAN, upload_identity_key(ok) PROVE KeysTypeOK' /\ PlaceInv'
  <2>1. excuse' \subseteq {"identity", "signed", "key", "id"} \X (Keys \cup Ids)
    BY <1>19, <1>n, <1>t DEF upload_identity_key
  <2> QED BY <1>19, <2>1, <1>t, <1>k DEF upload_identity_key, keyVars, KeysTypeOK, PlaceInv, Req
<1>20. CASE ExpireSigned
  BY <1>20, <1>t, <1>k DEF ExpireSigned, KeysTypeOK, PlaceInv, Req
<1>21. CASE UNCHANGED directoryVars
  BY <1>21, <1>t DEF directoryVars, KeysTypeOK, PlaceInv, Req
<1> QED BY <1>3, <1>4, <1>5, <1>6, <1>7, <1>8, <1>9, <1>10, <1>11, <1>12, <1>13, <1>14, <1>15, <1>16,
           <1>17, <1>18, <1>19, <1>20, <1>21 DEF KeysNext

-----------------------------------------------------------------------------
Arrival(r) ==
    \/ generate_pre_keys(r) \/ generate_signed_pre_key(r) \/ upload_signed_prekey(r)
    \/ get_signed_prekey(r)
    \/ \E i \in Ids : upload_prekey(r, i) \/ consume_pre_key(r, i)

(***************************************************************************)
(* A request that arrives takes a free slot, and changes nothing else.     *)
(***************************************************************************)
LEMMA Arrives ==
    ASSUME KeysTypeOK, NEW r \in Requests, Arrival(r)
    PROVE  /\ UNCHANGED <<identity, keyVars, made, excuse>> /\ req[r].pc = "free"
           /\ \A q \in Requests : q # r => req'[q] = req[q]
           /\ req'[r].pc \in {"load", "publicKey", "getKey"} /\ req'[r].me = 0
<1>1. ASSUME NEW op, NEW id, NEW step \in {"load", "publicKey", "getKey"}, Arrive(r, op, id, step)
      PROVE  /\ UNCHANGED <<identity, keyVars, made, excuse>> /\ req[r].pc = "free"
             /\ \A q \in Requests : q # r => req'[q] = req[q]
             /\ req'[r].pc \in {"load", "publicKey", "getKey"} /\ req'[r].me = 0
  BY <1>1 DEF Arrive, Free, KeysTypeOK
<1> QED BY <1>1 DEF Arrival, generate_pre_keys, generate_signed_pre_key, upload_signed_prekey,
                    get_signed_prekey, upload_prekey, consume_pre_key

(***************************************************************************)
(* Keys are numbers.                                                       *)
(***************************************************************************)
LEMMA KeysRange ==
    ASSUME KeysTypeOK, KeysTypeOK'
    PROVE  /\ made \in Nat /\ MaxKeys \in Nat /\ made' \in Nat /\ made \in Keys
           /\ (\A i \in Ids : private[i] \in Nat)
           /\ (\A r \in Requests : req[r].key \in Nat /\ req[r].key \in Keys)
           /\ private \in [Ids -> Keys] /\ handed \in [Keys -> Nat] /\ Keys \subseteq Nat
<1>1. MaxKeys \in Nat /\ Keys \subseteq Nat
  BY KeysAssumption DEF Keys
<1>2. made \in Keys /\ made' \in Keys /\ private \in [Ids -> Keys] /\ handed \in [Keys -> Nat]
  BY DEF KeysTypeOK
<1>3. \A r \in Requests : req[r].key \in Keys
  BY DEF KeysTypeOK
<1>4. \A i \in Ids : private[i] \in Keys
  BY <1>2
<1> QED BY <1>1, <1>2, <1>3, <1>4

(***************************************************************************)
(* A step that stores, hands out and reads no private pre-key keeps the    *)
(* invariants about them.                                                  *)
(***************************************************************************)
LEMMA OneTimeKept ==
    ASSUME KeysInv, KeysTypeOK', UNCHANGED <<private, handed>>, made <= made', excuse \subseteq excuse',
           \A q \in Requests : req'[q].pc \in Consuming => req'[q] = req[q]
    PROVE  FreshInv' /\ OneTimeInv' /\ HandedOutOnce'
<1>1. /\ FreshInv /\ OneTimeInv /\ HandedOutOnce
      /\ made \in Int /\ made' \in Int /\ (\A i \in Ids : private[i] \in Int)
      /\ \A r \in Requests : req[r].key \in Int
  BY KeysRange DEF KeysInv
<1>2. FreshInv'
  BY <1>1, KeysAssumption DEF FreshInv, Keys
<1>3. OneTimeInv'
  BY <1>1 DEF OneTimeInv
<1>4. HandedOutOnce'
  BY <1>1 DEF HandedOutOnce
<1> QED BY <1>2, <1>3, <1>4

(***************************************************************************)
(* A private pre-key is handed out once, unless a second consumer read it  *)
(* before the first removed it.                                            *)
(***************************************************************************)
LEMMA OneTimeStep ==
    ASSUME KeysInv, KeysTypeOK', [KeysNext]_directoryVars
    PROVE  FreshInv' /\ OneTimeInv' /\ HandedOutOnce'
<1>t. KeysTypeOK /\ PlaceInv /\ FreshInv /\ OneTimeInv /\ HandedOutOnce
  BY DEF KeysInv
<1>k. /\ made \in Nat /\ MaxKeys \in Nat /\ made' \in Nat /\ made \in Keys
      /\ (\A i \in Ids : private[i] \in Nat)
      /\ (\A r \in Requests : req[r].key \in Nat /\ req[r].key \in Keys)
      /\ private \in [Ids -> Keys] /\ handed \in [Keys -> Nat] /\ Keys \subseteq Nat
  BY <1>t, KeysRange
<1>1. ASSUME NEW r \in Requests, StorePrivate(r) PROVE FreshInv' /\ OneTimeInv' /\ HandedOutOnce'
  <2> DEFINE i == req[r].id
             n == made + 1
  <2>1. /\ i \in Ids /\ n \in Keys /\ made' = n /\ handed' = handed /\ excuse \subseteq excuse'
        /\ \A j \in Ids : private'[j] = IF j = i THEN n ELSE private[j]
        /\ \A q \in Requests : req'[q].pc \in Consuming => req'[q] = req[q]
    BY <1>1, <1>t, <1>k DEF StorePrivate, Note, PlaceInv, Place, KeysTypeOK, Keys, Consuming
  <2>2. /\ \A j \in Ids : private[j] < n
        /\ \A q \in Requests : req[q].pc \in Consuming => req[q].key < n
        /\ handed[n] = 0
    BY <2>1, <1>t, <1>k DEF FreshInv
  <2> HIDE DEF i, n
  <2>n. n \in Nat /\ n = made + 1 /\ n # 0
    BY <1>k DEF n
  <2>3. FreshInv'
    BY <2>1, <2>2, <2>n, <1>t, <1>k DEF FreshInv
  <2>4. OneTimeInv'
    BY <2>1, <2>2, <2>n, <1>t, <1>k DEF OneTimeInv
  <2>5. HandedOutOnce'
    BY <2>1, <1>t DEF HandedOutOnce
  <2> QED BY <2>3, <2>4, <2>5
<1>2. ASSUME NEW r \in Requests, ReadPrivate(r) PROVE FreshInv' /\ OneTimeInv' /\ HandedOutOnce'
  <2> DEFINE i == req[r].id
             k == private[i]
  <2>1. /\ i \in Ids /\ req[r].pc = "hget" /\ private' = private /\ handed' = handed /\ made' = made
    BY <1>2, <1>t DEF ReadPrivate, keyVars, PlaceInv, Place
  <2>2. CASE k = 0
    <3>1. excuse' = excuse /\ \A q \in Requests : req'[q] = IF q = r THEN Free ELSE req[q]
      BY <1>2, <2>2, <1>t DEF ReadPrivate, End, KeysTypeOK
    <3>2. \A q \in Requests : req'[q].pc \in Consuming => req'[q] = req[q]
      BY <3>1 DEF Free, Consuming
    <3> QED BY <2>1, <3>1, <3>2, <1>k, OneTimeKept
  <2>3. CASE k # 0
    <3>1. /\ excuse \subseteq excuse' 
          /\ (\E q \in Requests : req[q].pc = "hdel" /\ req[q].key = k) => <<"key", k>> \in excuse'
          /\ \A q \in Requests : q # r => req'[q] = req[q]
          /\ req'[r].pc = "hdel" /\ req'[r].key = k /\ req'[r].id = i
      BY <1>2, <2>3, <1>t DEF ReadPrivate, Note, KeysTypeOK
    <3>2. /\ handed[k] = 0 /\ \A j \in Ids : private[j] = k => j = i
          /\ \A q \in Requests : req[q].pc \in Consuming /\ req[q].key = k => req[q].pc = "hdel"
      BY <2>1, <2>3, <1>t DEF OneTimeInv
    <3>3. FreshInv'
      BY <2>1, <3>1, <1>t, <1>k DEF FreshInv
    <3>4. OneTimeInv'
      <4> HIDE DEF k, i
      <4>1. /\ \A x, j \in Ids : private'[x] # 0 /\ private'[x] = private'[j] => x = j
            /\ \A x \in Ids : private'[x] # 0 => handed'[private'[x]] = 0
            /\ \A q \in Requests : req'[q].pc \in Consuming => req'[q].key # 0
        BY <2>1, <2>3, <3>1, <1>t DEF OneTimeInv
      <4>2. \A q \in Requests, j \in Ids :
               req'[q].pc \in Consuming /\ private'[j] = req'[q].key
                 => req'[q].pc = "hdel" /\ j = req'[q].id
        BY <2>1, <3>1, <3>2, <1>t DEF OneTimeInv
      <4>3. ASSUME NEW q \in Requests, req'[q].pc \in Consuming, <<"key", req'[q].key>> \notin excuse'
            PROVE  /\ handed'[req'[q].key] = 0
                   /\ \A p \in Requests : req'[p].pc \in Consuming /\ req'[p].key = req'[q].key => p = q
        <5>1. CASE q = r
          BY <2>1, <3>1, <3>2, <4>3, <5>1
        <5>2. CASE q # r
          <6>1. /\ handed[req[q].key] = 0 /\ req[q].pc \in Consuming
                /\ \A p \in Requests : req[p].pc \in Consuming /\ req[p].key = req[q].key => p = q
            BY <3>1, <4>3, <5>2, <1>t DEF OneTimeInv
          <6>2. req[q].key # k
            BY <3>1, <3>2, <4>3, <5>2, <6>1
          <6> QED BY <2>1, <3>1, <5>2, <6>1, <6>2
        <5> QED BY <5>1, <5>2
      <4> QED BY <4>1, <4>2, <4>3 DEF OneTimeInv
    <3>5. HandedOutOnce'
      BY <2>1, <3>1, <1>t DEF HandedOutOnce
    <3> QED BY <3>3, <3>4, <3>5
  <2> QED BY <2>2, <2>3
<1>3. ASSUME NEW r \in Requests, RemoveKey(r) PROVE FreshInv' /\ OneTimeInv' /\ HandedOutOnce'
  <2> DEFINE i == req[r].id
  <2>1. /\ req[r].pc = "hdel" /\ made' = made /\ handed' = handed /\ excuse \subseteq excuse'
        /\ \A j \in Ids : private'[j] = IF j = i THEN 0 ELSE private[j]
        /\ \A q \in Requests : q # r => req'[q] = req[q]
        /\ req'[r].pc = "del" /\ req'[r].key = req[r].key /\ req'[r].id = i
    BY <1>3, <1>t DEF RemoveKey, Goto, Note, KeysTypeOK
  <2>2. FreshInv'
    BY <2>1, <1>t, <1>k DEF FreshInv, Consuming
  <2>3. OneTimeInv'
    BY <2>1, <1>t DEF OneTimeInv, Consuming
  <2>4. HandedOutOnce'
    BY <2>1, <1>t DEF HandedOutOnce
  <2> QED BY <2>2, <2>3, <2>4
<1>4. ASSUME NEW r \in Requests, RemoveHash(r) PROVE FreshInv' /\ OneTimeInv' /\ HandedOutOnce'
  <2> DEFINE i == req[r].id
             k == req[r].key
  <2>1. /\ req[r].pc = "del" /\ made' = made /\ excuse \subseteq excuse' /\ k \in Keys
        /\ \A x \in Keys : handed'[x] = IF x = k THEN handed[k] + 1 ELSE handed[x]
        /\ \A j \in Ids : private'[j] = IF j = i THEN 0 ELSE private[j]
        /\ \A q \in Requests : req'[q] = IF q = r THEN Free ELSE req[q]
    BY <1>4, <1>t, <1>k DEF RemoveHash, End, Note, KeysTypeOK
  <2>2. k # 0 /\ k <= made /\ \A j \in Ids : private[j] # k
    BY <2>1, <1>t DEF OneTimeInv, FreshInv, Consuming
  <2>3. \/ <<"key", k>> \in excuse
        \/ handed[k] = 0 /\ \A q \in Requests : req[q].pc \in Consuming /\ req[q].key = k => q = r
    BY <2>1, <1>t DEF OneTimeInv, Consuming
  <2>4. \A q \in Requests : req'[q].pc \in Consuming => q # r
    BY <2>1 DEF Free, Consuming
  <2> HIDE DEF i, k
  <2>5. FreshInv'
    BY <2>1, <2>2, <2>4, <1>t, <1>k DEF FreshInv
  <2>6. OneTimeInv'
    <3>1. /\ \A x, j \in Ids : private'[x] # 0 /\ private'[x] = private'[j] => x = j
          /\ \A x \in Ids : private'[x] # 0 => private'[x] \in Keys /\ handed'[private'[x]] = 0
      BY <2>1, <2>2, <1>t, <1>k DEF OneTimeInv
    <3>2. /\ \A q \in Requests : req'[q].pc \in Consuming => req'[q].key # 0
          /\ \A q \in Requests, j \in Ids :
                req'[q].pc \in Consuming /\ private'[j] = req'[q].key
                  => req'[q].pc = "hdel" /\ j = req'[q].id
      BY <2>1, <2>4, <1>t DEF OneTimeInv
    <3>3. ASSUME NEW q \in Requests, req'[q].pc \in Consuming, <<"key", req'[q].key>> \notin excuse'
          PROVE  /\ handed'[req'[q].key] = 0
                 /\ \A p \in Requests : req'[p].pc \in Consuming /\ req'[p].key = req'[q].key => p = q
      <4>1. q # r /\ req'[q] = req[q] /\ <<"key", req[q].key>> \notin excuse
        BY <2>1, <2>4, <3>3
      <4>2. /\ handed[req[q].key] = 0
            /\ \A p \in Requests : req[p].pc \in Consuming /\ req[p].key = req[q].key => p = q
        BY <3>3, <4>1, <1>t DEF OneTimeInv
      <4>3. req[q].key # k
        BY <2>1, <4>1, <4>2 DEF k, Consuming
      <4> QED BY <2>1, <2>4, <4>1, <4>2, <4>3, <1>k
    <3> QED BY <3>1, <3>2, <3>3 DEF OneTimeInv
  <2>7. HandedOutOnce'
    <3> SUFFICES ASSUME NEW x \in Keys \ {0}, <<"key", x>> \notin excuse' PROVE handed'[x] <= 1
      BY DEF HandedOutOnce, Keys
    <3>1. <<"key", x>> \notin excuse
      BY <2>1
    <3>2. CASE x = k
      BY <2>1, <2>3, <3>1, <3>2
    <3>3. CASE x # k
      BY <2>1, <3>1, <3>3, <1>t DEF HandedOutOnce
    <3> QED BY <3>2, <3>3
  <2> QED BY <2>5, <2>6, <2>7
<1>5. ASSUME NEW i \in Ids, ExpirePrivate(i) PROVE FreshInv' /\ OneTimeInv' /\ HandedOutOnce'
  <2>1. /\ \A j \in Ids : private'[j] = IF j = i THEN 0 ELSE private[j]
        /\ excuse \subseteq excuse' /\ UNCHANGED <<req, made, handed>>
    BY <1>5, <1>t DEF ExpirePrivate, KeysTypeOK
  <2>2. FreshInv'
    <3>1. \A j \in Ids : private'[j] <= made'
      BY <2>1, <1>t, <1>k DEF FreshInv
    <3> QED BY <2>1, <3>1, <1>t DEF FreshInv
  <2>3. OneTimeInv'
    BY <2>1, <1>t DEF OneTimeInv
  <2>4. HandedOutOnce'
    BY <2>1, <1>t DEF HandedOutOnce
  <2> QED BY <2>2, <2>3, <2>4
<1>6. ASSUME NEW r \in Requests, Arrival(r) \/ \E i \in Ids : ChooseId(r, i)
      PROVE FreshInv' /\ OneTimeInv' /\ HandedOutOnce'
  <2>1. /\ UNCHANGED <<private, handed, made, excuse>>
        /\ \A q \in Requests : q # r => req'[q] = req[q]
        /\ req'[r].pc \notin Consuming
    <3>1. CASE \E i \in Ids : ChooseId(r, i)
      BY <3>1, <1>t DEF ChooseId, keyVars, KeysTypeOK, Consuming
    <3>2. CASE Arrival(r)
      BY <3>2, <1>t, Arrives DEF keyVars, Consuming
    <3> QED BY <1>6, <3>1, <3>2
  <2> QED BY <2>1, <1>k, OneTimeKept
<1>7. ASSUME NEW r \in Requests, LoadIdentity(r) \/ CreateIdentity(r)
      PROVE FreshInv' /\ OneTimeInv' /\ HandedOutOnce'
  <2>1. AfterIdentity(req[r].op) \notin Consuming
    BY <1>7, <1>t DEF LoadIdentity, CreateIdentity, AfterIdentity, PlaceInv, Place, Writers, Consuming
  <2>2. /\ UNCHANGED <<private, handed>> /\ made <= made' /\ excuse \subseteq excuse'
        /\ \A q \in Requests : q # r => req'[q] = req[q]
        /\ req'[r].pc \notin Consuming
    BY <1>7, <2>1, <1>t, <1>k DEF LoadIdentity, CreateIdentity, Note, keyVars, KeysTypeOK, Consuming
  <2> QED BY <2>2, OneTimeKept
<1>8. ASSUME NEW r \in Requests, ListPublic(r) \/ PutSignature(r) \/ Reply(r) \/ Crash(r)
      PROVE FreshInv' /\ OneTimeInv' /\ HandedOutOnce'
  <2>1. /\ UNCHANGED <<private, handed>> /\ made <= made' /\ excuse \subseteq excuse'
        /\ \A q \in Requests : req'[q] = IF q = r THEN Free ELSE req[q]
    BY <1>8, <1>t, <1>k DEF ListPublic, PutSignature, Reply, Crash, End, Note, keyVars, KeysTypeOK
  <2>2. Free.pc \notin Consuming
    BY DEF Free, Consuming
  <2> QED BY <2>1, <2>2, OneTimeKept
<1>9. ASSUME NEW r \in Requests, PutSignedKey(r) \/ GetSignedKey(r) \/ GetSignature(r)
      PROVE FreshInv' /\ OneTimeInv' /\ HandedOutOnce'
  <2>1. /\ UNCHANGED <<private, handed>> /\ made <= made' /\ excuse \subseteq excuse'
        /\ \A q \in Requests : q # r => req'[q] = req[q]
        /\ req'[r].pc \notin Consuming
    BY <1>9, <1>t, <1>k DEF PutSignedKey, GetSignedKey, GetSignature, End, Note, keyVars, Free, KeysTypeOK,
                            Consuming
  <2> QED BY <2>1, OneTimeKept
<1>10. CASE (\E ok \in BOOLEAN : upload_identity_key(ok)) \/ ExpireSigned \/ UNCHANGED directoryVars
  <2>1. UNCHANGED <<private, handed, req>> /\ made <= made' /\ excuse \subseteq excuse'
    <3>1. ASSUME NEW ok \in BOOLEAN, upload_identity_key(ok)
          PROVE  UNCHANGED <<private, handed, req>> /\ made <= made' /\ excuse \subseteq excuse'
      BY <3>1, <1>k DEF upload_identity_key, Note, keyVars
    <3>2. CASE ExpireSigned \/ UNCHANGED directoryVars
      BY <3>2, <1>k DEF ExpireSigned, directoryVars
    <3> QED BY <1>10, <3>1, <3>2
  <2> QED BY <2>1, OneTimeKept
<1> QED BY <1>1, <1>2, <1>3, <1>4, <1>5, <1>6, <1>7, <1>8, <1>9, <1>10 DEF KeysNext, Arrival

-----------------------------------------------------------------------------
(***************************************************************************)
(* A step that leaves both halves of the pre-keys alone keeps PairInv,     *)
(* unless it brings a request between two of its commands on them.         *)
(***************************************************************************)
LEMMA PairKept ==
    ASSUME PairInv, UNCHANGED <<private, public>>, excuse \subseteq excuse',
           \A q \in Requests : req'[q].pc \in {"public", "del"} => req'[q] = req[q]
    PROVE  PairInv'
BY DEF PairInv

(***************************************************************************)
(* A listed pre-key keeps its private half, unless that expired or         *)
(* requests on the identifier overlapped.                                  *)
(***************************************************************************)
LEMMA PairStep ==
    ASSUME KeysInv, KeysTypeOK', [KeysNext]_directoryVars
    PROVE  PairInv'
<1>t. KeysTypeOK /\ PlaceInv /\ PairInv
  BY DEF KeysInv
<1>k. made \in Nat /\ private \in [Ids -> Keys] /\ public \in [Ids -> Keys]
  BY <1>t, KeysRange DEF KeysTypeOK
<1>1. ASSUME NEW r \in Requests, StorePrivate(r) PROVE PairInv'
  <2> DEFINE i == req[r].id
  <2>1. /\ i \in Ids /\ excuse \subseteq excuse' /\ public' = public /\ made + 1 # 0
        /\ \A j \in Ids : private'[j] = IF j = i THEN made + 1 ELSE private[j]
        /\ \A q \in Requests : q # r => req'[q] = req[q]
        /\ req'[r].pc = "public" /\ req'[r].id = i
    BY <1>1, <1>t, <1>k DEF StorePrivate, Note, PlaceInv, Place, KeysTypeOK
  <2>2. <<"id", i>> \in excuse' \/ \A q \in Requests : q # r /\ req[q].id = i => req[q].pc # "del"
    BY <1>1, <1>t DEF StorePrivate, Note, OthersOn, PlaceInv, Place
  <2> HIDE DEF i
  <2> SUFFICES ASSUME NEW j \in Ids, <<"id", j>> \notin excuse'
               PROVE  /\ public'[j] # 0 => private'[j] # 0
                      /\ \A q \in Requests : req'[q].id = j =>
                            /\ req'[q].pc = "public" => private'[j] # 0
                            /\ req'[q].pc = "del" => private'[j] = 0 /\ public'[j] = 0
    BY DEF PairInv
  <2>3. /\ public[j] # 0 => private[j] # 0
        /\ \A q \in Requests : req[q].id = j => /\ req[q].pc = "public" => private[j] # 0
                                                /\ req[q].pc = "del" => private[j] = 0 /\ public[j] = 0
    BY <2>1, <1>t DEF PairInv
  <2>4. CASE j = i
    BY <2>1, <2>2, <2>4
  <2>5. CASE j # i
    BY <2>1, <2>3, <2>5
  <2> QED BY <2>4, <2>5
<1>2. ASSUME NEW r \in Requests, ListPublic(r) PROVE PairInv'
  <2> DEFINE i == req[r].id
  <2>1. /\ i \in Ids /\ req[r].pc = "public" /\ excuse \subseteq excuse' /\ private' = private
        /\ \A j \in Ids : j # i => public'[j] = public[j]
        /\ \A q \in Requests : req'[q] = IF q = r THEN Free ELSE req[q]
    BY <1>2, <1>t, <1>k DEF ListPublic, End, Note, PlaceInv, Place, KeysTypeOK
  <2>2. <<"id", i>> \in excuse' \/ \A q \in Requests : q # r /\ req[q].id = i => req[q].pc # "del"
    BY <1>2, <1>t DEF ListPublic, Note, OthersOn, PlaceInv, Place
  <2>3. Free.pc \notin {"public", "del"}
    BY DEF Free
  <2>4. <<"id", i>> \in excuse \/ private[i] # 0
    BY <2>1, <1>t DEF PairInv
  <2> HIDE DEF i
  <2> SUFFICES ASSUME NEW j \in Ids, <<"id", j>> \notin excuse'
               PROVE  /\ public'[j] # 0 => private'[j] # 0
                      /\ \A q \in Requests : req'[q].id = j =>
                            /\ req'[q].pc = "public" => private'[j] # 0
                            /\ req'[q].pc = "del" => private'[j] = 0 /\ public'[j] = 0
    BY DEF PairInv
  <2>5. /\ public[j] # 0 => private[j] # 0
        /\ \A q \in Requests : req[q].id = j => /\ req[q].pc = "public" => private[j] # 0
                                                /\ req[q].pc = "del" => private[j] = 0 /\ public[j] = 0
    BY <2>1, <1>t DEF PairInv
  <2>6. CASE j = i
    <3>1. private'[j] # 0
      BY <2>1, <2>4, <2>6
    <3>2. ASSUME NEW q \in Requests, req'[q].id = j PROVE req'[q].pc # "del"
      BY <2>1, <2>2, <2>3, <2>6, <3>2
    <3> QED BY <3>1, <3>2
  <2>7. CASE j # i
    <3>1. public'[j] = public[j] /\ private'[j] = private[j]
      BY <2>1, <2>7
    <3>2. ASSUME NEW q \in Requests, req'[q].id = j, req'[q].pc \in {"public", "del"}
          PROVE  req'[q] = req[q]
      BY <2>1, <2>3, <3>2
    <3> QED BY <2>5, <3>1, <3>2
  <2> QED BY <2>6, <2>7
<1>3. ASSUME NEW r \in Requests, RemoveKey(r) PROVE PairInv'
  <2> DEFINE i == req[r].id
  <2>1. /\ i \in Ids /\ excuse \subseteq excuse'
        /\ \A j \in Ids : private'[j] = IF j = i THEN 0 ELSE private[j]
        /\ \A j \in Ids : public'[j] = IF j = i THEN 0 ELSE public[j]
        /\ \A q \in Requests : q # r => req'[q] = req[q]
        /\ req'[r].pc = "del" /\ req'[r].id = i
    BY <1>3, <1>t, <1>k DEF RemoveKey, Goto, Note, PlaceInv, Place, KeysTypeOK
  <2>2. <<"id", i>> \in excuse' \/ \A q \in Requests : q # r /\ req[q].id = i => req[q].pc # "public"
    BY <1>3, <1>t DEF RemoveKey, Note, OthersOn, PlaceInv, Place
  <2> HIDE DEF i
  <2> SUFFICES ASSUME NEW j \in Ids, <<"id", j>> \notin excuse'
               PROVE  /\ public'[j] # 0 => private'[j] # 0
                      /\ \A q \in Requests : req'[q].id = j =>
                            /\ req'[q].pc = "public" => private'[j] # 0
                            /\ req'[q].pc = "del" => private'[j] = 0 /\ public'[j] = 0
    BY DEF PairInv
  <2>3. /\ public[j] # 0 => private[j] # 0
        /\ \A q \in Requests : req[q].id = j => /\ req[q].pc = "public" => private[j] # 0
                                                /\ req[q].pc = "del" => private[j] = 0 /\ public[j] = 0
    BY <2>1, <1>t DEF PairInv
  <2>4. CASE j = i
    BY <2>1, <2>2, <2>4
  <2>5. CASE j # i
    BY <2>1, <2>3, <2>5
  <2> QED BY <2>4, <2>5
<1>4. ASSUME NEW r \in Requests, RemoveHash(r) PROVE PairInv'
  <2> DEFINE i == req[r].id
  <2>1. /\ i \in Ids /\ req[r].pc = "del" /\ excuse \subseteq excuse' /\ public' = public
        /\ \A j \in Ids : private'[j] = IF j = i THEN 0 ELSE private[j]
        /\ \A q \in Requests : req'[q] = IF q = r THEN Free ELSE req[q]
    BY <1>4, <1>t, <1>k DEF RemoveHash, End, Note, PlaceInv, Place, KeysTypeOK
  <2>2. Free.pc \notin {"public", "del"}
    BY DEF Free
  <2>3. <<"id", i>> \in excuse' \/ private[i] = 0
    BY <2>1, <1>t DEF PairInv
  <2> HIDE DEF i
  <2> SUFFICES ASSUME NEW j \in Ids, <<"id", j>> \notin excuse'
               PROVE  /\ public'[j] # 0 => private'[j] # 0
                      /\ \A q \in Requests : req'[q].id = j =>
                            /\ req'[q].pc = "public" => private'[j] # 0
                            /\ req'[q].pc = "del" => private'[j] = 0 /\ public'[j] = 0
    BY DEF PairInv
  <2>4. /\ public[j] # 0 => private[j] # 0
        /\ \A q \in Requests : req[q].id = j => /\ req[q].pc = "public" => private[j] # 0
                                                /\ req[q].pc = "del" => private[j] = 0 /\ public[j] = 0
    BY <2>1, <1>t DEF PairInv
  <2>5. public'[j] = public[j] /\ private'[j] = private[j]
    BY <2>1, <2>3
  <2>6. ASSUME NEW q \in Requests, req'[q].pc \in {"public", "del"} PROVE req'[q] = req[q]
    BY <2>1, <2>2, <2>6
  <2> QED BY <2>4, <2>5, <2>6
<1>5. ASSUME NEW i \in Ids, ExpirePrivate(i) PROVE PairInv'
  BY <1>5, <1>t, <1>k DEF ExpirePrivate, PairInv
<1>6. ASSUME NEW r \in Requests, Arrival(r) \/ \E i \in Ids : ChooseId(r, i) PROVE PairInv'
  <2>1. /\ UNCHANGED <<private, public, excuse>>
        /\ \A q \in Requests : q # r => req'[q] = req[q]
        /\ req'[r].pc \notin {"public", "del"}
    <3>1. CASE \E i \in Ids : ChooseId(r, i)
      BY <3>1, <1>t DEF ChooseId, keyVars, KeysTypeOK
    <3>2. CASE Arrival(r)
      BY <3>2, <1>t, Arrives DEF keyVars
    <3> QED BY <1>6, <3>1, <3>2
  <2> QED BY <2>1, <1>t, PairKept
<1>7. ASSUME NEW r \in Requests, LoadIdentity(r) \/ CreateIdentity(r) PROVE PairInv'
  <2>1. AfterIdentity(req[r].op) \notin {"public", "del"}
    BY <1>7, <1>t DEF LoadIdentity, CreateIdentity, AfterIdentity, PlaceInv, Place, Writers
  <2>2. /\ UNCHANGED <<private, public>> /\ excuse \subseteq excuse'
        /\ \A q \in Requests : q # r => req'[q] = req[q]
        /\ req'[r].pc \notin {"public", "del"}
    BY <1>7, <2>1, <1>t DEF LoadIdentity, CreateIdentity, Note, keyVars, KeysTypeOK
  <2> QED BY <2>2, <1>t, PairKept
<1>8. ASSUME NEW r \in Requests, ReadPrivate(r) \/ PutSignature(r) \/ Reply(r) \/ Crash(r)
      PROVE PairInv'
  <2>1. /\ UNCHANGED <<private, public>> /\ excuse \subseteq excuse'
        /\ \A q \in Requests : q # r => req'[q] = req[q]
        /\ req'[r].pc \notin {"public", "del"}
    BY <1>8, <1>t DEF ReadPrivate, PutSignature, Reply, Crash, End, Note, Free, keyVars, KeysTypeOK
  <2> QED BY <2>1, <1>t, PairKept
<1>9. ASSUME NEW r \in Requests, PutSignedKey(r) \/ GetSignedKey(r) \/ GetSignature(r) PROVE PairInv'
  <2>1. /\ UNCHANGED <<private, public>> /\ excuse \subseteq excuse'
        /\ \A q \in Requests : q # r => req'[q] = req[q]
        /\ req'[r].pc \notin {"public", "del"}
    BY <1>9, <1>t DEF PutSignedKey, GetSignedKey, GetSignature, End, Note, keyVars, Free, KeysTypeOK
  <2> QED BY <2>1, <1>t, PairKept
<1>10. CASE (\E ok \in BOOLEAN : upload_identity_key(ok)) \/ ExpireSigned \/ UNCHANGED directoryVars
  <2>1. UNCHANGED <<private, public, req>> /\ excuse \subseteq excuse'
    BY <1>10 DEF upload_identity_key, Note, ExpireSigned, directoryVars, keyVars
  <2> QED BY <2>1, <1>t, PairKept
<1> QED BY <1>1, <1>2, <1>3, <1>4, <1>5, <1>6, <1>7, <1>8, <1>9, <1>10 DEF KeysNext, Arrival

-----------------------------------------------------------------------------
(***************************************************************************)
(* A step that leaves the signed pre-key alone keeps TornInv, unless it    *)
(* moves a reader or a writer of it from one command to the next.          *)
(***************************************************************************)
LEMMA TornKept ==
    ASSUME TornInv, signed' = signed, excuse \subseteq excuse',
           \A q \in Requests : \/ req'[q] = req[q]
                              \/ /\ req[q].pc # "signature" \/ <<"signed", 0>> \in excuse'
                                 /\ req'[q].pc \notin {"signature", "getSig", "reply"}
    PROVE  TornInv'
BY DEF TornInv

(***************************************************************************)
(* The signed pre-key and its signature belong together for a reader,      *)
(* unless a writer overlapped it or another writer, or died.               *)
(***************************************************************************)
LEMMA TornStep ==
    ASSUME KeysInv, KeysTypeOK', [KeysNext]_directoryVars
    PROVE  TornInv'
<1>t. KeysTypeOK /\ PlaceInv /\ TornInv
  BY DEF KeysInv
<1>k. signed \in [publicKey : Keys, signature : [of : Keys, by : Keys]]
  BY <1>t DEF KeysTypeOK
<1>1. ASSUME NEW r \in Requests, PutSignedKey(r) PROVE TornInv'
  <2>1. /\ excuse \subseteq excuse' /\ signed'.signature = signed.signature
        /\ signed'.publicKey = made + 1
        /\ \A q \in Requests : q # r => req'[q] = req[q]
        /\ req'[r].pc = "signature" /\ req'[r].key = made + 1
    BY <1>1, <1>t, <1>k DEF PutSignedKey, Note, KeysTypeOK
  <2>2. <<"signed", 0>> \in excuse' \/ \A q \in Requests : q # r => req[q].pc # "signature"
    BY <1>1, <1>t DEF PutSignedKey, Note, Others, PlaceInv, Place
  <2> QED BY <2>1, <2>2, <1>t DEF TornInv
<1>2. ASSUME NEW r \in Requests, PutSignature(r) PROVE TornInv'
  <2>1. /\ excuse \subseteq excuse' /\ req[r].pc = "signature" /\ signed'.publicKey = signed.publicKey
        /\ signed'.signature.of = req[r].key
        /\ \A q \in Requests : req'[q] = IF q = r THEN Free ELSE req[q]
    BY <1>2, <1>t, <1>k DEF PutSignature, End, Note, KeysTypeOK
  <2>2. \/ <<"signed", 0>> \in excuse'
        \/ \A q \in Requests : q # r => req[q].pc \notin {"signature", "getSig"}
    BY <1>2, <1>t DEF PutSignature, Note, Others, PlaceInv, Place
  <2>3. Free.pc \notin {"signature", "getSig", "reply"}
    BY DEF Free
  <2> QED BY <2>1, <2>2, <2>3, <1>t DEF TornInv
<1>3. ASSUME NEW r \in Requests, GetSignedKey(r) PROVE TornInv'
  <2>1. /\ excuse \subseteq excuse' /\ req[r].pc = "getKey" /\ signed' = signed
        /\ \A q \in Requests : q # r => req'[q] = req[q]
        /\ req'[r].pc = "getSig" /\ req'[r].key = signed.publicKey
    BY <1>3, <1>t DEF GetSignedKey, Note, keyVars, KeysTypeOK
  <2>2. <<"signed", 0>> \in excuse' \/ \A q \in Requests : q # r => req[q].pc # "signature"
    BY <1>3, <1>t DEF GetSignedKey, Note, Others, PlaceInv, Place
  <2> QED BY <2>1, <2>2, <1>t DEF TornInv
<1>4. ASSUME NEW r \in Requests, GetSignature(r) PROVE TornInv'
  <2>1. /\ excuse' = excuse /\ req[r].pc = "getSig" /\ signed' = signed
        /\ \A q \in Requests : q # r => req'[q] = req[q]
        /\ \/ req'[r] = Free
           \/ /\ signed.signature # NoSig /\ req[r].key # 0 /\ req'[r].pc = "reply"
              /\ req'[r].sig = signed.signature /\ req'[r].key = req[r].key
    BY <1>4, <1>t DEF GetSignature, End, keyVars, KeysTypeOK
  <2>2. Free.pc \notin {"signature", "getSig", "reply"}
    BY DEF Free
  <2> QED BY <2>1, <2>2, <1>t DEF TornInv
<1>5. CASE ExpireSigned
  <2>1. /\ UNCHANGED <<req, excuse>> /\ signed'.publicKey = 0 /\ signed'.signature = NoSig
    BY <1>5 DEF ExpireSigned
  <2> QED BY <2>1, <1>t DEF TornInv
<1>6. ASSUME NEW r \in Requests, Arrival(r) \/ \E i \in Ids : ChooseId(r, i) PROVE TornInv'
  <2>1. /\ UNCHANGED <<signed, excuse>> /\ req[r].pc # "signature"
        /\ \A q \in Requests : q # r => req'[q] = req[q]
        /\ req'[r].pc \notin {"signature", "getSig", "reply"}
    <3>1. CASE \E i \in Ids : ChooseId(r, i)
      BY <3>1, <1>t DEF ChooseId, keyVars, KeysTypeOK
    <3>2. CASE Arrival(r)
      BY <3>2, <1>t, Arrives DEF keyVars
    <3> QED BY <1>6, <3>1, <3>2
  <2> QED BY <2>1, <1>t, TornKept
<1>7. ASSUME NEW r \in Requests, LoadIdentity(r) \/ CreateIdentity(r) PROVE TornInv'
  <2>1. AfterIdentity(req[r].op) \notin {"signature", "getSig", "reply"}
    BY <1>7, <1>t DEF LoadIdentity, CreateIdentity, AfterIdentity, PlaceInv, Place, Writers
  <2>2. /\ signed' = signed /\ excuse \subseteq excuse' /\ req[r].pc # "signature"
        /\ \A q \in Requests : q # r => req'[q] = req[q]
        /\ req'[r].pc \notin {"signature", "getSig", "reply"}
    BY <1>7, <2>1, <1>t DEF LoadIdentity, CreateIdentity, Note, keyVars, KeysTypeOK
  <2> QED BY <2>2, <1>t, TornKept
<1>8. ASSUME NEW r \in Requests, StorePrivate(r) \/ ReadPrivate(r) \/ RemoveKey(r) PROVE TornInv'
  <2>1. /\ signed' = signed /\ excuse \subseteq excuse' /\ req[r].pc # "signature"
        /\ \A q \in Requests : q # r => req'[q] = req[q]
        /\ req'[r].pc \notin {"signature", "getSig", "reply"}
    BY <1>8, <1>t DEF StorePrivate, ReadPrivate, RemoveKey, Goto, End, Note, Free, keyVars, KeysTypeOK
  <2> QED BY <2>1, <1>t, TornKept
<1>9. ASSUME NEW r \in Requests, ListPublic(r) \/ RemoveHash(r) \/ Reply(r) \/ Crash(r) PROVE TornInv'
  <2>1. /\ signed' = signed /\ excuse \subseteq excuse'
        /\ req[r].pc # "signature" \/ <<"signed", 0>> \in excuse'
        /\ \A q \in Requests : q # r => req'[q] = req[q]
        /\ req'[r].pc \notin {"signature", "getSig", "reply"}
    BY <1>9, <1>t DEF ListPublic, RemoveHash, Reply, Crash, End, Note, Free, keyVars, KeysTypeOK
  <2> QED BY <2>1, <1>t, TornKept
<1>10. CASE \/ (\E ok \in BOOLEAN : upload_identity_key(ok)) \/ (\E i \in Ids : ExpirePrivate(i))
            \/ UNCHANGED directoryVars
  <2>1. signed' = signed /\ req' = req /\ excuse \subseteq excuse'
    BY <1>10 DEF upload_identity_key, Note, ExpirePrivate, directoryVars, keyVars
  <2> QED BY <2>1, <1>t, TornKept
<1> QED BY <1>1, <1>2, <1>3, <1>4, <1>5, <1>6, <1>7, <1>8, <1>9, <1>10 DEF KeysNext, Arrival

-----------------------------------------------------------------------------
(***************************************************************************)
(* A service holds the identity of the database: whoever creates one has   *)
(* none to lose, unless two create together or the stored one is broken.   *)
(***************************************************************************)
LEMMA IdentityStep ==
    ASSUME KeysInv, KeysTypeOK', [KeysNext]_directoryVars
    PROVE  IdentityInv'
<1>t. KeysTypeOK /\ PlaceInv /\ IdentityInv
  BY DEF KeysInv
<1>k. made \in Nat /\ identity \in [public : Keys, private : Keys, loads : BOOLEAN]
  BY <1>t, KeysRange DEF KeysTypeOK
<1>1. ASSUME UNCHANGED identity, excuse \subseteq excuse',
             \A q \in Requests : /\ req'[q].me \in {0, req[q].me}
                                 /\ req'[q].pc = "create" => req[q].pc = "create"
      PROVE  IdentityInv'
  BY <1>1, <1>t DEF IdentityInv, IdentityStable, Lost
<1>2. ASSUME NEW r \in Requests, LoadIdentity(r) PROVE IdentityInv'
  <2>1. /\ UNCHANGED identity /\ excuse \subseteq excuse'
        /\ \A q \in Requests : q # r => req'[q] = req[q]
        /\ req'[r].me \in {0, identity.private}
    BY <1>2, <1>t DEF LoadIdentity, Note, KeysTypeOK
  <2>2. IdentityStable'
    BY <2>1, <1>t DEF IdentityInv, IdentityStable
  <2>3. CASE HasIdentity
    <3>1. AfterIdentity(req[r].op) # "create"
      BY <1>2, <1>t DEF LoadIdentity, AfterIdentity, PlaceInv, Place, Writers
    <3>2. req'[r].pc # "create"
      BY <1>2, <2>3, <3>1, <1>t DEF LoadIdentity, KeysTypeOK
    <3> QED BY <2>1, <2>2, <3>2, <1>t DEF IdentityInv, Lost
  <2>4. CASE ~HasIdentity
    <3>1. identity.private = 0 \/ Lost(identity.private)
      BY <2>4, <1>t DEF HasIdentity, IdentityInv
    <3>2. Lost(0)' \/ \A q \in Requests : req[q].pc # "create"
      BY <1>2, <2>4 DEF LoadIdentity, Note, Lost
    <3> QED BY <2>1, <2>2, <3>1, <3>2, <1>t DEF IdentityInv, Lost
  <2> QED BY <2>3, <2>4
<1>3. ASSUME NEW r \in Requests, CreateIdentity(r) PROVE IdentityInv'
  <2>1. /\ identity'.private = made + 1 /\ identity'.public = made + 1 /\ identity'.loads
        /\ excuse' = excuse /\ req[r].pc = "create"
        /\ \A q \in Requests : q # r => req'[q] = req[q]
        /\ req'[r].me = made + 1 /\ req'[r].pc = AfterIdentity(req[r].op)
    BY <1>3, <1>t DEF CreateIdentity, KeysTypeOK
  <2>2. AfterIdentity(req[r].op) # "create"
    BY <2>1, <1>t DEF AfterIdentity, PlaceInv, Place, Writers
  <2>3. made + 1 # 0
    BY <1>k
  <2>4. CASE Lost(0)
    BY <2>1, <2>3, <2>4 DEF IdentityInv, IdentityStable, Lost
  <2>5. CASE ~Lost(0)
    <3>1. /\ identity.private = 0 \/ Lost(identity.private)
          /\ \A q \in Requests : req[q].pc = "create" => q = r
      BY <2>1, <2>5, <1>t DEF IdentityInv
    <3>2. ASSUME NEW q \in Requests, q # r, req[q].me # 0 PROVE Lost(req[q].me)
      BY <2>5, <3>1, <3>2, <1>t DEF IdentityInv, IdentityStable, Lost
    <3> QED BY <2>1, <2>2, <2>3, <3>1, <3>2 DEF IdentityInv, IdentityStable, Lost
  <2> QED BY <2>4, <2>5
<1>4. ASSUME NEW ok \in BOOLEAN, upload_identity_key(ok) PROVE IdentityInv'
  <2>1. /\ req' = req /\ identity'.private = identity.private /\ identity'.public # 0
        /\ identity'.loads = ok /\ excuse \subseteq excuse'
        /\ ok \/ identity.private = 0 \/ Lost(identity.private)'
    BY <1>4, <1>k DEF upload_identity_key, Note, Lost
  <2>2. IdentityStable'
    BY <2>1, <1>t DEF IdentityInv, IdentityStable
  <2>3. Lost(0)' \/ \A r \in Requests : req[r].pc = "create" =>
                       /\ identity.private = 0 \/ Lost(identity.private)'
                       /\ \A q \in Requests : req[q].pc = "create" => q = r
    BY <2>1, <1>t DEF IdentityInv, Lost
  <2>4. Lost(identity.private)' <=> <<"identity", identity.private>> \in excuse'
    BY <2>1 DEF Lost
  <2> QED BY <2>1, <2>2, <2>3, <2>4 DEF IdentityInv, Lost
<1>5. ASSUME NEW r \in Requests, Arrival(r) \/ \E i \in Ids : ChooseId(r, i) PROVE IdentityInv'
  <2>1. /\ UNCHANGED <<identity, excuse>>
        /\ \A q \in Requests : q # r => req'[q] = req[q]
        /\ req'[r].me \in {0, req[r].me} /\ req'[r].pc # "create"
    <3>1. CASE \E i \in Ids : ChooseId(r, i)
      BY <3>1, <1>t DEF ChooseId, KeysTypeOK
    <3>2. CASE Arrival(r)
      BY <3>2, <1>t, Arrives
    <3> QED BY <1>5, <3>1, <3>2
  <2> QED BY <1>1, <2>1
<1>6. ASSUME NEW r \in Requests, StorePrivate(r) \/ ReadPrivate(r) \/ RemoveKey(r) \/ PutSignedKey(r)
                                \/ GetSignedKey(r) \/ GetSignature(r)
      PROVE  IdentityInv'
  <2>1. /\ UNCHANGED identity /\ excuse \subseteq excuse'
        /\ \A q \in Requests : q # r => req'[q] = req[q]
        /\ req'[r].me \in {0, req[r].me} /\ req'[r].pc # "create"
    BY <1>6, <1>t DEF StorePrivate, ReadPrivate, RemoveKey, PutSignedKey, GetSignedKey, GetSignature,
                      Goto, End, Note, Free, KeysTypeOK
  <2> QED BY <1>1, <2>1
<1>7. ASSUME NEW r \in Requests, ListPublic(r) \/ RemoveHash(r) \/ PutSignature(r) \/ Reply(r) \/ Crash(r)
      PROVE  IdentityInv'
  <2>1. /\ UNCHANGED identity /\ excuse \subseteq excuse'
        /\ \A q \in Requests : q # r => req'[q] = req[q]
        /\ req'[r].me = 0 /\ req'[r].pc # "create"
    BY <1>7, <1>t DEF ListPublic, RemoveHash, PutSignature, Reply, Crash, End, Note, Free, KeysTypeOK
  <2> QED BY <1>1, <2>1
<1>8. CASE ExpireSigned \/ (\E i \in Ids : ExpirePrivate(i)) \/ UNCHANGED directoryVars
  <2>1. UNCHANGED <<identity, req>> /\ excuse \subseteq excuse'
    BY <1>8 DEF ExpireSigned, ExpirePrivate, directoryVars
  <2> QED BY <1>1, <2>1
<1> QED BY <1>2, <1>3, <1>4, <1>5, <1>6, <1>7, <1>8 DEF KeysNext, Arrival

-----------------------------------------------------------------------------
(***************************************************************************)
(* KeysInv holds in every reachable state.                                 *)
(***************************************************************************)
THEOREM KeysInvariance == KeysSpec => []KeysInv
<1>1. KeysInv /\ [KeysNext]_directoryVars => KeysInv'
  <2> SUFFICES ASSUME KeysInv, [KeysNext]_directoryVars PROVE KeysInv'
    OBVIOUS
  <2>1. KeysTypeOK' /\ PlaceInv'
    BY KeysTypeStep DEF KeysInv
  <2>2. FreshInv' /\ OneTimeInv' /\ HandedOutOnce'
    BY <2>1, OneTimeStep
  <2>3. PairInv' /\ TornInv' /\ IdentityInv'
    BY <2>1, PairStep, TornStep, IdentityStep
  <2> QED BY <2>1, <2>2, <2>3 DEF KeysInv
<1> QED BY <1>1, KeysInvInit, PTL DEF KeysSpec

(***************************************************************************)
(* The key hashes, the identity and the requests keep their types.         *)
(***************************************************************************)
THEOREM KeysTypeCorrect == KeysSpec => []KeysTypeOK
<1>1. KeysInv => KeysTypeOK
  BY DEF KeysInv
<1> QED BY <1>1, KeysInvariance, PTL

(***************************************************************************)
(* For any number of initiators and identifiers, consume_pre_key returns a *)
(* private pre-key at most once, unless a second HGET came before the      *)
(* first one's pipeline.                                                   *)
(***************************************************************************)
THEOREM PreKeysAreOneTime == KeysSpec => []HandedOutOnce
<1>1. KeysInv => HandedOutOnce
  BY DEF KeysInv
<1> QED BY <1>1, KeysInvariance, PTL

(***************************************************************************)
(* What the directory lists can be consumed, unless the private half       *)
(* expired or requests on the identifier overlapped.                       *)
(***************************************************************************)
THEOREM ListedCanBeUsed == KeysSpec => []ListedHasPrivate
<1>1. KeysInv => ListedHasPrivate
  BY DEF KeysInv, PairInv, ListedHasPrivate
<1> QED BY <1>1, KeysInvariance, PTL

(***************************************************************************)
(* get_signed_prekey never answers a key with the signature of another,    *)
(* unless writers overlapped each other or it, or one died half way.       *)
(***************************************************************************)
THEOREM SignatureFits == KeysSpec => []SignedUntorn
<1>1. KeysInv => SignedUntorn
  BY DEF KeysInv, TornInv, SignedUntorn
<1> QED BY <1>1, KeysInvariance, PTL

(***************************************************************************)
(* For any number of services, none ever works with an identity other than *)
(* the stored one, unless two found none at the same time, or a public key *)
(* that does not load was uploaded next to it.                             *)
(***************************************************************************)
THEOREM IdentityIsStable == KeysSpec => []IdentityStable
<1>1. KeysInv => IdentityStable
  BY DEF KeysInv, IdentityInv
<1> QED BY <1>1, KeysInvariance, PTL
=============================================================================
