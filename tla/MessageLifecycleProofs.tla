----------------------- MODULE MessageLifecycleProofs -----------------------
(***************************************************************************)
(* Proofs about MessageLifecycle, for any messages, workers, batch size    *)
(* and number of failures.                                                 *)
(***************************************************************************)
EXTENDS MessageLifecycle, TLAPS

(***************************************************************************)
(* TypeOK in four parts: rows and objects, handlers, workers, frames.      *)
(***************************************************************************)
RowType ==
    /\ stored \subseteq Messages /\ content \subseteq stored /\ mediaKey \subseteq stored
    /\ status \in [Messages -> {"sent", "read"}]
    /\ destructAt \in [Messages -> {"none", "pending", "due"}]
    /\ deletedForEveryone \subseteq stored /\ isDestructed \subseteq stored
    /\ object \subseteq HasMedia
    /\ window \subseteq Unsendable

HandlerType ==
    /\ sendPc \in [Messages -> {"unsent", "notify", "ack", "publish", "done", "dead"}]
    /\ unsendPc \in [Messages -> {"idle", "loaded", "peer", "self"}]
    /\ \A m \in Messages : unsendPc[m] # "idle" => m \in stored
    /\ owed \subseteq Receipts
    /\ faults \in 0 .. MaxFaults

WorkerType ==
    /\ wpc \in [Workers -> {"sleep", "each", "publish"}]
    /\ batch \in [Workers -> SUBSET Messages]
    /\ keySeen \in [Workers -> SUBSET Messages]
    /\ wiped \in [Workers -> SUBSET Messages]
    /\ current \in [Workers -> SUBSET Messages]
    /\ \A w \in Workers : batch[w] \subseteq stored /\ wiped[w] \subseteq stored

FrameType ==
    /\ framed \subseteq Messages
    /\ retracted \subseteq Messages /\ expired \subseteq Messages
    /\ receipts \subseteq Messages

Typed == RowType /\ HandlerType /\ WorkerType /\ FrameType

\* The strengthened typing the steps are proved from implies TypeOK.
LEMMA TypedIsTypeOK == Typed => TypeOK
  BY DEF Typed, TypeOK, RowType, HandlerType, WorkerType, FrameType

\* Before anything is sent the tables are empty and well typed.
LEMMA TypeInit == Init => Typed
<1> SUFFICES ASSUME Init PROVE Typed
    OBVIOUS
<1>1. RowType
    BY LifecycleAssumption DEF Init, RowType
<1>2. HandlerType
    BY LifecycleAssumption DEF Init, HandlerType
<1>3. WorkerType
    BY DEF Init, WorkerType
<1>4. FrameType
    BY DEF Init, FrameType
<1> QED
    BY <1>1, <1>2, <1>3, <1>4 DEF Typed

(***************************************************************************)
(* The HTTP receipts are receipts: a step of theirs is one of the socket's.*)
(***************************************************************************)
LEMMA HttpReceipts ==
    ASSUME NEW m \in Messages
    PROVE  /\ mark_message_delivered(m) => mark_delivered(m)
           /\ mark_message_read(m) => mark_read(m)
           /\ broadcast_delivered(m) \/ broadcast_read(m)
                => \E r \in Receipts : PublishReceipt(r)
<1>1. <<m, "delivered">> \in Receipts /\ <<m, "read">> \in Receipts
    BY DEF Receipts
<1>2. broadcast_delivered(m) \/ broadcast_read(m) => \E r \in Receipts : PublishReceipt(r)
    BY <1>1 DEF broadcast_delivered, broadcast_read
<1> QED BY <1>2 DEF mark_message_delivered, mark_message_read

(***************************************************************************)
(* Every step of a handler, a worker and the clock keeps the state well    *)
(* typed; one step per action, under it the parts the action touches.      *)
(***************************************************************************)
LEMMA TypeStep == Typed /\ [Next]_vars => Typed'
<1> SUFFICES ASSUME Typed, [Next]_vars PROVE Typed'
    OBVIOUS
<1> USE DEF rowVars, workerVars, frameVars
<1>t. RowType /\ HandlerType /\ WorkerType /\ FrameType
    BY DEF Typed
<1>1. ASSUME NEW m \in Messages, save_message(m) PROVE Typed'
  <2>1. RowType'
      BY <1>1, <1>t, LifecycleAssumption DEF save_message, RowType
  <2>2. HandlerType'
      BY <1>1, <1>t, LifecycleAssumption DEF save_message, HandlerType
  <2>3. WorkerType'
      BY <1>1, <1>t, LifecycleAssumption DEF save_message, WorkerType
  <2>4. FrameType'
      BY <1>1, <1>t DEF save_message, FrameType
  <2> QED BY <2>1, <2>2, <2>3, <2>4 DEF Typed
<1>2. ASSUME NEW m \in Messages, Notify(m) PROVE Typed'
  <2>1. HandlerType'
      BY <1>2, <1>t, LifecycleAssumption DEF Notify, HandlerType
  <2>2. RowType' /\ WorkerType' /\ FrameType'
      BY <1>2, <1>t DEF Notify, RowType, WorkerType, FrameType
  <2> QED BY <2>1, <2>2 DEF Typed
<1>3. ASSUME NEW m \in Messages, Ack(m) PROVE Typed'
  <2>1. HandlerType'
      BY <1>3, <1>t, LifecycleAssumption DEF Ack, HandlerType
  <2>2. RowType' /\ WorkerType' /\ FrameType'
      BY <1>3, <1>t DEF Ack, RowType, WorkerType, FrameType
  <2> QED BY <2>1, <2>2 DEF Typed
<1>4. ASSUME NEW m \in Messages, PublishMessage(m) PROVE Typed'
  <2>1. HandlerType'
      BY <1>4, <1>t, LifecycleAssumption DEF PublishMessage, HandlerType
  <2>2. FrameType'
      BY <1>4, <1>t, LifecycleAssumption DEF PublishMessage, FrameType
  <2>3. RowType' /\ WorkerType'
      BY <1>4, <1>t DEF PublishMessage, RowType, WorkerType
  <2> QED BY <2>1, <2>2, <2>3 DEF Typed
<1>5. ASSUME NEW m \in Messages, SendDies(m) PROVE Typed'
  <2>1. HandlerType'
      BY <1>5, <1>t, LifecycleAssumption DEF SendDies, Fault, HandlerType
  <2>2. RowType' /\ WorkerType' /\ FrameType'
      BY <1>5, <1>t DEF SendDies, Fault, RowType, WorkerType, FrameType
  <2> QED BY <2>1, <2>2 DEF Typed
<1>6. ASSUME NEW m \in Messages, mark_delivered(m) PROVE Typed'
  <2>1. HandlerType'
      BY <1>6, <1>t, LifecycleAssumption DEF mark_delivered, HandlerType, Receipts
  <2>2. RowType' /\ WorkerType' /\ FrameType'
      BY <1>6, <1>t DEF mark_delivered, RowType, WorkerType, FrameType
  <2> QED BY <2>1, <2>2 DEF Typed
<1>7. ASSUME NEW m \in Messages, mark_read(m) PROVE Typed'
  <2>1. RowType'
      BY <1>7, <1>t, LifecycleAssumption DEF mark_read, RowType
  <2>2. HandlerType'
      BY <1>7, <1>t, LifecycleAssumption DEF mark_read, HandlerType, Receipts
  <2>3. WorkerType' /\ FrameType'
      BY <1>7, <1>t DEF mark_read, WorkerType, FrameType
  <2> QED BY <2>1, <2>2, <2>3 DEF Typed
<1>8. ASSUME NEW m \in Messages, UnsendLoad(m) PROVE Typed'
  <2>1. HandlerType'
      BY <1>8, <1>t, LifecycleAssumption DEF UnsendLoad, HandlerType
  <2>2. RowType' /\ WorkerType' /\ FrameType'
      BY <1>8, <1>t DEF UnsendLoad, RowType, WorkerType, FrameType
  <2> QED BY <2>1, <2>2 DEF Typed
<1>9. ASSUME NEW m \in Messages, UnsendCommit(m) PROVE Typed'
  <2>1. RowType'
      BY <1>9, <1>t, LifecycleAssumption DEF UnsendCommit, RowType, HandlerType
  <2>2. HandlerType'
      BY <1>9, <1>t, LifecycleAssumption DEF UnsendCommit, HandlerType
  <2>3. WorkerType' /\ FrameType'
      BY <1>9, <1>t DEF UnsendCommit, WorkerType, FrameType
  <2> QED BY <2>1, <2>2, <2>3 DEF Typed
<1>10. ASSUME NEW m \in Messages, UnsendPublish(m) PROVE Typed'
  <2>1. HandlerType'
      BY <1>10, <1>t, LifecycleAssumption DEF UnsendPublish, HandlerType
  <2>2. FrameType'
      BY <1>10, <1>t, LifecycleAssumption DEF UnsendPublish, FrameType
  <2>3. RowType' /\ WorkerType'
      BY <1>10, <1>t DEF UnsendPublish, RowType, WorkerType
  <2> QED BY <2>1, <2>2, <2>3 DEF Typed
<1>11. ASSUME NEW m \in Messages, UnsendDies(m) PROVE Typed'
  <2>1. HandlerType'
      BY <1>11, <1>t, LifecycleAssumption DEF UnsendDies, Fault, HandlerType
  <2>2. RowType' /\ WorkerType' /\ FrameType'
      BY <1>11, <1>t DEF UnsendDies, Fault, RowType, WorkerType, FrameType
  <2> QED BY <2>1, <2>2 DEF Typed
<1>12. ASSUME NEW m \in Messages, TimerRunsOut(m) PROVE Typed'
  <2>1. RowType'
      BY <1>12, <1>t, LifecycleAssumption DEF TimerRunsOut, RowType
  <2>2. HandlerType' /\ WorkerType' /\ FrameType'
      BY <1>12, <1>t DEF TimerRunsOut, HandlerType, WorkerType, FrameType
  <2> QED BY <2>1, <2>2 DEF Typed
<1>13. ASSUME NEW m \in Messages, WindowCloses(m) PROVE Typed'
  <2>1. RowType'
      BY <1>13, <1>t, LifecycleAssumption DEF WindowCloses, RowType
  <2>2. HandlerType' /\ WorkerType' /\ FrameType'
      BY <1>13, <1>t DEF WindowCloses, HandlerType, WorkerType, FrameType
  <2> QED BY <2>1, <2>2 DEF Typed
<1>14. ASSUME NEW r \in Receipts, PublishReceipt(r) PROVE Typed'
  <2>1. HandlerType'
      BY <1>14, <1>t, LifecycleAssumption DEF PublishReceipt, HandlerType
  <2>2. FrameType'
      BY <1>14, <1>t, LifecycleAssumption DEF PublishReceipt, FrameType
  <2>3. RowType' /\ WorkerType'
      BY <1>14, <1>t DEF PublishReceipt, RowType, WorkerType
  <2> QED BY <2>1, <2>2, <2>3 DEF Typed
<1>15. ASSUME NEW r \in Receipts, ReceiptLost(r) PROVE Typed'
  <2>1. HandlerType'
      BY <1>15, <1>t, LifecycleAssumption DEF ReceiptLost, Fault, HandlerType
  <2>2. RowType' /\ WorkerType' /\ FrameType'
      BY <1>15, <1>t DEF ReceiptLost, Fault, RowType, WorkerType, FrameType
  <2> QED BY <2>1, <2>2 DEF Typed
<1>16. ASSUME NEW w \in Workers, SweepSelect(w) PROVE Typed'
  <2>1. WorkerType'
      BY <1>16, <1>t, LifecycleAssumption DEF SweepSelect, WorkerType, Expired, RowType
  <2>2. RowType' /\ HandlerType' /\ FrameType'
      BY <1>16, <1>t DEF SweepSelect, RowType, HandlerType, FrameType
  <2> QED BY <2>1, <2>2 DEF Typed
<1>17. ASSUME NEW w \in Workers, NEW m \in Messages, SweepWipe(w, m) PROVE Typed'
  <2>1. RowType'
      BY <1>17, <1>t, LifecycleAssumption DEF SweepWipe, RowType
  <2>2. WorkerType'
      BY <1>17, <1>t, LifecycleAssumption DEF SweepWipe, WorkerType
  <2>3. HandlerType' /\ FrameType'
      BY <1>17, <1>t DEF SweepWipe, HandlerType, FrameType
  <2> QED BY <2>1, <2>2, <2>3 DEF Typed
<1>18. ASSUME NEW w \in Workers, NEW m \in Messages, SweepDeleteFails(w, m) PROVE Typed'
  <2>1. HandlerType'
      BY <1>18, <1>t, LifecycleAssumption DEF SweepDeleteFails, Fault, HandlerType
  <2>2. WorkerType'
      BY <1>18, <1>t, LifecycleAssumption DEF SweepDeleteFails, Fault, WorkerType
  <2>3. RowType' /\ FrameType'
      BY <1>18, <1>t DEF SweepDeleteFails, Fault, RowType, FrameType
  <2> QED BY <2>1, <2>2, <2>3 DEF Typed
<1>19. ASSUME NEW w \in Workers, SweepPublish(w) PROVE Typed'
  <2>1. WorkerType'
      BY <1>19, <1>t, LifecycleAssumption DEF SweepPublish, WorkerType
  <2>2. FrameType'
      BY <1>19, <1>t, LifecycleAssumption DEF SweepPublish, FrameType, WorkerType
  <2>3. RowType' /\ HandlerType'
      BY <1>19, <1>t DEF SweepPublish, RowType, HandlerType
  <2> QED BY <2>1, <2>2, <2>3 DEF Typed
<1>20. ASSUME NEW w \in Workers, SweepCommit(w) PROVE Typed'
  <2>1. RowType'
      BY <1>20, <1>t, LifecycleAssumption DEF SweepCommit, Sleep, RowType, WorkerType
  <2>2. WorkerType'
      BY <1>20, <1>t, LifecycleAssumption DEF SweepCommit, Sleep, WorkerType
  <2>3. HandlerType' /\ FrameType'
      BY <1>20, <1>t DEF SweepCommit, Sleep, HandlerType, FrameType
  <2> QED BY <2>1, <2>2, <2>3 DEF Typed
<1>21. ASSUME NEW w \in Workers, SweepFails(w) PROVE Typed'
  <2>1. HandlerType'
      BY <1>21, <1>t, LifecycleAssumption DEF SweepFails, Fault, Sleep, HandlerType
  <2>2. WorkerType'
      BY <1>21, <1>t, LifecycleAssumption DEF SweepFails, Fault, Sleep, WorkerType
  <2>3. FrameType'
      BY <1>21, <1>t, LifecycleAssumption DEF SweepFails, Fault, Sleep, FrameType, WorkerType
  <2>4. RowType'
      BY <1>21, <1>t DEF SweepFails, Fault, Sleep, RowType
  <2> QED BY <2>1, <2>2, <2>3, <2>4 DEF Typed
<1>22. CASE UNCHANGED vars
    BY <1>22, <1>t DEF vars, Typed, RowType, HandlerType, WorkerType, FrameType
<1> QED
    BY <1>1, <1>2, <1>3, <1>4, <1>5, <1>6, <1>7, <1>8, <1>9, <1>10, <1>11, <1>12, <1>13, <1>14, <1>15, <1>16, <1>17, <1>18, <1>19, <1>20, <1>21, <1>22, HttpReceipts
       DEF Next, SweepStep

(***************************************************************************)
(* Rows, objects, handlers, workers and frames keep their types.           *)
(***************************************************************************)
THEOREM TypeCorrect == Spec => []TypeOK
  BY TypeInit, TypeStep, TypedIsTypeOK, PTL DEF Spec

-----------------------------------------------------------------------------
(***************************************************************************)
(* Storage and frames: a handler past save_message has its row, and only   *)
(* such a handler publishes.                                               *)
(***************************************************************************)
RowInv ==
    /\ \A m \in Messages : sendPc[m] # "unsent" <=> m \in stored
    /\ framed \subseteq stored

\* Every step keeps a handler past save_message, and every published frame, tied to a stored row.
LEMMA RowStep == Typed /\ RowInv /\ [Next]_vars => RowInv'
<1> SUFFICES ASSUME Typed, RowInv, [Next]_vars PROVE RowInv'
    OBVIOUS
<1> USE DEF rowVars, workerVars, frameVars
<1>t. sendPc \in [Messages -> {"unsent", "notify", "ack", "publish", "done", "dead"}]
    BY DEF Typed, HandlerType
<1>1. ASSUME NEW m \in Messages, save_message(m) PROVE RowInv'
    BY <1>1, <1>t DEF save_message, RowInv
<1>2. ASSUME NEW m \in Messages, Notify(m) \/ Ack(m) \/ SendDies(m) PROVE RowInv'
    BY <1>2, <1>t DEF Notify, Ack, SendDies, RowInv
<1>3. ASSUME NEW m \in Messages, PublishMessage(m) PROVE RowInv'
    BY <1>3, <1>t DEF PublishMessage, RowInv
<1>4. CASE UNCHANGED <<sendPc, stored, framed>>
    BY <1>4 DEF RowInv
<1>5. ASSUME Next
      PROVE  \/ \E m \in Messages : \/ save_message(m) \/ Notify(m) \/ Ack(m)
                                    \/ SendDies(m) \/ PublishMessage(m)
             \/ UNCHANGED <<sendPc, stored, framed>>
    BY <1>5, HttpReceipts DEF Next, SweepStep, mark_delivered, mark_read, UnsendLoad, UnsendCommit,
                UnsendPublish, UnsendDies, TimerRunsOut, WindowCloses, PublishReceipt,
                ReceiptLost, SweepSelect, SweepWipe, SweepDeleteFails, SweepPublish,
                SweepCommit, SweepFails
<1>6. CASE UNCHANGED vars
    BY <1>4, <1>6 DEF vars
<1> QED
    BY <1>1, <1>2, <1>3, <1>4, <1>5, <1>6

\* Typing and the row invariant hold throughout: the base of the later proofs.
LEMMA RowInvariance == Spec => [](Typed /\ RowInv)
<1>1. Init => RowInv
    BY DEF Init, RowInv
<1> QED
    BY <1>1, TypeInit, TypeStep, RowStep, PTL DEF Spec

(***************************************************************************)
(* A message the recipient saw is in the database, whatever crashed        *)
(* between save_message and publish.                                       *)
(***************************************************************************)
THEOREM StoredBeforeSeen == Spec => []SeenIsStored
<1>1. RowInv => SeenIsStored
    BY DEF RowInv, SeenIsStored
<1> QED
    BY <1>1, RowInvariance, PTL

-----------------------------------------------------------------------------
(***************************************************************************)
(* Unsend: the handler that publishes, and every message it published for, *)
(* has its content wiped; content never comes back because a row is stored *)
(* once.                                                                   *)
(***************************************************************************)
RetractInv ==
    /\ \A m \in Messages : unsendPc[m] \in {"peer", "self"} => m \notin content
    /\ retracted \cap content = {}
    /\ retracted \subseteq stored

\* Every step keeps a retracted message without content, so history never returns its text.
LEMMA RetractStep == Typed /\ RowInv /\ RetractInv /\ [Next]_vars => RetractInv'
<1> SUFFICES ASSUME Typed, RowInv, RetractInv, [Next]_vars PROVE RetractInv'
    OBVIOUS
<1> USE DEF rowVars, workerVars, frameVars
<1>t. /\ unsendPc \in [Messages -> {"idle", "loaded", "peer", "self"}]
      /\ \A m \in Messages : unsendPc[m] # "idle" => m \in stored
    BY DEF Typed, HandlerType
<1>1. ASSUME NEW m \in Messages, save_message(m) PROVE RetractInv'
  <2>1. m \notin stored /\ m \notin retracted /\ unsendPc[m] = "idle"
      BY <1>1, <1>t DEF save_message, RowInv, RetractInv
  <2>2. /\ content' = content \cup {m} /\ stored' = stored \cup {m}
        /\ UNCHANGED <<unsendPc, retracted>>
      BY <1>1 DEF save_message
  <2> QED BY <2>1, <2>2 DEF RetractInv
<1>2. ASSUME NEW m \in Messages, UnsendLoad(m) \/ UnsendDies(m) PROVE RetractInv'
    BY <1>2, <1>t DEF UnsendLoad, UnsendDies, RetractInv
<1>3. ASSUME NEW m \in Messages, UnsendCommit(m) PROVE RetractInv'
    BY <1>3, <1>t DEF UnsendCommit, RetractInv
<1>4. ASSUME NEW m \in Messages, UnsendPublish(m) PROVE RetractInv'
    BY <1>4, <1>t DEF UnsendPublish, RetractInv
<1>5. ASSUME NEW w \in Workers, SweepCommit(w) PROVE RetractInv'
    BY <1>5 DEF SweepCommit, RetractInv
<1>6. CASE UNCHANGED <<unsendPc, content, retracted, stored>>
    BY <1>6 DEF RetractInv
<1>7. ASSUME Next
      PROVE  \/ \E m \in Messages : \/ save_message(m) \/ UnsendLoad(m) \/ UnsendDies(m)
                                    \/ UnsendCommit(m) \/ UnsendPublish(m)
             \/ \E w \in Workers : SweepCommit(w)
             \/ UNCHANGED <<unsendPc, content, retracted, stored>>
    BY <1>7, HttpReceipts DEF Next, SweepStep, Notify, Ack, SendDies, PublishMessage, mark_delivered,
                mark_read, TimerRunsOut, WindowCloses, PublishReceipt, ReceiptLost,
                SweepSelect, SweepWipe, SweepDeleteFails, SweepPublish, SweepFails
<1>8. CASE UNCHANGED vars
    BY <1>6, <1>8 DEF vars
<1> QED
    BY <1>1, <1>2, <1>3, <1>4, <1>5, <1>6, <1>7, <1>8

(***************************************************************************)
(* After the unsend frame of a user's unsend, message_history never        *)
(* returns the message's content again.                                    *)
(***************************************************************************)
THEOREM RetractedStaysHidden == Spec => []RetractedNotInHistory
<1>1. Init => RetractInv
    BY DEF Init, RetractInv
<1>2. RetractInv => RetractedNotInHistory
    BY DEF RetractInv, RetractedNotInHistory, message_history
<1> QED
    BY <1>1, <1>2, RowInvariance, RetractStep, PTL DEF Spec

-----------------------------------------------------------------------------
(***************************************************************************)
(* The sweep: a row a worker holds without a key has no object, or was     *)
(* unsent; a row it has wiped has no object, or was unsent; a row it has   *)
(* wiped has been announced, except the one it is about to announce.       *)
(***************************************************************************)
SweepInv ==
    \A w \in Workers :
        /\ (batch[w] \ keySeen[w]) \cap object \subseteq deletedForEveryone
        /\ wiped[w] \cap object \subseteq deletedForEveryone
        /\ wiped[w] \subseteq expired \cup current[w]
        /\ wpc[w] # "publish" => current[w] = {}

DestructInv == DestructionIsComplete /\ WipedIsAnnounced /\ SweepInv

\* Every step preserves the destruction invariant: what a sweep wiped it has announced or is about to.
LEMMA DestructStep == Typed /\ RowInv /\ DestructInv /\ [Next]_vars => DestructInv'
<1> SUFFICES ASSUME Typed, RowInv, DestructInv, [Next]_vars PROVE DestructInv'
    OBVIOUS
<1> USE DEF rowVars, workerVars, frameVars
<1>t. /\ wpc \in [Workers -> {"sleep", "each", "publish"}]
      /\ batch \in [Workers -> SUBSET Messages]
      /\ keySeen \in [Workers -> SUBSET Messages]
      /\ wiped \in [Workers -> SUBSET Messages]
      /\ current \in [Workers -> SUBSET Messages]
      /\ \A w \in Workers : batch[w] \subseteq stored /\ wiped[w] \subseteq stored
      /\ isDestructed \subseteq stored /\ object \subseteq HasMedia
    BY DEF Typed, WorkerType, RowType
<1>i. DestructionIsComplete /\ WipedIsAnnounced /\ SweepInv
    BY DEF DestructInv
<1>1. ASSUME NEW m \in Messages, save_message(m) PROVE DestructInv'
  <2>1. m \notin stored /\ m \notin isDestructed
      BY <1>1, <1>t DEF save_message, RowInv
  <2>2. /\ stored' = stored \cup {m} /\ content' = content \cup {m}
        /\ mediaKey' = mediaKey \cup ({m} \cap HasMedia)
        /\ UNCHANGED <<object, deletedForEveryone, isDestructed, expired, workerVars>>
      BY <1>1 DEF save_message
  <2>3. DestructionIsComplete'
      BY <2>1, <2>2, <1>i, <1>t DEF DestructionIsComplete
  <2>4. WipedIsAnnounced' /\ SweepInv'
      BY <2>2, <1>i DEF WipedIsAnnounced, SweepInv
  <2> QED BY <2>3, <2>4 DEF DestructInv
<1>2. ASSUME NEW m \in Messages, UnsendCommit(m) PROVE DestructInv'
    BY <1>2, <1>i DEF UnsendCommit, DestructInv, DestructionIsComplete, WipedIsAnnounced,
                      SweepInv
<1>3. ASSUME NEW w \in Workers, SweepSelect(w) PROVE DestructInv'
  <2>1. PICK rows \in SUBSET Expired :
             /\ batch' = [batch EXCEPT ![w] = rows]
             /\ keySeen' = [keySeen EXCEPT ![w] = rows \cap mediaKey]
      BY <1>3 DEF SweepSelect
  <2>2. rows \subseteq stored
      BY DEF Expired
  <2>3. /\ wpc[w] = "sleep" /\ wpc' = [wpc EXCEPT ![w] = "each"]
        /\ UNCHANGED <<rowVars, object, wiped, current, expired>>
      BY <1>3 DEF SweepSelect
  <2>4. DestructionIsComplete' /\ WipedIsAnnounced'
      BY <2>3, <1>i DEF DestructionIsComplete, WipedIsAnnounced
  <2>5. (rows \ (rows \cap mediaKey)) \cap object \subseteq deletedForEveryone
      BY <2>2, <1>i DEF DestructionIsComplete
  <2>6. SweepInv'
      BY <2>1, <2>3, <2>5, <1>i, <1>t DEF SweepInv
  <2> QED BY <2>4, <2>6 DEF DestructInv
<1>4. ASSUME NEW w \in Workers, NEW m \in Messages, SweepWipe(w, m) PROVE DestructInv'
  <2>1. /\ wpc[w] = "each" /\ m \in batch[w]
        /\ object' = object \ ({m} \cap keySeen[w])
        /\ batch' = [batch EXCEPT ![w] = @ \ {m}]
        /\ wiped' = [wiped EXCEPT ![w] = @ \cup {m}]
        /\ current' = [current EXCEPT ![w] = {m}]
        /\ wpc' = [wpc EXCEPT ![w] = "publish"]
        /\ UNCHANGED <<rowVars, keySeen, expired>>
      BY <1>4 DEF SweepWipe
  <2>2. DestructionIsComplete' /\ WipedIsAnnounced'
      BY <2>1, <1>i DEF DestructionIsComplete, WipedIsAnnounced
  <2>3. {m} \cap object' \subseteq deletedForEveryone
      BY <2>1, <1>i DEF SweepInv
  <2>4. current[w] = {}
      BY <2>1, <1>i DEF SweepInv
  <2>5. SweepInv'
      BY <2>1, <2>3, <2>4, <1>i, <1>t DEF SweepInv
  <2> QED BY <2>2, <2>5 DEF DestructInv
<1>5. ASSUME NEW w \in Workers, NEW m \in Messages, SweepDeleteFails(w, m) PROVE DestructInv'
  <2>1. DestructionIsComplete' /\ WipedIsAnnounced'
      BY <1>5, <1>i DEF SweepDeleteFails, DestructionIsComplete, WipedIsAnnounced
  <2>2. SweepInv'
      BY <1>5, <1>i, <1>t DEF SweepDeleteFails, SweepInv
  <2> QED BY <2>1, <2>2 DEF DestructInv
<1>6. ASSUME NEW w \in Workers, SweepPublish(w) PROVE DestructInv'
  <2>1. DestructionIsComplete' /\ WipedIsAnnounced'
      BY <1>6, <1>i DEF SweepPublish, DestructionIsComplete, WipedIsAnnounced
  <2>2. SweepInv'
      BY <1>6, <1>i, <1>t DEF SweepPublish, SweepInv
  <2> QED BY <2>1, <2>2 DEF DestructInv
<1>7. ASSUME NEW w \in Workers, SweepCommit(w) PROVE DestructInv'
  <2>1. /\ wiped[w] \cap object \subseteq deletedForEveryone
        /\ wiped[w] \subseteq expired
      BY <1>7, <1>i DEF SweepCommit, SweepInv
  <2>2. DestructionIsComplete' /\ WipedIsAnnounced'
      BY <1>7, <2>1, <1>i DEF SweepCommit, DestructionIsComplete, WipedIsAnnounced
  <2>3. SweepInv'
      BY <1>7, <1>i, <1>t DEF SweepCommit, Sleep, SweepInv
  <2> QED BY <2>2, <2>3 DEF DestructInv
<1>8. ASSUME NEW w \in Workers, SweepFails(w) PROVE DestructInv'
  <2>1. DestructionIsComplete' /\ WipedIsAnnounced'
      BY <1>8, <1>i DEF SweepFails, DestructionIsComplete, WipedIsAnnounced
  <2>2. SweepInv'
      BY <1>8, <1>i, <1>t DEF SweepFails, Sleep, SweepInv
  <2> QED BY <2>1, <2>2 DEF DestructInv
<1>9. CASE UNCHANGED <<stored, content, mediaKey, deletedForEveryone, isDestructed, object,
                       expired, workerVars>>
    BY <1>9, <1>i DEF DestructInv, DestructionIsComplete, WipedIsAnnounced, SweepInv
<1>10. ASSUME Next
       PROVE  \/ \E m \in Messages : save_message(m) \/ UnsendCommit(m)
              \/ \E w \in Workers : \/ SweepSelect(w) \/ SweepPublish(w)
                                    \/ SweepCommit(w) \/ SweepFails(w)
              \/ \E w \in Workers, m \in Messages : SweepWipe(w, m) \/ SweepDeleteFails(w, m)
              \/ UNCHANGED <<stored, content, mediaKey, deletedForEveryone, isDestructed,
                             object, expired, workerVars>>
    BY <1>10, HttpReceipts DEF Next, SweepStep, Notify, Ack, SendDies, PublishMessage, mark_delivered,
                 mark_read, UnsendLoad, UnsendPublish, UnsendDies, TimerRunsOut,
                 WindowCloses, PublishReceipt, ReceiptLost
<1>11. CASE UNCHANGED vars
    BY <1>9, <1>11 DEF vars
<1> QED
    BY <1>1, <1>2, <1>3, <1>4, <1>5, <1>6, <1>7, <1>8, <1>9, <1>10, <1>11

\* The destruction invariant holds throughout.
LEMMA DestructInvariance == Spec => []DestructInv
<1>1. Init => DestructInv
    BY DEF Init, DestructInv, DestructionIsComplete, WipedIsAnnounced, SweepInv
<1> QED
    BY <1>1, RowInvariance, DestructStep, PTL DEF Spec

(***************************************************************************)
(* sweep_once wipes a message completely or leaves it queued: a destructed *)
(* row has neither content nor media, and no file loses its row unless it  *)
(* was unsent, however many workers overlap and whatever fails.            *)
(***************************************************************************)
THEOREM SweepLeavesNothing == Spec => []DestructionIsComplete
<1>1. DestructInv => DestructionIsComplete
    BY DEF DestructInv
<1> QED
    BY <1>1, DestructInvariance, PTL

(***************************************************************************)
(* Both parties are told of a destruction before it is committed.          *)
(***************************************************************************)
THEOREM AnnouncedBeforeWiped == Spec => []WipedIsAnnounced
<1>1. DestructInv => WipedIsAnnounced
    BY DEF DestructInv
<1> QED
    BY <1>1, DestructInvariance, PTL

-----------------------------------------------------------------------------
(***************************************************************************)
(* Receipts: a read receipt that is owed or published is about a row that  *)
(* mark_read has committed, and no other handler writes its status.        *)
(***************************************************************************)
ReceiptInv ==
    /\ \A m \in Messages : <<m, "read">> \in owed => m \in stored /\ status[m] = "read"
    /\ ReadReceiptIsTrue

\* Every step keeps a read receipt, owed or published, backed by a row marked read.
LEMMA ReceiptStep == Typed /\ RowInv /\ ReceiptInv /\ [Next]_vars => ReceiptInv'
<1> SUFFICES ASSUME Typed, RowInv, ReceiptInv, [Next]_vars PROVE ReceiptInv'
    OBVIOUS
<1> USE DEF rowVars, workerVars, frameVars
<1>t. status \in [Messages -> {"sent", "read"}] /\ receipts \subseteq Messages
    BY DEF Typed, RowType, FrameType
<1>1. ASSUME NEW m \in Messages, save_message(m) PROVE ReceiptInv'
    BY <1>1 DEF save_message, ReceiptInv, ReadReceiptIsTrue
<1>2. ASSUME NEW m \in Messages, mark_delivered(m) PROVE ReceiptInv'
    BY <1>2 DEF mark_delivered, ReceiptInv, ReadReceiptIsTrue
<1>3. ASSUME NEW m \in Messages, mark_read(m) PROVE ReceiptInv'
    BY <1>3, <1>t DEF mark_read, ReceiptInv, ReadReceiptIsTrue
<1>4. ASSUME NEW r \in Receipts, PublishReceipt(r) \/ ReceiptLost(r) PROVE ReceiptInv'
    BY <1>4 DEF PublishReceipt, ReceiptLost, ReceiptInv, ReadReceiptIsTrue
<1>5. CASE UNCHANGED <<stored, status, owed, receipts>>
    BY <1>5 DEF ReceiptInv, ReadReceiptIsTrue
<1>6. ASSUME Next
      PROVE  \/ \E m \in Messages : save_message(m) \/ mark_delivered(m) \/ mark_read(m)
             \/ \E r \in Receipts : PublishReceipt(r) \/ ReceiptLost(r)
             \/ UNCHANGED <<stored, status, owed, receipts>>
    BY <1>6, HttpReceipts DEF Next, SweepStep, Notify, Ack, SendDies, PublishMessage, UnsendLoad,
                UnsendCommit, UnsendPublish, UnsendDies, TimerRunsOut, WindowCloses,
                SweepSelect, SweepWipe, SweepDeleteFails, SweepPublish, SweepCommit,
                SweepFails
<1>7. CASE UNCHANGED vars
    BY <1>5, <1>7 DEF vars
<1> QED
    BY <1>1, <1>2, <1>3, <1>4, <1>5, <1>6, <1>7

(***************************************************************************)
(* A read receipt published to the sender is about a row that says READ    *)
(* (mark_read, then publish).                                              *)
(***************************************************************************)
THEOREM ReceiptsTellTheTruth == Spec => []ReadReceiptIsTrue
<1>1. Init => ReceiptInv
    BY DEF Init, ReceiptInv, ReadReceiptIsTrue
<1>2. ReceiptInv => ReadReceiptIsTrue
    BY DEF ReceiptInv
<1> QED
    BY <1>1, <1>2, RowInvariance, ReceiptStep, PTL DEF Spec
=============================================================================
