-------------------------- MODULE MessageLifecycle --------------------------
(***************************************************************************)
(* The life of direct messages on the server, from save to wipe:           *)
(* save_message, mark_delivered, mark_read and unsend_message of           *)
(* app/services/message_service.py, the branches of _handle_frame in       *)
(* app/api/routes/websocket.py that call them, the sweep of                *)
(* app/services/self_destruct_worker.py and what message_history of        *)
(* app/api/routes/chats.py returns.                                        *)
(*                                                                         *)
(* A message is one row of `messages' and perhaps one media object in      *)
(* MinIO.  The sender uses several devices, so an unsend can be handled    *)
(* while the socket that carried the message is still being served.  Every *)
(* API replica runs its own self-destruct worker (main.py, lifespan).      *)
(***************************************************************************)
EXTENDS Integers, FiniteSets

CONSTANTS
    Messages,
    HasMedia,     \* messages sent with a media_key
    Timed,        \* messages sent with a destruct_after other than 0
    Unsendable,   \* messages whose sender may ask to unsend them
    Receipted,    \* messages for which a party sends receipts
    Workers,      \* self-destruct workers, one per replica
    BATCH_SIZE,   \* rows a sweep selects at most
    MaxFaults     \* bound: failed calls (push, Pub/Sub, MinIO, commit) and crashes

ASSUME LifecycleAssumption ==
    /\ HasMedia \subseteq Messages
    /\ Timed \subseteq Messages
    /\ Unsendable \subseteq Messages
    /\ Receipted \subseteq Messages
    /\ BATCH_SIZE \in Nat \ {0}
    /\ MaxFaults \in Nat

VARIABLES
    stored,               \* rows that are committed
    content,              \* rows whose content_ciphertext is not NULL
    mediaKey,             \* rows whose media_object_key is not NULL
    status,               \* status[m]: messages.status
    destructAt,           \* destructAt[m]: destruct_at: "none", "pending" or "due"
    deletedForEveryone,   \* rows with deleted_for_everyone
    isDestructed,         \* rows with is_destructed
    object,               \* media objects present in MinIO
    window,               \* unsendable messages younger than UNSEND_WINDOW
    sendPc,               \* sendPc[m]: _handle_frame for the frame that sends m
    unsendPc,             \* unsendPc[m]: _handle_frame for an unsend of m
    owed,                 \* receipts a handler is about to publish
    wpc,                  \* wpc[w]: what worker w does next
    batch,                \* batch[w]: rows selected and not yet handled
    keySeen,              \* keySeen[w]: rows selected with a media key
    wiped,                \* wiped[w]: rows wiped in w's session, not committed
    current,              \* current[w]: rows whose unsend frame w publishes next
    faults,               \* failures so far
    framed,               \* messages whose "message" frame was published
    retracted,            \* messages whose "unsend" frame a user's unsend published
    expired,              \* messages whose "unsend" frame a sweep published
    receipts              \* messages whose "read" receipt was published

rowVars == <<stored, content, mediaKey, status, destructAt, deletedForEveryone,
             isDestructed>>
workerVars == <<wpc, batch, keySeen, wiped, current>>
frameVars == <<framed, retracted, expired, receipts>>
vars == <<rowVars, object, window, sendPc, unsendPc, owed, workerVars, faults,
          frameVars>>

Receipts == Messages \X {"delivered", "read"}

TypeOK ==
    /\ stored \subseteq Messages /\ content \subseteq stored /\ mediaKey \subseteq stored
    /\ status \in [Messages -> {"sent", "read"}]
    /\ destructAt \in [Messages -> {"none", "pending", "due"}]
    /\ deletedForEveryone \subseteq stored /\ isDestructed \subseteq stored
    /\ object \subseteq HasMedia
    /\ window \subseteq Unsendable
    /\ sendPc \in [Messages -> {"unsent", "notify", "ack", "publish", "done", "dead"}]
    /\ unsendPc \in [Messages -> {"idle", "loaded", "peer", "self"}]
    /\ owed \subseteq Receipts
    /\ wpc \in [Workers -> {"sleep", "each", "publish"}]
    /\ batch \in [Workers -> SUBSET Messages]
    /\ keySeen \in [Workers -> SUBSET Messages]
    /\ wiped \in [Workers -> SUBSET Messages]
    /\ current \in [Workers -> SUBSET Messages]
    /\ faults \in 0 .. MaxFaults
    /\ framed \subseteq Messages
    /\ retracted \subseteq Messages /\ expired \subseteq Messages
    /\ receipts \subseteq Messages

Init ==
    /\ stored = {} /\ content = {} /\ mediaKey = {}
    /\ status = [m \in Messages |-> "sent"]
    /\ destructAt = [m \in Messages |-> "none"]
    /\ deletedForEveryone = {} /\ isDestructed = {}
    /\ object = HasMedia
    /\ window = Unsendable
    /\ sendPc = [m \in Messages |-> "unsent"]
    /\ unsendPc = [m \in Messages |-> "idle"]
    /\ owed = {}
    /\ wpc = [w \in Workers |-> "sleep"]
    /\ batch = [w \in Workers |-> {}]
    /\ keySeen = [w \in Workers |-> {}]
    /\ wiped = [w \in Workers |-> {}]
    /\ current = [w \in Workers |-> {}]
    /\ faults = 0
    /\ framed = {} /\ retracted = {} /\ expired = {}
    /\ receipts = {}

Fault == faults < MaxFaults /\ faults' = faults + 1

-----------------------------------------------------------------------------
(***************************************************************************)
(* Sending: _handle_frame lines 131-188.                                   *)
(***************************************************************************)

\* The handler goes on before the row is committed.
save_messageUncommitted(m) ==
    /\ sendPc[m] = "unsent"
    /\ sendPc' = [sendPc EXCEPT ![m] = "notify"]
    /\ UNCHANGED <<rowVars, object, window, unsendPc, owed, workerVars, faults, frameVars>>

(***************************************************************************)
(* save_message: the row is committed, with destruct_at counted from now   *)
(* if destruct_after is set.                                               *)
(***************************************************************************)
save_message(m) ==
    /\ sendPc[m] = "unsent"
    /\ stored' = stored \cup {m}
    /\ content' = content \cup {m}
    /\ mediaKey' = mediaKey \cup ({m} \cap HasMedia)
    /\ destructAt' = [destructAt EXCEPT ![m] = IF m \in Timed THEN "pending" ELSE "none"]
    /\ sendPc' = [sendPc EXCEPT ![m] = "notify"]
    /\ UNCHANGED <<status, deletedForEveryone, isDestructed, object, window,
                   unsendPc, owed, workerVars, faults, frameVars>>

(***************************************************************************)
(* Lines 154-167: is_online, and a push to an offline recipient.           *)
(***************************************************************************)
Notify(m) ==
    /\ sendPc[m] = "notify"
    /\ sendPc' = [sendPc EXCEPT ![m] = "ack"]
    /\ UNCHANGED <<rowVars, object, window, unsendPc, owed, workerVars, faults, frameVars>>

(***************************************************************************)
(* Lines 170-175: the ack to the sending device.                           *)
(***************************************************************************)
Ack(m) ==
    /\ sendPc[m] = "ack"
    /\ sendPc' = [sendPc EXCEPT ![m] = "publish"]
    /\ UNCHANGED <<rowVars, object, window, unsendPc, owed, workerVars, faults, frameVars>>

(***************************************************************************)
(* Lines 178-187: the message frame, with the content the client sent.     *)
(***************************************************************************)
PublishMessage(m) ==
    /\ sendPc[m] = "publish"
    /\ sendPc' = [sendPc EXCEPT ![m] = "done"]
    /\ framed' = framed \cup {m}
    /\ UNCHANGED <<rowVars, object, window, unsendPc, owed, workerVars, faults,
                   retracted, expired, receipts>>

(***************************************************************************)
(* The push, the socket or Redis raises, or the replica crashes: the       *)
(* handler ends and the rest of its calls is not made.                     *)
(***************************************************************************)
SendDies(m) ==
    /\ sendPc[m] \in {"notify", "ack", "publish"}
    /\ Fault
    /\ sendPc' = [sendPc EXCEPT ![m] = "dead"]
    /\ UNCHANGED <<rowVars, object, window, unsendPc, owed, workerVars, frameVars>>

-----------------------------------------------------------------------------
(***************************************************************************)
(* Receipts: _handle_frame lines 191-206.  The participant who sends one   *)
(* is either party.                                                        *)
(***************************************************************************)

(***************************************************************************)
(* mark_delivered: delivered_at was set when the row was stored, so the    *)
(* row does not change.                                                    *)
(***************************************************************************)
mark_delivered(m) ==
    /\ m \in Receipted /\ m \in stored
    /\ owed' = owed \cup {<<m, "delivered">>}
    /\ UNCHANGED <<rowVars, object, window, sendPc, unsendPc, workerVars, faults, frameVars>>

\* The change is not committed.
mark_readUncommitted(m) ==
    /\ m \in Receipted /\ m \in stored
    /\ owed' = owed \cup {<<m, "read">>}
    /\ UNCHANGED <<rowVars, object, window, sendPc, unsendPc, workerVars, faults, frameVars>>

(***************************************************************************)
(* mark_read: the first call makes the row READ and sets destruct_at if a  *)
(* timer is asked for and none is running.                                 *)
(***************************************************************************)
mark_read(m) ==
    /\ m \in Receipted /\ m \in stored
    /\ status' = [status EXCEPT ![m] = "read"]
    /\ destructAt' = [destructAt EXCEPT ![m] =
                        IF status[m] # "read" /\ m \in Timed /\ @ = "none"
                        THEN "pending" ELSE @]
    /\ owed' = owed \cup {<<m, "read">>}
    /\ UNCHANGED <<stored, content, mediaKey, deletedForEveryone, isDestructed, object,
                   window, sendPc, unsendPc, workerVars, faults, frameVars>>

(***************************************************************************)
(* Lines 200-205: the receipt goes to the sender's channel.                *)
(***************************************************************************)
PublishReceipt(r) ==
    /\ r \in owed
    /\ owed' = owed \ {r}
    /\ receipts' = receipts \cup {m \in Messages : r = <<m, "read">>}
    /\ UNCHANGED <<rowVars, object, window, sendPc, unsendPc, workerVars, faults,
                   framed, retracted, expired>>

ReceiptLost(r) ==
    /\ r \in owed
    /\ Fault
    /\ owed' = owed \ {r}
    /\ UNCHANGED <<rowVars, object, window, sendPc, unsendPc, workerVars, frameVars>>

(***************************************************************************)
(* The HTTP endpoints of app/api/routes/receipts.py make the same two      *)
(* calls, for the recipient only, and publish frames of other types.       *)
(***************************************************************************)
mark_message_delivered(m) == mark_delivered(m)
mark_message_read(m) == mark_read(m)
broadcast_delivered(m) == PublishReceipt(<<m, "delivered">>)
broadcast_read(m) == PublishReceipt(<<m, "read">>)

-----------------------------------------------------------------------------
(***************************************************************************)
(* Unsend: _handle_frame lines 209-224 and unsend_message.  A message of   *)
(* somebody else or past the window is refused without any effect.         *)
(***************************************************************************)
UnsendLoad(m) ==
    /\ unsendPc[m] = "idle"
    /\ m \in stored /\ m \in window
    /\ unsendPc' = [unsendPc EXCEPT ![m] = "loaded"]
    /\ UNCHANGED <<rowVars, object, window, sendPc, owed, workerVars, faults, frameVars>>

\* The tombstone is set but the content stays.
UnsendCommitKeepsContent(m) ==
    /\ unsendPc[m] = "loaded"
    /\ mediaKey' = mediaKey \ {m}
    /\ deletedForEveryone' = deletedForEveryone \cup {m}
    /\ unsendPc' = [unsendPc EXCEPT ![m] = "peer"]
    /\ UNCHANGED <<stored, content, status, destructAt, isDestructed, object, window,
                   sendPc, owed, workerVars, faults, frameVars>>

(***************************************************************************)
(* Ciphertext and media pointers are wiped, the tombstone is committed;    *)
(* MinIO is not called.                                                    *)
(***************************************************************************)
UnsendCommit(m) ==
    /\ unsendPc[m] = "loaded"
    /\ content' = content \ {m}
    /\ mediaKey' = mediaKey \ {m}
    /\ deletedForEveryone' = deletedForEveryone \cup {m}
    /\ unsendPc' = [unsendPc EXCEPT ![m] = "peer"]
    /\ UNCHANGED <<stored, status, destructAt, isDestructed, object, window,
                   sendPc, owed, workerVars, faults, frameVars>>

(***************************************************************************)
(* Lines 220-223: the unsend frame, to the recipient and then the sender.  *)
(***************************************************************************)
UnsendPublish(m) ==
    /\ unsendPc[m] \in {"peer", "self"}
    /\ unsendPc' = [unsendPc EXCEPT ![m] = IF @ = "peer" THEN "self" ELSE "idle"]
    /\ retracted' = retracted \cup {m}
    /\ UNCHANGED <<rowVars, object, window, sendPc, owed, workerVars, faults,
                   framed, expired, receipts>>

UnsendDies(m) ==
    /\ unsendPc[m] # "idle"
    /\ Fault
    /\ unsendPc' = [unsendPc EXCEPT ![m] = "idle"]
    /\ UNCHANGED <<rowVars, object, window, sendPc, owed, workerVars, frameVars>>

-----------------------------------------------------------------------------
(***************************************************************************)
(* The sweep: sweep_once of worker w.                                      *)
(***************************************************************************)

\* Rows that were unsent are left out of the sweep.
ExpiredSkipsUnsent ==
    {m \in stored \ (isDestructed \cup deletedForEveryone) : destructAt[m] = "due"}

\* The WHERE clause of lines 69-73.
Expired == {m \in stored \ isDestructed : destructAt[m] = "due"}

\* Lines 66-75: any rows that are due, as many as the limit allows.
SweepSelect(w) ==
    /\ wpc[w] = "sleep"
    /\ \E rows \in SUBSET Expired :
         /\ rows # {}
         /\ \/ rows = Expired /\ Cardinality(rows) <= BATCH_SIZE
            \/ Cardinality(rows) = BATCH_SIZE
         /\ batch' = [batch EXCEPT ![w] = rows]
         /\ keySeen' = [keySeen EXCEPT ![w] = rows \cap mediaKey]
    /\ wpc' = [wpc EXCEPT ![w] = "each"]
    /\ UNCHANGED <<rowVars, object, window, sendPc, unsendPc, owed, wiped, current, faults,
                   frameVars>>

(***************************************************************************)
(* Lines 77-107: the media object of the row, if it had one when it was    *)
(* selected, is deleted; the row is wiped in the session.                  *)
(***************************************************************************)
SweepWipe(w, m) ==
    /\ wpc[w] = "each" /\ m \in batch[w]
    /\ object' = object \ ({m} \cap keySeen[w])
    /\ batch' = [batch EXCEPT ![w] = @ \ {m}]
    /\ wiped' = [wiped EXCEPT ![w] = @ \cup {m}]
    /\ current' = [current EXCEPT ![w] = {m}]
    /\ wpc' = [wpc EXCEPT ![w] = "publish"]
    /\ UNCHANGED <<rowVars, window, sendPc, unsendPc, owed, keySeen, faults, frameVars>>

\* The row is wiped although its object could not be deleted.
SweepDeleteFailsWipes(w, m) ==
    /\ wpc[w] = "each" /\ m \in batch[w] /\ m \in keySeen[w]
    /\ Fault
    /\ batch' = [batch EXCEPT ![w] = @ \ {m}]
    /\ wiped' = [wiped EXCEPT ![w] = @ \cup {m}]
    /\ UNCHANGED <<rowVars, object, window, sendPc, unsendPc, owed, wpc, keySeen, current,
                   frameVars>>

(***************************************************************************)
(* Lines 83-91: MinIO refuses; the row is left for the next sweep.         *)
(***************************************************************************)
SweepDeleteFails(w, m) ==
    /\ wpc[w] = "each" /\ m \in batch[w] /\ m \in keySeen[w]
    /\ Fault
    /\ batch' = [batch EXCEPT ![w] = @ \ {m}]
    /\ UNCHANGED <<rowVars, object, window, sendPc, unsendPc, owed, wpc, keySeen, wiped,
                   current, frameVars>>

\* Only the log says that the message is gone.
SweepPublishSkips(w) ==
    /\ wpc[w] = "publish"
    /\ current' = [current EXCEPT ![w] = {}]
    /\ wpc' = [wpc EXCEPT ![w] = "each"]
    /\ UNCHANGED <<rowVars, object, window, sendPc, unsendPc, owed, batch, keySeen, wiped,
                   faults, frameVars>>

(***************************************************************************)
(* Lines 109-113: the unsend frame to both parties, before the commit.     *)
(***************************************************************************)
SweepPublish(w) ==
    /\ wpc[w] = "publish"
    /\ expired' = expired \cup current[w]
    /\ current' = [current EXCEPT ![w] = {}]
    /\ wpc' = [wpc EXCEPT ![w] = "each"]
    /\ UNCHANGED <<rowVars, object, window, sendPc, unsendPc, owed, batch, keySeen, wiped,
                   faults, framed, retracted, receipts>>

Sleep(w) ==
    /\ wpc' = [wpc EXCEPT ![w] = "sleep"]
    /\ batch' = [batch EXCEPT ![w] = {}]
    /\ keySeen' = [keySeen EXCEPT ![w] = {}]
    /\ wiped' = [wiped EXCEPT ![w] = {}]
    /\ current' = [current EXCEPT ![w] = {}]

(***************************************************************************)
(* Line 115: one commit for the batch, the audit rows included.            *)
(***************************************************************************)
SweepCommit(w) ==
    /\ wpc[w] = "each" /\ batch[w] = {}
    /\ content' = content \ wiped[w]
    /\ mediaKey' = mediaKey \ wiped[w]
    /\ isDestructed' = isDestructed \cup wiped[w]
    /\ Sleep(w)
    /\ UNCHANGED <<stored, status, destructAt, deletedForEveryone, object, window,
                   sendPc, unsendPc, owed, faults, frameVars>>

(***************************************************************************)
(* A publish (perhaps the second one of the two) or the commit raises, or  *)
(* the replica crashes: the session is rolled back, what MinIO deleted     *)
(* stays deleted, and the worker sleeps until its next sweep.              *)
(***************************************************************************)
SweepFails(w) ==
    /\ wpc[w] # "sleep"
    /\ Fault
    /\ expired' \in {expired, expired \cup current[w]}
    /\ Sleep(w)
    /\ UNCHANGED <<rowVars, object, window, sendPc, unsendPc, owed,
                   framed, retracted, receipts>>

-----------------------------------------------------------------------------
(***************************************************************************)
(* Time: a timer runs out, a message outlives UNSEND_WINDOW.               *)
(***************************************************************************)
TimerRunsOut(m) ==
    /\ destructAt[m] = "pending"
    /\ destructAt' = [destructAt EXCEPT ![m] = "due"]
    /\ UNCHANGED <<stored, content, mediaKey, status, deletedForEveryone, isDestructed,
                   object, window, sendPc, unsendPc, owed, workerVars, faults,
                   frameVars>>

WindowCloses(m) ==
    /\ m \in stored /\ m \in window
    /\ window' = window \ {m}
    /\ UNCHANGED <<rowVars, object, sendPc, unsendPc, owed, workerVars, faults, frameVars>>

SweepStep(w) ==
    \/ SweepSelect(w) \/ SweepPublish(w) \/ SweepCommit(w)
    \/ \E m \in Messages : SweepWipe(w, m)

Next ==
    \/ \E m \in Messages :
         \/ save_message(m) \/ Notify(m) \/ Ack(m) \/ PublishMessage(m) \/ SendDies(m)
         \/ mark_delivered(m) \/ mark_read(m)
         \/ mark_message_delivered(m) \/ broadcast_delivered(m)
         \/ mark_message_read(m) \/ broadcast_read(m)
         \/ UnsendLoad(m) \/ UnsendCommit(m) \/ UnsendPublish(m) \/ UnsendDies(m)
         \/ TimerRunsOut(m) \/ WindowCloses(m)
    \/ \E r \in Receipts : PublishReceipt(r) \/ ReceiptLost(r)
    \/ \E w \in Workers : \/ SweepStep(w) \/ SweepFails(w)
                          \/ \E m \in Messages : SweepDeleteFails(w, m)

(***************************************************************************)
(* A worker never stops: _run catches every exception and sweeps again.    *)
(* Nothing else is required to happen.                                     *)
(***************************************************************************)
Spec == Init /\ [][Next]_vars
FairSpec == Spec /\ \A w \in Workers : WF_vars(SweepStep(w))

-----------------------------------------------------------------------------
(***************************************************************************)
(* message_history: rows that are not destructed; those with content show  *)
(* it.                                                                     *)
(***************************************************************************)
message_history == {m \in stored \ isDestructed : m \in content}

(***************************************************************************)
(* "a crash between them can never produce a message the recipient saw but *)
(* the DB lost": a message whose frame went out is stored, whatever failed *)
(* on the way.                                                             *)
(***************************************************************************)
SeenIsStored == framed \subseteq stored

(***************************************************************************)
(* Once the unsend frame of a user's unsend is out, a client that fetches  *)
(* history again does not get the message back.                            *)
(***************************************************************************)
RetractedNotInHistory == retracted \cap message_history = {}

(***************************************************************************)
(* Destruction is complete and leaves no file behind: a row marked         *)
(* is_destructed has no content and no media key, and its object is gone   *)
(* from MinIO unless an unsend had taken the key away before; a row still  *)
(* queued keeps its key while its object exists.                           *)
(***************************************************************************)
DestructionIsComplete ==
    /\ isDestructed \cap (content \cup mediaKey) = {}
    /\ (object \cap stored) \ mediaKey \subseteq deletedForEveryone

(***************************************************************************)
(* No message is wiped behind the clients' backs: when is_destructed is    *)
(* committed, both parties have been sent the unsend frame.                *)
(***************************************************************************)
WipedIsAnnounced == isDestructed \subseteq expired

(***************************************************************************)
(* A due message is destructed in the end, and so is one whose unsend      *)
(* frame went out in a sweep that failed later: failures, a batch limit    *)
(* smaller than the queue and other workers only delay it.                 *)
(***************************************************************************)
EventuallyDestructed ==
    \A m \in Messages :
        (destructAt[m] = "due" \/ m \in expired) ~> (m \in isDestructed)

(***************************************************************************)
(* A read receipt is true: the row it is about says READ, also when the    *)
(* message has been unsent or destructed meanwhile.                        *)
(***************************************************************************)
ReadReceiptIsTrue ==
    \A m \in receipts : m \in stored /\ status[m] = "read"

-----------------------------------------------------------------------------
(***************************************************************************)
(* "a burn-after-reading message gets its `destruct_at` set at read time"  *)
(* (README_Sprint2.md:85-86): no message is destructed before it is read.  *)
(***************************************************************************)
BurnsOnlyAfterRead == \A m \in isDestructed : status[m] = "read"
=============================================================================
