------------------------------ MODULE OcrAlerts ------------------------------
(***************************************************************************)
(* Keyword alerts of one user: the keyword set of app/redis.py, the        *)
(* background task _process_ocr of app/api/routes/media.py with the        *)
(* listener of ws_manager.py that turns its PUBLISH into frames, and       *)
(* process_ocr of backend/app/api/routes/media.py, which reads the same    *)
(* set, keeps a history of alerts in Redis and sends them itself.          *)
(*                                                                         *)
(* Tasks run in threads or coroutines of several processes, one Redis      *)
(* command at a time.  Every file here contains every keyword: a file      *)
(* without one never goes beyond the keyword check.                        *)
(***************************************************************************)
EXTENDS Integers, Sequences, FiniteSets, FiniteSetsExt

CONSTANTS
    Files,      \* files whose text is searched
    Keywords,   \* keywords the user may set
    Setters,    \* requests that replace the set
    Conns,      \* connections of the user in ws:user:{id}; none comes or goes
    Replicas,   \* API processes, each with one listener
    Host,       \* Host[c]: the process that holds the socket of c
    OCR_ALERT_HISTORY_LIMIT

ASSUME OcrAssumption ==
    /\ OCR_ALERT_HISTORY_LIMIT \in Nat \ {0} /\ Host \in [Conns -> Replicas]
    /\ IsFiniteSet(Files) /\ Files \cap {"none", "off", "dead"} = {}

VARIABLES
    backend,    \* files that went to the older backend
    keywords,   \* user:{id}:ocr_keywords
    wanted,     \* the set the last request asked for
    setter,     \* setter[s]: a replacement at work
    task,       \* task[f]: the background task of f
    temp,       \* files whose temporary copy exists
    history,    \* user:{id}:ocr_alerts, newest first
    listener,   \* listener[r]: the alert it is sending, and to whom still
    inbox,      \* inbox[r]: alerts published to the listener of r
    reached,    \* reached[f]: connections that were sent the frame
    missed,     \* history: missed[f], connections cut off from the alert of
                \*   f by a failure in their own process
    mishap,     \* history: mishap[f], what befell the task of f
    excused     \* history: "set" if the last replacements overlapped or one
                \*   was cut short, "trim" likewise for a history entry

taskVars == <<task, temp, history, mishap>>
setVars == <<keywords, wanted, setter>>
frameVars == <<listener, inbox, reached, missed>>
ocrVars == <<backend, setVars, taskVars, frameVars, excused>>

Idle == [pc |-> "idle", new |-> {}]
Quiet == [file |-> "none", to |-> {}]
Off == [file |-> "off", to |-> {}]
Dead == [file |-> "dead", to |-> {}]

OcrTypeOK ==
    /\ backend \subseteq Files
    /\ keywords \subseteq Keywords /\ wanted \subseteq Keywords
    /\ setter \in [Setters -> [pc : {"idle", "sadd"}, new : SUBSET Keywords]]
    /\ task \in [Files -> {"none", "read", "publish", "lpush", "ltrim", "send", "remove", "done"}]
    /\ temp \subseteq Files
    /\ history \in Seq(Files)
    /\ listener \in [Replicas -> [file : Files \cup {"none", "off", "dead"}, to : SUBSET Conns]]
    /\ inbox \in [Replicas -> SUBSET Files]
    /\ reached \in [Files -> SUBSET Conns] /\ missed \in [Files -> SUBSET Conns]
    /\ mishap \in [Files -> SUBSET {"create", "write", "empty", "task", "unlink"}]
    /\ excused \subseteq {"set", "trim"}

OcrInit ==
    /\ backend \in SUBSET Files
    /\ keywords = {} /\ wanted = {} /\ setter = [s \in Setters |-> Idle]
    /\ task = [f \in Files |-> "none"] /\ temp = {} /\ history = <<>>
    /\ listener = [r \in Replicas |-> Off] /\ inbox = [r \in Replicas |-> {}]
    /\ reached = [f \in Files |-> {}] /\ missed = [f \in Files |-> {}]
    /\ mishap = [f \in Files |-> {}] /\ excused = {}

-----------------------------------------------------------------------------
(***************************************************************************)
(* A DEL made while no other replacement is between its DEL and its SADD   *)
(* makes up for everything before it; any other one may mix two sets.      *)
(***************************************************************************)
AfterDel == IF \E q \in Setters : setter[q].pc = "sadd" THEN excused \cup {"set"}
            ELSE excused \ {"set"}

\* New keywords are added to the old ones.
set_user_keywordsAdds(s, new) ==
    /\ setter[s].pc = "idle"
    /\ wanted' = new
    /\ setter' = [setter EXCEPT ![s] = [pc |-> "sadd", new |-> new]]
    /\ excused' = AfterDel
    /\ UNCHANGED <<backend, keywords, taskVars, frameVars>>

(***************************************************************************)
(* set_user_keywords line 47: DEL ...                                      *)
(***************************************************************************)
set_user_keywords(s, new) ==
    /\ setter[s].pc = "idle"
    /\ keywords' = {} /\ wanted' = new
    /\ setter' = [setter EXCEPT ![s] = [pc |-> "sadd", new |-> new]]
    /\ excused' = AfterDel
    /\ UNCHANGED <<backend, taskVars, frameVars>>

(***************************************************************************)
(* ... which fails: lines 51-53 catch it, the old set stays, and           *)
(* set_ocr_keywords answers the new list all the same.                     *)
(***************************************************************************)
DelFails(s, new) ==
    /\ setter[s].pc = "idle"
    /\ wanted' = new
    /\ excused' = excused \cup {"set"}
    /\ UNCHANGED <<backend, keywords, setter, taskVars, frameVars>>

(***************************************************************************)
(* ... and lines 48-49: SADD of the new ones, if there are any.            *)
(***************************************************************************)
AddKeywords(s) ==
    /\ setter[s].pc = "sadd"
    /\ keywords' = keywords \cup setter[s].new
    /\ setter' = [setter EXCEPT ![s] = Idle]
    /\ UNCHANGED <<backend, wanted, taskVars, frameVars, excused>>

\* Lines 51-53: the SADD fails, and the old set is gone.
AddKeywordsFails(s) ==
    /\ setter[s].pc = "sadd" /\ setter[s].new # {}
    /\ setter' = [setter EXCEPT ![s] = Idle]
    /\ excused' = excused \cup {"set"}
    /\ UNCHANGED <<backend, keywords, wanted, taskVars, frameVars>>

-----------------------------------------------------------------------------
GotoTask(f, pc) == task' = [task EXCEPT ![f] = pc]
Befalls(f, what) == mishap' = [mishap EXCEPT ![f] = @ \cup what]

(***************************************************************************)
(* The temporary copy: _process_ocr writes it itself, for the older        *)
(* backend upload_media does and then schedules process_ocr.  The text is  *)
(* extracted from it.                                                      *)
(***************************************************************************)
upload_media(f) ==
    /\ task[f] = "none"
    /\ GotoTask(f, "read") /\ temp' = temp \cup {f}
    /\ UNCHANGED <<backend, setVars, history, mishap, frameVars, excused>>

\* The file cannot be created: both give up.
CreateFails(f) ==
    /\ task[f] = "none"
    /\ GotoTask(f, "done") /\ Befalls(f, {"create"})
    /\ UNCHANGED <<backend, setVars, temp, history, frameVars, excused>>

\* The write fails: both give up as well, and the file is there.
WriteFails(f) ==
    /\ task[f] = "none"
    /\ GotoTask(f, "done") /\ Befalls(f, {"write"}) /\ temp' = temp \cup {f}
    /\ UNCHANGED <<backend, setVars, history, frameVars, excused>>

(***************************************************************************)
(* SMEMBERS of the keywords; without one, or without a match, nothing is   *)
(* left to do.  The debounce key of the backend is made of the file's new  *)
(* id, so its EXISTS is never true.                                        *)
(***************************************************************************)
get_user_keywords(f) ==
    /\ task[f] = "read"
    /\ GotoTask(f, CASE keywords = {} -> "remove" [] f \in backend -> "lpush" [] OTHER -> "publish")
    /\ Befalls(f, IF keywords = {} THEN {"empty"} ELSE {})
    /\ UNCHANGED <<backend, setVars, temp, history, frameVars, excused>>

Local(r) == {c \in Conns : Host[c] = r}
\* The process of c still has the alert of f, and has not sent it to c.
Underway(f, c) == \/ f \in inbox[Host[c]]
                  \/ listener[Host[c]].file = f /\ c \in listener[Host[c]].to
Subscribed(r) == listener[r].file \notin {"off", "dead"}

(***************************************************************************)
(* publish_ocr_alert and set_alert_flag, which nobody reads.  Only the     *)
(* listeners that are subscribed get it.                                   *)
(***************************************************************************)
publish_ocr_alert(f) ==
    /\ task[f] = "publish"
    /\ GotoTask(f, "remove")
    /\ inbox' = [r \in Replicas |-> IF Subscribed(r) THEN inbox[r] \cup {f} ELSE inbox[r]]
    /\ missed' = [missed EXCEPT ![f] = {c \in Conns : ~Subscribed(Host[c])}]
    /\ UNCHANGED <<backend, setVars, temp, history, mishap, listener, reached, excused>>

\* add_ocr_alert line 54.
PushAlert(f) ==
    /\ task[f] = "lpush"
    /\ history' = <<f>> \o history
    /\ GotoTask(f, "ltrim")
    /\ UNCHANGED <<backend, setVars, temp, mishap, frameVars, excused>>

\* One entry more is kept.
TrimOffByOne == SubSeq(history, 1, Min({Len(history), OCR_ALERT_HISTORY_LIMIT + 1}))

Trim == SubSeq(history, 1, Min({Len(history), OCR_ALERT_HISTORY_LIMIT}))

\* Lines 56-58: LTRIM; EXPIRE only renews the life of the list.
TrimHistory(f) ==
    /\ task[f] = "ltrim"
    /\ history' = Trim
    /\ GotoTask(f, "send")
    /\ excused' = excused \ {"trim"}
    /\ UNCHANGED <<backend, setVars, temp, mishap, frameVars>>

(***************************************************************************)
(* process_ocr line 158 calls it; the repository has no such method, so    *)
(* nothing is said here about whom it reaches.                             *)
(***************************************************************************)
send_personal_message(f) ==
    /\ task[f] = "send"
    /\ GotoTask(f, "remove")
    /\ UNCHANGED <<backend, setVars, temp, history, mishap, frameVars, excused>>

\* The temporary copy stays where no keyword was found.
RemoveTempForgets(f) ==
    /\ task[f] = "remove"
    /\ temp' = IF "empty" \in mishap[f] THEN temp ELSE temp \ {f}
    /\ GotoTask(f, "done")
    /\ UNCHANGED <<backend, setVars, history, mishap, frameVars, excused>>

\* _process_ocr lines 337-343, process_ocr lines 160-164.
RemoveTemp(f) ==
    /\ task[f] = "remove"
    /\ temp' = temp \ {f}
    /\ GotoTask(f, "done")
    /\ UNCHANGED <<backend, setVars, history, mishap, frameVars, excused>>

\* The file cannot be removed, and the error is ignored.
RemoveTempFails(f) ==
    /\ task[f] = "remove"
    /\ GotoTask(f, "done") /\ Befalls(f, {"unlink"})
    /\ UNCHANGED <<backend, setVars, temp, history, frameVars, excused>>

(***************************************************************************)
(* A command or a send raises.  _process_ocr cleans up in its finally;     *)
(* process_ocr has none, and leaves the other members unasked too.         *)
(***************************************************************************)
TaskFails(f) ==
    /\ task[f] \in {"read", "publish", "lpush", "ltrim", "send"}
    /\ GotoTask(f, IF f \in backend THEN "done" ELSE "remove") /\ Befalls(f, {"task"})
    /\ excused' = excused \cup (IF task[f] = "ltrim" THEN {"trim"} ELSE {})
    /\ UNCHANGED <<backend, setVars, temp, history, frameVars>>

-----------------------------------------------------------------------------
\* listen_ocr_alerts line 87, some time after the process was started.
Subscribe(r) ==
    /\ listener[r] = Off
    /\ listener' = [listener EXCEPT ![r] = Quiet]
    /\ UNCHANGED <<backend, setVars, taskVars, inbox, reached, missed, excused>>

\* The newest alert is left until another one follows it.
listen_ocr_alertsLags(r, f) ==
    /\ listener[r] = Quiet /\ f \in inbox[r] /\ inbox[r] # {f}
    /\ inbox' = [inbox EXCEPT ![r] = @ \ {f}]
    /\ listener' = [listener EXCEPT ![r] = [file |-> f, to |-> Conns]]
    /\ UNCHANGED <<backend, setVars, taskVars, reached, missed, excused>>

(***************************************************************************)
(* Lines 89-101: the next alert, and the connections of its user ...       *)
(***************************************************************************)
listen_ocr_alerts(r, f) ==
    /\ listener[r] = Quiet /\ f \in inbox[r]
    /\ inbox' = [inbox EXCEPT ![r] = @ \ {f}]
    /\ listener' = [listener EXCEPT ![r] = [file |-> f, to |-> Conns]]
    /\ UNCHANGED <<backend, setVars, taskVars, reached, missed, excused>>

\* ... or the SMEMBERS of line 101 fails, and lines 104-105 drop the alert.
SmembersFails(r, f) ==
    /\ listener[r] = Quiet /\ f \in inbox[r]
    /\ inbox' = [inbox EXCEPT ![r] = @ \ {f}]
    /\ missed' = [missed EXCEPT ![f] = @ \cup Local(r)]
    /\ UNCHANGED <<backend, setVars, taskVars, listener, reached, excused>>

\* The first connection of another process ends the round.
AfterSendLocalFirst(r, c) ==
    IF listener[r].to = {c} \/ Host[c] # r THEN Quiet ELSE [listener[r] EXCEPT !.to = @ \ {c}]

\* send_local line 80 returns, and the loop goes on.
AfterSend(r, c) ==
    IF listener[r].to = {c} THEN Quiet ELSE [listener[r] EXCEPT !.to = @ \ {c}]

(***************************************************************************)
(* Lines 102-103: send_local does nothing for the socket of another        *)
(* process ...                                                             *)
(***************************************************************************)
send_local(r, c) ==
    /\ c \in listener[r].to
    /\ reached' = IF Host[c] = r THEN [reached EXCEPT ![listener[r].file] = @ \cup {c}] ELSE reached
    /\ listener' = [listener EXCEPT ![r] = AfterSend(r, c)]
    /\ UNCHANGED <<backend, setVars, taskVars, inbox, missed, excused>>

\* ... and a socket of its own that fails ends the round for the rest.
send_localFails(r, c) ==
    /\ c \in listener[r].to /\ Host[c] = r
    /\ listener' = [listener EXCEPT ![r] = Quiet]
    /\ missed' = [missed EXCEPT ![listener[r].file] = @ \cup (listener[r].to \cap Local(r))]
    /\ UNCHANGED <<backend, setVars, taskVars, inbox, reached, excused>>

\* An error of the subscription ends the listener; nobody starts it again.
ListenerDies(r) ==
    /\ listener[r].file # "dead"
    /\ listener' = [listener EXCEPT ![r] = Dead]
    /\ inbox' = [inbox EXCEPT ![r] = {}]
    /\ missed' = [f \in Files |-> missed[f] \cup {c \in Local(r) : Underway(f, c)}]
    /\ UNCHANGED <<backend, setVars, taskVars, reached, excused>>

TaskStep(f) ==
    \/ upload_media(f) \/ get_user_keywords(f) \/ publish_ocr_alert(f) \/ PushAlert(f)
    \/ TrimHistory(f) \/ send_personal_message(f) \/ RemoveTemp(f)

TaskMishap(f) == CreateFails(f) \/ WriteFails(f) \/ TaskFails(f) \/ RemoveTempFails(f)

ListenerStep(r) == \/ Subscribe(r)
                   \/ \E f \in Files : listen_ocr_alerts(r, f)
                   \/ \E c \in Conns : send_local(r, c)

ListenerMishap(r) == \/ ListenerDies(r)
                     \/ \E f \in Files : SmembersFails(r, f)
                     \/ \E c \in Conns : send_localFails(r, c)

OcrNext ==
    \/ \E s \in Setters : \/ \E new \in SUBSET Keywords : set_user_keywords(s, new) \/ DelFails(s, new)
                          \/ AddKeywords(s) \/ AddKeywordsFails(s)
    \/ \E f \in Files : TaskStep(f) \/ TaskMishap(f)
    \/ \E r \in Replicas : ListenerStep(r) \/ ListenerMishap(r)

(***************************************************************************)
(* Of the tasks that can go on some does, and of the listeners: less than  *)
(* event loops and threads that run promise of each of them.               *)
(***************************************************************************)
OcrFairness ==
    /\ WF_ocrVars(\E f \in Files : TaskStep(f))
    /\ WF_ocrVars(\E r \in Replicas : ListenerStep(r))

OcrSpec == OcrInit /\ [][OcrNext]_ocrVars
OcrFairSpec == OcrSpec /\ OcrFairness

-----------------------------------------------------------------------------
(***************************************************************************)
(* "Overwrites any existing set" (app/redis.py:40): between replacements   *)
(* the keywords are exactly those the last request asked for, unless, since*)
(* the last DEL that no other replacement overlapped, two of them mixed or *)
(* a DEL or an SADD failed.  One undisturbed replacement makes up for      *)
(* whatever happened before it.                                            *)
(***************************************************************************)
KeywordsAsRequested ==
    (\A s \in Setters : setter[s].pc # "sadd") => keywords = wanted \/ "set" \in excused

(***************************************************************************)
(* The history holds OCR_ALERT_HISTORY_LIMIT alerts, and one more for each *)
(* task between its LPUSH and its LTRIM, unless one failed there since the *)
(* last LTRIM.                                                             *)
(***************************************************************************)
HistoryBounded ==
    \/ "trim" \in excused
    \/ Len(history) <= OCR_ALERT_HISTORY_LIMIT + Cardinality({f \in Files : task[f] = "ltrim"})

(***************************************************************************)
(* A task that is over leaves its temporary copy behind exactly when the   *)
(* write or the removal of that file failed, or, in process_ocr, which has *)
(* no finally, when a step between them raised.  _process_ocr removes it   *)
(* on every other way out: no keyword, no match, an error.                 *)
(***************************************************************************)
Leaves(f) == \/ mishap[f] \cap {"write", "unlink"} # {}
             \/ f \in backend /\ "task" \in mishap[f]
TempRemoved ==
    \A f \in Files : task[f] = "done" => (f \in temp <=> Leaves(f))

(***************************************************************************)
(* No published alert is lost on its way to a connection except by its own *)
(* process: the connection was sent it, or was cut off from it there, or   *)
(* it waits in the subscription of that process, or that process is about  *)
(* to send it.                                                             *)
(***************************************************************************)
Published(f) == f \notin backend /\ task[f] \in {"remove", "done"} /\ mishap[f] \subseteq {"unlink"}
AlertKept ==
    \A f \in Files : Published(f) =>
        \A c \in Conns : c \in reached[f] \cup missed[f] \/ Underway(f, c)

(***************************************************************************)
(* Whenever alerts of _process_ocr are on their way a moment comes at      *)
(* which each has got to every connection of the user, through the         *)
(* listener of the connection's own process.  A listener that is not       *)
(* subscribed, fails or dies costs only the connections of its own process *)
(* it has not sent to; only a task that found no keyword or raised, or had *)
(* no file to search, costs all of them.                                   *)
(***************************************************************************)
Waiting(f) ==
    /\ f \notin backend /\ task[f] # "none"
    /\ mishap[f] \subseteq {"unlink"} /\ reached[f] \cup missed[f] # Conns
AlertArrives == (\E f \in Files : Waiting(f)) ~> (\A f \in Files : ~Waiting(f))
=============================================================================
