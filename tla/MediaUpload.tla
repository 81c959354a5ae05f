----------------------------- MODULE MediaUpload -----------------------------
(***************************************************************************)
(* One chunked upload: upload_init, upload_chunk, upload_status and        *)
(* upload_complete of app/api/routes/media.py over the staging area of     *)
(* app/services/storage_service.py, driven by MediaService.upload of the   *)
(* client, which may lose its connection and resume.                       *)
(*                                                                         *)
(* A handler runs one Redis command or one MinIO request at a time and     *)
(* goes on when its client has gone.  The bytes of a chunk are what its    *)
(* sender cut out of the file: chunk i cut with size s is the bytes i * s  *)
(* to min((i + 1) * s, size), so a staged chunk is represented by s.       *)
(***************************************************************************)
EXTENDS Integers, Sequences, FiniteSets, FiniteSetsExt

CONSTANTS
    CHUNK_SIZE,     \* bytes in a chunk
    Sizes,          \* file sizes, of which the upload has one
    MaxRequests,    \* handlers at work at one time (bound)
    MaxAttempts     \* calls of MediaService.upload (bound)

ASSUME MediaAssumption ==
    /\ CHUNK_SIZE \in Nat \ {0} /\ Sizes \subseteq Nat \ {0}
    /\ MaxRequests \in Nat \ {0} /\ MaxAttempts \in Nat \ {0}

VARIABLES
    size,       \* total_size
    stateKey,   \* whether upload:{id} exists
    received,   \* upload:chunks:{id}
    staging,    \* staging[i]: the cut of staging/{id}/{i}, 0 if there is none
    stored,     \* the media objects stored, each as the cuts of its chunks
    req,        \* req[r]: the handler in slot r
    client,     \* the running call of MediaService.upload
    attempts,   \* calls of MediaService.upload so far
    seen        \* history: what has disturbed the upload

vars == <<size, stateKey, received, staging, stored, req, client, attempts, seen>>
redisVars == <<stateKey, received>>

Requests == 1 .. MaxRequests
NoChunk == -1                       \* the request is a complete
Free == [pc |-> "free", chunk |-> NoChunk, cut |-> 0, parts |-> <<>>, length |-> 0]
Ceil(a, b) == (a + b - 1) \div b
TotalChunks == Ceil(size, CHUNK_SIZE)
Chunks == 0 .. TotalChunks - 1
\* The chunk size a resumed upload works out from the number of chunks.
ResumeCut == Ceil(size, TotalChunks)
Cuts == {CHUNK_SIZE, ResumeCut}

PartStart(i, cut) == i * cut
PartEnd(i, cut) == Min({(i + 1) * cut, size})
PartLength(i, cut) == PartEnd(i, cut) - PartStart(i, cut)
Completing(r) == req[r].pc # "free" /\ req[r].chunk = NoChunk

TypeOK ==
    /\ size \in Sizes /\ stateKey \in BOOLEAN /\ received \subseteq Chunks
    /\ staging \in [Chunks -> {0} \cup Cuts] /\ stored \in Seq(Seq(Cuts))
    /\ req \in [Requests -> [pc : {"free", "get", "stage", "sadd", "members",
                                   "fetch", "discard", "store", "clean", "del"},
                             chunk : Chunks \cup {NoChunk}, cut : {0} \cup Cuts,
                             parts : Seq(Cuts), length : Int]]
    /\ client \in [pc : {"start", "idle", "status", "send", "wait", "done"},
                   cut : {0} \cup Cuts, todo : SUBSET Chunks, req : Requests \cup {0}]
    /\ attempts \in 0 .. MaxAttempts
    /\ seen \subseteq {"overlap", "lost", "deleted", "disturbed"}

Init ==
    /\ size \in Sizes
    /\ stateKey = FALSE /\ received = {} /\ stored = <<>>
    /\ staging = [i \in Chunks |-> 0]
    /\ req = [r \in Requests |-> Free]
    /\ client = [pc |-> "start", cut |-> 0, todo |-> {}, req |-> 0]
    /\ attempts = 0 /\ seen = {}

-----------------------------------------------------------------------------
(***************************************************************************)
(* The first call of upload: POST init, one SET with a life of 24 h.       *)
(***************************************************************************)
upload_init ==
    /\ client.pc = "start"
    /\ stateKey' = TRUE /\ attempts' = 1
    /\ client' = [client EXCEPT !.pc = "send", !.cut = CHUNK_SIZE, !.todo = Chunks]
    /\ UNCHANGED <<size, received, staging, stored, req, seen>>

(***************************************************************************)
(* upload with resumeUploadId: GET status, the GET of the state ...        *)
(***************************************************************************)
Resume ==
    /\ client.pc = "idle" /\ attempts < MaxAttempts
    /\ attempts' = attempts + 1
    /\ client' = [client EXCEPT !.pc = IF stateKey THEN "status" ELSE "idle"]
    /\ UNCHANGED <<size, redisVars, staging, stored, req, seen>>

(***************************************************************************)
(* ... and the SMEMBERS; the client cuts the file anew and leaves out the  *)
(* chunks the server reports.                                              *)
(***************************************************************************)
upload_status ==
    /\ client.pc = "status"
    /\ client' = [client EXCEPT !.pc = "send", !.cut = ResumeCut, !.todo = Chunks \ received]
    /\ seen' = seen \cup (IF ResumeCut # CHUNK_SIZE THEN {"disturbed"} ELSE {})
    /\ UNCHANGED <<size, redisVars, staging, stored, req, attempts>>

\* The client sends the lowest chunk left, or complete, and waits.
Send(r) ==
    /\ client.pc = "send" /\ req[r].pc = "free"
    /\ \A q \in 1 .. r - 1 : req[q].pc # "free"
    /\ \E chunk \in IF client.todo = {} THEN {NoChunk} ELSE client.todo :
       /\ \A i \in client.todo : chunk <= i
       /\ req' = [req EXCEPT ![r] = [Free EXCEPT !.pc = "get", !.chunk = chunk, !.cut = client.cut]]
       /\ client' = [client EXCEPT !.pc = "wait", !.req = r]
       /\ seen' = seen \cup (IF chunk = NoChunk /\ \E q \in Requests : Completing(q)
                             THEN {"overlap"} ELSE {})
    /\ UNCHANGED <<size, redisVars, staging, stored, attempts>>

\* The connection drops; the handler does not notice.
Drop ==
    /\ client.pc = "wait"
    /\ client' = [client EXCEPT !.pc = "idle", !.req = 0]
    /\ seen' = seen \cup (IF req[client.req].chunk = NoChunk \/ attempts = MaxAttempts
                          THEN {"disturbed"} ELSE {})
    /\ UNCHANGED <<size, redisVars, staging, stored, req, attempts>>

-----------------------------------------------------------------------------
Goto(r, pc) == req' = [req EXCEPT ![r].pc = pc] /\ UNCHANGED client

(***************************************************************************)
(* The handler in r is over: its client, if it still waits, goes on to the *)
(* next request, or gives up on an error.                                  *)
(***************************************************************************)
Answer(r, ok) ==
    /\ req' = [req EXCEPT ![r] = Free]
    /\ client' = IF client.req # r THEN client
                 ELSE [client EXCEPT !.req = 0, !.todo = IF ok THEN @ \ {req[r].chunk} ELSE @,
                                     !.pc = CASE ~ok -> "idle"
                                              [] ok /\ req[r].chunk = NoChunk -> "done"
                                              [] OTHER -> "send"]

\* The index and the size of a chunk are checked before it is staged.
ValidChunk(r) ==
    req[r].chunk \in Chunks /\ PartLength(req[r].chunk, req[r].cut) \in 1 .. CHUNK_SIZE

(***************************************************************************)
(* Both endpoints start with GET upload:{id} and answer 404 without it.    *)
(***************************************************************************)
_load_state(r) ==
    /\ req[r].pc = "get"
    /\ IF stateKey /\ (req[r].chunk = NoChunk \/ ValidChunk(r))
       THEN Goto(r, IF req[r].chunk = NoChunk THEN "members" ELSE "stage")
       ELSE Answer(r, FALSE)
    /\ UNCHANGED <<size, redisVars, staging, stored, attempts, seen>>

\* The chunk is reported before it is staged.
put_staging_chunkReportsFirst(r) ==
    /\ req[r].pc = "stage"
    /\ received' = received \cup {req[r].chunk}
    /\ Goto(r, "sadd")
    /\ UNCHANGED <<size, stateKey, staging, stored, attempts, seen>>

\* upload_chunk line 142.
put_staging_chunk(r) ==
    /\ req[r].pc = "stage"
    /\ staging' = [staging EXCEPT ![req[r].chunk] = req[r].cut]
    /\ Goto(r, "sadd")
    /\ UNCHANGED <<size, redisVars, stored, attempts, seen>>

(***************************************************************************)
(* upload_chunk lines 143-144: SADD, and EXPIRE, which keeps the set at    *)
(* least as long as the state.                                             *)
(***************************************************************************)
upload_chunk(r) ==
    /\ req[r].pc = "sadd"
    /\ received' = received \cup {req[r].chunk}
    /\ Answer(r, TRUE)
    /\ UNCHANGED <<size, stateKey, staging, stored, attempts, seen>>

\* One chunk more than there are is expected.
CheckMissingOneMore(r) ==
    /\ req[r].pc = "members"
    /\ IF 0 .. TotalChunks \subseteq received THEN Goto(r, "fetch") ELSE Answer(r, FALSE)
    /\ UNCHANGED <<size, redisVars, staging, stored, attempts, seen>>

\* upload_complete lines 174-182: SMEMBERS, 409 while a chunk is missing.
CheckMissing(r) ==
    /\ req[r].pc = "members"
    /\ IF Chunks \subseteq received THEN Goto(r, "fetch") ELSE Answer(r, FALSE)
    /\ UNCHANGED <<size, redisVars, staging, stored, attempts, seen>>

\* The length of what was assembled is not compared with total_size.
AfterAssembleUnchecked(parts, length) == IF Len(parts) < TotalChunks THEN "fetch" ELSE "store"

\* upload_complete line 185.
AfterAssemble(parts, length) ==
    CASE Len(parts) < TotalChunks -> "fetch"
      [] Len(parts) >= TotalChunks /\ length = size -> "store"
      [] OTHER -> "discard"

(***************************************************************************)
(* One get_object of assemble_staging, whose bytes join the others; a      *)
(* chunk that is gone raises NoSuchKey, which ends the handler.            *)
(***************************************************************************)
assemble_staging(r) ==
    LET index == Len(req[r].parts)
        cut == staging[index]
        parts == Append(req[r].parts, cut)
        length == req[r].length + PartLength(index, cut)
    IN /\ req[r].pc = "fetch"
       /\ IF cut = 0 THEN Answer(r, FALSE)
          ELSE /\ req' = [req EXCEPT ![r].parts = parts, ![r].length = length,
                                     ![r].pc = AfterAssemble(parts, length)]
               /\ UNCHANGED client
       /\ UNCHANGED <<size, redisVars, staging, stored, attempts, seen>>

(***************************************************************************)
(* Lines 189-209: the assembled bytes, recompressed if they are a large    *)
(* image, become an object under a fresh key.                              *)
(***************************************************************************)
put_object(r) ==
    /\ req[r].pc = "store"
    /\ stored' = Append(stored, req[r].parts)
    /\ Goto(r, "clean")
    /\ UNCHANGED <<size, redisVars, staging, attempts, seen>>

(***************************************************************************)
(* One delete_object of delete_staging; after the last, a complete goes on *)
(* to line 211 and a size mismatch is answered 400.                        *)
(***************************************************************************)
delete_staging(r) ==
    LET left == req[r].parts
    IN /\ req[r].pc \in {"discard", "clean"}
       /\ staging' = [staging EXCEPT ![TotalChunks - Len(left)] = 0]
       /\ seen' = seen \cup {"deleted"}
       /\ IF Len(left) > 1
          THEN req' = [req EXCEPT ![r].parts = Tail(left)] /\ UNCHANGED client
          ELSE IF req[r].pc = "clean"
          THEN req' = [req EXCEPT ![r].parts = <<>>, ![r].pc = "del"] /\ UNCHANGED client
          ELSE Answer(r, FALSE)
       /\ UNCHANGED <<size, redisVars, stored, attempts>>

\* The state key stays.
upload_completeKeepsState(r) ==
    /\ req[r].pc = "del"
    /\ received' = {}
    /\ Answer(r, TRUE)
    /\ UNCHANGED <<size, stateKey, staging, stored, attempts, seen>>

\* upload_complete line 211: DEL of both keys.
upload_complete(r) ==
    /\ req[r].pc = "del"
    /\ stateKey' = FALSE /\ received' = {}
    /\ Answer(r, TRUE)
    /\ UNCHANGED <<size, staging, stored, attempts, seen>>

\* The process dies, or MinIO or Redis fails, in the middle of a handler.
Fail(r) ==
    /\ req[r].pc # "free"
    /\ Answer(r, FALSE)
    /\ seen' = seen \cup {"disturbed"} \cup (IF req[r].pc \in {"clean", "del"} THEN {"lost"} ELSE {})
    /\ UNCHANGED <<size, redisVars, staging, stored, attempts>>

\* 24 h after init; the chunk set, refreshed by every chunk, lives longer.
Expire ==
    /\ stateKey \/ received # {}
    /\ stateKey' = FALSE
    /\ received' = IF stateKey THEN received ELSE {}
    /\ seen' = seen \cup {"disturbed"}
    /\ UNCHANGED <<size, staging, stored, req, client, attempts>>

HandlerStep(r) ==
    \/ _load_state(r) \/ put_staging_chunk(r) \/ upload_chunk(r) \/ CheckMissing(r)
    \/ assemble_staging(r) \/ put_object(r) \/ delete_staging(r) \/ upload_complete(r)

ClientStep == upload_init \/ Resume \/ upload_status \/ \E r \in Requests : Send(r)

Next ==
    \/ ClientStep \/ Drop \/ Expire
    \/ \E r \in Requests : HandlerStep(r) \/ Fail(r)

(***************************************************************************)
(* A handler that is not interrupted runs on, and the user retries.        *)
(***************************************************************************)
Fairness == WF_vars(ClientStep) /\ \A r \in Requests : WF_vars(HandlerStep(r))

Spec == Init /\ [][Next]_vars
FairSpec == Spec /\ Fairness

-----------------------------------------------------------------------------
(***************************************************************************)
(* A stored object is the file: its chunks follow each other without gap   *)
(* or overlap, although chunks of two cuts and of two attempts meet in the *)
(* staging area while upload_complete reads it.  Line 185 compares nothing *)
(* but the length, and no mix of the two cuts has the length of the file.  *)
(***************************************************************************)
StoredIsTheFile ==
    \A p \in 1 .. Len(stored) : \A i \in Chunks :
        LET end == PartEnd(i, stored[p][i + 1])
        IN IF i = TotalChunks - 1 THEN end = size ELSE end = PartStart(i + 1, stored[p][i + 2])

(***************************************************************************)
(* The upload is stored once, unless two completes ran at the same time or *)
(* one was lost between storing the object and deleting the state.         *)
(***************************************************************************)
StoredOnce == Len(stored) <= 1 \/ seen \cap {"overlap", "lost"} # {}

(***************************************************************************)
(* What status reports and complete relies on is in the staging area,      *)
(* until some complete has begun to delete it: SADD follows the PUT.       *)
(***************************************************************************)
ReportedIsStaged == "deleted" \in seen \/ \A i \in received : staging[i] # 0

(***************************************************************************)
(* An upload completes, over dropped chunk requests and their late         *)
(* handlers, unless a handler failed, the state expired, the connection    *)
(* dropped during complete or for good, or a resume cut the file anew.     *)
(***************************************************************************)
Completes == <>(client.pc = "done" \/ "disturbed" \in seen)
=============================================================================
