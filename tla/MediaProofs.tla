----------------------------- MODULE MediaProofs ----------------------------
(***************************************************************************)
(* Proofs about an uploaded file: first its chunked upload (MediaUpload),  *)
(* for every chunk size, every set of file sizes and every number of       *)
(* handlers and attempts; then the alerts its text raises (OcrAlerts), for *)
(* every finite set of files and every set of keywords, requests,          *)
(* connections and replicas.  The two specifications share no name.        *)
(***************************************************************************)
EXTENDS MediaUpload, OcrAlerts, SequenceTheorems, FiniteSetTheorems, TLAPS

(***************************************************************************)
(* Every part was cut with d; and all of them with the same cut.           *)
(***************************************************************************)
AllOf(parts, d) == \A i \in 1 .. Len(parts) : parts[i] = d
SameCut(parts) == \E d \in Cuts : AllOf(parts, d)

(***************************************************************************)
(* What the length of the first parts says of their cuts: it lies between  *)
(* that of as many small and of as many large chunks, and reaches a bound  *)
(* only if every chunk has that cut.  None of them is the last of the      *)
(* file.                                                                   *)
(***************************************************************************)
LengthFits(parts, length) ==
    LET m == Len(parts)
    IN /\ length <= m * CHUNK_SIZE /\ (length = m * CHUNK_SIZE => AllOf(parts, CHUNK_SIZE))
       /\ length >= m * ResumeCut /\ (length = m * ResumeCut => AllOf(parts, ResumeCut))

(***************************************************************************)
(* What a request has at each of its steps.  assemble_staging leaves parts *)
(* of one cut to the store, or a mismatch to the deletion, which counts    *)
(* the parts down.                                                         *)
(***************************************************************************)
Stage(x) ==
    /\ x.pc # "free" => x.cut \in Cuts
    /\ x.pc \in {"stage", "sadd"} => x.chunk \in Chunks
    /\ x.pc \in {"members", "fetch", "discard", "store", "clean", "del"} => x.chunk = NoChunk
    /\ x.pc \in {"get", "members"} => x.parts = <<>> /\ x.length = 0
    /\ x.pc = "fetch" => Len(x.parts) < TotalChunks /\ LengthFits(x.parts, x.length)
    /\ x.pc = "store" => Len(x.parts) = TotalChunks /\ SameCut(x.parts)
    /\ x.pc \in {"discard", "clean"} => Len(x.parts) \in 1 .. TotalChunks

(***************************************************************************)
(* The types of a request and of the client.                               *)
(***************************************************************************)
Req == [pc : {"free", "get", "stage", "sadd", "members", "fetch", "discard", "store", "clean", "del"},
        chunk : Chunks \cup {NoChunk}, cut : {0} \cup Cuts, parts : Seq(Cuts), length : Int]

Client == [pc : {"start", "idle", "status", "send", "wait", "done"},
           cut : {0} \cup Cuts, todo : SUBSET Chunks, req : Requests \cup {0}]

StageInv == \A r \in Requests : Stage(req[r])

(***************************************************************************)
(* Nothing happens before upload_init, and the client has a cut after it.  *)
(***************************************************************************)
StartInv ==
    /\ client.pc = "start" => stored = <<>> /\ \A r \in Requests : req[r].pc = "free"
    /\ client.pc # "start" => client.cut \in Cuts

(***************************************************************************)
(* Stored objects are complete and of one cut.                             *)
(***************************************************************************)
ObjectInv == \A p \in 1 .. Len(stored) : Len(stored[p]) = TotalChunks /\ SameCut(stored[p])

(***************************************************************************)
(* Without overlap one complete runs at a time.  If none was lost either,  *)
(* a complete that has stored its object is still cleaning up, or has      *)
(* deleted the state, and nothing but a GET that will fail follows it.     *)
(***************************************************************************)
OnceInv ==
    /\ "overlap" \in seen \/ \A q, r \in Requests : Completing(q) /\ Completing(r) => q = r
    /\ seen \cap {"overlap", "lost"} # {} \/
        /\ Len(stored) <= 1
        /\ stored # <<>> =>
             /\ stateKey => \E r \in Requests : req[r].pc \in {"clean", "del"}
             /\ \A r \in Requests : Completing(r) => req[r].pc \in {"clean", "del"}
                                                     \/ (req[r].pc = "get" /\ ~stateKey)

(***************************************************************************)
(* Up to the first deletion, what is reported is staged, and so is what an *)
(* upload_chunk between its PUT and its SADD is going to report.           *)
(***************************************************************************)
StagedInv ==
    /\ ReportedIsStaged
    /\ "deleted" \in seen \/ \A r \in Requests : req[r].pc = "sadd" => staging[req[r].chunk] # 0

UploadInv == TypeOK /\ StageInv /\ StartInv /\ ObjectInv /\ OnceInv /\ StagedInv

-----------------------------------------------------------------------------
(***************************************************************************)
(* Multiplication is monotonic.                                            *)
(***************************************************************************)
LEMMA Times ==
    ASSUME NEW a \in Int, NEW b \in Int, NEW k \in Nat, a <= b
    PROVE  a * k <= b * k
OBVIOUS

(***************************************************************************)
(* Ceil divides and rounds up.                                             *)
(***************************************************************************)
LEMMA CeilFits ==
    ASSUME NEW a \in Nat \ {0}, NEW b \in Nat \ {0}
    PROVE  /\ Ceil(a, b) \in Nat \ {0}
           /\ a <= Ceil(a, b) * b /\ (Ceil(a, b) - 1) * b < a
<1> DEFINE q == (a + b - 1) \div b
<1>1. q \in Int /\ b * q <= a + b - 1 /\ a + b - 1 < b * q + b
  OBVIOUS
<1> HIDE DEF q
<1>2. q * b = b * q /\ (q - 1) * b = b * q - b
  BY <1>1
<1>3. q >= 1
  <2> SUFFICES ASSUME q <= 0 PROVE FALSE
    BY <1>1
  <2>1. q * b <= 0 * b
    BY <1>1, Times
  <2> QED BY <1>1, <1>2, <2>1
<1> QED BY <1>1, <1>2, <1>3 DEF Ceil, q

(***************************************************************************)
(* A resume never cuts larger chunks than upload_init did, and with either *)
(* cut the last chunk, and no other, reaches the end of the file.          *)
(***************************************************************************)
LEMMA CutsFit ==
    ASSUME size \in Sizes
    PROVE  /\ size \in Nat \ {0} /\ CHUNK_SIZE \in Nat \ {0}
           /\ TotalChunks \in Nat \ {0} /\ ResumeCut \in Nat \ {0} /\ ResumeCut <= CHUNK_SIZE
           /\ \A d \in Cuts : /\ d \in Nat \ {0} /\ ResumeCut <= d /\ d <= CHUNK_SIZE
                               /\ (TotalChunks - 1) * d < size /\ size <= TotalChunks * d
<1> DEFINE n == TotalChunks
           c == ResumeCut
           C == CHUNK_SIZE
<1>1. size \in Nat \ {0} /\ C \in Nat \ {0}
  BY MediaAssumption
<1>2. n \in Nat \ {0} /\ size <= n * C /\ (n - 1) * C < size
  BY <1>1, CeilFits DEF TotalChunks
<1>3. c \in Nat \ {0} /\ size <= c * n /\ (c - 1) * n < size
  BY <1>1, <1>2, CeilFits DEF ResumeCut
<1> HIDE DEF n, c, C
<1>4. c <= C
  <2> SUFFICES ASSUME C <= c - 1 PROVE FALSE
    BY <1>1, <1>3
  <2>1. C * n <= (c - 1) * n
    BY <1>1, <1>2, <1>3, Times
  <2>2. C * n = n * C /\ C * n \in Int /\ (c - 1) * n \in Int
    BY <1>1, <1>2, <1>3
  <2> HIDE DEF n, c, C
  <2> QED BY <1>1, <1>2, <1>3, <2>1, <2>2
<1>5. (n - 1) * c < size /\ size <= n * c
  <2>1. c * (n - 1) <= C * (n - 1)
    BY <1>1, <1>2, <1>3, <1>4, Times
  <2>2. c * (n - 1) = (n - 1) * c /\ C * (n - 1) = (n - 1) * C /\ c * n = n * c
    BY <1>1, <1>2, <1>3
  <2>3. (n - 1) * c \in Int /\ (n - 1) * C \in Int /\ n * c \in Int
    BY <1>1, <1>2, <1>3
  <2> QED BY <1>1, <1>2, <1>3, <2>1, <2>2, <2>3
<1> QED BY <1>1, <1>2, <1>3, <1>4, <1>5 DEF n, c, C, Cuts

(***************************************************************************)
(* Where a chunk of either cut ends.                                       *)
(***************************************************************************)
LEMMA PartEnds ==
    ASSUME size \in Sizes, NEW i \in Chunks, NEW d \in Cuts
    PROVE  PartEnd(i, d) = IF i = TotalChunks - 1 THEN size ELSE (i + 1) * d
<1> DEFINE n == TotalChunks
           e == (i + 1) * d
           S == {e, size}
<1>1. /\ size \in Nat /\ n \in Nat \ {0} /\ d \in Nat \ {0} /\ i \in Nat /\ i <= n - 1
      /\ (n - 1) * d < size /\ size <= n * d
  BY CutsFit DEF Chunks
<1> HIDE DEF n
<1>2. e \in Int /\ (n - 1) * d \in Int /\ n * d \in Int
  BY <1>1
<1>3. CASE i = n - 1
  <2>1. e = n * d
    BY <1>1, <1>3
  <2> HIDE DEF e
  <2>2. size \in S /\ (\A y \in S : size =< y) /\ \A x \in S : (\A y \in S : x =< y) => x = size
    BY <1>1, <1>2, <2>1
  <2>3. Min(S) = size
    BY <2>2 DEF Min
  <2> QED BY <2>3, <1>3 DEF PartEnd, e, n
<1>4. CASE i # n - 1
  <2>1. e <= (n - 1) * d
    BY <1>1, <1>4, Times
  <2> HIDE DEF e
  <2>2. e \in S /\ (\A y \in S : e =< y) /\ \A x \in S : (\A y \in S : x =< y) => x = e
    BY <1>1, <1>2, <2>1
  <2>3. Min(S) = e
    BY <2>2 DEF Min
  <2> QED BY <2>3, <1>4 DEF PartEnd, e, n
<1> QED BY <1>3, <1>4

(***************************************************************************)
(* Chunks of one cut follow each other and end with the file.              *)
(***************************************************************************)
LEMMA SameCutIsFile ==
    ASSUME size \in Sizes, NEW parts \in Seq(Cuts), Len(parts) = TotalChunks, SameCut(parts),
           NEW i \in Chunks
    PROVE  LET end == PartEnd(i, parts[i + 1])
           IN IF i = TotalChunks - 1 THEN end = size ELSE end = PartStart(i + 1, parts[i + 2])
<1>1. PICK d \in Cuts : AllOf(parts, d)
  BY DEF SameCut
<1>2. TotalChunks \in Nat /\ i \in Nat /\ i <= TotalChunks - 1
  BY CutsFit DEF Chunks
<1>3. parts[i + 1] = d /\ (i # TotalChunks - 1 => parts[i + 2] = d)
  BY <1>1, <1>2 DEF AllOf
<1> QED BY <1>2, <1>3, PartEnds DEF PartStart

(***************************************************************************)
(* A chunk that is not the last adds its cut to the length; with the last  *)
(* one the length is that of the file only if all chunks have one cut.     *)
(***************************************************************************)
LEMMA FitsNext ==
    ASSUME size \in Sizes, NEW parts \in Seq(Cuts), NEW length \in Int, NEW d \in Cuts,
           Len(parts) < TotalChunks, LengthFits(parts, length)
    PROVE  LET more == Append(parts, d)
               sum == length + PartLength(Len(parts), d)
           IN /\ more \in Seq(Cuts) /\ Len(more) = Len(parts) + 1 /\ sum \in Int
              /\ Len(more) < TotalChunks => LengthFits(more, sum)
              /\ Len(more) >= TotalChunks /\ sum = size => SameCut(more)
<1> DEFINE m == Len(parts)
           n == TotalChunks
           more == Append(parts, d)
           sum == length + PartLength(m, d)
           c == ResumeCut
           C == CHUNK_SIZE
<1>1. /\ m \in Nat /\ n \in Nat \ {0} /\ c \in Nat \ {0} /\ C \in Nat \ {0} /\ d \in Nat \ {0}
      /\ c <= d /\ d <= C /\ (d = c \/ d = C) /\ size \in Nat /\ m < n
  BY CutsFit DEF Cuts
<1>2. more \in Seq(Cuts) /\ Len(more) = m + 1
  OBVIOUS
<1>3. \A e \in Cuts : AllOf(parts, e) /\ d = e => AllOf(more, e)
  BY DEF AllOf
<1>4. m \in Chunks
  BY <1>1 DEF Chunks
<1>5. /\ length <= m * C /\ (length = m * C => AllOf(parts, C))
      /\ length >= m * c /\ (length = m * c => AllOf(parts, c))
  BY DEF LengthFits
<1>6. c \in Cuts /\ C \in Cuts
  BY DEF Cuts
<1>7. CASE m = n - 1
  <2>1. sum = length + (size - m * d)
    BY <1>4, <1>7, PartEnds DEF PartLength, PartStart
  <2>2. m * d \in Int
    BY <1>1
  <2>3. sum \in Int /\ (sum = size => length = m * d)
    BY <2>1, <2>2, <1>1
  <2>4. length = m * d => AllOf(parts, d)
    BY <1>1, <1>5
  <2> HIDE DEF more, sum, c, C, m, n
  <2> QED BY <1>1, <1>2, <1>3, <1>6, <1>7, <2>3, <2>4 DEF SameCut, more, sum, m, n
<1>8. CASE m # n - 1
  <2>1. sum = length + ((m + 1) * d - m * d)
    BY <1>4, <1>8, PartEnds DEF PartLength, PartStart
  <2>2. (m + 1) * d = m * d + d /\ (m + 1) * c = m * c + c /\ (m + 1) * C = m * C + C
    BY <1>1
  <2>3. m * d \in Int /\ m * c \in Int /\ m * C \in Int
    BY <1>1
  <2>4. sum = length + d
    BY <1>1, <2>1, <2>2, <2>3
  <2> HIDE DEF more, sum, c, C, m, n
  <2>5. sum <= (m + 1) * C /\ sum >= (m + 1) * c /\ sum \in Int
    BY <1>1, <1>5, <2>2, <2>3, <2>4
  <2>6. sum = (m + 1) * C => AllOf(more, C)
    <3> SUFFICES ASSUME sum = (m + 1) * C PROVE AllOf(more, C)
      OBVIOUS
    <3>1. length = m * C /\ d = C
      BY <1>1, <1>5, <2>2, <2>3, <2>4
    <3> QED BY <3>1, <1>3, <1>5, <1>6
  <2>7. sum = (m + 1) * c => AllOf(more, c)
    <3> SUFFICES ASSUME sum = (m + 1) * c PROVE AllOf(more, c)
      OBVIOUS
    <3>1. length = m * c /\ d = c
      BY <1>1, <1>5, <2>2, <2>3, <2>4
    <3> QED BY <3>1, <1>3, <1>5, <1>6
  <2>8. LengthFits(more, sum)
    BY <1>2, <2>5, <2>6, <2>7 DEF LengthFits, c, C
  <2> QED BY <1>1, <1>2, <1>8, <2>5, <2>8 DEF more, sum, m, n
<1> QED BY <1>7, <1>8

-----------------------------------------------------------------------------
(***************************************************************************)
(* The size of the file is fixed, and with it the chunks and the cuts.     *)
(***************************************************************************)
LEMMA SizeKept ==
    ASSUME [Next]_vars
    PROVE  /\ size' = size /\ TotalChunks' = TotalChunks /\ Chunks' = Chunks /\ Cuts' = Cuts
           /\ Req' = Req /\ Client' = Client
           /\ \A x : Stage(x)' <=> Stage(x)
           /\ \A x : SameCut(x)' <=> SameCut(x)
<1>1. size' = size
  BY DEF Next, ClientStep, HandlerStep, vars, upload_init, Resume, upload_status, Send, Drop, Expire,
         _load_state, put_staging_chunk, upload_chunk, CheckMissing, assemble_staging, put_object,
         delete_staging, upload_complete, Fail
<1>2. TotalChunks' = TotalChunks /\ ResumeCut' = ResumeCut
  BY <1>1 DEF TotalChunks, ResumeCut, Ceil
<1>3. Chunks' = Chunks /\ Cuts' = Cuts
  BY <1>2 DEF Chunks, Cuts
<1>4. Req' = Req /\ Client' = Client
  BY <1>3 DEF Req, Client
<1>5. \A x : SameCut(x)' <=> SameCut(x)
  BY <1>3 DEF SameCut, AllOf
<1>6. \A x, y : LengthFits(x, y)' <=> LengthFits(x, y)
  BY <1>2 DEF LengthFits, AllOf
<1>7. \A x : Stage(x)' <=> Stage(x)
  BY <1>2, <1>3, <1>5, <1>6 DEF Stage
<1> QED BY <1>1, <1>2, <1>3, <1>4, <1>5, <1>7

(***************************************************************************)
(* A new request, and an idle slot, are well formed.                       *)
(***************************************************************************)
LEMMA FreeFits == Free \in Req /\ Stage(Free) /\ Free.pc = "free" /\ Free.chunk = NoChunk
<1>1. Free \in Req
  BY DEF Free, Req
<1> QED BY <1>1 DEF Free, Stage

(***************************************************************************)
(* What Answer does to the client that waits for it.                       *)
(***************************************************************************)
LEMMA AnswerFits ==
    ASSUME TypeOK, StartInv, NEW r \in Requests, req[r].pc # "free", NEW ok \in BOOLEAN, Answer(r, ok)
    PROVE  /\ req' = [req EXCEPT ![r] = Free]
           /\ client' \in Client /\ client'.pc # "start" /\ client'.cut \in Cuts
<1>1. client \in Client /\ client.pc # "start" /\ client.cut \in Cuts
  BY DEF TypeOK, Client, StartInv
<1>a. req' = [req EXCEPT ![r] = Free]
  BY DEF Answer
<1>2. CASE client.req # r
  BY <1>a, <1>1, <1>2 DEF Answer
<1>3. CASE client.req = r
  <2> DEFINE t == IF ok THEN client.todo \ {req[r].chunk} ELSE client.todo
             p == CASE ~ok -> "idle" [] ok /\ req[r].chunk = NoChunk -> "done" [] OTHER -> "send"
  <2>1. client' = [client EXCEPT !.req = 0, !.todo = t, !.pc = p]
    BY <1>3 DEF Answer
  <2>2. t \in SUBSET Chunks
    BY <1>1 DEF Client
  <2>3. p \in {"idle", "done", "send"}
    OBVIOUS
  <2> HIDE DEF t, p
  <2> QED BY <1>a, <1>1, <2>1, <2>2, <2>3 DEF Client
<1> QED BY <1>2, <1>3

(***************************************************************************)
(* Every step keeps the types and what is known of requests, client and    *)
(* stored objects.                                                         *)
(***************************************************************************)
LEMMA UploadTypeStep ==
    TypeOK /\ StageInv /\ StartInv /\ ObjectInv /\ [Next]_vars
        => TypeOK' /\ StageInv' /\ StartInv' /\ ObjectInv'
<1> SUFFICES ASSUME TypeOK, StageInv, StartInv, ObjectInv, [Next]_vars
             PROVE  TypeOK' /\ StageInv' /\ StartInv' /\ ObjectInv'
  OBVIOUS
<1>t. /\ size \in Sizes /\ stateKey \in BOOLEAN /\ received \subseteq Chunks
      /\ staging \in [Chunks -> {0} \cup Cuts] /\ stored \in Seq(Seq(Cuts))
      /\ req \in [Requests -> Req] /\ client \in Client /\ attempts \in 0 .. MaxAttempts
      /\ seen \subseteq {"overlap", "lost", "deleted", "disturbed"}
      /\ \A r \in Requests : Stage(req[r])
  BY DEF TypeOK, Req, Client, StageInv
<1>k. MaxAttempts \in Nat \ {0} /\ TotalChunks \in Nat \ {0} /\ 0 \notin Cuts
  BY <1>t, MediaAssumption, CutsFit
<1>1. ASSUME stateKey' \in BOOLEAN, received' \subseteq Chunks, staging' \in [Chunks -> {0} \cup Cuts],
             client' \in Client, attempts' \in 0 .. MaxAttempts,
             seen' \subseteq {"overlap", "lost", "deleted", "disturbed"},
             req' \in [Requests -> Req], \A q \in Requests : Stage(req'[q]),
             client'.pc # "start", client'.cut \in Cuts, stored' = stored
      PROVE  TypeOK' /\ StageInv' /\ StartInv' /\ ObjectInv'
  <2>1. TypeOK'
    BY <1>1, <1>t, SizeKept DEF TypeOK, Req, Client
  <2>2. StageInv'
    BY <1>1, SizeKept DEF StageInv
  <2>3. StartInv'
    BY <1>1, SizeKept DEF StartInv
  <2>4. ObjectInv'
    BY <1>1, SizeKept DEF ObjectInv
  <2> QED BY <2>1, <2>2, <2>3, <2>4
<1>2. ASSUME NEW r \in Requests, NEW x \in Req, Stage(x), req' = [req EXCEPT ![r] = x]
      PROVE  req' \in [Requests -> Req] /\ \A q \in Requests : Stage(req'[q])
  BY <1>2, <1>t
<1>3. ASSUME NEW r \in Requests, req[r].pc # "free", client' = client
      PROVE  client' \in Client /\ client'.pc # "start" /\ client'.cut \in Cuts
  BY <1>3, <1>t DEF StartInv
<1> HIDE DEF Req, Client
<1>4. CASE upload_init
  <2>1. client' \in Client /\ client'.pc # "start" /\ client'.cut \in Cuts
    BY <1>4, <1>t DEF upload_init, Client, Cuts
  <2> QED BY <1>1, <1>4, <1>t, <1>k, <2>1 DEF upload_init
<1>5. CASE Resume
  <2>1. client' \in Client /\ client'.pc # "start" /\ client'.cut \in Cuts
    BY <1>5, <1>t DEF Resume, Client, StartInv
  <2>2. attempts' \in 0 .. MaxAttempts
    BY <1>5, <1>t, <1>k DEF Resume
  <2> QED BY <1>1, <1>5, <1>t, <2>1, <2>2 DEF Resume, redisVars
<1>6. CASE upload_status
  <2>1. client' \in Client /\ client'.pc # "start" /\ client'.cut \in Cuts
    BY <1>6, <1>t DEF upload_status, Client, Cuts
  <2> QED BY <1>1, <1>6, <1>t, <2>1 DEF upload_status, redisVars
<1>7. ASSUME NEW r \in Requests, Send(r) PROVE TypeOK' /\ StageInv' /\ StartInv' /\ ObjectInv'
  <2>1. PICK chunk \in IF client.todo = {} THEN {NoChunk} ELSE client.todo :
           /\ req' = [req EXCEPT ![r] = [Free EXCEPT !.pc = "get", !.chunk = chunk, !.cut = client.cut]]
           /\ client' = [client EXCEPT !.pc = "wait", !.req = r]
           /\ seen' \subseteq seen \cup {"overlap"}
    BY <1>7 DEF Send
  <2>2. client.cut \in Cuts /\ chunk \in Chunks \cup {NoChunk}
    BY <1>7, <1>t DEF Send, StartInv, Client
  <2> DEFINE x == [Free EXCEPT !.pc = "get", !.chunk = chunk, !.cut = client.cut]
  <2>3. /\ x \in Req /\ x.pc = "get" /\ x.cut \in Cuts /\ x.parts = <<>> /\ x.length = 0
    <3>1. Free \in Req /\ Free.parts = <<>> /\ Free.length = 0
      BY FreeFits DEF Free
    <3> QED BY <2>2, <3>1 DEF Req
  <2> HIDE DEF x
  <2>4. Stage(x)
    BY <2>3 DEF Stage
  <2>5. client' \in Client /\ client'.pc # "start" /\ client'.cut \in Cuts
    BY <2>1, <2>2, <1>t DEF Client
  <2>6. UNCHANGED <<redisVars, staging, stored, attempts>>
    BY <1>7 DEF Send
  <2>7. req' \in [Requests -> Req] /\ \A q \in Requests : Stage(req'[q])
    BY <1>2, <2>1, <2>3, <2>4 DEF x
  <2> QED BY <1>1, <1>t, <2>1, <2>5, <2>6, <2>7 DEF redisVars
<1>8. CASE Drop
  <2>1. client' \in Client /\ client'.pc # "start" /\ client'.cut \in Cuts
    BY <1>8, <1>t DEF Drop, Client, StartInv
  <2> QED BY <1>1, <1>8, <1>t, <2>1 DEF Drop, redisVars
<1>9. CASE Expire \/ UNCHANGED vars
  <2>1. UNCHANGED <<client, stored, req, staging, attempts>> /\ stateKey' \in BOOLEAN
        /\ received' \subseteq Chunks /\ seen' \subseteq {"overlap", "lost", "deleted", "disturbed"}
    BY <1>9, <1>t DEF Expire, vars
  <2>2. TypeOK'
    BY <2>1, <1>t, SizeKept DEF TypeOK, Req, Client
  <2>3. StageInv'
    BY <2>1, <1>t, SizeKept DEF StageInv
  <2>4. StartInv' /\ ObjectInv'
    BY <2>1, SizeKept DEF StartInv, ObjectInv
  <2> QED BY <2>2, <2>3, <2>4
<1>10. ASSUME NEW r \in Requests, _load_state(r) PROVE TypeOK' /\ StageInv' /\ StartInv' /\ ObjectInv'
  <2>1. req[r].pc = "get" /\ UNCHANGED <<redisVars, staging, stored, attempts, seen>>
    BY <1>10 DEF _load_state
  <2>2. req[r] \in Req /\ Stage(req[r])
    BY <1>t
  <2>3. CASE Answer(r, FALSE)
    BY <2>1, <2>3, <1>1, <1>2, <1>t, AnswerFits, FreeFits DEF redisVars
  <2>4. CASE req[r].chunk = NoChunk /\ Goto(r, "members")
    <3>1. [req[r] EXCEPT !.pc = "members"] \in Req /\ Stage([req[r] EXCEPT !.pc = "members"])
      BY <2>1, <2>2, <2>4 DEF Req, Stage
    <3> QED BY <2>1, <2>4, <3>1, <1>1, <1>2, <1>3, <1>t DEF redisVars, Goto
  <2>5. CASE req[r].chunk # NoChunk /\ Goto(r, "stage")
    <3>1. [req[r] EXCEPT !.pc = "stage"] \in Req /\ Stage([req[r] EXCEPT !.pc = "stage"])
      BY <2>1, <2>2, <2>5 DEF Req, Stage
    <3> QED BY <2>1, <2>5, <3>1, <1>1, <1>2, <1>3, <1>t DEF redisVars, Goto
  <2> QED BY <1>10, <2>3, <2>4, <2>5 DEF _load_state
<1>11. ASSUME NEW r \in Requests, put_staging_chunk(r) PROVE TypeOK' /\ StageInv' /\ StartInv' /\ ObjectInv'
  <2> DEFINE x == [req[r] EXCEPT !.pc = "sadd"]
  <2>1. req[r] \in Req /\ Stage(req[r]) /\ req[r].pc = "stage"
    BY <1>11, <1>t DEF put_staging_chunk
  <2>2. x \in Req /\ Stage(x) /\ req[r].cut \in Cuts
    BY <2>1 DEF Req, Stage
  <2>3. staging' \in [Chunks -> {0} \cup Cuts]
    BY <1>11, <1>t, <2>2 DEF put_staging_chunk
  <2>4. req' = [req EXCEPT ![r] = x] /\ client' = client
    BY <1>11 DEF put_staging_chunk, Goto
  <2> HIDE DEF x
  <2> QED BY <1>11, <2>1, <2>2, <2>3, <2>4, <1>1, <1>2, <1>3, <1>t DEF put_staging_chunk, redisVars
<1>12. ASSUME NEW r \in Requests, upload_chunk(r) PROVE TypeOK' /\ StageInv' /\ StartInv' /\ ObjectInv'
  <2>1. req[r].pc = "sadd" /\ Answer(r, TRUE) /\ UNCHANGED <<stateKey, staging, stored, attempts, seen>>
    BY <1>12 DEF upload_chunk
  <2>2. received' \subseteq Chunks
    BY <1>12, <2>1, <1>t DEF upload_chunk, Stage
  <2> QED BY <2>1, <2>2, <1>1, <1>2, <1>t, AnswerFits, FreeFits
<1>13. ASSUME NEW r \in Requests, CheckMissing(r) PROVE TypeOK' /\ StageInv' /\ StartInv' /\ ObjectInv'
  <2>1. req[r].pc = "members" /\ UNCHANGED <<redisVars, staging, stored, attempts, seen>>
    BY <1>13 DEF CheckMissing
  <2>2. req[r] \in Req /\ Stage(req[r])
    BY <1>t
  <2>3. CASE Answer(r, FALSE)
    BY <2>1, <2>3, <1>1, <1>2, <1>t, AnswerFits, FreeFits DEF redisVars
  <2>4. CASE Goto(r, "fetch")
    <3>1. Len(<<>>) < TotalChunks /\ LengthFits(<<>>, 0)
      BY <1>k, <1>t, CutsFit DEF LengthFits, AllOf
    <3>2. [req[r] EXCEPT !.pc = "fetch"] \in Req /\ Stage([req[r] EXCEPT !.pc = "fetch"])
      BY <2>1, <2>2, <2>4, <3>1 DEF Req, Stage
    <3> QED BY <2>1, <2>4, <3>2, <1>1, <1>2, <1>3, <1>t DEF redisVars, Goto
  <2> QED BY <1>13, <2>3, <2>4 DEF CheckMissing
<1>14. ASSUME NEW r \in Requests, assemble_staging(r) PROVE TypeOK' /\ StageInv' /\ StartInv' /\ ObjectInv'
  <2> DEFINE parts == req[r].parts
             m == Len(parts)
             d == staging[m]
             more == Append(parts, d)
             sum == req[r].length + PartLength(m, d)
             x == [req[r] EXCEPT !.parts = more, !.length = sum, !.pc = AfterAssemble(more, sum)]
  <2>1. req[r].pc = "fetch" /\ UNCHANGED <<redisVars, staging, stored, attempts, seen>>
    BY <1>14 DEF assemble_staging
  <2>2. /\ req[r] \in Req /\ Stage(req[r]) /\ parts \in Seq(Cuts) /\ req[r].length \in Int
        /\ m \in Nat /\ m < TotalChunks /\ LengthFits(parts, req[r].length)
    BY <1>t, <2>1 DEF Req, Stage
  <2>3. d \in {0} \cup Cuts
    BY <2>2, <1>t, <1>k DEF Chunks
  <2>4. CASE d = 0
    BY <1>14, <2>1, <2>4, <1>1, <1>2, <1>t, AnswerFits, FreeFits DEF redisVars, assemble_staging
  <2>5. CASE d \in Cuts
    <3>1. /\ more \in Seq(Cuts) /\ Len(more) = m + 1 /\ sum \in Int
          /\ Len(more) < TotalChunks => LengthFits(more, sum)
          /\ Len(more) >= TotalChunks /\ sum = size => SameCut(more)
      BY <2>2, <2>5, <1>t, FitsNext
    <3>2. req' = [req EXCEPT ![r] = x] /\ client' = client
      BY <1>14, <2>5, <1>k DEF assemble_staging
    <3> HIDE DEF more, sum, d, parts
    <3>3. \/ AfterAssemble(more, sum) = "fetch" /\ Len(more) < TotalChunks /\ LengthFits(more, sum)
          \/ AfterAssemble(more, sum) = "store" /\ Len(more) = TotalChunks /\ SameCut(more)
          \/ AfterAssemble(more, sum) = "discard" /\ Len(more) \in 1 .. TotalChunks
      BY <2>2, <3>1, <1>k DEF AfterAssemble
    <3>4. /\ x.pc = AfterAssemble(more, sum) /\ x.parts = more /\ x.length = sum /\ x \in Req
          /\ x.cut = req[r].cut /\ x.chunk = req[r].chunk
      BY <2>2, <3>1, <3>3 DEF Req
    <3>5. req[r].cut \in Cuts /\ req[r].chunk = NoChunk
      BY <2>1, <2>2 DEF Stage
    <3> HIDE DEF x
    <3>6. Stage(x)
      BY <3>3, <3>4, <3>5 DEF Stage
    <3> QED BY <2>1, <3>2, <3>4, <3>6, <1>1, <1>2, <1>3, <1>t DEF redisVars
  <2> QED BY <2>3, <2>4, <2>5
<1>15. ASSUME NEW r \in Requests, put_object(r) PROVE TypeOK' /\ StageInv' /\ StartInv' /\ ObjectInv'
  <2> DEFINE parts == req[r].parts
             x == [req[r] EXCEPT !.pc = "clean"]
  <2>1. req[r].pc = "store" /\ UNCHANGED <<redisVars, staging, attempts, seen>>
    BY <1>15 DEF put_object
  <2>2. /\ req[r] \in Req /\ Stage(req[r]) /\ parts \in Seq(Cuts)
        /\ Len(parts) = TotalChunks /\ SameCut(parts)
    BY <1>t, <2>1 DEF Req, Stage
  <2>3. x \in Req /\ Stage(x)
    BY <2>1, <2>2, <1>k DEF Req, Stage
  <2>4. req' = [req EXCEPT ![r] = x] /\ client' = client /\ stored' = Append(stored, parts)
    BY <1>15 DEF put_object, Goto
  <2> HIDE DEF x, parts
  <2>5. /\ stored' \in Seq(Seq(Cuts)) /\ Len(stored') = Len(stored) + 1
        /\ \A p \in 1 .. Len(stored) : stored'[p] = stored[p]
        /\ stored'[Len(stored) + 1] = parts
    BY <2>2, <2>4, <1>t
  <2>6. req' \in [Requests -> Req] /\ \A q \in Requests : Stage(req'[q])
    BY <1>2, <2>3, <2>4
  <2>7. client' \in Client /\ client'.pc # "start" /\ client'.cut \in Cuts
    BY <1>3, <2>1, <2>4
  <2>8. TypeOK'
    BY <2>1, <2>5, <2>6, <2>7, <1>t, SizeKept DEF TypeOK, Req, Client, redisVars
  <2>9. StageInv' /\ StartInv'
    BY <2>6, <2>7, SizeKept DEF StageInv, StartInv
  <2>10. ObjectInv'
    <3> SUFFICES ASSUME NEW p \in 1 .. Len(stored') PROVE Len(stored'[p]) = TotalChunks /\ SameCut(stored'[p])
      BY SizeKept DEF ObjectInv
    <3>1. Len(stored) \in Nat
      BY <1>t
    <3>2. p = Len(stored) + 1 \/ p \in 1 .. Len(stored)
      BY <2>5, <3>1
    <3> QED BY <2>2, <2>5, <3>2 DEF ObjectInv
  <2> QED BY <2>8, <2>9, <2>10
<1>16. ASSUME NEW r \in Requests, delete_staging(r) PROVE TypeOK' /\ StageInv' /\ StartInv' /\ ObjectInv'
  <2> DEFINE left == req[r].parts
             x == [req[r] EXCEPT !.parts = Tail(left)]
             y == [req[r] EXCEPT !.parts = <<>>, !.pc = "del"]
  <2>1. /\ req[r].pc \in {"discard", "clean"} /\ UNCHANGED <<redisVars, stored, attempts>>
        /\ staging' = [staging EXCEPT ![TotalChunks - Len(left)] = 0] /\ seen' = seen \cup {"deleted"}
    BY <1>16 DEF delete_staging
  <2>2. /\ req[r] \in Req /\ Stage(req[r]) /\ left \in Seq(Cuts) /\ Len(left) \in 1 .. TotalChunks
    BY <1>t, <2>1 DEF Req, Stage
  <2>3. staging' \in [Chunks -> {0} \cup Cuts] /\ seen' \subseteq {"overlap", "lost", "deleted", "disturbed"}
    BY <2>1, <1>t
  <2>4. CASE Len(left) > 1 /\ req' = [req EXCEPT ![r].parts = Tail(left)] /\ client' = client
    <3>1. Tail(left) \in Seq(Cuts) /\ Len(Tail(left)) \in 1 .. TotalChunks
      BY <2>2, <2>4, <1>k
    <3>2. x \in Req /\ Stage(x)
      <4> HIDE DEF left
      <4> QED BY <2>1, <2>2, <3>1 DEF Req, Stage
    <3> QED BY <2>1, <2>3, <2>4, <3>2, <1>1, <1>2, <1>3, <1>t DEF redisVars
  <2>5. CASE req' = [req EXCEPT ![r].parts = <<>>, ![r].pc = "del"] /\ client' = client
    <3>1. y \in Req /\ Stage(y)
      <4>1. <<>> \in Seq(Cuts)
        OBVIOUS
      <4>2. y \in Req /\ y.pc = "del" /\ y.cut = req[r].cut /\ y.chunk = req[r].chunk
        BY <2>2, <4>1 DEF Req
      <4> HIDE DEF y
      <4> QED BY <2>1, <2>2, <4>2 DEF Stage
    <3> QED BY <2>1, <2>3, <2>5, <3>1, <1>1, <1>2, <1>3, <1>t DEF redisVars
  <2>6. CASE Answer(r, FALSE)
    BY <2>1, <2>3, <2>6, <1>1, <1>2, <1>t, AnswerFits, FreeFits DEF redisVars
  <2> QED BY <1>16, <2>4, <2>5, <2>6 DEF delete_staging
<1>17. ASSUME NEW r \in Requests, upload_complete(r) PROVE TypeOK' /\ StageInv' /\ StartInv' /\ ObjectInv'
  <2>1. /\ req[r].pc = "del" /\ Answer(r, TRUE) /\ stateKey' = FALSE /\ received' = {}
        /\ UNCHANGED <<staging, stored, attempts, seen>>
    BY <1>17 DEF upload_complete
  <2> QED BY <2>1, <1>1, <1>2, <1>t, AnswerFits, FreeFits
<1>18. ASSUME NEW r \in Requests, Fail(r) PROVE TypeOK' /\ StageInv' /\ StartInv' /\ ObjectInv'
  <2>1. /\ req[r].pc # "free" /\ Answer(r, FALSE) /\ UNCHANGED <<redisVars, staging, stored, attempts>>
        /\ seen' \subseteq seen \cup {"disturbed", "lost"}
    BY <1>18 DEF Fail
  <2> QED BY <2>1, <1>1, <1>2, <1>t, AnswerFits, FreeFits DEF redisVars
<1> QED BY <1>4, <1>5, <1>6, <1>7, <1>8, <1>9, <1>10, <1>11, <1>12, <1>13, <1>14, <1>15, <1>16, <1>17, <1>18
        DEF Next, ClientStep, HandlerStep
-----------------------------------------------------------------------------
(***************************************************************************)
(* A step that stores nothing and starts no complete keeps OnceInv, if a   *)
(* complete stays where it is once it has stored, and goes on from its GET *)
(* only with the state there.                                              *)
(***************************************************************************)
LEMMA OnceKept ==
    ASSUME OnceInv, seen \subseteq seen', stored' = stored, stateKey' => stateKey,
           \A q \in Requests : Completing(q)' =>
               /\ Completing(q)
               /\ req[q].pc \in {"clean", "del"} => req'[q].pc \in {"clean", "del"}
               /\ req[q].pc = "get" => req'[q].pc = "get" \/ stateKey,
           \A q \in Requests : req[q].pc \in {"clean", "del"} =>
               req'[q].pc \in {"clean", "del"} \/ ~stateKey' \/ "lost" \in seen'
    PROVE  OnceInv'
<1>1. "overlap" \in seen' \/ \A q, r \in Requests : Completing(q)' /\ Completing(r)' => q = r
  BY DEF OnceInv
<1>2. ASSUME seen' \cap {"overlap", "lost"} = {}
      PROVE  /\ Len(stored') <= 1
             /\ stored' # <<>> =>
                  /\ stateKey' => \E r \in Requests : req'[r].pc \in {"clean", "del"}
                  /\ \A r \in Requests : Completing(r)' => req'[r].pc \in {"clean", "del"}
                                                           \/ (req'[r].pc = "get" /\ ~stateKey')
  <2>1. seen \cap {"overlap", "lost"} = {} /\ "lost" \notin seen'
    BY <1>2
  <2>2. /\ Len(stored) <= 1
        /\ stored # <<>> =>
             /\ stateKey => \E r \in Requests : req[r].pc \in {"clean", "del"}
             /\ \A r \in Requests : Completing(r) => req[r].pc \in {"clean", "del"}
                                                     \/ (req[r].pc = "get" /\ ~stateKey)
    BY <2>1 DEF OnceInv
  <2> QED BY <2>1, <2>2
<1> QED BY <1>1, <1>2 DEF OnceInv

(***************************************************************************)
(* Every step keeps OnceInv.                                               *)
(***************************************************************************)
LEMMA OnceStep ==
    ASSUME TypeOK, StageInv, StartInv, OnceInv, [Next]_vars
    PROVE  OnceInv'
<1>t. /\ stateKey \in BOOLEAN /\ stored \in Seq(Seq(Cuts)) /\ req \in [Requests -> Req]
      /\ \A r \in Requests : Stage(req[r])
  BY DEF TypeOK, Req, StageInv
<1>1. ASSUME NEW r \in Requests, req' = [req EXCEPT ![r] = Free]
      PROVE  \A q \in Requests : /\ Completing(q)' => q # r
                                 /\ q # r => req'[q] = req[q]
  BY <1>1, <1>t, FreeFits DEF Completing
<1>2. CASE upload_init
  <2>1. /\ stored' = stored /\ req' = req /\ seen' = seen /\ stored = <<>>
        /\ \A r \in Requests : req[r].pc = "free"
    BY <1>2 DEF upload_init, StartInv
  <2>2. Len(stored') <= 1 /\ \A r \in Requests : ~Completing(r)'
    BY <2>1 DEF Completing
  <2> QED BY <2>1, <2>2 DEF OnceInv
<1>3. CASE Resume \/ upload_status \/ Drop \/ Expire \/ UNCHANGED vars
  <2>1. seen \subseteq seen' /\ stored' = stored /\ (stateKey' => stateKey) /\ req' = req
    BY <1>3, <1>t DEF Resume, upload_status, Drop, Expire, vars, redisVars
  <2> QED BY <2>1, OnceKept DEF Completing
<1>4. ASSUME NEW r \in Requests, Send(r) PROVE OnceInv'
  <2>1. PICK chunk : /\ req' = [req EXCEPT ![r] = [Free EXCEPT !.pc = "get", !.chunk = chunk, !.cut = client.cut]]
                     /\ seen' = seen \cup (IF chunk = NoChunk /\ \E q \in Requests : Completing(q)
                                           THEN {"overlap"} ELSE {})
    BY <1>4 DEF Send
  <2>2. /\ stored' = stored /\ stateKey' = stateKey /\ req[r].pc = "free"
    BY <1>4 DEF Send, redisVars
  <2>3. /\ \A q \in Requests : q # r => req'[q] = req[q]
        /\ req'[r].pc = "get" /\ req'[r].chunk = chunk
    BY <2>1, <1>t, FreeFits DEF Req, Free
  <2>4. \A q \in Requests : Completing(q)' => Completing(q) \/ (q = r /\ chunk = NoChunk)
    BY <2>3 DEF Completing
  <2>5. CASE "overlap" \in seen'
    BY <2>5 DEF OnceInv
  <2>6. CASE chunk # NoChunk
    <3>1. \A q \in Requests : Completing(q)' => Completing(q) /\ q # r
      BY <2>3, <2>6 DEF Completing
    <3> QED BY <2>1, <2>2, <2>3, <3>1, OnceKept
  <2>7. CASE chunk = NoChunk /\ "overlap" \notin seen'
    <3>1. (\A q \in Requests : ~Completing(q)) /\ seen' = seen
      BY <2>1, <2>7
    <3>2. \A q \in Requests : Completing(q)' => q = r
      BY <2>4, <3>1
    <3>3. ASSUME seen' \cap {"overlap", "lost"} = {}, stored # <<>> PROVE ~stateKey /\ Len(stored) <= 1
      <4>1. \A q \in Requests : req[q].pc \in {"clean", "del"} => Completing(q)
        BY <1>t DEF Stage, Completing
      <4> QED BY <3>1, <3>3, <4>1 DEF OnceInv
    <3>4. stored = <<>> => Len(stored) <= 1
      OBVIOUS
    <3> QED BY <2>2, <2>3, <3>2, <3>3, <3>4 DEF OnceInv
  <2> QED BY <2>5, <2>6, <2>7
<1>5. ASSUME NEW r \in Requests, put_object(r) PROVE OnceInv'
  <2>1. /\ req[r].pc = "store" /\ stored' = Append(stored, req[r].parts) /\ stateKey' = stateKey
        /\ seen' = seen /\ \A q \in Requests : q # r => req'[q] = req[q]
        /\ req'[r].pc = "clean" /\ req'[r].chunk = req[r].chunk
    BY <1>5, <1>t DEF put_object, Goto, redisVars, Req
  <2>2. Completing(r)
    BY <2>1, <1>t DEF Completing, Stage
  <2>3. \A q \in Requests : Completing(q)' => Completing(q)
    BY <2>1, <2>2 DEF Completing
  <2>4. "overlap" \in seen' \/ \A q \in Requests : Completing(q)' => q = r
    BY <2>1, <2>2, <2>3 DEF OnceInv
  <2>5. ASSUME seen' \cap {"overlap", "lost"} = {} PROVE Len(stored') <= 1
    <3>1. stored = <<>>
      BY <2>1, <2>2, <2>5 DEF OnceInv
    <3> QED BY <2>1, <3>1
  <2> QED BY <2>1, <2>4, <2>5 DEF OnceInv
<1>6. ASSUME NEW r \in Requests, _load_state(r) PROVE OnceInv'
  <2>1. /\ seen' = seen /\ stored' = stored /\ stateKey' = stateKey /\ req[r].pc = "get"
        /\ \A q \in Requests : q # r => req'[q] = req[q]
    BY <1>6, <1>t DEF _load_state, Goto, Answer, redisVars
  <2>2. \/ req' = [req EXCEPT ![r] = Free]
        \/ req'[r].chunk = req[r].chunk /\ stateKey
    BY <1>6, <1>t DEF _load_state, Goto, Answer, Req
  <2>3. Completing(r)' => Completing(r) /\ stateKey
    BY <2>1, <2>2, <1>1 DEF Completing
  <2>4. \A q \in Requests : q # r => (Completing(q)' <=> Completing(q))
    BY <2>1 DEF Completing
  <2> QED BY <2>1, <2>3, <2>4, OnceKept
<1>7. ASSUME NEW r \in Requests,
             put_staging_chunk(r) \/ upload_chunk(r) \/ CheckMissing(r) \/ assemble_staging(r)
      PROVE  OnceInv'
  <2>1. /\ seen' = seen /\ stored' = stored /\ stateKey' = stateKey
        /\ req[r].pc \in {"stage", "sadd", "members", "fetch"}
        /\ \A q \in Requests : q # r => req'[q] = req[q]
    BY <1>7, <1>t DEF put_staging_chunk, upload_chunk, CheckMissing, assemble_staging, Goto, Answer, redisVars
  <2>2. req' = [req EXCEPT ![r] = Free] \/ req'[r].chunk = req[r].chunk
    BY <1>7, <1>t DEF put_staging_chunk, upload_chunk, CheckMissing, assemble_staging, Goto, Answer, Req
  <2>3. Completing(r)' => Completing(r)
    BY <2>1, <2>2, <1>1 DEF Completing
  <2>4. \A q \in Requests : q # r => (Completing(q)' <=> Completing(q))
    BY <2>1 DEF Completing
  <2> QED BY <2>1, <2>3, <2>4, OnceKept
<1>8. ASSUME NEW r \in Requests, delete_staging(r) PROVE OnceInv'
  <2>1. /\ seen \subseteq seen' /\ stored' = stored /\ stateKey' = stateKey
        /\ req[r].pc \in {"discard", "clean"}
        /\ \A q \in Requests : q # r => req'[q] = req[q]
    BY <1>8, <1>t DEF delete_staging, Answer, redisVars
  <2>2. \/ req' = [req EXCEPT ![r] = Free] /\ req[r].pc = "discard"
        \/ req'[r].chunk = req[r].chunk /\ req'[r].pc \in {req[r].pc, "del"}
    BY <1>8, <1>t DEF delete_staging, Answer, Req
  <2>3. Completing(r)' => Completing(r) /\ (req[r].pc = "clean" => req'[r].pc \in {"clean", "del"})
    BY <2>1, <2>2, <1>1 DEF Completing
  <2>4. \A q \in Requests : q # r => (Completing(q)' <=> Completing(q))
    BY <2>1 DEF Completing
  <2>5. req[r].pc = "clean" => req'[r].pc \in {"clean", "del"}
    BY <2>2
  <2> QED BY <2>1, <2>3, <2>4, <2>5, OnceKept
<1>9. ASSUME NEW r \in Requests, upload_complete(r) \/ Fail(r) PROVE OnceInv'
  <2>1. /\ seen \subseteq seen' /\ stored' = stored /\ (stateKey' => stateKey)
        /\ req' = [req EXCEPT ![r] = Free]
        /\ ~stateKey' \/ req[r].pc \notin {"clean", "del"} \/ "lost" \in seen'
    BY <1>9, <1>t DEF upload_complete, Fail, Answer, redisVars
  <2>2. \A q \in Requests : Completing(q)' => Completing(q) /\ q # r
    BY <2>1, <1>1 DEF Completing
  <2>3. \A q \in Requests : q # r => req'[q] = req[q]
    BY <2>1, <1>1
  <2> QED BY <2>1, <2>2, <2>3, OnceKept
<1> QED BY <1>2, <1>3, <1>4, <1>5, <1>6, <1>7, <1>8, <1>9 DEF Next, ClientStep, HandlerStep

(***************************************************************************)
(* Every step keeps StagedInv: SADD follows the PUT.                       *)
(***************************************************************************)
LEMMA StagedStep ==
    ASSUME TypeOK, StageInv, StagedInv, [Next]_vars
    PROVE  StagedInv'
<1>t. /\ staging \in [Chunks -> {0} \cup Cuts] /\ req \in [Requests -> Req] /\ size \in Sizes
      /\ received \subseteq Chunks /\ \A r \in Requests : Stage(req[r])
  BY DEF TypeOK, Req, StageInv
<1>1. ASSUME seen \subseteq seen', received' \subseteq received, staging' = staging,
             \A q \in Requests : req'[q].pc = "sadd" => req'[q] = req[q]
      PROVE  StagedInv'
  BY <1>1 DEF StagedInv, ReportedIsStaged
<1>2. ASSUME NEW r \in Requests, put_staging_chunk(r) PROVE StagedInv'
  <2>1. /\ req[r].pc = "stage" /\ seen' = seen /\ received' = received
        /\ staging' = [staging EXCEPT ![req[r].chunk] = req[r].cut]
        /\ \A q \in Requests : req'[q].chunk = req[q].chunk /\ (q # r => req'[q].pc = req[q].pc)
    BY <1>2, <1>t DEF put_staging_chunk, Goto, redisVars, Req
  <2>2. req[r].cut # 0 /\ req[r].chunk \in Chunks
    BY <2>1, <1>t, CutsFit DEF Stage
  <2>3. \A i \in Chunks : staging[i] # 0 \/ i = req[r].chunk => staging'[i] # 0
    BY <2>1, <2>2, <1>t
  <2>4. \A q \in Requests : req[q].pc = "sadd" => req[q].chunk \in Chunks
    BY <1>t DEF Stage
  <2> QED BY <2>1, <2>2, <2>3, <2>4, <1>t DEF StagedInv, ReportedIsStaged
<1>3. ASSUME NEW r \in Requests, upload_chunk(r) PROVE StagedInv'
  <2>1. /\ req[r].pc = "sadd" /\ seen' = seen /\ received' = received \cup {req[r].chunk}
        /\ staging' = staging /\ req' = [req EXCEPT ![r] = Free]
    BY <1>3 DEF upload_chunk, Answer
  <2>2. \A q \in Requests : req'[q].pc = "sadd" => req'[q] = req[q]
    BY <2>1, <1>t, FreeFits
  <2> QED BY <2>1, <2>2 DEF StagedInv, ReportedIsStaged
<1>4. ASSUME NEW r \in Requests, delete_staging(r) PROVE StagedInv'
  BY <1>4 DEF delete_staging, StagedInv, ReportedIsStaged
<1>5. ASSUME NEW r \in Requests, Send(r) PROVE StagedInv'
  <2>1. PICK chunk : req' = [req EXCEPT ![r] = [Free EXCEPT !.pc = "get", !.chunk = chunk, !.cut = client.cut]]
    BY <1>5 DEF Send
  <2>2. \A q \in Requests : req'[q].pc = "sadd" => req'[q] = req[q]
    BY <2>1, <1>t, FreeFits DEF Free
  <2> QED BY <1>1, <1>5, <2>2 DEF Send, redisVars
<1>6. CASE upload_init \/ Resume \/ upload_status \/ Drop \/ Expire \/ UNCHANGED vars
  BY <1>1, <1>6 DEF upload_init, Resume, upload_status, Drop, Expire, vars, redisVars
<1>7. ASSUME NEW r \in Requests,
             _load_state(r) \/ CheckMissing(r) \/ put_object(r) \/ upload_complete(r) \/ Fail(r)
      PROVE  StagedInv'
  <2>1. seen \subseteq seen' /\ received' \subseteq received /\ staging' = staging
    BY <1>7 DEF _load_state, CheckMissing, put_object, upload_complete, Fail, redisVars
  <2>2. \/ req' = [req EXCEPT ![r] = Free]
        \/ \E pc \in {"members", "stage", "fetch", "clean"} : req' = [req EXCEPT ![r].pc = pc]
    BY <1>7 DEF _load_state, CheckMissing, put_object, upload_complete, Fail, Goto, Answer
  <2>3. \A q \in Requests : req'[q].pc = "sadd" => req'[q] = req[q]
    BY <2>2, <1>t, FreeFits DEF Req
  <2> QED BY <1>1, <2>1, <2>3
<1>8. ASSUME NEW r \in Requests, assemble_staging(r) PROVE StagedInv'
  <2>1. seen' = seen /\ received' = received /\ staging' = staging
    BY <1>8 DEF assemble_staging, redisVars
  <2>2. \/ req' = [req EXCEPT ![r] = Free]
        \/ \E parts, length : req' = [req EXCEPT ![r].parts = parts, ![r].length = length,
                                                ![r].pc = AfterAssemble(parts, length)]
    BY <1>8 DEF assemble_staging, Answer
  <2>3. \A parts, length : AfterAssemble(parts, length) # "sadd"
    BY DEF AfterAssemble
  <2>4. \A q \in Requests : req'[q].pc = "sadd" => req'[q] = req[q]
    <3>1. CASE req' = [req EXCEPT ![r] = Free]
      BY <3>1, <1>t, FreeFits
    <3>2. ASSUME NEW parts, NEW length,
                 req' = [req EXCEPT ![r].parts = parts, ![r].length = length,
                                    ![r].pc = AfterAssemble(parts, length)]
          PROVE  \A q \in Requests : req'[q].pc = "sadd" => req'[q] = req[q]
      <4>1. req'[r].pc = AfterAssemble(parts, length) /\ \A q \in Requests : q # r => req'[q] = req[q]
        BY <3>2, <1>t DEF Req
      <4> QED BY <4>1, <2>3
    <3> QED BY <2>2, <3>1, <3>2
  <2> QED BY <1>1, <2>1, <2>4
<1> QED BY <1>2, <1>3, <1>4, <1>5, <1>6, <1>7, <1>8 DEF Next, ClientStep, HandlerStep

(***************************************************************************)
(* The upload starts in the invariant.                                     *)
(***************************************************************************)
LEMMA UploadInvInit == Init => UploadInv
<1> SUFFICES ASSUME Init PROVE UploadInv
  OBVIOUS
<1>1. /\ req = [r \in Requests |-> Free] /\ Free \in Req /\ Stage(Free) /\ Free.pc = "free"
      /\ client = [pc |-> "start", cut |-> 0, todo |-> {}, req |-> 0] /\ seen = {}
      /\ stored = <<>> /\ received = {} /\ size \in Sizes
  BY FreeFits DEF Init
<1>2. TypeOK
  <2>1. client \in Client /\ req \in [Requests -> Req]
    BY <1>1 DEF Client
  <2>2. attempts \in 0 .. MaxAttempts
    BY MediaAssumption DEF Init
  <2>3. staging \in [Chunks -> {0} \cup Cuts]
    BY DEF Init
  <2>4. stateKey \in BOOLEAN
    BY DEF Init
  <2>5. stored \in Seq(Seq(Cuts))
    BY <1>1
  <2> QED BY <1>1, <2>1, <2>2, <2>3, <2>4, <2>5 DEF TypeOK, Req, Client
<1>3. StageInv
  BY <1>1 DEF StageInv
<1>4. StartInv
  BY <1>1 DEF StartInv
<1>5. ObjectInv
  BY <1>1 DEF ObjectInv
<1>6. OnceInv
  BY <1>1 DEF OnceInv, Completing
<1>7. StagedInv
  BY <1>1 DEF StagedInv, ReportedIsStaged
<1> QED BY <1>2, <1>3, <1>4, <1>5, <1>6, <1>7 DEF UploadInv

-----------------------------------------------------------------------------
(***************************************************************************)
(* The inductive invariant of the upload.                                  *)
(***************************************************************************)
THEOREM UploadInvariance == Spec => []UploadInv
<1>1. UploadInv /\ [Next]_vars => UploadInv'
  <2> SUFFICES ASSUME UploadInv, [Next]_vars PROVE UploadInv'
    OBVIOUS
  <2>1. TypeOK /\ StageInv /\ StartInv /\ ObjectInv /\ OnceInv /\ StagedInv
    BY DEF UploadInv
  <2>2. TypeOK' /\ StageInv' /\ StartInv' /\ ObjectInv'
    BY <2>1, UploadTypeStep
  <2>3. OnceInv' /\ StagedInv'
    BY <2>1, OnceStep, StagedStep
  <2> QED BY <2>2, <2>3 DEF UploadInv
<1> QED BY UploadInvInit, <1>1, PTL DEF Spec

(***************************************************************************)
(* Every state of the upload is well typed.                                *)
(***************************************************************************)
THEOREM UploadTypeCorrect == Spec => []TypeOK
<1>1. UploadInv => TypeOK
  BY DEF UploadInv
<1> QED BY <1>1, UploadInvariance, PTL

(***************************************************************************)
(* What upload_complete stores is the file, for every file size and chunk  *)
(* size: a mix of the two cuts never has the length line 185 asks for.     *)
(***************************************************************************)
THEOREM StoredObjectIsTheFile == Spec => []StoredIsTheFile
<1>1. UploadInv => StoredIsTheFile
  <2> SUFFICES ASSUME UploadInv, NEW p \in 1 .. Len(stored), NEW i \in Chunks
               PROVE  LET end == PartEnd(i, stored[p][i + 1])
                      IN IF i = TotalChunks - 1 THEN end = size ELSE end = PartStart(i + 1, stored[p][i + 2])
    BY DEF StoredIsTheFile
  <2>1. size \in Sizes /\ stored[p] \in Seq(Cuts) /\ Len(stored[p]) = TotalChunks /\ SameCut(stored[p])
    BY DEF UploadInv, TypeOK, ObjectInv
  <2> QED BY <2>1, SameCutIsFile
<1> QED BY <1>1, UploadInvariance, PTL

(***************************************************************************)
(* One object per upload, unless completes overlapped or one was lost      *)
(* between storing the object and deleting the state.                      *)
(***************************************************************************)
THEOREM UploadIsStoredOnce == Spec => []StoredOnce
<1>1. UploadInv => StoredOnce
  BY DEF UploadInv, OnceInv, StoredOnce
<1> QED BY <1>1, UploadInvariance, PTL

(***************************************************************************)
(* A chunk in upload:chunks is in the staging area until a complete begins *)
(* to delete: put_staging_chunk comes before the SADD.                     *)
(***************************************************************************)
THEOREM ReportedChunksAreStaged == Spec => []ReportedIsStaged
<1>1. UploadInv => ReportedIsStaged
  BY DEF UploadInv, StagedInv
<1> QED BY <1>1, UploadInvariance, PTL

-----------------------------------------------------------------------------
(***************************************************************************)
(* Without overlapping or broken replacements at most one is between its   *)
(* DEL and its SADD; the set is empty then, and what that one adds is what *)
(* was asked for last.                                                     *)
(***************************************************************************)
ReplaceInv ==
    "set" \in excused \/
    /\ \A s, q \in Setters : setter[s].pc = "sadd" /\ setter[q].pc = "sadd" => s = q
    /\ \A s \in Setters : setter[s].pc = "sadd" => keywords = {} /\ wanted = setter[s].new
    /\ (\A s \in Setters : setter[s].pc # "sadd") => keywords = wanted

\* Tasks between their LPUSH and their LTRIM.
Trimming == {f \in Files : task[f] = "ltrim"}

\* A listener that has connections left to send to has a file to send.
ListenInv == \A r \in Replicas : listener[r].to # {} => listener[r].file \in Files

(***************************************************************************)
(* What befell the task of f so far, for every place it can be in: nothing *)
(* before it begins, no failure of a file before the end, and no error in  *)
(* the older backend, whose task would be over.  Only that backend has a   *)
(* history to write.                                                       *)
(***************************************************************************)
TaskAt(f) ==
    /\ task[f] = "none" => f \notin temp /\ mishap[f] = {}
    /\ task[f] \notin {"none", "done"} => f \in temp /\ ~Leaves(f)
    /\ task[f] \in {"lpush", "ltrim", "send"} => f \in backend
    /\ task[f] = "done" => (f \in temp <=> Leaves(f))
TaskInv == \A f \in Files : TaskAt(f)

OcrInv == /\ OcrTypeOK /\ ReplaceInv /\ HistoryBounded /\ TaskInv /\ ListenInv
          /\ AlertKept

-----------------------------------------------------------------------------
(***************************************************************************)
(* There are finitely many of them.                                        *)
(***************************************************************************)
LEMMA TrimmingFinite ==
    /\ IsFiniteSet(Trimming) /\ Cardinality(Trimming) \in Nat
    /\ IsFiniteSet(Trimming') /\ Cardinality(Trimming') \in Nat
<1>1. Trimming \subseteq Files /\ Trimming' \subseteq Files
  BY DEF Trimming
<1>2. IsFiniteSet(Trimming) /\ IsFiniteSet(Trimming')
  BY <1>1, OcrAssumption, FS_Subset
<1> QED BY <1>2, FS_CardinalityType

(***************************************************************************)
(* LTRIM leaves alerts, and no more than the limit.                        *)
(***************************************************************************)
LEMMA TrimBounded ==
    ASSUME history \in Seq(Files)
    PROVE  Trim \in Seq(Files) /\ Len(Trim) <= OCR_ALERT_HISTORY_LIMIT
<1> DEFINE n == Len(history)
           k == OCR_ALERT_HISTORY_LIMIT
           m == Min({n, k})
<1>1. n \in Nat /\ k \in Nat
  BY OcrAssumption, LenProperties
<1>2. m \in {n, k} /\ m <= n /\ m <= k
  <2>1. CASE n <= k
    <3>1. n \in {n, k} /\ \A y \in {n, k} : n =< y
      BY <1>1, <2>1
    <3>2. m \in {n, k} /\ \A y \in {n, k} : m =< y
      BY <3>1 DEF Min
    <3> QED BY <3>2
  <2>2. CASE k <= n
    <3>1. k \in {n, k} /\ \A y \in {n, k} : k =< y
      BY <1>1, <2>2
    <3>2. m \in {n, k} /\ \A y \in {n, k} : m =< y
      BY <3>1 DEF Min
    <3> QED BY <3>2
  <2> QED BY <1>1, <2>1, <2>2
<1>3. m \in Nat
  BY <1>1, <1>2
<1> HIDE DEF m
<1>4. Trim = SubSeq(history, 1, m)
  BY DEF Trim, m
<1>5. SubSeq(history, 1, m) \in Seq(Files) /\ Len(SubSeq(history, 1, m)) = m
  <2>1. \A i \in 1 .. m : history[i] \in Files
    BY <1>1, <1>2, <1>3, ElementOfSeq
  <2> QED BY <1>1, <1>2, <1>3, <2>1, SubSeqProperties
<1> QED BY <1>2, <1>4, <1>5

(***************************************************************************)
(* Nothing is excused, stored or at work at first.                         *)
(***************************************************************************)
LEMMA OcrInvInit == OcrInit => OcrInv
<1> SUFFICES ASSUME OcrInit PROVE OcrInv
  OBVIOUS
<1> USE OcrAssumption DEF OcrInit
<1>1. OcrTypeOK
  BY EmptySeq DEF OcrTypeOK, Idle, Off
<1>2. ReplaceInv
  BY DEF ReplaceInv, Idle
<1>3. HistoryBounded
  <2>1. Len(history) = 0
    BY EmptySeq
  <2>2. Cardinality(Trimming) \in Nat
    BY TrimmingFinite
  <2> QED BY <2>1, <2>2 DEF HistoryBounded, Trimming
<1>4. TaskInv
  BY DEF TaskInv, TaskAt, Leaves
<1>5. ListenInv
  BY DEF ListenInv, Off
<1>6. AlertKept
  BY DEF AlertKept, Published
<1> QED BY <1>1, <1>2, <1>3, <1>4, <1>5, <1>6 DEF OcrInv

(***************************************************************************)
(* A step that leaves the keywords and their replacements alone keeps      *)
(* ReplaceInv, if it never takes an excuse back.                           *)
(***************************************************************************)
LEMMA ReplaceKept ==
    ASSUME ReplaceInv, UNCHANGED setVars, "set" \in excused => "set" \in excused'
    PROVE  ReplaceInv'
BY DEF ReplaceInv, setVars

(***************************************************************************)
(* The same for the history: the list is as it was, and so are the tasks   *)
(* that are about to trim it.                                              *)
(***************************************************************************)
LEMMA BoundKept ==
    ASSUME HistoryBounded, history' = history, Trimming' = Trimming,
           "trim" \in excused => "trim" \in excused'
    PROVE  HistoryBounded'
BY DEF HistoryBounded, Trimming

(***************************************************************************)
(* A step that leaves the tasks alone keeps TaskInv.                       *)
(***************************************************************************)
LEMMA TaskKept ==
    ASSUME TaskInv, UNCHANGED <<backend, task, temp, mishap>>
    PROVE  TaskInv'
BY DEF TaskInv, TaskAt, Leaves

(***************************************************************************)
(* A step that moves no frame and publishes nothing keeps AlertKept.       *)
(***************************************************************************)
LEMMA AlertUnmoved ==
    ASSUME AlertKept, UNCHANGED frameVars, \A f \in Files : Published(f)' => Published(f)
    PROVE  AlertKept'
BY DEF AlertKept, Underway, frameVars

(***************************************************************************)
(* A step of the task of f that leaves the history and the frames alone    *)
(* and publishes nothing preserves the invariant.                          *)
(***************************************************************************)
LEMMA TaskGoesOn ==
    ASSUME OcrInv, NEW f \in Files, NEW step \in {"read", "publish", "lpush", "send", "remove", "done"},
           GotoTask(f, step), task[f] # "ltrim",
           UNCHANGED <<backend, setVars, history, frameVars, excused>>,
           temp' \subseteq Files,
           mishap' \in [Files -> SUBSET {"create", "write", "empty", "task", "unlink"}],
           \A g \in Files \ {f} : (g \in temp' <=> g \in temp) /\ mishap'[g] = mishap[g],
           TaskAt(f)', Published(f)' => Published(f)
    PROVE  OcrInv'
<1>t. OcrTypeOK /\ ReplaceInv /\ HistoryBounded /\ TaskInv /\ ListenInv /\ AlertKept
  BY DEF OcrInv
<1>1. \A g \in Files : task'[g] = IF g = f THEN step ELSE task[g]
  BY <1>t DEF GotoTask, OcrTypeOK
<1>2. OcrTypeOK'
  BY <1>t DEF GotoTask, OcrTypeOK, setVars, frameVars
<1>3. ReplaceInv'
  BY <1>t, ReplaceKept
<1>4. HistoryBounded'
  <2>1. Trimming' = Trimming
    BY <1>1 DEF Trimming
  <2> QED BY <1>t, <2>1, BoundKept
<1>5. TaskInv'
  <2>1. ASSUME NEW g \in Files, g # f PROVE TaskAt(g)'
    <3>1. /\ TaskAt(g) /\ task'[g] = task[g] /\ (g \in temp' <=> g \in temp)
          /\ mishap'[g] = mishap[g] /\ backend' = backend
      BY <1>1, <1>t, <2>1 DEF TaskInv
    <3> QED BY <3>1 DEF TaskAt, Leaves
  <2> QED BY <2>1 DEF TaskInv
<1>6. ListenInv'
  BY <1>t DEF ListenInv, frameVars
<1>7. AlertKept'
  <2>1. \A g \in Files \ {f} : Published(g)' => Published(g)
    BY <1>1 DEF Published
  <2> QED BY <1>t, <2>1, AlertUnmoved
<1> QED BY <1>2, <1>3, <1>4, <1>5, <1>6, <1>7 DEF OcrInv

(***************************************************************************)
(* A step of a listener preserves the invariant if it keeps what it knows  *)
(* of its own round.                                                       *)
(***************************************************************************)
LEMMA ListenerGoesOn ==
    ASSUME OcrInv, UNCHANGED <<backend, setVars, taskVars, excused>>,
           listener' \in [Replicas -> [file : Files \cup {"none", "off", "dead"}, to : SUBSET Conns]],
           inbox' \in [Replicas -> SUBSET Files],
           reached' \in [Files -> SUBSET Conns], missed' \in [Files -> SUBSET Conns],
           ListenInv', AlertKept'
    PROVE  OcrInv'
<1>t. OcrTypeOK /\ ReplaceInv /\ HistoryBounded /\ TaskInv
  BY DEF OcrInv
<1>1. OcrTypeOK'
  BY <1>t DEF OcrTypeOK, setVars, taskVars
<1>2. ReplaceInv'
  BY <1>t, ReplaceKept
<1>3. HistoryBounded'
  BY <1>t, BoundKept DEF Trimming, taskVars
<1>4. TaskInv'
  BY <1>t, TaskKept DEF taskVars
<1> QED BY <1>1, <1>2, <1>3, <1>4 DEF OcrInv

(***************************************************************************)
(* Every step preserves the invariant.                                     *)
(***************************************************************************)
LEMMA OcrInvStep == OcrInv /\ [OcrNext]_ocrVars => OcrInv'
<1> SUFFICES ASSUME OcrInv, [OcrNext]_ocrVars PROVE OcrInv'
  OBVIOUS
<1> USE OcrAssumption
<1>t. OcrTypeOK /\ ReplaceInv /\ HistoryBounded /\ TaskInv /\ ListenInv /\ AlertKept
  BY DEF OcrInv
<1>0. ASSUME UNCHANGED <<backend, taskVars, frameVars>>, "trim" \in excused => "trim" \in excused',
             excused' \subseteq {"set", "trim"}, ReplaceInv',
             keywords' \subseteq Keywords, wanted' \subseteq Keywords,
             setter' \in [Setters -> [pc : {"idle", "sadd"}, new : SUBSET Keywords]]
      PROVE  OcrInv'
  \* A step of a replacement.
  <2>1. OcrTypeOK'
    BY <1>0, <1>t DEF OcrTypeOK, taskVars, frameVars
  <2>2. HistoryBounded'
    BY <1>0, <1>t, BoundKept DEF Trimming, taskVars
  <2>3. TaskInv'
    BY <1>0, <1>t, TaskKept DEF taskVars
  <2>4. ListenInv'
    BY <1>0, <1>t DEF ListenInv, frameVars
  <2>5. AlertKept'
    BY <1>0, <1>t, AlertUnmoved DEF Published, taskVars
  <2> QED BY <1>0, <2>1, <2>2, <2>3, <2>4, <2>5 DEF OcrInv
<1>1. ASSUME NEW s \in Setters, NEW new \in SUBSET Keywords, set_user_keywords(s, new)
      PROVE  OcrInv'
  <2>1. /\ setter[s].pc = "idle" /\ keywords' = {} /\ wanted' = new
        /\ setter' = [setter EXCEPT ![s] = [pc |-> "sadd", new |-> new]]
        /\ excused' = AfterDel
        /\ UNCHANGED <<backend, taskVars, frameVars>>
    BY <1>1 DEF set_user_keywords
  <2>2. /\ excused' \subseteq {"set", "trim"} /\ ("trim" \in excused => "trim" \in excused')
        /\ (\E q \in Setters : setter[q].pc = "sadd") => "set" \in excused'
    BY <2>1, <1>t DEF AfterDel, OcrTypeOK
  <2>3. ReplaceInv'
    <3>1. \A q \in Setters : setter'[q] = IF q = s THEN [pc |-> "sadd", new |-> new] ELSE setter[q]
      BY <2>1, <1>t DEF OcrTypeOK
    <3> QED BY <2>1, <2>2, <3>1 DEF ReplaceInv
  <2>4. setter' \in [Setters -> [pc : {"idle", "sadd"}, new : SUBSET Keywords]]
    BY <2>1, <1>t DEF OcrTypeOK
  <2> QED BY <1>0, <2>1, <2>2, <2>3, <2>4
<1>1a. ASSUME NEW s \in Setters, NEW new \in SUBSET Keywords, DelFails(s, new) PROVE OcrInv'
  <2>1. ReplaceInv'
    BY <1>1a DEF DelFails, ReplaceInv
  <2> QED BY <1>0, <1>1a, <2>1, <1>t DEF DelFails, OcrTypeOK
<1>2. ASSUME NEW s \in Setters, AddKeywords(s) \/ AddKeywordsFails(s) PROVE OcrInv'
  <2>1. /\ setter[s].pc = "sadd" /\ setter' = [setter EXCEPT ![s] = Idle]
        /\ UNCHANGED <<backend, wanted, taskVars, frameVars>>
        /\ \/ keywords' = keywords \cup setter[s].new /\ excused' = excused
           \/ keywords' = keywords /\ excused' = excused \cup {"set"}
    BY <1>2 DEF AddKeywords, AddKeywordsFails
  <2>2. setter' \in [Setters -> [pc : {"idle", "sadd"}, new : SUBSET Keywords]]
    BY <2>1, <1>t DEF OcrTypeOK, Idle
  <2>3. ReplaceInv'
    <3>1. \A q \in Setters : setter'[q] = IF q = s THEN Idle ELSE setter[q]
      BY <2>1, <1>t DEF OcrTypeOK
    <3>2. setter'[s].pc = "idle"
      BY <3>1 DEF Idle
    <3>3. CASE "set" \in excused
      BY <2>1, <3>3 DEF ReplaceInv
    <3>4. CASE "set" \notin excused
      <4>1. /\ keywords = {} /\ wanted = setter[s].new
            /\ \A q \in Setters : setter[q].pc = "sadd" => q = s
        BY <2>1, <3>4, <1>t DEF ReplaceInv
      <4>2. \A q \in Setters : setter'[q].pc # "sadd"
        BY <3>1, <3>2, <4>1
      <4> QED BY <2>1, <4>1, <4>2 DEF ReplaceInv
    <3> QED BY <3>3, <3>4
  <2>4. keywords' \subseteq Keywords /\ wanted' \subseteq Keywords /\ excused' \subseteq {"set", "trim"}
    BY <2>1, <1>t DEF OcrTypeOK
  <2> QED BY <1>0, <2>1, <2>2, <2>3, <2>4
<1>3. ASSUME NEW f \in Files, upload_media(f) PROVE OcrInv'
  <2>1. task'[f] = "read" /\ f \in temp' /\ UNCHANGED <<backend, mishap>> /\ mishap[f] = {}
    BY <1>3, <1>t DEF upload_media, GotoTask, OcrTypeOK, TaskInv, TaskAt
  <2>2. TaskAt(f)' /\ ~Published(f)'
    BY <2>1 DEF TaskAt, Leaves, Published
  <2> QED BY <1>3, <2>2, <1>t, TaskGoesOn DEF upload_media, OcrTypeOK
<1>4. ASSUME NEW f \in Files, CreateFails(f) \/ WriteFails(f) PROVE OcrInv'
  <2>1. PICK what \in {"create", "write"} :
          /\ task[f] = "none" /\ GotoTask(f, "done") /\ mishap' = [mishap EXCEPT ![f] = @ \cup {what}]
          /\ temp' = IF what = "write" THEN temp \cup {f} ELSE temp
          /\ UNCHANGED <<backend, setVars, history, frameVars, excused>>
    BY <1>4 DEF CreateFails, WriteFails, Befalls
  <2>2. task'[f] = "done" /\ mishap'[f] = {what} /\ (f \in temp' <=> what = "write")
    BY <2>1, <1>t DEF GotoTask, OcrTypeOK, TaskInv, TaskAt
  <2>3. TaskAt(f)' /\ ~Published(f)'
    BY <2>2 DEF TaskAt, Leaves, Published
  <2> QED BY <2>1, <2>3, <1>t, TaskGoesOn DEF OcrTypeOK
<1>5. ASSUME NEW f \in Files, get_user_keywords(f) PROVE OcrInv'
  <2>1. PICK step \in {"remove", "lpush", "publish"} :
          GotoTask(f, step) /\ (step = "lpush" => f \in backend) /\ (step = "remove" => keywords = {})
    BY <1>5 DEF get_user_keywords
  <2>2. PICK what \in SUBSET {"empty"} :
          mishap' = [mishap EXCEPT ![f] = @ \cup what] /\ (keywords = {} => what = {"empty"})
    BY <1>5 DEF get_user_keywords, Befalls
  <2>3. task[f] = "read" /\ UNCHANGED <<backend, setVars, temp, history, frameVars, excused>>
    BY <1>5 DEF get_user_keywords
  <2>4. /\ task'[f] = step /\ mishap'[f] = mishap[f] \cup what
        /\ f \in temp /\ ~Leaves(f)
    BY <2>1, <2>2, <2>3, <1>t DEF GotoTask, OcrTypeOK, TaskInv, TaskAt
  <2>5. TaskAt(f)' /\ ~Published(f)'
    BY <2>1, <2>2, <2>3, <2>4 DEF TaskAt, Leaves, Published
  <2> QED BY <2>1, <2>2, <2>3, <2>5, <1>t, TaskGoesOn DEF OcrTypeOK
<1>6. ASSUME NEW f \in Files, publish_ocr_alert(f) PROVE OcrInv'
  <2>1. /\ task[f] = "publish" /\ task' = [task EXCEPT ![f] = "remove"]
        /\ inbox' = [r \in Replicas |-> IF Subscribed(r) THEN inbox[r] \cup {f} ELSE inbox[r]]
        /\ missed' = [missed EXCEPT ![f] = {c \in Conns : ~Subscribed(Host[c])}]
        /\ UNCHANGED <<backend, keywords, wanted, setter, temp, history, mishap, listener, reached, excused>>
    BY <1>6 DEF publish_ocr_alert, GotoTask, setVars
  <2>2. \A g \in Files : task'[g] = IF g = f THEN "remove" ELSE task[g]
    BY <2>1, <1>t DEF OcrTypeOK
  <2>3. OcrTypeOK'
    BY <2>1, <1>t DEF OcrTypeOK
  <2>4. ReplaceInv'
    BY <2>1, <1>t, ReplaceKept DEF setVars
  <2>5. HistoryBounded'
    <3>1. Trimming' = Trimming
      BY <2>1, <2>2 DEF Trimming
    <3> QED BY <2>1, <1>t, <3>1, BoundKept
  <2>6. TaskInv'
    BY <2>1, <2>2, <1>t DEF TaskInv, TaskAt, Leaves
  <2>7. ListenInv'
    BY <2>1, <1>t DEF ListenInv
  <2>8. AlertKept'
    <3>1. ASSUME NEW g \in Files, Published(g)', NEW c \in Conns
          PROVE  c \in reached'[g] \cup missed'[g] \/ Underway(g, c)'
      <4>1. Host[c] \in Replicas
        OBVIOUS
      <4>2. CASE g = f
        <5>1. CASE Subscribed(Host[c])
          BY <2>1, <4>1, <4>2, <5>1 DEF Underway
        <5>2. CASE ~Subscribed(Host[c])
          BY <2>1, <4>1, <4>2, <5>2, <1>t DEF OcrTypeOK
        <5> QED BY <5>1, <5>2
      <4>3. CASE g # f
        <5>1. Published(g)
          BY <2>1, <2>2, <3>1, <4>3 DEF Published
        <5>2. c \in reached[g] \cup missed[g] \/ Underway(g, c)
          BY <5>1, <1>t DEF AlertKept
        <5>3. missed'[g] = missed[g] /\ inbox[Host[c]] \subseteq inbox'[Host[c]]
          BY <2>1, <4>1, <4>3, <1>t DEF OcrTypeOK
        <5> QED BY <2>1, <5>2, <5>3 DEF Underway
      <4> QED BY <4>2, <4>3
    <3> QED BY <3>1 DEF AlertKept
  <2> QED BY <2>3, <2>4, <2>5, <2>6, <2>7, <2>8 DEF OcrInv
<1>7. ASSUME NEW f \in Files, PushAlert(f) PROVE OcrInv'
  <2>1. /\ task[f] = "lpush" /\ task' = [task EXCEPT ![f] = "ltrim"] /\ history' = <<f>> \o history
        /\ UNCHANGED <<backend, keywords, wanted, setter, temp, mishap, listener, inbox, reached,
                       missed, excused>>
    BY <1>7 DEF PushAlert, GotoTask, setVars, frameVars
  <2>a. \A g \in Files : task'[g] = IF g = f THEN "ltrim" ELSE task[g]
    BY <2>1, <1>t DEF OcrTypeOK
  <2>2. history' \in Seq(Files) /\ Len(history') = Len(history) + 1
    <3>1. <<f>> \in Seq(Files) /\ Len(<<f>>) = 1 /\ history \in Seq(Files)
      BY <1>t DEF OcrTypeOK
    <3>2. Len(history) \in Nat
      BY <3>1, LenProperties
    <3> QED BY <2>1, <3>1, <3>2, ConcatProperties
  <2>3. OcrTypeOK'
    BY <2>1, <2>2, <1>t DEF OcrTypeOK
  <2>4. ReplaceInv'
    BY <2>1, <1>t, ReplaceKept DEF setVars
  <2>5. HistoryBounded'
    <3>1. f \notin Trimming /\ Trimming' = Trimming \cup {f}
      BY <2>1, <1>t DEF Trimming, OcrTypeOK
    <3>2. Cardinality(Trimming') = Cardinality(Trimming) + 1
      BY <3>1, TrimmingFinite, FS_AddElement
    <3>3. Len(history) \in Nat /\ Cardinality(Trimming) \in Nat
      BY <1>t, LenProperties, TrimmingFinite DEF OcrTypeOK
    <3> HIDE DEF Trimming
    <3>4. "trim" \in excused \/ Len(history) <= OCR_ALERT_HISTORY_LIMIT + Cardinality(Trimming)
      BY <1>t DEF HistoryBounded, Trimming
    <3>5. "trim" \in excused' \/ Len(history') <= OCR_ALERT_HISTORY_LIMIT + Cardinality(Trimming')
      BY <2>1, <2>2, <3>2, <3>3, <3>4
    <3> QED BY <3>5 DEF HistoryBounded, Trimming
  <2>6. TaskInv'
    BY <2>1, <2>a, <1>t DEF TaskInv, TaskAt, Leaves
  <2>7. ListenInv'
    BY <2>1, <1>t DEF ListenInv
  <2>8. AlertKept'
    BY <2>1, <2>a, <1>t, AlertUnmoved DEF Published, frameVars
  <2> QED BY <2>3, <2>4, <2>5, <2>6, <2>7, <2>8 DEF OcrInv
<1>8. ASSUME NEW f \in Files, TrimHistory(f) PROVE OcrInv'
  <2>1. /\ task[f] = "ltrim" /\ task' = [task EXCEPT ![f] = "send"] /\ history' = Trim
        /\ excused' = excused \ {"trim"}
        /\ UNCHANGED <<backend, keywords, wanted, setter, temp, mishap, listener, inbox, reached, missed>>
    BY <1>8 DEF TrimHistory, GotoTask, setVars, frameVars
  <2>a. \A g \in Files : task'[g] = IF g = f THEN "send" ELSE task[g]
    BY <2>1, <1>t DEF OcrTypeOK
  <2>2. history' \in Seq(Files) /\ Len(history') <= OCR_ALERT_HISTORY_LIMIT /\ Len(history') \in Nat
    BY <2>1, <1>t, TrimBounded, LenProperties DEF OcrTypeOK
  <2>3. OcrTypeOK'
    BY <2>1, <2>2, <1>t DEF OcrTypeOK
  <2>4. ReplaceInv'
    BY <2>1, <1>t, ReplaceKept DEF setVars
  <2>5. HistoryBounded'
    <3>1. Cardinality(Trimming') \in Nat
      BY TrimmingFinite
    <3>2. Len(history') <= OCR_ALERT_HISTORY_LIMIT + Cardinality(Trimming')
      BY <2>2, <3>1
    <3> QED BY <3>2 DEF HistoryBounded, Trimming
  <2>6. TaskInv'
    BY <2>1, <2>a, <1>t DEF TaskInv, TaskAt, Leaves
  <2>7. ListenInv'
    BY <2>1, <1>t DEF ListenInv
  <2>8. AlertKept'
    BY <2>1, <2>a, <1>t, AlertUnmoved DEF Published, frameVars
  <2> QED BY <2>3, <2>4, <2>5, <2>6, <2>7, <2>8 DEF OcrInv
<1>9. ASSUME NEW f \in Files, send_personal_message(f) PROVE OcrInv'
  <2>1. task'[f] = "remove" /\ f \in backend /\ f \in temp /\ ~Leaves(f) /\ UNCHANGED <<backend, temp, mishap>>
    BY <1>9, <1>t DEF send_personal_message, GotoTask, OcrTypeOK, TaskInv, TaskAt
  <2>2. TaskAt(f)' /\ ~Published(f)'
    BY <2>1 DEF TaskAt, Leaves, Published
  <2> QED BY <1>9, <2>2, <1>t, TaskGoesOn DEF send_personal_message, OcrTypeOK
<1>10. ASSUME NEW f \in Files, RemoveTemp(f) PROVE OcrInv'
  <2>1. /\ task[f] = "remove" /\ task'[f] = "done" /\ f \notin temp' /\ ~Leaves(f)
        /\ UNCHANGED <<backend, mishap>>
    BY <1>10, <1>t DEF RemoveTemp, GotoTask, OcrTypeOK, TaskInv, TaskAt
  <2>2. TaskAt(f)' /\ (Published(f)' => Published(f))
    BY <2>1 DEF TaskAt, Leaves, Published
  <2> QED BY <1>10, <2>2, <1>t, TaskGoesOn DEF RemoveTemp, OcrTypeOK
<1>11. ASSUME NEW f \in Files, RemoveTempFails(f) PROVE OcrInv'
  <2>1. /\ task[f] = "remove" /\ task'[f] = "done" /\ f \in temp' /\ mishap'[f] = mishap[f] \cup {"unlink"}
        /\ UNCHANGED backend
    BY <1>11, <1>t DEF RemoveTempFails, Befalls, GotoTask, OcrTypeOK, TaskInv, TaskAt
  <2>2. TaskAt(f)' /\ (Published(f)' => Published(f))
    BY <2>1 DEF TaskAt, Leaves, Published
  <2> QED BY <1>11, <2>2, <1>t, TaskGoesOn DEF RemoveTempFails, Befalls, OcrTypeOK
<1>12. ASSUME NEW f \in Files, TaskFails(f) PROVE OcrInv'
  <2> DEFINE step == IF f \in backend THEN "done" ELSE "remove"
  <2>1. /\ task[f] \in {"read", "publish", "lpush", "ltrim", "send"} /\ task' = [task EXCEPT ![f] = step]
        /\ mishap' = [mishap EXCEPT ![f] = @ \cup {"task"}]
        /\ excused \subseteq excused' /\ excused' \subseteq excused \cup {"trim"}
        /\ task[f] = "ltrim" => "trim" \in excused'
        /\ UNCHANGED <<backend, keywords, wanted, setter, temp, history, listener, inbox, reached, missed>>
    BY <1>12 DEF TaskFails, Befalls, GotoTask, setVars, frameVars
  <2>2. OcrTypeOK'
    BY <2>1, <1>t DEF OcrTypeOK
  <2>3. ReplaceInv'
    BY <2>1, <1>t, ReplaceKept DEF setVars
  <2>4. HistoryBounded'
    <3>1. CASE task[f] = "ltrim"
      BY <2>1, <3>1 DEF HistoryBounded
    <3>2. CASE task[f] # "ltrim"
      <4>1. Trimming' = Trimming
        BY <2>1, <3>2, <1>t DEF Trimming, OcrTypeOK
      <4> QED BY <2>1, <4>1, <1>t, BoundKept
    <3> QED BY <3>1, <3>2
  <2>5. \A g \in Files : /\ task'[g] = IF g = f THEN step ELSE task[g]
                         /\ mishap'[g] = IF g = f THEN mishap[f] \cup {"task"} ELSE mishap[g]
    BY <2>1, <1>t DEF OcrTypeOK
  <2>6. TaskInv'
    <3>1. TaskAt(f)'
      BY <2>1, <2>5, <1>t DEF TaskInv, TaskAt, Leaves
    <3>2. ASSUME NEW g \in Files, g # f PROVE TaskAt(g)'
      BY <2>1, <2>5, <3>2, <1>t DEF TaskInv, TaskAt, Leaves
    <3> QED BY <3>1, <3>2 DEF TaskInv
  <2>7. ListenInv'
    BY <2>1, <1>t DEF ListenInv
  <2>8. AlertKept'
    <3>1. ASSUME NEW g \in Files, Published(g)' PROVE Published(g)
      BY <2>1, <2>5, <3>1 DEF Published
    <3> QED BY <2>1, <3>1, <1>t, AlertUnmoved DEF frameVars
  <2> QED BY <2>2, <2>3, <2>4, <2>6, <2>7, <2>8 DEF OcrInv
<1>13. ASSUME NEW r \in Replicas, Subscribe(r) PROVE OcrInv'
  <2>1. /\ listener[r] = Off /\ listener' = [listener EXCEPT ![r] = Quiet]
        /\ UNCHANGED <<backend, setVars, task, temp, history, mishap, inbox, reached, missed, excused>>
    BY <1>13 DEF Subscribe, taskVars
  <2>2. ListenInv'
    BY <2>1, <1>t DEF ListenInv, Quiet, OcrTypeOK
  <2>3. AlertKept'
    <3>1. \A q \in Replicas : listener'[q] = listener[q] \/ listener[q].to = {}
      BY <2>1, <1>t DEF Off, OcrTypeOK
    <3> QED BY <2>1, <3>1, <1>t DEF AlertKept, Published, Underway
  <2> QED BY <2>1, <2>2, <2>3, <1>t, ListenerGoesOn DEF Quiet, OcrTypeOK, taskVars
<1>14. ASSUME NEW r \in Replicas, NEW f \in Files, listen_ocr_alerts(r, f) PROVE OcrInv'
  <2>1. /\ listener[r] = Quiet /\ listener' = [listener EXCEPT ![r] = [file |-> f, to |-> Conns]]
        /\ inbox' = [inbox EXCEPT ![r] = @ \ {f}]
        /\ UNCHANGED <<backend, setVars, task, temp, history, mishap, reached, missed, excused>>
    BY <1>14 DEF listen_ocr_alerts, taskVars
  <2>2. ListenInv'
    BY <2>1, <1>t DEF ListenInv, OcrTypeOK
  <2>3. AlertKept'
    <3>1. ASSUME NEW g \in Files, NEW c \in Conns, Underway(g, c) PROVE Underway(g, c)'
      <4>1. Host[c] \in Replicas
        OBVIOUS
      <4>2. CASE Host[c] # r
        BY <2>1, <3>1, <4>1, <4>2, <1>t DEF Underway, OcrTypeOK
      <4>3. CASE Host[c] = r
        <5>1. g \in inbox[r]
          BY <2>1, <3>1, <4>3 DEF Underway, Quiet
        <5>2. /\ inbox'[r] = inbox[r] \ {f}
              /\ listener'[r].file = f /\ listener'[r].to = Conns
          BY <2>1, <1>t DEF OcrTypeOK
        <5> QED BY <4>3, <5>1, <5>2 DEF Underway
      <4> QED BY <4>2, <4>3
    <3> QED BY <2>1, <3>1, <1>t DEF AlertKept, Published
  <2> QED BY <2>1, <2>2, <2>3, <1>t, ListenerGoesOn DEF OcrTypeOK, taskVars
<1>15. ASSUME NEW r \in Replicas, NEW f \in Files, SmembersFails(r, f) PROVE OcrInv'
  <2>1. /\ inbox' = [inbox EXCEPT ![r] = @ \ {f}]
        /\ missed' = [missed EXCEPT ![f] = @ \cup Local(r)]
        /\ UNCHANGED <<backend, setVars, task, temp, history, mishap, listener, reached, excused>>
    BY <1>15 DEF SmembersFails, taskVars
  <2>2. ListenInv'
    BY <2>1, <1>t DEF ListenInv
  <2>3. AlertKept'
    <3>1. ASSUME NEW g \in Files, NEW c \in Conns, c \in missed[g] \/ Underway(g, c)
          PROVE  c \in missed'[g] \/ Underway(g, c)'
      BY <2>1, <3>1, <1>t DEF Underway, Local, OcrTypeOK
    <3> QED BY <2>1, <3>1, <1>t DEF AlertKept, Published
  <2> QED BY <2>1, <2>2, <2>3, <1>t, ListenerGoesOn DEF OcrTypeOK, taskVars, Local
<1>16. ASSUME NEW r \in Replicas, NEW c \in Conns, send_local(r, c) PROVE OcrInv'
  <2>1. /\ AfterSend(r, c) \in [file : Files \cup {"none", "off", "dead"}, to : SUBSET Conns]
        /\ AfterSend(r, c).to # {} => AfterSend(r, c).file = listener[r].file
        /\ \A d \in listener[r].to \ {c} : d \in AfterSend(r, c).to
    BY <1>t DEF AfterSend, Quiet, OcrTypeOK
  <2>2. listener[r].file \in Files
    BY <1>16, <1>t DEF send_local, ListenInv
  <2>3. /\ listener' = [listener EXCEPT ![r] = AfterSend(r, c)]
        /\ reached' = IF Host[c] = r THEN [reached EXCEPT ![listener[r].file] = @ \cup {c}] ELSE reached
        /\ UNCHANGED <<backend, setVars, task, temp, history, mishap, inbox, missed, excused>>
    BY <1>16 DEF send_local, taskVars
  <2>4. ListenInv'
    BY <2>1, <2>2, <2>3, <1>t DEF ListenInv, OcrTypeOK
  <2>5. AlertKept'
    <3>1. ASSUME NEW g \in Files, NEW d \in Conns, d \in reached[g] \/ Underway(g, d)
          PROVE  d \in reached'[g] \/ Underway(g, d)'
      <4>1. Host[d] \in Replicas /\ reached[g] \subseteq reached'[g]
        BY <2>2, <2>3, <1>t DEF OcrTypeOK
      <4>2. CASE d \in reached[g] \/ g \in inbox[Host[d]]
        BY <2>3, <4>1, <4>2 DEF Underway
      <4>3. CASE listener[Host[d]].file = g /\ d \in listener[Host[d]].to
        <5>1. CASE Host[d] # r
          BY <2>3, <4>1, <4>3, <5>1, <1>t DEF Underway, OcrTypeOK
        <5>2. CASE Host[d] = r /\ d = c
          BY <2>2, <2>3, <4>3, <5>2, <1>t DEF OcrTypeOK
        <5>3. CASE Host[d] = r /\ d # c
          <6>1. listener'[r] = AfterSend(r, c)
            BY <2>3, <1>t DEF OcrTypeOK
          <6> QED BY <2>1, <4>3, <5>3, <6>1 DEF Underway
        <5> QED BY <5>1, <5>2, <5>3
      <4> QED BY <3>1, <4>2, <4>3 DEF Underway
    <3> QED BY <2>3, <3>1, <1>t DEF AlertKept, Published
  <2>6. reached' \in [Files -> SUBSET Conns]
    BY <2>2, <2>3, <1>t DEF OcrTypeOK
  <2> QED BY <2>1, <2>3, <2>4, <2>5, <2>6, <1>t, ListenerGoesOn DEF OcrTypeOK, taskVars
<1>17. ASSUME NEW r \in Replicas, NEW c \in Conns, send_localFails(r, c) PROVE OcrInv'
  <2>1. /\ listener[r].file \in Files /\ listener' = [listener EXCEPT ![r] = Quiet]
        /\ missed' = [missed EXCEPT ![listener[r].file] = @ \cup (listener[r].to \cap Local(r))]
        /\ UNCHANGED <<backend, setVars, task, temp, history, mishap, inbox, reached, excused>>
    BY <1>17, <1>t DEF send_localFails, ListenInv, taskVars
  <2>2. ListenInv'
    BY <2>1, <1>t DEF ListenInv, Quiet, OcrTypeOK
  <2>3. listener' \in [Replicas -> [file : Files \cup {"none", "off", "dead"}, to : SUBSET Conns]]
    BY <2>1, <1>t DEF Quiet, OcrTypeOK
  <2>4. AlertKept'
    <3>1. ASSUME NEW g \in Files, NEW d \in Conns, d \in missed[g] \/ Underway(g, d)
          PROVE  d \in missed'[g] \/ Underway(g, d)'
      <4>1. Host[d] \in Replicas
        OBVIOUS
      <4>2. CASE Host[d] # r
        BY <2>1, <3>1, <4>1, <4>2, <1>t DEF Underway, OcrTypeOK
      <4>3. CASE Host[d] = r
        BY <2>1, <3>1, <4>3, <1>t DEF Underway, Local, OcrTypeOK
      <4> QED BY <4>2, <4>3
    <3> QED BY <2>1, <3>1, <1>t DEF AlertKept, Published
  <2> QED BY <2>1, <2>2, <2>3, <2>4, <1>t, ListenerGoesOn DEF OcrTypeOK, taskVars
<1>18. ASSUME NEW r \in Replicas, ListenerDies(r) PROVE OcrInv'
  <2> DEFINE Cut(f) == {c \in Local(r) : Underway(f, c)}
  <2>1. /\ listener' = [listener EXCEPT ![r] = Dead] /\ inbox' = [inbox EXCEPT ![r] = {}]
        /\ missed' = [f \in Files |-> missed[f] \cup Cut(f)]
        /\ UNCHANGED <<backend, setVars, task, temp, history, mishap, reached, excused>>
    BY <1>18 DEF ListenerDies, taskVars
  <2>2. ListenInv'
    BY <2>1, <1>t DEF ListenInv, Dead, OcrTypeOK
  <2>3. \A f \in Files : Cut(f) \subseteq Conns
    BY DEF Local
  <2>4. AlertKept'
    <3>1. ASSUME NEW g \in Files, NEW d \in Conns, d \in missed[g] \/ Underway(g, d)
          PROVE  d \in missed'[g] \/ Underway(g, d)'
      <4>1. Host[d] \in Replicas
        OBVIOUS
      <4>2. CASE Host[d] # r
        BY <2>1, <3>1, <4>1, <4>2, <1>t DEF Underway, OcrTypeOK
      <4>3. CASE Host[d] = r
        <5>1. d \in Local(r)
          BY <4>3 DEF Local
        <5>2. Underway(g, d) => d \in Cut(g)
          BY <5>1
        <5> QED BY <2>1, <3>1, <5>2
      <4> QED BY <4>2, <4>3
    <3> QED BY <2>1, <3>1, <1>t DEF AlertKept, Published
  <2> HIDE DEF Cut
  <2> QED BY <2>1, <2>2, <2>3, <2>4, <1>t, ListenerGoesOn DEF OcrTypeOK, taskVars, Dead
<1>19. CASE UNCHANGED ocrVars
  <2>1. ListenInv'
    BY <1>19, <1>t DEF ocrVars, frameVars, ListenInv
  <2>2. AlertKept'
    BY <1>19, <1>t, AlertUnmoved DEF ocrVars, taskVars, Published
  <2> QED BY <1>19, <2>1, <2>2, <1>t, ListenerGoesOn DEF ocrVars, frameVars, OcrTypeOK
<1> QED BY <1>1, <1>1a, <1>2, <1>3, <1>4, <1>5, <1>6, <1>7, <1>8, <1>9, <1>10, <1>11, <1>12, <1>13,
           <1>14, <1>15, <1>16, <1>17, <1>18, <1>19
        DEF OcrNext, TaskStep, TaskMishap, ListenerStep, ListenerMishap

(***************************************************************************)
(* OcrInv holds in every reachable state.                                  *)
(***************************************************************************)
THEOREM OcrInvariance == OcrSpec => []OcrInv
BY OcrInvInit, OcrInvStep, PTL DEF OcrSpec

(***************************************************************************)
(* Keywords, tasks, history and listeners keep their types.                *)
(***************************************************************************)
THEOREM OcrTypeCorrect == OcrSpec => []OcrTypeOK
<1>1. OcrInv => OcrTypeOK
  BY DEF OcrInv
<1> QED BY <1>1, OcrInvariance, PTL

(***************************************************************************)
(* For any number of replacements, the keywords between them are what the  *)
(* last one asked for, unless two overlapped or a command failed since the *)
(* last DEL that nothing overlapped.                                       *)
(***************************************************************************)
THEOREM KeywordsAreRequested == OcrSpec => []KeywordsAsRequested
<1>1. OcrInv => KeywordsAsRequested
  BY DEF OcrInv, ReplaceInv, KeywordsAsRequested
<1> QED BY <1>1, OcrInvariance, PTL

(***************************************************************************)
(* For any number of tasks and any limit, LPUSH and LTRIM as two commands  *)
(* let the history outgrow the limit by no more than the tasks between the *)
(* two.                                                                    *)
(***************************************************************************)
THEOREM HistoryStaysBounded == OcrSpec => []HistoryBounded
<1>1. OcrInv => HistoryBounded
  BY DEF OcrInv
<1> QED BY <1>1, OcrInvariance, PTL

(***************************************************************************)
(* A temporary copy is left behind exactly by a failing write or removal,  *)
(* and in process_ocr by an exception between them.                        *)
(***************************************************************************)
THEOREM NoTempLeft == OcrSpec => []TempRemoved
<1>1. OcrInv => TempRemoved
  BY DEF OcrInv, TaskInv, TaskAt, TempRemoved
<1> QED BY <1>1, OcrInvariance, PTL

(***************************************************************************)
(* For any number of processes and connections, a published alert waits    *)
(* for every connection until it is sent or its own process has failed it. *)
(***************************************************************************)
THEOREM AlertIsKept == OcrSpec => []AlertKept
<1>1. OcrInv => AlertKept
  BY DEF OcrInv
<1> QED BY <1>1, OcrInvariance, PTL
=============================================================================
