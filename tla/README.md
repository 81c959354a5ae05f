# IronLink: TLA+ models, checks and proofs

IronLink is a chat system: a FastAPI server (`app/`), a second backend tree
(`backend/app/`: channels, communities, key directory, OCR media), a Flutter
client (`frontend/lib/`) and an admin panel (`ironlink_admin/`). Several API
replicas run side by side. They share PostgreSQL (through SQLAlchemy sessions,
one per request, READ COMMITTED, no row locks), Redis (keys with TTLs, sets,
Pub/Sub) and MinIO (media objects). Everything is asyncio: a handler is
interleaved with every other handler at each `await`, so each Redis command,
commit, publish or MinIO call is a separate step of the models.

**Names that do not resolve.** Several source files use names that are not
imported, so some paths raise as written: `redis` from `app.core.redis` in
`ws_manager.py`, `asyncio` in `main.py`, `select` in `receipts.py` and in
`broadcast_typing` and `broadcast_read` of `ws_manager.py`, `normalize_text` and
`logger` in `app/api/routes/media.py` (so `_process_ocr` fails for a user who
has keywords), `List` from `pydantic` in `ocr.py`, `io` in
`backend/.../media.py`, `CommunityRole` in `communities.py`; no class has the
`send_personal_message` that `backend/.../media.py` calls on its `manager` (line 158);
`backend/app/models/channel.py` does not parse (line 2). `ocr.py` awaits the
plain functions of `app/redis.py`, so its endpoints raise after the change is
made. The models read the logic as written, with those names resolved in the
obvious way: they say what the code does once it runs. For
`send_personal_message` there is no obvious way: the models let it return or
raise, and say nothing about whom it reaches.

## Inventory

| Part | State | Operations | Hard because of | Right when |
|---|---|---|---|---|
| OTP service (`otp_service.py`) | `otp:code`, `otp:attempts` with TTLs | `issue`, `verify` | separate Redis commands, expiry, lost requests | guesses are bounded, codes are consumed |
| OTP rate limit (`auth.py`) | cooldown, hourly and per-address counters | `_rate_limit_otp`, `request_otp` | check-then-set, INCR without EXPIRE | limits hold, lockouts end |
| Login and sessions (`auth.py`, `deps.py`, `admin.py`) | user row, session rows, JWTs, `ws:ticket` keys | `verify`, `get_current_user`, `create_ws_ticket`, `revoke_session`, `set_user_status` | stale ORM reads | old tokens die, suspensions stick, tickets are single use |
| Presence (`ws_manager.py`, `websocket.py`) | `ws:conn`, `ws:user`, `ws:online`, relay tasks | `register`, `heartbeat`, `unregister`, relay | several replicas, crashes, SCARD then SREM | no ghosts, no connected user offline |
| Messages (`message_service.py`, `websocket.py`, `self_destruct_worker.py`, `chats.py`) | message rows, media objects, frames | save, receipts, unsend, sweep, history | commit and publish are separate, one worker per replica, partial failure | seen is stored, destructed is gone |
| HTTP receipts and typing (`receipts.py`, `ws_manager.py`) | message rows, frames | delivered, read, typing | a second path to the same rows, members read twice | a receipt is true, frames stay inside the group |
| Media upload (`media.py`, `storage_service.py`, `media_service.dart`) | upload key, chunk set, staging objects | init, chunk, status, complete, resume | two completes, expiring state, another cut on resume | the stored object is the file sent |
| Groups (`groups.py`, `models/group.py`) | member and request rows, audit entries | create, join, decide | two decisions on one request | membership matches the decision |
| Broadcasts (`broadcasts.py`, `admin.py`, `broadcast_banner.dart`) | broadcast and ack rows, frames, banners | send, unacked, ack | lost frames, an answer older than a frame, several devices | a notice is shown, and stays until acknowledged |
| Key directory (`backend/.../encryption_service.py`, `keys.py`) | identity columns, pre-key hashes, signed pre-key | create, generate, store, consume, sign, fetch | HGET then HDEL, two HSETs, expiry | a pre-key is used once, keys fit their signatures |
| Channels and communities (`backend/.../channels.py`, `communities.py`) | counters, membership, RSVP and other rows | create, join, leave, answer, post, delete | lost updates, two commits, foreign keys | counters match rows, nothing dangles |
| OCR alerts (`app/redis.py`, `ocr.py`, both `media.py`, `ws_manager.py`) | keyword set, alert history, temporary files, listeners | set, search, publish, push, listen | separate Redis commands, failing sockets | alerts arrive, the history is bounded |
| Chat client, client login (`chat_bloc.dart`, `ws_service.dart`, `auth_bloc.dart`) | bubbles, ticks, bloc state | open, send, frames, login | history against live frames | not modelled |
| Admin panel, AI helpers, audit log, UI | none worth checking | | | |

The parts meet in Redis and in the rows: login draws tickets that
`chat_socket` redeems; `chat_socket` registers presence and starts the relay;
the message branch of `_handle_frame` asks presence, pushes, acknowledges and
publishes to the relay; the worker and unsend publish on the same channels;
`upload_complete` schedules the OCR task, whose alerts go through the listener
to the sockets; `admin.py` sends broadcasts over the relay of every device.

## Modules

Each component has a module and an `MC` module for TLC. The proofs about the
eleven components are in eight `Proofs` modules; `OtpProofs`, `AccountProofs` and
`MediaProofs` extend two components each, which is why the second one of each
pair names its `Init`, `Next`, `Spec` and `TypeOK` after itself (`LimitSpec`,
`KeysSpec`, `OcrSpec`, and so on). Definitions whose comment describes a slip in the code (such
as `AfterCountOffByOne`) are not part of the models: they stand beside the
definition they vary and show that a property depends on it.

**OtpService** models `OtpService` of `otp_service.py`. State: the two Redis
keys with their remaining life, and for each verify request its next command
and what it holds. Actions: `issue`; `VerifyIncr`, `VerifyExpire`,
`VerifyBurn`, `VerifyGet`, `VerifyConsume` (the commands of `verify`);
`LoseRequest`; `Tick`. Codes are numbers in the order of issue; the hash
comparison is equality.

**OtpRateLimit** models `_rate_limit_otp` and `request_otp`. One action per
Redis command; the hourly counter of each phone and the counter of their
common address; requests can be lost between two commands.

**AuthSession** models one account: `users.status`, `users.token_version`,
tokens (named by their login), session rows, tickets, and handlers that load
the row, await, and commit. SQLAlchemy writes only the columns that differ from
what was loaded, so a handler's commit changes `token_version` to what it read
plus one, and `status` only if it set another value than the one it read.

**ConnectionRegistry** models one user's connections over several replicas:
`register` (one pipeline), the relay task, `heartbeat`, the three commands of
`unregister`, crashes, and the part of a sender's handler that asks
`is_online`, pushes and publishes.

**MessageLifecycle** models direct messages: the sending handler
(`save_message`, notify, ack, publish), receipts over the socket and over HTTP
(`mark_message_delivered`, `mark_message_read` and their broadcasts), unsend,
the sweep of the workers (select, wipe with the MinIO delete, publish, one commit), timers,
and every call that can fail. `message_history` is the set of messages whose
content the history endpoint returns. The runs use one worker; the proofs hold for
any number of overlapping workers.

**MediaUpload** models one chunked upload: the state key and chunk set in
Redis, the staging objects, handlers that go through their Redis and MinIO
commands one at a time, and the client that sends chunks, loses connections and
resumes. A chunk is represented by the cut (chunk size) it was made with, which
determines its bytes; the handler that assembles them keeps the length read so
far, which line 185 compares with the size. `CHUNK_SIZE` is 5 and a file has 6, 9 or 11 units, so that
a resume, which recomputes the cut as ceil(size / chunks), may or may not arrive
at another one.

**Groups** models one group, open or with approval: the member rows, the
request row of each user with its status, the audit entries, and handlers of
`request_join`, `decide_request` and `update_typing` that read in one step and
commit in another. The unique indexes of `models/group.py` make a commit fail.

**Broadcasts** models the broadcasts for one user with several devices: the rows,
the handler of `send_broadcast` (commit, publish, pushes), the frames, and on each
device the banner with its query and its POST. **Notice** is the abstract
specification: a broadcast is unsent, sent, shown, acknowledged, in that order.
`Broadcasts` implements it under `phase`, which is computed from the committed
broadcasts, those ever shown, and the acknowledgements. How long a banner stays
on the screen, which `models/broadcast.py` also promises, is not part of
`Notice`, because the code does not keep it (see below); what holds instead is
`Reappears`: an unacknowledged broadcast comes back on every device.

**KeyDirectory** models one user's keys in the older backend: the identity
columns, the private and public halves of the one-time pre-keys and the signed
pre-key. Keys are numbers in the order they were made; a signature names the
key it is of and the identity it is by. `upload_identity_key` checks only the
base64 of what it stores, so a stored pair may fail to load; the constructor then
takes the `except` branch (lines 48-49) and creates another one. The private half
of a signed pre-key (lines 130-136) is left out: nothing reads it. `generate_pre_keys`,
`generate_signed_pre_key` and `consume_pre_key` have no caller among the
routes; they are modelled because the service offers them.

**Communities** models one channel or community of the older backend (the kind
is chosen in `Init`). An endpoint loads the row and the counter (`Arrive`),
makes its checks (`Check`) and commits (`Commit...`), which fails if the row is
gone. A counter is written as the value loaded plus or minus one. Two
simplifications: a caller has the owner's or an administrator's role once the
community is complete (`Allowed`), and a row added between the cascade's load and
its flush (`channels.py:95`) goes with the channel, where the database would
refuse the delete; `NothingLeft` holds either way.

**OcrAlerts** models the alerts of one user: replacements of the keyword set,
the background task of each file in either backend, the history list, and the
listener of each process, which starts unsubscribed. Every call that can fail has
a step for it: DEL and SADD of a replacement, the creation, the write and the
removal of the temporary file, every command of a task, SMEMBERS and the sends of a
listener, and the subscription. `missed` and `mishap` record, per file, what a
failure cost and which failure it was, so that each property excuses only the
failures that concern it. Text recognition is left out: every file contains
every keyword, since a file without one stops at the keyword check. The
connections are fixed, and the crash of a process is no step.

## Runs

| Run | Bounds | Shows |
|---|---|---|
| `otp` | 3 requests, TTL 2, limit 2, 2 codes | `BoundedGuesses`, `OverLimitIsBurned`, `AcceptedOnce`, `CounterOutlivesCode` |
| `otp_limit` | 2 requests, limit 1, window 2, 1 lost request | `CodesPerHour`, `LockoutEndsUnlessLost` |
| `auth` | 3 handlers, 2 logins, 2 suspensions, 1 ticket | `SerialRotationKillsTokens`, `OnlyActivationLiftsSuspension` |
| `presence` | 3 connections, 2 replicas, 1 message | `NoGhostPresence`, `RegisteredIsOnline`, `EventuallyOffline` |
| `lifecycle` | 2 messages, 1 worker, batch of 1, 1 failure | `SeenIsStored`, `RetractedNotInHistory`, `DestructionIsComplete`, `WipedIsAnnounced`, `ReadReceiptIsTrue`, `EventuallyDestructed` |
| `media` | 3 handlers, 3 attempts, sizes 6, 9, 11 | `StoredIsTheFile`, `StoredOnce`, `ReportedIsStaged`, `Completes` |
| `groups` | 2 users and the owner, 3 handlers | `AuditedOnce`, `ApprovedIsMember`, `MismatchNeedsRace` |
| `broadcasts` | 1 broadcast, 2 devices | `ImplementsNotice`, `EventuallyShown`, `Reappears` |
| `keys` | 1 identifier, 2 requests, 4 keys | `HandedOutOnce`, `ListedHasPrivate`, `SignedUntorn`, `IdentityStable` |
| `communities` | 2 users, 2 handlers, 3 rows | `CountMatches`, `OncePerUser`, `NothingLeft`, `InterruptedStaysEmpty` |
| `ocr` | 2 files, 2 setters, 2 connections on 2 processes, history of 1 | `KeywordsAsRequested`, `HistoryBounded`, `TempRemoved`, `AlertKept`, `AlertArrives` |
| `lifecycle_burn` (violated) | 1 message | an unread message is destructed |

The type invariants are in no run: they are theorems in every module.

Why the bounds suffice to show the cases: three requests let one be counted
before a reissue, one after it, and a third race both; two logins and two
suspensions are the least that overwrite each other; three connections let two
leave while a third arrives; a batch of one with two due messages is a queue
longer than the batch. Three attempts of an upload leave two late handlers
behind a third; of the three sizes, one resumes with the same cut, one with
another that fits, one with another whose chunks end elsewhere. Three handlers
in a group are two decisions and a join, or two joins and a decision. Two
devices race for an acknowledgement; broadcasts do not influence each other.
Requests on different key identifiers meet only in the identity and the signed
pre-key, which one identifier exercises too (two identifiers were also checked,
with 10 million states). Two handlers are what a lost update of a counter
needs. A history of one is at its limit with the first alert;
of the cases in which one file goes to the older backend, `MCInit` keeps one, as
the other differs only in the names of the files. Times are in
ticks: a TTL of one or two ticks already has a key expire between any two
commands. `MaxCounter`, `MaxCount`, `MaxIssues`, `MaxLogins`, `MaxSuspends`, `MaxLost`,
`MaxFaults`, `MaxRequests`, `MaxAttempts`, `MaxKeys` and `MaxRows` are the bounds
of the counters, and the theorems below hold for every value of those they
mention.
Deadlock is checked in `groups`, `broadcasts`, `keys` and `ocr`. The other models come
to rest when their bounded supply of requests, logins, messages or uploads
is used up, or the channel is deleted.

### Behaviour the models show

One run is a disagreement between the code and what is said of it:
`lifecycle_burn`. `save_message` sets `destruct_at` at send time, so the branch
of `mark_read` that would start the timer at read time (`README_Sprint2.md:85-86`)
is never taken, and a message may be destructed unread.

The passing properties name the windows they allow for. These windows are real
behaviour of the code, and the first three contradict a comment of it:

* "The code is consumed on success" (`otp_service.py:45`), and a "second attempt
  with same code fails" (`tests/test_otp_service.py:84`); but `verify` matches
  with GET and consumes with a later DEL whose answer it does not look at, so
  overlapping calls with the right code all succeed. `AcceptedOnce` allows for
  exactly that: a call that reads the code between the GET and the DEL of another
  one that matched it. No reissue, expiry, late delete or lost request lets a code
  be accepted again.
* "the banner disappears only after this row exists" (`models/broadcast.py:41`),
  but `_ack` takes it off the list before it sends the POST
  (`broadcast_banner.dart:94`), and a POST that is lost is not repeated.
* "it stays until the user taps it" (`models/broadcast.py:17`), but the answer of
  the unacknowledged list replaces the banners (`broadcast_banner.dart:76`), and
  may drop one that arrived live after the query ran. In this case as in the one
  before the banner is back at a later start of the app, which `Reappears` checks
  for every device.
* The hourly counter gets its expiry in a second command, issued only by the
  request that created it. If that request is lost, the counter never expires
  (`LockoutEndsUnlessLost`).
* `token_version += 1` works on the value read. Two overlapping logins write
  the same value, and the first token stays valid
  (`SerialRotationKillsTokens`).
* Only `ws:conn:{id}` has a TTL and nothing reads it, so nothing removes a
  user from `ws:online` after a crash (`NoGhostPresence`, `EventuallyOffline`).
* The relay subscribes in a task started after `register` and ends at its
  first exception; frames published before or after that are lost to the device.
* The message frame is published last, from the client's frame; an unsend from
  the sender's other device, or a sweep, can come first.
* Overlapping requests pass the cooldown check together (`CodesPerHour` bounds
  them); a device that registers between SCARD and SREM of another one's
  `unregister` goes offline (`RegisteredIsOnline`); unsend leaves the media
  object in MinIO (`DestructionIsComplete`); the sweep publishes before it
  commits (`EventuallyDestructed`); a ticket drawn before a suspension still
  opens a socket; `delivered_at` is set at save, so status DELIVERED is never
  written by `message_service.py`; the sender is a participant and can mark the
  message read.
* A resumed upload whose cut differs from the first one fails the size check;
  its staging objects are deleted but the chunk set is kept, so every later
  `complete` finds all chunks reported and none there (`Completes` excludes
  it). Two overlapping completes may store the file twice (`StoredOnce`).
* A join that was read before a decision and written after it leaves a member
  listed as pending, which no later approval can settle; two opposite decisions
  leave a member listed as rejected (`MismatchNeedsRace`).
* A live broadcast frame is shown whatever the user's department.
* `store_pre_key` lists the client's public key beside a private key made by
  the server, which does not belong to it; a constructor that finds a public
  identity key without a private one, or a pair that does not load, overwrites
  it, also under a service that is at work with the old identity
  (`IdentityStable`).
* A channel with an analytics row, and a complete community, cannot be deleted:
  these tables have no cascade. `OncePerUser` and `CountMatches` name the races
  that leave duplicate rows and a wrong counter.
* A failing DEL or SADD of a keyword replacement is logged and answered like a
  success: the old set stays, or none (`KeywordsAsRequested`). A failing write
  leaves the temporary file in both backends, any error after it in the older one
  (`TempRemoved`).
* A failing socket or SMEMBERS ends the listener's round for the connections of
  its process; an error of the subscription ends the listener for good; a listener
  that is not subscribed yet gets nothing (`AlertKept`, `AlertArrives`). The
  debounce key of `process_ocr` contains a fresh file id and never matches, so
  the limit per user of ARCHITECTURE.md:103 is not enforced.

## Fairness

* `OtpRateLimit`: time passes, and a started handler runs on (asyncio resumes a
  coroutine whose reply has arrived). Losing a request is a step of its own.
* `ConnectionRegistry`: time passes; a handler of a live replica runs on.
  Clients are not required to connect, disconnect or send pings.
* `MessageLifecycle`: a worker's steps are weakly fair, because `_run` catches
  every exception and sweeps again. Failures are bounded, so MinIO, Redis and
  the database work in the end. Nothing is required of clients.
* `MediaUpload`: a handler that is not interrupted runs on, and a user whose
  upload broke off tries again. Drops, failures and expiry are never required,
  and `Completes` says which of them end the obligation.
* `Broadcasts`: the user opens and closes the app (weak fairness), and of the
  queries the app makes when it starts not all fail (strong fairness: each
  start asks again). Publishing, pushes and sockets are not fair: the property
  holds though all of them are lost.
* `OcrAlerts`: as long as some task can go on, one of them does, and the same for
  the listeners: the event loop of a running process does not stop. This is weaker
  than fairness of each of them. Failures are steps of their own that nothing
  requires.

## Proofs

The theorems hold for every value of the constants (any number of requests,
handlers, connections, messages, workers, users, devices, any limit and TTL),
from the named assumptions of the modules: constants are naturals, `Conns` and
`Requests` are finite where they are counted, and so are the `Files` of
`OcrAlerts`, which are also told apart from its markers.

* **OtpProofs**, about `OtpService`: `TypeCorrect`, `GuessesAreBounded`,
  `OverLimitCodeIsBurned`, `CodesAreSingleUse`, `CounterNeverReset`. The
  invariant `IInv` counts, for the live code, the comparisons made plus the
  requests that were counted and are still waiting to compare; that sum never
  exceeds the attempt counter, and a request past the limit never waits to
  compare. `BoundedGuesses` alone is not inductive because it does not see the
  waiting requests. For the same reason `AcceptedOnce` needs `AcceptInv`: unless
  calls overlapped on a code, at most one of them has matched it, it was not
  accepted before, and a code that was accepted is not in Redis. About `OtpRateLimit`: `LimitInvariance`, `LimitTypeCorrect`,
  `HourlyLimitHolds`. `HourInv` adds to the codes granted in the life of the
  counter the requests that passed the limit and have not been granted yet; that
  sum never exceeds the limit.
* **AccountProofs**, about `AuthSession`: `TypeCorrect`, `RotationKillsTokens`,
  `SuspensionSticks`, `TicketIsSingleUse`. Serial rotation is inductive on the
  types; single use needs `TicketInv` (a ticket not yet gone has opened
  nothing). About `KeyDirectory`: `KeysInvariance`, `KeysTypeCorrect`,
  `PreKeysAreOneTime`, `ListedCanBeUsed`, `SignatureFits`, `IdentityIsStable`.
  None of the four properties is inductive. `OneTimeInv` follows a private key
  from its hash to the requests that have read it: it is under one identifier,
  it is gone once its consumer is past the pipeline, and with no second reader
  on record it has one consumer and was not returned before; `FreshInv` keeps
  new keys out of all that. `PairInv` adds to a listed pre-key the writer that
  is about to list one and the consumer between its pipeline and its DEL, whose
  DEL must find nothing. `TornInv` says that the signature in the hash is that
  of the key unless exactly one writer is between its HSETs, and ties what a
  reader holds between its HGETs to the signature it will find. `IdentityInv`
  adds that a stored pair is complete and loads unless an unusable public key was
  put next to it, and that a service between finding no pair and committing its own
  is alone there and has nothing but such a pair to overwrite, unless two of them
  found none together.
* **MediaProofs**, about `MediaUpload`: `UploadInvariance`, `UploadTypeCorrect`,
  `StoredObjectIsTheFile`, `UploadIsStoredOnce`, `ReportedChunksAreStaged`. The
  first of them is about numbers. A resume cuts the file into
  c = ceil(size / n) instead of C units, and `CutsFit` shows c <= C and that
  with either cut exactly the last chunk reaches the end of the file. So m parts
  before the last one have between m * c and m * C units, and equal to a bound
  only if all have that cut (`LengthFits`, the invariant of a handler that
  assembles); the last part adds size - (n - 1) * d for its own cut d, so the sum
  is the size only if the others sum to (n - 1) * d, and then they all have cut
  d (`FitsNext`). Parts of one cut are the file (`SameCutIsFile`). The sum is
  kept in a field of the handler, as a definition by recursion over the parts
  would need induction over sequences. `OnceInv` says where a complete can be
  while the object it stored and the state are both there. `StagedInv` adds the
  handlers between PUT and SADD. About `OcrAlerts`: `OcrInvariance`,
  `OcrTypeCorrect`, `KeywordsAreRequested`, `HistoryStaysBounded`, `NoTempLeft`,
  `AlertIsKept`. `ReplaceInv` says that without an overlap one replacement is between its DEL
  and its SADD, finds the set empty, and is the last one asked for;
  `HistoryBounded` counts the tasks between LPUSH and LTRIM and is inductive
  with the types; `TaskInv` says at each step of a task what can have befallen it
  and whether its temporary copy is there; `ListenInv` gives a listener that is
  sending a file to send.
* **ConnectionRegistryProofs**: `TypeCorrect`, `NoGhosts`,
  `OnlyTheWindowHurts`. `PresenceInv` says that `ws:user` holds exactly the
  connections between `register` and the first command of `unregister`, so a
  handler that reads SCARD > 0 leaves somebody else to clean up, and that
  without a registration in the window a handler about to SREM has nobody to
  wrong.
* **MessageLifecycleProofs**: `TypeCorrect`, `StoredBeforeSeen`,
  `RetractedStaysHidden`, `SweepLeavesNothing`, `AnnouncedBeforeWiped`,
  `ReceiptsTellTheTruth`. `SweepInv` relates what a worker holds in its session
  (rows selected with and without a key, rows wiped, the row being announced)
  to the objects and frames outside it; it is what makes the commit at the end
  of a batch safe although rows change under it.
* **GroupsProofs**: `TypeCorrect`, `ApprovalsAreAudited`, `ApprovedMembers`,
  `OnlyRacesMismatch`, `TypingStaysInside`. `PendingInv`: only a
  group with approval has pending requests and decisions under way.
  `OvertakenInv`: a handler that may still write for somebody who is already a
  member was overtaken by another one, so the race is on record before its
  commit makes row and membership disagree. `TypistInv`: who was found to be a
  member by `update_typing` still is one when the recipients are selected.
* **BroadcastsProofs**: `TypeCorrect`, `Implements`. The
  refinement rests on `FlowInv`: what is on its way to a banner is committed,
  what is on its way to be acknowledged has been shown. Each step of
  `Broadcasts` is then one of `Notice`, or leaves `phase` unchanged.
* **CommunitiesProofs**: `TypeCorrect`, `CounterAgrees`, `OneRowPerUser`,
  `DeletedLeavesNothing`, `InterruptedEmpty`. `Good` is what each handler under
  way has to satisfy: it has passed only checks that could be passed, and
  without a race the counter it loaded is the counter, and the user it is about
  to add has no row.

The stronger invariants were checked by TLC on the instances of the runs before
they were proved. Some theorems are about definitions that no run lists:
`TypingAmongMembers` of `Groups`, `TicketOpensOneSocket` of `AuthSession`, and the
type invariants.

Only model-checked: the temporal properties that need fairness
(`LockoutEndsUnlessLost`, `EventuallyOffline`, `EventuallyDestructed`,
`Completes`, `EventuallyShown`, `Reappears`, `AlertArrives`), which are out of the prover's
reach. Every invariant and every action property of a passing run is a theorem.

## Not modelled

* The chat client and the login flow of the client (`chat_bloc.dart`,
  `ws_service.dart`, `auth_bloc.dart`): presentation state over the answers and
  frames whose origin is modelled. One hazard stays open there: history that
  arrives after live frames replaces them. The receipt frames of the client
  carry types the server does not know and ignores; the HTTP receipts are
  modelled.
* Cryptography (Argon2, JWT signing, Signal sessions), text recognition, image
  compression, FCM and the SMS gateway beyond "may raise".
* Endpoints that only read (lists, searches, statistics, `get_prekeys`,
  presigned links), the registration of an FCM token, and the updates of
  descriptive fields of channels and communities, which overwrite columns that
  nothing else depends on. The key routes under `app/` store each key with one
  command.
* In `ConnectionRegistry`, a Redis error in one of the three commands of
  `unregister` while the replica lives on; only its crash cuts them short.
* `backend/app/models/creator.py`, whose tables no endpoint uses; the admin
  panel, the AI helpers (stateless calls to language models), configuration,
  migrations, widgets and layout.
