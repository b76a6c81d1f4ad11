# TLA+ specifications of lead_os

lead_os is a FastAPI monorepo: an API gateway, three services (auth, tenant,
files) with a PostgreSQL database each, Redis for streams and counters, MinIO for
objects, and the package `shared/` with the event bus. This directory models the
parts of it whose correctness depends on the order of steps: threads and
coroutines that interleave, messages that come twice, databases and object stores
that are written one after the other, and processes that die in between.

Every module says in its header which code it models. `PROJECT.json` maps each
definition to the lines it stands for. Paths below are relative to the root of the
repository.

To run one check: `tlc -config ConsumerSolo.cfg MCConsumer.tla`; to check the
proofs of a component: `tlapm ConsumerProofs.tla`, and the same for the other modules
whose name ends in `Proofs`.

## 1. Inventory

### 1.1 Parts of the system

| part | code | state it keeps | operations |
|---|---|---|---|
| event bus | `shared/.../events/bus.py`, `envelope.py` | Redis stream per domain | `publish` |
| consumer | `shared/.../events/consumer.py` | in Redis: last delivered id and pending list of each group, hash of delivery counters, dead letter stream; in the thread: `start_id`, the batch | `run_forever`, `_handle` |
| onboarding (auth) | `auth-service/app/controller.py`, `services/onboarding.py`, `events.py`, `main.py` | `users` (status, tenant_id) | `POST /onboarding`, handler of `tenant.created` |
| completion registry | `auth-service/app/services/onboarding_completion.py` | two dicts under a lock, one `threading.Event` per user | `register`, `complete`, `wait_for` |
| tenant creation | `tenant-service/app/services/onboarding.py`, `events.py` | `tenants` | handler of `onboarding.pending` |
| refresh tokens | `auth-service/app/services/login.py`, `refresh.py`, `logout.py` | `refresh_tokens` | login, refresh (rotate, or revoke all), logout |
| avatars | `files-service/app/storage/*`, `public_router.py`, `main.py` | `media_resources`, a MinIO bucket, one MinIO client shared by all threads | upload, delete, presign |
| internal file routes | `files-service/app/internal_router.py`, `auth-service/app/services/avatars_read.py` | none | list, presign; avatar summary |
| rate limiter | `api-gateway/app/services/ratelimit.py` | a Redis counter per client and minute | `is_rate_limited` |
| gateway | `api-gateway/app/utils/middleware.py`, `services/proxy.py`, `controller.py` | headers of the request in flight | strip and set identity, route, forward with retries |
| media files | `api-gateway/app/services/media.py` | the size it read, the position in the file | `GET /media/...` with a `Range` header |
| documentation aggregator | `api-gateway/app/services/docs_aggregator/` | Redis: one specification per service, for 60 s | fetch and merge OpenAPI documents |
| health report | `api-gateway/app/controller.py` | none | probe the services |
| profile | `auth-service/app/services/users.py`, `controller.py` | `users` (full_name, phone); what each session has loaded | `GET /me`, `PATCH /me` |
| browsers | none: the cookie and the access token that `auth-service/app/router.py` hands out | refresh cookie per browser, access token, requests of its tabs in flight | log in, refresh, log out, lose an answer, drop the cookie |
| HTTP client of the gateway | `api-gateway/app/main.py`, `services/proxy.py` | one `httpx.AsyncClient` for all requests: 150 connections and a cookie jar | forward, and keep the cookies of the answers |
| access tokens | `auth-service/app/services/validate.py`, `auth_tokens.py` | none (JWT of 15 min) | mint, verify |
| service tokens | `shared/.../auth/` | none (JWT of 60 s) | mint, verify |
| engine and sessions | `shared/.../db/` | the connection pool (5 + 10) of each service | `get_db` |
| cache decorator | `shared/.../cache/` | Redis keys | no service uses it |
| Cloudflare domains | `tenant-service/app/_archived/` | - | archived, imported by nothing live |

### 1.2 How the parts interact

- A client speaks to the gateway only. The gateway counts the request in Redis,
  verifies the token, replaces the identity headers and forwards it.
- `POST /onboarding` commits a user in auth_db, publishes `onboarding.pending` to
  the stream `events:onboarding` and blocks in the completion registry. The consumer
  thread of tenant-service commits a tenant and publishes `tenant.created`. The
  consumer thread of auth-service assigns the tenant, publishes
  `onboarding.completed` and wakes the request thread. All three event types share
  one stream, so each consumer also sees, and acknowledges, what it has no handler for;
  files-service publishes its avatar events there too.
- A service may run as several processes. They share its database, its consumer group and,
  since the consumer name is fixed, the group's pending list. The completion registry is
  that of one process: a request waits in the process that serves it.
- Login, and the end of onboarding, insert a refresh token row; refresh and logout
  read the row of the presented token in one statement and write in a later
  transaction. Nothing (no row lock, no version) ties the two together. The revocation of
  all tokens of a user is an UPDATE that goes from row to row, and a commit after it.
- A browser keeps the refresh token in a cookie that its tabs share and sends it with
  `/refresh` and `/logout`; every answer with a session replaces it. The cookie also goes
  when its `max_age`, counted from the receipt, is over.
- The gateway forwards everything with one HTTP client, whose cookie jar keeps the
  `refresh_token` cookie of the last answer it saw (no domain, path `/api/auth` by default) and
  adds it to a request that brings no cookie.
- All threads of auth-service, the consumer included, draw on one connection pool. A
  request of `POST /onboarding` holds a connection while it waits for the consumer.
- `PATCH /me` publishes `user.updated` on `events:auth` after its commit; no service of
  the repository reads that stream.
- The gateway answers `/media`, `/api/openapi.json` and `/health/services` itself: from
  its disk, from specifications it fetches with a service token and keeps in Redis, and
  from probes without a token, which the services must exempt.
- files-service writes an avatar to the bucket and to files_db in separate steps.
  auth-service reads avatars through the internal router, in two requests.

### 1.3 What is hard, and what has to be true

| behaviour | where it bites | what must be true |
|---|---|---|
| redelivery, crashes between handler and XACK, a thread that dies in a process that lives | consumer | no message is lost; retries end; the dead letter stream only takes what failed often enough |
| replicas with one consumer name; counters shared by all groups | consumer, onboarding | a message handled twice at once is still not lost, and what two handlers of it can do to an account is known |
| two databases and a stream, no transaction across them | onboarding | an account is activated with a tenant created for it; once, for good, unless two replicas do it at once |
| request thread and consumer thread race in the registry | onboarding | a waiter is told the tenant of its own user, and is told it if there is one |
| read in one statement, write in a later transaction; an UPDATE and its commit | refresh tokens | one live token per session; the revocation of all tokens spares nothing that was there |
| tabs that share a cookie, answers that are lost, a clock, a cookie jar on the way | browsers, gateway and refresh tokens | sessions are closed only after something went wrong; a logout stays a logout |
| requests that hold a connection while they wait for a thread that needs one | onboarding | the wait ends, and the user becomes active all the same |
| read, compare, write and read again without a lock | profile | no update is undone; what is shown and what is announced is true |
| row and object written one after the other, two uploads at once | avatars | a row has its object; one avatar per user; the last upload is served |
| one client object whose endpoint is swapped while signing | avatars | URLs carry the public endpoint; the client comes back to the internal one |
| INCR and EXPIRE are two calls; the window is computed before the INCR | rate limiter | the limit holds for stragglers; counters do not stay for ever |
| retries, and errors that hide whether a request took effect | gateway | a POST is sent at most once, and the answer tells whether it was |
| one service token of 60 s for up to three attempts, each phase of which may take 45 s | gateway | one timeout alone never makes a token too old |
| a file that changes or goes while a range of it is served | media files | the range is what was asked for; the body has the announced length |
| one service down, Redis down, a release while a slow request holds the old specification | API document, health report | nobody else is hidden; documented operations lead somewhere; the cache catches up |

`PROJECT.json` lists each hazard at its line with the properties aimed at it.

## 2. Modules

| module | models | composed with |
|---|---|---|
| `GroupDelivery` | abstract: the at-least-once contract of a stream read by groups | refined by `Consumer` |
| `Consumer` | the event bus, one step per Redis command of the consumer thread | `MCConsumer` for TLC, `ConsumerProofs` |
| `CompletionRegistry` | the registry: operations only, no specification of its own | instantiated by `Onboarding` |
| `OnboardingSaga` | abstract: the life of an account across auth_db and tenant_db | refined by `Onboarding` |
| `Onboarding` | request threads, consumers and handlers of both services in any number of processes, both databases, the stream and the connection pools | `MCOnboarding`, `OnboardingProofs` |
| `SessionLedger` | abstract: a session has one token that renews it, and stays closed once closed | refined by `RefreshTokens` with one request at a time |
| `RefreshTokens` | `refresh_tokens` and the requests that work on it | `MCRefreshTokens`, `RefreshTokensProofs` |
| `Sessions` | browsers, tabs, cookies, the cookie jar of the gateway, access tokens and a clock around `RefreshTokens`: every step on the table is one of `RefreshTokens` | `MCSessions`, `SessionsProofs` |
| `Profile` | `GET` and `PATCH /me` of one user, and `user.updated` | `MCProfile`, `ProfileProofs` |
| `Files` | avatars, the bucket, the shared MinIO client, the avatar summary | `MCFiles`, `FilesProofs` |
| `RateLimit` | counter and TTL of a window: operations only | instantiated by `Gateway` |
| `Gateway` | rate limit, authentication, service token, routing, forwarding with retries | `MCGateway`, `GatewayProofs` |
| `ByteRange` | the arithmetic of a `Range` header and its reference definition | extended by `GatewayLocal` |
| `ApiDocs` | operations of the services, merging of documents, routing and rewriting of paths, which paths need a service token: operators only | extended by `GatewayLocal` |
| `GatewayLocal` | media responses, the API document and the health report | `MCGatewayLocal`, `GatewayLocalProofs` |

Definitions marked "mutant" in a module are single plausible mistakes in the
definition that follows them. No specification refers to them; each is what a
property was seen to reject when it took the place of the real definition.

### 2.1 State and actions against the code

**Consumer.** `stream`, `made`, `lastId`, `pel`, `deliveries` and `dlq` are what
Redis keeps and survive `Kill`; `pc`, `startId`, `batch` and `cur` are the locals of
`run_forever` and `_handle` and do not. `EnsureGroup` is XGROUP CREATE at id 0 with
BUSYGROUP ignored. `ReadHistory` reads the pending list from id 0 (the code
passes `"0"` every time, and an entry leaves the list only when acknowledged, so a
message that keeps failing is handed out again until it is dead-lettered);
`HistoryDone` sets `start_id = ">"` for good. `Take` with `NoHandler`,
`HandlerReturns` or `HandlerRaises` is the `try` of `_handle`; `Ack` and
`ClearCounter` are its XACK and HDEL; `CountFailure`, `DeadLetter`, `AckDeadLetter`
and `ClearDeadLetter` are the `except` clause. `FaultInTry`, `FaultInExcept` and
`FaultInLoop` are a Redis error at any of these calls, executed or not: inside the
`try` it is counted as a failure of the message, anywhere else it ends the thread
(`"dead"`), which nothing restarts while the process lives. All processes of a
service have one consumer name, hence one pending list per group; the counters
belong to the stream and are shared by the groups.

**Onboarding.** `Procs` are the processes of both services (`ServiceOf`), any number of each;
a behaviour uses those of its scenario, and `Start` and `Kill` start and end one. One step
per read of a database, commit, publication, registry operation and acknowledgement. The
consumer loop is that of `Consumer` with the Redis commands around the outcome of a handler
taken together, since `Consumer` separates them; a failure of the code after the handler is a
failure of the message in both (`Raise`), counted in the one hash of the stream
(`deliveries`). The pending list belongs to the service, so a replica that starts reads
what another one is working on. `LookUpEmail` and `InsertUser` are separate, so two requests
with one email can both pass the lookup and the unique index decides. `ReadUser` is the
check of `handle_tenant_created`, `AssignTenant` its commit, and nothing ties them:
two replicas that both passed the check both commit, and both announce
(`PublishCompleted`, which reads the user again). `contended` is history: the users for whom
that happened. `WaitForCompletion` is `register` and `wait_for`; `Accepted` and `OpenSession`
are the 202 and the session, `Overwrite` what the session writes into the user. The row
`_open_session` inserts into `refresh_tokens` is `Login` of `RefreshTokens`. `host` is the
process that serves a request. Its registry is the only one in which anybody looks the
user up, so `SignalCompletion` changes something only there: a user completed by another
replica is answered 202. `Kill` loses the registry and the requests of its process.
A session of SQLAlchemy takes a connection at its first statement and gives it back at
its commit or at its end; `InUse` are the threads of a process whose session holds one between
two steps: the requests that wait in the registry after `db.refresh` (`"published"`) or are
about to insert, and the consumer before its commit and after its announcement. A step that
needs a connection has `ConnectionFree` in its guard; `ConnectionTimesOut`,
`PublishPendingRaises`, `OpenSessionRaises` and `Raise` stand for a wait longer than
`pool_timeout`, among others, and count as errors. `OpenSession` takes the connection and the
commits of `_open_session` in one step, since the request it belongs to already holds one.
What a behaviour starts with (emails, processes, pool, errors, crashes) is `scenario`, chosen
in `Init` from `Scenarios` and never changed.

**RefreshTokens.** Rows are numbers in the order of insertion. `Present*` is the
statement that reads the row, `Rotate` and `Logout` the commit that follows. `Sweep` and
`RevokeAll` are the UPDATE of `_revoke_all_for_user` and its commit: it marks the rows of the
user that existed when it began (`seen`), and others commit in between. `root`, `begun`,
`epoch`, `stamp`, `vouched` and `born` are history: the login a token descends from, how many
revocations of all tokens of a user have begun, the latest of them that was
committed, how many had begun when a request read its row, and how many had when a row was
inserted and when the request that inserted it had read what entitled it to. Status checks
are left out because no code takes ACTIVE away from a user.

**Sessions.** `SendLogin`, `SendRefresh` and `SendLogout` put a request of a tab on its
way, with the cookie the browser has then or, if it has none, with what is in the jar of the
gateway (`Presented`); `Start*`, `Serve*` and `Finish*` are the steps of
`RefreshTokens`, by whom and for which tab. `Relay` is the answer on its way through the
gateway, where its cookie goes into the jar or a deletion empties it; `EmptyJar` is a restart of
the gateway or the end of the cookie's `max_age`. `ReceiveSession` and `ReceiveLogout` are the
answers with their Set-Cookie, `LoseAnswer` one that never arrives. `DropCookie` is a client
that clears its cookies, or keeps none (`Forgetful`), and a cookie that is over. A 401 sets no
cookie and deletes none, so a device whose token was revoked keeps presenting it, and
each time revokes all sessions again. `Tick` moves the clock in units of the life of an
access token; rows expire (`ExpireRow`) before it moves on, and their cookies after
them: the cookie counts its `max_age` from its receipt and the row from its insertion.
`left`, `lent` and `mishap` are history: which logins a browser has logged out of; of which
logins a token went along with a request that had none; which browsers lost an answer, had a
token expire on its way, or asked from two tabs at once.

**Profile.** `GetMe` and `PatchMe` read the row into the session; `Commit` is the
UPDATE of the columns that differ from what was loaded, and nothing if none does;
`Reload` is `db.refresh`, `Publish` the event with the fields of the body that were
given; `Raise` is an exception in any of these calls. `wrote` and `after` are history:
who committed, and who had been answered when a request read the row.

**Files.** A row and its object key are drawn together and share a number. An
upload draws a key and looks the row up (`Upload`), deletes the old object and row
if there is one (`DeleteObject`, `DeleteRow`), puts the object and commits the row
(`PutObject`, `CommitRow`), and answers (`Answer`, which publishes the event or
loses it: the code swallows every exception of the publication). `Raise` is an
exception in any of these calls, executed or not. `Check`, `Save`, `Swap`, `Sign`,
`SignDirect` and `Restore` are `presigned_get_url`, line by line, on the client
in `app.state.storage`. `Summary` and `SummaryUrl` are the two calls of
`get_avatar_summary`.

**Gateway.** A request is its method, the kind of its path and its token; each
arrives with identity headers of the client's own making. `Incr`, `SetTtl` and
`RedisRaises` are `is_rate_limited`; `Authenticate` is the middleware, which
has no await and is one step and mints the service token; `Route`, `Connect`,
`ConnectFails`, `Receive`, `Reply`, `Breaks` and `Retry` are `proxy_request` and
`forward_with_retry`. `Breaks` is every exception the retry loop does not catch. `age` is how
long a request has waited since its service token was minted: for its body (`pace`), which
nothing bounds, and in the phases of each attempt. The HTTP client applies its timeout to each phase
by itself: one of its 150 connections and the connecting (`Connect`), the head, the body and
what the service takes until it looks at the token (`Receive`), the reply (`GiveUpOrWait`,
which adds the waits of a failed attempt and the pause). A phase takes one of `Waits`, and
`stalls` counts those that took time. `ServiceTtl` and above is refused by
`ServiceTokenMiddleware`; some public paths of the services ask for no token,
so there both outcomes are possible. `Tick` moves the clock and lets counters expire.

**GatewayLocal.** `AskMedia` is `file_response_with_range` up to the missing or
malformed header, `Stat` the rest of it, `Open` and `Read` are `_iter_file`, which runs
after the headers are out. `Resize` and `Unlink` are what happens to the file in between;
a removed file stays readable for who has it open. `AskDocs`, `Hit`, `Miss`,
`Fetch`, `FetchFails`, `Store` and `StoreFails` are the awaits of `fetch_openapi_specs`
for one service after the other, `Proceed` the loop; `Miss` also stands for an error of
Redis. A specification is the number of its release; which operations a service has is
fixed, and the answer is `Merged` of the services that were reached. `Expire` is the
TTL of 60 s without a clock. `Probe` is one round of `services_health`. `shrunk` and
`missed` are history: the file lost bytes of a promised range; a service did not answer
at some time since the request came. `up` are the services the gateway gets an answer from in time, a
free connection of its HTTP client included.

## 3. Runs

| run | instance | question and answer |
|---|---|---|
| `consumer_solo` | 1 process, 1 group, 3 messages, `max_deliveries` 2, batches of 2, 2 errors, 2 crashes; 224,000 states | Dead-lettering takes `max_deliveries` failures (`DeadLetterNeedsFailures`); retries are bounded (`RetriesBounded`); each message reaches a group whose thread lives in the end (`EventuallyDelivered`); what was pending at a start is settled by that process unless it dies (`RestartSettles`). No restart is taken for granted. Holds. |
| `consumer_shared` | 2 replicas of one group and 1 process of another, 2 messages, 1 error, 1 crash, replicas symmetric | Nothing delivered is forgotten (`NothingLost`), and the whole behaviour implements `GroupDelivery` (`AtLeastOnce`). Holds. |
| `consumer_no_retry` | no error, no crash | Is a message whose handler raised retried until it is handled or dead-lettered (`FailedIsSettled`)? No: see 6.1. |
| `onboarding_saga` | 1 request with 2 connections and 2 errors, or 1 error and 1 crash; 1 request with a single connection, 1 error and 1 crash; 2 requests with 2 connections, for one email with 1 error, or for two; 1 request and 2 replicas of auth-service with 2 connections each, or with 1 each and 1 error; `max_deliveries` 2; 625,000 states | The databases follow `OnboardingSaga` (`ImplementsSaga`); the answer was created for the user, and agrees with the database unless two replicas activated the user at once (`AnswerMatchesUser`); `onboarding.completed` is published at most once and with the tenant the user keeps, with the same exception (`CompletedOnce`); a waiter gives up without an answer only if its user was not completed in its process while it was blocked (`WaiterIsAnswered`); every request ends or dies with its process (`RequestEnds`), and without raised errors, if in the end all processes run, a published request ends with an active user, also when the requests hold every connection the consumer could use (`RequestedBecomesActive`). Holds. |
| `onboarding_missed` | 1 request, 2 connections, no error, no crash | Is a completion before the timeout always answered (`NoCompletionMissed`)? No: see 6.2. |
| `onboarding_two_tenants` | 1 request, 1 crash | Is the handler of tenant-service idempotent (`OneTenantPerUser`)? No: see 6.3. |
| `refresh_concurrent` | 1 user, 3 requests in flight, 3 rows, 2 revocations, which may overlap, requests symmetric; 4.1 million states | The revocation of all tokens spares no row that existed when it began (`LiveBornThisEpoch`); at most one token per other request in flight escapes it (`EscapesBounded`). Holds. |
| `refresh_sequential` | 2 tabs, of one browser, or of a browser and a client of another user that may drop its cookies; 1 request at a time in the service, any number on their way; the gateway's cookie jar; 2 rows, 1 revocation, a clock of 2 ticks with an access token of 1 and a refresh token of 2; 3.3 million states | One live token per session (`OneLivePerSession`), nothing survives a reuse (`CascadeRevokesAll`), and the table implements `SessionLedger` (`KeepsLedger`). All sessions of a user are closed only after a mishap in one of its browsers, or after the gateway sent a token of the user along with a request that had none (`CascadeNeedsMishap`), and a logout closes the session the browser is in, also when it was renewed on the way there, unless a token of it was sent along like that (`LogoutIsFinal`). Holds. |
| `profile_patches` | 3 requests, 2 fields, 5 bodies over 3 values, 2 errors, requests symmetric | No PATCH is undone by one that did not come after it (`NoPatchUndone`); an answer shows every PATCH that was answered before its request, and its own (`AnswerIsCurrent`); when all is quiet a reader of `user.updated` has the row, unless a PATCH of the field failed, or two of them overlapped (`EventsTellProfile`). Holds. |
| `files_two` | 2 users, 2 threads, 2 uploads, 2 errors, 1 crash, users and threads symmetric | Rows and objects part only where a request was cut short (`InOrder`, `DamageBounded`); one row per user until two of its writes overlap (`OneRowUnlessContended`); the last upload answered is the one served (`LastUploadIsServed`); the shared client is back at the internal endpoint unless two threads sign at once (`EndpointRestored`). Holds. |
| `gateway_serve` | 2 requests of one client of 8 kinds, limit 1, 3 attempts, a window of 2 ticks and a TTL of 3, a clock of 3 ticks, phases of 0 or 3 quarters of the life of a service token, 1 Redis error, 1 crash; 1.1 million states | The limit holds for stragglers (`WindowLimit`); a counter stays for ever only after an error or a crash (`CountersExpire`); a POST is sent at most once and its answer tells whether it took effect (`AnswerTellsEffect`); identity headers come from a verified token (`IdentityIsVerified`); a request is refused for the age of its service token only if its client was slow over the body or two phases of the calls took time (`ExpiredOnlyWhenLate`); a request whose body is read ends (`RequestEnds`). Holds. |
| `gateway_local` | 2 clients, a file of at most 2 bytes read byte by byte, 9 headers, 2 services of which the first goes down and has a second release | A range or its refusal is exact (`RangeIsExact`); the body has the announced length unless the file shrank (`SentIsPromised`); a service left out did not answer at some time (`BlamedWasDown`); documented operations reach the service that documents them, under its path there (`DocumentedIsReachable`); the cache ends with the current release (`DocsCatchUp`). Holds. |

### 3.1 Bounds, and why they are enough

- **Consumer.** `MaxDeliveries = 2` is the smallest value for which a message is
  retried before it is dead-lettered. With three messages there can be one handled, one
  skipped and one that always raises in the same stream; `Count = 2` makes batches end
  in the middle of the stream. Two errors and two crashes let the recovery from one
  fault be hit by another. The shared run needs two messages for a race on one while the
  other waits.
- **Onboarding.** Requests interact only through an email they share, through the one
  stream and through the pool, so two are enough to mix them up. `MaxDeliveries = 2` makes
  one error a redelivery and two a dead letter. A pool of 2 is the smallest in which a
  request and the consumer fit, and of 1 (or 2 with two requests) one in which they do not.
  Two replicas are enough for a race of the handler: the one that starts late reads what is
  pending, the message the other works on, and an error in tenant-service makes a second
  tenant, so that both a tenant delivered twice and two tenants are raced for. Crashes in the
  middle of such a race are left to the theorems.
- **RefreshTokens.** Three requests are two revocations that overlap and a rotation between the
  UPDATE of one and its commit, or a revocation and two rotations; three rows are a login and
  two rotations. Users do not meet in the table but through requests, hence one is enough.
  Beyond the bounds the theorems of section 5 take over.
- **Sessions.** Two tabs are in one browser, or one is in a browser and the other in a client of
  another user, whose request without a cookie can be lent a token; the layout is chosen in
  the initial state. Two rows are a login and a renewal, or two logins. `AccessTtl` is less
  than `RefreshTtl`, as 15 minutes are less than 60: an access token can expire while
  its session lives.
- **Profile.** Three requests are a reader and two writers that overlap, or three writers of
  which the third undoes the first. The bodies give one field, both, the value a field
  already has, and nothing.
- **Files.** Two uploads are a first one and a replacement, or two at once.
- **Gateway.** Two requests and a limit of 1 put the second at the limit. Three ticks
  with a window of two give a straggler of an old window and a counter that expires
  while the clock runs. `Timeout = 3` and `ServiceTtl = 4` are 45 s and 60 s in units of
  15 s; a phase takes no time or as long as it may.
- **GatewayLocal.** Both clients ask for the document, since a late store needs two at
  once; one of them also asks for the file and for the report. Two bytes and numbers up
  to 3 reach every branch of the arithmetic, and section 5 has it for all sizes. The first
  service in the order is the one that fails, so that it could do harm to the second. The
  file changes only while it is served (`Watched`): a change between requests is a different
  initial size.

`MaxMsgs`, `MaxFaults`, `MaxCrashes` (and `faults` and `crashes` of a scenario), `MaxTokens`, `MaxCascades`, `MaxMedia`,
`MaxTime`, `MaxSize`, `MaxVersion`, `Flaky` and `MaxDelay` are bounds of the model and not of the code. The last one is an
assumption: a request issues its INCR at most `MaxDelay` after it read the clock,
with `Window + MaxDelay <= Ttl` (in the code 60 s, 70 s and therefore 10 s).
`WindowLimit` needs it: a request delayed longer would find the counter of its window gone.

Every run has `CHECK_DEADLOCK FALSE`: when the messages, requests, rows or ticks of
the bound are used up, the instance stops, and an idle system has nothing to do. That
requests end is therefore stated as liveness (`RequestEnds`), not as the absence of
deadlock.

### 3.2 Fairness

Nothing in the repository starts a process again: neither `docker-compose.yml` nor the
Makefile nor the Dockerfiles set a restart policy. No specification therefore assumes that a
process which died, or was never started, will run. A liveness property about such a process
says that it holds if the process runs in the end (`EventuallyDelivered`,
`RequestedBecomesActive`) or does not die (`RestartSettles`).

- `Consumer`: weak fairness of `Run(p)`: a live thread runs its loop, and a Redis command
  ends in a reply or an error. None for starts, publications, crashes and errors,
  and nothing restarts a dead thread in a live process, because nothing in the code does.
- `Onboarding`: weak fairness of each request thread (`Request`) and of each consumer thread
  (`Consume`), which run only while their process does. The wait of a request ends because
  `wait_for` has a timeout, and with it the wait of the consumer for the connection that
  request holds.
- `Gateway`: weak fairness of `Forward` only, which are the calls of the HTTP client and the pause
  between two: each phase has a timeout, the services send replies that end, and the pause is
  a sleep. Before that, nothing is fair: `request.body()` waits for the client as long as it
  takes, and the Redis client has no socket timeout. So `RequestEnds` begins when the body is
  read. The clock need not tick.
- `GatewayLocal`: weak fairness of each request, whose awaits have timeouts (4 s for a
  specification, 3 s for a probe), and of the expiry of each Redis key. None for
  questions, releases, outages and what happens to the file.
- `RefreshTokens`, `Sessions`, `Profile` and `Files` state safety only and assume no fairness.

## 4. Abstract specifications

`GroupDelivery` has four actions: publish, offer, dispose (a handler returned, or the
dead letter stream holds a copy) and settle, which needs a disposed message.
`Consumer` implements it with `offered <- lastId`, `pending <- pel` and `disposed` the
messages that were handled, are dead-lettered or are of no interest to the group.

`OnboardingSaga` keeps `users` and `tenants` only: register, create a tenant for an
account, activate an account with a tenant that was created for it. Two replicas can race for a
pending account that has a tenant (`Race`); only an account that was raced for can be activated
again, with a tenant that was created for it, too (`Reactivate`). All the rest of
`Onboarding` (threads, stream, registry, consumers) is stuttering.

`SessionLedger` keeps, for each login, whose session it is and which token renews it.
`RefreshTokens` implements it with the only live token of a session as the current one;
the mapping is meaningful because `OneLivePerSession` holds when requests are
served one at a time.

## 5. Theorems

Each theorem holds for every value of the constants that satisfies the assumption of its
module (`ConsumerAssumption`, `OnboardingAssumption`, `RefreshAssumption` with
`ThreadsAssumption`, `SessionsAssumption`, `ProfileAssumption`, `FilesAssumption`,
`GatewayAssumption`, `GatewayLocalAssumption`), for any number of processes, requests and
users, and without the bounds of the runs. Where something is counted, the threads and
requests are finitely many. The type invariants of `Onboarding`, `Profile`, `Files`,
`Gateway`, `GatewayLocal` and `Sessions` are proved and no run repeats them; those of
`Consumer` and `RefreshTokens` are both checked and proved.

Every safety property that a run checks and that holds is a theorem, the three
refinements included.

In `ConsumerProofs`:

- `TypeCorrect`: `TypeOK` is inductive as it stands.
- `NoneLost`: `NothingLost` is not inductive, since `Ack` is only right if the message it
  acknowledges is settled. `LossInv` adds that for each place of `_handle` (`ThreadOk`: at
  `ack` the handler has returned, at `skipAck` nobody wants it, at `dlqAck` its copy is in the
  dead letter stream), and that a group has only what was delivered to it (`GroupOk`). `Effect`
  names the five things a step can do to a group; `Effects` shows that every step of every
  thread, faults and crashes included, does one of them, and `GroupKept`, `OthersKept` and
  `OwnKept` go by effect instead of by action.
- `Refinement`: `Spec => AtLeastOnce`. The same effects map to `Dispose`, `Settle`, `Offer` and
  stuttering of `GroupDelivery` (`RefineStep`), a publication to a publication.
- `DeadLettersHaveFailed` and `RetriesAreBounded`, under `SoleReader` (the stream has one
  process; with two groups the first is false, see 6.5). `CountInv` ties the counter of a
  message to its failures from both sides (`RaisedOk`): never ahead of them, and while the
  message is pending behind them by at most one error or crash each, plus the one about to
  be counted. A message that is pending and not in hand has failed less than
  `max_deliveries` times beyond those, which is what makes the next failure one too few.

In `OnboardingProofs`, for any number of processes and requests, all from one invariant, `SagaInv`:

- `TypeCorrect`, for `Onboarding` and the registry inside it.
- `AnswersMatch`, `AnnouncedOnce`, `WaitersAnswered` and `Refinement` (`Spec => ImplementsSaga`).
  `SagaInv` says that an event tells of something committed (`Committed`: a `tenant.created`
  names a tenant of its user), that an active user's tenant was created for it (`Owned`),
  what a consumer has read or committed of its user and that, unless the user is contended, none
  of it is stale (`Working`, by process and user in `Held`), that two replicas are past the
  check of one user only if it is contended (`Alone`), and that only such a user is announced
  twice (`OneAnnouncement`); that the registry holds what the database holds (`Known`, in terms
  of `Told`), and what a waiter can still be told, by the state of its Event (`Waiting`).
  `Advances` (accounts only advance, tenants are only added) carries the first of these over all
  other steps, and `Undisturbed` says when a step leaves alone what another consumer holds.
  Without `contended` neither `Working` nor `Alone` would be kept by `ReadUser`.

In `RefreshTokensProofs`:

- `TypeCorrect`: `Spec => []TypeOK`. `TypeOK` is inductive as it stands, because it also
  says that a row has an owner and that a request which is not idle works on an existing
  row. Three lemmas say what `Insert`, `Finish` and `Read` do to it.
- `SessionsKeepOwner`: a token belongs to the user who logged in with the root of its session,
  for any number of requests at once (`Rooted`).
- `CascadeIsComplete`: `Spec => []LiveBornThisEpoch`, for any number of requests at once and
  revocations that overlap. It needs that an UPDATE in progress has seen every row that was
  inserted before it began (`BornStep`, with `Stamped`: a revocation that was committed had begun):
  a row it has not seen is born later than it, so what is live after the commit is, too.
- `SequentialSessions` and `SequentialCascade`: under `Sequential` (there is one request
  thread) `OneLivePerSession` and `CascadeRevokesAll` are invariant. Neither is inductive:
  a rotation is only harmless if the row it read is still live. `SequentialInv` adds that
  fact (`ReadStillHolds`: what a rotating request read still holds), that an UPDATE in progress
  has seen every row (`SweepSeesAll`), and that the root of a row is a row (`RootsAreRows`: the session of a new login has no other token).
  `InsertKeeps` and `RevokeKeeps` treat the two kinds of writes once; `SequentialStep`
  has one step per action.
- `SequentialLedger`: under `Sequential`, `Spec => KeepsLedger`, step by step (`LedgerStep`): a
  login opens a session of the ledger, a rotation renews it, a logout closes it and the commit of a
  revocation closes those of one user. An expiry changes nothing there: the row is still the
  one of its session, and its next use closes all of them.
- `EscapesAreFew`: `EscapesBounded`, for any number of requests at once. `EscapesInv` counts, for
  the latest committed revocation and for each that has only begun (`Few`), next to the
  tokens that escape it (`Spared`) the rotations that still can (`Pending`: they read their row
  before it began). A rotation turns one of the second into one of the first, and the
  request that revokes is in neither set, when its UPDATE begins as when it is committed.

Without `Sequential` the three `Sequential*` theorems are false (see 6.4); `CascadeIsComplete`
says what is left of the promise, and `EscapesAreFew` how far it can fail.

In `SessionsProofs`, for any number of browsers, tabs and requests at once:

- `SessionsTyped` and `SessionsRefine` (`SessionsSpec => Spec`): every step of `Sessions` is one of
  `RefreshTokens` or leaves its variables alone, so the theorems above hold with browsers around
  them (`BrowsersKeepLedger` is one of them). `Assigned` says that a thread and the tab it works
  for find each other.
- `CascadesNeedMishap`, `LogoutsAreFinal`, `OneTokenPerBrowser` and `SessionsStayApart`, from
  `HoldInv`. It says what a browser holds: tokens in the cookie, in a request or in an answer on
  its way, of sessions no token of which was lent by the gateway (`Private`), all of its
  user (`Owns`), of sessions that no other browser has (`Apart`) and
  that nobody logged out of (`LeftAlone`). In a browser without a mishap one tab at a time is
  asking (`TakesTurns`), the token it renews with is the only live one of its session
  (`Latest`), and the sessions it left are dead (`LeftIsDead`); while no browser of the user
  had a mishap and no token of the user was lent (`Clean`), that token is not revoked
  (`Unrevoked`), so that none of these users reaches the branch that revokes all. Each step is
  first described by what it does to the tokens a browser holds (`SendView`, `ForgetView`,
  `ReplyView`, `GrantView`) and to the table (`ShrinkStep`, `GrantStep`, `LeaveStep`).
  A request that is lent a token takes its session out of all this, for good.

In `GatewayLocalProofs` (the assumption says in particular that `ChunkSize` is not 0):

- `RangeIsWhatWasAsked`, for every size and every pair of numbers: `Satisfiable` is true exactly
  when the set of bytes asked for is not empty, and the interval from `FirstByte` to
  `LastByte` then is that set.
- `RangesAreExact` and `BodiesAreComplete`: `RangeIsExact` and `SentIsPromised` are
  invariant. `MediaInv` strengthens them: a request whose file has not shrunk has its
  last byte within the file (`Within`), so that an empty read cannot come before the
  end of the range; and one that is about to read the size has sent nothing (`Asking`).
  `StatStep` rests on `RangeIsWhatWasAsked`; `DocsStep` and `FreshStep` treat all steps of
  the other requests, and all first steps, once.

- `OnlyDownIsLeftOut`: `BlamedWasDown` is invariant. `DocsInv` says that a request has settled
  the services before the one whose turn it is, each found or missed, and has missed whatever
  is down.
- `TypeCorrect` combines the two invariants.
- `MergedIsReachable`, for any list of services and any of them found, and with it
  `DocumentedReached` (`DocumentedIsReachable`). `PublishedIsServed` follows each operation of
  each service from its path there, through the merger and the routes of the gateway, back to
  that path; `RoundKeeps` says that one round of the merger keeps a document reachable. The
  rounds are a fold, whose definition is recursive: `RoundsExist` shows by induction that a
  function with its equation exists, and `MergedIsReachable` goes through it by induction.
  The induction is `AllNumbers`, a statement about sets of numbers.

In `ProfileProofs`:

- `NoLostUpdate`: `NoPatchUndone`. The invariant names an author for what the row holds in a
  field (`Author`): a PATCH that no writer of the field came after, and whose value is what
  every request that came after it and is still to write has loaded. The last part is why
  leaving out columns that look unchanged is harmless.
- `AnswersAreCurrent`: `AnswerIsCurrent`, from that and `ShownIsCurrent`.
- `EventsTell`: `EventsTellProfile`. `StreamOK` says that an event is that of a committed request
  which has been answered, or failed later, that every answered PATCH has one, and that the
  event of a request comes after those of the requests that were answered before it began. So
  the last event about a field is that of its author (`LastTeller`), unless the author's failed
  or another PATCH of the field overlapped it.

In `GatewayProofs`:

- `IdentityVerified`, `AnswersTellEffect` and `LimitHolds`, each from an invariant per request or
  per window: what the header is at each place (`IdentityAt`), what the place of a POST
  says of its effect (`EffectAt`; the attempts of `Counted` make it the only one), and that the
  counter of a window covers what the window admitted until no request can be late for it
  (`LimitedAt` with `Punctual`). The last one rests on `Window + MaxDelay <= Ttl` and fails
  without it.
- `ExpiredWhenLate`, under `Timeout < ServiceTtl` (45 s and 60 s in the code) for the timeout of a
  single phase. `FreshAt` ties the age of the token of a prompt request to the phases that took
  time: none, and it is 0; one, and it is at most `Timeout`; two can be too many.
- `LeaksAreFew`: `CountersExpire`. A counter is left without its TTL by an error, one at a time,
  or by a crash, at most one for each request whose EXPIRE was still to come.

In `FilesProofs`:

- `StepsInOrder`, `EndpointIsRestored` (`Alternating`: until two threads have signed at once, who
  signs has saved the internal endpoint), and `OneRowEach` with `LastUploadServed` from
  `Settled`: a user whose requests do not overlap has one writer at most, no row the writer
  does not know of, and, if nothing failed either, ends with the writer's.
- `DamageIsBounded`: `DamageBounded`. Between the two halves of a write, a row without its object
  or an object without its row belongs to the thread that is about to complete it; `KeysKept` says that
  no two threads have drawn the same key and which of its two keys a thread has stored,
  deleted or committed at each place. Hence a step that completes adds nothing (`NoMore`), one
  that raises adds at most one (`OneMore`), and a crash at most one per thread (`ManyMore`,
  `CrashDamage`).

Only model-checked: liveness (`EventuallyDelivered`, `RestartSettles`,
`RequestedBecomesActive`, `RequestEnds`, `DocsCatchUp`). Liveness under fairness and `ENABLED`
are out of the prover's reach. Induction needs care: the induction theorems of the library
take an operator as a parameter, which the provers used here cannot instantiate. Induction on
numbers is therefore stated for sets (`AllNumbers`); the modules declare no RECURSIVE operator.

## 6. Where code and documentation part

### 6.1 A failed message is not retried while the consumer lives

`run_forever` reads its pending entries only until the first empty reply, then new
entries only. A message whose handler raises after that stays pending until the
process is restarted, so five deliveries take five restarts. README.md promises retries
(max 5) and a dead letter stream; the onboarding design relies on it. `RestartSettles`
shows what the code does guarantee.

### 6.2 A completion that comes before the registration is dropped

The controller publishes `onboarding.pending` and then registers. If both consumers
finish in between, `complete()` stores the result, and `register()`, which sees no
Event yet, pops it. The request waits for its whole timeout and answers 202 although the
user is active. `WaiterIsAnswered` shows that this is the only way to miss one within
a process: a completion that comes while the request is blocked is always answered. With
replicas there is another way: the process that completes the user need not be the one in
whose registry the request waits (6.5).

### 6.3 A redelivered `onboarding.pending` creates a second tenant

The handler inserts a tenant with a random slug at each delivery. README.md asks for
idempotent handlers and names this service as the example. `ImplementsSaga` shows that
the user nevertheless ends with exactly one of them, for good unless two replicas of
auth-service race for it.

### 6.4 A rotation in flight survives the revocation of all tokens

A request that read its row before the revocation began commits its new row after that: after
the commit of the UPDATE, or between the two, in a row the UPDATE does not see. The
module header of `refresh.py` says that reuse revokes all sessions of the user.
`CascadeRevokesAll` therefore is checked and proved with one request at a time;
`EscapesBounded`, checked in `refresh_concurrent` and proved, says that at most one token
per other request in flight gets away.

### 6.5 Also met while modelling, without a run of their own

- The counters of deliveries belong to the stream: failures of one group count for
  another, and one group's HDEL forgets the failures of the other. A malformed envelope,
  which raises in every group, is dead-lettered after fewer than `max_deliveries`
  failures of the group that does it. `DeadLetterNeedsFailures` is therefore checked with
  one group.
- Two replicas of auth-service that handle `tenant.created` for one user at once (a starting one
  reads what is pending in the group, and all have one consumer name) both find the user
  pending, commit one after the other and both publish `onboarding.completed`. If the events name
  two tenants (6.3), the second commit replaces the tenant the first one announced, or
  with which a request was answered. `contended` marks such users; for all others
  `CompletedOnce`, `AnswerMatchesUser` and `ImplementsSaga` hold without exception.
- With replicas, a user is often completed in another process than the one its request waits
  in, and the request answers 202 after its whole timeout.
- A crash between the commit of the active user and the publication loses
  `onboarding.completed` for good: on redelivery the user is active and nothing is
  published. `CompletedOnce` says at most one.
- When the publication of `onboarding.pending` fails, the user stays pending and its
  email taken; nothing repairs it. `RequestedBecomesActive` starts at the publication.
- Two refreshes of one token at once both succeed and split the session; therefore
  `OneLivePerSession` is checked and proved with one request at a time.
- Two uploads of one user at once leave two avatar rows, against decision D4 of the
  files design (one user, one avatar row). `OneRowUnlessContended` says that nothing less does.
- An access token is checked by signature and age only: it outlives a logout, and the
  revocation of all sessions, by up to 15 minutes.
- A 401 does not delete the cookie. Each device that holds a revoked token presents it again
  and each time revokes all sessions of the user, the new ones too.
- The HTTP client of the gateway keeps cookies. A refresh or a logout that brings no
  cookie is forwarded with the one of the last answer, so it renews or closes a
  session of somebody else; the browser that has that token then presents a revoked one. `CascadeNeedsMishap` and `LogoutIsFinal` leave the sessions out of which a
  token was lent; `SessionsStayApart` says that nothing else mixes sessions up.
- A logout whose answer, or whose cookie, crosses the answer to a refresh of another tab
  leaves a live session behind. `LogoutIsFinal` leaves such browsers out.
- With as many requests waiting in `POST /onboarding` as there are connections, the consumer
  cannot complete any of them before they give up: all answer 202. When a wait for a
  connection in the consumer exceeds `pool_timeout`, it counts as a failed delivery (6.1). Between
  the commit of an active user and the announcement the consumer needs a connection again, so
  this can also lose `onboarding.completed`.
- Two PATCHes of one field at once can publish `user.updated` in the other order than they
  committed, and a PATCH that fails after its commit publishes nothing and answers 500.
- The service token is minted before the body of a request is read, and each phase of an attempt
  may take 45 s: a slow client, a retry, or a first attempt that waits both for a connection
  and for its bytes to be taken can be refused for the age of the token, and the 401 of
  the service reaches the client as if its own token were wrong.
- Neither `request.body()` nor the Redis client of the gateway has a timeout: what bounds a request
  begins with the first attempt.
- While one thread signs, calls of other threads to MinIO use the public endpoint, and
  two threads that sign at once can leave the client there.

## 7. Not modelled

- Token validation (`GET /validate`): a pure function of the token and the clock; the clock and
  the life of access tokens are in `Sessions`.
- Schemas in the API document, and the streaming of a whole file by the framework.
- The pools of tenant-service and files-service: in tenant-service only the consumer uses the
  database, and the sessions of files-service are given back when the garbage collector
  finds them, which no step of the code orders.
- Size of the completion registry: `clear` has no caller, so it grows by one entry per
  onboarding, on which nothing depends.
- Consumers of `events:auth`: the repository has none. The avatar events files-service publishes on
  `events:onboarding` have no handler; an event type without one is in `Consumer`.
- Replicas: `Consumer` and `Onboarding` have any number of processes of each service. In
  `RefreshTokens`, `Sessions` and `Profile` a thread may be in any process, since they meet in the
  database only. `Files` is one process of files-service and `Gateway` one of the gateway (of
  whose HTTP client there is one per process, and so one cookie jar).
- A process that is started again by somebody: `Start` may happen, and nothing assumes it does (3.2).
- Passwords, the encoding of tokens, key and slug formats, headers other than the
  identity headers, CORS, logging, schemas, migrations, deployment: data or declarations
  on which none of the properties depends.
- The cache decorator, which no service uses, and the archived Cloudflare module.
- PostgreSQL is modelled as atomic commits under READ COMMITTED, Redis as a server
  that executes each command atomically and keeps its data, MinIO as a set of objects.
  Loss of data inside them is not modelled.

## 8. Plan

Done, in this order: `Consumer` with `GroupDelivery`, `CompletionRegistry`,
`Onboarding` with `OnboardingSaga`, `RefreshTokens` with `SessionLedger`, `Files`,
`RateLimit` and `Gateway`, `ByteRange`, `ApiDocs` and `GatewayLocal`; then the pool in
`Onboarding`, the age of the service token in `Gateway`, `Sessions` and `Profile`; and the
proofs of section 5.

Done since: `SessionsProofs`, the refinement of `SessionLedger`, the three bounds on
cardinalities, `EventsTellProfile` and the merging of the API document.

What is left:

1. `Onboarding`: how many waiting requests it takes until the consumer can complete none of them
   (6.5), as an invariant that relates the pool to the registry.
2. The safety half of the liveness properties: a state in which a message is undelivered, or a
   request unanswered, is one in which somebody has a step to take.
3. A theorem for the rules of `ServiceTokenMiddleware` in `ApiDocs` (`Admits`) like the one for the
   routes.
