---------------------------- MODULE GatewayLocal ----------------------------
(***************************************************************************)
(* What api-gateway answers without forwarding: a media file, whole or a   *)
(* range of it; the merged API document, from specifications cached in     *)
(* Redis or fetched from the services; and the report on their health.     *)
(* Requests interleave at every await, and with what happens to the file,  *)
(* to the services and to the cache.                                       *)
(*                                                                         *)
(* One file is modelled.  It changes in place or is removed; a removed     *)
(* file can still be read by a request that has it open.  What a service   *)
(* documents is the version of its release; the operations are in ApiDocs. *)
(***************************************************************************)
EXTENDS ByteRange, ApiDocs, FiniteSets

CONSTANTS Clients,
          MayAsk,       \* the kinds of request each client sends
          Services,     \* the upstreams, in their order
          RangeHeaders, \* the Range headers clients send
          MaxSize,      \* bound: bytes of the file
          ChunkSize,    \* bytes read at a time
          MaxVersion,   \* bound: releases of a service
          Flaky         \* bound: the services that go down and are released

ServiceSet == {Services[i] : i \in DOMAIN Services}
AllServices == {AuthService, TenantService, FilesService}
Versions == 1..MaxVersion
NoSpec == 0

ASSUME GatewayLocalAssumption ==
    /\ MayAsk \in [Clients -> SUBSET {"media", "docs", "health"}]
    /\ Services \in Seq(AllServices)
    /\ RangeHeaders \subseteq Headers \cup {NoRange}
    /\ MaxSize \in Nat /\ ChunkSize \in Nat \ {0} /\ MaxVersion \in Nat \ {0}
    /\ Flaky \subseteq ServiceSet

VARIABLES
    there, size,  \* the file: whether its name exists, and its bytes
    up,           \* the services the gateway gets an answer from
    live,         \* the version of each service
    cache,        \* Redis: openapi:{service}, the version or NoSpec
    persistent,   \* Redis: the keys that have no TTL
    pc,           \* per client: the stage of its request, or its answer
    header,       \* the Range header
    promise,      \* the size that was read, the first and the last byte
    sent,         \* bytes sent
    shrunk,       \* history: the file lost bytes after its size was read
    at,           \* the service whose turn it is
    found,        \* the specifications collected, or the healthy services
    missed        \* history: services that did not answer at some time
                  \* since the request came

fileVars == <<there, size>>
serviceVars == <<up, live>>
cacheVars == <<cache, persistent>>
mediaVars == <<header, promise, sent, shrunk>>
docsVars == <<at, found, missed>>
vars == <<fileVars, serviceVars, cacheVars, pc, mediaVars, docsVars>>

NoPromise == [size |-> 0, first |-> 0, last |-> -1]

Init ==
    /\ there = TRUE
    /\ size \in 0..MaxSize
    /\ up = ServiceSet
    /\ live = [s \in ServiceSet |-> 1]
    /\ cache = [s \in ServiceSet |-> NoSpec]
    /\ persistent = {}
    /\ pc = [c \in Clients |-> "idle"]
    /\ header = [c \in Clients |-> NoRange]
    /\ promise = [c \in Clients |-> NoPromise]
    /\ sent = [c \in Clients |-> 0]
    /\ shrunk = [c \in Clients |-> FALSE]
    /\ at = [c \in Clients |-> 1]
    /\ found = [c \in Clients |-> {}]
    /\ missed = [c \in Clients |-> {}]

MediaStages == {"stat", "open", "read"}
DocsStages == {"lookup", "fetch", "store"}
InProgress == MediaStages \cup DocsStages \cup {"probe"}
Answers == {"404", "500", "416", "whole", "range", "broken", "docs", "health"}

Goto(c, stage) == pc' = [pc EXCEPT ![c] = stage]

\* A client that has its answer may ask again; nothing of the old request
\* is left.
Fresh(c, stage, h, down) ==
    /\ pc[c] \notin InProgress
    /\ Goto(c, stage)
    /\ header' = [header EXCEPT ![c] = h]
    /\ promise' = [promise EXCEPT ![c] = NoPromise]
    /\ sent' = [sent EXCEPT ![c] = 0]
    /\ shrunk' = [shrunk EXCEPT ![c] = FALSE]
    /\ at' = [at EXCEPT ![c] = 1]
    /\ found' = [found EXCEPT ![c] = {}]
    /\ missed' = [missed EXCEPT ![c] = down]
    /\ UNCHANGED <<fileVars, serviceVars, cacheVars>>

-----------------------------------------------------------------------------
(* file_response_with_range *)

AskMedia(c, h) ==
    /\ "media" \in MayAsk[c]
    /\ Fresh(c, IF ~there THEN "404"
                ELSE IF h = NoRange THEN "whole" ELSE "stat", h, {})

\* The file may have gone since is_file.
Stat(c) ==
    /\ pc[c] = "stat"
    /\ IF ~there THEN Goto(c, "500") /\ UNCHANGED promise
       ELSE IF ~Satisfiable(size, header[c])
       THEN /\ Goto(c, "416")
            /\ promise' = [promise EXCEPT ![c].size = size]
       ELSE /\ Goto(c, "open")
            /\ promise' = [promise EXCEPT ![c] =
                  [size  |-> size,
                   first |-> FirstByte(size, header[c]),
                   last  |-> LastByte(size, header[c])]]
    /\ UNCHANGED <<fileVars, serviceVars, cacheVars, header, sent, shrunk,
                   docsVars>>

\* The response has started: its status and Content-Length are out.
Open(c) ==
    /\ pc[c] = "open"
    /\ Goto(c, IF there THEN "read" ELSE "broken")
    /\ UNCHANGED <<fileVars, serviceVars, cacheVars, mediaVars, docsVars>>

Promised(c) == promise[c].last - promise[c].first + 1

RemainingOneShort(c) == \* mutant: remaining = end - start
    promise[c].last - promise[c].first - sent[c]

Remaining(c) == Promised(c) - sent[c]

\* What one read finds: no more than is left of the file.
Chunk(c) ==
    LET left == Larger(0, size - promise[c].first - sent[c]) IN
    Smaller(left, Smaller(ChunkSize, Remaining(c)))

\* The loop of _iter_file ends when nothing remains or nothing was read.
Read(c) ==
    /\ pc[c] = "read"
    /\ IF Remaining(c) > 0 /\ Chunk(c) > 0
       THEN sent' = [sent EXCEPT ![c] = @ + Chunk(c)] /\ UNCHANGED pc
       ELSE Goto(c, "range") /\ UNCHANGED sent
    /\ UNCHANGED <<fileVars, serviceVars, cacheVars, header, promise, shrunk,
                   docsVars>>

-----------------------------------------------------------------------------
(* fetch_openapi_specs and _fetch_one *)

AskDocs(c) ==
    /\ "docs" \in MayAsk[c]
    /\ Fresh(c, IF Services = <<>> THEN "docs" ELSE "lookup", NoRange, ServiceSet \ up)

Current(c) == Services[at[c]]

Collect(c, version) == found' = [found EXCEPT ![c] = @ \cup {<<Current(c), version>>}]

\* On to the next service, or to the answer.
Proceed(c, stage, answer) ==
    /\ at' = [at EXCEPT ![c] = IF @ = Len(Services) THEN 1 ELSE @ + 1]
    /\ Goto(c, IF at[c] = Len(Services) THEN answer ELSE stage)

Hit(c) ==
    /\ pc[c] = "lookup"
    /\ cache[Current(c)] # NoSpec
    /\ Collect(c, cache[Current(c)])
    /\ Proceed(c, "lookup", "docs")
    /\ UNCHANGED <<fileVars, serviceVars, cacheVars, mediaVars, missed>>

MissIsFinal(c) == \* mutant: an error of the cache hides the service
    /\ pc[c] = "lookup"
    /\ \/ Goto(c, "fetch") /\ UNCHANGED at
       \/ Proceed(c, "lookup", "docs")
    /\ UNCHANGED <<fileVars, serviceVars, cacheVars, mediaVars, found, missed>>

\* Nothing is cached, or Redis raises.
Miss(c) ==
    /\ pc[c] = "lookup"
    /\ Goto(c, "fetch")
    /\ UNCHANGED <<fileVars, serviceVars, cacheVars, mediaVars, docsVars>>

\* The service answers the gateway, whose HTTP client has a connection free for
\* it in time, and its middleware lets the request pass.
Replies(service, path, hasToken) ==
    service \in up /\ Admits(service, path, hasToken)

\* _fetch_one sends a service token, services_health does not.
SendsSpec(service) == Replies(service, <<"openapi.json">>, TRUE)
IsHealthy(service) == Replies(service, <<"health">>, FALSE)

Fetch(c) ==
    /\ pc[c] = "fetch"
    /\ SendsSpec(Current(c))
    /\ Collect(c, live[Current(c)])
    /\ Goto(c, "store")
    /\ UNCHANGED <<fileVars, serviceVars, cacheVars, mediaVars, at, missed>>

\* An error or the timeout, of the service or of the wait for a connection: the
\* document does without the service.
FetchFails(c) ==
    /\ pc[c] = "fetch"
    /\ ~SendsSpec(Current(c))
    /\ Proceed(c, "lookup", "docs")
    /\ UNCHANGED <<fileVars, serviceVars, cacheVars, mediaVars, found, missed>>

Fetched(c) == CHOOSE v \in Versions : <<Current(c), v>> \in found[c]

StoreForever(c) == \* mutant: SET without EX
    /\ pc[c] = "store"
    /\ cache' = [cache EXCEPT ![Current(c)] = Fetched(c)]
    /\ persistent' = persistent \cup {Current(c)}
    /\ Proceed(c, "lookup", "docs")
    /\ UNCHANGED <<fileVars, serviceVars, mediaVars, found, missed>>

Store(c) ==
    /\ pc[c] = "store"
    /\ cache' = [cache EXCEPT ![Current(c)] = Fetched(c)]
    /\ persistent' = persistent \ {Current(c)}
    /\ Proceed(c, "lookup", "docs")
    /\ UNCHANGED <<fileVars, serviceVars, mediaVars, found, missed>>

\* Redis raises without having stored anything.
StoreFails(c) ==
    /\ pc[c] = "store"
    /\ Proceed(c, "lookup", "docs")
    /\ UNCHANGED <<fileVars, serviceVars, cacheVars, mediaVars, found, missed>>

-----------------------------------------------------------------------------
(* services_health *)

AskHealth(c) ==
    /\ "health" \in MayAsk[c]
    /\ Fresh(c, IF Services = <<>> THEN "health" ELSE "probe", NoRange, ServiceSet \ up)

Probe(c) ==
    /\ pc[c] = "probe"
    /\ IF IsHealthy(Current(c))
       THEN Collect(c, live[Current(c)]) ELSE UNCHANGED found
    /\ Proceed(c, "probe", "health")
    /\ UNCHANGED <<fileVars, serviceVars, cacheVars, mediaVars, missed>>

-----------------------------------------------------------------------------
(* The file, the services and the expiry of the cache *)

\* Bound: the file changes only while a range of it is being served.
Watched == \E c \in Clients : pc[c] \in MediaStages

Resize(n) ==
    /\ Watched /\ there /\ n # size
    /\ size' = n
    /\ shrunk' = [c \in Clients |->
                    shrunk[c] \/ (pc[c] \in {"open", "read"} /\ n <= promise[c].last)]
    /\ UNCHANGED <<there, serviceVars, cacheVars, pc, header, promise, sent,
                   docsVars>>

Unlink ==
    /\ Watched /\ there
    /\ there' = FALSE
    /\ UNCHANGED <<size, serviceVars, cacheVars, pc, mediaVars, docsVars>>

GoDown(s) ==
    /\ up' = up \ {s}
    /\ s \in up
    /\ missed' = [c \in Clients |-> IF pc[c] \in DocsStages \cup {"probe"}
                                    THEN missed[c] \cup {s} ELSE missed[c]]
    /\ UNCHANGED <<fileVars, live, cacheVars, pc, mediaVars, at, found>>

ComeUp(s) ==
    /\ s \notin up
    /\ up' = up \cup {s}
    /\ UNCHANGED <<fileVars, live, cacheVars, pc, mediaVars, docsVars>>

Release(s) ==
    /\ live[s] < MaxVersion
    /\ live' = [live EXCEPT ![s] = @ + 1]
    /\ UNCHANGED <<fileVars, up, cacheVars, pc, mediaVars, docsVars>>

\* Redis drops the key when its TTL has passed.
Expire(s) ==
    /\ cache[s] # NoSpec /\ s \notin persistent
    /\ cache' = [cache EXCEPT ![s] = NoSpec]
    /\ UNCHANGED <<fileVars, serviceVars, persistent, pc, mediaVars, docsVars>>

Serve(c) ==
    \/ Stat(c) \/ Open(c) \/ Read(c)
    \/ Hit(c) \/ Miss(c) \/ Fetch(c) \/ FetchFails(c) \/ Store(c) \/ StoreFails(c)
    \/ Probe(c)

Ask(c) ==
    \/ AskDocs(c) \/ AskHealth(c)
    \/ \E h \in RangeHeaders : AskMedia(c, h)

Environment ==
    \/ \E n \in 0..MaxSize : Resize(n)
    \/ Unlink
    \/ \E s \in Flaky : GoDown(s) \/ ComeUp(s) \/ Release(s)
    \/ \E s \in ServiceSet : Expire(s)

Next == Environment \/ \E c \in Clients : Ask(c) \/ Serve(c)

Spec == Init /\ [][Next]_vars

\* The event loop runs every request that can go on (the calls it awaits have
\* timeouts), and Redis expires keys.
FairSpec ==
    /\ Spec
    /\ \A c \in Clients : WF_vars(Serve(c))
    /\ \A s \in ServiceSet : WF_vars(Expire(s))

-----------------------------------------------------------------------------
TypeOK ==
    /\ there \in BOOLEAN /\ size \in 0..MaxSize
    /\ up \subseteq ServiceSet
    /\ live \in [ServiceSet -> Versions]
    /\ cache \in [ServiceSet -> Versions \cup {NoSpec}]
    /\ persistent \subseteq ServiceSet
    /\ pc \in [Clients -> InProgress \cup Answers \cup {"idle"}]
    /\ header \in [Clients -> RangeHeaders \cup {NoRange}]
    /\ promise \in [Clients -> [size : 0..MaxSize, first : 0..MaxSize,
                                last : -1..(MaxSize - 1)]]
    /\ sent \in [Clients -> 0..MaxSize]
    /\ shrunk \in [Clients -> BOOLEAN]
    /\ at \in [Clients -> 1..(Len(Services) + 1)]
    /\ found \in [Clients -> SUBSET (ServiceSet \X Versions)]
    /\ missed \in [Clients -> SUBSET ServiceSet]

\* A range that is answered is, byte for byte, what the header asks of the
\* file as it was when its size was read; one that is refused asks for none.
RangeIsExact ==
    \A c \in Clients :
       LET p == promise[c] IN
       /\ pc[c] \in {"open", "read", "range", "broken"}
            => p.first..p.last = Asked(p.size, header[c]) /\ p.first <= p.last
       /\ pc[c] = "416" => Asked(p.size, header[c]) = {}

\* The body has the length the headers announce, unless the file has lost
\* bytes of the range in between; it never has more.
SentIsPromised ==
    \A c \in Clients :
       /\ sent[c] <= Promised(c)
       /\ pc[c] = "range" /\ ~shrunk[c] => sent[c] = Promised(c)

Listed(c) == {f[1] : f \in found[c]}

\* Neither a service that is down nor an error of the cache takes another
\* service out of the document or out of the report: one that is left out
\* did not answer at some time while the request was served.
BlamedWasDown ==
    \A c \in Clients :
       pc[c] \in {"docs", "health"} => ServiceSet \ Listed(c) \subseteq missed[c]

\* The document for each set of services that were reached.
Document == [reached \in SUBSET ServiceSet |-> Merged(Services, reached)]

DocOf(c) == Document[Listed(c)]

\* Whatever services are missing, a request for a documented operation gets
\* to the service that documents it.
DocumentedIsReachable ==
    \A c \in Clients : pc[c] = "docs" => Reachable(DocOf(c))

\* When the releases are over, the cache catches up: a specification of an
\* old release, even one stored late by a slow request, is not kept for good.
DocsCatchUp ==
    \A s \in ServiceSet : <>[](cache[s] \in {NoSpec, live[s]})

=============================================================================
