------------------------------ MODULE Gateway ------------------------------
(***************************************************************************)
(* api-gateway: what becomes of a request on its way through the rate      *)
(* limiter, the authentication middleware and the proxy.  The coroutines   *)
(* of the requests interleave at every await: the two calls to Redis, the  *)
(* phases of the call to the upstream service and the pause before a retry.*)
(*                                                                         *)
(* A request is its method, the kind of its path, its token and its pace:  *)
(* a slow one takes longer than a service token lives to deliver its body, *)
(* a prompt one takes no time that matters.  Every request brings identity *)
(* headers of its own making.                                              *)
(*                                                                         *)
(* The gateway gives each request it forwards a service token, minted once *)
(* before the attempts; the service refuses it when it is too old.  The    *)
(* time that counts is what the request itself has waited since then.  The *)
(* HTTP client bounds each phase of an attempt by its timeout: to get one  *)
(* of its 150 connections, to connect, to write the head and the body, and *)
(* every read of the reply.                                                *)
(***************************************************************************)
EXTENDS Naturals, FiniteSets

CONSTANTS Reqs,
          Kinds,       \* the requests clients send: [method, path, token, pace]
          Attempts,    \* attempts=3 of forward_with_retry
          Window, Ttl, Limit,
          MaxTime,     \* bound: ticks of the clock
          Timeout,     \* of the HTTP client, for each phase (45 s)
          ServiceTtl,  \* of a service token (60 s), in the unit of Timeout
          Waits,       \* how long a phase may take
          MaxDelay,    \* ticks between the reading of the clock and the INCR
          MaxFaults,   \* bound: Redis errors
          MaxCrashes   \* bound: deaths of the process

Methods == {"GET", "POST"}
Paths == {"exempt",     \* /health: not rate limited, answered by the gateway
          "local",      \* /media, /tutorials
          "public",     \* a public prefix with an upstream
          "protected",  \* any other path with an upstream
          "unrouted"}   \* a protected path without an upstream

ASSUME GatewayAssumption ==
    /\ IsFiniteSet(Reqs)
    /\ Kinds \subseteq [method : Methods, path : Paths, token : {"good", "bad"},
                 pace : {"prompt", "slow"}]
    /\ Attempts \in Nat \ {0}
    /\ Window \in Nat \ {0} /\ Limit \in Nat \ {0} /\ Ttl \in Nat
    /\ Timeout \in Nat /\ ServiceTtl \in Nat /\ Waits \subseteq 0..Timeout
    /\ MaxTime \in Nat /\ MaxFaults \in Nat /\ MaxCrashes \in Nat
    \* A straggler is served before the counter of its window can expire.
    /\ MaxDelay \in Nat /\ Window + MaxDelay <= Ttl

Windows == 0..MaxTime \div Window

VARIABLES
    now, count, expiry,  \* RateLimit
    pc,
    kind,                \* the request
    since,               \* when is_rate_limited has read the clock
    header,              \* the identity headers of the scope
    attempt,             \* i + 1 of forward_with_retry
    age,                 \* of the service token, at most ServiceTtl
    stalls,              \* history: phases that took time since (2 for more)
    received,            \* history: how often the upstream got the request
    seen,                \* history: identity headers the upstream saw
    admitted,            \* history: requests let through, by window
    faults, crashes

limitVars == <<now, count, expiry>>
reqVars == <<kind, since, header, attempt, age, stalls>>
upstreamVars == <<received, seen>>
budget == <<faults, crashes>>
vars == <<limitVars, pc, reqVars, upstreamVars, admitted, budget>>

RL == INSTANCE RateLimit

Answers == {"ok", "busy", "local", "401", "401 expired", "429", "500",
            "502 unrouted", "502 unavailable", "lost"}
Forwarding == {"send", "connected", "upstream", "backoff"}
Stages == {"incr", "expire", "auth", "route"} \cup Forwarding
NoKind == [method |-> "none", path |-> "none", token |-> "none", pace |-> "none"]

Init ==
    /\ RL!Init
    /\ pc = [r \in Reqs |-> "idle"]
    /\ kind = [r \in Reqs |-> NoKind]
    /\ since = [r \in Reqs |-> 0]
    /\ header = [r \in Reqs |-> "none"]
    /\ attempt = [r \in Reqs |-> 0]
    /\ age = [r \in Reqs |-> 0] /\ stalls = [r \in Reqs |-> 0]
    /\ received = [r \in Reqs |-> 0]
    /\ seen = [r \in Reqs |-> {}]
    /\ admitted = [w \in Windows |-> 0]
    /\ faults = 0 /\ crashes = 0

Goto(r, place) == pc' = [pc EXCEPT ![r] = place]

-----------------------------------------------------------------------------
(* RateLimitMiddleware *)

Arrive(r, k) ==
    /\ pc[r] = "idle"
    /\ kind' = [kind EXCEPT ![r] = k]
    /\ header' = [header EXCEPT ![r] = "forged"]
    /\ \/ k.path = "exempt" /\ Goto(r, "auth") /\ UNCHANGED since
       \/ /\ k.path # "exempt"
          /\ since' = [since EXCEPT ![r] = now]
          /\ Goto(r, "incr")
    /\ UNCHANGED <<limitVars, attempt, age, stalls, upstreamVars, admitted, budget>>

\* The window of the request, while is_rate_limited runs.
WindowOf(r) == RL!WindowOf(since[r])

Admit(r) == admitted' = [admitted EXCEPT ![WindowOf(r)] = @ + 1]

\* is_rate_limited returns: its window is gone.
Return(r, place) == Goto(r, place) /\ since' = [since EXCEPT ![r] = 0]

Limiting == UNCHANGED <<kind, header, attempt, age, stalls, upstreamVars>>

\* What follows the INCR when n is the value compared with the limit: a
\* refusal, or the EXPIRE if the request has created the counter.
Compare(r, n) ==
    \/ RL!Exceeded(n) /\ Return(r, "429") /\ UNCHANGED admitted
    \/ /\ ~RL!Exceeded(n) /\ Admit(r)
       /\ \/ count'[WindowOf(r)] = 1 /\ Goto(r, "expire") /\ UNCHANGED since
          \/ count'[WindowOf(r)] # 1 /\ Return(r, "auth")

IncrLate(r) == \* mutant: the counter is compared before it is incremented
    /\ pc[r] = "incr"
    /\ RL!Incr(WindowOf(r))
    /\ Compare(r, count[WindowOf(r)])
    /\ Limiting /\ UNCHANGED budget

IncrNoExpire(r) == \* mutant: the counter never gets a TTL
    /\ pc[r] = "incr"
    /\ RL!Incr(WindowOf(r))
    /\ \/ RL!Exceeded(count'[WindowOf(r)]) /\ Return(r, "429") /\ UNCHANGED admitted
       \/ ~RL!Exceeded(count'[WindowOf(r)]) /\ Return(r, "auth") /\ Admit(r)
    /\ Limiting /\ UNCHANGED budget

Incr(r) ==
    /\ pc[r] = "incr"
    /\ RL!Incr(WindowOf(r))
    /\ Compare(r, count'[WindowOf(r)])
    /\ Limiting /\ UNCHANGED budget

SetTtl(r) ==
    /\ pc[r] = "expire"
    /\ RL!Expire(WindowOf(r))
    /\ Return(r, "auth")
    /\ Limiting /\ UNCHANGED <<admitted, budget>>

\* Redis raises, whether it executed the command or not: 500.
RedisRaises(r) ==
    /\ pc[r] \in {"incr", "expire"}
    /\ faults < MaxFaults
    /\ faults' = faults + 1
    /\ \/ UNCHANGED limitVars
       \/ pc[r] = "incr" /\ RL!Incr(WindowOf(r))
       \/ pc[r] = "expire" /\ RL!Expire(WindowOf(r))
    /\ Return(r, "500")
    /\ Limiting /\ UNCHANGED <<admitted, crashes>>

-----------------------------------------------------------------------------
(* GatewayAuthMiddleware: no await, so one step *)

\* Paths that need no user token.
OpenPaths == {"exempt", "local", "public"}

Stripped(r) == header' = [header EXCEPT ![r] = "none"]
\* identity_headers_from_claims
FromClaims(r) == header' = [header EXCEPT ![r] = "claims"]

MintCached(r) == \* mutant: the token of an earlier request is used again
    \E a \in 0..ServiceTtl : age' = [age EXCEPT ![r] = a]

\* mint_service_token
Mint(r) == age' = [age EXCEPT ![r] = 0]

AuthPublicFirst(r) == \* mutant: public paths skip the stripping
    /\ pc[r] = "auth"
    /\ Mint(r)
    /\ \/ kind[r].path \in OpenPaths /\ UNCHANGED header /\ Goto(r, "route")
       \/ /\ kind[r].path \notin OpenPaths
          /\ \/ kind[r].token = "good" /\ FromClaims(r) /\ Goto(r, "route")
             \/ kind[r].token = "bad" /\ Stripped(r) /\ Goto(r, "401")
    /\ UNCHANGED <<limitVars, kind, since, attempt, stalls, upstreamVars,
                   admitted, budget>>

\* The client's identity headers are stripped and a service token is added
\* (on local paths nobody looks at it); those of the claims are set on
\* protected paths, which need a valid token.
Authenticate(r) ==
    /\ pc[r] = "auth"
    /\ Mint(r)
    /\ \/ kind[r].path \in OpenPaths /\ Stripped(r) /\ Goto(r, "route")
       \/ /\ kind[r].path \notin OpenPaths
          /\ \/ kind[r].token = "good" /\ FromClaims(r) /\ Goto(r, "route")
             \/ kind[r].token = "bad" /\ Stripped(r) /\ Goto(r, "401")
    /\ UNCHANGED <<limitVars, kind, since, attempt, stalls, upstreamVars,
                   admitted, budget>>

-----------------------------------------------------------------------------
(* proxy_request and forward_with_retry *)

\* The token is gone with its request.
Forget(r) == age' = [age EXCEPT ![r] = 0] /\ stalls' = [stalls EXCEPT ![r] = 0]

\* Waits of the request, w altogether, make its token older; n of them took
\* time.
Older(r, w) == IF age[r] + w < ServiceTtl THEN age[r] + w ELSE ServiceTtl
Stall(w) == IF w = 0 THEN 0 ELSE 1
Most(n) == IF n < 2 THEN n ELSE 2
Waited(r, w, n) ==
    /\ age' = [age EXCEPT ![r] = Older(r, w)]
    /\ stalls' = [stalls EXCEPT ![r] = Most(@ + n)]

\* One phase after the other.
TwoWaits(r) == \E v, w \in Waits : Waited(r, v + w, Stall(v) + Stall(w))

\* The routes the gateway answers itself are GET routes; any other method on
\* their paths comes to the proxy, which has no upstream for it.
Locally(r) == kind[r].path \in {"exempt", "local"} /\ kind[r].method = "GET"

\* The upstream is found and the whole body is read from the client: nothing
\* bounds how long that takes.
Route(r) ==
    /\ pc[r] = "route"
    /\ attempt' = [attempt EXCEPT ![r] = 1]
    /\ \/ Locally(r) /\ Goto(r, "local") /\ UNCHANGED age
       \/ /\ ~Locally(r) /\ kind[r].path \notin {"public", "protected"}
          /\ Goto(r, "502 unrouted") /\ UNCHANGED age
       \/ /\ kind[r].path \in {"public", "protected"}
          /\ Goto(r, "send")
          /\ age' = [age EXCEPT ![r] =
                        IF kind[r].pace = "slow" THEN ServiceTtl ELSE @]
    /\ UNCHANGED <<limitVars, kind, since, header, stalls, upstreamVars,
                   admitted, budget>>

MaxAttemptsAny(r) == Attempts \* mutant: every method is retried
MaxAttempts(r) == IF kind[r].method = "GET" THEN Attempts ELSE 1

LastAttempt(r) == attempt[r] = MaxAttempts(r)

\* An attempt that brought no final answer: the end of the loop, or a pause.
\* Its waits only matter to the attempts that follow.
GiveUpOrWait(r, answer) ==
    \/ LastAttempt(r) /\ Goto(r, answer) /\ Forget(r)
    \/ ~LastAttempt(r) /\ Goto(r, "backoff") /\ TwoWaits(r)

Sending(r) ==
    UNCHANGED <<limitVars, kind, since, header, attempt, admitted, budget>>

\* A connection is free, and made unless it is kept from an earlier request.
Connect(r) ==
    /\ pc[r] = "send"
    /\ TwoWaits(r)
    /\ Goto(r, "connected")
    /\ UNCHANGED upstreamVars /\ Sending(r)

\* ConnectError or ConnectTimeout.
ConnectFails(r) ==
    /\ pc[r] = "send"
    /\ GiveUpOrWait(r, "502 unavailable")
    /\ UNCHANGED upstreamVars /\ Sending(r)

\* decode_service_token fails.
Expired(r, w) == Older(r, w) = ServiceTtl

\* The upstream service takes the request and may act on it, or refuses it
\* (ServiceTokenMiddleware) because its token has expired: while the head or
\* the body is written, or the gateway waits for the reply.  On some public
\* paths it asks for no token.
Receive(r) ==
    /\ pc[r] = "connected"
    /\ \E h, b, a \in Waits :
         /\ Waited(r, h + b + a, Stall(h) + Stall(b) + Stall(a))
         /\ \/ /\ ~Expired(r, h + b + a) \/ kind[r].path = "public"
               /\ received' = [received EXCEPT ![r] = @ + 1]
               /\ seen' = [seen EXCEPT ![r] = @ \cup {header[r]}]
               /\ Goto(r, "upstream")
            \/ /\ Expired(r, h + b + a)
               /\ Goto(r, "401 expired")
               /\ UNCHANGED upstreamVars
    /\ Sending(r)

ReplyBusyAsUnavailable(r) == \* mutant: a 503 is answered like a refused connection
    /\ pc[r] = "upstream"
    /\ (Goto(r, "ok") /\ Forget(r)) \/ GiveUpOrWait(r, "502 unavailable")
    /\ UNCHANGED upstreamVars /\ Sending(r)

\* Its reply is passed on, except for a 502, 503 or 504 that can be retried.
Reply(r) ==
    /\ pc[r] = "upstream"
    /\ (Goto(r, "ok") /\ Forget(r)) \/ GiveUpOrWait(r, "busy")
    /\ UNCHANGED upstreamVars /\ Sending(r)

\* Any other error of the client (no free connection, a write or read timeout,
\* a reply cut short) is caught by nobody: 500.
Breaks(r) ==
    /\ pc[r] \in {"send", "connected", "upstream"}
    /\ Goto(r, "500")
    /\ Forget(r)
    /\ UNCHANGED upstreamVars /\ Sending(r)

RetryUncounted(r) == \* mutant: the loop does not count its attempts
    /\ pc[r] = "backoff"
    /\ Goto(r, "send")
    /\ UNCHANGED <<age, stalls, upstreamVars>> /\ Sending(r)

Retry(r) ==
    /\ pc[r] = "backoff"
    /\ attempt' = [attempt EXCEPT ![r] = @ + 1]
    /\ Goto(r, "send")
    /\ UNCHANGED <<limitVars, kind, since, header, age, stalls, upstreamVars,
                   admitted, budget>>

\* The calls of the HTTP client.
Forward(r) ==
    \/ Connect(r) \/ ConnectFails(r) \/ Receive(r) \/ Reply(r) \/ Breaks(r)
    \/ Retry(r)

Serve(r) ==
    \/ Incr(r) \/ SetTtl(r) \/ Authenticate(r) \/ Route(r) \/ Forward(r)

-----------------------------------------------------------------------------
\* Time does not outrun a request that waits for its INCR by more than
\* MaxDelay.
Tick ==
    /\ now < MaxTime
    /\ \A r \in Reqs : pc[r] = "incr" => now < since[r] + MaxDelay
    /\ RL!Tick
    /\ UNCHANGED <<pc, reqVars, upstreamVars, admitted, budget>>

Crash ==
    /\ crashes < MaxCrashes
    /\ crashes' = crashes + 1
    /\ pc' = [r \in Reqs |-> IF pc[r] \in Stages THEN "lost" ELSE pc[r]]
    /\ age' = [r \in Reqs |-> 0]
    /\ stalls' = [r \in Reqs |-> IF pc[r] \in Stages THEN 0 ELSE stalls[r]]
    /\ since' = [r \in Reqs |-> 0]
    /\ UNCHANGED <<limitVars, kind, header, attempt, upstreamVars, admitted,
                   faults>>

Next ==
    \/ Tick \/ Crash
    \/ \E r \in Reqs : Serve(r) \/ RedisRaises(r) \/ \E k \in Kinds : Arrive(r, k)

Spec == Init /\ [][Next]_vars

\* The event loop runs every coroutine, the HTTP client bounds every phase of
\* an attempt, and the pause is a sleep.  Nothing bounds the calls to Redis (the
\* client has no socket timeout) nor how long a client takes over its body.
FairSpec == Spec /\ \A r \in Reqs : WF_vars(Forward(r))

-----------------------------------------------------------------------------
TypeOK ==
    /\ RL!TypeOK /\ now <= MaxTime
    /\ pc \in [Reqs -> {"idle"} \cup Stages \cup Answers]
    /\ kind \in [Reqs -> Kinds \cup {NoKind}]
    /\ since \in [Reqs -> 0..MaxTime]
    /\ header \in [Reqs -> {"none", "forged", "claims"}]
    /\ attempt \in [Reqs -> 0..Attempts]
    /\ age \in [Reqs -> 0..ServiceTtl] /\ stalls \in [Reqs -> 0..2]
    /\ received \in [Reqs -> Nat]
    /\ seen \in [Reqs -> SUBSET {"none", "forged", "claims"}]
    /\ admitted \in [Windows -> Nat]
    /\ faults \in 0..MaxFaults /\ crashes \in 0..MaxCrashes

\* No more than Limit requests of a client are let through in one window, also
\* when one that was delayed increments the counter after the window is over.
WindowLimit == \A w \in Windows : admitted[w] <= Limit

\* A counter without a TTL, which Redis keeps for ever, takes a request that
\* died or failed between INCR and EXPIRE.
Leaked == {w \in Windows : /\ count[w] > 0 /\ expiry[w] = 0
                           /\ \A r \in Reqs : ~(pc[r] = "expire" /\ WindowOf(r) = w)}
CountersExpire == Cardinality(Leaked) <= faults + crashes * Cardinality(Reqs)

\* The answer tells whether a POST took effect: a refusal of the gateway, or of
\* ServiceTokenMiddleware, means that no service has acted on it, a reply means
\* that one has, once, and no service ever gets it twice.
AnswerTellsEffect ==
    \A r \in Reqs : kind[r].method = "POST" =>
        /\ received[r] <= 1
        /\ pc[r] \in {"401", "401 expired", "429", "502 unrouted",
                      "502 unavailable"} => received[r] = 0
        /\ pc[r] \in {"ok", "busy"} => received[r] = 1

\* The identity headers a service may be given with the request.
Vouched(r) ==
    IF kind[r].path = "protected" /\ kind[r].token = "good" THEN {"claims"}
    ELSE IF kind[r].path = "public" THEN {"none"} ELSE {}

\* Identity headers an upstream sees come from a verified token, never from
\* the client, in every attempt.
IdentityIsVerified == \A r \in Reqs : seen[r] \subseteq Vouched(r)

\* A request is refused for the age of its service token only if its client is
\* slow or two phases of the calls to the upstream took time: one timeout, in
\* the first attempt or in an earlier one, is never enough.
ExpiredOnlyWhenLate ==
    \A r \in Reqs : pc[r] = "401 expired" =>
        kind[r].pace = "slow" \/ stalls[r] = 2

\* Once its body is read, a request is answered or dies with the process.
RequestEnds == \A r \in Reqs : (pc[r] \in Forwarding) ~> (pc[r] \in Answers)

=============================================================================
