----------------------------- MODULE Onboarding -----------------------------
(***************************************************************************)
(* The onboarding saga: POST /onboarding in auth-service, the creation of  *)
(* the tenant in tenant-service and the activation of the user back in     *)
(* auth-service, tied together by the stream events:onboarding.            *)
(*                                                                         *)
(* A service runs as one process or as several replicas, which share its   *)
(* database and, having one consumer name, the pending messages of its     *)
(* group.  An auth process runs one thread per request and one consumer    *)
(* thread; a tenant process runs a consumer thread.  A read of a database, *)
(* a commit, an event published, a registry operation and the              *)
(* acknowledgement of a message are one step each.  The consumer loop is   *)
(* that of Consumer, with the Redis commands around a handler's outcome    *)
(* taken together (Consumer separates them), and one entry of the stream   *)
(* per event.                                                              *)
(*                                                                         *)
(* The threads of an auth process share the connections of one pool.  A    *)
(* session takes one at its first statement and gives it back at its next  *)
(* commit or when it is closed; refresh() after a commit takes one again,  *)
(* which the request holds while it waits for its completion.              *)
(***************************************************************************)
EXTENDS Naturals, Sequences, FiniteSets

CONSTANTS Reqs,          \* onboarding requests, each with a user id of its own
          Procs,         \* the processes of the two services
          ServiceOf,     \* the service each belongs to
          NoEmail,       \* the email of a request that nobody makes
          MaxDeliveries, \* max_deliveries of the consumers
          Scenarios      \* what a behaviour may start with:
                         \*   email    the email each request registers
                         \*   procs    the processes that are used
                         \*   pool     connections of an auth process (5+10)
                         \*   faults   bound: exceptions of a database, of
                         \*            its pool or of Redis
                         \*   crashes  bound: process deaths

Auth == "auth"
Tenant == "tenant"
Services == {Auth, Tenant}
NoHost == "none"

ASSUME OnboardingAssumption ==
    /\ 0 \notin Reqs /\ NoHost \notin Procs
    /\ ServiceOf \in [Procs -> Services]
    /\ MaxDeliveries \in Nat \ {0}
    /\ \A s \in Scenarios : /\ DOMAIN s.email = Reqs
                            /\ s.procs \subseteq Procs
                            /\ s.pool \in Nat \ {0}
                            /\ s.faults \in Nat /\ s.crashes \in Nat

VARIABLES
    scenario,
    status, tenantOf,             \* auth_db: the users
    tenants,                      \* tenant_db: the user each tenant is for
    stream, dlq,                  \* Redis: events:onboarding and its DLQ
    lastId, pel,                  \* Redis: the two groups
    deliveries,                   \* Redis: the hash of failures they share
    up,                           \* the processes that run
    rpc, host,                    \* request threads; the process of each
    cpc, phase, batch, cur, made, \* consumer threads; made is the tenant the
                                  \* handler has committed, or read again
    events, results, waiter, answer, completed, when,  \* CompletionRegistry
    contended,                    \* history: users whose check and activation
                                  \* in two replicas have overlapped
    faults, crashes

dbVars == <<scenario, status, tenantOf, tenants, contended>>
groupVars == <<dlq, lastId, pel, deliveries>>
reqVars == <<rpc, host>>
consumerVars == <<cpc, phase, batch, cur, made>>
regVars == <<events, results, waiter, answer, completed, when>>
budget == <<faults, crashes>>
vars == <<dbVars, stream, groupVars, up, reqVars, consumerVars, regVars, budget>>

NoTenant == 0
Registry == INSTANCE CompletionRegistry WITH
    Users <- Reqs, Tenants <- Nat \ {0}, None <- NoTenant

Pending == "onboarding.pending"
Created == "tenant.created"
Completed == "onboarding.completed"

Event(type, r, t) == [type |-> type, user |-> r, tenant |-> t]

\* build_handlers of the two services.
HandledBy(p) == IF ServiceOf[p] = Auth THEN Created ELSE Pending

Email(r) == scenario.email[r]

Init ==
    /\ scenario \in Scenarios
    /\ status = [r \in Reqs |-> "none"]
    /\ tenantOf = [r \in Reqs |-> NoTenant]
    /\ tenants = <<>>
    /\ contended = {}
    /\ stream = <<>>
    /\ dlq = {}
    /\ lastId = [s \in Services |-> 0]
    /\ pel = [s \in Services |-> {}]
    /\ deliveries = <<>>
    /\ up = {}
    /\ rpc = [r \in Reqs |-> IF Email(r) = NoEmail THEN "none" ELSE "start"]
    /\ host = [r \in Reqs |-> NoHost]
    /\ cpc = [p \in Procs |-> "down"]
    /\ phase = [p \in Procs |-> "history"]
    /\ batch = [p \in Procs |-> {}]
    /\ cur = [p \in Procs |-> 0]
    /\ made = [p \in Procs |-> NoTenant]
    /\ Registry!Init
    /\ faults = 0 /\ crashes = 0

Fault == faults < scenario.faults /\ faults' = faults + 1 /\ UNCHANGED crashes

Publish(e) == stream' = Append(stream, e)

ReqGoto(r, place) == rpc' = [rpc EXCEPT ![r] = place]
ConGoto(p, place) == cpc' = [cpc EXCEPT ![p] = place]

\* The end of _handle: its locals are gone.
Done(p, place) ==
    /\ ConGoto(p, place)
    /\ cur' = [cur EXCEPT ![p] = 0]
    /\ made' = [made EXCEPT ![p] = NoTenant]

\* The connections that sessions of the auth process a hold between steps.
InUse(a) ==
    Cardinality({r \in Reqs : host[r] = a /\ rpc[r] \in {"free", "published"}})
    + (IF cpc[a] \in {"assign", "complete"} THEN 1 ELSE 0)

ConnectionFree(a) == InUse(a) < scenario.pool

-----------------------------------------------------------------------------
(* The request thread: controller.onboarding *)

Taken(r) == \E q \in Reqs : Email(q) = Email(r) /\ status[q] # "none"

\* A process serves the request; start_onboarding looks the email up ...
LookUpEmail(r) ==
    /\ rpc[r] = "start"
    /\ \E a \in up : /\ ServiceOf[a] = Auth /\ ConnectionFree(a)
                     /\ host' = [host EXCEPT ![r] = a]
    /\ ReqGoto(r, IF Taken(r) THEN "409" ELSE "free")
    /\ UNCHANGED <<dbVars, stream, groupVars, up, consumerVars, regVars, budget>>

\* No connection comes free within pool_timeout.
ConnectionTimesOut(r) ==
    /\ rpc[r] = "start"
    /\ \E a \in up : ServiceOf[a] = Auth /\ ~ConnectionFree(a)
    /\ Fault
    /\ ReqGoto(r, "500")
    /\ UNCHANGED <<dbVars, stream, groupVars, up, host, consumerVars, regVars>>

InsertDuplicate(r) == \* mutant: no unique index on email
    /\ rpc[r] = "free"
    /\ status' = [status EXCEPT ![r] = "pending"]
    /\ ReqGoto(r, "inserted")
    /\ UNCHANGED <<scenario, tenantOf, tenants, contended, stream, groupVars, up,
                   host, consumerVars, regVars, budget>>

\* ... and commits the new user; the unique index on email rejects a second.
InsertUser(r) ==
    /\ rpc[r] = "free"
    /\ \/ Taken(r) /\ ReqGoto(r, "500") /\ UNCHANGED status
       \/ /\ ~Taken(r)
          /\ status' = [status EXCEPT ![r] = "pending"]
          /\ ReqGoto(r, "inserted")
    /\ UNCHANGED <<scenario, tenantOf, tenants, contended, stream, groupVars, up,
                   host, consumerVars, regVars, budget>>

\* db.refresh, which needs a connection again, and the event.
PublishPending(r) ==
    /\ rpc[r] = "inserted" /\ ConnectionFree(host[r])
    /\ Publish(Event(Pending, r, NoTenant))
    /\ ReqGoto(r, "published")
    /\ UNCHANGED <<dbVars, groupVars, up, host, consumerVars, regVars, budget>>

\* No connection in time, or Redis raises, whether it added the entry or not.
PublishPendingRaises(r) ==
    /\ rpc[r] = "inserted"
    /\ Fault
    /\ \/ UNCHANGED stream
       \/ ConnectionFree(host[r]) /\ Publish(Event(Pending, r, NoTenant))
    /\ ReqGoto(r, "500")
    /\ UNCHANGED <<dbVars, groupVars, up, host, consumerVars, regVars>>

WaitForCompletion(r) ==
    /\ rpc[r] = "published"
    /\ Registry!Register(r) \/ Registry!Wait(r)
    /\ UNCHANGED <<dbVars, stream, groupVars, up, reqVars, consumerVars, budget>>

\* 202 with the user id, or a session for the user read again from the
\* database and overwritten with the tenant of the answer.
Accepted(r) ==
    /\ rpc[r] = "published" /\ waiter[r] = "returned" /\ answer[r] = NoTenant
    /\ ReqGoto(r, "202")
    /\ UNCHANGED <<dbVars, stream, groupVars, up, host, consumerVars, regVars, budget>>

\* The commit of _open_session writes the user too, if it is not what was read.
Overwrite(r) ==
    /\ tenantOf' = [tenantOf EXCEPT ![r] = answer[r]]
    /\ status' = [status EXCEPT ![r] = "active"]

OpenSession(r) ==
    /\ rpc[r] = "published" /\ waiter[r] = "returned" /\ answer[r] # NoTenant
    /\ Overwrite(r)
    /\ ReqGoto(r, "200")
    /\ UNCHANGED <<scenario, tenants, contended, stream, groupVars, up, host,
                   consumerVars, regVars, budget>>

\* One of its reads, the commit, whether it was executed or not, or the refresh
\* after it raises.
OpenSessionRaises(r) ==
    /\ rpc[r] = "published" /\ waiter[r] = "returned" /\ answer[r] # NoTenant
    /\ Fault
    /\ UNCHANGED <<tenantOf, status>> \/ Overwrite(r)
    /\ ReqGoto(r, "500")
    /\ UNCHANGED <<scenario, tenants, contended, stream, groupVars, up, host,
                   consumerVars, regVars>>

Request(r) ==
    \/ LookUpEmail(r) \/ InsertUser(r) \/ PublishPending(r)
    \/ WaitForCompletion(r) \/ Accepted(r) \/ OpenSession(r)

RequestRaises(r) ==
    ConnectionTimesOut(r) \/ PublishPendingRaises(r) \/ OpenSessionRaises(r)

-----------------------------------------------------------------------------
(* The consumer threads: run_forever *)

SkipHistory(p) == \* mutant: pending messages are not read at the start
    /\ cpc[p] = "run" /\ batch[p] = {} /\ phase[p] = "history"
    /\ phase' = [phase EXCEPT ![p] = "new"]
    /\ UNCHANGED <<dbVars, stream, groupVars, up, reqVars, cpc, batch, cur, made,
                   regVars, budget>>

\* All that is pending in the group, what another replica works on included.
ReadHistory(p) ==
    LET pending == pel[ServiceOf[p]] IN
    /\ cpc[p] = "run" /\ batch[p] = {} /\ phase[p] = "history"
    /\ batch' = [batch EXCEPT ![p] = pending]
    /\ phase' = [phase EXCEPT ![p] = IF pending = {} THEN "new" ELSE @]
    /\ UNCHANGED <<dbVars, stream, groupVars, up, reqVars, cpc, cur, made, regVars,
                   budget>>

ReadNew(p) ==
    LET s == ServiceOf[p]
        ids == (lastId[s] + 1)..Len(stream)
    IN
    /\ cpc[p] = "run" /\ batch[p] = {} /\ phase[p] = "new"
    /\ ids # {}
    /\ batch' = [batch EXCEPT ![p] = ids]
    /\ pel' = [pel EXCEPT ![s] = @ \cup ids]
    /\ lastId' = [lastId EXCEPT ![s] = Len(stream)]
    /\ UNCHANGED <<dbVars, stream, dlq, deliveries, up, reqVars, cpc, phase, cur,
                   made, regVars, budget>>

\* The next message; one without a handler is only acknowledged.
Take(p) ==
    /\ cpc[p] = "run"
    /\ \E m \in batch[p] :
         /\ \A k \in batch[p] : m <= k
         /\ batch' = [batch EXCEPT ![p] = @ \ {m}]
         /\ cur' = [cur EXCEPT ![p] = m]
         /\ ConGoto(p, IF stream[m].type = HandledBy(p) THEN "handle" ELSE "skip")
    /\ UNCHANGED <<dbVars, stream, groupVars, up, reqVars, phase, made, regVars,
                   budget>>

Failures(m) == IF m \in DOMAIN deliveries THEN deliveries[m] ELSE 0

\* HINCRBY and HDEL.
CountFailure(m) ==
    deliveries' = [k \in DOMAIN deliveries \cup {m} |->
                      IF k = m THEN Failures(m) + 1 ELSE deliveries[k]]
ClearFailures(m) ==
    deliveries' = [k \in DOMAIN deliveries \ {m} |-> deliveries[k]]

XAck(p) == pel' = [pel EXCEPT ![ServiceOf[p]] = @ \ {cur[p]}]

Ack(p) ==
    /\ \/ cpc[p] = "ack" /\ ClearFailures(cur[p])
       \/ cpc[p] = "skip" /\ UNCHANGED deliveries
    /\ XAck(p)
    /\ Done(p, "run")
    /\ UNCHANGED <<dbVars, stream, dlq, lastId, up, reqVars, phase, batch, regVars,
                   budget>>

\* Where _handle is while it works on a message.
Handling == {"handle", "assign", "publish", "complete", "ack", "skip"}

\* Any step of a handler, or the acknowledgement after it, can raise: the
\* except clause counts the failure and, at max_deliveries, dead-letters.  A
\* commit or a publication that raises although it was executed is a failure at
\* the step after it.
Raise(p) ==
    /\ cpc[p] \in Handling
    /\ Fault
    /\ \/ /\ Failures(cur[p]) + 1 >= MaxDeliveries
          /\ dlq' = dlq \cup {cur[p]} /\ XAck(p) /\ ClearFailures(cur[p])
       \/ /\ Failures(cur[p]) + 1 < MaxDeliveries
          /\ CountFailure(cur[p]) /\ UNCHANGED <<dlq, pel>>
    /\ Done(p, "run")
    /\ UNCHANGED <<dbVars, stream, lastId, up, reqVars, phase, batch, regVars>>

-----------------------------------------------------------------------------
(* The handler of tenant-service *)

\* The user the message is about.
UserOf(p) == stream[cur[p]].user

CreateTenantOther(p) == \* mutant: the id of the tenant created before
    /\ cpc[p] = "handle" /\ ServiceOf[p] = Tenant
    /\ tenants' = Append(tenants, UserOf(p))
    /\ made' = [made EXCEPT ![p] = Len(tenants)]
    /\ ConGoto(p, "publish")
    /\ UNCHANGED <<scenario, status, tenantOf, contended, stream, groupVars, up,
                   reqVars, phase, batch, cur, regVars, budget>>

\* handle_onboarding_pending: always a new tenant with a new id.
CreateTenant(p) ==
    /\ cpc[p] = "handle" /\ ServiceOf[p] = Tenant
    /\ tenants' = Append(tenants, UserOf(p))
    /\ made' = [made EXCEPT ![p] = Len(tenants) + 1]
    /\ ConGoto(p, "publish")
    /\ UNCHANGED <<scenario, status, tenantOf, contended, stream, groupVars, up,
                   reqVars, phase, batch, cur, regVars, budget>>

PublishCreated(p) ==
    /\ cpc[p] = "publish" /\ ServiceOf[p] = Tenant
    /\ Publish(Event(Created, UserOf(p), made[p]))
    /\ ConGoto(p, "ack")
    /\ UNCHANGED <<dbVars, groupVars, up, reqVars, phase, batch, cur, made, regVars,
                   budget>>

(* The handler of auth-service *)

\* Another process is between its check of the user u and its commit.
Assigning(p, u) == \E q \in Procs \ {p} : cpc[q] = "assign" /\ UserOf(q) = u

ReadUserAlways(p) == \* mutant: no check that the user is still pending
    /\ cpc[p] = "handle" /\ ServiceOf[p] = Auth /\ ConnectionFree(p)
    /\ ConGoto(p, "assign")
    /\ contended' = contended \cup {u \in {UserOf(p)} : Assigning(p, u)}
    /\ UNCHANGED <<scenario, status, tenantOf, tenants, stream, groupVars, up,
                   reqVars, phase, batch, cur, made, regVars, budget>>

\* handle_tenant_created reads the user, without a lock: one that is unknown or
\* active is left as it is ...
ReadUser(p) ==
    /\ cpc[p] = "handle" /\ ServiceOf[p] = Auth /\ ConnectionFree(p)
    /\ \/ /\ status[UserOf(p)] = "pending"
          /\ ConGoto(p, "assign")
          /\ contended' = contended \cup {u \in {UserOf(p)} : Assigning(p, u)}
       \/ /\ status[UserOf(p)] # "pending"
          /\ ConGoto(p, "ack")
          /\ UNCHANGED contended
    /\ UNCHANGED <<scenario, status, tenantOf, tenants, stream, groupVars, up,
                   reqVars, phase, batch, cur, made, regVars, budget>>

\* ... and commits its tenant, over whatever was committed since.
AssignTenant(p) ==
    /\ cpc[p] = "assign"
    /\ status' = [status EXCEPT ![UserOf(p)] = "active"]
    /\ tenantOf' = [tenantOf EXCEPT ![UserOf(p)] = stream[cur[p]].tenant]
    /\ ConGoto(p, "publish")
    /\ UNCHANGED <<scenario, tenants, contended, stream, groupVars, up, reqVars,
                   phase, batch, cur, made, regVars, budget>>

\* db.refresh after the commit and the event with what it has read; the session
\* is closed after the signal.
PublishCompleted(p) ==
    /\ cpc[p] = "publish" /\ ServiceOf[p] = Auth /\ ConnectionFree(p)
    /\ made' = [made EXCEPT ![p] = tenantOf[UserOf(p)]]
    /\ Publish(Event(Completed, UserOf(p), tenantOf[UserOf(p)]))
    /\ ConGoto(p, "complete")
    /\ UNCHANGED <<dbVars, groupVars, up, reqVars, phase, batch, cur, regVars, budget>>

SignalLast(p) == \* mutant: the user of the latest event
    LET u == stream[Len(stream)].user IN
    /\ cpc[p] = "complete"
    /\ \/ host[u] = p /\ Registry!Complete(u, made[p])
       \/ host[u] # p /\ UNCHANGED regVars
    /\ ConGoto(p, "ack")
    /\ UNCHANGED <<dbVars, stream, groupVars, up, reqVars, phase, batch, cur, made,
                   budget>>

\* The registry is that of the process: nobody looks the user up there unless
\* the process serves its request.
SignalCompletion(p) ==
    /\ cpc[p] = "complete"
    /\ \/ host[UserOf(p)] = p /\ Registry!Complete(UserOf(p), made[p])
       \/ host[UserOf(p)] # p /\ UNCHANGED regVars
    /\ ConGoto(p, "ack")
    /\ UNCHANGED <<dbVars, stream, groupVars, up, reqVars, phase, batch, cur, made,
                   budget>>

Handler(p) ==
    \/ CreateTenant(p) \/ PublishCreated(p)
    \/ ReadUser(p) \/ AssignTenant(p) \/ PublishCompleted(p) \/ SignalCompletion(p)

Consume(p) == ReadHistory(p) \/ ReadNew(p) \/ Take(p) \/ Handler(p) \/ Ack(p)

-----------------------------------------------------------------------------
(* Processes *)

Start(p) ==
    /\ p \in scenario.procs \ up
    /\ up' = up \cup {p}
    /\ ConGoto(p, "run")
    /\ UNCHANGED <<dbVars, stream, groupVars, reqVars, phase, batch, cur, made,
                   regVars, budget>>

\* The requests that die with their process.
Open(r) == rpc[r] \in {"free", "inserted", "published"}
ServedBy(p) == {r \in Reqs : host[r] = p}
Lost(p) == {r \in ServedBy(p) : Open(r)}

Kill(p) ==
    /\ p \in up
    /\ crashes < scenario.crashes
    /\ crashes' = crashes + 1
    /\ up' = up \ {p}
    /\ Done(p, "down")
    /\ phase' = [phase EXCEPT ![p] = "history"]
    /\ batch' = [batch EXCEPT ![p] = {}]
    /\ rpc' = [r \in Reqs |-> IF r \in Lost(p) THEN "lost" ELSE rpc[r]]
    /\ Registry!Restart(ServedBy(p), Lost(p))
    /\ UNCHANGED <<dbVars, stream, groupVars, host, faults>>

-----------------------------------------------------------------------------
Next ==
    \/ \E r \in Reqs : Request(r) \/ RequestRaises(r)
    \/ \E p \in Procs : Consume(p) \/ Raise(p) \/ Start(p) \/ Kill(p)

Spec == Init /\ [][Next]_vars

\* Request and consumer threads run.  Nothing in the repository starts a process
\* again.
Fairness ==
    /\ \A r \in Reqs : WF_vars(Request(r))
    /\ \A p \in Procs : WF_vars(Consume(p))

FairSpec == Spec /\ Fairness

-----------------------------------------------------------------------------
Places == {"none", "start", "free", "inserted", "published", "200", "202", "409",
           "500", "lost"}

Events == [type : {Pending, Created, Completed}, user : Reqs, tenant : Nat]
Ids == 1..Len(stream)

TypeOK ==
    /\ scenario \in Scenarios
    /\ status \in [Reqs -> {"none", "pending", "active"}]
    /\ tenantOf \in [Reqs -> Nat]
    /\ tenants \in Seq(Reqs)
    /\ stream \in Seq(Events)
    /\ dlq \subseteq Ids /\ contended \subseteq Reqs
    /\ lastId \in [Services -> 0..Len(stream)]
    /\ pel \in [Services -> SUBSET Ids]
    /\ up \subseteq Procs
    /\ rpc \in [Reqs -> Places]
    /\ host \in [Reqs -> Procs \cup {NoHost}]
    /\ cpc \in [Procs -> {"down", "run"} \cup Handling]
    /\ phase \in [Procs -> {"history", "new"}]
    /\ batch \in [Procs -> SUBSET Ids]
    /\ cur \in [Procs -> 0..Len(stream)]
    /\ \A p \in Procs : cpc[p] \in Handling => cur[p] # 0
    /\ made \in [Procs -> Nat]
    /\ Registry!TypeOK
    /\ faults \in 0..scenario.faults /\ crashes \in 0..scenario.crashes

\* Whatever is crashed, retried or delivered twice, the two databases together
\* follow the saga: one account per email, activated once, with a tenant that
\* exists, was created for it and never changes.  Only an account whose check and
\* activation overlapped in two replicas may be activated again, and then with a
\* tenant that was created for it, too.
Saga == INSTANCE OnboardingSaga WITH emailOf <- scenario.email, raced <- contended
ImplementsSaga == Saga!Spec

\* A tenant that was created for the user.
OwnTenant(r, t) == t \in DOMAIN tenants /\ tenants[t] = r

\* The tenant the registry answers with was created for the user, and is the one
\* the user has in the database unless two replicas activated it at once:
\* opening the session overwrites the user with what it holds.
AnswerMatchesUser ==
    \A r \in Reqs : answer[r] # NoTenant =>
        /\ status[r] = "active" /\ OwnTenant(r, answer[r])
        /\ r \notin contended => answer[r] = tenantOf[r]

Announced(r) == {m \in DOMAIN stream :
                   stream[m].type = Completed /\ stream[m].user = r}

\* onboarding.completed is published after the commit, with a tenant that was
\* created for the user: once, and with the tenant the user keeps, however often
\* tenant.created comes, unless two replicas activated the user at once.
CompletedOnce ==
    \A r \in Reqs :
        /\ \A m \in Announced(r) :
             /\ status[r] = "active" /\ OwnTenant(r, stream[m].tenant)
             /\ r \notin contended => stream[m].tenant = tenantOf[r]
        /\ r \notin contended => Cardinality(Announced(r)) <= 1

\* A waiter is woken with the tenant of its own user, and gives up without an
\* answer only when its user was not completed while it was blocked.
WaiterIsAnswered == Registry!AnswerIsCompletion

\* "Returns the tenant_id if completed within `timeout`, otherwise None."
NoCompletionMissed == Registry!NoCompletionMissed

Requested(r) == \E m \in DOMAIN stream :
                    stream[m].type = Pending /\ stream[m].user = r

\* Processes may crash any number of times, at any step: if in the end all of
\* them run and no call has raised, a user whose onboarding.pending was published
\* becomes active, and stays so.
RequestedBecomesActive ==
    <>[](scenario.procs \subseteq up) =>
        \A r \in Reqs : <>[](Requested(r) => status[r] = "active" \/ faults > 0)

\* A request that reached the database is answered or dies with its process.
RequestEnds == \A r \in Reqs : []<>~Open(r)

\* The handler of tenant-service is idempotent: one tenant per user.
OneTenantPerUser ==
    \A i, j \in DOMAIN tenants : tenants[i] = tenants[j] => i = j

=============================================================================
