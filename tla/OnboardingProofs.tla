-------------------------- MODULE OnboardingProofs --------------------------
(***************************************************************************)
(* Theorems about Onboarding, for any numbers of requests and deliveries,  *)
(* replicas of both services, and any scenarios: any emails, pool, errors  *)
(* and crashes.                                                            *)
(***************************************************************************)
EXTENDS Onboarding, SequenceTheorems, FiniteSetTheorems, TLAPS

LEMMA AppendFacts ==
    ASSUME NEW S, NEW q \in Seq(S), NEW e \in S
    PROVE  /\ Append(q, e) \in Seq(S)
           /\ Len(q) \in Nat /\ Len(Append(q, e)) = Len(q) + 1
           /\ \A m \in 1..Len(q) : Append(q, e)[m] = q[m] /\ q[m] \in S
           /\ Append(q, e)[Len(q) + 1] = e
           /\ 0..Len(q) \subseteq 0..Len(Append(q, e))
           /\ 1..Len(q) \subseteq 1..Len(Append(q, e))
           /\ Len(q) + 1 \in 1..Len(Append(q, e))
<1>1. Append(q, e) \in Seq(S) /\ Len(q) \in Nat /\ Len(Append(q, e)) = Len(q) + 1
  BY AppendProperties
<1>2. /\ \A m \in 1..Len(q) : Append(q, e)[m] = q[m]
      /\ Append(q, e)[Len(q) + 1] = e
  BY AppendProperties
<1>3. \A m \in 1..Len(q) : q[m] \in S
  BY ElementOfSeq
<1> QED
  BY <1>1, <1>2, <1>3

\* What becomes of the stream in one step.
Grows ==
    \/ stream' = stream
    \/ \E e \in Events : stream' = Append(stream, e)

LEMMA GrowsFacts ==
    ASSUME stream \in Seq(Events), Grows
    PROVE  /\ stream' \in Seq(Events)
           /\ Len(stream) \in Nat /\ Len(stream') \in Nat /\ Len(stream) <= Len(stream')
           /\ Ids \subseteq Ids' /\ 0..Len(stream) \subseteq 0..Len(stream')
           /\ \A m \in Ids : stream'[m] = stream[m] /\ stream[m] \in Events
<1>1. CASE stream' = stream
  <2>1. Len(stream) \in Nat /\ \A m \in Ids : stream[m] \in Events
    BY LenProperties, ElementOfSeq DEF Ids
  <2> QED
    BY <1>1, <2>1 DEF Ids
<1>2. ASSUME NEW e \in Events, stream' = Append(stream, e)
      PROVE  /\ stream' \in Seq(Events)
             /\ Len(stream) \in Nat /\ Len(stream') \in Nat /\ Len(stream) <= Len(stream')
             /\ Ids \subseteq Ids' /\ 0..Len(stream) \subseteq 0..Len(stream')
             /\ \A m \in Ids : stream'[m] = stream[m] /\ stream[m] \in Events
  BY <1>2, AppendFacts DEF Ids
<1> QED
  BY <1>1, <1>2 DEF Grows

-----------------------------------------------------------------------------
\* The parts of the type invariant that the groups of variables have alone.
UserTypes ==
    /\ scenario \in Scenarios
    /\ status \in [Reqs -> {"none", "pending", "active"}]
    /\ tenantOf \in [Reqs -> Nat]
    /\ tenants \in Seq(Reqs)
    /\ contended \subseteq Reqs
    /\ rpc \in [Reqs -> Places]
    /\ host \in [Reqs -> Procs \cup {NoHost}]
GroupTypes ==
    /\ dlq \subseteq Ids
    /\ lastId \in [Services -> 0..Len(stream)]
    /\ pel \in [Services -> SUBSET Ids]
ConsumerTypes ==
    /\ cpc \in [Procs -> {"down", "run"} \cup Handling]
    /\ phase \in [Procs -> {"history", "new"}]
    /\ batch \in [Procs -> SUBSET Ids]
    /\ cur \in [Procs -> 0..Len(stream)]
    /\ \A p \in Procs : cpc[p] \in Handling => cur[p] # 0
    /\ made \in [Procs -> Nat]
BudgetTypes == faults \in 0..scenario.faults /\ crashes \in 0..scenario.crashes

LEMMA TypeParts ==
    ASSUME UserTypes', GroupTypes', ConsumerTypes', BudgetTypes',
           stream' \in Seq(Events), up' \subseteq Procs, Registry!TypeOK'
    PROVE  TypeOK'
BY DEF TypeOK, UserTypes, GroupTypes, ConsumerTypes, BudgetTypes

LEMMA ScenarioType ==
    ASSUME TypeOK
    PROVE  /\ scenario.faults \in Nat /\ scenario.crashes \in Nat
           /\ DOMAIN scenario.email = Reqs /\ scenario.procs \subseteq Procs
BY OnboardingAssumption DEF TypeOK

LEMMA ProcessType ==
    ASSUME NEW p \in Procs
    PROVE  /\ ServiceOf[p] \in Services /\ p # NoHost
           /\ ServiceOf[p] \in {Auth, Tenant} /\ Auth # Tenant
BY OnboardingAssumption DEF Services, Auth, Tenant

\* A longer stream has room for what the groups and consumers refer to.
LEMMA StillTyped ==
    ASSUME TypeOK, Grows
    PROVE  /\ stream' \in Seq(Events)
           /\ UNCHANGED <<dlq, lastId, pel>> => GroupTypes'
           /\ UNCHANGED consumerVars => ConsumerTypes'
<1>1. /\ stream' \in Seq(Events)
      /\ Ids \subseteq Ids' /\ 0..Len(stream) \subseteq 0..Len(stream')
  BY GrowsFacts DEF TypeOK
<1> QED
  BY <1>1 DEF TypeOK, GroupTypes, ConsumerTypes, consumerVars

LEMMA EventType ==
    ASSUME NEW t \in {Pending, Created, Completed}, NEW r \in Reqs, NEW n \in Nat
    PROVE  Event(t, r, n) \in Events
BY DEF Event, Events

\* The message a consumer works on, and its user.
LEMMA MessageType ==
    ASSUME TypeOK, NEW p \in Procs, cpc[p] \in Handling
    PROVE  /\ cur[p] \in Ids /\ stream[cur[p]] \in Events /\ UserOf(p) \in Reqs
           /\ stream[cur[p]].tenant \in Nat /\ made[p] \in Nat
<1>1. Len(stream) \in Nat /\ cur[p] \in 0..Len(stream) /\ cur[p] # 0
  BY LenProperties DEF TypeOK
<1>2. cur[p] \in Ids
  BY <1>1 DEF Ids
<1>3. stream[cur[p]] \in Events
  BY <1>2, ElementOfSeq DEF TypeOK, Ids
<1> QED
  BY <1>2, <1>3 DEF Events, TypeOK, UserOf

LEMMA FaultType ==
    ASSUME TypeOK, Fault, scenario' = scenario
    PROVE  BudgetTypes'
BY ScenarioType DEF TypeOK, Fault, BudgetTypes

\* What a request thread does in the registry.
LEMMA RegistryType ==
    ASSUME Registry!TypeOK, NEW r \in Reqs, Registry!Register(r) \/ Registry!Wait(r)
    PROVE  Registry!TypeOK'
<1> USE DEF Registry!TypeOK
<1>1. CASE Registry!Register(r)
  BY <1>1 DEF Registry!Register
<1>2. CASE Registry!Wake(r)
  BY <1>2 DEF Registry!Wake
<1>3. CASE Registry!Collect(r)
  BY <1>3 DEF Registry!Collect
<1>4. CASE Registry!TimeOut(r)
  BY <1>4 DEF Registry!TimeOut
<1> QED
  BY <1>1, <1>2, <1>3, <1>4 DEF Registry!Wait

LEMMA RequestType ==
    ASSUME TypeOK, NEW r \in Reqs, Request(r) \/ RequestRaises(r)
    PROVE  TypeOK'
<1> USE DEF Request, RequestRaises
<1>1. Event(Pending, r, NoTenant) \in Events
  BY EventType DEF NoTenant
<1>2. Grows
  BY <1>1 DEF LookUpEmail, InsertUser, PublishPending, WaitForCompletion, Accepted,
     OpenSession, PublishPendingRaises, ConnectionTimesOut, OpenSessionRaises, Publish,
     Grows
<1>3. UNCHANGED <<scenario, dlq, lastId, pel, up, consumerVars>>
  BY DEF LookUpEmail, InsertUser, PublishPending, WaitForCompletion, Accepted,
     OpenSession, PublishPendingRaises, ConnectionTimesOut, OpenSessionRaises, dbVars,
     groupVars
<1>4. GroupTypes' /\ ConsumerTypes' /\ stream' \in Seq(Events)
  BY <1>2, <1>3, StillTyped
<1>5. BudgetTypes'
  <2>1. Fault \/ UNCHANGED budget
    BY DEF LookUpEmail, InsertUser, PublishPending, WaitForCompletion, Accepted,
       OpenSession, PublishPendingRaises, ConnectionTimesOut, OpenSessionRaises
  <2> QED
    BY <1>3, <2>1, FaultType DEF budget, BudgetTypes, TypeOK
<1>6. UserTypes'
  <2>1. answer[r] \in Nat
    BY DEF TypeOK, Registry!TypeOK, NoTenant
  <2> USE DEF ReqGoto, TypeOK, UserTypes, Places
  <2>2. CASE LookUpEmail(r)
    BY <2>2 DEF LookUpEmail, dbVars
  <2>3. CASE InsertUser(r) \/ PublishPending(r)
    BY <2>3 DEF InsertUser, PublishPending, dbVars
  <2>4. CASE WaitForCompletion(r) \/ Accepted(r)
    BY <2>4 DEF WaitForCompletion, Accepted, dbVars, reqVars
  <2>5. CASE OpenSession(r) \/ OpenSessionRaises(r)
    BY <2>1, <2>5 DEF OpenSession, OpenSessionRaises, Overwrite
  <2>6. CASE PublishPendingRaises(r) \/ ConnectionTimesOut(r)
    BY <2>6 DEF PublishPendingRaises, ConnectionTimesOut, dbVars
  <2> QED
    BY <2>2, <2>3, <2>4, <2>5, <2>6
<1>7. Registry!TypeOK'
  <2>1. CASE WaitForCompletion(r)
    BY <2>1, RegistryType DEF WaitForCompletion, TypeOK
  <2>2. CASE ~WaitForCompletion(r)
    <3>1. UNCHANGED regVars
      BY <2>2 DEF LookUpEmail, InsertUser, PublishPending, Accepted, OpenSession,
         PublishPendingRaises, ConnectionTimesOut, OpenSessionRaises
    <3> QED
      BY <3>1 DEF regVars, Registry!TypeOK, TypeOK
  <2> QED
    BY <2>1, <2>2
<1> QED
  <2>1. up' \subseteq Procs
    BY <1>3 DEF TypeOK
  <2> QED
    BY <1>4, <1>5, <1>6, <1>7, <2>1, TypeParts

LEMMA HandlerType ==
    ASSUME TypeOK, NEW p \in Procs, Handler(p)
    PROVE  TypeOK'
<1> USE DEF Handler
<1>1. cpc[p] \in Handling
  BY DEF CreateTenant, PublishCreated, ReadUser, AssignTenant, PublishCompleted,
         SignalCompletion, Handling
<1>2. /\ cur[p] \in Ids /\ stream[cur[p]] \in Events /\ UserOf(p) \in Reqs
      /\ stream[cur[p]].tenant \in Nat /\ made[p] \in Nat
  BY <1>1, MessageType
<1>3. tenantOf[UserOf(p)] \in Nat
  BY <1>2 DEF TypeOK
<1>4. Grows
  BY <1>2, <1>3, EventType DEF CreateTenant, PublishCreated, ReadUser, AssignTenant,
     PublishCompleted, SignalCompletion, Publish, Grows, dbVars
<1>5. /\ stream' \in Seq(Events) /\ (UNCHANGED <<dlq, lastId, pel>> => GroupTypes')
      /\ Ids \subseteq Ids' /\ 0..Len(stream) \subseteq 0..Len(stream')
  BY <1>4, StillTyped, GrowsFacts DEF TypeOK
<1>6. UNCHANGED <<scenario, dlq, lastId, pel, up, reqVars, phase, batch, cur, budget>>
  BY DEF CreateTenant, PublishCreated, ReadUser, AssignTenant, PublishCompleted,
         SignalCompletion, dbVars, groupVars
<1>7. UserTypes'
  <2>1. CASE CreateTenant(p)
    <3>1. tenants' \in Seq(Reqs)
      BY <1>2, <2>1, AppendFacts DEF CreateTenant, TypeOK
    <3> QED
      BY <2>1, <3>1 DEF CreateTenant, TypeOK, UserTypes, reqVars
  <2>2. CASE AssignTenant(p)
    BY <1>2, <2>2 DEF AssignTenant, TypeOK, UserTypes, reqVars
  <2>3. CASE ReadUser(p)
    BY <1>2, <2>3 DEF ReadUser, TypeOK, UserTypes, reqVars
  <2>4. CASE PublishCreated(p) \/ PublishCompleted(p) \/ SignalCompletion(p)
    BY <2>4 DEF PublishCreated, PublishCompleted, SignalCompletion, dbVars, reqVars,
                TypeOK, UserTypes
  <2> QED
    BY <2>1, <2>2, <2>3, <2>4
<1>8. ConsumerTypes'
  <2>1. \E w \in Handling : cpc' = [cpc EXCEPT ![p] = w]
    BY DEF CreateTenant, PublishCreated, ReadUser, AssignTenant, PublishCompleted,
           SignalCompletion, ConGoto, Handling
  <2>2. \E t \in Nat : made' = [made EXCEPT ![p] = t] \/ made' = made
    <3>1. CASE CreateTenant(p)
      <4>1. Len(tenants) + 1 \in Nat
        BY LenProperties DEF TypeOK
      <4> QED
        BY <3>1, <4>1 DEF CreateTenant
    <3>2. CASE ~CreateTenant(p)
      BY <1>3, <3>2 DEF PublishCreated, ReadUser, AssignTenant, PublishCompleted,
         SignalCompletion
    <3> QED
      BY <3>1, <3>2
  <2>3. \A x \in Procs : cpc'[x] \in Handling => cpc[x] \in Handling
    BY <1>1, <2>1 DEF TypeOK
  <2>4. cpc' \in [Procs -> {"down", "run"} \cup Handling] /\ made' \in [Procs -> Nat]
    BY <2>1, <2>2 DEF TypeOK
  <2> QED
    BY <1>5, <1>6, <2>3, <2>4 DEF TypeOK, ConsumerTypes
<1>9. Registry!TypeOK'
  <2>1. CASE Registry!Complete(UserOf(p), made[p])
    BY <1>2, <2>1 DEF Registry!Complete, Registry!TypeOK, TypeOK, NoTenant
  <2>2. CASE UNCHANGED regVars
    BY <2>2 DEF regVars, Registry!TypeOK, TypeOK
  <2> QED
    BY <2>1, <2>2 DEF CreateTenant, PublishCreated, ReadUser, AssignTenant,
       PublishCompleted, SignalCompletion
<1>10. BudgetTypes' /\ GroupTypes' /\ up' \subseteq Procs
  BY <1>5, <1>6 DEF budget, BudgetTypes, TypeOK
<1> QED
  BY <1>5, <1>7, <1>8, <1>9, <1>10, TypeParts

LEMMA ConsumerType ==
    ASSUME TypeOK, NEW p \in Procs,
           ReadHistory(p) \/ ReadNew(p) \/ Take(p) \/ Ack(p) \/ Raise(p) \/ Start(p)
    PROVE  TypeOK'
<1>1. UNCHANGED <<dbVars, stream, reqVars, regVars>>
  BY DEF ReadHistory, ReadNew, Take, Ack, Raise, Start
<1>2. /\ UserTypes' /\ Registry!TypeOK' /\ stream' \in Seq(Events) /\ scenario' = scenario
      /\ Ids' = Ids /\ Len(stream') = Len(stream)
  BY <1>1 DEF dbVars, reqVars, regVars, UserTypes, TypeOK, Registry!TypeOK, Ids
<1>3. up' \subseteq Procs
  BY ScenarioType DEF ReadHistory, ReadNew, Take, Ack, Raise, Start, TypeOK
<1>4. BudgetTypes'
  <2>1. Fault \/ UNCHANGED budget
    BY DEF ReadHistory, ReadNew, Take, Ack, Raise, Start
  <2> QED
    BY <1>2, <2>1, FaultType DEF budget, BudgetTypes, TypeOK
<1>5. Len(stream) \in Nat
  BY LenProperties DEF TypeOK
<1>6. ServiceOf[p] \in Services
  BY ProcessType
<1>7. (lastId[ServiceOf[p]] + 1)..Len(stream) \subseteq Ids
  BY <1>5, <1>6 DEF TypeOK, Ids
<1>8. GroupTypes'
  <2>1. CASE ReadNew(p)
    BY <1>2, <1>5, <1>6, <1>7, <2>1 DEF ReadNew, TypeOK, GroupTypes
  <2>2. CASE ReadHistory(p) \/ Take(p) \/ Start(p)
    BY <1>2, <2>2 DEF ReadHistory, Take, Start, groupVars, TypeOK, GroupTypes
  <2>3. CASE Ack(p)
    BY <1>2, <2>3 DEF Ack, XAck, TypeOK, GroupTypes
  <2>4. CASE Raise(p)
    <3>1. cur[p] \in Ids
      BY <2>4, MessageType DEF Raise
    <3>2. /\ dlq' = dlq \cup {cur[p]} \/ dlq' = dlq
          /\ XAck(p) \/ pel' = pel
          /\ lastId' = lastId
      BY <2>4 DEF Raise
    <3> QED
      BY <1>2, <3>1, <3>2 DEF XAck, TypeOK, GroupTypes
  <2> QED
    BY <2>1, <2>2, <2>3, <2>4
<1>9. ConsumerTypes'
  <2>1. CASE ReadNew(p)
    BY <1>2, <1>7, <2>1 DEF ReadNew, TypeOK, ConsumerTypes
  <2>2. CASE ReadHistory(p)
    BY <1>2, <1>6, <2>2 DEF ReadHistory, TypeOK, ConsumerTypes
  <2>3. CASE Take(p)
    <3>1. PICK m \in batch[p] :
              /\ batch' = [batch EXCEPT ![p] = @ \ {m}]
              /\ cur' = [cur EXCEPT ![p] = m]
              /\ ConGoto(p, IF stream[m].type = HandledBy(p) THEN "handle" ELSE "skip")
      BY <2>3 DEF Take
    <3>2. m \in Ids /\ m \in 0..Len(stream) /\ m # 0
      BY <1>5 DEF TypeOK, Ids
    <3>3. \E w \in Handling : cpc' = [cpc EXCEPT ![p] = w]
      BY <3>1 DEF ConGoto, Handling
    <3>4. UNCHANGED <<phase, made>>
      BY <2>3 DEF Take
    <3>5. \A x \in Procs : x # p => cpc'[x] = cpc[x] /\ cur'[x] = cur[x]
      BY <3>1, <3>3 DEF TypeOK
    <3>6. cpc' \in [Procs -> {"down", "run"} \cup Handling] /\ cur'[p] = m
      BY <3>1, <3>3 DEF TypeOK
    <3> QED
      BY <1>2, <3>1, <3>2, <3>4, <3>5, <3>6 DEF TypeOK, ConsumerTypes
  <2>4. CASE Ack(p) \/ Raise(p) \/ Start(p)
    <3>1. /\ cpc' = [cpc EXCEPT ![p] = "run"]
          /\ cur' = [cur EXCEPT ![p] = 0] \/ cur' = cur
          /\ made' = [made EXCEPT ![p] = 0] \/ made' = made
          /\ UNCHANGED <<phase, batch>>
      BY <2>4 DEF Ack, Raise, Start, Done, ConGoto, NoTenant
    <3>2. 0 \in 0..Len(stream) /\ 0 \in Nat /\ "run" \notin Handling
      BY <1>5 DEF Handling
    <3>3. ASSUME NEW x \in Procs, cpc'[x] \in Handling PROVE cur'[x] # 0
      BY <3>1, <3>2, <3>3 DEF TypeOK
    <3>4. cpc' \in [Procs -> {"down", "run"} \cup Handling]
      BY <3>1 DEF TypeOK
    <3> QED
      BY <1>2, <3>1, <3>2, <3>3, <3>4 DEF TypeOK, ConsumerTypes
  <2> QED
    BY <2>1, <2>2, <2>3, <2>4
<1> QED
  BY <1>2, <1>3, <1>4, <1>8, <1>9, TypeParts

LEMMA KillType ==
    ASSUME TypeOK, NEW p \in Procs, Kill(p)
    PROVE  TypeOK'
<1>1. UNCHANGED <<dbVars, stream, groupVars, host, faults>>
  BY DEF Kill
<1>2. stream' \in Seq(Events) /\ scenario' = scenario /\ Ids' = Ids
      /\ Len(stream') = Len(stream) /\ Len(stream) \in Nat
  BY <1>1, LenProperties DEF dbVars, TypeOK, Ids
<1>3. GroupTypes' /\ up' \subseteq Procs
  BY <1>1, <1>2 DEF Kill, groupVars, TypeOK, GroupTypes
<1>4. BudgetTypes'
  BY <1>1, <1>2, ScenarioType DEF Kill, TypeOK, BudgetTypes
<1>5. ConsumerTypes'
  <2>1. /\ cpc' = [cpc EXCEPT ![p] = "down"] /\ cur' = [cur EXCEPT ![p] = 0]
        /\ made' = [made EXCEPT ![p] = 0] /\ phase' = [phase EXCEPT ![p] = "history"]
        /\ batch' = [batch EXCEPT ![p] = {}]
    BY DEF Kill, Done, ConGoto, NoTenant
  <2>2. 0 \in 0..Len(stream) /\ 0 \in Nat /\ "down" \notin Handling
    BY <1>2 DEF Handling
  <2>3. ASSUME NEW x \in Procs, cpc'[x] \in Handling PROVE cur'[x] # 0
    BY <2>1, <2>2, <2>3 DEF TypeOK
  <2>4. cpc' \in [Procs -> {"down", "run"} \cup Handling]
    BY <2>1 DEF TypeOK
  <2> QED
    BY <1>2, <2>1, <2>2, <2>3, <2>4 DEF TypeOK, ConsumerTypes
<1>6. UserTypes'
  <2>1. rpc' = [r \in Reqs |-> IF r \in Lost(p) THEN "lost" ELSE rpc[r]]
    BY DEF Kill
  <2>2. rpc' \in [Reqs -> Places]
    BY <2>1 DEF TypeOK, Places
  <2> QED
    BY <1>1, <2>2 DEF dbVars, TypeOK, UserTypes
<1>7. Registry!TypeOK'
  BY DEF Kill, Registry!Restart, Registry!TypeOK, TypeOK
<1> QED
  BY <1>2, <1>3, <1>4, <1>5, <1>6, <1>7, TypeParts

LEMMA InitType ==
    ASSUME Init PROVE TypeOK
<1>1. stream \in Seq(Events) /\ tenants \in Seq(Reqs) /\ Len(stream) = 0
  BY EmptySeq DEF Init
<1>2. scenario.faults \in Nat /\ scenario.crashes \in Nat /\ scenario \in Scenarios
  BY OnboardingAssumption DEF Init
<1>3. Registry!TypeOK
  BY DEF Init, Registry!Init, Registry!TypeOK, NoTenant
<1>4. rpc \in [Reqs -> Places]
  BY DEF Init, Places
<1>5. \A p \in Procs : cpc[p] \notin Handling
  BY DEF Init, Handling
<1> QED
  BY <1>1, <1>2, <1>3, <1>4, <1>5 DEF Init, TypeOK, Ids, NoTenant

LEMMA StutterType ==
    ASSUME TypeOK, UNCHANGED vars PROVE TypeOK'
BY DEF TypeOK, Registry!TypeOK, Ids, vars, dbVars, groupVars, reqVars, consumerVars,
       regVars, budget

\* Every variable keeps its type; what the two groups and their consumers hold
\* are messages of the stream.
THEOREM TypeCorrect == Spec => []TypeOK
<1>1. Init => TypeOK
  BY InitType
<1>2. TypeOK /\ [Next]_vars => TypeOK'
  BY RequestType, HandlerType, ConsumerType, KillType, StutterType DEF Next, Consume
<1> QED
  BY <1>1, <1>2, PTL DEF Spec

-----------------------------------------------------------------------------
\* A request that has its row is a user, one that is not served yet is not.
Registered ==
    \A r \in Reqs : /\ rpc[r] \in {"inserted", "published"} => status[r] # "none"
                    /\ rpc[r] = "start" => status[r] = "none"

\* A user's tenant was created for it.
Owned == \A r \in Reqs : status[r] = "active" => OwnTenant(r, tenantOf[r])

\* A tenant t that r is said to have.
Told(r, t) ==
    /\ status[r] = "active" /\ OwnTenant(r, t)
    /\ r \notin contended => t = tenantOf[r]

\* What an event says was committed before it was published.
Committed(m) ==
    LET e == stream[m] IN
    /\ e.type = Pending => status[e.user] # "none"
    /\ e.type = Created => OwnTenant(e.user, e.tenant)
    /\ e.type = Completed => Told(e.user, e.tenant)

\* The process p works on a message about r; one of auth-service has found it
\* pending.
Busy == {"handle", "assign", "publish", "complete"}
For(p, r) == cpc[p] \in Busy /\ UserOf(p) = r
Activating(p, r) ==
    ServiceOf[p] = Auth /\ cpc[p] \in Busy \ {"handle"} /\ UserOf(p) = r

\* What p has read or committed of r; unless another replica is at it too, nothing
\* of it is stale.
Held(p, r) ==
    /\ ServiceOf[p] = Tenant /\ cpc[p] = "publish" => OwnTenant(r, made[p])
    /\ cpc[p] = "assign" => /\ status[r] # "none"
                            /\ r \notin contended => status[r] = "pending"
    /\ ServiceOf[p] = Auth /\ cpc[p] = "publish" =>
         /\ status[r] = "active"
         /\ r \notin contended => Announced(r) = {}
    /\ cpc[p] = "complete" => Told(r, made[p])
    /\ Activating(p, r) /\ host[r] = p => when[r] = "never"

Working ==
    \A p \in Procs :
        /\ cpc[p] \in Busy => stream[cur[p]].type = HandledBy(p)
        /\ cpc[p] \in {"assign", "complete"} => ServiceOf[p] = Auth
        /\ \A r \in Reqs : For(p, r) => Held(p, r)

\* Only for a contended user two replicas are at it, and only such a user is
\* announced twice.
Alone ==
    \A r \in Reqs : \A p, q \in Procs :
        Activating(p, r) /\ Activating(q, r) => p = q \/ r \in contended
OneAnnouncement ==
    \A r \in Reqs : \A m, n \in Announced(r) : m = n \/ r \in contended

\* The registry holds what the database holds.
Known(r) ==
    /\ results[r] # NoTenant => Told(r, results[r])
    /\ answer[r] # NoTenant => Told(r, answer[r])
    /\ when[r] # "never" => status[r] = "active"

\* Where a waiter is, and what it can still be told.
Waiting(r) ==
    /\ waiter[r] \in {"blocked", "woken"} => rpc[r] = "published"
    /\ waiter[r] = "idle" => events[r] = "absent" /\ when[r] # "blocked"
    /\ waiter[r] # "returned" => answer[r] = NoTenant
    /\ waiter[r] = "blocked" =>
         events[r] = IF when[r] = "blocked" THEN "set" ELSE "clear"
    /\ waiter[r] = "woken" => when[r] = "blocked"
    /\ waiter[r] \in {"blocked", "woken"} /\ when[r] = "blocked"
         => results[r] = completed[r]

SagaInv ==
    /\ TypeOK /\ Registered /\ Owned /\ Working /\ Alone /\ OneAnnouncement
    /\ \A m \in Ids : Committed(m)
    /\ \A r \in Reqs : Known(r) /\ Waiting(r)
    /\ WaiterIsAnswered

LEMMA SequenceDomain ==
    ASSUME TypeOK
    PROVE  DOMAIN stream = Ids /\ DOMAIN tenants = 1..Len(tenants) /\ Len(tenants) \in Nat
BY LenProperties DEF TypeOK, Ids

\* Accounts only advance, contended users stay contended, and tenants are only
\* added.
Advances ==
    /\ contended \subseteq contended'
    /\ \A r \in Reqs : status[r] # "none" => status'[r] # "none"
    /\ \A r \in Reqs : status[r] = "active" =>
         /\ status'[r] = "active"
         /\ r \notin contended' => tenantOf'[r] = tenantOf[r]
    /\ \A t \in DOMAIN tenants : t \in DOMAIN tenants' /\ tenants'[t] = tenants[t]

LEMMA OwnKept ==
    ASSUME Advances, NEW r \in Reqs, NEW t, OwnTenant(r, t)
    PROVE  OwnTenant(r, t)'
BY DEF Advances, OwnTenant

LEMMA ToldKept ==
    ASSUME Advances, NEW r \in Reqs, NEW t, Told(r, t)
    PROVE  Told(r, t)'
BY OwnKept DEF Advances, Told

\* Pending users stay pending.
Patient == \A r \in Reqs : status[r] = "pending" => status'[r] = "pending"

LEMMA CommittedKept ==
    ASSUME SagaInv, TypeOK', Grows, Advances, \A m \in Ids' : m \in Ids \/ Committed(m)'
    PROVE  \A m \in Ids' : Committed(m)'
<1>1. ASSUME NEW m \in Ids PROVE Committed(m)'
  <2>1. stream'[m] = stream[m] /\ stream[m] \in Events /\ Committed(m)
    BY GrowsFacts DEF SagaInv, TypeOK
  <2>2. stream[m].user \in Reqs /\ stream[m].tenant \in Nat
    BY <2>1 DEF Events
  <2>3. stream[m].type = Created => OwnTenant(stream[m].user, stream[m].tenant)'
    <3>1. stream[m].type = Created => OwnTenant(stream[m].user, stream[m].tenant)
      BY <2>1 DEF Committed
    <3> QED
      BY <2>1, <2>2, <3>1 DEF OwnTenant, Advances
  <2>4. stream[m].type = Completed => Told(stream[m].user, stream[m].tenant)'
    <3>1. stream[m].type = Completed => Told(stream[m].user, stream[m].tenant)
      BY <2>1 DEF Committed
    <3> QED
      BY <2>1, <2>2, <3>1 DEF Told, OwnTenant, Advances
  <2>5. stream[m].type = Pending => status'[stream[m].user] # "none"
    BY <2>1, <2>2 DEF Committed, Advances
  <2> QED
    BY <2>1, <2>3, <2>4, <2>5 DEF Committed
<1> QED
  BY <1>1

LEMMA OwnedKept ==
    ASSUME SagaInv, Advances, \A r \in Reqs : status'[r] = "active" =>
               \/ status[r] = "active" /\ tenantOf'[r] = tenantOf[r]
               \/ OwnTenant(r, tenantOf[r])'
    PROVE  Owned'
<1>1. ASSUME NEW r \in Reqs, status[r] = "active", tenantOf'[r] = tenantOf[r]
      PROVE  OwnTenant(r, tenantOf[r])'
  BY <1>1 DEF SagaInv, Owned, OwnTenant, Advances
<1> QED
  BY <1>1 DEF Owned

\* What the handlers' steps have in common.
LEMMA HandlerFacts ==
    ASSUME SagaInv, NEW p \in Procs, cpc[p] \in Busy
    PROVE  /\ cur[p] \in Ids /\ stream[cur[p]] \in Events
           /\ UserOf(p) \in Reqs /\ stream[cur[p]].tenant \in Nat
           /\ made[p] \in Nat
           /\ stream[cur[p]].type = HandledBy(p) /\ Committed(cur[p])
           /\ For(p, UserOf(p)) /\ Held(p, UserOf(p))
<1>1. cpc[p] \in Handling
  BY DEF Busy, Handling
<1> QED
  BY <1>1, MessageType DEF SagaInv, Working, For

\* A consumer that is left alone works on what it worked on.
LEMMA SameMessage ==
    ASSUME SagaInv, TypeOK', Grows, NEW p \in Procs, cpc[p] \in Busy,
           cur'[p] = cur[p]
    PROVE  stream'[cur'[p]] = stream[cur[p]] /\ UserOf(p)' = UserOf(p)
BY HandlerFacts, GrowsFacts DEF SagaInv, TypeOK, UserOf

Stays(p) == cpc'[p] = cpc[p] /\ cur'[p] = cur[p] /\ made'[p] = made[p]

\* The user r of a consumer that is left alone is contended, or not disturbed.
Undisturbed(r) ==
    r \in contended' \/ /\ status[r] = "pending" => status'[r] = "pending"
                        /\ Announced(r)' \subseteq Announced(r)

LEMMA HeldKept ==
    ASSUME SagaInv, TypeOK', Grows, Advances, NEW p \in Procs, Stays(p), cpc[p] \in Busy,
           NEW r \in Reqs, UserOf(p) = r, Activating(p, r) => Undisturbed(r),
           host'[r] = p => when'[r] = when[r] /\ (host[r] = p \/ when[r] = "never")
    PROVE  Held(p, r)'
<1>1. For(p, r) /\ Held(p, r)
  BY DEF SagaInv, Working, For
<1>2. UserOf(p)' = UserOf(p) /\ cpc'[p] = cpc[p] /\ made'[p] = made[p]
  BY SameMessage DEF Stays
<1>3. ServiceOf[p] = Tenant /\ cpc[p] = "publish" => OwnTenant(r, made[p])'
  BY <1>1, <1>2 DEF Held, OwnTenant, Advances
<1>4. cpc[p] = "assign" => /\ status'[r] # "none"
                           /\ r \notin contended' => status'[r] = "pending"
  BY <1>1 DEF SagaInv, Working, Held, Advances, Undisturbed, Activating, Busy
<1>5. ServiceOf[p] = Auth /\ cpc[p] = "publish" =>
         /\ status'[r] = "active"
         /\ r \notin contended' => Announced(r)' = {}
  BY <1>1 DEF Held, Advances, Undisturbed, Activating, Busy
<1>6. cpc[p] = "complete" => Told(r, made[p])'
  BY <1>1, <1>2 DEF Held, Told, OwnTenant, Advances
<1>7. Activating(p, r)' /\ host'[r] = p => when'[r] = "never"
  BY <1>1, <1>2 DEF Held, Activating
<1> QED
  BY <1>2, <1>3, <1>4, <1>5, <1>6, <1>7 DEF Held

\* The steps in which every consumer stays where it is, leaves its handler, or
\* enters it.
LEMMA WorkingKept ==
    ASSUME SagaInv, TypeOK', Grows, Advances,
           NEW S \in SUBSET Procs,
           \A p \in Procs \ S : \/ Stays(p)
                                \/ cpc'[p] \notin Busy
                                \/ cpc'[p] = "handle" /\ stream'[cur'[p]].type = HandledBy(p),
           \A p \in Procs \ S : \A r \in Reqs : For(p, r) =>
               /\ Activating(p, r) => Undisturbed(r)
               /\ host'[r] = p => when'[r] = when[r] /\ (host[r] = p \/ when[r] = "never"),
           \A p \in S :
               /\ cpc'[p] \in Busy => stream'[cur'[p]].type = HandledBy(p)
               /\ cpc'[p] \in {"assign", "complete"} => ServiceOf[p] = Auth
               /\ \A r \in Reqs : For(p, r)' => Held(p, r)'
    PROVE  Working'
<1> SUFFICES ASSUME NEW p \in Procs \ S
             PROVE  /\ cpc'[p] \in Busy => stream'[cur'[p]].type = HandledBy(p)
                    /\ cpc'[p] \in {"assign", "complete"} => ServiceOf[p] = Auth
                    /\ \A r \in Reqs : For(p, r)' => Held(p, r)'
  BY DEF Working, HandledBy
<1>1. CASE cpc'[p] \notin Busy
  BY <1>1 DEF For, Busy
<1>2. CASE Stays(p) /\ cpc[p] \in Busy
  <2>1. stream'[cur'[p]] = stream[cur[p]] /\ UserOf(p)' = UserOf(p)
    BY <1>2, SameMessage DEF Stays
  <2>2. ASSUME NEW r \in Reqs, For(p, r)' PROVE Held(p, r)'
    <3>1. UserOf(p) = r /\ For(p, r)
      BY <1>2, <2>1, <2>2 DEF For
    <3> QED
      BY <1>2, <3>1, HeldKept
  <2> QED
    BY <1>2, <2>1, <2>2 DEF Stays, SagaInv, Working
<1>3. CASE cpc'[p] = "handle" /\ stream'[cur'[p]].type = HandledBy(p)
  BY <1>3 DEF Held, Activating, Busy
<1> QED
  BY <1>1, <1>2, <1>3 DEF Stays

LEMMA AloneKept ==
    ASSUME SagaInv, TypeOK', Grows, contended \subseteq contended',
           \A p \in Procs : Stays(p) \/ cpc'[p] \notin Busy \ {"handle"}
    PROVE  Alone'
<1>1. ASSUME NEW p \in Procs, NEW r \in Reqs, Activating(p, r)'
      PROVE  Activating(p, r)
  <2>1. Stays(p) /\ cpc[p] \in Busy
    BY <1>1 DEF Activating, Stays
  <2>2. UserOf(p)' = UserOf(p)
    BY <2>1, SameMessage DEF Stays
  <2> QED
    BY <1>1, <2>1, <2>2 DEF Activating, Stays
<1> QED
  BY <1>1 DEF SagaInv, Alone

LEMMA AnnouncedKept ==
    ASSUME SagaInv, TypeOK', Grows, \A m \in Ids' : m \in Ids \/ stream'[m].type # Completed
    PROVE  \A r \in Reqs : Announced(r)' \subseteq Announced(r)
<1>1. \A m \in Ids : stream'[m] = stream[m]
  BY GrowsFacts DEF SagaInv, TypeOK
<1>2. DOMAIN stream = Ids /\ DOMAIN stream' = Ids'
  BY SequenceDomain DEF SagaInv, TypeOK, Ids
<1> QED
  BY <1>1, <1>2 DEF Announced

LEMMA OneKept ==
    ASSUME SagaInv, contended \subseteq contended',
           \A r \in Reqs : Announced(r)' \subseteq Announced(r)
    PROVE  OneAnnouncement'
BY DEF SagaInv, OneAnnouncement

LEMMA RegistryKept ==
    ASSUME SagaInv, Advances, UNCHANGED regVars,
           \A r \in Reqs : waiter[r] \in {"blocked", "woken"} => rpc'[r] = "published"
    PROVE  (\A r \in Reqs : Known(r)' /\ Waiting(r)') /\ WaiterIsAnswered'
<1>1. \A r \in Reqs : Known(r)'
  BY DEF SagaInv, Advances, regVars, Known, Told, OwnTenant
<1>2. \A r \in Reqs : Waiting(r)'
  BY DEF SagaInv, regVars, Waiting
<1>3. WaiterIsAnswered'
  BY DEF SagaInv, regVars, WaiterIsAnswered, Registry!AnswerIsCompletion
<1> QED
  BY <1>1, <1>2, <1>3

LEMMA RegisteredKept ==
    ASSUME SagaInv, Advances,
           \A r \in Reqs : rpc'[r] \in {"inserted", "published"} =>
               rpc[r] \in {"inserted", "published"} \/ status'[r] # "none",
           \A r \in Reqs : rpc'[r] = "start" => rpc[r] = "start",
           \A r \in Reqs : status[r] = "none" /\ status'[r] # "none" => rpc'[r] # "start"
    PROVE  Registered'
BY DEF SagaInv, Registered, Advances

LEMMA NoNewEvent ==
    ASSUME stream' = stream
    PROVE  Grows /\ Ids' = Ids
BY DEF Grows, Ids

\* An event added to the stream is its last message.
LEMMA NewEvent ==
    ASSUME stream \in Seq(Events), NEW e \in Events, stream' = Append(stream, e)
    PROVE  /\ Grows /\ Len(stream) \in Nat /\ Len(stream') = Len(stream) + 1
           /\ \A m \in Ids' : m \in Ids \/ (stream'[m] = e /\ m = Len(stream'))
<1>1. Grows
  BY DEF Grows
<1>2. Len(stream) \in Nat /\ Len(stream') = Len(stream) + 1 /\ stream'[Len(stream) + 1] = e
  BY AppendFacts
<1> QED
  BY <1>1, <1>2 DEF Ids

-----------------------------------------------------------------------------
\* The steps of a request outside the registry.
Thread(r) ==
    \/ LookUpEmail(r) \/ InsertUser(r) \/ PublishPending(r) \/ Accepted(r)
    \/ OpenSession(r) \/ RequestRaises(r)

LEMMA OverwriteNothing ==
    ASSUME SagaInv, NEW r \in Reqs, answer[r] # NoTenant, Overwrite(r)
    PROVE  /\ status' = status /\ status[r] = "active" /\ OwnTenant(r, answer[r])
           /\ \A q \in Reqs : tenantOf'[q] = IF q = r THEN answer[r] ELSE tenantOf[q]
           /\ r \notin contended => tenantOf' = tenantOf
BY DEF SagaInv, Known, Told, Overwrite, TypeOK

LEMMA ThreadAdvances ==
    ASSUME SagaInv, NEW r \in Reqs, Thread(r)
    PROVE  /\ Advances /\ Patient /\ Owned'
           /\ \A q \in Reqs : status[q] = "none" /\ status'[q] # "none" => q = r
<1>1. UNCHANGED <<scenario, tenants, contended>>
  BY DEF Thread, LookUpEmail, InsertUser, PublishPending, Accepted, OpenSession,
     RequestRaises, PublishPendingRaises, ConnectionTimesOut, OpenSessionRaises, dbVars
<1>2. CASE UNCHANGED <<status, tenantOf>>
  <2>1. Advances /\ Patient
    BY <1>1, <1>2 DEF Advances, Patient
  <2> QED
    BY <1>2, <2>1, OwnedKept
<1>3. CASE status[r] = "none" /\ status' = [status EXCEPT ![r] = "pending"]
           /\ tenantOf' = tenantOf
  <2>1. \A q \in Reqs : \/ status'[q] = status[q]
                        \/ q = r /\ status[q] = "none" /\ status'[q] = "pending"
    BY <1>3 DEF SagaInv, TypeOK
  <2>2. Advances /\ Patient
    BY <1>1, <1>3, <2>1 DEF Advances, Patient
  <2> QED
    BY <1>3, <2>1, <2>2, OwnedKept
<1>4. CASE answer[r] # NoTenant /\ Overwrite(r)
  <2>1. /\ status' = status /\ status[r] = "active" /\ OwnTenant(r, answer[r])
        /\ \A q \in Reqs : tenantOf'[q] = IF q = r THEN answer[r] ELSE tenantOf[q]
        /\ r \notin contended => tenantOf' = tenantOf
    BY <1>4, OverwriteNothing
  <2>2. Advances /\ Patient
    BY <1>1, <2>1 DEF Advances, Patient
  <2>3. OwnTenant(r, tenantOf[r])'
    BY <1>1, <2>1 DEF OwnTenant
  <2> QED
    BY <2>1, <2>2, <2>3, OwnedKept
<1>5. InsertUser(r) => \/ UNCHANGED <<status, tenantOf>>
                       \/ /\ status[r] = "none" /\ tenantOf' = tenantOf
                          /\ status' = [status EXCEPT ![r] = "pending"]
  BY DEF InsertUser, Taken
<1>6. OpenSession(r) \/ OpenSessionRaises(r) =>
        UNCHANGED <<status, tenantOf>> \/ (answer[r] # NoTenant /\ Overwrite(r))
  BY DEF OpenSession, OpenSessionRaises
<1>7. ~InsertUser(r) /\ ~OpenSession(r) /\ ~OpenSessionRaises(r) =>
        UNCHANGED <<status, tenantOf>>
  BY DEF Thread, LookUpEmail, PublishPending, Accepted, RequestRaises,
     PublishPendingRaises, ConnectionTimesOut, dbVars
<1> QED
  BY <1>2, <1>3, <1>4, <1>5, <1>6, <1>7

LEMMA ThreadSaga ==
    ASSUME SagaInv, TypeOK', NEW r \in Reqs, Thread(r)
    PROVE  SagaInv'
<1>1. UNCHANGED <<scenario, tenants, contended, consumerVars, regVars>>
  BY DEF Thread, LookUpEmail, InsertUser, PublishPending, Accepted, OpenSession,
     RequestRaises, PublishPendingRaises, ConnectionTimesOut, OpenSessionRaises, dbVars
<1>2. /\ Advances /\ Patient /\ Owned'
      /\ \A q \in Reqs : status[q] = "none" /\ status'[q] # "none" => q = r
  BY ThreadAdvances
<1>3. /\ rpc[r] # "published" \/ waiter[r] = "returned"
      /\ \E p \in Places \ {"start"} : rpc' = [rpc EXCEPT ![r] = p]
      /\ rpc[r] = "start" \/ host' = host
      /\ rpc'[r] \in {"inserted", "published"} =>
           rpc[r] \in {"inserted", "published"} \/ status'[r] # "none"
  BY DEF Thread, LookUpEmail, InsertUser, PublishPending, Accepted, OpenSession,
     RequestRaises, PublishPendingRaises, ConnectionTimesOut, OpenSessionRaises, ReqGoto,
     Places, SagaInv, TypeOK
<1>4. \A q \in Reqs : waiter[q] \in {"blocked", "woken"} => rpc'[q] = "published"
  BY <1>3 DEF SagaInv, Waiting, TypeOK
<1>5. (\A q \in Reqs : Known(q)' /\ Waiting(q)') /\ WaiterIsAnswered'
  BY <1>1, <1>2, <1>4, RegistryKept
<1>6. Registered'
  <2>1. \A q \in Reqs : q # r => rpc'[q] = rpc[q]
    BY <1>3 DEF SagaInv, TypeOK
  <2>2. rpc'[r] # "start"
    BY <1>3 DEF SagaInv, TypeOK
  <2> QED
    BY <1>2, <1>3, <2>1, <2>2, RegisteredKept
<1>7. /\ Grows
      /\ \A m \in Ids' : m \in Ids \/ (stream'[m].type # Completed /\ Committed(m)')
  <2>1. CASE stream' = stream
    <3>1. Grows /\ Ids' = Ids
      BY <2>1, NoNewEvent
    <3> QED
      BY <3>1
  <2>2. CASE rpc[r] = "inserted" /\ Publish(Event(Pending, r, NoTenant))
    <3>1. Event(Pending, r, NoTenant) \in Events
      BY EventType DEF NoTenant
    <3>2. Grows /\ \A m \in Ids' : m \in Ids \/ stream'[m] = Event(Pending, r, NoTenant)
      BY <2>2, <3>1, NewEvent DEF Publish, SagaInv, TypeOK
    <3>3. status'[r] # "none"
      BY <1>2, <2>2 DEF SagaInv, Registered, Advances
    <3> QED
      BY <3>2, <3>3 DEF Event, Committed, Pending, Created, Completed
  <2>3. stream' = stream \/ (rpc[r] = "inserted" /\ Publish(Event(Pending, r, NoTenant)))
    BY DEF Thread, LookUpEmail, InsertUser, PublishPending, Accepted, OpenSession,
       RequestRaises, PublishPendingRaises, ConnectionTimesOut, OpenSessionRaises
  <2> QED
    BY <2>1, <2>2, <2>3
<1>8. \A m \in Ids' : Committed(m)'
  BY <1>2, <1>7, CommittedKept
<1>9. \A q \in Reqs : Announced(q)' \subseteq Announced(q)
  BY <1>7, AnnouncedKept
<1>10. OneAnnouncement'
  BY <1>2, <1>9, OneKept DEF Advances
<1>11. \A p \in Procs : Stays(p)
  BY <1>1 DEF consumerVars, Stays
<1>12. Alone'
  BY <1>1, <1>7, <1>11, AloneKept
<1>13. Working'
  <2>1. \A q \in Reqs : Undisturbed(q)
    BY <1>2, <1>9 DEF Undisturbed, Patient
  <2>2. when' = when
    BY <1>1 DEF regVars
  <2>3. rpc[r] = "start" => when[r] = "never"
    BY DEF SagaInv, Registered, Known
  <2>4. \A q \in Reqs : host'[q] = host[q] \/ when[q] = "never"
    BY <1>3, <2>3 DEF Thread, LookUpEmail, InsertUser, PublishPending, Accepted,
       OpenSession, RequestRaises, PublishPendingRaises, ConnectionTimesOut,
       OpenSessionRaises, SagaInv, TypeOK
  <2>5. {} \in SUBSET Procs /\ \A p \in {} : FALSE
    OBVIOUS
  <2> QED
    BY <1>2, <1>7, <1>11, <2>1, <2>2, <2>4, <2>5, WorkingKept
<1> QED
  BY <1>2, <1>5, <1>6, <1>8, <1>10, <1>12, <1>13 DEF SagaInv

\* What leaves the databases, the stream and the requests' rows alone.
LEMMA StreamKept ==
    ASSUME SagaInv, TypeOK', UNCHANGED <<status, tenantOf, tenants, contended, stream>>
    PROVE  /\ Advances /\ Patient /\ Owned' /\ Grows /\ Ids' = Ids /\ OneAnnouncement'
           /\ \A m \in Ids' : Committed(m)'
           /\ \A r \in Reqs : Undisturbed(r)
<1>1. Advances /\ Patient /\ Grows /\ Ids' = Ids
  BY NoNewEvent DEF Advances, Patient
<1>2. \A r \in Reqs : Announced(r)' = Announced(r)
  BY DEF Announced
<1>3. OneAnnouncement' /\ \A r \in Reqs : Undisturbed(r)
  BY <1>1, <1>2, OneKept DEF Undisturbed
<1>4. Owned'
  BY <1>1, OwnedKept
<1> QED
  BY <1>1, <1>3, <1>4, CommittedKept

LEMMA WaitSaga ==
    ASSUME SagaInv, TypeOK', NEW r \in Reqs, WaitForCompletion(r)
    PROVE  SagaInv'
<1>1. /\ UNCHANGED <<status, tenantOf, tenants, contended, stream, rpc, host, cpc, cur, made,
                     completed, when>>
      /\ rpc[r] = "published"
  BY DEF WaitForCompletion, Registry!Register, Registry!Wait, Registry!Wake,
         Registry!Collect, Registry!TimeOut, dbVars, reqVars, consumerVars
<1>2. /\ Advances /\ Patient /\ Owned' /\ Grows /\ Ids' = Ids /\ OneAnnouncement'
      /\ \A m \in Ids' : Committed(m)'
      /\ \A q \in Reqs : Undisturbed(q)
  BY <1>1, StreamKept
<1>3. Registered'
  BY <1>1 DEF SagaInv, Registered
<1>4. \A p \in Procs : Stays(p)
  BY <1>1 DEF Stays
<1>5. Alone'
  BY <1>1, <1>2, <1>4, AloneKept
<1>6. Working'
  <2>1. {} \in SUBSET Procs /\ \A p \in {} : FALSE
    OBVIOUS
  <2> QED
    BY <1>1, <1>2, <1>4, <2>1, WorkingKept
<1>7. \A q \in Reqs \ {r} : UNCHANGED <<events[q], results[q], waiter[q], answer[q]>>
  BY DEF WaitForCompletion, Registry!Register, Registry!Wait, Registry!Wake,
         Registry!Collect, Registry!TimeOut, SagaInv, TypeOK, Registry!TypeOK
<1>8. \A q \in Reqs, t \in Nat : Told(q, t)' <=> Told(q, t)
  BY <1>1 DEF Told, OwnTenant
<1>9. \A q \in Reqs : results[q] \in Nat /\ answer[q] \in Nat
  BY DEF SagaInv, TypeOK, Registry!TypeOK, NoTenant
<1>10. /\ \A q \in Reqs \ {r} : Known(q)' /\ Waiting(q)'
       /\ \A q \in Reqs \ {r} : waiter'[q] = "returned" =>
            \/ answer'[q] = NoTenant /\ when'[q] # "blocked"
            \/ answer'[q] = completed'[q] /\ when'[q] = "blocked"
  BY <1>1, <1>7, <1>8, <1>9 DEF SagaInv, Known, Waiting, WaiterIsAnswered,
                    Registry!AnswerIsCompletion
<1>11. /\ Known(r)' /\ Waiting(r)'
       /\ waiter'[r] = "returned" =>
            \/ answer'[r] = NoTenant /\ when'[r] # "blocked"
            \/ answer'[r] = completed'[r] /\ when'[r] = "blocked"
  <2> USE <1>1, <1>8, <1>9 DEF SagaInv, TypeOK, Registry!TypeOK, Known, Waiting, NoTenant
  <2>1. CASE Registry!Register(r)
    BY <2>1 DEF Registry!Register
  <2>2. CASE Registry!Wake(r)
    BY <2>2 DEF Registry!Wake
  <2>3. CASE Registry!Collect(r)
    BY <2>3 DEF Registry!Collect
  <2>4. CASE Registry!TimeOut(r)
    BY <2>4 DEF Registry!TimeOut
  <2> QED
    BY <2>1, <2>2, <2>3, <2>4 DEF WaitForCompletion, Registry!Wait
<1>12. \A q \in Reqs : Known(q)' /\ Waiting(q)'
  BY <1>10, <1>11
<1>13. WaiterIsAnswered'
  BY <1>10, <1>11 DEF WaiterIsAnswered, Registry!AnswerIsCompletion
<1> QED
  BY <1>2, <1>3, <1>5, <1>6, <1>12, <1>13 DEF SagaInv

LEMMA LoopSaga ==
    ASSUME SagaInv, TypeOK', UNCHANGED <<dbVars, stream, reqVars, regVars>>,
           UNCHANGED consumerVars \/ \E p \in Procs :
               \/ ReadHistory(p) \/ ReadNew(p) \/ Take(p) \/ Ack(p)
               \/ Raise(p) \/ Start(p)
    PROVE  SagaInv'
<1>1. /\ Advances /\ Patient /\ Owned' /\ Grows /\ Ids' = Ids /\ OneAnnouncement'
      /\ \A m \in Ids' : Committed(m)'
      /\ \A q \in Reqs : Undisturbed(q)
  BY StreamKept DEF dbVars
<1>2. Registered'
  BY DEF dbVars, reqVars, SagaInv, Registered
<1>3. \A r \in Reqs : waiter[r] \in {"blocked", "woken"} => rpc'[r] = "published"
  BY DEF SagaInv, Waiting, reqVars
<1>4. (\A r \in Reqs : Known(r)' /\ Waiting(r)') /\ WaiterIsAnswered'
  BY <1>1, <1>3, RegistryKept
<1>5. ASSUME NEW x \in Procs
      PROVE  \/ Stays(x) \/ cpc'[x] \notin Busy
             \/ cpc'[x] = "handle" /\ stream'[cur'[x]].type = HandledBy(x)
  <2>1. ASSUME NEW p \in Procs, Take(p)
        PROVE  \/ Stays(x) \/ cpc'[x] \notin Busy
               \/ cpc'[x] = "handle" /\ stream'[cur'[x]].type = HandledBy(x)
    BY <2>1 DEF Take, ConGoto, SagaInv, TypeOK, Busy, Stays
  <2>2. ASSUME NEW p \in Procs, Ack(p) \/ Raise(p) \/ Start(p)
        PROVE  Stays(x) \/ cpc'[x] \notin Busy
    <3>1. /\ cpc' = [cpc EXCEPT ![p] = "run"]
          /\ x # p => cur'[x] = cur[x] /\ made'[x] = made[x]
      BY <2>2 DEF Ack, Raise, Start, Done, ConGoto, SagaInv, TypeOK
    <3> QED
      BY <3>1 DEF SagaInv, TypeOK, Busy, Stays
  <2>3. ASSUME NEW p \in Procs, ReadHistory(p) \/ ReadNew(p)
        PROVE  Stays(x)
    BY <2>3 DEF ReadHistory, ReadNew, Stays
  <2>4. UNCHANGED consumerVars => Stays(x)
    BY DEF consumerVars, Stays
  <2> QED
    BY <2>1, <2>2, <2>3, <2>4
<1>6. Working'
  <2>1. {} \in SUBSET Procs /\ \A p \in {} : FALSE
    OBVIOUS
  <2> QED
    BY <1>1, <1>5, <2>1, WorkingKept DEF regVars, reqVars
<1>7. Alone'
  BY <1>1, <1>5, AloneKept DEF dbVars
<1> QED
  BY <1>1, <1>2, <1>4, <1>6, <1>7 DEF SagaInv

LEMMA KillSaga ==
    ASSUME SagaInv, TypeOK', NEW p \in Procs, Kill(p)
    PROVE  SagaInv'
<1>1. UNCHANGED <<status, tenantOf, tenants, contended, stream, host, answer, completed, when>>
  BY DEF Kill, Registry!Restart, dbVars
<1>2. /\ Advances /\ Patient /\ Owned' /\ Grows /\ Ids' = Ids /\ OneAnnouncement'
      /\ \A m \in Ids' : Committed(m)'
      /\ \A q \in Reqs : Undisturbed(q)
  BY <1>1, StreamKept
<1>3. \A r \in Reqs : rpc'[r] = IF r \in Lost(p) THEN "lost" ELSE rpc[r]
  BY DEF Kill
<1>4. Registered'
  BY <1>1, <1>3 DEF SagaInv, Registered
<1>5. \A x \in Procs : cpc'[x] \notin Busy \/ Stays(x)
  BY DEF Kill, Done, ConGoto, SagaInv, TypeOK, Stays, Busy
<1>6. Working'
  <2>1. {} \in SUBSET Procs /\ \A x \in {} : FALSE
    OBVIOUS
  <2> QED
    BY <1>1, <1>2, <1>5, <2>1, WorkingKept
<1>7. Alone'
  BY <1>1, <1>2, <1>5, AloneKept
<1>8. (\A r \in Reqs : Known(r)' /\ Waiting(r)') /\ WaiterIsAnswered'
  <2>1. \A r \in Reqs :
          IF r \in ServedBy(p)
          THEN /\ events'[r] = "absent" /\ results'[r] = NoTenant
               /\ waiter'[r] = IF r \in Lost(p) /\ waiter[r] # "returned" THEN "gone"
                               ELSE waiter[r]
          ELSE UNCHANGED <<events[r], results[r], waiter[r]>>
    BY DEF Kill, Registry!Restart, Lost
  <2>2. \A r \in ServedBy(p) : waiter'[r] \notin {"blocked", "woken"}
    BY <2>1 DEF SagaInv, Waiting, Open, Lost, ServedBy
  <2>3. \A r \in Reqs : waiter'[r] = waiter[r] \/ waiter'[r] = "gone"
    BY <2>1
  <2>4. \A r \in Reqs : r \notin ServedBy(p) => rpc'[r] = rpc[r]
    BY <1>3 DEF Lost
  <2>5. \A r \in Reqs : Waiting(r)'
    BY <1>1, <2>1, <2>2, <2>3, <2>4 DEF SagaInv, Waiting
  <2>6. \A r \in Reqs : Known(r)'
    BY <1>1, <2>1 DEF SagaInv, Known, Told, OwnTenant
  <2>7. WaiterIsAnswered'
    BY <1>1, <2>3 DEF SagaInv, WaiterIsAnswered, Registry!AnswerIsCompletion
  <2> QED
    BY <2>5, <2>6, <2>7
<1> QED
  BY <1>2, <1>4, <1>6, <1>7, <1>8 DEF SagaInv

-----------------------------------------------------------------------------
LEMMA RegistryStays ==
    ASSUME SagaInv, Advances, UNCHANGED <<reqVars, regVars>>,
           \A r \in Reqs : status[r] = "none" => status'[r] = "none"
    PROVE  /\ Registered' /\ WaiterIsAnswered'
           /\ \A r \in Reqs : Known(r)' /\ Waiting(r)'
<1>1. \A r \in Reqs : waiter[r] \in {"blocked", "woken"} => rpc'[r] = "published"
  BY DEF SagaInv, Waiting, reqVars
<1> QED
  BY <1>1, RegisteredKept, RegistryKept DEF reqVars

\* Who else there is when one consumer takes a step.
LEMMA OthersStay ==
    ASSUME SagaInv, NEW p \in Procs, NEW w, NEW t, ConGoto(p, w), cur' = cur,
           made' = made \/ made' = [made EXCEPT ![p] = t]
    PROVE  /\ \A q \in Procs \ {p} : Stays(q)
           /\ cpc'[p] = w /\ cur'[p] = cur[p]
           /\ made'[p] = made[p] \/ made'[p] = t
           /\ made' # made => made'[p] = t
BY DEF SagaInv, TypeOK, ConGoto, Stays

\* The part of Working that a step of p leaves to show.
LEMMA WorkingStep ==
    ASSUME SagaInv, TypeOK', Grows, Advances, NEW p \in Procs, cpc[p] \in Busy,
           cur'[p] = cur[p], \A q \in Procs \ {p} : Stays(q),
           host' = host, \A r \in Reqs : host[r] # p => when'[r] = when[r],
           \A q \in Procs \ {p} : \A r \in Reqs : Activating(q, r) => Undisturbed(r),
           cpc'[p] \in {"assign", "complete"} => ServiceOf[p] = Auth,
           cpc'[p] \in Busy => Held(p, UserOf(p))'
    PROVE  Working'
<1>1. stream'[cur'[p]] = stream[cur[p]] /\ stream[cur[p]].type = HandledBy(p)
  BY SameMessage, HandlerFacts
<1>2. \A r \in Reqs : For(p, r)' => Held(p, r)'
  <2>1. ASSUME NEW r \in Reqs, For(p, r)' PROVE Held(p, r)'
    <3>1. cpc'[p] \in Busy /\ UserOf(p)' = r
      BY <2>1 DEF For
    <3> QED
      BY <3>1 DEF Held, Activating
  <2> QED
    BY <2>1
<1>3. {p} \in SUBSET Procs
  OBVIOUS
<1> QED
  BY <1>1, <1>2, <1>3, WorkingKept

LEMMA CreateTenantSaga ==
    ASSUME SagaInv, TypeOK', NEW p \in Procs, CreateTenant(p)
    PROVE  SagaInv'
<1> DEFINE u == UserOf(p)
<1>1. /\ UNCHANGED <<status, tenantOf, contended, stream, reqVars, cur, regVars>>
      /\ cpc[p] = "handle" /\ ServiceOf[p] = Tenant /\ ConGoto(p, "publish")
      /\ made' = [made EXCEPT ![p] = Len(tenants) + 1]
      /\ tenants' = Append(tenants, u)
  BY DEF CreateTenant
<1>2. cpc[p] \in Busy /\ u \in Reqs
  BY <1>1, HandlerFacts DEF Busy
<1>3. /\ DOMAIN tenants = 1..Len(tenants) /\ DOMAIN tenants' = 1..(Len(tenants) + 1)
      /\ Len(tenants) \in Nat /\ tenants'[Len(tenants) + 1] = u
      /\ \A t \in 1..Len(tenants) : tenants'[t] = tenants[t]
  BY <1>1, <1>2, AppendProperties DEF SagaInv, TypeOK
<1>4. Advances /\ Patient
  BY <1>1, <1>3 DEF Advances, Patient
<1>5. Grows /\ Ids' = Ids
  BY <1>1, NoNewEvent
<1>6. Owned' /\ \A m \in Ids' : Committed(m)'
  BY <1>1, <1>4, <1>5, OwnedKept, CommittedKept
<1>7. \A r \in Reqs : Undisturbed(r) /\ Announced(r)' \subseteq Announced(r)
  BY <1>1, <1>4 DEF Undisturbed, Patient, Announced
<1>8. OneAnnouncement'
  BY <1>1, <1>7, OneKept
<1>9. /\ \A q \in Procs \ {p} : Stays(q)
      /\ cpc'[p] = "publish" /\ cur'[p] = cur[p] /\ made'[p] = Len(tenants) + 1
  BY <1>1, OthersStay DEF SagaInv, TypeOK
<1>10. Held(p, u)'
  <2>1. UserOf(p)' = u
    BY <1>1 DEF UserOf
  <2>2. OwnTenant(u, made[p])'
    BY <1>3, <1>9, <2>1 DEF OwnTenant
  <2>3. ServiceOf[p] # Auth
    BY <1>1 DEF Auth, Tenant
  <2> QED
    BY <1>9, <2>1, <2>2, <2>3 DEF Held, Activating
<1>11. Working'
  BY <1>1, <1>2, <1>4, <1>5, <1>7, <1>9, <1>10, WorkingStep DEF reqVars, regVars
<1>12. Alone'
  <2>1. \A q \in Procs, r \in Reqs : Activating(q, r)' => Activating(q, r)
    BY <1>1, <1>9 DEF Activating, Stays, Auth, Tenant, UserOf
  <2> QED
    BY <1>1, <2>1 DEF SagaInv, Alone
<1> QED
  BY <1>1, <1>4, <1>6, <1>8, <1>11, <1>12, RegistryStays DEF SagaInv

LEMMA PublishCreatedSaga ==
    ASSUME SagaInv, TypeOK', NEW p \in Procs, PublishCreated(p)
    PROVE  SagaInv'
<1> DEFINE e == Event(Created, UserOf(p), made[p])
<1>1. /\ UNCHANGED <<dbVars, reqVars, cur, made, regVars>>
      /\ cpc[p] = "publish" /\ ServiceOf[p] = Tenant /\ ConGoto(p, "ack")
      /\ stream' = Append(stream, e)
  BY DEF PublishCreated, Publish
<1>2. cpc[p] \in Busy
  BY <1>1 DEF Busy
<1>3. e \in Events /\ OwnTenant(UserOf(p), made[p])
  BY <1>1, <1>2, HandlerFacts, EventType DEF Held
<1>4. Grows /\ \A m \in Ids' : m \in Ids \/ stream'[m] = e
  BY <1>1, <1>3, NewEvent DEF SagaInv, TypeOK
<1>5. Advances /\ Patient
  BY <1>1 DEF dbVars, Advances, Patient
<1>6. /\ e.type = Created /\ e.user = UserOf(p) /\ e.tenant = made[p]
      /\ Created # Completed /\ Created # Pending
  BY DEF Event, Created, Completed, Pending
<1>7. e.tenant \in DOMAIN tenants' /\ tenants'[e.tenant] = e.user
  BY <1>1, <1>3, <1>6 DEF OwnTenant, dbVars
<1>8. \A m \in Ids' : m \in Ids \/ (stream'[m].type # Completed /\ Committed(m)')
  <2>1. ASSUME NEW m \in Ids', stream'[m] = e
        PROVE  stream'[m].type # Completed /\ Committed(m)'
    BY <1>6, <1>7, <2>1 DEF Committed, OwnTenant
  <2> QED
    BY <1>4, <2>1
<1>9. Owned' /\ \A m \in Ids' : Committed(m)'
  BY <1>1, <1>4, <1>5, <1>8, OwnedKept, CommittedKept DEF dbVars
<1>10. \A r \in Reqs : Undisturbed(r) /\ Announced(r)' \subseteq Announced(r)
  BY <1>4, <1>5, <1>8, AnnouncedKept DEF Undisturbed, Patient
<1>11. OneAnnouncement'
  BY <1>5, <1>10, OneKept DEF Advances
<1>12. (\A q \in Procs \ {p} : Stays(q)) /\ cpc'[p] = "ack" /\ cur'[p] = cur[p]
  BY <1>1, OthersStay
<1>13. Working'
  BY <1>1, <1>2, <1>4, <1>5, <1>10, <1>12, WorkingStep DEF reqVars, regVars, Busy
<1>14. Alone'
  BY <1>4, <1>5, <1>12, AloneKept DEF Advances, Busy
<1>15. \A r \in Reqs : status[r] = "none" => status'[r] = "none"
  BY <1>1 DEF dbVars
<1> QED
  BY <1>1, <1>5, <1>9, <1>11, <1>13, <1>14, <1>15, RegistryStays DEF SagaInv

\* Where another replica is with a user that is found pending.
LEMMA FoundPending ==
    ASSUME SagaInv, NEW q \in Procs, NEW r \in Reqs, status[r] = "pending", Activating(q, r)
    PROVE  cpc[q] = "assign"
<1>1. For(q, r) /\ Held(q, r)
  BY DEF Activating, For, Busy, SagaInv, Working
<1> QED
  BY <1>1 DEF Held, Activating, Busy, Told

LEMMA ReadUserSaga ==
    ASSUME SagaInv, TypeOK', NEW p \in Procs, ReadUser(p)
    PROVE  SagaInv'
<1> DEFINE u == UserOf(p)
<1>1. /\ UNCHANGED <<status, tenantOf, tenants, stream, reqVars, cur, made, regVars>>
      /\ cpc[p] = "handle" /\ ServiceOf[p] = Auth
      /\ \/ /\ status[u] = "pending" /\ ConGoto(p, "assign")
            /\ contended' = contended \cup {v \in {u} : Assigning(p, v)}
         \/ ConGoto(p, "ack") /\ contended' = contended
  BY DEF ReadUser
<1>2. cpc[p] \in Busy /\ u \in Reqs
  BY <1>1, HandlerFacts DEF Busy
<1>3. /\ contended \subseteq contended'
      /\ contended' \subseteq contended \cup {u}
  BY <1>1
<1>4. Advances /\ Patient
  BY <1>1, <1>3 DEF Advances, Patient
<1>5. Grows /\ Ids' = Ids
  BY <1>1, NoNewEvent
<1>6. Owned' /\ \A m \in Ids' : Committed(m)'
  BY <1>1, <1>4, <1>5, OwnedKept, CommittedKept
<1>7. \A r \in Reqs : Undisturbed(r) /\ Announced(r)' \subseteq Announced(r)
  BY <1>1, <1>4 DEF Undisturbed, Patient, Announced
<1>8. OneAnnouncement'
  BY <1>3, <1>7, OneKept
<1>9. \/ status[u] = "pending" /\ cpc'[p] = "assign"
      \/ cpc'[p] = "ack"
  BY <1>1 DEF ConGoto, SagaInv, TypeOK
<1>10. (\A q \in Procs \ {p} : Stays(q)) /\ cur'[p] = cur[p]
  BY <1>1 DEF ConGoto, SagaInv, TypeOK, Stays
<1>11. cpc'[p] \in Busy => Held(p, UserOf(p))'
  <2>1. ASSUME cpc'[p] \in Busy PROVE status[u] = "pending" /\ cpc'[p] = "assign"
    BY <1>9, <2>1 DEF Busy
  <2>2. UserOf(p)' = u
    BY <1>1 DEF UserOf
  <2>3. status[u] = "pending" => when[u] = "never"
    BY <1>2 DEF SagaInv, Known
  <2>4. Tenant # Auth
    BY DEF Tenant, Auth
  <2> QED
    BY <1>1, <2>1, <2>2, <2>3, <2>4 DEF Held, Activating, reqVars, regVars
<1>12. Working'
  BY <1>1, <1>2, <1>4, <1>5, <1>7, <1>10, <1>11, WorkingStep DEF reqVars, regVars
<1>13. Alone'
  <2>1. ASSUME NEW q \in Procs \ {p}, NEW r \in Reqs, Activating(q, r)'
        PROVE  Activating(q, r)
    BY <1>1, <1>10, <2>1 DEF Activating, Stays, UserOf
  <2>2. ASSUME NEW q \in Procs \ {p}, NEW r \in Reqs, Activating(q, r)', Activating(p, r)'
        PROVE  r \in contended'
    <3>1. r = u /\ cpc'[p] = "assign" /\ status[u] = "pending"
      BY <1>1, <1>9, <2>2 DEF Activating, UserOf, Busy
    <3>2. Activating(q, u) /\ cpc[q] = "assign"
      BY <1>2, <2>1, <2>2, <3>1, FoundPending
    <3>3. Assigning(p, u)
      BY <3>2 DEF Assigning, Activating
    <3>4. contended' = contended \cup {v \in {u} : Assigning(p, v)}
      BY <1>1, <3>1 DEF ConGoto, SagaInv, TypeOK
    <3> QED
      BY <3>1, <3>3, <3>4
  <2>3. ASSUME NEW q \in Procs \ {p}, NEW o \in Procs \ {p}, NEW r \in Reqs,
               Activating(q, r)', Activating(o, r)'
        PROVE  q = o \/ r \in contended'
    BY <1>3, <2>1, <2>3 DEF SagaInv, Alone
  <2> QED
    BY <2>2, <2>3 DEF Alone
<1> QED
  BY <1>1, <1>4, <1>6, <1>8, <1>12, <1>13, RegistryStays DEF SagaInv

LEMMA AssignTenantSaga ==
    ASSUME SagaInv, TypeOK', NEW p \in Procs, AssignTenant(p)
    PROVE  SagaInv' /\ (status[UserOf(p)] = "pending" \/ UserOf(p) \in contended)
<1> DEFINE u == UserOf(p)
           t == stream[cur[p]].tenant
<1>1. /\ UNCHANGED <<tenants, contended, stream, reqVars, cur, made, regVars>>
      /\ cpc[p] = "assign" /\ ConGoto(p, "publish")
      /\ status' = [status EXCEPT ![u] = "active"]
      /\ tenantOf' = [tenantOf EXCEPT ![u] = t]
  BY DEF AssignTenant
<1>2. /\ cpc[p] \in Busy /\ u \in Reqs /\ t \in Nat /\ ServiceOf[p] = Auth
      /\ For(p, u) /\ Held(p, u) /\ Committed(cur[p])
      /\ stream[cur[p]].type = HandledBy(p) /\ stream[cur[p]].user = u
  BY <1>1, HandlerFacts DEF Busy, SagaInv, Working, UserOf
<1>3. status[u] # "none" /\ (u \notin contended => status[u] = "pending")
  BY <1>1, <1>2 DEF Held
<1>4. OwnTenant(u, t) /\ t \in DOMAIN tenants' /\ tenants'[t] = u
  BY <1>1, <1>2 DEF Committed, HandledBy, OwnTenant
<1>5. /\ status'[u] = "active" /\ tenantOf'[u] = t
      /\ \A r \in Reqs \ {u} : status'[r] = status[r] /\ tenantOf'[r] = tenantOf[r]
  BY <1>1, <1>2 DEF SagaInv, TypeOK
<1>6. Advances
  <2>1. \A r \in Reqs : status[r] = "active" =>
           status'[r] = "active" /\ (r \notin contended' => tenantOf'[r] = tenantOf[r])
    BY <1>1, <1>3, <1>5
  <2> QED
    BY <1>1, <1>5, <2>1 DEF Advances
<1>7. Grows /\ Ids' = Ids
  BY <1>1, NoNewEvent
<1>8. Owned'
  <2>1. \A r \in Reqs : r = u => OwnTenant(r, tenantOf[r])'
    BY <1>4, <1>5 DEF OwnTenant
  <2> QED
    BY <1>5, <1>6, <2>1, OwnedKept
<1>9. \A m \in Ids' : Committed(m)'
  BY <1>6, <1>7, CommittedKept
<1>10. \A r \in Reqs : Announced(r)' = Announced(r)
  BY <1>1 DEF Announced
<1>11. OneAnnouncement'
  BY <1>1, <1>10, OneKept
<1>12. (\A q \in Procs \ {p} : Stays(q)) /\ cpc'[p] = "publish" /\ cur'[p] = cur[p]
  BY <1>1, OthersStay
<1>13. ASSUME NEW q \in Procs \ {p}, NEW r \in Reqs, Activating(q, r)
      PROVE  Undisturbed(r)
  <2>1. CASE r # u
    BY <1>5, <1>10, <2>1 DEF Undisturbed
  <2>2. CASE r = u /\ u \in contended
    BY <1>1, <2>2 DEF Undisturbed
  <2>3. CASE r = u /\ u \notin contended
    <3>1. Activating(p, u) /\ ~Activating(q, u)
      BY <1>1, <1>2, <2>3 DEF Activating, Busy, SagaInv, Alone
    <3> QED
      BY <1>13, <2>3, <3>1
  <2> QED
    BY <2>1, <2>2, <2>3
<1>14. Held(p, UserOf(p))'
  <2>1. UserOf(p)' = u
    BY <1>1 DEF UserOf
  <2>2. u \notin contended => Announced(u) = {}
    <3>1. u \notin contended => status[u] = "pending"
      BY <1>3
    <3> QED
      BY <1>2, <3>1, SequenceDomain DEF SagaInv, Announced, Committed, Told
  <2>3. host[u] = p => when[u] = "never"
    BY <1>1, <1>2 DEF Held, Activating, Busy
  <2>4. Auth # Tenant
    BY DEF Auth, Tenant
  <2> QED
    BY <1>1, <1>2, <1>5, <1>10, <1>12, <2>1, <2>2, <2>3, <2>4
       DEF Held, Activating, reqVars, regVars
<1>15. Working'
  BY <1>1, <1>2, <1>6, <1>7, <1>12, <1>13, <1>14, WorkingStep DEF reqVars, regVars
<1>16. Alone'
  <2>1. ASSUME NEW q \in Procs, NEW r \in Reqs, Activating(q, r)'
        PROVE  Activating(q, r)
    BY <1>1, <1>2, <1>12, <2>1 DEF Activating, Stays, UserOf, Busy
  <2> QED
    BY <1>1, <2>1 DEF SagaInv, Alone
<1>17. \A r \in Reqs : status[r] = "none" => status'[r] = "none"
  BY <1>3, <1>5
<1> QED
  BY <1>1, <1>3, <1>6, <1>8, <1>9, <1>11, <1>15, <1>16, <1>17, RegistryStays DEF SagaInv

LEMMA PublishCompletedSaga ==
    ASSUME SagaInv, TypeOK', NEW p \in Procs, PublishCompleted(p)
    PROVE  SagaInv'
<1> DEFINE u == UserOf(p)
           t == tenantOf[u]
           e == Event(Completed, u, t)
<1>1. /\ UNCHANGED <<dbVars, reqVars, cur, regVars>>
      /\ cpc[p] = "publish" /\ ServiceOf[p] = Auth /\ ConGoto(p, "complete")
      /\ made' = [made EXCEPT ![p] = t]
      /\ stream' = Append(stream, e)
  BY DEF PublishCompleted, Publish
<1>2. cpc[p] \in Busy /\ u \in Reqs /\ Held(p, u)
  BY <1>1, HandlerFacts DEF Busy
<1>3. t \in Nat /\ e \in Events
  BY <1>2, EventType DEF SagaInv, TypeOK
<1>4. /\ Grows /\ Len(stream) \in Nat /\ Len(stream') = Len(stream) + 1
      /\ \A m \in Ids' : m \in Ids \/ (stream'[m] = e /\ m = Len(stream'))
  BY <1>1, <1>3, NewEvent DEF SagaInv, TypeOK
<1>5. Advances /\ Patient
  BY <1>1 DEF dbVars, Advances, Patient
<1>6. status[u] = "active" /\ (u \notin contended => Announced(u) = {}) /\ Told(u, t)
  BY <1>1, <1>2 DEF Held, Told, SagaInv, Owned
<1>7. /\ e.type = Completed /\ e.user = u /\ e.tenant = t
      /\ Created # Completed /\ Completed # Pending
  BY DEF Event, Created, Completed, Pending
<1>8. Owned' /\ \A m \in Ids' : Committed(m)'
  <2>1. ASSUME NEW m \in Ids', stream'[m] = e PROVE Committed(m)'
    <3>1. Told(u, t) /\ UNCHANGED <<status, tenantOf, tenants, contended>>
      BY <1>1, <1>6 DEF dbVars
    <3> QED
      BY <1>7, <2>1, <3>1 DEF Committed, Told, OwnTenant
  <2> QED
    BY <1>1, <1>4, <1>5, <2>1, OwnedKept, CommittedKept DEF dbVars
<1>9. \A r \in Reqs :
          /\ Announced(r)' \subseteq Announced(r) \cup {Len(stream')}
          /\ r # u => Announced(r)' \subseteq Announced(r)
  <2>1. DOMAIN stream = Ids /\ DOMAIN stream' = Ids'
    BY SequenceDomain DEF SagaInv, TypeOK, Ids
  <2>2. \A m \in Ids : stream'[m] = stream[m]
    BY <1>4, GrowsFacts DEF SagaInv, TypeOK
  <2> QED
    BY <1>4, <1>7, <2>1, <2>2 DEF Announced
<1>10. OneAnnouncement'
  <2>1. ASSUME NEW r \in Reqs, NEW m \in Announced(r)', NEW n \in Announced(r)'
        PROVE  m = n \/ r \in contended'
    <3>1. CASE r = u
      <4>1. r \in contended \/ Announced(r)' \subseteq {Len(stream')}
        BY <1>6, <1>9, <3>1
      <4>2. contended' = contended
        BY <1>1 DEF dbVars
      <4> QED
        BY <2>1, <4>1, <4>2
    <3>2. CASE r # u
      BY <1>1, <1>9, <2>1, <3>2 DEF SagaInv, OneAnnouncement, dbVars
    <3> QED
      BY <3>1, <3>2
  <2> QED
    BY <2>1 DEF OneAnnouncement
<1>11. /\ \A q \in Procs \ {p} : Stays(q)
       /\ cpc'[p] = "complete" /\ cur'[p] = cur[p] /\ made'[p] = t
  BY <1>1, OthersStay DEF SagaInv, TypeOK
<1>12. ASSUME NEW q \in Procs \ {p}, NEW r \in Reqs, Activating(q, r)
       PROVE  Undisturbed(r)
  <2>1. CASE r # u
    BY <1>5, <1>9, <2>1 DEF Undisturbed, Patient
  <2>2. CASE r = u
    <3>1. Activating(p, u)
      BY <1>1 DEF Activating, Busy
    <3> QED
      BY <1>1, <1>12, <2>2, <3>1 DEF SagaInv, Alone, Undisturbed, dbVars
  <2> QED
    BY <2>1, <2>2
<1>13. UserOf(p)' = u
  BY <1>2, <1>4, <1>11, SameMessage
<1>14. Held(p, UserOf(p))'
  <2>1. Told(u, t) /\ UNCHANGED <<status, tenantOf, tenants, contended>>
    BY <1>1, <1>6 DEF dbVars
  <2>2. Told(UserOf(p), made[p])'
    BY <1>11, <1>13, <2>1 DEF Told, OwnTenant
  <2>3. host[u] = p => when[u] = "never"
    BY <1>1, <1>2 DEF Held, Activating, Busy
  <2> QED
    BY <1>1, <1>11, <1>13, <2>2, <2>3 DEF Held, reqVars, regVars
<1>15. Working'
  BY <1>1, <1>2, <1>4, <1>5, <1>11, <1>12, <1>14, WorkingStep DEF reqVars, regVars
<1>16. Alone'
  <2>1. ASSUME NEW q \in Procs, NEW r \in Reqs, Activating(q, r)'
        PROVE  Activating(q, r)
    <3>1. CASE q = p
      BY <1>1, <1>13, <2>1, <3>1 DEF Activating, Busy
    <3>2. CASE q # p
      <4>1. Stays(q) /\ cpc[q] \in Busy
        BY <1>11, <2>1, <3>2 DEF Activating, Stays
      <4>2. UserOf(q)' = UserOf(q)
        BY <1>4, <4>1, SameMessage DEF Stays
      <4> QED
        BY <2>1, <4>1, <4>2 DEF Activating, Stays
    <3> QED
      BY <3>1, <3>2
  <2> QED
    BY <1>1, <2>1 DEF SagaInv, Alone, dbVars
<1>17. \A r \in Reqs : status[r] = "none" => status'[r] = "none"
  BY <1>1 DEF dbVars
<1> QED
  BY <1>1, <1>5, <1>8, <1>10, <1>15, <1>16, <1>17, RegistryStays DEF SagaInv

LEMMA SignalSaga ==
    ASSUME SagaInv, TypeOK', NEW p \in Procs, SignalCompletion(p)
    PROVE  SagaInv'
<1> DEFINE u == UserOf(p)
<1>1. /\ UNCHANGED <<status, tenantOf, tenants, contended, stream, reqVars, cur, made>>
      /\ cpc[p] = "complete" /\ ConGoto(p, "ack")
      /\ \/ host[u] = p /\ Registry!Complete(u, made[p])
         \/ host[u] # p /\ UNCHANGED regVars
  BY DEF SignalCompletion, dbVars
<1>2. cpc[p] \in Busy /\ u \in Reqs /\ Held(p, u) /\ made[p] \in Nat
  BY <1>1, HandlerFacts DEF Busy
<1>3. Told(u, made[p]) /\ (host[u] = p => when[u] = "never")
  BY <1>1, <1>2 DEF Held, Activating, Busy, SagaInv, Working
<1>4. /\ Advances /\ Patient /\ Owned' /\ Grows /\ Ids' = Ids /\ OneAnnouncement'
      /\ \A m \in Ids' : Committed(m)'
      /\ \A q \in Reqs : Undisturbed(q)
  BY <1>1, StreamKept
<1>5. Registered'
  BY <1>1 DEF SagaInv, Registered, reqVars
<1>6. (\A q \in Procs \ {p} : Stays(q)) /\ cpc'[p] = "ack" /\ cur'[p] = cur[p]
  BY <1>1, OthersStay
<1>7. Alone'
  BY <1>4, <1>6, AloneKept DEF Advances, Busy
<1>8. \A r \in Reqs : \/ r = u /\ host[u] = p
                      \/ UNCHANGED <<events[r], results[r], completed[r], when[r]>>
  BY <1>1 DEF Registry!Complete, SagaInv, TypeOK, Registry!TypeOK, regVars
<1>9. Working'
  <2>1. \A r \in Reqs : host[r] # p => when'[r] = when[r]
    BY <1>8
  <2> QED
    BY <1>1, <1>2, <1>4, <1>6, <2>1, WorkingStep DEF reqVars, Busy
<1>10. waiter' = waiter /\ answer' = answer /\ rpc' = rpc
  BY <1>1 DEF Registry!Complete, regVars, reqVars
<1>11. \A r \in Reqs, t \in Nat : Told(r, t)' <=> Told(r, t)
  BY <1>1 DEF Told, OwnTenant
<1>12. \A r \in Reqs : results[r] \in Nat /\ answer[r] \in Nat
  BY DEF SagaInv, TypeOK, Registry!TypeOK, NoTenant
<1>13. ASSUME NEW r \in Reqs
       PROVE  /\ Known(r)' /\ Waiting(r)'
              /\ waiter'[r] = "returned" =>
                   \/ answer'[r] = NoTenant /\ when'[r] # "blocked"
                   \/ answer'[r] = completed'[r] /\ when'[r] = "blocked"
  <2>1. CASE UNCHANGED <<events[r], results[r], completed[r], when[r]>>
    BY <1>1, <1>10, <1>11, <1>12, <2>1
       DEF SagaInv, Known, Waiting, WaiterIsAnswered, Registry!AnswerIsCompletion
  <2>2. CASE r = u /\ host[u] = p
    <3>1. /\ results'[r] = made[p] /\ completed'[r] = made[p] /\ when'[r] = waiter[r]
          /\ events'[r] = IF events[r] = "absent" THEN "absent" ELSE "set"
      BY <1>1, <1>2, <2>2 DEF Registry!Complete, SagaInv, TypeOK, Registry!TypeOK
    <3>2. when[r] = "never" /\ status'[r] = "active" /\ Told(r, made[p])'
      <4>1. Told(r, made[p])
        BY <1>3, <2>2
      <4> QED
        BY <1>1, <1>3, <2>2, <4>1 DEF Told, OwnTenant
    <3>3. Told(r, results[r])'
      BY <1>1, <3>1, <3>2 DEF Told, OwnTenant
    <3>4. Known(r)'
      BY <1>10, <1>11, <1>12, <3>2, <3>3 DEF SagaInv, Known
    <3>5. Waiting(r)'
      BY <1>10, <3>1, <3>2 DEF SagaInv, Waiting
    <3>6. waiter'[r] = "returned" => answer'[r] = NoTenant /\ when'[r] # "blocked"
      BY <1>10, <3>1, <3>2 DEF SagaInv, WaiterIsAnswered, Registry!AnswerIsCompletion
    <3> QED
      BY <3>4, <3>5, <3>6
  <2> QED
    BY <1>8, <2>1, <2>2
<1>14. WaiterIsAnswered'
  BY <1>13 DEF WaiterIsAnswered, Registry!AnswerIsCompletion
<1> QED
  BY <1>4, <1>5, <1>7, <1>9, <1>13, <1>14 DEF SagaInv

-----------------------------------------------------------------------------
LEMMA InitSaga ==
    ASSUME Init PROVE SagaInv
<1>1. TypeOK
  BY InitType
<1>2. Ids = {} /\ \A r \in Reqs : Announced(r) = {}
  <2>1. Ids = {} /\ DOMAIN stream = {}
    BY EmptySeq DEF Init, Ids
  <2> QED
    BY <2>1 DEF Announced
<1>3. Registered /\ Owned /\ Working /\ Alone /\ OneAnnouncement
  BY <1>2 DEF Init, Registered, Owned, Working, Alone, OneAnnouncement, Activating, For,
              Busy
<1>4. (\A r \in Reqs : Known(r) /\ Waiting(r)) /\ WaiterIsAnswered
  BY DEF Init, Registry!Init, Known, Waiting, WaiterIsAnswered,
         Registry!AnswerIsCompletion, NoTenant
<1> QED
  BY <1>1, <1>2, <1>3, <1>4 DEF SagaInv

LEMMA NextSaga ==
    ASSUME SagaInv, [Next]_vars
    PROVE  SagaInv'
<1>1. TypeOK'
  BY RequestType, HandlerType, ConsumerType, KillType, StutterType
     DEF SagaInv, Next, Consume
<1>2. ASSUME NEW r \in Reqs, Request(r) \/ RequestRaises(r)
      PROVE  SagaInv'
  BY <1>1, <1>2, ThreadSaga, WaitSaga DEF Request, Thread
<1>3. ASSUME NEW p \in Procs,
             ReadHistory(p) \/ ReadNew(p) \/ Take(p) \/ Ack(p) \/ Raise(p) \/ Start(p)
      PROVE  SagaInv'
  <2>1. UNCHANGED <<dbVars, stream, reqVars, regVars>>
    BY <1>3 DEF ReadHistory, ReadNew, Take, Ack, Raise, Start
  <2> QED
    BY <1>1, <1>3, <2>1, LoopSaga
<1>4. ASSUME NEW p \in Procs, Handler(p)
      PROVE  SagaInv'
  BY <1>1, <1>4, CreateTenantSaga, PublishCreatedSaga, ReadUserSaga, AssignTenantSaga,
     PublishCompletedSaga, SignalSaga DEF Handler
<1>5. CASE UNCHANGED vars
  BY <1>1, <1>5, LoopSaga DEF vars
<1> QED
  BY <1>1, <1>2, <1>3, <1>4, <1>5, KillSaga DEF Next, Consume

LEMMA Invariant == Spec => []SagaInv
<1>1. Init => SagaInv
  BY InitSaga
<1>2. SagaInv /\ [Next]_vars => SagaInv'
  BY NextSaga
<1> QED
  BY <1>1, <1>2, PTL DEF Spec

\* The tenant a request is answered with, which opening the session writes over
\* the user's row, was created for that user, and is the one the row was activated
\* with unless the check and the activation overlapped in two replicas.
THEOREM AnswersMatch == Spec => []AnswerMatchesUser
<1>1. SagaInv => AnswerMatchesUser
  BY DEF SagaInv, Known, Told, AnswerMatchesUser
<1> QED
  BY <1>1, Invariant, PTL

\* However many replicas there are and however often tenant.created is delivered,
\* onboarding.completed comes after the activation with a tenant of the user, and,
\* unless check and activation overlapped in two replicas, at most once, with the
\* tenant the user has.
THEOREM AnnouncedOnce == Spec => []CompletedOnce
<1>1. ASSUME SagaInv PROVE CompletedOnce
  <2>1. ASSUME NEW r \in Reqs, r \notin contended
        PROVE  Cardinality(Announced(r)) <= 1
    <3>1. CASE Announced(r) = {}
      BY <3>1, FS_EmptySet
    <3>2. ASSUME NEW m \in Announced(r) PROVE Cardinality(Announced(r)) <= 1
      <4>1. Announced(r) = {m}
        BY <1>1, <2>1, <3>2 DEF SagaInv, OneAnnouncement
      <4> QED
        BY <4>1, FS_Singleton
    <3> QED
      BY <3>1, <3>2
  <2>2. ASSUME NEW r \in Reqs, NEW m \in Announced(r)
        PROVE  Told(r, stream[m].tenant)
    BY <1>1, <2>2, SequenceDomain DEF SagaInv, Announced, Committed
  <2> QED
    BY <2>1, <2>2 DEF CompletedOnce, Told
<1> QED
  BY <1>1, Invariant, PTL

\* A waiter is told the tenant of its own user, and nothing only when that user
\* was not completed while it waited.
THEOREM WaitersAnswered == Spec => []WaiterIsAnswered
<1>1. SagaInv => WaiterIsAnswered
  BY DEF SagaInv
<1> QED
  BY <1>1, Invariant, PTL

LEMMA OverwriteRefines ==
    ASSUME SagaInv, NEW r \in Reqs, answer[r] # NoTenant, Overwrite(r),
           UNCHANGED <<scenario, tenants, contended>>
    PROVE  [Saga!Next]_(Saga!vars)
<1>1. /\ status' = status /\ status[r] = "active" /\ OwnTenant(r, answer[r])
      /\ r \notin contended => tenantOf' = tenantOf
  BY OverwriteNothing
<1>2. CASE r \in contended
  <2>1. Saga!Reactivate(r, answer[r])
    BY <1>1, <1>2 DEF Saga!Reactivate, OwnTenant, Overwrite
  <2> QED
    BY <1>1, <2>1 DEF Saga!Next, OwnTenant
<1>3. CASE r \notin contended
  BY <1>1, <1>3 DEF Saga!vars
<1> QED
  BY <1>2, <1>3

LEMMA HandlerRefines ==
    ASSUME SagaInv, TypeOK', NEW p \in Procs, Handler(p)
    PROVE  [Saga!Next]_(Saga!vars)
<1>1. CASE CreateTenant(p)
  <2>1. /\ cpc[p] = "handle" /\ ServiceOf[p] = Tenant /\ Committed(cur[p])
        /\ UserOf(p) \in Reqs /\ stream[cur[p]].type = HandledBy(p)
    BY <1>1, HandlerFacts DEF CreateTenant, Busy
  <2>2. Saga!CreateTenant(UserOf(p))
    BY <1>1, <2>1 DEF CreateTenant, Committed, HandledBy, UserOf, Tenant, Auth,
       Saga!CreateTenant
  <2> QED
    BY <2>1, <2>2 DEF Saga!Next
<1>2. CASE ReadUser(p) \/ AssignTenant(p)
  <2> DEFINE u == UserOf(p)
             t == stream[cur[p]].tenant
  <2>1. /\ u \in Reqs /\ ServiceOf[p] = Auth
        /\ OwnTenant(u, t)
    BY <1>2, HandlerFacts DEF ReadUser, AssignTenant, Busy, SagaInv, Working, Committed,
       HandledBy, UserOf
  <2>2. ASSUME ReadUser(p) PROVE Saga!Race(u) \/ UNCHANGED Saga!vars
    <3>1. UNCHANGED <<scenario, status, tenantOf, tenants>>
      BY <2>2 DEF ReadUser
    <3>2. CASE contended' = contended
      BY <3>1, <3>2 DEF Saga!vars
    <3>3. CASE status[u] = "pending" /\ contended' = contended \cup {u}
      BY <2>1, <3>1, <3>3 DEF Saga!Race, OwnTenant
    <3>4. \/ contended' = contended
          \/ /\ status[u] = "pending"
             /\ contended' = contended \/ contended' = contended \cup {u}
      <4>1. \/ {v \in {u} : Assigning(p, v)} = {}
            \/ {v \in {u} : Assigning(p, v)} = {u}
        OBVIOUS
      <4> QED
        BY <2>2, <4>1 DEF ReadUser
    <3> QED
      BY <3>2, <3>3, <3>4
  <2>3. ASSUME AssignTenant(p) PROVE Saga!Activate(u, t) \/ Saga!Reactivate(u, t)
    <3>1. /\ status' = [status EXCEPT ![u] = "active"]
          /\ tenantOf' = [tenantOf EXCEPT ![u] = t]
          /\ UNCHANGED <<scenario, tenants, contended>>
      BY <2>3 DEF AssignTenant
    <3>2. \/ status[u] = "pending"
          \/ u \in contended /\ status[u] = "active"
      <4>1. status[u] \in {"none", "pending", "active"}
        BY <2>1 DEF SagaInv, TypeOK
      <4>2. Held(p, u) /\ cpc[p] = "assign"
        BY <2>3, HandlerFacts DEF AssignTenant, Busy
      <4> QED
        BY <4>1, <4>2 DEF Held
    <3>3. CASE status[u] = "pending"
      BY <2>1, <3>1, <3>3 DEF Saga!Activate, OwnTenant
    <3>4. CASE u \in contended /\ status[u] = "active"
      <4>1. status' = status
        BY <2>1, <3>1, <3>4 DEF SagaInv, TypeOK
      <4> QED
        BY <2>1, <3>1, <3>4, <4>1 DEF Saga!Reactivate, OwnTenant
    <3> QED
      BY <3>2, <3>3, <3>4
  <2> QED
    BY <1>2, <2>1, <2>2, <2>3 DEF Saga!Next, OwnTenant
<1>3. CASE UNCHANGED dbVars
  BY <1>3 DEF dbVars, Saga!vars
<1> QED
  BY <1>1, <1>2, <1>3 DEF Handler, PublishCreated, PublishCompleted, SignalCompletion

\* The processes of the two services, their stream and their consumers implement
\* the saga: every step registers an account, creates a tenant, activates an
\* account with a tenant of its own, races for one, or leaves all of it alone.
THEOREM Refinement == Spec => ImplementsSaga
<1>1. Init => Saga!Init
  BY DEF Init, Saga!Init, NoTenant
<1>2. ASSUME SagaInv, [Next]_vars PROVE [Saga!Next]_(Saga!vars)
  <2>1. TypeOK'
    BY <1>2, RequestType, HandlerType, ConsumerType, KillType, StutterType
       DEF SagaInv, Next, Consume
  <2>2. ASSUME NEW r \in Reqs, InsertUser(r), ~Taken(r) PROVE Saga!Next
    <3>1. Saga!Register(r)
      BY <2>2 DEF InsertUser, Taken, Email, Saga!Register
    <3> QED
      BY <3>1 DEF Saga!Next
  <2>3. UNCHANGED dbVars => UNCHANGED Saga!vars
    BY DEF dbVars, Saga!vars
  <2>4. ASSUME NEW r \in Reqs, Request(r) \/ RequestRaises(r)
        PROVE  [Saga!Next]_(Saga!vars)
    <3>1. CASE InsertUser(r)
      BY <2>2, <2>3, <3>1 DEF InsertUser, dbVars
    <3>2. CASE OpenSession(r) \/ OpenSessionRaises(r)
      <4>1. UNCHANGED <<scenario, tenants, contended>> /\ answer[r] # NoTenant
        BY <3>2 DEF OpenSession, OpenSessionRaises
      <4>2. CASE Overwrite(r)
        BY <1>2, <4>1, <4>2, OverwriteRefines
      <4>3. CASE UNCHANGED <<tenantOf, status>>
        BY <4>1, <4>3 DEF Saga!vars
      <4> QED
        BY <3>2, <4>2, <4>3 DEF OpenSession, OpenSessionRaises
    <3>3. CASE UNCHANGED dbVars
      BY <2>3, <3>3
    <3> QED
      BY <2>4, <3>1, <3>2, <3>3 DEF Request, RequestRaises, LookUpEmail, PublishPending,
         WaitForCompletion, Accepted, PublishPendingRaises, ConnectionTimesOut
  <2>5. ASSUME NEW p \in Procs, Consume(p) \/ Raise(p) \/ Start(p) \/ Kill(p)
        PROVE  [Saga!Next]_(Saga!vars)
    <3>1. CASE Handler(p)
      BY <1>2, <2>1, <3>1, HandlerRefines
    <3>2. CASE ~Handler(p)
      BY <2>3, <2>5, <3>2 DEF Consume, ReadHistory, ReadNew, Take, Ack, Raise, Start, Kill
    <3> QED
      BY <3>1, <3>2
  <2> QED
    BY <1>2, <2>3, <2>4, <2>5 DEF Next, vars
<1> QED
  BY <1>1, <1>2, Invariant, PTL DEF Spec, ImplementsSaga, Saga!Spec

=============================================================================
