--------------------------- MODULE GatewayProofs ---------------------------
(***************************************************************************)
(* Theorems about Gateway, for any numbers of requests, attempts, windows  *)
(* and errors, and any limit.                                              *)
(***************************************************************************)
EXTENDS Gateway, FiniteSetTheorems, TLAPS

LEMMA Bounds ==
    /\ Window \in Nat \ {0} /\ Limit \in Nat /\ Ttl \in Nat /\ MaxDelay \in Nat
    /\ Window + MaxDelay <= Ttl
    /\ Attempts \in Nat \ {0} /\ MaxTime \in Nat
    /\ ServiceTtl \in Nat /\ Timeout \in Nat /\ \A w \in Waits : w \in 0..Timeout
    /\ MaxFaults \in Nat /\ MaxCrashes \in Nat
BY GatewayAssumption

LEMMA DivisionBounds ==
    ASSUME NEW t \in Nat
    PROVE  /\ t \div Window \in Nat
           /\ (t \div Window) * Window \in Nat
           /\ (t \div Window) * Window <= t
           /\ t < (t \div Window) * Window + Window
<1>1. Window \in Nat \ {0}
  BY Bounds
<1>2. t \div Window \in Nat
  BY <1>1
<1>3. (t \div Window) * Window \in Nat
  BY <1>1, <1>2
<1>4. (t \div Window) * Window <= t /\ t < (t \div Window) * Window + Window
  BY <1>1
<1> QED
  BY <1>2, <1>3, <1>4

LEMMA WindowExists ==
    ASSUME NEW t \in 0..MaxTime
    PROVE  RL!WindowOf(t) \in Windows
<1> DEFINE p == t \div Window
           q == MaxTime \div Window
<1>1. MaxTime \in Nat /\ Window \in Nat \ {0} /\ t \in Nat /\ t <= MaxTime
  BY Bounds
<1>2. p \in Nat /\ p * Window <= t
  BY <1>1, DivisionBounds
<1>3. q \in Nat /\ MaxTime < q * Window + Window
  BY <1>1, DivisionBounds
<1> HIDE DEF p, q
<1>4. p * Window < (q + 1) * Window
  BY <1>1, <1>2, <1>3
<1>5. p < q + 1
  <2>1. CASE p >= q + 1
    <3>1. (p - (q + 1)) * Window >= 0
      BY <1>1, <1>2, <1>3, <2>1
    <3> QED
      BY <1>1, <1>2, <1>3, <1>4, <3>1
  <2> QED
    BY <1>2, <1>3, <2>1
<1>6. p \in 0..q
  BY <1>2, <1>3, <1>5
<1> QED
  BY <1>6 DEF RL!WindowOf, Windows, p, q

-----------------------------------------------------------------------------
\* The attempts of a request are those of forward_with_retry.
CountedAt(r) ==
    /\ pc[r] \in {"send", "connected", "upstream"} => attempt[r] \in 1..MaxAttempts(r)
    /\ pc[r] = "backoff" => attempt[r] \in 1..(MaxAttempts(r) - 1)
Counted == \A r \in Reqs : CountedAt(r)

LEMMA AttemptsType ==
    ASSUME NEW r \in Reqs
    PROVE  MaxAttempts(r) \in Nat /\ MaxAttempts(r) \in 1..Attempts
BY Bounds DEF MaxAttempts

\* A step of the request r alone.
LEMMA CountedStep ==
    ASSUME Counted, NEW r \in Reqs, CountedAt(r)', kind' = kind \/ pc[r] = "idle",
           \A q \in Reqs \ {r} : /\ pc'[q] = pc[q] /\ attempt'[q] = attempt[q]
                                 /\ kind'[q] = kind[q]
    PROVE  Counted'
<1> SUFFICES ASSUME NEW q \in Reqs, q # r PROVE CountedAt(q)'
  BY DEF Counted
<1>1. pc'[q] = pc[q] /\ attempt'[q] = attempt[q] /\ MaxAttempts(q)' = MaxAttempts(q)
  BY DEF MaxAttempts
<1> QED
  BY <1>1 DEF Counted, CountedAt

LEMMA RequestWindow ==
    ASSUME TypeOK, NEW r \in Reqs
    PROVE  WindowOf(r) \in Windows
BY WindowExists DEF TypeOK, WindowOf

LEMMA LimitType ==
    ASSUME TypeOK,
           \/ UNCHANGED limitVars
           \/ \E w \in Windows : RL!Incr(w) \/ RL!Expire(w)
    PROVE  RL!TypeOK' /\ now' = now
BY Bounds DEF TypeOK, RL!TypeOK, RL!Incr, RL!Expire, limitVars

LEMMA OlderType ==
    ASSUME TypeOK, NEW r \in Reqs, NEW w \in Nat
    PROVE  Older(r, w) \in 0..ServiceTtl
BY Bounds DEF TypeOK, Older

LEMMA MostType ==
    ASSUME TypeOK, NEW r \in Reqs, NEW n \in Nat
    PROVE  Most(stalls[r] + n) \in 0..2
BY DEF TypeOK, Most

\* The age of the token, and the waits counted, after some phases.
AgeTypes == age' \in [Reqs -> 0..ServiceTtl] /\ stalls' \in [Reqs -> 0..2]

LEMMA WaitedType ==
    ASSUME TypeOK, NEW r \in Reqs, NEW w \in Nat, NEW n \in Nat, Waited(r, w, n)
    PROVE  AgeTypes
BY OlderType, MostType DEF TypeOK, Waited, AgeTypes

LEMMA WaitSums ==
    ASSUME NEW u \in Waits, NEW v \in Waits, NEW w \in Waits
    PROVE  /\ u + v \in Nat /\ Stall(u) + Stall(v) \in Nat
           /\ u + v + w \in Nat /\ Stall(u) + Stall(v) + Stall(w) \in Nat
<1>1. u \in Nat /\ v \in Nat /\ w \in Nat
  BY Bounds
<1>2. \A x \in Nat : Stall(x) \in {0, 1}
  BY DEF Stall
<1> QED
  BY <1>1, <1>2

LEMMA TwoWaitsType ==
    ASSUME TypeOK, NEW r \in Reqs, TwoWaits(r)
    PROVE  AgeTypes
BY WaitSums, WaitedType DEF TwoWaits

LEMMA ForgetType ==
    ASSUME TypeOK, NEW r \in Reqs, Forget(r)
    PROVE  AgeTypes
BY Bounds DEF TypeOK, Forget, AgeTypes

LEMMA LimiterStep ==
    ASSUME TypeOK, Counted, NEW r \in Reqs, Incr(r) \/ SetTtl(r) \/ RedisRaises(r)
    PROVE  TypeOK' /\ Counted'
<1> DEFINE w == WindowOf(r)
<1>1. w \in Windows
  BY RequestWindow
<1> HIDE DEF w
<1>2. RL!TypeOK' /\ now' = now
  <2>1. UNCHANGED limitVars \/ RL!Incr(w) \/ RL!Expire(w)
    BY DEF Incr, SetTtl, RedisRaises, w
  <2> QED
    BY <1>1, <2>1, LimitType
<1>3. \E p \in {"expire", "auth", "429", "500"} : Goto(r, p)
  BY DEF Incr, SetTtl, RedisRaises, Compare, Return
<1>4. since' = since \/ since' = [since EXCEPT ![r] = 0]
  BY DEF Incr, SetTtl, RedisRaises, Compare, Return
<1>5. admitted' \in [Windows -> Nat]
  BY <1>1 DEF Incr, SetTtl, RedisRaises, Compare, Admit, TypeOK, w
<1>6. faults' \in 0..MaxFaults
  BY Bounds DEF Incr, SetTtl, RedisRaises, budget, TypeOK
<1>7. UNCHANGED <<kind, header, attempt, age, stalls, received, seen, crashes>>
  BY DEF Incr, SetTtl, RedisRaises, Limiting, upstreamVars, budget
<1>8. TypeOK'
  <2>1. pc' \in [Reqs -> {"idle"} \cup Stages \cup Answers]
    BY <1>3 DEF TypeOK, Goto, Stages, Forwarding, Answers
  <2>2. since' \in [Reqs -> 0..MaxTime]
    BY <1>4, Bounds DEF TypeOK
  <2> QED
    BY <1>2, <1>5, <1>6, <1>7, <2>1, <2>2 DEF TypeOK
<1>9. CountedAt(r)'
  BY <1>3 DEF CountedAt, Goto, TypeOK
<1>10. Counted'
  BY <1>3, <1>7, <1>9, CountedStep DEF Goto, TypeOK
<1> QED
  BY <1>8, <1>10

\* A step of the proxy: where the request goes, and how old its token is then.
LEMMA ProxyStep ==
    ASSUME TypeOK, Counted, NEW r \in Reqs, Forward(r)
    PROVE  TypeOK' /\ Counted'
<1> USE DEF Sending, upstreamVars, limitVars, budget
<1>1. ASSUME NEW answer, GiveUpOrWait(r, answer) PROVE AgeTypes
  BY <1>1, TwoWaitsType, ForgetType DEF GiveUpOrWait
<1>2. AgeTypes
  <2>1. CASE Connect(r)
    BY <2>1, TwoWaitsType DEF Connect
  <2>2. CASE ConnectFails(r)
    BY <1>1, <2>2 DEF ConnectFails
  <2>3. CASE Receive(r)
    BY <2>3, WaitSums, WaitedType DEF Receive
  <2>4. CASE Reply(r)
    BY <1>1, <2>4, ForgetType DEF Reply
  <2>5. CASE Breaks(r)
    BY <2>5, ForgetType DEF Breaks
  <2>6. CASE Retry(r)
    BY <2>6 DEF Retry, TypeOK, AgeTypes
  <2> QED
    BY <2>1, <2>2, <2>3, <2>4, <2>5, <2>6 DEF Forward
<1>3. \E p \in {"send", "connected", "upstream", "backoff", "ok", "busy", "401 expired",
                "500", "502 unavailable"} :
          /\ Goto(r, p)
          /\ p \in {"connected", "upstream"} => pc[r] \in {"send", "connected"}
          /\ p = "backoff" => pc[r] \in {"send", "upstream"} /\ ~LastAttempt(r)
          /\ p = "send" => pc[r] = "backoff" /\ attempt' = [attempt EXCEPT ![r] = @ + 1]
          /\ p # "send" => attempt' = attempt
  BY DEF Forward, Connect, ConnectFails, Receive, Reply, Breaks, Retry, GiveUpOrWait
<1>4. received' \in [Reqs -> Nat] /\ seen' \in [Reqs -> SUBSET {"none", "forged", "claims"}]
  <2>1. \/ received' = received /\ seen' = seen
        \/ /\ received' = [received EXCEPT ![r] = @ + 1]
           /\ seen' = [seen EXCEPT ![r] = @ \cup {header[r]}]
    BY DEF Forward, Connect, ConnectFails, Receive, Reply, Breaks, Retry
  <2> QED
    BY <2>1 DEF TypeOK
<1>5. UNCHANGED <<now, count, expiry, kind, since, header, admitted, faults, crashes>>
  BY DEF Forward, Connect, ConnectFails, Receive, Reply, Breaks, Retry
<1>6. MaxAttempts(r) \in 1..Attempts /\ MaxAttempts(r) \in Nat
  BY AttemptsType
<1>7. attempt[r] \in Nat /\ attempt \in [Reqs -> 0..Attempts]
  BY DEF TypeOK
<1>8. pc[r] = "backoff" => attempt[r] \in Nat /\ attempt[r] + 1 \in 1..MaxAttempts(r)
  BY <1>6 DEF Counted, CountedAt
<1>9. attempt' \in [Reqs -> 0..Attempts]
  <2>1. CASE attempt' = attempt
    BY <1>7, <2>1
  <2>2. CASE pc[r] = "backoff" /\ attempt' = [attempt EXCEPT ![r] = @ + 1]
    <3>1. attempt[r] + 1 \in 0..Attempts
      BY <1>6, <1>8, <2>2, Bounds
    <3> QED
      BY <1>7, <2>2, <3>1
  <2> QED
    BY <1>3, <2>1, <2>2
<1>10. TypeOK'
  <2>1. pc' \in [Reqs -> {"idle"} \cup Stages \cup Answers]
    BY <1>3 DEF TypeOK, Goto, Stages, Forwarding, Answers
  <2> QED
    BY <1>2, <1>4, <1>5, <1>9, <2>1 DEF TypeOK, RL!TypeOK, AgeTypes
<1>11. ASSUME NEW q \in Reqs \ {r}
       PROVE  pc'[q] = pc[q] /\ attempt'[q] = attempt[q] /\ kind'[q] = kind[q]
  BY <1>3, <1>5 DEF TypeOK, Goto
<1>12. CountedAt(r)'
  <2>1. MaxAttempts(r)' = MaxAttempts(r)
    BY <1>5 DEF MaxAttempts
  <2>2. CASE pc'[r] = "send"
    <3>1. attempt'[r] = attempt[r] + 1 /\ pc[r] = "backoff"
      BY <1>3, <1>7, <2>2 DEF Goto, TypeOK
    <3> QED
      BY <1>8, <2>1, <2>2, <3>1 DEF CountedAt
  <2>3. CASE pc'[r] \in {"connected", "upstream"}
    <3>1. attempt'[r] = attempt[r] /\ pc[r] \in {"send", "connected"}
      BY <1>3, <2>3 DEF Goto, TypeOK
    <3> QED
      BY <2>1, <2>3, <3>1 DEF Counted, CountedAt
  <2>4. CASE pc'[r] = "backoff"
    <3>1. /\ attempt'[r] = attempt[r] /\ pc[r] \in {"send", "upstream"}
          /\ attempt[r] # MaxAttempts(r)
      BY <1>3, <2>4 DEF Goto, TypeOK, LastAttempt
    <3>2. attempt[r] \in 1..(MaxAttempts(r) - 1)
      BY <1>6, <1>7, <3>1 DEF Counted, CountedAt
    <3> QED
      BY <2>1, <2>4, <3>1, <3>2 DEF CountedAt
  <2> QED
    BY <2>2, <2>3, <2>4 DEF CountedAt
<1>13. Counted'
  BY <1>5, <1>11, <1>12, CountedStep
<1> QED
  BY <1>10, <1>13

LEMMA TypeStep ==
    ASSUME TypeOK, Counted, [Next]_vars
    PROVE  TypeOK' /\ Counted'
<1> USE DEF upstreamVars, limitVars, budget, Goto
<1>1. ASSUME NEW r \in Reqs, NEW k \in Kinds, Arrive(r, k) PROVE TypeOK' /\ Counted'
  <2>1. TypeOK'
    BY <1>1 DEF Arrive, TypeOK, RL!TypeOK, Stages, Forwarding
  <2> QED
    <3>1. CountedAt(r)'
      BY <1>1 DEF Arrive, CountedAt, TypeOK
    <3> QED
      BY <1>1, <2>1, <3>1, CountedStep DEF Arrive, TypeOK
<1>2. ASSUME NEW r \in Reqs, Authenticate(r) PROVE TypeOK' /\ Counted'
  <2>1. age' \in [Reqs -> 0..ServiceTtl]
    BY <1>2, Bounds DEF Authenticate, Mint, TypeOK
  <2>2. TypeOK'
    BY <1>2, <2>1
    DEF Authenticate, Stripped, FromClaims, TypeOK, RL!TypeOK, Stages, Forwarding,
        Answers
  <2>3. CountedAt(r)'
    BY <1>2 DEF Authenticate, CountedAt, TypeOK
  <2> QED
    BY <1>2, <2>2, <2>3, CountedStep DEF Authenticate, TypeOK
<1>3. ASSUME NEW r \in Reqs, Route(r) PROVE TypeOK' /\ Counted'
  <2>1. age' \in [Reqs -> 0..ServiceTtl]
    <3>1. age[r] \in 0..ServiceTtl /\ ServiceTtl \in 0..ServiceTtl
      BY Bounds DEF TypeOK
    <3>2. \E a \in 0..ServiceTtl : age' = age \/ age' = [age EXCEPT ![r] = a]
      BY <1>3, <3>1 DEF Route
    <3> QED
      BY <3>2 DEF TypeOK
  <2>2. \E p \in {"local", "502 unrouted", "send"} : pc' = [pc EXCEPT ![r] = p]
    BY <1>3 DEF Route
  <2>3. MaxAttempts(r) \in 1..Attempts
    BY AttemptsType
  <2>4. pc' \in [Reqs -> {"idle"} \cup Stages \cup Answers]
    BY <2>2 DEF TypeOK, Stages, Forwarding, Answers
  <2>5. attempt' = [attempt EXCEPT ![r] = 1]
    BY <1>3 DEF Route
  <2>6. attempt' \in [Reqs -> 0..Attempts] /\ attempt'[r] = 1
    BY <2>5, Bounds DEF TypeOK
  <2>7. UNCHANGED <<now, count, expiry, kind, since, header, stalls, received, seen,
                    admitted, faults, crashes>>
    BY <1>3 DEF Route
  <2>8. TypeOK'
    BY <2>1, <2>4, <2>6, <2>7 DEF TypeOK, RL!TypeOK
  <2>9. CountedAt(r)'
    <3>1. MaxAttempts(r)' = MaxAttempts(r) /\ 1 \in 1..MaxAttempts(r)
      BY <2>3, <2>7 DEF MaxAttempts
    <3> QED
      BY <2>2, <2>6, <3>1 DEF CountedAt, TypeOK
  <2> QED
    BY <2>2, <2>5, <2>7, <2>8, <2>9, CountedStep DEF TypeOK
<1>4. CASE Tick
  <2>1. now' = now + 1 /\ now' <= MaxTime /\ now' \in Nat
    BY <1>4, Bounds DEF Tick, RL!Tick, TypeOK, RL!TypeOK
  <2>2. count' \in [Windows -> Nat] /\ expiry' \in [Windows -> Nat]
    BY <1>4 DEF Tick, RL!Tick, TypeOK, RL!TypeOK
  <2> QED
    BY <1>4, <2>1, <2>2 DEF Tick, reqVars, TypeOK, RL!TypeOK, Counted, CountedAt, MaxAttempts
<1>5. CASE Crash
  <2>1. pc' \in [Reqs -> {"idle"} \cup Stages \cup Answers]
    BY <1>5 DEF Crash, TypeOK, Answers
  <2>2. AgeTypes /\ since' \in [Reqs -> 0..MaxTime]
    BY <1>5, Bounds DEF Crash, TypeOK, AgeTypes
  <2>3. crashes' \in 0..MaxCrashes
    BY <1>5, Bounds DEF Crash, TypeOK
  <2>4. \A r \in Reqs : pc'[r] \notin Stages
    BY <1>5 DEF Crash, TypeOK, Stages, Forwarding, Answers
  <2>5. TypeOK'
    BY <1>5, <2>1, <2>2, <2>3 DEF Crash, TypeOK, RL!TypeOK, AgeTypes
  <2> QED
    BY <2>4, <2>5 DEF Counted, CountedAt, Stages, Forwarding
<1>6. CASE UNCHANGED vars
  BY <1>6 DEF vars, reqVars, TypeOK, RL!TypeOK, Counted, CountedAt, MaxAttempts
<1> QED
  BY <1>1, <1>2, <1>3, <1>4, <1>5, <1>6, LimiterStep, ProxyStep DEF Next, Serve, Forward

\* The state always has its type: in particular a request uses a counter of an
\* existing window, its token never gets older than the service cares for, and
\* forward_with_retry makes no more than its attempts.
THEOREM TypeCorrect == Spec => [](TypeOK /\ Counted)
<1>1. Init => TypeOK /\ Counted
  BY Bounds
  DEF Init, RL!Init, TypeOK, RL!TypeOK, Counted, CountedAt, Stages, Forwarding,
      Answers
<1>2. TypeOK /\ Counted /\ [Next]_vars => TypeOK' /\ Counted'
  BY TypeStep
<1> QED
  BY <1>1, <1>2, PTL DEF Spec

-----------------------------------------------------------------------------
\* A step of one request leaves the others alone.
Frame(r) ==
    \A q \in Reqs \ {r} :
        /\ pc'[q] = pc[q] /\ kind'[q] = kind[q] /\ header'[q] = header[q]
        /\ attempt'[q] = attempt[q] /\ age'[q] = age[q]
        /\ stalls'[q] = stalls[q] /\ received'[q] = received[q] /\ seen'[q] = seen[q]

StepOf(r) == Serve(r) \/ RedisRaises(r) \/ \E k \in Kinds : Arrive(r, k)

Idle == UNCHANGED <<pc, kind, header, attempt, age, stalls, received, seen>>

LEMMA Alone ==
    ASSUME TypeOK, NEW r \in Reqs, StepOf(r)
    PROVE  Frame(r)
<1> USE DEF TypeOK, Frame, Goto, upstreamVars
<1>1. CASE Incr(r) \/ SetTtl(r) \/ RedisRaises(r)
  BY <1>1 DEF Incr, SetTtl, RedisRaises, Compare, Return, Limiting
<1>2. CASE Authenticate(r)
  BY <1>2 DEF Authenticate, Mint, Stripped, FromClaims
<1>3. CASE Route(r)
  BY <1>3 DEF Route
<1>4. CASE Connect(r) \/ ConnectFails(r) \/ Reply(r)
  BY <1>4
  DEF Connect, ConnectFails, Reply, GiveUpOrWait, TwoWaits, Waited, Forget, Sending
<1>5. CASE Receive(r)
  BY <1>5 DEF Receive, Waited, Forget, Sending
<1>6. CASE Breaks(r) \/ Retry(r)
  BY <1>6 DEF Breaks, Retry, Forget, Sending
<1>7. CASE \E k \in Kinds : Arrive(r, k)
  BY <1>7 DEF Arrive
<1> QED
  BY <1>1, <1>2, <1>3, <1>4, <1>5, <1>6, <1>7 DEF StepOf, Serve, Forward

LEMMA ReceiveEffect ==
    ASSUME TypeOK, NEW r \in Reqs, Receive(r)
    PROVE  /\ pc[r] = "connected" /\ kind'[r] = kind[r] /\ header'[r] = header[r]
           /\ attempt'[r] = attempt[r]
           /\ \/ /\ pc'[r] = "upstream"
                 /\ received'[r] = received[r] + 1
                 /\ seen'[r] = seen[r] \cup {header[r]}
              \/ /\ pc'[r] = "401 expired"
                 /\ received'[r] = received[r] /\ seen'[r] = seen[r]
BY DEF Receive, Sending, TypeOK, Goto, upstreamVars

LEMMA NextCases ==
    ASSUME [Next]_vars
    PROVE  Idle \/ Crash \/ \E r \in Reqs : StepOf(r)
BY DEF Next, vars, reqVars, upstreamVars, Idle, StepOf, Tick

-----------------------------------------------------------------------------
Early == {"idle", "incr", "expire", "auth", "route"}
Upstreams == {"public", "protected"}

IdentityAt(r) ==
    /\ seen[r] \subseteq Vouched(r)
    /\ pc[r] \in Early => seen[r] = {}
    /\ pc[r] \in {"route"} \cup Forwarding /\ kind[r].path \in Upstreams
           => header[r] \in Vouched(r)
    /\ pc[r] \in Forwarding => kind[r].path \in Upstreams

LEMMA IdentityStep ==
    ASSUME TypeOK, NEW r \in Reqs, IdentityAt(r), StepOf(r)
    PROVE  IdentityAt(r)'
<1> USE DEF TypeOK, IdentityAt, Early, Upstreams, Forwarding, Goto, upstreamVars
<1>1. CASE Incr(r) \/ SetTtl(r) \/ RedisRaises(r)
  BY <1>1 DEF Incr, SetTtl, RedisRaises, Compare, Return, Limiting, Vouched
<1>2. CASE Authenticate(r)
  BY <1>2 DEF Authenticate, OpenPaths, Stripped, FromClaims, Vouched
<1>3. CASE Route(r)
  BY <1>3 DEF Route, Vouched
<1>4. CASE Connect(r) \/ ConnectFails(r) \/ Reply(r)
  BY <1>4 DEF Connect, ConnectFails, Reply, GiveUpOrWait, Sending, Vouched
<1>5. CASE Receive(r)
  <2> HIDE DEF TypeOK
  <2>1. Vouched(r)' = Vouched(r)
    BY <1>5, ReceiveEffect DEF Vouched
  <2> QED
    BY <1>5, <2>1, ReceiveEffect
<1>6. CASE Breaks(r) \/ Retry(r)
  BY <1>6 DEF Breaks, Retry, Sending, Vouched
<1>7. CASE \E k \in Kinds : Arrive(r, k)
  BY <1>7 DEF Arrive, Vouched
<1> QED
  BY <1>1, <1>2, <1>3, <1>4, <1>5, <1>6, <1>7 DEF StepOf, Serve, Forward

\* No service is ever shown an identity that comes from the client: on protected
\* paths it gets the claims of a valid token, on public paths none at all.
THEOREM IdentityVerified == Spec => []IdentityIsVerified
<1> DEFINE Inv == \A r \in Reqs : IdentityAt(r)
<1>1. Init => Inv
  BY DEF Init, IdentityAt, Early, Forwarding
<1>2. TypeOK /\ Inv /\ [Next]_vars => Inv'
  <2> SUFFICES ASSUME TypeOK, Inv, [Next]_vars, NEW q \in Reqs PROVE IdentityAt(q)'
    OBVIOUS
  <2>1. CASE Idle
    BY <2>1 DEF Idle, IdentityAt, Vouched
  <2>2. CASE Crash
    BY <2>2 DEF Crash, upstreamVars, TypeOK, Stages, Forwarding, Early, IdentityAt,
               Vouched
  <2>3. ASSUME NEW r \in Reqs, StepOf(r) PROVE IdentityAt(q)'
    <3>1. CASE q = r
      BY <2>3, <3>1, IdentityStep
    <3>2. CASE q # r
      BY <2>3, <3>2, Alone DEF Frame, IdentityAt, Vouched
    <3> QED
      BY <3>1, <3>2
  <2> QED
    BY <2>1, <2>2, <2>3, NextCases
<1>3. Inv => IdentityIsVerified
  BY DEF IdentityAt, IdentityIsVerified
<1> QED
  BY <1>1, <1>2, <1>3, TypeCorrect, PTL DEF Spec

-----------------------------------------------------------------------------
Refusals == {"401", "401 expired", "429", "502 unrouted", "502 unavailable"}

\* What the place of a POST says of its effect.  It is never sent again.
EffectAt(r) ==
    /\ pc[r] \in Early => received[r] = 0
    /\ kind[r].method = "POST" =>
           /\ received[r] <= 1
           /\ pc[r] \in Refusals \cup {"send", "connected"} => received[r] = 0
           /\ pc[r] \in {"upstream", "ok", "busy"} => received[r] = 1
           /\ pc[r] # "backoff"

LEMMA PostOnce ==
    ASSUME Counted, NEW r \in Reqs, kind[r].method = "POST",
           pc[r] \in {"send", "upstream"}
    PROVE  LastAttempt(r)
<1>1. MaxAttempts(r) = 1
  BY DEF MaxAttempts
<1>2. attempt[r] \in 1..MaxAttempts(r)
  BY DEF Counted, CountedAt
<1>3. attempt[r] \in 1..1
  BY <1>1, <1>2
<1> QED
  BY <1>1, <1>3 DEF LastAttempt

LEMMA EffectReceive ==
    ASSUME TypeOK, NEW r \in Reqs, EffectAt(r), Receive(r)
    PROVE  EffectAt(r)'
<1>1. /\ pc[r] = "connected" /\ kind'[r] = kind[r]
      /\ \/ pc'[r] = "upstream" /\ received'[r] = received[r] + 1
         \/ pc'[r] = "401 expired" /\ received'[r] = received[r]
  BY ReceiveEffect
<1>2. kind[r].method = "POST" => received[r] = 0
  BY <1>1 DEF EffectAt
<1>3. kind[r].method = "POST" =>
          \/ pc'[r] = "upstream" /\ received'[r] = 1
          \/ pc'[r] = "401 expired" /\ received'[r] = 0
  <2>1. CASE pc'[r] = "upstream" /\ kind[r].method = "POST"
    <3>1. received'[r] = 0 + 1
      BY <1>1, <1>2, <2>1
    <3> QED
      BY <2>1, <3>1
  <2>2. CASE pc'[r] = "401 expired"
    BY <1>1, <1>2, <2>2
  <2> QED
    BY <1>1, <2>1, <2>2
<1>4. pc'[r] \notin Early /\ pc'[r] # "backoff" /\ kind'[r].method = kind[r].method
  BY <1>1 DEF Early
<1>5. received'[r] = 0 \/ received'[r] = 1 => received'[r] <= 1
  OBVIOUS
<1> QED
  BY <1>1, <1>3, <1>4, <1>5 DEF EffectAt, Refusals

LEMMA EffectStep ==
    ASSUME TypeOK, Counted, NEW r \in Reqs, EffectAt(r), StepOf(r)
    PROVE  EffectAt(r)'
<1> USE DEF TypeOK, EffectAt, Early, Refusals, Goto, upstreamVars
<1>1. CASE Incr(r) \/ SetTtl(r) \/ RedisRaises(r)
  BY <1>1 DEF Incr, SetTtl, RedisRaises, Compare, Return, Limiting
<1>2. CASE Authenticate(r)
  BY <1>2 DEF Authenticate
<1>3. CASE Route(r)
  BY <1>3 DEF Route
<1>4. kind[r].method = "POST" /\ pc[r] \in {"send", "upstream"} => LastAttempt(r)
  BY PostOnce
<1>5. CASE Connect(r) \/ ConnectFails(r) \/ Reply(r)
  BY <1>4, <1>5 DEF Connect, ConnectFails, Reply, GiveUpOrWait, Sending
<1>6. CASE Receive(r)
  BY <1>6, EffectReceive
<1>7. CASE Breaks(r) \/ Retry(r)
  BY <1>7 DEF Breaks, Retry, Sending
<1>8. CASE \E k \in Kinds : Arrive(r, k)
  BY <1>8 DEF Arrive
<1> QED
  BY <1>1, <1>2, <1>3, <1>5, <1>6, <1>7, <1>8 DEF StepOf, Serve, Forward

\* A POST reaches a service at most once, however often the gateway may try, and
\* its answer tells whether it did.
THEOREM AnswersTellEffect == Spec => []AnswerTellsEffect
<1> DEFINE Inv == \A r \in Reqs : EffectAt(r)
<1>1. Init => Inv
  BY DEF Init, EffectAt, NoKind, Refusals
<1>2. TypeOK /\ Counted /\ Inv /\ [Next]_vars => Inv'
  <2> SUFFICES ASSUME TypeOK, Counted, Inv, [Next]_vars, NEW q \in Reqs
               PROVE  EffectAt(q)'
    OBVIOUS
  <2>1. CASE Idle
    BY <2>1 DEF Idle, EffectAt
  <2>2. CASE Crash
    BY <2>2 DEF Crash, upstreamVars, TypeOK, Stages, Forwarding, Early, Refusals,
               EffectAt
  <2>3. ASSUME NEW r \in Reqs, StepOf(r) PROVE EffectAt(q)'
    <3>1. CASE q = r
      BY <2>3, <3>1, EffectStep
    <3>2. CASE q # r
      BY <2>3, <3>2, Alone DEF Frame, EffectAt
    <3> QED
      BY <3>1, <3>2
  <2> QED
    BY <2>1, <2>2, <2>3, NextCases
<1>3. Inv => AnswerTellsEffect
  BY DEF EffectAt, AnswerTellsEffect, Refusals
<1> QED
  BY <1>1, <1>2, <1>3, TypeCorrect, PTL DEF Spec

-----------------------------------------------------------------------------
\* While at most one phase of the calls for a prompt request has taken time, its
\* token is no older than the timeout.
FreshAt(r) ==
    /\ pc[r] \in Early => stalls[r] = 0
    /\ pc[r] = "route" => age[r] = 0
    /\ pc[r] \in Forwarding /\ kind[r].pace # "slow" =>
           /\ stalls[r] = 0 => age[r] = 0
           /\ stalls[r] = 1 => age[r] <= Timeout
    /\ pc[r] = "401 expired" => kind[r].pace = "slow" \/ stalls[r] = 2

\* An age a request that has waited n times can have.
Fresh(a, n) == (n = 0 => a = 0) /\ (n = 1 => a <= Timeout)

LEMMA WaitTimes ==
    ASSUME NEW w \in Waits
    PROVE  /\ w \in Nat /\ w <= Timeout
           /\ (Stall(w) = 0 /\ w = 0) \/ Stall(w) = 1
BY Bounds DEF Stall

LEMMA SumFresh ==
    ASSUME NEW u \in Nat, NEW v \in Nat, NEW i \in Nat, NEW j \in Nat,
           Fresh(u, i), Fresh(v, j)
    PROVE  Fresh(u + v, i + j)
<1>1. ASSUME i + j = 0 PROVE u + v = 0
  BY <1>1 DEF Fresh
<1>2. ASSUME i + j = 1 PROVE u + v <= Timeout
  <2>1. (i = 0 /\ j = 1) \/ (i = 1 /\ j = 0)
    BY <1>2
  <2>2. CASE i = 0 /\ j = 1
    <3>1. u = 0 /\ v <= Timeout
      BY <2>2 DEF Fresh
    <3> QED
      BY <3>1, Bounds
  <2>3. CASE i = 1 /\ j = 0
    <3>1. u <= Timeout /\ v = 0
      BY <2>3 DEF Fresh
    <3> QED
      BY <3>1, Bounds
  <2> QED
    BY <2>1, <2>2, <2>3
<1> QED
  BY <1>1, <1>2 DEF Fresh

LEMMA WaitsFresh ==
    ASSUME NEW u \in Waits, NEW v \in Waits, NEW w \in Waits
    PROVE  /\ Fresh(u + v, Stall(u) + Stall(v))
           /\ Fresh(u + v + w, Stall(u) + Stall(v) + Stall(w))
<1>1. \A x \in Waits : x \in Nat /\ Stall(x) \in Nat /\ Fresh(x, Stall(x))
  BY WaitTimes DEF Fresh
<1>2. Fresh(u + v, Stall(u) + Stall(v))
  BY <1>1, SumFresh
<1>3. u + v \in Nat /\ Stall(u) + Stall(v) \in Nat
  BY WaitSums
<1> QED
  BY <1>1, <1>2, <1>3, SumFresh

\* The age and the stalls after a wait that is itself fresh.
LEMMA WaitedFresh ==
    ASSUME TypeOK, NEW r \in Reqs, NEW w \in Nat, NEW n \in Nat, Waited(r, w, n),
           Fresh(age[r], stalls[r]), Fresh(w, n)
    PROVE  /\ Fresh(age'[r], stalls'[r])
           /\ Timeout < ServiceTtl /\ Older(r, w) = ServiceTtl => stalls'[r] = 2
<1>1. age[r] \in Nat /\ stalls[r] \in Nat /\ ServiceTtl \in Nat /\ Timeout \in Nat
  BY Bounds DEF TypeOK
<1>2. Fresh(age[r] + w, stalls[r] + n)
  BY <1>1, SumFresh
<1>3. age'[r] = Older(r, w) /\ stalls'[r] = Most(stalls[r] + n)
  BY DEF Waited, TypeOK
<1>4. \/ stalls'[r] = 2
      \/ stalls'[r] = stalls[r] + n /\ stalls[r] + n \in {0, 1}
  BY <1>1, <1>3 DEF Most
<1>5. Older(r, w) \in Nat /\ Older(r, w) <= age[r] + w
  BY <1>1 DEF Older
<1>6. ASSUME stalls'[r] # 2
      PROVE  Fresh(age'[r], stalls'[r]) /\ (Timeout < ServiceTtl => Older(r, w) # ServiceTtl)
  <2>1. stalls'[r] = stalls[r] + n
    BY <1>4, <1>6
  <2>2. CASE stalls[r] + n = 0
    <3>1. age[r] + w = 0
      BY <1>2, <2>2 DEF Fresh
    <3>2. Older(r, w) = 0
      BY <1>5, <3>1
    <3> QED
      BY <1>1, <1>3, <2>1, <2>2, <3>2 DEF Fresh
  <2>3. CASE stalls[r] + n = 1
    <3>1. age[r] + w <= Timeout
      BY <1>2, <2>3 DEF Fresh
    <3>2. Older(r, w) <= Timeout
      BY <1>1, <1>5, <3>1
    <3> QED
      BY <1>1, <1>3, <1>5, <2>1, <2>3, <3>2 DEF Fresh
  <2> QED
    BY <1>4, <1>6, <2>2, <2>3
<1> QED
  BY <1>6 DEF Fresh

LEMMA TwoWaitsFresh ==
    ASSUME TypeOK, NEW r \in Reqs, TwoWaits(r), Fresh(age[r], stalls[r])
    PROVE  Fresh(age'[r], stalls'[r])
<1>1. PICK v \in Waits, w \in Waits : Waited(r, v + w, Stall(v) + Stall(w))
  BY DEF TwoWaits
<1>2. v + w \in Nat /\ Stall(v) + Stall(w) \in Nat /\ Fresh(v + w, Stall(v) + Stall(w))
  BY WaitSums, WaitsFresh
<1> QED
  BY <1>1, <1>2, WaitedFresh

LEMMA FreshReceive ==
    ASSUME TypeOK, Timeout < ServiceTtl, NEW r \in Reqs, FreshAt(r), Receive(r)
    PROVE  FreshAt(r)'
<1>1. /\ pc[r] = "connected" /\ kind'[r] = kind[r]
      /\ pc'[r] \in {"upstream", "401 expired"}
  BY ReceiveEffect
<1>2. PICK h \in Waits, b \in Waits, a \in Waits :
         /\ Waited(r, h + b + a, Stall(h) + Stall(b) + Stall(a))
         /\ pc'[r] = "401 expired" => Older(r, h + b + a) = ServiceTtl
  BY DEF Receive, Expired, Goto, TypeOK
<1>3. /\ h + b + a \in Nat /\ Stall(h) + Stall(b) + Stall(a) \in Nat
      /\ Fresh(h + b + a, Stall(h) + Stall(b) + Stall(a))
  BY WaitSums, WaitsFresh
<1>4. CASE kind[r].pace = "slow"
  BY <1>1, <1>4 DEF FreshAt, Forwarding, Early
<1>5. CASE kind[r].pace # "slow"
  <2>1. Fresh(age[r], stalls[r])
    BY <1>1, <1>5 DEF FreshAt, Fresh, Forwarding
  <2>2. /\ Fresh(age'[r], stalls'[r])
        /\ pc'[r] = "401 expired" => stalls'[r] = 2
    BY <1>2, <1>3, <2>1, WaitedFresh
  <2> QED
    BY <1>1, <2>2 DEF FreshAt, Fresh, Early
<1> QED
  BY <1>4, <1>5

LEMMA FreshStep ==
    ASSUME TypeOK, Timeout < ServiceTtl, NEW r \in Reqs, FreshAt(r), StepOf(r)
    PROVE  FreshAt(r)'
<1> USE DEF TypeOK, Forwarding, Early, Goto
<1>1. CASE Incr(r) \/ SetTtl(r) \/ RedisRaises(r)
  BY <1>1 DEF Incr, SetTtl, RedisRaises, Compare, Return, Limiting, FreshAt
<1>2. CASE Authenticate(r)
  <2>1. pc[r] = "auth" /\ stalls'[r] = stalls[r] /\ pc'[r] \in {"route", "401"} /\ age'[r] = 0
    BY <1>2 DEF Authenticate, Mint
  <2> QED
    BY <2>1 DEF FreshAt
<1>3. CASE Route(r)
  <2>1. age[r] = 0 /\ stalls'[r] = 0 /\ kind'[r] = kind[r]
    BY <1>3 DEF Route, FreshAt
  <2>2. kind[r].pace # "slow" => age'[r] = 0
    BY <1>3, <2>1 DEF Route
  <2>3. pc'[r] \in {"local", "502 unrouted", "send"}
    BY <1>3 DEF Route
  <2> QED
    <3> HIDE DEF TypeOK
    <3>1. pc'[r] \notin Early /\ pc'[r] # "401 expired"
      BY <2>3 DEF Early
    <3>2. stalls'[r] # 1
      BY <2>1
    <3> QED
      BY <2>1, <2>2, <3>1, <3>2 DEF FreshAt, Early
<1>4. CASE Connect(r) \/ ConnectFails(r) \/ Reply(r)
  <2>1. /\ pc[r] \in Forwarding /\ kind'[r] = kind[r] /\ pc'[r] \notin Early
        /\ pc'[r] # "401 expired"
        /\ pc'[r] \in Forwarding => TwoWaits(r)
    BY <1>4 DEF Connect, ConnectFails, Reply, GiveUpOrWait, Sending
  <2>2. Fresh(age[r], stalls[r]) /\ TwoWaits(r) => Fresh(age'[r], stalls'[r])
    BY TwoWaitsFresh
  <2> QED
    BY <2>1, <2>2 DEF FreshAt, Fresh
<1>5. CASE Receive(r)
  BY <1>5, FreshReceive
<1>6. CASE Breaks(r)
  BY <1>6 DEF Breaks, FreshAt
<1>7. CASE Retry(r)
  BY <1>7 DEF Retry, FreshAt
<1>8. CASE \E k \in Kinds : Arrive(r, k)
  BY <1>8 DEF Arrive, FreshAt
<1> QED
  BY <1>1, <1>2, <1>3, <1>4, <1>5, <1>6, <1>7, <1>8 DEF StepOf, Serve, Forward

\* With a timeout shorter than the life of a service token, a request is refused
\* for the age of its token only if its client is slow or two phases of the calls
\* made for it took time: a single wait for a connection, for the upstream to
\* read, or for its reply never is enough, in whichever attempt.
THEOREM ExpiredWhenLate ==
    ASSUME Timeout < ServiceTtl
    PROVE  Spec => []ExpiredOnlyWhenLate
<1> DEFINE Inv == \A r \in Reqs : FreshAt(r)
<1>1. Init => Inv
  BY DEF Init, FreshAt, Forwarding, Early
<1>2. TypeOK /\ Inv /\ [Next]_vars => Inv'
  <2> SUFFICES ASSUME TypeOK, Inv, [Next]_vars, NEW q \in Reqs
               PROVE  FreshAt(q)'
    OBVIOUS
  <2>1. CASE Idle
    BY <2>1 DEF Idle, FreshAt
  <2>2. CASE Crash
    BY <2>2 DEF Crash, TypeOK, Stages, Forwarding, Early, FreshAt
  <2>3. ASSUME NEW r \in Reqs, StepOf(r) PROVE FreshAt(q)'
    <3>1. CASE q = r
      BY <2>3, <3>1, FreshStep
    <3>2. CASE q # r
      <4>1. /\ pc'[q] = pc[q] /\ kind'[q] = kind[q]
            /\ age'[q] = age[q] /\ stalls'[q] = stalls[q]
        BY <2>3, <3>2, Alone DEF Frame
      <4> QED
        BY <4>1 DEF FreshAt, Early, Forwarding
    <3> QED
      BY <3>1, <3>2
  <2> QED
    BY <2>1, <2>2, <2>3, NextCases
<1>3. Inv => ExpiredOnlyWhenLate
  BY DEF FreshAt, ExpiredOnlyWhenLate
<1> QED
  BY <1>1, <1>2, <1>3, TypeCorrect, PTL DEF Spec

-----------------------------------------------------------------------------
\* No request that is delayed by MaxDelay or less increments the counter of w
\* from this time on.
ClosedAt(w) == w * Window + Window + MaxDelay

\* Requests that are being limited are not late.
Punctual ==
    \A r \in Reqs :
        /\ pc[r] \in {"incr", "expire"} => since[r] <= now
        /\ pc[r] = "incr" => now <= since[r] + MaxDelay

\* Until its window is closed, a counter has counted all it has let through, and
\* it cannot expire before.
LimitedAt(w) ==
    /\ admitted[w] <= Limit
    /\ now < ClosedAt(w) => admitted[w] <= count[w]
    /\ expiry[w] # 0 => ClosedAt(w) <= expiry[w]

LEMMA StillOpen ==
    ASSUME TypeOK, Punctual, NEW r \in Reqs, pc[r] = "incr"
    PROVE  now < ClosedAt(WindowOf(r))
<1>1. since[r] \in Nat /\ now \in Nat /\ now <= since[r] + MaxDelay
  BY Bounds DEF TypeOK, RL!TypeOK, Punctual
<1> DEFINE p == (since[r] \div Window) * Window
<1>2. since[r] < p + Window
  BY <1>1, DivisionBounds
<1>3. p \in Nat
  BY <1>1, DivisionBounds
<1> HIDE DEF p
<1>4. now < p + Window + MaxDelay
  BY <1>1, <1>2, <1>3, Bounds
<1> QED
  BY <1>4 DEF ClosedAt, WindowOf, RL!WindowOf, p

LEMMA TtlIsLater ==
    ASSUME TypeOK, Punctual, NEW r \in Reqs, pc[r] = "expire"
    PROVE  ClosedAt(WindowOf(r)) <= now + Ttl
<1>1. since[r] \in Nat /\ now \in Nat /\ since[r] <= now
  BY Bounds DEF TypeOK, RL!TypeOK, Punctual
<1> DEFINE p == (since[r] \div Window) * Window
<1>2. p <= since[r]
  BY <1>1, DivisionBounds
<1>3. p \in Nat
  BY <1>1, DivisionBounds
<1> HIDE DEF p
<1>4. p + Window + MaxDelay <= now + Ttl
  BY <1>1, <1>2, <1>3, Bounds
<1> QED
  BY <1>4 DEF ClosedAt, WindowOf, RL!WindowOf, p

LEMMA PunctualStep ==
    ASSUME TypeOK, Punctual, [Next]_vars
    PROVE  Punctual'
<1> USE DEF TypeOK, RL!TypeOK, Punctual, Goto, limitVars
<1>1. CASE Tick
  BY <1>1, Bounds DEF Tick, RL!Tick, reqVars
<1>2. CASE Crash
  BY <1>2 DEF Crash, Stages, Forwarding
<1>3. ASSUME NEW r \in Reqs, NEW k \in Kinds, Arrive(r, k) PROVE Punctual'
  BY <1>3, Bounds DEF Arrive
<1>4. ASSUME NEW r \in Reqs, Incr(r) \/ SetTtl(r) \/ RedisRaises(r) PROVE Punctual'
  BY <1>4, Bounds
  DEF Incr, SetTtl, RedisRaises, Compare, Return, RL!Incr, RL!Expire
<1>5. ASSUME NEW r \in Reqs, Authenticate(r) \/ Route(r) PROVE Punctual'
  <2>1. CASE Authenticate(r)
    BY <2>1 DEF Authenticate
  <2>2. CASE Route(r)
    BY <2>2 DEF Route
  <2> QED
    BY <1>5, <2>1, <2>2
<1>6. ASSUME NEW r \in Reqs, Connect(r) \/ ConnectFails(r) \/ Reply(r) PROVE Punctual'
  BY <1>6 DEF Connect, ConnectFails, Reply, GiveUpOrWait, Sending
<1>7. ASSUME NEW r \in Reqs, Receive(r) \/ Breaks(r) \/ Retry(r) PROVE Punctual'
  <2>1. CASE Receive(r)
    BY <2>1 DEF Receive, Sending
  <2>2. CASE Breaks(r)
    BY <2>2 DEF Breaks, Sending
  <2>3. CASE Retry(r)
    BY <2>3 DEF Retry
  <2> QED
    BY <1>7, <2>1, <2>2, <2>3
<1>8. CASE UNCHANGED vars
  BY <1>8 DEF vars, reqVars
<1> QED
  BY <1>1, <1>2, <1>3, <1>4, <1>5, <1>6, <1>7, <1>8 DEF Next, Serve, Forward

\* The numbers a window is compared with.
LEMMA CounterType ==
    ASSUME TypeOK, NEW w \in Windows
    PROVE  /\ admitted[w] \in Nat /\ count[w] \in Nat /\ expiry[w] \in Nat
           /\ w \in Nat /\ ClosedAt(w) \in Nat /\ now \in Nat
<1>1. w \in Nat
  BY Bounds, DivisionBounds DEF Windows
<1>2. w * Window \in Nat
  BY <1>1, Bounds
<1> QED
  BY <1>1, <1>2, Bounds DEF TypeOK, RL!TypeOK, ClosedAt

LEMMA TickLimited ==
    ASSUME TypeOK, Tick, NEW w \in Windows, LimitedAt(w)
    PROVE  LimitedAt(w)'
<1>1. ClosedAt(w)' = ClosedAt(w) /\ admitted'[w] = admitted[w] /\ now' = now + 1
  BY DEF Tick, RL!Tick, ClosedAt
<1>2. CASE expiry[w] # 0 /\ expiry[w] <= now + 1
  <2>1. expiry'[w] = 0
    BY <1>2 DEF Tick, RL!Tick
  <2>2. ~(now' < ClosedAt(w))
    BY <1>1, <1>2, CounterType DEF LimitedAt
  <2> QED
    BY <1>1, <2>1, <2>2 DEF LimitedAt
<1>3. CASE ~(expiry[w] # 0 /\ expiry[w] <= now + 1)
  <2>1. count'[w] = count[w] /\ expiry'[w] = expiry[w]
    BY <1>3 DEF Tick, RL!Tick
  <2>2. now' < ClosedAt(w) => now < ClosedAt(w)
    BY <1>1, CounterType
  <2> QED
    BY <1>1, <2>1, <2>2 DEF LimitedAt
<1> QED
  BY <1>2, <1>3

\* The three commands on the counter of the window w.
LEMMA IncrLimited ==
    ASSUME TypeOK, NEW w \in Windows, LimitedAt(w), now < ClosedAt(w), RL!Incr(w),
           \/ admitted' = admitted
           \/ admitted' = [admitted EXCEPT ![w] = @ + 1] /\ ~RL!Exceeded(count'[w])
    PROVE  LimitedAt(w)'
<1>1. /\ admitted[w] \in Nat /\ count[w] \in Nat /\ Limit \in Nat
      /\ admitted[w] <= count[w] /\ admitted[w] <= Limit
  BY CounterType, Bounds DEF LimitedAt
<1>2. /\ count'[w] = count[w] + 1 /\ expiry' = expiry
      /\ now' = now /\ ClosedAt(w)' = ClosedAt(w)
  BY DEF RL!Incr, ClosedAt, TypeOK, RL!TypeOK
<1>3. admitted'[w] <= Limit /\ admitted'[w] <= count'[w]
  <2>1. CASE admitted' = admitted
    BY <1>1, <1>2, <2>1
  <2>2. CASE admitted' = [admitted EXCEPT ![w] = @ + 1] /\ ~RL!Exceeded(count'[w])
    <3>1. admitted'[w] = admitted[w] + 1 /\ ~(count[w] + 1 > Limit)
      BY <1>2, <2>2 DEF RL!Exceeded, TypeOK
    <3> QED
      BY <1>1, <1>2, <3>1
  <2> QED
    BY <2>1, <2>2
<1> QED
  BY <1>2, <1>3 DEF LimitedAt

LEMMA ExpireLimited ==
    ASSUME TypeOK, NEW w \in Windows, LimitedAt(w), ClosedAt(w) <= now + Ttl,
           RL!Expire(w), admitted' = admitted
    PROVE  LimitedAt(w)'
<1>1. /\ count' = count /\ now' = now /\ ClosedAt(w)' = ClosedAt(w)
      /\ expiry'[w] \in {0, now + Ttl}
  BY DEF RL!Expire, ClosedAt, TypeOK, RL!TypeOK
<1> QED
  BY <1>1 DEF LimitedAt

LEMMA LimiterLimited ==
    ASSUME TypeOK, Punctual, NEW r \in Reqs, Incr(r) \/ SetTtl(r) \/ RedisRaises(r),
           NEW w \in Windows, LimitedAt(w)
    PROVE  LimitedAt(w)'
<1>1. CASE w # WindowOf(r)
  <2>1. /\ admitted'[w] = admitted[w] /\ count'[w] = count[w]
        /\ expiry'[w] = expiry[w] /\ now' = now
    BY <1>1 DEF Incr, SetTtl, RedisRaises, Compare, Admit, RL!Incr, RL!Expire,
                TypeOK, RL!TypeOK, limitVars
  <2> QED
    BY <2>1 DEF LimitedAt, ClosedAt
<1>2. CASE w = WindowOf(r)
  <2>1. pc[r] = "incr" => now < ClosedAt(w)
    BY <1>2, StillOpen
  <2>2. pc[r] = "expire" => ClosedAt(w) <= now + Ttl
    BY <1>2, TtlIsLater
  <2>3. CASE Incr(r)
    BY <1>2, <2>1, <2>3, IncrLimited DEF Incr, Compare, Admit
  <2>4. CASE SetTtl(r)
    BY <1>2, <2>2, <2>4, ExpireLimited DEF SetTtl
  <2>5. CASE RedisRaises(r)
    <3>1. admitted' = admitted
      BY <2>5 DEF RedisRaises
    <3>2. CASE UNCHANGED limitVars
      BY <3>1, <3>2 DEF limitVars, LimitedAt, ClosedAt
    <3>3. CASE pc[r] = "incr" /\ RL!Incr(w)
      BY <2>1, <3>1, <3>3, IncrLimited
    <3>4. CASE pc[r] = "expire" /\ RL!Expire(w)
      BY <2>2, <3>1, <3>4, ExpireLimited
    <3> QED
      BY <1>2, <2>5, <3>2, <3>3, <3>4 DEF RedisRaises
  <2> QED
    BY <2>3, <2>4, <2>5
<1> QED
  BY <1>1, <1>2

\* No more than Limit requests are let through in a window, with any number of
\* requests at once, any errors of Redis, and deaths of the process: because the
\* counter lives until no request can be counted in its window any more, which
\* takes Window + MaxDelay <= Ttl.
THEOREM LimitHolds == Spec => []WindowLimit
<1> DEFINE Inv == Punctual /\ \A w \in Windows : LimitedAt(w)
<1>1. Init => Inv
  <2> SUFFICES ASSUME Init PROVE Inv
    OBVIOUS
  <2>1. Punctual
    BY DEF Init, Punctual
  <2>2. ASSUME NEW w \in Windows PROVE LimitedAt(w)
    <3>1. admitted[w] = 0 /\ count[w] = 0 /\ expiry[w] = 0
      BY DEF Init, RL!Init
    <3>2. 0 <= Limit /\ 0 <= 0
      BY Bounds
    <3> QED
      BY <3>1, <3>2 DEF LimitedAt
  <2> QED
    BY <2>1, <2>2
<1>2. TypeOK /\ Inv /\ [Next]_vars => Inv'
  <2> SUFFICES ASSUME TypeOK, Inv, [Next]_vars, NEW w \in Windows PROVE LimitedAt(w)'
    BY PunctualStep
  <2>1. CASE Tick
    BY <2>1, TickLimited
  <2>2. ASSUME NEW r \in Reqs, Incr(r) \/ SetTtl(r) \/ RedisRaises(r)
        PROVE  LimitedAt(w)'
    BY <2>2, LimiterLimited
  <2>3. CASE UNCHANGED <<limitVars, admitted>>
    BY <2>3 DEF limitVars, LimitedAt, ClosedAt
  <2>4. ASSUME NEW r \in Reqs,
               \/ Authenticate(r) \/ Route(r) \/ Forward(r)
               \/ \E k \in Kinds : Arrive(r, k)
        PROVE  UNCHANGED <<limitVars, admitted>>
    BY <2>4 DEF Authenticate, Route, Forward, Connect, ConnectFails, Receive, Reply,
                Breaks, Retry, Arrive, Sending
  <2>5. CASE Crash \/ UNCHANGED vars
    BY <2>3, <2>5 DEF Crash, vars
  <2> QED
    BY <2>1, <2>2, <2>3, <2>4, <2>5 DEF Next, Serve, Forward
<1>3. Inv => WindowLimit
  BY DEF LimitedAt, WindowLimit
<1> QED
  BY <1>1, <1>2, <1>3, TypeCorrect, PTL DEF Spec

-----------------------------------------------------------------------------
(* Counters that never expire. *)

\* Some request is about to give the counter its TTL.
Expiring(w) == \E r \in Reqs : pc[r] = "expire" /\ WindowOf(r) = w

LEMMA LeakedFinite ==
    /\ IsFiniteSet(Windows) /\ IsFiniteSet(Leaked) /\ Cardinality(Leaked) \in Nat
    /\ IsFiniteSet(Leaked') /\ Cardinality(Leaked') \in Nat
    /\ Cardinality(Reqs) \in Nat
<1>1. MaxTime \div Window \in Nat
  BY Bounds, DivisionBounds
<1>2. IsFiniteSet(Windows)
  BY <1>1, FS_Interval DEF Windows
<1>3. Leaked \subseteq Windows /\ Leaked' \subseteq Windows
  BY DEF Leaked
<1> QED
  BY <1>2, <1>3, FS_Subset, FS_CardinalityType, GatewayAssumption

\* A step after which every counter without a TTL has one as before, or is at
\* zero, or waits for its EXPIRE as before.
LEMMA LeakedKept ==
    ASSUME NEW X,
           \A w \in Windows \ X : count'[w] > 0 /\ expiry'[w] = 0 =>
               \/ count[w] > 0 /\ expiry[w] = 0 /\ (Expiring(w) => Expiring(w)')
               \/ Expiring(w)'
    PROVE  Leaked' \subseteq Leaked \cup X
BY DEF Leaked, Expiring

\* The limiter's steps for request r leave the other windows alone.
LEMMA OtherWindows ==
    ASSUME TypeOK, NEW r \in Reqs, NEW w \in Windows,
           pc[r] = "expire" => w # WindowOf(r),
           \A q \in Reqs \ {r} : pc'[q] = pc[q] /\ since'[q] = since[q]
    PROVE  Expiring(w) => Expiring(w)'
BY DEF Expiring, WindowOf, RL!WindowOf

LEMMA LimiterLeaks ==
    ASSUME TypeOK, NEW r \in Reqs, Incr(r) \/ SetTtl(r) \/ RedisRaises(r)
    PROVE  Leaked' \subseteq Leaked \cup (IF RedisRaises(r) THEN {WindowOf(r)} ELSE {})
<1>1. PICK w \in Windows : w = WindowOf(r)
  BY RequestWindow
<1>2. \A q \in Reqs \ {r} : pc'[q] = pc[q] /\ since'[q] = since[q]
  BY DEF Incr, SetTtl, RedisRaises, Compare, Return, Goto, TypeOK
<1>3. \A v \in Windows \ {w} : /\ count'[v] = count[v] /\ expiry'[v] = expiry[v]
                               /\ Expiring(v) => Expiring(v)'
  <2>1. \A v \in Windows \ {w} : count'[v] = count[v] /\ expiry'[v] = expiry[v]
    BY <1>1 DEF Incr, SetTtl, RedisRaises, RL!Incr, RL!Expire, limitVars, TypeOK, RL!TypeOK
  <2> QED
    BY <1>1, <1>2, <2>1, OtherWindows
<1>4. CASE RedisRaises(r)
  <2>1. Leaked' \subseteq Leaked \cup {w}
    BY <1>3, LeakedKept
  <2> QED
    BY <1>1, <1>4, <2>1
<1>5. CASE Incr(r)
  <2>1. pc[r] = "incr" /\ expiry' = expiry /\ count'[w] = count[w] + 1 /\ count[w] \in Nat
    BY <1>1, <1>5 DEF Incr, RL!Incr, TypeOK, RL!TypeOK
  <2>2. Expiring(w) => Expiring(w)'
    BY <1>2, <2>1, OtherWindows
  <2>3. count[w] = 0 => Expiring(w)'
    <3>1. count[w] = 0 => ~RL!Exceeded(count'[w])
      BY <2>1, GatewayAssumption DEF RL!Exceeded
    <3>2. count[w] = 0 => pc'[r] = "expire" /\ since' = since
      BY <1>1, <1>5, <2>1, <3>1 DEF Incr, Compare, Goto, TypeOK
    <3> QED
      BY <1>1, <3>2 DEF Expiring, WindowOf, RL!WindowOf
  <2>4. Leaked' \subseteq Leaked \cup {}
    BY <1>3, <2>1, <2>2, <2>3, LeakedKept
  <2> QED
    BY <2>4
<1>6. CASE SetTtl(r)
  <2>1. count'[w] > 0 => expiry'[w] # 0
    <3>1. /\ count' = count /\ count[w] \in Nat
          /\ expiry'[w] = IF count[w] = 0 THEN 0 ELSE now + Ttl
      BY <1>1, <1>6 DEF SetTtl, RL!Expire, TypeOK, RL!TypeOK
    <3>2. now + Ttl # 0
      BY Bounds DEF TypeOK, RL!TypeOK
    <3> QED
      BY <3>1, <3>2
  <2>2. Leaked' \subseteq Leaked \cup {}
    BY <1>3, <2>1, LeakedKept
  <2> QED
    BY <2>2
<1> QED
  BY <1>4, <1>5, <1>6

LEMMA LeakStep ==
    ASSUME TypeOK, [Next]_vars
    PROVE  \/ Leaked' \subseteq Leaked /\ UNCHANGED budget
           \/ /\ faults' = faults + 1 /\ crashes' = crashes
              /\ \E w \in Windows : Leaked' \subseteq Leaked \cup {w}
           \/ /\ faults' = faults /\ crashes' = crashes + 1
              /\ Leaked' \subseteq Leaked \cup {WindowOf(r) : r \in Reqs}
<1>1. ASSUME NEW r \in Reqs, Incr(r) \/ SetTtl(r)
      PROVE  Leaked' \subseteq Leaked /\ UNCHANGED budget
  <2>1. ~RedisRaises(r) /\ UNCHANGED budget
    <3>1. UNCHANGED budget /\ faults \in Nat
      BY <1>1, Bounds DEF Incr, SetTtl, TypeOK
    <3> QED
      BY <3>1 DEF RedisRaises, budget
  <2> QED
    BY <1>1, <2>1, LimiterLeaks
<1>2. ASSUME NEW r \in Reqs, RedisRaises(r)
      PROVE  /\ faults' = faults + 1 /\ crashes' = crashes
             /\ \E w \in Windows : Leaked' \subseteq Leaked \cup {w}
  BY <1>2, LimiterLeaks, RequestWindow DEF RedisRaises
<1>3. ASSUME UNCHANGED <<count, expiry, since>>,
             \A r \in Reqs : pc[r] = "expire" => pc'[r] = "expire"
      PROVE  Leaked' \subseteq Leaked
  BY <1>3 DEF Leaked, WindowOf, RL!WindowOf
<1>4. ASSUME NEW r \in Reqs, NEW k \in Kinds, Arrive(r, k)
      PROVE  Leaked' \subseteq Leaked /\ UNCHANGED budget
  <2>1. \A w \in Windows : Expiring(w) => Expiring(w)'
    BY <1>4, OtherWindows DEF Arrive, Goto, TypeOK
  <2> QED
    BY <1>4, <2>1 DEF Arrive, limitVars, Leaked, Expiring
<1>5. ASSUME NEW r \in Reqs, Authenticate(r) \/ Route(r) \/ Forward(r)
      PROVE  Leaked' \subseteq Leaked /\ UNCHANGED budget
  <2>1. UNCHANGED <<count, expiry, since, budget>> /\ pc[r] # "expire"
    BY <1>5 DEF Authenticate, Route, Forward, Connect, ConnectFails, Receive, Reply,
                Breaks, Retry, Sending, limitVars
  <2>2. \A q \in Reqs \ {r} : pc'[q] = pc[q]
    BY <1>5, Alone DEF StepOf, Serve, Frame
  <2> QED
    BY <1>3, <2>1, <2>2
<1>6. CASE Tick
  <2>1. \A w \in Windows : count'[w] > 0 /\ expiry'[w] = 0 => count'[w] = count[w] /\ expiry[w] = 0
    BY <1>6 DEF Tick, RL!Tick
  <2>2. UNCHANGED <<pc, since, budget>>
    BY <1>6 DEF Tick, reqVars
  <2> QED
    BY <2>1, <2>2 DEF Leaked, WindowOf, RL!WindowOf
<1>7. CASE Crash
  <2>1. faults' = faults /\ crashes' = crashes + 1 /\ UNCHANGED <<count, expiry>>
    BY <1>7 DEF Crash, limitVars
  <2>2. Leaked' \subseteq Leaked \cup {WindowOf(r) : r \in Reqs}
    BY <2>1 DEF Leaked
  <2> QED
    BY <2>1, <2>2
<1>8. CASE UNCHANGED vars
  BY <1>3, <1>8 DEF vars, limitVars, reqVars
<1> QED
  BY <1>1, <1>2, <1>4, <1>5, <1>6, <1>7, <1>8 DEF Next, Serve, Forward

\* A death of the process costs a counter for each of its requests at most.
LEMMA CrashLeaks ==
    ASSUME Leaked' \subseteq Leaked \cup {WindowOf(r) : r \in Reqs}
    PROVE  Cardinality(Leaked') <= Cardinality(Leaked) + Cardinality(Reqs)
<1> DEFINE T == {WindowOf(r) : r \in Reqs}
           f == [r \in Reqs |-> WindowOf(r)]
<1>1. f \in Surjection(Reqs, T)
  BY DEF Surjection
<1> HIDE DEF f
<1>2. IsFiniteSet(T) /\ Cardinality(T) <= Cardinality(Reqs) /\ Cardinality(T) \in Nat
  BY <1>1, FS_Surjection, FS_CardinalityType, GatewayAssumption
<1> HIDE DEF T
<1>3. PICK L : L = Leaked /\ IsFiniteSet(L) /\ Cardinality(L) \in Nat
  BY LeakedFinite
<1>4. /\ IsFiniteSet(L \cup T) /\ IsFiniteSet(L \cap T)
      /\ Cardinality(L \cup T) = Cardinality(L) + Cardinality(T) - Cardinality(L \cap T)
  <2>1. IsFiniteSet(L \cap T)
    BY <1>3, FS_Subset
  <2> QED
    BY <1>2, <1>3, <2>1, FS_Union
<1>5. Cardinality(L \cap T) \in Nat
  BY <1>4, FS_CardinalityType
<1>6. Cardinality(Leaked') <= Cardinality(L \cup T)
  BY <1>3, <1>4, FS_Subset DEF T
<1> QED
  BY <1>2, <1>3, <1>4, <1>5, <1>6, LeakedFinite

\* Every counter that Redis keeps for ever was paid for: by an error of Redis,
\* or by a request that died with the process.
THEOREM LeaksAreFew == Spec => []CountersExpire
<1>1. Init => CountersExpire
  <2> SUFFICES ASSUME Init PROVE CountersExpire
    OBVIOUS
  <2>1. Leaked = {} /\ faults = 0 /\ crashes = 0
    BY DEF Init, RL!Init, Leaked
  <2> QED
    BY <2>1, FS_EmptySet, LeakedFinite DEF CountersExpire
<1>2. TypeOK /\ CountersExpire /\ [Next]_vars => CountersExpire'
  <2> SUFFICES ASSUME TypeOK, CountersExpire, [Next]_vars PROVE CountersExpire'
    OBVIOUS
  <2> DEFINE n == Cardinality(Reqs)
             m == Cardinality(Leaked)
  <2>1. n \in Nat /\ m \in Nat /\ faults \in Nat /\ crashes \in Nat /\ Cardinality(Leaked') \in Nat
    BY LeakedFinite, Bounds DEF TypeOK
  <2>2. (crashes + 1) * n = crashes * n + n /\ crashes * n \in Nat
    BY <2>1
  <2>3. m <= faults + crashes * n
    BY DEF CountersExpire
  <2>4. CASE Leaked' \subseteq Leaked /\ UNCHANGED budget
    <3>1. Cardinality(Leaked') <= m
      BY <2>4, LeakedFinite, FS_Subset
    <3> QED
      BY <2>1, <2>2, <2>3, <2>4, <3>1 DEF CountersExpire, budget
  <2>5. ASSUME faults' = faults + 1, crashes' = crashes,
               NEW w \in Windows, Leaked' \subseteq Leaked \cup {w}
        PROVE  CountersExpire'
    <3>1. PICK L : L = Leaked /\ IsFiniteSet(L) /\ Cardinality(L) \in Nat
      BY LeakedFinite
    <3>2. /\ IsFiniteSet(L \cup {w})
          /\ Cardinality(L \cup {w}) = Cardinality(L)
             \/ Cardinality(L \cup {w}) = Cardinality(L) + 1
      BY <3>1, FS_AddElement
    <3>3. Cardinality(Leaked') <= Cardinality(L \cup {w})
      BY <2>5, <3>1, <3>2, FS_Subset
    <3>4. Cardinality(Leaked') <= m + 1
      BY <2>1, <3>1, <3>2, <3>3
    <3> QED
      BY <2>1, <2>2, <2>3, <2>5, <3>4 DEF CountersExpire
  <2>6. CASE /\ faults' = faults /\ crashes' = crashes + 1
             /\ Leaked' \subseteq Leaked \cup {WindowOf(r) : r \in Reqs}
    <3>1. Cardinality(Leaked') <= m + n
      BY <2>6, CrashLeaks
    <3> QED
      BY <2>1, <2>2, <2>3, <2>6, <3>1 DEF CountersExpire
  <2> QED
    BY <2>4, <2>5, <2>6, LeakStep
<1> QED
  BY <1>1, <1>2, TypeCorrect, PTL DEF Spec

=============================================================================
