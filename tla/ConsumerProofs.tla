--------------------------- MODULE ConsumerProofs ---------------------------
(***************************************************************************)
(* Theorems about Consumer, for any processes, groups, types and bounds:   *)
(* that no message is lost and that the loop implements GroupDelivery; and *)
(* for a stream that one process reads, when a message is dead-lettered    *)
(* and how often it can fail.                                              *)
(***************************************************************************)
EXTENDS Consumer, SequenceTheorems, FiniteSetTheorems, TLAPS

\* FirstOf takes the lowest ids: what is below a chosen id is chosen too.
LEMMA FirstOfFacts ==
    ASSUME NEW n \in Nat, NEW S \in SUBSET (1..n), NEW k \in Nat
    PROVE  /\ FirstOf(S, k) \subseteq S
           /\ \A m \in S, x \in FirstOf(S, k) : m <= x => m \in FirstOf(S, k)
<1>1. FirstOf(S, k) \subseteq S
  BY DEF FirstOf
<1>2. ASSUME NEW m \in S, NEW x \in FirstOf(S, k), m <= x
      PROVE  m \in FirstOf(S, k)
  <2> DEFINE A == {y \in S : y <= m}
             B == {y \in S : y <= x}
  <2>1. IsFiniteSet(1..n)
    BY FS_Interval
  <2>2. IsFiniteSet(B) /\ A \subseteq B
    <3>1. B \subseteq 1..n
      OBVIOUS
    <3>2. IsFiniteSet(B)
      BY <2>1, <3>1, FS_Subset
    <3>3. m \in 1..n /\ x \in 1..n /\ \A y \in S : y \in 1..n
      BY <1>1, <1>2
    <3>4. ASSUME NEW y \in S, y <= m PROVE y <= x
      BY <1>2, <3>3, <3>4
    <3>5. A \subseteq B
      BY <3>4
    <3> QED
      BY <3>2, <3>5
  <2>3. Cardinality(A) <= Cardinality(B) /\ Cardinality(A) \in Nat /\ Cardinality(B) \in Nat
    BY <2>2, FS_Subset, FS_CardinalityType
  <2>4. Cardinality(B) <= k
    BY <1>2 DEF FirstOf
  <2>5. Cardinality(A) <= k
    BY <2>3, <2>4
  <2> QED
    BY <2>5 DEF FirstOf
<1> QED
  BY <1>1, <1>2

LEMMA StreamFacts ==
    ASSUME TypeOK
    PROVE  /\ Len(stream) \in Nat /\ Published \subseteq Ids /\ MaxMsgs \in Nat
           /\ \A g \in Groups : Undelivered(g) \subseteq Published
BY LenProperties, ConsumerAssumption DEF TypeOK, Published, Ids, Undelivered

\* A delivery hands the group what comes next in the stream.
LEMMA DeliverFacts ==
    ASSUME TypeOK, NEW g \in Groups, Deliver(g), lastId[g] <= Len(stream)
    PROVE  \E n \in (lastId[g] + 1)..Len(stream) :
              /\ FirstOf(Undelivered(g), Count) = (lastId[g] + 1)..n
              /\ lastId' = [lastId EXCEPT ![g] = n]
              /\ pel' = [pel EXCEPT ![g] = @ \cup ((lastId[g] + 1)..n)]
<1> DEFINE S == FirstOf(Undelivered(g), Count)
<1>1. PICK n \in S : (\A m \in S : m <= n) /\ lastId' = [lastId EXCEPT ![g] = n]
  BY DEF Deliver
<1>2. /\ Len(stream) \in Nat /\ lastId[g] \in Nat
      /\ Undelivered(g) = (lastId[g] + 1)..Len(stream)
  BY StreamFacts DEF TypeOK, Undelivered, Published
<1>3. S \subseteq Undelivered(g) /\ \A m \in Undelivered(g), x \in S : m <= x => m \in S
  <2>1. Undelivered(g) \in SUBSET (1..Len(stream)) /\ Count \in Nat
    BY <1>2, ConsumerAssumption
  <2> QED
    BY <1>2, <2>1, FirstOfFacts
<1>4. n \in (lastId[g] + 1)..Len(stream)
  BY <1>1, <1>2, <1>3
<1>5. S = (lastId[g] + 1)..n
  <2>1. ASSUME NEW m \in S PROVE m \in (lastId[g] + 1)..n
    BY <1>1, <1>2, <1>3, <1>4
  <2>2. ASSUME NEW m \in (lastId[g] + 1)..n PROVE m \in S
    <3>1. m \in Undelivered(g) /\ m <= n
      BY <1>2, <1>4
    <3> QED
      BY <1>3, <3>1
  <2> QED
    BY <2>1, <2>2
<1>6. pel' = [pel EXCEPT ![g] = @ \cup S]
  BY DEF Deliver
<1> QED
  BY <1>1, <1>4, <1>5, <1>6

-----------------------------------------------------------------------------
\* Counting one more for a group and an id.
LEMMA CountedType ==
    ASSUME NEW S, NEW f \in [S -> Nat], NEW m
    PROVE  /\ [f EXCEPT ![m] = @ + 1] \in [S -> Nat]
           /\ [f EXCEPT ![m] = 0] \in [S -> Nat]
<1>1. CASE m \in S
  <2>1. f[m] + 1 \in Nat
    BY <1>1
  <2> QED
    BY <1>1, <2>1
<1>2. CASE m \notin S
  <2>1. [f EXCEPT ![m] = @ + 1] = f /\ [f EXCEPT ![m] = 0] = f
    BY <1>2
  <2> QED
    BY <2>1
<1> QED
  BY <1>1, <1>2

LEMMA CountedForGroup ==
    ASSUME NEW f \in [Groups -> [Ids -> Nat]], NEW g \in Groups, NEW m
    PROVE  [f EXCEPT ![g][m] = @ + 1] \in [Groups -> [Ids -> Nat]]
<1>1. [f[g] EXCEPT ![m] = @ + 1] \in [Ids -> Nat]
  BY CountedType
<1> QED
  BY <1>1

LEMMA TypeStep ==
    ASSUME TypeOK, [Next]_vars
    PROVE  TypeOK'
<1> USE DEF TypeOK, Goto
<1>1. ASSUME NEW t \in Types, Publish(t) PROVE TypeOK'
  <2>1. Append(stream, t) \in Seq(Types) /\ Len(Append(stream, t)) = Len(stream) + 1
    BY AppendProperties
  <2>2. Len(stream) \in Nat /\ MaxMsgs \in Nat
    BY StreamFacts
  <2> QED
    BY <1>1, <2>1, <2>2 DEF Publish, threadVars, ghostVars
<1>2. ASSUME NEW p \in Procs, Start(p) \/ HistoryDone(p) PROVE TypeOK'
  BY <1>2 DEF Start, HistoryDone, redisVars, ghostVars, Places
<1>3. ASSUME NEW p \in Procs, Kill(p) PROVE TypeOK'
  BY <1>3, ConsumerAssumption DEF Kill, redisVars, ghostVars, Places
<1>4. ASSUME NEW p \in Procs, EnsureGroup(p) PROVE TypeOK'
  BY <1>4, ConsumerAssumption DEF EnsureGroup, MakeGroup, ghostVars, Places
<1>5. ASSUME NEW p \in Procs, ReadHistory(p) PROVE TypeOK'
  BY <1>5, ConsumerAssumption DEF ReadHistory, FirstOf, redisVars, ghostVars
<1>6. ASSUME NEW g \in Groups, Deliver(g)
      PROVE  /\ lastId' \in [Groups -> Nat] /\ pel' \in [Groups -> SUBSET Ids]
             /\ FirstOf(Undelivered(g), Count) \subseteq Ids
  <2>1. FirstOf(Undelivered(g), Count) \subseteq Ids
    BY StreamFacts DEF FirstOf
  <2>2. Ids \subseteq Nat
    BY DEF Ids
  <2> QED
    BY <1>6, <2>1, <2>2 DEF Deliver
<1>7. ASSUME NEW p \in Procs, ReadNew(p) PROVE TypeOK'
  BY <1>6, <1>7, ConsumerAssumption DEF ReadNew, ghostVars
<1>8. ASSUME NEW p \in Procs, NEW m \in batch[p], Take(p, m)
      PROVE  cur' \in [Procs -> Ids \cup {0}] /\ batch' \in [Procs -> SUBSET Ids]
  BY <1>8 DEF Take
<1>9. ASSUME NEW p \in Procs, NEW m, Failed(p, m)
      PROVE  raised' \in [Groups -> [Ids -> Nat]] /\ pc' \in [Procs -> Places]
  BY <1>9, CountedForGroup, ConsumerAssumption DEF Failed, Places
<1>19. ASSUME NEW p \in Procs, NoHandler(p) PROVE TypeOK'
  BY <1>8, <1>19 DEF NoHandler, redisVars, ghostVars, Places
<1>20. ASSUME NEW p \in Procs, HandlerReturns(p) PROVE TypeOK'
  <2>1. PICK m \in batch[p] :
          /\ Take(p, m) /\ pc' = [pc EXCEPT ![p] = "ack"]
          /\ handled' = [handled EXCEPT ![GroupOf[p]] = @ \cup {m}]
          /\ UNCHANGED <<redisVars, startId, raised, faults, crashes>>
    BY <1>20 DEF HandlerReturns
  <2>2. handled \in [Groups -> SUBSET Ids] /\ m \in Ids
    OBVIOUS
  <2>3. handled' \in [Groups -> SUBSET Ids]
    <3> HIDE DEF TypeOK
    <3> QED
      BY <2>1, <2>2
  <2> QED
    BY <1>8, <2>1, <2>3 DEF redisVars, Places
<1>10. ASSUME NEW p \in Procs, HandlerRaises(p) PROVE TypeOK'
  <2>1. PICK m \in batch[p] :
          /\ Take(p, m) /\ Failed(p, m)
          /\ UNCHANGED <<redisVars, startId, handled, crashes>>
          /\ UNCHANGED faults \/ Fault
    BY <1>10 DEF HandlerRaises, Fault
  <2>2. faults' \in 0..MaxFaults
    BY <2>1, ConsumerAssumption DEF Fault
  <2>3. /\ raised' \in [Groups -> [Ids -> Nat]] /\ pc' \in [Procs -> Places]
        /\ cur' \in [Procs -> Ids \cup {0}] /\ batch' \in [Procs -> SUBSET Ids]
    BY <1>8, <1>9, <2>1
  <2> QED
    BY <2>1, <2>2, <2>3 DEF redisVars
<1>11. ASSUME NEW p \in Procs
       PROVE  /\ XAck(p) => pel' \in [Groups -> SUBSET Ids]
              /\ HDel(p) => deliveries' \in [Ids -> Nat]
              /\ HIncrBy(p) => deliveries' \in [Ids -> Nat]
              /\ XAddDlq(p) => dlq' \in [Groups -> [Ids -> Nat]]
  <2>1. /\ GroupOf[p] \in Groups /\ dlq \in [Groups -> [Ids -> Nat]]
        /\ deliveries \in [Ids -> Nat] /\ pel \in [Groups -> SUBSET Ids]
    BY ConsumerAssumption
  <2> HIDE DEF TypeOK
  <2>2. [dlq EXCEPT ![GroupOf[p]][cur[p]] = @ + 1] \in [Groups -> [Ids -> Nat]]
    BY <2>1, CountedForGroup
  <2>3. /\ [deliveries EXCEPT ![cur[p]] = 0] \in [Ids -> Nat]
        /\ [deliveries EXCEPT ![cur[p]] = @ + 1] \in [Ids -> Nat]
    BY <2>1, CountedType
  <2>4. XAck(p) => pel' \in [Groups -> SUBSET Ids]
    BY <2>1 DEF XAck
  <2> QED
    BY <2>2, <2>3, <2>4 DEF XAddDlq, HDel, HIncrBy
<1>12. ASSUME NEW p \in Procs,
              \/ Ack(p) \/ ClearCounter(p) \/ DeadLetter(p)
              \/ AckDeadLetter(p) \/ ClearDeadLetter(p)
       PROVE  TypeOK'
  BY <1>11, <1>12 DEF Ack, ClearCounter, DeadLetter, AckDeadLetter, ClearDeadLetter,
                      ghostVars, Places
<1>13. ASSUME NEW p \in Procs, CountFailure(p) PROVE TypeOK'
  BY <1>11, <1>13 DEF CountFailure, ghostVars, Places
<1>14. ASSUME Fault PROVE faults' \in 0..MaxFaults
  BY <1>14, ConsumerAssumption DEF Fault
<1>15. ASSUME NEW p \in Procs, FaultInTry(p) PROVE TypeOK'
  BY <1>9, <1>11, <1>14, <1>15 DEF FaultInTry
<1>16. ASSUME NEW p \in Procs, FaultInExcept(p) PROVE TypeOK'
  BY <1>11, <1>14, <1>16 DEF FaultInExcept, ghostVars, Places
<1>17. ASSUME NEW p \in Procs, FaultInLoop(p) PROVE TypeOK'
  BY <1>6, <1>14, <1>17, ConsumerAssumption DEF FaultInLoop, ghostVars, Places
<1>18. CASE UNCHANGED vars
  BY <1>18 DEF vars, redisVars, threadVars, ghostVars
<1> QED
  BY <1>1, <1>2, <1>3, <1>4, <1>5, <1>7, <1>10, <1>12, <1>13, <1>15, <1>16, <1>17,
     <1>18, <1>19, <1>20 DEF Next, Run

LEMMA TypeInit == Init => TypeOK
<1>1. <<>> \in Seq(Types) /\ Len(<<>>) = 0
  BY EmptySeq
<1> QED
  BY <1>1, ConsumerAssumption DEF Init, TypeOK, Places

\* Every variable keeps its type.
THEOREM TypeCorrect == Spec => []TypeOK
BY TypeInit, TypeStep, PTL DEF Spec

-----------------------------------------------------------------------------
(* No message is lost *)

Delivered(g) == 1..lastId[g]
Busy == {"ack", "hdel", "skipAck", "failed", "dlqAdd", "dlqAck", "dlqDel"}

\* What a group has in hand was delivered to it, and what is no longer pending
\* is settled.
GroupOk(g) ==
    /\ lastId[g] <= Len(stream)
    /\ g \notin made => lastId[g] = 0
    /\ pel[g] \subseteq Delivered(g)
    /\ handled[g] \subseteq Delivered(g)
    /\ \A m \in Ids : dlq[g][m] > 0 => m \in Delivered(g)
    /\ \A m \in Delivered(g) : m \in pel[g] \/ Disposed(g, m)

\* A thread works on messages of its group, and acknowledges none that is not
\* settled.
ThreadOk(p) ==
    LET g == GroupOf[p] IN
    /\ pc[p] \in Busy \cup {"run"} => g \in made
    /\ batch[p] \subseteq Delivered(g)
    /\ pc[p] \in Busy => cur[p] \in Delivered(g)
    /\ pc[p] = "ack" => cur[p] \in handled[g]
    /\ pc[p] = "skipAck" => stream[cur[p]] \notin Wanted(g)
    /\ pc[p] = "dlqAck" => dlq[g][cur[p]] > 0

LossInv ==
    /\ TypeOK
    /\ \A g \in Groups : GroupOk(g)
    /\ \A p \in Procs : ThreadOk(p)

\* What a step of a process can do to its group.
Handles1(g) == \E m \in Delivered(g) :
    handled' = [handled EXCEPT ![g] = @ \cup {m}] /\ UNCHANGED <<lastId, pel, dlq>>
SetsAside(g) == \E m \in Delivered(g) :
    dlq' = [dlq EXCEPT ![g][m] = @ + 1] /\ UNCHANGED <<lastId, pel, handled>>
Settles(g) == \E m \in Delivered(g) :
    /\ Disposed(g, m)
    /\ pel' = [pel EXCEPT ![g] = @ \ {m}] /\ UNCHANGED <<lastId, dlq, handled>>
Receives(g) == g \in made /\ Deliver(g) /\ UNCHANGED <<dlq, handled>>
Effect(g) ==
    /\ stream' = stream /\ made \subseteq made'
    /\ \/ UNCHANGED <<lastId, pel, dlq, handled>>
       \/ Handles1(g) \/ SetsAside(g) \/ Settles(g) \/ Receives(g)

\* What has become of messages never becomes undone.
LEMMA EffectFacts ==
    ASSUME LossInv, NEW g \in Groups, Effect(g)
    PROVE  \A h \in Groups :
             /\ lastId[h] \in Nat /\ lastId'[h] \in Nat /\ lastId[h] <= lastId'[h]
             /\ Delivered(h) \subseteq Delivered(h)'
             /\ handled[h] \subseteq handled'[h]
             /\ \A m \in Ids : dlq[h][m] > 0 => dlq'[h][m] > 0
             /\ \A m : m \in Ids /\ Disposed(h, m) => Disposed(h, m)'
<1>1. /\ lastId \in [Groups -> Nat] /\ handled \in [Groups -> SUBSET Ids]
      /\ dlq \in [Groups -> [Ids -> Nat]] /\ stream' = stream
  BY DEF LossInv, TypeOK, Effect
<1>2. ASSUME NEW h \in Groups
      PROVE  lastId'[h] \in Nat /\ lastId[h] <= lastId'[h]
  <2>1. CASE UNCHANGED lastId
    BY <1>1, <2>1
  <2>2. CASE Deliver(g)
    <3>1. PICK n \in (lastId[g] + 1)..Len(stream) : lastId' = [lastId EXCEPT ![g] = n]
      BY <2>2, DeliverFacts DEF LossInv, GroupOk
    <3>2. n \in Nat /\ lastId[g] <= n
      BY <1>1, <3>1
    <3> QED
      BY <1>1, <3>1, <3>2
  <2> QED
    BY <2>1, <2>2 DEF Effect, Handles1, SetsAside, Settles, Receives
<1>3. ASSUME NEW h \in Groups PROVE handled[h] \subseteq handled'[h]
  <2>1. UNCHANGED handled \/ \E m : handled' = [handled EXCEPT ![g] = @ \cup {m}]
    BY DEF Effect, Handles1, SetsAside, Settles, Receives
  <2> QED
    BY <1>1, <2>1
<1>4. ASSUME NEW h \in Groups, NEW m \in Ids, dlq[h][m] > 0 PROVE dlq'[h][m] > 0
  <2>1. UNCHANGED dlq \/ \E k : dlq' = [dlq EXCEPT ![g][k] = @ + 1]
    BY DEF Effect, Handles1, SetsAside, Settles, Receives
  <2> QED
    BY <1>1, <1>4, <2>1
<1>5. ASSUME NEW h \in Groups, NEW m \in Ids, Disposed(h, m) PROVE Disposed(h, m)'
  BY <1>1, <1>3, <1>4, <1>5 DEF Disposed
<1>6. \A h \in Groups : Delivered(h) \subseteq Delivered(h)'
  BY <1>1, <1>2 DEF Delivered
<1> QED
  BY <1>1, <1>2, <1>3, <1>4, <1>5, <1>6

\* The parts of GroupOk survive whatever the process of a group does.
LEMMA GroupKept ==
    ASSUME LossInv, NEW g \in Groups, Effect(g)
    PROVE  \A h \in Groups : GroupOk(h)'
<1>1. /\ stream' = stream /\ made \subseteq made' /\ Len(stream) \in Nat /\ MaxMsgs \in Nat
      /\ lastId \in [Groups -> Nat] /\ handled \in [Groups -> SUBSET Ids]
      /\ dlq \in [Groups -> [Ids -> Nat]] /\ pel \in [Groups -> SUBSET Ids]
      /\ Len(stream) <= MaxMsgs
  BY StreamFacts DEF LossInv, TypeOK, Effect
<1>2. ASSUME NEW h \in Groups
      PROVE  /\ GroupOk(h) /\ Delivered(h) \subseteq Delivered(h)'
             /\ \A m \in Ids : Disposed(h, m) => Disposed(h, m)'
             /\ Delivered(h) \subseteq Ids
  <2>1. GroupOk(h)
    BY DEF LossInv
  <2>2. Delivered(h) \subseteq Ids
    <3>1. lastId[h] \in Nat /\ lastId[h] <= MaxMsgs
      BY <1>1, <2>1 DEF GroupOk
    <3> QED
      BY <1>1, <3>1 DEF Delivered, Ids
  <2>3. Delivered(h) \subseteq Delivered(h)' /\ \A m \in Ids : Disposed(h, m) => Disposed(h, m)'
    BY EffectFacts
  <2> QED
    BY <2>1, <2>2, <2>3
<1>3. ASSUME ~Receives(g), NEW h \in Groups PROVE GroupOk(h)'
  <2>1. /\ UNCHANGED lastId
        /\ UNCHANGED pel \/ Settles(g)
        /\ UNCHANGED handled
           \/ \E m \in Delivered(g) : handled' = [handled EXCEPT ![g] = @ \cup {m}]
        /\ UNCHANGED dlq \/ \E m \in Delivered(g) : dlq' = [dlq EXCEPT ![g][m] = @ + 1]
    BY <1>3 DEF Effect, Handles1, SetsAside, Settles
  <2>2. Delivered(h)' = Delivered(h)
    BY <2>1 DEF Delivered
  <2>3. lastId'[h] <= Len(stream') /\ (h \notin made' => lastId'[h] = 0)
    BY <1>1, <1>2, <2>1 DEF GroupOk
  <2>4. pel'[h] \subseteq Delivered(h) /\ \A m \in Delivered(h) : m \in pel'[h] \/ Disposed(h, m)'
    <3>1. CASE UNCHANGED pel
      BY <1>2, <3>1 DEF GroupOk
    <3>2. CASE Settles(g)
      <4>1. PICK m \in Delivered(g) : Disposed(g, m) /\ pel' = [pel EXCEPT ![g] = @ \ {m}]
        BY <3>2 DEF Settles
      <4>2. /\ h # g => pel'[h] = pel[h]
            /\ h = g => pel'[h] = pel[h] \ {m}
        BY <1>1, <4>1
      <4>3. pel'[h] \subseteq Delivered(h)
        BY <1>2, <4>2 DEF GroupOk
      <4>4. ASSUME NEW k \in Delivered(h) PROVE k \in pel'[h] \/ Disposed(h, k)'
        <5>1. k \in Ids /\ (k \in pel[h] \/ Disposed(h, k))
          BY <1>2 DEF GroupOk
        <5> QED
          BY <1>2, <4>1, <4>2, <5>1
      <4> QED
        BY <4>3, <4>4
    <3> QED
      BY <2>1, <3>1, <3>2
  <2>5. handled'[h] \subseteq Delivered(h)
    <3>1. ASSUME NEW m \in Delivered(g), handled' = [handled EXCEPT ![g] = @ \cup {m}]
          PROVE  handled'[h] \subseteq Delivered(h)
      <4>1. /\ h # g => handled'[h] = handled[h]
            /\ h = g => handled'[h] = handled[h] \cup {m}
        BY <1>1, <3>1
      <4> QED
        BY <1>2, <4>1 DEF GroupOk
    <3>2. UNCHANGED handled => handled'[h] \subseteq Delivered(h)
      BY <1>2 DEF GroupOk
    <3> QED
      BY <2>1, <3>1, <3>2
  <2>6. \A m \in Ids : dlq'[h][m] > 0 => m \in Delivered(h)
    <3>1. ASSUME NEW k \in Delivered(g), dlq' = [dlq EXCEPT ![g][k] = @ + 1],
                 NEW m \in Ids, m \notin Delivered(h)
          PROVE  dlq'[h][m] = dlq[h][m]
      <4>1. CASE h = g
        <5>1. m # k
          BY <3>1, <4>1
        <5> QED
          BY <1>1, <3>1, <4>1, <5>1
      <4>2. CASE h # g
        BY <1>1, <3>1, <4>2
      <4> QED
        BY <4>1, <4>2
    <3> QED
      BY <1>2, <2>1, <3>1 DEF GroupOk
  <2> QED
    BY <2>2, <2>3, <2>4, <2>5, <2>6 DEF GroupOk
<1>4. ASSUME Receives(g), NEW h \in Groups PROVE GroupOk(h)'
  <2>1. PICK n \in (lastId[g] + 1)..Len(stream) :
          /\ lastId' = [lastId EXCEPT ![g] = n]
          /\ pel' = [pel EXCEPT ![g] = @ \cup ((lastId[g] + 1)..n)]
    BY <1>2, <1>4, DeliverFacts DEF Receives, LossInv, GroupOk
  <2>2. UNCHANGED <<dlq, handled>> /\ g \in made
    BY <1>4 DEF Receives
  <2>3. n \in Nat /\ n <= Len(stream) /\ lastId[g] \in Nat /\ lastId[g] < n
    BY <1>1, <2>1
  <2>4. /\ lastId'[h] = IF h = g THEN n ELSE lastId[h]
        /\ pel'[h] = IF h = g THEN pel[h] \cup ((lastId[h] + 1)..n) ELSE pel[h]
    BY <1>1, <2>1
  <2>5. Delivered(h)' = IF h = g THEN Delivered(h) \cup ((lastId[h] + 1)..n) ELSE Delivered(h)
    <3>1. CASE h = g
      <4>1. 1..n = (1..lastId[g]) \cup ((lastId[g] + 1)..n)
        BY <2>3
      <4> QED
        BY <2>4, <3>1, <4>1 DEF Delivered
    <3>2. CASE h # g
      BY <2>4, <3>2 DEF Delivered
    <3> QED
      BY <3>1, <3>2
  <2>6. ASSUME NEW m \in Delivered(h)' PROVE m \in pel'[h] \/ Disposed(h, m)'
    <3>1. m \in pel'[h] \/ m \in Delivered(h)
      BY <2>4, <2>5
    <3>2. m \in Delivered(h) => (m \in pel[h] \/ Disposed(h, m)')
      BY <1>2 DEF GroupOk
    <3> QED
      BY <2>4, <3>1, <3>2
  <2>7. lastId'[h] <= Len(stream') /\ (h \notin made' => lastId'[h] = 0)
    BY <1>1, <1>2, <2>2, <2>3, <2>4 DEF GroupOk
  <2>8. pel'[h] \subseteq Delivered(h)'
    BY <1>2, <2>4, <2>5 DEF GroupOk
  <2>9. /\ handled'[h] \subseteq Delivered(h)'
        /\ \A m \in Ids : dlq'[h][m] > 0 => m \in Delivered(h)'
    BY <1>2, <2>2 DEF GroupOk
  <2> QED
    BY <2>6, <2>7, <2>8, <2>9 DEF GroupOk
<1> QED
  BY <1>3, <1>4

\* A step of process p, whatever happens in it.
Step(p) ==
    \/ Start(p) \/ Run(p) \/ Kill(p)
    \/ FaultInTry(p) \/ FaultInExcept(p) \/ FaultInLoop(p)

\* What the commands of _handle do, by the place the thread is at.
LEMMA CommandEffects ==
    ASSUME LossInv, NEW p \in Procs, stream' = stream, made' = made, UNCHANGED <<lastId, handled>>
    PROVE  LET g == GroupOf[p] IN
           /\ pc[p] \in {"ack", "skipAck", "dlqAck"} /\ XAck(p) /\ UNCHANGED dlq => Effect(g)
           /\ pc[p] = "dlqAdd" /\ XAddDlq(p) /\ UNCHANGED pel => Effect(g)
           /\ UNCHANGED <<pel, dlq>> => Effect(g)
<1> DEFINE g == GroupOf[p]
<1>1. ThreadOk(p)
  BY DEF LossInv
<1>2. ASSUME pc[p] \in {"ack", "skipAck", "dlqAck"}, XAck(p), UNCHANGED dlq PROVE Settles(g)
  <2>1. cur[p] \in Delivered(g) /\ Disposed(g, cur[p])
    BY <1>1, <1>2 DEF ThreadOk, Busy, Disposed
  <2> QED
    BY <1>2, <2>1 DEF Settles, XAck
<1>3. ASSUME pc[p] = "dlqAdd", XAddDlq(p), UNCHANGED pel PROVE SetsAside(g)
  <2>1. cur[p] \in Delivered(g)
    BY <1>1, <1>3 DEF ThreadOk, Busy
  <2> QED
    BY <1>3, <2>1 DEF SetsAside, XAddDlq
<1> QED
  BY <1>2, <1>3 DEF Effect

LEMMA Effects ==
    ASSUME LossInv, NEW p \in Procs, Step(p)
    PROVE  Effect(GroupOf[p])
<1> DEFINE g == GroupOf[p]
<1>1. g \in Groups /\ GroupOk(g) /\ ThreadOk(p)
  BY ConsumerAssumption DEF LossInv
<1>2. CASE \/ Start(p) \/ Kill(p) \/ ReadHistory(p) \/ HistoryDone(p) \/ NoHandler(p)
           \/ HandlerRaises(p)
  BY <1>2 DEF Start, Kill, ReadHistory, HistoryDone, NoHandler, HandlerRaises, Effect,
              redisVars, ghostVars
<1>3. CASE EnsureGroup(p)
  <2>1. UNCHANGED lastId
    <3>1. lastId \in [Groups -> Nat] /\ (g \notin made => lastId[g] = 0)
      BY <1>1 DEF LossInv, TypeOK, GroupOk
    <3> QED
      BY <1>1, <1>3, <3>1 DEF EnsureGroup
  <2> QED
    BY <1>3, <2>1 DEF EnsureGroup, MakeGroup, ghostVars, Effect
<1>4. CASE ReadNew(p)
  <2>1. g \in made
    BY <1>1, <1>4 DEF ReadNew, AtRead, ThreadOk
  <2> QED
    BY <1>4, <2>1 DEF ReadNew, ghostVars, Effect, Receives
<1>5. CASE HandlerReturns(p)
  <2>1. PICK m \in batch[p] :
          /\ handled' = [handled EXCEPT ![g] = @ \cup {m}] /\ UNCHANGED redisVars
    BY <1>5 DEF HandlerReturns
  <2>2. m \in Delivered(g)
    BY <1>1, <2>1 DEF ThreadOk
  <2> QED
    BY <2>1, <2>2 DEF redisVars, Effect, Handles1
<1>6. CASE Ack(p) \/ AckDeadLetter(p) \/ DeadLetter(p)
  BY <1>6, CommandEffects DEF Ack, AckDeadLetter, DeadLetter, ghostVars
<1>7. CASE ClearCounter(p) \/ CountFailure(p) \/ ClearDeadLetter(p)
  BY <1>7 DEF ClearCounter, CountFailure, ClearDeadLetter, ghostVars, Effect
<1>8. CASE FaultInTry(p)
  <2>1. /\ stream' = stream /\ made' = made /\ UNCHANGED <<lastId, handled, dlq>>
        /\ UNCHANGED pel \/ (pc[p] \in {"ack", "skipAck"} /\ XAck(p))
    BY <1>8 DEF FaultInTry
  <2> QED
    BY <2>1, CommandEffects
<1>9. CASE FaultInExcept(p)
  <2>1. /\ stream' = stream /\ made' = made /\ UNCHANGED <<lastId, handled>>
        /\ \/ UNCHANGED <<pel, dlq>>
           \/ pc[p] = "dlqAdd" /\ XAddDlq(p) /\ UNCHANGED pel
           \/ pc[p] = "dlqAck" /\ XAck(p) /\ UNCHANGED dlq
    BY <1>9 DEF FaultInExcept, ghostVars
  <2> QED
    BY <2>1, CommandEffects
<1>10. CASE FaultInLoop(p)
  <2>1. /\ stream' = stream /\ made' = made /\ UNCHANGED <<dlq, handled>>
        /\ UNCHANGED <<lastId, pel>> \/ (AtRead(p) /\ Deliver(g))
    BY <1>10 DEF FaultInLoop, ghostVars
  <2>2. AtRead(p) => g \in made
    BY <1>1 DEF AtRead, ThreadOk
  <2> QED
    BY <2>1, <2>2 DEF Effect, Receives
<1> QED
  BY <1>2, <1>3, <1>4, <1>5, <1>6, <1>7, <1>8, <1>9, <1>10 DEF Step, Run

\* A step of one thread leaves every other thread in order.
LEMMA OthersKept ==
    ASSUME LossInv, NEW p \in Procs, Step(p), NEW q \in Procs, q # p
    PROVE  ThreadOk(q)'
<1>1. pc'[q] = pc[q] /\ batch'[q] = batch[q] /\ cur'[q] = cur[q]
  <2>1. /\ pc \in [Procs -> Places] /\ batch \in [Procs -> SUBSET Ids]
        /\ cur \in [Procs -> Ids \cup {0}]
    BY DEF LossInv, TypeOK
  <2>2. CASE Start(p) \/ Kill(p) \/ EnsureGroup(p) \/ ReadHistory(p) \/ HistoryDone(p) \/ ReadNew(p)
    BY <2>1, <2>2 DEF Start, Kill, EnsureGroup, ReadHistory, HistoryDone, ReadNew, Goto
  <2>3. CASE NoHandler(p) \/ HandlerReturns(p) \/ HandlerRaises(p)
    BY <2>1, <2>3 DEF NoHandler, HandlerReturns, HandlerRaises, Take, Failed, Goto
  <2>4. CASE \/ Ack(p) \/ ClearCounter(p) \/ CountFailure(p) \/ DeadLetter(p)
             \/ AckDeadLetter(p) \/ ClearDeadLetter(p)
    BY <2>1, <2>4 DEF Ack, ClearCounter, CountFailure, DeadLetter, AckDeadLetter,
                      ClearDeadLetter, Goto
  <2>5. CASE FaultInTry(p) \/ FaultInExcept(p) \/ FaultInLoop(p)
    BY <2>1, <2>5 DEF FaultInTry, FaultInExcept, FaultInLoop, Failed, Goto
  <2> QED
    BY <2>2, <2>3, <2>4, <2>5 DEF Step, Run
<1>2. ThreadOk(q) /\ GroupOf[q] \in Groups /\ GroupOf[p] \in Groups
  BY ConsumerAssumption DEF LossInv
<1>3. Effect(GroupOf[p])
  BY Effects
<1>4. /\ made \subseteq made' /\ stream' = stream
      /\ Delivered(GroupOf[q]) \subseteq Delivered(GroupOf[q])'
      /\ handled[GroupOf[q]] \subseteq handled'[GroupOf[q]]
      /\ \A m \in Ids : dlq[GroupOf[q]][m] > 0 => dlq'[GroupOf[q]][m] > 0
  BY <1>2, <1>3, EffectFacts DEF Effect
<1>5. cur[q] \in Ids \cup {0} /\ (pc[q] \in Busy => cur[q] # 0)
  BY <1>2 DEF LossInv, TypeOK, ThreadOk, Delivered
<1> QED
  BY <1>1, <1>2, <1>4, <1>5 DEF ThreadOk, Wanted, Busy

\* The thread that takes the step is in order after it.
LEMMA OwnKept ==
    ASSUME LossInv, NEW p \in Procs, Step(p)
    PROVE  ThreadOk(p)'
<1> DEFINE g == GroupOf[p]
<1>1. /\ pc \in [Procs -> Places] /\ batch \in [Procs -> SUBSET Ids]
      /\ cur \in [Procs -> Ids \cup {0}] /\ g \in Groups
      /\ handled \in [Groups -> SUBSET Ids] /\ dlq \in [Groups -> [Ids -> Nat]]
  BY ConsumerAssumption DEF LossInv, TypeOK
<1>2. ThreadOk(p) /\ GroupOk(g)
  BY <1>1 DEF LossInv
<1>3. /\ made \subseteq made' /\ stream' = stream
      /\ Delivered(g) \subseteq Delivered(g)'
      /\ handled[g] \subseteq handled'[g]
      /\ \A m \in Ids : dlq[g][m] > 0 => dlq'[g][m] > 0
  BY <1>1, Effects, EffectFacts DEF Effect
<1>4. CASE Start(p) \/ Kill(p) \/ FaultInExcept(p) \/ FaultInLoop(p)
  <2>1. pc'[p] \in {"ensure", "down", "dead"} /\ batch'[p] \subseteq batch[p]
    BY <1>1, <1>4 DEF Start, Kill, FaultInExcept, FaultInLoop, Goto
  <2> QED
    BY <1>2, <1>3, <2>1 DEF ThreadOk, Busy
<1>5. CASE EnsureGroup(p)
  <2>1. pc'[p] = "run" /\ g \in made' /\ batch'[p] = batch[p]
    BY <1>1, <1>5 DEF EnsureGroup, MakeGroup, Goto
  <2> QED
    BY <1>2, <1>3, <2>1 DEF ThreadOk, Busy
<1>6. CASE ReadHistory(p) \/ HistoryDone(p) \/ ReadNew(p)
  <2>1. pc'[p] = "run" /\ pc[p] = "run"
    BY <1>1, <1>6 DEF ReadHistory, HistoryDone, ReadNew, AtRead
  <2>2. batch'[p] \subseteq Delivered(g)'
    <3>1. CASE ReadHistory(p)
      <4>1. batch'[p] \subseteq pel[g]
        BY <1>1, <3>1 DEF ReadHistory, FirstOf
      <4> QED
        BY <1>2, <1>3, <4>1 DEF GroupOk
    <3>2. CASE HistoryDone(p)
      BY <1>2, <1>3, <3>2 DEF HistoryDone, ThreadOk
    <3>3. CASE ReadNew(p)
      <4>1. PICK n \in (lastId[g] + 1)..Len(stream) :
              /\ FirstOf(Undelivered(g), Count) = (lastId[g] + 1)..n
              /\ lastId' = [lastId EXCEPT ![g] = n]
        BY <1>1, <1>2, <3>3, DeliverFacts DEF ReadNew, LossInv, GroupOk
      <4>2. lastId[g] \in Nat /\ lastId \in [Groups -> Nat]
        BY <1>1 DEF LossInv, TypeOK
      <4>3. batch'[p] = (lastId[g] + 1)..n /\ lastId'[g] = n
        BY <1>1, <3>3, <4>1, <4>2 DEF ReadNew
      <4> QED
        BY <4>2, <4>3 DEF Delivered
    <3> QED
      BY <1>6, <3>1, <3>2, <3>3
  <2> QED
    BY <1>2, <1>3, <2>1, <2>2 DEF ThreadOk, Busy
<1>7. CASE NoHandler(p) \/ HandlerReturns(p) \/ HandlerRaises(p)
  <2>1. PICK m \in batch[p] :
          /\ Take(p, m)
          /\ \/ pc' = [pc EXCEPT ![p] = "skipAck"] /\ stream[m] \notin Wanted(g)
             \/ /\ pc' = [pc EXCEPT ![p] = "ack"]
                /\ handled' = [handled EXCEPT ![g] = @ \cup {m}]
             \/ pc' = [pc EXCEPT ![p] = "failed"]
    BY <1>7 DEF NoHandler, HandlerReturns, HandlerRaises, Failed, Goto
  <2>2. cur'[p] = m /\ batch'[p] \subseteq batch[p] /\ pc[p] = "run"
    BY <1>1, <2>1 DEF Take
  <2>3. \/ pc'[p] = "skipAck" /\ stream[m] \notin Wanted(g)
        \/ pc'[p] = "ack" /\ m \in handled'[g]
        \/ pc'[p] = "failed"
    BY <1>1, <2>1
  <2> QED
    BY <1>2, <1>3, <2>2, <2>3 DEF ThreadOk, Busy, Wanted
<1>8. CASE \/ Ack(p) \/ ClearCounter(p) \/ CountFailure(p) \/ AckDeadLetter(p)
           \/ ClearDeadLetter(p) \/ FaultInTry(p)
  <2>1. /\ pc[p] \in Busy
        /\ pc'[p] \in {"hdel", "run", "failed", "dlqAdd", "dlqDel"}
        /\ batch'[p] = batch[p] /\ cur'[p] = cur[p]
    BY <1>1, <1>8 DEF Ack, ClearCounter, CountFailure, AckDeadLetter, ClearDeadLetter,
                      FaultInTry, Failed, Goto, Busy
  <2> QED
    BY <1>2, <1>3, <2>1 DEF ThreadOk, Busy
<1>9. CASE DeadLetter(p)
  <2>1. pc[p] = "dlqAdd" /\ pc'[p] = "dlqAck" /\ batch'[p] = batch[p] /\ cur'[p] = cur[p]
    BY <1>1, <1>9 DEF DeadLetter, Goto
  <2>2. cur[p] \in Ids
    BY <1>1, <1>2, <2>1 DEF ThreadOk, Busy, Delivered
  <2>3. dlq'[g][cur[p]] > 0
    BY <1>1, <1>9, <2>2 DEF DeadLetter, XAddDlq
  <2> QED
    BY <1>2, <1>3, <2>1, <2>3 DEF ThreadOk, Busy
<1> QED
  BY <1>4, <1>5, <1>6, <1>7, <1>8, <1>9 DEF Step, Run

LEMMA PublishKept ==
    ASSUME LossInv, NEW t \in Types, Publish(t)
    PROVE  (\A g \in Groups : GroupOk(g)') /\ (\A p \in Procs : ThreadOk(p)')
<1>1. /\ Len(stream) \in Nat /\ lastId \in [Groups -> Nat] /\ stream \in Seq(Types)
      /\ Len(stream') = Len(stream) + 1
      /\ \A m \in 1..Len(stream) : stream'[m] = stream[m]
  BY AppendProperties, LenProperties DEF LossInv, TypeOK, Publish
<1>2. UNCHANGED <<made, lastId, pel, dlq, handled, pc, batch, cur>>
  BY DEF Publish, threadVars, ghostVars
<1>3. ASSUME NEW g \in Groups, NEW m \in Delivered(g)
      PROVE  stream'[m] = stream[m]
  BY <1>1 DEF LossInv, GroupOk, Delivered
<1>4. ASSUME NEW g \in Groups PROVE GroupOk(g)'
  BY <1>1, <1>2, <1>3 DEF LossInv, GroupOk, Delivered, Disposed, Wanted
<1>5. ASSUME NEW p \in Procs PROVE ThreadOk(p)'
  <2>1. GroupOf[p] \in Groups /\ ThreadOk(p)
    BY ConsumerAssumption DEF LossInv
  <2> QED
    BY <1>2, <1>3, <2>1 DEF ThreadOk, Delivered, Busy, Wanted
<1> QED
  BY <1>4, <1>5

LEMMA LossStep ==
    ASSUME LossInv, [Next]_vars
    PROVE  LossInv'
<1>1. TypeOK'
  BY TypeStep DEF LossInv
<1>2. ASSUME NEW p \in Procs, Step(p)
      PROVE  (\A g \in Groups : GroupOk(g)') /\ (\A q \in Procs : ThreadOk(q)')
  <2>1. GroupOf[p] \in Groups /\ Effect(GroupOf[p])
    BY <1>2, Effects, ConsumerAssumption
  <2>2. \A g \in Groups : GroupOk(g)'
    BY <2>1, GroupKept
  <2>3. ASSUME NEW q \in Procs PROVE ThreadOk(q)'
    BY <1>2, OthersKept, OwnKept
  <2> QED
    BY <2>2, <2>3
<1>3. CASE UNCHANGED vars
  BY <1>3 DEF LossInv, TypeOK, GroupOk, ThreadOk, Delivered, Disposed, Wanted, Busy,
              vars, redisVars, threadVars, ghostVars
<1> QED
  BY <1>1, <1>2, <1>3, PublishKept DEF LossInv, Next, Step

LEMMA LossInit == Init => LossInv
<1> SUFFICES ASSUME Init PROVE LossInv
  OBVIOUS
<1>1. TypeOK
  BY TypeInit
<1>2. ASSUME NEW g \in Groups PROVE GroupOk(g)
  BY EmptySeq DEF Init, GroupOk, Delivered
<1>3. ASSUME NEW p \in Procs PROVE ThreadOk(p)
  BY DEF Init, ThreadOk, Busy
<1> QED
  BY <1>1, <1>2, <1>3 DEF LossInv

\* What a group has in hand, and what its threads are about to do to it.
THEOREM Invariant == Spec => []LossInv
BY LossInit, LossStep, PTL DEF Spec

\* No message is lost: what was delivered to a group and is no longer pending
\* was handled, dead-lettered or was nobody's business.
THEOREM NoneLost == Spec => []NothingLost
<1>1. LossInv => NothingLost
  <2> SUFFICES ASSUME LossInv, NEW g \in Groups, NEW m \in Published,
                      m <= lastId[g], m \notin pel[g]
               PROVE  Disposed(g, m)
    BY DEF NothingLost
  <2>1. m \in Delivered(g)
    BY DEF LossInv, TypeOK, Published, Delivered
  <2> QED
    BY <2>1 DEF LossInv, GroupOk
<1> QED
  BY <1>1, Invariant, PTL

-----------------------------------------------------------------------------
(* The loop implements GroupDelivery *)

Settled == [g \in Groups |-> DisposedSet(g)]

LEMMA RefinePublish ==
    ASSUME LossInv, NEW t \in Types, Publish(t)
    PROVE  Contract!Publish(t)
<1>1. /\ Len(stream) \in Nat /\ lastId \in [Groups -> Nat] /\ stream \in Seq(Types)
      /\ stream' = Append(stream, t)
      /\ Published' = Published \cup {Len(stream) + 1}
      /\ Len(stream) + 1 \in Ids
      /\ stream'[Len(stream) + 1] = t
      /\ \A m \in Published : stream'[m] = stream[m]
  <2>1. /\ Len(stream) \in Nat /\ lastId \in [Groups -> Nat] /\ stream \in Seq(Types)
        /\ stream' = Append(stream, t) /\ Len(stream) < MaxMsgs /\ MaxMsgs \in Nat
    BY StreamFacts DEF LossInv, TypeOK, Publish
  <2>2. /\ Len(stream') = Len(stream) + 1 /\ stream'[Len(stream) + 1] = t
        /\ \A m \in 1..Len(stream) : stream'[m] = stream[m]
    BY <2>1, AppendProperties
  <2> QED
    BY <2>1, <2>2 DEF Published, Ids
<1>2. UNCHANGED <<lastId, pel, dlq, handled>>
  BY DEF Publish, threadVars, ghostVars
<1>3. ASSUME NEW g \in Groups, NEW l \in Ids, l = Len(stream) + 1
      PROVE  DisposedSet(g)' = IF t \in Wanted(g) THEN DisposedSet(g)
                               ELSE DisposedSet(g) \cup {l}
  <2>1. \A m \in Published : Disposed(g, m)' <=> Disposed(g, m)
    BY <1>1, <1>2 DEF Disposed, Wanted
  <2>2. l \notin Delivered(g)
    BY <1>1, <1>3 DEF LossInv, GroupOk, Delivered
  <2>3. l \notin handled[g] /\ ~(dlq[g][l] > 0)
    BY <1>1, <2>2 DEF LossInv, GroupOk
  <2>4. Disposed(g, l)' <=> t \notin Wanted(g)
    BY <1>1, <1>2, <1>3, <2>3 DEF Disposed, Wanted
  <2>5. Published' = Published \cup {l}
    BY <1>1, <1>3
  <2>6. ASSUME NEW m \in Published' PROVE Disposed(g, m)' <=>
           (IF m = l /\ m \notin Published THEN t \notin Wanted(g) ELSE Disposed(g, m))
    BY <2>1, <2>4, <2>5, <2>6
  <2>7. l \notin Published
    BY <1>1, <1>3 DEF Published
  <2>8. DisposedSet(g)' = {m \in Published' : Disposed(g, m)'}
    BY DEF DisposedSet
  <2> QED
    BY <2>5, <2>6, <2>7, <2>8 DEF DisposedSet
<1>4. Settled' = [g \in Groups |-> IF t \in Wanted(g) THEN Settled[g]
                                   ELSE Settled[g] \cup {Len(stream) + 1}]
  BY <1>1, <1>3 DEF Settled
<1> QED
  BY <1>1, <1>2, <1>4 DEF Contract!Publish, Settled

\* A step of a process disposes of a message, settles one, is offered some, or
\* is invisible to the contract.
LEMMA RefineStep ==
    ASSUME LossInv, NEW g \in Groups, Effect(g)
    PROVE  [Contract!Next]_(Contract!vars)
<1>1. /\ stream' = stream /\ Published' = Published /\ GroupOk(g)
      /\ lastId \in [Groups -> Nat] /\ handled \in [Groups -> SUBSET Ids]
      /\ dlq \in [Groups -> [Ids -> Nat]] /\ pel \in [Groups -> SUBSET Ids]
      /\ Len(stream) \in Nat /\ Published \subseteq Ids
  BY StreamFacts DEF LossInv, TypeOK, Effect, Published
<1>2. Delivered(g) \subseteq Published /\ Delivered(g) \subseteq Ids
  <2>1. lastId[g] \in Nat /\ lastId[g] <= Len(stream)
    BY <1>1 DEF GroupOk
  <2> QED
    BY <1>1, <2>1 DEF Delivered, Published
<1>3. ASSUME UNCHANGED <<dlq, handled>> PROVE Settled' = Settled
  BY <1>1, <1>3 DEF Settled, DisposedSet, Disposed, Wanted
<1>4. ASSUME NEW m \in Delivered(g), UNCHANGED <<lastId, pel>>,
             \A h \in Groups, k \in Ids :
                Disposed(h, k)' <=> (Disposed(h, k) \/ (h = g /\ k = m))
      PROVE  Contract!Next
  <2>1. \A h \in Groups : DisposedSet(h)' = IF h = g THEN DisposedSet(h) \cup {m} ELSE DisposedSet(h)
    BY <1>1, <1>2, <1>4 DEF DisposedSet
  <2>2. Settled' = [Settled EXCEPT ![g] = @ \cup {m}]
    BY <2>1 DEF Settled
  <2>3. Contract!Dispose(g, m)
    BY <1>1, <1>4, <2>2 DEF Contract!Dispose, Settled, Delivered
  <2> QED
    BY <2>3, <1>4 DEF Contract!Next, Delivered
<1>5. CASE UNCHANGED <<lastId, pel, dlq, handled>>
  BY <1>1, <1>3, <1>5 DEF Contract!vars, Settled
<1>6. CASE Handles1(g)
  <2>1. PICK m \in Delivered(g) :
          handled' = [handled EXCEPT ![g] = @ \cup {m}] /\ UNCHANGED <<lastId, pel, dlq>>
    BY <1>6 DEF Handles1
  <2>2. \A h \in Groups : handled'[h] = IF h = g THEN handled[h] \cup {m} ELSE handled[h]
    BY <1>1, <2>1
  <2>3. \A h \in Groups, k \in Ids :
           Disposed(h, k)' <=> (Disposed(h, k) \/ (h = g /\ k = m))
    BY <1>1, <2>1, <2>2 DEF Disposed, Wanted
  <2> QED
    BY <1>4, <2>1, <2>3
<1>7. CASE SetsAside(g)
  <2>1. PICK m \in Delivered(g) :
          dlq' = [dlq EXCEPT ![g][m] = @ + 1] /\ UNCHANGED <<lastId, pel, handled>>
    BY <1>7 DEF SetsAside
  <2>2. ASSUME NEW h \in Groups, NEW k \in Ids
        PROVE  dlq'[h][k] > 0 <=> (dlq[h][k] > 0 \/ (h = g /\ k = m))
    <3>1. CASE h = g /\ k = m
      BY <1>1, <1>2, <2>1, <3>1
    <3>2. CASE h = g /\ k # m
      BY <1>1, <1>2, <2>1, <3>2
    <3>3. CASE h # g
      BY <1>1, <2>1, <3>3
    <3> QED
      BY <3>1, <3>2, <3>3
  <2>3. \A h \in Groups, k \in Ids :
           Disposed(h, k)' <=> (Disposed(h, k) \/ (h = g /\ k = m))
    BY <1>1, <2>1, <2>2 DEF Disposed, Wanted
  <2> QED
    BY <1>4, <2>1, <2>3
<1>8. CASE Settles(g)
  <2>1. PICK m \in Delivered(g) :
          /\ Disposed(g, m) /\ pel' = [pel EXCEPT ![g] = @ \ {m}]
          /\ UNCHANGED <<lastId, dlq, handled>>
    BY <1>8 DEF Settles
  <2>2. Settled' = Settled /\ m \in Settled[g]
    BY <1>2, <1>3, <2>1 DEF Settled, DisposedSet
  <2>3. CASE m \in pel[g]
    <3>1. Contract!Settle(g, m)
      BY <1>1, <2>1, <2>2, <2>3 DEF Contract!Settle, Settled
    <3> QED
      BY <3>1 DEF Contract!Next, Delivered
  <2>4. CASE m \notin pel[g]
    <3>1. pel' = pel
      BY <1>1, <2>1, <2>4
    <3> QED
      BY <1>1, <2>1, <2>2, <3>1 DEF Contract!vars, Settled
  <2> QED
    BY <2>3, <2>4
<1>9. CASE Receives(g)
  <2>1. PICK n \in (lastId[g] + 1)..Len(stream) :
          /\ lastId' = [lastId EXCEPT ![g] = n]
          /\ pel' = [pel EXCEPT ![g] = @ \cup ((lastId[g] + 1)..n)]
    BY <1>1, <1>9, DeliverFacts DEF Receives, LossInv, GroupOk
  <2>2. Settled' = Settled
    BY <1>3, <1>9 DEF Receives
  <2>3. Contract!Offer(g)
    BY <1>1, <2>1, <2>2 DEF Contract!Offer, Settled
  <2> QED
    BY <2>3 DEF Contract!Next
<1> QED
  BY <1>5, <1>6, <1>7, <1>8, <1>9 DEF Effect

\* The consumer loop implements the at-least-once contract.
THEOREM Refinement == Spec => AtLeastOnce
<1>1. Init => Contract!Init
  <2> SUFFICES ASSUME Init PROVE Contract!Init
    OBVIOUS
  <2>1. \A g \in Groups : DisposedSet(g) = {}
    BY EmptySeq DEF Init, DisposedSet, Published
  <2> QED
    BY <2>1 DEF Init, Contract!Init
<1>2. LossInv /\ [Next]_vars => [Contract!Next]_(Contract!vars)
  <2> SUFFICES ASSUME LossInv, [Next]_vars PROVE [Contract!Next]_(Contract!vars)
    OBVIOUS
  <2>1. ASSUME NEW t \in Types, Publish(t) PROVE Contract!Next
    BY <2>1, RefinePublish DEF Contract!Next
  <2>2. ASSUME NEW p \in Procs, Step(p) PROVE [Contract!Next]_(Contract!vars)
    BY <2>2, Effects, RefineStep, ConsumerAssumption
  <2>3. CASE UNCHANGED vars
    BY <2>3 DEF vars, redisVars, threadVars, ghostVars, Contract!vars, DisposedSet,
                Published, Disposed, Wanted
  <2> QED
    BY <2>1, <2>2, <2>3 DEF Next, Step
<1> QED
  BY <1>1, <1>2, Invariant, PTL DEF Spec, AtLeastOnce, Contract!Spec

-----------------------------------------------------------------------------
(* How often a message fails, on a stream with one reader *)

\* Everything that can stand in for a failed delivery.
Mishaps == faults + crashes

\* The failure of m that the except clause has yet to count.
Due(p, m) == IF pc[p] = "failed" /\ cur[p] = m THEN 1 ELSE 0
InHand(p, m) == pc[p] \in Busy /\ cur[p] = m

\* The only reader of a stream has no message twice, and none it settled.
ReaderOk(p) ==
    LET g == GroupOf[p] IN
    /\ batch[p] \subseteq pel[g]
    /\ pc[p] \in Busy => cur[p] \notin batch[p]
    /\ pc[p] \in {"ack", "skipAck", "hdel"} => stream[cur[p]] \notin Fails[g]
    /\ pc[p] = "dlqAdd" => deliveries[cur[p]] >= MaxDeliveries
    /\ pc[p] = "dlqDel" => cur[p] \notin pel[g]

\* The counter of m never runs ahead of its failures, and falls behind only
\* by mishaps while m is pending.
RaisedOk(p, m) ==
    LET g == GroupOf[p] IN
    /\ deliveries[m] + Due(p, m) <= raised[g][m]
    /\ raised[g][m] <= MaxDeliveries + Mishaps
    /\ m \notin Delivered(g) => raised[g][m] = 0
    /\ m \in Delivered(g) /\ stream[m] \notin Fails[g] => raised[g][m] <= Mishaps
    /\ m \in pel[g] => raised[g][m] <= deliveries[m] + Due(p, m) + Mishaps
    /\ m \in pel[g] /\ ~InHand(p, m) => raised[g][m] < MaxDeliveries + Mishaps

SoleReader == \A p, q \in Procs : p = q

CountInv ==
    /\ LossInv
    /\ DeadLetterNeedsFailures
    /\ RetriesBounded
    /\ \A p \in Procs : ReaderOk(p) /\ \A m \in Ids : RaisedOk(p, m)

LEMMA CountTypes ==
    ASSUME CountInv, NEW p \in Procs
    PROVE  /\ GroupOf[p] \in Groups /\ pc \in [Procs -> Places]
           /\ batch \in [Procs -> SUBSET Ids] /\ cur \in [Procs -> Ids \cup {0}]
           /\ deliveries \in [Ids -> Nat] /\ raised \in [Groups -> [Ids -> Nat]]
           /\ pel \in [Groups -> SUBSET Ids] /\ dlq \in [Groups -> [Ids -> Nat]]
           /\ lastId \in [Groups -> Nat] /\ lastId[GroupOf[p]] <= Len(stream)
           /\ faults \in Nat /\ crashes \in Nat /\ Mishaps \in Nat
           /\ MaxDeliveries \in Nat \ {0}
           /\ ReaderOk(p) /\ ThreadOk(p) /\ (pc[p] \in Busy => cur[p] \in Ids)
           /\ \A m \in Ids : RaisedOk(p, m)
<1>1. TypeOK /\ ReaderOk(p) /\ ThreadOk(p) /\ \A m \in Ids : RaisedOk(p, m)
  BY DEF CountInv, LossInv
<1>2. GroupOf[p] \in Groups /\ MaxDeliveries \in Nat \ {0} /\ GroupOk(GroupOf[p])
  BY ConsumerAssumption DEF CountInv, LossInv
<1>3. faults \in Nat /\ crashes \in Nat /\ Mishaps \in Nat
  BY <1>1, ConsumerAssumption DEF TypeOK, Mishaps
<1>4. pc[p] \in Busy => cur[p] \in Ids
  <2>1. cur[p] \in Ids \cup {0} /\ (pc[p] \in Busy => cur[p] \in Delivered(GroupOf[p]))
    BY <1>1 DEF TypeOK, ThreadOk
  <2>2. lastId[GroupOf[p]] \in Nat
    BY <1>1, <1>2 DEF TypeOK
  <2> QED
    BY <2>1, <2>2 DEF Delivered
<1> QED
  BY <1>1, <1>2, <1>3, <1>4 DEF TypeOK, GroupOk

\* What each step does to the counters of message m.
LEMMA RaisedKept ==
    ASSUME CountInv, NEW p \in Procs, Step(p), NEW m \in Ids
    PROVE  RaisedOk(p, m)'
<1> DEFINE g == GroupOf[p]
<1>1. /\ g \in Groups /\ pc \in [Procs -> Places]
      /\ batch \in [Procs -> SUBSET Ids] /\ cur \in [Procs -> Ids \cup {0}]
      /\ deliveries \in [Ids -> Nat] /\ raised \in [Groups -> [Ids -> Nat]]
      /\ pel \in [Groups -> SUBSET Ids]
      /\ faults \in Nat /\ crashes \in Nat /\ Mishaps \in Nat
      /\ MaxDeliveries \in Nat \ {0}
      /\ ReaderOk(p) /\ ThreadOk(p) /\ (pc[p] \in Busy => cur[p] \in Ids)
      /\ RaisedOk(p, m)
  BY CountTypes
<1>2. deliveries[m] \in Nat /\ raised[g][m] \in Nat
  BY <1>1
<1>3. stream' = stream
  BY Effects, <1>1 DEF Effect, CountInv
\* Nothing counted, nobody new in hand.
<1>4. CASE Start(p) \/ EnsureGroup(p) \/ ReadHistory(p) \/ HistoryDone(p)
  <2>1. /\ UNCHANGED <<deliveries, raised, pel, faults, crashes>>
        /\ pc[p] \notin Busy /\ pc'[p] \notin Busy
    BY <1>1, <1>4 DEF Start, EnsureGroup, ReadHistory, HistoryDone, AtRead, Goto, Busy,
                      redisVars, ghostVars
  <2>2. UNCHANGED lastId
    <3>1. g \notin made => lastId[g] = 0
      BY <1>1 DEF CountInv, LossInv, GroupOk
    <3>2. lastId \in [Groups -> Nat]
      BY CountTypes
    <3> QED
      BY <1>1, <1>4, <3>1, <3>2 DEF Start, EnsureGroup, ReadHistory, HistoryDone, redisVars
  <2> QED
    BY <1>1, <1>3, <2>1, <2>2 DEF RaisedOk, Due, InHand, Mishaps, Delivered, Busy
\* The thread ends: what it had in hand is one mishap behind.
<1>5. CASE Kill(p)
  <2>1. /\ UNCHANGED <<deliveries, raised, pel, lastId>> /\ Mishaps' = Mishaps + 1
        /\ pc'[p] = "down"
    BY <1>1, <1>5 DEF Kill, Goto, Mishaps, redisVars, ghostVars
  <2> QED
    BY <1>1, <1>2, <1>3, <2>1 DEF RaisedOk, Due, InHand, Delivered, Busy
<1>6. CASE FaultInExcept(p)
  <2>1. /\ UNCHANGED <<raised, lastId>> /\ Mishaps' = Mishaps + 1 /\ pc'[p] = "dead"
        /\ pc[p] \in {"failed", "dlqAdd", "dlqAck", "dlqDel"}
        /\ \/ UNCHANGED <<pel, deliveries>>
           \/ pc[p] = "failed" /\ HIncrBy(p) /\ UNCHANGED pel
           \/ XAck(p) /\ UNCHANGED deliveries
           \/ pc[p] = "dlqDel" /\ HDel(p) /\ UNCHANGED pel
    BY <1>1, <1>6 DEF FaultInExcept, Fault, Goto, Mishaps, ghostVars
  <2>2. cur[p] \in Ids /\ pc[p] \in Busy
    BY <1>1, <2>1 DEF Busy
  <2>3. CASE UNCHANGED <<pel, deliveries>>
    BY <1>1, <1>2, <1>3, <2>1, <2>3 DEF RaisedOk, Due, InHand, Delivered, Busy
  <2>4. CASE pc[p] = "failed" /\ HIncrBy(p) /\ UNCHANGED pel
    <3>1. deliveries'[m] = deliveries[m] + Due(p, m)
      BY <1>1, <2>2, <2>4 DEF HIncrBy, Due
    <3> QED
      BY <1>1, <1>2, <1>3, <2>1, <2>4, <3>1 DEF RaisedOk, Due, InHand, Delivered, Busy
  <2>5. CASE XAck(p) /\ UNCHANGED deliveries
    <3>1. pel'[g] \subseteq pel[g]
      BY <1>1, <2>5 DEF XAck
    <3> QED
      BY <1>1, <1>2, <1>3, <2>1, <2>5, <3>1 DEF RaisedOk, Due, InHand, Delivered, Busy
  <2>6. CASE pc[p] = "dlqDel" /\ HDel(p) /\ UNCHANGED pel
    <3>1. m # cur[p] => deliveries'[m] = deliveries[m]
      BY <1>1, <2>6 DEF HDel
    <3>2. m = cur[p] => deliveries'[m] = 0 /\ m \notin pel[g]
      BY <1>1, <2>6 DEF HDel, ReaderOk
    <3> QED
      BY <1>1, <1>2, <1>3, <2>1, <2>6, <3>1, <3>2 DEF RaisedOk, Due, InHand, Delivered, Busy
  <2> QED
    BY <2>1, <2>3, <2>4, <2>5, <2>6
\* New messages have not failed yet.
<1>7. CASE ReadNew(p) \/ FaultInLoop(p)
  <2>1. /\ UNCHANGED <<deliveries, raised>> /\ Mishaps' \in Nat /\ Mishaps <= Mishaps'
        /\ pc[p] \notin Busy /\ pc'[p] \notin Busy
        /\ UNCHANGED <<pel, lastId>> \/ Deliver(g)
    BY <1>1, <1>7 DEF ReadNew, FaultInLoop, Fault, AtRead, Goto, Mishaps, Busy, ghostVars
  <2>2. CASE UNCHANGED <<pel, lastId>>
    BY <1>1, <1>2, <1>3, <2>1, <2>2 DEF RaisedOk, Due, InHand, Delivered, Busy
  <2>3. CASE Deliver(g)
    <3>1. PICK n \in (lastId[g] + 1)..Len(stream) :
            /\ lastId' = [lastId EXCEPT ![g] = n]
            /\ pel' = [pel EXCEPT ![g] = @ \cup ((lastId[g] + 1)..n)]
      BY <1>1, <2>3, CountTypes, DeliverFacts DEF CountInv, LossInv
    <3>2. lastId \in [Groups -> Nat] /\ lastId[g] \in Nat
      BY <1>1, CountTypes
    <3>3. /\ pel'[g] = pel[g] \cup ((lastId[g] + 1)..n) /\ lastId'[g] = n
          /\ n \in Nat /\ lastId[g] < n
      BY <1>1, <3>1, <3>2
    <3>4. m \in pel'[g] => m \in pel[g] \/ m \notin Delivered(g)
      BY <3>2, <3>3 DEF Delivered
    <3>5. Delivered(g) \subseteq Delivered(g)'
      BY <3>2, <3>3 DEF Delivered
    <3> QED
      BY <1>1, <1>2, <1>3, <2>1, <3>4, <3>5 DEF RaisedOk, Due, InHand, Busy
  <2> QED
    BY <2>1, <2>2, <2>3
<1>8. CASE NoHandler(p) \/ HandlerReturns(p)
  <2>1. /\ UNCHANGED <<deliveries, raised, pel, lastId, faults, crashes>>
        /\ pc[p] = "run" /\ pc'[p] \in {"skipAck", "ack"}
    BY <1>1, <1>8 DEF NoHandler, HandlerReturns, Take, Goto, redisVars, ghostVars
  <2> QED
    BY <1>1, <1>3, <2>1 DEF RaisedOk, Due, InHand, Mishaps, Delivered, Busy
\* One more failure, of a message that had one to spare or by a mishap.
<1>9. CASE HandlerRaises(p)
  <2>1. PICK k \in batch[p] :
          /\ Take(p, k) /\ Failed(p, k) /\ UNCHANGED <<redisVars, crashes>>
          /\ \/ stream[k] \in Fails[g] /\ UNCHANGED faults
             \/ faults' = faults + 1
    BY <1>9 DEF HandlerRaises
  <2>2. /\ UNCHANGED <<deliveries, pel, lastId>> /\ pc[p] = "run" /\ pc'[p] = "failed"
        /\ cur'[p] = k /\ k \in Ids /\ k \in pel[g]
    BY <1>1, <2>1 DEF Take, Failed, Goto, redisVars, ReaderOk
  <2>3. raised'[g][m] = IF m = k THEN raised[g][m] + 1 ELSE raised[g][m]
    BY <1>1, <2>1, <2>2 DEF Failed
  <2>4. /\ Mishaps' \in Nat /\ Mishaps <= Mishaps'
        /\ stream[k] \in Fails[g] \/ Mishaps' = Mishaps + 1
    <3>1. crashes' = crashes /\ (faults' = faults \/ faults' = faults + 1)
      BY <2>1
    <3>2. stream[k] \in Fails[g] \/ faults' = faults + 1
      BY <2>1
    <3> QED
      BY <1>1, <3>1, <3>2 DEF Mishaps
  <2>5. k \in Delivered(g)
    BY <1>1, <2>2 DEF CountInv, LossInv, GroupOk
  <2> QED
    BY <1>1, <1>2, <1>3, <2>2, <2>3, <2>4, <2>5 DEF RaisedOk, Due, InHand, Delivered, Busy
<1>10. CASE FaultInTry(p)
  <2>1. /\ Failed(p, cur[p]) /\ UNCHANGED <<lastId, cur, crashes>> /\ Mishaps' = Mishaps + 1
        /\ pc[p] \in {"ack", "skipAck", "hdel"}
        /\ UNCHANGED pel \/ XAck(p)
        /\ UNCHANGED deliveries \/ HDel(p)
    BY <1>1, <1>10 DEF FaultInTry, Fault, Mishaps
  <2>2. /\ cur[p] \in Ids /\ stream[cur[p]] \notin Fails[g] /\ pc'[p] = "failed"
        /\ cur[p] \in Delivered(g) /\ cur'[p] = cur[p]
    BY <1>1, <2>1 DEF ReaderOk, ThreadOk, Busy, Failed, Goto
  <2>3. raised'[g][m] = IF m = cur[p] THEN raised[g][m] + 1 ELSE raised[g][m]
    BY <1>1, <2>1, <2>2 DEF Failed
  <2>4. pel'[g] \subseteq pel[g]
    BY <1>1, <2>1 DEF XAck
  <2>5. deliveries'[m] = deliveries[m] \/ (m = cur[p] /\ deliveries'[m] = 0)
    BY <1>1, <2>1, <2>2 DEF HDel
  <2> QED
    BY <1>1, <1>2, <1>3, <2>1, <2>2, <2>3, <2>4, <2>5
       DEF RaisedOk, Due, InHand, Delivered, Busy
<1>11. CASE Ack(p) \/ AckDeadLetter(p) \/ DeadLetter(p)
  <2>1. /\ UNCHANGED <<deliveries, raised, lastId, cur, faults, crashes>>
        /\ pc[p] \in {"ack", "skipAck", "dlqAck", "dlqAdd"}
        /\ pc'[p] # "failed"
        /\ \/ XAck(p)
           \/ pel' = pel /\ pc'[p] \in Busy
    BY <1>1, <1>11 DEF Ack, AckDeadLetter, DeadLetter, Goto, ghostVars, Busy
  <2>2. /\ pel'[g] \subseteq pel[g]
        /\ m \in pel'[g] /\ ~InHand(p, m)' => ~InHand(p, m)
    BY <1>1, <2>1 DEF XAck, InHand
  <2>3. Due(p, m) = 0 /\ Due(p, m)' = 0 /\ Mishaps' = Mishaps
    BY <2>1 DEF Due, Mishaps
  <2> QED
    BY <1>1, <1>3, <2>1, <2>2, <2>3 DEF RaisedOk, Delivered
<1>12. CASE ClearCounter(p) \/ ClearDeadLetter(p)
  <2>1. /\ UNCHANGED <<raised, pel, lastId, cur, faults, crashes>> /\ HDel(p)
        /\ pc[p] \in {"hdel", "dlqDel"} /\ pc'[p] = "run"
    BY <1>1, <1>12 DEF ClearCounter, ClearDeadLetter, Goto, ghostVars
  <2>2. /\ cur[p] \in Ids /\ cur[p] \in Delivered(g)
        /\ stream[cur[p]] \notin Fails[g] \/ cur[p] \notin pel[g]
    BY <1>1, <2>1 DEF ReaderOk, ThreadOk, Busy
  <2>3. deliveries'[m] = IF m = cur[p] THEN 0 ELSE deliveries[m]
    BY <1>1, <2>1, <2>2 DEF HDel
  <2> QED
    BY <1>1, <1>2, <1>3, <2>1, <2>2, <2>3 DEF RaisedOk, Due, InHand, Mishaps, Delivered, Busy
<1>13. CASE CountFailure(p)
  <2>1. /\ UNCHANGED <<raised, pel, lastId, cur, faults, crashes>> /\ HIncrBy(p)
        /\ pc[p] = "failed" /\ cur[p] \in Ids
        /\ pc'[p] = IF deliveries'[cur[p]] >= MaxDeliveries THEN "dlqAdd" ELSE "run"
    BY <1>1, <1>13 DEF CountFailure, Goto, ghostVars, Busy
  <2>2. deliveries'[m] = IF m = cur[p] THEN deliveries[m] + 1 ELSE deliveries[m]
    BY <1>1, <2>1 DEF HIncrBy
  <2> QED
    BY <1>1, <1>2, <1>3, <2>1, <2>2 DEF RaisedOk, Due, InHand, Mishaps, Delivered, Busy
<1> QED
  BY <1>4, <1>5, <1>6, <1>7, <1>8, <1>9, <1>10, <1>11, <1>12, <1>13 DEF Step, Run

LEMMA ReaderKept ==
    ASSUME CountInv, NEW p \in Procs, Step(p)
    PROVE  ReaderOk(p)'
<1> DEFINE g == GroupOf[p]
<1>1. /\ g \in Groups /\ pc \in [Procs -> Places]
      /\ batch \in [Procs -> SUBSET Ids] /\ cur \in [Procs -> Ids \cup {0}]
      /\ deliveries \in [Ids -> Nat] /\ pel \in [Groups -> SUBSET Ids]
      /\ ReaderOk(p) /\ ThreadOk(p) /\ (pc[p] \in Busy => cur[p] \in Ids)
  BY CountTypes
<1>2. stream' = stream
  BY Effects, <1>1 DEF Effect, CountInv
<1>3. CASE Start(p) \/ Kill(p) \/ EnsureGroup(p) \/ HistoryDone(p)
  <2>1. /\ UNCHANGED pel /\ pc'[p] \notin Busy
        /\ batch'[p] \subseteq batch[p]
    BY <1>1, <1>3 DEF Start, Kill, EnsureGroup, HistoryDone, AtRead, Goto, Busy, redisVars
  <2> QED
    BY <1>1, <2>1 DEF ReaderOk, Busy
<1>4. CASE ReadHistory(p)
  <2>1. /\ UNCHANGED pel /\ pc'[p] \notin Busy
        /\ batch'[p] \subseteq pel[g]
    BY <1>1, <1>4 DEF ReadHistory, AtRead, Busy, redisVars, FirstOf
  <2> QED
    BY <2>1 DEF ReaderOk, Busy
<1>5. CASE ReadNew(p)
  <2>1. /\ pc'[p] \notin Busy /\ batch'[p] = FirstOf(Undelivered(g), Count)
        /\ pel' = [pel EXCEPT ![g] = @ \cup FirstOf(Undelivered(g), Count)]
    BY <1>1, <1>5 DEF ReadNew, AtRead, Busy, Deliver
  <2> QED
    BY <1>1, <2>1 DEF ReaderOk, Busy
<1>6. CASE FaultInLoop(p)
  <2>1. /\ pc'[p] = "dead" /\ batch'[p] = batch[p]
        /\ UNCHANGED pel \/ Deliver(g)
    BY <1>1, <1>6 DEF FaultInLoop, Goto
  <2>2. pel[g] \subseteq pel'[g]
    BY <1>1, <2>1 DEF Deliver
  <2> QED
    BY <1>1, <2>1, <2>2 DEF ReaderOk, Busy
<1>7. CASE NoHandler(p) \/ HandlerReturns(p) \/ HandlerRaises(p)
  <2>1. PICK m \in batch[p] :
          /\ Take(p, m) /\ UNCHANGED redisVars
          /\ \/ pc' = [pc EXCEPT ![p] = "skipAck"] /\ stream[m] \notin Wanted(g)
             \/ pc' = [pc EXCEPT ![p] = "ack"] /\ stream[m] \notin Fails[g]
             \/ pc' = [pc EXCEPT ![p] = "failed"]
    BY <1>7 DEF NoHandler, HandlerReturns, HandlerRaises, Failed, Goto
  <2>2. /\ cur'[p] = m /\ batch'[p] = batch[p] \ {m} /\ pel' = pel
        /\ pc'[p] \in {"skipAck", "ack", "failed"}
        /\ pc'[p] # "failed" => stream[m] \notin Fails[g]
    BY <1>1, <2>1 DEF Take, redisVars, Wanted
  <2> QED
    BY <1>1, <1>2, <2>2 DEF ReaderOk, Busy
<1>8. CASE Ack(p) \/ AckDeadLetter(p)
  <2>1. /\ UNCHANGED <<batch, cur>> /\ pel' = [pel EXCEPT ![g] = @ \ {cur[p]}]
        /\ pc[p] \in {"ack", "skipAck", "dlqAck"}
        /\ \/ pc[p] = "ack" /\ pc'[p] = "hdel"
           \/ pc'[p] \in {"run", "dlqDel"}
    BY <1>1, <1>8 DEF Ack, AckDeadLetter, Goto, XAck
  <2> QED
    BY <1>1, <1>2, <2>1 DEF ReaderOk, Busy
<1>9. CASE ClearCounter(p) \/ ClearDeadLetter(p)
  <2>1. UNCHANGED <<batch, cur, pel>> /\ pc'[p] = "run"
    BY <1>1, <1>9 DEF ClearCounter, ClearDeadLetter, Goto
  <2> QED
    BY <1>1, <2>1 DEF ReaderOk, Busy
<1>10. CASE CountFailure(p)
  <2>1. /\ UNCHANGED <<batch, cur, pel>> /\ pc[p] \in Busy
        /\ pc'[p] = IF deliveries'[cur[p]] >= MaxDeliveries THEN "dlqAdd" ELSE "run"
    BY <1>1, <1>10 DEF CountFailure, Goto, Busy
  <2> QED
    BY <1>1, <2>1 DEF ReaderOk, Busy
<1>11. CASE DeadLetter(p)
  <2>1. UNCHANGED <<batch, cur, pel>> /\ pc[p] \in Busy /\ pc'[p] = "dlqAck"
    BY <1>1, <1>11 DEF DeadLetter, Goto, Busy
  <2> QED
    BY <1>1, <2>1 DEF ReaderOk, Busy
<1>12. CASE FaultInTry(p) \/ FaultInExcept(p)
  <2>1. /\ UNCHANGED <<batch, cur>> /\ pc[p] \in Busy /\ pc'[p] \in {"failed", "dead"}
        /\ UNCHANGED pel \/ pel' = [pel EXCEPT ![g] = @ \ {cur[p]}]
    BY <1>1, <1>12 DEF FaultInTry, FaultInExcept, Failed, Goto, XAck, Busy
  <2> QED
    BY <1>1, <2>1 DEF ReaderOk, Busy
<1> QED
  BY <1>3, <1>4, <1>5, <1>6, <1>7, <1>8, <1>9, <1>10, <1>11, <1>12 DEF Step, Run

\* The dead letter stream and the failures of every group.
LEMMA DeadLetterKept ==
    ASSUME CountInv, NEW p \in Procs, Step(p), \A m \in Ids : RaisedOk(p, m)'
    PROVE  DeadLetterNeedsFailures' /\ RetriesBounded'
<1> DEFINE g == GroupOf[p]
<1>1. /\ g \in Groups /\ dlq \in [Groups -> [Ids -> Nat]]
      /\ raised \in [Groups -> [Ids -> Nat]] /\ pc \in [Procs -> Places]
      /\ deliveries \in [Ids -> Nat] /\ MaxDeliveries \in Nat
      /\ faults \in Nat /\ crashes \in Nat
      /\ ReaderOk(p) /\ (pc[p] \in Busy => cur[p] \in Ids)
      /\ \A m \in Ids : RaisedOk(p, m)
  BY CountTypes
<1>2. UNCHANGED raised \/ \E k \in Ids : raised' = [raised EXCEPT ![g][k] = @ + 1]
  <2>1. CASE HandlerRaises(p)
    <3>1. PICK k \in batch[p] : Failed(p, k)
      BY <2>1 DEF HandlerRaises
    <3>2. k \in Ids
      BY CountTypes, <3>1
    <3> QED
      BY <3>1, <3>2 DEF Failed
  <2>2. CASE FaultInTry(p)
    BY <1>1, <2>2 DEF FaultInTry, Failed, Busy
  <2> QED
    BY <2>1, <2>2 DEF Step, Run, Start, Kill, EnsureGroup, ReadHistory, HistoryDone, ReadNew,
       NoHandler, HandlerReturns, Ack, ClearCounter, CountFailure, DeadLetter, AckDeadLetter,
       ClearDeadLetter, FaultInExcept, FaultInLoop, ghostVars
<1>3. UNCHANGED dlq \/ (pc[p] = "dlqAdd" /\ XAddDlq(p))
  BY DEF Step, Run, Start, Kill, EnsureGroup, ReadHistory, HistoryDone, ReadNew,
     NoHandler, HandlerReturns, HandlerRaises, Ack, ClearCounter, CountFailure, DeadLetter,
     AckDeadLetter, ClearDeadLetter, FaultInTry, FaultInExcept, FaultInLoop, redisVars
<1>4. ASSUME NEW h \in Groups, NEW m \in Ids
      PROVE  /\ raised[h][m] \in Nat /\ raised'[h][m] \in Nat /\ raised[h][m] <= raised'[h][m]
             /\ h # g => raised'[h][m] = raised[h][m]
  <2>1. CASE UNCHANGED raised
    BY <1>1, <2>1
  <2>2. ASSUME NEW k \in Ids, raised' = [raised EXCEPT ![g][k] = @ + 1]
        PROVE  /\ raised[h][m] \in Nat /\ raised'[h][m] \in Nat /\ raised[h][m] <= raised'[h][m]
               /\ h # g => raised'[h][m] = raised[h][m]
    <3>1. CASE h = g /\ m = k
      BY <1>1, <2>2, <3>1
    <3>2. CASE h = g /\ m # k
      BY <1>1, <2>2, <3>2
    <3>3. CASE h # g
      BY <1>1, <2>2, <3>3
    <3> QED
      BY <3>1, <3>2, <3>3
  <2> QED
    BY <1>2, <2>1, <2>2
<1>5. ASSUME NEW h \in Groups, NEW m \in Ids, dlq'[h][m] > 0
      PROVE  raised'[h][m] >= MaxDeliveries
  <2>1. CASE dlq[h][m] > 0
    <3>1. raised[h][m] >= MaxDeliveries
      BY <2>1 DEF CountInv, DeadLetterNeedsFailures
    <3> QED
      BY <1>1, <1>4, <3>1
  <2>2. CASE ~(dlq[h][m] > 0)
    <3>1. pc[p] = "dlqAdd" /\ XAddDlq(p)
      BY <1>3, <1>5, <2>2
    <3>2. cur[p] \in Ids /\ deliveries[cur[p]] >= MaxDeliveries
      BY <1>1, <3>1 DEF ReaderOk, Busy
    <3>3. h = g /\ m = cur[p]
      <4>1. CASE h # g
        BY <1>1, <1>5, <2>2, <3>1, <4>1 DEF XAddDlq
      <4>2. CASE h = g /\ m # cur[p]
        BY <1>1, <1>5, <2>2, <3>1, <3>2, <4>2 DEF XAddDlq
      <4> QED
        BY <4>1, <4>2
    <3>4. deliveries[m] <= raised[g][m]
      <4>1. deliveries[m] \in Nat /\ raised[g][m] \in Nat
        BY <1>1
      <4> QED
        BY <1>1, <4>1 DEF RaisedOk, Due
    <3> QED
      BY <1>1, <1>4, <3>2, <3>3, <3>4
  <2> QED
    BY <2>1, <2>2
<1>6. Mishaps <= Mishaps' /\ Mishaps \in Nat /\ Mishaps' \in Nat
  <2>1. /\ UNCHANGED faults \/ faults' = faults + 1
        /\ UNCHANGED crashes \/ crashes' = crashes + 1
    BY DEF Step, Run, Start, Kill, EnsureGroup, ReadHistory, HistoryDone, ReadNew,
       NoHandler, HandlerReturns, HandlerRaises, Ack, ClearCounter, CountFailure, DeadLetter,
       AckDeadLetter, ClearDeadLetter, FaultInTry, FaultInExcept, FaultInLoop, Fault
  <2> QED
    BY <1>1, <2>1 DEF Mishaps
<1>7. ASSUME NEW h \in Groups, NEW m \in Ids
      PROVE  raised'[h][m] <= MaxDeliveries + Mishaps'
  <2>1. CASE h = g
    BY <2>1 DEF RaisedOk
  <2>2. CASE h # g
    <3>1. raised[h][m] <= MaxDeliveries + (faults + crashes)
      BY <1>1, <1>4 DEF CountInv, RetriesBounded
    <3> QED
      BY <1>1, <1>4, <1>6, <2>2, <3>1 DEF Mishaps
  <2> QED
    BY <2>1, <2>2
<1>8. DeadLetterNeedsFailures'
  BY <1>5 DEF DeadLetterNeedsFailures
<1>9. RetriesBounded'
  <2>1. ASSUME NEW h \in Groups, NEW m \in Ids
        PROVE  raised'[h][m] <= MaxDeliveries + faults' + crashes'
    <3>1. faults' \in Nat /\ crashes' \in Nat
      BY TypeStep, ConsumerAssumption DEF CountInv, LossInv, Next, Step, TypeOK
    <3> QED
      BY <1>1, <1>4, <1>7, <3>1 DEF Mishaps
  <2> QED
    BY <2>1 DEF RetriesBounded
<1> QED
  BY <1>8, <1>9

LEMMA CountPublish ==
    ASSUME CountInv, NEW t \in Types, Publish(t)
    PROVE  /\ DeadLetterNeedsFailures' /\ RetriesBounded'
           /\ \A p \in Procs : ReaderOk(p)' /\ \A m \in Ids : RaisedOk(p, m)'
<1>1. UNCHANGED <<lastId, pel, deliveries, dlq, pc, batch, cur, raised, faults, crashes>>
  BY DEF Publish, threadVars, ghostVars
<1>2. stream \in Seq(Types) /\ stream' = Append(stream, t)
      /\ \A m \in 1..Len(stream) : stream'[m] = stream[m]
  BY AppendProperties DEF CountInv, LossInv, TypeOK, Publish
<1>3. ASSUME NEW p \in Procs
      PROVE  ReaderOk(p)' /\ \A m \in Ids : RaisedOk(p, m)'
  <2>1. \A m \in Delivered(GroupOf[p]) : stream'[m] = stream[m]
    <3>1. lastId[GroupOf[p]] \in Nat /\ lastId[GroupOf[p]] <= Len(stream) /\ Len(stream) \in Nat
      BY CountTypes, <1>2, LenProperties
    <3> QED
      BY <1>2, <3>1 DEF Delivered
  <2>2. pc[p] \in Busy => cur[p] \in Delivered(GroupOf[p])
    BY CountTypes DEF ThreadOk
  <2>3. ReaderOk(p) /\ \A m \in Ids : RaisedOk(p, m)
    BY CountTypes
  <2>4. ReaderOk(p)'
    BY <1>1, <2>1, <2>2, <2>3 DEF ReaderOk, Busy
  <2>5. ASSUME NEW m \in Ids PROVE RaisedOk(p, m)'
    BY <1>1, <2>1, <2>3 DEF RaisedOk, Due, InHand, Mishaps, Delivered, Busy
  <2> QED
    BY <2>4, <2>5
<1> QED
  BY <1>1, <1>3 DEF CountInv, DeadLetterNeedsFailures, RetriesBounded

LEMMA CountInit == Init => CountInv
<1> SUFFICES ASSUME Init PROVE CountInv
  OBVIOUS
<1>1. MaxDeliveries \in Nat \ {0} /\ \A p \in Procs : GroupOf[p] \in Groups
  BY ConsumerAssumption
<1>2. ASSUME NEW p \in Procs, NEW m \in Ids PROVE RaisedOk(p, m)
  BY <1>1 DEF Init, RaisedOk, Due, InHand, Mishaps, Delivered, Busy
<1>3. ASSUME NEW p \in Procs PROVE ReaderOk(p)
  BY <1>1 DEF Init, ReaderOk, Busy
<1>4. DeadLetterNeedsFailures /\ RetriesBounded
  BY <1>1 DEF Init, DeadLetterNeedsFailures, RetriesBounded
<1> QED
  BY <1>2, <1>3, <1>4, LossInit DEF CountInv

LEMMA CountStep ==
    ASSUME SoleReader, CountInv, [Next]_vars
    PROVE  CountInv'
<1>1. LossInv'
  BY LossStep DEF CountInv
<1>2. ASSUME NEW p \in Procs, Step(p) PROVE CountInv'
  <2>1. \A m \in Ids : RaisedOk(p, m)'
    BY <1>2, RaisedKept
  <2>2. ReaderOk(p)'
    BY <1>2, ReaderKept
  <2>3. DeadLetterNeedsFailures' /\ RetriesBounded'
    BY <1>2, <2>1, DeadLetterKept
  <2>4. ASSUME NEW q \in Procs PROVE ReaderOk(q)' /\ \A m \in Ids : RaisedOk(q, m)'
    <3>1. q = p
      BY DEF SoleReader
    <3> QED
      BY <2>1, <2>2, <3>1
  <2> QED
    BY <1>1, <2>3, <2>4 DEF CountInv
<1>3. CASE UNCHANGED vars
  BY <1>1, <1>3 DEF CountInv, DeadLetterNeedsFailures, RetriesBounded, ReaderOk, RaisedOk, Due,
     InHand, Mishaps, Delivered, Busy, vars, redisVars, threadVars, ghostVars
<1> QED
  BY <1>1, <1>2, <1>3, CountPublish DEF CountInv, Next, Step

\* On a stream with one reader a message is dead-lettered only when handling
\* it failed max_deliveries times.
THEOREM DeadLettersHaveFailed ==
    ASSUME SoleReader
    PROVE  Spec => []DeadLetterNeedsFailures
<1>1. CountInv /\ [Next]_vars => CountInv'
  BY CountStep
<1>2. CountInv => DeadLetterNeedsFailures
  BY DEF CountInv
<1> QED
  BY CountInit, <1>1, <1>2, PTL DEF Spec

\* On a stream with one reader a message fails more than max_deliveries times
\* only by as many crashes and Redis errors.
THEOREM RetriesAreBounded ==
    ASSUME SoleReader
    PROVE  Spec => []RetriesBounded
<1>1. CountInv /\ [Next]_vars => CountInv'
  BY CountStep
<1>2. CountInv => RetriesBounded
  BY DEF CountInv
<1> QED
  BY CountInit, <1>1, <1>2, PTL DEF Spec

=============================================================================
