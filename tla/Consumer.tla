------------------------------ MODULE Consumer ------------------------------
(***************************************************************************)
(* The event bus of shared/events: a Redis stream per domain, read by      *)
(* consumer groups.  Every call the consumer thread makes to Redis is a    *)
(* step of its own, so that a crash, an outage or another consumer of the  *)
(* stream can come between any two of them.                                *)
(*                                                                         *)
(* What Redis keeps survives every crash: the stream, each group's last    *)
(* delivered id and pending entries list (PEL), the hash of delivery       *)
(* counters and the dead letter stream.  What the thread keeps (its place  *)
(* in run_forever and in _handle, the rest of the batch) does not.         *)
(* All processes of a group use the same consumer name, so they share the  *)
(* PEL; the hash of counters is shared by all groups of the stream.        *)
(***************************************************************************)
EXTENDS Naturals, Sequences, FiniteSets

CONSTANTS Procs,         \* consumer processes
          Groups,        \* consumer groups of the stream
          GroupOf,       \* the group each process reads for
          Types,         \* event types
          Handles,       \* Handles[g]: types in the handlers dict of group g
          Fails,         \* Fails[g]: types whose handling in g always raises
          MaxDeliveries, \* max_deliveries of Consumer.__init__
          Count,         \* count=10 of XREADGROUP
          MaxMsgs,       \* bound: messages published
          MaxFaults,     \* bound: exceptions from Redis or from a handler
          MaxCrashes     \* bound: process deaths

ASSUME ConsumerAssumption ==
    /\ GroupOf \in [Procs -> Groups]
    /\ Handles \in [Groups -> SUBSET Types]
    /\ Fails \in [Groups -> SUBSET Types]
    /\ MaxDeliveries \in Nat \ {0}
    /\ Count \in Nat \ {0}
    /\ MaxMsgs \in Nat
    /\ MaxFaults \in Nat
    /\ MaxCrashes \in Nat

VARIABLES
    stream,      \* Redis: the stream, a sequence of types; ids are positions
    made,        \* Redis: the groups that exist
    lastId,      \* Redis: last id delivered to each group
    pel,         \* Redis: ids delivered to each group and not acknowledged
    deliveries,  \* Redis: the hash <stream>:deliveries (0 is an absent field)
    dlq,         \* Redis: copies of each id that each group put in the DLQ
    pc,          \* thread: the place in run_forever / _handle
    startId,     \* thread: start_id of run_forever
    batch,       \* thread: ids of the last XREADGROUP reply not yet handled
    cur,         \* thread: the id _handle is working on
    handled,     \* history: ids whose handler returned, per group
    raised,      \* history: how often handling of an id raised, per group
    faults, crashes

redisVars == <<stream, made, lastId, pel, deliveries, dlq>>
threadVars == <<pc, startId, batch, cur>>
ghostVars == <<handled, raised>>
vars == <<redisVars, threadVars, ghostVars, faults, crashes>>

Ids == 1..MaxMsgs
History == "0"       \* XREADGROUP from "0": the consumer's own PEL
New == ">"           \* XREADGROUP from ">": entries never delivered

Places == {"down", "ensure", "run", "ack", "hdel", "skipAck", "failed",
           "dlqAdd", "dlqAck", "dlqDel", "dead"}

Published == 1..Len(stream)
Undelivered(g) == {m \in Published : m > lastId[g]}

\* The first n ids of S: XREADGROUP answers in id order.
FirstOf(S, n) == {m \in S : Cardinality({k \in S : k <= m}) <= n}

\* Types for which group g does more than acknowledge: a malformed envelope
\* raises in every group, before the handler is looked up.
Wanted(g) == Handles[g] \cup Fails[g]

Init ==
    /\ stream = <<>>
    /\ made = {}
    /\ lastId = [g \in Groups |-> 0]
    /\ pel = [g \in Groups |-> {}]
    /\ deliveries = [m \in Ids |-> 0]
    /\ dlq = [g \in Groups |-> [m \in Ids |-> 0]]
    /\ pc = [p \in Procs |-> "down"]
    /\ startId = [p \in Procs |-> History]
    /\ batch = [p \in Procs |-> {}]
    /\ cur = [p \in Procs |-> 0]
    /\ handled = [g \in Groups |-> {}]
    /\ raised = [g \in Groups |-> [m \in Ids |-> 0]]
    /\ faults = 0
    /\ crashes = 0

Goto(p, place) == pc' = [pc EXCEPT ![p] = place]

-----------------------------------------------------------------------------
(* EventBus.publish, called by any service *)

Publish(t) ==
    /\ Len(stream) < MaxMsgs
    /\ stream' = Append(stream, t)
    /\ UNCHANGED <<made, lastId, pel, deliveries, dlq, threadVars, ghostVars,
                   faults, crashes>>

-----------------------------------------------------------------------------
(* The process: the lifespan of the service starts the thread; a deployment,
   a crash or the end of the lifespan (stop, join for 5 s, exit) kills it. *)

Start(p) ==
    /\ pc[p] = "down"
    /\ Goto(p, "ensure")
    /\ UNCHANGED <<redisVars, startId, batch, cur, ghostVars, faults, crashes>>

Kill(p) ==
    /\ pc[p] # "down"
    /\ crashes < MaxCrashes
    /\ crashes' = crashes + 1
    /\ Goto(p, "down")
    /\ startId' = [startId EXCEPT ![p] = History]
    /\ batch' = [batch EXCEPT ![p] = {}]
    /\ cur' = [cur EXCEPT ![p] = 0]
    /\ UNCHANGED <<redisVars, ghostVars, faults>>

-----------------------------------------------------------------------------
(* run_forever *)

\* XGROUP CREATE at id 0, so that entries older than the group are delivered;
\* BUSYGROUP is ignored.
MakeGroup(g) == made' = made \cup {g}

EnsureGroupNoHistory(p) == \* mutant: the loop starts with start_id = ">"
    /\ pc[p] = "ensure"
    /\ MakeGroup(GroupOf[p])
    /\ Goto(p, "run")
    /\ startId' = [startId EXCEPT ![p] = New]
    /\ UNCHANGED <<stream, lastId, pel, deliveries, dlq, batch, cur, ghostVars,
                   faults, crashes>>

EnsureGroup(p) ==
    /\ pc[p] = "ensure"
    /\ MakeGroup(GroupOf[p])
    /\ lastId' = IF GroupOf[p] \in made THEN lastId
                 ELSE [lastId EXCEPT ![GroupOf[p]] = 0]
    /\ Goto(p, "run")
    /\ startId' = [startId EXCEPT ![p] = History]
    /\ UNCHANGED <<stream, pel, deliveries, dlq, batch, cur, ghostVars,
                   faults, crashes>>

AtRead(p) == pc[p] = "run" /\ batch[p] = {}

ReadHistory(p) ==
    /\ AtRead(p) /\ startId[p] = History
    /\ pel[GroupOf[p]] # {}
    /\ batch' = [batch EXCEPT ![p] = FirstOf(pel[GroupOf[p]], Count)]
    /\ UNCHANGED <<redisVars, pc, startId, cur, ghostVars, faults, crashes>>

HistoryForever(p) == \* mutant: start_id is never set to ">"
    /\ AtRead(p) /\ startId[p] = History
    /\ pel[GroupOf[p]] = {}
    /\ UNCHANGED vars

\* An empty reply moves the loop on to new entries, for good.
HistoryDone(p) ==
    /\ AtRead(p) /\ startId[p] = History
    /\ pel[GroupOf[p]] = {}
    /\ startId' = [startId EXCEPT ![p] = New]
    /\ UNCHANGED <<redisVars, pc, batch, cur, ghostVars, faults, crashes>>

\* Redis delivers the next entries to the group and records them in the PEL.
Deliver(g) ==
    LET S == FirstOf(Undelivered(g), Count) IN
    /\ S # {}
    /\ \E n \in S : /\ \A m \in S : m <= n
                    /\ lastId' = [lastId EXCEPT ![g] = n]
    /\ pel' = [pel EXCEPT ![g] = @ \cup S]

ReadNew(p) ==
    /\ AtRead(p) /\ startId[p] = New
    /\ Deliver(GroupOf[p])
    /\ batch' = [batch EXCEPT ![p] = FirstOf(Undelivered(GroupOf[p]), Count)]
    /\ UNCHANGED <<stream, made, deliveries, dlq, pc, startId, cur, ghostVars,
                   faults, crashes>>

-----------------------------------------------------------------------------
(* _handle *)

\* The next message of the batch, in id order.
Take(p, m) ==
    /\ pc[p] = "run"
    /\ m \in batch[p]
    /\ \A k \in batch[p] : m <= k
    /\ cur' = [cur EXCEPT ![p] = m]
    /\ batch' = [batch EXCEPT ![p] = @ \ {m}]

\* No handler for the type.
NoHandler(p) ==
    \E m \in batch[p] :
        /\ Take(p, m)
        /\ stream[m] \notin Wanted(GroupOf[p])
        /\ Goto(p, "skipAck")
        /\ UNCHANGED <<redisVars, startId, ghostVars, faults, crashes>>

HandlerReturns(p) ==
    \E m \in batch[p] :
        /\ Take(p, m)
        /\ stream[m] \in Handles[GroupOf[p]] \ Fails[GroupOf[p]]
        /\ handled' = [handled EXCEPT ![GroupOf[p]] = @ \cup {m}]
        /\ Goto(p, "ack")
        /\ UNCHANGED <<redisVars, startId, raised, faults, crashes>>

FailedIsAcked(p, m) == \* mutant: the message is acknowledged in a finally
    /\ raised' = [raised EXCEPT ![GroupOf[p]][m] = @ + 1]
    /\ Goto(p, "ack")

Failed(p, m) ==
    /\ raised' = [raised EXCEPT ![GroupOf[p]][m] = @ + 1]
    /\ Goto(p, "failed")

\* The envelope does not parse or the handler raises: always for the types in
\* Fails, now and then (a database or Redis error) for the others.
HandlerRaises(p) ==
    \E m \in batch[p] :
        /\ Take(p, m)
        /\ \/ /\ stream[m] \in Fails[GroupOf[p]]
              /\ UNCHANGED faults
           \/ /\ stream[m] \in Handles[GroupOf[p]] \ Fails[GroupOf[p]]
              /\ faults < MaxFaults
              /\ faults' = faults + 1
        /\ Failed(p, m)
        /\ UNCHANGED <<redisVars, startId, handled, crashes>>

\* The effects the Redis commands of _handle have on the server.
XAck(p) == pel' = [pel EXCEPT ![GroupOf[p]] = @ \ {cur[p]}]
HDel(p) == deliveries' = [deliveries EXCEPT ![cur[p]] = 0]
HDecrBy(p) == \* mutant: the counter runs the wrong way
    deliveries' = [deliveries EXCEPT ![cur[p]] = @ - 1]

HIncrBy(p) == deliveries' = [deliveries EXCEPT ![cur[p]] = @ + 1]
XAddDlq(p) == dlq' = [dlq EXCEPT ![GroupOf[p]][cur[p]] = @ + 1]

Ack(p) ==
    /\ pc[p] \in {"ack", "skipAck"}
    /\ XAck(p)
    /\ Goto(p, IF pc[p] = "ack" THEN "hdel" ELSE "run")
    /\ UNCHANGED <<stream, made, lastId, deliveries, dlq, startId, batch, cur,
                   ghostVars, faults, crashes>>

ClearCounter(p) ==
    /\ pc[p] = "hdel"
    /\ HDel(p)
    /\ Goto(p, "run")
    /\ UNCHANGED <<stream, made, lastId, pel, dlq, startId, batch, cur,
                   ghostVars, faults, crashes>>

CountFailureEarly(p) == \* mutant: off by one in the comparison
    /\ pc[p] = "failed"
    /\ HIncrBy(p)
    /\ Goto(p, IF deliveries[cur[p]] + 2 >= MaxDeliveries THEN "dlqAdd" ELSE "run")
    /\ UNCHANGED <<stream, made, lastId, pel, dlq, startId, batch, cur,
                   ghostVars, faults, crashes>>

CountFailureNoLimit(p) == \* mutant: no dead-lettering
    /\ pc[p] = "failed"
    /\ HIncrBy(p)
    /\ Goto(p, "run")
    /\ UNCHANGED <<stream, made, lastId, pel, dlq, startId, batch, cur,
                   ghostVars, faults, crashes>>

CountFailureAckFirst(p) == \* mutant: acknowledged, never copied to the DLQ
    /\ pc[p] = "failed"
    /\ HIncrBy(p)
    /\ Goto(p, IF deliveries'[cur[p]] >= MaxDeliveries THEN "dlqAck" ELSE "run")
    /\ UNCHANGED <<stream, made, lastId, pel, dlq, startId, batch, cur,
                   ghostVars, faults, crashes>>

CountFailure(p) ==
    /\ pc[p] = "failed"
    /\ HIncrBy(p)
    /\ Goto(p, IF deliveries'[cur[p]] >= MaxDeliveries THEN "dlqAdd" ELSE "run")
    /\ UNCHANGED <<stream, made, lastId, pel, dlq, startId, batch, cur,
                   ghostVars, faults, crashes>>

DeadLetter(p) ==
    /\ pc[p] = "dlqAdd"
    /\ XAddDlq(p)
    /\ Goto(p, "dlqAck")
    /\ UNCHANGED <<stream, made, lastId, pel, deliveries, startId, batch, cur,
                   ghostVars, faults, crashes>>

AckDeadLetter(p) ==
    /\ pc[p] = "dlqAck"
    /\ XAck(p)
    /\ Goto(p, "dlqDel")
    /\ UNCHANGED <<stream, made, lastId, deliveries, dlq, startId, batch, cur,
                   ghostVars, faults, crashes>>

ClearDeadLetter(p) ==
    /\ pc[p] = "dlqDel"
    /\ HDel(p)
    /\ Goto(p, "run")
    /\ UNCHANGED <<stream, made, lastId, pel, dlq, startId, batch, cur,
                   ghostVars, faults, crashes>>

-----------------------------------------------------------------------------
(* Redis errors.  The command may have been executed when the client raises
   (the reply is lost) or not.  Inside the try of _handle the except clause
   catches it and counts a delivery; anywhere else it ends the thread, while
   the process and its HTTP side stay up. *)

Fault == faults < MaxFaults /\ faults' = faults + 1

FaultInTry(p) ==
    /\ pc[p] \in {"ack", "skipAck", "hdel"}
    /\ Fault
    /\ \/ UNCHANGED <<pel, deliveries>>
       \/ pc[p] # "hdel" /\ XAck(p) /\ UNCHANGED deliveries
       \/ pc[p] = "hdel" /\ HDel(p) /\ UNCHANGED pel
    /\ Failed(p, cur[p])
    /\ UNCHANGED <<stream, made, lastId, dlq, startId, batch, cur, handled,
                   crashes>>

FaultInExcept(p) ==
    /\ pc[p] \in {"failed", "dlqAdd", "dlqAck", "dlqDel"}
    /\ Fault
    /\ \/ UNCHANGED <<pel, deliveries, dlq>>
       \/ pc[p] = "failed" /\ HIncrBy(p) /\ UNCHANGED <<pel, dlq>>
       \/ pc[p] = "dlqAdd" /\ XAddDlq(p) /\ UNCHANGED <<pel, deliveries>>
       \/ pc[p] = "dlqAck" /\ XAck(p) /\ UNCHANGED <<deliveries, dlq>>
       \/ pc[p] = "dlqDel" /\ HDel(p) /\ UNCHANGED <<pel, dlq>>
    /\ Goto(p, "dead")
    /\ UNCHANGED <<stream, made, lastId, startId, batch, cur, ghostVars,
                   crashes>>

FaultInLoop(p) ==
    /\ pc[p] = "ensure" \/ AtRead(p)
    /\ Fault
    /\ \/ UNCHANGED <<lastId, pel>>
       \/ AtRead(p) /\ startId[p] = New /\ Deliver(GroupOf[p])
    /\ Goto(p, "dead")
    /\ UNCHANGED <<stream, made, deliveries, dlq, startId, batch, cur,
                   ghostVars, crashes>>

-----------------------------------------------------------------------------
\* What the thread does when nothing goes wrong around it.
Run(p) ==
    \/ EnsureGroup(p) \/ ReadHistory(p) \/ HistoryDone(p) \/ ReadNew(p)
    \/ NoHandler(p) \/ HandlerReturns(p) \/ HandlerRaises(p)
    \/ Ack(p) \/ ClearCounter(p)
    \/ CountFailure(p) \/ DeadLetter(p) \/ AckDeadLetter(p)
    \/ ClearDeadLetter(p)

Next ==
    \/ \E t \in Types : Publish(t)
    \/ \E p \in Procs :
         \/ Start(p) \/ Run(p) \/ Kill(p)
         \/ FaultInTry(p) \/ FaultInExcept(p) \/ FaultInLoop(p)

Spec == Init /\ [][Next]_vars

\* A thread that is alive runs.  Nothing in the repository starts a process that
\* is down again, nor a thread that has died in a process that lives.
Fairness == \A p \in Procs : WF_vars(Run(p))

FairSpec == Spec /\ Fairness

-----------------------------------------------------------------------------
TypeOK ==
    /\ stream \in Seq(Types) /\ Len(stream) <= MaxMsgs
    /\ made \subseteq Groups
    /\ lastId \in [Groups -> Nat]
    /\ pel \in [Groups -> SUBSET Ids]
    /\ deliveries \in [Ids -> Nat]
    /\ dlq \in [Groups -> [Ids -> Nat]]
    /\ pc \in [Procs -> Places]
    /\ startId \in [Procs -> {History, New}]
    /\ batch \in [Procs -> SUBSET Ids]
    /\ cur \in [Procs -> Ids \cup {0}]
    /\ handled \in [Groups -> SUBSET Ids]
    /\ raised \in [Groups -> [Ids -> Nat]]
    /\ faults \in 0..MaxFaults
    /\ crashes \in 0..MaxCrashes

\* Group g needs nothing more from message m: its handler returned, it sits in
\* the dead letter stream, or g has no handler for it.
Disposed(g, m) ==
    \/ m \in handled[g]
    \/ dlq[g][m] > 0
    \/ stream[m] \notin Wanted(g)

\* No message is lost: whatever was delivered to a group and is no longer
\* pending there has been handled, dead-lettered or was nobody's business;
\* whatever crash or Redis error came between the commands of _handle.
NothingLost ==
    \A g \in Groups : \A m \in Published :
        m <= lastId[g] /\ m \notin pel[g] => Disposed(g, m)

\* What each group is done with, as GroupDelivery sees it.
DisposedSet(g) == {m \in Published : Disposed(g, m)}

\* The consumer implements the at-least-once contract of GroupDelivery.
Contract == INSTANCE GroupDelivery WITH
    offered <- lastId,
    pending <- pel,
    disposed <- [g \in Groups |-> DisposedSet(g)]

AtLeastOnce == Contract!Spec

\* With one process per stream, a message is dead-lettered only when handling
\* it failed max_deliveries times.  (The counters are shared by the groups.)
DeadLetterNeedsFailures ==
    \A g \in Groups : \A m \in Ids : dlq[g][m] > 0 => raised[g][m] >= MaxDeliveries

\* Retries are bounded: past max_deliveries, a message is handled again only
\* when a crash or an error cut the except clause short.
RetriesBounded ==
    \A g \in Groups : \A m \in Ids :
        raised[g][m] <= MaxDeliveries + faults + crashes

\* A process that is up gets every message published for its group, new ones
\* and those published before the group was, unless it goes down or its thread
\* dies first: what failed or is pending does not keep it from new messages.
EventuallyDelivered ==
    \A p \in Procs : \A m \in Ids :
        (m <= Len(stream) /\ pc[p] # "down")
            ~> (lastId[GroupOf[p]] >= m \/ pc[p] \in {"dead", "down"})

\* What was pending when the process started is settled by that process
\* before it dies: run_forever reads its own PEL first, again and again.
RestartSettles ==
    \A p \in Procs : \A m \in Ids :
        (pc[p] = "ensure" /\ m \in pel[GroupOf[p]])
            ~> (m \notin pel[GroupOf[p]] \/ pc[p] \in {"dead", "down"})

\* A message whose handling raised is retried until it is handled or reaches
\* the dead letter stream.
FailedIsSettled ==
    \A g \in Groups : \A m \in Ids : (raised[g][m] > 0) ~> (m \notin pel[g])

=============================================================================
