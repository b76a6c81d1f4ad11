--------------------------- MODULE GroupDelivery ---------------------------
(***************************************************************************)
(* What the event bus promises, whatever crashes: a message published is   *)
(* offered to every group, in order; a group finishes with a message only  *)
(* after its handler ran or the message was set aside in the dead letter   *)
(* stream; and a group never forgets a message it has not finished with.   *)
(* Handling may be repeated (at least once), settling never is.            *)
(***************************************************************************)
EXTENDS Naturals, Sequences

CONSTANTS Groups, Types, Wanted(_)

VARIABLES stream,    \* messages published
          offered,   \* offered[g]: how much of the stream g was offered
          pending,   \* pending[g]: offered to g and not finished
          disposed   \* disposed[g]: handled, dead-lettered or of no interest

vars == <<stream, offered, pending, disposed>>

Init ==
    /\ stream = <<>>
    /\ offered = [g \in Groups |-> 0]
    /\ pending = [g \in Groups |-> {}]
    /\ disposed = [g \in Groups |-> {}]

Publish(t) ==
    /\ stream' = Append(stream, t)
    /\ disposed' = [g \in Groups |-> IF t \in Wanted(g) THEN disposed[g]
                                     ELSE disposed[g] \cup {Len(stream) + 1}]
    /\ UNCHANGED <<offered, pending>>

Offer(g) ==
    /\ \E n \in (offered[g] + 1)..Len(stream) :
         /\ offered' = [offered EXCEPT ![g] = n]
         /\ pending' = [pending EXCEPT ![g] = @ \cup ((offered[g] + 1)..n)]
    /\ UNCHANGED <<stream, disposed>>

\* Handled, by any process of the group, or copied to the dead letter stream.
Dispose(g, m) ==
    /\ disposed' = [disposed EXCEPT ![g] = @ \cup {m}]
    /\ m \in 1..offered[g]
    /\ UNCHANGED <<stream, offered, pending>>

Settle(g, m) ==
    /\ m \in pending[g] \cap disposed[g]
    /\ pending' = [pending EXCEPT ![g] = @ \ {m}]
    /\ UNCHANGED <<stream, offered, disposed>>

Next ==
    \/ \E t \in Types : Publish(t)
    \/ \E g \in Groups :
         \/ Offer(g)
         \/ \E m \in 1..offered[g] : Dispose(g, m) \/ Settle(g, m)

Spec == Init /\ [][Next]_vars
=============================================================================
