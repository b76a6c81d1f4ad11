------------------------ MODULE CompletionRegistry ------------------------
(***************************************************************************)
(* The registry through which the consumer thread of an auth process tells *)
(* the thread of an onboarding request that the user has a tenant.  Both   *)
(* sides hold a lock, so register, complete and the reading of the result  *)
(* are atomic; the wait on the threading.Event is not.                     *)
(* Every process has a registry of its own; what matters of a user is in   *)
(* that of the process which serves its request.  Every user has one       *)
(* waiter (user ids are new to each request) and is completed at most once *)
(* there (the handler returns the user only when it was not active yet).   *)
(* clear() has no caller, so it is not an action.  Onboarding instantiates *)
(* this module: the request threads and the consumer threads there take    *)
(* these steps.                                                            *)
(***************************************************************************)
CONSTANTS Users, Tenants, None

VARIABLES
    events,    \* _events: is there an Event for the user, and is it set?
    results,   \* _results
    waiter,    \* where the request thread is in wait_for
    answer,    \* what wait_for returned
    completed, \* history: the tenant complete() was called with
    when       \* history: where the waiter was when it was called

vars == <<events, results, waiter, answer, completed, when>>

Init ==
    /\ events = [u \in Users |-> "absent"]
    /\ results = [u \in Users |-> None]
    /\ waiter = [u \in Users |-> "idle"]
    /\ answer = [u \in Users |-> None]
    /\ completed = [u \in Users |-> None]
    /\ when = [u \in Users |-> "never"]

\* register(): a first registration drops a result that is already there.
Register(u) ==
    /\ waiter[u] = "idle"
    /\ waiter' = [waiter EXCEPT ![u] = "blocked"]
    /\ IF events[u] = "absent"
       THEN /\ events' = [events EXCEPT ![u] = "clear"]
            /\ results' = [results EXCEPT ![u] = None]
       ELSE UNCHANGED <<events, results>>
    /\ UNCHANGED <<answer, completed, when>>

CompleteSilently(u, t) == \* mutant: the Event is set, the result not stored
    /\ events' = [events EXCEPT ![u] = IF @ = "absent" THEN @ ELSE "set"]
    /\ completed' = [completed EXCEPT ![u] = t]
    /\ when' = [when EXCEPT ![u] = waiter[u]]
    /\ UNCHANGED <<results, waiter, answer>>

\* complete(): store the result, set the Event if somebody registered one.
Complete(u, t) ==
    /\ results' = [results EXCEPT ![u] = t]
    /\ events' = [events EXCEPT ![u] = IF @ = "absent" THEN @ ELSE "set"]
    /\ completed' = [completed EXCEPT ![u] = t]
    /\ when' = [when EXCEPT ![u] = waiter[u]]
    /\ UNCHANGED <<waiter, answer>>

\* event.wait() returns True...
Wake(u) ==
    /\ waiter[u] = "blocked"
    /\ events[u] = "set"
    /\ waiter' = [waiter EXCEPT ![u] = "woken"]
    /\ UNCHANGED <<events, results, answer, completed, when>>

\* ... and the result is read in a second critical section.
Collect(u) ==
    /\ waiter[u] = "woken"
    /\ waiter' = [waiter EXCEPT ![u] = "returned"]
    /\ answer' = [answer EXCEPT ![u] = results[u]]
    /\ UNCHANGED <<events, results, completed, when>>

\* event.wait() returns False after the timeout: wait_for answers None and
\* leaves the Event registered.
TimeOut(u) ==
    /\ waiter[u] = "blocked"
    /\ events[u] # "set"
    /\ waiter' = [waiter EXCEPT ![u] = "returned"]
    /\ UNCHANGED <<events, results, answer, completed, when>>

\* The process that serves the users of U dies, with the request threads of S;
\* the next process has an empty registry.
Restart(U, S) ==
    /\ events' = [u \in Users |-> IF u \in U THEN "absent" ELSE events[u]]
    /\ results' = [u \in Users |-> IF u \in U THEN None ELSE results[u]]
    /\ waiter' = [u \in Users |-> IF u \in S /\ waiter[u] # "returned"
                                  THEN "gone" ELSE waiter[u]]
    /\ UNCHANGED <<answer, completed, when>>

WaitForever(u) == Wake(u) \/ Collect(u) \* mutant: wait() without a timeout
Wait(u) == Wake(u) \/ Collect(u) \/ TimeOut(u)

-----------------------------------------------------------------------------
TypeOK ==
    /\ events \in [Users -> {"absent", "clear", "set"}]
    /\ results \in [Users -> Tenants \cup {None}]
    /\ waiter \in [Users -> {"idle", "blocked", "woken", "returned", "gone"}]
    /\ answer \in [Users -> Tenants \cup {None}]
    /\ completed \in [Users -> Tenants \cup {None}]
    /\ when \in [Users -> {"never", "idle", "blocked", "woken", "returned",
                           "gone"}]

\* A waiter is only ever told the tenant its own user was completed with, and
\* a waiter that is woken finds a result: wait_for never answers None for a
\* user completed while it was blocked.
AnswerIsCompletion ==
    \A u \in Users : waiter[u] = "returned" =>
        \/ answer[u] = None /\ when[u] # "blocked"
        \/ answer[u] = completed[u] /\ when[u] = "blocked"

\* "Returns the tenant_id if completed within `timeout`, otherwise None":
\* a user completed before wait_for gave up is answered with its tenant.
NoCompletionMissed ==
    \A u \in Users : waiter[u] = "returned" /\ when[u] \in {"idle", "blocked"}
        => answer[u] = completed[u]

=============================================================================
