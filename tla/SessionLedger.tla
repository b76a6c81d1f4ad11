--------------------------- MODULE SessionLedger ---------------------------
(***************************************************************************)
(* What refresh token rotation promises: every login opens a session of    *)
(* its own; an open session has exactly one token that can renew it;       *)
(* renewing replaces that token; a session that was closed (by logout or   *)
(* by the closing of all sessions of its user) is never open again.        *)
(***************************************************************************)
CONSTANTS Sessions, Users, Tokens, None

VARIABLES user,    \* user[s]: whose session it is, None before the login
          current  \* current[s]: the token that renews it, None when closed

vars == <<user, current>>

Init ==
    /\ user = [s \in Sessions |-> None]
    /\ current = [s \in Sessions |-> None]

Open(s, u, t) ==
    /\ user[s] = None
    /\ user' = [user EXCEPT ![s] = u]
    /\ current' = [current EXCEPT ![s] = t]

Renew(s, t) ==
    /\ current[s] # None
    /\ t # current[s]
    /\ current' = [current EXCEPT ![s] = t]
    /\ UNCHANGED user

Close(s) ==
    /\ current' = [current EXCEPT ![s] = None]
    /\ UNCHANGED user

CloseAll(u) ==
    /\ current' = [s \in Sessions |-> IF user[s] = u THEN None ELSE current[s]]
    /\ UNCHANGED user

\* Something changes: said first, so that TLC settles stuttering steps early.
Next ==
    /\ vars' # vars
    /\ \/ \E s \in Sessions, t \in Tokens :
            Renew(s, t) \/ \E u \in Users : Open(s, u, t)
       \/ \E s \in Sessions : Close(s)
       \/ \E u \in Users : CloseAll(u)

Spec == Init /\ [][Next]_vars
=============================================================================
