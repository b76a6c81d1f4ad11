----------------------------- MODULE RateLimit -----------------------------
(***************************************************************************)
(* is_rate_limited of the gateway: one Redis counter per client and window *)
(* of the clock.  The window is computed before the INCR is executed, and  *)
(* the EXPIRE is a second call that only the request which finds the       *)
(* counter at 1 makes.  One client is modelled: clients share nothing.     *)
(* Gateway instantiates this module and takes these steps.                 *)
(***************************************************************************)
EXTENDS Naturals

CONSTANTS Window,  \* 60 s
          Ttl,     \* 70 s
          Limit,   \* RATE_LIMIT_PER_MINUTE
          Windows  \* the windows of the clock

VARIABLES now,     \* the clock
          count,   \* Redis: the counter of each window, 0 when there is none
          expiry   \* Redis: when the counter expires, 0 while it has no TTL

vars == <<now, count, expiry>>

Init ==
    /\ now = 0
    /\ count = [w \in Windows |-> 0]
    /\ expiry = [w \in Windows |-> 0]

WindowOf(t) == t \div Window

Incr(w) ==
    /\ count' = [count EXCEPT ![w] = @ + 1]
    /\ UNCHANGED <<now, expiry>>

Expire(w) ==
    /\ expiry' = [expiry EXCEPT ![w] = IF count[w] = 0 THEN 0 ELSE now + Ttl]
    /\ UNCHANGED <<now, count>>

Exceeded(n) == n > Limit

\* Time passes, and Redis drops the counters whose TTL is over.
Tick ==
    /\ now' = now + 1
    /\ LET Due(w) == expiry[w] # 0 /\ expiry[w] <= now + 1 IN
         /\ count' = [w \in Windows |-> IF Due(w) THEN 0 ELSE count[w]]
         /\ expiry' = [w \in Windows |-> IF Due(w) THEN 0 ELSE expiry[w]]

TypeOK ==
    /\ now \in Nat
    /\ count \in [Windows -> Nat]
    /\ expiry \in [Windows -> Nat]
=============================================================================
