--------------------------- MODULE OnboardingSaga ---------------------------
(***************************************************************************)
(* What onboarding promises across auth-service and tenant-service: an     *)
(* account goes from none to pending to active and never back; no two      *)
(* accounts share an email; an account is activated once, with a tenant    *)
(* that exists and was created for it, and keeps that tenant for good.     *)
(* An account that is raced for may be activated again, with a tenant that *)
(* was created for it; only a pending account that has one can be.         *)
(***************************************************************************)
EXTENDS Naturals, Sequences

CONSTANTS Reqs

VARIABLES emailOf,  \* emailOf[r]: its email, anything its owner
                    \* asks for, which never changes
          status,   \* status[r]: the account request r asks for
          tenantOf, \* tenantOf[r]: its tenant (a position in tenants) or 0
          tenants,  \* tenants created, each for an account
          raced     \* accounts that are, or were, raced for

vars == <<emailOf, status, tenantOf, tenants, raced>>

Init ==
    /\ status = [r \in Reqs |-> "none"]
    /\ tenantOf = [r \in Reqs |-> 0]
    /\ tenants = <<>> /\ raced = {}

Register(r) ==
    /\ \A q \in Reqs : emailOf[q] = emailOf[r] => status[q] = "none"
    /\ status' = [status EXCEPT ![r] = "pending"]
    /\ UNCHANGED <<emailOf, tenantOf, tenants, raced>>

CreateTenant(r) ==
    /\ status[r] # "none"
    /\ tenants' = Append(tenants, r)
    /\ UNCHANGED <<emailOf, status, tenantOf, raced>>

Activate(r, t) ==
    /\ status[r] = "pending"
    /\ t \in DOMAIN tenants /\ tenants[t] = r
    /\ status' = [status EXCEPT ![r] = "active"]
    /\ tenantOf' = [tenantOf EXCEPT ![r] = t]
    /\ UNCHANGED <<emailOf, tenants, raced>>

Race(r) ==
    /\ status[r] = "pending"
    /\ \E t \in DOMAIN tenants : tenants[t] = r
    /\ raced' = raced \cup {r}
    /\ UNCHANGED <<emailOf, status, tenantOf, tenants>>

Reactivate(r, t) ==
    /\ r \in raced /\ status[r] = "active"
    /\ t \in DOMAIN tenants /\ tenants[t] = r
    /\ tenantOf' = [tenantOf EXCEPT ![r] = t]
    /\ UNCHANGED <<emailOf, status, tenants, raced>>

Next ==
    \E r \in Reqs :
        \/ Register(r) \/ CreateTenant(r) \/ Race(r)
        \/ \E t \in DOMAIN tenants : Activate(r, t) \/ Reactivate(r, t)

Spec == Init /\ [][Next]_vars
=============================================================================
