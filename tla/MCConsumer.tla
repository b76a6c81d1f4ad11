----------------------------- MODULE MCConsumer -----------------------------
(* Instances of Consumer for TLC. *)
EXTENDS Consumer, TLC

CONSTANTS p1, p2, p3, auth, tenant

\* A type every group handles, a type with no handler, and one that raises.
MCTypes == {"good", "other", "bad"}

\* One process of one group.
SoloGroupOf == [p \in {p1} |-> auth]
SoloHandles == [g \in {auth} |-> {"good"}]
SoloFails == [g \in {auth} |-> {"bad"}]

\* Two replicas of auth, with one consumer name, and one process of tenant.
\* tenant handles good, auth does not; a malformed envelope raises in both.
SharedGroupOf == [p \in {p1, p2, p3} |-> IF p = p3 THEN tenant ELSE auth]
SharedHandles == [g \in {auth, tenant} |-> IF g = tenant THEN {"good"} ELSE {}]
SharedFails == [g \in {auth, tenant} |-> {"bad"}]
\* The type auth has no handler for plays the part of other.
SharedTypes == {"good", "bad"}
Replicas == Permutations({p1, p2})
=============================================================================
