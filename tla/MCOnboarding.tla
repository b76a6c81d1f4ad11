---------------------------- MODULE MCOnboarding ----------------------------
(* Instances of Onboarding for TLC. *)
EXTENDS Onboarding
CONSTANTS r1, r2, a1, a2, t1
MCServiceOf == [p \in {a1, a2, t1} |-> IF p = t1 THEN Tenant ELSE Auth]

Scenario(e1, e2, P, n, f, c) ==
    [email |-> [r \in {r1, r2} |-> IF r = r1 THEN e1 ELSE e2],
     procs |-> P, pool |-> n, faults |-> f, crashes |-> c]
Solo == {a1, t1}
Replicas == {a1, a2, t1}

\* One request: with two errors, with an error and a crash, and with both and a
\* single connection, which it holds while the consumer needs one.
One == {Scenario("e1", NoEmail, Solo, 2, 2, 0), Scenario("e1", NoEmail, Solo, 2, 1, 1),
        Scenario("e1", NoEmail, Solo, 1, 1, 1)}
\* Two requests, for one email and for two, with two connections for them and
\* the consumer.
Two == {Scenario("e1", "e1", Solo, 2, 1, 0), Scenario("e1", "e2", Solo, 2, 0, 0)}
\* One request and two replicas of auth-service, and with an error that can make
\* a second tenant, each with a single connection.
Replicated == {Scenario("e1", NoEmail, Replicas, 2, 0, 0),
               Scenario("e1", NoEmail, Replicas, 1, 1, 0)}
OneOrTwo == One \cup Two \cup Replicated

OneCalm == {Scenario("e1", NoEmail, Solo, 2, 0, 0)}
OneCrash == {Scenario("e1", NoEmail, Solo, 2, 0, 1)}
=============================================================================
