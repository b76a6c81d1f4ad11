----------------------------- MODULE MCGateway -----------------------------
(* Instances of Gateway for TLC. *)
EXTENDS Gateway
CONSTANTS r1, r2
Kind(m, p, t) == [method |-> m, path |-> p, token |-> t, pace |-> "prompt"]
\* Both methods, every kind of path, a bad token and a slow request where
\* they matter.
MCKinds == {Kind("GET", "public", "bad"), Kind("POST", "protected", "good"),
            [Kind("POST", "protected", "good") EXCEPT !.pace = "slow"],
            Kind("GET", "protected", "bad"), Kind("GET", "unrouted", "good"),
            Kind("GET", "exempt", "bad"), Kind("GET", "local", "bad"),
            Kind("POST", "local", "bad")}
=============================================================================
