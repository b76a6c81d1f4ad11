------------------------------ MODULE MCFiles ------------------------------
(* Instances of Files for TLC.  Users and threads only occur in equalities. *)
EXTENDS Files, TLC
CONSTANTS u1, u2, th1, th2
Symm == Permutations({u1, u2}) \cup Permutations({th1, th2})
=============================================================================
