----------------------------- MODULE MCProfile -----------------------------
(* Instance of Profile for TLC.  Values stand for names or for numbers. *)
EXTENDS Profile, TLC
CONSTANTS name, phone, v0, v1, v2, r1, r2, r3
Body(n, p) == [f \in Fields |-> IF f = name THEN n ELSE p]
\* One field, both, the value a field starts with, and nothing.
MCPatches == {Body(v1, Absent), Body(v0, v1), Body(v1, v0), Body(Absent, v2),
              Body(Absent, Absent)}
Symm == Permutations(Reqs)
=============================================================================
