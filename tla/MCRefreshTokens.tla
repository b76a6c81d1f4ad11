--------------------------- MODULE MCRefreshTokens ---------------------------
(* Instances of RefreshTokens for TLC.  Users and threads only occur in
   equalities, so both sets are symmetric where no temporal property asks. *)
EXTENDS RefreshTokens, TLC
CONSTANTS u1, u2, th1, th2, th3
Symm == Permutations(Users) \cup Permutations(Threads)
=============================================================================
