----------------------------- MODULE MCSessions -----------------------------
(* Instance of Sessions for TLC: two tabs of one browser, or a browser and a
   client of another user that may drop its cookies. *)
EXTENDS Sessions
CONSTANTS u1, u2, b1, b2, x1, x2, th1
MCUserOf == [b \in {b1, b2} |-> IF b = b2 THEN u2 ELSE u1]
MCLayouts == {[x \in {x1, x2} |-> IF x = x1 THEN b1 ELSE b] : b \in {b1, b2}}
=============================================================================
