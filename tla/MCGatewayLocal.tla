--------------------------- MODULE MCGatewayLocal ---------------------------
(* Instances of GatewayLocal for TLC. *)
EXTENDS GatewayLocal
CONSTANTS c1, c2
MCMayAsk == (c1 :> {"media", "docs", "health"}) @@ (c2 :> {"docs"})
MCServices == <<AuthService, FilesService>>
\* The first in the order: what it does could do harm to the second.
MCFlaky == {AuthService}
Bytes(f, l) == [first |-> f, last |-> l]
\* Every form of the header; numbers at and beyond the end of the file.
MCHeaders == {NoRange, Bytes(Blank, Blank), Bytes(Blank, 0), Bytes(Blank, 1),
              Bytes(Blank, 3), Bytes(0, Blank), Bytes(1, 2), Bytes(1, 0),
              Bytes(2, 2)}
=============================================================================
