----------------------------- MODULE ByteRange -----------------------------
(***************************************************************************)
(* The Range header of a media request: which bytes of a file of a given   *)
(* size file_response_with_range promises.  A header is the two numbers    *)
(* of bytes=first-last, either of which may be left out.                   *)
(***************************************************************************)
EXTENDS Integers

Blank == -1
Numbers == Nat \cup {Blank}
Headers == [first : Numbers, last : Numbers]

\* The header is absent, or is not of the form bytes=first-last.
NoRange == [first |-> Blank - 1, last |-> Blank - 1]

Smaller(a, b) == IF a < b THEN a ELSE b
Larger(a, b) == IF a > b THEN a ELSE b

-----------------------------------------------------------------------------
(* As the code computes it *)

FirstByte(size, h) == IF h.first = Blank THEN Larger(0, size - h.last) ELSE h.first

LastByteUnclamped(size, h) == \* mutant: the end is not clamped to the file
    IF h.first # Blank /\ h.last # Blank THEN h.last ELSE size - 1

LastByte(size, h) ==
    IF h.first # Blank /\ h.last # Blank THEN Smaller(h.last, size - 1)
    ELSE size - 1

Satisfiable(size, h) ==
    /\ h.first # Blank \/ h.last # Blank
    /\ FirstByte(size, h) <= LastByte(size, h)
    /\ FirstByte(size, h) < size

-----------------------------------------------------------------------------
(* What the header asks for: bytes first to last, or the last so many *)

Asked(size, h) ==
    {p \in 0..(size - 1) :
        IF h.first = Blank THEN h.last # Blank /\ size - p <= h.last
        ELSE h.first <= p /\ (h.last # Blank => p <= h.last)}

=============================================================================
