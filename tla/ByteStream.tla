------------------------------- MODULE ByteStream ------------------------------
(***************************************************************************)
(* What the TCP socket promises its reader (spec section 4, "in-order data *)
(* is appended to the receive buffer"): the bytes handed to the            *)
(* application, read or still buffered, are a prefix of the peer's stream  *)
(* that only grows, a few bytes at a time.  A byte is its stream offset.   *)
(***************************************************************************)
EXTENDS Naturals, Sequences

CONSTANT DataLen   \* length of the peer's stream

VARIABLE delivered \* the stream bytes the socket has accepted so far

TypeOK == delivered \in Seq(0 .. DataLen - 1)

Init == delivered = <<>>

\* The next n bytes of the stream are accepted, after those already taken.
Accept(n) ==
    /\ Len(delivered) + n <= DataLen
    /\ delivered' = delivered \o [k \in 1 .. n |-> Len(delivered) + k - 1]

Next == \E n \in 1 .. DataLen : Accept(n)

Spec == Init /\ [][Next]_delivered

=============================================================================
