----------------------------- MODULE ByteQueue -----------------------------
(***************************************************************************)
(* What a Buffer is to its users (Buffer.h): a queue of bytes.  The bytes  *)
(* put in are numbered 1, 2, 3, ..., so that a byte lost, repeated, moved  *)
(* or made up shows.                                                       *)
(***************************************************************************)
EXTENDS Integers, Sequences

VARIABLES
    content,        \* the readable bytes, oldest first
    fed,            \* how many bytes have been put in
    delivered       \* the bytes taken out, in order

bqVars == <<content, fed, delivered>>

\* The n bytes that follow byte number k.
BytesAfter(k, n) == [i \in 1..n |-> k + i]

BQInit ==
    /\ content = <<>>
    /\ fed = 0
    /\ delivered = <<>>

Put ==
    /\ fed' \in Nat /\ fed' >= fed
    /\ content' = content \o BytesAfter(fed, fed' - fed)
    /\ UNCHANGED delivered

Get ==
    \E n \in 0..Len(content) :
        /\ delivered' = delivered \o SubSeq(content, 1, n)
        /\ content' = SubSeq(content, n + 1, Len(content))
        /\ UNCHANGED fed

BQNext == Put \/ Get

BQSpec == BQInit /\ [][BQNext]_bqVars
============================================================================
