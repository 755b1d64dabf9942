------------------------------ MODULE ByteStream ------------------------------
(***************************************************************************)
(* What a connection promises of the bytes of one direction, numbered in   *)
(* the order in which they are put into it: they come out in that order,   *)
(* none twice and none left out.  It may be that not all of them come out. *)
(***************************************************************************)
EXTENDS Integers, Sequences

VARIABLES
    put,    \* how many bytes have been put into the stream
    got     \* the bytes that have come out

FirstBytes(n) == [i \in 1 .. n |-> i]

StreamInit == put = 0 /\ got = << >>

\* Bytes are put in, or come out, or both.
Transfer ==
    /\ put' \in Nat /\ put' >= put
    /\ \E n \in Len(got) .. put' : got' = FirstBytes(n)

StreamSpec == StreamInit /\ [][Transfer]_<<put, got>>
===============================================================================
