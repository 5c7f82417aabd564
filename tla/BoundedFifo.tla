----------------------------- MODULE BoundedFifo -----------------------------
(***************************************************************************)
(* What a buffer of SPSock promises to its caller, without saying how: a   *)
(* first-in first-out queue of bytes that never holds more than Capacity   *)
(* bytes.  A put that does not fit is cut to its longest prefix that does, *)
(* a take or a peek that asks for more than there is gets what there is.   *)
(*                                                                         *)
(* SPBuffer (the ring of SPBuffer.cpp) implements this specification.      *)
(***************************************************************************)
EXTENDS Integers, Sequences

CONSTANTS Capacity,  \* the most bytes the queue holds
          Byte,      \* the values of a byte
          Data,      \* the byte strings a caller may put
          Lengths    \* the lengths a caller may ask for

VARIABLES queue,     \* the bytes in the queue, the oldest first
          out,       \* the bytes the last operation handed to its caller
          ret        \* the count the last operation returned

vars == <<queue, out, ret>>

\* The smaller of two lengths.
Least(m, n) == IF m < n THEN m ELSE n

Init ==
    /\ queue = << >>
    /\ out = << >>
    /\ ret = 0

\* Put the prefix of data that fits.
Put(data) ==
    LET n == Least(Len(data), Capacity - Len(queue))
    IN  /\ queue' = queue \o SubSeq(data, 1, n)
        /\ out' = << >>
        /\ ret' = n

\* Take the n oldest bytes, or all of them if there are fewer.
Take(len) ==
    LET n == Least(len, Len(queue))
    IN  /\ out' = SubSeq(queue, 1, n)
        /\ queue' = SubSeq(queue, n + 1, Len(queue))
        /\ ret' = n

\* Look at the n oldest bytes and leave them in the queue.
Peek(len) ==
    LET n == Least(len, Len(queue))
    IN  /\ out' = SubSeq(queue, 1, n)
        /\ ret' = n
        /\ UNCHANGED queue

Next ==
    \/ \E data \in Data : Put(data)
    \/ \E len \in Lengths : Take(len) \/ Peek(len)

Spec == Init /\ [][Next]_vars
=============================================================================
