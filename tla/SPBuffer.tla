------------------------------ MODULE SPBuffer ------------------------------
(***************************************************************************)
(* The circular byte buffer of SPBuffer.h and SPBuffer.cpp.  A buffer is a *)
(* record with the fields of the class: back (where bytes are consumed),   *)
(* front (where bytes are added), size (bytes stored), bsize (capacity)    *)
(* and mem, the bsize bytes that `buffer' points to.  Every member         *)
(* function is an operator from a buffer to a buffer, so that a controller *)
(* can use the same definitions for its two buffers; the state machine     *)
(* below lets a caller invoke them in any order.                           *)
(*                                                                         *)
(* The class is used in two ways.  write/read/peek copy to and from memory *)
(* of the caller.  The socket paths instead pass writePtr()/readPtr() and  *)
(* distanceWrite()/distanceRead() to recv()/send() and then report what    *)
(* the call did with commitWrite()/commitRead(); recvInto and commitRead   *)
(* are those two sequences.                                                *)
(***************************************************************************)
EXTENDS Integers, Sequences

CONSTANTS BSIZE,     \* READ_BSIZE or WRITE_BSIZE of the configuration
          Byte,      \* the values of a byte
          Data,      \* the byte strings a caller may write
          Lengths    \* the lengths a caller may pass

ASSUME BSIZEAssumption   == BSIZE \in Nat \ {0}
ASSUME DataAssumption    == Data \subseteq Seq(Byte)
ASSUME LengthsAssumption == Lengths \subseteq Nat

VARIABLES buf,       \* the buffer
          out,       \* the bytes the last call handed to the caller or to send()
          ret        \* the count the last call returned or committed

vars == <<buf, out, ret>>

-----------------------------------------------------------------------------
(* Member functions.                                                       *)

\* The smaller of two lengths.
Least(m, n) == IF m < n THEN m ELSE n

Pos(b) == 0 .. (b.bsize - 1)

bytesRead(b)  == b.size
bytesWrite(b) == b.bsize - b.size

\* Contiguous bytes that can be written at writePtr() and read at readPtr().
distanceWrite(b) == Least(bytesWrite(b), b.bsize - b.front)
distanceRead(b)  == Least(bytesRead(b), b.bsize - b.back)

commitRead(b, len) ==
    [b EXCEPT !.back = (b.back + len) % b.bsize, !.size = b.size - len]

\* Faulty variant of commitWrite: front runs past the end of the memory.
commitWriteUnwrapped(b, len) ==
    [b EXCEPT !.front = b.front + len, !.size = b.size + len]

commitWrite(b, len) ==
    IF b.size + len = 0
    THEN [b EXCEPT !.front = 0, !.back = 0, !.size = 0]
    ELSE [b EXCEPT !.front = (b.front + len) % b.bsize, !.size = b.size + len]

\* The memory after a call stored data at writePtr(), from front upwards.
storeAtWritePtr(b, data) ==
    [b EXCEPT !.mem = [p \in Pos(b) |->
        IF p >= b.front /\ p < b.front + Len(data)
        THEN data[p - b.front + 1] ELSE b.mem[p]]]

\* The len bytes found at readPtr(), from back upwards.
loadAtReadPtr(b, len) == [i \in 1 .. len |-> b.mem[b.back + i - 1]]

\* The length of the first memcpy of read, peek and write: up to the end of
\* the memory, the rest comes from (or goes to) its beginning.
firstChunk(b, at, len) == IF at + len > b.bsize THEN b.bsize - at ELSE len

\* Faulty variant of copyOut: the second memcpy starts one byte too far.
copyOutShifted(b, len) ==
    LET n     == Least(len, b.size)
        first == firstChunk(b, b.back, n)
    IN  [i \in 1 .. n |-> IF i <= first THEN b.mem[b.back + i - 1]
                                        ELSE b.mem[i - first]]

\* The bytes that read and peek copy to the caller, in one or two memcpys.
copyOut(b, len) ==
    LET n     == Least(len, b.size)
        first == firstChunk(b, b.back, n)
    IN  [i \in 1 .. n |-> IF i <= first THEN b.mem[b.back + i - 1]
                                        ELSE b.mem[i - first - 1]]

\* Faulty variant of read: an emptied buffer resets back only.
readKeepsFront(b, len) ==
    LET n == Least(len, b.size)
    IN  IF b.size = n
        THEN [b EXCEPT !.size = 0, !.back = 0]
        ELSE [b EXCEPT !.size = b.size - n, !.back = (b.back + n) % b.bsize]

\* read: consume what copyOut delivers; an emptied buffer restarts at 0.
read(b, len) ==
    LET n == Least(len, b.size)
    IN  IF n = 0 THEN b
        ELSE IF b.size = n
             THEN [b EXCEPT !.size = 0, !.front = 0, !.back = 0]
             ELSE [b EXCEPT !.size = b.size - n, !.back = (b.back + n) % b.bsize]

\* write: store the prefix of data that fits, in one or two memcpys.
write(b, data) ==
    LET n     == Least(Len(data), bytesWrite(b))
        first == firstChunk(b, b.front, n)
    IN  [b EXCEPT !.mem = [p \in Pos(b) |->
                     IF p >= b.front /\ p < b.front + first
                     THEN data[p - b.front + 1]
                     ELSE IF p < n - first THEN data[first + p + 1] ELSE b.mem[p]],
                  !.front = (b.front + n) % b.bsize,
                  !.size = b.size + n]

-----------------------------------------------------------------------------
(* The state machine: a caller that respects the documented preconditions. *)

\* After Init() the buffer is empty; the pool's memory is not initialised.
Init ==
    /\ buf \in [back : {0}, front : {0}, size : {0}, bsize : {BSIZE},
                mem : [0 .. (BSIZE - 1) -> Byte]]
    /\ out = << >>
    /\ ret = 0

Write(data) ==
    /\ buf' = write(buf, data)
    /\ out' = << >>
    /\ ret' = Least(Len(data), bytesWrite(buf))

Read(len) ==
    /\ out' = copyOut(buf, len)
    /\ buf' = read(buf, len)
    /\ ret' = Least(len, buf.size)

Peek(len) ==
    /\ out' = copyOut(buf, len)
    /\ ret' = Least(len, buf.size)
    /\ UNCHANGED buf

\* recv() stored data, which fits in distanceWrite(), and it is committed.
RecvInto(data) ==
    /\ Len(data) <= distanceWrite(buf)
    /\ buf' = commitWrite(storeAtWritePtr(buf, data), Len(data))
    /\ out' = << >>
    /\ ret' = Len(data)

\* send() took len bytes at readPtr() and they are committed.
SendFrom(len) ==
    /\ len <= distanceRead(buf)
    /\ out' = loadAtReadPtr(buf, len)
    /\ buf' = commitRead(buf, len)
    /\ ret' = len

Next ==
    \/ \E data \in Data : Write(data) \/ RecvInto(data)
    \/ \E len \in Lengths : Read(len) \/ Peek(len) \/ SendFrom(len)

Spec == Init /\ [][Next]_vars

-----------------------------------------------------------------------------
(* Properties.                                                             *)

\* The fields of the class stay in their ranges: the positions inside the
\* memory and the byte count within the capacity.
TypeOK ==
    /\ buf \in [back : 0 .. (BSIZE - 1), front : 0 .. (BSIZE - 1),
                size : 0 .. BSIZE, bsize : {BSIZE},
                mem : [0 .. (BSIZE - 1) -> Byte]]
    /\ out \in Seq(Byte)
    /\ ret \in Nat

\* front is always size positions after back, whichever of the two commit
\* styles moved them and although only some of the functions reset an emptied
\* buffer to position 0 (SPBuffer.cpp lines 43-55 and 79-87).
PositionsAgree == buf.front = (buf.back + buf.size) % BSIZE

\* The bytes stored in the buffer, the oldest first.
Contents(b) == [i \in 1 .. b.size |-> b.mem[(b.back + i - 1) % b.bsize]]

Fifo == INSTANCE BoundedFifo WITH Capacity <- BSIZE, queue <- Contents(buf)

\* The ring of SPBuffer.cpp is a bounded FIFO: every byte that write, or a
\* recv() into the buffer, accepts is delivered by read, or to send(), once
\* and in order, and peek shows exactly the bytes the next read would deliver.
ImplementsFifo == Fifo!Spec
=============================================================================
