------------------------- MODULE SPControllerProofs -------------------------
(***************************************************************************)
(* The echoed bytes of SPController keep their order for any two ring      *)
(* sizes, any number of bytes and calls, and any watermarks.  What is      *)
(* known of a single ring comes from SPBufferProofs, once for the read and *)
(* once for the write buffer, whose sizes differ.                          *)
(***************************************************************************)
EXTENDS SPController, SequenceTheorems, TLAPS

R == INSTANCE SPBufferProofs WITH BSIZE <- READ_BSIZE, Byte <- 0 .. TOTAL, Data <- {},
                                  Lengths <- {}, buf <- readBuf, out <- << >>, ret <- 0
W == INSTANCE SPBufferProofs WITH BSIZE <- WRITE_BSIZE, Byte <- 0 .. TOTAL, Data <- {},
                                  Lengths <- {}, buf <- writeBuf, out <- << >>, ret <- 0

Bytes == Seq(0 .. TOTAL)

-----------------------------------------------------------------------------
(* The member functions on the two rings.                                  *)

\* The functions of SPBuffer do not depend on which of the buffers they work on.
LEMMA SameFunctions ==
  ASSUME NEW b
  PROVE  /\ B!bytesRead(b) = R!bytesRead(b) /\ B!bytesRead(b) = W!bytesRead(b)
         /\ B!bytesWrite(b) = R!bytesWrite(b) /\ B!bytesWrite(b) = W!bytesWrite(b)
         /\ B!distanceRead(b) = R!distanceRead(b) /\ B!distanceRead(b) = W!distanceRead(b)
         /\ B!distanceWrite(b) = R!distanceWrite(b) /\ B!distanceWrite(b) = W!distanceWrite(b)
         /\ \A n : /\ B!copyOut(b, n) = R!copyOut(b, n) /\ B!copyOut(b, n) = W!copyOut(b, n)
                   /\ B!read(b, n) = R!read(b, n)
                   /\ B!Least(n, b.size) = R!Least(n, b.size)
                   /\ B!loadAtReadPtr(b, n) = R!loadAtReadPtr(b, n)
                   /\ B!loadAtReadPtr(b, n) = W!loadAtReadPtr(b, n)
                   /\ B!commitRead(b, n) = R!commitRead(b, n)
                   /\ B!commitRead(b, n) = W!commitRead(b, n)
         /\ \A d : /\ B!commitWrite(B!storeAtWritePtr(b, d), Len(d))
                        = R!commitWrite(R!storeAtWritePtr(b, d), Len(d))
                   /\ B!commitWrite(B!storeAtWritePtr(b, d), Len(d))
                        = W!commitWrite(W!storeAtWritePtr(b, d), Len(d))
                   /\ B!write(b, d) = W!write(b, d)
<1>1. /\ B!bytesRead(b) = R!bytesRead(b) /\ B!bytesRead(b) = W!bytesRead(b)
      /\ B!bytesWrite(b) = R!bytesWrite(b) /\ B!bytesWrite(b) = W!bytesWrite(b)
  BY DEF B!bytesRead, R!bytesRead, W!bytesRead, B!bytesWrite, R!bytesWrite, W!bytesWrite
<1>2. /\ B!distanceRead(b) = R!distanceRead(b) /\ B!distanceRead(b) = W!distanceRead(b)
      /\ B!distanceWrite(b) = R!distanceWrite(b) /\ B!distanceWrite(b) = W!distanceWrite(b)
  BY <1>1 DEF B!distanceRead, R!distanceRead, W!distanceRead, B!Least, R!Least, W!Least,
              B!distanceWrite, R!distanceWrite, W!distanceWrite
<1>3. ASSUME NEW n
      PROVE  /\ B!copyOut(b, n) = R!copyOut(b, n) /\ B!copyOut(b, n) = W!copyOut(b, n)
             /\ B!read(b, n) = R!read(b, n)
             /\ B!Least(n, b.size) = R!Least(n, b.size)
  BY DEF B!copyOut, R!copyOut, W!copyOut, B!Least, R!Least, W!Least, B!firstChunk,
         R!firstChunk, W!firstChunk, B!read, R!read
<1>4. ASSUME NEW n
      PROVE  /\ B!loadAtReadPtr(b, n) = R!loadAtReadPtr(b, n)
             /\ B!loadAtReadPtr(b, n) = W!loadAtReadPtr(b, n)
             /\ B!commitRead(b, n) = R!commitRead(b, n)
             /\ B!commitRead(b, n) = W!commitRead(b, n)
  BY DEF B!loadAtReadPtr, R!loadAtReadPtr, W!loadAtReadPtr, B!commitRead, R!commitRead,
         W!commitRead
<1>5. ASSUME NEW d
      PROVE  /\ B!commitWrite(B!storeAtWritePtr(b, d), Len(d))
                  = R!commitWrite(R!storeAtWritePtr(b, d), Len(d))
             /\ B!commitWrite(B!storeAtWritePtr(b, d), Len(d))
                  = W!commitWrite(W!storeAtWritePtr(b, d), Len(d))
  BY DEF B!commitWrite, R!commitWrite, W!commitWrite, B!storeAtWritePtr, R!storeAtWritePtr,
         W!storeAtWritePtr, B!Pos, R!Pos, W!Pos
<1>6. ASSUME NEW d PROVE B!write(b, d) = W!write(b, d)
  BY DEF B!write, W!write, B!Least, W!Least, B!bytesWrite, W!bytesWrite, B!firstChunk,
         W!firstChunk, B!Pos, W!Pos
<1> QED
  BY <1>1, <1>2, <1>3, <1>4, <1>5, <1>6

\* What a controller sees of its read buffer.
LEMMA ReadView ==
  ASSUME NEW b, R!Ring(b)
  PROVE  /\ Content(b) = R!Contents(b) /\ Content(b) \in Bytes /\ Len(Content(b)) = Size(b)
         /\ Size(b) = b.size /\ Size(b) \in 0 .. READ_BSIZE
         /\ B!distanceRead(b) \in 0 .. Size(b) /\ (B!distanceRead(b) = 0 => Size(b) = 0)
<1>1. READ_BSIZE \in Nat \ {0}
  BY ControllerAssumption
<1> QED
  BY <1>1, R!RingView, SameFunctions DEF Content, Size, Bytes, B!bytesRead

\* What a controller sees of its write buffer.
LEMMA WriteView ==
  ASSUME NEW b, W!Ring(b)
  PROVE  /\ Content(b) = W!Contents(b) /\ Content(b) \in Bytes /\ Len(Content(b)) = Size(b)
         /\ Size(b) = b.size /\ Size(b) \in 0 .. WRITE_BSIZE
         /\ B!bytesWrite(b) = WRITE_BSIZE - Size(b)
         /\ B!distanceRead(b) \in 0 .. Size(b) /\ (B!distanceRead(b) = 0 => Size(b) = 0)
         /\ B!distanceWrite(b) \in 0 .. B!bytesWrite(b)
         /\ (B!distanceWrite(b) = 0 => B!bytesWrite(b) = 0)
<1>1. WRITE_BSIZE \in Nat \ {0}
  BY ControllerAssumption
<1> QED
  BY <1>1, W!RingView, SameFunctions DEF Content, Size, Bytes, B!bytesRead

\* send() from a buffer, or memcpy out of it, takes its oldest bytes.
LEMMA TakeOldest ==
  ASSUME NEW b, R!Ring(b) \/ W!Ring(b), NEW n \in 0 .. B!distanceRead(b)
  PROVE  LET c == B!commitRead(b, n)
         IN  /\ R!Ring(b) => R!Ring(c)
             /\ W!Ring(b) => W!Ring(c)
             /\ B!loadAtReadPtr(b, n) = SubSeq(Content(b), 1, n)
             /\ Content(c) = SubSeq(Content(b), n + 1, Len(Content(b)))
             /\ n \in 0 .. Len(Content(b)) /\ Size(c) = Size(b) - n
<1> DEFINE c == B!commitRead(b, n)
<1>1. READ_BSIZE \in Nat \ {0} /\ WRITE_BSIZE \in Nat \ {0}
  BY ControllerAssumption
<1>2. ASSUME R!Ring(b)
      PROVE  /\ R!Ring(c)
             /\ B!loadAtReadPtr(b, n) = SubSeq(Content(b), 1, n)
             /\ Content(c) = SubSeq(Content(b), n + 1, Len(Content(b)))
             /\ n \in 0 .. Len(Content(b)) /\ Size(c) = Size(b) - n
  <2>1. n \in Nat /\ n <= R!distanceRead(b) /\ n \in 0 .. Len(Content(b))
    BY <1>1, <1>2, ReadView, SameFunctions
  <2>2. c = R!commitRead(b, n) /\ B!loadAtReadPtr(b, n) = R!loadAtReadPtr(b, n)
    BY SameFunctions
  <2>3. /\ R!Ring(c) /\ B!loadAtReadPtr(b, n) = SubSeq(R!Contents(b), 1, n)
        /\ R!Contents(c) = SubSeq(R!Contents(b), n + 1, b.size)
    BY <1>1, <1>2, <2>1, <2>2, R!SendTakes
  <2>4. Size(c) = Size(b) - n
    BY <1>1, <1>2, R!RingFields DEF Size, B!bytesRead, B!commitRead
  <2> HIDE DEF c
  <2> QED
    BY <1>2, <2>1, <2>3, <2>4, ReadView
<1>3. ASSUME W!Ring(b)
      PROVE  /\ W!Ring(c)
             /\ B!loadAtReadPtr(b, n) = SubSeq(Content(b), 1, n)
             /\ Content(c) = SubSeq(Content(b), n + 1, Len(Content(b)))
             /\ n \in 0 .. Len(Content(b)) /\ Size(c) = Size(b) - n
  <2>1. n \in Nat /\ n <= W!distanceRead(b) /\ n \in 0 .. Len(Content(b))
    BY <1>1, <1>3, WriteView, SameFunctions
  <2>2. c = W!commitRead(b, n) /\ B!loadAtReadPtr(b, n) = W!loadAtReadPtr(b, n)
    BY SameFunctions
  <2>3. /\ W!Ring(c) /\ B!loadAtReadPtr(b, n) = SubSeq(W!Contents(b), 1, n)
        /\ W!Contents(c) = SubSeq(W!Contents(b), n + 1, b.size)
    BY <1>1, <1>3, <2>1, <2>2, W!SendTakes
  <2>4. Size(c) = Size(b) - n
    BY <1>1, <1>3, W!RingFields DEF Size, B!bytesRead, B!commitRead
  <2> HIDE DEF c
  <2> QED
    BY <1>3, <2>1, <2>3, <2>4, WriteView
<1> QED
  BY <1>2, <1>3 DEF c

\* recv() into the read buffer appends what it stored.
LEMMA RecvIntoRead ==
  ASSUME NEW b, R!Ring(b), NEW data \in Bytes, Len(data) <= B!distanceWrite(b)
  PROVE  LET c == B!commitWrite(B!storeAtWritePtr(b, data), Len(data))
         IN  R!Ring(c) /\ Content(c) = Content(b) \o data
<1> DEFINE c == B!commitWrite(B!storeAtWritePtr(b, data), Len(data))
<1>1. READ_BSIZE \in Nat \ {0}
  BY ControllerAssumption
<1>2. /\ c = R!commitWrite(R!storeAtWritePtr(b, data), Len(data))
      /\ Len(data) <= R!distanceWrite(b)
  BY SameFunctions
<1> HIDE DEF c
<1>3. R!Ring(c) /\ R!Contents(c) = R!Contents(b) \o SubSeq(data, 1, Len(data))
  BY <1>1, <1>2, R!RecvAppends DEF Bytes
<1>4. SubSeq(data, 1, Len(data)) = data
  BY SubSeqFull DEF Bytes
<1> QED
  BY <1>3, <1>4, ReadView DEF c

\* The memcpy of moveToWriteBuffer appends to the write buffer.
LEMMA MoveIntoWrite ==
  ASSUME NEW b, W!Ring(b), NEW data \in Bytes, Len(data) <= B!distanceWrite(b)
  PROVE  LET c == B!commitWrite(B!storeAtWritePtr(b, data), Len(data))
         IN  W!Ring(c) /\ Content(c) = Content(b) \o data
<1> DEFINE c == B!commitWrite(B!storeAtWritePtr(b, data), Len(data))
<1>1. WRITE_BSIZE \in Nat \ {0}
  BY ControllerAssumption
<1>2. /\ c = W!commitWrite(W!storeAtWritePtr(b, data), Len(data))
      /\ Len(data) <= W!distanceWrite(b)
  BY SameFunctions
<1> HIDE DEF c
<1>3. W!Ring(c) /\ W!Contents(c) = W!Contents(b) \o SubSeq(data, 1, Len(data))
  BY <1>1, <1>2, W!RecvAppends DEF Bytes
<1>4. SubSeq(data, 1, Len(data)) = data
  BY SubSeqFull DEF Bytes
<1> QED
  BY <1>3, <1>4, WriteView DEF c

\* writeTemp() of bytes there is room for appends them.
LEMMA WriteTempAppends ==
  ASSUME NEW b, W!Ring(b), NEW data \in Bytes, Len(data) <= B!bytesWrite(b)
  PROVE  W!Ring(B!write(b, data)) /\ Content(B!write(b, data)) = Content(b) \o data
<1> DEFINE c == B!write(b, data)
<1>1. WRITE_BSIZE \in Nat \ {0} /\ c = W!write(b, data)
  BY ControllerAssumption, SameFunctions
<1>2. W!Least(Len(data), WRITE_BSIZE - b.size) = Len(data)
  BY WriteView, LenProperties, <1>1 DEF W!Least, Bytes
<1> HIDE DEF c
<1>3. W!Ring(c) /\ W!Contents(c) = W!Contents(b) \o SubSeq(data, 1, Len(data))
  BY <1>1, <1>2, W!WriteAppends DEF Bytes
<1>4. SubSeq(data, 1, Len(data)) = data
  BY SubSeqFull DEF Bytes
<1> QED
  BY <1>3, <1>4, WriteView DEF c

\* read() delivers the oldest bytes and removes them.
LEMMA ReadOldest ==
  ASSUME NEW b, R!Ring(b), NEW len \in Nat
  PROVE  \E n \in 0 .. Len(Content(b)) :
            /\ n <= len /\ B!copyOut(b, len) = SubSeq(Content(b), 1, n)
            /\ R!Ring(B!read(b, len))
            /\ Content(B!read(b, len)) = SubSeq(Content(b), n + 1, Len(Content(b)))
<1> DEFINE n == R!Least(len, b.size)
<1>1. READ_BSIZE \in Nat \ {0}
  BY ControllerAssumption
<1>2. /\ Content(b) = R!Contents(b) /\ Len(Content(b)) = b.size /\ b.size \in Nat
  BY <1>1, ReadView
<1>3. n \in 0 .. b.size /\ n <= len
  BY <1>2 DEF R!Least
<1>4. B!copyOut(b, len) = R!copyOut(b, len) /\ B!read(b, len) = R!read(b, len)
  BY SameFunctions
<1>5. R!copyOut(b, len) = SubSeq(R!Contents(b), 1, n)
  BY <1>1, R!CopyOutOldest
<1>6. R!Ring(R!read(b, len)) /\ R!Contents(R!read(b, len)) = SubSeq(R!Contents(b), n + 1, b.size)
  BY <1>1, R!ReadTakes
<1>7. Content(R!read(b, len)) = R!Contents(R!read(b, len))
  BY <1>6, ReadView
<1> QED
  BY <1>2, <1>3, <1>4, <1>5, <1>6, <1>7

-----------------------------------------------------------------------------
(* Cutting and joining.                                                    *)

\* Joining is associative.
LEMMA Associative == \A s, t, u \in Bytes : s \o (t \o u) = (s \o t) \o u
  BY ConcatAssociative, SMTT(40) DEF Bytes

\* A prefix that changes sides leaves the whole as it was.
LEMMA CutAndJoin ==
  ASSUME NEW s \in Bytes, NEW t \in Bytes, NEW n \in 0 .. Len(t)
  PROVE  /\ SubSeq(t, 1, n) \in Bytes /\ SubSeq(t, n + 1, Len(t)) \in Bytes
         /\ Len(SubSeq(t, 1, n)) = n
         /\ (s \o SubSeq(t, 1, n)) \o SubSeq(t, n + 1, Len(t)) = s \o t
<1> USE DEF Bytes
<1>1. Len(t) \in Nat /\ \A i \in 1 .. Len(t) : t[i] \in 0 .. TOTAL
  BY LenProperties, ElementOfSeq
<1>2. SubSeq(t, 1, n) \in Bytes /\ Len(SubSeq(t, 1, n)) = n
  BY <1>1, SubSeqProperties
<1>3. SubSeq(t, n + 1, Len(t)) \in Bytes
  BY <1>1, SubSeqProperties
<1>4. SubSeq(t, 1, n) \o SubSeq(t, n + 1, Len(t)) = t
  <2>1. 1 \in 1 .. Len(t) + 1 /\ n \in 1 - 1 .. Len(t) /\ Len(t) \in n .. Len(t)
    BY <1>1
  <2>2. SubSeq(t, 1, n) \o SubSeq(t, n + 1, Len(t)) = SubSeq(t, 1, Len(t))
    BY <2>1, ConcatAdjacentSubSeq
  <2> QED
    BY <2>2, SubSeqFull
<1>5. (s \o SubSeq(t, 1, n)) \o SubSeq(t, n + 1, Len(t))
        = s \o (SubSeq(t, 1, n) \o SubSeq(t, n + 1, Len(t)))
  BY <1>2, <1>3, Associative
<1> QED
  BY <1>2, <1>3, <1>4, <1>5

\* The numbers of the first n bytes.
Numbers(n) == [i \in 1 .. n |-> i]

\* The bytes that recv() delivers next continue the numbers.
LEMMA NumbersContinue ==
  ASSUME NEW m \in Nat, NEW n \in Nat, m + n <= TOTAL
  PROVE  /\ [i \in 1 .. n |-> m + i] \in Bytes /\ Len([i \in 1 .. n |-> m + i]) = n
         /\ Numbers(m) \o [i \in 1 .. n |-> m + i] = Numbers(m + n)
<1> DEFINE d == [i \in 1 .. n |-> m + i]
<1>0. TOTAL \in Nat
  BY ControllerAssumption
<1>1. d \in Bytes /\ Len(d) = n
  BY <1>0 DEF Bytes
<1>2. Numbers(m) \in Bytes /\ Len(Numbers(m)) = m
  BY <1>0 DEF Bytes, Numbers
<1>3. Numbers(m + n) \in Bytes /\ Len(Numbers(m + n)) = m + n
  BY <1>0 DEF Bytes, Numbers
<1>4. /\ Numbers(m) \o d \in Bytes /\ Len(Numbers(m) \o d) = m + n
      /\ \A i \in 1 .. (m + n) : (Numbers(m) \o d)[i] = IF i <= m THEN Numbers(m)[i] ELSE d[i - m]
  <2> HIDE DEF d
  <2> QED
    BY <1>1, <1>2 DEF Bytes
<1>5. ASSUME NEW i \in 1 .. (m + n) PROVE (Numbers(m) \o d)[i] = Numbers(m + n)[i]
  <2>1. Numbers(m + n)[i] = i
    BY DEF Numbers
  <2>2. i <= m => Numbers(m)[i] = i
    BY DEF Numbers
  <2>3. ~ (i <= m) => d[i - m] = i
    OBVIOUS
  <2> QED
    BY <1>4, <2>1, <2>2, <2>3
<1> QED
  BY <1>1, <1>3, <1>4, <1>5, SeqEqual DEF Bytes

-----------------------------------------------------------------------------
(* The inductive invariant.                                                *)

Rings == R!Ring(readBuf) /\ W!Ring(writeBuf)

Counters ==
    /\ arrived \in 0 .. TOTAL /\ taken \in 0 .. arrived /\ tx \in Bytes
    /\ caller \in {"event", "callback", "writeBack"}

\* writeBack sends from the read buffer only behind an empty write buffer, and
\* the rest of maxMove is what could still be moved: both shrink by each chunk.
Positions ==
    /\ pc = "back" => Size(writeBuf) = 0
    /\ pc = "move" => quota = B!Least(Size(readBuf), B!bytesWrite(writeBuf))

CtlInv == Rings /\ Counters /\ Positions /\ EchoInOrder

\* Empty buffers, nothing echoed.
LEMMA CtlInit == Init => CtlInv
<1> SUFFICES ASSUME Init PROVE CtlInv
  OBVIOUS
<1>1. READ_BSIZE \in Nat \ {0} /\ WRITE_BSIZE \in Nat \ {0} /\ TOTAL \in Nat
  BY ControllerAssumption
<1>2. ASSUME NEW n \in Nat \ {0}
      PROVE  /\ Empty(n) \in [back : 0 .. (n - 1), front : 0 .. (n - 1), size : 0 .. n,
                              bsize : {n}, mem : [0 .. (n - 1) -> 0 .. TOTAL]]
             /\ Empty(n).front = (Empty(n).back + Empty(n).size) % n
             /\ Empty(n).size = 0
  <2>1. 0 \in 0 .. (n - 1) /\ 0 \in 0 .. n /\ [p \in 0 .. (n - 1) |-> 0] \in [0 .. (n - 1) -> 0 .. TOTAL]
    BY <1>1
  <2>2. (0 + 0) % n = 0
    OBVIOUS
  <2> QED
    BY <2>1, <2>2 DEF Empty
<1>3. R!Ring(readBuf) /\ readBuf.size = 0
  BY <1>1, <1>2 DEF Init, R!Ring, R!Buffers
<1>4. W!Ring(writeBuf) /\ writeBuf.size = 0
  BY <1>1, <1>2 DEF Init, W!Ring, W!Buffers
<1>5. Content(readBuf) = << >> /\ Content(writeBuf) = << >>
  BY <1>3, <1>4, ReadView, WriteView DEF R!Contents, W!Contents
<1>6. EchoInOrder
  BY <1>5 DEF Init, EchoInOrder
<1> QED
  BY <1>1, <1>3, <1>4, <1>6 DEF Init, CtlInv, Rings, Counters, Positions, Bytes

\* Steps that leave the buffers and the echoed bytes alone.
LEMMA QuietStep ==
  ASSUME CtlInv, UNCHANGED <<readBuf, writeBuf, taken, tx>>,
         arrived' \in arrived .. TOTAL, caller' \in {"event", "callback", "writeBack"},
         pc' = "back" => pc = "back" \/ Size(writeBuf) = 0,
         pc' = "move" => \/ pc = "move" /\ quota' = quota
                         \/ quota' = B!Least(Size(readBuf), B!bytesWrite(writeBuf))
  PROVE  CtlInv'
<1>1. Size(writeBuf)' = Size(writeBuf) /\ Size(readBuf)' = Size(readBuf)
      /\ B!bytesWrite(writeBuf)' = B!bytesWrite(writeBuf)
      /\ B!Least(Size(readBuf), B!bytesWrite(writeBuf))'
            = B!Least(Size(readBuf), B!bytesWrite(writeBuf))
      /\ Content(writeBuf)' = Content(writeBuf) /\ Content(readBuf)' = Content(readBuf)
  BY DEF Size, Content, B!bytesRead, B!bytesWrite, B!copyOut, B!Least, B!firstChunk
<1>2. Rings'
  BY DEF CtlInv, Rings, R!Ring, R!Buffers, W!Ring, W!Buffers
<1>3. Counters'
  BY ControllerAssumption DEF CtlInv, Counters
<1>4. Positions'
  BY <1>1 DEF CtlInv, Positions
<1>5. EchoInOrder'
  BY <1>1 DEF CtlInv, EchoInOrder
<1> QED
  BY <1>2, <1>3, <1>4, <1>5 DEF CtlInv

\* The invariant of the next state, in terms of the new buffers.
LEMMA NextCtlInv ==
  ASSUME R!Ring(readBuf'), W!Ring(writeBuf'), Counters',
         pc' = "back" => Size(writeBuf') = 0,
         pc' = "move" => quota' = B!Least(Size(readBuf'), B!bytesWrite(writeBuf')),
         (tx' \o Content(writeBuf')) \o Content(readBuf') = Numbers(taken')
  PROVE  CtlInv'
<1>1. Rings'
  BY DEF Rings, R!Ring, R!Buffers, W!Ring, W!Buffers
<1>2. Positions'
  BY DEF Positions, Size, B!bytesRead, B!bytesWrite, B!Least
<1>3. EchoInOrder'
  BY DEF EchoInOrder, Numbers, Content, Size, B!bytesRead, B!copyOut, B!Least, B!firstChunk
<1> QED
  BY <1>1, <1>2, <1>3 DEF CtlInv

\* recv() delivers the next bytes into the read buffer.
LEMMA ReadSocketKeeps ==
  ASSUME CtlInv, ReadSocket
  PROVE  CtlInv'
<1>1. R!Ring(readBuf) /\ W!Ring(writeBuf) /\ Counters /\ EchoInOrder /\ TOTAL \in Nat
      /\ arrived \in 0 .. TOTAL /\ taken \in 0 .. arrived /\ tx \in Bytes
  BY ControllerAssumption DEF CtlInv, Rings, Counters
<1>2. CASE UNCHANGED <<readBuf, taken>> /\ pc' \in {"read", "closed"}
  BY <1>1, <1>2, QuietStep DEF ReadSocket, runVars, peerVars, Counters
<1>3. ASSUME NEW got \in 1 .. B!Least(B!distanceWrite(readBuf), arrived - taken),
             readBuf' = B!commitWrite(B!storeAtWritePtr(readBuf,
                            [i \in 1 .. got |-> taken + i]), got),
             taken' = taken + got, pc' \in {"read", "recv"}
      PROVE  CtlInv'
  <2> DEFINE data == [i \in 1 .. got |-> taken + i]
  <2>1. got \in Nat /\ got <= B!distanceWrite(readBuf) /\ taken + got <= arrived
    <3>1. B!distanceWrite(readBuf) \in Int
      BY <1>1, ControllerAssumption, R!RingView, SameFunctions
    <3> QED
      BY <1>1, <3>1 DEF B!Least
  <2>2. data \in Bytes /\ Len(data) = got /\ Numbers(taken) \o data = Numbers(taken + got)
    <3>1. taken \in Nat /\ taken + got <= TOTAL
      BY <1>1, <2>1
    <3> QED
      BY <2>1, <3>1, NumbersContinue
  <2> HIDE DEF data
  <2>3. readBuf' = B!commitWrite(B!storeAtWritePtr(readBuf, data), Len(data))
    BY <1>3, <2>2 DEF data
  <2>4. R!Ring(readBuf') /\ Content(readBuf') = Content(readBuf) \o data
    BY <1>1, <2>1, <2>2, <2>3, RecvIntoRead
  <2>5. /\ UNCHANGED <<writeBuf, tx, arrived, caller>>
        /\ Content(readBuf) \in Bytes /\ Content(writeBuf) \in Bytes
    BY <1>1, ReadView, WriteView DEF ReadSocket, runVars, peerVars
  <2>6. (tx \o Content(writeBuf)) \o Content(readBuf') = Numbers(taken')
    <3> DEFINE sent == tx \o Content(writeBuf)
    <3>1. sent \in Bytes
      BY <1>1, <2>5, ConcatProperties DEF Bytes
    <3>2. sent \o Content(readBuf) = Numbers(taken)
      BY <1>1 DEF EchoInOrder, Numbers
    <3> HIDE DEF sent
    <3>3. sent \o (Content(readBuf) \o data) = (sent \o Content(readBuf)) \o data
      BY <2>2, <2>5, <3>1, Associative
    <3> QED
      BY <1>3, <2>2, <2>4, <3>2, <3>3 DEF sent
  <2>7. Counters'
    BY <1>1, <1>3, <2>1, <2>5 DEF Counters
  <2> QED
    BY <1>1, <1>3, <2>4, <2>5, <2>6, <2>7, NextCtlInv
<1> QED
  BY <1>2, <1>3 DEF ReadSocket

\* send() takes the oldest bytes of the write buffer, behind what went before.
LEMMA CommitWriteKeeps ==
  ASSUME CtlInv, CommitWrite
  PROVE  CtlInv'
<1>1. R!Ring(readBuf) /\ W!Ring(writeBuf) /\ Counters /\ EchoInOrder /\ tx \in Bytes
  BY DEF CtlInv, Rings, Counters
<1>2. /\ UNCHANGED <<readBuf, taken, arrived, caller>>
      /\ Content(readBuf) \in Bytes /\ Content(writeBuf) \in Bytes
  BY <1>1, ReadView, WriteView DEF CommitWrite, runVars, peerVars
<1>3. ASSUME NEW rest PROVE Returned(rest) \in {"closed", "written", "callback", "back"}
                            /\ (Returned(rest) = "back" => rest = 0)
  BY <1>1 DEF Returned, Counters
<1>4. CASE UNCHANGED <<writeBuf, tx>> /\ pc' = Returned(0) /\ B!distanceRead(writeBuf) = 0
  <2>1. Size(writeBuf) = 0
    BY <1>1, <1>4, WriteView
  <2> QED
    BY <1>1, <1>2, <1>3, <1>4, <2>1, QuietStep DEF Counters
<1>5. CASE UNCHANGED <<writeBuf, tx>> /\ pc' = Returned(-1)
  BY <1>1, <1>2, <1>3, <1>5, QuietStep DEF Counters
<1>6. ASSUME NEW n \in 0 .. B!distanceRead(writeBuf), Send(writeBuf, n),
             writeBuf' = B!commitRead(writeBuf, n),
             pc' = Returned(Size(writeBuf')) \/ pc' = "commit"
      PROVE  CtlInv'
  <2>1. /\ W!Ring(writeBuf') /\ n \in 0 .. Len(Content(writeBuf))
        /\ tx' = tx \o SubSeq(Content(writeBuf), 1, n)
        /\ Content(writeBuf') = SubSeq(Content(writeBuf), n + 1, Len(Content(writeBuf)))
    BY <1>1, <1>6, TakeOldest DEF Send
  <2>2. /\ SubSeq(Content(writeBuf), 1, n) \in Bytes
        /\ tx' \o Content(writeBuf') = tx \o Content(writeBuf)
    <3> DEFINE w == Content(writeBuf)
    <3>1. w \in Bytes /\ n \in 0 .. Len(w)
      BY <1>2, <2>1
    <3> HIDE DEF w
    <3>2. SubSeq(w, 1, n) \in Bytes /\ (tx \o SubSeq(w, 1, n)) \o SubSeq(w, n + 1, Len(w)) = tx \o w
      BY <1>1, <3>1, CutAndJoin
    <3> QED
      BY <2>1, <3>2, Zenon DEF w
  <2>3. tx' \in Bytes
    BY <1>1, <2>1, <2>2, ConcatProperties DEF Bytes
  <2>4. Counters'
    BY <1>1, <1>2, <2>3 DEF Counters
  <2>5. (tx' \o Content(writeBuf')) \o Content(readBuf') = Numbers(taken')
    BY <1>1, <1>2, <2>2 DEF EchoInOrder, Numbers
  <2> QED
    BY <1>1, <1>2, <1>3, <1>6, <2>1, <2>4, <2>5, NextCtlInv
<1> QED
  BY <1>4, <1>5, <1>6 DEF CommitWrite

\* What goes out of the read buffer directly, behind an empty write buffer.
LEMMA SentFromRead ==
  ASSUME CtlInv, Size(writeBuf) = 0, NEW n \in 0 .. Len(Content(readBuf)), R!Ring(readBuf'),
         tx' = tx \o SubSeq(Content(readBuf), 1, n),
         Content(readBuf') = SubSeq(Content(readBuf), n + 1, Len(Content(readBuf))),
         UNCHANGED <<writeBuf, arrived, taken, caller>>, pc' # "move"
  PROVE  CtlInv'
<1>1. R!Ring(readBuf) /\ W!Ring(writeBuf) /\ Counters /\ EchoInOrder /\ tx \in Bytes
  BY DEF CtlInv, Rings, Counters
<1>2. Content(readBuf) \in Bytes /\ Content(writeBuf) \in Bytes /\ Len(Content(writeBuf)) = 0
  BY <1>1, ReadView, WriteView
<1>3. Content(writeBuf) = << >>
  BY <1>2, EmptySeq DEF Bytes
<1>4. tx' \o Content(readBuf') = tx \o Content(readBuf) /\ SubSeq(Content(readBuf), 1, n) \in Bytes
  <2> DEFINE r == Content(readBuf)
  <2>1. r \in Bytes /\ n \in 0 .. Len(r)
    BY <1>2
  <2> HIDE DEF r
  <2>2. SubSeq(r, 1, n) \in Bytes /\ (tx \o SubSeq(r, 1, n)) \o SubSeq(r, n + 1, Len(r)) = tx \o r
    BY <1>1, <2>1, CutAndJoin
  <2> QED
    BY <2>2, Zenon DEF r
<1>5. tx' \in Bytes
  BY <1>1, <1>4, ConcatProperties DEF Bytes
<1>6. tx' \o Content(writeBuf') = tx' /\ tx \o Content(writeBuf) = tx
  BY <1>1, <1>3, <1>5, ConcatEmptySeq DEF Bytes
<1>7. (tx' \o Content(writeBuf')) \o Content(readBuf') = Numbers(taken')
  BY <1>1, <1>4, <1>6 DEF EchoInOrder, Numbers
<1>8. Counters'
  BY <1>1, <1>5 DEF Counters
<1> QED
  BY <1>1, <1>7, <1>8, NextCtlInv

\* writeBack sends from the read buffer.
LEMMA WriteBackKeeps ==
  ASSUME CtlInv, WriteBack
  PROVE  CtlInv'
<1>1. R!Ring(readBuf) /\ Counters /\ Size(writeBuf) = 0
  BY DEF CtlInv, Rings, WriteBack, Positions
<1>2. UNCHANGED <<writeBuf, arrived, taken, caller>> /\ pc = "back"
  BY DEF WriteBack, peerVars, runVars
<1>3. CASE UNCHANGED <<readBuf, tx>> /\ pc' = "callback"
  BY <1>1, <1>2, <1>3, QuietStep DEF Counters, WriteBack, runVars, CtlInv
<1>4. ASSUME NEW n \in 1 .. B!distanceRead(readBuf), Send(readBuf, n),
             readBuf' = B!commitRead(readBuf, n), pc' = pc
      PROVE  CtlInv'
  <2>1. n \in 0 .. B!distanceRead(readBuf)
    BY <1>1, ReadView
  <2>2. /\ R!Ring(readBuf') /\ n \in 0 .. Len(Content(readBuf))
        /\ tx' = tx \o SubSeq(Content(readBuf), 1, n)
        /\ Content(readBuf') = SubSeq(Content(readBuf), n + 1, Len(Content(readBuf)))
    BY <1>1, <1>4, <2>1, TakeOldest DEF Send
  <2> QED
    BY <1>1, <1>2, <1>4, <2>2, SentFromRead
<1> QED
  BY <1>3, <1>4 DEF WriteBack

\* Bytes that pass from the read buffer to the end of the write buffer.
LEMMA MovedToWrite ==
  ASSUME CtlInv, NEW n \in 0 .. Len(Content(readBuf)), R!Ring(readBuf'), W!Ring(writeBuf'),
         Content(writeBuf') = Content(writeBuf) \o SubSeq(Content(readBuf), 1, n),
         Content(readBuf') = SubSeq(Content(readBuf), n + 1, Len(Content(readBuf))),
         UNCHANGED <<tx, arrived, taken, caller>>, pc' # "back",
         pc' = "move" => pc = "move" /\ quota' = quota - n
  PROVE  CtlInv'
<1> DEFINE r == Content(readBuf)
           w == Content(writeBuf)
           moved == SubSeq(r, 1, n)
           kept  == SubSeq(r, n + 1, Len(r))
<1>1. R!Ring(readBuf) /\ W!Ring(writeBuf) /\ Counters /\ EchoInOrder /\ tx \in Bytes
  BY DEF CtlInv, Rings, Counters
<1>2. r \in Bytes /\ w \in Bytes /\ n \in 0 .. Len(r)
  BY <1>1, ReadView, WriteView
<1>3. Content(writeBuf') = w \o moved /\ Content(readBuf') = kept
  BY Zenon
<1> HIDE DEF r, w
<1>4. moved \in Bytes /\ kept \in Bytes /\ Len(moved) = n /\ Len(kept) = Len(r) - n
  <2>1. moved \in Bytes /\ kept \in Bytes /\ Len(moved) = n
    BY <1>2, CutAndJoin
  <2>2. Len(kept) = Len(r) - n
    BY <1>2 DEF Bytes
  <2> QED
    BY <2>1, <2>2
<1>5. tx \o w \in Bytes /\ w \o moved \in Bytes /\ Len(w \o moved) = Len(w) + n
  <2> HIDE DEF moved
  <2> QED
    BY <1>1, <1>2, <1>4, ConcatProperties DEF Bytes
<1>6. ((tx \o w) \o moved) \o kept = (tx \o w) \o r
  <2> DEFINE s == tx \o w
  <2>1. s \in Bytes
    BY <1>5
  <2> HIDE DEF s
  <2>2. (s \o moved) \o kept = s \o r
    BY <1>2, <2>1, CutAndJoin, ZenonT(40)
  <2> QED
    BY <2>2 DEF s
<1> HIDE DEF moved, kept
<1>7. (tx \o (w \o moved)) \o kept = (tx \o w) \o r
  BY <1>1, <1>2, <1>4, <1>6, Associative
<1>8. (tx' \o Content(writeBuf')) \o Content(readBuf') = Numbers(taken')
  BY <1>1, <1>3, <1>7 DEF EchoInOrder, Numbers, r, w
<1>9. pc' = "move" => quota' = B!Least(Size(readBuf'), B!bytesWrite(writeBuf'))
  <2>1. Size(readBuf) = Len(r) /\ Size(readBuf') = Len(kept)
    BY <1>1, <1>3, ReadView DEF r
  <2>2. Size(writeBuf) = Len(w) /\ Size(writeBuf') = Len(w \o moved)
    BY <1>1, <1>3, WriteView DEF w
  <2>3. /\ B!bytesWrite(writeBuf) = WRITE_BSIZE - Size(writeBuf)
        /\ B!bytesWrite(writeBuf') = WRITE_BSIZE - Size(writeBuf')
    BY <1>1, WriteView
  <2>4. Len(r) \in Nat /\ Len(w) \in Nat /\ WRITE_BSIZE \in Nat
    BY <1>2, ControllerAssumption, LenProperties DEF Bytes
  <2> QED
    BY <1>4, <1>5, <2>1, <2>2, <2>3, <2>4 DEF CtlInv, Positions, B!Least
<1>10. Counters'
  BY <1>1 DEF Counters
<1> QED
  BY <1>8, <1>9, <1>10, NextCtlInv

\* A round of moveToWriteBuffer.
LEMMA MoveKeeps ==
  ASSUME CtlInv, MoveToWriteBuffer
  PROVE  CtlInv'
<1>1. R!Ring(readBuf) /\ W!Ring(writeBuf) /\ Counters
  BY DEF CtlInv, Rings
<1>2. UNCHANGED <<tx, arrived, taken, caller>> /\ pc = "move"
  BY DEF MoveToWriteBuffer, peerVars
<1>3. CASE UNCHANGED <<readBuf, writeBuf>> /\ pc' = "callback"
  BY <1>1, <1>2, <1>3, QuietStep DEF Counters, CtlInv
<1>4. CASE MoveChunk
  <2> DEFINE n == B!Least(B!distanceRead(readBuf), B!distanceWrite(writeBuf))
             data == B!loadAtReadPtr(readBuf, n)
  <2>1. n \in 0 .. B!distanceRead(readBuf) /\ n <= B!distanceWrite(writeBuf)
    <3>1. B!distanceRead(readBuf) \in Nat /\ B!distanceWrite(writeBuf) \in Nat
      BY <1>1, ReadView, WriteView, ControllerAssumption
    <3> QED
      BY <3>1 DEF B!Least
  <2>2. /\ writeBuf' = B!commitWrite(B!storeAtWritePtr(writeBuf, data), n)
        /\ readBuf' = B!commitRead(readBuf, n)
        /\ quota' = quota - n /\ pc' = pc
    BY <1>4 DEF MoveChunk
  <2> HIDE DEF n
  <2>3. /\ R!Ring(readBuf') /\ data = SubSeq(Content(readBuf), 1, n)
        /\ Content(readBuf') = SubSeq(Content(readBuf), n + 1, Len(Content(readBuf)))
        /\ n \in 0 .. Len(Content(readBuf))
    BY <1>1, <2>1, <2>2, TakeOldest
  <2>4. data \in Bytes /\ Len(data) = n
    <3>1. SubSeq(Content(readBuf), 1, n) \in Bytes /\ Len(SubSeq(Content(readBuf), 1, n)) = n
      <4>1. Content(readBuf) \in Bytes
        BY <1>1, ReadView
      <4> QED
        BY <2>3, <4>1, CutAndJoin
    <3> QED
      BY <2>3, <3>1
  <2> HIDE DEF data
  <2>5. W!Ring(writeBuf') /\ Content(writeBuf') = Content(writeBuf) \o data
    BY <1>1, <2>1, <2>2, <2>4, MoveIntoWrite
  <2>6. Content(writeBuf') = Content(writeBuf) \o SubSeq(Content(readBuf), 1, n)
    BY <2>3, <2>5, Zenon
  <2> QED
    BY <1>2, <2>2, <2>3, <2>5, <2>6, MovedToWrite
<1> QED
  BY <1>3, <1>4 DEF MoveToWriteBuffer

\* read() into memory of the application and writeTemp() from there.
LEMMA ReadWriteTempKeeps ==
  ASSUME CtlInv, CallReadWriteTemp
  PROVE  CtlInv'
<1>1. R!Ring(readBuf) /\ W!Ring(writeBuf)
  BY DEF CtlInv, Rings
<1>2. UNCHANGED <<tx, arrived, taken, caller, pc>> /\ pc = "callback"
  BY DEF CallReadWriteTemp, peerVars, MayCall
<1>3. PICK len \in 1 .. B!bytesWrite(writeBuf) :
          /\ writeBuf' = B!write(writeBuf, B!copyOut(readBuf, len))
          /\ readBuf' = B!read(readBuf, len)
  BY DEF CallReadWriteTemp
<1>4. len \in Nat /\ len <= B!bytesWrite(writeBuf) /\ B!bytesWrite(writeBuf) \in Nat
  BY <1>1, WriteView, ControllerAssumption
<1>5. PICK n \in 0 .. Len(Content(readBuf)) :
            /\ n <= len /\ B!copyOut(readBuf, len) = SubSeq(Content(readBuf), 1, n)
            /\ R!Ring(readBuf')
            /\ Content(readBuf') = SubSeq(Content(readBuf), n + 1, Len(Content(readBuf)))
  BY <1>1, <1>3, <1>4, ReadOldest
<1>6. SubSeq(Content(readBuf), 1, n) \in Bytes /\ Len(SubSeq(Content(readBuf), 1, n)) = n
  <2>1. Content(readBuf) \in Bytes
    BY <1>1, ReadView
  <2> QED
    BY <2>1, CutAndJoin
<1> DEFINE data == B!copyOut(readBuf, len)
<1>7. /\ data \in Bytes /\ Len(data) = n /\ data = SubSeq(Content(readBuf), 1, n)
      /\ writeBuf' = B!write(writeBuf, data)
  BY <1>3, <1>5, <1>6
<1> HIDE DEF data
<1>8. W!Ring(writeBuf') /\ Content(writeBuf') = Content(writeBuf) \o data
  <2>1. Len(data) <= B!bytesWrite(writeBuf)
    BY <1>4, <1>5, <1>7, ReadView, <1>1
  <2> QED
    BY <1>1, <1>7, <2>1, WriteTempAppends
<1>9. Content(writeBuf') = Content(writeBuf) \o SubSeq(Content(readBuf), 1, n)
  BY <1>7, <1>8, Zenon
<1> QED
  BY <1>2, <1>5, <1>8, <1>9, MovedToWrite

\* peek(), write() and read() with nothing in the write buffer.
LEMMA PeekWriteKeeps ==
  ASSUME CtlInv, CallPeekWrite
  PROVE  CtlInv'
<1>1. R!Ring(readBuf) /\ Counters /\ Size(writeBuf) = 0
  BY DEF CtlInv, Rings, CallPeekWrite
<1>2. UNCHANGED <<writeBuf, arrived, taken, caller, pc>> /\ pc = "callback"
  BY DEF CallPeekWrite, MayCall, peerVars
<1>3. CASE UNCHANGED <<readBuf, tx>>
  BY <1>1, <1>2, <1>3, QuietStep DEF Counters, CtlInv
<1>4. ASSUME NEW len \in 0 .. Size(readBuf), tx' = tx \o B!copyOut(readBuf, len),
             readBuf' = B!read(readBuf, len)
      PROVE  CtlInv'
  <2>1. len \in Nat
    BY <1>1, ReadView
  <2>2. PICK n \in 0 .. Len(Content(readBuf)) :
            /\ n <= len /\ B!copyOut(readBuf, len) = SubSeq(Content(readBuf), 1, n)
            /\ R!Ring(readBuf')
            /\ Content(readBuf') = SubSeq(Content(readBuf), n + 1, Len(Content(readBuf)))
    BY <1>1, <1>4, <2>1, ReadOldest
  <2>3. tx' = tx \o SubSeq(Content(readBuf), 1, n)
    BY <1>4, <2>2, Zenon
  <2> QED
    BY <1>1, <1>2, <2>2, <2>3, SentFromRead
<1> QED
  BY <1>3, <1>4 DEF CallPeekWrite

-----------------------------------------------------------------------------
(* The specification.                                                      *)

\* Every step, of the peer, the I/O thread or the application, keeps CtlInv.
LEMMA CtlStep == CtlInv /\ [Next]_vars => CtlInv'
<1> SUFFICES ASSUME CtlInv, [Next]_vars PROVE CtlInv'
  OBVIOUS
<1>1. /\ caller \in {"event", "callback", "writeBack"}
      /\ arrived \in 0 .. TOTAL /\ arrived \in arrived .. TOTAL
  BY ControllerAssumption DEF CtlInv, Counters
<1>2. CASE UNCHANGED vars
  BY <1>1, <1>2, QuietStep DEF vars, ctlVars, peerVars, runVars
<1>3. CASE PeerSends
  <2>1. arrived' \in arrived .. TOTAL
    BY <1>1, <1>3, ControllerAssumption DEF PeerSends
  <2> QED
    BY <1>1, <1>3, <2>1, QuietStep DEF PeerSends, ctlVars, runVars
<1>4. CASE PeerShutsDown \/ PeerReads
  BY <1>1, <1>4, QuietStep DEF PeerShutsDown, PeerReads, ctlVars, runVars
<1>5. CASE EventIn
  BY <1>1, <1>5, QuietStep DEF EventIn, peerVars, runVars
<1>6. CASE EventOut \/ Hangup
  BY <1>1, <1>6, QuietStep DEF EventOut, Hangup, ctlVars, peerVars, runVars
<1>7. CASE HandleRead \/ HandleWritten
  <2>1. pc' \in {"closed", "callback", "armed"} /\ UNCHANGED <<readBuf, writeBuf, taken, tx, arrived, caller>>
    BY <1>7 DEF HandleRead, HandleWritten, handOver, renableEvents, peerVars
  <2> QED
    BY <1>1, <2>1, QuietStep
<1>8. CASE HandleWrite
  <2>1. /\ pc' \in {"closed", "callback", "commit"} /\ caller' = "event"
        /\ UNCHANGED <<readBuf, writeBuf, taken, tx, arrived>>
    BY <1>8 DEF HandleWrite, ctlVars, peerVars
  <2> QED
    BY <1>1, <2>1, QuietStep
<1>9. CASE Leave
  <2>1. pc' \in {"closed", "armed"} /\ UNCHANGED <<readBuf, writeBuf, taken, tx, arrived, caller>>
    BY <1>9 DEF Leave, CloseInCallback, EnableEvents, peerVars, runVars
  <2> QED
    BY <1>1, <2>1, QuietStep
<1>10. CASE CallCommit("callback") \/ CallCommit("writeBack")
  <2>1. /\ pc' = "commit" /\ caller' \in {"callback", "writeBack"}
        /\ UNCHANGED <<readBuf, writeBuf, taken, tx, arrived>>
    BY <1>10 DEF CallCommit, ctlVars, peerVars
  <2> QED
    BY <1>1, <2>1, QuietStep
<1>11. CASE CallMove
  <2>1. /\ pc' = "move" /\ quota' = B!Least(Size(readBuf), B!bytesWrite(writeBuf))
        /\ UNCHANGED <<readBuf, writeBuf, taken, tx, arrived, caller>>
    BY <1>11 DEF CallMove, ctlVars, peerVars
  <2> QED
    BY <1>1, <2>1, QuietStep
<1> QED
  BY <1>2, <1>3, <1>4, <1>5, <1>6, <1>7, <1>8, <1>9, <1>10, <1>11, ReadSocketKeeps,
     CommitWriteKeeps, WriteBackKeeps, MoveKeeps, ReadWriteTempKeeps, PeekWriteKeeps
  DEF Next, Owner, Call

\* The invariant holds in every state.
LEMMA CtlAlways == Spec => []CtlInv
<1> QED
  BY CtlInit, CtlStep, PTL DEF Spec

\* A connection returns the bytes of its peer in order, without a loss or a
\* repetition, for every size of the two buffers and every mixture of
\* commitWrite, writeBack, moveToWriteBuffer, read, writeTemp, peek and write.
THEOREM EchoKeepsOrder == Spec => []EchoInOrder
<1>1. CtlInv => EchoInOrder
  BY DEF CtlInv
<1> QED
  BY <1>1, CtlAlways, PTL

\* moveToWriteBuffer never finds a contiguous part empty before maxMove bytes are
\* moved, wherever the two buffers wrap around.
THEOREM MoveNeverStuck == Spec => []MoveUsesQuota
<1>1. CtlInv => MoveUsesQuota
  <2> SUFFICES ASSUME CtlInv, pc = "move"
               PROVE  /\ quota <= Size(readBuf) /\ quota <= B!bytesWrite(writeBuf)
                      /\ quota > 0 => B!Least(B!distanceRead(readBuf), B!distanceWrite(writeBuf)) > 0
    BY DEF MoveUsesQuota
  <2>1. R!Ring(readBuf) /\ W!Ring(writeBuf)
    BY DEF CtlInv, Rings
  <2>2. quota = B!Least(Size(readBuf), B!bytesWrite(writeBuf))
    BY DEF CtlInv, Positions
  <2>3. /\ Size(readBuf) \in Nat /\ B!distanceRead(readBuf) \in Nat
        /\ B!distanceRead(readBuf) = 0 => Size(readBuf) = 0
    BY <2>1, ReadView, ControllerAssumption
  <2>4. /\ B!bytesWrite(writeBuf) \in Nat /\ B!distanceWrite(writeBuf) \in Nat
        /\ B!distanceWrite(writeBuf) = 0 => B!bytesWrite(writeBuf) = 0
    BY <2>1, WriteView, ControllerAssumption
  <2> QED
    BY <2>2, <2>3, <2>4 DEF B!Least
<1> QED
  BY <1>1, CtlAlways, PTL
=============================================================================
