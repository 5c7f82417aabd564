--------------------------- MODULE SPBufferProofs ---------------------------
(***************************************************************************)
(* Theorems about SPBuffer for every capacity, every set of bytes and every*)
(* choice of the callers' arguments.  The inductive invariant is RingOK:   *)
(* the fields are in their ranges (TypeOK) and front is size positions     *)
(* after back (PositionsAgree).  Neither is inductive without the other:   *)
(* commitWrite keeps size within the capacity only because distanceWrite   *)
(* is computed from positions that agree with it.                          *)
(***************************************************************************)
EXTENDS SPBuffer, TLAPS

Buffers == [back : 0 .. (BSIZE - 1), front : 0 .. (BSIZE - 1),
            size : 0 .. BSIZE, bsize : {BSIZE},
            mem : [0 .. (BSIZE - 1) -> Byte]]

\* A buffer in range whose positions agree.
Ring(b) == b \in Buffers /\ b.front = (b.back + b.size) % BSIZE

RingOK == TypeOK /\ PositionsAgree

-----------------------------------------------------------------------------
\* The remainder the buffer takes of a position that passed the end at most
\* once (the only use of % in SPBuffer.cpp).
LEMMA Wrap ==
    ASSUME NEW x \in Nat, NEW n \in Nat \ {0}, x < 2 * n
    PROVE  /\ x % n = IF x < n THEN x ELSE x - n
           /\ x % n \in 0 .. (n - 1)
  OBVIOUS

\* Sequences with the same length and the same elements are the same.
LEMMA SameSeq ==
    ASSUME NEW S, NEW s \in Seq(S), NEW t \in Seq(S), Len(s) = Len(t),
           \A i \in 1 .. Len(s) : s[i] = t[i]
    PROVE  s = t
  OBVIOUS

\* What a prefix of data appended to a sequence is, element by element.
LEMMA AppendPrefix ==
    ASSUME NEW S, NEW s \in Seq(S), NEW data \in Seq(S),
           NEW n \in Nat, n <= Len(data)
    PROVE  /\ s \o SubSeq(data, 1, n) \in Seq(S)
           /\ Len(s \o SubSeq(data, 1, n)) = Len(s) + n
           /\ \A i \in 1 .. Len(s) : (s \o SubSeq(data, 1, n))[i] = s[i]
           /\ \A i \in (Len(s) + 1) .. (Len(s) + n) :
                 (s \o SubSeq(data, 1, n))[i] = data[i - Len(s)]
  <1> DEFINE d == SubSeq(data, 1, n)
  <1>1. d \in Seq(S) /\ Len(d) = n /\ \A j \in 1 .. n : d[j] = data[j]
    OBVIOUS
  <1> HIDE DEF d
  <1>2. s \o d \in Seq(S) /\ Len(s \o d) = Len(s) + n
    BY <1>1
  <1>3. \A i \in 1 .. Len(s) : (s \o d)[i] = s[i]
    BY <1>1
  <1>4. \A i \in (Len(s) + 1) .. (Len(s) + n) : (s \o d)[i] = d[i - Len(s)]
    BY <1>1
  <1>5. \A i \in (Len(s) + 1) .. (Len(s) + n) : i - Len(s) \in 1 .. n
    OBVIOUS
  <1> QED
    BY <1>1, <1>2, <1>3, <1>4, <1>5 DEF d

-----------------------------------------------------------------------------
(* Cells of the ring.                                                      *)

\* The position of the i-th byte of a ring that starts at back.
Cell(back, i) == IF back + i - 1 < BSIZE THEN back + i - 1 ELSE back + i - 1 - BSIZE

\* Cell is what the remainder computes; distinct bytes are in distinct cells.
LEMMA CellIsRemainder ==
    ASSUME NEW back \in 0 .. (BSIZE - 1), NEW i \in 1 .. (BSIZE + 1)
    PROVE  /\ (back + i - 1) % BSIZE = Cell(back, i)
           /\ Cell(back, i) \in 0 .. (BSIZE - 1)
  <1> DEFINE x == back + i - 1
  <1>1. x \in Nat /\ x < 2 * BSIZE
    BY BSIZEAssumption
  <1> HIDE DEF x
  <1>2. x % BSIZE = IF x < BSIZE THEN x ELSE x - BSIZE
    BY <1>1, Wrap, BSIZEAssumption
  <1> QED
    BY <1>1, <1>2, BSIZEAssumption DEF x, Cell

\* The cells seen from a start that moved n bytes ahead.
LEMMA CellsAhead ==
    ASSUME NEW back \in 0 .. (BSIZE - 1), NEW size \in 0 .. BSIZE,
           NEW n \in 0 .. size
    PROVE  /\ (back + n) % BSIZE = Cell(back, n + 1)
           /\ Cell(back, n + 1) \in 0 .. (BSIZE - 1)
           /\ \A i \in 1 .. (size - n + 1) :
                 Cell(Cell(back, n + 1), i) = Cell(back, n + i)
  <1> USE BSIZEAssumption
  <1>1. n + 1 \in 1 .. (BSIZE + 1) /\ back + (n + 1) - 1 = back + n
    OBVIOUS
  <1>2. /\ (back + (n + 1) - 1) % BSIZE = Cell(back, n + 1)
        /\ Cell(back, n + 1) \in 0 .. (BSIZE - 1)
    BY <1>1, CellIsRemainder
  <1>3. \A i \in 1 .. (size - n + 1) : Cell(Cell(back, n + 1), i) = Cell(back, n + i)
    BY DEF Cell
  <1> QED
    BY <1>1, <1>2, <1>3

-----------------------------------------------------------------------------
(* Member functions.                                                       *)

\* The fields of a consistent buffer.
LEMMA RingFields ==
    ASSUME NEW b
    PROVE  Ring(b) <=> /\ b = [back |-> b.back, front |-> b.front, size |-> b.size,
                               bsize |-> b.bsize, mem |-> b.mem]
                       /\ b.back \in 0 .. (BSIZE - 1)
                       /\ b.size \in 0 .. BSIZE
                       /\ b.bsize = BSIZE
                       /\ b.mem \in [0 .. (BSIZE - 1) -> Byte]
                       /\ b.front = Cell(b.back, b.size + 1)
                       /\ b.front \in 0 .. (BSIZE - 1)
  <1> USE BSIZEAssumption
  <1>1. ASSUME NEW back \in 0 .. (BSIZE - 1), NEW size \in 0 .. BSIZE
        PROVE  (back + size) % BSIZE = Cell(back, size + 1)
    <2>1. size + 1 \in 1 .. (BSIZE + 1) /\ back + (size + 1) - 1 = back + size
      OBVIOUS
    <2> QED
      BY <2>1, CellIsRemainder
  <1>2. Ring(b) <=> b \in Buffers /\ b.front = Cell(b.back, b.size + 1)
    <2>1. b \in Buffers => b.back \in 0 .. (BSIZE - 1) /\ b.size \in 0 .. BSIZE
      BY DEF Buffers
    <2> QED
      BY <1>1, <2>1 DEF Ring
  <1>3. b \in Buffers
          <=> /\ b = [back |-> b.back, front |-> b.front, size |-> b.size,
                      bsize |-> b.bsize, mem |-> b.mem]
              /\ b.back \in 0 .. (BSIZE - 1)
              /\ b.front \in 0 .. (BSIZE - 1)
              /\ b.size \in 0 .. BSIZE
              /\ b.bsize = BSIZE
              /\ b.mem \in [0 .. (BSIZE - 1) -> Byte]
    BY DEF Buffers
  <1> QED
    BY <1>2, <1>3

\* A record with the fields of a buffer, whatever their values.
IsRecord(c) == c = [back |-> c.back, front |-> c.front, size |-> c.size,
                    bsize |-> c.bsize, mem |-> c.mem]

\* The i-th byte of the contents is in the i-th cell.
LEMMA ContentsAt ==
    ASSUME NEW b, Ring(b)
    PROVE  /\ Contents(b) \in Seq(Byte)
           /\ Len(Contents(b)) = b.size
           /\ \A i \in 1 .. b.size : Contents(b)[i] = b.mem[Cell(b.back, i)]
  <1> USE BSIZEAssumption
  <1> DEFINE cells == [i \in 1 .. b.size |-> b.mem[Cell(b.back, i)]]
  <1>1. ASSUME NEW back \in 0 .. (BSIZE - 1), NEW size \in 0 .. BSIZE,
               NEW mem \in [0 .. (BSIZE - 1) -> Byte]
        PROVE  \A i \in 1 .. size : /\ (back + i - 1) % BSIZE = Cell(back, i)
                                    /\ mem[Cell(back, i)] \in Byte
    <2> TAKE i \in 1 .. size
    <2>1. i \in 1 .. (BSIZE + 1)
      OBVIOUS
    <2> QED
      BY <2>1, CellIsRemainder
  <1>2. /\ b.back \in 0 .. (BSIZE - 1)
        /\ b.size \in 0 .. BSIZE
        /\ b.bsize = BSIZE
        /\ b.mem \in [0 .. (BSIZE - 1) -> Byte]
    BY RingFields
  <1>3. \A i \in 1 .. b.size : /\ (b.back + i - 1) % BSIZE = Cell(b.back, i)
                               /\ b.mem[Cell(b.back, i)] \in Byte
    BY <1>1, <1>2
  <1>4. Contents(b) = cells
    BY <1>2, <1>3 DEF Contents
  <1>5. b.size \in Nat
    BY <1>2
  <1>6. cells \in Seq(Byte) /\ Len(cells) = b.size
    BY <1>3, <1>5
  <1> QED
    BY <1>4, <1>6

\* write: the ring stays consistent and its contents grow by the prefix of
\* data that fits, whether or not the bytes wrap around the end.
LEMMA WriteAppends ==
    ASSUME NEW b, Ring(b), NEW data \in Seq(Byte)
    PROVE  LET n == Least(Len(data), BSIZE - b.size) IN
           /\ Ring(write(b, data))
           /\ Contents(write(b, data)) = Contents(b) \o SubSeq(data, 1, n)
  <1> USE BSIZEAssumption
  <1> DEFINE n     == Least(Len(data), BSIZE - b.size)
             first == firstChunk(b, b.front, n)
             w     == write(b, data)
             s     == Contents(b) \o SubSeq(data, 1, n)
  <1>1. /\ b.back \in 0 .. (BSIZE - 1)
        /\ b.size \in 0 .. BSIZE
        /\ b.bsize = BSIZE
        /\ b.mem \in [0 .. (BSIZE - 1) -> Byte]
        /\ b.front = Cell(b.back, b.size + 1)
        /\ b.front \in 0 .. (BSIZE - 1)
    BY RingFields
  <1>2. n \in 0 .. (BSIZE - b.size) /\ n <= Len(data) /\ n \in Nat
    BY <1>1 DEF Least
  <1>3. first = IF b.front + n > BSIZE THEN BSIZE - b.front ELSE n
    BY <1>1 DEF firstChunk
  <1>4. /\ w.mem = [p \in 0 .. (BSIZE - 1) |->
                     IF p >= b.front /\ p < b.front + first
                     THEN data[p - b.front + 1]
                     ELSE IF p < n - first THEN data[first + p + 1] ELSE b.mem[p]]
        /\ w.front = (b.front + n) % BSIZE
        /\ w.size = b.size + n
        /\ w.back = b.back
        /\ w.bsize = BSIZE
        /\ IsRecord(w)
    <2> DEFINE m == [p \in 0 .. (BSIZE - 1) |->
                      IF p >= b.front /\ p < b.front + first
                      THEN data[p - b.front + 1]
                      ELSE IF p < n - first THEN data[first + p + 1] ELSE b.mem[p]]
               f == (b.front + n) % BSIZE
               z == b.size + n
    <2>1. w = [b EXCEPT !.mem = m, !.front = f, !.size = z]
      BY <1>1 DEF write, bytesWrite, Pos
    <2> DEFINE P == 0 .. (BSIZE - 1)
               Z == 0 .. BSIZE
               M == [P -> Byte]
    <2>2. b \in [back : P, front : P, size : Z, bsize : {BSIZE}, mem : M]
      BY DEF Ring, Buffers
    <2> HIDE DEF m, f, z, w, P, Z, M
    <2>3. /\ IsRecord(w) /\ w.back = b.back /\ w.front = f /\ w.size = z
          /\ w.bsize = BSIZE /\ w.mem = m
      BY <2>1, <2>2 DEF IsRecord
    <2> QED
      BY <2>3 DEF m, f, z
  <1> HIDE DEF n, first, w
  <1>5. /\ w.mem \in [0 .. (BSIZE - 1) -> Byte]
        /\ Cell(b.front, n + 1) = Cell(b.back, b.size + n + 1)
        /\ \A i \in 1 .. b.size : w.mem[Cell(b.back, i)] = b.mem[Cell(b.back, i)]
        /\ \A i \in (b.size + 1) .. (b.size + n) :
              w.mem[Cell(b.back, i)] = data[i - b.size]
    <2> DEFINE back == b.back
               size == b.size
               front == b.front
               mem == b.mem
               wmem == w.mem
    <2>1. \A p \in 0 .. (BSIZE - 1) :
             wmem[p] = IF p >= front /\ p < front + first
                       THEN data[p - front + 1]
                       ELSE IF p < n - first THEN data[first + p + 1] ELSE mem[p]
      BY <1>4
    <2>2. /\ back \in 0 .. (BSIZE - 1) /\ size \in 0 .. BSIZE
          /\ n \in 0 .. (BSIZE - size) /\ front = Cell(back, size + 1)
          /\ first = IF front + n > BSIZE THEN BSIZE - front ELSE n
          /\ mem \in [0 .. (BSIZE - 1) -> Byte] /\ n <= Len(data)
      BY <1>1, <1>2, <1>3
    <2> HIDE DEF back, size, front, mem, wmem
    <2>3. /\ \A p \in 0 .. (BSIZE - 1) : wmem[p] \in Byte
          /\ Cell(front, n + 1) = Cell(back, size + n + 1)
          /\ \A i \in 1 .. size : wmem[Cell(back, i)] = mem[Cell(back, i)]
          /\ \A i \in (size + 1) .. (size + n) :
                wmem[Cell(back, i)] = data[i - size]
      <3>1. front \in 0 .. (BSIZE - 1) /\ first \in 0 .. n
        BY <2>2 DEF Cell
      <3>2. \A k \in 1 .. Len(data) : data[k] \in Byte
        OBVIOUS
      <3>3. \A p \in 0 .. (BSIZE - 1) : wmem[p] \in Byte
        <4>1. ASSUME NEW p \in 0 .. (BSIZE - 1), p >= front, p < front + first
              PROVE  data[p - front + 1] \in Byte
          BY <2>2, <3>1, <3>2, <4>1, SMTT(40)
        <4>2. ASSUME NEW p \in 0 .. (BSIZE - 1), p < n - first
              PROVE  data[first + p + 1] \in Byte
          <5>1. first \in Nat /\ p \in Nat /\ n \in Nat /\ Len(data) \in Nat
            BY <2>2, <3>1
          <5>2. first + p + 1 \in 1 .. Len(data)
            BY <2>2, <4>2, <5>1
          <5> QED
            BY <3>2, <5>2
        <4> QED
          BY <2>1, <2>2, <4>1, <4>2
      <3>4. Cell(front, n + 1) = Cell(back, size + n + 1)
        BY <2>2, <3>1 DEF Cell
      <3>5. ASSUME NEW i \in 1 .. size
            PROVE  wmem[Cell(back, i)] = mem[Cell(back, i)]
        <4> DEFINE p == Cell(back, i)
        <4>1. /\ p \in 0 .. (BSIZE - 1)
              /\ ~ (p >= front /\ p < front + first)
              /\ ~ (p < n - first)
          BY <2>2, <3>1 DEF Cell
        <4> HIDE DEF p
        <4> QED
          BY <2>1, <4>1 DEF p
      <3>6. ASSUME NEW i \in (size + 1) .. (size + n)
            PROVE  wmem[Cell(back, i)] = data[i - size]
        <4> DEFINE p == Cell(back, i)
        <4>1. /\ p \in 0 .. (BSIZE - 1)
              /\ \/ p >= front /\ p < front + first /\ p - front + 1 = i - size
                 \/ ~ (p >= front /\ p < front + first) /\ p < n - first
                    /\ first + p + 1 = i - size
          BY <2>2, <3>1 DEF Cell
        <4> HIDE DEF p
        <4> QED
          BY <2>1, <4>1 DEF p
      <3> QED
        BY <3>3, <3>4, <3>5, <3>6
    <2>4. w.mem \in [0 .. (BSIZE - 1) -> Byte]
      BY <1>4, <2>3 DEF wmem
    <2> QED
      BY <2>3, <2>4 DEF back, size, front, mem, wmem
  <1>6. w.front = Cell(b.back, b.size + n + 1) /\ w.front \in 0 .. (BSIZE - 1)
    <2>1. n + 1 \in 1 .. (BSIZE + 1) /\ b.front + (n + 1) - 1 = b.front + n
      BY <1>1, <1>2
    <2>2. /\ (b.front + (n + 1) - 1) % BSIZE = Cell(b.front, n + 1)
          /\ Cell(b.front, n + 1) \in 0 .. (BSIZE - 1)
      BY <1>1, <2>1, CellIsRemainder
    <2> QED
      <3>1. (b.front + n) % BSIZE = Cell(b.front, n + 1)
        BY <2>1, <2>2
      <3> QED
        BY <1>4, <1>5, <2>2, <3>1
  <1>7. b.size + n \in 0 .. BSIZE /\ b.size \in Nat
    BY <1>1, <1>2
  <1>9. Ring(w)
    BY <1>1, <1>4, <1>5, <1>6, <1>7, RingFields DEF IsRecord
  <1>10. /\ Contents(b) \in Seq(Byte) /\ Len(Contents(b)) = b.size
         /\ \A i \in 1 .. b.size : Contents(b)[i] = b.mem[Cell(b.back, i)]
    BY ContentsAt
  <1>11. /\ Contents(w) \in Seq(Byte) /\ Len(Contents(w)) = b.size + n
         /\ \A i \in 1 .. (b.size + n) : Contents(w)[i] = w.mem[Cell(b.back, i)]
    <2>1. w.size = b.size + n /\ w.back = b.back
      BY <1>4
    <2> QED
      BY <1>9, <2>1, ContentsAt
  <1>12. /\ s \in Seq(Byte) /\ Len(s) = b.size + n
         /\ \A i \in 1 .. b.size : s[i] = Contents(b)[i]
         /\ \A i \in (b.size + 1) .. (b.size + n) : s[i] = data[i - b.size]
    <2> DEFINE c == Contents(b)
    <2>1. c \in Seq(Byte) /\ Len(c) = b.size
      BY <1>10
    <2> HIDE DEF c
    <2>2. s = c \o SubSeq(data, 1, n)
      BY DEF c
    <2> HIDE DEF s
    <2>3. n \in Nat /\ n <= Len(data) /\ c \in Seq(Byte)
      BY <1>2, <2>1
    <2>4. /\ c \o SubSeq(data, 1, n) \in Seq(Byte)
          /\ Len(c \o SubSeq(data, 1, n)) = Len(c) + n
          /\ \A i \in 1 .. Len(c) : (c \o SubSeq(data, 1, n))[i] = c[i]
          /\ \A i \in (Len(c) + 1) .. (Len(c) + n) :
                (c \o SubSeq(data, 1, n))[i] = data[i - Len(c)]
      BY <2>3, AppendPrefix, ZenonT(40)
    <2>5. /\ s \in Seq(Byte) /\ Len(s) = Len(c) + n
          /\ \A i \in 1 .. Len(c) : s[i] = c[i]
          /\ \A i \in (Len(c) + 1) .. (Len(c) + n) : s[i] = data[i - Len(c)]
      BY <2>2, <2>4, Zenon
    <2> QED
      BY <2>1, <2>5, Zenon DEF c
  <1>13. Contents(w) = s
    <2> HIDE DEF s
    <2>1. ASSUME NEW i \in 1 .. (b.size + n) PROVE Contents(w)[i] = s[i]
      <3>1. i \in 1 .. b.size \/ i \in (b.size + 1) .. (b.size + n)
        BY <1>2, <1>7
      <3> QED
        BY <1>5, <1>10, <1>11, <1>12, <3>1
    <2> QED
      BY <1>11, <1>12, <2>1, SameSeq
  <1> QED
    BY <1>9, <1>13 DEF n, w

\* The two pieces of a sequence cut after n elements.
LEMMA CutSeq ==
    ASSUME NEW S, NEW s \in Seq(S), NEW n \in 0 .. Len(s)
    PROVE  /\ SubSeq(s, 1, n) \in Seq(S) /\ Len(SubSeq(s, 1, n)) = n
           /\ \A i \in 1 .. n : SubSeq(s, 1, n)[i] = s[i]
           /\ SubSeq(s, n + 1, Len(s)) \in Seq(S)
           /\ Len(SubSeq(s, n + 1, Len(s))) = Len(s) - n
           /\ \A i \in 1 .. (Len(s) - n) : SubSeq(s, n + 1, Len(s))[i] = s[n + i]
  OBVIOUS

\* The indices of the bytes that are left when n of m bytes are consumed.
LEMMA IndicesLeft ==
    ASSUME NEW m \in 0 .. BSIZE, NEW n \in 0 .. m
    PROVE  /\ n \in 0 .. BSIZE /\ m - n \in 0 .. BSIZE
           /\ m - n + 1 \in 1 .. (m - n + 1)
           /\ n + (m - n + 1) = m + 1
           /\ \A i \in 1 .. (m - n) : n + i \in 1 .. m /\ i \in 1 .. (m - n + 1)
  BY BSIZEAssumption

\* Moving back by n positions removes the n oldest bytes.
LEMMA DropOldest ==
    ASSUME NEW b, Ring(b), NEW n \in 0 .. b.size,
           NEW c, IsRecord(c), c.back = (b.back + n) % BSIZE, c.front = b.front,
           c.size = b.size - n, c.bsize = BSIZE, c.mem = b.mem
    PROVE  /\ Ring(c)
           /\ Contents(c) = SubSeq(Contents(b), n + 1, b.size)
  <1> USE BSIZEAssumption
  <1>1. /\ b.back \in 0 .. (BSIZE - 1)
        /\ b.size \in 0 .. BSIZE
        /\ b.mem \in [0 .. (BSIZE - 1) -> Byte]
        /\ b.front = Cell(b.back, b.size + 1)
        /\ b.front \in 0 .. (BSIZE - 1)
    BY RingFields
  <1>2. n \in 0 .. BSIZE /\ c.size \in 0 .. BSIZE
    <2>1. n \in 0 .. BSIZE /\ b.size - n \in 0 .. BSIZE
      BY <1>1, IndicesLeft, Zenon
    <2> QED
      BY <2>1
  <1>3. /\ (b.back + n) % BSIZE = Cell(b.back, n + 1)
        /\ Cell(b.back, n + 1) \in 0 .. (BSIZE - 1)
        /\ \A i \in 1 .. (b.size - n + 1) :
              Cell(Cell(b.back, n + 1), i) = Cell(b.back, n + i)
    BY <1>1, CellsAhead, ZenonT(40)
  <1>4. /\ c.back = Cell(b.back, n + 1) /\ c.back \in 0 .. (BSIZE - 1)
        /\ \A i \in 1 .. (b.size - n + 1) : Cell(c.back, i) = Cell(b.back, n + i)
    BY <1>3, Zenon
  <1>5. Ring(c)
    <2>1. Cell(c.back, b.size - n + 1) = Cell(b.back, n + (b.size - n + 1))
      <3>1. b.size - n + 1 \in 1 .. (b.size - n + 1)
        BY <1>1, IndicesLeft, Zenon
      <3> QED
        BY <1>4, <3>1
    <2>2. n + (b.size - n + 1) = b.size + 1
      BY <1>1, IndicesLeft, Zenon
    <2>3. c.front = Cell(c.back, c.size + 1)
      BY <1>1, <2>1, <2>2
    <2> QED
      BY <1>1, <1>2, <1>4, <2>3, RingFields DEF IsRecord
  <1>6. Contents(c) = SubSeq(Contents(b), n + 1, b.size)
    <2> DEFINE s == Contents(b)
               t == SubSeq(s, n + 1, b.size)
    <2>1. /\ s \in Seq(Byte) /\ Len(s) = b.size
          /\ \A i \in 1 .. b.size : s[i] = b.mem[Cell(b.back, i)]
      BY ContentsAt
    <2>2. /\ Contents(c) \in Seq(Byte) /\ Len(Contents(c)) = b.size - n
          /\ \A i \in 1 .. (b.size - n) : Contents(c)[i] = b.mem[Cell(c.back, i)]
      BY <1>5, ContentsAt
    <2> HIDE DEF s
    <2>3. /\ t \in Seq(Byte) /\ Len(t) = b.size - n
          /\ \A i \in 1 .. (b.size - n) : t[i] = s[n + i]
      BY <2>1, CutSeq
    <2> HIDE DEF t
    <2>4. ASSUME NEW i \in 1 .. (b.size - n) PROVE Contents(c)[i] = t[i]
      <3>1. n + i \in 1 .. b.size /\ i \in 1 .. (b.size - n + 1)
        BY <1>1, IndicesLeft, Zenon
      <3> QED
        BY <1>4, <2>1, <2>2, <2>3, <3>1
    <2>5. Contents(c) = t
      BY <2>2, <2>3, <2>4, SameSeq
    <2> QED
      BY <2>5 DEF s, t
  <1> QED
    BY <1>5, <1>6

\* read and peek copy the oldest bytes, in one piece or in two.
LEMMA CopyOutOldest ==
    ASSUME NEW b, Ring(b), NEW len \in Nat
    PROVE  /\ Least(len, b.size) \in 0 .. b.size
           /\ copyOut(b, len) = SubSeq(Contents(b), 1, Least(len, b.size))
  <1> USE BSIZEAssumption
  <1> DEFINE n     == Least(len, b.size)
             first == firstChunk(b, b.back, n)
             o     == copyOut(b, len)
             s     == Contents(b)
             t     == SubSeq(s, 1, n)
  <1>1. /\ b.back \in 0 .. (BSIZE - 1)
        /\ b.size \in 0 .. BSIZE
        /\ b.bsize = BSIZE
        /\ b.mem \in [0 .. (BSIZE - 1) -> Byte]
    BY RingFields
  <1>2. n \in 0 .. b.size /\ n \in Nat
    BY <1>1 DEF Least
  <1>3. first = IF b.back + n > BSIZE THEN BSIZE - b.back ELSE n
    BY <1>1 DEF firstChunk
  <1>4. o = [i \in 1 .. n |-> IF i <= first THEN b.mem[b.back + i - 1]
                                            ELSE b.mem[i - first - 1]]
    BY DEF copyOut
  <1> HIDE DEF n, first, o
  <1>5. ASSUME NEW i \in 1 .. n
        PROVE  /\ o[i] = b.mem[Cell(b.back, i)]
               /\ o[i] \in Byte
    <2>1. Cell(b.back, i) = IF i <= first THEN b.back + i - 1 ELSE i - first - 1
      BY <1>1, <1>2, <1>3 DEF Cell
    <2>2. Cell(b.back, i) \in 0 .. (BSIZE - 1)
      BY <1>1, <1>2 DEF Cell
    <2> QED
      BY <1>1, <1>4, <2>1, <2>2
  <1>6. o \in Seq(Byte) /\ Len(o) = n
    BY <1>2, <1>4, <1>5
  <1>7. /\ s \in Seq(Byte) /\ Len(s) = b.size
        /\ \A i \in 1 .. b.size : s[i] = b.mem[Cell(b.back, i)]
    BY ContentsAt
  <1> HIDE DEF s
  <1>8. t \in Seq(Byte) /\ Len(t) = n /\ \A i \in 1 .. n : t[i] = s[i]
    BY <1>2, <1>7, CutSeq
  <1> HIDE DEF t
  <1>9. ASSUME NEW i \in 1 .. n PROVE o[i] = t[i]
    <2>1. i \in 1 .. b.size
      BY <1>1, <1>2
    <2> QED
      BY <1>5, <1>7, <1>8, <2>1
  <1>10. o = t
    BY <1>6, <1>8, <1>9, SameSeq
  <1> QED
    BY <1>2, <1>10 DEF n, o, s, t

\* read removes what copyOut delivered, and an emptied buffer restarts at 0.
LEMMA ReadTakes ==
    ASSUME NEW b, Ring(b), NEW len \in Nat
    PROVE  /\ Ring(read(b, len))
           /\ Contents(read(b, len))
                = SubSeq(Contents(b), Least(len, b.size) + 1, b.size)
  <1> USE BSIZEAssumption
  <1> DEFINE n == Least(len, b.size)
             c == read(b, len)
             P == 0 .. (BSIZE - 1)
             Z == 0 .. BSIZE
             M == [P -> Byte]
  <1>1. /\ b.back \in 0 .. (BSIZE - 1)
        /\ b.size \in 0 .. BSIZE
        /\ b.bsize = BSIZE
        /\ b.mem \in [0 .. (BSIZE - 1) -> Byte]
        /\ b.front \in 0 .. (BSIZE - 1)
    BY RingFields
  <1>2. n \in 0 .. b.size
    BY CopyOutOldest
  <1>3. b \in [back : P, front : P, size : Z, bsize : {BSIZE}, mem : M]
    BY DEF Ring, Buffers
  <1>4. c = IF n = 0 THEN b
            ELSE IF b.size = n
                 THEN [b EXCEPT !.size = 0, !.front = 0, !.back = 0]
                 ELSE [b EXCEPT !.size = b.size - n, !.back = (b.back + n) % BSIZE]
    BY <1>1 DEF read
  <1>5. /\ Contents(b) \in Seq(Byte) /\ Len(Contents(b)) = b.size
    BY ContentsAt
  <1> HIDE DEF n, c
  <1>6. CASE n = 0
    <2>1. SubSeq(Contents(b), 1, b.size) = Contents(b)
      BY <1>5
    <2> QED
      BY <1>4, <1>6, <2>1 DEF n, c
  <1>7. CASE n # 0 /\ b.size = n
    <2>1. c = [b EXCEPT !.size = 0, !.front = 0, !.back = 0]
      BY <1>4, <1>7
    <2>2. /\ IsRecord(c) /\ c.size = 0 /\ c.front = 0 /\ c.back = 0
          /\ c.bsize = BSIZE /\ c.mem = b.mem
      <3> HIDE DEF P, Z, M
      <3> QED
        BY <1>3, <2>1 DEF IsRecord
    <2>3. Ring(c)
      <3>1. Cell(0, 0 + 1) = 0
        BY DEF Cell
      <3> QED
        BY <1>1, <2>2, <3>1, RingFields DEF IsRecord
    <2>4. Contents(c) = << >>
      BY <2>2 DEF Contents
    <2>5. SubSeq(Contents(b), n + 1, b.size) = << >>
      BY <1>1, <1>5, <1>7
    <2> QED
      BY <2>3, <2>4, <2>5 DEF n, c
  <1>8. CASE n # 0 /\ b.size # n
    <2>1. c = [b EXCEPT !.size = b.size - n, !.back = (b.back + n) % BSIZE]
      BY <1>4, <1>8
    <2>2. /\ IsRecord(c) /\ c.size = b.size - n /\ c.front = b.front
          /\ c.back = (b.back + n) % BSIZE /\ c.bsize = BSIZE /\ c.mem = b.mem
      <3> DEFINE z == b.size - n
                 k == (b.back + n) % BSIZE
      <3>1. c = [b EXCEPT !.size = z, !.back = k]
        BY <2>1
      <3> HIDE DEF P, Z, M, z, k
      <3>2. /\ IsRecord(c) /\ c.size = z /\ c.front = b.front
            /\ c.back = k /\ c.bsize = BSIZE /\ c.mem = b.mem
        BY <1>3, <3>1 DEF IsRecord
      <3> QED
        BY <3>2 DEF z, k
    <2> QED
      BY <1>2, <2>2, DropOldest DEF n, c
  <1> QED
    BY <1>6, <1>7, <1>8

\* What send() finds at readPtr() is the oldest bytes, and commitRead removes
\* exactly those: distanceRead() never reaches past the end of the memory.
LEMMA SendTakes ==
    ASSUME NEW b, Ring(b), NEW len \in Nat, len <= distanceRead(b)
    PROVE  /\ len <= b.size
           /\ loadAtReadPtr(b, len) = SubSeq(Contents(b), 1, len)
           /\ Ring(commitRead(b, len))
           /\ Contents(commitRead(b, len)) = SubSeq(Contents(b), len + 1, b.size)
  <1> USE BSIZEAssumption
  <1> DEFINE c == commitRead(b, len)
             o == loadAtReadPtr(b, len)
             s == Contents(b)
             t == SubSeq(s, 1, len)
             P == 0 .. (BSIZE - 1)
             Z == 0 .. BSIZE
             M == [P -> Byte]
  <1>1. /\ b.back \in 0 .. (BSIZE - 1)
        /\ b.size \in 0 .. BSIZE
        /\ b.bsize = BSIZE
        /\ b.mem \in [0 .. (BSIZE - 1) -> Byte]
    BY RingFields
  <1>2. len \in 0 .. b.size /\ len <= BSIZE - b.back
    BY <1>1 DEF distanceRead, bytesRead, Least
  <1>3. /\ s \in Seq(Byte) /\ Len(s) = b.size
        /\ \A i \in 1 .. b.size : s[i] = b.mem[Cell(b.back, i)]
    BY ContentsAt
  <1>4. o = [i \in 1 .. len |-> b.mem[b.back + i - 1]]
    BY DEF loadAtReadPtr
  <1>5. b \in [back : P, front : P, size : Z, bsize : {BSIZE}, mem : M]
    BY DEF Ring, Buffers
  <1>6. c = [b EXCEPT !.back = (b.back + len) % BSIZE, !.size = b.size - len]
    BY <1>1 DEF commitRead
  <1> HIDE DEF c, o, s
  <1>7. ASSUME NEW i \in 1 .. len
        PROVE  o[i] = b.mem[Cell(b.back, i)] /\ o[i] \in Byte
    <2>1. Cell(b.back, i) = b.back + i - 1 /\ Cell(b.back, i) \in 0 .. (BSIZE - 1)
      BY <1>1, <1>2 DEF Cell
    <2> QED
      BY <1>1, <1>4, <2>1
  <1>8. o \in Seq(Byte) /\ Len(o) = len
    <2>1. \A i \in 1 .. len : b.mem[b.back + i - 1] \in Byte
      BY <1>4, <1>7
    <2> QED
      BY <1>4, <2>1
  <1>9. t \in Seq(Byte) /\ Len(t) = len /\ \A i \in 1 .. len : t[i] = s[i]
    BY <1>2, <1>3, CutSeq
  <1>10. o = t
    <2> HIDE DEF t
    <2>1. ASSUME NEW i \in 1 .. len PROVE o[i] = t[i]
      <3>1. i \in 1 .. b.size
        BY <1>1, <1>2
      <3> QED
        BY <1>3, <1>7, <1>9, <3>1
    <2> QED
      BY <1>8, <1>9, <2>1, SameSeq
  <1>11. /\ IsRecord(c) /\ c.size = b.size - len /\ c.front = b.front
         /\ c.back = (b.back + len) % BSIZE /\ c.bsize = BSIZE /\ c.mem = b.mem
    <2> DEFINE z == b.size - len
               k == (b.back + len) % BSIZE
    <2>1. c = [b EXCEPT !.back = k, !.size = z]
      BY <1>6
    <2> HIDE DEF P, Z, M, z, k
    <2>2. /\ IsRecord(c) /\ c.size = z /\ c.front = b.front
          /\ c.back = k /\ c.bsize = BSIZE /\ c.mem = b.mem
      BY <1>5, <2>1 DEF IsRecord
    <2> QED
      BY <2>2 DEF z, k
  <1>12. Ring(c) /\ Contents(c) = SubSeq(Contents(b), len + 1, b.size)
    BY <1>2, <1>11, DropOldest
  <1> QED
    BY <1>1, <1>2, <1>10, <1>12 DEF c, o, s, t

\* recv() into the space at writePtr() followed by commitWrite appends the
\* received bytes; committing nothing to an empty buffer only resets it.
LEMMA RecvAppends ==
    ASSUME NEW b, Ring(b), NEW data \in Seq(Byte), Len(data) <= distanceWrite(b)
    PROVE  LET c == commitWrite(storeAtWritePtr(b, data), Len(data)) IN
           /\ Len(data) <= BSIZE - b.size
           /\ Ring(c)
           /\ Contents(c) = Contents(b) \o SubSeq(data, 1, Len(data))
  <1> USE BSIZEAssumption
  <1> DEFINE n == Len(data)
             m == [p \in 0 .. (BSIZE - 1) |->
                     IF p >= b.front /\ p < b.front + n
                     THEN data[p - b.front + 1] ELSE b.mem[p]]
             d == storeAtWritePtr(b, data)
             c == commitWrite(d, n)
             P == 0 .. (BSIZE - 1)
             Z == 0 .. BSIZE
             M == [P -> Byte]
  <1>1. /\ b.back \in 0 .. (BSIZE - 1)
        /\ b.size \in 0 .. BSIZE
        /\ b.bsize = BSIZE
        /\ b.mem \in [0 .. (BSIZE - 1) -> Byte]
        /\ b.front \in 0 .. (BSIZE - 1)
    BY RingFields
  <1>2. n \in 0 .. (BSIZE - b.size) /\ n <= BSIZE - b.front
    BY <1>1 DEF distanceWrite, bytesWrite, Least
  <1>3. b \in [back : P, front : P, size : Z, bsize : {BSIZE}, mem : M]
    BY DEF Ring, Buffers
  <1>4. d = [b EXCEPT !.mem = m]
    BY <1>1 DEF storeAtWritePtr, Pos
  <1>5. /\ IsRecord(d) /\ d.back = b.back /\ d.front = b.front /\ d.size = b.size
        /\ d.bsize = BSIZE /\ d.mem = m
    <2> HIDE DEF P, Z, M, m, d
    <2> QED
      BY <1>3, <1>4 DEF IsRecord
  <1>6. /\ c = IF b.size + n = 0
               THEN [d EXCEPT !.front = 0, !.back = 0, !.size = 0]
               ELSE [d EXCEPT !.front = (b.front + n) % BSIZE, !.size = b.size + n]
    <2> HIDE DEF d
    <2> QED
      BY <1>5 DEF commitWrite
  <1>7. CASE b.size + n = 0
    <2>1. n = 0 /\ b.size = 0
      BY <1>1, <1>2, <1>7
    <2>2. m = b.mem
      BY <1>1, <2>1
    <2>3. c = [d EXCEPT !.front = 0, !.back = 0, !.size = 0]
      BY <1>6, <1>7
    <2>4. /\ IsRecord(c) /\ c.back = 0 /\ c.front = 0 /\ c.size = 0
          /\ c.bsize = BSIZE /\ c.mem = b.mem
      <3> HIDE DEF c, d, m
      <3>1. d = [back |-> d.back, front |-> d.front, size |-> d.size,
                 bsize |-> d.bsize, mem |-> d.mem]
        BY <1>5 DEF IsRecord
      <3>2. d.bsize = BSIZE /\ d.mem = b.mem
        BY <1>5, <2>2
      <3> QED
        BY <2>3, <3>1, <3>2 DEF IsRecord
    <2>5. Ring(c)
      <3>1. Cell(0, 0 + 1) = 0
        BY DEF Cell
      <3> HIDE DEF c, m
      <3> QED
        BY <1>1, <2>4, <3>1, RingFields DEF IsRecord
    <2>6. Contents(c) = << >>
      <3> HIDE DEF c
      <3> QED
        BY <2>4 DEF Contents
    <2>7. Contents(b) = << >>
      BY <2>1 DEF Contents
    <2>8. SubSeq(data, 1, n) = << >>
      BY <2>1
    <2> HIDE DEF c
    <2>9. Contents(c) = Contents(b) \o SubSeq(data, 1, n)
      BY <2>6, <2>7, <2>8
    <2> QED
      BY <1>1, <1>2, <2>5, <2>9 DEF c, d
  <1>8. CASE b.size + n # 0
    <2> DEFINE w == write(b, data)
    <2>1. c = w
      <3> DEFINE f == (b.front + n) % BSIZE
                 z == b.size + n
      <3>1. Least(n, BSIZE - b.size) = n /\ firstChunk(b, b.front, n) = n
        BY <1>1, <1>2 DEF Least, firstChunk
      <3>2. m = [p \in 0 .. (BSIZE - 1) |->
                   IF p >= b.front /\ p < b.front + n
                   THEN data[p - b.front + 1]
                   ELSE IF p < n - n THEN data[n + p + 1] ELSE b.mem[p]]
        BY <1>1, <1>2
      <3>3. w = [b EXCEPT !.mem = [p \in 0 .. (BSIZE - 1) |->
                                     IF p >= b.front /\ p < b.front + n
                                     THEN data[p - b.front + 1]
                                     ELSE IF p < n - n THEN data[n + p + 1] ELSE b.mem[p]],
                          !.front = f, !.size = z]
        BY <1>1, <3>1 DEF write, bytesWrite, Pos
      <3>4. w = [b EXCEPT !.mem = m, !.front = f, !.size = z]
        <4> HIDE DEF m, w, f, z
        <4> QED
          BY <3>2, <3>3
      <3>5. c = [d EXCEPT !.front = f, !.size = z]
        BY <1>6, <1>8
      <3> HIDE DEF P, Z, M, m, f, z, c, d, w
      <3>6. /\ IsRecord(w) /\ w.back = b.back /\ w.front = f /\ w.size = z
            /\ w.bsize = BSIZE /\ w.mem = m
        BY <1>3, <3>4 DEF IsRecord
      <3>7. /\ IsRecord(c) /\ c.back = b.back /\ c.front = f /\ c.size = z
            /\ c.bsize = BSIZE /\ c.mem = m
        BY <1>5, <3>5 DEF IsRecord
      <3> QED
        BY <3>6, <3>7 DEF IsRecord
    <2>2. Least(Len(data), BSIZE - b.size) = n
      BY <1>1, <1>2 DEF Least
    <2>3. Ring(w) /\ Contents(w) = Contents(b) \o SubSeq(data, 1, n)
      BY <2>2, WriteAppends
    <2> HIDE DEF w, c
    <2>4. Ring(c) /\ Contents(c) = Contents(b) \o SubSeq(data, 1, n)
      BY <2>1, <2>3
    <2> QED
      BY <1>1, <1>2, <2>4 DEF c, d
  <1> QED
    BY <1>7, <1>8

-----------------------------------------------------------------------------
(* The member functions for a user of the class.                           *)

\* What the owner of a ring sees: peeking at everything shows the contents, both
\* contiguous parts are within bounds, and a part is empty only when there is
\* nothing to read or no room to write.
LEMMA RingView ==
    ASSUME NEW b, Ring(b)
    PROVE  /\ copyOut(b, bytesRead(b)) = Contents(b)
           /\ bytesRead(b) \in 0 .. BSIZE /\ Len(Contents(b)) = bytesRead(b)
           /\ Contents(b) \in Seq(Byte) /\ bytesWrite(b) = BSIZE - bytesRead(b)
           /\ distanceRead(b) \in 0 .. bytesRead(b)
           /\ distanceRead(b) = 0 => bytesRead(b) = 0
           /\ distanceWrite(b) \in 0 .. bytesWrite(b)
           /\ distanceWrite(b) = 0 => bytesWrite(b) = 0
  <1> USE BSIZEAssumption
  <1>1. /\ b.size \in 0 .. BSIZE /\ b.bsize = BSIZE /\ b.back \in 0 .. (BSIZE - 1)
        /\ b.front \in 0 .. (BSIZE - 1) /\ b.size \in Nat
    BY RingFields
  <1>2. Contents(b) \in Seq(Byte) /\ Len(Contents(b)) = b.size
    BY ContentsAt
  <1>3. copyOut(b, b.size) = SubSeq(Contents(b), 1, Least(b.size, b.size))
    BY <1>1, CopyOutOldest
  <1>4. Least(b.size, b.size) = Len(Contents(b))
    BY <1>1, <1>2 DEF Least
  <1>5. SubSeq(Contents(b), 1, Len(Contents(b))) = Contents(b)
    BY <1>2
  <1>6. copyOut(b, bytesRead(b)) = Contents(b)
    BY <1>3, <1>4, <1>5 DEF bytesRead
  <1> QED
    BY <1>1, <1>2, <1>6 DEF bytesRead, bytesWrite, distanceRead, distanceWrite, Least

-----------------------------------------------------------------------------
(* The specification.                                                      *)

\* RingOK in terms of Ring, and the initial states satisfy it.
LEMMA RingOKIsRing ==
    RingOK <=> Ring(buf) /\ out \in Seq(Byte) /\ ret \in Nat
  BY DEF RingOK, TypeOK, PositionsAgree, Ring, Buffers

\* Every buffer Init allows is an empty ring.
LEMMA InitRing ==
    ASSUME Init
    PROVE  RingOK /\ Contents(buf) = << >>
  <1> USE BSIZEAssumption
  <1>1. buf \in Buffers /\ buf.back = 0 /\ buf.front = 0 /\ buf.size = 0
    BY DEF Init, Buffers
  <1>2. (0 + 0) % BSIZE = 0
    OBVIOUS
  <1>3. Ring(buf)
    BY <1>1, <1>2 DEF Ring
  <1>4. out \in Seq(Byte) /\ ret \in Nat
    BY DEF Init
  <1>5. Contents(buf) = << >>
    BY <1>1 DEF Contents
  <1> QED
    BY <1>3, <1>4, <1>5, RingOKIsRing

\* Every step keeps the ring consistent and is the corresponding step of the
\* abstract queue.
LEMMA StepSimulates ==
    ASSUME RingOK, Next
    PROVE  RingOK' /\ Fifo!Next
  <1> USE BSIZEAssumption
  <1>1. Ring(buf) /\ buf.size \in 0 .. BSIZE /\ buf.bsize = BSIZE
    BY RingOKIsRing, RingFields
  <1>2. Contents(buf) \in Seq(Byte) /\ Len(Contents(buf)) = buf.size
    BY <1>1, ContentsAt
  <1>3. (Ring(buf') /\ out' \in Seq(Byte) /\ ret' \in Nat) => RingOK'
    BY DEF RingOK, TypeOK, PositionsAgree, Ring, Buffers
  <1>4. ASSUME NEW data \in Data, Write(data)
        PROVE  RingOK' /\ Fifo!Next
    <2>1. data \in Seq(Byte) /\ Len(data) \in Nat
      BY DataAssumption
    <2> DEFINE n == Least(Len(data), BSIZE - buf.size)
    <2>2. n \in Nat /\ n <= Len(data)
      BY <1>1, <2>1 DEF Least
    <2>3. buf' = write(buf, data) /\ out' = << >> /\ ret' = n
      BY <1>1, <1>4 DEF Write, bytesWrite
    <2>4. Ring(buf') /\ Contents(buf') = Contents(buf) \o SubSeq(data, 1, n)
      BY <1>1, <2>1, <2>3, WriteAppends
    <2>5. RingOK'
      BY <1>3, <2>2, <2>3, <2>4
    <2>6. n = Fifo!Least(Len(data), BSIZE - Len(Contents(buf)))
      BY <1>2 DEF Least, Fifo!Least
    <2>7. Fifo!Put(data)
      BY <2>3, <2>4, <2>6 DEF Fifo!Put
    <2> QED
      BY <2>5, <2>7 DEF Fifo!Next
  <1>5. ASSUME NEW data \in Data, RecvInto(data)
        PROVE  RingOK' /\ Fifo!Next
    <2>1. data \in Seq(Byte) /\ Len(data) \in Nat
      BY DataAssumption
    <2>2. /\ Len(data) <= distanceWrite(buf)
          /\ buf' = commitWrite(storeAtWritePtr(buf, data), Len(data))
          /\ out' = << >> /\ ret' = Len(data)
      BY <1>5 DEF RecvInto
    <2>3. /\ Len(data) <= BSIZE - buf.size
          /\ Ring(buf')
          /\ Contents(buf') = Contents(buf) \o SubSeq(data, 1, Len(data))
      BY <1>1, <2>1, <2>2, RecvAppends
    <2>4. RingOK'
      BY <1>3, <2>1, <2>2, <2>3
    <2>5. Len(data) = Fifo!Least(Len(data), BSIZE - Len(Contents(buf)))
      BY <1>1, <1>2, <2>1, <2>3 DEF Fifo!Least
    <2>6. Fifo!Put(data)
      BY <2>2, <2>3, <2>5 DEF Fifo!Put
    <2> QED
      BY <2>4, <2>6 DEF Fifo!Next
  <1>6. ASSUME NEW len \in Lengths, Read(len)
        PROVE  RingOK' /\ Fifo!Next
    <2>1. len \in Nat
      BY LengthsAssumption
    <2> DEFINE n == Least(len, buf.size)
    <2>2. buf' = read(buf, len) /\ out' = copyOut(buf, len) /\ ret' = n
      BY <1>6 DEF Read
    <2>3. n \in 0 .. buf.size /\ out' = SubSeq(Contents(buf), 1, n)
      BY <1>1, <2>1, <2>2, CopyOutOldest
    <2>4. Ring(buf') /\ Contents(buf') = SubSeq(Contents(buf), n + 1, buf.size)
      BY <1>1, <2>1, <2>2, ReadTakes
    <2>5. out' \in Seq(Byte) /\ n \in Nat
      BY <1>1, <1>2, <2>3
    <2>6. RingOK'
      BY <1>3, <2>2, <2>4, <2>5
    <2>7. n = Fifo!Least(len, Len(Contents(buf)))
      BY <1>2 DEF Least, Fifo!Least
    <2>8. Fifo!Take(len)
      BY <1>2, <2>2, <2>3, <2>4, <2>7 DEF Fifo!Take
    <2> QED
      BY <2>6, <2>8 DEF Fifo!Next
  <1>7. ASSUME NEW len \in Lengths, Peek(len)
        PROVE  RingOK' /\ Fifo!Next
    <2>1. len \in Nat
      BY LengthsAssumption
    <2> DEFINE n == Least(len, buf.size)
    <2>2. buf' = buf /\ out' = copyOut(buf, len) /\ ret' = n
      BY <1>7 DEF Peek
    <2>3. n \in 0 .. buf.size /\ out' = SubSeq(Contents(buf), 1, n)
      BY <1>1, <2>1, <2>2, CopyOutOldest
    <2>4. out' \in Seq(Byte) /\ n \in Nat
      BY <1>1, <1>2, <2>3
    <2>5. RingOK'
      BY <1>1, <1>3, <2>2, <2>4
    <2>6. n = Fifo!Least(len, Len(Contents(buf)))
      BY <1>2 DEF Least, Fifo!Least
    <2>7. Fifo!Peek(len)
      BY <2>2, <2>3, <2>6 DEF Fifo!Peek
    <2> QED
      BY <2>5, <2>7 DEF Fifo!Next
  <1>8. ASSUME NEW len \in Lengths, SendFrom(len)
        PROVE  RingOK' /\ Fifo!Next
    <2>1. len \in Nat
      BY LengthsAssumption
    <2>2. /\ len <= distanceRead(buf) /\ buf' = commitRead(buf, len)
          /\ out' = loadAtReadPtr(buf, len) /\ ret' = len
      BY <1>8 DEF SendFrom
    <2>3. /\ len <= buf.size
          /\ out' = SubSeq(Contents(buf), 1, len)
          /\ Ring(buf')
          /\ Contents(buf') = SubSeq(Contents(buf), len + 1, buf.size)
      BY <1>1, <2>1, <2>2, SendTakes
    <2>4. out' \in Seq(Byte)
      BY <1>1, <1>2, <2>1, <2>3
    <2>5. RingOK'
      BY <1>3, <2>1, <2>2, <2>3, <2>4
    <2>6. len = Fifo!Least(len, Len(Contents(buf)))
      BY <1>1, <1>2, <2>1, <2>3 DEF Fifo!Least
    <2>7. Fifo!Take(len)
      BY <1>2, <2>2, <2>3, <2>6 DEF Fifo!Take
    <2> QED
      BY <2>5, <2>7 DEF Fifo!Next
  <1> QED
    BY <1>4, <1>5, <1>6, <1>7, <1>8 DEF Next

\* A step that changes nothing keeps the invariant and the abstract queue.
LEMMA StutterSimulates ==
    ASSUME RingOK, UNCHANGED vars
    PROVE  RingOK' /\ UNCHANGED Fifo!vars
  BY DEF vars, Fifo!vars, RingOK, TypeOK, PositionsAgree, Contents

\* Every call finds and leaves the fields in agreement.
LEMMA RingAlways == Spec => []RingOK
  <1>1. Init => RingOK
    BY InitRing
  <1>2. RingOK /\ [Next]_vars => RingOK'
    BY StepSimulates, StutterSimulates
  <1> QED
    BY <1>1, <1>2, PTL DEF Spec

\* The fields keep their ranges: no call indexes outside the ring, for every capacity.
THEOREM RingTyped == Spec => []TypeOK
  BY RingAlways, PTL DEF RingOK

\* For every capacity, front stays size positions after back, whatever calls of
\* Read, Write and the two commits come in which order.
THEOREM RingConsistent == Spec => []PositionsAgree
  BY RingAlways, PTL DEF RingOK

\* The ring of SPBuffer.cpp implements a bounded FIFO of bytes, for every
\* capacity and all data: nothing is lost, repeated or reordered.
THEOREM RingImplementsFifo == Spec => ImplementsFifo
  <1>1. Init => RingOK /\ Fifo!Init
    BY InitRing DEF Init, Fifo!Init
  <1>2. RingOK /\ [Next]_vars => RingOK' /\ [Fifo!Next]_(Fifo!vars)
    BY StepSimulates, StutterSimulates
  <1> QED
    BY <1>1, <1>2, PTL DEF Spec, ImplementsFifo, Fifo!Spec

=============================================================================
