------------------------- MODULE SPBufferPoolProofs -------------------------
(***************************************************************************)
(* The memory pool is sound for every number of blocks, every block size   *)
(* and every minimum: nobody can reach a block that was given back, no     *)
(* buffer is handed out twice and the reference counts are exact.  None of *)
(* these is inductive alone; Sound conjoins them, for any pool and set of  *)
(* buffers in use, with the finiteness the counting needs.                 *)
(***************************************************************************)
EXTENDS SPBufferPool, SequenceTheorems, FiniteSetTheorems, FunctionTheorems, TLAPS

-----------------------------------------------------------------------------
(* Lists without repetitions.                                              *)

Elems(s)    == {s[i] : i \in DOMAIN s}
Distinct(s) == \A i, j \in DOMAIN s : s[i] = s[j] => i = j

\* The rest of a list is the list without its head.
LEMMA TailElems ==
  ASSUME NEW S, NEW s \in Seq(S), s # << >>, Distinct(s)
  PROVE  /\ Tail(s) \in Seq(S) /\ Len(Tail(s)) = Len(s) - 1 /\ Len(s) \in Nat \ {0}
         /\ Head(s) \in Elems(s) /\ Distinct(Tail(s))
         /\ Elems(Tail(s)) = Elems(s) \ {Head(s)}
<1>1. /\ Tail(s) \in Seq(S) /\ Len(Tail(s)) = Len(s) - 1 /\ Len(s) \in Nat \ {0}
      /\ DOMAIN s = 1 .. Len(s) /\ DOMAIN Tail(s) = 1 .. (Len(s) - 1) /\ Head(s) = s[1]
      /\ \A i \in 1 .. (Len(s) - 1) : Tail(s)[i] = s[i + 1]
  OBVIOUS
<1> DEFINE r == Tail(s)
           n == Len(s)
<1>2. /\ n \in Nat \ {0} /\ DOMAIN s = 1 .. n /\ DOMAIN r = 1 .. (n - 1)
      /\ Head(s) = s[1] /\ \A i \in 1 .. (n - 1) : r[i] = s[i + 1]
  BY <1>1
<1> HIDE DEF r, n
<1>3. Head(s) \in Elems(s)
  BY <1>2 DEF Elems
<1>4. Distinct(r)
  BY <1>2, SMTT(40) DEF Distinct
<1>5. ASSUME NEW e \in Elems(r) PROVE e \in Elems(s) \ {Head(s)}
  BY <1>2, <1>5 DEF Elems, Distinct
<1>6. ASSUME NEW e \in Elems(s), e # Head(s) PROVE e \in Elems(r)
  <2>1. PICK i \in 1 .. n : e = s[i]
    BY <1>2 DEF Elems
  <2>2. i - 1 \in 1 .. (n - 1) /\ (i - 1) + 1 = i
    BY <1>2, <1>6, <2>1
  <2> QED
    BY <1>2, <2>1, <2>2 DEF Elems
<1> QED
  BY <1>1, <1>3, <1>4, <1>5, <1>6 DEF r

\* Two lists without a common element joined.
LEMMA JoinElems ==
  ASSUME NEW S, NEW s \in Seq(S), NEW t \in Seq(S)
  PROVE  /\ s \o t \in Seq(S) /\ Len(s \o t) = Len(s) + Len(t)
         /\ Elems(s \o t) = Elems(s) \cup Elems(t)
         /\ Distinct(s) /\ Distinct(t) /\ Elems(s) \cap Elems(t) = {} => Distinct(s \o t)
<1> DEFINE u == s \o t
           m == Len(s)
           n == Len(t)
<1>1. /\ u \in Seq(S) /\ Len(u) = m + n
      /\ \A i \in 1 .. (m + n) : u[i] = IF i <= m THEN s[i] ELSE t[i - m]
  BY ConcatProperties
<1>2. /\ m \in Nat /\ n \in Nat /\ DOMAIN s = 1 .. m /\ DOMAIN t = 1 .. n
      /\ DOMAIN u = 1 .. (m + n)
  BY <1>1, LenProperties
<1> HIDE DEF u, m, n
<1>3. ASSUME NEW e \in Elems(u) PROVE e \in Elems(s) \cup Elems(t)
  <2>1. PICK i \in 1 .. (m + n) : e = u[i]
    BY <1>2 DEF Elems
  <2>2. CASE i <= m
    <3>1. i \in 1 .. m /\ e = s[i]
      BY <1>1, <1>2, <2>1, <2>2
    <3> QED
      BY <1>2, <3>1 DEF Elems
  <2>3. CASE ~ (i <= m)
    <3>1. i - m \in 1 .. n /\ e = t[i - m]
      BY <1>1, <1>2, <2>1, <2>3
    <3> QED
      BY <1>2, <3>1 DEF Elems
  <2> QED
    BY <2>2, <2>3
<1>4. ASSUME NEW e \in Elems(s) PROVE e \in Elems(u)
  <2>1. PICK i \in 1 .. m : e = s[i]
    BY <1>2 DEF Elems
  <2>2. i \in 1 .. (m + n) /\ u[i] = s[i]
    BY <1>1, <1>2
  <2> QED
    BY <1>2, <2>1, <2>2 DEF Elems
<1>5. ASSUME NEW e \in Elems(t) PROVE e \in Elems(u)
  <2>1. PICK i \in 1 .. n : e = t[i]
    BY <1>2 DEF Elems
  <2>2. i + m \in 1 .. (m + n) /\ ~ (i + m <= m) /\ (i + m) - m = i
    BY <1>2
  <2>3. u[i + m] = t[i]
    BY <1>1, <2>2
  <2> QED
    BY <1>2, <2>1, <2>2, <2>3 DEF Elems
<1>6. ASSUME Distinct(s), Distinct(t), Elems(s) \cap Elems(t) = {} PROVE Distinct(u)
  <2> SUFFICES ASSUME NEW i \in 1 .. (m + n), NEW j \in 1 .. (m + n), u[i] = u[j] PROVE i = j
    BY <1>2 DEF Distinct
  <2>1. CASE i <= m /\ j <= m
    BY <1>1, <1>2, <1>6, <2>1 DEF Distinct
  <2>2. CASE ~ (i <= m) /\ ~ (j <= m)
    <3>1. i - m \in 1 .. n /\ j - m \in 1 .. n /\ t[i - m] = t[j - m]
      BY <1>1, <1>2, <2>2
    <3>2. i - m = j - m
      BY <1>2, <1>6, <3>1 DEF Distinct
    <3> QED
      BY <1>2, <3>2
  <2>3. ASSUME NEW a \in 1 .. m, NEW b \in 1 .. (m + n), ~ (b <= m), u[a] = u[b] PROVE FALSE
    <3>1. b - m \in 1 .. n /\ a \in 1 .. (m + n) /\ u[a] = s[a] /\ u[b] = t[b - m]
      BY <1>1, <1>2, <2>3
    <3>2. s[a] \in Elems(s) /\ t[b - m] \in Elems(t)
      BY <1>2, <3>1 DEF Elems
    <3> QED
      BY <1>6, <2>3, <3>1, <3>2
  <2> QED
    BY <1>2, <2>1, <2>2, <2>3
<1> QED
  BY <1>1, <1>3, <1>4, <1>5, <1>6 DEF u, m, n

\* A list without repetitions has as many elements of a kind as positions of it.
LEMMA CountByPosition ==
  ASSUME NEW S, NEW s \in Seq(S), Distinct(s), NEW K
  PROVE  /\ IsFiniteSet({e \in Elems(s) : e \in K})
         /\ Cardinality({e \in Elems(s) : e \in K}) = Cardinality({i \in DOMAIN s : s[i] \in K})
<1> DEFINE I == {i \in DOMAIN s : s[i] \in K}
           E == {e \in Elems(s) : e \in K}
           f == [i \in I |-> s[i]]
<1>1. IsFiniteSet(I)
  <2>1. DOMAIN s = 1 .. Len(s) /\ Len(s) \in Nat
    BY LenProperties
  <2>2. IsFiniteSet(1 .. Len(s))
    BY <2>1, FS_Interval
  <2>3. I \in SUBSET (1 .. Len(s))
    BY <2>1
  <2> QED
    BY <2>2, <2>3, FS_Subset
<1>2. f \in [I -> E]
  BY DEF Elems
<1>3. \A i, j \in I : f[i] = f[j] => i = j
  BY DEF Distinct
<1>4. \A e \in E : \E i \in I : f[i] = e
  BY DEF Elems
<1> HIDE DEF I, E, f
<1>5. f \in Bijection(I, E)
  BY <1>2, <1>3, <1>4, Fun_IsBij
<1>6. ExistsBijection(I, E)
  BY <1>5, Fun_ExistsBij
<1>7. IsFiniteSet(E) /\ Cardinality(E) = Cardinality(I)
  BY <1>1, <1>6, FS_Bijection
<1> QED
  BY <1>7 DEF I, E

-----------------------------------------------------------------------------
(* The inductive invariant, for any pool and any set of buffers in use.    *)

Pools == [list : [Type -> Seq(Buffer)], size : [Type -> Nat], ref : [Block -> Nat],
          heap : SUBSET Block]

\* The buffers of block b that are in use or listed.
Held(p, u, b) == {buf \in u \cup Elems(p.list["READ"]) \cup Elems(p.list["WRITE"]) : buf[1] = b}

\* A list holds distinct buffers of its type, in blocks of the heap, that are not in use.
ListSound(p, u, t) ==
    /\ Distinct(p.list[t]) /\ p.size[t] = Len(p.list[t])
    /\ \A buf \in Elems(p.list[t]) : buf[2] = t /\ buf \notin u /\ buf[1] \in p.heap

CountSound(p, u) ==
    \A b \in Block : /\ IsFiniteSet(Held(p, u, b))
                     /\ b \in p.heap => p.ref[b] = Cardinality(Held(p, u, b))

Sound(p, u) ==
    /\ p \in Pools /\ u \subseteq Buffer
    /\ \A buf \in u : buf[1] \in p.heap
    /\ \A t \in Type : ListSound(p, u, t)
    /\ CountSound(p, u)

\* The invariant says what the properties say.
LEMMA SoundMeans ==
  ASSUME Sound(pool, used)
  PROVE  NoDanglingBuffer /\ HandedOutOnce /\ RefCountExact /\ PoolTypeOK
<1>1. PoolTypeOK
  BY DEF Sound, Pools, PoolTypeOK
<1>2. \A t \in Type : Members(pool, t) = Elems(pool.list[t])
  BY DEF Members, Elems
<1>3. NoDanglingBuffer
  BY <1>2 DEF Sound, ListSound, NoDanglingBuffer, Reachable, Type
<1>4. HandedOutOnce
  BY <1>2 DEF Sound, ListSound, HandedOutOnce, Distinct
<1>5. RefCountExact
  <2> SUFFICES ASSUME NEW b \in pool.heap
               PROVE  pool.ref[b] = Cardinality({buf \in Reachable : buf[1] = b})
    BY DEF RefCountExact
  <2>1. {buf \in Reachable : buf[1] = b} = Held(pool, used, b)
    BY <1>2 DEF Reachable, Held, Type
  <2>2. b \in Block
    BY DEF Sound, Pools
  <2> QED
    BY <2>1, <2>2 DEF Sound, CountSound
<1> QED
  BY <1>1, <1>3, <1>4, <1>5

\* An empty pool is sound.
LEMMA EmptySound == Sound(EmptyPool, {})
<1>1. EmptyPool \in Pools
  BY DEF EmptyPool, Pools
<1>2. ASSUME NEW t \in Type PROVE EmptyPool.list[t] = << >> /\ EmptyPool.size[t] = 0
  BY DEF EmptyPool
<1>3. Elems(<< >>) = {} /\ Distinct(<< >>) /\ Len(<< >>) = 0
  BY DEF Elems, Distinct
<1>4. ASSUME NEW b \in Block PROVE Held(EmptyPool, {}, b) = {}
  BY <1>2, <1>3 DEF Held, Type
<1> QED
  BY <1>1, <1>2, <1>3, <1>4, FS_EmptySet DEF Sound, ListSound, CountSound, EmptyPool

\* The updates of the member functions.
SetList(p, t, l, z) == [p EXCEPT !.list[t] = l, !.size[t] = z]
SetRef(p, b, n, H)  == [p EXCEPT !.ref[b] = n, !.heap = H]

\* The record SetList makes.
LEMMA ListUpdate ==
  ASSUME NEW p \in Pools, NEW t, NEW l, NEW z
  PROVE  SetList(p, t, l, z) = [list |-> [p.list EXCEPT ![t] = l], size |-> [p.size EXCEPT ![t] = z],
                                ref |-> p.ref, heap |-> p.heap]
<1> DEFINE A == [Type -> Seq(Buffer)]
           B == [Type -> Nat]
           C == [Block -> Nat]
           D == SUBSET Block
           L == [p.list EXCEPT ![t] = l]
           Z == [p.size EXCEPT ![t] = z]
           q == [p EXCEPT !.list = L]
<1>1. p \in [list : A, size : B, ref : C, heap : D]
  BY DEF Pools
<1> HIDE DEF A, B, C, D, L
<1>2. q = [list |-> L, size |-> p.size, ref |-> p.ref, heap |-> p.heap]
  BY <1>1
<1>3. [p EXCEPT !.list[t] = l, !.size[t] = z] = [q EXCEPT !.size = [q.size EXCEPT ![t] = z]]
  BY DEF L
<1> HIDE DEF q
<1>4. [q EXCEPT !.size = [q.size EXCEPT ![t] = z]] = [q EXCEPT !.size = Z]
  BY <1>2
<1> HIDE DEF Z
<1>5. [q EXCEPT !.size = Z] = [list |-> L, size |-> Z, ref |-> p.ref, heap |-> p.heap]
  BY <1>2
<1> QED
  BY <1>3, <1>4, <1>5 DEF L, Z, SetList

\* The record SetRef makes.
LEMMA RefUpdate ==
  ASSUME NEW p \in Pools, NEW b, NEW n, NEW H
  PROVE  SetRef(p, b, n, H) = [list |-> p.list, size |-> p.size, ref |-> [p.ref EXCEPT ![b] = n],
                               heap |-> H]
<1> DEFINE A == [Type -> Seq(Buffer)]
           B == [Type -> Nat]
           C == [Block -> Nat]
           D == SUBSET Block
           R == [p.ref EXCEPT ![b] = n]
           r == [p EXCEPT !.ref = R]
<1>1. p \in [list : A, size : B, ref : C, heap : D]
  BY DEF Pools
<1> HIDE DEF A, B, C, D, R
<1>2. r = [list |-> p.list, size |-> p.size, ref |-> R, heap |-> p.heap]
  BY <1>1
<1>3. [p EXCEPT !.ref[b] = n, !.heap = H] = [r EXCEPT !.heap = H]
  BY DEF R
<1> HIDE DEF r
<1>4. [r EXCEPT !.heap = H] = [list |-> p.list, size |-> p.size, ref |-> R, heap |-> H]
  BY <1>2
<1> QED
  BY <1>3, <1>4 DEF R, SetRef

\* Taking the head of a list keeps the pool sound; what was free is now in use.
LEMMA TakeHeadSound ==
  ASSUME NEW p, NEW u, Sound(p, u), NEW t \in Type, p.list[t] # << >>
  PROVE  /\ Sound(TakeHead(p, t), u \cup {Head(p.list[t])})
         /\ Head(p.list[t]) \notin u /\ Head(p.list[t]) \in Buffer /\ Head(p.list[t])[2] = t
         /\ TakeHead(p, t).list = [p.list EXCEPT ![t] = Tail(p.list[t])]
<1> DEFINE q == TakeHead(p, t)
           h == Head(p.list[t])
           v == u \cup {h}
<1>1. /\ p.list \in [Type -> Seq(Buffer)] /\ p.size \in [Type -> Nat] /\ p.ref \in [Block -> Nat]
      /\ p.heap \subseteq Block /\ p = [list |-> p.list, size |-> p.size, ref |-> p.ref, heap |-> p.heap]
  BY DEF Sound, Pools
<1>2. /\ q = [list |-> [p.list EXCEPT ![t] = Tail(p.list[t])],
              size |-> [p.size EXCEPT ![t] = p.size[t] - 1], ref |-> p.ref, heap |-> p.heap]
  <2> DEFINE l == Tail(p.list[t])
             z == p.size[t] - 1
  <2>1. q = SetList(p, t, l, z)
    BY DEF TakeHead, SetList
  <2>2. p \in Pools
    BY DEF Sound
  <2> HIDE DEF l, z, q
  <2>3. q = [list |-> [p.list EXCEPT ![t] = l], size |-> [p.size EXCEPT ![t] = z],
             ref |-> p.ref, heap |-> p.heap]
    BY <2>1, <2>2, ListUpdate
  <2> QED
    BY <2>3 DEF l, z
<1>3. /\ q.list = [p.list EXCEPT ![t] = Tail(p.list[t])] /\ q.size = [p.size EXCEPT ![t] = p.size[t] - 1]
      /\ q.ref = p.ref /\ q.heap = p.heap
  BY <1>2
<1>4. /\ Tail(p.list[t]) \in Seq(Buffer) /\ Len(Tail(p.list[t])) = Len(p.list[t]) - 1
      /\ Len(p.list[t]) \in Nat \ {0} /\ h \in Elems(p.list[t]) /\ Distinct(Tail(p.list[t]))
      /\ Elems(Tail(p.list[t])) = Elems(p.list[t]) \ {h}
  BY <1>1, TailElems DEF Sound, ListSound
<1>5. h \notin u /\ h[2] = t /\ h[1] \in p.heap /\ h \in Buffer /\ p.size[t] = Len(p.list[t])
  <2>1. \A e \in Elems(p.list[t]) : e \in Buffer
    BY <1>1 DEF Elems
  <2> QED
    BY <1>4, <2>1 DEF Sound, ListSound
<1>6. q \in Pools
  <2>1. [p.list EXCEPT ![t] = Tail(p.list[t])] \in [Type -> Seq(Buffer)]
    BY <1>1, <1>4
  <2>2. [p.size EXCEPT ![t] = p.size[t] - 1] \in [Type -> Nat]
    BY <1>1, <1>4, <1>5
  <2> QED
    BY <1>1, <1>2, <2>1, <2>2 DEF Pools
<1> HIDE DEF q, h
<1>7. ASSUME NEW s \in Type PROVE ListSound(q, v, s)
  <2>1. CASE s = t
    BY <1>1, <1>3, <1>4, <1>5, <2>1, ZenonT(40) DEF Sound, ListSound
  <2>2. CASE s # t
    BY <1>1, <1>3, <1>5, <2>2 DEF Sound, ListSound
  <2> QED
    BY <2>1, <2>2
<1>8. ASSUME NEW b PROVE Held(q, v, b) = Held(p, u, b)
  BY <1>1, <1>3, <1>4 DEF Held, Type
<1>9. CountSound(q, v)
  BY <1>3, <1>8 DEF Sound, CountSound
<1> QED
  BY <1>3, <1>5, <1>6, <1>7, <1>9 DEF Sound, q, h

\* A buffer that comes back: it joins its list, or its block loses a reference and
\* is freed with the last one.
LEMMA FreeBufferSound ==
  ASSUME NEW p, NEW u, Sound(p, u), NEW buf \in u
  PROVE  /\ Sound(FreeBufferInner(p, buf), u \ {buf})
         /\ FreeBufferInner(p, buf).list =
               IF Len(p.list[buf[2]]) >= MIN_BLOCK_NUM THEN p.list
               ELSE [p.list EXCEPT ![buf[2]] = <<buf>> \o p.list[buf[2]]]
<1> DEFINE q == FreeBufferInner(p, buf)
           v == u \ {buf}
           t == buf[2]
           b == buf[1]
<1>1. /\ p.list \in [Type -> Seq(Buffer)] /\ p.size \in [Type -> Nat] /\ p.ref \in [Block -> Nat]
      /\ p.heap \subseteq Block /\ p \in Pools
  BY DEF Sound, Pools
<1>2. buf \in Buffer /\ t \in Type /\ b \in Block /\ b \in p.heap /\ p.size[t] = Len(p.list[t])
  <2>1. buf \in Buffer /\ b \in p.heap
    BY DEF Sound
  <2>2. t \in Type /\ b \in Block
    BY <2>1 DEF Buffer
  <2> QED
    BY <2>1, <2>2 DEF Sound, ListSound
<1>3. /\ buf \in Held(p, u, b) /\ IsFiniteSet(Held(p, u, b)) /\ p.ref[b] = Cardinality(Held(p, u, b))
      /\ p.ref[b] \in Nat \ {0}
  <2>1. buf \in Held(p, u, b)
    BY DEF Held
  <2>2. IsFiniteSet(Held(p, u, b)) /\ p.ref[b] = Cardinality(Held(p, u, b))
    BY <1>2 DEF Sound, CountSound
  <2> QED
    BY <1>1, <1>2, <2>1, <2>2, FS_EmptySet
<1>4. CASE p.size[t] >= MIN_BLOCK_NUM
  <2> DEFINE n == p.ref[b] - 1
             H == IF p.ref[b] = 1 THEN p.heap \ {b} ELSE p.heap
  <2>1. q = SetRef(p, b, n, H)
    BY <1>4 DEF FreeBufferInner, dropRef, SetRef
  <2> HIDE DEF n, H, q, b
  <2>2. q = [list |-> p.list, size |-> p.size, ref |-> [p.ref EXCEPT ![b] = n], heap |-> H]
    BY <1>1, <2>1, RefUpdate
  <2>3. q.list = p.list /\ q.size = p.size /\ q.ref = [p.ref EXCEPT ![b] = n] /\ q.heap = H
    BY <2>2
  <2>4. n \in Nat /\ H \subseteq p.heap /\ (n = 0 => H = p.heap \ {b}) /\ (n # 0 => H = p.heap)
    BY <1>3 DEF n, H
  <2>5. q \in Pools
    <3>1. [p.ref EXCEPT ![b] = n] \in [Block -> Nat] /\ H \in SUBSET Block
      BY <1>1, <1>2, <2>4
    <3> QED
      BY <1>1, <2>2, <3>1 DEF Pools
  <2>6. ASSUME NEW e, e \in v \/ \E s \in Type : e \in Elems(p.list[s])
        PROVE  e \in Held(p, u, e[1]) \ {buf} /\ e[1] \in p.heap
    BY <1>2, <2>6 DEF Sound, ListSound, Held, Type
  <2>7. \A c : Held(q, v, c) = Held(p, u, c) \ {buf}
    <3>1. \A s \in Type : buf \notin Elems(p.list[s])
      BY DEF Sound, ListSound
    <3> QED
      BY <2>3, <3>1 DEF Held, Type
  <2>8. /\ IsFiniteSet(Held(q, v, b)) /\ Cardinality(Held(q, v, b)) = n
    <3> DEFINE S == Held(p, u, b)
    <3>1. Held(q, v, b) = S \ {buf} /\ buf \in S /\ IsFiniteSet(S) /\ n = Cardinality(S) - 1
      BY <1>3, <2>7 DEF n
    <3> HIDE DEF S
    <3> QED
      BY <3>1, FS_RemoveElement
  <2>9. ASSUME NEW e, e \in v \/ \E s \in Type : e \in Elems(p.list[s])
        PROVE  e[1] \in q.heap
    <3>1. e \in Held(p, u, e[1]) \ {buf} /\ e[1] \in p.heap
      BY <2>6, <2>9
    <3>2. CASE e[1] # b
      BY <2>3, <2>4, <3>1, <3>2
    <3>3. CASE e[1] = b
      <4>1. Held(q, v, b) # {}
        BY <2>7, <3>1, <3>3
      <4>2. n # 0
        BY <2>8, <4>1, FS_EmptySet
      <4> QED
        BY <2>3, <2>4, <3>1, <4>2
    <3> QED
      BY <3>2, <3>3
  <2>10. \A s \in Type : ListSound(q, v, s)
    BY <2>3, <2>9 DEF Sound, ListSound
  <2>11. CountSound(q, v)
    <3> SUFFICES ASSUME NEW c \in Block
                 PROVE  /\ IsFiniteSet(Held(q, v, c))
                        /\ c \in q.heap => q.ref[c] = Cardinality(Held(q, v, c))
      BY DEF CountSound
    <3>1. CASE c = b
      BY <1>1, <1>2, <2>3, <2>8, <3>1
    <3>2. CASE c # b
      <4>1. Held(q, v, c) = Held(p, u, c)
        BY <2>7, <3>2 DEF Held, b
      <4> QED
        BY <1>1, <2>3, <2>4, <3>2, <4>1 DEF Sound, CountSound
    <3> QED
      BY <3>1, <3>2
  <2>12. Sound(q, v)
    BY <2>5, <2>9, <2>10, <2>11 DEF Sound
  <2> QED
    BY <1>2, <1>4, <2>3, <2>12 DEF q, b
<1>5. CASE ~ (p.size[t] >= MIN_BLOCK_NUM)
  <2> DEFINE l == <<buf>> \o p.list[t]
             z == p.size[t] + 1
  <2>1. q = SetList(p, t, l, z)
    BY <1>5 DEF FreeBufferInner, SetList
  <2>2. /\ l \in Seq(Buffer) /\ Len(l) = z /\ Elems(l) = Elems(p.list[t]) \cup {buf}
        /\ Distinct(l) /\ z \in Nat
    <3>1. <<buf>> \in Seq(Buffer) /\ Len(<<buf>>) = 1 /\ Elems(<<buf>>) = {buf} /\ Distinct(<<buf>>)
      BY <1>2 DEF Elems, Distinct
    <3>2. p.list[t] \in Seq(Buffer) /\ Distinct(p.list[t]) /\ buf \notin Elems(p.list[t])
      BY <1>1, <1>2 DEF Sound, ListSound
    <3>3. Len(p.list[t]) \in Nat
      BY <3>2
    <3> DEFINE a == <<buf>>
               s == p.list[t]
    <3>4. a \in Seq(Buffer) /\ s \in Seq(Buffer) /\ Elems(a) \cap Elems(s) = {}
      BY <3>1, <3>2
    <3> HIDE DEF a, s
    <3>5. /\ a \o s \in Seq(Buffer) /\ Len(a \o s) = Len(a) + Len(s)
          /\ Elems(a \o s) = Elems(a) \cup Elems(s)
          /\ Distinct(a) /\ Distinct(s) => Distinct(a \o s)
      BY <3>4, JoinElems
    <3> QED
      BY <1>2, <3>1, <3>2, <3>3, <3>5 DEF a, s
  <2> HIDE DEF l, z, q, t
  <2>3. q = [list |-> [p.list EXCEPT ![t] = l], size |-> [p.size EXCEPT ![t] = z],
             ref |-> p.ref, heap |-> p.heap]
    BY <1>1, <2>1, ListUpdate
  <2>4. /\ q.list = [p.list EXCEPT ![t] = l] /\ q.size = [p.size EXCEPT ![t] = z]
        /\ q.ref = p.ref /\ q.heap = p.heap
    BY <2>3
  <2>5. q \in Pools
    <3>1. [p.list EXCEPT ![t] = l] \in [Type -> Seq(Buffer)] /\ [p.size EXCEPT ![t] = z] \in [Type -> Nat]
      BY <1>1, <2>2
    <3> QED
      BY <1>1, <2>3, <3>1 DEF Pools
  <2>6. ASSUME NEW s \in Type PROVE ListSound(q, v, s)
    <3>1. CASE s = t
      BY <1>1, <1>2, <2>2, <2>4, <3>1 DEF Sound, ListSound, t
    <3>2. CASE s # t
      BY <1>1, <1>2, <2>4, <3>2 DEF Sound, ListSound
    <3> QED
      BY <3>1, <3>2
  <2>7. \A c : Held(q, v, c) = Held(p, u, c)
    BY <1>1, <1>2, <2>2, <2>4 DEF Held, Type
  <2>8. CountSound(q, v)
    BY <2>4, <2>7 DEF Sound, CountSound
  <2>9. Sound(q, v)
    BY <2>4, <2>5, <2>6, <2>8 DEF Sound
  <2> QED
    BY <1>2, <1>5, <2>4, <2>9 DEF q, l, t
<1> QED
  BY <1>4, <1>5

\* The n buffers of a type in a new block, as they are linked into the list.
Fresh(b, t, n) == [i \in 1 .. n |-> <<b, t, i>>]

\* They are distinct, and there are n of them.
LEMMA FreshElems ==
  ASSUME NEW b \in Block, NEW t \in Type, NEW n \in 1 .. PEER_ALLOC_NUM
  PROVE  /\ Fresh(b, t, n) \in Seq(Buffer) /\ Len(Fresh(b, t, n)) = n
         /\ Distinct(Fresh(b, t, n))
         /\ \A e \in Elems(Fresh(b, t, n)) : e[1] = b /\ e[2] = t
         /\ IsFiniteSet(Elems(Fresh(b, t, n))) /\ Cardinality(Elems(Fresh(b, t, n))) = n
<1> DEFINE s == Fresh(b, t, n)
<1>1. n \in Nat
  BY PoolAssumption
<1>2. \A i \in 1 .. n : <<b, t, i>> \in Buffer
  BY PoolAssumption DEF Buffer
<1>3. s \in Seq(Buffer) /\ Len(s) = n /\ DOMAIN s = 1 .. n
  BY <1>1, <1>2 DEF Fresh
<1>4. \A i \in 1 .. n : s[i] = <<b, t, i>>
  BY DEF Fresh
<1> HIDE DEF s
<1>5. Distinct(s)
  BY <1>3, <1>4 DEF Distinct
<1>6. \A e \in Elems(s) : e[1] = b /\ e[2] = t
  BY <1>3, <1>4 DEF Elems
<1>7. IsFiniteSet(Elems(s)) /\ Cardinality(Elems(s)) = n
  <2>1. s \in [1 .. n -> Elems(s)]
    BY <1>3 DEF Elems
  <2>2. /\ \A i, j \in 1 .. n : s[i] = s[j] => i = j
        /\ \A e \in Elems(s) : \E i \in 1 .. n : s[i] = e
    BY <1>3, <1>5 DEF Elems, Distinct
  <2>3. ExistsBijection(1 .. n, Elems(s))
    BY <2>1, <2>2, Fun_IsBij, Fun_ExistsBij
  <2>4. IsFiniteSet(1 .. n) /\ Cardinality(1 .. n) = n
    BY <1>1, FS_Interval, PoolAssumption
  <2> QED
    BY <2>3, <2>4, FS_Bijection
<1> QED
  BY <1>3, <1>5, <1>6, <1>7 DEF s

\* A new block brings as many read as write buffers, all listed and counted.
LEMMA TryAllocSound ==
  ASSUME NEW p, NEW u, Sound(p, u), NEW b \in Block \ p.heap, NEW n \in 1 .. PEER_ALLOC_NUM
  PROVE  /\ Sound(tryAlloc(p, b, n), u)
         /\ \A t \in Type : /\ tryAlloc(p, b, n).list[t] = Fresh(b, t, n) \o p.list[t]
                             /\ Len(tryAlloc(p, b, n).list[t]) = n + Len(p.list[t])
<1> DEFINE q == tryAlloc(p, b, n)
<1>1. /\ p.list \in [Type -> Seq(Buffer)] /\ p.size \in [Type -> Nat] /\ p.ref \in [Block -> Nat]
      /\ p.heap \subseteq Block
  BY DEF Sound, Pools
<1>2. /\ q.list = [t \in Type |-> Fresh(b, t, n) \o p.list[t]]
      /\ q.size = [t \in Type |-> p.size[t] + n]
      /\ q.ref = [p.ref EXCEPT ![b] = 2 * n] /\ q.heap = p.heap \cup {b}
      /\ q = [list |-> q.list, size |-> q.size, ref |-> q.ref, heap |-> q.heap]
  BY DEF tryAlloc, Fresh
<1> HIDE DEF q
<1>3. n \in Nat /\ n + 0 = n
  BY PoolAssumption
<1>4. ASSUME NEW e, e \in u \/ \E t \in Type : e \in Elems(p.list[t])
      PROVE  e[1] \in p.heap /\ e[1] # b
  BY <1>4 DEF Sound, ListSound
<1>5. ASSUME NEW t \in Type
      PROVE  /\ q.list[t] = Fresh(b, t, n) \o p.list[t]
             /\ q.list[t] \in Seq(Buffer) /\ Len(q.list[t]) = n + Len(p.list[t])
             /\ Elems(q.list[t]) = Elems(Fresh(b, t, n)) \cup Elems(p.list[t])
             /\ Distinct(q.list[t]) /\ Len(p.list[t]) \in Nat
  <2> DEFINE f == Fresh(b, t, n)
             s == p.list[t]
  <2>1. /\ f \in Seq(Buffer) /\ Len(f) = n /\ Distinct(f)
        /\ \A e \in Elems(f) : e[1] = b
    BY FreshElems
  <2>2. s \in Seq(Buffer) /\ Distinct(s)
    BY <1>1 DEF Sound, ListSound
  <2>3. Elems(f) \cap Elems(s) = {} /\ Len(s) \in Nat /\ q.list[t] = f \o s
    BY <1>2, <1>4, <2>1, <2>2
  <2> HIDE DEF f, s
  <2>4. f \in Seq(Buffer) /\ s \in Seq(Buffer) /\ Elems(f) \cap Elems(s) = {}
    BY <2>1, <2>2, <2>3
  <2>5. /\ f \o s \in Seq(Buffer) /\ Len(f \o s) = Len(f) + Len(s)
        /\ Elems(f \o s) = Elems(f) \cup Elems(s)
        /\ Distinct(f) /\ Distinct(s) => Distinct(f \o s)
    BY <2>4, JoinElems
  <2> QED
    BY <2>1, <2>2, <2>3, <2>5 DEF f, s
<1>6. q \in Pools
  <2>1. q.list \in [Type -> Seq(Buffer)]
    BY <1>2, <1>5
  <2>2. q.size \in [Type -> Nat] /\ q.ref \in [Block -> Nat] /\ q.heap \in SUBSET Block
    BY <1>1, <1>2, <1>3
  <2> QED
    BY <1>2, <2>1, <2>2 DEF Pools
<1>7. ASSUME NEW t \in Type PROVE ListSound(q, u, t)
  <2>1. ASSUME NEW e \in Elems(q.list[t]) PROVE e[2] = t /\ e \notin u /\ e[1] \in q.heap
    <3>1. CASE e \in Elems(Fresh(b, t, n))
      <4>1. e[1] = b /\ e[2] = t
        BY <3>1, FreshElems
      <4> QED
        BY <1>2, <1>4, <4>1
    <3>2. CASE e \in Elems(p.list[t])
      BY <1>2, <3>2 DEF Sound, ListSound
    <3> QED
      BY <1>5, <3>1, <3>2
  <2>2. q.size[t] = p.size[t] + n /\ p.size[t] = Len(p.list[t])
    BY <1>2 DEF Sound, ListSound
  <2> QED
    BY <1>3, <1>5, <2>1, <2>2 DEF ListSound
<1>8. CountSound(q, u)
  <2> SUFFICES ASSUME NEW c \in Block
               PROVE  /\ IsFiniteSet(Held(q, u, c))
                      /\ c \in q.heap => q.ref[c] = Cardinality(Held(q, u, c))
    BY DEF CountSound
  <2> DEFINE F(t) == Elems(Fresh(b, t, n))
  <2>1. "READ" \in Type /\ "WRITE" \in Type /\ "READ" # "WRITE"
    BY DEF Type
  <2>2. /\ Elems(q.list["READ"]) = F("READ") \cup Elems(p.list["READ"])
        /\ Elems(q.list["WRITE"]) = F("WRITE") \cup Elems(p.list["WRITE"])
    BY <1>5, <2>1
  <2>3. /\ \A e \in F("READ") : e[1] = b /\ e[2] = "READ"
        /\ \A e \in F("WRITE") : e[1] = b /\ e[2] = "WRITE"
        /\ IsFiniteSet(F("READ")) /\ Cardinality(F("READ")) = n
        /\ IsFiniteSet(F("WRITE")) /\ Cardinality(F("WRITE")) = n
    BY <2>1, FreshElems
  <2> HIDE DEF F
  <2>4. CASE c = b
    <3>1. Held(q, u, b) = F("READ") \cup F("WRITE")
      BY <1>4, <2>1, <2>2, <2>3 DEF Held
    <3>2. F("READ") \cap F("WRITE") = {}
      BY <2>1, <2>3
    <3>3. /\ IsFiniteSet(F("READ") \cup F("WRITE"))
          /\ Cardinality(F("READ") \cup F("WRITE")) = n + n - 0
      BY <2>3, <3>2, FS_Union, FS_EmptySet, SMTT(40)
    <3> QED
      BY <1>1, <1>2, <1>3, <2>4, <3>1, <3>3
  <2>5. CASE c # b
    <3>1. Held(q, u, c) = Held(p, u, c)
      BY <2>2, <2>3, <2>5 DEF Held
    <3> QED
      BY <1>1, <1>2, <2>5, <3>1 DEF Sound, CountSound
  <2> QED
    BY <2>4, <2>5
<1>9. Sound(q, u)
  BY <1>2, <1>6, <1>7, <1>8 DEF Sound
<1> QED
  BY <1>5, <1>9 DEF q

\* Alloc() keeps a pool sound and lengthens both lists alike.
LEMMA AllocSound ==
  ASSUME NEW p, NEW u, Sound(p, u), NEW q \in Alloc(p)
  PROVE  /\ Sound(q, u)
         /\ q = p \/ \E n \in 1 .. PEER_ALLOC_NUM :
               \A t \in Type : Len(q.list[t]) = n + Len(p.list[t]) /\ q.list[t] # << >>
<1>1. CASE q = p
  BY <1>1
<1>2. ASSUME NEW b \in Block \ p.heap, NEW n \in Tried, q = tryAlloc(p, b, n)
      PROVE  /\ Sound(q, u)
             /\ \E m \in 1 .. PEER_ALLOC_NUM :
                   \A t \in Type : Len(q.list[t]) = m + Len(p.list[t]) /\ q.list[t] # << >>
  <2>1. n \in 1 .. PEER_ALLOC_NUM
    BY PoolAssumption DEF Tried
  <2>2. Sound(q, u) /\ \A t \in Type : Len(q.list[t]) = n + Len(p.list[t])
    BY <1>2, <2>1, TryAllocSound
  <2>3. ASSUME NEW t \in Type PROVE q.list[t] # << >>
    <3>1. Len(p.list[t]) \in Nat
      BY DEF Sound, Pools
    <3>2. Len(q.list[t]) # 0
      BY <2>1, <2>2, <3>1
    <3> QED
      BY <3>2
  <2> QED
    BY <2>1, <2>2, <2>3
<1> QED
  BY <1>1, <1>2 DEF Alloc

\* reset() of a pool none of whose buffers is in use gives every block back.
LEMMA ResetSound ==
  ASSUME NEW p, Sound(p, {})
  PROVE  Sound(resetPool(p), {}) /\ resetPool(p).heap = {}
<1> DEFINE q == resetPool(p)
<1>1. /\ p.list \in [Type -> Seq(Buffer)] /\ p.ref \in [Block -> Nat] /\ p.heap \subseteq Block
      /\ "READ" \in Type /\ "WRITE" \in Type /\ "READ" # "WRITE"
  BY DEF Sound, Pools, Type
<1>2. ASSUME NEW b \in p.heap PROVE p.ref[b] = Listed(p, b)
  <2> DEFINE K == {e \in Buffer : e[1] = b}
             I(t) == {i \in DOMAIN p.list[t] : p.list[t][i][1] = b}
             E(t) == {e \in Elems(p.list[t]) : e \in K}
  <2>1. ASSUME NEW t \in Type
        PROVE  IsFiniteSet(E(t)) /\ Cardinality(E(t)) = Cardinality(I(t))
    <3>1. p.list[t] \in Seq(Buffer) /\ Distinct(p.list[t])
      BY <1>1 DEF Sound, ListSound
    <3>2. \A i \in DOMAIN p.list[t] : p.list[t][i] \in Buffer
      BY <3>1
    <3>3. I(t) = {i \in DOMAIN p.list[t] : p.list[t][i] \in K}
      BY <3>2
    <3> HIDE DEF K
    <3>4. /\ IsFiniteSet({e \in Elems(p.list[t]) : e \in K})
          /\ Cardinality({e \in Elems(p.list[t]) : e \in K})
                = Cardinality({i \in DOMAIN p.list[t] : p.list[t][i] \in K})
      BY <3>1, CountByPosition
    <3> QED
      BY <3>3, <3>4
  <2>2. Listed(p, b) = Cardinality(I("READ")) + Cardinality(I("WRITE"))
    BY DEF Listed
  <2>3. ASSUME NEW t \in Type, NEW e \in Elems(p.list[t]) PROVE e \in Buffer /\ e[2] = t
    <3>1. e \in Buffer
      BY <1>1 DEF Elems
    <3> QED
      BY <3>1 DEF Sound, ListSound
  <2>4. Held(p, {}, b) = E("READ") \cup E("WRITE")
    BY <1>1, <2>3 DEF Held
  <2>5. E("READ") \cap E("WRITE") = {}
    BY <1>1, <2>3
  <2> HIDE DEF I, E
  <2>6. IsFiniteSet(E("READ")) /\ IsFiniteSet(E("WRITE"))
        /\ Cardinality(E("READ")) = Cardinality(I("READ"))
        /\ Cardinality(E("WRITE")) = Cardinality(I("WRITE"))
    BY <1>1, <2>1
  <2> DEFINE U == E("READ") \cup E("WRITE")
  <2>7. Cardinality(U) = Cardinality(E("READ")) + Cardinality(E("WRITE")) - 0 /\ Held(p, {}, b) = U
    BY <2>4, <2>5, <2>6, FS_Union, FS_EmptySet
  <2> HIDE DEF U
  <2>8. Cardinality(E("READ")) \in Nat /\ Cardinality(E("WRITE")) \in Nat
    BY <2>6, FS_CardinalityType
  <2>9. p.ref[b] = Cardinality(Held(p, {}, b))
    BY <1>1 DEF Sound, CountSound
  <2>10. Cardinality(Held(p, {}, b)) = Cardinality(E("READ")) + Cardinality(E("WRITE"))
    BY <2>7, <2>8
  <2> QED
    BY <2>2, <2>6, <2>9, <2>10
<1>3. ASSUME NEW b \in Block \ p.heap PROVE Listed(p, b) = 0
  <2> DEFINE I(t) == {i \in DOMAIN p.list[t] : p.list[t][i][1] = b}
  <2>1. ASSUME NEW t \in Type PROVE I(t) = {}
    BY DEF Sound, ListSound, Elems
  <2>2. Listed(p, b) = Cardinality(I("READ")) + Cardinality(I("WRITE"))
    BY DEF Listed
  <2>3. I("READ") = {} /\ I("WRITE") = {}
    BY <1>1, <2>1
  <2> HIDE DEF I
  <2> QED
    BY <2>2, <2>3, FS_EmptySet
<1>4. ASSUME NEW b \in Block PROVE p.ref[b] - Listed(p, b) \in Nat
  <2>1. p.ref[b] \in Nat
    BY <1>1
  <2>2. Listed(p, b) = p.ref[b] \/ Listed(p, b) = 0
    BY <1>2, <1>3
  <2> QED
    BY <2>1, <2>2
<1>5. /\ q.list = [t \in Type |-> << >>] /\ q.size = [t \in Type |-> 0]
      /\ q.ref = [b \in Block |-> p.ref[b] - Listed(p, b)]
      /\ q.heap = {b \in p.heap : p.ref[b] # Listed(p, b)}
      /\ q = [list |-> q.list, size |-> q.size, ref |-> q.ref, heap |-> q.heap]
  BY DEF resetPool
<1> HIDE DEF q
<1>6. q.heap = {}
  BY <1>2, <1>5
<1>7. q \in Pools
  <2>1. q.ref \in [Block -> Nat]
    BY <1>4, <1>5
  <2>2. q.list \in [Type -> Seq(Buffer)] /\ q.size \in [Type -> Nat] /\ q.heap \in SUBSET Block
    BY <1>5, <1>6
  <2> QED
    BY <1>5, <2>1, <2>2 DEF Pools
<1>8. Elems(<< >>) = {} /\ Distinct(<< >>) /\ Len(<< >>) = 0
  BY DEF Elems, Distinct
<1>9. ASSUME NEW t \in Type PROVE ListSound(q, {}, t)
  BY <1>5, <1>8 DEF ListSound
<1>10. CountSound(q, {})
  <2>1. ASSUME NEW b \in Block PROVE Held(q, {}, b) = {}
    BY <1>1, <1>5, <1>8 DEF Held
  <2> QED
    BY <1>6, <2>1, FS_EmptySet DEF CountSound
<1> QED
  BY <1>6, <1>7, <1>9, <1>10 DEF Sound, q

-----------------------------------------------------------------------------
(* The specification.                                                      *)

\* GetBuffer, on a list that is filled first when it is empty.
LEMMA GetBufferSound ==
  ASSUME Sound(pool, used), NEW t \in Type, GetBuffer(t)
  PROVE  Sound(pool', used')
<1>1. PICK p \in Filled(pool, t) : IF p.list[t] = << >>
                                   THEN UNCHANGED poolVars
                                   ELSE /\ pool' = TakeHead(p, t)
                                        /\ used' = used \cup {Head(p.list[t])}
  BY DEF GetBuffer
<1>2. Sound(p, used)
  BY AllocSound DEF Filled
<1>3. CASE p.list[t] = << >>
  BY <1>1, <1>3 DEF poolVars
<1>4. CASE p.list[t] # << >>
  <2>1. Sound(TakeHead(p, t), used \cup {Head(p.list[t])})
    BY <1>2, <1>4, TakeHeadSound
  <2>2. pool' = TakeHead(p, t) /\ used' = used \cup {Head(p.list[t])}
    BY <1>1, <1>4
  <2> QED
    BY <2>1, <2>2, Zenon
<1> QED
  BY <1>3, <1>4

\* What a caller of GetBuffer sees: nothing, from an empty list, or a buffer nobody
\* has; a block that Alloc() made has lengthened both lists alike.
LEMMA GetBufferGives ==
  ASSUME Sound(pool, used), NEW t \in Type, GetBuffer(t)
  PROVE  \/ pool' = pool /\ used' = used /\ pool.list[t] = << >>
         \/ \E h \in Buffer \ used, n \in Nat :
               /\ h[2] = t /\ used' = used \cup {h}
               /\ Len(pool'.list[t]) = n + Len(pool.list[t]) - 1
               /\ \A s \in Type \ {t} : Len(pool'.list[s]) = n + Len(pool.list[s])
<1>1. PICK p \in Filled(pool, t) : IF p.list[t] = << >>
                                   THEN UNCHANGED poolVars
                                   ELSE /\ pool' = TakeHead(p, t)
                                        /\ used' = used \cup {Head(p.list[t])}
  BY DEF GetBuffer
<1>2. /\ Sound(p, used)
      /\ p = pool \/ \E n \in 1 .. PEER_ALLOC_NUM :
            \A s \in Type : Len(p.list[s]) = n + Len(pool.list[s]) /\ p.list[s] # << >>
  BY AllocSound DEF Filled
<1>3. PICK n \in Nat : \A s \in Type : Len(p.list[s]) = n + Len(pool.list[s])
  <2>1. CASE p = pool
    <3>1. \A s \in Type : Len(pool.list[s]) \in Nat
      BY DEF Sound, Pools
    <3>2. \A s \in Type : Len(p.list[s]) = 0 + Len(pool.list[s])
      BY <2>1, <3>1
    <3> QED
      BY <3>2
  <2>2. CASE p # pool
    <3>1. PICK m \in 1 .. PEER_ALLOC_NUM :
             \A s \in Type : Len(p.list[s]) = m + Len(pool.list[s]) /\ p.list[s] # << >>
      BY <1>2, <2>2
    <3>2. m \in Nat
      OBVIOUS
    <3> QED
      BY <3>1, <3>2
  <2> QED
    BY <2>1, <2>2
<1>4. CASE p.list[t] = << >>
  <2>1. p = pool
    BY <1>2, <1>4
  <2> QED
    BY <1>1, <1>4, <2>1 DEF poolVars
<1>5. CASE p.list[t] # << >>
  <2> DEFINE h == Head(p.list[t])
  <2>1. /\ h \notin used /\ h \in Buffer /\ h[2] = t
        /\ TakeHead(p, t).list = [p.list EXCEPT ![t] = Tail(p.list[t])]
    BY <1>2, <1>5, TakeHeadSound
  <2>2. used' = used \cup {h} /\ pool'.list = [p.list EXCEPT ![t] = Tail(p.list[t])]
    BY <1>1, <1>5, <2>1
  <2>3. p.list \in [Type -> Seq(Buffer)]
    BY <1>2 DEF Sound, Pools
  <2>4. Len(pool'.list[t]) = Len(p.list[t]) - 1
    BY <1>5, <2>2, <2>3
  <2>5. \A s \in Type \ {t} : pool'.list[s] = p.list[s]
    BY <2>2, <2>3
  <2> HIDE DEF h
  <2>6. /\ Len(pool'.list[t]) = n + Len(pool.list[t]) - 1
        /\ \A s \in Type \ {t} : Len(pool'.list[s]) = n + Len(pool.list[s])
    <3>1. Len(p.list[t]) = n + Len(pool.list[t])
      BY <1>3
    <3>2. \A s \in Type \ {t} : Len(pool'.list[s]) = n + Len(pool.list[s])
      BY <1>3, <2>5, Zenon
    <3>3. Len(pool.list[t]) \in Nat
      BY DEF Sound, Pools
    <3>4. Len(pool'.list[t]) = n + Len(pool.list[t]) - 1
      BY <2>4, <3>1, <3>3
    <3> QED
      BY <3>2, <3>4
  <2>7. h \in Buffer \ used /\ h[2] = t /\ used' = used \cup {h}
    BY <2>1, <2>2
  <2> QED
    BY <2>6, <2>7, Zenon
<1> QED
  BY <1>4, <1>5

\* What a caller of FreeBuffer sees of the lists.
LEMMA FreeBufferLeaves ==
  ASSUME Sound(pool, used), NEW e \in used, FreeBuffer(e)
  PROVE  /\ used' = used \ {e} /\ e[2] \in Type
         /\ Len(pool'.list[e[2]]) = IF Len(pool.list[e[2]]) >= MIN_BLOCK_NUM
                                   THEN Len(pool.list[e[2]]) ELSE Len(pool.list[e[2]]) + 1
         /\ \A s \in Type \ {e[2]} : pool'.list[s] = pool.list[s]
<1> DEFINE t == e[2]
           l == <<e>> \o pool.list[t]
<1>1. /\ used' = used \ {e} /\ pool'.list = IF Len(pool.list[t]) >= MIN_BLOCK_NUM THEN pool.list
                                          ELSE [pool.list EXCEPT ![t] = l]
  BY FreeBufferSound DEF FreeBuffer
<1>2. pool.list \in [Type -> Seq(Buffer)] /\ e \in Buffer
  BY DEF Sound, Pools
<1>3. t \in Type
  BY <1>2 DEF Buffer
<1>4. Len(l) = Len(pool.list[t]) + 1 /\ Len(pool.list[t]) \in Nat
  BY <1>2, <1>3
<1> HIDE DEF t, l
<1>5. CASE Len(pool.list[t]) >= MIN_BLOCK_NUM
  BY <1>1, <1>2, <1>3, <1>5 DEF t
<1>6. CASE ~ (Len(pool.list[t]) >= MIN_BLOCK_NUM)
  BY <1>1, <1>2, <1>3, <1>4, <1>6 DEF t
<1> QED
  BY <1>5, <1>6

\* Every step of a user of the pool keeps it sound.
LEMMA PoolStep == Sound(pool, used) /\ [PoolNext]_poolVars => Sound(pool', used')
<1> SUFFICES ASSUME Sound(pool, used), [PoolNext]_poolVars PROVE Sound(pool', used')
  OBVIOUS
<1>1. ASSUME NEW t \in Type, GetBuffer(t) PROVE Sound(pool', used')
  BY <1>1, GetBufferSound
<1>2. ASSUME NEW buf \in used, FreeBuffer(buf) PROVE Sound(pool', used')
  BY <1>2, FreeBufferSound DEF FreeBuffer
<1>3. CASE reset
  BY <1>3, ResetSound DEF reset
<1>4. CASE UNCHANGED poolVars
  BY <1>4 DEF poolVars
<1> QED
  BY <1>1, <1>2, <1>3, <1>4 DEF PoolNext

PoolSound == Sound(pool, used)

\* The invariant of the next state, in terms of the new pool.
LEMMA NextPoolSound == Sound(pool', used') => PoolSound'
  BY DEF PoolSound, Sound, Pools, ListSound, CountSound, Held, Elems, Distinct

\* The pool is sound in every state.
LEMMA PoolAlways == PoolSpec => []PoolSound
<1>1. PoolInit => PoolSound
  BY EmptySound DEF PoolInit, PoolSound
<1>2. PoolSound /\ [PoolNext]_poolVars => PoolSound'
  BY PoolStep, NextPoolSound DEF PoolSound
<1> QED
  BY <1>1, <1>2, PTL DEF PoolSpec

\* free() never takes memory that somebody can still reach, for any number and
\* size of blocks and whatever order buffers come back in.
THEOREM NoBufferDangles == PoolSpec => []NoDanglingBuffer
<1>1. PoolSound => NoDanglingBuffer
  BY SoundMeans DEF PoolSound
<1> QED
  BY <1>1, PoolAlways, PTL

\* A buffer is handed out to one user at a time, and the sizes are the lengths of
\* the lists.
THEOREM BuffersHandedOutOnce == PoolSpec => []HandedOutOnce
<1>1. PoolSound => HandedOutOnce
  BY SoundMeans DEF PoolSound
<1> QED
  BY <1>1, PoolAlways, PTL

\* The reference count of a block is the number of its buffers in use or listed.
THEOREM RefCountsExact == PoolSpec => []RefCountExact
<1>1. PoolSound => RefCountExact
  BY SoundMeans DEF PoolSound
<1> QED
  BY <1>1, PoolAlways, PTL
=============================================================================
