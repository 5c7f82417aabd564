---------------------------- MODULE SPBufferPool ----------------------------
(***************************************************************************)
(* The memory pool of SPBufferPool.hpp.  malloc() is asked for a block of  *)
(* several read and as many write buffers; a block begins with a reference *)
(* count.  Free buffers are kept in two lists linked through the buffers   *)
(* themselves, so a block that is given back to malloc while one of its    *)
(* buffers is listed or in use corrupts memory.  A returned buffer goes    *)
(* back to its list, or, when the list is long enough, it is dropped: its  *)
(* block then loses a reference, and is freed with the last one.           *)
(*                                                                         *)
(* The pool is a record, and the member functions are operators from a     *)
(* pool to a pool.  A buffer is <<block, type, index>>.  How large the     *)
(* buffers are plays no role here.                                         *)
(***************************************************************************)
EXTENDS Integers, Sequences, FiniteSets

CONSTANTS MAX_BLOCKS,      \* the most blocks malloc() can provide at a time
          PEER_ALLOC_NUM,  \* BUFFER_POOL_PEER_ALLOC_NUM
          MIN_BLOCK_NUM    \* BUFFER_POOL_MIN_BLOCK_NUM

\* What Config() asserts of the two parameters.
ASSUME PoolAssumption ==
    /\ MAX_BLOCKS \in Nat
    /\ PEER_ALLOC_NUM \in 1 .. 1024
    /\ MIN_BLOCK_NUM \in Nat /\ MIN_BLOCK_NUM >= PEER_ALLOC_NUM

VARIABLES pool,            \* the lists, their sizes and the blocks
          used             \* the buffers that were handed out

poolVars == <<pool, used>>

Block  == 1 .. MAX_BLOCKS
Type   == {"READ", "WRITE"}
Buffer == Block \X Type \X (1 .. PEER_ALLOC_NUM)

\* The static pool: rBuffers and wBuffers, rbSize and wbSize; ref and heap
\* stand for the memory of the blocks and for malloc's own state.
EmptyPool == [list |-> [t \in Type |-> << >>],
              size |-> [t \in Type |-> 0],
              ref  |-> [b \in Block |-> 0],
              heap |-> {}]

-----------------------------------------------------------------------------
(* Member functions.                                                       *)

\* Faulty variant of tryAlloc: the count misses the write buffers.
tryAllocCountsHalf(p, b, num) ==
    [list |-> [t \in Type |-> [i \in 1 .. num |-> <<b, t, i>>] \o p.list[t]],
     size |-> [t \in Type |-> p.size[t] + num],
     ref  |-> [p.ref EXCEPT ![b] = num],
     heap |-> p.heap \cup {b}]

\* A block of num pairs: its buffers become the heads of both lists.
tryAlloc(p, b, num) ==
    [list |-> [t \in Type |-> [i \in 1 .. num |-> <<b, t, i>>] \o p.list[t]],
     size |-> [t \in Type |-> p.size[t] + num],
     ref  |-> [p.ref EXCEPT ![b] = 2 * num],
     heap |-> p.heap \cup {b}]

\* The numbers of pairs Alloc() tries, halving after each failure.
Tried == {PEER_ALLOC_NUM \div d : d \in {1, 2, 4, 8, 16, 32, 64, 128, 256, 512, 1024}} \ {0}

\* What Alloc() may leave: one of its tries succeeded, or none did.
Alloc(p) == {p} \cup {tryAlloc(p, b, num) : b \in {c \in Block \ p.heap :
                          \A d \in Block \ p.heap : c <= d}, num \in Tried}

\* The pools from which GetReadBufferInner and GetWriteBufferInner may take
\* the head: Alloc() is called for an empty list only.
Filled(p, t) == IF p.list[t] # << >> THEN {p} ELSE Alloc(p)

\* Faulty variant of TakeHead: the size is not decremented.
TakeHeadKeepsSize(p, t) == [p EXCEPT !.list[t] = Tail(@)]

\* Take the head of a list.
TakeHead(p, t) == [p EXCEPT !.list[t] = Tail(@), !.size[t] = @ - 1]

\* Faulty variant of dropRef: the block is freed with its last but one buffer.
dropRefEarly(p, b) ==
    [p EXCEPT !.ref[b] = @ - 1,
              !.heap = IF p.ref[b] <= 2 THEN @ \ {b} ELSE @]

\* --refCount, and free() at zero.
dropRef(p, b) ==
    [p EXCEPT !.ref[b] = @ - 1,
              !.heap = IF p.ref[b] = 1 THEN @ \ {b} ELSE @]

\* Faulty variant of FreeBufferInner: read buffers are always kept.
FreeBufferInnerKeepsRead(p, buf) ==
    IF p.size[buf[2]] >= MIN_BLOCK_NUM /\ buf[2] = "WRITE"
    THEN dropRef(p, buf[1])
    ELSE [p EXCEPT !.list[buf[2]] = <<buf>> \o @, !.size[buf[2]] = @ + 1]

\* FreeReadBuffferInner and FreeWriteBufferInner.
FreeBufferInner(p, buf) ==
    IF p.size[buf[2]] >= MIN_BLOCK_NUM
    THEN dropRef(p, buf[1])
    ELSE [p EXCEPT !.list[buf[2]] = <<buf>> \o @, !.size[buf[2]] = @ + 1]

\* How many listed buffers belong to block b.
Listed(p, b) ==
    LET of(t) == {i \in DOMAIN p.list[t] : p.list[t][i][1] = b}
    IN  Cardinality(of("READ")) + Cardinality(of("WRITE"))

\* releaseAllBlocks walks both lists, dropping a reference for each buffer;
\* reset also empties them.
resetPool(p) ==
    [list |-> [t \in Type |-> << >>],
     size |-> [t \in Type |-> 0],
     ref  |-> [b \in Block |-> p.ref[b] - Listed(p, b)],
     heap |-> {b \in p.heap : p.ref[b] # Listed(p, b)}]

-----------------------------------------------------------------------------
(* The state machine: users that return what they got, and reset the pool  *)
(* when nothing is out.                                                    *)

PoolInit ==
    /\ pool = EmptyPool
    /\ used = {}

GetBuffer(t) ==
    \E p \in Filled(pool, t) :
        IF p.list[t] = << >>
        THEN UNCHANGED poolVars
        ELSE /\ pool' = TakeHead(p, t)
             /\ used' = used \cup {Head(p.list[t])}

FreeBuffer(buf) ==
    /\ buf \in used
    /\ pool' = FreeBufferInner(pool, buf)
    /\ used' = used \ {buf}

reset ==
    /\ used = {}
    /\ pool' = resetPool(pool)
    /\ UNCHANGED used

PoolNext ==
    \/ \E t \in Type : GetBuffer(t)
    \/ \E buf \in used : FreeBuffer(buf)
    \/ reset

PoolSpec == PoolInit /\ [][PoolNext]_poolVars

-----------------------------------------------------------------------------
(* Properties.                                                             *)

\* The buffers of a list.
Members(p, t) == {p.list[t][i] : i \in DOMAIN p.list[t]}

\* The buffers the pool still has to account for.
Reachable == used \cup Members(pool, "READ") \cup Members(pool, "WRITE")

PoolTypeOK ==
    /\ pool.list \in [Type -> Seq(Buffer)]
    /\ pool.size \in [Type -> Nat]
    /\ pool.ref \in [Block -> Nat]
    /\ pool.heap \subseteq Block
    /\ used \subseteq Buffer

\* A buffer that is in use or in a free list lies in a block that was not given
\* back to malloc (the free() of FreeReadBuffferInner, FreeWriteBufferInner and
\* releaseAllBlocks never takes memory somebody can still reach).
NoDanglingBuffer == \A buf \in Reachable : buf[1] \in pool.heap

\* A buffer is handed out to one user at a time: the lists hold no buffer twice
\* and none that is in use, and the sizes that FreeBuffer compares with the
\* minimum are the lengths of the lists.
HandedOutOnce ==
    \A t \in Type :
        /\ Members(pool, t) \cap used = {}
        /\ \A i, j \in DOMAIN pool.list[t] : pool.list[t][i] = pool.list[t][j] => i = j
        /\ pool.size[t] = Len(pool.list[t])

\* The reference count of a block is the number of its buffers that are in use or
\* listed, so free() comes with the last of them and not later: no block leaks.
RefCountExact ==
    \A b \in pool.heap : pool.ref[b] = Cardinality({buf \in Reachable : buf[1] = b})
=============================================================================
