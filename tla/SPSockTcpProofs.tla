-------------------------- MODULE SPSockTcpProofs --------------------------
(***************************************************************************)
(* Proofs about the TCP reactor, for any number of descriptors, I/O        *)
(* threads and workers.                                                    *)
(***************************************************************************)
EXTENDS SPSockTcp, SequenceTheorems, FiniteSetTheorems, FunctionTheorems,
        WellFoundedInduction, TLAPS

-----------------------------------------------------------------------------
(* Lists without repetition.                                               *)

Distinct(s) == \A i, j \in DOMAIN s : s[i] = s[j] => i = j

\* The elements of a list are those at its positions.
LEMMA Elements ==
  ASSUME NEW s \in Seq(Fd)
  PROVE  /\ DOMAIN s = 1 .. Len(s) /\ Len(s) \in Nat
         /\ \A x : x \in ToSet(s) <=> \E i \in 1 .. Len(s) : s[i] = x
         /\ ToSet(s) \subseteq Fd
         /\ s = << >> <=> Len(s) = 0
         /\ s = << >> <=> ToSet(s) = {}
<1>1. DOMAIN s = 1 .. Len(s) /\ Len(s) \in Nat
  OBVIOUS
<1>2. \A x : x \in ToSet(s) <=> \E i \in 1 .. Len(s) : s[i] = x
  BY <1>1 DEF ToSet
<1>3. s = << >> <=> Len(s) = 0
  OBVIOUS
<1>4. ToSet(s) \subseteq Fd
  BY <1>2
<1>5. s = << >> <=> ToSet(s) = {}
  <2>1. ASSUME s # << >> PROVE ToSet(s) # {}
    BY <1>1, <1>2, <1>3, <2>1
  <2>2. ASSUME s = << >> PROVE ToSet(s) = {}
    BY <1>1, <1>2, <1>3, <2>2
  <2> QED
    BY <2>1, <2>2
<1> QED
  BY <1>1, <1>2, <1>3, <1>4, <1>5

\* The empty list has no elements.
LEMMA EmptyList == Distinct(<< >>) /\ ToSet(<< >>) = {} /\ << >> \in Seq(Fd) /\ Len(<< >>) = 0
<1>1. << >> \in Seq(Fd) /\ Len(<< >>) = 0
  OBVIOUS
<1>2. ToSet(<< >>) = {}
  BY <1>1, Elements
<1>3. Distinct(<< >>)
  BY <1>1, Elements DEF Distinct
<1> QED
  BY <1>1, <1>2, <1>3

\* An element is added at the end.
LEMMA AppendList ==
  ASSUME NEW s \in Seq(Fd), NEW x \in Fd
  PROVE  /\ Append(s, x) \in Seq(Fd) /\ Len(Append(s, x)) = Len(s) + 1
         /\ ToSet(Append(s, x)) = ToSet(s) \cup {x}
         /\ Distinct(s) /\ x \notin ToSet(s) => Distinct(Append(s, x))
<1> DEFINE r == Append(s, x)
<1>1. r \in Seq(Fd) /\ Len(r) = Len(s) + 1
  OBVIOUS
<1>2. \A i \in 1 .. Len(s) + 1 : r[i] = IF i = Len(s) + 1 THEN x ELSE s[i]
  OBVIOUS
<1>3. DOMAIN r = 1 .. Len(s) + 1 /\ DOMAIN s = 1 .. Len(s) /\ Len(s) \in Nat
  BY <1>1, Elements
<1> HIDE DEF r
<1>4. \A y : y \in ToSet(r) <=> y \in ToSet(s) \cup {x}
  <2> SUFFICES ASSUME NEW y PROVE y \in ToSet(r) <=> y \in ToSet(s) \cup {x}
    OBVIOUS
  <2>1. y \in ToSet(r) <=> \E i \in 1 .. Len(s) + 1 : r[i] = y
    BY <1>1, Elements
  <2>2. y \in ToSet(s) <=> \E i \in 1 .. Len(s) : s[i] = y
    BY Elements
  <2> QED
    BY <1>2, <1>3, <2>1, <2>2
<1>5. ToSet(r) = ToSet(s) \cup {x}
  BY <1>4
<1>6. ASSUME Distinct(s), x \notin ToSet(s) PROVE Distinct(r)
  <2>1. \A i \in 1 .. Len(s) : s[i] # x
    BY <1>6, Elements
  <2> QED
    BY <1>2, <1>3, <1>6, <2>1 DEF Distinct
<1> QED
  BY <1>1, <1>5, <1>6 DEF r

\* A list is cut in two.
FirstOf(s, k) == SubSeq(s, 1, k)
RestOf(s, k)  == SubSeq(s, k + 1, Len(s))

\* A list cut in two: the parts share nothing when the list repeats nothing.
LEMMA CutList ==
  ASSUME NEW s \in Seq(Fd), NEW k \in 0 .. Len(s)
  PROVE  LET p == FirstOf(s, k)
             r == RestOf(s, k)
         IN  /\ p \in Seq(Fd) /\ Len(p) = k /\ r \in Seq(Fd) /\ Len(r) = Len(s) - k
             /\ ToSet(s) = ToSet(p) \cup ToSet(r)
             /\ Distinct(s) => Distinct(p) /\ Distinct(r) /\ ToSet(p) \cap ToSet(r) = {}
<1> DEFINE p == SubSeq(s, 1, k)
           r == SubSeq(s, k + 1, Len(s))
<1>0. Len(s) \in Nat /\ k \in Nat /\ k <= Len(s) /\ DOMAIN s = 1 .. Len(s)
  BY Elements
<1>1. p \in Seq(Fd) /\ Len(p) = k /\ \A i \in 1 .. k : p[i] = s[i]
  BY <1>0
<1>2. r \in Seq(Fd) /\ Len(r) = Len(s) - k /\ \A i \in 1 .. Len(s) - k : r[i] = s[k + i]
  <2>1. \A i \in k + 1 .. Len(s) : s[i] \in Fd
    BY <1>0
  <2>2. k + 1 \in Int /\ Len(s) \in Int
    BY <1>0
  <2>3. /\ SubSeq(s, k + 1, Len(s)) \in Seq(Fd)
        /\ Len(SubSeq(s, k + 1, Len(s))) = IF k + 1 <= Len(s) THEN Len(s) - (k + 1) + 1 ELSE 0
        /\ \A i \in 1 .. Len(s) - (k + 1) + 1 : SubSeq(s, k + 1, Len(s))[i] = s[(k + 1) + i - 1]
    BY <2>1, <2>2, SubSeqProperties
  <2>4. Len(s) - (k + 1) + 1 = Len(s) - k /\ \A i \in 1 .. Len(s) - k : (k + 1) + i - 1 = k + i
    BY <1>0
  <2>5. Len(r) = Len(s) - k
    <3>1. Len(r) = IF k + 1 <= Len(s) THEN Len(s) - (k + 1) + 1 ELSE 0
      BY <2>3
    <3>2. ASSUME NEW n \in Nat, NEW m \in Nat, m <= n
          PROVE  (IF m + 1 <= n THEN n - (m + 1) + 1 ELSE 0) = n - m
      <4>1. CASE m = n
        BY <4>1
      <4>2. CASE m # n
        BY <3>2, <4>2
      <4> QED
        BY <4>1, <4>2
    <3> HIDE DEF r
    <3> QED
      BY <1>0, <3>1, <3>2
  <2>6. ASSUME NEW i \in 1 .. Len(s) - k PROVE r[i] = s[k + i]
    <3>1. i \in 1 .. Len(s) - (k + 1) + 1
      BY <2>4
    <3>2. r[i] = s[(k + 1) + i - 1]
      BY <2>3, <3>1
    <3> QED
      BY <2>4, <3>2
  <2> QED
    BY <2>3, <2>5, <2>6
<1> HIDE DEF p, r
<1>3. DOMAIN p = 1 .. k /\ DOMAIN r = 1 .. Len(s) - k
  BY <1>1, <1>2, Elements
<1>4. \A y : y \in ToSet(s) <=> y \in ToSet(p) \cup ToSet(r)
  <2> SUFFICES ASSUME NEW y PROVE y \in ToSet(s) <=> y \in ToSet(p) \cup ToSet(r)
    OBVIOUS
  <2>1. y \in ToSet(p) <=> \E i \in 1 .. k : s[i] = y
    BY <1>1, Elements
  <2>2. y \in ToSet(r) <=> \E i \in 1 .. Len(s) - k : s[k + i] = y
    BY <1>2, Elements
  <2>3. y \in ToSet(s) <=> \E i \in 1 .. Len(s) : s[i] = y
    BY Elements
  <2>4. ASSUME NEW i \in 1 .. Len(s), i > k PROVE i - k \in 1 .. Len(s) - k /\ k + (i - k) = i
    BY <1>0, <2>4
  <2>5. ASSUME NEW i \in 1 .. Len(s) - k PROVE k + i \in 1 .. Len(s)
    BY <1>0
  <2>6. ASSUME NEW i \in 1 .. Len(s) PROVE i \in 1 .. k \/ i > k
    BY <1>0
  <2>7. \A i \in 1 .. k : i \in 1 .. Len(s)
    BY <1>0
  <2> QED
    BY <2>1, <2>2, <2>3, <2>4, <2>5, <2>6, <2>7
<1>5. ASSUME Distinct(s) PROVE Distinct(p) /\ Distinct(r) /\ ToSet(p) \cap ToSet(r) = {}
  <2>1. Distinct(p)
    BY <1>0, <1>1, <1>3, <1>5 DEF Distinct
  <2>2. Distinct(r)
    <3> SUFFICES ASSUME NEW i \in 1 .. Len(s) - k, NEW j \in 1 .. Len(s) - k, r[i] = r[j]
                 PROVE  i = j
      BY <1>3 DEF Distinct
    <3>1. k + i \in DOMAIN s /\ k + j \in DOMAIN s
      BY <1>0
    <3>2. s[k + i] = s[k + j]
      BY <1>2
    <3>3. k + i = k + j
      BY <1>5, <3>1, <3>2 DEF Distinct
    <3> QED
      BY <1>0, <3>3
  <2>3. ASSUME NEW y \in ToSet(p), y \in ToSet(r) PROVE FALSE
    <3>1. PICK i \in 1 .. k : s[i] = y
      BY <1>1, Elements
    <3>2. PICK j \in 1 .. Len(s) - k : s[k + j] = y
      BY <1>2, <2>3, Elements
    <3>3. i \in DOMAIN s /\ k + j \in DOMAIN s /\ i # k + j
      BY <1>0
    <3> QED
      BY <1>5, <3>1, <3>2, <3>3 DEF Distinct
  <2> QED
    BY <2>1, <2>2, <2>3
<1>6. ToSet(s) = ToSet(p) \cup ToSet(r)
  BY <1>4
<1> QED
  BY <1>1, <1>2, <1>5, <1>6 DEF p, r, FirstOf, RestOf

\* The first element is removed.
LEMMA TailList ==
  ASSUME NEW s \in Seq(Fd), s # << >>
  PROVE  /\ Head(s) \in Fd /\ Tail(s) \in Seq(Fd) /\ Len(Tail(s)) = Len(s) - 1
         /\ ToSet(s) = ToSet(Tail(s)) \cup {Head(s)}
         /\ Distinct(s) => Distinct(Tail(s)) /\ Head(s) \notin ToSet(Tail(s))
<1>1. Len(s) \in Nat /\ Len(s) > 0 /\ 1 \in 0 .. Len(s)
  BY Elements
<1>2. Tail(s) = SubSeq(s, 1 + 1, Len(s)) /\ Head(s) = s[1] /\ Head(s) \in Fd
  <2>1. Tail(s) = SubSeq(s, 2, Len(s))
    BY TailIsSubSeq
  <2>2. Head(s) = s[1] /\ s[1] \in Fd
    BY <1>1
  <2> QED
    BY <2>1, <2>2
<1> DEFINE p == SubSeq(s, 1, 1)
<1>3. p \in Seq(Fd) /\ Len(p) = 1 /\ p[1] = s[1]
  BY <1>1
<1>4. ToSet(p) = {Head(s)}
  <2> HIDE DEF p
  <2>1. \A y : y \in ToSet(p) <=> \E i \in 1 .. 1 : p[i] = y
    BY <1>3, Elements
  <2> QED
    BY <1>2, <1>3, <2>1
<1>5. /\ Tail(s) \in Seq(Fd) /\ Len(Tail(s)) = Len(s) - 1
      /\ ToSet(s) = ToSet(p) \cup ToSet(Tail(s))
      /\ Distinct(s) => Distinct(Tail(s)) /\ ToSet(p) \cap ToSet(Tail(s)) = {}
  <2>1. ASSUME NEW k \in 0 .. Len(s), k = 1
        PROVE  LET r == SubSeq(s, k + 1, Len(s))
               IN  /\ r \in Seq(Fd) /\ Len(r) = Len(s) - k
                   /\ ToSet(s) = ToSet(p) \cup ToSet(r)
                   /\ Distinct(s) => Distinct(r) /\ ToSet(p) \cap ToSet(r) = {}
    BY <2>1, CutList DEF FirstOf, RestOf
  <2> HIDE DEF p
  <2> QED
    BY <1>1, <1>2, <2>1
<1> HIDE DEF p
<1> QED
  BY <1>2, <1>4, <1>5

\* Two lists are joined.
LEMMA JoinList ==
  ASSUME NEW s \in Seq(Fd), NEW r \in Seq(Fd)
  PROVE  /\ s \o r \in Seq(Fd) /\ Len(s \o r) = Len(s) + Len(r)
         /\ ToSet(s \o r) = ToSet(s) \cup ToSet(r)
         /\ Distinct(s) /\ Distinct(r) /\ ToSet(s) \cap ToSet(r) = {} => Distinct(s \o r)
<1> DEFINE c == s \o r
<1>0. Len(s) \in Nat /\ Len(r) \in Nat /\ DOMAIN s = 1 .. Len(s) /\ DOMAIN r = 1 .. Len(r)
  BY Elements
<1>1. c \in Seq(Fd) /\ Len(c) = Len(s) + Len(r)
  BY ConcatProperties
<1>2. \A i \in 1 .. Len(s) + Len(r) : c[i] = IF i <= Len(s) THEN s[i] ELSE r[i - Len(s)]
  BY ConcatProperties
<1> HIDE DEF c
<1>3. DOMAIN c = 1 .. Len(s) + Len(r)
  BY <1>1, Elements
<1>4. \A i \in 1 .. Len(s) : i \in 1 .. Len(s) + Len(r) /\ c[i] = s[i]
  BY <1>0, <1>2
<1>5. \A i \in 1 .. Len(r) : Len(s) + i \in 1 .. Len(s) + Len(r) /\ c[Len(s) + i] = r[i]
  BY <1>0, <1>2
<1>6. \A i \in 1 .. Len(s) + Len(r) : i \notin 1 .. Len(s) =>
         i - Len(s) \in 1 .. Len(r) /\ c[i] = r[i - Len(s)]
  BY <1>0, <1>2
<1>7. \A y : y \in ToSet(c) <=> y \in ToSet(s) \cup ToSet(r)
  <2> SUFFICES ASSUME NEW y PROVE y \in ToSet(c) <=> y \in ToSet(s) \cup ToSet(r)
    OBVIOUS
  <2>1. y \in ToSet(c) <=> \E i \in 1 .. Len(s) + Len(r) : c[i] = y
    BY <1>1, Elements
  <2>2. y \in ToSet(s) <=> \E i \in 1 .. Len(s) : s[i] = y
    BY Elements
  <2>3. y \in ToSet(r) <=> \E i \in 1 .. Len(r) : r[i] = y
    BY Elements
  <2>4. ASSUME y \in ToSet(c) PROVE y \in ToSet(s) \cup ToSet(r)
    <3>1. PICK i \in 1 .. Len(s) + Len(r) : c[i] = y
      BY <2>1, <2>4
    <3> QED
      BY <1>4, <1>6, <2>2, <2>3, <3>1
  <2> QED
    BY <1>4, <1>5, <2>1, <2>2, <2>3, <2>4
<1>8. ASSUME Distinct(s), Distinct(r), ToSet(s) \cap ToSet(r) = {} PROVE Distinct(c)
  <2>1. \A i \in 1 .. Len(s), j \in 1 .. Len(r) : s[i] # r[j]
    <3> SUFFICES ASSUME NEW i \in 1 .. Len(s), NEW j \in 1 .. Len(r), s[i] = r[j] PROVE FALSE
      OBVIOUS
    <3>1. s[i] \in ToSet(s)
      BY Elements
    <3>2. r[j] \in ToSet(r)
      BY Elements
    <3> QED
      BY <1>8, <3>1, <3>2
  <2> SUFFICES ASSUME NEW i \in 1 .. Len(s) + Len(r), NEW j \in 1 .. Len(s) + Len(r), c[i] = c[j]
               PROVE  i = j
    BY <1>3 DEF Distinct
  <2>2. CASE i \in 1 .. Len(s) /\ j \in 1 .. Len(s)
    BY <1>0, <1>4, <1>8, <2>2 DEF Distinct
  <2>3. CASE i \in 1 .. Len(s) /\ j \notin 1 .. Len(s)
    BY <1>4, <1>6, <2>1, <2>3
  <2>4. CASE i \notin 1 .. Len(s) /\ j \in 1 .. Len(s)
    BY <1>4, <1>6, <2>1, <2>4
  <2>5. CASE i \notin 1 .. Len(s) /\ j \notin 1 .. Len(s)
    <3>1. i - Len(s) = j - Len(s)
      BY <1>0, <1>6, <1>8, <2>5 DEF Distinct
    <3> QED
      BY <1>0, <3>1
  <2> QED
    BY <2>2, <2>3, <2>4, <2>5
<1>9. ToSet(c) = ToSet(s) \cup ToSet(r)
  BY <1>7
<1> QED
  BY <1>1, <1>8, <1>9 DEF c

\* The closed connections join the list each once.
LEMMA SetList ==
  ASSUME NEW S \in SUBSET Fd
  PROVE  SetToSeq(S) \in Seq(Fd) /\ ToSet(SetToSeq(S)) = S /\ Distinct(SetToSeq(S))
<1>1. IsFiniteSet(S) /\ IsFiniteSet(Fd)
  BY ConfigAssumption, FS_Subset
<1> DEFINE n == Cardinality(S)
           q == SetToSeq(S)
<1>2. n \in Nat /\ ExistsBijection(1 .. n, S)
  BY <1>1, FS_CardinalityType
<1> HIDE DEF n
<1>3. \E f \in [1 .. n -> S] : IsInjective(f)
  BY <1>2 DEF ExistsBijection, Bijection, Injection
<1>4. q \in [1 .. n -> S] /\ IsInjective(q)
  BY <1>3 DEF SetToSeq, n
<1> HIDE DEF q
<1>5. q \in Seq(S) /\ q \in Seq(Fd) /\ Len(q) = n
  BY <1>2, <1>4
<1>6. DOMAIN q = 1 .. n /\ Distinct(q)
  BY <1>4 DEF IsInjective, Distinct
<1>7. q \in Injection(1 .. n, S)
  BY <1>4 DEF Injection
<1>8. Cardinality(1 .. n) = n
  BY <1>2, FS_Interval
<1>9. q \in Surjection(1 .. n, S)
  BY <1>1, <1>7, <1>8, FS_Injection DEF n
<1>10. \A x \in S : \E i \in 1 .. n : q[i] = x
  BY <1>9 DEF Surjection
<1>11. ToSet(q) = S
  BY <1>4, <1>5, <1>6, <1>10 DEF ToSet
<1> QED
  BY <1>5, <1>6, <1>11 DEF q

\* TaskPool counts as this module does.
LEMMA SameCardinality == \A S : Pool!Cardinality(S) = Cardinality(S)
  BY DEF Cardinality, Pool!Cardinality

\* How often a connection occurs in a list without repetition.
LEMMA CountDistinct ==
  ASSUME NEW s \in Seq(Fd), Distinct(s), NEW fd
  PROVE  Pool!Count(s, fd) = IF fd \in ToSet(s) THEN 1 ELSE 0
<1> DEFINE D == {i \in DOMAIN s : s[i] = fd}
<1>0. Pool!Count(s, fd) = Cardinality(D)
  BY SameCardinality DEF Pool!Count
<1>1. ASSUME fd \in ToSet(s) PROVE Cardinality(D) = 1
  <2>1. PICK i \in DOMAIN s : s[i] = fd
    BY <1>1 DEF ToSet
  <2>2. D = {i}
    BY <2>1 DEF Distinct
  <2> QED
    BY <2>2, FS_Singleton
<1>2. ASSUME fd \notin ToSet(s) PROVE Cardinality(D) = 0
  <2>1. D = {}
    BY <1>2 DEF ToSet
  <2> QED
    BY <2>1, FS_EmptySet
<1> QED
  BY <1>0, <1>1, <1>2

\* A list in which each connection occurs at most once.
LEMMA OnceDistinct ==
  ASSUME NEW s \in Seq(Fd), \A fd \in Fd : Pool!Count(s, fd) <= 1
  PROVE  Distinct(s)
<1> SUFFICES ASSUME NEW i \in DOMAIN s, NEW j \in DOMAIN s, s[i] = s[j], i # j PROVE FALSE
  BY DEF Distinct
<1> DEFINE D == {n \in DOMAIN s : s[n] = s[i]}
<1>0. DOMAIN s = 1 .. Len(s) /\ Len(s) \in Nat /\ s[i] \in Fd
  BY Elements
<1>1. Cardinality(D) <= 1
  BY <1>0, SameCardinality DEF Pool!Count
<1>2. IsFiniteSet(DOMAIN s)
  BY <1>0, FS_Interval
<1>3. IsFiniteSet(D)
  BY <1>2, FS_Subset
<1>4. i \in D /\ j \in D
  OBVIOUS
<1>5. Cardinality(D) \in Nat /\ Cardinality(D) # 0
  BY <1>3, <1>4, FS_CardinalityType, FS_EmptySet
<1>6. Cardinality(D) = 1
  BY <1>1, <1>5
<1>7. \E x : D = {x}
  BY <1>3, <1>6, FS_Singleton
<1> QED
  BY <1>4, <1>7

-----------------------------------------------------------------------------
(* Who owns a connection.                                                  *)

Kinds == {"HUP", "RD", "WR"}
ExitMsg == <<-1, "EXIT">>
Msgs == (Fd \X Kinds) \cup {ExitMsg}
Utils == [flag : BOOLEAN, back : 0 .. (BATCH_SUBMIT - 1), tasks : Seq(Fd)]

\* The owners of a connection, and what each of them owns.
Nobody       == <<"nobody">>
Epoll        == <<"epoll">>
EventsOf(t)  == <<"events", t>>
BufferOf(t)  == <<"buffer", t>>
Queues       == <<"queues">>
HandOf(w)    == <<"hand", w>>
CloseList    == <<"list">>
Closer       == <<"closer">>
Owner == {Nobody, Epoll, Queues, CloseList, Closer}
            \cup {EventsOf(t) : t \in IOThread} \cup {BufferOf(t) : t \in IOThread}
            \cup {HandOf(w) : w \in Worker}

EventsIn(b) == {fd \in Fd : \E k \in Kinds : <<fd, k>> \in b}
QueuedFds   == {fd \in Fd : waiting[fd] # 0}

Fit(own, o, S) == \A fd \in Fd : own[fd] = o <=> fd \in S

\* own names the owner of each connection that has one.
Fits(own) ==
    /\ own \in [Fd -> Owner]
    /\ Fit(own, Epoll, armed)
    /\ \A t \in IOThread : Fit(own, EventsOf(t), EventsIn(batch[t]))
    /\ \A t \in IOThread : Fit(own, BufferOf(t), ToSet(util[t].tasks))
    /\ Fit(own, Queues, QueuedFds)
    /\ \A w \in Worker : Fit(own, HandOf(w), ToSet(Running(w)))
    /\ Fit(own, CloseList, ToSet(cList))
    /\ Fit(own, Closer, ToSet(Doomed))

\* Only connections of the map are owned, and those that may still see an event
\* are registered.
Known(own) ==
    /\ \A fd \in Fd : own[fd] # Nobody => fd \in connections
    /\ \A fd \in Fd : own[fd] \notin {Nobody, CloseList, Closer} => fd \in reg

\* An I/O thread: its types, each event and each task once, and where it is
\* against what it holds.  With the flag down nothing is left that append() could
\* re-arm and submit.
OneEvent(b) == \A fd \in Fd, k, l \in Kinds : <<fd, k>> \in b /\ <<fd, l>> \in b => k = l
Shape(pc, b, u) ==
    /\ OneEvent(b) /\ Distinct(u.tasks)
    /\ pc = "wait" => b = {} /\ u.tasks = << >> /\ u.flag
    /\ pc = "events" => Len(u.tasks) < BATCH_SUBMIT
    /\ pc \in {"commit", "reset"} => u.tasks # << >>
    /\ pc = "reset" => b = {}
    /\ Len(u.tasks) <= BATCH_SUBMIT
    /\ ~u.flag => u.tasks = << >> /\ b \subseteq {ExitMsg}
    /\ MAX_EVENT = 1 => /\ \A e, f \in b : e = f
                        /\ u.tasks # << >> => b = {} /\ Len(u.tasks) = 1

IoPcs == {"wait", "events", "commit", "reset", "exited", "dead"}
IoPart ==
    /\ ioPc \in [IOThread -> IoPcs]
    /\ batch \in [IOThread -> SUBSET Msgs]
    /\ util \in [IOThread -> Utils]
    /\ \A t \in IOThread : Shape(ioPc[t], batch[t], util[t])

EpollPart == reg \subseteq Fd /\ armed \subseteq reg

\* A connection waits once; a worker has each connection once and re-arms the one
\* it is about.
WorkPart ==
    /\ waiting \in [Fd -> 0 .. 1]
    /\ hand \in [Worker -> Seq(Fd)]
    /\ workPc \in [Worker -> {"run", "zero", "store"}]
    /\ \A w \in Worker : workPc[w] # "run" => hand[w] # << >>
    /\ \A w \in Worker : Distinct(Running(w))

ListPart == cList \in Seq(Fd) /\ Distinct(cList)

MainPart ==
    /\ connections \subseteq Fd
    /\ closing \in Seq(Fd) /\ Distinct(Doomed)
    /\ mainPc \in {"close", "uncount"} <=> closing # << >>
    /\ mainPc = "emplace" => newFd \in Fd
    /\ failures \in Nat
    /\ phase = "down" => mainPc \in {"ioexit", "done", "crashed"}

Parts == EpollPart /\ IoPart /\ WorkPart /\ ListPart /\ MainPart

Owned(own) == Fits(own) /\ Known(own) /\ Parts

\* The owners are different.
LEMMA Owners ==
  /\ \A o \in {Nobody, Epoll, Queues, CloseList, Closer} : o \in Owner
  /\ Nobody # Epoll /\ Nobody # Queues /\ Nobody # CloseList /\ Nobody # Closer
  /\ Epoll # Queues /\ Epoll # CloseList /\ Epoll # Closer
  /\ Queues # CloseList /\ Queues # Closer /\ CloseList # Closer
  /\ \A t : /\ EventsOf(t) \notin {Nobody, Epoll, Queues, CloseList, Closer}
            /\ BufferOf(t) \notin {Nobody, Epoll, Queues, CloseList, Closer}
            /\ HandOf(t) \notin {Nobody, Epoll, Queues, CloseList, Closer}
  /\ \A t, u : EventsOf(t) # BufferOf(u) /\ EventsOf(t) # HandOf(u) /\ BufferOf(t) # HandOf(u)
  /\ \A t, u : /\ EventsOf(t) = EventsOf(u) => t = u
               /\ BufferOf(t) = BufferOf(u) => t = u
               /\ HandOf(t) = HandOf(u) => t = u
  /\ \A t \in IOThread : EventsOf(t) \in Owner /\ BufferOf(t) \in Owner
  /\ \A w \in Worker : HandOf(w) \in Owner
  BY DEF Nobody, Epoll, Queues, CloseList, Closer, EventsOf, BufferOf, HandOf, Owner

\* Connections S move from one owner to another.
Move(own, S, o) == [fd \in Fd |-> IF fd \in S THEN o ELSE own[fd]]
Shift(C, o, S, from, to) == IF o = from THEN C \ S ELSE IF o = to THEN C \cup S ELSE C

\* One place still fits its owner after connections moved from an owner to another.
LEMMA ShiftFits ==
  ASSUME NEW own, NEW S \in SUBSET Fd, NEW from, NEW to, from # to,
         \A fd \in S : own[fd] = from,
         NEW o, NEW C, NEW D, D = Shift(C, o, S, from, to), Fit(own, o, C)
  PROVE  Fit(Move(own, S, to), o, D)
<1> SUFFICES ASSUME NEW fd \in Fd
             PROVE  Move(own, S, to)[fd] = o <=> fd \in D
  BY DEF Fit
<1>1. Move(own, S, to)[fd] = IF fd \in S THEN to ELSE own[fd]
  BY DEF Move
<1>2. own[fd] = o <=> fd \in C
  BY DEF Fit
<1> QED
  BY <1>1, <1>2 DEF Shift

\* All places fit after such a move.
LEMMA Moving ==
  ASSUME NEW own, Fits(own), NEW S \in SUBSET Fd, NEW from \in Owner, NEW to \in Owner, from # to,
         \A fd \in S : own[fd] = from,
         armed' = Shift(armed, Epoll, S, from, to),
         \A t \in IOThread : EventsIn(batch'[t]) = Shift(EventsIn(batch[t]), EventsOf(t), S, from, to),
         \A t \in IOThread : ToSet(util'[t].tasks) = Shift(ToSet(util[t].tasks), BufferOf(t), S, from, to),
         QueuedFds' = Shift(QueuedFds, Queues, S, from, to),
         \A w \in Worker : ToSet(Running(w)') = Shift(ToSet(Running(w)), HandOf(w), S, from, to),
         ToSet(cList') = Shift(ToSet(cList), CloseList, S, from, to),
         ToSet(Doomed') = Shift(ToSet(Doomed), Closer, S, from, to)
  PROVE  Fits(Move(own, S, to))'
<1> DEFINE o == Move(own, S, to)
<1>1. o \in [Fd -> Owner]
  BY DEF Move, Fits
<1>2. ASSUME NEW p, NEW C, NEW D, D = Shift(C, p, S, from, to), Fit(own, p, C)
      PROVE  Fit(o, p, D)
  BY <1>2, ShiftFits
<1> HIDE DEF o
<1>3. Fit(o, Epoll, armed')
  BY <1>2 DEF Fits
<1>4. \A t \in IOThread : Fit(o, EventsOf(t), EventsIn(batch'[t]))
  BY <1>2 DEF Fits
<1>5. \A t \in IOThread : Fit(o, BufferOf(t), ToSet(util'[t].tasks))
  BY <1>2 DEF Fits
<1>6. Fit(o, Queues, QueuedFds')
  BY <1>2 DEF Fits
<1>7. \A w \in Worker : Fit(o, HandOf(w), ToSet(Running(w)'))
  BY <1>2 DEF Fits
<1>8. Fit(o, CloseList, ToSet(cList')) /\ Fit(o, Closer, ToSet(Doomed'))
  BY <1>2 DEF Fits
<1>9. Fits(o)'
  BY <1>1, <1>3, <1>4, <1>5, <1>6, <1>7, <1>8 DEF Fits
<1> QED
  BY <1>9 DEF o

\* The triples of two fixed components and one out of a set.
LEMMA Triples ==
  \A x, y, S, p : p \in {x} \X {y} \X S <=> \E i \in S : p = <<x, y, i>>
<1> SUFFICES ASSUME NEW x, NEW y, NEW S, NEW p
             PROVE  p \in {x} \X {y} \X S <=> \E i \in S : p = <<x, y, i>>
  OBVIOUS
<1>1. ASSUME NEW i \in S PROVE <<x, y, i>> \in {x} \X {y} \X S
  OBVIOUS
<1>2. ASSUME p \in {x} \X {y} \X S PROVE \E i \in S : p = <<x, y, i>>
  <2>1. p = <<p[1], p[2], p[3]>> /\ p[1] = x /\ p[2] = y /\ p[3] \in S
    BY <1>2
  <2> QED
    BY <2>1
<1> QED
  BY <1>1, <1>2

\* A place that holds a connection.
LEMMA HolderCases ==
  ASSUME NEW fd \in Fd, NEW p
  PROVE  p \in Holders(fd) <=>
           \/ p = <<"armed">> /\ fd \in armed
           \/ \E t \in IOThread, k \in Kinds : p = <<"event", t, k>> /\ <<fd, k>> \in batch[t]
           \/ \E t \in IOThread : \E i \in Spots(util[t].tasks, fd) : p = <<"task", t, i>>
           \/ \E n \in 1 .. waiting[fd] : p = <<"waiting", n>>
           \/ \E w \in Worker : \E i \in Spots(Running(w), fd) : p = <<"running", w, i>>
           \/ \E i \in Spots(cList, fd) : p = <<"close", i>>
           \/ \E i \in Spots(Doomed, fd) : p = <<"doomed", i>>
<1> DEFINE A == IF fd \in armed THEN {<<"armed">>} ELSE {}
           B == {q \in {"event"} \X IOThread \X {"HUP", "RD", "WR"} : <<fd, q[3]>> \in batch[q[2]]}
           C == (UNION {{"task"} \X {t} \X Spots(util[t].tasks, fd) : t \in IOThread})
           D == {"waiting"} \X (1 .. waiting[fd])
           E == (UNION {{"running"} \X {w} \X Spots(Running(w), fd) : w \in Worker})
           F == {"close"} \X Spots(cList, fd)
           G == {"doomed"} \X Spots(Doomed, fd)
<1>1. Holders(fd) = A \cup B \cup C \cup D \cup E \cup F \cup G
  BY DEF Holders
<1>2. p \in A <=> p = <<"armed">> /\ fd \in armed
  OBVIOUS
<1>3. p \in B <=> \E t \in IOThread, k \in Kinds : p = <<"event", t, k>> /\ <<fd, k>> \in batch[t]
  <2>1. p \in {"event"} \X IOThread \X {"HUP", "RD", "WR"} <=>
          \E t \in IOThread, k \in Kinds : p = <<"event", t, k>>
    BY DEF Kinds
  <2>2. ASSUME NEW t, NEW k PROVE <<"event", t, k>>[2] = t /\ <<"event", t, k>>[3] = k
    OBVIOUS
  <2>3. p \in B <=> p \in {"event"} \X IOThread \X {"HUP", "RD", "WR"} /\ <<fd, p[3]>> \in batch[p[2]]
    BY Zenon
  <2>4. ASSUME NEW t \in IOThread, NEW k \in Kinds, p = <<"event", t, k>>
        PROVE  <<fd, p[3]>> = <<fd, k>> /\ batch[p[2]] = batch[t]
    BY <2>2, <2>4
  <2> HIDE DEF B
  <2> QED
    BY <2>1, <2>3, <2>4, Zenon
<1>4. p \in C <=> \E t \in IOThread : \E i \in Spots(util[t].tasks, fd) : p = <<"task", t, i>>
  <2>1. p \in C <=> \E t \in IOThread : p \in {"task"} \X {t} \X Spots(util[t].tasks, fd)
    BY Zenon
  <2>2. ASSUME NEW t, NEW S
        PROVE  p \in {"task"} \X {t} \X S <=> \E i \in S : p = <<"task", t, i>>
    BY Triples
  <2> HIDE DEF C
  <2> QED
    BY <2>1, <2>2, Zenon
<1>5. p \in D <=> \E n \in 1 .. waiting[fd] : p = <<"waiting", n>>
  <2>1. ASSUME NEW S PROVE p \in {"waiting"} \X S <=> \E n \in S : p = <<"waiting", n>>
    OBVIOUS
  <2> QED
    BY <2>1, Zenon
<1>6. p \in E <=> \E w \in Worker : \E i \in Spots(Running(w), fd) : p = <<"running", w, i>>
  <2>1. p \in E <=> \E w \in Worker : p \in {"running"} \X {w} \X Spots(Running(w), fd)
    BY Zenon
  <2>2. ASSUME NEW w, NEW S
        PROVE  p \in {"running"} \X {w} \X S <=> \E i \in S : p = <<"running", w, i>>
    BY Triples
  <2> QED
    BY <2>1, <2>2, Zenon
<1>7. ASSUME NEW x, NEW S PROVE p \in {x} \X S <=> \E n \in S : p = <<x, n>>
  OBVIOUS
<1>8. p \in F <=> \E i \in Spots(cList, fd) : p = <<"close", i>>
  BY <1>7, Zenon
<1>9. p \in G <=> \E i \in Spots(Doomed, fd) : p = <<"doomed", i>>
  BY <1>7, Zenon
<1> HIDE DEF A, B, C, D, E, F, G
<1> QED
  BY <1>1, <1>2, <1>3, <1>4, <1>5, <1>6, <1>8, <1>9, Zenon

\* A place in a list.
LEMMA SpotIn ==
  ASSUME NEW s, NEW fd, NEW i \in Spots(s, fd)
  PROVE  fd \in ToSet(s) /\ i \in DOMAIN s /\ s[i] = fd
  BY DEF Spots, ToSet

\* A place that belongs to the owner.
PlaceOf(own, fd, p) ==
    \/ own[fd] = Epoll /\ p = <<"armed">>
    \/ \E t \in IOThread : own[fd] = EventsOf(t) /\
          \E k \in Kinds : p = <<"event", t, k>> /\ <<fd, k>> \in batch[t]
    \/ \E t \in IOThread : own[fd] = BufferOf(t) /\
          \E i \in Spots(util[t].tasks, fd) : p = <<"task", t, i>>
    \/ own[fd] = Queues /\ \E n \in 1 .. waiting[fd] : p = <<"waiting", n>>
    \/ \E w \in Worker : own[fd] = HandOf(w) /\
          \E i \in Spots(Running(w), fd) : p = <<"running", w, i>>
    \/ own[fd] = CloseList /\ \E i \in Spots(cList, fd) : p = <<"close", i>>
    \/ own[fd] = Closer /\ \E i \in Spots(Doomed, fd) : p = <<"doomed", i>>

\* Who holds a connection is its owner.
LEMMA HolderOwner ==
  ASSUME NEW own, Fits(own), Parts, NEW fd \in Fd, NEW p \in Holders(fd)
  PROVE  PlaceOf(own, fd, p)
<1>1. CASE p = <<"armed">> /\ fd \in armed
  BY <1>1 DEF Fits, Fit, PlaceOf
<1>2. CASE \E t \in IOThread, k \in Kinds : p = <<"event", t, k>> /\ <<fd, k>> \in batch[t]
  <2>1. PICK t \in IOThread, k \in Kinds : p = <<"event", t, k>> /\ <<fd, k>> \in batch[t]
    BY <1>2
  <2>2. own[fd] = EventsOf(t)
    BY <2>1 DEF Fits, Fit, EventsIn
  <2> QED
    BY <2>1, <2>2 DEF PlaceOf
<1>3. CASE \E t \in IOThread : \E i \in Spots(util[t].tasks, fd) : p = <<"task", t, i>>
  <2>1. PICK t \in IOThread : \E i \in Spots(util[t].tasks, fd) : p = <<"task", t, i>>
    BY <1>3
  <2>2. own[fd] = BufferOf(t)
    BY <2>1, SpotIn DEF Fits, Fit
  <2> QED
    BY <2>1, <2>2 DEF PlaceOf
<1>4. CASE \E n \in 1 .. waiting[fd] : p = <<"waiting", n>>
  <2>1. waiting[fd] # 0
    BY <1>4
  <2>2. own[fd] = Queues
    BY <2>1 DEF Fits, Fit, QueuedFds
  <2> QED
    BY <1>4, <2>2 DEF PlaceOf
<1>5. CASE \E w \in Worker : \E i \in Spots(Running(w), fd) : p = <<"running", w, i>>
  <2>1. PICK w \in Worker : \E i \in Spots(Running(w), fd) : p = <<"running", w, i>>
    BY <1>5
  <2>2. own[fd] = HandOf(w)
    BY <2>1, SpotIn DEF Fits, Fit
  <2> QED
    BY <2>1, <2>2 DEF PlaceOf
<1>6. CASE \E i \in Spots(cList, fd) : p = <<"close", i>>
  BY <1>6, SpotIn DEF Fits, Fit, PlaceOf
<1>7. CASE \E i \in Spots(Doomed, fd) : p = <<"doomed", i>>
  BY <1>7, SpotIn DEF Fits, Fit, PlaceOf
<1> QED
  BY <1>1, <1>2, <1>3, <1>4, <1>5, <1>6, <1>7, HolderCases

\* Somebody holds a connection exactly when it has an owner.
LEMMA HeldIsOwned ==
  ASSUME NEW own, Fits(own), Parts, NEW fd \in Fd
  PROVE  Holders(fd) = {} <=> own[fd] = Nobody
<1>1. ASSUME NEW p \in Holders(fd) PROVE own[fd] # Nobody
  BY HolderOwner, Owners DEF PlaceOf
<1>2. ASSUME own[fd] # Nobody PROVE \E p : p \in Holders(fd)
  <2>0. own[fd] \in Owner
    BY DEF Fits
  <2>1. CASE own[fd] = Epoll
    <3>1. <<"armed">> \in Holders(fd)
      BY <2>1, HolderCases DEF Fits, Fit
    <3> QED
      BY <3>1
  <2>2. CASE own[fd] = Queues
    <3>1. waiting[fd] # 0 /\ waiting[fd] \in Nat
      BY <2>2 DEF Fits, Fit, QueuedFds, Parts, WorkPart
    <3>2. 1 \in 1 .. waiting[fd]
      BY <3>1
    <3>3. <<"waiting", 1>> \in Holders(fd)
      BY <3>2, HolderCases
    <3> QED
      BY <3>3
  <2>3. CASE own[fd] = CloseList
    <3>1. PICK i \in Spots(cList, fd) : TRUE
      BY <2>3 DEF Fits, Fit, Spots, ToSet
    <3>2. <<"close", i>> \in Holders(fd)
      BY HolderCases
    <3> QED
      BY <3>2
  <2>4. CASE own[fd] = Closer
    <3>1. PICK i \in Spots(Doomed, fd) : TRUE
      BY <2>4 DEF Fits, Fit, Spots, ToSet
    <3>2. <<"doomed", i>> \in Holders(fd)
      BY HolderCases
    <3> QED
      BY <3>2
  <2>5. ASSUME NEW t \in IOThread, own[fd] = EventsOf(t) PROVE \E p : p \in Holders(fd)
    <3>1. PICK k \in Kinds : <<fd, k>> \in batch[t]
      BY <2>5 DEF Fits, Fit, EventsIn
    <3>2. <<"event", t, k>> \in Holders(fd)
      BY <3>1, HolderCases
    <3> QED
      BY <3>2
  <2>6. ASSUME NEW t \in IOThread, own[fd] = BufferOf(t) PROVE \E p : p \in Holders(fd)
    <3>1. PICK i \in Spots(util[t].tasks, fd) : TRUE
      BY <2>6 DEF Fits, Fit, Spots, ToSet
    <3>2. <<"task", t, i>> \in Holders(fd)
      BY HolderCases
    <3> QED
      BY <3>2
  <2>7. ASSUME NEW w \in Worker, own[fd] = HandOf(w) PROVE \E p : p \in Holders(fd)
    <3>1. PICK i \in Spots(Running(w), fd) : TRUE
      BY <2>7 DEF Fits, Fit, Spots, ToSet
    <3>2. <<"running", w, i>> \in Holders(fd)
      BY HolderCases
    <3> QED
      BY <3>2
  <2> QED
    BY <1>2, <2>0, <2>1, <2>2, <2>3, <2>4, <2>5, <2>6, <2>7 DEF Owner
<1> QED
  BY <1>1, <1>2

\* Two places of a list that hold the same connection are the same.
LEMMA OneSpot ==
  ASSUME NEW s, Distinct(s), NEW fd, NEW i \in Spots(s, fd), NEW j \in Spots(s, fd)
  PROVE  i = j
  BY DEF Distinct, Spots

\* The invariant says what the property says.
LEMMA OwnedMeans ==
  ASSUME NEW own, Owned(own)
  PROVE  ExclusiveOwner
<1> SUFFICES ASSUME NEW fd \in Fd, NEW p \in Holders(fd), NEW q \in Holders(fd)
             PROVE  p = q /\ fd \in connections
  BY DEF ExclusiveOwner
<1>0. Fits(own) /\ Known(own) /\ Parts
  BY DEF Owned
<1>1. fd \in connections
  BY <1>0, HeldIsOwned DEF Known
<1>2. PlaceOf(own, fd, p) /\ PlaceOf(own, fd, q)
  BY <1>0, HolderOwner
<1>3. CASE own[fd] = Epoll
  BY <1>2, <1>3, <1>1, Owners DEF PlaceOf
<1>4. CASE \E t \in IOThread : own[fd] = EventsOf(t)
  <2>1. PICK t \in IOThread : own[fd] = EventsOf(t)
    BY <1>4
  <2>2. PICK k \in Kinds : p = <<"event", t, k>> /\ <<fd, k>> \in batch[t]
    BY <1>2, <2>1, Owners DEF PlaceOf
  <2>3. PICK l \in Kinds : q = <<"event", t, l>> /\ <<fd, l>> \in batch[t]
    BY <1>2, <2>1, Owners DEF PlaceOf
  <2>4. <<fd, k>> = <<fd, l>>
    BY <1>0, <2>2, <2>3 DEF Parts, IoPart, Shape, OneEvent
  <2> QED
    BY <1>1, <2>2, <2>3, <2>4
<1>5. CASE \E t \in IOThread : own[fd] = BufferOf(t)
  <2>1. PICK t \in IOThread : own[fd] = BufferOf(t)
    BY <1>5
  <2>2. PICK i \in Spots(util[t].tasks, fd) : p = <<"task", t, i>>
    BY <1>2, <2>1, Owners DEF PlaceOf
  <2>3. PICK j \in Spots(util[t].tasks, fd) : q = <<"task", t, j>>
    BY <1>2, <2>1, Owners DEF PlaceOf
  <2>4. i = j
    BY <1>0, OneSpot DEF Parts, IoPart, Shape, WorkPart, ListPart, MainPart
  <2> QED
    BY <1>1, <2>2, <2>3, <2>4
<1>6. CASE own[fd] = Queues
  <2>1. PICK m \in 1 .. waiting[fd] : p = <<"waiting", m>>
    BY <1>2, <1>6, Owners DEF PlaceOf
  <2>2. PICK n \in 1 .. waiting[fd] : q = <<"waiting", n>>
    BY <1>2, <1>6, Owners DEF PlaceOf
  <2>3. waiting[fd] \in 0 .. 1
    BY <1>0 DEF Parts, WorkPart
  <2>4. m = n
    BY <2>3
  <2> QED
    BY <1>1, <2>1, <2>2, <2>4
<1>7. CASE \E w \in Worker : own[fd] = HandOf(w)
  <2>1. PICK w \in Worker : own[fd] = HandOf(w)
    BY <1>7
  <2>2. PICK i \in Spots(Running(w), fd) : p = <<"running", w, i>>
    BY <1>2, <2>1, Owners DEF PlaceOf
  <2>3. PICK j \in Spots(Running(w), fd) : q = <<"running", w, j>>
    BY <1>2, <2>1, Owners DEF PlaceOf
  <2>4. i = j
    BY <1>0, OneSpot DEF Parts, IoPart, Shape, WorkPart, ListPart, MainPart
  <2> QED
    BY <1>1, <2>2, <2>3, <2>4
<1>8. CASE own[fd] = CloseList
  <2>1. PICK i \in Spots(cList, fd) : p = <<"close", i>>
    BY <1>2, <1>8, Owners DEF PlaceOf
  <2>2. PICK j \in Spots(cList, fd) : q = <<"close", j>>
    BY <1>2, <1>8, Owners DEF PlaceOf
  <2>3. i = j
    BY <1>0, OneSpot DEF Parts, IoPart, Shape, WorkPart, ListPart, MainPart
  <2> QED
    BY <1>1, <2>1, <2>2, <2>3
<1>9. CASE own[fd] = Closer
  <2>1. PICK i \in Spots(Doomed, fd) : p = <<"doomed", i>>
    BY <1>2, <1>9, Owners DEF PlaceOf
  <2>2. PICK j \in Spots(Doomed, fd) : q = <<"doomed", j>>
    BY <1>2, <1>9, Owners DEF PlaceOf
  <2>3. i = j
    BY <1>0, OneSpot DEF Parts, IoPart, Shape, WorkPart, ListPart, MainPart
  <2> QED
    BY <1>1, <2>1, <2>2, <2>3
<1> QED
  BY <1>2, <1>3, <1>4, <1>5, <1>6, <1>7, <1>8, <1>9 DEF PlaceOf

-----------------------------------------------------------------------------
(* What a step leaves alone.                                               *)

\* Whether somebody owns a connection is the same before and after.
Kept(own, o) == \A fd \in Fd : own[fd] = Nobody <=> o[fd] = Nobody

\* What the configuration says about sizes.
LEMMA Sizes ==
  /\ IsFiniteSet(Fd) /\ Cardinality(Fd) \in Nat
  /\ QUEUE_LENGTH \in Nat /\ BATCH_SUBMIT \in Nat /\ BATCH_SUBMIT >= 1 /\ BATCH_SUBMIT <= QUEUE_LENGTH
  /\ BATCH_PROCESS \in Nat /\ BATCH_PROCESS >= 1 /\ MAX_EVENT \in Nat /\ MAX_EVENT >= 1
<1>1. IsFiniteSet(Fd) /\ Cardinality(Fd) \in Nat
  BY ConfigAssumption, FS_CardinalityType
<1> QED
  BY <1>1, ConfigAssumption

\* A step that leaves the I/O threads, the workers or the main thread alone keeps what
\* is known of them.
LEMMA IoFrame ==
  ASSUME IoPart, UNCHANGED ioVars
  PROVE  IoPart' /\ batch' = batch /\ util' = util
  BY DEF IoPart, ioVars

\* The same for the workers,
LEMMA WorkFrame ==
  ASSUME WorkPart, UNCHANGED <<waiting, hand, workPc>>
  PROVE  WorkPart' /\ QueuedFds' = QueuedFds /\ \A w \in Worker : Running(w)' = Running(w)
  BY DEF WorkPart, QueuedFds, Running

\* and for the main thread.
LEMMA MainFrame ==
  ASSUME MainPart, UNCHANGED <<connections, closing, mainPc, newFd, failures, phase>>
  PROVE  MainPart' /\ Doomed' = Doomed
  BY DEF MainPart, Doomed

\* A step that moves no connection.
LEMMA Staying ==
  ASSUME NEW own, Owned(own), Parts',
         armed' = armed, reg' = reg,
         \A t \in IOThread : batch'[t] = batch[t] /\ util'[t].tasks = util[t].tasks,
         QueuedFds' = QueuedFds, \A w \in Worker : Running(w)' = Running(w),
         cList' = cList, Doomed' = Doomed, connections \subseteq connections'
  PROVE  Owned(own)'
<1>1. Fits(own) /\ Known(own)
  BY DEF Owned
<1>2. Fits(own)'
  <2>1. own \in [Fd -> Owner] /\ Fit(own, Epoll, armed')
    BY <1>1 DEF Fits
  <2>2. \A t \in IOThread : Fit(own, EventsOf(t), EventsIn(batch'[t]))
    BY <1>1 DEF Fits
  <2>3. \A t \in IOThread : Fit(own, BufferOf(t), ToSet(util'[t].tasks))
    BY <1>1 DEF Fits
  <2>4. Fit(own, Queues, QueuedFds')
    BY <1>1 DEF Fits
  <2>5. \A w \in Worker : Fit(own, HandOf(w), ToSet(Running(w)'))
    BY <1>1 DEF Fits
  <2>6. Fit(own, CloseList, ToSet(cList')) /\ Fit(own, Closer, ToSet(Doomed'))
    BY <1>1 DEF Fits
  <2> QED
    BY <2>1, <2>2, <2>3, <2>4, <2>5, <2>6 DEF Fits
<1>3. Known(own)'
  BY <1>1 DEF Known
<1> QED
  BY <1>2, <1>3 DEF Owned

\* I/O thread t goes on with events b and buffer u.
IoBecomes(t, pc, b, u) ==
    /\ ioPc' = [ioPc EXCEPT ![t] = pc]
    /\ batch' = [batch EXCEPT ![t] = b]
    /\ util' = [util EXCEPT ![t] = u]

\* A step of one I/O thread, with what it holds afterwards.
LEMMA IoUpdate ==
  ASSUME IoPart, NEW t \in IOThread, NEW pc \in IoPcs, NEW b \in SUBSET Msgs, NEW u \in Utils,
         IoBecomes(t, pc, b, u), Shape(pc, b, u)
  PROVE  /\ IoPart'
         /\ batch'[t] = b /\ util'[t] = u
         /\ \A s \in IOThread : s # t => batch'[s] = batch[s] /\ util'[s] = util[s]
<1>1. /\ ioPc' \in [IOThread -> IoPcs] /\ batch' \in [IOThread -> SUBSET Msgs]
      /\ util' \in [IOThread -> Utils]
  BY DEF IoPart, IoBecomes
<1>2. ioPc'[t] = pc /\ batch'[t] = b /\ util'[t] = u
  BY DEF IoPart, IoBecomes
<1>3. \A s \in IOThread : s # t => ioPc'[s] = ioPc[s] /\ batch'[s] = batch[s] /\ util'[s] = util[s]
  BY DEF IoPart, IoBecomes
<1>4. \A s \in IOThread : Shape(ioPc'[s], batch'[s], util'[s])
  <2> SUFFICES ASSUME NEW s \in IOThread PROVE Shape(ioPc'[s], batch'[s], util'[s])
    OBVIOUS
  <2>1. CASE s = t
    BY <1>2, <2>1
  <2>2. CASE s # t
    BY <1>3, <2>2 DEF IoPart
  <2> QED
    BY <2>1, <2>2
<1> QED
  BY <1>1, <1>2, <1>3, <1>4 DEF IoPart

\* Worker w goes on with the tasks h.
LEMMA WorkUpdate ==
  ASSUME WorkPart, NEW w \in Worker, NEW h \in Seq(Fd), NEW pc \in {"run", "zero", "store"},
         hand' = [hand EXCEPT ![w] = h],
         workPc' = [workPc EXCEPT ![w] = pc],
         waiting' \in [Fd -> 0 .. 1],
         pc # "run" => h # << >>,
         Distinct(IF pc = "run" THEN h ELSE Tail(h))
  PROVE  /\ WorkPart'
         /\ Running(w)' = IF pc = "run" THEN h ELSE Tail(h)
         /\ \A v \in Worker : v # w => Running(v)' = Running(v)
<1>1. hand' \in [Worker -> Seq(Fd)] /\ workPc' \in [Worker -> {"run", "zero", "store"}]
  BY DEF WorkPart
<1>2. hand'[w] = h /\ workPc'[w] = pc
  BY DEF WorkPart
<1>3. \A v \in Worker : v # w => hand'[v] = hand[v] /\ workPc'[v] = workPc[v]
  BY DEF WorkPart
<1>4. Running(w)' = IF pc = "run" THEN h ELSE Tail(h)
  BY <1>2 DEF Running
<1>5. \A v \in Worker : v # w => Running(v)' = Running(v)
  BY <1>3 DEF Running
<1>6. \A v \in Worker : Distinct(Running(v)')
  BY <1>4, <1>5 DEF WorkPart
<1>7. \A v \in Worker : workPc'[v] # "run" => hand'[v] # << >>
  BY <1>2, <1>3 DEF WorkPart
<1>8. \A v \in Worker : Distinct(Running(v))'
  BY <1>6 DEF Distinct
<1> QED
  BY <1>1, <1>4, <1>5, <1>7, <1>8 DEF WorkPart

\* The owner of the connections S becomes somebody else.
LEMMA MoveKept ==
  ASSUME NEW own, Fits(own), NEW S, NEW from, NEW to, \A fd \in S : own[fd] = from,
         from # Nobody, to # Nobody
  PROVE  Kept(own, Move(own, S, to))
  BY DEF Kept, Move

\* The lists that have connections of their own.
LEMMA ListTypes ==
  ASSUME Parts
  PROVE  /\ \A t \in IOThread : util[t].tasks \in Seq(Fd) /\ Len(util[t].tasks) \in Nat
         /\ \A w \in Worker : Running(w) \in Seq(Fd) /\ hand[w] \in Seq(Fd)
         /\ cList \in Seq(Fd) /\ closing \in Seq(Fd) /\ Doomed \in Seq(Fd)
<1>1. \A t \in IOThread : util[t].tasks \in Seq(Fd) /\ Len(util[t].tasks) \in Nat
  BY Elements DEF Parts, IoPart, Utils
<1>2. \A w \in Worker : hand[w] \in Seq(Fd)
  BY DEF Parts, WorkPart
<1>3. \A w \in Worker : Running(w) \in Seq(Fd)
  BY <1>2, TailList DEF Parts, WorkPart, Running
<1>4. cList \in Seq(Fd) /\ closing \in Seq(Fd)
  BY DEF Parts, ListPart, MainPart
<1>5. Doomed \in Seq(Fd)
  BY <1>4, TailList DEF Parts, MainPart, Doomed
<1> QED
  BY <1>1, <1>2, <1>3, <1>4, <1>5

-----------------------------------------------------------------------------
(* The workers.                                                            *)

\* ActiveClose moves a connection to the close list.
LEMMA CloseMove ==
  ASSUME NEW own, Owned(own), NEW fd \in Fd, NEW from,
         own[fd] = from, from \notin {Nobody, Epoll, CloseList},
         ActiveClose(fd), connections' = connections
  PROVE  /\ armed' = Shift(armed, Epoll, {fd}, from, CloseList)
         /\ ToSet(cList') = Shift(ToSet(cList), CloseList, {fd}, from, CloseList)
         /\ ListPart' /\ EpollPart'
         /\ Known(Move(own, {fd}, CloseList))'
<1>1. fd \notin armed /\ fd \notin ToSet(cList)
  BY DEF Owned, Fits, Fit
<1>2. armed' = armed \ {fd} /\ reg' = reg \ {fd} /\ cList' = Append(cList, fd)
  BY DEF ActiveClose
<1>3. cList \in Seq(Fd) /\ Distinct(cList) /\ reg \subseteq Fd /\ armed \subseteq reg
  BY DEF Owned, Parts, ListPart, EpollPart
<1>4. cList' \in Seq(Fd) /\ ToSet(cList') = ToSet(cList) \cup {fd} /\ Distinct(cList')
  BY <1>1, <1>2, <1>3, AppendList
<1>5. armed' = Shift(armed, Epoll, {fd}, from, CloseList)
  BY <1>1, <1>2, Owners DEF Shift
<1>6. ToSet(cList') = Shift(ToSet(cList), CloseList, {fd}, from, CloseList)
  BY <1>4 DEF Shift
<1>7. ListPart'
  BY <1>4 DEF ListPart, Distinct
<1>8. EpollPart'
  BY <1>1, <1>2, <1>3 DEF EpollPart
<1>9. Known(Move(own, {fd}, CloseList))'
  BY <1>2 DEF Known, Move, Owned
<1> QED
  BY <1>5, <1>6, <1>7, <1>8, <1>9

\* EPOLL_CTL_MOD moves a connection to epoll.
LEMMA ArmMove ==
  ASSUME NEW own, Owned(own), NEW fd \in Fd, NEW from,
         own[fd] = from, from \notin {Nobody, Epoll, CloseList},
         fd \in reg, armed' = armed \cup {fd}, UNCHANGED <<reg, cList, connections>>
  PROVE  /\ armed' = Shift(armed, Epoll, {fd}, from, Epoll)
         /\ ToSet(cList') = Shift(ToSet(cList), CloseList, {fd}, from, Epoll)
         /\ ListPart' /\ EpollPart'
         /\ Known(Move(own, {fd}, Epoll))'
<1>1. armed' = Shift(armed, Epoll, {fd}, from, Epoll)
  BY DEF Shift
<1>2. ToSet(cList') = Shift(ToSet(cList), CloseList, {fd}, from, Epoll)
  BY Owners DEF Shift
<1>3. ListPart' /\ EpollPart'
  BY DEF Owned, Parts, ListPart, EpollPart
<1>4. Known(Move(own, {fd}, Epoll))'
  BY DEF Known, Move, Owned, Parts, MainPart
<1> QED
  BY <1>1, <1>2, <1>3, <1>4

\* The callback at the head of w's tasks ends and its connection goes to `to'.
LEMMA CallbackMove ==
  ASSUME NEW own, Owned(own), NEW w \in Worker, NEW to \in {Epoll, CloseList},
         hand[w] # << >>, workPc[w] = "run", NEW fd, fd = Head(hand[w]),
         UNCHANGED ioVars, UNCHANGED mapVars, UNCHANGED mainVars,
         UNCHANGED <<phase, waiting>>,
         armed' = Shift(armed, Epoll, {fd}, HandOf(w), to),
         ToSet(cList') = Shift(ToSet(cList), CloseList, {fd}, HandOf(w), to),
         ListPart', EpollPart', WorkPart',
         Known(Move(own, {fd}, to))',
         Running(w)' = Tail(hand[w]),
         \A v \in Worker : v # w => Running(v)' = Running(v)
  PROVE  \E o : Owned(o)' /\ Kept(own, o)
<1> DEFINE o == Move(own, {fd}, to)
<1>0. Fits(own) /\ Parts /\ IoPart /\ WorkPart /\ MainPart
  BY DEF Owned, Parts
<1>1. hand[w] \in Seq(Fd) /\ Running(w) = hand[w] /\ Distinct(hand[w])
  BY <1>0 DEF WorkPart, Running
<1>2. /\ fd \in Fd
      /\ ToSet(hand[w]) = ToSet(Tail(hand[w])) \cup {fd}
      /\ fd \notin ToSet(Tail(hand[w]))
  BY <1>1, TailList
<1>3. own[fd] = HandOf(w)
  BY <1>0, <1>1, <1>2 DEF Fits, Fit
<1>4. HandOf(w) \in Owner /\ to \in Owner /\ HandOf(w) # to
  BY Owners
<1>5. IoPart' /\ batch' = batch /\ util' = util
  BY <1>0, IoFrame
<1>6. MainPart' /\ Doomed' = Doomed
  BY <1>0, MainFrame DEF mapVars, mainVars
<1>7. QueuedFds' = QueuedFds
  BY DEF QueuedFds
<1>8. Fits(o)'
  <2>1. armed' = Shift(armed, Epoll, {fd}, HandOf(w), to)
    OBVIOUS
  <2>2. \A t \in IOThread : EventsIn(batch'[t]) = Shift(EventsIn(batch[t]), EventsOf(t), {fd}, HandOf(w), to)
    BY <1>5, Owners DEF Shift
  <2>3. \A t \in IOThread :
          ToSet(util'[t].tasks) = Shift(ToSet(util[t].tasks), BufferOf(t), {fd}, HandOf(w), to)
    BY <1>5, Owners DEF Shift
  <2>4. QueuedFds' = Shift(QueuedFds, Queues, {fd}, HandOf(w), to)
    BY <1>7, Owners DEF Shift
  <2>5. \A v \in Worker : ToSet(Running(v)') = Shift(ToSet(Running(v)), HandOf(v), {fd}, HandOf(w), to)
    <3> SUFFICES ASSUME NEW v \in Worker
                 PROVE  ToSet(Running(v)') = Shift(ToSet(Running(v)), HandOf(v), {fd}, HandOf(w), to)
      OBVIOUS
    <3>1. CASE v = w
      <4>1. ToSet(Tail(hand[w])) = ToSet(hand[w]) \ {fd}
        BY <1>2
      <4> QED
        BY <1>1, <3>1, <4>1 DEF Shift
    <3>2. CASE v # w
      BY <3>2, Owners DEF Shift
    <3> QED
      BY <3>1, <3>2
  <2>6. ToSet(cList') = Shift(ToSet(cList), CloseList, {fd}, HandOf(w), to)
    OBVIOUS
  <2>7. ToSet(Doomed') = Shift(ToSet(Doomed), Closer, {fd}, HandOf(w), to)
    BY <1>6, Owners DEF Shift
  <2>8. \A x \in {fd} : own[x] = HandOf(w)
    BY <1>3
  <2>9. {fd} \in SUBSET Fd
    BY <1>2
  <2> QED
    BY <1>0, <1>4, <2>1, <2>2, <2>3, <2>4, <2>5, <2>6, <2>7, <2>8, <2>9, Moving
<1>9. Kept(own, o)
  BY <1>0, <1>3, MoveKept, Owners
<1>10. Owned(o)'
  BY <1>5, <1>6, <1>8 DEF Owned, Parts
<1> QED
  BY <1>9, <1>10

\* A worker that finishes a task goes on with the others in its hand.
LEMMA FinishHand ==
  ASSUME Parts, NEW w \in Worker, hand[w] # << >>, Pool!Finish(w),
         workPc' = [workPc EXCEPT ![w] = "run"]
  PROVE  /\ WorkPart' /\ UNCHANGED <<phase, waiting>>
         /\ Running(w)' = Tail(hand[w])
         /\ \A v \in Worker : v # w => Running(v)' = Running(v)
<1>1. hand[w] \in Seq(Fd) /\ WorkPart /\ Distinct(Running(w))
  BY DEF Parts, WorkPart
<1>2. Tail(hand[w]) \in Seq(Fd) /\ Distinct(Tail(hand[w]))
  <2>1. Tail(hand[w]) \in Seq(Fd)
    BY <1>1, TailList
  <2>2. CASE workPc[w] = "run"
    BY <1>1, <2>2, TailList DEF Running
  <2>3. CASE workPc[w] # "run"
    BY <1>1, <2>3 DEF Running
  <2> QED
    BY <2>1, <2>2, <2>3
<1>3. hand' = [hand EXCEPT ![w] = Tail(hand[w])] /\ UNCHANGED <<phase, waiting>>
  BY <1>1 DEF Pool!Finish, WorkPart
<1>4. waiting' \in [Fd -> 0 .. 1]
  BY <1>1, <1>3 DEF WorkPart
<1> QED
  BY <1>1, <1>2, <1>3, <1>4, WorkUpdate

\* A callback that closes its connection moves it to the close list.
LEMMA CallbackCloseOwned ==
  ASSUME NEW own, Owned(own), NEW w \in Worker, CallbackClose(w)
  PROVE  \E o : Owned(o)' /\ Kept(own, o)
<1>0. Fits(own) /\ Parts /\ WorkPart
  BY DEF Owned, Parts
<1>1. hand[w] # << >> /\ workPc[w] = "run" /\ ActiveClose(Head(hand[w])) /\ Pool!Finish(w)
  BY DEF CallbackClose, InCallback
<1>2. UNCHANGED ioVars /\ UNCHANGED mapVars /\ UNCHANGED mainVars /\ workPc' = workPc
  BY DEF CallbackClose, workVars
<1>3. workPc' = [workPc EXCEPT ![w] = "run"]
  BY <1>0, <1>1, <1>2 DEF WorkPart
<1>4. /\ WorkPart' /\ UNCHANGED <<phase, waiting>> /\ Running(w)' = Tail(hand[w])
      /\ \A v \in Worker : v # w => Running(v)' = Running(v)
  BY <1>0, <1>1, <1>3, FinishHand
<1>5. Head(hand[w]) \in Fd /\ own[Head(hand[w])] = HandOf(w)
  <2>1. hand[w] \in Seq(Fd) /\ Running(w) = hand[w]
    BY <1>0, <1>1 DEF WorkPart, Running
  <2>2. Head(hand[w]) \in Fd /\ Head(hand[w]) \in ToSet(hand[w])
    BY <1>1, <2>1, TailList
  <2> QED
    BY <1>0, <2>1, <2>2 DEF Fits, Fit
<1> PICK fd : fd = Head(hand[w])
  OBVIOUS
<1>6. /\ armed' = Shift(armed, Epoll, {fd}, HandOf(w), CloseList)
      /\ ToSet(cList') = Shift(ToSet(cList), CloseList, {fd}, HandOf(w), CloseList)
      /\ ListPart' /\ EpollPart' /\ Known(Move(own, {fd}, CloseList))'
  BY <1>1, <1>2, <1>5, CloseMove, Owners DEF mapVars
<1>7. CloseList \in {Epoll, CloseList}
  OBVIOUS
<1> QED
  BY <1>1, <1>2, <1>4, <1>6, <1>7, CallbackMove

\* enableEvents gives the connection back to epoll, or to the close list when it fails.
LEMMA CallbackEnableOwned ==
  ASSUME NEW own, Owned(own), NEW w \in Worker, CallbackEnable(w)
  PROVE  \E o : Owned(o)' /\ Kept(own, o)
<1>0. Fits(own) /\ Parts /\ WorkPart
  BY DEF Owned, Parts
<1> PICK fd : fd = Head(hand[w])
  OBVIOUS
<1>1. hand[w] # << >> /\ workPc[w] = "run"
  BY DEF CallbackEnable, InCallback
<1>2. UNCHANGED ioVars /\ UNCHANGED mapVars /\ UNCHANGED mainVars
  BY DEF CallbackEnable
<1>3. PICK m \in Interests, ok \in CtlResults(Head(hand[w])) :
          IF ok
          THEN /\ armed' = armed \cup {fd}
               /\ mask' = [mask EXCEPT ![fd] = m]
               /\ workPc' = [workPc EXCEPT ![w] = "zero"]
               /\ wanted' = [wanted EXCEPT ![w] = m]
               /\ UNCHANGED <<reg, events, cList, poolVars>>
          ELSE /\ events' = [events EXCEPT ![fd] = {}]
               /\ ActiveClose(fd)
               /\ Pool!Finish(w)
               /\ UNCHANGED <<mask, workVars>>
  BY DEF CallbackEnable
<1>4. ok \in BOOLEAN /\ (ok => fd \in reg)
  BY DEF CtlResults
<1>5. hand[w] \in Seq(Fd) /\ Running(w) = hand[w] /\ Distinct(hand[w])
  BY <1>0, <1>1 DEF WorkPart, Running
<1>6. /\ fd \in Fd /\ fd \in ToSet(hand[w])
      /\ Tail(hand[w]) \in Seq(Fd) /\ Distinct(Tail(hand[w]))
  BY <1>1, <1>5, TailList
<1>7. own[fd] = HandOf(w)
  BY <1>0, <1>5, <1>6 DEF Fits, Fit
<1>8. CASE ok
  <2>1. armed' = armed \cup {fd} /\ workPc' = [workPc EXCEPT ![w] = "zero"]
    BY <1>3, <1>8
  <2>2. UNCHANGED <<reg, cList>> /\ UNCHANGED poolVars
    BY <1>3, <1>8
  <2>3. hand' = hand /\ UNCHANGED <<phase, waiting>>
    BY <2>2 DEF poolVars
  <2>4. /\ armed' = Shift(armed, Epoll, {fd}, HandOf(w), Epoll)
        /\ ToSet(cList') = Shift(ToSet(cList), CloseList, {fd}, HandOf(w), Epoll)
        /\ ListPart' /\ EpollPart' /\ Known(Move(own, {fd}, Epoll))'
    <3>1. fd \in reg /\ connections' = connections /\ HandOf(w) \notin {Nobody, Epoll, CloseList}
      BY <1>2, <1>4, <1>8, Owners DEF mapVars
    <3> QED
      BY <1>6, <1>7, <2>1, <2>2, <3>1, ArmMove
  <2>5. hand' = [hand EXCEPT ![w] = hand[w]] /\ waiting' \in [Fd -> 0 .. 1]
    BY <1>0, <2>3 DEF WorkPart
  <2>6. /\ WorkPart' /\ Running(w)' = Tail(hand[w])
        /\ \A v \in Worker : v # w => Running(v)' = Running(v)
    <3>1. /\ "zero" \in {"run", "zero", "store"} /\ "zero" # "run"
          /\ (IF "zero" = "run" THEN hand[w] ELSE Tail(hand[w])) = Tail(hand[w])
      OBVIOUS
    <3> QED
      BY <1>0, <1>1, <1>5, <1>6, <2>1, <2>5, <3>1, WorkUpdate
  <2>7. Epoll \in {Epoll, CloseList}
    OBVIOUS
  <2> QED
    BY <1>1, <1>2, <2>3, <2>4, <2>6, <2>7, CallbackMove
<1>9. CASE ~ok
  <2>1. ActiveClose(fd) /\ Pool!Finish(w) /\ workPc' = workPc
    BY <1>3, <1>9 DEF workVars
  <2>2. workPc' = [workPc EXCEPT ![w] = "run"]
    BY <1>0, <1>1, <2>1 DEF WorkPart
  <2>3. /\ WorkPart' /\ UNCHANGED <<phase, waiting>> /\ Running(w)' = Tail(hand[w])
        /\ \A v \in Worker : v # w => Running(v)' = Running(v)
    BY <1>0, <1>1, <2>1, <2>2, FinishHand
  <2>4. /\ armed' = Shift(armed, Epoll, {fd}, HandOf(w), CloseList)
        /\ ToSet(cList') = Shift(ToSet(cList), CloseList, {fd}, HandOf(w), CloseList)
        /\ ListPart' /\ EpollPart' /\ Known(Move(own, {fd}, CloseList))'
    <3> QED
      BY <1>2, <1>6, <1>7, <2>1, CloseMove, Owners DEF mapVars
  <2>5. CloseList \in {Epoll, CloseList}
    OBVIOUS
  <2> QED
    BY <1>1, <1>2, <2>3, <2>4, <2>5, CallbackMove
<1> QED
  BY <1>4, <1>8, <1>9

\* Take moves the tasks of a worker from the queues to its hands.
LEMMA TakeOwned ==
  ASSUME NEW own, Owned(own), NEW w \in Worker, Take(w)
  PROVE  \E o : Owned(o)' /\ Kept(own, o)
<1>0. Fits(own) /\ Known(own) /\ Parts /\ IoPart /\ WorkPart /\ MainPart /\ ListPart /\ EpollPart
  BY DEF Owned, Parts
<1>1. /\ UNCHANGED ioVars /\ UNCHANGED epollVars /\ UNCHANGED workVars
      /\ UNCHANGED mapVars /\ UNCHANGED mainVars /\ UNCHANGED phase /\ hand[w] = << >>
  BY DEF Take, Pool!Take
<1>2. PICK s \in Pool!Takeable :
         /\ hand' = [hand EXCEPT ![w] = s]
         /\ waiting' = [t \in Fd |-> waiting[t] - Pool!Count(s, t)]
  BY DEF Take, Pool!Take
<1>3. s \in Seq(Fd) /\ \A fd \in Fd : Pool!Count(s, fd) <= waiting[fd]
  <2>1. s \in UNION {[1 .. n -> Fd] : n \in 1 .. BATCH_PROCESS} /\ Pool!Waits(s)
    BY DEF Pool!Takeable
  <2>2. PICK n \in 1 .. BATCH_PROCESS : s \in [1 .. n -> Fd]
    BY <2>1
  <2>3. n \in Nat
    BY Sizes
  <2> QED
    BY <2>1, <2>2, <2>3 DEF Pool!Waits
<1>4. Distinct(s)
  <2>1. \A fd \in Fd : Pool!Count(s, fd) \in Nat
    <3> SUFFICES ASSUME NEW fd \in Fd PROVE Pool!Count(s, fd) \in Nat
      OBVIOUS
    <3>1. DOMAIN s = 1 .. Len(s) /\ Len(s) \in Nat
      BY <1>3, Elements
    <3>2. IsFiniteSet(1 .. Len(s))
      BY <3>1, FS_Interval
    <3>3. IsFiniteSet({i \in DOMAIN s : s[i] = fd})
      BY <3>1, <3>2, FS_Subset
    <3> QED
      BY <3>3, FS_CardinalityType, SameCardinality DEF Pool!Count
  <2>2. \A fd \in Fd : waiting[fd] \in 0 .. 1
    BY <1>0 DEF WorkPart
  <2>3. \A fd \in Fd : Pool!Count(s, fd) <= 1
    BY <1>3, <2>1, <2>2
  <2> QED
    BY <1>3, <2>3, OnceDistinct
<1> PICK S : S = ToSet(s)
  OBVIOUS
<1>5. S \subseteq Fd
  BY <1>3, Elements
<1>6. \A fd \in Fd : waiting'[fd] = IF fd \in S THEN 0 ELSE waiting[fd]
  <2> SUFFICES ASSUME NEW fd \in Fd PROVE waiting'[fd] = IF fd \in S THEN 0 ELSE waiting[fd]
    OBVIOUS
  <2>1. Pool!Count(s, fd) = IF fd \in S THEN 1 ELSE 0
    BY <1>3, <1>4, CountDistinct
  <2>2. waiting'[fd] = waiting[fd] - Pool!Count(s, fd) /\ waiting[fd] \in 0 .. 1
    BY <1>0, <1>2 DEF WorkPart
  <2> QED
    BY <1>3, <2>1, <2>2
<1>7. \A fd \in S : waiting[fd] # 0
  <2> SUFFICES ASSUME NEW fd \in S PROVE waiting[fd] # 0
    OBVIOUS
  <2>1. fd \in Fd /\ Pool!Count(s, fd) = 1
    BY <1>3, <1>4, <1>5, CountDistinct
  <2>2. waiting[fd] \in 0 .. 1
    BY <1>0, <2>1 DEF WorkPart
  <2> QED
    BY <1>3, <2>1, <2>2
<1>8. waiting' \in [Fd -> 0 .. 1] /\ QueuedFds' = QueuedFds \ S
  <2>1. \A fd \in Fd : waiting'[fd] \in 0 .. 1
    BY <1>0, <1>6 DEF WorkPart
  <2>2. waiting' \in [Fd -> 0 .. 1]
    BY <1>2, <2>1
  <2> QED
    BY <1>6, <2>2 DEF QueuedFds
<1>9. workPc[w] = "run" /\ workPc' = [workPc EXCEPT ![w] = "run"] /\ Running(w) = << >>
  <2>1. workPc[w] = "run" /\ workPc' = workPc
    BY <1>0, <1>1 DEF WorkPart, workVars
  <2> QED
    BY <1>0, <1>1, <2>1 DEF WorkPart, Running
<1>10. /\ WorkPart' /\ Running(w)' = s
       /\ \A v \in Worker : v # w => Running(v)' = Running(v)
  <2>1. "run" \in {"run", "zero", "store"} /\ (IF "run" = "run" THEN s ELSE Tail(s)) = s
    OBVIOUS
  <2> QED
    BY <1>0, <1>2, <1>3, <1>4, <1>8, <1>9, <2>1, WorkUpdate
<1>11. IoPart' /\ batch' = batch /\ util' = util
  BY <1>0, <1>1, IoFrame
<1>12. MainPart' /\ Doomed' = Doomed
  BY <1>0, <1>1, MainFrame DEF mapVars, mainVars
<1>13. ListPart' /\ EpollPart' /\ cList' = cList /\ armed' = armed /\ reg' = reg
  BY <1>0, <1>1 DEF ListPart, EpollPart, epollVars
<1>14. \A fd \in S : own[fd] = Queues
  BY <1>0, <1>5, <1>7 DEF Fits, Fit, QueuedFds
<1> DEFINE o == Move(own, S, HandOf(w))
<1>15. Queues \in Owner /\ HandOf(w) \in Owner /\ Queues # HandOf(w)
  BY Owners
<1>16. Fits(o)'
  <2>1. armed' = Shift(armed, Epoll, S, Queues, HandOf(w))
    BY <1>13, Owners DEF Shift
  <2>2. \A t \in IOThread : EventsIn(batch'[t]) = Shift(EventsIn(batch[t]), EventsOf(t), S, Queues, HandOf(w))
    BY <1>11, Owners DEF Shift
  <2>3. \A t \in IOThread :
          ToSet(util'[t].tasks) = Shift(ToSet(util[t].tasks), BufferOf(t), S, Queues, HandOf(w))
    BY <1>11, Owners DEF Shift
  <2>4. QueuedFds' = Shift(QueuedFds, Queues, S, Queues, HandOf(w))
    BY <1>8 DEF Shift
  <2>5. \A v \in Worker : ToSet(Running(v)') = Shift(ToSet(Running(v)), HandOf(v), S, Queues, HandOf(w))
    <3> SUFFICES ASSUME NEW v \in Worker
                 PROVE  ToSet(Running(v)') = Shift(ToSet(Running(v)), HandOf(v), S, Queues, HandOf(w))
      OBVIOUS
    <3>1. CASE v = w
      <4>1. ToSet(Running(w)) = {}
        BY <1>9, EmptyList
      <4> QED
        BY <1>10, <1>15, <3>1, <4>1 DEF Shift
    <3>2. CASE v # w
      BY <1>10, <3>2, Owners DEF Shift
    <3> QED
      BY <3>1, <3>2
  <2>6. ToSet(cList') = Shift(ToSet(cList), CloseList, S, Queues, HandOf(w))
    BY <1>13, Owners DEF Shift
  <2>7. ToSet(Doomed') = Shift(ToSet(Doomed), Closer, S, Queues, HandOf(w))
    BY <1>12, Owners DEF Shift
  <2> QED
    BY <1>0, <1>5, <1>14, <1>15, <2>1, <2>2, <2>3, <2>4, <2>5, <2>6, <2>7, Moving
<1>17. Kept(own, o)
  BY <1>0, <1>14, MoveKept, Owners
<1>18. Known(o)'
  <2>1. connections' = connections
    BY <1>1 DEF mapVars
  <2> QED
    BY <1>0, <1>13, <1>14, <2>1, Owners DEF Known, Move
<1>19. Owned(o)'
  BY <1>10, <1>11, <1>12, <1>13, <1>16, <1>18 DEF Owned, Parts
<1> QED
  BY <1>17, <1>19

\* The stores of enableEvents move nothing.
LEMMA StoreOwned ==
  ASSUME NEW own, Owned(own), NEW w \in Worker, StoreZero(w) \/ StoreEvents(w)
  PROVE  Owned(own)'
<1>0. Fits(own) /\ Parts /\ IoPart /\ WorkPart /\ MainPart /\ ListPart /\ EpollPart
  BY DEF Owned, Parts
<1>1. /\ UNCHANGED ioVars /\ UNCHANGED mapVars /\ UNCHANGED mainVars
      /\ UNCHANGED <<reg, armed, cList>> /\ UNCHANGED <<phase, waiting>>
  BY DEF StoreZero, StoreEvents, Pool!Finish, poolVars
<1>2. hand[w] # << >> /\ Running(w) = Tail(hand[w])
  BY <1>0 DEF StoreZero, StoreEvents, WorkPart, Running
<1>3. /\ WorkPart' /\ Running(w)' = Tail(hand[w])
      /\ \A v \in Worker : v # w => Running(v)' = Running(v)
  <2>1. CASE StoreZero(w)
    <3>1. hand' = [hand EXCEPT ![w] = hand[w]] /\ workPc' = [workPc EXCEPT ![w] = "store"]
      BY <1>0, <2>1 DEF StoreZero, WorkPart, poolVars
    <3>2. waiting' \in [Fd -> 0 .. 1] /\ hand[w] \in Seq(Fd) /\ Distinct(Tail(hand[w]))
      BY <1>0, <1>1, <1>2 DEF WorkPart
    <3>3. "store" \in {"run", "zero", "store"} /\ (IF "store" = "run" THEN hand[w] ELSE Tail(hand[w])) = Tail(hand[w])
      OBVIOUS
    <3> QED
      BY <1>0, <1>2, <3>1, <3>2, <3>3, WorkUpdate
  <2>2. CASE StoreEvents(w)
    <3>1. Pool!Finish(w) /\ workPc' = [workPc EXCEPT ![w] = "run"]
      BY <2>2 DEF StoreEvents
    <3> QED
      BY <1>0, <1>2, <3>1, FinishHand
  <2> QED
    BY <2>1, <2>2
<1>4. \A v \in Worker : Running(v)' = Running(v)
  BY <1>2, <1>3
<1>5. IoPart' /\ batch' = batch /\ util' = util
  BY <1>0, <1>1, IoFrame
<1>6. MainPart' /\ Doomed' = Doomed
  BY <1>0, <1>1, MainFrame DEF mapVars, mainVars
<1>7. ListPart' /\ EpollPart' /\ QueuedFds' = QueuedFds /\ connections' = connections
  BY <1>0, <1>1 DEF ListPart, EpollPart, QueuedFds, mapVars
<1>8. Parts'
  BY <1>3, <1>5, <1>6, <1>7 DEF Parts
<1> QED
  BY <1>1, <1>4, <1>5, <1>6, <1>7, <1>8, Staying

-----------------------------------------------------------------------------
(* The main thread.                                                        *)

\* A step of the main thread that moves nothing.
LEMMA MainStay ==
  ASSUME NEW own, Owned(own), UNCHANGED ioVars,
         UNCHANGED <<reg, armed, cList, waiting, hand, workPc>>,
         MainPart', Doomed' = Doomed, connections \subseteq connections'
  PROVE  Owned(own)'
<1>0. Fits(own) /\ Parts /\ IoPart /\ WorkPart /\ MainPart /\ ListPart /\ EpollPart
  BY DEF Owned, Parts
<1>1. IoPart' /\ batch' = batch /\ util' = util
  BY <1>0, IoFrame
<1>2. WorkPart' /\ QueuedFds' = QueuedFds /\ \A w \in Worker : Running(w)' = Running(w)
  BY <1>0, WorkFrame
<1>3. ListPart' /\ EpollPart'
  BY <1>0 DEF ListPart, EpollPart
<1>4. Parts'
  BY <1>1, <1>2, <1>3 DEF Parts
<1> QED
  BY <1>1, <1>2, <1>4, Staying

\* The steps between iterations and after the loop.
LEMMA LoopOwned ==
  ASSUME NEW own, Owned(own),
         \/ Accept \/ AcceptFails \/ SetExitFlag \/ NextIteration
         \/ PoolExit \/ PoolExited \/ ExitIOEventLoop \/ JoinIOThreads
  PROVE  Owned(own)'
<1>0. MainPart
  BY DEF Owned, Parts
<1>1. /\ UNCHANGED ioVars /\ UNCHANGED epollVars /\ UNCHANGED workVars
      /\ UNCHANGED <<waiting, hand, connections, closing, failures>>
  BY DEF Accept, AcceptFails, SetExitFlag, NextIteration, PoolExit, PoolExited, ExitIOEventLoop,
         JoinIOThreads, Pool!BeginExit, Pool!EndExit, poolVars, mapVars
<1>2. UNCHANGED <<reg, armed, cList, waiting, hand, workPc>>
  BY <1>1 DEF epollVars, workVars
<1>3. \/ mainPc' = mainPc /\ newFd' = newFd /\ phase' = phase
      \/ InIteration /\ mainPc' = "emplace" /\ newFd' \in Fd /\ phase' = phase
      \/ InIteration /\ mainPc' \in {"poll", "left"} /\ phase' = phase
      \/ mainPc = "left" /\ mainPc' = "poolexit" /\ phase' = "stopping"
      \/ mainPc = "poolexit" /\ mainPc' = "ioexit"
      \/ mainPc = "ioexit" /\ mainPc' = "done"
  BY DEF Accept, AcceptFails, SetExitFlag, NextIteration, PoolExit, PoolExited, ExitIOEventLoop,
         JoinIOThreads, Pool!BeginExit, Pool!EndExit, poolVars, LoopTest, InIteration
<1>4. Doomed' = Doomed /\ (mainPc' \in {"close", "uncount"} <=> mainPc \in {"close", "uncount"})
  BY <1>1, <1>3 DEF Doomed, InIteration
<1>5. MainPart'
  <2>1. mainPc' = "emplace" => newFd' \in Fd
    BY <1>0, <1>3 DEF MainPart
  <2>2. phase' = "down" => mainPc' \in {"ioexit", "done", "crashed"}
    BY <1>0, <1>3 DEF MainPart, InIteration
  <2>3. Distinct(Doomed')
    BY <1>0, <1>4 DEF MainPart
  <2>4. Distinct(Doomed)'
    BY <2>3 DEF Distinct
  <2> QED
    BY <1>0, <1>1, <1>4, <2>1, <2>2, <2>4 DEF MainPart
<1> QED
  BY <1>1, <1>2, <1>4, <1>5, MainStay


\* A step of the main thread that moves the connections S.
LEMMA MainMove ==
  ASSUME NEW own, Owned(own), NEW S \in SUBSET Fd, NEW from \in Owner, NEW to \in Owner, from # to,
         {from, to} \subseteq {Nobody, Epoll, CloseList, Closer},
         \A fd \in S : own[fd] = from,
         UNCHANGED ioVars, UNCHANGED <<waiting, hand, workPc>>,
         armed' = Shift(armed, Epoll, S, from, to),
         ToSet(cList') = Shift(ToSet(cList), CloseList, S, from, to),
         ToSet(Doomed') = Shift(ToSet(Doomed), Closer, S, from, to),
         EpollPart', ListPart', MainPart', Known(Move(own, S, to))'
  PROVE  Owned(Move(own, S, to))'
<1>0. Fits(own) /\ Parts /\ IoPart /\ WorkPart
  BY DEF Owned, Parts
<1>1. IoPart' /\ batch' = batch /\ util' = util
  BY <1>0, IoFrame
<1>2. WorkPart' /\ QueuedFds' = QueuedFds /\ \A w \in Worker : Running(w)' = Running(w)
  BY <1>0, WorkFrame
<1>3. \A t \in IOThread : EventsIn(batch'[t]) = Shift(EventsIn(batch[t]), EventsOf(t), S, from, to)
  BY <1>1, Owners DEF Shift
<1>4. \A t \in IOThread : ToSet(util'[t].tasks) = Shift(ToSet(util[t].tasks), BufferOf(t), S, from, to)
  BY <1>1, Owners DEF Shift
<1>5. QueuedFds' = Shift(QueuedFds, Queues, S, from, to)
  BY <1>2, Owners DEF Shift
<1>6. \A w \in Worker : ToSet(Running(w)') = Shift(ToSet(Running(w)), HandOf(w), S, from, to)
  BY <1>2, Owners DEF Shift
<1>7. Fits(Move(own, S, to))'
  BY <1>0, <1>3, <1>4, <1>5, <1>6, Moving
<1> QED
  BY <1>1, <1>2, <1>7 DEF Owned, Parts

\* accept() does not return descriptor 0, or memory never runs out: otherwise a failed
\* init() erases the connection with that descriptor whoever holds it.
NoStdin == Stdin \notin Fd \/ InitFailures = 0

\* A connection that is rejected, or half made, has no owner; one that is made
\* belongs to epoll.
LEMMA ConnectOwned ==
  ASSUME NEW own, Owned(own), HandleConnect, NoStdin, NEW fd, fd = newFd
  PROVE  /\ fd \in Fd
         /\ Rejected \/ InitFails \/ AddFails => Owned(own)'
         /\ Connected => own[fd] = Nobody /\ Owned(Move(own, {fd}, Epoll))'
<1>0. MainPart /\ EpollPart /\ ListPart /\ Known(own) /\ Fits(own) /\ InitFailures \in Nat
  BY ConfigAssumption DEF Owned, Parts
<1>1. /\ mainPc = "emplace" /\ mainPc' \in {"poll", "left"} /\ closing' = closing
      /\ UNCHANGED ioVars /\ UNCHANGED poolVars /\ UNCHANGED workVars
  BY DEF HandleConnect, LoopTest
<1>2. newFd \in Fd /\ closing = << >> /\ Doomed' = Doomed /\ Doomed = << >>
  BY <1>0, <1>1 DEF MainPart, Doomed
<1>3. UNCHANGED <<waiting, hand, workPc, phase>>
  BY <1>1 DEF poolVars, workVars
<1>4. ASSUME connections' \subseteq Fd, failures' \in Nat PROVE MainPart'
  <2>1. Distinct(Doomed') /\ phase' # "down" /\ mainPc' # "emplace"
    BY <1>0, <1>1, <1>2, <1>3 DEF MainPart
  <2>2. Distinct(Doomed)'
    BY <2>1 DEF Distinct
  <2> QED
    BY <1>0, <1>1, <1>2, <1>4, <2>1, <2>2 DEF MainPart
<1>5. ASSUME Rejected \/ AddFails PROVE Owned(own)'
  <2>1. UNCHANGED <<reg, armed, cList, connections, failures>>
    BY <1>5 DEF Rejected, AddFails, epollVars
  <2>2. MainPart'
    BY <1>0, <1>4, <2>1 DEF MainPart
  <2> QED
    BY <1>1, <1>2, <1>3, <2>1, <2>2, MainStay
<1>6. ASSUME InitFails PROVE Owned(own)'
  <2>1. Stdin \notin Fd
    BY <1>0, <1>6 DEF InitFails, NoStdin, MainPart
  <2>2. UNCHANGED <<reg, armed, cList>>
    BY <1>0, <1>6, <2>1 DEF InitFails, Destroy, EpollPart
  <2>3. connections \subseteq connections' /\ connections' \subseteq Fd /\ failures' \in Nat
    BY <1>0, <1>2, <1>6, <2>1 DEF InitFails, MainPart
  <2> QED
    BY <1>1, <1>2, <1>3, <1>4, <2>2, <2>3, MainStay
<1>7. ASSUME Connected PROVE own[fd] = Nobody /\ Owned(Move(own, {fd}, Epoll))'
  <2>1. own[fd] = Nobody /\ fd \in Fd
    BY <1>0, <1>2, <1>7 DEF Connected, Known
  <2>2. /\ connections' = connections \cup {fd} /\ reg' = reg \cup {fd}
        /\ armed' = armed \cup {fd} /\ UNCHANGED <<failures, cList>>
    BY <1>7 DEF Connected
  <2>3. MainPart'
    BY <1>0, <1>2, <1>4, <2>2 DEF MainPart
  <2>4. EpollPart' /\ ListPart'
    BY <1>0, <2>1, <2>2 DEF EpollPart, ListPart
  <2>5. Known(Move(own, {fd}, Epoll))'
    BY <1>0, <2>2 DEF Known, Move
  <2>6. armed' = Shift(armed, Epoll, {fd}, Nobody, Epoll)
    BY <2>2, Owners DEF Shift
  <2>7. ToSet(cList') = Shift(ToSet(cList), CloseList, {fd}, Nobody, Epoll)
    BY <2>2, Owners DEF Shift
  <2>8. ToSet(Doomed') = Shift(ToSet(Doomed), Closer, {fd}, Nobody, Epoll)
    BY <1>2, Owners DEF Shift
  <2>9. \A x \in {fd} : own[x] = Nobody
    BY <2>1
  <2>10. /\ {fd} \in SUBSET Fd /\ Nobody \in Owner /\ Epoll \in Owner /\ Nobody # Epoll
         /\ {Nobody, Epoll} \subseteq {Nobody, Epoll, CloseList, Closer}
    BY <2>1, Owners
  <2>11. Owned(Move(own, {fd}, Epoll))'
    BY <1>1, <1>3, <2>3, <2>4, <2>5, <2>6, <2>7, <2>8, <2>9, <2>10, MainMove
  <2> QED
    BY <2>1, <2>11
<1> QED
  BY <1>2, <1>5, <1>6, <1>7

\* HandleCloseList makes the close list its own.
LEMMA HandleCloseListOwned ==
  ASSUME NEW own, Owned(own), HandleCloseList
  PROVE  \E o : Owned(o)' /\ Kept(own, o)
<1>0. MainPart /\ EpollPart /\ ListPart /\ Known(own) /\ Fits(own)
  BY DEF Owned, Parts
<1>1. /\ mainPc = "poll" /\ mainPc' = "close" /\ closing' = cList /\ cList' = << >> /\ cList # << >>
      /\ UNCHANGED <<reg, armed, newFd, failures>> /\ UNCHANGED mapVars
      /\ UNCHANGED ioVars /\ UNCHANGED poolVars /\ UNCHANGED workVars
  BY DEF HandleCloseList
<1>2. UNCHANGED <<waiting, hand, workPc, phase, connections>>
  BY <1>1 DEF poolVars, workVars, mapVars
<1>3. Doomed = << >> /\ Doomed' = cList
  BY <1>0, <1>1 DEF MainPart, Doomed
<1> PICK S : S = ToSet(cList)
  OBVIOUS
<1>4. S \in SUBSET Fd /\ \A fd \in S : own[fd] = CloseList
  BY <1>0, Elements DEF ListPart, Fits, Fit
<1>5. MainPart'
  <2>1. Distinct(Doomed')
    BY <1>0, <1>3 DEF ListPart
  <2>2. Distinct(Doomed)'
    BY <2>1 DEF Distinct
  <2>3. closing' \in Seq(Fd) /\ phase' # "down"
    BY <1>0, <1>1, <1>2 DEF ListPart, MainPart
  <2> QED
    BY <1>0, <1>1, <1>2, <2>2, <2>3 DEF MainPart
<1>6. ListPart' /\ EpollPart'
  <2>1. cList' \in Seq(Fd) /\ Distinct(cList')
    BY <1>1, EmptyList
  <2>2. Distinct(cList)'
    BY <2>1 DEF Distinct
  <2> QED
    BY <1>0, <1>1, <2>1, <2>2 DEF ListPart, EpollPart
<1>7. Known(Move(own, S, Closer))'
  BY <1>0, <1>1, <1>2, <1>4, Owners DEF Known, Move
<1>8. armed' = Shift(armed, Epoll, S, CloseList, Closer)
  BY <1>1, Owners DEF Shift
<1>9. ToSet(cList') = Shift(ToSet(cList), CloseList, S, CloseList, Closer)
  BY <1>1, EmptyList DEF Shift
<1>10. ToSet(Doomed') = Shift(ToSet(Doomed), Closer, S, CloseList, Closer)
  <2>1. ToSet(Doomed) = {} /\ ToSet(Doomed') = S
    BY <1>3, EmptyList
  <2> QED
    BY <2>1, Owners DEF Shift
<1>11. /\ CloseList \in Owner /\ Closer \in Owner /\ CloseList # Closer
       /\ {CloseList, Closer} \subseteq {Nobody, Epoll, CloseList, Closer}
  BY Owners
<1>12. Owned(Move(own, S, Closer))'
  BY <1>1, <1>2, <1>4, <1>5, <1>6, <1>7, <1>8, <1>9, <1>10, <1>11, MainMove
<1>13. Kept(own, Move(own, S, Closer))
  BY <1>0, <1>4, MoveKept, Owners
<1> QED
  BY <1>12, <1>13

\* CloseConnection leaves the first of its connections to nobody.
LEMMA CloseConnectionOwned ==
  ASSUME NEW own, Owned(own), CloseConnection, NEW fd, fd = Head(closing)
  PROVE  fd \in Fd /\ own[fd] = Closer /\ Owned(Move(own, {fd}, Nobody))'
<1>0. MainPart /\ EpollPart /\ ListPart /\ Known(own) /\ Fits(own) /\ Parts
  BY DEF Owned, Parts
<1>1. /\ mainPc = "close" /\ mainPc' = "uncount" /\ UNCHANGED <<closing, cList, failures, newFd>>
      /\ reg' = reg \ {fd} /\ armed' = armed \ {fd} /\ connections' = connections \ {fd}
      /\ UNCHANGED ioVars /\ UNCHANGED poolVars /\ UNCHANGED workVars
  BY DEF CloseConnection, Destroy
<1>2. UNCHANGED <<waiting, hand, workPc, phase>>
  BY <1>1 DEF poolVars, workVars
<1>3. closing \in Seq(Fd) /\ closing # << >> /\ Doomed = closing /\ Doomed' = Tail(closing) /\ Distinct(closing)
  BY <1>0, <1>1 DEF MainPart, Doomed
<1>4. /\ fd \in Fd /\ Distinct(Tail(closing)) /\ ToSet(closing) = ToSet(Tail(closing)) \cup {fd}
      /\ fd \notin ToSet(Tail(closing))
  BY <1>3, TailList
<1>5. own[fd] = Closer
  BY <1>0, <1>3, <1>4 DEF Fits, Fit
<1>6. fd \notin armed
  BY <1>0, <1>4, <1>5, Owners DEF Fits, Fit
<1>7. MainPart'
  <2>1. Distinct(Doomed)'
    BY <1>3, <1>4 DEF Distinct
  <2> QED
    BY <1>0, <1>1, <1>2, <2>1 DEF MainPart
<1>8. EpollPart' /\ ListPart'
  BY <1>0, <1>1 DEF EpollPart, ListPart
<1>9. Known(Move(own, {fd}, Nobody))'
  BY <1>0, <1>1, Owners DEF Known, Move
<1>10. armed' = Shift(armed, Epoll, {fd}, Closer, Nobody)
  BY <1>1, <1>6, Owners DEF Shift
<1>11. ToSet(cList') = Shift(ToSet(cList), CloseList, {fd}, Closer, Nobody)
  BY <1>1, Owners DEF Shift
<1>12. ToSet(Doomed') = Shift(ToSet(Doomed), Closer, {fd}, Closer, Nobody)
  <2>1. ToSet(Tail(closing)) = ToSet(closing) \ {fd}
    BY <1>4
  <2> QED
    BY <1>3, <2>1 DEF Shift
<1>13. \A x \in {fd} : own[x] = Closer
  BY <1>5
<1>14. /\ {fd} \in SUBSET Fd /\ Nobody \in Owner /\ Closer \in Owner /\ Closer # Nobody
       /\ {Closer, Nobody} \subseteq {Nobody, Epoll, CloseList, Closer}
  BY <1>4, Owners
<1>15. Owned(Move(own, {fd}, Nobody))'
  BY <1>1, <1>2, <1>7, <1>8, <1>9, <1>10, <1>11, <1>12, <1>13, <1>14, MainMove
<1> QED
  BY <1>4, <1>5, <1>15

\* Counting down moves no connection.
LEMMA CountDownOwned ==
  ASSUME NEW own, Owned(own), CountDown
  PROVE  Owned(own)'
<1>0. MainPart
  BY DEF Owned, Parts
<1>1. /\ mainPc = "uncount" /\ closing' = Tail(closing)
      /\ mainPc' = (IF Tail(closing) = << >> THEN "polled" ELSE "close")
      /\ UNCHANGED <<connections, newFd, failures>>
      /\ UNCHANGED ioVars /\ UNCHANGED epollVars /\ UNCHANGED poolVars /\ UNCHANGED workVars
  BY DEF CountDown
<1>2. UNCHANGED <<reg, armed, cList, waiting, hand, workPc, phase>>
  BY <1>1 DEF epollVars, poolVars, workVars
<1>3. closing \in Seq(Fd) /\ closing # << >> /\ Doomed = Tail(closing) /\ Doomed' = Tail(closing)
  BY <1>0, <1>1 DEF MainPart, Doomed
<1>4. Tail(closing) \in Seq(Fd)
  BY <1>3, TailList
<1>5. MainPart'
  <2>1. Distinct(Doomed')
    BY <1>0, <1>3 DEF MainPart
  <2>2. Distinct(Doomed)'
    BY <2>1 DEF Distinct
  <2>3. phase' # "down" /\ (mainPc' \in {"close", "uncount"} <=> closing' # << >>) /\ mainPc' # "emplace"
    BY <1>0, <1>1, <1>2 DEF MainPart
  <2> QED
    BY <1>0, <1>1, <1>2, <1>4, <2>2, <2>3 DEF MainPart
<1> QED
  BY <1>1, <1>2, <1>3, <1>5, MainStay

-----------------------------------------------------------------------------
(* The I/O threads.                                                        *)

\* I/O thread t moves the connections S.
LEMMA IoMove ==
  ASSUME NEW own, Owned(own), NEW t \in IOThread,
         NEW S \in SUBSET Fd, NEW from \in Owner, NEW to \in Owner, from # to,
         {from, to} \subseteq {Nobody, Epoll, CloseList, EventsOf(t), BufferOf(t)},
         \A fd \in S : own[fd] = from,
         UNCHANGED poolVars, UNCHANGED workVars, UNCHANGED mapVars, UNCHANGED mainVars,
         IoPart', ListPart', EpollPart',
         \A s \in IOThread : s # t => batch'[s] = batch[s] /\ util'[s] = util[s],
         EventsIn(batch'[t]) = Shift(EventsIn(batch[t]), EventsOf(t), S, from, to),
         ToSet(util'[t].tasks) = Shift(ToSet(util[t].tasks), BufferOf(t), S, from, to),
         armed' = Shift(armed, Epoll, S, from, to),
         ToSet(cList') = Shift(ToSet(cList), CloseList, S, from, to),
         Known(Move(own, S, to))'
  PROVE  Owned(Move(own, S, to))'
<1>0. Fits(own) /\ Parts /\ WorkPart /\ MainPart
  BY DEF Owned, Parts
<1>1. MainPart' /\ Doomed' = Doomed
  BY <1>0, MainFrame DEF mapVars, mainVars, poolVars
<1>2. WorkPart' /\ QueuedFds' = QueuedFds /\ \A w \in Worker : Running(w)' = Running(w)
  BY <1>0, WorkFrame DEF poolVars, workVars
<1>3. \A s \in IOThread : EventsIn(batch'[s]) = Shift(EventsIn(batch[s]), EventsOf(s), S, from, to)
  <2> SUFFICES ASSUME NEW s \in IOThread
               PROVE  EventsIn(batch'[s]) = Shift(EventsIn(batch[s]), EventsOf(s), S, from, to)
    OBVIOUS
  <2>1. CASE s = t
    BY <2>1
  <2>2. CASE s # t
    BY <2>2, Owners DEF Shift
  <2> QED
    BY <2>1, <2>2
<1>4. \A s \in IOThread : ToSet(util'[s].tasks) = Shift(ToSet(util[s].tasks), BufferOf(s), S, from, to)
  <2> SUFFICES ASSUME NEW s \in IOThread
               PROVE  ToSet(util'[s].tasks) = Shift(ToSet(util[s].tasks), BufferOf(s), S, from, to)
    OBVIOUS
  <2>1. CASE s = t
    BY <2>1
  <2>2. CASE s # t
    BY <2>2, Owners DEF Shift
  <2> QED
    BY <2>1, <2>2
<1>5. QueuedFds' = Shift(QueuedFds, Queues, S, from, to)
  BY <1>2, Owners DEF Shift
<1>6. \A w \in Worker : ToSet(Running(w)') = Shift(ToSet(Running(w)), HandOf(w), S, from, to)
  BY <1>2, Owners DEF Shift
<1>7. ToSet(Doomed') = Shift(ToSet(Doomed), Closer, S, from, to)
  BY <1>1, Owners DEF Shift
<1>8. Fits(Move(own, S, to))'
  BY <1>0, <1>3, <1>4, <1>5, <1>6, <1>7, Moving
<1> QED
  BY <1>1, <1>2, <1>8 DEF Owned, Parts

\* epoll_wait moves connections from epoll to the events of t.
LEMMA EpollWaitOwned ==
  ASSUME NEW own, Owned(own), NEW t \in IOThread, EpollWait(t)
  PROVE  \E o : Owned(o)' /\ Kept(own, o)
<1>0. Fits(own) /\ Known(own) /\ Parts /\ IoPart /\ ListPart /\ EpollPart
  BY DEF Owned, Parts
<1>1. /\ ioPc[t] = "wait" /\ ioPc' = [ioPc EXCEPT ![t] = "events"]
      /\ UNCHANGED poolVars /\ UNCHANGED workVars /\ UNCHANGED mapVars /\ UNCHANGED mainVars
      /\ UNCHANGED <<util, reg, cList>>
  BY DEF EpollWait
<1>2. PICK fds \in SUBSET {fd \in armed : info[fd] = t}, exit \in {FALSE, exitEvent} :
      \E kind \in [fds -> {"HUP", "RD", "WR"}] :
          /\ Cardinality(fds) + (IF exit THEN 1 ELSE 0) <= MAX_EVENT
          /\ batch' = [batch EXCEPT ![t] = {<<fd, kind[fd]>> : fd \in fds}
                                              \cup (IF exit THEN {<<-1, "EXIT">>} ELSE {})]
          /\ armed' = armed \ fds
  BY DEF EpollWait
<1>3. PICK kind \in [fds -> {"HUP", "RD", "WR"}] :
          /\ Cardinality(fds) + (IF exit THEN 1 ELSE 0) <= MAX_EVENT
          /\ batch' = [batch EXCEPT ![t] = {<<fd, kind[fd]>> : fd \in fds}
                                              \cup (IF exit THEN {<<-1, "EXIT">>} ELSE {})]
          /\ armed' = armed \ fds
  BY <1>2
<1> PICK b : b = {<<fd, kind[fd]>> : fd \in fds} \cup (IF exit THEN {ExitMsg} ELSE {})
  OBVIOUS
<1>4. fds \subseteq armed /\ fds \in SUBSET Fd
  BY <1>0 DEF EpollPart
<1>5. \A fd \in fds : kind[fd] \in Kinds
  BY DEF Kinds
<1>6. \A e : e \in b <=> (\E fd \in fds : e = <<fd, kind[fd]>>) \/ (exit /\ e = ExitMsg)
  OBVIOUS
<1>7. \A fd, k : k \in Kinds => <<fd, k>> # ExitMsg
  BY DEF ExitMsg, Kinds
<1>8. b \in SUBSET Msgs
  BY <1>4, <1>5, <1>6 DEF Msgs
<1>9. EventsIn(b) = fds
  <2>1. ASSUME NEW fd \in fds PROVE fd \in EventsIn(b)
    BY <1>4, <1>5, <1>6 DEF EventsIn
  <2>2. ASSUME NEW fd \in EventsIn(b) PROVE fd \in fds
    <3>1. PICK k \in Kinds : <<fd, k>> \in b
      BY DEF EventsIn
    <3>2. PICK x \in fds : <<fd, k>> = <<x, kind[x]>>
      BY <1>6, <1>7, <3>1
    <3> QED
      BY <3>2
  <2> QED
    BY <2>1, <2>2
<1>10. OneEvent(b)
  <2> SUFFICES ASSUME NEW fd \in Fd, NEW k \in Kinds, NEW l \in Kinds, <<fd, k>> \in b, <<fd, l>> \in b
               PROVE  k = l
    BY DEF OneEvent
  <2>1. PICK x \in fds : <<fd, k>> = <<x, kind[x]>>
    BY <1>6, <1>7
  <2>2. PICK y \in fds : <<fd, l>> = <<y, kind[y]>>
    BY <1>6, <1>7
  <2> QED
    BY <2>1, <2>2
<1>11. ASSUME MAX_EVENT = 1 PROVE \A e, f \in b : e = f
  <2>1. IsFiniteSet(fds)
    BY <1>4, Sizes, FS_Subset
  <2>2. Cardinality(fds) \in Nat
    BY <2>1, FS_CardinalityType
  <2>3. CASE exit
    <3>1. Cardinality(fds) = 0
      BY <1>3, <1>11, <2>2, <2>3
    <3>2. fds = {}
      BY <2>1, <3>1, FS_EmptySet
    <3> QED
      BY <1>6, <3>2
  <2>4. CASE ~exit
    <3>1. Cardinality(fds) = 0 \/ Cardinality(fds) = 1
      BY <1>3, <1>11, <2>2, <2>4
    <3>2. fds = {} \/ \E x : fds = {x}
      BY <2>1, <3>1, FS_EmptySet, FS_Singleton
    <3> QED
      BY <1>6, <2>4, <3>2
  <2> QED
    BY <2>3, <2>4
<1>12. /\ util[t].flag /\ util[t].tasks = << >> /\ batch[t] = {} /\ Distinct(util[t].tasks)
       /\ util[t] \in Utils
  BY <1>0, <1>1 DEF IoPart, Shape
<1>13. Shape("events", b, util[t])
  <2>1. Len(util[t].tasks) < BATCH_SUBMIT /\ Len(util[t].tasks) <= BATCH_SUBMIT
    BY <1>12, Sizes
  <2> QED
    BY <1>10, <1>11, <1>12, <2>1 DEF Shape
<1>14. /\ IoPart' /\ batch'[t] = b /\ util'[t] = util[t]
       /\ \A s \in IOThread : s # t => batch'[s] = batch[s] /\ util'[s] = util[s]
  <2>1. batch' = [batch EXCEPT ![t] = b]
    BY <1>3 DEF ExitMsg
  <2>2. util' = [util EXCEPT ![t] = util[t]]
    BY <1>0, <1>1 DEF IoPart
  <2>3. "events" \in IoPcs
    BY DEF IoPcs
  <2>4. IoBecomes(t, "events", b, util[t])
    BY <1>1, <2>1, <2>2 DEF IoBecomes
  <2> QED
    BY <1>0, <1>8, <1>12, <1>13, <2>3, <2>4, IoUpdate
<1>15. \A fd \in fds : own[fd] = Epoll
  BY <1>0, <1>4 DEF Fits, Fit
<1>16. EventsIn(batch'[t]) = Shift(EventsIn(batch[t]), EventsOf(t), fds, Epoll, EventsOf(t))
  <2>1. EventsIn(batch[t]) = {}
    BY <1>12 DEF EventsIn
  <2> QED
    BY <1>9, <1>14, <2>1, Owners DEF Shift
<1>17. ToSet(util'[t].tasks) = Shift(ToSet(util[t].tasks), BufferOf(t), fds, Epoll, EventsOf(t))
  BY <1>14, Owners DEF Shift
<1>18. armed' = Shift(armed, Epoll, fds, Epoll, EventsOf(t))
  BY <1>3 DEF Shift
<1>19. ToSet(cList') = Shift(ToSet(cList), CloseList, fds, Epoll, EventsOf(t))
  BY <1>1, Owners DEF Shift
<1>20. ListPart' /\ EpollPart'
  BY <1>0, <1>1, <1>3 DEF ListPart, EpollPart
<1>21. Known(Move(own, fds, EventsOf(t)))'
  <2>1. connections' = connections
    BY <1>1 DEF mapVars
  <2> QED
    BY <1>0, <1>1, <1>15, <2>1, Owners DEF Known, Move
<1>22. /\ Epoll \in Owner /\ EventsOf(t) \in Owner /\ Epoll # EventsOf(t)
       /\ {Epoll, EventsOf(t)} \subseteq {Nobody, Epoll, CloseList, EventsOf(t), BufferOf(t)}
  BY Owners
<1>23. Owned(Move(own, fds, EventsOf(t)))'
  BY <1>1, <1>4, <1>14, <1>15, <1>16, <1>17, <1>18, <1>19, <1>20, <1>21, <1>22, IoMove
<1>24. Kept(own, Move(own, fds, EventsOf(t)))
  BY <1>0, <1>15, MoveKept, Owners
<1> QED
  BY <1>23, <1>24

\* The event an I/O thread looks at is that of one connection.
LEMMA EventGone ==
  ASSUME Parts, NEW t \in IOThread, NEW e \in batch[t], e[2] \in Kinds, NEW b, b = batch[t] \ {e}
  PROVE  /\ e[1] \in Fd /\ e[1] \in EventsIn(batch[t]) /\ b \in SUBSET Msgs
         /\ EventsIn(b) = EventsIn(batch[t]) \ {e[1]}
         /\ util[t].flag /\ OneEvent(b)
         /\ util[t] \in Utils /\ ioPc[t] \in IoPcs
         /\ Shape(ioPc[t], batch[t], util[t])
<1>1. /\ batch[t] \in SUBSET Msgs /\ util[t] \in Utils /\ ioPc[t] \in IoPcs
      /\ Shape(ioPc[t], batch[t], util[t])
  BY DEF Parts, IoPart
<1>2. e \in Fd \X Kinds
  <2>1. e # ExitMsg
    BY DEF ExitMsg, Kinds
  <2> QED
    BY <1>1, <2>1 DEF Msgs
<1>3. PICK fd \in Fd, k \in Kinds : e = <<fd, k>>
  BY <1>2
<1>4. e[1] = fd
  BY <1>3
<1>5. OneEvent(batch[t]) /\ OneEvent(b)
  BY <1>1 DEF Shape, OneEvent
<1>6. EventsIn(b) = EventsIn(batch[t]) \ {fd}
  <2>1. ASSUME NEW x \in Fd, NEW l \in Kinds, <<x, l>> \in batch[t], x # fd PROVE <<x, l>> \in b
    BY <1>3, <2>1
  <2>2. ASSUME NEW l \in Kinds, <<fd, l>> \in b PROVE FALSE
    <3>1. l = k
      BY <1>3, <1>5, <2>2 DEF OneEvent
    <3> QED
      BY <1>3, <2>2, <3>1
  <2> QED
    BY <2>1, <2>2 DEF EventsIn
<1>7. fd \in EventsIn(batch[t])
  BY <1>3 DEF EventsIn
<1>8. util[t].flag
  <2>1. e # ExitMsg
    BY DEF ExitMsg, Kinds
  <2> QED
    BY <1>1, <2>1 DEF Shape
<1> QED
  BY <1>1, <1>4, <1>5, <1>6, <1>7, <1>8

\* The handler of event e leaves the buffer alone and its connection goes to `to'.
LEMMA HandledMove ==
  ASSUME NEW own, Owned(own), NEW t \in IOThread, NEW e \in batch[t], e[2] \in Kinds,
         NEW fd, fd = e[1], NEW to \in {Nobody, Epoll, CloseList},
         UNCHANGED poolVars, UNCHANGED workVars, UNCHANGED mapVars, UNCHANGED mainVars,
         UNCHANGED <<util, ioPc>>, batch' = [batch EXCEPT ![t] = @ \ {e}],
         ListPart', EpollPart',
         armed' = Shift(armed, Epoll, {fd}, EventsOf(t), to),
         ToSet(cList') = Shift(ToSet(cList), CloseList, {fd}, EventsOf(t), to),
         Known(Move(own, {fd}, to))'
  PROVE  Owned(Move(own, {fd}, to))'
<1>0. Fits(own) /\ Parts /\ IoPart
  BY DEF Owned, Parts
<1> PICK b : b = batch[t] \ {e}
  OBVIOUS
<1>1. /\ fd \in Fd /\ fd \in EventsIn(batch[t]) /\ b \in SUBSET Msgs
      /\ EventsIn(b) = EventsIn(batch[t]) \ {fd}
      /\ OneEvent(b)
      /\ util[t] \in Utils /\ ioPc[t] \in IoPcs
      /\ Shape(ioPc[t], batch[t], util[t])
  BY <1>0, EventGone
<1>2. Shape(ioPc[t], b, util[t])
  BY <1>1 DEF Shape
<1>3. IoBecomes(t, ioPc[t], b, util[t])
  BY <1>0 DEF IoBecomes, IoPart
<1>4. /\ IoPart' /\ batch'[t] = b /\ util'[t] = util[t]
      /\ \A s \in IOThread : s # t => batch'[s] = batch[s] /\ util'[s] = util[s]
  BY <1>0, <1>1, <1>2, <1>3, IoUpdate
<1>5. own[fd] = EventsOf(t)
  BY <1>0, <1>1 DEF Fits, Fit
<1>6. EventsIn(batch'[t]) = Shift(EventsIn(batch[t]), EventsOf(t), {fd}, EventsOf(t), to)
  BY <1>1, <1>4 DEF Shift
<1>7. ToSet(util'[t].tasks) = Shift(ToSet(util[t].tasks), BufferOf(t), {fd}, EventsOf(t), to)
  BY <1>4, Owners DEF Shift
<1>8. /\ EventsOf(t) \in Owner /\ to \in Owner /\ EventsOf(t) # to
      /\ {EventsOf(t), to} \subseteq {Nobody, Epoll, CloseList, EventsOf(t), BufferOf(t)}
  BY Owners
<1>9. {fd} \in SUBSET Fd /\ \A x \in {fd} : own[x] = EventsOf(t)
  BY <1>1, <1>5
<1> QED
  BY <1>4, <1>6, <1>7, <1>8, <1>9, IoMove

\* renableEvents on connections fds that are out of epoll: those for which it fails
\* join the close list, the others are armed.
LEMMA Renabled ==
  ASSUME ListPart, EpollPart, NEW fds \in SUBSET Fd, RenableAll(fds),
         fds \cap armed = {}, fds \cap ToSet(cList) = {}
  PROVE  \E failed \in SUBSET fds :
            /\ armed' = armed \cup (fds \ failed)
            /\ reg' = reg \ failed
            /\ fds \ failed \subseteq reg
            /\ ToSet(cList') = ToSet(cList) \cup failed
            /\ ListPart' /\ EpollPart'
            /\ fds = {} => cList' = cList
<1>1. PICK ok \in [fds -> BOOLEAN] :
        /\ \A fd \in fds : ok[fd] \in CtlResults(fd)
        /\ armed' = (armed \cup fds) \ {fd \in fds : ~ok[fd]}
        /\ reg' = reg \ {fd \in fds : ~ok[fd]}
        /\ cList' = cList \o SetToSeq({fd \in fds : ~ok[fd]})
  BY DEF RenableAll
<1> PICK failed : failed = {fd \in fds : ~ok[fd]}
  OBVIOUS
<1>2. failed \in SUBSET fds /\ failed \in SUBSET Fd
  OBVIOUS
<1>3. armed' = armed \cup (fds \ failed) /\ reg' = reg \ failed /\ cList' = cList \o SetToSeq(failed)
  BY <1>1
<1>4. fds \ failed \subseteq reg
  BY <1>1 DEF CtlResults
<1>5. SetToSeq(failed) \in Seq(Fd) /\ ToSet(SetToSeq(failed)) = failed /\ Distinct(SetToSeq(failed))
  BY <1>2, SetList
<1>6. ToSet(cList) \cap failed = {}
  BY <1>2
<1>7. cList' \in Seq(Fd) /\ ToSet(cList') = ToSet(cList) \cup failed /\ Distinct(cList')
  BY <1>3, <1>5, <1>6, JoinList DEF ListPart
<1>8. Distinct(cList)'
  BY <1>7 DEF Distinct
<1>9. ListPart'
  BY <1>7, <1>8 DEF ListPart
<1>10. EpollPart'
  BY <1>2, <1>3, <1>4 DEF EpollPart
<1>11. ASSUME fds = {} PROVE cList' = cList
  <2>1. failed = {}
    BY <1>2, <1>11
  <2>2. SetToSeq(failed) = << >>
    BY <1>5, <2>1, Elements
  <2> QED
    BY <1>3, <2>2, ConcatEmptySeq DEF ListPart
<1> QED
  BY <1>2, <1>3, <1>4, <1>7, <1>9, <1>10, <1>11

\* The connection of a handled event.
LEMMA EventOwner ==
  ASSUME NEW own, Owned(own), NEW t \in IOThread, NEW e \in batch[t], e[2] \in Kinds
  PROVE  /\ e[1] \in Fd /\ own[e[1]] = EventsOf(t) /\ e[1] \in reg /\ e[1] \in connections
         /\ e[1] \notin armed /\ e[1] \notin ToSet(cList)
         /\ \A s \in IOThread : e[1] \notin ToSet(util[s].tasks)
<1>1. Fits(own) /\ Known(own) /\ Parts
  BY DEF Owned
<1>2. e[1] \in Fd /\ e[1] \in EventsIn(batch[t])
  BY <1>1, EventGone
<1>3. own[e[1]] = EventsOf(t)
  BY <1>1, <1>2 DEF Fits, Fit
<1>4. e[1] \in reg /\ e[1] \in connections
  BY <1>1, <1>2, <1>3, Owners DEF Known
<1>5. e[1] \notin armed /\ e[1] \notin ToSet(cList)
  BY <1>1, <1>2, <1>3, Owners DEF Fits, Fit
<1>6. \A s \in IOThread : e[1] \notin ToSet(util[s].tasks)
  BY <1>1, <1>2, <1>3, Owners DEF Fits, Fit
<1> QED
  BY <1>2, <1>3, <1>4, <1>5, <1>6

\* What every handler leaves alone.
Handling(t, e) ==
    /\ batch' = [batch EXCEPT ![t] = @ \ {e}]
    /\ UNCHANGED poolVars /\ UNCHANGED workVars /\ UNCHANGED mapVars /\ UNCHANGED mainVars

\* A handler that fails moves its connection to the close list.
LEMMA CloseEventOwned ==
  ASSUME NEW own, Owned(own), NEW t \in IOThread, NEW e \in batch[t], e[2] \in Kinds,
         Handling(t, e), NEW fd, fd = e[1], ActiveClose(fd), UNCHANGED <<util, ioPc>>
  PROVE  \E o : Owned(o)' /\ Kept(own, o)
<1>0. Fits(own)
  BY DEF Owned
<1>1. fd \in Fd /\ own[fd] = EventsOf(t) /\ connections' = connections
  BY EventOwner DEF Handling, mapVars
<1>2. EventsOf(t) \notin {Nobody, Epoll, CloseList}
  BY Owners
<1>3. /\ armed' = Shift(armed, Epoll, {fd}, EventsOf(t), CloseList)
      /\ ToSet(cList') = Shift(ToSet(cList), CloseList, {fd}, EventsOf(t), CloseList)
      /\ ListPart' /\ EpollPart' /\ Known(Move(own, {fd}, CloseList))'
  BY <1>1, <1>2, CloseMove
<1>4. Owned(Move(own, {fd}, CloseList))'
  BY <1>3, HandledMove DEF Handling
<1>5. Kept(own, Move(own, {fd}, CloseList))
  BY <1>0, <1>1, MoveKept, Owners
<1> QED
  BY <1>4, <1>5

\* A handler that waits for more bytes gives its connection back to epoll, or to the
\* close list when that fails.
LEMMA RearmEventOwned ==
  ASSUME NEW own, Owned(own), NEW t \in IOThread, NEW e \in batch[t], e[2] \in Kinds,
         Handling(t, e), NEW fd, fd = e[1], RenableAll({fd}), UNCHANGED <<util, ioPc>>
  PROVE  \E o : Owned(o)' /\ Kept(own, o)
<1>0. Fits(own) /\ Known(own) /\ ListPart /\ EpollPart
  BY DEF Owned, Parts
<1>1. /\ fd \in Fd /\ own[fd] = EventsOf(t) /\ connections' = connections
      /\ fd \notin armed /\ fd \notin ToSet(cList) /\ fd \in connections
  BY EventOwner DEF Handling, mapVars
<1>2. PICK failed \in SUBSET {fd} :
            /\ armed' = armed \cup ({fd} \ failed)
            /\ reg' = reg \ failed
            /\ {fd} \ failed \subseteq reg
            /\ ToSet(cList') = ToSet(cList) \cup failed
            /\ ListPart' /\ EpollPart'
  <2>1. {fd} \in SUBSET Fd /\ {fd} \cap armed = {} /\ {fd} \cap ToSet(cList) = {}
    BY <1>1
  <2> QED
    BY <1>0, <2>1, Renabled
<1>3. CASE failed = {}
  <2>1. armed' = Shift(armed, Epoll, {fd}, EventsOf(t), Epoll)
    BY <1>2, <1>3, Owners DEF Shift
  <2>2. ToSet(cList') = Shift(ToSet(cList), CloseList, {fd}, EventsOf(t), Epoll)
    BY <1>2, <1>3, Owners DEF Shift
  <2>3. Known(Move(own, {fd}, Epoll))'
    BY <1>0, <1>1, <1>2, <1>3 DEF Known, Move
  <2>4. Owned(Move(own, {fd}, Epoll))'
    BY <1>2, <2>1, <2>2, <2>3, HandledMove DEF Handling
  <2>5. Kept(own, Move(own, {fd}, Epoll))
    BY <1>0, <1>1, MoveKept, Owners
  <2> QED
    BY <2>4, <2>5
<1>4. CASE failed = {fd}
  <2>1. armed' = Shift(armed, Epoll, {fd}, EventsOf(t), CloseList)
    BY <1>2, <1>4, Owners DEF Shift
  <2>2. ToSet(cList') = Shift(ToSet(cList), CloseList, {fd}, EventsOf(t), CloseList)
    BY <1>2, <1>4, Owners DEF Shift
  <2>3. Known(Move(own, {fd}, CloseList))'
    BY <1>0, <1>1, <1>2, <1>4 DEF Known, Move
  <2>4. Owned(Move(own, {fd}, CloseList))'
    BY <1>2, <2>1, <2>2, <2>3, HandledMove DEF Handling
  <2>5. Kept(own, Move(own, {fd}, CloseList))
    BY <1>0, <1>1, MoveKept, Owners
  <2> QED
    BY <2>4, <2>5
<1> QED
  BY <1>3, <1>4

\* A handler without its callback loses the connection when it cannot change the
\* interest, which takes an epoll_ctl that fails and one callback without the other.
Lossless == ~CtlMayFail \/ Callbacks \in {{}, {"rdp", "wtp"}}

\* The handler of a missing callback moves its connection to the close list, or
\* loses it.
LEMMA SwapInterestOwned ==
  ASSUME NEW own, Owned(own), NEW t \in IOThread, NEW e \in batch[t], e[2] \in Kinds,
         Handling(t, e), NEW fd, fd = e[1], NEW m, SwapInterest(t, fd, m)
  PROVE  \E o : Owned(o)' /\ (~CtlMayFail => Kept(own, o))
<1>0. Fits(own) /\ Known(own) /\ ListPart /\ EpollPart
  BY DEF Owned, Parts
<1>1. UNCHANGED <<util, ioPc>>
  BY DEF SwapInterest
<1>2. /\ fd \in Fd /\ own[fd] = EventsOf(t) /\ connections' = connections
      /\ fd \notin armed /\ fd \notin ToSet(cList) /\ fd \in reg
  BY EventOwner DEF Handling, mapVars
<1>3. CASE ActiveClose(fd)
  BY <1>1, <1>3, CloseEventOwned
<1>4. CASE UNCHANGED <<reg, armed, cList>> /\ FALSE \in CtlResults(fd)
  <2>1. CtlMayFail
    BY <1>2, <1>4 DEF CtlResults
  <2>2. armed' = Shift(armed, Epoll, {fd}, EventsOf(t), Nobody)
    BY <1>4, Owners DEF Shift
  <2>3. ToSet(cList') = Shift(ToSet(cList), CloseList, {fd}, EventsOf(t), Nobody)
    BY <1>4, Owners DEF Shift
  <2>4. Known(Move(own, {fd}, Nobody))'
    BY <1>0, <1>2, <1>4 DEF Known, Move
  <2>5. ListPart' /\ EpollPart'
    BY <1>0, <1>4 DEF ListPart, EpollPart
  <2>6. Owned(Move(own, {fd}, Nobody))'
    BY <1>1, <2>2, <2>3, <2>4, <2>5, HandledMove DEF Handling
  <2> QED
    BY <2>1, <2>6
<1> QED
  <2>1. PICK ok \in CtlResults(fd) :
          IF ok THEN ActiveClose(fd) ELSE UNCHANGED <<reg, armed, cList>>
    BY DEF SwapInterest
  <2>2. ok \in BOOLEAN
    BY DEF CtlResults
  <2> QED
    BY <1>3, <1>4, <2>1, <2>2

\* append puts the connection into the buffer of t.
LEMMA AppendTaskOwned ==
  ASSUME NEW own, Owned(own), NEW t \in IOThread, NEW e \in batch[t], e[2] \in Kinds,
         ioPc[t] = "events", Handling(t, e), NEW fd, fd = e[1], AppendTask(t, fd)
  PROVE  \E o : Owned(o)' /\ Kept(own, o)
<1>0. Fits(own) /\ Known(own) /\ Parts /\ IoPart /\ ListPart /\ EpollPart
  BY DEF Owned, Parts
<1> PICK b : b = batch[t] \ {e}
  OBVIOUS
<1>1. /\ b \in SUBSET Msgs /\ EventsIn(b) = EventsIn(batch[t]) \ {fd} /\ OneEvent(b)
      /\ util[t] \in Utils /\ util[t].flag /\ Shape("events", batch[t], util[t])
  BY <1>0, EventGone
<1>2. /\ fd \in Fd /\ own[fd] = EventsOf(t) /\ connections' = connections
      /\ fd \notin ToSet(util[t].tasks)
  BY EventOwner DEF Handling, mapVars
<1>3. armed' = armed /\ reg' = reg /\ cList' = cList /\ ListPart' /\ EpollPart'
  <2>1. RenableAll({})
    BY <1>1 DEF AppendTask
  <2> PICK none : none = {}
    OBVIOUS
  <2>2. none \in SUBSET Fd /\ RenableAll(none) /\ none \cap armed = {} /\ none \cap ToSet(cList) = {}
    BY <2>1
  <2>3. PICK failed \in SUBSET none :
            /\ armed' = armed \cup (none \ failed)
            /\ reg' = reg \ failed
            /\ ListPart' /\ EpollPart'
            /\ failed = {} => cList' = cList
    BY <1>0, <2>2, Renabled
  <2>4. failed = {}
    BY <2>3
  <2> QED
    BY <2>3, <2>4
<1> PICK u : u = [util[t] EXCEPT !.tasks = Append(@, fd)]
  OBVIOUS
<1> PICK pc : pc = IF Len(util[t].tasks) + 1 = BATCH_SUBMIT THEN "commit" ELSE "events"
  OBVIOUS
<1>4. util[t].tasks \in Seq(Fd) /\ Len(util[t].tasks) \in Nat /\ Distinct(util[t].tasks)
  BY <1>0, <1>1, ListTypes DEF Shape
<1>5. /\ u.tasks \in Seq(Fd) /\ Len(u.tasks) = Len(util[t].tasks) + 1
      /\ ToSet(u.tasks) = ToSet(util[t].tasks) \cup {fd} /\ Distinct(u.tasks)
      /\ u.flag /\ u \in Utils
  <2>1. u.tasks = Append(util[t].tasks, fd) /\ u.flag = util[t].flag /\ u.back = util[t].back
    BY <1>1 DEF Utils
  <2>2. /\ u.tasks \in Seq(Fd) /\ Len(u.tasks) = Len(util[t].tasks) + 1
        /\ ToSet(u.tasks) = ToSet(util[t].tasks) \cup {fd} /\ Distinct(u.tasks)
    BY <1>2, <1>4, <2>1, AppendList
  <2>3. u \in Utils
    BY <1>1, <2>1, <2>2 DEF Utils
  <2> QED
    BY <1>1, <2>1, <2>2, <2>3
<1>6. Shape(pc, b, u)
  <2>1. Len(util[t].tasks) < BATCH_SUBMIT /\ BATCH_SUBMIT \in Nat
    BY <1>1, Sizes DEF Shape
  <2>2. Len(u.tasks) <= BATCH_SUBMIT /\ (pc = "events" => Len(u.tasks) < BATCH_SUBMIT)
    BY <1>4, <1>5, <2>1
  <2>3. u.tasks # << >>
    BY <1>4, <1>5, Elements
  <2>4. ASSUME MAX_EVENT = 1 PROVE b = {} /\ Len(u.tasks) = 1
    <3>1. (\A x, y \in batch[t] : x = y) /\ util[t].tasks = << >>
      BY <1>1, <2>4 DEF Shape
    <3>2. b = {}
      BY <3>1
    <3>3. Len(util[t].tasks) = 0
      BY <3>1
    <3> QED
      BY <1>5, <3>2, <3>3
  <2>5. pc \in {"commit", "events"}
    OBVIOUS
  <2> QED
    BY <1>1, <1>5, <2>2, <2>3, <2>4, <2>5 DEF Shape
<1>7. IoBecomes(t, pc, b, u)
  <2>1. util' = [util EXCEPT ![t] = u]
    BY <1>0 DEF AppendTask, IoPart, Utils
  <2> QED
    BY <2>1 DEF IoBecomes, AppendTask, Handling
<1>8. /\ IoPart' /\ batch'[t] = b /\ util'[t] = u
      /\ \A s \in IOThread : s # t => batch'[s] = batch[s] /\ util'[s] = util[s]
  <2>1. pc \in IoPcs
    BY DEF IoPcs
  <2> QED
    BY <1>0, <1>1, <1>5, <1>6, <1>7, <2>1, IoUpdate
<1>9. EventsIn(batch'[t]) = Shift(EventsIn(batch[t]), EventsOf(t), {fd}, EventsOf(t), BufferOf(t))
  BY <1>1, <1>8 DEF Shift
<1>10. ToSet(util'[t].tasks) = Shift(ToSet(util[t].tasks), BufferOf(t), {fd}, EventsOf(t), BufferOf(t))
  BY <1>5, <1>8, Owners DEF Shift
<1>11. armed' = Shift(armed, Epoll, {fd}, EventsOf(t), BufferOf(t))
  BY <1>3, Owners DEF Shift
<1>12. ToSet(cList') = Shift(ToSet(cList), CloseList, {fd}, EventsOf(t), BufferOf(t))
  BY <1>3, Owners DEF Shift
<1>13. Known(Move(own, {fd}, BufferOf(t)))'
  BY <1>0, <1>2, <1>3, Owners DEF Known, Move
<1>14. /\ EventsOf(t) \in Owner /\ BufferOf(t) \in Owner /\ EventsOf(t) # BufferOf(t)
       /\ {EventsOf(t), BufferOf(t)} \subseteq {Nobody, Epoll, CloseList, EventsOf(t), BufferOf(t)}
  BY Owners
<1>15. {fd} \in SUBSET Fd /\ \A x \in {fd} : own[x] = EventsOf(t)
  BY <1>2
<1>16. Owned(Move(own, {fd}, BufferOf(t)))'
  <2>1. UNCHANGED poolVars /\ UNCHANGED workVars /\ UNCHANGED mapVars /\ UNCHANGED mainVars
    BY DEF Handling
  <2>2. IoPart' /\ ListPart' /\ EpollPart'
    BY <1>3, <1>8
  <2>3. \A s \in IOThread : s # t => batch'[s] = batch[s] /\ util'[s] = util[s]
    BY <1>8
  <2> QED
    BY <1>9, <1>10, <1>11, <1>12, <1>13, <1>14, <1>15, <2>1, <2>2, <2>3, IoMove
<1>17. Kept(own, Move(own, {fd}, BufferOf(t)))
  BY <1>0, <1>2, MoveKept, Owners
<1> QED
  BY <1>16, <1>17

\* An event handler leaves one owner at most.
LEMMA HandleEventOwned ==
  ASSUME NEW own, Owned(own), NEW t \in IOThread, HandleEvent(t)
  PROVE  \E o : Owned(o)' /\ (Lossless => Kept(own, o))
<1>1. PICK e \in batch[t] :
         /\ \/ e[2] = "HUP" /\ CloseEvent(t, e[1])
            \/ e[2] = "RD" /\ HandleRead(t, e[1])
            \/ e[2] = "WR" /\ HandleWrite(t, e[1])
         /\ batch' = [batch EXCEPT ![t] = @ \ {e}]
  BY DEF HandleEvent
<1>2. ioPc[t] = "events" /\ Handling(t, e) /\ e[2] \in Kinds
  BY <1>1 DEF HandleEvent, Handling, Kinds
<1> PICK fd : fd = e[1]
  OBVIOUS
<1>3. \/ AppendTask(t, fd) \/ RearmEvent(t, fd) \/ CloseEvent(t, fd)
      \/ /\ {"rdp", "wtp"} \cap Callbacks \in {{"rdp"}, {"wtp"}}
         /\ \E m : SwapInterest(t, fd, m)
  BY <1>1 DEF HandleRead, HandleWrite, Handle
<1>4. CASE AppendTask(t, fd)
  BY <1>2, <1>4, AppendTaskOwned
<1>5. CASE RearmEvent(t, fd)
  BY <1>2, <1>5, RearmEventOwned DEF RearmEvent
<1>6. CASE CloseEvent(t, fd)
  BY <1>2, <1>6, CloseEventOwned DEF CloseEvent
<1>7. CASE /\ {"rdp", "wtp"} \cap Callbacks \in {{"rdp"}, {"wtp"}}
           /\ \E m : SwapInterest(t, fd, m)
  <2>1. Lossless => ~CtlMayFail
    BY <1>7 DEF Lossless
  <2> QED
    BY <1>2, <1>7, <2>1, SwapInterestOwned
<1> QED
  BY <1>3, <1>4, <1>5, <1>6, <1>7

\* The steps of t that move nothing.
LEMMA IoStay ==
  ASSUME NEW own, Owned(own), NEW t \in IOThread, Reset(t) \/ IOExit(t) \/ Crash(t)
  PROVE  Owned(own)'
<1>0. Fits(own) /\ Parts /\ IoPart /\ WorkPart /\ MainPart /\ ListPart /\ EpollPart
  BY DEF Owned, Parts
<1>1. UNCHANGED epollVars /\ UNCHANGED poolVars /\ UNCHANGED workVars /\ UNCHANGED mapVars
  BY DEF Reset, IOExit, Crash
<1>2. UNCHANGED <<reg, armed, cList, connections>>
  BY <1>1 DEF epollVars, mapVars
<1>3. WorkPart' /\ QueuedFds' = QueuedFds /\ \A w \in Worker : Running(w)' = Running(w)
  BY <1>0, <1>1, WorkFrame DEF poolVars, workVars
<1>4. ListPart' /\ EpollPart'
  BY <1>0, <1>2 DEF ListPart, EpollPart
<1>5. /\ util[t] \in Utils /\ batch[t] \in SUBSET Msgs /\ Shape(ioPc[t], batch[t], util[t])
      /\ ioPc[t] \in IoPcs
  BY <1>0 DEF IoPart
<1>6. IoPart' /\ \A s \in IOThread : batch'[s] = batch[s] /\ util'[s].tasks = util[s].tasks
  <2>1. CASE Reset(t) /\ util[t].tasks = << >>
    <3> PICK u : u = [util[t] EXCEPT !.flag = TRUE]
      OBVIOUS
    <3>1. u \in Utils /\ u.flag /\ u.tasks = util[t].tasks /\ u.tasks = << >>
      BY <1>5, <2>1 DEF Utils
    <3>2. IoBecomes(t, "wait", batch[t], u)
      BY <1>0, <2>1 DEF Reset, IoBecomes, IoPart, Utils
    <3>3. Shape("wait", batch[t], u)
      <4>1. batch[t] = {} /\ Len(u.tasks) = 0
        BY <2>1, <3>1 DEF Reset
      <4> QED
        BY <1>5, <3>1, <4>1, Sizes DEF Shape
    <3>4. "wait" \in IoPcs
      BY DEF IoPcs
    <3>5. /\ IoPart' /\ batch'[t] = batch[t] /\ util'[t] = u
          /\ \A s \in IOThread : s # t => batch'[s] = batch[s] /\ util'[s] = util[s]
      BY <1>0, <1>5, <3>1, <3>2, <3>3, <3>4, IoUpdate
    <3> QED
      BY <3>1, <3>5
  <2>2. CASE Reset(t) /\ util[t].tasks # << >>
    <3>1. IoBecomes(t, "reset", batch[t], util[t])
      BY <1>0, <2>2 DEF Reset, IoBecomes, IoPart
    <3>2. Shape("reset", batch[t], util[t]) /\ "reset" \in IoPcs
      BY <1>5, <2>2 DEF Reset, Shape, IoPcs
    <3>3. /\ IoPart' /\ batch'[t] = batch[t] /\ util'[t] = util[t]
          /\ \A s \in IOThread : s # t => batch'[s] = batch[s] /\ util'[s] = util[s]
      BY <1>0, <1>5, <3>1, <3>2, IoUpdate
    <3> QED
      BY <3>3
  <2>3. CASE IOExit(t)
    <3>1. IoBecomes(t, "exited", batch[t], util[t])
      BY <1>0, <2>3 DEF IOExit, IoBecomes, IoPart
    <3>2. Shape("exited", batch[t], util[t]) /\ "exited" \in IoPcs
      BY <1>5, <2>3 DEF Shape, IoPcs
    <3>3. /\ IoPart' /\ batch'[t] = batch[t] /\ util'[t] = util[t]
          /\ \A s \in IOThread : s # t => batch'[s] = batch[s] /\ util'[s] = util[s]
      BY <1>0, <1>5, <3>1, <3>2, IoUpdate
    <3> QED
      BY <3>3
  <2>4. CASE Crash(t)
    <3>1. ioPc' = [u \in IOThread |-> "dead"] /\ batch' = batch /\ util' = util
      BY <2>4 DEF Crash
    <3>2. \A s \in IOThread : Shape("dead", batch[s], util[s])
      BY <1>0 DEF IoPart, Shape
    <3> QED
      BY <1>0, <3>1, <3>2 DEF IoPart, IoPcs
  <2> QED
    BY <2>1, <2>2, <2>3, <2>4
<1>7. MainPart' /\ Doomed' = Doomed
  <2>1. CASE Reset(t) \/ IOExit(t)
    BY <1>0, <1>1, <2>1, MainFrame DEF Reset, IOExit, mapVars, mainVars, poolVars
  <2>2. CASE Crash(t)
    <3>1. /\ phase = "down" /\ mainPc' = "crashed" /\ UNCHANGED <<closing, newFd, failures>>
          /\ phase' = phase
      BY <1>1, <2>2 DEF Crash, poolVars
    <3>2. mainPc \in {"ioexit", "done", "crashed"} /\ closing = << >>
      BY <1>0, <3>1 DEF MainPart
    <3>3. Doomed' = << >> /\ Doomed = << >>
      BY <3>1, <3>2 DEF Doomed
    <3>4. Distinct(Doomed)'
      BY <3>3, EmptyList DEF Distinct
    <3> QED
      BY <1>0, <1>2, <3>1, <3>2, <3>3, <3>4 DEF MainPart
  <2> QED
    BY <2>1, <2>2
<1>8. Parts'
  BY <1>3, <1>4, <1>6, <1>7 DEF Parts
<1> QED
  BY <1>2, <1>3, <1>6, <1>7, <1>8, Staying

-----------------------------------------------------------------------------
(* The submission of buffered tasks.                                       *)

\* A list without repetition has as many elements as positions.
LEMMA ListSize ==
  ASSUME NEW s \in Seq(Fd), Distinct(s)
  PROVE  IsFiniteSet(ToSet(s)) /\ Cardinality(ToSet(s)) = Len(s)
<1>1. DOMAIN s = 1 .. Len(s) /\ Len(s) \in Nat
  BY Elements
<1> PICK D : D = 1 .. Len(s)
  OBVIOUS
<1>2. IsFiniteSet(D) /\ Cardinality(D) = Len(s)
  <2>1. IsFiniteSet(D) /\ Cardinality(D) = IF 1 > Len(s) THEN 0 ELSE Len(s) - 1 + 1
    BY <1>1, FS_Interval
  <2> QED
    BY <1>1, <2>1
<1>3. s \in [D -> ToSet(s)]
  BY <1>1 DEF ToSet
<1>4. s \in Injection(D, ToSet(s))
  BY <1>1, <1>3 DEF Injection, IsInjective, Distinct
<1>5. s \in Surjection(D, ToSet(s))
  BY <1>1, <1>3 DEF Surjection, ToSet
<1> QED
  BY <1>2, <1>4, <1>5, FS_Surjection

\* The tasks of one commit() call are the first of those that are buffered.
LEMMA ChunkCut ==
  ASSUME NEW u \in Utils, u.tasks # << >>, Distinct(u.tasks)
  PROVE  \E c, r :
         /\ c = Chunk(u) /\ r = RestOf(u.tasks, Len(c))
         /\ u.tasks \in Seq(Fd) /\ Len(u.tasks) \in Nat
         /\ c \in Seq(Fd) /\ Len(c) \in 1 .. Len(u.tasks) /\ Len(c) \in Nat /\ Distinct(c)
         /\ r \in Seq(Fd) /\ Len(r) = Len(u.tasks) - Len(c) /\ Distinct(r)
         /\ ToSet(u.tasks) = ToSet(c) \cup ToSet(r) /\ ToSet(c) \cap ToSet(r) = {}
         /\ Len(c) = Len(u.tasks) => ToSet(c) = ToSet(u.tasks)
<1> PICK q : q = u.tasks
  OBVIOUS
<1>1. /\ q \in Seq(Fd) /\ u.back \in 0 .. (BATCH_SUBMIT - 1)
      /\ BATCH_SUBMIT \in Nat /\ BATCH_SUBMIT >= 1 /\ Distinct(q)
  BY Sizes DEF Utils
<1>2. Len(q) \in Nat /\ Len(q) # 0
  BY <1>1, Elements
<1>3. PICK n \in 0 .. Len(q) :
         n = IF BATCH_SUBMIT - u.back > Len(q) THEN Len(q) ELSE BATCH_SUBMIT - u.back
  BY <1>1, <1>2
<1>4. n \in 1 .. Len(q) /\ n \in Nat
  BY <1>1, <1>2, <1>3
<1> PICK c : c = FirstOf(q, n)
  OBVIOUS
<1> PICK r : r = RestOf(q, n)
  OBVIOUS
<1>5. c = Chunk(u)
  BY <1>3 DEF FirstOf, Chunk
<1>6. /\ c \in Seq(Fd) /\ Len(c) = n /\ r \in Seq(Fd) /\ Len(r) = Len(q) - n
      /\ ToSet(q) = ToSet(c) \cup ToSet(r)
      /\ Distinct(c) /\ Distinct(r) /\ ToSet(c) \cap ToSet(r) = {}
  BY <1>1, CutList
<1>7. ASSUME n = Len(q) PROVE ToSet(c) = ToSet(q)
  <2>1. Len(r) = 0
    BY <1>2, <1>6, <1>7
  <2>2. ToSet(r) = {}
    BY <1>6, <2>1, Elements
  <2> QED
    BY <1>6, <2>2
<1>8. r = RestOf(q, Len(c))
  BY <1>6
<1> QED
  BY <1>1, <1>2, <1>4, <1>5, <1>6, <1>7, <1>8

\* The tasks of a commit() call, in the order of the ring: those that are
\* submitted, those that are refused, and those that stay for the next call.
CutAt(u, c, k, v) ==
    /\ c \in Seq(Fd) /\ Len(c) \in 1 .. Len(u.tasks) /\ Distinct(c) /\ k \in Nat
    /\ FirstOf(c, k) \in Seq(Fd) /\ Distinct(FirstOf(c, k))
    /\ ToSet(FirstOf(c, k)) \cup Unsubmitted(u, k) = ToSet(c)
    /\ ToSet(FirstOf(c, k)) \cap Unsubmitted(u, k) = {}
    /\ ToSet(c) \subseteq ToSet(u.tasks)
    /\ Len(c) = Len(u.tasks) => ToSet(c) = ToSet(u.tasks)
    /\ v \in Utils /\ Distinct(v.tasks)
    /\ k = Len(c) => /\ v.flag = u.flag /\ Len(v.tasks) = Len(u.tasks) - Len(c)
                     /\ ToSet(v.tasks) = ToSet(u.tasks) \ ToSet(c)
    /\ k # Len(c) => v.flag = FALSE /\ v.tasks = << >>

\* What commit() submits, what it re-arms and what it keeps are parts of its buffer.
LEMMA ChunkParts ==
  ASSUME NEW u \in Utils, u.tasks # << >>, Distinct(u.tasks), NEW c, c = Chunk(u),
         NEW k \in 0 .. Len(c), NEW v, v = Committed(u, k)
  PROVE  CutAt(u, c, k, v)
<1>1. /\ u.back \in 0 .. (BATCH_SUBMIT - 1) /\ u.flag \in BOOLEAN
      /\ BATCH_SUBMIT \in Nat /\ BATCH_SUBMIT >= 1
  BY Sizes DEF Utils
<1>5. PICK r :
      /\ r = RestOf(u.tasks, Len(c))
      /\ u.tasks \in Seq(Fd) /\ Len(u.tasks) \in Nat
      /\ c \in Seq(Fd) /\ Len(c) \in 1 .. Len(u.tasks) /\ Len(c) \in Nat /\ Distinct(c)
      /\ r \in Seq(Fd) /\ Len(r) = Len(u.tasks) - Len(c) /\ Distinct(r)
      /\ ToSet(u.tasks) = ToSet(c) \cup ToSet(r) /\ ToSet(c) \cap ToSet(r) = {}
      /\ Len(c) = Len(u.tasks) => ToSet(c) = ToSet(u.tasks)
  BY ChunkCut
<1>6. k \in Nat /\ k \in 0 .. Len(c)
  BY <1>5
<1>7. /\ FirstOf(c, k) \in Seq(Fd) /\ Distinct(FirstOf(c, k))
      /\ ToSet(c) = ToSet(FirstOf(c, k)) \cup ToSet(RestOf(c, k))
      /\ ToSet(FirstOf(c, k)) \cap ToSet(RestOf(c, k)) = {}
  BY <1>5, <1>6, CutList
<1>8. Unsubmitted(u, k) = ToSet(RestOf(c, k))
  BY DEF Unsubmitted, RestOf
<1>10. CASE k = Len(c)
  <2>1. v = [u EXCEPT !.tasks = SubSeq(@, k + 1, Len(@)), !.back = (@ + k) % BATCH_SUBMIT]
    BY <1>10 DEF Committed
  <2>2. /\ v.tasks = r /\ v.flag = u.flag
        /\ v.back = (u.back + k) % BATCH_SUBMIT
    BY <1>5, <1>10, <2>1 DEF Utils, RestOf
  <2>3. v.back \in 0 .. (BATCH_SUBMIT - 1)
    BY <1>1, <1>6, <2>2
  <2>4. v \in Utils
    BY <1>1, <1>5, <2>1, <2>2, <2>3 DEF Utils
  <2>5. ToSet(v.tasks) = ToSet(u.tasks) \ ToSet(c)
    BY <1>5, <2>2
  <2>6. Distinct(v.tasks) /\ Len(v.tasks) = Len(u.tasks) - Len(c)
    BY <1>5, <2>2
  <2> QED
    BY <1>5, <1>6, <1>7, <1>8, <1>10, <2>2, <2>4, <2>5, <2>6 DEF CutAt
<1>11. CASE k # Len(c)
  <2>1. v = [flag |-> FALSE, back |-> RingFront(u), tasks |-> << >>]
    BY <1>11 DEF Committed
  <2>2. RingFront(u) \in 0 .. (BATCH_SUBMIT - 1)
    <3>1. u.back + Len(u.tasks) \in Int /\ BATCH_SUBMIT \in Nat \ {0}
      BY <1>1, <1>5
    <3>2. \A n \in Int, m \in Nat \ {0} : n % m \in 0 .. (m - 1)
      OBVIOUS
    <3> QED
      BY <3>1, <3>2 DEF RingFront
  <2>3. v \in Utils /\ v.flag = FALSE /\ v.tasks = << >> /\ Distinct(v.tasks)
    BY <2>1, <2>2, EmptyList DEF Utils
  <2> QED
    BY <1>5, <1>6, <1>7, <1>8, <1>11, <2>3 DEF CutAt
<1> QED
  BY <1>10, <1>11

\* Either the descriptors are few enough that a refused batch and the tasks of the
\* pool are all there is, or events are delivered one at a time.  Outside of this
\* append() with its flag down gives a connection two owners (see the run FlagDown).
FewOrSingle == Cardinality(Fd) <= QUEUE_LENGTH + 1 \/ MAX_EVENT = 1

\* When a batch is refused, it is all the I/O thread had.
LEMMA Refused ==
  ASSUME NEW own, Owned(own), FewOrSingle, NEW t \in IOThread, ioPc[t] \in {"commit", "reset"},
         NEW c, c = Chunk(util[t]), Pool!Crowded(Len(c))
  PROVE  Len(c) = Len(util[t].tasks) /\ batch[t] \subseteq {ExitMsg}
<1>0. Fits(own) /\ Parts /\ WorkPart
  BY DEF Owned, Parts
<1>1. /\ util[t] \in Utils /\ batch[t] \in SUBSET Msgs /\ Shape(ioPc[t], batch[t], util[t])
      /\ util[t].tasks # << >> /\ Distinct(util[t].tasks) /\ util[t].tasks \in Seq(Fd)
  BY <1>0 DEF Parts, IoPart, Shape, Utils
<1>2. /\ c \in Seq(Fd) /\ Len(c) \in 1 .. Len(util[t].tasks) /\ Distinct(c)
      /\ ToSet(c) \subseteq ToSet(util[t].tasks) /\ Len(util[t].tasks) \in Nat /\ Len(c) \in Nat
  <2>1. PICK r :
        /\ Len(util[t].tasks) \in Nat
        /\ c \in Seq(Fd) /\ Len(c) \in 1 .. Len(util[t].tasks) /\ Len(c) \in Nat /\ Distinct(c)
        /\ ToSet(util[t].tasks) = ToSet(c) \cup ToSet(r)
    BY <1>1, ChunkCut
  <2> QED
    BY <2>1
<1>3. CASE MAX_EVENT = 1
  <2>1. batch[t] = {} /\ Len(util[t].tasks) = 1
    BY <1>1, <1>3 DEF Shape
  <2> QED
    BY <1>2, <2>1
<1>4. CASE Cardinality(Fd) <= QUEUE_LENGTH + 1
  <2>1. PICK s \in UNION {[1 .. m -> Fd] : m \in 0 .. QUEUE_LENGTH} :
           Pool!Waits(s) /\ Len(s) + Len(c) > QUEUE_LENGTH
    BY DEF Pool!Crowded
  <2>2. s \in Seq(Fd)
    BY <2>1, Sizes
  <2>3. \A fd \in Fd : Pool!Count(s, fd) <= waiting[fd] /\ waiting[fd] \in 0 .. 1
    BY <1>0, <2>1 DEF Pool!Waits, WorkPart
  <2>4. \A fd \in Fd : Pool!Count(s, fd) \in Nat
    <3> SUFFICES ASSUME NEW fd \in Fd PROVE Pool!Count(s, fd) \in Nat
      OBVIOUS
    <3>1. DOMAIN s = 1 .. Len(s) /\ Len(s) \in Nat
      BY <2>2, Elements
    <3>2. IsFiniteSet(1 .. Len(s))
      BY <3>1, FS_Interval
    <3>3. IsFiniteSet({i \in DOMAIN s : s[i] = fd})
      BY <3>1, <3>2, FS_Subset
    <3> QED
      BY <3>3, FS_CardinalityType, SameCardinality DEF Pool!Count
  <2>5. Distinct(s)
    <3>1. \A fd \in Fd : Pool!Count(s, fd) <= 1
      BY <2>3, <2>4
    <3> QED
      BY <2>2, <3>1, OnceDistinct
  <2>6. ASSUME NEW fd \in ToSet(s) PROVE fd \in Fd /\ own[fd] = Queues
    <3>1. fd \in Fd /\ Pool!Count(s, fd) = 1
      BY <2>2, <2>5, Elements, CountDistinct
    <3>2. waiting[fd] # 0
      BY <2>3, <3>1
    <3> QED
      BY <1>0, <3>1, <3>2 DEF Fits, Fit, QueuedFds
  <2>7. ASSUME NEW fd \in ToSet(util[t].tasks) PROVE fd \in Fd /\ own[fd] = BufferOf(t)
    BY <1>0, <1>1, Elements DEF Fits, Fit
  <2>8. ToSet(s) \cap ToSet(c) = {}
    BY <1>2, <2>6, <2>7, Owners
  <2>9. ToSet(s) \cup ToSet(c) = Fd
    <3>1. /\ IsFiniteSet(ToSet(s)) /\ Cardinality(ToSet(s)) = Len(s) /\ Len(s) \in Nat
          /\ IsFiniteSet(ToSet(c)) /\ Cardinality(ToSet(c)) = Len(c)
      BY <1>2, <2>2, <2>5, ListSize, Elements
    <3> PICK A : A = ToSet(s) \cup ToSet(c)
      OBVIOUS
    <3>2. Cardinality(A) = Len(s) + Len(c) - Cardinality(ToSet(s) \cap ToSet(c))
      BY <3>1, FS_Union
    <3>3. Cardinality(ToSet(s) \cap ToSet(c)) = 0
      BY <2>8, FS_EmptySet
    <3>4. Cardinality(A) = Len(s) + Len(c)
      BY <1>2, <3>1, <3>2, <3>3
    <3>5. A \subseteq Fd
      BY <1>2, <2>6, <2>7
    <3>6. Cardinality(A) <= Cardinality(Fd) /\ (Cardinality(Fd) = Cardinality(A) => Fd = A)
      BY <3>5, Sizes, FS_Subset
    <3>7. Cardinality(Fd) = Cardinality(A)
      BY <1>2, <1>4, <2>1, <3>1, <3>4, <3>6, Sizes
    <3> QED
      BY <3>6, <3>7
  <2>10. ToSet(c) = ToSet(util[t].tasks)
    BY <1>2, <2>6, <2>7, <2>9, Owners
  <2>11. Len(c) = Len(util[t].tasks)
    <3>1. Cardinality(ToSet(c)) = Len(c) /\ Cardinality(ToSet(util[t].tasks)) = Len(util[t].tasks)
      BY <1>1, <1>2, ListSize
    <3> QED
      BY <2>10, <3>1
  <2>12. EventsIn(batch[t]) = {}
    <3> SUFFICES ASSUME NEW fd \in EventsIn(batch[t]) PROVE FALSE
      OBVIOUS
    <3>1. fd \in Fd /\ own[fd] = EventsOf(t)
      BY <1>0 DEF Fits, Fit, EventsIn
    <3> QED
      BY <1>2, <2>6, <2>7, <2>9, <3>1, Owners
  <2>13. batch[t] \subseteq {ExitMsg}
    <3> SUFFICES ASSUME NEW e \in batch[t], e # ExitMsg PROVE FALSE
      OBVIOUS
    <3>1. PICK fd \in Fd, k \in Kinds : e = <<fd, k>>
      BY <1>1 DEF Msgs
    <3> QED
      BY <2>12, <3>1 DEF EventsIn
  <2> QED
    BY <2>11, <2>13
<1> QED
  BY <1>3, <1>4 DEF FewOrSingle

\* The connections D are given new owners.
Refit(o, p, D, C, E) ==
    \A fd \in Fd : IF fd \in D THEN o[fd] = p <=> fd \in E ELSE fd \in E <=> fd \in C

\* All places fit after the connections D went to several new owners.
LEMMA Scattering ==
  ASSUME NEW own, Fits(own), NEW D \in SUBSET Fd, NEW o \in [Fd -> Owner],
         \A fd \in Fd \ D : o[fd] = own[fd],
         Refit(o, Epoll, D, armed, armed'),
         \A t \in IOThread : Refit(o, EventsOf(t), D, EventsIn(batch[t]), EventsIn(batch'[t])),
         \A t \in IOThread : Refit(o, BufferOf(t), D, ToSet(util[t].tasks), ToSet(util'[t].tasks)),
         Refit(o, Queues, D, QueuedFds, QueuedFds'),
         \A w \in Worker : Refit(o, HandOf(w), D, ToSet(Running(w)), ToSet(Running(w)')),
         Refit(o, CloseList, D, ToSet(cList), ToSet(cList')),
         Refit(o, Closer, D, ToSet(Doomed), ToSet(Doomed'))
  PROVE  Fits(o)'
<1>2. ASSUME NEW p, NEW C, NEW E, Refit(o, p, D, C, E), Fit(own, p, C)
      PROVE  Fit(o, p, E)
  BY <1>2 DEF Refit, Fit
<1>3. Fit(o, Epoll, armed')
  BY <1>2 DEF Fits
<1>4. \A t \in IOThread : Fit(o, EventsOf(t), EventsIn(batch'[t]))
  BY <1>2 DEF Fits
<1>5. \A t \in IOThread : Fit(o, BufferOf(t), ToSet(util'[t].tasks))
  BY <1>2 DEF Fits
<1>6. Fit(o, Queues, QueuedFds')
  BY <1>2 DEF Fits
<1>7. \A w \in Worker : Fit(o, HandOf(w), ToSet(Running(w)'))
  BY <1>2 DEF Fits
<1>8. Fit(o, CloseList, ToSet(cList')) /\ Fit(o, Closer, ToSet(Doomed'))
  BY <1>2 DEF Fits
<1> QED
  BY <1>3, <1>4, <1>5, <1>6, <1>7, <1>8 DEF Fits

\* The I/O thread after a commit() call.
GoesOn(t, v) ==
    IF v.tasks # << >>
    THEN util' = [util EXCEPT ![t] = v] /\ UNCHANGED ioPc
    ELSE IF ioPc[t] = "commit"
    THEN /\ util' = [util EXCEPT ![t] = v]
         /\ ioPc' = [ioPc EXCEPT ![t] = "events"]
    ELSE /\ util' = [util EXCEPT ![t] = [v EXCEPT !.flag = TRUE]]
         /\ ioPc' = [ioPc EXCEPT ![t] = "wait"]

\* After commit() the I/O thread has the tasks that were not in the chunk.
LEMMA CommitShape ==
  ASSUME NEW own, Owned(own), FewOrSingle, NEW t \in IOThread, Commit(t),
         NEW c, c = Chunk(util[t]), NEW k \in 0 .. Len(c), NEW v, v = Committed(util[t], k),
         k < Len(c) => Pool!Crowded(Len(c)), GoesOn(t, v)
  PROVE  /\ IoPart' /\ batch' = batch
         /\ \A s \in IOThread : s # t => util'[s] = util[s]
         /\ ToSet(util'[t].tasks) = ToSet(util[t].tasks) \ ToSet(c)
<1>0. Parts /\ IoPart
  BY DEF Owned, Parts
<1> PICK u : u = util[t]
  OBVIOUS
<1> PICK b : b = batch[t]
  OBVIOUS
<1>1. /\ u \in Utils /\ b \in SUBSET Msgs /\ Shape(ioPc[t], b, u) /\ ioPc[t] \in {"commit", "reset"}
      /\ batch' = batch /\ ioPc[t] \in IoPcs
  BY <1>0 DEF Commit, IoPart
<1>2. u.tasks # << >> /\ Distinct(u.tasks) /\ u.flag /\ Len(u.tasks) \in Nat /\ Len(u.tasks) <= BATCH_SUBMIT
  BY <1>0, <1>1, ListTypes DEF Shape
<1>3. /\ c \in Seq(Fd) /\ Len(c) \in 1 .. Len(u.tasks) /\ k \in Nat
      /\ Len(c) = Len(u.tasks) => ToSet(c) = ToSet(u.tasks)
      /\ v \in Utils /\ Distinct(v.tasks)
      /\ k = Len(c) => /\ v.flag = u.flag /\ Len(v.tasks) = Len(u.tasks) - Len(c)
                       /\ ToSet(v.tasks) = ToSet(u.tasks) \ ToSet(c)
      /\ k # Len(c) => v.flag = FALSE /\ v.tasks = << >>
  <2>1. CutAt(u, c, k, v)
    BY <1>1, <1>2, ChunkParts, Zenon
  <2> QED
    BY <2>1 DEF CutAt
<1>4. k # Len(c) => Len(c) = Len(u.tasks) /\ b \subseteq {ExitMsg}
  <2>1. k # Len(c) => k < Len(c)
    BY <1>2, <1>3
  <2> QED
    BY <1>1, <2>1, Refused
<1>5. ToSet(v.tasks) = ToSet(u.tasks) \ ToSet(c)
  <2>1. CASE k # Len(c)
    <3>1. ToSet(c) = ToSet(u.tasks) /\ ToSet(v.tasks) = {}
      BY <1>3, <1>4, <2>1, EmptyList
    <3> QED
      BY <3>1
  <2> QED
    BY <1>3, <2>1
<1>6. Len(v.tasks) < Len(u.tasks) /\ Len(v.tasks) \in Nat /\ (v.tasks = << >> <=> Len(v.tasks) = 0)
  <2>1. v.tasks \in Seq(Fd)
    BY <1>3 DEF Utils
  <2>2. Len(v.tasks) \in Nat /\ (v.tasks = << >> <=> Len(v.tasks) = 0)
    BY <2>1, Elements
  <2>3. ASSUME NEW x \in Nat, NEW y \in 1 .. x PROVE x - y < x /\ 0 < x
    OBVIOUS
  <2>4. Len(v.tasks) < Len(u.tasks)
    BY <1>2, <1>3, <2>2, <2>3, Zenon
  <2> QED
    BY <2>2, <2>4, Zenon
<1>7. OneEvent(b) /\ (MAX_EVENT = 1 => b = {} /\ Len(u.tasks) = 1)
  BY <1>1, <1>2 DEF Shape
<1>8. MAX_EVENT = 1 => v.tasks = << >> /\ b = {}
  <2>1. ASSUME NEW x \in Nat, x < 1 PROVE x = 0
    BY <2>1
  <2> QED
    BY <1>6, <1>7, <2>1, Zenon
<1>9. BATCH_SUBMIT \in Nat /\ BATCH_SUBMIT >= 1
  BY Sizes
<1>10. v \in Utils
  BY <1>3
<1>11. ASSUME NEW pc \in IoPcs, NEW z \in Utils, Shape(pc, b, z), IoBecomes(t, pc, b, z)
       PROVE  IoPart' /\ util'[t] = z /\ \A s \in IOThread : s # t => util'[s] = util[s]
  <2>1. b \in SUBSET Msgs /\ IoPart
    BY <1>0, <1>1
  <2> QED
    BY <1>11, <2>1, IoUpdate
<1>12. CASE v.tasks # << >>
  <2>1. k = Len(c)
    BY <1>3, <1>12
  <2>2. Len(v.tasks) <= BATCH_SUBMIT /\ v.flag
    <3>1. ASSUME NEW x \in Nat, NEW y \in Nat, NEW z \in Nat, x < y, y <= z PROVE x <= z
      BY <3>1
    <3> QED
      BY <1>2, <1>3, <1>6, <1>9, <2>1, <3>1, Zenon
  <2>3. Shape(ioPc[t], b, v)
    BY <1>1, <1>3, <1>7, <1>8, <1>12, <2>2 DEF Shape
  <2>4. IoBecomes(t, ioPc[t], b, v)
    BY <1>0, <1>1, <1>12 DEF IoBecomes, IoPart, GoesOn
  <2>5. IoPart' /\ util'[t] = v /\ \A s \in IOThread : s # t => util'[s] = util[s]
    BY <1>1, <1>10, <1>11, <2>3, <2>4, Zenon
  <2> QED
    BY <1>1, <1>5, <2>5
<1>13. CASE v.tasks = << >> /\ ioPc[t] = "commit"
  <2>1. Len(v.tasks) = 0
    BY <1>6, <1>13
  <2>2. ~v.flag => b \subseteq {ExitMsg}
    BY <1>2, <1>3, <1>4
  <2>3. Shape("events", b, v) /\ "events" \in IoPcs
    BY <1>3, <1>7, <1>8, <1>9, <1>13, <2>1, <2>2 DEF Shape, IoPcs
  <2>4. IoBecomes(t, "events", b, v)
    BY <1>0, <1>1, <1>13 DEF IoBecomes, IoPart, GoesOn
  <2>5. IoPart' /\ util'[t] = v /\ \A s \in IOThread : s # t => util'[s] = util[s]
    BY <1>1, <1>10, <1>11, <2>3, <2>4, Zenon
  <2> QED
    BY <1>1, <1>5, <2>5
<1>14. CASE v.tasks = << >> /\ ioPc[t] = "reset"
  <2> PICK z : z = [v EXCEPT !.flag = TRUE]
    OBVIOUS
  <2>1. z \in Utils /\ z.flag /\ z.tasks = v.tasks /\ Len(z.tasks) = 0
    BY <1>3, <1>6, <1>14 DEF Utils
  <2>2. b = {}
    BY <1>1, <1>14 DEF Shape
  <2>3. Shape("wait", b, z) /\ "wait" \in IoPcs
    BY <1>3, <1>7, <1>8, <1>9, <1>14, <2>1, <2>2 DEF Shape, IoPcs
  <2>4. IoBecomes(t, "wait", b, z)
    BY <1>0, <1>1, <1>14 DEF IoBecomes, IoPart, GoesOn
  <2>5. IoPart' /\ util'[t] = z /\ \A s \in IOThread : s # t => util'[s] = util[s]
    BY <1>11, <2>1, <2>3, <2>4, Zenon
  <2> QED
    BY <1>1, <1>5, <2>1, <2>5
<1> QED
  BY <1>1, <1>12, <1>13, <1>14

\* commit moves the first tasks of its chunk to the queues; those the pool refuses
\* go back to epoll or, when that fails, to the close list.
LEMMA CommitOwned ==
  ASSUME NEW own, Owned(own), FewOrSingle, NEW t \in IOThread, Commit(t)
  PROVE  \E o : Owned(o)' /\ Kept(own, o)
<1>0. Fits(own) /\ Known(own) /\ Parts /\ IoPart /\ WorkPart /\ MainPart /\ ListPart /\ EpollPart
  BY DEF Owned, Parts
<1> PICK c : c = Chunk(util[t])
  OBVIOUS
<1>1. UNCHANGED workVars /\ UNCHANGED mapVars /\ UNCHANGED mainVars /\ ioPc[t] \in {"commit", "reset"}
  BY DEF Commit
<1>2. PICK k \in 0 .. Len(c) :
        /\ Pool!Submit(c, k)
        /\ RenableAll(Unsubmitted(util[t], k))
        /\ GoesOn(t, Committed(util[t], k))
  BY DEF Commit, GoesOn
<1> PICK v : v = Committed(util[t], k)
  OBVIOUS
<1> PICK P : P = ToSet(FirstOf(c, k))
  OBVIOUS
<1> PICK U : U = Unsubmitted(util[t], k)
  OBVIOUS
<1>3. /\ k < Len(c) => Pool!Crowded(Len(c))
      /\ waiting' = [x \in Fd |-> waiting[x] + Pool!Count(FirstOf(c, k), x)]
      /\ UNCHANGED <<phase, hand>>
  BY <1>2 DEF Pool!Submit, FirstOf
<1>4. /\ IoPart' /\ batch' = batch
      /\ \A s \in IOThread : s # t => util'[s] = util[s]
      /\ ToSet(util'[t].tasks) = ToSet(util[t].tasks) \ ToSet(c)
  BY <1>2, <1>3, CommitShape
<1>5. /\ FirstOf(c, k) \in Seq(Fd) /\ Distinct(FirstOf(c, k))
      /\ P \cup U = ToSet(c) /\ P \cap U = {} /\ ToSet(c) \subseteq ToSet(util[t].tasks)
  <2>1. util[t] \in Utils /\ util[t].tasks # << >> /\ Distinct(util[t].tasks)
    BY <1>0, <1>1 DEF IoPart, Shape
  <2> QED
    <3>1. CutAt(util[t], c, k, v)
      BY <2>1, ChunkParts, Zenon
    <3> QED
      BY <3>1 DEF CutAt
<1> PICK D : D = ToSet(c)
  OBVIOUS
<1>6. D \in SUBSET Fd /\ \A fd \in D : own[fd] = BufferOf(t)
  <2>1. util[t].tasks \in Seq(Fd)
    BY <1>0, ListTypes
  <2>2. D \in SUBSET Fd
    BY <1>5, <2>1, Elements
  <2> QED
    BY <1>0, <1>5, <2>2 DEF Fits, Fit
<1>7. \A fd \in D : /\ fd \notin armed /\ fd \notin ToSet(cList) /\ fd \notin QueuedFds
                    /\ fd \in reg /\ fd \in connections /\ fd \notin ToSet(Doomed)
                    /\ \A w \in Worker : fd \notin ToSet(Running(w))
                    /\ \A s \in IOThread : fd \notin EventsIn(batch[s])
                    /\ \A s \in IOThread : s # t => fd \notin ToSet(util[s].tasks)
  BY <1>0, <1>6, Owners DEF Fits, Fit, Known
<1>8. PICK F \in SUBSET U :
        /\ armed' = armed \cup (U \ F)
        /\ reg' = reg \ F
        /\ U \ F \subseteq reg
        /\ ToSet(cList') = ToSet(cList) \cup F
        /\ ListPart' /\ EpollPart'
  <2>1. U \in SUBSET Fd /\ U \cap armed = {} /\ U \cap ToSet(cList) = {}
    BY <1>5, <1>6, <1>7
  <2> QED
    BY <1>0, <1>2, <2>1, Renabled
<1>9. \A x \in Fd : waiting'[x] = IF x \in P THEN 1 ELSE waiting[x]
  <2> SUFFICES ASSUME NEW x \in Fd PROVE waiting'[x] = IF x \in P THEN 1 ELSE waiting[x]
    OBVIOUS
  <2>1. Pool!Count(FirstOf(c, k), x) = IF x \in P THEN 1 ELSE 0
    BY <1>5, CountDistinct
  <2>2. waiting'[x] = waiting[x] + Pool!Count(FirstOf(c, k), x) /\ waiting[x] \in 0 .. 1
    BY <1>0, <1>3 DEF WorkPart
  <2>3. x \in P => waiting[x] = 0
    BY <1>5, <1>7 DEF QueuedFds
  <2> QED
    BY <2>1, <2>2, <2>3
<1>10. waiting' \in [Fd -> 0 .. 1] /\ QueuedFds' = QueuedFds \cup P
  <2>1. \A x \in Fd : waiting'[x] \in 0 .. 1
    BY <1>0, <1>9 DEF WorkPart
  <2>2. waiting' \in [Fd -> 0 .. 1]
    BY <1>3, <2>1
  <2>3. P \subseteq Fd
    BY <1>5, <1>6
  <2> QED
    BY <1>9, <2>2, <2>3 DEF QueuedFds
<1>11. WorkPart' /\ \A w \in Worker : Running(w)' = Running(w)
  BY <1>0, <1>1, <1>3, <1>10 DEF WorkPart, Running, workVars
<1>12. MainPart' /\ Doomed' = Doomed
  BY <1>0, <1>1, <1>3, MainFrame DEF mapVars, mainVars
<1> PICK o : o = [fd \in Fd |-> IF fd \in P THEN Queues ELSE IF fd \in F THEN CloseList
                               ELSE IF fd \in U THEN Epoll ELSE own[fd]]
  OBVIOUS
<1>13. o \in [Fd -> Owner] /\ \A fd \in Fd \ D : o[fd] = own[fd]
  BY <1>0, <1>5, Owners DEF Fits
<1>14. \A fd \in D : /\ o[fd] \in {Queues, CloseList, Epoll}
                     /\ o[fd] = Queues <=> fd \in P
                     /\ o[fd] = CloseList <=> fd \in F
                     /\ o[fd] = Epoll <=> fd \in U \ F
  BY <1>5, <1>6, Owners
<1>15. Fits(o)'
  <2>1. Refit(o, Epoll, D, armed, armed')
    BY <1>5, <1>7, <1>8, <1>14 DEF Refit
  <2>2. \A s \in IOThread : Refit(o, EventsOf(s), D, EventsIn(batch[s]), EventsIn(batch'[s]))
    BY <1>4, <1>7, <1>14, Owners DEF Refit
  <2>3. \A s \in IOThread : Refit(o, BufferOf(s), D, ToSet(util[s].tasks), ToSet(util'[s].tasks))
    <3> SUFFICES ASSUME NEW s \in IOThread
                 PROVE  Refit(o, BufferOf(s), D, ToSet(util[s].tasks), ToSet(util'[s].tasks))
      OBVIOUS
    <3>1. CASE s = t
      BY <1>4, <1>14, <3>1, Owners DEF Refit
    <3>2. CASE s # t
      BY <1>4, <1>7, <1>14, <3>2, Owners DEF Refit
    <3> QED
      BY <3>1, <3>2
  <2>4. Refit(o, Queues, D, QueuedFds, QueuedFds')
    BY <1>5, <1>7, <1>10, <1>14 DEF Refit
  <2>5. \A w \in Worker : Refit(o, HandOf(w), D, ToSet(Running(w)), ToSet(Running(w)'))
    BY <1>7, <1>11, <1>14, Owners DEF Refit
  <2>6. Refit(o, CloseList, D, ToSet(cList), ToSet(cList'))
    BY <1>5, <1>7, <1>8, <1>14 DEF Refit
  <2>7. Refit(o, Closer, D, ToSet(Doomed), ToSet(Doomed'))
    BY <1>7, <1>12, <1>14, Owners DEF Refit
  <2> QED
    BY <1>0, <1>6, <1>13, <2>1, <2>2, <2>3, <2>4, <2>5, <2>6, <2>7, Scattering
<1>16. Known(o)'
  <2>1. connections' = connections
    BY <1>1 DEF mapVars
  <2>2. ASSUME NEW fd \in Fd, o[fd] # Nobody PROVE fd \in connections
    BY <1>0, <1>7, <1>13, <2>2 DEF Known
  <2>3. ASSUME NEW fd \in Fd, o[fd] \notin {Nobody, CloseList, Closer} PROVE fd \in reg'
    <3>1. CASE fd \in D
      BY <1>7, <1>8, <1>14, <2>3, <3>1
    <3>2. CASE fd \notin D
      BY <1>0, <1>5, <1>8, <1>13, <2>3, <3>2 DEF Known
    <3> QED
      BY <3>1, <3>2
  <2> QED
    BY <2>1, <2>2, <2>3 DEF Known
<1>17. Kept(own, o)
  BY <1>6, <1>13, <1>14, Owners DEF Kept
<1>18. Owned(o)'
  BY <1>4, <1>8, <1>11, <1>12, <1>15, <1>16 DEF Owned, Parts
<1> QED
  BY <1>17, <1>18

-----------------------------------------------------------------------------
(* Every step.                                                             *)

\* A step that opens and destroys no connection.
Quiet ==
    /\ UNCHANGED <<info, count, connections>>
    /\ mainPc' = "uncount" <=> mainPc = "uncount"
    /\ mainPc = "uncount" => closing' = closing

\* The steps of the I/O threads and of the workers, and those of the main thread
\* that are not about a connection.
QuietSteps ==
    \/ \E t \in IOThread : IOStep(t)
    \/ \E w \in Worker : Take(w) \/ Callback(w)
    \/ Accept \/ AcceptFails \/ HandleCloseList \/ SetExitFlag \/ NextIteration
    \/ PoolExit \/ PoolExited \/ ExitIOEventLoop \/ JoinIOThreads
    \/ UNCHANGED vars

\* There are no other steps than these four kinds.
LEMMA AllSteps ==
  ASSUME [Next]_vars
  PROVE  QuietSteps \/ HandleConnect \/ CloseConnection \/ CountDown
  BY DEF Next, MainStep, Ended, QuietSteps

\* Quiet steps are quiet.
LEMMA QuietIs ==
  ASSUME QuietSteps, MainPart
  PROVE  Quiet
<1>1. CASE \E t \in IOThread : IOStep(t)
  <2>1. PICK t \in IOThread : IOStep(t)
    BY <1>1
  <2>2. CASE EpollWait(t) \/ HandleEvent(t) \/ Reset(t) \/ Commit(t) \/ IOExit(t)
    <3>1. UNCHANGED mapVars /\ UNCHANGED mainVars
      BY <2>2 DEF EpollWait, HandleEvent, Reset, Commit, IOExit
    <3> QED
      BY <3>1 DEF mapVars, mainVars, Quiet
  <2>3. CASE Crash(t)
    <3>1. UNCHANGED mapVars /\ mainPc' = "crashed" /\ mainPc # "uncount"
      BY <2>3 DEF Crash, MainPart
    <3> QED
      BY <3>1 DEF mapVars, Quiet
  <2> QED
    BY <2>1, <2>2, <2>3 DEF IOStep
<1>2. CASE \E w \in Worker : Take(w) \/ Callback(w)
  <2>1. UNCHANGED mapVars /\ UNCHANGED mainVars
    BY <1>2 DEF Take, Callback, CallbackClose, CallbackEnable, StoreZero, StoreEvents
  <2> QED
    BY <2>1 DEF mapVars, mainVars, Quiet
<1>3. CASE Accept
  BY <1>3 DEF Accept, InIteration, Quiet
<1>4. CASE HandleCloseList
  BY <1>4 DEF HandleCloseList, mapVars, Quiet
<1>5. CASE AcceptFails \/ SetExitFlag \/ NextIteration
  BY <1>5 DEF AcceptFails, SetExitFlag, NextIteration, InIteration, LoopTest, mapVars, Quiet
<1>6. CASE PoolExit \/ PoolExited \/ ExitIOEventLoop \/ JoinIOThreads
  BY <1>6 DEF PoolExit, PoolExited, ExitIOEventLoop, JoinIOThreads, mapVars, Quiet
<1>7. CASE UNCHANGED vars
  BY <1>7 DEF vars, mapVars, mainVars, Quiet
<1> QED
  BY <1>1, <1>2, <1>3, <1>4, <1>5, <1>6, <1>7 DEF QuietSteps

\* Nothing changes when the owners stay.
LEMMA KeptSame == \A own : Kept(own, own)
  BY DEF Kept

\* A quiet step leaves one owner at most, and under Lossless it forgets nobody.
LEMMA QuietOwned ==
  ASSUME NEW own, Owned(own), FewOrSingle, QuietSteps
  PROVE  \E o : Owned(o)' /\ (Lossless => Kept(own, o))
<1>1. CASE \E t \in IOThread : IOStep(t)
  <2>1. PICK t \in IOThread : IOStep(t)
    BY <1>1
  <2>2. CASE EpollWait(t)
    BY <2>2, EpollWaitOwned
  <2>3. CASE HandleEvent(t)
    BY <2>3, HandleEventOwned
  <2>4. CASE Commit(t)
    BY <2>4, CommitOwned
  <2>5. CASE Reset(t) \/ IOExit(t) \/ Crash(t)
    BY <2>5, IoStay, KeptSame
  <2> QED
    BY <2>1, <2>2, <2>3, <2>4, <2>5 DEF IOStep
<1>2. CASE \E w \in Worker : Take(w) \/ Callback(w)
  <2>1. PICK w \in Worker : Take(w) \/ Callback(w)
    BY <1>2
  <2>2. CASE Take(w)
    BY <2>2, TakeOwned
  <2>3. CASE CallbackClose(w)
    BY <2>3, CallbackCloseOwned
  <2>4. CASE CallbackEnable(w)
    BY <2>4, CallbackEnableOwned
  <2>5. CASE StoreZero(w) \/ StoreEvents(w)
    BY <2>5, StoreOwned, KeptSame
  <2> QED
    BY <2>1, <2>2, <2>3, <2>4, <2>5 DEF Callback
<1>3. CASE HandleCloseList
  BY <1>3, HandleCloseListOwned
<1>4. CASE \/ Accept \/ AcceptFails \/ SetExitFlag \/ NextIteration
           \/ PoolExit \/ PoolExited \/ ExitIOEventLoop \/ JoinIOThreads
  BY <1>4, LoopOwned, KeptSame
<1>5. CASE UNCHANGED vars
  <2>1. UNCHANGED epollVars /\ UNCHANGED ioVars /\ UNCHANGED poolVars /\ UNCHANGED workVars
        /\ UNCHANGED mapVars /\ UNCHANGED mainVars
    BY <1>5 DEF vars
  <2>2. /\ UNCHANGED <<reg, armed, cList, waiting, hand, workPc>>
        /\ UNCHANGED <<connections, closing, mainPc, newFd, failures, phase>>
    BY <2>1 DEF epollVars, poolVars, workVars, mapVars, mainVars
  <2>3. MainPart' /\ Doomed' = Doomed
    BY <2>2, MainFrame DEF Owned, Parts
  <2> QED
    BY <2>1, <2>2, <2>3, MainStay, KeptSame
<1> QED
  BY <1>1, <1>2, <1>3, <1>4, <1>5 DEF QuietSteps

\* At first nobody owns anything.
NoOwner == [fd \in Fd |-> Nobody]

\* The invariant holds at first.
LEMMA InitOwned ==
  ASSUME Init
  PROVE  Owned(NoOwner)
<1>1. MainPart
  <2>1. closing = << >> /\ mainPc = "poll" /\ connections = {} /\ failures = 0 /\ phase = "up"
    BY DEF Init, Pool!Init
  <2>2. Doomed = << >> /\ Distinct(Doomed) /\ closing \in Seq(Fd)
    BY <2>1, EmptyList DEF Doomed
  <2> QED
    BY <2>1, <2>2 DEF MainPart
<1>2. WorkPart /\ \A w \in Worker : Running(w) = << >>
  <2>1. /\ waiting = [x \in Fd |-> 0] /\ hand = [w \in Worker |-> << >>]
        /\ workPc = [w \in Worker |-> "run"]
    BY DEF Init, Pool!Init
  <2>2. \A w \in Worker : Running(w) = << >>
    BY <2>1 DEF Running
  <2>3. \A w \in Worker : Distinct(Running(w))
    BY <2>2, EmptyList
  <2>4. waiting \in [Fd -> 0 .. 1]
    BY <2>1
  <2>5. hand \in [Worker -> Seq(Fd)]
    BY <2>1, EmptyList
  <2> QED
    BY <2>1, <2>2, <2>3, <2>4, <2>5 DEF WorkPart
<1>3. ListPart /\ EpollPart
  BY EmptyList DEF Init, ListPart, EpollPart
<1>4. IoPart
  <2> PICK u : u = [flag |-> TRUE, back |-> 0, tasks |-> << >>]
    OBVIOUS
  <2>1. /\ ioPc = [t \in IOThread |-> "wait"] /\ batch = [t \in IOThread |-> {}]
        /\ util = [t \in IOThread |-> u]
    BY DEF Init
  <2>2. u \in Utils /\ u.flag /\ u.tasks = << >> /\ Len(u.tasks) = 0
    BY Sizes, EmptyList DEF Utils
  <2>3. Shape("wait", {}, u)
    BY <2>2, Sizes, EmptyList DEF Shape, OneEvent
  <2> QED
    BY <2>1, <2>2, <2>3 DEF IoPart, IoPcs
<1>5. Fits(NoOwner)
  <2>1. NoOwner \in [Fd -> Owner] /\ \A fd \in Fd : NoOwner[fd] = Nobody
    BY Owners DEF NoOwner
  <2>2. ASSUME NEW p, p # Nobody, NEW S, S = {} PROVE Fit(NoOwner, p, S)
    BY <2>1, <2>2 DEF Fit
  <2>3. armed = {} /\ QueuedFds = {} /\ cList = << >> /\ Doomed = << >>
    BY DEF Init, Pool!Init, QueuedFds, Doomed
  <2>4. \A t \in IOThread : EventsIn(batch[t]) = {} /\ ToSet(util[t].tasks) = {}
    BY EmptyList DEF Init, EventsIn
  <2>5. ToSet(cList) = {} /\ ToSet(Doomed) = {} /\ \A w \in Worker : ToSet(Running(w)) = {}
    BY <1>2, <2>3, EmptyList
  <2>6. Fit(NoOwner, Epoll, armed) /\ Fit(NoOwner, Queues, QueuedFds)
    BY <2>2, <2>3, Owners
  <2>7. Fit(NoOwner, CloseList, ToSet(cList)) /\ Fit(NoOwner, Closer, ToSet(Doomed))
    BY <2>2, <2>5, Owners
  <2>8. \A t \in IOThread : /\ Fit(NoOwner, EventsOf(t), EventsIn(batch[t]))
                            /\ Fit(NoOwner, BufferOf(t), ToSet(util[t].tasks))
    BY <2>2, <2>4, Owners
  <2>9. \A w \in Worker : Fit(NoOwner, HandOf(w), ToSet(Running(w)))
    BY <2>2, <2>5, Owners
  <2> QED
    BY <2>1, <2>6, <2>7, <2>8, <2>9 DEF Fits
<1>6. Known(NoOwner)
  BY DEF Known, NoOwner
<1> QED
  BY <1>1, <1>2, <1>3, <1>4, <1>5, <1>6 DEF Owned, Parts

\* A connection of which two threads, queues or lists could make a callback run, or
\* which one of them could destroy under the other, does not exist: for any number
\* of descriptors, I/O threads and workers, as long as a refused batch is all that
\* its I/O thread had (FewOrSingle).
THEOREM ExclusiveOwnerAlways ==
  ASSUME FewOrSingle, NoStdin
  PROVE  Spec => []ExclusiveOwner
<1> DEFINE Inv == \E own : Owned(own)
<1>1. Init => Inv
  BY InitOwned
<1>2. Inv /\ [Next]_vars => Inv'
  <2> SUFFICES ASSUME NEW own, Owned(own), [Next]_vars PROVE \E o : Owned(o)'
    OBVIOUS
  <2>1. CASE QuietSteps
    BY <2>1, QuietOwned
  <2>2. CASE HandleConnect
    <3> PICK fd : fd = newFd
      OBVIOUS
    <3>1. Rejected \/ InitFails \/ AddFails \/ Connected
      BY <2>2 DEF HandleConnect
    <3> QED
      BY <2>2, <3>1, ConnectOwned
  <2>3. CASE CloseConnection
    <3> PICK fd : fd = Head(closing)
      OBVIOUS
    <3> QED
      BY <2>3, CloseConnectionOwned
  <2>4. CASE CountDown
    BY <2>4, CountDownOwned
  <2> QED
    BY <2>1, <2>2, <2>3, <2>4, AllSteps
<1>3. Inv => ExclusiveOwner
  BY OwnedMeans
<1> QED
  BY <1>1, <1>2, <1>3, PTL DEF Spec

-----------------------------------------------------------------------------
(* No connection is forgotten.                                             *)

Remembered(own) == \A fd \in connections : own[fd] # Nobody

\* Each connection of the map is armed or in the hands of a thread, a queue or a
\* list: for any number of them, unless memory runs out in init() or epoll_ctl fails
\* where the handler of a missing callback ignores it.
THEOREM NoneForgottenAlways ==
  ASSUME FewOrSingle, Lossless, InitFailures = 0
  PROVE  Spec => []NoneForgotten
<1> DEFINE Inv == \E own : Owned(own) /\ Remembered(own)
<1>1. Init => Inv
  <2> SUFFICES ASSUME Init PROVE Owned(NoOwner) /\ Remembered(NoOwner)
    OBVIOUS
  <2>1. connections = {}
    BY DEF Init
  <2> QED
    BY <2>1, InitOwned DEF Remembered
<1>2. Inv /\ [Next]_vars => Inv'
  <2> SUFFICES ASSUME NEW own, Owned(own), Remembered(own), [Next]_vars
               PROVE  \E o : Owned(o)' /\ Remembered(o)'
    OBVIOUS
  <2>0. connections \subseteq Fd /\ MainPart
    BY DEF Owned, Parts, MainPart
  <2>1. CASE QuietSteps
    <3>1. PICK o : Owned(o)' /\ (Lossless => Kept(own, o))
      BY <2>1, QuietOwned
    <3>2. connections' = connections
      BY <2>0, <2>1, QuietIs DEF Quiet
    <3>3. Remembered(o)'
      BY <2>0, <3>1, <3>2 DEF Remembered, Kept
    <3> QED
      BY <3>1, <3>3
  <2>2. CASE HandleConnect
    <3> PICK fd : fd = newFd
      OBVIOUS
    <3>1. Rejected \/ InitFails \/ AddFails \/ Connected
      BY <2>2 DEF HandleConnect
    <3>2. NoStdin /\ ~InitFails
      BY <2>0 DEF NoStdin, InitFails, MainPart
    <3>3. CASE Rejected \/ AddFails
      <4>1. connections' = connections /\ Owned(own)'
        BY <2>2, <3>2, <3>3, ConnectOwned DEF Rejected, AddFails
      <4> QED
        BY <4>1 DEF Remembered
    <3>4. CASE Connected
      <4>1. connections' = connections \cup {fd} /\ Owned(Move(own, {fd}, Epoll))' /\ fd \in Fd
        BY <2>2, <3>2, <3>4, ConnectOwned DEF Connected
      <4>2. \A x \in connections \cup {fd} : Move(own, {fd}, Epoll)[x] # Nobody
        BY <2>0, <4>1, Owners DEF Move, Remembered
      <4> QED
        BY <4>1, <4>2 DEF Remembered
    <3> QED
      BY <3>1, <3>2, <3>3, <3>4
  <2>3. CASE CloseConnection
    <3> PICK fd : fd = Head(closing)
      OBVIOUS
    <3>1. connections' = connections \ {fd} /\ Owned(Move(own, {fd}, Nobody))'
      BY <2>3, CloseConnectionOwned DEF CloseConnection
    <3>2. \A x \in connections \ {fd} : Move(own, {fd}, Nobody)[x] # Nobody
      BY <2>0 DEF Move, Remembered
    <3> QED
      BY <3>1, <3>2 DEF Remembered
  <2>4. CASE CountDown
    <3>1. connections' = connections /\ Owned(own)'
      BY <2>4, CountDownOwned DEF CountDown
    <3> QED
      BY <3>1 DEF Remembered
  <2> QED
    BY <2>1, <2>2, <2>3, <2>4, AllSteps
<1>3. Inv => NoneForgotten
  <2> SUFFICES ASSUME NEW own, Owned(own), Remembered(own), NEW fd \in connections
               PROVE  Holders(fd) # {}
    BY DEF NoneForgotten
  <2>1. fd \in Fd /\ Fits(own) /\ Parts
    BY DEF Owned, Parts, MainPart
  <2> QED
    BY <2>1, HeldIsOwned DEF Remembered
<1> QED
  BY <1>1, <1>2, <1>3, PTL DEF Spec

-----------------------------------------------------------------------------
(* The load counters.                                                      *)

\* The connections of an I/O thread that somebody owns, and the one of them that is
\* destroyed and still counted.
Load(own, inf, t) == {fd \in Fd : own[fd] # Nobody /\ inf[fd] = t}
Late(t) == IF mainPc = "uncount" /\ info[Head(closing)] = t THEN 1 ELSE 0

Counted(own) ==
    /\ info \in [Fd -> IOThread] /\ count \in [IOThread -> Nat]
    /\ \A t \in IOThread : count[t] = Cardinality(Load(own, info, t)) + Late(t)

\* The load of a thread is a finite set of descriptors.
LEMMA LoadSize ==
  ASSUME NEW own, NEW inf, NEW t
  PROVE  /\ IsFiniteSet(Load(own, inf, t))
         /\ Cardinality(Load(own, inf, t)) \in 0 .. Cardinality(Fd)
<1>1. Load(own, inf, t) \in SUBSET Fd
  BY DEF Load
<1>2. IsFiniteSet(Load(own, inf, t)) /\ Cardinality(Load(own, inf, t)) <= Cardinality(Fd)
  BY <1>1, Sizes, FS_Subset
<1>3. Cardinality(Load(own, inf, t)) \in Nat
  BY <1>2, FS_CardinalityType
<1> QED
  BY <1>2, <1>3, Sizes

\* A set of numbers has a smallest one.
LEMMA Smallest ==
  ASSUME NEW S \in SUBSET Nat, S # {}
  PROVE  \E m \in S : \A n \in S : m <= n
<1>1. \A x, y \in Nat : x < y => <<x, y>> \in OpToRel(<, Nat)
  BY DEF OpToRel
<1>2. \E L : IsWellFoundedOn(L, Nat) /\ \A x, y \in Nat : x < y => <<x, y>> \in L
  BY <1>1, NatLessThanWellFounded
<1>3. ASSUME NEW L, IsWellFoundedOn(L, Nat), \A x, y \in Nat : x < y => <<x, y>> \in L
      PROVE  \E m \in S : \A n \in S : m <= n
  <2>0. IsWellFoundedOn(L, Nat) /\ S \subseteq Nat
    BY <1>3
  <2>1. PICK m \in S : \A n \in S : <<n, m>> \notin L
    BY <2>0, WFMin
  <2>2. ASSUME NEW n \in S PROVE m <= n
    <3>1. m \in Nat /\ n \in Nat
      OBVIOUS
    <3>2. ~(n < m)
      BY <1>3, <2>1, <3>1, Zenon
    <3> QED
      BY <3>1, <3>2
  <2> QED
    BY <2>2
<1> QED
  BY <1>2, <1>3

\* There is a first thread among those with the fewest connections.
LEMMA LeastLoadedType ==
  ASSUME count \in [IOThread -> Nat]
  PROVE  LeastLoaded \in IOThread
<1>1. IOThread \subseteq Nat /\ 0 \in IOThread
  BY ConfigAssumption DEF IOThread
<1>2. PICK m \in {count[t] : t \in IOThread} : \A n \in {count[t] : t \in IOThread} : m <= n
  <2> DEFINE T == {count[t] : t \in IOThread}
  <2>1. T \in SUBSET Nat /\ T # {}
    BY <1>1
  <2> HIDE DEF T
  <2>2. \E x \in T : \A y \in T : x <= y
    BY <2>1, Smallest
  <2> QED
    BY <2>2 DEF T
<1>3. PICK t \in {u \in IOThread : count[u] = m} : \A u \in {u \in IOThread : count[u] = m} : t <= u
  <2> DEFINE T == {u \in IOThread : count[u] = m}
  <2>1. T \in SUBSET Nat /\ T # {}
    BY <1>1, <1>2
  <2> HIDE DEF T
  <2>2. \E t \in T : \A u \in T : t <= u
    BY <2>1, Smallest
  <2> QED
    BY <2>2 DEF T
<1>4. \A u \in IOThread : count[t] <= count[u]
  BY <1>2, <1>3
<1>5. \A u \in IOThread : u < t => count[u] > count[t]
  <2> SUFFICES ASSUME NEW u \in IOThread, u < t PROVE count[u] > count[t]
    OBVIOUS
  <2>1. count[u] # m /\ count[t] = m
    BY <1>1, <1>3
  <2> QED
    BY <1>2, <2>1
<1> QED
  BY <1>3, <1>4, <1>5 DEF LeastLoaded

\* A quiet step leaves the counters exact,
LEMMA QuietCounted ==
  ASSUME NEW own, NEW o, Counted(own), Kept(own, o), Quiet
  PROVE  Counted(o)'
<1>1. UNCHANGED <<info, count>> /\ \A t \in IOThread : Late(t)' = Late(t)
  BY DEF Quiet, Late
<1>2. \A t \in IOThread : Load(o, info, t) = Load(own, info, t)
  BY DEF Load, Kept
<1> QED
  BY <1>1, <1>2 DEF Counted

\* HandleConnect counts the connection it makes, and none that it does not make,
LEMMA ConnectCounted ==
  ASSUME NEW own, Owned(own), Counted(own), HandleConnect, NoStdin, NEW fd, fd = newFd
  PROVE  \E o : Owned(o)' /\ Counted(o)'
<1>0. /\ mainPc = "emplace" /\ mainPc' # "uncount" /\ fd \in Fd /\ MainPart /\ Known(own)
      /\ Fits(own)
  BY ConnectOwned DEF HandleConnect, LoopTest, Owned, Parts
<1>1. \A t : Late(t) = 0 /\ Late(t)' = 0
  BY <1>0 DEF Late
<1>2. \A t \in IOThread : count[t] = Cardinality(Load(own, info, t))
  BY <1>1, LoadSize DEF Counted
<1>3. info \in [Fd -> IOThread] /\ count \in [IOThread -> Nat]
  BY DEF Counted
<1>4. PICK l \in IOThread : l = LeastLoaded
  BY <1>3, LeastLoadedType
<1>5. CASE Rejected \/ InitFails
  <2>1. UNCHANGED <<info, count>> /\ Owned(own)'
    BY <1>5, ConnectOwned DEF Rejected, InitFails
  <2>2. Counted(own)'
    BY <1>1, <1>2, <1>3, <2>1, LoadSize DEF Counted
  <2> QED
    BY <2>1, <2>2
<1>6. CASE AddFails
  <2>1. info' = [info EXCEPT ![fd] = l] /\ count' = count /\ Owned(own)' /\ own[fd] = Nobody
    BY <1>0, <1>4, <1>6, ConnectOwned DEF AddFails, Known
  <2>2. \A t \in IOThread : Load(own, info', t) = Load(own, info, t)
    BY <1>0, <1>3, <2>1 DEF Load
  <2>3. info' \in [Fd -> IOThread]
    BY <1>3, <2>1
  <2>4. \A t \in IOThread : count'[t] = Cardinality(Load(own, info', t))
    BY <1>2, <2>1, <2>2
  <2>5. \A t \in IOThread : count'[t] = Cardinality(Load(own, info', t)) + Late(t)'
    BY <1>1, <2>4, LoadSize
  <2>6. Counted(own)'
    BY <1>3, <2>1, <2>3, <2>5 DEF Counted
  <2> QED
    BY <2>1, <2>6
<1>7. CASE Connected
  <2> PICK o : o = Move(own, {fd}, Epoll)
    OBVIOUS
  <2>1. /\ info' = [info EXCEPT ![fd] = l] /\ count' = [count EXCEPT ![l] = @ + 1]
        /\ Owned(o)' /\ own[fd] = Nobody
    BY <1>4, <1>7, ConnectOwned DEF Connected
  <2>2. /\ Load(o, info', l) = Load(own, info, l) \cup {fd} /\ fd \notin Load(own, info, l)
        /\ \A t \in IOThread \ {l} : Load(o, info', t) = Load(own, info, t)
    BY <1>0, <1>3, <2>1, Owners DEF Load, Move
  <2>3. Cardinality(Load(o, info', l)) = Cardinality(Load(own, info, l)) + 1
    BY <2>2, LoadSize, FS_AddElement
  <2>4. info' \in [Fd -> IOThread] /\ count' \in [IOThread -> Nat]
    <3>1. count[l] + 1 \in Nat
      BY <1>3
    <3>2. info' \in [Fd -> IOThread]
      BY <1>3, <2>1
    <3>3. count' \in [IOThread -> Nat]
      BY <1>3, <2>1, <3>1
    <3> QED
      BY <3>2, <3>3
  <2>5. \A t \in IOThread : count'[t] = Cardinality(Load(o, info', t))
    BY <1>2, <1>3, <2>1, <2>2, <2>3
  <2>6. \A t \in IOThread : count'[t] = Cardinality(Load(o, info', t)) + Late(t)'
    BY <1>1, <2>5, LoadSize
  <2>7. Counted(o)'
    BY <2>4, <2>6 DEF Counted
  <2> QED
    BY <2>1, <2>7
<1> QED
  BY <1>5, <1>6, <1>7 DEF HandleConnect

\* a connection that is destroyed is still counted,
LEMMA CloseCounted ==
  ASSUME NEW own, Owned(own), Counted(own), CloseConnection, NEW fd, fd = Head(closing)
  PROVE  Counted(Move(own, {fd}, Nobody))'
<1> PICK o : o = Move(own, {fd}, Nobody)
  OBVIOUS
<1>0. fd \in Fd /\ own[fd] # Nobody /\ Fits(own)
  BY CloseConnectionOwned, Owners DEF Owned
<1>1. mainPc = "close" /\ mainPc' = "uncount" /\ UNCHANGED <<info, count, closing>>
  BY DEF CloseConnection
<1>2. \A t : Late(t) = 0 /\ Late(t)' = IF info[fd] = t THEN 1 ELSE 0
  BY <1>1 DEF Late
<1>3. info \in [Fd -> IOThread] /\ count \in [IOThread -> Nat]
  BY DEF Counted
<1>4. \A t \in IOThread : count[t] = Cardinality(Load(own, info, t))
  BY <1>2, LoadSize DEF Counted
<1>5. ASSUME NEW t \in IOThread PROVE count[t] = Cardinality(Load(o, info, t)) + Late(t)'
  <2>1. CASE info[fd] = t
    <3>1. Load(o, info, t) = Load(own, info, t) \ {fd} /\ fd \in Load(own, info, t)
      BY <1>0, <2>1 DEF Load, Move
    <3>2. Cardinality(Load(o, info, t)) = Cardinality(Load(own, info, t)) - 1
      BY <3>1, LoadSize, FS_RemoveElement
    <3> QED
      BY <1>2, <1>4, <2>1, <3>2, LoadSize
  <2>2. CASE info[fd] # t
    <3>1. Load(o, info, t) = Load(own, info, t)
      BY <1>0, <2>2 DEF Load, Move
    <3> QED
      BY <1>2, <1>4, <2>2, <3>1, LoadSize
  <2> QED
    BY <2>1, <2>2
<1> QED
  BY <1>1, <1>3, <1>5 DEF Counted

\* until CountDown reads which thread it belonged to.
LEMMA CountDownCounted ==
  ASSUME NEW own, Owned(own), Counted(own), CountDown
  PROVE  Counted(own)'
<1> PICK fd : fd = Head(closing)
  OBVIOUS
<1>0. closing \in Seq(Fd) /\ closing # << >>
  BY DEF Owned, Parts, MainPart, CountDown
<1>1. /\ mainPc = "uncount" /\ mainPc' # "uncount" /\ UNCHANGED info
      /\ count' = [count EXCEPT ![info[fd]] = @ - 1]
  BY DEF CountDown
<1>2. \A t : Late(t)' = 0 /\ Late(t) = IF info[fd] = t THEN 1 ELSE 0
  BY <1>1 DEF Late
<1>3. /\ info \in [Fd -> IOThread] /\ count \in [IOThread -> Nat]
      /\ \A t \in IOThread : count[t] = Cardinality(Load(own, info, t)) + Late(t)
  BY DEF Counted
<1>4. fd \in Fd /\ info[fd] \in IOThread
  BY <1>0, <1>3, HeadTailProperties
<1>5. ASSUME NEW t \in IOThread
      PROVE  count'[t] = Cardinality(Load(own, info, t)) /\ count'[t] \in Nat
  <2>1. Cardinality(Load(own, info, t)) \in Nat
    BY LoadSize
  <2>2. count'[t] = IF t = info[fd] THEN count[t] - 1 ELSE count[t]
    BY <1>1, <1>3, <1>4
  <2> QED
    BY <1>2, <1>3, <2>1, <2>2
<1>6. count' \in [IOThread -> Nat]
  BY <1>1, <1>3, <1>5
<1>7. \A t \in IOThread : count'[t] = Cardinality(Load(own, info, t)) + Late(t)'
  BY <1>2, <1>5
<1> QED
  BY <1>1, <1>3, <1>6, <1>7 DEF Counted

\* Together: owners and counters after any step.
LEMMA CountedStep ==
  ASSUME FewOrSingle, NoStdin, Lossless, NEW own, Owned(own), Counted(own), [Next]_vars
  PROVE  \E o : Owned(o)' /\ Counted(o)'
<1>1. CASE QuietSteps
  <2>1. PICK o : Owned(o)' /\ (Lossless => Kept(own, o))
    BY <1>1, QuietOwned
  <2>2. Quiet
    BY <1>1, QuietIs DEF Owned, Parts
  <2>3. Counted(o)'
    BY <2>1, <2>2, QuietCounted
  <2> QED
    BY <2>1, <2>3
<1>2. CASE HandleConnect
  <2> PICK fd : fd = newFd
    OBVIOUS
  <2> QED
    BY <1>2, ConnectCounted
<1>3. CASE CloseConnection
  <2> PICK fd : fd = Head(closing)
    OBVIOUS
  <2>1. Owned(Move(own, {fd}, Nobody))' /\ Counted(Move(own, {fd}, Nobody))'
    BY <1>3, CloseConnectionOwned, CloseCounted
  <2> QED
    BY <2>1
<1>4. CASE CountDown
  BY <1>4, CountDownOwned, CountDownCounted
<1> QED
  BY <1>1, <1>2, <1>3, <1>4, AllSteps

\* At first there is nothing to count.
LEMMA InitCounted ==
  ASSUME Init
  PROVE  Counted(NoOwner)
<1>1. /\ info = [fd \in Fd |-> 0] /\ count = [t \in IOThread |-> 0] /\ mainPc = "poll"
  BY DEF Init
<1>2. 0 \in IOThread
  BY ConfigAssumption DEF IOThread
<1>3. \A t \in IOThread : Load(NoOwner, info, t) = {} /\ Late(t) = 0
  BY <1>1 DEF Load, NoOwner, Late
<1> QED
  BY <1>1, <1>2, <1>3, FS_EmptySet DEF Counted

\* Each counter is the number of connections that its I/O thread serves, on every
\* path that opens or destroys one, for any number of threads and connections:
\* unless a connection is lost (Lossless).
THEOREM CountExactAlways ==
  ASSUME FewOrSingle, NoStdin, Lossless
  PROVE  Spec => []CountExact
<1> DEFINE Inv == \E own : Owned(own) /\ Counted(own)
<1>1. Init => Inv
  BY InitOwned, InitCounted
<1>2. Inv /\ [Next]_vars => Inv'
  BY CountedStep
<1>3. Inv => CountExact
  <2> SUFFICES ASSUME NEW own, Owned(own), Counted(own), NEW t \in IOThread
               PROVE  count[t] = Cardinality({fd \in connections : info[fd] = t /\ Holders(fd) # {}})
                                 + Late(t)
    BY DEF CountExact, Late
  <2>1. Fits(own) /\ Known(own) /\ Parts /\ connections \subseteq Fd
    BY DEF Owned, Parts, MainPart
  <2>2. \A fd \in Fd : Holders(fd) = {} <=> own[fd] = Nobody
    BY <2>1, HeldIsOwned
  <2>3. {fd \in connections : info[fd] = t /\ Holders(fd) # {}} = Load(own, info, t)
    BY <2>1, <2>2 DEF Load, Known
  <2> QED
    BY <2>3 DEF Counted
<1> QED
  BY <1>1, <1>2, <1>3, PTL DEF Spec

-----------------------------------------------------------------------------
(* Types.                                                                  *)

\* What the invariants above do not say of the variables.
InterestPart ==
    /\ events \in [Fd -> SUBSET Event] /\ mask \in [Fd -> SUBSET Event]
    /\ wanted \in [Worker -> SUBSET Event]

MainPcs == {"poll", "polled", "emplace", "close", "uncount", "left", "poolexit",
            "ioexit", "done", "crashed"}
ControlPart ==
    /\ open \subseteq Fd \cup {Stdin} /\ newFd \in Fd \cup {Stdin}
    /\ mainPc \in MainPcs /\ phase \in Pool!Phases
    /\ mtx \in BOOLEAN /\ exitFlag \in BOOLEAN /\ exitEvent \in BOOLEAN
    /\ failures \in 0 .. InitFailures

\* An interest that is stored is one of the interests.
LEMMA StoreInterest ==
  ASSUME NEW S, NEW f \in [S -> SUBSET Event], NEW x, NEW m \in SUBSET Event
  PROVE  [f EXCEPT ![x] = m] \in [S -> SUBSET Event]
  OBVIOUS

\* Re-arming keeps the interests typed,
LEMMA RenableInterest ==
  ASSUME InterestPart, NEW fds, RenableAll(fds)
  PROVE  events' \in [Fd -> SUBSET Event] /\ mask' \in [Fd -> SUBSET Event]
<1>1. PICK ok \in [fds -> BOOLEAN] :
        /\ mask' = [fd \in Fd |-> IF fd \in fds \ {x \in fds : ~ok[x]} THEN events[fd] ELSE mask[fd]]
        /\ events' = [fd \in Fd |-> IF fd \in {x \in fds : ~ok[x]} THEN {} ELSE events[fd]]
  BY DEF RenableAll
<1> PICK F, G : F = {x \in fds : ~ok[x]} /\ G = fds \ F
  OBVIOUS
<1>2. /\ mask' = [fd \in Fd |-> IF fd \in G THEN events[fd] ELSE mask[fd]]
      /\ events' = [fd \in Fd |-> IF fd \in F THEN {} ELSE events[fd]]
  BY <1>1
<1>3. events \in [Fd -> SUBSET Event] /\ mask \in [Fd -> SUBSET Event] /\ {} \in SUBSET Event
  BY DEF InterestPart
<1>4. \A fd \in Fd : /\ (IF fd \in G THEN events[fd] ELSE mask[fd]) \in SUBSET Event
                     /\ (IF fd \in F THEN {} ELSE events[fd]) \in SUBSET Event
  BY <1>3
<1> QED
  BY <1>2, <1>4

\* as does every step.
LEMMA InterestStep ==
  ASSUME InterestPart, [Next]_vars
  PROVE  InterestPart'
<1>0. /\ {} \in SUBSET Event /\ {"IN"} \in SUBSET Event /\ {"OUT"} \in SUBSET Event
      /\ DEFAULT_EVENT \in SUBSET Event /\ Interests \subseteq SUBSET Event
  BY ConfigAssumption DEF Event
<1>1. ASSUME UNCHANGED <<events, mask, wanted>> PROVE InterestPart'
  BY <1>1 DEF InterestPart
<1>2. ASSUME NEW t \in IOThread, HandleEvent(t) PROVE InterestPart'
  <2>1. wanted' = wanted
    BY <1>2 DEF HandleEvent, workVars
  <2>2. PICK e \in batch[t] : CloseEvent(t, e[1]) \/ HandleRead(t, e[1]) \/ HandleWrite(t, e[1])
    BY <1>2 DEF HandleEvent
  <2>3. \/ CloseEvent(t, e[1])
        \/ \E fds : RenableAll(fds)
        \/ \E m \in SUBSET Event : SwapInterest(t, e[1], m)
    BY <2>2, <1>0 DEF HandleRead, HandleWrite, Handle, AppendTask, RearmEvent
  <2>4. CASE CloseEvent(t, e[1])
    BY <1>1, <2>1, <2>4 DEF CloseEvent
  <2>5. CASE \E fds : RenableAll(fds)
    BY <2>1, <2>5, RenableInterest DEF InterestPart
  <2>6. CASE \E m \in SUBSET Event : SwapInterest(t, e[1], m)
    <3>1. PICK m \in SUBSET Event : SwapInterest(t, e[1], m)
      BY <2>6
    <3>2. \/ events' = [events EXCEPT ![e[1]] = m] /\ mask' = [mask EXCEPT ![e[1]] = m]
          \/ events' = [events EXCEPT ![e[1]] = {}] /\ mask' = mask
      BY <3>1 DEF SwapInterest
    <3> QED
      BY <1>0, <2>1, <3>2, StoreInterest DEF InterestPart
  <2> QED
    BY <2>3, <2>4, <2>5, <2>6
<1>3. ASSUME NEW t \in IOThread, Commit(t) PROVE InterestPart'
  <2>1. wanted' = wanted /\ \E fds : RenableAll(fds)
    BY <1>3 DEF Commit, workVars
  <2> QED
    BY <2>1, RenableInterest DEF InterestPart
<1>4. ASSUME NEW t \in IOThread, EpollWait(t) \/ Reset(t) \/ IOExit(t) \/ Crash(t)
      PROVE  InterestPart'
  BY <1>1, <1>4 DEF EpollWait, Reset, IOExit, Crash, epollVars, workVars
<1>5. ASSUME NEW w \in Worker, CallbackEnable(w) PROVE InterestPart'
  <2> PICK fd : fd = Head(hand[w])
    OBVIOUS
  <2>1. PICK m \in Interests :
          \/ /\ mask' = [mask EXCEPT ![fd] = m] /\ wanted' = [wanted EXCEPT ![w] = m]
             /\ events' = events
          \/ events' = [events EXCEPT ![fd] = {}] /\ mask' = mask /\ wanted' = wanted
    BY <1>5 DEF CallbackEnable, workVars
  <2> QED
    BY <1>0, <2>1, StoreInterest DEF InterestPart
<1>6. ASSUME NEW w \in Worker, StoreZero(w) PROVE InterestPart'
  BY <1>0, <1>6, StoreInterest DEF StoreZero, InterestPart
<1>7. ASSUME NEW w \in Worker, StoreEvents(w) PROVE InterestPart'
  <2>1. wanted[w] \in SUBSET Event
    BY DEF InterestPart
  <2> QED
    BY <1>0, <1>7, <2>1, StoreInterest DEF StoreEvents, InterestPart
<1>8. ASSUME NEW w \in Worker, Take(w) \/ CallbackClose(w) PROVE InterestPart'
  BY <1>1, <1>8 DEF Take, CallbackClose, epollVars, workVars
<1>9. ASSUME HandleConnect PROVE InterestPart'
  <2> PICK fd : fd = newFd
    OBVIOUS
  <2>1. wanted' = wanted
    BY <1>9 DEF HandleConnect, workVars
  <2>2. /\ events' \in {events, [events EXCEPT ![fd] = DEFAULT_EVENT]}
        /\ mask' \in {mask, [mask EXCEPT ![fd] = DEFAULT_EVENT]}
    BY <1>9 DEF HandleConnect, Rejected, InitFails, AddFails, Connected, epollVars
  <2> QED
    BY <1>0, <2>1, <2>2, StoreInterest DEF InterestPart
<1>10. ASSUME Accept \/ AcceptFails \/ HandleCloseList \/ SetExitFlag \/ NextIteration
              \/ CloseConnection \/ CountDown
       PROVE  InterestPart'
  BY <1>1, <1>10 DEF Accept, AcceptFails, HandleCloseList, SetExitFlag, NextIteration,
       CloseConnection, CountDown, epollVars, workVars
<1>11. ASSUME PoolExit \/ PoolExited \/ ExitIOEventLoop \/ JoinIOThreads \/ UNCHANGED vars
       PROVE  InterestPart'
  BY <1>1, <1>11 DEF PoolExit, PoolExited, ExitIOEventLoop, JoinIOThreads, vars, epollVars, workVars
<1> QED
  BY <1>2, <1>3, <1>4, <1>5, <1>6, <1>7, <1>8, <1>9, <1>10, <1>11
     DEF Next, IOStep, Callback, MainStep, Ended

\* The types of the main thread's variables are kept.
LEMMA ControlStep ==
  ASSUME ControlPart, [Next]_vars
  PROVE  ControlPart'
<1>1. ASSUME UNCHANGED <<open, newFd, mainPc, mtx, exitFlag, exitEvent, failures, phase>>
      PROVE  ControlPart'
  BY <1>1 DEF ControlPart
<1>2. ASSUME NEW t \in IOThread, IOStep(t) PROVE ControlPart'
  <2>1. phase' = phase /\ open' = open
    BY <1>2 DEF IOStep, EpollWait, HandleEvent, Reset, Commit, IOExit, Crash, Pool!Submit,
         poolVars, mapVars
  <2>2. CASE UNCHANGED mainVars
    BY <1>1, <2>1, <2>2 DEF mainVars
  <2>3. CASE Crash(t)
    BY <2>1, <2>3 DEF Crash, ControlPart, MainPcs
  <2>4. Crash(t) \/ UNCHANGED mainVars
    BY <1>2 DEF IOStep, EpollWait, HandleEvent, Reset, Commit, IOExit
  <2> QED
    BY <2>2, <2>3, <2>4
<1>3. ASSUME NEW w \in Worker, Take(w) \/ Callback(w) PROVE ControlPart'
  <2>1. UNCHANGED mainVars /\ UNCHANGED mapVars
    BY <1>3 DEF Take, Callback, CallbackClose, CallbackEnable, StoreZero, StoreEvents
  <2>2. phase' = phase
    BY <1>3 DEF Take, Callback, CallbackClose, CallbackEnable, StoreZero, StoreEvents,
         Pool!Take, Pool!Finish, poolVars
  <2> QED
    BY <1>1, <2>1, <2>2 DEF mainVars, mapVars
<1>4. LoopTest \in MainPcs
  BY DEF LoopTest, MainPcs
<1>5. CASE HandleConnect
  <2>1. /\ mainPc' = LoopTest /\ newFd' = Stdin /\ UNCHANGED <<mtx, exitFlag, exitEvent, phase>>
    BY <1>5 DEF HandleConnect, poolVars
  <2>2. open' \subseteq open
    BY <1>5 DEF HandleConnect, Rejected, InitFails, AddFails, Connected, Destroy
  <2>3. failures' = failures \/ (failures < InitFailures /\ failures' = failures + 1)
    BY <1>5 DEF HandleConnect, Rejected, InitFails, AddFails, Connected
  <2>4. failures' \in 0 .. InitFailures
    BY <2>3, ConfigAssumption DEF ControlPart
  <2> QED
    BY <1>4, <2>1, <2>2, <2>4 DEF ControlPart
<1>6. CASE Accept
  BY <1>6 DEF Accept, poolVars, ControlPart, MainPcs
<1>7. CASE HandleCloseList
  BY <1>7 DEF HandleCloseList, mapVars, poolVars, ControlPart, MainPcs
<1>8. CASE CloseConnection
  BY <1>8 DEF CloseConnection, Destroy, poolVars, ControlPart, MainPcs
<1>9. CASE CountDown
  <2>1. /\ mainPc' \in {"polled", "close"} /\ mtx' \in {FALSE, mtx}
        /\ UNCHANGED <<open, newFd, exitFlag, exitEvent, failures, phase>>
    BY <1>9 DEF CountDown, poolVars
  <2> QED
    BY <2>1 DEF ControlPart, MainPcs
<1>10. CASE SetExitFlag \/ ExitIOEventLoop
  BY <1>10 DEF SetExitFlag, ExitIOEventLoop, poolVars, mapVars, ControlPart
<1>11. CASE NextIteration
  BY <1>4, <1>11 DEF NextIteration, poolVars, mapVars, ControlPart
<1>12. CASE AcceptFails \/ JoinIOThreads
  BY <1>12 DEF AcceptFails, JoinIOThreads, poolVars, mapVars, ControlPart, MainPcs
<1>13. CASE PoolExit \/ PoolExited
  BY <1>13 DEF PoolExit, PoolExited, Pool!BeginExit, Pool!EndExit, Pool!Phases, mapVars,
       ControlPart, MainPcs
<1>14. CASE UNCHANGED vars
  BY <1>1, <1>14 DEF vars, mainVars, mapVars, poolVars
<1> QED
  BY <1>2, <1>3, <1>5, <1>6, <1>7, <1>8, <1>9, <1>10, <1>11, <1>12, <1>13, <1>14
     DEF Next, MainStep, Ended

\* The connection that is destroyed and still counted has left the map.
Gone == mainPc = "uncount" => Head(closing) \notin connections

\* It stays out of the map until it is counted down.
LEMMA GoneStep ==
  ASSUME MainPart, Gone, [Next]_vars
  PROVE  Gone'
<1>1. CASE QuietSteps
  BY <1>1, QuietIs DEF Quiet, Gone
<1>2. CASE HandleConnect
  BY <1>2 DEF HandleConnect, LoopTest, Gone
<1>3. CASE CloseConnection
  BY <1>3 DEF CloseConnection, Gone
<1>4. CASE CountDown
  BY <1>4 DEF CountDown, Gone
<1> QED
  BY <1>1, <1>2, <1>3, <1>4, AllSteps

\* So no counter exceeds the number of descriptors.
LEMMA CountBound ==
  ASSUME NEW own, Owned(own), Counted(own), Gone
  PROVE  count \in [IOThread -> 0 .. Cardinality(Fd)]
<1> SUFFICES ASSUME NEW t \in IOThread PROVE count[t] \in 0 .. Cardinality(Fd)
  BY DEF Counted
<1>1. count[t] = Cardinality(Load(own, info, t)) + Late(t)
  BY DEF Counted
<1>2. CASE Late(t) = 0
  BY <1>1, <1>2, LoadSize
<1>3. CASE Late(t) # 0
  <2>1. mainPc = "uncount" /\ Late(t) = 1
    BY <1>3 DEF Late
  <2> PICK fd : fd = Head(closing)
    OBVIOUS
  <2>2. closing \in Seq(Fd) /\ closing # << >>
    BY <2>1 DEF Owned, Parts, MainPart
  <2>3. fd \in Fd
    BY <2>2, HeadTailProperties
  <2>4. own[fd] = Nobody
    BY <2>1, <2>3 DEF Owned, Known, Gone
  <2>5. Load(own, info, t) \in SUBSET (Fd \ {fd})
    BY <2>4 DEF Load
  <2>6. IsFiniteSet(Fd \ {fd}) /\ Cardinality(Fd \ {fd}) = Cardinality(Fd) - 1
    BY <2>3, Sizes, FS_RemoveElement
  <2>7. Cardinality(Load(own, info, t)) <= Cardinality(Fd) - 1
    BY <2>5, <2>6, FS_Subset
  <2> QED
    BY <1>1, <2>1, <2>7, LoadSize, Sizes
<1> QED
  BY <1>2, <1>3

\* The reactor is type-correct for any number of descriptors, I/O threads and
\* workers; in particular the index of the task buffer stays inside it and no load
\* counter becomes negative or exceeds the number of descriptors.
THEOREM ReactorTyped ==
  ASSUME FewOrSingle, NoStdin, Lossless
  PROVE  Spec => []TypeOK
<1> DEFINE Inv == (\E own : Owned(own) /\ Counted(own)) /\ InterestPart /\ ControlPart /\ Gone
<1>1. Init => Inv
  <2> SUFFICES ASSUME Init PROVE Inv
    OBVIOUS
  <2>1. InterestPart
    BY DEF Init, InterestPart
  <2>2. ControlPart
    <3>1. /\ open = {Stdin} /\ newFd = Stdin /\ mainPc = "poll" /\ phase = "up" /\ failures = 0
          /\ mtx = FALSE /\ exitFlag = TRUE /\ exitEvent = FALSE
      BY DEF Init, Pool!Init
    <3>2. 0 \in 0 .. InitFailures
      BY ConfigAssumption
    <3> QED
      BY <3>1, <3>2 DEF ControlPart, MainPcs, Pool!Phases
  <2>3. Gone
    BY DEF Init, Gone
  <2> QED
    BY <2>1, <2>2, <2>3, InitOwned, InitCounted
<1>2. Inv /\ [Next]_vars => Inv'
  <2> SUFFICES ASSUME NEW own, Owned(own), Counted(own), InterestPart, ControlPart, Gone, [Next]_vars
               PROVE  Inv'
    OBVIOUS
  <2>1. \E o : Owned(o)' /\ Counted(o)'
    BY CountedStep
  <2>2. InterestPart' /\ ControlPart' /\ Gone'
    BY InterestStep, ControlStep, GoneStep DEF Owned, Parts
  <2> QED
    BY <2>1, <2>2
<1>3. Inv => TypeOK
  <2> SUFFICES ASSUME NEW own, Owned(own), Counted(own), InterestPart, ControlPart, Gone
               PROVE  TypeOK
    OBVIOUS
  <2>1. EpollPart /\ IoPart /\ WorkPart /\ ListPart /\ MainPart
    BY DEF Owned, Parts
  <2>2. count \in [IOThread -> 0 .. Cardinality(Fd)] /\ info \in [Fd -> IOThread]
    BY CountBound DEF Counted
  <2>3. ASSUME NEW t \in IOThread
        PROVE  /\ batch[t] \subseteq (Fd \X {"HUP", "RD", "WR"}) \cup {<<-1, "EXIT">>}
               /\ util[t].flag \in BOOLEAN
               /\ util[t].back \in 0 .. (BATCH_SUBMIT - 1)
               /\ util[t].tasks \in Seq(Fd) /\ Len(util[t].tasks) <= BATCH_SUBMIT
    <3>1. batch[t] \in SUBSET Msgs /\ util[t] \in Utils /\ Shape(ioPc[t], batch[t], util[t])
      BY <2>1 DEF IoPart
    <3>2. batch[t] \subseteq (Fd \X {"HUP", "RD", "WR"}) \cup {<<-1, "EXIT">>}
      BY <3>1 DEF Msgs, Kinds, ExitMsg
    <3>3. /\ util[t].flag \in BOOLEAN /\ util[t].back \in 0 .. (BATCH_SUBMIT - 1)
          /\ util[t].tasks \in Seq(Fd) /\ Len(util[t].tasks) <= BATCH_SUBMIT
      BY <3>1 DEF Utils, Shape
    <3> QED
      BY <3>2, <3>3
  <2>4. ioPc \in [IOThread -> {"wait", "events", "commit", "reset", "exited", "dead"}]
    BY <2>1 DEF IoPart, IoPcs
  <2>5. waiting \in [Fd -> Nat]
    BY <2>1 DEF WorkPart
  <2>6. hand \in [Worker -> Seq(Fd)] /\ workPc \in [Worker -> {"run", "zero", "store"}]
    BY <2>1 DEF WorkPart
  <2>7. reg \subseteq Fd /\ armed \subseteq reg /\ cList \in Seq(Fd) /\ closing \in Seq(Fd)
        /\ connections \subseteq Fd
    BY <2>1 DEF EpollPart, ListPart, MainPart
  <2>8. /\ events \in [Fd -> SUBSET Event] /\ mask \in [Fd -> SUBSET Event]
        /\ wanted \in [Worker -> SUBSET Event]
    BY DEF InterestPart
  <2>9. /\ open \subseteq Fd \cup {Stdin} /\ newFd \in Fd \cup {Stdin} /\ phase \in Pool!Phases
        /\ {mtx, exitFlag, exitEvent} \subseteq BOOLEAN /\ failures \in 0 .. InitFailures
    BY DEF ControlPart
  <2>10. mainPc \in {"poll", "polled", "emplace", "close", "uncount", "left", "poolexit",
                     "ioexit", "done", "crashed"}
    BY DEF ControlPart, MainPcs
  <2> QED
    BY <2>2, <2>3, <2>4, <2>5, <2>6, <2>7, <2>8, <2>9, <2>10 DEF TypeOK
<1> QED
  BY <1>1, <1>2, <1>3, PTL DEF Spec
=============================================================================
