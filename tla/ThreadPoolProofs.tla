-------------------------- MODULE ThreadPoolProofs --------------------------
(***************************************************************************)
(* The thread pool for any number of workers and producers, any capacity   *)
(* and any batch: no queue overflows, a graceful exit leaves no task       *)
(* behind that was accepted before it, and the pool with its queues, stale *)
(* sizes and stealing is the TaskPool that the reactor is composed with.   *)
(***************************************************************************)
EXTENDS ThreadPoolExit, SequenceTheorems, FiniteSetTheorems, FunctionTheorems, TLAPS

-----------------------------------------------------------------------------
(* The invariant.                                                          *)

\* A producer that has an array has chosen a queue, and the array fits in one.
RouteInv == \A p \in Producer : pend[p] # << >> => target[p] \in Worker /\ Len(pend[p]) <= queueLength

\* A worker that is about to steal has a victim left.
StealInv == \A w \in Worker : pc[w] = "grab" => scan[w] < Others

\* exit() returns after the workers, and those leave with empty hands.
ExitInv ==
    /\ exitPc = "down" => \A w \in Worker : pc[w] = "exited"
    /\ \A w \in Worker : pc[w] = "exited" => hand[w] = << >>

PoolInv == TypeOK /\ RouteInv /\ StealInv /\ ExitInv

PcSet == {"pop", "steal", "grab", "wait", "check", "drain", "exited"}

QueueTypes ==
    /\ queues \in [Worker -> Seq(Task)]
    /\ \A w \in Worker : Len(queues[w]) <= queueLength
HandTypes ==
    /\ hand \in [Worker -> Seq(Task)]
    /\ \A w \in Worker : Len(hand[w]) <= batchSize
WorkerTypes ==
    /\ pc \in [Worker -> PcSet]
    /\ scan \in [Worker -> 0 .. Others]
    /\ lastVictim \in [Worker -> 0 .. Others]
SubmitTypes ==
    /\ index \in 0 .. (INDEX_RANGE - 1)
    /\ pend \in [Producer -> Seq(Task)]
    /\ target \in [Producer -> Worker \cup {None}]
ExitTypes ==
    /\ isStopped \in [Worker -> BOOLEAN]
    /\ exitPc \in {"up", "stop", "join", "down"}
    /\ shutdownPolicy \in BOOLEAN

\* TypeOK by the parts that actions share.
LEMMA TypeParts == TypeOK <=> QueueTypes /\ HandTypes /\ WorkerTypes /\ SubmitTypes /\ ExitTypes
  BY Zenon DEF TypeOK, QueueTypes, HandTypes, WorkerTypes, SubmitTypes, ExitTypes, PcSet

\* The same in the next state.
LEMMA NextTypeParts ==
  QueueTypes' /\ HandTypes' /\ WorkerTypes' /\ SubmitTypes' /\ ExitTypes' => TypeOK'
  BY Zenon DEF TypeOK, QueueTypes, HandTypes, WorkerTypes, SubmitTypes, ExitTypes, PcSet

-----------------------------------------------------------------------------
(* Arithmetic of the choices.                                              *)

\* The sizes of the pool as numbers.
LEMMA Sizes ==
  /\ threadNum \in Nat \ {0} /\ queueLength \in Nat \ {0} /\ INDEX_RANGE \in Nat \ {0}
  /\ batchSize \in Nat \ {0} /\ batchSize <= queueLength
  /\ MaxSubmit \in Nat \ {0} /\ MaxSubmit <= queueLength
  /\ Others \in Nat /\ Others = threadNum - 1
  BY SizesAssumption DEF Others

\* The smaller of two numbers.
LEMMA MinFacts ==
  ASSUME NEW m \in Nat, NEW n \in Nat
  PROVE  Min2(m, n) \in Nat /\ Min2(m, n) <= m /\ Min2(m, n) <= n
  BY DEF Min2

\* What fits beside l tasks, and a submission is cut short only if not all would.
LEMMA FitFacts ==
  ASSUME NEW m \in Nat, NEW l \in Nat, l <= queueLength
  PROVE  /\ Min2(m, queueLength - l) \in Nat /\ Min2(m, queueLength - l) <= m
         /\ l + Min2(m, queueLength - l) <= queueLength
         /\ Min2(m, queueLength - l) < m => l + m > queueLength
  BY Sizes DEF Min2

\* Wherever the counter stands, append and append_bulk choose a queue of the pool.
LEMMA ChosenIsWorker ==
  ASSUME index \in 0 .. (INDEX_RANGE - 1), NEW n
  PROVE  Chosen(n) \in Worker
<1> DEFINE first == index % threadNum
           second == (first + (threadNum \div 2)) % threadNum
<1>1. index \in Nat
  BY Sizes
<1>2. first \in 0 .. (threadNum - 1)
  BY <1>1, Sizes
<1> HIDE DEF first
<1>3. first + (threadNum \div 2) \in Nat
  BY <1>2, Sizes
<1>4. second \in 0 .. (threadNum - 1)
  <2> DEFINE sum == first + (threadNum \div 2)
  <2>1. sum \in Nat
    BY <1>3
  <2> HIDE DEF sum
  <2>2. sum % threadNum \in 0 .. (threadNum - 1)
    BY <2>1, Sizes
  <2> QED
    BY <2>2 DEF sum
<1> HIDE DEF second
<1>5. Chosen(n) \in {first, second}
  BY DEF Chosen, first, second
<1> QED
  BY <1>2, <1>4, <1>5 DEF Worker

\* The victim a worker looks at is another worker's queue.
LEMMA VictimIsWorker ==
  ASSUME WorkerTypes, NEW w \in Worker, scan[w] < Others
  PROVE  Now(w) \in 0 .. Others /\ Other(w, Now(w)) \in Worker /\ Other(w, Now(w)) # w
<1>1. scan[w] \in Nat /\ lastVictim[w] \in Nat /\ Others \in Nat \ {0}
  BY Sizes DEF WorkerTypes
<1>2. Now(w) \in 0 .. (Others - 1)
  <2> DEFINE sum == lastVictim[w] + scan[w]
  <2>1. sum \in Nat
    BY <1>1
  <2> HIDE DEF sum
  <2>2. sum % Others \in 0 .. (Others - 1)
    BY <1>1, <2>1
  <2> QED
    BY <2>2 DEF Now, sum
<1> QED
  BY <1>1, <1>2, Sizes DEF Other, Worker

-----------------------------------------------------------------------------
(* Taking from and adding to a queue.                                      *)

\* The first tasks of a queue and what remains.
LEMMA CutQueue ==
  ASSUME NEW s \in Seq(Task), NEW n \in Nat, n <= Len(s)
  PROVE  /\ SubSeq(s, 1, n) \in Seq(Task) /\ Len(SubSeq(s, 1, n)) = n
         /\ SubSeq(s, n + 1, Len(s)) \in Seq(Task) /\ Len(SubSeq(s, n + 1, Len(s))) = Len(s) - n
         /\ s = SubSeq(s, 1, n) \o SubSeq(s, n + 1, Len(s))
<1> DEFINE a == SubSeq(s, 1, n)
           b == SubSeq(s, n + 1, Len(s))
<1>1. /\ a \in Seq(Task) /\ Len(a) = n
      /\ \A i \in 1 .. n : a[i] = s[i]
  OBVIOUS
<1>2. /\ b \in Seq(Task) /\ Len(b) = Len(s) - n
      /\ \A i \in 1 .. (Len(s) - n) : b[i] = s[n + i]
  BY SubSeqProperties
<1> HIDE DEF a, b
<1> DEFINE u == a \o b
<1>3. /\ u \in Seq(Task) /\ Len(u) = Len(a) + Len(b)
      /\ \A i \in 1 .. (Len(a) + Len(b)) : u[i] = IF i <= Len(a) THEN a[i] ELSE b[i - Len(a)]
  BY <1>1, <1>2, ConcatProperties
<1> HIDE DEF u
<1>4. Len(u) = Len(s) /\ \A i \in 1 .. Len(s) : u[i] = s[i]
  BY <1>1, <1>2, <1>3
<1>5. s = u
  BY <1>3, <1>4, SeqEqual
<1> QED
  BY <1>1, <1>2, <1>5 DEF a, b, u

\* pop and popBulk take the oldest tasks, and no more than a batch.
LEMMA TakeFacts ==
  ASSUME QueueTypes, HandTypes, NEW w \in Worker, NEW q \in Worker, NEW next, TakeFrom(w, q, next)
  PROVE  /\ QueueTypes' /\ HandTypes' /\ pc' = [pc EXCEPT ![w] = next]
         /\ \E a, b \in Seq(Task) :
               /\ queues[q] = a \o b /\ Len(a) \in 1 .. batchSize /\ Len(a) <= Len(queues[q])
               /\ hand' = [hand EXCEPT ![w] = a] /\ queues' = [queues EXCEPT ![q] = b]
<1> DEFINE s == queues[q]
           n == Min2(batchSize, Len(s))
           a == SubSeq(s, 1, n)
           b == SubSeq(s, n + 1, Len(s))
<1>1. s \in Seq(Task) /\ Len(s) \in Nat /\ Len(s) <= queueLength /\ s # << >>
  BY DEF QueueTypes, TakeFrom
<1>2. Len(s) >= 1
  BY <1>1
<1>3. /\ hand' = [hand EXCEPT ![w] = a] /\ queues' = [queues EXCEPT ![q] = b]
      /\ pc' = [pc EXCEPT ![w] = next]
  BY DEF TakeFrom
<1> HIDE DEF s
<1>4. n \in Nat /\ n >= 1 /\ n <= batchSize /\ n <= Len(s)
  BY <1>1, <1>2, Sizes DEF Min2
<1> HIDE DEF n
<1>5. a \in Seq(Task) /\ Len(a) = n /\ b \in Seq(Task) /\ Len(b) = Len(s) - n /\ s = a \o b
  BY <1>1, <1>4, CutQueue
<1> HIDE DEF a, b
<1>6. QueueTypes'
  <2>1. queues' \in [Worker -> Seq(Task)]
    BY <1>3, <1>5 DEF QueueTypes
  <2>2. \A v \in Worker : queues'[v] = IF v = q THEN b ELSE queues[v]
    BY <1>3 DEF QueueTypes
  <2>3. Len(b) <= queueLength
    BY <1>1, <1>4, <1>5, Sizes
  <2>4. \A v \in Worker : Len(queues'[v]) <= queueLength
    BY <2>2, <2>3 DEF QueueTypes
  <2> QED
    BY <2>1, <2>4 DEF QueueTypes
<1>7. HandTypes'
  <2>1. hand' \in [Worker -> Seq(Task)]
    BY <1>3, <1>5 DEF HandTypes
  <2>2. \A v \in Worker : hand'[v] = IF v = w THEN a ELSE hand[v]
    BY <1>3 DEF HandTypes
  <2>3. \A v \in Worker : Len(hand'[v]) <= batchSize
    BY <1>4, <1>5, <2>2 DEF HandTypes
  <2> QED
    BY <2>1, <2>3 DEF HandTypes
<1>8. Len(a) \in 1 .. batchSize /\ Len(a) <= Len(s)
  BY <1>4, <1>5, Sizes
<1> QED
  BY <1>3, <1>5, <1>6, <1>7, <1>8 DEF s

\* push and pushBulk add what fits.
LEMMA PushFacts ==
  ASSUME PoolInv, NEW p \in Producer, Push(p)
  PROVE  /\ QueueTypes' /\ SubmitTypes' /\ target[p] \in Worker
         /\ pend[p] \in Seq(Task) /\ Len(pend[p]) \in 1 .. queueLength /\ pend'[p] = << >>
         /\ \A r \in Producer : pend'[r] \in {pend[r], << >>} /\ (pend'[r] # << >> => target'[r] = target[r])
         /\ \E k \in 0 .. Len(pend[p]) :
               /\ k < Len(pend[p]) => Len(queues[target[p]]) + Len(pend[p]) > queueLength
               /\ SubSeq(pend[p], 1, k) \in Seq(Task)
               /\ queues' = [queues EXCEPT ![target[p]] = queues[target[p]] \o SubSeq(pend[p], 1, k)]
<1> DEFINE q == target[p]
           s == pend[p]
           k == Fitting(Len(s), queues[q])
           a == SubSeq(s, 1, k)
           u == queues[q] \o a
<1>1. QueueTypes /\ SubmitTypes
  BY TypeParts DEF PoolInv
<1>2. /\ queues' = [queues EXCEPT ![q] = u] /\ pend' = [pend EXCEPT ![p] = << >>]
      /\ target' = [target EXCEPT ![p] = None] /\ index' = index /\ s # << >>
  BY DEF Push
<1>3. q \in Worker /\ s \in Seq(Task) /\ Len(s) <= queueLength /\ Len(s) \in Nat
  BY <1>1, <1>2 DEF PoolInv, RouteInv, SubmitTypes
<1>4. queues[q] \in Seq(Task) /\ Len(queues[q]) \in Nat /\ Len(queues[q]) <= queueLength
  BY <1>1, <1>3 DEF QueueTypes
<1>5. Len(s) >= 1
  BY <1>2, <1>3
<1>6. /\ k \in Nat /\ k <= Len(s) /\ Len(queues[q]) + k <= queueLength
      /\ k < Len(s) => Len(queues[q]) + Len(s) > queueLength
  BY <1>3, <1>4, FitFacts DEF Fitting
<1> HIDE DEF s, q, k
<1>7. a \in Seq(Task) /\ Len(a) = k
  BY <1>3, <1>6, CutQueue
<1> HIDE DEF a
<1>8. u \in Seq(Task) /\ Len(u) = Len(queues[q]) + Len(a)
  BY <1>4, <1>7, ConcatProperties
<1> HIDE DEF u
<1>9. QueueTypes'
  <2>1. queues' \in [Worker -> Seq(Task)]
    BY <1>1, <1>2, <1>8 DEF QueueTypes
  <2>2. \A v \in Worker : queues'[v] = IF v = q THEN u ELSE queues[v]
    BY <1>1, <1>2 DEF QueueTypes
  <2>3. Len(u) <= queueLength
    BY <1>6, <1>7, <1>8
  <2>4. \A v \in Worker : Len(queues'[v]) <= queueLength
    BY <1>1, <2>2, <2>3 DEF QueueTypes
  <2> QED
    BY <2>1, <2>4 DEF QueueTypes
<1>10. SubmitTypes'
  BY <1>1, <1>2 DEF SubmitTypes
<1>11. pend'[p] = << >> /\ \A r \in Producer : pend'[r] \in {pend[r], << >>} /\ (pend'[r] # << >> => target'[r] = target[r])
  BY <1>1, <1>2 DEF SubmitTypes
<1>12. k \in 0 .. Len(s) /\ Len(s) \in 1 .. queueLength
  BY <1>3, <1>5, <1>6, Sizes
<1>13. queues' = [queues EXCEPT ![q] = queues[q] \o SubSeq(s, 1, k)] /\ SubSeq(s, 1, k) \in Seq(Task)
  BY <1>2, <1>7 DEF u, a
<1> QED
  BY <1>3, <1>6, <1>9, <1>10, <1>11, <1>12, <1>13, Zenon DEF s, q

-----------------------------------------------------------------------------
(* Steps that keep the invariant.                                          *)

\* What a step of worker w alone leaves as it was, and what it has to show.
LEMMA WorkerFrame ==
  ASSUME PoolInv, NEW w \in Worker, NEW next \in PcSet,
         UNCHANGED <<producerVars, exitVars>>, pc[w] # "exited", next = "exited" => hand'[w] = << >>,
         QueueTypes', HandTypes', pc' = [pc EXCEPT ![w] = next],
         scan' \in [Worker -> 0 .. Others], lastVictim' \in [Worker -> 0 .. Others],
         \A v \in Worker : v # w => scan'[v] = scan[v] /\ hand'[v] = hand[v],
         next = "grab" => scan'[w] < Others
  PROVE  PoolInv'
<1>1. WorkerTypes /\ SubmitTypes /\ ExitTypes
  BY TypeParts DEF PoolInv
<1>2. \A v \in Worker : pc'[v] = IF v = w THEN next ELSE pc[v]
  BY <1>1 DEF WorkerTypes
<1>3. WorkerTypes'
  BY <1>1 DEF WorkerTypes
<1>4. SubmitTypes'
  BY <1>1, Zenon DEF SubmitTypes, producerVars
<1>5. ExitTypes'
  BY <1>1, Zenon DEF ExitTypes, exitVars
<1>6. RouteInv'
  BY DEF PoolInv, RouteInv, producerVars
<1>7. StealInv'
  BY <1>2 DEF PoolInv, StealInv
<1>8. ExitInv'
  BY <1>2 DEF PoolInv, ExitInv, exitVars
<1> QED
  BY <1>3, <1>4, <1>5, <1>6, <1>7, <1>8, NextTypeParts DEF PoolInv

\* A worker that goes on without taking anything.
LEMMA GotoStep ==
  ASSUME PoolInv, NEW w \in Worker, NEW next \in PcSet,
         UNCHANGED <<producerVars, exitVars>>, Goto(w, next), hand[w] = << >>, pc[w] # "exited",
         scan' \in [Worker -> 0 .. Others], lastVictim' = lastVictim,
         \A v \in Worker : v # w => scan'[v] = scan[v],
         next = "grab" => scan'[w] < Others
  PROVE  PoolInv'
<1>1. QueueTypes /\ HandTypes /\ lastVictim \in [Worker -> 0 .. Others]
  BY TypeParts DEF PoolInv, WorkerTypes
<1>2. queues' = queues /\ hand' = hand /\ pc' = [pc EXCEPT ![w] = next]
  BY DEF Goto
<1>3. QueueTypes' /\ HandTypes'
  BY <1>1, <1>2 DEF QueueTypes, HandTypes
<1> QED
  BY <1>1, <1>2, <1>3, WorkerFrame

\* A worker that takes tasks from a queue.
LEMMA TakeStep ==
  ASSUME PoolInv, NEW w \in Worker, NEW q \in Worker, NEW next \in {"pop", "wait", "drain"},
         UNCHANGED <<producerVars, exitVars>>, TakeFrom(w, q, next), pc[w] # "exited",
         scan' \in [Worker -> 0 .. Others], lastVictim' \in [Worker -> 0 .. Others],
         \A v \in Worker : v # w => scan'[v] = scan[v]
  PROVE  PoolInv'
<1>1. QueueTypes /\ HandTypes
  BY TypeParts DEF PoolInv
<1>2. QueueTypes' /\ HandTypes' /\ pc' = [pc EXCEPT ![w] = next]
  BY <1>1, TakeFacts
<1>3. \A v \in Worker : v # w => hand'[v] = hand[v]
  BY <1>1 DEF TakeFrom, HandTypes
<1>4. next \in PcSet /\ next # "exited" /\ next # "grab"
  BY DEF PcSet
<1> QED
  BY <1>2, <1>3, <1>4, WorkerFrame

\* Every step of a worker keeps the invariant.
LEMMA WorkerSteps ==
  ASSUME PoolInv, NEW w \in Worker, WorkerStep(w)
  PROVE  PoolInv'
<1>1. QueueTypes /\ HandTypes /\ WorkerTypes
  BY TypeParts DEF PoolInv
<1>2. scan \in [Worker -> 0 .. Others] /\ lastVictim \in [Worker -> 0 .. Others] /\ pc[w] \in PcSet
  BY <1>1 DEF WorkerTypes
<1>3. {"pop", "steal", "grab", "wait", "check", "drain", "exited"} \subseteq PcSet
  BY DEF PcSet
<1>4. CASE Pop(w)
  <2>1. /\ pc[w] = "pop" /\ hand[w] = << >> /\ scan' = [scan EXCEPT ![w] = 0]
        /\ UNCHANGED <<lastVictim, producerVars, exitVars>>
    BY <1>4 DEF Pop, At
  <2>2. scan' \in [Worker -> 0 .. Others] /\ \A v \in Worker : v # w => scan'[v] = scan[v]
    BY <1>2, <2>1, Sizes
  <2>3. CASE TakeFrom(w, w, "pop")
    BY <1>2, <2>1, <2>2, <2>3, TakeStep
  <2>4. CASE Goto(w, "steal")
    BY <1>3, <2>1, <2>2, <2>4, GotoStep
  <2> QED
    BY <1>4, <2>3, <2>4 DEF Pop
<1>5. CASE StealLook(w)
  <2>1. /\ pc[w] = "steal" /\ hand[w] = << >> /\ UNCHANGED <<lastVictim, producerVars, exitVars>>
    BY <1>5 DEF StealLook, At
  <2>2. CASE scan[w] = Others
    <3>1. Goto(w, "wait") /\ scan' = scan
      BY <1>5, <2>2 DEF StealLook
    <3> QED
      BY <1>2, <1>3, <2>1, <3>1, GotoStep
  <2>3. CASE scan[w] # Others
    <3>1. scan[w] < Others /\ scan[w] \in Nat
      BY <1>2, <2>3, Sizes
    <3>2. CASE Goto(w, "grab") /\ scan' = scan
      BY <1>2, <1>3, <2>1, <3>1, <3>2, GotoStep
    <3>3. CASE scan' = [scan EXCEPT ![w] = @ + 1] /\ UNCHANGED <<pc, queues, hand>>
      <4>1. scan' \in [Worker -> 0 .. Others] /\ \A v \in Worker : v # w => scan'[v] = scan[v]
        BY <1>2, <3>1, <3>3, Sizes
      <4>2. Goto(w, "steal")
        BY <1>1, <2>1, <3>3 DEF Goto, WorkerTypes
      <4> QED
        BY <1>3, <2>1, <4>1, <4>2, GotoStep
    <3> QED
      BY <1>5, <2>3, <3>2, <3>3 DEF StealLook
  <2> QED
    BY <2>2, <2>3
<1>6. CASE StealGrab(w)
  <2>1. /\ pc[w] = "grab" /\ hand[w] = << >> /\ UNCHANGED <<producerVars, exitVars>>
    BY <1>6 DEF StealGrab, At
  <2>2. scan[w] < Others /\ scan[w] \in Nat
    BY <1>2, <2>1, Sizes DEF PoolInv, StealInv
  <2> DEFINE victim == Other(w, Now(w))
  <2>3. victim \in Worker /\ Now(w) \in 0 .. Others
    BY <1>1, <2>2, VictimIsWorker
  <2>4. CASE /\ TakeFrom(w, victim, "pop") /\ lastVictim' = [lastVictim EXCEPT ![w] = Now(w)]
             /\ UNCHANGED scan
    <3> HIDE DEF victim
    <3>1. lastVictim' \in [Worker -> 0 .. Others]
      BY <1>2, <2>3, <2>4
    <3> QED
      BY <1>2, <2>1, <2>3, <2>4, <3>1, TakeStep
  <2>5. CASE Goto(w, "steal") /\ scan' = [scan EXCEPT ![w] = @ + 1] /\ UNCHANGED lastVictim
    <3>1. scan' \in [Worker -> 0 .. Others] /\ \A v \in Worker : v # w => scan'[v] = scan[v]
      BY <1>2, <2>2, <2>5, Sizes
    <3> QED
      BY <1>3, <2>1, <2>5, <3>1, GotoStep
  <2> QED
    BY <1>6, <2>4, <2>5 DEF StealGrab
<1>7. ASSUME UNCHANGED <<scan, lastVictim, producerVars, exitVars>>, hand[w] = << >>, pc[w] # "exited",
             NEW next \in {"pop", "wait", "drain"}, TakeFrom(w, w, next)
      PROVE  PoolInv'
  BY <1>2, <1>7, TakeStep
<1>8. ASSUME UNCHANGED <<scan, lastVictim, producerVars, exitVars>>, hand[w] = << >>, pc[w] # "exited",
             NEW next \in {"pop", "check", "drain", "exited"}, Goto(w, next)
      PROVE  PoolInv'
  BY <1>2, <1>3, <1>8, GotoStep
<1>9. CASE WaitPop(w) \/ WaitTimeout(w)
  BY <1>7, <1>8, <1>9 DEF WaitPop, WaitTimeout, At, LoopStart
<1>10. CASE Check(w)
  BY <1>8, <1>10 DEF Check, At, StoppedCheck
<1>11. CASE Drain(w)
  BY <1>7, <1>8, <1>11 DEF Drain, At
<1>12. CASE Execute(w)
  <2>1. /\ hand[w] # << >> /\ hand' = [hand EXCEPT ![w] = Tail(hand[w])]
        /\ UNCHANGED <<queues, pc, scan, lastVictim, producerVars, exitVars>>
    BY <1>12 DEF Execute
  <2>2. pc[w] # "exited" /\ pc' = [pc EXCEPT ![w] = pc[w]] /\ (pc[w] = "grab" => scan[w] < Others)
    BY <1>1, <2>1 DEF PoolInv, ExitInv, StealInv, WorkerTypes
  <2>3. HandTypes'
    <3> DEFINE r == Tail(hand[w])
    <3>1. r \in Seq(Task) /\ Len(r) <= batchSize
      BY <1>1, <2>1, Sizes DEF HandTypes
    <3> HIDE DEF r
    <3>2. hand' \in [Worker -> Seq(Task)] /\ \A v \in Worker : hand'[v] = IF v = w THEN r ELSE hand[v]
      BY <1>1, <2>1, <3>1 DEF HandTypes, r
    <3> QED
      BY <1>1, <3>1, <3>2 DEF HandTypes
  <2>4. QueueTypes' /\ \A v \in Worker : v # w => hand'[v] = hand[v]
    BY <1>1, <2>1 DEF QueueTypes, HandTypes
  <2> QED
    BY <1>2, <2>1, <2>2, <2>3, <2>4, WorkerFrame
<1> QED
  BY <1>4, <1>5, <1>6, <1>9, <1>10, <1>11, <1>12 DEF WorkerStep

\* Both steps of a producer keep the invariant.
LEMMA ProducerSteps ==
  ASSUME PoolInv, NEW p \in Producer, Submit(p) \/ Push(p)
  PROVE  PoolInv'
<1>1. QueueTypes /\ HandTypes /\ WorkerTypes /\ SubmitTypes /\ ExitTypes
  BY TypeParts DEF PoolInv
<1>2. UNCHANGED <<workerVars, exitVars>>
  BY DEF Submit, Route, Push
<1>3. HandTypes' /\ WorkerTypes'
  BY <1>1, <1>2 DEF HandTypes, WorkerTypes, workerVars
<1>4. ExitTypes'
  BY <1>1, <1>2, Zenon DEF ExitTypes, exitVars
<1>5. StealInv' /\ ExitInv'
  BY <1>2 DEF PoolInv, StealInv, ExitInv, workerVars, exitVars
<1>6. CASE Submit(p)
  <2>1. PICK s \in Batches : Route(p, s)
    BY <1>6 DEF Submit
  <2>2. s \in Seq(Task) /\ Len(s) <= queueLength
    <3>1. PICK n \in 1 .. MaxSubmit : s \in [1 .. n -> Outside]
      BY DEF Batches
    <3>2. n \in Nat /\ n <= queueLength
      BY Sizes
    <3>3. s \in [1 .. n -> Task]
      BY <3>1 DEF Outside
    <3> QED
      BY <3>2, <3>3
  <2>3. Chosen(Len(s)) \in Worker
    BY <1>1, ChosenIsWorker DEF SubmitTypes
  <2> DEFINE c == Chosen(Len(s))
  <2>4. /\ pend' = [pend EXCEPT ![p] = s] /\ target' = [target EXCEPT ![p] = c]
        /\ index' = (index + 1) % INDEX_RANGE /\ queues' = queues
    BY <2>1 DEF Route
  <2> HIDE DEF c
  <2>5. c \in Worker
    BY <2>3 DEF c
  <2>6. index' \in 0 .. (INDEX_RANGE - 1)
    <3>1. index + 1 \in Nat
      BY <1>1, Sizes DEF SubmitTypes
    <3> DEFINE j == index + 1
    <3>2. j \in Nat
      BY <3>1
    <3> HIDE DEF j
    <3>3. j % INDEX_RANGE \in 0 .. (INDEX_RANGE - 1)
      BY <3>2, Sizes
    <3> QED
      BY <2>4, <3>3 DEF j
  <2>7. SubmitTypes'
    BY <1>1, <2>2, <2>4, <2>5, <2>6 DEF SubmitTypes
  <2>8. \A r \in Producer : /\ pend'[r] = IF r = p THEN s ELSE pend[r]
                            /\ target'[r] = IF r = p THEN c ELSE target[r]
    BY <1>1, <2>4 DEF SubmitTypes
  <2>9. RouteInv'
    BY <2>2, <2>5, <2>8 DEF PoolInv, RouteInv
  <2>10. QueueTypes'
    BY <1>1, <2>4 DEF QueueTypes
  <2> QED
    BY <1>3, <1>4, <1>5, <2>7, <2>9, <2>10, NextTypeParts DEF PoolInv
<1>7. CASE Push(p)
  <2>1. /\ QueueTypes' /\ SubmitTypes'
        /\ \A r \in Producer : pend'[r] \in {pend[r], << >>} /\ (pend'[r] # << >> => target'[r] = target[r])
    BY <1>7, PushFacts
  <2>2. RouteInv'
    BY <2>1 DEF PoolInv, RouteInv
  <2> QED
    BY <1>3, <1>4, <1>5, <2>1, <2>2, NextTypeParts DEF PoolInv
<1> QED
  BY <1>6, <1>7

\* The steps of exit() keep the invariant.
LEMMA ExitSteps ==
  ASSUME PoolInv, (\E policy \in BOOLEAN : BeginExit(policy)) \/ StopWait \/ Join
  PROVE  PoolInv' /\ UNCHANGED <<queues, producerVars, workerVars>>
<1>1. QueueTypes /\ HandTypes /\ WorkerTypes /\ SubmitTypes /\ ExitTypes
  BY TypeParts DEF PoolInv
<1>2. UNCHANGED <<queues, producerVars, workerVars>>
  BY DEF BeginExit, StopWait, Join
<1>3. QueueTypes' /\ HandTypes' /\ WorkerTypes' /\ SubmitTypes'
  BY <1>1, <1>2, Zenon DEF QueueTypes, HandTypes, WorkerTypes, SubmitTypes, producerVars, workerVars
<1>4. RouteInv' /\ StealInv'
  BY <1>2 DEF PoolInv, RouteInv, StealInv, producerVars, workerVars
<1>5. ExitTypes'
  <2>1. CASE \E policy \in BOOLEAN : BeginExit(policy)
    BY <1>1, <2>1, Zenon DEF BeginExit, ExitTypes
  <2>2. CASE StopWait
    <3>1. PICK i : isStopped' = [isStopped EXCEPT ![i] = TRUE]
      BY <2>2 DEF StopWait
    <3>2. isStopped' \in [Worker -> BOOLEAN]
      BY <1>1, <3>1 DEF ExitTypes
    <3>3. exitPc' \in {"join", "stop"} /\ shutdownPolicy' = shutdownPolicy
      BY <2>2 DEF StopWait
    <3> QED
      BY <1>1, <3>2, <3>3 DEF ExitTypes
  <2>3. CASE Join
    BY <1>1, <2>3, Zenon DEF Join, ExitTypes
  <2> QED
    BY <2>1, <2>2, <2>3
<1>6. ExitInv'
  BY <1>2 DEF PoolInv, ExitInv, BeginExit, StopWait, Join, workerVars
<1> QED
  BY <1>2, <1>3, <1>4, <1>5, <1>6, NextTypeParts DEF PoolInv

\* The pool starts in the invariant.
LEMMA PoolInit == Init => PoolInv
<1> SUFFICES ASSUME Init PROVE PoolInv
  OBVIOUS
<1>1. << >> \in Seq(Task) /\ Len(<< >>) = 0 /\ 0 \in 0 .. Others /\ 0 <= queueLength /\ 0 <= batchSize
  BY Sizes
<1>2. QueueTypes
  BY <1>1 DEF Init, QueueTypes
<1>3. HandTypes
  BY <1>1 DEF Init, HandTypes
<1>4. WorkerTypes
  BY <1>1 DEF Init, WorkerTypes, PcSet, LoopStart
<1>5. SubmitTypes
  BY <1>1 DEF Init, SubmitTypes
<1>6. ExitTypes
  BY Zenon DEF Init, ExitTypes
<1>7. RouteInv /\ StealInv /\ ExitInv
  BY DEF Init, RouteInv, StealInv, ExitInv, LoopStart
<1> QED
  BY <1>2, <1>3, <1>4, <1>5, <1>6, <1>7, TypeParts DEF PoolInv

\* Every step keeps the invariant.
LEMMA PoolNext == PoolInv /\ [Next]_vars => PoolInv'
<1> SUFFICES ASSUME PoolInv, [Next]_vars PROVE PoolInv'
  OBVIOUS
<1>1. CASE \E p \in Producer : Submit(p) \/ Push(p)
  BY <1>1, ProducerSteps
<1>2. CASE \E w \in Worker : WorkerStep(w)
  BY <1>2, WorkerSteps
<1>3. CASE (\E policy \in BOOLEAN : BeginExit(policy)) \/ StopWait \/ Join
  BY <1>3, ExitSteps
<1>4. CASE UNCHANGED vars
  BY <1>4, Zenon DEF vars, PoolInv, TypeOK, RouteInv, StealInv, ExitInv
<1> QED
  BY <1>1, <1>2, <1>3, <1>4 DEF Next, Stopped

\* The invariant holds in every state.
LEMMA PoolAlways == Spec => []PoolInv
  BY PoolInit, PoolNext, PTL DEF Spec

\* For any sizes: no queue exceeds its capacity, although producers choose it from a
\* size they read without its mutex, no worker takes more than a batch, and every
\* index that append and steal compute is that of a queue.
THEOREM PoolTyped == Spec => []TypeOK
  BY PoolAlways, PTL DEF PoolInv

-----------------------------------------------------------------------------
(* A graceful exit.                                                        *)

\* Only workers that were stopped are past their loop, and a worker without others
\* never waits with a timeout.
StopInv ==
    /\ \A w \in Worker : isStopped[w] \/ pc[w] \in {"drain", "exited"} => exitPc # "up"
    /\ \A w \in Worker : pc[w] = "check" => ~Alone

\* The early tasks of a queue are in it, and a worker that has left for good under
\* the graceful policy has taken those of its own.
EarlyInv ==
    /\ early \in [Worker -> Nat]
    /\ \A w \in Worker : early[w] <= Len(queues[w])
    /\ \A w \in Worker : pc[w] = "exited" /\ shutdownPolicy => early[w] = 0

\* Tasks leave a queue at its head and join it at its tail, so the early ones stay
\* among those that are left.
LEMMA RememberStep ==
  ASSUME PoolInv, PoolInv', EarlyInv, Remember,
         exitPc = "up" /\ exitPc' # "up" => queues' = queues
  PROVE  /\ early' \in [Worker -> Nat]
         /\ \A w \in Worker : early'[w] <= Len(queues'[w])
         /\ exitPc # "up" => \A w \in Worker : early[w] = 0 => early'[w] = 0
<1>1. queues \in [Worker -> Seq(Task)] /\ queues' \in [Worker -> Seq(Task)]
  BY DEF PoolInv, TypeOK
<1>2. ASSUME NEW w \in Worker
      PROVE  /\ early'[w] \in Nat /\ early'[w] <= Len(queues'[w])
             /\ exitPc # "up" /\ early[w] = 0 => early'[w] = 0
  <2>1. Len(queues[w]) \in Nat /\ Len(queues'[w]) \in Nat
    BY <1>1, LenProperties
  <2>2. early[w] \in Nat /\ early[w] <= Len(queues[w])
    BY DEF EarlyInv
  <2>3. early'[w] = IF exitPc = "up"
                    THEN IF exitPc' = "up" THEN 0 ELSE Len(queues[w])
                    ELSE IF Taken(w) < early[w] THEN early[w] - Taken(w) ELSE 0
    BY DEF Remember
  <2>4. Taken(w) = IF Len(queues'[w]) < Len(queues[w])
                   THEN Len(queues[w]) - Len(queues'[w]) ELSE 0
    BY DEF Taken
  <2>5. CASE exitPc = "up"
    BY <2>1, <2>3, <2>5
  <2>6. CASE exitPc # "up"
    <3>1. Taken(w) \in Nat /\ Len(queues[w]) - Taken(w) <= Len(queues'[w])
      <4>1. ASSUME NEW a \in Nat, NEW b \in Nat, NEW d, d = IF b < a THEN a - b ELSE 0
            PROVE  d \in Nat /\ a - d <= b
        BY <4>1
      <4> QED
        BY <2>1, <2>4, <4>1
    <3>2. early'[w] = IF Taken(w) < early[w] THEN early[w] - Taken(w) ELSE 0
      BY <2>3, <2>6
    <3>3. CASE Taken(w) < early[w]
      <4>1. early'[w] = early[w] - Taken(w)
        BY <3>2, <3>3
      <4> QED
        BY <2>1, <2>2, <3>1, <3>3, <4>1
    <3>4. CASE ~(Taken(w) < early[w])
      BY <2>1, <3>2, <3>4
    <3> QED
      BY <3>3, <3>4
  <2> QED
    BY <2>5, <2>6
<1>3. early' \in [Worker -> Nat]
  BY <1>2 DEF Remember
<1> QED
  BY <1>2, <1>3

\* A worker is past its loop only inside exit(), and it leaves for good only when its
\* queue is empty, unless the policy lets it drop what is there.
LeavesDrained ==
    \A w \in Worker : pc'[w] = "exited" /\ pc[w] # "exited" /\ shutdownPolicy => queues[w] = << >>

\* What a step of worker w has to show for it.
LEMMA StopFrame ==
  ASSUME PoolInv, StopInv, NEW w \in Worker, NEW next, UNCHANGED exitVars,
         pc' = [pc EXCEPT ![w] = next],
         next \in {"drain", "exited"} => exitPc # "up",
         next = "check" => ~Alone,
         next = "exited" /\ pc[w] # "exited" /\ shutdownPolicy => queues[w] = << >>
  PROVE  StopInv' /\ LeavesDrained
<1>1. \A v \in Worker : pc'[v] = IF v = w THEN next ELSE pc[v]
  BY TypeParts DEF PoolInv, WorkerTypes
<1>2. isStopped' = isStopped /\ exitPc' = exitPc
  BY DEF exitVars
<1>3. \A v \in Worker : isStopped[v] \/ pc'[v] \in {"drain", "exited"} => exitPc # "up"
  BY <1>1 DEF StopInv
<1>4. \A v \in Worker : pc'[v] = "check" => ~Alone
  BY <1>1 DEF StopInv
<1>5. LeavesDrained
  BY <1>1 DEF LeavesDrained
<1> QED
  BY <1>2, <1>3, <1>4, <1>5, Zenon DEF StopInv, Alone

\* Workers leave their loop only after the stop, and through the drain.
LEMMA StopWorker ==
  ASSUME batchSize # 1 \/ Alone, PoolInv, StopInv, NEW w \in Worker, WorkerStep(w)
  PROVE  StopInv' /\ LeavesDrained
<1>1. UNCHANGED exitVars
  BY DEF WorkerStep, Pop, StealLook, StealGrab, WaitPop, WaitTimeout, Check, Drain, Execute
<1>2. pc \in [Worker -> PcSet]
  BY TypeParts DEF PoolInv, WorkerTypes
<1>3. ASSUME NEW q, NEW next, TakeFrom(w, q, next), next = "drain" => exitPc # "up",
             next \notin {"check", "exited"}
      PROVE  StopInv' /\ LeavesDrained
  BY <1>1, <1>3, StopFrame DEF TakeFrom
<1>4. ASSUME NEW next, Goto(w, next), next \in {"drain", "exited"} => exitPc # "up",
             next = "check" => ~Alone,
             next = "exited" /\ shutdownPolicy => queues[w] = << >>
      PROVE  StopInv' /\ LeavesDrained
  BY <1>1, <1>4, StopFrame DEF Goto
<1>5. CASE Pop(w)
  BY <1>3, <1>4, <1>5 DEF Pop
<1>6. CASE UNCHANGED pc
  <2>1. pc' = [pc EXCEPT ![w] = pc[w]]
    BY <1>2, <1>6
  <2> QED
    BY <1>1, <2>1, StopFrame DEF StopInv
<1>7. CASE StealLook(w)
  BY <1>4, <1>6, <1>7 DEF StealLook
<1>8. CASE StealGrab(w)
  BY <1>3, <1>4, <1>8 DEF StealGrab
<1>9. CASE WaitPop(w) \/ WaitTimeout(w)
  <2>1. isStopped[w] => exitPc # "up"
    BY DEF StopInv
  <2>2. CASE TakeFrom(w, w, LoopStart)
    BY <1>3, <2>2 DEF LoopStart
  <2>3. CASE isStopped[w] /\ Goto(w, IF Alone THEN "drain" ELSE "check")
    BY <1>4, <2>1, <2>3
  <2>4. CASE ~Alone /\ Goto(w, "check")
    BY <1>4, <2>4
  <2> QED
    BY <1>9, <2>2, <2>3, <2>4 DEF WaitPop, WaitTimeout
<1>10. CASE Check(w)
  <2>1. pc[w] = "check" /\ Goto(w, StoppedCheck(w)) /\ (isStopped[w] => exitPc # "up")
    BY <1>10 DEF Check, At, StopInv
  <2>2. batchSize # 1
    BY <2>1 DEF StopInv
  <2>3. StoppedCheck(w) = IF ~isStopped[w] THEN "pop" ELSE "drain"
    BY <2>2 DEF StoppedCheck
  <2> QED
    BY <1>4, <2>1, <2>3
<1>11. CASE Drain(w)
  <2>1. exitPc # "up"
    BY <1>11 DEF Drain, At, StopInv
  <2> QED
    BY <1>3, <1>4, <1>11, <2>1 DEF Drain
<1>12. CASE Execute(w)
  BY <1>6, <1>12 DEF Execute
<1> QED
  BY <1>5, <1>7, <1>8, <1>9, <1>10, <1>11, <1>12 DEF WorkerStep

\* The same of every step: the policy is chosen when no worker has left, and only
\* workers move their program counters.
LEMMA StopNext ==
  ASSUME batchSize # 1 \/ Alone, PoolInv, StopInv, [Next]_vars
  PROVE  /\ StopInv' /\ LeavesDrained
         /\ exitPc = "up" /\ exitPc' # "up" => queues' = queues /\ pc' = pc
         /\ exitPc # "up" => exitPc' # "up" /\ shutdownPolicy' = shutdownPolicy
<1>1. ASSUME NEW p \in Producer, Submit(p) \/ Push(p)
      PROVE  UNCHANGED <<workerVars, exitVars>>
  BY <1>1 DEF Submit, Route, Push
<1>2. ASSUME UNCHANGED <<workerVars, exitVars>> PROVE StopInv' /\ LeavesDrained
  BY <1>2 DEF StopInv, LeavesDrained, workerVars, exitVars, Alone
<1>3. ASSUME NEW w \in Worker, WorkerStep(w) PROVE UNCHANGED exitVars
  BY <1>3 DEF WorkerStep, Pop, StealLook, StealGrab, WaitPop, WaitTimeout, Check, Drain, Execute
<1>4. CASE (\E p \in Producer : Submit(p) \/ Push(p)) \/ UNCHANGED vars
  <2>1. UNCHANGED <<workerVars, exitVars>>
    BY <1>1, <1>4 DEF vars, workerVars, exitVars
  <2> QED
    BY <1>2, <2>1 DEF exitVars
<1>5. CASE \E w \in Worker : WorkerStep(w)
  BY <1>3, <1>5, StopWorker DEF exitVars
<1>6. CASE \E policy \in BOOLEAN : BeginExit(policy)
  BY <1>6 DEF BeginExit, StopInv, LeavesDrained, workerVars, Alone
<1>7. CASE StopWait \/ Join
  <2>1. /\ exitPc # "up" /\ exitPc' # "up" /\ shutdownPolicy' = shutdownPolicy
        /\ UNCHANGED <<queues, workerVars>>
    BY <1>7 DEF StopWait, Join
  <2> QED
    BY <2>1 DEF StopInv, LeavesDrained, workerVars, Alone
<1> QED
  BY <1>4, <1>5, <1>6, <1>7 DEF Next, Stopped

\* Every step keeps the two, if the workers do not take the short way of
\* process_single: whoever leaves has an empty queue, hence no early task in it, and
\* what is pushed to it afterwards is late.
LEMMA EarlyNext ==
  ASSUME batchSize # 1 \/ Alone, PoolInv, StopInv, EarlyInv, [ExitNext]_exitHistory
  PROVE  StopInv' /\ EarlyInv'
<1>1. [Next]_vars
  BY DEF ExitNext, exitHistory
<1>2. PoolInv'
  BY <1>1, PoolNext
<1>3. /\ StopInv' /\ LeavesDrained
      /\ exitPc = "up" /\ exitPc' # "up" => queues' = queues /\ pc' = pc
      /\ exitPc # "up" => exitPc' # "up" /\ shutdownPolicy' = shutdownPolicy
  BY <1>1, StopNext
<1>4. CASE ExitNext
  <2>1. /\ early' \in [Worker -> Nat]
        /\ \A w \in Worker : early'[w] <= Len(queues'[w])
        /\ exitPc # "up" => \A w \in Worker : early[w] = 0 => early'[w] = 0
    BY <1>2, <1>3, <1>4, RememberStep DEF ExitNext
  <2>2. ASSUME NEW w \in Worker, pc'[w] = "exited", shutdownPolicy' PROVE early'[w] = 0
    <3>1. CASE exitPc = "up"
      <4>1. pc[w] # "exited"
        BY <3>1 DEF StopInv
      <4>2. exitPc' # "up"
        BY <1>3, <2>2 DEF StopInv
      <4>3. pc' = pc
        BY <1>3, <3>1, <4>2
      <4> QED
        BY <2>2, <4>1, <4>3
    <3>2. CASE exitPc # "up"
      <4>1. shutdownPolicy
        BY <1>3, <2>2, <3>2
      <4>2. CASE pc[w] = "exited"
        BY <2>1, <3>2, <4>1, <4>2 DEF EarlyInv
      <4>3. CASE pc[w] # "exited"
        <5>1. queues[w] = << >>
          BY <1>3, <2>2, <4>1, <4>3 DEF LeavesDrained
        <5>2. early[w] = 0
          BY <5>1 DEF EarlyInv
        <5> QED
          BY <2>1, <3>2, <5>2
      <4> QED
        BY <4>2, <4>3
    <3> QED
      BY <3>1, <3>2
  <2> QED
    BY <1>3, <2>1, <2>2 DEF EarlyInv
<1>5. CASE UNCHANGED exitHistory
  BY <1>3, <1>5 DEF exitHistory, vars, EarlyInv
<1> QED
  BY <1>4, <1>5

\* When exit(true) returns, every task that was accepted before the call has been
\* taken by a worker, for any number of workers and producers and any sizes, while the
\* producers go on submitting, if the workers take batches or there is only one of
\* them.  (With several workers that take single tasks it is false: the configuration
\* MCThreadPoolSingle.cfg shows it.)
THEOREM EarlyTasksDrained ==
  ASSUME batchSize # 1 \/ Alone
  PROVE  ExitSpec => []EarlyDrained
<1>1. ExitInit => StopInv /\ EarlyInv
  BY DEF ExitInit, Init, StopInv, EarlyInv, LoopStart
<1>2. PoolInv /\ StopInv /\ EarlyInv /\ [ExitNext]_exitHistory => StopInv' /\ EarlyInv'
  BY EarlyNext
<1>3. PoolInv /\ EarlyInv => EarlyDrained
  BY DEF PoolInv, ExitInv, EarlyInv, EarlyDrained
<1>4. [ExitNext]_exitHistory => [Next]_vars
  BY DEF ExitNext, exitHistory
<1>5. ExitInit => Init
  BY DEF ExitInit
<1> QED
  BY <1>1, <1>2, <1>3, <1>4, <1>5, PoolInit, PoolNext, PTL DEF ExitSpec

-----------------------------------------------------------------------------
(* Counting tasks.                                                         *)

\* Where task t stands in the array s.
Spots(s, t) == {i \in DOMAIN s : s[i] = t}

\* An array has finitely many places.
LEMMA SpotsFinite ==
  ASSUME NEW s \in Seq(Task), NEW t
  PROVE  IsFiniteSet(Spots(s, t)) /\ Spots(s, t) \subseteq 1 .. Len(s) /\ Len(s) \in Nat
         /\ Cardinality(Spots(s, t)) \in Nat
<1>1. DOMAIN s = 1 .. Len(s) /\ Len(s) \in Nat
  BY LenProperties
<1>2. IsFiniteSet(1 .. Len(s))
  BY <1>1, FS_Interval
<1>3. Spots(s, t) \in SUBSET (1 .. Len(s))
  BY <1>1 DEF Spots
<1>4. IsFiniteSet(Spots(s, t))
  BY <1>2, <1>3, FS_Subset
<1> QED
  BY <1>1, <1>3, <1>4, FS_CardinalityType

\* How often a task occurs in two arrays joined.
LEMMA CountConcat ==
  ASSUME NEW a \in Seq(Task), NEW b \in Seq(Task), NEW t
  PROVE  Cardinality(Spots(a \o b, t)) = Cardinality(Spots(a, t)) + Cardinality(Spots(b, t))
<1> DEFINE u == a \o b
           m == Len(a)
           n == Len(b)
           A == Spots(a, t)
           B == Spots(b, t)
           S == {i + m : i \in B}
           f == [i \in B |-> i + m]
<1>1. /\ u \in Seq(Task) /\ Len(u) = m + n
      /\ \A i \in 1 .. (m + n) : u[i] = IF i <= m THEN a[i] ELSE b[i - m]
  BY ConcatProperties
<1>2. /\ DOMAIN a = 1 .. m /\ DOMAIN b = 1 .. n /\ m \in Nat /\ n \in Nat
  BY LenProperties
<1>3. DOMAIN u = 1 .. (m + n)
  BY <1>1, LenProperties
<1>4. /\ IsFiniteSet(A) /\ IsFiniteSet(B) /\ A \subseteq 1 .. m /\ B \subseteq 1 .. n
      /\ Cardinality(A) \in Nat /\ Cardinality(B) \in Nat
  BY SpotsFinite
<1> HIDE DEF u, m, n
<1>5. Spots(u, t) = A \cup S
  <2>1. ASSUME NEW i \in Spots(u, t) PROVE i \in A \cup S
    <3>1. i \in 1 .. (m + n) /\ u[i] = t
      BY <1>3, <2>1 DEF Spots
    <3>2. CASE i <= m
      BY <1>1, <1>2, <3>1, <3>2 DEF Spots
    <3>3. CASE ~ (i <= m)
      <4>1. i - m \in 1 .. n /\ b[i - m] = t /\ (i - m) + m = i
        BY <1>1, <1>2, <3>1, <3>3
      <4>2. i - m \in B
        BY <1>2, <4>1 DEF Spots
      <4> QED
        BY <4>1, <4>2
    <3> QED
      BY <3>2, <3>3
  <2>2. ASSUME NEW i \in A PROVE i \in Spots(u, t)
    BY <1>1, <1>2, <1>3, <2>2 DEF Spots
  <2>3. ASSUME NEW j \in B PROVE j + m \in Spots(u, t)
    <3>1. j \in 1 .. n /\ b[j] = t
      BY <1>2 DEF Spots
    <3>2. j + m \in 1 .. (m + n) /\ ~ (j + m <= m) /\ (j + m) - m = j
      BY <1>2, <3>1
    <3>3. u[j + m] = b[j]
      BY <1>1, <3>2
    <3> QED
      BY <1>3, <3>1, <3>2, <3>3 DEF Spots
  <2> QED
    BY <2>1, <2>2, <2>3
<1>6. A \cap S = {}
  BY <1>2, <1>4
<1>7. f \in [B -> S] /\ (\A i, j \in B : f[i] = f[j] => i = j) /\ \A x \in S : \E i \in B : f[i] = x
  BY <1>2, <1>4
<1> HIDE DEF A, B, S, f
<1>8. f \in Bijection(B, S)
  BY <1>7, Fun_IsBij
<1>9. ExistsBijection(B, S)
  BY <1>8, Fun_ExistsBij
<1>10. IsFiniteSet(S) /\ Cardinality(S) = Cardinality(B)
  BY <1>4, <1>9, FS_Bijection
<1>11. Cardinality(A \cup S) = Cardinality(A) + Cardinality(S) - Cardinality(A \cap S)
  BY <1>4, <1>10, FS_Union
<1>12. Cardinality(A \cap S) = 0
  BY <1>6, FS_EmptySet
<1> DEFINE ca == Cardinality(A)
           cb == Cardinality(B)
           cu == Cardinality(A \cup S)
<1>13. ca \in Nat /\ cb \in Nat /\ cu = ca + cb - 0
  BY <1>4, <1>10, <1>11, <1>12
<1>14. Cardinality(Spots(u, t)) = cu
  BY <1>5
<1> HIDE DEF ca, cb, cu
<1>15. cu = ca + cb
  BY <1>13
<1> QED
  BY <1>14, <1>15 DEF ca, cb, A, B, u

\* The places of task t in the queues qs.
Places(qs, t) == UNION {{w} \X Spots(qs[w], t) : w \in Worker}

\* The places of a task are those in one queue and those in the others.
LEMMA OneQueue ==
  ASSUME NEW qs \in [Worker -> Seq(Task)], \A w \in Worker : Len(qs[w]) <= queueLength,
         NEW q \in Worker, NEW x \in Seq(Task), NEW t
  PROVE  \E r \in Nat :
            /\ Cardinality(Places(qs, t)) = r + Cardinality(Spots(qs[q], t))
            /\ Cardinality(Places([qs EXCEPT ![q] = x], t)) = r + Cardinality(Spots(x, t))
<1> DEFINE R == UNION {{w} \X Spots(qs[w], t) : w \in Worker \ {q}}
           C(s) == {q} \X Spots(s, t)
<1>1. Places(qs, t) = R \cup C(qs[q]) /\ R \cap C(qs[q]) = {}
  BY DEF Places
<1>2. Places([qs EXCEPT ![q] = x], t) = R \cup C(x) /\ R \cap C(x) = {}
  <2> DEFINE ps == [qs EXCEPT ![q] = x]
  <2>1. ps[q] = x /\ \A w \in Worker \ {q} : ps[w] = qs[w]
    OBVIOUS
  <2> HIDE DEF ps
  <2>2. Places(ps, t) = R \cup C(ps[q]) /\ R \cap C(ps[q]) = {}
    BY <2>1 DEF Places
  <2> QED
    BY <2>1, <2>2 DEF ps
<1>3. IsFiniteSet(R)
  <2>1. IsFiniteSet(Worker) /\ IsFiniteSet(1 .. queueLength)
    BY Sizes, FS_Interval DEF Worker
  <2>2. IsFiniteSet(Worker \X (1 .. queueLength))
    BY <2>1, FS_Product
  <2>3. \A w \in Worker : Spots(qs[w], t) \subseteq 1 .. queueLength
    <3> SUFFICES ASSUME NEW w \in Worker PROVE Spots(qs[w], t) \subseteq 1 .. queueLength
      OBVIOUS
    <3>1. Spots(qs[w], t) \subseteq 1 .. Len(qs[w]) /\ Len(qs[w]) \in Nat
      BY SpotsFinite
    <3> QED
      BY <3>1, Sizes
  <2>4. R \in SUBSET (Worker \X (1 .. queueLength))
    BY <2>3
  <2> HIDE DEF R
  <2> QED
    BY <2>2, <2>4, FS_Subset
<1> HIDE DEF R
<1>4. ASSUME NEW s \in Seq(Task), R \cap C(s) = {}
      PROVE  Cardinality(R \cup C(s)) = Cardinality(R) + Cardinality(Spots(s, t))
  <2> DEFINE P == Spots(s, t)
             Q == {q} \X P
  <2>1. IsFiniteSet(P) /\ Cardinality(P) \in Nat
    BY SpotsFinite
  <2> HIDE DEF P
  <2>2. IsFiniteSet(Q) /\ Cardinality(Q) = 1 * Cardinality(P)
    <3> DEFINE O == {q}
    <3>1. IsFiniteSet(O) /\ Cardinality(O) = 1
      BY FS_Singleton
    <3> HIDE DEF O
    <3>2. IsFiniteSet(O \X P) /\ Cardinality(O \X P) = Cardinality(O) * Cardinality(P)
      BY <2>1, <3>1, FS_Product
    <3> QED
      BY <3>1, <3>2 DEF O
  <2> HIDE DEF Q
  <2>3. Cardinality(R \cup Q) = Cardinality(R) + Cardinality(Q) - Cardinality(R \cap Q)
    BY <1>3, <2>2, FS_Union
  <2>4. Cardinality(R \cap Q) = 0
    BY <1>4, FS_EmptySet DEF Q, P
  <2>5. Cardinality(R) \in Nat
    BY <1>3, FS_CardinalityType
  <2> DEFINE cr == Cardinality(R)
             cp == Cardinality(P)
             cu == Cardinality(R \cup Q)
  <2>6. cr \in Nat /\ cp \in Nat /\ cu = cr + (1 * cp) - 0
    BY <2>1, <2>2, <2>3, <2>4, <2>5
  <2> HIDE DEF cr, cp, cu
  <2>7. cu = cr + cp
    BY <2>6
  <2> QED
    BY <2>7 DEF cu, cr, cp, Q, P
<1>5. Cardinality(R) \in Nat
  BY <1>3, FS_CardinalityType
<1>6. Cardinality(Places(qs, t)) = Cardinality(R) + Cardinality(Spots(qs[q], t))
  BY <1>1, <1>4
<1>7. Cardinality(Places([qs EXCEPT ![q] = x], t)) = Cardinality(R) + Cardinality(Spots(x, t))
  BY <1>2, <1>4
<1> QED
  BY <1>5, <1>6, <1>7

-----------------------------------------------------------------------------
(* The pool implements TaskPool.                                           *)

\* Its variables `waiting' and `phase' in terms of the queues and of exit().
Waiting == [t \in Task |-> Cardinality(Places(queues, t))]
Phase   == IF exitPc \in {"up", "down"} THEN exitPc ELSE "stopping"

\* The refinement mapping in those terms.
LEMMA Mapping ==
  /\ [t \in Task |-> Cardinality(UNION {{w} \X QueuedIn(w, t) : w \in Worker})] = Waiting
  /\ \A s, t : Pool!Count(s, t) = Cardinality(Spots(s, t))
<1>1. \A S : Pool!Cardinality(S) = Cardinality(S)
  BY DEF Cardinality, Pool!Cardinality
<1> QED
  BY <1>1 DEF Waiting, Places, QueuedIn, Spots, Pool!Count

\* The same in the next state.
LEMMA NextMapping ==
  [t \in Task |-> Cardinality(UNION {{w} \X QueuedIn(w, t) : w \in Worker})]' = Waiting'
  BY DEF Waiting, Places, QueuedIn, Spots

\* What a task's waiting in the pool has to do with the queue q.
LEMMA WaitingIn ==
  ASSUME QueueTypes, NEW q \in Worker, NEW x \in Seq(Task), NEW t \in Task,
         queues' = [queues EXCEPT ![q] = x]
  PROVE  \E r \in Nat : /\ Waiting[t] = r + Cardinality(Spots(queues[q], t))
                        /\ Waiting'[t] = r + Cardinality(Spots(x, t))
<1>1. \E r \in Nat :
         /\ Cardinality(Places(queues, t)) = r + Cardinality(Spots(queues[q], t))
         /\ Cardinality(Places([queues EXCEPT ![q] = x], t)) = r + Cardinality(Spots(x, t))
  BY OneQueue DEF QueueTypes
<1>2. Waiting[t] = Cardinality(Places(queues, t))
  BY DEF Waiting
<1>3. Waiting'[t] = Cardinality(Places(queues', t))
  BY DEF Waiting, Places
<1> QED
  BY <1>1, <1>2, <1>3

\* push and pushBulk are a Submit of the same array: what is accepted is a prefix,
\* and it is short of the array only when the queue could not hold both.
LEMMA PushSimulates ==
  ASSUME PoolInv, NEW p \in Producer, Push(p)
  PROVE  /\ \E k \in 0 .. Len(pend[p]) : Pool!Submit(pend[p], k)
         /\ pend[p] \in UNION {[1 .. n -> Task] : n \in 1 .. queueLength}
<1> DEFINE q == target[p]
           s == pend[p]
<1>1. /\ q \in Worker /\ s \in Seq(Task) /\ Len(s) \in 1 .. queueLength
      /\ \E k \in 0 .. Len(s) :
            /\ k < Len(s) => Len(queues[q]) + Len(s) > queueLength
            /\ SubSeq(s, 1, k) \in Seq(Task)
            /\ queues' = [queues EXCEPT ![q] = queues[q] \o SubSeq(s, 1, k)]
  BY PushFacts
<1>2. PICK k \in 0 .. Len(s) :
            /\ k < Len(s) => Len(queues[q]) + Len(s) > queueLength
            /\ SubSeq(s, 1, k) \in Seq(Task)
            /\ queues' = [queues EXCEPT ![q] = queues[q] \o SubSeq(s, 1, k)]
  BY <1>1
<1>3. UNCHANGED <<workerVars, exitVars>> /\ exitPc # "down" /\ QueueTypes
  BY TypeParts DEF Push, PoolInv
<1> DEFINE a == SubSeq(s, 1, k)
           u == queues[q] \o a
<1>4. q \in Worker /\ QueueTypes
  BY <1>1, <1>3
<1>5. queues' = [queues EXCEPT ![q] = u] /\ a \in Seq(Task)
  BY <1>2
<1> HIDE DEF q, s, a
<1>6. queues[q] \in Seq(Task) /\ Len(queues[q]) <= queueLength /\ Len(queues[q]) \in Nat
  BY <1>4 DEF QueueTypes
<1>7. u \in Seq(Task)
  BY <1>5, <1>6, ConcatProperties
<1>8. ASSUME NEW t \in Task
      PROVE  /\ Waiting'[t] = Waiting[t] + Cardinality(Spots(a, t))
             /\ Cardinality(Spots(queues[q], t)) <= Waiting[t]
  <2> DEFINE n == Cardinality(Spots(queues[q], t))
             m == Cardinality(Spots(a, t))
             l == Cardinality(Spots(u, t))
  <2>1. l = n + m
    BY <1>5, <1>6, CountConcat
  <2>2. n \in Nat /\ m \in Nat
    BY <1>5, <1>6, SpotsFinite
  <2> HIDE DEF u
  <2>3. PICK r \in Nat : Waiting[t] = r + n /\ Waiting'[t] = r + l
    BY <1>4, <1>5, <1>7, WaitingIn
  <2> HIDE DEF n, m, l
  <2>4. Waiting'[t] = Waiting[t] + m /\ n <= Waiting[t]
    BY <2>1, <2>2, <2>3
  <2> QED
    BY <2>4 DEF n, m
<1> HIDE DEF u
<1>9. Phase # "down" /\ Phase' = Phase /\ hand' = hand
  BY <1>3 DEF Phase, workerVars, exitVars
<1>10. Waiting' = [t \in Task |-> Waiting[t] + Pool!Count(SubSeq(s, 1, k), t)]
  <2>1. Waiting' = [t \in Task |-> Waiting'[t]]
    BY DEF Waiting
  <2>2. \A t \in Task : Waiting'[t] = Waiting[t] + Pool!Count(a, t)
    BY <1>8, Mapping
  <2> QED
    BY <2>1, <2>2 DEF a
<1>11. k < Len(s) => Pool!Crowded(Len(s))
  <2> SUFFICES ASSUME k < Len(s) PROVE Pool!Crowded(Len(s))
    OBVIOUS
  <2> DEFINE x == queues[q]
  <2>1. Len(x) + Len(s) > queueLength
    BY <1>2 DEF x
  <2>2. x \in UNION {[1 .. m -> Task] : m \in 0 .. queueLength}
    <3>1. x \in [1 .. Len(x) -> Task] /\ Len(x) \in 0 .. queueLength
      BY <1>6, Sizes, LenProperties
    <3> QED
      BY <3>1
  <2>3. \A t \in Task : Pool!Count(x, t) <= Waiting[t]
    BY <1>8, Mapping
  <2>4. Pool!Waits(x)
    BY <2>3, Mapping DEF Pool!Waits
  <2> HIDE DEF x
  <2> QED
    BY <2>1, <2>2, <2>4 DEF Pool!Crowded
<1>12. Pool!Submit(s, k)
  <2> DEFINE W == [t \in Task |-> Cardinality(UNION {{w} \X QueuedIn(w, t) : w \in Worker})]
  <2>1. W = Waiting /\ W' = Waiting'
    BY Mapping, NextMapping
  <2>2. W' = [t \in Task |-> W[t] + Pool!Count(SubSeq(s, 1, k), t)]
    BY <1>10, <2>1
  <2>3. k \in 0 .. Len(s)
    OBVIOUS
  <2> QED
    BY <1>9, <1>11, <2>2, <2>3 DEF Pool!Submit, Phase
<1>13. s \in UNION {[1 .. n -> Task] : n \in 1 .. queueLength}
  BY <1>1, LenProperties
<1> QED
  BY <1>12, <1>13 DEF s

\* pop, popBulk, wait_pop and steal are a Take, whoever owns the queue.
LEMMA TakeSimulates ==
  ASSUME PoolInv, NEW w \in Worker, NEW q \in Worker, NEW next, TakeFrom(w, q, next),
         hand[w] = << >>, pc[w] # "exited", UNCHANGED exitPc
  PROVE  Pool!Take(w)
<1>1. QueueTypes /\ HandTypes
  BY TypeParts DEF PoolInv
<1>2. PICK a, b \in Seq(Task) :
         /\ queues[q] = a \o b /\ Len(a) \in 1 .. batchSize /\ Len(a) <= Len(queues[q])
         /\ hand' = [hand EXCEPT ![w] = a] /\ queues' = [queues EXCEPT ![q] = b]
  BY <1>1, TakeFacts, Zenon
<1>3. queues' = [queues EXCEPT ![q] = b]
  BY <1>2
<1>4. ASSUME NEW t \in Task
      PROVE  /\ Waiting'[t] = Waiting[t] - Cardinality(Spots(a, t))
             /\ Cardinality(Spots(a, t)) <= Waiting[t]
  <2> DEFINE n == Cardinality(Spots(a, t))
             m == Cardinality(Spots(b, t))
             l == Cardinality(Spots(queues[q], t))
  <2>1. Cardinality(Spots(a \o b, t)) = n + m
    BY CountConcat
  <2>2. l = n + m
    BY <1>2, <2>1
  <2>3. n \in Nat /\ m \in Nat
    BY SpotsFinite
  <2>4. PICK r \in Nat : Waiting[t] = r + l /\ Waiting'[t] = r + m
    BY <1>1, <1>3, WaitingIn
  <2> HIDE DEF n, m, l
  <2>5. Waiting'[t] = Waiting[t] - n /\ n <= Waiting[t]
    BY <2>2, <2>3, <2>4
  <2> QED
    BY <2>5 DEF n
<1>5. exitPc # "down"
  BY DEF PoolInv, ExitInv
<1> DEFINE W == [t \in Task |-> Cardinality(UNION {{v} \X QueuedIn(v, t) : v \in Worker})]
<1>6. W = Waiting /\ W' = Waiting'
  BY Mapping, NextMapping
<1>7. W' = [t \in Task |-> W[t] - Pool!Count(a, t)]
  <2>1. Waiting' = [t \in Task |-> Waiting'[t]]
    BY DEF Waiting
  <2>2. \A t \in Task : Waiting'[t] = Waiting[t] - Pool!Count(a, t)
    BY <1>4, Mapping
  <2> QED
    BY <1>6, <2>1, <2>2
<1>8. a \in Pool!Takeable
  <2>1. \A t \in Task : Pool!Count(a, t) <= W[t]
    BY <1>4, <1>6, Mapping
  <2>2. Pool!Waits(a)
    BY <2>1 DEF Pool!Waits
  <2>3. a \in [1 .. Len(a) -> Task]
    BY LenProperties
  <2>4. a \in UNION {[1 .. n -> Task] : n \in 1 .. batchSize}
    BY <1>2, <2>3
  <2> QED
    BY <2>2, <2>4 DEF Pool!Takeable
<1>9. hand' = [hand EXCEPT ![w] = a]
  BY <1>2
<1> QED
  BY <1>5, <1>7, <1>8, <1>9 DEF Pool!Take

\* A step that leaves the queues, the hands and exit() alone is none of TaskPool.
LEMMA PoolStutter ==
  ASSUME UNCHANGED <<queues, hand>>, Phase' = Phase
  PROVE  UNCHANGED Pool!vars
<1>1. Waiting' = Waiting
  BY DEF Waiting, Places
<1> QED
  BY <1>1, Mapping, NextMapping DEF Pool!vars, Phase

\* Every step of a worker is one of TaskPool or none.
LEMMA WorkerSimulates ==
  ASSUME PoolInv, NEW w \in Worker, WorkerStep(w)
  PROVE  [Pool!Next]_(Pool!vars)
<1>1. UNCHANGED <<producerVars, exitVars>>
  BY DEF WorkerStep, Pop, StealLook, StealGrab, WaitPop, WaitTimeout, Check, Drain, Execute
<1>2. Phase' = Phase /\ exitPc' = exitPc
  BY <1>1 DEF Phase, exitVars
<1>3. ASSUME NEW q \in Worker, NEW next, TakeFrom(w, q, next), hand[w] = << >>, pc[w] # "exited"
      PROVE  [Pool!Next]_(Pool!vars)
  BY <1>2, <1>3, TakeSimulates DEF Pool!Next
<1>4. CASE UNCHANGED <<queues, hand>>
  BY <1>2, <1>4, PoolStutter
<1>5. CASE Pop(w)
  BY <1>3, <1>4, <1>5 DEF Pop, Goto, At
<1>6. CASE StealLook(w)
  BY <1>4, <1>6 DEF StealLook, Goto
<1>7. CASE StealGrab(w)
  <2>1. pc[w] = "grab" /\ hand[w] = << >> /\ WorkerTypes
    BY <1>7, TypeParts DEF StealGrab, At, PoolInv
  <2>2. Other(w, Now(w)) \in Worker
    BY <2>1, VictimIsWorker DEF PoolInv, StealInv
  <2>3. CASE TakeFrom(w, Other(w, Now(w)), "pop")
    BY <1>3, <2>1, <2>2, <2>3
  <2> QED
    BY <1>4, <1>7, <2>3 DEF StealGrab, Goto
<1>8. CASE WaitPop(w) \/ WaitTimeout(w) \/ Check(w) \/ Drain(w)
  BY <1>3, <1>4, <1>8 DEF WaitPop, WaitTimeout, Check, Drain, Goto, At
<1>9. CASE Execute(w)
  <2>1. /\ hand[w] # << >> /\ hand' = [hand EXCEPT ![w] = Tail(@)] /\ queues' = queues
    BY <1>9 DEF Execute
  <2>2. Waiting' = Waiting
    BY <2>1 DEF Waiting, Places
  <2>3. Pool!Finish(w)
    BY <1>2, <2>1, <2>2, Mapping, NextMapping DEF Pool!Finish, Phase
  <2> QED
    BY <2>3 DEF Pool!Next
<1> QED
  BY <1>5, <1>6, <1>7, <1>8, <1>9 DEF WorkerStep

\* The steps of exit() are those of TaskPool, or none.
LEMMA ExitSimulates ==
  ASSUME PoolInv, (\E policy \in BOOLEAN : BeginExit(policy)) \/ StopWait \/ Join
  PROVE  [Pool!Next]_(Pool!vars)
<1>1. queues' = queues /\ hand' = hand
  BY ExitSteps DEF workerVars
<1> DEFINE W == [t \in Task |-> Cardinality(UNION {{v} \X QueuedIn(v, t) : v \in Worker})]
<1>2. W' = W
  BY <1>1 DEF QueuedIn
<1> HIDE DEF W
<1>3. CASE \E policy \in BOOLEAN : BeginExit(policy)
  <2>1. exitPc = "up" /\ exitPc' = "stop"
    BY <1>3 DEF BeginExit
  <2>2. Pool!BeginExit
    BY <1>1, <1>2, <2>1 DEF Pool!BeginExit, W
  <2> QED
    BY <2>2 DEF Pool!Next
<1>4. CASE StopWait
  <2>1. Phase' = Phase
    BY <1>4 DEF StopWait, Phase
  <2> QED
    BY <1>1, <2>1, PoolStutter
<1>5. CASE Join
  <2>1. exitPc = "join" /\ exitPc' = "down" /\ \A w \in Worker : hand[w] = << >>
    BY <1>5 DEF Join, PoolInv, ExitInv
  <2>2. Pool!EndExit
    BY <1>1, <1>2, <2>1 DEF Pool!EndExit, W
  <2> QED
    BY <2>2 DEF Pool!Next
<1> QED
  BY <1>3, <1>4, <1>5

\* Choosing a queue is no step of TaskPool.
LEMMA RouteSimulates ==
  ASSUME NEW p \in Producer, Submit(p)
  PROVE  UNCHANGED Pool!vars
<1>1. UNCHANGED <<queues, hand>> /\ Phase' = Phase
  BY DEF Submit, Route, workerVars, exitVars, Phase
<1> QED
  BY <1>1, PoolStutter

\* The pool starts empty.
LEMMA InitSimulates == Init => Pool!Init
<1> SUFFICES ASSUME Init PROVE Pool!Init
  OBVIOUS
<1>1. \A t \in Task : Places(queues, t) = {}
  BY DEF Init, Places, Spots
<1>2. Waiting = [t \in Task |-> 0]
  BY <1>1, FS_EmptySet DEF Waiting
<1> QED
  BY <1>2, Mapping DEF Init, Pool!Init

\* The pool of ThreadPool.hpp keeps the promise of TaskPool, for any number of
\* workers and producers, any capacity and batch, with or without late submissions:
\* an accepted task is taken by one worker, once, also when it is stolen.
THEOREM PoolImplementsTaskPool == Spec => ImplementsTaskPool
<1>1. PoolInv /\ [Next]_vars => [Pool!Next]_(Pool!vars)
  <2> SUFFICES ASSUME PoolInv, [Next]_vars PROVE [Pool!Next]_(Pool!vars)
    OBVIOUS
  <2>1. ASSUME NEW p \in Producer, Submit(p) PROVE [Pool!Next]_(Pool!vars)
    BY <2>1, RouteSimulates
  <2>2. ASSUME NEW p \in Producer, Push(p) PROVE [Pool!Next]_(Pool!vars)
    BY <2>2, PushSimulates DEF Pool!Next
  <2>3. ASSUME NEW w \in Worker, WorkerStep(w) PROVE [Pool!Next]_(Pool!vars)
    BY <2>3, WorkerSimulates
  <2>4. CASE (\E policy \in BOOLEAN : BeginExit(policy)) \/ StopWait \/ Join
    BY <2>4, ExitSimulates
  <2>5. CASE UNCHANGED vars
    <3>1. UNCHANGED <<queues, hand>> /\ Phase' = Phase
      BY <2>5 DEF vars, Phase
    <3> QED
      BY <3>1, PoolStutter
  <2> QED
    BY <2>1, <2>2, <2>3, <2>4, <2>5 DEF Next, Stopped
<1> QED
  BY <1>1, InitSimulates, PoolAlways, PTL DEF Spec, ImplementsTaskPool, Pool!Spec

\* Every array a producer hands over is submitted as TaskPool says: a prefix of it is
\* accepted, all of it unless the tasks of the pool and the array exceed one queue.
THEOREM PushesAreSubmits == Spec => PushIsSubmit
<1> DEFINE A == \A p \in Producer :
                   pend[p] # << >> /\ pend'[p] = << >> =>
                       \E k \in 0 .. Len(pend[p]) : Pool!Submit(pend[p], k)
<1>1. PoolInv /\ [Next]_vars => [A]_vars
  <2> SUFFICES ASSUME PoolInv, Next, NEW p \in Producer, pend[p] # << >>, pend'[p] = << >>
               PROVE  \E k \in 0 .. Len(pend[p]) : Pool!Submit(pend[p], k)
    OBVIOUS
  <2>1. Push(p)
    <3>1. SubmitTypes
      BY TypeParts DEF PoolInv
    <3>2. pend' # pend
      OBVIOUS
    <3>3. PICK r \in Producer : Submit(r) \/ Push(r)
      BY <3>2 DEF Next, WorkerStep, Pop, StealLook, StealGrab, WaitPop, WaitTimeout, Check, Drain,
                  Execute, BeginExit, StopWait, Join, Stopped, vars, producerVars
    <3>4. CASE r # p
      BY <3>1, <3>3, <3>4 DEF Submit, Route, Push, SubmitTypes
    <3>5. CASE r = p /\ Submit(p)
      BY <3>5 DEF Submit, Route
    <3> QED
      BY <3>3, <3>4, <3>5
  <2> QED
    BY <2>1, PushSimulates
<1> QED
  BY <1>1, PoolAlways, PTL DEF Spec, PushIsSubmit
=============================================================================
