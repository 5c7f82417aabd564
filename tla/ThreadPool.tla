----------------------------- MODULE ThreadPool -----------------------------
(***************************************************************************)
(* The thread pool of base/ThreadPool.hpp with the blocking queues of      *)
(* base/TPBlockQueue.hpp.  Every worker has a bounded queue.  A producer   *)
(* picks a queue round-robin from a shared counter, looks at its size      *)
(* without its mutex, possibly diverts to the queue half way round, and    *)
(* only then pushes under the mutex of the queue it chose.  A worker       *)
(* empties its own queue, tries to steal from a queue that looks long      *)
(* enough, and otherwise waits on its own queue with a timeout.  exit()    *)
(* stops the queues one by one and joins the workers.                      *)
(*                                                                         *)
(* One action is one critical section of a queue's mutex, or one unlocked  *)
(* access to shared memory.  The linked nodes of a queue are a sequence.   *)
(***************************************************************************)
EXTENDS Integers, Sequences, FiniteSets

CONSTANTS Task,          \* the tasks; one is submitted again only when it was executed
          Producer,      \* the threads that submit (the I/O threads)
          threadNum,     \* number of workers and queues
          queueLength,   \* capacity of each queue
          batchSize,     \* the most tasks a worker takes at once
          MaxSubmit,     \* the longest array given to append_bulk
          INDEX_RANGE    \* the counter wraps at this value (2^32 in the code)

ASSUME SizesAssumption ==
    /\ threadNum \in Nat \ {0}
    /\ queueLength \in Nat \ {0}
    /\ batchSize \in 1 .. queueLength        \* init() refuses anything else
    /\ MaxSubmit \in 1 .. queueLength        \* asserted by append_bulk
    /\ INDEX_RANGE \in Nat \ {0}

Worker == 0 .. (threadNum - 1)
None == -1

VARIABLES queues,        \* queues[w]: the tasks queued for w, the oldest first
          isStopped,     \* isStopped[w]: stopWait() was called on w's queue
          index,         \* the round-robin counter
          pend,          \* pend[p]: the array p is submitting, or << >>
          target,        \* target[p]: the queue p chose for it, or None
          pc,            \* pc[w]: where worker w is
          hand,          \* hand[w]: the tasks w took and has not finished
          scan,          \* scan[w]: how many victims w tried in this steal
          lastVictim,    \* lastVictim[w]: the `index' of w's Stealer
          exitPc,        \* where the caller of exit() is: "up" before the call,
                         \* "stop" and "join" inside it, "down" after it
          shutdownPolicy \* the argument of exit()

vars == <<queues, isStopped, index, pend, target, pc, hand, scan, lastVictim,
          exitPc, shutdownPolicy>>

workerVars   == <<pc, hand, scan, lastVictim>>
producerVars == <<index, pend, target>>
exitVars     == <<isStopped, exitPc, shutdownPolicy>>

Min2(m, n) == IF m < n THEN m ELSE n

\* A worker without others waits on its queue only; a stop ends its loop.
Alone == threadNum = 1
LoopStart == IF Alone THEN "wait" ELSE "pop"

-----------------------------------------------------------------------------
(* Producers: append (one task) and append_bulk (several).                 *)

\* Tasks that are nowhere in the pool.
Outside == {t \in Task :
    /\ \A w \in Worker : \A i \in DOMAIN queues[w] : queues[w][i] # t
    /\ \A w \in Worker : \A i \in DOMAIN hand[w] : hand[w][i] # t
    /\ \A p \in Producer : \A i \in DOMAIN pend[p] : pend[p][i] # t}

Batches == {s \in UNION {[1 .. n -> Outside] : n \in 1 .. MaxSubmit} :
               \A i, j \in DOMAIN s : i # j => s[i] # s[j]}

\* next_index, and the look at the size of that queue without its mutex.
Chosen(n) ==
    LET first == index % threadNum
        short == IF n = 1 THEN Len(queues[first]) < queueLength
                          ELSE Len(queues[first]) + (n \div 2) <= queueLength
    IN  IF short THEN first ELSE (first + (threadNum \div 2)) % threadNum

\* The I/O threads go on submitting while exit() runs.
Route(p, s) ==
    /\ exitPc # "down"
    /\ pend[p] = << >>
    /\ pend' = [pend EXCEPT ![p] = s]
    /\ target' = [target EXCEPT ![p] = Chosen(Len(s))]
    /\ index' = (index + 1) % INDEX_RANGE
    /\ UNCHANGED <<queues, workerVars, exitVars>>

Submit(p) == \E s \in Batches : Route(p, s)

\* Faulty variants of Fitting: pushBulk trusts the size its caller saw without the
\* mutex; it keeps one place of the queue free.
FittingUnchecked(n, q) == n
FittingOneLess(n, q) == Min2(n, queueLength - Len(q) - 1)

\* How many of n tasks push and pushBulk add to the queue q.
Fitting(n, q) == Min2(n, queueLength - Len(q))

\* push and pushBulk: what fits is queued, the caller keeps the rest.
Push(p) ==
    /\ pend[p] # << >>
    /\ exitPc # "down"
    /\ queues' = [queues EXCEPT ![target[p]] =
                      @ \o SubSeq(pend[p], 1, Fitting(Len(pend[p]), @))]
    /\ pend' = [pend EXCEPT ![p] = << >>]
    /\ target' = [target EXCEPT ![p] = None]
    /\ UNCHANGED <<index, workerVars, exitVars>>

-----------------------------------------------------------------------------
(* Workers: process_single (batchSize = 1) and process_bulk.               *)

\* Faulty variants of TakeFrom: popBulk removes one node only; popBulk releases
\* the whole queue.
TakeFromDropsOne(w, q, next) ==
    /\ queues[q] # << >>
    /\ hand' = [hand EXCEPT ![w] = SubSeq(queues[q], 1, Min2(batchSize, Len(queues[q])))]
    /\ queues' = [queues EXCEPT ![q] = Tail(@)]
    /\ pc' = [pc EXCEPT ![w] = next]
TakeFromClears(w, q, next) ==
    /\ queues[q] # << >>
    /\ hand' = [hand EXCEPT ![w] = SubSeq(queues[q], 1, Min2(batchSize, Len(queues[q])))]
    /\ queues' = [queues EXCEPT ![q] = << >>]
    /\ pc' = [pc EXCEPT ![w] = next]

\* pop, popBulk: w takes the oldest tasks of queue q and goes on at next.
TakeFrom(w, q, next) ==
    LET n == Min2(batchSize, Len(queues[q]))
    IN  /\ queues[q] # << >>
        /\ hand' = [hand EXCEPT ![w] = SubSeq(queues[q], 1, n)]
        /\ queues' = [queues EXCEPT ![q] = SubSeq(@, n + 1, Len(@))]
        /\ pc' = [pc EXCEPT ![w] = next]

Goto(w, next) ==
    /\ pc' = [pc EXCEPT ![w] = next]
    /\ UNCHANGED <<queues, hand>>

At(w, where) == pc[w] = where /\ hand[w] = << >>

Pop(w) ==
    /\ At(w, "pop")
    /\ \/ TakeFrom(w, w, "pop")
       \/ queues[w] = << >> /\ Goto(w, "steal")
    /\ scan' = [scan EXCEPT ![w] = 0]
    /\ UNCHANGED <<lastVictim, producerVars, exitVars>>

\* The queues of the other workers in the order of the vector `other'.
Other(w, i) == IF i < w THEN i ELSE i + 1
Others == threadNum - 1
Threshold == Min2(batchSize * Others, queueLength)
Now(w) == (lastVictim[w] + scan[w]) % Others

\* steal looks at a victim's size without its mutex.
StealLook(w) ==
    /\ At(w, "steal")
    /\ IF scan[w] = Others
       THEN Goto(w, "wait") /\ UNCHANGED scan
       ELSE IF Len(queues[Other(w, Now(w))]) >= Threshold
            THEN Goto(w, "grab") /\ UNCHANGED scan
            ELSE scan' = [scan EXCEPT ![w] = @ + 1] /\ UNCHANGED <<pc, queues, hand>>
    /\ UNCHANGED <<lastVictim, producerVars, exitVars>>

\* The victim may have been emptied since the look.
StealGrab(w) ==
    /\ At(w, "grab")
    /\ LET victim == Other(w, Now(w))
       IN  \/ /\ TakeFrom(w, victim, "pop")
              /\ lastVictim' = [lastVictim EXCEPT ![w] = Now(w)]
              /\ UNCHANGED scan
           \/ /\ queues[victim] = << >>
              /\ Goto(w, "steal")
              /\ scan' = [scan EXCEPT ![w] = @ + 1]
              /\ UNCHANGED lastVictim
    /\ UNCHANGED <<producerVars, exitVars>>

\* Faulty variants of WaitPop: a stop counts before a task that is there; the
\* loop does not end at a stop.
WaitPopStopFirst(w) ==
    /\ At(w, "wait")
    /\ \/ ~isStopped[w] /\ TakeFrom(w, w, LoopStart)
       \/ isStopped[w] /\ Goto(w, "exited")
    /\ UNCHANGED <<scan, lastVictim, producerVars, exitVars>>
WaitPopNeverEnds(w) ==
    /\ At(w, "wait")
    /\ \/ TakeFrom(w, w, LoopStart)
       \/ queues[w] = << >> /\ isStopped[w] /\ Goto(w, LoopStart)
    /\ UNCHANGED <<scan, lastVictim, producerVars, exitVars>>

\* wait_pop, wait_popBulk: there is a task, or the queue was stopped.
WaitPop(w) ==
    /\ At(w, "wait")
    /\ \/ TakeFrom(w, w, LoopStart)
       \/ /\ queues[w] = << >> /\ isStopped[w]
          /\ Goto(w, IF Alone THEN "drain" ELSE "check")
    /\ UNCHANGED <<scan, lastVictim, producerVars, exitVars>>

\* HSLL_THREADPOOL_TIMEOUT passed and the queue is still empty.
WaitTimeout(w) ==
    /\ At(w, "wait") /\ ~Alone
    /\ queues[w] = << >> /\ ~isStopped[w]
    /\ Goto(w, "check")
    /\ UNCHANGED <<scan, lastVictim, producerVars, exitVars>>

\* Faulty variants of StoppedCheck: return without the drain, leave the loop at a
\* mere timeout, never leave it.
StoppedReturns(w) == IF isStopped[w] THEN "exited" ELSE "pop"
StoppedAtTimeout(w) == "drain"
StoppedNever(w) == "pop"

\* After a wait that returned nothing the worker reads isStopped without the
\* mutex.  process_bulk leaves its loop, process_single returns at once.
StoppedCheck(w) ==
    IF ~isStopped[w] THEN "pop" ELSE IF batchSize = 1 THEN "exited" ELSE "drain"

Check(w) ==
    /\ At(w, "check")
    /\ Goto(w, StoppedCheck(w))
    /\ UNCHANGED <<scan, lastVictim, producerVars, exitVars>>

Drain(w) ==
    /\ At(w, "drain")
    /\ \/ shutdownPolicy /\ TakeFrom(w, w, "drain")
       \/ (~shutdownPolicy \/ queues[w] = << >>) /\ Goto(w, "exited")
    /\ UNCHANGED <<scan, lastVictim, producerVars, exitVars>>

\* execute() of the next task the worker holds returned.
Execute(w) ==
    /\ hand[w] # << >>
    /\ hand' = [hand EXCEPT ![w] = Tail(@)]
    /\ UNCHANGED <<queues, pc, scan, lastVictim, producerVars, exitVars>>

WorkerStep(w) ==
    \/ Pop(w) \/ StealLook(w) \/ StealGrab(w) \/ WaitPop(w) \/ WaitTimeout(w)
    \/ Check(w) \/ Drain(w) \/ Execute(w)

-----------------------------------------------------------------------------
(* exit().                                                                 *)

BeginExit(policy) ==
    /\ exitPc = "up"
    /\ exitPc' = "stop"
    /\ shutdownPolicy' = policy
    /\ UNCHANGED <<queues, isStopped, producerVars, workerVars>>

\* stopWait on one queue after the other, in the order of the workers.
StopWait ==
    /\ exitPc = "stop"
    /\ LET i == Cardinality({w \in Worker : isStopped[w]})
       IN  /\ isStopped' = [isStopped EXCEPT ![i] = TRUE]
           /\ exitPc' = IF i + 1 = threadNum THEN "join" ELSE "stop"
    /\ UNCHANGED <<queues, shutdownPolicy, producerVars, workerVars>>

\* All workers joined: the queues and what is left in them are deleted.
Join ==
    /\ exitPc = "join"
    /\ \A w \in Worker : pc[w] = "exited"
    /\ exitPc' = "down"
    /\ UNCHANGED <<queues, isStopped, shutdownPolicy, producerVars, workerVars>>

\* exit() returned: nothing happens anymore.
Stopped ==
    /\ exitPc = "down"
    /\ UNCHANGED vars

-----------------------------------------------------------------------------
Init ==
    /\ queues = [w \in Worker |-> << >>]
    /\ isStopped = [w \in Worker |-> FALSE]
    /\ index \in 0 .. (INDEX_RANGE - 1)      \* never initialised by the code
    /\ pend = [p \in Producer |-> << >>]
    /\ target = [p \in Producer |-> None]
    /\ pc = [w \in Worker |-> LoopStart]
    /\ hand = [w \in Worker |-> << >>]
    /\ scan = [w \in Worker |-> 0]
    /\ lastVictim = [w \in Worker |-> 0]
    /\ exitPc = "up"
    /\ shutdownPolicy = TRUE

Next ==
    \/ \E p \in Producer : Submit(p) \/ Push(p)
    \/ \E w \in Worker : WorkerStep(w)
    \/ \E policy \in BOOLEAN : BeginExit(policy)
    \/ StopWait
    \/ Join
    \/ Stopped

\* Threads that can take a step do: the workers (and the tasks they execute
\* return), a producer between its choice and its push, the caller of exit().
Fairness ==
    /\ \A p \in Producer : WF_vars(Push(p))
    /\ \A w \in Worker : WF_vars(WorkerStep(w))
    /\ WF_vars(StopWait \/ Join)

Spec == Init /\ [][Next]_vars /\ Fairness

-----------------------------------------------------------------------------
(* Properties.                                                             *)

\* The variables have their types, and no queue exceeds its capacity although
\* producers choose a queue from a size they read without its mutex.
TypeOK ==
    /\ queues \in [Worker -> Seq(Task)]
    /\ \A w \in Worker : Len(queues[w]) <= queueLength
    /\ isStopped \in [Worker -> BOOLEAN]
    /\ index \in 0 .. (INDEX_RANGE - 1)
    /\ pend \in [Producer -> Seq(Task)]
    /\ target \in [Producer -> Worker \cup {None}]
    /\ pc \in [Worker -> {"pop", "steal", "grab", "wait", "check", "drain", "exited"}]
    /\ hand \in [Worker -> Seq(Task)]
    /\ \A w \in Worker : Len(hand[w]) <= batchSize
    /\ scan \in [Worker -> 0 .. Others]
    /\ lastVictim \in [Worker -> 0 .. Others]
    /\ exitPc \in {"up", "stop", "join", "down"}
    /\ shutdownPolicy \in BOOLEAN

QueuedIn(w, t) == {i \in DOMAIN queues[w] : queues[w][i] = t}

Pool == INSTANCE TaskPool WITH
    phase   <- IF exitPc \in {"up", "down"} THEN exitPc ELSE "stopping",
    waiting <- [t \in Task |-> Cardinality(UNION {{w} \X QueuedIn(w, t) : w \in Worker})]

\* The pool of ThreadPool.hpp keeps the promise of TaskPool: a task that append
\* or append_bulk reports as accepted is taken by one worker, once, whether the
\* owner of its queue pops it or another worker steals it.
ImplementsTaskPool == Pool!Spec

\* The end of append and append_bulk is TaskPool's Submit of the same array: what
\* is accepted is a prefix of it, and although the queue was chosen from a stale
\* size the submission is cut short only when the tasks in the pool and the array
\* together exceed the capacity of one queue.
PushIsSubmit ==
    [][\A p \in Producer :
          pend[p] # << >> /\ pend'[p] = << >> =>
              \E k \in 0 .. Len(pend[p]) : Pool!Submit(pend[p], k)]_vars

\* A task accepted before exit() is called is executed: a worker takes it,
\* although workers steal from each other, look at sizes without a lock and wait
\* on one queue only (until an immediate shutdown, which is allowed to drop it).
AcceptedIsTaken ==
    \A t \in Task :
        (exitPc = "up" /\ \E w \in Worker : QueuedIn(w, t) # {})
            ~> \/ \E w \in Worker : \E i \in DOMAIN hand[w] : hand[w][i] = t
               \/ exitPc # "up" /\ ~shutdownPolicy

\* exit() returns, unless producers submit forever while it runs: every worker
\* notices that its queue was stopped, wherever in its loop the stop finds it and
\* whatever was pushed to it since.
ExitReturns ==
    \/ []<>(\E p \in Producer : pend[p] # << >>)
    \/ (exitPc # "up") ~> (exitPc = "down")
=============================================================================
