------------------------------ MODULE TaskPool ------------------------------
(***************************************************************************)
(* What the thread pool promises to the I/O threads that submit to it,     *)
(* without its queues, its round-robin index and its stealing: a submitted *)
(* batch is accepted up to some prefix, all of it unless the pool is short *)
(* of room; an accepted task is handed to exactly one worker, once, and    *)
(* that worker executes the tasks it holds one after the other.            *)
(*                                                                         *)
(* ThreadPool implements this specification; SPSockTcp is composed with it.*)
(***************************************************************************)
EXTENDS Integers, Sequences, FiniteSets

CONSTANTS Task,          \* what can be submitted
          Worker,        \* the worker threads
          queueLength,   \* capacity of one worker's queue
          batchSize      \* the most tasks a worker takes at once

VARIABLES phase,         \* "up", "stopping" (inside exit()) or "down"
          waiting,       \* how often each task is waiting for a worker
          hand           \* the tasks each worker took, the one it executes first

vars == <<phase, waiting, hand>>

Phases == {"up", "stopping", "down"}

\* How often t occurs in s.
Count(s, t) == Cardinality({i \in DOMAIN s : s[i] = t})

\* The tasks of s all wait for a worker.
Waits(s) == \A t \in Task : Count(s, t) <= waiting[t]

\* What a worker may take: tasks that wait, at most batchSize of them.
Takeable == {s \in UNION {[1 .. n -> Task] : n \in 1 .. batchSize} : Waits(s)}

\* With n more the waiting tasks exceed the capacity of one queue.
Crowded(n) ==
    \E s \in UNION {[1 .. m -> Task] : m \in 0 .. queueLength} :
        Waits(s) /\ Len(s) + n > queueLength

Init ==
    /\ phase = "up"
    /\ waiting = [t \in Task |-> 0]
    /\ hand = [w \in Worker |-> << >>]

\* The first k tasks of s are accepted and the others refused.
Submit(s, k) ==
    /\ phase # "down"
    /\ k \in 0 .. Len(s)
    /\ UNCHANGED <<phase, hand>>
    /\ waiting' = [t \in Task |-> waiting[t] + Count(SubSeq(s, 1, k), t)]
    /\ k < Len(s) => Crowded(Len(s))

Take(w) ==
    /\ phase # "down"
    /\ hand[w] = << >>
    /\ \E s \in Takeable :
          /\ hand' = [hand EXCEPT ![w] = s]
          /\ waiting' = [t \in Task |-> waiting[t] - Count(s, t)]
    /\ UNCHANGED phase

\* The worker finished the first of its tasks.
Finish(w) ==
    /\ hand[w] # << >>
    /\ hand' = [hand EXCEPT ![w] = Tail(@)]
    /\ UNCHANGED <<phase, waiting>>

BeginExit ==
    /\ phase = "up"
    /\ phase' = "stopping"
    /\ UNCHANGED <<waiting, hand>>

\* All workers were joined.  Nothing that is left in the pool is executed.
EndExit ==
    /\ phase = "stopping"
    /\ \A w \in Worker : hand[w] = << >>
    /\ phase' = "down"
    /\ UNCHANGED <<waiting, hand>>

Next ==
    \/ \E s \in UNION {[1 .. n -> Task] : n \in 1 .. queueLength} :
          \E k \in 0 .. Len(s) : Submit(s, k)
    \/ \E w \in Worker : Take(w) \/ Finish(w)
    \/ BeginExit
    \/ EndExit

Spec == Init /\ [][Next]_vars
=============================================================================
