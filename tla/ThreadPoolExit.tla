--------------------------- MODULE ThreadPoolExit ---------------------------
(***************************************************************************)
(* ThreadPool with a history variable: how many tasks of each queue were   *)
(* there when exit() was called and have not been taken.  A queue is       *)
(* first-in first-out, so these are its oldest tasks.  Nothing of the pool *)
(* depends on the variable.                                                *)
(***************************************************************************)
EXTENDS ThreadPool

VARIABLE early           \* early[w]: tasks of queues[w] accepted before exit()

exitHistory == <<vars, early>>

\* How many tasks a step removes from the queue of w.
Taken(w) == IF Len(queues'[w]) < Len(queues[w]) THEN Len(queues[w]) - Len(queues'[w]) ELSE 0

\* The call of exit() counts what is queued; a take uses up the oldest tasks; a
\* push adds late ones, which are not counted.
Remember ==
    early' = [w \in Worker |->
                 IF exitPc = "up"
                 THEN IF exitPc' = "up" THEN 0 ELSE Len(queues[w])
                 ELSE IF Taken(w) < early[w] THEN early[w] - Taken(w) ELSE 0]

ExitInit == Init /\ early = [w \in Worker |-> 0]

ExitNext == Next /\ Remember

ExitSpec == ExitInit /\ [][ExitNext]_exitHistory /\ Fairness

-----------------------------------------------------------------------------
\* exit(true) is documented as "graceful shutdown (waiting for tasks to
\* complete)": when it returns, every task accepted before the call has been
\* taken by a worker, although producers go on pushing while the workers leave.
EarlyDrained ==
    exitPc = "down" /\ shutdownPolicy => \A w \in Worker : early[w] = 0
=============================================================================
