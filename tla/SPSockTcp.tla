----------------------------- MODULE SPSockTcp -----------------------------
(***************************************************************************)
(* The TCP reactor of SPSock.cpp while EventLoop() runs: the main thread   *)
(* accepts connections and destroys closed ones, the I/O threads turn      *)
(* epoll events into tasks, and the workers of the thread pool run the     *)
(* application's callbacks.                                                *)
(*                                                                         *)
(* A connection is a file descriptor; its controller is the entry of the   *)
(* map `connections' with that key.  EPOLLONESHOT disarms a descriptor     *)
(* when its event is delivered, so the connection then belongs to the      *)
(* thread that received the event until somebody re-arms it or closes it.  *)
(* Bytes are left out: whether readSocket fails, whether a watermark is    *)
(* reached and what the application decides are free choices.              *)
(*                                                                         *)
(* The pool is the abstract TaskPool that module ThreadPool implements;    *)
(* epoll, accept and close are modelled from how the code uses them.       *)
(***************************************************************************)
EXTENDS Integers, Sequences, FiniteSets, SequencesExt

CONSTANTS Fd,                \* the descriptors accept() may return
          IOThreads,         \* number of I/O threads
          Worker,            \* the threads of the pool
          QUEUE_LENGTH,      \* THREADPOOL_QUEUE_LENGTH
          BATCH_SUBMIT,      \* THREADPOOL_BATCH_SIZE_SUBMIT
          BATCH_PROCESS,     \* THREADPOOL_BATCH_SIZE_PROCESS
          MAX_EVENT,         \* EPOLL_MAX_EVENT_BSIZE
          DEFAULT_EVENT,     \* EPOLL_DEFAULT_EVENT, a subset of {"IN", "OUT"}
          CLOSE_BATCH,       \* the 10 of HandleCloseList
          Callbacks,         \* which of "rdp", "wtp" the application registered
          Marks,             \* which of "rdp", "wtp" have a watermark
          Interests,         \* the arguments a callback gives to enableEvents
          CtlMayFail,        \* whether fcntl and epoll_ctl may fail on an open descriptor
          InitFailures,      \* how often controller.init may run out of memory
          MayExit            \* whether poll() or accept() may fail and the exit flag be
                             \* cleared

IOThread == 0 .. (IOThreads - 1)
Event == {"IN", "OUT"}
Stdin == 0                   \* the descriptor a zero-initialised controller names

ASSUME ConfigAssumption ==
    /\ IsFiniteSet(Fd)
    /\ IOThreads \in Nat \ {0}
    /\ QUEUE_LENGTH \in Nat \ {0}
    /\ BATCH_SUBMIT \in 1 .. QUEUE_LENGTH
    /\ BATCH_PROCESS \in 1 .. QUEUE_LENGTH
    /\ MAX_EVENT \in Nat \ {0}
    /\ DEFAULT_EVENT \subseteq Event
    /\ CLOSE_BATCH \in Nat
    /\ Callbacks \subseteq {"rdp", "wtp"} /\ Marks \subseteq {"rdp", "wtp"}
    /\ Interests \subseteq SUBSET Event
    /\ CtlMayFail \in BOOLEAN /\ MayExit \in BOOLEAN /\ InitFailures \in Nat

VARIABLES
    open,        \* descriptors the process has open
    connections, \* keys of the connection map
    info,        \* info[fd]: the I/O thread of the controller
    events,      \* events[fd]: the controller's copy of its interest
    count,       \* count[t]: connections the main thread counts for thread t
    reg,         \* descriptors registered with the epoll of their thread
    armed,       \* the registered ones that can deliver an event
    mask,        \* mask[fd]: the interest epoll has for fd
    ioPc,        \* ioPc[t]: where I/O thread t is
    batch,       \* batch[t]: events t received and has not looked at
    util,        \* util[t]: the UtilTaskTcp of t
    phase, waiting, hand,    \* the thread pool (see TaskPool)
    workPc,      \* workPc[w]: where w is in the callback of Head(hand[w])
    wanted,      \* wanted[w]: the interest w asked for in enableEvents
    cList,       \* the close list
    mtx,         \* whether the main thread holds the mutex of the close list
    mainPc,      \* where the main thread is
    newFd,       \* the descriptor HandleConnect accepted
    closing,     \* the connections HandleCloseList still has to destroy
    exitFlag,    \* FALSE once the loop was asked to stop
    exitEvent,   \* whether the exit descriptors of the I/O threads are readable
    failures     \* how often controller.init failed

epollVars == <<reg, armed, mask, events, cList>>
ioVars    == <<ioPc, batch, util>>
poolVars  == <<phase, waiting, hand>>
workVars  == <<workPc, wanted>>
mapVars   == <<open, connections, info, count>>
mainVars  == <<mtx, mainPc, newFd, closing, exitFlag, exitEvent, failures>>
vars      == <<epollVars, ioVars, poolVars, workVars, mapVars, mainVars>>

Pool == INSTANCE TaskPool WITH
            Task <- Fd, queueLength <- QUEUE_LENGTH, batchSize <- BATCH_PROCESS

-----------------------------------------------------------------------------
(* Closing and re-arming.                                                  *)

\* ActiveClose: leave epoll, then join the close list under its mutex.  Nobody
\* looks at the connection between the two, so they are one step.
ActiveClose(fd) ==
    /\ ~mtx
    /\ reg' = reg \ {fd}
    /\ armed' = armed \ {fd}
    /\ cList' = Append(cList, fd)

\* What EPOLL_CTL_MOD may return: it fails on a descriptor that left epoll.
CtlResults(fd) ==
    IF fd \notin reg THEN {FALSE} ELSE IF CtlMayFail THEN BOOLEAN ELSE {TRUE}

\* Faulty variant of RenableAll: the result of renableEvents is ignored.
RenableAllIgnored(fds) ==
    \E ok \in [fds -> BOOLEAN] :
        LET failed == {fd \in fds : ~ok[fd]}
        IN  /\ \A fd \in fds : ok[fd] \in CtlResults(fd)
            /\ armed' = (armed \cup fds) \ failed
            /\ mask' = [fd \in Fd |-> IF fd \in fds \ failed THEN events[fd] ELSE mask[fd]]
            /\ events' = [fd \in Fd |-> IF fd \in failed THEN {} ELSE events[fd]]
            /\ UNCHANGED <<reg, cList>>

\* renableEvents on each of fds, closing the ones it fails for: renableProc,
\* and the way HandleRead and HandleWrite use renableEvents.
RenableAll(fds) ==
    \E ok \in [fds -> BOOLEAN] :
        LET failed == {fd \in fds : ~ok[fd]}
        IN  /\ \A fd \in fds : ok[fd] \in CtlResults(fd)
            /\ failed # {} => ~mtx
            /\ armed' = (armed \cup fds) \ failed
            /\ mask' = [fd \in Fd |-> IF fd \in fds \ failed THEN events[fd] ELSE mask[fd]]
            /\ events' = [fd \in Fd |-> IF fd \in failed THEN {} ELSE events[fd]]
            /\ reg' = reg \ failed
            /\ cList' = cList \o SetToSeq(failed)

-----------------------------------------------------------------------------
(* The I/O threads: IOEventLoop and UtilTaskTcp.                           *)

RingFront(u) == (u.back + Len(u.tasks)) % BATCH_SUBMIT

\* epoll_wait returns at most MAX_EVENT events.  EPOLLRDHUP, EPOLLHUP and
\* EPOLLERR are always asked for, EPOLLOUT only with that interest.  The exit
\* descriptor stays readable once ExitIOEventLoop wrote to it.
EpollWait(t) ==
    /\ ioPc[t] = "wait"
    /\ \E fds \in SUBSET {fd \in armed : info[fd] = t}, exit \in {FALSE, exitEvent} :
       \E kind \in [fds -> {"HUP", "RD", "WR"}] :
          /\ fds # {} \/ exit
          /\ Cardinality(fds) + (IF exit THEN 1 ELSE 0) <= MAX_EVENT
          /\ exitEvent /\ ~exit => Cardinality(fds) = MAX_EVENT
          /\ \A fd \in fds : kind[fd] = "WR" => "OUT" \in mask[fd]
          /\ batch' = [batch EXCEPT ![t] = {<<fd, kind[fd]>> : fd \in fds}
                                              \cup (IF exit THEN {<<-1, "EXIT">>} ELSE {})]
          /\ armed' = armed \ fds
    /\ ioPc' = [ioPc EXCEPT ![t] = "events"]
    /\ UNCHANGED <<util, reg, mask, events, cList, poolVars, workVars, mapVars, mainVars>>

\* append: with the flag down the connection is re-armed, and then it is
\* buffered all the same; a full buffer is committed.
AppendTask(t, fd) ==
    /\ RenableAll(IF util[t].flag THEN {} ELSE {fd})
    /\ util' = [util EXCEPT ![t].tasks = Append(@, fd)]
    /\ ioPc' = [ioPc EXCEPT ![t] =
                  IF Len(util[t].tasks) + 1 = BATCH_SUBMIT THEN "commit" ELSE "events"]

\* Faulty variant of SwapInterest: the connection joins the close list with its
\* new interest armed.
SwapInterestStaysArmed(t, fd, m) ==
    /\ ~mtx
    /\ armed' = armed \cup {fd}
    /\ cList' = Append(cList, fd)
    /\ events' = [events EXCEPT ![fd] = m]
    /\ mask' = [mask EXCEPT ![fd] = m]
    /\ UNCHANGED <<reg, util, ioPc>>

\* What the handler of a missing callback does: it asks for the other event
\* and closes the connection when that succeeded.
SwapInterest(t, fd, m) ==
    /\ \E ok \in CtlResults(fd) :
          IF ok
          THEN /\ ActiveClose(fd)
               /\ events' = [events EXCEPT ![fd] = m]
               /\ mask' = [mask EXCEPT ![fd] = m]
          ELSE /\ events' = [events EXCEPT ![fd] = {}]
               /\ UNCHANGED <<reg, armed, mask, cList>>
    /\ UNCHANGED <<util, ioPc>>

\* The end of a handler that returned false.
CloseEvent(t, fd) ==
    /\ ActiveClose(fd)
    /\ UNCHANGED <<mask, events, util, ioPc>>

\* The end of a handler that found the watermark not reached.
RearmEvent(t, fd) ==
    /\ RenableAll({fd})
    /\ UNCHANGED <<util, ioPc>>

\* HandleRead and HandleWrite differ in the callback and in the event they ask
\* for when it is missing.
Handle(t, fd, cb, other, m) ==
    \/ cb \in Callbacks /\ AppendTask(t, fd)
    \/ cb \in Callbacks \cap Marks /\ RearmEvent(t, fd)
    \/ (cb \in Callbacks \/ Callbacks = {}) /\ CloseEvent(t, fd)
    \/ cb \notin Callbacks /\ other \in Callbacks /\ SwapInterest(t, fd, m)

HandleRead(t, fd)  == Handle(t, fd, "rdp", "wtp", {"OUT"})
HandleWrite(t, fd) == Handle(t, fd, "wtp", "rdp", {"IN"})

HandleEvent(t) ==
    /\ ioPc[t] = "events"
    /\ \E e \in batch[t] :
          /\ \/ e[2] = "HUP" /\ CloseEvent(t, e[1])
             \/ e[2] = "RD" /\ HandleRead(t, e[1])
             \/ e[2] = "WR" /\ HandleWrite(t, e[1])
          /\ batch' = [batch EXCEPT ![t] = @ \ {e}]
    /\ UNCHANGED <<poolVars, workVars, mapVars, mainVars>>

\* All events were looked at: reset() commits what is buffered.
Reset(t) ==
    /\ ioPc[t] = "events" /\ batch[t] = {}
    /\ IF util[t].tasks = << >>
       THEN /\ util' = [util EXCEPT ![t].flag = TRUE]
            /\ ioPc' = [ioPc EXCEPT ![t] = "wait"]
       ELSE /\ ioPc' = [ioPc EXCEPT ![t] = "reset"]
            /\ UNCHANGED util
    /\ UNCHANGED <<batch, epollVars, poolVars, workVars, mapVars, mainVars>>

\* The tasks of one commit() call: up to the end of the ring.
Chunk(u) == SubSeq(u.tasks, 1, IF BATCH_SUBMIT - u.back > Len(u.tasks)
                               THEN Len(u.tasks) ELSE BATCH_SUBMIT - u.back)

\* Faulty variants of Committed: back runs past the end of the ring; the part of
\* the ring after its end is dropped.
CommittedUnwrapped(u, k) ==
    [u EXCEPT !.tasks = SubSeq(@, k + 1, Len(@)), !.back = @ + k]
CommittedDropsRest(u, k) ==
    [flag |-> k = Len(Chunk(u)), back |-> RingFront(u), tasks |-> << >>]

\* The buffer after commit() submitted k of the tasks of its chunk: if all,
\* commit() goes on with the rest of the ring, otherwise it gives up.
Committed(u, k) ==
    IF k = Len(Chunk(u))
    THEN [u EXCEPT !.tasks = SubSeq(@, k + 1, Len(@)), !.back = (@ + k) % BATCH_SUBMIT]
    ELSE [flag |-> FALSE, back |-> RingFront(u), tasks |-> << >>]

\* Faulty variant of Unsubmitted: the submitted tasks are re-armed as well.
UnsubmittedAll(u, k) == ToSet(Chunk(u))

\* The tasks commit() re-arms after it submitted k of them.
Unsubmitted(u, k) == ToSet(SubSeq(Chunk(u), k + 1, Len(Chunk(u))))

Commit(t) ==
    /\ ioPc[t] \in {"commit", "reset"}
    /\ \E k \in 0 .. Len(Chunk(util[t])) :
          LET u == Committed(util[t], k)
          IN  /\ Pool!Submit(Chunk(util[t]), k)
              /\ RenableAll(Unsubmitted(util[t], k))
              /\ IF u.tasks # << >>
                 THEN util' = [util EXCEPT ![t] = u] /\ UNCHANGED ioPc
                 ELSE IF ioPc[t] = "commit"
                 THEN /\ util' = [util EXCEPT ![t] = u]
                      /\ ioPc' = [ioPc EXCEPT ![t] = "events"]
                 ELSE /\ util' = [util EXCEPT ![t] = [u EXCEPT !.flag = TRUE]]
                      /\ ioPc' = [ioPc EXCEPT ![t] = "wait"]
    /\ UNCHANGED <<batch, workVars, mapVars, mainVars>>

\* Faulty variant of IOExit: the thread only breaks out of the loop over the events.
IOExitBreaks(t) ==
    /\ ioPc[t] = "events"
    /\ <<-1, "EXIT">> \in batch[t]
    /\ batch' = [batch EXCEPT ![t] = {}]
    /\ UNCHANGED <<ioPc, util, epollVars, poolVars, workVars, mapVars, mainVars>>

\* The exit descriptor is among the events: the thread returns at once.
IOExit(t) ==
    /\ ioPc[t] = "events"
    /\ <<-1, "EXIT">> \in batch[t]
    /\ ioPc' = [ioPc EXCEPT ![t] = "exited"]
    /\ UNCHANGED <<batch, util, epollVars, poolVars, workVars, mapVars, mainVars>>

\* append to a pool that exit() has already deleted: its number of threads is
\* zero, so the round-robin index divides by zero and the process dies (its
\* workers were joined before).
Crash(t) ==
    /\ ioPc[t] \in {"commit", "reset"}
    /\ phase = "down"
    /\ mainPc' = "crashed"
    /\ ioPc' = [u \in IOThread |-> "dead"]
    /\ UNCHANGED <<batch, util, mtx, newFd, closing, exitFlag, exitEvent, failures,
                   epollVars, poolVars, workVars, mapVars>>

IOStep(t) == EpollWait(t) \/ HandleEvent(t) \/ Reset(t) \/ Commit(t) \/ IOExit(t) \/ Crash(t)

-----------------------------------------------------------------------------
(* The workers: a callback ends by closing its connection or by asking for *)
(* the next events.                                                        *)

Take(w) ==
    /\ Pool!Take(w)
    /\ UNCHANGED <<ioVars, epollVars, workVars, mapVars, mainVars>>

InCallback(w) == hand[w] # << >> /\ workPc[w] = "run"

CallbackClose(w) ==
    /\ InCallback(w)
    /\ ActiveClose(Head(hand[w]))
    /\ Pool!Finish(w)
    /\ UNCHANGED <<mask, events, ioVars, workVars, mapVars, mainVars>>

\* enableEvents: the descriptor is armed before the controller's own copy of
\* the interest is written.  A callback whose call fails closes (SPController.h).
\* The two stores that follow happen whatever became of the connection meanwhile;
\* the memory of a destroyed controller is that of the next one with its key.
CallbackEnable(w) ==
    /\ InCallback(w)
    /\ LET fd == Head(hand[w]) IN
       \E m \in Interests, ok \in CtlResults(Head(hand[w])) :
          IF ok
          THEN /\ armed' = armed \cup {fd}
               /\ mask' = [mask EXCEPT ![fd] = m]
               /\ workPc' = [workPc EXCEPT ![w] = "zero"]
               /\ wanted' = [wanted EXCEPT ![w] = m]
               /\ UNCHANGED <<reg, events, cList, poolVars>>
          ELSE /\ events' = [events EXCEPT ![fd] = {}]
               /\ ActiveClose(fd)
               /\ Pool!Finish(w)
               /\ UNCHANGED <<mask, workVars>>
    /\ UNCHANGED <<ioVars, mapVars, mainVars>>

\* events = 0;
StoreZero(w) ==
    /\ workPc[w] = "zero"
    /\ events' = [events EXCEPT ![Head(hand[w])] = {}]
    /\ workPc' = [workPc EXCEPT ![w] = "store"]
    /\ UNCHANGED <<wanted, reg, armed, mask, cList, ioVars, poolVars, mapVars, mainVars>>

\* events |= EPOLLIN; events |= EPOLLOUT; and the callback returns.
StoreEvents(w) ==
    /\ workPc[w] = "store"
    /\ events' = [events EXCEPT ![Head(hand[w])] = wanted[w]]
    /\ workPc' = [workPc EXCEPT ![w] = "run"]
    /\ wanted' = [wanted EXCEPT ![w] = {}]
    /\ Pool!Finish(w)
    /\ UNCHANGED <<reg, armed, mask, cList, ioVars, mapVars, mainVars>>

Callback(w) == CallbackClose(w) \/ CallbackEnable(w) \/ StoreZero(w) \/ StoreEvents(w)

-----------------------------------------------------------------------------
(* The main thread: MainEventLoop, HandleConnect, HandleCloseList, and the *)
(* end of EventLoop.                                                       *)

\* An iteration of MainEventLoop first looks at the close list, unless it did so
\* less than 50 ms ago, then accepts a connection, if there is one, and ends with
\* the test of the exit flag.  "poll" is its beginning, "polled" the point after
\* the close list.
InIteration == mainPc \in {"poll", "polled"}
LoopTest == IF exitFlag THEN "poll" ELSE "left"

\* accept() returned a descriptor that was not open.
Accept ==
    /\ InIteration
    /\ \E fd \in Fd \ open :
          /\ newFd' = fd
          /\ open' = open \cup {fd}
    /\ mainPc' = "emplace"
    /\ UNCHANGED <<connections, info, count, mtx, closing, exitFlag, exitEvent, failures,
                   ioVars, epollVars, poolVars, workVars>>

\* The first of the I/O threads with the fewest connections.
LeastLoaded == CHOOSE t \in IOThread :
    /\ \A u \in IOThread : count[t] <= count[u]
    /\ \A u \in IOThread : u < t => count[u] > count[t]

\* close() and erase() of what CloseConnection is given.
Destroy(fd) ==
    /\ open' = open \ {fd}
    /\ reg' = reg \ {fd}
    /\ armed' = armed \ {fd}

\* fcntl failed, or the key is already in the map: the descriptor is closed.
Rejected ==
    /\ CtlMayFail \/ newFd \in connections
    /\ open' = open \ {newFd}
    /\ UNCHANGED <<connections, info, count, failures, epollVars>>

\* Faulty variant of InitFails: the connection is counted before init().
InitFailsCounted ==
    /\ newFd \notin connections
    /\ failures < InitFailures
    /\ failures' = failures + 1
    /\ Destroy(Stdin)
    /\ connections' = (connections \cup {newFd}) \ {Stdin}
    /\ count' = [count EXCEPT ![LeastLoaded] = @ + 1]
    /\ UNCHANGED <<info, mask, events, cList>>

\* init() ran out of memory before it stored the descriptor in the controller,
\* whose fd is still the zero it was created with: CloseConnection closes and
\* erases descriptor 0, and the new connection stays.
InitFails ==
    /\ newFd \notin connections
    /\ failures < InitFailures
    /\ failures' = failures + 1
    /\ Destroy(Stdin)
    /\ connections' = (connections \cup {newFd}) \ {Stdin}
    /\ UNCHANGED <<info, count, mask, events, cList>>

\* EPOLL_CTL_ADD failed and CloseConnection undoes the rest.
AddFails ==
    /\ newFd \notin connections
    /\ CtlMayFail
    /\ open' = open \ {newFd}
    /\ info' = [info EXCEPT ![newFd] = LeastLoaded]
    /\ events' = [events EXCEPT ![newFd] = DEFAULT_EVENT]
    /\ UNCHANGED <<connections, count, failures, reg, armed, mask, cList>>

Connected ==
    /\ newFd \notin connections
    /\ connections' = connections \cup {newFd}
    /\ info' = [info EXCEPT ![newFd] = LeastLoaded]
    /\ events' = [events EXCEPT ![newFd] = DEFAULT_EVENT]
    /\ mask' = [mask EXCEPT ![newFd] = DEFAULT_EVENT]
    /\ reg' = reg \cup {newFd}
    /\ armed' = armed \cup {newFd}
    /\ count' = [count EXCEPT ![LeastLoaded] = @ + 1]
    /\ UNCHANGED <<open, failures, cList>>

\* HandleConnect after accept(): fcntl, emplace, init, EPOLL_CTL_ADD.
HandleConnect ==
    /\ mainPc = "emplace"
    /\ Rejected \/ InitFails \/ AddFails \/ Connected
    /\ mainPc' = LoopTest
    /\ newFd' = Stdin
    /\ UNCHANGED <<mtx, closing, exitFlag, exitEvent, ioVars, poolVars, workVars>>

\* Faulty variants of HandleCloseList: the list is copied and not moved; a short
\* list waits until it is long.
HandleCloseListCopies ==
    /\ mainPc = "poll"
    /\ cList # << >>
    /\ closing' = cList
    /\ mtx' = (Len(cList) <= CLOSE_BATCH)
    /\ mainPc' = "close"
    /\ UNCHANGED <<newFd, exitFlag, exitEvent, failures, epollVars,
                   ioVars, poolVars, workVars, mapVars>>
HandleCloseListLongOnly ==
    /\ mainPc = "poll"
    /\ Len(cList) > CLOSE_BATCH
    /\ closing' = cList
    /\ cList' = << >>
    /\ mainPc' = "close"
    /\ UNCHANGED <<mtx, newFd, exitFlag, exitEvent, failures, reg, armed, mask, events,
                   ioVars, poolVars, workVars, mapVars>>

\* HandleCloseList takes a long list with it and lets go of the mutex; it
\* works on a short one with the mutex held.
HandleCloseList ==
    /\ mainPc = "poll"
    /\ cList # << >>
    /\ closing' = cList
    /\ cList' = << >>
    /\ mtx' = (Len(cList) <= CLOSE_BATCH)
    /\ mainPc' = "close"
    /\ UNCHANGED <<newFd, exitFlag, exitEvent, failures, reg, armed, mask, events,
                   ioVars, poolVars, workVars, mapVars>>

CloseConnection ==
    /\ mainPc = "close"
    /\ Destroy(Head(closing))
    /\ connections' = connections \ {Head(closing)}
    /\ mainPc' = "uncount"
    /\ UNCHANGED <<info, count, mask, events, cList, mtx, newFd, closing, exitFlag,
                   exitEvent, failures, ioVars, poolVars, workVars>>

\* Faulty variant of CountDown: the first thread's counter goes down.
CountDownFirst ==
    /\ mainPc = "uncount"
    /\ count' = [count EXCEPT ![0] = @ - 1]
    /\ closing' = Tail(closing)
    /\ IF Tail(closing) = << >>
       THEN mainPc' = "polled" /\ mtx' = FALSE
       ELSE mainPc' = "close" /\ UNCHANGED mtx
    /\ UNCHANGED <<open, connections, info, newFd, exitFlag, exitEvent, failures,
                   ioVars, epollVars, poolVars, workVars>>

\* controller->info->count-- reads the controller that was just erased.  The
\* freed memory is not reused in between, so the value found is the old one.
CountDown ==
    /\ mainPc = "uncount"
    /\ count' = [count EXCEPT ![info[Head(closing)]] = @ - 1]
    /\ closing' = Tail(closing)
    /\ IF Tail(closing) = << >>
       THEN mainPc' = "polled" /\ mtx' = FALSE
       ELSE mainPc' = "close" /\ UNCHANGED mtx
    /\ UNCHANGED <<open, connections, info, newFd, exitFlag, exitEvent, failures,
                   ioVars, epollVars, poolVars, workVars>>

\* SetExitFlag or the signal handler.
SetExitFlag ==
    /\ MayExit /\ exitFlag /\ mainPc # "crashed"
    /\ exitFlag' = FALSE
    /\ UNCHANGED <<mtx, mainPc, newFd, closing, exitEvent, failures,
                   ioVars, epollVars, poolVars, workVars, mapVars>>

\* No connection to accept; from "poll" this matters only when the flag is down.
NextIteration ==
    /\ mainPc = "polled" \/ (mainPc = "poll" /\ ~exitFlag)
    /\ mainPc' = LoopTest
    /\ UNCHANGED <<mtx, newFd, closing, exitFlag, exitEvent, failures,
                   ioVars, epollVars, poolVars, workVars, mapVars>>

\* poll() or accept() failed (with any error, EMFILE and ECONNABORTED included).
AcceptFails ==
    /\ MayExit /\ InIteration
    /\ mainPc' = "left"
    /\ UNCHANGED <<mtx, newFd, closing, exitFlag, exitEvent, failures,
                   ioVars, epollVars, poolVars, workVars, mapVars>>

\* EventLoop calls pool.exit() while the I/O threads still run,
PoolExit ==
    /\ mainPc = "left"
    /\ Pool!BeginExit
    /\ mainPc' = "poolexit"
    /\ UNCHANGED <<mtx, newFd, closing, exitFlag, exitEvent, failures,
                   ioVars, epollVars, workVars, mapVars>>

\* which returns when the workers are joined.
PoolExited ==
    /\ mainPc = "poolexit"
    /\ Pool!EndExit
    /\ mainPc' = "ioexit"
    /\ UNCHANGED <<mtx, newFd, closing, exitFlag, exitEvent, failures,
                   ioVars, epollVars, workVars, mapVars>>

\* ExitIOEventLoop writes to every exit descriptor,
ExitIOEventLoop ==
    /\ mainPc = "ioexit" /\ ~exitEvent
    /\ exitEvent' = TRUE
    /\ UNCHANGED <<mtx, mainPc, newFd, closing, exitFlag, failures,
                   ioVars, epollVars, poolVars, workVars, mapVars>>

\* and joins the I/O threads.
JoinIOThreads ==
    /\ mainPc = "ioexit" /\ exitEvent
    /\ \A t \in IOThread : ioPc[t] = "exited"
    /\ mainPc' = "done"
    /\ UNCHANGED <<mtx, newFd, closing, exitFlag, exitEvent, failures,
                   ioVars, epollVars, poolVars, workVars, mapVars>>

MainStep ==
    \/ HandleConnect \/ CloseConnection \/ CountDown \/ NextIteration
    \/ PoolExit \/ PoolExited \/ ExitIOEventLoop \/ JoinIOThreads

-----------------------------------------------------------------------------
Init ==
    /\ open = {Stdin}
    /\ connections = {}
    /\ info = [fd \in Fd |-> 0]
    /\ events = [fd \in Fd |-> {}]
    /\ count = [t \in IOThread |-> 0]
    /\ reg = {} /\ armed = {}
    /\ mask = [fd \in Fd |-> {}]
    /\ ioPc = [t \in IOThread |-> "wait"]
    /\ batch = [t \in IOThread |-> {}]
    /\ util = [t \in IOThread |-> [flag |-> TRUE, back |-> 0, tasks |-> << >>]]
    /\ Pool!Init
    /\ workPc = [w \in Worker |-> "run"]
    /\ wanted = [w \in Worker |-> {}]
    /\ cList = << >> /\ mtx = FALSE
    /\ mainPc = "poll" /\ newFd = Stdin /\ closing = << >>
    /\ exitFlag = TRUE /\ exitEvent = FALSE
    /\ failures = 0

\* EventLoop returned, or the process died.
Ended == mainPc \in {"done", "crashed"} /\ UNCHANGED vars

Next ==
    \/ \E t \in IOThread : IOStep(t)
    \/ \E w \in Worker : Take(w) \/ Callback(w)
    \/ Accept \/ AcceptFails \/ HandleCloseList \/ SetExitFlag
    \/ MainStep
    \/ Ended

Spec == Init /\ [][Next]_vars

-----------------------------------------------------------------------------
(* Safety.                                                                 *)

TypeOK ==
    /\ open \subseteq Fd \cup {Stdin} /\ connections \subseteq Fd
    /\ info \in [Fd -> IOThread] /\ events \in [Fd -> SUBSET Event]
    /\ count \in [IOThread -> 0 .. Cardinality(Fd)]
    /\ reg \subseteq Fd /\ armed \subseteq reg
    /\ mask \in [Fd -> SUBSET Event]
    /\ ioPc \in [IOThread -> {"wait", "events", "commit", "reset", "exited", "dead"}]
    /\ \A t \in IOThread :
          /\ batch[t] \subseteq (Fd \X {"HUP", "RD", "WR"}) \cup {<<-1, "EXIT">>}
          /\ util[t].flag \in BOOLEAN
          /\ util[t].back \in 0 .. (BATCH_SUBMIT - 1)
          /\ util[t].tasks \in Seq(Fd) /\ Len(util[t].tasks) <= BATCH_SUBMIT
    /\ phase \in Pool!Phases
    /\ waiting \in [Fd -> Nat]
    /\ hand \in [Worker -> Seq(Fd)]
    /\ workPc \in [Worker -> {"run", "zero", "store"}]
    /\ wanted \in [Worker -> SUBSET Event]
    /\ cList \in Seq(Fd) /\ closing \in Seq(Fd)
    /\ mainPc \in {"poll", "polled", "emplace", "close", "uncount", "left", "poolexit",
                   "ioexit", "done", "crashed"}
    /\ newFd \in Fd \cup {Stdin}
    /\ {mtx, exitFlag, exitEvent} \subseteq BOOLEAN
    /\ failures \in 0 .. InitFailures

\* The places that can make fd's callbacks run, or destroy it: an armed epoll
\* registration, an event an I/O thread has not handled, a task buffered,
\* queued or running, and the close list.  A worker that has re-armed fd and
\* only has to store its interest is not counted.
Running(w) == IF workPc[w] = "run" THEN hand[w] ELSE Tail(hand[w])
Doomed == IF mainPc = "uncount" THEN Tail(closing) ELSE closing

Spots(s, fd) == {i \in DOMAIN s : s[i] = fd}

Holders(fd) ==
    (IF fd \in armed THEN {<<"armed">>} ELSE {})
    \cup {p \in {"event"} \X IOThread \X {"HUP", "RD", "WR"} : <<fd, p[3]>> \in batch[p[2]]}
    \cup (UNION {{"task"} \X {t} \X Spots(util[t].tasks, fd) : t \in IOThread})
    \cup {"waiting"} \X (1 .. waiting[fd])
    \cup (UNION {{"running"} \X {w} \X Spots(Running(w), fd) : w \in Worker})
    \cup {"close"} \X Spots(cList, fd)
    \cup {"doomed"} \X Spots(Doomed, fd)

\* EPOLLONESHOT and the hand-over from I/O thread to buffer, pool, worker and
\* close list never let two of them hold a connection at once, so no two
\* callbacks of one connection run together, none runs after its close
\* callback, and none touches a controller that was destroyed.
ExclusiveOwner ==
    \A fd \in Fd : \A p, q \in Holders(fd) : p = q /\ fd \in connections

\* A connection in the map is always in some thread's hands or armed: none is
\* forgotten with its descriptor open and no event that could ever wake it.
NoneForgotten == \A fd \in connections : Holders(fd) # {}

\* The main thread's load counters agree with the connections each I/O thread
\* serves, whichever path a connection was opened or destroyed on.
CountExact ==
    \A t \in IOThread :
        count[t] = Cardinality({fd \in connections : info[fd] = t /\ Holders(fd) # {}})
                   + (IF mainPc = "uncount" /\ info[Head(closing)] = t THEN 1 ELSE 0)

\* enableEvents works on a controller that exists until it returns, although it
\* hands the connection to the I/O thread before its last two stores.
StoresToLiveController ==
    \A w \in Worker : workPc[w] # "run" => Head(hand[w]) \in connections

\* What epoll watches an armed connection for is what its creation or a call of
\* enableEvents asked for: renableEvents never arms from a copy of the interest that
\* an enableEvents in progress has cleared and not yet stored.
ArmedAsAsked == \A fd \in armed : mask[fd] \in Interests \cup {DEFAULT_EVENT}

\* No I/O thread submits to the pool after exit() deleted its queues.
SubmitsToLivePool ==
    \A t \in IOThread : ioPc[t] \in {"commit", "reset"} => phase # "down"

-----------------------------------------------------------------------------
(* Liveness.                                                               *)

\* What an I/O thread does with the events it received.
EventStep(t) == HandleEvent(t) \/ Reset(t) \/ Commit(t) \/ IOExit(t) \/ Crash(t)

\* epoll_wait reports the exit descriptor.
ExitReported(t) == EpollWait(t) /\ <<-1, "EXIT">> \in batch'[t]

\* The pool hands a waiting task to a worker (AcceptedIsTaken of ThreadPool, which
\* promises nothing of what is submitted once exit() was called).
TakeOf(fd) == phase = "up" /\ \E w \in Worker : Take(w) /\ waiting'[fd] < waiting[fd]

\* An I/O thread is submitting to the pool.
Submitting == \E t \in IOThread : ioPc[t] \in {"commit", "reset"}

\* pool.exit() returns when its workers are gone; the other steps of the main thread
\* need nobody.
MainRuns == MainStep /\ mainPc # "poolexit"

\* Threads run, and one that waits for the mutex of the close list gets it in the end:
\* the main thread holds it only while it destroys a short list.  No connection has to
\* receive an event.
ThreadsRun ==
    /\ \A t \in IOThread : SF_vars(EventStep(t))
    /\ \A w \in Worker : SF_vars(Callback(w))
    /\ WF_vars(MainRuns)

\* The pool hands on what it accepted, and the main thread looks at the close list
\* every 50 ms, so it cannot be kept from it by new connections.
ServiceFairness ==
    /\ \A fd \in Fd : SF_vars(TakeOf(fd))
    /\ SF_vars(HandleCloseList)

\* The exit descriptor stays readable and epoll reports it in turn with the others.
\* pool.exit() returns unless I/O threads submit forever: this is ExitReturns of
\* ThreadPool.
ExitFairness ==
    /\ \A t \in IOThread : SF_vars(ExitReported(t))
    /\ []<>Submitting \/ SF_vars(PoolExited)

FairSpec     == Spec /\ ThreadsRun /\ ServiceFairness
ShutdownSpec == Spec /\ ThreadsRun /\ ExitFairness

\* A connection whose event was delivered comes back: it is armed again, or it
\* is destroyed and its descriptor closed.
EventIsServed ==
    \A fd \in Fd : (fd \in connections \ armed) ~> (fd \in armed \/ fd \notin connections)

\* Once MainEventLoop is left the shutdown comes to its end, unless the clients keep
\* the I/O threads submitting forever: the pool joins its workers and every I/O
\* thread sees its exit descriptor (or, the pool being gone, dies in a submission).
ShutdownEnds ==
    \/ []<>Submitting
    \/ (mainPc = "left") ~> (mainPc \in {"done", "crashed"})
=============================================================================
