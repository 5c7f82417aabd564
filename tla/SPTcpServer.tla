---------------------------- MODULE SPTcpServer ----------------------------
(***************************************************************************)
(* The life of the TCP server as its user sees it: the singleton and its   *)
(* status bits, the listening socket, the start and the end of EventLoop() *)
(* and the memory of the connections.  SPSockTcp models what the threads   *)
(* do between MainEventLoop's first and last line; here that is reduced to *)
(* connections that come and go, so that the calls around it, their        *)
(* failures and their retries can be followed over several instances.      *)
(*                                                                         *)
(* Each connection holds a read and a write buffer of SPBufferPool, which  *)
(* this module extends.  Descriptors are named after what they are for.    *)
(***************************************************************************)
EXTENDS SPBufferPool

CONSTANTS Conn,            \* the connections clients may make
          HARDWARE,        \* what hardware_concurrency() returns
          RATIOS,          \* the values of WORKER_THREAD_RATIO, in percent
          MAX_LOOPS,       \* bound on the entries of loopInfo
          NoBuf            \* the null pointer

ASSUME ServerAssumption ==
    /\ HARDWARE \in Nat
    /\ RATIOS \subseteq 1 .. 99
    /\ MAX_LOOPS \in Nat
    /\ Conn # {}
    /\ NoBuf \notin Buffer

VARIABLES
    ratio,       \* the WORKER_THREAD_RATIO that Config() stored, 0 before
    instance,    \* whether the singleton exists
    status,      \* which of the calls guarded by status bits were made
    listenfd,    \* whether the instance has a listening socket (listenfd # -1)
    exitFlag,    \* the static flag, TRUE until somebody asks to stop
    handler,     \* whether HandleExit is installed for a signal
    open,        \* the server's open descriptors
    zero,        \* what descriptor number 0 stands for
    loopInfo,    \* the number of entries of loopInfo
    connections, \* the connection map
    buf,         \* buf[c][t]: the memory of c's buffers
    pc,          \* where the thread that calls the server is
    cur,         \* the connection it works on
    halfway      \* history: CreateIOEventLoop() failed after its first descriptors

apiVars  == <<ratio, instance, status, listenfd, exitFlag, handler>>
connVars == <<connections, buf, cur>>
fdVars   == <<open, zero>>
loopVars == <<loopInfo, halfway>>
tcpVars  == <<apiVars, connVars, fdVars, loopVars, pc, poolVars>>

Listenfd  == <<"listen", 0>>
Idlefd    == <<"idle", 0>>
Loopfd(i) == <<"loop", i>>     \* the epoll and the exit descriptor of an I/O thread
Connfd(c) == <<"conn", c>>
Stdin     == <<"stdin", 0>>
None      == <<"none", 0>>

\* A new descriptor gets the lowest free number; a closed one gives it back.
Opened(fd) == IF zero = None THEN fd ELSE zero
Closed(fd) == IF zero = fd THEN None ELSE zero

TcpInit ==
    /\ PoolInit
    /\ ratio = 0 /\ instance = FALSE /\ status = {} /\ listenfd = FALSE
    /\ exitFlag = TRUE /\ handler = FALSE
    /\ open = {} /\ zero = Stdin
    /\ loopInfo = 0 /\ halfway = FALSE
    /\ connections = {} /\ buf = [c \in Conn |-> [t \in Type |-> NoBuf]]
    /\ pc = "idle" /\ cur \in {CHOOSE c \in Conn : TRUE}

-----------------------------------------------------------------------------
(* CalculateOptimalThreadCounts for h cores and r percent.                 *)

\* hardware_threads * weight + 0.5, cut to an integer.  A product that lies
\* between two integers may fall to either side in float arithmetic.
Rounded(h, r) ==
    LET n == 2 * h * r + 100
    IN  {n \div 200} \cup (IF n % 200 = 0 THEN {n \div 200 - 1} ELSE {})

\* Faulty variant of workerThreads: no thread is left to the I/O.
workerThreadsAll(h, r) ==
    IF h <= 2 THEN {1} ELSE {IF w = 0 THEN 1 ELSE w : w \in Rounded(h, r)}

\* The numbers of workers that may come out.
workerThreads(h, r) ==
    IF h <= 2 THEN {1}
    ELSE {IF w = 0 THEN 1 ELSE IF w = h THEN h - 1 ELSE w : w \in Rounded(h, r)}

\* The threads that are left.
ioThreads(h, w) == IF h <= 2 THEN 1 ELSE h - w

-----------------------------------------------------------------------------
(* Calls of the user.                                                      *)

\* The documentation asks for Config() before the first GetInstance().
Config ==
    /\ ratio = 0 /\ ~instance
    /\ ratio' \in RATIOS
    /\ UNCHANGED <<instance, status, listenfd, exitFlag, handler, connVars, fdVars,
                   loopVars, pc, poolVars>>

GetInstance ==
    /\ ~instance /\ pc = "idle"
    /\ instance' = TRUE
    /\ status' = {} /\ listenfd' = FALSE
    /\ loopInfo' = 0 /\ halfway' = FALSE
    /\ UNCHANGED <<ratio, exitFlag, handler, connVars, fdVars, pc, poolVars>>

CanCall == instance /\ pc = "idle"

\* Faulty variant of Listen: a socket that cannot be bound stays open.
ListenLeaks ==
    /\ CanCall /\ "listen" \notin status
    /\ open' = open \cup {Listenfd}
    /\ \E ok \in BOOLEAN :
          /\ listenfd' = ok
          /\ zero' = IF ok THEN Opened(Listenfd) ELSE zero
          /\ status' = IF ok THEN status \cup {"listen"} ELSE status
    /\ UNCHANGED <<ratio, instance, exitFlag, handler, connVars, loopVars, pc, poolVars>>

\* Refused after a success.  A failure of socket, setsockopt, bind or listen
\* closes the socket again and leaves listenfd at -1.
Listen ==
    /\ CanCall /\ "listen" \notin status
    /\ \E ok \in BOOLEAN :
          /\ listenfd' = ok
          /\ open' = IF ok THEN open \cup {Listenfd} ELSE open
          /\ zero' = IF ok THEN Opened(Listenfd) ELSE zero
          /\ status' = IF ok THEN status \cup {"listen"} ELSE status
    /\ UNCHANGED <<ratio, instance, exitFlag, handler, connVars, loopVars, pc, poolVars>>

\* Refused when all callbacks are null.
SetCallback ==
    /\ CanCall
    /\ status' = status \cup {"callback"}
    /\ UNCHANGED <<ratio, instance, listenfd, exitFlag, handler, connVars, fdVars,
                   loopVars, pc, poolVars>>

\* The disposition of the signal belongs to the process and outlives the instance.
SetSignalExit ==
    /\ CanCall /\ "signal" \notin status
    /\ handler' = TRUE
    /\ status' = status \cup {"signal"}
    /\ UNCHANGED <<ratio, instance, listenfd, exitFlag, connVars, fdVars, loopVars, pc,
                   poolVars>>

ClearExitFlag ==
    /\ exitFlag /\ pc # "crashed"
    /\ exitFlag' = FALSE
    /\ UNCHANGED <<ratio, instance, status, listenfd, handler, connVars, fdVars,
                   loopVars, pc, poolVars>>

\* Any thread may call SetExitFlag(); nothing ever sets the flag again.
SetExitFlag == ClearExitFlag

\* The signal the user chose arrives.
HandleExit == handler /\ ClearExitFlag

-----------------------------------------------------------------------------
(* EventLoop() up to the loop of the main thread.                          *)

\* Where the I/O threads run.
Running == pc \in {"start", "loop", "initRead", "initWrite", "add", "closeW", "closeR", "left"}

\* Faulty variant of CreateIOEventLoop: it starts with what it could get.
CreateIOEventLoopPartial(num) ==
    \E k \in 1 .. num :
        /\ loopInfo + k <= MAX_LOOPS
        /\ loopInfo' = loopInfo + k
        /\ open' = open \cup {Loopfd(i) : i \in (loopInfo + 1) .. (loopInfo + k)}
        /\ pc' = "start"
        /\ UNCHANGED <<halfway>>

\* The first k of num tries to get an epoll and an exit descriptor succeed.  If
\* the vector then has the wrong length, the descriptors of all entries are
\* closed, and the entries stay.
CreateIOEventLoop(num) ==
    \E k \in 0 .. num :
        LET n == loopInfo + k
        IN  /\ n <= MAX_LOOPS
            /\ loopInfo' = n
            /\ IF n = num
               THEN /\ open' = open \cup {Loopfd(i) : i \in (loopInfo + 1) .. n}
                    /\ pc' = "start"
                    /\ UNCHANGED halfway
               ELSE /\ open' = open \ {Loopfd(i) : i \in 1 .. n}
                    /\ pc' = "idle"
                    /\ halfway' = (halfway \/ n > 0)

\* What a call needs to get as far as CreateIOEventLoop: the status bits, a known
\* number of cores, and a thread pool, which a zero batch size prevents.
EventLoop ==
    /\ CanCall
    /\ {"listen", "callback"} \subseteq status /\ "done" \notin status
    /\ HARDWARE # 0 /\ ratio # 0
    /\ \E w \in workerThreads(HARDWARE, ratio) : CreateIOEventLoop(ioThreads(HARDWARE, w))
    /\ UNCHANGED <<apiVars, connVars, zero, poolVars>>

\* MainEventLoop opens /dev/null, or fails at once.
OpenIdle ==
    /\ pc = "start"
    /\ \/ pc' = "loop" /\ open' = open \cup {Idlefd}
       \/ pc' = "left" /\ UNCHANGED open
    /\ UNCHANGED <<apiVars, connVars, zero, loopVars, poolVars>>

\* epoll_wait fails on a descriptor that is not open, and the exception that the
\* I/O thread throws ends the process.
IOThreadDies ==
    /\ Running
    /\ \E i \in 1 .. loopInfo : Loopfd(i) \notin open
    /\ pc' = "crashed"
    /\ UNCHANGED <<apiVars, connVars, fdVars, loopVars, poolVars>>

-----------------------------------------------------------------------------
(* Connections.                                                            *)

\* accept, and the controller enters the map.
HandleConnect(c) ==
    /\ pc = "loop" /\ exitFlag /\ Listenfd \in open
    /\ c \notin connections /\ Connfd(c) \notin open
    /\ open' = open \cup {Connfd(c)}
    /\ zero' = Opened(Connfd(c))
    /\ connections' = connections \cup {c}
    /\ cur' = c
    /\ pc' = "initRead"
    /\ UNCHANGED <<apiVars, buf, loopVars, poolVars>>

\* CloseConnection(&controller) before init() stored the descriptor: the field
\* still holds 0, so that number is closed and erased from the map instead.
CloseZero ==
    /\ open' = open \ {zero}
    /\ zero' = None
    /\ IF zero \in {Connfd(c) : c \in connections}
       THEN cur' = zero[2] /\ pc' = "closeW"
       ELSE UNCHANGED cur /\ pc' = "loop"
    /\ UNCHANGED <<connections, buf>>

\* readBuf.Init() and writeBuf.Init() of SOCKController::init, one after the other.
InitBuffer(t, at, next) ==
    /\ pc = at
    /\ GetBuffer(t)
    /\ IF used' = used
       THEN CloseZero
       ELSE /\ buf' = [buf EXCEPT ![cur][t] = CHOOSE b \in used' : b \notin used]
            /\ pc' = next
            /\ UNCHANGED <<connections, cur, fdVars>>
    /\ UNCHANGED <<apiVars, loopVars>>

initRead  == InitBuffer("READ", "initRead", "initWrite")
initWrite == InitBuffer("WRITE", "initWrite", "add")

\* Faulty variant of Close: the entry stays in the map.
CloseKeepsEntry(c) ==
    /\ open' = open \ {Connfd(c)}
    /\ zero' = Closed(Connfd(c))
    /\ pc' = "loop"
    /\ UNCHANGED <<cur, connections, buf>>

\* CloseConnection: close(), then erase(), which destroys the controller.
Close(c) ==
    /\ open' = open \ {Connfd(c)}
    /\ zero' = Closed(Connfd(c))
    /\ cur' = c
    /\ pc' = "closeW"
    /\ UNCHANGED <<connections, buf>>

\* epoll_ctl(EPOLL_CTL_ADD) of the new connection succeeds or fails.
AddToEpoll ==
    /\ pc = "add"
    /\ \/ pc' = "loop" /\ UNCHANGED <<fdVars, connVars>>
       \/ Close(cur)
    /\ UNCHANGED <<apiVars, loopVars, poolVars>>

\* A connection of the close list.  Only a controller that was added to an epoll
\* can get there.
CloseConnection(c) ==
    /\ pc = "loop" /\ exitFlag
    /\ c \in connections /\ buf[c]["WRITE"] # NoBuf
    /\ Close(c)
    /\ UNCHANGED <<apiVars, loopVars, poolVars>>

\* ~SPBuffer gives back what Init() got.
FreeOf(t) ==
    IF buf[cur][t] = NoBuf
    THEN UNCHANGED <<poolVars, buf>>
    ELSE /\ FreeBuffer(buf[cur][t])
         /\ buf' = [buf EXCEPT ![cur][t] = NoBuf]

\* The members of a controller are destroyed in reverse order: writeBuf first.
DestroyWriteBuf ==
    /\ pc \in {"closeW", "delW"}
    /\ FreeOf("WRITE")
    /\ pc' = IF pc = "closeW" THEN "closeR" ELSE "delR"
    /\ UNCHANGED <<apiVars, connections, cur, fdVars, loopVars>>

DestroyReadBuf ==
    /\ pc \in {"closeR", "delR"}
    /\ FreeOf("READ")
    /\ connections' = connections \ {cur}
    /\ pc' = IF pc = "closeR" THEN "loop" ELSE "del"
    /\ UNCHANGED <<apiVars, cur, fdVars, loopVars>>

-----------------------------------------------------------------------------
(* The end of EventLoop(), and Release().                                  *)

\* The exit flag was seen, or poll or accept failed: EventLoop reports both alike.
LeaveLoop ==
    /\ pc = "loop"
    /\ open' = open \ {Idlefd}
    /\ pc' = "left"
    /\ UNCHANGED <<apiVars, connVars, zero, loopVars, poolVars>>

\* pool.exit() and ExitIOEventLoop(), which joins the threads and closes their
\* descriptors.
ExitIOEventLoop ==
    /\ pc = "left"
    /\ open' = open \ {Loopfd(i) : i \in 1 .. loopInfo}
    /\ status' = status \cup {"done"}
    /\ pc' = "idle"
    /\ UNCHANGED <<ratio, instance, listenfd, exitFlag, handler, connVars, zero,
                   loopVars, poolVars>>

\* delete instance: the destructor closes the listening socket, then the map goes.
Release ==
    /\ CanCall
    /\ open' = IF listenfd THEN open \ {Listenfd} ELSE open
    /\ zero' = IF listenfd THEN Closed(Listenfd) ELSE zero
    /\ pc' = "del"
    /\ UNCHANGED <<apiVars, connVars, loopVars, poolVars>>

\* The descriptors of the remaining connections are not closed.
DeleteController(c) ==
    /\ pc = "del" /\ c \in connections
    /\ cur' = c
    /\ pc' = "delW"
    /\ UNCHANGED <<apiVars, connections, buf, fdVars, loopVars, poolVars>>

\* Faulty variant of ResetPool: the pool is reset before the map is gone.
ResetPoolEarly ==
    /\ pc = "del"
    /\ instance' = FALSE
    /\ pool' = resetPool(pool)
    /\ pc' = "idle"
    /\ UNCHANGED <<ratio, status, listenfd, exitFlag, handler, connVars, fdVars,
                   loopVars, used>>

\* With the map gone, SPTcpBufferPool::reset().
ResetPool ==
    /\ pc = "del" /\ connections = {}
    /\ instance' = FALSE
    /\ pool' = resetPool(pool)
    /\ pc' = "idle"
    /\ UNCHANGED <<ratio, status, listenfd, exitFlag, handler, connVars, fdVars,
                   loopVars, used>>

TcpNext ==
    \/ Config \/ GetInstance \/ Listen \/ SetCallback \/ SetSignalExit
    \/ SetExitFlag \/ HandleExit \/ EventLoop \/ OpenIdle \/ IOThreadDies
    \/ \E c \in Conn : HandleConnect(c) \/ CloseConnection(c) \/ DeleteController(c)
    \/ initRead \/ initWrite \/ AddToEpoll \/ DestroyWriteBuf \/ DestroyReadBuf
    \/ LeaveLoop \/ ExitIOEventLoop \/ Release \/ ResetPool

TcpSpec == TcpInit /\ [][TcpNext]_tcpVars

-----------------------------------------------------------------------------
(* Properties.                                                             *)

TcpTypeOK ==
    /\ PoolTypeOK
    /\ ratio \in {0} \cup RATIOS /\ instance \in BOOLEAN /\ listenfd \in BOOLEAN
    /\ exitFlag \in BOOLEAN /\ handler \in BOOLEAN /\ halfway \in BOOLEAN
    /\ status \subseteq {"listen", "callback", "signal", "done"}
    /\ open \subseteq {Listenfd, Idlefd} \cup {Loopfd(i) : i \in 1 .. MAX_LOOPS}
                      \cup {Connfd(c) : c \in Conn}
    /\ zero \in {Stdin, None, Listenfd} \cup {Connfd(c) : c \in Conn}
    /\ loopInfo \in 0 .. MAX_LOOPS
    /\ connections \subseteq Conn /\ cur \in Conn
    /\ buf \in [Conn -> [Type -> Buffer \cup {NoBuf}]]
    /\ pc \in {"idle", "start", "loop", "initRead", "initWrite", "add", "closeW", "closeR",
               "left", "del", "delW", "delR", "crashed"}

\* Whatever fails and is tried again, the server's own descriptors do not get
\* lost: outside EventLoop() no epoll, exit or idle descriptor is open, and a
\* listening socket is open only while an instance has it to close (the error
\* paths of Listen, CreateIOEventLoop and MainEventLoop, and Release).
NoDescriptorLost ==
    pc # "crashed" =>
        /\ Listenfd \in open => instance /\ listenfd
        /\ Idlefd \in open => Running
        /\ ~Running => \A i \in 1 .. MAX_LOOPS : Loopfd(i) \notin open

\* The I/O threads wait on open descriptors, and there are as many as the cores
\* leave to them, unless an earlier EventLoop() of this instance failed half-way:
\* then its entries, whose descriptors are closed, count as new ones
\* (CreateIOEventLoop).
LoopsServeOpenEpolls ==
    Running /\ ~halfway =>
        /\ loopInfo \in {ioThreads(HARDWARE, w) : w \in workerThreads(HARDWARE, ratio)} \ {0}
        /\ \A i \in 1 .. loopInfo : Loopfd(i) \in open

\* CreateIOEventLoop is documented to return true "if all resources initialized
\* successfully": the I/O threads it starts have open descriptors, also when an
\* earlier EventLoop() failed.
StartedLoopsAreOpen == Running => \A i \in 1 .. loopInfo : Loopfd(i) \in open

\* Between two events the map has no connection whose descriptor was closed: a
\* number that accept() returns is never found in the map already (the close and
\* erase of CloseConnection, in HandleConnect's error paths and the close list).
MappedIsOpen == pc = "loop" => \A c \in connections : Connfd(c) \in open

\* A controller gets both buffers or none: when readBuf.Init() succeeded a write
\* buffer is free (tryAlloc makes pairs, the lists shrink and grow together).
BuffersComeInPairs ==
    /\ pc = "initWrite" => pool.list["WRITE"] # << >>
    /\ pc = "loop" => \A c \in connections : buf[c]["READ"] = NoBuf <=> buf[c]["WRITE"] = NoBuf

\* After Release() all memory of the pool is back with malloc, also when the
\* event loop was left with connections open (~SPBuffer and reset()).
ReleaseFreesAll == ~instance => pool.heap = {} /\ used = {}

\* For any number of cores and any ratio there is a thread for the I/O and one
\* for the callbacks, and above two cores they share them all.
ThreadsFit(h, r) ==
    \A w \in workerThreads(h, r) :
        w >= 1 /\ ioThreads(h, w) >= 1 /\ (h > 2 => w + ioThreads(h, w) = h)
=============================================================================
