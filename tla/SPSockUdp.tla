----------------------------- MODULE SPSockUdp -----------------------------
(***************************************************************************)
(* The UDP server of SPSock.cpp: Bind() makes one socket per core, all     *)
(* bound to the same address, and EventLoop() runs MainEventLoop() for     *)
(* each of them, for the first one in the calling thread.  A thread blocks *)
(* in recvfrom() for at most the receive timeout, calls the user for a     *)
(* datagram, and tests the exit flag in between.                           *)
(*                                                                         *)
(* A socket is its index in fds.  Datagrams are not told apart: a socket   *)
(* has one waiting or it has none.                                         *)
(***************************************************************************)
EXTENDS Naturals, FiniteSets

CONSTANT SOCKETS           \* what hardware_concurrency() returns

ASSUME SocketsAssumption == SOCKETS \in Nat

VARIABLES
    udpInstance,  \* whether the singleton exists
    udpStatus,    \* which of the calls guarded by status bits were made
    fds,          \* the number of entries of fds
    sockets,      \* the sockets that are open
    udpExitFlag,  \* the static flag, TRUE until somebody asks to stop
    udpHandler,   \* whether HandleExit is installed for a signal
    udpPc,        \* where the thread that calls the server is
    thread,       \* thread[i]: where MainEventLoop(fds[i]) is
    waiting       \* the sockets with a datagram

callVars == <<udpInstance, udpStatus, udpHandler>>
sockVars == <<fds, sockets>>
udpVars  == <<callVars, sockVars, udpExitFlag, udpPc, thread, waiting>>

Socket == 1 .. SOCKETS

UdpInit ==
    /\ udpInstance = FALSE /\ udpStatus = {} /\ udpHandler = FALSE
    /\ fds = 0 /\ sockets = {}
    /\ udpExitFlag = TRUE
    /\ udpPc = "idle" /\ thread = [i \in Socket |-> "ended"] /\ waiting = {}

-----------------------------------------------------------------------------
(* Calls of the user.                                                      *)

UdpGetInstance ==
    /\ ~udpInstance /\ udpPc = "idle"
    /\ udpInstance' = TRUE
    /\ udpStatus' = {} /\ fds' = 0
    /\ UNCHANGED <<udpHandler, sockets, udpExitFlag, udpPc, thread, waiting>>

UdpCanCall == udpInstance /\ udpPc = "idle"

\* Faulty variant of Bind: after a failure the sockets made so far stay open.
BindLeaks ==
    /\ UdpCanCall /\ "bind" \notin udpStatus /\ SOCKETS # 0
    /\ \E k \in 0 .. SOCKETS :
          /\ fds' = IF k = SOCKETS THEN k ELSE 0
          /\ sockets' = 1 .. k
    /\ udpStatus' = udpStatus \cup {"bind"}
    /\ UNCHANGED <<udpInstance, udpHandler, udpExitFlag, udpPc, thread, waiting>>

\* The first k sockets could be made and bound; the failing one is closed at once.
\* Unless all could be made they are closed, and the call succeeds all the same.
Bind ==
    /\ UdpCanCall /\ "bind" \notin udpStatus /\ SOCKETS # 0
    /\ \E k \in 0 .. SOCKETS :
          /\ fds' = IF k = SOCKETS THEN k ELSE 0
          /\ sockets' = 1 .. fds'
    /\ udpStatus' = udpStatus \cup {"bind"}
    /\ UNCHANGED <<udpInstance, udpHandler, udpExitFlag, udpPc, thread, waiting>>

\* Refused for a null pointer.
UdpSetCallback ==
    /\ UdpCanCall
    /\ udpStatus' = udpStatus \cup {"callback"}
    /\ UNCHANGED <<udpInstance, udpHandler, sockVars, udpExitFlag, udpPc, thread, waiting>>

\* No bit guards this one: a second call installs the handler for another signal.
UdpSetSignalExit ==
    /\ UdpCanCall
    /\ udpHandler' = TRUE
    /\ udpStatus' = udpStatus \cup {"signal"}
    /\ UNCHANGED <<udpInstance, sockVars, udpExitFlag, udpPc, thread, waiting>>

UdpClearExitFlag ==
    /\ udpExitFlag /\ udpPc # "crashed"
    /\ udpExitFlag' = FALSE
    /\ UNCHANGED <<callVars, sockVars, udpPc, thread, waiting>>

\* Any thread may call SetExitFlag(); nothing ever sets the flag again.
UdpSetExitFlag == UdpClearExitFlag

\* The signal the user chose arrives.
UdpHandleExit == udpHandler /\ UdpClearExitFlag

\* The destructor closes what is left in fds.
UdpRelease ==
    /\ UdpCanCall
    /\ sockets' = sockets \ (1 .. fds)
    /\ fds' = 0
    /\ waiting' = {}
    /\ udpInstance' = FALSE
    /\ UNCHANGED <<udpStatus, udpHandler, udpExitFlag, udpPc, thread>>

-----------------------------------------------------------------------------
(* EventLoop.                                                              *)

\* The bit that is to refuse a second call is never set.  The first entry of fds
\* is used without a test: with none, a stale number is read from the freed part
\* of the vector and recvfrom refuses it, or there is no memory to read.
UdpEventLoop ==
    /\ UdpCanCall
    /\ {"bind", "callback"} \subseteq udpStatus
    /\ IF fds = 0
       THEN udpPc' \in {"idle", "crashed"} /\ UNCHANGED thread
       ELSE udpPc' = "loop" /\ thread' = [i \in Socket |-> "test"]
    /\ UNCHANGED <<callVars, sockVars, udpExitFlag, waiting>>

\* while (exitFlag)
TestFlag(i) ==
    /\ thread[i] = "test"
    /\ thread' = [thread EXCEPT ![i] = IF udpExitFlag THEN "recv" ELSE "ended"]
    /\ UNCHANGED <<callVars, sockVars, udpExitFlag, udpPc, waiting>>

\* Faulty variant of recvTimesOut: the socket has no SO_RCVTIMEO.
recvBlocks(i) == FALSE /\ UNCHANGED thread

\* The receive timeout expires, or a signal interrupts the call.
recvTimesOut(i) == thread' = [thread EXCEPT ![i] = "test"]

\* recvfrom: a datagram, or a timeout if there is none.
Recvfrom(i) ==
    /\ thread[i] = "recv"
    /\ \/ /\ i \in waiting
          /\ waiting' = waiting \ {i}
          /\ thread' = [thread EXCEPT ![i] = "callback"]
       \/ /\ i \notin waiting
          /\ recvTimesOut(i)
          /\ UNCHANGED waiting
    /\ UNCHANGED <<callVars, sockVars, udpExitFlag, udpPc>>

\* Any other error of recvfrom, which ends this thread only.
RecvFails(i) ==
    /\ thread[i] = "recv"
    /\ thread' = [thread EXCEPT ![i] = "ended"]
    /\ UNCHANGED <<callVars, sockVars, udpExitFlag, udpPc, waiting>>

\* rcp returns.  It may have called SendTo(), which changes nothing here.
CallbackReturns(i) ==
    /\ thread[i] = "callback"
    /\ thread' = [thread EXCEPT ![i] = "test"]
    /\ UNCHANGED <<callVars, sockVars, udpExitFlag, udpPc, waiting>>

\* Faulty variant of JoinAndClose: the other threads are not waited for.
CloseWithoutJoin ==
    /\ udpPc = "loop" /\ thread[1] = "ended"
    /\ sockets' = sockets \ (1 .. fds)
    /\ fds' = 0
    /\ waiting' = {}
    /\ udpPc' = "idle"
    /\ UNCHANGED <<callVars, udpExitFlag, thread>>

\* MainEventLoop(fds[0]) returned and the other threads were joined.
JoinAndClose ==
    /\ udpPc = "loop" /\ \A i \in 1 .. fds : thread[i] = "ended"
    /\ sockets' = sockets \ (1 .. fds)
    /\ fds' = 0
    /\ waiting' = {}
    /\ udpPc' = "idle"
    /\ UNCHANGED <<callVars, udpExitFlag, thread>>

\* The network delivers a datagram to a socket.
Deliver(i) ==
    /\ i \in sockets \ waiting
    /\ waiting' = waiting \cup {i}
    /\ UNCHANGED <<callVars, sockVars, udpExitFlag, udpPc, thread>>

UdpStep(i) == TestFlag(i) \/ Recvfrom(i) \/ CallbackReturns(i)

UdpNext ==
    \/ UdpGetInstance \/ Bind \/ UdpSetCallback \/ UdpSetSignalExit
    \/ UdpSetExitFlag \/ UdpHandleExit \/ UdpEventLoop \/ JoinAndClose \/ UdpRelease
    \/ \E i \in Socket : UdpStep(i) \/ RecvFails(i) \/ Deliver(i)

\* The scheduler runs every thread, recvfrom has a timeout, and callbacks return;
\* errors of recvfrom need not happen.
UdpFairness ==
    /\ \A i \in Socket : WF_udpVars(UdpStep(i))
    /\ WF_udpVars(JoinAndClose)

UdpSpec == UdpInit /\ [][UdpNext]_udpVars /\ UdpFairness

-----------------------------------------------------------------------------
(* Properties.                                                             *)

UdpTypeOK ==
    /\ udpInstance \in BOOLEAN /\ udpHandler \in BOOLEAN
    /\ udpExitFlag \in BOOLEAN
    /\ udpStatus \subseteq {"bind", "callback", "signal"}
    /\ fds \in 0 .. SOCKETS /\ sockets \subseteq Socket /\ waiting \subseteq Socket
    /\ udpPc \in {"idle", "loop", "crashed"}
    /\ thread \in [Socket -> {"test", "recv", "callback", "ended"}]

\* A thread that is inside MainEventLoop has its socket open, and no thread is
\* there once EventLoop() has returned (the join before the close).
SocketOutlivesThread ==
    \A i \in Socket : thread[i] # "ended" => i \in sockets /\ udpPc = "loop"

\* No socket is lost: the open ones are those in fds, all or none, whichever step
\* of Bind() failed, and Release() leaves none (Bind, EventLoop, the destructor).
NoSocketLost ==
    /\ sockets = 1 .. fds /\ fds \in {0, SOCKETS}
    /\ ~udpInstance => sockets = {}

\* EventLoop() never uses the first entry of an empty fds.  Bind() is documented to
\* return false on an error, so whoever gets as far as EventLoop() has sockets.
EventLoopHasSocket == udpPc # "crashed"

\* Once the exit flag is down EventLoop() returns, however busy or silent the
\* sockets are (SO_RCVTIMEO and the test of the flag after every datagram).
UdpExitReturns == (~udpExitFlag /\ udpPc = "loop") ~> (udpPc = "idle")
=============================================================================
