-------------------------- MODULE SPSockUdpProofs --------------------------
(***************************************************************************)
(* The safety properties of SPSockUdp, for any number of cores.            *)
(***************************************************************************)
EXTENDS SPSockUdp, TLAPS

\* The inductive invariant.  The properties of SPSockUdp are inductive only
\* together: that a thread has its socket follows, when the threads start, from
\* fds being complete, and when the sockets are closed from there being no socket
\* outside fds.
UdpInv ==
    /\ UdpTypeOK
    /\ SocketOutlivesThread
    /\ NoSocketLost

\* An empty fds means no sockets.
LEMMA NoFds == 1 .. 0 = {}
  OBVIOUS

\* The server starts in the invariant.
LEMMA UdpInitInv == UdpInit => UdpInv
<1> SUFFICES ASSUME UdpInit PROVE UdpInv
  OBVIOUS
<1> USE SocketsAssumption DEF UdpInit
<1>1. UdpTypeOK
  <2>1. fds \in 0 .. SOCKETS /\ sockets \subseteq Socket /\ waiting \subseteq Socket
    BY DEF Socket
  <2>2. thread \in [Socket -> {"test", "recv", "callback", "ended"}]
    OBVIOUS
  <2> QED
    BY <2>1, <2>2, Zenon DEF UdpTypeOK
<1>2. SocketOutlivesThread
  BY DEF SocketOutlivesThread
<1>3. NoSocketLost
  BY NoFds DEF NoSocketLost
<1> QED
  BY <1>1, <1>2, <1>3 DEF UdpInv

\* A step of one thread in MainEventLoop keeps the invariant: it changes only where
\* that thread is and whether a datagram waits.
LEMMA UdpStepInv ==
  ASSUME UdpInv, NEW i \in Socket, UdpStep(i) \/ RecvFails(i)
  PROVE  UdpInv'
<1>1. thread[i] # "ended" /\ thread' \in [Socket -> {"test", "recv", "callback", "ended"}]
      /\ \A j \in Socket : j # i => thread'[j] = thread[j]
  BY DEF UdpStep, TestFlag, Recvfrom, RecvFails, CallbackReturns, recvTimesOut, UdpInv, UdpTypeOK
<1>2. UNCHANGED <<callVars, sockVars, udpExitFlag, udpPc>> /\ waiting' \subseteq waiting
  BY DEF UdpStep, TestFlag, Recvfrom, RecvFails, CallbackReturns
<1>3. SocketOutlivesThread'
  BY <1>1, <1>2 DEF UdpInv, SocketOutlivesThread, sockVars
<1> QED
  BY <1>1, <1>2, <1>3 DEF UdpInv, UdpTypeOK, NoSocketLost, callVars, sockVars

\* Every step keeps the invariant.
LEMMA UdpNextInv == UdpInv /\ [UdpNext]_udpVars => UdpInv'
<1> SUFFICES ASSUME UdpInv, [UdpNext]_udpVars PROVE UdpInv'
  OBVIOUS
<1> USE SocketsAssumption DEF UdpInv, UdpTypeOK, SocketOutlivesThread, NoSocketLost,
                              UdpCanCall, Socket, callVars, sockVars
<1>1. CASE UdpGetInstance
  <2>1. fds' = 0 /\ sockets = {} /\ sockets' = 1 .. fds'
    BY <1>1, NoFds DEF UdpGetInstance
  <2>2. NoSocketLost' /\ SocketOutlivesThread'
    BY <1>1, <2>1 DEF UdpGetInstance
  <2>3. fds' \in 0 .. SOCKETS
    BY <2>1
  <2>4. UdpTypeOK'
    BY <1>1, <2>3, Zenon DEF UdpGetInstance
  <2> QED
    BY <2>2, <2>4, Zenon
<1>2. CASE Bind
  <2>1. PICK k \in 0 .. SOCKETS : /\ fds' = IF k = SOCKETS THEN k ELSE 0
                                  /\ sockets' = 1 .. fds'
    BY <1>2, Zenon DEF Bind
  <2>2. fds' \in {0, SOCKETS} /\ fds' \in 0 .. SOCKETS /\ sockets' \subseteq Socket
    BY <2>1
  <2>3. SOCKETS > 0 /\ udpInstance /\ udpInstance' = udpInstance
    BY <1>2 DEF Bind
  <2>4. \A i \in Socket : thread'[i] = "ended"
    BY <1>2 DEF Bind
  <2>5. UdpTypeOK'
    BY <1>2, <2>2, Zenon DEF Bind
  <2> QED
    BY <2>1, <2>2, <2>3, <2>4, <2>5
<1>3. CASE UdpSetCallback
  BY <1>3 DEF UdpSetCallback
<1>4. CASE UdpSetSignalExit
  BY <1>4 DEF UdpSetSignalExit
<1>5. CASE UdpSetExitFlag \/ UdpHandleExit
  <2>1. UdpClearExitFlag
    BY <1>5, Zenon DEF UdpSetExitFlag, UdpHandleExit
  <2> QED
    BY <2>1, Zenon DEF UdpClearExitFlag
<1>6. CASE UdpEventLoop
  BY <1>6 DEF UdpEventLoop
<1>7. CASE JoinAndClose
  BY <1>7 DEF JoinAndClose
<1>8. CASE UdpRelease
  <2>1. fds' = 0 /\ sockets' = {} /\ sockets' = 1 .. fds'
    BY <1>8, NoFds DEF UdpRelease
  <2>2. \A i \in Socket : thread'[i] = "ended"
    BY <1>8 DEF UdpRelease
  <2>3. fds' \in 0 .. SOCKETS
    BY <2>1
  <2>4. UdpTypeOK'
    BY <1>8, <2>1, <2>3, Zenon DEF UdpRelease
  <2>5. ~udpInstance'
    BY <1>8 DEF UdpRelease
  <2> QED
    BY <2>1, <2>2, <2>4, <2>5, Zenon
<1>9. ASSUME NEW i \in Socket, Deliver(i) PROVE UdpInv'
  BY <1>9 DEF Deliver
<1>10. ASSUME NEW i \in Socket, UdpStep(i) \/ RecvFails(i) PROVE UdpInv'
  BY <1>10, UdpStepInv
<1>11. CASE UNCHANGED udpVars
  BY <1>11 DEF udpVars
<1> QED
  BY <1>1, <1>2, <1>3, <1>4, <1>5, <1>6, <1>7, <1>8, <1>9, <1>10, <1>11 DEF UdpNext

\* The sockets are accounted for in every state.
LEMMA UdpAlways == UdpSpec => []UdpInv
  BY UdpInitInv, UdpNextInv, PTL DEF UdpSpec

\* For any number of cores, MainEventLoop never works on a socket that EventLoop()
\* closed.
THEOREM ThreadsHaveSockets == UdpSpec => []SocketOutlivesThread
  BY UdpAlways, PTL DEF UdpInv

\* For any number of cores, no socket is lost in Bind(), EventLoop() or Release().
THEOREM SocketsKept == UdpSpec => []NoSocketLost
  BY UdpAlways, PTL DEF UdpInv
=============================================================================
