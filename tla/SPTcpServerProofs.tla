------------------------- MODULE SPTcpServerProofs -------------------------
(***************************************************************************)
(* The thread counts and the descriptors of SPTcpServer, for every number  *)
(* of cores, every ratio and any number of connections.                    *)
(***************************************************************************)
EXTENDS SPTcpServer, TLAPS

\* The rounded product of the cores and a ratio below one is at most the cores.
LEMMA RoundedBounds ==
  ASSUME NEW h \in Nat, NEW r \in 1 .. 99, h > 2, NEW w \in Rounded(h, r)
  PROVE  w \in Int /\ w <= h /\ w >= 0
<1> DEFINE p == h * r
           n == 2 * p + 100
<1>1. p \in Nat /\ p >= 1 /\ p <= 99 * h
  <2>1. p \in Nat
    OBVIOUS
  <2>2. h * r <= h * 99 /\ h * r >= h * 1
    OBVIOUS
  <2> QED
    BY <2>1, <2>2
<1>2. 2 * h * r + 100 = n
  OBVIOUS
<1>3. w = n \div 200 \/ (n % 200 = 0 /\ w = n \div 200 - 1)
  BY <1>2 DEF Rounded
<1> HIDE DEF p
<1>4. n \in Nat /\ n >= 100 /\ n <= 198 * h + 100
  BY <1>1
<1> HIDE DEF n
<1>5. n \div 200 \in Nat /\ 200 * (n \div 200) <= n /\ n = 200 * (n \div 200) + (n % 200)
  BY <1>4
<1>6. n % 200 = 0 => n \div 200 >= 1
  BY <1>4, <1>5
<1> QED
  BY <1>3, <1>4, <1>5, <1>6

\* CalculateOptimalThreadCounts always leaves a thread to the I/O and one to the
\* callbacks, on any machine, for any ratio Config() accepts, and whichever way
\* the floating-point product falls.
THEOREM ThreadCountsFit == \A h \in Nat \ {0}, r \in 1 .. 99 : ThreadsFit(h, r)
<1> SUFFICES ASSUME NEW h \in Nat \ {0}, NEW r \in 1 .. 99, NEW w \in workerThreads(h, r)
             PROVE  w >= 1 /\ ioThreads(h, w) >= 1 /\ (h > 2 => w + ioThreads(h, w) = h)
  BY DEF ThreadsFit
<1>1. CASE h <= 2
  BY <1>1 DEF workerThreads, ioThreads
<1>2. CASE h > 2
  <2>1. PICK v \in Rounded(h, r) : w = IF v = 0 THEN 1 ELSE IF v = h THEN h - 1 ELSE v
    BY <1>2 DEF workerThreads
  <2>2. v \in Int /\ v <= h /\ v >= 0
    BY <1>2, RoundedBounds
  <2> QED
    BY <1>2, <2>1, <2>2 DEF ioThreads
<1> QED
  BY <1>1, <1>2

-----------------------------------------------------------------------------
(* The descriptors of the server.                                          *)

Deleting == {"del", "delW", "delR"}
InLoop   == {"loop", "initRead", "initWrite", "add", "closeW", "closeR"}
IoCounts == {ioThreads(HARDWARE, w) : w \in workerThreads(HARDWARE, ratio)}

\* What number 0 may stand for: never an epoll or an idle descriptor, so closing it
\* by mistake cannot take one of those away.
ZeroInv == \E c : zero \in {Stdin, None, Listenfd, Connfd(c)}

\* An open listening socket is the one a successful Listen() made.
ListenInv ==
    Listenfd \in open /\ pc # "crashed" =>
        instance /\ listenfd /\ "listen" \in status /\ pc \notin Deleting

\* /dev/null is open only in the loop of the main thread.
IdleInv == Idlefd \in open => pc \in InLoop \cup {"crashed"}

\* The entries of loopInfo and the open descriptors of the I/O threads.  What makes
\* the properties inductive: an idle instance that has not run yet has no entries,
\* unless a call failed half-way.
LoopInv ==
    /\ loopInfo \in Nat
    /\ ratio \in {0} \cup RATIOS
    /\ Running => instance
    /\ pc \in {"idle", "start", "left", "crashed"} \cup Deleting \cup InLoop
    /\ pc \in {"idle"} \cup Deleting => \A i \in Nat : Loopfd(i) \notin open
    /\ Running => \A i \in Nat : Loopfd(i) \in open => i \in 1 .. loopInfo
    /\ Running /\ ~halfway => /\ loopInfo \in IoCounts \ {0}
                              /\ \A i \in 1 .. loopInfo : Loopfd(i) \in open
    /\ pc = "idle" /\ instance /\ "done" \notin status /\ ~halfway => loopInfo = 0

DescriptorInv == ZeroInv /\ ListenInv /\ IdleInv /\ LoopInv

\* Descriptors of different kinds are different.
LEMMA KindsDiffer ==
  /\ \A i : Loopfd(i) # Listenfd /\ Loopfd(i) # Idlefd /\ Loopfd(i) # Stdin /\ Loopfd(i) # None
  /\ \A i, c : Loopfd(i) # Connfd(c)
  /\ \A i, j : Loopfd(i) = Loopfd(j) => i = j
  /\ \A c : Connfd(c) # Listenfd /\ Connfd(c) # Idlefd
  /\ Idlefd # Listenfd /\ Idlefd # Stdin /\ Idlefd # None
  BY DEF Loopfd, Listenfd, Idlefd, Stdin, None, Connfd

\* The server starts without descriptors.
LEMMA DescriptorInit == TcpInit => DescriptorInv
  BY DEF TcpInit, DescriptorInv, ZeroInv, ListenInv, IdleInv, LoopInv, Running, Deleting, InLoop

\* What a step that opens no descriptor of the server, and at most closes number 0,
\* has to show: inside the loop it stays there.
LEMMA ConnectionStep ==
  ASSUME DescriptorInv, pc \in InLoop, pc' \in InLoop,
         UNCHANGED <<apiVars, loopVars>>,
         ZeroInv',
         \A fd : fd \in open' => fd \in open \/ \E c : fd = Connfd(c),
         \A i \in Nat : Loopfd(i) \in open => Loopfd(i) \in open'
  PROVE  DescriptorInv'
<1>1. ListenInv'
  BY KindsDiffer DEF DescriptorInv, ListenInv, apiVars, Deleting, InLoop
<1>2. IdleInv'
  BY DEF IdleInv
<1>3. LoopInv'
  BY KindsDiffer DEF DescriptorInv, LoopInv, IoCounts, Running, Deleting, InLoop, apiVars, loopVars
<1> QED
  BY <1>1, <1>2, <1>3 DEF DescriptorInv

\* The steps of HandleConnect, CloseConnection and the destructors in the loop.
LEMMA ConnectionSteps ==
  ASSUME DescriptorInv, pc \in InLoop,
         \/ \E c \in Conn : HandleConnect(c) \/ CloseConnection(c)
         \/ initRead \/ initWrite \/ AddToEpoll
         \/ (DestroyWriteBuf \/ DestroyReadBuf)
  PROVE  DescriptorInv'
<1> USE DEF InLoop, DescriptorInv
<1>1. ASSUME NEW c \in Conn, HandleConnect(c) PROVE DescriptorInv'
  <2>1. ZeroInv'
    BY <1>1 DEF HandleConnect, Opened, ZeroInv
  <2> QED
    BY <1>1, <2>1, ConnectionStep DEF HandleConnect
<1>2. ASSUME NEW c, Close(c), UNCHANGED <<apiVars, loopVars>> PROVE DescriptorInv'
  <2>1. ZeroInv'
    BY <1>2 DEF Close, Closed, ZeroInv
  <2> QED
    BY <1>2, <2>1, ConnectionStep, KindsDiffer DEF Close
<1>3. ASSUME NEW c \in Conn, CloseConnection(c) PROVE DescriptorInv'
  BY <1>2, <1>3 DEF CloseConnection
<1>4. CASE AddToEpoll
  <2>1. CASE pc' = "loop" /\ UNCHANGED <<fdVars, connVars>>
    <3>1. ZeroInv'
      BY <2>1 DEF ZeroInv, fdVars
    <3> QED
      BY <1>4, <2>1, <3>1, ConnectionStep DEF AddToEpoll, fdVars
  <2>2. CASE Close(cur)
    BY <1>2, <1>4, <2>2 DEF AddToEpoll
  <2> QED
    BY <1>4, <2>1, <2>2 DEF AddToEpoll
<1>5. ASSUME NEW t, NEW at, NEW next \in InLoop, InitBuffer(t, at, next) PROVE DescriptorInv'
  <2>1. UNCHANGED <<apiVars, loopVars>>
    BY <1>5 DEF InitBuffer
  <2>2. CASE CloseZero
    <3>1. ZeroInv'
      BY <2>2 DEF CloseZero, ZeroInv
    <3>2. \A i \in Nat : Loopfd(i) \in open => Loopfd(i) \in open'
      BY <2>2, KindsDiffer DEF CloseZero, ZeroInv
    <3>3. pc' \in InLoop /\ \A fd : fd \in open' => fd \in open
      BY <2>2 DEF CloseZero
    <3> QED
      BY <2>1, <3>1, <3>2, <3>3, ConnectionStep
  <2>3. CASE pc' = next /\ UNCHANGED fdVars
    <3>1. ZeroInv'
      BY <2>3 DEF ZeroInv, fdVars
    <3> QED
      BY <1>5, <2>1, <2>3, <3>1, ConnectionStep DEF fdVars
  <2> QED
    BY <1>5, <2>2, <2>3 DEF InitBuffer
<1>6. CASE initRead \/ initWrite
  BY <1>5, <1>6 DEF initRead, initWrite
<1>7. CASE DestroyWriteBuf \/ DestroyReadBuf
  <2>1. ZeroInv' /\ pc' \in InLoop /\ UNCHANGED <<apiVars, loopVars>> /\ open' = open
    BY <1>7 DEF DestroyWriteBuf, DestroyReadBuf, ZeroInv, fdVars
  <2> QED
    BY <2>1, ConnectionStep
<1> QED
  BY <1>1, <1>3, <1>4, <1>6, <1>7

\* CreateIOEventLoop, whether it succeeds, fails or takes old entries for new.
LEMMA EventLoopStep ==
  ASSUME DescriptorInv, EventLoop
  PROVE  DescriptorInv'
<1> USE DEF DescriptorInv
<1>1. PICK w \in workerThreads(HARDWARE, ratio) : CreateIOEventLoop(ioThreads(HARDWARE, w))
  BY DEF EventLoop
<1> DEFINE num == ioThreads(HARDWARE, w)
<1>2. num \in Nat \ {0} /\ num \in IoCounts
  <2> HARDWARE \in Nat \ {0} /\ ratio \in 1 .. 99
    BY ServerAssumption DEF EventLoop, LoopInv
  <2>1. num \in IoCounts
    BY DEF IoCounts
  <2>2. w >= 1 /\ num >= 1
    BY ThreadCountsFit DEF ThreadsFit
  <2>3. w \in Int
    <3>1. CASE HARDWARE <= 2
      BY <3>1 DEF workerThreads
    <3>2. CASE HARDWARE > 2
      BY <3>2, RoundedBounds, ServerAssumption DEF workerThreads
    <3> QED
      BY <3>1, <3>2, ServerAssumption
  <2> QED
    BY <2>1, <2>2, <2>3, ServerAssumption DEF ioThreads
<1> HIDE DEF num
<1>3. PICK k \in 0 .. num :
        /\ loopInfo' = loopInfo + k
        /\ IF loopInfo + k = num
           THEN /\ open' = open \cup {Loopfd(i) : i \in (loopInfo + 1) .. (loopInfo + k)}
                /\ pc' = "start"
                /\ UNCHANGED halfway
           ELSE /\ open' = open \ {Loopfd(i) : i \in 1 .. (loopInfo + k)}
                /\ pc' = "idle"
                /\ halfway' = (halfway \/ loopInfo + k > 0)
  BY <1>1 DEF CreateIOEventLoop, num
<1>4. pc = "idle" /\ instance /\ "done" \notin status /\ UNCHANGED <<apiVars, zero>>
  BY DEF EventLoop, CanCall
<1> ratio' = ratio /\ instance' = instance /\ status' = status
  BY <1>4 DEF apiVars
<1>5. ZeroInv'
  BY <1>4 DEF ZeroInv
<1>6. ListenInv' /\ IdleInv'
  BY <1>3, <1>4, KindsDiffer DEF ListenInv, IdleInv, apiVars, Deleting, InLoop
<1>7. LoopInv'
  <2>1. CASE loopInfo + k = num
    <3>1. /\ open' = open \cup {Loopfd(i) : i \in (loopInfo + 1) .. num}
          /\ pc' = "start" /\ halfway' = halfway /\ loopInfo' = num /\ loopInfo \in Nat
      BY <1>3, <2>1 DEF LoopInv
    <3>2. \A i \in Nat : Loopfd(i) \in open' => i \in 1 .. num
      BY <1>2, <1>4, <3>1, KindsDiffer DEF LoopInv
    <3>3. ~halfway => \A i \in 1 .. num : Loopfd(i) \in open'
      BY <1>2, <1>4, <3>1 DEF LoopInv
    <3> QED
      BY <1>2, <1>4, <3>1, <3>2, <3>3 DEF LoopInv, Running, Deleting, InLoop, IoCounts
  <2>2. CASE loopInfo + k # num
    <3>1. /\ \A fd : fd \in open' => fd \in open
          /\ pc' = "idle" /\ (~halfway' => loopInfo + k <= 0) /\ loopInfo' = loopInfo + k
          /\ loopInfo \in Nat
      <4>1. ~halfway' => ~(loopInfo + k > 0)
        BY <1>3, <2>2, Zenon
      <4>2. loopInfo + k \in Nat
        BY <1>2 DEF LoopInv
      <4> QED
        BY <1>3, <2>2, <4>1, <4>2 DEF LoopInv
    <3> QED
      BY <1>2, <1>3, <1>4, <3>1 DEF LoopInv, Running, Deleting, InLoop
  <2> QED
    BY <2>1, <2>2
<1> QED
  BY <1>5, <1>6, <1>7

\* Every step keeps the invariant.
LEMMA DescriptorNext == DescriptorInv /\ [TcpNext]_tcpVars => DescriptorInv'
<1> SUFFICES ASSUME DescriptorInv, [TcpNext]_tcpVars PROVE DescriptorInv'
  OBVIOUS
<1> USE DEF DescriptorInv, ZeroInv, ListenInv, IdleInv, LoopInv, IoCounts, Running, Deleting,
            InLoop, apiVars, fdVars, loopVars, CanCall
<1>1. CASE Config
  BY <1>1 DEF Config
<1>2. CASE GetInstance
  BY <1>2 DEF GetInstance
<1>3. CASE Listen
  <2>1. PICK ok \in BOOLEAN : /\ listenfd' = ok
                              /\ open' = IF ok THEN open \cup {Listenfd} ELSE open
                              /\ zero' = IF ok THEN Opened(Listenfd) ELSE zero
                              /\ status' = IF ok THEN status \cup {"listen"} ELSE status
    BY <1>3, Zenon DEF Listen
  <2>2. /\ pc = "idle" /\ pc' = pc /\ instance /\ instance' = instance
        /\ UNCHANGED ratio /\ UNCHANGED loopVars /\ Listenfd \notin open
    BY <1>3 DEF Listen
  <2>3. CASE ok = TRUE
    <3>1. ListenInv'
      BY <2>1, <2>2, <2>3
    <3>2. ZeroInv'
      BY <2>1, <2>3 DEF Opened
    <3> QED
      BY <2>1, <2>2, <2>3, <3>1, <3>2, KindsDiffer
  <2>4. CASE ok = FALSE
    BY <2>1, <2>2, <2>4
  <2> QED
    BY <2>3, <2>4
<1>4. CASE SetCallback \/ SetSignalExit
  BY <1>4 DEF SetCallback, SetSignalExit
<1>5. CASE SetExitFlag \/ HandleExit
  BY <1>5 DEF SetExitFlag, HandleExit, ClearExitFlag
<1>6. CASE EventLoop
  BY <1>6, EventLoopStep
<1>7. CASE OpenIdle
  BY <1>7, KindsDiffer DEF OpenIdle
<1>8. CASE IOThreadDies
  BY <1>8 DEF IOThreadDies
<1>9. ASSUME NEW c \in Conn, HandleConnect(c) \/ CloseConnection(c) PROVE DescriptorInv'
  <2>1. pc \in InLoop
    BY <1>9 DEF HandleConnect, CloseConnection
  <2> QED
    BY <1>9, <2>1, ConnectionSteps
<1>10. CASE initRead \/ initWrite \/ AddToEpoll
  <2>1. pc \in InLoop
    BY <1>10 DEF initRead, initWrite, InitBuffer, AddToEpoll
  <2> QED
    BY <1>10, <2>1, ConnectionSteps
<1>11. CASE DestroyWriteBuf \/ DestroyReadBuf
  <2>1. CASE pc \in InLoop
    BY <1>11, <2>1, ConnectionSteps
  <2>2. CASE pc \in Deleting
    <3>1. pc' \in Deleting /\ UNCHANGED <<apiVars, fdVars, loopVars>>
      BY <1>11, <2>2 DEF DestroyWriteBuf, DestroyReadBuf
    <3> QED
      BY <2>2, <3>1
  <2> QED
    BY <1>11, <2>1, <2>2 DEF DestroyWriteBuf, DestroyReadBuf
<1>12. ASSUME NEW c \in Conn, DeleteController(c) PROVE DescriptorInv'
  BY <1>12 DEF DeleteController
<1>13. CASE LeaveLoop
  BY <1>13, KindsDiffer DEF LeaveLoop
<1>14. CASE ExitIOEventLoop
  BY <1>14, KindsDiffer DEF ExitIOEventLoop
<1>15. CASE Release
  BY <1>15, KindsDiffer DEF Release, Closed
<1>16. CASE ResetPool
  BY <1>16 DEF ResetPool
<1>17. CASE UNCHANGED tcpVars
  BY <1>17 DEF tcpVars
<1> HIDE DEF DescriptorInv
<1> QED
  BY <1>1, <1>2, <1>3, <1>4, <1>5, <1>6, <1>7, <1>8, <1>9, <1>10, <1>11, <1>12, <1>13, <1>14,
     <1>15, <1>16, <1>17 DEF TcpNext

\* The descriptors are accounted for in every state.
LEMMA DescriptorsAlways == TcpSpec => []DescriptorInv
  BY DescriptorInit, DescriptorNext, PTL DEF TcpSpec

\* For every number of cores and connections: whatever call fails and is tried again,
\* the server loses none of its own descriptors.
THEOREM DescriptorsKept == TcpSpec => []NoDescriptorLost
<1>1. DescriptorInv => NoDescriptorLost
  BY ServerAssumption DEF DescriptorInv, ListenInv, IdleInv, LoopInv, IoCounts, Running, Deleting,
     InLoop, NoDescriptorLost
<1> QED
  BY <1>1, DescriptorsAlways, PTL

\* There are as many I/O threads as the cores leave, and they wait on open
\* descriptors, unless CreateIOEventLoop failed half-way before.
THEOREM LoopsServed == TcpSpec => []LoopsServeOpenEpolls
<1>1. DescriptorInv => LoopsServeOpenEpolls
  BY DEF DescriptorInv, LoopInv, IoCounts, LoopsServeOpenEpolls
<1> QED
  BY <1>1, DescriptorsAlways, PTL
=============================================================================
