-------------------------- MODULE SPServersProofs --------------------------
(***************************************************************************)
(* The memory of the connections of SPTcpServer, for every number of       *)
(* connections and every pool: the server is a correct user of the pool, a *)
(* controller gets both buffers or none, and Release() gives every block   *)
(* back.  The invariant joins the soundness of the pool with who holds     *)
(* which buffer; its key is that the two free lists have the same length,  *)
(* but for the buffer of a connection that is half set up or destroyed.    *)
(* At the end, the types of both servers in an application of SPServers.   *)
(***************************************************************************)
EXTENDS SPServers, SPTcpServerProofs, SPSockUdpProofs, SPBufferPoolProofs

-----------------------------------------------------------------------------
(* The invariant.                                                          *)

\* The buffers in use are those of the connections in the map, each of one of them.
LinkInv ==
    /\ connections \subseteq Conn /\ cur \in Conn
    /\ buf \in [Conn -> [Type -> Buffer \cup {NoBuf}]]
    /\ \A c \in Conn, t \in Type :
          buf[c][t] # NoBuf => c \in connections /\ buf[c][t] \in used /\ buf[c][t][2] = t
    /\ \A e \in used : \E c \in connections, t \in Type : buf[c][t] = e
    /\ \A c, d \in Conn, t \in Type : buf[c][t] = buf[d][t] /\ buf[c][t] # NoBuf => c = d

\* Whether connection c holds a buffer of type t.
Has(c, t) == buf[c][t] # NoBuf

\* Where a connection is half set up or half destroyed.
Halfway == {"initWrite", "closeR", "delR"}

\* Only that connection may hold a single buffer.
PairInv ==
    pc # "crashed" =>
        /\ \A c \in Conn : (pc \in Halfway /\ c = cur) \/ (Has(c, "READ") <=> Has(c, "WRITE"))
        /\ pc = "initRead" => ~Has(cur, "READ") /\ cur \in connections
        /\ pc = "initWrite" => Has(cur, "READ") /\ ~Has(cur, "WRITE")
        /\ pc \in {"closeR", "delR"} => ~Has(cur, "WRITE")

Free(t) == Len(pool.list[t])

\* The two free lists are as long as each other, but for that single buffer.
LengthInv ==
    pc # "crashed" =>
        IF pc = "initWrite" THEN Free("WRITE") = Free("READ") + 1
        ELSE IF pc \in {"closeR", "delR"} /\ Has(cur, "READ")
        THEN \/ Free("WRITE") = Free("READ") + 1 /\ Free("READ") < MIN_BLOCK_NUM
             \/ Free("WRITE") = Free("READ") /\ Free("READ") >= MIN_BLOCK_NUM
        ELSE Free("WRITE") = Free("READ")

\* A connection of the map is open unless it is the one that is being destroyed.
OpenInv ==
    pc # "crashed" =>
        \A c \in connections : Connfd(c) \in open \/ (pc \in {"closeW", "closeR"} /\ c = cur)

\* Without an instance there is no memory.
InstanceInv == ~instance => pc = "idle" /\ connections = {} /\ pool.heap = {}

MemoryInv == PoolSound /\ LinkInv /\ PairInv /\ LengthInv /\ OpenInv /\ InstanceInv

-----------------------------------------------------------------------------
(* Steps that leave the pool alone.                                        *)

\* Where every connection has both buffers or none.
Settled == {"idle", "start", "loop", "left", "add", "closeW", "del", "delW"}

\* The lists have lengths.
LEMMA FreeIsNat ==
  ASSUME PoolSound
  PROVE  Free("READ") \in Nat /\ Free("WRITE") \in Nat
<1>1. pool.list \in [Type -> Seq(Buffer)]
  BY DEF PoolSound, Sound, Pools
<1>2. pool.list["READ"] \in Seq(Buffer) /\ pool.list["WRITE"] \in Seq(Buffer)
  BY <1>1 DEF Type
<1> QED
  BY <1>2 DEF Free

\* The server starts without memory.
LEMMA MemoryInit == TcpInit => MemoryInv
<1> SUFFICES ASSUME TcpInit PROVE MemoryInv
  OBVIOUS
<1>1. PoolSound /\ pool.heap = {} /\ Free("READ") = Free("WRITE")
  BY EmptySound DEF TcpInit, PoolInit, PoolSound, Free, EmptyPool, Type
<1>2. cur \in Conn
  BY ServerAssumption DEF TcpInit
<1>3. LinkInv
  BY <1>2 DEF TcpInit, PoolInit, LinkInv
<1>4. PairInv
  BY <1>2 DEF TcpInit, PairInv, Has, Halfway, Type
<1>5. LengthInv
  BY <1>1 DEF TcpInit, LengthInv
<1>6. OpenInv /\ InstanceInv
  BY <1>1 DEF TcpInit, OpenInv, InstanceInv
<1> QED
  BY <1>1, <1>3, <1>4, <1>5, <1>6 DEF MemoryInv

\* A step between settled points, or of another part of the program, that leaves
\* the map, the buffers and the pool alone.
LEMMA QuietStep ==
  ASSUME MemoryInv, UNCHANGED <<connections, buf, poolVars>>, cur' \in Conn,
         \/ pc' = "crashed"
         \/ pc' = pc /\ cur' = cur
         \/ pc \in Settled \cup {"initRead"} /\ pc' \in Settled,
         OpenInv', InstanceInv'
  PROVE  MemoryInv'
<1>1. pool' = pool /\ used' = used /\ connections' = connections /\ buf' = buf
  BY DEF poolVars
<1>2. PoolSound'
  BY <1>1, NextPoolSound DEF MemoryInv, PoolSound
<1>3. LinkInv'
  BY <1>1 DEF MemoryInv, LinkInv
<1>4. PairInv'
  BY <1>1 DEF MemoryInv, PairInv, Has, Halfway, Settled
<1>5. LengthInv'
  BY <1>1 DEF MemoryInv, LengthInv, PairInv, Has, Free, Settled
<1> QED
  BY <1>2, <1>3, <1>4, <1>5 DEF MemoryInv

\* Calls of the user, the steps around the loop, and the end of an I/O thread.
LEMMA ApiSteps ==
  ASSUME MemoryInv,
         \/ Config \/ GetInstance \/ Listen \/ SetCallback \/ SetSignalExit
         \/ SetExitFlag \/ HandleExit \/ EventLoop \/ OpenIdle \/ IOThreadDies
         \/ LeaveLoop \/ ExitIOEventLoop \/ Release
  PROVE  MemoryInv' /\ UNCHANGED poolVars
<1>1. ASSUME UNCHANGED <<connVars, poolVars>>,
             \/ pc' = "crashed" \/ pc' = pc \/ (pc \in Settled /\ pc' \in Settled \ {"closeW"} /\ pc # "closeW"),
             \A c : Connfd(c) \in open => Connfd(c) \in open',
             ~instance' => ~instance /\ pc' = pc
      PROVE  MemoryInv' /\ UNCHANGED poolVars
  <2>1. cur' = cur /\ cur \in Conn /\ UNCHANGED <<connections, buf, poolVars>>
    BY <1>1 DEF connVars, MemoryInv, LinkInv
  <2>2. OpenInv'
    BY <1>1, <2>1 DEF MemoryInv, OpenInv, Settled
  <2>3. InstanceInv'
    BY <1>1, <2>1 DEF MemoryInv, InstanceInv, poolVars
  <2> QED
    BY <1>1, <2>1, <2>2, <2>3, QuietStep
<1> USE KindsDiffer DEF apiVars, fdVars, loopVars, CanCall, Settled
<1>2. CASE Config \/ GetInstance
  BY <1>1, <1>2 DEF Config, GetInstance, MemoryInv, InstanceInv
<1>3. CASE Listen
  <2>1. /\ UNCHANGED <<connVars, poolVars>> /\ pc' = pc /\ instance' = instance /\ instance
        /\ \A c : Connfd(c) \in open => Connfd(c) \in open'
    BY <1>3 DEF Listen
  <2> QED
    BY <1>1, <2>1
<1>4. CASE SetCallback \/ SetSignalExit
  BY <1>1, <1>4 DEF SetCallback, SetSignalExit
<1>5. CASE SetExitFlag \/ HandleExit
  BY <1>1, <1>5 DEF SetExitFlag, HandleExit, ClearExitFlag
<1>6. CASE EventLoop
  <2>1. PICK num : CreateIOEventLoop(num)
    BY <1>6 DEF EventLoop
  <2>2. pc' \in {"start", "idle"} /\ \A c : Connfd(c) \in open => Connfd(c) \in open'
    BY <2>1 DEF CreateIOEventLoop
  <2>3. UNCHANGED <<connVars, poolVars>> /\ pc = "idle" /\ instance' = instance /\ instance
    BY <1>6 DEF EventLoop
  <2> QED
    BY <1>1, <2>2, <2>3
<1>7. CASE OpenIdle \/ IOThreadDies \/ LeaveLoop
  <2>1. /\ UNCHANGED <<connVars, poolVars>> /\ instance' = instance
        /\ pc' = "crashed" \/ (pc \in {"start", "loop"} /\ pc' \in {"loop", "left"})
        /\ \A c : Connfd(c) \in open => Connfd(c) \in open'
    BY <1>7 DEF OpenIdle, IOThreadDies, LeaveLoop
  <2>2. pc # "idle"
    BY <1>7 DEF OpenIdle, IOThreadDies, LeaveLoop, Running
  <2>3. instance
    BY <2>2 DEF MemoryInv, InstanceInv
  <2> QED
    BY <1>1, <2>1, <2>3
<1>8. CASE ExitIOEventLoop
  <2>1. /\ UNCHANGED <<connVars, poolVars>> /\ instance' = instance /\ pc = "left" /\ pc' = "idle"
        /\ \A c : Connfd(c) \in open => Connfd(c) \in open'
    BY <1>8 DEF ExitIOEventLoop
  <2>2. instance
    BY <2>1 DEF MemoryInv, InstanceInv
  <2> QED
    BY <1>1, <2>1, <2>2
<1>9. CASE Release
  <2>1. /\ UNCHANGED <<connVars, poolVars>> /\ instance' = instance /\ pc = "idle" /\ pc' = "del"
        /\ instance /\ \A c : Connfd(c) \in open => Connfd(c) \in open'
    BY <1>9 DEF Release
  <2> QED
    BY <1>1, <2>1
<1> QED
  BY <1>2, <1>3, <1>4, <1>5, <1>6, <1>7, <1>8, <1>9

\* Different connections have different descriptors.
LEMMA ConnfdInjective == \A c, d : Connfd(c) = Connfd(d) => c = d
  BY DEF Connfd

\* A connection is closed where it is: its controller is destroyed next.
LEMMA CloseStep ==
  ASSUME MemoryInv, pc \in Settled \cup {"initRead"}, pc \notin {"closeW", "idle"}, NEW c \in Conn,
         open' = open \ {Connfd(c)}, cur' = c, pc' = "closeW",
         UNCHANGED <<apiVars, connections, buf, poolVars>>
  PROVE  MemoryInv'
<1>1. OpenInv'
  BY ConnfdInjective DEF MemoryInv, OpenInv, Settled
<1>2. InstanceInv'
  BY DEF MemoryInv, InstanceInv, apiVars
<1> QED
  BY <1>1, <1>2, QuietStep DEF Settled

\* accept(), epoll_ctl() and the close list.
LEMMA MapSteps ==
  ASSUME MemoryInv,
         \/ \E c \in Conn : HandleConnect(c) \/ CloseConnection(c) \/ DeleteController(c)
         \/ AddToEpoll
  PROVE  MemoryInv' /\ UNCHANGED poolVars
<1>1. ASSUME NEW c \in Conn, HandleConnect(c) PROVE MemoryInv' /\ UNCHANGED poolVars
  <2>1. /\ pc = "loop" /\ pc' = "initRead" /\ cur' = c /\ connections' = connections \cup {c}
        /\ buf' = buf /\ pool' = pool /\ used' = used /\ instance' = instance
        /\ open' = open \cup {Connfd(c)} /\ c \notin connections
    BY <1>1 DEF HandleConnect, poolVars, apiVars
  <2>2. PoolSound'
    BY <2>1, NextPoolSound DEF MemoryInv, PoolSound
  <2>3. LinkInv'
    BY <2>1 DEF MemoryInv, LinkInv
  <2>4. ~Has(c, "READ") /\ ~Has(c, "WRITE")
    BY <2>1 DEF MemoryInv, LinkInv, Has, Type
  <2>5. PairInv'
    BY <2>1, <2>4 DEF MemoryInv, PairInv, Has, Halfway
  <2>6. LengthInv'
    BY <2>1 DEF MemoryInv, LengthInv, Has, Free
  <2>7. OpenInv'
    BY <2>1 DEF MemoryInv, OpenInv
  <2>8. InstanceInv'
    BY <2>1 DEF MemoryInv, InstanceInv
  <2> QED
    BY <2>1, <2>2, <2>3, <2>5, <2>6, <2>7, <2>8 DEF MemoryInv, poolVars
<1>2. ASSUME NEW c \in Conn, CloseConnection(c) PROVE MemoryInv' /\ UNCHANGED poolVars
  BY <1>2, CloseStep DEF CloseConnection, Close, Settled
<1>3. ASSUME NEW c \in Conn, DeleteController(c) PROVE MemoryInv' /\ UNCHANGED poolVars
  <2>1. OpenInv'
    BY <1>3 DEF DeleteController, MemoryInv, OpenInv, fdVars
  <2>2. InstanceInv'
    BY <1>3 DEF DeleteController, MemoryInv, InstanceInv, apiVars
  <2> QED
    BY <1>3, <2>1, <2>2, QuietStep DEF DeleteController, Settled
<1>4. CASE AddToEpoll
  <2>1. CASE pc' = "loop" /\ UNCHANGED <<fdVars, connVars>>
    <3>1. cur' = cur /\ cur \in Conn /\ UNCHANGED <<connections, buf, poolVars>>
      BY <1>4, <2>1 DEF AddToEpoll, connVars, MemoryInv, LinkInv
    <3>2. OpenInv'
      BY <1>4, <2>1, <3>1 DEF AddToEpoll, MemoryInv, OpenInv, fdVars
    <3>3. InstanceInv'
      BY <1>4 DEF AddToEpoll, MemoryInv, InstanceInv, apiVars
    <3> QED
      BY <1>4, <2>1, <3>1, <3>2, <3>3, QuietStep DEF AddToEpoll, Settled
  <2>2. CASE Close(cur)
    <3>1. cur \in Conn
      BY DEF MemoryInv, LinkInv
    <3> QED
      BY <1>4, <2>2, <3>1, CloseStep DEF AddToEpoll, Close, Settled
  <2> QED
    BY <1>4, <2>1, <2>2 DEF AddToEpoll
<1> QED
  BY <1>1, <1>2, <1>3, <1>4

-----------------------------------------------------------------------------
(* Getting and giving back buffers.                                        *)

\* A connection of the map gets a buffer nobody had.
LEMMA LinkGet ==
  ASSUME LinkInv, used \subseteq Buffer, NEW t \in Type, NEW h \in Buffer \ used, h[2] = t,
         cur \in connections, buf[cur][t] = NoBuf, used' = used \cup {h},
         buf' = [buf EXCEPT ![cur][t] = h], UNCHANGED <<connections, cur>>
  PROVE  /\ LinkInv' /\ h # NoBuf
         /\ \A c \in Conn, s \in Type : buf'[c][s] = IF c = cur /\ s = t THEN h ELSE buf[c][s]
<1>1. h # NoBuf
  BY ServerAssumption
<1>2. \A c \in Conn, s \in Type : buf'[c][s] = IF c = cur /\ s = t THEN h ELSE buf[c][s]
  BY DEF LinkInv
<1>3. buf' \in [Conn -> [Type -> Buffer \cup {NoBuf}]]
  BY DEF LinkInv
<1>4. ASSUME NEW c \in Conn, NEW s \in Type, buf'[c][s] # NoBuf
      PROVE  c \in connections /\ buf'[c][s] \in used' /\ buf'[c][s][2] = s
  <2>1. CASE c = cur /\ s = t
    BY <1>2, <2>1
  <2>2. CASE ~ (c = cur /\ s = t)
    <3>1. buf'[c][s] = buf[c][s]
      BY <1>2, <2>2
    <3> QED
      BY <1>4, <3>1 DEF LinkInv
  <2> QED
    BY <2>1, <2>2
<1>5. ASSUME NEW e \in used' PROVE \E c \in connections, s \in Type : buf'[c][s] = e
  <2>1. CASE e = h
    BY <1>2, <2>1 DEF LinkInv
  <2>2. CASE e \in used
    <3>1. PICK c \in connections, s \in Type : buf[c][s] = e
      BY <2>2 DEF LinkInv
    <3>2. c \in Conn /\ e # NoBuf
      BY <2>2, ServerAssumption DEF LinkInv
    <3>3. buf'[c][s] = e
      BY <1>2, <3>1, <3>2
    <3> QED
      BY <3>3
  <2> QED
    BY <2>1, <2>2
<1>6. ASSUME NEW c \in Conn, NEW d \in Conn, NEW s \in Type, buf'[c][s] = buf'[d][s], buf'[c][s] # NoBuf
      PROVE  c = d
  <2>1. buf[c][s] # h /\ buf[d][s] # h
    BY <1>1 DEF LinkInv
  <2> QED
    BY <1>2, <1>6, <2>1 DEF LinkInv
<1> QED
  BY <1>1, <1>2, <1>3, <1>4, <1>5, <1>6 DEF LinkInv

\* A connection gives a buffer back; with its last one it may leave the map.
LEMMA LinkFree ==
  ASSUME LinkInv, used \subseteq Buffer, NEW t \in Type, buf[cur][t] # NoBuf,
         used' = used \ {buf[cur][t]}, buf' = [buf EXCEPT ![cur][t] = NoBuf],
         UNCHANGED cur,
         \/ connections' = connections
         \/ connections' = connections \ {cur} /\ \A s \in Type \ {t} : buf[cur][s] = NoBuf
  PROVE  /\ LinkInv'
         /\ \A c \in Conn, s \in Type : buf'[c][s] = IF c = cur /\ s = t THEN NoBuf ELSE buf[c][s]
<1>1. \A c \in Conn, s \in Type : buf'[c][s] = IF c = cur /\ s = t THEN NoBuf ELSE buf[c][s]
  BY DEF LinkInv
<1>2. buf' \in [Conn -> [Type -> Buffer \cup {NoBuf}]]
  BY DEF LinkInv
<1>3. ASSUME NEW c \in Conn, NEW s \in Type, buf'[c][s] # NoBuf
      PROVE  c \in connections' /\ buf'[c][s] \in used' /\ buf'[c][s][2] = s
  <2>1. buf'[c][s] = buf[c][s] /\ ~ (c = cur /\ s = t) /\ buf[c][s] # NoBuf
    BY <1>1, <1>3
  <2>2. c \in connections /\ buf[c][s] \in used /\ buf[c][s][2] = s /\ buf[cur][t][2] = t /\ cur \in Conn
    BY <2>1 DEF LinkInv
  <2>3. buf[c][s] # buf[cur][t]
    BY <2>1, <2>2 DEF LinkInv
  <2>4. c \in connections'
    BY <2>1, <2>2
  <2> QED
    BY <2>1, <2>2, <2>3, <2>4
<1>4. ASSUME NEW e \in used' PROVE \E c \in connections', s \in Type : buf'[c][s] = e
  <2>1. e \in used /\ e # buf[cur][t] /\ e # NoBuf
    BY ServerAssumption
  <2>2. PICK c \in connections, s \in Type : buf[c][s] = e
    BY <2>1 DEF LinkInv
  <2>3. c \in Conn /\ buf'[c][s] = e
    BY <1>1, <2>1, <2>2 DEF LinkInv
  <2>4. c \in connections'
    BY <2>1, <2>2, <2>3
  <2> QED
    BY <2>3, <2>4
<1>5. ASSUME NEW c \in Conn, NEW d \in Conn, NEW s \in Type, buf'[c][s] = buf'[d][s], buf'[c][s] # NoBuf
      PROVE  c = d
  BY <1>1, <1>5 DEF LinkInv
<1>6. connections' \subseteq Conn /\ cur' \in Conn
  BY DEF LinkInv
<1> QED
  BY <1>1, <1>2, <1>3, <1>4, <1>5, <1>6 DEF LinkInv

\* What GetBuffer does to the lengths of the lists and to who is in use.
LEMMA GetStep ==
  ASSUME PoolSound, NEW t \in Type, NEW o \in Type, o # t, GetBuffer(t)
  PROVE  /\ PoolSound' /\ used \subseteq Buffer
         /\ \/ pool' = pool /\ used' = used /\ Free(t) = 0
            \/ \E h \in Buffer \ used, n \in Nat :
                  /\ h[2] = t /\ used' = used \cup {h} /\ (CHOOSE b \in used' : b \notin used) = h
                  /\ Free(t)' = n + Free(t) - 1 /\ Free(o)' = n + Free(o)
<1>1. PoolSound' /\ used \subseteq Buffer
  BY GetBufferSound, NextPoolSound DEF PoolSound, Sound
<1>2. CASE pool' = pool /\ used' = used /\ pool.list[t] = << >>
  BY <1>1, <1>2 DEF Free
<1>3. ASSUME NEW h \in Buffer \ used, NEW n \in Nat,
             h[2] = t, used' = used \cup {h},
             Len(pool'.list[t]) = n + Len(pool.list[t]) - 1,
             \A s \in Type \ {t} : Len(pool'.list[s]) = n + Len(pool.list[s])
      PROVE  /\ h[2] = t /\ used' = used \cup {h} /\ (CHOOSE b \in used' : b \notin used) = h
             /\ Free(t)' = n + Free(t) - 1 /\ Free(o)' = n + Free(o)
  <2>1. \A b \in used' : b \notin used <=> b = h
    BY <1>3
  <2>2. h \in used'
    BY <1>3
  <2>3. (CHOOSE b \in used' : b \notin used) = h
    BY <2>1, <2>2
  <2>4. Free(t)' = n + Free(t) - 1 /\ Free(o)' = n + Free(o)
    BY <1>3 DEF Free
  <2> QED
    BY <1>3, <2>3, <2>4
<1>4. \/ pool' = pool /\ used' = used /\ pool.list[t] = << >>
      \/ \E h \in Buffer \ used, n \in Nat :
            /\ h[2] = t /\ used' = used \cup {h}
            /\ Len(pool'.list[t]) = n + Len(pool.list[t]) - 1
            /\ \A s \in Type \ {t} : Len(pool'.list[s]) = n + Len(pool.list[s])
  BY GetBufferGives DEF PoolSound
<1> QED
  BY <1>1, <1>2, <1>3, <1>4

\* readBuf.Init(): a pair of free buffers, or none and the connection with number 0
\* is closed.
LEMMA InitReadStep ==
  ASSUME MemoryInv, initRead
  PROVE  MemoryInv' /\ [PoolNext]_poolVars
<1> USE DEF MemoryInv
<1>1. /\ pc = "initRead" /\ GetBuffer("READ") /\ UNCHANGED <<apiVars, loopVars>>
      /\ IF used' = used THEN CloseZero
         ELSE /\ buf' = [buf EXCEPT ![cur]["READ"] = CHOOSE b \in used' : b \notin used]
              /\ pc' = "initWrite" /\ UNCHANGED <<connections, cur, fdVars>>
  BY DEF initRead, InitBuffer
<1>2. "READ" \in Type /\ "WRITE" \in Type /\ "WRITE" # "READ"
  BY DEF Type
<1>3. PoolSound' /\ used \subseteq Buffer
  BY <1>1, <1>2, GetStep
<1>4. [PoolNext]_poolVars
  BY <1>1, <1>2 DEF PoolNext
<1>5. CASE pool' = pool /\ used' = used
  <2>1. CloseZero /\ UNCHANGED poolVars
    BY <1>1, <1>5 DEF poolVars
  <2>2. CASE zero \in {Connfd(c) : c \in connections}
    <3>1. PICK c \in connections : zero = Connfd(c)
      BY <2>2
    <3>2. c \in Conn /\ cur' = c
      BY <2>1, <2>2, <3>1 DEF LinkInv, CloseZero, Connfd
    <3> QED
      BY <1>1, <1>4, <2>1, <2>2, <3>1, <3>2, CloseStep DEF CloseZero, Settled
  <2>3. CASE zero \notin {Connfd(c) : c \in connections}
    <3>1. pc' = "loop" /\ cur' = cur /\ cur \in Conn /\ open' = open \ {zero}
          /\ UNCHANGED <<connections, buf>>
      BY <2>1, <2>3 DEF CloseZero, LinkInv
    <3>2. OpenInv'
      BY <1>1, <2>3, <3>1 DEF OpenInv
    <3>3. InstanceInv'
      BY <1>1 DEF InstanceInv, apiVars
    <3> QED
      BY <1>1, <1>4, <2>1, <3>1, <3>2, <3>3, QuietStep DEF Settled
  <2> QED
    BY <2>2, <2>3
<1>6. ASSUME NEW h \in Buffer \ used, NEW n \in Nat, h[2] = "READ", used' = used \cup {h},
             (CHOOSE b \in used' : b \notin used) = h,
             Free("READ")' = n + Free("READ") - 1, Free("WRITE")' = n + Free("WRITE")
      PROVE  MemoryInv'
  <2>1. /\ buf' = [buf EXCEPT ![cur]["READ"] = h] /\ pc' = "initWrite"
        /\ connections' = connections /\ cur' = cur /\ open' = open /\ instance' = instance
    BY <1>1, <1>6 DEF fdVars, apiVars
  <2>2. buf[cur]["READ"] = NoBuf /\ buf[cur]["WRITE"] = NoBuf /\ cur \in connections /\ cur \in Conn
    BY <1>1 DEF PairInv, Has, Halfway, LinkInv
  <2>3. /\ LinkInv' /\ h # NoBuf
        /\ \A c \in Conn, s \in Type : buf'[c][s] = IF c = cur /\ s = "READ" THEN h ELSE buf[c][s]
    BY <1>2, <1>3, <1>6, <2>1, <2>2, LinkGet
  <2>4. PairInv'
    BY <1>1, <1>2, <2>1, <2>2, <2>3 DEF PairInv, Has, Halfway
  <2>5. LengthInv'
    BY <1>1, <1>6, <2>1, FreeIsNat DEF LengthInv
  <2>6. OpenInv' /\ InstanceInv'
    BY <1>1, <2>1 DEF OpenInv, InstanceInv
  <2> QED
    BY <1>3, <2>3, <2>4, <2>5, <2>6
<1> QED
  BY <1>1, <1>2, <1>4, <1>5, <1>6, GetStep

\* writeBuf.Init() always succeeds: the list has one buffer more than the other.
LEMMA InitWriteStep ==
  ASSUME MemoryInv, initWrite
  PROVE  MemoryInv' /\ [PoolNext]_poolVars
<1> USE DEF MemoryInv
<1>1. /\ pc = "initWrite" /\ GetBuffer("WRITE") /\ UNCHANGED <<apiVars, loopVars>>
      /\ IF used' = used THEN CloseZero
         ELSE /\ buf' = [buf EXCEPT ![cur]["WRITE"] = CHOOSE b \in used' : b \notin used]
              /\ pc' = "add" /\ UNCHANGED <<connections, cur, fdVars>>
  BY DEF initWrite, InitBuffer
<1>2. "READ" \in Type /\ "WRITE" \in Type /\ "WRITE" # "READ"
  BY DEF Type
<1>3. PoolSound' /\ used \subseteq Buffer
  BY <1>1, <1>2, GetStep
<1>4. [PoolNext]_poolVars
  BY <1>1, <1>2 DEF PoolNext
<1>5. Free("WRITE") # 0
  BY <1>1, FreeIsNat DEF LengthInv
<1>6. ASSUME NEW h \in Buffer \ used, NEW n \in Nat, h[2] = "WRITE", used' = used \cup {h},
             (CHOOSE b \in used' : b \notin used) = h,
             Free("WRITE")' = n + Free("WRITE") - 1, Free("READ")' = n + Free("READ")
      PROVE  MemoryInv'
  <2>1. /\ buf' = [buf EXCEPT ![cur]["WRITE"] = h] /\ pc' = "add"
        /\ connections' = connections /\ cur' = cur /\ open' = open /\ instance' = instance
    BY <1>1, <1>6 DEF fdVars, apiVars
  <2>2. buf[cur]["READ"] # NoBuf /\ buf[cur]["WRITE"] = NoBuf /\ cur \in Conn
    BY <1>1 DEF PairInv, Has, Halfway, LinkInv
  <2>3. cur \in connections
    BY <1>2, <2>2 DEF LinkInv
  <2>4. /\ LinkInv' /\ h # NoBuf
        /\ \A c \in Conn, s \in Type : buf'[c][s] = IF c = cur /\ s = "WRITE" THEN h ELSE buf[c][s]
    BY <1>2, <1>3, <1>6, <2>1, <2>2, <2>3, LinkGet
  <2>5. PairInv'
    BY <1>1, <1>2, <2>1, <2>2, <2>4 DEF PairInv, Has, Halfway
  <2>6. LengthInv'
    BY <1>1, <1>6, <2>1, FreeIsNat DEF LengthInv
  <2>7. OpenInv' /\ InstanceInv'
    BY <1>1, <2>1 DEF OpenInv, InstanceInv
  <2> QED
    BY <1>3, <2>4, <2>5, <2>6, <2>7
<1> QED
  BY <1>1, <1>2, <1>4, <1>5, <1>6, GetStep

\* What FreeBuffer does to the lengths: a list that is long enough stays.
LEMMA FreeStep ==
  ASSUME PoolSound, NEW t \in Type, NEW o \in Type, o # t,
         NEW e \in used, e[2] = t, FreeBuffer(e)
  PROVE  /\ PoolSound' /\ used' = used \ {e} /\ [PoolNext]_poolVars
         /\ Free(t)' = IF Free(t) >= MIN_BLOCK_NUM THEN Free(t) ELSE Free(t) + 1
         /\ Free(o)' = Free(o)
<1>1. pool' = FreeBufferInner(pool, e) /\ used' = used \ {e}
  BY DEF FreeBuffer
<1>2. Sound(FreeBufferInner(pool, e), used \ {e})
  BY FreeBufferSound DEF PoolSound
<1>3. PoolSound'
  BY <1>1, <1>2, NextPoolSound
<1>4. [PoolNext]_poolVars
  BY DEF PoolNext
<1>5. /\ Len(pool'.list[t]) = IF Len(pool.list[t]) >= MIN_BLOCK_NUM
                              THEN Len(pool.list[t]) ELSE Len(pool.list[t]) + 1
      /\ \A s \in Type \ {t} : pool'.list[s] = pool.list[s]
  BY FreeBufferLeaves DEF PoolSound
<1> QED
  BY <1>1, <1>3, <1>4, <1>5 DEF Free

\* ~SPBuffer of the write buffer.
LEMMA DestroyWriteStep ==
  ASSUME MemoryInv, DestroyWriteBuf
  PROVE  MemoryInv' /\ [PoolNext]_poolVars
<1> USE DEF MemoryInv
<1>1. /\ pc \in {"closeW", "delW"} /\ FreeOf("WRITE")
      /\ pc' = IF pc = "closeW" THEN "closeR" ELSE "delR"
      /\ connections' = connections /\ cur' = cur /\ open' = open /\ instance' = instance
      /\ cur \in Conn /\ instance
  BY DEF DestroyWriteBuf, fdVars, apiVars, LinkInv, InstanceInv
<1>2. "READ" \in Type /\ "WRITE" \in Type /\ "READ" # "WRITE"
  BY DEF Type
<1>3. Has(cur, "READ") <=> Has(cur, "WRITE")
  BY <1>1 DEF PairInv, Halfway
<1>4. OpenInv' /\ InstanceInv'
  BY <1>1 DEF OpenInv, InstanceInv
<1>5. CASE buf[cur]["WRITE"] = NoBuf
  <2>1. buf' = buf /\ pool' = pool /\ used' = used
    BY <1>1, <1>5 DEF FreeOf, poolVars
  <2>2. PoolSound'
    BY <2>1, NextPoolSound DEF PoolSound
  <2>3. LinkInv'
    BY <1>1, <2>1 DEF LinkInv
  <2>4. PairInv'
    BY <1>1, <1>3, <1>5, <2>1 DEF PairInv, Has, Halfway
  <2>5. LengthInv'
    BY <1>1, <1>3, <1>5, <2>1 DEF LengthInv, Has, Free
  <2> QED
    BY <1>4, <2>1, <2>2, <2>3, <2>4, <2>5 DEF poolVars
<1>6. CASE buf[cur]["WRITE"] # NoBuf
  <2> DEFINE e == buf[cur]["WRITE"]
  <2>1. FreeBuffer(e) /\ buf' = [buf EXCEPT ![cur]["WRITE"] = NoBuf]
    BY <1>1, <1>6 DEF FreeOf
  <2>2. e \in used /\ e[2] = "WRITE" /\ used \subseteq Buffer
    BY <1>1, <1>2, <1>6 DEF LinkInv, PoolSound, Sound
  <2>3. /\ PoolSound' /\ used' = used \ {e} /\ [PoolNext]_poolVars
        /\ Free("WRITE")' = IF Free("WRITE") >= MIN_BLOCK_NUM THEN Free("WRITE") ELSE Free("WRITE") + 1
        /\ Free("READ")' = Free("READ")
    BY <1>2, <2>1, <2>2, FreeStep
  <2>4. /\ LinkInv'
        /\ \A c \in Conn, s \in Type : buf'[c][s] = IF c = cur /\ s = "WRITE" THEN NoBuf ELSE buf[c][s]
    BY <1>1, <1>2, <1>6, <2>1, <2>2, <2>3, LinkFree
  <2>5. PairInv'
    BY <1>1, <1>2, <2>4 DEF PairInv, Has, Halfway
  <2>6. Has(cur, "READ")'
    BY <1>1, <1>2, <1>3, <1>6, <2>4 DEF Has
  <2>7. LengthInv'
    BY <1>1, <2>3, <2>6, FreeIsNat, PoolAssumption DEF LengthInv
  <2> QED
    BY <1>4, <2>3, <2>4, <2>5, <2>7
<1> QED
  BY <1>5, <1>6

\* ~SPBuffer of the read buffer, after which the controller is gone.
LEMMA DestroyReadStep ==
  ASSUME MemoryInv, DestroyReadBuf
  PROVE  MemoryInv' /\ [PoolNext]_poolVars
<1> USE DEF MemoryInv
<1>1. /\ pc \in {"closeR", "delR"} /\ FreeOf("READ")
      /\ pc' = IF pc = "closeR" THEN "loop" ELSE "del"
      /\ connections' = connections \ {cur} /\ cur' = cur /\ open' = open /\ instance' = instance
      /\ cur \in Conn /\ instance
  BY DEF DestroyReadBuf, fdVars, apiVars, LinkInv, InstanceInv
<1>2. /\ "READ" \in Type /\ "WRITE" \in Type /\ "READ" # "WRITE"
      /\ \A s \in Type \ {"READ"} : s = "WRITE"
  BY DEF Type
<1>3. buf[cur]["WRITE"] = NoBuf
  BY <1>1 DEF PairInv, Has
<1>4. OpenInv' /\ InstanceInv'
  BY <1>1 DEF OpenInv, InstanceInv
<1>5. CASE buf[cur]["READ"] = NoBuf
  <2>1. buf' = buf /\ pool' = pool /\ used' = used
    BY <1>1, <1>5 DEF FreeOf, poolVars
  <2>2. PoolSound'
    BY <2>1, NextPoolSound DEF PoolSound
  <2>3. \A s \in Type : buf[cur][s] = NoBuf
    BY <1>2, <1>3, <1>5
  <2>4. LinkInv'
    <3>1. \A x \in used : x # NoBuf
      BY ServerAssumption DEF PoolSound, Sound
    <3>2. ASSUME NEW x \in used PROVE \E c \in connections \ {cur}, s \in Type : buf[c][s] = x
      BY <2>3, <3>1 DEF LinkInv
    <3> QED
      BY <1>1, <2>1, <2>3, <3>2 DEF LinkInv
  <2>5. PairInv'
    BY <1>1, <1>3, <1>5, <2>1 DEF PairInv, Has, Halfway
  <2>6. LengthInv'
    BY <1>1, <1>5, <2>1 DEF LengthInv, Has, Free
  <2> QED
    BY <1>4, <2>1, <2>2, <2>4, <2>5, <2>6 DEF poolVars
<1>6. CASE buf[cur]["READ"] # NoBuf
  <2> DEFINE e == buf[cur]["READ"]
  <2>1. FreeBuffer(e) /\ buf' = [buf EXCEPT ![cur]["READ"] = NoBuf]
    BY <1>1, <1>6 DEF FreeOf
  <2>2. e \in used /\ e[2] = "READ" /\ used \subseteq Buffer
    BY <1>1, <1>2, <1>6 DEF LinkInv, PoolSound, Sound
  <2>3. /\ PoolSound' /\ used' = used \ {e} /\ [PoolNext]_poolVars
        /\ Free("READ")' = IF Free("READ") >= MIN_BLOCK_NUM THEN Free("READ") ELSE Free("READ") + 1
        /\ Free("WRITE")' = Free("WRITE")
    BY <1>2, <2>1, <2>2, FreeStep
  <2>4. /\ LinkInv'
        /\ \A c \in Conn, s \in Type : buf'[c][s] = IF c = cur /\ s = "READ" THEN NoBuf ELSE buf[c][s]
    BY <1>1, <1>2, <1>3, <1>6, <2>1, <2>2, <2>3, LinkFree
  <2>5. PairInv'
    BY <1>1, <1>2, <1>3, <2>4 DEF PairInv, Has, Halfway
  <2>6. LengthInv'
    BY <1>1, <1>6, <2>3, FreeIsNat, PoolAssumption DEF LengthInv, Has
  <2> QED
    BY <1>4, <2>3, <2>4, <2>5, <2>6
<1> QED
  BY <1>5, <1>6

\* SPTcpBufferPool::reset() with the map gone: nothing is in use.
LEMMA ResetStep ==
  ASSUME MemoryInv, ResetPool
  PROVE  MemoryInv' /\ [PoolNext]_poolVars
<1> USE DEF MemoryInv
<1>1. /\ pc = "del" /\ pc' = "idle" /\ connections = {} /\ pool' = resetPool(pool)
      /\ used' = used /\ connections' = connections /\ buf' = buf /\ cur' = cur
  BY DEF ResetPool, connVars
<1>2. used = {}
  BY <1>1 DEF LinkInv
<1>3. Sound(resetPool(pool), {}) /\ resetPool(pool).heap = {}
  BY <1>2, ResetSound DEF PoolSound
<1>4. PoolSound'
  BY <1>1, <1>2, <1>3, NextPoolSound
<1>5. reset
  BY <1>1, <1>2 DEF reset
<1>6. LinkInv' /\ PairInv'
  BY <1>1 DEF LinkInv, PairInv, Has, Halfway
<1>7. LengthInv'
  BY <1>1 DEF LengthInv, Free, resetPool, Type
<1>8. OpenInv' /\ InstanceInv'
  BY <1>1, <1>3 DEF OpenInv, InstanceInv
<1> QED
  BY <1>4, <1>5, <1>6, <1>7, <1>8 DEF PoolNext

-----------------------------------------------------------------------------
(* The specification.                                                      *)

\* Every step keeps the invariant, and is a step of a user of the pool.
LEMMA MemoryNext == MemoryInv /\ [TcpNext]_tcpVars => MemoryInv' /\ [PoolNext]_poolVars
<1> SUFFICES ASSUME MemoryInv, [TcpNext]_tcpVars PROVE MemoryInv' /\ [PoolNext]_poolVars
  OBVIOUS
<1>1. CASE \/ Config \/ GetInstance \/ Listen \/ SetCallback \/ SetSignalExit
           \/ SetExitFlag \/ HandleExit \/ EventLoop \/ OpenIdle \/ IOThreadDies
           \/ LeaveLoop \/ ExitIOEventLoop \/ Release
  BY <1>1, ApiSteps
<1>2. CASE \/ \E c \in Conn : HandleConnect(c) \/ CloseConnection(c) \/ DeleteController(c)
           \/ AddToEpoll
  BY <1>2, MapSteps
<1>3. CASE initRead \/ initWrite
  BY <1>3, InitReadStep, InitWriteStep
<1>4. CASE DestroyWriteBuf \/ DestroyReadBuf
  BY <1>4, DestroyWriteStep, DestroyReadStep
<1>5. CASE ResetPool
  BY <1>5, ResetStep
<1>6. CASE UNCHANGED tcpVars
  <2>1. UNCHANGED <<connections, buf, poolVars>> /\ cur' = cur /\ pc' = pc /\ cur \in Conn
    BY <1>6 DEF tcpVars, connVars, MemoryInv, LinkInv
  <2>2. OpenInv' /\ InstanceInv'
    BY <1>6, <2>1 DEF MemoryInv, OpenInv, InstanceInv, tcpVars, fdVars, apiVars, poolVars
  <2> QED
    BY <2>1, <2>2, QuietStep
<1> QED
  BY <1>1, <1>2, <1>3, <1>4, <1>5, <1>6 DEF TcpNext

\* The memory of the connections is accounted for in every state.
LEMMA MemoryAlways == TcpSpec => []MemoryInv
  BY MemoryInit, MemoryNext, PTL DEF TcpSpec

\* The server implements the abstract user of the pool: it returns only what it
\* got, once, and resets the pool only when nothing is out.
THEOREM ServerUsesPool == TcpSpec => PoolSpec
<1>1. TcpInit => PoolInit
  BY DEF TcpInit
<1> QED
  BY <1>1, MemoryAlways, MemoryNext, PTL DEF TcpSpec, PoolSpec

\* Release() gives all memory of the pool back to malloc, however many connections
\* were open.
THEOREM ReleaseReturnsMemory == TcpSpec => []ReleaseFreesAll
<1>1. MemoryInv => ReleaseFreesAll
  BY DEF MemoryInv, LinkInv, InstanceInv, ReleaseFreesAll
<1> QED
  BY <1>1, MemoryAlways, PTL

\* A controller gets both buffers or none: writeBuf.Init() never fails once
\* readBuf.Init() succeeded.
THEOREM BuffersPaired == TcpSpec => []BuffersComeInPairs
<1>1. ASSUME MemoryInv PROVE BuffersComeInPairs
  <2>1. pc = "initWrite" => pool.list["WRITE"] # << >>
    <3>1. pc = "initWrite" => Free("WRITE") # 0
      BY <1>1, FreeIsNat DEF MemoryInv, LengthInv
    <3> QED
      BY <3>1 DEF Free
  <2>2. pc = "loop" => \A c \in connections : buf[c]["READ"] = NoBuf <=> buf[c]["WRITE"] = NoBuf
    BY <1>1 DEF MemoryInv, LinkInv, PairInv, Has, Halfway
  <2> QED
    BY <2>1, <2>2 DEF BuffersComeInPairs
<1> QED
  BY <1>1, MemoryAlways, PTL

\* No connection stays in the map after its descriptor was closed.
THEOREM MapOnlyOpen == TcpSpec => []MappedIsOpen
<1>1. MemoryInv => MappedIsOpen
  BY DEF MemoryInv, OpenInv, MappedIsOpen
<1> QED
  BY <1>1, MemoryAlways, PTL

-----------------------------------------------------------------------------
(* Types.                                                                  *)

ServerFds == {Listenfd, Idlefd} \cup {Loopfd(i) : i \in 1 .. MAX_LOOPS}
                                \cup {Connfd(c) : c \in Conn}
ZeroFds   == {Stdin, None, Listenfd} \cup {Connfd(c) : c \in Conn}

\* The part of TcpTypeOK that is about the calls and the descriptors.
FlagTypes == /\ ratio \in {0} \cup RATIOS /\ instance \in BOOLEAN /\ listenfd \in BOOLEAN
             /\ exitFlag \in BOOLEAN /\ handler \in BOOLEAN
             /\ status \subseteq {"listen", "callback", "signal", "done"}
FdTypes   == open \subseteq ServerFds /\ zero \in ZeroFds
LoopTypes == halfway \in BOOLEAN /\ loopInfo \in 0 .. MAX_LOOPS

\* The flags, the descriptors and the loops keep their types.
LEMMA CallTypes ==
  ASSUME FlagTypes, FdTypes, LoopTypes, MemoryInv, [TcpNext]_tcpVars
  PROVE  FlagTypes' /\ FdTypes' /\ LoopTypes'
<1>1. cur \in Conn /\ connections \subseteq Conn
  BY DEF MemoryInv, LinkInv
<1>2. Listenfd \in ServerFds /\ Idlefd \in ServerFds /\ \A c \in Conn : Connfd(c) \in ServerFds
  BY DEF ServerFds
<1>3. None \in ZeroFds /\ Listenfd \in ZeroFds /\ \A c \in Conn : Connfd(c) \in ZeroFds
  BY DEF ZeroFds
<1>4. CASE UNCHANGED <<apiVars, fdVars, loopVars>>
  BY <1>4, Zenon DEF FlagTypes, FdTypes, LoopTypes, apiVars, fdVars, loopVars
<1>5. ASSUME UNCHANGED <<fdVars, loopVars>>, FlagTypes' PROVE FlagTypes' /\ FdTypes' /\ LoopTypes'
  BY <1>5, Zenon DEF FdTypes, LoopTypes, fdVars, loopVars
<1>6. ASSUME UNCHANGED <<apiVars, loopVars>>, FdTypes' PROVE FlagTypes' /\ FdTypes' /\ LoopTypes'
  BY <1>6, Zenon DEF FlagTypes, LoopTypes, apiVars, loopVars
<1>7. CASE Config \/ SetCallback \/ SetSignalExit \/ SetExitFlag \/ HandleExit
  <2>1. FlagTypes'
    BY <1>7, Zenon DEF Config, SetCallback, SetSignalExit, SetExitFlag, HandleExit, ClearExitFlag,
                FlagTypes
  <2> QED
    BY <1>5, <1>7, <2>1 DEF Config, SetCallback, SetSignalExit, SetExitFlag, HandleExit, ClearExitFlag
<1>8. CASE GetInstance
  <2>1. FlagTypes' /\ FdTypes'
    BY <1>8, Zenon DEF GetInstance, FlagTypes, FdTypes, fdVars
  <2>2. LoopTypes'
    <3>1. 0 \in 0 .. MAX_LOOPS
      BY ServerAssumption
    <3> QED
      BY <1>8, <3>1, Zenon DEF GetInstance, LoopTypes
  <2> QED
    BY <2>1, <2>2
<1>9. CASE Listen
  <2>1. PICK ok \in BOOLEAN : /\ listenfd' = ok
                              /\ open' = IF ok THEN open \cup {Listenfd} ELSE open
                              /\ zero' = IF ok THEN Opened(Listenfd) ELSE zero
                              /\ status' = IF ok THEN status \cup {"listen"} ELSE status
    BY <1>9, Zenon DEF Listen
  <2>2. open' \subseteq ServerFds /\ zero' \in ZeroFds
    BY <1>2, <1>3, <2>1 DEF FdTypes, Opened
  <2>3. status' \subseteq {"listen", "callback", "signal", "done"}
    BY <2>1 DEF FlagTypes
  <2>4. FlagTypes' /\ LoopTypes'
    BY <1>9, <2>1, <2>3, Zenon DEF Listen, FlagTypes, LoopTypes, loopVars
  <2> QED
    BY <2>2, <2>4 DEF FdTypes
<1>10. CASE EventLoop
  <2>1. PICK num : CreateIOEventLoop(num)
    BY <1>10 DEF EventLoop
  <2>2. PICK k \in 0 .. num :
          /\ loopInfo + k <= MAX_LOOPS /\ loopInfo' = loopInfo + k
          /\ \/ /\ open' = open \cup {Loopfd(i) : i \in (loopInfo + 1) .. (loopInfo + k)}
                /\ halfway' = halfway
             \/ /\ open' = open \ {Loopfd(i) : i \in 1 .. (loopInfo + k)}
                /\ halfway' = (halfway \/ loopInfo + k > 0)
    BY <2>1 DEF CreateIOEventLoop
  <2>3. loopInfo' \in 0 .. MAX_LOOPS /\ loopInfo \in Nat
    BY <2>2, ServerAssumption DEF LoopTypes
  <2>4. open' \subseteq ServerFds
    <3>1. \A i \in (loopInfo + 1) .. (loopInfo + k) : i \in 1 .. MAX_LOOPS
      BY <2>2, <2>3, ServerAssumption
    <3>2. \A i \in (loopInfo + 1) .. (loopInfo + k) : Loopfd(i) \in ServerFds
      BY <3>1 DEF ServerFds
    <3> QED
      BY <2>2, <3>2 DEF FdTypes
  <2>5. halfway' \in BOOLEAN
    BY <2>2, Zenon DEF LoopTypes
  <2>6. FlagTypes' /\ zero' \in ZeroFds
    BY <1>10, Zenon DEF EventLoop, FlagTypes, apiVars, FdTypes
  <2> QED
    BY <2>3, <2>4, <2>5, <2>6 DEF FdTypes, LoopTypes
<1>11. CASE OpenIdle \/ LeaveLoop \/ Release
  <2>1. open' \subseteq ServerFds /\ zero' \in ZeroFds
    BY <1>2, <1>3, <1>11 DEF OpenIdle, LeaveLoop, Release, FdTypes, Closed
  <2> QED
    BY <1>6, <1>11, <2>1 DEF OpenIdle, LeaveLoop, Release, FdTypes
<1>12. ASSUME NEW c \in Conn, HandleConnect(c) PROVE FlagTypes' /\ FdTypes' /\ LoopTypes'
  <2>1. open' \subseteq ServerFds /\ zero' \in ZeroFds
    BY <1>2, <1>3, <1>12 DEF HandleConnect, FdTypes, Opened
  <2> QED
    BY <1>6, <1>12, <2>1 DEF HandleConnect, FdTypes
<1>13. ASSUME NEW c, Close(c), UNCHANGED <<apiVars, loopVars>>
       PROVE FlagTypes' /\ FdTypes' /\ LoopTypes'
  <2>1. open' \subseteq ServerFds /\ zero' \in ZeroFds
    BY <1>3, <1>13 DEF Close, FdTypes, Closed
  <2> QED
    BY <1>6, <1>13, <2>1 DEF FdTypes
<1>14. ASSUME NEW c \in Conn, CloseConnection(c) \/ DeleteController(c)
       PROVE FlagTypes' /\ FdTypes' /\ LoopTypes'
  BY <1>4, <1>13, <1>14 DEF CloseConnection, DeleteController
<1>15. CASE AddToEpoll
  BY <1>4, <1>13, <1>15 DEF AddToEpoll
<1>16. ASSUME NEW t, NEW at, NEW next, InitBuffer(t, at, next)
       PROVE FlagTypes' /\ FdTypes' /\ LoopTypes'
  <2>1. open' \subseteq ServerFds /\ zero' \in ZeroFds
    BY <1>3, <1>16 DEF InitBuffer, CloseZero, FdTypes, fdVars
  <2> QED
    BY <1>6, <1>16, <2>1 DEF InitBuffer, FdTypes
<1>17. CASE initRead \/ initWrite
  BY <1>16, <1>17 DEF initRead, initWrite
<1>18. CASE DestroyWriteBuf \/ DestroyReadBuf \/ IOThreadDies
  BY <1>4, <1>18 DEF DestroyWriteBuf, DestroyReadBuf, IOThreadDies
<1>19. CASE ExitIOEventLoop
  <2>1. open' \subseteq ServerFds /\ zero' \in ZeroFds
    BY <1>19 DEF ExitIOEventLoop, FdTypes
  <2>2. FlagTypes' /\ LoopTypes'
    BY <1>19, Zenon DEF ExitIOEventLoop, FlagTypes, LoopTypes, loopVars
  <2> QED
    BY <2>1, <2>2 DEF FdTypes
<1>20. CASE ResetPool
  <2>1. FlagTypes'
    BY <1>20, Zenon DEF ResetPool, FlagTypes
  <2> QED
    BY <1>5, <1>20, <2>1 DEF ResetPool
<1>21. CASE UNCHANGED tcpVars
  BY <1>4, <1>21 DEF tcpVars
<1> QED
  BY <1>7, <1>8, <1>9, <1>10, <1>11, <1>12, <1>14, <1>15, <1>17, <1>18, <1>19, <1>20, <1>21
     DEF TcpNext

\* The types of the TCP server's state.
LEMMA TcpTyped == TcpSpec => []TcpTypeOK
<1> DEFINE Types == FlagTypes /\ FdTypes /\ LoopTypes
<1>1. TcpInit => Types
  <2>1. 0 \in 0 .. MAX_LOOPS
    BY ServerAssumption
  <2> QED
    BY <2>1, Zenon DEF TcpInit, FlagTypes, FdTypes, LoopTypes, ZeroFds
<1>2. MemoryInv /\ Types /\ [TcpNext]_tcpVars => Types'
  BY CallTypes
<1>3. ASSUME MemoryInv, DescriptorInv, Types PROVE TcpTypeOK
  <2>1. PoolTypeOK
    BY <1>3, SoundMeans DEF MemoryInv, PoolSound
  <2>2. /\ connections \subseteq Conn /\ cur \in Conn
        /\ buf \in [Conn -> [Type -> Buffer \cup {NoBuf}]]
    BY <1>3 DEF MemoryInv, LinkInv
  <2>3. pc \in {"idle", "start", "loop", "initRead", "initWrite", "add", "closeW", "closeR",
                "left", "del", "delW", "delR", "crashed"}
    BY <1>3 DEF DescriptorInv, LoopInv, Deleting, InLoop
  <2> QED
    BY <1>3, <2>1, <2>2, <2>3, Zenon
       DEF TcpTypeOK, FlagTypes, FdTypes, LoopTypes, ServerFds, ZeroFds
<1> HIDE DEF Types
<1> QED
  BY <1>1, <1>2, <1>3, MemoryAlways, DescriptorInit, DescriptorNext, PTL DEF TcpSpec

\* An application of SPServers is one of the TCP server, and one of the UDP server.
LEMMA ApplicationUsesBoth == Spec => TcpSpec /\ UdpInit /\ [][UdpNext]_udpVars
<1>1. Init => TcpInit /\ UdpInit
  BY DEF Init
<1>2. [Next]_vars => [TcpNext]_tcpVars /\ [UdpNext]_udpVars
  BY DEF Next, vars
<1> QED
  BY <1>1, <1>2, PTL DEF Spec, TcpSpec

\* Whichever server an application uses and whatever fails in it, its state stays
\* in the sets the code can reach.
THEOREM ServersTyped == Spec => []TypeOK
<1>1. UdpInv => UdpTypeOK
  BY DEF UdpInv
<1>2. TcpTypeOK /\ UdpTypeOK => TypeOK
  BY DEF TypeOK
<1> QED
  BY <1>1, <1>2, ApplicationUsesBoth, TcpTyped, UdpInitInv, UdpNextInv, PTL
=============================================================================
