---------------------------- MODULE SPController ----------------------------
(***************************************************************************)
(* The data path of one connection: SOCKController's two buffers between   *)
(* recv() and send(), the decisions of HandleRead and HandleWrite, and an  *)
(* application whose callbacks return to the peer what they get from it,   *)
(* by any of the means the class offers.  SPSockTcp shows that one thread  *)
(* at a time works on a connection; here that thread is followed through   *)
(* the single calls of recv() and send(), with the peer running beside it. *)
(*                                                                         *)
(* The bytes the peer sends are numbered, so that order and loss show.     *)
(* The buffers are records of module SPBuffer.                             *)
(***************************************************************************)
EXTENDS Integers, Sequences

CONSTANTS READ_BSIZE, WRITE_BSIZE,
          Marks,           \* the watermarks <<readMark, writeMark>> the user may set
          Unlimited,       \* 0xffffffff, the default of writeMark
          TOTAL,           \* bound on the bytes the peer sends
          MAX_CALLS        \* bound on the calls of one callback

ASSUME ControllerAssumption ==
    /\ READ_BSIZE \in Nat \ {0} /\ WRITE_BSIZE \in Nat \ {0}
    /\ \A m \in Marks : m[1] \in 0 .. READ_BSIZE /\ m[2] \in Nat \cup {Unlimited}
    /\ TOTAL \in Nat /\ MAX_CALLS \in Nat

VARIABLES
    readBuf, writeBuf,
    events,      \* the interest that was set last
    peerClosed,  \* whether the controller knows that the peer sends no more
    mark,        \* markGlobal
    mask,        \* what epoll was armed with
    pc,          \* where the thread that owns the connection is
    caller,      \* who called commitWrite()
    quota,       \* bytes moveToWriteBuffer() may still move
    calls,       \* calls made by this callback
    arrived,     \* bytes the peer has sent so far
    taken,       \* how many of them recv() has delivered
    fin,         \* whether it has shut its side down
    full,        \* whether the socket has no room, so that epoll reports no EPOLLOUT
    tx           \* the bytes that went back to it

ctlVars  == <<readBuf, writeBuf, events, peerClosed, mark>>
peerVars == <<arrived, fin, full>>
runVars  == <<mask, caller, quota, calls>>
vars     == <<ctlVars, peerVars, runVars, pc, taken, tx>>

B == INSTANCE SPBuffer WITH BSIZE <- READ_BSIZE, Byte <- 0 .. TOTAL, Data <- {}, Lengths <- {},
                            buf <- readBuf, out <- << >>, ret <- 0

Size(b)    == B!bytesRead(b)
Content(b) == B!copyOut(b, Size(b))

Empty(n) == [back |-> 0, front |-> 0, size |-> 0, bsize |-> n, mem |-> [p \in 0 .. (n - 1) |-> 0]]

\* init(), and epoll_ctl(EPOLL_CTL_ADD) with the default interest.
Init ==
    /\ readBuf = Empty(READ_BSIZE) /\ writeBuf = Empty(WRITE_BSIZE)
    /\ events = {"IN"} /\ mask = {"IN"} /\ peerClosed = FALSE
    /\ mark \in Marks
    /\ pc = "armed" /\ caller = "event" /\ quota = 0 /\ calls = 0
    /\ arrived = 0 /\ fin = FALSE /\ full = FALSE /\ taken = 0 /\ tx = << >>

-----------------------------------------------------------------------------
(* The peer.                                                               *)

PeerSends ==
    /\ ~fin /\ arrived < TOTAL
    /\ arrived' = arrived + 1
    /\ UNCHANGED <<ctlVars, fin, full, runVars, pc, taken, tx>>

PeerShutsDown ==
    /\ ~fin
    /\ fin' = TRUE
    /\ UNCHANGED <<ctlVars, arrived, full, runVars, pc, taken, tx>>

\* The peer reads, which makes room in the socket.  It may also never do so.
PeerReads ==
    /\ full
    /\ full' = FALSE
    /\ UNCHANGED <<ctlVars, arrived, fin, runVars, pc, taken, tx>>

-----------------------------------------------------------------------------
(* The I/O thread.                                                         *)

\* IOEventLoop: EPOLLIN or EPOLLRDHUP; the latter is always asked for.
EventIn ==
    /\ pc = "armed"
    /\ fin \/ ("IN" \in mask /\ taken < arrived)
    /\ peerClosed' = (peerClosed \/ fin)
    /\ pc' = "recv"
    /\ UNCHANGED <<readBuf, writeBuf, events, mark, peerVars, runVars, taken, tx>>

\* EPOLLOUT is reported when the socket has room and looked at only when neither of
\* the others is reported.
EventOut ==
    /\ pc = "armed"
    /\ "OUT" \in mask /\ ~full /\ ~fin /\ ~("IN" \in mask /\ taken < arrived)
    /\ pc' = "write"
    /\ UNCHANGED <<ctlVars, peerVars, runVars, taken, tx>>

\* EPOLLHUP or EPOLLERR: ActiveClose.
Hangup ==
    /\ pc = "armed"
    /\ pc' = "closed"
    /\ UNCHANGED <<ctlVars, peerVars, runVars, taken, tx>>

\* One round of readSocket: recv() into the contiguous free part.
ReadSocket ==
    /\ pc = "recv"
    /\ LET len == B!distanceWrite(readBuf)
           n   == B!Least(len, arrived - taken)
       IN  \/ /\ n = 0                          \* no room, EAGAIN or end of file
              /\ pc' = "read"
              /\ UNCHANGED <<readBuf, taken>>
           \/ \E got \in 1 .. n :
                 /\ readBuf' = B!commitWrite(B!storeAtWritePtr(readBuf,
                                   [i \in 1 .. got |-> taken + i]), got)
                 /\ taken' = taken + got
                 /\ pc' = IF got < len THEN "read" ELSE "recv"
           \/ /\ len # 0                        \* recv() fails
              /\ pc' = "closed"
              /\ UNCHANGED <<readBuf, taken>>
    /\ UNCHANGED <<writeBuf, events, peerClosed, mark, peerVars, runVars, tx>>

\* renableEvents: epoll_ctl with the interest that was set last, or its failure.
renableEvents ==
    \/ mask' = events /\ pc' = "armed" /\ UNCHANGED events
    \/ events' = {} /\ pc' = "closed" /\ UNCHANGED mask

\* The I/O thread is done with the event: the worker's callback or ActiveClose.
handOver(to) ==
    /\ pc' = to
    /\ UNCHANGED <<mask, events>>

\* Faulty variant of HandleRead: the end of the input is not looked at.
HandleReadIgnoresEnd ==
    /\ pc = "read"
    /\ IF mark[1] = 0 \/ Size(readBuf) >= mark[1]
       THEN handOver("callback")
       ELSE renableEvents
    /\ calls' = 0
    /\ UNCHANGED <<readBuf, writeBuf, peerClosed, mark, caller, quota, peerVars, taken, tx>>

\* Faulty variant of HandleRead: the watermark has to be exceeded.
HandleReadAboveMark ==
    /\ pc = "read"
    /\ IF peerClosed /\ Size(readBuf) = 0
       THEN handOver("closed")
       ELSE IF mark[1] = 0 \/ Size(readBuf) > mark[1]
            THEN handOver("callback")
            ELSE renableEvents
    /\ calls' = 0
    /\ UNCHANGED <<readBuf, writeBuf, peerClosed, mark, caller, quota, peerVars, taken, tx>>

\* HandleRead after readSocket.
HandleRead ==
    /\ pc = "read"
    /\ IF peerClosed /\ Size(readBuf) = 0
       THEN handOver("closed")
       ELSE IF mark[1] = 0 \/ Size(readBuf) >= mark[1]
            THEN handOver("callback")
            ELSE renableEvents
    /\ calls' = 0
    /\ UNCHANGED <<readBuf, writeBuf, peerClosed, mark, caller, quota, peerVars, taken, tx>>

\* HandleWrite up to commitWrite.
HandleWrite ==
    /\ pc = "write"
    /\ pc' = IF peerClosed /\ Size(readBuf) = 0 THEN "closed"
             ELSE IF mark[2] = Unlimited THEN "callback" ELSE "commit"
    /\ caller' = "event"
    /\ calls' = 0
    /\ UNCHANGED <<ctlVars, mask, quota, peerVars, taken, tx>>

\* Faulty variant of belowWriteMark: the watermark itself is too much.
belowWriteMarkStrict == Size(writeBuf) < mark[2]

belowWriteMark == Size(writeBuf) <= mark[2]

\* HandleWrite after commitWrite.
HandleWritten ==
    /\ pc = "written"
    /\ IF belowWriteMark THEN handOver("callback") ELSE renableEvents
    /\ UNCHANGED <<readBuf, writeBuf, peerClosed, mark, caller, quota, calls, peerVars, taken, tx>>

-----------------------------------------------------------------------------
(* Members of the controller that send.                                    *)

\* send() takes n of the bytes at b's readPtr(); 0 is EAGAIN.
Send(b, n) == tx' = tx \o B!loadAtReadPtr(b, n)

\* After send() took n of len bytes: it takes less only when the socket is full.
Filled(n, len) == full' \in IF n < len THEN {TRUE} ELSE {full, full \/ n > 0}

\* Faulty variant of Returned: writeBack goes on whatever was left.
ReturnedAnyRest(rest) ==
    CASE caller = "event" -> IF rest = -1 THEN "closed" ELSE "written"
      [] caller = "callback" -> "callback"
      [] caller = "writeBack" -> "back"

\* Where commitWrite returns to with the number of bytes left, or -1.
Returned(rest) ==
    CASE caller = "event" -> IF rest = -1 THEN "closed" ELSE "written"
      [] caller = "callback" -> "callback"
      [] caller = "writeBack" -> IF rest = 0 THEN "back" ELSE "callback"

\* One round of commitWrite.
CommitWrite ==
    /\ pc = "commit"
    /\ LET len == B!distanceRead(writeBuf)
       IN  \/ /\ len = 0
              /\ pc' = Returned(0)
              /\ UNCHANGED <<writeBuf, full, tx>>
           \/ \E n \in 0 .. len :
                 /\ len # 0
                 /\ Send(writeBuf, n) /\ Filled(n, len)
                 /\ writeBuf' = B!commitRead(writeBuf, n)
                 /\ pc' = IF n < len THEN Returned(Size(writeBuf')) ELSE "commit"
           \/ /\ len # 0                        \* send() fails
              /\ pc' = Returned(-1)
              /\ UNCHANGED <<writeBuf, full, tx>>
    /\ UNCHANGED <<readBuf, events, peerClosed, mark, arrived, fin, runVars, taken>>

\* One round of writeBack, after commitWrite left nothing.
WriteBack ==
    /\ pc = "back"
    /\ LET len == B!distanceRead(readBuf)
       IN  \/ /\ len # 0
              /\ \E n \in 1 .. len :
                    /\ Send(readBuf, n) /\ Filled(n, len)
                    /\ readBuf' = B!commitRead(readBuf, n)
              /\ UNCHANGED pc
           \/ /\ pc' = "callback"               \* nothing left, EAGAIN or a failure
              /\ full' \in {full, full \/ len # 0}
              /\ UNCHANGED <<readBuf, tx>>
    /\ UNCHANGED <<writeBuf, events, peerClosed, mark, arrived, fin, runVars, taken>>

\* The memcpy of moveToWriteBuffer, from one contiguous part into another.
MoveChunk ==
    LET chunk == B!Least(B!distanceRead(readBuf), B!distanceWrite(writeBuf))
    IN  /\ writeBuf' = B!commitWrite(B!storeAtWritePtr(writeBuf,
                           B!loadAtReadPtr(readBuf, chunk)), chunk)
        /\ readBuf' = B!commitRead(readBuf, chunk)
        /\ quota' = quota - chunk
        /\ UNCHANGED pc

\* One round of moveToWriteBuffer.
MoveToWriteBuffer ==
    /\ pc = "move"
    /\ IF quota > 0
       THEN MoveChunk
       ELSE pc' = "callback" /\ UNCHANGED <<readBuf, writeBuf, quota>>
    /\ UNCHANGED <<events, peerClosed, mark, mask, caller, calls, peerVars, taken, tx>>

-----------------------------------------------------------------------------
(* The application, in a callback.                                         *)

MayCall ==
    /\ pc = "callback" /\ calls < MAX_CALLS
    /\ calls' = calls + 1

\* commitWrite() and writeBack().
CallCommit(who) ==
    /\ MayCall
    /\ caller' = who
    /\ pc' = "commit"
    /\ UNCHANGED <<ctlVars, mask, quota, peerVars, taken, tx>>

\* Faulty variant of CallMove: the room in writeBuf is not looked at.
CallMoveAll ==
    /\ MayCall
    /\ quota' = Size(readBuf)
    /\ pc' = "move"
    /\ UNCHANGED <<ctlVars, mask, caller, peerVars, taken, tx>>

\* moveToWriteBuffer() begins by computing maxMove.
CallMove ==
    /\ MayCall
    /\ quota' = B!Least(Size(readBuf), B!bytesWrite(writeBuf))
    /\ pc' = "move"
    /\ UNCHANGED <<ctlVars, mask, caller, peerVars, taken, tx>>

\* read() of no more than writeTemp() has room for.
CallReadWriteTemp ==
    /\ MayCall
    /\ \E len \in 1 .. B!bytesWrite(writeBuf) :
          /\ writeBuf' = B!write(writeBuf, B!copyOut(readBuf, len))
          /\ readBuf' = B!read(readBuf, len)
    /\ UNCHANGED <<events, peerClosed, mark, mask, caller, quota, peerVars, pc, taken, tx>>

\* With nothing in writeBuf: peek(), write(), and read() of what was accepted.  A
\* broken pipe shows that the peer is gone.
CallPeekWrite ==
    /\ MayCall /\ Size(writeBuf) = 0
    /\ \/ \E n \in 0 .. Size(readBuf) :
             /\ tx' = tx \o B!copyOut(readBuf, n)
             /\ readBuf' = B!read(readBuf, n)
             /\ Filled(n, Size(readBuf))
             /\ UNCHANGED peerClosed
       \/ peerClosed' = TRUE /\ UNCHANGED <<readBuf, full, tx>>
    /\ UNCHANGED <<writeBuf, events, mark, mask, caller, quota, arrived, fin, pc, taken>>

\* enableEvents() before the callback returns.
EnableEvents(interest) ==
    /\ pc = "callback"
    /\ events' = interest
    /\ mask' = interest
    /\ pc' = "armed"
    /\ UNCHANGED <<readBuf, writeBuf, peerClosed, mark, caller, quota, calls, peerVars, taken, tx>>

\* close(), also after a failed enableEvents(), which clears events.
CloseInCallback ==
    /\ pc = "callback"
    /\ events' \in {events, {}}
    /\ pc' = "closed"
    /\ UNCHANGED <<readBuf, writeBuf, peerClosed, mark, peerVars, runVars, taken, tx>>

\* An application without an interest would never hear of the connection again.
Leave == CloseInCallback \/ \E interest \in {{"IN"}, {"OUT"}, {"IN", "OUT"}} : EnableEvents(interest)

Call == CallCommit("callback") \/ CallCommit("writeBack") \/ CallMove \/ CallReadWriteTemp \/ CallPeekWrite

Owner == ReadSocket \/ HandleRead \/ HandleWrite \/ HandleWritten \/ CommitWrite \/ WriteBack
            \/ MoveToWriteBuffer \/ Leave

Next == PeerSends \/ PeerShutsDown \/ PeerReads \/ EventIn \/ EventOut \/ Hangup \/ Owner \/ Call

\* Events that are reported get handled, threads run on, and callbacks return.  The
\* peer has to do nothing: it may stop sending, reading or both.
Spec ==
    /\ Init /\ [][Next]_vars
    /\ WF_vars(EventIn) /\ WF_vars(EventOut) /\ WF_vars(Owner)

-----------------------------------------------------------------------------
(* Properties.                                                             *)

\* No byte is lost, repeated or overtaken, whatever the application mixes and
\* wherever send() stops: what went back, then writeBuf, then readBuf, is exactly
\* what recv() delivered (commitWrite, writeBack, moveToWriteBuffer, read, write).
EchoInOrder == tx \o Content(writeBuf) \o Content(readBuf) = [i \in 1 .. taken |-> i]

\* moveToWriteBuffer moves all that fits: as long as maxMove is not reached both
\* buffers have a contiguous part for the next chunk, wherever they wrap around,
\* so the loop does not break early.
MoveUsesQuota ==
    pc = "move" => /\ quota <= Size(readBuf) /\ quota <= B!bytesWrite(writeBuf)
                   /\ quota > 0 => B!Least(B!distanceRead(readBuf), B!distanceWrite(writeBuf)) > 0

\* The bytes the application has not seen yet.
Unread == arrived - taken + Size(readBuf)

\* A connection that waits for input gets its callback when bytes arrive that
\* reach the watermark with those kept from before, in however many pieces they
\* come (HandleRead, renableEvents).  Kept bytes alone are not announced again.
ReadServed ==
    (pc = "armed" /\ "IN" \in mask /\ taken < arrived /\ Unread >= mark[1])
        ~> (pc \in {"callback", "closed"})

\* A connection that waits to write gets its callback if no more than the write
\* watermark is buffered, unless the peer shuts down (HandleWrite) or stops reading
\* for good, which leaves the socket full and epoll silent.
WriteServed ==
    \/ <>[]full
    \/ (pc = "armed" /\ "OUT" \in mask /\ (mark[2] # Unlimited => Size(writeBuf) <= mark[2]))
           ~> (pc \in {"callback", "closed"} \/ fin)

\* When the peer has shut down and all it sent is consumed, the connection ends
\* with the next event, whatever the application waits for (HandleRead).
PeerCloseServed ==
    (pc = "armed" /\ fin /\ Unread = 0) ~> (pc = "closed")
=============================================================================
