------------------------------- MODULE ConnIO -------------------------------
(***************************************************************************)
(* One connection between its socket and its handler: conn_t::recv() and   *)
(* conn_t::send() (conn.cpp), the growth of buf_t (buf.cpp), loop_send_i() *)
(* and the connection branch of run_tcp() (acceptor.cpp) under             *)
(* edge-triggered epoll.  Module Acceptor takes each of these calls as one *)
(* step; here every system call is a step of its own, and the peer moves   *)
(* in between.                                                             *)
(*                                                                         *)
(* A byte is its number in its stream.  The kernel, as far as it matters:  *)
(* recv() and send() move as many bytes as there are and as there is room  *)
(* for; recv() of no bytes returns 0, as at the end of the stream; new     *)
(* data raises an edge if EPOLLIN is registered, new room if EPOLLOUT is   *)
(* registered and the socket was found full before; EPOLL_CTL_ADD and      *)
(* EPOLL_CTL_MOD raise one if the socket is ready; epoll_wait() takes the  *)
(* edge and reports it if the socket is ready; a reset discards what was   *)
(* not read and makes every call fail.                                     *)
(*                                                                         *)
(* epoll_wait() returns several events, and the one of the signalfd may    *)
(* come before that of the connection: on_aio_completed() may append and   *)
(* arm EPOLLOUT between the report of the connection's event and its       *)
(* processing.  What the callbacks do is any behaviour the comments of     *)
(* conn_event_t allow; module TestTcp has three actual handlers.           *)
(***************************************************************************)
EXTENDS Integers, Sequences, SequencesExt

CONSTANTS
  Unit,    \* unit_size of conn_t::recv()
  MaxIn,   \* bound: bytes the peer sends
  MaxOut,  \* bound: bytes the handler sends
  Room     \* what the kernel's send queue holds

ASSUME IOAssumption ==
  /\ Unit \in Nat \ {0} /\ Room \in Nat \ {0}
  /\ MaxIn \in Nat /\ MaxOut \in Nat

VARIABLES
  pc,        \* where the event loop is
  recvBuf,   \* conn_t::m_recv_buf
  capacity,  \* its capacity
  sendBuf,   \* conn_t::m_send_buf
  offset,    \* conn_t::m_send_offset
  flags,     \* conn_t::m_last_event_result
  fresh,     \* new_recv_size > 0
  eof,       \* peer_closed
  mask,      \* the registered events
  edge,      \* an edge is pending
  inQ,       \* kernel: received, not read
  fin,       \* kernel: the peer has closed its side
  reset,     \* kernel: the connection was reset
  outQ,      \* kernel: to be read by the peer
  full,      \* kernel: the socket was found full (SOCK_NOSPACE)
  sent,      \* bytes the peer has sent
  used,      \* bytes the handler has removed from recv_buf
  seen,      \* bytes that were in recv_buf when on_received() was called
  made,      \* bytes the handler has appended to send_buf
  got        \* what the peer has read

loopVars == <<pc, flags, fresh, eof>>
bufVars == <<recvBuf, capacity, sendBuf, offset>>
handlerVars == <<used, seen, made>>
kernelVars == <<inQ, fin, reset, outQ, full>>
peerVars == <<sent, got>>
vars == <<loopVars, bufVars, handlerVars, kernelVars, peerVars, mask, edge>>

Bytes(a, b) == [i \in 1 .. b - a + 1 |-> a + i - 1]

-----------------------------------------------------------------------------
(* buf_t *)

(* Mutant of Back: only an empty buffer is given memory. *)
BackOnce(cap, size, free) == IF cap = 0 THEN free ELSE cap

(* buf_t::back(): the capacity that leaves at least `free' bytes. *)
Back(cap, size, free) ==
  IF cap - size >= free THEN cap
  ELSE IF 2 * cap - size >= free THEN 2 * cap
  ELSE size + free

(* Mutant of EraseFront: the tail goes, as in erase_back(). *)
EraseTail(buf, n) == SubSeq(buf, 1, Len(buf) - n)

(* buf_t::erase_front(); all of it is what clear() does. *)
EraseFront(buf, n) == SubSeq(buf, n + 1, Len(buf))

(* buf_t::free_size() of m_recv_buf, counted from size(). *)
Free == capacity - Len(recvBuf)

Pending == Len(sendBuf) - offset

-----------------------------------------------------------------------------
(* The kernel *)

(* The socket is ready for what is registered. *)
Ready(m) ==
  \/ reset
  \/ m = "in" /\ (inQ # <<>> \/ fin)
  \/ m = "out" /\ Len(outQ) < Room

(* What socket_t::recv() and socket_t::send() report in ok_bytes. *)
Readable == IF Free < Len(inQ) THEN Free ELSE Len(inQ)
Writable ==
  LET room == Room - Len(outQ) IN IF room < Pending THEN room ELSE Pending

(* EPOLL_CTL_ADD and EPOLL_CTL_MOD; polling a full socket marks it. *)
Register(m) ==
  /\ mask' = m
  /\ edge' = (edge \/ Ready(m))
  /\ full' = (full \/ (m = "out" /\ Len(outQ) = Room))

(* Mutant of ArmAfter: always back to EPOLLIN. *)
ArmIn == Register("in")

(* After on_connected(), on_received() and loop_send_i(): EPOLLOUT while    *)
(* there is data to send, EPOLLIN otherwise.                                *)
ArmAfter == Register(IF Pending > 0 THEN "out" ELSE "in")

(* Initially the client was accepted; on_connected() is called. *)
Init ==
  /\ pc = "connected" /\ flags = {} /\ fresh = FALSE /\ eof = FALSE
  /\ recvBuf = <<>> /\ capacity = 0
  /\ sendBuf = <<>> /\ offset = 0
  /\ mask = "none" /\ edge = FALSE
  /\ inQ = <<>> /\ fin = FALSE /\ reset = FALSE
  /\ outQ = <<>> /\ full = FALSE
  /\ sent = 0 /\ got = <<>>
  /\ used = 0 /\ seen = 0 /\ made = 0

-----------------------------------------------------------------------------
(* The handler *)

Results == SUBSET {"more", "disconnect"}

(* A callback appends the next n bytes. *)
Appends(n) ==
  /\ made' = made + n
  /\ sendBuf' = sendBuf \o Bytes(made + 1, made + n)

(* on_connected() appends n bytes and answers f; the loop goes on to        *)
(* loop_send_i() if there is something to send, and gives up the connection *)
(* if there is not and it is told to.                                       *)
OnConnected(n, f) ==
  /\ pc = "connected"
  /\ Appends(n)
  /\ flags' = f
  /\ pc' = IF n > 0 THEN "greet"
           ELSE IF "disconnect" \in f THEN "finished" ELSE "greeted"
  /\ UNCHANGED <<fresh, eof, recvBuf, capacity, offset, used, seen, kernelVars,
                 peerVars, mask, edge>>

(* on_received() removes the first k bytes of recv_buf and appends n. *)
OnReceived(k, n, f) ==
  /\ pc = "received" /\ fresh
  /\ seen' = used + Len(recvBuf)
  /\ used' = used + k /\ recvBuf' = EraseFront(recvBuf, k)
  /\ Appends(n) /\ flags' = f
  /\ fresh' = FALSE
  /\ UNCHANGED <<pc, eof, capacity, offset, kernelVars, peerVars, mask, edge>>

(* get_more_data() appends n bytes; without data to send, result_more_data  *)
(* is against the assertion at acceptor.cpp:534.                            *)
GetMoreData(n, f) ==
  /\ pc \in {"greetMore", "sendMore"}
  /\ Appends(n)
  /\ Pending + n = 0 => "more" \notin f
  /\ flags' = f
  /\ pc' = IF Pending + n > 0 /\ pc = "greetMore" THEN "greet"
           ELSE IF Pending + n > 0 THEN "send"
           ELSE IF pc = "greetMore" THEN "greeted" ELSE "flushed"
  /\ UNCHANGED <<fresh, eof, recvBuf, capacity, offset, used, seen, kernelVars,
                 peerVars, mask, edge>>

(* Mutant of ArmAio: only what was appended now counts. *)
ArmNew(n) == IF Pending = 0 /\ n > 0 THEN Register("in") ELSE UNCHANGED <<mask, edge, full>>

(* EPOLLOUT after on_aio_completed(), if there is data to send. *)
ArmAio(n) ==
  IF Pending + n > 0 THEN Register("out") ELSE UNCHANGED <<mask, edge, full>>

(* on_aio_completed() appends n bytes, between two events or before the     *)
(* reported event of this connection; result_disconnect without data to     *)
(* send is dropped (the break at acceptor.cpp:263).                         *)
AioCompleted(n, f) ==
  /\ pc \in {"wait", "in", "out"}
  /\ Appends(n) /\ flags' = f
  /\ ArmAio(n)
  /\ UNCHANGED <<pc, fresh, eof, recvBuf, capacity, offset, used, seen, inQ, fin,
                 reset, outQ, peerVars>>

-----------------------------------------------------------------------------
(* conn_t::recv() *)

(* epoll_wait() reports the connection. *)
Reported ==
  /\ pc = "wait" /\ edge /\ Ready(mask)
  /\ edge' = FALSE
  /\ pc' = mask
  /\ UNCHANGED <<flags, fresh, eof, bufVars, handlerVars, kernelVars, peerVars, mask>>

(* EPOLLIN was reported; recv() makes room for one unit. *)
EventIn ==
  /\ pc = "in"
  /\ pc' = "recv" /\ fresh' = FALSE /\ eof' = FALSE
  /\ capacity' = Back(capacity, Len(recvBuf), Unit)
  /\ UNCHANGED <<flags, recvBuf, sendBuf, offset, handlerVars, kernelVars, peerVars,
                 mask, edge>>

(* An edge of a socket that is no longer ready is not reported. *)
EventNone ==
  /\ pc = "wait" /\ edge /\ ~Ready(mask)
  /\ edge' = FALSE
  /\ full' = (full \/ mask = "out")
  /\ UNCHANGED <<loopVars, bufVars, handlerVars, inQ, fin, reset, outQ, peerVars, mask>>

(* Mutants of NextRead: a short read ends conn_t::recv(); any read does. *)
ShortRead(free, n) == IF n < free THEN "received" ELSE "recv"
ReadOnce(free, n) == "received"

(* "Anyway, we should not stop until getting EAGAIN or EWOULDBLOCK." *)
NextRead(free, n) == "recv"

(* One recv() that returns data.  A full buffer grows by a unit. *)
RecvSome ==
  LET n == Readable
  IN  /\ pc = "recv" /\ ~reset /\ n > 0
      /\ recvBuf' = recvBuf \o SubSeq(inQ, 1, n)
      /\ inQ' = SubSeq(inQ, n + 1, Len(inQ))
      /\ capacity' = IF Free = n
                     THEN Back(capacity, Len(recvBuf) + n, Unit) ELSE capacity
      /\ fresh' = TRUE
      /\ pc' = NextRead(Free, n)
      /\ UNCHANGED <<flags, eof, sendBuf, offset, handlerVars, fin, reset, outQ,
                     full, peerVars, mask, edge>>

(* recv() returns 0: nothing was asked for, or the peer has closed. *)
RecvZero ==
  /\ pc = "recv" /\ ~reset
  /\ Free = 0 \/ (inQ = <<>> /\ fin)
  /\ eof' = TRUE
  /\ pc' = "received"
  /\ UNCHANGED <<flags, fresh, bufVars, handlerVars, kernelVars, peerVars, mask, edge>>

(* EAGAIN *)
RecvAgain ==
  /\ pc = "recv" /\ ~reset
  /\ inQ = <<>> /\ ~fin /\ Free > 0
  /\ pc' = "received"
  /\ UNCHANGED <<flags, fresh, eof, bufVars, handlerVars, kernelVars, peerVars, mask, edge>>

(* recv() or send() fails: the connection is given up. *)
Fails ==
  /\ pc \in {"recv", "send", "greet"} /\ reset
  /\ pc = "recv" \/ Pending > 0
  /\ pc' = "lost"
  /\ UNCHANGED <<flags, fresh, eof, bufVars, handlerVars, kernelVars, peerVars, mask, edge>>

(* The rest of the EPOLLIN branch. *)
AfterReceived ==
  /\ pc = "received" /\ ~fresh
  /\ \/ /\ eof
        /\ pc' = "peerClosed" /\ UNCHANGED <<mask, edge, full>>
     \/ /\ ~eof /\ Pending > 0
        /\ pc' = "wait" /\ ArmAfter
     \/ /\ ~eof /\ Pending = 0
        /\ pc' = IF "disconnect" \in flags THEN "finished" ELSE "wait"
        /\ UNCHANGED <<mask, edge, full>>
  /\ UNCHANGED <<flags, fresh, eof, bufVars, handlerVars, inQ, fin, reset, outQ, peerVars>>

-----------------------------------------------------------------------------
(* conn_t::send() and loop_send_i() *)

(* EPOLLOUT was reported. *)
EventOut ==
  /\ pc = "out"
  /\ pc' = "send"
  /\ UNCHANGED <<flags, fresh, eof, bufVars, handlerVars, kernelVars, peerVars, mask, edge>>

(* Mutants of Reset: the buffer is cleared, the offset stays; the buffer is *)
(* cleared after every send().                                              *)
KeepOffset(buf, off) ==
  IF off = Len(buf) THEN [buf |-> <<>>, off |-> off] ELSE [buf |-> buf, off |-> off]

ClearEarly(buf, off) == [buf |-> <<>>, off |-> 0]

(* "If all data has been sent, then reset state." *)
Reset(buf, off) ==
  IF off = Len(buf) THEN [buf |-> <<>>, off |-> 0] ELSE [buf |-> buf, off |-> off]

(* One send() that takes data. *)
SendSome ==
  LET n == Writable
      r == Reset(sendBuf, offset + n)
  IN  /\ pc \in {"send", "greet"} /\ ~reset /\ n > 0
      /\ outQ' = outQ \o SubSeq(sendBuf, offset + 1, offset + n)
      /\ sendBuf' = r.buf /\ offset' = r.off
      /\ UNCHANGED <<loopVars, recvBuf, capacity, handlerVars, inQ, fin, reset, full,
                     peerVars, mask, edge>>

(* EAGAIN ends loop_send_i(). *)
SendAgain ==
  /\ pc \in {"send", "greet"} /\ ~reset
  /\ Pending > 0 /\ Len(outQ) = Room
  /\ full' = TRUE
  /\ pc' = IF pc = "send" THEN "flushed" ELSE "greeted"
  /\ UNCHANGED <<flags, fresh, eof, bufVars, handlerVars, inQ, fin, reset, outQ,
                 peerVars, mask, edge>>

(* Mutant of AsksMore: only while EPOLLOUT is served. *)
AsksLater == "more" \in flags /\ pc = "send"

(* result_more_data is on. *)
AsksMore == "more" \in flags

(* Everything was sent: ask for more or leave loop_send_i(). *)
SendDone ==
  /\ pc \in {"send", "greet"} /\ Pending = 0
  /\ pc' = IF AsksMore
           THEN (IF pc = "send" THEN "sendMore" ELSE "greetMore")
           ELSE (IF pc = "send" THEN "flushed" ELSE "greeted")
  /\ UNCHANGED <<flags, fresh, eof, bufVars, handlerVars, kernelVars, peerVars, mask, edge>>

(* After loop_send_i(): the rest of the EPOLLOUT branch and, for a new      *)
(* connection, EPOLL_CTL_ADD, whose failure gives the connection up.        *)
AfterSend ==
  /\ \/ /\ pc = "greeted"
        /\ pc' = "wait" /\ ArmAfter
     \/ /\ pc = "greeted"
        /\ pc' = "lost" /\ UNCHANGED <<mask, edge, full>>
     \/ /\ pc = "flushed" /\ Pending = 0 /\ "disconnect" \notin flags
        /\ pc' = "wait" /\ ArmAfter
     \/ /\ pc = "flushed" /\ Pending = 0 /\ "disconnect" \in flags
        /\ pc' = "finished" /\ UNCHANGED <<mask, edge, full>>
     \/ /\ pc = "flushed" /\ Pending > 0
        /\ pc' = "wait" /\ UNCHANGED <<mask, edge, full>>
  /\ UNCHANGED <<flags, fresh, eof, bufVars, handlerVars, inQ, fin, reset, outQ, peerVars>>

-----------------------------------------------------------------------------
(* The peer *)

(* Bound: MaxIn. *)
PeerSends ==
  /\ ~fin /\ ~reset /\ sent < MaxIn
  /\ sent' = sent + 1
  /\ inQ' = Append(inQ, sent + 1)
  /\ edge' = (edge \/ mask = "in")
  /\ UNCHANGED <<loopVars, bufVars, handlerVars, fin, reset, outQ, full, got, mask>>

PeerReads ==
  /\ ~reset /\ outQ # <<>>
  /\ got' = Append(got, Head(outQ))
  /\ outQ' = Tail(outQ)
  /\ full' = FALSE
  /\ edge' = (edge \/ (mask = "out" /\ full))
  /\ UNCHANGED <<loopVars, bufVars, handlerVars, inQ, fin, reset, sent, mask>>

PeerCloses ==
  /\ ~fin /\ ~reset
  /\ fin' = TRUE
  /\ edge' = (edge \/ mask = "in")
  /\ UNCHANGED <<loopVars, bufVars, handlerVars, inQ, reset, outQ, full, peerVars, mask>>

PeerResets ==
  /\ ~reset
  /\ reset' = TRUE
  /\ edge' = (edge \/ mask # "none")
  /\ UNCHANGED <<loopVars, bufVars, handlerVars, inQ, fin, outQ, full, peerVars, mask>>

-----------------------------------------------------------------------------
Closed == pc \in {"lost", "peerClosed", "finished"}

Terminated == Closed /\ UNCHANGED vars

(* The callbacks of any handler.  Bound: it has sent `out' bytes after. *)
Callbacks(out) ==
  \E n \in 0 .. out - made, f \in Results :
    \/ OnConnected(n, f)
    \/ \E k \in 0 .. Len(recvBuf) : OnReceived(k, n, f)
    \/ GetMoreData(n, f)

(* A task of any handler completes. *)
Completes(out) == \E n \in 0 .. out - made, f \in Results : AioCompleted(n, f)

(* The library's own steps. *)
Library ==
  \/ Reported \/ EventIn \/ EventNone \/ RecvSome \/ RecvZero \/ RecvAgain \/ AfterReceived
  \/ EventOut \/ SendSome \/ SendAgain \/ SendDone \/ AfterSend
  \/ Fails

Peer == ~Closed /\ (PeerSends \/ PeerReads \/ PeerCloses \/ PeerResets)

Next == Callbacks(MaxOut) \/ Library \/ Completes(MaxOut) \/ Peer \/ Terminated

Spec == Init /\ [][Next]_vars

-----------------------------------------------------------------------------
(* Properties *)

(* Every variable has its type, and the buffers are within bounds. *)
TypeOK ==
  /\ pc \in {"connected", "greet", "greetMore", "greeted", "wait", "in", "out", "recv", "received",
             "send", "sendMore", "flushed", "lost", "peerClosed", "finished"}
  /\ recvBuf \in Seq(1 .. MaxIn) /\ capacity \in Nat /\ Len(recvBuf) <= capacity
  /\ sendBuf \in Seq(1 .. MaxOut) /\ offset \in 0 .. Len(sendBuf)
  /\ flags \subseteq {"more", "disconnect"}
  /\ {fresh, eof, edge, fin, reset, full} \subseteq BOOLEAN
  /\ mask \in {"none", "in", "out"}
  /\ inQ \in Seq(1 .. MaxIn)
  /\ outQ \in Seq(1 .. MaxOut) /\ Len(outQ) <= Room
  /\ sent \in 0 .. MaxIn /\ used \in 0 .. seen /\ seen \in 0 .. sent
  /\ made \in 0 .. MaxOut

(* What the handler finds in recv_buf and what the kernel holds is exactly  *)
(* what the peer sent and the handler has not removed, in order.            *)
StreamIn == recvBuf \o inQ = Bytes(used + 1, sent)

(* What the peer reads is what the handler wrote: nothing is lost, sent     *)
(* twice or out of order however send() splits it and whenever the handler  *)
(* appends.                                                                 *)
StreamOut ==
  got \o outQ \o SubSeq(sendBuf, offset + 1, Len(sendBuf)) = Bytes(1, made)

(* Under edge-triggered epoll nothing may be left behind without an edge:   *)
(* a waiting connection that is ready for what it needs will be reported.   *)
NoLostWakeup ==
  pc = "wait" =>
    /\ Pending = 0 /\ (inQ # <<>> \/ fin) => edge
    /\ Pending > 0 /\ Len(outQ) < Room => edge

(* recv() is never called with an empty buffer: only the end of the stream  *)
(* is taken for the peer's close, after all that came before it was read.   *)
PeerClosedIsReal == eof /\ ~reset => fin /\ inQ = <<>>

(* Every byte the peer sends is offered to the handler, and every byte the  *)
(* handler sends reaches the peer, unless the connection ends: in the end   *)
(* there is nothing else (both sides send finitely many).                   *)
AllDelivered == <>[](Closed \/ (seen = sent /\ Len(got) = made))

(* "acceptor_t will keep calling conn_event_t::get_more_data() until this    *)
(* flag becomes off" (conn_event.h:35-36): a connection that was told      *)
(* there is more, and has data to send, is asked for it when the data is     *)
(* out, unless it ends or a task that completes says otherwise.              *)
MoreAsked ==
  "more" \in flags /\ Pending > 0
    ~> pc \in {"greetMore", "sendMore"} \/ "more" \notin flags \/ Closed
=============================================================================
