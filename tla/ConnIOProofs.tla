---------------------------- MODULE ConnIOProofs ----------------------------
(***************************************************************************)
(* Proofs about ConnIO: for any sizes of the buffers and of the socket, a  *)
(* handler that answers anything, and a peer that moves between any two    *)
(* system calls, both byte streams stay intact, no edge is lost, and only  *)
(* the end of the peer's stream is taken for it.                           *)
(***************************************************************************)
EXTENDS ConnIO, SequenceTheorems, TLAPS

(* s holds consecutive numbers, from a + 1 on. *)
Run(s, a) == \A i \in 1 .. Len(s) : s[i] = a + i

(* The peer's bytes: removed, in recv_buf, in the kernel.                   *)
InOrder ==
  /\ sent = used + Len(recvBuf) + Len(inQ)
  /\ Run(recvBuf, used) /\ Run(inQ, used + Len(recvBuf))

(* The handler's bytes: read by the peer, in the kernel, pending.           *)
OutOrder ==
  /\ got \in Seq(1 .. MaxOut)
  /\ made = Len(got) + Len(outQ) + Pending
  /\ Run(got, 0) /\ Run(outQ, Len(got)) /\ Run(sendBuf, made - Len(sendBuf))

(* recv() is given memory, and what it returned is in recv_buf.             *)
Space ==
  /\ pc = "recv" => Free > 0
  /\ fresh => recvBuf # <<>>

(* EPOLLOUT is registered where the loop serves it, and where it waits      *)
(* while there is data to send; otherwise EPOLLIN is.                       *)
Armed ==
  /\ mask = "none" => ~edge
  /\ pc \in {"wait", "in", "recv", "received", "out", "send", "sendMore", "flushed"} =>
       mask # "none"
  /\ pc \in {"wait", "in", "recv", "received"} /\ Pending = 0 => mask = "in"
  /\ pc = "wait" /\ Pending > 0 => mask = "out"
  /\ pc \in {"out", "send", "sendMore", "flushed"} => mask = "out"

(* Where the loop is, or is about to be, in epoll_wait(): a socket that is  *)
(* ready has its edge, and one that is full will raise one.                 *)
Edges ==
  /\ mask = "in" /\ (pc = "wait" \/ (pc = "received" /\ ~eof)) /\ (inQ # <<>> \/ fin) => edge
  /\ mask = "out" /\ (pc = "wait" \/ (pc = "flushed" /\ Pending > 0)) =>
       (Len(outQ) = Room => full) /\ (Len(outQ) < Room => edge)

IInv ==
  /\ TypeOK /\ InOrder /\ OutOrder
  /\ Space /\ PeerClosedIsReal
  /\ Armed /\ Edges

-----------------------------------------------------------------------------
(* buf_t::back() leaves the room that it was asked for.                     *)
LEMMA BackRoom ==
  ASSUME NEW cap \in Nat, NEW size \in 0 .. cap, NEW free \in Nat
  PROVE  Back(cap, size, free) \in Nat /\ Back(cap, size, free) >= size + free
BY DEF Back

(* Runs: cut, joined, and as Bytes. *)
LEMMA RunCut ==
  ASSUME NEW S, NEW s \in Seq(S), NEW a \in Int, Run(s, a),
         NEW m \in 0 .. Len(s), NEW n \in m .. Len(s)
  PROVE  /\ SubSeq(s, m + 1, n) \in Seq(S)
         /\ Len(SubSeq(s, m + 1, n)) = n - m
         /\ Run(SubSeq(s, m + 1, n), a + m)
BY DEF Run

LEMMA RunJoined ==
  ASSUME NEW S, NEW s \in Seq(S), NEW t \in Seq(S), NEW a \in Int, NEW b \in Int,
         b = a + Len(s), Run(s, a), Run(t, b)
  PROVE  /\ s \o t \in Seq(S)
         /\ Len(s \o t) = Len(s) + Len(t)
         /\ Run(s \o t, a)
BY DEF Run

LEMMA BytesRun ==
  ASSUME NEW a \in Int, NEW n \in Nat, NEW S, \A i \in 1 .. n : a + i \in S
  PROVE  /\ Bytes(a + 1, a + n) \in Seq(S)
         /\ Len(Bytes(a + 1, a + n)) = n
         /\ Run(Bytes(a + 1, a + n), a)
BY DEF Run, Bytes

LEMMA RunIsBytes ==
  ASSUME NEW S, NEW s \in Seq(S), NEW a \in Int, Run(s, a)
  PROVE  s = Bytes(a + 1, a + Len(s))
BY DEF Run, Bytes

LEMMA RunAppended ==
  ASSUME NEW S, NEW s \in Seq(S), NEW a \in Int, Run(s, a), a + Len(s) + 1 \in S
  PROVE  /\ Append(s, a + Len(s) + 1) \in Seq(S)
         /\ Len(Append(s, a + Len(s) + 1)) = Len(s) + 1
         /\ Run(Append(s, a + Len(s) + 1), a)
<1> DEFINE t == Append(s, a + Len(s) + 1)
<1>1. /\ t \in Seq(S) /\ Len(t) = Len(s) + 1 /\ Len(s) \in Nat
      /\ \A i \in 1 .. Len(s) : t[i] = s[i]
      /\ t[Len(s) + 1] = a + Len(s) + 1
  BY AppendProperties
<1>2. Run(t, a)
  <2> SUFFICES ASSUME NEW i \in 1 .. Len(t) PROVE t[i] = a + i
    BY DEF Run
  <2>1. CASE i \in 1 .. Len(s)
    BY <1>1, <2>1 DEF Run
  <2>2. CASE i = Len(s) + 1
    BY <1>1, <2>2
  <2> QED
    BY <1>1, <2>1, <2>2
<1> QED
  BY <1>1, <1>2

LEMMA RunTail ==
  ASSUME NEW S, NEW s \in Seq(S), NEW a \in Int, Run(s, a), s # <<>>
  PROVE  /\ Head(s) = a + 1 /\ a + 1 \in S
         /\ Tail(s) \in Seq(S) /\ Len(Tail(s)) = Len(s) - 1
         /\ Run(Tail(s), a + 1)
BY DEF Run

-----------------------------------------------------------------------------
(* What a callback appends goes on where the handler's stream ended. *)
LEMMA Appended ==
  ASSUME TypeOK, OutOrder, NEW n \in 0 .. MaxOut - made, Appends(n),
         UNCHANGED <<offset, outQ, got>>
  PROVE  /\ made' \in 0 .. MaxOut /\ sendBuf' \in Seq(1 .. MaxOut)
         /\ Len(sendBuf') = Len(sendBuf) + n
         /\ Pending' = Pending + n
         /\ OutOrder'
<1>1. /\ made \in Nat /\ n \in Nat /\ made' = made + n /\ made + n <= MaxOut
      /\ sendBuf' = sendBuf \o Bytes(made + 1, made + n)
      /\ sendBuf \in Seq(1 .. MaxOut)
  BY IOAssumption DEF TypeOK, Appends
<1>2. /\ Bytes(made + 1, made + n) \in Seq(1 .. MaxOut)
      /\ Len(Bytes(made + 1, made + n)) = n
      /\ Run(Bytes(made + 1, made + n), made)
  <2>1. made \in Int /\ \A i \in 1 .. n : made + i \in 1 .. MaxOut
    BY <1>1, IOAssumption
  <2> QED
    BY <1>1, <2>1, BytesRun
<1>3. /\ Len(sendBuf) \in Nat /\ made - Len(sendBuf) \in Int
      /\ made = (made - Len(sendBuf)) + Len(sendBuf)
  BY <1>1
<1>4. /\ sendBuf' \in Seq(1 .. MaxOut)
      /\ Len(sendBuf') = Len(sendBuf) + n
      /\ Run(sendBuf', made - Len(sendBuf))
  <2> DEFINE t == Bytes(made + 1, made + n)
  <2>1. t \in Seq(1 .. MaxOut) /\ Len(t) = n /\ Run(t, made) /\ sendBuf' = sendBuf \o t
    BY <1>1, <1>2
  <2>2. made \in Int /\ Run(sendBuf, made - Len(sendBuf))
    BY <1>1 DEF OutOrder
  <2> HIDE DEF t
  <2> QED
    BY <1>1, <1>3, <2>1, <2>2, RunJoined, ZenonT(30)
<1>5. made' - Len(sendBuf') = made - Len(sendBuf)
  <2>1. made' = made + n /\ made \in Nat /\ n \in Nat
    BY <1>1
  <2>2. Len(sendBuf') = Len(sendBuf) + n
    BY <1>4
  <2> QED
    BY <1>3, <2>1, <2>2
<1>6. Pending' = Pending + n
  BY <1>1, <1>4 DEF Pending, TypeOK
<1>7. OutOrder'
  <2>1. /\ Len(got) \in Nat /\ Len(outQ) \in Nat /\ Pending \in Int
      /\ made = Len(got) + Len(outQ) + Pending
    BY DEF TypeOK, OutOrder, Pending
  <2>2. made' = Len(got) + Len(outQ) + Pending'
    BY <1>1, <1>6, <2>1
  <2>3. Run(sendBuf', made' - Len(sendBuf'))
    BY <1>4, <1>5
  <2> QED
    BY <2>2, <2>3 DEF OutOrder
<1> QED
  BY <1>1, <1>4, <1>6, <1>7, IOAssumption

-----------------------------------------------------------------------------
(* Every step preserves the invariant; first those that touch no queue. *)
LEMMA ReportedStep ==
  ASSUME IInv, Reported
  PROVE  IInv'
BY DEF IInv, TypeOK, InOrder, OutOrder, Space, PeerClosedIsReal, Armed, Edges, Reported,
       Ready, Pending, Free, loopVars, bufVars, handlerVars, kernelVars, peerVars

LEMMA EventNoneStep ==
  ASSUME IInv, EventNone
  PROVE  IInv'
BY DEF IInv, TypeOK, InOrder, OutOrder, Space, PeerClosedIsReal, Armed, Edges, EventNone,
       Ready, Pending, Free, loopVars, bufVars, handlerVars, kernelVars, peerVars

LEMMA RecvZeroStep ==
  ASSUME IInv, RecvZero
  PROVE  IInv'
BY SMTT(30) DEF IInv, TypeOK, InOrder, OutOrder, Space, PeerClosedIsReal, Armed, Edges, RecvZero,
       Pending, Free, loopVars, bufVars, handlerVars, kernelVars, peerVars

LEMMA RecvAgainStep ==
  ASSUME IInv, RecvAgain
  PROVE  IInv'
BY DEF IInv, TypeOK, InOrder, OutOrder, Space, PeerClosedIsReal, Armed, Edges, RecvAgain,
       Pending, Free, loopVars, bufVars, handlerVars, kernelVars, peerVars

LEMMA FailsStep ==
  ASSUME IInv, Fails
  PROVE  IInv'
BY DEF IInv, TypeOK, InOrder, OutOrder, Space, PeerClosedIsReal, Armed, Edges, Fails,
       Pending, Free, loopVars, bufVars, handlerVars, kernelVars, peerVars

LEMMA EventOutStep ==
  ASSUME IInv, EventOut
  PROVE  IInv'
BY DEF IInv, TypeOK, InOrder, OutOrder, Space, PeerClosedIsReal, Armed, Edges, EventOut,
       Pending, Free, loopVars, bufVars, handlerVars, kernelVars, peerVars

LEMMA SendAgainStep ==
  ASSUME IInv, SendAgain
  PROVE  IInv'
<1>1. (TypeOK /\ InOrder /\ OutOrder /\ Space /\ PeerClosedIsReal)'
  BY DEF IInv, TypeOK, InOrder, OutOrder, Space, PeerClosedIsReal, SendAgain, Pending, Free,
         bufVars, handlerVars, peerVars
<1>2. Armed'
  BY DEF IInv, TypeOK, Armed, SendAgain, Pending, bufVars
<1>3. Edges'
  BY DEF IInv, TypeOK, Edges, SendAgain
<1> QED
  BY <1>1, <1>2, <1>3 DEF IInv

LEMMA SendDoneStep ==
  ASSUME IInv, SendDone
  PROVE  IInv'
BY SMTT(30) DEF IInv, TypeOK, InOrder, OutOrder, Space, PeerClosedIsReal, Armed, Edges, SendDone,
       AsksMore, Pending, Free, loopVars, bufVars, handlerVars, kernelVars, peerVars

LEMMA PeerClosesStep ==
  ASSUME IInv, PeerCloses
  PROVE  IInv'
BY ZenonT(30) DEF IInv, TypeOK, InOrder, OutOrder, Space, PeerClosedIsReal, Armed, Edges, PeerCloses,
       Pending, Free, loopVars, bufVars, handlerVars, kernelVars, peerVars

LEMMA PeerResetsStep ==
  ASSUME IInv, PeerResets
  PROVE  IInv'
BY SMTT(30) DEF IInv, TypeOK, InOrder, OutOrder, Space, PeerClosedIsReal, Armed, Edges, PeerResets,
       Pending, Free, loopVars, bufVars, handlerVars, kernelVars, peerVars

LEMMA AfterSendStep ==
  ASSUME IInv, AfterSend
  PROVE  IInv'
<1>1. TypeOK'
  BY DEF IInv, TypeOK, Ready, AfterSend, ArmAfter, Register, Pending, Free, bufVars,
         handlerVars, peerVars
<1>2. InOrder'
  BY DEF IInv, InOrder, AfterSend, ArmAfter, Register, Pending, Free, bufVars,
         handlerVars, peerVars
<1>3. OutOrder'
  BY DEF IInv, OutOrder, AfterSend, ArmAfter, Register, Pending, Free, bufVars,
         handlerVars, peerVars
<1>4. Space'
  BY DEF IInv, Space, TypeOK, AfterSend, ArmAfter, Register, Pending, Free, bufVars,
         handlerVars, peerVars
<1>5. PeerClosedIsReal'
  BY DEF IInv, PeerClosedIsReal, AfterSend, ArmAfter, Register, Pending, Free, bufVars,
         handlerVars, peerVars
<1>6. Armed'
  BY DEF IInv, Armed, TypeOK, AfterSend, ArmAfter, Register, Pending, Free, bufVars,
         handlerVars, peerVars
<1>7. Edges'
  BY DEF IInv, Edges, TypeOK, Armed, Ready, AfterSend, ArmAfter, Register, Pending, Free, bufVars,
         handlerVars, peerVars
<1> QED
  BY <1>1, <1>2, <1>3, <1>4, <1>5, <1>6, <1>7 DEF IInv

LEMMA EventInStep ==
  ASSUME IInv, EventIn
  PROVE  IInv'
<1>a. capacity' \in Nat /\ capacity' >= Len(recvBuf) + Unit
  BY BackRoom, IOAssumption DEF IInv, TypeOK, EventIn
<1>b. Len(recvBuf) \in Nat /\ Len(recvBuf') <= capacity'
  BY <1>a, IOAssumption DEF IInv, TypeOK, EventIn
<1>1. TypeOK'
  BY <1>a, <1>b DEF IInv, TypeOK, EventIn, handlerVars, kernelVars, peerVars
<1>2. InOrder'
  BY DEF IInv, InOrder, EventIn, handlerVars, kernelVars, peerVars
<1>3. OutOrder'
  BY DEF IInv, OutOrder, EventIn, Pending, handlerVars, kernelVars, peerVars
<1>4. Space'
  BY <1>a, <1>b, IOAssumption DEF IInv, Space, Free, EventIn, TypeOK
<1>5. PeerClosedIsReal'
  BY DEF IInv, PeerClosedIsReal, EventIn, kernelVars, TypeOK
<1>6. Armed'
  BY DEF IInv, TypeOK, Armed, EventIn, Pending
<1>7. Edges'
  BY DEF IInv, TypeOK, Edges, EventIn, kernelVars, Pending
<1> QED
  BY <1>1, <1>2, <1>3, <1>4, <1>5, <1>6, <1>7 DEF IInv

LEMMA OnConnectedStep ==
  ASSUME IInv, NEW n \in 0 .. MaxOut - made, NEW f \in Results, OnConnected(n, f)
  PROVE  IInv'
<1>a. /\ made' \in 0 .. MaxOut /\ sendBuf' \in Seq(1 .. MaxOut)
      /\ Len(sendBuf') = Len(sendBuf) + n
      /\ Pending' = Pending + n /\ Len(sendBuf) \in Nat
      /\ OutOrder'
  BY Appended DEF IInv, TypeOK, OnConnected, kernelVars, peerVars
<1>1. TypeOK'
  BY <1>a DEF IInv, TypeOK, OnConnected, Results, kernelVars, peerVars
<1>2. InOrder'
  BY DEF IInv, InOrder, OnConnected, kernelVars, peerVars
<1>3. OutOrder'
  BY <1>a
<1>4. Space'
  BY DEF IInv, Space, Free, OnConnected, TypeOK
<1>5. PeerClosedIsReal'
  BY DEF IInv, PeerClosedIsReal, OnConnected, kernelVars
<1>6. Armed'
  BY <1>a DEF IInv, TypeOK, Armed, OnConnected, Pending, Results
<1>7. Edges'
  BY <1>a DEF IInv, TypeOK, Edges, OnConnected, kernelVars, Armed, Pending, Results
<1> QED
  BY <1>1, <1>2, <1>3, <1>4, <1>5, <1>6, <1>7 DEF IInv

LEMMA GetMoreDataStep ==
  ASSUME IInv, NEW n \in 0 .. MaxOut - made, NEW f \in Results, GetMoreData(n, f)
  PROVE  IInv'
<1>a. /\ made' \in 0 .. MaxOut /\ sendBuf' \in Seq(1 .. MaxOut)
      /\ Len(sendBuf') = Len(sendBuf) + n
      /\ Pending' = Pending + n /\ Len(sendBuf) \in Nat
      /\ OutOrder'
  BY Appended DEF IInv, TypeOK, GetMoreData, kernelVars, peerVars
<1>1. TypeOK'
  BY <1>a DEF IInv, TypeOK, GetMoreData, Results, kernelVars, peerVars
<1>2. InOrder'
  BY DEF IInv, InOrder, GetMoreData, kernelVars, peerVars
<1>3. OutOrder'
  BY <1>a
<1>4. Space'
  BY DEF IInv, Space, Free, GetMoreData, TypeOK
<1>5. PeerClosedIsReal'
  BY DEF IInv, PeerClosedIsReal, GetMoreData, kernelVars
<1>6. Armed'
  BY <1>a DEF IInv, TypeOK, Armed, GetMoreData, Pending, Results
<1>7. Edges'
  BY <1>a DEF IInv, TypeOK, Edges, GetMoreData, kernelVars, Armed, Pending, Results
<1> QED
  BY <1>1, <1>2, <1>3, <1>4, <1>5, <1>6, <1>7 DEF IInv

LEMMA AioCompletedStep ==
  ASSUME IInv, NEW n \in 0 .. MaxOut - made, NEW f \in Results, AioCompleted(n, f)
  PROVE  IInv'
<1>a. /\ made' \in 0 .. MaxOut /\ sendBuf' \in Seq(1 .. MaxOut)
      /\ Len(sendBuf') = Len(sendBuf) + n
      /\ Pending' = Pending + n /\ Len(sendBuf) \in Nat
      /\ OutOrder'
  BY Appended DEF IInv, TypeOK, AioCompleted, ArmAio, Register, kernelVars, peerVars
<1>b. mask' \in {"none", "in", "out"} /\ {edge', full'} \subseteq BOOLEAN
  BY <1>a DEF IInv, TypeOK, AioCompleted, ArmAio, Register
<1>1. TypeOK'
  BY <1>a, <1>b DEF IInv, TypeOK, AioCompleted, Results, ArmAio, Register, peerVars
<1>2. InOrder'
  BY DEF IInv, InOrder, AioCompleted, peerVars
<1>3. OutOrder'
  BY <1>a
<1>4. Space'
  BY DEF IInv, Space, Free, AioCompleted, TypeOK
<1>5. PeerClosedIsReal'
  BY DEF IInv, PeerClosedIsReal, AioCompleted
<1>6. Armed'
  BY <1>a DEF IInv, TypeOK, Armed, AioCompleted, Pending, ArmAio, Register
<1>7. Edges'
  BY <1>a DEF IInv, TypeOK, Edges, AioCompleted, Armed, Pending, ArmAio, Register, Ready
<1> QED
  BY <1>1, <1>2, <1>3, <1>4, <1>5, <1>6, <1>7 DEF IInv

LEMMA AfterReceivedStep ==
  ASSUME IInv, AfterReceived
  PROVE  IInv'
<1>1. TypeOK'
  BY DEF IInv, TypeOK, Ready, AfterReceived, ArmAfter, Register, Pending, Free, bufVars, handlerVars, peerVars
<1>2. InOrder'
  BY DEF IInv, InOrder, AfterReceived, ArmAfter, Register, Pending, Free, bufVars, handlerVars, peerVars
<1>3. OutOrder'
  BY DEF IInv, OutOrder, AfterReceived, ArmAfter, Register, Pending, Free, bufVars, handlerVars, peerVars
<1>4. Space'
  BY DEF IInv, Space, TypeOK, AfterReceived, ArmAfter, Register, Pending, Free, bufVars, handlerVars, peerVars
<1>5. PeerClosedIsReal'
  BY DEF IInv, PeerClosedIsReal, AfterReceived, ArmAfter, Register, Pending, Free, bufVars, handlerVars, peerVars
<1>6. Armed'
  BY DEF IInv, Armed, TypeOK, AfterReceived, ArmAfter, Register, Pending, Free, bufVars, handlerVars, peerVars
<1>7. Edges'
  <2>1. CASE eof
    <3>1. pc' = "peerClosed"
      BY <2>1 DEF AfterReceived
    <3> QED
      BY <3>1 DEF Edges
  <2>2. CASE ~eof /\ Pending > 0
    <3>1. pc' = "wait" /\ UNCHANGED outQ /\ mask' = "out"
      BY <2>2 DEF AfterReceived, ArmAfter, Register
    <3>2. /\ edge' = (edge \/ Ready("out"))
          /\ full' = (full \/ Len(outQ) = Room)
      BY <2>2 DEF AfterReceived, ArmAfter, Register
    <3>3. /\ Len(outQ) < Room => edge'
          /\ Len(outQ) = Room => full'
      BY <3>2 DEF Ready
    <3> QED
      BY <3>1, <3>3 DEF Edges
  <2>3. CASE ~eof /\ ~(Pending > 0)
    <3>1. Pending = 0 /\ UNCHANGED <<mask, edge, full, inQ, fin, outQ>> /\ mask = "in"
      BY <2>3 DEF IInv, TypeOK, Armed, AfterReceived, Pending
    <3> QED
      BY <2>3, <3>1 DEF IInv, Edges, AfterReceived
  <2> QED
    BY <2>1, <2>2, <2>3
<1> QED
  BY <1>1, <1>2, <1>3, <1>4, <1>5, <1>6, <1>7 DEF IInv

LEMMA OnReceivedStep ==
  ASSUME IInv, NEW k \in 0 .. Len(recvBuf), NEW n \in 0 .. MaxOut - made, NEW f \in Results, OnReceived(k, n, f)
  PROVE  IInv'
<1>a. /\ made' \in 0 .. MaxOut /\ sendBuf' \in Seq(1 .. MaxOut)
      /\ Len(sendBuf') = Len(sendBuf) + n
      /\ Pending' = Pending + n /\ Len(sendBuf) \in Nat /\ n \in Nat
      /\ OutOrder'
  BY Appended, IOAssumption DEF IInv, TypeOK, OnReceived, kernelVars, peerVars
<1>b. /\ recvBuf' \in Seq(1 .. MaxIn) /\ Len(recvBuf') = Len(recvBuf) - k
      /\ Run(recvBuf', used + k)
  <2>1. recvBuf \in Seq(1 .. MaxIn) /\ used \in Int /\ Run(recvBuf, used)
    BY DEF IInv, TypeOK, InOrder
  <2>2. k \in 0 .. Len(recvBuf) /\ Len(recvBuf) \in k .. Len(recvBuf)
    BY <2>1
  <2>3. recvBuf' = SubSeq(recvBuf, k + 1, Len(recvBuf))
    BY DEF OnReceived, EraseFront
  <2>4. /\ SubSeq(recvBuf, k + 1, Len(recvBuf)) \in Seq(1 .. MaxIn)
        /\ Len(SubSeq(recvBuf, k + 1, Len(recvBuf))) = Len(recvBuf) - k
        /\ Run(SubSeq(recvBuf, k + 1, Len(recvBuf)), used + k)
    BY <2>1, <2>2, RunCut
  <2> QED
    BY <2>3, <2>4
<1>c. /\ k \in Nat /\ k <= Len(recvBuf) /\ Len(recvBuf) \in Nat
      /\ used' = used + k /\ seen' = used + Len(recvBuf)
      /\ used \in Nat /\ Len(inQ) \in Nat
      /\ sent = used + Len(recvBuf) + Len(inQ) /\ sent \in 0 .. MaxIn
  <2>1. Len(recvBuf) \in Nat /\ Len(inQ) \in Nat /\ sent \in 0 .. MaxIn
    BY DEF IInv, TypeOK
  <2>2. used \in Nat /\ sent = used + Len(recvBuf) + Len(inQ)
    BY IOAssumption DEF IInv, TypeOK, InOrder
  <2>3. used' = used + k /\ seen' = used + Len(recvBuf)
    BY DEF OnReceived
  <2> QED
    BY <2>1, <2>2, <2>3
<1>d. /\ used' \in 0 .. seen' /\ seen' \in 0 .. sent
      /\ used' + Len(recvBuf') = used + Len(recvBuf)
      /\ Len(recvBuf') <= Len(recvBuf)
  BY <1>b, <1>c
<1>1. TypeOK'
  <2>1. offset' \in 0 .. Len(sendBuf') /\ Len(recvBuf') <= capacity'
    <3>1. /\ offset \in 0 .. Len(sendBuf) /\ Len(recvBuf) <= capacity /\ capacity \in Nat
          /\ UNCHANGED <<offset, capacity>>
      BY DEF IInv, TypeOK, OnReceived
    <3>2. offset \in 0 .. (Len(sendBuf) + n)
      BY <1>a, <3>1
    <3>3. Len(recvBuf) - k <= capacity
      BY <1>c, <3>1
    <3> QED
      BY <1>a, <1>b, <3>1, <3>2, <3>3
  <2>2. f \subseteq {"more", "disconnect"}
    BY DEF Results
  <2>3. UNCHANGED <<pc, eof, capacity, edge, mask, inQ, fin, reset, outQ, full, sent>> /\ flags' = f /\ fresh' = FALSE
    BY DEF OnReceived, kernelVars, peerVars
  <2> QED
    BY <1>a, <1>b, <1>d, <2>1, <2>2, <2>3 DEF IInv, TypeOK
<1>2. InOrder'
  BY <1>b, <1>c, <1>d DEF IInv, InOrder, OnReceived, kernelVars, peerVars
<1>3. OutOrder'
  BY <1>a
<1>4. Space'
  BY DEF IInv, Space, TypeOK, OnReceived
<1>5. PeerClosedIsReal'
  BY DEF IInv, PeerClosedIsReal, OnReceived, kernelVars
<1>6. Armed'
  BY <1>a DEF IInv, TypeOK, Armed, OnReceived, Pending
<1>7. Edges'
  BY <1>a DEF IInv, Edges, OnReceived, kernelVars
<1> QED
  BY <1>1, <1>2, <1>3, <1>4, <1>5, <1>6, <1>7 DEF IInv

LEMMA RecvSomeStep ==
  ASSUME IInv, RecvSome
  PROVE  IInv'
<1> DEFINE n == Readable
           front == SubSeq(inQ, 1, n)
<1>a. /\ n \in Nat /\ n > 0 /\ n <= Len(inQ) /\ n <= Free /\ Free \in Nat
      /\ Len(inQ) \in Nat /\ Len(recvBuf) \in Nat /\ used \in Nat /\ capacity \in Nat
      /\ Free = capacity - Len(recvBuf)
      /\ inQ \in Seq(1 .. MaxIn) /\ recvBuf \in Seq(1 .. MaxIn)
      /\ Run(recvBuf, used) /\ Run(inQ, used + Len(recvBuf))
      /\ sent = used + Len(recvBuf) + Len(inQ)
  BY DEF IInv, TypeOK, InOrder, Space, RecvSome, Readable, Free
<1>b. /\ recvBuf' = recvBuf \o front
      /\ inQ' = SubSeq(inQ, n + 1, Len(inQ))
      /\ capacity' = IF Free = n THEN Back(capacity, Len(recvBuf) + n, Unit) ELSE capacity
      /\ fresh' = TRUE /\ pc = "recv" /\ pc' = "recv"
      /\ UNCHANGED <<flags, eof, sendBuf, offset, used, seen, made, fin, reset, outQ, full,
                     sent, got, mask, edge>>
  BY DEF RecvSome, NextRead, handlerVars, peerVars
<1> HIDE DEF n
<1>c. /\ front \in Seq(1 .. MaxIn) /\ Len(front) = n
      /\ Run(front, used + Len(recvBuf))
  <2>1. 0 \in 0 .. Len(inQ) /\ n \in 0 .. Len(inQ) /\ used + Len(recvBuf) \in Int
    BY <1>a
  <2>2. /\ SubSeq(inQ, 0 + 1, n) \in Seq(1 .. MaxIn)
        /\ Len(SubSeq(inQ, 0 + 1, n)) = n - 0
        /\ Run(SubSeq(inQ, 0 + 1, n), used + Len(recvBuf) + 0)
    BY <1>a, <2>1, RunCut
  <2>3. 0 + 1 = 1 /\ n - 0 = n /\ used + Len(recvBuf) + 0 = used + Len(recvBuf)
    BY <1>a
  <2> QED
    BY <2>2, <2>3
<1>d. /\ recvBuf' \in Seq(1 .. MaxIn) /\ Len(recvBuf') = Len(recvBuf) + n
      /\ Run(recvBuf', used)
  <2>1. used \in Int /\ used + Len(recvBuf) \in Int
    BY <1>a
  <2> HIDE DEF front
  <2> QED
    BY <1>a, <1>b, <1>c, <2>1, RunJoined
<1>e. /\ inQ' \in Seq(1 .. MaxIn) /\ Len(inQ') = Len(inQ) - n
      /\ Run(inQ', used + Len(recvBuf) + n)
  <2>1. n \in 0 .. Len(inQ) /\ Len(inQ) \in n .. Len(inQ) /\ used + Len(recvBuf) \in Int
    BY <1>a
  <2>2. /\ SubSeq(inQ, n + 1, Len(inQ)) \in Seq(1 .. MaxIn)
        /\ Len(SubSeq(inQ, n + 1, Len(inQ))) = Len(inQ) - n
        /\ Run(SubSeq(inQ, n + 1, Len(inQ)), used + Len(recvBuf) + n)
    BY <1>a, <2>1, RunCut
  <2> QED
    BY <1>b, <2>2
<1>f. capacity' \in Nat /\ Len(recvBuf') < capacity'
  <2>1. CASE Free = n
    <3>1. Len(recvBuf) + n \in 0 .. capacity /\ Unit \in Nat /\ Unit > 0
      BY <1>a, <2>1, IOAssumption
    <3>2. /\ Back(capacity, Len(recvBuf) + n, Unit) \in Nat
          /\ Back(capacity, Len(recvBuf) + n, Unit) >= Len(recvBuf) + n + Unit
      BY <1>a, <3>1, BackRoom
    <3> QED
      BY <1>a, <1>b, <1>d, <2>1, <3>1, <3>2
  <2>2. CASE Free # n
    <3>1. capacity' = capacity
      BY <1>b, <2>2
    <3>2. Len(recvBuf) + n < capacity
      BY <1>a, <2>2
    <3> QED
      BY <1>a, <1>d, <3>1, <3>2
  <2> QED
    BY <2>1, <2>2
<1>1. TypeOK'
  <2>1. Len(recvBuf') <= capacity'
    BY <1>d, <1>f, <1>a
  <2> QED
    BY <1>b, <1>d, <1>e, <1>f, <2>1 DEF IInv, TypeOK
<1>2. InOrder'
  <2>1. /\ used + Len(recvBuf') = used + Len(recvBuf) + n
        /\ sent = used + Len(recvBuf') + Len(inQ')
    BY <1>a, <1>d, <1>e
  <2> QED
    BY <1>b, <1>d, <1>e, <2>1 DEF InOrder
<1>3. OutOrder'
  BY <1>b DEF IInv, OutOrder, Pending
<1>4. Space'
  <2>1. Free' > 0
    BY <1>a, <1>d, <1>f DEF Free
  <2>2. Len(recvBuf') > 0
    BY <1>a, <1>d
  <2> QED
    BY <2>1, <2>2, <1>d DEF Space
<1>5. PeerClosedIsReal'
  BY <1>a, <1>b DEF IInv, PeerClosedIsReal
<1>6. Armed'
  BY <1>b DEF IInv, Armed, Pending
<1>7. Edges'
  BY <1>b DEF Edges
<1> QED
  BY <1>1, <1>2, <1>3, <1>4, <1>5, <1>6, <1>7 DEF IInv

LEMMA SendSomeStep ==
  ASSUME IInv, SendSome
  PROVE  IInv'
<1> DEFINE n == Writable
           chunk == SubSeq(sendBuf, offset + 1, offset + n)
           base == made - Len(sendBuf)
<1>a. /\ Len(sendBuf) \in Nat /\ offset \in Nat /\ offset <= Len(sendBuf)
      /\ Len(outQ) \in Nat /\ Len(outQ) <= Room /\ Room \in Nat /\ made \in Nat
      /\ Len(got) \in Nat
      /\ sendBuf \in Seq(1 .. MaxOut) /\ outQ \in Seq(1 .. MaxOut)
  BY IOAssumption DEF IInv, TypeOK, OutOrder
<1>b. /\ n \in Nat /\ n > 0 /\ offset + n <= Len(sendBuf) /\ Len(outQ) + n <= Room
  BY <1>a DEF SendSome, Writable, Pending
<1>c. /\ made = Len(got) + Len(outQ) + (Len(sendBuf) - offset)
      /\ Run(got, 0) /\ Run(outQ, Len(got)) /\ Run(sendBuf, base)
  BY DEF IInv, OutOrder, Pending
<1>d. /\ pc \in {"send", "greet"}
      /\ outQ' = outQ \o chunk
      /\ sendBuf' = Reset(sendBuf, offset + n).buf /\ offset' = Reset(sendBuf, offset + n).off
      /\ UNCHANGED <<pc, flags, fresh, eof, recvBuf, capacity, used, seen, made, inQ, fin, reset,
                     full, sent, got, mask, edge>>
  BY DEF SendSome, loopVars, handlerVars, peerVars
<1> HIDE DEF n
<1>e. /\ chunk \in Seq(1 .. MaxOut) /\ Len(chunk) = n
      /\ Run(chunk, Len(got) + Len(outQ))
  <2>1. offset \in 0 .. Len(sendBuf) /\ offset + n \in offset .. Len(sendBuf) /\ base \in Int
    BY <1>a, <1>b
  <2>2. /\ chunk \in Seq(1 .. MaxOut) /\ Len(chunk) = (offset + n) - offset
        /\ Run(chunk, base + offset)
    BY <1>a, <1>c, <2>1, RunCut, ZenonT(30)
  <2>3. (offset + n) - offset = n /\ base + offset = Len(got) + Len(outQ)
    BY <1>a, <1>b, <1>c
  <2> QED
    BY <2>2, <2>3
<1>f. /\ outQ' \in Seq(1 .. MaxOut) /\ Len(outQ') = Len(outQ) + n
      /\ Run(outQ', Len(got))
  <2>1. Len(got) \in Int /\ Len(got) + Len(outQ) \in Int
    BY <1>a
  <2> HIDE DEF chunk
  <2> QED
    BY <1>a, <1>c, <1>d, <1>e, <2>1, RunJoined
<1>g. /\ sendBuf' \in Seq(1 .. MaxOut) /\ offset' \in 0 .. Len(sendBuf')
      /\ Pending' = Len(sendBuf) - (offset + n)
      /\ Run(sendBuf', made - Len(sendBuf'))
  <2>1. CASE offset + n = Len(sendBuf)
    <3>1. sendBuf' = <<>> /\ offset' = 0
      BY <1>d, <2>1 DEF Reset
    <3> QED
      BY <1>a, <1>b, <2>1, <3>1 DEF Pending, Run
  <2>2. CASE offset + n # Len(sendBuf)
    <3>1. sendBuf' = sendBuf /\ offset' = offset + n
      BY <1>d, <2>2 DEF Reset
    <3> QED
      BY <1>a, <1>b, <1>c, <3>1 DEF Pending
  <2> QED
    BY <2>1, <2>2
<1>h. Len(outQ') <= Room /\ made = Len(got) + Len(outQ') + Pending'
  BY <1>a, <1>b, <1>c, <1>f, <1>g
<1>1. TypeOK'
  BY <1>d, <1>f, <1>g, <1>h DEF IInv, TypeOK
<1>2. InOrder'
  BY <1>d DEF IInv, InOrder
<1>3. OutOrder'
  BY <1>c, <1>d, <1>f, <1>g, <1>h DEF IInv, OutOrder
<1>4. Space'
  BY <1>d DEF IInv, Space, Free
<1>5. PeerClosedIsReal'
  BY <1>d DEF IInv, PeerClosedIsReal
<1>6. Armed'
  BY <1>d DEF IInv, Armed
<1>7. Edges'
  BY <1>d DEF Edges
<1> QED
  BY <1>1, <1>2, <1>3, <1>4, <1>5, <1>6, <1>7 DEF IInv

LEMMA PeerSendsStep ==
  ASSUME IInv, PeerSends
  PROVE  IInv'
<1>a. /\ sent \in Nat /\ sent < MaxIn /\ used \in Nat
      /\ Len(recvBuf) \in Nat /\ Len(inQ) \in Nat
      /\ sent = used + Len(recvBuf) + Len(inQ)
      /\ inQ \in Seq(1 .. MaxIn) /\ Run(inQ, used + Len(recvBuf))
  BY IOAssumption, SMTT(30) DEF IInv, TypeOK, InOrder, PeerSends
<1>b. /\ inQ' = Append(inQ, sent + 1) /\ sent' = sent + 1
      /\ edge' = (edge \/ mask = "in")
      /\ UNCHANGED <<pc, flags, fresh, eof, recvBuf, capacity, sendBuf, offset, used, seen, made,
                     fin, reset, outQ, full, got, mask>>
  BY DEF PeerSends, loopVars, bufVars, handlerVars
<1>c. /\ inQ' \in Seq(1 .. MaxIn) /\ Len(inQ') = Len(inQ) + 1
      /\ Run(inQ', used + Len(recvBuf))
  <2>1. /\ used + Len(recvBuf) \in Int
        /\ used + Len(recvBuf) + Len(inQ) + 1 \in 1 .. MaxIn
        /\ inQ' = Append(inQ, used + Len(recvBuf) + Len(inQ) + 1)
    BY <1>a, <1>b, IOAssumption
  <2> QED
    BY <1>a, <2>1, RunAppended
<1>1. TypeOK'
  <2>1. sent' \in 0 .. MaxIn /\ seen \in 0 .. sent' /\ edge' \in BOOLEAN
    BY <1>a, <1>b, IOAssumption DEF IInv, TypeOK
  <2> QED
    BY <1>b, <1>c, <2>1 DEF IInv, TypeOK
<1>2. InOrder'
  BY <1>a, <1>b, <1>c DEF IInv, InOrder
<1>3. OutOrder'
  BY <1>b DEF IInv, OutOrder, Pending
<1>4. Space'
  BY <1>b DEF IInv, Space, Free
<1>5. PeerClosedIsReal'
  BY <1>b DEF IInv, PeerClosedIsReal, PeerSends
<1>6. Armed'
  BY <1>b DEF IInv, Armed, Pending
<1>7. Edges'
  BY <1>b DEF IInv, Edges, Pending
<1> QED
  BY <1>1, <1>2, <1>3, <1>4, <1>5, <1>6, <1>7 DEF IInv

LEMMA PeerReadsStep ==
  ASSUME IInv, PeerReads
  PROVE  IInv'
<1>a. /\ outQ \in Seq(1 .. MaxOut) /\ outQ # <<>> /\ Len(outQ) \in Nat /\ Len(outQ) <= Room
      /\ got \in Seq(1 .. MaxOut) /\ Len(got) \in Nat
      /\ Run(got, 0) /\ Run(outQ, Len(got))
      /\ made = Len(got) + Len(outQ) + Pending /\ Pending \in Int /\ Room \in Nat
  <2>1. /\ outQ \in Seq(1 .. MaxOut) /\ Len(outQ) <= Room /\ Room \in Nat
        /\ sendBuf \in Seq(1 .. MaxOut) /\ offset \in 0 .. Len(sendBuf)
    BY IOAssumption DEF IInv, TypeOK
  <2>2. Len(outQ) \in Nat /\ Pending \in Int
    BY <2>1 DEF Pending
  <2>3. outQ # <<>>
    BY DEF PeerReads
  <2> QED
    BY <2>1, <2>2, <2>3 DEF IInv, OutOrder
<1>b. /\ got' = Append(got, Head(outQ)) /\ outQ' = Tail(outQ) /\ full' = FALSE
      /\ edge' = (edge \/ (mask = "out" /\ full))
      /\ UNCHANGED <<pc, flags, fresh, eof, recvBuf, capacity, sendBuf, offset, used, seen, made,
                     inQ, fin, reset, sent, mask>>
  BY DEF PeerReads, loopVars, bufVars, handlerVars
<1>c. /\ outQ' \in Seq(1 .. MaxOut) /\ Len(outQ') = Len(outQ) - 1
      /\ Head(outQ) = Len(got) + 1 /\ Len(got) + 1 \in 1 .. MaxOut
      /\ Run(outQ', Len(got) + 1)
  <2>1. /\ Head(outQ) = Len(got) + 1 /\ Len(got) + 1 \in 1 .. MaxOut
        /\ Tail(outQ) \in Seq(1 .. MaxOut) /\ Len(Tail(outQ)) = Len(outQ) - 1
        /\ Run(Tail(outQ), Len(got) + 1)
    <3>1. Len(got) \in Int /\ outQ \in Seq(1 .. MaxOut) /\ outQ # <<>> /\ Run(outQ, Len(got))
      BY <1>a
    <3> QED
      BY <3>1, RunTail
  <2> QED
    BY <1>b, <2>1
<1>d. /\ got' \in Seq(1 .. MaxOut) /\ Len(got') = Len(got) + 1
      /\ Run(got', 0)
  <2>1. /\ 0 \in Int /\ 0 + Len(got) + 1 \in 1 .. MaxOut
        /\ got' = Append(got, 0 + Len(got) + 1)
    BY <1>a, <1>b, <1>c
  <2> QED
    BY <1>a, <2>1, RunAppended
<1>1. TypeOK'
  <2>1. Len(outQ') <= Room
    BY <1>a, <1>c
  <2>2. edge' \in BOOLEAN /\ full' \in BOOLEAN
    BY <1>b
  <2> QED
    BY <1>b, <1>c, <2>1, <2>2 DEF IInv, TypeOK
<1>2. InOrder'
  BY <1>b DEF IInv, InOrder
<1>3. OutOrder'
  <2>1. made' = Len(got') + Len(outQ') + Pending'
    BY <1>a, <1>b, <1>c, <1>d DEF Pending
  <2> QED
    BY <1>b, <1>c, <1>d, <2>1 DEF IInv, OutOrder
<1>4. Space'
  BY <1>b DEF IInv, Space, Free
<1>5. PeerClosedIsReal'
  BY <1>b DEF IInv, PeerClosedIsReal
<1>6. Armed'
  BY <1>b DEF IInv, Armed, TypeOK, Pending
<1>7. Edges'
  <2>1. mask = "out" /\ (pc = "wait" \/ (pc = "flushed" /\ Pending > 0)) => edge'
    <3>1. mask = "out" /\ (pc = "wait" \/ (pc = "flushed" /\ Pending > 0)) => edge \/ full
      <4>1. Len(outQ) = Room \/ Len(outQ) < Room
        BY <1>a
      <4> QED
        BY <4>1 DEF IInv, Edges
    <3> QED
      BY <1>b, <3>1
  <2>2. Len(outQ') # Room
    BY <1>a, <1>c
  <2>3. UNCHANGED <<mask, pc, Pending, eof, inQ, fin>>
    BY <1>b DEF Pending
  <2>4. mask = "in" /\ (pc = "wait" \/ (pc = "received" /\ ~eof)) /\ (inQ # <<>> \/ fin) => edge'
    BY <1>b DEF IInv, Edges
  <2> QED
    BY <2>1, <2>2, <2>3, <2>4 DEF Edges
<1> QED
  BY <1>1, <1>2, <1>3, <1>4, <1>5, <1>6, <1>7 DEF IInv

-----------------------------------------------------------------------------
LEMMA InitIInv == Init => IInv
<1> SUFFICES ASSUME Init PROVE IInv
  OBVIOUS
<1>1. TypeOK
  <2>1. <<>> \in Seq(1 .. MaxIn) /\ <<>> \in Seq(1 .. MaxOut) /\ Len(<<>>) = 0
    OBVIOUS
  <2>2. 0 \in 0 .. MaxIn /\ 0 \in 0 .. MaxOut /\ 0 \in 0 .. 0 /\ 0 <= Room
    BY IOAssumption
  <2>3. /\ recvBuf \in Seq(1 .. MaxIn) /\ capacity \in Nat /\ Len(recvBuf) <= capacity
        /\ sendBuf \in Seq(1 .. MaxOut) /\ offset \in 0 .. Len(sendBuf)
        /\ inQ \in Seq(1 .. MaxIn) /\ outQ \in Seq(1 .. MaxOut) /\ Len(outQ) <= Room
    BY <2>1, <2>2 DEF Init
  <2>4. sent \in 0 .. MaxIn /\ used \in 0 .. seen /\ seen \in 0 .. sent /\ made \in 0 .. MaxOut
    BY <2>2 DEF Init
  <2>5. {fresh, eof, edge, fin, reset, full} \subseteq BOOLEAN
    BY DEF Init
  <2> QED
    BY <2>3, <2>4, <2>5 DEF Init, TypeOK
<1>2. InOrder /\ OutOrder
  BY DEF Init, InOrder, OutOrder, Pending, Run
<1>3. Space /\ PeerClosedIsReal /\ Armed /\ Edges
  BY DEF Init, Space, PeerClosedIsReal, Armed, Edges, Free
<1> QED
  BY <1>1, <1>2, <1>3 DEF IInv

LEMMA NextIInv == IInv /\ [Next]_vars => IInv'
<1> SUFFICES ASSUME IInv, [Next]_vars PROVE IInv'
  OBVIOUS
<1>1. ASSUME Callbacks(MaxOut) PROVE IInv'
  <2> PICK n \in 0 .. MaxOut - made, f \in Results :
        \/ OnConnected(n, f)
        \/ \E k \in 0 .. Len(recvBuf) : OnReceived(k, n, f)
        \/ GetMoreData(n, f)
    BY <1>1 DEF Callbacks
  <2> QED
    BY OnConnectedStep, OnReceivedStep, GetMoreDataStep
<1>2. ASSUME Library PROVE IInv'
  BY <1>2, ReportedStep, EventInStep, EventNoneStep, RecvSomeStep, RecvZeroStep, RecvAgainStep,
     AfterReceivedStep, EventOutStep, SendSomeStep, SendAgainStep, SendDoneStep, AfterSendStep,
     FailsStep DEF Library
<1>3. ASSUME Completes(MaxOut) PROVE IInv'
  BY <1>3, AioCompletedStep DEF Completes
<1>4. ASSUME Peer PROVE IInv'
  BY <1>4, PeerSendsStep, PeerReadsStep, PeerClosesStep, PeerResetsStep DEF Peer
<1>5. ASSUME UNCHANGED vars PROVE IInv'
  BY <1>5 DEF IInv, TypeOK, InOrder, OutOrder, Space, PeerClosedIsReal, Armed, Edges, Pending,
     Free, vars, loopVars, bufVars, handlerVars, kernelVars, peerVars
<1> QED
  BY <1>1, <1>2, <1>3, <1>4, <1>5 DEF Next, Terminated

THEOREM Invariant == Spec => []IInv
BY InitIInv, NextIInv, PTL DEF Spec

-----------------------------------------------------------------------------
(* The buffers stay within bounds: the capacity of recv_buf covers what     *)
(* was read into it, and m_send_offset stays within send_buf.               *)
THEOREM TypeCorrect == Spec => []TypeOK
<1>1. IInv => TypeOK
  BY DEF IInv
<1> QED
  BY <1>1, Invariant, PTL

(* What the handler finds and the kernel holds is what the peer sent and    *)
(* the handler has not removed: no call of recv(), however it splits the    *)
(* stream, drops, repeats or reorders a byte.                               *)
THEOREM StreamInIntact == Spec => []StreamIn
<1>1. IInv => StreamIn
  <2> SUFFICES ASSUME IInv PROVE StreamIn
    OBVIOUS
  <2>1. /\ recvBuf \in Seq(1 .. MaxIn) /\ inQ \in Seq(1 .. MaxIn)
        /\ used \in Int /\ used + Len(recvBuf) \in Int /\ Len(recvBuf) \in Int
        /\ Len(inQ) \in Int
        /\ Run(recvBuf, used) /\ Run(inQ, used + Len(recvBuf))
        /\ sent = used + Len(recvBuf) + Len(inQ)
    BY DEF IInv, TypeOK, InOrder
  <2>2. /\ recvBuf \o inQ \in Seq(1 .. MaxIn)
        /\ Len(recvBuf \o inQ) = Len(recvBuf) + Len(inQ)
        /\ Run(recvBuf \o inQ, used)
    BY <2>1, RunJoined
  <2>3. recvBuf \o inQ = Bytes(used + 1, used + Len(recvBuf \o inQ))
    BY <2>1, <2>2, RunIsBytes
  <2>4. used + Len(recvBuf \o inQ) = sent
    BY <2>1, <2>2
  <2> QED
    BY <2>3, <2>4 DEF StreamIn
<1> QED
  BY <1>1, Invariant, PTL

(* What the peer has read, what is on its way and what waits in send_buf is *)
(* what the handler appended, in order: however send() splits it, and       *)
(* although m_send_offset, the buffer and new data move independently.      *)
THEOREM StreamOutIntact == Spec => []StreamOut
<1>1. IInv => StreamOut
  <2> SUFFICES ASSUME IInv PROVE StreamOut
    OBVIOUS
  <2> DEFINE rest == SubSeq(sendBuf, offset + 1, Len(sendBuf))
             base == made - Len(sendBuf)
  <2>1. /\ got \in Seq(1 .. MaxOut) /\ outQ \in Seq(1 .. MaxOut) /\ sendBuf \in Seq(1 .. MaxOut)
        /\ Len(got) \in Nat /\ Len(outQ) \in Nat /\ Len(sendBuf) \in Nat /\ made \in Nat
        /\ offset \in 0 .. Len(sendBuf)
    BY IOAssumption, SMTT(30) DEF IInv, TypeOK, OutOrder
  <2>2. /\ Run(got, 0) /\ Run(outQ, Len(got)) /\ Run(sendBuf, base)
        /\ made = Len(got) + Len(outQ) + (Len(sendBuf) - offset)
    BY DEF IInv, OutOrder, Pending
  <2>3. /\ rest \in Seq(1 .. MaxOut) /\ Len(rest) = Len(sendBuf) - offset
        /\ Run(rest, Len(got) + Len(outQ))
    <3> HIDE DEF base
    <3>1. /\ sendBuf \in Seq(1 .. MaxOut) /\ offset \in 0 .. Len(sendBuf)
          /\ Len(sendBuf) \in offset .. Len(sendBuf) /\ base \in Int /\ Run(sendBuf, base)
      BY <2>1, <2>2 DEF base
    <3>2. /\ rest \in Seq(1 .. MaxOut) /\ Len(rest) = Len(sendBuf) - offset
          /\ Run(rest, base + offset)
      BY <3>1, RunCut, ZenonT(30)
    <3>3. base + offset = Len(got) + Len(outQ)
      BY <2>1, <2>2 DEF base
    <3> QED
      BY <3>2, <3>3
  <2> HIDE DEF rest, base
  <2>4. /\ got \o outQ \in Seq(1 .. MaxOut) /\ Len(got \o outQ) = Len(got) + Len(outQ)
        /\ Run(got \o outQ, 0)
    <3>1. 0 \in Int /\ Len(got) \in Int /\ Len(got) = 0 + Len(got)
      BY <2>1
    <3> QED
      BY <2>1, <2>2, <3>1, RunJoined
  <2>5. /\ got \o outQ \o rest \in Seq(1 .. MaxOut)
        /\ Len(got \o outQ \o rest) = made
        /\ Run(got \o outQ \o rest, 0)
    <3>1. 0 \in Int /\ Len(got) + Len(outQ) \in Int
          /\ Len(got) + Len(outQ) = 0 + Len(got \o outQ)
      BY <2>1, <2>4
    <3>2. /\ (got \o outQ) \o rest \in Seq(1 .. MaxOut)
          /\ Len((got \o outQ) \o rest) = Len(got \o outQ) + Len(rest)
          /\ Run((got \o outQ) \o rest, 0)
      BY <2>3, <2>4, <3>1, RunJoined
    <3> QED
      BY <2>1, <2>2, <2>3, <2>4, <3>2
  <2>6. got \o outQ \o rest = Bytes(0 + 1, 0 + made)
    <3> DEFINE all == got \o outQ \o rest
    <3>1. all \in Seq(1 .. MaxOut) /\ Len(all) = made /\ Run(all, 0) /\ 0 \in Int
      BY <2>5
    <3> HIDE DEF all
    <3>2. all = Bytes(0 + 1, 0 + Len(all))
      BY <3>1, RunIsBytes
    <3> QED
      BY <3>1, <3>2 DEF all
  <2>7. 0 + 1 = 1 /\ 0 + made = made
    BY <2>1
  <2> QED
    BY <2>6, <2>7 DEF StreamOut, rest
<1> QED
  BY <1>1, Invariant, PTL

(* Whatever the peer does between the reads, the sends and the change of    *)
(* the registered events, a connection in epoll_wait() that is ready for    *)
(* what it needs has an edge pending.                                       *)
THEOREM NoWakeupIsLost == Spec => []NoLostWakeup
<1>1. IInv => NoLostWakeup
  BY DEF IInv, TypeOK, Armed, Edges, NoLostWakeup, Pending
<1> QED
  BY <1>1, Invariant, PTL

(* recv() that returns 0 is the end of the peer's stream, reached after     *)
(* everything before it was read: no read is made without room.             *)
THEOREM CloseIsReal == Spec => []PeerClosedIsReal
<1>1. IInv => PeerClosedIsReal
  BY DEF IInv
<1> QED
  BY <1>1, Invariant, PTL
=============================================================================
