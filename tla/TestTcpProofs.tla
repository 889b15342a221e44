--------------------------- MODULE TestTcpProofs ---------------------------
(***************************************************************************)
(* Proofs about TestTcp: the demo handlers keep to what conn_event_t       *)
(* allows, so that a connection with any of them is a connection of        *)
(* ConnIO, and "repeat" answers each request in full.                      *)
(***************************************************************************)
EXTENDS TestTcp, ConnIOProofs, WellFoundedInduction

(* What the handlers have sent is bounded by what they were sent.           *)
EchoInv ==
  handler = "echo" =>
    origin \in Seq(0 .. MaxIn) /\ Len(origin) = made /\ made <= 2 * used

(* "repeat" has lines left only while it has told the loop so, and on the   *)
(* way to the next get_more_data().                                         *)
Underway ==
  \/ pc \in {"out", "send", "sendMore"} \cup {"lost", "peerClosed", "finished"}
  \/ pc \in {"wait", "flushed"} /\ Pending > 0
  \/ pc = "received" /\ ~fresh /\ Pending > 0

RepeatInv ==
  /\ index \in 0 .. count /\ count \in 0 .. MaxCount
  /\ handler # "repeat" => count = 0
  /\ handler = "repeat" =>
       /\ pc # "connected" => (index < count <=> "more" \in flags)
       /\ pc = "connected" => index = count /\ made = 0
       /\ pc \in {"greetMore", "sendMore"} => "more" \in flags
       /\ index < count => Underway /\ made + (count - index) + MaxIn - used <= MaxOut

(* "file" has one task while its file is open, and sends at most MaxFile    *)
(* bytes for each two it removes.                                           *)
FileInv ==
  /\ opened \in BOOLEAN
  /\ tasks \in Seq([at : Nat, size : 0 .. MaxFile])
  /\ opened => Len(tasks) = 1
  /\ ~opened => tasks = <<>>
  /\ handler = "file" =>
       /\ ~opened => 2 * made <= MaxFile * used
       /\ opened => 2 * made + 2 * MaxFile <= MaxFile * used

TInv ==
  /\ handler \in Handlers
  /\ handler = "any" => made <= AnyOut
  /\ EchoInv /\ RepeatInv /\ FileInv

-----------------------------------------------------------------------------
(* Lemmas *)

(* A non-empty set of naturals has a least element: Min is one of the set.  *)
LessThan == OpToRel(<, Nat)

LEMMA LeastIsThere ==
  ASSUME NEW T \in SUBSET Nat, T # {}
  PROVE  Min(T) \in T
<1>1. IsWellFoundedOn(LessThan, Nat)
  BY NatLessThanWellFounded DEF LessThan
<1>2. LessThan = {ss \in Nat \X Nat : ss[1] < ss[2]}
  BY Zenon DEF LessThan, OpToRel
<1>3. PICK m \in T : \A n \in T : <<n, m>> \notin LessThan
  BY <1>1, WFMin
<1>4. ASSUME NEW n \in T PROVE m <= n
  <2>1. m \in Nat /\ n \in Nat /\ <<n, m>> \notin LessThan
    BY <1>3
  <2> QED
    BY <1>2, <2>1
<1> QED
  BY <1>4 DEF Min

LEMMA Product ==
  ASSUME NEW m \in Nat, NEW a \in Nat, NEW b \in Nat
  PROVE  /\ m * a \in Nat /\ m * (a + b) = m * a + m * b
         /\ m * a <= m * (a + b)
         /\ b >= 2 => m * (a + b) >= m * a + 2 * m
<1>1. m * a \in Nat /\ m * b \in Nat /\ m * (a + b) = m * a + m * b
  OBVIOUS
<1>2. ASSUME b >= 2 PROVE m * b >= 2 * m
  <2>1. PICK c \in Nat : b = 2 + c
    <3>1. b - 2 \in Nat /\ b = 2 + (b - 2)
      BY <1>2
    <3> QED
      BY <3>1
  <2>2. m * b = m * 2 + m * c /\ m * c \in Nat
    BY <2>1
  <2> QED
    BY <2>2
<1> QED
  BY <1>1, <1>2

(* A callback that fits the bound is one that ConnIO allows. *)
LEMMA CallbackAllowed ==
  ASSUME NEW n \in Nat, made \in Nat, made + n <= MaxOut, NEW f \in Results, NEW k \in 0 .. Len(recvBuf),
         OnConnected(n, f) \/ OnReceived(k, n, f) \/ GetMoreData(n, f)
  PROVE  Next
<1>1. n \in 0 .. MaxOut - made
  BY IOAssumption
<1> QED
  BY <1>1 DEF Next, Callbacks

LEMMA CompletionAllowed ==
  ASSUME NEW n \in Nat, made \in Nat, made + n <= MaxOut, NEW f \in Results, AioCompleted(n, f)
  PROVE  Next
<1>1. n \in 0 .. MaxOut - made
  BY IOAssumption
<1> QED
  BY <1>1 DEF Next, Completes

(* What the bounds and the invariant of ConnIO give. *)
LEMMA Sizes ==
  ASSUME IInv
  PROVE  /\ MaxIn \in Nat /\ MaxOut \in Nat /\ MaxFile \in Nat
         /\ made \in Nat /\ made <= MaxOut /\ used \in Nat /\ sent \in Nat
         /\ recvBuf \in Seq(1 .. MaxIn) /\ Len(recvBuf) \in Nat /\ Len(sendBuf) \in Nat
         /\ used + Len(recvBuf) <= MaxIn
         /\ fresh => Len(recvBuf) >= 1
<1>1. /\ recvBuf \in Seq(1 .. MaxIn) /\ Len(recvBuf) \in Nat /\ Len(inQ) \in Nat
      /\ Len(sendBuf) \in Nat
      /\ sent \in 0 .. MaxIn /\ made \in 0 .. MaxOut
  BY DEF IInv, TypeOK
<1>2. used \in Nat
  BY IOAssumption DEF IInv, TypeOK
<1>3. sent = used + Len(recvBuf) + Len(inQ)
  BY DEF IInv, InOrder
<1>4. fresh => Len(recvBuf) >= 1
  BY <1>1 DEF IInv, Space
<1> QED
  BY <1>1, <1>2, <1>3, <1>4, IOAssumption, TestTcpAssumption

-----------------------------------------------------------------------------
(* Each handler keeps to ConnIO, and to its invariant. *)

LEMMA AnyHandlerStep ==
  ASSUME IInv, TInv, AnyHandler \/ AnyCompleted, UNCHANGED handler
  PROVE  Next /\ TInv'
<1>1. /\ handler = "any" /\ handler' = "any" /\ UNCHANGED <<count, index, opened, tasks>>
      /\ AnyOut \in Nat /\ AnyOut <= MaxOut /\ made \in Nat /\ made <= AnyOut
  BY Sizes, TestTcpAssumption DEF AnyHandler, AnyCompleted, ctxVars, TInv
<1>2. PICK n \in 0 .. AnyOut - made, f \in Results :
        \/ OnConnected(n, f)
        \/ \E k \in 0 .. Len(recvBuf) : OnReceived(k, n, f)
        \/ GetMoreData(n, f)
        \/ AioCompleted(n, f)
  BY DEF AnyHandler, AnyCompleted, Callbacks, Completes
<1>3. n \in Nat /\ made + n <= AnyOut /\ made + n <= MaxOut
  BY <1>1, IOAssumption
<1>4. Next
  <2>1. 0 \in 0 .. Len(recvBuf)
    BY Sizes
  <2> QED
    BY <1>1, <1>2, <1>3, <2>1, CallbackAllowed, CompletionAllowed
<1>5. made' = made + n
  BY <1>2 DEF OnConnected, OnReceived, GetMoreData, AioCompleted, Appends
<1> QED
  BY <1>1, <1>3, <1>4, <1>5 DEF TInv, EchoInv, RepeatInv, FileInv

LEMMA DefaultConnectedStep ==
  ASSUME IInv, TInv, DefaultConnected, UNCHANGED handler
  PROVE  Next /\ TInv'
<1>1. /\ handler \in {"echo", "file"} /\ OnConnected(0, {})
      /\ UNCHANGED <<origin, count, index, opened, tasks>>
  BY DEF DefaultConnected, ctxVars
<1>2. /\ 0 \in 0 .. Len(recvBuf) /\ made + 0 <= MaxOut /\ made \in Nat /\ 0 \in Nat
      /\ {} \in Results
  BY Sizes DEF Results
<1>3. Next
  BY <1>1, <1>2, CallbackAllowed
<1>4. made' = made /\ used' = used
  BY <1>1, <1>2 DEF OnConnected, Appends
<1> QED
  BY <1>1, <1>3, <1>4 DEF TInv, EchoInv, RepeatInv, FileInv

LEMMA EchoStep ==
  ASSUME IInv, TInv, Echo, UNCHANGED handler
  PROVE  Next /\ TInv'
<1> DEFINE len == Len(recvBuf)
<1>1. /\ handler = "echo" /\ handler' = "echo" /\ OnReceived(len, 1 + len, {})
      /\ origin' = origin \o <<0>> \o recvBuf
      /\ UNCHANGED <<count, index, opened, tasks>>
  BY DEF Echo, Cleared
<1>2. /\ len \in Nat /\ len >= 1 /\ used \in Nat /\ made \in Nat /\ used + len <= MaxIn
      /\ MaxIn \in Nat /\ MaxOut \in Nat /\ 2 * MaxIn <= MaxOut /\ made <= 2 * used
      /\ recvBuf \in Seq(1 .. MaxIn)
  BY <1>1, Sizes, TestTcpBounds DEF OnReceived, TInv, EchoInv
<1>3. /\ made' = made + (1 + len) /\ used' = used + len
  BY <1>1 DEF OnReceived, Appends
<1>4. Next
  <2>1. /\ 1 + len \in Nat /\ made + (1 + len) <= MaxOut /\ len \in 0 .. Len(recvBuf)
        /\ {} \in Results
    BY <1>2 DEF Results
  <2> QED
    BY <1>1, <1>2, <2>1, CallbackAllowed
<1>5. EchoInv'
  <2>1. origin \in Seq(0 .. MaxIn) /\ Len(origin) = made
    BY <1>1 DEF TInv, EchoInv
  <2>2. recvBuf \in Seq(0 .. MaxIn) /\ <<0>> \in Seq(0 .. MaxIn)
    <3>1. \A i \in 1 .. Len(recvBuf) : recvBuf[i] \in 0 .. MaxIn
      BY <1>2
    <3> QED
      BY <1>2, <3>1
  <2>3. origin' \in Seq(0 .. MaxIn) /\ Len(origin') = made + 1 + len
    <3>1. origin \o <<0>> \in Seq(0 .. MaxIn) /\ Len(origin \o <<0>>) = made + 1
      BY <2>1, <2>2, ConcatProperties
    <3> QED
      BY <1>1, <2>2, <3>1, ConcatProperties
  <2>4. made' <= 2 * used' /\ made + 1 + len = made'
    BY <1>2, <1>3
  <2> QED
    BY <2>3, <2>4 DEF EchoInv
<1> QED
  BY <1>1, <1>4, <1>5 DEF TInv, RepeatInv, FileInv

LEMMA RepeatConnectedStep ==
  ASSUME IInv, TInv, RepeatConnected, UNCHANGED handler
  PROVE  Next /\ TInv'
<1>1. /\ handler = "repeat" /\ handler' = "repeat" /\ OnConnected(1, {})
      /\ UNCHANGED <<origin, count, index, opened, tasks>>
  BY DEF RepeatConnected, ctxVars
<1>2. pc = "connected" /\ pc' \in {"greet", "greeted"} /\ flags' = {}
  BY <1>1 DEF OnConnected
<1>3. /\ 0 \in 0 .. Len(recvBuf) /\ made + 1 <= MaxOut /\ made \in Nat /\ {} \in Results
  BY <1>1, <1>2, Sizes, TestTcpBounds DEF TInv, RepeatInv, Results
<1>4. Next
  BY <1>1, <1>3, CallbackAllowed
<1>5. RepeatInv'
  <2>1. /\ index' = count' /\ index' \in 0 .. count' /\ count' \in 0 .. MaxCount
    BY <1>1, <1>2 DEF TInv, RepeatInv
  <2>2. ~(index' < count')
    BY <2>1, TestTcpAssumption
  <2> QED
    BY <1>1, <1>2, <2>1, <2>2 DEF RepeatInv
<1> QED
  BY <1>1, <1>4, <1>5 DEF TInv, EchoInv, FileInv

LEMMA RepeatReceivedStep ==
  ASSUME IInv, TInv, RepeatReceived, UNCHANGED handler
  PROVE  Next /\ TInv'
<1> DEFINE len == Len(recvBuf)
<1>1. PICK n \in 1 .. MaxCount :
        /\ made + n + MaxIn - (used + len) <= MaxOut
        /\ count' = n /\ index' = 1
        /\ OnReceived(len, 1, NextAnswer(1, n))
  BY DEF RepeatReceived, Parsed
<1>2. handler = "repeat" /\ handler' = "repeat" /\ UNCHANGED <<origin, opened, tasks>>
  BY DEF RepeatReceived
<1>3. /\ n \in Nat /\ n >= 1 /\ len \in Nat /\ used \in Nat /\ made \in Nat /\ used + len <= MaxIn
      /\ MaxIn \in Nat /\ MaxOut \in Nat
      /\ NextAnswer(1, n) \in Results /\ ("more" \in NextAnswer(1, n) <=> 1 < n)
  BY Sizes, TestTcpAssumption DEF NextAnswer, More, Results
<1>4. Next
  <2>1. made + 1 <= MaxOut /\ len \in 0 .. Len(recvBuf) /\ 1 \in Nat
    BY <1>1, <1>3
  <2> QED
    BY <1>1, <1>3, <2>1, CallbackAllowed
<1>5. /\ pc = "received" /\ pc' = "received" /\ fresh' = FALSE /\ flags' = NextAnswer(1, n)
      /\ made' = made + 1 /\ used' = used + len
  BY <1>1 DEF OnReceived, Appends
<1>6. Pending' > 0
  <2>1. 1 \in 0 .. MaxOut - made
    BY <1>1, <1>3
  <2>2. Pending' = Pending + 1 /\ Pending \in Nat
    BY <1>1, <2>1, Appended DEF IInv, TypeOK, Pending, OnReceived, kernelVars, peerVars
  <2> QED
    BY <2>2
<1>7. RepeatInv'
  <2>1. made' + (count' - index') + MaxIn - used' <= MaxOut
    BY <1>1, <1>3, <1>5
  <2>2. index' \in 0 .. count' /\ count' \in 0 .. MaxCount /\ (index' < count' <=> "more" \in flags')
    BY <1>1, <1>3, <1>5
  <2> QED
    BY <1>2, <1>5, <1>6, <2>1, <2>2 DEF RepeatInv, Underway
<1> QED
  BY <1>2, <1>4, <1>7 DEF TInv, EchoInv, FileInv

LEMMA RepeatMoreStep ==
  ASSUME IInv, TInv, RepeatMore, UNCHANGED handler
  PROVE  Next /\ TInv'
<1> DEFINE answer == NextAnswer(index + 1, count)
<1>1. /\ handler = "repeat" /\ handler' = "repeat" /\ UNCHANGED <<origin, count, opened, tasks>>
      /\ index' = index + 1 /\ GetMoreData(1, answer)
  BY DEF RepeatMore
<1>2. /\ pc \in {"greetMore", "sendMore"} /\ flags' = answer
      /\ made' = made + 1 /\ used' = used
      /\ Pending + 1 > 0 => pc' = IF pc = "greetMore" THEN "greet" ELSE "send"
  BY <1>1 DEF GetMoreData, Appends
<1>3. /\ index \in Nat /\ count \in Nat /\ count <= MaxCount /\ index < count
      /\ pc = "sendMore" /\ made + (count - index) + MaxIn - used <= MaxOut
  BY <1>1, <1>2, TestTcpAssumption DEF TInv, RepeatInv, Underway
<1>4. /\ made \in Nat /\ used \in Nat /\ used <= MaxIn /\ MaxIn \in Nat /\ MaxOut \in Nat
      /\ Pending \in Nat
  BY Sizes DEF IInv, TypeOK, Pending
<1>5. answer \in Results /\ ("more" \in answer <=> index + 1 < count)
  BY DEF NextAnswer, More, Results
<1>6. Next
  <2>1. made + 1 <= MaxOut /\ 0 \in 0 .. Len(recvBuf) /\ 1 \in Nat
    BY <1>3, <1>4, Sizes
  <2> QED
    BY <1>1, <1>4, <1>5, <2>1, CallbackAllowed
<1>7. RepeatInv'
  <2>1. made' + (count' - index') + MaxIn - used' <= MaxOut /\ index' \in 0 .. count'
    BY <1>1, <1>2, <1>3, <1>4
  <2>2. pc' = "send"
    BY <1>2, <1>3, <1>4
  <2>3. count' \in 0 .. MaxCount /\ (index' < count' <=> "more" \in flags')
    BY <1>1, <1>2, <1>5 DEF TInv, RepeatInv
  <2> QED
    BY <1>1, <2>1, <2>2, <2>3 DEF RepeatInv, Underway
<1> QED
  BY <1>1, <1>6, <1>7 DEF TInv, EchoInv, FileInv

(* The line that "file" takes is in recv_buf. *)
LEMMA LineIsThere ==
  ASSUME IInv, Lines # {}
  PROVE  Min(Lines) \in 1 .. Len(recvBuf)
<1>1. Lines \in SUBSET Nat /\ Lines \subseteq 1 .. Len(recvBuf)
  BY Sizes, SMTT(30) DEF Lines
<1> QED
  BY <1>1, LeastIsThere

LEMMA FileReceivedStep ==
  ASSUME IInv, TInv, FileWaits \/ FileRefused \/ FileRead, UNCHANGED handler
  PROVE  Next /\ TInv'
<1>1. /\ handler = "file" /\ handler' = "file" /\ UNCHANGED <<origin, count, index>>
  BY DEF FileWaits, FileRefused, FileRead, ctxVars
<1>2. /\ made \in Nat /\ made + 0 <= MaxOut /\ 0 \in Nat /\ used \in Nat /\ MaxFile \in Nat
      /\ Len(recvBuf) \in Nat /\ {} \in Results
  BY Sizes DEF Results
<1>3. PICK k \in 0 .. Len(recvBuf) :
        /\ OnReceived(k, 0, {})
        /\ FileRead => k = Min(Lines)
  <2>1. CASE FileWaits /\ ~FileRead
    BY <1>2, <2>1 DEF FileWaits
  <2>2. CASE FileRefused \/ FileRead
    <3>1. Lines # {} /\ OnReceived(Min(Lines), 0, {})
      BY <2>2 DEF FileRefused, FileRead
    <3>2. Min(Lines) \in 0 .. Len(recvBuf)
      BY <3>1, LineIsThere
    <3> QED
      BY <3>1, <3>2
  <2> QED
    BY <2>1, <2>2
<1>4. Next
  BY <1>2, <1>3, CallbackAllowed
<1>5. k \in Nat /\ made' = made /\ used' = used + k
  BY <1>2, <1>3 DEF OnReceived, Appends
<1>6. /\ MaxFile * used \in Nat /\ MaxFile * used <= MaxFile * used'
      /\ k >= 2 => MaxFile * used' >= MaxFile * used + 2 * MaxFile
  BY <1>2, <1>5, Product
<1>7. FileInv'
  <2>1. CASE FileRead
    <3>1. k >= 2
      <4>1. Min(Lines) > 1 /\ Min(Lines) = k
        BY <1>3, <2>1 DEF FileRead
      <4> QED
        BY <1>5, <4>1
    <3>2. tasks = <<>> /\ opened' = TRUE /\ 2 * made <= MaxFile * used
      BY <1>1, <2>1 DEF FileRead, TInv, FileInv
    <3>3. PICK size \in 0 .. MaxFile : tasks' = Append(tasks, [at |-> Len(sendBuf), size |-> size])
      BY <2>1 DEF FileRead
    <3>4. tasks' \in Seq([at : Nat, size : 0 .. MaxFile]) /\ Len(tasks') = 1
      BY <3>2, <3>3, Sizes
    <3>5. 2 * made' + 2 * MaxFile <= MaxFile * used'
      BY <1>2, <1>5, <1>6, <3>1, <3>2
    <3> QED
      BY <3>2, <3>4, <3>5 DEF FileInv
  <2>2. CASE ~FileRead
    <3>1. UNCHANGED <<opened, tasks>>
      BY <2>2 DEF FileWaits, FileRefused, ctxVars
    <3>2. /\ ~opened => 2 * made' <= MaxFile * used'
          /\ opened => 2 * made' + 2 * MaxFile <= MaxFile * used'
      <4>1. MaxFile * used' \in Nat
        BY <1>2, <1>5, Product
      <4>2. /\ ~opened => 2 * made <= MaxFile * used
            /\ opened => 2 * made + 2 * MaxFile <= MaxFile * used
        BY <1>1 DEF TInv, FileInv
      <4> QED
        BY <1>2, <1>5, <1>6, <4>1, <4>2
    <3> QED
      BY <3>1, <3>2 DEF TInv, FileInv
  <2> QED
    BY <2>1, <2>2
<1> QED
  BY <1>1, <1>4, <1>7 DEF TInv, EchoInv, RepeatInv

LEMMA FileCompletedStep ==
  ASSUME IInv, TInv, FileCompleted, UNCHANGED handler
  PROVE  Next /\ TInv'
<1>1. /\ handler = "file" /\ handler' = "file" /\ UNCHANGED <<origin, count, index>>
      /\ tasks # <<>> /\ opened' = FALSE /\ tasks' = Tail(tasks)
  BY DEF FileCompleted
<1>2. /\ opened /\ Len(tasks) = 1 /\ tasks \in Seq([at : Nat, size : 0 .. MaxFile])
      /\ 2 * made + 2 * MaxFile <= MaxFile * used
      /\ handler \in Handlers
  BY <1>1 DEF TInv, FileInv
<1>3. /\ made \in Nat /\ used \in Nat /\ MaxFile \in Nat /\ MaxIn \in Nat /\ MaxOut \in Nat
      /\ used <= MaxIn
  BY Sizes
<1>4. PICK n \in Nat, f \in Results : n <= MaxFile /\ AioCompleted(n, f)
  <2>1. Head(tasks) \in [at : Nat, size : 0 .. MaxFile]
    BY <1>1, <1>2, HeadTailProperties
  <2> QED
    BY <1>3, <2>1 DEF FileCompleted, Results
<1>5. 2 * made + 2 * n <= MaxFile * used /\ MaxFile * used <= 2 * MaxOut
  <2>1. MaxFile * used \in Nat /\ MaxFile * used <= MaxFile * MaxIn
    <3>1. MaxIn - used \in Nat /\ used + (MaxIn - used) = MaxIn
      BY <1>3
    <3> QED
      BY <1>3, <3>1, Product
  <2>2. MaxFile * MaxIn <= 2 * MaxOut
    BY <1>1, <1>2, TestTcpBounds
  <2>3. MaxFile * MaxIn \in Nat
    BY <1>3, Product
  <2> QED
    BY <1>2, <1>3, <1>4, <2>1, <2>2, <2>3
<1>6. made' = made + n /\ used' = used
  BY <1>4 DEF AioCompleted, Appends
<1>7. Next
  <2>1. MaxFile * used \in Nat
    BY <1>3, Product
  <2>2. made + n <= MaxOut
    BY <1>3, <1>5, <2>1
  <2> QED
    BY <1>3, <1>4, <2>2, CompletionAllowed
<1>8. FileInv'
  <2>1. tasks' = <<>>
    <3> DEFINE S == [at : Nat, size : 0 .. MaxFile]
    <3> HIDE DEF S
    <3>1. tasks \in Seq(S) /\ tasks # <<>> /\ Len(tasks) = 1
      BY <1>1, <1>2 DEF S
    <3>2. Tail(tasks) \in Seq(S) /\ Len(Tail(tasks)) = 0
      BY <3>1, HeadTailProperties
    <3> QED
      BY <1>1, <3>2, EmptySeq
  <2>2. 2 * made' <= MaxFile * used'
    BY <1>3, <1>5, <1>6
  <2>3. <<>> \in Seq([at : Nat, size : 0 .. MaxFile])
    OBVIOUS
  <2> QED
    BY <1>1, <2>1, <2>2, <2>3 DEF FileInv
<1> QED
  BY <1>1, <1>7, <1>8 DEF TInv, EchoInv, RepeatInv

-----------------------------------------------------------------------------
(* The library and the peer leave the handler's own state alone, and        *)
(* "repeat" on its way.                                                     *)

LEMMA LibraryStep ==
  ASSUME IInv, TInv, Library, UNCHANGED <<handler, ctxVars>>
  PROVE  TInv'
<1>1. /\ UNCHANGED <<handler, origin, count, index, opened, tasks>>
      /\ UNCHANGED <<flags, made, used>>
      /\ pc # "connected" /\ pc' # "connected"
  BY DEF IInv, TypeOK, ctxVars, Library, Reported, EventIn, EventNone, RecvSome, RecvZero, RecvAgain,
         AfterReceived, EventOut, SendSome, SendAgain, SendDone, AfterSend, Fails, NextRead,
         loopVars, handlerVars, ArmAfter, Register
<1>2. pc' \in {"greetMore", "sendMore"} => "more" \in flags
  <2>1. pc \notin {"greetMore", "sendMore"}
    BY DEF Library, Reported, EventIn, EventNone, RecvSome, RecvZero, RecvAgain,
           AfterReceived, EventOut, SendSome, SendAgain, SendDone, AfterSend, Fails, loopVars
  <2> QED
    BY <2>1 DEF IInv, TypeOK, Library, Reported, EventIn, EventNone, RecvSome, RecvZero, RecvAgain,
         AfterReceived, EventOut, SendSome, SendAgain, SendDone, AfterSend, Fails, NextRead,
         loopVars, AsksMore
<1>3. ASSUME Underway, "more" \in flags PROVE Underway'
  <2>1. CASE Reported
    <3>1. mask = "out" /\ pc' = "out"
      BY <1>3, <2>1 DEF Reported, Underway, IInv, TypeOK, Armed
    <3> QED
      BY <3>1 DEF Underway
  <2>2. CASE EventNone \/ AfterReceived \/ AfterSend
    <3>1. UNCHANGED Pending
      BY <2>2 DEF EventNone, AfterReceived, AfterSend, bufVars, Pending
    <3> QED
      BY <1>3, <2>2, <3>1 DEF Underway, EventNone, AfterReceived, AfterSend, loopVars
  <2>3. CASE EventOut \/ SendSome \/ SendDone \/ Fails
    BY <1>3, <2>3 DEF Underway, EventOut, SendSome, SendDone, Fails, loopVars, AsksMore
  <2>4. CASE SendAgain
    <3>1. Pending' > 0 /\ pc' \in {"flushed", "greeted"} /\ pc = "send" => pc' = "flushed"
      BY <2>4 DEF SendAgain, bufVars, Pending
    <3>2. pc = "send" /\ pc' = "flushed"
      BY <1>3, <2>4 DEF SendAgain, Underway
    <3> QED
      BY <3>1, <3>2, <2>4 DEF Underway, SendAgain, bufVars, Pending
  <2>5. CASE EventIn \/ RecvSome \/ RecvZero \/ RecvAgain
    BY <1>3, <2>5 DEF Underway, EventIn, RecvSome, RecvZero, RecvAgain
  <2> QED
    BY <2>1, <2>2, <2>3, <2>4, <2>5 DEF Library
<1> QED
  BY <1>1, <1>2, <1>3 DEF TInv, EchoInv, RepeatInv, FileInv

LEMMA PeerStep ==
  ASSUME IInv, TInv, Peer \/ Terminated \/ UNCHANGED vars, UNCHANGED <<handler, ctxVars>>
  PROVE  TInv'
<1>1. UNCHANGED <<loopVars, bufVars, handlerVars>>
  BY DEF Peer, PeerSends, PeerReads, PeerCloses, PeerResets, Terminated, vars
<1> QED
  BY <1>1 DEF TInv, EchoInv, RepeatInv, FileInv, Underway, Pending, ctxVars, loopVars, bufVars,
              handlerVars

-----------------------------------------------------------------------------
LEMMA TcpInitInv == TcpInit => Init /\ IInv /\ TInv
<1> SUFFICES ASSUME TcpInit PROVE Init /\ IInv /\ TInv
  OBVIOUS
<1>1. Init /\ IInv
  BY InitIInv DEF TcpInit
<1>2. EchoInv /\ RepeatInv
  <2>1. <<>> \in Seq(0 .. MaxIn) /\ Len(<<>>) = 0 /\ 0 \in 0 .. 0 /\ 0 \in 0 .. MaxCount
    BY TestTcpAssumption
  <2> QED
    BY <2>1, TestTcpAssumption DEF TcpInit, Init, EchoInv, RepeatInv
<1>3. FileInv
  <2>1. <<>> \in Seq([at : Nat, size : 0 .. MaxFile])
    OBVIOUS
  <2>2. 2 * 0 <= MaxFile * 0
    BY TestTcpAssumption
  <2>3. made = 0 /\ used = 0 /\ opened = FALSE /\ tasks = <<>>
    BY DEF TcpInit, Init
  <2> QED
    BY <2>1, <2>2, <2>3 DEF FileInv
<1>4. 0 <= AnyOut
  BY TestTcpAssumption, IOAssumption
<1> QED
  BY <1>1, <1>2, <1>3, <1>4 DEF TInv, TcpInit, Init

LEMMA TcpNextInv ==
  ASSUME IInv, TInv, [TcpNext]_tcpVars
  PROVE  [Next]_vars /\ IInv' /\ TInv'
<1>1. ASSUME TcpNext PROVE [Next]_vars /\ TInv'
  <2>0. UNCHANGED handler
    BY <1>1 DEF TcpNext
  <2>1. CASE AnyHandler \/ AnyCompleted
    BY <2>0, <2>1, AnyHandlerStep
  <2>2. CASE Demo
    BY <2>0, <2>2, DefaultConnectedStep, EchoStep, RepeatConnectedStep, RepeatReceivedStep,
       RepeatMoreStep, FileReceivedStep DEF Demo
  <2>3. CASE Library /\ UNCHANGED ctxVars
    BY <2>0, <2>3, LibraryStep DEF Next
  <2>4. CASE FileCompleted
    BY <2>0, <2>4, FileCompletedStep
  <2>5. CASE (Peer \/ Terminated) /\ UNCHANGED ctxVars
    BY <2>0, <2>5, PeerStep DEF Next
  <2> QED
    BY <1>1, <2>1, <2>2, <2>3, <2>4, <2>5 DEF TcpNext, TcpLoop
<1>2. ASSUME UNCHANGED tcpVars PROVE [Next]_vars /\ TInv'
  BY <1>2, PeerStep DEF tcpVars
<1> QED
  BY <1>1, <1>2, NextIInv

THEOREM TcpInvariant == TcpSpec => [](IInv /\ TInv)
<1>1. TcpInit => IInv /\ TInv
  BY TcpInitInv
<1>2. (IInv /\ TInv) /\ [TcpNext]_tcpVars => (IInv /\ TInv)'
  BY TcpNextInv
<1> QED
  BY <1>1, <1>2, PTL DEF TcpSpec

-----------------------------------------------------------------------------
(* A connection of testtcp is a connection of ConnIO: what the handlers do  *)
(* is what conn_event_t allows, so that every theorem of ConnIOProofs holds *)
(* of them.                                                                 *)
THEOREM TcpImplementsConnIO == TcpSpec => Spec
<1>1. TcpInit => Init
  BY TcpInitInv
<1>2. (IInv /\ TInv) /\ [TcpNext]_tcpVars => [Next]_vars
  BY TcpNextInv
<1> QED
  BY <1>1, <1>2, TcpInvariant, PTL DEF TcpSpec, Spec

(* The contexts of the handlers keep their types: the index of "repeat"     *)
(* stays within the count, and the prefix and the copy of "echo" are all    *)
(* that it sends.                                                           *)
THEOREM TcpTypeCorrect == TcpSpec => []TcpTypeOK
<1>1. IInv /\ TInv => TcpTypeOK
  <2> SUFFICES ASSUME IInv, TInv PROVE TcpTypeOK
    OBVIOUS
  <2>1. \A i \in DOMAIN tasks : tasks[i].at \in Nat /\ tasks[i].size \in 0 .. MaxFile
    <3>1. \A i \in DOMAIN tasks : tasks[i] \in [at : Nat, size : 0 .. MaxFile]
      <4> DEFINE S == [at : Nat, size : 0 .. MaxFile]
      <4>1. tasks \in Seq(S)
        BY DEF TInv, FileInv
      <4> HIDE DEF S
      <4>2. \A i \in DOMAIN tasks : tasks[i] \in S
        BY <4>1, LenProperties, ElementOfSeq
      <4> QED
        BY <4>2 DEF S
    <3> QED
      BY <3>1
  <2> QED
    BY <2>1 DEF IInv, TInv, EchoInv, RepeatInv, FileInv, TcpTypeOK
<1> QED
  BY <1>1, TcpInvariant, PTL

(* "repeat" answers a request with as many lines as it asks for: its        *)
(* context is not replaced, and it does not wait for the peer, while lines  *)
(* are left.                                                                *)
THEOREM LinesAreAsAsked == TcpSpec => []LinesAsAsked
<1>1. IInv /\ TInv => LinesAsAsked
  <2> SUFFICES ASSUME IInv, TInv,
                      \/ pc = "wait" /\ Pending = 0
                      \/ pc = "received" /\ fresh
               PROVE  index = count
    BY DEF LinesAsAsked
  <2>1. index \in 0 .. count /\ count \in 0 .. MaxCount /\ handler # "repeat" => count = 0
    BY DEF TInv, RepeatInv
  <2>2. ~(index < count)
    BY <2>1 DEF TInv, RepeatInv, Underway
  <2> QED
    BY <2>2, TestTcpAssumption DEF TInv, RepeatInv
<1> QED
  BY <1>1, TcpInvariant, PTL

(* The guarantees of conn_t and acceptor_t for each of the handlers: both   *)
(* streams intact, no edge lost, no end of stream made up.                  *)
THEOREM TcpStreams == TcpSpec => [](StreamIn /\ StreamOut /\ NoLostWakeup /\ PeerClosedIsReal)
BY TcpImplementsConnIO, StreamInIntact, StreamOutIntact, NoWakeupIsLost, CloseIsReal, PTL
=============================================================================
