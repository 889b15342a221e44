------------------------------ MODULE TestTcp -------------------------------
(***************************************************************************)
(* The demo program testtcp (testtcp/main.cpp): its three handlers on a    *)
(* connection of ConnIO.  "echo" is a lambda behind conn_event_adapter_t,  *)
(* whose other callbacks keep the adapter's defaults; "repeat" is          *)
(* my_event_handler_t with its context my_context_t; "file" reads the file *)
(* that the peer names in a line into send_buf, with aio_read().           *)
(*                                                                         *)
(* "any" is a handler that does whatever conn_event_t allows, as in        *)
(* ConnIO, where the peer's bytes and the handler's have numbers.  A line  *)
(* of output and a prefix are one byte each.                               *)
(***************************************************************************)
EXTENDS ConnIO, FiniteSetsExt

CONSTANTS
  Handlers,   \* the handlers of this instance
  AnyOut,     \* bound: bytes that "any" sends
  MaxCount,   \* bound: lines asked of "repeat" at once
  MaxFile,    \* bound: the size of a file
  LineEnds    \* the bytes of the peer that are '\n'

ASSUME TestTcpAssumption ==
  /\ Handlers \subseteq {"any", "echo", "repeat", "file"}
  /\ AnyOut \in 0 .. MaxOut /\ MaxCount \in Nat \ {0} /\ MaxFile \in Nat
  /\ LineEnds \subseteq 1 .. MaxIn

(* MaxOut covers whatever a handler answers to MaxIn bytes: "echo" at most  *)
(* two bytes for each, "repeat" its greeting, "file" one file for a line of *)
(* at least two.                                                            *)
ASSUME TestTcpBounds ==
  /\ "echo" \in Handlers => 2 * MaxIn <= MaxOut
  /\ "repeat" \in Handlers => 1 <= MaxOut
  /\ "file" \in Handlers => MaxFile * MaxIn <= 2 * MaxOut

VARIABLES
  handler,   \* argv[1]
  origin,    \* history of "echo": the peer's byte each byte sent is a copy of, 0 for its own
  count,     \* my_context_t::m_count
  index,     \* my_context_t::m_index
  opened,    \* file_ctx_t::m_fd is open
  tasks      \* running aio_read() tasks: the place in send_buf, the size of the file

ctxVars == <<origin, count, index, opened, tasks>>
tcpVars == <<vars, handler, ctxVars>>

TcpInit ==
  /\ Init
  /\ handler \in Handlers
  /\ origin = <<>>
  /\ count = 0 /\ index = 0
  /\ opened = FALSE /\ tasks = <<>>

-----------------------------------------------------------------------------
(* Any handler *)

AnyHandler ==
  /\ handler = "any"
  /\ Callbacks(AnyOut)
  /\ UNCHANGED ctxVars

AnyCompleted ==
  /\ handler = "any"
  /\ Completes(AnyOut)
  /\ UNCHANGED ctxVars

-----------------------------------------------------------------------------
(* echo *)

(* conn_event_adapter_t without an on_connected function. *)
DefaultConnected ==
  /\ handler \in {"echo", "file"}
  /\ OnConnected(0, {})
  /\ UNCHANGED ctxVars

(* Mutant of Cleared: the data stays in recv_buf. *)
Uncleared == 0

(* recv_buf.clear() *)
Cleared == Len(recvBuf)

(* send_buf << "[Echo] " << recv_buf *)
Echo ==
  /\ handler = "echo"
  /\ OnReceived(Cleared, 1 + Len(recvBuf), {})
  /\ origin' = origin \o <<0>> \o recvBuf
  /\ UNCHANGED <<count, index, opened, tasks>>

-----------------------------------------------------------------------------
(* repeat *)

(* on_connected() greets. *)
RepeatConnected ==
  /\ handler = "repeat"
  /\ OnConnected(1, {})
  /\ UNCHANGED ctxVars

(* Mutant of More: one line too many. *)
MoreOrEqual(i, n) == i <= n

(* my_context_t::more() *)
More(i, n) == i < n

(* The answer of on_received() and get_more_data() after next(). *)
NextAnswer(i, n) == IF More(i, n) THEN {"more"} ELSE {}

(* parse(): a positive number from the data, or 1.  Bound: MaxCount. *)
Parsed == 1 .. MaxCount

(* on_received(): parse() gives the number of lines, all of recv_buf is     *)
(* dropped and next() sends the first line.  Bound: MaxOut leaves a line    *)
(* for everything the peer may yet send.                                    *)
RepeatReceived ==
  /\ handler = "repeat"
  /\ \E n \in Parsed :
       /\ made + n + MaxIn - (used + Len(recvBuf)) <= MaxOut
       /\ count' = n /\ index' = 1
       /\ OnReceived(Len(recvBuf), 1, NextAnswer(1, n))
  /\ UNCHANGED <<origin, opened, tasks>>

(* get_more_data() *)
RepeatMore ==
  /\ handler = "repeat"
  /\ index' = index + 1
  /\ GetMoreData(1, NextAnswer(index + 1, count))
  /\ UNCHANGED <<origin, count, opened, tasks>>

-----------------------------------------------------------------------------
(* file *)

(* fast_str_t::getline(): the positions of recv_buf at which a line ends. *)
Lines == {i \in DOMAIN recvBuf : recvBuf[i] \in LineEnds}

(* The previous file is still being read, or there is no line: nothing is   *)
(* taken from recv_buf.                                                     *)
FileWaits ==
  /\ handler = "file"
  /\ opened \/ Lines = {}
  /\ OnReceived(0, 0, {})
  /\ UNCHANGED ctxVars

(* The line is empty, or names no regular file, or open() or aio_read()     *)
(* fails: the line is dropped.                                              *)
FileRefused ==
  /\ handler = "file"
  /\ ~opened /\ Lines # {}
  /\ OnReceived(Min(Lines), 0, {})
  /\ UNCHANGED ctxVars

(* aio_read() into the free part of send_buf. *)
FileRead ==
  /\ handler = "file"
  /\ ~opened /\ Lines # {} /\ Min(Lines) > 1
  /\ opened' = TRUE
  /\ \E size \in 0 .. MaxFile : tasks' = Append(tasks, [at |-> Len(sendBuf), size |-> size])
  /\ OnReceived(Min(Lines), 0, {})
  /\ UNCHANGED <<origin, count, index>>

(* on_aio_completed(): the context is cleared, which closes the file; what  *)
(* was read becomes data to send, an error disconnects.                     *)
FileCompleted ==
  /\ handler = "file" /\ tasks # <<>>
  /\ opened' = FALSE
  /\ tasks' = Tail(tasks)
  /\ \/ \E n \in 0 .. Head(tasks).size : AioCompleted(n, {})
     \/ AioCompleted(0, {"disconnect"})
  /\ UNCHANGED <<origin, count, index>>

-----------------------------------------------------------------------------
Demo ==
  \/ DefaultConnected \/ Echo
  \/ RepeatConnected \/ RepeatReceived \/ RepeatMore
  \/ FileWaits \/ FileRefused \/ FileRead

TcpLoop == AnyHandler \/ Demo \/ (Library /\ UNCHANGED ctxVars)

TcpNext ==
  /\ \/ TcpLoop \/ AnyCompleted \/ FileCompleted
     \/ (Peer \/ Terminated) /\ UNCHANGED ctxVars
  /\ UNCHANGED handler

(* The loop runs, the peer reads what arrives, and a task completes. *)
TcpSpec ==
  /\ TcpInit /\ [][TcpNext]_tcpVars
  /\ WF_tcpVars(TcpLoop /\ UNCHANGED handler)
  /\ WF_tcpVars(~Closed /\ PeerReads /\ UNCHANGED <<handler, ctxVars>>)
  /\ WF_tcpVars(FileCompleted /\ UNCHANGED handler)

-----------------------------------------------------------------------------
(* Properties *)

(* Every variable has its type. *)
TcpTypeOK ==
  /\ TypeOK
  /\ handler \in Handlers
  /\ handler = "echo" => origin \in Seq(0 .. MaxIn) /\ Len(origin) = made
  /\ index \in 0 .. count /\ count \in 0 .. MaxCount
  /\ opened \in BOOLEAN
  /\ \A i \in DOMAIN tasks : tasks[i].at \in Nat /\ tasks[i].size \in 0 .. MaxFile

(* What came back to the peer of "echo". *)
Echoed == SelectSeq([i \in DOMAIN got |-> origin[got[i]]], LAMBDA b : b > 0)

(* echo: what the peer sends comes back, all of it, once and in order,      *)
(* unless the connection ends.                                              *)
EchoReturns == <>[](handler = "echo" => Closed \/ Echoed = Bytes(1, sent))

(* repeat: a request is answered with as many lines as it asks for, however *)
(* the socket takes them, before the next one replaces it in the context;   *)
(* on the way that needs every get_more_data() the handler asked for.       *)
LinesAsAsked ==
  /\ pc = "wait" /\ Pending = 0 => index = count
  /\ pc = "received" /\ fresh => index = count

(* "ALWAYS append data at the end" (conn_event.h:90-92): what aio_read()  *)
(* puts into send_buf is at its end when on_aio_completed() counts it in.   *)
FileAtEnd == \A i \in DOMAIN tasks : tasks[i].size > 0 => tasks[i].at = Len(sendBuf)
=============================================================================
