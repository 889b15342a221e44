---------------------------- MODULE HttpProcessor ----------------------------
(***************************************************************************)
(* http_processor_t (http_processor.cpp) on one connection object: what    *)
(* on_received() does with the requests of a client.  The event loop reads *)
(* only while nothing is to be sent, and calls on_received() only for new  *)
(* data (see ConnIO).  When a client has gone, the object is pooled with   *)
(* its http_conn_t and its buffers and serves another one (see Acceptor).  *)
(***************************************************************************)
EXTENDS HttpRequest, FiniteSets

CONSTANTS
  Scripts,      \* sequences of requests that clients send
  Patience,     \* whether clients wait for answers, a subset of BOOLEAN
  MaxMoves,     \* bound: allocations that move recv_buf
  Abandons      \* TRUE: a routine may return rest_result_t::abandon

(* What requests are made of. *)
Elements(seqs) == UNION {{s[i] : i \in DOMAIN s} : s \in seqs}
Alphabet == Elements(Elements(Scripts))

(* No request is empty. *)
ASSUME HttpProcessorAssumption ==
  /\ Scripts \subseteq Seq(Seq(Alphabet)) /\ <<>> \notin Elements(Scripts)
  /\ Patience \subseteq BOOLEAN /\ MaxMoves \in Nat

VARIABLES
  script,    \* the requests of this client
  patient,   \* it waits for each answer
  asked,     \* how many it has sent
  wire,      \* sent, not received yet
  recvBuf,   \* conn_t::m_recv_buf
  base,      \* its address
  req,       \* http_conn_t::m_request
  running,   \* a routine was called and has not returned yet
  pending,   \* the response is to be sent
  open,      \* the connection is open
  last,      \* the last call of continue_to_parse()
  answered   \* what the routines saw

client == <<script, patient>>
connVars == <<recvBuf, base, req>>
history == <<last, answered>>
vars == <<client, asked, wire, connVars, running, pending, open, history>>

NoCall == [buf |-> <<>>, res |-> "more", bytes |-> 0]

Init ==
  /\ script = <<>> /\ patient = FALSE
  /\ asked = 0 /\ wire = <<>>
  /\ recvBuf = <<>> /\ base = 1
  /\ req = Cleared
  /\ running = FALSE /\ pending = FALSE /\ open = FALSE
  /\ last = NoCall /\ answered = <<>>

(* A client is accepted on a connection object from the pool. *)
ClientComes ==
  /\ script = <<>>
  /\ script' \in Scripts /\ patient' \in Patience
  /\ open' = TRUE
  /\ UNCHANGED <<asked, wire, connVars, running, pending, history>>

ClientSends ==
  /\ open /\ asked < Len(script)
  /\ patient => Len(answered) = asked /\ ~running /\ ~pending
  /\ asked' = asked + 1
  /\ wire' = wire \o script[asked + 1]
  /\ UNCHANGED <<client, connVars, running, pending, open, history>>

-----------------------------------------------------------------------------
(* Mutants: of RequestCleared, the request is not cleared; of Erased,       *)
(* nothing is removed.                                                      *)
Uncleared(r) == r
NothingErased(buf, n) == buf

(* "Because `request' has some fast_str_t point to the recv buffer, we need *)
(* to clear `request' first."                                               *)
RequestCleared(r) == Cleared
Erased(buf, n) == SubSeq(buf, n + 1, Len(buf))

View(r, buf) ==
  [uri |-> Text(r.uri, buf, base'), version |-> Text(r.version, buf, base'),
   vars |-> Text(r.vars, buf, base'), hostname |-> Text(r.hostname, buf, base'),
   headers |-> [i \in DOMAIN r.headers |-> Text(r.headers[i], buf, base')],
   content |-> Text(r.content, buf, base')]

(* on_received() after continue_to_parse() returned r. *)
More(r) == r.res = "more" /\ UNCHANGED <<running, open, answered>>

Failed(r) ==
  /\ r.res = "failed"
  /\ open' = FALSE
  /\ UNCHANGED <<running, answered>>

(* process_i() calls the routine. *)
Parsed(r, buf) ==
  /\ r.res = "ok"
  /\ answered' = Append(answered, View(r, buf))
  /\ running' = TRUE
  /\ UNCHANGED open

(* What a look through a stale pointer may find. *)
Junk == IF MaxMoves = 0 THEN {0} ELSE 0 .. Huge

(* conn_t::recv() and on_received() for what has arrived; reading may move  *)
(* recv_buf.                                                                *)
Receive ==
  /\ open /\ ~running /\ ~pending
  /\ \E n \in 1 .. Len(wire), b \in {base, base + 1}, junk \in Junk :
       /\ b <= 1 + MaxMoves
       /\ wire' = SubSeq(wire, n + 1, Len(wire))
       /\ base' = b
       /\ \E buf \in {recvBuf \o SubSeq(wire, 1, n)} :
          \E r \in {ContinueToParse(req, buf, b, junk)} :
            /\ last' = [buf |-> buf, res |-> r.res,
                        bytes |-> IF r.res = "ok" THEN r.done ELSE 0]
            /\ req' = r /\ recvBuf' = buf
            /\ More(r) \/ Failed(r) \/ Parsed(r, buf)
  /\ UNCHANGED <<client, asked, pending>>

(* The routine returns rest_result_t::done. *)
RoutineDone ==
  /\ running /\ running' = FALSE
  /\ req' = RequestCleared(req)
  /\ recvBuf' = Erased(recvBuf, req.done)
  /\ pending' = TRUE
  /\ UNCHANGED <<client, asked, wire, base, open, history>>

(* It returns rest_result_t::abandon. *)
RoutineAbandons ==
  /\ Abandons
  /\ running /\ running' = FALSE
  /\ open' = FALSE
  /\ UNCHANGED <<client, asked, wire, connVars, pending, history>>

(* The response was sent. *)
Flush ==
  /\ open /\ pending
  /\ pending' = FALSE
  /\ UNCHANGED <<client, asked, wire, connVars, running, open, history>>

(* http_conn_t::clear() *)
ContextCleared(r) == Cleared

(* conn_t::close(): the client or the server has given up, at any moment.   *)
ConnClosed ==
  /\ script # <<>> /\ ~running
  /\ script' = <<>> /\ patient' = FALSE /\ asked' = 0 /\ wire' = <<>>
  /\ recvBuf' = <<>> /\ req' = ContextCleared(req)
  /\ pending' = FALSE /\ open' = FALSE
  /\ last' = NoCall /\ answered' = <<>>
  /\ UNCHANGED <<base, running>>

Next ==
  \/ ClientComes \/ ClientSends
  \/ Receive \/ RoutineDone \/ RoutineAbandons \/ Flush \/ ConnClosed

Spec == Init /\ [][Next]_vars

-----------------------------------------------------------------------------
(* Properties *)

(* Every variable has its type. *)
TypeOK ==
  /\ asked \in 0 .. Len(script)
  /\ base \in 1 .. MaxMoves + 1
  /\ req.step \in {"initial", "uri_done", "header_done", "content_done"}
  /\ running \in BOOLEAN /\ pending \in BOOLEAN /\ open \in BOOLEAN
  /\ last.res \in {"more", "failed", "ok"}

(* However a request is cut into packets, the resumed parser answers what   *)
(* a look at everything received so far answers, and takes as many bytes,   *)
(* as long as recv_buf has not moved.                                       *)
ResumedAsWhole ==
  base = 1 => [res |-> last.res, bytes |-> last.bytes] = Whole(last.buf)

(* "assert(recv_buf->size() >= this->m_processed_bytes)"                    *)
(* (http_request.cpp:73): the parser never believes to have parsed more     *)
(* than there is.                                                           *)
ParsedIsThere == open => req.done <= Len(recvBuf)

(* What the i-th routine call has to see: the i-th request, whole. *)
HeaderEnds(msg) ==
  {e \in LineEnds(msg) : e < Min(HeaderEnd(msg)) /\ ~LineAt(msg, e).first}

SeesItsRequest(v, msg) ==
  /\ v.uri = <<msg[1]>> /\ v.version = v.uri /\ v.vars = v.uri
  /\ HeaderEnd(msg) # {}
  /\ {v.headers[i] : i \in DOMAIN v.headers} =
       {LineAt(msg, e).text : e \in HeaderEnds(msg)}
  /\ Len(v.headers) = Cardinality(HeaderEnds(msg))
  /\ v.hostname = <<>> \/ v.hostname[1] = "host"
  /\ v.content = SubSeq(msg, Min(HeaderEnd(msg)) + 1, Whole(msg).bytes)

(* A client sends one complete request after the other.  What it sends last *)
(* may be anything, but after a request nothing that is another one.        *)
Rest(msg) == SubSeq(msg, Whole(msg).bytes + 1, Len(msg))
Framed(s) ==
  \A i \in DOMAIN s :
    IF i < Len(s) THEN Whole(s[i]) = [res |-> "ok", bytes |-> Len(s[i])]
    ELSE Whole(s[i]).res = "ok" => Whole(Rest(s[i])).res # "ok"
ScriptsAreFramed == \A s \in Scripts : Framed(s)

(* The routines see their client's requests, in order, each as it was sent, *)
(* whoever used the connection object before.  "`recv_buf' might have been  *)
(* re-allocated. If that's true, all `fast_str_t' will become invalid, need *)
(* to update." (http_request.cpp:79-80): the URI and the version survive    *)
(* it, the rest is stated as long as recv_buf has not moved.                *)
EachSeen ==
  \A i \in DOMAIN answered :
    /\ i <= asked
    /\ answered[i].uri = <<script[i][1]>> /\ answered[i].version = answered[i].uri
    /\ base = 1 => SeesItsRequest(answered[i], script[i])

(* "all `fast_str_t' will become invalid, need to update." *)
(* (http_request.cpp:79-80), of all of them. *)
AllFollowBuffer ==
  \A i \in DOMAIN answered :
    LET v == answered[i]
    IN  <<"junk">> \notin {v.vars, v.hostname} \cup {v.headers[j] : j \in DOMAIN v.headers}

(* "HTTP request is not fully received, wait for next TCP packet."          *)
(* (http_processor.cpp:42): when everything has arrived and nothing is to   *)
(* be sent, only an incomplete request is left in recv_buf, as long as that *)
(* has not moved.  on_received() is not called again before more arrives.   *)
NothingLeft ==
  open /\ ~running /\ ~pending /\ wire = <<>> /\ base = 1 => Whole(recvBuf).res = "more"

(* The same for a client that waits for its answers, as long as it has less *)
(* of them than requests: it is answered or disconnected, wherever its      *)
(* requests were cut.                                                       *)
AllAnswered == patient /\ Len(answered) < asked => NothingLeft

=============================================================================
