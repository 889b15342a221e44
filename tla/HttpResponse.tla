---------------------------- MODULE HttpResponse ----------------------------
(***************************************************************************)
(* http_response_t (http_response.cpp): how the calls of a routine become  *)
(* a response at the end of send_buf.  The status code and the content     *)
(* length are written early and patched in place later.                    *)
(*                                                                         *)
(* send_buf is a sequence of cells, a text and a number.  The status line  *)
(* is five of them: the version, the code, the word after it, "cr", "lf".  *)
(* A header line is one, and so are the empty line and a byte of content.  *)
(* The routine keeps to the order that http_response.h asks for: headers   *)
(* before content.                                                         *)
(***************************************************************************)
EXTENDS Integers, Sequences

CONSTANTS
  Codes,       \* status codes that routines set
  ErrorCodes,  \* those in 400 .. 599
  Configs,     \* what complete_header_i() depends on: sets of Options
  LongestLength,  \* the longest length that fits in the eight characters
  MaxCalls,    \* bound: calls of the routine
  MaxContent   \* bound: bytes of content

VARIABLES
  config,    \* the member of Configs that holds for this response
  buf,       \* send_buf
  old,       \* its size before
  resp,      \* the members of http_response_t
  calls,     \* calls of the routine so far
  said       \* what the routine asked for

responseVars == <<config, buf, old, resp, calls, said>>

Options == {"keepAlive", "date", "defaultType"}
Protected == {"Connection", "Content-Length", "Date", "Server"}
Names == {"Content-Type", "Other", "Server"}

Cell(text) == <<text, 0>>
Code(n) == <<"code", n>>
Length(n) == <<"Content-Length", n>>

(* http_response_t::clear() and attach() *)
Attached ==
  [code |-> 200, codePos |-> 0, headerPos |-> 0, lengthPos |-> 0, contentPos |-> 0,
   typeDone |-> FALSE]

NothingSaid == [code |-> 200, headers |-> <<>>, content |-> 0]

Off ==
  /\ config = {} /\ buf = <<>> /\ old = 0 /\ resp = Attached
  /\ calls = 0 /\ said = NothingSaid

(* The connection object has sent everything, or was closed. *)
TurnOff ==
  /\ config' = {} /\ buf' = <<>> /\ old' = 0 /\ resp' = Attached
  /\ calls' = 0 /\ said' = NothingSaid

-----------------------------------------------------------------------------
(* A response in the making: [buf, resp].  Positions count the cells that   *)
(* come before.                                                             *)
State == [buf |-> buf, resp |-> resp]

Push(s, cells) == [s EXCEPT !.buf = @ \o cells]

Word(code) == IF code \in ErrorCodes THEN Cell("ER") ELSE Cell("OK")

(* Mutant of Patched: the character that snprintf() ends with stays. *)
PatchedNul(b, pos, code) ==
  [b EXCEPT ![pos + 1] = Code(code), ![pos + 2] = Word(code), ![pos + 3] = Cell("nul")]

(* snprintf() over the code and the word, then '\r' again. *)
Patched(b, pos, code) ==
  [b EXCEPT ![pos + 1] = Code(code), ![pos + 2] = Word(code), ![pos + 3] = Cell("cr")]

StatusLine(code, word) ==
  <<Cell("version"), Code(code), Cell(word), Cell("cr"), Cell("lf")>>

(* write_code_i() *)
WriteCode(s, code) ==
  IF s.resp.headerPos = 0
  THEN LET n == Len(s.buf)
       IN  [buf |-> s.buf \o StatusLine(code, "OK"),
            resp |-> [s.resp EXCEPT !.code = code, !.codePos = n + 1, !.headerPos = n + 5]]
  ELSE IF s.resp.code = code THEN s
  ELSE [buf |-> Patched(s.buf, s.resp.codePos, code),
        resp |-> [s.resp EXCEPT !.code = code]]

(* "If first line is not written, then write it." *)
WithCode(s) == IF s.resp.headerPos = 0 THEN WriteCode(s, 200) ELSE s

TypeNoted(name, done) == done \/ name = "Content-Type"

(* operator<<(const http_header_t&): protected headers are left out *)
(* (a debug build aborts: not modelled). *)
WriteHeader(s, name) ==
  IF name \in Protected THEN s
  ELSE LET t == WithCode(s)
       IN  [buf |-> Append(t.buf, Cell(name)),
            resp |-> [t.resp EXCEPT !.typeDone = TypeNoted(name, @)]]

(* The headers that complete_header_i() adds. *)
AutoHeaders(typeDone) ==
  (IF "keepAlive" \in config THEN <<Cell("Connection")>> ELSE <<>>) \o
  (IF "date" \in config THEN <<Cell("Date")>> ELSE <<>>) \o
  <<Cell("Server")>> \o
  (IF "defaultType" \in config /\ ~typeDone THEN <<Cell("Content-Type")>> ELSE <<>>)

(* Mutant of ContentPos: the empty line is forgotten. *)
ContentPosEarly(b) == Len(b) + 1

(* Where content starts, after the length and the empty line. *)
ContentPos(b) == Len(b) + 2

(* complete_header_i() *)
CompleteHeader(s) ==
  LET b == s.buf \o AutoHeaders(s.resp.typeDone)
  IN  [buf |-> b \o <<Length(0), Cell("blank")>>,
       resp |-> [s.resp EXCEPT !.lengthPos = Len(b), !.contentPos = ContentPos(b)]]

WithHeader(s) ==
  LET t == WithCode(s) IN IF t.resp.contentPos = 0 THEN CompleteHeader(t) ELSE t

(* write() *)
WriteContent(s, n) == Push(WithHeader(s), [i \in 1 .. n |-> Cell("x")])

ContentSize(s) == Len(s.buf) - s.resp.contentPos

(* complete_content_i() *)
CompleteContent(s) ==
  LET t == WithHeader(s)
      n == ContentSize(t)
  IN  IF n > 0 /\ n <= LongestLength
      THEN [t EXCEPT !.buf[t.resp.lengthPos + 1] = Length(n)] ELSE t

-----------------------------------------------------------------------------
Becomes(s) == buf' = s.buf /\ resp' = s.resp

(* on_received() notes the size of send_buf; attach(). *)
Attach ==
  /\ config' \in Configs
  /\ old' = Len(buf)
  /\ resp' = Attached
  /\ calls' = 0 /\ said' = NothingSaid
  /\ UNCHANGED buf

(* Bound: MaxCalls. *)
Calling == calls < MaxCalls /\ calls' = calls + 1 /\ UNCHANGED <<config, old>>

SetCode(code) ==
  /\ Calling
  /\ Becomes(WriteCode(State, code))
  /\ said' = [said EXCEPT !.code = code]

SetHeader(name) ==
  /\ Calling /\ resp.contentPos = 0
  /\ Becomes(WriteHeader(State, name))
  /\ said' = IF name \in Protected THEN said
             ELSE [said EXCEPT !.headers = Append(@, name)]

(* Bound: MaxContent. *)
Write(n) ==
  /\ Calling /\ said.content + n <= MaxContent
  /\ Becomes(WriteContent(State, n))
  /\ said' = [said EXCEPT !.content = @ + n]

(* A call of the routine. *)
Call ==
  \/ \E code \in Codes : SetCode(code)
  \/ \E name \in Names : SetHeader(name)
  \/ \E n \in 0 .. MaxContent : Write(n)

(* detach(done) *)
DetachDone ==
  /\ buf' = CompleteContent(State).buf
  /\ resp' = Attached
  /\ UNCHANGED <<config, old, calls, said>>

(* Mutant of Restored: what the routine wrote stays. *)
NotRestored(b) == b

(* send_buf.size(old_size) *)
Restored(b) == SubSeq(b, 1, old)

(* detach(abandon), and http_processor_t::on_received() takes it back. *)
DetachAbandoned ==
  /\ buf' = Restored(buf)
  /\ resp' = Attached
  /\ UNCHANGED <<config, old, calls, said>>

-----------------------------------------------------------------------------
(* Properties *)

(* Every variable has its type, and the positions are ordered. *)
ResponseTypeOK ==
  /\ config \subseteq Options /\ old \in 0 .. Len(buf)
  /\ calls \in 0 .. MaxCalls
  /\ resp.code \in Codes
  /\ resp.headerPos \in {0, resp.codePos + 4}
  /\ resp.contentPos \in {0, resp.lengthPos + 2}
  /\ resp.contentPos <= Len(buf) /\ resp.headerPos <= Len(buf)

(* The response that the routine asked for: the last code, the headers in   *)
(* order, each automatic header once, the length and the content.           *)
Asked(word) ==
  StatusLine(said.code, word) \o
  [i \in DOMAIN said.headers |-> Cell(said.headers[i])] \o
  AutoHeaders(\E i \in DOMAIN said.headers : said.headers[i] = "Content-Type") \o
  <<Length(said.content), Cell("blank")>> \o [i \in 1 .. said.content |-> Cell("x")]
=============================================================================
