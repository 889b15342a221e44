----------------------------- MODULE HttpRequest -----------------------------
(***************************************************************************)
(* The resumable parser of http_request_t (http_request.cpp), as operators *)
(* on a parser record and the contents of recv_buf.                        *)
(*                                                                         *)
(* recv_buf is a sequence of atoms:                                        *)
(*   a member of Uris     the text "GET <uri>?<vars> HTTP/1.1"             *)
(*   "host", "key"        the text of a header line, Host or another       *)
(*   "len1", "len2", ...  Content-Length, see LengthOf                     *)
(*   "bad"                text without a colon                             *)
(*   "x"                  any other text without a colon or a blank        *)
(*   "cr", "lf", "nul"    the characters                                   *)
(*                                                                         *)
(* A fast_str_t points into a buffer: [base, at, size], where base is the  *)
(* address of the allocation.  It is stale if the buffer was moved since.  *)
(***************************************************************************)
EXTENDS Integers, Sequences, FiniteSetsExt

CONSTANTS
  Uris,       \* URIs of the clients' requests
  MaxLength   \* the longest content a request may have (10 MB)

ASSUME HttpRequestAssumption == MaxLength \in Nat

NoStr == [base |-> 0, at |-> 0, size |-> 0]
Huge == MaxLength + 1

Headers == {"host", "key", "len1", "len2", "huge"}
LengthOf(atom) ==
  CASE atom = "len1" -> 1 [] atom = "len2" -> 2 [] atom = "huge" -> Huge

Str(base, at, size) == [base |-> base, at |-> at, size |-> size]

(* What the handler reads through s while buf is at base. *)
Text(s, buf, base) ==
  IF s = NoStr THEN <<>>
  ELSE IF s.base # base THEN <<"junk">>
  ELSE SubSeq(buf, s.at, s.at + s.size - 1)

(* http_request_t::clear() *)
Cleared ==
  [step |-> "initial", base |-> 0, done |-> 0, res |-> "go",
   uri |-> NoStr, version |-> NoStr, vars |-> NoStr, hostname |-> NoStr,
   headers |-> <<>>, length |-> 0, content |-> NoStr]

-----------------------------------------------------------------------------
(* next_line_i(): the line of buf that begins after `from'. *)
NextLine(buf, from) ==
  LET ends == {i \in from + 1 .. Len(buf) : buf[i] \in {"lf", "nul"}}
  IN  IF ends = {} THEN [res |-> "more"]
      ELSE LET e == Min(ends)
               crlf == e > from + 1 /\ buf[e - 1] = "cr"
           IN  IF buf[e] = "nul" THEN [res |-> "failed"]
               ELSE [res |-> "ok", next |-> e, crlf |-> crlf,
                     text |-> SubSeq(buf, from + 1, IF crlf THEN e - 2 ELSE e - 1)]

(* A first line of three items with a known method and a URI. *)
IsRequestLine(text) ==
  /\ text # <<>> /\ text[1] \in Uris
  /\ \A i \in 2 .. Len(text) : text[i] \in {"x", "cr", "bad"}

(* split_header_line_i(): a colon with something on both sides of it. *)
IsHeaderLine(text) == \E i \in 1 .. Len(text) : text[i] \in Headers

(* update_single_fast_str_i(); only pointers into the buffer that was       *)
(* current at the last call come out right.                                 *)
Moved(s, old, new) ==
  IF s = NoStr THEN s
  ELSE IF s.base = old THEN [s EXCEPT !.base = new]
  ELSE [s EXCEPT !.base = -1]

MovedAll(headers, old, new) == [i \in DOMAIN headers |-> Moved(headers[i], old, new)]

(* The start of continue_to_parse() and update_all_fast_str_i(). *)
Rebase(r, base) ==
  LET moved == r.base # 0 /\ r.base # base
      q == [r EXCEPT !.base = base]
  IN  IF ~moved \/ r.step = "initial" THEN q
      ELSE [q EXCEPT !.uri = Moved(r.uri, r.base, base),
                     !.version = Moved(r.version, r.base, base),
                     !.headers = IF r.step = "header_done"
                                 THEN MovedAll(r.headers, r.base, base) ELSE @]

(* "First line" *)
RequestLine(r, buf) ==
  LET l == NextLine(buf, 0)
      s == Str(r.base, 1, 1)
  IN  IF r.step # "initial" THEN r
      ELSE IF l.res # "ok" THEN [r EXCEPT !.res = l.res]
      ELSE IF ~IsRequestLine(l.text) THEN [r EXCEPT !.res = "failed"]
      ELSE [r EXCEPT !.uri = s, !.version = s, !.vars = s,
                     !.done = l.next, !.step = "uri_done"]

(* One header line is accepted. *)
HeaderTaken(r, l) ==
  LET s == Str(r.base, r.done + 1, Len(l.text))
  IN  [r EXCEPT !.headers = Append(@, s),
                !.done = l.next,
                !.hostname = IF @ = NoStr /\ l.text[1] = "host" THEN s ELSE @]

(* A turn of "Parse header attributes": the line after those that are done. *)
HeaderLine(r, buf) ==
  LET l == NextLine(buf, r.done)
  IN  IF r.res # "go" \/ r.step = "header_done" THEN r
      ELSE IF l.res # "ok" THEN [r EXCEPT !.res = l.res]
      ELSE IF l.text = <<>> /\ l.crlf
      THEN [r EXCEPT !.done = l.next, !.step = "header_done"]
      ELSE IF ~IsHeaderLine(l.text) THEN [r EXCEPT !.res = "failed"]
      ELSE HeaderTaken(r, l)

(* The loop: a turn that does not end it takes at least a character.        *)
HeaderLines(r, buf) ==
  LET after[turns \in 0 .. Len(buf) + 1] ==
        IF turns = 0 THEN r ELSE HeaderLine(after[turns - 1], buf)
  IN  after[Len(buf) + 1]

(* header(Content_Length): junk is what comparing stale strings finds. *)
ContentLength(r, buf, junk) ==
  LET found == {i \in DOMAIN r.headers :
                  Text(r.headers[i], buf, r.base)[1] \in {"len1", "len2", "huge"}}
  IN  IF \E i \in DOMAIN r.headers : r.headers[i].base # r.base THEN junk
      ELSE IF found = {} THEN 0
      ELSE LengthOf(buf[r.headers[Min(found)].at])

(* Mutant of Incomplete: it asks for one byte too many. *)
AtLeastOneMore(done, n, size) == done + n >= size

Incomplete(done, n, size) == done + n > size

(* The content. *)
Content(r, buf, junk) ==
  LET n == IF r.length = 0 THEN ContentLength(r, buf, junk) ELSE r.length
  IN  IF n > MaxLength THEN [r EXCEPT !.res = "failed"]
      ELSE IF Incomplete(r.done, n, Len(buf)) THEN [r EXCEPT !.length = n, !.res = "more"]
      ELSE [r EXCEPT !.length = n, !.content = Str(r.base, r.done + 1, n),
                     !.done = @ + n, !.step = "content_done", !.res = "ok"]

(* continue_to_parse(): res is its result, done the bytes of the request. *)
ContinueToParse(r, buf, base, junk) ==
  LET r1 == RequestLine(Rebase([r EXCEPT !.res = "go"], base), buf)
      r2 == IF r1.res = "go" /\ r1.step = "uri_done"
            THEN HeaderLines(r1, buf) ELSE r1
  IN  IF r2.res = "go" /\ r2.step = "header_done" THEN Content(r2, buf, junk)
      ELSE IF r2.step = "content_done" THEN [r2 EXCEPT !.res = "ok"]
      ELSE r2

-----------------------------------------------------------------------------
(* The same, said of the whole text at once.                               *)

LineEnds(buf) == {i \in 1 .. Len(buf) : buf[i] = "lf"}
LineAt(buf, e) ==
  LET begin == Max({0} \cup {i \in LineEnds(buf) : i < e})
      crlf == e > begin + 1 /\ buf[e - 1] = "cr"
  IN  [first |-> begin = 0, crlf |-> crlf,
       text |-> SubSeq(buf, begin + 1, IF crlf THEN e - 2 ELSE e - 1)]

Blank(l) == ~l.first /\ l.crlf /\ l.text = <<>>
Good(l) == IF l.first THEN IsRequestLine(l.text) ELSE Blank(l) \/ IsHeaderLine(l.text)

(* How a text starts: the end of its header, if it is complete, and the     *)
(* first place that is wrong before that.                                   *)
HeaderEnd(buf) == {e \in LineEnds(buf) : Blank(LineAt(buf, e))}
Wrong(buf) ==
  {e \in LineEnds(buf) : ~Good(LineAt(buf, e))} \cup
  {i \in 1 .. Len(buf) : buf[i] = "nul"}

Lengths(buf, h) ==
  {e \in LineEnds(buf) : e < h /\ ~LineAt(buf, e).first /\
     LineAt(buf, e).text[1] \in {"len1", "len2", "huge"}}

(* What the parser has to answer, and the bytes of the request. *)
Whole(buf) ==
  LET h == Min(HeaderEnd(buf))
      n == IF Lengths(buf, h) = {} THEN 0
           ELSE LengthOf(LineAt(buf, Min(Lengths(buf, h))).text[1])
  IN  IF \E i \in Wrong(buf) : \A e \in HeaderEnd(buf) : i < e THEN [res |-> "failed", bytes |-> 0]
      ELSE IF HeaderEnd(buf) = {} THEN [res |-> "more", bytes |-> 0]
      ELSE IF n > MaxLength THEN [res |-> "failed", bytes |-> 0]
      ELSE IF h + n > Len(buf) THEN [res |-> "more", bytes |-> 0]
      ELSE [res |-> "ok", bytes |-> h + n]
=============================================================================
