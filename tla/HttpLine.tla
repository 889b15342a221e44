------------------------------ MODULE HttpLine ------------------------------
(***************************************************************************)
(* What HttpRequest takes for granted of a line: how http_request_t makes  *)
(* method, URI, variables and header out of it with fast_str_t             *)
(* (http_request.cpp, fast_str.cpp, http_method.cpp).                      *)
(*                                                                         *)
(* A text is a sequence of bytes.  A fast_str_t is a view of it, the       *)
(* number of bytes before it and its length.  Percent signs are decoded in *)
(* place, in the text that all views share.                                *)
(***************************************************************************)
EXTENDS Integers, Sequences, SequencesExt, FiniteSetsExt

CONSTANT Lines  \* bound: the lines that are read, [kind, text]

VARIABLE line   \* the last line that was read

Tab == 9      Space == 32   Percent == 37   Amp == 38
Slash == 47   Colon == 58   Equals == 61    Question == 63

Blanks == {Tab, Space}

NPos == -1

View(at, len) == [at |-> at, len |-> len]
Whole(text) == View(0, Len(text))
Empty == View(0, 0)

(* fast_str_t::at(), substr() *)
At(text, s, i) == text[s.at + i + 1]
Substr(s, pos, len) == View(s.at + pos, len)
Rest(s, pos) == Substr(s, pos, s.len - pos)

(* What is read through s. *)
Read(text, s) == SubSeq(text, s.at + 1, s.at + s.len)

(* find_first_of(), find_first_not_of() *)
FirstOr(set) == IF set = {} THEN NPos ELSE Min(set)
FindFirstOf(text, s, delims, pos) ==
  FirstOr({i \in pos .. s.len - 1 : At(text, s, i) \in delims})
FindFirstNotOf(text, s, delims, pos) ==
  FirstOr({i \in pos .. s.len - 1 : At(text, s, i) \notin delims})

(* split().  A turn of the loop: the item from q.start on is taken. *)
SplitNext(q, text, s, delims) ==
  LET end == FindFirstOf(text, s, delims, q.start + 1)
  IN  IF q.start = NPos THEN q
      ELSE IF end = NPos
      THEN [start |-> NPos, items |-> Append(q.items, Rest(s, q.start))]
      ELSE [start |-> FindFirstNotOf(text, s, delims, end + 1),
            items |-> Append(q.items, Substr(s, q.start, end - q.start))]

Split(text, s, delims) ==
  LET after[turns \in 0 .. s.len] ==
        IF turns = 0 THEN [start |-> FindFirstNotOf(text, s, delims, 0), items |-> <<>>]
        ELSE SplitNext(after[turns - 1], text, s, delims)
  IN  after[s.len].items

(* trim_left(), trim_right() *)
TrimLeft(text, s) ==
  LET kept == {i \in 0 .. s.len - 1 : At(text, s, i) \notin Blanks}
  IN  Rest(s, Min(kept \cup {s.len}))
TrimRight(text, s) ==
  LET kept == {i \in 0 .. s.len - 1 : At(text, s, i) \notin Blanks}
  IN  Substr(s, 0, Max({i + 1 : i \in kept} \cup {0}))
Trim(text, s) == TrimRight(text, TrimLeft(text, s))

-----------------------------------------------------------------------------
(* decode_i() *)

Digits == 48 .. 57   Upper == 65 .. 70   Lower == 97 .. 102
HexDigits == Digits \cup Upper \cup Lower
HexValue(ch) == IF ch \in Digits THEN ch - 48 ELSE IF ch \in Upper THEN ch - 55 ELSE ch - 87

(* Mutant of AfterEscape: the last digit is looked at again. *)
OnLastDigit(i) == i + 2

AfterEscape(i) == i + 3

(* A turn of the loop: q.i bytes were read and q.len were written. *)
DecodeNext(q, s) ==
  LET ch == At(q.text, s, q.i)
      first == At(q.text, s, q.i + 1)
      second == At(q.text, s, q.i + 2)
      Written(byte, next) ==
        [q EXCEPT !.text[s.at + q.len + 1] = byte, !.i = next, !.len = @ + 1]
  IN  IF ~q.ok \/ q.i >= s.len THEN q
      ELSE IF ch # Percent THEN Written(ch, q.i + 1)
      ELSE IF q.i + 2 >= s.len \/ {first, second} \ HexDigits # {}
      THEN [q EXCEPT !.ok = FALSE]
      ELSE Written(16 * HexValue(first) + HexValue(second), AfterEscape(q.i))

Decode(text, s) ==
  LET after[turns \in 0 .. s.len] ==
        IF turns = 0 THEN [ok |-> TRUE, text |-> text, i |-> 0, len |-> 0]
        ELSE DecodeNext(after[turns - 1], s)
      end == after[s.len]
  IN  [ok |-> end.ok, text |-> end.text, str |-> IF end.ok THEN Substr(s, 0, end.len) ELSE s]

-----------------------------------------------------------------------------
(* The first line *)

LowerCase(ch) == IF ch \in 65 .. 90 THEN ch + 32 ELSE ch

(* http_method_t, without UNKNOWN: any, get, post, put, delete, options, head *)
Methods == {
  <<97, 110, 121>>, <<103, 101, 116>>, <<112, 111, 115, 116>>, <<112, 117, 116>>,
  <<100, 101, 108, 101, 116, 101>>, <<111, 112, 116, 105, 111, 110, 115>>,
  <<104, 101, 97, 100>>}

IsMethod(name) == [i \in DOMAIN name |-> LowerCase(name[i])] \in Methods

(* One URI variable is decoded: [ok, text, vars]. *)
ParseVar(r, item) ==
  LET p == FindFirstOf(r.text, item, {Equals}, 0)
      name == Decode(r.text, IF p = NPos THEN item ELSE Substr(item, 0, p))
      value == Decode(name.text, IF p = NPos THEN Empty ELSE Rest(item, p + 1))
  IN  IF ~r.ok \/ p = 0 THEN [r EXCEPT !.ok = FALSE]
      ELSE [ok |-> name.ok /\ value.ok, text |-> value.text,
            vars |-> Append(r.vars, [name |-> name.str, value |-> value.str])]

ParseVars(r, items) ==
  LET after[n \in 0 .. Len(items)] ==
        IF n = 0 THEN r ELSE ParseVar(after[n - 1], items[n])
  IN  after[Len(items)]

NotParsed == [ok |-> FALSE]

(* "First line", the end of the line removed: what it says is read through  *)
(* the views, in the text as decoding has left it.                          *)
FirstLine(text) ==
  LET items == Split(text, View(0, Len(text)), Blanks)
      target == items[2]
      p == FindFirstOf(text, target, {Question}, 0)
      uri == Decode(text, IF p = NPos THEN target ELSE Substr(target, 0, p))
      vars == IF p = NPos THEN <<>> ELSE Split(uri.text, Rest(target, p + 1), {Amp})
      end == ParseVars([ok |-> uri.ok, text |-> uri.text, vars |-> <<>>], vars)
      Value(s) == Read(end.text, s)
  IN  IF \/ Len(items) # 3
         \/ ~IsMethod(Read(text, items[1]))
         \/ At(text, target, 0) # Slash
         \/ ~end.ok
      THEN NotParsed
      ELSE [ok |-> TRUE, uri |-> Value(uri.str), version |-> Value(items[3]),
            vars |-> [i \in DOMAIN end.vars |->
                        <<Value(end.vars[i].name), Value(end.vars[i].value)>>]]

(* before(':') *)
BeforeColon(text, s) ==
  LET p == FindFirstOf(text, s, {Colon}, 0) IN IF p = NPos THEN s ELSE Substr(s, 0, p)

(* split_header_line_i(), and what would be the host name. *)
HeaderLine(text) ==
  LET s == View(0, Len(text))
      p == FindFirstOf(text, s, {Colon}, 0)
      key == Trim(text, Substr(s, 0, p))
      value == Trim(text, Rest(s, p + 1))
  IN  IF p \in {0, NPos, s.len - 1} \/ key.len = 0 \/ value.len = 0
      THEN NotParsed
      ELSE [ok |-> TRUE, key |-> Read(text, key), value |-> Read(text, value),
            host |-> Read(text, BeforeColon(text, value))]

(* Any line of the two kinds. *)
LinesAreBytes == Lines \subseteq [kind : {"first", "header"}, text : Seq(Nat)]

ReadLine ==
  /\ line = [kind |-> "none", text |-> <<>>]
  /\ line' \in Lines

-----------------------------------------------------------------------------
(* The same, said of the whole line at once *)

(* The members of a set of numbers, the least one first. *)
InOrder(set) ==
  LET Rank(i) == Cardinality({j \in set : j <= i})
  IN  [k \in 1 .. Cardinality(set) |-> CHOOSE i \in set : Rank(i) = k]

(* The longest parts of text without a byte in delims, in order. *)
Fields(text, delims) ==
  LET begins == {i \in DOMAIN text : text[i] \notin delims /\ (i > 1 => text[i - 1] \in delims)}
      End(i) == Min({j \in i .. Len(text) : j = Len(text) \/ text[j + 1] \in delims})
      seq == InOrder(begins)
  IN  [k \in DOMAIN seq |-> SubSeq(text, seq[k], End(seq[k]))]

(* Two hexadecimal digits follow each percent sign. *)
WellEscaped(text) ==
  \A i \in DOMAIN text : text[i] = Percent =>
    i + 2 <= Len(text) /\ {text[i + 1], text[i + 2]} \subseteq HexDigits

(* Every byte that is not in an escape stands for itself. *)
Unescaped(text) ==
  LET Digit(i) == \E k \in {i - 1, i - 2} : k > 0 /\ text[k] = Percent
      own == InOrder({i \in DOMAIN text : ~Digit(i)})
      Byte(i) == IF text[i] # Percent THEN text[i]
                 ELSE 16 * HexValue(text[i + 1]) + HexValue(text[i + 2])
  IN  [k \in DOMAIN own |-> Byte(own[k])]

(* What comes before and after the first ch. *)
Upto(text, ch) == SelectInSeq(text, LAMBDA c : c = ch)
Before(text, ch) == IF Upto(text, ch) = 0 THEN text ELSE SubSeq(text, 1, Upto(text, ch) - 1)
After(text, ch) == IF Upto(text, ch) = 0 THEN <<>> ELSE SubSeq(text, Upto(text, ch) + 1, Len(text))

FirstLineMeans(text) ==
  LET fields == Fields(text, Blanks)
      uri == Before(fields[2], Question)
      vars == Fields(After(fields[2], Question), {Amp})
  IN  IF /\ Len(fields) = 3 /\ IsMethod(fields[1])
         /\ fields[2][1] = Slash
         /\ WellEscaped(uri)
         /\ \A i \in DOMAIN vars :
              /\ vars[i][1] # Equals
              /\ WellEscaped(Before(vars[i], Equals)) /\ WellEscaped(After(vars[i], Equals))
      THEN [ok |-> TRUE, uri |-> Unescaped(uri), version |-> fields[3],
            vars |-> [i \in DOMAIN vars |-> <<Unescaped(Before(vars[i], Equals)),
                                             Unescaped(After(vars[i], Equals))>>]]
      ELSE NotParsed

(* What is left of text[from .. to] without the blanks at its ends: nothing *)
(* or one text.                                                             *)
Trimmed(text, from, to) ==
  {SubSeq(text, p[1], p[2]) : p \in
     {q \in (from .. to) \X (from .. to) :
        /\ q[1] <= q[2] /\ {text[q[1]], text[q[2]]} \cap Blanks = {}
        /\ \A k \in (from .. q[1] - 1) \cup (q[2] + 1 .. to) : text[k] \in Blanks}}

(* The key and the value on both sides of the first colon. *)
HeaderLineMeans(text) ==
  LET c == Upto(text, Colon)
      keys == Trimmed(text, 1, c - 1)
      values == Trimmed(text, c + 1, Len(text))
  IN  IF c = 0 \/ keys = {} \/ values = {} THEN NotParsed
      ELSE LET value == CHOOSE v \in values : TRUE
           IN  [ok |-> TRUE, key |-> CHOOSE k \in keys : TRUE,
                value |-> value, host |-> Before(value, Colon)]

-----------------------------------------------------------------------------
(* Properties *)

(* However a line is written, the views say what the line says: decoding    *)
(* one of them in place spoils none of the others, and nothing is decoded   *)
(* twice or split after it was decoded.                                     *)
LineAsDefined ==
  /\ line.kind = "first" => FirstLine(line.text) = FirstLineMeans(line.text)
  /\ line.kind = "header" => HeaderLine(line.text) = HeaderLineMeans(line.text)
=============================================================================
