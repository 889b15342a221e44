----------------------------- MODULE HttpProofs -----------------------------
(***************************************************************************)
(* Proofs about HttpService.  For any requests, however they are cut: the  *)
(* parser stays within recv_buf, takes what a look at the whole text takes *)
(* and shows each routine its own request; a patient client is answered.   *)
(* For any routine, what is sent is the response that it asked for, or     *)
(* nothing.  For any line, its views say what the line says.               *)
(***************************************************************************)
EXTENDS HttpService, SequenceTheorems, FiniteSetTheorems, WellFoundedInduction, TLAPS

-----------------------------------------------------------------------------
(* Sets of numbers *)

LessThan == OpToRel(<, Nat)

(* A set of numbers that is not empty has a least member.                   *)
LEMMA LeastIsThere ==
  ASSUME NEW T \in SUBSET Nat, T # {}
  PROVE  Min(T) \in T /\ \A n \in T : Min(T) <= n
<1>1. IsWellFoundedOn(LessThan, Nat)
  BY NatLessThanWellFounded DEF LessThan
<1>2. LessThan = {ss \in Nat \X Nat : ss[1] < ss[2]}
  BY Zenon DEF LessThan, OpToRel
<1>3. PICK m \in T : \A n \in T : <<n, m>> \notin LessThan
  BY <1>1, WFMin
<1>4. ASSUME NEW n \in T PROVE m <= n
  <2>1. m \in Nat /\ n \in Nat /\ <<n, m>> \notin LessThan
    BY <1>3
  <2> QED
    BY <1>2, <2>1
<1> QED
  BY <1>4 DEF Min

-----------------------------------------------------------------------------
(* The parser *)

Strs == [base : Int, at : Nat, size : Nat]
Steps == {"initial", "uri_done", "header_done", "content_done"}
Results == {"go", "more", "failed", "ok"}

Parsers ==
  [step : Steps, base : Nat, done : Nat, res : Results, uri : Strs, version : Strs,
   vars : Strs, hostname : Strs, headers : Seq(Strs), length : Nat, content : Strs]

(* No header is empty. *)
HeadersAre(headers) == \A i \in 1 .. Len(headers) : headers[i].at > 0 /\ headers[i].size > 0

(* What was parsed is in the first n characters of recv_buf.                *)
Within(r, n) == r \in Parsers /\ r.done <= n /\ HeadersAre(r.headers)

(* The end of "Parse header attributes".                                    *)
Stopped(r) == r.res # "go" \/ r.step = "header_done"

LEMMA NextLineIs ==
  ASSUME NEW A, NEW buf \in Seq(A), NEW from \in Nat
  PROVE  /\ NextLine(buf, from).res \in {"more", "failed", "ok"}
         /\ NextLine(buf, from).res = "ok" =>
              /\ NextLine(buf, from).next \in from + 1 .. Len(buf)
              /\ NextLine(buf, from).next \in Nat
              /\ Len(NextLine(buf, from).text) \in Nat
<1> DEFINE ends == {i \in from + 1 .. Len(buf) : buf[i] \in {"lf", "nul"}}
           e == Min(ends)
           crlf == e > from + 1 /\ buf[e - 1] = "cr"
           to == IF crlf THEN e - 2 ELSE e - 1
           l == NextLine(buf, from)
<1>1. CASE ends = {}
  <2>1. l = [res |-> "more"]
    BY <1>1 DEF NextLine
  <2> QED
    BY <2>1
<1>2. CASE ends # {}
  <2>1. ends \in SUBSET Nat
    OBVIOUS
  <2>2. e \in ends
    <3> HIDE DEF ends
    <3> QED
      BY <1>2, <2>1, LeastIsThere
  <2>3. e \in from + 1 .. Len(buf) /\ e \in Nat /\ e >= from + 1
    BY <2>2
  <2>4. l = IF buf[e] = "nul" THEN [res |-> "failed"]
            ELSE [res |-> "ok", next |-> e, crlf |-> crlf, text |-> SubSeq(buf, from + 1, to)]
    BY <1>2 DEF NextLine
  <2> HIDE DEF e, ends
  <2>5. to \in from .. Len(buf)
    BY <2>3
  <2> HIDE DEF to, l, crlf
  <2>6. Len(SubSeq(buf, from + 1, to)) \in Nat
    <3>1. from + 1 \in 1 .. to + 1
      BY <2>5
    <3> QED
      BY <2>5, <3>1
  <2>7. CASE buf[e] = "nul"
    BY <2>4, <2>7 DEF l
  <2>8. CASE buf[e] # "nul"
    <3>1. l.res = "ok" /\ l.next = e /\ l.text = SubSeq(buf, from + 1, to)
      BY <2>4, <2>8
    <3> QED
      BY <2>3, <2>6, <3>1 DEF l
  <2> QED
    BY <2>7, <2>8
<1> QED
  BY <1>1, <1>2

(* A header line that is taken leaves the parser with what there is.        *)
LEMMA HeaderTakenIs ==
  ASSUME NEW n \in Nat, NEW r, Within(r, n), NEW l, l.next \in r.done + 1 .. n, l.next \in Nat,
         Len(l.text) \in Nat, Len(l.text) > 0
  PROVE  /\ Within(HeaderTaken(r, l), n) /\ HeaderTaken(r, l).done = l.next
         /\ HeaderTaken(r, l).step = r.step /\ HeaderTaken(r, l).res = r.res
<1> DEFINE s == Str(r.base, r.done + 1, Len(l.text))
           q == HeaderTaken(r, l)
           h == IF r.hostname = NoStr /\ l.text[1] = "host" THEN s ELSE r.hostname
<1>1. r \in Parsers /\ r.base \in Nat /\ r.done \in Nat /\ r.hostname \in Strs
      /\ r.headers \in Seq(Strs) /\ HeadersAre(r.headers)
  BY DEF Within, Parsers
<1>2. s \in Strs /\ s.at > 0 /\ s.size > 0
  BY <1>1 DEF Str, Strs
<1>3. q = [r EXCEPT !.headers = Append(@, s), !.done = l.next, !.hostname = h]
  BY DEF HeaderTaken
<1>4. h \in Strs
  BY <1>1, <1>2
<1> HIDE DEF s, h, q
<1>5. Append(r.headers, s) \in Seq(Strs) /\ HeadersAre(Append(r.headers, s))
  <2>1. Append(r.headers, s) \in Seq(Strs) /\ Len(Append(r.headers, s)) = Len(r.headers) + 1
        /\ Append(r.headers, s)[Len(r.headers) + 1] = s
        /\ \A i \in 1 .. Len(r.headers) : Append(r.headers, s)[i] = r.headers[i]
    BY <1>1, <1>2, AppendProperties
  <2>2. Len(r.headers) \in Nat
    BY <1>1
  <2>3. \A i \in 1 .. Len(r.headers) + 1 : i \in 1 .. Len(r.headers) \/ i = Len(r.headers) + 1
    BY <2>2
  <2> QED
    BY <1>1, <1>2, <2>1, <2>3 DEF HeadersAre
<1>6. q \in Parsers /\ q.headers = Append(r.headers, s) /\ q.done = l.next
      /\ q.step = r.step /\ q.res = r.res
  BY <1>1, <1>3, <1>4, <1>5 DEF Parsers
<1> QED
  BY <1>5, <1>6 DEF Within, q

LEMMA HeaderLineIs ==
  ASSUME NEW A, NEW buf \in Seq(A), NEW r, Within(r, Len(buf)), r.step = "uri_done", r.res = "go"
  PROVE  LET q == HeaderLine(r, buf)
         IN  /\ Within(q, Len(buf)) /\ q.step \in {"uri_done", "header_done"}
             /\ q.res \in {"go", "more", "failed"} /\ (Stopped(q) \/ q.done > r.done)
<1> DEFINE l == NextLine(buf, r.done)
           q == HeaderLine(r, buf)
<1>1. r \in Parsers /\ r.done \in Nat /\ r.done <= Len(buf) /\ HeadersAre(r.headers)
      /\ Len(buf) \in Nat
  BY DEF Within, Parsers
<1>2. l.res \in {"more", "failed", "ok"}
      /\ (l.res = "ok" => l.next \in r.done + 1 .. Len(buf) /\ l.next \in Nat
                            /\ Len(l.text) \in Nat)
  BY <1>1, NextLineIs
<1>3. q = IF l.res # "ok" THEN [r EXCEPT !.res = l.res]
          ELSE IF l.text = <<>> /\ l.crlf
          THEN [r EXCEPT !.done = l.next, !.step = "header_done"]
          ELSE IF ~IsHeaderLine(l.text) THEN [r EXCEPT !.res = "failed"]
          ELSE HeaderTaken(r, l)
  BY DEF HeaderLine
<1> HIDE DEF l, q
<1>4. CASE l.res # "ok"
  <2>1. q = [r EXCEPT !.res = l.res] /\ l.res \in {"more", "failed"}
    BY <1>2, <1>3, <1>4
  <2>2. q \in Parsers /\ q.res = l.res /\ q.done = r.done /\ q.step = r.step
        /\ q.headers = r.headers
    BY <1>1, <2>1 DEF Parsers, Results
  <2> QED
    BY <1>1, <2>1, <2>2 DEF Within, Stopped, q
<1>5. CASE l.res = "ok" /\ l.text = <<>> /\ l.crlf
  <2>1. q = [r EXCEPT !.done = l.next, !.step = "header_done"]
    BY <1>3, <1>5
  <2>2. q \in Parsers /\ q.res = r.res /\ q.done = l.next /\ q.step = "header_done"
        /\ q.headers = r.headers
    BY <1>1, <1>2, <1>5, <2>1 DEF Parsers, Steps
  <2>3. l.next <= Len(buf)
    BY <1>1, <1>2, <1>5
  <2> QED
    BY <1>1, <2>2, <2>3 DEF Within, Stopped, q
<1>6. CASE l.res = "ok" /\ ~(l.text = <<>> /\ l.crlf) /\ ~IsHeaderLine(l.text)
  <2>1. q = [r EXCEPT !.res = "failed"]
    BY <1>3, <1>6
  <2>2. q \in Parsers /\ q.res = "failed" /\ q.done = r.done /\ q.step = r.step
        /\ q.headers = r.headers
    BY <1>1, <2>1 DEF Parsers, Results
  <2> QED
    BY <1>1, <2>2 DEF Within, Stopped, q
<1>7. CASE l.res = "ok" /\ ~(l.text = <<>> /\ l.crlf) /\ IsHeaderLine(l.text)
  <2>1. q = HeaderTaken(r, l)
    BY <1>3, <1>7
  <2>2. Len(l.text) > 0
    <3>1. PICK i \in 1 .. Len(l.text) : l.text[i] \in Headers
      BY <1>7 DEF IsHeaderLine
    <3> QED
      BY <1>2, <1>7, <3>1
  <2>3. Within(q, Len(buf)) /\ q.done = l.next /\ q.step = r.step /\ q.res = r.res
    BY <1>1, <1>2, <1>7, <2>1, <2>2, HeaderTakenIs
  <2>4. l.next > r.done
    BY <1>1, <1>2, <1>7
  <2> QED
    BY <2>3, <2>4 DEF q
<1> QED
  BY <1>4, <1>5, <1>6, <1>7

(* The parsers after the first n turns of the loop.                         *)
AreTurns(f, r, buf, n) ==
  f = [turns \in 0 .. n |-> IF turns = 0 THEN r ELSE HeaderLine(f[turns - 1], buf)]

LEMMA TurnsLonger ==
  ASSUME NEW r, NEW buf, NEW n \in Nat, NEW f, AreTurns(f, r, buf, n)
  PROVE  \E g : AreTurns(g, r, buf, n + 1)
<1> DEFINE g == [i \in 0 .. n + 1 |-> IF i = n + 1 THEN HeaderLine(f[n], buf) ELSE f[i]]
<1>1. ASSUME NEW i \in 0 .. n + 1
      PROVE  g[i] = IF i = 0 THEN r ELSE HeaderLine(g[i - 1], buf)
  <2>1. CASE i = 0
    <3>1. i \in 0 .. n /\ i # n + 1
      BY <2>1
    <3>2. f[0] = r
      BY <2>1, <3>1 DEF AreTurns
    <3> QED
      BY <2>1, <3>1, <3>2
  <2>2. CASE i # 0
    <3>1. i - 1 \in 0 .. n /\ i - 1 \in 0 .. n + 1 /\ i - 1 # n + 1
      BY <2>2
    <3>2. g[i - 1] = f[i - 1]
      BY <3>1
    <3>3. CASE i = n + 1
      <4>1. i - 1 = n /\ g[i] = HeaderLine(f[n], buf)
        BY <3>3
      <4> HIDE DEF g
      <4> QED
        BY <2>2, <3>2, <4>1, Zenon
    <3>4. CASE i # n + 1
      <4>1. i \in 0 .. n /\ g[i] = f[i]
        BY <3>4
      <4>2. f[i] = HeaderLine(f[i - 1], buf)
        BY <2>2, <4>1 DEF AreTurns
      <4> HIDE DEF g
      <4> QED
        BY <2>2, <3>2, <4>1, <4>2, Zenon
    <3> QED
      BY <3>3, <3>4
  <2> QED
    BY <2>1, <2>2
<1>2. g = [i \in 0 .. n + 1 |-> g[i]]
  OBVIOUS
<1>3. AreTurns(g, r, buf, n + 1)
  <2> HIDE DEF g
  <2> QED
    BY <1>1, <1>2 DEF AreTurns
<1> QED
  BY <1>3

LEMMA TurnsAreThere ==
  ASSUME NEW r, NEW buf, NEW n \in Nat
  PROVE  \E f : AreTurns(f, r, buf, n)
<1> DEFINE Without == {k \in Nat : ~\E f : AreTurns(f, r, buf, k)}
<1>1. SUFFICES ASSUME Without # {} PROVE FALSE
  OBVIOUS
<1>2. PICK m \in Without : \A k \in Without : m <= k
  BY <1>1, LeastIsThere
<1>3. CASE m = 0
  <2> DEFINE f == [i \in 0 .. 0 |-> r]
  <2>1. \A i \in 0 .. 0 : i = 0
    OBVIOUS
  <2>2. AreTurns(f, r, buf, 0)
    BY <2>1 DEF AreTurns
  <2> QED
    BY <1>3, <2>2
<1>4. CASE m # 0
  <2>1. m \in Nat /\ m - 1 \in Nat /\ m - 1 \notin Without /\ (m - 1) + 1 = m
    BY <1>2, <1>4
  <2>2. PICK f : AreTurns(f, r, buf, m - 1)
    BY <2>1
  <2>3. \E g : AreTurns(g, r, buf, (m - 1) + 1)
    BY <2>1, <2>2, TurnsLonger
  <2> QED
    BY <2>1, <2>3
<1> QED
  BY <1>3, <1>4

(* A turn that does not end the loop takes a character, so that it ends     *)
(* before they run out.                                                     *)
LEMMA HeaderLinesAre ==
  ASSUME NEW A, NEW buf \in Seq(A), NEW r, Within(r, Len(buf)), r.step = "uri_done", r.res = "go"
  PROVE  LET q == HeaderLines(r, buf)
         IN  /\ Within(q, Len(buf)) /\ q.step \in {"uri_done", "header_done"}
             /\ q.res \in {"go", "more", "failed"} /\ Stopped(q)
<1> DEFINE n == Len(buf) + 1
           f == CHOOSE g : g = [turns \in 0 .. Len(buf) + 1 |->
                                  IF turns = 0 THEN r ELSE HeaderLine(g[turns - 1], buf)]
           Sound(q, k) ==
             /\ Within(q, Len(buf)) /\ q.step \in {"uri_done", "header_done"}
             /\ q.res \in {"go", "more", "failed"} /\ (Stopped(q) \/ q.done >= k)
           Unsound == {k \in 0 .. n : ~Sound(f[k], k)}
<1>1. Len(buf) \in Nat /\ n \in Nat
  OBVIOUS
<1>2. AreTurns(f, r, buf, n)
  <2>1. \E g : AreTurns(g, r, buf, Len(buf) + 1)
    BY <1>1, TurnsAreThere
  <2>2. \E g : g = [turns \in 0 .. Len(buf) + 1 |->
                    IF turns = 0 THEN r ELSE HeaderLine(g[turns - 1], buf)]
    BY <2>1 DEF AreTurns
  <2> QED
    BY <2>2, Zenon DEF AreTurns
<1>3. HeaderLines(r, buf) = f[n]
  BY DEF HeaderLines
<1> HIDE DEF f
<1>4. Unsound = {}
  <2>1. SUFFICES ASSUME Unsound # {} PROVE FALSE
    OBVIOUS
  <2>2. PICK b \in Unsound : \A k \in Unsound : b <= k
    <3>1. Unsound \in SUBSET Nat
      BY <1>1
    <3> HIDE DEF Unsound
    <3> QED
      BY <2>1, <3>1, LeastIsThere
  <2>3. b \in 0 .. n /\ b \in Nat /\ ~Sound(f[b], b)
    BY <1>1, <2>2
  <2>4. CASE b = 0
    <3>1. f[b] = r
      BY <1>2, <2>3, <2>4 DEF AreTurns
    <3>2. r.done \in Nat
      BY DEF Within, Parsers
    <3> QED
      BY <2>3, <2>4, <3>1, <3>2
  <2>5. CASE b # 0
    <3> DEFINE q == f[b - 1]
    <3>1. b - 1 \in 0 .. n /\ ~(b <= b - 1)
      BY <1>1, <2>3, <2>5
    <3>2. b - 1 \notin Unsound
      BY <2>2, <3>1
    <3>3. Sound(q, b - 1)
      BY <3>1, <3>2
    <3>4. f[b] = HeaderLine(q, buf)
      BY <1>2, <2>3, <2>5 DEF AreTurns
    <3>5. q \in Parsers
      BY <3>3 DEF Within
    <3> HIDE DEF q
    <3>6. CASE Stopped(q)
      <4>1. HeaderLine(q, buf) = q
        BY <3>6 DEF HeaderLine, Stopped
      <4> QED
        BY <2>3, <3>3, <3>4, <3>6, <4>1
    <3>7. CASE ~Stopped(q)
      <4>1. q.step = "uri_done" /\ q.res = "go"
        BY <3>3, <3>7 DEF Stopped
      <4>2. LET p == HeaderLine(q, buf)
            IN  /\ Within(p, Len(buf)) /\ p.step \in {"uri_done", "header_done"}
                /\ p.res \in {"go", "more", "failed"} /\ (Stopped(p) \/ p.done > q.done)
        BY <3>3, <4>1, HeaderLineIs
      <4>3. Within(f[b], Len(buf)) /\ f[b].step \in {"uri_done", "header_done"}
            /\ f[b].res \in {"go", "more", "failed"} /\ (Stopped(f[b]) \/ f[b].done > q.done)
        BY <3>4, <4>2
      <4>4. q.done \in Nat /\ f[b].done \in Nat
        BY <3>5, <4>3 DEF Within, Parsers
      <4>5. f[b].done > q.done => f[b].done >= b
        <5>1. q.done >= b - 1
          BY <3>3, <3>7
        <5> QED
          BY <2>3, <4>4, <5>1
      <4> QED
        BY <2>3, <4>3, <4>5
    <3> QED
      BY <3>6, <3>7
  <2> QED
    BY <2>4, <2>5
<1>5. Sound(f[n], n)
  <2>1. n \in 0 .. n
    BY <1>1
  <2> QED
    BY <1>4, <2>1
<1>6. ~(f[n].done >= n)
  <2>1. f[n].done \in Nat /\ f[n].done <= Len(buf)
    BY <1>5 DEF Within, Parsers
  <2> QED
    BY <1>1, <2>1
<1> QED
  BY <1>3, <1>5, <1>6

(* update_all_fast_str_i() *)
LEMMA RebaseIs ==
  ASSUME NEW n \in Nat, NEW r, Within(r, n), NEW b \in Nat
  PROVE  LET q == Rebase(r, b)
         IN  Within(q, n) /\ q.step = r.step /\ q.res = r.res /\ q.base = b /\ q.done = r.done
<1>1. r \in Parsers /\ r.done <= n /\ HeadersAre(r.headers)
  BY DEF Within
<1>2. ASSUME NEW s \in Strs, NEW before
      PROVE  /\ Moved(s, before, b) \in Strs
             /\ Moved(s, before, b).at = s.at /\ Moved(s, before, b).size = s.size
  BY DEF Moved, Strs
<1>3. r.headers \in Seq(Strs)
  BY <1>1 DEF Parsers
<1> DEFINE m == MovedAll(r.headers, r.base, b)
           h == IF r.step = "header_done" THEN m ELSE r.headers
<1>4. h \in Seq(Strs) /\ HeadersAre(h)
  <2>1. CASE r.step # "header_done"
    BY <1>1, <1>3, <2>1
  <2>2. CASE r.step = "header_done"
    <3>1. m = [i \in 1 .. Len(r.headers) |-> Moved(r.headers[i], r.base, b)]
      BY <1>3 DEF MovedAll
    <3>2. \A i \in 1 .. Len(r.headers) : r.headers[i] \in Strs
      BY <1>3, ElementOfSeq
    <3>3. \A i \in 1 .. Len(r.headers) : m[i] \in Strs /\ m[i].at > 0 /\ m[i].size > 0
      BY <1>1, <1>2, <3>1, <3>2 DEF HeadersAre
    <3>4. Len(r.headers) \in Nat
      BY <1>3
    <3> HIDE DEF m
    <3> DEFINE k == Len(r.headers)
    <3> HIDE DEF k
    <3>5. m \in Seq(Strs) /\ Len(m) = Len(r.headers)
      <4>1. k \in Nat /\ m = [i \in 1 .. k |-> m[i]] /\ \A i \in 1 .. k : m[i] \in Strs
        BY <3>1, <3>3, <3>4 DEF k, m
      <4>2. m \in Seq(Strs) /\ Len(m) = k
        BY <4>1
      <4> QED
        BY <4>2 DEF k
    <3>6. HeadersAre(m)
      BY <3>3, <3>5 DEF HeadersAre
    <3> QED
      BY <2>2, <3>5, <3>6
  <2> QED
    BY <2>1, <2>2
<1> DEFINE q == Rebase(r, b)
           u == Moved(r.uri, r.base, b)
           v == Moved(r.version, r.base, b)
<1>5. u \in Strs /\ v \in Strs
  BY <1>1, <1>2 DEF Parsers
<1>6. \/ q = [r EXCEPT !.base = b]
      \/ q = [r EXCEPT !.base = b, !.uri = u, !.version = v, !.headers = h]
  BY <1>1 DEF Rebase, Parsers
<1> HIDE DEF q, u, v, h
<1>7. CASE q = [r EXCEPT !.base = b]
  <2>1. q \in Parsers /\ q.step = r.step /\ q.res = r.res /\ q.base = b /\ q.done = r.done
        /\ q.headers = r.headers
    BY <1>1, <1>7 DEF Parsers
  <2> QED
    BY <1>1, <2>1 DEF Within, q
<1>8. CASE q = [r EXCEPT !.base = b, !.uri = u, !.version = v, !.headers = h]
  <2>1. q \in Parsers /\ q.step = r.step /\ q.res = r.res /\ q.base = b /\ q.done = r.done
        /\ q.headers = h
    BY <1>1, <1>4, <1>5, <1>8 DEF Parsers
  <2> QED
    BY <1>1, <1>4, <2>1 DEF Within, q
<1> QED
  BY <1>6, <1>7, <1>8

(* "First line" *)
LEMMA RequestLineIs ==
  ASSUME NEW A, NEW buf \in Seq(A), NEW r, Within(r, Len(buf)), r.res = "go"
  PROVE  LET q == RequestLine(r, buf)
         IN  /\ Within(q, Len(buf)) /\ q.res \in {"go", "more", "failed"}
             /\ q.step # "initial" \/ q.res # "go"
             /\ q.step \notin {"initial", "uri_done"} => q.step = r.step
<1> DEFINE l == NextLine(buf, 0)
           s == Str(r.base, 1, 1)
           q == RequestLine(r, buf)
<1>1. r \in Parsers /\ r.base \in Nat /\ HeadersAre(r.headers) /\ Len(buf) \in Nat
      /\ r.done \in Nat /\ r.done <= Len(buf)
  BY DEF Within, Parsers
<1>2. /\ l.res \in {"more", "failed", "ok"}
      /\ l.res = "ok" => l.next \in 1 .. Len(buf) /\ l.next \in Nat
  <2>1. 0 \in Nat /\ 0 + 1 = 1
    OBVIOUS
  <2> QED
    BY <2>1, NextLineIs
<1>3. s \in Strs
  BY <1>1 DEF Str, Strs
<1>4. q = IF r.step # "initial" THEN r
          ELSE IF l.res # "ok" THEN [r EXCEPT !.res = l.res]
          ELSE IF ~IsRequestLine(l.text) THEN [r EXCEPT !.res = "failed"]
          ELSE [r EXCEPT !.uri = s, !.version = s, !.vars = s,
                         !.done = l.next, !.step = "uri_done"]
  BY DEF RequestLine
<1> HIDE DEF l, s, q
<1>5. CASE r.step # "initial"
  BY <1>4, <1>5 DEF q
<1>6. CASE r.step = "initial" /\ l.res # "ok"
  <2>1. q = [r EXCEPT !.res = l.res] /\ l.res \in {"more", "failed"}
    BY <1>2, <1>4, <1>6
  <2>2. q \in Parsers /\ q.res = l.res /\ q.done = r.done /\ q.step = r.step
        /\ q.headers = r.headers
    BY <1>1, <2>1 DEF Parsers, Results
  <2> QED
    BY <1>1, <2>1, <2>2 DEF Within, q
<1>7. CASE r.step = "initial" /\ l.res = "ok" /\ ~IsRequestLine(l.text)
  <2>1. q = [r EXCEPT !.res = "failed"]
    BY <1>4, <1>7
  <2>2. q \in Parsers /\ q.res = "failed" /\ q.done = r.done /\ q.step = r.step
        /\ q.headers = r.headers
    BY <1>1, <2>1 DEF Parsers, Results
  <2> QED
    BY <1>1, <2>2 DEF Within, q
<1>8. CASE r.step = "initial" /\ l.res = "ok" /\ IsRequestLine(l.text)
  <2>1. q = [r EXCEPT !.uri = s, !.version = s, !.vars = s,
                      !.done = l.next, !.step = "uri_done"]
    BY <1>4, <1>8
  <2>2. q \in Parsers /\ q.res = r.res /\ q.done = l.next /\ q.step = "uri_done"
        /\ q.headers = r.headers
    BY <1>1, <1>2, <1>3, <1>8, <2>1 DEF Parsers, Steps
  <2>3. l.next <= Len(buf)
    BY <1>1, <1>2, <1>8
  <2> QED
    BY <1>1, <2>2, <2>3 DEF Within, q
<1> QED
  BY <1>5, <1>6, <1>7, <1>8

(* Whatever header(Content_Length) finds is a length.                       *)
LEMMA ContentLengthIs ==
  ASSUME NEW A, NEW buf \in Seq(A), NEW r, NEW n \in Nat, Within(r, n), NEW junk \in Nat
  PROVE  ContentLength(r, buf, junk) \in Nat
<1> DEFINE found == {i \in DOMAIN r.headers :
                       Text(r.headers[i], buf, r.base)[1] \in {"len1", "len2", "huge"}}
           m == Min(found)
           h == r.headers[m]
<1>1. r \in Parsers /\ r.headers \in Seq(Strs) /\ HeadersAre(r.headers)
  BY DEF Within, Parsers
<1>2. CASE \E i \in DOMAIN r.headers : r.headers[i].base # r.base
  BY <1>2 DEF ContentLength
<1>3. CASE found = {}
  BY <1>3 DEF ContentLength
<1>4. CASE found # {} /\ ~\E i \in DOMAIN r.headers : r.headers[i].base # r.base
  <2>1. found \in SUBSET Nat
    BY <1>1
  <2>2. m \in found
    <3> HIDE DEF found
    <3> QED
      BY <1>4, <2>1, LeastIsThere
  <2>3. m \in 1 .. Len(r.headers) /\ h.base = r.base /\ h.at > 0 /\ h.size > 0 /\ h \in Strs
        /\ Text(h, buf, r.base)[1] \in {"len1", "len2", "huge"}
    <3>1. m \in DOMAIN r.headers /\ Text(h, buf, r.base)[1] \in {"len1", "len2", "huge"}
      BY <2>2
    <3> HIDE DEF m
    <3>2. m \in 1 .. Len(r.headers)
      BY <1>1, <3>1
    <3>3. h.at > 0 /\ h.size > 0
      BY <1>1, <3>2 DEF HeadersAre
    <3>4. h \in Strs
      BY <1>1, <3>2, ElementOfSeq
    <3> QED
      BY <1>4, <3>1, <3>2, <3>3, <3>4
  <2>4. ContentLength(r, buf, junk) = LengthOf(buf[h.at])
    BY <1>4 DEF ContentLength
  <2> HIDE DEF m, h, found
  <2>5. h # NoStr /\ h.at \in Nat /\ h.size \in Nat
    BY <2>3 DEF NoStr, Strs
  <2>6. Text(h, buf, r.base) = SubSeq(buf, h.at, h.at + h.size - 1)
    BY <2>3, <2>5 DEF Text
  <2>7. SubSeq(buf, h.at, h.at + h.size - 1)[1] = buf[h.at]
    <3> DEFINE a == h.at
               z == h.size
    <3>1. a \in Nat /\ a > 0 /\ z \in Nat /\ z > 0
      BY <2>3, <2>5
    <3> HIDE DEF a, z
    <3>2. PICK k \in Nat : k = a + z - 1 /\ a <= k
      BY <3>1
    <3>3. SubSeq(buf, a, k)[1] = buf[a]
      BY <3>1, <3>2
    <3>4. SubSeq(buf, a, a + z - 1)[1] = buf[a]
      BY <3>2, <3>3
    <3> QED
      BY <3>4 DEF a, z
  <2>8. buf[h.at] \in {"len1", "len2", "huge"}
    BY <2>3, <2>6, <2>7
  <2>9. \A atom \in {"len1", "len2", "huge"} : LengthOf(atom) \in Nat
    BY HttpRequestAssumption DEF LengthOf, Huge
  <2> QED
    BY <2>4, <2>8, <2>9
<1> QED
  BY <1>2, <1>3, <1>4

(* "The content." *)
LEMMA ContentIs ==
  ASSUME NEW A, NEW buf \in Seq(A), NEW r, Within(r, Len(buf)), NEW junk \in Nat
  PROVE  LET q == Content(r, buf, junk)
         IN  Within(q, Len(buf)) /\ q.res \in {"more", "failed", "ok"}
<1> DEFINE n == IF r.length = 0 THEN ContentLength(r, buf, junk) ELSE r.length
           s == Str(r.base, r.done + 1, n)
           q == Content(r, buf, junk)
<1>1. r \in Parsers /\ r.base \in Nat /\ HeadersAre(r.headers) /\ r.done \in Nat
      /\ r.done <= Len(buf) /\ r.length \in Nat /\ Len(buf) \in Nat
  BY DEF Within, Parsers
<1>2. n \in Nat
  BY <1>1, ContentLengthIs
<1>3. s \in Strs
  BY <1>1, <1>2 DEF Str, Strs
<1>4. q = IF n > MaxLength THEN [r EXCEPT !.res = "failed"]
          ELSE IF Incomplete(r.done, n, Len(buf)) THEN [r EXCEPT !.length = n, !.res = "more"]
          ELSE [r EXCEPT !.length = n, !.content = s,
                         !.done = r.done + n, !.step = "content_done", !.res = "ok"]
  BY <1>1 DEF Content
<1> HIDE DEF n, s, q
<1>5. CASE n > MaxLength
  <2>1. q = [r EXCEPT !.res = "failed"]
    BY <1>4, <1>5
  <2>2. q \in Parsers /\ q.res = "failed" /\ q.done = r.done /\ q.headers = r.headers
    BY <1>1, <2>1 DEF Parsers, Results
  <2> QED
    BY <1>1, <2>2 DEF Within, q
<1>6. CASE ~(n > MaxLength) /\ Incomplete(r.done, n, Len(buf))
  <2>1. q = [r EXCEPT !.length = n, !.res = "more"]
    BY <1>4, <1>6
  <2>2. q \in Parsers /\ q.res = "more" /\ q.done = r.done /\ q.headers = r.headers
    BY <1>1, <1>2, <2>1 DEF Parsers, Results
  <2> QED
    BY <1>1, <2>2 DEF Within, q
<1>7. CASE ~(n > MaxLength) /\ ~Incomplete(r.done, n, Len(buf))
  <2>1. q = [r EXCEPT !.length = n, !.content = s,
                      !.done = r.done + n, !.step = "content_done", !.res = "ok"]
    BY <1>4, <1>7
  <2>2. r.done + n \in Nat /\ r.done + n <= Len(buf)
    BY <1>1, <1>2, <1>7 DEF Incomplete
  <2>3. q \in Parsers /\ q.res = "ok" /\ q.done = r.done + n /\ q.headers = r.headers
    BY <1>1, <1>2, <1>3, <2>1, <2>2 DEF Parsers, Results, Steps
  <2> QED
    BY <1>1, <2>2, <2>3 DEF Within, q
<1> QED
  BY <1>5, <1>6, <1>7

(* continue_to_parse(): it comes to a result, whatever state it goes on     *)
(* from, and has parsed no more than there is.                              *)
LEMMA ContinueToParseIs ==
  ASSUME NEW A, NEW buf \in Seq(A), NEW n \in Nat, n <= Len(buf), NEW r, Within(r, n),
         NEW b \in Nat, NEW junk \in Nat
  PROVE  LET q == ContinueToParse(r, buf, b, junk)
         IN  Within(q, Len(buf)) /\ q.res \in {"more", "failed", "ok"}
<1> DEFINE r0 == [r EXCEPT !.res = "go"]
           r1 == RequestLine(Rebase(r0, b), buf)
           r2 == IF r1.res = "go" /\ r1.step = "uri_done" THEN HeaderLines(r1, buf) ELSE r1
           q == ContinueToParse(r, buf, b, junk)
<1>1. q = IF r2.res = "go" /\ r2.step = "header_done" THEN Content(r2, buf, junk)
          ELSE IF r2.step = "content_done" THEN [r2 EXCEPT !.res = "ok"]
          ELSE r2
  BY DEF ContinueToParse
<1>2. Len(buf) \in Nat
  OBVIOUS
<1>3. Within(r0, Len(buf)) /\ r0.res = "go"
  <2>1. r \in Parsers /\ r.done <= n /\ HeadersAre(r.headers) /\ r.done \in Nat
    BY DEF Within, Parsers
  <2>2. r0 \in Parsers /\ r0.done = r.done /\ r0.headers = r.headers /\ r0.res = "go"
    BY <2>1 DEF Parsers, Results
  <2>3. r0.done <= Len(buf)
    BY <1>2, <2>1, <2>2
  <2> HIDE DEF r0
  <2> QED
    BY <2>1, <2>2, <2>3 DEF Within
<1> HIDE DEF r0
<1>4. Within(Rebase(r0, b), Len(buf)) /\ Rebase(r0, b).res = "go"
  BY <1>2, <1>3, RebaseIs
<1>5. /\ Within(r1, Len(buf)) /\ r1.res \in {"go", "more", "failed"}
      /\ r1.step # "initial" \/ r1.res # "go"
  BY <1>4, RequestLineIs
<1> HIDE DEF r1
<1>6. /\ Within(r2, Len(buf)) /\ r2.res \in {"go", "more", "failed"}
      /\ r2.res # "go" \/ r2.step \in {"header_done", "content_done"}
  <2>1. CASE r1.res = "go" /\ r1.step = "uri_done"
    BY <1>5, <2>1, HeaderLinesAre DEF Stopped
  <2>2. CASE ~(r1.res = "go" /\ r1.step = "uri_done")
    <3>1. r1.step \in Steps
      BY <1>5 DEF Within, Parsers
    <3> QED
      BY <1>5, <2>2, <3>1 DEF Steps
  <2> QED
    BY <2>1, <2>2
<1> HIDE DEF r2, q
<1>7. CASE r2.res = "go" /\ r2.step = "header_done"
  BY <1>1, <1>2, <1>6, <1>7, ContentIs DEF q
<1>8. CASE ~(r2.res = "go" /\ r2.step = "header_done") /\ r2.step = "content_done"
  <2>1. q = [r2 EXCEPT !.res = "ok"] /\ r2 \in Parsers /\ r2.done <= Len(buf)
        /\ HeadersAre(r2.headers)
    BY <1>1, <1>6, <1>8 DEF Within
  <2>2. q \in Parsers /\ q.done = r2.done /\ q.headers = r2.headers /\ q.res = "ok"
    BY <2>1 DEF Parsers, Results
  <2> QED
    BY <2>1, <2>2 DEF Within, q
<1>9. CASE ~(r2.res = "go" /\ r2.step = "header_done") /\ r2.step # "content_done"
  BY <1>1, <1>6, <1>9 DEF q
<1> QED
  BY <1>7, <1>8, <1>9

-----------------------------------------------------------------------------
(* The parser and a look at the whole text *)

(* The line of buf from begin to its end e.                                 *)
CrlfOf(buf, begin, e) == e > begin + 1 /\ buf[e - 1] = "cr"
TextEnd(buf, begin, e) == IF CrlfOf(buf, begin, e) THEN e - 2 ELSE e - 1
LineFrom(buf, begin, e) ==
  [first |-> begin = 0, crlf |-> CrlfOf(buf, begin, e),
   text |-> SubSeq(buf, begin + 1, TextEnd(buf, begin, e))]
BeginOf(buf, e) == Max({0} \cup {i \in LineEnds(buf) : i < e})

(* There is nothing but characters of a line between begin and e.           *)
NoEnd(buf, begin, e) == \A i \in begin + 1 .. e - 1 : buf[i] \notin {"lf", "nul"}

LEMMA LineAtFrom == \A buf, e : LineAt(buf, e) = LineFrom(buf, BeginOf(buf, e), e)
BY Zenon DEF LineAt, LineFrom, BeginOf, TextEnd, CrlfOf

LEMMA LineFromIs ==
  ASSUME NEW buf, NEW begin, NEW e
  PROVE  /\ LineFrom(buf, begin, e).first <=> begin = 0
         /\ LineFrom(buf, begin, e).crlf <=> CrlfOf(buf, begin, e)
         /\ LineFrom(buf, begin, e).text = SubSeq(buf, begin + 1, TextEnd(buf, begin, e))
BY Zenon DEF LineFrom

LEMMA BeginIs ==
  ASSUME NEW A, NEW buf \in Seq(A), NEW d \in Nat, d = 0 \/ d \in LineEnds(buf),
         NEW e \in LineEnds(buf), d < e, NoEnd(buf, d, e)
  PROVE  BeginOf(buf, e) = d /\ LineAt(buf, e) = LineFrom(buf, d, e)
<1> DEFINE S == {0} \cup {i \in LineEnds(buf) : i < e}
<1>1. e \in Nat /\ d \in S /\ S \subseteq Nat
  BY DEF LineEnds
<1>2. ASSUME NEW i \in S PROVE d >= i
  <2>1. CASE i = 0
    BY <2>1
  <2>2. CASE i # 0
    <3>1. i \in Nat /\ i < e /\ buf[i] = "lf"
      BY <2>2 DEF LineEnds
    <3>2. i \notin d + 1 .. e - 1
      BY <3>1 DEF NoEnd
    <3> QED
      BY <1>1, <3>1, <3>2
  <2> QED
    BY <2>1, <2>2
<1>3. ASSUME NEW x \in S, \A y \in S : x >= y PROVE x = d
  <2>1. x >= d /\ d >= x /\ x \in Nat
    BY <1>1, <1>2, <1>3
  <2> QED
    BY <2>1
<1>4. Max(S) = d
  <2> HIDE DEF S
  <2> QED
    BY <1>1, <1>2, <1>3 DEF Max
<1>5. BeginOf(buf, e) = d
  BY <1>4 DEF BeginOf
<1> QED
  BY <1>5, LineAtFrom

(* next_line_i() finds the next line end, and the line up to it.            *)
LEMMA NextLineAt ==
  ASSUME NEW A, NEW buf \in Seq(A), NEW d \in Nat, d = 0 \/ d \in LineEnds(buf)
  PROVE  /\ NextLine(buf, d).res \in {"more", "failed", "ok"}
         /\ NextLine(buf, d).res = "more" => NoEnd(buf, d, Len(buf) + 1)
         /\ NextLine(buf, d).res = "failed" =>
              \E i \in d + 1 .. Len(buf) : buf[i] = "nul" /\ NoEnd(buf, d, i)
         /\ NextLine(buf, d).res = "ok" =>
              /\ NextLine(buf, d).next \in LineEnds(buf) /\ NextLine(buf, d).next \in Nat
              /\ d < NextLine(buf, d).next /\ NoEnd(buf, d, NextLine(buf, d).next)
              /\ NextLine(buf, d).text = LineAt(buf, NextLine(buf, d).next).text
              /\ NextLine(buf, d).crlf <=> LineAt(buf, NextLine(buf, d).next).crlf
              /\ LineAt(buf, NextLine(buf, d).next).first <=> d = 0
              /\ LineAt(buf, NextLine(buf, d).next) = LineFrom(buf, d, NextLine(buf, d).next)
              /\ BeginOf(buf, NextLine(buf, d).next) = d
<1> DEFINE ends == {i \in d + 1 .. Len(buf) : buf[i] \in {"lf", "nul"}}
           e == Min(ends)
           l == NextLine(buf, d)
<1>1. CASE ends = {}
  <2>1. l = [res |-> "more"]
    BY <1>1 DEF NextLine
  <2>2. NoEnd(buf, d, Len(buf) + 1)
    <3>1. \A i \in d + 1 .. (Len(buf) + 1) - 1 : i \in d + 1 .. Len(buf)
      OBVIOUS
    <3> QED
      BY <1>1, <3>1 DEF NoEnd
  <2> QED
    BY <2>1, <2>2
<1>2. CASE ends # {}
  <2>1. ends \in SUBSET Nat
    OBVIOUS
  <2>2. e \in ends /\ \A i \in ends : e <= i
    <3> HIDE DEF ends
    <3> QED
      BY <1>2, <2>1, LeastIsThere
  <2>3. e \in d + 1 .. Len(buf) /\ e \in Nat /\ d < e /\ buf[e] \in {"lf", "nul"}
    BY <2>2
  <2>4. NoEnd(buf, d, e)
    <3> SUFFICES ASSUME NEW i \in d + 1 .. e - 1 PROVE buf[i] \notin {"lf", "nul"}
      BY DEF NoEnd
    <3>1. i \in d + 1 .. Len(buf) /\ ~(e <= i)
      BY <2>3
    <3> QED
      BY <2>2, <3>1
  <2>5. l = IF buf[e] = "nul" THEN [res |-> "failed"]
            ELSE [res |-> "ok", next |-> e, crlf |-> CrlfOf(buf, d, e),
                  text |-> SubSeq(buf, d + 1, TextEnd(buf, d, e))]
    BY <1>2, Zenon DEF NextLine, CrlfOf, TextEnd
  <2> HIDE DEF e, ends
  <2>6. CASE buf[e] = "nul"
    <3>1. l = [res |-> "failed"]
      BY <2>5, <2>6
    <3> QED
      BY <2>3, <2>4, <2>6, <3>1
  <2>7. CASE buf[e] # "nul"
    <3>1. l = [res |-> "ok", next |-> e, crlf |-> CrlfOf(buf, d, e),
               text |-> SubSeq(buf, d + 1, TextEnd(buf, d, e))]
      BY <2>5, <2>7
    <3> HIDE DEF l
    <3>2. l.res = "ok" /\ l.next = e /\ (l.crlf <=> CrlfOf(buf, d, e))
          /\ l.text = SubSeq(buf, d + 1, TextEnd(buf, d, e))
      BY <3>1, Zenon
    <3>3. e \in LineEnds(buf)
      BY <2>3, <2>7 DEF LineEnds
    <3>4. BeginOf(buf, e) = d /\ LineAt(buf, e) = LineFrom(buf, d, e)
      BY <2>3, <2>4, <3>3, BeginIs
    <3>5. /\ LineAt(buf, e).first <=> d = 0
          /\ LineAt(buf, e).crlf <=> CrlfOf(buf, d, e)
          /\ LineAt(buf, e).text = SubSeq(buf, d + 1, TextEnd(buf, d, e))
      <4>1. LineAt(buf, e) = LineFrom(buf, d, e)
        BY <3>4
      <4>2. /\ LineFrom(buf, d, e).first <=> d = 0
            /\ LineFrom(buf, d, e).crlf <=> CrlfOf(buf, d, e)
            /\ LineFrom(buf, d, e).text = SubSeq(buf, d + 1, TextEnd(buf, d, e))
        BY LineFromIs, Zenon
      <4> QED
        BY <4>1, <4>2, Zenon
    <3> QED
      BY <2>3, <2>4, <3>2, <3>3, <3>4, <3>5, Zenon DEF l
  <2> QED
    BY <2>6, <2>7
<1> QED
  BY <1>1, <1>2

(* A set of numbers with a bound that is not empty has a greatest member.   *)
LEMMA GreatestIsThere ==
  ASSUME NEW S \in SUBSET Nat, S # {}, NEW n \in Nat, \A x \in S : x <= n
  PROVE  Max(S) \in S /\ \A x \in S : x <= Max(S)
<1> DEFINE T == {k \in Nat : \A x \in S : x <= k}
<1>1. n \in T /\ T \in SUBSET Nat
  OBVIOUS
<1>2. PICK m \in T : \A k \in T : m <= k
  <2> HIDE DEF T
  <2> QED
    BY <1>1, LeastIsThere
<1>3. m \in S
  <2>1. SUFFICES ASSUME m \notin S PROVE FALSE
    OBVIOUS
  <2>2. PICK y \in S : TRUE
    OBVIOUS
  <2>3. \A x \in S : x \in Nat /\ x <= m /\ x # m
    BY <1>2, <2>1
  <2>4. m \in Nat /\ y \in Nat /\ y <= m /\ y # m
    BY <1>2, <2>3
  <2>5. m - 1 \in Nat
    BY <2>4
  <2>6. \A x \in S : x <= m - 1
    BY <2>3, <2>4
  <2>7. m - 1 \in T
    BY <2>5, <2>6
  <2> QED
    BY <1>2, <2>4, <2>7
<1>4. \A x \in S : m >= x /\ x <= m /\ x \in Nat
  BY <1>2
<1>5. ASSUME NEW x \in S, \A y \in S : x >= y PROVE x = m
  <2>1. x >= m /\ m >= x /\ x \in Nat /\ m \in Nat
    BY <1>3, <1>4, <1>5
  <2> QED
    BY <2>1
<1>6. Max(S) = m
  BY <1>3, <1>4, <1>5 DEF Max
<1> QED
  BY <1>3, <1>4, <1>6

LEMMA BeginIsBefore ==
  ASSUME NEW A, NEW buf \in Seq(A), NEW e \in 1 .. Len(buf)
  PROVE  /\ BeginOf(buf, e) \in 0 .. e - 1 /\ BeginOf(buf, e) \in Nat
         /\ \A i \in LineEnds(buf) : i < e => i <= BeginOf(buf, e)
         /\ BeginOf(buf, e) # 0 => BeginOf(buf, e) \in LineEnds(buf)
<1> DEFINE S == {0} \cup {i \in LineEnds(buf) : i < e}
<1>1. S \in SUBSET Nat /\ S # {} /\ e \in Nat /\ \A x \in S : x <= e
  BY DEF LineEnds
<1>2. \A x \in S : x < e
  BY <1>1
<1>3. \A i \in LineEnds(buf) : i < e => i \in S
  OBVIOUS
<1>4. \A x \in S : x # 0 => x \in LineEnds(buf)
  OBVIOUS
<1> HIDE DEF S
<1>5. Max(S) \in S /\ \A x \in S : x <= Max(S)
  BY <1>1, GreatestIsThere
<1>6. BeginOf(buf, e) = Max(S)
  BY DEF BeginOf, S
<1>7. Max(S) \in Nat /\ Max(S) < e
  BY <1>1, <1>2, <1>5
<1>8. Max(S) \in 0 .. e - 1
  BY <1>1, <1>7
<1>9. \A i \in LineEnds(buf) : i < e => i <= Max(S)
  BY <1>3, <1>5
<1>10. Max(S) # 0 => Max(S) \in LineEnds(buf)
  BY <1>4, <1>5
<1> QED
  BY <1>6, <1>7, <1>8, <1>9, <1>10, Zenon

(* What comes later changes no line.                                        *)
LEMMA LineIsKept ==
  ASSUME NEW A, NEW buf \in Seq(A), NEW more \in Seq(A), NEW e \in 1 .. Len(buf)
  PROVE  /\ e \in LineEnds(buf \o more) <=> e \in LineEnds(buf)
         /\ BeginOf(buf \o more, e) = BeginOf(buf, e)
         /\ LineAt(buf \o more, e) = LineAt(buf, e)
<1> DEFINE both == buf \o more
           b == BeginOf(buf, e)
           to == TextEnd(buf, b, e)
<1>1. both \in Seq(A) /\ Len(both) = Len(buf) + Len(more) /\ Len(buf) \in Nat /\ Len(more) \in Nat
      /\ \A i \in 1 .. Len(buf) : both[i] = buf[i]
  OBVIOUS
<1> HIDE DEF both
<1>2. \A i \in 1 .. Len(buf) : i \in LineEnds(both) <=> i \in LineEnds(buf)
  BY <1>1 DEF LineEnds
<1>3. {i \in LineEnds(both) : i < e} = {i \in LineEnds(buf) : i < e}
  <2>1. \A i \in LineEnds(both) : i < e => i \in 1 .. Len(buf)
    BY <1>1 DEF LineEnds
  <2>2. \A i \in LineEnds(buf) : i \in 1 .. Len(buf)
    BY DEF LineEnds
  <2> QED
    BY <1>2, <2>1, <2>2
<1>4. BeginOf(both, e) = b
  BY <1>3 DEF BeginOf
<1>5. b \in Nat /\ b < e /\ e \in Nat /\ e <= Len(buf)
  BY BeginIsBefore
<1> HIDE DEF b
<1>6. CrlfOf(both, b, e) = CrlfOf(buf, b, e)
  <2>1. CASE e > b + 1
    <3>1. e - 1 \in 1 .. Len(buf)
      BY <1>5, <2>1
    <3> QED
      BY <1>1, <3>1 DEF CrlfOf
  <2>2. CASE ~(e > b + 1)
    BY <2>2 DEF CrlfOf
  <2> QED
    BY <2>1, <2>2
<1>7. TextEnd(both, b, e) = to
  BY <1>6 DEF TextEnd
<1>8. to \in b .. Len(buf) /\ to \in Nat
  BY <1>5 DEF TextEnd, CrlfOf
<1> HIDE DEF to
<1>9. SubSeq(both, b + 1, to) = SubSeq(buf, b + 1, to)
  <2>1. b + 1 \in Nat /\ to \in Nat
    BY <1>5, <1>8
  <2>2. \A i \in b + 1 .. to : i \in 1 .. Len(buf) /\ i \in 1 .. Len(both)
    BY <1>1, <1>5, <1>8
  <2> DEFINE a == b + 1
  <2>3. a \in Nat /\ a > 0 /\ a <= to + 1
    BY <1>5, <1>8
  <2> HIDE DEF a
  <2>4. SubSeq(buf, a, to) = [i \in 1 .. (to - a + 1) |-> buf[a + i - 1]]
    BY <1>8, <2>3 
  <2>5. SubSeq(both, a, to) = [i \in 1 .. (to - a + 1) |-> both[a + i - 1]]
    BY <1>1, <1>8, <2>3
  <2>6. \A i \in 1 .. (to - a + 1) : both[a + i - 1] = buf[a + i - 1]
    <3>1. \A i \in 1 .. (to - a + 1) : a + i - 1 \in 1 .. Len(buf)
      BY <1>1, <1>8, <2>3
    <3> QED
      BY <1>1, <3>1
  <2> QED
    BY <2>4, <2>5, <2>6 DEF a
<1>10. LineFrom(both, b, e) = LineFrom(buf, b, e)
  BY <1>6, <1>7, <1>9, Zenon DEF LineFrom, to
<1>11. LineAt(both, e) = LineAt(buf, e)
  BY <1>4, <1>10, LineAtFrom DEF b
<1> QED
  BY <1>2, <1>4, <1>11 DEF both, b

(* There is nothing wrong in the first d characters, and no header ends.    *)
CleanTo(buf, d) ==
  \A i \in 1 .. d :
    buf[i] # "nul" /\ (i \in LineEnds(buf) => Good(LineAt(buf, i)) /\ ~Blank(LineAt(buf, i)))

(* The header lines that end in the first d characters, and what the parser *)
(* keeps of one.                                                            *)
HeaderLinesTo(buf, d) == {e \in LineEnds(buf) : e <= d /\ ~LineAt(buf, e).first}
HeaderOf(buf, e) == Str(1, BeginOf(buf, e) + 1, Len(LineAt(buf, e).text))

(* headers are these, in order.                                             *)
AreHeaders(headers, buf, d) ==
  /\ \A i \in 1 .. Len(headers) : \E e \in HeaderLinesTo(buf, d) : headers[i] = HeaderOf(buf, e)
  /\ \A e \in HeaderLinesTo(buf, d) : \E i \in 1 .. Len(headers) : headers[i] = HeaderOf(buf, e)
  /\ \A i, j \in 1 .. Len(headers) : i < j => headers[i].at < headers[j].at

SaidLength(buf, h) ==
  IF Lengths(buf, h) = {} THEN 0 ELSE LengthOf(LineAt(buf, Min(Lengths(buf, h))).text[1])

(* m_hostname, if it is there, is the beginning of a Host line.             *)
HostIn(s, buf) ==
  \/ s = NoStr
  \/ s.base = 1 /\ s.at > 0 /\ s.size > 0 /\ s.at + s.size - 1 <= Len(buf) /\ buf[s.at] = "host"
Named(r, buf) ==
  r.uri = Str(1, 1, 1) /\ r.version = r.uri /\ r.vars = r.uri /\ HostIn(r.hostname, buf)
SameNames(r, q) ==
  q.uri = r.uri /\ q.version = r.version /\ q.vars = r.vars /\ q.hostname = r.hostname

(* What the parser knows when it waits for more: before the end of the      *)
(* first line, of the header, or of the content.                            *)
AtStart(r) ==
  /\ r.base \in {0, 1} /\ r.step = "initial" /\ r.done = 0 /\ r.headers = <<>> /\ r.length = 0
  /\ r.hostname = NoStr

InHeader(r, buf) ==
  /\ r.base = 1 /\ r.step = "uri_done" /\ r.length = 0 /\ Named(r, buf)
  /\ r.done \in LineEnds(buf)
  /\ CleanTo(buf, r.done) /\ AreHeaders(r.headers, buf, r.done)

PastHeader(r, buf) ==
  /\ r.base = 1 /\ r.step = "header_done" /\ r.length \in {0, SaidLength(buf, r.done)}
  /\ Named(r, buf)
  /\ r.done \in HeaderEnd(buf)
  /\ CleanTo(buf, r.done - 1) /\ AreHeaders(r.headers, buf, r.done - 1)

Resumable(r, buf) == AtStart(r) \/ InHeader(r, buf) \/ PastHeader(r, buf)

LEMMA CleanIsKept ==
  ASSUME NEW A, NEW buf \in Seq(A), NEW more \in Seq(A), NEW d \in 0 .. Len(buf),
         CleanTo(buf, d)
  PROVE  CleanTo(buf \o more, d)
<1> DEFINE both == buf \o more
<1> SUFFICES ASSUME NEW i \in 1 .. d
             PROVE  both[i] # "nul" /\ (i \in LineEnds(both) =>
                      Good(LineAt(both, i)) /\ ~Blank(LineAt(both, i)))
  BY Zenon DEF CleanTo
<1>1. i \in 1 .. Len(buf) /\ both[i] = buf[i]
  OBVIOUS
<1> HIDE DEF both
<1>2. (i \in LineEnds(both) <=> i \in LineEnds(buf)) /\ LineAt(both, i) = LineAt(buf, i)
  BY <1>1, LineIsKept DEF both
<1>3. buf[i] # "nul" /\ (i \in LineEnds(buf) => Good(LineAt(buf, i)) /\ ~Blank(LineAt(buf, i)))
  BY DEF CleanTo
<1> QED
  BY <1>1, <1>2, <1>3, Zenon

LEMMA HeaderLinesAreKept ==
  ASSUME NEW A, NEW buf \in Seq(A), NEW more \in Seq(A), NEW d \in 0 .. Len(buf)
  PROVE  /\ HeaderLinesTo(buf \o more, d) = HeaderLinesTo(buf, d)
         /\ \A e \in HeaderLinesTo(buf, d) : HeaderOf(buf \o more, e) = HeaderOf(buf, e)
<1> DEFINE both == buf \o more
<1>1. \A e \in 1 .. Len(buf) :
        /\ e \in LineEnds(both) <=> e \in LineEnds(buf)
        /\ BeginOf(both, e) = BeginOf(buf, e) /\ LineAt(both, e) = LineAt(buf, e)
  BY LineIsKept
<1> HIDE DEF both
<1>2. \A e \in 1 .. Len(buf) : HeaderOf(both, e) = HeaderOf(buf, e)
  BY <1>1, Zenon DEF HeaderOf
<1>3. \A e \in LineEnds(buf) : e \in 1 .. Len(buf)
  BY DEF LineEnds
<1>4. \A e \in LineEnds(both) : e <= d => e \in 1 .. Len(buf)
  BY DEF LineEnds
<1>5. ASSUME NEW e \in HeaderLinesTo(buf, d) PROVE e \in HeaderLinesTo(both, d)
  BY <1>1, <1>3 DEF HeaderLinesTo
<1>6. ASSUME NEW e \in HeaderLinesTo(both, d) PROVE e \in HeaderLinesTo(buf, d)
  BY <1>1, <1>4 DEF HeaderLinesTo
<1>7. \A e \in HeaderLinesTo(buf, d) : e \in 1 .. Len(buf)
  BY <1>3 DEF HeaderLinesTo
<1> QED
  BY <1>2, <1>5, <1>6, <1>7 DEF both

LEMMA HeadersAreKept ==
  ASSUME NEW A, NEW buf \in Seq(A), NEW more \in Seq(A), NEW d \in 0 .. Len(buf),
         NEW headers, AreHeaders(headers, buf, d)
  PROVE  AreHeaders(headers, buf \o more, d)
<1> DEFINE both == buf \o more
           E == HeaderLinesTo(buf, d)
<1>1. HeaderLinesTo(both, d) = E /\ \A e \in E : HeaderOf(both, e) = HeaderOf(buf, e)
  BY HeaderLinesAreKept
<1>2. /\ \A i \in 1 .. Len(headers) : \E e \in E : headers[i] = HeaderOf(buf, e)
      /\ \A e \in E : \E i \in 1 .. Len(headers) : headers[i] = HeaderOf(buf, e)
      /\ \A i, j \in 1 .. Len(headers) : i < j => headers[i].at < headers[j].at
  BY DEF AreHeaders
<1> HIDE DEF both, E
<1> QED
  BY <1>1, <1>2, ZenonT(30) DEF AreHeaders, both

LEMMA LengthIsKept ==
  ASSUME NEW A, NEW buf \in Seq(A), NEW more \in Seq(A), NEW h \in LineEnds(buf)
  PROVE  Lengths(buf \o more, h) = Lengths(buf, h) /\ SaidLength(buf \o more, h) = SaidLength(buf, h)
<1> DEFINE both == buf \o more
           T == Lengths(buf, h)
<1>1. \A e \in 1 .. Len(buf) :
        (e \in LineEnds(both) <=> e \in LineEnds(buf)) /\ LineAt(both, e) = LineAt(buf, e)
  BY LineIsKept
<1> HIDE DEF both
<1>2. h \in Nat /\ h <= Len(buf) /\ Len(buf) \in Nat
  BY DEF LineEnds
<1>3. \A e \in LineEnds(both) \cup LineEnds(buf) : e < h => e \in 1 .. Len(buf)
  BY <1>2 DEF LineEnds
<1>4. ASSUME NEW e PROVE e \in Lengths(both, h) <=> e \in T
  BY <1>1, <1>3 DEF Lengths
<1>5. Lengths(both, h) = T
  BY <1>4
<1>6. CASE T = {}
  BY <1>5, <1>6 DEF SaidLength, both
<1>7. CASE T # {}
  <2>1. T \in SUBSET Nat
    BY DEF Lengths, LineEnds
  <2>2. Min(T) \in T
    <3> HIDE DEF T
    <3> QED
      BY <1>7, <2>1, LeastIsThere
  <2>3. Min(T) \in 1 .. Len(buf)
    BY <2>2 DEF Lengths, LineEnds
  <2>4. LineAt(both, Min(T)) = LineAt(buf, Min(T))
    BY <1>1, <2>3
  <2> HIDE DEF T
  <2>5. SaidLength(both, h) = LengthOf(LineAt(both, Min(T)).text[1])
        /\ SaidLength(buf, h) = LengthOf(LineAt(buf, Min(T)).text[1])
    BY <1>5, <1>7, Zenon DEF SaidLength, T
  <2> QED
    BY <1>5, <2>4, <2>5, Zenon DEF both, T
<1> QED
  BY <1>6, <1>7

LEMMA NamedSame ==
  ASSUME NEW buf, NEW r, NEW q, Named(r, buf), SameNames(r, q)
  PROVE  Named(q, buf)
BY DEF Named, SameNames

LEMMA NamedIsKept ==
  ASSUME NEW A, NEW buf \in Seq(A), NEW more \in Seq(A), NEW r \in Parsers, Named(r, buf)
  PROVE  Named(r, buf \o more)
<1> DEFINE both == buf \o more
           s == r.hostname
<1>1. Len(both) = Len(buf) + Len(more) /\ Len(buf) \in Nat /\ Len(more) \in Nat
      /\ \A i \in 1 .. Len(buf) : both[i] = buf[i]
  OBVIOUS
<1>2. s \in Strs
  BY DEF Parsers
<1> HIDE DEF both
<1>3. CASE s = NoStr
  BY <1>3 DEF Named, HostIn, both
<1>4. CASE s # NoStr
  <2>1. s.base = 1 /\ s.at > 0 /\ s.size > 0 /\ s.at + s.size - 1 <= Len(buf) /\ buf[s.at] = "host"
        /\ s.at \in Nat /\ s.size \in Nat
    BY <1>2, <1>4 DEF Named, HostIn, Strs
  <2>2. s.at \in 1 .. Len(buf) /\ s.at + s.size - 1 <= Len(both)
    BY <1>1, <2>1, SMTT(30)
  <2>3. both[s.at] = "host"
    BY <1>1, <2>1, <2>2
  <2> QED
    BY <2>1, <2>2, <2>3 DEF Named, HostIn, both
<1> QED
  BY <1>3, <1>4

(* What comes later changes nothing of what the parser knows.               *)
LEMMA KnownIsKept ==
  ASSUME NEW A, NEW buf \in Seq(A), NEW more \in Seq(A), NEW r \in Parsers, Resumable(r, buf)
  PROVE  Resumable(r, buf \o more)
<1>1. \A e \in LineEnds(buf) :
        e \in Nat /\ e \in 1 .. Len(buf) /\ e \in 0 .. Len(buf) /\ e - 1 \in 0 .. Len(buf)
  BY DEF LineEnds
<1>2. CASE AtStart(r)
  BY <1>2 DEF Resumable
<1>3. CASE InHeader(r, buf)
  <2>1. r.done \in LineEnds(buf) /\ CleanTo(buf, r.done) /\ AreHeaders(r.headers, buf, r.done)
    BY <1>3 DEF InHeader
  <2>2. r.done \in LineEnds(buf \o more)
    BY <1>1, <2>1, LineIsKept
  <2>3. CleanTo(buf \o more, r.done) /\ AreHeaders(r.headers, buf \o more, r.done)
    BY <1>1, <2>1, CleanIsKept, HeadersAreKept
  <2>4. Named(r, buf \o more)
    BY <1>3, NamedIsKept DEF InHeader
  <2> QED
    BY <1>3, <2>2, <2>3, <2>4 DEF InHeader, Resumable
<1>4. CASE PastHeader(r, buf)
  <2>1. r.done \in LineEnds(buf) /\ Blank(LineAt(buf, r.done))
        /\ CleanTo(buf, r.done - 1) /\ AreHeaders(r.headers, buf, r.done - 1)
    BY <1>4 DEF PastHeader, HeaderEnd
  <2>2. r.done \in LineEnds(buf \o more) /\ LineAt(buf \o more, r.done) = LineAt(buf, r.done)
    BY <1>1, <2>1, LineIsKept
  <2>3. r.done \in HeaderEnd(buf \o more)
    BY <2>1, <2>2 DEF HeaderEnd
  <2>4. CleanTo(buf \o more, r.done - 1) /\ AreHeaders(r.headers, buf \o more, r.done - 1)
    BY <1>1, <2>1, CleanIsKept, HeadersAreKept
  <2>5. SaidLength(buf \o more, r.done) = SaidLength(buf, r.done)
    BY <2>1, LengthIsKept
  <2>6. Named(r, buf \o more)
    BY <1>4, NamedIsKept DEF PastHeader
  <2> QED
    BY <1>4, <2>3, <2>4, <2>5, <2>6 DEF PastHeader, Resumable
<1> QED
  BY <1>2, <1>3, <1>4 DEF Resumable

(* Something is wrong before any header ends.                               *)
WrongFirst(buf) == \E i \in Wrong(buf) : \A e \in HeaderEnd(buf) : i < e

LEMMA WrongIsFirst ==
  ASSUME NEW A, NEW buf \in Seq(A), NEW d \in Nat, CleanTo(buf, d), NEW i \in Wrong(buf),
         d < i, NoEnd(buf, d, i), i \notin HeaderEnd(buf)
  PROVE  WrongFirst(buf)
<1>1. ASSUME NEW e \in HeaderEnd(buf) PROVE i < e
  <2>1. e \in LineEnds(buf) /\ Blank(LineAt(buf, e)) /\ buf[e] = "lf" /\ e \in Nat /\ e > 0
    BY DEF HeaderEnd, LineEnds
  <2>2. ~(e <= d)
    BY <2>1 DEF CleanTo
  <2>3. e \notin d + 1 .. i - 1
    BY <2>1 DEF NoEnd
  <2>4. e # i /\ i \in Nat
    BY DEF Wrong, LineEnds
  <2> QED
    BY <2>1, <2>2, <2>3, <2>4
<1> QED
  BY <1>1 DEF WrongFirst

(* The characters of a line are clean, and so is the line if it is.         *)
LEMMA CleanLonger ==
  ASSUME NEW A, NEW buf \in Seq(A), NEW d \in Nat, CleanTo(buf, d), NEW e \in Nat,
         d < e, NoEnd(buf, d, e)
  PROVE  /\ CleanTo(buf, e - 1)
         /\ e \in LineEnds(buf) /\ Good(LineAt(buf, e)) /\ ~Blank(LineAt(buf, e)) => CleanTo(buf, e)
<1> DEFINE C(i) ==
      buf[i] # "nul" /\ (i \in LineEnds(buf) => Good(LineAt(buf, i)) /\ ~Blank(LineAt(buf, i)))
<1>1. \A i \in 1 .. d : C(i)
  BY Zenon DEF CleanTo
<1>2. \A i \in d + 1 .. e - 1 : C(i)
  <2>1. \A i \in d + 1 .. e - 1 : buf[i] # "nul" /\ i \notin LineEnds(buf)
    BY DEF NoEnd, LineEnds
  <2> QED
    BY <2>1
<1>3. \A i \in 1 .. e - 1 : i \in 1 .. d \/ i \in d + 1 .. e - 1
  OBVIOUS
<1>4. \A i \in 1 .. e - 1 : C(i)
  BY <1>1, <1>2, <1>3, Zenon
<1>5. e \in LineEnds(buf) /\ Good(LineAt(buf, e)) /\ ~Blank(LineAt(buf, e)) => C(e)
  BY DEF LineEnds
<1>6. \A i \in 1 .. e : i \in 1 .. e - 1 \/ i = e
  OBVIOUS
<1> QED
  BY <1>4, <1>5, <1>6, Zenon DEF CleanTo

LEMMA HeaderLinesLonger ==
  ASSUME NEW A, NEW buf \in Seq(A), NEW d \in Nat, NEW e \in Nat, d < e, NoEnd(buf, d, e)
  PROVE  /\ HeaderLinesTo(buf, e - 1) = HeaderLinesTo(buf, d)
         /\ e \in LineEnds(buf) /\ ~LineAt(buf, e).first =>
              HeaderLinesTo(buf, e) = HeaderLinesTo(buf, d) \cup {e}
         /\ e \in LineEnds(buf) /\ LineAt(buf, e).first =>
              HeaderLinesTo(buf, e) = HeaderLinesTo(buf, d)
<1>1. \A i \in LineEnds(buf) : i \in Nat /\ i \notin d + 1 .. e - 1
  BY DEF NoEnd, LineEnds
<1>2. \A i \in LineEnds(buf) : (i <= e - 1 <=> i <= d) /\ (i <= e <=> i <= d \/ i = e)
  BY <1>1
<1>3. HeaderLinesTo(buf, e - 1) = HeaderLinesTo(buf, d)
  BY <1>2 DEF HeaderLinesTo
<1>4. ASSUME e \in LineEnds(buf), ~LineAt(buf, e).first
      PROVE  HeaderLinesTo(buf, e) = HeaderLinesTo(buf, d) \cup {e}
  BY <1>2, <1>4 DEF HeaderLinesTo
<1>5. ASSUME e \in LineEnds(buf), LineAt(buf, e).first
      PROVE  HeaderLinesTo(buf, e) = HeaderLinesTo(buf, d)
  BY <1>2, <1>5 DEF HeaderLinesTo
<1> QED
  BY <1>3, <1>4, <1>5

(* One more header line.                                                    *)
LEMMA HeadersLonger ==
  ASSUME NEW A, NEW buf \in Seq(A), NEW d \in Nat, NEW headers \in Seq(Strs),
         AreHeaders(headers, buf, d), NEW e \in LineEnds(buf), d < e, NoEnd(buf, d, e),
         ~LineAt(buf, e).first, BeginOf(buf, e) = d, HeaderOf(buf, e) \in Strs
  PROVE  AreHeaders(Append(headers, HeaderOf(buf, e)), buf, e)
<1> DEFINE s == HeaderOf(buf, e)
           more == Append(headers, s)
           n == Len(headers)
           E == HeaderLinesTo(buf, d)
           F == HeaderLinesTo(buf, e)
<1>1. F = E \cup {e}
  <2>1. e \in Nat
    BY DEF LineEnds
  <2> QED
    BY <2>1, HeaderLinesLonger
<1>2. /\ \A i \in 1 .. n : \E k \in E : headers[i] = HeaderOf(buf, k)
      /\ \A k \in E : \E i \in 1 .. n : headers[i] = HeaderOf(buf, k)
      /\ \A i, j \in 1 .. n : i < j => headers[i].at < headers[j].at
  BY DEF AreHeaders
<1>3. s.at = d + 1
  BY DEF HeaderOf, Str
<1>4. \A k \in E : HeaderOf(buf, k).at < d + 1
  <2> SUFFICES ASSUME NEW k \in E PROVE HeaderOf(buf, k).at < d + 1
    OBVIOUS
  <2>1. k \in 1 .. Len(buf) /\ k \in Nat /\ k <= d
    BY DEF HeaderLinesTo, LineEnds
  <2>2. BeginOf(buf, k) \in Nat /\ BeginOf(buf, k) \in 0 .. k - 1
    BY <2>1, BeginIsBefore
  <2>3. HeaderOf(buf, k).at = BeginOf(buf, k) + 1
    BY DEF HeaderOf, Str
  <2> QED
    BY <2>1, <2>2, <2>3
<1> HIDE DEF s, E, F
<1>5. n \in Nat /\ Len(more) = n + 1 /\ more[n + 1] = s /\ \A i \in 1 .. n : more[i] = headers[i]
  BY AppendProperties DEF s
<1> HIDE DEF more, n
<1>6. \A i \in 1 .. n + 1 : i \in 1 .. n \/ i = n + 1
  BY <1>5
<1>7. \A i \in 1 .. n + 1 : \E k \in F : more[i] = HeaderOf(buf, k)
  BY <1>1, <1>2, <1>5, <1>6, SMTT(30) DEF s
<1>8. \A k \in F : \E i \in 1 .. n + 1 : more[i] = HeaderOf(buf, k)
  <2>1. n + 1 \in 1 .. n + 1 /\ \A i \in 1 .. n : i \in 1 .. n + 1
    BY <1>5
  <2> QED
    BY <1>1, <1>2, <1>5, <2>1, Zenon DEF s
<1>9. \A i, j \in 1 .. n + 1 : i < j => more[i].at < more[j].at
  <2> SUFFICES ASSUME NEW i \in 1 .. n + 1, NEW j \in 1 .. n + 1, i < j
               PROVE  more[i].at < more[j].at
    OBVIOUS
  <2>1. i \in 1 .. n
    BY <1>5
  <2>2. CASE j \in 1 .. n
    BY <1>2, <1>5, <2>1, <2>2
  <2>3. CASE j = n + 1
    <3>1. PICK k \in E : headers[i] = HeaderOf(buf, k)
      BY <1>2, <2>1
    <3>2. more[i].at < d + 1
      BY <1>4, <1>5, <2>1, <3>1
    <3> QED
      BY <1>3, <1>5, <2>3, <3>2
  <2> QED
    BY <1>6, <2>2, <2>3
<1> QED
  BY <1>5, <1>7, <1>8, <1>9 DEF AreHeaders, F, s, more

(* What the parser keeps of a header line is its text.                      *)
LEMMA HeaderTextIs ==
  ASSUME NEW A, NEW buf \in Seq(A), NEW d \in Nat, CleanTo(buf, d),
         NEW e \in HeaderLinesTo(buf, d)
  PROVE  /\ Text(HeaderOf(buf, e), buf, 1) = LineAt(buf, e).text
         /\ buf[HeaderOf(buf, e).at] = LineAt(buf, e).text[1]
         /\ LineAt(buf, e).text[1] = "host" => HostIn(HeaderOf(buf, e), buf)
<1> DEFINE b == BeginOf(buf, e)
           to == TextEnd(buf, b, e)
           x == LineAt(buf, e)
           s == HeaderOf(buf, e)
<1>1. e \in LineEnds(buf) /\ e \in 1 .. Len(buf) /\ e \in Nat /\ e <= d /\ ~x.first
  BY DEF HeaderLinesTo, LineEnds
<1>2. b \in Nat /\ b \in 0 .. e - 1
  BY <1>1, BeginIsBefore
<1>3. x.text = SubSeq(buf, b + 1, to)
  BY LineAtFrom, LineFromIs
<1>4. Good(x) /\ ~Blank(x)
  <2>1. e \in 1 .. d
    BY <1>1
  <2> QED
    BY <1>1, <2>1 DEF CleanTo
<1>5. IsHeaderLine(x.text)
  BY <1>1, <1>4 DEF Good
<1>6. PICK i \in 1 .. Len(x.text) : x.text[i] \in Headers
  BY <1>5 DEF IsHeaderLine
<1> HIDE DEF b, x
<1>7. to \in Nat /\ b <= to /\ to <= Len(buf) /\ Len(buf) \in Nat
  BY <1>1, <1>2 DEF TextEnd, CrlfOf
<1> HIDE DEF to
<1> DEFINE a == b + 1
<1>8. a \in Nat /\ a > 0 /\ a <= to + 1
  BY <1>2, <1>7
<1> HIDE DEF a
<1>9. Len(SubSeq(buf, a, to)) = (to - a) + 1
  BY <1>7, <1>8
<1>10. x.text = SubSeq(buf, a, to)
  BY <1>3 DEF a
<1>11. Len(x.text) = (to - a) + 1 /\ a <= to
  <2>1. Len(x.text) = (to - a) + 1
    BY <1>9, <1>10
  <2>2. i \in 1 .. (to - a) + 1
    BY <2>1
  <2> QED
    BY <1>7, <1>8, <2>1, <2>2
<1>12. SubSeq(buf, a, to)[1] = buf[a]
  BY <1>7, <1>8, <1>11
<1>13. s.base = 1 /\ s.at = a /\ s.size = (to - a) + 1
  BY <1>11 DEF HeaderOf, Str, a, b, x
<1> HIDE DEF s
<1>14. s.at + s.size - 1 = to
  BY <1>7, <1>8, <1>13
<1>15. Text(s, buf, 1) = SubSeq(buf, a, to)
  <2>1. s # NoStr
    BY <1>13 DEF NoStr
  <2>2. Text(s, buf, 1) = SubSeq(buf, s.at, s.at + s.size - 1)
    BY <1>13, <2>1 DEF Text
  <2> QED
    BY <1>13, <1>14, <2>2
<1>16. x.text[1] = "host" => HostIn(s, buf)
  BY <1>7, <1>8, <1>10, <1>11, <1>12, <1>13, <1>14 DEF HostIn
<1> QED
  BY <1>10, <1>12, <1>13, <1>15, <1>16 DEF s, x

(* What the loop over the header lines knows after a turn.                  *)
Turned(r, buf) ==
  \/ r.res = "go" /\ InHeader(r, buf)
  \/ r.res = "go" /\ PastHeader(r, buf) /\ r.length = 0
  \/ r.res = "more" /\ InHeader(r, buf) /\ NoEnd(buf, r.done, Len(buf) + 1)
  \/ r.res = "failed" /\ WrongFirst(buf)

LEMMA HeaderTakenAt ==
  ASSUME NEW A, NEW buf \in Seq(A), NEW r, Within(r, Len(buf)), r.res = "go", InHeader(r, buf),
         NEW l, l.next \in LineEnds(buf), r.done < l.next, NoEnd(buf, r.done, l.next),
         l.text = LineAt(buf, l.next).text, Len(l.text) \in Nat,
         ~LineAt(buf, l.next).first, BeginOf(buf, l.next) = r.done,
         Good(LineAt(buf, l.next)), ~Blank(LineAt(buf, l.next))
  PROVE  Turned(HeaderTaken(r, l), buf)
<1> DEFINE e == l.next
           s == Str(r.base, r.done + 1, Len(l.text))
           h == IF r.hostname = NoStr /\ l.text[1] = "host" THEN s ELSE r.hostname
           q == HeaderTaken(r, l)
<1>1. /\ r \in Parsers /\ r.done \in Nat /\ r.base = 1 /\ r.step = "uri_done" /\ r.length = 0
      /\ r.hostname \in Strs /\ r.headers \in Seq(Strs) /\ e \in Nat
      /\ CleanTo(buf, r.done) /\ AreHeaders(r.headers, buf, r.done)
  BY DEF Within, Parsers, InHeader, LineEnds
<1>2. s \in Strs /\ s = HeaderOf(buf, e)
  <2>1. s \in Strs
    BY <1>1 DEF Str, Strs
  <2>2. s = Str(1, BeginOf(buf, e) + 1, Len(LineAt(buf, e).text))
    BY <1>1
  <2> QED
    BY <2>1, <2>2 DEF HeaderOf
<1>3. q = [r EXCEPT !.headers = Append(@, s), !.done = e, !.hostname = h]
  BY DEF HeaderTaken
<1>4. h \in Strs
  BY <1>1, <1>2
<1> HIDE DEF s, h, q
<1>5. Append(r.headers, s) \in Seq(Strs)
  BY <1>1, <1>2
<1>6. q.headers = Append(r.headers, s) /\ q.done = e /\ q.base = 1 /\ q.step = "uri_done"
      /\ q.length = 0 /\ q.res = "go"
  BY <1>1, <1>3, <1>4, <1>5 DEF Parsers
<1>7. AreHeaders(Append(r.headers, s), buf, e)
  BY <1>1, <1>2, HeadersLonger
<1>8. CleanTo(buf, e)
  BY <1>1, CleanLonger
<1>9. Named(q, buf)
  <2>1. q.uri = r.uri /\ q.version = r.version /\ q.vars = r.vars /\ q.hostname = h
    BY <1>1, <1>3, <1>4, <1>5 DEF Parsers
  <2>2. Named(r, buf)
    BY DEF InHeader
  <2>3. e \in HeaderLinesTo(buf, e)
    BY <1>1 DEF HeaderLinesTo
  <2>4. l.text[1] = "host" => HostIn(s, buf)
    BY <1>1, <1>2, <1>8, <2>3, HeaderTextIs
  <2>5. HostIn(h, buf)
    BY <2>2, <2>4 DEF h, Named
  <2> QED
    BY <2>1, <2>2, <2>5 DEF Named
<1>10. InHeader(q, buf)
  BY <1>6, <1>7, <1>8, <1>9 DEF InHeader
<1> QED
  BY <1>6, <1>10 DEF Turned, q

LEMMA HeaderLineTurns ==
  ASSUME NEW A, NEW buf \in Seq(A), NEW r, Within(r, Len(buf)), r.res = "go", InHeader(r, buf)
  PROVE  Turned(HeaderLine(r, buf), buf)
<1> DEFINE l == NextLine(buf, r.done)
           d == r.done
           q == HeaderLine(r, buf)
<1>1. /\ r \in Parsers /\ d \in Nat /\ d \in LineEnds(buf) /\ d > 0 /\ r.base = 1
      /\ r.step = "uri_done" /\ r.length = 0 /\ r.headers \in Seq(Strs)
      /\ CleanTo(buf, d) /\ AreHeaders(r.headers, buf, d) /\ Named(r, buf)
  BY DEF Within, Parsers, InHeader, LineEnds
<1>2. /\ l.res \in {"more", "failed", "ok"}
      /\ l.res = "more" => NoEnd(buf, d, Len(buf) + 1)
      /\ l.res = "failed" => \E i \in d + 1 .. Len(buf) : buf[i] = "nul" /\ NoEnd(buf, d, i)
      /\ l.res = "ok" =>
           /\ l.next \in LineEnds(buf) /\ l.next \in Nat
           /\ d < l.next /\ NoEnd(buf, d, l.next)
           /\ l.text = LineAt(buf, l.next).text
           /\ l.crlf <=> LineAt(buf, l.next).crlf
           /\ LineAt(buf, l.next).first <=> d = 0
           /\ LineAt(buf, l.next) = LineFrom(buf, d, l.next)
           /\ BeginOf(buf, l.next) = d
  BY <1>1, NextLineAt
<1>3. l.res = "ok" => Len(l.text) \in Nat
  BY <1>1, NextLineIs
<1>4. q = IF l.res # "ok" THEN [r EXCEPT !.res = l.res]
          ELSE IF l.text = <<>> /\ l.crlf
          THEN [r EXCEPT !.done = l.next, !.step = "header_done"]
          ELSE IF ~IsHeaderLine(l.text) THEN [r EXCEPT !.res = "failed"]
          ELSE HeaderTaken(r, l)
  BY <1>1 DEF HeaderLine
<1> HIDE DEF l, q, d
<1>5. CASE l.res = "more"
  <2>1. q = [r EXCEPT !.res = "more"]
    BY <1>4, <1>5
  <2>2. q.res = "more" /\ q.base = 1 /\ q.step = "uri_done" /\ q.length = 0 /\ q.done = d
        /\ q.headers = r.headers /\ SameNames(r, q)
    BY <1>1, <2>1 DEF Parsers, d, SameNames
  <2>3. InHeader(q, buf)
    BY <1>1, <2>2, NamedSame DEF InHeader
  <2> QED
    BY <1>2, <1>5, <2>2, <2>3 DEF Turned, q
<1>6. CASE l.res = "failed"
  <2>1. q = [r EXCEPT !.res = "failed"]
    BY <1>4, <1>6
  <2>2. q.res = "failed"
    BY <1>1, <2>1 DEF Parsers
  <2>3. PICK i \in d + 1 .. Len(buf) : buf[i] = "nul" /\ NoEnd(buf, d, i)
    BY <1>2, <1>6
  <2>4. i \in Wrong(buf) /\ i \notin HeaderEnd(buf) /\ d < i
    BY <1>1, <2>3 DEF Wrong, HeaderEnd, LineEnds
  <2>5. WrongFirst(buf)
    BY <1>1, <2>3, <2>4, WrongIsFirst
  <2> QED
    BY <2>2, <2>5 DEF Turned, q
<1>7. CASE l.res = "ok"
  <2> DEFINE e == l.next
             x == LineAt(buf, e)
  <2>1. e \in LineEnds(buf) /\ e \in Nat /\ d < e /\ NoEnd(buf, d, e) /\ l.text = x.text
        /\ ~x.first /\ BeginOf(buf, e) = d
    BY <1>1, <1>2, <1>7
  <2>2. (l.text = <<>> /\ l.crlf) <=> Blank(x)
    BY <1>1, <1>2, <1>7 DEF Blank
  <2>3. Good(x) <=> Blank(x) \/ IsHeaderLine(l.text)
    BY <2>1 DEF Good
  <2> HIDE DEF x
  <2>4. CASE l.text = <<>> /\ l.crlf
    <3>1. q = [r EXCEPT !.done = e, !.step = "header_done"]
      BY <1>4, <1>7, <2>4
    <3>2. q.res = "go" /\ q.base = 1 /\ q.step = "header_done" /\ q.length = 0 /\ q.done = e
          /\ q.headers = r.headers /\ SameNames(r, q)
      BY <1>1, <3>1 DEF Parsers, SameNames
    <3>3. e \in HeaderEnd(buf)
      BY <2>1, <2>2, <2>4 DEF HeaderEnd, x
    <3>4. CleanTo(buf, e - 1) /\ HeaderLinesTo(buf, e - 1) = HeaderLinesTo(buf, d)
      BY <1>1, <2>1, CleanLonger, HeaderLinesLonger
    <3>5. AreHeaders(r.headers, buf, e - 1)
      BY <1>1, <3>4 DEF AreHeaders
    <3>6. PastHeader(q, buf)
      BY <1>1, <3>2, <3>3, <3>4, <3>5, NamedSame DEF PastHeader
    <3> QED
      BY <3>2, <3>6 DEF Turned, q
  <2>5. CASE ~(l.text = <<>> /\ l.crlf) /\ ~IsHeaderLine(l.text)
    <3>1. q = [r EXCEPT !.res = "failed"]
      BY <1>4, <1>7, <2>5
    <3>2. q.res = "failed"
      BY <1>1, <3>1 DEF Parsers
    <3>3. ~Good(x) /\ ~Blank(x)
      BY <2>2, <2>3, <2>5
    <3>4. e \in Wrong(buf) /\ e \notin HeaderEnd(buf)
      BY <2>1, <3>3 DEF Wrong, HeaderEnd, x
    <3>5. WrongFirst(buf)
      BY <1>1, <2>1, <3>4, WrongIsFirst
    <3> QED
      BY <3>2, <3>5 DEF Turned, q
  <2>6. CASE ~(l.text = <<>> /\ l.crlf) /\ IsHeaderLine(l.text)
    <3>1. q = HeaderTaken(r, l)
      BY <1>4, <1>7, <2>6
    <3>2. Good(x) /\ ~Blank(x)
      BY <2>2, <2>3, <2>6
    <3>3. Turned(HeaderTaken(r, l), buf)
      BY <1>3, <1>7, <2>1, <3>2, HeaderTakenAt DEF x, d
    <3> QED
      BY <3>1, <3>3 DEF q
  <2> QED
    BY <2>4, <2>5, <2>6
<1> QED
  BY <1>2, <1>5, <1>6, <1>7

(* The loop, however many turns it takes.                                   *)
LEMMA HeaderLinesTurn ==
  ASSUME NEW A, NEW buf \in Seq(A), NEW r, Within(r, Len(buf)), r.res = "go", InHeader(r, buf)
  PROVE  Turned(HeaderLines(r, buf), buf)
<1> DEFINE n == Len(buf) + 1
           f == CHOOSE g : g = [turns \in 0 .. Len(buf) + 1 |->
                                  IF turns = 0 THEN r ELSE HeaderLine(g[turns - 1], buf)]
           Sound(q) == Within(q, Len(buf)) /\ Turned(q, buf)
           Unsound == {k \in 0 .. n : ~Sound(f[k])}
<1>1. Len(buf) \in Nat /\ n \in Nat
  OBVIOUS
<1>2. AreTurns(f, r, buf, n)
  <2>1. \E g : AreTurns(g, r, buf, Len(buf) + 1)
    BY <1>1, TurnsAreThere
  <2>2. \E g : g = [turns \in 0 .. Len(buf) + 1 |->
                    IF turns = 0 THEN r ELSE HeaderLine(g[turns - 1], buf)]
    BY <2>1 DEF AreTurns
  <2> QED
    BY <2>2, Zenon DEF AreTurns
<1>3. HeaderLines(r, buf) = f[n]
  BY DEF HeaderLines
<1> HIDE DEF f
<1>4. Unsound = {}
  <2>1. SUFFICES ASSUME Unsound # {} PROVE FALSE
    OBVIOUS
  <2>2. PICK b \in Unsound : \A k \in Unsound : b <= k
    <3>1. Unsound \in SUBSET Nat
      BY <1>1
    <3> HIDE DEF Unsound
    <3> QED
      BY <2>1, <3>1, LeastIsThere
  <2>3. b \in 0 .. n /\ b \in Nat /\ ~Sound(f[b])
    BY <1>1, <2>2
  <2>4. CASE b = 0
    <3>1. f[b] = r
      BY <1>2, <2>3, <2>4 DEF AreTurns
    <3>2. Turned(r, buf)
      BY DEF Turned
    <3> QED
      BY <2>3, <3>1, <3>2
  <2>5. CASE b # 0
    <3> DEFINE q == f[b - 1]
    <3>1. b - 1 \in 0 .. n /\ ~(b <= b - 1)
      BY <1>1, <2>3, <2>5
    <3>2. b - 1 \notin Unsound
      BY <2>2, <3>1
    <3>3. Sound(q)
      BY <3>1, <3>2
    <3>4. f[b] = HeaderLine(q, buf)
      BY <1>2, <2>3, <2>5 DEF AreTurns
    <3> HIDE DEF q
    <3>5. CASE q.res = "go" /\ InHeader(q, buf)
      <4>1. Turned(HeaderLine(q, buf), buf)
        BY <3>3, <3>5, HeaderLineTurns
      <4>2. q.step = "uri_done"
        BY <3>5 DEF InHeader
      <4>3. Within(HeaderLine(q, buf), Len(buf))
        BY <3>3, <3>5, <4>2, HeaderLineIs
      <4> QED
        BY <2>3, <3>4, <4>1, <4>3
    <3>6. CASE ~(q.res = "go" /\ InHeader(q, buf))
      <4>1. q.res # "go" \/ q.step = "header_done"
        BY <3>3, <3>6 DEF Turned, PastHeader
      <4>2. HeaderLine(q, buf) = q
        BY <4>1 DEF HeaderLine
      <4> QED
        BY <2>3, <3>3, <3>4, <4>2
    <3> QED
      BY <3>5, <3>6
  <2> QED
    BY <2>4, <2>5
<1>5. Sound(f[n])
  <2>1. n \in 0 .. n
    BY <1>1
  <2> QED
    BY <1>4, <2>1
<1> QED
  BY <1>3, <1>5

(* What the first line leaves.                                              *)
Begun(r, buf) ==
  \/ r.res = "go" /\ InHeader(r, buf)
  \/ r.res = "more" /\ AtStart(r) /\ NoEnd(buf, 0, Len(buf) + 1)
  \/ r.res = "failed" /\ WrongFirst(buf)

LEMMA RequestLineBegins ==
  ASSUME NEW A, NEW buf \in Seq(A), NEW r, Within(r, Len(buf)), r.res = "go",
         AtStart(r), r.base = 1
  PROVE  Begun(RequestLine(r, buf), buf)
<1> DEFINE l == NextLine(buf, 0)
           s == Str(r.base, 1, 1)
           e == l.next
           x == LineAt(buf, e)
           q == RequestLine(r, buf)
<1>1. /\ r \in Parsers /\ r.done = 0 /\ r.length = 0 /\ r.headers = <<>> /\ r.step = "initial"
      /\ r.hostname = NoStr /\ r.base = 1
      /\ 0 \in Nat
  BY DEF Within, AtStart
<1>2. /\ l.res \in {"more", "failed", "ok"}
      /\ l.res = "more" => NoEnd(buf, 0, Len(buf) + 1)
      /\ l.res = "failed" => \E i \in 0 + 1 .. Len(buf) : buf[i] = "nul" /\ NoEnd(buf, 0, i)
      /\ l.res = "ok" =>
           /\ e \in LineEnds(buf) /\ e \in Nat
           /\ 0 < e /\ NoEnd(buf, 0, e) /\ l.text = x.text
           /\ x.first <=> 0 = 0
  BY <1>1, NextLineAt
<1>3. s \in Strs
  BY DEF Str, Strs, AtStart
<1>4. q = IF l.res # "ok" THEN [r EXCEPT !.res = l.res]
          ELSE IF ~IsRequestLine(l.text) THEN [r EXCEPT !.res = "failed"]
          ELSE [r EXCEPT !.uri = s, !.version = s, !.vars = s,
                         !.done = e, !.step = "uri_done"]
  BY <1>1 DEF RequestLine
<1>5. CleanTo(buf, 0) /\ HeaderLinesTo(buf, 0) = {}
  BY DEF CleanTo, HeaderLinesTo, LineEnds
<1> HIDE DEF l, s, q
<1>6. CASE l.res = "more"
  <2>1. q = [r EXCEPT !.res = "more"]
    BY <1>4, <1>6
  <2>2. q.res = "more" /\ q.base = 1 /\ q.step = "initial" /\ q.length = 0 /\ q.done = 0
        /\ q.headers = <<>> /\ q.hostname = NoStr
    BY <1>1, <2>1 DEF Parsers
  <2>3. AtStart(q)
    BY <2>2 DEF AtStart
  <2> QED
    BY <1>2, <1>6, <2>2, <2>3 DEF Begun, q
<1>7. CASE l.res = "failed"
  <2>1. q = [r EXCEPT !.res = "failed"]
    BY <1>4, <1>7
  <2>2. q.res = "failed"
    BY <1>1, <2>1 DEF Parsers
  <2>3. PICK i \in 0 + 1 .. Len(buf) : buf[i] = "nul" /\ NoEnd(buf, 0, i)
    BY <1>2, <1>7
  <2>4. i \in Wrong(buf) /\ i \notin HeaderEnd(buf) /\ 0 < i
    BY <2>3 DEF Wrong, HeaderEnd, LineEnds
  <2>5. WrongFirst(buf)
    BY <1>1, <1>5, <2>3, <2>4, WrongIsFirst
  <2> QED
    BY <2>2, <2>5 DEF Begun, q
<1>8. CASE l.res = "ok"
  <2> HIDE DEF x, e
  <2>1. /\ e \in LineEnds(buf) /\ e \in Nat /\ 0 < e /\ NoEnd(buf, 0, e)
        /\ l.text = x.text /\ x.first
    BY <1>2, <1>8
  <2>2. ~Blank(x) /\ (Good(x) <=> IsRequestLine(l.text))
    BY <2>1 DEF Blank, Good
  <2>3. CASE ~IsRequestLine(l.text)
    <3>1. q = [r EXCEPT !.res = "failed"]
      BY <1>4, <1>8, <2>3
    <3>2. q.res = "failed"
      BY <1>1, <3>1 DEF Parsers
    <3>3. e \in Wrong(buf) /\ e \notin HeaderEnd(buf)
      BY <2>1, <2>2, <2>3 DEF Wrong, HeaderEnd, x
    <3>4. WrongFirst(buf)
      BY <1>1, <1>5, <2>1, <3>3, WrongIsFirst
    <3> QED
      BY <3>2, <3>4 DEF Begun, q
  <2>4. CASE IsRequestLine(l.text)
    <3>1. q = [r EXCEPT !.uri = s, !.version = s, !.vars = s, !.done = e, !.step = "uri_done"]
      BY <1>4, <1>8, <2>4
    <3>2. q.res = "go" /\ q.base = 1 /\ q.step = "uri_done" /\ q.length = 0 /\ q.done = e
          /\ q.headers = <<>>
          /\ q.uri = s /\ q.version = s /\ q.vars = s /\ q.hostname = NoStr
      BY <1>1, <1>3, <2>1, <3>1 DEF Parsers
    <3>3. CleanTo(buf, e)
      BY <1>1, <1>5, <2>1, <2>2, <2>4, CleanLonger DEF x
    <3>4. HeaderLinesTo(buf, e) = {}
      <4>1. HeaderLinesTo(buf, e) = HeaderLinesTo(buf, 0)
        BY <1>1, <2>1, HeaderLinesLonger DEF x
      <4> QED
        BY <1>5, <4>1
    <3>5. AreHeaders(<<>>, buf, e)
      <4>1. \A i \in 1 .. Len(<<>>) : FALSE
        OBVIOUS
      <4> QED
        BY <3>4, <4>1 DEF AreHeaders
    <3>6. Named(q, buf)
      BY <1>1, <3>2 DEF Named, HostIn, s
    <3>7. InHeader(q, buf)
      BY <2>1, <3>2, <3>3, <3>5, <3>6 DEF InHeader
    <3> QED
      BY <3>2, <3>7 DEF Begun, q
  <2> QED
    BY <2>3, <2>4
<1> QED
  BY <1>2, <1>6, <1>7, <1>8

LEMMA NothingToSay ==
  ASSUME NEW A, NEW buf \in Seq(A), NEW d \in Nat, CleanTo(buf, d), NoEnd(buf, d, Len(buf) + 1)
  PROVE  Whole(buf) = [res |-> "more", bytes |-> 0]
<1>1. \A i \in 1 .. Len(buf) : i \in 1 .. d \/ i \in d + 1 .. (Len(buf) + 1) - 1
  OBVIOUS
<1>2. Wrong(buf) = {} /\ HeaderEnd(buf) = {}
  <2>1. ASSUME NEW i \in 1 .. Len(buf)
        PROVE  buf[i] # "nul" /\ (i \in LineEnds(buf) => Good(LineAt(buf, i)) /\ ~Blank(LineAt(buf, i)))
    <3>1. CASE i \in 1 .. d
      BY <3>1, Zenon DEF CleanTo
    <3>2. CASE i \in d + 1 .. (Len(buf) + 1) - 1
      <4>1. buf[i] \notin {"lf", "nul"}
        BY <3>2 DEF NoEnd
      <4> QED
        BY <4>1 DEF LineEnds
    <3> QED
      BY <1>1, <3>1, <3>2
  <2>2. \A i \in LineEnds(buf) : i \in 1 .. Len(buf)
    BY DEF LineEnds
  <2> QED
    BY <2>1, <2>2 DEF Wrong, HeaderEnd
<1> QED
  BY <1>2 DEF Whole

LEMMA WholeIsWrong ==
  ASSUME NEW buf, WrongFirst(buf)
  PROVE  Whole(buf) = [res |-> "failed", bytes |-> 0]
BY Zenon DEF Whole, WrongFirst

LEMMA WholeIsRead ==
  ASSUME NEW A, NEW buf \in Seq(A), NEW h \in HeaderEnd(buf), CleanTo(buf, h - 1)
  PROVE  Whole(buf) = IF SaidLength(buf, h) > MaxLength THEN [res |-> "failed", bytes |-> 0]
                      ELSE IF h + SaidLength(buf, h) > Len(buf) THEN [res |-> "more", bytes |-> 0]
                      ELSE [res |-> "ok", bytes |-> h + SaidLength(buf, h)]
<1>1. h \in LineEnds(buf) /\ h \in Nat /\ h > 0
  BY DEF HeaderEnd, LineEnds
<1>2. ASSUME NEW e \in HeaderEnd(buf) PROVE h <= e /\ e \in Nat
  <2>1. e \in LineEnds(buf) /\ Blank(LineAt(buf, e)) /\ e \in Nat /\ e > 0
    BY DEF HeaderEnd, LineEnds
  <2>2. ~(e <= h - 1)
    BY <1>1, <2>1 DEF CleanTo
  <2> QED
    BY <1>1, <2>1, <2>2
<1>3. ASSUME NEW i \in Wrong(buf) PROVE ~(i < h)
  <2>1. i \in 1 .. Len(buf) /\ (buf[i] = "nul" \/ (i \in LineEnds(buf) /\ ~Good(LineAt(buf, i))))
    BY DEF Wrong, LineEnds
  <2>2. i \notin 1 .. h - 1
    BY <2>1, Zenon DEF CleanTo
  <2> QED
    BY <1>1, <2>1, <2>2
<1>4. Min(HeaderEnd(buf)) = h
  <2>1. HeaderEnd(buf) \in SUBSET Nat /\ HeaderEnd(buf) # {}
    BY <1>2
  <2>2. Min(HeaderEnd(buf)) \in HeaderEnd(buf) /\ Min(HeaderEnd(buf)) <= h
    BY <2>1, LeastIsThere
  <2> DEFINE m == Min(HeaderEnd(buf))
  <2> HIDE DEF m
  <2>3. m \in Nat /\ h <= m
    BY <1>2, <2>2 DEF m
  <2>4. m <= h
    BY <2>2 DEF m
  <2>5. m = h
    BY <1>1, <2>3, <2>4
  <2> QED
    BY <2>5 DEF m
<1>5. ~\E i \in Wrong(buf) : \A e \in HeaderEnd(buf) : i < e
  BY <1>3
<1>6. HeaderEnd(buf) # {}
  OBVIOUS
<1> QED
  BY <1>4, <1>5, <1>6, Zenon DEF Whole, SaidLength

LEMMA BeginsAreApart ==
  ASSUME NEW A, NEW buf \in Seq(A), NEW e \in LineEnds(buf), NEW f \in LineEnds(buf), e < f
  PROVE  BeginOf(buf, e) < BeginOf(buf, f)
<1>1. e \in 1 .. Len(buf) /\ f \in 1 .. Len(buf) /\ e \in Nat /\ f \in Nat
  BY DEF LineEnds
<1>2. BeginOf(buf, e) \in Nat /\ BeginOf(buf, e) \in 0 .. e - 1
  BY <1>1, BeginIsBefore
<1>3. BeginOf(buf, f) \in Nat /\ e <= BeginOf(buf, f)
  BY <1>1, BeginIsBefore
<1> DEFINE x == BeginOf(buf, e)
           y == BeginOf(buf, f)
<1> HIDE DEF x, y
<1>4. x \in Nat /\ x \in 0 .. e - 1 /\ y \in Nat /\ e <= y
  BY <1>2, <1>3 DEF x, y
<1>5. x < y
  BY <1>1, <1>4
<1> QED
  BY <1>5 DEF x, y

(* header(Content_Length) finds the first of them in the text.              *)
LEMMA ContentLengthAt ==
  ASSUME NEW A, NEW buf \in Seq(A), NEW r, Within(r, Len(buf)), PastHeader(r, buf), NEW junk
  PROVE  ContentLength(r, buf, junk) = SaidLength(buf, r.done)
<1> DEFINE headers == r.headers
           n == Len(headers)
           h == r.done
           Long == {"len1", "len2", "huge"}
           E == HeaderLinesTo(buf, h - 1)
           T == Lengths(buf, h)
           found == {i \in DOMAIN r.headers : Text(r.headers[i], buf, r.base)[1] \in Long}
<1>1. /\ headers \in Seq(Strs) /\ DOMAIN headers = 1 .. n /\ n \in Nat /\ r.base = 1
      /\ h \in Nat /\ h \in LineEnds(buf) /\ h - 1 \in Nat
      /\ CleanTo(buf, h - 1) /\ AreHeaders(headers, buf, h - 1)
  BY DEF Within, Parsers, PastHeader, HeaderEnd, LineEnds
<1>2. /\ \A i \in 1 .. n : \E e \in E : headers[i] = HeaderOf(buf, e)
      /\ \A e \in E : \E i \in 1 .. n : headers[i] = HeaderOf(buf, e)
      /\ \A i, j \in 1 .. n : i < j => headers[i].at < headers[j].at
  BY <1>1 DEF AreHeaders
<1>3. \A e \in E : e \in LineEnds(buf) /\ e \in Nat /\ e < h /\ ~LineAt(buf, e).first
  BY <1>1 DEF HeaderLinesTo, LineEnds
<1>4. \A e \in E : /\ Text(HeaderOf(buf, e), buf, 1) = LineAt(buf, e).text
                   /\ buf[HeaderOf(buf, e).at] = LineAt(buf, e).text[1]
  BY <1>1, HeaderTextIs
<1>5. ASSUME NEW e PROVE e \in T <=> e \in E /\ LineAt(buf, e).text[1] \in Long
  <2>1. e \in LineEnds(buf) => (e < h <=> e <= h - 1)
    BY <1>1 DEF LineEnds
  <2> QED
    BY <2>1 DEF Lengths, HeaderLinesTo
<1>6. \A e \in E : HeaderOf(buf, e).base = 1 /\ HeaderOf(buf, e).at = BeginOf(buf, e) + 1
  BY DEF HeaderOf, Str
<1>7. ~\E i \in DOMAIN headers : headers[i].base # r.base
  BY <1>1, <1>2, <1>6
<1> HIDE DEF E, T
<1>8. \A i \in 1 .. n, e \in E : headers[i] = HeaderOf(buf, e) => (i \in found <=> e \in T)
  BY <1>1, <1>4, <1>5
<1>9. ContentLength(r, buf, junk) =
        IF found = {} THEN 0 ELSE LengthOf(buf[headers[Min(found)].at])
  BY <1>7, Zenon DEF ContentLength
<1>10. SaidLength(buf, h) = IF T = {} THEN 0 ELSE LengthOf(LineAt(buf, Min(T)).text[1])
  BY Zenon DEF SaidLength, T
<1>11. found \in SUBSET Nat /\ found \subseteq 1 .. n
  BY <1>1
<1> HIDE DEF found, headers, h, n
<1>12. CASE T = {}
  <2>1. found = {}
    BY <1>2, <1>8, <1>11, <1>12
  <2> QED
    BY <1>9, <1>10, <1>12, <2>1 DEF h
<1>13. CASE T # {}
  <2>1. T \in SUBSET Nat
    BY <1>3, <1>5
  <2> DEFINE first == Min(T)
             m == Min(found)
  <2>2. first \in T /\ \A e \in T : first <= e
    BY <1>13, <2>1, LeastIsThere
  <2>3. PICK j \in 1 .. n : headers[j] = HeaderOf(buf, first)
    BY <1>2, <1>5, <2>2
  <2>4. j \in found
    BY <1>5, <1>8, <2>2, <2>3
  <2>5. m \in found /\ \A i \in found : m <= i
    BY <1>11, <2>4, LeastIsThere
  <2> HIDE DEF first, m
  <2>6. m \in 1 .. n /\ m \in Nat /\ j \in Nat /\ m <= j
    BY <1>1, <1>11, <2>4, <2>5
  <2>7. PICK e \in E : headers[m] = HeaderOf(buf, e)
    BY <1>2, <2>6
  <2>8. e \in T /\ e \in Nat /\ first \in Nat /\ first <= e /\ first \in E
    BY <1>3, <1>5, <1>8, <2>2, <2>5, <2>6, <2>7
  <2>9. ~(first < e)
    <3>1. SUFFICES ASSUME first < e PROVE FALSE
      OBVIOUS
    <3>2. BeginOf(buf, first) < BeginOf(buf, e)
      BY <1>3, <2>8, <3>1, BeginsAreApart
    <3>3. BeginOf(buf, first) \in Nat /\ BeginOf(buf, e) \in Nat
      <4>1. first \in 1 .. Len(buf) /\ e \in 1 .. Len(buf)
        BY <1>3, <2>8 DEF LineEnds
      <4> QED
        BY <4>1, BeginIsBefore
    <3>4. headers[j].at = BeginOf(buf, first) + 1 /\ headers[m].at = BeginOf(buf, e) + 1
      BY <1>6, <2>3, <2>7, <2>8
    <3>5. headers[j].at < headers[m].at
      BY <3>2, <3>3, <3>4
    <3>6. m # j /\ ~(headers[m].at < headers[j].at)
      BY <3>2, <3>3, <3>4
    <3>7. m < j
      BY <2>6, <3>6
    <3> QED
      BY <1>2, <2>6, <3>6, <3>7
  <2>10. e = first
    BY <2>8, <2>9
  <2>11. buf[headers[m].at] = LineAt(buf, first).text[1]
    BY <1>4, <2>7, <2>10
  <2>12. found # {}
    BY <2>4
  <2> QED
    BY <1>9, <1>10, <1>13, <2>11, <2>12 DEF h, m, first
<1> QED
  BY <1>12, <1>13

(* A request that was parsed: its bytes, its headers and its content are    *)
(* those that a look at buf shows.                                          *)
IsRead(r, buf) ==
  /\ r.base = 1 /\ Named(r, buf)
  /\ \E h \in HeaderEnd(buf) :
       /\ CleanTo(buf, h - 1) /\ AreHeaders(r.headers, buf, h - 1)
       /\ r.content = Str(1, h + 1, SaidLength(buf, h))

(* What on_received() makes of the parser's answer.                         *)
Answer(r) == [res |-> r.res, bytes |-> IF r.res = "ok" THEN r.done ELSE 0]

LEMMA ContentAsWhole ==
  ASSUME NEW A, NEW buf \in Seq(A), NEW r, Within(r, Len(buf)), PastHeader(r, buf), NEW junk \in Nat
  PROVE  LET q == Content(r, buf, junk)
         IN  /\ Answer(q) = Whole(buf) /\ (q.res = "more" => PastHeader(q, buf))
             /\ q.res = "ok" => IsRead(q, buf)
<1> DEFINE h == r.done
           n == SaidLength(buf, h)
           s == Str(r.base, r.done + 1, n)
           q == Content(r, buf, junk)
<1>1. /\ r \in Parsers /\ h \in Nat /\ h \in HeaderEnd(buf) /\ CleanTo(buf, h - 1)
      /\ r.length \in {0, n} /\ r.base = 1 /\ r.step = "header_done" /\ Len(buf) \in Nat
      /\ AreHeaders(r.headers, buf, h - 1) /\ Named(r, buf)
  BY DEF Within, Parsers, PastHeader
<1>2. ContentLength(r, buf, junk) = n
  BY ContentLengthAt
<1>3. n \in Nat
  <2>1. ContentLength(r, buf, junk) \in Nat
    BY <1>1, ContentLengthIs
  <2> QED
    BY <1>2, <2>1
<1>4. (IF r.length = 0 THEN ContentLength(r, buf, junk) ELSE r.length) = n
  BY <1>1, <1>2
<1>5. s \in Strs
  BY <1>1, <1>3 DEF Str, Strs
<1>6. Whole(buf) = IF n > MaxLength THEN [res |-> "failed", bytes |-> 0]
                   ELSE IF h + n > Len(buf) THEN [res |-> "more", bytes |-> 0]
                   ELSE [res |-> "ok", bytes |-> h + n]
  BY <1>1, WholeIsRead
<1>7. q = IF n > MaxLength THEN [r EXCEPT !.res = "failed"]
          ELSE IF h + n > Len(buf) THEN [r EXCEPT !.length = n, !.res = "more"]
          ELSE [r EXCEPT !.length = n, !.content = s,
                         !.done = h + n, !.step = "content_done", !.res = "ok"]
  BY <1>4, Zenon DEF Content, Incomplete
<1> HIDE DEF n, s, q
<1>8. CASE n > MaxLength
  <2>1. q = [r EXCEPT !.res = "failed"] /\ Whole(buf) = [res |-> "failed", bytes |-> 0]
    BY <1>6, <1>7, <1>8
  <2>2. q.res = "failed"
    BY <1>1, <2>1 DEF Parsers
  <2> QED
    BY <2>1, <2>2 DEF Answer, q
<1>9. CASE ~(n > MaxLength) /\ h + n > Len(buf)
  <2>1. q = [r EXCEPT !.length = n, !.res = "more"] /\ Whole(buf) = [res |-> "more", bytes |-> 0]
    BY <1>6, <1>7, <1>9
  <2>2. q.res = "more" /\ q.base = 1 /\ q.step = "header_done" /\ q.length = n
        /\ q.done = h /\ q.headers = r.headers /\ SameNames(r, q)
    BY <1>1, <2>1 DEF Parsers, SameNames
  <2>3. PastHeader(q, buf)
    BY <1>1, <2>2, NamedSame DEF PastHeader, n
  <2> QED
    BY <2>1, <2>2, <2>3 DEF Answer, q
<1>10. CASE ~(n > MaxLength) /\ ~(h + n > Len(buf))
  <2>1. /\ q = [r EXCEPT !.length = n, !.content = s,
                         !.done = h + n, !.step = "content_done", !.res = "ok"]
        /\ Whole(buf) = [res |-> "ok", bytes |-> h + n]
    BY <1>6, <1>7, <1>10
  <2>2. q.res = "ok" /\ q.done = h + n /\ q.base = 1 /\ q.headers = r.headers
        /\ q.content = s /\ SameNames(r, q)
    BY <1>1, <1>3, <1>5, <2>1 DEF Parsers, SameNames
  <2>3. q.content = Str(1, h + 1, SaidLength(buf, h))
    BY <1>1, <2>2 DEF s, n
  <2>4. IsRead(q, buf)
    BY <1>1, <2>2, <2>3, NamedSame DEF IsRead
  <2> QED
    BY <2>1, <2>2, <2>4 DEF Answer, q
<1> QED
  BY <1>8, <1>9, <1>10

(* The resumed parser answers what a look at everything answers, and knows  *)
(* it if it waits for more.                                                 *)
LEMMA ResumedIsWhole ==
  ASSUME NEW A, NEW buf \in Seq(A), NEW r, Within(r, Len(buf)), Resumable(r, buf),
         NEW junk \in Nat
  PROVE  LET q == ContinueToParse(r, buf, 1, junk)
         IN  /\ Answer(q) = Whole(buf) /\ (q.res = "more" => Resumable(q, buf))
             /\ q.res = "ok" => IsRead(q, buf)
<1> DEFINE r0 == [r EXCEPT !.res = "go"]
           p == Rebase(r0, 1)
           r1 == RequestLine(p, buf)
           r2 == IF r1.res = "go" /\ r1.step = "uri_done" THEN HeaderLines(r1, buf) ELSE r1
           q == ContinueToParse(r, buf, 1, junk)
<1>1. q = IF r2.res = "go" /\ r2.step = "header_done" THEN Content(r2, buf, junk)
          ELSE IF r2.step = "content_done" THEN [r2 EXCEPT !.res = "ok"]
          ELSE r2
  BY DEF ContinueToParse
<1>2. /\ r \in Parsers /\ r.base \in {0, 1} /\ HeadersAre(r.headers) /\ r.done <= Len(buf)
      /\ r.step \in {"initial", "uri_done", "header_done"}
  BY DEF Within, Resumable, AtStart, InHeader, PastHeader
<1>3. /\ r0 \in Parsers /\ r0.res = "go" /\ r0.base = r.base /\ r0.step = r.step
      /\ r0.done = r.done /\ r0.headers = r.headers /\ r0.length = r.length
      /\ SameNames(r, r0)
  BY <1>2 DEF Parsers, Results, SameNames
<1> HIDE DEF r0
<1>4. p = [r0 EXCEPT !.base = 1]
  BY <1>2, <1>3 DEF Rebase
<1> HIDE DEF p
<1>5. /\ p \in Parsers /\ p.res = "go" /\ p.base = 1 /\ p.step = r.step
      /\ p.done = r.done /\ p.headers = r.headers /\ p.length = r.length
      /\ SameNames(r, p)
  BY <1>3, <1>4 DEF Parsers, SameNames
<1>6. Within(p, Len(buf))
  BY <1>2, <1>5 DEF Within
<1>7. \/ AtStart(r) /\ AtStart(p)
      \/ InHeader(r, buf) /\ InHeader(p, buf)
      \/ PastHeader(r, buf) /\ PastHeader(p, buf)
  <2>1. Named(r, buf) => Named(p, buf)
    BY <1>5, NamedSame
  <2> QED
    BY <1>5, <2>1 DEF Resumable, AtStart, InHeader, PastHeader, SameNames
<1>8. Within(r1, Len(buf)) /\ r1.step # "content_done"
  <2>1. /\ Within(r1, Len(buf))
        /\ r1.step \notin {"initial", "uri_done"} => r1.step = p.step
    BY <1>5, <1>6, RequestLineIs
  <2> HIDE DEF r1
  <2> QED
    BY <1>2, <1>5, <2>1
<1>9. Begun(r1, buf) \/ (r1.res = "go" /\ PastHeader(r1, buf))
  <2>1. CASE AtStart(p)
    BY <1>5, <1>6, <2>1, RequestLineBegins
  <2>2. CASE InHeader(p, buf) \/ PastHeader(p, buf)
    <3>1. p.step # "initial"
      BY <2>2 DEF InHeader, PastHeader
    <3>2. r1 = p
      BY <3>1 DEF RequestLine
    <3> QED
      BY <1>5, <2>2, <3>2 DEF Begun
  <2> QED
    BY <1>7, <2>1, <2>2
<1> HIDE DEF r1
<1>10. /\ Within(r2, Len(buf)) /\ r2.step # "content_done"
       /\ r2.res = "go" => PastHeader(r2, buf)
       /\ Turned(r2, buf) \/ Begun(r2, buf) \/ (r2.res = "go" /\ PastHeader(r2, buf))
  <2>1. CASE r1.res = "go" /\ r1.step = "uri_done"
    <3>1. Within(r2, Len(buf)) /\ Stopped(r2) /\ r2.step # "content_done"
      BY <1>8, <2>1, HeaderLinesAre
    <3>2. InHeader(r1, buf)
      BY <1>9, <2>1 DEF Begun, PastHeader
    <3>3. Turned(r2, buf)
      BY <1>8, <2>1, <3>2, HeaderLinesTurn
    <3>4. r2.res = "go" => PastHeader(r2, buf)
      BY <3>1, <3>3 DEF Turned, Stopped, InHeader
    <3> QED
      BY <3>1, <3>3, <3>4
  <2>2. CASE ~(r1.res = "go" /\ r1.step = "uri_done")
    <3>1. r2 = r1
      BY <2>2
    <3>2. r1.res = "go" => PastHeader(r1, buf)
      BY <1>9, <2>2 DEF Begun, InHeader
    <3> QED
      BY <1>8, <1>9, <3>1, <3>2
  <2> QED
    BY <2>1, <2>2
<1> HIDE DEF r2
<1>11. CASE r2.res = "go"
  <2>1. PastHeader(r2, buf) /\ r2.step = "header_done"
    BY <1>10, <1>11 DEF PastHeader
  <2>2. q = Content(r2, buf, junk)
    BY <1>1, <1>11, <2>1
  <2>3. /\ Answer(q) = Whole(buf) /\ (q.res = "more" => PastHeader(q, buf))
        /\ q.res = "ok" => IsRead(q, buf)
    BY <1>10, <2>1, <2>2, ContentAsWhole
  <2> QED
    BY <2>3 DEF Resumable
<1>12. CASE r2.res = "failed" /\ WrongFirst(buf)
  <2>1. Whole(buf) = [res |-> "failed", bytes |-> 0]
    BY <1>12, WholeIsWrong
  <2>2. q = r2
    BY <1>1, <1>10, <1>12
  <2> QED
    BY <1>12, <2>1, <2>2 DEF Answer
<1>13. CASE r2.res = "more" /\ InHeader(r2, buf) /\ NoEnd(buf, r2.done, Len(buf) + 1)
  <2>1. q = r2 /\ r2.done \in Nat /\ CleanTo(buf, r2.done)
    BY <1>1, <1>10, <1>13 DEF InHeader, Within, Parsers
  <2>2. Whole(buf) = [res |-> "more", bytes |-> 0]
    BY <1>13, <2>1, NothingToSay
  <2> QED
    BY <1>13, <2>1, <2>2 DEF Answer, Resumable
<1>14. CASE r2.res = "more" /\ AtStart(r2) /\ NoEnd(buf, 0, Len(buf) + 1)
  <2>1. q = r2
    BY <1>1, <1>14 DEF AtStart
  <2>2. CleanTo(buf, 0) /\ 0 \in Nat
    BY DEF CleanTo
  <2>3. Whole(buf) = [res |-> "more", bytes |-> 0]
    BY <1>14, <2>2, NothingToSay
  <2> QED
    BY <1>14, <2>1, <2>3 DEF Answer, Resumable
<1> QED
  BY <1>10, <1>11, <1>12, <1>13, <1>14 DEF Turned, Begun

(* What comes after a request does not change it.                           *)
LEMMA SaidLengthIs ==
  ASSUME NEW buf, NEW h PROVE SaidLength(buf, h) \in Nat
<1> DEFINE T == Lengths(buf, h)
<1>1. \A atom \in {"len1", "len2", "huge"} : LengthOf(atom) \in Nat
  BY HttpRequestAssumption DEF LengthOf, Huge
<1>2. CASE T = {}
  BY <1>2 DEF SaidLength
<1>3. CASE T # {}
  <2>1. T \in SUBSET Nat
    BY DEF Lengths, LineEnds
  <2>2. Min(T) \in T
    <3> HIDE DEF T
    <3> QED
      BY <1>3, <2>1, LeastIsThere
  <2>3. LineAt(buf, Min(T)).text[1] \in {"len1", "len2", "huge"}
    BY <2>2 DEF Lengths
  <2> QED
    BY <1>1, <1>3, <2>3 DEF SaidLength
<1> QED
  BY <1>2, <1>3

(* The header of buf ends at h, and there is nothing wrong before that.     *)
EndsAt(buf, h) == h \in HeaderEnd(buf) /\ CleanTo(buf, h - 1)

LEMMA EndIsLeast ==
  ASSUME NEW A, NEW buf \in Seq(A), NEW h, EndsAt(buf, h)
  PROVE  Min(HeaderEnd(buf)) = h /\ h \in LineEnds(buf) /\ h \in 1 .. Len(buf) /\ h \in Nat
<1>1. h \in LineEnds(buf) /\ h \in 1 .. Len(buf) /\ h \in Nat /\ h > 0
  BY DEF HeaderEnd, LineEnds, EndsAt
<1>2. ASSUME NEW e \in HeaderEnd(buf) PROVE h <= e /\ e \in Nat
  <2>1. e \in LineEnds(buf) /\ Blank(LineAt(buf, e)) /\ e \in Nat /\ e > 0
    BY DEF HeaderEnd, LineEnds
  <2>2. ~(e <= h - 1)
    BY <1>1, <2>1 DEF CleanTo, EndsAt
  <2> QED
    BY <1>1, <2>1, <2>2
<1> DEFINE m == Min(HeaderEnd(buf))
<1>3. m \in HeaderEnd(buf) /\ m <= h
  <2>1. HeaderEnd(buf) \in SUBSET Nat /\ h \in HeaderEnd(buf)
    BY <1>2 DEF EndsAt
  <2> QED
    BY <2>1, LeastIsThere
<1> HIDE DEF m
<1>4. m \in Nat /\ h <= m
  BY <1>2, <1>3
<1>5. m = h
  BY <1>1, <1>3, <1>4
<1> QED
  BY <1>1, <1>5 DEF m

LEMMA EndIsKept ==
  ASSUME NEW A, NEW buf \in Seq(A), NEW more \in Seq(A), NEW h, EndsAt(buf, h)
  PROVE  EndsAt(buf \o more, h) /\ SaidLength(buf \o more, h) = SaidLength(buf, h)
<1>1. h \in LineEnds(buf) /\ h \in 1 .. Len(buf) /\ h \in Nat /\ h - 1 \in 0 .. Len(buf)
  BY EndIsLeast
<1>2. Blank(LineAt(buf, h)) /\ CleanTo(buf, h - 1)
  BY DEF EndsAt, HeaderEnd
<1>3. h \in LineEnds(buf \o more) /\ LineAt(buf \o more, h) = LineAt(buf, h)
  BY <1>1, LineIsKept
<1>4. CleanTo(buf \o more, h - 1)
  BY <1>1, <1>2, CleanIsKept
<1>5. SaidLength(buf \o more, h) = SaidLength(buf, h)
  BY <1>1, LengthIsKept
<1> QED
  BY <1>2, <1>3, <1>4, <1>5 DEF EndsAt, HeaderEnd

LEMMA WholeIsOk ==
  ASSUME NEW A, NEW buf \in Seq(A), Whole(buf).res = "ok"
  PROVE  \E h : /\ EndsAt(buf, h) /\ ~(SaidLength(buf, h) > MaxLength)
                /\ h + SaidLength(buf, h) <= Len(buf)
                /\ Whole(buf).bytes = h + SaidLength(buf, h)
<1> DEFINE h == Min(HeaderEnd(buf))
<1>1. ~WrongFirst(buf)
  <2>1. WrongFirst(buf) => Whole(buf) = [res |-> "failed", bytes |-> 0]
    BY WholeIsWrong
  <2> QED
    BY <2>1
<1>2. HeaderEnd(buf) # {}
  <2>1. HeaderEnd(buf) = {} => Whole(buf) = [res |-> "more", bytes |-> 0]
    BY <1>1, Zenon DEF Whole, WrongFirst
  <2> QED
    BY <2>1
<1>3. HeaderEnd(buf) \in SUBSET Nat
  BY DEF HeaderEnd, LineEnds
<1>4. h \in HeaderEnd(buf) /\ \A e \in HeaderEnd(buf) : h <= e
  BY <1>2, <1>3, LeastIsThere
<1> HIDE DEF h
<1>5. h \in Nat /\ h \in 1 .. Len(buf) /\ Len(buf) \in Nat
  BY <1>4 DEF HeaderEnd, LineEnds
<1>6. CleanTo(buf, h - 1)
  <2>1. ASSUME NEW i \in 1 .. h - 1
        PROVE  buf[i] # "nul" /\ (i \in LineEnds(buf) => Good(LineAt(buf, i)) /\ ~Blank(LineAt(buf, i)))
    <3>1. i \in 1 .. Len(buf) /\ i < h /\ ~(h <= i) /\ i \in Nat
      BY <1>5
    <3>2. i \notin HeaderEnd(buf)
      BY <1>4, <3>1
    <3>3. i \notin Wrong(buf)
      <4>1. \A e \in HeaderEnd(buf) : i < e
        BY <1>3, <1>4, <1>5, <3>1
      <4> QED
        BY <1>1, <4>1 DEF WrongFirst
    <3> QED
      BY <3>1, <3>2, <3>3 DEF Wrong, HeaderEnd
  <2> QED
    BY <2>1, Zenon DEF CleanTo
<1>7. EndsAt(buf, h)
  BY <1>4, <1>6 DEF EndsAt
<1> DEFINE n == SaidLength(buf, h)
<1>8. n \in Nat
  BY SaidLengthIs
<1>9. Whole(buf) = IF n > MaxLength THEN [res |-> "failed", bytes |-> 0]
                   ELSE IF h + n > Len(buf) THEN [res |-> "more", bytes |-> 0]
                   ELSE [res |-> "ok", bytes |-> h + n]
  BY <1>4, <1>6, WholeIsRead
<1> HIDE DEF n
<1>10. ~(n > MaxLength) /\ ~(h + n > Len(buf))
  BY <1>9
<1>11. Whole(buf).bytes = h + n
  BY <1>9, <1>10
<1>12. h + n <= Len(buf)
  BY <1>5, <1>8, <1>10
<1> QED
  BY <1>7, <1>10, <1>11, <1>12 DEF n

LEMMA WholeIsKept ==
  ASSUME NEW A, NEW buf \in Seq(A), NEW more \in Seq(A), Whole(buf).res = "ok"
  PROVE  Whole(buf \o more).res = "ok" /\ Whole(buf \o more).bytes = Whole(buf).bytes
<1> DEFINE both == buf \o more
<1>1. PICK h : /\ EndsAt(buf, h) /\ ~(SaidLength(buf, h) > MaxLength)
               /\ h + SaidLength(buf, h) <= Len(buf)
               /\ Whole(buf).bytes = h + SaidLength(buf, h)
  BY WholeIsOk
<1> DEFINE n == SaidLength(buf, h)
<1>2. EndsAt(both, h) /\ SaidLength(both, h) = n
  BY <1>1, EndIsKept
<1>3. both \in Seq(A) /\ Len(both) = Len(buf) + Len(more) /\ Len(buf) \in Nat /\ Len(more) \in Nat
  OBVIOUS
<1>4. n \in Nat
  BY SaidLengthIs
<1>5. h \in Nat
  BY <1>1, EndIsLeast
<1> HIDE DEF both
<1>6. Whole(both) = IF SaidLength(both, h) > MaxLength THEN [res |-> "failed", bytes |-> 0]
                    ELSE IF h + SaidLength(both, h) > Len(both) THEN [res |-> "more", bytes |-> 0]
                    ELSE [res |-> "ok", bytes |-> h + SaidLength(both, h)]
  BY <1>2, <1>3, WholeIsRead DEF EndsAt
<1> HIDE DEF n
<1>7. ~(n > MaxLength) /\ h + n <= Len(buf) /\ Whole(buf).bytes = h + n
  BY <1>1 DEF n
<1>8. ~(h + n > Len(both))
  BY <1>3, <1>4, <1>5, <1>7
<1>9. Whole(both) = [res |-> "ok", bytes |-> h + n]
  BY <1>2, <1>6, <1>7, <1>8
<1> QED
  BY <1>7, <1>9 DEF both

(* What the routine sees of a request.                                      *)
ViewOf(r, buf) ==
  [uri |-> Text(r.uri, buf, 1), version |-> Text(r.version, buf, 1),
   vars |-> Text(r.vars, buf, 1), hostname |-> Text(r.hostname, buf, 1),
   headers |-> [i \in DOMAIN r.headers |-> Text(r.headers[i], buf, 1)],
   content |-> Text(r.content, buf, 1)]

LEMMA PartIsKept ==
  ASSUME NEW A, NEW buf \in Seq(A), NEW more \in Seq(A), NEW a \in Nat, a > 0,
         NEW z \in Nat, z <= Len(buf), a <= z + 1
  PROVE  SubSeq(buf \o more, a, z) = SubSeq(buf, a, z)
<1> DEFINE both == buf \o more
<1>1. both \in Seq(A) /\ Len(both) = Len(buf) + Len(more) /\ Len(buf) \in Nat /\ Len(more) \in Nat
      /\ \A i \in 1 .. Len(buf) : both[i] = buf[i]
  OBVIOUS
<1> HIDE DEF both
<1>2. SubSeq(buf, a, z) = [i \in 1 .. (z - a + 1) |-> buf[a + i - 1]]
  BY <1>1
<1>3. SubSeq(both, a, z) = [i \in 1 .. (z - a + 1) |-> both[a + i - 1]]
  BY <1>1
<1>4. \A i \in 1 .. (z - a + 1) : both[a + i - 1] = buf[a + i - 1]
  <2>1. \A i \in 1 .. (z - a + 1) : a + i - 1 \in 1 .. Len(buf)
    BY <1>1
  <2> QED
    BY <1>1, <2>1
<1> QED
  BY <1>2, <1>3, <1>4 DEF both

(* Every header line is kept once.                                          *)
LEMMA HeadersAreCounted ==
  ASSUME NEW A, NEW buf \in Seq(A), NEW d \in Nat, NEW headers \in Seq(Strs),
         AreHeaders(headers, buf, d)
  PROVE  Cardinality(HeaderLinesTo(buf, d)) = Len(headers)
<1> DEFINE n == Len(headers)
           E == HeaderLinesTo(buf, d)
           f == [i \in 1 .. n |-> CHOOSE e \in E : headers[i] = HeaderOf(buf, e)]
<1>1. /\ \A i \in 1 .. n : \E e \in E : headers[i] = HeaderOf(buf, e)
      /\ \A e \in E : \E i \in 1 .. n : headers[i] = HeaderOf(buf, e)
      /\ \A i, j \in 1 .. n : i < j => headers[i].at < headers[j].at
  BY DEF AreHeaders
<1>2. n \in Nat /\ \A i \in 1 .. n : headers[i].at \in Nat
  <2>1. \A i \in 1 .. n : headers[i] \in Strs
    BY ElementOfSeq
  <2> QED
    BY <2>1 DEF Strs
<1>3. \A e \in E : e \in LineEnds(buf) /\ e \in Nat
  BY DEF HeaderLinesTo, LineEnds
<1>4. \A e, k \in E : HeaderOf(buf, e) = HeaderOf(buf, k) => e = k
  <2> SUFFICES ASSUME NEW e \in E, NEW k \in E, HeaderOf(buf, e) = HeaderOf(buf, k) PROVE e = k
    OBVIOUS
  <2>1. e \in 1 .. Len(buf) /\ k \in 1 .. Len(buf)
    BY <1>3 DEF LineEnds
  <2>2. BeginOf(buf, e) \in Nat /\ BeginOf(buf, k) \in Nat
    BY <2>1, BeginIsBefore
  <2>3. BeginOf(buf, e) + 1 = BeginOf(buf, k) + 1
    BY DEF HeaderOf, Str
  <2>4. ~(BeginOf(buf, e) < BeginOf(buf, k)) /\ ~(BeginOf(buf, k) < BeginOf(buf, e))
    BY <2>2, <2>3
  <2>5. ~(e < k) /\ ~(k < e)
    BY <1>3, <2>4, BeginsAreApart
  <2> QED
    BY <1>3, <2>5
<1> HIDE DEF E
<1>5. \A i \in 1 .. n : f[i] \in E /\ headers[i] = HeaderOf(buf, f[i])
  BY <1>1
<1>6. f \in [1 .. n -> E]
  BY <1>5
<1> HIDE DEF f, n
<1>7. \A i, j \in 1 .. n : f[i] = f[j] => i = j
  <2> SUFFICES ASSUME NEW i \in 1 .. n, NEW j \in 1 .. n, f[i] = f[j] PROVE i = j
    OBVIOUS
  <2>1. headers[i] = headers[j] /\ headers[i].at \in Nat /\ headers[j].at \in Nat
    BY <1>2, <1>5
  <2>2. ~(i < j) /\ ~(j < i)
    BY <1>1, <2>1, SMTT(30)
  <2> QED
    BY <1>2, <2>2
<1>8. \A e \in E : \E i \in 1 .. n : f[i] = e
  BY <1>1, <1>4, <1>5
<1>9. f \in Bijection(1 .. n, E)
  BY <1>6, <1>7, <1>8 DEF Bijection, Injection, Surjection, IsInjective
<1>10. ExistsBijection(1 .. n, E)
  BY <1>9 DEF ExistsBijection
<1>11. Cardinality(E) = n
  BY <1>2, <1>10, FS_CountingElements
<1> QED
  BY <1>11 DEF E, n

(* A request that was parsed from a text that goes on like msg is seen as   *)
(* msg, whatever comes after it.                                            *)
LEMMA ReadIsSeen ==
  ASSUME NEW A, NEW buf \in Seq(A), NEW msg \in Seq(A), NEW x \in Seq(A), NEW y \in Seq(A),
         buf \o x = msg \o y, NEW r, Within(r, Len(buf)), IsRead(r, buf),
         Whole(buf).res = "ok", Whole(msg).res = "ok"
  PROVE  SeesItsRequest(ViewOf(r, buf), msg)
<1> DEFINE all == buf \o x
           v == ViewOf(r, buf)
<1>1. PICK h : /\ EndsAt(buf, h) /\ AreHeaders(r.headers, buf, h - 1)
               /\ r.content = Str(1, h + 1, SaidLength(buf, h))
  BY DEF IsRead, EndsAt
<1>2. PICK k : /\ EndsAt(msg, k) /\ k + SaidLength(msg, k) <= Len(msg)
               /\ Whole(msg).bytes = k + SaidLength(msg, k)
  BY WholeIsOk
<1>3. PICK g : EndsAt(buf, g) /\ g + SaidLength(buf, g) <= Len(buf)
  BY WholeIsOk
<1>4. g = h
  BY <1>1, <1>3, EndIsLeast
<1>5. EndsAt(all, h) /\ SaidLength(all, h) = SaidLength(buf, h)
  BY <1>1, EndIsKept
<1>6. EndsAt(all, k) /\ SaidLength(all, k) = SaidLength(msg, k)
  BY <1>2, EndIsKept
<1>7. all \in Seq(A)
  OBVIOUS
<1>8. k = h
  <2> HIDE DEF all
  <2> QED
    BY <1>5, <1>6, <1>7, EndIsLeast
<1> DEFINE n == SaidLength(buf, h)
           E == HeaderLinesTo(buf, h - 1)
<1>9. n \in Nat /\ SaidLength(msg, h) = n
  BY <1>5, <1>6, <1>8, SaidLengthIs
<1>10. h \in Nat /\ h \in 1 .. Len(buf) /\ h \in 1 .. Len(msg) /\ h - 1 \in 0 .. Len(buf)
       /\ h - 1 \in 0 .. Len(msg) /\ h - 1 \in Nat /\ Len(buf) \in Nat /\ Len(msg) \in Nat
  BY <1>1, <1>2, <1>8, EndIsLeast
<1>11. Min(HeaderEnd(msg)) = h /\ HeaderEnd(msg) # {}
  BY <1>2, <1>8, EndIsLeast DEF EndsAt
<1>12. Whole(msg).bytes = h + n
  BY <1>2, <1>8, <1>9
<1>13. HeaderEnds(msg) = HeaderLinesTo(msg, h - 1)
  <2>1. \A e \in LineEnds(msg) : e < h <=> e <= h - 1
    BY <1>10 DEF LineEnds
  <2> QED
    BY <1>11, <2>1 DEF HeaderEnds, HeaderLinesTo
<1>14. HeaderLinesTo(msg, h - 1) = E
  <2>1. HeaderLinesTo(all, h - 1) = E
    BY <1>10, HeaderLinesAreKept
  <2>2. HeaderLinesTo(msg \o y, h - 1) = HeaderLinesTo(msg, h - 1)
    BY <1>10, HeaderLinesAreKept
  <2> QED
    BY <2>1, <2>2
<1>15. \A e \in E : LineAt(msg, e) = LineAt(buf, e)
  <2>1. \A e \in E : e \in 1 .. Len(buf)
    BY DEF HeaderLinesTo, LineEnds
  <2>2. \A e \in E : e \in 1 .. Len(msg)
    BY <1>14 DEF HeaderLinesTo, LineEnds
  <2>3. \A e \in E : LineAt(all, e) = LineAt(buf, e)
    BY <2>1, LineIsKept
  <2>4. \A e \in E : LineAt(msg \o y, e) = LineAt(msg, e)
    BY <2>2, LineIsKept
  <2> QED
    BY <2>3, <2>4
<1>16. r.headers \in Seq(Strs) /\ DOMAIN r.headers = 1 .. Len(r.headers) /\ Len(r.headers) \in Nat
       /\ r.hostname \in Strs
  BY DEF Within, Parsers
<1>17. \A e \in E : Text(HeaderOf(buf, e), buf, 1) = LineAt(buf, e).text
  BY <1>1, <1>10, HeaderTextIs DEF EndsAt
<1>18. /\ \A i \in 1 .. Len(r.headers) : \E e \in E : r.headers[i] = HeaderOf(buf, e)
       /\ \A e \in E : \E i \in 1 .. Len(r.headers) : r.headers[i] = HeaderOf(buf, e)
  BY <1>1 DEF AreHeaders
<1>19. v.headers = [i \in 1 .. Len(r.headers) |-> Text(r.headers[i], buf, 1)]
  BY <1>16 DEF ViewOf
<1>20. v.uri = Text(r.uri, buf, 1) /\ v.version = Text(r.version, buf, 1)
       /\ v.vars = Text(r.vars, buf, 1) /\ v.hostname = Text(r.hostname, buf, 1)
       /\ v.content = Text(r.content, buf, 1)
  BY DEF ViewOf
<1> HIDE DEF v, E, n, all
<1>21. v.uri = <<msg[1]>> /\ v.version = v.uri /\ v.vars = v.uri
  <2>1. r.uri = Str(1, 1, 1) /\ r.version = r.uri /\ r.vars = r.uri
    BY DEF IsRead, Named
  <2>2. Text(Str(1, 1, 1), buf, 1) = SubSeq(buf, 1, 1)
    BY DEF Text, Str, NoStr
  <2>3. SubSeq(buf, 1, 1) = <<buf[1]>>
    <3>1. SubSeq(buf, 1, 1) = [i \in 1 .. 1 |-> buf[1 + i - 1]]
      BY <1>10
    <3>2. \A i \in 1 .. 1 : buf[1 + i - 1] = buf[1]
      OBVIOUS
    <3>3. <<buf[1]>> = [i \in 1 .. 1 |-> buf[1]]
      OBVIOUS
    <3> QED
      BY <3>1, <3>2, <3>3
  <2>4. buf[1] = msg[1]
    <3>1. (buf \o x)[1] = buf[1] /\ (msg \o y)[1] = msg[1]
      BY <1>10
    <3> QED
      BY <3>1
  <2> QED
    BY <1>20, <2>1, <2>2, <2>3, <2>4
<1>22. {v.headers[i] : i \in DOMAIN v.headers} = {LineAt(msg, e).text : e \in HeaderEnds(msg)}
  <2>1. DOMAIN v.headers = 1 .. Len(r.headers)
        /\ \A i \in 1 .. Len(r.headers) : v.headers[i] = Text(r.headers[i], buf, 1)
    BY <1>19
  <2>2. HeaderEnds(msg) = E
    BY <1>13, <1>14
  <2>3. \A i \in DOMAIN v.headers : \E e \in E : v.headers[i] = LineAt(msg, e).text
    <3> SUFFICES ASSUME NEW i \in 1 .. Len(r.headers)
                 PROVE  \E e \in E : v.headers[i] = LineAt(msg, e).text
      BY <2>1
    <3>1. PICK e \in E : r.headers[i] = HeaderOf(buf, e)
      BY <1>18
    <3> QED
      BY <1>15, <1>17, <2>1, <3>1
  <2>4. \A e \in E : \E i \in DOMAIN v.headers : v.headers[i] = LineAt(msg, e).text
    <3> SUFFICES ASSUME NEW e \in E
                 PROVE  \E i \in 1 .. Len(r.headers) : v.headers[i] = LineAt(msg, e).text
      BY <2>1
    <3>1. PICK i \in 1 .. Len(r.headers) : r.headers[i] = HeaderOf(buf, e)
      BY <1>18
    <3> QED
      BY <1>15, <1>17, <2>1, <3>1
  <2> QED
    BY <2>2, <2>3, <2>4
<1>23. Len(v.headers) = Cardinality(HeaderEnds(msg))
  <2>1. Cardinality(E) = Len(r.headers)
    BY <1>1, <1>10, <1>16, HeadersAreCounted DEF E
  <2>2. Len(v.headers) = Len(r.headers)
    BY <1>16, <1>19
  <2> QED
    BY <1>13, <1>14, <2>1, <2>2
<1>24. v.hostname = <<>> \/ v.hostname[1] = "host"
  <2> DEFINE s == r.hostname
  <2>1. CASE s = NoStr
    BY <1>20, <2>1 DEF Text
  <2>2. CASE s # NoStr
    <3>1. s.base = 1 /\ s.at > 0 /\ s.size > 0 /\ s.at + s.size - 1 <= Len(buf) /\ buf[s.at] = "host"
          /\ s.at \in Nat /\ s.size \in Nat
      BY <1>16, <2>2 DEF IsRead, Named, HostIn, Strs
    <3>2. v.hostname = SubSeq(buf, s.at, s.at + s.size - 1)
      BY <1>20, <2>2, <3>1 DEF Text
    <3> DEFINE a == s.at
               w == s.size
               z == a + w - 1
    <3>3. a \in Nat /\ a > 0 /\ z \in Nat /\ a <= z
      <4>1. a \in Nat /\ a > 0 /\ w \in Nat /\ w > 0
        BY <3>1
      <4> HIDE DEF a, w
      <4> QED
        BY <4>1
    <3> HIDE DEF a, z
    <3>4. SubSeq(buf, a, z)[1] = buf[a]
      BY <3>3
    <3>5. v.hostname = SubSeq(buf, a, z) /\ buf[a] = "host"
      BY <3>1, <3>2 DEF a, z
    <3> QED
      BY <3>4, <3>5
  <2> QED
    BY <2>1, <2>2
<1>25. v.content = SubSeq(msg, h + 1, h + n)
  <2>1. v.content = SubSeq(buf, h + 1, (h + 1) + n - 1)
    <3> DEFINE s == Str(1, h + 1, n)
    <3>1. s.base = 1 /\ s.at = h + 1 /\ s.size = n /\ s # NoStr /\ r.content = s
      BY <1>1 DEF Str, NoStr, n
    <3> HIDE DEF s
    <3>2. Text(s, buf, 1) = SubSeq(buf, s.at, s.at + s.size - 1)
      BY <3>1 DEF Text
    <3> QED
      BY <1>20, <3>1, <3>2
  <2>2. (h + 1) + n - 1 = h + n /\ h + n \in Nat /\ h + 1 \in Nat /\ h + 1 > 0 /\ h + 1 <= (h + n) + 1
    BY <1>9, <1>10
  <2>3. h + n <= Len(buf) /\ h + n <= Len(msg)
    BY <1>2, <1>3, <1>4, <1>8, <1>9 DEF n
  <2>4. SubSeq(buf \o x, h + 1, h + n) = SubSeq(buf, h + 1, h + n)
    BY <2>2, <2>3, PartIsKept
  <2>5. SubSeq(msg \o y, h + 1, h + n) = SubSeq(msg, h + 1, h + n)
    BY <2>2, <2>3, PartIsKept
  <2>6. SubSeq(buf, h + 1, h + n) = SubSeq(msg, h + 1, h + n)
    BY <2>4, <2>5
  <2> QED
    BY <2>1, <2>2, <2>6
<1> QED
  BY <1>11, <1>12, <1>21, <1>22, <1>23, <1>24, <1>25 DEF SeesItsRequest, v

-----------------------------------------------------------------------------
(* The processor *)

PInv ==
  /\ script \in Seq(Seq(Alphabet)) /\ asked \in 0 .. Len(script)
  /\ wire \in Seq(Alphabet) /\ recvBuf \in Seq(Alphabet)
  /\ base \in 1 .. MaxMoves + 1
  /\ Within(req, Len(recvBuf))
  /\ running \in BOOLEAN /\ pending \in BOOLEAN /\ open \in BOOLEAN
  /\ last.res \in {"more", "failed", "ok"}

LEMMA ClearedIs == \A n \in Nat : Within(Cleared, n)
<1>1. NoStr \in Strs
  BY DEF NoStr, Strs
<1>2. Cleared \in Parsers
  BY <1>1 DEF Cleared, Parsers, Steps, Results
<1>3. Cleared.done = 0 /\ Cleared.headers = <<>>
  BY DEF Cleared
<1> HIDE DEF Cleared
<1>4. \A i \in 1 .. Len(<<>>) : FALSE
  OBVIOUS
<1> QED
  BY <1>2, <1>3, <1>4 DEF Within, HeadersAre

LEMMA ProcessorStarts == Init => PInv
<1> SUFFICES ASSUME Init PROVE PInv
  OBVIOUS
<1>1. Within(req, Len(recvBuf))
  <2>1. Len(recvBuf) = 0
    BY DEF Init
  <2> QED
    BY <2>1, ClearedIs DEF Init
<1>2. base \in 1 .. MaxMoves + 1
  BY HttpProcessorAssumption DEF Init
<1>3. asked \in 0 .. Len(script) /\ script \in Seq(Seq(Alphabet)) /\ wire \in Seq(Alphabet)
      /\ recvBuf \in Seq(Alphabet)
  BY DEF Init
<1>4. last.res = "more"
  BY DEF Init, NoCall
<1> QED
  BY <1>1, <1>2, <1>3, <1>4 DEF Init, PInv

LEMMA ReceiveKeeps == PInv /\ Receive => PInv'
<1> SUFFICES ASSUME PInv, Receive PROVE PInv'
  OBVIOUS
<1>1. PICK n \in 1 .. Len(wire), b \in {base, base + 1}, junk \in Junk :
        /\ b <= 1 + MaxMoves
        /\ wire' = SubSeq(wire, n + 1, Len(wire))
        /\ base' = b
        /\ \E buf \in {recvBuf \o SubSeq(wire, 1, n)} :
           \E r \in {ContinueToParse(req, buf, b, junk)} :
             /\ last' = [buf |-> buf, res |-> r.res,
                         bytes |-> IF r.res = "ok" THEN r.done ELSE 0]
             /\ req' = r /\ recvBuf' = buf
             /\ More(r) \/ Failed(r) \/ Parsed(r, buf)
  BY DEF Receive
<1> DEFINE buf == recvBuf \o SubSeq(wire, 1, n)
           r == ContinueToParse(req, buf, b, junk)
<1>2. /\ last' = [buf |-> buf, res |-> r.res,
                  bytes |-> IF r.res = "ok" THEN r.done ELSE 0]
      /\ req' = r /\ recvBuf' = buf
      /\ More(r) \/ Failed(r) \/ Parsed(r, buf)
  BY <1>1
<1>3. UNCHANGED <<script, asked, pending>>
  BY DEF Receive, client
<1>4. /\ wire \in Seq(Alphabet) /\ recvBuf \in Seq(Alphabet) /\ Len(wire) \in Nat
      /\ Len(recvBuf) \in Nat /\ Within(req, Len(recvBuf))
      /\ base \in 1 .. MaxMoves + 1 /\ MaxMoves \in Nat
  BY HttpProcessorAssumption DEF PInv
<1>5. SubSeq(wire, 1, n) \in Seq(Alphabet) /\ SubSeq(wire, n + 1, Len(wire)) \in Seq(Alphabet)
  <2>1. \A i \in 1 .. n : i \in 1 .. Len(wire)
    BY <1>1, <1>4
  <2>2. \A i \in n + 1 .. Len(wire) : i \in 1 .. Len(wire)
    BY <1>1, <1>4
  <2>3. n \in Nat /\ n + 1 \in Nat
    BY <1>1
  <2> QED
    BY <1>4, <2>1, <2>2, <2>3, SubSeqProperties
<1>6. buf \in Seq(Alphabet) /\ Len(recvBuf) <= Len(buf)
  BY <1>4, <1>5
<1>7. b \in Nat /\ b \in 1 .. MaxMoves + 1
  BY <1>1, <1>4
<1>8. junk \in Nat
  BY <1>1, HttpRequestAssumption DEF Junk, Huge
<1> HIDE DEF buf
<1>9. Within(r, Len(buf)) /\ r.res \in {"more", "failed", "ok"}
  BY <1>4, <1>6, <1>7, <1>8, ContinueToParseIs
<1> HIDE DEF r
<1>10. running' \in BOOLEAN /\ open' \in BOOLEAN
  BY <1>2 DEF PInv, More, Failed, Parsed
<1>11. last'.res \in {"more", "failed", "ok"}
  BY <1>2, <1>9
<1> QED
  BY <1>1, <1>2, <1>3, <1>5, <1>6, <1>7, <1>9, <1>10, <1>11 DEF PInv

LEMMA ProcessorKeeps == PInv /\ [Next]_vars => PInv'
<1> SUFFICES ASSUME PInv, [Next]_vars PROVE PInv'
  OBVIOUS
<1>1. CASE ClientComes
  <2>1. script' \in Seq(Seq(Alphabet)) /\ Len(script) = 0 /\ asked \in 0 .. Len(script)
    BY <1>1, HttpProcessorAssumption DEF ClientComes, PInv
  <2>2. asked' \in 0 .. Len(script')
    BY <1>1, <2>1 DEF ClientComes
  <2> QED
    BY <1>1, <2>1, <2>2 DEF ClientComes, PInv, connVars, history
<1>2. CASE ClientSends
  <2>1. asked + 1 \in 1 .. Len(script) /\ asked + 1 \in 0 .. Len(script)
    BY <1>2 DEF ClientSends, PInv
  <2>2. script[asked + 1] \in Seq(Alphabet)
    BY <2>1, ElementOfSeq DEF PInv
  <2>3. wire' \in Seq(Alphabet)
    BY <1>2, <2>2, ConcatProperties DEF ClientSends, PInv
  <2> QED
    BY <1>2, <2>1, <2>3 DEF ClientSends, PInv, client, connVars, history
<1>3. CASE Receive
  BY <1>3, ReceiveKeeps
<1>4. CASE RoutineDone
  <2>1. recvBuf \in Seq(Alphabet) /\ Len(recvBuf) \in Nat
        /\ req.done \in Nat /\ req.done <= Len(recvBuf)
    BY DEF PInv, Within, Parsers
  <2>2. recvBuf' = SubSeq(recvBuf, req.done + 1, Len(recvBuf)) /\ req' = Cleared
    BY <1>4 DEF RoutineDone, Erased, RequestCleared
  <2>3. recvBuf' \in Seq(Alphabet)
    <3>1. \A i \in req.done + 1 .. Len(recvBuf) : i \in 1 .. Len(recvBuf)
      BY <2>1
    <3> QED
      BY <2>1, <2>2, <3>1, SubSeqProperties
  <2>4. Within(req', Len(recvBuf'))
    BY <2>2, <2>3, ClearedIs
  <2> QED
    BY <1>4, <2>3, <2>4 DEF RoutineDone, PInv, client, history
<1>5. CASE RoutineAbandons \/ Flush
  BY <1>5 DEF RoutineAbandons, Flush, PInv, client, connVars, history
<1>6. CASE ConnClosed
  <2>1. Within(req', Len(recvBuf'))
    <3>1. req' = Cleared /\ Len(recvBuf') = 0
      BY <1>6 DEF ConnClosed, ContextCleared
    <3> QED
      BY <3>1, ClearedIs
  <2>2. /\ script' \in Seq(Seq(Alphabet)) /\ asked' \in 0 .. Len(script')
        /\ wire' \in Seq(Alphabet) /\ recvBuf' \in Seq(Alphabet)
    BY <1>6 DEF ConnClosed
  <2>3. last'.res = "more"
    BY <1>6 DEF ConnClosed, NoCall
  <2> QED
    BY <1>6, <2>1, <2>2, <2>3 DEF ConnClosed, PInv
<1>7. CASE UNCHANGED vars
  BY <1>7 DEF PInv, vars, client, connVars, history
<1> QED
  BY <1>1, <1>2, <1>3, <1>4, <1>5, <1>6, <1>7 DEF Next

(* A response does not change what the processor does.                      *)
LEMMA ServiceStep == [ServiceNext]_serviceVars => [Next]_vars
BY DEF ServiceNext, serviceVars, Received, Routine, Done, Abandoned, Sent, Closed, Next

(* http_processor_t on a connection with its responses is what              *)
(* HttpProcessor says.                                                      *)
THEOREM ServiceRunsProcessor == ServiceSpec => Spec
<1>1. ServiceInit => Init
  BY DEF ServiceInit
<1> QED
  BY <1>1, ServiceStep, PTL DEF ServiceSpec, Spec

(* continue_to_parse() and what follows it keep the parser within recv_buf. *)
THEOREM ProcessorInvariant == Spec => []PInv
BY ProcessorStarts, ProcessorKeeps, PTL DEF Spec

(* http_request.cpp:73: the parser never believes to have parsed more than  *)
(* there is, wherever a request is cut and whatever a stale pointer shows.  *)
THEOREM ParsedIsInBuffer == ServiceSpec => []ParsedIsThere
<1>1. PInv => ParsedIsThere
  BY DEF PInv, ParsedIsThere, Within
<1> QED
  BY <1>1, ServiceRunsProcessor, ProcessorInvariant, PTL

-----------------------------------------------------------------------------
(* The processor and a look at the whole text *)

(* Until recv_buf moves, the parser knows of what is in it exactly what a   *)
(* look at it shows, and so does a parser in the pool.                      *)
WholeInv ==
  /\ script = <<>> => wire = <<>> /\ ~running
  /\ base = 1 =>
       /\ [res |-> last.res, bytes |-> last.bytes] = Whole(last.buf)
       /\ (open \/ script = <<>>) /\ ~running => Resumable(req, recvBuf)

LEMMA ClearedIsResumable == \A buf : Resumable(Cleared, buf)
BY DEF Cleared, Resumable, AtStart

LEMMA NoCallIsWhole == [res |-> NoCall.res, bytes |-> NoCall.bytes] = Whole(NoCall.buf)
<1>1. <<>> \in Seq(Alphabet) /\ Len(<<>>) = 0
  OBVIOUS
<1>2. CleanTo(<<>>, 0)
  BY DEF CleanTo
<1>3. NoEnd(<<>>, 0, Len(<<>>) + 1)
  BY <1>1 DEF NoEnd
<1>4. Whole(<<>>) = [res |-> "more", bytes |-> 0]
  <2>1. 0 \in Nat
    OBVIOUS
  <2> QED
    BY <1>1, <1>2, <1>3, <2>1, NothingToSay
<1> QED
  BY <1>4 DEF NoCall

LEMMA WholeStarts == Init => WholeInv
BY ClearedIsResumable, NoCallIsWhole DEF Init, WholeInv

(* One call of on_received().                                               *)
LEMMA ReceivedAsWhole ==
  ASSUME PInv, WholeInv, Receive
  PROVE  /\ last'.buf = recvBuf' /\ last'.res = req'.res
         /\ base' = 1 =>
              /\ [res |-> last'.res, bytes |-> last'.bytes] = Whole(last'.buf)
              /\ req'.res = "more" => Resumable(req', recvBuf')
              /\ req'.res = "ok" => IsRead(req', recvBuf')
<1>1. PICK n \in 1 .. Len(wire), b \in {base, base + 1}, junk \in Junk :
        /\ base' = b
        /\ \E buf \in {recvBuf \o SubSeq(wire, 1, n)} :
           \E r \in {ContinueToParse(req, buf, b, junk)} :
             /\ last' = [buf |-> buf, res |-> r.res,
                         bytes |-> IF r.res = "ok" THEN r.done ELSE 0]
             /\ req' = r /\ recvBuf' = buf
  BY ZenonT(30) DEF Receive
<1> DEFINE more == SubSeq(wire, 1, n)
           buf == recvBuf \o more
           r == ContinueToParse(req, buf, b, junk)
<1>2. /\ last' = [buf |-> buf, res |-> r.res,
                  bytes |-> IF r.res = "ok" THEN r.done ELSE 0]
      /\ req' = r /\ recvBuf' = buf
  BY <1>1
<1>3. /\ wire \in Seq(Alphabet) /\ recvBuf \in Seq(Alphabet) /\ Len(wire) \in Nat
      /\ Len(recvBuf) \in Nat /\ Within(req, Len(recvBuf)) /\ base \in Nat /\ base >= 1
  BY HttpProcessorAssumption DEF PInv
<1>4. more \in Seq(Alphabet)
  <2>1. \A i \in 1 .. n : i \in 1 .. Len(wire)
    BY <1>1, <1>3
  <2>2. n \in Nat /\ 1 \in Nat
    BY <1>1
  <2> QED
    BY <1>3, <2>1, <2>2, SubSeqProperties
<1> HIDE DEF more
<1>5. buf \in Seq(Alphabet) /\ Len(recvBuf) <= Len(buf) /\ Len(buf) \in Nat
  BY <1>3, <1>4
<1>6. junk \in Nat
  BY <1>1, HttpRequestAssumption DEF Junk, Huge
<1>7. Within(req, Len(buf))
  <2>1. req.done \in Nat /\ req.done <= Len(recvBuf)
    BY <1>3 DEF Within, Parsers
  <2> QED
    BY <1>3, <1>5, <2>1 DEF Within
<1> HIDE DEF r
<1>8. ASSUME base' = 1
      PROVE  /\ Answer(r) = Whole(buf) /\ (r.res = "more" => Resumable(r, buf))
             /\ r.res = "ok" => IsRead(r, buf)
  <2>1. b = 1 /\ base = 1
    BY <1>1, <1>3, <1>8
  <2>2. Resumable(req, recvBuf)
    BY <2>1 DEF WholeInv, Receive
  <2>3. Resumable(req, buf)
    BY <1>3, <1>4, <2>2, KnownIsKept DEF Within
  <2>4. r = ContinueToParse(req, buf, 1, junk)
    BY <2>1 DEF r
  <2> HIDE DEF buf
  <2> QED
    BY <1>5, <1>6, <1>7, <2>3, <2>4, ResumedIsWhole
<1> HIDE DEF buf
<1>9. last'.buf = buf /\ last'.res = r.res
      /\ last'.bytes = (IF r.res = "ok" THEN r.done ELSE 0)
  BY <1>2
<1> QED
  BY <1>2, <1>8, <1>9 DEF Answer

LEMMA WholeKeeps == PInv /\ WholeInv /\ [Next]_vars => WholeInv'
<1> SUFFICES ASSUME PInv, WholeInv, [Next]_vars PROVE WholeInv'
  OBVIOUS
<1>1. CASE ClientComes
  BY <1>1 DEF ClientComes, WholeInv, connVars, history
<1>2. CASE ClientSends
  <2>1. script # <<>>
    BY <1>2 DEF ClientSends, PInv
  <2> QED
    BY <1>2, <2>1 DEF ClientSends, WholeInv, client, connVars, history
<1>3. CASE Receive
  <2>1. script # <<>> /\ script' = script
    BY <1>3 DEF Receive, WholeInv, client
  <2>2. /\ base' = 1 =>
             /\ [res |-> last'.res, bytes |-> last'.bytes] = Whole(last'.buf)
             /\ req'.res = "more" => Resumable(req', recvBuf')
    BY <1>3, ReceivedAsWhole
  <2>3. open' /\ ~running' => req'.res = "more"
    BY <1>3 DEF Receive, More, Failed, Parsed
  <2> QED
    BY <2>1, <2>2, <2>3 DEF WholeInv
<1>4. CASE RoutineDone
  <2>1. req' = Cleared
    BY <1>4 DEF RoutineDone, RequestCleared
  <2> QED
    BY <1>4, <2>1, ClearedIsResumable DEF RoutineDone, WholeInv, client, history
<1>5. CASE RoutineAbandons
  BY <1>5 DEF RoutineAbandons, WholeInv, client, connVars, history
<1>6. CASE Flush
  BY <1>6 DEF Flush, WholeInv, client, connVars, history
<1>7. CASE ConnClosed
  <2>1. req' = Cleared /\ last' = NoCall /\ wire' = <<>> /\ ~running'
    BY <1>7 DEF ConnClosed, ContextCleared
  <2> QED
    BY <2>1, ClearedIsResumable, NoCallIsWhole DEF WholeInv
<1>8. CASE UNCHANGED vars
  BY <1>8 DEF WholeInv, vars, client, connVars, history
<1> QED
  BY <1>1, <1>2, <1>3, <1>4, <1>5, <1>6, <1>7, <1>8 DEF Next

THEOREM WholeInvariant == Spec => [](PInv /\ WholeInv)
<1>1. Init => PInv /\ WholeInv
  BY ProcessorStarts, WholeStarts
<1>2. PInv /\ WholeInv /\ [Next]_vars => (PInv /\ WholeInv)'
  BY ProcessorKeeps, WholeKeeps
<1> QED
  BY <1>1, <1>2, PTL DEF Spec

(* However a request is cut into packets, the resumed parser answers what a *)
(* look at everything received so far answers, and takes as many bytes, as  *)
(* long as recv_buf has not moved (http_request.cpp:60-243).                *)
THEOREM ResumedIsAsWhole == ServiceSpec => []ResumedAsWhole
<1>1. WholeInv => ResumedAsWhole
  BY DEF WholeInv, ResumedAsWhole
<1> QED
  BY <1>1, ServiceRunsProcessor, WholeInvariant, PTL

(* A client that waits for its answers has sent at most one request that is *)
(* not answered; then no routine runs and nothing is to be sent, and what   *)
(* has arrived is incomplete, or more is on its way.                        *)
PatientInv ==
  /\ \A i \in DOMAIN script : script[i] # <<>>
  /\ \E T : answered \in Seq(T)
  /\ patient => asked <= Len(answered) + 1
  /\ patient /\ Len(answered) < asked =>
       /\ ~running /\ ~pending
       /\ wire = <<>> => NothingLeft

LEMMA PatientStarts == Init => PatientInv
<1> SUFFICES ASSUME Init PROVE PatientInv
  OBVIOUS
<1>1. answered \in Seq({}) /\ script = <<>>
  BY DEF Init
<1>2. DOMAIN <<>> = {}
  OBVIOUS
<1> QED
  BY <1>1, <1>2 DEF Init, PatientInv

LEMMA PatientKeeps == PInv /\ WholeInv /\ PatientInv /\ [Next]_vars => PatientInv'
<1> SUFFICES ASSUME PInv, WholeInv, PatientInv, [Next]_vars PROVE PatientInv'
  OBVIOUS
<1>1. PICK T : answered \in Seq(T)
  BY DEF PatientInv
<1>2. Len(answered) \in Nat /\ asked \in Nat
  BY <1>1 DEF PInv
<1>3. CASE ClientComes
  <2>1. asked = 0 /\ asked' = 0 /\ answered' = answered
    BY <1>3 DEF ClientComes, PInv, history
  <2>2. \A i \in DOMAIN script' : script'[i] # <<>>
    BY <1>3, HttpProcessorAssumption DEF ClientComes, Elements
  <2> QED
    BY <1>1, <1>2, <2>1, <2>2 DEF PatientInv
<1>4. CASE ClientSends
  <2>1. asked + 1 \in 1 .. Len(script) /\ asked + 1 \in DOMAIN script
    BY <1>4 DEF ClientSends, PInv
  <2>2. script[asked + 1] # <<>> /\ script[asked + 1] \in Seq(Alphabet)
    BY <2>1, ElementOfSeq DEF PInv, PatientInv
  <2>3. wire' # <<>>
    BY <1>4, <2>2 DEF ClientSends, PInv
  <2>4. patient' = patient /\ script' = script /\ answered' = answered /\ asked' = asked + 1
        /\ running' = running /\ pending' = pending
        /\ (patient => Len(answered) = asked /\ ~running /\ ~pending)
    BY <1>4 DEF ClientSends, client, history
  <2> QED
    BY <1>1, <1>2, <2>3, <2>4 DEF PatientInv
<1>5. CASE Receive
  <2>1. patient' = patient /\ script' = script /\ asked' = asked /\ pending' = pending
        /\ ~running /\ ~pending
    BY <1>5 DEF Receive, client
  <2>2. (More(req') \/ Failed(req') \/ \E x : Parsed(req', x))
    BY <1>5 DEF Receive
  <2>3. CASE More(req')
    <3>1. answered' = answered /\ running' = running /\ req'.res = "more"
      BY <2>3 DEF More
    <3>2. NothingLeft'
      <4>1. base' = 1 => Whole(recvBuf').res = "more"
        BY <1>5, <3>1, ReceivedAsWhole
      <4> QED
        BY <4>1 DEF NothingLeft
    <3> QED
      BY <1>1, <2>1, <3>1, <3>2 DEF PatientInv
  <2>4. CASE Failed(req')
    <3>1. answered' = answered /\ running' = running /\ open' = FALSE
      BY <2>4 DEF Failed
    <3> QED
      BY <1>1, <2>1, <3>1 DEF PatientInv, NothingLeft
  <2>5. CASE \E x : Parsed(req', x)
    <3>1. PICK v : answered' = Append(answered, v)
      BY <2>5 DEF Parsed
    <3>2. answered \in Seq(T \cup {v})
      BY <1>1
    <3>3. answered' \in Seq(T \cup {v}) /\ Len(answered') = Len(answered) + 1
      BY <3>1, <3>2
    <3> QED
      BY <1>2, <2>1, <3>3 DEF PatientInv
  <2> QED
    BY <2>2, <2>3, <2>4, <2>5
<1>6. CASE RoutineDone \/ RoutineAbandons \/ Flush
  <2>1. patient' = patient /\ script' = script /\ asked' = asked /\ answered' = answered
        /\ (running \/ pending)
    BY <1>6 DEF RoutineDone, RoutineAbandons, Flush, client, history
  <2> QED
    BY <1>1, <2>1 DEF PatientInv
<1>7. CASE ConnClosed
  <2>1. patient' = FALSE /\ script' = <<>> /\ answered' = <<>>
    BY <1>7 DEF ConnClosed
  <2>2. answered' \in Seq({}) /\ DOMAIN script' = {}
    BY <2>1
  <2> QED
    BY <2>1, <2>2 DEF PatientInv
<1>8. CASE UNCHANGED vars
  BY <1>8 DEF PatientInv, NothingLeft, vars, client, connVars, history
<1> QED
  BY <1>3, <1>4, <1>5, <1>6, <1>7, <1>8 DEF Next

(* A client that waits for each answer is answered or disconnected, or what *)
(* has arrived of its request is incomplete (http_processor.cpp:36-60).     *)
THEOREM PatientAreAnswered == ServiceSpec => []AllAnswered
<1>1. Spec => []PatientInv
  BY PatientStarts, PatientKeeps, WholeInvariant, PTL DEF Spec
<1>2. PatientInv => AllAnswered
  BY DEF PatientInv, AllAnswered, NothingLeft
<1> QED
  BY <1>1, <1>2, ServiceRunsProcessor, PTL

-----------------------------------------------------------------------------
(* What the routines see *)

(* str is the requests s[i], ..., s[n] one after the other: t[j] is what    *)
(* begins with the j-th.                                                    *)
InARow(str, s, i, n) ==
  /\ str \in Seq(Alphabet)
  /\ \E t : /\ t[i] = str /\ t[n + 1] = <<>>
            /\ \A j \in i .. n : t[j] \in Seq(Alphabet) /\ t[j] = s[j] \o t[j + 1]

LEMMA NoneInARow ==
  ASSUME NEW str, NEW s, NEW n \in Nat
  PROVE  InARow(str, s, n + 1, n) <=> str = <<>>
<1>1. ASSUME str = <<>> PROVE InARow(str, s, n + 1, n)
  <2> DEFINE t == [j \in {n + 1} |-> <<>>]
  <2>1. t[n + 1] = <<>> /\ <<>> \in Seq(Alphabet) /\ \A j \in n + 1 .. n : FALSE
    OBVIOUS
  <2> HIDE DEF t
  <2> QED
    BY <1>1, <2>1 DEF InARow
<1> QED
  BY <1>1 DEF InARow

LEMMA FirstInARow ==
  ASSUME NEW str, NEW s, NEW n \in Nat, NEW i \in 1 .. n, InARow(str, s, i, n)
  PROVE  \E u : str = s[i] \o u /\ InARow(u, s, i + 1, n)
<1>1. PICK t : /\ t[i] = str /\ t[n + 1] = <<>>
               /\ \A j \in i .. n : t[j] \in Seq(Alphabet) /\ t[j] = s[j] \o t[j + 1]
  BY DEF InARow
<1>2. i \in i .. n /\ i \in Nat /\ \A j \in i + 1 .. n : j \in i .. n
  OBVIOUS
<1>3. str = s[i] \o t[i + 1]
  BY <1>1, <1>2
<1>4. t[i + 1] \in Seq(Alphabet)
  <2>1. <<>> \in Seq(Alphabet)
    OBVIOUS
  <2>2. i = n => t[i + 1] = <<>>
    BY <1>1
  <2>3. i # n => i + 1 \in i .. n
    BY <1>2
  <2> QED
    BY <1>1, <2>1, <2>2, <2>3
<1>5. InARow(t[i + 1], s, i + 1, n)
  BY <1>1, <1>2, <1>4 DEF InARow
<1> QED
  BY <1>3, <1>5

LEMMA RowGrows ==
  ASSUME NEW str \in Seq(Alphabet), NEW s, NEW n \in Nat, NEW i \in 1 .. n + 1,
         InARow(str, s, i, n), \A j \in 1 .. n + 1 : s[j] \in Seq(Alphabet)
  PROVE  InARow(str \o s[n + 1], s, i, n + 1)
<1>1. PICK t : /\ t[i] = str /\ t[n + 1] = <<>>
               /\ \A j \in i .. n : t[j] \in Seq(Alphabet) /\ t[j] = s[j] \o t[j + 1]
  BY DEF InARow
<1> DEFINE m == s[n + 1]
           more == [j \in i .. n + 2 |-> IF j = n + 2 THEN <<>> ELSE t[j] \o m]
<1>2. m \in Seq(Alphabet) /\ i \in Nat /\ n + 1 \in i .. n + 1 /\ n + 2 = (n + 1) + 1
  OBVIOUS
<1> HIDE DEF m
<1>3. more[n + 2] = <<>> /\ \A j \in i .. n + 1 : more[j] = t[j] \o m
  <2>1. n + 2 \in i .. n + 2 /\ \A j \in i .. n + 1 : j \in i .. n + 2 /\ j # n + 2
    BY <1>2
  <2> QED
    BY <2>1
<1> HIDE DEF more
<1>4. i \in i .. n + 1 /\ more[i] = str \o m
  <2>1. i \in i .. n + 1
    BY <1>2
  <2> QED
    BY <1>1, <1>3, <2>1
<1>5. <<>> \in Seq(Alphabet) /\ <<>> \o m = m /\ m \o <<>> = m
  BY <1>2, ConcatEmptySeq
<1>6. \A j \in i .. n + 1 : t[j] \in Seq(Alphabet)
  <2>1. \A j \in i .. n + 1 : j \in i .. n \/ j = n + 1
    BY <1>2
  <2> QED
    BY <1>1, <1>5, <2>1
<1>7. more[n + 1] = m
  BY <1>1, <1>2, <1>3, <1>5
<1>8. ASSUME NEW j \in i .. n
      PROVE  more[j] \in Seq(Alphabet) /\ more[j] = s[j] \o more[j + 1]
  <2>1. j \in i .. n + 1 /\ j + 1 \in i .. n + 1 /\ j \in 1 .. n + 1
    BY <1>2
  <2>2. t[j] \in Seq(Alphabet) /\ t[j + 1] \in Seq(Alphabet) /\ s[j] \in Seq(Alphabet)
    BY <1>6, <2>1
  <2>3. t[j] = s[j] \o t[j + 1]
    BY <1>1
  <2>4. (s[j] \o t[j + 1]) \o m = s[j] \o (t[j + 1] \o m)
    <3> DEFINE a == s[j]
               b == t[j + 1]
    <3>1. a \in Seq(Alphabet) /\ b \in Seq(Alphabet) /\ m \in Seq(Alphabet)
      BY <1>2, <2>2
    <3> HIDE DEF a, b
    <3>2. (a \o b) \o m = a \o (b \o m)
      BY <3>1, ConcatAssociative, SMTT(60)
    <3> QED
      BY <3>2 DEF a, b
  <2>5. t[j] \o m \in Seq(Alphabet)
    BY <1>2, <2>2, ConcatProperties
  <2>6. more[j] = t[j] \o m /\ more[j + 1] = t[j + 1] \o m
    BY <1>3, <2>1
  <2> QED
    BY <2>3, <2>4, <2>5, <2>6
<1>9. \A j \in i .. n + 1 : j \in i .. n \/ j = n + 1
  BY <1>2
<1>10. \A j \in i .. n + 1 : more[j] \in Seq(Alphabet) /\ more[j] = s[j] \o more[j + 1]
  <2>1. more[n + 1] \in Seq(Alphabet) /\ more[n + 1] = s[n + 1] \o more[(n + 1) + 1]
    BY <1>2, <1>3, <1>5, <1>7 DEF m
  <2> QED
    BY <1>8, <1>9, <2>1
<1>11. more[i] = str \o m /\ more[(n + 1) + 1] = <<>> /\ str \o m \in Seq(Alphabet)
  BY <1>2, <1>3, <1>4, ConcatProperties
<1> QED
  BY <1>10, <1>11 DEF InARow, m

(* What is left of p after d of its elements, followed by q.                *)
LEMMA LeftIsKept ==
  ASSUME NEW A, NEW p \in Seq(A), NEW q \in Seq(A), NEW d \in 0 .. Len(p)
  PROVE  SubSeq(p, d + 1, Len(p)) \o q = SubSeq(p \o q, d + 1, Len(p \o q))
<1> DEFINE both == p \o q
           front == SubSeq(p, d + 1, Len(p))
           left == SubSeq(both, d + 1, Len(both))
<1>1. /\ both \in Seq(A) /\ Len(both) = Len(p) + Len(q)
      /\ \A i \in 1 .. Len(p) + Len(q) : both[i] = IF i <= Len(p) THEN p[i] ELSE q[i - Len(p)]
      /\ Len(p) \in Nat /\ Len(q) \in Nat /\ d \in Nat /\ d <= Len(p)
  BY ConcatProperties
<1>2. /\ front \in Seq(A) /\ Len(front) = Len(p) - d
      /\ \A i \in 1 .. Len(p) - d : front[i] = p[i + d]
  <2>1. \A i \in d + 1 .. Len(p) : i \in 1 .. Len(p) /\ p[i] \in A
    BY <1>1, ElementOfSeq
  <2>2. /\ front \in Seq(A) /\ Len(front) = (IF d + 1 <= Len(p) THEN Len(p) - (d + 1) + 1 ELSE 0)
        /\ \A i \in 1 .. Len(p) - (d + 1) + 1 : front[i] = p[(d + 1) + i - 1]
    BY <1>1, <2>1, SubSeqProperties
  <2> HIDE DEF front
  <2> QED
    BY <1>1, <2>2
<1> HIDE DEF both
<1>3. /\ left \in Seq(A) /\ Len(left) = Len(both) - d
      /\ \A i \in 1 .. Len(both) - d : left[i] = both[i + d]
  <2>1. \A i \in d + 1 .. Len(both) : i \in 1 .. Len(both) /\ both[i] \in A
    BY <1>1, ElementOfSeq
  <2>2. /\ left \in Seq(A) /\ Len(left) = (IF d + 1 <= Len(both) THEN Len(both) - (d + 1) + 1 ELSE 0)
        /\ \A i \in 1 .. Len(both) - (d + 1) + 1 : left[i] = both[(d + 1) + i - 1]
    BY <1>1, <2>1, SubSeqProperties
  <2> HIDE DEF left
  <2> QED
    BY <1>1, <2>2
<1> HIDE DEF front, left
<1> DEFINE glued == front \o q
<1>4. /\ glued \in Seq(A) /\ Len(glued) = Len(front) + Len(q)
      /\ \A i \in 1 .. Len(front) + Len(q) :
           glued[i] = IF i <= Len(front) THEN front[i] ELSE q[i - Len(front)]
  BY <1>2, ConcatProperties
<1> HIDE DEF glued
<1>5. Len(glued) = Len(left)
  BY <1>1, <1>2, <1>3, <1>4
<1>6. \A i \in 1 .. Len(glued) : glued[i] = left[i]
  <2> SUFFICES ASSUME NEW i \in 1 .. Len(glued) PROVE glued[i] = left[i]
    OBVIOUS
  <2>1. /\ i \in 1 .. Len(front) + Len(q) /\ i \in 1 .. Len(both) - d /\ i + d \in 1 .. Len(p) + Len(q)
        /\ (i <= Len(front) <=> i + d <= Len(p)) /\ (i <= Len(front) => i \in 1 .. Len(p) - d)
        /\ i - Len(front) = (i + d) - Len(p)
    BY <1>1, <1>2, <1>4
  <2>2. left[i] = IF i + d <= Len(p) THEN p[i + d] ELSE q[(i + d) - Len(p)]
    BY <1>1, <1>3, <2>1
  <2>3. glued[i] = IF i <= Len(front) THEN front[i] ELSE q[i - Len(front)]
    BY <1>4, <2>1
  <2>4. i <= Len(front) => front[i] = p[i + d]
    BY <1>2, <2>1
  <2> QED
    BY <2>1, <2>2, <2>3, <2>4
<1>7. glued = left
  BY <1>3, <1>4, <1>5, <1>6, SeqEqual
<1> QED
  BY <1>7 DEF glued, left, front, both

LEMMA LeftAfter ==
  ASSUME NEW A, NEW p \in Seq(A), NEW q \in Seq(A)
  PROVE  SubSeq(p \o q, Len(p) + 1, Len(p \o q)) = q
<1>1. Len(p) \in 0 .. Len(p) /\ Len(p) \in Int /\ Len(p) + 1 \in Int /\ Len(p) < Len(p) + 1
  OBVIOUS
<1>2. SubSeq(p, Len(p) + 1, Len(p)) \o q = SubSeq(p \o q, Len(p) + 1, Len(p \o q))
  BY <1>1, LeftIsKept
<1>3. SubSeq(p, Len(p) + 1, Len(p)) = <<>>
  BY <1>1, SubSeqEmpty
<1>4. <<>> \o q = q
  BY ConcatEmptySeq
<1> QED
  BY <1>2, <1>3, <1>4

(* What the client has sent and no routine has seen.                        *)
Stream == recvBuf \o wire

(* It begins with the request that a routine works on, or with the one that *)
(* is to be parsed; or it is what came after the last one.                  *)
Current == IF running THEN Len(answered) ELSE Len(answered) + 1
Leftover ==
  /\ ~running /\ asked = Len(script) /\ Len(answered) = asked /\ asked >= 1
  /\ Stream = Rest(script[asked])

(* The requests that were answered.                                         *)
SeenSoFar ==
  /\ Len(answered) <= asked
  /\ \A i \in 1 .. Len(answered) :
       SeesItsRequest(answered[i], script[i]) /\ Whole(script[i]).res = "ok"
  /\ running => Len(answered) >= 1 /\ req.done = Whole(script[Len(answered)]).bytes

SeenInv ==
  /\ ScriptsAreFramed /\ Framed(script)
  /\ \E T : answered \in Seq(T)
  /\ script = <<>> => answered = <<>> /\ recvBuf = <<>>
  /\ running => open
  /\ base = 1 => SeenSoFar /\ (open => InARow(Stream, script, Current, asked) \/ Leftover)

LEMMA SeenStarts == ScriptsAreFramed /\ Init => SeenInv
<1> SUFFICES ASSUME ScriptsAreFramed, Init PROVE SeenInv
  OBVIOUS
<1>1. answered \in Seq({}) /\ Len(answered) = 0 /\ answered = <<>>
  BY DEF Init
<1>2. Framed(script)
  <2>1. script = <<>> /\ DOMAIN <<>> = {}
    BY DEF Init
  <2> QED
    BY <2>1 DEF Framed
<1>3. SeenSoFar
  <2>1. \A i \in 1 .. 0 : FALSE
    OBVIOUS
  <2> QED
    BY <1>1, <2>1 DEF Init, SeenSoFar
<1> QED
  BY <1>1, <1>2, <1>3 DEF Init, SeenInv

LEMMA LengthsAre ==
  ASSUME PInv, SeenInv
  PROVE  /\ Len(answered) \in Nat /\ asked \in Nat /\ Len(script) \in Nat /\ asked <= Len(script)
         /\ Stream \in Seq(Alphabet)
         /\ \A i \in 1 .. Len(script) : script[i] \in Seq(Alphabet)
<1>1. Len(answered) \in Nat
  <2>1. PICK T : answered \in Seq(T)
    BY DEF SeenInv
  <2> QED
    BY <2>1
<1>2. asked \in Nat /\ Len(script) \in Nat /\ asked <= Len(script)
  BY DEF PInv
<1>3. \A i \in 1 .. Len(script) : script[i] \in Seq(Alphabet)
  BY ElementOfSeq DEF PInv
<1>4. Stream \in Seq(Alphabet)
  BY ConcatProperties DEF Stream, PInv
<1> QED
  BY <1>1, <1>2, <1>3, <1>4

LEMMA ComesSeen == PInv /\ WholeInv /\ SeenInv /\ ClientComes => SeenInv'
<1> SUFFICES ASSUME PInv, WholeInv, SeenInv, ClientComes PROVE SeenInv'
  OBVIOUS
<1>1. /\ script = <<>> /\ answered = <<>> /\ recvBuf = <<>> /\ wire = <<>> /\ ~running /\ asked = 0
  BY DEF ClientComes, WholeInv, SeenInv, PInv
<1>2. /\ script' \in Scripts /\ asked' = asked /\ wire' = wire /\ recvBuf' = recvBuf /\ base' = base
      /\ running' = running /\ answered' = answered /\ open' = TRUE
  BY DEF ClientComes, connVars, history
<1>3. Framed(script)'
  BY <1>2 DEF SeenInv, ScriptsAreFramed, Framed
<1>4. Len(answered') = 0 /\ answered' \in Seq({}) /\ ~running' /\ asked' = 0
  BY <1>1, <1>2
<1>5. SeenSoFar'
  <2>1. \A i \in 1 .. 0 : FALSE
    OBVIOUS
  <2> QED
    BY <1>4, <2>1 DEF SeenSoFar
<1>6. InARow(Stream, script, Current, asked)'
  <2>1. Current' = 0 + 1
    BY <1>4 DEF Current
  <2>2. <<>> \o <<>> = <<>>
    OBVIOUS
  <2>3. Stream' = <<>>
    BY <1>1, <1>2, <2>2 DEF Stream
  <2>4. 0 \in Nat
    OBVIOUS
  <2>5. InARow(Stream', script', 0 + 1, 0)
    BY <2>3, <2>4, NoneInARow
  <2> QED
    BY <1>4, <2>1, <2>5
<1>7. \E T : answered' \in Seq(T)
  BY <1>4
<1>8. (script = <<>> => answered = <<>> /\ recvBuf = <<>>)' /\ (running => open)' /\ ScriptsAreFramed
  BY <1>1, <1>2 DEF SeenInv
<1> QED
  BY <1>3, <1>5, <1>6, <1>7, <1>8 DEF SeenInv

LEMMA SendsSeen == PInv /\ WholeInv /\ SeenInv /\ ClientSends => SeenInv'
<1> SUFFICES ASSUME PInv, WholeInv, SeenInv, ClientSends PROVE SeenInv'
  OBVIOUS
<1>1. /\ script' = script /\ recvBuf' = recvBuf /\ base' = base /\ running' = running
      /\ answered' = answered /\ open' = open /\ req' = req
      /\ asked' = asked + 1 /\ wire' = wire \o script[asked + 1] /\ asked < Len(script) /\ open
  BY DEF ClientSends, client, connVars, history
<1>2. /\ Len(answered) \in Nat /\ asked \in Nat /\ Len(script) \in Nat
      /\ Stream \in Seq(Alphabet) /\ \A i \in 1 .. Len(script) : script[i] \in Seq(Alphabet)
  BY LengthsAre
<1>3. asked + 1 \in 1 .. Len(script) /\ \A j \in 1 .. asked + 1 : j \in 1 .. Len(script)
  BY <1>1, <1>2
<1>4. script # <<>>
  BY <1>1, <1>2
<1>5. base = 1 => SeenSoFar'
  <2>1. base = 1 => SeenSoFar
    BY DEF SeenInv
  <2>2. Len(answered) <= asked => Len(answered) <= asked + 1
    BY <1>2
  <2> QED
    BY <1>1, <2>1, <2>2 DEF SeenSoFar
<1>6. ASSUME base = 1 PROVE InARow(Stream, script, Current, asked)'
  <2>1. InARow(Stream, script, Current, asked)
    BY <1>1, <1>2, <1>6 DEF SeenInv, Leftover
  <2>2. Current \in 1 .. asked + 1
    <3>1. SeenSoFar
      BY <1>6 DEF SeenInv
    <3> QED
      BY <1>2, <3>1 DEF Current, SeenSoFar
  <2>3. Current' = Current
    BY <1>1 DEF Current
  <2>4. Stream' = Stream \o script[asked + 1]
    <3> DEFINE m == script[asked + 1]
    <3>1. m \in Seq(Alphabet) /\ recvBuf \in Seq(Alphabet) /\ wire \in Seq(Alphabet)
      BY <1>2, <1>3 DEF PInv
    <3> HIDE DEF m
    <3>2. (recvBuf \o wire) \o m = recvBuf \o (wire \o m)
      BY <3>1, ConcatAssociative
    <3> QED
      BY <1>1, <3>2 DEF Stream, m
  <2>5. \A j \in 1 .. asked + 1 : script[j] \in Seq(Alphabet)
    BY <1>2, <1>3
  <2>6. InARow(Stream \o script[asked + 1], script, Current, asked + 1)
    BY <1>2, <2>1, <2>2, <2>5, RowGrows
  <2> QED
    BY <1>1, <2>3, <2>4, <2>6
<1>7. \E T : answered' \in Seq(T)
  BY <1>1 DEF SeenInv
<1>8. script' # <<>> /\ (running => open)' /\ ScriptsAreFramed /\ Framed(script')
  BY <1>1, <1>4 DEF SeenInv
<1> QED
  BY <1>1, <1>5, <1>6, <1>7, <1>8 DEF SeenInv

(* A routine has returned: what it has seen is gone from recv_buf.          *)
LEMMA DoneSeen == PInv /\ WholeInv /\ SeenInv /\ RoutineDone => SeenInv'
<1> SUFFICES ASSUME PInv, WholeInv, SeenInv, RoutineDone PROVE SeenInv'
  OBVIOUS
<1>1. /\ running /\ ~running' /\ open /\ script' = script /\ asked' = asked /\ wire' = wire
      /\ base' = base /\ open' = open /\ answered' = answered
      /\ recvBuf' = SubSeq(recvBuf, req.done + 1, Len(recvBuf))
  BY DEF RoutineDone, SeenInv, client, history, Erased
<1>2. /\ Len(answered) \in Nat /\ asked \in Nat /\ Len(script) \in Nat /\ asked <= Len(script)
      /\ Stream \in Seq(Alphabet) /\ \A i \in 1 .. Len(script) : script[i] \in Seq(Alphabet)
  BY LengthsAre
<1>3. script # <<>>
  BY <1>1 DEF WholeInv
<1>4. base = 1 => SeenSoFar'
  <2>1. base = 1 => SeenSoFar
    BY DEF SeenInv
  <2> QED
    BY <1>1, <2>1 DEF SeenSoFar
<1>5. ASSUME base = 1 PROVE (InARow(Stream, script, Current, asked) \/ Leftover)'
  <2> DEFINE a == Len(answered)
             m == script[a]
             d == Whole(m).bytes
  <2>1. a \in 1 .. asked /\ Whole(m).res = "ok" /\ req.done = d
    <3>1. SeenSoFar
      BY <1>5 DEF SeenInv
    <3>2. a >= 1 /\ a <= asked
      BY <1>1, <3>1 DEF SeenSoFar
    <3>3. a \in 1 .. a /\ a \in 1 .. asked
      BY <1>2, <3>2
    <3> QED
      BY <1>1, <3>1, <3>3 DEF SeenSoFar
  <2>2. InARow(Stream, script, a, asked)
    BY <1>1, <1>5 DEF SeenInv, Leftover, Current
  <2>3. PICK u : Stream = m \o u /\ InARow(u, script, a + 1, asked)
    <3>1. asked \in Nat /\ a \in 1 .. asked /\ InARow(Stream, script, a, asked)
      BY <1>2, <2>1, <2>2
    <3> HIDE DEF a, d
    <3> QED
      BY <3>1, FirstInARow
  <2>4. Current' = a + 1
    BY <1>1 DEF Current
  <2>5. m \in Seq(Alphabet) /\ a \in 1 .. Len(script) /\ DOMAIN script = 1 .. Len(script)
    BY <1>2, <2>1 DEF PInv
  <2>6. Stream' = SubSeq(Stream, d + 1, Len(Stream))
    <3>1. recvBuf \in Seq(Alphabet) /\ wire \in Seq(Alphabet)
      BY DEF PInv
    <3>2. req.done \in 0 .. Len(recvBuf)
      <4>1. req.done \in Nat /\ req.done <= Len(recvBuf)
        BY DEF PInv, Within, Parsers
      <4> QED
        BY <3>1, <4>1
    <3>3. SubSeq(recvBuf, req.done + 1, Len(recvBuf)) \o wire
            = SubSeq(recvBuf \o wire, req.done + 1, Len(recvBuf \o wire))
      BY <3>1, <3>2, LeftIsKept
    <3>4. req.done = d
      BY <2>1
    <3> HIDE DEF d
    <3> QED
      BY <1>1, <3>3, <3>4 DEF Stream
  <2>7. CASE a < Len(script)
    <3>1. Whole(m) = [res |-> "ok", bytes |-> Len(m)]
      BY <2>5, <2>7 DEF SeenInv, Framed
    <3>2. d = Len(m)
      BY <3>1
    <3> HIDE DEF m, d
    <3>3. SubSeq(m \o u, Len(m) + 1, Len(m \o u)) = u
      BY <2>3, <2>5, LeftAfter DEF InARow
    <3>4. Stream' = u
      BY <2>3, <2>6, <3>2, <3>3
    <3> QED
      BY <1>1, <2>3, <2>4, <3>4
  <2>8. CASE ~(a < Len(script))
    <3>1. a = asked /\ asked = Len(script) /\ asked >= 1
      BY <1>2, <2>1, <2>8
    <3>2. Stream = m
      <4> HIDE DEF m
      <4>1. m \o <<>> = m
        BY <2>5, ConcatEmptySeq
      <4>2. u = <<>>
        BY <1>2, <2>3, <3>1, NoneInARow
      <4> QED
        BY <2>3, <4>1, <4>2
    <3>3. Stream' = Rest(m)
      BY <2>6, <3>2 DEF Rest
    <3>4. m = script[asked]
      BY <3>1
    <3> HIDE DEF m
    <3> QED
      BY <1>1, <3>1, <3>3, <3>4 DEF Leftover, a
  <2> QED
    BY <2>7, <2>8
<1>6. \E T : answered' \in Seq(T)
  BY <1>1 DEF SeenInv
<1>7. script' # <<>> /\ ~running' /\ ScriptsAreFramed /\ Framed(script')
  BY <1>1, <1>3 DEF SeenInv
<1> QED
  BY <1>1, <1>4, <1>5, <1>6, <1>7 DEF SeenInv

(* What a packet and the parser leave as it was.                            *)
LEMMA ReceiveTakes ==
  ASSUME PInv, Receive
  PROVE  /\ script' = script /\ asked' = asked /\ open /\ ~running
         /\ base' = 1 => base = 1
         /\ Stream' = Stream
         /\ req'.res = "ok" => last'.bytes = req'.done
         /\ \/ req'.res # "ok" /\ answered' = answered /\ ~running'
            \/ /\ req'.res = "ok" /\ answered' = Append(answered, View(req', recvBuf'))
               /\ running' /\ open'
<1>1. PICK n \in 1 .. Len(wire), b \in {base, base + 1}, junk \in Junk :
        /\ base' = b /\ wire' = SubSeq(wire, n + 1, Len(wire))
        /\ \E buf \in {recvBuf \o SubSeq(wire, 1, n)} :
           \E r \in {ContinueToParse(req, buf, b, junk)} :
             /\ last' = [buf |-> buf, res |-> r.res,
                         bytes |-> IF r.res = "ok" THEN r.done ELSE 0]
             /\ req' = r /\ recvBuf' = buf
             /\ More(r) \/ Failed(r) \/ Parsed(r, buf)
  BY DEF Receive
<1>2. PICK r :
        /\ last' = [buf |-> recvBuf', res |-> r.res,
                    bytes |-> IF r.res = "ok" THEN r.done ELSE 0]
        /\ req' = r /\ recvBuf' = recvBuf \o SubSeq(wire, 1, n)
        /\ More(r) \/ Failed(r) \/ Parsed(r, recvBuf')
  BY <1>1
<1>3. script' = script /\ asked' = asked /\ open /\ ~running
  BY DEF Receive, client
<1>4. base' = 1 => base = 1
  <2>1. base \in Nat /\ base >= 1
    BY HttpProcessorAssumption DEF PInv
  <2> QED
    BY <1>1, <2>1
<1>5. Stream' = Stream
  <2> DEFINE front == SubSeq(wire, 1, n)
             back == SubSeq(wire, n + 1, Len(wire))
  <2>1. recvBuf \in Seq(Alphabet) /\ wire \in Seq(Alphabet) /\ Len(wire) \in Nat
    BY DEF PInv
  <2>2. /\ n \in Int /\ 1 \in Int /\ n + 1 \in Int /\ Len(wire) \in Int
        /\ 1 \in 1 .. Len(wire) + 1 /\ n \in 1 - 1 .. Len(wire) /\ Len(wire) \in n .. Len(wire)
        /\ (\A i \in 1 .. n : i \in 1 .. Len(wire)) /\ \A i \in n + 1 .. Len(wire) : i \in 1 .. Len(wire)
    BY <1>1, <2>1
  <2>3. \A i \in 1 .. Len(wire) : wire[i] \in Alphabet
    BY <2>1, ElementOfSeq
  <2>4. front \in Seq(Alphabet)
    BY <2>2, <2>3, SubSeqProperties
  <2>5. back \in Seq(Alphabet)
    BY <2>2, <2>3, SubSeqProperties
  <2>6. front \o back = wire
    <3>1. front \o back = SubSeq(wire, 1, Len(wire))
      BY <2>1, <2>2, ConcatAdjacentSubSeq
    <3> QED
      BY <2>1, <3>1, SubSeqFull
  <2>7. recvBuf' = recvBuf \o front /\ wire' = back
    BY <1>1, <1>2
  <2> HIDE DEF front, back
  <2>8. (recvBuf \o front) \o back = recvBuf \o (front \o back)
    <3>1. recvBuf \in Seq(Alphabet) /\ front \in Seq(Alphabet) /\ back \in Seq(Alphabet)
      BY <2>1, <2>4, <2>5
    <3> QED
      BY <3>1, ConcatAssociative
  <2> QED
    BY <2>6, <2>7, <2>8 DEF Stream
<1>6. req'.res = "ok" => last'.bytes = req'.done
  BY <1>2
<1>7. CASE More(r)
  BY <1>2, <1>3, <1>4, <1>5, <1>6, <1>7 DEF More
<1>8. CASE Failed(r)
  BY <1>2, <1>3, <1>4, <1>5, <1>6, <1>8 DEF Failed
<1>9. CASE Parsed(r, recvBuf')
  BY <1>2, <1>3, <1>4, <1>5, <1>6, <1>9 DEF Parsed
<1> QED
  BY <1>2, <1>7, <1>8, <1>9

(* What on_received() gives to a routine is the next request, whole.        *)
LEMMA ParsedIsNext ==
  ASSUME PInv, PInv', WholeInv, SeenInv, Receive, base' = 1, req'.res = "ok",
         NEW k, k = Len(answered) + 1
  PROVE  /\ k \in 1 .. asked /\ InARow(Stream, script, k, asked)
         /\ SeesItsRequest(View(req', recvBuf'), script[k])
         /\ Whole(script[k]).res = "ok" /\ req'.done = Whole(script[k]).bytes
<1>1. /\ script' = script /\ asked' = asked /\ open /\ ~running
      /\ base = 1 /\ Stream' = Stream /\ last'.bytes = req'.done
  BY ReceiveTakes
<1>2. /\ Len(answered) \in Nat /\ asked \in Nat /\ Len(script) \in Nat /\ asked <= Len(script)
      /\ Stream \in Seq(Alphabet) /\ \A i \in 1 .. Len(script) : script[i] \in Seq(Alphabet)
  BY LengthsAre
<1>3. SeenSoFar /\ (InARow(Stream, script, k, asked) \/ Leftover)
  BY <1>1 DEF SeenInv, Current
<1>4. /\ Whole(recvBuf').res = "ok" /\ Whole(recvBuf').bytes = req'.done
      /\ IsRead(req', recvBuf')
  <2>1. /\ last'.buf = recvBuf' /\ last'.res = req'.res
        /\ [res |-> last'.res, bytes |-> last'.bytes] = Whole(last'.buf)
        /\ IsRead(req', recvBuf')
    BY ReceivedAsWhole
  <2>2. Whole(recvBuf') = [res |-> "ok", bytes |-> req'.done]
    BY <1>1, <2>1
  <2> QED
    BY <2>1, <2>2
<1>5. /\ recvBuf' \in Seq(Alphabet) /\ wire' \in Seq(Alphabet) /\ Within(req', Len(recvBuf'))
      /\ Stream = recvBuf' \o wire'
  BY <1>1 DEF PInv, Stream
<1>6. Whole(Stream).res = "ok" /\ Whole(Stream).bytes = req'.done
  BY <1>4, <1>5, WholeIsKept
<1>7. ~Leftover
  <2> SUFFICES ASSUME Leftover PROVE FALSE
    OBVIOUS
  <2>1. asked \in 1 .. Len(answered) /\ asked = Len(script) /\ asked >= 1 /\ Stream = Rest(script[asked])
    BY <1>2 DEF Leftover
  <2>2. Whole(script[asked]).res = "ok"
    BY <1>3, <2>1 DEF SeenSoFar
  <2>3. asked \in DOMAIN script
    BY <1>2, <2>1 DEF PInv
  <2>4. IF asked < Len(script) THEN Whole(script[asked]) = [res |-> "ok", bytes |-> Len(script[asked])]
        ELSE Whole(script[asked]).res = "ok" => Whole(Rest(script[asked])).res # "ok"
    <3>1. Framed(script)
      BY DEF SeenInv
    <3> QED
      BY <2>3, <3>1, Zenon DEF Framed
  <2>5. ~(asked < Len(script))
    BY <1>2, <2>1
  <2> QED
    BY <1>6, <2>1, <2>2, <2>4, <2>5, Zenon
<1>8. InARow(Stream, script, k, asked)
  BY <1>3, <1>7
<1>9. k \in 1 .. asked
  <2>1. Len(answered) <= asked
    BY <1>3 DEF SeenSoFar
  <2>2. k # asked + 1
    <3> SUFFICES ASSUME k = asked + 1 PROVE FALSE
      OBVIOUS
    <3>1. Stream = <<>>
      BY <1>2, <1>8, NoneInARow
    <3>2. [res |-> "more", bytes |-> 0] = Whole(<<>>)
      BY NoCallIsWhole DEF NoCall
    <3> QED
      BY <1>6, <3>1, <3>2
  <2> QED
    BY <1>2, <2>1, <2>2
<1> DEFINE m == script[k]
<1>10. PICK u : Stream = m \o u /\ InARow(u, script, k + 1, asked)
  <2> HIDE DEF m
  <2>1. asked \in Nat /\ k \in 1 .. asked /\ InARow(Stream, script, k, asked)
    BY <1>2, <1>8, <1>9
  <2>2. \E u : Stream = script[k] \o u /\ InARow(u, script, k + 1, asked)
    BY <2>1, FirstInARow
  <2> QED
    BY <2>2 DEF m
<1>11. m \in Seq(Alphabet) /\ k \in DOMAIN script
  <2>1. k \in 1 .. Len(script)
    BY <1>2, <1>9
  <2> QED
    BY <1>2, <2>1 DEF PInv
<1>12. Whole(m).res = "ok"
  <2>1. CASE k < Len(script)
    <3>1. Whole(m) = [res |-> "ok", bytes |-> Len(m)]
      BY <1>11, <2>1 DEF SeenInv, Framed
    <3> QED
      BY <3>1
  <2>2. CASE ~(k < Len(script))
    <3>1. k = asked
      BY <1>2, <1>9, <2>2
    <3> HIDE DEF m
    <3>2. m \o <<>> = m
      BY <1>11, ConcatEmptySeq
    <3>3. u = <<>>
      BY <1>2, <1>10, <3>1, NoneInARow
    <3>4. Stream = m
      BY <1>10, <3>2, <3>3
    <3> QED
      BY <1>6, <3>4
  <2> QED
    BY <2>1, <2>2
<1> HIDE DEF m
<1>13. Whole(m \o u).bytes = Whole(m).bytes
  <2>1. u \in Seq(Alphabet)
    BY <1>10 DEF InARow
  <2> QED
    BY <1>11, <1>12, <2>1, WholeIsKept
<1>14. req'.done = Whole(m).bytes
  BY <1>6, <1>10, <1>13
<1>15. SeesItsRequest(ViewOf(req', recvBuf'), m)
  <2>1. recvBuf' \o wire' = m \o u /\ u \in Seq(Alphabet)
    BY <1>5, <1>10 DEF InARow
  <2> QED
    BY <1>4, <1>5, <1>10, <1>11, <1>12, <2>1, ReadIsSeen
<1>16. View(req', recvBuf') = ViewOf(req', recvBuf')
  BY DEF View, ViewOf
<1> QED
  BY <1>8, <1>9, <1>12, <1>14, <1>15, <1>16 DEF m

LEMMA ReceiveSeen == PInv /\ PInv' /\ WholeInv /\ SeenInv /\ Receive => SeenInv'
<1> SUFFICES ASSUME PInv, PInv', WholeInv, SeenInv, Receive PROVE SeenInv'
  OBVIOUS
<1>1. /\ script' = script /\ asked' = asked /\ open /\ ~running
      /\ (base' = 1 => base = 1) /\ Stream' = Stream
  BY ReceiveTakes
<1>2. PICK T : answered \in Seq(T)
  BY DEF SeenInv
<1>3. Len(answered) \in Nat /\ asked \in Nat
  BY LengthsAre
<1>4. script' # <<>> /\ ScriptsAreFramed /\ Framed(script')
  BY <1>1 DEF WholeInv, SeenInv, Receive
<1>5. CASE req'.res # "ok"
  <2>1. answered' = answered /\ ~running'
    BY <1>5, ReceiveTakes
  <2>2. open' => open
    BY <1>1
  <2>3. ASSUME base' = 1
        PROVE  SeenSoFar' /\ (InARow(Stream, script, Current, asked) \/ Leftover)'
    <3>1. SeenSoFar /\ (InARow(Stream, script, Current, asked) \/ Leftover)
      BY <1>1, <2>3 DEF SeenInv
    <3>2. SeenSoFar'
      BY <1>1, <2>1, <3>1 DEF SeenSoFar
    <3>3. Current' = Current /\ (Leftover => Leftover')
      BY <1>1, <2>1 DEF Current, Leftover
    <3> QED
      BY <1>1, <3>1, <3>2, <3>3
  <2>4. \E U : answered' \in Seq(U)
    BY <1>2, <2>1
  <2> QED
    BY <1>4, <2>1, <2>3, <2>4 DEF SeenInv
<1>6. CASE req'.res = "ok"
  <2> DEFINE v == View(req', recvBuf')
             k == Len(answered) + 1
  <2>1. answered' = Append(answered, v) /\ running' /\ open'
    BY <1>6, ReceiveTakes
  <2>2. base' = 1 => /\ k \in 1 .. asked /\ InARow(Stream, script, k, asked)
                     /\ SeesItsRequest(v, script[k])
                     /\ Whole(script[k]).res = "ok" /\ req'.done = Whole(script[k]).bytes
    BY <1>6, ParsedIsNext
  <2> HIDE DEF v
  <2>3. answered \in Seq(T \cup {v}) /\ v \in T \cup {v}
    BY <1>2
  <2>4. /\ answered' \in Seq(T \cup {v}) /\ Len(answered') = k /\ answered'[k] = v
        /\ \A i \in 1 .. Len(answered) : answered'[i] = answered[i]
    BY <1>3, <2>1, <2>3
  <2>5. ASSUME base' = 1 PROVE SeenSoFar' /\ InARow(Stream, script, Current, asked)'
    <3>1. SeenSoFar
      BY <1>1, <2>5 DEF SeenInv
    <3>2. k \in Nat /\ k >= 1 /\ k <= asked /\ \A i \in 1 .. k : i \in 1 .. Len(answered) \/ i = k
      BY <1>3, <2>2, <2>5
    <3>3. ASSUME NEW i \in 1 .. k
          PROVE  SeesItsRequest(answered'[i], script[i]) /\ Whole(script[i]).res = "ok"
      <4>1. CASE i = k
        BY <2>2, <2>4, <2>5, <4>1
      <4>2. CASE i \in 1 .. Len(answered)
        BY <2>4, <3>1, <4>2 DEF SeenSoFar
      <4> QED
        BY <3>2, <4>1, <4>2
    <3>4. Current' = k /\ Len(answered') = k
      BY <2>1, <2>4 DEF Current
    <3>5. req'.done = Whole(script[k]).bytes /\ InARow(Stream, script, k, asked)
      BY <2>2, <2>5
    <3> HIDE DEF k
    <3>6. SeenSoFar'
      BY <1>1, <3>2, <3>3, <3>4, <3>5 DEF SeenSoFar
    <3> QED
      BY <1>1, <3>4, <3>5, <3>6
  <2>6. \E U : answered' \in Seq(U)
    BY <2>4
  <2> QED
    BY <1>4, <2>1, <2>5, <2>6 DEF SeenInv
<1> QED
  BY <1>5, <1>6

LEMMA SeenKeeps == PInv /\ PInv' /\ WholeInv /\ SeenInv /\ [Next]_vars => SeenInv'
<1> SUFFICES ASSUME PInv, PInv', WholeInv, SeenInv, [Next]_vars PROVE SeenInv'
  OBVIOUS
<1>1. CASE RoutineAbandons
  <2>1. /\ script' = script /\ asked' = asked /\ answered' = answered /\ base' = base
        /\ ~running' /\ ~open' /\ recvBuf' = recvBuf /\ running
    BY <1>1 DEF RoutineAbandons, client, connVars, history
  <2>2. base = 1 => SeenSoFar'
    BY <2>1 DEF SeenInv, SeenSoFar
  <2>3. script # <<>> /\ \E T : answered' \in Seq(T)
    BY <2>1 DEF WholeInv, SeenInv
  <2> QED
    BY <2>1, <2>2, <2>3 DEF SeenInv
<1>2. CASE Flush
  BY <1>2 DEF Flush, SeenInv, SeenSoFar, Current, Leftover, Stream, client, connVars, history
<1>3. CASE ConnClosed
  <2>1. /\ script' = <<>> /\ asked' = 0 /\ recvBuf' = <<>> /\ answered' = <<>>
        /\ ~running' /\ ~open'
    BY <1>3 DEF ConnClosed
  <2>2. answered' \in Seq({}) /\ Len(answered') = 0 /\ DOMAIN script' = {}
    BY <2>1
  <2>3. Framed(script')
    BY <2>2 DEF Framed
  <2>4. SeenSoFar'
    <3>1. \A i \in 1 .. 0 : FALSE
      OBVIOUS
    <3> QED
      BY <2>1, <2>2, <3>1 DEF SeenSoFar
  <2>5. \E T : answered' \in Seq(T)
    BY <2>2
  <2> QED
    BY <2>1, <2>3, <2>4, <2>5 DEF SeenInv
<1>4. CASE UNCHANGED vars
  BY <1>4 DEF vars, SeenInv, SeenSoFar, Current, Leftover, Stream, client, connVars, history
<1> QED
  BY <1>1, <1>2, <1>3, <1>4, ComesSeen, SendsSeen, ReceiveSeen, DoneSeen DEF Next

(* As long as recv_buf has not moved.                                       *)
LEMMA SeenIsEach == PInv /\ SeenInv /\ base = 1 => EachSeen
<1> SUFFICES ASSUME PInv, SeenInv, base = 1, NEW i \in DOMAIN answered
             PROVE  /\ i <= asked
                    /\ answered[i].uri = <<script[i][1]>> /\ answered[i].version = answered[i].uri
                    /\ SeesItsRequest(answered[i], script[i])
  BY DEF EachSeen
<1>1. SeenSoFar /\ \E T : answered \in Seq(T)
  BY DEF SeenInv
<1>2. Len(answered) \in Nat /\ asked \in Nat /\ i \in 1 .. Len(answered)
  BY <1>1, LengthsAre
<1>3. SeesItsRequest(answered[i], script[i]) /\ Len(answered) <= asked
  BY <1>1, <1>2 DEF SeenSoFar
<1>4. i <= asked
  BY <1>2, <1>3
<1> QED
  BY <1>3, <1>4 DEF SeesItsRequest

(* What every routine sees (http_processor.cpp:36-60, http_request.cpp:     *)
(* 60-243): its client's request, whole and as it was sent, however the     *)
(* requests were cut, if complete requests are sent one after the other, as *)
(* long as recv_buf has not moved.                                          *)
THEOREM EachIsSeen == ScriptsAreFramed => (ServiceSpec => [](base = 1 => EachSeen))
<1> SUFFICES ASSUME ScriptsAreFramed PROVE ServiceSpec => [](base = 1 => EachSeen)
  OBVIOUS
<1>1. Init => SeenInv
  BY SeenStarts
<1>2. PInv /\ PInv' /\ WholeInv /\ SeenInv /\ [Next]_vars => SeenInv'
  BY SeenKeeps
<1>3. PInv /\ SeenInv => (base = 1 => EachSeen)
  BY SeenIsEach
<1> QED
  BY <1>1, <1>2, <1>3, ServiceRunsProcessor, WholeInvariant, PTL DEF Spec

-----------------------------------------------------------------------------
(* The response *)

(* What send_buf is made of. *)
Texts ==
  {"version", "OK", "ER", "cr", "lf", "blank", "x", "Connection", "Date"} \cup R!Names
Cells ==
  {R!Cell(t) : t \in Texts} \cup {R!Code(c) : c \in Codes} \cup
  {R!Length(n) : n \in Nat}

Words == {"OK", "ER"}
AutoHeadersOf(g, typeDone) ==
  (IF "keepAlive" \in g THEN <<R!Cell("Connection")>> ELSE <<>>) \o
  (IF "date" \in g THEN <<R!Cell("Date")>> ELSE <<>>) \o
  <<R!Cell("Server")>> \o
  (IF "defaultType" \in g /\ ~typeDone THEN <<R!Cell("Content-Type")>> ELSE <<>>)
HeaderCells(h) == [i \in DOMAIN h |-> R!Cell(h[i])]
TypeSaid(h) == \E i \in DOMAIN h : h[i] = "Content-Type"
ContentCells(n) == [i \in 1 .. n |-> R!Cell("x")]

(* The status line with code c, a word w, and the headers h of the routine; *)
(* with the automatic headers; the length and the empty line; all of it.    *)
Began(c, w, h) == R!StatusLine(c, w) \o HeaderCells(h)
Headed(g, c, w, h) == Began(c, w, h) \o AutoHeadersOf(g, TypeSaid(h))
LengthCells(n) == <<R!Length(n), R!Cell("blank")>>
Written(g, c, w, h, len, n) == (Headed(g, c, w, h) \o LengthCells(len)) \o ContentCells(n)

(* The members of http_response_t that something is written with.           *)
Resps ==
  [code : Codes, codePos : Nat, headerPos : Nat, lengthPos : Nat, contentPos : Nat,
   typeDone : BOOLEAN]

RespOf(c, cp, hp, lp, op, t) ==
  [code |-> c, codePos |-> cp, headerPos |-> hp, lengthPos |-> lp, contentPos |-> op,
   typeDone |-> t]

(* http_response_t while nothing is written, while headers may come, and    *)
(* while content may come.                                                  *)
Fresh == [buf |-> <<>>, resp |-> R!Attached]

Heading(c, w, h) ==
  [buf |-> Began(c, w, h), resp |-> RespOf(c, 1, 5, 0, 0, TypeSaid(h))]

Filling(g, c, w, h, n) ==
  [buf |-> Written(g, c, w, h, 0, n),
   resp |-> RespOf(c, 1, 5, Len(Headed(g, c, w, h)), Len(Headed(g, c, w, h)) + 2, TypeSaid(h))]

LEMMA Joined ==
  ASSUME NEW s \in Seq(Cells), NEW t \in Seq(Cells)
  PROVE  /\ s \o t \in Seq(Cells) /\ Len(s \o t) = Len(s) + Len(t)
         /\ Len(s) \in Nat /\ Len(t) \in Nat
         /\ \A i \in 1 .. Len(s) : (s \o t)[i] = s[i]
         /\ \A i \in 1 .. Len(t) : (s \o t)[Len(s) + i] = t[i]
OBVIOUS

LEMMA StatusLineIs ==
  ASSUME NEW c \in Codes, NEW w \in Words
  PROVE  R!StatusLine(c, w) \in Seq(Cells) /\ Len(R!StatusLine(c, w)) = 5
<1>1. /\ R!Cell("version") \in Cells /\ R!Code(c) \in Cells /\ R!Cell(w) \in Cells
      /\ R!Cell("cr") \in Cells /\ R!Cell("lf") \in Cells
  BY DEF Cells, Texts, Words
<1> HIDE DEF Cells
<1> QED
  BY <1>1 DEF R!StatusLine

LEMMA HeaderCellsAre ==
  ASSUME NEW h \in Seq(R!Names)
  PROVE  HeaderCells(h) \in Seq(Cells) /\ Len(HeaderCells(h)) = Len(h)
<1>1. DOMAIN h = 1 .. Len(h) /\ Len(h) \in Nat
  OBVIOUS
<1>2. ASSUME NEW i \in 1 .. Len(h) PROVE R!Cell(h[i]) \in Cells
  <2>1. h[i] \in R!Names
    BY <1>1, ElementOfSeq
  <2> QED
    BY <2>1 DEF Cells, Texts
<1>3. HeaderCells(h) = [i \in 1 .. Len(h) |-> R!Cell(h[i])]
  BY <1>1 DEF HeaderCells
<1> HIDE DEF Cells
<1> QED
  BY <1>1, <1>2, <1>3

LEMMA AutoHeadersAre ==
  ASSUME NEW g, NEW b
  PROVE  AutoHeadersOf(g, b) \in Seq(Cells)
<1>1. /\ R!Cell("Connection") \in Cells /\ R!Cell("Date") \in Cells
      /\ R!Cell("Server") \in Cells /\ R!Cell("Content-Type") \in Cells
  BY DEF Cells, Texts, R!Names
<1> HIDE DEF Cells
<1> QED
  BY <1>1 DEF AutoHeadersOf

LEMMA ContentCellsAre ==
  ASSUME NEW n \in Nat
  PROVE  ContentCells(n) \in Seq(Cells) /\ Len(ContentCells(n)) = n
<1>1. R!Cell("x") \in Cells
  BY DEF Cells, Texts
<1> HIDE DEF Cells
<1> QED
  BY <1>1 DEF ContentCells

LEMMA LengthCellsAre ==
  ASSUME NEW n \in Nat
  PROVE  LengthCells(n) \in Seq(Cells) /\ Len(LengthCells(n)) = 2
<1>1. R!Cell("blank") \in Cells /\ R!Length(n) \in Cells
  BY DEF Cells, Texts
<1> HIDE DEF Cells
<1> QED
  BY <1>1 DEF LengthCells

LEMMA BeganIs ==
  ASSUME NEW c \in Codes, NEW w \in Words, NEW h \in Seq(R!Names)
  PROVE  Began(c, w, h) \in Seq(Cells) /\ Len(Began(c, w, h)) = 5 + Len(h)
<1> DEFINE s == R!StatusLine(c, w)  t == HeaderCells(h)
<1>1. s \in Seq(Cells) /\ Len(s) = 5
  BY StatusLineIs
<1>2. t \in Seq(Cells) /\ Len(t) = Len(h)
  BY HeaderCellsAre
<1> HIDE DEF s, t
<1>3. s \o t \in Seq(Cells) /\ Len(s \o t) = Len(s) + Len(t)
  BY <1>1, <1>2, Joined
<1>4. Len(s \o t) = 5 + Len(h)
  BY <1>1, <1>2, <1>3
<1> QED
  BY <1>3, <1>4 DEF Began, s, t

LEMMA HeadedIs ==
  ASSUME NEW g, NEW c \in Codes, NEW w \in Words, NEW h \in Seq(R!Names)
  PROVE  /\ Headed(g, c, w, h) \in Seq(Cells) /\ Len(Headed(g, c, w, h)) \in Nat
         /\ 5 <= Len(Headed(g, c, w, h))
         /\ Len(Headed(g, c, w, h)) = 5 + Len(h) + Len(AutoHeadersOf(g, TypeSaid(h)))
<1> DEFINE a == AutoHeadersOf(g, TypeSaid(h))
<1>1. a \in Seq(Cells)
  BY AutoHeadersAre
<1> HIDE DEF a
<1>2. Len(a) \in Nat /\ Len(h) \in Nat
  BY <1>1
<1>3. Began(c, w, h) \in Seq(Cells) /\ Len(Began(c, w, h)) = 5 + Len(h)
  BY BeganIs
<1>4. Began(c, w, h) \o a \in Seq(Cells) /\ Len(Began(c, w, h) \o a) = 5 + Len(h) + Len(a)
  BY <1>1, <1>3, Joined
<1> QED
  BY <1>2, <1>4 DEF Headed, a

LEMMA WrittenIs ==
  ASSUME NEW g, NEW c \in Codes, NEW w \in Words, NEW h \in Seq(R!Names),
         NEW len \in Nat, NEW n \in Nat
  PROVE  /\ Written(g, c, w, h, len, n) \in Seq(Cells)
         /\ Len(Written(g, c, w, h, len, n)) = Len(Headed(g, c, w, h)) + 2 + n
<1> DEFINE b == Headed(g, c, w, h)
<1>1. b \in Seq(Cells) /\ Len(b) \in Nat
  BY HeadedIs
<1> DEFINE l == LengthCells(len)  y == ContentCells(n)
<1>2. l \in Seq(Cells) /\ Len(l) = 2
  BY LengthCellsAre
<1>3. y \in Seq(Cells) /\ Len(y) = n
  BY ContentCellsAre
<1> HIDE DEF b, l, y
<1>4. b \o l \in Seq(Cells) /\ Len(b \o l) = Len(b) + Len(l)
  BY <1>1, <1>2, Joined
<1>5. (b \o l) \o y \in Seq(Cells) /\ Len((b \o l) \o y) = Len(b \o l) + Len(y)
  BY <1>3, <1>4, Joined
<1>6. Len((b \o l) \o y) = Len(b) + 2 + n
  BY <1>2, <1>3, <1>4, <1>5
<1> QED
  BY <1>5, <1>6 DEF Written, b, l, y

(* Patching the status line leaves what follows it.                         *)
NewWord(d) == IF d \in ErrorCodes THEN "ER" ELSE "OK"

LEMMA PatchCellsAre ==
  ASSUME NEW d \in Codes
  PROVE  R!Code(d) \in Cells /\ R!Word(d) \in Cells /\ R!Cell("cr") \in Cells
         /\ R!Word(d) = R!Cell(NewWord(d)) /\ NewWord(d) \in Words
BY DEF Cells, Texts, R!Word, NewWord, Words

LEMMA PatchedIs ==
  ASSUME NEW b \in Seq(Cells), 5 <= Len(b), NEW d \in Codes
  PROVE  /\ R!Patched(b, 1, d) \in Seq(Cells)
         /\ Len(R!Patched(b, 1, d)) = Len(b)
         /\ \A i \in 1 .. Len(b) : R!Patched(b, 1, d)[i] =
              IF i = 2 THEN R!Code(d) ELSE IF i = 3 THEN R!Word(d)
              ELSE IF i = 4 THEN R!Cell("cr") ELSE b[i]
<1> DEFINE x == R!Code(d)  y == R!Word(d)  z == R!Cell("cr")
<1>1. x \in Cells /\ y \in Cells /\ z \in Cells
  BY PatchCellsAre
<1>2. R!Patched(b, 1, d) = [b EXCEPT ![2] = x, ![3] = y, ![4] = z]
  BY DEF R!Patched
<1> HIDE DEF x, y, z
<1>3. Len(b) \in Nat /\ 2 \in 1 .. Len(b) /\ 3 \in 1 .. Len(b) /\ 4 \in 1 .. Len(b)
  OBVIOUS
<1> DEFINE p == [b EXCEPT ![2] = x, ![3] = y, ![4] = z]
<1>4. p \in Seq(Cells) /\ Len(p) = Len(b)
  BY <1>1, <1>3
<1>5. ASSUME NEW i \in 1 .. Len(b)
      PROVE  p[i] = IF i = 2 THEN x ELSE IF i = 3 THEN y ELSE IF i = 4 THEN z ELSE b[i]
  BY <1>1, <1>3, <1>5
<1> QED
  BY <1>2, <1>4, <1>5 DEF x, y, z

LEMMA PatchedFirst ==
  ASSUME NEW b \in Seq(Cells), 5 <= Len(b), NEW z \in Seq(Cells), NEW d \in Codes
  PROVE  R!Patched(b \o z, 1, d) = R!Patched(b, 1, d) \o z
<1> DEFINE q == R!Patched(b, 1, d)  p == R!Patched(b \o z, 1, d)
           At(i, e) == IF i = 2 THEN R!Code(d) ELSE IF i = 3 THEN R!Word(d)
                       ELSE IF i = 4 THEN R!Cell("cr") ELSE e
<1>1. /\ b \o z \in Seq(Cells) /\ Len(b \o z) = Len(b) + Len(z)
      /\ Len(b) \in Nat /\ Len(z) \in Nat
  BY Joined
<1>2. 5 <= Len(b \o z)
  BY <1>1
<1>3. q \in Seq(Cells) /\ Len(q) = Len(b) /\ \A i \in 1 .. Len(b) : q[i] = At(i, b[i])
  BY PatchedIs
<1>4. /\ p \in Seq(Cells) /\ Len(p) = Len(b \o z)
      /\ \A i \in 1 .. Len(b \o z) : p[i] = At(i, (b \o z)[i])
  BY <1>1, <1>2, PatchedIs
<1>5. \A i \in 1 .. Len(b) : (b \o z)[i] = b[i]
  BY Joined
<1>6. \A i \in 1 .. Len(z) : (b \o z)[Len(b) + i] = z[i]
  BY Joined
<1> HIDE DEF p, q
<1>7. q \o z \in Seq(Cells) /\ Len(q \o z) = Len(q) + Len(z)
  BY <1>3, Joined
<1>8. \A i \in 1 .. Len(q) : (q \o z)[i] = q[i]
  BY <1>3, Joined
<1>9. \A i \in 1 .. Len(z) : (q \o z)[Len(q) + i] = z[i]
  BY <1>3, Joined
<1>10. ASSUME NEW i \in 1 .. Len(p) PROVE p[i] = (q \o z)[i]
  <2>0. Len(p) = Len(b) + Len(z) /\ i \in Nat /\ 1 <= i /\ i <= Len(p)
    BY <1>1, <1>4
  <2>1. CASE i <= Len(b)
    <3>1. i \in 1 .. Len(b) /\ i \in 1 .. Len(q) /\ i \in 1 .. Len(b \o z)
      BY <1>1, <1>3, <2>0, <2>1
    <3>2. p[i] = At(i, b[i]) /\ (q \o z)[i] = At(i, b[i])
      BY <1>3, <1>4, <1>5, <1>8, <3>1
    <3> QED
      BY <3>2
  <2>2. CASE Len(b) < i
    <3> DEFINE k == i - Len(b)
    <3>1. k \in 1 .. Len(z) /\ i = Len(b) + k /\ i \in 1 .. Len(b \o z) /\ i > 4
      BY <1>1, <2>0, <2>2
    <3> HIDE DEF k
    <3>2. (b \o z)[i] = z[k] /\ (q \o z)[i] = z[k]
      BY <1>3, <1>6, <1>9, <3>1
    <3>3. p[i] = At(i, (b \o z)[i]) /\ i # 2 /\ i # 3 /\ i # 4
      BY <1>4, <3>1
    <3> QED
      BY <3>2, <3>3
  <2>3. i <= Len(b) \/ Len(b) < i
    BY <1>1, <2>0
  <2> QED
    BY <2>1, <2>2, <2>3
<1>11. Len(p) = Len(q \o z)
  BY <1>1, <1>3, <1>4, <1>7
<1>12. p = q \o z
  BY <1>4, <1>7, <1>10, <1>11, SeqEqual
<1> QED
  BY <1>12 DEF p, q

LEMMA StatusPatched ==
  ASSUME NEW c \in Codes, NEW w \in Words, NEW d \in Codes
  PROVE  R!Patched(R!StatusLine(c, w), 1, d) = R!StatusLine(d, NewWord(d))
BY PatchCellsAre DEF R!StatusLine, R!Patched

LEMMA BeganPatched ==
  ASSUME NEW c \in Codes, NEW w \in Words, NEW h \in Seq(R!Names), NEW d \in Codes
  PROVE  R!Patched(Began(c, w, h), 1, d) = Began(d, NewWord(d), h)
<1> DEFINE s == R!StatusLine(c, w)  t == HeaderCells(h)
<1>1. s \in Seq(Cells) /\ Len(s) = 5
  BY StatusLineIs
<1>2. t \in Seq(Cells)
  BY HeaderCellsAre
<1>3. R!Patched(s, 1, d) = R!StatusLine(d, NewWord(d))
  BY StatusPatched
<1> HIDE DEF s, t
<1>4. 5 <= Len(s)
  BY <1>1
<1>5. R!Patched(s \o t, 1, d) = R!Patched(s, 1, d) \o t
  BY <1>1, <1>2, <1>4, PatchedFirst
<1> QED
  BY <1>3, <1>5 DEF Began, s, t

LEMMA HeadedPatched ==
  ASSUME NEW g, NEW c \in Codes, NEW w \in Words, NEW h \in Seq(R!Names), NEW d \in Codes
  PROVE  R!Patched(Headed(g, c, w, h), 1, d) = Headed(g, d, NewWord(d), h)
<1> DEFINE s == Began(c, w, h)  t == AutoHeadersOf(g, TypeSaid(h))
<1>1. s \in Seq(Cells) /\ 5 <= Len(s)
  <2>1. s \in Seq(Cells) /\ Len(s) = 5 + Len(h) /\ Len(h) \in Nat
    BY BeganIs
  <2> HIDE DEF s
  <2> QED
    BY <2>1
<1>2. t \in Seq(Cells)
  BY AutoHeadersAre
<1>3. R!Patched(s, 1, d) = Began(d, NewWord(d), h)
  BY BeganPatched
<1> HIDE DEF s, t
<1>4. R!Patched(s \o t, 1, d) = R!Patched(s, 1, d) \o t
  BY <1>1, <1>2, PatchedFirst
<1> QED
  BY <1>3, <1>4 DEF Headed, s, t

LEMMA WrittenPatched ==
  ASSUME NEW g, NEW c \in Codes, NEW w \in Words, NEW h \in Seq(R!Names), NEW d \in Codes,
         NEW len \in Nat, NEW n \in Nat
  PROVE  R!Patched(Written(g, c, w, h, len, n), 1, d) = Written(g, d, NewWord(d), h, len, n)
<1> DEFINE s == Headed(g, c, w, h)  l == LengthCells(len)  y == ContentCells(n)
<1>1. s \in Seq(Cells) /\ Len(s) \in Nat /\ 5 <= Len(s)
  BY HeadedIs
<1>2. l \in Seq(Cells) /\ Len(l) = 2
  BY LengthCellsAre
<1>3. y \in Seq(Cells)
  BY ContentCellsAre
<1>4. R!Patched(s, 1, d) = Headed(g, d, NewWord(d), h)
  BY HeadedPatched
<1> HIDE DEF s, l, y
<1>5. s \o l \in Seq(Cells) /\ Len(s \o l) = Len(s) + Len(l)
  BY <1>1, <1>2, Joined
<1>6. 5 <= Len(s \o l)
  BY <1>1, <1>2, <1>5
<1>7. R!Patched(s \o l, 1, d) = R!Patched(s, 1, d) \o l
  BY <1>1, <1>2, PatchedFirst
<1>8. R!Patched((s \o l) \o y, 1, d) = R!Patched(s \o l, 1, d) \o y
  BY <1>3, <1>5, <1>6, PatchedFirst
<1> QED
  BY <1>4, <1>7, <1>8 DEF Written, s, l, y

LEMMA HeaderAppended ==
  ASSUME NEW h \in Seq(R!Names), NEW name \in R!Names
  PROVE  /\ Append(h, name) \in Seq(R!Names)
         /\ HeaderCells(Append(h, name)) = Append(HeaderCells(h), R!Cell(name))
         /\ R!TypeNoted(name, TypeSaid(h)) = TypeSaid(Append(h, name))
<1> DEFINE g == Append(h, name)
<1>1. /\ g \in Seq(R!Names) /\ Len(g) = Len(h) + 1 /\ Len(h) \in Nat
      /\ DOMAIN g = 1 .. Len(h) + 1 /\ DOMAIN h = 1 .. Len(h)
      /\ \A i \in 1 .. Len(h) : g[i] = h[i]
      /\ g[Len(h) + 1] = name
  OBVIOUS
<1> HIDE DEF g
<1>2. /\ HeaderCells(h) \in Seq(Cells) /\ Len(HeaderCells(h)) = Len(h)
      /\ HeaderCells(g) \in Seq(Cells) /\ Len(HeaderCells(g)) = Len(h) + 1
  BY <1>1, HeaderCellsAre
<1>3. R!Cell(name) \in Cells
  BY DEF Cells, Texts
<1> DEFINE s == HeaderCells(g)  t == Append(HeaderCells(h), R!Cell(name))
<1>4. /\ t \in Seq(Cells) /\ Len(t) = Len(h) + 1
      /\ \A i \in 1 .. Len(h) : t[i] = HeaderCells(h)[i]
      /\ t[Len(h) + 1] = R!Cell(name)
  <2> DEFINE e == R!Cell(name)  k == HeaderCells(h)
  <2>1. k \in Seq(Cells) /\ Len(k) = Len(h) /\ e \in Cells
    BY <1>2, <1>3
  <2> HIDE DEF e, k
  <2>2. /\ Append(k, e) \in Seq(Cells) /\ Len(Append(k, e)) = Len(k) + 1
        /\ \A i \in 1 .. Len(k) : Append(k, e)[i] = k[i]
        /\ Append(k, e)[Len(k) + 1] = e
    BY <2>1, AppendProperties
  <2> QED
    BY <2>1, <2>2 DEF e, k
<1>5. \A i \in 1 .. Len(h) : HeaderCells(h)[i] = R!Cell(h[i])
  BY <1>1 DEF HeaderCells
<1>6. \A i \in 1 .. Len(h) + 1 : s[i] = R!Cell(g[i])
  BY <1>1 DEF HeaderCells
<1> HIDE DEF s, t
<1>7. ASSUME NEW i \in 1 .. Len(h) + 1 PROVE s[i] = t[i]
  <2>1. i \in 1 .. Len(h) \/ i = Len(h) + 1
    BY <1>1
  <2>2. CASE i \in 1 .. Len(h)
    BY <1>1, <1>4, <1>5, <1>6, <2>2
  <2>3. CASE i = Len(h) + 1
    BY <1>1, <1>4, <1>6, <2>3
  <2> QED
    BY <2>1, <2>2, <2>3
<1>8. s \in Seq(Cells) /\ Len(s) = Len(t) /\ Len(s) = Len(h) + 1
  BY <1>2, <1>4 DEF s
<1>9. s = t
  BY <1>4, <1>7, <1>8, SeqEqual
<1>10. TypeSaid(g) <=> TypeSaid(h) \/ name = "Content-Type"
  <2>1. \A i \in 1 .. Len(h) : i \in 1 .. Len(h) + 1
    BY <1>1
  <2>2. \A i \in 1 .. Len(h) + 1 : i \in 1 .. Len(h) \/ i = Len(h) + 1
    BY <1>1
  <2>3. Len(h) + 1 \in 1 .. Len(h) + 1
    BY <1>1
  <2> QED
    BY <1>1, <2>1, <2>2, <2>3, Zenon DEF TypeSaid
<1>11. R!TypeNoted(name, TypeSaid(h)) = TypeSaid(g)
  <2>1. TypeSaid(g) \in BOOLEAN /\ (TypeSaid(h) \/ name = "Content-Type") \in BOOLEAN
    BY Zenon DEF TypeSaid
  <2> QED
    BY <1>10, <2>1, Zenon DEF R!TypeNoted
<1> QED
  BY <1>1, <1>9, <1>11 DEF g, s, t

LEMMA ContentJoined ==
  ASSUME NEW k \in Nat, NEW n \in Nat
  PROVE  ContentCells(k) \o ContentCells(n) = ContentCells(k + n)
<1> DEFINE x == R!Cell("x")  a == ContentCells(k)  b == ContentCells(n)
           c == ContentCells(k + n)
<1>1. /\ a \in Seq(Cells) /\ Len(a) = k /\ b \in Seq(Cells) /\ Len(b) = n
      /\ c \in Seq(Cells) /\ Len(c) = k + n
  BY ContentCellsAre
<1>2. /\ \A i \in 1 .. k : a[i] = x
      /\ \A i \in 1 .. n : b[i] = x
      /\ \A i \in 1 .. k + n : c[i] = x
  BY DEF ContentCells
<1> HIDE DEF x, a, b, c
<1>3. a \o b \in Seq(Cells) /\ Len(a \o b) = Len(a) + Len(b)
  BY <1>1, Joined
<1>4. \A i \in 1 .. Len(a) : (a \o b)[i] = a[i]
  BY <1>1, Joined
<1>5. \A i \in 1 .. Len(b) : (a \o b)[Len(a) + i] = b[i]
  BY <1>1, Joined
<1>6. ASSUME NEW i \in 1 .. k + n PROVE (a \o b)[i] = c[i]
  <2>1. CASE i \in 1 .. k
    BY <1>1, <1>2, <1>4, <2>1
  <2>2. CASE k < i
    <3> DEFINE j == i - k
    <3>1. j \in 1 .. n /\ i = k + j
      BY <2>2
    <3> HIDE DEF j
    <3> QED
      BY <1>1, <1>2, <1>5, <3>1
  <2>3. i \in 1 .. k \/ k < i
    OBVIOUS
  <2> QED
    BY <2>1, <2>2, <2>3
<1>7. Len(a \o b) = k + n
  BY <1>1, <1>3
<1>8. a \o b = c
  BY <1>1, <1>3, <1>6, <1>7, SeqEqual
<1> QED
  BY <1>8 DEF a, b, c

-----------------------------------------------------------------------------
(* The calls of a routine *)

LEMMA RespMade ==
  ASSUME NEW r \in Resps
  PROVE  r = RespOf(r.code, r.codePos, r.headerPos, r.lengthPos, r.contentPos, r.typeDone)
BY DEF Resps, RespOf

LEMMA RespIn ==
  ASSUME NEW c \in Codes, NEW cp \in Nat, NEW hp \in Nat, NEW lp \in Nat, NEW op \in Nat,
         NEW t \in BOOLEAN
  PROVE  /\ RespOf(c, cp, hp, lp, op, t) \in Resps
         /\ RespOf(c, cp, hp, lp, op, t).code = c
         /\ RespOf(c, cp, hp, lp, op, t).codePos = cp
         /\ RespOf(c, cp, hp, lp, op, t).headerPos = hp
         /\ RespOf(c, cp, hp, lp, op, t).lengthPos = lp
         /\ RespOf(c, cp, hp, lp, op, t).contentPos = op
         /\ RespOf(c, cp, hp, lp, op, t).typeDone = t
BY DEF Resps, RespOf

LEMMA StatusChanged ==
  ASSUME NEW r \in Resps, NEW c \in Codes, NEW cp \in Nat, NEW hp \in Nat
  PROVE  [r EXCEPT !.code = c, !.codePos = cp, !.headerPos = hp] =
           RespOf(c, cp, hp, r.lengthPos, r.contentPos, r.typeDone)
<1> DEFINE e == [r EXCEPT !.code = c, !.codePos = cp, !.headerPos = hp]
<1>1. e \in Resps
  BY DEF Resps
<1>2. /\ e.code = c /\ e.codePos = cp /\ e.headerPos = hp /\ e.lengthPos = r.lengthPos
      /\ e.contentPos = r.contentPos /\ e.typeDone = r.typeDone
  BY DEF Resps
<1> HIDE DEF e
<1>3. e = RespOf(e.code, e.codePos, e.headerPos, e.lengthPos, e.contentPos, e.typeDone)
  BY <1>1, RespMade
<1> QED
  BY <1>2, <1>3 DEF e

LEMMA PositionsChanged ==
  ASSUME NEW r \in Resps, NEW lp \in Nat, NEW op \in Nat
  PROVE  [r EXCEPT !.lengthPos = lp, !.contentPos = op] =
           RespOf(r.code, r.codePos, r.headerPos, lp, op, r.typeDone)
<1> DEFINE e == [r EXCEPT !.lengthPos = lp, !.contentPos = op]
<1>1. e \in Resps
  BY DEF Resps
<1>2. /\ e.code = r.code /\ e.codePos = r.codePos /\ e.headerPos = r.headerPos
      /\ e.lengthPos = lp /\ e.contentPos = op /\ e.typeDone = r.typeDone
  BY DEF Resps
<1> HIDE DEF e
<1>3. e = RespOf(e.code, e.codePos, e.headerPos, e.lengthPos, e.contentPos, e.typeDone)
  BY <1>1, RespMade
<1> QED
  BY <1>2, <1>3 DEF e

LEMMA CodeChanged ==
  ASSUME NEW r \in Resps, NEW c \in Codes
  PROVE  [r EXCEPT !.code = c] =
           RespOf(c, r.codePos, r.headerPos, r.lengthPos, r.contentPos, r.typeDone)
<1> DEFINE e == [r EXCEPT !.code = c]
<1>1. e \in Resps
  BY DEF Resps
<1>2. /\ e.code = c /\ e.codePos = r.codePos /\ e.headerPos = r.headerPos
      /\ e.lengthPos = r.lengthPos /\ e.contentPos = r.contentPos
      /\ e.typeDone = r.typeDone
  BY DEF Resps
<1> HIDE DEF e
<1>3. e = RespOf(e.code, e.codePos, e.headerPos, e.lengthPos, e.contentPos, e.typeDone)
  BY <1>1, RespMade
<1> QED
  BY <1>2, <1>3 DEF e

LEMMA TypeChanged ==
  ASSUME NEW r \in Resps, NEW t \in BOOLEAN
  PROVE  [r EXCEPT !.typeDone = t] =
           RespOf(r.code, r.codePos, r.headerPos, r.lengthPos, r.contentPos, t)
<1> DEFINE e == [r EXCEPT !.typeDone = t]
<1>1. e \in Resps
  BY DEF Resps
<1>2. /\ e.code = r.code /\ e.codePos = r.codePos /\ e.headerPos = r.headerPos
      /\ e.lengthPos = r.lengthPos /\ e.contentPos = r.contentPos /\ e.typeDone = t
  BY DEF Resps
<1> HIDE DEF e
<1>3. e = RespOf(e.code, e.codePos, e.headerPos, e.lengthPos, e.contentPos, e.typeDone)
  BY <1>1, RespMade
<1> QED
  BY <1>2, <1>3 DEF e

LEMMA BufChanged ==
  ASSUME NEW p, NEW q, NEW z
  PROVE  [[buf |-> p, resp |-> q] EXCEPT !.buf = z] = [buf |-> z, resp |-> q]
<1> DEFINE s == [buf |-> p, resp |-> q]
<1>1. s \in [buf : {p}, resp : {q}]
  OBVIOUS
<1> HIDE DEF s
<1>2. [s EXCEPT !.buf = z] \in [buf : {z}, resp : {q}]
  BY <1>1
<1>3. [s EXCEPT !.buf = z] = [buf |-> z, resp |-> q]
  BY <1>2
<1> QED
  BY <1>3 DEF s

LEMMA FreshIn == R!Attached \in Resps /\ R!Attached = RespOf(200, 0, 0, 0, 0, FALSE)
BY HttpServiceAssumption DEF R!Attached, Resps, RespOf

LEMMA TypeSaidIs == \A h : TypeSaid(h) \in BOOLEAN
BY Zenon DEF TypeSaid

(* "If first line is not written, then write it."                           *)
LEMMA FreshCode ==
  ASSUME NEW c \in Codes
  PROVE  R!WriteCode(Fresh, c) = Heading(c, "OK", <<>>)
<1> DEFINE s == R!StatusLine(c, "OK")
<1>1. s \in Seq(Cells)
  BY StatusLineIs DEF Words
<1>2. HeaderCells(<<>>) = <<>>
  <2>1. <<>> \in Seq(R!Names) /\ Len(<<>>) = 0
    OBVIOUS
  <2>2. HeaderCells(<<>>) \in Seq(Cells) /\ Len(HeaderCells(<<>>)) = 0
    BY <2>1, HeaderCellsAre
  <2> QED
    BY <2>2
<1>3. TypeSaid(<<>>) = FALSE
  BY DEF TypeSaid
<1>4. Heading(c, "OK", <<>>) = [buf |-> s \o <<>>, resp |-> RespOf(c, 1, 5, 0, 0, FALSE)]
  BY <1>2, <1>3 DEF Heading, Began
<1>5. R!WriteCode(Fresh, c) =
        [buf |-> <<>> \o s,
         resp |-> [R!Attached EXCEPT !.code = c, !.codePos = Len(<<>>) + 1,
                                     !.headerPos = Len(<<>>) + 5]]
  <2>1. Fresh.buf = <<>> /\ Fresh.resp = R!Attached /\ R!Attached.headerPos = 0
    BY DEF Fresh, R!Attached
  <2> QED
    BY <2>1 DEF R!WriteCode
<1>6. [R!Attached EXCEPT !.code = c, !.codePos = Len(<<>>) + 1, !.headerPos = Len(<<>>) + 5]
        = RespOf(c, 1, 5, 0, 0, FALSE)
  <2>1. Len(<<>>) + 1 = 1 /\ Len(<<>>) + 5 = 5
    OBVIOUS
  <2>2. [R!Attached EXCEPT !.code = c, !.codePos = 1, !.headerPos = 5] =
          RespOf(c, 1, 5, R!Attached.lengthPos, R!Attached.contentPos, R!Attached.typeDone)
    <3> DEFINE q == R!Attached
    <3>1. q \in Resps /\ 1 \in Nat /\ 5 \in Nat
      BY FreshIn
    <3> HIDE DEF q
    <3>2. [q EXCEPT !.code = c, !.codePos = 1, !.headerPos = 5] =
            RespOf(c, 1, 5, q.lengthPos, q.contentPos, q.typeDone)
      BY <3>1, StatusChanged
    <3> QED
      BY <3>2 DEF q
  <2>3. /\ R!Attached.lengthPos = 0 /\ R!Attached.contentPos = 0
        /\ R!Attached.typeDone = FALSE
    BY DEF R!Attached
  <2> QED
    BY <2>1, <2>2, <2>3
<1> HIDE DEF s
<1>7. <<>> \o s = s /\ s \o <<>> = s
  BY <1>1
<1> QED
  BY <1>4, <1>5, <1>6, <1>7

LEMMA HeadingIs ==
  ASSUME NEW c \in Codes, NEW w \in Words, NEW h \in Seq(R!Names)
  PROVE  /\ Heading(c, w, h).buf = Began(c, w, h)
         /\ Heading(c, w, h).resp = RespOf(c, 1, 5, 0, 0, TypeSaid(h))
         /\ Heading(c, w, h).resp \in Resps
         /\ Heading(c, w, h).resp.code = c
         /\ Heading(c, w, h).resp.codePos = 1 /\ Heading(c, w, h).resp.headerPos = 5
         /\ Heading(c, w, h).resp.lengthPos = 0 /\ Heading(c, w, h).resp.contentPos = 0
         /\ Heading(c, w, h).resp.typeDone = TypeSaid(h)
<1>1. TypeSaid(h) \in BOOLEAN
  BY TypeSaidIs
<1>2. /\ Heading(c, w, h).buf = Began(c, w, h)
      /\ Heading(c, w, h).resp = RespOf(c, 1, 5, 0, 0, TypeSaid(h))
  BY DEF Heading
<1> QED
  BY <1>1, <1>2, RespIn

LEMMA HeadingStarted ==
  ASSUME NEW c \in Codes, NEW w \in Words, NEW h \in Seq(R!Names)
  PROVE  R!WithCode(Heading(c, w, h)) = Heading(c, w, h)
<1>1. Heading(c, w, h).resp.headerPos = 5
  BY HeadingIs
<1> QED
  BY <1>1 DEF R!WithCode

LEMMA FillingIs ==
  ASSUME NEW g, NEW c \in Codes, NEW w \in Words, NEW h \in Seq(R!Names), NEW n \in Nat
  PROVE  /\ Filling(g, c, w, h, n).buf = Written(g, c, w, h, 0, n)
         /\ Filling(g, c, w, h, n).resp =
              RespOf(c, 1, 5, Len(Headed(g, c, w, h)), Len(Headed(g, c, w, h)) + 2, TypeSaid(h))
         /\ Filling(g, c, w, h, n).resp \in Resps
         /\ Filling(g, c, w, h, n).resp.code = c
         /\ Filling(g, c, w, h, n).resp.codePos = 1 /\ Filling(g, c, w, h, n).resp.headerPos = 5
         /\ Filling(g, c, w, h, n).resp.lengthPos = Len(Headed(g, c, w, h))
         /\ Filling(g, c, w, h, n).resp.contentPos = Len(Headed(g, c, w, h)) + 2
         /\ Filling(g, c, w, h, n).resp.typeDone = TypeSaid(h)
         /\ Len(Headed(g, c, w, h)) \in Nat /\ Filling(g, c, w, h, n).resp.contentPos # 0
<1>1. TypeSaid(h) \in BOOLEAN
  BY TypeSaidIs
<1>2. /\ Filling(g, c, w, h, n).buf = Written(g, c, w, h, 0, n)
      /\ Filling(g, c, w, h, n).resp =
           RespOf(c, 1, 5, Len(Headed(g, c, w, h)), Len(Headed(g, c, w, h)) + 2, TypeSaid(h))
  BY DEF Filling
<1> DEFINE k == Len(Headed(g, c, w, h))
<1>3. k \in Nat
  BY HeadedIs
<1> HIDE DEF k
<1>4. k + 2 \in Nat /\ k + 2 # 0
  BY <1>3
<1>5. Filling(g, c, w, h, n).resp = RespOf(c, 1, 5, k, k + 2, TypeSaid(h))
  BY <1>2 DEF k
<1>6. /\ Filling(g, c, w, h, n).resp \in Resps
      /\ Filling(g, c, w, h, n).resp.code = c
      /\ Filling(g, c, w, h, n).resp.codePos = 1 /\ Filling(g, c, w, h, n).resp.headerPos = 5
      /\ Filling(g, c, w, h, n).resp.lengthPos = k /\ Filling(g, c, w, h, n).resp.contentPos = k + 2
      /\ Filling(g, c, w, h, n).resp.typeDone = TypeSaid(h)
  <2> DEFINE m == k + 2  t == TypeSaid(h)
  <2>1. m \in Nat /\ t \in BOOLEAN /\ Filling(g, c, w, h, n).resp = RespOf(c, 1, 5, k, m, t)
    BY <1>1, <1>4, <1>5
  <2>2. 1 \in Nat /\ 5 \in Nat
    OBVIOUS
  <2> HIDE DEF m, t
  <2> DEFINE q == RespOf(c, 1, 5, k, m, t)
  <2>3. /\ q \in Resps /\ q.code = c /\ q.codePos = 1 /\ q.headerPos = 5
        /\ q.lengthPos = k /\ q.contentPos = m /\ q.typeDone = t
    BY <1>3, <2>1, <2>2 DEF RespOf, Resps
  <2> QED
    BY <2>1, <2>3 DEF m, t
<1> QED
  BY <1>2, <1>3, <1>4, <1>6 DEF k

LEMMA HeadingCode ==
  ASSUME NEW c \in Codes, NEW w \in Words, NEW h \in Seq(R!Names), NEW d \in Codes
  PROVE  \E v \in Words : R!WriteCode(Heading(c, w, h), d) = Heading(d, v, h)
<1> DEFINE s == Heading(c, w, h)
<1>1. CASE c = d
  <2>1. s.resp.code = d /\ s.resp.headerPos # 0
    BY <1>1, HeadingIs
  <2>2. R!WriteCode(s, d) = s
    BY <2>1 DEF R!WriteCode
  <2> QED
    BY <1>1, <2>2
<1>2. CASE c # d
  <2>1. R!Patched(Began(c, w, h), 1, d) = Began(d, NewWord(d), h)
    BY BeganPatched
  <2>2. /\ s.buf = Began(c, w, h) /\ s.resp \in Resps /\ s.resp.code = c
        /\ s.resp.codePos = 1 /\ s.resp.headerPos = 5 /\ s.resp.lengthPos = 0
        /\ s.resp.contentPos = 0 /\ s.resp.typeDone = TypeSaid(h)
    BY HeadingIs
  <2> HIDE DEF s
  <2>3. R!WriteCode(s, d) =
          [buf |-> Began(d, NewWord(d), h), resp |-> [s.resp EXCEPT !.code = d]]
    BY <1>2, <2>1, <2>2 DEF R!WriteCode
  <2>4. [s.resp EXCEPT !.code = d] = RespOf(d, 1, 5, 0, 0, TypeSaid(h))
    BY <2>2, CodeChanged
  <2>5. R!WriteCode(s, d) = Heading(d, NewWord(d), h)
    BY <2>3, <2>4 DEF Heading
  <2> QED
    BY <2>5, PatchCellsAre DEF s
<1> QED
  BY <1>1, <1>2

LEMMA HeadedSize ==
  ASSUME NEW g, NEW c \in Codes, NEW w \in Words, NEW d \in Codes, NEW v \in Words,
         NEW h \in Seq(R!Names)
  PROVE  Len(Headed(g, c, w, h)) = Len(Headed(g, d, v, h))
BY HeadedIs

LEMMA FillingCode ==
  ASSUME NEW g, NEW c \in Codes, NEW w \in Words, NEW h \in Seq(R!Names), NEW n \in Nat,
         NEW d \in Codes
  PROVE  \E v \in Words : R!WriteCode(Filling(g, c, w, h, n), d) = Filling(g, d, v, h, n)
<1> DEFINE s == Filling(g, c, w, h, n)  k == Len(Headed(g, c, w, h))
<1>1. CASE c = d
  <2>1. s.resp.code = d /\ s.resp.headerPos # 0
    BY <1>1, FillingIs
  <2>2. R!WriteCode(s, d) = s
    BY <2>1 DEF R!WriteCode
  <2> QED
    BY <1>1, <2>2
<1>2. CASE c # d
  <2>1. R!Patched(Written(g, c, w, h, 0, n), 1, d) = Written(g, d, NewWord(d), h, 0, n)
    BY WrittenPatched
  <2>2. NewWord(d) \in Words
    BY PatchCellsAre
  <2>3. k = Len(Headed(g, d, NewWord(d), h))
    BY <2>2, HeadedSize
  <2>4. /\ s.buf = Written(g, c, w, h, 0, n) /\ s.resp \in Resps /\ s.resp.code = c
        /\ s.resp.codePos = 1 /\ s.resp.headerPos = 5 /\ s.resp.lengthPos = k
        /\ s.resp.contentPos = k + 2 /\ s.resp.typeDone = TypeSaid(h)
    BY FillingIs
  <2> HIDE DEF s, k
  <2>5. R!WriteCode(s, d) =
          [buf |-> Written(g, d, NewWord(d), h, 0, n), resp |-> [s.resp EXCEPT !.code = d]]
    BY <1>2, <2>1, <2>4 DEF R!WriteCode
  <2>6. [s.resp EXCEPT !.code = d] = RespOf(d, 1, 5, k, k + 2, TypeSaid(h))
    BY <2>4, CodeChanged
  <2>7. R!WriteCode(s, d) = Filling(g, d, NewWord(d), h, n)
    BY <2>3, <2>5, <2>6 DEF Filling
  <2> QED
    BY <2>2, <2>7 DEF s
<1> QED
  BY <1>1, <1>2

(* A header of the routine comes after those before it.                     *)
LEMMA HeadingHeader ==
  ASSUME NEW c \in Codes, NEW w \in Words, NEW h \in Seq(R!Names),
         NEW name \in R!Names, name \notin R!Protected
  PROVE  R!WriteHeader(Heading(c, w, h), name) = Heading(c, w, Append(h, name))
<1> DEFINE s == R!StatusLine(c, w)  t == HeaderCells(h)  e == R!Cell(name)
<1>1. s \in Seq(Cells)
  BY StatusLineIs
<1>2. t \in Seq(Cells)
  BY HeaderCellsAre
<1>3. e \in Cells
  BY DEF Cells, Texts
<1>4. HeaderCells(Append(h, name)) = Append(t, e)
  BY HeaderAppended
<1>5. R!TypeNoted(name, TypeSaid(h)) = TypeSaid(Append(h, name))
  BY HeaderAppended
<1>6. R!WriteHeader(Heading(c, w, h), name) =
        [buf |-> Append(Began(c, w, h), e),
         resp |-> [Heading(c, w, h).resp EXCEPT !.typeDone = R!TypeNoted(name, @)]]
  <2>1. R!WithCode(Heading(c, w, h)) = Heading(c, w, h)
    BY HeadingStarted
  <2>2. Heading(c, w, h).buf = Began(c, w, h)
    BY DEF Heading
  <2> QED
    BY <2>1, <2>2 DEF R!WriteHeader
<1> HIDE DEF s, t, e
<1>7. Append(s \o t, e) = s \o Append(t, e)
  <2>1. s \o t \in Seq(Cells)
    BY <1>1, <1>2, Joined
  <2>2. <<e>> \in Seq(Cells)
    BY <1>3
  <2>3. Append(s \o t, e) = (s \o t) \o <<e>>
    BY <1>3, <2>1, AppendIsConcat
  <2>4. Append(t, e) = t \o <<e>>
    BY <1>2, <1>3, AppendIsConcat
  <2>5. (s \o t) \o <<e>> = s \o (t \o <<e>>)
    BY <1>1, <1>2, <2>2, ConcatAssociative
  <2> QED
    BY <2>3, <2>4, <2>5
<1>8. Append(Began(c, w, h), e) = Began(c, w, Append(h, name))
  BY <1>4, <1>7 DEF Began, s, t
<1>9. [Heading(c, w, h).resp EXCEPT !.typeDone = R!TypeNoted(name, @)]
        = RespOf(c, 1, 5, 0, 0, TypeSaid(Append(h, name)))
  <2> DEFINE q == Heading(c, w, h).resp  g == TypeSaid(Append(h, name))
  <2>1. /\ q \in Resps /\ q.code = c /\ q.codePos = 1 /\ q.headerPos = 5
        /\ q.lengthPos = 0 /\ q.contentPos = 0 /\ q.typeDone = TypeSaid(h)
    BY HeadingIs
  <2>2. g \in BOOLEAN
    BY TypeSaidIs
  <2>3. R!TypeNoted(name, q.typeDone) = g
    BY <1>5, <2>1
  <2> HIDE DEF q, g
  <2>4. [q EXCEPT !.typeDone = R!TypeNoted(name, @)] = [q EXCEPT !.typeDone = g]
    BY <2>3
  <2>5. [q EXCEPT !.typeDone = g] = RespOf(c, 1, 5, 0, 0, g)
    BY <2>1, <2>2, TypeChanged
  <2> QED
    BY <2>4, <2>5 DEF q, g
<1>10. Heading(c, w, Append(h, name)) =
         [buf |-> Began(c, w, Append(h, name)),
          resp |-> RespOf(c, 1, 5, 0, 0, TypeSaid(Append(h, name)))]
  BY DEF Heading
<1> QED
  BY <1>6, <1>8, <1>9, <1>10

(* complete_header_i()                                                      *)
LEMMA HeadingCompleted ==
  ASSUME NEW c \in Codes, NEW w \in Words, NEW h \in Seq(R!Names)
  PROVE  R!WithHeader(Heading(c, w, h)) = Filling(config, c, w, h, 0)
<1> DEFINE b == Headed(config, c, w, h)  l == LengthCells(0)
<1>1. b \in Seq(Cells) /\ Len(b) \in Nat
  BY HeadedIs
<1>2. l \in Seq(Cells)
  BY LengthCellsAre
<1>3. ContentCells(0) = <<>>
  BY ContentCellsAre
<1>4. R!WithHeader(Heading(c, w, h)) = R!CompleteHeader(Heading(c, w, h))
  <2>1. R!WithCode(Heading(c, w, h)) = Heading(c, w, h)
    BY HeadingStarted
  <2> QED
    BY <2>1, HeadingIs DEF R!WithHeader
<1>5. R!CompleteHeader(Heading(c, w, h)) =
        [buf |-> b \o l, resp |-> RespOf(c, 1, 5, Len(b), Len(b) + 2, TypeSaid(h))]
  <2> DEFINE s == Heading(c, w, h)
  <2>1. /\ s.buf = Began(c, w, h) /\ s.resp \in Resps /\ s.resp.code = c
        /\ s.resp.codePos = 1 /\ s.resp.headerPos = 5 /\ s.resp.typeDone = TypeSaid(h)
    BY HeadingIs
  <2>2. R!CompleteHeader(s) =
          [buf |-> (s.buf \o R!AutoHeaders(s.resp.typeDone)) \o l,
           resp |-> [s.resp EXCEPT
                       !.lengthPos = Len(s.buf \o R!AutoHeaders(s.resp.typeDone)),
                       !.contentPos = Len(s.buf \o R!AutoHeaders(s.resp.typeDone)) + 2]]
    BY DEF R!CompleteHeader, R!ContentPos, LengthCells
  <2> HIDE DEF s, l
  <2>3. s.buf \o R!AutoHeaders(s.resp.typeDone) = b
    <3>1. R!AutoHeaders(TypeSaid(h)) = AutoHeadersOf(config, TypeSaid(h))
      BY DEF R!AutoHeaders, AutoHeadersOf
    <3> QED
      BY <2>1, <3>1 DEF Headed
  <2> HIDE DEF b
  <2>4. Len(b) + 2 \in Nat
    BY <1>1
  <2>5. [s.resp EXCEPT !.lengthPos = Len(b), !.contentPos = Len(b) + 2] =
          RespOf(c, 1, 5, Len(b), Len(b) + 2, TypeSaid(h))
    <3> DEFINE q == s.resp  n == Len(b)  m == Len(b) + 2
    <3>1. q \in Resps /\ n \in Nat /\ m \in Nat
      BY <1>1, <2>1, <2>4
    <3>2. /\ q.code = c /\ q.codePos = 1 /\ q.headerPos = 5
          /\ q.typeDone = TypeSaid(h)
      BY <2>1
    <3> HIDE DEF q, n, m
    <3>3. [q EXCEPT !.lengthPos = n, !.contentPos = m] =
            RespOf(q.code, q.codePos, q.headerPos, n, m, q.typeDone)
      BY <3>1, PositionsChanged
    <3>4. [q EXCEPT !.lengthPos = n, !.contentPos = m] = RespOf(c, 1, 5, n, m, TypeSaid(h))
      BY <3>2, <3>3
    <3> QED
      BY <3>4 DEF q, n, m
  <2>6. R!CompleteHeader(s) =
          [buf |-> b \o l, resp |-> [s.resp EXCEPT !.lengthPos = Len(b),
                                                   !.contentPos = Len(b) + 2]]
    BY <2>2, <2>3
  <2> QED
    BY <2>5, <2>6 DEF s
<1>6. Written(config, c, w, h, 0, 0) = (b \o l) \o <<>>
  BY <1>3 DEF Written
<1>7. Filling(config, c, w, h, 0) =
        [buf |-> (b \o l) \o <<>>, resp |-> RespOf(c, 1, 5, Len(b), Len(b) + 2, TypeSaid(h))]
  BY <1>6 DEF Filling
<1> HIDE DEF b, l
<1>8. b \o l \in Seq(Cells)
  BY <1>1, <1>2, Joined
<1>9. (b \o l) \o <<>> = b \o l
  BY <1>8
<1> QED
  BY <1>4, <1>5, <1>7, <1>9

LEMMA FillingCompleted ==
  ASSUME NEW g, NEW c \in Codes, NEW w \in Words, NEW h \in Seq(R!Names), NEW n \in Nat
  PROVE  R!WithHeader(Filling(g, c, w, h, n)) = Filling(g, c, w, h, n)
<1>1. R!WithCode(Filling(g, c, w, h, n)) = Filling(g, c, w, h, n)
  BY FillingIs DEF R!WithCode
<1> QED
  BY <1>1, FillingIs DEF R!WithHeader

LEMMA FreshCompleted == R!WithHeader(Fresh) = Filling(config, 200, "OK", <<>>, 0)
<1>1. R!WithCode(Fresh) = Heading(200, "OK", <<>>)
  BY FreshCode, HttpServiceAssumption DEF R!WithCode, Fresh, R!Attached
<1>2. <<>> \in Seq(R!Names) /\ "OK" \in Words /\ 200 \in Codes
  BY HttpServiceAssumption DEF Words
<1>3. R!WithCode(Heading(200, "OK", <<>>)) = Heading(200, "OK", <<>>)
  BY <1>2, HeadingStarted
<1>4. R!WithHeader(Fresh) = R!WithHeader(Heading(200, "OK", <<>>))
  BY <1>1, <1>3 DEF R!WithHeader
<1> QED
  BY <1>2, <1>4, HeadingCompleted

(* write()                                                                  *)
LEMMA FillingWritten ==
  ASSUME NEW g, NEW c \in Codes, NEW w \in Words, NEW h \in Seq(R!Names), NEW k \in Nat,
         NEW n \in Nat
  PROVE  R!Push(Filling(g, c, w, h, k), ContentCells(n)) = Filling(g, c, w, h, k + n)
<1> DEFINE b == Headed(g, c, w, h)  l == LengthCells(0)  x == ContentCells(k)
           y == ContentCells(n)
<1>1. b \in Seq(Cells) /\ l \in Seq(Cells) /\ x \in Seq(Cells) /\ y \in Seq(Cells)
  BY HeadedIs, LengthCellsAre, ContentCellsAre
<1>2. x \o y = ContentCells(k + n)
  BY ContentJoined
<1>3. R!Push(Filling(g, c, w, h, k), y) =
        [buf |-> ((b \o l) \o x) \o y, resp |-> Filling(g, c, w, h, k).resp]
  <2> DEFINE s == Filling(g, c, w, h, k)  p == s.resp
  <2>1. s = [buf |-> (b \o l) \o x, resp |-> p]
    BY DEF Filling, Written
  <2> HIDE DEF b, l, x, y, p, s
  <2>2. R!Push(s, y) = [s EXCEPT !.buf = s.buf \o y]
    BY DEF R!Push
  <2>3. s.buf = (b \o l) \o x
    BY <2>1
  <2> DEFINE u == (b \o l) \o x  z == s.buf \o y
  <2>4. [s EXCEPT !.buf = z] = [buf |-> z, resp |-> p]
    <3>1. s = [buf |-> u, resp |-> p]
      BY <2>1
    <3> HIDE DEF u, z
    <3>2. [[buf |-> u, resp |-> p] EXCEPT !.buf = z] = [buf |-> z, resp |-> p]
      BY BufChanged
    <3> QED
      BY <3>1, <3>2
  <2> QED
    BY <2>2, <2>3, <2>4 DEF s, p
<1>4. Filling(g, c, w, h, k + n) =
        [buf |-> (b \o l) \o ContentCells(k + n), resp |-> Filling(g, c, w, h, k).resp]
  BY DEF Filling, Written
<1> HIDE DEF b, l, x, y
<1> DEFINE p == b \o l
<1>5. p \in Seq(Cells)
  BY <1>1, Joined
<1> HIDE DEF p
<1>6. (p \o x) \o y = p \o (x \o y)
  <2>1. p \in Seq(Cells) /\ x \in Seq(Cells) /\ y \in Seq(Cells)
    BY <1>1, <1>5
  <2> QED
    BY ONLY <2>1, ConcatAssociative
<1> QED
  BY <1>2, <1>3, <1>4, <1>6 DEF p, y

-----------------------------------------------------------------------------
(* The end of a response *)

(* The length that complete_content_i() writes.                             *)
Sized(n) == IF n <= LongestLength THEN n ELSE 0

LEMMA ExceptFirst ==
  ASSUME NEW x \in Seq(Cells), NEW y \in Seq(Cells), NEW k \in 1 .. Len(x), NEW e \in Cells
  PROVE  [x \o y EXCEPT ![k] = e] = [x EXCEPT ![k] = e] \o y
<1> DEFINE z == x \o y  u == [x EXCEPT ![k] = e]  p == [z EXCEPT ![k] = e]
<1>1. /\ z \in Seq(Cells) /\ Len(z) = Len(x) + Len(y)
      /\ Len(x) \in Nat /\ Len(y) \in Nat
  BY Joined
<1>2. \A i \in 1 .. Len(x) : z[i] = x[i]
  BY Joined
<1>3. \A i \in 1 .. Len(y) : z[Len(x) + i] = y[i]
  BY Joined
<1>4. /\ u \in Seq(Cells) /\ Len(u) = Len(x)
      /\ \A i \in 1 .. Len(x) : u[i] = IF i = k THEN e ELSE x[i]
  BY ExceptSeq
<1> HIDE DEF z, u
<1>5. k \in 1 .. Len(z)
  BY <1>1
<1>6. /\ p \in Seq(Cells) /\ Len(p) = Len(z)
      /\ \A i \in 1 .. Len(z) : p[i] = IF i = k THEN e ELSE z[i]
  BY <1>1, <1>5, ExceptSeq
<1> HIDE DEF p
<1>7. u \o y \in Seq(Cells) /\ Len(u \o y) = Len(u) + Len(y)
  BY <1>4, Joined
<1>8. \A i \in 1 .. Len(u) : (u \o y)[i] = u[i]
  BY <1>4, Joined
<1>9. \A i \in 1 .. Len(y) : (u \o y)[Len(u) + i] = y[i]
  BY <1>4, Joined
<1>10. ASSUME NEW i \in 1 .. Len(p) PROVE p[i] = (u \o y)[i]
  <2>1. i \in 1 .. Len(x) \/ i - Len(x) \in 1 .. Len(y)
    BY <1>1, <1>6
  <2>2. CASE i \in 1 .. Len(x)
    <3>1. i \in 1 .. Len(z) /\ i \in 1 .. Len(u)
      BY <1>1, <1>4, <2>2
    <3> QED
      BY <1>2, <1>4, <1>6, <1>8, <2>2, <3>1
  <2>3. CASE i - Len(x) \in 1 .. Len(y)
    <3> DEFINE j == i - Len(x)
    <3>1. j \in 1 .. Len(y) /\ i = Len(x) + j /\ i \in 1 .. Len(z) /\ i # k
      BY <1>1, <2>3
    <3> HIDE DEF j
    <3>2. p[i] = z[i]
      BY <1>6, <3>1
    <3>3. z[i] = y[j]
      BY <1>3, <3>1
    <3>4. (u \o y)[i] = y[j]
      BY <1>4, <1>9, <3>1
    <3> QED
      BY <3>2, <3>3, <3>4
  <2> QED
    BY <2>1, <2>2, <2>3
<1>11. Len(p) = Len(u \o y)
  BY <1>1, <1>4, <1>6, <1>7
<1>12. p = u \o y
  BY <1>6, <1>7, <1>10, <1>11, SeqEqual
<1> QED
  BY <1>12 DEF p, u, z

LEMMA LengthPatched ==
  ASSUME NEW b \in Seq(Cells), NEW m \in Nat, NEW n \in Nat
  PROVE  [b \o LengthCells(m) EXCEPT ![Len(b) + 1] = R!Length(n)] = b \o LengthCells(n)
<1> DEFINE l == LengthCells(m)  l2 == LengthCells(n)  e == R!Length(n)
           z == b \o l  k == Len(b) + 1  p == [z EXCEPT ![k] = e]
<1>1. l \in Seq(Cells) /\ Len(l) = 2 /\ l2 \in Seq(Cells) /\ Len(l2) = 2 /\ e \in Cells
  BY LengthCellsAre DEF Cells
<1>2. l2[1] = e /\ l[2] = l2[2]
  BY DEF LengthCells
<1> HIDE DEF l, l2, e
<1>3. z \in Seq(Cells) /\ Len(z) = Len(b) + Len(l) /\ Len(b) \in Nat
  BY <1>1, Joined
<1>4. \A i \in 1 .. Len(b) : z[i] = b[i]
  BY <1>1, Joined
<1>5. \A i \in 1 .. Len(l) : z[Len(b) + i] = l[i]
  BY <1>1, Joined
<1>6. b \o l2 \in Seq(Cells) /\ Len(b \o l2) = Len(b) + Len(l2)
  BY <1>1, Joined
<1>7. \A i \in 1 .. Len(b) : (b \o l2)[i] = b[i]
  BY <1>1, Joined
<1>8. \A i \in 1 .. Len(l2) : (b \o l2)[Len(b) + i] = l2[i]
  BY <1>1, Joined
<1> HIDE DEF z
<1>9. k \in 1 .. Len(z) /\ k = Len(b) + 1
  BY <1>1, <1>3
<1> HIDE DEF k
<1>10. /\ p \in Seq(Cells) /\ Len(p) = Len(z)
       /\ \A i \in 1 .. Len(z) : p[i] = IF i = k THEN e ELSE z[i]
  BY <1>1, <1>3, <1>9, ExceptSeq
<1> HIDE DEF p
<1>11. ASSUME NEW i \in 1 .. Len(p) PROVE p[i] = (b \o l2)[i]
  <2>1. i \in 1 .. Len(b) \/ i = Len(b) + 1 \/ i = Len(b) + 2
    BY <1>1, <1>3, <1>10
  <2>2. i \in 1 .. Len(z)
    BY <1>10
  <2>3. CASE i \in 1 .. Len(b)
    <3>1. i # k
      BY <1>3, <1>9, <2>3
    <3> QED
      BY <1>4, <1>7, <1>10, <2>2, <2>3, <3>1
  <2>4. CASE i = Len(b) + 1
    <3>1. p[i] = e
      BY <1>9, <1>10, <2>2, <2>4
    <3>2. (b \o l2)[i] = l2[1]
      <4>1. 1 \in 1 .. Len(l2)
        BY <1>1
      <4>2. (b \o l2)[Len(b) + 1] = l2[1]
        BY <1>8, <4>1
      <4> QED
        BY <2>4, <4>2
    <3> QED
      BY <1>2, <3>1, <3>2
  <2>5. CASE i = Len(b) + 2
    <3>1. i # k
      BY <1>3, <1>9, <2>5
    <3>2. p[i] = z[i]
      BY <1>10, <2>2, <3>1
    <3>3. z[i] = l[2]
      BY <1>1, <1>5, <2>5
    <3>4. (b \o l2)[i] = l2[2]
      <4>1. 2 \in 1 .. Len(l2)
        BY <1>1
      <4>2. (b \o l2)[Len(b) + 2] = l2[2]
        BY <1>8, <4>1
      <4> QED
        BY <2>5, <4>2
    <3> QED
      BY <1>2, <3>2, <3>3, <3>4
  <2> QED
    BY <2>1, <2>3, <2>4, <2>5
<1>12. Len(p) = Len(b \o l2)
  BY <1>1, <1>3, <1>6, <1>10
<1>13. p = b \o l2
  BY <1>6, <1>10, <1>11, <1>12, SeqEqual
<1> QED
  BY <1>13 DEF p, z, k, l, l2, e

(* complete_content_i()                                                     *)
LEMMA FillingDone ==
  ASSUME NEW g, NEW c \in Codes, NEW w \in Words, NEW h \in Seq(R!Names), NEW n \in Nat
  PROVE  R!CompleteContent(Filling(g, c, w, h, n)).buf = Written(g, c, w, h, Sized(n), n)
<1> DEFINE s == Filling(g, c, w, h, n)  b == Headed(g, c, w, h)  k == Len(b)
           y == ContentCells(n)
<1>1. R!WithHeader(s) = s
  BY FillingCompleted
<1>2. b \in Seq(Cells) /\ k \in Nat
  BY HeadedIs
<1>3. y \in Seq(Cells)
  BY ContentCellsAre
<1>4. /\ s.buf = Written(g, c, w, h, 0, n) /\ s.resp.lengthPos = k
      /\ s.resp.contentPos = k + 2
  BY FillingIs
<1>5. Len(Written(g, c, w, h, 0, n)) = k + 2 + n
  BY WrittenIs
<1>6. s = [buf |-> s.buf, resp |-> s.resp]
  BY DEF Filling
<1>7. Written(g, c, w, h, 0, n) = (b \o LengthCells(0)) \o y
  BY DEF Written
<1>8. Written(g, c, w, h, n, n) = (b \o LengthCells(n)) \o y
  BY DEF Written
<1> HIDE DEF s, k, b, y
<1>9. R!ContentSize(s) = n
  <2>1. R!ContentSize(s) = (k + 2 + n) - (k + 2)
    BY <1>4, <1>5 DEF R!ContentSize
  <2> QED
    BY <1>2, <2>1
<1>10. R!CompleteContent(s) =
         IF n > 0 /\ n <= LongestLength
         THEN [s EXCEPT !.buf[k + 1] = R!Length(n)] ELSE s
  BY <1>1, <1>4, <1>9 DEF R!CompleteContent
<1>11. CASE n > 0 /\ n <= LongestLength
  <2> DEFINE x == b \o LengthCells(0)  e == R!Length(n)
  <2>1. x \in Seq(Cells) /\ Len(x) = k + 2
    <3>1. LengthCells(0) \in Seq(Cells) /\ Len(LengthCells(0)) = 2
      BY LengthCellsAre
    <3>2. x \in Seq(Cells) /\ Len(x) = Len(b) + Len(LengthCells(0))
      BY <1>2, <3>1, Joined
    <3> QED
      BY <3>1, <3>2 DEF k
  <2>2. e \in Cells
    BY DEF Cells
  <2>3. [x EXCEPT ![k + 1] = e] = b \o LengthCells(n)
    BY <1>2, LengthPatched DEF k
  <2> HIDE DEF x, e
  <2>4. k + 1 \in 1 .. Len(x)
    BY <1>2, <2>1
  <2>5. [x \o y EXCEPT ![k + 1] = e] = [x EXCEPT ![k + 1] = e] \o y
    <3> DEFINE j == k + 1
    <3>1. j \in 1 .. Len(x) /\ x \in Seq(Cells)
      BY <2>1, <2>4
    <3> HIDE DEF j
    <3>2. [x \o y EXCEPT ![j] = e] = [x EXCEPT ![j] = e] \o y
      BY ONLY <1>3, <2>2, <3>1, ExceptFirst
    <3> QED
      BY <3>2 DEF j
  <2>6. R!CompleteContent(s).buf = [s.buf EXCEPT ![k + 1] = e]
    <3>1. R!CompleteContent(s) = [s EXCEPT !.buf[k + 1] = e]
      BY <1>10, <1>11 DEF e
    <3>2. s \in [buf : {s.buf}, resp : {s.resp}]
      BY <1>6
    <3> QED
      BY <3>1, <3>2
  <2>7. Sized(n) = n
    BY <1>11 DEF Sized
  <2>8. s.buf = x \o y
    BY <1>4, <1>7 DEF x
  <2>9. R!CompleteContent(s).buf = (b \o LengthCells(n)) \o y
    BY <2>3, <2>5, <2>6, <2>8
  <2> QED
    BY <1>8, <2>7, <2>9 DEF s
<1>12. CASE ~(n > 0 /\ n <= LongestLength)
  <2>1. Sized(n) = 0
    BY <1>12, HttpServiceAssumption DEF Sized
  <2>2. R!CompleteContent(s) = s
    BY <1>10, <1>12
  <2> QED
    BY <1>4, <2>1, <2>2 DEF s
<1> QED
  BY <1>11, <1>12

-----------------------------------------------------------------------------
(* The responses of the service *)

Saids == [code : Codes, headers : Seq(R!Names), content : Nat]

(* What the routine has asked for is what is there, as far as it has come.  *)
Making(g, s, q) ==
  \/ s = Fresh /\ q = R!NothingSaid
  \/ \E w \in Words : s = Heading(q.code, w, q.headers) /\ q.content = 0
  \/ \E w \in Words : s = Filling(g, q.code, w, q.headers, q.content)

Sendable(g, b, q) ==
  \E w \in Words : b = Written(g, q.code, w, q.headers, Sized(q.content), q.content)

LEMMA CodeMakes ==
  ASSUME NEW g, NEW s, NEW q \in Saids, Making(g, s, q), NEW d \in Codes
  PROVE  Making(g, R!WriteCode(s, d), [q EXCEPT !.code = d])
<1> DEFINE p == [q EXCEPT !.code = d]
<1>1. p.code = d /\ p.headers = q.headers /\ p.content = q.content
  BY DEF Saids
<1>2. q.code \in Codes /\ q.headers \in Seq(R!Names) /\ q.content \in Nat
  BY DEF Saids
<1> HIDE DEF p
<1>3. CASE s = Fresh /\ q = R!NothingSaid
  <2>1. R!WriteCode(s, d) = Heading(d, "OK", <<>>)
    BY <1>3, FreshCode
  <2>2. q.headers = <<>> /\ q.content = 0 /\ "OK" \in Words
    BY <1>3 DEF R!NothingSaid, Words
  <2>3. Making(g, R!WriteCode(s, d), p)
    BY <1>1, <2>1, <2>2 DEF Making
  <2> QED
    BY <2>3 DEF p
<1>4. CASE \E w \in Words : s = Heading(q.code, w, q.headers) /\ q.content = 0
  <2>1. PICK w \in Words : s = Heading(q.code, w, q.headers) /\ q.content = 0
    BY <1>4
  <2>2. \E v \in Words : R!WriteCode(s, d) = Heading(d, v, q.headers)
    BY <1>2, <2>1, HeadingCode
  <2>3. Making(g, R!WriteCode(s, d), p)
    BY <1>1, <2>1, <2>2 DEF Making
  <2> QED
    BY <2>3 DEF p
<1>5. CASE \E w \in Words : s = Filling(g, q.code, w, q.headers, q.content)
  <2>1. PICK w \in Words : s = Filling(g, q.code, w, q.headers, q.content)
    BY <1>5
  <2>2. \E v \in Words : R!WriteCode(s, d) = Filling(g, d, v, q.headers, q.content)
    BY <1>2, <2>1, FillingCode
  <2>3. Making(g, R!WriteCode(s, d), p)
    BY <1>1, <2>2 DEF Making
  <2> QED
    BY <2>3 DEF p
<1> QED
  BY <1>3, <1>4, <1>5 DEF Making

LEMMA EmptyHeading ==
  /\ R!WithCode(Heading(200, "OK", <<>>)) = Heading(200, "OK", <<>>)
  /\ \A name \in R!Names \ R!Protected :
       R!WriteHeader(Heading(200, "OK", <<>>), name) = Heading(200, "OK", Append(<<>>, name))
<1>1. <<>> \in Seq(R!Names) /\ "OK" \in Words /\ 200 \in Codes
  BY HttpServiceAssumption DEF Words
<1>2. R!WithCode(Heading(200, "OK", <<>>)) = Heading(200, "OK", <<>>)
  BY <1>1, HeadingStarted
<1>3. ASSUME NEW name \in R!Names \ R!Protected
      PROVE  R!WriteHeader(Heading(200, "OK", <<>>), name) = Heading(200, "OK", Append(<<>>, name))
  BY <1>1, HeadingHeader, ZenonT(30)
<1> QED
  BY <1>2, <1>3

LEMMA FreshHeader ==
  ASSUME NEW name \in R!Names, name \notin R!Protected
  PROVE  R!WriteHeader(Fresh, name) = Heading(200, "OK", Append(<<>>, name))
<1>1. R!WithCode(Fresh) = Heading(200, "OK", <<>>)
  BY FreshCode, HttpServiceAssumption DEF R!WithCode, Fresh, R!Attached
<1>2. R!WithCode(Heading(200, "OK", <<>>)) = Heading(200, "OK", <<>>)
  BY EmptyHeading
<1>3. R!WriteHeader(Fresh, name) = R!WriteHeader(Heading(200, "OK", <<>>), name)
  BY <1>1, <1>2 DEF R!WriteHeader
<1> QED
  BY <1>3, EmptyHeading

LEMMA HeaderMakes ==
  ASSUME NEW g, NEW s, NEW q \in Saids, Making(g, s, q), NEW name \in R!Names,
         s.resp.contentPos = 0, name \notin R!Protected
  PROVE  Making(g, R!WriteHeader(s, name), [q EXCEPT !.headers = Append(@, name)])
<1> DEFINE p == [q EXCEPT !.headers = Append(@, name)]
<1>1. p.code = q.code /\ p.headers = Append(q.headers, name) /\ p.content = q.content
  BY DEF Saids
<1>2. q.code \in Codes /\ q.headers \in Seq(R!Names) /\ q.content \in Nat
  BY DEF Saids
<1> HIDE DEF p
<1>3. CASE s = Fresh /\ q = R!NothingSaid
  <2>1. q.headers = <<>> /\ q.content = 0 /\ "OK" \in Words /\ q.code = 200
    BY <1>3 DEF R!NothingSaid, Words
  <2>2. R!WriteHeader(s, name) = Heading(200, "OK", Append(<<>>, name))
    BY <1>3, FreshHeader
  <2>3. Making(g, R!WriteHeader(s, name), p)
    BY <1>1, <2>1, <2>2 DEF Making
  <2> QED
    BY <2>3 DEF p
<1>4. CASE \E w \in Words : s = Heading(q.code, w, q.headers) /\ q.content = 0
  <2>1. PICK w \in Words : s = Heading(q.code, w, q.headers) /\ q.content = 0
    BY <1>4
  <2>2. R!WriteHeader(s, name) = Heading(q.code, w, Append(q.headers, name))
    BY <1>2, <2>1, HeadingHeader
  <2>3. Making(g, R!WriteHeader(s, name), p)
    BY <1>1, <2>1, <2>2 DEF Making
  <2> QED
    BY <2>3 DEF p
<1>5. CASE \E w \in Words : s = Filling(g, q.code, w, q.headers, q.content)
  <2>1. PICK w \in Words : s = Filling(g, q.code, w, q.headers, q.content)
    BY <1>5
  <2>2. s.resp.contentPos # 0
    BY <1>2, <2>1, FillingIs
  <2> QED
    BY <2>2
<1> QED
  BY <1>3, <1>4, <1>5 DEF Making

LEMMA MakingCompleted ==
  ASSUME NEW s, NEW q \in Saids, Making(config, s, q)
  PROVE  \E w \in Words :
           R!WithHeader(s) = Filling(config, q.code, w, q.headers, q.content)
<1>1. q.code \in Codes /\ q.headers \in Seq(R!Names) /\ q.content \in Nat
  BY DEF Saids
<1>2. CASE s = Fresh /\ q = R!NothingSaid
  <2>1. q.headers = <<>> /\ q.content = 0 /\ "OK" \in Words /\ q.code = 200
    BY <1>2 DEF R!NothingSaid, Words
  <2> QED
    BY <1>2, <2>1, FreshCompleted
<1>3. CASE \E w \in Words : s = Heading(q.code, w, q.headers) /\ q.content = 0
  BY <1>1, <1>3, HeadingCompleted
<1>4. CASE \E w \in Words : s = Filling(config, q.code, w, q.headers, q.content)
  BY <1>1, <1>4, FillingCompleted
<1> QED
  BY <1>2, <1>3, <1>4 DEF Making

LEMMA WriteMakes ==
  ASSUME NEW s, NEW q \in Saids, Making(config, s, q), NEW n \in Nat
  PROVE  Making(config, R!WriteContent(s, n), [q EXCEPT !.content = @ + n])
<1> DEFINE p == [q EXCEPT !.content = @ + n]
<1>1. p.code = q.code /\ p.headers = q.headers /\ p.content = q.content + n
  BY DEF Saids
<1>2. q.code \in Codes /\ q.headers \in Seq(R!Names) /\ q.content \in Nat
  BY DEF Saids
<1> HIDE DEF p
<1>3. PICK w \in Words : R!WithHeader(s) = Filling(config, q.code, w, q.headers, q.content)
  BY MakingCompleted
<1>4. R!WriteContent(s, n) = R!Push(R!WithHeader(s), ContentCells(n))
  BY DEF R!WriteContent, ContentCells
<1>5. R!WriteContent(s, n) = Filling(config, q.code, w, q.headers, q.content + n)
  BY <1>2, <1>3, <1>4, FillingWritten
<1>6. Making(config, R!WriteContent(s, n), p)
  BY <1>1, <1>5 DEF Making
<1> QED
  BY <1>6 DEF p

(* detach(done)                                                             *)
LEMMA DoneIsSendable ==
  ASSUME NEW s, NEW q \in Saids, Making(config, s, q)
  PROVE  Sendable(config, R!CompleteContent(s).buf, q)
<1>1. q.code \in Codes /\ q.headers \in Seq(R!Names) /\ q.content \in Nat
  BY DEF Saids
<1>2. PICK w \in Words : R!WithHeader(s) = Filling(config, q.code, w, q.headers, q.content)
  BY MakingCompleted
<1> DEFINE t == Filling(config, q.code, w, q.headers, q.content)
<1>3. R!WithHeader(t) = t
  BY <1>1, FillingCompleted
<1>4. R!CompleteContent(t).buf =
        Written(config, q.code, w, q.headers, Sized(q.content), q.content)
  BY <1>1, FillingDone
<1> HIDE DEF t
<1>5. R!WithHeader(s) = t
  BY <1>2 DEF t
<1>6. R!CompleteContent(s) = R!CompleteContent(t)
  BY <1>3, <1>5 DEF R!CompleteContent
<1> QED
  BY <1>4, <1>6 DEF Sendable

(* What http_response_t and send_buf are like at every moment.              *)
RInv ==
  /\ config \subseteq R!Options /\ old = 0 /\ calls \in 0 .. MaxCalls
  /\ said \in Saids /\ said.content <= MaxContent
  /\ running => ~pending
  /\ ~running => resp = R!Attached
  /\ ~running /\ ~pending => sendBuf = <<>>
  /\ running => Making(config, R!State, said)
  /\ pending => Sendable(config, sendBuf, said)

(* send_buf and the response are those of s.                                *)
Becomes(s) == sendBuf' = s.buf /\ resp' = s.resp

LEMMA Paired ==
  ASSUME NEW g, NEW s, NEW q, Making(g, s, q)
  PROVE  [buf |-> s.buf, resp |-> s.resp] = s
BY DEF Making, Fresh, Heading, Filling

LEMMA NothingSaidIs == R!NothingSaid \in Saids /\ R!NothingSaid.content = 0
BY HttpServiceAssumption DEF R!NothingSaid, Saids

LEMMA ResponseStarts == ServiceInit => RInv
<1> SUFFICES ASSUME ServiceInit PROVE RInv
  OBVIOUS
<1>1. 0 \in 0 .. MaxCalls /\ 0 <= MaxContent
  BY HttpServiceAssumption
<1>2. ~running /\ ~pending
  BY DEF ServiceInit, Init
<1> QED
  BY <1>1, <1>2, NothingSaidIs DEF ServiceInit, R!Off, RInv

LEMMA AttachKeeps == PInv /\ RInv /\ Received => RInv'
<1> SUFFICES ASSUME PInv, RInv, Received PROVE RInv'
  OBVIOUS
<1>1. ~running /\ ~pending /\ ~pending'
  BY DEF Received, Receive
<1>2. sendBuf = <<>> /\ resp = R!Attached /\ old = 0
  BY <1>1 DEF RInv
<1>3. CASE running'
  <2>1. R!Attach
    BY <1>3 DEF Received
  <2>2. /\ sendBuf' = <<>> /\ resp' = R!Attached /\ old' = 0
        /\ calls' = 0 /\ said' = R!NothingSaid /\ config' \subseteq R!Options
    BY <1>2, <2>1, HttpServiceAssumption DEF R!Attach
  <2>3. 0 \in 0 .. MaxCalls /\ 0 <= MaxContent
    BY HttpServiceAssumption
  <2>4. [buf |-> sendBuf', resp |-> resp'] = Fresh
    BY <2>2 DEF Fresh
  <2>5. Making(config', [buf |-> sendBuf', resp |-> resp'], said')
    BY <2>2, <2>4 DEF Making
  <2> QED
    BY <1>1, <1>3, <2>2, <2>3, <2>5, NothingSaidIs DEF RInv, R!State
<1>4. CASE ~running'
  <2>1. UNCHANGED responseVars
    BY <1>4 DEF Received
  <2> QED
    BY <1>1, <1>2, <1>4, <2>1 DEF RInv, responseVars
<1> QED
  BY <1>3, <1>4

LEMMA CallKeeps == RInv /\ Routine => RInv'
<1> SUFFICES ASSUME RInv, Routine PROVE RInv'
  OBVIOUS
<1>1. running /\ running' /\ ~pending'
  BY DEF Routine, RInv, vars
<1>2. R!Calling
  BY DEF Routine, R!Call, R!SetCode, R!SetHeader, R!Write
<1>3. config' = config /\ old' = 0 /\ calls' \in 0 .. MaxCalls
  BY <1>2, HttpServiceAssumption DEF R!Calling, RInv
<1>4. /\ said \in Saids /\ Making(config, R!State, said)
      /\ said.code \in Codes /\ said.headers \in Seq(R!Names) /\ said.content \in Nat
      /\ said.content <= MaxContent /\ config \subseteq R!Options
  BY <1>1 DEF RInv, Saids
<1>5. ASSUME NEW s, NEW q \in Saids, Making(config, s, q), Becomes(s), said' = q,
             q.content <= MaxContent
      PROVE  RInv'
  <2>1. [buf |-> sendBuf', resp |-> resp'] = s
    BY <1>5, Paired DEF Becomes
  <2>2. Making(config', [buf |-> sendBuf', resp |-> resp'], said')
    BY <1>3, <1>5, <2>1
  <2> QED
    BY <1>1, <1>3, <1>4, <1>5, <2>2 DEF RInv, R!State
<1>6. CASE \E code \in Codes : R!SetCode(code)
  <2>1. PICK code \in Codes : R!SetCode(code)
    BY <1>6
  <2> DEFINE s == R!WriteCode(R!State, code)  q == [said EXCEPT !.code = code]
  <2>2. Becomes(s) /\ said' = q
    BY <2>1 DEF R!SetCode, R!Becomes, Becomes
  <2>3. Making(config, s, q)
    BY <1>4, CodeMakes
  <2>4. q \in Saids /\ q.content <= MaxContent
    BY <1>4 DEF Saids
  <2> HIDE DEF s, q
  <2> QED
    BY <1>5, <2>2, <2>3, <2>4
<1>7. CASE \E name \in R!Names : R!SetHeader(name)
  <2>1. PICK name \in R!Names : R!SetHeader(name)
    BY <1>7
  <2>2. CASE name \in R!Protected
    <3>1. Becomes(R!State) /\ said' = said
      BY <2>1, <2>2 DEF R!SetHeader, R!Becomes, Becomes, R!WriteHeader
    <3> QED
      BY <1>4, <1>5, <3>1
  <2>3. CASE name \notin R!Protected
    <3> DEFINE s == R!WriteHeader(R!State, name)
               q == [said EXCEPT !.headers = Append(@, name)]
    <3>1. Becomes(s) /\ said' = q /\ R!State.resp.contentPos = 0
      BY <2>1, <2>3 DEF R!SetHeader, R!Becomes, Becomes, R!State
    <3>2. Making(config, s, q)
      BY <1>4, <2>3, <3>1, HeaderMakes
    <3>3. q \in Saids /\ q.content <= MaxContent
      <4>1. Append(said.headers, name) \in Seq(R!Names)
        BY <1>4
      <4> QED
        BY <1>4, <4>1 DEF Saids
    <3> HIDE DEF s, q
    <3> QED
      BY <1>5, <3>1, <3>2, <3>3
  <2> QED
    BY <2>2, <2>3
<1>8. CASE \E n \in 0 .. MaxContent : R!Write(n)
  <2>1. PICK n \in 0 .. MaxContent : R!Write(n)
    BY <1>8
  <2> DEFINE s == R!WriteContent(R!State, n)  q == [said EXCEPT !.content = @ + n]
  <2>2. Becomes(s) /\ said' = q /\ said.content + n <= MaxContent
    BY <2>1 DEF R!Write, R!Becomes, Becomes
  <2>3. Making(config, s, q)
    BY <1>4, WriteMakes
  <2>4. q \in Saids /\ q.content <= MaxContent
    <3>1. said.content + n \in Nat
      BY <1>4
    <3> QED
      BY <1>4, <2>2, <3>1 DEF Saids
  <2> HIDE DEF s, q
  <2> QED
    BY <1>5, <2>2, <2>3, <2>4
<1> QED
  BY <1>6, <1>7, <1>8 DEF Routine, R!Call

LEMMA DoneKeeps == RInv /\ Done => RInv'
<1> SUFFICES ASSUME RInv, Done PROVE RInv'
  OBVIOUS
<1>1. running /\ ~running' /\ pending'
  BY DEF Done, RoutineDone
<1>2. /\ sendBuf' = R!CompleteContent(R!State).buf
      /\ resp' = R!Attached
      /\ config' = config /\ old' = old /\ calls' = calls /\ said' = said
  BY DEF Done, R!DetachDone
<1>3. said \in Saids /\ Making(config, R!State, said)
  BY <1>1 DEF RInv
<1>4. Sendable(config, R!CompleteContent(R!State).buf, said)
  BY <1>3, DoneIsSendable
<1>5. Sendable(config', sendBuf', said')
  BY <1>2, <1>4
<1> QED
  BY <1>1, <1>2, <1>5 DEF RInv

LEMMA AbandonedKeeps == RInv /\ Abandoned => RInv'
<1> SUFFICES ASSUME RInv, Abandoned PROVE RInv'
  OBVIOUS
<1>1. running /\ ~running' /\ ~pending /\ ~pending'
  BY DEF Abandoned, RoutineAbandons, RInv
<1>2. /\ sendBuf' = SubSeq(sendBuf, 1, 0)
      /\ resp' = R!Attached
      /\ config' = config /\ old' = old /\ calls' = calls /\ said' = said
  BY DEF Abandoned, R!DetachAbandoned, R!Restored, RInv
<1>3. sendBuf' = <<>>
  BY <1>2
<1> QED
  BY <1>1, <1>2, <1>3 DEF RInv

LEMMA OffKeeps == PInv /\ RInv /\ (Sent \/ Closed) => RInv'
<1> SUFFICES ASSUME RInv, Sent \/ Closed PROVE RInv'
  OBVIOUS
<1>1. ~running' /\ ~pending'
  BY DEF Sent, Flush, connVars, Closed, ConnClosed, RInv
<1>2. 0 \in 0 .. MaxCalls /\ 0 <= MaxContent
  BY HttpServiceAssumption
<1> QED
  BY <1>1, <1>2, NothingSaidIs DEF Sent, Closed, R!TurnOff, RInv

LEMMA ResponseKeeps == PInv /\ RInv /\ [ServiceNext]_serviceVars => RInv'
<1> SUFFICES ASSUME PInv, RInv, [ServiceNext]_serviceVars PROVE RInv'
  OBVIOUS
<1>1. CASE (ClientComes \/ ClientSends) /\ UNCHANGED responseVars
  <2>1. UNCHANGED <<running, pending, responseVars>>
    BY <1>1 DEF ClientComes, ClientSends
  <2> QED
    BY <2>1 DEF RInv, responseVars, R!State
<1>2. CASE UNCHANGED <<vars, responseVars>>
  <2>1. UNCHANGED <<running, pending, responseVars>>
    BY <1>2 DEF vars
  <2> QED
    BY <2>1 DEF RInv, responseVars, R!State
<1>3. CASE Received
  BY <1>3, AttachKeeps
<1>4. CASE Routine
  BY <1>4, CallKeeps
<1>5. CASE Done
  BY <1>5, DoneKeeps
<1>6. CASE Abandoned
  BY <1>6, AbandonedKeeps
<1>7. CASE Sent \/ Closed
  BY <1>7, OffKeeps
<1> QED
  BY <1>1, <1>2, <1>3, <1>4, <1>5, <1>6, <1>7 DEF ServiceNext, serviceVars

-----------------------------------------------------------------------------
(* What holds at every moment *)

(* Every moment of the service finds the response as far as it has come:    *)
(* nothing, the status line and headers, or all but the length.             *)
THEOREM ResponseInvariant == ServiceSpec => []RInv
BY ResponseStarts, ResponseKeeps, ServiceRunsProcessor, ProcessorInvariant, PTL
   DEF ServiceSpec

(* http_processor_t::on_received() and conn_t::close(): a routine that      *)
(* gives up, or a client that goes away, leaves nothing to be sent.         *)
THEOREM NothingAbandonedHolds == ServiceSpec => []NothingAbandoned
<1>1. RInv => NothingAbandoned
  BY DEF RInv, NothingAbandoned
<1> QED
  BY <1>1, ResponseInvariant, PTL

LEMMA SendableIsAsked ==
  ASSUME RInv, pending, MaxContent <= LongestLength
  PROVE  \E word \in {"OK", "ER"} : sendBuf = R!Asked(word)
<1>1. said \in Saids /\ said.content <= MaxContent /\ Sendable(config, sendBuf, said)
  BY DEF RInv
<1>2. PICK w \in Words :
        sendBuf = Written(config, said.code, w, said.headers, Sized(said.content), said.content)
  BY <1>1 DEF Sendable
<1>3. said.content \in Nat
  BY <1>1 DEF Saids
<1>4. Sized(said.content) = said.content
  BY <1>1, <1>3, HttpServiceAssumption DEF Sized
<1>5. R!AutoHeaders(TypeSaid(said.headers)) = AutoHeadersOf(config, TypeSaid(said.headers))
  BY DEF R!AutoHeaders, AutoHeadersOf
<1>6. R!Asked(w) =
        Written(config, said.code, w, said.headers, said.content, said.content)
  BY <1>5 DEF R!Asked, Written, Headed, Began, HeaderCells, TypeSaid, LengthCells, ContentCells
<1> QED
  BY <1>2, <1>4, <1>6 DEF Words

(* http_response.h:81-91: in whatever order a routine gives code, headers   *)
(* and content, what is sent is that response, with its length.  Eight      *)
(* characters have to be enough for the length.                             *)
THEOREM SentIsAsked ==
  ASSUME MaxContent <= LongestLength
  PROVE  ServiceSpec => []SentAsAsked
<1>1. RInv => SentAsAsked
  BY SendableIsAsked DEF SentAsAsked
<1> QED
  BY <1>1, ResponseInvariant, PTL

LEMMA MadeWithin ==
  ASSUME RInv, running
  PROVE  R!ResponseTypeOK
<1>1. /\ said \in Saids /\ Making(config, R!State, said)
      /\ config \subseteq R!Options /\ old = 0 /\ calls \in 0 .. MaxCalls
  BY DEF RInv
<1>2. said.code \in Codes /\ said.headers \in Seq(R!Names) /\ said.content \in Nat
  BY <1>1 DEF Saids
<1>3. R!State.buf = sendBuf /\ R!State.resp = resp
  BY DEF R!State
<1>4. CASE R!State = Fresh
  <2>1. sendBuf = <<>> /\ resp = R!Attached
    BY <1>3, <1>4 DEF Fresh
  <2> QED
    BY <1>1, <2>1, HttpServiceAssumption DEF R!ResponseTypeOK, R!Attached
<1>5. ASSUME NEW w \in Words, R!State = Heading(said.code, w, said.headers)
      PROVE  R!ResponseTypeOK
  <2>1. sendBuf = Began(said.code, w, said.headers) /\ resp.code \in Codes
        /\ resp.codePos = 1 /\ resp.headerPos = 5 /\ resp.lengthPos = 0 /\ resp.contentPos = 0
    BY <1>2, <1>3, <1>5, HeadingIs
  <2>2. Len(sendBuf) = 5 + Len(said.headers) /\ Len(said.headers) \in Nat
    BY <1>2, <2>1, BeganIs
  <2> QED
    BY <1>1, <2>1, <2>2 DEF R!ResponseTypeOK
<1>6. ASSUME NEW w \in Words,
             R!State = Filling(config, said.code, w, said.headers, said.content)
      PROVE  R!ResponseTypeOK
  <2> DEFINE k == Len(Headed(config, said.code, w, said.headers))
  <2>1. /\ sendBuf = Written(config, said.code, w, said.headers, 0, said.content)
        /\ resp.code \in Codes /\ resp.codePos = 1 /\ resp.headerPos = 5
        /\ resp.lengthPos = k /\ resp.contentPos = k + 2
    BY <1>2, <1>3, <1>6, FillingIs
  <2>2. Len(sendBuf) = k + 2 + said.content
    BY <1>2, <2>1, WrittenIs
  <2>3. k \in Nat /\ 5 <= k
    BY <1>2, HeadedIs
  <2> HIDE DEF k
  <2> QED
    BY <1>1, <1>2, <2>1, <2>2, <2>3 DEF R!ResponseTypeOK
<1> QED
  BY <1>1, <1>4, <1>5, <1>6 DEF Making

LEMMA IdleWithin ==
  ASSUME RInv, ~running
  PROVE  R!ResponseTypeOK
<1>1. config \subseteq R!Options /\ old = 0 /\ calls \in 0 .. MaxCalls /\ resp = R!Attached
  BY DEF RInv
<1>2. Len(sendBuf) \in Nat
  <2>1. CASE pending
    <3>1. PICK w \in Words :
            sendBuf = Written(config, said.code, w, said.headers, Sized(said.content),
                              said.content)
      BY <2>1 DEF RInv, Sendable
    <3>2. said.code \in Codes /\ said.headers \in Seq(R!Names) /\ said.content \in Nat
      BY DEF RInv, Saids
    <3>3. Sized(said.content) \in Nat
      BY <3>2 DEF Sized
    <3>4. sendBuf \in Seq(Cells)
      BY <3>1, <3>2, <3>3, WrittenIs
    <3> QED
      BY <3>4
  <2>2. CASE ~pending
    BY <2>2 DEF RInv
  <2> QED
    BY <2>1, <2>2
<1> QED
  BY <1>1, <1>2, HttpServiceAssumption DEF R!ResponseTypeOK, R!Attached

(* The members of http_processor_t and http_response_t have their types,    *)
(* and the positions that the response is patched at lie in send_buf.       *)
THEOREM ServiceTypeCorrect == ServiceSpec => []ServiceTypeOK
<1>1. PInv => TypeOK
  BY DEF PInv, TypeOK, Within, Parsers, Steps
<1>2. RInv => R!ResponseTypeOK
  BY MadeWithin, IdleWithin
<1>3. PInv /\ RInv => ServiceTypeOK
  BY <1>1, <1>2 DEF ServiceTypeOK
<1> QED
  BY <1>3, ServiceRunsProcessor, ProcessorInvariant, ResponseInvariant, PTL

-----------------------------------------------------------------------------
(* Lines *)

Views == [at : Nat, len : Nat]

(* A view of what is in text.                                               *)
ViewIn(s, text) == s \in Views /\ s.at + s.len <= Len(text)

LEMMA LineMinIs == \A T : L!Min(T) = Min(T)
BY DEF L!Min, Min

LEMMA LineMaxIs == \A T : L!Max(T) = Max(T)
BY DEF L!Max, Max

LEMMA ViewIs ==
  ASSUME NEW a \in Nat, NEW n \in Nat
  PROVE  L!View(a, n) \in Views /\ L!View(a, n).at = a /\ L!View(a, n).len = n
BY DEF L!View, Views

LEMMA PartIs ==
  ASSUME NEW w \in Seq(Nat), NEW a \in Nat, NEW n \in Nat, a + n <= Len(w)
  PROVE  /\ SubSeq(w, a + 1, a + n) \in Seq(Nat) /\ Len(SubSeq(w, a + 1, a + n)) = n
         /\ \A i \in 1 .. n : SubSeq(w, a + 1, a + n)[i] = w[a + i] /\ a + i \in 1 .. Len(w)
<1> DEFINE u == SubSeq(w, a + 1, a + n)
<1>1. \A i \in a + 1 .. a + n : i \in 1 .. Len(w) /\ w[i] \in Nat
  BY ElementOfSeq
<1>2. /\ u \in Seq(Nat) /\ Len(u) = (IF a + 1 <= a + n THEN (a + n) - (a + 1) + 1 ELSE 0)
      /\ \A i \in 1 .. (a + n) - (a + 1) + 1 : u[i] = w[(a + 1) + i - 1]
  BY <1>1, SubSeqProperties
<1> HIDE DEF u
<1>3. \A i \in 1 .. n : a + i \in 1 .. Len(w)
  OBVIOUS
<1>4. Len(u) = n /\ \A i \in 1 .. n : u[i] = w[a + i]
  BY <1>2
<1> QED
  BY <1>2, <1>3, <1>4 DEF u

LEMMA ReadIs ==
  ASSUME NEW text \in Seq(Nat), NEW s, ViewIn(s, text)
  PROVE  /\ L!Read(text, s) \in Seq(Nat) /\ Len(L!Read(text, s)) = s.len
         /\ \A i \in 1 .. s.len : L!Read(text, s)[i] = text[s.at + i] /\ s.at + i \in 1 .. Len(text)
         /\ DOMAIN L!Read(text, s) = 1 .. s.len
         /\ s.at \in Nat /\ s.len \in Nat /\ Len(text) \in Nat
<1>1. s.at \in Nat /\ s.len \in Nat /\ s.at + s.len <= Len(text) /\ Len(text) \in Nat
  BY DEF ViewIn, Views
<1> DEFINE a == s.at
           n == s.len
           w == SubSeq(text, a + 1, a + n)
<1>2. a \in Nat /\ n \in Nat /\ a + n <= Len(text)
  BY <1>1
<1>3. L!Read(text, s) = w
  BY DEF L!Read
<1> HIDE DEF a, n
<1>5. w \in Seq(Nat) /\ Len(w) = n /\ \A i \in 1 .. n : w[i] = text[a + i]
  BY <1>2, PartIs
<1> HIDE DEF w
<1>7. \A i \in 1 .. n : a + i \in 1 .. Len(text)
  BY <1>1, <1>2
<1>8. DOMAIN w = 1 .. n
  BY <1>5
<1> QED
  BY <1>1, <1>3, <1>5, <1>7, <1>8 DEF a, n

LEMMA WholeLineIs ==
  ASSUME NEW text \in Seq(Nat)
  PROVE  /\ ViewIn(L!View(0, Len(text)), text) /\ L!Read(text, L!View(0, Len(text))) = text
         /\ L!View(0, Len(text)).at = 0 /\ L!View(0, Len(text)).len = Len(text)
<1>1. Len(text) \in Nat /\ 0 \in Nat
  OBVIOUS
<1> DEFINE s == L!View(0, Len(text))
<1>2. s \in Views /\ s.at = 0 /\ s.len = Len(text)
  BY <1>1, ViewIs
<1> HIDE DEF s
<1>3. ViewIn(s, text)
  BY <1>1, <1>2 DEF ViewIn
<1>4. L!Read(text, s) = SubSeq(text, 1, Len(text))
  BY <1>1, <1>2 DEF L!Read
<1> QED
  BY <1>2, <1>3, <1>4, SubSeqFull DEF s

(* find_first_of() and find_first_not_of(): the first i from pos on with    *)
(* w[i + 1] in a set, or no such i.                                         *)
First(w, set, pos, f) ==
  \/ f = -1 /\ \A i \in pos + 1 .. Len(w) : w[i] \notin set
  \/ /\ f \in Nat /\ pos <= f /\ f < Len(w) /\ w[f + 1] \in set
     /\ \A i \in pos + 1 .. f : w[i] \notin set

LEMMA FirstOrIs ==
  ASSUME NEW w \in Seq(Nat), NEW set, NEW pos \in Nat
  PROVE  First(w, set, pos, L!FirstOr({i \in pos .. Len(w) - 1 : w[i + 1] \in set}))
<1> DEFINE found == {i \in pos .. Len(w) - 1 : w[i + 1] \in set}
           f == L!FirstOr(found)
<1>1. Len(w) \in Nat
  OBVIOUS
<1>2. \A i \in pos + 1 .. Len(w) : i - 1 \in pos .. Len(w) - 1 /\ (i - 1) + 1 = i
  BY <1>1
<1>3. CASE found = {}
  <2>1. f = -1
    BY <1>3 DEF L!FirstOr, L!NPos
  <2>2. \A i \in pos + 1 .. Len(w) : w[i] \notin set
    BY <1>2, <1>3
  <2> QED
    BY <2>1, <2>2 DEF First
<1>4. CASE found # {}
  <2>1. f = Min(found)
    BY <1>4, LineMinIs DEF L!FirstOr
  <2>2. found \in SUBSET Nat
    BY <1>1
  <2>3. Min(found) \in found /\ \A i \in found : Min(found) <= i
    <3> HIDE DEF found
    <3> QED
      BY <1>4, <2>2, LeastIsThere
  <2> HIDE DEF f
  <2>4. f \in pos .. Len(w) - 1 /\ w[f + 1] \in set
    BY <2>1, <2>3
  <2>5. ASSUME NEW i \in pos + 1 .. f PROVE w[i] \notin set
    <3>1. i - 1 \in pos .. Len(w) - 1 /\ (i - 1) + 1 = i /\ ~(f <= i - 1)
      BY <1>1, <2>4
    <3>2. i - 1 \notin found
      BY <2>1, <2>3, <3>1
    <3> QED
      BY <3>1, <3>2
  <2>6. f \in Nat /\ pos <= f /\ f < Len(w)
    BY <1>1, <2>4
  <2> QED
    BY <2>4, <2>5, <2>6 DEF First, f
<1> QED
  BY <1>3, <1>4

LEMMA FoundIs ==
  ASSUME NEW text \in Seq(Nat), NEW s, ViewIn(s, text), NEW delims, NEW pos \in Nat
  PROVE  /\ First(L!Read(text, s), delims, pos, L!FindFirstOf(text, s, delims, pos))
         /\ First(L!Read(text, s), Nat \ delims, pos, L!FindFirstNotOf(text, s, delims, pos))
<1> DEFINE w == L!Read(text, s)
<1>1. w \in Seq(Nat) /\ Len(w) = s.len /\ s.len \in Nat /\ s.at \in Nat
      /\ \A i \in 1 .. s.len : w[i] = text[s.at + i]
  BY ReadIs
<1> HIDE DEF w
<1>2. ASSUME NEW i \in pos .. s.len - 1
      PROVE  L!At(text, s, i) = w[i + 1] /\ w[i + 1] \in Nat
  <2>1. i + 1 \in 1 .. s.len /\ s.at + i + 1 = s.at + (i + 1)
    <3> DEFINE b == s.at
               n == s.len
    <3>1. b \in Nat /\ n \in Nat /\ i \in pos .. n - 1
      BY <1>1
    <3> HIDE DEF b, n
    <3>2. i + 1 \in 1 .. n /\ b + i + 1 = b + (i + 1)
      BY <3>1
    <3> QED
      BY <3>2 DEF b, n
  <2>2. w[i + 1] = text[s.at + (i + 1)]
    BY <1>1, <2>1
  <2>3. w[i + 1] \in Nat
    BY <1>1, <2>1, ElementOfSeq
  <2> QED
    BY <2>1, <2>2, <2>3 DEF L!At
<1>3. {i \in pos .. s.len - 1 : L!At(text, s, i) \in delims}
        = {i \in pos .. Len(w) - 1 : w[i + 1] \in delims}
  BY <1>1, <1>2
<1>4. {i \in pos .. s.len - 1 : L!At(text, s, i) \notin delims}
        = {i \in pos .. Len(w) - 1 : w[i + 1] \in Nat \ delims}
  BY <1>1, <1>2
<1>5. First(w, delims, pos, L!FindFirstOf(text, s, delims, pos))
  BY <1>1, <1>3, FirstOrIs DEF L!FindFirstOf
<1>6. First(w, Nat \ delims, pos, L!FindFirstNotOf(text, s, delims, pos))
  BY <1>1, <1>4, FirstOrIs DEF L!FindFirstNotOf
<1> QED
  BY <1>5, <1>6 DEF w

(* A part of a view.                                                        *)
LEMMA SubstrIs ==
  ASSUME NEW text \in Seq(Nat), NEW s, ViewIn(s, text), NEW a \in Nat, NEW n \in Nat, a + n <= s.len
  PROVE  /\ ViewIn(L!Substr(s, a, n), text)
         /\ L!Substr(s, a, n).at = s.at + a /\ L!Substr(s, a, n).len = n
         /\ L!Read(text, L!Substr(s, a, n)) = SubSeq(L!Read(text, s), a + 1, a + n)
<1> DEFINE w == L!Read(text, s)
           t == L!Substr(s, a, n)
           v == L!Read(text, t)
<1>1. /\ w \in Seq(Nat) /\ Len(w) = s.len /\ s.len \in Nat /\ s.at \in Nat
      /\ \A i \in 1 .. s.len : w[i] = text[s.at + i]
  BY ReadIs
<1>2. s.at + a \in Nat /\ s.at + s.len <= Len(text) /\ Len(text) \in Nat
  BY <1>1 DEF ViewIn
<1>3. t \in Views /\ t.at = s.at + a /\ t.len = n
  BY <1>2, ViewIs DEF L!Substr
<1> HIDE DEF t
<1>4. ViewIn(t, text)
  BY <1>1, <1>2, <1>3 DEF ViewIn
<1>5. /\ v \in Seq(Nat) /\ Len(v) = t.len /\ \A i \in 1 .. t.len : v[i] = text[t.at + i]
  BY <1>4, ReadIs
<1> HIDE DEF v, w
<1> DEFINE u == SubSeq(w, a + 1, a + n)
<1>6. u \in Seq(Nat) /\ Len(u) = n /\ \A i \in 1 .. n : u[i] = w[a + i] /\ a + i \in 1 .. Len(w)
  BY <1>1, PartIs
<1> HIDE DEF u
<1>7. \A i \in 1 .. n : (s.at + a) + i = s.at + (a + i)
  BY <1>1
<1>8. \A i \in 1 .. n : v[i] = u[i]
  <2> SUFFICES ASSUME NEW i \in 1 .. n PROVE v[i] = u[i]
    OBVIOUS
  <2>1. u[i] = w[a + i] /\ a + i \in 1 .. s.len
    BY <1>1, <1>6
  <2>2. w[a + i] = text[s.at + (a + i)]
    BY <1>1, <2>1
  <2>3. v[i] = text[(s.at + a) + i]
    BY <1>3, <1>5
  <2> QED
    BY <1>7, <2>1, <2>2, <2>3
<1>9. v = u
  BY <1>3, <1>5, <1>6, <1>8, SeqEqual
<1> QED
  BY <1>3, <1>4, <1>9 DEF u, v, w, t

(* What comes before and after the first ch.                                *)
LEMMA UptoIs ==
  ASSUME NEW w \in Seq(Nat), NEW ch, NEW f, First(w, {ch}, 0, f)
  PROVE  L!Upto(w, ch) = f + 1
<1> DEFINE found == {i \in 1 .. Len(w) : w[i] = ch}
<1>1. L!Upto(w, ch) = IF found # {} THEN Min(found) ELSE 0
  BY LineMinIs DEF L!Upto, L!SelectInSeq
<1>2. Len(w) \in Nat /\ 0 + 1 = 1
  OBVIOUS
<1>3. CASE f = -1
  <2>1. \A i \in 1 .. Len(w) : w[i] # ch
    BY <1>2, <1>3 DEF First
  <2>2. found = {}
    BY <2>1
  <2> QED
    BY <1>1, <1>3, <2>2
<1>4. CASE f # -1
  <2>1. /\ f \in Nat /\ f < Len(w) /\ w[f + 1] = ch
        /\ \A i \in 1 .. f : w[i] # ch
    BY <1>2, <1>4 DEF First
  <2>2. f + 1 \in found /\ found \in SUBSET Nat
    BY <1>2, <2>1
  <2>3. Min(found) \in found /\ Min(found) <= f + 1
    <3> HIDE DEF found
    <3> QED
      BY <2>2, LeastIsThere
  <2>4. Min(found) \in 1 .. Len(w) /\ w[Min(found)] = ch
    BY <2>3
  <2>5. Min(found) = f + 1
    <3> DEFINE m == Min(found)
    <3>1. m \in Nat /\ m >= 1 /\ m <= f + 1 /\ m \notin 1 .. f
      BY <1>2, <2>1, <2>3, <2>4
    <3> HIDE DEF m
    <3> QED
      BY <2>1, <3>1 DEF m
  <2>6. found # {}
    BY <2>2
  <2> QED
    BY <1>1, <2>5, <2>6
<1> QED
  BY <1>3, <1>4

LEMMA PartsAre ==
  ASSUME NEW text \in Seq(Nat), NEW s, ViewIn(s, text), NEW ch
  PROVE  LET p == L!FindFirstOf(text, s, {ch}, 0)
             w == L!Read(text, s)
         IN  /\ L!Upto(w, ch) = p + 1
             /\ p = -1 => L!Before(w, ch) = w /\ L!After(w, ch) = <<>>
             /\ p # -1 =>
                  /\ p \in Nat /\ p < s.len /\ s.len - (p + 1) \in Nat
                  /\ ViewIn(L!Substr(s, 0, p), text)
                  /\ L!Substr(s, 0, p).at = s.at /\ L!Substr(s, 0, p).len = p
                  /\ L!Read(text, L!Substr(s, 0, p)) = L!Before(w, ch)
                  /\ ViewIn(L!Rest(s, p + 1), text)
                  /\ L!Rest(s, p + 1).at = s.at + (p + 1) /\ L!Rest(s, p + 1).len = s.len - (p + 1)
                  /\ L!Read(text, L!Rest(s, p + 1)) = L!After(w, ch)
<1> DEFINE p == L!FindFirstOf(text, s, {ch}, 0)
           w == L!Read(text, s)
<1>1. w \in Seq(Nat) /\ Len(w) = s.len /\ s.len \in Nat /\ s.at \in Nat
  BY ReadIs
<1>2. First(w, {ch}, 0, p)
  <2>1. 0 \in Nat
    OBVIOUS
  <2> QED
    BY <2>1, FoundIs
<1> HIDE DEF p
<1>3. L!Upto(w, ch) = p + 1
  BY <1>1, <1>2, UptoIs
<1>4. CASE p = -1
  <2>1. L!Upto(w, ch) = 0
    BY <1>3, <1>4
  <2> QED
    BY <1>3, <1>4, <2>1 DEF L!Before, L!After, p
<1>5. CASE p # -1
  <2>1. /\ p \in Nat /\ p < s.len /\ s.len - (p + 1) \in Nat /\ p + 1 \in Nat /\ p + 1 # 0
        /\ (p + 1) + (s.len - (p + 1)) = s.len /\ 0 + p <= s.len /\ 0 \in Nat /\ s.at + 0 = s.at
        /\ 0 + 1 = 1 /\ 0 + p = p /\ (p + 1) - 1 = p
    <3> DEFINE n == s.len
               b == s.at
    <3>1. p \in Nat /\ p < n /\ n \in Nat /\ b \in Nat
      BY <1>1, <1>2, <1>5 DEF First
    <3> HIDE DEF n, b
    <3>2. /\ n - (p + 1) \in Nat /\ p + 1 \in Nat /\ p + 1 # 0
          /\ (p + 1) + (n - (p + 1)) = n /\ 0 + p <= n /\ b + 0 = b
          /\ 0 + p = p /\ (p + 1) - 1 = p
      BY <3>1
    <3> QED
      BY <3>1, <3>2 DEF n, b
  <2>2. /\ ViewIn(L!Substr(s, 0, p), text)
        /\ L!Substr(s, 0, p).at = s.at + 0 /\ L!Substr(s, 0, p).len = p
        /\ L!Read(text, L!Substr(s, 0, p)) = SubSeq(w, 0 + 1, 0 + p)
    BY <2>1, SubstrIs
  <2> DEFINE a == p + 1
             m == s.len - (p + 1)
  <2>3. L!Rest(s, p + 1) = L!Substr(s, a, m)
    BY DEF L!Rest
  <2>4. /\ ViewIn(L!Rest(s, p + 1), text)
        /\ L!Rest(s, p + 1).at = s.at + (p + 1) /\ L!Rest(s, p + 1).len = s.len - (p + 1)
        /\ L!Read(text, L!Rest(s, p + 1)) = SubSeq(w, (p + 1) + 1, s.len)
    <3>1. a \in Nat /\ m \in Nat /\ a + m = s.len /\ a + m <= s.len
      BY <1>1, <2>1
    <3> HIDE DEF a, m
    <3>2. /\ ViewIn(L!Substr(s, a, m), text)
          /\ L!Substr(s, a, m).at = s.at + a /\ L!Substr(s, a, m).len = m
          /\ L!Read(text, L!Substr(s, a, m)) = SubSeq(w, a + 1, a + m)
      BY <3>1, SubstrIs
    <3> QED
      BY <2>3, <3>1, <3>2 DEF a, m
  <2> HIDE DEF a, m
  <2>5. L!Before(w, ch) = SubSeq(w, 1, (p + 1) - 1)
    BY <1>3, <2>1 DEF L!Before
  <2>6. L!After(w, ch) = SubSeq(w, (p + 1) + 1, s.len)
    BY <1>1, <1>3, <2>1 DEF L!After
  <2> HIDE DEF w
  <2>7. L!Read(text, L!Substr(s, 0, p)) = L!Before(w, ch)
    BY <2>1, <2>2, <2>5
  <2>8. L!Read(text, L!Rest(s, p + 1)) = L!After(w, ch)
    BY <2>1, <2>4, <2>6
  <2>9. L!Substr(s, 0, p).at = s.at
    BY <2>1, <2>2
  <2> QED
    BY <1>3, <1>5, <2>1, <2>2, <2>4, <2>7, <2>8, <2>9 DEF p, w
<1> QED
  BY <1>4, <1>5 DEF p

(* trim_left() and trim_right()                                             *)
LEMMA TrimLeftIs ==
  ASSUME NEW text \in Seq(Nat), NEW s, ViewIn(s, text)
  PROVE  \E k \in 0 .. s.len :
           /\ L!TrimLeft(text, s) = L!Substr(s, k, s.len - k)
           /\ \A i \in 1 .. k : L!Read(text, s)[i] \in L!Blanks
           /\ k < s.len => L!Read(text, s)[k + 1] \notin L!Blanks
<1> DEFINE w == L!Read(text, s)
           kept == {i \in 0 .. s.len - 1 : L!At(text, s, i) \notin L!Blanks}
           T == kept \cup {s.len}
<1>1. s.len \in Nat /\ s.at \in Nat /\ \A i \in 1 .. s.len : w[i] = text[s.at + i]
  BY ReadIs
<1> HIDE DEF w
<1>2. \A i \in 0 .. s.len - 1 : L!At(text, s, i) = w[i + 1]
  <2> SUFFICES ASSUME NEW i \in 0 .. s.len - 1 PROVE L!At(text, s, i) = w[i + 1]
    OBVIOUS
  <2> DEFINE b == s.at
             n == s.len
  <2>1. b \in Nat /\ n \in Nat /\ i \in 0 .. n - 1 /\ \A j \in 1 .. n : w[j] = text[b + j]
    BY <1>1
  <2>2. L!At(text, s, i) = text[b + i + 1]
    BY DEF L!At
  <2> HIDE DEF b, n
  <2>3. i + 1 \in 1 .. n /\ b + i + 1 = b + (i + 1)
    BY <2>1
  <2> QED
    BY <2>1, <2>2, <2>3
<1>3. T \in SUBSET Nat /\ T # {} /\ T \subseteq 0 .. s.len
  BY <1>1
<1>4. Min(T) \in T /\ \A i \in T : Min(T) <= i
  <2> HIDE DEF T
  <2> QED
    BY <1>3, LeastIsThere
<1> DEFINE k == Min(T)
<1>5. L!TrimLeft(text, s) = L!Substr(s, k, s.len - k)
  BY LineMinIs DEF L!TrimLeft, L!Rest
<1> HIDE DEF k
<1>6. k \in 0 .. s.len /\ (k \in kept \/ k = s.len) /\ \A i \in kept : k <= i
  BY <1>3, <1>4 DEF k
<1>7. ASSUME NEW i \in 1 .. k PROVE w[i] \in L!Blanks
  <2>1. i - 1 \in 0 .. s.len - 1 /\ (i - 1) + 1 = i /\ ~(k <= i - 1)
    BY <1>1, <1>6
  <2>2. i - 1 \notin kept
    BY <1>6, <2>1
  <2> QED
    BY <1>2, <2>1, <2>2
<1>8. k < s.len => w[k + 1] \notin L!Blanks
  <2>1. k < s.len => k # s.len
    BY <1>1, <1>6
  <2>2. k \in kept => k \in 0 .. s.len - 1 /\ L!At(text, s, k) \notin L!Blanks
    OBVIOUS
  <2> QED
    BY <1>2, <1>6, <2>1, <2>2
<1> QED
  BY <1>5, <1>6, <1>7, <1>8 DEF w

LEMMA TrimRightIs ==
  ASSUME NEW text \in Seq(Nat), NEW s, ViewIn(s, text)
  PROVE  \E n \in 0 .. s.len :
           /\ L!TrimRight(text, s) = L!Substr(s, 0, n)
           /\ \A i \in n + 1 .. s.len : L!Read(text, s)[i] \in L!Blanks
           /\ n > 0 => L!Read(text, s)[n] \notin L!Blanks
<1> DEFINE w == L!Read(text, s)
           kept == {i \in 0 .. s.len - 1 : L!At(text, s, i) \notin L!Blanks}
           T == {i + 1 : i \in kept} \cup {0}
<1>1. s.len \in Nat /\ s.at \in Nat /\ \A i \in 1 .. s.len : w[i] = text[s.at + i]
  BY ReadIs
<1> HIDE DEF w
<1>2. \A i \in 0 .. s.len - 1 : L!At(text, s, i) = w[i + 1]
  <2> SUFFICES ASSUME NEW i \in 0 .. s.len - 1 PROVE L!At(text, s, i) = w[i + 1]
    OBVIOUS
  <2> DEFINE b == s.at
             n == s.len
  <2>1. b \in Nat /\ n \in Nat /\ i \in 0 .. n - 1 /\ \A j \in 1 .. n : w[j] = text[b + j]
    BY <1>1
  <2>2. L!At(text, s, i) = text[b + i + 1]
    BY DEF L!At
  <2> HIDE DEF b, n
  <2>3. i + 1 \in 1 .. n /\ b + i + 1 = b + (i + 1)
    BY <2>1
  <2> QED
    BY <2>1, <2>2, <2>3
<1>3. T \in SUBSET Nat /\ T # {} /\ \A x \in T : x <= s.len
  BY <1>1
<1>4. Max(T) \in T /\ \A i \in T : i <= Max(T)
  <2> HIDE DEF T
  <2> QED
    BY <1>1, <1>3, GreatestIsThere
<1> DEFINE n == Max(T)
<1>5. L!TrimRight(text, s) = L!Substr(s, 0, n)
  BY LineMaxIs DEF L!TrimRight
<1> HIDE DEF n
<1>6. n \in 0 .. s.len /\ (n = 0 \/ \E i \in kept : n = i + 1) /\ \A i \in kept : i + 1 <= n
  <2>1. n \in T /\ \A x \in T : x <= n
    BY <1>4 DEF n
  <2>2. \A i \in kept : i + 1 \in T
    OBVIOUS
  <2>3. T \subseteq 0 .. s.len
    BY <1>1
  <2> QED
    BY <2>1, <2>2, <2>3
<1>7. ASSUME NEW i \in n + 1 .. s.len PROVE w[i] \in L!Blanks
  <2>1. i - 1 \in 0 .. s.len - 1 /\ (i - 1) + 1 = i /\ ~(i <= n)
    BY <1>1, <1>6
  <2>2. i - 1 \notin kept
    BY <1>6, <2>1
  <2> QED
    BY <1>2, <2>1, <2>2
<1>8. n > 0 => w[n] \notin L!Blanks
  <2>1. ASSUME n > 0 PROVE \E i \in kept : n = i + 1
    BY <1>6, <2>1
  <2>2. \A i \in kept : i \in 0 .. s.len - 1 /\ L!At(text, s, i) \notin L!Blanks
    OBVIOUS
  <2> QED
    BY <1>2, <2>1, <2>2
<1> QED
  BY <1>5, <1>6, <1>7, <1>8 DEF w

(* What trimming the blanks off both ends of w leaves.                      *)
TrimsTo(w, u) ==
  \/ u = <<>> /\ \A i \in 1 .. Len(w) : w[i] \in L!Blanks
  \/ \E k \in 1 .. Len(w) : \E m \in k .. Len(w) :
       /\ w[k] \notin L!Blanks /\ w[m] \notin L!Blanks
       /\ \A i \in 1 .. Len(w) : i < k \/ i > m => w[i] \in L!Blanks
       /\ u = SubSeq(w, k, m)

LEMMA TrimIs ==
  ASSUME NEW text \in Seq(Nat), NEW s, ViewIn(s, text)
  PROVE  /\ ViewIn(L!Trim(text, s), text)
         /\ TrimsTo(L!Read(text, s), L!Read(text, L!Trim(text, s)))
<1> DEFINE w == L!Read(text, s)
           t == L!TrimLeft(text, s)
           v == L!Read(text, t)
           z == L!Trim(text, s)
           u == L!Read(text, z)
<1>1. w \in Seq(Nat) /\ Len(w) = s.len /\ s.len \in Nat
  BY ReadIs
<1>2. PICK k \in 0 .. s.len :
        /\ t = L!Substr(s, k, s.len - k)
        /\ \A i \in 1 .. k : w[i] \in L!Blanks
        /\ k < s.len => w[k + 1] \notin L!Blanks
  BY TrimLeftIs
<1> HIDE DEF t
<1> DEFINE n == s.len - k
<1>3. k \in Nat /\ n \in Nat /\ k + n = s.len /\ k + n <= s.len
  BY <1>1
<1> HIDE DEF n
<1>4. ViewIn(t, text) /\ t.len = n /\ v = SubSeq(w, k + 1, k + n)
  <2>1. t = L!Substr(s, k, n)
    BY <1>2 DEF n
  <2> QED
    BY <1>3, <2>1, SubstrIs
<1>5. z = L!TrimRight(text, t)
  BY DEF L!Trim, t
<1> HIDE DEF z, v, w
<1>6. Len(v) = n /\ v \in Seq(Nat) /\ \A i \in 1 .. n : v[i] = w[k + i] /\ k + i \in 1 .. Len(w)
  <2> DEFINE x == SubSeq(w, k + 1, k + n)
  <2>1. k + n <= Len(w)
    BY <1>1, <1>3
  <2>2. Len(x) = n /\ x \in Seq(Nat) /\ \A i \in 1 .. n : x[i] = w[k + i] /\ k + i \in 1 .. Len(w)
    BY <1>1, <1>3, <2>1, PartIs
  <2> HIDE DEF x
  <2>3. v = x
    BY <1>4 DEF x
  <2> QED
    BY <2>2, <2>3
<1>7. PICK m \in 0 .. n :
        /\ z = L!Substr(t, 0, m)
        /\ \A i \in m + 1 .. n : v[i] \in L!Blanks
        /\ m > 0 => v[m] \notin L!Blanks
  <2>1. \E m \in 0 .. t.len :
           /\ L!TrimRight(text, t) = L!Substr(t, 0, m)
           /\ \A i \in m + 1 .. t.len : v[i] \in L!Blanks
           /\ m > 0 => v[m] \notin L!Blanks
    BY <1>4, TrimRightIs DEF v
  <2> QED
    BY <1>4, <1>5, <2>1
<1>8. ViewIn(z, text) /\ u = SubSeq(v, 0 + 1, 0 + m)
  <2> DEFINE x == L!Substr(t, 0, m)
  <2>1. 0 \in Nat /\ m \in Nat /\ 0 + m <= t.len
    BY <1>3, <1>4
  <2>2. ViewIn(x, text) /\ L!Read(text, x) = SubSeq(L!Read(text, t), 0 + 1, 0 + m)
    BY <1>4, <2>1, SubstrIs
  <2>3. z = x
    BY <1>7
  <2> HIDE DEF x, u
  <2>4. u = L!Read(text, z) /\ v = L!Read(text, t)
    BY DEF u, v
  <2> QED
    BY <2>2, <2>3, <2>4
<1> HIDE DEF u
<1>9. /\ m \in Nat /\ Len(u) = m /\ u \in Seq(Nat)
      /\ \A i \in 1 .. m : u[i] = v[i]
  <2>1. 0 \in Nat /\ m \in Nat /\ 0 + m <= Len(v)
    BY <1>3, <1>6
  <2>2. Len(u) = m /\ u \in Seq(Nat) /\ \A i \in 1 .. m : u[i] = v[0 + i]
    BY <1>6, <1>8, <2>1, PartIs
  <2>3. \A i \in 1 .. m : 0 + i = i
    OBVIOUS
  <2> QED
    BY <2>1, <2>2, <2>3
<1>10. CASE m = 0
  <2>1. u = <<>>
    BY <1>9, <1>10, EmptySeq
  <2>2. ASSUME NEW i \in 1 .. Len(w) PROVE w[i] \in L!Blanks
    <3>1. CASE i <= k
      BY <1>1, <1>2, <1>3, <2>2, <3>1
    <3>2. CASE ~(i <= k)
      <4>1. i - k \in 1 .. n /\ k + (i - k) = i /\ i - k \in m + 1 .. n
        BY <1>1, <1>3, <1>10, <3>2
      <4> QED
        BY <1>6, <1>7, <4>1
    <3> QED
      BY <3>1, <3>2
  <2> QED
    BY <1>8, <2>1, <2>2 DEF TrimsTo, u, v, w, z
<1>11. CASE m # 0
  <2>1. m > 0 /\ m \in 1 .. n /\ 1 \in 1 .. n /\ k < s.len /\ k + 1 \in 1 .. Len(w) /\ k + m \in k + 1 .. Len(w)
        /\ m <= n
    BY <1>1, <1>3, <1>9, <1>11
  <2>2. w[k + 1] \notin L!Blanks
    BY <1>2, <2>1
  <2>3. w[k + m] \notin L!Blanks
    BY <1>6, <1>7, <2>1
  <2>4. ASSUME NEW i \in 1 .. Len(w), i < k + 1 \/ i > k + m PROVE w[i] \in L!Blanks
    <3>1. CASE i < k + 1
      <4>1. i \in 1 .. k
        BY <1>1, <1>3, <3>1
      <4> QED
        BY <1>2, <4>1
    <3>2. CASE i > k + m
      <4>1. i - k \in 1 .. n /\ k + (i - k) = i /\ i - k \in m + 1 .. n
        BY <1>1, <1>3, <1>9, <3>2
      <4> QED
        BY <1>6, <1>7, <4>1
    <3> QED
      BY <2>4, <3>1, <3>2
  <2>5. u = SubSeq(w, k + 1, k + m)
    <3> DEFINE x == SubSeq(w, k + 1, k + m)
    <3>1. k + m <= Len(w)
      BY <1>1, <1>3, <1>9, <2>1
    <3>2. x \in Seq(Nat) /\ Len(x) = m /\ \A i \in 1 .. m : x[i] = w[k + i]
      BY <1>1, <1>3, <1>9, <3>1, PartIs, SMTT(30)
    <3> HIDE DEF x
    <3>3. \A i \in 1 .. m : i \in 1 .. n
      BY <1>3, <1>9, <2>1
    <3>4. \A i \in 1 .. m : u[i] = x[i]
      BY <1>6, <1>9, <3>2, <3>3
    <3>5. u = x
      BY <1>9, <3>2, <3>4, SeqEqual
    <3> QED
      BY <3>5 DEF x
  <2>6. TrimsTo(w, u)
    BY <2>1, <2>2, <2>3, <2>4, <2>5 DEF TrimsTo
  <2> QED
    BY <1>8, <2>6 DEF u, v, w, z
<1> QED
  BY <1>10, <1>11

(* The same, said of a part of a line.                                      *)
LEMMA TrimmedIs ==
  ASSUME NEW text \in Seq(Nat), NEW a \in Nat, NEW n \in Nat, a + n <= Len(text),
         NEW u, TrimsTo(SubSeq(text, a + 1, a + n), u)
  PROVE  /\ u = <<>> => L!Trimmed(text, a + 1, a + n) = {}
         /\ u # <<>> => L!Trimmed(text, a + 1, a + n) = {u}
         /\ u \in Seq(Nat)
<1> DEFINE w == SubSeq(text, a + 1, a + n)
           pairs == {q \in (a + 1 .. a + n) \X (a + 1 .. a + n) :
                       /\ q[1] <= q[2] /\ {text[q[1]], text[q[2]]} \cap L!Blanks = {}
                       /\ \A k \in (a + 1 .. q[1] - 1) \cup (q[2] + 1 .. a + n) : text[k] \in L!Blanks}
<1>1. /\ w \in Seq(Nat) /\ Len(w) = n
      /\ \A i \in 1 .. n : w[i] = text[a + i] /\ a + i \in 1 .. Len(text)
  BY PartIs
<1>2. L!Trimmed(text, a + 1, a + n) = {SubSeq(text, p[1], p[2]) : p \in pairs}
  BY DEF L!Trimmed
<1> HIDE DEF w
<1>3. ASSUME NEW q \in pairs
      PROVE  /\ q = <<q[1], q[2]>> /\ q[1] - a \in 1 .. n /\ q[2] - a \in 1 .. n
             /\ q[1] <= q[2]
             /\ w[q[1] - a] \notin L!Blanks /\ w[q[2] - a] \notin L!Blanks
             /\ \A i \in 1 .. n : i < q[1] - a \/ i > q[2] - a => w[i] \in L!Blanks
  <2> DEFINE x == q[1]
             y == q[2]
  <2>1. /\ q = <<x, y>> /\ x \in a + 1 .. a + n /\ y \in a + 1 .. a + n /\ x <= y
        /\ text[x] \notin L!Blanks /\ text[y] \notin L!Blanks
        /\ \A k \in (a + 1 .. x - 1) \cup (y + 1 .. a + n) : text[k] \in L!Blanks
    OBVIOUS
  <2> HIDE DEF x, y
  <2>2. x - a \in 1 .. n /\ y - a \in 1 .. n /\ a + (x - a) = x /\ a + (y - a) = y
    BY <2>1
  <2>3. \A i \in 1 .. n : i < x - a \/ i > y - a => a + i \in (a + 1 .. x - 1) \cup (y + 1 .. a + n)
    BY <2>1
  <2>4. w[x - a] = text[x] /\ w[y - a] = text[y]
    BY <1>1, <2>2
  <2>5. \A i \in 1 .. n : i < x - a \/ i > y - a => w[i] \in L!Blanks
    BY <1>1, <2>1, <2>3
  <2> QED
    BY <2>1, <2>2, <2>4, <2>5 DEF x, y
<1>4. CASE u = <<>> /\ \A i \in 1 .. Len(w) : w[i] \in L!Blanks
  <2>1. pairs = {}
    <3> SUFFICES ASSUME NEW q \in pairs PROVE FALSE
      OBVIOUS
    <3> HIDE DEF pairs
    <3> QED
      BY <1>1, <1>3, <1>4
  <2> HIDE DEF pairs
  <2>2. {SubSeq(text, p[1], p[2]) : p \in pairs} = {}
    BY <2>1
  <2> QED
    BY <1>2, <1>4, <2>2
<1>5. CASE \E k \in 1 .. Len(w) : \E m \in k .. Len(w) :
             /\ w[k] \notin L!Blanks /\ w[m] \notin L!Blanks
             /\ \A i \in 1 .. Len(w) : i < k \/ i > m => w[i] \in L!Blanks
             /\ u = SubSeq(w, k, m)
  <2>1. PICK k \in 1 .. n, m \in 1 .. n :
             /\ k <= m
             /\ w[k] \notin L!Blanks /\ w[m] \notin L!Blanks
             /\ \A i \in 1 .. n : i < k \/ i > m => w[i] \in L!Blanks
             /\ u = SubSeq(w, k, m)
    <3>1. \A k \in 1 .. n : \A m \in k .. n : m \in 1 .. n /\ k <= m
      OBVIOUS
    <3> QED
      BY <1>1, <1>5, <3>1
  <2> DEFINE z == <<a + k, a + m>>
  <2>2. /\ a + k \in a + 1 .. a + n /\ a + m \in a + 1 .. a + n /\ a + k <= a + m
        /\ \A i \in (a + 1 .. (a + k) - 1) \cup ((a + m) + 1 .. a + n) :
             i - a \in 1 .. n /\ a + (i - a) = i /\ (i - a < k \/ i - a > m)
    BY <2>1
  <2>3. text[a + k] \notin L!Blanks /\ text[a + m] \notin L!Blanks
    BY <1>1, <2>1
  <2>4. \A i \in (a + 1 .. (a + k) - 1) \cup ((a + m) + 1 .. a + n) : text[i] \in L!Blanks
    BY <1>1, <2>1, <2>2, ZenonT(30)
  <2>5. z \in pairs
    <3>1. z[1] = a + k /\ z[2] = a + m
      OBVIOUS
    <3> HIDE DEF z
    <3>2. z \in (a + 1 .. a + n) \X (a + 1 .. a + n)
      BY <2>2 DEF z
    <3>3. {text[z[1]], text[z[2]]} \cap L!Blanks = {}
      BY <2>3, <3>1
    <3> QED
      BY <2>2, <2>4, <3>1, <3>2, <3>3
  <2>6. ASSUME NEW q \in pairs PROVE q = z
    <3> DEFINE x == q[1] - a
               y == q[2] - a
    <3>1. /\ q = <<q[1], q[2]>> /\ x \in 1 .. n /\ y \in 1 .. n
          /\ w[x] \notin L!Blanks /\ w[y] \notin L!Blanks
          /\ \A i \in 1 .. n : i < x \/ i > y => w[i] \in L!Blanks
      BY <1>3
    <3>2. q[1] \in Nat /\ q[2] \in Nat
      OBVIOUS
    <3> HIDE DEF x, y
    <3>3. ~(x < k) /\ ~(x > m) /\ ~(k < x) /\ ~(y > m) /\ ~(m > y)
      BY <2>1, <3>1
    <3>4. x = k /\ y = m
      BY <3>1, <3>3
    <3>5. q[1] = a + k /\ q[2] = a + m
      <4>1. q[1] - a = k /\ q[2] - a = m
        BY <3>4 DEF x, y
      <4> DEFINE b == q[1]
                 c == q[2]
      <4>2. b \in Nat /\ c \in Nat /\ b - a = k /\ c - a = m
        BY <3>2, <4>1
      <4> HIDE DEF b, c
      <4>3. b = a + k /\ c = a + m
        BY <4>2
      <4> QED
        BY <4>3 DEF b, c
    <3> QED
      BY <3>1, <3>5
  <2>7. pairs = {z}
    <3> HIDE DEF pairs, z
    <3> QED
      BY <2>5, <2>6
  <2>8. {SubSeq(text, p[1], p[2]) : p \in pairs} = {SubSeq(text, a + k, a + m)}
    <3> HIDE DEF pairs
    <3>1. z[1] = a + k /\ z[2] = a + m
      OBVIOUS
    <3> HIDE DEF z
    <3> QED
      BY <2>7, <3>1
  <2> DEFINE d == k - 1
             l == m - k + 1
             v == SubSeq(text, a + k, a + m)
  <2>9. /\ d \in Nat /\ l \in Nat /\ d + l <= n /\ d + 1 = k /\ d + l = m /\ l > 0
        /\ a + d \in Nat /\ (a + d) + 1 = a + k /\ (a + d) + l = a + m /\ (a + d) + l <= Len(text)
    BY <2>1
  <2> HIDE DEF d, l
  <2>10. u \in Seq(Nat) /\ Len(u) = l /\ \A i \in 1 .. l : u[i] = w[d + i] /\ d + i \in 1 .. Len(w)
    <3> DEFINE x == SubSeq(w, d + 1, d + l)
    <3>1. u = x /\ d + l <= Len(w)
      BY <1>1, <2>1, <2>9
    <3>2. x \in Seq(Nat) /\ Len(x) = l /\ \A i \in 1 .. l : x[i] = w[d + i] /\ d + i \in 1 .. Len(w)
      BY <1>1, <2>9, <3>1, PartIs
    <3> HIDE DEF x
    <3> QED
      BY <3>1, <3>2
  <2>11. v \in Seq(Nat) /\ Len(v) = l /\ \A i \in 1 .. l : v[i] = text[(a + d) + i]
    <3>1. v = SubSeq(text, (a + d) + 1, (a + d) + l)
      BY <2>9
    <3> HIDE DEF v
    <3> QED
      BY <2>9, <3>1, PartIs
  <2> HIDE DEF v
  <2>12. \A i \in 1 .. l : u[i] = v[i]
    <3> SUFFICES ASSUME NEW i \in 1 .. l PROVE u[i] = v[i]
      OBVIOUS
    <3>1. d + i \in 1 .. n /\ a + (d + i) = (a + d) + i
      BY <1>1, <2>9, <2>10
    <3> QED
      BY <1>1, <2>10, <2>11, <3>1
  <2>13. u = v
    BY <2>9, <2>10, <2>11, <2>12, SeqEqual
  <2>14. u # <<>>
    BY <2>9, <2>10
  <2> QED
    BY <1>2, <2>8, <2>10, <2>13, <2>14 DEF v
<1> QED
  BY <1>4, <1>5 DEF TrimsTo, w

(* "before(':')" is what comes before the first colon.                      *)
LEMMA BeforeColonIs ==
  ASSUME NEW text \in Seq(Nat), NEW s, ViewIn(s, text)
  PROVE  L!Read(text, L!BeforeColon(text, s)) = L!Before(L!Read(text, s), L!Colon)
<1> DEFINE p == L!FindFirstOf(text, s, {L!Colon}, 0)
           w == L!Read(text, s)
           ch == L!Colon
<1>1. /\ p = -1 => L!Before(w, L!Colon) = w
      /\ p # -1 => L!Read(text, L!Substr(s, 0, p)) = L!Before(w, L!Colon)
  <2> HIDE DEF ch
  <2>1. /\ L!Upto(w, ch) = p + 1
        /\ p = -1 => L!Before(w, ch) = w /\ L!After(w, ch) = <<>>
        /\ p # -1 =>
             /\ p \in Nat /\ p < s.len /\ s.len - (p + 1) \in Nat
             /\ ViewIn(L!Substr(s, 0, p), text)
             /\ L!Substr(s, 0, p).at = s.at /\ L!Substr(s, 0, p).len = p
             /\ L!Read(text, L!Substr(s, 0, p)) = L!Before(w, ch)
             /\ ViewIn(L!Rest(s, p + 1), text)
             /\ L!Rest(s, p + 1).at = s.at + (p + 1) /\ L!Rest(s, p + 1).len = s.len - (p + 1)
             /\ L!Read(text, L!Rest(s, p + 1)) = L!After(w, ch)
    BY PartsAre DEF ch
  <2> HIDE DEF p, w
  <2> QED
    BY <2>1 DEF ch
<1>2. L!BeforeColon(text, s) = IF p = -1 THEN s ELSE L!Substr(s, 0, p)
  BY DEF L!BeforeColon, L!NPos
<1> QED
  BY <1>1, <1>2

(* A header line says what its key and value are.                           *)
LEMMA HeaderLineSays ==
  ASSUME NEW text \in Seq(Nat)
  PROVE  L!HeaderLine(text) = L!HeaderLineMeans(text)
<1> DEFINE s == L!View(0, Len(text))
           p == L!FindFirstOf(text, s, {L!Colon}, 0)
           left == L!Substr(s, 0, p)
           right == L!Rest(s, p + 1)
           key == L!Trim(text, left)
           value == L!Trim(text, right)
           c == L!Upto(text, L!Colon)
           keys == L!Trimmed(text, 1, c - 1)
           values == L!Trimmed(text, c + 1, Len(text))
           x == L!Read(text, key)
           y == L!Read(text, value)
<1>1. ViewIn(s, text) /\ L!Read(text, s) = text /\ s.at = 0 /\ s.len = Len(text) /\ Len(text) \in Nat
  BY WholeLineIs
<1>2. L!HeaderLine(text) =
        IF p \in {0, -1, s.len - 1} \/ key.len = 0 \/ value.len = 0
        THEN L!NotParsed
        ELSE [ok |-> TRUE, key |-> x, value |-> y, host |-> L!Read(text, L!BeforeColon(text, value))]
  BY DEF L!HeaderLine, L!NPos
<1>3. L!HeaderLineMeans(text) =
        IF c = 0 \/ keys = {} \/ values = {} THEN L!NotParsed
        ELSE LET v == CHOOSE v \in values : TRUE
             IN  [ok |-> TRUE, key |-> CHOOSE k \in keys : TRUE,
                  value |-> v, host |-> L!Before(v, L!Colon)]
  BY Zenon DEF L!HeaderLineMeans
<1> HIDE DEF s
<1>4. /\ c = p + 1
      /\ p # -1 => /\ p \in Nat /\ p < s.len
                   /\ ViewIn(left, text) /\ left.at = s.at /\ left.len = p
                   /\ ViewIn(right, text) /\ right.at = s.at + (p + 1) /\ right.len = s.len - (p + 1)
  BY <1>1, PartsAre
<1> HIDE DEF p, c, left, right
<1>5. CASE p = -1
  BY <1>2, <1>3, <1>4, <1>5
<1>6. CASE p # -1
  <2> DEFINE n == Len(text)
             m == n - (p + 1)
             g == p + 1
  <2>1. /\ p \in Nat /\ c = g /\ c # 0 /\ c - 1 = p /\ c + 1 = g + 1 /\ m \in Nat /\ g \in Nat
        /\ g + m = n /\ g + m <= n /\ 0 + p <= n /\ 0 + 1 = 1 /\ 0 + p = p
        /\ (p = n - 1 => m = 0) /\ (p = s.len - 1 <=> p = n - 1)
    <3>1. p \in Nat /\ p < n /\ n \in Nat /\ c = p + 1 /\ s.len = n
      BY <1>1, <1>4, <1>6
    <3> HIDE DEF n
    <3> QED
      BY <3>1
  <2>2. /\ ViewIn(left, text) /\ left.at = 0 /\ left.len = p
        /\ ViewIn(right, text) /\ right.at = g /\ right.len = m
    <3>1. 0 + (p + 1) = g
      BY <2>1
    <3> QED
      BY <1>1, <1>4, <1>6, <3>1
  <2> HIDE DEF n, m, g
  <2>3. L!Read(text, left) = SubSeq(text, 0 + 1, 0 + p)
    BY <2>2 DEF L!Read
  <2>4. L!Read(text, right) = SubSeq(text, g + 1, g + m)
    BY <2>2 DEF L!Read
  <2>5. ViewIn(key, text) /\ TrimsTo(SubSeq(text, 0 + 1, 0 + p), x)
    BY <2>2, <2>3, TrimIs
  <2>6. ViewIn(value, text) /\ TrimsTo(SubSeq(text, g + 1, g + m), y)
    BY <2>2, <2>4, TrimIs
  <2> HIDE DEF key, value
  <2>7. Len(x) = key.len /\ Len(y) = value.len /\ x \in Seq(Nat) /\ y \in Seq(Nat)
    BY <2>5, <2>6, ReadIs
  <2> HIDE DEF x, y
  <2>8. (x = <<>> => keys = {}) /\ (x # <<>> => keys = {x})
    <3>1. /\ x = <<>> => L!Trimmed(text, 0 + 1, 0 + p) = {}
          /\ x # <<>> => L!Trimmed(text, 0 + 1, 0 + p) = {x}
      <4>1. 0 \in Nat /\ p \in Nat /\ 0 + p <= Len(text)
        BY <2>1 DEF n
      <4> QED
        BY <2>5, <4>1, TrimmedIs
    <3>2. 0 + 1 = 1 /\ 0 + p = c - 1
      BY <2>1
    <3> QED
      BY <3>1, <3>2
  <2>9. (y = <<>> => values = {}) /\ (y # <<>> => values = {y})
    <3>1. /\ y = <<>> => L!Trimmed(text, g + 1, g + m) = {}
          /\ y # <<>> => L!Trimmed(text, g + 1, g + m) = {y}
      <4>1. g \in Nat /\ m \in Nat /\ g + m <= Len(text)
        BY <2>1 DEF n
      <4> QED
        BY <2>6, <4>1, TrimmedIs
    <3>2. g + 1 = c + 1 /\ g + m = Len(text)
      BY <2>1 DEF n
    <3> QED
      BY <3>1, <3>2
  <2>10. key.len = 0 <=> x = <<>>
    BY <2>7, EmptySeq
  <2>11. value.len = 0 <=> y = <<>>
    BY <2>7, EmptySeq
  <2>12. p = 0 => x = <<>>
    <3> SUFFICES ASSUME p = 0, x # <<>> PROVE FALSE
      OBVIOUS
    <3>1. Len(SubSeq(text, 0 + 1, 0 + p)) = 0
      <4>1. 0 \in Nat /\ p \in Nat /\ 0 + p <= Len(text)
        BY <2>1 DEF n
      <4>2. Len(SubSeq(text, 0 + 1, 0 + p)) = p
        BY <4>1, PartIs
      <4> QED
        BY <4>2
    <3> HIDE DEF x
    <3>2. ~ \E k \in 1 .. Len(SubSeq(text, 0 + 1, 0 + p)) : TRUE
      BY <3>1
    <3> QED
      BY <2>5, <3>2 DEF TrimsTo
  <2>13. p = s.len - 1 => y = <<>>
    <3> SUFFICES ASSUME m = 0, y # <<>> PROVE FALSE
      BY <2>1
    <3>1. Len(SubSeq(text, g + 1, g + m)) = 0
      <4>1. g \in Nat /\ m \in Nat /\ g + m <= Len(text)
        BY <2>1 DEF n
      <4>2. Len(SubSeq(text, g + 1, g + m)) = m
        BY <4>1, PartIs
      <4> QED
        BY <4>2
    <3> HIDE DEF y
    <3>2. ~ \E k \in 1 .. Len(SubSeq(text, g + 1, g + m)) : TRUE
      <4>1. ~ \E k \in 1 .. 0 : TRUE
        OBVIOUS
      <4> QED
        BY <3>1, <4>1, Zenon
    <3> QED
      BY <2>6, <3>2 DEF TrimsTo
  <2> HIDE DEF keys, values
  <2>14. CASE x = <<>> \/ y = <<>>
    <3>1. L!HeaderLine(text) = L!NotParsed
      BY <1>2, <2>10, <2>11, <2>14
    <3>2. L!HeaderLineMeans(text) = L!NotParsed
      BY <1>3, <2>8, <2>9, <2>14
    <3> QED
      BY <3>1, <3>2
  <2>15. CASE x # <<>> /\ y # <<>>
    <3>1. L!Read(text, L!BeforeColon(text, value)) = L!Before(y, L!Colon)
      BY <2>6, BeforeColonIs DEF y
    <3>2. L!HeaderLine(text) = [ok |-> TRUE, key |-> x, value |-> y, host |-> L!Before(y, L!Colon)]
      <4>1. ~(p \in {0, -1, s.len - 1} \/ key.len = 0 \/ value.len = 0)
        BY <1>6, <2>10, <2>11, <2>12, <2>13, <2>15
      <4> QED
        BY <1>2, <3>1, <4>1
    <3>3. keys = {x} /\ values = {y} /\ keys # {} /\ values # {} /\ c # 0
      BY <2>1, <2>8, <2>9, <2>15
    <3>4. (CHOOSE k \in keys : TRUE) = x /\ (CHOOSE v \in values : TRUE) = y
      BY <3>3
    <3>5. L!HeaderLineMeans(text) = [ok |-> TRUE, key |-> x, value |-> y, host |-> L!Before(y, L!Colon)]
      BY <1>3, <3>3, <3>4
    <3> QED
      BY <3>2, <3>5
  <2> QED
    BY <2>14, <2>15
<1> QED
  BY <1>5, <1>6

-----------------------------------------------------------------------------
(* The members of a set in order                                            *)

LEMMA LineCardinalityIs == \A T : L!Cardinality(T) = Cardinality(T)
BY DEF L!Cardinality, Cardinality

(* The members of S, the least one first.                                   *)
Ascending(b, S) ==
  /\ b \in Seq(Nat)
  /\ \A i, j \in 1 .. Len(b) : i < j => b[i] < b[j]
  /\ S = {b[i] : i \in 1 .. Len(b)}

LEMMA FirstCounted ==
  ASSUME NEW b, NEW S, Ascending(b, S), NEW k \in 0 .. Len(b)
  PROVE  Cardinality({b[i] : i \in 1 .. k}) = k
<1> DEFINE T == {b[i] : i \in 1 .. k}
           f == [i \in 1 .. k |-> b[i]]
<1>1. b \in Seq(Nat) /\ Len(b) \in Nat /\ k \in Nat /\ \A i, j \in 1 .. Len(b) : i < j => b[i] < b[j]
  BY DEF Ascending
<1>2. \A i \in 1 .. k : i \in 1 .. Len(b) /\ b[i] \in Nat
  BY <1>1, ElementOfSeq
<1>3. \A i, j \in 1 .. k : i # j => b[i] # b[j]
  <2> SUFFICES ASSUME NEW i \in 1 .. k, NEW j \in 1 .. k, i # j PROVE b[i] # b[j]
    OBVIOUS
  <2>1. b[i] \in Nat /\ b[j] \in Nat /\ (i < j \/ j < i)
    BY <1>2
  <2>2. b[i] < b[j] \/ b[j] < b[i]
    BY <1>1, <1>2, <2>1
  <2> QED
    BY <2>1, <2>2
<1>4. f \in [1 .. k -> T] /\ \A x, y \in 1 .. k : f[x] = f[y] => x = y
  BY <1>3
<1>5. \A x \in T : \E i \in 1 .. k : f[i] = x
  OBVIOUS
<1>6. f \in Bijection(1 .. k, T)
  <2> HIDE DEF f, T
  <2> QED
    BY <1>4, <1>5 DEF Bijection, Injection, Surjection, IsInjective
<1>7. ExistsBijection(1 .. k, T)
  BY <1>6 DEF ExistsBijection
<1> HIDE DEF T
<1> QED
  BY <1>1, <1>7, FS_CountingElements DEF T

(* InOrder() finds them.                                                    *)
LEMMA InOrderIs ==
  ASSUME NEW b, NEW S, Ascending(b, S)
  PROVE  L!InOrder(S) = b
<1> DEFINE Below(i) == {j \in S : j <= i}
           Rank(i) == L!Cardinality({j \in S : j <= i})
           n == Len(b)
<1>1. b \in Seq(Nat) /\ n \in Nat /\ \A i, j \in 1 .. n : i < j => b[i] < b[j]
  BY DEF Ascending
<1>2. S = {b[i] : i \in 1 .. n} /\ \A i \in 1 .. n : b[i] \in Nat
  BY <1>1, ElementOfSeq DEF Ascending
<1>3. L!InOrder(S) = [k \in 1 .. L!Cardinality(S) |-> CHOOSE i \in S : Rank(i) = k]
  BY DEF L!InOrder
<1> HIDE DEF n
<1>4. L!Cardinality(S) = n
  BY <1>1, <1>2, FirstCounted, LineCardinalityIs DEF n
<1>5. ASSUME NEW k \in 1 .. n PROVE Rank(b[k]) = k
  <2>1. \A i \in 1 .. n : b[i] <= b[k] <=> i <= k
    <3> SUFFICES ASSUME NEW i \in 1 .. n PROVE b[i] <= b[k] <=> i <= k
      OBVIOUS
    <3>1. i < k \/ i = k \/ k < i
      BY <1>1
    <3>2. (i < k => b[i] < b[k]) /\ (k < i => b[k] < b[i]) /\ b[i] \in Nat /\ b[k] \in Nat
      BY <1>1, <1>2
    <3> QED
      BY <3>1, <3>2
  <2>2. \A i \in 1 .. n : i <= k <=> i \in 1 .. k
    BY <1>1
  <2>3. \A i \in 1 .. k : i \in 1 .. n
    BY <1>1
  <2>4. {j \in S : j <= b[k]} = {b[i] : i \in 1 .. k}
    BY <1>2, <2>1, <2>2, <2>3
  <2>5. Cardinality({b[i] : i \in 1 .. k}) = k
    BY <1>1, FirstCounted DEF n
  <2> QED
    BY <2>4, <2>5, LineCardinalityIs
<1> HIDE DEF Rank
<1>6. ASSUME NEW k \in 1 .. n PROVE (CHOOSE i \in S : Rank(i) = k) = b[k]
  <2>1. b[k] \in S /\ Rank(b[k]) = k
    BY <1>2, <1>5
  <2>2. ASSUME NEW i \in S, Rank(i) = k PROVE i = b[k]
    <3>1. PICK m \in 1 .. n : i = b[m]
      BY <1>2
    <3>2. Rank(b[m]) = m
      BY <1>5
    <3> QED
      BY <2>2, <3>1, <3>2
  <2> QED
    BY <2>1, <2>2
<1>7. L!InOrder(S) = [k \in 1 .. n |-> b[k]]
  BY <1>3, <1>4, <1>6
<1>8. b = [k \in 1 .. n |-> b[k]]
  BY <1>1 DEF n
<1> QED
  BY <1>7, <1>8

LEMMA AscendingMore ==
  ASSUME NEW b, NEW S, Ascending(b, S), NEW x \in Nat, \A y \in S : y < x
  PROVE  Ascending(Append(b, x), S \cup {x})
<1> DEFINE c == Append(b, x)
           n == Len(b)
<1>1. b \in Seq(Nat) /\ n \in Nat /\ (\A i, j \in 1 .. n : i < j => b[i] < b[j]) /\ S = {b[i] : i \in 1 .. n}
  BY DEF Ascending
<1>2. c \in Seq(Nat) /\ Len(c) = n + 1 /\ (\A i \in 1 .. n : c[i] = b[i]) /\ c[n + 1] = x
  BY <1>1
<1> HIDE DEF c, n
<1>3. \A i \in 1 .. n + 1 : i \in 1 .. n \/ i = n + 1
  BY <1>1
<1>4. \A i \in 1 .. n : i \in 1 .. n + 1 /\ b[i] < x /\ i < n + 1
  BY <1>1
<1>5. ASSUME NEW i \in 1 .. n + 1, NEW j \in 1 .. n + 1, i < j PROVE c[i] < c[j]
  <2>1. i \in 1 .. n
    BY <1>1, <1>5
  <2>2. CASE j \in 1 .. n
    BY <1>1, <1>2, <1>5, <2>1, <2>2
  <2>3. CASE j = n + 1
    BY <1>2, <1>4, <2>1, <2>3
  <2> QED
    BY <1>3, <2>2, <2>3
<1>6. S \cup {x} = {c[i] : i \in 1 .. n + 1}
  <2>1. n + 1 \in 1 .. n + 1
    BY <1>1
  <2>2. ASSUME NEW y \in S PROVE \E i \in 1 .. n + 1 : y = c[i]
    BY <1>1, <1>2, <1>4
  <2>3. ASSUME NEW i \in 1 .. n + 1 PROVE c[i] \in S \cup {x}
    BY <1>1, <1>2, <1>3
  <2> QED
    BY <1>2, <2>1, <2>2, <2>3
<1> QED
  BY <1>2, <1>5, <1>6 DEF Ascending, c

-----------------------------------------------------------------------------
(* split()                                                                  *)

(* Where the parts of w without a byte in delims begin, and where they end. *)
Begins(w, delims) ==
  {i \in 1 .. Len(w) : w[i] \notin delims /\ (i > 1 => w[i - 1] \in delims)}
EndOf(w, delims, i) ==
  Min({j \in i .. Len(w) : j = Len(w) \/ w[j + 1] \in delims})

(* Those before f, all of them if there is no f.                            *)
Taken(w, delims, f) == {i \in Begins(w, delims) : f = -1 \/ i <= f}

TakesNext(w, delims, st, f) ==
  Taken(w, delims, f) = Taken(w, delims, st) \cup {st + 1}

LEMMA EndIsThere ==
  ASSUME NEW w \in Seq(Nat), NEW delims, NEW i \in 1 .. Len(w)
  PROVE  LET e == EndOf(w, delims, i)
         IN  /\ e \in i .. Len(w) /\ (e = Len(w) \/ w[e + 1] \in delims)
             /\ \A j \in i .. e - 1 : w[j + 1] \notin delims
<1> DEFINE T == {j \in i .. Len(w) : j = Len(w) \/ w[j + 1] \in delims}
           e == Min(T)
<1>1. Len(w) \in Nat
  OBVIOUS
<1>2. T \in SUBSET Nat /\ Len(w) \in T
  BY <1>1
<1>3. e \in T /\ \A j \in T : e <= j
  <2> HIDE DEF T
  <2> QED
    BY <1>2, LeastIsThere
<1>4. EndOf(w, delims, i) = e
  BY DEF EndOf
<1> HIDE DEF e
<1>5. ASSUME NEW j \in i .. e - 1 PROVE w[j + 1] \notin delims
  <2>1. e \in i .. Len(w)
    BY <1>3
  <2>2. j \in i .. Len(w) /\ ~(e <= j)
    BY <1>1, <2>1
  <2> QED
    BY <1>3, <2>2
<1> QED
  BY <1>3, <1>4, <1>5

(* A turn finds where an item ends.                                         *)
LEMMA ItemEnds ==
  ASSUME NEW w \in Seq(Nat), NEW delims, NEW st \in Nat, st + 1 \in Begins(w, delims),
         NEW e, First(w, delims, st + 1, e)
  PROVE  EndOf(w, delims, st + 1) = IF e = -1 THEN Len(w) ELSE e
<1> DEFINE n == Len(w)
           m == EndOf(w, delims, st + 1)
<1>1. n \in Nat /\ st + 1 \in 1 .. n
  BY DEF Begins
<1>2. m \in st + 1 .. n /\ (m = n \/ w[m + 1] \in delims) /\ \A j \in st + 1 .. m - 1 : w[j + 1] \notin delims
  BY <1>1, EndIsThere
<1> HIDE DEF m, n
<1>3. m \in Nat
  BY <1>1, <1>2
<1>4. CASE e = -1
  <2>1. \A i \in (st + 1) + 1 .. n : w[i] \notin delims
    BY <1>4 DEF First, n
  <2>2. m # n => m + 1 \in (st + 1) + 1 .. n
    BY <1>1, <1>2, <1>3
  <2> QED
    BY <1>2, <1>4, <2>1, <2>2 DEF m, n
<1>5. CASE e # -1
  <2>1. e \in Nat /\ st + 1 <= e /\ e < n /\ w[e + 1] \in delims
        /\ \A i \in (st + 1) + 1 .. e : w[i] \notin delims
    BY <1>5 DEF First, n
  <2>2. ~(e < m)
    <3>1. e < m => e \in st + 1 .. m - 1
      BY <1>3, <2>1
    <3> QED
      BY <1>2, <2>1, <3>1
  <2>3. ~(m < e)
    <3>1. m < e => m # n /\ m + 1 \in (st + 1) + 1 .. e
      BY <1>2, <1>3, <2>1
    <3> QED
      BY <1>2, <2>1, <3>1
  <2>4. m = e
    BY <1>3, <2>1, <2>2, <2>3
  <2> QED
    BY <1>5, <2>4 DEF m
<1> QED
  BY <1>4, <1>5

(* A turn finds where the next item begins.                                 *)
LEMMA NextBegins ==
  ASSUME NEW w \in Seq(Nat), NEW delims, NEW st \in Nat, st + 1 \in Begins(w, delims),
         NEW e, First(w, delims, st + 1, e),
         NEW f, e = -1 => f = -1, e # -1 => First(w, Nat \ delims, e + 1, f)
  PROVE  /\ TakesNext(w, delims, st, f)
         /\ f # -1 => /\ f \in Nat /\ st + 1 <= f /\ f < Len(w)
                      /\ f + 1 \in Begins(w, delims)
<1> DEFINE n == Len(w)
<1>1. n \in Nat /\ st + 1 \in 1 .. n /\ w[st + 1] \notin delims /\ (\A i \in 1 .. n : w[i] \in Nat)
  BY ElementOfSeq DEF Begins
<1> HIDE DEF n
<1>9. Taken(w, delims, st) = {i \in Begins(w, delims) : i <= st}
  BY DEF Taken
<1>2. CASE e = -1
  <2>1. \A i \in (st + 1) + 1 .. n : w[i] \notin delims
    BY <1>2 DEF First, n
  <2>2. ASSUME NEW i \in Begins(w, delims), ~(i <= st), i # st + 1 PROVE FALSE
    <3>1. i \in 1 .. n /\ (i > 1 => w[i - 1] \in delims)
      BY DEF Begins, n
    <3>2. i > 1 /\ (i - 1 = st + 1 \/ i - 1 \in (st + 1) + 1 .. n)
      BY <1>1, <2>2, <3>1
    <3> QED
      BY <1>1, <2>1, <3>1, <3>2
  <2>3. st + 1 \in Begins(w, delims) /\ f = -1
    BY <1>2
  <2>4. {i \in Begins(w, delims) : f = -1 \/ i <= f} = {i \in Begins(w, delims) : i <= st} \cup {st + 1}
    BY <2>2, <2>3
  <2> QED
    BY <1>9, <2>3, <2>4 DEF Taken, TakesNext
<1>3. CASE e # -1
  <2>1. e \in Nat /\ st + 1 <= e /\ e < n /\ w[e + 1] \in delims
        /\ \A i \in (st + 1) + 1 .. e : w[i] \notin delims
    BY <1>3 DEF First, n
  <2>2. \/ f = -1 /\ \A i \in (e + 1) + 1 .. n : w[i] \notin Nat \ delims
        \/ /\ f \in Nat /\ e + 1 <= f /\ f < n /\ w[f + 1] \in Nat \ delims
           /\ \A i \in (e + 1) + 1 .. f : w[i] \notin Nat \ delims
    BY <1>3 DEF First, n
  <2>3. ASSUME NEW i \in Begins(w, delims), f = -1 \/ i <= f, ~(i <= st), i # st + 1 PROVE FALSE
    <3>1. i \in 1 .. n /\ w[i] \notin delims /\ w[i] \in Nat /\ (i > 1 => w[i - 1] \in delims)
      BY <1>1 DEF Begins, n
    <3>2. CASE i <= e
      <4>1. i > 1 /\ (i - 1 = st + 1 \/ i - 1 \in (st + 1) + 1 .. e)
        BY <1>1, <2>1, <2>3, <3>1, <3>2
      <4> QED
        BY <1>1, <2>1, <3>1, <4>1
    <3>3. CASE i = e + 1
      BY <2>1, <3>1, <3>3
    <3>4. CASE ~(i <= e) /\ i # e + 1
      <4>1. i >= (e + 1) + 1 /\ i <= n
        BY <2>1, <3>1, <3>4
      <4>2. CASE f = -1
        BY <2>1, <2>2, <3>1, <4>1, <4>2
      <4>3. CASE f # -1
        <5>1. f \in Nat /\ i <= f /\ \A j \in (e + 1) + 1 .. f : w[j] \notin Nat \ delims
          BY <2>2, <2>3, <4>3
        <5>2. i \in (e + 1) + 1 .. f
          BY <2>1, <3>1, <4>1, <5>1
        <5> QED
          BY <3>1, <5>1, <5>2
      <4> QED
        BY <4>2, <4>3
    <3> QED
      BY <3>2, <3>3, <3>4
  <2>4. ASSUME f # -1
        PROVE  /\ f \in Nat /\ st + 1 <= f /\ f < n /\ f + 1 \in Begins(w, delims) /\ st <= f
    <3>1. /\ f \in Nat /\ e + 1 <= f /\ f < n /\ w[f + 1] \in Nat \ delims
          /\ \A i \in (e + 1) + 1 .. f : w[i] \notin Nat \ delims
      BY <2>2, <2>4
    <3>2. st + 1 <= f /\ f + 1 \in 1 .. n /\ (f + 1) - 1 = f /\ f \in 1 .. n /\ st <= f
      BY <1>1, <2>1, <3>1
    <3>3. w[f] \in delims
      <4>1. CASE f = e + 1
        BY <2>1, <4>1
      <4>2. CASE f # e + 1
        <5>1. f \in (e + 1) + 1 .. f
          BY <2>1, <3>1, <4>2
        <5> QED
          BY <1>1, <3>1, <3>2, <5>1
      <4> QED
        BY <4>1, <4>2
    <3> QED
      BY <3>1, <3>2, <3>3 DEF Begins, n
  <2>5. ASSUME NEW i \in Begins(w, delims), i <= st PROVE f = -1 \/ i <= f
    <3>1. i \in Nat
      BY <1>1 DEF Begins, n
    <3> QED
      BY <2>4, <2>5, <3>1
  <2>6. {i \in Begins(w, delims) : f = -1 \/ i <= f}
              = {i \in Begins(w, delims) : i <= st} \cup {st + 1}
    BY <2>3, <2>4, <2>5
  <2> QED
    BY <1>9, <2>4, <2>6 DEF n, Taken, TakesNext
<1> QED
  BY <1>2, <1>3

(* What the loop has after the first n turns.                               *)
AreSplitTurns(f, r, text, s, delims, n) ==
  f = [turns \in 0 .. n |-> IF turns = 0 THEN r ELSE L!SplitNext(f[turns - 1], text, s, delims)]

LEMMA SplitTurnsLonger ==
  ASSUME NEW r, NEW text, NEW s, NEW delims, NEW n \in Nat, NEW f, AreSplitTurns(f, r, text, s, delims, n)
  PROVE  \E g : AreSplitTurns(g, r, text, s, delims, n + 1)
<1> DEFINE g == [i \in 0 .. n + 1 |->
                   IF i = n + 1 THEN L!SplitNext(f[n], text, s, delims) ELSE f[i]]
<1>1. ASSUME NEW i \in 0 .. n + 1
      PROVE  g[i] = IF i = 0 THEN r ELSE L!SplitNext(g[i - 1], text, s, delims)
  <2>1. CASE i = 0
    <3>1. i \in 0 .. n /\ i # n + 1
      BY <2>1
    <3>2. f[0] = r
      BY <2>1, <3>1 DEF AreSplitTurns
    <3> QED
      BY <2>1, <3>1, <3>2
  <2>2. CASE i # 0
    <3>1. i - 1 \in 0 .. n /\ i - 1 \in 0 .. n + 1 /\ i - 1 # n + 1
      BY <2>2
    <3>2. g[i - 1] = f[i - 1]
      BY <3>1
    <3>3. CASE i = n + 1
      <4>1. i - 1 = n /\ g[i] = L!SplitNext(f[n], text, s, delims)
        BY <3>3
      <4> HIDE DEF g
      <4> QED
        BY <2>2, <3>2, <4>1, Zenon
    <3>4. CASE i # n + 1
      <4>1. i \in 0 .. n /\ g[i] = f[i]
        BY <3>4
      <4>2. f[i] = L!SplitNext(f[i - 1], text, s, delims)
        BY <2>2, <4>1 DEF AreSplitTurns
      <4> HIDE DEF g
      <4> QED
        BY <2>2, <3>2, <4>1, <4>2, Zenon
    <3> QED
      BY <3>3, <3>4
  <2> QED
    BY <2>1, <2>2
<1>2. g = [i \in 0 .. n + 1 |-> g[i]]
  OBVIOUS
<1>3. AreSplitTurns(g, r, text, s, delims, n + 1)
  <2> HIDE DEF g
  <2> QED
    BY <1>1, <1>2 DEF AreSplitTurns
<1> QED
  BY <1>3

LEMMA SplitTurnsAreThere ==
  ASSUME NEW r, NEW text, NEW s, NEW delims, NEW n \in Nat
  PROVE  \E f : AreSplitTurns(f, r, text, s, delims, n)
<1> DEFINE Without == {k \in Nat : ~\E f : AreSplitTurns(f, r, text, s, delims, k)}
<1>1. SUFFICES ASSUME Without # {} PROVE FALSE
  OBVIOUS
<1>2. PICK m \in Without : \A k \in Without : m <= k
  BY <1>1, LeastIsThere
<1>3. CASE m = 0
  <2> DEFINE f == [i \in 0 .. 0 |-> r]
  <2>1. \A i \in 0 .. 0 : i = 0
    OBVIOUS
  <2>2. AreSplitTurns(f, r, text, s, delims, 0)
    BY <2>1 DEF AreSplitTurns
  <2> QED
    BY <1>3, <2>2
<1>4. CASE m # 0
  <2>1. m \in Nat /\ m - 1 \in Nat /\ m - 1 \notin Without /\ (m - 1) + 1 = m
    BY <1>2, <1>4
  <2>2. PICK f : AreSplitTurns(f, r, text, s, delims, m - 1)
    BY <2>1
  <2>3. \E g : AreSplitTurns(g, r, text, s, delims, (m - 1) + 1)
    BY <2>1, <2>2, SplitTurnsLonger
  <2> QED
    BY <2>1, <2>3
<1> QED
  BY <1>3, <1>4

(* The item that begins at w[i].                                            *)
ItemAt(s, w, delims, i) == L!Substr(s, i - 1, EndOf(w, delims, i) - (i - 1))

(* q.items are the parts that begin before q.start, b says where.           *)
SplitBy(b, q, s, w, delims) ==
  /\ q = [start |-> q.start, items |-> q.items] /\ q.items \in Seq(Views)
  /\ q.start # -1 => q.start \in Nat /\ q.start < s.len /\ q.start + 1 \in Begins(w, delims)
  /\ Ascending(b, Taken(w, delims, q.start))
  /\ Len(b) = Len(q.items)
  /\ \A k \in 1 .. Len(b) : q.items[k] = ItemAt(s, w, delims, b[k])

LEMMA SplitStarts ==
  ASSUME NEW text \in Seq(Nat), NEW s, ViewIn(s, text), NEW delims
  PROVE  SplitBy(<<>>, [start |-> L!FindFirstNotOf(text, s, delims, 0), items |-> <<>>],
                 s, L!Read(text, s), delims)
<1> DEFINE w == L!Read(text, s)
           f == L!FindFirstNotOf(text, s, delims, 0)
           q == [start |-> f, items |-> <<>>]
<1>1. w \in Seq(Nat) /\ Len(w) = s.len /\ s.len \in Nat
  BY ReadIs
<1>2. First(w, Nat \ delims, 0, f)
  <2>1. 0 \in Nat
    OBVIOUS
  <2> QED
    BY <2>1, FoundIs
<1> HIDE DEF f, w
<1>3. \A i \in 1 .. s.len : w[i] \in Nat
  BY <1>1, ElementOfSeq
<1>4. /\ f = -1 => \A i \in 1 .. s.len : w[i] \in delims
      /\ f # -1 => /\ f \in Nat /\ f < s.len /\ w[f + 1] \notin delims
                   /\ \A i \in 1 .. f : w[i] \in delims
  <2>1. 0 + 1 = 1 /\ (f \in Nat /\ f < s.len => \A i \in 1 .. f : i \in 1 .. s.len)
    BY <1>1
  <2> QED
    BY <1>1, <1>2, <1>3, <2>1 DEF First
<1>5. Taken(w, delims, f) = {}
  <2> SUFFICES ASSUME NEW i \in Begins(w, delims), f = -1 \/ i <= f PROVE FALSE
    BY DEF Taken
  <2>1. i \in 1 .. s.len /\ w[i] \notin delims
    BY <1>1 DEF Begins
  <2>2. f # -1 => i \in 1 .. f
    BY <1>4, <2>1
  <2> QED
    BY <1>4, <2>1, <2>2
<1>6. f # -1 => f + 1 \in Begins(w, delims)
  <2> SUFFICES ASSUME f # -1 PROVE f + 1 \in Begins(w, delims)
    OBVIOUS
  <2>1. f + 1 \in 1 .. s.len /\ (f + 1) - 1 = f /\ (f + 1 > 1 => f \in 1 .. f)
    <3> DEFINE n == s.len
    <3>1. f \in Nat /\ n \in Nat /\ f < n
      BY <1>1, <1>4
    <3> HIDE DEF n
    <3>2. f + 1 \in 1 .. n /\ (f + 1) - 1 = f /\ (f + 1 > 1 => f \in 1 .. f)
      BY <3>1
    <3> QED
      BY <3>2 DEF n
  <2> QED
    BY <1>1, <1>4, <2>1 DEF Begins
<1>7. Ascending(<<>>, {})
  BY DEF Ascending
<1>8. q.start = f /\ q.items = <<>> /\ q.items \in Seq(Views) /\ Len(<<>>) = 0
  OBVIOUS
<1> HIDE DEF q
<1>9. q = [start |-> q.start, items |-> q.items]
  BY <1>8 DEF q
<1>10. \A k \in 1 .. 0 : q.items[k] = ItemAt(s, w, delims, <<>>[k])
  OBVIOUS
<1> QED
  BY <1>4, <1>5, <1>6, <1>7, <1>8, <1>9, <1>10 DEF SplitBy, q, f, w

(* A turn takes one more of them, if there is one.                          *)
LEMMA SplitGoesOn ==
  ASSUME NEW text \in Seq(Nat), NEW s, ViewIn(s, text), NEW delims, NEW q, NEW b,
         SplitBy(b, q, s, L!Read(text, s), delims), NEW k \in Nat, q.start = -1 \/ q.start >= k
  PROVE  \E c : LET z == L!SplitNext(q, text, s, delims)
                IN  SplitBy(c, z, s, L!Read(text, s), delims) /\ (z.start = -1 \/ z.start >= k + 1)
<1> DEFINE w == L!Read(text, s)
           z == L!SplitNext(q, text, s, delims)
           st == q.start
           e == L!FindFirstOf(text, s, delims, q.start + 1)
           f == IF e = -1 THEN -1 ELSE L!FindFirstNotOf(text, s, delims, e + 1)
           x == IF e = -1 THEN L!Rest(s, q.start) ELSE L!Substr(s, q.start, e - q.start)
<1>1. w \in Seq(Nat) /\ Len(w) = s.len /\ s.len \in Nat /\ s.at \in Nat
  BY ReadIs
<1>2. CASE st = -1
  <2>1. z = q
    BY <1>2 DEF L!SplitNext, L!NPos
  <2> QED
    BY <1>2, <2>1
<1>3. CASE st # -1
  <2>1. st \in Nat /\ st < s.len /\ st + 1 \in Begins(w, delims) /\ st >= k
        /\ q = [start |-> st, items |-> q.items] /\ q.items \in Seq(Views)
        /\ Ascending(b, Taken(w, delims, st))
        /\ Len(b) = Len(q.items) /\ \A i \in 1 .. Len(b) : q.items[i] = ItemAt(s, w, delims, b[i])
    BY <1>3 DEF SplitBy
  <2>2. z = [start |-> f, items |-> Append(q.items, x)]
    BY <1>3 DEF L!SplitNext, L!NPos
  <2>3. First(w, delims, st + 1, e)
    <3>1. st + 1 \in Nat
      BY <2>1
    <3> QED
      BY <3>1, FoundIs
  <2>4. e # -1 => e \in Nat /\ st + 1 <= e /\ e < s.len
    BY <1>1, <2>3 DEF First
  <2>5. e # -1 => First(w, Nat \ delims, e + 1, f)
    <3>1. e # -1 => e + 1 \in Nat
      BY <2>4
    <3> QED
      BY <3>1, FoundIs
  <2>6. e = -1 => f = -1
    OBVIOUS
  <2> HIDE DEF z, f, st, w
  <2>7. x = IF e = -1 THEN L!Substr(s, st, s.len - st) ELSE L!Substr(s, st, e - st)
    BY DEF st, L!Rest
  <2> HIDE DEF e, x
  <2>8. /\ TakesNext(w, delims, st, f)
        /\ f # -1 => f \in Nat /\ st + 1 <= f /\ f < Len(w) /\ f + 1 \in Begins(w, delims)
    <3>1. w \in Seq(Nat) /\ st \in Nat /\ st + 1 \in Begins(w, delims)
      BY <1>1, <2>1
    <3> QED
      BY <2>3, <2>5, <2>6, <3>1, NextBegins
  <2>9. EndOf(w, delims, st + 1) = IF e = -1 THEN Len(w) ELSE e
    BY <1>1, <2>1, <2>3, ItemEnds
  <2>10. x = ItemAt(s, w, delims, st + 1)
    <3>1. (st + 1) - 1 = st
      BY <2>1
    <3> QED
      BY <1>1, <2>7, <2>9, <3>1 DEF ItemAt
  <2>11. x \in Views
    <3>1. CASE e = -1
      <4> DEFINE m == s.len
                 a == s.at
      <4>1. m \in Nat /\ a \in Nat /\ st < m
        BY <1>1, <2>1
      <4> HIDE DEF m, a
      <4>2. a + st \in Nat /\ m - st \in Nat
        BY <2>1, <4>1
      <4> QED
        BY <2>7, <3>1, <4>2, ViewIs DEF L!Substr, m, a
    <3>2. CASE e # -1
      <4> DEFINE a == s.at
      <4>1. a \in Nat
        BY <1>1
      <4> HIDE DEF a
      <4>2. a + st \in Nat /\ e - st \in Nat
        BY <2>1, <2>4, <3>2, <4>1
      <4> QED
        BY <2>7, <3>2, <4>2, ViewIs DEF L!Substr, a
    <3> QED
      BY <3>1, <3>2
  <2> DEFINE c == Append(b, st + 1)
             n == Len(b)
             items == Append(q.items, x)
  <2>12. Ascending(c, Taken(w, delims, f))
    <3>1. \A i \in Taken(w, delims, st) : i < st + 1
      <4>1. \A i \in Taken(w, delims, st) : i \in Nat /\ (st = -1 \/ i <= st)
        BY DEF Begins, Taken
      <4> QED
        BY <2>1, <4>1
    <3>2. st + 1 \in Nat
      BY <2>1
    <3> QED
      BY <2>1, <2>8, <3>1, <3>2, AscendingMore DEF TakesNext
  <2>13. b \in Seq(Nat) /\ n \in Nat /\ st + 1 \in Nat
    BY <2>1 DEF Ascending
  <2>14. /\ Len(c) = n + 1 /\ c[n + 1] = st + 1 /\ (\A i \in 1 .. n : c[i] = b[i])
         /\ items \in Seq(Views) /\ Len(items) = n + 1 /\ items[n + 1] = x
         /\ \A i \in 1 .. n : items[i] = q.items[i]
    BY <2>1, <2>11, <2>13
  <2> HIDE DEF c, items, n
  <2>15. \A i \in 1 .. n + 1 : items[i] = ItemAt(s, w, delims, c[i])
    <3> SUFFICES ASSUME NEW i \in 1 .. n + 1 PROVE items[i] = ItemAt(s, w, delims, c[i])
      OBVIOUS
    <3>1. i \in 1 .. n \/ i = n + 1
      BY <2>13
    <3> QED
      BY <2>1, <2>10, <2>14, <3>1 DEF n
  <2>16. z.start = f /\ z.items = items /\ z = [start |-> z.start, items |-> z.items]
    BY <2>2 DEF items
  <2>17. f = -1 \/ f >= k + 1
    BY <2>1, <2>8
  <2>18. SplitBy(c, z, s, w, delims)
    BY <1>1, <2>8, <2>12, <2>14, <2>15, <2>16 DEF SplitBy
  <2> QED
    BY <2>16, <2>17, <2>18 DEF w, z
<1> QED
  BY <1>2, <1>3

(* After as many turns as there are bytes they are all taken.               *)
LEMMA AllAreSplit ==
  ASSUME NEW text \in Seq(Nat), NEW s, ViewIn(s, text), NEW delims
  PROVE  \E b : /\ Ascending(b, Begins(L!Read(text, s), delims))
                /\ L!Split(text, s, delims) \in Seq(Views) /\ Len(b) = Len(L!Split(text, s, delims))
                /\ \A k \in 1 .. Len(b) :
                     L!Split(text, s, delims)[k] = ItemAt(s, L!Read(text, s), delims, b[k])
<1> DEFINE w == L!Read(text, s)
           n == s.len
           r == [start |-> L!FindFirstNotOf(text, s, delims, 0), items |-> <<>>]
           f == CHOOSE g : g = [turns \in 0 .. s.len |->
                                  IF turns = 0
                                  THEN [start |-> L!FindFirstNotOf(text, s, delims, 0), items |-> <<>>]
                                  ELSE L!SplitNext(g[turns - 1], text, s, delims)]
           Sound(q, k) == \E b : SplitBy(b, q, s, w, delims) /\ (q.start = -1 \/ q.start >= k)
           Unsound == {k \in 0 .. n : ~Sound(f[k], k)}
<1>1. n \in Nat /\ w \in Seq(Nat)
  BY ReadIs
<1>2. AreSplitTurns(f, r, text, s, delims, n)
  <2>1. \E g : AreSplitTurns(g, r, text, s, delims, n)
    BY <1>1, SplitTurnsAreThere
  <2>2. \E g : g = [turns \in 0 .. s.len |->
                      IF turns = 0
                      THEN [start |-> L!FindFirstNotOf(text, s, delims, 0), items |-> <<>>]
                      ELSE L!SplitNext(g[turns - 1], text, s, delims)]
    BY <2>1 DEF AreSplitTurns
  <2>3. f = [turns \in 0 .. s.len |->
               IF turns = 0
               THEN [start |-> L!FindFirstNotOf(text, s, delims, 0), items |-> <<>>]
               ELSE L!SplitNext(f[turns - 1], text, s, delims)]
    BY <2>2, Zenon
  <2> HIDE DEF f
  <2> QED
    BY <2>3 DEF AreSplitTurns
<1>3. L!Split(text, s, delims) = f[n].items
  BY DEF L!Split
<1> HIDE DEF f, r, n
<1>4. f[0] = r /\ \A k \in 1 .. n : f[k] = L!SplitNext(f[k - 1], text, s, delims)
  <2>1. 0 \in 0 .. n /\ \A k \in 1 .. n : k \in 0 .. n /\ k # 0
    BY <1>1
  <2> QED
    BY <1>2, <2>1 DEF AreSplitTurns
<1>5. Sound(f[0], 0)
  <2>1. SplitBy(<<>>, r, s, w, delims)
    BY SplitStarts DEF r
  <2>2. r.start = -1 \/ r.start >= 0
    BY <2>1 DEF SplitBy
  <2> QED
    BY <1>4, <2>1, <2>2
<1>6. \A k \in 1 .. n : Sound(f[k - 1], k - 1) => Sound(f[k], k)
  <2> SUFFICES ASSUME NEW k \in 1 .. n, Sound(f[k - 1], k - 1) PROVE Sound(f[k], k)
    OBVIOUS
  <2> DEFINE q == f[k - 1]
             m == k - 1
  <2>1. m \in Nat /\ m + 1 = k
    BY <1>1
  <2>2. PICK b : SplitBy(b, q, s, w, delims) /\ (q.start = -1 \/ q.start >= m)
    OBVIOUS
  <2>3. f[k] = L!SplitNext(q, text, s, delims)
    BY <1>4
  <2> HIDE DEF q, m
  <2>4. \E c : LET z == L!SplitNext(q, text, s, delims)
               IN  SplitBy(c, z, s, L!Read(text, s), delims) /\ (z.start = -1 \/ z.start >= m + 1)
    BY <2>1, <2>2, SplitGoesOn
  <2> QED
    BY <2>1, <2>3, <2>4
<1> HIDE DEF Sound
<1>7. Unsound = {}
  <2> SUFFICES ASSUME Unsound # {} PROVE FALSE
    OBVIOUS
  <2>1. Unsound \in SUBSET Nat
    BY <1>1
  <2>2. PICK k \in Unsound : \A j \in Unsound : k <= j
    <3> HIDE DEF Unsound
    <3> QED
      BY <2>1, LeastIsThere
  <2>3. k # 0
    BY <1>5
  <2>4. k \in 1 .. n /\ k - 1 \in 0 .. n /\ ~(k <= k - 1)
    BY <1>1, <2>1, <2>3
  <2>5. Sound(f[k - 1], k - 1)
    BY <2>2, <2>4
  <2> QED
    BY <1>6, <2>4, <2>5
<1>8. Sound(f[n], n)
  <2>1. n \in 0 .. n
    BY <1>1
  <2> QED
    BY <1>7, <2>1
<1>9. PICK b : SplitBy(b, f[n], s, w, delims) /\ (f[n].start = -1 \/ f[n].start >= n)
  BY <1>8 DEF Sound
<1>10. f[n].start = -1
  <2> DEFINE st == f[n].start
  <2>1. st # -1 => st \in Nat /\ st < n
    BY <1>9 DEF SplitBy, n
  <2>2. st = -1 \/ st >= n
    BY <1>9
  <2> HIDE DEF st
  <2>3. st = -1
    BY <1>1, <2>1, <2>2
  <2> QED
    BY <2>3 DEF st
<1>11. Taken(w, delims, f[n].start) = Begins(w, delims)
  BY <1>10 DEF Taken
<1> HIDE DEF w
<1>12. Ascending(b, Begins(w, delims)) /\ f[n].items \in Seq(Views) /\ Len(b) = Len(f[n].items)
       /\ \A k \in 1 .. Len(b) : f[n].items[k] = ItemAt(s, w, delims, b[k])
  BY <1>9, <1>11 DEF SplitBy
<1> QED
  BY <1>3, <1>12 DEF w

(* The views in items, in the order of the text, are parts of s that are    *)
(* not empty, and they say what parts says.                                 *)
IsSplit(items, parts, text, s) ==
  /\ items \in Seq(Views) /\ Len(items) = Len(parts) /\ DOMAIN parts = 1 .. Len(items)
  /\ \A k \in 1 .. Len(items) :
       /\ ViewIn(items[k], text) /\ items[k].len > 0
       /\ s.at <= items[k].at /\ items[k].at + items[k].len <= s.at + s.len
       /\ L!Read(text, items[k]) = parts[k]
  /\ \A i, j \in 1 .. Len(items) : i < j => items[i].at + items[i].len <= items[j].at

LEMMA FieldsAre ==
  ASSUME NEW w \in Seq(Nat), NEW delims, NEW b, Ascending(b, Begins(w, delims))
  PROVE  L!Fields(w, delims) = [k \in 1 .. Len(b) |-> SubSeq(w, b[k], EndOf(w, delims, b[k]))]
<1> DEFINE begins == {i \in DOMAIN w : w[i] \notin delims /\ (i > 1 => w[i - 1] \in delims)}
           End(i) == L!Min({j \in i .. Len(w) : j = Len(w) \/ w[j + 1] \in delims})
<1>1. DOMAIN w = 1 .. Len(w)
  OBVIOUS
<1>2. begins = Begins(w, delims)
  BY <1>1 DEF Begins
<1>3. L!InOrder(begins) = b
  BY <1>2, InOrderIs
<1>4. L!Fields(w, delims) = [k \in DOMAIN L!InOrder(begins) |->
                               SubSeq(w, L!InOrder(begins)[k], End(L!InOrder(begins)[k]))]
  BY DEF L!Fields
<1>5. \A i : End(i) = EndOf(w, delims, i)
  BY LineMinIs DEF EndOf
<1>6. DOMAIN b = 1 .. Len(b)
  BY DEF Ascending
<1> HIDE DEF begins, End
<1> QED
  BY <1>3, <1>4, <1>5, <1>6

LEMMA SplitIs ==
  ASSUME NEW text \in Seq(Nat), NEW s, ViewIn(s, text), NEW delims
  PROVE  IsSplit(L!Split(text, s, delims), L!Fields(L!Read(text, s), delims), text, s)
<1> DEFINE w == L!Read(text, s)
           items == L!Split(text, s, delims)
           parts == L!Fields(w, delims)
<1>1. w \in Seq(Nat) /\ Len(w) = s.len /\ s.len \in Nat /\ s.at \in Nat
  BY ReadIs
<1>2. PICK b : /\ Ascending(b, Begins(w, delims))
               /\ items \in Seq(Views) /\ Len(b) = Len(items)
               /\ \A k \in 1 .. Len(b) : items[k] = ItemAt(s, w, delims, b[k])
  BY AllAreSplit
<1> HIDE DEF w, items
<1> DEFINE n == Len(b)
           e(k) == EndOf(w, delims, b[k])
<1>3. parts = [k \in 1 .. n |-> SubSeq(w, b[k], e(k))]
  BY <1>1, <1>2, FieldsAre
<1> HIDE DEF parts
<1>4. n \in Nat /\ DOMAIN parts = 1 .. n /\ Len(parts) = n /\ (\A k \in 1 .. n : parts[k] = SubSeq(w, b[k], e(k)))
  <2>1. n \in Nat
    BY <1>2 DEF Ascending
  <2> HIDE DEF n
  <2>2. DOMAIN parts = 1 .. n /\ (\A k \in 1 .. n : parts[k] = SubSeq(w, b[k], e(k)))
        /\ parts = [k \in 1 .. n |-> parts[k]]
    BY <1>3
  <2> DEFINE X == {parts[k] : k \in 1 .. n}
  <2>3. parts \in [1 .. n -> X]
    BY <2>2
  <2> HIDE DEF X, e
  <2>4. parts \in Seq(X)
    BY <2>1, <2>3
  <2>5. Len(parts) = n
    BY <2>1, <2>2, <2>4
  <2> QED
    BY <2>1, <2>2, <2>5
<1>5. ASSUME NEW k \in 1 .. n
      PROVE  /\ b[k] \in 1 .. s.len /\ w[b[k]] \notin delims /\ (b[k] > 1 => w[b[k] - 1] \in delims)
             /\ e(k) \in b[k] .. s.len
             /\ \A j \in b[k] .. e(k) - 1 : w[j + 1] \notin delims
  <2>1. b[k] \in Begins(w, delims)
    BY <1>2 DEF Ascending
  <2>2. b[k] \in 1 .. Len(w) /\ w[b[k]] \notin delims /\ (b[k] > 1 => w[b[k] - 1] \in delims)
    BY <2>1 DEF Begins
  <2> DEFINE i == b[k]
  <2>3. i \in 1 .. Len(w)
    BY <2>2
  <2> HIDE DEF i
  <2>4. EndOf(w, delims, i) \in i .. Len(w) /\ \A j \in i .. EndOf(w, delims, i) - 1 : w[j + 1] \notin delims
    BY <1>1, <2>3, EndIsThere
  <2> QED
    BY <1>1, <2>2, <2>4 DEF i
<1> HIDE DEF n
<1>6. ASSUME NEW k \in 1 .. n
      PROVE  /\ ViewIn(items[k], text) /\ items[k].len > 0
             /\ items[k].at = s.at + (b[k] - 1) /\ items[k].at + items[k].len = s.at + e(k)
             /\ s.at <= items[k].at /\ s.at + e(k) <= s.at + s.len
             /\ L!Read(text, items[k]) = parts[k]
  <2> DEFINE a == b[k] - 1
             l == e(k) - (b[k] - 1)
             x == b[k]
             y == e(k)
  <2>1. x \in 1 .. s.len /\ y \in x .. s.len
    BY <1>5
  <2>2. items[k] = L!Substr(s, a, l)
    BY <1>2 DEF ItemAt, n
  <2>3. parts[k] = SubSeq(w, x, y)
    BY <1>4
  <2>4. a = x - 1 /\ l = y - (x - 1)
    OBVIOUS
  <2> HIDE DEF a, l, x, y, e
  <2> DEFINE m == s.len
             t == s.at
  <2>5. m \in Nat /\ t \in Nat /\ x \in 1 .. m /\ y \in x .. m
    BY <1>1, <2>1
  <2> HIDE DEF m, t
  <2>6. /\ a \in Nat /\ l \in Nat /\ a + l <= m /\ a + 1 = x /\ a + l = y /\ l > 0
        /\ (t + a) + l = t + y /\ t <= t + a /\ t + y <= t + m
    BY <2>4, <2>5
  <2>7. /\ ViewIn(items[k], text) /\ items[k].at = s.at + a /\ items[k].len = l
        /\ L!Read(text, items[k]) = SubSeq(w, a + 1, a + l)
    <3>1. a + l <= s.len
      BY <2>6 DEF m
    <3>2. ViewIn(L!Substr(s, a, l), text)
          /\ L!Substr(s, a, l).at = s.at + a /\ L!Substr(s, a, l).len = l
          /\ L!Read(text, L!Substr(s, a, l)) = SubSeq(L!Read(text, s), a + 1, a + l)
      BY <2>6, <3>1, SubstrIs
    <3> QED
      BY <2>2, <3>2 DEF w
  <2>8. s.at = t /\ s.len = m
    BY DEF t, m
  <2>9. items[k].at = s.at + (b[k] - 1) /\ s.at + e(k) = t + y
    BY <2>7, <2>8 DEF a, y
  <2> QED
    BY <2>3, <2>6, <2>7, <2>8, <2>9
<1>7. ASSUME NEW i \in 1 .. n, NEW j \in 1 .. n, i < j
      PROVE  items[i].at + items[i].len <= items[j].at
  <2> DEFINE x == b[i]
             y == b[j]
             z == e(i)
             t == s.at
  <2>1. /\ x \in Nat /\ y \in Nat /\ z \in Nat /\ x >= 1 /\ x <= z /\ w[x] \notin delims /\ (y > 1 => w[y - 1] \in delims)
        /\ \A k \in x .. z - 1 : w[k + 1] \notin delims
    BY <1>1, <1>5, SMTT(30)
  <2>2. x < y
    BY <1>2, <1>7 DEF Ascending, n
  <2>3. items[i].at + items[i].len = t + z /\ items[j].at = t + (y - 1) /\ t \in Nat
    BY <1>1, <1>6
  <2> HIDE DEF x, y, z, t
  <2>4. z <= y - 1
    <3> SUFFICES ASSUME ~(z <= y - 1) PROVE FALSE
      OBVIOUS
    <3>1. w[y - 1] \in delims
      BY <2>1, <2>2
    <3>2. CASE y - 1 = x
      BY <2>1, <3>1, <3>2
    <3>3. CASE y - 1 # x
      <4>1. y - 2 \in x .. z - 1 /\ (y - 2) + 1 = y - 1
        BY <2>1, <2>2, <3>3
      <4> QED
        BY <2>1, <3>1, <4>1
    <3> QED
      BY <3>2, <3>3
  <2>5. t + z <= t + (y - 1)
    BY <2>1, <2>3, <2>4
  <2> QED
    BY <2>3, <2>5
<1>8. Len(items) = n
  BY <1>2 DEF n
<1> HIDE DEF e
<1>9. \A k \in 1 .. n :
        /\ ViewIn(items[k], text) /\ items[k].len > 0
        /\ s.at <= items[k].at /\ items[k].at + items[k].len <= s.at + s.len
        /\ L!Read(text, items[k]) = parts[k]
  BY <1>6
<1>10. IsSplit(items, parts, text, s)
  BY <1>2, <1>4, <1>7, <1>8, <1>9 DEF IsSplit
<1> QED
  BY <1>10 DEF items, parts, w

-----------------------------------------------------------------------------
(* decode_i()                                                               *)

(* What the loop has after the first n turns.                               *)
AreDecodeTurns(f, r, s, n) ==
  f = [turns \in 0 .. n |-> IF turns = 0 THEN r ELSE L!DecodeNext(f[turns - 1], s)]

LEMMA DecodeTurnsLonger ==
  ASSUME NEW r, NEW s, NEW n \in Nat, NEW f, AreDecodeTurns(f, r, s, n)
  PROVE  \E g : AreDecodeTurns(g, r, s, n + 1)
<1> DEFINE g == [i \in 0 .. n + 1 |->
                   IF i = n + 1 THEN L!DecodeNext(f[n], s) ELSE f[i]]
<1>1. ASSUME NEW i \in 0 .. n + 1
      PROVE  g[i] = IF i = 0 THEN r ELSE L!DecodeNext(g[i - 1], s)
  <2>1. CASE i = 0
    <3>1. i \in 0 .. n /\ i # n + 1
      BY <2>1
    <3>2. f[0] = r
      BY <2>1, <3>1 DEF AreDecodeTurns
    <3> QED
      BY <2>1, <3>1, <3>2
  <2>2. CASE i # 0
    <3>1. i - 1 \in 0 .. n /\ i - 1 \in 0 .. n + 1 /\ i - 1 # n + 1
      BY <2>2
    <3>2. g[i - 1] = f[i - 1]
      BY <3>1
    <3>3. CASE i = n + 1
      <4>1. i - 1 = n /\ g[i] = L!DecodeNext(f[n], s)
        BY <3>3
      <4> HIDE DEF g
      <4> QED
        BY <2>2, <3>2, <4>1, Zenon
    <3>4. CASE i # n + 1
      <4>1. i \in 0 .. n /\ g[i] = f[i]
        BY <3>4
      <4>2. f[i] = L!DecodeNext(f[i - 1], s)
        BY <2>2, <4>1 DEF AreDecodeTurns
      <4> HIDE DEF g
      <4> QED
        BY <2>2, <3>2, <4>1, <4>2, Zenon
    <3> QED
      BY <3>3, <3>4
  <2> QED
    BY <2>1, <2>2
<1>2. g = [i \in 0 .. n + 1 |-> g[i]]
  OBVIOUS
<1>3. AreDecodeTurns(g, r, s, n + 1)
  <2> HIDE DEF g
  <2> QED
    BY <1>1, <1>2 DEF AreDecodeTurns
<1> QED
  BY <1>3

LEMMA DecodeTurnsAreThere ==
  ASSUME NEW r, NEW s, NEW n \in Nat
  PROVE  \E f : AreDecodeTurns(f, r, s, n)
<1> DEFINE Without == {k \in Nat : ~\E f : AreDecodeTurns(f, r, s, k)}
<1>1. SUFFICES ASSUME Without # {} PROVE FALSE
  OBVIOUS
<1>2. PICK m \in Without : \A k \in Without : m <= k
  BY <1>1, LeastIsThere
<1>3. CASE m = 0
  <2> DEFINE f == [i \in 0 .. 0 |-> r]
  <2>1. \A i \in 0 .. 0 : i = 0
    OBVIOUS
  <2>2. AreDecodeTurns(f, r, s, 0)
    BY <2>1 DEF AreDecodeTurns
  <2> QED
    BY <1>3, <2>2
<1>4. CASE m # 0
  <2>1. m \in Nat /\ m - 1 \in Nat /\ m - 1 \notin Without /\ (m - 1) + 1 = m
    BY <1>2, <1>4
  <2>2. PICK f : AreDecodeTurns(f, r, s, m - 1)
    BY <2>1
  <2>3. \E g : AreDecodeTurns(g, r, s, (m - 1) + 1)
    BY <2>1, <2>2, DecodeTurnsLonger
  <2> QED
    BY <2>1, <2>3
<1> QED
  BY <1>3, <1>4

LEMMA HexIs ==
  ASSUME NEW ch \in L!HexDigits
  PROVE  ch # L!Percent /\ L!HexValue(ch) \in Nat
<1>1. ch \in 48 .. 57 \/ ch \in 65 .. 70 \/ ch \in 97 .. 102
  BY DEF L!HexDigits, L!Digits, L!Upper, L!Lower
<1>2. ch # 37
  BY <1>1
<1>3. ch \in 48 .. 57 => ch - 48 \in Nat
  OBVIOUS
<1>4. ch \in 65 .. 70 => ch - 55 \in Nat
  OBVIOUS
<1>5. ch \in 97 .. 102 => ch - 87 \in Nat
  OBVIOUS
<1> QED
  BY <1>1, <1>2, <1>3, <1>4, <1>5 DEF L!Percent, L!HexValue, L!Digits, L!Upper

(* Where the bytes of w are that are not the digits of an escape, and what  *)
(* they stand for.                                                          *)
Owns(w) ==
  {i \in 1 .. Len(w) : ~\E k \in {i - 1, i - 2} : k > 0 /\ w[k] = L!Percent}
ByteAt(w, i) ==
  IF w[i] # L!Percent THEN w[i] ELSE 16 * L!HexValue(w[i + 1]) + L!HexValue(w[i + 2])

(* The escapes that begin in the first n bytes of w are complete and end    *)
(* there.                                                                   *)
EscapedUpto(w, n) ==
  \A i \in 1 .. n : w[i] = L!Percent =>
    i + 2 <= n /\ w[i + 1] \in L!HexDigits /\ w[i + 2] \in L!HexDigits

OwnsUpto(w, n) == {i \in Owns(w) : i <= n}

(* One more byte that is not in an escape.                                  *)
LEMMA ByteIsOwn ==
  ASSUME NEW w \in Seq(Nat), NEW n \in Nat, n < Len(w), EscapedUpto(w, n), w[n + 1] # L!Percent
  PROVE  /\ EscapedUpto(w, n + 1)
         /\ OwnsUpto(w, n + 1) = OwnsUpto(w, n) \cup {n + 1}
<1>1. Len(w) \in Nat
  OBVIOUS
<1>2. EscapedUpto(w, n + 1)
  <2> SUFFICES ASSUME NEW i \in 1 .. n + 1, w[i] = L!Percent
               PROVE  i + 2 <= n + 1 /\ w[i + 1] \in L!HexDigits /\ w[i + 2] \in L!HexDigits
    BY DEF EscapedUpto
  <2>1. i \in 1 .. n
    <3>1. i # n + 1
      OBVIOUS
    <3> QED
      BY <3>1
  <2>2. i + 2 <= n /\ w[i + 1] \in L!HexDigits /\ w[i + 2] \in L!HexDigits
    BY <2>1 DEF EscapedUpto
  <2> QED
    BY <2>1, <2>2
<1>3. n + 1 \in Owns(w)
  <2> SUFFICES ASSUME NEW k \in {(n + 1) - 1, (n + 1) - 2}, k > 0, w[k] = L!Percent PROVE FALSE
    BY <1>1 DEF Owns
  <2>1. k \in 1 .. n /\ ~(k + 2 <= n)
    OBVIOUS
  <2> QED
    BY <2>1 DEF EscapedUpto
<1>4. \A i \in Owns(w) : i <= n + 1 <=> (i <= n \/ i = n + 1)
  BY <1>1 DEF Owns
<1> QED
  BY <1>2, <1>3, <1>4 DEF OwnsUpto

(* One more escape.                                                         *)
LEMMA EscapeIsOwn ==
  ASSUME NEW w \in Seq(Nat), NEW n \in Nat, n + 3 <= Len(w), EscapedUpto(w, n), w[n + 1] = L!Percent,
         w[n + 2] \in L!HexDigits, w[n + 3] \in L!HexDigits
  PROVE  /\ EscapedUpto(w, n + 3)
         /\ OwnsUpto(w, n + 3) = OwnsUpto(w, n) \cup {n + 1}
<1>1. Len(w) \in Nat
  OBVIOUS
<1>2. w[n + 2] # L!Percent /\ w[n + 3] # L!Percent
  BY HexIs
<1>3. EscapedUpto(w, n + 3)
  <2> SUFFICES ASSUME NEW i \in 1 .. n + 3, w[i] = L!Percent
               PROVE  i + 2 <= n + 3 /\ w[i + 1] \in L!HexDigits /\ w[i + 2] \in L!HexDigits
    BY DEF EscapedUpto
  <2>1. i \in 1 .. n \/ i = n + 1
    <3>1. i # n + 2 /\ i # n + 3
      BY <1>2
    <3> QED
      BY <3>1
  <2>2. CASE i \in 1 .. n
    <3>1. i + 2 <= n /\ w[i + 1] \in L!HexDigits /\ w[i + 2] \in L!HexDigits
      BY <2>2 DEF EscapedUpto
    <3> QED
      BY <2>2, <3>1
  <2>3. CASE i = n + 1
    <3>1. (n + 1) + 1 = n + 2 /\ (n + 1) + 2 = n + 3
      OBVIOUS
    <3> QED
      BY <2>3, <3>1
  <2> QED
    BY <2>1, <2>2, <2>3
<1>4. n + 1 \in Owns(w)
  <2> SUFFICES ASSUME NEW k \in {(n + 1) - 1, (n + 1) - 2}, k > 0, w[k] = L!Percent PROVE FALSE
    BY <1>1 DEF Owns
  <2>1. k \in 1 .. n /\ ~(k + 2 <= n)
    OBVIOUS
  <2> QED
    BY <2>1 DEF EscapedUpto
<1>5. n + 2 \notin Owns(w) /\ n + 3 \notin Owns(w)
  <2>1. n + 1 \in {(n + 2) - 1, (n + 2) - 2} /\ n + 1 \in {(n + 3) - 1, (n + 3) - 2} /\ n + 1 > 0
    OBVIOUS
  <2> QED
    BY <2>1 DEF Owns
<1>6. \A i \in Owns(w) : i <= n + 3 <=> (i <= n \/ i = n + 1 \/ i = n + 2 \/ i = n + 3)
  BY <1>1 DEF Owns
<1>7. n + 1 <= n + 3 /\ \A i \in Owns(w) : i <= n + 3 <=> (i <= n \/ i = n + 1)
  BY <1>5, <1>6
<1> QED
  BY <1>3, <1>4, <1>7 DEF OwnsUpto

LEMMA OwnByteIs ==
  ASSUME NEW w \in Seq(Nat), NEW i \in 1 .. Len(w),
         w[i] = L!Percent => w[i + 1] \in L!HexDigits /\ w[i + 2] \in L!HexDigits
  PROVE  ByteAt(w, i) \in Nat
<1>1. w[i] \in Nat
  BY ElementOfSeq
<1>2. CASE w[i] # L!Percent
  BY <1>1, <1>2 DEF ByteAt
<1>3. CASE w[i] = L!Percent
  <2>1. L!HexValue(w[i + 1]) \in Nat /\ L!HexValue(w[i + 2]) \in Nat
    BY <1>3, HexIs
  <2>2. \A a, b \in Nat : 16 * a + b \in Nat
    OBVIOUS
  <2> QED
    BY <1>3, <2>1, <2>2 DEF ByteAt
<1> QED
  BY <1>2, <1>3

(* Two texts that differ within the first n bytes of a view at most.        *)
SameBut(u, text, at, n) ==
  /\ u \in Seq(Nat) /\ Len(u) = Len(text)
  /\ \A j \in 1 .. Len(text) : j <= at \/ j > at + n => u[j] = text[j]

(* The loop has read q.i bytes of w, b says where those are that stand for  *)
(* the q.len bytes it has written.                                          *)
DecodedBy(b, q, text, s, w) ==
  /\ q = [ok |-> q.ok, text |-> q.text, i |-> q.i, len |-> q.len]
  /\ q.ok \in BOOLEAN /\ q.i \in Nat /\ q.i <= s.len /\ q.len \in Nat /\ q.len <= q.i
  /\ SameBut(q.text, text, s.at, q.len)
  /\ Ascending(b, OwnsUpto(w, q.i)) /\ Len(b) = q.len
  /\ \A k \in 1 .. q.len : q.text[s.at + k] = ByteAt(w, b[k])
  /\ EscapedUpto(w, q.i)
  /\ ~q.ok => ~L!WellEscaped(w)

(* From n bytes read to y bytes read: one byte of its own, or an escape.     *)
OwnsNext(w, n, y) ==
  EscapedUpto(w, y) /\ OwnsUpto(w, y) = OwnsUpto(w, n) \cup {n + 1}

(* A byte is written.                                                       *)
IsWritten(z, q, s, byte, y) ==
  z = [q EXCEPT !.text[s.at + q.len + 1] = byte, !.i = y, !.len = @ + 1]

LEMMA ByteWritten ==
  ASSUME NEW text \in Seq(Nat), NEW s, ViewIn(s, text), NEW q, NEW b,
         DecodedBy(b, q, text, s, L!Read(text, s)), q.ok, q.i < s.len,
         NEW y \in Nat, q.i < y, y <= s.len,
         OwnsNext(L!Read(text, s), q.i, y),
         NEW byte \in Nat, byte = ByteAt(L!Read(text, s), q.i + 1),
         NEW z, IsWritten(z, q, s, byte, y)
  PROVE  DecodedBy(Append(b, q.i + 1), z, text, s, L!Read(text, s)) /\ z.i = y
<1> DEFINE w == L!Read(text, s)
           c == Append(b, q.i + 1)
           at == s.at
           n == q.len
           i == q.i
           m == s.len
           u == [q.text EXCEPT ![s.at + q.len + 1] = byte]
<1>1. /\ m \in Nat /\ at \in Nat /\ at + m <= Len(text) /\ Len(text) \in Nat
  BY ReadIs DEF ViewIn
<1>2. /\ q = [ok |-> q.ok, text |-> q.text, i |-> i, len |-> n]
      /\ i \in Nat /\ i < m /\ n \in Nat /\ n <= i
      /\ SameBut(q.text, text, at, n) /\ Ascending(b, OwnsUpto(w, i)) /\ Len(b) = n
      /\ \A k \in 1 .. n : q.text[at + k] = ByteAt(w, b[k])
  BY DEF DecodedBy
<1>3. z = [ok |-> q.ok, text |-> u, i |-> y, len |-> n + 1]
  BY <1>2 DEF IsWritten
<1> DEFINE l == n + 1
<1> HIDE DEF w, c, at, n, i, m, u, l
<1>4. z.ok = q.ok /\ z.text = u /\ z.i = y /\ z.len = n + 1
      /\ z = [ok |-> z.ok, text |-> z.text, i |-> z.i, len |-> z.len]
  <2>1. z.ok = q.ok /\ z.text = u /\ z.i = y /\ z.len = l
    BY <1>3 DEF l
  <2>2. z = [ok |-> z.ok, text |-> z.text, i |-> z.i, len |-> z.len]
    BY <1>3, <2>1
  <2> QED
    BY <2>1, <2>2 DEF l
<1>5. at + n + 1 \in 1 .. Len(text) /\ at + (n + 1) = at + n + 1 /\ n + 1 <= y /\ n + 1 \in Nat /\ y \in Nat
  <2>1. i < y
    BY DEF i
  <2>2. m \in Nat /\ at \in Nat /\ at + m <= Len(text) /\ Len(text) \in Nat /\ i \in Nat /\ i < m /\ n \in Nat /\ n <= i
    BY <1>1, <1>2
  <2> QED
    BY <2>1, <2>2
<1>6. /\ u \in Seq(Nat) /\ Len(u) = Len(text) /\ u[at + n + 1] = byte
      /\ \A j \in 1 .. Len(text) : j # at + n + 1 => u[j] = q.text[j]
  <2>1. q.text \in Seq(Nat) /\ Len(q.text) = Len(text)
    BY <1>2 DEF SameBut
  <2>2. u = [q.text EXCEPT ![at + n + 1] = byte]
    BY DEF u, at, n
  <2> QED
    BY <1>5, <2>1, <2>2, ExceptSeq, SMTT(30)
<1>7. SameBut(u, text, at, n + 1)
  <2> SUFFICES ASSUME NEW j \in 1 .. Len(text), j <= at \/ j > at + (n + 1) PROVE u[j] = text[j]
    BY <1>6 DEF SameBut
  <2>1. j # at + n + 1 /\ (j <= at \/ j > at + n)
    <3>1. at \in Nat /\ n \in Nat
      BY <1>1, <1>2
    <3>2. Len(text) \in Nat
      OBVIOUS
    <3> QED
      BY <3>1, <3>2
  <2> QED
    BY <1>2, <1>6, <2>1 DEF SameBut
<1>8. Ascending(c, OwnsUpto(w, y))
  <2>1. OwnsUpto(w, y) = OwnsUpto(w, i) \cup {i + 1}
    BY DEF w, i, OwnsNext
  <2>2. \A x \in OwnsUpto(w, i) : x < i + 1
    <3>1. \A x \in OwnsUpto(w, i) : x \in Nat /\ x <= i
      BY DEF OwnsUpto, Owns
    <3> QED
      BY <1>2, <3>1
  <2>3. i + 1 \in Nat
    BY <1>2
  <2>4. c = Append(b, i + 1)
    BY DEF c, i
  <2> QED
    BY <1>2, <2>1, <2>2, <2>3, <2>4, AscendingMore
<1>9. /\ Len(c) = n + 1 /\ c[n + 1] = i + 1 /\ \A k \in 1 .. n : c[k] = b[k]
  <2>1. b \in Seq(Nat) /\ c = Append(b, i + 1) /\ i + 1 \in Nat
    BY <1>2 DEF Ascending, c, i
  <2> QED
    BY <1>2, <2>1
<1>10. ASSUME NEW k \in 1 .. n + 1 PROVE u[at + k] = ByteAt(w, c[k])
  <2>1. k \in 1 .. n \/ k = n + 1
    BY <1>2
  <2>2. CASE k = n + 1
    BY <1>5, <1>6, <1>9, <2>2 DEF w, i
  <2>3. CASE k \in 1 .. n
    <3>1. at + k \in 1 .. Len(text) /\ at + k # at + n + 1
      <4>1. k \in Nat /\ k >= 1 /\ k <= n /\ n \in Nat /\ at \in Nat /\ Len(text) \in Nat /\ at + n + 1 <= Len(text)
        BY <1>1, <1>2, <1>5, <2>3
      <4> DEFINE g == Len(text)
      <4>2. g \in Nat /\ at + n + 1 <= g
        BY <4>1
      <4> HIDE DEF g
      <4>3. at + k \in 1 .. g /\ at + k # at + n + 1
        BY <4>1, <4>2
      <4> QED
        BY <4>3 DEF g
    <3> QED
      BY <1>2, <1>6, <1>9, <2>3, <3>1
  <2> QED
    BY <2>1, <2>2, <2>3
<1>11. EscapedUpto(w, y) /\ y <= s.len /\ q.ok \in BOOLEAN /\ q.ok
  BY DEF w, DecodedBy, OwnsNext
<1>12. DecodedBy(c, z, text, s, w)
  BY <1>4, <1>5, <1>7, <1>8, <1>9, <1>10, <1>11 DEF DecodedBy, at
<1> QED
  BY <1>4, <1>12 DEF c, w, i

LEMMA DecodeStarts ==
  ASSUME NEW text \in Seq(Nat), NEW s, ViewIn(s, text)
  PROVE  DecodedBy(<<>>, [ok |-> TRUE, text |-> text, i |-> 0, len |-> 0], text, s, L!Read(text, s))
<1> DEFINE q == [ok |-> TRUE, text |-> text, i |-> 0, len |-> 0]
           w == L!Read(text, s)
<1>1. q.ok = TRUE /\ q.text = text /\ q.i = 0 /\ q.len = 0 /\ s.len \in Nat /\ s.at \in Nat
  BY ReadIs
<1>2. q = [ok |-> q.ok, text |-> q.text, i |-> q.i, len |-> q.len]
  OBVIOUS
<1> HIDE DEF q, w
<1>3. SameBut(text, text, s.at, 0)
  BY DEF SameBut
<1>4. OwnsUpto(w, 0) = {}
  BY DEF OwnsUpto, Owns
<1>5. Ascending(<<>>, {}) /\ Len(<<>>) = 0
  BY DEF Ascending
<1>6. EscapedUpto(w, 0)
  BY DEF EscapedUpto
<1>7. \A k \in 1 .. 0 : text[s.at + k] = ByteAt(w, <<>>[k])
  OBVIOUS
<1>8. 0 <= s.len
  BY <1>1
<1>9. DecodedBy(<<>>, q, text, s, w)
  <2>1. q.ok \in BOOLEAN /\ ~(~q.ok)
    BY <1>1
  <2>2. Ascending(<<>>, OwnsUpto(w, q.i)) /\ EscapedUpto(w, q.i) /\ SameBut(q.text, text, s.at, q.len)
    BY <1>1, <1>3, <1>4, <1>5, <1>6
  <2>3. q.i \in Nat /\ q.i <= s.len /\ q.len \in Nat /\ q.len <= q.i /\ Len(<<>>) = q.len
    BY <1>1, <1>5, <1>8
  <2>4. \A k \in 1 .. q.len : q.text[s.at + k] = ByteAt(w, <<>>[k])
    BY <1>1, <1>7
  <2> QED
    BY <1>2, <2>1, <2>2, <2>3, <2>4 DEF DecodedBy
<1> QED
  BY <1>9 DEF q, w

(* A turn of the loop.                                                      *)
LEMMA DecodeGoesOn ==
  ASSUME NEW text \in Seq(Nat), NEW s, ViewIn(s, text), NEW q, NEW b,
         DecodedBy(b, q, text, s, L!Read(text, s)), NEW k \in Nat, ~q.ok \/ q.i >= s.len \/ q.i >= k
  PROVE  \E c : LET z == L!DecodeNext(q, s)
                IN  /\ DecodedBy(c, z, text, s, L!Read(text, s))
                    /\ ~z.ok \/ z.i >= s.len \/ z.i >= k + 1
<1> DEFINE w == L!Read(text, s)
           z == L!DecodeNext(q, s)
           i == q.i
           at == s.at
           ch == L!At(q.text, s, q.i)
           first == L!At(q.text, s, q.i + 1)
           second == L!At(q.text, s, q.i + 2)
           m == s.len
<1>1. /\ w \in Seq(Nat) /\ Len(w) = m /\ m \in Nat /\ at \in Nat /\ at + m <= Len(text) /\ Len(text) \in Nat
      /\ \A j \in 1 .. m : w[j] = text[at + j] /\ w[j] \in Nat
  BY ReadIs, ElementOfSeq DEF ViewIn
<1>2. /\ ~q.ok \/ i >= m => z = q
      /\ q.ok /\ ~(i >= m) =>
           /\ ch # L!Percent => IsWritten(z, q, s, ch, i + 1)
           /\ ch = L!Percent =>
                IF i + 2 >= m \/ {first, second} \ L!HexDigits # {}
                THEN z = [q EXCEPT !.ok = FALSE]
                ELSE IsWritten(z, q, s, 16 * L!HexValue(first) + L!HexValue(second), i + 3)
  BY DEF L!DecodeNext, L!AfterEscape, IsWritten
<1> HIDE DEF z, i, m, at
<1>9. q.i = i /\ s.len = m /\ s.at = at
  BY DEF i, m, at
<1>3. CASE ~q.ok \/ i >= m
  <2>1. z = q
    BY <1>2, <1>3
  <2> QED
    BY <1>3, <1>9, <2>1 DEF z
<1>4. CASE q.ok /\ ~(i >= m)
  <2>1. /\ i \in Nat /\ q.len \in Nat /\ q.len <= i /\ i < m /\ i >= k /\ EscapedUpto(w, i)
        /\ q = [ok |-> q.ok, text |-> q.text, i |-> i, len |-> q.len]
        /\ SameBut(q.text, text, at, q.len)
    BY <1>1, <1>4, <1>9 DEF DecodedBy
  <2>10. i \in Nat /\ m \in Nat /\ i < m /\ i >= k
    BY <1>1, <2>1
  <2>2. ASSUME NEW j \in Nat, i + j < m
        PROVE  L!At(q.text, s, i + j) = w[i + j + 1]
    <3> DEFINE n == q.len
    <3>1. n \in Nat /\ m \in Nat /\ i \in Nat /\ n <= i /\ i + j < m /\ at \in Nat /\ at + m <= Len(text) /\ Len(text) \in Nat
      BY <1>1, <2>1, <2>2
    <3>2. L!At(q.text, s, i + j) = q.text[at + (i + j) + 1]
      BY DEF L!At, at
    <3> HIDE DEF n
    <3>3. /\ at + (i + j) + 1 \in 1 .. Len(text) /\ at + (i + j) + 1 > at + n
          /\ at + (i + j) + 1 = at + (i + j + 1) /\ i + j + 1 \in 1 .. m
      BY <3>1
    <3>4. q.text[at + (i + j) + 1] = text[at + (i + j) + 1]
      BY <2>1, <3>3 DEF SameBut, n
    <3>5. w[i + j + 1] = text[at + (i + j + 1)]
      BY <1>1, <3>3
    <3> QED
      BY <3>2, <3>3, <3>4, <3>5
  <2>3. ch = w[i + 1]
    <3>1. 0 \in Nat /\ i + 0 < m /\ i + 0 = i /\ i + 0 + 1 = i + 1
      BY <2>1
    <3>2. L!At(q.text, s, i + 0) = w[i + 0 + 1]
      BY <2>2, <3>1
    <3> QED
      BY <1>9, <3>1, <3>2
  <2>4. i + 2 < m => first = w[i + 2] /\ second = w[i + 3]
    <3> SUFFICES ASSUME i + 2 < m PROVE first = w[i + 2] /\ second = w[i + 3]
      OBVIOUS
    <3>1. 1 \in Nat /\ 2 \in Nat /\ i + 1 < m /\ i + 1 + 1 = i + 2 /\ i + 2 + 1 = i + 3
      BY <2>10
    <3>2. L!At(q.text, s, i + 1) = w[i + 1 + 1]
      BY <2>2, <3>1
    <3>3. L!At(q.text, s, i + 2) = w[i + 2 + 1]
      BY <2>2, <3>1
    <3> QED
      BY <1>9, <3>1, <3>2, <3>3
  <2> HIDE DEF ch, first, second
  <2>5. i + 1 \in 1 .. Len(w) /\ i < Len(w) /\ i + 1 <= m /\ i < i + 1 /\ i + 1 \in Nat /\ i + 1 >= k + 1
    <3>1. i + 1 \in 1 .. m /\ i + 1 <= m /\ i < i + 1 /\ i + 1 \in Nat /\ i + 1 >= k + 1
      BY <2>10
    <3> QED
      BY <1>1, <2>10, <3>1
  <2>6. CASE ch # L!Percent
    <3>1. EscapedUpto(w, i + 1) /\ OwnsUpto(w, i + 1) = OwnsUpto(w, i) \cup {i + 1}
      BY <1>1, <2>1, <2>3, <2>5, <2>6, ByteIsOwn
    <3>2. ch \in Nat /\ ch = ByteAt(w, i + 1)
      BY <1>1, <2>3, <2>5, <2>6 DEF ByteAt
    <3>3. IsWritten(z, q, s, ch, i + 1)
      BY <1>2, <1>4, <2>6
    <3> DEFINE y == i + 1
    <3>4. y \in Nat /\ i < y /\ y <= m
      BY <2>5
    <3>5. OwnsNext(w, i, y) /\ IsWritten(z, q, s, ch, y)
      BY <3>1, <3>3 DEF OwnsNext
    <3> HIDE DEF y
    <3>6. DecodedBy(Append(b, i + 1), z, text, s, w) /\ z.i = y
      BY <1>4, <1>9, <2>1, <3>2, <3>4, <3>5, ByteWritten
    <3>7. z.i >= k + 1
      BY <2>5, <3>6 DEF y
    <3> QED
      BY <3>6, <3>7 DEF z
  <2>7. CASE ch = L!Percent /\ (i + 2 >= m \/ {first, second} \ L!HexDigits # {})
    <3>1. z = [q EXCEPT !.ok = FALSE]
      BY <1>2, <1>4, <2>7
    <3>2. q = [ok |-> q.ok, text |-> q.text, i |-> q.i, len |-> q.len]
      BY DEF DecodedBy
    <3>3. z.ok = FALSE /\ z.text = q.text /\ z.i = q.i /\ z.len = q.len
          /\ z = [ok |-> z.ok, text |-> z.text, i |-> z.i, len |-> z.len]
      BY <3>1, <3>2
    <3>4. ~L!WellEscaped(w)
      <4> SUFFICES ASSUME L!WellEscaped(w) PROVE FALSE
        OBVIOUS
      <4>1. i + 1 \in DOMAIN w /\ w[i + 1] = L!Percent
        BY <1>1, <2>3, <2>5, <2>7
      <4>2. (i + 1) + 2 <= Len(w) /\ {w[(i + 1) + 1], w[(i + 1) + 2]} \subseteq L!HexDigits
        BY <4>1 DEF L!WellEscaped
      <4>3. i + 2 < m /\ ~(i + 2 >= m) /\ (i + 1) + 1 = i + 2 /\ (i + 1) + 2 = i + 3
        <5>1. (i + 1) + 2 <= m
          BY <1>1, <4>2
        <5> QED
          BY <2>10, <5>1
      <4>4. first \in L!HexDigits /\ second \in L!HexDigits
        BY <2>4, <4>2, <4>3
      <4> QED
        BY <2>7, <4>3, <4>4
    <3>5. DecodedBy(b, z, text, s, w)
      BY <3>3, <3>4 DEF DecodedBy
    <3> QED
      BY <3>3, <3>5 DEF z
  <2>8. CASE ch = L!Percent /\ ~(i + 2 >= m \/ {first, second} \ L!HexDigits # {})
    <3>1. i + 2 < m /\ i + 3 <= Len(w) /\ i + 3 <= m /\ i + 3 \in Nat /\ i < i + 3 /\ i + 3 >= k + 1
      <4>1. ~(i + 2 >= m)
        BY <2>8
      <4>2. i + 2 < m /\ i + 3 <= m /\ i + 3 \in Nat /\ i < i + 3 /\ i + 3 >= k + 1
        BY <2>10, <4>1
      <4> QED
        BY <1>1, <4>2
    <3>2. w[i + 2] \in L!HexDigits /\ w[i + 3] \in L!HexDigits /\ w[i + 1] = L!Percent
      BY <2>3, <2>4, <2>8, <3>1
    <3>3. EscapedUpto(w, i + 3) /\ OwnsUpto(w, i + 3) = OwnsUpto(w, i) \cup {i + 1}
      BY <1>1, <2>1, <3>1, <3>2, EscapeIsOwn
    <3> DEFINE byte == 16 * L!HexValue(first) + L!HexValue(second)
               y == i + 3
               x == i + 1
    <3>4. byte = ByteAt(w, i + 1)
      <4>1. x + 1 = i + 2 /\ x + 2 = i + 3
        BY <2>1
      <4>2. byte = 16 * L!HexValue(w[x + 1]) + L!HexValue(w[x + 2])
        BY <2>4, <3>1, <4>1
      <4> HIDE DEF byte, x
      <4>3. byte = ByteAt(w, x)
        BY <3>2, <4>2 DEF ByteAt, x
      <4> QED
        BY <4>3 DEF x
    <3>5. IsWritten(z, q, s, byte, y)
      BY <1>2, <1>4, <2>8
    <3> HIDE DEF byte
    <3>6. byte \in Nat
      <4>1. w[i + 1] = L!Percent => w[(i + 1) + 1] \in L!HexDigits /\ w[(i + 1) + 2] \in L!HexDigits
        <5>1. (i + 1) + 1 = i + 2 /\ (i + 1) + 2 = i + 3
          BY <2>1
        <5> QED
          BY <3>2, <5>1
      <4>2. x \in 1 .. Len(w) /\ (w[x] = L!Percent => w[x + 1] \in L!HexDigits /\ w[x + 2] \in L!HexDigits)
        BY <2>5, <4>1
      <4> HIDE DEF x
      <4>3. ByteAt(w, x) \in Nat
        BY <1>1, <4>2, OwnByteIs
      <4> QED
        BY <3>4, <4>3 DEF x
    <3>7. y \in Nat /\ i < y /\ y <= m
      BY <3>1
    <3>8. OwnsNext(w, i, y)
      BY <3>3 DEF OwnsNext
    <3> HIDE DEF y
    <3>9. DecodedBy(Append(b, i + 1), z, text, s, w) /\ z.i = y
      BY <1>4, <1>9, <2>1, <3>4, <3>5, <3>6, <3>7, <3>8, ByteWritten
    <3>10. z.i >= k + 1
      BY <3>1, <3>9 DEF y
    <3> QED
      BY <3>9, <3>10 DEF z
  <2> QED
    BY <2>6, <2>7, <2>8
<1> QED
  BY <1>3, <1>4

LEMMA UnescapedIs ==
  ASSUME NEW w \in Seq(Nat), NEW b, Ascending(b, Owns(w))
  PROVE  L!Unescaped(w) = [k \in 1 .. Len(b) |-> ByteAt(w, b[k])]
<1> DEFINE Digit(i) == \E k \in {i - 1, i - 2} : k > 0 /\ w[k] = L!Percent
           own == {i \in DOMAIN w : ~Digit(i)}
           Byte(i) == IF w[i] # L!Percent THEN w[i]
                      ELSE 16 * L!HexValue(w[i + 1]) + L!HexValue(w[i + 2])
<1>1. own = Owns(w)
  <2>1. DOMAIN w = 1 .. Len(w)
    OBVIOUS
  <2> QED
    BY <2>1 DEF Owns
<1>2. L!InOrder(own) = b
  BY <1>1, InOrderIs
<1>3. L!Unescaped(w) = [k \in DOMAIN L!InOrder(own) |-> Byte(L!InOrder(own)[k])]
  BY DEF L!Unescaped
<1>4. \A i : Byte(i) = ByteAt(w, i)
  BY DEF ByteAt
<1>5. DOMAIN b = 1 .. Len(b)
  BY DEF Ascending
<1> HIDE DEF own, Byte
<1> QED
  BY <1>2, <1>3, <1>4, <1>5

(* What decoding a view leaves, in the text that it shares with others.     *)
IsDecoded(d, text, s) ==
  /\ SameBut(d.text, text, s.at, s.len)
  /\ d.ok \in BOOLEAN /\ (d.ok <=> L!WellEscaped(L!Read(text, s)))
  /\ d.ok => /\ ViewIn(d.str, d.text) /\ d.str.at = s.at /\ d.str.len <= s.len
             /\ L!Read(d.text, d.str) = L!Unescaped(L!Read(text, s))

(* After as many turns as there are bytes they are all read.                *)
LEMMA AllAreDecoded ==
  ASSUME NEW text \in Seq(Nat), NEW s, ViewIn(s, text)
  PROVE  \E b, q : /\ DecodedBy(b, q, text, s, L!Read(text, s)) /\ (~q.ok \/ q.i >= s.len)
                   /\ L!Decode(text, s) = [ok |-> q.ok, text |-> q.text,
                                           str |-> IF q.ok THEN L!Substr(s, 0, q.len) ELSE s]
<1> DEFINE w == L!Read(text, s)
           n == s.len
           r == [ok |-> TRUE, text |-> text, i |-> 0, len |-> 0]
           f == CHOOSE g : g = [turns \in 0 .. s.len |->
                                  IF turns = 0 THEN [ok |-> TRUE, text |-> text, i |-> 0, len |-> 0]
                                  ELSE L!DecodeNext(g[turns - 1], s)]
           Sound(q, k) == \E b : DecodedBy(b, q, text, s, w) /\ (~q.ok \/ q.i >= s.len \/ q.i >= k)
           Unsound == {k \in 0 .. n : ~Sound(f[k], k)}
<1>1. n \in Nat /\ w \in Seq(Nat)
  BY ReadIs
<1>2. AreDecodeTurns(f, r, s, n)
  <2>1. \E g : AreDecodeTurns(g, r, s, n)
    BY <1>1, DecodeTurnsAreThere
  <2>2. \E g : g = [turns \in 0 .. s.len |->
                      IF turns = 0 THEN [ok |-> TRUE, text |-> text, i |-> 0, len |-> 0]
                      ELSE L!DecodeNext(g[turns - 1], s)]
    BY <2>1 DEF AreDecodeTurns
  <2>3. f = [turns \in 0 .. s.len |->
               IF turns = 0 THEN [ok |-> TRUE, text |-> text, i |-> 0, len |-> 0]
               ELSE L!DecodeNext(f[turns - 1], s)]
    BY <2>2, Zenon
  <2> HIDE DEF f
  <2> QED
    BY <2>3 DEF AreDecodeTurns
<1>3. L!Decode(text, s) = [ok |-> f[n].ok, text |-> f[n].text,
                           str |-> IF f[n].ok THEN L!Substr(s, 0, f[n].len) ELSE s]
  BY DEF L!Decode
<1> HIDE DEF f, r, n
<1>4. f[0] = r /\ \A k \in 1 .. n : f[k] = L!DecodeNext(f[k - 1], s)
  <2>1. 0 \in 0 .. n /\ \A k \in 1 .. n : k \in 0 .. n /\ k # 0
    BY <1>1
  <2> QED
    BY <1>2, <2>1 DEF AreDecodeTurns
<1>5. Sound(f[0], 0)
  <2>1. DecodedBy(<<>>, r, text, s, w)
    BY DecodeStarts DEF r
  <2>2. r.i >= 0
    BY DEF r
  <2> QED
    BY <1>4, <2>1, <2>2
<1>6. \A k \in 1 .. n : Sound(f[k - 1], k - 1) => Sound(f[k], k)
  <2> SUFFICES ASSUME NEW k \in 1 .. n, Sound(f[k - 1], k - 1) PROVE Sound(f[k], k)
    OBVIOUS
  <2> DEFINE q == f[k - 1]
             m == k - 1
  <2>1. m \in Nat /\ m + 1 = k
    BY <1>1
  <2>2. PICK b : DecodedBy(b, q, text, s, w) /\ (~q.ok \/ q.i >= s.len \/ q.i >= m)
    OBVIOUS
  <2>3. f[k] = L!DecodeNext(q, s)
    BY <1>4
  <2> HIDE DEF q, m
  <2>4. \E c : LET z == L!DecodeNext(q, s)
               IN  /\ DecodedBy(c, z, text, s, L!Read(text, s))
                   /\ ~z.ok \/ z.i >= s.len \/ z.i >= m + 1
    BY <2>1, <2>2, DecodeGoesOn
  <2> QED
    BY <2>1, <2>3, <2>4
<1> HIDE DEF Sound
<1>7. Unsound = {}
  <2> SUFFICES ASSUME Unsound # {} PROVE FALSE
    OBVIOUS
  <2>1. Unsound \in SUBSET Nat
    BY <1>1
  <2>2. PICK k \in Unsound : \A j \in Unsound : k <= j
    <3> HIDE DEF Unsound
    <3> QED
      BY <2>1, LeastIsThere
  <2>3. k # 0
    BY <1>5
  <2>4. k \in 1 .. n /\ k - 1 \in 0 .. n /\ ~(k <= k - 1)
    BY <1>1, <2>1, <2>3
  <2>5. Sound(f[k - 1], k - 1)
    BY <2>2, <2>4
  <2> QED
    BY <1>6, <2>4, <2>5
<1>8. Sound(f[n], n)
  <2>1. n \in 0 .. n
    BY <1>1
  <2> QED
    BY <1>7, <2>1
<1>9. PICK b : DecodedBy(b, f[n], text, s, w) /\ (~f[n].ok \/ f[n].i >= s.len \/ f[n].i >= n)
  BY <1>8 DEF Sound
<1>10. DecodedBy(b, f[n], text, s, w) /\ (~f[n].ok \/ f[n].i >= s.len)
  BY <1>9 DEF n
<1> QED
  BY <1>3, <1>10

LEMMA DecodeIs ==
  ASSUME NEW text \in Seq(Nat), NEW s, ViewIn(s, text)
  PROVE  IsDecoded(L!Decode(text, s), text, s)
<1> DEFINE w == L!Read(text, s)
           d == L!Decode(text, s)
<1>1. w \in Seq(Nat) /\ Len(w) = s.len /\ s.len \in Nat /\ s.at \in Nat /\ s.at + s.len <= Len(text) /\ Len(text) \in Nat
  BY ReadIs DEF ViewIn
<1>2. PICK b, q : /\ DecodedBy(b, q, text, s, w) /\ (~q.ok \/ q.i >= s.len)
                  /\ d = [ok |-> q.ok, text |-> q.text, str |-> IF q.ok THEN L!Substr(s, 0, q.len) ELSE s]
  BY AllAreDecoded
<1> HIDE DEF d
<1>3. d.ok = q.ok /\ d.text = q.text /\ (q.ok => d.str = L!Substr(s, 0, q.len))
  BY <1>2
<1> HIDE DEF w
<1>4. /\ q.ok \in BOOLEAN /\ q.i \in Nat /\ q.i <= s.len /\ q.len \in Nat /\ q.len <= q.i
      /\ SameBut(q.text, text, s.at, q.len)
      /\ Ascending(b, OwnsUpto(w, q.i)) /\ Len(b) = q.len
      /\ (\A k \in 1 .. q.len : q.text[s.at + k] = ByteAt(w, b[k]))
      /\ EscapedUpto(w, q.i)
      /\ (~q.ok => ~L!WellEscaped(w))
  BY <1>2 DEF DecodedBy
<1> DEFINE i == q.i
           n == q.len
           m == s.len
           at == s.at
           u == q.text
<1>5. i \in Nat /\ i <= m /\ n \in Nat /\ n <= i /\ m \in Nat /\ at \in Nat /\ at + m <= Len(text) /\ Len(text) \in Nat
  BY <1>1, <1>4
<1> HIDE DEF i, n, m, at, u
<1>6. SameBut(u, text, at, m)
  <2>1. SameBut(u, text, at, n)
    BY <1>4 DEF u, at, n
  <2>2. \A j \in 1 .. Len(text) : j > at + m => j > at + n
    BY <1>5
  <2> QED
    BY <2>1, <2>2 DEF SameBut
<1>7. q.ok => i = m
  <2>1. q.ok => i >= m
    BY <1>2 DEF i, m
  <2> QED
    BY <1>5, <2>1
<1>8. ASSUME q.ok PROVE L!WellEscaped(w)
  <2>1. EscapedUpto(w, m) /\ Len(w) = m /\ DOMAIN w = 1 .. m
    BY <1>1, <1>4, <1>7, <1>8 DEF i, m
  <2> QED
    BY <2>1 DEF EscapedUpto, L!WellEscaped
<1>9. ASSUME q.ok
      PROVE  /\ ViewIn(d.str, u) /\ d.str.at = at /\ d.str.len = n
             /\ L!Read(u, d.str) = L!Unescaped(w)
  <2>1. OwnsUpto(w, i) = Owns(w)
    <3>1. \A j \in Owns(w) : j <= i
      <4>1. Len(w) = i
        BY <1>1, <1>7, <1>9 DEF m
      <4> QED
        BY <1>5, <4>1 DEF Owns
    <3> QED
      BY <3>1 DEF OwnsUpto
  <2>2. Ascending(b, Owns(w)) /\ Len(b) = n
    BY <1>4, <2>1 DEF i, n
  <2>3. L!Unescaped(w) = [k \in 1 .. n |-> ByteAt(w, b[k])]
    BY <1>1, <2>2, UnescapedIs
  <2>4. d.str \in Views /\ d.str.at = at /\ d.str.len = n
    <3>1. d.str = L!View(at, n)
      <4>1. at + 0 = at
        BY <1>5
      <4> QED
        BY <1>3, <1>9, <4>1 DEF L!Substr, at, n
    <3> QED
      BY <1>5, <3>1, ViewIs
  <2>5. u \in Seq(Nat) /\ Len(u) = Len(text)
    BY <1>6 DEF SameBut
  <2>6. ViewIn(d.str, u)
    <3>1. at + n <= Len(text)
      BY <1>5
    <3> QED
      BY <2>4, <2>5, <3>1 DEF ViewIn
  <2> DEFINE v == L!Read(u, d.str)
  <2>7. v \in Seq(Nat) /\ Len(v) = n /\ \A k \in 1 .. n : v[k] = u[at + k]
    BY <2>4, <2>5, <2>6, ReadIs
  <2> HIDE DEF v
  <2>8. \A k \in 1 .. n : v[k] = ByteAt(w, b[k])
    BY <1>4, <2>7 DEF u, at, n
  <2>9. v = [k \in 1 .. n |-> v[k]]
    BY <2>7
  <2>10. v = [k \in 1 .. n |-> ByteAt(w, b[k])]
    BY <2>8, <2>9
  <2> QED
    BY <2>3, <2>4, <2>6, <2>10 DEF v
<1>10. d.ok \in BOOLEAN /\ (d.ok <=> L!WellEscaped(w))
  <2>1. q.ok \in BOOLEAN /\ (~q.ok => ~L!WellEscaped(w))
    BY <1>4
  <2> QED
    BY <1>3, <1>8, <2>1
<1>11. n <= m
  BY <1>5
<1>12. d.text = u /\ s.at = at /\ s.len = m
  BY <1>3 DEF u, at, m
<1>13. IsDecoded(d, text, s)
  BY <1>3, <1>6, <1>9, <1>10, <1>11, <1>12 DEF IsDecoded, w
<1> QED
  BY <1>13 DEF d

-----------------------------------------------------------------------------
(* The variables of a URI                                                   *)

(* What is read through a view that has nothing in common with what was     *)
(* decoded.                                                                 *)
Apart(s, at, n) == s.len = 0 \/ n = 0 \/ s.at + s.len <= at \/ at + n <= s.at

LEMMA SameRead ==
  ASSUME NEW text \in Seq(Nat), NEW s, ViewIn(s, text), NEW at \in Nat, NEW n \in Nat,
         NEW u, SameBut(u, text, at, n), Apart(s, at, n)
  PROVE  ViewIn(s, u) /\ L!Read(u, s) = L!Read(text, s)
<1> DEFINE w == L!Read(text, s)
           v == L!Read(u, s)
           a == s.at
           m == s.len
<1>1. u \in Seq(Nat) /\ Len(u) = Len(text)
  BY DEF SameBut
<1>2. ViewIn(s, u)
  BY <1>1 DEF ViewIn
<1>3. /\ w \in Seq(Nat) /\ Len(w) = m /\ m \in Nat /\ a \in Nat
      /\ \A i \in 1 .. m : w[i] = text[a + i] /\ a + i \in 1 .. Len(text)
  BY ReadIs
<1>4. v \in Seq(Nat) /\ Len(v) = m /\ \A i \in 1 .. m : v[i] = u[a + i]
  BY <1>1, <1>2, ReadIs
<1>5. m = 0 \/ n = 0 \/ a + m <= at \/ at + n <= a
  BY DEF Apart
<1> HIDE DEF w, v, a, m
<1>6. ASSUME NEW i \in 1 .. m PROVE v[i] = w[i]
  <2>1. a + i <= at \/ a + i > at + n
    BY <1>3, <1>5
  <2>2. u[a + i] = text[a + i]
    BY <1>3, <2>1 DEF SameBut
  <2> QED
    BY <1>3, <1>4, <2>2
<1>7. v = w
  BY <1>3, <1>4, <1>6, SeqEqual
<1> QED
  BY <1>2, <1>7 DEF v, w

LEMMA SameButMore ==
  ASSUME NEW text, NEW u, NEW v, NEW at \in Nat, NEW n \in Nat, NEW a \in Nat, NEW m \in Nat,
         Len(text) \in Nat, SameBut(u, text, at, n), SameBut(v, u, a, m), m = 0 \/ (at <= a /\ a + m <= at + n)
  PROVE  SameBut(v, text, at, n)
<1>1. u \in Seq(Nat) /\ v \in Seq(Nat) /\ Len(u) = Len(text) /\ Len(v) = Len(text)
  BY DEF SameBut
<1>2. ASSUME NEW j \in 1 .. Len(text), j <= at \/ j > at + n PROVE v[j] = text[j]
  <2>1. j <= a \/ j > a + m
    BY <1>2
  <2>2. v[j] = u[j] /\ u[j] = text[j]
    BY <1>1, <1>2, <2>1 DEF SameBut
  <2> QED
    BY <2>2
<1> QED
  BY <1>1, <1>2 DEF SameBut

LEMMA SameButWider ==
  ASSUME NEW text, NEW u, NEW at \in Nat, NEW n \in Nat, NEW a \in Nat, NEW m \in Nat,
         Len(text) \in Nat, SameBut(u, text, a, m), m = 0 \/ (at <= a /\ a + m <= at + n)
  PROVE  SameBut(u, text, at, n)
<1>1. u \in Seq(Nat) /\ Len(u) = Len(text)
  BY DEF SameBut
<1>2. ASSUME NEW j \in 1 .. Len(text), j <= at \/ j > at + n PROVE u[j] = text[j]
  <2>1. j <= a \/ j > a + m
    BY <1>2
  <2> QED
    BY <1>2, <2>1 DEF SameBut
<1> QED
  BY <1>1, <1>2 DEF SameBut

(* A view of a part of s, or of nothing.                                    *)
Inside(v, s) == v.len = 0 \/ (s.at <= v.at /\ v.at + v.len <= s.at + s.len)

LEMMA EmptyIs ==
  ASSUME NEW text \in Seq(Nat)
  PROVE  ViewIn(L!Empty, text) /\ L!Empty.at = 0 /\ L!Empty.len = 0 /\ L!Read(text, L!Empty) = <<>>
<1>1. L!Empty \in Views /\ L!Empty.at = 0 /\ L!Empty.len = 0
  BY ViewIs DEF L!Empty
<1>2. ViewIn(L!Empty, text)
  <2>1. Len(text) \in Nat /\ 0 + 0 <= Len(text)
    OBVIOUS
  <2> QED
    BY <1>1, <2>1 DEF ViewIn
<1>3. Len(L!Read(text, L!Empty)) = 0 /\ L!Read(text, L!Empty) \in Seq(Nat)
  BY <1>1, <1>2, ReadIs
<1> QED
  BY <1>1, <1>2, <1>3, EmptySeq

(* How one view is cut in two at the first ch.                              *)
Left(text, s, ch) ==
  LET p == L!FindFirstOf(text, s, {ch}, 0) IN IF p = -1 THEN s ELSE L!Substr(s, 0, p)
Right(text, s, ch) ==
  LET p == L!FindFirstOf(text, s, {ch}, 0) IN IF p = -1 THEN L!Empty ELSE L!Rest(s, p + 1)

LEMMA CutIs ==
  ASSUME NEW text \in Seq(Nat), NEW s, ViewIn(s, text), NEW ch
  PROVE  LET l == Left(text, s, ch)
             r == Right(text, s, ch)
             w == L!Read(text, s)
         IN  /\ ViewIn(l, text) /\ l.at = s.at /\ l.len <= s.len /\ L!Read(text, l) = L!Before(w, ch)
             /\ ViewIn(r, text) /\ Inside(r, s) /\ L!Read(text, r) = L!After(w, ch)
             /\ r.len # 0 => l.at + l.len <= r.at
<1> DEFINE p == L!FindFirstOf(text, s, {ch}, 0)
           w == L!Read(text, s)
           l == Left(text, s, ch)
           r == Right(text, s, ch)
<1>1. /\ L!Upto(w, ch) = p + 1
      /\ p = -1 => L!Before(w, ch) = w /\ L!After(w, ch) = <<>>
      /\ p # -1 =>
           /\ p \in Nat /\ p < s.len /\ s.len - (p + 1) \in Nat
           /\ ViewIn(L!Substr(s, 0, p), text)
           /\ L!Substr(s, 0, p).at = s.at /\ L!Substr(s, 0, p).len = p
           /\ L!Read(text, L!Substr(s, 0, p)) = L!Before(w, ch)
           /\ ViewIn(L!Rest(s, p + 1), text)
           /\ L!Rest(s, p + 1).at = s.at + (p + 1) /\ L!Rest(s, p + 1).len = s.len - (p + 1)
           /\ L!Read(text, L!Rest(s, p + 1)) = L!After(w, ch)
  BY PartsAre
<1>2. l = IF p = -1 THEN s ELSE L!Substr(s, 0, p)
  BY DEF Left
<1>3. r = IF p = -1 THEN L!Empty ELSE L!Rest(s, p + 1)
  BY DEF Right
<1>4. s.len \in Nat /\ s.at \in Nat
  BY ReadIs
<1> HIDE DEF p, l, r, w
<1>5. CASE p = -1
  <2>1. l = s /\ r = L!Empty
    BY <1>2, <1>3, <1>5
  <2>2. ViewIn(r, text) /\ r.len = 0 /\ L!Read(text, r) = <<>>
    BY <2>1, EmptyIs
  <2>3. s.len <= s.len
    BY <1>4
  <2> QED
    BY <1>1, <1>5, <2>1, <2>2, <2>3 DEF Inside, l, r, w
<1>6. CASE p # -1
  <2>1. l = L!Substr(s, 0, p) /\ r = L!Rest(s, p + 1)
    BY <1>2, <1>3, <1>6
  <2>2. ViewIn(l, text) /\ l.at = s.at /\ l.len = p /\ L!Read(text, l) = L!Before(w, ch)
    BY <1>1, <1>6, <2>1
  <2>3. ViewIn(r, text) /\ r.at = s.at + (p + 1) /\ r.len = s.len - (p + 1) /\ L!Read(text, r) = L!After(w, ch)
    BY <1>1, <1>6, <2>1
  <2> DEFINE a == s.at
             n == s.len
  <2>4. p \in Nat /\ p < n /\ a \in Nat /\ n \in Nat
    BY <1>1, <1>4, <1>6
  <2> HIDE DEF a, n
  <2>5. p <= n /\ a <= a + (p + 1) /\ (a + (p + 1)) + (n - (p + 1)) <= a + n /\ a + p <= a + (p + 1)
    BY <2>4
  <2>6. s.at = a /\ s.len = n
    BY DEF a, n
  <2>7. Inside(r, s)
    BY <2>3, <2>5, <2>6 DEF Inside
  <2> QED
    BY <2>2, <2>3, <2>5, <2>6, <2>7 DEF l, r, w
<1> QED
  BY <1>5, <1>6

(* What a variable must be written like.                                    *)
VarOk(w) ==
  /\ w[1] # L!Equals
  /\ L!WellEscaped(L!Before(w, L!Equals)) /\ L!WellEscaped(L!After(w, L!Equals))

VarViews == [name : Views, value : Views]

(* v says what the variable w says, in what is left of item.                *)
SaysVar(v, text, item, w) ==
  /\ ViewIn(v.name, text) /\ Inside(v.name, item)
  /\ L!Read(text, v.name) = L!Unescaped(L!Before(w, L!Equals))
  /\ ViewIn(v.value, text) /\ Inside(v.value, item)
  /\ L!Read(text, v.value) = L!Unescaped(L!After(w, L!Equals))

LEMMA EqualsFirst ==
  ASSUME NEW text \in Seq(Nat), NEW s, ViewIn(s, text), s.len > 0, NEW ch
  PROVE  L!FindFirstOf(text, s, {ch}, 0) = 0 <=> L!Read(text, s)[1] = ch
<1> DEFINE p == L!FindFirstOf(text, s, {ch}, 0)
           w == L!Read(text, s)
<1>1. First(w, {ch}, 0, p)
  <2>1. 0 \in Nat
    OBVIOUS
  <2> QED
    BY <2>1, FoundIs
<1>2. Len(w) = s.len /\ s.len \in Nat
  BY ReadIs
<1> HIDE DEF p, w
<1>3. 0 + 1 = 1 /\ 1 \in 1 .. Len(w)
  BY <1>2
<1>4. CASE p = -1
  <2>1. \A i \in 1 .. Len(w) : w[i] # ch
    BY <1>1, <1>3, <1>4 DEF First
  <2> QED
    BY <1>3, <1>4, <2>1 DEF p, w
<1>5. CASE p # -1
  <2>1. p \in Nat /\ w[p + 1] = ch /\ \A i \in 1 .. p : w[i] # ch
    BY <1>1, <1>3, <1>5 DEF First
  <2>2. p # 0 => 1 \in 1 .. p
    BY <2>1
  <2>3. p = 0 => w[1] = ch
    BY <2>1
  <2> QED
    BY <2>1, <2>2, <2>3 DEF p, w
<1> QED
  BY <1>4, <1>5

(* Decoding one part of a view and then another.                            *)
LEMMA BothDecoded ==
  ASSUME NEW text \in Seq(Nat), NEW item, ViewIn(item, text), NEW ch,
         NEW name, name = L!Decode(text, Left(text, item, ch)),
         NEW value, value = L!Decode(name.text, Right(text, item, ch))
  PROVE  LET w == L!Read(text, item)
         IN  /\ SameBut(value.text, text, item.at, item.len)
             /\ name.ok \in BOOLEAN /\ (name.ok <=> L!WellEscaped(L!Before(w, ch)))
             /\ value.ok \in BOOLEAN /\ (value.ok <=> L!WellEscaped(L!After(w, ch)))
             /\ name.ok => /\ ViewIn(name.str, value.text) /\ Inside(name.str, item)
                           /\ L!Read(value.text, name.str) = L!Unescaped(L!Before(w, ch))
             /\ value.ok => /\ ViewIn(value.str, value.text) /\ Inside(value.str, item)
                            /\ L!Read(value.text, value.str) = L!Unescaped(L!After(w, ch))
<1> DEFINE w == L!Read(text, item)
           l == Left(text, item, ch)
           r == Right(text, item, ch)
           before == L!Before(w, ch)
           after == L!After(w, ch)
<1>1. /\ ViewIn(l, text) /\ l.at = item.at /\ l.len <= item.len /\ L!Read(text, l) = before
      /\ ViewIn(r, text) /\ Inside(r, item) /\ L!Read(text, r) = after
      /\ r.len # 0 => l.at + l.len <= r.at
  BY CutIs
<1> HIDE DEF l, r, w, before, after
<1>2. /\ l.at \in Nat /\ l.len \in Nat /\ r.at \in Nat /\ r.len \in Nat /\ item.at \in Nat /\ item.len \in Nat
      /\ Len(text) \in Nat
  BY <1>1, ReadIs
<1>3. IsDecoded(name, text, l)
  <2>1. IsDecoded(L!Decode(text, l), text, l)
    BY <1>1, DecodeIs
  <2> QED
    BY <2>1 DEF l
<1>4. SameBut(name.text, text, l.at, l.len) /\ name.text \in Seq(Nat)
  BY <1>3 DEF IsDecoded, SameBut
<1>5. ViewIn(r, name.text) /\ L!Read(name.text, r) = after
  <2>1. Apart(r, l.at, l.len)
    BY <1>1 DEF Apart
  <2> QED
    BY <1>1, <1>2, <1>4, <2>1, SameRead
<1>6. IsDecoded(value, name.text, r)
  <2>1. IsDecoded(L!Decode(name.text, r), name.text, r)
    BY <1>4, <1>5, DecodeIs
  <2> QED
    BY <2>1 DEF r
<1>7. SameBut(value.text, name.text, r.at, r.len)
  BY <1>6 DEF IsDecoded
<1> DEFINE a == item.at
           n == item.len
           b == l.at
           k == l.len
           c == r.at
           m == r.len
<1>8. /\ a \in Nat /\ n \in Nat /\ b \in Nat /\ k \in Nat /\ c \in Nat /\ m \in Nat
      /\ b = a /\ k <= n /\ (m = 0 \/ (a <= c /\ c + m <= a + n)) /\ (m # 0 => b + k <= c)
  BY <1>1, <1>2 DEF Inside
<1> HIDE DEF a, n, b, k, c, m
<1>9. SameBut(value.text, text, item.at, item.len)
  <2>1. SameBut(name.text, text, b, k) /\ SameBut(value.text, name.text, c, m)
    BY <1>4, <1>7 DEF b, k, c, m
  <2>2. a <= b /\ b + k <= a + n
    BY <1>8
  <2>3. SameBut(name.text, text, a, n)
    BY <1>2, <1>8, <2>1, <2>2, SameButWider
  <2>4. SameBut(value.text, text, a, n)
    BY <1>2, <1>8, <2>1, <2>3, SameButMore
  <2> QED
    BY <2>4 DEF a, n
<1>10. name.ok \in BOOLEAN /\ (name.ok <=> L!WellEscaped(before))
  BY <1>1, <1>3 DEF IsDecoded
<1>11. value.ok \in BOOLEAN /\ (value.ok <=> L!WellEscaped(after))
  BY <1>5, <1>6 DEF IsDecoded
<1>12. ASSUME name.ok
       PROVE  /\ ViewIn(name.str, value.text) /\ Inside(name.str, item)
              /\ L!Read(value.text, name.str) = L!Unescaped(before)
  <2> DEFINE v == name.str
             d == v.at
             g == v.len
  <2>1. ViewIn(v, name.text) /\ v.at = l.at /\ v.len <= l.len /\ L!Read(name.text, v) = L!Unescaped(before)
    BY <1>1, <1>3, <1>12 DEF IsDecoded
  <2> HIDE DEF v
  <2>2. d = b /\ g <= k /\ g \in Nat /\ d \in Nat
    BY <1>4, <2>1, ReadIs DEF b, k
  <2> HIDE DEF d, g
  <2>3. (g = 0 \/ m = 0 \/ d + g <= c \/ c + m <= d) /\ (a <= d /\ d + g <= a + n)
    BY <1>8, <2>2
  <2>4. Apart(v, c, m)
    BY <2>3 DEF Apart, d, g
  <2>5. Inside(v, item)
    BY <2>3 DEF Inside, d, g, a, n
  <2>6. SameBut(value.text, name.text, c, m)
    BY <1>7 DEF c, m
  <2>7. ViewIn(v, value.text) /\ L!Read(value.text, v) = L!Read(name.text, v)
    BY <1>4, <1>8, <2>1, <2>4, <2>6, SameRead
  <2> QED
    BY <2>1, <2>5, <2>7 DEF v
<1>13. ASSUME value.ok
       PROVE  /\ ViewIn(value.str, value.text) /\ Inside(value.str, item)
              /\ L!Read(value.text, value.str) = L!Unescaped(after)
  <2> DEFINE v == value.str
             d == v.at
             g == v.len
  <2>1. ViewIn(v, value.text) /\ v.at = r.at /\ v.len <= r.len /\ L!Read(value.text, v) = L!Unescaped(after)
    BY <1>5, <1>6, <1>13 DEF IsDecoded
  <2>2. value.text \in Seq(Nat)
    BY <1>7 DEF SameBut
  <2> HIDE DEF v
  <2>3. d = c /\ g <= m /\ g \in Nat /\ d \in Nat
    BY <2>1, <2>2, ReadIs DEF c, m
  <2> HIDE DEF d, g
  <2>4. g = 0 \/ (a <= d /\ d + g <= a + n)
    BY <1>8, <2>3
  <2>5. Inside(v, item)
    BY <2>4 DEF Inside, d, g, a, n
  <2> QED
    BY <2>1, <2>5 DEF v
<1> QED
  BY <1>9, <1>10, <1>11, <1>12, <1>13 DEF w, before, after

LEMMA ParseVarIs ==
  ASSUME NEW r, r = [ok |-> r.ok, text |-> r.text, vars |-> r.vars], r.text \in Seq(Nat), r.ok = TRUE,
         NEW item, ViewIn(item, r.text), item.len > 0
  PROVE  LET z == L!ParseVar(r, item)
             w == L!Read(r.text, item)
         IN  /\ z = [ok |-> z.ok, text |-> z.text, vars |-> z.vars]
             /\ SameBut(z.text, r.text, item.at, item.len)
             /\ z.ok \in BOOLEAN /\ (z.ok <=> VarOk(w))
             /\ z.ok => \E v \in VarViews : z.vars = Append(r.vars, v) /\ SaysVar(v, z.text, item, w)
<1> DEFINE text == r.text
           z == L!ParseVar(r, item)
           w == L!Read(r.text, item)
           p == L!FindFirstOf(r.text, item, {L!Equals}, 0)
           name == L!Decode(r.text, Left(r.text, item, L!Equals))
           value == L!Decode(name.text, Right(r.text, item, L!Equals))
           v == [name |-> name.str, value |-> value.str]
<1>1. z = IF p = 0 THEN [r EXCEPT !.ok = FALSE]
          ELSE [ok |-> name.ok /\ value.ok, text |-> value.text, vars |-> Append(r.vars, v)]
  BY DEF L!ParseVar, L!NPos, Left, Right
<1>2. p = 0 <=> w[1] = L!Equals
  BY EqualsFirst
<1>3. text \in Seq(Nat) /\ ViewIn(item, text)
  OBVIOUS
<1>4. /\ SameBut(value.text, text, item.at, item.len)
      /\ name.ok \in BOOLEAN /\ (name.ok <=> L!WellEscaped(L!Before(w, L!Equals)))
      /\ value.ok \in BOOLEAN /\ (value.ok <=> L!WellEscaped(L!After(w, L!Equals)))
      /\ name.ok => /\ ViewIn(name.str, value.text) /\ Inside(name.str, item)
                    /\ L!Read(value.text, name.str) = L!Unescaped(L!Before(w, L!Equals))
      /\ value.ok => /\ ViewIn(value.str, value.text) /\ Inside(value.str, item)
                     /\ L!Read(value.text, value.str) = L!Unescaped(L!After(w, L!Equals))
  <2> DEFINE ch == L!Equals
  <2> HIDE DEF ch
  <2>1. name = L!Decode(text, Left(text, item, ch)) /\ value = L!Decode(name.text, Right(text, item, ch))
    BY DEF ch
  <2>2. w = L!Read(text, item)
    OBVIOUS
  <2> HIDE DEF text, name, value, w
  <2>3. LET y == L!Read(text, item)
         IN  /\ SameBut(value.text, text, item.at, item.len)
             /\ name.ok \in BOOLEAN /\ (name.ok <=> L!WellEscaped(L!Before(y, ch)))
             /\ value.ok \in BOOLEAN /\ (value.ok <=> L!WellEscaped(L!After(y, ch)))
             /\ name.ok => /\ ViewIn(name.str, value.text) /\ Inside(name.str, item)
                           /\ L!Read(value.text, name.str) = L!Unescaped(L!Before(y, ch))
             /\ value.ok => /\ ViewIn(value.str, value.text) /\ Inside(value.str, item)
                            /\ L!Read(value.text, value.str) = L!Unescaped(L!After(y, ch))
    BY <1>3, <2>1, BothDecoded
  <2> QED
    BY <2>2, <2>3 DEF ch
<1> HIDE DEF z, p, w, name, value
<1>5. CASE p = 0
  <2>1. z = [ok |-> FALSE, text |-> r.text, vars |-> r.vars]
    BY <1>1, <1>5
  <2>2. z.ok = FALSE /\ z.text = r.text /\ z.vars = r.vars /\ z = [ok |-> z.ok, text |-> z.text, vars |-> z.vars]
    BY <2>1
  <2>3. SameBut(r.text, r.text, item.at, item.len)
    BY <1>3 DEF SameBut
  <2>4. ~VarOk(w)
    BY <1>2, <1>5 DEF VarOk
  <2> QED
    BY <2>2, <2>3, <2>4 DEF z, w
<1>6. CASE p # 0
  <2>1. z = [ok |-> name.ok /\ value.ok, text |-> value.text, vars |-> Append(r.vars, v)]
    BY <1>1, <1>6
  <2>2. z.ok = (name.ok /\ value.ok) /\ z.text = value.text /\ z.vars = Append(r.vars, v)
        /\ z = [ok |-> z.ok, text |-> z.text, vars |-> z.vars]
    BY <2>1, Zenon
  <2>3. z.ok \in BOOLEAN /\ (z.ok <=> VarOk(w))
    BY <1>2, <1>4, <1>6, <2>2, Zenon DEF VarOk
  <2>4. ASSUME z.ok PROVE v \in VarViews /\ SaysVar(v, z.text, item, w)
    <3>1. name.ok /\ value.ok
      BY <2>2, <2>4, Zenon
    <3>2. v.name = name.str /\ v.value = value.str
      OBVIOUS
    <3>3. name.str \in Views /\ value.str \in Views
      BY <1>4, <3>1 DEF ViewIn
    <3>4. v \in VarViews
      BY <3>3 DEF VarViews
    <3> HIDE DEF v
    <3>5. SaysVar(v, z.text, item, w)
      BY <1>4, <2>2, <3>1, <3>2, Zenon DEF SaysVar
    <3> QED
      BY <3>4, <3>5
  <2> HIDE DEF v
  <2>5. z.ok => \E y \in VarViews : z.vars = Append(r.vars, y) /\ SaysVar(y, z.text, item, w)
    BY <2>2, <2>4
  <2> QED
    BY <1>4, <2>2, <2>3, <2>5 DEF z, w
<1> QED
  BY <1>5, <1>6

(* What is parsed after the first n variables.                             *)
AreVarTurns(f, r, items, n) ==
  f = [turns \in 0 .. n |-> IF turns = 0 THEN r ELSE L!ParseVar(f[turns - 1], items[turns])]

LEMMA VarTurnsLonger ==
  ASSUME NEW r, NEW items, NEW n \in Nat, NEW f, AreVarTurns(f, r, items, n)
  PROVE  \E g : AreVarTurns(g, r, items, n + 1)
<1> DEFINE g == [i \in 0 .. n + 1 |->
                   IF i = n + 1 THEN L!ParseVar(f[n], items[n + 1]) ELSE f[i]]
<1>1. ASSUME NEW i \in 0 .. n + 1
      PROVE  g[i] = IF i = 0 THEN r ELSE L!ParseVar(g[i - 1], items[i])
  <2>1. CASE i = 0
    <3>1. i \in 0 .. n /\ i # n + 1
      BY <2>1
    <3>2. f[0] = r
      BY <2>1, <3>1 DEF AreVarTurns
    <3> QED
      BY <2>1, <3>1, <3>2
  <2>2. CASE i # 0
    <3>1. i - 1 \in 0 .. n /\ i - 1 \in 0 .. n + 1 /\ i - 1 # n + 1
      BY <2>2
    <3>2. g[i - 1] = f[i - 1]
      BY <3>1
    <3>3. CASE i = n + 1
      <4>1. i - 1 = n /\ g[i] = L!ParseVar(f[n], items[i])
        BY <3>3
      <4> HIDE DEF g
      <4> QED
        BY <2>2, <3>2, <4>1, Zenon
    <3>4. CASE i # n + 1
      <4>1. i \in 0 .. n /\ g[i] = f[i]
        BY <3>4
      <4>2. f[i] = L!ParseVar(f[i - 1], items[i])
        BY <2>2, <4>1 DEF AreVarTurns
      <4> HIDE DEF g
      <4> QED
        BY <2>2, <3>2, <4>1, <4>2, Zenon
    <3> QED
      BY <3>3, <3>4
  <2> QED
    BY <2>1, <2>2
<1>2. g = [i \in 0 .. n + 1 |-> g[i]]
  OBVIOUS
<1>3. AreVarTurns(g, r, items, n + 1)
  <2> HIDE DEF g
  <2> QED
    BY <1>1, <1>2 DEF AreVarTurns
<1> QED
  BY <1>3

LEMMA VarTurnsAreThere ==
  ASSUME NEW r, NEW items, NEW n \in Nat
  PROVE  \E f : AreVarTurns(f, r, items, n)
<1> DEFINE Without == {k \in Nat : ~\E f : AreVarTurns(f, r, items, k)}
<1>1. SUFFICES ASSUME Without # {} PROVE FALSE
  OBVIOUS
<1>2. PICK m \in Without : \A k \in Without : m <= k
  BY <1>1, LeastIsThere
<1>3. CASE m = 0
  <2> DEFINE f == [i \in 0 .. 0 |-> r]
  <2>1. \A i \in 0 .. 0 : i = 0
    OBVIOUS
  <2>2. AreVarTurns(f, r, items, 0)
    BY <2>1 DEF AreVarTurns
  <2> QED
    BY <1>3, <2>2
<1>4. CASE m # 0
  <2>1. m \in Nat /\ m - 1 \in Nat /\ m - 1 \notin Without /\ (m - 1) + 1 = m
    BY <1>2, <1>4
  <2>2. PICK f : AreVarTurns(f, r, items, m - 1)
    BY <2>1
  <2>3. \E g : AreVarTurns(g, r, items, (m - 1) + 1)
    BY <2>1, <2>2, VarTurnsLonger
  <2> QED
    BY <2>1, <2>3
<1> QED
  BY <1>3, <1>4

LEMMA SaysVarStill ==
  ASSUME NEW text \in Seq(Nat), NEW item, ViewIn(item, text), NEW v, NEW w, SaysVar(v, text, item, w),
         NEW a \in Nat, NEW m \in Nat, NEW u, SameBut(u, text, a, m), item.at + item.len <= a
  PROVE  SaysVar(v, u, item, w)
<1> DEFINE l == v.name
           r == v.value
<1>1. /\ ViewIn(l, text) /\ Inside(l, item) /\ L!Read(text, l) = L!Unescaped(L!Before(w, L!Equals))
      /\ ViewIn(r, text) /\ Inside(r, item) /\ L!Read(text, r) = L!Unescaped(L!After(w, L!Equals))
  BY DEF SaysVar
<1> HIDE DEF l, r
<1>2. ASSUME NEW x, ViewIn(x, text), Inside(x, item)
      PROVE  ViewIn(x, u) /\ L!Read(u, x) = L!Read(text, x)
  <2> DEFINE b == x.at
             k == x.len
             c == item.at
             n == item.len
  <2>1. b \in Nat /\ k \in Nat /\ c \in Nat /\ n \in Nat /\ c + n <= a /\ (k = 0 \/ b + k <= c + n)
    BY <1>2, ReadIs DEF Inside
  <2> HIDE DEF b, k, c, n
  <2>2. k = 0 \/ b + k <= a
    BY <2>1
  <2>3. Apart(x, a, m)
    BY <2>2 DEF Apart, b, k
  <2> QED
    BY <1>2, <2>3, SameRead
<1>3. ViewIn(l, u) /\ L!Read(u, l) = L!Read(text, l)
  BY <1>1, <1>2
<1>4. ViewIn(r, u) /\ L!Read(u, r) = L!Read(text, r)
  BY <1>1, <1>2
<1> QED
  BY <1>1, <1>3, <1>4 DEF SaysVar, l, r

(* The first n variables are parsed into z.                                 *)
VarsUpto(z, r, items, parts, s, n) ==
  /\ z = [ok |-> z.ok, text |-> z.text, vars |-> z.vars]
  /\ z.ok \in BOOLEAN /\ (z.ok <=> r.ok /\ \A k \in 1 .. n : VarOk(parts[k]))
  /\ SameBut(z.text, r.text, s.at, s.len)
  /\ \A k \in n + 1 .. Len(items) : ViewIn(items[k], z.text) /\ L!Read(z.text, items[k]) = parts[k]
  /\ z.ok => /\ z.vars \in Seq(VarViews) /\ Len(z.vars) = n
             /\ \A k \in 1 .. n : SaysVar(z.vars[k], z.text, items[k], parts[k])

LEMMA VarsGoOn ==
  ASSUME NEW r, r.text \in Seq(Nat), r.ok \in BOOLEAN, NEW s, ViewIn(s, r.text),
         NEW items, NEW parts, IsSplit(items, parts, r.text, s),
         NEW n \in Nat, n + 1 <= Len(items), NEW z, VarsUpto(z, r, items, parts, s, n)
  PROVE  VarsUpto(L!ParseVar(z, items[n + 1]), r, items, parts, s, n + 1)
<1> DEFINE item == items[n + 1]
           y == L!ParseVar(z, item)
           w == parts[n + 1]
           N == Len(items)
<1>1. /\ items \in Seq(Views) /\ N \in Nat
      /\ \A k \in 1 .. N :
           /\ ViewIn(items[k], r.text) /\ items[k].len > 0
           /\ s.at <= items[k].at /\ items[k].at + items[k].len <= s.at + s.len
           /\ L!Read(r.text, items[k]) = parts[k]
      /\ \A i, j \in 1 .. N : i < j => items[i].at + items[i].len <= items[j].at
  BY DEF IsSplit
<1>2. /\ z = [ok |-> z.ok, text |-> z.text, vars |-> z.vars]
      /\ z.ok \in BOOLEAN /\ (z.ok <=> r.ok /\ \A k \in 1 .. n : VarOk(parts[k]))
      /\ SameBut(z.text, r.text, s.at, s.len) /\ z.text \in Seq(Nat) /\ Len(z.text) = Len(r.text)
      /\ (\A k \in n + 1 .. N : ViewIn(items[k], z.text) /\ L!Read(z.text, items[k]) = parts[k])
      /\ (z.ok => /\ z.vars \in Seq(VarViews) /\ Len(z.vars) = n
                  /\ \A k \in 1 .. n : SaysVar(z.vars[k], z.text, items[k], parts[k]))
  BY DEF VarsUpto, SameBut
<1> HIDE DEF N
<1>3. n + 1 \in 1 .. N /\ n + 1 \in n + 1 .. N /\ n + 1 \in 1 .. n + 1 /\ n + 1 \in Nat
      /\ (\A k \in (n + 1) + 1 .. N : k \in n + 1 .. N /\ k \in 1 .. N /\ n + 1 < k)
      /\ (\A k \in 1 .. n : k \in 1 .. N /\ k < n + 1 /\ k \in 1 .. n + 1)
      /\ \A k \in 1 .. n + 1 : k \in 1 .. n \/ k = n + 1
  <2>1. n + 1 <= N
    BY DEF N
  <2> QED
    BY <1>1, <2>1
<1>4. ViewIn(item, z.text) /\ L!Read(z.text, item) = w /\ item.len > 0
      /\ s.at <= item.at /\ item.at + item.len <= s.at + s.len
  BY <1>1, <1>2, <1>3
<1>5. item.at \in Nat /\ item.len \in Nat /\ s.at \in Nat /\ s.len \in Nat /\ Len(r.text) \in Nat /\ Len(z.text) \in Nat
  BY <1>2, <1>4, ReadIs
<1> HIDE DEF item, w, y
<1>6. CASE z.ok = FALSE
  <2>1. y = [ok |-> FALSE, text |-> z.text, vars |-> z.vars]
    BY <1>2, <1>6 DEF L!ParseVar, y
  <2>2. y.ok = FALSE /\ y.text = z.text /\ y.vars = z.vars /\ y = [ok |-> y.ok, text |-> y.text, vars |-> y.vars]
    BY <2>1
  <2>3. ~(r.ok /\ \A k \in 1 .. n + 1 : VarOk(parts[k]))
    BY <1>2, <1>3, <1>6
  <2>4. VarsUpto(y, r, items, parts, s, n + 1)
    BY <1>2, <1>3, <2>2, <2>3 DEF VarsUpto, N
  <2> QED
    BY <2>4 DEF y, item
<1>7. CASE z.ok = TRUE
  <2>1. /\ y = [ok |-> y.ok, text |-> y.text, vars |-> y.vars]
        /\ SameBut(y.text, z.text, item.at, item.len)
        /\ y.ok \in BOOLEAN /\ (y.ok <=> VarOk(w))
        /\ y.ok => \E v \in VarViews : y.vars = Append(z.vars, v) /\ SaysVar(v, y.text, item, w)
    <3>1. LET a == L!ParseVar(z, item)
              b == L!Read(z.text, item)
          IN  /\ a = [ok |-> a.ok, text |-> a.text, vars |-> a.vars]
              /\ SameBut(a.text, z.text, item.at, item.len)
              /\ a.ok \in BOOLEAN /\ (a.ok <=> VarOk(b))
              /\ a.ok => \E v \in VarViews : a.vars = Append(z.vars, v) /\ SaysVar(v, a.text, item, b)
      BY <1>2, <1>4, <1>7, ParseVarIs
    <3> QED
      BY <1>4, <3>1 DEF y
  <2>2. SameBut(y.text, r.text, s.at, s.len)
    BY <1>2, <1>4, <1>5, <2>1, SameButMore
  <2>3. y.ok <=> r.ok /\ \A k \in 1 .. n + 1 : VarOk(parts[k])
    <3>1. (\A k \in 1 .. n + 1 : VarOk(parts[k])) <=> (\A k \in 1 .. n : VarOk(parts[k])) /\ VarOk(w)
      BY <1>3 DEF w
    <3>2. r.ok /\ \A k \in 1 .. n : VarOk(parts[k])
      BY <1>2, <1>7
    <3> QED
      BY <2>1, <3>1, <3>2
  <2>4. ASSUME NEW k \in (n + 1) + 1 .. N
        PROVE  ViewIn(items[k], y.text) /\ L!Read(y.text, items[k]) = parts[k]
    <3>1. ViewIn(items[k], z.text) /\ L!Read(z.text, items[k]) = parts[k]
      BY <1>2, <1>3
    <3>2. item.at + item.len <= items[k].at
      BY <1>1, <1>3 DEF item
    <3>3. Apart(items[k], item.at, item.len)
      BY <3>2 DEF Apart
    <3> QED
      BY <1>2, <1>5, <2>1, <3>1, <3>3, SameRead
  <2>5. ASSUME y.ok
        PROVE  /\ y.vars \in Seq(VarViews) /\ Len(y.vars) = n + 1
               /\ \A k \in 1 .. n + 1 : SaysVar(y.vars[k], y.text, items[k], parts[k])
    <3>1. PICK v \in VarViews : y.vars = Append(z.vars, v) /\ SaysVar(v, y.text, item, w)
      BY <2>1, <2>5
    <3>2. z.vars \in Seq(VarViews) /\ Len(z.vars) = n
          /\ \A k \in 1 .. n : SaysVar(z.vars[k], z.text, items[k], parts[k])
      BY <1>2, <1>7
    <3> DEFINE had == z.vars
               new == y.vars
    <3>3. new = Append(had, v) /\ had \in Seq(VarViews) /\ Len(had) = n
      BY <3>1, <3>2
    <3> HIDE DEF had, new
    <3>4. new \in Seq(VarViews) /\ Len(new) = n + 1 /\ (\A k \in 1 .. n : new[k] = had[k]) /\ new[n + 1] = v
      BY <3>3
    <3>5. ASSUME NEW k \in 1 .. n PROVE SaysVar(new[k], y.text, items[k], parts[k])
      <4>1. SaysVar(had[k], z.text, items[k], parts[k])
        BY <3>2 DEF had
      <4>2. items[k].at + items[k].len <= item.at
        BY <1>1, <1>3 DEF item
      <4>3. ViewIn(items[k], z.text)
        <5>1. ViewIn(items[k], r.text)
          BY <1>1, <1>3
        <5> QED
          BY <1>2, <5>1 DEF ViewIn
      <4>4. SaysVar(had[k], y.text, items[k], parts[k])
        BY <1>2, <1>5, <2>1, <4>1, <4>2, <4>3, SaysVarStill
      <4> QED
        BY <3>4, <4>4
    <3>6. \A k \in 1 .. n + 1 : SaysVar(new[k], y.text, items[k], parts[k])
      BY <1>3, <3>1, <3>4, <3>5 DEF item, w
    <3> QED
      BY <3>4, <3>6 DEF new
  <2>6. VarsUpto(y, r, items, parts, s, n + 1)
    BY <2>1, <2>2, <2>3, <2>4, <2>5 DEF VarsUpto, N
  <2> QED
    BY <2>6 DEF y, item
<1> QED
  BY <1>2, <1>6, <1>7

LEMMA ParseVarsIs ==
  ASSUME NEW r, r = [ok |-> r.ok, text |-> r.text, vars |-> <<>>], r.text \in Seq(Nat), r.ok \in BOOLEAN,
         NEW s, ViewIn(s, r.text), NEW items, NEW parts, IsSplit(items, parts, r.text, s)
  PROVE  VarsUpto(L!ParseVars(r, items), r, items, parts, s, Len(items))
<1> DEFINE n == Len(items)
           f == CHOOSE g : g = [m \in 0 .. Len(items) |->
                                  IF m = 0 THEN r ELSE L!ParseVar(g[m - 1], items[m])]
           Sound(k) == VarsUpto(f[k], r, items, parts, s, k)
           Unsound == {k \in 0 .. n : ~Sound(k)}
<1>1. /\ items \in Seq(Views) /\ n \in Nat
      /\ \A k \in 1 .. n : ViewIn(items[k], r.text) /\ L!Read(r.text, items[k]) = parts[k]
  BY DEF IsSplit
<1>2. AreVarTurns(f, r, items, n)
  <2>1. \E g : AreVarTurns(g, r, items, n)
    BY <1>1, VarTurnsAreThere
  <2>2. \E g : g = [m \in 0 .. Len(items) |-> IF m = 0 THEN r ELSE L!ParseVar(g[m - 1], items[m])]
    BY <2>1 DEF AreVarTurns
  <2>3. f = [m \in 0 .. Len(items) |-> IF m = 0 THEN r ELSE L!ParseVar(f[m - 1], items[m])]
    BY <2>2, Zenon
  <2> HIDE DEF f
  <2> QED
    BY <2>3 DEF AreVarTurns
<1>3. L!ParseVars(r, items) = f[n]
  BY DEF L!ParseVars
<1> HIDE DEF f, n
<1>4. f[0] = r /\ \A k \in 1 .. n : f[k] = L!ParseVar(f[k - 1], items[k])
  <2>1. 0 \in 0 .. n /\ \A k \in 1 .. n : k \in 0 .. n /\ k # 0
    BY <1>1
  <2> QED
    BY <1>2, <2>1 DEF AreVarTurns
<1>5. Sound(0)
  <2>1. r.vars = <<>> /\ r = [ok |-> r.ok, text |-> r.text, vars |-> r.vars]
    OBVIOUS
  <2>2. r.vars \in Seq(VarViews) /\ Len(r.vars) = 0
    BY <2>1
  <2>3. \A k \in 1 .. 0 : VarOk(parts[k]) /\ SaysVar(r.vars[k], r.text, items[k], parts[k])
    OBVIOUS
  <2>4. SameBut(r.text, r.text, s.at, s.len)
    BY DEF SameBut
  <2>5. \A k \in 0 + 1 .. n : ViewIn(items[k], r.text) /\ L!Read(r.text, items[k]) = parts[k]
    BY <1>1
  <2>6. VarsUpto(r, r, items, parts, s, 0)
    BY <2>1, <2>2, <2>3, <2>4, <2>5 DEF VarsUpto, n
  <2> QED
    BY <1>4, <2>6
<1>6. \A k \in 1 .. n : Sound(k - 1) => Sound(k)
  <2> SUFFICES ASSUME NEW k \in 1 .. n, Sound(k - 1) PROVE Sound(k)
    OBVIOUS
  <2> DEFINE z == f[k - 1]
             m == k - 1
  <2>1. m \in Nat /\ m + 1 = k /\ m + 1 <= Len(items)
    BY <1>1 DEF n
  <2>2. VarsUpto(z, r, items, parts, s, m)
    OBVIOUS
  <2>3. f[k] = L!ParseVar(z, items[k])
    BY <1>4
  <2> HIDE DEF z, m
  <2>4. VarsUpto(L!ParseVar(z, items[m + 1]), r, items, parts, s, m + 1)
    BY <2>1, <2>2, VarsGoOn
  <2> QED
    BY <2>1, <2>3, <2>4
<1> HIDE DEF Sound
<1>7. Unsound = {}
  <2> SUFFICES ASSUME Unsound # {} PROVE FALSE
    OBVIOUS
  <2>1. Unsound \in SUBSET Nat
    BY <1>1
  <2>2. PICK k \in Unsound : \A j \in Unsound : k <= j
    <3> HIDE DEF Unsound
    <3> QED
      BY <2>1, LeastIsThere
  <2>3. k # 0
    BY <1>5
  <2>4. k \in 1 .. n /\ k - 1 \in 0 .. n /\ ~(k <= k - 1)
    BY <1>1, <2>1, <2>3
  <2>5. Sound(k - 1)
    BY <2>2, <2>4
  <2> QED
    BY <1>6, <2>4, <2>5
<1>8. Sound(n)
  <2>1. n \in 0 .. n
    BY <1>1
  <2> QED
    BY <1>7, <2>1
<1> QED
  BY <1>3, <1>8 DEF Sound, n

-----------------------------------------------------------------------------
(* The first line                                                           *)

(* Nothing is split into nothing.                                           *)
LEMMA NothingIsSplit ==
  ASSUME NEW text, NEW s, NEW delims
  PROVE  IsSplit(<<>>, L!Fields(<<>>, delims), text, s)
<1> DEFINE b == <<>>
           parts == L!Fields(<<>>, delims)
<1>1. b \in Seq(Nat) /\ Len(b) = 0 /\ <<>> \in Seq(Nat) /\ <<>> \in Seq(Views) /\ DOMAIN b = {}
      /\ \A i : i \notin 1 .. 0
  OBVIOUS
<1>2. Begins(<<>>, delims) = {} /\ {b[i] : i \in 1 .. Len(b)} = {}
  BY <1>1 DEF Begins
<1>3. Ascending(b, Begins(<<>>, delims))
  BY <1>1, <1>2 DEF Ascending
<1>4. parts = [k \in 1 .. Len(b) |-> SubSeq(<<>>, b[k], EndOf(<<>>, delims, b[k]))]
  BY <1>1, <1>3, FieldsAre
<1>5. parts \in Seq(Nat) /\ Len(parts) = 0 /\ DOMAIN parts = 1 .. 0
  BY <1>1, <1>4
<1> HIDE DEF parts
<1> QED
  BY <1>1, <1>5 DEF IsSplit, parts

(* The parts of a URI: what comes before the first question mark and the    *)
(* variables behind it.                                                     *)
LEMMA UriIs ==
  ASSUME NEW text \in Seq(Nat), NEW target, ViewIn(target, text),
         NEW uri, uri = L!Decode(text, Left(text, target, L!Question)),
         NEW p, p = L!FindFirstOf(text, target, {L!Question}, 0),
         NEW list, list = IF p = -1 THEN <<>> ELSE L!Split(uri.text, L!Rest(target, p + 1), {L!Amp})
  PROVE  LET w == L!Read(text, target)
             s == Right(text, target, L!Question)
         IN  /\ IsDecoded(uri, text, Left(text, target, L!Question))
             /\ SameBut(uri.text, text, target.at, target.len)
             /\ (uri.ok <=> L!WellEscaped(L!Before(w, L!Question)))
             /\ uri.ok => L!Read(uri.text, uri.str) = L!Unescaped(L!Before(w, L!Question))
             /\ ViewIn(s, uri.text) /\ Inside(s, target)
             /\ IsSplit(list, L!Fields(L!After(w, L!Question), {L!Amp}), uri.text, s)
             /\ uri.ok => ViewIn(uri.str, uri.text) /\ Inside(uri.str, target) /\ Apart(uri.str, s.at, s.len)
<1> DEFINE ch == L!Question
           w == L!Read(text, target)
           l == Left(text, target, ch)
           r == Right(text, target, ch)
           before == L!Before(w, ch)
           after == L!After(w, ch)
<1>1. /\ ViewIn(l, text) /\ l.at = target.at /\ l.len <= target.len /\ L!Read(text, l) = before
      /\ ViewIn(r, text) /\ Inside(r, target) /\ L!Read(text, r) = after
      /\ r.len # 0 => l.at + l.len <= r.at
  BY CutIs
<1>2. r = IF p = -1 THEN L!Empty ELSE L!Rest(target, p + 1)
  BY DEF Right
<1> HIDE DEF w, l, r, ch, before, after
<1>3. IsDecoded(uri, text, l)
  BY <1>1, DecodeIs DEF l, ch
<1>4. /\ SameBut(uri.text, text, l.at, l.len) /\ uri.text \in Seq(Nat)
      /\ uri.ok \in BOOLEAN /\ (uri.ok <=> L!WellEscaped(before))
      /\ uri.ok => /\ ViewIn(uri.str, uri.text) /\ uri.str.at = l.at /\ uri.str.len <= l.len
                   /\ L!Read(uri.text, uri.str) = L!Unescaped(before)
  BY <1>1, <1>3 DEF IsDecoded, SameBut
<1> DEFINE a == target.at
           n == target.len
           k == l.len
           c == r.at
           m == r.len
<1>5. a \in Nat /\ n \in Nat /\ k \in Nat /\ c \in Nat /\ m \in Nat /\ l.at = a /\ Len(text) \in Nat
      /\ k <= n /\ (m = 0 \/ (a <= c /\ c + m <= a + n)) /\ (m # 0 => a + k <= c)
  BY <1>1, ReadIs DEF Inside
<1> HIDE DEF a, n, k, c, m
<1>6. SameBut(uri.text, text, a, n)
  <2>1. SameBut(uri.text, text, a, k) /\ (k = 0 \/ (a <= a /\ a + k <= a + n))
    BY <1>4, <1>5 DEF k
  <2> QED
    BY <1>5, <2>1, SameButWider
<1>7. ViewIn(r, uri.text) /\ L!Read(uri.text, r) = after
  <2>1. m = 0 \/ a + k <= c
    BY <1>5
  <2>2. Apart(r, l.at, l.len)
    BY <1>5, <2>1 DEF Apart, k, c, m
  <2> QED
    BY <1>1, <1>4, <1>5, <2>2, SameRead DEF k
<1>8. IsSplit(list, L!Fields(after, {L!Amp}), uri.text, r)
  <2>1. CASE p = -1
    <3>1. list = <<>> /\ r = L!Empty
      BY <1>2, <2>1
    <3>2. after = <<>>
      BY <1>4, <1>7, <3>1, EmptyIs
    <3> QED
      BY <3>1, <3>2, NothingIsSplit
  <2>2. CASE p # -1
    <3>1. list = L!Split(uri.text, r, {L!Amp})
      BY <1>2, <2>2
    <3> QED
      BY <1>4, <1>7, <3>1, SplitIs
  <2> QED
    BY <2>1, <2>2
<1>9. ASSUME uri.ok
      PROVE  ViewIn(uri.str, uri.text) /\ Inside(uri.str, target) /\ Apart(uri.str, c, m)
  <2> DEFINE d == uri.str.at
             g == uri.str.len
  <2>1. ViewIn(uri.str, uri.text) /\ d = a /\ g <= k /\ d \in Nat /\ g \in Nat
    BY <1>4, <1>5, <1>9, ReadIs DEF k
  <2> HIDE DEF d, g
  <2>2. (g = 0 \/ (a <= d /\ d + g <= a + n)) /\ (m = 0 \/ d + g <= c)
    BY <1>5, <2>1
  <2> QED
    BY <2>1, <2>2 DEF Inside, Apart, d, g, a, n
<1>10. /\ IsDecoded(uri, text, l)
       /\ SameBut(uri.text, text, target.at, target.len)
       /\ (uri.ok <=> L!WellEscaped(before))
       /\ (uri.ok => L!Read(uri.text, uri.str) = L!Unescaped(before))
       /\ ViewIn(r, uri.text) /\ Inside(r, target)
       /\ IsSplit(list, L!Fields(after, {L!Amp}), uri.text, r)
       /\ (uri.ok => ViewIn(uri.str, uri.text) /\ Inside(uri.str, target) /\ Apart(uri.str, r.at, r.len))
  BY <1>1, <1>3, <1>4, <1>6, <1>7, <1>8, <1>9 DEF a, n, c, m
<1> QED
  BY <1>10 DEF w, l, r, ch, before, after

(* The first line says what its URI, its variables and its version are.     *)
LEMMA FirstLineSays ==
  ASSUME NEW text \in Seq(Nat)
  PROVE  L!FirstLine(text) = L!FirstLineMeans(text)
<1> DEFINE whole == L!View(0, Len(text))
           items == L!Split(text, whole, L!Blanks)
           fields == L!Fields(text, L!Blanks)
           target == items[2]
           p == L!FindFirstOf(text, target, {L!Question}, 0)
           uri == L!Decode(text, IF p = L!NPos THEN target ELSE L!Substr(target, 0, p))
           list == IF p = L!NPos THEN <<>> ELSE L!Split(uri.text, L!Rest(target, p + 1), {L!Amp})
           start == [ok |-> uri.ok, text |-> uri.text, vars |-> <<>>]
           end == L!ParseVars(start, list)
           w == fields[2]
           before == L!Before(w, L!Question)
           parts == L!Fields(L!After(w, L!Question), {L!Amp})
           Refused == \/ Len(items) # 3
                    \/ ~L!IsMethod(L!Read(text, items[1]))
                    \/ L!At(text, target, 0) # L!Slash
                    \/ ~end.ok
           Accepted == /\ Len(fields) = 3 /\ L!IsMethod(fields[1])
                     /\ fields[2][1] = L!Slash
                     /\ L!WellEscaped(before)
                     /\ \A i \in DOMAIN parts :
                          /\ parts[i][1] # L!Equals
                          /\ L!WellEscaped(L!Before(parts[i], L!Equals))
                          /\ L!WellEscaped(L!After(parts[i], L!Equals))
           Found == [ok |-> TRUE, uri |-> L!Read(end.text, uri.str), version |-> L!Read(end.text, items[3]),
                     vars |-> [i \in DOMAIN end.vars |->
                                 <<L!Read(end.text, end.vars[i].name), L!Read(end.text, end.vars[i].value)>>]]
           Meant == [ok |-> TRUE, uri |-> L!Unescaped(before), version |-> fields[3],
                     vars |-> [i \in DOMAIN parts |-> <<L!Unescaped(L!Before(parts[i], L!Equals)),
                                                       L!Unescaped(L!After(parts[i], L!Equals))>>]]
<1>1. L!FirstLine(text) = IF Refused THEN L!NotParsed ELSE Found
  BY Zenon DEF L!FirstLine
<1>2. L!FirstLineMeans(text) = IF Accepted THEN Meant ELSE L!NotParsed
  BY Zenon DEF L!FirstLineMeans
<1>3. ViewIn(whole, text) /\ L!Read(text, whole) = text
  BY WholeLineIs
<1>4. IsSplit(items, fields, text, whole)
  <2>1. IsSplit(items, L!Fields(L!Read(text, whole), L!Blanks), text, whole)
    BY <1>3, SplitIs
  <2> QED
    BY <1>3, <2>1
<1>5. uri = L!Decode(text, Left(text, target, L!Question))
      /\ list = IF p = -1 THEN <<>> ELSE L!Split(uri.text, L!Rest(target, p + 1), {L!Amp})
  BY DEF Left, L!NPos
<1> HIDE DEF items, fields, whole, uri, list
<1>6. Len(items) = Len(fields)
  BY <1>4 DEF IsSplit
<1>7. CASE Len(items) # 3
  BY <1>1, <1>2, <1>6, <1>7, Zenon
<1>8. CASE Len(items) = 3
  <2>1. /\ ViewIn(target, text) /\ target.len > 0 /\ L!Read(text, target) = w
        /\ ViewIn(items[3], text) /\ L!Read(text, items[3]) = fields[3]
        /\ L!Read(text, items[1]) = fields[1]
        /\ target.at + target.len <= items[3].at
    <3>1. 1 \in 1 .. 3 /\ 2 \in 1 .. 3 /\ 3 \in 1 .. 3 /\ 2 < 3
      OBVIOUS
    <3> QED
      BY <1>4, <1>8, <3>1 DEF IsSplit
  <2>2. L!At(text, target, 0) = w[1]
    <3> DEFINE a == target.at
               n == target.len
    <3>1. /\ \A i \in 1 .. n : w[i] = text[a + i]
          /\ a \in Nat /\ n \in Nat /\ n > 0
      <4> HIDE DEF target, w
      <4>1. \A i \in 1 .. target.len : L!Read(text, target)[i] = text[target.at + i]
        BY <2>1, ReadIs
      <4>2. target.at \in Nat /\ target.len \in Nat
        BY <2>1, ReadIs
      <4>3. target.len > 0 /\ L!Read(text, target) = w
        BY <2>1
      <4> QED
        BY <4>1, <4>2, <4>3
    <3>2. L!At(text, target, 0) = text[a + 0 + 1]
      BY DEF L!At
    <3> HIDE DEF a, n, target, w
    <3>3. 1 \in 1 .. n /\ a + 0 + 1 = a + 1
      BY <3>1
    <3> QED
      BY <3>1, <3>2, <3>3
  <2> DEFINE s == Right(text, target, L!Question)
  <2>3. /\ IsDecoded(uri, text, Left(text, target, L!Question))
        /\ SameBut(uri.text, text, target.at, target.len)
        /\ (uri.ok <=> L!WellEscaped(before))
        /\ (uri.ok => L!Read(uri.text, uri.str) = L!Unescaped(before))
        /\ ViewIn(s, uri.text) /\ Inside(s, target)
        /\ IsSplit(list, parts, uri.text, s)
        /\ (uri.ok => ViewIn(uri.str, uri.text) /\ Inside(uri.str, target) /\ Apart(uri.str, s.at, s.len))
    <3> HIDE DEF target, p
    <3>1. LET y == L!Read(text, target)
              t == Right(text, target, L!Question)
          IN  /\ IsDecoded(uri, text, Left(text, target, L!Question))
              /\ SameBut(uri.text, text, target.at, target.len)
              /\ (uri.ok <=> L!WellEscaped(L!Before(y, L!Question)))
              /\ uri.ok => L!Read(uri.text, uri.str) = L!Unescaped(L!Before(y, L!Question))
              /\ ViewIn(t, uri.text) /\ Inside(t, target)
              /\ IsSplit(list, L!Fields(L!After(y, L!Question), {L!Amp}), uri.text, t)
              /\ uri.ok => ViewIn(uri.str, uri.text) /\ Inside(uri.str, target) /\ Apart(uri.str, t.at, t.len)
      <4>1. /\ uri = L!Decode(text, Left(text, target, L!Question))
            /\ p = L!FindFirstOf(text, target, {L!Question}, 0)
            /\ list = IF p = -1 THEN <<>> ELSE L!Split(uri.text, L!Rest(target, p + 1), {L!Amp})
        BY <1>5 DEF p
      <4> HIDE DEF start, end, w, before, parts, s, Refused, Accepted, Found, Meant
      <4>2. uri = L!Decode(text, Left(text, target, L!Question))
        BY <4>1
      <4>3. p = L!FindFirstOf(text, target, {L!Question}, 0)
        BY <4>1
      <4>4. list = IF p = -1 THEN <<>> ELSE L!Split(uri.text, L!Rest(target, p + 1), {L!Amp})
        BY <4>1
      <4>5. ViewIn(target, text)
        BY <2>1
      <4> QED
        BY <4>2, <4>3, <4>4, <4>5, UriIs
    <3> QED
      BY <2>1, <3>1, Zenon
  <2>4. uri.ok \in BOOLEAN /\ uri.text \in Seq(Nat)
    BY <2>3 DEF IsDecoded, SameBut
  <2> HIDE DEF s, target, w, before, parts
  <2>5. VarsUpto(end, start, list, parts, s, Len(list))
    <3>1. start.ok = uri.ok /\ start.text = uri.text
          /\ start = [ok |-> start.ok, text |-> start.text, vars |-> <<>>]
      OBVIOUS
    <3> HIDE DEF start
    <3>2. ViewIn(s, start.text) /\ IsSplit(list, parts, start.text, s) /\ start.text \in Seq(Nat)
          /\ start.ok \in BOOLEAN
      BY <2>3, <2>4, <3>1
    <3> QED
      BY <3>1, <3>2, ParseVarsIs
  <2> HIDE DEF end
  <2>6. /\ (end.ok <=> uri.ok /\ \A k \in 1 .. Len(list) : VarOk(parts[k]))
        /\ end.ok \in BOOLEAN
        /\ SameBut(end.text, uri.text, s.at, s.len)
        /\ end.ok => /\ end.vars \in Seq(VarViews) /\ Len(end.vars) = Len(list)
                     /\ \A k \in 1 .. Len(list) : SaysVar(end.vars[k], end.text, list[k], parts[k])
    <3>1. start.ok = uri.ok /\ start.text = uri.text
      OBVIOUS
    <3> QED
      BY <2>5, <3>1 DEF VarsUpto
  <2>7. Len(list) \in Nat /\ DOMAIN parts = 1 .. Len(list)
    BY <2>3 DEF IsSplit
  <2>8. Accepted <=> ~Refused
    <3>1. end.ok <=> /\ L!WellEscaped(before)
                     /\ \A i \in DOMAIN parts :
                          /\ parts[i][1] # L!Equals
                          /\ L!WellEscaped(L!Before(parts[i], L!Equals))
                          /\ L!WellEscaped(L!After(parts[i], L!Equals))
      BY <2>3, <2>6, <2>7, Zenon DEF VarOk
    <3> QED
      BY <1>6, <1>8, <2>1, <2>2, <3>1, Zenon DEF w
  <2>9. ASSUME end.ok PROVE Found = Meant
    <3>1. uri.ok
      BY <2>6, <2>9
    <3>2. s.at \in Nat /\ s.len \in Nat
      BY <2>3, <2>4, ReadIs
    <3>3. L!Read(end.text, uri.str) = L!Unescaped(before)
      BY <2>3, <2>4, <2>6, <3>1, <3>2, SameRead
    <3>4. L!Read(end.text, items[3]) = fields[3]
      <4> DEFINE third == items[3]
                 a == target.at
                 n == target.len
                 c == s.at
                 m == s.len
      <4>1. a \in Nat /\ n \in Nat /\ third.at \in Nat /\ third.len \in Nat
        BY <2>1, ReadIs
      <4>2. Apart(third, a, n)
        BY <2>1 DEF Apart
      <4>3. ViewIn(third, uri.text) /\ L!Read(uri.text, third) = fields[3]
        BY <2>1, <2>3, <4>1, <4>2, SameRead
      <4>4. (m = 0 \/ (a <= c /\ c + m <= a + n)) /\ a + n <= third.at
        BY <2>1, <2>3 DEF Inside
      <4> DEFINE b == third.at
      <4>5. c \in Nat /\ m \in Nat /\ b \in Nat
        BY <3>2, <4>1
      <4> HIDE DEF a, n, c, m, b
      <4>6. m = 0 \/ c + m <= b
        BY <4>1, <4>4, <4>5 DEF b
      <4>7. Apart(third, s.at, s.len)
        BY <4>6 DEF Apart, c, m, b
      <4> QED
        BY <2>4, <2>6, <3>2, <4>3, <4>7, SameRead
    <3>5. DOMAIN end.vars = DOMAIN parts
      BY <2>6, <2>7, <2>9
    <3>6. \A i \in DOMAIN parts :
            /\ L!Read(end.text, end.vars[i].name) = L!Unescaped(L!Before(parts[i], L!Equals))
            /\ L!Read(end.text, end.vars[i].value) = L!Unescaped(L!After(parts[i], L!Equals))
      BY <2>6, <2>7, <2>9 DEF SaysVar
    <3> QED
      BY <3>3, <3>4, <3>5, <3>6
  <2>10. Refused <=> ~end.ok \/ ~L!IsMethod(L!Read(text, items[1])) \/ L!At(text, target, 0) # L!Slash
    BY <1>8
  <2> HIDE DEF Found, Meant, Accepted
  <2>11. CASE Refused
    BY <1>1, <1>2, <2>8, <2>11, Zenon
  <2>12. CASE ~Refused
    BY <1>1, <1>2, <2>8, <2>9, <2>12, Zenon
  <2> QED
    BY <2>11, <2>12
<1> QED
  BY <1>7, <1>8

(* No line was read, or one of those that are sent.                         *)
LineInv == line = [kind |-> "none", text |-> <<>>] \/ line \in Lines

LEMMA LineStarts == ServiceInit => LineInv
BY DEF ServiceInit, LineInv

LEMMA LineKeeps == LineInv /\ [ServiceNext]_serviceVars => LineInv'
<1> SUFFICES ASSUME LineInv, [ServiceNext]_serviceVars PROVE LineInv'
  OBVIOUS
<1>1. CASE line' = line
  BY <1>1 DEF LineInv
<1>2. CASE L!ReadLine
  BY <1>2 DEF L!ReadLine, LineInv
<1> QED
  BY <1>1, <1>2 DEF ServiceNext, serviceVars

(* http_request.cpp and fast_str.cpp: whatever bytes a line is made of, the *)
(* views that the parser makes say what the line says, though decoding      *)
(* writes into the text that they share.                                    *)
THEOREM LinesAreUnderstood == ServiceSpec => []LineAsDefined
<1>1. LineInv => LineAsDefined
  <2> SUFFICES ASSUME LineInv PROVE LineAsDefined
    OBVIOUS
  <2>1. CASE line = [kind |-> "none", text |-> <<>>]
    BY <2>1 DEF LineAsDefined, L!LineAsDefined
  <2>2. CASE line \in Lines
    <3>1. line.text \in Seq(Nat)
      BY <2>2, HttpServiceAssumption DEF L!LinesAreBytes
    <3> QED
      BY <3>1, HeaderLineSays, FirstLineSays DEF LineAsDefined, L!LineAsDefined
  <2> QED
    BY <2>1, <2>2 DEF LineInv
<1> QED
  BY <1>1, LineStarts, LineKeeps, PTL DEF ServiceSpec
=============================================================================
