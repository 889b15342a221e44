--------------------------- MODULE MCHttpProcessor ---------------------------
(* Instances of HttpProcessor for TLC. *)
EXTENDS HttpProcessor

Either == {TRUE, FALSE}
TwoUris == {"a", "b"}

(* Requests that the parser accepts: line ends of both kinds, no header,    *)
(* several headers, contents that look like more header.                    *)
Accepted == {
  <<"a", "cr", "lf", "host", "cr", "lf", "cr", "lf">>,
  <<"b", "lf", "key", "lf", "len2", "cr", "lf", "cr", "lf", "lf", "nul">>,
  <<"a", "cr", "lf", "cr", "lf">>,
  <<"b", "cr", "lf", "len1", "lf", "host", "cr", "lf", "cr", "lf", "b">>}

(* Requests with something wrong in the first line, a header, the content   *)
(* length or the line ends.                                                 *)
Refused == {
  <<"key", "cr", "lf", "cr", "lf">>,
  <<"cr", "lf", "a", "cr", "lf">>,
  <<"a", "cr", "lf", "bad", "cr", "lf", "cr", "lf">>,
  <<"a", "lf", "key", "nul", "lf", "cr", "lf">>,
  <<"a", "lf", "key", "lf", "lf">>,
  <<"a", "cr", "lf", "huge", "cr", "lf", "cr", "lf">>}

GoodScripts == {<<m, n>> : m, n \in Accepted}
AllScripts == GoodScripts \cup {<<m, n>> : m \in Accepted, n \in Refused}
OneRequest == {<<m>> : m \in Accepted}

(* Every text of up to five atoms, and the clients of both kinds. *)
Atoms == {"a", "host", "len1", "x", "cr", "lf", "nul"}
Texts == {<<t>> : t \in UNION {[1 .. n -> Atoms] : n \in 1 .. 5}}
AnyScript == AllScripts \cup Texts

(* What HttpProofs supposes of requests that come one after the other.      *)
ASSUME MCFramed == ScriptsAreFramed
=============================================================================
