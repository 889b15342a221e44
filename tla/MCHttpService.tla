---------------------------- MODULE MCHttpService ----------------------------
(* Instances of HttpService for TLC. *)
EXTENDS HttpService, MCHttpProcessor

SomeCodes == {200, 202, 404}
SomeErrors == {404}
SomeConfigs == {{}, {"keepAlive", "defaultType"}, {"date", "defaultType"}}

(* One client that asks twice. *)
Twice == <<"a", "cr", "lf", "cr", "lf">>
BusyScripts == {<<Twice, Twice>>}

(* First lines with one of three beginnings; first lines with up to five    *)
(* characters after the slash, or an escaped "&" between up to two and two; *)
(* header lines of up to six.                                               *)
TextsOf(n, chars) == UNION {[1 .. k -> chars] : k \in 0 .. n}
Get == <<71, 101, 116>>
Begins == {Get, Get \o <<32>>, <<71, 32>>}
Target(t) == Get \o <<32, 47>> \o t \o <<32, 49>>
First == {b \o t : b \in Begins, t \in TextsOf(5, {9, 32, 47, 97})} \cup
  {Target(t) : t \in TextsOf(5, {37, 38, 50, 53, 61, 63})} \cup
  {Target(t \o <<37, 50, 54>> \o u) : t, u \in TextsOf(2, {37, 38, 50, 61, 63})}
SomeLines ==
  {[kind |-> "first", text |-> t] : t \in First} \cup
  {[kind |-> "header", text |-> t] : t \in TextsOf(6, {9, 32, 58, 97, 98})}
=============================================================================
