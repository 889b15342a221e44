----------------------------- MODULE Listeners ------------------------------
(***************************************************************************)
(* What acceptor_t promises about its listening sockets (acceptor.h,       *)
(* "Listens to a port", "Listens to a list of ports", "Get all listening   *)
(* ports"): a call of bind() adds all that it was asked for, in order, or  *)
(* nothing; close() gives everything up.  Module Binding implements it.    *)
(***************************************************************************)
EXTENDS Sequences, SequencesExt

CONSTANT Requests  \* the arguments of bind(): sequences of [ip, port]

VARIABLE binds     \* what acceptor_t::binds() returns: sequence of [v6, ip, port]

vars == <<binds>>

(* A socket on any address of a port excludes every other one.  IPv6        *)
(* sockets are IPV6_V6ONLY.                                                 *)
Clash(a, b) ==
  /\ a.v6 = b.v6 /\ a.port = b.port
  /\ a.ip = b.ip \/ "any" \in {a.ip, b.ip}

(* An entry without an address is for IPv4 and IPv6. *)
Expand(entry) ==
  IF entry.ip = ""
  THEN <<[v6 |-> FALSE, ip |-> "any", port |-> entry.port],
         [v6 |-> TRUE, ip |-> "any", port |-> entry.port]>>
  ELSE <<[v6 |-> entry.v6, ip |-> entry.ip, port |-> entry.port]>>

Asked(request) == FlattenSeq([i \in DOMAIN request |-> Expand(request[i])])

Free(addrs) == \A i, j \in DOMAIN addrs : i # j => ~Clash(addrs[i], addrs[j])

BInit == binds = <<>>

Bind(request) ==
  /\ Free(binds \o Asked(request))
  /\ binds' = binds \o Asked(request)

CloseAll == binds' = <<>>

Next == CloseAll \/ \E request \in Requests : Bind(request)

Spec == BInit /\ [][Next]_vars
=============================================================================
