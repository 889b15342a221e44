----------------------------- MODULE MCService ------------------------------
(* Instances of Service for TLC. *)
EXTENDS Service

CONSTANTS p1, p2, p3

Pids == {p1, p2, p3}

(* {{"", 2000}, {"0.0.0.0", 2001}, {"::", 2002}} of testtcp and testhttp; a *)
(* port; an address that excludes half of it; an empty list.                *)
Entry(v6, ip, port) == [v6 |-> v6, ip |-> ip, port |-> port]
DemoPorts ==
  <<Entry(FALSE, "", 2000), Entry(FALSE, "any", 2001), Entry(TRUE, "any", 2002)>>
Ports == {DemoPorts, <<Entry(FALSE, "", 2000)>>, <<Entry(TRUE, "::1", 2000)>>, <<>>}
=============================================================================
