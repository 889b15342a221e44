------------------------------ MODULE Binding -------------------------------
(***************************************************************************)
(* How acceptor_t gets its listening sockets: bind() for a list and for    *)
(* one entry, bind_ipv4() and bind_ipv6() (acceptor.cpp), the calls of     *)
(* socket_t they make (socket.cpp), and listen_t, which closes its socket  *)
(* when it is destroyed (listen.cpp).  Every system call may fail.         *)
(*                                                                         *)
(* The kernel gives a new socket the lowest descriptor that is free.       *)
(***************************************************************************)
EXTENDS Integers, Sequences, SequencesExt, FiniteSetsExt

CONSTANTS
  Requests,  \* the arguments of bind(): sequences of [v6, ip, port]
  MaxCalls   \* bound: calls of bind()

(* What a list of ports is made of. *)
Entries == UNION {ToSet(r) : r \in Requests}

ASSUME BindingAssumption == Requests \subseteq Seq(Entries) /\ MaxCalls \in Nat

VARIABLES
  at,        \* where bind() is
  request,   \* its argument
  single,    \* bind(ip, port), not bind(list)
  entry,     \* `it'
  second,    \* bind_ipv6() after bind_ipv4() for an entry without an address
  oldSize,   \* old_size
  sd,        \* the socket that is being made, -1 if there is none
  listed,    \* acceptor_t::m_listens: sequence of [fd, addr]
  kernel,    \* open sockets by descriptor: [addr, listening]
  calls      \* calls so far

bindVars == <<at, request, single, entry, second, oldSize, sd, listed, kernel, calls>>

NoAddr == [v6 |-> FALSE, ip |-> "none", port |-> 0]

(* What the kernel has open: the socket of each listen_t, and then what is   *)
(* in no listen_t.                                                          *)
Fds == {listed[i].fd : i \in DOMAIN listed}

Served ==
  [i \in DOMAIN listed |->
     IF listed[i].fd \in DOMAIN kernel THEN kernel[listed[i].fd].addr ELSE NoAddr] \o
  [i \in 1 .. Cardinality(DOMAIN kernel \ Fds) |-> NoAddr]

(* Inside a call nothing has been bound yet. *)
L == INSTANCE Listeners WITH
       binds <- IF at = "idle" THEN Served ELSE SubSeq(Served, 1, oldSize)

(* The address that is being bound. *)
Addr == L!Expand(request[entry])[IF second THEN 2 ELSE 1]

BindInit ==
  /\ at = "idle" /\ calls = 0
  /\ request = <<>> /\ single = FALSE /\ entry = 1 /\ second = FALSE /\ oldSize = 0
  /\ sd = -1
  /\ listed = <<>> /\ kernel = << >>

-----------------------------------------------------------------------------
(* bind() is called with a list, or with one entry. *)
Call ==
  /\ at = "idle" /\ calls < MaxCalls
  /\ \E r \in Requests, s \in BOOLEAN :
       /\ s => Len(r) = 1
       /\ request' = r /\ single' = s
       /\ at' = IF r = <<>> THEN at ELSE "socket"
  /\ entry' = 1 /\ second' = FALSE
  /\ oldSize' = Len(listed)
  /\ calls' = calls + 1
  /\ UNCHANGED <<sd, listed, kernel>>

(* socket() *)
NewSocket ==
  /\ at = "socket"
  /\ \/ /\ sd' = Min(0 .. Cardinality(DOMAIN kernel) \ DOMAIN kernel)
        /\ kernel' = [f \in DOMAIN kernel \cup {sd'} |->
             IF f = sd' THEN [addr |-> NoAddr, listening |-> FALSE] ELSE kernel[f]]
        /\ at' = "bind"
     \/ at' = "failed" /\ sd' = -1 /\ UNCHANGED kernel
  /\ UNCHANGED <<request, single, entry, second, oldSize, listed, calls>>

(* setsockopt(), inet_pton() and bind() *)
BindSocket ==
  /\ at = "bind"
  /\ \/ /\ \A f \in DOMAIN kernel : kernel[f].listening => ~L!Clash(kernel[f].addr, Addr)
        /\ kernel' = [kernel EXCEPT ![sd].addr = Addr]
        /\ at' = "listen"
     \/ at' = "failed" /\ UNCHANGED kernel
  /\ UNCHANGED <<request, single, entry, second, oldSize, sd, listed, calls>>

(* listen(); a listen_t takes the socket, and the next address is tried. *)
ListenSocket ==
  /\ at = "listen"
  /\ kernel' = [kernel EXCEPT ![sd].listening = TRUE]
  /\ listed' = Append(listed, [fd |-> sd, addr |-> Addr])
  /\ sd' = -1
  /\ second' = (~second /\ request[entry].ip = "")
  /\ entry' = IF second' THEN entry ELSE entry + 1
  /\ at' = IF entry' > Len(request) THEN "idle" ELSE "socket"
  /\ UNCHANGED <<request, single, oldSize, calls>>

ListenFails ==
  /\ at = "listen" /\ at' = "failed"
  /\ UNCHANGED <<request, single, entry, second, oldSize, sd, listed, kernel, calls>>

(* Mutant of Closing: listen_t leaves its socket open. *)
ClosingNone(size) == {}

(* The descriptors that m_listens.resize(size) closes. *)
Closing(size) == {listed[i].fd : i \in size + 1 .. Len(listed)}

Resize(size) ==
  /\ listed' = SubSeq(listed, 1, size)
  /\ kernel' = Restrict(kernel, DOMAIN kernel \ (Closing(size) \cup {sd}))

(* Mutant of SizeAfter: the IPv4 half stays. *)
SizeKept == IF single THEN Len(listed) ELSE oldSize

(* What a failure leaves of m_listens: bind(ip, port) drops the IPv4 half   *)
(* of its entry, bind(list) everything it has added.                        *)
SizeAfter == IF single THEN Len(listed) - (IF second THEN 1 ELSE 0) ELSE oldSize

(* The socket that failed is closed and the call undone. *)
Failed ==
  /\ at = "failed"
  /\ Resize(SizeAfter)
  /\ sd' = -1 /\ second' = FALSE
  /\ at' = "idle"
  /\ UNCHANGED <<request, single, entry, oldSize, calls>>

(* acceptor_t::close() *)
Close ==
  /\ at = "idle" /\ listed # <<>>
  /\ Resize(0)
  /\ UNCHANGED <<at, request, single, entry, second, oldSize, sd, calls>>

BindNext ==
  \/ Call \/ NewSocket \/ BindSocket \/ ListenSocket \/ ListenFails \/ Failed \/ Close

BindTypeOK ==
  /\ at \in {"idle", "socket", "bind", "listen", "failed"}
  /\ at # "idle" => entry \in DOMAIN request
  /\ Len(listed) >= oldSize \/ at = "idle"
  /\ calls \in 0 .. MaxCalls
  /\ sd = -1 \/ sd \in DOMAIN kernel

-----------------------------------------------------------------------------
(* Properties *)

(* bind() adds all that it was asked for or nothing, whichever of its       *)
(* system calls fails, half of an entry included, and m_listens and the     *)
(* kernel agree on what is open: no socket is left open or closed twice.    *)
BindsAllOrNothing == L!Spec
=============================================================================
