------------------------------ MODULE ConnLife ------------------------------
(***************************************************************************)
(* What the acceptor promises about the life of its connection objects,    *)
(* whatever the sockets, the handler and the order of events do.           *)
(*                                                                         *)
(* A conn_t object is allocated or taken from the pool ("open" from then   *)
(* on), may have AIO tasks that the kernel still works on, and is given up *)
(* when the connection ends.  An object the kernel still holds a pointer   *)
(* to is never pooled, never deleted and never handed to another client:   *)
(* it drains first.  The pool never holds more than MaxFree objects.       *)
(* Acceptor.tla implements this specification.                             *)
(***************************************************************************)
EXTENDS Naturals, FiniteSets

CONSTANTS
  Conn,      \* identities of conn_t objects
  MaxFree    \* config_t::max_free_connection()

VARIABLES
  up,        \* run_tcp() is executing
  life,      \* where each object is in its life
  tasks      \* AIO tasks of the object not yet reported to the process

vars == <<up, life, tasks>>

Lives == {"absent", "open", "draining", "pooled"}

TypeOK ==
  /\ up \in BOOLEAN
  /\ life \in [Conn -> Lives]
  /\ tasks \in [Conn -> Nat]

Init ==
  /\ up = TRUE
  /\ life = [c \in Conn |-> "absent"]
  /\ tasks = [c \in Conn |-> 0]

(* A client gets an object nobody else is using, the kernel included. *)
Open(c) ==
  /\ life[c] \in {"absent", "pooled"}
  /\ tasks[c] = 0
  /\ life'[c] = "open"

(* An open connection starts and completes tasks. *)
Serve(c) == life[c] = "open" /\ life'[c] = "open"

(* Nothing starts a task for an object that is not open. *)
Keep(c) ==
  /\ life[c] # "open"
  /\ life'[c] = life[c]
  /\ tasks'[c] <= tasks[c]

(* The connection ended while the kernel still works for it. *)
Drain(c) ==
  /\ life[c] = "open"
  /\ life'[c] = "draining"
  /\ tasks'[c] > 0

(* An object is given up only when no task can come back to it.  A client *)
(* that is lost while it is accepted takes its object there in one step.  *)
Release(c) ==
  /\ life'[c] \in {"pooled", "absent"}
  /\ tasks'[c] = 0

(* One event may touch several objects: a read of the signal queue reports *)
(* the tasks of every connection.                                          *)
Run ==
  /\ life' \in [Conn -> Lives]
  /\ tasks' \in [Conn -> Nat]
  /\ \A c \in Conn : Open(c) \/ Serve(c) \/ Keep(c) \/ Drain(c) \/ Release(c)
  /\ Cardinality({c \in Conn : life'[c] = "pooled"}) <= MaxFree
  /\ up' \in BOOLEAN

(* run_tcp() returns: every object is deleted and the tasks that are left *)
(* have nobody to report to.                                              *)
Stop ==
  /\ life' = [c \in Conn |-> "absent"]
  /\ up' = FALSE
  /\ UNCHANGED tasks

Next == up /\ (Run \/ Stop)

Spec == Init /\ [][Next]_vars
=============================================================================
