------------------------------ MODULE Service -------------------------------
(***************************************************************************)
(* A program on acceptor_t with worker processes (README.md, testtcp and   *)
(* testhttp main()): it binds its listening sockets (module Binding),      *)
(* runs the service (module WorkerPool), and exits when run_tcp() returns  *)
(* or when bind() has failed and it cannot do without; ~acceptor_t()       *)
(* closes the sockets of the main process.                                 *)
(***************************************************************************)
EXTENDS WorkerPool, Binding

VARIABLE phase  \* where the program is

serviceVars == <<vars, bindVars, phase>>

ServiceInit == Init /\ BindInit /\ phase = "binds"

Binds == phase = "binds" /\ BindNext /\ UNCHANGED <<vars, phase>>

Runs ==
  /\ phase = "binds" /\ at = "idle" /\ listed # <<>>
  /\ phase' = "runs"
  /\ UNCHANGED <<vars, bindVars>>

(* The workers may outlive the main process. *)
InPool(step) == phase \in {"runs", "returned"} /\ step /\ UNCHANGED <<bindVars, phase>>

(* main() returns. *)
Exits ==
  /\ \/ phase = "binds" /\ at = "idle" /\ calls > 0 /\ phase' = "failed"
     \/ phase = "runs" /\ main = "done" /\ phase' = "returned"
  /\ Resize(0)
  /\ UNCHANGED <<vars, at, request, single, entry, second, oldSize, sd, calls>>

ServiceNext == Binds \/ Runs \/ InPool(Next) \/ Exits

(* The program runs, and every process that can take a step of its own is   *)
(* scheduled.                                                               *)
ServiceSpec ==
  /\ ServiceInit /\ [][ServiceNext]_serviceVars
  /\ WF_serviceVars(InPool(MainStep))
  /\ \A p \in Pid : WF_serviceVars(InPool(WorkerStep(p)))

(* Every variable has its type. *)
ServiceTypeOK ==
  /\ TypeOK /\ BindTypeOK
  /\ phase \in {"binds", "runs", "failed", "returned"}
=============================================================================
