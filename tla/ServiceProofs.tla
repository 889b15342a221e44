--------------------------- MODULE ServiceProofs ----------------------------
(***************************************************************************)
(* A program on acceptor_t runs its worker pool as WorkerPool has it and   *)
(* binds its sockets as Binding has it, so what WorkerPoolProofs and       *)
(* BindingProofs prove of the two holds of the program, its exit included. *)
(***************************************************************************)
EXTENDS Service, WorkerPoolProofs, BindingProofs

(* Binding the sockets and leaving main() do not touch the pool.            *)
LEMMA ServiceStep == [ServiceNext]_serviceVars => [Next]_vars
<1> SUFFICES ASSUME [ServiceNext]_serviceVars PROVE [Next]_vars
  OBVIOUS
<1>1. CASE Binds \/ Runs \/ Exits
  BY <1>1 DEF Binds, Runs, Exits
<1>2. CASE InPool(Next)
  BY <1>2 DEF InPool
<1>3. CASE UNCHANGED serviceVars
  BY <1>3 DEF serviceVars
<1> QED
  BY <1>1, <1>2, <1>3 DEF ServiceNext

(* run_tcp() is called when bind() has returned.                            *)
BoundFirst == phase = "runs" => at = "idle"

(* Only bind(), close() and the end of main() touch the sockets.            *)
LEMMA ServiceBindStep ==
  ASSUME BInv, BoundFirst, [ServiceNext]_serviceVars
  PROVE  BInv' /\ Changes(Binds0, Binds0') /\ BoundFirst'
<1>1. CASE Binds
  <2>1. BInv' /\ Changes(Binds0, Binds0')
    BY <1>1, BindStep DEF Binds
  <2> QED
    BY <1>1, <2>1 DEF Binds, BoundFirst
<1>2. CASE Runs \/ InPool(Next) \/ UNCHANGED serviceVars
  <2>1. UNCHANGED bindVars
    BY <1>2 DEF Runs, InPool, serviceVars
  <2>2. BInv' /\ Changes(Binds0, Binds0')
    BY <2>1, NothingBinds DEF Changes
  <2>3. BoundFirst'
    BY <1>2, <2>1 DEF BoundFirst, Runs, InPool, serviceVars, bindVars
  <2> QED
    BY <2>2, <2>3
<1>3. CASE Exits
  <2>1. /\ at = "idle" /\ Resize(0) /\ phase' # "runs"
        /\ UNCHANGED <<at, request, single, entry, second, oldSize, sd, calls>>
    BY <1>3 DEF Exits, BoundFirst
  <2> QED
    BY <2>1, CloseStep DEF BoundFirst
<1> QED
  BY <1>1, <1>2, <1>3 DEF ServiceNext

(* main(): the program runs its worker pool as WorkerPool has it, from the  *)
(* initial state on and step by step.                                       *)
THEOREM ServiceRunsPool == ServiceSpec => Spec
<1>1. ServiceInit => Init
  BY DEF ServiceInit
<1> QED
  BY <1>1, ServiceStep, PTL DEF ServiceSpec, Spec

(* ~acceptor_t(), run_tcp(): a program that has left run_tcp() has told     *)
(* every worker that lives to stop.                                         *)
THEOREM ServiceTellsAll == ServiceSpec => []AllAreTold
BY ServiceRunsPool, AllAreToldCorrect, PTL

(* What the program has bound is what the kernel has open, from the start   *)
(* of main() to its end.                                                    *)
THEOREM ServiceInvariant == ServiceSpec => [](BInv /\ BoundFirst)
<1>1. ServiceInit => BInv /\ BoundFirst
  BY BindStarts DEF ServiceInit, BoundFirst
<1>2. BInv /\ BoundFirst /\ [ServiceNext]_serviceVars
        => BInv' /\ BoundFirst'
  BY ServiceBindStep
<1> QED
  BY <1>1, <1>2, PTL DEF ServiceSpec

(* Every variable of the program has its type: the pool's, those of bind()  *)
(* and where the program is.                                                *)
THEOREM ServiceTypeCorrect == ServiceSpec => []ServiceTypeOK
<1>1. ServiceSpec => []TypeOK
  BY ServiceRunsPool, PoolTypeCorrect, PTL
<1>2. BInv => BindTypeOK
  BY BInvTypes
<1> DEFINE Phase == phase \in {"binds", "runs", "failed", "returned"}
<1>3. ServiceInit => Phase
  BY DEF ServiceInit
<1>4. Phase /\ [ServiceNext]_serviceVars => Phase'
  BY DEF ServiceNext, Binds, Runs, InPool, Exits, serviceVars
<1>5. TypeOK /\ BindTypeOK /\ Phase => ServiceTypeOK
  BY DEF ServiceTypeOK
<1> HIDE DEF Phase
<1> QED
  BY <1>1, <1>2, <1>3, <1>4, <1>5, ServiceInvariant, PTL DEF ServiceSpec

(* bind() adds all that it was asked for or nothing, whichever of its       *)
(* system calls fails, and the end of main() gives up all of it: the        *)
(* sockets of the program are what Listeners has.                           *)
THEOREM ServiceBinds == ServiceSpec => BindsAllOrNothing
<1>1. ServiceInit => L!BInit
  BY BindStarts, BindsAre DEF ServiceInit, L!BInit
<1>2. BInv => BindsAgree
  BY BindsAre DEF BindsAgree
<1>3. /\ BInv /\ BoundFirst /\ BindsAgree /\ BindsAgree'
      /\ [ServiceNext]_serviceVars
      => [L!Next]_(L!vars)
  BY ServiceBindStep, BindsChange
<1> QED
  BY <1>1, <1>2, <1>3, ServiceInvariant, PTL DEF ServiceSpec, BindsAllOrNothing, L!Spec
=============================================================================
