-------------------------- MODULE WorkerPoolProofs --------------------------
(***************************************************************************)
(* Proofs about WorkerPool, for any number of workers and process ids.     *)
(* What matters is that m_workers of the main process is the set of its    *)
(* children (Children): then counting the dead gives the number to fork    *)
(* (Counted), and kill_all() leaves nobody out (AllAreTold).               *)
(***************************************************************************)
EXTENDS WorkerPool, FiniteSetTheorems, TLAPS

(* The types of the variables, without what TypeOK says of their relations. *)
Types ==
  /\ main \in {"create", "loop", "restart", "clean", "done", "killed"}
  /\ toFork \in 0 .. N
  /\ workers \subseteq Pid
  /\ exiting \in BOOLEAN /\ blocked \in BOOLEAN /\ chld \in BOOLEAN
  /\ term \in BOOLEAN /\ listens \in BOOLEAN
  /\ edge \subseteq Pid \cup {Main}
  /\ proc \in [Pid -> {"none", "setup", "loop", "quit", "zombie"}]
  /\ shares \in SUBSET Pid /\ sigterm \in SUBSET Pid
  /\ \A p \in shares \cup sigterm : Alive(p)
  /\ deaths \in 0 .. MaxDeaths /\ mishaps \subseteq {"early", "fork"}

(* A worker's kill_all() sends nothing: m_main_process is set in the main   *)
(* process only.                                                            *)
OneMain == mainProcess = {Main}

(* While the main process lives it has sent no SIGTERM.                     *)
Children ==
  Parent => sigterm = {} /\ \A p \in Pid : p \in workers <=> proc[p] # "none"

(* While the pool is kept up, the workers and the forks to come are N,      *)
(* unless fork() has failed.                                                *)
Counted ==
  main \in {"create", "loop", "restart"} =>
    /\ IsFiniteSet(workers)
    /\ Cardinality(workers) + toFork <= N
    /\ "fork" \notin mishaps => Cardinality(workers) + toFork = N
    /\ main = "loop" => toFork = 0

IInv == Types /\ OneMain /\ Children /\ Counted /\ AllAreTold

-----------------------------------------------------------------------------
(* Forking a child that is not in the set, and sorting out the dead.        *)
LEMMA CardAdd ==
  ASSUME NEW S, IsFiniteSet(S), NEW p, p \notin S
  PROVE  /\ IsFiniteSet(S \cup {p})
         /\ Cardinality(S) \in Nat
         /\ Cardinality(S \cup {p}) = Cardinality(S) + 1
BY FS_AddElement, FS_CardinalityType

LEMMA CardSplit ==
  ASSUME NEW S, IsFiniteSet(S), NEW D
  PROVE  /\ IsFiniteSet(S \ D)
         /\ Cardinality(D \cap S) \in Nat
         /\ Cardinality(S \ D) \in Nat
         /\ Cardinality(S \ D) + Cardinality(D \cap S) = Cardinality(S)
<1>1. /\ IsFiniteSet(S \ D)
      /\ Cardinality(S \ D) = Cardinality(S) - Cardinality(S \cap D)
  BY FS_Difference
<1>2. IsFiniteSet(S \cap D) /\ S \cap D = D \cap S
  BY FS_Intersection
<1>3. Cardinality(S) \in Nat /\ Cardinality(S \ D) \in Nat /\ Cardinality(S \cap D) \in Nat
  BY <1>1, <1>2, FS_CardinalityType
<1> QED
  BY <1>1, <1>2, <1>3

-----------------------------------------------------------------------------
LEMMA InitIInv == Init => IInv
<1> SUFFICES ASSUME Init PROVE IInv
  OBVIOUS
<1>1. Types
  <2>1. toFork \in 0 .. N /\ deaths \in 0 .. MaxDeaths
    BY PoolAssumption DEF Init
  <2>2. shares \cup sigterm = {} /\ workers = {} /\ edge = {} /\ mishaps = {}
    BY DEF Init
  <2>3. proc \in [Pid -> {"none", "setup", "loop", "quit", "zombie"}]
    BY DEF Init
  <2> QED
    BY <2>1, <2>2, <2>3 DEF Init, Types
<1>2. OneMain /\ Children /\ AllAreTold
  BY DEF Init, OneMain, Children, AllAreTold
<1>3. Counted
  BY FS_EmptySet, PoolAssumption DEF Init, Counted
<1> QED
  BY <1>1, <1>2, <1>3 DEF IInv

-----------------------------------------------------------------------------
(* One lemma per action that the invariant is about. *)

LEMMA ForkStep ==
  ASSUME IInv, NEW p \in Pid, Fork(p)
  PROVE  IInv'
<1>1. Types'
  BY PoolAssumption DEF IInv, Types, Alive, Fork, mainVars, sigVars, workerVars, history, Parent, Main
<1>2. OneMain' /\ Children'
  BY PoolAssumption DEF IInv, Types, OneMain, Children, ChildRoles, Fork, mainVars, sigVars, workerVars, history, Parent, Main
<1>a. p \notin workers /\ workers' = workers \cup {p} /\ toFork' = toFork - 1
  BY DEF IInv, Children, Fork, Parent
<1>b. IsFiniteSet(workers)
  BY DEF IInv, Counted, Fork
<1>c. /\ IsFiniteSet(workers') /\ Cardinality(workers) \in Nat
      /\ Cardinality(workers') = Cardinality(workers) + 1
  BY <1>a, <1>b, CardAdd
<1>3. Counted'
  BY <1>a, <1>b, <1>c, PoolAssumption DEF IInv, Types, Counted, Fork, mainVars, sigVars, workerVars, history, Parent, Main
<1>4. AllAreTold'
  BY DEF IInv, Types, AllAreTold, Alive, Children, Fork, mainVars, sigVars, workerVars, history, Parent, Main
<1> QED
  BY <1>1, <1>2, <1>3, <1>4 DEF IInv

LEMMA ForkFailureStep ==
  ASSUME IInv, ForkFailure
  PROVE  IInv'
<1>1. Types'
  BY PoolAssumption DEF IInv, Types, Alive, ForkFailure, mainVars, sigVars, workerVars, history, Parent, Main
<1>2. OneMain' /\ Children'
  BY DEF IInv, Types, OneMain, Children, ForkFailure, mainVars, sigVars, workerVars, history, Parent, Main
<1>a. IsFiniteSet(workers) => Cardinality(workers) \in Nat
  BY FS_CardinalityType
<1>3. Counted'
  BY <1>a, PoolAssumption DEF IInv, Types, Counted, ForkFailure, mainVars, sigVars, workerVars, history, Parent, Main
<1>4. AllAreTold'
  BY DEF IInv, Types, AllAreTold, Alive, Children, ForkFailure, mainVars, sigVars, workerVars, history, Parent, Main
<1> QED
  BY <1>1, <1>2, <1>3, <1>4 DEF IInv

LEMMA MainSetupStep ==
  ASSUME IInv, MainSetup
  PROVE  IInv'
<1>1. Types'
  BY DEF IInv, Types, Alive, MainSetup, SignalfdI, mainVars, sigVars, workerVars, history, Parent, Main
<1>2. OneMain' /\ Children'
  BY DEF IInv, Types, OneMain, Children, MainSetup, SignalfdI, mainVars, sigVars, workerVars, history, Parent, Main
<1>3. Counted'
  BY DEF IInv, Types, Counted, MainSetup, SignalfdI, mainVars, sigVars, workerVars, history, Parent, Main
<1>4. AllAreTold'
  BY DEF IInv, Types, AllAreTold, Alive, Children, MainSetup, SignalfdI, mainVars, sigVars, workerVars, history, Parent, Main
<1> QED
  BY <1>1, <1>2, <1>3, <1>4 DEF IInv

LEMMA MainSignalStep ==
  ASSUME IInv, MainSignal
  PROVE  IInv'
<1>a. IsFiniteSet(workers) /\ toFork = 0 /\ Cardinality(workers) <= N
      /\ ("fork" \notin mishaps => Cardinality(workers) = N)
  <2>1. IsFiniteSet(workers) => Cardinality(workers) \in Nat
    BY FS_CardinalityType
  <2> QED
    BY <2>1, PoolAssumption DEF IInv, Counted, MainSignal
<1>b. /\ IsFiniteSet(workers \ Zombies)
      /\ Cardinality(Zombies \cap workers) \in Nat /\ Cardinality(workers \ Zombies) \in Nat
      /\ Cardinality(workers \ Zombies) + Cardinality(Zombies \cap workers) = Cardinality(workers)
  BY <1>a, CardSplit
<1>c. toFork' \in 0 .. N
  BY <1>a, <1>b, PoolAssumption DEF IInv, Types, MainSignal, DeadWorkers, Reaped
<1>1. Types'
  BY <1>c DEF IInv, Types, Alive, MainSignal, SignalsRead, Erased, DeadWorkers, Reaped, Zombies, mainVars, sigVars, workerVars, history, Parent, Main
<1>2. OneMain' /\ Children'
  BY DEF IInv, Types, OneMain, Children, MainSignal, SignalsRead, Erased, DeadWorkers, Reaped, Zombies, mainVars, sigVars, workerVars, history, Parent, Main
<1>d. /\ IsFiniteSet(workers') /\ Cardinality(workers') + toFork' = Cardinality(workers)
  <2>1. CASE chld
    BY <2>1, <1>b DEF MainSignal, DeadWorkers, Erased, Reaped
  <2>2. CASE ~chld
    BY <2>2, <1>a, FS_CardinalityType DEF MainSignal
  <2> QED
    BY <2>1, <2>2
<1>3. Counted'
  BY <1>a, <1>d DEF IInv, Types, Counted, MainSignal, SignalsRead, Erased, DeadWorkers, Reaped, Zombies, mainVars, sigVars, workerVars, history, Parent, Main
<1>4. AllAreTold'
  BY DEF IInv, Types, AllAreTold, Alive, Children, MainSignal, SignalsRead, Erased, DeadWorkers, Reaped, Zombies, mainVars, sigVars, workerVars, history, Parent, Main
<1> QED
  BY <1>1, <1>2, <1>3, <1>4 DEF IInv

LEMMA RestartDoneStep ==
  ASSUME IInv, RestartDone
  PROVE  IInv'
<1>1. Types'
  BY DEF IInv, Types, Alive, RestartDone, mainVars, sigVars, workerVars, history, Parent, Main
<1>2. OneMain' /\ Children'
  BY DEF IInv, Types, OneMain, Children, RestartDone, mainVars, sigVars, workerVars, history, Parent, Main
<1>3. Counted'
  BY DEF IInv, Types, Counted, RestartDone, mainVars, sigVars, workerVars, history, Parent, Main
<1>4. AllAreTold'
  BY DEF IInv, Types, AllAreTold, Alive, Children, RestartDone, mainVars, sigVars, workerVars, history, Parent, Main
<1> QED
  BY <1>1, <1>2, <1>3, <1>4 DEF IInv

(* kill_all() reaches every worker from the main process, and none from a   *)
(* worker.                                                                  *)
LEMMA WhoKills ==
  ASSUME IInv
  PROVE  KillAll(Main) = workers /\ \A p \in Pid : KillAll(p) = {}
BY PoolAssumption DEF IInv, OneMain, KillAll, Main

LEMMA MainCleanStep ==
  ASSUME IInv, MainClean
  PROVE  IInv'
<1>w. KillAll(Main) = workers
  BY WhoKills
<1>a. /\ proc' = [p \in Pid |->
           IF proc[p] = "zombie" \/ p \in Killed(workers) THEN "none" ELSE proc[p]]
      /\ sigterm' = sigterm \cup Told(workers)
      /\ edge' = edge \cup Woken(workers)
      /\ main' = "done" /\ workers' = {} /\ shares' = shares
      /\ UNCHANGED <<toFork, exiting, mainProcess, blocked, chld, term, listens, deaths, mishaps>>
  BY <1>w DEF MainClean, sigVars, history
<1>b. /\ proc' \in [Pid -> {"none", "setup", "loop", "quit", "zombie"}]
      /\ sigterm' \in SUBSET Pid /\ edge' \subseteq Pid \cup {Main}
  BY <1>a DEF IInv, Types, Told, Woken
<1>c. sigterm = {} /\ \A p \in Pid : p \in workers <=> proc[p] # "none"
  BY DEF IInv, MainClean, Children, Parent
<1>d. ASSUME NEW p \in Pid, Alive(p), p \notin Killed(workers) PROVE Alive(p)'
  BY <1>a, <1>d DEF Alive
<1>e. ASSUME NEW p \in shares' \cup sigterm' PROVE Alive(p)'
  <2>1. p \in Pid /\ Alive(p)
    BY <1>a, <1>c, <1>b DEF IInv, Types, Told
  <2>2. p \notin Killed(workers)
    BY <1>a, <1>c, <2>1 DEF Killed, Told
  <2> QED
    BY <1>d, <2>1, <2>2
<1>1. Types'
  BY <1>a, <1>b, <1>e DEF IInv, Types
<1>2. OneMain' /\ Children' /\ Counted'
  BY <1>a DEF IInv, OneMain, Children, Counted, Parent
<1>4. AllAreTold'
  <2> SUFFICES ASSUME NEW p \in Pid, Alive(p)'
               PROVE  proc'[p] = "quit" \/ (p \in sigterm' /\ (p \in shares' \/ p \in edge'))
    BY DEF AllAreTold
  <2>1. Alive(p) /\ proc'[p] = proc[p] /\ p \notin Killed(workers)
    BY <1>a DEF Alive
  <2>2. p \in workers
    BY <1>c, <2>1 DEF Alive
  <2>3. p \in sigterm'
    BY <1>a, <2>1, <2>2 DEF Told
  <2>4. p \in shares \/ proc[p] = "quit" \/ p \in Woken(workers)
    BY <2>1, <2>2 DEF Alive, Killed, Woken
  <2> QED
    BY <1>a, <2>1, <2>3, <2>4
<1> QED
  BY <1>1, <1>2, <1>4 DEF IInv

LEMMA WorkerSetupStep ==
  ASSUME IInv, NEW p \in Pid, WorkerSetup(p)
  PROVE  IInv'
<1>1. Types'
  BY DEF IInv, Types, Alive, WorkerSetup, mainVars, sigVars, workerVars, history, Parent, Main
<1>2. OneMain' /\ Children'
  BY DEF IInv, Types, OneMain, Children, WorkerSetup, mainVars, sigVars, workerVars, history, Parent, Main
<1>3. Counted'
  BY DEF IInv, Types, Counted, WorkerSetup, mainVars, sigVars, workerVars, history, Parent, Main
<1>4. AllAreTold'
  BY DEF IInv, Types, AllAreTold, Alive, Children, WorkerSetup, mainVars, sigVars, workerVars, history, Parent, Main
<1> QED
  BY <1>1, <1>2, <1>3, <1>4 DEF IInv

LEMMA WorkerSignalStep ==
  ASSUME IInv, NEW p \in Pid, WorkerSignal(p)
  PROVE  IInv'
<1>1. Types'
  BY DEF IInv, Types, Alive, WorkerSignal, mainVars, sigVars, workerVars, history, Parent, Main
<1>2. OneMain' /\ Children'
  BY DEF IInv, Types, OneMain, Children, WorkerSignal, mainVars, sigVars, workerVars, history, Parent, Main
<1>3. Counted'
  BY DEF IInv, Types, Counted, WorkerSignal, mainVars, sigVars, workerVars, history, Parent, Main
<1>4. AllAreTold'
  BY PoolAssumption DEF IInv, Types, AllAreTold, Alive, Children, WorkerSignal, mainVars, sigVars, workerVars, history, Parent, Main
<1> QED
  BY <1>1, <1>2, <1>3, <1>4 DEF IInv

(* A worker that ends without killing anybody.                              *)
LEMMA VanishStep ==
  ASSUME IInv, NEW p \in Pid, Alive(p), Vanish(p, {}),
         UNCHANGED <<mainVars, blocked, term>>, listens' \in BOOLEAN,
         deaths' \in 0 .. MaxDeaths
  PROVE  IInv'
<1>a. /\ proc' = [q \in Pid |-> IF q = p THEN IF Parent THEN "zombie" ELSE "none" ELSE proc[q]]
      /\ shares' = shares \ {p} /\ sigterm' = sigterm \ {p}
      /\ chld' = (chld \/ (Parent /\ blocked))
      /\ edge' = (edge \ {p}) \cup IF Parent /\ blocked /\ ~chld THEN {Main} ELSE {}
      /\ mishaps' = IF Parent /\ ~blocked THEN mishaps \cup {"early"} ELSE mishaps
  <2>1. Killed({}) = {} /\ Told({}) = {} /\ Woken({}) = {}
    BY DEF Killed, Told, Woken
  <2> QED
    BY <2>1 DEF Vanish
<1>b. UNCHANGED <<main, toFork, exiting, workers, mainProcess, blocked, term>>
  BY DEF mainVars
<1>1. Types'
  BY <1>a, <1>b DEF IInv, Types, Alive
<1>2. OneMain' /\ Children' /\ Counted'
  BY <1>a, <1>b DEF IInv, Types, OneMain, Children, Counted, Parent, Alive
<1>4. AllAreTold'
  BY <1>a, <1>b DEF IInv, Types, AllAreTold, Alive, Parent
<1> QED
  BY <1>1, <1>2, <1>4 DEF IInv

LEMMA WorkerQuitsStep ==
  ASSUME IInv, NEW p \in Pid, WorkerQuits(p)
  PROVE  IInv'
<1>1. Vanish(p, {})
  BY WhoKills DEF WorkerQuits
<1>2. Alive(p) /\ listens' \in BOOLEAN /\ deaths' \in 0 .. MaxDeaths
  BY DEF IInv, Types, WorkerQuits, Alive
<1> QED
  BY <1>1, <1>2, VanishStep DEF WorkerQuits

LEMMA CrashStep ==
  ASSUME IInv, NEW p \in Pid, Crash(p)
  PROVE  IInv'
<1>1. listens' \in BOOLEAN /\ deaths' \in 0 .. MaxDeaths
  BY PoolAssumption DEF IInv, Types, Crash, MayDie
<1> QED
  BY <1>1, VanishStep DEF Crash

LEMMA WorkerFailsStep ==
  ASSUME IInv, NEW p \in Pid, WorkerFails(p)
  PROVE  IInv'
<1>1. Types'
  BY PoolAssumption DEF IInv, Types, Alive, WorkerFails, MayDie, mainVars, sigVars
<1>2. OneMain' /\ Children' /\ Counted'
  BY DEF IInv, Types, OneMain, Children, Counted, WorkerFails, mainVars, sigVars, Parent
<1>4. AllAreTold'
  BY DEF IInv, Types, AllAreTold, Alive, WorkerFails, mainVars, sigVars
<1> QED
  BY <1>1, <1>2, <1>4 DEF IInv

LEMMA SendTermStep ==
  ASSUME IInv, SendTerm
  PROVE  IInv'
<1>1. Types'
  BY DEF IInv, Types, Alive, SendTerm, mainVars, sigVars, workerVars, history, Parent, Main
<1>2. OneMain' /\ Children'
  BY DEF IInv, Types, OneMain, Children, SendTerm, mainVars, sigVars, workerVars, history, Parent, Main
<1>3. Counted'
  BY DEF IInv, Types, Counted, SendTerm, mainVars, sigVars, workerVars, history, Parent, Main
<1>4. AllAreTold'
  BY DEF IInv, Types, AllAreTold, Alive, Children, SendTerm, mainVars, sigVars, workerVars, history, Parent, Main
<1> QED
  BY <1>1, <1>2, <1>3, <1>4 DEF IInv

LEMMA NextIInv == IInv /\ [Next]_vars => IInv'
<1> SUFFICES ASSUME IInv, [Next]_vars PROVE IInv'
  OBVIOUS
<1>1. CASE MainStep
  BY <1>1, ForkStep, MainSetupStep, MainSignalStep, RestartDoneStep, MainCleanStep DEF MainStep
<1>2. CASE ForkFailure
  BY <1>2, ForkFailureStep
<1>3. ASSUME NEW p \in Pid, WorkerStep(p) \/ Crash(p) \/ WorkerFails(p) PROVE IInv'
  BY <1>3, WorkerSetupStep, WorkerSignalStep, WorkerQuitsStep, CrashStep,
     WorkerFailsStep DEF WorkerStep
<1>4. CASE SendTerm
  BY <1>4, SendTermStep
<1>5. CASE UNCHANGED vars
  BY <1>5 DEF IInv, Types, OneMain, Children, Counted, AllAreTold, Alive, Parent, vars, mainVars, sigVars,
              workerVars, history
<1> QED
  BY <1>1, <1>2, <1>3, <1>4, <1>5 DEF Next, Terminated

(* The invariant that the following theorems rest on.                      *)
THEOREM Invariant == Spec => []IInv
BY InitIInv, NextIInv, PTL DEF Spec

-----------------------------------------------------------------------------
(* Every variable of the pool keeps its type; dead processes have neither   *)
(* signals nor a share in the main process's epoll instance.                *)
THEOREM PoolTypeCorrect == Spec => []TypeOK
<1>1. IInv => TypeOK
  BY DEF IInv, Types, OneMain, TypeOK
<1> QED
  BY <1>1, Invariant, PTL

(* worker_pool_t::m_workers is the set of the children that were not waited *)
(* for, as long as the main process lives.                                  *)
THEOREM WorkersCorrect == Spec => []WorkersAreChildren
<1>1. IInv => WorkersAreChildren
  BY DEF IInv, Types, Children, WorkersAreChildren
<1> QED
  BY <1>1, Invariant, PTL

(* kill_all() at the end of run_tcp() has told every worker that lives to   *)
(* stop, and has woken those that have an epoll instance of their own.      *)
THEOREM AllAreToldCorrect == Spec => []AllAreTold
<1>1. IInv => AllAreTold
  BY DEF IInv
<1> QED
  BY <1>1, Invariant, PTL

(* on_worker_terminated_i() and restart_worker_i() keep N workers unless    *)
(* fork() fails.                                                            *)
THEOREM PoolFullCorrect == Spec => []PoolFull
<1>1. IInv => PoolFull
  <2> SUFFICES ASSUME IInv, main = "loop", "fork" \notin mishaps
               PROVE  Cardinality(workers) = N
    BY DEF PoolFull
  <2>1. Cardinality(workers) \in Nat
    BY FS_CardinalityType DEF IInv, Counted
  <2> QED
    BY <2>1 DEF IInv, Counted
<1> QED
  BY <1>1, Invariant, PTL
=============================================================================
