----------------------------- MODULE WorkerPool -----------------------------
(***************************************************************************)
(* The main process and its worker processes: worker_pool_t                *)
(* (worker_pool.cpp) and the parts of acceptor_t that use it (run_tcp,     *)
(* on_signalled_i, on_worker_terminated_i, restart_worker_i).              *)
(*                                                                         *)
(* The initial workers are forked before run_tcp() creates its epoll       *)
(* instance and blocks its signals; each creates its own.  A worker that   *)
(* is forked later, in restart_worker_i(), shares the main process's epoll *)
(* instance and signalfd, and inherits the signal mask.                    *)
(*                                                                         *)
(* What the kernel does, as far as it matters here: a standard signal that *)
(* is already pending is not queued again; SIGCHLD is discarded and        *)
(* SIGTERM kills while they are not blocked; a signalfd in an epoll        *)
(* instance raises an edge for signals of the process that registered it,  *)
(* one of the processes that wait on the instance takes the edge, and it   *)
(* sees an event only if a signal is pending for itself; adding a socket   *)
(* to an epoll instance a second time fails (EEXIST).                      *)
(***************************************************************************)
EXTENDS Integers, FiniteSets

CONSTANTS
  Pid,         \* process ids of workers
  N,           \* config_t::worker_processes()
  MaxDeaths,   \* bound: workers that crash or whose run_tcp() fails
  EarlyDeath,  \* TRUE: a worker may crash before main has blocked SIGCHLD
  ForkFails    \* TRUE: fork() may fail

ASSUME PoolAssumption ==
  /\ N \in Nat \ {0}
  /\ MaxDeaths \in Nat
  /\ EarlyDeath \in BOOLEAN /\ ForkFails \in BOOLEAN
  /\ "main" \notin Pid

VARIABLES
  main,      \* where the main process is
  toFork,    \* forks left in worker_pool_t::create()
  exiting,   \* main has read SIGTERM
  workers,   \* worker_pool_t::m_workers of the main process
  mainProcess, \* processes whose m_main_process is set
  blocked,   \* main has blocked its signals
  chld,      \* SIGCHLD is pending for main
  term,      \* SIGTERM is pending for main
  edge,      \* the signalfd edge of each epoll instance
  listens,   \* the listening sockets are in main's epoll instance
  proc,      \* where each worker is
  shares,    \* workers that use main's epoll instance
  sigterm,   \* workers with SIGTERM pending
  deaths,    \* workers that crashed or failed so far
  mishaps    \* history: "early", a worker died before SIGCHLD was blocked;
             \* "fork", fork() failed

mainVars == <<main, toFork, exiting, workers, mainProcess>>
sigVars == <<blocked, chld, term>>
workerVars == <<proc, shares, sigterm>>
history == <<deaths, mishaps>>
vars == <<mainVars, sigVars, workerVars, edge, listens, history>>

Main == "main"
Parent == main \notin {"done", "killed"}

Init ==
  /\ main = "create" /\ toFork = N /\ exiting = FALSE
  /\ workers = {} /\ mainProcess = {Main}
  /\ blocked = FALSE /\ chld = FALSE /\ term = FALSE
  /\ edge = {}
  /\ listens = FALSE
  /\ proc = [p \in Pid |-> "none"]
  /\ shares = {} /\ sigterm = {}
  /\ deaths = 0 /\ mishaps = {}

-----------------------------------------------------------------------------
Alive(p) == proc[p] \in {"setup", "loop", "quit"}

(* SIGTERM sent to the processes of S kills those that have not blocked it  *)
(* and is pending for the others; it wakes those that wait on an epoll      *)
(* instance of their own.                                                   *)
Killed(S) == {p \in S : proc[p] = "setup" /\ p \notin shares}
Told(S) == {p \in S : Alive(p)} \ Killed(S)
Woken(S) == {p \in S : proc[p] = "loop" /\ p \notin shares}

(* The end of a worker that has sent SIGTERM to S: it is a zombie, and main *)
(* gets SIGCHLD unless one is already pending or main has not blocked it.   *)
(* Without a parent, init reaps it.                                         *)
Vanish(p, S) ==
  LET gone == {p} \cup Killed(S)
  IN  /\ proc' = [q \in Pid |->
           IF q \in gone THEN IF Parent THEN "zombie" ELSE "none" ELSE proc[q]]
      /\ shares' = shares \ gone
      /\ sigterm' = (sigterm \cup Told(S)) \ gone
      /\ chld' = (chld \/ (Parent /\ blocked))
      /\ edge' = ((edge \cup Woken(S)) \ gone) \cup
                 IF Parent /\ blocked /\ ~chld THEN {Main} ELSE {}
      /\ mishaps' = IF Parent /\ ~blocked THEN mishaps \cup {"early"} ELSE mishaps

Zombies == {p \in Pid : proc[p] = "zombie"}

-----------------------------------------------------------------------------
(* The main process *)

(* Mutant of ChildRoles: the child keeps the flag. *)
RolesKept(p) == mainProcess \cup {p}

(* create() clears m_main_process in the child. *)
ChildRoles(p) == mainProcess \ {p}

(* One turn of worker_pool_t::create().  A child forked by restart_worker_i *)
(* while SIGTERM is being handled finds the exit flag set as well.          *)
Fork(p) ==
  /\ main \in {"create", "restart"} /\ toFork > 0
  /\ proc[p] = "none"
  /\ toFork' = toFork - 1
  /\ workers' = workers \cup {p}
  /\ mainProcess' = ChildRoles(p)
  /\ proc' = [proc EXCEPT ![p] =
       IF main = "restart" /\ exiting THEN "quit" ELSE "setup"]
  /\ shares' = IF main = "restart" THEN shares \cup {p} ELSE shares
  /\ UNCHANGED <<main, exiting, sigVars, sigterm, edge, listens, history>>

(* create() returns the error at once; run_tcp() gives up, but             *)
(* restart_worker_i() does not look at it.                                 *)
ForkFailure ==
  /\ ForkFails /\ main \in {"create", "restart"} /\ toFork > 0
  /\ toFork' = 0
  /\ main' = IF main = "create" THEN "clean" ELSE main
  /\ mishaps' = mishaps \cup {"fork"}
  /\ UNCHANGED <<exiting, workers, mainProcess, sigVars, workerVars, edge, listens,
                 deaths>>

(* signalfd_i() blocks the signals before it makes the descriptor; each of  *)
(* the two may fail.                                                        *)
SignalfdI(ok) == IF ok THEN blocked' = TRUE ELSE blocked' \in BOOLEAN

(* epoll_create1(), signalfd_i() and the registration of the signalfd; each *)
(* may fail, and what is blocked by then stays so.  The main process of a   *)
(* pool registers no listening socket.                                      *)
MainSetup ==
  /\ main = "create" /\ toFork = 0
  /\ \E ok \in BOOLEAN :
       /\ main' = IF ok THEN "loop" ELSE "clean"
       /\ SignalfdI(ok)
  /\ UNCHANGED <<toFork, exiting, workers, mainProcess, chld, term, workerVars, edge,
                 listens, history>>

(* Mutants of Erased: on_terminated() finds the pid but leaves it; of       *)
(* DeadWorkers: counted from one, the answer of on_terminated() misread.    *)
Unerased(dead) == workers
OneMoreDead(dead) == Cardinality(dead \cap workers) + 1
UnknownDead(dead) == Cardinality(dead \ workers)

(* on_worker_terminated_i(): waitpid() until no child is left that ended. *)
Reaped == Zombies

(* worker_pool_t::on_terminated() for each of them. *)
Erased(dead) == workers \ dead
DeadWorkers(dead) == Cardinality(dead \cap workers)

(* read_nonblock() of the signalfd takes every pending signal. *)
SignalsRead == chld' = FALSE /\ term' = FALSE

(* on_signalled_i() in the main process, up to restart_worker_i(). *)
MainSignal ==
  /\ main = "loop" /\ Main \in edge
  /\ edge' = edge \ {Main}
  /\ SignalsRead
  /\ IF chld
     THEN /\ proc' = [p \in Pid |-> IF p \in Reaped THEN "none" ELSE proc[p]]
          /\ workers' = Erased(Reaped)
          /\ toFork' = DeadWorkers(Reaped)
     ELSE UNCHANGED <<proc, workers, toFork>>
  /\ exiting' = term
  /\ main' = "restart"
  /\ UNCHANGED <<mainProcess, blocked, shares, sigterm, listens, history>>

RestartDone ==
  /\ main = "restart" /\ toFork = 0
  /\ main' = IF exiting THEN "clean" ELSE "loop"
  /\ UNCHANGED <<toFork, exiting, workers, mainProcess, sigVars, workerVars, edge,
                 listens, history>>

(* Mutant of KillAll: kill_all() leaves one out. *)
KillAllButOne(q) ==
  IF q \in mainProcess /\ workers # {} THEN workers \ {CHOOSE p \in workers : TRUE}
                                      ELSE {}

(* Those to whom worker_pool_t::kill_all() sends SIGTERM, in process q.  The *)
(* copy of m_workers that a worker inherits is not kept apart: only the main *)
(* process may look at it.                                                   *)
KillAll(q) == IF q \in mainProcess THEN workers ELSE {}

(* kill_all() at the end of run_tcp() in the main process, which exits.  It  *)
(* leaves its children to init.                                              *)
MainClean ==
  /\ main = "clean"
  /\ main' = "done"
  /\ workers' = {}
  /\ proc' = [p \in Pid |->
       IF proc[p] = "zombie" \/ p \in Killed(KillAll(Main)) THEN "none" ELSE proc[p]]
  /\ sigterm' = sigterm \cup Told(KillAll(Main))
  /\ edge' = edge \cup Woken(KillAll(Main))
  /\ UNCHANGED <<toFork, exiting, mainProcess, sigVars, shares, listens, history>>

-----------------------------------------------------------------------------
(* The workers *)

(* A worker's way to epoll_wait(): run_tcp() with an epoll instance of its  *)
(* own, or the rest of restart_worker_i(), where the second registration of *)
(* the listening sockets fails and the worker leaves run_tcp().             *)
WorkerSetup(p) ==
  /\ proc[p] = "setup"
  /\ proc' = [proc EXCEPT ![p] = IF p \in shares /\ listens THEN "quit" ELSE "loop"]
  /\ listens' = (listens \/ p \in shares)
  /\ UNCHANGED <<mainVars, sigVars, shares, sigterm, edge, history>>

(* The worker takes the edge of the epoll instance it waits on. *)
WorkerSignal(p) ==
  LET e == IF p \in shares THEN Main ELSE p
  IN  /\ proc[p] = "loop" /\ e \in edge
      /\ IF p \in sigterm
         THEN /\ proc' = [proc EXCEPT ![p] = "quit"]
              /\ sigterm' = sigterm \ {p}
         ELSE UNCHANGED <<proc, sigterm>>
      /\ edge' = edge \ {e}
      /\ UNCHANGED <<mainVars, sigVars, shares, listens, history>>

(* run_tcp() returns in the worker, kill_all() at its end included, and the *)
(* worker exits.  One that was forked while SIGTERM was handled registers   *)
(* the listening sockets first.                                             *)
WorkerQuits(p) ==
  /\ proc[p] = "quit"
  /\ Vanish(p, KillAll(p))
  /\ listens' = (listens \/ p \in shares)
  /\ UNCHANGED <<mainVars, blocked, term, deaths>>

-----------------------------------------------------------------------------
(* The environment *)

MayDie(p) == deaths < MaxDeaths /\ (blocked \/ EarlyDeath)

(* A worker crashes.  Bound: MaxDeaths. *)
Crash(p) ==
  /\ Alive(p) /\ MayDie(p)
  /\ deaths' = deaths + 1
  /\ Vanish(p, {})
  /\ UNCHANGED <<mainVars, blocked, term, listens>>

(* A system call fails in a worker, which leaves run_tcp() the way that the *)
(* main process does.  Bound: MaxDeaths.                                    *)
WorkerFails(p) ==
  /\ proc[p] = "loop" \/ (proc[p] = "setup" /\ p \notin shares)
  /\ MayDie(p)
  /\ deaths' = deaths + 1
  /\ proc' = [proc EXCEPT ![p] = "quit"]
  /\ UNCHANGED <<mainVars, sigVars, shares, sigterm, edge, listens, mishaps>>

(* Somebody sends SIGTERM to the main process. *)
SendTerm ==
  /\ Parent /\ ~term
  /\ IF blocked
     THEN /\ term' = TRUE /\ edge' = edge \cup {Main}
          /\ UNCHANGED <<main, proc>>
     ELSE /\ main' = "killed"
          /\ proc' = [p \in Pid |-> IF proc[p] = "zombie" THEN "none" ELSE proc[p]]
          /\ UNCHANGED <<term, edge>>
  /\ UNCHANGED <<toFork, exiting, workers, mainProcess, blocked, chld, shares, sigterm,
                 listens, history>>

Terminated == ~Parent /\ UNCHANGED vars

-----------------------------------------------------------------------------
MainStep ==
  \/ MainSetup \/ MainSignal \/ RestartDone \/ MainClean
  \/ \E p \in Pid : Fork(p)

WorkerStep(p) == WorkerSetup(p) \/ WorkerSignal(p) \/ WorkerQuits(p)

Next ==
  \/ MainStep \/ ForkFailure
  \/ \E p \in Pid : WorkerStep(p) \/ Crash(p) \/ WorkerFails(p)
  \/ SendTerm \/ Terminated

Spec == Init /\ [][Next]_vars

(* Every process that can take a step of its own is scheduled. *)
FairSpec == Spec /\ WF_vars(MainStep) /\ \A p \in Pid : WF_vars(WorkerStep(p))

-----------------------------------------------------------------------------
(* Properties *)

Serving == {p \in Pid : proc[p] = "loop"}

(* Every variable has its type; only children have signals or share. *)
TypeOK ==
  /\ main \in {"create", "loop", "restart", "clean", "done", "killed"}
  /\ toFork \in 0 .. N
  /\ workers \subseteq Pid /\ mainProcess \subseteq Pid \cup {Main}
  /\ exiting \in BOOLEAN /\ blocked \in BOOLEAN /\ chld \in BOOLEAN
  /\ term \in BOOLEAN /\ listens \in BOOLEAN
  /\ edge \subseteq Pid \cup {Main}
  /\ proc \in [Pid -> {"none", "setup", "loop", "quit", "zombie"}]
  /\ shares \subseteq {p \in Pid : Alive(p)}
  /\ sigterm \subseteq {p \in Pid : Alive(p)}
  /\ deaths \in 0 .. MaxDeaths /\ mishaps \subseteq {"early", "fork"}

(* m_workers holds exactly the children that were not waited for: kill_all() *)
(* reaches every worker and never the owner of a recycled pid.               *)
WorkersAreChildren ==
  Parent => workers = {p \in Pid : proc[p] # "none"}

(* When the main process has returned from run_tcp(), kill_all() has told   *)
(* every worker that lives, one that it has restarted or is just starting   *)
(* included: the worker is leaving, or SIGTERM is pending for it, and then  *)
(* its epoll instance has an edge for it if that is its own.  A restarted   *)
(* worker waits on the instance of the main process and may never read its  *)
(* SIGTERM: this does not say that it stops.  SIGTERM before the signals    *)
(* are blocked ends the main process elsewhere.                             *)
AllAreTold ==
  main = "done" => \A p \in Pid : Alive(p) =>
    proc[p] = "quit" \/ (p \in sigterm /\ (p \in shares \/ p \in edge))

(* Counting the dead children replaces each of them exactly once, unless    *)
(* fork() fails.                                                            *)
PoolFull ==
  main = "loop" /\ "fork" \notin mishaps => Cardinality(workers) = N

(* "If any of them died, the library would restart it automatically"        *)
(* (README.md:37-38): a service that keeps running serves with N workers    *)
(* again.                                                                   *)
Restored ==
  main = "loop" /\ Cardinality(Serving) < N
    ~> Cardinality(Serving) = N \/ main \in {"clean", "done", "killed"}

(* The same of the first worker that crashes or fails, when nothing else    *)
(* goes wrong; its end must not be that of its siblings.                    *)
RestoredOnce ==
  main = "loop" /\ Cardinality(Serving) < N
    ~> \/ Cardinality(Serving) = N \/ main \in {"clean", "done", "killed"}
       \/ deaths > 1 \/ mishaps # {}

AllGone == main = "done" /\ \A p \in Pid : proc[p] = "none"

(* "If Linux signal SIGINT or SIGTERM is recevied, the service will quit"    *)
(* (README.md:87), the main process and every worker, as long as no restarted *)
(* worker has joined the main process's epoll instance, which is when the    *)
(* listening sockets get there.  From then on it may not quit: that worker   *)
(* takes edges of the main process, and has none for its own SIGTERM.        *)
StopsUnlessRestarted == term ~> AllGone \/ listens
=============================================================================
