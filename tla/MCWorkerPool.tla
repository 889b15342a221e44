---------------------------- MODULE MCWorkerPool ----------------------------
(* Instances of WorkerPool for TLC. *)
EXTENDS WorkerPool, TLC

CONSTANTS p1, p2, p3

Pids == {p1, p2, p3}
PidSymmetry == Permutations(Pid)
=============================================================================
