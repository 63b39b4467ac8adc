---------------------------- MODULE MCJobEngine ----------------------------
(* Finite instances of JobEngine for TLC, and what the job engine says of  *)
(* itself and does not do.                                                 *)
EXTENDS JobEngine, TLC

WorkerSymmetry == Permutations(Worker)
HealthySymmetry == Permutations(Device \ Poison)
-----------------------------------------------------------------------------
\* JobService.cancel refuses a closed job, so a closed job's status is final.
\* The guard reads the row before the UPDATE waits for the run to commit.
ClosedIsFinal ==
    [][\A j \in Job : Closed(j) => job'[j].status = job[j].status]_vars
=============================================================================
