---------------------------- MODULE MCWorkerPool ----------------------------
(* The worker pool on small sets of jobs and workers.                      *)
EXTENDS WorkerPool, TLC

JobSymmetry == Permutations(Job)
=============================================================================
