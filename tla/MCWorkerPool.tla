---------------------------- MODULE MCWorkerPool ----------------------------
(* WorkerPool for TLC.  Workers are numbered, and StopWorker visits them   *)
(* in that order, so there is no symmetry to use.                          *)
EXTENDS WorkerPool
=============================================================================
