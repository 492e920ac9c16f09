---------------------------- MODULE MCWorkerPool ----------------------------
(* TLC instance of WorkerPool and of its refinement of ParallelFor. *)
EXTENDS WorkerPool
=============================================================================
