---------------------------- MODULE MCWorkerPool ----------------------------
(* The model-checking instance of WorkerPool. *)
EXTENDS WorkerPool
=============================================================================
