---------------------------- MODULE MCWorkerPool ----------------------------
(* WorkerPool for TLC: the configurations give its constants their values. *)
EXTENDS WorkerPool, TLC
=============================================================================
