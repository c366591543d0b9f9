---------------------------- MODULE MCWorkerPool ----------------------------
(* WorkerPool with two workers and two jobs that may share a key.          *)
EXTENDS WorkerPool, TLC

Symmetry == Permutations(Workers)
=============================================================================
