-------------------------- MODULE MCWorkerRunner --------------------------
(* Small fleets for model checking WorkerRunner.                           *)
EXTENDS WorkerRunner, TLC

Symmetric == Permutations(Workers) \union Permutations(Jobs)
============================================================================
