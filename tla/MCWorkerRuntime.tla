-------------------------- MODULE MCWorkerRuntime --------------------------
(***************************************************************************)
(* A small instance of WorkerRuntime for TLC.  Jobs are named by their type. *)
(***************************************************************************)
EXTENDS WorkerRuntime, TLC

MCTypeOf == [j \in Job |-> j]
Symmetry == Permutations(Worker)
=============================================================================
