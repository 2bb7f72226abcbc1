------------------------------ MODULE MCDriver ------------------------------
(* MWDriver and the task pool it implements on small instances. *)
EXTENDS MWDriverPool, TLC

WorkerSymmetry == Permutations(Worker)
=============================================================================
