---------------------------- MODULE MCCheckpoint ----------------------------
(* MWCheckpoint and the durable pool it implements on small instances. *)
EXTENDS MWCheckpointPool, TLC

(* None of the properties names a worker. *)
WorkerSymmetry == Permutations(Worker)
=============================================================================
