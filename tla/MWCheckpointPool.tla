-------------------------- MODULE MWCheckpointPool --------------------------
(* The durable task pool that the master with its checkpoints implements. *)
EXTENDS MWCheckpoint, MWDriverPool

Durable == INSTANCE MWDurablePool WITH
             pending <- mw.todo \cup mw.running,
             done <- mw.completed,
             outcome <- Outcome(mw.halt),
             saved <- [pending |-> file.todo \cup file.running, done |-> file.completed]

(* The driver with crashes implements the durable pool: a restart goes back *)
(* to one moment of the past, no task of that moment is lost and none is    *)
(* done twice since.                                                        *)
ImplementsDurablePool == Durable!DurableSpec
=============================================================================
