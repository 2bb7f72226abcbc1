---------------------------- MODULE MWDriverPool ----------------------------
(* The task pool that the master of MWDriver implements. *)
EXTENDS MWDriver

(* How the computation has ended, as the user sees it. *)
Outcome(halt) ==
  IF halt = "no" THEN "open" ELSE IF halt = "finished" THEN "finished" ELSE "aborted"

Pool == INSTANCE MWTaskPool WITH
          pending <- mw.todo \cup mw.running,
          done <- mw.completed,
          outcome <- Outcome(mw.halt)

(* The driver, in any environment, implements the task pool: no handler     *)
(* loses, duplicates, invents or revives a task, and none but the result    *)
(* of a pending task makes the computation finish.                          *)
ImplementsTaskPool == Pool!Spec
=============================================================================
