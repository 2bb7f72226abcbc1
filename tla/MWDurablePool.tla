---------------------------- MODULE MWDurablePool ----------------------------
(***************************************************************************)
(* The task pool of a master that may fail and be started again            *)
(* (MWDriver.h, "Checkpoint Handling Functions").  Some of the time the    *)
(* pool is saved; an aborted computation may be taken up again, and what   *)
(* has happened since the last time it was saved has then not happened.    *)
(***************************************************************************)
EXTENDS MWTaskPool

VARIABLE saved  \* the pool as it was last saved, at first the initial one

durableVars == <<pending, done, outcome, saved>>

DurableInit == Init /\ saved = [pending |-> InitialTasks, done |-> {}]

CompleteAndSave(t, N) ==
  /\ Complete(t, N)
  /\ saved' \in {saved, [pending |-> pending', done |-> done']}

(* Even a computation that has finished may still be lost before it exits. *)
Fail ==
  /\ outcome \in {"open", "finished"}
  /\ outcome' = "aborted"
  /\ UNCHANGED <<pending, done, saved>>

Resume ==
  /\ outcome = "aborted"
  /\ outcome' = IF saved.pending = {} THEN "finished" ELSE "open"
  /\ pending' = saved.pending /\ done' = saved.done
  /\ UNCHANGED saved

DurableNext ==
  \/ \E t \in Task, N \in SUBSET (Task \ (pending \cup done)) : CompleteAndSave(t, N)
  \/ Fail
  \/ Resume

DurableSpec == DurableInit /\ [][DurableNext]_durableVars
=============================================================================
