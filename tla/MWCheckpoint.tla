---------------------------- MODULE MWCheckpoint ----------------------------
(***************************************************************************)
(* Checkpoint and restart (MWDriver.C: checkpoint, restart_from_ckpt,      *)
(* set_checkpoint_frequency, set_checkpoint_time) on top of the master of  *)
(* MWDriver.  The master may crash at any time.  It is then started again, *)
(* finds the checkpoint file or none, and has no worker but new ones.      *)
(*                                                                         *)
(* A checkpoint is written in the middle of handle_worker_results: the     *)
(* task has left the lists and act_on_completed_task has added its tasks,  *)
(* but the worker still points at the task.  What follows in the iteration *)
(* changes none of what the file holds, and so a crash after it, in the    *)
(* middle of the iteration, is to the file one at the end.                 *)
(*                                                                         *)
(* Abstractions.  The order of the tasks in the file, benchmark tasks,     *)
(* statistics and RMComm's part are left out, and so is a disk that is     *)
(* full before the file is complete, which checkpoint does not notice.  The *)
(* user's own state, which write_master_state saves, is the set of tasks   *)
(* acted upon.                                                             *)
(***************************************************************************)
EXTENDS MWDriver

CONSTANTS
  CheckpointFrequency,  \* checkpoint_frequency; 0 turns it off
  MaxCrashes,           \* how often the master may crash
  MaxMissed             \* how many checkpoints in a row may fail

ASSUME FrequencyIsNatural == CheckpointFrequency \in Nat
ASSUME CheckpointBounds == MaxCrashes \in Nat /\ MaxMissed \in Nat

VARIABLES
  timed,    \* is checkpoint_time_freq on, and checkpoint_frequency off?
  file,     \* the checkpoint file
  missed,   \* how many checkpoints have failed since the last that did not
  crashes   \* how often the master has crashed

ckptVars == <<mw, timed, file, missed, crashes>>

(* exists is FALSE before the first checkpoint; created stands for         *)
(* task_counter, completed for the user's state.                           *)
File == [exists : BOOLEAN, todo : SUBSET Task, running : SUBSET Task,
         num_completed_tasks : Nat, created : SUBSET Task, completed : SUBSET Task]

NoFile ==
  [exists |-> FALSE, todo |-> InitialTasks, running |-> {},
   num_completed_tasks |-> 0, created |-> InitialTasks, completed |-> {}]

-----------------------------------------------------------------------------
(* Mutant of Snapshot: only the todo list is written. *)
SnapshotOfTodo(m) ==
  [exists |-> TRUE, todo |-> m.todo, running |-> {},
   num_completed_tasks |-> m.num_completed_tasks,
   created |-> m.created, completed |-> m.completed]

Snapshot(m) ==
  [exists |-> TRUE, todo |-> m.todo, running |-> m.running,
   num_completed_tasks |-> m.num_completed_tasks,
   created |-> m.created, completed |-> m.completed]

(* checkpoint, in state m of the driver.  If the temporary file cannot be *)
(* opened or renamed, the old file stays.                                 *)
Checkpoint(m) ==
  \/ file' = Snapshot(m) /\ missed' = 0
  \/ missed < MaxMissed /\ missed' = missed + 1 /\ UNCHANGED file

(* Mutant of CheckpointIsDue: the frequency is compared with the number of *)
(* tasks created.                                                          *)
DueByCreated(m) ==
  \/ timed
  \/ CheckpointFrequency > 0 /\ Cardinality(m.created) % CheckpointFrequency = 0

CheckpointIsDue(m) ==
  \/ timed
  \/ CheckpointFrequency > 0 /\ m.num_completed_tasks % CheckpointFrequency = 0

(* Is act_on_completed_task called for the result of t from w? *)
IsActedUpon(m, w, t) ==
  /\ w \in m.workers /\ t = m.runningtask[w] /\ IsWanted(m, t)
  /\ HandleWorkerResults(m, w, t, {}, "OK").halt # "crashed"

(* A result, and the checkpoint it may make due.  A time-based one may not *)
(* be due yet.                                                             *)
ReceiveResultsAndCheckpoint(w, t, N, r) ==
  LET acted == ActOnCompletedTask(Received, w, t, N, r)
  IN  /\ ReceiveResults(w, t, N, r)
      /\ IF IsActedUpon(Received, w, t) /\ CheckpointIsDue(acted)
         THEN Checkpoint(acted) \/ (timed /\ UNCHANGED <<file, missed>>)
         ELSE UNCHANGED <<file, missed>>
      /\ UNCHANGED <<timed, crashes>>

(* The iterations that make no checkpoint. *)
ReceiveOther ==
  /\ \/ \E w \in Worker :
           \/ ReceiveInit(w)
           \/ \E okay \in BOOLEAN : ReceiveBenchResults(w, okay)
           \/ ReceiveExit(w) \/ ReceiveHostsuspend(w) \/ ReceiveHostresume(w)
           \/ ReceiveChecksumError(w)
     \/ ReceiveHostadd
     \/ KillWorkers
  /\ UNCHANGED <<timed, file, missed, crashes>>

(* The master's process dies, maybe after the loop has ended. *)
MasterCrashes ==
  /\ mw.halt \in {"no", "finished"} /\ crashes < MaxCrashes
  /\ mw' = Crash(mw)
  /\ crashes' = crashes + 1
  /\ UNCHANGED <<timed, file, missed>>

(* Mutant of Restored: the tasks that were running are not put on the todo *)
(* list.                                                                   *)
RestoredTodo(W) ==
  [Setup(W) EXCEPT
     !.todo = file.todo,
     !.num_completed_tasks = file.num_completed_tasks,
     !.created = file.created, !.completed = file.completed,
     !.live = file.todo]

(* restart_from_ckpt: every task of the file goes to the todo list; which    *)
(* tasks had been reassigned is forgotten.  Without a file, a fresh start.   *)
Restored(W) ==
  [Setup(W) EXCEPT
     !.todo = file.todo \cup file.running,
     !.num_completed_tasks = file.num_completed_tasks,
     !.created = file.created, !.completed = file.completed,
     !.live = file.todo \cup file.running]

(* master_setup after a crash, then the start of master_mainloop and the test *)
(* of its loop: a file without tasks ends it at once.                         *)
Restart ==
  /\ mw.halt = "crashed"
  /\ \E W \in SUBSET Worker :
        \E m \in CallHostaddlogic(Restored(W)) : mw' = Conclude(m)
  /\ missed' = 0
  /\ UNCHANGED <<timed, file, crashes>>

(* The user calls one of set_checkpoint_frequency and set_checkpoint_time: each *)
(* refuses when the other is on.  The file and get_userinfo keep the choice.    *)
CkptInit == Init /\ timed \in BOOLEAN /\ file = NoFile /\ missed = 0 /\ crashes = 0

CkptNext ==
  \/ \E w \in Worker, t \in Task, N \in SUBSET (Task \ mw.created), r \in UserReturns :
        ReceiveResultsAndCheckpoint(w, t, N, r)
  \/ ReceiveOther
  \/ MasterCrashes
  \/ Restart

CkptSpec == CkptInit /\ [][CkptNext]_ckptVars

-----------------------------------------------------------------------------
(* The file is a consistent cut: what the user's part of it knows as done,  *)
(* what the driver's part counts and what is left to do belong together,    *)
(* although they are written in the middle of an iteration.                 *)
FileIsConsistent ==
  /\ file \in File
  /\ file.created = file.todo \cup file.running \cup file.completed
  /\ file.completed \cap (file.todo \cup file.running) = {}
  /\ file.num_completed_tasks = Cardinality(file.completed)

(* A crash costs less than checkpoint_frequency results for each checkpoint *)
(* that was due and has not failed in a row.                                *)
LossIsBounded ==
  CheckpointFrequency > 0 /\ ~timed =>
    mw.num_completed_tasks - file.num_completed_tasks
      < CheckpointFrequency * (missed + 1)
=============================================================================
