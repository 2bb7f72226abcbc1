------------------------- MODULE MWCheckpointProofs -------------------------
(***************************************************************************)
(* Proofs about checkpoint and restart: the driver stays consistent across *)
(* crashes, and the file is always a consistent cut.  The steps of the     *)
(* driver keep IInv by the lemmas of MWDriverProofs; what is new is what   *)
(* a checkpoint writes and what a restart makes of it.                     *)
(*                                                                         *)
(* Then, that the master with its checkpoints implements the durable pool, *)
(* and what a crash costs is bounded.  The steps of the driver are those   *)
(* of MWDriverProofs; here are the crash, the restart, and what            *)
(* belongs to a result: the file and the pool change together.             *)
(***************************************************************************)
EXTENDS MWCheckpointPool, MWDriverProofs

CkptInv == IInv /\ FileIsConsistent

(* What is written of a consistent driver is a consistent file. *)
LEMMA SnapshotIsConsistent ==
  ASSUME NEW m, DriverInv(m), file' = Snapshot(m)
  PROVE  FileIsConsistent'
<1>1. file' \in File
  BY DEF DriverInv, DriverState, Snapshot, File
<1>2. /\ file'.todo = m.todo /\ file'.running = m.running /\ file'.created = m.created
      /\ file'.completed = m.completed
      /\ file'.num_completed_tasks = m.num_completed_tasks
  BY DEF Snapshot
<1> QED
  BY <1>1, <1>2 DEF FileIsConsistent, DriverInv, TasksAreInOnePlace

LEMMA NoFileIsConsistent == file = NoFile => FileIsConsistent
<1> SUFFICES ASSUME file = NoFile PROVE FileIsConsistent
  OBVIOUS
<1>1. Cardinality({}) = 0
  BY FS_EmptySet
<1>2. file \in File
  BY InitialTasksAreTasks DEF NoFile, File
<1> QED
  BY <1>1, <1>2 DEF NoFile, FileIsConsistent

(* A driver restored from a consistent file is consistent. *)
LEMMA RestoredKeeps ==
  ASSUME NEW W \in SUBSET Worker, FileIsConsistent
  PROVE  DriverInv(Restored(W)) /\ Restored(W).halt = "no"
<1> DEFINE s == Setup(W)
           pending == file.todo \cup file.running
           n == [s EXCEPT !.todo = pending,
                          !.num_completed_tasks = file.num_completed_tasks,
                          !.created = file.created, !.completed = file.completed,
                          !.live = pending]
<1>1. DriverInv(s) /\ s.halt = "no"
  BY SetupKeeps
<1>2. \A w \in Worker : s.runningtask[w] = NoTask
  BY DEF Setup
<1>3. s.running = {} /\ s.reassigned_tasks_done = {}
  BY DEF Setup
<1> HIDE DEF s
<1>4. Restored(W) = n
  BY DEF Restored, s
<1>5. n \in DriverState
  BY <1>1 DEF DriverInv, DriverState, FileIsConsistent, File
<1>6. /\ n.todo = pending /\ n.running = {} /\ n.created = file.created
      /\ n.completed = file.completed /\ n.live = pending
      /\ n.num_completed_tasks = file.num_completed_tasks
      /\ n.runningtask = s.runningtask /\ n.reassigned_tasks_done = {} /\ n.halt = "no"
  BY <1>1, <1>3 DEF DriverInv, DriverState
<1>7. pending \subseteq Task /\ file.completed \subseteq Task
  BY DEF FileIsConsistent, File
<1> HIDE DEF n, pending
<1>8. TasksAreInOnePlace(n)
  BY <1>6 DEF TasksAreInOnePlace, FileIsConsistent, pending
<1>9. PointersAreLive(n)
  BY <1>2, <1>6 DEF PointersAreLive, FileIsConsistent, pending
<1>10. ReassignedAreMarked(n)
  BY <1>2, <1>6, <1>7, NoTaskIsNoTask DEF ReassignedAreMarked
<1> QED
  BY <1>4, <1>5, <1>6, <1>8, <1>9, <1>10 DEF DriverInv, FileIsConsistent

LEMMA ConcludeKeeps ==
  ASSUME NEW m, DriverInv(m), m.halt = "no"
  PROVE  LET n == Conclude(m)
         IN  DriverInv(n) /\ (n.halt = "finished" => n.todo = {} /\ n.running = {})
<1> DEFINE n == Conclude(m)
<1>1. n \in DriverState
  BY DEF Conclude, DriverInv, DriverState
<1>2. n.halt = "finished" => n.todo = {} /\ n.running = {}
  BY DEF Conclude, DriverInv, DriverState
<1>3. DriverInv(n)
  BY <1>1, SameTasksKeeps DEF Conclude, DriverInv, DriverState
<1> QED
  BY <1>2, <1>3

(* If act_on_completed_task is called, the driver is consistent after it. *)
LEMMA ActedIsConsistent ==
  ASSUME CkptInv, NEW w \in Worker, NEW t \in Task, NEW N \in SUBSET (Task \ mw.created),
         NEW r \in UserReturns, IsActedUpon(Received, w, t)
  PROVE  DriverInv(ActOnCompletedTask(Received, w, t, N, r))
<1>1. DriverInv(Received)
  BY SentReset DEF CkptInv, IInv, Received
<1>2. Received.created = mw.created
  BY DEF CkptInv, IInv, DriverInv, DriverState, Received
<1> QED
  BY <1>1, <1>2, ActOnCompletedTaskKeeps DEF IsActedUpon

LEMMA CkptInitInv == CkptInit => CkptInv
BY InitIInv, NoFileIsConsistent DEF CkptInit, CkptInv

LEMMA CkptNextInv == CkptInv /\ [CkptNext]_ckptVars => CkptInv'
<1> SUFFICES ASSUME CkptInv, [CkptNext]_ckptVars PROVE CkptInv'
  OBVIOUS
<1> USE DEF CkptInv
<1>1. ASSUME NEW w \in Worker, NEW t \in Task, NEW N \in SUBSET (Task \ mw.created),
             NEW r \in UserReturns, ReceiveResultsAndCheckpoint(w, t, N, r)
      PROVE  CkptInv'
  <2> DEFINE acted == ActOnCompletedTask(Received, w, t, N, r)
  <2>1. IInv'
    <3>1. Next
      BY <1>1 DEF ReceiveResultsAndCheckpoint, Next
    <3> QED
      BY <3>1, NextIInv
  <2>2. CASE UNCHANGED file
    BY <2>1, <2>2 DEF FileIsConsistent
  <2>3. CASE IsActedUpon(Received, w, t) /\ Checkpoint(acted)
    <3>1. DriverInv(acted)
      BY <2>3, ActedIsConsistent
    <3>2. file' = Snapshot(acted) \/ UNCHANGED file
      BY <2>3 DEF Checkpoint
    <3> QED
      BY <2>1, <2>2, <3>1, <3>2, SnapshotIsConsistent
  <2> QED
    BY <1>1, <2>2, <2>3 DEF ReceiveResultsAndCheckpoint
<1>2. CASE ReceiveOther
  <2>1. Next /\ UNCHANGED file
    BY <1>2 DEF ReceiveOther, Next
  <2> QED
    BY <2>1, NextIInv DEF FileIsConsistent
<1>3. CASE MasterCrashes
  <2>1. mw' = Crash(mw) /\ UNCHANGED file
    BY <1>3 DEF MasterCrashes
  <2>2. DriverInv(mw') /\ mw'.halt = "crashed"
    BY <2>1, CrashKeeps DEF Crash, IInv, DriverInv, DriverState
  <2> QED
    BY <2>1, <2>2 DEF IInv, FileIsConsistent
<1>4. CASE Restart
  <2>1. PICK W \in SUBSET Worker :
               \E m \in CallHostaddlogic(Restored(W)) : mw' = Conclude(m)
    BY <1>4 DEF Restart
  <2>2. PICK m \in CallHostaddlogic(Restored(W)) : mw' = Conclude(m)
    BY <2>1
  <2>3. DriverInv(m) /\ m.halt = "no"
    BY <2>2, RestoredKeeps, CallHostaddlogicKeeps, CallHostaddlogicHalt
  <2>4. IInv'
    BY <2>2, <2>3, ConcludeKeeps DEF IInv
  <2> QED
    BY <1>4, <2>4 DEF Restart, FileIsConsistent
<1>5. CASE UNCHANGED ckptVars
  BY <1>5 DEF ckptVars, IInv, FileIsConsistent
<1> QED
  BY <1>1, <1>2, <1>3, <1>4, <1>5 DEF CkptNext

(* However often the master crashes, the file it restarts from is a          *)
(* consistent cut of one of its earlier states.                              *)
THEOREM FileStaysConsistent == CkptSpec => []FileIsConsistent
<1>1. CkptInit => CkptInv
  BY CkptInitInv
<1>2. CkptInv /\ [CkptNext]_ckptVars => CkptInv'
  BY CkptNextInv
<1>3. CkptInv => FileIsConsistent
  BY DEF CkptInv
<1> QED
  BY <1>1, <1>2, <1>3, PTL DEF CkptSpec

(* What MWDriver guarantees of the driver's state holds on after a restart. *)
THEOREM ConsistentAcrossCrashes == CkptSpec => []IInv
<1>1. CkptInit => CkptInv
  BY CkptInitInv
<1>2. CkptInv /\ [CkptNext]_ckptVars => CkptInv'
  BY CkptNextInv
<1>3. CkptInv => IInv
  BY DEF CkptInv
<1> QED
  BY <1>1, <1>2, <1>3, PTL DEF CkptSpec

-----------------------------------------------------------------------------
(* The durable pool. *)

(* A checkpoint can be written exactly when a result counts. *)
LEMMA ActedUponCounts ==
  ASSUME NEW m, DriverInv(m), m.halt = "no", NEW w \in Worker, NEW t \in Task
  PROVE  IsActedUpon(m, w, t) <=> Counts(m, w, t)
<1> DEFINE late == SuspensionPolicy = "REASSIGN" /\ t \notin m.running /\ m.todo # {}
           n == HandleWorkerResults(m, w, t, {}, "OK")
<1>1. m \in DriverState
  BY DEF DriverInv
<1>2. ASSUME t = m.runningtask[w], IsWanted(m, t)
      PROVE  n.halt = "crashed" <=> late
  <2>1. CASE late
    <3>1. n = Crash(m)
      BY <1>2, <2>1 DEF HandleWorkerResults
    <3>2. Crash(m).halt = "crashed"
      BY <1>1 DEF Crash, DriverState
    <3> QED
      BY <2>1, <3>1, <3>2
  <2>2. CASE ~late
    <3>1. n = ActOnCompletedTask(m, w, t, {}, "OK")
      BY <1>2, <2>2 DEF HandleWorkerResults
    <3>2. ActOnCompletedTask(m, w, t, {}, "OK").halt = "no"
      BY <1>1 DEF ActOnCompletedTask, CompletedTask, AddTasks, DriverState
    <3> QED
      BY <2>2, <3>1, <3>2
  <2> QED
    BY <2>1, <2>2
<1> QED
  BY <1>2 DEF IsActedUpon, Counts

(* The state a checkpoint is made of, in the middle of the iteration, and *)
(* the one at its end know the same tasks.                                *)
LEMMA ResultAndCheckpoint ==
  ASSUME CkptInv, NEW w \in Worker, NEW t \in Task, NEW N \in SUBSET (Task \ mw.created),
         NEW r \in UserReturns, ReceiveResultsAndCheckpoint(w, t, N, r)
  PROVE  /\ GoesOn(mw') /\ mw.halt = "no" /\ timed' = timed
         /\ \/ SameTasks(mw, mw') /\ UNCHANGED <<file, missed>>
            \/ /\ ActsOn(mw, mw', t, N)
               /\ \E acted : /\ DriverInv(acted) /\ SameTasks(acted, mw')
                             /\ IF CheckpointIsDue(acted)
                                THEN \/ Checkpoint(acted)
                                     \/ (timed /\ UNCHANGED <<file, missed>>)
                                ELSE UNCHANGED <<file, missed>>
<1> DEFINE acted == ActOnCompletedTask(Received, w, t, N, r)
<1>1. IInv
  BY DEF CkptInv
<1>2. ReceiveResults(w, t, N, r) /\ mw.halt = "no" /\ timed' = timed
  BY DEF ReceiveResultsAndCheckpoint, ReceiveResults, Running
<1>3. /\ GoesOn(mw')
      /\ IF Counts(Received, w, t) THEN ActsOn(mw, mw', t, N) ELSE SameTasks(mw, mw')
  BY <1>1, <1>2, ReceiveResultsActs
<1>4. IsActedUpon(Received, w, t) <=> Counts(Received, w, t)
  BY <1>1, <1>2, ReceivedSame, ActedUponCounts
<1>5. CASE ~IsActedUpon(Received, w, t)
  BY <1>2, <1>3, <1>4, <1>5 DEF ReceiveResultsAndCheckpoint
<1>6. CASE IsActedUpon(Received, w, t)
  <2>1. DriverInv(acted)
    BY <1>6, ActedIsConsistent
  <2>2. ActsOn(mw, mw', t, N)
    BY <1>3, <1>4, <1>6
  <2>3. ActsOn(Received, acted, t, N)
    BY <1>1, <1>6, ReceivedSame, ActOnCompletedTaskActs DEF IsActedUpon, DriverInv
  <2>4. SameTasks(acted, mw')
    BY <1>1, <2>2, <2>3, ReceivedSame DEF ActsOn, SameTasks
  <2>5. IF CheckpointIsDue(acted)
        THEN Checkpoint(acted) \/ (timed /\ UNCHANGED <<file, missed>>)
        ELSE UNCHANGED <<file, missed>>
    BY <1>6 DEF ReceiveResultsAndCheckpoint
  <2> HIDE DEF acted
  <2> QED
    BY <1>2, <1>3, <2>1, <2>2, <2>4, <2>5
<1> QED
  BY <1>5, <1>6

(* A restart takes the tasks of the file, and goes on if there are any to do. *)
LEMMA RestartSame ==
  ASSUME CkptInv, Restart
  PROVE  /\ mw'.created = file.created /\ mw'.completed = file.completed
         /\ mw'.num_completed_tasks = file.num_completed_tasks
         /\ GoesOn(mw') /\ mw'.halt \in {"no", "finished"}
<1>1. PICK W \in SUBSET Worker :
             \E m \in CallHostaddlogic(Restored(W)) : mw' = Conclude(m)
  BY DEF Restart
<1>2. PICK m \in CallHostaddlogic(Restored(W)) : mw' = Conclude(m)
  BY <1>1
<1> DEFINE s == Restored(W)
<1>3. DriverInv(s) /\ s.halt = "no"
  BY RestoredKeeps DEF CkptInv
<1>4. /\ s.created = file.created /\ s.completed = file.completed
      /\ s.num_completed_tasks = file.num_completed_tasks
      /\ s.ustat = "OK" /\ Idle(s) = {}
  <2> DEFINE k == Setup(W)
  <2>1. k \in DriverState /\ k.ustat = "OK" /\ Idle(k) = {}
    BY SetupKeeps DEF DriverInv, Setup, Idle, InState
  <2> HIDE DEF k
  <2>2. s = [k EXCEPT !.todo = file.todo \cup file.running,
                      !.num_completed_tasks = file.num_completed_tasks,
                      !.created = file.created, !.completed = file.completed,
                      !.live = file.todo \cup file.running]
    BY DEF Restored, k
  <2> HIDE DEF s
  <2> QED
    BY <2>1, <2>2 DEF DriverState, Idle, InState
<1> HIDE DEF s
<1>5. /\ DriverInv(m) /\ m.halt = "no" /\ SameTasks(s, m)
        /\ Idle(m) = {} /\ m.ustat = "OK"
  BY <1>2, <1>3, <1>4, CallHostaddlogicKeeps, CallHostaddlogicHalt, CallHostaddlogicSame,
     CallHostaddlogicLeaves DEF s
<1>6. SameTasks(m, mw') /\ GoesOn(mw')
  BY <1>2, <1>5, ConcludeGoesOn DEF DriverInv, NoneIdle
<1>7. mw'.halt \in {"no", "finished"}
  BY <1>2, <1>5 DEF Conclude, DriverInv, DriverState
<1> QED
  BY <1>4, <1>5, <1>6, <1>7 DEF SameTasks

(* The other steps of the driver do not touch tasks or file. *)
LEMMA ReceiveOtherSame ==
  ASSUME CkptInv, GoesOn(mw), ReceiveOther
  PROVE  /\ SameTasks(mw, mw') /\ GoesOn(mw') /\ UNCHANGED <<timed, file, missed>>
         /\ mw.halt = "no" \/ mw'.halt = mw.halt
<1>1. IInv /\ UNCHANGED <<timed, file, missed>>
  BY DEF CkptInv, ReceiveOther
<1>2. CASE KillWorkers
  BY <1>1, <1>2, KillWorkersSame DEF GoesOn
<1>3. CASE ~KillWorkers
  BY <1>1, <1>3, OtherIterationsSame DEF ReceiveOther
<1> QED
  BY <1>2, <1>3

LEMMA MasterCrashesSame ==
  ASSUME CkptInv, MasterCrashes
  PROVE  /\ SameTasks(mw, mw') /\ GoesOn(mw') /\ UNCHANGED <<timed, file, missed>>
         /\ mw'.todo = mw.todo /\ mw'.running = mw.running
         /\ mw.halt \in {"no", "finished"} /\ mw'.halt = "crashed"
BY DEF MasterCrashes, Crash, SameTasks, GoesOn, CkptInv, IInv, DriverInv, DriverState

LEMMA CkptInitGoesOn == CkptInit => CkptInv /\ GoesOn(mw)
BY CkptInitInv, InitGoesOn DEF CkptInit

LEMMA CkptNextGoesOn ==
  ASSUME CkptInv, GoesOn(mw), [CkptNext]_ckptVars
  PROVE  CkptInv' /\ GoesOn(mw')
<1>1. CkptInv'
  BY CkptNextInv
<1>2. ASSUME NEW w \in Worker, NEW t \in Task, NEW N \in SUBSET (Task \ mw.created),
             NEW r \in UserReturns, ReceiveResultsAndCheckpoint(w, t, N, r)
      PROVE  GoesOn(mw')
  BY <1>2, ResultAndCheckpoint
<1>3. ASSUME UNCHANGED ckptVars PROVE GoesOn(mw')
  BY <1>3 DEF ckptVars, GoesOn
<1> QED
  BY <1>1, <1>2, <1>3, ReceiveOtherSame, MasterCrashesSame, RestartSame DEF CkptNext

-----------------------------------------------------------------------------
(* What a crash costs. *)

(* The remainder of a number of results. *)
LEMMA Remainder ==
  ASSUME NEW F \in Nat, F > 0, NEW q \in Nat, NEW j \in 0..(F - 1)
  PROVE  (F * q + j) % F = j
BY SMTT(30)

(* By count, a checkpoint becomes due with each multiple of the frequency:  *)
(* the file holds one such, and each that has passed since has failed.  So  *)
(* many are missing, and the results since the last of them.                *)
Behind(F, saved, l, j, num) ==
  \E k \in Nat : saved = F * k /\ num = F * (k + l) + j

LossInv ==
  CheckpointFrequency > 0 /\ ~timed =>
    \E l \in 0..missed, j \in 0..(CheckpointFrequency - 1) :
       Behind(CheckpointFrequency, file.num_completed_tasks, l, j, mw.num_completed_tasks)

(* One more result makes a checkpoint due when it is the last of its batch. *)
LEMMA OneMoreResult ==
  ASSUME NEW F \in Nat, F > 0, NEW saved \in Nat, NEW num \in Nat,
         NEW l \in Nat, NEW j \in 0..(F - 1), Behind(F, saved, l, j, num)
  PROVE  IF (num + 1) % F = 0
         THEN Behind(F, saved, l + 1, 0, num + 1) /\ Behind(F, num + 1, 0, 0, num + 1)
         ELSE j + 1 \in 0..(F - 1) /\ Behind(F, saved, l, j + 1, num + 1)
<1>1. PICK k \in Nat : saved = F * k /\ num = F * (k + l) + j
  BY DEF Behind
<1>2. CASE j + 1 < F
  <2> DEFINE q == k + l
             i == j + 1
  <2>1. q \in Nat /\ i \in 0..(F - 1) /\ num + 1 = F * q + i
    BY <1>1, <1>2
  <2>2. i # 0 /\ Behind(F, saved, l, i, num + 1)
    BY <1>1, <2>1 DEF Behind
  <2> HIDE DEF q, i
  <2>3. (F * q + i) % F = i
    BY <2>1, Remainder
  <2>4. (num + 1) % F # 0
    BY <2>1, <2>2, <2>3
  <2> QED
    BY <2>1, <2>2, <2>4 DEF i
<1>3. CASE j + 1 = F
  <2>1. num + 1 = F * (k + l + 1) + 0
    BY <1>1, <1>3
  <2>2. (num + 1) % F = 0
    <3> DEFINE q == k + l + 1
    <3>1. q \in Nat /\ num + 1 = F * q + 0 /\ 0 \in 0..(F - 1)
      BY <2>1
    <3> HIDE DEF q
    <3>2. (F * q + 0) % F = 0
      BY <3>1, Remainder
    <3> QED
      BY <3>1, <3>2
  <2>3. Behind(F, saved, l + 1, 0, num + 1)
    BY <1>1, <2>1 DEF Behind
  <2>4. Behind(F, num + 1, 0, 0, num + 1)
    <3>1. k + l + 1 \in Nat /\ num + 1 = F * (k + l + 1)
                            /\ num + 1 = F * ((k + l + 1) + 0) + 0
      BY <2>1
    <3> QED
      BY <3>1 DEF Behind
  <2> QED
    BY <2>2, <2>3, <2>4
<1> QED
  BY <1>2, <1>3

LEMMA CkptTypes ==
  ASSUME CkptInv
  PROVE  mw.num_completed_tasks \in Nat /\ file.num_completed_tasks \in Nat
BY DEF CkptInv, IInv, DriverInv, DriverState, FileIsConsistent, File

LEMMA CkptInitLoss == CkptInit => LossInv /\ missed \in Nat
<1> SUFFICES ASSUME CkptInit PROVE LossInv /\ missed \in Nat
  OBVIOUS
<1>1. IInv /\ mw.completed = {}
  BY InitIInv, InitGoesOn DEF CkptInit
<1>2. mw.num_completed_tasks = 0
  BY <1>1, FS_EmptySet DEF IInv, DriverInv
<1>3. file.num_completed_tasks = 0 /\ missed = 0
  BY DEF CkptInit, NoFile
<1>4. CheckpointFrequency > 0 => Behind(CheckpointFrequency, 0, 0, 0, 0)
  BY FrequencyIsNatural DEF Behind
<1> QED
  BY <1>2, <1>3, <1>4, FrequencyIsNatural DEF LossInv

LEMMA ResultKeepsLoss ==
  ASSUME CkptInv, LossInv, missed \in Nat, CheckpointFrequency > 0, ~timed,
         NEW acted, DriverInv(acted), SameTasks(acted, mw'),
         mw'.num_completed_tasks = mw.num_completed_tasks + 1,
         IF CheckpointIsDue(acted) THEN Checkpoint(acted) ELSE UNCHANGED <<file, missed>>
  PROVE  /\ missed' \in Nat
         /\ \E l \in 0..missed', j \in 0..(CheckpointFrequency - 1) :
               Behind(CheckpointFrequency, file'.num_completed_tasks, l, j,
                      mw'.num_completed_tasks)
<1> DEFINE F == CheckpointFrequency
           num == mw.num_completed_tasks
           saved == file.num_completed_tasks
<1>1. F \in Nat /\ F > 0 /\ num \in Nat /\ saved \in Nat
  BY FrequencyIsNatural, CkptTypes
<1>2. PICK l \in 0..missed, j \in 0..(F - 1) : Behind(F, saved, l, j, num)
  BY DEF LossInv
<1>3. acted.num_completed_tasks = num + 1 /\ mw'.num_completed_tasks = num + 1
  BY DEF SameTasks
<1>4. CheckpointIsDue(acted) <=> (num + 1) % F = 0
  BY <1>3 DEF CheckpointIsDue
<1> HIDE DEF F, num, saved
<1>5. IF (num + 1) % F = 0
      THEN Behind(F, saved, l + 1, 0, num + 1) /\ Behind(F, num + 1, 0, 0, num + 1)
      ELSE j + 1 \in 0..(F - 1) /\ Behind(F, saved, l, j + 1, num + 1)
  BY <1>1, <1>2, OneMoreResult
<1>6. CASE ~CheckpointIsDue(acted)
  <2>1. UNCHANGED <<file, missed>>
    BY <1>6
  <2> QED
    BY <1>3, <1>4, <1>5, <1>6, <2>1 DEF F, saved
<1>7. CASE CheckpointIsDue(acted)
  <2>1. Checkpoint(acted)
    BY <1>7
  <2>2. CASE file' = Snapshot(acted) /\ missed' = 0
    <3>1. file'.num_completed_tasks = num + 1
      BY <1>3, <2>2 DEF Snapshot
    <3>2. Behind(F, file'.num_completed_tasks, 0, 0, mw'.num_completed_tasks)
      BY <1>3, <1>4, <1>5, <1>7, <3>1
    <3>3. 0 \in 0..missed' /\ 0 \in 0..(F - 1) /\ missed' \in Nat
      BY <1>1, <2>2
    <3> QED
      BY <3>2, <3>3 DEF F
  <2>3. CASE missed' = missed + 1 /\ UNCHANGED file
    <3>1. Behind(F, file'.num_completed_tasks, l + 1, 0, mw'.num_completed_tasks)
      BY <1>3, <1>4, <1>5, <1>7, <2>3 DEF saved
    <3>2. l + 1 \in 0..missed' /\ 0 \in 0..(F - 1) /\ missed' \in Nat
      BY <1>1, <2>3
    <3> QED
      BY <3>1, <3>2 DEF F
  <2> QED
    BY <2>1, <2>2, <2>3 DEF Checkpoint
<1> QED
  BY <1>6, <1>7

(* No other step adds to the loss, and a restart ends it. *)
LEMMA CkptNextLoss ==
  ASSUME CkptInv, GoesOn(mw), LossInv, missed \in Nat, [CkptNext]_ckptVars
  PROVE  LossInv' /\ missed' \in Nat
<1>1. ASSUME SameTasks(mw, mw'), UNCHANGED <<timed, file, missed>>
      PROVE  LossInv' /\ missed' \in Nat
  BY <1>1 DEF LossInv, SameTasks
<1>2. ASSUME NEW w \in Worker, NEW t \in Task, NEW N \in SUBSET (Task \ mw.created),
             NEW r \in UserReturns, ReceiveResultsAndCheckpoint(w, t, N, r)
      PROVE  LossInv' /\ missed' \in Nat
  <2>1. timed' = timed
    BY <1>2, ResultAndCheckpoint
  <2>2. CASE SameTasks(mw, mw') /\ UNCHANGED <<file, missed>>
    BY <1>1, <2>1, <2>2
  <2>3. CASE ~(SameTasks(mw, mw') /\ UNCHANGED <<file, missed>>)
    <3>1. ActsOn(mw, mw', t, N)
      BY <1>2, <2>3, ResultAndCheckpoint
    <3>2. PICK acted : /\ DriverInv(acted) /\ SameTasks(acted, mw')
                       /\ IF CheckpointIsDue(acted)
                          THEN Checkpoint(acted) \/ (timed /\ UNCHANGED <<file, missed>>)
                          ELSE UNCHANGED <<file, missed>>
      BY <1>2, <2>3, ResultAndCheckpoint
    <3>3. CASE CheckpointFrequency > 0 /\ ~timed
      <4>1. mw'.num_completed_tasks = mw.num_completed_tasks + 1
        BY <3>1 DEF ActsOn
      <4> QED
        BY <2>1, <3>2, <3>3, <4>1, ResultKeepsLoss DEF LossInv
    <3>4. CASE ~(CheckpointFrequency > 0 /\ ~timed)
      <4>1. missed' \in {missed, missed + 1, 0}
        BY <3>2 DEF Checkpoint
      <4> QED
        BY <2>1, <3>4, <4>1 DEF LossInv
    <3> QED
      BY <3>3, <3>4
  <2> QED
    BY <2>2, <2>3
<1>3. ASSUME Restart PROVE LossInv' /\ missed' \in Nat
  <2>1. /\ mw'.num_completed_tasks = file.num_completed_tasks /\ missed' = 0
        /\ UNCHANGED <<timed, file>>
    BY <1>3, RestartSame DEF Restart
  <2>2. ASSUME CheckpointFrequency > 0, ~timed
        PROVE  Behind(CheckpointFrequency, file.num_completed_tasks, 0, 0,
                      file.num_completed_tasks)
    <3>1. PICK k \in Nat : file.num_completed_tasks = CheckpointFrequency * k
      BY <2>2 DEF LossInv, Behind
    <3>2. CheckpointFrequency * k = CheckpointFrequency * (k + 0) + 0
      BY FrequencyIsNatural
    <3> QED
      BY <3>1, <3>2 DEF Behind
  <2> QED
    BY <2>1, <2>2, FrequencyIsNatural DEF LossInv
<1>4. ASSUME UNCHANGED ckptVars PROVE LossInv' /\ missed' \in Nat
  BY <1>4 DEF ckptVars, LossInv
<1> QED
  BY <1>1, <1>2, <1>3, <1>4, ReceiveOtherSame, MasterCrashesSame DEF CkptNext

(* A crash undoes less than checkpoint_frequency results for each checkpoint *)
(* that has failed in a row, and for the one that is not due yet.            *)
THEOREM LossStaysBounded == CkptSpec => []LossIsBounded
<1> DEFINE Inv == CkptInv /\ GoesOn(mw) /\ LossInv /\ missed \in Nat
<1>1. CkptInit => Inv
  BY CkptInitGoesOn, CkptInitLoss
<1>2. Inv /\ [CkptNext]_ckptVars => Inv'
  BY CkptNextGoesOn, CkptNextLoss
<1>3. Inv => LossIsBounded
  <2> SUFFICES ASSUME Inv, CheckpointFrequency > 0, ~timed
               PROVE  mw.num_completed_tasks - file.num_completed_tasks
                        < CheckpointFrequency * (missed + 1)
    BY DEF LossIsBounded
  <2> DEFINE F == CheckpointFrequency
             num == mw.num_completed_tasks
             saved == file.num_completed_tasks
  <2>1. PICK l \in 0..missed, j \in 0..(F - 1) : Behind(F, saved, l, j, num)
    BY DEF LossInv
  <2>2. PICK k \in Nat : saved = F * k /\ num = F * (k + l) + j
    BY <2>1 DEF Behind
  <2>3. F \in Nat /\ missed \in Nat /\ l \in Nat /\ j \in Nat /\ j < F /\ l <= missed
    BY FrequencyIsNatural
  <2> HIDE DEF F, num, saved
  <2>4. num - saved = F * l + j
    BY <2>2, <2>3
  <2>5. F * l + F <= F * (missed + 1)
    <3>1. F * l + F = F * (l + 1)
      BY <2>3
    <3>2. F * (l + 1) <= F * (missed + 1)
      BY <2>3
    <3> QED
      BY <2>3, <3>1, <3>2
  <2>6. F * l \in Nat /\ F * (missed + 1) \in Nat
    BY <2>3
  <2>7. num - saved < F * (missed + 1)
    BY <2>3, <2>4, <2>5, <2>6
  <2> QED
    BY <2>7 DEF F, num, saved
<1> HIDE DEF Inv
<1> QED
  BY <1>1, <1>2, <1>3, PTL DEF CkptSpec

-----------------------------------------------------------------------------
(* The durable pool. *)

(* The tasks of a consistent file. *)
LEMMA SavedIsTheRest ==
  ASSUME FileIsConsistent
  PROVE  file.todo \cup file.running = file.created \ file.completed
BY DEF FileIsConsistent

LEMMA CkptInitImplements == CkptInit => Durable!DurableInit
<1> SUFFICES ASSUME CkptInit PROVE Durable!DurableInit
  OBVIOUS
<1>1. Pool!Init
  BY InitImplementsPool DEF CkptInit
<1>2. file.todo \cup file.running = InitialTasks /\ file.completed = {}
  BY DEF CkptInit, NoFile
<1> QED
  BY <1>1, <1>2 DEF Durable!DurableInit, Durable!Init, Pool!Init

(* A result completes its task, and may be saved with all before it. *)
LEMMA ResultCompletes ==
  ASSUME CkptInv, CkptInv', GoesOn(mw), NEW w \in Worker, NEW t \in Task,
         NEW N \in SUBSET (Task \ mw.created), NEW r \in UserReturns,
         ReceiveResultsAndCheckpoint(w, t, N, r)
  PROVE  [Durable!DurableNext]_(Durable!durableVars)
<1>1. IInv /\ IInv' /\ mw.halt = "no"
  BY ResultAndCheckpoint DEF CkptInv
<1>2. CASE SameTasks(mw, mw') /\ UNCHANGED <<file, missed>>
  <2>1. Pool!Abort \/ UNCHANGED Pool!poolVars
    BY <1>1, <1>2, SameStutters
  <2> QED
    BY <1>2, <2>1 DEF Pool!Abort, Pool!poolVars, Durable!durableVars, Durable!Fail,
                      Durable!DurableNext
<1>3. CASE ~(SameTasks(mw, mw') /\ UNCHANGED <<file, missed>>)
  <2>1. ActsOn(mw, mw', t, N)
    BY <1>3, ResultAndCheckpoint
  <2>2. PICK acted : /\ DriverInv(acted) /\ SameTasks(acted, mw')
                     /\ IF CheckpointIsDue(acted)
                        THEN Checkpoint(acted) \/ (timed /\ UNCHANGED <<file, missed>>)
                        ELSE UNCHANGED <<file, missed>>
    BY <1>3, ResultAndCheckpoint
  <2>3. Pool!Complete(t, N)
    BY <1>1, <2>1, ActsCompletes
  <2>4. UNCHANGED file \/ file' = Snapshot(acted)
    BY <2>2 DEF Checkpoint
  <2>5. ASSUME file' = Snapshot(acted)
        PROVE  /\ file'.todo \cup file'.running = mw'.todo \cup mw'.running
               /\ file'.completed = mw'.completed
    <3>1. /\ file'.todo \cup file'.running = acted.todo \cup acted.running
          /\ file'.completed = acted.completed
      BY <2>5 DEF Snapshot
    <3>2. acted.todo \cup acted.running = mw'.todo \cup mw'.running
      BY <1>1, <2>2, PendingIsTheRest DEF IInv, SameTasks
    <3> QED
      BY <2>2, <3>1, <3>2 DEF SameTasks
  <2>6. Durable!CompleteAndSave(t, N)
    BY <2>3, <2>4, <2>5 DEF Durable!CompleteAndSave, Durable!Complete, Pool!Complete
  <2>7. N \in SUBSET (Task \ ((mw.todo \cup mw.running) \cup mw.completed))
    BY <1>1 DEF IInv, DriverInv, TasksAreInOnePlace
  <2> QED
    BY <2>6, <2>7 DEF Durable!DurableNext
<1> QED
  BY <1>2, <1>3

LEMMA OtherStutters ==
  ASSUME CkptInv, CkptInv', GoesOn(mw), ReceiveOther
  PROVE  [Durable!DurableNext]_(Durable!durableVars)
<1>1. IInv /\ IInv' /\ SameTasks(mw, mw') /\ UNCHANGED file
  BY ReceiveOtherSame DEF CkptInv
<1>2. CASE mw.halt = "no"
  <2>1. Pool!Abort \/ UNCHANGED Pool!poolVars
    BY <1>1, <1>2, SameStutters
  <2> QED
    BY <1>1, <2>1 DEF Pool!Abort, Pool!poolVars, Durable!durableVars, Durable!Fail,
                      Durable!DurableNext
<1>3. CASE mw'.halt = mw.halt
  <2>1. mw'.todo \cup mw'.running = mw.todo \cup mw.running /\ mw'.completed = mw.completed
    BY <1>1, PendingIsTheRest DEF IInv, SameTasks
  <2> QED
    BY <1>1, <1>3, <2>1 DEF Durable!durableVars
<1> QED
  BY <1>2, <1>3, ReceiveOtherSame

LEMMA CrashFails ==
  ASSUME CkptInv, GoesOn(mw), MasterCrashes
  PROVE  Durable!Fail
<1>1. Outcome(mw.halt) \in {"open", "finished"} /\ Outcome(mw'.halt) = "aborted"
  BY MasterCrashesSame DEF Outcome
<1> QED
  BY <1>1, MasterCrashesSame DEF SameTasks, Durable!Fail

LEMMA RestartResumes ==
  ASSUME CkptInv, CkptInv', Restart
  PROVE  Durable!Resume
<1>1. /\ Outcome(mw.halt) = "aborted" /\ UNCHANGED file
  BY DEF Restart, Outcome
<1>2. /\ mw'.todo \cup mw'.running = file.todo \cup file.running
      /\ mw'.completed = file.completed
  BY RestartSame, PendingIsTheRest, SavedIsTheRest DEF CkptInv, IInv
<1>3. mw'.halt = IF file.todo \cup file.running = {} THEN "finished" ELSE "no"
  BY <1>2, RestartSame DEF CkptInv, IInv, GoesOn
<1> QED
  BY <1>1, <1>2, <1>3 DEF Durable!Resume, Outcome

LEMMA CkptNextImplements ==
  ASSUME CkptInv, CkptInv', GoesOn(mw), [CkptNext]_ckptVars
  PROVE  [Durable!DurableNext]_(Durable!durableVars)
<1>1. CASE MasterCrashes
  BY <1>1, CrashFails DEF Durable!DurableNext
<1>2. CASE Restart
  BY <1>2, RestartResumes DEF Durable!DurableNext
<1>3. CASE UNCHANGED ckptVars
  BY <1>3 DEF ckptVars, Durable!durableVars
<1> QED
  BY <1>1, <1>2, <1>3, ResultCompletes, OtherStutters DEF CkptNext

(* The master with its checkpoints implements the durable pool, whenever and *)
(* however often it crashes.                                                 *)
THEOREM CheckpointImplementsDurablePool == CkptSpec => ImplementsDurablePool
<1> DEFINE Inv == CkptInv /\ GoesOn(mw)
<1>1. CkptInit => Inv
  BY CkptInitGoesOn
<1>2. Inv /\ [CkptNext]_ckptVars => Inv'
  BY CkptNextGoesOn
<1>3. CkptInit => Durable!DurableInit
  BY CkptInitImplements
<1>4. Inv /\ Inv' /\ [CkptNext]_ckptVars => [Durable!DurableNext]_(Durable!durableVars)
  BY CkptNextImplements
<1> HIDE DEF Inv
<1> QED
  BY <1>1, <1>2, <1>3, <1>4, PTL DEF CkptSpec, ImplementsDurablePool, Durable!DurableSpec
=============================================================================
