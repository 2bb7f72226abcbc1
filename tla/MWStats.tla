------------------------------- MODULE MWStats -------------------------------
(***************************************************************************)
(* What the master knows of its workers apart from their tasks' order      *)
(* (MWWorkerID.C, MWStats.C, MWGroup.C, MWTask.C and the calls MWDriver.C  *)
(* makes): virtual ids that are reused, times that are gathered when a     *)
(* worker goes, written with a checkpoint and printed at the end, and the  *)
(* work classes of workers and tasks with their counts.                    *)
(*                                                                         *)
(* Abstractions.                                                           *)
(*  - The processing time, the normalised time and the sum of benchmarks   *)
(*    are treated as the working time and the number of benchmarks are,    *)
(*    the times of suspension are left out; a time is a number of ticks,   *)
(*    and a tick passes between a worker's benchmark and its end, or that  *)
(*    of the application, or a checkpoint.                                 *)
(*  - A restart finds no worker alive, as with PVM.  No worker is          *)
(*    suspended before it has sent INIT, no task is done twice (MWDriver   *)
(*    has both), and there are never more workers than virtual ids.        *)
(*  - The user's callbacks enrol a worker only where it is not.            *)
(***************************************************************************)
EXTENDS MWSums

CONSTANTS
  MW_MAX_WORKERS,  \* as many virtual ids
  MWworkClasses,   \* the classes, by number
  MaxWorkers, MaxTasks, MaxTime, MaxCrashes

ASSUME StatsBounds ==
  /\ MW_MAX_WORKERS \in Nat \ {0} /\ MWworkClasses # {}
  /\ {MaxWorkers, MaxTasks, MaxTime, MaxCrashes} \subseteq Nat

VARIABLES
  workers,            \* the master's list
  vids,               \* the virtual ids in use
  stats,              \* uptimes, workingtimes, numbenchmark: of each virtual id
  MWworkClassWorkers, MWworkClassTasks, \* how many are in each class
  groups,             \* the classes of each task there is, by number
  todo,               \* the numbers of the tasks to do
  now,
  saved,              \* the checkpoint
  printed,            \* what makestats says
  spent,              \* history: what workers have really spent
  number, hosts, crashes \* of tasks, of workers that came, of restarts

statsVars == <<workers, vids, stats, MWworkClassWorkers, MWworkClassTasks,
               groups, todo, now, saved, printed, spent, number, hosts, crashes>>

Vid == 0 .. MW_MAX_WORKERS - 1
NoTask == 0
NULL == <<>>
Amounts == [up : Nat, working : Nat, bench : Nat]
Zero == [up |-> 0, working |-> 0, bench |-> 0]
Plus(a, b) == [q \in DOMAIN Zero |-> a[q] + b[q]]

(* A start_time of 0 is none. *)
WorkerID == [virtual_id : Vid,
             state : {"INITIALIZING", "IDLE", "BENCHMARKING", "WORKING", "SUSPENDED"},
             isBenchMark : BOOLEAN, start_time : Nat,
             total_working : Nat, num_benchmark : Nat,
             runningtask : Nat, group : SUBSET MWworkClasses]

(* Everything has its type, and the counts are not negative. *)
StatsTypeOK ==
  /\ workers \in Seq(WorkerID) /\ vids \subseteq Vid
  /\ stats \in [Vid -> Amounts]
  /\ MWworkClassWorkers \in [MWworkClasses -> Nat]
  /\ (crashes = 0 => MWworkClassTasks \in [MWworkClasses -> Nat])
  /\ DOMAIN groups \subseteq 1 .. MaxTasks /\ Range(groups) \subseteq SUBSET MWworkClasses
  /\ Range(todo) \subseteq DOMAIN groups
  /\ spent \in Amounts

Init ==
  /\ workers = <<>> /\ vids = {}
  /\ stats = [v \in Vid |-> Zero]
  /\ MWworkClassWorkers = [c \in MWworkClasses |-> 0]
  /\ MWworkClassTasks = [c \in MWworkClasses |-> 0]
  /\ groups = <<>> /\ todo = <<>> /\ number = 0
  /\ now = 1 /\ saved = NULL /\ printed = NULL /\ spent = Zero
  /\ hosts = 0 /\ crashes = 0

Running == printed = NULL
Counted(count, S, by) == [c \in MWworkClasses |-> count[c] + IF c \in S THEN by ELSE 0]

-----------------------------------------------------------------------------
(* Workers come ... *)

(* Mutant of NextVid: the search for a free id begins at the second. *)
NextVidFromOne == Min((Vid \ ({0} \cup vids)) \cup {MW_MAX_WORKERS - 1})

(* get_next_vid *)
NextVid == Min(Vid \ vids)

(* addWorker, with the classes that act_on_starting_worker enrols it in. *)
AddWorker ==
  /\ Running /\ Len(workers) < MW_MAX_WORKERS
  /\ hosts < MaxWorkers /\ hosts' = hosts + 1
  /\ \E G \in SUBSET MWworkClasses :
       /\ Cardinality(MWworkClasses) = 1 => G = MWworkClasses
       /\ workers' = Append(workers,
                       [virtual_id |-> NextVid, state |-> "INITIALIZING",
                        isBenchMark |-> FALSE, start_time |-> 0,
                        total_working |-> 0, num_benchmark |-> 0,
                        runningtask |-> NoTask, group |-> G])
       /\ MWworkClassWorkers' = Counted(MWworkClassWorkers, G, 1)
  /\ vids' = vids \cup {NextVid}
  /\ UNCHANGED <<stats, MWworkClassTasks, groups, todo, now, saved, printed, spent, number,
                 crashes>>

Set(k, w) == workers' = [workers EXCEPT ![k] = w]

(* worker_init: pack_worker_init_data may enrol the worker in further classes. *)
WorkerInit(k) ==
  /\ Running /\ workers[k].state = "INITIALIZING"
  /\ \E G \in SUBSET (MWworkClasses \ workers[k].group) :
       /\ Set(k, [workers[k] EXCEPT !.state = "BENCHMARKING", !.isBenchMark = TRUE,
                                    !.group = @ \cup G])
       /\ MWworkClassWorkers' = Counted(MWworkClassWorkers, G, 1)
  /\ UNCHANGED <<vids, stats, MWworkClassTasks, groups, todo, now, saved, printed, spent, number,
                 hosts, crashes>>

(* handle_benchmark: only now does the worker's time begin to count. *)
HandleBenchmark(k) ==
  /\ Running /\ workers[k].isBenchMark
  /\ Set(k, [workers[k] EXCEPT !.state = "IDLE", !.isBenchMark = FALSE,
                               !.start_time = now, !.num_benchmark = @ + 1])
  /\ spent' = [spent EXCEPT !.bench = @ + 1]
  /\ UNCHANGED <<vids, stats, MWworkClassWorkers, MWworkClassTasks, groups, todo,
                 now, saved, printed, number, hosts, crashes>>

-----------------------------------------------------------------------------
(* ... and go. *)

(* Time passes between a worker's benchmark and the next message. *)
HasLived(k) == workers[k].start_time < now

Uptime(w) == IF w.start_time > 0 THEN now - w.start_time ELSE 0

(* What a worker has spent that is not gathered yet: ckpt_stats. *)
Own(w) == [up |-> Uptime(w), working |-> w.total_working, bench |-> w.num_benchmark]

(* Mutant of Gathered: the id counts for its last worker alone. *)
GatheredAnew(s, w) == [s EXCEPT ![w.virtual_id] = Own(w)]

(* gather *)
Gathered(s, w) == [s EXCEPT ![w.virtual_id] = Plus(@, Own(w))]

(* statsgather sets the worker's account back. *)
AfterGather(w) == [w EXCEPT !.total_working = 0, !.num_benchmark = 0, !.start_time = now]

(* ended: the id is free, the classes are left. *)
Ended(k) ==
  /\ vids' = vids \ {workers[k].virtual_id}
  /\ MWworkClassWorkers' = Counted(MWworkClassWorkers, workers[k].group, -1)
  /\ stats' = Gathered(stats, workers[k])
  /\ workers' = RemoveAt(workers, k)

(* worker_last_rites: packing fails, or the worker says that it failed. *)
WorkerLastRites(k) ==
  /\ Running /\ workers[k].state \in {"INITIALIZING", "BENCHMARKING"}
  /\ Ended(k)
  /\ UNCHANGED <<MWworkClassTasks, groups, todo, now, saved, printed, spent, number, hosts,
                 crashes>>

(* handle_hostdel, hostPostmortem: the task goes back to the head of the list. *)
HandleHostDel(k) ==
  /\ Running /\ HasLived(k) /\ Ended(k)
  /\ todo' = IF workers[k].runningtask = NoTask THEN todo
             ELSE <<workers[k].runningtask>> \o todo
  /\ UNCHANGED <<MWworkClassTasks, groups, now, saved, printed, spent, number, hosts, crashes>>

HandleHostSuspend(k) ==
  /\ Running /\ workers[k].state \in {"IDLE", "BENCHMARKING", "WORKING"}
  /\ Set(k, [workers[k] EXCEPT !.state = "SUSPENDED"])
  /\ UNCHANGED <<vids, stats, MWworkClassWorkers, MWworkClassTasks, groups, todo,
                 now, saved, printed, spent, number, hosts, crashes>>

HandleHostResume(k) ==
  /\ Running /\ workers[k].state = "SUSPENDED"
  /\ LET w == workers[k]
     IN  Set(k, [w EXCEPT !.state = IF w.runningtask # NoTask THEN "WORKING"
                                    ELSE IF w.isBenchMark THEN "BENCHMARKING" ELSE "IDLE"])
  /\ UNCHANGED <<vids, stats, MWworkClassWorkers, MWworkClassTasks, groups, todo,
                 now, saved, printed, spent, number, hosts, crashes>>

-----------------------------------------------------------------------------
(* Tasks and their classes. *)

(* addTask, with the classes the user has put the task in. *)
AddTask ==
  /\ Running /\ number < MaxTasks /\ number' = number + 1
  /\ \E G \in SUBSET MWworkClasses :
       /\ Cardinality(MWworkClasses) = 1 => G = MWworkClasses
       /\ groups' = [n \in DOMAIN groups \cup {number + 1} |->
                       IF n = number + 1 THEN G ELSE groups[n]]
       /\ MWworkClassTasks' = Counted(MWworkClassTasks, G, 1)
  /\ todo' = Append(todo, number + 1)
  /\ UNCHANGED <<workers, vids, stats, MWworkClassWorkers, now, saved, printed, spent, hosts,
                 crashes>>

DoesOverlap(G, H) == G \cap H # {}

(* send_task_to_worker: the first task that has a class of the worker's. *)
SendTaskToWorker(k) ==
  /\ Running /\ workers[k].state = "IDLE"
  /\ \E p \in DOMAIN todo :
       /\ DoesOverlap(workers[k].group, groups[todo[p]])
       /\ \A q \in 1 .. p - 1 : ~DoesOverlap(workers[k].group, groups[todo[q]])
       /\ Set(k, [workers[k] EXCEPT !.state = "WORKING", !.runningtask = todo[p]])
       /\ todo' = RemoveAt(todo, p)
  /\ UNCHANGED <<vids, stats, MWworkClassWorkers, MWworkClassTasks, groups,
                 now, saved, printed, spent, number, hosts, crashes>>

(* Mutant of AreRefreshed: busy workers are refreshed, too. *)
BusyAreRefreshed(k) == SUBSET (DOMAIN workers)

(* refreshWorkers, with k as MWcurrentWorker: nobody, k, or of the workers of *)
(* a class those that are idle, and k.                                        *)
AreRefreshed(k) ==
  {{}, {k}} \cup
  {{j \in DOMAIN workers : i \in workers[j].group /\ (j = k \/ workers[j].state = "IDLE")} :
     i \in MWworkClasses}

(* They leave all classes, and pack_worker_init_data enrols them in G. *)
Refreshed(W, R, G) == [j \in DOMAIN W |-> IF j \in R THEN [W[j] EXCEPT !.group = G] ELSE W[j]]
Recounted(count, W, R, G) ==
  [c \in MWworkClasses |-> count[c] - Cardinality({j \in R : c \in W[j].group})
                            + IF c \in G THEN Cardinality(R) ELSE 0]

(* get_max_vid: as many ids as have been up *)
MaxVid(s) == Max({-1} \cup {v \in Vid : s[v].up > 0}) + 1

(* write_checkpoint of the statistics, of as many ids as have been up or are in *)
(* use, and of the tasks' classes; what remains of the list W is to be done.    *)
Checkpointed(W, G) ==
  LET n == Max({MaxVid(stats), 1} \cup {W[j].virtual_id + 1 : j \in DOMAIN W})
      all == FoldLeft(Gathered, stats, W)
      run == SetToSeq({W[j].runningtask : j \in DOMAIN W} \ {NoTask})
  IN  [stats |-> [v \in Vid |-> IF v < n THEN all[v] ELSE Zero],
       groups |-> Restrict(groups, G), todo |-> todo \o run, spent |-> spent]

(* deleteGroup of a task that is done. *)
WithoutTask(n) == Counted(MWworkClassTasks, groups[n], -1)

(* handle_worker_results: act_on_completed_task may refresh workers, and a       *)
(* checkpoint may be written, before the task's time is booked and it is deleted.*)
HandleWorkerResults(k) ==
  /\ Running /\ workers[k].runningtask # NoTask
  /\ LET n == workers[k].runningtask IN
     \E R \in AreRefreshed(k), G \in SUBSET MWworkClasses,
        wall_time \in 0 .. now - workers[k].start_time, ckpt \in BOOLEAN :
       LET W == Refreshed(workers, R, G)
           free == [W EXCEPT ![k].runningtask = NoTask]
       IN  /\ R = {} => G = {}
           /\ ckpt => \A j \in DOMAIN workers : HasLived(j)
           /\ workers' = [free EXCEPT ![k].state = "IDLE",
                                      ![k].total_working = @ + wall_time]
           /\ MWworkClassWorkers' = Recounted(MWworkClassWorkers, workers, R, G)
           /\ spent' = [spent EXCEPT !.working = @ + wall_time]
           /\ saved' = IF ckpt THEN Checkpointed(free, DOMAIN groups \ {n}) ELSE saved
           /\ MWworkClassTasks' = WithoutTask(n)
           /\ groups' = Restrict(groups, DOMAIN groups \ {n})
  /\ UNCHANGED <<vids, stats, todo, now, printed, number, hosts, crashes>>

-----------------------------------------------------------------------------
(* The master dies, and restarts from the checkpoint.  The tasks that are read *)
(* belong to their classes before addGroup is called, which then counts none.  *)
Restart ==
  /\ Running /\ saved # NULL /\ crashes < MaxCrashes /\ crashes' = crashes + 1
  /\ workers' = <<>> /\ vids' = {}
  /\ stats' = saved.stats /\ spent' = saved.spent
  /\ groups' = saved.groups /\ todo' = saved.todo
  /\ MWworkClassWorkers' = [c \in MWworkClasses |-> 0]
  /\ MWworkClassTasks' = [c \in MWworkClasses |-> 0]
  /\ UNCHANGED <<now, saved, printed, number, hosts>>

(* The end: statsgather, makestats; and then kill_workers. *)
Finish ==
  /\ groups = <<>> /\ number > 0 /\ Running /\ \A k \in DOMAIN workers : HasLived(k)
  /\ LET all == FoldLeft(Gathered, stats, workers)
     IN  /\ stats' = all
         /\ printed' = [q \in DOMAIN Zero |-> Total([j \in 1 .. MaxVid(all) |-> all[j - 1][q]])]
  /\ workers' = [k \in DOMAIN workers |-> AfterGather(workers[k])]
  /\ UNCHANGED <<vids, MWworkClassWorkers, MWworkClassTasks, groups, todo,
                 now, saved, spent, number, hosts, crashes>>

KillWorkers ==
  /\ ~Running /\ workers # <<>>
  /\ workers' = <<>>
  /\ vids' = vids \ {workers[k].virtual_id : k \in DOMAIN workers}
  /\ stats' = FoldLeft(Gathered, stats, workers)
  /\ MWworkClassWorkers' =
       [c \in MWworkClasses |->
          MWworkClassWorkers[c] - Cardinality({k \in DOMAIN workers : c \in workers[k].group})]
  /\ UNCHANGED <<MWworkClassTasks, groups, todo, now, saved, printed, spent, number, hosts,
                 crashes>>

Tick ==
  /\ Running /\ now < MaxTime /\ now' = now + 1
  /\ spent' =
       [spent EXCEPT !.up = @ + Cardinality({k \in DOMAIN workers : workers[k].start_time > 0})]
  /\ UNCHANGED <<workers, vids, stats, MWworkClassWorkers, MWworkClassTasks, groups, todo,
                 saved, printed, number, hosts, crashes>>

Next ==
  \/ AddWorker \/ AddTask \/ Restart \/ Finish \/ KillWorkers \/ Tick
  \/ \E k \in DOMAIN workers : WorkerInit(k) \/ HandleBenchmark(k) \/ WorkerLastRites(k)
  \/ \E k \in DOMAIN workers : HandleHostDel(k) \/ HandleHostSuspend(k) \/ HandleHostResume(k)
  \/ \E k \in DOMAIN workers : SendTaskToWorker(k) \/ HandleWorkerResults(k)

Spec == Init /\ [][Next]_statsVars

-----------------------------------------------------------------------------
(* Properties *)

(* No virtual id is shared by two workers of the list, and none is lost to a *)
(* worker that has gone.                                                     *)
VidsAreOwn ==
  /\ vids = {workers[k].virtual_id : k \in DOMAIN workers}
  /\ Cardinality(vids) = Len(workers)

(* What was gathered of the workers that are gone and what those that are there *)
(* have not handed over yet, is what all have spent since the application       *)
(* began, but for the time after the last checkpoint of a master that died:     *)
(* reused ids, repeated gathering, checkpoints and restarts lose nothing and    *)
(* count nothing twice.  And that is what is printed at the end.                *)
TotalsAddUp ==
  IF Running
  THEN \A q \in DOMAIN Zero :
         spent[q] = Total([j \in 1 .. MW_MAX_WORKERS |-> stats[j - 1][q]])
                    + Total([k \in DOMAIN workers |-> Own(workers[k])[q]])
  ELSE printed = spent

(* A class has as many tasks as belong to it ... *)
TasksAreCounted ==
  \A c \in MWworkClasses :
    MWworkClassTasks[c] = Cardinality({n \in DOMAIN groups : c \in groups[n]})

(* ... as long as there was no restart, and as many workers, in the middle of a *)
(* refresh or not; and no worker has a task but one of its classes.             *)
ClassesAreRight ==
  /\ StatsTypeOK
  /\ \A c \in MWworkClasses :
       MWworkClassWorkers[c] = Cardinality({k \in DOMAIN workers : c \in workers[k].group})
  /\ crashes = 0 => TasksAreCounted
  /\ \A k \in DOMAIN workers :
       workers[k].runningtask # NoTask =>
         workers[k].group \cap groups[workers[k].runningtask] # {}
=============================================================================
