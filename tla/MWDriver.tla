------------------------------ MODULE MWDriver ------------------------------
(***************************************************************************)
(* The master of the MW framework (mw-src/src/MWDriver.C): the task pool   *)
(* (todo, running), the list of known workers and the handlers of          *)
(* master_mainloop_oneshot.  The environment is open: any message the      *)
(* RMComm layer can deliver may arrive at any time, from any worker id,    *)
(* known or not.  MWSystem closes the loop with the worker processes.      *)
(*                                                                         *)
(* One iteration of the main loop is one step: receive, dispatch, rematch  *)
(* idle workers with the todo list, and, when it is due, reassign the      *)
(* tasks of timed-out workers.  The driver's state is one record, so that  *)
(* a handler is an operator from a state to the set of states it may       *)
(* leave behind, and the parts of an iteration compose.                    *)
(*                                                                         *)
(* Abstractions.                                                           *)
(*  - todo, running, workers are sets.  Which task getNextTask takes and   *)
(*    which idle worker is served first depend on addmode, getmode, the    *)
(*    key functions and the machine ordering; here they are any.           *)
(*  - One work class (MWworkClasses <= 1): every task suits every worker.  *)
(*  - All tasks are MWNORMAL; SUBRESULTS, whose send is commented out in   *)
(*    MWWorker.C, is left out, and so are checkpoints and statistics.      *)
(*  - "nosend" of rematch_tasks_to_workers excludes a worker only if both  *)
(*    its ids equal one id, and then only one that was just served.        *)
(***************************************************************************)
EXTENDS Integers, Sequences, FiniteSets

CONSTANTS
  Worker,            \* the ids workers may have
  Task,              \* the task numbers that may be given out
  NoTask,            \* the NULL task pointer
  InitialTasks,      \* what setup_initial_tasks returns
  SuspensionPolicy,  \* "DEFAULT" or "REASSIGN"
  WorkerTimeout,     \* has set_worker_timeout_limit been called?
  MaxSurplus,        \* the most hosts RMC->hostaddlogic asks to delete
  UserReturns        \* what the user's callbacks may return: {"OK"} or {"OK", "QUIT"}

ASSUME ConstantsAreFinite == IsFiniteSet(Worker) /\ IsFiniteSet(Task)
ASSUME NoTaskIsNoTask == NoTask \notin Task
ASSUME InitialTasksAreTasks == InitialTasks \subseteq Task /\ InitialTasks # {}
ASSUME PolicyIsKnown == SuspensionPolicy \in {"DEFAULT", "REASSIGN"}
ASSUME OptionsAreTyped == WorkerTimeout \in BOOLEAN /\ MaxSurplus \in Nat
ASSUME UserReturnsAreKnown == UserReturns \subseteq {"OK", "QUIT"}

VARIABLE mw

WorkerState ==
  {"INITIALIZING", "BENCHMARKING", "IDLE", "WORKING", "SUSPENDED", "EXITED"}

(* What the master sends: INIT_REPLY, DO_THIS_WORK with a task, KILL_YOURSELF. *)
Message == [tag : {"INIT_REPLY", "DO_THIS_WORK", "KILL_YOURSELF"},
            task : Task \cup {NoTask}]

Control(tag) == [tag |-> tag, task |-> NoTask]
DoThisWork(t) == [tag |-> "DO_THIS_WORK", task |-> t]

(***************************************************************************)
(* The driver's state.  created, completed are history: the tasks given a  *)
(* number so far and those act_on_completed_task was called with.  live is *)
(* the set of task objects not yet deleted.  sent[w] holds what this       *)
(* iteration has passed to RMC->send for w.  halt says why the main loop   *)
(* ended, if it did.                                                       *)
(***************************************************************************)
DriverState ==
  [ todo : SUBSET Task,
    running : SUBSET Task,
    reassigned_tasks : SUBSET Task,
    reassigned_tasks_done : SUBSET Task,
    num_completed_tasks : Nat,
    workers : SUBSET Worker,
    state : [Worker -> WorkerState],
    runningtask : [Worker -> Task \cup {NoTask}],
    isBenchMark : [Worker -> BOOLEAN],
    doomed : [Worker -> BOOLEAN],
    created : SUBSET Task,
    completed : SUBSET Task,
    live : SUBSET Task,
    sent : [Worker -> Seq(Message)],
    ustat : {"OK", "QUIT"},
    halt : {"no", "finished", "stopped", "crashed"} ]

-----------------------------------------------------------------------------
(* Queries. *)

InState(m, s) == {w \in m.workers : m.state[w] = s}
Idle(m) == InState(m, "IDLE")

(* task_assigned: the known workers whose runningtask is t. *)
Holders(m, t) == {w \in m.workers : m.runningtask[w] = t}

Image(f) == {f[x] : x \in DOMAIN f}
Injective(f) == \A x, y \in DOMAIN f : f[x] = f[y] => x = y

(* The one-to-one partial functions from A to B that cannot be extended: *)
(* one of A and B is used up.                                            *)
Matchings(A, B) ==
  {f \in UNION {[D -> B] : D \in SUBSET A} :
      Injective(f) /\ (DOMAIN f = A \/ Image(f) = B)}

-----------------------------------------------------------------------------
(* Updates. *)

Send(m, w, msg) == [m EXCEPT !.sent[w] = Append(@, msg)]

Crash(m) == [m EXCEPT !.halt = "crashed"]

(* addTasks: number the tasks N and push them on the todo list. *)
AddTasks(m, N) ==
  [m EXCEPT !.todo = @ \cup N, !.created = @ \cup N, !.live = @ \cup N]

(* The workers in the domain of f are given the tasks f: gottask, give_work, *)
(* runningtask.                                                              *)
GiveWork(m, f) ==
  [m EXCEPT
     !.state = [w \in Worker |-> IF w \in DOMAIN f THEN "WORKING" ELSE @[w]],
     !.runningtask = [w \in Worker |-> IF w \in DOMAIN f THEN f[w] ELSE @[w]],
     !.sent = [w \in Worker |->
                 IF w \in DOMAIN f THEN Append(@[w], DoThisWork(f[w])) ELSE @[w]]]

(* getNextTask takes the tasks off the todo list, putOnRunQ puts them on the *)
(* run queue.                                                                *)
Assign(m, f) ==
  GiveWork([m EXCEPT !.todo = @ \ Image(f), !.running = @ \cup Image(f)], f)

SendTaskToWorker(m, w) ==
  IF m.state[w] # "IDLE" \/ m.todo = {}
  THEN {m}
  ELSE {Assign(m, [x \in {w} |-> t]) : t \in m.todo}

RematchTasksToWorkers(m) == {Assign(m, f) : f \in Matchings(Idle(m), m.todo)}

(* Forget the workers K: they leave the list and their records are deleted. *)
RmWorkers(m, K) ==
  [m EXCEPT
     !.workers = @ \ K,
     !.state = [w \in Worker |-> IF w \in K THEN "EXITED" ELSE @[w]],
     !.runningtask = [w \in Worker |-> IF w \in K THEN NoTask ELSE @[w]],
     !.isBenchMark = [w \in Worker |-> IF w \in K THEN FALSE ELSE @[w]],
     !.doomed = [w \in Worker |-> IF w \in K THEN FALSE ELSE @[w]]]

(* worker_last_rites does nothing for a task the worker may hold. *)
WorkerLastRites(m, w) == RmWorkers(m, {w})

(* Mutants of HostPostmortem: the task of a dead worker stays on the run *)
(* queue; nobody checks that it is there.                                *)
HostPostmortemForgets(m, K) == RmWorkers(m, K)

HostPostmortemUnchecked(m, K) ==
  LET rest == RmWorkers(m, K)
      orphans == {t \in Task : /\ \E w \in K : m.runningtask[w] = t
                               /\ Holders(rest, t) = {}}
  IN  [rest EXCEPT !.running = @ \ orphans, !.todo = @ \cup orphans]

(* hostPostmortem, for each of K: a task that is on the run queue and that *)
(* no worker holds any more goes back to the todo list.                    *)
HostPostmortem(m, K) ==
  LET rest == RmWorkers(m, K)
      orphans == {t \in m.running :
                    /\ \E w \in K : m.runningtask[w] = t
                    /\ Holders(rest, t) = {}}
  IN  [rest EXCEPT !.running = @ \ orphans, !.todo = @ \cup orphans]

MarkForRemoval(m, K) ==
  [m EXCEPT !.doomed = [w \in Worker |-> w \in K \/ @[w]]]

(* A walk over the list that removes up to n members of S.  Its loop runs  *)
(* while total < workers->number(), and number() shrinks with each         *)
(* removal: k removals leave up to k workers unvisited.                    *)
Walks(S, n) ==
  {K \in SUBSET S : \/ Cardinality(K) = n
                    \/ Cardinality(K) < n /\ Cardinality(S \ K) <= Cardinality(K)}

(* n hosts are to go: idle workers, then suspended ones, then marks. *)
DeleteHosts(m, n) ==
  UNION { UNION { { MarkForRemoval(HostPostmortem(RmWorkers(m, K), L), D) :
                      D \in LET left == n - Cardinality(K) - Cardinality(L)
                                unmarked == {w \in m.workers \ (K \cup L) : ~m.doomed[w]}
                            IN  {E \in SUBSET unmarked :
                                   Cardinality(E) = IF Cardinality(unmarked) < left
                                                    THEN Cardinality(unmarked) ELSE left} }
                  : L \in Walks(InState(m, "SUSPENDED"), n - Cardinality(K)) }
          : K \in Walks(Idle(m), n) }

(* RMC->hostaddlogic returns how many hosts to delete; those already marked *)
(* are not counted twice.                                                   *)
CallHostaddlogic(m) ==
  LET marked == Cardinality({w \in m.workers : m.doomed[w]})
  IN  {m} \cup UNION {DeleteHosts(m, n - marked) : n \in (marked + 1)..MaxSurplus}

-----------------------------------------------------------------------------
(* The handlers of master_mainloop_oneshot: each gives the set of states it *)
(* may leave behind, before the end of the iteration.                       *)

(* A worker process reports to a master that has no record of it. *)
TellStranger(m, w) == {Send(m, w, Control("KILL_YOURSELF"))}

(* worker_init: the buffer cannot be set up, the user's pack_worker_init_data *)
(* fails, or the worker is sent an INIT_REPLY.                                *)
WorkerInit(m, w) ==
  {WorkerLastRites(m, w)}
  \cup {[WorkerLastRites(m, w) EXCEPT !.ustat = r] : r \in UserReturns \ {"OK"}}
  \cup {[Send(m, w, Control("INIT_REPLY")) EXCEPT
           !.state[w] = "BENCHMARKING", !.isBenchMark[w] = TRUE]}

(* handle_benchmark: a worker that failed to initialise is given up, another *)
(* is given its first task.                                                  *)
HandleBenchmark(m, w, okay) ==
  IF ~okay
  THEN {WorkerLastRites(m, w)}
  ELSE SendTaskToWorker([m EXCEPT !.state[w] = "IDLE", !.isBenchMark[w] = FALSE], w)

(* The worker is done with what it was running: completedtask. *)
CompletedTask(m, w) == [m EXCEPT !.state[w] = "IDLE", !.runningtask[w] = NoTask]

(* Mutant of ActOnCompletedTask: the task is deleted without a look at the *)
(* other workers.                                                          *)
ActAndDelete(m, w, t, N, r) ==
  [CompletedTask(AddTasks(m, N), w) EXCEPT
     !.running = @ \ {t}, !.todo = @ \ {t}, !.completed = @ \cup {t},
     !.num_completed_tasks = @ + 1,
     !.reassigned_tasks_done = IF t \in m.reassigned_tasks THEN @ \cup {t} ELSE @,
     !.live = @ \ {t}, !.ustat = r]

(* act_on_completed_task for t, which adds the tasks N and returns r; then *)
(* t is deleted unless another worker still holds it.                      *)
ActOnCompletedTask(m, w, t, N, r) ==
  LET acted == CompletedTask(AddTasks(m, N), w)
  IN  [acted EXCEPT
         !.running = @ \ {t},
         !.todo = @ \ {t},
         !.completed = @ \cup {t},
         !.num_completed_tasks = @ + 1,
         !.reassigned_tasks_done =
             IF t \in m.reassigned_tasks THEN @ \cup {t} ELSE @,
         !.live = IF Holders(acted, t) = {} THEN @ \ {t} ELSE @,
         !.ustat = r]

(* Mutants of IsWanted: the todo list is not looked at; any result is. *)
IsOnRunQ(m, t) == t \in m.running
IsKnown(m, t) == t \in m.created

(* The task object the result of task t is handed to: the one on the run    *)
(* queue, or, if it is not known to be done, the one on the todo list.      *)
IsWanted(m, t) ==
  \/ t \in m.running
  \/ t \in m.todo /\ t \notin m.reassigned_tasks_done

(* handle_worker_results for the result of task t. *)
HandleWorkerResults(m, w, t, N, r) ==
  IF t # m.runningtask[w]
  THEN [m EXCEPT !.ustat = "QUIT"]
  ELSE IF SuspensionPolicy = "REASSIGN" /\ t \notin m.running /\ m.todo # {}
  THEN Crash(m)          \* tmp_t->number == t->number with t == NULL
  ELSE IF IsWanted(m, t)
  THEN ActOnCompletedTask(m, w, t, N, r)
  ELSE CompletedTask(m, w)

(* The RESULTS case: a doomed worker goes, another gets its next task, and if *)
(* the user (or a result nobody expected) says stop, the worker is killed.    *)
HandleResults(m, w, t, N, r) ==
  LET done == HandleWorkerResults(m, w, t, N, r)
  IN  IF done.halt = "crashed" THEN {done}
      ELSE IF done.doomed[w] THEN {WorkerLastRites(done, w)}
      ELSE IF done.ustat = "OK" THEN SendTaskToWorker(done, w)
      ELSE CallHostaddlogic(WorkerLastRites(Send(done, w, Control("KILL_YOURSELF")), w))

(* Mutant of AddWorker: the worker is thought ready before its INIT. *)
AddIdleWorker(m, w) ==
  [m EXCEPT !.workers = @ \cup {w}, !.state[w] = "IDLE"]

(* HOSTADD: start_worker starts one of W, and the new worker is INITIALIZING, *)
(* or fails.                                                                  *)
AddWorker(m, w) ==
  [m EXCEPT !.workers = @ \cup {w}, !.state[w] = "INITIALIZING"]

HandleHostadd(m, W) ==
  CallHostaddlogic(m) \cup UNION {CallHostaddlogic(AddWorker(m, w)) : w \in W}

(* HOSTDELETE and TASKEXIT. *)
HandleExit(m, w) ==
  IF w \in m.workers THEN CallHostaddlogic(HostPostmortem(m, {w})) ELSE {m}

(* Mutant of HandleHostsuspend: the task is not marked as reassigned. *)
SuspendUnmarked(m, w) ==
  LET t == m.runningtask[w]
      susp == [m EXCEPT !.state[w] = "SUSPENDED"]
  IN  IF w \notin m.workers THEN {m}
      ELSE IF SuspensionPolicy = "DEFAULT" \/ t \notin m.running THEN {susp}
      ELSE RematchTasksToWorkers([susp EXCEPT !.running = @ \ {t}, !.todo = @ \cup {t}])

(* HOSTSUSPEND: under REASSIGN a running task goes back to the todo list,   *)
(* while the suspended worker keeps pointing at it.  (One that is known to  *)
(* be done would just leave the run queue.)                                 *)
HandleHostsuspend(m, w) ==
  LET t == m.runningtask[w]
      susp == [m EXCEPT !.state[w] = "SUSPENDED"]
      off == [susp EXCEPT !.running = @ \ {t}]
  IN  IF w \notin m.workers THEN {m}
      ELSE IF SuspensionPolicy = "DEFAULT" \/ t \notin m.running THEN {susp}
      ELSE IF t \in m.reassigned_tasks_done THEN {off}
      ELSE RematchTasksToWorkers(
             [off EXCEPT !.todo = @ \cup {t}, !.reassigned_tasks = @ \cup {t}])

(* Mutants of HandleHostresume: the worker's task is forgotten; a worker *)
(* without a task is not resumed.                                        *)
ResumeIdle(m, w) ==
  IF w \notin m.workers \/ m.state[w] # "SUSPENDED" THEN {m}
  ELSE {[m EXCEPT !.state[w] = IF m.isBenchMark[w] THEN "BENCHMARKING" ELSE "IDLE"]}

ResumeWorking(m, w) ==
  IF w \notin m.workers \/ m.state[w] # "SUSPENDED" \/ m.runningtask[w] = NoTask THEN {m}
  ELSE {[m EXCEPT !.state[w] = "WORKING"]}

(* HOSTRESUME. *)
HandleHostresume(m, w) ==
  IF w \notin m.workers \/ m.state[w] # "SUSPENDED" THEN {m}
  ELSE {[m EXCEPT !.state[w] = IF m.runningtask[w] # NoTask THEN "WORKING"
                               ELSE IF m.isBenchMark[w] THEN "BENCHMARKING"
                               ELSE "IDLE"]}

(* CHECKSUM_ERROR.  The log line names the worker before w is tested for    *)
(* NULL.  A worker that is BENCHMARKING is sent INIT_REPLY again, unless    *)
(* the user's pack_worker_init_data fails; one that is WORKING would be     *)
(* sent its task, but send_task_to_worker serves IDLE workers only.         *)
HandleChecksum(m, w) ==
  IF w \notin m.workers THEN {Crash(m)}
  ELSE IF m.state[w] = "BENCHMARKING"
  THEN {[Send(m, w, Control("INIT_REPLY")) EXCEPT !.isBenchMark[w] = TRUE]}
       \cup {RmWorkers(m, {w}) : r \in UserReturns \ {"OK"}}
  ELSE IF m.state[w] = "WORKING" /\ m.runningtask[w] # NoTask
  THEN SendTaskToWorker(m, w)
  ELSE {m}

(* The dispatch of what a worker process sends; one the master has no record *)
(* of is told to kill itself.                                                *)
OnInit(m, w) ==
  IF w \in m.workers THEN WorkerInit(m, w) ELSE TellStranger(m, w)

OnBenchResults(m, w, okay) ==
  IF w \in m.workers THEN HandleBenchmark(m, w, okay) ELSE TellStranger(m, w)

(* The result of task t; the user's act_on_completed_task adds the tasks N *)
(* and returns r.                                                          *)
OnResults(m, w, t, N, r) ==
  IF w \in m.workers THEN HandleResults(m, w, t, N, r) ELSE TellStranger(m, w)

-----------------------------------------------------------------------------
(* The end of an iteration. *)

(* The second loop of reassign_tasks_timedout_workers: a task of the run    *)
(* queue that no worker holds has been popped from the queue before         *)
(* rmFromRunQ looks for it there, and the assertion fails.                  *)
CheckRunQ(m) ==
  IF \E t \in m.running : Holders(m, t) = {} THEN Crash(m) ELSE m

(* Mutant of ReassignTasksOf: nobody looks for an idle worker. *)
ReassignToTodo(m, T) ==
  LET late == {m.runningtask[w] : w \in T} \cap m.running
  IN  {CheckRunQ([m EXCEPT !.running = @ \ late, !.todo = @ \cup late,
                           !.reassigned_tasks = @ \cup late])}

(* The workers T, WORKING on a task, are found timed out.  The rematch that *)
(* went before left no idle worker or an empty todo list, so the idle       *)
(* workers take tasks over as long as there are any (f says who takes over  *)
(* whose task) and the other tasks stay on the todo list.                   *)
ReassignTasksOf(m, T) ==
  LET onRunQ == {w \in T : m.runningtask[w] \in m.running}
      late == {w \in onRunQ : m.runningtask[w] \notin m.reassigned_tasks_done}
      TaskOf(S) == {m.runningtask[w] : w \in S}
      TakenOver(f) ==
        LET rest == [m EXCEPT
                       !.running = (@ \ TaskOf(onRunQ \ late)) \ TaskOf(late \ Image(f)),
                       !.todo = @ \cup TaskOf(late \ Image(f)),
                       !.reassigned_tasks = @ \cup TaskOf(late)]
        IN  GiveWork(rest, [o \in DOMAIN f |-> m.runningtask[f[o]]])
  IN  {CheckRunQ(TakenOver(f)) : f \in Matchings(Idle(m), late)}

(* The check, if it is due.  late are the workers with no event for         *)
(* worker_timeout_limit; one that has been given a task in this iteration   *)
(* has had one.                                                             *)
ReassignTimedout(m, due, late) ==
  IF due
  THEN ReassignTasksOf(m, {w \in late \cap InState(m, "WORKING") :
                             m.runningtask[w] # NoTask /\ m.sent[w] = <<>>})
  ELSE {m}

(* Does the main loop go on? *)
Conclude(m) ==
  IF m.halt = "crashed" THEN m
  ELSE [m EXCEPT !.halt = IF m.ustat # "OK" THEN "stopped"
                          ELSE IF m.todo = {} /\ m.running = {} THEN "finished"
                          ELSE "no"]

EndOfIteration(m, due, late) ==
  IF m.halt = "crashed" THEN {m}
  ELSE {Conclude(n) : n \in UNION {ReassignTimedout(k, due, late) :
                                      k \in RematchTasksToWorkers(m)}}

-----------------------------------------------------------------------------
(* master_setup: the initial tasks are pushed, some workers could be started. *)
Setup(W) ==
  [ todo |-> InitialTasks, running |-> {},
    reassigned_tasks |-> {}, reassigned_tasks_done |-> {},
    num_completed_tasks |-> 0,
    workers |-> W,
    state |-> [w \in Worker |-> IF w \in W THEN "INITIALIZING" ELSE "EXITED"],
    runningtask |-> [w \in Worker |-> NoTask],
    isBenchMark |-> [w \in Worker |-> FALSE],
    doomed |-> [w \in Worker |-> FALSE],
    created |-> InitialTasks, completed |-> {}, live |-> InitialTasks,
    sent |-> [w \in Worker |-> <<>>],
    ustat |-> "OK", halt |-> "no" ]

Init == \E W \in SUBSET Worker : mw \in CallHostaddlogic(Setup(W))

(* Mutant of Running: the loop goes on when the user says stop. *)
RunningOn == mw.halt \in {"no", "stopped"}

(* Whether the main loop is about to receive, and the state it does so in. *)
Running == mw.halt = "no"
Received == [mw EXCEPT !.sent = [w \in Worker |-> <<>>]]

(* The iteration whose handler leaves one of the states S; if timeouts are *)
(* on, their check may be due, and any working worker may be late.         *)
Iterate(S) ==
  \E m \in S :
     \/ mw' \in EndOfIteration(m, FALSE, {})
     \/ /\ WorkerTimeout
        /\ \E late \in SUBSET InState(m, "WORKING") : mw' \in EndOfIteration(m, TRUE, late)

ReceiveInit(w) == Running /\ Iterate(OnInit(Received, w))
ReceiveBenchResults(w, okay) == Running /\ Iterate(OnBenchResults(Received, w, okay))
ReceiveResults(w, t, N, r) == Running /\ Iterate(OnResults(Received, w, t, N, r))
ReceiveHostadd == Running /\ Iterate(HandleHostadd(Received, Worker \ mw.workers))
ReceiveExit(w) == Running /\ Iterate(HandleExit(Received, w))
ReceiveHostsuspend(w) == Running /\ Iterate(HandleHostsuspend(Received, w))
ReceiveHostresume(w) == Running /\ Iterate(HandleHostresume(Received, w))
ReceiveChecksumError(w) == Running /\ Iterate(HandleChecksum(Received, w))

(* kill_workers, at the end of go(). *)
AllKilled(m) ==
  [RmWorkers(m, m.workers) EXCEPT
     !.sent = [w \in Worker |->
                 IF w \in m.workers THEN Append(@[w], Control("KILL_YOURSELF")) ELSE @[w]]]

KillWorkers ==
  /\ mw.halt \in {"finished", "stopped"}
  /\ mw.workers # {}
  /\ mw' = AllKilled(Received)

Next ==
  \/ \E w \in Worker :
        \/ ReceiveInit(w)
        \/ \E okay \in BOOLEAN : ReceiveBenchResults(w, okay)
        \/ \E t \in Task, N \in SUBSET (Task \ mw.created), r \in UserReturns :
              ReceiveResults(w, t, N, r)
        \/ ReceiveExit(w)
        \/ ReceiveHostsuspend(w)
        \/ ReceiveHostresume(w)
        \/ ReceiveChecksumError(w)
  \/ ReceiveHostadd
  \/ KillWorkers

Spec == Init /\ [][Next]_mw

-----------------------------------------------------------------------------
(* Every part of the driver's state has its type. *)
TypeOK == mw \in DriverState

(* Where a task is: no task is lost, none is in two places, none comes back. *)
(* Every numbered task is on the todo list, on the run queue or acted upon,  *)
(* whatever reassignments, suspensions and deaths have happened.             *)
NoTaskLost ==
  /\ mw.created = mw.todo \cup mw.running \cup mw.completed
  /\ mw.todo \cap mw.running = {}
  /\ mw.completed \cap (mw.todo \cup mw.running) = {}

(* act_on_completed_task is called at most once per task, however many      *)
(* workers were given it: the counter that checkpoints and logs rely on     *)
(* counts distinct tasks.                                                   *)
ActedOncePerTask == mw.num_completed_tasks = Cardinality(mw.completed)

(* No deleted task can be reached: neither through the lists nor through    *)
(* the runningtask pointer of a known worker, which every result, death     *)
(* and suspension of that worker follows.                                   *)
NoDanglingTask ==
  /\ mw.todo \cup mw.running \subseteq mw.live
  /\ \A w \in mw.workers : mw.runningtask[w] \in mw.live \cup {NoTask}

(* The main loop ends without the user's request only when the user has     *)
(* been handed the result of every task ever added.                         *)
FinishedMeansAllDone == mw.halt = "finished" => mw.completed = mw.created

(* Between two iterations no worker waits for work while a task waits for a *)
(* worker, whatever put the task on the todo list: new tasks, a death, a    *)
(* suspension or a timeout.                                                 *)
NoIdleWhileTodo == mw.halt = "no" => mw.todo = {} \/ Idle(mw) = {}

(* A task that has been acted upon was, and is known to be, a reassigned    *)
(* one if a copy of it may still come in: the guard that stops its second   *)
(* result is in place.                                                      *)
LateResultsAreKnown ==
  \A w \in mw.workers :
     mw.runningtask[w] \in mw.completed => mw.runningtask[w] \in mw.reassigned_tasks_done

-----------------------------------------------------------------------------
(* The inductive invariant, over a state of the driver: it holds after each *)
(* part of an iteration, and so it is stated for any record m.              *)

(* Where the tasks are. *)
TasksAreInOnePlace(m) ==
  /\ m.created = m.todo \cup m.running \cup m.completed
  /\ m.todo \cap m.running = {}
  /\ m.completed \cap (m.todo \cup m.running) = {}

(* Nothing deleted can be reached.  An id that is not in use holds nothing: a *)
(* worker added under it starts without a task.                               *)
PointersAreLive(m) ==
  /\ m.live \subseteq m.created
  /\ m.todo \cup m.running \subseteq m.live
  /\ \A w \in Worker :
       /\ m.runningtask[w] \in m.live \cup {NoTask}
       /\ w \notin m.workers => m.runningtask[w] = NoTask

(* A task that has two holders, or waits on the todo list for a second one,  *)
(* has been reassigned; one that is done and may still come in is recorded   *)
(* as such, and no other is.                                                 *)
ReassignedAreMarked(m) ==
  /\ m.reassigned_tasks_done \subseteq m.completed
  /\ \A v, w \in Worker :
       v # w /\ m.runningtask[v] = m.runningtask[w] /\ m.runningtask[v] # NoTask
          => m.runningtask[v] \in m.reassigned_tasks
  /\ \A w \in Worker : m.runningtask[w] \in m.todo => m.runningtask[w] \in m.reassigned_tasks
  /\ \A w \in Worker :
       m.runningtask[w] \in m.completed => m.runningtask[w] \in m.reassigned_tasks_done

DriverInv(m) ==
  /\ m \in DriverState
  /\ TasksAreInOnePlace(m)
  /\ PointersAreLive(m)
  /\ ReassignedAreMarked(m)
  /\ m.num_completed_tasks = Cardinality(m.completed)

(* The invariant of the specification: the driver's state is consistent, and *)
(* the loop has not finished with anything left to do.                       *)
IInv ==
  /\ DriverInv(mw)
  /\ mw.halt = "finished" => mw.todo = {} /\ mw.running = {}
=============================================================================
