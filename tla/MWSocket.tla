------------------------------ MODULE MWSocket ------------------------------
(***************************************************************************)
(* The socket back end (MWSocketRC.C): a worker is a Condor job that       *)
(* connects to the master and tells which slot it is for.  The job stays   *)
(* in Condor's queue when it ends (on_exit_remove = false), so a worker    *)
(* that is lost comes back by itself; the master waits for any socket with *)
(* poll, as it is built on Linux, and guards its reads by an alarm.        *)
(*                                                                         *)
(* Abstractions.                                                           *)
(*  - One execution class, whose target is the number of slots and does    *)
(*    not change.  condor_submit succeeds.                                 *)
(*  - Of the driver, which tasks are to do, and its list of workers: INIT, *)
(*    INIT_REPLY, BENCH_RESULTS and the first task are one exchange.       *)
(*  - A worker whose connection the master has closed ends: it is reset.   *)
(*  - Checkpoints are made by frequency, and succeed; that two masters     *)
(*    read the checkpoint alike is MWCheckpoint's matter.                  *)
(*  - A master that comes back listens where the last one did: if its port *)
(*    is taken still and it takes the next, older jobs never find it.      *)
(***************************************************************************)
EXTENDS Integers, Sequences, FiniteSets, FiniteSetsExt, SequencesExt, Functions

CONSTANTS
  target_num_workers, HOSTINC,
  Task,           \* the tasks, by number
  checkpoint_frequency,
  CutPayload,     \* may a message end between its header and its contents?
  MaxJobs,        \* that are submitted
  MaxFaults,      \* workers that die, hosts that go down, processes that stall
  MaxCrashes      \* of the master

ASSUME SocketConstants ==
  /\ {target_num_workers, HOSTINC} \subseteq Nat \ {0}
  /\ {checkpoint_frequency, MaxJobs, MaxFaults, MaxCrashes} \subseteq Nat
  /\ CutPayload \in BOOLEAN /\ Task \subseteq Nat \ {0}

VARIABLES
  rc,       \* the master's memory; NULL when it is dead
  conns,    \* its open connections, by file descriptor
  backlog,  \* the connections that it has not accepted
  jobs,     \* Condor's queue, with the processes that run
  worker_number_file,
  driver,   \* the driver's list of workers, its tasks, its checkpoint, and how it ended
  faults, crashes

socketVars == <<rc, conns, backlog, jobs, worker_number_file, driver, faults, crashes>>

Slot == 0 .. target_num_workers - 1
Fd == 1 .. target_num_workers + 1
NoFd == -1
NoTask == 0
NoJob == 0
KILL_YOURSELF == -1 \* sent in place of a task
NULL == <<>>
Up == rc # NULL

(* reading is the connection whose contents the master waits for. *)
Memory == [socketWorkers : [Slot -> [state : {"FREE", "SUBMITTED", "EXECUTING"},
                                     socket : Fd \cup {NoFd}, cId : Nat]],
           hostadd_reqs : Int, reverseMap : [Fd -> Slot \cup {-1}],
           reading : Fd \cup {NoFd}]

(* A message that is sent in part ends in its header ("part") or after it ("head"). *)
Message == [tag : {"ID", "INIT", "RESULTS"}, task : Task \cup {NoTask},
            cut : {"no", "part", "head"}]

(* A link of which the other end went down without a word is "silent". *)
Connection == [job : Nat, slot : Slot, inbox : Seq(Message),
               link : {"open", "closed", "silent"}]

(* An orphan was left behind by a master that died before its first checkpoint *)
(* (no action reads this).                                                     *)
Job == [slot : Slot, removed : BOOLEAN, orphan : BOOLEAN, mail : Seq(Task \cup {KILL_YOURSELF}),
        phase : {"trying", "greeting", "waiting", "working", "stalled", "gone"},
        task : Task \cup {NoTask}]
WorkerID == [id1 : Slot, init : BOOLEAN, runningtask : Task \cup {NoTask}]

SocketTypeOK ==
  /\ Up => rc \in Memory
  /\ DOMAIN conns \subseteq Fd /\ Range(conns) \subseteq Connection
  /\ Range(backlog) \subseteq Connection
  /\ Range(jobs) \subseteq Job
  /\ worker_number_file \subseteq DOMAIN jobs \cup {NoJob}
  /\ Range(driver.workers) \subseteq WorkerID
  /\ {driver.todo, driver.done, driver.saved} \subseteq SUBSET Task
  /\ driver.ustat \in {"OK", "QUIT", "ended"}

-----------------------------------------------------------------------------
(* A state of the master's world is a record S; the operators below are the    *)
(* calls that a handler makes, one after the other.                            *)

World == [rc |-> rc, conns |-> conns, backlog |-> backlog, jobs |-> jobs,
          file |-> worker_number_file, driver |-> driver]
Becomes(S) ==
  /\ rc' = S.rc /\ conns' = S.conns /\ backlog' = S.backlog /\ jobs' = S.jobs
  /\ worker_number_file' = S.file /\ driver' = S.driver

Closed(S, fd) == [S EXCEPT !.conns = Restrict(@, DOMAIN @ \ {fd})]

(* write_RMstate *)
Written(S) ==
  [S EXCEPT !.file = {S.rc.socketWorkers[i].cId :
                        i \in {s \in Slot : S.rc.socketWorkers[s].state # "FREE"}}]

(* Mutant of Vacated: the job is not expected to come back. *)
VacatedForGood(m, i) ==
  [m EXCEPT !.socketWorkers[i] = [state |-> "SUBMITTED", socket |-> NoFd, cId |-> @.cId]]

(* killWorker: Condor will run the job again, so the worker is requested anew. *)
Vacated(m, i) ==
  [m EXCEPT !.socketWorkers[i] = [state |-> "SUBMITTED", socket |-> NoFd, cId |-> @.cId],
            !.hostadd_reqs = @ + 1]
KillWorker(S, i) ==
  Written([Closed(S, S.rc.socketWorkers[i].socket) EXCEPT !.rc = Vacated(@, i)])

(* do_spawn: the first n of the slots that are free, in their order, get the next jobs. *)
Submitted(s) ==
  [slot |-> s, removed |-> FALSE, orphan |-> FALSE, mail |-> <<>>, phase |-> "trying",
   task |-> NoTask]
Rank(i, slots) == Cardinality({k \in slots : k < i})
FirstFree(m, n) ==
  LET free == {i \in Slot : m.socketWorkers[i].state = "FREE"}
  IN  {i \in free : Rank(i, free) < n}
(* The jobs after the first len are submitted for the slots ids. *)
Manned(m, ids, len) ==
  [m EXCEPT !.hostadd_reqs = @ + Cardinality(ids),
            !.socketWorkers = [i \in Slot |->
              IF i \in ids
              THEN [state |-> "SUBMITTED", socket |-> NoFd, cId |-> len + Rank(i, ids) + 1]
              ELSE @[i]]]
WithJobs(js, ids) ==
  [j \in 1 .. Len(js) + Cardinality(ids) |->
     IF j <= Len(js) THEN js[j]
     ELSE Submitted(CHOOSE i \in ids : Len(js) + Rank(i, ids) + 1 = j)]
DoSpawn(S, n) ==
  LET ids == FirstFree(S.rc, n)
  IN  Written([S EXCEPT !.jobs = WithJobs(@, ids), !.rc = Manned(@, ids, Len(S.jobs))])

(* hostaddlogic: nothing is asked for while anything is outstanding. *)
Hostaddlogic(S) ==
  LET missing == target_num_workers - (Len(S.driver.workers) + S.rc.hostadd_reqs)
  IN  IF missing <= 0 \/ S.rc.hostadd_reqs > 0 THEN S ELSE DoSpawn(S, Min({missing, HOSTINC}))

(* send: what is sent to a socket that is gone, or whose other end is, is lost. *)
Send(S, i, what) ==
  LET fd == S.rc.socketWorkers[i].socket
  IN  IF fd \in DOMAIN S.conns /\ S.conns[fd].link = "open"
      THEN [S EXCEPT !.jobs[S.conns[fd].job].mail = Append(@, what)] ELSE S

-----------------------------------------------------------------------------
(* The driver. *)

Listed(S, i) == {k \in DOMAIN S.driver.workers : S.driver.workers[k].id1 = i}

(* Mutant of Lost: hostPostmortem forgets the task. *)
LostWithTask(d, k) == [d EXCEPT !.workers = RemoveAt(@, k)]

(* rmWorker and hostPostmortem: the task of a worker that is gone is to be done again. *)
Lost(d, k) ==
  [d EXCEPT !.workers = RemoveAt(@, k),
            !.todo = @ \cup ({d.workers[k].runningtask} \ {NoTask})]

HandleHostDel(S, i) ==
  IF Listed(S, i) = {} THEN S
  ELSE Hostaddlogic([S EXCEPT !.driver = Lost(@, Min(Listed(S, i)))])

(* start_worker, addWorker *)
HandleHostAdd(S, i) ==
  Hostaddlogic(
    [S EXCEPT !.rc.hostadd_reqs = @ - 1,
              !.driver.workers = Append(@, [id1 |-> i, init |-> FALSE, runningtask |-> NoTask])])

(* send_task_to_worker to those that are idle *)
Assigned(d, k, t) == [d EXCEPT !.workers[k].runningtask = t, !.todo = @ \ {t}]
SendTask(S, k) ==
  LET w == S.driver.workers[k]
      t == Min(S.driver.todo)
  IN  IF ~w.init \/ w.runningtask # NoTask \/ S.driver.todo = {} THEN S
      ELSE Send([S EXCEPT !.driver = Assigned(@, k, t)], w.id1, t)
RematchTasksToWorkers(S) ==
  LET n == Len(S.driver.workers)
      sent[k \in 0 .. n] == IF k = 0 THEN S ELSE SendTask(sent[k - 1], k)
  IN  sent[n]

(* The result is not that of the worker's task: QUIT, and worker_last_rites. *)
Quits(S, k) ==
  LET i == S.driver.workers[k].id1
      killed == KillWorker(Send([S EXCEPT !.driver.workers = RemoveAt(@, k)], i, KILL_YOURSELF), i)
  IN  [Hostaddlogic(killed) EXCEPT !.driver.ustat = "QUIT"]

Finished(d, k, task) ==
  [d EXCEPT !.workers[k].runningtask = NoTask, !.done = @ \cup {task}]
(* The checkpoint, when it is due, ends with write_RMstate. *)
CheckpointDue(d) == checkpoint_frequency > 0 /\ Cardinality(d.done) % checkpoint_frequency = 0
Checkpoint(S) ==
  IF CheckpointDue(S.driver) THEN Written([S EXCEPT !.driver.saved = S.driver.done]) ELSE S
HandleMessage(S, i, tag, task) ==
  IF Listed(S, i) = {} THEN Send(S, i, KILL_YOURSELF)
  ELSE LET k == Min(Listed(S, i)) IN
       CASE tag = "INIT" -> [S EXCEPT !.driver.workers[k].init = TRUE]
         [] tag = "RESULTS" /\ task # NoTask /\ task = S.driver.workers[k].runningtask ->
              Checkpoint([S EXCEPT !.driver = Finished(@, k, task)])
         [] OTHER -> Quits(S, k)

(* The end of the main loop: kill_workers, and exit, which removes the jobs. *)
Ends(S) ==
  LET mine == {S.rc.socketWorkers[i].cId :
                 i \in {s \in Slot : S.rc.socketWorkers[s].state # "FREE"}}
  IN  [S EXCEPT !.rc = NULL, !.conns = <<>>, !.backlog = <<>>, !.driver.workers = <<>>,
                !.driver.ustat = IF @ = "OK" THEN "ended" ELSE @,
                !.jobs = [j \in DOMAIN @ |->
                            IF j \in mine THEN [@[j] EXCEPT !.removed = TRUE] ELSE @[j]]]
After(S) ==
  LET R == RematchTasksToWorkers(S)
      isDone == /\ R.driver.todo = {}
                /\ \A k \in DOMAIN R.driver.workers : R.driver.workers[k].runningtask = NoTask
  IN  IF R.driver.ustat # "OK" \/ isDone THEN Ends(R) ELSE R

-----------------------------------------------------------------------------
(* The master receives: masterrecvany. *)

HandleKilledWorker(S, i) == HandleHostDel(KillWorker(S, i), i)

(* Mutant of Occupied: a connection goes where the last on the same socket went. *)
OccupiedBefore(m, fd, i) ==
  [m EXCEPT !.socketWorkers[i] = [state |-> "EXECUTING", socket |-> fd, cId |-> @.cId],
            !.reverseMap[fd] = IF @ = -1 THEN i ELSE @]

Occupied(m, fd, i) ==
  [m EXCEPT !.socketWorkers[i] = [state |-> "EXECUTING", socket |-> fd, cId |-> @.cId],
            !.reverseMap[fd] = i]
Accepted(S, fd, i) == [S EXCEPT !.rc = Occupied(@, fd, i)]

(* Mutant of HandleStartingWorker: the old worker is not given up. *)
ClosesTheNew(S, fd, i) ==
  IF S.rc.socketWorkers[i].socket # NoFd THEN Closed(S, fd)
  ELSE HandleHostAdd(Accepted(S, fd, i), i)

(* handle_starting_worker for slot i.  If the slot has a connection still, its  *)
(* worker is gone and Condor has started it again: both connections are closed. *)
HandleStartingWorker(S, fd, i) ==
  IF S.rc.socketWorkers[i].socket # NoFd THEN HandleKilledWorker(Closed(S, fd), i)
  ELSE HandleHostAdd(Accepted(S, fd, i), i)

(* A connection that is lost before the number came is closed after the alarm; *)
(* if it was closed, recv gives 0, and the number is what was on the stack.    *)
Accept ==
  LET c == Head(backlog)
      fd == Min(Fd \ DOMAIN conns)
      S == [World EXCEPT !.backlog = Tail(@),
                         !.conns = [f \in DOMAIN @ \cup {fd} |->
                            IF f = fd THEN [c EXCEPT !.inbox = IF @ = <<>> THEN @ ELSE Tail(@)]
                            ELSE @[f]]]
  IN  \/ c.inbox # <<>> /\ Becomes(After(HandleStartingWorker(S, fd, c.slot)))
      \/ c.inbox = <<>> /\ c.link = "silent" /\ Becomes(Closed(S, fd))
      \/ /\ c.inbox = <<>> /\ c.link = "closed"
         /\ \E remote \in Slot : Becomes(After(HandleStartingWorker(S, fd, remote)))

(* The socket of a slot has something to read, or is at its end. *)
CanBeRead(i) ==
  LET fd == rc.socketWorkers[i].socket
  IN  fd \in DOMAIN conns /\ (conns[fd].inbox # <<>> \/ conns[fd].link = "closed")

(* handle_finished_worker(i): the header is read under the alarm, which closes *)
(* the socket and no more; the contents are waited for without one.  What is   *)
(* not a socket any more cannot be read, and then nothing changes.             *)
HandleFinishedWorker(i) ==
  LET fd == rc.socketWorkers[i].socket
      c == conns[fd]
      p == Head(c.inbox)
      S == [World EXCEPT !.conns[fd].inbox = Tail(@), !.rc.reading = NoFd]
  IN  /\ fd \in DOMAIN conns
      /\ CASE c.inbox = <<>> \/ (p.cut = "part" /\ c.link = "closed") ->
                Becomes(After(HandleKilledWorker(World, i)))
           [] c.inbox # <<>> /\ p.cut = "part" /\ c.link # "closed" -> Becomes(Closed(World, fd))
           [] c.inbox # <<>> /\ p.cut = "no" -> Becomes(After(HandleMessage(S, i, p.tag, p.task)))
           [] c.inbox # <<>> /\ p.cut = "head" /\ c.link = "closed" ->
                \E task \in Task \cup {NoTask} : Becomes(After(HandleMessage(S, i, p.tag, task)))
           [] OTHER -> rc.reading = NoFd /\ Becomes([World EXCEPT !.rc.reading = fd])

(* masterrecvany with poll: the first slot that can be read, or a connection. *)
MasterRecv ==
  /\ Up
  /\ IF rc.reading # NoFd THEN HandleFinishedWorker(rc.reverseMap[rc.reading])
     ELSE IF \E i \in Slot : CanBeRead(i)
     THEN LET i == Min({j \in Slot : CanBeRead(j)})
          IN  HandleFinishedWorker(rc.reverseMap[rc.socketWorkers[i].socket])
     ELSE backlog # <<>> /\ Accept
  /\ UNCHANGED <<faults, crashes>>

-----------------------------------------------------------------------------
(* The workers, and Condor. *)

IsOf(c, j) == c.job = j /\ c.link = "open"
Connected(j) ==
  (\E fd \in DOMAIN conns : IsOf(conns[fd], j)) \/ (\E k \in DOMAIN backlog : IsOf(backlog[k], j))

(* What job j does to its connection, if it has one: it sends, and may go. *)
OnLink(j, rest, link) ==
  LET new(c) == IF IsOf(c, j) THEN [c EXCEPT !.inbox = @ \o rest, !.link = link] ELSE c
  IN  /\ conns' = [fd \in DOMAIN conns |-> new(conns[fd])]
      /\ backlog' = [k \in DOMAIN backlog |-> new(backlog[k])]

Sent(j, cut) ==
  IF jobs[j].phase = "greeting" THEN <<[tag |-> "INIT", task |-> NoTask, cut |-> cut]>>
  ELSE IF jobs[j].phase = "working" THEN <<[tag |-> "RESULTS", task |-> jobs[j].task, cut |-> cut]>>
  ELSE <<>>
Phase(j, phase) == jobs' = [jobs EXCEPT ![j].phase = phase, ![j].task = NoTask]
(* The job is run again, unless it is being removed. *)
Requeued(j) ==
  jobs' = [jobs EXCEPT ![j] =
             [@ EXCEPT !.phase = IF jobs[j].removed THEN "gone" ELSE "trying",
                       !.task = NoTask, !.mail = <<>>]]
MasterSleeps == UNCHANGED <<rc, worker_number_file, driver, crashes>>

(* setup of a worker: it retries until the master listens, and tells its slot. *)
Link(j, inbox, link) == [job |-> j, slot |-> jobs[j].slot, inbox |-> inbox, link |-> link]
Connect(j) ==
  /\ Up /\ jobs[j].phase = "trying" /\ Phase(j, "greeting")
  /\ backlog' = Append(backlog, Link(j, <<[tag |-> "ID", task |-> NoTask, cut |-> "no"]>>, "open"))
  /\ MasterSleeps /\ UNCHANGED <<conns, faults>>

(* ... or is lost in between. *)
ConnectBreaks(j) ==
  /\ Up /\ jobs[j].phase = "trying" /\ Requeued(j)
  /\ faults < MaxFaults /\ faults' = faults + 1
  /\ \E link \in {"closed", "silent"} : backlog' = Append(backlog, Link(j, <<>>, link))
  /\ MasterSleeps /\ UNCHANGED conns

(* greet_master, or the results of its task *)
WorkerSends(j) ==
  /\ jobs[j].phase \in {"greeting", "working"} /\ Phase(j, "waiting")
  /\ OnLink(j, Sent(j, "no"), "open")
  /\ MasterSleeps /\ UNCHANGED faults

WorkerReceives(j) ==
  /\ jobs[j].phase = "waiting" /\ jobs[j].mail # <<>>
  /\ IF Head(jobs[j].mail) = KILL_YOURSELF
     THEN Requeued(j) /\ OnLink(j, <<>>, "closed")
     ELSE /\ jobs' = [jobs EXCEPT ![j].phase = "working", ![j].task = Head(jobs[j].mail),
                                  ![j].mail = Tail(@)]
          /\ UNCHANGED <<conns, backlog>>
  /\ MasterSleeps /\ UNCHANGED faults

(* The connection is gone: the process ends, and Condor starts it again. *)
WorkerEnds(j) ==
  /\ jobs[j].phase \in {"greeting", "waiting", "working"} /\ ~Connected(j) /\ Requeued(j)
  /\ MasterSleeps /\ UNCHANGED <<conns, backlog, faults>>

(* A process dies or is evicted, a host goes down, or a process is stopped for   *)
(* a while, and a message may have been sent in part.                            *)
Cuts == {"part"} \cup (IF CutPayload THEN {"head"} ELSE {})
WithCut(j) == {<<>>} \cup {Sent(j, cut) : cut \in Cuts}
Fails(j) ==
  /\ jobs[j].phase \in {"greeting", "waiting", "working"} /\ Connected(j)
  /\ faults < MaxFaults /\ faults' = faults + 1
  /\ \/ /\ Requeued(j)
        /\ \E link \in {"closed", "silent"}, rest \in WithCut(j) : OnLink(j, rest, link)
     \/ /\ Sent(j, "no") # <<>> /\ Phase(j, "stalled")
        /\ \E cut \in Cuts : OnLink(j, Sent(j, cut), "open")
  /\ MasterSleeps

(* The rest of the message that was sent last. *)
Completed(inbox) ==
  [n \in DOMAIN inbox |-> IF n = Len(inbox) THEN [inbox[n] EXCEPT !.cut = "no"] ELSE inbox[n]]
Resumes(j) ==
  LET new(c) == IF IsOf(c, j) THEN [c EXCEPT !.inbox = Completed(@)] ELSE c
  IN  /\ jobs[j].phase = "stalled" /\ Phase(j, "waiting")
      /\ conns' = [fd \in DOMAIN conns |-> new(conns[fd])]
      /\ backlog' = [k \in DOMAIN backlog |-> new(backlog[k])]
      /\ MasterSleeps /\ UNCHANGED faults

CondorRemoves(j) ==
  /\ jobs[j].removed /\ Phase(j, "gone")
  /\ OnLink(j, <<>>, "closed")
  /\ MasterSleeps /\ UNCHANGED faults

-----------------------------------------------------------------------------
(* The master starts, dies, and comes back.  If it finds a checkpoint,          *)
(* read_RMstate removes the jobs that are in the file; if not, it starts from   *)
(* the beginning, the file is written over, and nobody removes them.            *)

Empty ==
  [socketWorkers |-> [i \in Slot |-> [state |-> "FREE", socket |-> NoFd, cId |-> NoJob]],
   hostadd_reqs |-> 0, reverseMap |-> [fd \in Fd |-> -1], reading |-> NoFd]
(* A master that starts, with what it finds. *)
Fresh(js, file, d) ==
  [rc |-> Empty, conns |-> <<>>, backlog |-> <<>>, jobs |-> js, file |-> file, driver |-> d]

Init ==
  /\ LET S == Hostaddlogic(Fresh(<<>>, {},
                [workers |-> <<>>, todo |-> Task, done |-> {}, saved |-> {}, ustat |-> "OK"]))
     IN  /\ rc = S.rc /\ conns = S.conns /\ backlog = S.backlog /\ jobs = S.jobs
         /\ worker_number_file = S.file /\ driver = S.driver
  /\ faults = 0 /\ crashes = 0

(* A run has a crash or other faults, not both (a bound). *)
Crash ==
  /\ Up /\ crashes < MaxCrashes /\ crashes' = crashes + 1
  /\ faults = 0 /\ faults' = MaxFaults
  /\ rc' = NULL /\ conns' = <<>> /\ backlog' = <<>>
  /\ driver' = [driver EXCEPT !.workers = <<>>, !.done = driver.saved,
                              !.todo = Task \ driver.saved]
  /\ UNCHANGED <<jobs, worker_number_file>>

(* Mutant of RemovedAll: only what was running is removed. *)
RemovedRunning == [j \in DOMAIN jobs |-> [jobs[j] EXCEPT !.removed =
                     @ \/ (j \in worker_number_file /\ jobs[j].phase # "trying")]]

(* read_RMstate *)
RemovedAll == [j \in DOMAIN jobs |-> [jobs[j] EXCEPT !.removed = @ \/ j \in worker_number_file]]

(* There is a checkpoint once a result is in it. *)
Restart ==
  /\ ~Up /\ driver.ustat = "OK" /\ driver.saved # {}
  /\ Becomes(Hostaddlogic(Fresh(RemovedAll, worker_number_file, driver)))
  /\ UNCHANGED <<faults, crashes>>

LeftBehind == [j \in DOMAIN jobs |-> [jobs[j] EXCEPT !.orphan = ~jobs[j].removed]]

StartOver ==
  /\ ~Up /\ driver.ustat = "OK" /\ driver.saved = {}
  /\ Becomes(Hostaddlogic(Fresh(LeftBehind, worker_number_file, driver)))
  /\ UNCHANGED <<faults, crashes>>

Next ==
  \/ MasterRecv \/ Crash \/ Restart \/ StartOver
  \/ \E j \in 1 .. MaxJobs : j \in DOMAIN jobs /\ jobs[j].phase # "gone" /\
       (Connect(j) \/ ConnectBreaks(j))
  \/ \E j \in 1 .. MaxJobs : j \in DOMAIN jobs /\ jobs[j].phase # "gone" /\
       (WorkerSends(j) \/ WorkerReceives(j) \/ WorkerEnds(j))
  \/ \E j \in 1 .. MaxJobs : j \in DOMAIN jobs /\ jobs[j].phase # "gone" /\
       (Fails(j) \/ Resumes(j) \/ CondorRemoves(j))

Spec == Init /\ [][Next]_socketVars

(* Weak fairness, with the condition under which the step can be taken written out: *)
(* the master goes on while it can, is started again, and every worker and Condor   *)
(* go on with their jobs.                                                           *)
MasterCan ==
  Up /\ IF rc.reading # NoFd
        THEN conns[rc.reading].link = "closed" \/ Head(conns[rc.reading].inbox).cut = "no"
        ELSE backlog # <<>> \/ \E i \in Slot : CanBeRead(i)
JobCan(j) ==
  /\ j \in DOMAIN jobs
  /\ \/ jobs[j].phase = "trying" /\ Up
     \/ jobs[j].phase \in {"greeting", "working", "stalled"}
     \/ jobs[j].phase = "waiting" /\ (jobs[j].mail # <<>> \/ ~Connected(j))
JobStep(j) ==
  /\ j \in DOMAIN jobs
  /\ \/ Connect(j) \/ WorkerSends(j)
     \/ WorkerReceives(j) \/ WorkerEnds(j) \/ Resumes(j)

FairSpec ==
  /\ Spec
  /\ []<>~MasterCan \/ []<><<MasterRecv>>_socketVars
  /\ []<>(Up \/ driver.ustat # "OK") \/ []<><<Restart \/ StartOver>>_socketVars
  /\ \A j \in 1 .. MaxJobs : []<>~JobCan(j) \/ []<><<JobStep(j)>>_socketVars

-----------------------------------------------------------------------------
(* Properties *)

(* The driver, the back end and the account agree on who is there: a slot is in *)
(* the driver's list, once, just when it has a socket, and the outstanding      *)
(* requests are the slots whose worker is awaited.                              *)
SlotsAgree ==
  /\ SocketTypeOK
  /\ Up => /\ \A i \in Slot :
               Cardinality({k \in DOMAIN driver.workers : driver.workers[k].id1 = i}) =
                 (IF rc.socketWorkers[i].socket # NoFd THEN 1 ELSE 0)
           /\ rc.hostadd_reqs =
                Cardinality({i \in Slot : rc.socketWorkers[i].state = "SUBMITTED"})

(* What comes from a socket is handled as from the slot whose worker sent it. *)
RightSender ==
  \A fd \in DOMAIN conns :
    conns[fd].inbox # <<>> => rc.reverseMap[fd] = conns[fd].slot

(* Every task is to do, with one worker of the list, or done, whoever was lost *)
(* and whatever came from whom.                                                *)
TasksAreKept ==
  Up => /\ Task = driver.todo \cup driver.done \cup
                   ({driver.workers[k].runningtask : k \in DOMAIN driver.workers} \ {NoTask})
        /\ driver.todo \cap driver.done = {}

(* At the end nothing is left in Condor's queue but what is being removed, and *)
(* the jobs of masters that died before their first checkpoint: those of the    *)
(* others are removed, by their successors, whoever they had a connection to.   *)
NothingIsLeft ==
  driver.ustat = "ended" => \A j \in DOMAIN jobs : jobs[j].removed \/ jobs[j].orphan

(* The application comes to its end, whatever connections are lost or closed by  *)
(* the alarm and whenever the master dies, if no slot is ever left with a        *)
(* descriptor that another slot has got since, or with two jobs, as after a      *)
(* start from the beginning.  (Two workers whose slots share a descriptor, or    *)
(* that have one slot, close each other's connection again and again: see the    *)
(* README.)                                                                      *)
DescriptorsAreOwn ==
  Up => \A i, k \in Slot :
    i # k /\ rc.socketWorkers[i].socket # NoFd =>
      rc.socketWorkers[i].socket # rc.socketWorkers[k].socket
SlotsAreOwn ==
  \A j, k \in DOMAIN jobs :
    j # k /\ jobs[j].slot = jobs[k].slot => jobs[j].removed \/ jobs[k].removed
AllIsDone == [](DescriptorsAreOwn /\ SlotsAreOwn) => <>(driver.ustat = "ended")
=============================================================================
