------------------------------- MODULE MWFile -------------------------------
(***************************************************************************)
(* The file back end (MWFileRC.C): workers are Condor jobs, messages are   *)
(* numbered files, two waitfiles for each worker say which messages are    *)
(* there, and Condor's log tells the master what happens to a job.  A      *)
(* master that died comes back, finds its jobs by the file it wrote, and   *)
(* starts the numbering anew with a SYNC and RE_INIT.                      *)
(*                                                                         *)
(* Abstractions.                                                           *)
(*  - Of the driver, the workers' states: HOSTADD adds a worker, which     *)
(*    goes from INIT over INIT_REPLY and BENCH_RESULTS to tasks and their  *)
(*    RESULTS; HOSTDELETE takes it away.                                   *)
(*  - A waitfile is the sequence of what was appended to it; one that does *)
(*    not exist is empty.  What a message contains but its tag and task is *)
(*    left out.                                                            *)
(*  - master_recv visits the slots in turn, and after CHECKLOG_FREQ rounds *)
(*    reads the logs: slots are served in any order, and the logs are read *)
(*    when every slot whose state changed has been served.                 *)
(*  - want_checkpointing is 0: no job is ever SUSPENDED, none RESUMED.     *)
(***************************************************************************)
EXTENDS MWSums

CONSTANTS
  TargetOf,    \* exec_class_target_num_workers, a sequence: of class c at c + 1
  HostInc,     \* hostinc_
  Task,        \* the tasks
  NoTask,
  LateRemoval, \* may a job removed by condor_rm outlive the use of its slot?
  MaxWork,     \* how many tasks are sent
  MaxCrashes,  \* of the master
  MaxFaults,   \* workers that die, jobs that are evicted
  MaxOdd       \* what the code does not cope with, see odd below

ASSUME TargetsAreNatural == TargetOf \in Seq(Nat) /\ HostInc \in Nat \ {0}
ASSUME NoTaskIsNoTask == NoTask \notin Task
ASSUME LateRemovalIsBoolean == LateRemoval \in BOOLEAN
ASSUME FileBounds == {MaxWork, MaxCrashes, MaxFaults, MaxOdd} \subseteq Nat

Classes == 0 .. Len(TargetOf) - 1
Target(c) == TargetOf[c + 1]
Slot == 0 .. Total(TargetOf) - 1
SIMUL_SEND == 100

VARIABLES
  rc,      \* the master's memory: fileWorkers, hostadd_reqs; NULL when it is dead
  files,   \* by slot, log, worker_waitfile, master_waitfile, worker_input and
           \* worker_output; the moment_worker_file, the jobs of the slots
  jobs,    \* Condor's queue: jobs and, of those that run, the worker process
  workers, \* the driver's list, by slot
  sent, crashes, faults,
  lost,    \* history: the requests that will not be answered, by class
  odd      \* history: jobs that are refused, or removed by hand; workers the
           \* driver removes; log events of another kind

backEnd == <<rc, files, jobs, workers, lost>>
fileVars == <<backEnd, sent, crashes, faults, odd>>

(* resuming are the slots that restart_beginning_workers has yet to deal with, *)
(* synced says that it has begun with the first; looping, that the main loop   *)
(* has begun.                                                                  *)
Memory(fw, reqs, resuming) ==
  [fileWorkers |-> fw, hostadd_reqs |-> reqs, resuming |-> resuming,
   synced |-> FALSE, looping |-> FALSE]
NULL == Memory(<<>>, <<>>, {})
Up == rc # NULL
Looping == Up /\ rc.looping

FileState == {"FREE", "SUBMITTED", "EXECUTE", "RUNNING", "KILLED", "IDLE", "TRANSIT"}
NoJob == 0
FileWorker == [state : FileState, served : FileState \cup {"NONE"}, event_no : Nat,
               counter : Nat, worker_counter : Nat, job : Nat, exec_class : Classes]
Unused == [state |-> "FREE", served |-> "NONE", event_no |-> 0,
           counter |-> 0, worker_counter |-> 0, job |-> NoJob, exec_class |-> 0]

Event == [job : Nat, kind : {"SUBMIT", "EXECUTE", "EVICTED", "SHADOW_EXCEPTION",
                             "TERMINATED", "ABORTED", "OTHER"}]
Entry == [n : Nat, sync : BOOLEAN]
Message == [tag : {"INIT", "INIT_REPLY", "BENCH_RESULTS", "DO_THIS_WORK", "RESULTS", "RE_INIT"},
            task : Task \cup {NoTask}]
Plain(tag) == [tag |-> tag, task |-> NoTask]

(* A process is about to send INIT, or is in do_benchmark_cmd (once more to come *)
(* after RE_INIT), or in its main loop; or the job waits for a machine.          *)
Job == [slot : Slot, exec_class : Classes, removed : BOOLEAN,
        phase : {"idle", "starting", "waiting_twice", "waiting", "ready"},
        expected_number : Nat, master_expected_number : Nat]

WorkerID == [state : {"NONE", "INITIALIZING", "BENCHMARKING", "IDLE", "WORKING"},
             task : Task \cup {NoTask}, exec_class : Classes]
NoWorker == [state |-> "NONE", task |-> NoTask, exec_class |-> 0]
New(c) == [NoWorker EXCEPT !.state = "INITIALIZING", !.exec_class = c]

(* Everything has its type; so many files are there as were written. *)
FileTypeOK ==
  /\ Up => /\ rc.fileWorkers \in [Slot -> FileWorker]
           /\ rc.hostadd_reqs \in [Classes -> Nat]
  /\ files.log \in [Slot -> Seq(Event)]
  /\ files.worker_waitfile \in [Slot -> Seq(Entry)]
  /\ files.master_waitfile \in [Slot -> Seq(Entry)]
  /\ \A i \in Slot : /\ Range(files.worker_input[i]) \subseteq Message
                     /\ Range(files.worker_output[i]) \subseteq Message
  /\ files.moment_worker_file \in [Slot -> [job : Nat, exec_class : Classes]]
  /\ NoJob \notin DOMAIN jobs /\ Range(jobs) \subseteq Job
  /\ workers \in [Slot -> WorkerID]
  /\ lost \in [Classes -> Nat]
  /\ sent <= MaxWork /\ crashes <= MaxCrashes /\ faults <= MaxFaults /\ odd <= MaxOdd

Init ==
  /\ rc = Memory([i \in Slot |-> Unused], [c \in Classes |-> 0], {})
  /\ files = [log |-> [i \in Slot |-> <<>>],
              worker_waitfile |-> [i \in Slot |-> <<>>],
              master_waitfile |-> [i \in Slot |-> <<>>],
              worker_input |-> [i \in Slot |-> <<>>],
              worker_output |-> [i \in Slot |-> <<>>],
              moment_worker_file |-> [i \in Slot |-> [job |-> NoJob, exec_class |-> 0]]]
  /\ jobs = <<>>
  /\ workers = [i \in Slot |-> NoWorker]
  /\ lost = [c \in Classes |-> 0]
  /\ sent = 0 /\ crashes = 0 /\ faults = 0 /\ odd = 0

-----------------------------------------------------------------------------
(* Condor.  A job that leaves the queue is gone; its log has the reason. *)

Logged(F, j, kind) ==
  [F EXCEPT !.log[jobs[j].slot] = Append(@, [job |-> j, kind |-> kind])]
Without(J, G) == Restrict(J, DOMAIN J \ G)
With(J, K) == [j \in DOMAIN J \cup DOMAIN K |-> IF j \in DOMAIN K THEN K[j] ELSE J[j]]

(* Message m in the file with number n. *)
Numbered(F, n, m) == [k \in DOMAIN F \cup {n} |-> IF k = n THEN m ELSE F[k]]

(* Every number that is still a job's somewhere; those of a new cluster are higher. *)
JobsKnown(s) ==
  DOMAIN s.jobs \cup {s.rc.fileWorkers[i].job : i \in Slot}
    \cup (UNION {{e.job : e \in Range(s.files.log[i])} : i \in Slot})
    \cup {s.files.moment_worker_file[i].job : i \in Slot}

LastJob(s) == Max(JobsKnown(s) \cup {NoJob})

-----------------------------------------------------------------------------
(* The master's operations on s: its memory, the files, Condor's queue and the *)
(* requests lost.                                                              *)

State == [rc |-> rc, files |-> files, jobs |-> jobs, lost |-> lost]

Becomes(s) == /\ rc' = s.rc /\ files' = s.files
              /\ jobs' = s.jobs /\ lost' = s.lost

(* Mutant of WriteRMstate: the file is not written. *)
RMstateUnwritten(s) == s

WriteRMstate(s) ==
  LET jobOf(w) == IF w.state = "FREE" THEN [job |-> NoJob, exec_class |-> 0]
                  ELSE [job |-> w.job, exec_class |-> w.exec_class]
  IN  [s EXCEPT !.files.moment_worker_file = [i \in Slot |-> jobOf(s.rc.fileWorkers[i])]]

CondorRm(s, i) ==
  LET j == s.rc.fileWorkers[i].job
  IN  IF j \in DOMAIN s.jobs THEN [s EXCEPT !.jobs[j].removed = TRUE] ELSE s

(* The place of i in S, from 1. *)
Place(S, i) == Cardinality({k \in S : k <= i})

(* do_spawn, for the slots ids: new jobs, new logs and waitfiles; a removed job *)
(* of such a slot is gone by then, or not.                                      *)
Submitted(s, c, ids, refused) ==
  LET jobOf == [i \in ids |-> IF refused THEN NoJob ELSE LastJob(s) + Place(ids, i)]
      over == {j \in DOMAIN s.jobs :
                 s.jobs[j].removed /\ ~LateRemoval /\ s.jobs[j].slot \in ids}
      queued == [j \in Range(jobOf) \ {NoJob} |->
                   [slot |-> CHOOSE i \in ids : jobOf[i] = j, exec_class |-> c,
                    removed |-> FALSE, phase |-> "idle", expected_number |-> 0,
                    master_expected_number |-> 0]]
      fileWorkers == [i \in Slot |->
                        IF i \in ids
                        THEN [s.rc.fileWorkers[i] EXCEPT
                                !.state = "SUBMITTED", !.event_no = 1, !.counter = 0,
                                !.worker_counter = 0, !.job = jobOf[i], !.exec_class = c]
                        ELSE s.rc.fileWorkers[i]]
      log == [i \in Slot |-> IF i \notin ids THEN s.files.log[i]
                             ELSE IF refused THEN <<>>
                             ELSE <<[job |-> jobOf[i], kind |-> "SUBMIT"]>>]
      emptied(waitfile) == [i \in Slot |-> IF i \in ids THEN <<>> ELSE waitfile[i]]
  IN  [s EXCEPT
         !.jobs = With(Without(@, over), queued),
         !.rc.fileWorkers = fileWorkers,
         !.rc.hostadd_reqs[c] = @ + Cardinality(ids),
         !.lost[c] = @ + IF refused THEN Cardinality(ids) ELSE 0,
         !.files.worker_waitfile = emptied(@),
         !.files.master_waitfile = emptied(@),
         !.files.log = log]

(* do_spawn: a job for each of the first n slots that are free.  If Condor *)
(* refuses them, nobody notices.                                           *)
DoSpawn(s, c, n, refused) ==
  LET free == {i \in Slot : s.rc.fileWorkers[i].state = "FREE"}
  IN  WriteRMstate(Submitted(s, c, {i \in free : Place(free, i) <= n}, refused))

Num(w, c) == Cardinality({i \in Slot : w[i].state # "NONE" /\ w[i].exec_class = c})
Missing(s, w, c) == Target(c) - (Num(w, c) + s.rc.hostadd_reqs[c])

(* hostaddlogic, with the driver's workers w: a class that has a request out *)
(* asks for no more.  Condor refuses what is submitted for the classes in R. *)
AskFor(s, w, R, c) ==
  IF s.rc.hostadd_reqs[c] > 0 \/ Missing(s, w, c) <= 0 THEN s
  ELSE DoSpawn(s, c, Min({HostInc, Missing(s, w, c)}), c \in R)

Hostaddlogic(s, w, R) ==
  WriteRMstate(FoldLeft(LAMBDA r, c : AskFor(r, w, R, c), s,
                        [k \in 1 .. Len(TargetOf) |-> k - 1]))

(* Every refusal is one that happens. *)
CallHostaddlogic(s, w, o) ==
  \E R \in SUBSET Classes :
    LET t == Hostaddlogic(s, w, R)
    IN  /\ o + Cardinality(R) <= MaxOdd
        /\ \A c \in R : t.lost[c] > s.lost[c]
        /\ Becomes(t) /\ workers' = w
        /\ odd' = o + Cardinality(R)

(* send *)
Send(s, i, m) ==
  LET n == s.rc.fileWorkers[i].worker_counter
  IN  [s EXCEPT !.files.worker_input[i] = Numbered(@, n, m),
                !.files.worker_waitfile[i] = Append(@, [n |-> n, sync |-> FALSE]),
                !.rc.fileWorkers[i].worker_counter = @ + 1]

RemoveWorker(s, i) ==
  LET t == CondorRm(s, i)
  IN  WriteRMstate([t EXCEPT !.rc.fileWorkers[i].state = "FREE"])

-----------------------------------------------------------------------------
(* The master starts, dies and starts again. *)

StartMainloop ==
  /\ Up /\ ~rc.looping /\ rc.resuming = {}
  /\ CallHostaddlogic([State EXCEPT !.rc.looping = TRUE], workers, odd)
  /\ UNCHANGED <<sent, crashes, faults>>

(* A run that was checkpointed; the driver's list, and its account, go. *)
Crash ==
  /\ Looping \/ (Up /\ rc.resuming # {})
  /\ crashes < MaxCrashes /\ crashes' = crashes + 1
  /\ rc' = NULL
  /\ workers' = [i \in Slot |-> NoWorker]
  /\ lost' = [c \in Classes |-> 0]
  /\ UNCHANGED <<files, jobs, sent, faults, odd>>

Oks(waitfile) == {k \in DOMAIN waitfile : ~waitfile[k].sync}

(* GetCounter, GetWorkerCounter: the number after the last message's. *)
NextNumber(waitfile) ==
  IF Oks(waitfile) = {} THEN 0 ELSE waitfile[Max(Oks(waitfile))].n + 1

(* CheckLogFilesResuscicate: all events count, whosever they are; the first end *)
(* of a job ends the reading, and a job that was evicted is removed.            *)
Resuscicated(a, e) ==
  LET b == [a EXCEPT !.event_no = @ + 1]
  IN  CASE a.over -> a
        [] ~a.over /\ e.kind \in {"ABORTED", "TERMINATED"} ->
             [b EXCEPT !.state = "KILLED", !.over = TRUE]
        [] ~a.over /\ e.kind = "SHADOW_EXCEPTION" ->
             [b EXCEPT !.state = "KILLED", !.over = TRUE, !.rm = TRUE]
        [] ~a.over /\ e.kind = "EVICTED" -> [b EXCEPT !.state = "KILLED", !.rm = TRUE]
        [] ~a.over /\ e.kind = "SUBMIT" -> [b EXCEPT !.state = "SUBMITTED"]
        [] ~a.over /\ e.kind = "EXECUTE" -> [b EXCEPT !.state = "RUNNING"]
        [] ~a.over /\ e.kind = "OTHER" -> b

CheckLogFilesResuscicate(log) ==
  LET end == FoldLeft(Resuscicated,
                      [state |-> "FREE", event_no |-> 0, over |-> FALSE, rm |-> FALSE], log)
  IN  IF end.state = "KILLED" /\ ~end.over THEN [end EXCEPT !.state = "FREE"] ELSE end

(* The jobs of class c that wait for a machine. *)
Requested(fw, c) ==
  Cardinality({i \in Slot : fw[i].state = "SUBMITTED" /\ fw[i].exec_class = c})

(* read_RMstate and resuscicate. *)
Restart ==
  /\ ~Up
  /\ LET m == files.moment_worker_file
         seen == [i \in Slot |-> CheckLogFilesResuscicate(files.log[i])]
         fw == [i \in Slot |->
                  IF m[i].job = NoJob THEN Unused
                  ELSE [Unused EXCEPT
                          !.state = seen[i].state, !.event_no = seen[i].event_no,
                          !.counter = NextNumber(files.master_waitfile[i]),
                          !.worker_counter = NextNumber(files.worker_waitfile[i]),
                          !.job = m[i].job, !.exec_class = m[i].exec_class]]
         reqs == [c \in Classes |-> Requested(fw, c)]
         live == {i \in Slot : fw[i].state = "RUNNING"}
         gone == {m[i].job : i \in {k \in Slot : m[k].job # NoJob /\ seen[k].rm}}
     IN  /\ rc' = Memory(fw, reqs, live)
         /\ workers' = [i \in Slot |-> IF i \in live THEN New(fw[i].exec_class)
                                       ELSE NoWorker]
         /\ jobs' = [j \in DOMAIN jobs |->
                       [jobs[j] EXCEPT !.removed = @ \/ j \in gone]]
  /\ UNCHANGED <<files, lost, sent, crashes, faults, odd>>

(* restart_beginning_workers, for one worker: first the worker is told to skip *)
(* what it was sent, and to begin again ...                                    *)
Resync ==
  /\ Up /\ rc.resuming # {} /\ ~rc.synced
  /\ LET i == Min(rc.resuming)
         n == rc.fileWorkers[i].worker_counter + SIMUL_SEND
         s == [State EXCEPT
                 !.files.worker_waitfile[i] = Append(@, [n |-> n, sync |-> TRUE]),
                 !.rc.fileWorkers[i].worker_counter = n, !.rc.synced = TRUE]
     IN  Becomes(Send(s, i, Plain("RE_INIT")))
  /\ UNCHANGED <<workers, sent, crashes, faults, odd>>

(* ... then what it has sent is forgotten. *)
ResetCounters ==
  /\ Up /\ rc.resuming # {} /\ rc.synced
  /\ LET i == Min(rc.resuming)
     IN  /\ rc' = [rc EXCEPT !.fileWorkers[i].counter = 0,
                             !.fileWorkers[i].worker_counter = 0,
                             !.resuming = @ \ {i}, !.synced = FALSE]
         /\ files' = [files EXCEPT !.master_waitfile[i] = <<>>]
  /\ UNCHANGED <<jobs, workers, lost, sent, crashes, faults, odd>>

-----------------------------------------------------------------------------
(* The master receives: first what the logs say ... *)

Unserved(i) ==
  LET w == rc.fileWorkers[i]
  IN  \/ w.state = "EXECUTE" /\ w.served # "RUNNING"
      \/ w.state \in {"KILLED", "TRANSIT"} /\ w.served # w.state

(* Mutant of AfterEvent: every EXECUTE is taken for the first. *)
AlwaysExecutes(state, kind) ==
  CASE kind \in {"ABORTED", "TERMINATED"} -> "KILLED"
    [] kind \in {"SHADOW_EXCEPTION", "EVICTED"} -> "TRANSIT"
    [] kind = "SUBMIT" -> "SUBMITTED"
    [] kind = "EXECUTE" -> "EXECUTE"
    [] OTHER -> state

AfterEvent(state, kind) ==
  CASE kind \in {"ABORTED", "TERMINATED"} -> "KILLED"
    [] kind \in {"SHADOW_EXCEPTION", "EVICTED"} -> "TRANSIT"
    [] kind = "SUBMIT" -> "SUBMITTED"
    [] kind = "EXECUTE" -> IF state = "SUBMITTED" THEN "EXECUTE" ELSE "TRANSIT"
    [] OTHER -> state

(* The next event of the worker's own job, others are skipped; an event of *)
(* another kind is counted twice.                                          *)
ReadLog(w, log) ==
  LET own == {k \in Max({1, w.event_no}) .. Len(log) : log[k].job = w.job}
      next == Min(own)
      skipped == Max({0, Len(log) + 1 - Max({1, w.event_no})})
  IN  IF w.state = "FREE" THEN w
      ELSE IF log = <<>> THEN [w EXCEPT !.state = "IDLE", !.event_no = 0]
      ELSE IF own = {} THEN [w EXCEPT !.event_no = @ + skipped]
      ELSE [w EXCEPT !.state = AfterEvent(@, log[next].kind),
                     !.event_no = @ + (next - Max({1, @}))
                                    + (IF log[next].kind = "OTHER" THEN 2 ELSE 1)]

(* CheckLogFilesRunning, when every slot has been served.  A job that ends       *)
(* before it was reported as a worker leaves its request behind.                 *)
CheckLogFilesRunning ==
  /\ Looping /\ \A i \in Slot : ~Unserved(i)
  /\ LET fw == [i \in Slot |-> ReadLog(rc.fileWorkers[i], files.log[i])]
         missed(c) == {i \in Slot : /\ rc.fileWorkers[i].state \in {"SUBMITTED", "EXECUTE"}
                                    /\ fw[i].state \in {"KILLED", "TRANSIT"}
                                    /\ fw[i].exec_class = c}
     IN  /\ fw # rc.fileWorkers
         /\ rc' = [rc EXCEPT !.fileWorkers = fw]
         /\ lost' = [c \in Classes |-> lost[c] + Cardinality(missed(c))]
  /\ UNCHANGED <<files, jobs, workers, sent, crashes, faults, odd>>

(* handle_executing_worker, and start_worker. *)
HandleExecuting(i) ==
  /\ Looping
  /\ rc.fileWorkers[i].state = "EXECUTE" /\ Unserved(i)
  /\ LET c == rc.fileWorkers[i].exec_class
         s == [State EXCEPT !.rc.fileWorkers[i].state = "RUNNING",
                            !.rc.fileWorkers[i].served = "EXECUTE",
                            !.rc.hostadd_reqs[c] = @ - 1]
     IN  CallHostaddlogic(s, [workers EXCEPT ![i] = New(c)], odd)
  /\ UNCHANGED <<sent, crashes, faults>>

(* Mutant of Deleted: no replacement is asked for. *)
DeletedUnreplaced(s, i) ==
  Becomes(s) /\ workers' = [workers EXCEPT ![i] = NoWorker] /\ UNCHANGED odd

(* Both are reported to the driver as HOSTDELETE. *)
Deleted(s, i) ==
  IF workers[i].state = "NONE"
  THEN Becomes(s) /\ UNCHANGED <<workers, odd>>
  ELSE CallHostaddlogic(s, [workers EXCEPT ![i] = NoWorker], odd)

HandleKilled(i) ==
  /\ Looping
  /\ rc.fileWorkers[i].state = "KILLED" /\ Unserved(i)
  /\ Deleted([State EXCEPT !.rc.fileWorkers[i].served = "KILLED",
                           !.rc.fileWorkers[i].state = "FREE"], i)
  /\ UNCHANGED <<sent, crashes, faults>>

HandleTransited(i) ==
  /\ Looping
  /\ rc.fileWorkers[i].state = "TRANSIT" /\ Unserved(i)
  /\ Deleted([CondorRm(State, i) EXCEPT !.rc.fileWorkers[i].served = "TRANSIT",
                                        !.rc.fileWorkers[i].state = "FREE"], i)
  /\ UNCHANGED <<sent, crashes, faults>>

-----------------------------------------------------------------------------
(* ... then what the workers have sent. *)

IsComplete(i) ==
  \E k \in Oks(files.master_waitfile[i]) :
    files.master_waitfile[i][k].n = rc.fileWorkers[i].counter

Message_(i) == files.worker_output[i][rc.fileWorkers[i].counter]

(* Mutant of Taken: the number of the next message stays as it was. *)
TakenUncounted(i) ==
  [State EXCEPT !.rc.fileWorkers[i].served = "RUNNING",
                !.files.worker_output[i] = Restrict(@, DOMAIN @ \ {rc.fileWorkers[i].counter})]

(* handle_finished_worker *)
Taken(i) ==
  LET n == rc.fileWorkers[i].counter
  IN  [State EXCEPT !.rc.fileWorkers[i].served = "RUNNING",
                    !.rc.fileWorkers[i].counter = n + 1,
                    !.files.worker_output[i] = Restrict(@, DOMAIN @ \ {n})]

Receive(i, tag) ==
  /\ Looping
  /\ rc.fileWorkers[i].state = "RUNNING" /\ IsComplete(i)
  /\ Message_(i).tag = tag

Answer(i, m) == Becomes(Send(Taken(i), i, m))

ReceiveInit(i) ==
  /\ Receive(i, "INIT")
  /\ Answer(i, Plain("INIT_REPLY"))
  /\ workers' = [workers EXCEPT ![i].state = "BENCHMARKING"]
  /\ UNCHANGED <<sent, crashes, faults, odd>>

(* worker_last_rites: the user's initial data cannot be packed. *)
ReceiveInitInVain(i) ==
  /\ Receive(i, "INIT")
  /\ odd < MaxOdd /\ odd' = odd + 1
  /\ Becomes(RemoveWorker(Taken(i), i))
  /\ workers' = [workers EXCEPT ![i] = NoWorker]
  /\ UNCHANGED <<sent, crashes, faults>>

ReceiveBenchResults(i) ==
  /\ Receive(i, "BENCH_RESULTS")
  /\ Becomes(Taken(i))
  /\ workers' = [workers EXCEPT ![i].state = "IDLE"]
  /\ UNCHANGED <<sent, crashes, faults, odd>>

ReceiveResults(i) ==
  /\ Receive(i, "RESULTS")
  /\ Becomes(Taken(i))
  /\ workers' = [workers EXCEPT ![i].state = "IDLE", ![i].task = NoTask]
  /\ UNCHANGED <<sent, crashes, faults, odd>>

SendTask(i) ==
  /\ Looping /\ sent < MaxWork /\ sent' = sent + 1
  /\ workers[i].state = "IDLE"
  /\ \E t \in Task :
       /\ workers' = [workers EXCEPT ![i].state = "WORKING", ![i].task = t]
       /\ Becomes(Send(State, i, [tag |-> "DO_THIS_WORK", task |-> t]))
  /\ UNCHANGED <<crashes, faults, odd>>

-----------------------------------------------------------------------------
(* A worker process. *)

(* worker_recv reads the waitfile from its start: it looks for the number it      *)
(* expects, a SYNC changes that number, and a higher one is the end.              *)
LookedAt(a, e) ==
  CASE a.found \/ a.bad -> a
    [] ~(a.found \/ a.bad) /\ e.sync -> [a EXCEPT !.number = e.n, !.toFlush = TRUE]
    [] OTHER -> [a EXCEPT !.found = (e.n = a.number), !.bad = (e.n > a.number)]

Looked(p, waitfile) ==
  FoldLeft(LookedAt, [number |-> p.expected_number, toFlush |-> FALSE,
                      found |-> FALSE, bad |-> FALSE], waitfile)

Runs(j) == jobs[j].phase # "idle"
Look(j) == Looked(jobs[j], files.worker_waitfile[jobs[j].slot])
InputOf(j) == files.worker_input[jobs[j].slot]
Gets(j) == Runs(j) /\ jobs[j].phase # "starting" /\ Look(j).found
             /\ Look(j).number \in DOMAIN InputOf(j)

(* The process after it has got the message. *)
Received(j) ==
  IF Look(j).toFlush
  THEN [jobs[j] EXCEPT !.expected_number = 0, !.master_expected_number = 0]
  ELSE [jobs[j] EXCEPT !.expected_number = Look(j).number + 1]

FilesRead(j) ==
  LET i == jobs[j].slot
  IN  [files EXCEPT !.worker_input[i] = Restrict(@, DOMAIN @ \ {Look(j).number}),
                    !.worker_waitfile[i] = IF Look(j).toFlush THEN <<>> ELSE @]

(* What process p says goes to the next file, and into the waitfile. *)
Say(j, p, F, m) ==
  LET n == p.master_expected_number
  IN  /\ jobs' = [jobs EXCEPT ![j] = [p EXCEPT !.master_expected_number = n + 1]]
      /\ files' = [F EXCEPT !.worker_output[p.slot] = Numbered(@, n, m),
                            !.master_waitfile[p.slot] = Append(@, [n |-> n, sync |-> FALSE])]

GreetMaster(j) ==
  /\ jobs[j].phase = "starting"
  /\ Say(j, [jobs[j] EXCEPT !.phase = "waiting"], files, Plain("INIT"))
  /\ UNCHANGED <<rc, workers, lost, sent, crashes, faults, odd>>

(* greet_master ends in do_benchmark_cmd, and so does RE_INIT once more. *)
Waited(p) == [p EXCEPT !.phase = IF @ = "waiting_twice" THEN "waiting" ELSE "ready"]

(* do_benchmark_cmd: any other message is dropped. *)
DoBenchmarkCmd(j) ==
  /\ Gets(j) /\ jobs[j].phase \in {"waiting", "waiting_twice"}
  /\ IF InputOf(j)[Look(j).number].tag = "INIT_REPLY"
     THEN Say(j, Waited(Received(j)), FilesRead(j), Plain("BENCH_RESULTS"))
     ELSE jobs' = [jobs EXCEPT ![j] = Waited(Received(j))] /\ files' = FilesRead(j)
  /\ UNCHANGED <<rc, workers, lost, sent, crashes, faults, odd>>

(* RE_INIT in the main loop: greet the master again. *)
Reinit(j) ==
  /\ Gets(j) /\ jobs[j].phase = "ready"
  /\ InputOf(j)[Look(j).number].tag = "RE_INIT"
  /\ Say(j, [Received(j) EXCEPT !.phase = "waiting_twice"], FilesRead(j), Plain("INIT"))
  /\ UNCHANGED <<rc, workers, lost, sent, crashes, faults, odd>>

DoThisWork(j) ==
  /\ Gets(j) /\ jobs[j].phase = "ready"
  /\ LET m == InputOf(j)[Look(j).number]
     IN  /\ m.tag = "DO_THIS_WORK"
         /\ Say(j, Received(j), FilesRead(j), [tag |-> "RESULTS", task |-> m.task])
  /\ UNCHANGED <<rc, workers, lost, sent, crashes, faults, odd>>

Leaves(j, kind) ==
  /\ jobs' = Without(jobs, {j})
  /\ files' = Logged(files, j, kind)

(* The exits: a number it has missed, a message that is not there, or one that *)
(* is unknown to its main loop.                                                 *)
Fails(j) ==
  /\ Runs(j) /\ jobs[j].phase # "starting"
  /\ \/ Look(j).bad
     \/ Look(j).found /\ Look(j).number \notin DOMAIN InputOf(j)
     \/ Gets(j) /\ jobs[j].phase = "ready" /\ InputOf(j)[Look(j).number].tag = "INIT_REPLY"
  /\ Leaves(j, "TERMINATED")
  /\ UNCHANGED <<rc, workers, lost, sent, crashes, faults, odd>>

(* It falls over, or has heard nothing for worker_timeout. *)
Dies(j) ==
  /\ Runs(j) /\ faults < MaxFaults /\ faults' = faults + 1
  /\ Leaves(j, "TERMINATED")
  /\ UNCHANGED <<rc, workers, lost, sent, crashes, odd>>

-----------------------------------------------------------------------------
(* Condor. *)

StartJob(j) ==
  /\ jobs[j].phase = "idle"
  /\ jobs' = [jobs EXCEPT ![j].phase = "starting", ![j].expected_number = 0,
                          ![j].master_expected_number = 0]
  /\ files' = Logged(files, j, "EXECUTE")
  /\ UNCHANGED <<rc, workers, lost, sent, crashes, faults, odd>>

(* The machine is taken away, or its shadow fails; the job is queued again. *)
Evict(j) ==
  /\ Runs(j) /\ faults < MaxFaults /\ faults' = faults + 1
  /\ jobs' = [jobs EXCEPT ![j].phase = "idle"]
  /\ \E kind \in {"EVICTED", "SHADOW_EXCEPTION"} : files' = Logged(files, j, kind)
  /\ UNCHANGED <<rc, workers, lost, sent, crashes, odd>>

CondorRemoves(j) ==
  /\ jobs[j].removed
  /\ Leaves(j, "ABORTED")
  /\ UNCHANGED <<rc, workers, lost, sent, crashes, faults, odd>>

(* Somebody removes a job that waits. *)
AbortJob(j) ==
  /\ jobs[j].phase = "idle" /\ odd < MaxOdd /\ odd' = odd + 1
  /\ Leaves(j, "ABORTED")
  /\ UNCHANGED <<rc, workers, lost, sent, crashes, faults>>

(* Condor logs that a process has grown, say. *)
LogOther(j) ==
  /\ Runs(j) /\ odd < MaxOdd /\ odd' = odd + 1
  /\ files' = Logged(files, j, "OTHER")
  /\ UNCHANGED <<rc, jobs, workers, lost, sent, crashes, faults>>

-----------------------------------------------------------------------------
Serve(i) ==
  \/ HandleExecuting(i) \/ HandleKilled(i) \/ HandleTransited(i)
  \/ ReceiveInit(i) \/ ReceiveInitInVain(i) \/ ReceiveBenchResults(i) \/ ReceiveResults(i)

WorkerRuns(j) == GreetMaster(j) \/ DoBenchmarkCmd(j) \/ Reinit(j) \/ DoThisWork(j) \/ Fails(j)

Next ==
  \/ StartMainloop \/ Crash \/ Restart \/ Resync \/ ResetCounters
  \/ CheckLogFilesRunning
  \/ \E i \in Slot : Serve(i) \/ SendTask(i)
  \/ \E j \in DOMAIN jobs : WorkerRuns(j) \/ Dies(j)
  \/ \E j \in DOMAIN jobs : StartJob(j) \/ Evict(j) \/ CondorRemoves(j)
  \/ \E j \in DOMAIN jobs : AbortJob(j) \/ LogOther(j)

(* The master loops, the workers run; Condor finds a machine for every job, and *)
(* removes what it is told to.  What each needs is said outright: ENABLED would *)
(* have TLC evaluate whole handlers.                                            *)
JobsOf(i) == {j \in DOMAIN jobs : jobs[j].slot = i}
CanServe(i) ==
  Looping /\ (Unserved(i) \/ (rc.fileWorkers[i].state = "RUNNING" /\ IsComplete(i)
                             /\ rc.fileWorkers[i].counter \in DOMAIN files.worker_output[i]))
LogsHaveNews ==
  /\ Looping /\ \A i \in Slot : ~Unserved(i)
  /\ \E i \in Slot : ReadLog(rc.fileWorkers[i], files.log[i]) # rc.fileWorkers[i]
CanRun(j) == Runs(j) /\ (jobs[j].phase = "starting" \/ Look(j).found \/ Look(j).bad)

MasterIsFair ==
  /\ []<>~(Up /\ ~rc.looping /\ rc.resuming = {}) \/ []<><<StartMainloop>>_fileVars
  /\ []<>Up \/ []<><<Restart>>_fileVars
  /\ []<>~(Up /\ rc.resuming # {}) \/ []<><<Resync \/ ResetCounters>>_fileVars
  /\ []<>~LogsHaveNews \/ []<><<CheckLogFilesRunning>>_fileVars
  /\ \A i \in Slot : []<>~CanServe(i) \/ []<><<Serve(i)>>_fileVars

WorkersAreFair ==
  \A i \in Slot : \/ []<>(\A j \in JobsOf(i) : ~CanRun(j))
                  \/ []<><<\E j \in JobsOf(i) : WorkerRuns(j)>>_fileVars

CondorIsFair ==
  \A i \in Slot :
    /\ \/ []<>(\A j \in JobsOf(i) : jobs[j].phase # "idle")
       \/ []<><<\E j \in JobsOf(i) : StartJob(j)>>_fileVars
    /\ \/ []<>(\A j \in JobsOf(i) : ~jobs[j].removed)
       \/ []<><<\E j \in JobsOf(i) : CondorRemoves(j)>>_fileVars

Spec == Init /\ [][Next]_fileVars
FairSpec == Spec /\ MasterIsFair /\ WorkersAreFair /\ CondorIsFair

-----------------------------------------------------------------------------
(* Properties *)

(* What a worker has sent is the answer the driver waits for from it, and not *)
(* that of an earlier worker of the slot or to an earlier master.             *)
AnswersFitAlways ==
  Looping =>
    \A i \in Slot :
      rc.fileWorkers[i].state = "RUNNING" /\ IsComplete(i) =>
        /\ rc.fileWorkers[i].counter \in DOMAIN files.worker_output[i]
        /\ CASE Message_(i).tag = "INIT" -> workers[i].state = "INITIALIZING"
             [] Message_(i).tag = "BENCH_RESULTS" -> workers[i].state = "BENCHMARKING"
             [] OTHER -> /\ workers[i].state = "WORKING"
                         /\ workers[i].task = Message_(i).task

AnswersFit == crashes = 0 => AnswersFitAlways

(* Every job in Condor's queue that is not about to be removed is known to the *)
(* master, or will be when it comes back, and no slot has two: two processes    *)
(* would read and write the same files.                                         *)
NoOrphans ==
  \A j \in DOMAIN jobs :
    ~jobs[j].removed =>
      IF Up THEN /\ rc.fileWorkers[jobs[j].slot].job = j
                 /\ rc.fileWorkers[jobs[j].slot].state # "FREE"
      ELSE files.moment_worker_file[jobs[j].slot].job = j

(* The outstanding requests are the jobs that have not been reported as workers, *)
(* and those that never will be.                                                 *)
AccountAddsUp ==
  /\ FileTypeOK
  /\ Looping =>
       \A c \in Classes :
         rc.hostadd_reqs[c] = lost[c] +
           Cardinality({i \in Slot : /\ rc.fileWorkers[i].state \in {"SUBMITTED", "EXECUTE"}
                                     /\ rc.fileWorkers[i].job # NoJob
                                     /\ rc.fileWorkers[i].exec_class = c})

(* Every worker that is wanted is there in the end and has been heard: those that *)
(* died or were evicted are replaced, a master that comes back has its workers    *)
(* back.  Not so after what the code does not cope with: odd, a lost request, and *)
(* a job whose end is read as the master comes back, for the driver asks for no   *)
(* replacement of a worker that it does not know.                                 *)
PoolComesBack ==
  [](/\ odd = 0 /\ \A c \in Classes : lost[c] = 0
     /\ Up /\ ~rc.looping => \A i \in Slot : rc.fileWorkers[i].state # "KILLED") =>
    <>[](\A c \in Classes :
          Cardinality({i \in Slot : /\ workers[i].state \in {"IDLE", "WORKING"}
                                    /\ workers[i].exec_class = c}) = Target(c))
=============================================================================
