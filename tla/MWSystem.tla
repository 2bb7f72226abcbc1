------------------------------ MODULE MWSystem ------------------------------
(***************************************************************************)
(* The master of MWDriver together with the worker processes of            *)
(* mw-src/src/MWWorker.C and the resource manager that starts, suspends,  *)
(* resumes and loses them.                                                 *)
(*                                                                         *)
(* Each worker has a FIFO of messages from the master (inbox), a FIFO of   *)
(* messages to the master (outbox) and a FIFO of what the resource manager *)
(* tells the master about it (notices).  The two last are independent:     *)
(* the news of a worker's death may overtake its last result.  The ids of  *)
(* workers are not used again (PVM task ids are not).                      *)
(*                                                                         *)
(* Receiving a message and sending the reply is one step of a worker: a    *)
(* worker that dies or is suspended while it computes is, to the master,   *)
(* one that does so before it receives.                                    *)
(***************************************************************************)
EXTENDS MWDriver

CONSTANTS
  MaxFaults,     \* how many workers may crash or fail to initialise
  MaxMishaps,    \* how many suspensions and checksum failures there may be
  MaxOddities,   \* how many of them may be out of the ordinary: a checksum
                 \* failure, a suspension before the master got the INIT
  DeathNotices   \* what the master may be told of a death: sequences of tags

ASSUME BoundsAreNaturals == MaxFaults \in Nat /\ MaxMishaps \in Nat /\ MaxOddities \in Nat
ASSUME DeathNoticesAreNotices == DeathNotices \subseteq Seq({"HOSTDELETE", "TASKEXIT"})

VARIABLES
  proc,      \* the worker processes
  inbox,     \* messages from the master
  outbox,    \* messages to the master
  notices,   \* the resource manager's news of the worker
  stopped,   \* the suspended processes
  expired,   \* the workers whose last event is older than the timeout limit
  faults, mishaps, oddities  \* how much of each bound is used up

procVars == <<proc, outbox, notices, stopped, expired, faults, mishaps, oddities>>
vars == <<mw, inbox, procVars>>

(* "starting" has not sent INIT, "waiting" is in do_benchmark_cmd, "ready" in *)
(* worker_mainloop.                                                           *)
ProcState == {"none", "starting", "waiting", "ready", "dead"}
Alive(w) == proc[w] \in {"starting", "waiting", "ready"}
Absent == {w \in Worker : proc[w] = "none"}

Report(tag) == [tag |-> tag, task |-> NoTask, okay |-> TRUE]
Result(t) == [tag |-> "RESULTS", task |-> t, okay |-> TRUE]
BenchResults(okay) == [tag |-> "BENCH_RESULTS", task |-> NoTask, okay |-> okay]
ReportType == [tag : {"INIT", "BENCH_RESULTS", "RESULTS"},
               task : Task \cup {NoTask}, okay : BOOLEAN]

SystemInit ==
  /\ \E W \in SUBSET Worker :
        /\ mw = Setup(W)
        /\ proc = [w \in Worker |-> IF w \in W THEN "starting" ELSE "none"]
  /\ inbox = [w \in Worker |-> <<>>]
  /\ outbox = [w \in Worker |-> <<>>]
  /\ notices = [w \in Worker |-> <<>>]
  /\ stopped = {} /\ expired = {}
  /\ faults = 0 /\ mishaps = 0 /\ oddities = 0

-----------------------------------------------------------------------------
(* The master. *)

Take(queue, w) == queue' = [queue EXCEPT ![w] = Tail(@)]
HasMessage(queue, w) == queue[w] # <<>>

(* What RMC does with the iteration that ends in m: the messages are on      *)
(* their way, the workers started are processes, and the clock of a worker   *)
(* restarts with each event (gottask, completedtask, suspended, resumed).    *)
Deliver(m) ==
  /\ mw' = [m EXCEPT !.sent = [w \in Worker |-> <<>>]]
  /\ inbox' = [w \in Worker |-> IF proc[w] = "dead" THEN <<>> ELSE inbox[w] \o m.sent[w]]
  /\ proc' = [w \in Worker |->
                IF w \in m.workers /\ proc[w] = "none" THEN "starting" ELSE proc[w]]
  /\ expired' = {w \in expired : /\ m.state[w] = "WORKING" /\ mw.state[w] = "WORKING"
                                 /\ m.sent[w] = <<>>}

(* The rest of the iteration whose handler leaves one of the states S.  With *)
(* timeouts the check is due in every iteration.                             *)
MasterStep(S) ==
  /\ Running
  /\ \E m \in S : \E n \in EndOfIteration(m, WorkerTimeout, expired) : Deliver(n)

(* A worker that is given up before it could work uses up a fault. *)
FaultsIn(m, w) == IF w \in mw.workers \ m.workers THEN 1 ELSE 0
Affordable(S, w) == {m \in S : faults + FaultsIn(m, w) <= MaxFaults}
CountFault(w) == faults' = faults + (IF w \in mw.workers \ mw'.workers THEN 1 ELSE 0)

GetInit(w) ==
  /\ HasMessage(outbox, w) /\ Head(outbox[w]).tag = "INIT"
  /\ Take(outbox, w)
  /\ MasterStep(Affordable(OnInit(mw, w), w))
  /\ CountFault(w)
  /\ UNCHANGED <<notices, stopped, mishaps, oddities>>

GetBenchResults(w) ==
  /\ HasMessage(outbox, w) /\ Head(outbox[w]).tag = "BENCH_RESULTS"
  /\ Take(outbox, w)
  /\ MasterStep(OnBenchResults(mw, w, Head(outbox[w]).okay))
  /\ UNCHANGED <<notices, stopped, faults, mishaps, oddities>>

GetResults(w) ==
  /\ HasMessage(outbox, w) /\ Head(outbox[w]).tag = "RESULTS"
  /\ Take(outbox, w)
  /\ \E N \in SUBSET (Task \ mw.created), r \in UserReturns :
        MasterStep(OnResults(mw, w, Head(outbox[w]).task, N, r))
  /\ UNCHANGED <<notices, stopped, faults, mishaps, oddities>>

(* Something happens to a worker that uses up the bounds. *)
Mishap(isOdd) ==
  /\ mishaps < MaxMishaps
  /\ isOdd => oddities < MaxOddities
  /\ mishaps' = mishaps + 1
  /\ oddities' = oddities + IF isOdd THEN 1 ELSE 0

(* A message from w that fails its checksum is received as CHECKSUM_ERROR.  *)
(* MW-File, the only RMComm with checksums, reads the files of the workers   *)
(* it has running and of no other.                                          *)
GetChecksumError(w) ==
  /\ HasMessage(outbox, w) /\ w \in mw.workers
  /\ Mishap(TRUE)
  /\ Take(outbox, w)
  /\ MasterStep(HandleChecksum(mw, w))
  /\ UNCHANGED <<notices, stopped, faults>>

GetNotice(w) ==
  /\ HasMessage(notices, w)
  /\ Take(notices, w)
  /\ MasterStep(CASE Head(notices[w]) = "HOSTSUSPEND" -> HandleHostsuspend(mw, w)
                  [] Head(notices[w]) = "HOSTRESUME" -> HandleHostresume(mw, w)
                  [] OTHER -> HandleExit(mw, w))
  /\ UNCHANGED <<outbox, stopped, faults, mishaps, oddities>>

(* A host has been added, and start_worker succeeds. *)
GetHostadd(w) ==
  /\ w \in Absent
  /\ MasterStep(CallHostaddlogic(AddWorker(mw, w)))
  /\ UNCHANGED <<outbox, notices, stopped, faults, mishaps, oddities>>

FinishWorkers ==
  /\ mw.halt \in {"finished", "stopped"} /\ mw.workers # {}
  /\ Deliver(AllKilled(mw))
  /\ UNCHANGED <<outbox, notices, stopped, faults, mishaps, oddities>>

-----------------------------------------------------------------------------
(* A worker process. *)

CanRun(w) == Alive(w) /\ w \notin stopped
Has(w, tag) == inbox[w] # <<>> /\ Head(inbox[w]).tag = tag

Say(w, report) == outbox' = [outbox EXCEPT ![w] = Append(@, report)]
Become(w, s) == proc' = [proc EXCEPT ![w] = s]

(* The process is gone; the master is told so, or not. *)
Vanish(w) ==
  /\ Become(w, "dead")
  /\ inbox' = [inbox EXCEPT ![w] = <<>>]
  /\ \E n \in DeathNotices : notices' = [notices EXCEPT ![w] = @ \o n]
  /\ stopped' = stopped \ {w}

GreetMaster(w) ==
  /\ CanRun(w) /\ proc[w] = "starting"
  /\ Become(w, "waiting")
  /\ Say(w, Report("INIT"))
  /\ UNCHANGED <<mw, inbox, notices, stopped, expired, faults, mishaps, oddities>>

(* do_benchmark_cmd: the initial data may not unpack; either way the worker  *)
(* goes on to its main loop.                                                 *)
DoBenchmarkCmd(w) ==
  /\ CanRun(w) /\ proc[w] = "waiting" /\ Has(w, "INIT_REPLY")
  /\ \E okay \in BOOLEAN :
        /\ ~okay => faults < MaxFaults
        /\ Say(w, BenchResults(okay))
        /\ faults' = IF okay THEN faults ELSE faults + 1
  /\ Become(w, "ready")
  /\ Take(inbox, w)
  /\ UNCHANGED <<mw, notices, stopped, expired, mishaps, oddities>>

(* Any other message in answer to INIT, KILL_YOURSELF included, is dropped. *)
DropFirstMessage(w) ==
  /\ CanRun(w) /\ proc[w] = "waiting"
  /\ Has(w, "DO_THIS_WORK") \/ Has(w, "KILL_YOURSELF")
  /\ Become(w, "ready")
  /\ Take(inbox, w)
  /\ UNCHANGED <<mw, outbox, notices, stopped, expired, faults, mishaps, oddities>>

DoThisWorkNow(w) ==
  /\ CanRun(w) /\ proc[w] = "ready" /\ Has(w, "DO_THIS_WORK")
  /\ Say(w, Result(Head(inbox[w]).task))
  /\ Take(inbox, w)
  /\ UNCHANGED <<mw, proc, notices, stopped, expired, faults, mishaps, oddities>>

(* KILL_YOURSELF, and the exit of a worker that gets INIT_REPLY in its main *)
(* loop: an unknown command.                                                *)
Suicide(w) ==
  /\ CanRun(w) /\ proc[w] = "ready"
  /\ Has(w, "KILL_YOURSELF") \/ Has(w, "INIT_REPLY")
  /\ Vanish(w)
  /\ UNCHANGED <<mw, outbox, expired, faults, mishaps, oddities>>

-----------------------------------------------------------------------------
(* The resource manager and the machines. *)

Crashes(w) ==
  /\ Alive(w) /\ faults < MaxFaults
  /\ faults' = faults + 1
  /\ Vanish(w)
  /\ UNCHANGED <<mw, outbox, expired, mishaps, oddities>>

(* RMC->removeWorker: the machine of a worker the master gave up is deleted *)
(* from the pool, sooner or later.                                          *)
IsRemoved(w) ==
  /\ Alive(w) /\ w \notin mw.workers
  /\ Vanish(w)
  /\ UNCHANGED <<mw, outbox, expired, faults, mishaps, oddities>>

(* A message to w fails its checksum: the worker exits. *)
GetsChecksumError(w) ==
  /\ CanRun(w) /\ inbox[w] # <<>>
  /\ Mishap(TRUE)
  /\ Vanish(w)
  /\ UNCHANGED <<mw, outbox, expired, faults>>

Suspend(w) ==
  /\ CanRun(w)
  /\ Mishap(mw.state[w] = "INITIALIZING")
  /\ stopped' = stopped \cup {w}
  /\ notices' = [notices EXCEPT ![w] = Append(@, "HOSTSUSPEND")]
  /\ UNCHANGED <<mw, proc, inbox, outbox, expired, faults>>

Resume(w) ==
  /\ w \in stopped
  /\ stopped' = stopped \ {w}
  /\ notices' = [notices EXCEPT ![w] = Append(@, "HOSTRESUME")]
  /\ UNCHANGED <<mw, proc, inbox, outbox, expired, faults, mishaps, oddities>>

(* Nothing has been heard of a working worker for worker_timeout_limit. *)
Expire(w) ==
  /\ WorkerTimeout
  /\ w \in InState(mw, "WORKING") /\ w \notin expired
  /\ expired' = expired \cup {w}
  /\ UNCHANGED <<mw, proc, inbox, outbox, notices, stopped, faults, mishaps, oddities>>

-----------------------------------------------------------------------------
MasterReceives(w) ==
  GetInit(w) \/ GetBenchResults(w) \/ GetResults(w) \/ GetNotice(w)

WorkerRuns(w) ==
  GreetMaster(w) \/ DoBenchmarkCmd(w) \/ DropFirstMessage(w) \/ DoThisWorkNow(w) \/ Suicide(w)

SystemNext ==
  \/ \E w \in Worker :
        \/ MasterReceives(w) \/ GetHostadd(w) \/ GetChecksumError(w)
        \/ WorkerRuns(w)
        \/ Crashes(w) \/ IsRemoved(w) \/ GetsChecksumError(w)
        \/ Suspend(w) \/ Resume(w) \/ Expire(w)
  \/ FinishWorkers

(* The master's loop receives whatever is there; a process that is not        *)
(* suspended runs; a suspended machine resumes and time passes; the resource  *)
(* manager, which is asked for hosts all along, adds those there are.  No     *)
(* fault is bound to happen.                                                  *)
Fairness ==
  \A w \in Worker :
     /\ WF_vars(MasterReceives(w))
     /\ WF_vars(GetHostadd(w))
     /\ WF_vars(WorkerRuns(w))
     /\ WF_vars(Resume(w))
     /\ WF_vars(Expire(w))

SystemSpec == SystemInit /\ [][SystemNext]_vars
FairSystemSpec == SystemSpec /\ Fairness

-----------------------------------------------------------------------------
(* Every part of the system's state has its type. *)
SystemTypeOK ==
  /\ TypeOK
  /\ proc \in [Worker -> ProcState]
  /\ inbox \in [Worker -> Seq(Message)]
  /\ outbox \in [Worker -> Seq(ReportType)]
  /\ notices \in [Worker -> Seq({"HOSTDELETE", "TASKEXIT", "HOSTSUSPEND", "HOSTRESUME"})]
  /\ stopped \subseteq Worker /\ expired \subseteq Worker
  /\ faults \in 0..MaxFaults /\ mishaps \in 0..MaxMishaps /\ oddities \in 0..MaxOddities

(* None of the two things has happened that the code does not get over: a    *)
(* worker suspended before its INIT has been handled, a message that failed  *)
(* its checksum.                                                             *)
Ordinary == oddities = 0

(* A task on the run queue is held by a worker the master knows, whose death *)
(* will put it back: no running task is forgotten.                           *)
RunningIsHeld ==
  Running /\ Ordinary => \A t \in mw.running : Holders(mw, t) # {}

(* The messages with this tag that are in a queue. *)
AtWork(name, q, tag) ==
  {[queue |-> name, at |-> i, task |-> q[i].task] : i \in {j \in DOMAIN q : q[j].tag = tag}}

(* The work a worker process has been sent and not yet answered for, and the *)
(* results on their way to the master.                                       *)
UnderWay(w) ==
  AtWork("inbox", inbox[w], "DO_THIS_WORK") \cup AtWork("outbox", outbox[w], "RESULTS")

KnowsTheWorkOf(w) ==
  IF mw.runningtask[w] = NoTask
  THEN UnderWay(w) = {}
  ELSE \E work \in UnderWay(w) : UnderWay(w) = {work} /\ work.task = mw.runningtask[w]

(* The master's picture of a live worker is right: a worker it thinks runs a *)
(* task has exactly that task to do or has just reported it, and one it      *)
(* thinks runs none has none.  A result never comes from a worker that is    *)
(* thought to run another task, which would stop the whole computation.      *)
MasterKnowsTheWork ==
  Running /\ Ordinary => \A w \in mw.workers : Alive(w) => KnowsTheWorkOf(w)

(* Each queue holds what its reader expects: messages of its kind, and a      *)
(* worker gets INIT_REPLY when it waits for it and only then; its first       *)
(* message is never work, which do_benchmark_cmd would drop.                  *)
WorkerIsInStep ==
  /\ SystemTypeOK
  /\ Ordinary =>
       \A w \in Worker :
         /\ proc[w] = "waiting" => ~Has(w, "DO_THIS_WORK")
         /\ proc[w] = "ready" => ~Has(w, "INIT_REPLY")

(* The master ends the computation early, or falls over an assertion or a    *)
(* NULL pointer, on no behaviour of the workers, ordinary or not.            *)
OnlyTheUserStopsIt == mw.halt \in {"no", "finished"}

(* As long as a worker is left that does not crash, every task is acted upon *)
(* and the computation ends.                                                 *)
Finishes == <>(mw.halt = "finished" \/ ~Ordinary)
=============================================================================
