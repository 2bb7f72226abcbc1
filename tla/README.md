# A TLA+ model of the MW master-worker framework

MW (`src/mw-src/src`) is a C++ library with which a user writes a master-worker
computation for a pool of machines that come and go: the master process keeps a
pool of tasks, hands them to worker processes, and must survive workers that
are added, suspended, resumed, deleted, that die, or that are just not heard of
any more.  This directory models the master, its workers, the back ends that
carry their messages and get them hosts, and the applications of the repository;
it checks the model with TLC and proves the master's safety with TLAPS.

## The system

| Part | State | Operations | Modelled |
|---|---|---|---|
| Master: `MWDriver.C` | todo and running lists, worker list, `reassigned_tasks`, `reassigned_tasks_done`, counters, the user's last return value | `master_setup`, one iteration of `master_mainloop` per message (INIT, BENCH_RESULTS, RESULTS, HOSTADD, HOSTDELETE, TASKEXIT, HOSTSUSPEND, HOSTRESUME, CHECKSUM_ERROR), rematch, timeout check, `kill_workers` | `MWDriver` |
| Worker: `MWWorker.C` | where it is in its start-up | `greet_master`, `do_benchmark_cmd`, `worker_mainloop_oneshot` | `MWSystem`, `MWExchange`, `MWFile` |
| Worker record: `MWWorkerID.C` | state, running task, marks, time accounts, virtual id, work classes | `gottask`, `completedtask`, `suspended`, `resumed`, `ended`, `benchmark`, `get_next_vid` | fields of `MWDriver`; `MWStats` |
| Checkpoint and restart: `MWDriver.C` | the checkpoint file | `checkpoint`, `restart_from_ckpt`, `set_checkpoint_frequency`, `set_checkpoint_time` | `MWCheckpoint` |
| Task swap: `MWDriver.C` | a file of tasks, how much of it was read | `swap_out_todo_tasks`, `swap_in_todo_tasks`, the swap of a restart | `MWSwap` |
| Lists and their index: `MWList.h` | items with keys, in order or not, a cursor, buckets | append, prepend, insert by key, remove; build, split, merge and drop buckets | `MWList` |
| Todo list, to the user: `MWDriver.C` | addition and retrieval modes, key function, `listsorted` | `addTasks`, `getNextTask`, `set_task_key_function`, `sort_task_list`, `delete_tasks_worse_than`, `return_best_todo_keyval`, `get_todo_head` | `MWTaskList` |
| Work classes: `MWGroup.C`, `MWDriver.C` | the classes of tasks and workers, the driver's counts of both | `join`, `leave`, `doesOverlap`, `refreshWorkers`, `getNextTask` with classes | `MWStats` |
| Statistics: `MWStatistics.C` | times of each virtual id | gather, checkpoint, read back, sum up | `MWStats` |
| Resource manager, what all share: `MWRMComm.C` | executables, arch and exec classes, targets | the calls of `get_userinfo`, the checkpoint of them | `MWRMComm` |
| Condor-PVM: `MWCondorPvmRC.C` | outstanding host requests, list of requests, received messages | start, `hostaddlogic`, spawn, notices, removal | `MWHosts` |
| File: `MWFileRC.C` | slots, counters, waitfiles, Condor's logs | submit, numbered files, events, restart and resynchronisation | `MWFile` |
| Socket: `MWSocketRC.C` | slots, descriptors, the map back | connect, poll, losses, jobs that come back, restart or start from the beginning | `MWSocket` |
| Messages over each back end: `RMComm/*` | buffers | pack, send, receive, unpack | `MWWire` |
| Independent, MPI, ControlPanel | one buffer; none | master and worker in turn; start, send, receive | `MWWire`, `MWExchange` |
| Applications: `src/*.cpp`, `*.pyx`, `examples`, `BlackBox` | tasks, results | what they pack, read and compute | `MWExamples`, `MWExchange` |
| NWS, Chirp, generated code | none that the master shares | | not modelled |

How they interact.  The master is one thread: it receives one message, runs the
handler to its end and goes on.  The concurrency is between the master, the
worker processes and the resource manager.  A worker's messages arrive in the
order it sent them, but the resource manager's news of the same worker
(suspended, resumed, died) travels on its own and may overtake them.  A worker's
record in the master's list is thus an opinion of what the worker does, and the
handlers must be right when the opinion is out of date.  A task is one C++
object, reached from the todo list, from the running list and from the
`runningtask` pointers of worker records.

What is hard, and tests hardly reach:

- the same task held by several workers (after a suspension under REASSIGN or a
  timeout): its result must be acted upon once, its object deleted once, when
  nobody points at it any more;
- a death, reported late, twice or never, of a worker whose task may by then be
  done, reassigned or on the todo list again;
- a worker suspended and resumed in each of its states, before and after the
  messages that change them;
- host deletion, in a loop whose bound shrinks as it removes;
- a result that was corrupted; a master waiting for a message that will not come;
- a user who changes the key function, mixes ways to add tasks or prunes the list
  while it is indexed;
- tasks that are moved to a file and back, while calls of the system fail and the
  master dies: checkpoint and file belong together;
- hosts that were asked for and do not come, workers that are told of twice when
  they are lost, requests that nobody answers: the pool must neither overfill nor
  run dry;
- numbered files that are written and read by processes that die and come back
  and start their numbering anew;
- a descriptor that the system gives to another connection while a slot still
  names it;
- ids that are used again, classes that change while a task is with a worker,
  times that are gathered and saved in the middle of a result;
- reads that must be in step with the packs of another program, over five back
  ends each of which keeps something else of a message.

The `hazards` of `PROJECT.json` list them with their lines.

### What makes each component correct

- Master: each task the user adds is handed back exactly once with its result;
  no task is lost or in two lists; no deleted object is reachable; no worker
  idles while a task waits; the loop ends by itself only when all is done.
- Master with workers: the master's opinion of a live worker is right; a worker
  is told to work only when it listens; the master does not stop or fall over by
  itself; the computation finishes if a worker survives.
- Checkpoint and restart: the file is at all times a consistent cut; a restart
  takes the computation back to that moment, loses no task of it and does none
  twice from there on; how far back is bounded.
- Lists: no operation loses or duplicates a task; a list that says it is in order
  is; the index fits the list it is an index of.
- Swap: a task is in one place, the list in memory, the file or a worker's hands;
  the checkpoint and the file hold together what is to be done.
- Host account: requests and answers add up, counts agree with lists, a lost host
  is replaced and not twice, the pool fills.
- File back end: an answer read is the one awaited, no job runs that nobody knows,
  the requests add up, the pool comes back.
- Socket back end: slots, descriptors and the driver's list agree; what comes from
  a socket is handled as from its sender; a master that had a checkpoint leaves no
  job in the queue for good.
- Records: ids are nobody else's, no time is lost or counted twice, the counts of a
  class are those of its members, a worker has tasks of its classes only.
- Messages: what is read is what was packed, and the answer of every application
  is right.

## The modules

`MWDriver` is the master in an open environment: any message may come from any
worker id at any time.  Its state is one record `mw` with the fields of
`class MWDriver` and of the worker records.  Every handler of the source is an
operator of the same name from a state to the *set* of states it may leave
behind, so that the calls a handler makes are calls in the model, and one step
of `Next` is one whole iteration: receive, handler, `RematchTasksToWorkers`,
the timeout check if due, and the test of the loop (`Conclude`).

| Code | Model |
|---|---|
| `todo`, `running`, `workers` | sets of task numbers and worker ids; the order of the lists, and so `addmode`, `getmode`, keys and the machine ordering, is left open: `SendTaskToWorker` takes any task, `RematchTasksToWorkers` any maximal matching |
| `MWWorkerID` | `state[w]`, `runningtask[w]`, `isBenchMark[w]`, `doomed[w]`; a removed worker is `EXITED` and holds nothing |
| `delete` of a task | it leaves `live`; a pointer outside `live` dangles |
| `RMC->send` | appended to `sent[w]`, cleared at the next iteration |
| failed `MWassert`, NULL dereference | `halt = "crashed"` |
| user callbacks | inputs: the tasks `N` added and the return value `r` of `act_on_completed_task`, the outcome of `pack_worker_init_data` |
| `RMC->hostaddlogic` | any number of hosts to delete up to `MaxSurplus` |
| tasks added, tasks acted upon | `created`, `completed`: history, never read by a handler |

`MWTaskPool` is the abstract specification, three variables: what is pending,
what is done, and how the computation ended.  `MWDriverPool` instantiates it over
`mw`; that `MWDriver` implements it is checked in `driver` and proved.

`MWSystem` extends `MWDriver` and closes the loop.  A worker process is
`starting`, `waiting` (in `do_benchmark_cmd`), `ready` (in its main loop) or
`dead`; `inbox`, `outbox` and `notices` are FIFO queues.  It reuses the
handlers: `GetResults(w)` is `OnResults` fed with the head of `outbox[w]`, then
`EndOfIteration`, then `Deliver`, which moves `sent` to the inboxes.  The
environment crashes, suspends, resumes and removes workers and corrupts
messages, within the bounds `MaxFaults` (crashes), `MaxMishaps` (suspensions and
checksum failures) and `MaxOddities`: how many of the mishaps may be of the two
kinds the code does not get over, a checksum failure and a suspension before the
master got the INIT.  `Ordinary` says that there was none.

`MWCheckpoint` extends `MWDriver` with the checkpoint file, crashes of the
master and its restart.  `ReceiveResultsAndCheckpoint` is `ReceiveResults` with the
call of `checkpoint` that `handle_worker_results` makes on its way: what is
written is the state right after `act_on_completed_task`, before the worker is
idle and new work is handed out.  A checkpoint may fail, and the old file stays.
Whether checkpoints go by count or by time is chosen at the start (`timed`).  `Restart` is `master_setup` again,
from the file or from the beginning, followed by the first test of the loop.
`MWDurablePool` is its abstract specification, a task pool that may abort and go
on from where it was last saved; `MWCheckpointPool` instantiates it.

`MWList` is the list template: a list is a record of its elements (a sequence of
a task and a key), the flag `sorted`, the index (a sequence of buckets, empty where
the code has NULL) and the static counter of `IndexedInsert`, and every operation
of the class that the todo list goes through is an operator, under its own name
where TLA+ has that name free.  A bucket has its count, its first element and its
bounds.  The recursion of `SplitTo` is a recursive function.

`MWTaskList` is the todo list in the user's hands: one action for each call of
`MWDriver` that changes the list, in the modes of `MWDriver.h`.  `byKey` marks a
user who sets a key function before he adds tasks, adds them by key only and does
not call `get_todo_head`; the others may do what they like.  An insertion by key
with no key function ends in an assertion, one into a list out of order in
`exit(1)`, and one through an index that does not fit in undefined behaviour:
`halt` says which, and nothing follows it.  `MWDriver` keeps the todo list as a
set and so allows for every order that `MWTaskList` can give it.

`MWSwap` extends `MWList` with the swap file and the checkpoint: a list in memory,
a file in the order of the keys of which the first `skip` tasks have been read, and
what the last checkpoint held.  One action is one call; a call of the system may
fail early (everything is put back) or late (`halt` is `torn`), and the master may
die between two calls or between the change of the file and the checkpoint.

`MWRMComm` is the configuration every back end shares, as operators on a record;
`MWHosts` extends it with the Condor-PVM back end: `hostaddlogic` asks for hosts by
arch class and writes down for which exec class, hosts arrive one by one, each gets
a worker, and `RmWorker` is the path that both notices of a loss take.  PVM itself
(`pending`, `lost`, `hosts`, `tasks`, `watched`) is the environment.

`MWFile` is the file back end with its workers and Condor: `files` holds what is on
the disk (logs, waitfiles, messages, the master's state), `rc` the master's memory,
which is gone while it is down, `jobs` the processes.  Each action of a worker is
one look at its waitfile and what follows.

`MWStats` is what the driver keeps beside the tasks: virtual ids, times, classes.
Time is a clock, `now`, that `Tick` moves; `spent` is history, what all workers have
really spent.  `MWSums` has the totals that it, `MWHosts` and `MWFile` add up.

`MWSocket` is the socket back end with its workers, Condor and the part of the
driver that it drives.  A step of the master is one return of `masterrecvany` and
the handler of what it returned; `rc.reading` marks a master that is blocked in the
middle of a message.  `driver.saved` is what the last checkpoint holds; empty, it
means that there is none, for a checkpoint is only made with a result.  A master that
comes back and finds one reads the state of the back end from it and removes the jobs
of its predecessor (`Restart`); one that finds none starts from the beginning, submits
its own jobs beside the old ones and writes over the file that had their numbers
(`StartOver`).  `orphan` is history: it marks the jobs left behind so.

`MWWire` says, for each back end, what is left of a message between `pack` and
`unpack`; `MWExamples` what each application packs, reads and computes; `MWExchange`
runs any of them over any back end: greeting, initial data, benchmark, tasks and
results.  A message that the back end cannot carry, by the code's own conversions,
sets `astray`, and nothing is claimed from there on; the same for BlackBox, whose
two sides disagree.

The `MC` modules hold what TLC needs (symmetry, the death notices of each back end,
programs, key functions); the modules whose names end in `Proofs` hold the theorems.

### Abstractions

- In `MWDriver` and `MWSystem`: one work class, MWNORMAL tasks only.  SUBRESULTS and the container tasks,
  whose send is commented out in `MWWorker.C`, the NWS tasks and REFRESH are left
  out; RE_INIT is in `MWFile`, classes and `refreshWorkers` are in `MWStats`.
- A worker computes and replies in one step.  A worker that dies while it
  computes is, to the master, one that dies before it received the task.
- Worker ids are not used again in `MWSystem` (PVM task ids are not); in
  `MWDriver` they are.
- A timeout is not a clock but a choice: any worker that had no event in this
  iteration may be late.  In `MWSystem`, `Expire(w)` makes it late.
- The user's own part of the checkpoint, `write_master_state`, is the set of
  tasks acted upon; the order of the tasks in the file, the benchmark task and the
  statistics are left out, and so is a disk that fills up while the file is written.
- Keys are whole numbers between two bounds that stand for `-DBL_MAX` and `DBL_MAX`.
  A bucket's `last`, which is compared and printed and never followed, the
  cursor, `SortedRemove` and `Sort` are left out.
- A host whose worker the master gave up is removed sooner or later
  (`IsRemoved`).
- The driver of `MWHosts`, `MWFile` and `MWSocket` is as much of it as the back end
  needs: its list of workers, their counts and, in the two last, their tasks.
- In `MWSwap` the user sets one key function before he adds tasks, and adds by key.
- In `MWStats` means, variances and the normalisation of times are left out.  Time goes
  in steps, so `HasLived` has a step pass between a worker's benchmark and the next
  message that gathers its account, as the clock's microseconds do in the code.
- In `MWExchange` nobody is lost; the other modules have the faults.  The
  computation of a cut and the command of a BlackBox task are not interpreted.

## The runs

| Run | Instance | What it shows |
|---|---|---|
| `driver` | 2 workers, 2 tasks, REASSIGN, timeouts, up to 2 hosts to delete, user may quit | `IInv`, the proof's invariant, which holds the type invariant; `NoTaskLost`, `ActedOncePerTask`, `NoDanglingTask`, `NoIdleWhileTodo` in *any* order of messages; `ImplementsTaskPool` |
| `system_pvm` | 2 workers, 3 tasks, 1 crash, 2 mishaps of which 1 may be odd, doubled death notices | `OnlyTheUserStopsIt`, whatever happens; where nothing odd happened `WorkerIsInStep`, `MasterKnowsTheWork`, `RunningIsHeld`, and the computation `Finishes` |
| `system_timeout` | the same with timeouts, 1 suspension and single notices | late and doubled results do not keep it from ending: `Finishes` |
| `checkpoint` | DEFAULT, 2 workers, 3 tasks, a checkpoint every 2 results or by time, 1 failed checkpoint in a row, 3 crashes of the master | `FileIsConsistent`; `LossIsBounded`: what a crash undoes; `ImplementsDurablePool` |
| `tasklist` | 4 tasks, buckets of 2, two key functions without a common key, all calls | `TasksAreThere` for every user; `ListIsSound`: a list that says it is in order is, and for one who adds by key the index fits; `SortedAsClaimed` for the latter |
| `swap` | 3 tasks, 1 stays in memory by default, a restart swaps more than 2, 2 crashes, 1 failure | `TasksAreSomewhere`, `CheckpointAndFileAgree`; `StoresAreSorted`: the file, the list and its index, after any swap |
| `hosts` | 2 arch classes, a program with the short and one with the long configuration, 2 events (lost hosts and workers, failed asks and spawns, crashes, new targets) | `AccountAddsUp`, `WorkersAreKnown`, `NeverTooMany`; `PoolFills` |
| `file` | 1 slot, 2 tasks, 1 crash of the master, 1 loss or eviction, 1 odd event | `AnswersFit` without a restart; `NoOrphans`, `AccountAddsUp`; `PoolComesBack` |
| `stats` | 2 virtual ids, 2 classes, 2 tasks, time up to 3, 1 crash | `VidsAreOwn`, `TotalsAddUp`, `ClassesAreRight` |
| `socket` | 2 slots, 3 tasks, a checkpoint every 2 results, 4 jobs, 2 faults or 1 crash of the master | `SlotsAgree`, `RightSender`, `TasksAreKept`, `NothingIsLeft`; `AllIsDone` |
| `exchange` | 5 back ends, 7 applications, 2 workers, 16 items of a user | `MessagesAreRead`, `AnswersAreRight`; `AllDone` |

One run ends in a violation, and is a disagreement of the code with its own
comment, listed under `findings`: in `system_reassign`, under REASSIGN, a suspended
worker's result comes in after its task went back to the todo list, and
`handle_worker_results` reads `t->number` of the NULL that `rmFromRunQ` returned
(`MWDriver.C:1544`), where the comment above it (`:1536`) says that the case is
handled.

## Met on the way

The properties above hold where they are stated.  What the modelling showed beside
them, and what the models therefore exclude, is told here, by component.

Master and workers:

- a running task may be left without a holder (a worker suspended before its INIT);
  the timeout check pops it from `running`, looks for it there again and asserts
  (`MWDriver.C:2133`, which the comment at `:2078` knows "can happen");
- a result that fails its checksum is never sent again, because
  `send_task_to_worker` serves IDLE workers only (`MWDriver.C:1259`);
- a worker suspended and resumed before its INIT is handled becomes IDLE and gets
  work it drops (`MWWorkerID.C:275`);
- the timeout check is made only after a message: if the last active workers are
  silently lost it is never made (`MWDriver.C:698`);
- a task whose second result is ignored is not deleted: the reporting worker
  still counts as its holder (`MWDriver.C:1599`);
- `handle_checksum` prints a field of the worker before it asks whether the worker
  is known (`MWDriver.C:1202`), and `rematch_tasks_to_workers` is given a pointer
  that a handler of the same iteration may have deleted (`:681`).

Checkpoint and swap:

- a checkpoint cut short by a full disk is renamed over the last good one, because
  no write is checked (`MWDriver.C:2749`);
- a crash between the change of the swap file and the checkpoint that goes with it
  (`:3270`, `:3288`; `:3167`, `:3182`) leaves tasks in both or in neither, and a late
  failure of `swap_out_todo_tasks` (`:3144`) loses those it had moved;
- a restart never sets `has_task_swapped` (`:2894`): it ends with tasks still in the
  file, where `MWDriver.h:594` says "done only when all TODO tasks are done";
- the update of `max_task_key` is compiled out; the calls of the swap in the main
  loop are commented out, the public functions are not;
- `sort_task_list` makes a list with the default name (`MWDriver.C:3312`), and so
  with another swap file than the list before;
- a restart with more tasks than `MAX_IN_MEM` writes a checkpoint from within
  (`:2899`), before the back end's structures exist.

Lists:

- with equal keys, `Remove` may tell the wrong bucket, and a bucket keeps a pointer
  to the deleted element (`MWList.h:680`);
- `delete_tasks_worse_than` ends after deleting the head (`MWDriver.C:2192`), where
  `MWDriver.h:366` promises every worse task; it may delete a task that a worker
  still holds, and does not take it out of its classes;
- from a list that is not sorted `getNextTask` takes the largest key
  (`MWDriver.C:1790`), where `MWDriver.h:57` says the lowest;
- `get_todo_head` puts the head back with the default key (`MWDriver.C:3500`), which
  the comment in `return_best_todo_keyval` (`:2537`) warns of, and puts a NULL
  into an empty list;
- `set_task_key_function` calls `sort_task_list` before it sets the function, and so
  sorts nothing, but sets `listsorted` (`MWDriver.C:1915`);
- `IndexedInsert` updates a bucket's `last` by a test that the new links have
  already made false (`MWList.h:957`).

Records, classes and statistics:

- a checkpoint is written inside `handle_worker_results` before `completedtask`: the
  time of the task just finished is not in it (`TotalsAddUp` allows for that);
- a restart joins a task's groups before `addGroup` counts them (`MWTask.C:108`): the
  counts of the classes are zero after it and negative later, so `ClassesAreRight`
  counts tasks until a restart; `MWWorkerID::addGroup` counts a second enrolment;
- `get_next_vid` gives -1 when the ids are used up, which then is an index;
  `get_max_vid` goes by the time a worker was up; a worker given up for a checksum
  error is not gathered.

Condor-PVM:

- a failure of `pvm_addhosts` is not noticed, and the requests stay in the account
  for good (`lost`; the comment at `MWCondorPvmRC.C:354`);
- `sort_exec_class_ratio` exchanges its counters and sorts nothing;
  `current_reqs_execs` has as many places as arch classes and is indexed by exec
  class (`:378`), so `ProgramsAreComplete` assumes no more of these than of those;
- the order of the calls in `get_userinfo` matters, although `MWRMComm.C:319` says
  otherwise; `set_target_num_workers` never calls `hostaddlogic` (`:403`), where
  `MWRMComm.h:271` says that it adapts the pool; with class -1 it sets class 0;
- a failed spawn sets the wrong id (the FIXME at `:319`);
  `worker_last_rites` follows a record after `removeWorker`, against the latter's
  own documentation (`MWDriver.C:796`).

File back end:

- after a restart an old answer under an old number may be read as the new one
  (`MWFileRC.C:270`, `:322`; the comment near `:2377` relies on the opposite), and the
  first task sent to a worker that is starting again is dropped (`MWWorker.C:212`);
- `CheckLogFilesResuscicate` counts one event too few: a resumed worker is given up
  as evicted, where the comment near `:2148` says that seen events are skipped;
  an event of another kind is counted twice (`:2239`), and the next is never seen;
- a job that ends before its start was noticed leaves its request in the account
  (`:1835`), a HOSTDELETE of a worker the driver does not know asks for none;
- a failed `condor_submit` is not noticed; a crash between it and the write of the
  state (`:2532`) leaves a job nobody knows; a master that dies before its first
  checkpoint starts afresh on the files of its predecessor;
- if Condor removes a job after its slot was given away (`LateRemoval` TRUE), its
  event in the slot's log is taken for the new job's, and `NoOrphans` fails.

Socket back end:

- the alarm closes a descriptor (`MWSocketRC.C:106`) that the slot still names; the
  system gives it to the next connection, and the master and a worker may then go
  round for ever: `AllIsDone` is stated where every slot's descriptor is its own;
- by the same way workers that only stall may end the application, where `MWDriver.h:100`
  promises to deal with all possibilities of worker problems.  A second worker gets the
  descriptor of the first, the first comes back and finds its slot occupied, `killWorker`
  closes the descriptor under the second, and a third gets it.  A task meant for the
  second slot now goes to the third worker, and its result is not of the task the driver
  noted for it: QUIT (`MWDriver.C:1526`).  TLC finds this with `MWSocket` by hand, with 3
  slots, `HOSTINC` = 2, 1 task, 2 faults and the invariant `driver.ustat # "QUIT"`; two
  slots are too few for it;
- a connection that breaks between the header and the contents of a message
  (`:1109`, `CutPayload` TRUE) has the header handled with what the buffer holds,
  and the driver ends the application for an unexpected task (`MWDriver.C:1522`);
- with `HOSTINC` below the target (6 unless it is set, `MWRMComm.C:35`) a restart asks
  for too few workers, and a number that was lost, of which the master reads what the
  stack holds, may name a slot that no job was submitted for: the slot is occupied, the
  account of the requests goes wrong, and `SlotsAgree` fails (TLC finds it with
  `HOSTINC` = 1).  It is stated, and proved, for workers that are all submitted at once;
- raising the target after the start outgrows the arrays;
- a master that dies before its first checkpoint leaves its jobs behind.  `read_RMstate`
  is only reached from `restart_from_ckpt` (`MWDriver.C:2800`, `MWRMComm.C:174`), and
  `master_setup` calls that only if it can open a checkpoint file (`MWDriver.C:299`); by
  default none is ever made (`checkpoint_frequency` is 0).  The next master writes over
  the file with the old numbers, so that nobody removes those jobs, to the end and
  after it: `NothingIsLeft` tells them apart (`orphan`), and without that TLC finds it
  violated.  They connect to the new master for the same slots as its own jobs, and
  the two of a slot close each other's connections, which may go on for ever (TLC finds
  that too): `AllIsDone` is stated where no slot is left with two jobs, which claims nothing
  of an application that started from the beginning, and holds for one that had a checkpoint;
- the same is left of a crash between `condor_submit` (`MWSocketRC.C:1292`) and the
  file's next write, which is inside one step of the model.

Messages and applications:

- BlackBox packs the size of a file as a `size_t` (`MWTask_blackbox.C:183`) and reads
  an `int`, on every back end; over PVM it reads on into the next worker's message;
- MPI unpacks six types into the address of its own parameter
  (`MWStaticMPIRC.C:625`) and aborts on a read past the end; a `long` goes through
  `htonl` on a socket (`MWSocketRC.C:1805`); MW-File loses a CHAR that is white space
  (`MWFileRC.C:1994`), a STRING that is empty or begins with a blank, and the digits
  that `%f` does not print.  The Python application therefore never starts over
  MW-File: its pickles have newlines;
- the n-queens worker tests one diagonal (`Worker-nQueens.C:107`): for N = 3, which has
  no solution, it gives (0,2,1), where its README (`:2`) says what attacks what; for
  every N above 5 most of the space is dealt to nobody (`Driver-nQueens.C:89`): of 6 parts
  for N = 6 there is a task for 1, of 49 for N = 7 for 4.  Up to 5 the whole space is one
  task: `AnswersAreRight` has N = 4, and so says nothing of how the space is divided;
- matmul keeps the products of double matrices as integers; newskel, test and the
  Python application checkpoint nothing.

The passing runs state the conditions under which the code keeps its promise:
policy DEFAULT and a notice of every death where liveness is checked in `MWSystem`;
keys of their own in `MWTaskList` and `MWSwap`; no restart in `AnswersFit` and for the
counts of tasks; no lost request where a pool must fill; no message a back end does
not carry in `MWExchange`, where n-queens runs with a board that is one task and has a
solution the worker does not miss; no slot with another's descriptor or with two jobs
in `AllIsDone` of `MWSocket`.

## Bounds

Two workers are enough for every hand-over the handlers distinguish: one task
held by both, a task held by one and wanted by the other, one dead or suspended
and one idle.  In the system runs a third task lets a worker go on to new work
while an old result is still due, and tasks are added while others run
(`InitialTasks` has two of the three); in `driver` a result may come for any task
at any time, and two tasks are enough for that.  Three crashes let the master
restart from a file written after a restart, and from the same file twice.  One
fault and two mishaps let every message race the notices.  `Task`
bounds how many tasks the user may add.

Four tasks and buckets of two (`BUCKET_SIZE` is 4096 in the code) let an index be
built, grow, be balanced by a split, a merge and neither, lose its first, a middle
and its last bucket and go away; keys are distinct in and between the two key
functions, some below and some above the default key of tasks added at an end.
Three tasks let the swap file be made, merged into, read in part and read to its
end, with an index in memory; two crashes let a restart itself be lost.

Two arch classes, an exec class that two of them serve and an arch class that two
exec classes share are the cases `hostaddlogic` tells apart; `MaxEvents` = 2 has a
lost host meet a lost worker, a failed ask, a crash or a new target.  One slot of the
file back end sees every event of one worker's life with a crash in between: the
slots do not share files.  By hand, two crashes (1.2 million states) and two slots
without one were checked too, and the invariant of the proofs, `Inv`, with one slot and
a crash, and with two classes and late removals.  Two ids and two workers make a third arrival take a
used id, and time up to 3 lets a worker be suspended, resumed and saved with time
on each account.  Two slots and four jobs let both workers of the socket back end be
lost, or one lost twice and a restart replace both; three tasks with a checkpoint at
every second let the master die before its first checkpoint, right after it, and with a
result that is not in it; three faults without a crash (1.9 million states, two tasks) were
checked by hand.  The sizes of `exchange` have each example but n-queens, whose small
boards are one task, deal out several tasks, one of them shorter where it can be;
`MaxMessage` = 150 lets one user's message outgrow the socket's buffer.

Deadlock is not checked: the computation may end.  Worker symmetry is used in
`driver` and `checkpoint`: the refinements they check are safety properties of
tasks in which no worker is named.  Symmetry of the classes is used in `stats`.  No
liveness is checked under symmetry.

## Fairness

`FairSystemSpec` assumes weak fairness of: `MasterReceives(w)` (the main loop
receives whatever is there, and no queue is starved), `WorkerRuns(w)` (a process
that is not suspended runs and terminates its task), `Resume(w)` (a suspended
machine comes back), `Expire(w)` (time passes) and `GetHostadd(w)` (the master
asks the resource manager for hosts all along, and it grants those it has).
No fault, suspension, removal or corruption is ever bound to happen.

In `MWHosts` the master is started again, handles what it has received, and PVM
gives the hosts it took the request for (`FairStart`, `FairHandle`, `FairArrival`).
In `MWFile` the master goes on serving its slots and reading the logs, workers go on
while they run, and Condor starts and removes jobs (`MasterIsFair`, `WorkersAreFair`,
`CondorIsFair`).  In `MWSocket` and `MWExchange` the master and every worker go on
while they can, and in the former a master that died is started again, with or without
a checkpoint.  There the condition under which a step can be taken is written out
(`MasterCan`, `JobCan`, ...) instead of `WF`, whose `ENABLED` TLC would
have to find by trying the large steps.

## The proofs

`MWDriverProofs` proves, for any finite sets of workers and tasks, both policies,
with and without timeouts and host deletion:

| Theorem | States |
|---|---|
| `Consistent` | `Spec => []IInv` |
| `TypeCorrect` | `TypeOK` |
| `TasksAreKept` | `NoTaskLost` |
| `ActsOncePerTask` | `ActedOncePerTask` |
| `PointersAreValid` | `NoDanglingTask` |
| `SecondResultsAreKnown` | `LateResultsAreKnown` |
| `FinishesWithAllDone` | `FinishedMeansAllDone` |

and, from there,

| Theorem | States |
|---|---|
| `NobodyWaits` | `Spec => []NoIdleWhileTodo` |
| `DriverImplementsTaskPool` | `Spec => ImplementsTaskPool`: the refinement of `MWTaskPool` |

`MWCheckpointProofs` proves on top of them, for any number of crashes and failed
checkpoints, by count or by time:

| Theorem | States |
|---|---|
| `FileStaysConsistent` | `CkptSpec => []FileIsConsistent` |
| `ConsistentAcrossCrashes` | `CkptSpec => []IInv` |
| `LossStaysBounded` | `CkptSpec => []LossIsBounded` |
| `CheckpointImplementsDurablePool` | `CkptSpec => ImplementsDurablePool`: that of `MWDurablePool` |

`MWSystemProofs` is about the master together with its workers, for any numbers of
crashes, suspensions and deaths, announced or not:

| Theorem | States |
|---|---|
| `SystemIsConsistent` | `SystemSpec => []SystemInv` |
| `WorkersAreInStep` | `SystemSpec => []WorkerIsInStep`: types, and no message its reader does not expect |
| `RunningTasksAreHeld` | `SystemSpec => []RunningIsHeld`: no running task is forgotten |
| `MasterKnows` | `SystemSpec => []MasterKnowsTheWork`: the record of a worker is what it works on |
| `MasterStands` | `SystemSpec => []StandsInOrder`, under DEFAULT: the master does not fall over |
| `OnlyTheUserStops` | `SystemSpec => [](Ordinary => OnlyTheUserStopsIt)`, under DEFAULT and if the user returns OK |

They rest on the assumptions of `MWDriver` (finite worker and task sets, `NoTask`
not a task, known policy and return values), which TLC evaluates in every run.

The inductive invariant `IInv` is `DriverInv(mw)` and what the end of the loop
implies.  The properties are not inductive by themselves.  That a deleted task is not
reachable needs the pointers of *all* ids, also those not in use, because an id
may be given to a new worker (`PointersAreLive`).  That a task is not acted upon
twice needs to know, before the first result, that a task with two holders, or
with a holder while it waits on the todo list, is marked as reassigned
(`ReassignedAreMarked`): that mark is what puts it on `reassigned_tasks_done`
when the first result comes, and this is what stops the second.

The argument follows the code.  `DriverInv` is stated for any record, so each
update (`Send`, `GiveWork`, `AddTasks`, `RmWorkers`, ...), each handler and the
parts of the end of an iteration have a lemma saying that they preserve it;
`NextIInv` combines them, one step per action.

For checkpoints the invariant is `IInv /\ FileIsConsistent`: what is written of a
consistent driver is a consistent file (`SnapshotIsConsistent`), and what is
restored from one is a consistent driver (`RestoredKeeps`).  The steps of the
driver itself need no second proof: each is a step of `Next`.

For the refinements one asks of each update and handler what the pool sees of it:
nothing (the `...Same` lemmas), unless the result of a wanted task is acted upon
(`ActsOn`); so a step of `Next` is a stutter, an `Abort` or a `Complete`.  What
`Complete` says of its outcome needs `GoesOn`: while the loop goes on something is
left to do, and of the idle workers and the todo list one is empty.  The rematch at
the end of an iteration makes that true, and the timeout check keeps it because it
leaves on the todo list only the tasks no idle worker could take over.

What a crash costs is not inductive either: `LossInv` says that the file holds a
multiple of the frequency of results and that each multiple since has failed.

For the system one has to say what the master's record of a worker, the worker's
process and the queues between them may be together.  `InStep` does: a worker whose
INIT is awaited (`FreshInStep`), one that has been sent its initial data
(`BenchInStep`), one that may be given work (`WorkInStep`), and an id without a
record (`GoneInStep`), which may still be a process with messages on their way.
That a suspension of a worker not yet initialised is not in order is why the claim is
made for `Ordinary` behaviours only; the invariant still keeps the types, and
`DriverInv`, in the others.  An iteration is cut in two.  Its handler is about one
worker, and each handler has a lemma on what it does to that one (`OnInitFits`,
`OnResultsFits`, ...).  To every other worker all parts of an iteration are `Calm`: it
is left alone, given up, or, if it is idle, put to work, and `CalmFits` shows once
that this keeps it in step.  `RunningIsHeld` needs in addition that an idle worker has
no task (`Attended`), so that giving it one leaves no task without its holder; the one
place where a holder leaves with its task is the iteration that ends the loop
(`Holding`).

`MasterKnows` reads the work of a worker off its queues.  What is under way is written
as the set of the work in the process, the inbox and the outbox, and the five forms
of `InStep` say what each of them is, so that no more is needed than that invariant.
`OnlyTheUserStops` needs one thing besides: that no handler falls over.  `Steady` says
that the loop has not, `StandsInOrder` that in an ordinary behaviour it has not and
that the status is the user's; a result is handled only from a worker whose running
task it is (`ReportsAreExpected`, from `InStep` again), which is what the check for an
unexpected result and the pointers after it ask for.  Both assumptions of the theorem
are needed.  Under REASSIGN the claim is false (`system_reassign`).  The user's callback
may return QUIT, and then it is the user who stops it; that is `MasterStands`.  The run
checks the claim in behaviours that are not ordinary, too; this is not proved.

`MWSocketProofs` is about the socket back end with its workers, Condor and the driver,
for any number of slots, tasks, jobs, faults and crashes, any frequency of checkpoints,
and for messages that are cut anywhere:

| Theorem | States |
|---|---|
| `SocketIsSound` | `Spec => []SockInv` |
| `SocketTypes` | `SocketTypeOK` |
| `SenderIsRight` | `RightSender` |
| `TasksKept` | `TasksAreKept` |
| `NothingLeft` | `NothingIsLeft` |
| `SlotsAndAccountAgree` | `SlotsAgree`, if `target_num_workers <= HOSTINC` |

A step of the master is a chain of calls on the record `World`, so the invariant is a
predicate on such records and each call has its lemma.  `Sound` is about descriptors.
The descriptor that a slot names may be that of another slot's worker by now, and
nothing of the sort can be excluded; what holds is that `reverseMap` leads from an open
descriptor to a slot that names it (`MapsBack`), and to that of the worker at the other
end as long as this one may still say something (`Heard`), that a connection is that of
a job and says its slot (`Addressed`), and that each job is in the file and a slot's,
is being removed, or is an orphan (`Known`).  `RightSender` needs the first two, and of
orphans as of all jobs; `NothingIsLeft` needs the last, through crashes: a master that dies
leaves its jobs in the file (`Over`), and the next removes what it finds there if it has
a checkpoint (`RestartKeeps`), or else makes orphans of them (`StartOverKeeps`).  `Kept` says in addition to `TasksAreKept` that no
task of a worker waits or is done and that no two workers have one, without which the
loss of a worker could put back a task that is done.  `Accounts` relates the three
counts that nobody compares: the list of the driver, the sockets of the slots and the
outstanding requests.

`MWStatsProofs` is about the ids, the accounts and the classes, for any number of ids,
workers, tasks and classes, and any number of crashes:

| Theorem | States |
|---|---|
| `StatsAreSound` | `Spec => []Inv` |
| `VidsOwned` | `VidsAreOwn` |
| `TotalsAreRight` | `TotalsAddUp` |
| `ClassesCounted` | `ClassesAreRight` |

`TotalsAddUp` is not inductive.  What is kept and what the workers hold adds up at a
worker's death because its account is added to that of its id, whoever had the id
before, and after a restart because the file adds up in itself (`Stored`): it holds what
was gathered from all workers, and the restart begins with none.  What is written and
what is printed leave out the ids above the highest that has been up or, in the file, is
in use; nothing is lost with them because an id without uptime has no other time
either (`Lean`).  That again needs the workers' marks: one whose benchmark is not
over has nothing on its account and no task (`WorkerOK`), and an account gathered in the
very instant its worker began would be a benchmark without uptime; `HasLived`
excludes this, and the proof uses it in every place that gathers.  For `ClassesAreRight` one needs that only idle workers
are refreshed and that an idle worker has no task, or a busy one could lose the class of
its task (`Busy`).  The sums are folds in the model, and `MWSumsProofs` proves
that a fold is its steps one after the other (`FoldUnrolls`, `TotalUnrolls`) and what
happens to a sum when a term changes, goes or is added (`TotalChanged`, `TotalRemoved`,
`TotalAdded`, `TotalMarked`); everything on the accounts rests on these.

`MWHostsProofs` is about the hosts, requests and workers of the Condor-PVM back end, for
any number of classes, first hosts and targets, any number of faults and crashes, and
any programs that tell MW what it asks for (`ProgramsAreComplete`):

| Theorem | States |
|---|---|
| `HostsAreSound` | `Spec => []HInv` |
| `AccountAdds` | `AccountAddsUp` |
| `WorkersKnown` | `WorkersAreKnown` |
| `NotTooMany` | `Spec => NeverTooMany` |

`AccountAddsUp` is nearly inductive (`Account`); the work is in `hostaddlogic`, whose
loops are folds: what one class is given by all arches together is at most what it
misses (`Given`, from the partial sums), each class finds the account as the class
before left it (`AskForGrows`, `AskedGrows`), and what PVM then owes or refuses is what
was asked for (`CallKeepsAccount`, which also bounds what a call adds and so gives
`NeverTooMany`).  `WorkersAreKnown` is not inductive.  A worker is looked for by an id
that may be its own or that of its host, and a lost host is told of once for every
worker that PVM was to watch there, those long off the list included.  What
makes this safe is that ids are never confused (`Named`: the id of a worker is that of no
host, and a notice names nothing that is up) and that of a host that went there are at
least as many notices on their way as there are workers of it on the list (`Runs`):
each notice takes one of them, whichever.  That the driver may meet more notices than
workers is why a notice of nobody (`HandleStranger`) has to change nothing.  Where
there are no exec classes the account is an empty table, which is also what it is
before the start; then nothing is asked for and no worker starts (`NothingToDo`).

`MWFileProofs` is about the file back end with its workers and Condor, for any number of
classes, slots and tasks, any targets, and any number of crashes, faults, refused
submissions and other mishaps:

| Theorem | States |
|---|---|
| `FileIsSound` | `Spec => []Inv` |
| `AccountAdds` | `AccountAddsUp` |
| `NoneOrphaned` | `NoOrphans`, if a removed job is gone when its slot is used again |
| `AnswersAlwaysFit` | `AnswersFit` |

The condition is `~LateRemoval`, and without it `NoOrphans` is false (see "Met on the
way").  The other three hold in both cases.

None of the three properties is inductive.  That a request stays on the account until its
job is reported or `lost` says so needs to know what reading a log can make of a slot,
wherever the reading begins: only a slot whose job was submitted can become one whose job
executes, the SUBMIT comes first and is read while nothing else was, and a slot without a
job stays where it is (`SlotOK`, `ReadIs`).  A master that comes back counts its requests
anew from the logs; that they are right again needs that the file of the jobs agrees with
the logs (`HasLog`), whatever was read of them before.  `NoOrphans` speaks of the memory
or of the file, and a crash exchanges the one for the other: so the invariant keeps both
(`JobOwn`, `Kept`).  It also has to keep that a log holds the events of one job only
(`MemoOwn`), for the master counts all of them when it comes back, and that a job whose
end is in a log has left the queue (`LogOK`), for then the slot may be given away.

`AnswersFit` is about numbers in files that nobody deletes.  `Talk` says, slot by slot,
whose turn it is: how the two counters of the master stand to the state of the driver's
worker (`InTurn`), that no message but the last is unread and that it is the question of
this turn (`Sent`), that what is in the master's waitfile goes no further than what was
asked and the entry with the number it waits for is the answer (`Said`), and that a process
knows the numbers that its phase says (`Process`).  It holds for a process that was evicted
and has begun again, too: the numbers it expects are 0, and the old messages are below
what the master waits for.  In a slot that is given up the talk
goes on, about the last task, until `do_spawn` empties the waitfiles; that the messages
themselves stay on the disk does no harm, because of an unread one nothing is claimed until
its number is written down again.  And if Condor removes the old job late (`LateRemoval`),
two processes use the files of one slot: `AnswersFit` holds all the same, because either
says only what the numbers on the disk have brought it to.

Reading a log, looking through a waitfile and asking for each class in turn are folds;
each is unrolled into its steps once (`ReadUnrolls`, `LookUnrolls`, `AskUnrolls`), and what
it finds is shown from there (`ReadOn`, `LookedFinds`, `HostaddIsGood`).

Only model-checked: every liveness property, which is out of the prover's reach
(`ENABLED`); `OnlyTheUserStopsIt` in behaviours that are not ordinary; and the modules
of lists, swap, the examples and messages, where `MWExchange` declares a `RECURSIVE`
operator.

## Not modelled, and why

- Subtasks and the container tasks: the worker's side is commented out.  NWS tasks:
  disabled in the worker.
- MEASURE, the XML status, logging and the printing of statistics: wording only.
- The order of the workers in their list: `RematchTasksToWorkers` takes any.
- The job checkpointing of `want_checkpointing`, the Windows code of the file back
  end, the `select` version of the socket loop: alternatives that the build does not
  choose.
- The knapsack example: its branch and bound lives by key functions and
  `delete_tasks_worse_than`, which `MWTaskList` has for every user; the skeletons and
  tests of the library, which use nothing the other examples do not.
- The Chirp client, the generated `hello.cpp` and the copies of the headers in
  `mw-build/include`: third-party or derived.

## Running

    tlc -workers 2 -config MCDriver.cfg MCDriver.tla
    tlapm MWDriverProofs.tla
    tlapm MWCheckpointProofs.tla
    tlapm MWSystemProofs.tla
    tlapm MWSocketProofs.tla
    tlapm MWSumsProofs.tla
    tlapm MWStatsProofs.tla
    tlapm MWHostsProofs.tla
    tlapm MWFileProofs.tla

The largest run, `socket`, has 1,177,512 distinct states and takes about two and a half
minutes; `system_pvm` takes about a minute and a half.
