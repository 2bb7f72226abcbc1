------------------------------- MODULE MWHosts -------------------------------
(***************************************************************************)
(* How the master gets hosts with the Condor-PVM back end                  *)
(* (MWCondorPvmRC.C): hostaddlogic asks PVM for hosts of an arch class,    *)
(* and writes down for which exec class; the hosts come one by one, as     *)
(* HOSTADD messages; each gets a worker of the class it was asked for.     *)
(* Hosts and workers are lost, and replaced.  How many workers of an exec  *)
(* class there are is counted by the driver, in each of its handlers.      *)
(*                                                                         *)
(* Abstractions.                                                           *)
(*  - What comes from workers is MWDriver's.  That a handler there calls   *)
(*    hostaddlogic, and that the user changes the target, are actions.     *)
(*  - recv_all moves what PVM has received to recv_buf_list, in order, and *)
(*    drops the message that was in process: one queue, inbox.             *)
(*  - PVM puts a worker on any host of the arch class, and on none if it   *)
(*    fails.  pvm_delhosts goes by a name the worker has reported, and may *)
(*    not find the host.                                                   *)
(*  - sort_exec_class_ratio exchanges its loop counters and sorts nothing: *)
(*    the exec classes are served in their order.                          *)
(***************************************************************************)
EXTENDS MWRMComm, MWSums

CONSTANTS
  Programs,    \* the sequences of calls get_userinfo may make
  PvmArches,   \* the number of arch classes PVM knows
  FirstHosts,  \* the arch classes of the hosts there are at the start, a sequence
  Targets,     \* the targets the user may set later
  MaxEvents    \* how often he does; hosts and workers lost, asks and spawns that
               \* fail, crashes

ASSUME HostBounds == /\ PvmArches \in Nat /\ MaxEvents \in Nat
                     /\ FirstHosts \in Seq(0 .. PvmArches - 1) /\ Targets \subseteq Nat

(* The user tells MW of as many arch classes as PVM has, or nothing starts; he *)
(* has no more exec classes than arch classes (current_reqs_execs has the size *)
(* of the latter), fills every slot of worker_executables, and wants no        *)
(* negative numbers of anything.  The calls keep a target for each exec class. *)
ASSUME ProgramsAreComplete ==
  \A p \in Programs : LET r == Configured(p) IN
    /\ r \in RMComm /\ Len(r.exec_class_target) = r.exec_classes
    /\ r.num_arches = PvmArches /\ r.exec_classes <= PvmArches
    /\ \A i \in DOMAIN r.worker_executables :
         /\ r.worker_executables[i] \in Executable
         /\ r.worker_executables[i].exec_class < r.exec_classes
         /\ r.worker_executables[i].arch_class < r.num_arches

VARIABLES
  rm,            \* the RMComm layer's configuration
  saved,         \* what a new master process starts with
  hostadd_reqs,  \* of exec class c and arch class a; NULL until the workers start
  submit_list,   \* the hosts asked for, in order
  workers,       \* the driver's list
  num_workers,   \* MW_exec_class_num_workers
  hosts,         \* PVM: the hosts that are up
  tasks,         \* PVM: the workers that run
  watched,       \* PVM: the workers it was told to watch, their hosts still up
  pending,       \* PVM: the hosts asked for that have not come, by arch class
  inbox,         \* PVM's messages to the master
  lost,          \* history: the hosts this process asked for that PVM refused
  changes, faults

wanted == <<rm, saved, changes>>
account == <<hostadd_reqs, submit_list, pending, lost, faults>>
pool == <<workers, num_workers, hosts, tasks, watched>>
hostVars == <<wanted, account, pool, inbox>>

PvmClasses == 0 .. PvmArches - 1
Request == [exec_class : Nat, arch_class : Nat]
WorkerID == [id1 : Nat, id2 : Nat, exec_class : Nat]
Host == [id : Nat, arch_class : PvmClasses]
Spawned == [id : Nat, host : Nat]
HostAdd(a) == [tag |-> "HOSTADD", what |-> a]
Notice == [tag : {"HOSTADD", "HOSTDELETE", "TASKEXIT"}, what : Nat]

NULL == <<>>
None == [a \in PvmClasses |-> 0]
Sum(n, f) == Total([i \in 1 .. n |-> f[i - 1]])
Requests(reqs, c) == Sum(PvmArches, reqs[c])
OfArch(r, reqs, a) == Sum(r.exec_classes, [c \in ExecClasses(r) |-> reqs[c][a]])

HostsTypeOK ==
  /\ rm \in RMComm /\ saved \in RMComm
  /\ \/ hostadd_reqs = NULL
     \/ hostadd_reqs \in [ExecClasses(rm) -> [PvmClasses -> Nat]]
  /\ submit_list \in Seq(Request) /\ workers \in Seq(WorkerID)
  /\ num_workers \in [ExecClasses(rm) -> Nat]
  /\ hosts \subseteq Host /\ tasks \subseteq Spawned /\ watched \subseteq Spawned
  /\ pending \in [PvmClasses -> Nat] /\ lost \in [PvmClasses -> Nat]
  /\ inbox \in Seq(Notice)
  /\ changes \in Nat /\ faults \in Nat /\ changes + faults <= MaxEvents

(* PVM's ids of hosts and workers are all different.  One that nobody knows any *)
(* more may come again.                                                         *)
KnownIds ==
  {h.id : h \in hosts} \cup {t.id : t \in watched \cup tasks}
  \cup {workers[i].id1 : i \in DOMAIN workers} \cup {workers[i].id2 : i \in DOMAIN workers}
  \cup {inbox[i].what : i \in {j \in DOMAIN inbox : inbox[j].tag # "HOSTADD"}}

FreshIds(n) ==
  LET new == (1 .. Cardinality(KnownIds) + n) \ KnownIds
  IN  SubSeq(SetToSeq(new), 1, n)

Init ==
  /\ \E p \in Programs : rm = Configured(p)
  /\ saved = rm /\ hostadd_reqs = NULL /\ submit_list = <<>>
  /\ workers = <<>> /\ num_workers = [c \in ExecClasses(rm) |-> 0]
  /\ hosts = {[id |-> i, arch_class |-> FirstHosts[i]] : i \in DOMAIN FirstHosts}
  /\ tasks = {} /\ watched = {} /\ inbox = <<>>
  /\ pending = None /\ lost = None /\ changes = 0 /\ faults = 0

-----------------------------------------------------------------------------
(* hostaddlogic. *)

NumExecs(r, c) ==
  Cardinality({i \in DOMAIN r.worker_executables :
                 r.worker_executables[i].exec_class = c})

(* How many hosts arch class a may still be asked for. *)
Room(r, reqs, a) ==
  LET out == OfArch(r, reqs, a) IN IF out > r.hostinc THEN 0 ELSE 2 * r.hostinc - out

(* Mutant of Missing: the requests that are out are not taken off. *)
MissingUnasked(r, num, reqs, c) == Target(r, c) - num[c]

(* The workers of exec class c that are neither there nor asked for. *)
Missing(r, num, reqs, c) == Target(r, c) - (num[c] + Requests(reqs, c))

(* What is asked for exec class c of each arch class: the first gives what it *)
(* can, the next what is still wanted.                                        *)
AskedForClass(r, num, reqs, c) ==
  LET req == IF Requests(reqs, c) > NumExecs(r, c) * r.hostinc THEN 0
             ELSE Min({2 * r.hostinc, Max({0, Missing(r, num, reqs, c)})})
      room == [a \in PvmClasses |-> IF HasExecutable(r, c, a) THEN Room(r, reqs, a) ELSE 0]
  IN  [a \in PvmClasses |->
         Min({room[a], Max({0, req - Sum(a, room)})})]

(* howmany[a] more requests for exec class c and each arch class a. *)
RequestsFor(c, howmany) ==
  FoldLeft(\o, <<>>, [i \in 1 .. PvmArches |->
    [k \in 1 .. howmany[i - 1] |-> [exec_class |-> c, arch_class |-> i - 1]]])

(* Exec class c asks: what is in s, and its requests. *)
AskFor(r, num, s, c) ==
  LET given == AskedForClass(r, num, s.reqs, c)
  IN  [ reqs |-> [s.reqs EXCEPT ![c] = [a \in PvmClasses |-> @[a] + given[a]]],
        submit |-> s.submit \o RequestsFor(c, given),
        howmany |-> [a \in PvmClasses |-> s.howmany[a] + given[a]] ]

(* The classes in their order; each sees the requests of those before it. *)
Asked(r, num, reqs, submit) ==
  FoldLeft(LAMBDA s, c : AskFor(r, num, s, c),
           [reqs |-> reqs, submit |-> submit, howmany |-> None],
           [i \in 1 .. r.exec_classes |-> i - 1])

(* ask_for_host: PVM takes all asks, or, for an arch class, fewer; pvm_addhosts *)
(* says so, and nobody looks.  f is the number of faults so far.                *)
AskForHosts(howmany, f) ==
  \/ /\ pending' = [a \in PvmClasses |-> pending[a] + howmany[a]]
     /\ faults' = f
     /\ UNCHANGED lost
  \/ /\ changes + f < MaxEvents /\ faults' = f + 1
     /\ \E a \in PvmClasses : \E taken \in 0 .. howmany[a] - 1 :
          /\ pending' = [b \in PvmClasses |->
                           pending[b] + IF b = a THEN taken ELSE howmany[b]]
          /\ lost' = [lost EXCEPT ![a] = @ + howmany[a] - taken]

(* call_hostaddlogic.  hostaddlogic returns 0: no worker is ever removed. *)
CallHostaddlogic(num, reqs, submit, f) ==
  \E s \in {Asked(rm, num, reqs, submit)} :
    /\ hostadd_reqs' = s.reqs /\ submit_list' = s.submit
    /\ AskForHosts(s.howmany, f)

-----------------------------------------------------------------------------
(* The master. *)

(* choose_exec_class: the first exec class with an executable for arch class a. *)
ChosenClasses(a) ==
  {c \in ExecClasses(rm) : /\ HasExecutable(rm, c, a)
                           /\ \A d \in 0 .. c - 1 : ~HasExecutable(rm, d, a)}

HostsOf(a) == {h \in hosts : h.arch_class = a}

(* Mutant of Watched: PVM is not told to watch the new worker. *)
NotWatched(t) == UNCHANGED watched

(* setup_notifies *)
Watched(t) == watched' = watched \cup {t}

(* A worker of exec class c on host h. *)
NewWorker(id, h, c) == [id1 |-> id, id2 |-> h.id, exec_class |-> c]

(* master_setup, for a new run and for a restart: a worker for each host PVM   *)
(* has, where PVM likes; those that do not start (not in up) are left out.     *)
StartWorkers(up, place) ==
  LET first == SetToSeq(up)
      ids == FreshIds(Len(first))
      new == [i \in DOMAIN first |->
                NewWorker(ids[i], place[first[i]],
                          CHOOSE c \in ChosenClasses(first[i].arch_class) : TRUE)]
      started == {[id |-> w.id1, host |-> w.id2] : w \in Range(new)}
      num == [c \in ExecClasses(rm) |->
                Cardinality({i \in DOMAIN new : new[i].exec_class = c})]
      none == [c \in ExecClasses(rm) |-> None]
      f == faults + Cardinality({h \in hosts \ up : ChosenClasses(h.arch_class) # {}})
  IN  /\ changes + f <= MaxEvents
      /\ workers' = new /\ num_workers' = num
      /\ tasks' = started /\ watched' = started
      /\ CallHostaddlogic(num, none, <<>>, f)
      /\ UNCHANGED <<wanted, hosts, inbox>>

Start ==
  /\ hostadd_reqs = NULL
  /\ \E up \in SUBSET {h \in hosts : ChosenClasses(h.arch_class) # {}} :
       \E place \in [up -> hosts] :
          /\ \A h \in up : place[h].arch_class = h.arch_class
          /\ StartWorkers(up, place)

Receive(tag) ==
  /\ hostadd_reqs # NULL
  /\ inbox # <<>> /\ Head(inbox).tag = tag

(* find_exec_class: the first request for arch class a, 0 if there is none. *)
FirstRequest(a) ==
  SelectInSeq(submit_list, LAMBDA e : e.arch_class = a)

(* Mutant of Met: the request is met twice. *)
MetTwice(i) ==
  [hostadd_reqs EXCEPT ![submit_list[i].exec_class][submit_list[i].arch_class] = @ - 2]

(* start_worker: the request is met, whether or not the worker starts.  There is *)
(* a request for every HOSTADD, as AccountAddsUp says: the branch of the code    *)
(* for a host that nobody asked for is never taken.                              *)
Met(i) ==
  [hostadd_reqs EXCEPT ![submit_list[i].exec_class][submit_list[i].arch_class] = @ - 1]

HandleHostAdd ==
  /\ Receive("HOSTADD")
  /\ LET a == Head(inbox).what
         i == FirstRequest(a)
         c == submit_list[i].exec_class
     IN  /\ i # 0
         /\ \E h \in HostsOf(a) :
              LET num == [num_workers EXCEPT ![c] = @ + 1]
                  w == NewWorker(FreshIds(1)[1], h, c)
                  t == [id |-> w.id1, host |-> w.id2]
              IN  /\ workers' = Append(workers, w) /\ num_workers' = num
                  /\ tasks' = tasks \cup {t} /\ Watched(t)
                  /\ CallHostaddlogic(num, Met(i), RemoveAt(submit_list, i), faults)
  /\ inbox' = Tail(inbox)
  /\ UNCHANGED <<wanted, hosts>>

(* The spawn fails: there is no host any more, or PVM has a problem. *)
HandleHostAddInVain ==
  /\ Receive("HOSTADD")
  /\ LET a == Head(inbox).what
         i == FirstRequest(a)
         f == IF HostsOf(a) = {} THEN faults ELSE faults + 1
     IN  /\ i # 0 /\ changes + f <= MaxEvents
         /\ CallHostaddlogic(num_workers, Met(i), RemoveAt(submit_list, i), f)
  /\ inbox' = Tail(inbox)
  /\ UNCHANGED <<wanted, pool>>

(* rmWorker: the first worker with this id, its own or that of its host. *)
Known(id) == SelectInSeq(workers, LAMBDA w : w.id1 = id \/ w.id2 = id)

HandleStranger ==
  /\ Receive("HOSTDELETE") \/ Receive("TASKEXIT")
  /\ Known(Head(inbox).what) = 0
  /\ inbox' = Tail(inbox)
  /\ UNCHANGED <<wanted, account, pool>>

(* Mutant of RmWorker: nobody asks for another host. *)
RmWorkerQuietly(i) ==
  /\ workers' = RemoveAt(workers, i)
  /\ num_workers' = [num_workers EXCEPT ![workers[i].exec_class] = @ - 1]
  /\ UNCHANGED account

(* The worker leaves the list; hostPostmortem counts it out. *)
RmWorker(i) ==
  LET num == [num_workers EXCEPT ![workers[i].exec_class] = @ - 1]
  IN  /\ workers' = RemoveAt(workers, i)
      /\ num_workers' = num
      /\ CallHostaddlogic(num, hostadd_reqs, submit_list, faults)

HandleHostDelete ==
  /\ Receive("HOSTDELETE")
  /\ Known(Head(inbox).what) # 0
  /\ RmWorker(Known(Head(inbox).what))
  /\ inbox' = Tail(inbox)
  /\ UNCHANGED <<wanted, hosts, tasks, watched>>

(* What PVM tells of host h when it goes: who exits, who was watched there. *)
OnHost(T, h) == {t \in T : t.host = h.id}

NoticesOfLoss(h) ==
  LET exits == SetToSeq({[tag |-> "TASKEXIT", what |-> t.id] :
                           t \in OnHost(tasks \cap watched, h)})
      deletes == [i \in 1 .. Cardinality(OnHost(watched, h)) |->
                    [tag |-> "HOSTDELETE", what |-> h.id]]
  IN  {exits \o deletes, deletes \o exits}

HostGone(h, messages) ==
  /\ hosts' = hosts \ {h}
  /\ tasks' = tasks \ OnHost(tasks, h) /\ watched' = watched \ OnHost(watched, h)
  /\ \E n \in NoticesOfLoss(h) : inbox' = messages \o n

(* handle_taskexit: removeWorker deletes the host as well, if PVM finds it. *)
HandleTaskExit ==
  /\ Receive("TASKEXIT")
  /\ LET i == Known(Head(inbox).what)
     IN  /\ i # 0
         /\ RmWorker(i)
         /\ \/ \E h \in hosts : h.id = workers[i].id2 /\ HostGone(h, Tail(inbox))
            \/ /\ inbox' = Tail(inbox)
               /\ UNCHANGED <<hosts, tasks, watched>>
  /\ UNCHANGED wanted

(* A user's callback. *)
ChangeTarget ==
  /\ hostadd_reqs # NULL /\ changes + faults < MaxEvents
  /\ changes' = changes + 1
  /\ \E c \in ExecClasses(rm), n \in Targets : rm' = SetTargetNumWorkers(rm, c, n)
  /\ UNCHANGED <<saved, account, pool, inbox>>

WriteCheckpoint ==
  /\ hostadd_reqs # NULL
  /\ saved' = Restored(rm)
  /\ UNCHANGED <<rm, changes, account, pool, inbox>>

(* The master dies, and its workers and requests with it; some hosts stay. *)
Crash ==
  /\ hostadd_reqs # NULL /\ changes + faults < MaxEvents
  /\ faults' = faults + 1
  /\ rm' = saved
  /\ hostadd_reqs' = NULL /\ submit_list' = <<>>
  /\ workers' = <<>> /\ num_workers' = [c \in ExecClasses(saved) |-> 0]
  /\ \E left \in SUBSET hosts : hosts' = left
  /\ tasks' = {} /\ watched' = {} /\ inbox' = <<>> /\ pending' = None /\ lost' = None
  /\ UNCHANGED <<saved, changes>>

-----------------------------------------------------------------------------
(* PVM. *)

HostArrives ==
  /\ \E a \in PvmClasses :
       /\ pending[a] > 0
       /\ pending' = [pending EXCEPT ![a] = @ - 1]
       /\ hosts' = hosts \cup {[id |-> FreshIds(1)[1], arch_class |-> a]}
       /\ inbox' = Append(inbox, HostAdd(a))
  /\ UNCHANGED <<wanted, hostadd_reqs, submit_list, lost, faults, workers, num_workers,
                 tasks, watched>>

HostDies ==
  /\ changes + faults < MaxEvents /\ faults' = faults + 1
  /\ hostadd_reqs # NULL
  /\ \E h \in hosts : HostGone(h, inbox)
  /\ UNCHANGED <<wanted, hostadd_reqs, submit_list, pending, lost, workers,
                 num_workers>>

TaskDies ==
  /\ changes + faults < MaxEvents /\ faults' = faults + 1
  /\ \E t \in tasks :
       /\ tasks' = tasks \ {t}
       /\ inbox' = IF t \in watched THEN Append(inbox, [tag |-> "TASKEXIT", what |-> t.id])
                    ELSE inbox
  /\ UNCHANGED <<wanted, hostadd_reqs, submit_list, pending, lost, workers,
                 num_workers, hosts, watched>>

Handle ==
  \/ HandleHostAdd \/ HandleHostAddInVain
  \/ HandleHostDelete \/ HandleTaskExit \/ HandleStranger

Next ==
  \/ Start \/ HandleHostAdd \/ HandleHostAddInVain
  \/ HandleHostDelete \/ HandleTaskExit \/ HandleStranger
  \/ ChangeTarget \/ WriteCheckpoint \/ Crash
  \/ HostArrives \/ HostDies \/ TaskDies

(* Weak fairness of what the master does and of PVM, with the conditions under *)
(* which they can act written out.                                             *)
FairStart == []<>(hostadd_reqs # NULL) \/ []<><<Start>>_hostVars
FairHandle == []<>(hostadd_reqs = NULL \/ inbox = <<>>) \/ []<><<Handle>>_hostVars
FairArrival == []<>(pending = None) \/ []<><<HostArrives>>_hostVars

Spec == Init /\ [][Next]_hostVars /\ FairStart /\ FairHandle /\ FairArrival

-----------------------------------------------------------------------------
(* Properties *)

Count(s, x) == Cardinality({i \in DOMAIN s : s[i] = x})

(* The account of outstanding requests is that of the hosts PVM has yet to    *)
(* give, has announced, or has refused: no answer is counted twice, and none  *)
(* is forgotten.  submit_list has just those requests, class by class.        *)
AccountAddsUp ==
  hostadd_reqs # NULL =>
    /\ \A a \in PvmClasses :
         OfArch(rm, hostadd_reqs, a) = pending[a] + Count(inbox, HostAdd(a)) + lost[a]
    /\ \A c \in ExecClasses(rm), a \in PvmClasses :
         hostadd_reqs[c][a] = Count(submit_list, [exec_class |-> c, arch_class |-> a])

(* The driver's list is right, although a lost worker is told of twice, by    *)
(* TASKEXIT and by HOSTDELETE, and a lost host once for every worker it ever  *)
(* had: its count of an exec class is that of the list, every worker that     *)
(* runs is on it, and every worker on it runs, or news of its end is on the   *)
(* way.  rmWorker goes by an id that workers may share.                       *)
WorkersAreKnown ==
  /\ HostsTypeOK
  /\ \A c \in ExecClasses(rm) :
       num_workers[c] = Cardinality({i \in DOMAIN workers : workers[i].exec_class = c})
  /\ \A t \in tasks : \E i \in DOMAIN workers : workers[i].id1 = t.id
  /\ \A i \in DOMAIN workers :
       \/ \E t \in tasks : t.id = workers[i].id1
       \/ \E j \in DOMAIN inbox :
            /\ inbox[j].tag # "HOSTADD"
            /\ inbox[j].what \in {workers[i].id1, workers[i].id2}

(* Where the workers of a class and its requests grow in number, they do not *)
(* exceed its target: a lost host is not replaced twice.                     *)
GrowsToTarget ==
  hostadd_reqs # NULL /\ hostadd_reqs' # NULL =>
    \A c \in ExecClasses(rm) :
      LET n == num_workers[c] + Requests(hostadd_reqs, c)
          m == (num_workers[c] + Requests(hostadd_reqs, c))'
      IN  m > n => m <= Target(rm', c)

NeverTooMany == [][GrowsToTarget]_hostVars

(* If PVM refuses no request and the user changes no target, the workers the *)
(* user wants are there in the end, whatever hosts and workers were lost.    *)
Full ==
  \A c \in ExecClasses(rm) :
    (\E a \in PvmClasses : HasExecutable(rm, c, a)) => num_workers[c] >= Target(rm, c)

PoolFills == <>[](changes = 0 /\ lost = None) => <>[]Full
=============================================================================
