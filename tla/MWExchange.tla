----------------------------- MODULE MWExchange -----------------------------
(***************************************************************************)
(* A whole run of an application over a back end, message by message: the  *)
(* greeting, the initial data and the benchmark, the tasks and their       *)
(* results.  The back end and the application are chosen at the start; the *)
(* messages are packed and unpacked as MWWire says, and what is packed,    *)
(* read and computed is that of MWExamples.                                *)
(*                                                                         *)
(* Nobody is lost here: MWSystem, MWFile and MWSocket have the faults.  A  *)
(* worker and the master take turns, so that between the two there is at   *)
(* most one message: network[w], empty or of one element.  Under PVM the master  *)
(* takes all that have arrived out of it at once, and handles them one     *)
(* after the other (recv_buf_list, here `drained').                        *)
(*                                                                         *)
(* A message carries its items besides the bytes: nobody reads them but    *)
(* the properties.                                                         *)
(***************************************************************************)
EXTENDS MWExamples, FiniteSets

CONSTANTS
  Worker       \* the workers; the first is the only one of MW-Independent

VARIABLES
  rmc, app,    \* the back end and the application
  memory,      \* ind_sendbuf
  network,     \* for each worker, the message under way to it or from it
  drained,     \* the messages of recv_buf_list that are not handled yet
  master,      \* what the driver knows of each worker: its state and task
  worker,      \* each worker: its phase, and the initial data it has read
  todo,        \* the numbers of the tasks nobody has
  acted,       \* the numbers of the completed tasks, in order
  state,       \* what the application's driver has made of the results
  halt,        \* "no", or how the run ended
  seen,        \* the last message read: what was packed and what was read
  astray       \* a message was sent that the back end does not carry

vars == <<rmc, app, memory, network, drained, master, worker, todo, acted, state, halt,
          seen, astray>>

Application ==
  {[name |-> n, item |-> 0] : n \in {"pyphi", "fib", "nqueens", "matmul", "largest", "blackbox"}}
    \cup {[name |-> "user", item |-> i] : i \in DOMAIN UserItems}
Master == 0
Crew == IF rmc = "Ind" THEN {CHOOSE w \in Worker : TRUE} ELSE Worker
Tasks == InitTasks(app)
WorkerHost == Text(<<"worker">>)
MasterHost == Text(<<"master">>)
Benchmarks == app.name = "fib"

Message(from, to, tag, items) ==
  [from |-> from, to |-> to, tag |-> tag, items |-> items,
   buf |-> IF rmc = "Ind" THEN EmptyBuffer ELSE Packed(rmc, EmptyBuffer, items)]

(* initsend, the packs and send; the message received is gone from `net'. *)
Send(net, from, to, tag, items) ==
  /\ network' = [net EXCEPT ![IF to = Master THEN from ELSE to] = Append(@, Message(from, to, tag, items))]
  /\ memory' = IF rmc = "Ind" THEN Packed(rmc, memory, items) ELSE memory
  /\ astray' = (astray \/ ~CarriesAll(rmc, items))
SendNothing(net) == network' = net /\ UNCHANGED <<memory, astray>>

-----------------------------------------------------------------------------
(* Reading *)

(* recv: the message, ready to be read; the file of MW-File can be broken. *)
Opening(m, rest) ==
  CASE rmc = "File" ->
         {[ok |-> f.ok, buf |-> Opened(EmptyBuffer, f.list, <<>>)] :
            f \in IF m.to = Master THEN HandleFinishedWorker(m.buf) ELSE HandleWork(m.buf)}
    [] rmc = "Ind" -> {[ok |-> TRUE, buf |-> Opened(memory, <<>>, <<>>)]}
    [] OTHER -> {[ok |-> TRUE, buf |-> Opened(m.buf, <<>>, rest)]}

Under(w, to) == network[w] # <<>> /\ Head(network[w]).to = to
(* Mutant of Taken: whatever else has arrived is dropped. *)
TakenAll(ws) == [w \in Crew |-> IF w \in ws \/ Under(w, Master) THEN <<>> ELSE network[w]]
Taken(ws) == [w \in Crew |-> IF w \in ws THEN <<>> ELSE network[w]]
ForMaster == {w \in Crew : Under(w, Master)}
(* What the master can receive: PVM's recv_all takes everything that is     *)
(* there, in any order, behind what it had.                                 *)
Incoming ==
  IF rmc = "PVM"
  THEN {[m |-> Head(q), rest |-> Tail(q), net |-> Taken(ForMaster)] :
           q \in {drained \o [i \in DOMAIN ws |-> Head(network[ws[i]])] : ws \in SetToSeqs(ForMaster)}
                  \ {<<>>}}
  ELSE {[m |-> Head(network[w]), rest |-> <<>>, net |-> Taken({w})] : w \in ForMaster}

From(acc, i) == SubSeq(acc, i, Len(acc))

(* The calls of unpack for a message, as far as what was read determines    *)
(* them: worker_init, do_benchmark_cmd, handle_benchmark, worker_mainloop   *)
(* and handle_worker_results.                                               *)
Layout(tag, w, acc) ==
  LET text == <<Read("STRING", 1)>>
      double == <<Read("DOUBLE", 1)>>
  IN CASE tag = "INIT" -> text
       [] tag = "INIT_REPLY" ->
            LET init == text \o UnpackInitData(app, From(acc, 2))
                flag == Len(init) + 1
            IN init \o OneInt
                 \o (IF Len(acc) >= flag /\ acc[flag][1] = 1 THEN UnpackWork(app, <<>>) ELSE <<>>)
       [] tag = "BENCH_RESULTS" ->
            OneInt \o (IF acc # <<>> /\ acc[1][1] = -1 THEN <<>> ELSE double)
       [] tag = "DO_THIS_WORK" -> TwoInts \o UnpackWork(app, From(acc, 3))
       [] tag = "RESULTS" ->
            OneInt \o double \o double
              \o (IF acc # <<>> /\ acc[1][1] = master[w].task
                  THEN UnpackResults(app, From(acc, 4), Tasks[master[w].task]) ELSE <<>>)

(* The values of each call, whether it found them, and the buffer after.    *)
RECURSIVE ReadOn(_, _, _)
ReadOn(tag, w, r) ==
  LET layout == Layout(tag, w, r.vals)
      Unpacked(got) == [vals |-> Append(r.vals, got.vals), oks |-> Append(r.oks, got.ok),
                        buf |-> got.buf]
  IN IF Len(r.vals) = Len(layout) THEN r
     ELSE Once(LAMBDA n : ReadOn(tag, w, n),
               Once(Unpacked, Unpack(rmc, r.buf, layout[Len(r.vals) + 1])))
(* What a process can make of a message: whether the file was in order, and *)
(* what it reads.                                                           *)
Readings(m, w, rest) ==
  {[ok |-> o.ok, r |-> ReadOn(m.tag, w, [vals |-> <<>>, oks |-> <<>>, buf |-> o.buf])] :
     o \in Opening(m, rest)}

(* MPI aborts the whole program when it reads past the end. *)
Aborts(r) == rmc = "MPI" /\ \E i \in DOMAIN r.oks : ~r.oks[i]
(* A pickle nothing can be made of. *)
Unreadable(pickle) == app.name = "pyphi" /\ UnpackPickle(pickle) = Garbage

Seen(m, r) == seen' = [tag |-> m.tag, items |-> m.items, vals |-> r.vals]

-----------------------------------------------------------------------------
Init ==
  /\ rmc \in BackEnd
  /\ app \in Application
  /\ memory = EmptyBuffer
  /\ network = [w \in Crew |-> <<>>]
  /\ drained = <<>>
  /\ master = [w \in Crew |-> [state |-> IF rmc = "Ind" THEN "NONE" ELSE "INITIALIZING", task |-> 0]]
  /\ worker = [w \in Crew |-> [phase |-> "starting", init |-> <<>>]]
  /\ todo = [i \in DOMAIN Tasks |-> i]
  /\ acted = <<>>
  /\ state = InitialState(app)
  /\ halt = "no"
  /\ seen = [tag |-> "none", items |-> <<>>, vals |-> <<>>]
  /\ astray = (app.name = "blackbox")

Running == halt = "no" /\ UNCHANGED <<rmc, app>>

(* ControlPanel of MW-Independent: the master is told of its worker.        *)
Hostadd(w) ==
  /\ Running
  /\ master[w].state = "NONE"
  /\ master' = [master EXCEPT ![w].state = "INITIALIZING"]
  /\ UNCHANGED <<memory, network, drained, worker, todo, acted, state, halt, seen, astray>>

GreetMaster(w) ==
  /\ Running
  /\ worker[w].phase = "starting" /\ master[w].state # "NONE"
  /\ worker' = [worker EXCEPT ![w].phase = "waiting"]
  /\ Send(network, w, Master, "INIT", <<WorkerHost>>)
  /\ UNCHANGED <<drained, master, todo, acted, state, halt, seen>>

DoBenchmarkCmd(w) ==
  /\ Running
  /\ worker[w].phase = "waiting"
  /\ Under(w, w)
  /\ \E o \in Readings(Head(network[w]), w, <<>>) :
       LET m == Head(network[w])
           r == o.r
           init == SubSeq(r.vals, 2, 1 + Len(UnpackInitData(app, From(r.vals, 2))))
           net == Taken({w})
           failed == ~r.oks[1] \/ (app.name = "pyphi" /\ Unreadable(init[2]))
       IN /\ Seen(m, r)
          /\ \/ /\ o.ok /\ ~Aborts(r) /\ ~failed
                /\ worker' = [worker EXCEPT ![w] = [phase |-> "ready", init |-> init]]
                /\ Send(net, w, Master, "BENCH_RESULTS",
                        <<Num(0), Double(IF Benchmarks THEN 31415900 ELSE 0)>>)
                /\ UNCHANGED halt
             \/ /\ o.ok /\ ~Aborts(r) /\ failed
                /\ worker' = [worker EXCEPT ![w].phase = "ready"]
                /\ Send(net, w, Master, "BENCH_RESULTS", <<Num(-1)>>)
                /\ UNCHANGED halt
             \/ /\ o.ok /\ Aborts(r)
                /\ halt' = "aborted"
                /\ SendNothing(net)
                /\ UNCHANGED worker
             \/ /\ ~o.ok                                    \* CHECKSUM_ERROR
                /\ worker' = [worker EXCEPT ![w].phase = "dead"]
                /\ SendNothing(net)
                /\ UNCHANGED halt
  /\ UNCHANGED <<drained, master, todo, acted, state>>

WorkerMainloopOneshot(w) ==
  /\ Running
  /\ worker[w].phase = "ready"
  /\ Under(w, w)
  /\ \E o \in Readings(Head(network[w]), w, <<>>) :
       LET m == Head(network[w])
           r == o.r
           work == From(r.vals, 3)
           net == Taken({w})
           dies == ~o.ok \/ ~r.oks[1] \/ ~r.oks[2] \/ (app.name = "pyphi" /\ Unreadable(work[2]))
       IN /\ Seen(m, r)
          /\ \/ /\ ~Aborts(r) /\ ~dies
                /\ Send(net, w, Master, "RESULTS",
                        <<Num(r.vals[2][1]), Double(Unit), Double(Unit)>>
                          \o Results(app, worker[w].init, work))
                /\ UNCHANGED <<worker, halt>>
             \/ /\ ~Aborts(r) /\ dies
                /\ worker' = [worker EXCEPT ![w].phase = "dead"]
                /\ SendNothing(net)
                /\ UNCHANGED halt
             \/ /\ Aborts(r)
                /\ halt' = "aborted"
                /\ SendNothing(net)
                /\ UNCHANGED worker
  /\ UNCHANGED <<drained, master, todo, acted, state>>

-----------------------------------------------------------------------------
(* The master *)

(* rematch_tasks_to_workers and give_work: the next task for w, which is idle. *)
GiveWork(net, w) ==
  IF todo = <<>>
  THEN /\ master' = [master EXCEPT ![w] = [state |-> "IDLE", task |-> 0]]
       /\ SendNothing(net)
       /\ UNCHANGED todo
  ELSE /\ master' = [master EXCEPT ![w] = [state |-> "WORKING", task |-> Head(todo)]]
       /\ Send(net, Master, w, "DO_THIS_WORK",
               <<Num(0), Num(Head(todo))>> \o PackWork(app, Tasks[Head(todo)]))
       /\ todo' = Tail(todo)

HaltsAs(how, net) ==
  /\ halt' = how
  /\ SendNothing(net)
  /\ UNCHANGED <<master, todo, acted, state>>

WorkerInit(w) ==
  /\ Running
  /\ \E in \in Incoming : in.m.from = w /\ in.m.tag = "INIT" /\ \E o \in Readings(in.m, w, in.rest) :
       LET r == o.r
       IN /\ Seen(in.m, r)
          /\ drained' = r.buf.rest
          /\ master' = [master EXCEPT ![w].state = "BENCHMARKING"]
          /\ Send(in.net, Master, w, "INIT_REPLY",
                  <<MasterHost>> \o PackWorkerInitData(app)
                    \o (IF Benchmarks THEN <<Num(1)>> \o PackWork(app, FibBenchmark) ELSE <<Num(0)>>))
  /\ UNCHANGED <<worker, todo, acted, state, halt>>

HandleBenchmark(w) ==
  /\ Running
  /\ \E in \in Incoming : in.m.from = w /\ in.m.tag = "BENCH_RESULTS" /\ \E o \in Readings(in.m, w, in.rest) :
       LET r == o.r
       IN /\ Seen(in.m, r)
          /\ drained' = r.buf.rest
          /\ \/ /\ r.vals[1][1] # -1
                /\ GiveWork(in.net, w)
                /\ UNCHANGED <<acted, state, halt>>
             \/ /\ r.vals[1][1] = -1
                /\ HaltsAs("quit", in.net)
  /\ UNCHANGED worker

HandleWorkerResults(w) ==
  /\ Running
  /\ \E in \in Incoming : in.m.from = w /\ in.m.tag = "RESULTS" /\ \E o \in Readings(in.m, w, in.rest) :
       LET r == o.r
           t == master[w].task
           result == From(r.vals, 4)
       IN /\ Seen(in.m, r)
          /\ drained' = r.buf.rest
          /\ \/ /\ ~Aborts(r) /\ r.vals[1][1] = t
                /\ ~(app.name = "pyphi" /\ Unreadable(result[2]))
                /\ acted' = Append(acted, t)
                /\ state' = ActOnCompletedTask(app, state, Tasks[t], result)
                /\ GiveWork(in.net, w)
                /\ UNCHANGED halt
             \/ /\ ~Aborts(r) /\ r.vals[1][1] # t
                /\ HaltsAs("quit", in.net)
             \/ /\ Aborts(r) \/ (r.vals[1][1] = t /\ app.name = "pyphi" /\ Unreadable(result[2]))
                /\ HaltsAs("aborted", in.net)
  /\ UNCHANGED worker

(* The main loop ends when there is no task left. *)
Finish ==
  /\ Running
  /\ todo = <<>> /\ \A w \in Crew : master[w].task = 0
  /\ \E w \in Crew : master[w].state = "IDLE"
  /\ halt' = "finished"
  /\ UNCHANGED <<memory, network, drained, master, worker, todo, acted, state, seen, astray>>

WorkerStep(w) == GreetMaster(w) \/ DoBenchmarkCmd(w) \/ WorkerMainloopOneshot(w)
MasterStep(w) == Hostadd(w) \/ WorkerInit(w) \/ HandleBenchmark(w) \/ HandleWorkerResults(w)

Next ==
  \/ \E w \in Crew : Hostadd(w)
  \/ \E w \in Crew : GreetMaster(w)
  \/ \E w \in Crew : DoBenchmarkCmd(w)
  \/ \E w \in Crew : WorkerMainloopOneshot(w)
  \/ \E w \in Crew : WorkerInit(w)
  \/ \E w \in Crew : HandleBenchmark(w)
  \/ \E w \in Crew : HandleWorkerResults(w)
  \/ Finish

(* What a process waits for: its turn to start, or a message. *)
WorkerCanStep(w) ==
  halt = "no" /\ \/ worker[w].phase = "starting" /\ master[w].state # "NONE"
                 \/ worker[w].phase \in {"waiting", "ready"} /\ Under(w, w)
MasterCanStep ==
  halt = "no" /\ \/ \E w \in Crew : master[w].state = "NONE"
                 \/ ForMaster # {} \/ drained # <<>>
                 \/ /\ todo = <<>> /\ \A w \in Crew : master[w].task = 0
                    /\ \E w \in Crew : master[w].state = "IDLE"
AWorkerSteps(w) == w \in Crew /\ WorkerStep(w)
TheMasterSteps == Finish \/ \E w \in Crew : MasterStep(w)

(* Weak fairness of each process, with ENABLED spelt out: each worker's and  *)
(* the master's loop goes on.                                                *)
Fairness ==
  /\ []<>~MasterCanStep \/ []<><<TheMasterSteps>>_vars
  /\ \A w \in Worker : []<>~(w \in Crew /\ WorkerCanStep(w)) \/ []<><<AWorkerSteps(w)>>_vars

Spec == Init /\ [][Next]_vars /\ Fairness

-----------------------------------------------------------------------------
(* Properties *)

ExchangeTypeOK ==
  /\ rmc \in BackEnd /\ app \in Application
  /\ \A i \in DOMAIN drained : drained[i].from \in Crew
  /\ \A w \in Crew : Len(network[w]) <= 1
  /\ \A w \in Crew :
       /\ worker[w].phase \in {"starting", "waiting", "ready", "dead"}
       /\ master[w].state \in {"NONE", "INITIALIZING", "BENCHMARKING", "IDLE", "WORKING"}
       /\ master[w].task \in DOMAIN Tasks \cup {0}
  /\ ToSet(todo) \subseteq DOMAIN Tasks /\ ToSet(acted) \subseteq DOMAIN Tasks
  /\ halt \in {"no", "finished", "quit", "aborted"}

(* What an application packs is what the other side reads, item by item, in  *)
(* every message and over every back end, until there is one that the back   *)
(* end does not carry: the reads of every example are in step with its packs.*)
(* And no message is handled twice, dropped, or read as the rest of another: *)
(* a worker that is neither starting nor idle has one under way, to it or    *)
(* from it.  (BlackBox is set apart: it packs a size_t and reads an int, on  *)
(* past the end of what it packed, and PVM then gives it the next worker's   *)
(* message.)                                                                 *)
MessagesAreRead ==
  /\ ExchangeTypeOK
  /\ ~astray =>
       /\ seen.vals = [i \in DOMAIN seen.items |-> seen.items[i].vals]
       /\ halt = "no" =>
            \A w \in Crew :
              \/ worker[w].phase \in {"starting", "dead"}
              \/ worker[w].phase = "ready" /\ master[w].state = "IDLE"
              \/ Len(network[w]) + Len(SelectSeq(drained, LAMBDA m : m.from = w)) = 1

(* A placement in which no queen attacks another: not in the same column nor *)
(* on either diagonal.                                                       *)
Peaceful(p) ==
  \A i, j \in DOMAIN p : i < j => p[j] # p[i] /\ p[j] - p[i] # j - i /\ p[i] - p[j] # j - i
IsFibonacci(s) == \A i \in DOMAIN s : i > 2 => s[i] = s[i - 1] + s[i - 2]

(* Each task is acted on once, and what the driver has is what the tasks     *)
(* acted on so far should have given, by a definition of the answer that     *)
(* knows nothing of the worker: the results in the order they came, the      *)
(* Fibonacci sequence of every pair, a placement of queens, the rows of the  *)
(* product, the greatest number.                                             *)
AnswersAreRight ==
  ~astray =>
    /\ IsInjective(acted)
    /\ CASE app.name = "pyphi" -> state = [i \in DOMAIN acted |-> RunOf(acted[i])]
         [] app.name = "fib" ->
              /\ {r[1] : r \in state} = {Tasks[t] : t \in ToSet(acted)}
              /\ \A r \in state : /\ SubSeq(r[2], 1, 2) = SubSeq(r[1], 1, 2)
                                  /\ Len(r[2]) = SeqLen /\ IsFibonacci(r[2])
         [] app.name = "nqueens" ->
              Len(acted) = Len(Tasks) => Len(state) = BoardSize /\ Peaceful(state)
         [] app.name = "matmul" ->
              state = [i \in 1..RowsA |-> [j \in 1..ColsB |-> IF i \in ToSet(acted) THEN RowsB ELSE 0]]
         [] app.name = "largest" ->
              state = CHOOSE n \in ToSet(Job) :
                        LET had == {Job[1]} \cup UNION {ToSet(Tasks[t]) : t \in ToSet(acted)}
                        IN n \in had /\ \A k \in had : k <= n
         [] app.name = "user" -> state = [i \in DOMAIN acted |-> <<UserItems[app.item].vals>>]
         [] OTHER -> TRUE

(* Every application whose messages the back end carries comes to its end.   *)
AllDone == <>(astray \/ (halt = "finished" /\ Len(acted) = Len(Tasks)))
=============================================================================
