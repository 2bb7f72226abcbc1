--------------------------- MODULE MWSystemProofs ---------------------------
(***************************************************************************)
(* Proofs about the master together with its workers.  What the master     *)
(* thinks of a worker, where the worker's process is and what is on its    *)
(* way between them must fit: InStep says how.  A handler touches one      *)
(* worker in a way of its own, the one it is called for; to every other    *)
(* worker an iteration is Calm: it is left alone, given up, or, if it is   *)
(* idle, put to work.                                                      *)
(***************************************************************************)
EXTENDS MWSystem, MWDriverProofs

-----------------------------------------------------------------------------
(* What fits together. *)

Only(q, S) == \A i \in DOMAIN q : q[i].tag \in S

(* A worker whose INIT the master waits for. *)
FreshInStep(m, w, p, in, out, news) ==
  /\ p \in {"starting", "waiting", "dead"} /\ m.runningtask[w] = NoTask
  /\ \A i \in DOMAIN news : news[i] # "HOSTSUSPEND"
  /\ out \in {<<>>, <<Report("INIT")>>}
  /\ p = "starting" => in = <<>> /\ out = <<>>
  /\ p = "waiting" => in = <<>> /\ out # <<>>

(* A worker that has been sent its initial data. *)
BenchInStep(m, w, p, in, out) ==
  /\ p \in {"waiting", "ready", "dead"} /\ m.runningtask[w] = NoTask
  /\ m.state[w] \in {"BENCHMARKING", "SUSPENDED"}
  /\ out = <<>> \/ \E okay \in BOOLEAN : out = <<BenchResults(okay)>>
  /\ p = "waiting" => in = <<Control("INIT_REPLY")>> /\ out = <<>>
  /\ p = "ready" => in = <<>>

(* What w owes the master: nothing, if it is thought to run nothing; else the *)
(* result of that one task, which has been sent or is still to be worked on.  *)
Owes(m, w, p, in, out) ==
  LET t == m.runningtask[w]
  IN  \/ t = NoTask /\ out = <<>> /\ (p = "ready" => in = <<>>)
      \/ t # NoTask /\ out = <<Result(t)>> /\ (p = "ready" => in = <<>>)
      \/ t # NoTask /\ out = <<>> /\ (p = "ready" => in = <<DoThisWork(t)>>)

(* A worker that may be given work.  The master that falls over a result has *)
(* read it, but not taken note of it.                                        *)
WorkInStep(m, w, p, in, out) ==
  /\ p \in {"ready", "dead"} /\ m.state[w] \in {"IDLE", "WORKING", "SUSPENDED"}
  /\ m.state[w] = "IDLE" => m.runningtask[w] = NoTask
  /\ Only(out, {"RESULTS"})
  /\ p = "ready" => Only(in, {"DO_THIS_WORK"})
  /\ m.halt # "crashed" => Owes(m, w, p, in, out)

(* An id without a record: nobody, or a process the master has given up. *)
GoneInStep(p, in, out, news) ==
  /\ p \in ProcState
  /\ p = "none" => in = <<>> /\ out = <<>> /\ news = <<>>
  /\ p = "starting" => Only(in, {"KILL_YOURSELF"})
  /\ p = "waiting" => /\ Only(in, {"INIT_REPLY", "KILL_YOURSELF"})
                      /\ \A i \in DOMAIN in : i > 1 => in[i].tag # "INIT_REPLY"
  /\ p = "ready" => Only(in, {"DO_THIS_WORK", "KILL_YOURSELF"})

InStep(m, w, p, in, out, news) ==
  IF w \notin m.workers THEN GoneInStep(p, in, out, news)
  ELSE IF m.state[w] = "INITIALIZING" THEN FreshInStep(m, w, p, in, out, news)
  ELSE IF m.isBenchMark[w] THEN BenchInStep(m, w, p, in, out)
  ELSE WorkInStep(m, w, p, in, out)

(* The same within an iteration, which may have sent something to w. *)
Fits(m, w, p, in, out, news) == InStep(m, w, p, in \o m.sent[w], out, news)

-----------------------------------------------------------------------------
(* Queues. *)

LEMMA OnlyAppend ==
  ASSUME NEW q \in Seq(Message), NEW x \in Message, NEW S, Only(q, S), x.tag \in S
  PROVE  Only(Append(q, x), S)
BY DEF Only

LEMMA OnlyTail ==
  ASSUME NEW X, NEW q \in Seq(X), q # <<>>, NEW S, Only(q, S)
  PROVE  Tail(q) \in Seq(X) /\ Head(q).tag \in S /\ Only(Tail(q), S)
BY DEF Only

LEMMA ConcatAppend ==
  ASSUME NEW q \in Seq(Message), NEW s \in Seq(Message), NEW x \in Message
  PROVE  q \o Append(s, x) = Append(q \o s, x)
OBVIOUS

LEMMA ConcatEmpty ==
  ASSUME NEW X, NEW q \in Seq(X)
  PROVE  q \o <<>> = q
OBVIOUS

LEMMA AppendToNone ==
  ASSUME NEW x
  PROVE  Append(<<>>, x) = <<x>>
OBVIOUS

LEMMA TailOfOne ==
  ASSUME NEW x
  PROVE  Tail(<<x>>) = <<>>
OBVIOUS

(* A worker that is given up. *)
LEMMA StepGone ==
  ASSUME NEW m, NEW w, NEW p, NEW in \in Seq(Message), NEW out, NEW news,
         InStep(m, w, p, in, out, news)
  PROVE  GoneInStep(p, in, out, news) /\ (w \in m.workers => p # "none")
<1>1. CASE w \notin m.workers
  BY <1>1 DEF InStep
<1>2. CASE w \in m.workers /\ FreshInStep(m, w, p, in, out, news)
  BY <1>2 DEF FreshInStep, GoneInStep, Only, ProcState
<1>3. CASE w \in m.workers /\ BenchInStep(m, w, p, in, out)
  <2>1. Control("INIT_REPLY").tag = "INIT_REPLY"
    BY DEF Control
  <2>2. p \in {"waiting", "ready", "dead"}
    BY <1>3 DEF BenchInStep
  <2>3. p = "ready" => Only(in, {"DO_THIS_WORK", "KILL_YOURSELF"})
    BY <1>3 DEF BenchInStep, Only
  <2>4. p = "waiting" => /\ Only(in, {"INIT_REPLY", "KILL_YOURSELF"})
                         /\ \A i \in DOMAIN in : i > 1 => in[i].tag # "INIT_REPLY"
    BY <1>3, <2>1 DEF BenchInStep, Only
  <2> QED
    BY <2>2, <2>3, <2>4 DEF GoneInStep, ProcState
<1>4. CASE w \in m.workers /\ WorkInStep(m, w, p, in, out)
  BY <1>4 DEF WorkInStep, GoneInStep, Only, ProcState
<1> QED
  BY <1>1, <1>2, <1>3, <1>4 DEF InStep

LEMMA GoneKilled ==
  ASSUME NEW p, p # "none", NEW in \in Seq(Message), NEW out, NEW news,
         GoneInStep(p, in, out, news)
  PROVE  GoneInStep(p, Append(in, Control("KILL_YOURSELF")), out, news)
<1> DEFINE x == Control("KILL_YOURSELF")
<1>1. x \in Message /\ x.tag = "KILL_YOURSELF"
  BY DEF Control, Message
<1> HIDE DEF x
<1>2. p = "starting" => Only(Append(in, x), {"KILL_YOURSELF"})
  BY <1>1, OnlyAppend DEF GoneInStep
<1>3. p = "waiting" => /\ Only(Append(in, x), {"INIT_REPLY", "KILL_YOURSELF"})
                       /\ \A i \in DOMAIN Append(in, x) :
                             i > 1 => Append(in, x)[i].tag # "INIT_REPLY"
  BY <1>1, OnlyAppend DEF GoneInStep
<1>4. p = "ready" => Only(Append(in, x), {"DO_THIS_WORK", "KILL_YOURSELF"})
  BY <1>1, OnlyAppend DEF GoneInStep
<1> QED
  BY <1>2, <1>3, <1>4 DEF GoneInStep, x

-----------------------------------------------------------------------------
(* What an iteration does to a worker it is not about. *)

Untouched(m, n, w) ==
  /\ w \in n.workers <=> w \in m.workers
  /\ n.state[w] = m.state[w] /\ n.isBenchMark[w] = m.isBenchMark[w]
  /\ n.runningtask[w] = m.runningtask[w] /\ n.sent[w] = m.sent[w]
  /\ m.halt = "crashed" => n.halt = "crashed"

GivenUp(m, n, w) == w \notin n.workers /\ n.sent[w] = m.sent[w]

PutToWork(m, n, w) ==
  /\ w \in n.workers /\ w \in Idle(m) /\ n.state[w] = "WORKING"
  /\ n.isBenchMark[w] = m.isBenchMark[w]
  /\ \E t \in Task : /\ n.runningtask[w] = t
                     /\ n.sent[w] = Append(m.sent[w], DoThisWork(t))
  /\ m.halt = "crashed" => n.halt = "crashed"

Calm(m, n, w) == Untouched(m, n, w) \/ GivenUp(m, n, w) \/ PutToWork(m, n, w)

LEMMA CalmFits ==
  ASSUME NEW m, DriverInv(m), NEW n, NEW w \in Worker, Calm(m, n, w),
         NEW p, NEW in \in Seq(Message), NEW out, NEW news, Fits(m, w, p, in, out, news)
  PROVE  Fits(n, w, p, in, out, news)
<1> DEFINE q == in \o m.sent[w]
<1>1. m.sent[w] \in Seq(Message) /\ q \in Seq(Message)
  BY DEF DriverInv, DriverState
<1>2. InStep(m, w, p, q, out, news)
  BY DEF Fits
<1>3. CASE Untouched(m, n, w)
  <2>1. InStep(n, w, p, q, out, news)
    BY <1>2, <1>3 DEF Untouched, InStep, FreshInStep, BenchInStep, WorkInStep, Owes
  <2> QED
    BY <1>3, <2>1 DEF Untouched, Fits
<1>4. CASE GivenUp(m, n, w)
  BY <1>1, <1>2, <1>4, StepGone DEF GivenUp, InStep, Fits
<1>5. CASE PutToWork(m, n, w)
  <2>1. PICK t \in Task : /\ n.runningtask[w] = t
                         /\ n.sent[w] = Append(m.sent[w], DoThisWork(t))
    BY <1>5 DEF PutToWork
  <2> DEFINE x == DoThisWork(t)
  <2>2. x \in Message /\ x.tag = "DO_THIS_WORK"
    BY DEF DoThisWork, Message
  <2> HIDE DEF x, q
  <2>3. WorkInStep(m, w, p, q, out) /\ ~m.isBenchMark[w]
    BY <1>2, <1>5 DEF PutToWork, Idle, InState, InStep, BenchInStep
  <2>4. p = "ready" => Only(Append(q, x), {"DO_THIS_WORK"})
    BY <1>1, <2>2, <2>3, OnlyAppend DEF WorkInStep
  <2>5. InStep(n, w, p, Append(q, x), out, news)
    <3>1. ASSUME n.halt # "crashed" PROVE Owes(n, w, p, Append(q, x), out)
      <4>1. Owes(m, w, p, q, out) /\ m.runningtask[w] = NoTask
        BY <1>5, <2>3, <3>1 DEF PutToWork, WorkInStep, Idle, InState
      <4>2. out = <<>> /\ (p = "ready" => q = <<>>)
        BY <4>1 DEF Owes
      <4>3. p = "ready" => Append(q, x) = <<x>>
        BY <4>2, AppendToNone
      <4> QED
        BY <2>1, <4>2, <4>3, NoTaskIsNoTask DEF Owes, x
    <3>2. WorkInStep(n, w, p, Append(q, x), out)
      BY <1>5, <2>3, <2>4, <3>1 DEF PutToWork, WorkInStep
    <3> QED
      BY <1>5, <2>3, <3>2 DEF PutToWork, InStep
  <2>6. in \o n.sent[w] = Append(q, x)
    <3>1. in \o Append(m.sent[w], x) = Append(in \o m.sent[w], x)
      BY <1>1, <2>2, ConcatAppend
    <3> QED
      BY <2>1, <3>1 DEF x, q
  <2> QED
    BY <2>5, <2>6 DEF Fits
<1> QED
  BY <1>3, <1>4, <1>5 DEF Calm

LEMMA SendFits ==
  ASSUME NEW m, DriverInv(m), NEW w \in Worker, NEW v \in Worker, v # w, NEW msg
  PROVE  Untouched(m, Send(m, v, msg), w)
BY DEF Send, Untouched, DriverInv, DriverState

LEMMA RmWorkersCalm ==
  ASSUME NEW m, DriverInv(m), NEW K \in SUBSET Worker, NEW w \in Worker
  PROVE  Calm(m, RmWorkers(m, K), w)
<1> DEFINE n == RmWorkers(m, K)
<1>1. /\ n.workers = m.workers \ K /\ n.sent = m.sent /\ n.halt = m.halt
      /\ n.state = [v \in Worker |-> IF v \in K THEN "EXITED" ELSE m.state[v]]
      /\ n.runningtask = [v \in Worker |-> IF v \in K THEN NoTask ELSE m.runningtask[v]]
      /\ n.isBenchMark = [v \in Worker |-> IF v \in K THEN FALSE ELSE m.isBenchMark[v]]
  BY DEF RmWorkers, DriverInv, DriverState
<1> HIDE DEF n
<1>2. ASSUME w \in K PROVE GivenUp(m, n, w)
  BY <1>1, <1>2 DEF GivenUp
<1>3. ASSUME w \notin K PROVE Untouched(m, n, w)
  BY <1>1, <1>3 DEF Untouched
<1>4. Calm(m, n, w)
  BY <1>2, <1>3 DEF Calm
<1> QED
  BY <1>4 DEF n

LEMMA HostPostmortemCalm ==
  ASSUME NEW m, DriverInv(m), NEW K \in SUBSET Worker, NEW w \in Worker
  PROVE  Calm(m, HostPostmortem(m, K), w)
<1> DEFINE k == RmWorkers(m, K)
           n == HostPostmortem(m, K)
<1>1. DriverInv(k) /\ Calm(m, k, w)
  BY RmWorkersKeeps, RmWorkersCalm
<1> HIDE DEF k
<1> DEFINE O == {t \in m.running : (\E v \in K : m.runningtask[v] = t) /\ Holders(k, t) = {}}
<1>2. n = [k EXCEPT !.running = @ \ O, !.todo = @ \cup O]
  BY DEF HostPostmortem, k
<1> HIDE DEF n, O
<1>3. /\ n.workers = k.workers /\ n.sent = k.sent /\ n.state = k.state /\ n.halt = k.halt
      /\ n.runningtask = k.runningtask /\ n.isBenchMark = k.isBenchMark
  BY <1>1, <1>2 DEF DriverInv, DriverState
<1>4. Calm(m, n, w)
  <2>1. Untouched(m, k, w) => Untouched(m, n, w)
    BY <1>3 DEF Untouched
  <2>2. GivenUp(m, k, w) => GivenUp(m, n, w)
    BY <1>3 DEF GivenUp
  <2>3. PutToWork(m, k, w) => PutToWork(m, n, w)
    BY <1>3, Zenon DEF PutToWork
  <2> QED
    BY <1>1, <2>1, <2>2, <2>3 DEF Calm
<1> QED
  BY <1>4 DEF n

LEMMA MarkForRemovalCalm ==
  ASSUME NEW m, DriverInv(m), NEW K \in SUBSET Worker, NEW w \in Worker
  PROVE  Calm(m, MarkForRemoval(m, K), w)
BY DEF MarkForRemoval, Calm, Untouched, DriverInv, DriverState

(* Idle workers and suspended ones are given up, others are marked. *)
LEMMA DeleteHostsParts ==
  ASSUME NEW m, NEW h, NEW n \in DeleteHosts(m, h)
  PROVE  \E K \in SUBSET Idle(m), L \in SUBSET InState(m, "SUSPENDED"), D \in SUBSET m.workers :
            n = MarkForRemoval(HostPostmortem(RmWorkers(m, K), L), D)
<1>1. PICK K \in Walks(Idle(m), h) :
        n \in UNION { { MarkForRemoval(HostPostmortem(RmWorkers(m, K), L), D) :
                           D \in LET left == h - Cardinality(K) - Cardinality(L)
                                     unmarked == {w \in m.workers \ (K \cup L) : ~m.doomed[w]}
                                 IN  {E \in SUBSET unmarked :
                                        Cardinality(E) = IF Cardinality(unmarked) < left
                                                         THEN Cardinality(unmarked) ELSE left} }
                       : L \in Walks(InState(m, "SUSPENDED"), h - Cardinality(K)) }
  BY DEF DeleteHosts
<1>2. PICK L \in Walks(InState(m, "SUSPENDED"), h - Cardinality(K)) :
        \E D \in SUBSET m.workers : n = MarkForRemoval(HostPostmortem(RmWorkers(m, K), L), D)
  BY <1>1
<1>3. K \in SUBSET Idle(m) /\ L \in SUBSET InState(m, "SUSPENDED")
  BY DEF Walks
<1> QED
  BY <1>2, <1>3

LEMMA CallHostaddlogicFits ==
  ASSUME NEW m, DriverInv(m), NEW n \in CallHostaddlogic(m), NEW w \in Worker,
         NEW p, NEW in \in Seq(Message), NEW out, NEW news, Fits(m, w, p, in, out, news)
  PROVE  Fits(n, w, p, in, out, news)
<1>1. CASE \E h : n \in DeleteHosts(m, h)
  <2>1. PICK K, L, D \in SUBSET m.workers :
          n = MarkForRemoval(HostPostmortem(RmWorkers(m, K), L), D)
    BY <1>1, DeleteHostsShape
  <2>2. K \in SUBSET Worker /\ L \in SUBSET Worker /\ D \in SUBSET Worker
    BY DEF DriverInv, DriverState
  <2> DEFINE j == RmWorkers(m, K)
             k == HostPostmortem(j, L)
  <2>3. DriverInv(j) /\ Fits(j, w, p, in, out, news)
    BY <2>2, RmWorkersKeeps, RmWorkersCalm, CalmFits
  <2> HIDE DEF j
  <2>4. DriverInv(k) /\ Fits(k, w, p, in, out, news)
    BY <2>2, <2>3, HostPostmortemKeeps, HostPostmortemCalm, CalmFits
  <2> HIDE DEF k
  <2>5. Fits(MarkForRemoval(k, D), w, p, in, out, news)
    BY <2>2, <2>4, MarkForRemovalCalm, CalmFits
  <2> QED
    BY <2>1, <2>5 DEF k, j
<1> QED
  BY <1>1 DEF CallHostaddlogic

LEMMA AssignCalm ==
  ASSUME NEW m, DriverInv(m), NEW D \in SUBSET Idle(m), NEW f \in [D -> m.todo],
         NEW w \in Worker
  PROVE  Calm(m, Assign(m, f), w)
<1> DEFINE n == Assign(m, f)
<1>1. /\ n.workers = m.workers /\ n.isBenchMark = m.isBenchMark /\ n.halt = m.halt
      /\ n.state = [v \in Worker |-> IF v \in D THEN "WORKING" ELSE m.state[v]]
      /\ n.runningtask = [v \in Worker |-> IF v \in D THEN f[v] ELSE m.runningtask[v]]
      /\ n.sent = [v \in Worker |-> IF v \in D THEN Append(m.sent[v], DoThisWork(f[v]))
                                     ELSE m.sent[v]]
  BY DEF Assign, GiveWork, DriverInv, DriverState
<1>2. m.todo \subseteq Task /\ D \subseteq m.workers
  BY DEF DriverInv, DriverState, Idle, InState
<1> HIDE DEF n
<1>3. ASSUME w \in D PROVE PutToWork(m, n, w)
  <2>1. /\ f[w] \in Task /\ n.runningtask[w] = f[w]
        /\ n.sent[w] = Append(m.sent[w], DoThisWork(f[w]))
    BY <1>1, <1>2, <1>3
  <2> QED
    BY <1>1, <1>2, <1>3, <2>1 DEF PutToWork
<1>4. ASSUME w \notin D PROVE Untouched(m, n, w)
  BY <1>1, <1>4 DEF Untouched
<1>5. Calm(m, n, w)
  BY <1>3, <1>4 DEF Calm
<1> QED
  BY <1>5 DEF n

LEMMA SendTaskToWorkerFits ==
  ASSUME NEW m, DriverInv(m), NEW v \in m.workers, NEW n \in SendTaskToWorker(m, v),
         NEW w \in Worker, NEW p, NEW in \in Seq(Message), NEW out, NEW news,
         Fits(m, w, p, in, out, news)
  PROVE  Fits(n, w, p, in, out, news)
<1>1. CASE m.state[v] # "IDLE" \/ m.todo = {}
  BY <1>1 DEF SendTaskToWorker
<1>2. CASE m.state[v] = "IDLE" /\ m.todo # {}
  <2>1. PICK t \in m.todo : n = Assign(m, [x \in {v} |-> t])
    BY <1>2 DEF SendTaskToWorker
  <2> DEFINE f == [x \in {v} |-> t]
  <2>2. {v} \in SUBSET Idle(m) /\ f \in [{v} -> m.todo]
    BY <1>2 DEF Idle, InState
  <2> HIDE DEF f
  <2>3. Calm(m, Assign(m, f), w)
    BY <2>2, AssignCalm
  <2> QED
    BY <2>1, <2>3, CalmFits DEF f
<1> QED
  BY <1>1, <1>2

LEMMA RematchFits ==
  ASSUME NEW m, DriverInv(m), NEW n \in RematchTasksToWorkers(m),
         NEW w \in Worker, NEW p, NEW in \in Seq(Message), NEW out, NEW news,
         Fits(m, w, p, in, out, news)
  PROVE  Fits(n, w, p, in, out, news)
<1>1. PICK f \in Matchings(Idle(m), m.todo) : n = Assign(m, f)
  BY DEF RematchTasksToWorkers
<1>2. PICK D \in SUBSET Idle(m) : f \in [D -> m.todo]
  BY DEF Matchings
<1>3. Calm(m, n, w)
  BY <1>1, <1>2, AssignCalm
<1> QED
  BY <1>3, CalmFits

LEMMA ReassignTasksOfCalm ==
  ASSUME NEW m, DriverInv(m), NEW T \in SUBSET Worker, NEW n \in ReassignTasksOf(m, T),
         NEW w \in Worker
  PROVE  Calm(m, n, w)
<1> DEFINE onRunQ == {v \in T : m.runningtask[v] \in m.running}
           late == {v \in onRunQ : m.runningtask[v] \notin m.reassigned_tasks_done}
           TaskOf(S) == {m.runningtask[v] : v \in S}
           rest(f) == [m EXCEPT
                         !.running = (@ \ TaskOf(onRunQ \ late)) \ TaskOf(late \ Image(f)),
                         !.todo = @ \cup TaskOf(late \ Image(f)),
                         !.reassigned_tasks = @ \cup TaskOf(late)]
           next(f) == [o \in DOMAIN f |-> m.runningtask[f[o]]]
<1>1. PICK f \in Matchings(Idle(m), late) : n = CheckRunQ(GiveWork(rest(f), next(f)))
  BY DEF ReassignTasksOf
<1>2. PICK D \in SUBSET Idle(m) : f \in [D -> late]
  BY <1>1 DEF Matchings
<1>3. next(f) \in [D -> Task]
  BY <1>2 DEF DriverInv, DriverState
<1> DEFINE k == rest(f)
           g == GiveWork(k, next(f))
<1>4. /\ k.workers = m.workers /\ k.state = m.state /\ k.isBenchMark = m.isBenchMark
      /\ k.runningtask = m.runningtask /\ k.sent = m.sent /\ DOMAIN k = DOMAIN m
      /\ k.halt = m.halt
  BY DEF DriverInv, DriverState
<1> HIDE DEF k, next, late, onRunQ, TaskOf
<1>5. /\ g.workers = m.workers /\ g.isBenchMark = m.isBenchMark /\ DOMAIN g = DOMAIN m
      /\ g.halt = m.halt
      /\ g.state = [v \in Worker |-> IF v \in D THEN "WORKING" ELSE m.state[v]]
      /\ g.runningtask = [v \in Worker |-> IF v \in D THEN next(f)[v] ELSE m.runningtask[v]]
      /\ g.sent = [v \in Worker |-> IF v \in D THEN Append(m.sent[v], DoThisWork(next(f)[v]))
                                     ELSE m.sent[v]]
  BY <1>3, <1>4 DEF GiveWork, DriverInv, DriverState
<1> HIDE DEF g
<1>6. n \in {g, Crash(g)}
  BY <1>1 DEF CheckRunQ, g, k
<1>7. /\ n.workers = g.workers /\ n.state = g.state /\ n.isBenchMark = g.isBenchMark
      /\ n.runningtask = g.runningtask /\ n.sent = g.sent
      /\ g.halt = "crashed" => n.halt = "crashed"
  BY <1>5, <1>6 DEF Crash, DriverInv, DriverState
<1>8. D \subseteq m.workers
  BY DEF Idle, InState
<1>9. CASE w \in D
  BY <1>3, <1>5, <1>7, <1>8, <1>9 DEF Calm, PutToWork
<1>10. CASE w \notin D
  BY <1>5, <1>7, <1>10 DEF Calm, Untouched
<1> QED
  BY <1>5, <1>7, <1>9, <1>10

LEMMA ConcludeCalm ==
  ASSUME NEW m, DriverInv(m), NEW w \in Worker
  PROVE  Calm(m, Conclude(m), w)
BY DEF Conclude, Calm, Untouched, DriverInv, DriverState

LEMMA EndOfIterationFits ==
  ASSUME NEW m, DriverInv(m), NEW due, NEW late, NEW n \in EndOfIteration(m, due, late),
         NEW w \in Worker, NEW p, NEW in \in Seq(Message), NEW out, NEW news,
         Fits(m, w, p, in, out, news)
  PROVE  Fits(n, w, p, in, out, news)
<1>1. CASE m.halt = "crashed"
  BY <1>1 DEF EndOfIteration
<1>2. CASE m.halt # "crashed"
  <2>1. PICK k \in RematchTasksToWorkers(m) :
          \E j \in ReassignTimedout(k, due, late) : n = Conclude(j)
    BY <1>2 DEF EndOfIteration
  <2>2. PICK j \in ReassignTimedout(k, due, late) : n = Conclude(j)
    BY <2>1
  <2>3. DriverInv(k) /\ Fits(k, w, p, in, out, news)
    BY RematchKeeps, RematchFits
  <2>4. j = k \/ \E T \in SUBSET Worker : j \in ReassignTasksOf(k, T)
    <3>1. InState(k, "WORKING") \subseteq Worker
      BY <2>3 DEF InState, DriverInv, DriverState
    <3> QED
      BY <3>1 DEF ReassignTimedout
  <2>5. DriverInv(j) /\ Fits(j, w, p, in, out, news)
    BY <2>3, <2>4, ReassignTasksOfKeeps, ReassignTasksOfCalm, CalmFits
  <2> QED
    BY <2>2, <2>5, ConcludeCalm, CalmFits
<1> QED
  BY <1>1, <1>2

-----------------------------------------------------------------------------
(* The tasks on the run queue. *)

Held(m) == \A t \in m.running : Holders(m, t) # {}
IdleIsFree(m) == \A w \in Idle(m) : m.runningtask[w] = NoTask
Attended(m) == Held(m) /\ IdleIsFree(m)

(* A worker may leave with its task if the loop is about to end. *)
Holding(m) == m.ustat = "OK" => Attended(m)

LEMMA RmWorkersHolds ==
  ASSUME NEW m, DriverInv(m), Attended(m), NEW K \in SUBSET Worker,
         \A w \in K : m.runningtask[w] \notin m.running
  PROVE  Attended(RmWorkers(m, K))
<1> DEFINE n == RmWorkers(m, K)
<1>1. /\ n.workers = m.workers \ K /\ n.running = m.running
      /\ n.state = [v \in Worker |-> IF v \in K THEN "EXITED" ELSE m.state[v]]
      /\ n.runningtask = [v \in Worker |-> IF v \in K THEN NoTask ELSE m.runningtask[v]]
  BY DEF RmWorkers, DriverInv, DriverState
<1>2. m.workers \subseteq Worker
  BY DEF DriverInv, DriverState
<1> HIDE DEF n
<1>3. \A t \in n.running : Holders(m, t) = Holders(n, t)
  BY <1>1, <1>2 DEF Holders
<1>4. Held(n)
  BY <1>1, <1>3 DEF Held, Attended
<1>5. IdleIsFree(n)
  BY <1>1, <1>2 DEF IdleIsFree, Idle, InState, Attended
<1> QED
  BY <1>4, <1>5 DEF Attended, n

LEMMA HostPostmortemHolds ==
  ASSUME NEW m, DriverInv(m), Attended(m), NEW K \in SUBSET Worker
  PROVE  Attended(HostPostmortem(m, K))
<1> DEFINE k == RmWorkers(m, K)
           O == {t \in m.running : (\E v \in K : m.runningtask[v] = t) /\ Holders(k, t) = {}}
           n == HostPostmortem(m, K)
<1>1. DriverInv(k)
  BY RmWorkersKeeps
<1>2. /\ k.workers = m.workers \ K /\ k.running = m.running
      /\ k.state = [v \in Worker |-> IF v \in K THEN "EXITED" ELSE m.state[v]]
      /\ k.runningtask = [v \in Worker |-> IF v \in K THEN NoTask ELSE m.runningtask[v]]
  BY DEF RmWorkers, DriverInv, DriverState
<1>3. m.workers \subseteq Worker
  BY DEF DriverInv, DriverState
<1>4. n = [k EXCEPT !.running = @ \ O, !.todo = @ \cup O]
  BY DEF HostPostmortem
<1> HIDE DEF k
<1>5. \A t \in m.running \ O : Holders(k, t) # {}
  <2> SUFFICES ASSUME NEW t \in m.running, t \notin O, Holders(k, t) = {} PROVE FALSE
    OBVIOUS
  <2>1. \A v \in K : m.runningtask[v] # t
    OBVIOUS
  <2>2. PICK v \in m.workers : m.runningtask[v] = t
    BY DEF Attended, Held, Holders
  <2>3. v \in Holders(k, t)
    BY <1>2, <1>3, <2>1, <2>2 DEF Holders
  <2> QED
    BY <2>3
<1> HIDE DEF n, O
<1>6. /\ n.workers = k.workers /\ n.state = k.state /\ n.runningtask = k.runningtask
      /\ n.running = m.running \ O
  BY <1>1, <1>2, <1>4 DEF DriverInv, DriverState
<1>7. Held(n)
  BY <1>5, <1>6 DEF Held, Holders
<1>8. IdleIsFree(n)
  BY <1>2, <1>3, <1>6 DEF IdleIsFree, Idle, InState, Attended
<1> QED
  BY <1>7, <1>8 DEF Attended, n

(* Giving tasks to idle workers takes no task from anybody. *)
LEMMA GivingHolds ==
  ASSUME NEW m, DriverInv(m), Attended(m), NEW n, NEW D \in SUBSET Idle(m), NEW f,
         n.workers = m.workers,
         n.state = [v \in Worker |-> IF v \in D THEN "WORKING" ELSE m.state[v]],
         n.runningtask = [v \in Worker |-> IF v \in D THEN f[v] ELSE m.runningtask[v]],
         \A t \in n.running : t \in m.running \/ \E v \in D : f[v] = t
  PROVE  Attended(n)
<1>1. m.workers \subseteq Worker /\ m.running \subseteq Task
  BY DEF DriverInv, DriverState
<1>2. \A v \in D : v \in m.workers /\ m.runningtask[v] \notin m.running
  BY <1>1, NoTaskIsNoTask DEF Attended, IdleIsFree, Idle, InState
<1>3. ASSUME NEW t \in n.running PROVE Holders(n, t) # {}
  <2>1. CASE t \in m.running
    <3>1. PICK v \in m.workers : m.runningtask[v] = t
      BY <2>1 DEF Attended, Held, Holders
    <3>2. v \notin D
      BY <1>2, <2>1, <3>1
    <3> QED
      BY <1>1, <3>1, <3>2 DEF Holders
  <2>2. CASE \E v \in D : f[v] = t
    BY <1>1, <1>2, <2>2 DEF Holders
  <2> QED
    BY <2>1, <2>2
<1>4. IdleIsFree(n)
  BY <1>1 DEF IdleIsFree, Idle, InState, Attended
<1> QED
  BY <1>3, <1>4 DEF Attended, Held

LEMMA AssignHolds ==
  ASSUME NEW m, DriverInv(m), Attended(m), NEW D \in SUBSET Idle(m), NEW f \in [D -> m.todo]
  PROVE  Attended(Assign(m, f))
<1> DEFINE n == Assign(m, f)
<1>1. /\ n.workers = m.workers /\ n.running = m.running \cup Image(f)
      /\ n.state = [v \in Worker |-> IF v \in D THEN "WORKING" ELSE m.state[v]]
      /\ n.runningtask = [v \in Worker |-> IF v \in D THEN f[v] ELSE m.runningtask[v]]
  BY DEF Assign, GiveWork, DriverInv, DriverState
<1>2. \A t \in n.running : t \in m.running \/ \E v \in D : f[v] = t
  BY <1>1 DEF Image
<1> HIDE DEF n
<1>3. Attended(n)
  BY <1>1, <1>2, GivingHolds
<1> QED
  BY <1>3 DEF n

(* A change of what neither the tasks nor the holders depend on. *)
LEMMA SameHolds ==
  ASSUME NEW m, Attended(m), NEW n, n.running \subseteq m.running, n.workers = m.workers,
         n.runningtask = m.runningtask,
         \A w \in m.workers : n.state[w] = "IDLE" =>
                                m.state[w] = "IDLE" \/ m.runningtask[w] = NoTask
  PROVE  Attended(n)
BY DEF Attended, Held, Holders, IdleIsFree, Idle, InState

LEMMA MarkForRemovalHolds ==
  ASSUME NEW m, DriverInv(m), Attended(m), NEW K
  PROVE  Attended(MarkForRemoval(m, K))
<1> DEFINE n == MarkForRemoval(m, K)
<1>1. /\ n.running = m.running /\ n.workers = m.workers /\ n.runningtask = m.runningtask
      /\ n.state = m.state
  BY DEF MarkForRemoval, DriverInv, DriverState
<1> HIDE DEF n
<1>2. Attended(n)
  BY <1>1, SameHolds
<1> QED
  BY <1>2 DEF n

LEMMA CallHostaddlogicHolds ==
  ASSUME NEW m, DriverInv(m), Attended(m), NEW n \in CallHostaddlogic(m)
  PROVE  Attended(n)
<1>1. CASE \E h : n \in DeleteHosts(m, h)
  <2>1. PICK K \in SUBSET Idle(m), L \in SUBSET InState(m, "SUSPENDED"), D \in SUBSET m.workers :
          n = MarkForRemoval(HostPostmortem(RmWorkers(m, K), L), D)
    BY <1>1, DeleteHostsParts
  <2>2. K \in SUBSET Worker /\ L \in SUBSET Worker
    BY DEF DriverInv, DriverState, Idle, InState
  <2> DEFINE j == RmWorkers(m, K)
             k == HostPostmortem(j, L)
  <2>3. \A w \in K : m.runningtask[w] \notin m.running
    BY NoTaskIsNoTask DEF Attended, IdleIsFree, DriverInv, DriverState
  <2>4. DriverInv(j) /\ Attended(j)
    BY <2>2, <2>3, RmWorkersKeeps, RmWorkersHolds
  <2> HIDE DEF j
  <2>5. DriverInv(k) /\ Attended(k)
    BY <2>2, <2>4, HostPostmortemKeeps, HostPostmortemHolds
  <2> HIDE DEF k
  <2>6. Attended(MarkForRemoval(k, D))
    BY <2>5, MarkForRemovalHolds
  <2> QED
    BY <2>1, <2>6 DEF k, j
<1> QED
  BY <1>1 DEF CallHostaddlogic

LEMMA SendTaskToWorkerHolds ==
  ASSUME NEW m, DriverInv(m), Attended(m), NEW w \in m.workers, NEW n \in SendTaskToWorker(m, w)
  PROVE  Attended(n)
<1>1. CASE m.state[w] # "IDLE" \/ m.todo = {}
  BY <1>1 DEF SendTaskToWorker
<1>2. CASE m.state[w] = "IDLE" /\ m.todo # {}
  <2>1. PICK t \in m.todo : n = Assign(m, [x \in {w} |-> t])
    BY <1>2 DEF SendTaskToWorker
  <2> DEFINE f == [x \in {w} |-> t]
  <2>2. {w} \in SUBSET Idle(m) /\ f \in [{w} -> m.todo]
    BY <1>2 DEF Idle, InState
  <2> HIDE DEF f
  <2>3. Attended(Assign(m, f))
    BY <2>2, AssignHolds
  <2> QED
    BY <2>1, <2>3 DEF f
<1> QED
  BY <1>1, <1>2

LEMMA RematchHolds ==
  ASSUME NEW m, DriverInv(m), Attended(m), NEW n \in RematchTasksToWorkers(m)
  PROVE  Attended(n)
<1>1. PICK f \in Matchings(Idle(m), m.todo) : n = Assign(m, f)
  BY DEF RematchTasksToWorkers
<1>2. PICK D \in SUBSET Idle(m) : f \in [D -> m.todo]
  BY DEF Matchings
<1> QED
  BY <1>1, <1>2, AssignHolds

LEMMA RematchLeaves ==
  ASSUME NEW m, DriverInv(m), NEW n \in RematchTasksToWorkers(m)
  PROVE  n.ustat = m.ustat /\ n.workers = m.workers
BY DEF RematchTasksToWorkers, Assign, GiveWork, DriverInv, DriverState

LEMMA ReassignTasksOfHolds ==
  ASSUME NEW m, DriverInv(m), NEW T \in SUBSET Worker, NEW n \in ReassignTasksOf(m, T)
  PROVE  n.workers = m.workers /\ (Holding(m) => Holding(n))
<1> DEFINE onRunQ == {v \in T : m.runningtask[v] \in m.running}
           late == {v \in onRunQ : m.runningtask[v] \notin m.reassigned_tasks_done}
           TaskOf(S) == {m.runningtask[v] : v \in S}
           rest(f) == [m EXCEPT
                         !.running = (@ \ TaskOf(onRunQ \ late)) \ TaskOf(late \ Image(f)),
                         !.todo = @ \cup TaskOf(late \ Image(f)),
                         !.reassigned_tasks = @ \cup TaskOf(late)]
           next(f) == [o \in DOMAIN f |-> m.runningtask[f[o]]]
<1>1. PICK f \in Matchings(Idle(m), late) : n = CheckRunQ(GiveWork(rest(f), next(f)))
  BY DEF ReassignTasksOf
<1>2. PICK D \in SUBSET Idle(m) : f \in [D -> late]
  BY <1>1 DEF Matchings
<1> DEFINE k == rest(f)
           g == GiveWork(k, next(f))
<1>3. /\ k.workers = m.workers /\ k.state = m.state /\ k.runningtask = m.runningtask
      /\ k.running \subseteq m.running /\ k.ustat = m.ustat /\ DOMAIN k = DOMAIN m
  BY DEF DriverInv, DriverState
<1>4. DOMAIN next(f) = D
  BY <1>2
<1> HIDE DEF k, next, late, onRunQ, TaskOf
<1>5. /\ g.workers = m.workers /\ g.running \subseteq m.running /\ g.ustat = m.ustat
      /\ g.state = [v \in Worker |-> IF v \in D THEN "WORKING" ELSE m.state[v]]
      /\ g.runningtask = [v \in Worker |-> IF v \in D THEN next(f)[v] ELSE m.runningtask[v]]
      /\ DOMAIN g = DOMAIN m
  BY <1>3, <1>4 DEF GiveWork, DriverInv, DriverState
<1> HIDE DEF g
<1>6. n \in {g, Crash(g)}
  BY <1>1 DEF CheckRunQ, g, k
<1>7. /\ n.workers = m.workers /\ n.state = g.state /\ n.runningtask = g.runningtask
      /\ n.running \subseteq m.running /\ n.ustat = m.ustat
  BY <1>5, <1>6 DEF Crash, DriverInv, DriverState
<1>8. Attended(m) => Attended(n)
  BY <1>5, <1>7, GivingHolds
<1> QED
  BY <1>7, <1>8 DEF Holding

(* The end of an iteration takes no worker's record, and if the loop goes on *)
(* the run queue is attended to.                                             *)
LEMMA EndOfIterationHolds ==
  ASSUME NEW m, DriverInv(m), NEW due, NEW late, NEW n \in EndOfIteration(m, due, late)
  PROVE  n.workers = m.workers /\ (Holding(m) /\ n.halt = "no" => Held(n))
<1>1. CASE m.halt = "crashed"
  BY <1>1 DEF EndOfIteration
<1>2. CASE m.halt # "crashed"
  <2>1. PICK k \in RematchTasksToWorkers(m) :
          \E j \in ReassignTimedout(k, due, late) : n = Conclude(j)
    BY <1>2 DEF EndOfIteration
  <2>2. PICK j \in ReassignTimedout(k, due, late) : n = Conclude(j)
    BY <2>1
  <2>3. DriverInv(k) /\ k.workers = m.workers /\ k.ustat = m.ustat
    BY RematchKeeps, RematchLeaves
  <2>4. Holding(m) => Holding(k)
    BY <2>3, RematchHolds DEF Holding
  <2>5. j = k \/ \E T \in SUBSET Worker : j \in ReassignTasksOf(k, T)
    <3>1. InState(k, "WORKING") \subseteq Worker
      BY <2>3 DEF InState, DriverInv, DriverState
    <3> QED
      BY <3>1 DEF ReassignTimedout
  <2>6. DriverInv(j) /\ (Holding(m) => Holding(j))
    BY <2>3, <2>4, <2>5, ReassignTasksOfKeeps, ReassignTasksOfHolds
  <2>7. j.workers = k.workers
    BY <2>3, <2>5, ReassignTasksOfHolds
  <2>8. /\ n.workers = j.workers
        /\ n.halt = "no" => j.ustat = "OK"
        /\ n.running = j.running /\ n.runningtask = j.runningtask
    BY <2>2, <2>6 DEF Conclude, DriverInv, DriverState
  <2>9. Holding(m) /\ n.halt = "no" => Held(n)
    BY <2>6, <2>8 DEF Holding, Attended, Held, Holders
  <2> QED
    BY <2>3, <2>7, <2>8, <2>9
<1> QED
  BY <1>1, <1>2

-----------------------------------------------------------------------------
(* The handlers: what w has sent, or what the resource manager says of it, is *)
(* taken off its queue.                                                       *)

LEMMA TellStrangerFits ==
  ASSUME NEW m, DriverInv(m), NEW w \in Worker, w \notin m.workers,
         NEW v \in Worker, m.sent[v] = <<>>,
         NEW p, NEW in \in Seq(Message), NEW out, NEW news,
         InStep(m, v, p, in, out, news), v = w => out # <<>>
  PROVE  Fits(Send(m, w, Control("KILL_YOURSELF")), v, p, in,
              IF v = w THEN Tail(out) ELSE out, news)
<1> DEFINE x == Control("KILL_YOURSELF")
           n == Send(m, w, x)
<1>1. x \in Message
  BY ControlIsMessage
<1> HIDE DEF x
<1>2. /\ n.workers = m.workers /\ n.state = m.state /\ n.isBenchMark = m.isBenchMark
      /\ n.runningtask = m.runningtask /\ n.halt = m.halt
      /\ n.sent[v] = IF v = w THEN Append(<<>>, x) ELSE <<>>
  BY DEF Send, DriverInv, DriverState
<1> HIDE DEF n
<1>3. CASE v = w
  <2>1. GoneInStep(p, in, out, news) /\ p # "none"
    BY <1>3 DEF InStep, GoneInStep
  <2>2. GoneInStep(p, Append(in, x), out, news)
    BY <2>1, GoneKilled DEF x
  <2>3. GoneInStep(p, Append(in, x), Tail(out), news)
    BY <2>1, <2>2 DEF GoneInStep
  <2>4. in \o n.sent[v] = Append(in, x)
    BY <1>1, <1>2, <1>3, ConcatAppend, ConcatEmpty
  <2>5. Fits(n, v, p, in, Tail(out), news)
    BY <1>2, <1>3, <2>3, <2>4 DEF Fits, InStep
  <2> QED
    BY <1>3, <2>5 DEF n, x
<1>4. CASE v # w
  <2>1. in \o n.sent[v] = in
    BY <1>2, <1>4, ConcatEmpty
  <2>2. InStep(n, v, p, in, out, news)
    BY <1>2 DEF InStep, FreshInStep, BenchInStep, WorkInStep, Owes
  <2>3. Fits(n, v, p, in, out, news)
    BY <2>1, <2>2 DEF Fits
  <2> QED
    BY <1>4, <2>3 DEF n, x
<1> QED
  BY <1>3, <1>4

(* Who an INIT, a BENCH_RESULTS and a RESULTS come from. *)
LEMMA Reporter ==
  ASSUME NEW m, NEW w \in m.workers, NEW p, NEW in, NEW out \in Seq(ReportType), NEW news,
         InStep(m, w, p, in, out, news), out # <<>>
  PROVE  /\ Head(out).tag = "INIT" => FreshInStep(m, w, p, in, out, news)
         /\ Head(out).tag = "BENCH_RESULTS" => BenchInStep(m, w, p, in, out)
         /\ Head(out).tag = "RESULTS" => WorkInStep(m, w, p, in, out) /\ ~m.isBenchMark[w]
<1>1. CASE FreshInStep(m, w, p, in, out, news)
  BY <1>1 DEF FreshInStep, Report
<1>2. CASE BenchInStep(m, w, p, in, out)
  BY <1>2 DEF BenchInStep, BenchResults
<1>3. CASE WorkInStep(m, w, p, in, out) /\ ~m.isBenchMark[w]
  BY <1>3 DEF WorkInStep, Only
<1> QED
  BY <1>1, <1>2, <1>3 DEF InStep

(* A worker that has sent its INIT gets its initial data, or is given up. *)
LEMMA OnInitFits ==
  ASSUME NEW m, DriverInv(m), NEW w \in Worker, NEW n \in OnInit(m, w),
         NEW v \in Worker, m.sent[v] = <<>>,
         NEW p, NEW in \in Seq(Message), NEW out \in Seq(ReportType), NEW news,
         InStep(m, v, p, in, out, news),
         v = w => out # <<>> /\ Head(out).tag = "INIT"
  PROVE  Fits(n, v, p, in, IF v = w THEN Tail(out) ELSE out, news)
<1>1. CASE w \notin m.workers
  BY <1>1, TellStrangerFits DEF OnInit, TellStranger
<1>2. CASE w \in m.workers
  <2> DEFINE gone == WorkerLastRites(m, w)
             x == Control("INIT_REPLY")
             told == Send(m, w, x)
             asked == [told EXCEPT !.state[w] = "BENCHMARKING", !.isBenchMark[w] = TRUE]
  <2>1. \/ n = gone
        \/ \E r \in UserReturns : n = [gone EXCEPT !.ustat = r]
        \/ n = asked
    BY <1>2 DEF OnInit, WorkerInit
  <2>2. /\ gone.workers = m.workers \ {w} /\ gone.sent = m.sent /\ DOMAIN gone = DOMAIN m
        /\ gone.halt = m.halt
        /\ v # w => /\ gone.state[v] = m.state[v] /\ gone.isBenchMark[v] = m.isBenchMark[v]
                    /\ gone.runningtask[v] = m.runningtask[v]
    BY DEF WorkerLastRites, RmWorkers, DriverInv, DriverState
  <2>3. x \in Message
    BY ControlIsMessage
  <2> HIDE DEF gone, x
  <2>4. /\ asked.workers = m.workers /\ asked.runningtask = m.runningtask
        /\ asked.halt = m.halt
        /\ asked.state = [m.state EXCEPT ![w] = "BENCHMARKING"]
        /\ asked.isBenchMark = [m.isBenchMark EXCEPT ![w] = TRUE]
        /\ asked.sent = [m.sent EXCEPT ![w] = Append(@, x)]
    BY DEF Send, DriverInv, DriverState
  <2> HIDE DEF asked
  <2>5. ~(n = asked) => /\ n.workers = gone.workers /\ n.sent = m.sent
                        /\ n.state = gone.state /\ n.isBenchMark = gone.isBenchMark
                        /\ n.runningtask = gone.runningtask /\ n.halt = m.halt
    BY <2>1, <2>2 DEF DriverInv, DriverState
  <2>6. in \o <<>> = in
    BY ConcatEmpty
  <2>7. CASE v # w
    <3>1. Untouched(m, n, v)
      BY <2>2, <2>4, <2>5, <2>7 DEF Untouched, DriverInv, DriverState
    <3>2. Fits(n, v, p, in, out, news)
      BY <2>6, <3>1, CalmFits DEF Calm, Fits
    <3> QED
      BY <2>7, <3>2
  <2>8. CASE v = w
    <3>1. FreshInStep(m, w, p, in, out, news)
      BY <1>2, <2>8, Reporter
    <3>2. Tail(out) = <<>>
      <4>1. out = <<Report("INIT")>>
        BY <2>8, <3>1 DEF FreshInStep
      <4> QED
        BY <4>1, TailOfOne
    <3>3. CASE n = asked
      <4>1. n.sent[w] = <<x>>
        BY <2>4, <2>8, <3>3 DEF DriverInv, DriverState
      <4>2. p = "waiting" => in \o <<x>> = <<x>>
        BY <3>1 DEF FreshInStep
      <4>3. p \in {"waiting", "dead"}
        BY <2>8, <3>1 DEF FreshInStep
      <4>4. /\ w \in n.workers /\ n.state[w] = "BENCHMARKING" /\ n.isBenchMark[w]
            /\ n.runningtask[w] = NoTask
        BY <1>2, <2>4, <3>1, <3>3 DEF FreshInStep, DriverInv, DriverState
      <4>5. BenchInStep(n, w, p, in \o <<x>>, <<>>)
        BY <4>2, <4>3, <4>4 DEF BenchInStep, x
      <4>6. InStep(n, w, p, in \o <<x>>, <<>>, news)
        BY <4>4, <4>5 DEF InStep
      <4> QED
        BY <2>8, <3>2, <4>1, <4>6 DEF Fits
    <3>4. CASE n # asked
      <4>1. w \notin n.workers /\ n.sent[w] = <<>>
        BY <2>2, <2>5, <2>8, <3>4
      <4>2. GoneInStep(p, in, <<>>, news)
        BY <2>8, <3>1 DEF FreshInStep, GoneInStep, Only, ProcState
      <4> QED
        BY <2>6, <2>8, <3>2, <4>1, <4>2 DEF Fits, InStep
    <3> QED
      BY <3>3, <3>4
  <2> QED
    BY <2>7, <2>8
<1> QED
  BY <1>1, <1>2

LEMMA OnInitHolds ==
  ASSUME NEW m, DriverInv(m), Attended(m), NEW w \in Worker, NEW n \in OnInit(m, w),
         w \in m.workers => m.runningtask[w] = NoTask
  PROVE  Holding(n)
<1>1. CASE w \notin m.workers
  <2>1. n = Send(m, w, Control("KILL_YOURSELF"))
    BY <1>1 DEF OnInit, TellStranger
  <2>2. /\ n.running = m.running /\ n.workers = m.workers /\ n.runningtask = m.runningtask
        /\ n.state = m.state
    BY <2>1 DEF Send, DriverInv, DriverState
  <2> QED
    BY <2>2, SameHolds DEF Holding
<1>2. CASE w \in m.workers
  <2> DEFINE gone == RmWorkers(m, {w})
             told == Send(m, w, Control("INIT_REPLY"))
             asked == [told EXCEPT !.state[w] = "BENCHMARKING", !.isBenchMark[w] = TRUE]
  <2>1. \/ n = gone
        \/ \E r \in UserReturns \ {"OK"} : n = [gone EXCEPT !.ustat = r]
        \/ n = asked
    BY <1>2 DEF OnInit, WorkerInit, WorkerLastRites
  <2>2. m.runningtask[w] \notin m.running
    BY <1>2, NoTaskIsNoTask DEF DriverInv, DriverState
  <2>3. DriverInv(gone) /\ Attended(gone)
    BY <2>2, RmWorkersKeeps, RmWorkersHolds
  <2> HIDE DEF gone
  <2>4. CASE n = asked
    <3>1. n.running = m.running /\ n.workers = m.workers /\ n.runningtask = m.runningtask
      BY <2>4 DEF Send, DriverInv, DriverState
    <3>2. \A v \in m.workers : n.state[v] = "IDLE" => m.state[v] = "IDLE"
      <4>1. n.state = [m.state EXCEPT ![w] = "BENCHMARKING"]
        BY <2>4 DEF Send, DriverInv, DriverState
      <4> QED
        BY <4>1 DEF DriverInv, DriverState
    <3>3. Attended(n)
      BY <3>1, <3>2, SameHolds
    <3> QED
      BY <3>3 DEF Holding
  <2>5. CASE \E r \in UserReturns \ {"OK"} : n = [gone EXCEPT !.ustat = r]
    <3>1. PICK r \in UserReturns \ {"OK"} : n = [gone EXCEPT !.ustat = r]
      BY <2>5
    <3>2. n.ustat = r
      BY <2>3, <3>1 DEF DriverInv, DriverState
    <3> QED
      BY <3>1, <3>2 DEF Holding
  <2> QED
    BY <2>1, <2>3, <2>4, <2>5 DEF Holding
<1> QED
  BY <1>1, <1>2

(* A worker that is given up, whatever is taken off its queues. *)
LEMMA LeavesFits ==
  ASSUME NEW m, NEW w \in m.workers, NEW p, NEW in \in Seq(Message), NEW out, NEW news,
         InStep(m, w, p, in, out, news),
         NEW n, w \notin n.workers, n.sent[w] = <<>>, NEW q, NEW r
  PROVE  Fits(n, w, p, in, q, r)
<1>1. GoneInStep(p, in, out, news) /\ p # "none"
  BY StepGone
<1>2. GoneInStep(p, in, q, r)
  BY <1>1 DEF GoneInStep
<1>3. in \o n.sent[w] = in
  BY ConcatEmpty
<1> QED
  BY <1>2, <1>3 DEF Fits, InStep

LEMMA OnBenchResultsFits ==
  ASSUME NEW m, DriverInv(m), NEW w \in Worker, NEW okay, NEW n \in OnBenchResults(m, w, okay),
         NEW v \in Worker, m.sent[v] = <<>>,
         NEW p, NEW in \in Seq(Message), NEW out \in Seq(ReportType), NEW news,
         InStep(m, v, p, in, out, news),
         v = w => out # <<>> /\ Head(out).tag = "BENCH_RESULTS"
  PROVE  Fits(n, v, p, in, IF v = w THEN Tail(out) ELSE out, news)
<1> DEFINE q == IF v = w THEN Tail(out) ELSE out
<1>1. CASE w \notin m.workers
  BY <1>1, TellStrangerFits DEF OnBenchResults, TellStranger
<1>2. CASE w \in m.workers
  <2> DEFINE gone == RmWorkers(m, {w})
             idle == [m EXCEPT !.state[w] = "IDLE"]
             k == [m EXCEPT !.state[w] = "IDLE", !.isBenchMark[w] = FALSE]
  <2>1. n = gone \/ n \in SendTaskToWorker(k, w)
    BY <1>2 DEF OnBenchResults, HandleBenchmark, WorkerLastRites
  <2>2. in \o <<>> = in
    BY ConcatEmpty
  <2>3. Fits(gone, v, p, in, q, news)
    <3>1. CASE v = w
      <4>1. w \notin gone.workers /\ gone.sent[w] = <<>>
        BY <3>1 DEF RmWorkers, DriverInv, DriverState
      <4> QED
        BY <1>2, <3>1, <4>1, LeavesFits
    <3>2. CASE v # w
      <4>1. Fits(m, v, p, in, out, news)
        BY <2>2 DEF Fits
      <4>2. Calm(m, gone, v)
        BY RmWorkersCalm
      <4> QED
        BY <3>2, <4>1, <4>2, CalmFits
    <3> QED
      BY <3>1, <3>2
  <2> HIDE DEF gone
  <2>4. DriverInv(idle)
    BY StateKeeps DEF WorkerState
  <2>5. /\ k = [idle EXCEPT !.isBenchMark[w] = FALSE] /\ k.workers = m.workers /\ k.sent = m.sent
        /\ k.state = [m.state EXCEPT ![w] = "IDLE"] /\ k.runningtask = m.runningtask
        /\ k.isBenchMark = [m.isBenchMark EXCEPT ![w] = FALSE] /\ k.halt = m.halt
    BY DEF DriverInv, DriverState
  <2> HIDE DEF k, idle
  <2>6. DriverInv(k)
    BY <2>4, <2>5, BenchMarkKeeps
  <2>7. Fits(k, v, p, in, q, news)
    <3>1. CASE v = w
      <4>1. BenchInStep(m, w, p, in, out)
        BY <1>2, <3>1, Reporter
      <4>2. out # <<>> /\ \E ok \in BOOLEAN : out = <<BenchResults(ok)>>
        BY <3>1, <4>1 DEF BenchInStep
      <4>3. Tail(out) = <<>>
        BY <4>2, TailOfOne
      <4>4. p \in {"ready", "dead"} /\ (p = "ready" => in = <<>> /\ Only(in, {"DO_THIS_WORK"}))
        BY <4>1, <4>2 DEF BenchInStep, Only
      <4>5. k.state[w] = "IDLE" /\ ~k.isBenchMark[w] /\ k.runningtask[w] = NoTask
        BY <2>5, <4>1 DEF BenchInStep, DriverInv, DriverState
      <4>6. WorkInStep(k, w, p, in, <<>>)
        BY <4>4, <4>5 DEF WorkInStep, Owes, Only
      <4>7. InStep(k, w, p, in, <<>>, news)
        BY <1>2, <2>5, <4>5, <4>6 DEF InStep
      <4>8. in \o k.sent[w] = in /\ q = <<>>
        BY <2>2, <2>5, <3>1, <4>3
      <4>9. Fits(k, w, p, in, <<>>, news)
        BY <4>7, <4>8 DEF Fits
      <4> QED
        BY <3>1, <4>8, <4>9
    <3>2. CASE v # w
      <4>1. Untouched(m, k, v)
        BY <2>5, <3>2 DEF Untouched, DriverInv, DriverState
      <4>2. Fits(m, v, p, in, out, news)
        BY <2>2 DEF Fits
      <4> QED
        BY <3>2, <4>1, <4>2, CalmFits DEF Calm
    <3> QED
      BY <3>1, <3>2
  <2> HIDE DEF q
  <2>8. n \in SendTaskToWorker(k, w) => Fits(n, v, p, in, q, news)
    BY <1>2, <2>5, <2>6, <2>7, SendTaskToWorkerFits
  <2> QED
    BY <2>1, <2>3, <2>8 DEF q
<1> QED
  BY <1>1, <1>2

LEMMA OnBenchResultsHolds ==
  ASSUME NEW m, DriverInv(m), Attended(m), NEW w \in Worker, NEW okay,
         NEW n \in OnBenchResults(m, w, okay), w \in m.workers => m.runningtask[w] = NoTask
  PROVE  Attended(n)
<1>1. CASE w \notin m.workers
  <2>1. n = Send(m, w, Control("KILL_YOURSELF"))
    BY <1>1 DEF OnBenchResults, TellStranger
  <2>2. /\ n.running = m.running /\ n.workers = m.workers /\ n.runningtask = m.runningtask
        /\ n.state = m.state
    BY <2>1 DEF Send, DriverInv, DriverState
  <2> QED
    BY <2>2, SameHolds
<1>2. CASE w \in m.workers
  <2> DEFINE idle == [m EXCEPT !.state[w] = "IDLE"]
             k == [m EXCEPT !.state[w] = "IDLE", !.isBenchMark[w] = FALSE]
  <2>1. n = RmWorkers(m, {w}) \/ n \in SendTaskToWorker(k, w)
    BY <1>2 DEF OnBenchResults, HandleBenchmark, WorkerLastRites
  <2>2. m.runningtask[w] \notin m.running
    BY <1>2, NoTaskIsNoTask DEF DriverInv, DriverState
  <2>3. Attended(RmWorkers(m, {w}))
    BY <2>2, RmWorkersHolds
  <2>4. DriverInv(idle)
    BY StateKeeps DEF WorkerState
  <2>5. /\ k = [idle EXCEPT !.isBenchMark[w] = FALSE] /\ k.workers = m.workers
        /\ k.state = [m.state EXCEPT ![w] = "IDLE"] /\ k.runningtask = m.runningtask
        /\ k.running = m.running
    BY DEF DriverInv, DriverState
  <2> HIDE DEF k, idle
  <2>6. DriverInv(k)
    BY <2>4, <2>5, BenchMarkKeeps
  <2>7. \A v \in m.workers : k.state[v] = "IDLE" =>
                               m.state[v] = "IDLE" \/ m.runningtask[v] = NoTask
    BY <1>2, <2>5 DEF DriverInv, DriverState
  <2>8. Attended(k)
    BY <2>5, <2>7, SameHolds
  <2> QED
    BY <1>2, <2>1, <2>3, <2>5, <2>6, <2>8, SendTaskToWorkerHolds
<1> QED
  BY <1>1, <1>2

(* What the result changes in the record of its worker, and in no other. *)
MayBeDone(m, n, w, t) ==
  /\ n.workers = m.workers /\ n.sent = m.sent /\ n.isBenchMark = m.isBenchMark
  /\ m.halt = "crashed" => n.halt = "crashed"
  /\ \/ /\ n.state = m.state /\ n.runningtask = m.runningtask
        /\ n.halt = "crashed" \/ t # m.runningtask[w]
     \/ /\ n.state = [m.state EXCEPT ![w] = "IDLE"]
        /\ n.runningtask = [m.runningtask EXCEPT ![w] = NoTask]

LEMMA HandleWorkerResultsShape ==
  ASSUME NEW m, DriverInv(m), NEW w \in m.workers, NEW t \in Task \cup {NoTask},
         NEW N \in SUBSET (Task \ m.created), NEW r \in UserReturns
  PROVE  MayBeDone(m, HandleWorkerResults(m, w, t, N, r), w, t)
<1> DEFINE n == HandleWorkerResults(m, w, t, N, r)
<1>1. \/ t # m.runningtask[w] /\ n = [m EXCEPT !.ustat = "QUIT"]
      \/ n = Crash(m)
      \/ n = ActOnCompletedTask(m, w, t, N, r)
      \/ n = CompletedTask(m, w)
  BY DEF HandleWorkerResults
<1> HIDE DEF n
<1>2. ASSUME n = [m EXCEPT !.ustat = "QUIT"] \/ n = Crash(m)
      PROVE  /\ n.workers = m.workers /\ n.sent = m.sent /\ n.isBenchMark = m.isBenchMark
             /\ n.state = m.state /\ n.runningtask = m.runningtask
             /\ m.halt = "crashed" => n.halt = "crashed"
             /\ n = Crash(m) => n.halt = "crashed"
  BY <1>2 DEF Crash, DriverInv, DriverState
<1>3. ASSUME n = ActOnCompletedTask(m, w, t, N, r) \/ n = CompletedTask(m, w)
      PROVE  /\ n.workers = m.workers /\ n.sent = m.sent /\ n.isBenchMark = m.isBenchMark
             /\ n.halt = m.halt
             /\ n.state = [m.state EXCEPT ![w] = "IDLE"]
             /\ n.runningtask = [m.runningtask EXCEPT ![w] = NoTask]
  <2>1. CASE n = CompletedTask(m, w)
    BY <2>1 DEF CompletedTask, DriverInv, DriverState
  <2>2. CASE n = ActOnCompletedTask(m, w, t, N, r)
    BY <2>2 DEF ActOnCompletedTask, CompletedTask, AddTasks, DriverInv, DriverState
  <2> QED
    BY <1>3, <2>1, <2>2
<1>4. MayBeDone(m, n, w, t)
  BY <1>1, <1>2, <1>3 DEF MayBeDone
<1> QED
  BY <1>4 DEF n

LEMMA OnResultsFits ==
  ASSUME NEW m, DriverInv(m), NEW w \in Worker, NEW t \in Task \cup {NoTask},
         NEW N \in SUBSET (Task \ m.created), NEW r \in UserReturns,
         NEW n \in OnResults(m, w, t, N, r),
         NEW v \in Worker, m.sent[v] = <<>>,
         NEW p, NEW in \in Seq(Message), NEW out \in Seq(ReportType), NEW news,
         InStep(m, v, p, in, out, news),
         v = w => out # <<>> /\ Head(out).tag = "RESULTS" /\ t = Head(out).task
  PROVE  Fits(n, v, p, in, IF v = w THEN Tail(out) ELSE out, news)
<1> DEFINE q == IF v = w THEN Tail(out) ELSE out
<1>1. CASE w \notin m.workers
  BY <1>1, TellStrangerFits DEF OnResults, TellStranger
<1>2. CASE w \in m.workers
  <2> DEFINE x == Control("KILL_YOURSELF")
             done == HandleWorkerResults(m, w, t, N, r)
             told == Send(done, w, x)
             gone == RmWorkers(told, {w})
  <2>1. MayBeDone(m, done, w, t) /\ DriverInv(done)
    BY <1>2, HandleWorkerResultsShape, HandleWorkerResultsKeeps
  <2> HIDE DEF done
  <2>2. /\ done.workers = m.workers /\ done.sent = m.sent /\ done.isBenchMark = m.isBenchMark
        /\ m.halt = "crashed" => done.halt = "crashed"
        /\ \/ /\ done.state = m.state /\ done.runningtask = m.runningtask
              /\ done.halt = "crashed" \/ t # m.runningtask[w]
           \/ /\ done.state = [m.state EXCEPT ![w] = "IDLE"]
              /\ done.runningtask = [m.runningtask EXCEPT ![w] = NoTask]
    BY <2>1 DEF MayBeDone
  <2>3. \/ n \in {done, RmWorkers(done, {w})}
        \/ n \in SendTaskToWorker(done, w)
        \/ n \in CallHostaddlogic(gone)
    BY <1>2 DEF OnResults, HandleResults, WorkerLastRites, done
  <2>4. x \in Message /\ in \o <<>> = in
    BY ControlIsMessage, ConcatEmpty
  <2> HIDE DEF done, q, x
  <2>5. Fits(done, v, p, in, q, news)
    <3>1. CASE v = w
      <4>1. WorkInStep(m, w, p, in, out) /\ ~m.isBenchMark[w]
        BY <1>2, <3>1, Reporter
      <4>2. Only(Tail(out), {"RESULTS"})
        BY <3>1, <4>1, OnlyTail DEF WorkInStep
      <4>3. /\ done.state[w] \in {"IDLE", "WORKING", "SUSPENDED"}
            /\ done.state[w] = "IDLE" => done.runningtask[w] = NoTask
        BY <2>2, <4>1 DEF WorkInStep, DriverInv, DriverState
      <4>8. ASSUME done.halt # "crashed" PROVE Owes(done, w, p, in, Tail(out))
        <5>1. Owes(m, w, p, in, out)
          BY <2>2, <4>1, <4>8 DEF WorkInStep
        <5>2. out = <<Result(m.runningtask[w])>> /\ (p = "ready" => in = <<>>)
          BY <3>1, <5>1 DEF Owes
        <5>3. Head(out) = Result(m.runningtask[w]) /\ Tail(out) = <<>>
          BY <5>2, TailOfOne
        <5>4. t = m.runningtask[w]
          BY <3>1, <5>3 DEF Result
        <5>5. done.runningtask[w] = NoTask
          BY <2>2, <4>8, <5>4 DEF DriverInv, DriverState
        <5> QED
          BY <5>2, <5>3, <5>5 DEF Owes
      <4>4. WorkInStep(done, w, p, in, Tail(out))
        BY <4>1, <4>2, <4>3, <4>8 DEF WorkInStep
      <4>5. InStep(done, w, p, in, Tail(out), news)
        BY <1>2, <2>2, <4>1, <4>3, <4>4 DEF InStep
      <4>6. in \o done.sent[w] = in /\ q = Tail(out)
        BY <2>2, <2>4, <3>1 DEF q
      <4>7. Fits(done, w, p, in, Tail(out), news)
        BY <4>5, <4>6 DEF Fits
      <4> QED
        BY <3>1, <4>6, <4>7
    <3>2. CASE v # w
      <4>1. Untouched(m, done, v)
        BY <2>2, <3>2 DEF Untouched, DriverInv, DriverState
      <4>2. Fits(m, v, p, in, q, news)
        BY <2>4, <3>2 DEF Fits, q
      <4> QED
        BY <4>1, <4>2, CalmFits DEF Calm
    <3> QED
      BY <3>1, <3>2
  <2>6. Fits(RmWorkers(done, {w}), v, p, in, q, news)
    BY <2>1, <2>5, RmWorkersCalm, CalmFits
  <2>7. n \in SendTaskToWorker(done, w) => Fits(n, v, p, in, q, news)
    BY <1>2, <2>2, <2>1, <2>5, SendTaskToWorkerFits
  <2>8. DriverInv(told) /\ DriverInv(gone)
    <3>1. DriverInv(told)
      BY <2>1, <2>4, SendKeeps
    <3> HIDE DEF told
    <3> QED
      BY <3>1, RmWorkersKeeps
  <2>9. Fits(gone, v, p, in, q, news)
    <3>1. CASE v = w
      <4>1. told.sent[w] = Append(<<>>, x) /\ told.workers = m.workers
        BY <2>2, <2>1, <3>1 DEF Send, DriverInv, DriverState
      <4> HIDE DEF told
      <4>2. w \notin gone.workers /\ gone.sent[w] = Append(<<>>, x)
        BY <2>8, <4>1 DEF RmWorkers, DriverInv, DriverState
      <4>3. GoneInStep(p, in, q, news) /\ p # "none"
        <5>1. InStep(done, w, p, in, q, news)
          BY <2>2, <2>4, <2>5, <3>1 DEF Fits
        <5> QED
          BY <1>2, <2>2, <5>1, StepGone
      <4>4. GoneInStep(p, Append(in, x), q, news)
        BY <4>3, GoneKilled DEF x
      <4>5. in \o Append(<<>>, x) = Append(in, x)
        BY <2>4, ConcatAppend
      <4> HIDE DEF gone
      <4> QED
        BY <3>1, <4>2, <4>4, <4>5 DEF Fits, InStep
    <3>2. CASE v # w
      <4>1. Fits(told, v, p, in, q, news)
        BY <2>1, <2>5, <3>2, SendFits, CalmFits DEF Calm
      <4> HIDE DEF told
      <4> QED
        BY <2>8, <4>1, RmWorkersCalm, CalmFits
    <3> QED
      BY <3>1, <3>2
  <2> HIDE DEF gone
  <2>10. n \in CallHostaddlogic(gone) => Fits(n, v, p, in, q, news)
    BY <2>8, <2>9, CallHostaddlogicFits
  <2> QED
    BY <2>3, <2>5, <2>6, <2>7, <2>10 DEF q
<1> QED
  BY <1>1, <1>2

(* A result leaves the run queue attended to, unless the loop is to end, and *)
(* its worker without a task, unless the loop ends at once.                  *)
HeldOrEnding(n, w) ==
  /\ Holding(n)
  /\ n.ustat = "OK" /\ n.halt # "crashed" => n.runningtask[w] = NoTask

LEMMA HandleWorkerResultsHolds ==
  ASSUME NEW m, DriverInv(m), Attended(m), NEW w \in m.workers, NEW t \in Task \cup {NoTask},
         NEW N \in SUBSET (Task \ m.created), NEW r \in UserReturns
  PROVE  HeldOrEnding(HandleWorkerResults(m, w, t, N, r), w)
<1> DEFINE n == HandleWorkerResults(m, w, t, N, r)
<1>1. \/ n = [m EXCEPT !.ustat = "QUIT"]
      \/ n = Crash(m)
      \/ t = m.runningtask[w] /\ n = ActOnCompletedTask(m, w, t, N, r)
      \/ t = m.runningtask[w] /\ n = CompletedTask(m, w) /\ t \notin m.running
  BY DEF HandleWorkerResults, IsWanted
<1> SUFFICES HeldOrEnding(n, w)
  OBVIOUS
<1>2. m.workers \subseteq Worker
  BY DEF DriverInv, DriverState
<1> HIDE DEF n
<1>3. CASE n = [m EXCEPT !.ustat = "QUIT"]
  BY <1>3 DEF HeldOrEnding, Holding, DriverInv, DriverState
<1>4. CASE n = Crash(m)
  <2>1. /\ n.running = m.running /\ n.workers = m.workers /\ n.runningtask = m.runningtask
        /\ n.state = m.state /\ n.halt = "crashed"
    BY <1>4 DEF Crash, DriverInv, DriverState
  <2> QED
    BY <2>1, SameHolds DEF HeldOrEnding, Holding
<1>5. CASE /\ t = m.runningtask[w]
           /\ \/ n = ActOnCompletedTask(m, w, t, N, r)
              \/ n = CompletedTask(m, w) /\ t \notin m.running
  <2>1. /\ n.workers = m.workers /\ n.running \subseteq m.running \ {t}
        /\ n.state = [m.state EXCEPT ![w] = "IDLE"]
        /\ n.runningtask = [m.runningtask EXCEPT ![w] = NoTask]
    <3>1. CASE n = CompletedTask(m, w) /\ t \notin m.running
      BY <3>1 DEF CompletedTask, DriverInv, DriverState
    <3>2. CASE n = ActOnCompletedTask(m, w, t, N, r)
      BY <3>2 DEF ActOnCompletedTask, CompletedTask, AddTasks, DriverInv, DriverState
    <3> QED
      BY <1>5, <3>1, <3>2
  <2>2. n.runningtask[w] = NoTask
    BY <1>2, <2>1 DEF DriverInv, DriverState
  <2>3. ASSUME NEW u \in n.running PROVE Holders(n, u) # {}
    <3>1. u \in m.running /\ u # t
      BY <2>1
    <3>2. PICK v \in m.workers : m.runningtask[v] = u
      BY <3>1 DEF Attended, Held, Holders
    <3>3. v # w
      BY <1>5, <3>1, <3>2
    <3> QED
      BY <1>2, <2>1, <3>2, <3>3 DEF Holders, DriverInv, DriverState
  <2>4. IdleIsFree(n)
    BY <1>2, <2>1, <2>2 DEF Attended, IdleIsFree, Idle, InState, DriverInv, DriverState
  <2> QED
    BY <2>2, <2>3, <2>4 DEF HeldOrEnding, Holding, Attended, Held
<1> QED
  BY <1>1, <1>3, <1>4, <1>5

(* Asking for hosts, or for fewer, has nothing to do with what the user says, *)
(* and leaves a worker that is starting alone.                                *)
LEMMA CallHostaddlogicSpares ==
  ASSUME NEW m, DriverInv(m), NEW n \in CallHostaddlogic(m)
  PROVE  /\ n.ustat = m.ustat /\ n.halt = m.halt
         /\ \A w \in InState(m, "INITIALIZING") : w \in n.workers
<1>1. CASE n = m
  BY <1>1 DEF InState
<1>2. CASE \E h : n \in DeleteHosts(m, h)
  <2>1. PICK K \in SUBSET Idle(m), L \in SUBSET InState(m, "SUSPENDED"), D \in SUBSET m.workers :
          n = MarkForRemoval(HostPostmortem(RmWorkers(m, K), L), D)
    BY <1>2, DeleteHostsParts
  <2> DEFINE j == RmWorkers(m, K)
             k == RmWorkers(j, L)
             p == HostPostmortem(j, L)
  <2>2. /\ j.workers = m.workers \ K /\ DOMAIN j = DOMAIN m
        /\ j.ustat = m.ustat /\ j.halt = m.halt
    BY DEF RmWorkers, DriverInv, DriverState
  <2> HIDE DEF j
  <2>3. /\ k.workers = j.workers \ L /\ DOMAIN k = DOMAIN m
        /\ k.ustat = j.ustat /\ k.halt = j.halt
    BY <2>2 DEF RmWorkers, DriverInv, DriverState
  <2>4. /\ p.workers = k.workers /\ DOMAIN p = DOMAIN m
        /\ p.ustat = k.ustat /\ p.halt = k.halt
    BY <2>3 DEF HostPostmortem, DriverInv, DriverState
  <2> HIDE DEF k, p
  <2>5. n = MarkForRemoval(p, D)
    BY <2>1 DEF p, j
  <2>6. n.workers = p.workers /\ n.ustat = p.ustat /\ n.halt = p.halt
    BY <2>4, <2>5 DEF MarkForRemoval, DriverInv, DriverState
  <2> QED
    BY <2>2, <2>3, <2>4, <2>6 DEF Idle, InState
<1> QED
  BY <1>1, <1>2 DEF CallHostaddlogic

LEMMA OnResultsHolds ==
  ASSUME NEW m, DriverInv(m), Attended(m), NEW w \in Worker, NEW t \in Task \cup {NoTask},
         NEW N \in SUBSET (Task \ m.created), NEW r \in UserReturns,
         NEW n \in OnResults(m, w, t, N, r)
  PROVE  Holding(n)
<1>1. CASE w \notin m.workers
  <2>1. n = Send(m, w, Control("KILL_YOURSELF"))
    BY <1>1 DEF OnResults, TellStranger
  <2>2. /\ n.running = m.running /\ n.workers = m.workers /\ n.runningtask = m.runningtask
        /\ n.state = m.state
    BY <2>1 DEF Send, DriverInv, DriverState
  <2> QED
    BY <2>2, SameHolds DEF Holding
<1>2. CASE w \in m.workers
  <2> DEFINE x == Control("KILL_YOURSELF")
             done == HandleWorkerResults(m, w, t, N, r)
             told == Send(done, w, x)
             gone == RmWorkers(told, {w})
  <2>1. /\ DriverInv(done) /\ done.workers = m.workers /\ Holding(done)
        /\ done.ustat = "OK" /\ done.halt # "crashed" => done.runningtask[w] = NoTask
    BY <1>2, HandleWorkerResultsKeeps, HandleWorkerResultsHolds DEF HeldOrEnding
  <2>2. \/ n = done
        \/ done.halt # "crashed" /\ n = RmWorkers(done, {w})
        \/ done.ustat = "OK" /\ n \in SendTaskToWorker(done, w)
        \/ done.ustat # "OK" /\ n \in CallHostaddlogic(gone)
    BY <1>2 DEF OnResults, HandleResults, WorkerLastRites
  <2> HIDE DEF done, x
  <2>3. CASE done.halt # "crashed" /\ n = RmWorkers(done, {w})
    <3>1. n.ustat = done.ustat
      BY <2>1, <2>3 DEF RmWorkers, DriverInv, DriverState
    <3>2. ASSUME done.ustat = "OK" PROVE Attended(n)
      <4>1. done.runningtask[w] \notin done.running
        BY <2>1, <2>3, <3>2, NoTaskIsNoTask DEF DriverInv, DriverState
      <4> QED
        BY <2>1, <2>3, <3>2, <4>1, RmWorkersHolds DEF Holding
    <3> QED
      BY <3>1, <3>2 DEF Holding
  <2>4. CASE done.ustat = "OK" /\ n \in SendTaskToWorker(done, w)
    BY <1>2, <2>1, <2>4, SendTaskToWorkerHolds DEF Holding
  <2>5. CASE done.ustat # "OK" /\ n \in CallHostaddlogic(gone)
    <3>1. DriverInv(told) /\ told.ustat = done.ustat
      <4>1. x \in Message
        BY ControlIsMessage DEF x
      <4>2. told.ustat = done.ustat
        BY <2>1 DEF Send, DriverInv, DriverState
      <4> QED
        BY <2>1, <4>1, <4>2, SendKeeps
    <3> HIDE DEF told
    <3>2. DriverInv(gone) /\ gone.ustat = done.ustat
      <4>1. gone.ustat = told.ustat
        BY <3>1 DEF RmWorkers, DriverInv, DriverState
      <4> QED
        BY <3>1, <4>1, RmWorkersKeeps
    <3> HIDE DEF gone
    <3>3. n.ustat = done.ustat
      BY <2>5, <3>2, CallHostaddlogicSpares
    <3> QED
      BY <2>5, <3>3 DEF Holding
  <2> QED
    BY <2>1, <2>2, <2>3, <2>4, <2>5
<1> QED
  BY <1>1, <1>2

(* News of a worker that is taken off its queue leaves the others right. *)
LEMMA NewsTaken ==
  ASSUME NEW m, NEW w, NEW p, NEW in, NEW out, NEW X, NEW news \in Seq(X), news # <<>>,
         InStep(m, w, p, in, out, news)
  PROVE  InStep(m, w, p, in, out, Tail(news))
<1>1. CASE w \notin m.workers
  BY <1>1 DEF InStep, GoneInStep
<1>2. CASE w \in m.workers /\ FreshInStep(m, w, p, in, out, news)
  BY <1>2 DEF InStep, FreshInStep, BenchInStep, WorkInStep
<1>3. CASE w \in m.workers /\ ~FreshInStep(m, w, p, in, out, news)
  BY <1>3 DEF InStep
<1> QED
  BY <1>1, <1>2, <1>3

LEMMA HandleExitFits ==
  ASSUME NEW m, DriverInv(m), NEW w \in Worker, NEW n \in HandleExit(m, w), NEW v \in Worker,
         NEW p, NEW in \in Seq(Message), NEW out, NEW news, Fits(m, v, p, in, out, news)
  PROVE  Fits(n, v, p, in, out, news)
<1> DEFINE k == HostPostmortem(m, {w})
<1>1. DriverInv(k) /\ Fits(k, v, p, in, out, news)
  BY HostPostmortemKeeps, HostPostmortemCalm, CalmFits
<1>2. n = m \/ n \in CallHostaddlogic(k)
  BY DEF HandleExit
<1> HIDE DEF k
<1> QED
  BY <1>1, <1>2, CallHostaddlogicFits

LEMMA HandleExitHolds ==
  ASSUME NEW m, DriverInv(m), Attended(m), NEW w \in Worker, NEW n \in HandleExit(m, w)
  PROVE  Attended(n)
<1> DEFINE k == HostPostmortem(m, {w})
<1>1. DriverInv(k) /\ Attended(k)
  BY HostPostmortemKeeps, HostPostmortemHolds
<1>2. n = m \/ n \in CallHostaddlogic(k)
  BY DEF HandleExit
<1> HIDE DEF k
<1> QED
  BY <1>1, <1>2, CallHostaddlogicHolds

(* The record of w is set to s, and the run queue may lose a task. *)
SetTo(m, k, w, s) ==
  /\ k.workers = m.workers /\ k.sent = m.sent /\ k.isBenchMark = m.isBenchMark
  /\ k.state = [m.state EXCEPT ![w] = s] /\ k.runningtask = m.runningtask
  /\ k.running \subseteq m.running /\ k.halt = m.halt

LEMMA HandleHostsuspendShape ==
  ASSUME NEW m, DriverInv(m), NEW w \in Worker, NEW n \in HandleHostsuspend(m, w), n # m
  PROVE  /\ w \in m.workers
         /\ \E k : /\ DriverInv(k) /\ SetTo(m, k, w, "SUSPENDED")
                   /\ n = k \/ n \in RematchTasksToWorkers(k)
<1> DEFINE t == m.runningtask[w]
           susp == [m EXCEPT !.state[w] = "SUSPENDED"]
           off == [susp EXCEPT !.running = @ \ {t}]
           back == [off EXCEPT !.todo = @ \cup {t}, !.reassigned_tasks = @ \cup {t}]
<1>1. DriverInv(susp)
  BY StateKeeps DEF WorkerState
<1>2. susp.running = m.running /\ susp.reassigned_tasks_done = m.reassigned_tasks_done
  BY DEF DriverInv, DriverState
<1>3. SetTo(m, susp, w, "SUSPENDED") /\ SetTo(m, back, w, "SUSPENDED")
  BY DEF SetTo, DriverInv, DriverState
<1>4. CASE t \in m.running
  <2>1. t \notin m.reassigned_tasks_done
    BY <1>4 DEF DriverInv, ReassignedAreMarked, TasksAreInOnePlace
  <2>2. w \in m.workers /\ (n = susp \/ n \in RematchTasksToWorkers(back))
    BY <2>1 DEF HandleHostsuspend
  <2> HIDE DEF susp, t
  <2>3. t \in Task
    BY <1>4 DEF DriverInv, DriverState
  <2>4. back = [susp EXCEPT !.running = susp.running \ {t}, !.todo = susp.todo \cup {t},
                            !.reassigned_tasks = susp.reassigned_tasks \cup {t}]
    BY <1>1 DEF DriverInv, DriverState
  <2> HIDE DEF back
  <2>5. back \in DriverState
    BY <1>1, <2>3, <2>4 DEF DriverInv, DriverState
  <2>6. /\ back.todo = susp.todo \cup {t} /\ back.running = susp.running \ {t}
        /\ back.created = susp.created
        /\ back.completed = susp.completed /\ back.live = susp.live
        /\ back.workers = susp.workers /\ back.runningtask = susp.runningtask
        /\ back.reassigned_tasks = susp.reassigned_tasks \cup {t}
        /\ back.reassigned_tasks_done = susp.reassigned_tasks_done
        /\ back.num_completed_tasks = susp.num_completed_tasks
    BY <1>1, <2>4 DEF DriverInv, DriverState
  <2>7. DriverInv(back)
    BY <1>1, <1>2, <1>4, <2>5, <2>6
       DEF DriverInv, TasksAreInOnePlace, PointersAreLive, ReassignedAreMarked
  <2> QED
    BY <1>1, <1>3, <2>2, <2>7
<1>5. CASE t \notin m.running
  <2>1. w \in m.workers /\ n = susp
    BY <1>5 DEF HandleHostsuspend
  <2> HIDE DEF susp
  <2> QED
    BY <1>1, <1>3, <2>1
<1> QED
  BY <1>4, <1>5

(* Only a worker that has its initial data is suspended. *)
LEMMA HandleHostsuspendFits ==
  ASSUME NEW m, DriverInv(m), NEW w \in Worker, NEW n \in HandleHostsuspend(m, w),
         w \in m.workers => m.state[w] # "INITIALIZING", NEW v \in Worker,
         NEW p, NEW in \in Seq(Message), NEW out, NEW news, Fits(m, v, p, in, out, news)
  PROVE  Fits(n, v, p, in, out, news)
<1>1. CASE n = m
  BY <1>1
<1>2. CASE n # m
  <2>1. PICK k : /\ DriverInv(k) /\ SetTo(m, k, w, "SUSPENDED")
                 /\ n = k \/ n \in RematchTasksToWorkers(k)
    BY <1>2, HandleHostsuspendShape
  <2>2. w \in m.workers
    BY <1>2, HandleHostsuspendShape
  <2>3. Fits(k, v, p, in, out, news)
    <3>1. CASE v # w
      <4>1. Untouched(m, k, v)
        BY <2>1, <3>1 DEF SetTo, Untouched, DriverInv, DriverState
      <4> QED
        BY <4>1, CalmFits DEF Calm
    <3>2. CASE v = w
      <4> DEFINE q == in \o m.sent[v]
      <4>1. InStep(m, v, p, q, out, news) /\ k.sent[v] = m.sent[v]
        BY <2>1 DEF Fits, SetTo
      <4>2. /\ k.workers = m.workers /\ k.isBenchMark = m.isBenchMark
            /\ k.runningtask = m.runningtask /\ k.state[v] = "SUSPENDED" /\ k.halt = m.halt
        BY <2>1, <3>2 DEF SetTo, DriverInv, DriverState
      <4> HIDE DEF q
      <4>3. InStep(k, v, p, q, out, news)
        BY <2>2, <3>2, <4>1, <4>2 DEF InStep, BenchInStep, WorkInStep, Owes
      <4> QED
        BY <4>1, <4>3 DEF Fits, q
    <3> QED
      BY <3>1, <3>2
  <2> QED
    BY <2>1, <2>3, RematchFits
<1> QED
  BY <1>1, <1>2

LEMMA HandleHostsuspendHolds ==
  ASSUME NEW m, DriverInv(m), Attended(m), NEW w \in Worker, NEW n \in HandleHostsuspend(m, w)
  PROVE  Attended(n)
<1>1. CASE n # m
  <2>1. PICK k : /\ DriverInv(k) /\ SetTo(m, k, w, "SUSPENDED")
                 /\ n = k \/ n \in RematchTasksToWorkers(k)
    BY <1>1, HandleHostsuspendShape
  <2>2. \A v \in m.workers : k.state[v] = "IDLE" => m.state[v] = "IDLE"
    BY <2>1 DEF SetTo, DriverInv, DriverState
  <2>3. Attended(k)
    BY <2>1, <2>2, SameHolds DEF SetTo
  <2> QED
    BY <2>1, <2>3, RematchHolds
<1> QED
  BY <1>1

LEMMA HandleHostresumeFits ==
  ASSUME NEW m, DriverInv(m), NEW w \in Worker, NEW n \in HandleHostresume(m, w),
         NEW v \in Worker,
         NEW p, NEW in \in Seq(Message), NEW out, NEW news, Fits(m, v, p, in, out, news)
  PROVE  Fits(n, v, p, in, out, news)
<1>1. CASE n = m
  BY <1>1
<1>2. CASE n # m
  <2> DEFINE s == IF m.runningtask[w] # NoTask THEN "WORKING"
                  ELSE IF m.isBenchMark[w] THEN "BENCHMARKING" ELSE "IDLE"
  <2>1. w \in m.workers /\ m.state[w] = "SUSPENDED" /\ n = [m EXCEPT !.state[w] = s]
    BY <1>2 DEF HandleHostresume
  <2>2. /\ m.runningtask[w] # NoTask => s = "WORKING"
        /\ m.runningtask[w] = NoTask /\ m.isBenchMark[w] => s = "BENCHMARKING"
        /\ m.runningtask[w] = NoTask /\ ~m.isBenchMark[w] => s = "IDLE"
    OBVIOUS
  <2> HIDE DEF s
  <2>3. SetTo(m, n, w, s)
    BY <2>1 DEF SetTo, DriverInv, DriverState
  <2>4. CASE v # w
    <3>1. Untouched(m, n, v)
      BY <2>3, <2>4 DEF SetTo, Untouched, DriverInv, DriverState
    <3> QED
      BY <3>1, CalmFits DEF Calm
  <2>5. CASE v = w
    <3> DEFINE q == in \o m.sent[v]
    <3>1. InStep(m, v, p, q, out, news) /\ n.sent[v] = m.sent[v]
      BY <2>3 DEF Fits, SetTo
    <3>2. /\ n.workers = m.workers /\ n.isBenchMark = m.isBenchMark
          /\ n.runningtask = m.runningtask /\ n.state[v] = s /\ n.halt = m.halt
      BY <2>3, <2>5 DEF SetTo, DriverInv, DriverState
    <3> HIDE DEF q
    <3>3. InStep(n, v, p, q, out, news)
      BY <2>1, <2>2, <2>5, <3>1, <3>2 DEF InStep, BenchInStep, WorkInStep, Owes
    <3> QED
      BY <3>1, <3>3 DEF Fits, q
  <2> QED
    BY <2>4, <2>5
<1> QED
  BY <1>1, <1>2

(* A worker that becomes idle again has no task. *)
LEMMA HandleHostresumeHolds ==
  ASSUME NEW m, DriverInv(m), Attended(m), NEW w \in Worker, NEW n \in HandleHostresume(m, w)
  PROVE  Attended(n)
<1>1. CASE n # m
  <2>1. PICK s : n = [m EXCEPT !.state[w] = s] /\ (m.runningtask[w] # NoTask => s = "WORKING")
    BY <1>1 DEF HandleHostresume
  <2>2. /\ n.running = m.running /\ n.workers = m.workers /\ n.runningtask = m.runningtask
        /\ n.state = [m.state EXCEPT ![w] = s]
    BY <2>1 DEF DriverInv, DriverState
  <2>3. \A v \in m.workers : n.state[v] = "IDLE" =>
                               m.state[v] = "IDLE" \/ m.runningtask[v] = NoTask
    BY <2>1, <2>2 DEF DriverInv, DriverState
  <2> QED
    BY <2>2, <2>3, SameHolds
<1> QED
  BY <1>1

(* A new worker is a process that has not said anything yet. *)
LEMMA AddWorkerFits ==
  ASSUME NEW m, DriverInv(m), NEW w \in Worker, w \notin m.workers, m.sent[w] = <<>>,
         NEW n \in CallHostaddlogic(AddWorker(m, w)), NEW v \in Worker,
         NEW p, NEW in \in Seq(Message), NEW out, NEW news,
         v # w => Fits(m, v, p, in, out, news),
         v = w => p = "starting" /\ in = <<>> /\ out = <<>> /\ news = <<>>
  PROVE  Fits(n, v, p, in, out, news)
<1> DEFINE k == AddWorker(m, w)
<1>1. /\ k.workers = m.workers \cup {w} /\ k.state = [m.state EXCEPT ![w] = "INITIALIZING"]
      /\ k.runningtask = m.runningtask /\ k.isBenchMark = m.isBenchMark /\ k.sent = m.sent
      /\ k.halt = m.halt
  BY DEF AddWorker, DriverInv, DriverState
<1>2. DriverInv(k)
  BY AddWorkerKeeps
<1> HIDE DEF k
<1>3. Fits(k, v, p, in, out, news)
  <2>1. CASE v # w
    <3>1. Untouched(m, k, v)
      BY <1>1, <2>1 DEF Untouched, DriverInv, DriverState
    <3> QED
      BY <2>1, <3>1, CalmFits DEF Calm
  <2>2. CASE v = w
    <3>1. in \o k.sent[w] = <<>>
      BY <1>1, <2>2, ConcatEmpty
    <3>2. k.state[w] = "INITIALIZING" /\ k.runningtask[w] = NoTask /\ w \in k.workers
      BY <1>1 DEF DriverInv, DriverState, PointersAreLive
    <3>3. FreshInStep(k, w, p, <<>>, out, news)
      BY <2>2, <3>2 DEF FreshInStep
    <3> QED
      BY <2>2, <3>1, <3>2, <3>3 DEF Fits, InStep
  <2> QED
    BY <2>1, <2>2
<1>4. n \in CallHostaddlogic(k)
  BY DEF k
<1> QED
  BY <1>2, <1>3, <1>4, CallHostaddlogicFits

LEMMA AddWorkerHolds ==
  ASSUME NEW m, DriverInv(m), Attended(m), NEW w \in Worker, w \notin m.workers,
         NEW n \in CallHostaddlogic(AddWorker(m, w))
  PROVE  Attended(n)
<1> DEFINE k == AddWorker(m, w)
<1>1. /\ k.workers = m.workers \cup {w} /\ k.state = [m.state EXCEPT ![w] = "INITIALIZING"]
      /\ k.runningtask = m.runningtask /\ k.running = m.running
  BY DEF AddWorker, DriverInv, DriverState
<1>2. DriverInv(k) /\ n \in CallHostaddlogic(k)
  BY AddWorkerKeeps
<1> HIDE DEF k
<1>3. Held(k)
  BY <1>1 DEF Attended, Held, Holders
<1>4. IdleIsFree(k)
  BY <1>1 DEF Attended, IdleIsFree, Idle, InState, DriverInv, DriverState
<1> QED
  BY <1>2, <1>3, <1>4, CallHostaddlogicHolds DEF Attended

-----------------------------------------------------------------------------
(* The inductive invariant.  What depends on the workers being in step is     *)
(* claimed as long as nothing out of the ordinary has happened.               *)

InOrder ==
  /\ \A w \in Worker : InStep(mw, w, proc[w], inbox[w], outbox[w], notices[w])
  /\ Running => Held(mw)

SystemInv ==
  /\ SystemTypeOK /\ IInv
  /\ mw.sent = [w \in Worker |-> <<>>]
  /\ \A w \in stopped : proc[w] # "none"
  /\ Ordinary => InOrder

LEMMA InOrderAttended ==
  ASSUME IInv, InOrder, Running
  PROVE  Attended(mw)
<1>1. ASSUME NEW w \in Idle(mw) PROVE mw.runningtask[w] = NoTask
  <2>1. w \in Worker /\ w \in mw.workers /\ mw.state[w] = "IDLE"
    BY <1>1 DEF Idle, InState, IInv, DriverInv, DriverState
  <2>2. InStep(mw, w, proc[w], inbox[w], outbox[w], notices[w])
    BY <2>1 DEF InOrder
  <2> QED
    BY <2>1, <2>2 DEF InStep, BenchInStep, WorkInStep
<1> QED
  BY <1>1 DEF InOrder, Attended, IdleIsFree

(* The messages of an iteration are delivered. *)
Delivered(m) ==
  /\ IInv' /\ mw'.sent = [w \in Worker |-> <<>>] /\ mw'.workers = m.workers
  /\ proc' \in [Worker -> ProcState] /\ inbox' \in [Worker -> Seq(Message)]
  /\ expired' \subseteq Worker
  /\ \A w \in Worker : proc[w] # "none" => proc'[w] # "none"

LEMMA DeliverKeeps ==
  ASSUME SystemTypeOK, NEW m, DriverInv(m), m.halt = "finished" => m.todo = {} /\ m.running = {},
         Deliver(m)
  PROVE  Delivered(m)
<1>1. mw' = [m EXCEPT !.sent = [w \in Worker |-> <<>>]] /\ DriverInv(mw')
  BY SentReset DEF Deliver
<1>2. /\ mw'.halt = m.halt /\ mw'.todo = m.todo /\ mw'.running = m.running
      /\ mw'.workers = m.workers /\ mw'.sent = [w \in Worker |-> <<>>]
  BY <1>1 DEF DriverInv, DriverState
<1>3. IInv'
  BY <1>1, <1>2 DEF IInv
<1>4. proc' \in [Worker -> ProcState]
  BY DEF Deliver, SystemTypeOK, ProcState
<1>5. inbox' \in [Worker -> Seq(Message)]
  BY DEF Deliver, SystemTypeOK, DriverInv, DriverState
<1>6. expired' \subseteq Worker /\ \A w \in Worker : proc[w] # "none" => proc'[w] # "none"
  BY DEF Deliver, SystemTypeOK
<1> QED
  BY <1>2, <1>3, <1>4, <1>5, <1>6 DEF Delivered

LEMMA DeadReadsNothing ==
  ASSUME NEW m, NEW w, NEW in, NEW out, NEW news, InStep(m, w, "dead", in, out, news)
  PROVE  InStep(m, w, "dead", <<>>, out, news)
BY DEF InStep, FreshInStep, BenchInStep, WorkInStep, GoneInStep, Owes

(* The process that is there once the iteration that ends in m is over. *)
Started(m, w) == IF w \in m.workers /\ proc[w] = "none" THEN "starting" ELSE proc[w]

LEMMA DeliverInOrder ==
  ASSUME SystemTypeOK, NEW m, DriverInv(m), Deliver(m),
         \A w \in Worker : Fits(m, w, Started(m, w), inbox[w], outbox'[w], notices'[w]),
         m.halt = "no" => Held(m)
  PROVE  InOrder'
<1>1. mw' = [m EXCEPT !.sent = [w \in Worker |-> <<>>]]
  BY DEF Deliver
<1>2. /\ mw'.halt = m.halt /\ mw'.running = m.running /\ mw'.workers = m.workers
      /\ mw'.runningtask = m.runningtask /\ mw'.state = m.state
      /\ mw'.isBenchMark = m.isBenchMark
  BY <1>1 DEF DriverInv, DriverState
<1>3. ASSUME NEW w \in Worker
      PROVE  InStep(mw', w, proc'[w], inbox'[w], outbox'[w], notices'[w])
  <2>1. InStep(m, w, Started(m, w), inbox[w] \o m.sent[w], outbox'[w], notices'[w])
    BY DEF Fits
  <2>2. proc'[w] = Started(m, w)
    BY DEF Deliver, Started
  <2>3. inbox'[w] = IF proc[w] = "dead" THEN <<>> ELSE inbox[w] \o m.sent[w]
    BY DEF Deliver
  <2>4. proc[w] = "dead" => Started(m, w) = "dead"
    BY DEF Started
  <2>5. InStep(m, w, proc'[w], inbox'[w], outbox'[w], notices'[w])
    BY <2>1, <2>2, <2>3, <2>4, DeadReadsNothing
  <2> QED
    BY <1>2, <2>5 DEF InStep, FreshInStep, BenchInStep, WorkInStep, Owes
<1>4. Running' => Held(mw')
  BY <1>2 DEF Running, Held, Holders
<1> QED
  BY <1>3, <1>4 DEF InOrder

LEMMA MasterStepKeeps ==
  ASSUME SystemTypeOK, NEW S, \A m \in S : DriverInv(m), MasterStep(S)
  PROVE  \E m \in S : Delivered(m)
<1>1. PICK m \in S : \E n \in EndOfIteration(m, WorkerTimeout, expired) : Deliver(n)
  BY DEF MasterStep
<1>2. PICK n \in EndOfIteration(m, WorkerTimeout, expired) : Deliver(n)
  BY <1>1
<1>3. /\ DriverInv(n) /\ (n.halt = "finished" => n.todo = {} /\ n.running = {})
      /\ n.workers = m.workers
  BY EndOfIterationKeeps, EndOfIterationHolds
<1>4. Delivered(n)
  BY <1>2, <1>3, DeliverKeeps
<1> QED
  BY <1>3, <1>4 DEF Delivered

LEMMA MasterStepInOrder ==
  ASSUME SystemTypeOK, NEW S, MasterStep(S),
         \A m \in S :
            /\ DriverInv(m) /\ Holding(m)
            /\ \A w \in Worker :
                  \/ Fits(m, w, proc[w], inbox[w], outbox'[w], notices'[w])
                  \/ /\ proc[w] = "none" /\ w \in m.workers
                     /\ Fits(m, w, "starting", inbox[w], outbox'[w], notices'[w])
  PROVE  InOrder'
<1>1. PICK m \in S : \E n \in EndOfIteration(m, WorkerTimeout, expired) : Deliver(n)
  BY DEF MasterStep
<1>2. PICK n \in EndOfIteration(m, WorkerTimeout, expired) : Deliver(n)
  BY <1>1
<1>3. DriverInv(m) /\ DriverInv(n) /\ n.workers = m.workers /\ (n.halt = "no" => Held(n))
  BY EndOfIterationKeeps, EndOfIterationHolds
<1>4. ASSUME NEW w \in Worker
      PROVE  Fits(n, w, Started(n, w), inbox[w], outbox'[w], notices'[w])
  <2>1. inbox[w] \in Seq(Message) /\ m.sent[w] \in Seq(Message)
    BY <1>3 DEF SystemTypeOK, DriverInv, DriverState
  <2>2. CASE Fits(m, w, proc[w], inbox[w], outbox'[w], notices'[w])
    <3>1. w \in m.workers => proc[w] # "none"
      <4>1. inbox[w] \o m.sent[w] \in Seq(Message)
        BY <2>1
      <4> QED
        BY <2>2, <4>1, StepGone DEF Fits
    <3>2. Started(n, w) = proc[w]
      BY <1>3, <3>1 DEF Started
    <3> QED
      BY <1>3, <2>1, <2>2, <3>2, EndOfIterationFits
  <2>3. CASE /\ proc[w] = "none" /\ w \in m.workers
             /\ Fits(m, w, "starting", inbox[w], outbox'[w], notices'[w])
    <3>1. Started(n, w) = "starting"
      BY <1>3, <2>3 DEF Started
    <3> QED
      BY <1>3, <2>1, <2>3, <3>1, EndOfIterationFits
  <2> QED
    BY <2>2, <2>3
<1> QED
  BY <1>2, <1>3, <1>4, DeliverInOrder

-----------------------------------------------------------------------------
(* The actions of the master. *)

Notice == {"HOSTDELETE", "TASKEXIT", "HOSTSUSPEND", "HOSTRESUME"}

QueuesAreTyped ==
  outbox \in [Worker -> Seq(ReportType)] /\ notices \in [Worker -> Seq(Notice)]

CountsAreTyped ==
  faults \in 0..MaxFaults /\ mishaps \in 0..MaxMishaps /\ oddities \in 0..MaxOddities

LEMMA MasterActionKeeps ==
  ASSUME SystemInv, NEW m, Delivered(m), QueuesAreTyped', CountsAreTyped',
         stopped' = stopped, Ordinary' => InOrder'
  PROVE  SystemInv'
<1>1. SystemTypeOK'
  BY DEF SystemInv, SystemTypeOK, TypeOK, Delivered, IInv, DriverInv, QueuesAreTyped,
         CountsAreTyped, Notice
<1>2. \A w \in stopped' : proc'[w] # "none"
  BY DEF SystemInv, SystemTypeOK, Delivered
<1> QED
  BY <1>1, <1>2 DEF SystemInv, Delivered

LEMMA TakeReport ==
  ASSUME SystemTypeOK, NEW w \in Worker, HasMessage(outbox, w), Take(outbox, w),
         notices' = notices
  PROVE  /\ QueuesAreTyped'
         /\ outbox[w] # <<>>
         /\ \A v \in Worker : outbox'[v] = IF v = w THEN Tail(outbox[v]) ELSE outbox[v]
BY DEF SystemTypeOK, HasMessage, Take, QueuesAreTyped, Notice

LEMMA GetInitKeeps ==
  ASSUME SystemInv, NEW w \in Worker, GetInit(w)
  PROVE  SystemInv'
<1> DEFINE S == Affordable(OnInit(mw, w), w)
<1>1. /\ MasterStep(S) /\ CountFault(w) /\ Head(outbox[w]).tag = "INIT" /\ Running
      /\ HasMessage(outbox, w) /\ Take(outbox, w)
      /\ UNCHANGED <<notices, stopped, mishaps, oddities>>
  BY DEF GetInit, MasterStep
<1>2. DriverInv(mw) /\ SystemTypeOK /\ IInv
  BY DEF SystemInv, IInv
<1>3. \A m \in S : DriverInv(m) /\ m \in OnInit(mw, w)
  BY <1>2, OnInitKeeps DEF Affordable
<1>4. QueuesAreTyped'
  BY <1>1, <1>2, TakeReport
<1>5. PICK m \in S : Delivered(m)
  <2> HIDE DEF S
  <2> QED
    BY <1>1, <1>2, <1>3, MasterStepKeeps
<1>6. CountsAreTyped'
  <2>1. faults + FaultsIn(m, w) <= MaxFaults /\ mw'.workers = m.workers
    BY <1>5 DEF Affordable, Delivered
  <2> QED
    BY <1>1, <1>2, <2>1, BoundsAreNaturals
       DEF CountFault, FaultsIn, CountsAreTyped, SystemTypeOK
<1>7. ASSUME Ordinary' PROVE InOrder'
  <2>1. InOrder
    BY <1>1, <1>7 DEF SystemInv, Ordinary
  <2>2. Attended(mw)
    BY <1>1, <1>2, <2>1, InOrderAttended
  <2>3. ASSUME w \in mw.workers PROVE mw.runningtask[w] = NoTask
    <3>1. InStep(mw, w, proc[w], inbox[w], outbox[w], notices[w]) /\ outbox[w] # <<>>
      BY <1>1, <2>1 DEF InOrder, HasMessage
    <3>2. outbox[w] \in Seq(ReportType)
      BY <1>2 DEF SystemTypeOK
    <3>3. FreshInStep(mw, w, proc[w], inbox[w], outbox[w], notices[w])
      BY <1>1, <2>3, <3>1, <3>2, Reporter
    <3> QED
      BY <3>3 DEF FreshInStep
  <2>4. ASSUME NEW n \in S, NEW v \in Worker
        PROVE  Fits(n, v, proc[v], inbox[v], outbox'[v], notices'[v])
    <3>1. InStep(mw, v, proc[v], inbox[v], outbox[v], notices[v]) /\ mw.sent[v] = <<>>
      BY <2>1 DEF InOrder, SystemInv
    <3>2. inbox[v] \in Seq(Message) /\ outbox[v] \in Seq(ReportType)
      BY <1>2 DEF SystemTypeOK
    <3>3. /\ v = w => outbox[v] # <<>> /\ Head(outbox[v]).tag = "INIT"
          /\ outbox'[v] = IF v = w THEN Tail(outbox[v]) ELSE outbox[v]
      BY <1>1, <1>2, TakeReport
    <3>4. n \in OnInit(mw, w)
      BY <1>3
    <3> HIDE DEF S
    <3>5. Fits(n, v, proc[v], inbox[v], IF v = w THEN Tail(outbox[v]) ELSE outbox[v], notices[v])
      BY <1>2, <3>1, <3>2, <3>3, <3>4, OnInitFits
    <3> QED
      BY <1>1, <3>3, <3>5
  <2>5. \A n \in S : DriverInv(n) /\ Holding(n)
    BY <1>2, <1>3, <2>2, <2>3, OnInitHolds
  <2> HIDE DEF S
  <2> QED
    BY <1>1, <1>2, <2>4, <2>5, MasterStepInOrder
<1> HIDE DEF S
<1> QED
  BY <1>1, <1>4, <1>5, <1>6, <1>7, MasterActionKeeps

LEMMA GetBenchResultsKeeps ==
  ASSUME SystemInv, NEW w \in Worker, GetBenchResults(w)
  PROVE  SystemInv'
<1> DEFINE okay == Head(outbox[w]).okay
           S == OnBenchResults(mw, w, okay)
<1>1. /\ MasterStep(S) /\ Head(outbox[w]).tag = "BENCH_RESULTS" /\ Running
      /\ HasMessage(outbox, w) /\ Take(outbox, w)
      /\ UNCHANGED <<notices, stopped, faults, mishaps, oddities>>
  BY DEF GetBenchResults, MasterStep
<1>2. DriverInv(mw) /\ SystemTypeOK /\ IInv
  BY DEF SystemInv, IInv
<1> HIDE DEF okay
<1>3. \A m \in S : DriverInv(m)
  BY <1>2, OnBenchResultsKeeps
<1>4. QueuesAreTyped' /\ CountsAreTyped'
  BY <1>1, <1>2, TakeReport DEF CountsAreTyped, SystemTypeOK
<1>5. PICK m \in S : Delivered(m)
  <2> HIDE DEF S
  <2> QED
    BY <1>1, <1>2, <1>3, MasterStepKeeps
<1>6. ASSUME Ordinary' PROVE InOrder'
  <2>1. InOrder
    BY <1>1, <1>6 DEF SystemInv, Ordinary
  <2>2. Attended(mw)
    BY <1>1, <1>2, <2>1, InOrderAttended
  <2>3. ASSUME w \in mw.workers PROVE mw.runningtask[w] = NoTask
    <3>1. InStep(mw, w, proc[w], inbox[w], outbox[w], notices[w]) /\ outbox[w] # <<>>
      BY <1>1, <2>1 DEF InOrder, HasMessage
    <3>2. outbox[w] \in Seq(ReportType)
      BY <1>2 DEF SystemTypeOK
    <3>3. BenchInStep(mw, w, proc[w], inbox[w], outbox[w])
      BY <1>1, <2>3, <3>1, <3>2, Reporter
    <3> QED
      BY <3>3 DEF BenchInStep
  <2>4. ASSUME NEW n \in S, NEW v \in Worker
        PROVE  Fits(n, v, proc[v], inbox[v], outbox'[v], notices'[v])
    <3>1. InStep(mw, v, proc[v], inbox[v], outbox[v], notices[v]) /\ mw.sent[v] = <<>>
      BY <2>1 DEF InOrder, SystemInv
    <3>2. inbox[v] \in Seq(Message) /\ outbox[v] \in Seq(ReportType)
      BY <1>2 DEF SystemTypeOK
    <3>3. /\ v = w => outbox[v] # <<>> /\ Head(outbox[v]).tag = "BENCH_RESULTS"
          /\ outbox'[v] = IF v = w THEN Tail(outbox[v]) ELSE outbox[v]
      BY <1>1, <1>2, TakeReport
    <3>4. Fits(n, v, proc[v], inbox[v], IF v = w THEN Tail(outbox[v]) ELSE outbox[v], notices[v])
      BY <1>2, <3>1, <3>2, <3>3, OnBenchResultsFits
    <3> QED
      BY <1>1, <3>3, <3>4
  <2>5. \A n \in S : DriverInv(n) /\ Holding(n)
    BY <1>2, <1>3, <2>2, <2>3, OnBenchResultsHolds DEF Holding
  <2> HIDE DEF S
  <2> QED
    BY <1>1, <1>2, <2>4, <2>5, MasterStepInOrder
<1> HIDE DEF S
<1> QED
  BY <1>1, <1>4, <1>5, <1>6, MasterActionKeeps

LEMMA GetResultsKeeps ==
  ASSUME SystemInv, NEW w \in Worker, GetResults(w)
  PROVE  SystemInv'
<1>1. PICK N \in SUBSET (Task \ mw.created), r \in UserReturns :
        MasterStep(OnResults(mw, w, Head(outbox[w]).task, N, r))
  BY DEF GetResults
<1> DEFINE t == Head(outbox[w]).task
           S == OnResults(mw, w, t, N, r)
<1>2. /\ MasterStep(S) /\ Head(outbox[w]).tag = "RESULTS" /\ Running
      /\ HasMessage(outbox, w) /\ Take(outbox, w)
      /\ UNCHANGED <<notices, stopped, faults, mishaps, oddities>>
  BY <1>1 DEF GetResults, MasterStep
<1>3. DriverInv(mw) /\ SystemTypeOK /\ IInv
  BY DEF SystemInv, IInv
<1>4. t \in Task \cup {NoTask}
  <2>1. outbox[w] \in Seq(ReportType) /\ outbox[w] # <<>>
    BY <1>2, <1>3 DEF SystemTypeOK, HasMessage
  <2>2. Head(outbox[w]) \in ReportType
    BY <2>1
  <2> QED
    BY <2>2 DEF ReportType
<1> HIDE DEF t
<1>5. \A m \in S : DriverInv(m)
  BY <1>3, <1>4, OnResultsKeeps
<1>6. QueuesAreTyped' /\ CountsAreTyped'
  BY <1>2, <1>3, TakeReport DEF CountsAreTyped, SystemTypeOK
<1>7. PICK m \in S : Delivered(m)
  <2> HIDE DEF S
  <2> QED
    BY <1>2, <1>3, <1>5, MasterStepKeeps
<1>8. ASSUME Ordinary' PROVE InOrder'
  <2>1. InOrder
    BY <1>2, <1>8 DEF SystemInv, Ordinary
  <2>2. Attended(mw)
    BY <1>2, <1>3, <2>1, InOrderAttended
  <2>3. ASSUME NEW n \in S, NEW v \in Worker
        PROVE  Fits(n, v, proc[v], inbox[v], outbox'[v], notices'[v])
    <3>1. InStep(mw, v, proc[v], inbox[v], outbox[v], notices[v]) /\ mw.sent[v] = <<>>
      BY <2>1 DEF InOrder, SystemInv
    <3>2. inbox[v] \in Seq(Message) /\ outbox[v] \in Seq(ReportType)
      BY <1>3 DEF SystemTypeOK
    <3>3. /\ v = w => /\ outbox[v] # <<>> /\ Head(outbox[v]).tag = "RESULTS"
                      /\ t = Head(outbox[v]).task
          /\ outbox'[v] = IF v = w THEN Tail(outbox[v]) ELSE outbox[v]
      BY <1>2, <1>3, TakeReport DEF t
    <3>4. Fits(n, v, proc[v], inbox[v], IF v = w THEN Tail(outbox[v]) ELSE outbox[v], notices[v])
      BY <1>3, <1>4, <3>1, <3>2, <3>3, OnResultsFits
    <3> QED
      BY <1>2, <3>3, <3>4
  <2>4. \A n \in S : DriverInv(n) /\ Holding(n)
    BY <1>3, <1>4, <1>5, <2>2, OnResultsHolds
  <2> HIDE DEF S
  <2> QED
    BY <1>2, <1>3, <2>3, <2>4, MasterStepInOrder
<1> HIDE DEF S
<1> QED
  BY <1>2, <1>6, <1>7, <1>8, MasterActionKeeps

(* News of a death, of a suspension or of the end of one. *)
OnNotice(m, w, news) ==
  CASE news = "HOSTSUSPEND" -> HandleHostsuspend(m, w)
    [] news = "HOSTRESUME" -> HandleHostresume(m, w)
    [] OTHER -> HandleExit(m, w)

LEMMA OnNoticeCases ==
  ASSUME NEW m, NEW w, NEW news, NEW n \in OnNotice(m, w, news)
  PROVE  \/ news = "HOSTSUSPEND" /\ n \in HandleHostsuspend(m, w)
         \/ n \in HandleHostresume(m, w) \/ n \in HandleExit(m, w)
<1>1. CASE news = "HOSTSUSPEND"
  BY <1>1 DEF OnNotice
<1>2. CASE news = "HOSTRESUME"
  BY <1>2 DEF OnNotice
<1>3. CASE news # "HOSTSUSPEND" /\ news # "HOSTRESUME"
  BY <1>3 DEF OnNotice
<1> QED
  BY <1>1, <1>2, <1>3

LEMMA TakeNotice ==
  ASSUME SystemTypeOK, NEW w \in Worker, HasMessage(notices, w), Take(notices, w),
         outbox' = outbox
  PROVE  /\ QueuesAreTyped'
         /\ notices[w] \in Seq(Notice) /\ notices[w] # <<>>
         /\ \A v \in Worker : notices'[v] = IF v = w THEN Tail(notices[v]) ELSE notices[v]
BY DEF SystemTypeOK, HasMessage, Take, QueuesAreTyped, Notice

LEMMA GetNoticeKeeps ==
  ASSUME SystemInv, NEW w \in Worker, GetNotice(w)
  PROVE  SystemInv'
<1> DEFINE news == Head(notices[w])
           S == OnNotice(mw, w, news)
<1>1. /\ MasterStep(S) /\ Running /\ HasMessage(notices, w) /\ Take(notices, w)
      /\ UNCHANGED <<outbox, stopped, faults, mishaps, oddities>>
  BY DEF GetNotice, MasterStep, OnNotice
<1>2. DriverInv(mw) /\ SystemTypeOK /\ IInv
  BY DEF SystemInv, IInv
<1>3. news = Head(notices[w])
  OBVIOUS
<1> HIDE DEF news
<1>4. \A m \in S : DriverInv(m)
  BY <1>2, OnNoticeCases, HandleHostsuspendKeeps, HandleHostresumeKeeps, HandleExitKeeps
<1>5. QueuesAreTyped' /\ CountsAreTyped'
  BY <1>1, <1>2, TakeNotice DEF CountsAreTyped, SystemTypeOK
<1> HIDE DEF S
<1>6. PICK m \in S : Delivered(m)
  BY <1>1, <1>2, <1>4, MasterStepKeeps
<1>7. ASSUME Ordinary' PROVE InOrder'
  <2>1. InOrder
    BY <1>1, <1>7 DEF SystemInv, Ordinary
  <2>2. Attended(mw)
    BY <1>1, <1>2, <2>1, InOrderAttended
  <2>3. ASSUME w \in mw.workers, news = "HOSTSUSPEND"
        PROVE  mw.state[w] # "INITIALIZING"
    <3>1. InStep(mw, w, proc[w], inbox[w], outbox[w], notices[w])
      BY <2>1 DEF InOrder
    <3>2. notices[w] \in Seq(Notice) /\ notices[w] # <<>>
      BY <1>1, <1>2, TakeNotice
    <3>3. notices[w][1] = "HOSTSUSPEND" /\ 1 \in DOMAIN notices[w]
      BY <1>3, <2>3, <3>2
    <3>4. ~FreshInStep(mw, w, proc[w], inbox[w], outbox[w], notices[w])
      BY <3>3 DEF FreshInStep
    <3> QED
      BY <2>3, <3>1, <3>4 DEF InStep
  <2>4. ASSUME NEW n \in S, NEW v \in Worker
        PROVE  Fits(n, v, proc[v], inbox[v], outbox'[v], notices'[v])
    <3>1. InStep(mw, v, proc[v], inbox[v], outbox[v], notices[v]) /\ mw.sent[v] = <<>>
      BY <2>1 DEF InOrder, SystemInv
    <3>2. inbox[v] \in Seq(Message)
      BY <1>2 DEF SystemTypeOK
    <3>3. InStep(mw, v, proc[v], inbox[v], outbox[v], notices'[v])
      BY <1>1, <1>2, <3>1, TakeNotice, NewsTaken
    <3>4. Fits(mw, v, proc[v], inbox[v], outbox[v], notices'[v])
      BY <3>1, <3>2, <3>3, ConcatEmpty DEF Fits
    <3>5. \/ news = "HOSTSUSPEND" /\ n \in HandleHostsuspend(mw, w)
          \/ n \in HandleHostresume(mw, w) \/ n \in HandleExit(mw, w)
      BY OnNoticeCases DEF S
    <3>6. Fits(n, v, proc[v], inbox[v], outbox[v], notices'[v])
      <4>1. CASE news = "HOSTSUSPEND" /\ n \in HandleHostsuspend(mw, w)
        BY <1>2, <2>3, <3>2, <3>4, <4>1, HandleHostsuspendFits
      <4>2. CASE n \in HandleHostresume(mw, w)
        BY <1>2, <3>2, <3>4, <4>2, HandleHostresumeFits
      <4>3. CASE n \in HandleExit(mw, w)
        BY <1>2, <3>2, <3>4, <4>3, HandleExitFits
      <4> QED
        BY <3>5, <4>1, <4>2, <4>3
    <3> QED
      BY <1>1, <3>6
  <2>5. \A n \in S : DriverInv(n) /\ Holding(n)
    BY <1>2, <1>4, <2>2, OnNoticeCases, HandleHostsuspendHolds, HandleHostresumeHolds,
       HandleExitHolds DEF Holding, S
  <2> QED
    BY <1>1, <1>2, <2>4, <2>5, MasterStepInOrder
<1> QED
  BY <1>1, <1>5, <1>6, <1>7, MasterActionKeeps

LEMMA GetHostaddKeeps ==
  ASSUME SystemInv, NEW w \in Worker, GetHostadd(w)
  PROVE  SystemInv'
<1> DEFINE S == CallHostaddlogic(AddWorker(mw, w))
<1>1. /\ MasterStep(S) /\ Running /\ proc[w] = "none"
      /\ UNCHANGED <<outbox, notices, stopped, faults, mishaps, oddities>>
  BY DEF GetHostadd, MasterStep, Absent
<1>2. DriverInv(mw) /\ SystemTypeOK /\ IInv
  BY DEF SystemInv, IInv
<1>3. \A m \in S : DriverInv(m)
  BY <1>2, AddWorkerKeeps, CallHostaddlogicKeeps
<1>4. QueuesAreTyped' /\ CountsAreTyped'
  BY <1>1, <1>2 DEF QueuesAreTyped, CountsAreTyped, SystemTypeOK, Notice
<1>5. PICK m \in S : Delivered(m)
  <2> HIDE DEF S
  <2> QED
    BY <1>1, <1>2, <1>3, MasterStepKeeps
<1>6. ASSUME Ordinary' PROVE InOrder'
  <2>1. InOrder
    BY <1>1, <1>6 DEF SystemInv, Ordinary
  <2>2. Attended(mw)
    BY <1>1, <1>2, <2>1, InOrderAttended
  <2>3. /\ w \notin mw.workers
        /\ inbox[w] = <<>> /\ outbox[w] = <<>> /\ notices[w] = <<>>
    <3>1. InStep(mw, w, "none", inbox[w], outbox[w], notices[w])
      BY <1>1, <2>1 DEF InOrder
    <3>2. inbox[w] \in Seq(Message)
      BY <1>2 DEF SystemTypeOK
    <3>3. GoneInStep("none", inbox[w], outbox[w], notices[w]) /\ w \notin mw.workers
      BY <3>1, <3>2, StepGone
    <3> QED
      BY <3>3 DEF GoneInStep
  <2>4. ASSUME NEW n \in S, NEW v \in Worker
        PROVE  \/ Fits(n, v, proc[v], inbox[v], outbox'[v], notices'[v])
               \/ /\ proc[v] = "none" /\ v \in n.workers
                  /\ Fits(n, v, "starting", inbox[v], outbox'[v], notices'[v])
    <3>1. mw.sent[v] = <<>> /\ mw.sent[w] = <<>> /\ inbox[v] \in Seq(Message)
      BY <1>2 DEF SystemInv, SystemTypeOK
    <3>2. CASE v # w
      <4>1. Fits(mw, v, proc[v], inbox[v], outbox[v], notices[v])
        BY <2>1, <3>1, ConcatEmpty DEF InOrder, Fits
      <4>2. Fits(n, v, proc[v], inbox[v], outbox[v], notices[v])
        BY <1>2, <2>3, <3>1, <3>2, <4>1, AddWorkerFits
      <4> QED
        BY <1>1, <4>2
    <3>3. CASE v = w
      <4>1. Fits(n, w, "starting", inbox[w], outbox[w], notices[w])
        BY <1>2, <2>3, <3>1, <3>3, AddWorkerFits
      <4>2. w \in n.workers
        <5> DEFINE k == AddWorker(mw, w)
        <5>1. w \in InState(k, "INITIALIZING")
          <6>1. w \in k.workers /\ k.state[w] = "INITIALIZING"
            BY <1>2 DEF AddWorker, DriverInv, DriverState
          <6> HIDE DEF k
          <6> QED
            BY <6>1 DEF InState
        <5> HIDE DEF k
        <5>2. n \in CallHostaddlogic(k) /\ DriverInv(k)
          BY <1>2, AddWorkerKeeps DEF k
        <5> QED
          BY <5>1, <5>2, CallHostaddlogicSpares
      <4> QED
        BY <1>1, <3>3, <4>1, <4>2
    <3> QED
      BY <3>2, <3>3
  <2>5. \A n \in S : DriverInv(n) /\ Holding(n)
    BY <1>2, <1>3, <2>2, <2>3, AddWorkerHolds DEF Holding
  <2> HIDE DEF S
  <2> QED
    BY <1>1, <1>2, <2>4, <2>5, MasterStepInOrder
<1> HIDE DEF S
<1> QED
  BY <1>1, <1>4, <1>5, <1>6, MasterActionKeeps

(* The loop has ended: what comes back is not read any more. *)
LEMMA FinishWorkersKeeps ==
  ASSUME SystemInv, FinishWorkers
  PROVE  SystemInv'
<1> DEFINE m == AllKilled(mw)
<1>1. /\ Deliver(m) /\ mw.halt \in {"finished", "stopped"}
      /\ UNCHANGED <<outbox, notices, stopped, faults, mishaps, oddities>>
  BY DEF FinishWorkers
<1>2. DriverInv(mw) /\ SystemTypeOK /\ IInv
  BY DEF SystemInv, IInv
<1>3. DriverInv(m) /\ m.todo = mw.todo /\ m.running = mw.running
  BY <1>2, AllKilledKeeps
<1>4. /\ m.workers = {} /\ m.halt = mw.halt
      /\ \A v \in Worker : m.sent[v] = IF v \in mw.workers
                                       THEN Append(<<>>, Control("KILL_YOURSELF")) ELSE <<>>
  BY <1>2 DEF AllKilled, RmWorkers, SystemInv, DriverInv, DriverState
<1> HIDE DEF m
<1>5. Delivered(m)
  BY <1>1, <1>2, <1>3, <1>4, DeliverKeeps DEF IInv
<1>6. QueuesAreTyped' /\ CountsAreTyped'
  BY <1>1, <1>2 DEF QueuesAreTyped, CountsAreTyped, SystemTypeOK, Notice
<1>7. ASSUME Ordinary' PROVE InOrder'
  <2>1. InOrder
    BY <1>1, <1>7 DEF SystemInv, Ordinary
  <2>2. ASSUME NEW v \in Worker
        PROVE  Fits(m, v, Started(m, v), inbox[v], outbox'[v], notices'[v])
    <3>1. Started(m, v) = proc[v] /\ inbox[v] \in Seq(Message)
      BY <1>2, <1>4 DEF Started, SystemTypeOK
    <3>2. /\ GoneInStep(proc[v], inbox[v], outbox[v], notices[v])
          /\ v \in mw.workers => proc[v] # "none"
      BY <2>1, <3>1, StepGone DEF InOrder
    <3>3. CASE v \in mw.workers
      <4> DEFINE x == Control("KILL_YOURSELF")
      <4>1. GoneInStep(proc[v], Append(inbox[v], x), outbox[v], notices[v])
        BY <3>1, <3>2, <3>3, GoneKilled
      <4>2. x \in Message /\ m.sent[v] = Append(<<>>, x)
        BY <1>4, <3>3, ControlIsMessage
      <4> HIDE DEF x
      <4>3. inbox[v] \o m.sent[v] = Append(inbox[v], x)
        BY <3>1, <4>2, ConcatAppend, ConcatEmpty
      <4> QED
        BY <1>1, <1>4, <3>1, <4>1, <4>3 DEF Fits, InStep
    <3>4. CASE v \notin mw.workers
      <4>1. inbox[v] \o m.sent[v] = inbox[v]
        BY <1>4, <3>1, <3>4, ConcatEmpty
      <4> QED
        BY <1>1, <1>4, <3>1, <3>2, <4>1 DEF Fits, InStep
    <3> QED
      BY <3>3, <3>4
  <2> QED
    BY <1>1, <1>2, <1>3, <1>4, <2>2, DeliverInOrder
<1> QED
  BY <1>1, <1>5, <1>6, <1>7, MasterActionKeeps

(* A failed checksum is out of the ordinary. *)
LEMMA GetChecksumErrorKeeps ==
  ASSUME SystemInv, NEW w \in Worker, GetChecksumError(w)
  PROVE  SystemInv'
<1> DEFINE S == HandleChecksum(mw, w)
<1>1. /\ MasterStep(S) /\ HasMessage(outbox, w) /\ Take(outbox, w) /\ Mishap(TRUE)
      /\ UNCHANGED <<notices, stopped, faults>>
  BY DEF GetChecksumError
<1>2. DriverInv(mw) /\ SystemTypeOK /\ IInv
  BY DEF SystemInv, IInv
<1>3. \A m \in S : DriverInv(m)
  BY <1>2, HandleChecksumKeeps
<1> HIDE DEF S
<1>4. PICK m \in S : Delivered(m)
  BY <1>1, <1>2, <1>3, MasterStepKeeps
<1>5. QueuesAreTyped' /\ CountsAreTyped' /\ ~Ordinary'
  <2>1. CountsAreTyped' /\ ~Ordinary'
    BY <1>1, <1>2, BoundsAreNaturals DEF Mishap, CountsAreTyped, SystemTypeOK, Ordinary
  <2> QED
    BY <1>1, <1>2, <2>1, TakeReport
<1> QED
  BY <1>1, <1>4, <1>5, MasterActionKeeps

-----------------------------------------------------------------------------
(* The actions of a worker, and what happens to it. *)

Others(w) ==
  \A v \in Worker : v # w => /\ proc'[v] = proc[v] /\ inbox'[v] = inbox[v]
                             /\ outbox'[v] = outbox[v] /\ notices'[v] = notices[v]

ProcessesAreTyped ==
  /\ proc \in [Worker -> ProcState] /\ inbox \in [Worker -> Seq(Message)]
  /\ stopped \subseteq Worker /\ expired \subseteq Worker

LEMMA WorkerActionKeeps ==
  ASSUME SystemInv, NEW w \in Worker, mw' = mw, Others(w),
         ProcessesAreTyped', QueuesAreTyped', CountsAreTyped',
         \A v \in stopped' : proc'[v] # "none",
         Ordinary' =>
           /\ Ordinary
           /\ InStep(mw, w, proc[w], inbox[w], outbox[w], notices[w])
                => InStep(mw, w, proc'[w], inbox'[w], outbox'[w], notices'[w])
  PROVE  SystemInv'
<1>1. SystemTypeOK' /\ IInv'
  BY DEF SystemInv, SystemTypeOK, TypeOK, IInv, ProcessesAreTyped, QueuesAreTyped,
         CountsAreTyped, Notice
<1>2. ASSUME Ordinary' PROVE InOrder'
  <2>1. InOrder
    BY <1>2 DEF SystemInv
  <2>2. \A v \in Worker : InStep(mw, v, proc'[v], inbox'[v], outbox'[v], notices'[v])
    BY <1>2, <2>1 DEF InOrder, Others
  <2> QED
    BY <2>1, <2>2 DEF InOrder, Running
<1> QED
  BY <1>1, <1>2 DEF SystemInv

(* The invariant's parts that the lemmas below start from. *)
LEMMA PartsAreTyped ==
  ASSUME SystemInv
  PROVE  /\ ProcessesAreTyped /\ QueuesAreTyped /\ CountsAreTyped
         /\ \A v \in stopped : proc[v] # "none"
BY DEF SystemInv, SystemTypeOK, ProcessesAreTyped, QueuesAreTyped, CountsAreTyped, Notice

LEMMA GreetMasterKeeps ==
  ASSUME SystemInv, NEW w \in Worker, GreetMaster(w)
  PROVE  SystemInv'
<1>1. /\ ProcessesAreTyped /\ QueuesAreTyped /\ CountsAreTyped
      /\ \A v \in stopped : proc[v] # "none"
  BY PartsAreTyped
<1>2. /\ proc[w] = "starting" /\ proc' = [proc EXCEPT ![w] = "waiting"]
      /\ outbox' = [outbox EXCEPT ![w] = Append(@, Report("INIT"))]
      /\ UNCHANGED <<mw, inbox, notices, stopped, expired, faults, mishaps, oddities>>
  BY DEF GreetMaster, Become, Say
<1>3. Report("INIT") \in ReportType
  BY DEF Report, ReportType
<1>4. ProcessesAreTyped' /\ QueuesAreTyped' /\ CountsAreTyped' /\ Others(w)
  BY <1>1, <1>2, <1>3
     DEF ProcessesAreTyped, QueuesAreTyped, CountsAreTyped, Others, ProcState
<1>5. \A v \in stopped' : proc'[v] # "none"
  BY <1>1, <1>2 DEF ProcessesAreTyped
<1>6. ASSUME InStep(mw, w, proc[w], inbox[w], outbox[w], notices[w])
      PROVE  InStep(mw, w, proc'[w], inbox'[w], outbox'[w], notices'[w])
  <2>1. /\ proc'[w] = "waiting" /\ inbox'[w] = inbox[w] /\ notices'[w] = notices[w]
        /\ outbox'[w] = Append(outbox[w], Report("INIT"))
    BY <1>1, <1>2 DEF ProcessesAreTyped, QueuesAreTyped
  <2>2. CASE w \notin mw.workers
    <3>1. GoneInStep("starting", inbox[w], outbox[w], notices[w])
      BY <1>2, <1>6, <2>2 DEF InStep
    <3>2. GoneInStep("waiting", inbox[w], outbox'[w], notices[w])
      BY <3>1 DEF GoneInStep, Only, ProcState
    <3> QED
      BY <2>1, <2>2, <3>2 DEF InStep
  <2>3. CASE w \in mw.workers
    <3>1. FreshInStep(mw, w, "starting", inbox[w], outbox[w], notices[w])
          /\ mw.state[w] = "INITIALIZING"
      BY <1>2, <1>6, <2>3 DEF InStep, BenchInStep, WorkInStep
    <3>2. outbox'[w] = <<Report("INIT")>>
      <4>1. outbox[w] = <<>>
        BY <3>1 DEF FreshInStep
      <4> QED
        BY <2>1, <4>1
    <3>3. FreshInStep(mw, w, "waiting", inbox[w], outbox'[w], notices[w])
      BY <3>1, <3>2 DEF FreshInStep
    <3> QED
      BY <2>1, <2>3, <3>1, <3>3 DEF InStep
  <2> QED
    BY <2>2, <2>3
<1>7. Ordinary' => Ordinary
  BY <1>2 DEF Ordinary
<1> QED
  BY <1>2, <1>4, <1>5, <1>6, <1>7, WorkerActionKeeps

(* After its first message a worker has got, or will never get, INIT_REPLY. *)
LEMMA GoneReads ==
  ASSUME NEW in \in Seq(Message), in # <<>>, NEW out, NEW news, NEW q,
         GoneInStep("waiting", in, out, news)
  PROVE  GoneInStep("ready", Tail(in), q, news)
<1>1. ASSUME NEW i \in DOMAIN Tail(in) PROVE Tail(in)[i].tag = "KILL_YOURSELF"
  <2>1. Tail(in)[i] = in[i + 1] /\ i + 1 \in DOMAIN in /\ i + 1 > 1
    OBVIOUS
  <2> QED
    BY <2>1 DEF GoneInStep, Only
<1> QED
  BY <1>1 DEF GoneInStep, Only, ProcState

LEMMA DoBenchmarkCmdKeeps ==
  ASSUME SystemInv, NEW w \in Worker, DoBenchmarkCmd(w)
  PROVE  SystemInv'
<1>1. /\ ProcessesAreTyped /\ QueuesAreTyped /\ CountsAreTyped
      /\ \A v \in stopped : proc[v] # "none"
  BY PartsAreTyped
<1>2. PICK okay \in BOOLEAN :
        /\ ~okay => faults < MaxFaults
        /\ outbox' = [outbox EXCEPT ![w] = Append(@, BenchResults(okay))]
        /\ faults' = IF okay THEN faults ELSE faults + 1
  BY DEF DoBenchmarkCmd, Say
<1>3. /\ proc[w] = "waiting" /\ proc' = [proc EXCEPT ![w] = "ready"]
      /\ inbox[w] # <<>> /\ Head(inbox[w]).tag = "INIT_REPLY"
      /\ inbox' = [inbox EXCEPT ![w] = Tail(@)]
      /\ UNCHANGED <<mw, notices, stopped, expired, mishaps, oddities>>
  BY DEF DoBenchmarkCmd, Become, Has, Take
<1>4. BenchResults(okay) \in ReportType
  BY DEF BenchResults, ReportType
<1>5. ProcessesAreTyped' /\ QueuesAreTyped' /\ Others(w)
  BY <1>1, <1>2, <1>3, <1>4 DEF ProcessesAreTyped, QueuesAreTyped, Others, ProcState
<1>6. CountsAreTyped'
  BY <1>1, <1>2, <1>3, BoundsAreNaturals DEF CountsAreTyped
<1>7. \A v \in stopped' : proc'[v] # "none"
  BY <1>1, <1>3 DEF ProcessesAreTyped
<1>8. ASSUME InStep(mw, w, proc[w], inbox[w], outbox[w], notices[w])
      PROVE  InStep(mw, w, proc'[w], inbox'[w], outbox'[w], notices'[w])
  <2>1. /\ proc'[w] = "ready" /\ inbox'[w] = Tail(inbox[w]) /\ notices'[w] = notices[w]
        /\ outbox'[w] = Append(outbox[w], BenchResults(okay))
        /\ inbox[w] \in Seq(Message)
    BY <1>1, <1>2, <1>3 DEF ProcessesAreTyped, QueuesAreTyped
  <2>2. CASE w \notin mw.workers
    <3>1. GoneInStep("waiting", inbox[w], outbox[w], notices[w])
      BY <1>3, <1>8, <2>2 DEF InStep
    <3>2. GoneInStep("ready", Tail(inbox[w]), outbox'[w], notices[w])
      BY <1>3, <2>1, <3>1, GoneReads
    <3> QED
      BY <2>1, <2>2, <3>2 DEF InStep
  <2>3. CASE w \in mw.workers
    <3>1. /\ BenchInStep(mw, w, "waiting", inbox[w], outbox[w])
          /\ mw.state[w] # "INITIALIZING" /\ mw.isBenchMark[w]
      BY <1>3, <1>8, <2>3 DEF InStep, FreshInStep, BenchInStep, WorkInStep
    <3>2. inbox[w] = <<Control("INIT_REPLY")>> /\ outbox[w] = <<>>
      BY <3>1 DEF BenchInStep
    <3>3. Tail(inbox[w]) = <<>> /\ outbox'[w] = <<BenchResults(okay)>>
      BY <2>1, <3>2, TailOfOne
    <3>4. BenchInStep(mw, w, "ready", <<>>, outbox'[w])
      BY <3>1, <3>3 DEF BenchInStep
    <3> QED
      BY <2>1, <2>3, <3>1, <3>3, <3>4 DEF InStep
  <2> QED
    BY <2>2, <2>3
<1>9. Ordinary' => Ordinary
  BY <1>3 DEF Ordinary
<1> QED
  BY <1>3, <1>5, <1>6, <1>7, <1>8, <1>9, WorkerActionKeeps

LEMMA DropFirstMessageKeeps ==
  ASSUME SystemInv, NEW w \in Worker, DropFirstMessage(w)
  PROVE  SystemInv'
<1>1. /\ ProcessesAreTyped /\ QueuesAreTyped /\ CountsAreTyped
      /\ \A v \in stopped : proc[v] # "none"
  BY PartsAreTyped
<1>2. /\ proc[w] = "waiting" /\ proc' = [proc EXCEPT ![w] = "ready"]
      /\ inbox[w] # <<>> /\ Head(inbox[w]).tag \in {"DO_THIS_WORK", "KILL_YOURSELF"}
      /\ inbox' = [inbox EXCEPT ![w] = Tail(@)]
      /\ UNCHANGED <<mw, outbox, notices, stopped, expired, faults, mishaps, oddities>>
  BY DEF DropFirstMessage, Become, Has, Take
<1>3. ProcessesAreTyped' /\ QueuesAreTyped' /\ CountsAreTyped' /\ Others(w)
  BY <1>1, <1>2 DEF ProcessesAreTyped, QueuesAreTyped, CountsAreTyped, Others, ProcState
<1>4. \A v \in stopped' : proc'[v] # "none"
  BY <1>1, <1>2 DEF ProcessesAreTyped
<1>5. ASSUME InStep(mw, w, proc[w], inbox[w], outbox[w], notices[w])
      PROVE  InStep(mw, w, proc'[w], inbox'[w], outbox'[w], notices'[w])
  <2>1. /\ proc'[w] = "ready" /\ inbox'[w] = Tail(inbox[w]) /\ notices'[w] = notices[w]
        /\ outbox'[w] = outbox[w] /\ inbox[w] \in Seq(Message)
    BY <1>1, <1>2 DEF ProcessesAreTyped, QueuesAreTyped
  <2>2. w \notin mw.workers
    <3>1. w \in mw.workers => BenchInStep(mw, w, "waiting", inbox[w], outbox[w])
      BY <1>2, <1>5 DEF InStep, FreshInStep, WorkInStep
    <3>2. BenchInStep(mw, w, "waiting", inbox[w], outbox[w]) => Head(inbox[w]).tag = "INIT_REPLY"
      BY DEF BenchInStep, Control
    <3> QED
      BY <1>2, <3>1, <3>2
  <2>3. GoneInStep("waiting", inbox[w], outbox[w], notices[w])
    BY <1>2, <1>5, <2>2 DEF InStep
  <2>4. GoneInStep("ready", Tail(inbox[w]), outbox'[w], notices[w])
    BY <1>2, <2>1, <2>3, GoneReads
  <2> QED
    BY <2>1, <2>2, <2>4 DEF InStep
<1>6. Ordinary' => Ordinary
  BY <1>2 DEF Ordinary
<1> QED
  BY <1>2, <1>3, <1>4, <1>5, <1>6, WorkerActionKeeps

LEMMA DoThisWorkNowKeeps ==
  ASSUME SystemInv, NEW w \in Worker, DoThisWorkNow(w)
  PROVE  SystemInv'
<1> DEFINE r == Result(Head(inbox[w]).task)
<1>1. /\ ProcessesAreTyped /\ QueuesAreTyped /\ CountsAreTyped
      /\ \A v \in stopped : proc[v] # "none"
  BY PartsAreTyped
<1>2. /\ proc[w] = "ready" /\ inbox[w] # <<>> /\ Head(inbox[w]).tag = "DO_THIS_WORK"
      /\ outbox' = [outbox EXCEPT ![w] = Append(@, r)]
      /\ inbox' = [inbox EXCEPT ![w] = Tail(@)]
      /\ UNCHANGED <<mw, proc, notices, stopped, expired, faults, mishaps, oddities>>
  BY DEF DoThisWorkNow, Say, Has, Take
<1>3. r \in ReportType /\ r.tag = "RESULTS"
  <2>1. inbox[w] \in Seq(Message) /\ inbox[w] # <<>>
    BY <1>1, <1>2 DEF ProcessesAreTyped
  <2>2. Head(inbox[w]) \in Message
    BY <2>1
  <2>3. Head(inbox[w]).task \in Task \cup {NoTask}
    BY <2>2 DEF Message
  <2> QED
    BY <2>3 DEF Result, ReportType
<1> HIDE DEF r
<1>4. ProcessesAreTyped' /\ QueuesAreTyped' /\ CountsAreTyped' /\ Others(w)
  BY <1>1, <1>2, <1>3 DEF ProcessesAreTyped, QueuesAreTyped, CountsAreTyped, Others
<1>5. \A v \in stopped' : proc'[v] # "none"
  BY <1>1, <1>2
<1>6. ASSUME InStep(mw, w, proc[w], inbox[w], outbox[w], notices[w])
      PROVE  InStep(mw, w, proc'[w], inbox'[w], outbox'[w], notices'[w])
  <2>1. /\ proc'[w] = "ready" /\ inbox'[w] = Tail(inbox[w]) /\ notices'[w] = notices[w]
        /\ outbox'[w] = Append(outbox[w], r)
        /\ inbox[w] \in Seq(Message) /\ outbox[w] \in Seq(ReportType)
    BY <1>1, <1>2 DEF ProcessesAreTyped, QueuesAreTyped
  <2>2. CASE w \notin mw.workers
    <3>1. GoneInStep("ready", inbox[w], outbox[w], notices[w])
      BY <1>2, <1>6, <2>2 DEF InStep
    <3>2. Only(Tail(inbox[w]), {"DO_THIS_WORK", "KILL_YOURSELF"})
      BY <1>2, <2>1, <3>1, OnlyTail DEF GoneInStep
    <3>3. GoneInStep("ready", Tail(inbox[w]), outbox'[w], notices[w])
      BY <3>2 DEF GoneInStep, ProcState
    <3> QED
      BY <2>1, <2>2, <3>3 DEF InStep
  <2>3. CASE w \in mw.workers
    <3>1. /\ WorkInStep(mw, w, "ready", inbox[w], outbox[w])
          /\ mw.state[w] # "INITIALIZING" /\ ~mw.isBenchMark[w]
      BY <1>2, <1>6, <2>3 DEF InStep, FreshInStep, BenchInStep
    <3>2. Only(Tail(inbox[w]), {"DO_THIS_WORK"})
      BY <1>2, <2>1, <3>1, OnlyTail DEF WorkInStep
    <3>3. Only(outbox'[w], {"RESULTS"})
      BY <1>3, <2>1, <3>1 DEF WorkInStep, Only
    <3>5. ASSUME mw.halt # "crashed" PROVE Owes(mw, w, "ready", Tail(inbox[w]), outbox'[w])
      <4>1. Owes(mw, w, "ready", inbox[w], outbox[w])
        BY <3>1, <3>5 DEF WorkInStep
      <4>2. /\ mw.runningtask[w] # NoTask /\ outbox[w] = <<>>
            /\ inbox[w] = <<DoThisWork(mw.runningtask[w])>>
        BY <1>2, <4>1 DEF Owes
      <4>3. Head(inbox[w]).task = mw.runningtask[w] /\ Tail(inbox[w]) = <<>>
        BY <4>2, TailOfOne DEF DoThisWork
      <4>4. outbox'[w] = <<Result(mw.runningtask[w])>>
        BY <2>1, <4>2, <4>3 DEF r
      <4> QED
        BY <4>2, <4>3, <4>4 DEF Owes
    <3>4. WorkInStep(mw, w, "ready", Tail(inbox[w]), outbox'[w])
      BY <3>1, <3>2, <3>3, <3>5 DEF WorkInStep
    <3> QED
      BY <2>1, <2>3, <3>1, <3>4 DEF InStep
  <2> QED
    BY <2>2, <2>3
<1>7. Ordinary' => Ordinary
  BY <1>2 DEF Ordinary
<1> QED
  BY <1>2, <1>4, <1>5, <1>6, <1>7, WorkerActionKeeps

LEMMA DeathIsNoSuspension ==
  ASSUME NEW p \in Seq(Notice), NEW q \in Seq({"HOSTDELETE", "TASKEXIT"}),
         \A i \in DOMAIN p : p[i] # "HOSTSUSPEND"
  PROVE  \A i \in DOMAIN (p \o q) : (p \o q)[i] # "HOSTSUSPEND"
<1> SUFFICES ASSUME NEW i \in DOMAIN (p \o q) PROVE (p \o q)[i] # "HOSTSUSPEND"
  OBVIOUS
<1>1. i \in 1..(Len(p) + Len(q)) /\ Len(p) \in Nat /\ Len(q) \in Nat
  OBVIOUS
<1>2. CASE i <= Len(p)
  <2>1. (p \o q)[i] = p[i] /\ i \in DOMAIN p
    BY <1>1, <1>2
  <2> QED
    BY <2>1
<1>3. CASE i > Len(p)
  <2>1. (p \o q)[i] = q[i - Len(p)] /\ i - Len(p) \in 1..Len(q)
    BY <1>1, <1>3
  <2>2. q[i - Len(p)] \in {"HOSTDELETE", "TASKEXIT"}
    BY <2>1
  <2> QED
    BY <2>1, <2>2
<1> QED
  BY <1>1, <1>2, <1>3

(* A process that is gone reads nothing; what it has sent may still come. *)
LEMMA VanishKeeps ==
  ASSUME SystemInv, NEW w \in Worker, Vanish(w), proc[w] # "none",
         UNCHANGED <<mw, outbox, expired>>, CountsAreTyped', Ordinary' => Ordinary
  PROVE  SystemInv'
<1>1. /\ ProcessesAreTyped /\ QueuesAreTyped
      /\ \A v \in stopped : proc[v] # "none"
  BY PartsAreTyped
<1>2. PICK n \in DeathNotices : notices' = [notices EXCEPT ![w] = @ \o n]
  BY DEF Vanish
<1>3. n \in Seq({"HOSTDELETE", "TASKEXIT"}) /\ n \in Seq(Notice)
  BY DeathNoticesAreNotices DEF Notice
<1>4. /\ proc' = [proc EXCEPT ![w] = "dead"] /\ inbox' = [inbox EXCEPT ![w] = <<>>]
      /\ stopped' = stopped \ {w}
  BY DEF Vanish, Become
<1>5. ProcessesAreTyped' /\ Others(w)
  BY <1>1, <1>2, <1>4 DEF ProcessesAreTyped, QueuesAreTyped, Others, ProcState
<1>6. QueuesAreTyped'
  BY <1>1, <1>2, <1>3 DEF QueuesAreTyped
<1>7. \A v \in stopped' : proc'[v] # "none"
  BY <1>1, <1>4 DEF ProcessesAreTyped
<1>8. ASSUME InStep(mw, w, proc[w], inbox[w], outbox[w], notices[w])
      PROVE  InStep(mw, w, proc'[w], inbox'[w], outbox'[w], notices'[w])
  <2>1. /\ proc'[w] = "dead" /\ inbox'[w] = <<>> /\ outbox'[w] = outbox[w]
        /\ notices'[w] = notices[w] \o n /\ notices[w] \in Seq(Notice)
    BY <1>1, <1>2, <1>4 DEF ProcessesAreTyped, QueuesAreTyped
  <2>2. CASE w \notin mw.workers
    <3>1. GoneInStep("dead", <<>>, outbox[w], notices'[w])
      BY DEF GoneInStep, ProcState
    <3> QED
      BY <2>1, <2>2, <3>1 DEF InStep
  <2>3. CASE w \in mw.workers /\ mw.state[w] = "INITIALIZING"
    <3>1. FreshInStep(mw, w, proc[w], inbox[w], outbox[w], notices[w])
      BY <1>8, <2>3 DEF InStep
    <3>2. \A i \in DOMAIN notices[w] : notices[w][i] # "HOSTSUSPEND"
      BY <3>1 DEF FreshInStep
    <3>3. \A i \in DOMAIN notices'[w] : notices'[w][i] # "HOSTSUSPEND"
      BY <1>3, <2>1, <3>2, DeathIsNoSuspension
    <3>4. FreshInStep(mw, w, "dead", <<>>, outbox[w], notices'[w])
      BY <3>1, <3>3 DEF FreshInStep
    <3> QED
      BY <2>1, <2>3, <3>4 DEF InStep
  <2>4. CASE w \in mw.workers /\ mw.state[w] # "INITIALIZING"
    BY <1>8, <2>1, <2>4 DEF InStep, BenchInStep, WorkInStep, Owes
  <2> QED
    BY <2>2, <2>3, <2>4
<1> QED
  BY <1>5, <1>6, <1>7, <1>8, WorkerActionKeeps

LEMMA DeathKeeps ==
  ASSUME SystemInv, NEW w \in Worker,
         Suicide(w) \/ Crashes(w) \/ IsRemoved(w) \/ GetsChecksumError(w)
  PROVE  SystemInv'
<1>1. CountsAreTyped
  BY PartsAreTyped
<1>2. Vanish(w) /\ proc[w] # "none" /\ UNCHANGED <<mw, outbox, expired>>
  BY DEF Suicide, Crashes, IsRemoved, GetsChecksumError, CanRun, Alive
<1>3. CountsAreTyped'
  BY <1>1, BoundsAreNaturals
     DEF Suicide, Crashes, IsRemoved, GetsChecksumError, Mishap, CountsAreTyped
<1>4. Ordinary' => Ordinary
  BY <1>1, BoundsAreNaturals
     DEF Suicide, Crashes, IsRemoved, GetsChecksumError, Mishap, CountsAreTyped, Ordinary
<1> QED
  BY <1>2, <1>3, <1>4, VanishKeeps

(* News of w is on its way: of a suspension only if w has been asked to work *)
(* or has said its INIT, unless something odd has happened.                  *)
LEMMA NewsKeeps ==
  ASSUME SystemInv, NEW w \in Worker, proc[w] # "none", NEW news \in Notice,
         notices' = [notices EXCEPT ![w] = Append(@, news)],
         stopped' \subseteq stopped \cup {w},
         UNCHANGED <<mw, proc, inbox, outbox, expired>>, CountsAreTyped',
         Ordinary' => /\ Ordinary
                      /\ news = "HOSTSUSPEND" => mw.state[w] # "INITIALIZING"
  PROVE  SystemInv'
<1>1. /\ ProcessesAreTyped /\ QueuesAreTyped
      /\ \A v \in stopped : proc[v] # "none"
  BY PartsAreTyped
<1>2. ProcessesAreTyped' /\ QueuesAreTyped' /\ Others(w)
  BY <1>1 DEF ProcessesAreTyped, QueuesAreTyped, Others
<1>3. \A v \in stopped' : proc'[v] # "none"
  BY <1>1
<1>4. ASSUME InStep(mw, w, proc[w], inbox[w], outbox[w], notices[w]),
             news = "HOSTSUSPEND" => mw.state[w] # "INITIALIZING"
      PROVE  InStep(mw, w, proc'[w], inbox'[w], outbox'[w], notices'[w])
  <2>1. /\ notices'[w] = Append(notices[w], news) /\ notices[w] \in Seq(Notice)
        /\ proc'[w] = proc[w] /\ inbox'[w] = inbox[w] /\ outbox'[w] = outbox[w]
    BY <1>1 DEF QueuesAreTyped
  <2>2. CASE w \notin mw.workers
    BY <1>4, <2>1, <2>2 DEF InStep, GoneInStep
  <2>3. CASE w \in mw.workers /\ mw.state[w] = "INITIALIZING"
    <3>1. FreshInStep(mw, w, proc[w], inbox[w], outbox[w], notices[w])
      BY <1>4, <2>3 DEF InStep
    <3>2. \A i \in DOMAIN notices[w] : notices[w][i] # "HOSTSUSPEND"
      BY <3>1 DEF FreshInStep
    <3>3. \A i \in DOMAIN notices'[w] : notices'[w][i] # "HOSTSUSPEND"
      BY <1>4, <2>1, <2>3, <3>2
    <3>4. FreshInStep(mw, w, proc[w], inbox[w], outbox[w], notices'[w])
      BY <3>1, <3>3 DEF FreshInStep
    <3> QED
      BY <2>1, <2>3, <3>4 DEF InStep
  <2>4. CASE w \in mw.workers /\ mw.state[w] # "INITIALIZING"
    BY <1>4, <2>1, <2>4 DEF InStep
  <2> QED
    BY <2>2, <2>3, <2>4
<1> QED
  BY <1>2, <1>3, <1>4, WorkerActionKeeps

LEMMA SuspendKeeps ==
  ASSUME SystemInv, NEW w \in Worker, Suspend(w)
  PROVE  SystemInv'
<1>1. CountsAreTyped
  BY PartsAreTyped
<1>2. /\ proc[w] # "none" /\ stopped' = stopped \cup {w}
      /\ notices' = [notices EXCEPT ![w] = Append(@, "HOSTSUSPEND")]
      /\ UNCHANGED <<mw, proc, inbox, outbox, expired, faults>>
      /\ Mishap(mw.state[w] = "INITIALIZING")
  BY DEF Suspend, CanRun, Alive
<1>3. CountsAreTyped'
  BY <1>1, <1>2, BoundsAreNaturals DEF Mishap, CountsAreTyped
<1>4. Ordinary' => Ordinary /\ mw.state[w] # "INITIALIZING"
  BY <1>1, <1>2, BoundsAreNaturals DEF Mishap, CountsAreTyped, Ordinary
<1>5. "HOSTSUSPEND" \in Notice
  BY DEF Notice
<1> QED
  BY <1>2, <1>3, <1>4, <1>5, NewsKeeps

LEMMA ResumeKeeps ==
  ASSUME SystemInv, NEW w \in Worker, Resume(w)
  PROVE  SystemInv'
<1>1. CountsAreTyped /\ \A v \in stopped : proc[v] # "none"
  BY PartsAreTyped
<1>2. /\ w \in stopped /\ stopped' = stopped \ {w}
      /\ notices' = [notices EXCEPT ![w] = Append(@, "HOSTRESUME")]
      /\ UNCHANGED <<mw, proc, inbox, outbox, expired, faults, mishaps, oddities>>
  BY DEF Resume
<1>3. CountsAreTyped' /\ (Ordinary' => Ordinary) /\ "HOSTRESUME" \in Notice
  BY <1>1, <1>2 DEF CountsAreTyped, Ordinary, Notice
<1> QED
  BY <1>1, <1>2, <1>3, NewsKeeps

LEMMA ExpireKeeps ==
  ASSUME SystemInv, NEW w \in Worker, Expire(w)
  PROVE  SystemInv'
<1>1. /\ ProcessesAreTyped /\ QueuesAreTyped /\ CountsAreTyped
      /\ \A v \in stopped : proc[v] # "none"
  BY PartsAreTyped
<1>2. /\ expired' = expired \cup {w}
      /\ UNCHANGED <<mw, proc, inbox, outbox, notices, stopped, faults, mishaps, oddities>>
  BY DEF Expire
<1>3. /\ ProcessesAreTyped' /\ QueuesAreTyped' /\ CountsAreTyped' /\ Others(w)
      /\ Ordinary' => Ordinary
  BY <1>1, <1>2 DEF ProcessesAreTyped, QueuesAreTyped, CountsAreTyped, Others, Ordinary
<1> QED
  BY <1>1, <1>2, <1>3, WorkerActionKeeps

-----------------------------------------------------------------------------
(* The theorems. *)

LEMMA SystemInitInv == SystemInit => SystemInv
<1> SUFFICES ASSUME SystemInit PROVE SystemInv
  OBVIOUS
<1>1. PICK W \in SUBSET Worker :
        mw = Setup(W) /\ proc = [w \in Worker |-> IF w \in W THEN "starting" ELSE "none"]
  BY DEF SystemInit
<1>2. DriverInv(mw) /\ mw.halt = "no"
  BY <1>1, SetupKeeps
<1>3. IInv
  BY <1>2 DEF IInv
<1>4. SystemTypeOK
  BY <1>1, <1>2, BoundsAreNaturals
     DEF SystemTypeOK, TypeOK, DriverInv, SystemInit, ProcState
<1>5. /\ mw.sent = [w \in Worker |-> <<>>] /\ mw.workers = W /\ mw.running = {}
      /\ mw.runningtask = [w \in Worker |-> NoTask]
      /\ mw.state = [w \in Worker |-> IF w \in W THEN "INITIALIZING" ELSE "EXITED"]
  BY <1>1 DEF Setup
<1>6. ASSUME NEW w \in Worker
      PROVE  InStep(mw, w, proc[w], inbox[w], outbox[w], notices[w])
  <2>1. inbox[w] = <<>> /\ outbox[w] = <<>> /\ notices[w] = <<>>
    BY DEF SystemInit
  <2>2. CASE w \in W
    BY <1>1, <1>5, <2>1, <2>2 DEF InStep, FreshInStep
  <2>3. CASE w \notin W
    BY <1>1, <1>5, <2>1, <2>3 DEF InStep, GoneInStep, ProcState
  <2> QED
    BY <2>2, <2>3
<1>7. InOrder
  BY <1>5, <1>6 DEF InOrder, Held
<1> QED
  BY <1>3, <1>4, <1>5, <1>7 DEF SystemInv, SystemInit

LEMMA SystemNextInv == SystemInv /\ [SystemNext]_vars => SystemInv'
<1> SUFFICES ASSUME SystemInv, [SystemNext]_vars PROVE SystemInv'
  OBVIOUS
<1>1. ASSUME NEW w \in Worker, MasterReceives(w) PROVE SystemInv'
  BY <1>1, GetInitKeeps, GetBenchResultsKeeps, GetResultsKeeps, GetNoticeKeeps
     DEF MasterReceives
<1>2. ASSUME NEW w \in Worker, GetHostadd(w) PROVE SystemInv'
  BY <1>2, GetHostaddKeeps
<1>3. ASSUME NEW w \in Worker, GetChecksumError(w) PROVE SystemInv'
  BY <1>3, GetChecksumErrorKeeps
<1>4. ASSUME NEW w \in Worker, WorkerRuns(w) PROVE SystemInv'
  BY <1>4, GreetMasterKeeps, DoBenchmarkCmdKeeps, DropFirstMessageKeeps,
     DoThisWorkNowKeeps, DeathKeeps DEF WorkerRuns
<1>5. ASSUME NEW w \in Worker, Crashes(w) \/ IsRemoved(w) \/ GetsChecksumError(w)
      PROVE  SystemInv'
  BY <1>5, DeathKeeps
<1>6. ASSUME NEW w \in Worker, Suspend(w) \/ Resume(w) \/ Expire(w) PROVE SystemInv'
  BY <1>6, SuspendKeeps, ResumeKeeps, ExpireKeeps
<1>7. CASE FinishWorkers
  BY <1>7, FinishWorkersKeeps
<1>8. CASE UNCHANGED vars
  <2>1. UNCHANGED <<mw, proc, inbox, outbox, notices, stopped, expired, faults, mishaps, oddities>>
    BY <1>8 DEF vars, procVars
  <2>2. SystemTypeOK' /\ IInv'
    BY <2>1 DEF SystemInv, SystemTypeOK, TypeOK, IInv
  <2>3. Ordinary' => InOrder'
    BY <2>1 DEF SystemInv, Ordinary, InOrder, Running
  <2> QED
    BY <2>1, <2>2, <2>3 DEF SystemInv
<1> QED
  BY <1>1, <1>2, <1>3, <1>4, <1>5, <1>6, <1>7, <1>8 DEF SystemNext

(* Master and workers stay in step: what each of them has sent, read and     *)
(* recorded of the other fits together after every step.                     *)
THEOREM SystemIsConsistent == SystemSpec => []SystemInv
BY SystemInitInv, SystemNextInv, PTL DEF SystemSpec

(* Every queue holds what its reader expects: no worker is sent work before  *)
(* its initial data, and none gets its initial data in its main loop.        *)
THEOREM WorkersAreInStep == SystemSpec => []WorkerIsInStep
<1>1. SystemInv => WorkerIsInStep
  <2> SUFFICES ASSUME SystemInv PROVE WorkerIsInStep
    OBVIOUS
  <2>1. ASSUME Ordinary, NEW w \in Worker
        PROVE  /\ proc[w] = "waiting" => ~Has(w, "DO_THIS_WORK")
               /\ proc[w] = "ready" => ~Has(w, "INIT_REPLY")
    <3>1. InStep(mw, w, proc[w], inbox[w], outbox[w], notices[w])
      BY <2>1 DEF SystemInv, InOrder
    <3>2. inbox[w] \in Seq(Message)
      BY DEF SystemInv, SystemTypeOK
    <3>3. GoneInStep(proc[w], inbox[w], outbox[w], notices[w])
      BY <3>1, <3>2, StepGone
    <3>4. inbox[w] # <<>> => 1 \in DOMAIN inbox[w] /\ Head(inbox[w]) = inbox[w][1]
      BY <3>2
    <3> QED
      BY <3>3, <3>4 DEF GoneInStep, Only, Has
  <2> QED
    BY <2>1 DEF WorkerIsInStep, SystemInv
<1> QED
  BY <1>1, SystemIsConsistent, PTL

(* No running task is forgotten: as long as the loop goes on, a known worker *)
(* holds it, and that worker's death or timeout will put it back.            *)
THEOREM RunningTasksAreHeld == SystemSpec => []RunningIsHeld
<1>1. SystemInv => RunningIsHeld
  BY DEF SystemInv, InOrder, Held, RunningIsHeld
<1> QED
  BY <1>1, SystemIsConsistent, PTL

(* What the master thinks a live worker is doing is what that worker has     *)
(* been asked to do and has not been heard of: no result ever comes from a   *)
(* worker that is thought to run another task, or none.                      *)
THEOREM MasterKnows == SystemSpec => []MasterKnowsTheWork
<1>1. ASSUME SystemInv, Running, Ordinary, NEW w \in mw.workers, Alive(w)
      PROVE  KnowsTheWorkOf(w)
  <2> DEFINE t == mw.runningtask[w]
  <2>1. InStep(mw, w, proc[w], inbox[w], outbox[w], notices[w])
    BY <1>1 DEF SystemInv, InOrder, SystemTypeOK, TypeOK, DriverState
  <2>2. proc[w] \in {"starting", "waiting", "ready"} /\ mw.halt # "crashed"
    BY <1>1 DEF Alive, Running
  <2>3. CASE FreshInStep(mw, w, proc[w], inbox[w], outbox[w], notices[w])
    <3>1. inbox[w] = <<>> /\ (outbox[w] = <<>> \/ outbox[w] = <<Report("INIT")>>) /\ t = NoTask
      BY <2>2, <2>3 DEF FreshInStep
    <3> QED
      BY <3>1 DEF KnowsTheWorkOf, UnderWay, AtWork, Report
  <2>4. CASE BenchInStep(mw, w, proc[w], inbox[w], outbox[w])
    <3>1. /\ inbox[w] = <<>> \/ inbox[w] = <<Control("INIT_REPLY")>>
          /\ outbox[w] = <<>> \/ \E okay \in BOOLEAN : outbox[w] = <<BenchResults(okay)>>
          /\ t = NoTask
      BY <2>2, <2>4 DEF BenchInStep
    <3>2. \A i \in DOMAIN inbox[w] : inbox[w][i].tag # "DO_THIS_WORK"
      BY <3>1 DEF Control
    <3>3. \A i \in DOMAIN outbox[w] : outbox[w][i].tag # "RESULTS"
      <4>1. \A okay : BenchResults(okay).tag = "BENCH_RESULTS"
        BY DEF BenchResults
      <4>2. outbox[w] = <<>> \/ \E x : outbox[w] = <<x>> /\ x.tag = "BENCH_RESULTS"
        BY <3>1, <4>1
      <4> QED
        BY <4>2
    <3>4. UnderWay(w) = {}
      BY <3>2, <3>3 DEF UnderWay, AtWork
    <3> QED
      BY <3>1, <3>4 DEF KnowsTheWorkOf
  <2>5. CASE WorkInStep(mw, w, proc[w], inbox[w], outbox[w])
    <3>1. Owes(mw, w, "ready", inbox[w], outbox[w])
      BY <2>2, <2>5 DEF WorkInStep
    <3>2. CASE t = NoTask /\ inbox[w] = <<>> /\ outbox[w] = <<>>
      BY <3>2 DEF KnowsTheWorkOf, UnderWay, AtWork
    <3>3. CASE t # NoTask /\ inbox[w] = <<>> /\ outbox[w] = <<Result(t)>>
      <4>1. UnderWay(w) = {[queue |-> "outbox", at |-> 1, task |-> t]}
        BY <3>3 DEF UnderWay, AtWork, Result
      <4> QED
        BY <3>3, <4>1 DEF KnowsTheWorkOf
    <3>4. CASE t # NoTask /\ inbox[w] = <<DoThisWork(t)>> /\ outbox[w] = <<>>
      <4>1. UnderWay(w) = {[queue |-> "inbox", at |-> 1, task |-> t]}
        BY <3>4 DEF UnderWay, AtWork, DoThisWork
      <4> QED
        BY <3>4, <4>1 DEF KnowsTheWorkOf
    <3> QED
      BY <3>1, <3>2, <3>3, <3>4 DEF Owes
  <2> QED
    BY <1>1, <2>1, <2>3, <2>4, <2>5 DEF InStep
<1>2. SystemInv => MasterKnowsTheWork
  BY <1>1 DEF MasterKnowsTheWork
<1> QED
  BY <1>2, SystemIsConsistent, PTL
-----------------------------------------------------------------------------
(* Why the master does not fall over.  Under the default suspension policy a  *)
(* task leaves the run queue only when it is done or its worker is gone, so   *)
(* the check of the run queue finds every task held, and a result is always   *)
(* that of the task its worker is thought to run.                             *)

UserOrOK == UserReturns \cup {"OK"}

(* A handler leaves the master like this ... *)
Steady(m) == m.halt = "no" /\ m.ustat \in UserOrOK /\ Attended(m)

(* ... and an iteration like this. *)
Stands(m) ==
  m.halt # "crashed" /\ m.ustat \in UserOrOK /\ (m.halt = "stopped" => m.ustat # "OK")

LEMMA ReassignTasksOfSteady ==
  ASSUME NEW m, DriverInv(m), Steady(m), NEW T \in SUBSET Worker,
         NEW n \in ReassignTasksOf(m, T)
  PROVE  n.halt = "no" /\ n.ustat = m.ustat
<1> DEFINE onRunQ == {v \in T : m.runningtask[v] \in m.running}
           late == {v \in onRunQ : m.runningtask[v] \notin m.reassigned_tasks_done}
           TaskOf(S) == {m.runningtask[v] : v \in S}
           rest(f) == [m EXCEPT
                         !.running = (@ \ TaskOf(onRunQ \ late)) \ TaskOf(late \ Image(f)),
                         !.todo = @ \cup TaskOf(late \ Image(f)),
                         !.reassigned_tasks = @ \cup TaskOf(late)]
           next(f) == [o \in DOMAIN f |-> m.runningtask[f[o]]]
<1>1. PICK f \in Matchings(Idle(m), late) : n = CheckRunQ(GiveWork(rest(f), next(f)))
  BY DEF ReassignTasksOf
<1>2. PICK D \in SUBSET Idle(m) : f \in [D -> late]
  BY <1>1 DEF Matchings
<1> DEFINE k == rest(f)
           g == GiveWork(k, next(f))
<1>3. /\ k.workers = m.workers /\ k.state = m.state /\ k.runningtask = m.runningtask
      /\ k.running \subseteq m.running /\ k.ustat = m.ustat /\ k.halt = m.halt
      /\ DOMAIN k = DOMAIN m
  BY DEF DriverInv, DriverState
<1>4. DOMAIN next(f) = D
  BY <1>2
<1> HIDE DEF k, next, late, onRunQ, TaskOf
<1>5. /\ g.workers = m.workers /\ g.running \subseteq m.running /\ g.ustat = m.ustat
      /\ g.halt = m.halt
      /\ g.state = [v \in Worker |-> IF v \in D THEN "WORKING" ELSE m.state[v]]
      /\ g.runningtask = [v \in Worker |-> IF v \in D THEN next(f)[v] ELSE m.runningtask[v]]
  BY <1>3, <1>4 DEF GiveWork, DriverInv, DriverState
<1> HIDE DEF g
<1>6. Attended(g)
  BY <1>5, GivingHolds DEF Steady
<1>7. n = g
  BY <1>1, <1>6 DEF CheckRunQ, g, k, Attended, Held
<1> QED
  BY <1>5, <1>7 DEF Steady

LEMMA EndOfIterationStands ==
  ASSUME NEW m, DriverInv(m), Steady(m), NEW due, NEW late, NEW n \in EndOfIteration(m, due, late)
  PROVE  Stands(n)
<1>1. PICK k \in RematchTasksToWorkers(m) :
        \E j \in ReassignTimedout(k, due, late) : n = Conclude(j)
  BY DEF EndOfIteration, Steady
<1>2. PICK j \in ReassignTimedout(k, due, late) : n = Conclude(j)
  BY <1>1
<1>3. DriverInv(k) /\ Steady(k)
  <2>1. k.halt = m.halt /\ k.ustat = m.ustat
    BY DEF RematchTasksToWorkers, Assign, GiveWork, DriverInv, DriverState
  <2> QED
    BY <2>1, RematchKeeps, RematchHolds DEF Steady
<1>4. j = k \/ \E T \in SUBSET Worker : j \in ReassignTasksOf(k, T)
  <2>1. InState(k, "WORKING") \subseteq Worker
    BY <1>3 DEF InState, DriverInv, DriverState
  <2> QED
    BY <2>1 DEF ReassignTimedout
<1>5. DriverInv(j) /\ j.halt = "no" /\ j.ustat \in UserOrOK
  BY <1>3, <1>4, ReassignTasksOfKeeps, ReassignTasksOfSteady DEF Steady
<1> QED
  BY <1>2, <1>5 DEF Conclude, Stands, DriverInv, DriverState

LEMMA CallHostaddlogicSteady ==
  ASSUME NEW m, DriverInv(m), Steady(m), NEW n \in CallHostaddlogic(m)
  PROVE  Steady(n)
BY CallHostaddlogicHolds, CallHostaddlogicSpares DEF Steady

LEMMA AssignLeaves ==
  ASSUME NEW m, DriverInv(m), NEW f
  PROVE  Assign(m, f).halt = m.halt /\ Assign(m, f).ustat = m.ustat
BY DEF Assign, GiveWork, DriverInv, DriverState

LEMMA SendTaskToWorkerLeaves ==
  ASSUME NEW m, DriverInv(m), NEW w, NEW n \in SendTaskToWorker(m, w)
  PROVE  n.halt = m.halt /\ n.ustat = m.ustat
<1>1. n = m \/ \E t : n = Assign(m, [x \in {w} |-> t])
  BY DEF SendTaskToWorker
<1> QED
  BY <1>1, AssignLeaves

LEMMA SendTaskToWorkerSteady ==
  ASSUME NEW m, DriverInv(m), Steady(m), NEW w \in m.workers, NEW n \in SendTaskToWorker(m, w)
  PROVE  Steady(n)
<1>1. n.halt = m.halt /\ n.ustat = m.ustat
  BY SendTaskToWorkerLeaves
<1> QED
  BY <1>1, SendTaskToWorkerHolds DEF Steady

LEMMA RmWorkersSteady ==
  ASSUME NEW m, DriverInv(m), Steady(m), NEW w \in Worker, m.runningtask[w] = NoTask
  PROVE  DriverInv(RmWorkers(m, {w})) /\ Steady(RmWorkers(m, {w}))
<1>1. m.runningtask[w] \notin m.running
  BY NoTaskIsNoTask DEF DriverInv, DriverState
<1>2. RmWorkers(m, {w}).halt = m.halt /\ RmWorkers(m, {w}).ustat = m.ustat
  BY DEF RmWorkers, DriverInv, DriverState
<1> QED
  BY <1>1, <1>2, RmWorkersKeeps, RmWorkersHolds DEF Steady

LEMMA SendSteady ==
  ASSUME NEW m, DriverInv(m), Steady(m), NEW w \in Worker, NEW x \in Message
  PROVE  DriverInv(Send(m, w, x)) /\ Steady(Send(m, w, x))
<1> DEFINE n == Send(m, w, x)
<1>1. /\ n.running = m.running /\ n.workers = m.workers /\ n.runningtask = m.runningtask
      /\ n.state = m.state /\ n.halt = m.halt /\ n.ustat = m.ustat
  BY DEF Send, DriverInv, DriverState
<1> HIDE DEF n
<1>2. Attended(n)
  BY <1>1, SameHolds DEF Steady
<1>3. DriverInv(n)
  BY SendKeeps DEF n
<1>4. Steady(n)
  BY <1>1, <1>2 DEF Steady
<1> QED
  BY <1>3, <1>4 DEF n

LEMMA OnInitSteady ==
  ASSUME NEW m, DriverInv(m), Steady(m), NEW w \in Worker, NEW n \in OnInit(m, w),
         w \in m.workers => m.runningtask[w] = NoTask
  PROVE  Steady(n)
<1> DEFINE gone == RmWorkers(m, {w})
           told == Send(m, w, Control("INIT_REPLY"))
           asked == [told EXCEPT !.state[w] = "BENCHMARKING", !.isBenchMark[w] = TRUE]
<1>1. CASE w \notin m.workers
  BY <1>1, SendSteady, ControlIsMessage DEF OnInit, TellStranger
<1>2. CASE w \in m.workers /\ n = gone
  BY <1>2, RmWorkersSteady
<1>3. CASE w \in m.workers /\ \E r \in UserReturns : n = [gone EXCEPT !.ustat = r]
  <2>1. PICK r \in UserReturns : n = [gone EXCEPT !.ustat = r]
    BY <1>3
  <2>2. DriverInv(gone) /\ Steady(gone)
    BY <1>3, RmWorkersSteady
  <2> HIDE DEF gone
  <2>3. /\ n.running = gone.running /\ n.workers = gone.workers /\ n.state = gone.state
        /\ n.runningtask = gone.runningtask /\ n.halt = gone.halt /\ n.ustat = r
    BY <2>1, <2>2 DEF DriverInv, DriverState
  <2> QED
    BY <2>2, <2>3, SameHolds DEF Steady, UserOrOK
<1>4. CASE w \in m.workers /\ n = asked
  <2>1. DriverInv(told) /\ Steady(told)
    BY SendSteady, ControlIsMessage
  <2> HIDE DEF told
  <2>2. /\ n.running = told.running /\ n.workers = told.workers
        /\ n.runningtask = told.runningtask /\ n.halt = told.halt /\ n.ustat = told.ustat
        /\ n.state = [told.state EXCEPT ![w] = "BENCHMARKING"]
    BY <1>4, <2>1 DEF DriverInv, DriverState
  <2>3. \A v \in told.workers : n.state[v] = "IDLE" => told.state[v] = "IDLE"
    BY <2>1, <2>2 DEF DriverInv, DriverState
  <2>4. Attended(told)
    BY <2>1 DEF Steady
  <2>5. Attended(n)
    BY <2>2, <2>3, <2>4, SameHolds
  <2> QED
    BY <2>1, <2>2, <2>5 DEF Steady
<1> QED
  BY <1>1, <1>2, <1>3, <1>4 DEF OnInit, WorkerInit, WorkerLastRites

LEMMA OnBenchResultsSteady ==
  ASSUME NEW m, DriverInv(m), Steady(m), NEW w \in Worker, NEW okay,
         NEW n \in OnBenchResults(m, w, okay), w \in m.workers => m.runningtask[w] = NoTask
  PROVE  Steady(n)
<1> DEFINE idle == [m EXCEPT !.state[w] = "IDLE"]
           k == [m EXCEPT !.state[w] = "IDLE", !.isBenchMark[w] = FALSE]
<1>1. k.halt = m.halt /\ k.ustat = m.ustat /\ DriverInv(k)
  <2>1. DriverInv(idle)
    BY StateKeeps DEF WorkerState
  <2>2. k = [idle EXCEPT !.isBenchMark[w] = FALSE] /\ k.halt = m.halt /\ k.ustat = m.ustat
    BY DEF DriverInv, DriverState
  <2> HIDE DEF k, idle
  <2> QED
    BY <2>1, <2>2, BenchMarkKeeps
<1>2. \/ n = Send(m, w, Control("KILL_YOURSELF"))
      \/ n = RmWorkers(m, {w})
      \/ n \in SendTaskToWorker(k, w)
  BY DEF OnBenchResults, TellStranger, HandleBenchmark, WorkerLastRites
<1> HIDE DEF k
<1>3. n.halt = m.halt /\ n.ustat = m.ustat
  <2>1. CASE n = Send(m, w, Control("KILL_YOURSELF")) \/ n = RmWorkers(m, {w})
    BY <2>1 DEF Send, RmWorkers, DriverInv, DriverState
  <2>2. CASE n \in SendTaskToWorker(k, w)
    BY <1>1, <2>2, SendTaskToWorkerLeaves
  <2> QED
    BY <1>2, <2>1, <2>2
<1> QED
  BY <1>3, OnBenchResultsHolds DEF Steady

(* The result of the task its worker is thought to run. *)
SteadyWithout(m, n, w) == Steady(n) /\ n.runningtask[w] = NoTask /\ n.workers = m.workers

LEMMA HandleWorkerResultsSteady ==
  ASSUME SuspensionPolicy = "DEFAULT",
         NEW m, DriverInv(m), Steady(m), NEW w \in m.workers, NEW t \in Task,
         t = m.runningtask[w],
         NEW N \in SUBSET (Task \ m.created), NEW r \in UserReturns
  PROVE  SteadyWithout(m, HandleWorkerResults(m, w, t, N, r), w)
<1> DEFINE n == HandleWorkerResults(m, w, t, N, r)
<1>1. \/ n = ActOnCompletedTask(m, w, t, N, r)
      \/ n = CompletedTask(m, w) /\ t \notin m.running
  BY DEF HandleWorkerResults, IsWanted
<1> SUFFICES SteadyWithout(m, n, w)
  OBVIOUS
<1>2. m.workers \subseteq Worker
  BY DEF DriverInv, DriverState
<1> HIDE DEF n
<1>3. /\ n.workers = m.workers /\ n.running \subseteq m.running \ {t} /\ n.halt = m.halt
      /\ n.ustat \in {r, m.ustat}
      /\ n.state = [m.state EXCEPT ![w] = "IDLE"]
      /\ n.runningtask = [m.runningtask EXCEPT ![w] = NoTask]
  <2>1. CASE n = CompletedTask(m, w) /\ t \notin m.running
    BY <2>1 DEF CompletedTask, DriverInv, DriverState
  <2>2. CASE n = ActOnCompletedTask(m, w, t, N, r)
    BY <2>2 DEF ActOnCompletedTask, CompletedTask, AddTasks, DriverInv, DriverState
  <2> QED
    BY <1>1, <2>1, <2>2
<1>4. n.runningtask[w] = NoTask
  BY <1>2, <1>3 DEF DriverInv, DriverState
<1>5. ASSUME NEW u \in n.running PROVE Holders(n, u) # {}
  <2>1. u \in m.running /\ u # t
    BY <1>3
  <2>2. PICK v \in m.workers : m.runningtask[v] = u
    BY <2>1 DEF Steady, Attended, Held, Holders
  <2> QED
    BY <1>2, <1>3, <2>1, <2>2 DEF Holders, DriverInv, DriverState
<1>6. IdleIsFree(n)
  BY <1>2, <1>3, <1>4 DEF Steady, Attended, IdleIsFree, Idle, InState, DriverInv, DriverState
<1> QED
  BY <1>3, <1>4, <1>5, <1>6 DEF SteadyWithout, Steady, Attended, Held, UserOrOK

LEMMA OnResultsSteady ==
  ASSUME SuspensionPolicy = "DEFAULT",
         NEW m, DriverInv(m), Steady(m), NEW w \in Worker, NEW t \in Task \cup {NoTask},
         w \in m.workers => t \in Task /\ t = m.runningtask[w],
         NEW N \in SUBSET (Task \ m.created), NEW r \in UserReturns,
         NEW n \in OnResults(m, w, t, N, r)
  PROVE  Steady(n)
<1>1. CASE w \notin m.workers
  BY <1>1, SendSteady, ControlIsMessage DEF OnResults, TellStranger
<1>2. CASE w \in m.workers
  <2> DEFINE x == Control("KILL_YOURSELF")
             done == HandleWorkerResults(m, w, t, N, r)
             told == Send(done, w, x)
             gone == RmWorkers(told, {w})
  <2>1. /\ DriverInv(done) /\ Steady(done) /\ done.runningtask[w] = NoTask
        /\ done.workers = m.workers
    <3>1. t \in Task /\ t = m.runningtask[w]
      BY <1>2
    <3>2. DriverInv(done)
      BY <1>2, HandleWorkerResultsKeeps
    <3>3. SteadyWithout(m, done, w)
      BY <1>2, <3>1, HandleWorkerResultsSteady
    <3> QED
      BY <3>2, <3>3 DEF SteadyWithout
  <2>2. \/ n = done
        \/ n = RmWorkers(done, {w})
        \/ n \in SendTaskToWorker(done, w)
        \/ n \in CallHostaddlogic(gone)
    BY <1>2 DEF OnResults, HandleResults, WorkerLastRites
  <2>3. x \in Message
    BY ControlIsMessage
  <2> HIDE DEF done, x
  <2>4. DriverInv(told) /\ Steady(told) /\ told.runningtask[w] = NoTask
    <3>1. told.runningtask = done.runningtask
      BY <2>1 DEF Send, DriverInv, DriverState
    <3> QED
      BY <2>1, <2>3, <3>1, SendSteady
  <2> HIDE DEF told
  <2>5. DriverInv(gone) /\ Steady(gone)
    BY <2>4, RmWorkersSteady
  <2> HIDE DEF gone
  <2> QED
    BY <1>2, <2>1, <2>2, <2>5, RmWorkersSteady, SendTaskToWorkerSteady, CallHostaddlogicSteady
<1> QED
  BY <1>1, <1>2

LEMMA NoticesSteady ==
  ASSUME SuspensionPolicy = "DEFAULT", NEW m, DriverInv(m), Steady(m), NEW w \in Worker, NEW n,
         n \in HandleExit(m, w) \/ n \in HandleHostsuspend(m, w) \/ n \in HandleHostresume(m, w)
  PROVE  Steady(n)
<1>1. CASE n \in HandleExit(m, w)
  <2> DEFINE k == HostPostmortem(m, {w})
             j == RmWorkers(m, {w})
  <2>1. j.halt = m.halt /\ j.ustat = m.ustat /\ DOMAIN j = DOMAIN m
    BY DEF RmWorkers, DriverInv, DriverState
  <2> HIDE DEF j
  <2>2. k.halt = m.halt /\ k.ustat = m.ustat
    BY <2>1 DEF HostPostmortem, j, DriverInv, DriverState
  <2> HIDE DEF k
  <2>3. DriverInv(k) /\ Attended(k)
    BY HostPostmortemKeeps, HostPostmortemHolds DEF k, Steady
  <2>4. Steady(k)
    BY <2>2, <2>3 DEF Steady
  <2>5. n = m \/ n \in CallHostaddlogic(k)
    BY <1>1 DEF HandleExit, k
  <2> QED
    BY <2>3, <2>4, <2>5, CallHostaddlogicSteady
<1>2. CASE n \in HandleHostsuspend(m, w)
  <2>1. n.halt = m.halt /\ n.ustat = m.ustat
    BY <1>2 DEF HandleHostsuspend, DriverInv, DriverState
  <2> QED
    BY <1>2, <2>1, HandleHostsuspendHolds DEF Steady
<1>3. CASE n \in HandleHostresume(m, w)
  <2>1. n.halt = m.halt /\ n.ustat = m.ustat
    BY <1>3 DEF HandleHostresume, DriverInv, DriverState
  <2> QED
    BY <1>3, <2>1, HandleHostresumeHolds DEF Steady
<1> QED
  BY <1>1, <1>2, <1>3

LEMMA AddWorkerSteady ==
  ASSUME NEW m, DriverInv(m), Steady(m), NEW w \in Worker, w \notin m.workers,
         NEW n \in CallHostaddlogic(AddWorker(m, w))
  PROVE  Steady(n)
<1> DEFINE k == AddWorker(m, w)
<1>1. DriverInv(k) /\ k.halt = m.halt /\ k.ustat = m.ustat
  BY AddWorkerKeeps DEF AddWorker, DriverInv, DriverState
<1> HIDE DEF k
<1>2. n.halt = m.halt /\ n.ustat = m.ustat
  BY <1>1, CallHostaddlogicSpares DEF k
<1> QED
  BY <1>2, AddWorkerHolds DEF Steady

LEMMA MasterStepStands ==
  ASSUME NEW S, MasterStep(S), \A m \in S : DriverInv(m) /\ Steady(m)
  PROVE  Stands(mw')
<1>1. PICK m \in S : \E n \in EndOfIteration(m, WorkerTimeout, expired) : Deliver(n)
  BY DEF MasterStep
<1>2. PICK n \in EndOfIteration(m, WorkerTimeout, expired) : Deliver(n)
  BY <1>1
<1>3. DriverInv(n) /\ Stands(n)
  BY EndOfIterationKeeps, EndOfIterationStands
<1>4. mw'.halt = n.halt /\ mw'.ustat = n.ustat
  BY <1>2, <1>3 DEF Deliver, DriverInv, DriverState
<1> QED
  BY <1>3, <1>4 DEF Stands

StandsInOrder == Ordinary => Stands(mw)

LEMMA RunningIsSteady ==
  ASSUME SystemInv, StandsInOrder, Ordinary, Running
  PROVE  DriverInv(mw) /\ Steady(mw)
BY InOrderAttended DEF SystemInv, IInv, StandsInOrder, Stands, Steady, Running

(* What has been reported is what was expected. *)
LEMMA ReportsAreExpected ==
  ASSUME SystemInv, Ordinary, Running, NEW w \in mw.workers, HasMessage(outbox, w)
  PROVE  /\ Head(outbox[w]).tag \in {"INIT", "BENCH_RESULTS"} => mw.runningtask[w] = NoTask
         /\ Head(outbox[w]).tag = "RESULTS" => /\ Head(outbox[w]).task = mw.runningtask[w]
                                               /\ mw.runningtask[w] \in Task
<1>1. w \in Worker /\ outbox[w] \in Seq(ReportType) /\ outbox[w] # <<>>
      /\ mw.runningtask[w] \in Task \cup {NoTask}
  BY DEF SystemInv, SystemTypeOK, TypeOK, DriverState, HasMessage
<1>2. InStep(mw, w, proc[w], inbox[w], outbox[w], notices[w])
  BY <1>1 DEF SystemInv, InOrder
<1>3. ASSUME Head(outbox[w]).tag = "RESULTS"
      PROVE  Head(outbox[w]).task = mw.runningtask[w] /\ mw.runningtask[w] \in Task
  <2>1. WorkInStep(mw, w, proc[w], inbox[w], outbox[w])
    BY <1>1, <1>2, <1>3, Reporter
  <2>2. Owes(mw, w, proc[w], inbox[w], outbox[w])
    BY <2>1 DEF WorkInStep, Running
  <2>3. outbox[w] = <<Result(mw.runningtask[w])>> /\ mw.runningtask[w] # NoTask
    BY <1>1, <2>2 DEF Owes
  <2> QED
    BY <1>1, <2>3 DEF Result
<1>4. ASSUME Head(outbox[w]).tag \in {"INIT", "BENCH_RESULTS"} PROVE mw.runningtask[w] = NoTask
  <2>1. \/ FreshInStep(mw, w, proc[w], inbox[w], outbox[w], notices[w])
        \/ BenchInStep(mw, w, proc[w], inbox[w], outbox[w])
    BY <1>1, <1>2, <1>4, Reporter
  <2> QED
    BY <2>1 DEF FreshInStep, BenchInStep
<1> QED
  BY <1>3, <1>4

LEMMA StandsNext ==
  ASSUME SuspensionPolicy = "DEFAULT", SystemInv, StandsInOrder, [SystemNext]_vars
  PROVE  StandsInOrder'
<1> SUFFICES ASSUME Ordinary' PROVE Stands(mw')
  BY DEF StandsInOrder
<1>1. CASE mw' = mw /\ Ordinary
  BY <1>1 DEF StandsInOrder
<1>2. ASSUME NEW w \in Worker, GetInit(w) PROVE Stands(mw')
  <2>1. Ordinary /\ Running /\ HasMessage(outbox, w) /\ Head(outbox[w]).tag = "INIT"
    BY <1>2 DEF GetInit, Ordinary, MasterStep
  <2>2. \A m \in Affordable(OnInit(mw, w), w) : DriverInv(m) /\ Steady(m)
    BY <2>1, RunningIsSteady, ReportsAreExpected, OnInitKeeps, OnInitSteady DEF Affordable
  <2> QED
    BY <1>2, <2>2, MasterStepStands DEF GetInit
<1>3. ASSUME NEW w \in Worker, GetBenchResults(w) PROVE Stands(mw')
  <2>1. Ordinary /\ Running /\ HasMessage(outbox, w) /\ Head(outbox[w]).tag = "BENCH_RESULTS"
    BY <1>3 DEF GetBenchResults, Ordinary, MasterStep
  <2>2. \A m \in OnBenchResults(mw, w, Head(outbox[w]).okay) : DriverInv(m) /\ Steady(m)
    BY <2>1, RunningIsSteady, ReportsAreExpected, OnBenchResultsKeeps, OnBenchResultsSteady
  <2> QED
    BY <1>3, <2>2, MasterStepStands DEF GetBenchResults
<1>4. ASSUME NEW w \in Worker, GetResults(w) PROVE Stands(mw')
  <2>1. Ordinary /\ Running /\ HasMessage(outbox, w) /\ Head(outbox[w]).tag = "RESULTS"
    BY <1>4 DEF GetResults, Ordinary, MasterStep
  <2>2. PICK N \in SUBSET (Task \ mw.created), r \in UserReturns :
          MasterStep(OnResults(mw, w, Head(outbox[w]).task, N, r))
    BY <1>4 DEF GetResults
  <2>3. Head(outbox[w]).task \in Task \cup {NoTask}
    <3>1. outbox[w] \in Seq(ReportType) /\ outbox[w] # <<>>
      BY <2>1 DEF SystemInv, SystemTypeOK, HasMessage
    <3>2. Head(outbox[w]) \in ReportType
      BY <3>1
    <3> QED
      BY <3>2 DEF ReportType
  <2>4. \A m \in OnResults(mw, w, Head(outbox[w]).task, N, r) : DriverInv(m) /\ Steady(m)
    BY <2>1, <2>3, RunningIsSteady, ReportsAreExpected, OnResultsKeeps, OnResultsSteady
  <2> QED
    BY <2>2, <2>4, MasterStepStands
<1>5. ASSUME NEW w \in Worker, GetNotice(w) PROVE Stands(mw')
  <2> DEFINE S == CASE Head(notices[w]) = "HOSTSUSPEND" -> HandleHostsuspend(mw, w)
                    [] Head(notices[w]) = "HOSTRESUME" -> HandleHostresume(mw, w)
                    [] OTHER -> HandleExit(mw, w)
  <2>1. Ordinary /\ Running /\ MasterStep(S)
    BY <1>5 DEF GetNotice, Ordinary, MasterStep
  <2>2. DriverInv(mw) /\ Steady(mw)
    BY <2>1, RunningIsSteady
  <2>3. S \in {HandleExit(mw, w), HandleHostsuspend(mw, w), HandleHostresume(mw, w)}
    OBVIOUS
  <2> HIDE DEF S
  <2>4. \A m \in S : DriverInv(m) /\ Steady(m)
    BY <2>2, <2>3, NoticesSteady, HandleExitKeeps, HandleHostsuspendKeeps, HandleHostresumeKeeps
  <2> QED
    BY <2>1, <2>4, MasterStepStands
<1>6. ASSUME NEW w \in Worker, GetHostadd(w) PROVE Stands(mw')
  <2>1. Ordinary /\ Running /\ MasterStep(CallHostaddlogic(AddWorker(mw, w))) /\ w \in Absent
    BY <1>6 DEF GetHostadd, Ordinary, MasterStep
  <2>2. DriverInv(mw) /\ Steady(mw)
    BY <2>1, RunningIsSteady
  <2>3. w \notin mw.workers
    <3>1. InStep(mw, w, "none", inbox[w], outbox[w], notices[w]) /\ inbox[w] \in Seq(Message)
      BY <2>1 DEF SystemInv, InOrder, Absent, SystemTypeOK
    <3> QED
      BY <3>1, StepGone
  <2>4. \A m \in CallHostaddlogic(AddWorker(mw, w)) : DriverInv(m) /\ Steady(m)
    BY <2>2, <2>3, AddWorkerKeeps, CallHostaddlogicKeeps, AddWorkerSteady
  <2> QED
    BY <2>1, <2>4, MasterStepStands
<1>7. ASSUME FinishWorkers PROVE Stands(mw')
  <2>1. Ordinary /\ Deliver(AllKilled(mw)) /\ DriverInv(mw)
    BY <1>7 DEF FinishWorkers, Ordinary, SystemInv, IInv
  <2> DEFINE m == AllKilled(mw)
  <2>2. m.halt = mw.halt /\ m.ustat = mw.ustat /\ DriverInv(m)
    <3>1. m.halt = mw.halt /\ m.ustat = mw.ustat
      BY <2>1 DEF AllKilled, RmWorkers, DriverInv, DriverState
    <3>2. DriverInv(m)
      BY <2>1, AllKilledKeeps DEF SystemInv
    <3> QED
      BY <3>1, <3>2
  <2> HIDE DEF m
  <2>3. mw'.halt = mw.halt /\ mw'.ustat = mw.ustat
    BY <2>1, <2>2 DEF Deliver, m, DriverInv, DriverState
  <2> QED
    BY <2>1, <2>3 DEF StandsInOrder, Stands
<1>8. ASSUME NEW w \in Worker,
             GetChecksumError(w) \/ GetsChecksumError(w) \/ Suspend(w)
      PROVE  ~Ordinary' \/ (mw' = mw /\ Ordinary)
  <2>1. oddities \in Nat
    BY BoundsAreNaturals DEF SystemInv, SystemTypeOK
  <2> QED
    BY <1>8, <2>1 DEF GetChecksumError, GetsChecksumError, Suspend, Mishap, Ordinary
<1>9. ASSUME NEW w \in Worker,
             WorkerRuns(w) \/ Crashes(w) \/ IsRemoved(w) \/ Resume(w) \/ Expire(w)
      PROVE  mw' = mw /\ Ordinary
  BY <1>9 DEF WorkerRuns, GreetMaster, DoBenchmarkCmd, DropFirstMessage, DoThisWorkNow,
              Suicide, Crashes, IsRemoved, Resume, Expire, Ordinary
<1>10. ASSUME UNCHANGED vars PROVE mw' = mw /\ Ordinary
  BY <1>10 DEF vars, procVars, Ordinary
<1> QED
  BY <1>1, <1>2, <1>3, <1>4, <1>5, <1>6, <1>7, <1>8, <1>9, <1>10 DEF SystemNext, MasterReceives

(* Whatever workers and machines do, short of what is out of the ordinary,   *)
(* no assertion of the master fails and no NULL pointer is followed, and the *)
(* loop stops early only if a callback of the user has asked for it.         *)
THEOREM MasterStands ==
  ASSUME SuspensionPolicy = "DEFAULT"
  PROVE  SystemSpec => []StandsInOrder
<1>1. SystemInit => StandsInOrder
  <2> SUFFICES ASSUME SystemInit PROVE Stands(mw)
    BY DEF StandsInOrder
  <2>1. mw.halt = "no" /\ mw.ustat = "OK"
    BY DEF SystemInit, Setup
  <2> QED
    BY <2>1 DEF Stands, UserOrOK
<1>2. SystemInv /\ StandsInOrder /\ [SystemNext]_vars => StandsInOrder'
  BY StandsNext
<1> QED
  BY <1>1, <1>2, SystemIsConsistent, PTL DEF SystemSpec

(* A user that never asks for a stop gets every task done: with callbacks    *)
(* that return OK the loop goes on until there is nothing left to do.        *)
THEOREM OnlyTheUserStops ==
  ASSUME SuspensionPolicy = "DEFAULT", UserReturns = {"OK"}
  PROVE  SystemSpec => [](Ordinary => OnlyTheUserStopsIt)
<1>1. SystemInv /\ StandsInOrder => (Ordinary => OnlyTheUserStopsIt)
  BY DEF SystemInv, SystemTypeOK, TypeOK, DriverState, StandsInOrder, Stands, UserOrOK,
         OnlyTheUserStopsIt
<1> QED
  BY <1>1, SystemIsConsistent, MasterStands, PTL
=============================================================================
