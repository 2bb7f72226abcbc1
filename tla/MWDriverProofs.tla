--------------------------- MODULE MWDriverProofs ---------------------------
(***************************************************************************)
(* Proofs about the master.  An iteration of its main loop is a handler,   *)
(* the rematch, and maybe the timeout check; each is built from a few      *)
(* updates of the driver's state.  The lemmas show that every update, then *)
(* every handler, then the end of the iteration preserves DriverInv, and   *)
(* the theorems follow for any workers, tasks, policies and environment.   *)
(*                                                                         *)
(* Then, that the master implements the task pool and leaves no worker     *)
(* waiting.  What the pool sees of the driver is what has been created and *)
(* what has been acted upon: the pending tasks are the difference.  So     *)
(* each update and each handler has a lemma saying that it leaves these    *)
(* alone; the one exception is the result of a wanted task.                *)
(***************************************************************************)
EXTENDS MWDriverPool, FiniteSetTheorems, TLAPS

-----------------------------------------------------------------------------
(* The updates. *)

(* A message to a worker changes nothing the invariant speaks of. *)
LEMMA SendKeeps ==
  ASSUME NEW m, DriverInv(m), NEW w \in Worker, NEW msg \in Message
  PROVE  DriverInv(Send(m, w, msg))
<1> DEFINE n == Send(m, w, msg)
<1>1. n \in DriverState
  <2> DEFINE s == [m.sent EXCEPT ![w] = Append(m.sent[w], msg)]
  <2>1. s \in [Worker -> Seq(Message)]
    BY DEF DriverInv, DriverState
  <2>2. n = [m EXCEPT !.sent = s]
    BY DEF DriverInv, DriverState, Send
  <2> QED
    BY <2>1, <2>2 DEF DriverInv, DriverState
<1>2. /\ n.todo = m.todo /\ n.running = m.running /\ n.created = m.created
      /\ n.completed = m.completed /\ n.live = m.live /\ n.workers = m.workers
      /\ n.runningtask = m.runningtask
      /\ n.reassigned_tasks = m.reassigned_tasks
      /\ n.reassigned_tasks_done = m.reassigned_tasks_done
      /\ n.num_completed_tasks = m.num_completed_tasks
  BY DEF DriverInv, DriverState, Send
<1> QED
  BY <1>1, <1>2 DEF DriverInv, TasksAreInOnePlace, PointersAreLive, ReassignedAreMarked

(* Giving tasks to workers.  A task that waits on the todo list, or has *)
(* another holder, must be marked as reassigned.                        *)
LEMMA GiveWorkKeeps ==
  ASSUME NEW m, DriverInv(m), NEW D \in SUBSET m.workers,
         NEW f \in [D -> m.todo \cup m.running],
         \A v \in D : f[v] \in m.todo => f[v] \in m.reassigned_tasks,
         \A v, w \in D : v # w /\ f[v] = f[w] => f[v] \in m.reassigned_tasks,
         \A v \in D, w \in Worker : m.runningtask[w] = f[v] => f[v] \in m.reassigned_tasks
  PROVE  DriverInv(GiveWork(m, f))
<1> DEFINE n == GiveWork(m, f)
<1>1. n \in DriverState
  <2> DEFINE st == [w \in Worker |-> IF w \in D THEN "WORKING" ELSE m.state[w]]
             rt == [w \in Worker |-> IF w \in D THEN f[w] ELSE m.runningtask[w]]
             se == [w \in Worker |-> IF w \in D THEN Append(m.sent[w], DoThisWork(f[w]))
                                      ELSE m.sent[w]]
  <2>1. st \in [Worker -> WorkerState]
    BY DEF DriverInv, DriverState, WorkerState
  <2>2. rt \in [Worker -> Task \cup {NoTask}]
    BY DEF DriverInv, DriverState
  <2>3. \A w \in D : DoThisWork(f[w]) \in Message
    BY DEF DriverInv, DriverState, DoThisWork, Message
  <2>4. se \in [Worker -> Seq(Message)]
    BY <2>3 DEF DriverInv, DriverState
  <2>5. n = [m EXCEPT !.state = st, !.runningtask = rt, !.sent = se]
    BY DEF GiveWork
  <2> QED
    BY <2>1, <2>2, <2>4, <2>5 DEF DriverInv, DriverState
<1>2. /\ n.todo = m.todo /\ n.running = m.running /\ n.created = m.created
      /\ n.completed = m.completed /\ n.live = m.live /\ n.workers = m.workers
      /\ n.runningtask = [w \in Worker |-> IF w \in D THEN f[w] ELSE m.runningtask[w]]
      /\ n.reassigned_tasks = m.reassigned_tasks
      /\ n.reassigned_tasks_done = m.reassigned_tasks_done
      /\ n.num_completed_tasks = m.num_completed_tasks
  BY DEF DriverInv, DriverState, GiveWork
<1> QED
  BY <1>1, <1>2 DEF DriverInv, TasksAreInOnePlace, PointersAreLive, ReassignedAreMarked

(* A change of what the invariant does not speak of. *)
LEMMA SameTasksKeeps ==
  ASSUME NEW m, DriverInv(m), NEW n \in DriverState,
         n.todo = m.todo, n.running = m.running, n.created = m.created,
         n.completed = m.completed, n.live = m.live, n.workers = m.workers,
         n.runningtask = m.runningtask,
         n.reassigned_tasks = m.reassigned_tasks,
         n.reassigned_tasks_done = m.reassigned_tasks_done,
         n.num_completed_tasks = m.num_completed_tasks
  PROVE  DriverInv(n)
BY DEF DriverInv, TasksAreInOnePlace, PointersAreLive, ReassignedAreMarked

(* The idle workers D take the tasks f off the todo list, one each. *)
LEMMA AssignKeeps ==
  ASSUME NEW m, DriverInv(m), NEW D \in SUBSET Idle(m), NEW f \in [D -> m.todo],
         Injective(f)
  PROVE  DriverInv(Assign(m, f))
<1> DEFINE n == [m EXCEPT !.todo = @ \ Image(f), !.running = @ \cup Image(f)]
<1>1. Image(f) \subseteq m.todo
  BY DEF Image
<1>2. n \in DriverState
  BY <1>1 DEF DriverInv, DriverState
<1>3. /\ n.todo = m.todo \ Image(f) /\ n.running = m.running \cup Image(f)
      /\ n.created = m.created
      /\ n.completed = m.completed /\ n.live = m.live /\ n.workers = m.workers
      /\ n.runningtask = m.runningtask
      /\ n.reassigned_tasks = m.reassigned_tasks
      /\ n.reassigned_tasks_done = m.reassigned_tasks_done
      /\ n.num_completed_tasks = m.num_completed_tasks
  BY DEF DriverInv, DriverState
<1>4. DriverInv(n)
  BY <1>1, <1>2, <1>3 DEF DriverInv, TasksAreInOnePlace, PointersAreLive, ReassignedAreMarked
<1>5. f \in [D -> n.todo \cup n.running] /\ \A v \in D : f[v] \notin n.todo
  BY <1>3 DEF Image
<1>6. D \in SUBSET n.workers
  BY <1>3 DEF Idle, InState
<1>7. \A v, w \in D : v # w => f[v] # f[w]
  BY DEF Injective
<1>8. \A v \in D, w \in Worker : n.runningtask[w] = f[v] => f[v] \in n.reassigned_tasks
  BY <1>3 DEF DriverInv, ReassignedAreMarked
<1>9. DriverInv(GiveWork(n, f))
  BY <1>4, <1>5, <1>6, <1>7, <1>8, GiveWorkKeeps
<1> QED
  BY <1>9 DEF Assign

LEMMA SendTaskToWorkerKeeps ==
  ASSUME NEW m, DriverInv(m), NEW w \in m.workers, NEW n \in SendTaskToWorker(m, w)
  PROVE  DriverInv(n)
<1>1. CASE m.state[w] # "IDLE" \/ m.todo = {}
  BY <1>1 DEF SendTaskToWorker
<1>2. CASE m.state[w] = "IDLE" /\ m.todo # {}
  <2>1. PICK t \in m.todo : n = Assign(m, [x \in {w} |-> t])
    BY <1>2 DEF SendTaskToWorker
  <2> DEFINE f == [x \in {w} |-> t]
  <2>2. {w} \in SUBSET Idle(m) /\ f \in [{w} -> m.todo] /\ Injective(f)
    BY <1>2 DEF Idle, InState, Injective
  <2> HIDE DEF f
  <2>3. DriverInv(Assign(m, f))
    BY <2>2, AssignKeeps
  <2> QED
    BY <2>1, <2>3 DEF f
<1> QED
  BY <1>1, <1>2

LEMMA RematchKeeps ==
  ASSUME NEW m, DriverInv(m), NEW n \in RematchTasksToWorkers(m)
  PROVE  DriverInv(n)
<1>1. PICK f \in Matchings(Idle(m), m.todo) : n = Assign(m, f)
  BY DEF RematchTasksToWorkers
<1>2. PICK D \in SUBSET Idle(m) : f \in [D -> m.todo]
  BY DEF Matchings
<1>3. Injective(f)
  BY DEF Matchings
<1> QED
  BY <1>1, <1>2, <1>3, AssignKeeps

(* Workers leave the list. *)
LEMMA RmWorkersKeeps ==
  ASSUME NEW m, DriverInv(m), NEW K \in SUBSET Worker
  PROVE  DriverInv(RmWorkers(m, K))
<1> DEFINE n == RmWorkers(m, K)
           st == [w \in Worker |-> IF w \in K THEN "EXITED" ELSE m.state[w]]
           rt == [w \in Worker |-> IF w \in K THEN NoTask ELSE m.runningtask[w]]
           be == [w \in Worker |-> IF w \in K THEN FALSE ELSE m.isBenchMark[w]]
           do == [w \in Worker |-> IF w \in K THEN FALSE ELSE m.doomed[w]]
<1>1. n \in DriverState
  <2>1. st \in [Worker -> WorkerState] /\ rt \in [Worker -> Task \cup {NoTask}]
    BY DEF DriverInv, DriverState, WorkerState
  <2>2. be \in [Worker -> BOOLEAN] /\ do \in [Worker -> BOOLEAN]
    BY DEF DriverInv, DriverState
  <2>3. n = [m EXCEPT !.workers = m.workers \ K, !.state = st, !.runningtask = rt,
                      !.isBenchMark = be, !.doomed = do]
    BY DEF RmWorkers
  <2> HIDE DEF n, st, rt, be, do
  <2> QED
    BY <2>1, <2>2, <2>3 DEF DriverInv, DriverState
<1>2. /\ n.todo = m.todo /\ n.running = m.running /\ n.created = m.created
      /\ n.completed = m.completed /\ n.live = m.live /\ n.workers = m.workers \ K
      /\ n.runningtask = rt
      /\ n.reassigned_tasks = m.reassigned_tasks
      /\ n.reassigned_tasks_done = m.reassigned_tasks_done
      /\ n.num_completed_tasks = m.num_completed_tasks
  BY DEF DriverInv, DriverState, RmWorkers
<1> QED
  BY <1>1, <1>2, NoTaskIsNoTask
     DEF DriverInv, DriverState, TasksAreInOnePlace, PointersAreLive, ReassignedAreMarked

(* hostPostmortem puts back the tasks that lose their last holder, and only *)
(* those.                                                                   *)
LEMMA HostPostmortemKeeps ==
  ASSUME NEW m, DriverInv(m), NEW K \in SUBSET Worker
  PROVE  DriverInv(HostPostmortem(m, K))
<1> DEFINE rest == RmWorkers(m, K)
           O == {t \in m.running : (\E w \in K : m.runningtask[w] = t) /\ Holders(rest, t) = {}}
           n == [rest EXCEPT !.running = @ \ O, !.todo = @ \cup O]
<1>1. DriverInv(rest)
  BY RmWorkersKeeps
<1>2. O \subseteq rest.running /\ \A w \in rest.workers : rest.runningtask[w] \notin O
  <2>1. rest.running = m.running
    BY DEF RmWorkers, DriverInv, DriverState
  <2> QED
    BY <2>1 DEF Holders
<1> HIDE DEF rest, O
<1>3. n \in DriverState
  BY <1>1, <1>2 DEF DriverInv, DriverState
<1>4. /\ n.todo = rest.todo \cup O /\ n.running = rest.running \ O /\ n.created = rest.created
      /\ n.completed = rest.completed /\ n.live = rest.live /\ n.workers = rest.workers
      /\ n.runningtask = rest.runningtask
      /\ n.reassigned_tasks = rest.reassigned_tasks
      /\ n.reassigned_tasks_done = rest.reassigned_tasks_done
      /\ n.num_completed_tasks = rest.num_completed_tasks
  BY <1>1 DEF DriverInv, DriverState
<1>5. NoTask \notin O
  BY <1>1, <1>2, NoTaskIsNoTask DEF DriverInv, DriverState
<1>6. DriverInv(n)
  BY <1>1, <1>2, <1>3, <1>4, <1>5
     DEF DriverInv, TasksAreInOnePlace, PointersAreLive, ReassignedAreMarked
<1> QED
  BY <1>6 DEF HostPostmortem, rest, O

LEMMA MarkForRemovalKeeps ==
  ASSUME NEW m, DriverInv(m), NEW K \in SUBSET Worker
  PROVE  DriverInv(MarkForRemoval(m, K))
<1> DEFINE n == MarkForRemoval(m, K)
           do == [w \in Worker |-> w \in K \/ m.doomed[w]]
<1>1. do \in [Worker -> BOOLEAN] /\ n = [m EXCEPT !.doomed = do]
  BY DEF MarkForRemoval
<1> HIDE DEF n, do
<1>2. n \in DriverState
  BY <1>1 DEF DriverInv, DriverState
<1> QED
  BY <1>1, <1>2, SameTasksKeeps DEF n, DriverInv, DriverState

(* Idle workers go, then suspended ones, then others are marked. *)
LEMMA DeleteHostsShape ==
  ASSUME NEW m, NEW h, NEW n \in DeleteHosts(m, h)
  PROVE  \E K, L, D \in SUBSET m.workers :
            n = MarkForRemoval(HostPostmortem(RmWorkers(m, K), L), D)
<1>1. PICK K \in Walks(Idle(m), h) :
        n \in UNION { { MarkForRemoval(HostPostmortem(RmWorkers(m, K), L), D) :
                           D \in LET left == h - Cardinality(K) - Cardinality(L)
                                     unmarked == {w \in m.workers \ (K \cup L) : ~m.doomed[w]}
                                 IN  {E \in SUBSET unmarked :
                                        Cardinality(E) = IF Cardinality(unmarked) < left
                                                         THEN Cardinality(unmarked) ELSE left} }
                       : L \in Walks(InState(m, "SUSPENDED"), h - Cardinality(K)) }
  BY DEF DeleteHosts
<1>2. PICK L \in Walks(InState(m, "SUSPENDED"), h - Cardinality(K)) :
        \E D \in SUBSET m.workers : n = MarkForRemoval(HostPostmortem(RmWorkers(m, K), L), D)
  BY <1>1
<1>3. K \in SUBSET m.workers /\ L \in SUBSET m.workers
  BY DEF Walks, Idle, InState
<1> QED
  BY <1>2, <1>3

LEMMA DeleteHostsKeeps ==
  ASSUME NEW m, DriverInv(m), NEW h, NEW n \in DeleteHosts(m, h)
  PROVE  DriverInv(n)
<1>1. PICK K, L, D \in SUBSET m.workers :
        n = MarkForRemoval(HostPostmortem(RmWorkers(m, K), L), D)
  BY DeleteHostsShape
<1>2. K \in SUBSET Worker /\ L \in SUBSET Worker /\ D \in SUBSET Worker
  BY DEF DriverInv, DriverState
<1>3. DriverInv(HostPostmortem(RmWorkers(m, K), L))
  BY <1>2, RmWorkersKeeps, HostPostmortemKeeps
<1> QED
  BY <1>1, <1>2, <1>3, MarkForRemovalKeeps

LEMMA CallHostaddlogicKeeps ==
  ASSUME NEW m, DriverInv(m), NEW n \in CallHostaddlogic(m)
  PROVE  DriverInv(n)
<1>1. n = m \/ \E h : n \in DeleteHosts(m, h)
  BY DEF CallHostaddlogic
<1> QED
  BY <1>1, DeleteHostsKeeps

-----------------------------------------------------------------------------
(* The handlers. *)

(* A worker that is done with its task holds none. *)
LEMMA CompletedTaskKeeps ==
  ASSUME NEW m, DriverInv(m), NEW w \in Worker
  PROVE  DriverInv(CompletedTask(m, w))
<1> DEFINE n == CompletedTask(m, w)
<1>1. n \in DriverState
  <2> DEFINE st == [m.state EXCEPT ![w] = "IDLE"]
             rt == [m.runningtask EXCEPT ![w] = NoTask]
  <2>1. st \in [Worker -> WorkerState] /\ rt \in [Worker -> Task \cup {NoTask}]
    BY DEF DriverInv, DriverState, WorkerState
  <2>2. n = [m EXCEPT !.state = st, !.runningtask = rt]
    BY DEF DriverInv, DriverState, CompletedTask
  <2> HIDE DEF n, st, rt
  <2> QED
    BY <2>1, <2>2 DEF DriverInv, DriverState
<1>2. /\ n.todo = m.todo /\ n.running = m.running /\ n.created = m.created
      /\ n.completed = m.completed /\ n.live = m.live /\ n.workers = m.workers
      /\ n.runningtask = [m.runningtask EXCEPT ![w] = NoTask]
      /\ n.reassigned_tasks = m.reassigned_tasks
      /\ n.reassigned_tasks_done = m.reassigned_tasks_done
      /\ n.num_completed_tasks = m.num_completed_tasks
  BY DEF DriverInv, DriverState, CompletedTask
<1> HIDE DEF n
<1>3. DriverInv(n)
  BY <1>1, <1>2, NoTaskIsNoTask
     DEF DriverInv, DriverState, TasksAreInOnePlace, PointersAreLive, ReassignedAreMarked
<1> QED
  BY <1>3 DEF n

(* The result of a wanted task is acted upon: the task moves from the lists *)
(* to the completed ones, and if it is reachable it is known to be done.    *)
LEMMA ActOnCompletedTaskKeeps ==
  ASSUME NEW m, DriverInv(m), NEW w \in m.workers, NEW t \in Task,
         t = m.runningtask[w], IsWanted(m, t),
         NEW N \in SUBSET (Task \ m.created), NEW r \in UserReturns
  PROVE  DriverInv(ActOnCompletedTask(m, w, t, N, r))
<1> DEFINE n == ActOnCompletedTask(m, w, t, N, r)
           acted == CompletedTask(AddTasks(m, N), w)
           st == [m.state EXCEPT ![w] = "IDLE"]
           rt == [m.runningtask EXCEPT ![w] = NoTask]
           dn == IF t \in m.reassigned_tasks THEN m.reassigned_tasks_done \cup {t}
                 ELSE m.reassigned_tasks_done
           lv == IF Holders(acted, t) = {} THEN (m.live \cup N) \ {t} ELSE m.live \cup N
<1>1. w \in Worker /\ m \in DriverState /\ r \in {"OK", "QUIT"}
  BY UserReturnsAreKnown DEF DriverInv, DriverState
<1>2. t \in m.todo \cup m.running /\ t \notin m.completed /\ t \notin N
  BY DEF IsWanted, DriverInv, TasksAreInOnePlace
<1>3. st \in [Worker -> WorkerState] /\ rt \in [Worker -> Task \cup {NoTask}]
  BY <1>1 DEF DriverState, WorkerState
<1>4. \A v \in Worker : rt[v] = IF v = w THEN NoTask ELSE m.runningtask[v]
  BY <1>1 DEF DriverState
<1>5. acted = [m EXCEPT !.todo = m.todo \cup N, !.created = m.created \cup N,
                        !.live = m.live \cup N, !.state = st, !.runningtask = rt]
  BY <1>1 DEF CompletedTask, AddTasks, DriverState
<1>6. n = [acted EXCEPT
             !.running = @ \ {t}, !.todo = @ \ {t}, !.completed = @ \cup {t},
             !.num_completed_tasks = @ + 1,
             !.reassigned_tasks_done = IF t \in m.reassigned_tasks THEN @ \cup {t} ELSE @,
             !.live = IF Holders(acted, t) = {} THEN @ \ {t} ELSE @, !.ustat = r]
  BY DEF ActOnCompletedTask
<1> HIDE DEF n, acted, st, rt
<1>7. acted \in DriverState
  BY <1>1, <1>3, <1>5 DEF DriverState
<1>8. /\ acted.todo = m.todo \cup N /\ acted.running = m.running
      /\ acted.created = m.created \cup N /\ acted.completed = m.completed
      /\ acted.live = m.live \cup N /\ acted.workers = m.workers /\ acted.runningtask = rt
      /\ acted.reassigned_tasks = m.reassigned_tasks
      /\ acted.reassigned_tasks_done = m.reassigned_tasks_done
      /\ acted.num_completed_tasks = m.num_completed_tasks
  BY <1>1, <1>5 DEF DriverState
<1>9. n = [acted EXCEPT
             !.running = m.running \ {t}, !.todo = (m.todo \cup N) \ {t},
             !.completed = m.completed \cup {t},
             !.num_completed_tasks = m.num_completed_tasks + 1,
             !.reassigned_tasks_done = dn, !.live = lv, !.ustat = r]
  BY <1>6, <1>8
<1>10. dn \in SUBSET Task /\ lv \in SUBSET Task /\ m.num_completed_tasks + 1 \in Nat
  BY <1>1 DEF DriverState
<1>11. \/ lv = m.live \cup N
       \/ lv = (m.live \cup N) \ {t} /\ \A v \in Worker : rt[v] # t
  <2>1. CASE Holders(acted, t) = {}
    <3>1. \A v \in Worker : rt[v] = t => v \in m.workers
      BY <1>4, NoTaskIsNoTask DEF DriverInv, PointersAreLive
    <3> QED
      BY <2>1, <1>8, <3>1 DEF Holders
  <2>2. CASE Holders(acted, t) # {}
    BY <2>2
  <2> QED
    BY <2>1, <2>2
<1>12. Cardinality(m.completed \cup {t}) = Cardinality(m.completed) + 1
  <2>1. IsFiniteSet(m.completed)
    BY <1>1, ConstantsAreFinite, FS_Subset DEF DriverState
  <2> QED
    BY <1>2, <2>1, FS_AddElement
<1> HIDE DEF lv
<1>13. n \in DriverState
  <2> DEFINE ru == m.running \ {t}
             to == (m.todo \cup N) \ {t}
             co == m.completed \cup {t}
             nc == m.num_completed_tasks + 1
  <2>1. /\ ru \in SUBSET Task /\ to \in SUBSET Task /\ co \in SUBSET Task /\ nc \in Nat
        /\ dn \in SUBSET Task /\ lv \in SUBSET Task
    BY <1>1, <1>10 DEF DriverState
  <2>2. n = [acted EXCEPT !.running = ru, !.todo = to, !.completed = co,
                          !.num_completed_tasks = nc,
                          !.reassigned_tasks_done = dn, !.live = lv, !.ustat = r]
    BY <1>9
  <2> HIDE DEF dn, ru, to, co, nc
  <2> QED
    BY <1>1, <1>7, <2>1, <2>2 DEF DriverState
<1>14. /\ n.todo = (m.todo \cup N) \ {t} /\ n.running = m.running \ {t}
       /\ n.created = m.created \cup N /\ n.completed = m.completed \cup {t}
       /\ n.live = lv /\ n.workers = m.workers /\ n.runningtask = rt
       /\ n.reassigned_tasks = m.reassigned_tasks
       /\ n.reassigned_tasks_done = dn
       /\ n.num_completed_tasks = m.num_completed_tasks + 1
  BY <1>7, <1>8, <1>9 DEF DriverState
<1>15. TasksAreInOnePlace(n)
  BY <1>2, <1>14 DEF DriverInv, TasksAreInOnePlace, DriverState
<1>16. PointersAreLive(n)
  <2>1. n.todo \cup n.running \subseteq n.live /\ n.live \subseteq n.created
    BY <1>11, <1>14 DEF DriverInv, PointersAreLive
  <2>2. \A v \in Worker : rt[v] \in lv \cup {NoTask} /\ (v \notin m.workers => rt[v] = NoTask)
    BY <1>4, <1>11 DEF DriverInv, PointersAreLive
  <2> QED
    BY <1>14, <2>1, <2>2 DEF PointersAreLive
<1>17. ReassignedAreMarked(n)
  <2>1. dn \subseteq m.completed \cup {t}
    BY DEF DriverInv, ReassignedAreMarked
  <2>2. \A u, v \in Worker : u # v /\ rt[u] = rt[v] /\ rt[u] # NoTask
                              => rt[u] \in m.reassigned_tasks
    BY <1>4 DEF DriverInv, ReassignedAreMarked
  <2>3. \A v \in Worker : rt[v] \in (m.todo \cup N) \ {t} => rt[v] \in m.reassigned_tasks
    <3>1. \A v \in Worker : m.runningtask[v] \notin N
      BY NoTaskIsNoTask DEF DriverInv, PointersAreLive
    <3>2. NoTask \notin m.todo \cup N
      BY <1>1, NoTaskIsNoTask DEF DriverState
    <3> QED
      BY <1>4, <3>1, <3>2 DEF DriverInv, ReassignedAreMarked
  <2>4. \A v \in Worker : rt[v] \in m.completed \cup {t} => rt[v] \in dn
    <3>1. \A v \in Worker : rt[v] = t => t \in m.reassigned_tasks
      BY <1>1, <1>4, NoTaskIsNoTask DEF DriverInv, ReassignedAreMarked
    <3>2. NoTask \notin m.completed
      BY <1>1, NoTaskIsNoTask DEF DriverState
    <3> QED
      BY <1>4, <3>1, <3>2 DEF DriverInv, ReassignedAreMarked
  <2> QED
    BY <1>14, <2>1, <2>2, <2>3, <2>4 DEF ReassignedAreMarked
<1>18. DriverInv(n)
  BY <1>12, <1>13, <1>14, <1>15, <1>16, <1>17 DEF DriverInv
<1> QED
  BY <1>18 DEF n

LEMMA CrashKeeps ==
  ASSUME NEW m, DriverInv(m)
  PROVE  DriverInv(Crash(m))
<1>1. Crash(m) \in DriverState
  BY DEF Crash, DriverInv, DriverState
<1> QED
  BY <1>1, SameTasksKeeps DEF Crash, DriverInv, DriverState

(* A change of the worker's states. *)
LEMMA StateKeeps ==
  ASSUME NEW m, DriverInv(m), NEW w, NEW s \in WorkerState
  PROVE  DriverInv([m EXCEPT !.state[w] = s])
<1> DEFINE n == [m EXCEPT !.state[w] = s]
           st == [m.state EXCEPT ![w] = s]
<1>1. st \in [Worker -> WorkerState]
  BY DEF DriverInv, DriverState
<1>2. n = [m EXCEPT !.state = st]
  BY DEF DriverInv, DriverState
<1> HIDE DEF n, st
<1>3. n \in DriverState
  BY <1>1, <1>2 DEF DriverInv, DriverState
<1>4. DriverInv(n)
  BY <1>2, <1>3, SameTasksKeeps DEF DriverInv, DriverState
<1> QED
  BY <1>4 DEF n

LEMMA BenchMarkKeeps ==
  ASSUME NEW m, DriverInv(m), NEW w, NEW b \in BOOLEAN
  PROVE  DriverInv([m EXCEPT !.isBenchMark[w] = b])
<1> DEFINE n == [m EXCEPT !.isBenchMark[w] = b]
           be == [m.isBenchMark EXCEPT ![w] = b]
<1>1. be \in [Worker -> BOOLEAN]
  BY DEF DriverInv, DriverState
<1>2. n = [m EXCEPT !.isBenchMark = be]
  BY DEF DriverInv, DriverState
<1> HIDE DEF n, be
<1>3. n \in DriverState
  BY <1>1, <1>2 DEF DriverInv, DriverState
<1>4. DriverInv(n)
  BY <1>2, <1>3, SameTasksKeeps DEF DriverInv, DriverState
<1> QED
  BY <1>4 DEF n

LEMMA UstatKeeps ==
  ASSUME NEW m, DriverInv(m), NEW r \in {"OK", "QUIT"}
  PROVE  DriverInv([m EXCEPT !.ustat = r])
<1>1. [m EXCEPT !.ustat = r] \in DriverState
  BY DEF DriverInv, DriverState
<1> QED
  BY <1>1, SameTasksKeeps DEF DriverInv, DriverState

(* A new worker starts without a task. *)
LEMMA AddWorkerKeeps ==
  ASSUME NEW m, DriverInv(m), NEW w \in Worker
  PROVE  DriverInv(AddWorker(m, w))
<1> DEFINE k == [m EXCEPT !.state[w] = "INITIALIZING"]
           n == [k EXCEPT !.workers = @ \cup {w}]
<1>1. DriverInv(k)
  BY StateKeeps DEF WorkerState
<1>2. n = AddWorker(m, w)
  BY DEF AddWorker, DriverInv, DriverState
<1> HIDE DEF k
<1>3. n \in DriverState
  BY <1>1 DEF DriverInv, DriverState
<1>4. DriverInv(n)
  BY <1>1, <1>3
     DEF DriverInv, DriverState, TasksAreInOnePlace, PointersAreLive, ReassignedAreMarked
<1> QED
  BY <1>2, <1>4

LEMMA ControlIsMessage ==
  ASSUME NEW tag \in {"INIT_REPLY", "KILL_YOURSELF"}
  PROVE  Control(tag) \in Message
BY DEF Control, Message

LEMMA HandleWorkerResultsKeeps ==
  ASSUME NEW m, DriverInv(m), NEW w \in m.workers, NEW t \in Task \cup {NoTask},
         NEW N \in SUBSET (Task \ m.created), NEW r \in UserReturns
  PROVE  LET n == HandleWorkerResults(m, w, t, N, r)
         IN  DriverInv(n) /\ n.workers = m.workers
<1> DEFINE n == HandleWorkerResults(m, w, t, N, r)
<1>1. w \in Worker /\ m \in DriverState
  BY DEF DriverInv, DriverState
<1>2. n.workers = m.workers
  BY <1>1 DEF HandleWorkerResults, Crash, ActOnCompletedTask, CompletedTask, AddTasks, DriverState
<1>3. CASE t # m.runningtask[w]
  BY <1>2, <1>3, UstatKeeps DEF HandleWorkerResults
<1>4. CASE t = m.runningtask[w]
  <2>1. n \in {Crash(m), ActOnCompletedTask(m, w, t, N, r), CompletedTask(m, w)}
    BY <1>4 DEF HandleWorkerResults
  <2>2. n = ActOnCompletedTask(m, w, t, N, r) => IsWanted(m, t) \/ n \in {Crash(m), CompletedTask(m, w)}
    BY <1>4 DEF HandleWorkerResults
  <2>3. IsWanted(m, t) => DriverInv(ActOnCompletedTask(m, w, t, N, r))
    <3>1. IsWanted(m, t) => t \in Task
      BY <1>1 DEF IsWanted, DriverState
    <3> QED
      BY <1>4, <3>1, ActOnCompletedTaskKeeps
  <2> QED
    BY <1>1, <1>2, <2>1, <2>2, <2>3, CrashKeeps, CompletedTaskKeeps
<1> QED
  BY <1>3, <1>4

LEMMA WorkerLastRitesKeeps ==
  ASSUME NEW m, DriverInv(m), NEW w \in Worker
  PROVE  DriverInv(WorkerLastRites(m, w))
BY RmWorkersKeeps DEF WorkerLastRites

LEMMA OnResultsKeeps ==
  ASSUME NEW m, DriverInv(m), NEW w \in Worker, NEW t \in Task \cup {NoTask},
         NEW N \in SUBSET (Task \ m.created), NEW r \in UserReturns,
         NEW n \in OnResults(m, w, t, N, r)
  PROVE  DriverInv(n)
<1>1. CASE w \notin m.workers
  BY <1>1, SendKeeps, ControlIsMessage DEF OnResults, TellStranger
<1>2. CASE w \in m.workers
  <2> DEFINE done == HandleWorkerResults(m, w, t, N, r)
  <2>1. DriverInv(done) /\ done.workers = m.workers
    BY <1>2, HandleWorkerResultsKeeps
  <2>2. n \in HandleResults(m, w, t, N, r)
    BY <1>2 DEF OnResults
  <2>3. \/ n \in {done, WorkerLastRites(done, w)}
        \/ n \in SendTaskToWorker(done, w)
        \/ n \in CallHostaddlogic(WorkerLastRites(Send(done, w, Control("KILL_YOURSELF")), w))
    BY <2>2 DEF HandleResults
  <2> HIDE DEF done
  <2>4. DriverInv(WorkerLastRites(done, w))
    BY <2>1, WorkerLastRitesKeeps
  <2>5. DriverInv(WorkerLastRites(Send(done, w, Control("KILL_YOURSELF")), w))
    BY <2>1, SendKeeps, ControlIsMessage, WorkerLastRitesKeeps
  <2>6. n \in SendTaskToWorker(done, w) => DriverInv(n)
    BY <1>2, <2>1, SendTaskToWorkerKeeps
  <2>7. n \in CallHostaddlogic(WorkerLastRites(Send(done, w, Control("KILL_YOURSELF")), w))
          => DriverInv(n)
    BY <2>5, CallHostaddlogicKeeps
  <2> QED
    BY <2>1, <2>3, <2>4, <2>6, <2>7
<1> QED
  BY <1>1, <1>2

LEMMA OnInitKeeps ==
  ASSUME NEW m, DriverInv(m), NEW w \in Worker, NEW n \in OnInit(m, w)
  PROVE  DriverInv(n)
<1>1. CASE w \notin m.workers
  BY <1>1, SendKeeps, ControlIsMessage DEF OnInit, TellStranger
<1>2. CASE w \in m.workers
  <2> DEFINE gone == WorkerLastRites(m, w)
             told == Send(m, w, Control("INIT_REPLY"))
             asked == [told EXCEPT !.state[w] = "BENCHMARKING", !.isBenchMark[w] = TRUE]
  <2>1. DriverInv(gone) /\ DriverInv(told)
    BY WorkerLastRitesKeeps, SendKeeps, ControlIsMessage
  <2>2. \/ n = gone
        \/ \E r \in UserReturns : n = [gone EXCEPT !.ustat = r]
        \/ n = asked
    BY <1>2 DEF OnInit, WorkerInit
  <2> DEFINE benched == [told EXCEPT !.state[w] = "BENCHMARKING"]
  <2> HIDE DEF gone, told
  <2>3. DriverInv(benched)
    BY <2>1, StateKeeps DEF WorkerState
  <2>4. asked = [benched EXCEPT !.isBenchMark[w] = TRUE]
    BY <2>1 DEF DriverInv, DriverState
  <2> HIDE DEF benched, asked
  <2>5. DriverInv(asked)
    BY <2>3, <2>4, BenchMarkKeeps
  <2>6. \A r \in UserReturns : DriverInv([gone EXCEPT !.ustat = r])
    BY <2>1, UstatKeeps, UserReturnsAreKnown
  <2> QED
    BY <2>1, <2>2, <2>5, <2>6
<1> QED
  BY <1>1, <1>2

LEMMA OnBenchResultsKeeps ==
  ASSUME NEW m, DriverInv(m), NEW w \in Worker, NEW okay, NEW n \in OnBenchResults(m, w, okay)
  PROVE  DriverInv(n)
<1>1. CASE w \notin m.workers
  BY <1>1, SendKeeps, ControlIsMessage DEF OnBenchResults, TellStranger
<1>2. CASE w \in m.workers
  <2> DEFINE idle == [m EXCEPT !.state[w] = "IDLE"]
             k == [m EXCEPT !.state[w] = "IDLE", !.isBenchMark[w] = FALSE]
  <2>1. n = WorkerLastRites(m, w) \/ n \in SendTaskToWorker(k, w)
    BY <1>2 DEF OnBenchResults, HandleBenchmark
  <2>2. DriverInv(idle)
    BY StateKeeps DEF WorkerState
  <2>3. k = [idle EXCEPT !.isBenchMark[w] = FALSE] /\ k.workers = m.workers
    BY DEF DriverInv, DriverState
  <2> HIDE DEF k, idle
  <2>4. DriverInv(k)
    BY <2>2, <2>3, BenchMarkKeeps
  <2>5. n \in SendTaskToWorker(k, w) => DriverInv(n)
    BY <1>2, <2>3, <2>4, SendTaskToWorkerKeeps
  <2> QED
    BY <2>1, <2>5, WorkerLastRitesKeeps
<1> QED
  BY <1>1, <1>2

LEMMA HandleHostaddKeeps ==
  ASSUME NEW m, DriverInv(m), NEW W \in SUBSET Worker, NEW n \in HandleHostadd(m, W)
  PROVE  DriverInv(n)
<1>1. n \in CallHostaddlogic(m) \/ \E w \in W : n \in CallHostaddlogic(AddWorker(m, w))
  BY DEF HandleHostadd
<1> QED
  BY <1>1, AddWorkerKeeps, CallHostaddlogicKeeps

LEMMA HandleExitKeeps ==
  ASSUME NEW m, DriverInv(m), NEW w \in Worker, NEW n \in HandleExit(m, w)
  PROVE  DriverInv(n)
<1>1. DriverInv(HostPostmortem(m, {w}))
  BY HostPostmortemKeeps
<1>2. n = m \/ n \in CallHostaddlogic(HostPostmortem(m, {w}))
  BY DEF HandleExit
<1> QED
  BY <1>1, <1>2, CallHostaddlogicKeeps

(* A task taken from a suspended worker is marked as reassigned before it can *)
(* be given to another.                                                       *)
LEMMA HandleHostsuspendKeeps ==
  ASSUME NEW m, DriverInv(m), NEW w \in Worker, NEW n \in HandleHostsuspend(m, w)
  PROVE  DriverInv(n)
<1> DEFINE t == m.runningtask[w]
           susp == [m EXCEPT !.state[w] = "SUSPENDED"]
           off == [susp EXCEPT !.running = @ \ {t}]
           back == [off EXCEPT !.todo = @ \cup {t}, !.reassigned_tasks = @ \cup {t}]
<1>1. DriverInv(susp)
  BY StateKeeps DEF WorkerState
<1>2. susp.running = m.running /\ susp.reassigned_tasks_done = m.reassigned_tasks_done
  BY DEF DriverInv, DriverState
<1>3. CASE t \in m.running
  <2>1. t \notin m.reassigned_tasks_done
    BY <1>3 DEF DriverInv, ReassignedAreMarked, TasksAreInOnePlace
  <2>2. n \in {m, susp} \/ n \in RematchTasksToWorkers(back)
    BY <2>1 DEF HandleHostsuspend
  <2> HIDE DEF susp, t
  <2>3. t \in Task
    BY <1>3 DEF DriverInv, DriverState
  <2>4. back = [susp EXCEPT !.running = susp.running \ {t}, !.todo = susp.todo \cup {t},
                            !.reassigned_tasks = susp.reassigned_tasks \cup {t}]
    BY <1>1 DEF DriverInv, DriverState
  <2> HIDE DEF back
  <2>5. back \in DriverState
    BY <1>1, <2>3, <2>4 DEF DriverInv, DriverState
  <2>6. /\ back.todo = susp.todo \cup {t} /\ back.running = susp.running \ {t}
        /\ back.created = susp.created
        /\ back.completed = susp.completed /\ back.live = susp.live
        /\ back.workers = susp.workers /\ back.runningtask = susp.runningtask
        /\ back.reassigned_tasks = susp.reassigned_tasks \cup {t}
        /\ back.reassigned_tasks_done = susp.reassigned_tasks_done
        /\ back.num_completed_tasks = susp.num_completed_tasks
    BY <1>1, <2>4 DEF DriverInv, DriverState
  <2>7. DriverInv(back)
    BY <1>1, <1>2, <1>3, <2>5, <2>6
       DEF DriverInv, TasksAreInOnePlace, PointersAreLive, ReassignedAreMarked
  <2> QED
    BY <1>1, <2>2, <2>7, RematchKeeps
<1>4. CASE t \notin m.running
  <2>1. n \in {m, susp}
    BY <1>4 DEF HandleHostsuspend
  <2> QED
    BY <1>1, <2>1
<1> QED
  BY <1>3, <1>4

LEMMA HandleHostresumeKeeps ==
  ASSUME NEW m, DriverInv(m), NEW w \in Worker, NEW n \in HandleHostresume(m, w)
  PROVE  DriverInv(n)
<1>1. n = m \/ \E s \in WorkerState : n = [m EXCEPT !.state[w] = s]
  BY DEF HandleHostresume, WorkerState
<1> QED
  BY <1>1, StateKeeps

LEMMA HandleChecksumKeeps ==
  ASSUME NEW m, DriverInv(m), NEW w \in Worker, NEW n \in HandleChecksum(m, w)
  PROVE  DriverInv(n)
<1> DEFINE told == Send(m, w, Control("INIT_REPLY"))
<1>1. DriverInv(told) /\ DriverInv(RmWorkers(m, {w})) /\ DriverInv(Crash(m))
  BY SendKeeps, ControlIsMessage, RmWorkersKeeps, CrashKeeps
<1>2. DriverInv([told EXCEPT !.isBenchMark[w] = TRUE])
  <2> HIDE DEF told
  <2> QED
    BY <1>1, BenchMarkKeeps
<1>3. \/ n \in {m, Crash(m), RmWorkers(m, {w}), [told EXCEPT !.isBenchMark[w] = TRUE]}
      \/ w \in m.workers /\ n \in SendTaskToWorker(m, w)
  BY DEF HandleChecksum
<1> QED
  BY <1>1, <1>2, <1>3, SendTaskToWorkerKeeps

-----------------------------------------------------------------------------
(* The end of an iteration. *)

(* The tasks of timed-out workers are on the run queue and not known to be   *)
(* done.  They are marked; some go back to the todo list, the others stay on *)
(* the run queue with a second holder.                                       *)
LEMMA ReassignTasksOfKeeps ==
  ASSUME NEW m, DriverInv(m), NEW T \in SUBSET Worker, NEW n \in ReassignTasksOf(m, T)
  PROVE  DriverInv(n)
<1> DEFINE onRunQ == {w \in T : m.runningtask[w] \in m.running}
           late == {w \in onRunQ : m.runningtask[w] \notin m.reassigned_tasks_done}
           TaskOf(S) == {m.runningtask[w] : w \in S}
           rest(f) == [m EXCEPT
                         !.running = (@ \ TaskOf(onRunQ \ late)) \ TaskOf(late \ Image(f)),
                         !.todo = @ \cup TaskOf(late \ Image(f)),
                         !.reassigned_tasks = @ \cup TaskOf(late)]
           next(f) == [o \in DOMAIN f |-> m.runningtask[f[o]]]
<1>1. PICK f \in Matchings(Idle(m), late) : n = CheckRunQ(GiveWork(rest(f), next(f)))
  BY DEF ReassignTasksOf
<1>2. PICK D \in SUBSET Idle(m) : f \in [D -> late]
  BY <1>1 DEF Matchings
<1>3. onRunQ \ late = {}
  BY DEF DriverInv, ReassignedAreMarked, TasksAreInOnePlace
<1> DEFINE U == TaskOf(late \ Image(f))
           V == TaskOf(late)
           k == rest(f)
           g == next(f)
<1>4. V \subseteq m.running /\ U \subseteq V
  OBVIOUS
<1>5. k = [m EXCEPT !.running = m.running \ U, !.todo = m.todo \cup U,
                    !.reassigned_tasks = m.reassigned_tasks \cup V]
  <2>1. TaskOf(onRunQ \ late) = {}
    BY <1>3
  <2>2. k = [m EXCEPT !.running = (m.running \ TaskOf(onRunQ \ late)) \ U,
                      !.todo = m.todo \cup U,
                      !.reassigned_tasks = m.reassigned_tasks \cup V]
    OBVIOUS
  <2>3. m.running \ {} = m.running
    OBVIOUS
  <2> HIDE DEF k, U, V, TaskOf
  <2> QED
    BY <2>1, <2>2, <2>3
<1>6. g \in [D -> V]
  BY <1>2
<1> HIDE DEF onRunQ, U, V, k, g
<1>7. k \in DriverState
  BY <1>4, <1>5 DEF DriverInv, DriverState
<1>8. /\ k.todo = m.todo \cup U /\ k.running = m.running \ U /\ k.created = m.created
      /\ k.completed = m.completed /\ k.live = m.live /\ k.workers = m.workers
      /\ k.runningtask = m.runningtask
      /\ k.reassigned_tasks = m.reassigned_tasks \cup V
      /\ k.reassigned_tasks_done = m.reassigned_tasks_done
      /\ k.num_completed_tasks = m.num_completed_tasks
  BY <1>5 DEF DriverInv, DriverState
<1>9. DriverInv(k)
  BY <1>4, <1>7, <1>8
     DEF DriverInv, TasksAreInOnePlace, PointersAreLive, ReassignedAreMarked
<1>10. D \in SUBSET k.workers
  BY <1>2, <1>8 DEF Idle, InState
<1>11. g \in [D -> k.todo \cup k.running] /\ \A v \in D : g[v] \in k.reassigned_tasks
  BY <1>4, <1>6, <1>8
<1>12. DriverInv(GiveWork(k, g))
  BY <1>9, <1>10, <1>11, GiveWorkKeeps
<1>13. n = CheckRunQ(GiveWork(k, g))
  BY <1>1 DEF k, g
<1> QED
  BY <1>12, <1>13, CrashKeeps DEF CheckRunQ

(* The loop has not finished with anything left to do. *)
LEMMA EndOfIterationKeeps ==
  ASSUME NEW m, DriverInv(m), NEW due, NEW late, NEW n \in EndOfIteration(m, due, late)
  PROVE  DriverInv(n) /\ (n.halt = "finished" => n.todo = {} /\ n.running = {})
<1>1. CASE m.halt = "crashed"
  BY <1>1 DEF EndOfIteration
<1>2. CASE m.halt # "crashed"
  <2>1. PICK k \in RematchTasksToWorkers(m) :
          \E j \in ReassignTimedout(k, due, late) : n = Conclude(j)
    BY <1>2 DEF EndOfIteration
  <2>2. PICK j \in ReassignTimedout(k, due, late) : n = Conclude(j)
    BY <2>1
  <2>3. DriverInv(k)
    BY RematchKeeps
  <2>4. DriverInv(j)
    <3>1. j = k \/ \E T \in SUBSET Worker : j \in ReassignTasksOf(k, T)
      <4>1. InState(k, "WORKING") \subseteq Worker
        BY <2>3 DEF InState, DriverInv, DriverState
      <4> QED
        BY <4>1 DEF ReassignTimedout
    <3> QED
      BY <2>3, <3>1, ReassignTasksOfKeeps
  <2>5. CASE j.halt = "crashed"
    BY <2>2, <2>4, <2>5 DEF Conclude
  <2>6. CASE j.halt # "crashed"
    <3> DEFINE h == IF j.ustat # "OK" THEN "stopped"
                    ELSE IF j.todo = {} /\ j.running = {} THEN "finished"
                    ELSE "no"
    <3>1. n = [j EXCEPT !.halt = h]
      BY <2>2, <2>6 DEF Conclude
    <3>2. h \in {"no", "finished", "stopped", "crashed"}
      OBVIOUS
    <3>3. h = "finished" => j.todo = {} /\ j.running = {}
      OBVIOUS
    <3> HIDE DEF h
    <3>4. n \in DriverState
      BY <2>4, <3>1, <3>2 DEF DriverInv, DriverState
    <3>5. DriverInv(n)
      BY <2>4, <3>1, <3>4, SameTasksKeeps DEF DriverInv, DriverState
    <3> QED
      BY <2>4, <3>1, <3>3, <3>5 DEF DriverInv, DriverState
  <2> QED
    BY <2>5, <2>6
<1> QED
  BY <1>1, <1>2

(* An iteration whose handler keeps the invariant keeps it. *)
LEMMA IterateKeeps ==
  ASSUME NEW S, \A m \in S : DriverInv(m), Iterate(S)
  PROVE  IInv'
<1>1. PICK m \in S : \E due, late : mw' \in EndOfIteration(m, due, late)
  BY DEF Iterate
<1> QED
  BY <1>1, EndOfIterationKeeps DEF IInv

-----------------------------------------------------------------------------
(* The specification. *)

LEMMA SentReset ==
  ASSUME NEW m, DriverInv(m)
  PROVE  DriverInv([m EXCEPT !.sent = [w \in Worker |-> <<>>]])
<1> DEFINE s == [w \in Worker |-> <<>>]
<1>1. s \in [Worker -> Seq(Message)]
  OBVIOUS
<1> HIDE DEF s
<1>2. [m EXCEPT !.sent = s] \in DriverState
  BY <1>1 DEF DriverInv, DriverState
<1>3. DriverInv([m EXCEPT !.sent = s])
  BY <1>2, SameTasksKeeps DEF DriverInv, DriverState
<1> QED
  BY <1>3 DEF s

LEMMA SetupKeeps ==
  ASSUME NEW W \in SUBSET Worker
  PROVE  DriverInv(Setup(W)) /\ Setup(W).halt = "no"
<1> DEFINE n == Setup(W)
           st == [w \in Worker |-> IF w \in W THEN "INITIALIZING" ELSE "EXITED"]
           rt == [w \in Worker |-> NoTask]
           no == [w \in Worker |-> FALSE]
           s == [w \in Worker |-> <<>>]
<1>1. /\ st \in [Worker -> WorkerState] /\ rt \in [Worker -> Task \cup {NoTask}]
      /\ no \in [Worker -> BOOLEAN] /\ s \in [Worker -> Seq(Message)]
  BY DEF WorkerState
<1>2. n = [ todo |-> InitialTasks, running |-> {},
            reassigned_tasks |-> {}, reassigned_tasks_done |-> {},
            num_completed_tasks |-> 0, workers |-> W,
            state |-> st, runningtask |-> rt, isBenchMark |-> no, doomed |-> no,
            created |-> InitialTasks, completed |-> {}, live |-> InitialTasks,
            sent |-> s, ustat |-> "OK", halt |-> "no" ]
  BY DEF Setup
<1>3. \A w \in Worker : rt[w] = NoTask
  OBVIOUS
<1> HIDE DEF n, st, rt, no, s
<1>4. n \in DriverState
  BY <1>1, <1>2, InitialTasksAreTasks DEF DriverState
<1>5. Cardinality({}) = 0
  BY FS_EmptySet
<1>6. /\ n.todo = InitialTasks /\ n.running = {} /\ n.created = InitialTasks
      /\ n.completed = {} /\ n.live = InitialTasks /\ n.runningtask = rt
      /\ n.reassigned_tasks_done = {} /\ n.num_completed_tasks = 0 /\ n.halt = "no"
  BY <1>2
<1>7. DriverInv(n)
  BY <1>3, <1>4, <1>5, <1>6, NoTaskIsNoTask, InitialTasksAreTasks
     DEF DriverInv, TasksAreInOnePlace, PointersAreLive, ReassignedAreMarked
<1> QED
  BY <1>6, <1>7 DEF n

(* Asking for hosts, or for fewer, does not end the loop. *)
LEMMA CallHostaddlogicHalt ==
  ASSUME NEW m, DriverInv(m), NEW n \in CallHostaddlogic(m)
  PROVE  n.halt = m.halt
<1>1. CASE n = m
  BY <1>1
<1>2. CASE \E h : n \in DeleteHosts(m, h)
  <2>1. PICK K, L, D \in SUBSET m.workers :
          n = MarkForRemoval(HostPostmortem(RmWorkers(m, K), L), D)
    BY <1>2, DeleteHostsShape
  <2> DEFINE j == RmWorkers(m, K)
             k == RmWorkers(j, L)
             p == HostPostmortem(j, L)
  <2>2. j.halt = m.halt /\ DOMAIN j = DOMAIN m
    BY DEF RmWorkers, DriverInv, DriverState
  <2>3. k.halt = j.halt /\ DOMAIN k = DOMAIN j
    BY <2>2 DEF RmWorkers, DriverInv, DriverState
  <2>4. p.halt = k.halt /\ DOMAIN p = DOMAIN k
    <3> HIDE DEF j
    <3> QED
      BY <2>2, <2>3 DEF HostPostmortem, DriverInv, DriverState
  <2> HIDE DEF j, k, p
  <2>5. n = MarkForRemoval(p, D)
    BY <2>1 DEF p, j
  <2>6. n.halt = p.halt
    BY <2>2, <2>3, <2>4, <2>5 DEF MarkForRemoval, DriverInv, DriverState
  <2> QED
    BY <2>2, <2>3, <2>4, <2>6
<1> QED
  BY <1>1, <1>2 DEF CallHostaddlogic

LEMMA InitIInv == Init => IInv
<1> SUFFICES ASSUME Init PROVE IInv
  OBVIOUS
<1>1. PICK W \in SUBSET Worker : mw \in CallHostaddlogic(Setup(W))
  BY DEF Init
<1>2. DriverInv(Setup(W)) /\ Setup(W).halt = "no"
  BY SetupKeeps
<1>3. DriverInv(mw) /\ mw.halt = "no"
  BY <1>1, <1>2, CallHostaddlogicKeeps, CallHostaddlogicHalt
<1> QED
  BY <1>3 DEF IInv

(* kill_workers, after the loop. *)
LEMMA AllKilledKeeps ==
  ASSUME NEW m, DriverInv(m)
  PROVE  DriverInv(AllKilled(m)) /\ AllKilled(m).todo = m.todo /\ AllKilled(m).running = m.running
<1> DEFINE k == RmWorkers(m, m.workers)
           s == [w \in Worker |->
                   IF w \in m.workers THEN Append(k.sent[w], Control("KILL_YOURSELF"))
                   ELSE k.sent[w]]
           n == [k EXCEPT !.sent = s]
<1>1. m.workers \in SUBSET Worker
  BY DEF DriverInv, DriverState
<1>2. DriverInv(k) /\ k.todo = m.todo /\ k.running = m.running
  <2>1. DriverInv(k)
    BY <1>1, RmWorkersKeeps
  <2>2. k.todo = m.todo /\ k.running = m.running
    BY DEF RmWorkers, DriverInv, DriverState
  <2> QED
    BY <2>1, <2>2
<1> HIDE DEF k
<1>3. s \in [Worker -> Seq(Message)]
  BY <1>2, ControlIsMessage DEF DriverInv, DriverState
<1>4. AllKilled(m) = n
  BY <1>2 DEF AllKilled, k
<1> HIDE DEF s, n
<1>5. n \in DriverState /\ n.todo = k.todo /\ n.running = k.running
  BY <1>2, <1>3 DEF n, DriverInv, DriverState
<1>6. DriverInv(n)
  BY <1>2, <1>5, SameTasksKeeps DEF n, DriverInv, DriverState
<1> QED
  BY <1>2, <1>4, <1>5, <1>6

LEMMA NextIInv == IInv /\ [Next]_mw => IInv'
<1> SUFFICES ASSUME IInv, [Next]_mw PROVE IInv'
  OBVIOUS
<1> USE DEF Running
<1>1. DriverInv(Received)
  BY SentReset DEF Received, IInv
<1>2. Received.workers = mw.workers /\ Received.created = mw.created
  BY DEF Received, IInv, DriverInv, DriverState
<1> HIDE DEF Received
<1>3. ASSUME NEW w \in Worker, ReceiveInit(w) PROVE IInv'
  BY <1>1, <1>3, OnInitKeeps, IterateKeeps DEF ReceiveInit
<1>4. ASSUME NEW w \in Worker, NEW okay \in BOOLEAN, ReceiveBenchResults(w, okay) PROVE IInv'
  BY <1>1, <1>4, OnBenchResultsKeeps, IterateKeeps DEF ReceiveBenchResults
<1>5. ASSUME NEW w \in Worker, NEW t \in Task, NEW N \in SUBSET (Task \ mw.created),
             NEW r \in UserReturns, ReceiveResults(w, t, N, r)
      PROVE  IInv'
  BY <1>1, <1>2, <1>5, OnResultsKeeps, IterateKeeps DEF ReceiveResults
<1>6. ASSUME NEW w \in Worker, ReceiveExit(w) PROVE IInv'
  BY <1>1, <1>6, HandleExitKeeps, IterateKeeps DEF ReceiveExit
<1>7. ASSUME NEW w \in Worker, ReceiveHostsuspend(w) PROVE IInv'
  BY <1>1, <1>7, HandleHostsuspendKeeps, IterateKeeps DEF ReceiveHostsuspend
<1>8. ASSUME NEW w \in Worker, ReceiveHostresume(w) PROVE IInv'
  BY <1>1, <1>8, HandleHostresumeKeeps, IterateKeeps DEF ReceiveHostresume
<1>9. ASSUME NEW w \in Worker, ReceiveChecksumError(w) PROVE IInv'
  BY <1>1, <1>9, HandleChecksumKeeps, IterateKeeps DEF ReceiveChecksumError
<1>10. CASE ReceiveHostadd
  BY <1>1, <1>10, HandleHostaddKeeps, IterateKeeps DEF ReceiveHostadd
<1>11. CASE KillWorkers
  <2>1. mw' = AllKilled(Received) /\ Received.todo = mw.todo /\ Received.running = mw.running
    BY <1>11 DEF KillWorkers, Received, IInv, DriverInv, DriverState
  <2>2. mw.halt = "finished" => mw.todo = {} /\ mw.running = {}
    BY DEF IInv
  <2>3. mw'.halt = mw.halt
    BY <2>1 DEF AllKilled, RmWorkers, Received, IInv, DriverInv, DriverState
  <2> QED
    BY <1>1, <2>1, <2>2, <2>3, AllKilledKeeps DEF IInv
<1>12. CASE UNCHANGED mw
  BY <1>12 DEF IInv
<1> QED
  BY <1>3, <1>4, <1>5, <1>6, <1>7, <1>8, <1>9, <1>10, <1>11, <1>12 DEF Next

(* The driver's state is consistent throughout every run, whatever messages *)
(* arrive in whatever order.                                                *)
THEOREM Consistent == Spec => []IInv
<1>1. Init => IInv
  BY InitIInv
<1>2. IInv /\ [Next]_mw => IInv'
  BY NextIInv
<1> QED
  BY <1>1, <1>2, PTL DEF Spec

(* Every field keeps its type. *)
THEOREM TypeCorrect == Spec => []TypeOK
<1>1. IInv => TypeOK
  BY DEF IInv, DriverInv, TypeOK
<1> QED
  BY <1>1, Consistent, PTL

(* No task is lost, in two places, or revived once it has been acted upon. *)
THEOREM TasksAreKept == Spec => []NoTaskLost
<1>1. IInv => NoTaskLost
  BY DEF IInv, DriverInv, TasksAreInOnePlace, NoTaskLost
<1> QED
  BY <1>1, Consistent, PTL

(* The completed-task counter counts each task once: no task is handed to *)
(* the user's act_on_completed_task twice.                                *)
THEOREM ActsOncePerTask == Spec => []ActedOncePerTask
<1>1. IInv => ActedOncePerTask
  BY DEF IInv, DriverInv, ActedOncePerTask
<1> QED
  BY <1>1, Consistent, PTL

(* The lists and the workers never point at a deleted task. *)
THEOREM PointersAreValid == Spec => []NoDanglingTask
<1>1. IInv => NoDanglingTask
  BY DEF IInv, DriverInv, DriverState, PointersAreLive, NoDanglingTask
<1> QED
  BY <1>1, Consistent, PTL

(* The second result of a task done is always recognised. *)
THEOREM SecondResultsAreKnown == Spec => []LateResultsAreKnown
<1>1. IInv => LateResultsAreKnown
  BY DEF IInv, DriverInv, DriverState, ReassignedAreMarked, LateResultsAreKnown
<1> QED
  BY <1>1, Consistent, PTL

(* If the loop ends by itself, the user has been handed every result. *)
THEOREM FinishesWithAllDone == Spec => []FinishedMeansAllDone
<1>1. IInv => FinishedMeansAllDone
  BY DEF IInv, DriverInv, TasksAreInOnePlace, FinishedMeansAllDone
<1> QED
  BY <1>1, Consistent, PTL

-----------------------------------------------------------------------------
(* The updates. *)

(* n knows the tasks m knows, and has counted as many as done. *)
SameTasks(m, n) ==
  /\ n.created = m.created /\ n.completed = m.completed
  /\ n.num_completed_tasks = m.num_completed_tasks

LEMMA SameTasksTrans ==
  ASSUME NEW k, NEW m, NEW n, SameTasks(k, m), SameTasks(m, n)
  PROVE  SameTasks(k, n)
BY DEF SameTasks

LEMMA AssignSame ==
  ASSUME NEW m \in DriverState, NEW f
  PROVE  SameTasks(m, Assign(m, f))
BY DEF SameTasks, Assign, GiveWork, DriverState

LEMMA SendSame ==
  ASSUME NEW m \in DriverState, NEW w, NEW msg
  PROVE  SameTasks(m, Send(m, w, msg))
BY DEF SameTasks, Send, DriverState

LEMMA SendTaskToWorkerSame ==
  ASSUME NEW m \in DriverState, NEW w, NEW n \in SendTaskToWorker(m, w)
  PROVE  SameTasks(m, n)
<1>1. n = m \/ \E f : n = Assign(m, f)
  BY DEF SendTaskToWorker
<1>2. SameTasks(m, m)
  BY DEF SameTasks
<1> QED
  BY <1>1, <1>2, AssignSame

LEMMA RematchSame ==
  ASSUME NEW m \in DriverState, NEW n \in RematchTasksToWorkers(m)
  PROVE  SameTasks(m, n)
BY AssignSame DEF RematchTasksToWorkers

LEMMA RmWorkersSame ==
  ASSUME NEW m \in DriverState, NEW K
  PROVE  SameTasks(m, RmWorkers(m, K))
BY DEF SameTasks, RmWorkers, DriverState

(* hostPostmortem moves tasks from the run queue to the todo list. *)
LEMMA HostPostmortemSame ==
  ASSUME NEW m, DriverInv(m), NEW K \in SUBSET Worker
  PROVE  SameTasks(m, HostPostmortem(m, K))
<1> DEFINE rest == RmWorkers(m, K)
           O == {t \in m.running : (\E w \in K : m.runningtask[w] = t) /\ Holders(rest, t) = {}}
           n == [rest EXCEPT !.running = @ \ O, !.todo = @ \cup O]
<1>1. rest \in DriverState /\ SameTasks(m, rest)
  BY RmWorkersKeeps, RmWorkersSame DEF DriverInv
<1> HIDE DEF rest, O
<1>2. SameTasks(rest, n)
  BY <1>1 DEF SameTasks, DriverState
<1>3. SameTasks(m, n)
  BY <1>1, <1>2, SameTasksTrans
<1> QED
  BY <1>3 DEF HostPostmortem, rest, O

LEMMA MarkForRemovalSame ==
  ASSUME NEW m \in DriverState, NEW D
  PROVE  SameTasks(m, MarkForRemoval(m, D))
BY DEF SameTasks, MarkForRemoval, DriverState

LEMMA CallHostaddlogicSame ==
  ASSUME NEW m, DriverInv(m), NEW n \in CallHostaddlogic(m)
  PROVE  SameTasks(m, n)
<1>1. CASE n = m
  BY <1>1 DEF SameTasks
<1>2. CASE \E h : n \in DeleteHosts(m, h)
  <2>1. PICK K, L, D \in SUBSET m.workers :
          n = MarkForRemoval(HostPostmortem(RmWorkers(m, K), L), D)
    BY <1>2, DeleteHostsShape
  <2> DEFINE j == RmWorkers(m, K)
             k == HostPostmortem(j, L)
  <2>2. K \in SUBSET Worker /\ L \in SUBSET Worker
    BY DEF DriverInv, DriverState
  <2>3. DriverInv(j) /\ SameTasks(m, j)
    BY <2>2, RmWorkersKeeps, RmWorkersSame DEF DriverInv
  <2> HIDE DEF j
  <2>4. DriverInv(k) /\ SameTasks(j, k)
    BY <2>2, <2>3, HostPostmortemKeeps, HostPostmortemSame
  <2> HIDE DEF k
  <2>5. SameTasks(k, MarkForRemoval(k, D))
    BY <2>4, MarkForRemovalSame DEF DriverInv
  <2>6. n = MarkForRemoval(k, D)
    BY <2>1 DEF j, k
  <2> QED
    BY <2>3, <2>4, <2>5, <2>6, SameTasksTrans
<1> QED
  BY <1>1, <1>2 DEF CallHostaddlogic

-----------------------------------------------------------------------------
(* The handlers. *)

LEMMA StateSame ==
  ASSUME NEW m \in DriverState, NEW w, NEW s
  PROVE  SameTasks(m, [m EXCEPT !.state[w] = s])
BY DEF SameTasks, DriverState

LEMMA OnInitSame ==
  ASSUME NEW m, DriverInv(m), NEW w \in Worker, NEW n \in OnInit(m, w)
  PROVE  SameTasks(m, n)
<1>1. m \in DriverState
  BY DEF DriverInv
<1>2. CASE w \notin m.workers
  BY <1>1, <1>2, SendSame DEF OnInit, TellStranger
<1>3. CASE w \in m.workers
  <2> DEFINE gone == WorkerLastRites(m, w)
             told == Send(m, w, Control("INIT_REPLY"))
  <2>1. gone \in DriverState /\ told \in DriverState
    BY WorkerLastRitesKeeps, SendKeeps, ControlIsMessage DEF DriverInv
  <2>2. SameTasks(m, gone) /\ SameTasks(m, told)
    BY <1>1, RmWorkersSame, SendSame DEF WorkerLastRites
  <2>3. \/ n = gone
        \/ \E r \in UserReturns : n = [gone EXCEPT !.ustat = r]
        \/ n = [told EXCEPT !.state[w] = "BENCHMARKING", !.isBenchMark[w] = TRUE]
    BY <1>3 DEF OnInit, WorkerInit
  <2> HIDE DEF gone, told
  <2> QED
    BY <2>1, <2>2, <2>3 DEF SameTasks, DriverState
<1> QED
  BY <1>2, <1>3

LEMMA OnBenchResultsSame ==
  ASSUME NEW m, DriverInv(m), NEW w \in Worker, NEW okay, NEW n \in OnBenchResults(m, w, okay)
  PROVE  SameTasks(m, n)
<1>1. m \in DriverState
  BY DEF DriverInv
<1>2. CASE w \notin m.workers
  BY <1>1, <1>2, SendSame DEF OnBenchResults, TellStranger
<1>3. CASE w \in m.workers
  <2> DEFINE idle == [m EXCEPT !.state[w] = "IDLE"]
             k == [m EXCEPT !.state[w] = "IDLE", !.isBenchMark[w] = FALSE]
  <2>1. n = WorkerLastRites(m, w) \/ n \in SendTaskToWorker(k, w)
    BY <1>3 DEF OnBenchResults, HandleBenchmark
  <2>2. DriverInv(idle)
    BY StateKeeps DEF WorkerState
  <2>3. k = [idle EXCEPT !.isBenchMark[w] = FALSE] /\ SameTasks(m, k)
    BY <1>1 DEF SameTasks, DriverState
  <2> HIDE DEF k, idle
  <2>4. k \in DriverState
    BY <2>2, <2>3, BenchMarkKeeps DEF DriverInv
  <2>5. n \in SendTaskToWorker(k, w) => SameTasks(m, n)
    BY <2>3, <2>4, SendTaskToWorkerSame, SameTasksTrans
  <2> QED
    BY <1>1, <2>1, <2>5, RmWorkersSame DEF WorkerLastRites
<1> QED
  BY <1>2, <1>3

LEMMA HandleHostaddSame ==
  ASSUME NEW m, DriverInv(m), NEW W \in SUBSET Worker, NEW n \in HandleHostadd(m, W)
  PROVE  SameTasks(m, n)
<1>1. \A w \in W : DriverInv(AddWorker(m, w)) /\ SameTasks(m, AddWorker(m, w))
  <2> SUFFICES ASSUME NEW w \in W
               PROVE  DriverInv(AddWorker(m, w)) /\ SameTasks(m, AddWorker(m, w))
    OBVIOUS
  <2>1. DriverInv(AddWorker(m, w))
    BY AddWorkerKeeps
  <2>2. m \in DriverState
    BY DEF DriverInv
  <2>3. SameTasks(m, AddWorker(m, w))
    BY <2>2 DEF AddWorker, SameTasks, DriverState
  <2> QED
    BY <2>1, <2>3
<1>2. n \in CallHostaddlogic(m) \/ \E w \in W : n \in CallHostaddlogic(AddWorker(m, w))
  BY DEF HandleHostadd
<1> QED
  BY <1>1, <1>2, CallHostaddlogicSame, SameTasksTrans

LEMMA HandleExitSame ==
  ASSUME NEW m, DriverInv(m), NEW w \in Worker, NEW n \in HandleExit(m, w)
  PROVE  SameTasks(m, n)
<1> DEFINE k == HostPostmortem(m, {w})
<1>1. DriverInv(k) /\ SameTasks(m, k)
  BY HostPostmortemKeeps, HostPostmortemSame
<1>2. n = m \/ n \in CallHostaddlogic(k)
  BY DEF HandleExit
<1>3. SameTasks(m, m)
  BY DEF SameTasks
<1> HIDE DEF k
<1> QED
  BY <1>1, <1>2, <1>3, CallHostaddlogicSame, SameTasksTrans

(* The task of a suspended worker goes back to the todo list; the invariant *)
(* says that it cannot be one that is done.                                 *)
LEMMA HandleHostsuspendSame ==
  ASSUME NEW m, DriverInv(m), NEW w \in Worker, NEW n \in HandleHostsuspend(m, w)
  PROVE  SameTasks(m, n)
<1> DEFINE t == m.runningtask[w]
           susp == [m EXCEPT !.state[w] = "SUSPENDED"]
           back == [susp EXCEPT !.running = @ \ {t}, !.todo = @ \cup {t},
                                !.reassigned_tasks = @ \cup {t}]
<1>1. susp \in DriverState /\ SameTasks(m, susp) /\ susp.running = m.running
  BY StateKeeps, StateSame DEF WorkerState, DriverInv, DriverState
<1>2. CASE t \in m.running
  <2>1. t \notin m.reassigned_tasks_done
    BY <1>2 DEF DriverInv, ReassignedAreMarked, TasksAreInOnePlace
  <2>2. n \in {m, susp} \/ n \in RematchTasksToWorkers(back)
    <3>1. back = [[susp EXCEPT !.running = @ \ {t}]
                    EXCEPT !.todo = @ \cup {t}, !.reassigned_tasks = @ \cup {t}]
      BY <1>1 DEF DriverState
    <3> HIDE DEF back
    <3> QED
      BY <2>1, <3>1 DEF HandleHostsuspend
  <2>3. t \in Task
    BY <1>2 DEF DriverInv, DriverState
  <2> HIDE DEF susp, t
  <2>4. back \in DriverState /\ SameTasks(susp, back)
    BY <1>1, <2>3 DEF SameTasks, DriverState
  <2> HIDE DEF back
  <2>5. n \in RematchTasksToWorkers(back) => SameTasks(back, n)
    BY <2>4, RematchSame
  <2> QED
    BY <1>1, <2>2, <2>4, <2>5, SameTasksTrans DEF SameTasks
<1>3. CASE t \notin m.running
  <2>1. n \in {m, susp}
    BY <1>3 DEF HandleHostsuspend
  <2> QED
    BY <1>1, <2>1 DEF SameTasks
<1> QED
  BY <1>2, <1>3

LEMMA HandleHostresumeSame ==
  ASSUME NEW m, DriverInv(m), NEW w \in Worker, NEW n \in HandleHostresume(m, w)
  PROVE  SameTasks(m, n)
<1>1. n = m \/ \E s : n = [m EXCEPT !.state[w] = s]
  BY DEF HandleHostresume
<1>2. m \in DriverState /\ SameTasks(m, m)
  BY DEF DriverInv, SameTasks
<1> QED
  BY <1>1, <1>2, StateSame

LEMMA HandleChecksumSame ==
  ASSUME NEW m, DriverInv(m), NEW w \in Worker, NEW n \in HandleChecksum(m, w)
  PROVE  SameTasks(m, n)
<1> DEFINE told == Send(m, w, Control("INIT_REPLY"))
<1>1. m \in DriverState /\ told \in DriverState /\ SameTasks(m, told)
  BY SendKeeps, SendSame, ControlIsMessage DEF DriverInv
<1>2. SameTasks(m, [told EXCEPT !.isBenchMark[w] = TRUE])
  <2> HIDE DEF told
  <2> QED
    BY <1>1 DEF SameTasks, DriverState
<1>3. SameTasks(m, m) /\ SameTasks(m, Crash(m))
  BY <1>1 DEF SameTasks, Crash, DriverState
<1>4. \/ n \in {m, Crash(m), RmWorkers(m, {w}), [told EXCEPT !.isBenchMark[w] = TRUE]}
      \/ n \in SendTaskToWorker(m, w)
  BY DEF HandleChecksum
<1> QED
  BY <1>1, <1>2, <1>3, <1>4, RmWorkersSame, SendTaskToWorkerSame

(* After the result of a wanted task t, t is done and the tasks N are new; *)
(* that of any other changes nothing.                                      *)
ActsOn(m, n, t, N) ==
  /\ IsWanted(m, t)
  /\ n.created = m.created \cup N /\ n.completed = m.completed \cup {t}
  /\ n.num_completed_tasks = m.num_completed_tasks + 1

LEMMA ActsOnThenSame ==
  ASSUME NEW m, NEW k, NEW n, NEW t, NEW N, ActsOn(m, k, t, N), SameTasks(k, n)
  PROVE  ActsOn(m, n, t, N)
BY DEF ActsOn, SameTasks

LEMMA ActOnCompletedTaskActs ==
  ASSUME NEW m \in DriverState, NEW w, NEW t, NEW N, NEW r, IsWanted(m, t)
  PROVE  ActsOn(m, ActOnCompletedTask(m, w, t, N, r), t, N)
BY DEF ActsOn, ActOnCompletedTask, CompletedTask, AddTasks, DriverState

(* Is the result of t from w that of a wanted task, and does its handler *)
(* come to the point?                                                    *)
Counts(m, w, t) ==
  /\ w \in m.workers /\ t = m.runningtask[w] /\ IsWanted(m, t)
  /\ ~(SuspensionPolicy = "REASSIGN" /\ t \notin m.running /\ m.todo # {})

LEMMA HandleWorkerResultsActs ==
  ASSUME NEW m, DriverInv(m), NEW w \in m.workers, NEW t \in Task, NEW N, NEW r
  PROVE  LET n == HandleWorkerResults(m, w, t, N, r)
         IN  IF Counts(m, w, t) THEN ActsOn(m, n, t, N) ELSE SameTasks(m, n)
<1> DEFINE n == HandleWorkerResults(m, w, t, N, r)
<1>1. m \in DriverState
  BY DEF DriverInv
<1>2. CASE Counts(m, w, t)
  <2>1. n = ActOnCompletedTask(m, w, t, N, r) /\ IsWanted(m, t)
    BY <1>2 DEF Counts, HandleWorkerResults
  <2> QED
    BY <1>1, <1>2, <2>1, ActOnCompletedTaskActs
<1>3. CASE ~Counts(m, w, t)
  <2>1. n \in {[m EXCEPT !.ustat = "QUIT"], Crash(m), CompletedTask(m, w)}
    BY <1>3 DEF Counts, HandleWorkerResults
  <2>2. /\ SameTasks(m, [m EXCEPT !.ustat = "QUIT"]) /\ SameTasks(m, Crash(m))
        /\ SameTasks(m, CompletedTask(m, w))
    BY <1>1 DEF SameTasks, Crash, CompletedTask, DriverState
  <2> QED
    BY <1>3, <2>1, <2>2
<1> QED
  BY <1>2, <1>3

LEMMA OnResultsActs ==
  ASSUME NEW m, DriverInv(m), NEW w \in Worker, NEW t \in Task,
         NEW N \in SUBSET (Task \ m.created), NEW r \in UserReturns,
         NEW n \in OnResults(m, w, t, N, r)
  PROVE  IF Counts(m, w, t) THEN ActsOn(m, n, t, N) ELSE SameTasks(m, n)
<1>1. CASE w \notin m.workers
  <2>1. SameTasks(m, n)
    BY <1>1, SendSame DEF OnResults, TellStranger, DriverInv
  <2> QED
    BY <1>1, <2>1 DEF Counts
<1>2. CASE w \in m.workers
  <2> DEFINE done == HandleWorkerResults(m, w, t, N, r)
             killed == Send(done, w, Control("KILL_YOURSELF"))
             gone == WorkerLastRites(killed, w)
  <2>1. DriverInv(done)
    BY <1>2, HandleWorkerResultsKeeps
  <2>2. IF Counts(m, w, t) THEN ActsOn(m, done, t, N) ELSE SameTasks(m, done)
    BY <1>2, HandleWorkerResultsActs
  <2>3. n \in HandleResults(m, w, t, N, r)
    BY <1>2 DEF OnResults
  <2>4. \/ n \in {done, WorkerLastRites(done, w)}
        \/ n \in SendTaskToWorker(done, w)
        \/ n \in CallHostaddlogic(gone)
    BY <2>3 DEF HandleResults
  <2> HIDE DEF done
  <2>5. SameTasks(done, done) /\ SameTasks(done, WorkerLastRites(done, w))
    BY <2>1, RmWorkersSame DEF WorkerLastRites, SameTasks, DriverInv
  <2>6. n \in SendTaskToWorker(done, w) => SameTasks(done, n)
    BY <2>1, SendTaskToWorkerSame DEF DriverInv
  <2>7. DriverInv(killed) /\ SameTasks(done, killed)
    BY <2>1, SendKeeps, SendSame, ControlIsMessage DEF DriverInv
  <2> HIDE DEF killed
  <2>8. DriverInv(gone) /\ SameTasks(killed, gone)
    BY <2>7, WorkerLastRitesKeeps, RmWorkersSame DEF WorkerLastRites, DriverInv
  <2> HIDE DEF gone
  <2>9. n \in CallHostaddlogic(gone) => SameTasks(done, n)
    BY <2>7, <2>8, CallHostaddlogicSame, SameTasksTrans
  <2>10. SameTasks(done, n)
    BY <2>4, <2>5, <2>6, <2>9
  <2> QED
    BY <2>2, <2>10, ActsOnThenSame, SameTasksTrans
<1> QED
  BY <1>1, <1>2

-----------------------------------------------------------------------------
(* The end of an iteration. *)

(* No worker is idle while a task waits. *)
NoneIdle(m) == m.todo = {} \/ Idle(m) = {}

(* The rematch uses up the idle workers or the todo list. *)
LEMMA RematchLeavesNoneIdle ==
  ASSUME NEW m, DriverInv(m), NEW n \in RematchTasksToWorkers(m)
  PROVE  NoneIdle(n)
<1>1. PICK f \in Matchings(Idle(m), m.todo) : n = Assign(m, f)
  BY DEF RematchTasksToWorkers
<1>2. DOMAIN f = Idle(m) \/ Image(f) = m.todo
  BY DEF Matchings
<1>3. /\ n.todo = m.todo \ Image(f) /\ n.workers = m.workers
      /\ n.state = [w \in Worker |-> IF w \in DOMAIN f THEN "WORKING" ELSE m.state[w]]
  BY <1>1 DEF Assign, GiveWork, DriverInv, DriverState
<1>4. \A w \in m.workers : w \in Worker
  BY DEF DriverInv, DriverState
<1> QED
  BY <1>2, <1>3, <1>4 DEF NoneIdle, Idle, InState

(* The timeout check puts a task on the todo list only when it has run out *)
(* of idle workers, and none becomes idle by it.                           *)
LEMMA ReassignTasksOfLeavesNoneIdle ==
  ASSUME NEW m, DriverInv(m), NoneIdle(m), NEW T \in SUBSET Worker,
         NEW n \in ReassignTasksOf(m, T)
  PROVE  NoneIdle(n) /\ SameTasks(m, n)
<1> DEFINE onRunQ == {w \in T : m.runningtask[w] \in m.running}
           late == {w \in onRunQ : m.runningtask[w] \notin m.reassigned_tasks_done}
           TaskOf(S) == {m.runningtask[w] : w \in S}
           rest(f) == [m EXCEPT
                         !.running = (@ \ TaskOf(onRunQ \ late)) \ TaskOf(late \ Image(f)),
                         !.todo = @ \cup TaskOf(late \ Image(f)),
                         !.reassigned_tasks = @ \cup TaskOf(late)]
           next(f) == [o \in DOMAIN f |-> m.runningtask[f[o]]]
<1>1. PICK f \in Matchings(Idle(m), late) : n = CheckRunQ(GiveWork(rest(f), next(f)))
  BY DEF ReassignTasksOf
<1>2. DOMAIN f = Idle(m) \/ Image(f) = late
  BY <1>1 DEF Matchings
<1> DEFINE k == rest(f)
           g == GiveWork(k, next(f))
<1>3. /\ k.todo = m.todo \cup TaskOf(late \ Image(f)) /\ k.workers = m.workers
      /\ k.state = m.state /\ SameTasks(m, k) /\ DOMAIN k = DOMAIN m
  BY DEF SameTasks, DriverInv, DriverState
<1>4. Image(f) = late => k.todo = m.todo
  <2>1. TaskOf({}) = {}
    OBVIOUS
  <2>2. Image(f) = late => late \ Image(f) = {}
    OBVIOUS
  <2> HIDE DEF TaskOf, late, k
  <2> QED
    BY <1>3, <2>1, <2>2
<1>5. DOMAIN next(f) = DOMAIN f
  OBVIOUS
<1> HIDE DEF k, next, late, onRunQ, TaskOf
<1>6. /\ g.todo = k.todo /\ g.workers = k.workers /\ SameTasks(k, g)
      /\ g.state = [w \in Worker |-> IF w \in DOMAIN f THEN "WORKING" ELSE k.state[w]]
      /\ DOMAIN g = DOMAIN k
  BY <1>3, <1>5 DEF GiveWork, SameTasks, DriverInv, DriverState
<1>7. \A w \in m.workers : w \in Worker
  BY DEF DriverInv, DriverState
<1>8. NoneIdle(g)
  BY <1>2, <1>3, <1>4, <1>6, <1>7 DEF NoneIdle, Idle, InState
<1> HIDE DEF g
<1>9. Crash(g).todo = g.todo /\ Crash(g).state = g.state /\ Crash(g).workers = g.workers
      /\ SameTasks(g, Crash(g))
  BY <1>3, <1>6 DEF Crash, SameTasks, DriverInv, DriverState
<1>10. n \in {g, Crash(g)}
  BY <1>1 DEF CheckRunQ, g, k
<1>11. NoneIdle(n) /\ SameTasks(g, n)
  BY <1>8, <1>9, <1>10 DEF NoneIdle, Idle, InState, SameTasks
<1> QED
  BY <1>3, <1>6, <1>11, SameTasksTrans

LEMMA ReassignTimedoutLeavesNoneIdle ==
  ASSUME NEW m, DriverInv(m), NoneIdle(m), NEW due, NEW late,
         NEW n \in ReassignTimedout(m, due, late)
  PROVE  DriverInv(n) /\ NoneIdle(n) /\ SameTasks(m, n)
<1>1. InState(m, "WORKING") \subseteq Worker
  BY DEF InState, DriverInv, DriverState
<1>2. n = m \/ \E T \in SUBSET Worker : n \in ReassignTasksOf(m, T)
  BY <1>1 DEF ReassignTimedout
<1>3. CASE n = m
  BY <1>3 DEF SameTasks
<1>4. CASE \E T \in SUBSET Worker : n \in ReassignTasksOf(m, T)
  BY <1>4, ReassignTasksOfKeeps, ReassignTasksOfLeavesNoneIdle
<1> QED
  BY <1>2, <1>3, <1>4

(* If the loop goes on after an iteration, something is to be done and no *)
(* worker waits for it.                                                   *)
GoesOn(m) == m.halt = "no" => NoneIdle(m) /\ m.todo \cup m.running # {}

LEMMA ConcludeGoesOn ==
  ASSUME NEW m \in DriverState, NoneIdle(m)
  PROVE  SameTasks(m, Conclude(m)) /\ GoesOn(Conclude(m))
<1> DEFINE h == IF m.ustat # "OK" THEN "stopped"
                ELSE IF m.todo = {} /\ m.running = {} THEN "finished" ELSE "no"
           n == [m EXCEPT !.halt = h]
<1>1. CASE m.halt = "crashed"
  BY <1>1 DEF Conclude, SameTasks, GoesOn
<1>2. CASE m.halt # "crashed"
  <2>1. Conclude(m) = n
    BY <1>2 DEF Conclude
  <2>2. h = "no" => m.todo \cup m.running # {}
    OBVIOUS
  <2> HIDE DEF h
  <2>3. /\ n.halt = h /\ n.todo = m.todo /\ n.running = m.running
        /\ n.workers = m.workers /\ n.state = m.state /\ SameTasks(m, n)
    BY DEF SameTasks, DriverState
  <2> QED
    BY <2>1, <2>2, <2>3 DEF GoesOn, NoneIdle, Idle, InState
<1> QED
  BY <1>1, <1>2

LEMMA EndOfIterationGoesOn ==
  ASSUME NEW m, DriverInv(m), NEW due, NEW late, NEW n \in EndOfIteration(m, due, late)
  PROVE  SameTasks(m, n) /\ GoesOn(n)
<1>1. CASE m.halt = "crashed"
  BY <1>1 DEF EndOfIteration, SameTasks, GoesOn
<1>2. CASE m.halt # "crashed"
  <2>1. PICK k \in RematchTasksToWorkers(m) :
          \E j \in ReassignTimedout(k, due, late) : n = Conclude(j)
    BY <1>2 DEF EndOfIteration
  <2>2. PICK j \in ReassignTimedout(k, due, late) : n = Conclude(j)
    BY <2>1
  <2>3. DriverInv(k) /\ NoneIdle(k) /\ SameTasks(m, k)
    BY RematchKeeps, RematchLeavesNoneIdle, RematchSame DEF DriverInv
  <2>4. DriverInv(j) /\ NoneIdle(j) /\ SameTasks(k, j)
    BY <2>3, ReassignTimedoutLeavesNoneIdle
  <2>5. SameTasks(j, n) /\ GoesOn(n)
    BY <2>2, <2>4, ConcludeGoesOn DEF DriverInv
  <2> QED
    BY <2>3, <2>4, <2>5, SameTasksTrans
<1> QED
  BY <1>1, <1>2

LEMMA IterateGoesOn ==
  ASSUME NEW S, \A m \in S : DriverInv(m), Iterate(S)
  PROVE  \E m \in S : SameTasks(m, mw') /\ GoesOn(mw')
<1>1. PICK m \in S : \E due, late : mw' \in EndOfIteration(m, due, late)
  BY DEF Iterate
<1> QED
  BY <1>1, EndOfIterationGoesOn

-----------------------------------------------------------------------------
(* The specification. *)

(* Asking for hosts, or for fewer, makes no worker idle, and has nothing to *)
(* do with what the user says.                                              *)
LEMMA CallHostaddlogicLeaves ==
  ASSUME NEW m, DriverInv(m), NEW n \in CallHostaddlogic(m)
  PROVE  Idle(n) \subseteq Idle(m) /\ n.ustat = m.ustat
<1>1. CASE n = m
  BY <1>1
<1>2. CASE \E h : n \in DeleteHosts(m, h)
  <2>1. PICK K, L, D \in SUBSET m.workers :
          n = MarkForRemoval(HostPostmortem(RmWorkers(m, K), L), D)
    BY <1>2, DeleteHostsShape
  <2> DEFINE j == RmWorkers(m, K)
             k == RmWorkers(j, L)
             p == HostPostmortem(j, L)
  <2>2. m.workers \subseteq Worker
    BY DEF DriverInv, DriverState
  <2>3. /\ j.workers = m.workers \ K /\ DOMAIN j = DOMAIN m /\ j.ustat = m.ustat
        /\ j.state = [w \in Worker |-> IF w \in K THEN "EXITED" ELSE m.state[w]]
    BY DEF RmWorkers, DriverInv, DriverState
  <2> HIDE DEF j
  <2>4. /\ k.workers = j.workers \ L /\ DOMAIN k = DOMAIN m /\ k.ustat = j.ustat
        /\ k.state = [w \in Worker |-> IF w \in L THEN "EXITED" ELSE j.state[w]]
    BY <2>3 DEF RmWorkers, DriverInv, DriverState
  <2>5. p.workers = k.workers /\ p.state = k.state /\ DOMAIN p = DOMAIN m /\ p.ustat = k.ustat
    BY <2>4 DEF HostPostmortem, DriverInv, DriverState
  <2> HIDE DEF k, p
  <2>6. n = MarkForRemoval(p, D)
    BY <2>1 DEF p, j
  <2>7. n.workers = p.workers /\ n.state = p.state /\ n.ustat = p.ustat
    BY <2>5, <2>6 DEF MarkForRemoval, DriverInv, DriverState
  <2> QED
    BY <2>2, <2>3, <2>4, <2>5, <2>7 DEF Idle, InState
<1> QED
  BY <1>1, <1>2 DEF CallHostaddlogic

(* The driver before its main loop. *)
LEMMA InitGoesOn == Init => GoesOn(mw) /\ mw.completed = {} /\ mw.created = InitialTasks
<1> SUFFICES ASSUME Init PROVE GoesOn(mw) /\ mw.completed = {} /\ mw.created = InitialTasks
  OBVIOUS
<1>1. PICK W \in SUBSET Worker : mw \in CallHostaddlogic(Setup(W))
  BY DEF Init
<1> DEFINE s == Setup(W)
<1>2. DriverInv(s)
  BY SetupKeeps
<1>3. s.completed = {} /\ s.created = InitialTasks /\ Idle(s) = {}
  BY DEF Setup, Idle, InState
<1> HIDE DEF s
<1>4. SameTasks(s, mw) /\ Idle(mw) = {} /\ DriverInv(mw)
  BY <1>1, <1>2, <1>3, CallHostaddlogicSame, CallHostaddlogicLeaves, CallHostaddlogicKeeps DEF s
<1>5. mw.todo \cup mw.running # {}
  BY <1>3, <1>4, InitialTasksAreTasks DEF SameTasks, DriverInv, TasksAreInOnePlace
<1> QED
  BY <1>3, <1>4, <1>5 DEF GoesOn, NoneIdle, SameTasks

LEMMA ReceivedSame ==
  ASSUME IInv
  PROVE  /\ DriverInv(Received) /\ SameTasks(mw, Received) /\ Received.halt = mw.halt
         /\ Received.todo = mw.todo /\ Received.running = mw.running
         /\ Received.workers = mw.workers
         /\ Received.reassigned_tasks_done = mw.reassigned_tasks_done
BY SentReset DEF Received, SameTasks, IInv, DriverInv, DriverState

(* An iteration whose handler neither adds nor completes a task. *)
LEMMA IterateSame ==
  ASSUME IInv, NEW S, \A m \in S : DriverInv(m) /\ SameTasks(Received, m), Iterate(S)
  PROVE  SameTasks(mw, mw') /\ GoesOn(mw')
BY IterateGoesOn, ReceivedSame, SameTasksTrans

LEMMA ReceiveResultsActs ==
  ASSUME IInv, NEW w \in Worker, NEW t \in Task, NEW N \in SUBSET (Task \ mw.created),
         NEW r \in UserReturns, ReceiveResults(w, t, N, r)
  PROVE  /\ IF Counts(Received, w, t) THEN ActsOn(mw, mw', t, N) ELSE SameTasks(mw, mw')
         /\ GoesOn(mw')
<1> DEFINE S == OnResults(Received, w, t, N, r)
<1>1. N \in SUBSET (Task \ Received.created)
  BY ReceivedSame DEF SameTasks
<1>2. Iterate(S)
  BY DEF ReceiveResults
<1>3. \A m \in S : /\ DriverInv(m)
                   /\ IF Counts(Received, w, t) THEN ActsOn(Received, m, t, N)
                      ELSE SameTasks(Received, m)
  BY <1>1, ReceivedSame, OnResultsKeeps, OnResultsActs
<1> HIDE DEF S
<1>4. PICK m \in S : SameTasks(m, mw') /\ GoesOn(mw')
  BY <1>2, <1>3, IterateGoesOn
<1>5. IF Counts(Received, w, t) THEN ActsOn(Received, mw', t, N) ELSE SameTasks(Received, mw')
  BY <1>3, <1>4, ActsOnThenSame, SameTasksTrans
<1>6. ActsOn(Received, mw', t, N) => ActsOn(mw, mw', t, N)
  BY ReceivedSame DEF ActsOn, SameTasks, IsWanted
<1> QED
  BY <1>4, <1>5, <1>6, ReceivedSame, SameTasksTrans

(* The iterations that handle no result. *)
LEMMA OtherIterationsSame ==
  ASSUME IInv,
         \/ \E w \in Worker :
               \/ ReceiveInit(w)
               \/ \E okay \in BOOLEAN : ReceiveBenchResults(w, okay)
               \/ ReceiveExit(w) \/ ReceiveHostsuspend(w) \/ ReceiveHostresume(w)
               \/ ReceiveChecksumError(w)
         \/ ReceiveHostadd
  PROVE  SameTasks(mw, mw') /\ GoesOn(mw') /\ mw.halt = "no"
<1> USE ReceivedSame
<1>1. ASSUME NEW w \in Worker, ReceiveInit(w)
      PROVE  SameTasks(mw, mw') /\ GoesOn(mw') /\ mw.halt = "no"
  BY <1>1, OnInitKeeps, OnInitSame, IterateSame DEF ReceiveInit, Running
<1>2. ASSUME NEW w \in Worker, NEW okay \in BOOLEAN, ReceiveBenchResults(w, okay)
      PROVE  SameTasks(mw, mw') /\ GoesOn(mw') /\ mw.halt = "no"
  BY <1>2, OnBenchResultsKeeps, OnBenchResultsSame, IterateSame DEF ReceiveBenchResults, Running
<1>3. ASSUME NEW w \in Worker, ReceiveExit(w)
      PROVE  SameTasks(mw, mw') /\ GoesOn(mw') /\ mw.halt = "no"
  BY <1>3, HandleExitKeeps, HandleExitSame, IterateSame DEF ReceiveExit, Running
<1>4. ASSUME NEW w \in Worker, ReceiveHostsuspend(w)
      PROVE  SameTasks(mw, mw') /\ GoesOn(mw') /\ mw.halt = "no"
  BY <1>4, HandleHostsuspendKeeps, HandleHostsuspendSame, IterateSame
     DEF ReceiveHostsuspend, Running
<1>5. ASSUME NEW w \in Worker, ReceiveHostresume(w)
      PROVE  SameTasks(mw, mw') /\ GoesOn(mw') /\ mw.halt = "no"
  BY <1>5, HandleHostresumeKeeps, HandleHostresumeSame, IterateSame
     DEF ReceiveHostresume, Running
<1>6. ASSUME NEW w \in Worker, ReceiveChecksumError(w)
      PROVE  SameTasks(mw, mw') /\ GoesOn(mw') /\ mw.halt = "no"
  BY <1>6, HandleChecksumKeeps, HandleChecksumSame, IterateSame
     DEF ReceiveChecksumError, Running
<1>7. ASSUME ReceiveHostadd
      PROVE  SameTasks(mw, mw') /\ GoesOn(mw') /\ mw.halt = "no"
  BY <1>7, HandleHostaddKeeps, HandleHostaddSame, IterateSame DEF ReceiveHostadd, Running
<1> QED
  BY <1>1, <1>2, <1>3, <1>4, <1>5, <1>6, <1>7

LEMMA KillWorkersSame ==
  ASSUME IInv, KillWorkers
  PROVE  SameTasks(mw, mw') /\ mw'.halt = mw.halt /\ mw.halt # "no"
<1> DEFINE k == RmWorkers(Received, Received.workers)
<1>1. k \in DriverState /\ SameTasks(Received, k) /\ k.halt = mw.halt
  <2>1. Received.workers \in SUBSET Worker /\ Received \in DriverState
    BY ReceivedSame DEF DriverInv, DriverState
  <2>2. k \in DriverState /\ SameTasks(Received, k)
    BY <2>1, ReceivedSame, RmWorkersKeeps, RmWorkersSame DEF DriverInv
  <2>3. k.halt = Received.halt
    BY <2>1 DEF RmWorkers, DriverState
  <2> QED
    BY <2>2, <2>3, ReceivedSame
<1>2. SameTasks(k, AllKilled(Received)) /\ AllKilled(Received).halt = k.halt
  <2>1. \E s : AllKilled(Received) = [k EXCEPT !.sent = s]
    BY DEF AllKilled
  <2> HIDE DEF k
  <2> QED
    BY <1>1, <2>1 DEF SameTasks, DriverState
<1>3. mw' = AllKilled(Received) /\ mw.halt # "no"
  BY DEF KillWorkers
<1> QED
  BY <1>1, <1>2, <1>3, ReceivedSame, SameTasksTrans

(* What a step does to the tasks. *)
LEMMA NextGoesOn ==
  ASSUME IInv, GoesOn(mw), [Next]_mw
  PROVE  GoesOn(mw')
<1>1. ASSUME NEW w \in Worker, NEW t \in Task, NEW N \in SUBSET (Task \ mw.created),
             NEW r \in UserReturns, ReceiveResults(w, t, N, r)
      PROVE  GoesOn(mw')
  BY <1>1, ReceiveResultsActs
<1>2. CASE KillWorkers
  BY <1>2, KillWorkersSame DEF GoesOn
<1>3. CASE UNCHANGED mw
  BY <1>3 DEF GoesOn
<1> QED
  BY <1>1, <1>2, <1>3, OtherIterationsSame DEF Next

(* No worker waits between two iterations while a task does: the rematch   *)
(* at the end of each sees to it, whatever the handler and the timeouts    *)
(* have put on the todo list.                                              *)
THEOREM NobodyWaits == Spec => []NoIdleWhileTodo
<1>1. Init => IInv /\ GoesOn(mw)
  BY InitIInv, InitGoesOn
<1>2. (IInv /\ GoesOn(mw)) /\ [Next]_mw => (IInv /\ GoesOn(mw))'
  BY NextIInv, NextGoesOn
<1>3. IInv /\ GoesOn(mw) => NoIdleWhileTodo
  BY DEF GoesOn, NoneIdle, NoIdleWhileTodo
<1> QED
  BY <1>1, <1>2, <1>3, PTL DEF Spec

-----------------------------------------------------------------------------
(* The task pool. *)

(* The pending tasks are those created and not acted upon. *)
LEMMA PendingIsTheRest ==
  ASSUME NEW m, DriverInv(m)
  PROVE  m.todo \cup m.running = m.created \ m.completed
BY DEF DriverInv, TasksAreInOnePlace

(* A step that neither adds nor completes a task ends the computation early *)
(* or does not concern the pool.                                            *)
LEMMA SameStutters ==
  ASSUME IInv, IInv', SameTasks(mw, mw'), GoesOn(mw), mw.halt = "no"
  PROVE  Pool!Abort \/ UNCHANGED Pool!poolVars
<1>1. mw'.todo \cup mw'.running = mw.todo \cup mw.running /\ mw'.completed = mw.completed
  BY PendingIsTheRest DEF IInv, SameTasks
<1>2. mw'.halt # "finished"
  BY <1>1 DEF GoesOn, IInv
<1>3. Outcome(mw.halt) = "open" /\ Outcome(mw'.halt) \in {"open", "aborted"}
  BY <1>2 DEF Outcome
<1> QED
  BY <1>1, <1>3 DEF Pool!Abort, Pool!poolVars

(* A result acted upon completes its task, which was pending. *)
LEMMA ActsCompletes ==
  ASSUME IInv, IInv', NEW t \in Task, NEW N \in SUBSET (Task \ mw.created),
         ActsOn(mw, mw', t, N), mw.halt = "no"
  PROVE  Pool!Complete(t, N)
<1>1. t \in mw.todo \cup mw.running
  BY DEF ActsOn, IsWanted
<1>2. /\ mw'.todo \cup mw'.running = (mw.created \cup N) \ (mw.completed \cup {t})
      /\ mw.todo \cup mw.running = mw.created \ mw.completed
      /\ mw'.completed = mw.completed \cup {t}
  BY PendingIsTheRest DEF IInv, ActsOn
<1>3. mw'.todo \cup mw'.running = ((mw.todo \cup mw.running) \ {t}) \cup N
  <2>1. t \notin N /\ mw.completed \cap N = {}
    BY <1>1 DEF IInv, DriverInv, TasksAreInOnePlace
  <2> QED
    BY <1>2, <2>1
<1>4. Outcome(mw.halt) = "open" /\ Outcome(mw'.halt) \in {"open", "aborted", "finished"}
  BY DEF Outcome
<1>5. Outcome(mw'.halt) = "finished" => mw'.todo \cup mw'.running = {}
  BY DEF Outcome, IInv
<1> QED
  BY <1>1, <1>2, <1>3, <1>4, <1>5 DEF Pool!Complete

LEMMA InitImplementsPool == Init => Pool!Init
<1> SUFFICES ASSUME Init PROVE Pool!Init
  OBVIOUS
<1>1. IInv /\ mw.completed = {} /\ mw.created = InitialTasks /\ mw.halt = "no"
  <2>1. PICK W \in SUBSET Worker : mw \in CallHostaddlogic(Setup(W))
    BY DEF Init
  <2>2. mw.halt = "no"
    BY <2>1, SetupKeeps, CallHostaddlogicHalt
  <2> QED
    BY <2>2, InitIInv, InitGoesOn
<1>2. mw.todo \cup mw.running = InitialTasks
  BY <1>1, PendingIsTheRest DEF IInv
<1> QED
  BY <1>1, <1>2 DEF Pool!Init, Outcome

LEMMA NextImplementsPool ==
  ASSUME IInv, IInv', GoesOn(mw), [Next]_mw
  PROVE  [Pool!Next]_(Pool!poolVars)
<1>1. ASSUME NEW w \in Worker, NEW t \in Task, NEW N \in SUBSET (Task \ mw.created),
             NEW r \in UserReturns, ReceiveResults(w, t, N, r)
      PROVE  [Pool!Next]_(Pool!poolVars)
  <2>1. mw.halt = "no"
    BY <1>1 DEF ReceiveResults, Running
  <2>2. CASE ActsOn(mw, mw', t, N)
    <3>1. Pool!Complete(t, N)
      BY <2>1, <2>2, ActsCompletes
    <3>2. N \in SUBSET (Task \ ((mw.todo \cup mw.running) \cup mw.completed))
      BY DEF IInv, DriverInv, TasksAreInOnePlace
    <3> QED
      BY <3>1, <3>2 DEF Pool!Next
  <2>3. CASE SameTasks(mw, mw')
    BY <2>1, <2>3, SameStutters DEF Pool!Next
  <2> QED
    BY <1>1, <2>2, <2>3, ReceiveResultsActs
<1>2. CASE KillWorkers
  <2>1. SameTasks(mw, mw') /\ mw'.halt = mw.halt
    BY <1>2, KillWorkersSame
  <2>2. mw'.todo \cup mw'.running = mw.todo \cup mw.running /\ mw'.completed = mw.completed
    BY <2>1, PendingIsTheRest DEF IInv, SameTasks
  <2> QED
    BY <2>1, <2>2 DEF Pool!poolVars
<1>3. CASE UNCHANGED mw
  BY <1>3 DEF Pool!poolVars
<1>4. CASE SameTasks(mw, mw') /\ mw.halt = "no"
  BY <1>4, SameStutters DEF Pool!Next
<1> QED
  BY <1>1, <1>2, <1>3, <1>4, OtherIterationsSame DEF Next

(* The master implements the task pool, for any number of workers and tasks, *)
(* in any environment.                                                       *)
THEOREM DriverImplementsTaskPool == Spec => ImplementsTaskPool
<1>1. Init => IInv /\ GoesOn(mw)
  BY InitIInv, InitGoesOn
<1>2. (IInv /\ GoesOn(mw)) /\ [Next]_mw => (IInv /\ GoesOn(mw))'
  BY NextIInv, NextGoesOn
<1>3. Init => Pool!Init
  BY InitImplementsPool
<1>4. IInv /\ IInv' /\ GoesOn(mw) /\ [Next]_mw => [Pool!Next]_(Pool!poolVars)
  BY NextImplementsPool
<1> QED
  BY <1>1, <1>2, <1>3, <1>4, PTL DEF Spec, ImplementsTaskPool, Pool!Spec
=============================================================================
