---------------------------- MODULE MWFileProofs ----------------------------
(***************************************************************************)
(* Proofs about the file back end.  The invariant, Inv, says of the logs   *)
(* that a job that has ended is gone (Logs), of each slot that what was    *)
(* read of its log fits its state (Slots) and that the file of the jobs    *)
(* agrees with the log and the memory (Filed), of the requests what has    *)
(* become of them (Account), and of the queue that a job is that of its    *)
(* slot (Owned).  While the master has never died it says in addition how  *)
(* far the master and each worker are in their talk (Talk).                *)
(*                                                                         *)
(* First, what reading a log or a waitfile to its end comes to, and what   *)
(* do_spawn makes of the slots it takes; hostaddlogic is do_spawn for each *)
(* class in turn.  Then a lemma for each action, ...Goes: of the master,   *)
(* of a worker process, of Condor.  Three lemmas serve most of them: what  *)
(* leaves the account, the file and the queue alone (SameIsSound), what    *)
(* concerns the talk with one slot only (TalkOn), and what adds an event   *)
(* to a log (LoggedGoes).                                                  *)
(***************************************************************************)
EXTENDS MWFile, MWSumsProofs

-----------------------------------------------------------------------------
(* The invariant. *)

(* The types of what the master's calls change. *)
MemoryType == [fileWorkers : [Slot -> FileWorker], hostadd_reqs : [Classes -> Nat],
               resuming : SUBSET Slot, synced : BOOLEAN, looping : BOOLEAN]

Holds(input) == input \in [DOMAIN input -> Message] /\ DOMAIN input \subseteq Nat

FilesType(F) ==
  /\ F = [log |-> F.log, worker_waitfile |-> F.worker_waitfile,
          master_waitfile |-> F.master_waitfile, worker_input |-> F.worker_input,
          worker_output |-> F.worker_output, moment_worker_file |-> F.moment_worker_file]
  /\ F.log \in [Slot -> Seq(Event)]
  /\ F.worker_waitfile \in [Slot -> Seq(Entry)]
  /\ F.master_waitfile \in [Slot -> Seq(Entry)]
  /\ DOMAIN F.worker_input = Slot /\ DOMAIN F.worker_output = Slot
  /\ F.worker_input = [i \in Slot |-> F.worker_input[i]]
  /\ F.worker_output = [i \in Slot |-> F.worker_output[i]]
  /\ \A i \in Slot : Holds(F.worker_input[i]) /\ Holds(F.worker_output[i])
  /\ F.moment_worker_file \in [Slot -> [job : Nat, exec_class : Classes]]

JobsType(J) ==
  /\ J \in [DOMAIN J -> Job] /\ IsFiniteSet(DOMAIN J)
  /\ DOMAIN J \subseteq Nat \ {NoJob}

Typed(s) ==
  /\ s = [rc |-> s.rc, files |-> s.files, jobs |-> s.jobs, lost |-> s.lost]
  /\ s.rc \in MemoryType \cup {NULL}
  /\ FilesType(s.files) /\ JobsType(s.jobs)
  /\ s.lost \in [Classes -> Nat]

(* The master is there. *)
Works(s) == s.rc \in MemoryType

(* What a log may say: a job that has ended is gone. *)
LogOK(log, J) ==
  \A k \in DOMAIN log :
    /\ log[k].job # NoJob
    /\ log[k].kind = "SUBMIT" => k = 1
    /\ log[k].kind \in {"ABORTED", "TERMINATED"} => log[k].job \notin DOMAIN J

(* The SUBMIT of a slot's job is read while nothing else was. *)
SlotOK(w, log) ==
  /\ w.job = NoJob => w.state \in {"FREE", "SUBMITTED", "IDLE"}
  /\ w.job # NoJob /\ w.state # "FREE" =>
       /\ w.state # "IDLE" /\ log # <<>>
       /\ w.state # "SUBMITTED" /\ w.event_no <= 1 => log[1].kind # "SUBMIT"

(* What is written of a slot in use is its job, and that of a job is its log. *)
InFile(w, m) == w.state # "FREE" => m.job = w.job /\ m.exec_class = w.exec_class
HasLog(m, log) ==
  m.job # NoJob => log # <<>> /\ log[1].job = m.job /\ log[1].kind = "SUBMIT"

Logs(s) == \A i \in Slot : LogOK(s.files.log[i], s.jobs)
Slots(s) == Works(s) => \A i \in Slot : SlotOK(s.rc.fileWorkers[i], s.files.log[i])
Filed(s) ==
  /\ \A i \in Slot : HasLog(s.files.moment_worker_file[i], s.files.log[i])
  /\ Works(s) => \A i \in Slot : InFile(s.rc.fileWorkers[i], s.files.moment_worker_file[i])

Asked(fw, c) == {i \in Slot : /\ fw[i].state \in {"SUBMITTED", "EXECUTE"}
                              /\ fw[i].job # NoJob
                              /\ fw[i].exec_class = c}
Account(s) ==
  /\ Works(s) => \A c \in Classes :
       s.rc.hostadd_reqs[c] = s.lost[c] + Cardinality(Asked(s.rc.fileWorkers, c))
  /\ ~Works(s) => \A c \in Classes : s.lost[c] = 0

(* If a removed job is gone when its slot is used again, every event of a log is *)
(* one of the job on file; and a job in the queue is that of its slot, or the    *)
(* slot is free and the job removed.                                             *)
MemoOwn(m, log) == m.job # NoJob => \A k \in DOMAIN log : log[k].job = m.job
JobOwn(j, p, m) == m.job \in {NoJob, j} /\ (p.removed \/ m.job = j)
Kept(j, p, w) ==
  /\ w.state # "FREE" => w.job = j
  /\ p.removed \/ w.state \notin {"FREE", "KILLED"}
Memo(s, j) == s.files.moment_worker_file[s.jobs[j].slot]
WorkerOf(s, j) == s.rc.fileWorkers[s.jobs[j].slot]
Owned(s) ==
  ~LateRemoval =>
    /\ \A i \in Slot : MemoOwn(s.files.moment_worker_file[i], s.files.log[i])
    /\ \A j \in DOMAIN s.jobs : JobOwn(j, s.jobs[j], Memo(s, j))
    /\ Works(s) => \A j \in DOMAIN s.jobs : Kept(j, s.jobs[j], WorkerOf(s, j))

Sound(s) ==
  Typed(s) /\ Logs(s) /\ Slots(s) /\ Filed(s) /\ Account(s) /\ Owned(s)

(* A worker the driver knows has been reported. *)
Reported(s, ws) ==
  Works(s) => \A i \in Slot : ws[i].state # "NONE" =>
                s.rc.fileWorkers[i].state \in {"RUNNING", "KILLED", "TRANSIT"}

(* The talk of the master and a worker, while the master never died: whose turn  *)
(* it is; that nothing is unread but the last message; that what was said is no  *)
(* further than what was asked, and the next to be received is the answer to it. *)
(* It goes on in a slot that is given up, about the last task.                   *)
Alive == {"SUBMITTED", "EXECUTE", "RUNNING"}
InTurn(w, wk) ==
  /\ w.state \in {"SUBMITTED", "EXECUTE"} => w.counter = 0 /\ w.worker_counter = 0
  /\ w.state = "RUNNING" => wk.state # "NONE"
  /\ wk.state = "INITIALIZING" => w.counter = 0 /\ w.worker_counter = 0
  /\ wk.state = "BENCHMARKING" => w.counter = 1 /\ w.worker_counter = 1
  /\ wk.state = "WORKING" => w.counter = w.worker_counter /\ w.counter >= 2
  /\ wk.state = "IDLE" => w.counter = w.worker_counter + 1 /\ w.counter >= 2
Question(n, t) == IF n = 0 THEN Plain("INIT_REPLY") ELSE [tag |-> "DO_THIS_WORK", task |-> t]
Answered(n, t) ==
  IF n = 0 THEN Plain("INIT") ELSE IF n = 1 THEN Plain("BENCH_RESULTS")
  ELSE [tag |-> "RESULTS", task |-> t]
Sent(w, t, waitfile, input) ==
  /\ \A k \in DOMAIN waitfile : ~waitfile[k].sync /\ waitfile[k].n < w.worker_counter
  /\ \A n \in DOMAIN input : n < w.worker_counter =>
       n + 1 = w.worker_counter /\ w.counter = w.worker_counter /\ input[n] = Question(n, t)
Said(w, t, waitfile, input, output) ==
  \A k \in DOMAIN waitfile :
    /\ waitfile[k].n <= w.worker_counter /\ waitfile[k].n - 1 \notin DOMAIN input
    /\ waitfile[k].n = w.counter =>
         w.counter \in DOMAIN output /\ output[w.counter] = Answered(w.counter, t)
Process(p) ==
  /\ p.phase = "starting" => p.expected_number = 0 /\ p.master_expected_number = 0
  /\ p.phase = "waiting" => p.expected_number = 0 /\ p.master_expected_number = 1
  /\ p.phase = "ready" => /\ p.expected_number >= 1
                          /\ p.master_expected_number = p.expected_number + 1
  /\ p.phase # "waiting_twice"
Processes(J) == \A j \in DOMAIN J : Process(J[j])
(* Their last task is t; that of a worker which may be heard is the driver's. *)
About(t, w, wk, ww, mw, input, output) ==
  /\ w.state \in Alive => t = wk.task
  /\ Sent(w, t, ww, input) /\ Said(w, t, mw, input, output)
Talks(w, wk, ww, mw, input, output) ==
  InTurn(w, wk) /\ \E t \in Task \cup {NoTask} : About(t, w, wk, ww, mw, input, output)
TalksIn(s, ws, i) ==
  Talks(s.rc.fileWorkers[i], ws[i], s.files.worker_waitfile[i], s.files.master_waitfile[i],
        s.files.worker_input[i], s.files.worker_output[i])
Talk(s, ws) ==
  /\ Works(s) => s.rc.resuming = {} /\ ~s.rc.synced /\ \A i \in Slot : TalksIn(s, ws, i)
  /\ Processes(s.jobs)

Good(s, ws, talks) ==
  /\ Sound(s) /\ ws \in [Slot -> WorkerID] /\ Reported(s, ws)
  /\ talks => Talk(s, ws)

Neat == crashes = 0
Within ==
  /\ sent <= MaxWork /\ crashes <= MaxCrashes /\ faults <= MaxFaults /\ odd <= MaxOdd
  /\ sent \in Nat /\ crashes \in Nat /\ faults \in Nat /\ odd \in Nat
Inv == Good(State, workers, Neat) /\ (crashes = 0 => Works(State)) /\ Within

(* What a step does with it, unless the master dies. *)
Goes ==
  /\ Good(State', workers', Neat) /\ (Works(State) => Works(State'))
  /\ crashes' = crashes /\ Within'

-----------------------------------------------------------------------------
(* Operators. *)

LEMMA ClassesAre ==
  /\ Len(TargetOf) \in Nat /\ Classes \subseteq Nat /\ IsFiniteSet(Classes)
  /\ \A c \in Classes : Target(c) \in Nat
  /\ HostInc \in Nat /\ HostInc # 0
<1>1. Len(TargetOf) \in Nat /\ TargetOf \in [1 .. Len(TargetOf) -> Nat]
  BY TargetsAreNatural
<1>2. Classes \subseteq Nat
  BY <1>1 DEF Classes
<1>3. 0 \in Int /\ Len(TargetOf) - 1 \in Int
  BY <1>1
<1>4. IsFiniteSet(Classes)
  BY <1>3, FS_Interval DEF Classes
<1>5. ASSUME NEW c \in Classes PROVE Target(c) \in Nat
  <2>1. c + 1 \in 1 .. Len(TargetOf)
    BY <1>1 DEF Classes
  <2> QED
    BY <2>1, <1>1 DEF Target
<1> QED
  BY <1>1, <1>2, <1>4, <1>5, TargetsAreNatural

LEMMA SlotsAre == Slot \subseteq Nat /\ IsFiniteSet(Slot)
<1>1. TargetOf \in [1 .. Len(TargetOf) -> Int] /\ Len(TargetOf) \in Nat
  BY TargetsAreNatural
<1>2. Total(TargetOf) \in Int
  BY <1>1, TotalType
<1>3. 0 \in Int /\ Total(TargetOf) - 1 \in Int
  BY <1>2
<1>4. IsFiniteSet(Slot)
  BY <1>3, FS_Interval DEF Slot
<1> QED
  BY <1>2, <1>4 DEF Slot

LEMMA PartOfSlots ==
  ASSUME NEW S \in SUBSET Slot
  PROVE  IsFiniteSet(S) /\ Cardinality(S) \in Nat
<1>1. IsFiniteSet(S)
  BY SlotsAre, FS_Subset
<1> QED
  BY <1>1, FS_CardinalityType

(* Of the memory of a master that is gone, only one without slots is the image. *)
LEMMA NothingIsNull ==
  NULL \in MemoryType => Slot = {} /\ Classes = {}
<1>1. NULL.fileWorkers = <<>> /\ NULL.hostadd_reqs = <<>>
  BY DEF NULL, Memory
<1>2. ASSUME NULL \in MemoryType
      PROVE  NULL.fileWorkers \in [Slot -> FileWorker] /\ NULL.hostadd_reqs \in [Classes -> Nat]
  BY <1>2 DEF MemoryType
<1> QED
  BY <1>1, <1>2

(* A finite set of numbers has a largest. *)
LEMMA LastOfSome ==
  ASSUME NEW S \in SUBSET Nat, IsFiniteSet(S), S # {}
  PROVE  Max(S) \in S /\ \A y \in S : Max(S) >= y
<1> DEFINE Largest(T) == \E x \in T : \A y \in T : x >= y
           N == {n \in Nat : \E T \in SUBSET Nat :
                   IsFiniteSet(T) /\ T # {} /\ Cardinality(T) = n /\ ~Largest(T)}
<1>1. Largest(S)
  <2>1. SUFFICES ASSUME ~Largest(S) PROVE FALSE
    OBVIOUS
  <2>2. Cardinality(S) \in N
    BY <2>1, FS_CardinalityType
  <2>3. PICK n \in N : \A m \in N : n =< m
    BY <2>2, LeastNat
  <2>4. PICK T \in SUBSET Nat : IsFiniteSet(T) /\ T # {} /\ Cardinality(T) = n /\ ~Largest(T)
    BY <2>3
  <2>5. PICK x \in T : TRUE
    BY <2>4
  <2>6. IsFiniteSet(T \ {x}) /\ Cardinality(T \ {x}) = n - 1
    BY <2>4, FS_RemoveElement
  <2>7. T \ {x} # {}
    BY <2>4, <2>5
  <2>8. Cardinality(T \ {x}) \in Nat /\ ~(n =< n - 1)
    BY <2>3, <2>6, FS_CardinalityType
  <2>9. Largest(T \ {x})
    <3>1. T \ {x} \in SUBSET Nat
      OBVIOUS
    <3>2. n - 1 \in Nat /\ n - 1 \notin N
      BY <2>3, <2>6, <2>8
    <3> QED
      BY <3>1, <3>2, <2>6, <2>7
  <2>10. PICK y \in T \ {x} : \A z \in T \ {x} : y >= z
    BY <2>9
  <2>11. x \in Nat /\ y \in Nat /\ T \subseteq Nat
    BY <2>10
  <2>12. CASE x >= y
    <3>1. \A z \in T : x >= z
      BY <2>10, <2>11, <2>12
    <3> QED
      BY <3>1, <2>4
  <2>13. CASE y >= x
    <3>1. \A z \in T : y >= z
      BY <2>10, <2>11, <2>13
    <3> QED
      BY <3>1, <2>4, <2>10
  <2> QED
    BY <2>11, <2>12, <2>13
<1> QED
  BY <1>1, Zenon DEF Max

(* The places of a set's elements. *)
LEMMA PlacesAre ==
  ASSUME NEW S \in SUBSET Slot
  PROVE  /\ \A i \in S : Place(S, i) \in Nat /\ Place(S, i) >= 1
         /\ \A i, k \in S : i < k => Place(S, i) < Place(S, k)
<1>1. S \in SUBSET Nat
  BY SlotsAre
<1>2. ASSUME NEW i \in S PROVE Place(S, i) \in Nat /\ Place(S, i) >= 1
  <2>1. {k \in S : k <= i} \in SUBSET Slot /\ i \in {k \in S : k <= i}
    <3>1. i \in Nat
      BY <1>1
    <3>2. i <= i
      BY <3>1
    <3> QED
      BY <3>2
  <2>2. IsFiniteSet({k \in S : k <= i}) /\ Cardinality({k \in S : k <= i}) \in Nat
    BY <2>1, PartOfSlots
  <2>3. Cardinality({k \in S : k <= i}) # 0
    BY <2>1, <2>2, FS_EmptySet
  <2> QED
    BY <2>2, <2>3 DEF Place
<1>3. ASSUME NEW i \in S, NEW k \in S, i < k PROVE Place(S, i) < Place(S, k)
  <2> DEFINE A == {x \in S : x <= i}
             B == {x \in S : x <= k}
  <2>1. A \subseteq B /\ k \in B /\ k \notin A
    <3>1. i \in Nat /\ k \in Nat /\ \A x \in S : x \in Nat
      BY <1>1
    <3>2. \A x \in S : x <= i => x <= k
      BY <3>1, <1>3
    <3>3. k <= k /\ ~(k <= i)
      BY <3>1, <1>3
    <3> QED
      BY <3>2, <3>3
  <2>2. IsFiniteSet(A) /\ IsFiniteSet(B) /\ Cardinality(A) \in Nat /\ Cardinality(B) \in Nat
    BY PartOfSlots
  <2> HIDE DEF A, B
  <2>3. Cardinality(A) =< Cardinality(B) /\ (Cardinality(A) = Cardinality(B) => A = B)
    BY <2>1, <2>2, FS_Subset
  <2>4. Cardinality(A) < Cardinality(B)
    BY <2>1, <2>2, <2>3
  <2> QED
    BY <2>4 DEF Place, A, B
<1> QED
  BY <1>2, <1>3

LEMMA ImageIsFinite ==
  ASSUME NEW S, IsFiniteSet(S), NEW f, DOMAIN f = S
  PROVE  IsFiniteSet({f[x] : x \in S})
<1> DEFINE T == {f[x] : x \in S}
           g == [x \in S |-> f[x]]
<1>1. g \in [S -> T] /\ \A y \in T : \E x \in S : g[x] = y
  OBVIOUS
<1>2. g \in Surjection(S, T)
  BY <1>1, Zenon DEF Surjection
<1> HIDE DEF g, T
<1>3. IsFiniteSet(T)
  BY <1>2, FS_Surjection
<1> QED
  BY <1>3 DEF T

LEMMA LogJobsFinite ==
  ASSUME NEW log \in Seq(Event)
  PROVE  /\ IsFiniteSet({e.job : e \in Range(log)})
         /\ {e.job : e \in Range(log)} \subseteq Nat
<1>1. Len(log) \in Nat /\ DOMAIN log = 1 .. Len(log) /\ \A k \in DOMAIN log : log[k] \in Event
  OBVIOUS
<1>2. IsFiniteSet(DOMAIN log)
  BY <1>1, FS_Interval
<1> DEFINE f == [k \in DOMAIN log |-> log[k].job]
<1>3. IsFiniteSet({f[k] : k \in DOMAIN log})
  <2>1. DOMAIN f = DOMAIN log
    OBVIOUS
  <2> HIDE DEF f
  <2> QED
    BY <1>2, <2>1, ImageIsFinite
<1>4. {f[k] : k \in DOMAIN log} = {e.job : e \in Range(log)}
  BY DEF Range
<1>5. {f[k] : k \in DOMAIN log} \subseteq Nat
  BY <1>1 DEF Event
<1> QED
  BY <1>3, <1>4, <1>5

LEMMA JobsKnownFinite ==
  ASSUME NEW s, Typed(s), Works(s)
  PROVE  IsFiniteSet(JobsKnown(s)) /\ JobsKnown(s) \subseteq Nat
<1> DEFINE A == {s.rc.fileWorkers[i].job : i \in Slot}
           of(i) == {e.job : e \in Range(s.files.log[i])}
           L == {of(i) : i \in Slot}
           M == {s.files.moment_worker_file[i].job : i \in Slot}
<1>1. IsFiniteSet(A) /\ A \subseteq Nat
  <2> DEFINE f == [i \in Slot |-> s.rc.fileWorkers[i].job]
  <2>1. A = {f[i] : i \in Slot}
    OBVIOUS
  <2>2. IsFiniteSet({f[i] : i \in Slot})
    <3>1. DOMAIN f = Slot
      OBVIOUS
    <3> HIDE DEF f, A
    <3> QED
      BY <3>1, SlotsAre, ImageIsFinite
  <2>3. \A i \in Slot : s.rc.fileWorkers[i] \in FileWorker
    BY DEF Works, MemoryType
  <2> QED
    BY <2>1, <2>2, <2>3 DEF FileWorker
<1>2. IsFiniteSet(M) /\ M \subseteq Nat
  <2> DEFINE f == [i \in Slot |-> s.files.moment_worker_file[i].job]
  <2>1. DOMAIN f = Slot /\ M = {f[i] : i \in Slot}
    OBVIOUS
  <2>2. IsFiniteSet({f[i] : i \in Slot})
    <3> HIDE DEF f, M
    <3> QED
      BY <2>1, SlotsAre, ImageIsFinite
  <2>3. \A i \in Slot : s.files.moment_worker_file[i] \in [job : Nat, exec_class : Classes]
    BY DEF Typed, FilesType
  <2> QED
    BY <2>1, <2>2, <2>3
<1>3. \A i \in Slot : IsFiniteSet(of(i)) /\ of(i) \subseteq Nat
  <2>1. \A i \in Slot : s.files.log[i] \in Seq(Event)
    BY DEF Typed, FilesType
  <2> QED
    BY <2>1, LogJobsFinite
<1>4. IsFiniteSet(L)
  <2> DEFINE f == [i \in Slot |-> of(i)]
  <2>1. L = {f[i] : i \in Slot}
    OBVIOUS
  <2>2. IsFiniteSet({f[i] : i \in Slot})
    <3>1. DOMAIN f = Slot
      OBVIOUS
    <3> HIDE DEF f, L, of
    <3> QED
      BY <3>1, SlotsAre, ImageIsFinite
  <2> QED
    BY <2>1, <2>2
<1>5. IsFiniteSet(UNION L) /\ (UNION L) \subseteq Nat
  <2>1. \A T \in L : IsFiniteSet(T)
    BY <1>3
  <2>2. IsFiniteSet(UNION L)
    <3> HIDE DEF L
    <3> QED
      BY <1>4, <2>1, FS_UNION
  <2> QED
    BY <2>2, <1>3
<1>6. IsFiniteSet(DOMAIN s.jobs) /\ DOMAIN s.jobs \subseteq Nat
  BY DEF Typed, JobsType
<1>7. JobsKnown(s) = ((DOMAIN s.jobs \cup A) \cup (UNION L)) \cup M
  BY Zenon DEF JobsKnown
<1> HIDE DEF A, L, M
<1>8. IsFiniteSet(DOMAIN s.jobs \cup A)
  BY <1>1, <1>6, FS_Union
<1>9. IsFiniteSet((DOMAIN s.jobs \cup A) \cup (UNION L))
  BY <1>8, <1>5, FS_Union
<1>10. IsFiniteSet(((DOMAIN s.jobs \cup A) \cup (UNION L)) \cup M)
  BY <1>9, <1>2, FS_Union
<1> QED
  BY <1>1, <1>2, <1>5, <1>6, <1>7, <1>10

(* No job has a higher number than the last. *)
LEMMA LastJobIsLast ==
  ASSUME NEW s, Typed(s), Works(s)
  PROVE  /\ LastJob(s) \in Nat
         /\ \A j \in DOMAIN s.jobs : j <= LastJob(s)
         /\ \A i \in Slot, k \in Nat :
              k \in DOMAIN s.files.log[i] => s.files.log[i][k].job <= LastJob(s)
<1> DEFINE K == JobsKnown(s) \cup {NoJob}
<1>1. IsFiniteSet(K) /\ K \in SUBSET Nat /\ K # {}
  <2>1. IsFiniteSet(JobsKnown(s)) /\ JobsKnown(s) \subseteq Nat
    BY JobsKnownFinite
  <2>2. IsFiniteSet(K)
    BY <2>1, FS_AddElement
  <2> QED
    BY <2>1, <2>2 DEF NoJob
<1>2. Max(K) \in K /\ \A y \in K : Max(K) >= y
  <2> HIDE DEF K
  <2> QED
    BY <1>1, LastOfSome
<1>3. LastJob(s) = Max(K)
  BY DEF LastJob
<1>4. ASSUME NEW i \in Slot, NEW k \in DOMAIN s.files.log[i]
      PROVE  s.files.log[i][k].job \in JobsKnown(s)
  <2>1. s.files.log[i][k] \in Range(s.files.log[i])
    BY DEF Range
  <2> DEFINE of(n) == {e.job : e \in Range(s.files.log[n])}
  <2>2. s.files.log[i][k].job \in of(i)
    BY <2>1
  <2> HIDE DEF of
  <2>3. s.files.log[i][k].job \in UNION {of(n) : n \in Slot}
    BY <2>2
  <2> USE DEF of
  <2> QED
    BY <2>3 DEF JobsKnown
<1>5. DOMAIN s.jobs \subseteq JobsKnown(s)
  BY Zenon DEF JobsKnown
<1>6. LastJob(s) \in Nat /\ \A y \in K : y <= LastJob(s)
  <2> HIDE DEF K
  <2>1. LastJob(s) \in Nat
    BY <1>1, <1>2, <1>3
  <2>2. \A y \in K : y \in Nat
    BY <1>1
  <2> QED
    BY <2>1, <2>2, <1>2, <1>3
<1> QED
  BY <1>4, <1>5, <1>6

-----------------------------------------------------------------------------
(* The folds, step by step. *)

(* CheckLogFilesResuscicate reads a log. *)
ReadFrom(u, base, W) ==
  /\ u[0] = base
  /\ \A k \in 1 .. Len(W) : u[k] = Resuscicated(u[k - 1], W[k])

LEMMA ReadUnrolls ==
  ASSUME NEW base, NEW X, NEW W \in Seq(X)
  PROVE  \E u : ReadFrom(u, base, W)
                /\ FoldLeft(Resuscicated, base, W) = u[Len(W)]
<1> DEFINE n == Len(W)
           D(m) == SUBSET (1 .. m)
           Fold(m, f) == [x \in D(m) |-> IF x = {} THEN base
                                        ELSE Resuscicated(f[x \ {Max(x)}], W[Max(x)])]
           N == {m \in 0 .. n : \E f : f = Fold(m, f)}
<1>1. n \in Nat /\ DOMAIN W = 1 .. n
  OBVIOUS
<1>2. 0 \in N
  <2> DEFINE f == [x \in D(0) |-> base]
  <2>1. \A x \in D(0) : x = {}
    OBVIOUS
  <2>2. f = Fold(0, f)
    BY <2>1
  <2>3. 0 \in 0 .. n
    BY <1>1
  <2> QED
    BY <2>2, <2>3
<1>3. ASSUME NEW m \in 0 .. n - 1, m \in N PROVE m + 1 \in N
  <2>1. PICK f : f = Fold(m, f)
    BY <1>3
  <2>2. \A x \in D(m) : x # {} => f[x] = Resuscicated(f[x \ {Max(x)}], W[Max(x)])
    <3> HIDE DEF N
    <3> QED
      BY <2>1
  <2>3. {} \in D(m) /\ f[{}] = base
    <3> HIDE DEF N
    <3>1. {} \in D(m)
      OBVIOUS
    <3> QED
      BY <2>1, <3>1
  <2> DEFINE val(x) == IF x \in D(m) THEN f[x] ELSE Resuscicated(f[x \ {m + 1}], W[m + 1])
             g == [x \in D(m + 1) |-> val(x)]
  <2>4. ASSUME NEW x \in D(m + 1), x \notin D(m) PROVE x \ {m + 1} \in D(m) /\ Max(x) = m + 1
    <3>1. m \in Nat /\ \A y \in 1 .. m + 1 : y \in 1 .. m \/ y = m + 1
      BY <1>1
    <3>2. m + 1 \in x /\ x \ {m + 1} \in D(m)
      BY <3>1, <2>4
    <3>3. x \subseteq Int /\ \A y \in x : m + 1 >= y
      BY <3>1, <2>4
    <3> HIDE DEF D, N, g, val
    <3> QED
      BY <3>2, <3>3, MaxIsMost
  <2>5. ASSUME NEW x \in D(m) PROVE x \in D(m + 1) /\ x \ {Max(x)} \in D(m)
    <3>1. m \in Nat /\ \A y \in 1 .. m : y \in 1 .. m + 1
      BY <1>1
    <3>2. x \subseteq 1 .. m
      OBVIOUS
    <3> HIDE DEF N, g, val, Fold
    <3> QED
      BY <3>1, <3>2
  <2>6. ASSUME NEW x \in D(m + 1), x # {}
        PROVE  g[x] = Resuscicated(g[x \ {Max(x)}], W[Max(x)])
    <3>1. CASE x \in D(m)
      <4>1. g[x] = f[x] /\ g[x \ {Max(x)}] = f[x \ {Max(x)}]
        BY <3>1, <2>5
      <4> HIDE DEF g, D, N
      <4> QED
        BY <4>1, <3>1, <2>2, <2>6
    <3>2. CASE x \notin D(m)
      <4>1. x \ {m + 1} \in D(m) /\ Max(x) = m + 1
        BY <3>2, <2>4
      <4>2. g[x \ {m + 1}] = f[x \ {m + 1}] /\ g[x] = Resuscicated(f[x \ {m + 1}], W[m + 1])
        BY <4>1, <3>2, <2>5
      <4> HIDE DEF g, D, N
      <4> QED
        BY <4>1, <4>2
    <3> QED
      BY <3>1, <3>2
  <2>7. g[{}] = base
    BY <2>3, <2>5
  <2>8. g = [x \in D(m + 1) |-> g[x]]
    OBVIOUS
  <2>9. g = Fold(m + 1, g)
    <3> HIDE DEF g, D, N
    <3> QED
      BY <2>6, <2>7, <2>8
  <2>10. m + 1 \in 0 .. n
    BY <1>1
  <2> QED
    BY <2>9, <2>10
<1>4. \E f : f = Fold(n, f)
  <2>1. n \in 0 .. n
    BY <1>1
  <2> HIDE DEF N, n
  <2>2. n \in N
    BY <1>1, <1>2, <1>3, <2>1, UpTo
  <2> QED
    BY <2>2 DEF N
<1> DEFINE it == CHOOSE f : f = Fold(n, f)
           u == [k \in 0 .. n |-> it[1 .. k]]
<1>5. FoldLeft(Resuscicated, base, W) = it[1 .. n]
  BY <1>1 DEF FoldLeft, MapThenFoldSet
<1>6. it = Fold(n, it)
  <2> HIDE DEF Fold, n
  <2> QED
    BY <1>4, Zenon
<1> HIDE DEF it, N
<1>7. \A x \in D(n) : it[x] = IF x = {} THEN base ELSE Resuscicated(it[x \ {Max(x)}], W[Max(x)])
  BY <1>6
<1> HIDE DEF Fold
<1>8. u[0] = base
  <2>1. 1 .. 0 = {} /\ {} \in D(n) /\ 0 \in 0 .. n
    BY <1>1
  <2>2. it[{}] = base
    BY <1>7, <2>1
  <2> QED
    BY <2>1, <2>2
<1>9. ASSUME NEW k \in 1 .. n PROVE u[k] = Resuscicated(u[k - 1], W[k])
  <2>1. /\ k \in 0 .. n /\ k - 1 \in 0 .. n /\ 1 .. k \in D(n) /\ 1 .. k # {}
        /\ (1 .. k) \ {k} = 1 .. k - 1
    <3>1. n \in Nat /\ k \in 1 .. n
      BY <1>1
    <3> HIDE DEF n, u
    <3>2. k \in 1 .. k /\ k \in 0 .. n /\ k - 1 \in 0 .. n
      BY <3>1
    <3>3. 1 .. k \subseteq 1 .. n
      BY <3>1
    <3>4. \A y \in 1 .. k : y # k <=> y \in 1 .. k - 1
      BY <3>1
    <3>5. 1 .. k - 1 \subseteq 1 .. k
      BY <3>1
    <3> QED
      BY <3>2, <3>3, <3>4, <3>5
  <2>2. Max(1 .. k) = k
    <3>1. k \in 1 .. k /\ 1 .. k \subseteq Int /\ \A y \in 1 .. k : k >= y
      BY <1>1
    <3> HIDE DEF u, n, D
    <3> QED
      BY <3>1, MaxIsMost, Zenon
  <2>3. it[1 .. k] = Resuscicated(it[1 .. k - 1], W[k])
    BY <1>7, <2>1, <2>2
  <2> QED
    BY <2>1, <2>3
<1>10. ReadFrom(u, base, W)
  <2> HIDE DEF u
  <2> QED
    BY <1>8, <1>9 DEF ReadFrom
<1>11. u[n] = it[1 .. n]
  BY <1>1
<1> HIDE DEF u
<1> QED
  BY <1>5, <1>10, <1>11

(* worker_recv reads a waitfile. *)
LookFrom(u, base, W) ==
  /\ u[0] = base
  /\ \A k \in 1 .. Len(W) : u[k] = LookedAt(u[k - 1], W[k])

LEMMA LookUnrolls ==
  ASSUME NEW base, NEW X, NEW W \in Seq(X)
  PROVE  \E u : LookFrom(u, base, W)
                /\ FoldLeft(LookedAt, base, W) = u[Len(W)]
<1> DEFINE n == Len(W)
           D(m) == SUBSET (1 .. m)
           Fold(m, f) == [x \in D(m) |-> IF x = {} THEN base
                                        ELSE LookedAt(f[x \ {Max(x)}], W[Max(x)])]
           N == {m \in 0 .. n : \E f : f = Fold(m, f)}
<1>1. n \in Nat /\ DOMAIN W = 1 .. n
  OBVIOUS
<1>2. 0 \in N
  <2> DEFINE f == [x \in D(0) |-> base]
  <2>1. \A x \in D(0) : x = {}
    OBVIOUS
  <2>2. f = Fold(0, f)
    BY <2>1
  <2>3. 0 \in 0 .. n
    BY <1>1
  <2> QED
    BY <2>2, <2>3
<1>3. ASSUME NEW m \in 0 .. n - 1, m \in N PROVE m + 1 \in N
  <2>1. PICK f : f = Fold(m, f)
    BY <1>3
  <2>2. \A x \in D(m) : x # {} => f[x] = LookedAt(f[x \ {Max(x)}], W[Max(x)])
    <3> HIDE DEF N
    <3> QED
      BY <2>1
  <2>3. {} \in D(m) /\ f[{}] = base
    <3> HIDE DEF N
    <3>1. {} \in D(m)
      OBVIOUS
    <3> QED
      BY <2>1, <3>1
  <2> DEFINE val(x) == IF x \in D(m) THEN f[x] ELSE LookedAt(f[x \ {m + 1}], W[m + 1])
             g == [x \in D(m + 1) |-> val(x)]
  <2>4. ASSUME NEW x \in D(m + 1), x \notin D(m) PROVE x \ {m + 1} \in D(m) /\ Max(x) = m + 1
    <3>1. m \in Nat /\ \A y \in 1 .. m + 1 : y \in 1 .. m \/ y = m + 1
      BY <1>1
    <3>2. m + 1 \in x /\ x \ {m + 1} \in D(m)
      BY <3>1, <2>4
    <3>3. x \subseteq Int /\ \A y \in x : m + 1 >= y
      BY <3>1, <2>4
    <3> HIDE DEF D, N, g, val
    <3> QED
      BY <3>2, <3>3, MaxIsMost
  <2>5. ASSUME NEW x \in D(m) PROVE x \in D(m + 1) /\ x \ {Max(x)} \in D(m)
    <3>1. m \in Nat /\ \A y \in 1 .. m : y \in 1 .. m + 1
      BY <1>1
    <3>2. x \subseteq 1 .. m
      OBVIOUS
    <3> HIDE DEF N, g, val, Fold
    <3> QED
      BY <3>1, <3>2
  <2>6. ASSUME NEW x \in D(m + 1), x # {}
        PROVE  g[x] = LookedAt(g[x \ {Max(x)}], W[Max(x)])
    <3>1. CASE x \in D(m)
      <4>1. g[x] = f[x] /\ g[x \ {Max(x)}] = f[x \ {Max(x)}]
        BY <3>1, <2>5
      <4> HIDE DEF g, D, N
      <4> QED
        BY <4>1, <3>1, <2>2, <2>6
    <3>2. CASE x \notin D(m)
      <4>1. x \ {m + 1} \in D(m) /\ Max(x) = m + 1
        BY <3>2, <2>4
      <4>2. g[x \ {m + 1}] = f[x \ {m + 1}] /\ g[x] = LookedAt(f[x \ {m + 1}], W[m + 1])
        BY <4>1, <3>2, <2>5
      <4> HIDE DEF g, D, N
      <4> QED
        BY <4>1, <4>2
    <3> QED
      BY <3>1, <3>2
  <2>7. g[{}] = base
    BY <2>3, <2>5
  <2>8. g = [x \in D(m + 1) |-> g[x]]
    OBVIOUS
  <2>9. g = Fold(m + 1, g)
    <3> HIDE DEF g, D, N
    <3> QED
      BY <2>6, <2>7, <2>8
  <2>10. m + 1 \in 0 .. n
    BY <1>1
  <2> QED
    BY <2>9, <2>10
<1>4. \E f : f = Fold(n, f)
  <2>1. n \in 0 .. n
    BY <1>1
  <2> HIDE DEF N, n
  <2>2. n \in N
    BY <1>1, <1>2, <1>3, <2>1, UpTo
  <2> QED
    BY <2>2 DEF N
<1> DEFINE it == CHOOSE f : f = Fold(n, f)
           u == [k \in 0 .. n |-> it[1 .. k]]
<1>5. FoldLeft(LookedAt, base, W) = it[1 .. n]
  BY <1>1 DEF FoldLeft, MapThenFoldSet
<1>6. it = Fold(n, it)
  <2> HIDE DEF Fold, n
  <2> QED
    BY <1>4, Zenon
<1> HIDE DEF it, N
<1>7. \A x \in D(n) : it[x] = IF x = {} THEN base ELSE LookedAt(it[x \ {Max(x)}], W[Max(x)])
  BY <1>6
<1> HIDE DEF Fold
<1>8. u[0] = base
  <2>1. 1 .. 0 = {} /\ {} \in D(n) /\ 0 \in 0 .. n
    BY <1>1
  <2>2. it[{}] = base
    BY <1>7, <2>1
  <2> QED
    BY <2>1, <2>2
<1>9. ASSUME NEW k \in 1 .. n PROVE u[k] = LookedAt(u[k - 1], W[k])
  <2>1. /\ k \in 0 .. n /\ k - 1 \in 0 .. n /\ 1 .. k \in D(n) /\ 1 .. k # {}
        /\ (1 .. k) \ {k} = 1 .. k - 1
    <3>1. n \in Nat /\ k \in 1 .. n
      BY <1>1
    <3> HIDE DEF n, u
    <3>2. k \in 1 .. k /\ k \in 0 .. n /\ k - 1 \in 0 .. n
      BY <3>1
    <3>3. 1 .. k \subseteq 1 .. n
      BY <3>1
    <3>4. \A y \in 1 .. k : y # k <=> y \in 1 .. k - 1
      BY <3>1
    <3>5. 1 .. k - 1 \subseteq 1 .. k
      BY <3>1
    <3> QED
      BY <3>2, <3>3, <3>4, <3>5
  <2>2. Max(1 .. k) = k
    <3>1. k \in 1 .. k /\ 1 .. k \subseteq Int /\ \A y \in 1 .. k : k >= y
      BY <1>1
    <3> HIDE DEF u, n, D
    <3> QED
      BY <3>1, MaxIsMost, Zenon
  <2>3. it[1 .. k] = LookedAt(it[1 .. k - 1], W[k])
    BY <1>7, <2>1, <2>2
  <2> QED
    BY <2>1, <2>3
<1>10. LookFrom(u, base, W)
  <2> HIDE DEF u
  <2> QED
    BY <1>8, <1>9 DEF LookFrom
<1>11. u[n] = it[1 .. n]
  BY <1>1
<1> HIDE DEF u
<1> QED
  BY <1>5, <1>10, <1>11

(* hostaddlogic asks for one class after the other. *)
AskAll(s, ws, R, W) == FoldLeft(LAMBDA r, c : AskFor(r, ws, R, c), s, W)
AskFrom(u, ws, R, base, W) ==
  /\ u[0] = base
  /\ \A k \in 1 .. Len(W) : u[k] = AskFor(u[k - 1], ws, R, W[k])

LEMMA AskUnrolls ==
  ASSUME NEW ws, NEW R, NEW base, NEW X, NEW W \in Seq(X)
  PROVE  \E u : AskFrom(u, ws, R, base, W)
                /\ AskAll(base, ws, R, W) = u[Len(W)]
<1> DEFINE n == Len(W)
           D(m) == SUBSET (1 .. m)
           Fold(m, f) == [x \in D(m) |-> IF x = {} THEN base
                                        ELSE AskFor(f[x \ {Max(x)}], ws, R, W[Max(x)])]
           N == {m \in 0 .. n : \E f : f = Fold(m, f)}
<1>1. n \in Nat /\ DOMAIN W = 1 .. n
  OBVIOUS
<1>2. 0 \in N
  <2> DEFINE f == [x \in D(0) |-> base]
  <2>1. \A x \in D(0) : x = {}
    OBVIOUS
  <2>2. f = Fold(0, f)
    BY <2>1
  <2>3. 0 \in 0 .. n
    BY <1>1
  <2> QED
    BY <2>2, <2>3
<1>3. ASSUME NEW m \in 0 .. n - 1, m \in N PROVE m + 1 \in N
  <2>1. PICK f : f = Fold(m, f)
    BY <1>3
  <2>2. \A x \in D(m) : x # {} => f[x] = AskFor(f[x \ {Max(x)}], ws, R, W[Max(x)])
    <3> HIDE DEF N
    <3> QED
      BY <2>1
  <2>3. {} \in D(m) /\ f[{}] = base
    <3> HIDE DEF N
    <3>1. {} \in D(m)
      OBVIOUS
    <3> QED
      BY <2>1, <3>1
  <2> DEFINE val(x) == IF x \in D(m) THEN f[x] ELSE AskFor(f[x \ {m + 1}], ws, R, W[m + 1])
             g == [x \in D(m + 1) |-> val(x)]
  <2>4. ASSUME NEW x \in D(m + 1), x \notin D(m) PROVE x \ {m + 1} \in D(m) /\ Max(x) = m + 1
    <3>1. m \in Nat /\ \A y \in 1 .. m + 1 : y \in 1 .. m \/ y = m + 1
      BY <1>1
    <3>2. m + 1 \in x /\ x \ {m + 1} \in D(m)
      BY <3>1, <2>4
    <3>3. x \subseteq Int /\ \A y \in x : m + 1 >= y
      BY <3>1, <2>4
    <3> HIDE DEF D, N, g, val
    <3> QED
      BY <3>2, <3>3, MaxIsMost
  <2>5. ASSUME NEW x \in D(m) PROVE x \in D(m + 1) /\ x \ {Max(x)} \in D(m)
    <3>1. m \in Nat /\ \A y \in 1 .. m : y \in 1 .. m + 1
      BY <1>1
    <3>2. x \subseteq 1 .. m
      OBVIOUS
    <3> HIDE DEF N, g, val, Fold
    <3> QED
      BY <3>1, <3>2
  <2>6. ASSUME NEW x \in D(m + 1), x # {}
        PROVE  g[x] = AskFor(g[x \ {Max(x)}], ws, R, W[Max(x)])
    <3>1. CASE x \in D(m)
      <4>1. g[x] = f[x] /\ g[x \ {Max(x)}] = f[x \ {Max(x)}]
        BY <3>1, <2>5
      <4> HIDE DEF g, D, N
      <4> QED
        BY <4>1, <3>1, <2>2, <2>6
    <3>2. CASE x \notin D(m)
      <4>1. x \ {m + 1} \in D(m) /\ Max(x) = m + 1
        BY <3>2, <2>4
      <4>2. g[x \ {m + 1}] = f[x \ {m + 1}] /\ g[x] = AskFor(f[x \ {m + 1}], ws, R, W[m + 1])
        BY <4>1, <3>2, <2>5
      <4> HIDE DEF g, D, N
      <4> QED
        BY <4>1, <4>2
    <3> QED
      BY <3>1, <3>2
  <2>7. g[{}] = base
    BY <2>3, <2>5
  <2>8. g = [x \in D(m + 1) |-> g[x]]
    OBVIOUS
  <2>9. g = Fold(m + 1, g)
    <3> HIDE DEF g, D, N
    <3> QED
      BY <2>6, <2>7, <2>8
  <2>10. m + 1 \in 0 .. n
    BY <1>1
  <2> QED
    BY <2>9, <2>10
<1>4. \E f : f = Fold(n, f)
  <2>1. n \in 0 .. n
    BY <1>1
  <2> HIDE DEF N, n
  <2>2. n \in N
    BY <1>1, <1>2, <1>3, <2>1, UpTo
  <2> QED
    BY <2>2 DEF N
<1> DEFINE it == CHOOSE f : f = Fold(n, f)
           u == [k \in 0 .. n |-> it[1 .. k]]
<1>5. FoldLeft(LAMBDA r, c : AskFor(r, ws, R, c), base, W) = it[1 .. n]
  BY <1>1 DEF FoldLeft, MapThenFoldSet
<1>6. it = Fold(n, it)
  <2> HIDE DEF Fold, n
  <2> QED
    BY <1>4, Zenon
<1> HIDE DEF it, N
<1>7. \A x \in D(n) : it[x] = IF x = {} THEN base ELSE AskFor(it[x \ {Max(x)}], ws, R, W[Max(x)])
  BY <1>6
<1> HIDE DEF Fold
<1>8. u[0] = base
  <2>1. 1 .. 0 = {} /\ {} \in D(n) /\ 0 \in 0 .. n
    BY <1>1
  <2>2. it[{}] = base
    BY <1>7, <2>1
  <2> QED
    BY <2>1, <2>2
<1>9. ASSUME NEW k \in 1 .. n PROVE u[k] = AskFor(u[k - 1], ws, R, W[k])
  <2>1. /\ k \in 0 .. n /\ k - 1 \in 0 .. n /\ 1 .. k \in D(n) /\ 1 .. k # {}
        /\ (1 .. k) \ {k} = 1 .. k - 1
    <3>1. n \in Nat /\ k \in 1 .. n
      BY <1>1
    <3> HIDE DEF n, u
    <3>2. k \in 1 .. k /\ k \in 0 .. n /\ k - 1 \in 0 .. n
      BY <3>1
    <3>3. 1 .. k \subseteq 1 .. n
      BY <3>1
    <3>4. \A y \in 1 .. k : y # k <=> y \in 1 .. k - 1
      BY <3>1
    <3>5. 1 .. k - 1 \subseteq 1 .. k
      BY <3>1
    <3> QED
      BY <3>2, <3>3, <3>4, <3>5
  <2>2. Max(1 .. k) = k
    <3>1. k \in 1 .. k /\ 1 .. k \subseteq Int /\ \A y \in 1 .. k : k >= y
      BY <1>1
    <3> HIDE DEF u, n, D
    <3> QED
      BY <3>1, MaxIsMost, Zenon
  <2>3. it[1 .. k] = AskFor(it[1 .. k - 1], ws, R, W[k])
    BY <1>7, <2>1, <2>2
  <2> QED
    BY <2>1, <2>3
<1>10. AskFrom(u, ws, R, base, W)
  <2> HIDE DEF u
  <2> QED
    BY <1>8, <1>9 DEF AskFrom
<1>11. u[n] = it[1 .. n]
  BY <1>1
<1> HIDE DEF u
<1>12. AskAll(base, ws, R, W) = FoldLeft(LAMBDA r, c : AskFor(r, ws, R, c), base, W)
  BY DEF AskAll
<1> QED
  BY <1>5, <1>10, <1>11, <1>12

(* What a restart makes of a log.  A slot is free, although its job was         *)
(* submitted, only if the job is removed; a job that is killed is removed, or   *)
(* its log says that it has ended; and the SUBMIT is read while nothing else was. *)
Read(log, k, a) ==
  /\ a \in [state : {"FREE", "SUBMITTED", "RUNNING", "KILLED"}, event_no : Nat,
            over : BOOLEAN, rm : BOOLEAN]
  /\ ~a.over => a.event_no = k
  /\ k >= 1 => a.event_no >= 1
  /\ k >= 1 /\ log[1].kind = "SUBMIT" =>
       a.state # "FREE" /\ (a.event_no <= 1 => a.state = "SUBMITTED")
  /\ a.over => a.state = "KILLED" /\ k >= 1
  /\ a.state = "KILLED" /\ ~a.rm =>
       a.over /\ \E i \in DOMAIN log : log[i].kind \in {"ABORTED", "TERMINATED"}

LEMMA ReadOn ==
  ASSUME NEW log \in Seq(Event), NEW k \in 1 .. Len(log), NEW a, Read(log, k - 1, a)
  PROVE  Read(log, k, Resuscicated(a, log[k]))
<1> DEFINE e == log[k]
           b == Resuscicated(a, e)
<1>1. k \in DOMAIN log /\ e \in Event /\ k \in Nat /\ k >= 1
  OBVIOUS
<1>2. e.kind \in {"SUBMIT", "EXECUTE", "EVICTED", "SHADOW_EXCEPTION",
                  "TERMINATED", "ABORTED", "OTHER"}
  BY <1>1 DEF Event
<1>3. /\ a \in [state : {"FREE", "SUBMITTED", "RUNNING", "KILLED"}, event_no : Nat,
                over : BOOLEAN, rm : BOOLEAN]
      /\ ~a.over => a.event_no = k - 1
      /\ k - 1 >= 1 => a.event_no >= 1
      /\ k - 1 >= 1 /\ log[1].kind = "SUBMIT" =>
           a.state # "FREE" /\ (a.event_no <= 1 => a.state = "SUBMITTED")
      /\ a.over => a.state = "KILLED" /\ k - 1 >= 1
      /\ a.state = "KILLED" /\ ~a.rm =>
           a.over /\ \E i \in DOMAIN log : log[i].kind \in {"ABORTED", "TERMINATED"}
  BY DEF Read
<1>4. CASE a.over
  <2>1. b = a
    BY <1>4 DEF Resuscicated
  <2>2. k - 1 >= 1
    BY <1>3, <1>4
  <2> QED
    BY <1>1, <1>3, <1>4, <2>1, <2>2 DEF Read
<1>5. CASE ~a.over
  <2>1. a.event_no = k - 1 /\ a.event_no + 1 = k
    BY <1>1, <1>3, <1>5
  <2>2. /\ e.kind \in {"ABORTED", "TERMINATED"} =>
             b = [a EXCEPT !.event_no = k, !.state = "KILLED", !.over = TRUE]
        /\ e.kind = "SHADOW_EXCEPTION" =>
             b = [a EXCEPT !.event_no = k, !.state = "KILLED", !.over = TRUE, !.rm = TRUE]
        /\ e.kind = "EVICTED" => b = [a EXCEPT !.event_no = k, !.state = "KILLED", !.rm = TRUE]
        /\ e.kind = "SUBMIT" => b = [a EXCEPT !.event_no = k, !.state = "SUBMITTED"]
        /\ e.kind = "EXECUTE" => b = [a EXCEPT !.event_no = k, !.state = "RUNNING"]
        /\ e.kind = "OTHER" => b = [a EXCEPT !.event_no = k]
    BY <1>5, <2>1 DEF Resuscicated
  <2>3. k = 1 \/ k - 1 >= 1
    BY <1>1
  <2>4. k = 1 => e = log[1]
    OBVIOUS
  <2> HIDE DEF e, b
  <2>5. CASE e.kind \in {"ABORTED", "TERMINATED"}
    <3>1. b = [a EXCEPT !.event_no = k, !.state = "KILLED", !.over = TRUE]
      BY <2>2, <2>5
    <3>2. /\ b \in [state : {"FREE", "SUBMITTED", "RUNNING", "KILLED"}, event_no : Nat,
                    over : BOOLEAN, rm : BOOLEAN]
          /\ b.state = "KILLED" /\ b.over /\ b.event_no = k
      BY <1>1, <1>3, <3>1
    <3>3. \E i \in DOMAIN log : log[i].kind \in {"ABORTED", "TERMINATED"}
      BY <1>1, <2>5 DEF e
    <3>4. log[1].kind = "SUBMIT" => ~(k <= 1)
      BY <1>1, <2>3, <2>4, <2>5
    <3> QED
      BY <1>1, <3>2, <3>3, <3>4 DEF Read, b, e
  <2>6. CASE e.kind = "SHADOW_EXCEPTION"
    <3>1. b = [a EXCEPT !.event_no = k, !.state = "KILLED", !.over = TRUE, !.rm = TRUE]
      BY <2>2, <2>6
    <3>2. /\ b \in [state : {"FREE", "SUBMITTED", "RUNNING", "KILLED"}, event_no : Nat,
                    over : BOOLEAN, rm : BOOLEAN]
          /\ b.state = "KILLED" /\ b.over /\ b.event_no = k /\ b.rm
      BY <1>1, <1>3, <3>1
    <3>3. log[1].kind = "SUBMIT" => ~(k <= 1)
      BY <1>1, <2>3, <2>4, <2>6
    <3> QED
      BY <1>1, <3>2, <3>3 DEF Read, b, e
  <2>7. CASE e.kind = "EVICTED"
    <3>1. b = [a EXCEPT !.event_no = k, !.state = "KILLED", !.rm = TRUE]
      BY <2>2, <2>7
    <3>2. /\ b \in [state : {"FREE", "SUBMITTED", "RUNNING", "KILLED"}, event_no : Nat,
                    over : BOOLEAN, rm : BOOLEAN]
          /\ b.state = "KILLED" /\ b.over = a.over /\ b.event_no = k /\ b.rm
      BY <1>1, <1>3, <3>1
    <3>3. log[1].kind = "SUBMIT" => ~(k <= 1)
      BY <1>1, <2>3, <2>4, <2>7
    <3> QED
      BY <1>1, <1>5, <3>2, <3>3 DEF Read, b, e
  <2>8. CASE e.kind = "SUBMIT"
    <3>1. b = [a EXCEPT !.event_no = k, !.state = "SUBMITTED"]
      BY <2>2, <2>8
    <3>2. /\ b \in [state : {"FREE", "SUBMITTED", "RUNNING", "KILLED"}, event_no : Nat,
                    over : BOOLEAN, rm : BOOLEAN]
          /\ b.state = "SUBMITTED" /\ b.over = a.over /\ b.event_no = k
      BY <1>1, <1>3, <3>1
    <3> QED
      BY <1>1, <1>5, <3>2 DEF Read, b, e
  <2>9. CASE e.kind = "EXECUTE"
    <3>1. b = [a EXCEPT !.event_no = k, !.state = "RUNNING"]
      BY <2>2, <2>9
    <3>2. /\ b \in [state : {"FREE", "SUBMITTED", "RUNNING", "KILLED"}, event_no : Nat,
                    over : BOOLEAN, rm : BOOLEAN]
          /\ b.state = "RUNNING" /\ b.over = a.over /\ b.event_no = k
      BY <1>1, <1>3, <3>1
    <3>3. log[1].kind = "SUBMIT" => ~(k <= 1)
      BY <1>1, <2>3, <2>4, <2>9
    <3> QED
      BY <1>1, <1>5, <3>2, <3>3 DEF Read, b, e
  <2>10. CASE e.kind = "OTHER"
    <3>1. b = [a EXCEPT !.event_no = k]
      BY <2>2, <2>10
    <3>2. /\ b \in [state : {"FREE", "SUBMITTED", "RUNNING", "KILLED"}, event_no : Nat,
                    over : BOOLEAN, rm : BOOLEAN]
          /\ b.state = a.state /\ b.over = a.over /\ b.event_no = k /\ b.rm = a.rm
      BY <1>1, <1>3, <3>1
    <3>3. log[1].kind = "SUBMIT" => ~(k <= 1) /\ k - 1 >= 1
      BY <1>1, <2>3, <2>4, <2>10
    <3> QED
      BY <1>1, <1>3, <1>5, <3>2, <3>3 DEF Read, b, e
  <2> QED
    BY <1>2, <2>5, <2>6, <2>7, <2>8, <2>9, <2>10
<1> QED
  BY <1>4, <1>5

Seen(log, a) ==
  /\ a.state \in {"FREE", "SUBMITTED", "RUNNING", "KILLED"} /\ a.event_no \in Nat
  /\ log # <<>> /\ log[1].kind = "SUBMIT" =>
       /\ a.state = "FREE" => a.rm
       /\ a.state \in {"RUNNING", "KILLED"} => ~(a.event_no <= 1)
  /\ a.state = "KILLED" /\ ~a.rm =>
       \E i \in DOMAIN log : log[i].kind \in {"ABORTED", "TERMINATED"}

LEMMA ResuscicateSees ==
  ASSUME NEW log \in Seq(Event)
  PROVE  Seen(log, CheckLogFilesResuscicate(log))
<1> DEFINE base == [state |-> "FREE", event_no |-> 0, over |-> FALSE, rm |-> FALSE]
           n == Len(log)
<1>1. PICK u : ReadFrom(u, base, log) /\ FoldLeft(Resuscicated, base, log) = u[n]
  <2> HIDE DEF base
  <2> QED
    BY ReadUnrolls
<1> DEFINE N == {k \in 0 .. n : Read(log, k, u[k])}
<1>2. n \in Nat
  OBVIOUS
<1>3. 0 \in N
  <2>1. u[0] = base
    BY <1>1 DEF ReadFrom
  <2>2. Read(log, 0, base)
    BY DEF Read
  <2> QED
    BY <1>2, <2>1, <2>2
<1>4. ASSUME NEW k \in 0 .. n - 1, k \in N PROVE k + 1 \in N
  <2>1. k + 1 \in 1 .. n /\ (k + 1) - 1 = k /\ k + 1 \in 0 .. n
    BY <1>2
  <2>2. u[k + 1] = Resuscicated(u[k], log[k + 1])
    BY <1>1, <2>1 DEF ReadFrom
  <2>3. Read(log, k + 1, u[k + 1])
    BY <1>4, <2>1, <2>2, ReadOn
  <2> QED
    BY <2>1, <2>3
<1>5. n \in N
  <2>1. n \in 0 .. n
    BY <1>2
  <2> HIDE DEF N, n
  <2> QED
    BY <1>2, <1>3, <1>4, <2>1, UpTo
<1>6. Read(log, n, u[n])
  BY <1>5
<1> DEFINE end == u[n]
           seen == CheckLogFilesResuscicate(log)
<1>7. seen = IF end.state = "KILLED" /\ ~end.over THEN [end EXCEPT !.state = "FREE"] ELSE end
  <2> HIDE DEF end
  <2> QED
    BY <1>1 DEF CheckLogFilesResuscicate, end
<1>8. log # <<>> => n >= 1
  OBVIOUS
<1> HIDE DEF seen, end, N
<1>9. Read(log, n, end)
  BY <1>6 DEF end
<1> HIDE DEF n
<1>10. CASE end.state = "KILLED" /\ ~end.over
  <2>1. seen = [end EXCEPT !.state = "FREE"]
    BY <1>7, <1>10
  <2>2. seen.state = "FREE" /\ seen.rm = end.rm /\ seen.event_no = end.event_no
    BY <1>9, <2>1 DEF Read
  <2> QED
    BY <1>2, <1>8, <1>9, <1>10, <2>2 DEF Read, Seen, seen
<1>11. CASE ~(end.state = "KILLED" /\ ~end.over)
  <2>1. seen = end
    BY <1>7, <1>11
  <2> QED
    BY <1>2, <1>8, <1>9, <1>11, <2>1 DEF Read, Seen, seen
<1> QED
  BY <1>10, <1>11

(* What a worker finds in its waitfile: in one without a SYNC, the number it *)
(* expects, if it is there.                                                   *)
Found(E, waitfile, a) ==
  /\ a \in [number : Nat, toFlush : BOOLEAN, found : BOOLEAN, bad : BOOLEAN]
  /\ (\A k \in DOMAIN waitfile : ~waitfile[k].sync) =>
       /\ a.number = E /\ ~a.toFlush
       /\ a.found => \E k \in DOMAIN waitfile : waitfile[k].n = E

LEMMA LookedFinds ==
  ASSUME NEW p, p.expected_number \in Nat, NEW waitfile \in Seq(Entry)
  PROVE  Found(p.expected_number, waitfile, Looked(p, waitfile))
<1> DEFINE E == p.expected_number
           base == [number |-> E, toFlush |-> FALSE, found |-> FALSE, bad |-> FALSE]
           n == Len(waitfile)
<1>1. PICK u : LookFrom(u, base, waitfile) /\ FoldLeft(LookedAt, base, waitfile) = u[n]
  <2> HIDE DEF base
  <2> QED
    BY LookUnrolls
<1> DEFINE N == {k \in 0 .. n : Found(E, waitfile, u[k])}
<1>2. n \in Nat
  OBVIOUS
<1>3. 0 \in N
  <2>1. u[0] = base
    BY <1>1 DEF LookFrom
  <2>2. Found(E, waitfile, base)
    BY DEF Found
  <2> QED
    BY <1>2, <2>1, <2>2
<1>4. ASSUME NEW k \in 0 .. n - 1, k \in N PROVE k + 1 \in N
  <2>1. k + 1 \in 1 .. n /\ (k + 1) - 1 = k /\ k + 1 \in 0 .. n /\ k + 1 \in DOMAIN waitfile
    BY <1>2
  <2> DEFINE a == u[k]
             e == waitfile[k + 1]
  <2>2. u[k + 1] = LookedAt(a, e)
    BY <1>1, <2>1 DEF LookFrom
  <2>3. e \in Entry /\ e.n \in Nat /\ e.sync \in BOOLEAN
    <3>1. waitfile \in [1 .. n -> Entry] /\ k + 1 \in 1 .. n
      BY <2>1
    <3>2. waitfile[k + 1] \in Entry
      BY <3>1, Zenon
    <3> QED
      BY <3>2 DEF Entry
  <2>4. Found(E, waitfile, a)
    BY <1>4
  <2>5. \E m \in DOMAIN waitfile : waitfile[m].n = e.n /\ waitfile[m].sync = e.sync
    BY <2>1
  <2> HIDE DEF a, e, N, n, E
  <2>6. CASE a.found \/ a.bad
    <3>1. LookedAt(a, e) = a
      BY <2>6 DEF LookedAt
    <3> QED
      BY <2>1, <2>2, <2>4, <3>1 DEF N
  <2>7. CASE ~(a.found \/ a.bad) /\ e.sync
    <3>1. LookedAt(a, e) = [a EXCEPT !.number = e.n, !.toFlush = TRUE]
      BY <2>7 DEF LookedAt
    <3>2. Found(E, waitfile, LookedAt(a, e))
      BY <2>3, <2>4, <2>5, <2>7, <3>1 DEF Found
    <3> QED
      BY <2>1, <2>2, <3>2 DEF N
  <2>8. CASE ~(a.found \/ a.bad) /\ ~e.sync
    <3>1. LookedAt(a, e) = [a EXCEPT !.found = (e.n = a.number), !.bad = (e.n > a.number)]
      BY <2>8 DEF LookedAt
    <3>2. a \in [number : Nat, toFlush : BOOLEAN, found : BOOLEAN, bad : BOOLEAN]
      BY <2>4 DEF Found
    <3> DEFINE r == LookedAt(a, e)
    <3>3. a.number \in Nat
      BY <3>2
    <3>4. (e.n > a.number) \in BOOLEAN /\ (e.n = a.number) \in BOOLEAN
      BY <2>3, <3>3
    <3>5. /\ r.number = a.number /\ r.toFlush = a.toFlush
          /\ r.found = (e.n = a.number) /\ r.bad = (e.n > a.number)
          /\ r = [number |-> r.number, toFlush |-> r.toFlush, found |-> r.found, bad |-> r.bad]
      BY <3>1, <3>2
    <3> HIDE DEF r
    <3>6. r.found => e.n = a.number
      BY <3>5, Zenon
    <3>7. r.toFlush \in BOOLEAN /\ r.found \in BOOLEAN /\ r.bad \in BOOLEAN
      BY <3>2, <3>4, <3>5, Zenon
    <3>8. r \in [number : Nat, toFlush : BOOLEAN, found : BOOLEAN, bad : BOOLEAN]
      BY <3>3, <3>5, <3>7
    <3>9. Found(E, waitfile, r)
      BY <2>3, <2>4, <2>5, <3>5, <3>6, <3>8 DEF Found
    <3> QED
      BY <2>1, <2>2, <3>9 DEF N, r
  <2> QED
    BY <2>6, <2>7, <2>8
<1>5. n \in N
  <2>1. n \in 0 .. n
    BY <1>2
  <2> HIDE DEF N, n
  <2> QED
    BY <1>2, <1>3, <1>4, <2>1, UpTo
<1>6. Found(E, waitfile, u[n])
  BY <1>5
<1>7. Looked(p, waitfile) = FoldLeft(LookedAt, base, waitfile)
  BY Zenon DEF Looked
<1> QED
  BY <1>1, <1>6, <1>7

-----------------------------------------------------------------------------
(* What of a state the invariant is about, and what a step may leave. *)

LEMMA UpWorks ==
  ASSUME NEW s, Typed(s), s.rc # NULL
  PROVE  Works(s)
BY DEF Typed, Works

LEMMA ZeroIsClass ==
  ASSUME NEW c \in Classes
  PROVE  0 \in Classes
BY ClassesAre DEF Classes

LEMMA WorkersAre ==
  ASSUME NEW s, Works(s)
  PROVE  /\ s.rc = [fileWorkers |-> s.rc.fileWorkers, hostadd_reqs |-> s.rc.hostadd_reqs,
                    resuming |-> s.rc.resuming, synced |-> s.rc.synced,
                    looping |-> s.rc.looping]
         /\ s.rc.fileWorkers \in [Slot -> FileWorker] /\ s.rc.hostadd_reqs \in [Classes -> Nat]
         /\ s.rc.resuming \subseteq Slot /\ s.rc.synced \in BOOLEAN /\ s.rc.looping \in BOOLEAN
BY DEF Works, MemoryType

LEMMA WorkerIs ==
  ASSUME NEW w \in FileWorker
  PROVE  /\ w = [state |-> w.state, served |-> w.served, event_no |-> w.event_no,
                 counter |-> w.counter, worker_counter |-> w.worker_counter,
                 job |-> w.job, exec_class |-> w.exec_class]
         /\ w.state \in FileState /\ w.served \in FileState \cup {"NONE"}
         /\ w.event_no \in Nat /\ w.counter \in Nat /\ w.worker_counter \in Nat
         /\ w.job \in Nat /\ w.exec_class \in Classes
BY DEF FileWorker

LEMMA JobIs ==
  ASSUME NEW J, JobsType(J), NEW j \in DOMAIN J
  PROVE  /\ J[j] = [slot |-> J[j].slot, exec_class |-> J[j].exec_class,
                    removed |-> J[j].removed, phase |-> J[j].phase,
                    expected_number |-> J[j].expected_number,
                    master_expected_number |-> J[j].master_expected_number]
         /\ J[j].slot \in Slot /\ J[j].exec_class \in Classes /\ J[j].removed \in BOOLEAN
         /\ J[j].phase \in {"idle", "starting", "waiting_twice", "waiting", "ready"}
         /\ J[j].expected_number \in Nat /\ J[j].master_expected_number \in Nat
         /\ j \in Nat /\ j # NoJob
<1>1. J[j] \in Job /\ j \in Nat /\ j # NoJob
  BY DEF JobsType
<1> QED
  BY <1>1 DEF Job

(* A slot where nothing that its talk is about has changed. *)
LEMMA TalksSame ==
  ASSUME NEW s, NEW t, NEW ws, NEW vs, NEW i, TalksIn(s, ws, i), vs[i] = ws[i],
         t.rc.fileWorkers[i] = s.rc.fileWorkers[i],
         t.files.worker_waitfile[i] = s.files.worker_waitfile[i],
         t.files.master_waitfile[i] = s.files.master_waitfile[i],
         t.files.worker_input[i] = s.files.worker_input[i],
         t.files.worker_output[i] = s.files.worker_output[i]
  PROVE  TalksIn(t, vs, i)
<1>1. Talks(s.rc.fileWorkers[i], ws[i], s.files.worker_waitfile[i],
            s.files.master_waitfile[i], s.files.worker_input[i], s.files.worker_output[i])
  BY Zenon DEF TalksIn
<1>2. Talks(t.rc.fileWorkers[i], vs[i], t.files.worker_waitfile[i],
            t.files.master_waitfile[i], t.files.worker_input[i], t.files.worker_output[i])
  BY <1>1
<1> QED
  BY <1>2, Zenon DEF TalksIn

-----------------------------------------------------------------------------
(* WriteRMstate *)

Jot(w) == IF w.state = "FREE" THEN [job |-> NoJob, exec_class |-> 0]
          ELSE [job |-> w.job, exec_class |-> w.exec_class]

LEMMA WriteIs ==
  ASSUME NEW s, Typed(s), Works(s), NEW t, t = WriteRMstate(s)
  PROVE  /\ t.rc = s.rc /\ t.jobs = s.jobs /\ t.lost = s.lost
         /\ t.files.log = s.files.log
         /\ t.files.worker_waitfile = s.files.worker_waitfile
         /\ t.files.master_waitfile = s.files.master_waitfile
         /\ t.files.worker_input = s.files.worker_input
         /\ t.files.worker_output = s.files.worker_output
         /\ \A i \in Slot : t.files.moment_worker_file[i] = Jot(s.rc.fileWorkers[i])
         /\ Typed(t) /\ Works(t)
<1> DEFINE m == [i \in Slot |-> Jot(s.rc.fileWorkers[i])]
<1>1. s = [rc |-> s.rc, files |-> s.files, jobs |-> s.jobs, lost |-> s.lost]
      /\ FilesType(s.files)
  BY DEF Typed
<1>2. s.files = [log |-> s.files.log, worker_waitfile |-> s.files.worker_waitfile,
                 master_waitfile |-> s.files.master_waitfile,
                 worker_input |-> s.files.worker_input,
                 worker_output |-> s.files.worker_output,
                 moment_worker_file |-> s.files.moment_worker_file]
  BY <1>1, Zenon DEF FilesType
<1>3. t = [s EXCEPT !.files.moment_worker_file = m]
  BY Zenon DEF WriteRMstate, Jot
<1> HIDE DEF m
<1>4. /\ t.rc = s.rc /\ t.jobs = s.jobs /\ t.lost = s.lost
      /\ t.files.log = s.files.log
      /\ t.files.worker_waitfile = s.files.worker_waitfile
      /\ t.files.master_waitfile = s.files.master_waitfile
      /\ t.files.worker_input = s.files.worker_input
      /\ t.files.worker_output = s.files.worker_output
      /\ t.files.moment_worker_file = m
      /\ t = [rc |-> t.rc, files |-> t.files, jobs |-> t.jobs, lost |-> t.lost]
      /\ t.files = [log |-> t.files.log, worker_waitfile |-> t.files.worker_waitfile,
                 master_waitfile |-> t.files.master_waitfile,
                 worker_input |-> t.files.worker_input,
                 worker_output |-> t.files.worker_output,
                 moment_worker_file |-> t.files.moment_worker_file]
  BY <1>1, <1>2, <1>3
<1>5. \A i \in Slot : m[i] = Jot(s.rc.fileWorkers[i])
  BY DEF m
<1>6. ASSUME NEW i \in Slot
      PROVE  Jot(s.rc.fileWorkers[i]) \in [job : Nat, exec_class : Classes]
  <2>1. s.rc.fileWorkers[i] \in FileWorker
    BY WorkersAre
  <2>2. s.rc.fileWorkers[i].job \in Nat /\ s.rc.fileWorkers[i].exec_class \in Classes
    BY <2>1, WorkerIs
  <2>3. 0 \in Classes
    BY <2>2, ZeroIsClass
  <2> QED
    BY <2>2, <2>3 DEF Jot, NoJob
<1>7. m \in [Slot -> [job : Nat, exec_class : Classes]]
  BY <1>6 DEF m
<1>8. FilesType(t.files)
  BY <1>1, <1>4, <1>7, Zenon DEF FilesType
<1>9. Typed(t) /\ Works(t)
  BY <1>4, <1>8, Zenon DEF Typed, Works
<1> QED
  BY <1>4, <1>5, <1>9

(* What makes a state fit to be written. *)
Ready(s) ==
  /\ \A i \in Slot : HasLog(Jot(s.rc.fileWorkers[i]), s.files.log[i])
  /\ ~LateRemoval =>
       /\ \A i \in Slot : MemoOwn(Jot(s.rc.fileWorkers[i]), s.files.log[i])
       /\ \A j \in DOMAIN s.jobs : JobOwn(j, s.jobs[j], Jot(WorkerOf(s, j)))
       /\ \A j \in DOMAIN s.jobs : Kept(j, s.jobs[j], WorkerOf(s, j))

LEMMA SoundIsReady ==
  ASSUME NEW s, Sound(s), Works(s)
  PROVE  Ready(s)
<1>1. \A i \in Slot : /\ HasLog(s.files.moment_worker_file[i], s.files.log[i])
                      /\ InFile(s.rc.fileWorkers[i], s.files.moment_worker_file[i])
  BY DEF Sound, Filed
<1>2. ASSUME NEW i \in Slot PROVE HasLog(Jot(s.rc.fileWorkers[i]), s.files.log[i])
  BY <1>1 DEF HasLog, InFile, Jot
<1>3. ASSUME ~LateRemoval
      PROVE  /\ \A i \in Slot : MemoOwn(Jot(s.rc.fileWorkers[i]), s.files.log[i])
             /\ \A j \in DOMAIN s.jobs : JobOwn(j, s.jobs[j], Jot(WorkerOf(s, j)))
             /\ \A j \in DOMAIN s.jobs : Kept(j, s.jobs[j], WorkerOf(s, j))
  <2>1. /\ \A i \in Slot : MemoOwn(s.files.moment_worker_file[i], s.files.log[i])
        /\ \A j \in DOMAIN s.jobs : JobOwn(j, s.jobs[j], Memo(s, j))
        /\ \A j \in DOMAIN s.jobs : Kept(j, s.jobs[j], WorkerOf(s, j))
    BY <1>3, Zenon DEF Sound, Owned
  <2>2. ASSUME NEW i \in Slot PROVE MemoOwn(Jot(s.rc.fileWorkers[i]), s.files.log[i])
    BY <1>1, <2>1 DEF MemoOwn, InFile, Jot
  <2>3. ASSUME NEW j \in DOMAIN s.jobs PROVE JobOwn(j, s.jobs[j], Jot(WorkerOf(s, j)))
    <3>1. s.jobs[j].slot \in Slot
      BY JobIs DEF Sound, Typed
    <3>2. InFile(WorkerOf(s, j), Memo(s, j))
      BY <1>1, <3>1, Zenon DEF WorkerOf, Memo
    <3>3. JobOwn(j, s.jobs[j], Memo(s, j)) /\ Kept(j, s.jobs[j], WorkerOf(s, j))
      BY <2>1
    <3> QED
      BY <3>2, <3>3 DEF JobOwn, Kept, InFile, Jot
  <2> QED
    BY <2>1, <2>2, <2>3
<1> QED
  BY <1>2, <1>3 DEF Ready

LEMMA WriteKeeps ==
  ASSUME NEW s, Typed(s), Works(s), Logs(s), Slots(s), Account(s), Ready(s),
         NEW t, t = WriteRMstate(s)
  PROVE  Sound(t) /\ Works(t)
<1>1. /\ t.rc = s.rc /\ t.jobs = s.jobs /\ t.lost = s.lost /\ t.files.log = s.files.log
      /\ \A i \in Slot : t.files.moment_worker_file[i] = Jot(s.rc.fileWorkers[i])
      /\ Typed(t) /\ Works(t)
  BY WriteIs, Zenon
<1>2. Logs(t) /\ Slots(t) /\ Account(t)
  BY <1>1, Zenon DEF Logs, Slots, Account
<1>3. Filed(t)
  <2>1. \A i \in Slot : HasLog(t.files.moment_worker_file[i], t.files.log[i])
    BY <1>1 DEF Ready
  <2>2. ASSUME NEW i \in Slot
        PROVE  InFile(t.rc.fileWorkers[i], t.files.moment_worker_file[i])
    <3>1. InFile(s.rc.fileWorkers[i], Jot(s.rc.fileWorkers[i]))
      BY DEF InFile, Jot
    <3> QED
      BY <1>1, <3>1, Zenon
  <2> QED
    BY <2>1, <2>2 DEF Filed
<1>4. Owned(t)
  <2>1. SUFFICES ASSUME ~LateRemoval
                 PROVE  /\ \A i \in Slot :
                             MemoOwn(t.files.moment_worker_file[i], t.files.log[i])
                        /\ \A j \in DOMAIN t.jobs : JobOwn(j, t.jobs[j], Memo(t, j))
                        /\ \A j \in DOMAIN t.jobs : Kept(j, t.jobs[j], WorkerOf(t, j))
    BY Zenon DEF Owned
  <2>2. /\ \A i \in Slot : MemoOwn(Jot(s.rc.fileWorkers[i]), s.files.log[i])
        /\ \A j \in DOMAIN s.jobs : JobOwn(j, s.jobs[j], Jot(WorkerOf(s, j)))
        /\ \A j \in DOMAIN s.jobs : Kept(j, s.jobs[j], WorkerOf(s, j))
    BY <2>1, Zenon DEF Ready
  <2>3. \A i \in Slot : MemoOwn(t.files.moment_worker_file[i], t.files.log[i])
    BY <1>1, <2>2
  <2>4. \A j \in DOMAIN t.jobs : Kept(j, t.jobs[j], WorkerOf(t, j))
    BY <1>1, <2>2, Zenon DEF WorkerOf
  <2>5. ASSUME NEW j \in DOMAIN t.jobs PROVE JobOwn(j, t.jobs[j], Memo(t, j))
    <3>1. t.jobs[j].slot \in Slot
      BY <1>1, JobIs DEF Typed
    <3>2. Memo(t, j) = Jot(WorkerOf(s, j))
      BY <1>1, <3>1, Zenon DEF Memo, WorkerOf
    <3> QED
      BY <1>1, <2>2, <3>2
  <2> QED
    BY <2>3, <2>4, <2>5
<1> QED
  BY <1>1, <1>2, <1>3, <1>4 DEF Sound

LEMMA WriteIsGood ==
  ASSUME NEW s, NEW ws, NEW talks, Works(s), Good(s, ws, talks), NEW t, t = WriteRMstate(s)
  PROVE  Good(t, ws, talks) /\ Works(t)
<1>1. /\ t.rc = s.rc /\ t.jobs = s.jobs /\ t.lost = s.lost /\ t.files.log = s.files.log
      /\ t.files.worker_waitfile = s.files.worker_waitfile
      /\ t.files.master_waitfile = s.files.master_waitfile
      /\ t.files.worker_input = s.files.worker_input
      /\ t.files.worker_output = s.files.worker_output
  BY WriteIs, Zenon DEF Good, Sound
<1>2. Sound(t) /\ Works(t)
  <2>1. Typed(s) /\ Logs(s) /\ Slots(s) /\ Account(s) /\ Ready(s)
    BY SoundIsReady DEF Good, Sound
  <2> QED
    BY <2>1, WriteKeeps, Zenon
<1>3. Reported(t, ws)
  BY <1>1, Zenon DEF Good, Reported, Works
<1>4. Talk(s, ws) => Talk(t, ws)
  BY <1>1, Zenon DEF Talk, TalksIn, Works
<1> QED
  BY <1>2, <1>3, <1>4 DEF Good

-----------------------------------------------------------------------------
(* do_spawn *)

JobFor(s, ids, refused) ==
  [i \in ids |-> IF refused THEN NoJob ELSE LastJob(s) + Place(ids, i)]

(* Condor's queue after it. *)
LEMMA JobsForAre ==
  ASSUME NEW s, Typed(s), Works(s), NEW ids \in SUBSET Slot, NEW refused \in BOOLEAN
  PROVE  /\ JobFor(s, ids, refused) \in [ids -> Nat]
         /\ refused => \A i \in ids : JobFor(s, ids, refused)[i] = NoJob
         /\ ~refused => \A i \in ids : JobFor(s, ids, refused)[i] > LastJob(s)
         /\ ~refused => \A i, k \in ids :
              JobFor(s, ids, refused)[i] = JobFor(s, ids, refused)[k] => i = k
<1>1. LastJob(s) \in Nat
  BY LastJobIsLast
<1>2. /\ \A i \in ids : Place(ids, i) \in Nat /\ Place(ids, i) >= 1
      /\ \A i, k \in ids : i < k => Place(ids, i) < Place(ids, k)
  BY PlacesAre
<1>3. JobFor(s, ids, refused) \in [ids -> Nat]
  BY <1>1, <1>2 DEF JobFor, NoJob
<1>4. ASSUME ~refused
      PROVE  /\ \A i \in ids : JobFor(s, ids, refused)[i] = LastJob(s) + Place(ids, i)
             /\ \A i \in ids : JobFor(s, ids, refused)[i] > LastJob(s)
  BY <1>1, <1>2, <1>4 DEF JobFor
<1>5. ASSUME ~refused, NEW i \in ids, NEW k \in ids,
             JobFor(s, ids, refused)[i] = JobFor(s, ids, refused)[k]
      PROVE  i = k
  <2>1. Place(ids, i) = Place(ids, k)
    BY <1>1, <1>2, <1>4, <1>5
  <2>2. i \in Nat /\ k \in Nat
    BY SlotsAre
  <2>3. ~(i < k) /\ ~(k < i)
    BY <1>2, <2>1
  <2> QED
    BY <2>2, <2>3
<1>6. refused => \A i \in ids : JobFor(s, ids, refused)[i] = NoJob
  BY DEF JobFor
<1> QED
  BY <1>3, <1>4, <1>5, <1>6

(* The jobs that were there and those that are new. *)
OldJob(s, t, ids, j) ==
  /\ j \in DOMAIN s.jobs /\ t.jobs[j] = s.jobs[j]
  /\ ~(s.jobs[j].removed /\ ~LateRemoval /\ s.jobs[j].slot \in ids)
NewJob(s, t, ids, j) ==
  /\ j > LastJob(s) /\ t.jobs[j].slot \in ids
  /\ t.rc.fileWorkers[t.jobs[j].slot].job = j
  /\ t.jobs[j].phase = "idle" /\ t.jobs[j].removed = FALSE

Queued(s, t, ids, refused) ==
  /\ JobsType(t.jobs)
  /\ \A j \in DOMAIN t.jobs : OldJob(s, t, ids, j) \/ (~refused /\ NewJob(s, t, ids, j))

Put(s, t, c, ids, refused, i) ==
  LET w == t.rc.fileWorkers[i]
  IN  IF i \in ids
      THEN /\ w.state = "SUBMITTED" /\ w.event_no = 1 /\ w.counter = 0 /\ w.worker_counter = 0
           /\ w.job = JobFor(s, ids, refused)[i] /\ w.exec_class = c
           /\ t.files.log[i] = IF refused THEN <<>> ELSE <<[job |-> w.job, kind |-> "SUBMIT"]>>
           /\ t.files.worker_waitfile[i] = <<>> /\ t.files.master_waitfile[i] = <<>>
      ELSE /\ w = s.rc.fileWorkers[i]
           /\ t.files.log[i] = s.files.log[i]
           /\ t.files.worker_waitfile[i] = s.files.worker_waitfile[i]
           /\ t.files.master_waitfile[i] = s.files.master_waitfile[i]

Puts(s, t, c, ids, refused) ==
  /\ t.rc.resuming = s.rc.resuming /\ t.rc.synced = s.rc.synced
  /\ t.rc.looping = s.rc.looping
  /\ t.files.worker_input = s.files.worker_input
  /\ t.files.worker_output = s.files.worker_output
  /\ \A i \in Slot : Put(s, t, c, ids, refused, i)
  /\ \A k \in Classes :
       /\ t.rc.hostadd_reqs[k] = s.rc.hostadd_reqs[k] + IF k = c THEN Cardinality(ids) ELSE 0
       /\ t.lost[k] = s.lost[k] + IF k = c /\ refused THEN Cardinality(ids) ELSE 0

LEMMA SubmittedIs ==
  ASSUME NEW s, Typed(s), Works(s), NEW c \in Classes, NEW ids \in SUBSET Slot,
         NEW refused \in BOOLEAN, NEW t, t = Submitted(s, c, ids, refused)
  PROVE  Typed(t) /\ Works(t) /\ Puts(s, t, c, ids, refused) /\ Queued(s, t, ids, refused)
<1> DEFINE jobOf == JobFor(s, ids, refused)
           n == Cardinality(ids)
           over == {j \in DOMAIN s.jobs :
                      s.jobs[j].removed /\ ~LateRemoval /\ s.jobs[j].slot \in ids}
           queued == [j \in Range(jobOf) \ {NoJob} |->
                        [slot |-> CHOOSE i \in ids : jobOf[i] = j, exec_class |-> c,
                         removed |-> FALSE, phase |-> "idle", expected_number |-> 0,
                         master_expected_number |-> 0]]
           J == With(Without(s.jobs, over), queued)
           fw == [i \in Slot |->
                    IF i \in ids
                    THEN [s.rc.fileWorkers[i] EXCEPT
                            !.state = "SUBMITTED", !.event_no = 1, !.counter = 0,
                            !.worker_counter = 0, !.job = jobOf[i], !.exec_class = c]
                    ELSE s.rc.fileWorkers[i]]
           log == [i \in Slot |-> IF i \notin ids THEN s.files.log[i]
                                  ELSE IF refused THEN <<>>
                                  ELSE <<[job |-> jobOf[i], kind |-> "SUBMIT"]>>]
           ww == [i \in Slot |-> IF i \in ids THEN <<>> ELSE s.files.worker_waitfile[i]]
           mw == [i \in Slot |-> IF i \in ids THEN <<>> ELSE s.files.master_waitfile[i]]
           more == IF refused THEN n ELSE 0
<1>1. s = [rc |-> s.rc, files |-> s.files, jobs |-> s.jobs, lost |-> s.lost]
      /\ FilesType(s.files) /\ s.lost \in [Classes -> Nat]
  BY DEF Typed
<1>2. s.files = [log |-> s.files.log, worker_waitfile |-> s.files.worker_waitfile,
                 master_waitfile |-> s.files.master_waitfile,
                 worker_input |-> s.files.worker_input,
                 worker_output |-> s.files.worker_output,
                 moment_worker_file |-> s.files.moment_worker_file]
  BY <1>1, Zenon DEF FilesType
<1>3. /\ s.rc = [fileWorkers |-> s.rc.fileWorkers, hostadd_reqs |-> s.rc.hostadd_reqs,
                 resuming |-> s.rc.resuming, synced |-> s.rc.synced,
                 looping |-> s.rc.looping]
      /\ s.rc.fileWorkers \in [Slot -> FileWorker] /\ s.rc.hostadd_reqs \in [Classes -> Nat]
      /\ s.rc.resuming \subseteq Slot /\ s.rc.synced \in BOOLEAN /\ s.rc.looping \in BOOLEAN
  BY WorkersAre
<1>4. t = [s EXCEPT
         !.jobs = J,
         !.rc.fileWorkers = fw,
         !.rc.hostadd_reqs[c] = @ + n,
         !.lost[c] = @ + more,
         !.files.worker_waitfile = ww,
         !.files.master_waitfile = mw,
         !.files.log = log]
  BY <1>1, <1>2 DEF Submitted, JobFor
<1>5. n \in Nat
  BY PartOfSlots
<1>6. /\ jobOf \in [ids -> Nat]
      /\ refused => \A i \in ids : jobOf[i] = NoJob
      /\ ~refused => \A i \in ids : jobOf[i] > LastJob(s)
      /\ ~refused => \A i, k \in ids : jobOf[i] = jobOf[k] => i = k
  BY JobsForAre
<1>7. more \in Nat /\ (refused => more = n) /\ (~refused => more = 0)
  BY <1>5
<1> HIDE DEF n, more
<1> DEFINE reqs == [s.rc.hostadd_reqs EXCEPT ![c] = s.rc.hostadd_reqs[c] + n]
           lst == [s.lost EXCEPT ![c] = s.lost[c] + more]
<1>8. /\ reqs \in [Classes -> Nat] /\ lst \in [Classes -> Nat]
      /\ \A k \in Classes : reqs[k] = s.rc.hostadd_reqs[k] + IF k = c THEN n ELSE 0
      /\ \A k \in Classes : lst[k] = s.lost[k] + IF k = c /\ refused THEN n ELSE 0
  BY <1>1, <1>3, <1>5, <1>7
<1>9. /\ fw = [i \in Slot |-> fw[i]] /\ log = [i \in Slot |-> log[i]]
      /\ ww = [i \in Slot |-> ww[i]] /\ mw = [i \in Slot |-> mw[i]]
      /\ \A i \in Slot \ ids : /\ fw[i] = s.rc.fileWorkers[i] /\ log[i] = s.files.log[i]
                               /\ ww[i] = s.files.worker_waitfile[i]
                               /\ mw[i] = s.files.master_waitfile[i]
      /\ \A i \in ids : /\ fw[i] = [s.rc.fileWorkers[i] EXCEPT
                            !.state = "SUBMITTED", !.event_no = 1, !.counter = 0,
                            !.worker_counter = 0, !.job = jobOf[i], !.exec_class = c]
                        /\ log[i] = IF refused THEN <<>>
                                    ELSE <<[job |-> jobOf[i], kind |-> "SUBMIT"]>>
                        /\ ww[i] = <<>> /\ mw[i] = <<>>
  BY Zenon
<1>10. /\ J = With(Without(s.jobs, over), queued)
       /\ DOMAIN queued = Range(jobOf) \ {NoJob}
       /\ \A j \in Range(jobOf) \ {NoJob} :
            queued[j] = [slot |-> CHOOSE i \in ids : jobOf[i] = j, exec_class |-> c,
                         removed |-> FALSE, phase |-> "idle", expected_number |-> 0,
                         master_expected_number |-> 0]
  OBVIOUS
<1>11. ASSUME NEW j \in Range(jobOf) \ {NoJob}
       PROVE  ~refused /\ \E i \in ids : j = jobOf[i] /\ (CHOOSE k \in ids : jobOf[k] = j) = i
  <2>1. PICK i \in ids : j = jobOf[i]
    BY <1>6, <1>11 DEF Range
  <2>2. ~refused
    BY <1>6, <1>11, <2>1
  <2>3. \A k \in ids : jobOf[k] = j => k = i
    BY <1>6, <2>1, <2>2
  <2> QED
    BY <2>1, <2>2, <2>3
<1> HIDE DEF jobOf, queued, J, fw, log, ww, mw, reqs, lst
<1>12. /\ t.rc = [s.rc EXCEPT !.fileWorkers = fw, !.hostadd_reqs = reqs]
       /\ t.files = [s.files EXCEPT !.worker_waitfile = ww, !.master_waitfile = mw, !.log = log]
       /\ t.jobs = J /\ t.lost = lst
       /\ t = [rc |-> t.rc, files |-> t.files, jobs |-> t.jobs, lost |-> t.lost]
  BY <1>1, <1>2, <1>3, <1>4 DEF reqs, lst
<1>13. /\ t.rc.fileWorkers = fw /\ t.rc.hostadd_reqs = reqs
       /\ t.rc.resuming = s.rc.resuming /\ t.rc.synced = s.rc.synced
       /\ t.rc.looping = s.rc.looping
       /\ t.rc = [fileWorkers |-> fw, hostadd_reqs |-> reqs, resuming |-> s.rc.resuming,
                  synced |-> s.rc.synced, looping |-> s.rc.looping]
  BY <1>3, <1>12
<1>14. /\ t.files.worker_waitfile = ww /\ t.files.master_waitfile = mw /\ t.files.log = log
       /\ t.files.worker_input = s.files.worker_input
       /\ t.files.worker_output = s.files.worker_output
       /\ t.files.moment_worker_file = s.files.moment_worker_file
       /\ t.files = [log |-> t.files.log, worker_waitfile |-> t.files.worker_waitfile,
                 master_waitfile |-> t.files.master_waitfile,
                 worker_input |-> t.files.worker_input,
                 worker_output |-> t.files.worker_output,
                 moment_worker_file |-> t.files.moment_worker_file]
  BY <1>2, <1>12
<1>15. ASSUME NEW i \in ids
       PROVE  /\ fw[i] \in FileWorker
              /\ fw[i].state = "SUBMITTED" /\ fw[i].event_no = 1 /\ fw[i].counter = 0
              /\ fw[i].worker_counter = 0 /\ fw[i].job = jobOf[i] /\ fw[i].exec_class = c
  <2>1. s.rc.fileWorkers[i] \in FileWorker /\ jobOf[i] \in Nat
    BY <1>3, <1>6
  <2>2. fw[i] = [s.rc.fileWorkers[i] EXCEPT
                   !.state = "SUBMITTED", !.event_no = 1, !.counter = 0,
                   !.worker_counter = 0, !.job = jobOf[i], !.exec_class = c]
    BY <1>9
  <2> DEFINE w == s.rc.fileWorkers[i]
  <2>3. /\ w = [state |-> w.state, served |-> w.served, event_no |-> w.event_no,
                counter |-> w.counter, worker_counter |-> w.worker_counter,
                job |-> w.job, exec_class |-> w.exec_class]
        /\ w.served \in FileState \cup {"NONE"}
    BY <2>1, WorkerIs
  <2> HIDE DEF w
  <2>4. fw[i] = [state |-> "SUBMITTED", served |-> w.served, event_no |-> 1,
                 counter |-> 0, worker_counter |-> 0, job |-> jobOf[i], exec_class |-> c]
    BY <2>2, <2>3 DEF w
  <2>5. fw[i] \in FileWorker
    BY <2>1, <2>3, <2>4 DEF FileWorker, FileState
  <2> QED
    BY <2>4, <2>5
<1>16. Works(t)
  <2>1. \A i \in Slot : fw[i] \in FileWorker
    BY <1>3, <1>9, <1>15
  <2>2. fw \in [Slot -> FileWorker]
    BY <1>9, <2>1
  <2> QED
    BY <1>3, <1>8, <1>13, <2>2 DEF Works, MemoryType
<1>17. FilesType(t.files)
  <2>1. ASSUME NEW i \in Slot PROVE log[i] \in Seq(Event)
    <3>1. CASE i \in ids /\ ~refused
      <4>1. [job |-> jobOf[i], kind |-> "SUBMIT"] \in Event
        BY <1>6, <3>1 DEF Event
      <4>2. log[i] = <<[job |-> jobOf[i], kind |-> "SUBMIT"]>>
        BY <1>9, <3>1
      <4> QED
        BY <4>1, <4>2
    <3>2. CASE i \in ids /\ refused
      <4>1. log[i] = <<>>
        BY <1>9, <3>2
      <4> QED
        BY <4>1
    <3>3. CASE i \notin ids
      <4>1. log[i] = s.files.log[i]
        BY <1>9, <3>3
      <4> QED
        BY <1>1, <4>1, Zenon DEF FilesType
    <3> QED
      BY <3>1, <3>2, <3>3
  <2>2. <<>> \in Seq(Entry)
    OBVIOUS
  <2>3. \A i \in Slot : ww[i] \in Seq(Entry) /\ mw[i] \in Seq(Entry)
    BY <1>1, <1>9, <2>2 DEF FilesType
  <2>4. log \in [Slot -> Seq(Event)] /\ ww \in [Slot -> Seq(Entry)] /\ mw \in [Slot -> Seq(Entry)]
    BY <1>9, <2>1, <2>3
  <2> QED
    BY <1>1, <1>14, <2>4, Zenon DEF FilesType
<1>18. /\ DOMAIN J = (DOMAIN s.jobs \ over) \cup (Range(jobOf) \ {NoJob})
       /\ \A j \in Range(jobOf) \ {NoJob} : J[j] = queued[j]
       /\ \A j \in DOMAIN s.jobs \ over : j \notin Range(jobOf) => J[j] = s.jobs[j]
       /\ J = [j \in DOMAIN J |-> J[j]]
  <2>1. /\ DOMAIN Without(s.jobs, over) = DOMAIN s.jobs \ over
        /\ \A j \in DOMAIN s.jobs \ over : Without(s.jobs, over)[j] = s.jobs[j]
    BY DEF Without, Restrict
  <2>2. NoJob \notin DOMAIN s.jobs
    BY DEF Typed, JobsType
  <2> HIDE DEF over
  <2> QED
    BY <1>10, <2>1, <2>2 DEF With
<1>19. \A j \in DOMAIN s.jobs : j <= LastJob(s) /\ j \in Nat
  BY LastJobIsLast DEF Typed, JobsType
<1>20. LastJob(s) \in Nat
  BY LastJobIsLast
<1>21. ASSUME NEW j \in Range(jobOf) \ {NoJob}
       PROVE  /\ ~refused /\ NewJob(s, t, ids, j)
              /\ J[j] \in Job /\ j \in Nat /\ j \notin DOMAIN s.jobs
  <2>1. PICK i \in ids : j = jobOf[i] /\ (CHOOSE k \in ids : jobOf[k] = j) = i
    BY <1>11
  <2>2. ~refused
    BY <1>11
  <2>3. J[j] = [slot |-> i, exec_class |-> c,
                removed |-> FALSE, phase |-> "idle", expected_number |-> 0,
                master_expected_number |-> 0]
    <3>1. J[j] = queued[j]
      BY <1>18
    <3>2. queued[j] = [slot |-> CHOOSE k \in ids : jobOf[k] = j, exec_class |-> c,
                       removed |-> FALSE, phase |-> "idle", expected_number |-> 0,
                       master_expected_number |-> 0]
      BY <1>10, Zenon
    <3> QED
      BY <3>1, <3>2, <2>1, Zenon
  <2>4. j > LastJob(s) /\ j \in Nat
    BY <1>6, <2>1, <2>2
  <2>5. j \notin DOMAIN s.jobs
    BY <1>19, <1>20, <2>4
  <2>6. J[j] \in Job
    BY <2>3 DEF Job
  <2>7. t.rc.fileWorkers[i].job = j
    BY <1>13, <1>15, <2>1
  <2>8. t.jobs[j] = J[j]
    BY <1>12
  <2>9. NewJob(s, t, ids, j)
    BY <2>3, <2>4, <2>7, <2>8 DEF NewJob
  <2> QED
    BY <2>2, <2>4, <2>5, <2>6, <2>9
<1>22. ASSUME NEW j \in DOMAIN s.jobs \ over
       PROVE  J[j] = s.jobs[j] /\ J[j] \in Job /\ OldJob(s, t, ids, j)
  <2>1. j # NoJob
    BY DEF Typed, JobsType
  <2>2. J[j] = s.jobs[j]
    BY <1>18, <1>21, <2>1
  <2>3. s.jobs[j] \in Job
    BY DEF Typed, JobsType
  <2> QED
    BY <1>12, <2>2, <2>3, Zenon DEF OldJob
<1>23. JobsType(t.jobs)
  <2>1. IsFiniteSet(DOMAIN s.jobs \ over)
    BY FS_Subset DEF Typed, JobsType
  <2>2. IsFiniteSet(Range(jobOf) \ {NoJob})
    <3>1. Range(jobOf) = {jobOf[i] : i \in ids} /\ DOMAIN jobOf = ids
      BY <1>6 DEF Range
    <3>2. IsFiniteSet(ids)
      BY PartOfSlots
    <3>3. IsFiniteSet(Range(jobOf))
      BY <3>1, <3>2, ImageIsFinite
    <3> QED
      BY <3>3, FS_Subset
  <2>3. IsFiniteSet(DOMAIN J)
    <3> HIDE DEF over
    <3>1. IsFiniteSet((DOMAIN s.jobs \ over) \cup (Range(jobOf) \ {NoJob}))
      BY <2>1, <2>2, FS_Union
    <3> QED
      BY <1>18, <3>1, Zenon
  <2>4. DOMAIN s.jobs \subseteq Nat \ {NoJob}
    BY DEF Typed, JobsType
  <2>5. DOMAIN J \subseteq Nat \ {NoJob}
    <3> HIDE DEF over
    <3> QED
      BY <1>18, <1>21, <2>4
  <2>6. \A j \in DOMAIN J : J[j] \in Job
    <3> HIDE DEF over
    <3> QED
      BY <1>18, <1>21, <1>22
  <2>7. J \in [DOMAIN J -> Job]
    BY <1>18, <2>6
  <2> QED
    BY <1>12, <2>3, <2>5, <2>7, Zenon DEF JobsType
<1>24. Queued(s, t, ids, refused)
  <2>1. ASSUME NEW j \in DOMAIN t.jobs
        PROVE  OldJob(s, t, ids, j) \/ (~refused /\ NewJob(s, t, ids, j))
    <3> HIDE DEF over
    <3>1. j \in DOMAIN s.jobs \ over \/ j \in Range(jobOf) \ {NoJob}
      BY <1>12, <1>18
    <3> QED
      BY <1>21, <1>22, <3>1
  <2> QED
    BY <1>23, <2>1 DEF Queued
<1>25. Puts(s, t, c, ids, refused)
  <2>1. ASSUME NEW i \in Slot PROVE Put(s, t, c, ids, refused, i)
    <3>1. CASE i \in ids
      <4>1. log[i] = IF refused THEN <<>> ELSE <<[job |-> fw[i].job, kind |-> "SUBMIT"]>>
        <5>1. log[i] = IF refused THEN <<>> ELSE <<[job |-> jobOf[i], kind |-> "SUBMIT"]>>
          BY <1>9, <3>1, Zenon
        <5>2. fw[i].job = jobOf[i]
          BY <1>15, <3>1
        <5> QED
          BY <5>1, <5>2, Zenon
      <4>2. fw[i].job = JobFor(s, ids, refused)[i]
        BY <1>15, <3>1 DEF jobOf
      <4>3. t.rc.fileWorkers[i] = fw[i] /\ t.files.log[i] = log[i]
            /\ t.files.worker_waitfile[i] = <<>> /\ t.files.master_waitfile[i] = <<>>
        BY <1>9, <1>13, <1>14, <3>1
      <4> QED
        BY <1>15, <3>1, <4>1, <4>2, <4>3, Zenon DEF Put
    <3>2. CASE i \notin ids
      BY <1>9, <1>13, <1>14, <3>2 DEF Put
    <3> QED
      BY <3>1, <3>2
  <2>2. \A k \in Classes :
       /\ t.rc.hostadd_reqs[k] = s.rc.hostadd_reqs[k] + IF k = c THEN Cardinality(ids) ELSE 0
       /\ t.lost[k] = s.lost[k] + IF k = c /\ refused THEN Cardinality(ids) ELSE 0
    BY <1>8, <1>12, <1>13 DEF n
  <2> QED
    BY <1>13, <1>14, <2>1, <2>2 DEF Puts
<1>26. Typed(t)
  <2>1. t.lost \in [Classes -> Nat]
    BY <1>8, <1>12
  <2> QED
    BY <1>12, <1>16, <1>17, <1>23, <2>1 DEF Typed, Works
<1> QED
  BY <1>16, <1>24, <1>25, <1>26

(* The free slots ids are given new jobs: what the invariant says of them. *)
Frees(s, ids) == \A i \in ids : s.rc.fileWorkers[i].state = "FREE"

LEMMA SubmittedAccount ==
  ASSUME NEW s, Typed(s), Works(s), Account(s), NEW c \in Classes, NEW ids \in SUBSET Slot,
         NEW refused \in BOOLEAN, Frees(s, ids),
         NEW t, Typed(t), Works(t), Puts(s, t, c, ids, refused)
  PROVE  Account(t)
<1>1. \A i \in Slot : Put(s, t, c, ids, refused, i)
  BY DEF Puts
<1>2. ASSUME NEW i \in ids
      PROVE  /\ t.rc.fileWorkers[i].state = "SUBMITTED" /\ t.rc.fileWorkers[i].exec_class = c
             /\ t.rc.fileWorkers[i].job = JobFor(s, ids, refused)[i]
  BY <1>1, Zenon DEF Put
<1>3. ASSUME NEW i \in Slot \ ids PROVE t.rc.fileWorkers[i] = s.rc.fileWorkers[i]
  BY <1>1, Zenon DEF Put
<1>4. /\ \A i \in ids : refused <=> JobFor(s, ids, refused)[i] = NoJob
  <2>1. /\ refused => \A i \in ids : JobFor(s, ids, refused)[i] = NoJob
        /\ ~refused => \A i \in ids : JobFor(s, ids, refused)[i] > LastJob(s)
        /\ LastJob(s) \in Nat
    BY JobsForAre, LastJobIsLast
  <2> QED
    BY <2>1 DEF NoJob
<1>5. \A k \in Classes :
       /\ t.rc.hostadd_reqs[k] = s.rc.hostadd_reqs[k] + IF k = c THEN Cardinality(ids) ELSE 0
       /\ t.lost[k] = s.lost[k] + IF k = c /\ refused THEN Cardinality(ids) ELSE 0
  BY DEF Puts
<1>6. \A i \in ids : s.rc.fileWorkers[i].state = "FREE"
  BY DEF Frees
<1>7. IsFiniteSet(ids) /\ Cardinality(ids) \in Nat
  BY PartOfSlots
<1>8. ASSUME NEW k \in Classes
      PROVE  t.rc.hostadd_reqs[k] = t.lost[k] + Cardinality(Asked(t.rc.fileWorkers, k))
  <2> DEFINE A == Asked(s.rc.fileWorkers, k)
             B == Asked(t.rc.fileWorkers, k)
  <2>1. s.rc.hostadd_reqs[k] = s.lost[k] + Cardinality(A)
    BY DEF Account
  <2>2. /\ s.lost[k] \in Nat /\ A \subseteq Slot /\ A \cap ids = {}
        /\ IsFiniteSet(A) /\ Cardinality(A) \in Nat
    <3>1. A \in SUBSET Slot
      BY DEF Asked
    <3>2. A \cap ids = {}
      BY <1>6 DEF Asked
    <3>3. IsFiniteSet(A) /\ Cardinality(A) \in Nat
      <4> HIDE DEF A
      <4> QED
        BY <3>1, PartOfSlots
    <3>4. s.lost[k] \in Nat
      BY DEF Typed
    <3> QED
      BY <3>1, <3>2, <3>3, <3>4
  <2>3. CASE k = c /\ ~refused
    <3>1. B = A \cup ids
      BY <1>2, <1>3, <1>4, <1>6, <2>3 DEF Asked
    <3>2. Cardinality(B) = Cardinality(A) + Cardinality(ids)
      <4> HIDE DEF A, B
      <4>1. Cardinality(A \cap ids) = 0
        BY <2>2, FS_EmptySet
      <4>2. Cardinality(A \cup ids) =
              Cardinality(A) + Cardinality(ids) - Cardinality(A \cap ids)
        BY <1>7, <2>2, FS_Union
      <4> QED
        BY <1>7, <2>2, <3>1, <4>1, <4>2
    <3> HIDE DEF A, B
    <3>3. t.rc.hostadd_reqs[k] = s.rc.hostadd_reqs[k] + Cardinality(ids)
          /\ t.lost[k] = s.lost[k] + 0
      BY <1>5, <2>3
    <3>4. t.rc.hostadd_reqs[k] = t.lost[k] + Cardinality(B)
      BY <1>7, <2>1, <2>2, <3>2, <3>3
    <3> QED
      BY <3>4 DEF B
  <2>4. CASE ~(k = c /\ ~refused)
    <3>1. B = A
      BY <1>2, <1>3, <1>4, <1>6, <2>4 DEF Asked
    <3> HIDE DEF A, B
    <3>2. CASE k = c
      <4>1. t.rc.hostadd_reqs[k] = s.rc.hostadd_reqs[k] + Cardinality(ids)
            /\ t.lost[k] = s.lost[k] + Cardinality(ids)
        BY <1>5, <2>4, <3>2
      <4>2. t.rc.hostadd_reqs[k] = t.lost[k] + Cardinality(B)
        BY <1>7, <2>1, <2>2, <3>1, <4>1
      <4> QED
        BY <4>2 DEF B
    <3>3. CASE k # c
      <4>1. t.rc.hostadd_reqs[k] = s.rc.hostadd_reqs[k] + 0 /\ t.lost[k] = s.lost[k] + 0
        BY <1>5, <3>3
      <4>2. t.rc.hostadd_reqs[k] = t.lost[k] + Cardinality(B)
        BY <2>1, <2>2, <3>1, <4>1
      <4> QED
        BY <4>2 DEF B
    <3> QED
      BY <3>2, <3>3
  <2> QED
    BY <2>3, <2>4
<1> QED
  BY <1>8 DEF Account

LEMMA SubmittedLogs ==
  ASSUME NEW s, Sound(s), Works(s), NEW c \in Classes, NEW ids \in SUBSET Slot,
         NEW refused \in BOOLEAN, Frees(s, ids),
         NEW t, Typed(t), Works(t), Puts(s, t, c, ids, refused), Queued(s, t, ids, refused)
  PROVE  Logs(t) /\ Slots(t)
<1>1. \A i \in Slot : Put(s, t, c, ids, refused, i)
  BY DEF Puts
<1>2. ASSUME NEW i \in ids
      PROVE  /\ t.rc.fileWorkers[i].state = "SUBMITTED"
             /\ t.rc.fileWorkers[i].job = JobFor(s, ids, refused)[i]
             /\ t.files.log[i] = IF refused THEN <<>>
                                 ELSE <<[job |-> t.rc.fileWorkers[i].job, kind |-> "SUBMIT"]>>
  BY <1>1, Zenon DEF Put
<1>3. ASSUME NEW i \in Slot \ ids
      PROVE  t.rc.fileWorkers[i] = s.rc.fileWorkers[i] /\ t.files.log[i] = s.files.log[i]
  BY <1>1, Zenon DEF Put
<1>4. ASSUME NEW i \in ids
      PROVE  (refused => t.rc.fileWorkers[i].job = NoJob)
             /\ (~refused => t.rc.fileWorkers[i].job # NoJob)
  <2>1. /\ refused => \A k \in ids : JobFor(s, ids, refused)[k] = NoJob
        /\ ~refused => \A k \in ids : JobFor(s, ids, refused)[k] > LastJob(s)
        /\ LastJob(s) \in Nat
    BY JobsForAre, LastJobIsLast DEF Sound
  <2>2. t.rc.fileWorkers[i].job = JobFor(s, ids, refused)[i]
    BY <1>2
  <2> DEFINE j == JobFor(s, ids, refused)[i]
             last == LastJob(s)
  <2>3. refused => j = NoJob
    BY <2>1
  <2>4. ~refused => j > last /\ last \in Nat
    BY <2>1
  <2> HIDE DEF j, last
  <2>5. ~refused => j # NoJob
    BY <2>4 DEF NoJob
  <2> QED
    BY <2>2, <2>3, <2>5 DEF j
<1>5. ASSUME NEW i \in Slot PROVE LogOK(t.files.log[i], t.jobs)
  <2>1. CASE i \in ids /\ refused
    <3>1. t.files.log[i] = <<>>
      BY <1>2, <2>1
    <3> QED
      BY <3>1 DEF LogOK
  <2>2. CASE i \in ids /\ ~refused
    <3>1. t.files.log[i] = <<[job |-> t.rc.fileWorkers[i].job, kind |-> "SUBMIT"]>>
          /\ t.rc.fileWorkers[i].job # NoJob
      BY <1>2, <1>4, <2>2
    <3> QED
      BY <3>1 DEF LogOK
  <2>3. CASE i \notin ids
    <3>1. t.files.log[i] = s.files.log[i] /\ LogOK(s.files.log[i], s.jobs)
      BY <1>3, <2>3 DEF Sound, Logs
    <3>2. ASSUME NEW k \in DOMAIN s.files.log[i],
                 s.files.log[i][k].kind \in {"ABORTED", "TERMINATED"}
          PROVE  s.files.log[i][k].job \notin DOMAIN t.jobs
      <4> DEFINE j == s.files.log[i][k].job
      <4>1. j \notin DOMAIN s.jobs
        BY <3>1, <3>2 DEF LogOK
      <4>2. s.files.log[i] \in Seq(Event)
        BY DEF Sound, Typed, FilesType
      <4>3. k \in Nat /\ j \in Nat
        <5>1. s.files.log[i][k] \in Event /\ k \in Nat
          <6> DEFINE log == s.files.log[i]
          <6>1. log \in Seq(Event) /\ k \in DOMAIN log
            BY <3>2, <4>2
          <6> HIDE DEF log
          <6>2. log[k] \in Event /\ k \in Nat
            BY <6>1
          <6> QED
            BY <6>2 DEF log
        <5> QED
          BY <5>1 DEF Event
      <4>4. j <= LastJob(s) /\ LastJob(s) \in Nat
        BY <4>3, LastJobIsLast DEF Sound
      <4> HIDE DEF j
      <4>5. ASSUME j \in DOMAIN t.jobs PROVE FALSE
        <5>1. j > LastJob(s)
          BY <4>1, <4>5 DEF Queued, OldJob, NewJob
        <5> QED
          BY <4>3, <4>4, <5>1
      <4> QED
        BY <4>5 DEF j
    <3> QED
      BY <3>1, <3>2 DEF LogOK
  <2> QED
    BY <2>1, <2>2, <2>3
<1>6. ASSUME NEW i \in Slot PROVE SlotOK(t.rc.fileWorkers[i], t.files.log[i])
  <2>1. CASE i \in ids
    <3>1. t.rc.fileWorkers[i].state = "SUBMITTED"
      BY <1>2, <2>1
    <3>2. ASSUME ~refused PROVE t.files.log[i] # <<>>
      <4>1. t.files.log[i] = <<[job |-> t.rc.fileWorkers[i].job, kind |-> "SUBMIT"]>>
        BY <1>2, <2>1, <3>2
      <4>2. \A e : <<e>> # <<>>
        OBVIOUS
      <4> QED
        BY <4>1, <4>2, Zenon
    <3> QED
      BY <1>4, <2>1, <3>1, <3>2 DEF SlotOK
  <2>2. CASE i \notin ids
    BY <1>3, <2>2 DEF Sound, Slots
  <2> QED
    BY <2>1, <2>2
<1> QED
  BY <1>5, <1>6 DEF Logs, Slots

LEMMA SubmittedReady ==
  ASSUME NEW s, Sound(s), Works(s), NEW c \in Classes, NEW ids \in SUBSET Slot,
         NEW refused \in BOOLEAN, Frees(s, ids),
         NEW t, Typed(t), Works(t), Puts(s, t, c, ids, refused), Queued(s, t, ids, refused)
  PROVE  Ready(t)
<1>1. \A i \in Slot : Put(s, t, c, ids, refused, i)
  BY DEF Puts
<1>2. ASSUME NEW i \in ids
      PROVE  /\ t.rc.fileWorkers[i].state = "SUBMITTED"
             /\ t.rc.fileWorkers[i].job = JobFor(s, ids, refused)[i]
             /\ t.files.log[i] = IF refused THEN <<>>
                                 ELSE <<[job |-> t.rc.fileWorkers[i].job, kind |-> "SUBMIT"]>>
  BY <1>1, Zenon DEF Put
<1>3. ASSUME NEW i \in Slot \ ids
      PROVE  t.rc.fileWorkers[i] = s.rc.fileWorkers[i] /\ t.files.log[i] = s.files.log[i]
  BY <1>1, Zenon DEF Put
<1>4. Ready(s)
  BY SoundIsReady
<1>5. ASSUME NEW i \in ids, refused PROVE t.rc.fileWorkers[i].job = NoJob
  <2>1. \A k \in ids : JobFor(s, ids, refused)[k] = NoJob
    BY <1>5, JobsForAre DEF Sound
  <2> QED
    BY <1>2, <2>1
<1>6. ASSUME NEW i \in ids
      PROVE  /\ HasLog(Jot(t.rc.fileWorkers[i]), t.files.log[i])
             /\ MemoOwn(Jot(t.rc.fileWorkers[i]), t.files.log[i])
             /\ Jot(t.rc.fileWorkers[i]).job = t.rc.fileWorkers[i].job
  <2>1. Jot(t.rc.fileWorkers[i]).job = t.rc.fileWorkers[i].job
    BY <1>2 DEF Jot
  <2>2. CASE refused
    BY <1>5, <2>1, <2>2 DEF HasLog, MemoOwn
  <2>3. CASE ~refused
    <3>1. t.files.log[i] = <<[job |-> t.rc.fileWorkers[i].job, kind |-> "SUBMIT"]>>
      BY <1>2, <2>3
    <3> QED
      BY <2>1, <3>1 DEF HasLog, MemoOwn
  <2> QED
    BY <2>1, <2>2, <2>3
<1>7. ASSUME NEW i \in Slot PROVE HasLog(Jot(t.rc.fileWorkers[i]), t.files.log[i])
  <2>1. CASE i \notin ids
    BY <1>3, <1>4, <2>1 DEF Ready
  <2> QED
    BY <1>6, <2>1
<1>8. ASSUME ~LateRemoval
      PROVE  /\ \A i \in Slot : MemoOwn(Jot(t.rc.fileWorkers[i]), t.files.log[i])
             /\ \A j \in DOMAIN t.jobs : JobOwn(j, t.jobs[j], Jot(WorkerOf(t, j)))
             /\ \A j \in DOMAIN t.jobs : Kept(j, t.jobs[j], WorkerOf(t, j))
  <2>1. /\ \A i \in Slot : MemoOwn(Jot(s.rc.fileWorkers[i]), s.files.log[i])
        /\ \A j \in DOMAIN s.jobs : JobOwn(j, s.jobs[j], Jot(WorkerOf(s, j)))
        /\ \A j \in DOMAIN s.jobs : Kept(j, s.jobs[j], WorkerOf(s, j))
    BY <1>4, <1>8, Zenon DEF Ready
  <2>2. ASSUME NEW i \in Slot PROVE MemoOwn(Jot(t.rc.fileWorkers[i]), t.files.log[i])
    <3>1. CASE i \notin ids
      BY <1>3, <2>1, <3>1
    <3> QED
      BY <1>6, <3>1
  <2>3. ASSUME NEW j \in DOMAIN t.jobs
        PROVE  JobOwn(j, t.jobs[j], Jot(WorkerOf(t, j))) /\ Kept(j, t.jobs[j], WorkerOf(t, j))
    <3>1. CASE OldJob(s, t, ids, j)
      <4>1. j \in DOMAIN s.jobs /\ t.jobs[j] = s.jobs[j] /\ s.jobs[j].slot \in Slot
            /\ s.jobs[j].removed \in BOOLEAN
        BY <3>1, JobIs DEF OldJob, Sound, Typed
      <4>2. Kept(j, s.jobs[j], WorkerOf(s, j)) /\ JobOwn(j, s.jobs[j], Jot(WorkerOf(s, j)))
        BY <2>1, <4>1
      <4>3. s.jobs[j].slot \notin ids
        <5>1. SUFFICES ASSUME s.jobs[j].slot \in ids PROVE FALSE
          OBVIOUS
        <5>2. WorkerOf(s, j).state = "FREE"
          BY <5>1 DEF Frees, WorkerOf
        <5>3. s.jobs[j].removed
          BY <4>2, <5>2 DEF Kept
        <5> QED
          BY <1>8, <3>1, <5>1, <5>3 DEF OldJob
      <4>4. WorkerOf(t, j) = WorkerOf(s, j)
        BY <1>3, <4>1, <4>3 DEF WorkerOf
      <4> QED
        BY <4>1, <4>2, <4>4
    <3>2. CASE NewJob(s, t, ids, j)
      <4>1. t.jobs[j].slot \in ids /\ WorkerOf(t, j).job = j /\ t.jobs[j].removed = FALSE
        BY <3>2 DEF NewJob, WorkerOf
      <4>2. WorkerOf(t, j).state = "SUBMITTED" /\ Jot(WorkerOf(t, j)).job = j
        BY <1>2, <1>6, <4>1 DEF WorkerOf
      <4> QED
        BY <4>1, <4>2 DEF JobOwn, Kept
    <3> QED
      BY <3>1, <3>2 DEF Queued
  <2> QED
    BY <2>2, <2>3
<1> QED
  BY <1>7, <1>8 DEF Ready

LEMMA SubmittedTalk ==
  ASSUME NEW s, NEW ws, Sound(s), Works(s), ws \in [Slot -> WorkerID], Reported(s, ws),
         Talk(s, ws), NEW c \in Classes, NEW ids \in SUBSET Slot,
         NEW refused \in BOOLEAN, Frees(s, ids),
         NEW t, Typed(t), Works(t), Puts(s, t, c, ids, refused), Queued(s, t, ids, refused)
  PROVE  Talk(t, ws)
<1>1. \A i \in Slot : Put(s, t, c, ids, refused, i)
  BY DEF Puts
<1>2. /\ t.rc.resuming = s.rc.resuming /\ t.rc.synced = s.rc.synced
      /\ t.files.worker_input = s.files.worker_input
      /\ t.files.worker_output = s.files.worker_output
  BY DEF Puts
<1>3. /\ s.rc.resuming = {} /\ ~s.rc.synced /\ \A i \in Slot : TalksIn(s, ws, i)
      /\ Processes(s.jobs)
  BY Zenon DEF Talk
<1>4. ASSUME NEW j \in DOMAIN t.jobs PROVE Process(t.jobs[j])
  <2>1. CASE NewJob(s, t, ids, j)
    BY <2>1 DEF NewJob, Process
  <2>2. CASE OldJob(s, t, ids, j)
    BY <1>3, <2>2 DEF OldJob, Processes
  <2> QED
    BY <2>1, <2>2 DEF Queued
<1>5. ASSUME NEW i \in Slot PROVE TalksIn(t, ws, i)
  <2>1. CASE i \in ids
    <3>1. /\ t.rc.fileWorkers[i].state = "SUBMITTED" /\ t.rc.fileWorkers[i].counter = 0
          /\ t.rc.fileWorkers[i].worker_counter = 0
          /\ t.files.worker_waitfile[i] = <<>> /\ t.files.master_waitfile[i] = <<>>
      BY <1>1, <2>1, Zenon DEF Put
    <3>2. ws[i].state = "NONE" /\ ws[i].task \in Task \cup {NoTask}
      <4>1. s.rc.fileWorkers[i].state = "FREE"
        BY <2>1 DEF Frees
      <4>2. ws[i] \in WorkerID
        OBVIOUS
      <4>3. ws[i].task \in Task \cup {NoTask}
        BY <4>2 DEF WorkerID
      <4> QED
        BY <4>1, <4>3 DEF Reported
    <3>3. InTurn(t.rc.fileWorkers[i], ws[i])
      BY <3>1, <3>2 DEF InTurn
    <3>4. \A n \in DOMAIN s.files.worker_input[i] : ~(n < 0)
      <4>1. DOMAIN s.files.worker_input[i] \subseteq Nat
        BY DEF Sound, Typed, FilesType, Holds
      <4> QED
        BY <4>1
    <3>5. Sent(t.rc.fileWorkers[i], ws[i].task, t.files.worker_waitfile[i],
               t.files.worker_input[i])
      BY <1>2, <3>1, <3>4 DEF Sent
    <3>6. Said(t.rc.fileWorkers[i], ws[i].task, t.files.master_waitfile[i],
               t.files.worker_input[i], t.files.worker_output[i])
      BY <3>1 DEF Said
    <3> QED
      BY <3>2, <3>3, <3>5, <3>6, Zenon DEF TalksIn, Talks, About
  <2>2. CASE i \notin ids
    <3>1. /\ t.rc.fileWorkers[i] = s.rc.fileWorkers[i]
          /\ t.files.worker_waitfile[i] = s.files.worker_waitfile[i]
          /\ t.files.master_waitfile[i] = s.files.master_waitfile[i]
      BY <1>1, <2>2, Zenon DEF Put
    <3>2. TalksIn(s, ws, i)
      BY <1>3
    <3> QED
      BY <1>2, <3>1, <3>2, TalksSame
  <2> QED
    BY <2>1, <2>2
<1> QED
  BY <1>2, <1>3, <1>4, <1>5, Zenon DEF Talk, Processes

(* do_spawn and hostaddlogic keep the invariant. *)
LEMMA DoSpawnIsGood ==
  ASSUME NEW s, NEW ws, NEW talks, Works(s), Good(s, ws, talks), NEW c \in Classes, NEW n,
         NEW refused \in BOOLEAN, NEW t, t = DoSpawn(s, c, n, refused)
  PROVE  Good(t, ws, talks) /\ Works(t)
<1> DEFINE free == {i \in Slot : s.rc.fileWorkers[i].state = "FREE"}
           ids == {i \in free : Place(free, i) <= n}
           u == Submitted(s, c, ids, refused)
<1>1. t = WriteRMstate(u)
  BY Zenon DEF DoSpawn
<1>2. ids \in SUBSET Slot /\ Frees(s, ids)
  BY DEF Frees
<1>3. Sound(s) /\ Typed(s) /\ Account(s)
  BY DEF Good, Sound
<1> HIDE DEF ids, u
<1>4. u = Submitted(s, c, ids, refused)
  BY DEF u
<1>5. Typed(u) /\ Works(u) /\ Puts(s, u, c, ids, refused) /\ Queued(s, u, ids, refused)
  BY <1>2, <1>3, <1>4, SubmittedIs, Zenon
<1>6. Account(u)
  BY <1>2, <1>3, <1>5, SubmittedAccount, Zenon
<1>7. Logs(u) /\ Slots(u)
  BY <1>2, <1>3, <1>5, SubmittedLogs, Zenon
<1>8. Ready(u)
  BY <1>2, <1>3, <1>5, SubmittedReady, Zenon
<1>9. Sound(t) /\ Works(t)
  BY <1>1, <1>5, <1>6, <1>7, <1>8, WriteKeeps, Zenon
<1>10. Reported(u, ws)
  <2>1. ASSUME NEW i \in Slot, ws[i].state # "NONE"
        PROVE  u.rc.fileWorkers[i].state \in {"RUNNING", "KILLED", "TRANSIT"}
    <3>1. s.rc.fileWorkers[i].state \in {"RUNNING", "KILLED", "TRANSIT"}
      BY <2>1 DEF Good, Reported
    <3>2. i \notin ids
      BY <1>2, <3>1 DEF Frees
    <3>3. Put(s, u, c, ids, refused, i)
      BY <1>5 DEF Puts
    <3> QED
      BY <3>1, <3>2, <3>3, Zenon DEF Put
  <2> QED
    BY <2>1 DEF Reported
<1>11. talks => Talk(u, ws)
  <2>1. SUFFICES ASSUME talks PROVE Talk(u, ws)
    OBVIOUS
  <2>2. Talk(s, ws) /\ Reported(s, ws) /\ ws \in [Slot -> WorkerID]
    BY <2>1, Zenon DEF Good
  <2> QED
    BY <1>2, <1>3, <1>5, <2>2, SubmittedTalk, Zenon
<1>12. /\ t.rc = u.rc /\ t.jobs = u.jobs
       /\ t.files.worker_waitfile = u.files.worker_waitfile
       /\ t.files.master_waitfile = u.files.master_waitfile
       /\ t.files.worker_input = u.files.worker_input
       /\ t.files.worker_output = u.files.worker_output
  BY <1>1, <1>5, WriteIs, Zenon
<1>13. Reported(t, ws)
  BY <1>10, <1>12, Zenon DEF Reported, Works
<1>14. Talk(u, ws) => Talk(t, ws)
  BY <1>12, Zenon DEF Talk, TalksIn, Works
<1> QED
  BY <1>9, <1>11, <1>13, <1>14 DEF Good

LEMMA AskIsGood ==
  ASSUME NEW s, NEW ws, NEW talks, Works(s), Good(s, ws, talks), NEW R, NEW w, NEW c \in Classes
  PROVE  Good(AskFor(s, w, R, c), ws, talks) /\ Works(AskFor(s, w, R, c))
<1>1. CASE s.rc.hostadd_reqs[c] > 0 \/ Missing(s, w, c) <= 0
  BY <1>1 DEF AskFor
<1>2. CASE ~(s.rc.hostadd_reqs[c] > 0 \/ Missing(s, w, c) <= 0)
  <2>1. AskFor(s, w, R, c) = DoSpawn(s, c, Min({HostInc, Missing(s, w, c)}), c \in R)
    BY <1>2, Zenon DEF AskFor
  <2>2. (c \in R) \in BOOLEAN
    OBVIOUS
  <2> QED
    BY <2>1, <2>2, DoSpawnIsGood, Zenon
<1> QED
  BY <1>1, <1>2

LEMMA HostaddIsGood ==
  ASSUME NEW s, NEW ws, NEW talks, Works(s), Good(s, ws, talks), NEW R, NEW w
  PROVE  Good(Hostaddlogic(s, w, R), ws, talks) /\ Works(Hostaddlogic(s, w, R))
<1> DEFINE n == Len(TargetOf)
           W == [k \in 1 .. n |-> k - 1]
<1>1. n \in Nat
  BY ClassesAre
<1>2. W \in Seq(Classes) /\ Len(W) = n /\ \A k \in 1 .. n : W[k] \in Classes
  BY <1>1 DEF Classes
<1>3. Hostaddlogic(s, w, R) = WriteRMstate(AskAll(s, w, R, W))
  BY DEF Hostaddlogic, AskAll
<1> HIDE DEF W, n
<1>4. PICK u : AskFrom(u, w, R, s, W) /\ AskAll(s, w, R, W) = u[Len(W)]
  BY <1>2, AskUnrolls
<1> DEFINE N == {k \in 0 .. n : Works(u[k]) /\ Good(u[k], ws, talks)}
<1>5. 0 \in N
  <2>1. u[0] = s
    BY <1>4 DEF AskFrom
  <2> QED
    BY <1>1, <2>1
<1>6. ASSUME NEW k \in 0 .. n - 1, k \in N PROVE k + 1 \in N
  <2>1. k + 1 \in 1 .. n /\ (k + 1) - 1 = k /\ k + 1 \in 0 .. n
    BY <1>1
  <2>2. u[k + 1] = AskFor(u[k], w, R, W[k + 1]) /\ W[k + 1] \in Classes
    BY <1>2, <1>4, <2>1 DEF AskFrom
  <2>3. Good(u[k + 1], ws, talks) /\ Works(u[k + 1])
    BY <1>6, <2>2, AskIsGood
  <2> QED
    BY <2>1, <2>3
<1>7. n \in N
  <2>1. n \in 0 .. n
    BY <1>1
  <2> HIDE DEF N
  <2> QED
    BY <1>1, <1>5, <1>6, <2>1, UpTo
<1>8. Works(u[n]) /\ Good(u[n], ws, talks)
  BY <1>7
<1>9. Hostaddlogic(s, w, R) = WriteRMstate(u[n])
  BY <1>2, <1>3, <1>4
<1> QED
  BY <1>8, <1>9, WriteIsGood

LEMMA NowIs ==
  ASSUME NEW t, Typed(t), Becomes(t)
  PROVE  State' = t
BY DEF Typed, Becomes, State

LEMMA HostaddCalled ==
  ASSUME NEW s, NEW ws, NEW talks, Works(s), Good(s, ws, talks), NEW o \in Nat,
         CallHostaddlogic(s, ws, o)
  PROVE  /\ Good(State', ws, talks) /\ Works(State') /\ workers' = ws
         /\ odd' \in Nat /\ odd' <= MaxOdd
<1>1. PICK R \in SUBSET Classes : /\ o + Cardinality(R) <= MaxOdd
                                  /\ Becomes(Hostaddlogic(s, ws, R)) /\ workers' = ws
                                  /\ odd' = o + Cardinality(R)
  BY Zenon DEF CallHostaddlogic
<1>2. Good(Hostaddlogic(s, ws, R), ws, talks) /\ Works(Hostaddlogic(s, ws, R))
  BY HostaddIsGood
<1>3. State' = Hostaddlogic(s, ws, R)
  BY <1>1, <1>2, NowIs DEF Good, Sound
<1>4. Cardinality(R) \in Nat
  <2>1. IsFiniteSet(R)
    BY ClassesAre, FS_Subset
  <2> QED
    BY <2>1, FS_CardinalityType
<1> QED
  BY <1>1, <1>2, <1>3, <1>4

-----------------------------------------------------------------------------
(* What leaves the account, the file and the queue as they were. *)

Face(v, w) ==
  v.state = w.state /\ v.job = w.job /\ v.exec_class = w.exec_class /\ v.event_no = w.event_no
SameJobs(J, K) ==
  /\ DOMAIN J = DOMAIN K
  /\ \A j \in DOMAIN J : J[j].slot = K[j].slot /\ J[j].removed = K[j].removed
Same(s, t) ==
  /\ Works(s) <=> Works(t)
  /\ t.files.log = s.files.log /\ t.files.moment_worker_file = s.files.moment_worker_file
  /\ t.lost = s.lost /\ SameJobs(s.jobs, t.jobs)
  /\ Works(s) => /\ t.rc.hostadd_reqs = s.rc.hostadd_reqs
                 /\ \A i \in Slot : Face(s.rc.fileWorkers[i], t.rc.fileWorkers[i])

LEMMA SameIsSound ==
  ASSUME NEW s, NEW t, Sound(s), Typed(t), Same(s, t)
  PROVE  Sound(t) /\ \A ws : Reported(s, ws) => Reported(t, ws)
<1>1. /\ Works(s) <=> Works(t)
      /\ t.files.log = s.files.log /\ t.files.moment_worker_file = s.files.moment_worker_file
      /\ t.lost = s.lost /\ SameJobs(s.jobs, t.jobs)
      /\ Works(s) => /\ t.rc.hostadd_reqs = s.rc.hostadd_reqs
                     /\ \A i \in Slot : Face(s.rc.fileWorkers[i], t.rc.fileWorkers[i])
  BY Zenon DEF Same
<1>2. Logs(t)
  BY <1>1 DEF Sound, Logs, LogOK, SameJobs
<1>3. Slots(t)
  BY <1>1 DEF Sound, Slots, SlotOK, Face
<1>4. Filed(t)
  BY <1>1 DEF Sound, Filed, InFile, Face
<1>5. Account(t)
  <2>1. CASE Works(s)
    <3>1. ASSUME NEW c \in Classes
          PROVE  Asked(t.rc.fileWorkers, c) = Asked(s.rc.fileWorkers, c)
      <4>1. \A i \in Slot :
              /\ t.rc.fileWorkers[i].state = s.rc.fileWorkers[i].state
              /\ t.rc.fileWorkers[i].job = s.rc.fileWorkers[i].job
              /\ t.rc.fileWorkers[i].exec_class = s.rc.fileWorkers[i].exec_class
        BY <1>1, <2>1 DEF Face
      <4> QED
        BY <4>1 DEF Asked
    <3>2. \A c \in Classes : t.rc.hostadd_reqs[c] =
            t.lost[c] + Cardinality(Asked(t.rc.fileWorkers, c))
      BY <1>1, <2>1, <3>1 DEF Sound, Account
    <3> QED
      BY <1>1, <2>1, <3>2 DEF Account
  <2>2. CASE ~Works(s)
    BY <1>1, <2>2 DEF Sound, Account
  <2> QED
    BY <2>1, <2>2
<1>6. Owned(t)
  <2>1. SUFFICES ASSUME ~LateRemoval
          PROVE  /\ \A i \in Slot : MemoOwn(t.files.moment_worker_file[i], t.files.log[i])
                 /\ \A j \in DOMAIN t.jobs : JobOwn(j, t.jobs[j], Memo(t, j))
                 /\ Works(t) => \A j \in DOMAIN t.jobs : Kept(j, t.jobs[j], WorkerOf(t, j))
    BY Zenon DEF Owned
  <2>2. /\ \A i \in Slot : MemoOwn(s.files.moment_worker_file[i], s.files.log[i])
        /\ \A j \in DOMAIN s.jobs : JobOwn(j, s.jobs[j], Memo(s, j))
        /\ Works(s) => \A j \in DOMAIN s.jobs : Kept(j, s.jobs[j], WorkerOf(s, j))
    BY <2>1, Zenon DEF Sound, Owned
  <2>3. ASSUME NEW j \in DOMAIN t.jobs PROVE JobOwn(j, t.jobs[j], Memo(t, j))
    <3>1. Memo(t, j) = Memo(s, j) /\ j \in DOMAIN s.jobs /\ t.jobs[j].removed = s.jobs[j].removed
      BY <1>1 DEF SameJobs, Memo
    <3> QED
      BY <2>2, <3>1 DEF JobOwn
  <2>4. ASSUME Works(t), NEW j \in DOMAIN t.jobs PROVE Kept(j, t.jobs[j], WorkerOf(t, j))
    <3>1. j \in DOMAIN s.jobs /\ t.jobs[j].removed = s.jobs[j].removed
          /\ t.jobs[j].slot = s.jobs[j].slot /\ t.jobs[j].slot \in Slot
      BY <1>1, JobIs DEF SameJobs, Sound, Typed
    <3>2. Face(WorkerOf(s, j), WorkerOf(t, j))
      BY <1>1, <2>4, <3>1 DEF WorkerOf
    <3> QED
      BY <1>1, <2>2, <2>4, <3>1, <3>2 DEF Kept, Face
  <2> QED
    BY <1>1, <2>2, <2>3, <2>4
<1>7. ASSUME NEW ws, Reported(s, ws) PROVE Reported(t, ws)
  BY <1>1, <1>7 DEF Reported, Face
<1> QED
  BY <1>2, <1>3, <1>4, <1>5, <1>6, <1>7 DEF Sound

(* All but slot i is as it was. *)
Else(s, t, i) ==
  /\ t.rc.resuming = s.rc.resuming /\ t.rc.synced = s.rc.synced
  /\ \A k \in Slot \ {i} :
       /\ t.rc.fileWorkers[k] = s.rc.fileWorkers[k]
       /\ t.files.worker_waitfile[k] = s.files.worker_waitfile[k]
       /\ t.files.master_waitfile[k] = s.files.master_waitfile[k]
       /\ t.files.worker_input[k] = s.files.worker_input[k]
       /\ t.files.worker_output[k] = s.files.worker_output[k]
JobsKeep(s, t) == Processes(s.jobs) => Processes(t.jobs)

LEMMA TalkOn ==
  ASSUME NEW s, NEW t, NEW ws, NEW vs, NEW i \in Slot, Works(t) => Works(s), Talk(s, ws),
         Else(s, t, i), Processes(t.jobs), \A k \in Slot \ {i} : vs[k] = ws[k],
         Works(t) => TalksIn(t, vs, i)
  PROVE  Talk(t, vs)
<1>1. SUFFICES ASSUME Works(t)
               PROVE  t.rc.resuming = {} /\ ~t.rc.synced /\ \A k \in Slot : TalksIn(t, vs, k)
  BY Zenon DEF Talk
<1>2. s.rc.resuming = {} /\ ~s.rc.synced /\ \A k \in Slot : TalksIn(s, ws, k)
  BY <1>1, Zenon DEF Talk
<1>3. ASSUME NEW k \in Slot, k # i PROVE TalksIn(t, vs, k)
  <2>1. /\ t.rc.fileWorkers[k] = s.rc.fileWorkers[k]
        /\ t.files.worker_waitfile[k] = s.files.worker_waitfile[k]
        /\ t.files.master_waitfile[k] = s.files.master_waitfile[k]
        /\ t.files.worker_input[k] = s.files.worker_input[k]
        /\ t.files.worker_output[k] = s.files.worker_output[k]
        /\ vs[k] = ws[k]
    BY <1>3 DEF Else
  <2>2. TalksIn(s, ws, k)
    BY <1>2
  <2> QED
    BY <2>1, <2>2, TalksSame, Zenon
<1>4. t.rc.resuming = {} /\ ~t.rc.synced
  BY <1>2, Zenon DEF Else
<1> QED
  BY <1>1, <1>3, <1>4, Zenon

(* The record of one slot is replaced. *)
SetSlot(s, i, w) == [s.rc EXCEPT !.fileWorkers[i] = w]

LEMMA SlotSet ==
  ASSUME NEW s, Works(s), NEW i \in Slot, NEW w \in FileWorker, NEW r, r = SetSlot(s, i, w)
  PROVE  /\ r \in MemoryType /\ r.fileWorkers[i] = w
         /\ \A k \in Slot : k # i => r.fileWorkers[k] = s.rc.fileWorkers[k]
         /\ r.hostadd_reqs = s.rc.hostadd_reqs /\ r.resuming = s.rc.resuming
         /\ r.synced = s.rc.synced /\ r.looping = s.rc.looping
<1>1. /\ s.rc = [fileWorkers |-> s.rc.fileWorkers, hostadd_reqs |-> s.rc.hostadd_reqs,
                 resuming |-> s.rc.resuming, synced |-> s.rc.synced,
                 looping |-> s.rc.looping]
      /\ s.rc.fileWorkers \in [Slot -> FileWorker] /\ s.rc.hostadd_reqs \in [Classes -> Nat]
      /\ s.rc.resuming \subseteq Slot /\ s.rc.synced \in BOOLEAN /\ s.rc.looping \in BOOLEAN
  BY WorkersAre
<1> DEFINE fw == [s.rc.fileWorkers EXCEPT ![i] = w]
<1>2. fw \in [Slot -> FileWorker] /\ fw[i] = w
      /\ \A k \in Slot : k # i => fw[k] = s.rc.fileWorkers[k]
  BY <1>1
<1>3. r = [s.rc EXCEPT !.fileWorkers = fw]
  BY <1>1 DEF SetSlot
<1> HIDE DEF fw
<1>4. r = [fileWorkers |-> fw, hostadd_reqs |-> s.rc.hostadd_reqs,
           resuming |-> s.rc.resuming, synced |-> s.rc.synced, looping |-> s.rc.looping]
  BY <1>1, <1>3
<1> QED
  BY <1>1, <1>2, <1>4 DEF MemoryType

LEMMA RecordsAre ==
  ASSUME NEW s, Typed(s)
  PROVE  /\ s = [rc |-> s.rc, files |-> s.files, jobs |-> s.jobs, lost |-> s.lost]
         /\ s.files = [log |-> s.files.log, worker_waitfile |-> s.files.worker_waitfile,
                 master_waitfile |-> s.files.master_waitfile,
                 worker_input |-> s.files.worker_input,
                 worker_output |-> s.files.worker_output,
                 moment_worker_file |-> s.files.moment_worker_file]
         /\ s.files.log \in [Slot -> Seq(Event)]
         /\ s.files.worker_waitfile \in [Slot -> Seq(Entry)]
         /\ s.files.master_waitfile \in [Slot -> Seq(Entry)]
         /\ DOMAIN s.files.worker_input = Slot /\ DOMAIN s.files.worker_output = Slot
         /\ s.files.worker_input = [i \in Slot |-> s.files.worker_input[i]]
         /\ s.files.worker_output = [i \in Slot |-> s.files.worker_output[i]]
         /\ \A i \in Slot : Holds(s.files.worker_input[i]) /\ Holds(s.files.worker_output[i])
         /\ s.files.moment_worker_file \in [Slot -> [job : Nat, exec_class : Classes]]
<1>1. s = [rc |-> s.rc, files |-> s.files, jobs |-> s.jobs, lost |-> s.lost]
  BY Zenon DEF Typed
<1>2. FilesType(s.files)
  BY Zenon DEF Typed
<1> QED
  BY <1>1, <1>2, Zenon DEF FilesType

(* The state after the record of slot i, and nothing else, has become w. *)
OnlySlot(s, t, i, w) ==
  /\ t.files = s.files /\ t.jobs = s.jobs /\ t.lost = s.lost
  /\ t.rc.hostadd_reqs = s.rc.hostadd_reqs /\ t.rc.resuming = s.rc.resuming
  /\ t.rc.synced = s.rc.synced /\ t.rc.looping = s.rc.looping
  /\ t.rc.fileWorkers[i] = w
  /\ \A k \in Slot : k # i => t.rc.fileWorkers[k] = s.rc.fileWorkers[k]

LEMMA SlotIs ==
  ASSUME NEW s, Typed(s), Works(s), NEW i \in Slot, NEW w \in FileWorker, NEW t,
         t = [s EXCEPT !.rc.fileWorkers[i] = w]
  PROVE  Typed(t) /\ Works(t) /\ OnlySlot(s, t, i, w)
<1> DEFINE r == [s.rc EXCEPT !.fileWorkers[i] = w]
<1>1. s = [rc |-> s.rc, files |-> s.files, jobs |-> s.jobs, lost |-> s.lost]
  BY Zenon DEF Typed
<1>2. t.rc = r /\ t.files = s.files /\ t.jobs = s.jobs /\ t.lost = s.lost
      /\ t = [rc |-> t.rc, files |-> t.files, jobs |-> t.jobs, lost |-> t.lost]
  BY <1>1
<1>3. /\ r \in MemoryType /\ r.fileWorkers[i] = w
      /\ \A k \in Slot : k # i => r.fileWorkers[k] = s.rc.fileWorkers[k]
      /\ r.hostadd_reqs = s.rc.hostadd_reqs /\ r.resuming = s.rc.resuming
      /\ r.synced = s.rc.synced /\ r.looping = s.rc.looping
  <2>1. r = SetSlot(s, i, w)
    BY DEF SetSlot
  <2> HIDE DEF r
  <2> QED
    BY <2>1, SlotSet
<1> HIDE DEF r
<1>4. Typed(t) /\ Works(t)
  BY <1>2, <1>3 DEF Typed, Works
<1> QED
  BY <1>2, <1>3, <1>4, Zenon DEF OnlySlot

(* A record with other numbers, or served, is the same to the account and Condor. *)
LEMMA SlotSame ==
  ASSUME NEW s, Works(s), NEW t, Works(t), NEW i \in Slot, NEW w, OnlySlot(s, t, i, w),
         Face(s.rc.fileWorkers[i], w)
  PROVE  Same(s, t) /\ Else(s, t, i) /\ JobsKeep(s, t)
<1>1. \A k \in Slot : Face(s.rc.fileWorkers[k], t.rc.fileWorkers[k])
  BY DEF OnlySlot, Face
<1> QED
  BY <1>1 DEF OnlySlot, Same, SameJobs, Else, JobsKeep

(* condor_rm *)
LEMMA CondorRmIs ==
  ASSUME NEW s, Typed(s), Works(s), NEW i \in Slot, NEW t, t = CondorRm(s, i)
  PROVE  /\ Typed(t) /\ Works(t)
         /\ t.rc = s.rc /\ t.files = s.files /\ t.lost = s.lost /\ DOMAIN t.jobs = DOMAIN s.jobs
         /\ \A j \in DOMAIN s.jobs :
              /\ t.jobs[j].slot = s.jobs[j].slot
              /\ Process(s.jobs[j]) => Process(t.jobs[j])
              /\ s.jobs[j].removed \/ j = s.rc.fileWorkers[i].job => t.jobs[j].removed
<1> DEFINE j == s.rc.fileWorkers[i].job
<1>1. CASE j \notin DOMAIN s.jobs
  <2>1. t = s
    BY <1>1 DEF CondorRm
  <2> QED
    BY <1>1, <2>1
<1>2. CASE j \in DOMAIN s.jobs
  <2>1. t = [s EXCEPT !.jobs[j].removed = TRUE]
    BY <1>2 DEF CondorRm
  <2> HIDE DEF j
  <2> DEFINE J == [s.jobs EXCEPT ![j] = [s.jobs[j] EXCEPT !.removed = TRUE]]
  <2>2. s = [rc |-> s.rc, files |-> s.files, jobs |-> s.jobs, lost |-> s.lost]
    BY Zenon DEF Typed
  <2>3. s.jobs \in [DOMAIN s.jobs -> Job] /\ IsFiniteSet(DOMAIN s.jobs)
        /\ DOMAIN s.jobs \subseteq Nat \ {NoJob}
    BY DEF Typed, JobsType
  <2>4. t.rc = s.rc /\ t.files = s.files /\ t.lost = s.lost /\ t.jobs = J
        /\ t = [rc |-> t.rc, files |-> t.files, jobs |-> t.jobs, lost |-> t.lost]
    BY <2>1, <2>2
  <2>5. s.jobs[j] \in Job
    BY <1>2, <2>3
  <2>6. [s.jobs[j] EXCEPT !.removed = TRUE] \in Job
    BY <2>5 DEF Job
  <2>7. J \in [DOMAIN s.jobs -> Job] /\ J[j] = [s.jobs[j] EXCEPT !.removed = TRUE]
        /\ \A k \in DOMAIN s.jobs : k # j => J[k] = s.jobs[k]
    BY <1>2, <2>3, <2>6
  <2> HIDE DEF J
  <2>8. JobsType(t.jobs) /\ DOMAIN t.jobs = DOMAIN s.jobs
    BY <2>3, <2>4, <2>7 DEF JobsType
  <2>9. Typed(t) /\ Works(t)
    BY <2>4, <2>8 DEF Typed, Works
  <2>10. ASSUME NEW k \in DOMAIN s.jobs
         PROVE  /\ t.jobs[k].slot = s.jobs[k].slot
                /\ Process(s.jobs[k]) => Process(t.jobs[k])
                /\ s.jobs[k].removed \/ k = j => t.jobs[k].removed
    <3>1. CASE k = j
      <4>1. t.jobs[k] = [s.jobs[j] EXCEPT !.removed = TRUE]
        BY <2>4, <2>7, <3>1
      <4>2. /\ t.jobs[k].slot = s.jobs[k].slot /\ t.jobs[k].phase = s.jobs[k].phase
            /\ t.jobs[k].expected_number = s.jobs[k].expected_number
            /\ t.jobs[k].master_expected_number = s.jobs[k].master_expected_number
            /\ t.jobs[k].removed
        BY <2>5, <3>1, <4>1 DEF Job
      <4> QED
        BY <4>2 DEF Process
    <3>2. CASE k # j
      <4>1. t.jobs[k] = s.jobs[k]
        BY <2>4, <2>7, <3>2
      <4> QED
        BY <3>2, <4>1
    <3> QED
      BY <3>1, <3>2
  <2> QED
    BY <2>4, <2>8, <2>9, <2>10 DEF j
<1> QED
  BY <1>1, <1>2

(* A slot that is free, and not the driver's, where all else is as it was. *)
LEMMA TalksFreed ==
  ASSUME NEW s, NEW t, NEW ws, NEW vs, NEW i, TalksIn(s, ws, i), vs[i].state = "NONE",
         t.rc.fileWorkers[i].state = "FREE",
         t.rc.fileWorkers[i].counter = s.rc.fileWorkers[i].counter,
         t.rc.fileWorkers[i].worker_counter = s.rc.fileWorkers[i].worker_counter,
         t.files = s.files
  PROVE  TalksIn(t, vs, i)
<1> DEFINE w == s.rc.fileWorkers[i]
           v == t.rc.fileWorkers[i]
           F == s.files
<1>1. PICK x \in Task \cup {NoTask} :
        /\ Sent(w, x, F.worker_waitfile[i], F.worker_input[i])
        /\ Said(w, x, F.master_waitfile[i], F.worker_input[i], F.worker_output[i])
  BY Zenon DEF TalksIn, Talks, About
<1> HIDE DEF w, v, F
<1>2. v.counter = w.counter /\ v.worker_counter = w.worker_counter /\ v.state = "FREE"
  BY DEF v, w
<1>3. /\ Sent(v, x, F.worker_waitfile[i], F.worker_input[i])
      /\ Said(v, x, F.master_waitfile[i], F.worker_input[i], F.worker_output[i])
  BY <1>1, <1>2 DEF Sent, Said
<1>4. InTurn(v, vs[i]) /\ v.state \notin Alive
  BY <1>2 DEF InTurn, Alive
<1> QED
  BY <1>3, <1>4, Zenon DEF TalksIn, Talks, About, v, F

(* A slot that is given up, and its job removed. *)
GivesUp(s, t, i) ==
  /\ t.files.log = s.files.log /\ t.files.moment_worker_file = s.files.moment_worker_file
  /\ t.lost = s.lost /\ t.rc.hostadd_reqs = s.rc.hostadd_reqs
  /\ \A k \in Slot : k # i => t.rc.fileWorkers[k] = s.rc.fileWorkers[k]
  /\ t.rc.fileWorkers[i].state = "FREE"
  /\ s.rc.fileWorkers[i].state \notin {"SUBMITTED", "EXECUTE"}
  /\ DOMAIN t.jobs = DOMAIN s.jobs
  /\ \A j \in DOMAIN s.jobs :
       /\ t.jobs[j].slot = s.jobs[j].slot
       /\ s.jobs[j].removed => t.jobs[j].removed
       /\ ~LateRemoval /\ s.jobs[j].slot = i => t.jobs[j].removed

LEMMA GivenUp ==
  ASSUME NEW s, Sound(s), Works(s), NEW t, Typed(t), Works(t), NEW i \in Slot, GivesUp(s, t, i)
  PROVE  /\ Sound(t)
         /\ \A ws, vs : Reported(s, ws) /\ vs[i].state = "NONE" /\ (\A k \in Slot : k # i =>
              vs[k] = ws[k]) => Reported(t, vs)
<1>1. /\ t.files.log = s.files.log /\ t.files.moment_worker_file = s.files.moment_worker_file
      /\ t.lost = s.lost /\ t.rc.hostadd_reqs = s.rc.hostadd_reqs
      /\ \A k \in Slot : k # i => t.rc.fileWorkers[k] = s.rc.fileWorkers[k]
      /\ t.rc.fileWorkers[i].state = "FREE"
      /\ s.rc.fileWorkers[i].state \notin {"SUBMITTED", "EXECUTE"}
      /\ DOMAIN t.jobs = DOMAIN s.jobs
      /\ \A j \in DOMAIN s.jobs :
           /\ t.jobs[j].slot = s.jobs[j].slot
           /\ s.jobs[j].removed => t.jobs[j].removed
           /\ ~LateRemoval /\ s.jobs[j].slot = i => t.jobs[j].removed
  BY Zenon DEF GivesUp
<1>2. Logs(t)
  BY <1>1 DEF Sound, Logs, LogOK
<1>3. Slots(t)
  <2>1. ASSUME NEW k \in Slot PROVE SlotOK(t.rc.fileWorkers[k], t.files.log[k])
    <3>1. CASE k = i
      BY <1>1, <3>1 DEF SlotOK
    <3>2. CASE k # i
      BY <1>1, <3>2 DEF Sound, Slots
    <3> QED
      BY <3>1, <3>2
  <2> QED
    BY <2>1 DEF Slots
<1>4. Filed(t)
  <2>1. ASSUME NEW k \in Slot
        PROVE  InFile(t.rc.fileWorkers[k], t.files.moment_worker_file[k])
    <3>1. CASE k = i
      BY <1>1, <3>1 DEF InFile
    <3>2. CASE k # i
      BY <1>1, <3>2 DEF Sound, Filed
    <3> QED
      BY <3>1, <3>2
  <2>2. \A k \in Slot : HasLog(t.files.moment_worker_file[k], t.files.log[k])
    BY <1>1 DEF Sound, Filed
  <2> QED
    BY <2>1, <2>2 DEF Filed
<1>5. Account(t)
  <2>1. ASSUME NEW c \in Classes
        PROVE  Asked(t.rc.fileWorkers, c) = Asked(s.rc.fileWorkers, c)
    <3>1. ASSUME NEW k \in Slot
          PROVE  k \in Asked(t.rc.fileWorkers, c) <=> k \in Asked(s.rc.fileWorkers, c)
      <4>1. CASE k = i
        BY <1>1, <4>1 DEF Asked
      <4>2. CASE k # i
        BY <1>1, <4>2 DEF Asked
      <4> QED
        BY <4>1, <4>2
    <3>2. Asked(t.rc.fileWorkers, c) \subseteq Slot /\ Asked(s.rc.fileWorkers, c) \subseteq Slot
      BY DEF Asked
    <3> QED
      BY <3>1, <3>2
  <2>2. \A c \in Classes : t.rc.hostadd_reqs[c] =
          t.lost[c] + Cardinality(Asked(t.rc.fileWorkers, c))
    BY <1>1, <2>1 DEF Sound, Account
  <2> QED
    BY <2>2 DEF Account
<1>6. Owned(t)
  <2>1. SUFFICES ASSUME ~LateRemoval
          PROVE  /\ \A k \in Slot : MemoOwn(t.files.moment_worker_file[k], t.files.log[k])
                 /\ \A j \in DOMAIN t.jobs : JobOwn(j, t.jobs[j], Memo(t, j))
                 /\ \A j \in DOMAIN t.jobs : Kept(j, t.jobs[j], WorkerOf(t, j))
    BY Zenon DEF Owned
  <2>2. /\ \A k \in Slot : MemoOwn(s.files.moment_worker_file[k], s.files.log[k])
        /\ \A j \in DOMAIN s.jobs : JobOwn(j, s.jobs[j], Memo(s, j))
        /\ \A j \in DOMAIN s.jobs : Kept(j, s.jobs[j], WorkerOf(s, j))
    BY <2>1, Zenon DEF Sound, Owned
  <2>3. ASSUME NEW j \in DOMAIN t.jobs
        PROVE  JobOwn(j, t.jobs[j], Memo(t, j)) /\ Kept(j, t.jobs[j], WorkerOf(t, j))
    <3>1. /\ j \in DOMAIN s.jobs /\ t.jobs[j].slot = s.jobs[j].slot
          /\ s.jobs[j].removed => t.jobs[j].removed
          /\ s.jobs[j].slot = i => t.jobs[j].removed
          /\ s.jobs[j].slot \in Slot
      <4>1. j \in DOMAIN s.jobs
        BY <1>1
      <4>2. s.jobs[j].slot \in Slot
        BY <4>1, JobIs DEF Sound, Typed
      <4>3. /\ t.jobs[j].slot = s.jobs[j].slot
            /\ s.jobs[j].removed => t.jobs[j].removed
            /\ ~LateRemoval /\ s.jobs[j].slot = i => t.jobs[j].removed
        BY <1>1, <4>1, Zenon
      <4> QED
        BY <2>1, <4>1, <4>2, <4>3
    <3>2. Memo(t, j) = Memo(s, j)
      BY <1>1, <3>1 DEF Memo
    <3>3. JobOwn(j, s.jobs[j], Memo(s, j)) /\ Kept(j, s.jobs[j], WorkerOf(s, j))
      BY <2>2, <3>1
    <3>4. CASE s.jobs[j].slot = i
      <4>1. WorkerOf(t, j).state = "FREE"
        BY <1>1, <3>1, <3>4 DEF WorkerOf
      <4> QED
        BY <3>1, <3>2, <3>3, <3>4, <4>1 DEF JobOwn, Kept
    <3>5. CASE s.jobs[j].slot # i
      <4>1. WorkerOf(t, j) = WorkerOf(s, j)
        BY <1>1, <3>1, <3>5 DEF WorkerOf
      <4> QED
        BY <3>1, <3>2, <3>3, <4>1 DEF JobOwn, Kept
    <3> QED
      BY <3>4, <3>5
  <2> QED
    BY <1>1, <2>2, <2>3
<1>7. ASSUME NEW ws, NEW vs, Reported(s, ws), vs[i].state = "NONE",
             \A k \in Slot : k # i => vs[k] = ws[k]
      PROVE  Reported(t, vs)
  BY <1>1, <1>7 DEF Reported
<1> QED
  BY <1>2, <1>3, <1>4, <1>5, <1>6, <1>7 DEF Sound

(* send *)
Sends(s, t, i, m) ==
  LET w == s.rc.fileWorkers[i]
  IN  /\ t.files.log = s.files.log /\ t.files.moment_worker_file = s.files.moment_worker_file
      /\ t.files.master_waitfile = s.files.master_waitfile
      /\ t.files.worker_output = s.files.worker_output
      /\ t.jobs = s.jobs /\ t.lost = s.lost /\ t.rc.hostadd_reqs = s.rc.hostadd_reqs
      /\ t.rc.looping = s.rc.looping
      /\ t.rc.fileWorkers[i] = [w EXCEPT !.worker_counter = w.worker_counter + 1]
      /\ t.files.worker_input[i] = Numbered(s.files.worker_input[i], w.worker_counter, m)
      /\ t.files.worker_waitfile[i] =
           Append(s.files.worker_waitfile[i], [n |-> w.worker_counter, sync |-> FALSE])

LEMMA NumberedIs ==
  ASSUME NEW F, Holds(F), NEW n \in Nat, NEW m \in Message
  PROVE  /\ Holds(Numbered(F, n, m)) /\ DOMAIN Numbered(F, n, m) = DOMAIN F \cup {n}
         /\ Numbered(F, n, m)[n] = m
         /\ \A k \in DOMAIN F : k # n => Numbered(F, n, m)[k] = F[k]
BY DEF Numbered, Holds

LEMMA SendIs ==
  ASSUME NEW s, Typed(s), Works(s), NEW i \in Slot, NEW m \in Message, NEW t, t = Send(s, i, m)
  PROVE  /\ Typed(t) /\ Works(t) /\ Sends(s, t, i, m)
         /\ Same(s, t) /\ Else(s, t, i) /\ JobsKeep(s, t)
<1> DEFINE w == s.rc.fileWorkers[i]
           n == w.worker_counter
           v == [w EXCEPT !.worker_counter = n + 1]
           r == [s.rc EXCEPT !.fileWorkers[i] = v]
           ww == [s.files.worker_waitfile EXCEPT
                    ![i] = Append(s.files.worker_waitfile[i], [n |-> n, sync |-> FALSE])]
           input == [s.files.worker_input EXCEPT
                       ![i] = Numbered(s.files.worker_input[i], n, m)]
<1>1. /\ s = [rc |-> s.rc, files |-> s.files, jobs |-> s.jobs, lost |-> s.lost]
      /\ s.files = [log |-> s.files.log, worker_waitfile |-> s.files.worker_waitfile,
                 master_waitfile |-> s.files.master_waitfile,
                 worker_input |-> s.files.worker_input,
                 worker_output |-> s.files.worker_output,
                 moment_worker_file |-> s.files.moment_worker_file]
      /\ s.files.worker_waitfile \in [Slot -> Seq(Entry)]
      /\ DOMAIN s.files.worker_input = Slot
      /\ \A k \in Slot : Holds(s.files.worker_input[k])
  BY RecordsAre
<1>2. w \in FileWorker /\ n \in Nat
  <2>1. w \in FileWorker
    BY WorkersAre
  <2> QED
    BY <2>1, WorkerIs
<1>3. v \in FileWorker /\ Face(w, v)
  BY <1>2 DEF FileWorker, Face
<1>4. /\ s.rc = [fileWorkers |-> s.rc.fileWorkers, hostadd_reqs |-> s.rc.hostadd_reqs,
                 resuming |-> s.rc.resuming, synced |-> s.rc.synced,
                 looping |-> s.rc.looping]
      /\ s.rc.fileWorkers \in [Slot -> FileWorker]
  BY WorkersAre
<1>5. /\ t = [s EXCEPT !.rc = r, !.files = [s.files EXCEPT !.worker_input = input,
                                                           !.worker_waitfile = ww]]
  BY <1>1, <1>4 DEF Send
<1>6. /\ ww \in [Slot -> Seq(Entry)]
      /\ ww[i] = Append(s.files.worker_waitfile[i], [n |-> n, sync |-> FALSE])
      /\ \A k \in Slot \ {i} : ww[k] = s.files.worker_waitfile[k]
  <2>1. [n |-> n, sync |-> FALSE] \in Entry
    BY <1>2 DEF Entry
  <2> DEFINE e == [n |-> n, sync |-> FALSE]
             f == s.files.worker_waitfile
  <2> HIDE DEF e, f, w, n
  <2>2. f \in [Slot -> Seq(Entry)] /\ e \in Entry
    BY <1>1, <2>1 DEF e, f
  <2>3. Append(f[i], e) \in Seq(Entry)
    BY <2>2
  <2>4. ww = [f EXCEPT ![i] = Append(f[i], e)]
    BY DEF e, f
  <2> HIDE DEF ww
  <2> QED
    BY <2>2, <2>3, <2>4 DEF e, f
<1>7. /\ DOMAIN input = Slot /\ input = [k \in Slot |-> input[k]]
      /\ input[i] = Numbered(s.files.worker_input[i], n, m)
      /\ \A k \in Slot \ {i} : input[k] = s.files.worker_input[k]
  BY <1>1
<1>8. \A k \in Slot : Holds(input[k])
  <2>1. Holds(Numbered(s.files.worker_input[i], n, m))
    BY <1>1, <1>2, NumberedIs
  <2> HIDE DEF input, w, n
  <2> QED
    BY <1>1, <1>7, <2>1
<1>9. /\ r \in MemoryType /\ r.fileWorkers[i] = v
      /\ \A k \in Slot : k # i => r.fileWorkers[k] = s.rc.fileWorkers[k]
      /\ r.hostadd_reqs = s.rc.hostadd_reqs /\ r.resuming = s.rc.resuming
      /\ r.synced = s.rc.synced /\ r.looping = s.rc.looping
  <2>1. r = SetSlot(s, i, v)
    BY DEF SetSlot
  <2> HIDE DEF r, v
  <2> QED
    BY <1>3, <2>1, SlotSet
<1> HIDE DEF r, ww, input
<1>10. /\ t.rc = r /\ t.jobs = s.jobs /\ t.lost = s.lost
       /\ t = [rc |-> t.rc, files |-> t.files, jobs |-> t.jobs, lost |-> t.lost]
       /\ t.files = [log |-> t.files.log, worker_waitfile |-> t.files.worker_waitfile,
                 master_waitfile |-> t.files.master_waitfile,
                 worker_input |-> t.files.worker_input,
                 worker_output |-> t.files.worker_output,
                 moment_worker_file |-> t.files.moment_worker_file]
       /\ t.files.log = s.files.log /\ t.files.worker_waitfile = ww
       /\ t.files.master_waitfile = s.files.master_waitfile
       /\ t.files.worker_input = input /\ t.files.worker_output = s.files.worker_output
       /\ t.files.moment_worker_file = s.files.moment_worker_file
  BY <1>1, <1>5
<1>11. FilesType(t.files)
  <2>1. FilesType(s.files)
    BY DEF Typed
  <2> QED
    BY <1>6, <1>7, <1>8, <1>10, <2>1, Zenon DEF FilesType
<1>12. Typed(t) /\ Works(t)
  BY <1>9, <1>10, <1>11 DEF Typed, Works
<1>13. Sends(s, t, i, m)
  BY <1>6, <1>7, <1>9, <1>10, Zenon DEF Sends
<1>14. \A k \in Slot : Face(s.rc.fileWorkers[k], t.rc.fileWorkers[k])
  <2> HIDE DEF v
  <2> QED
    BY <1>3, <1>9, <1>10 DEF Face
<1>15. Same(s, t)
  BY <1>9, <1>10, <1>12, <1>14 DEF Same, SameJobs
<1>16. Else(s, t, i)
  BY <1>6, <1>7, <1>9, <1>10 DEF Else
<1>17. JobsKeep(s, t)
  BY <1>10 DEF JobsKeep
<1> QED
  BY <1>12, <1>13, <1>15, <1>16, <1>17

-----------------------------------------------------------------------------
(* The steps of the master. *)

LEMMA StateIs ==
  /\ State.rc = rc /\ State.files = files /\ State.jobs = jobs /\ State.lost = lost
  /\ State'.rc = rc' /\ State'.files = files' /\ State'.jobs = jobs' /\ State'.lost = lost'
BY DEF State

LEMMA InvIs ==
  ASSUME Inv
  PROVE  /\ Good(State, workers, Neat) /\ Sound(State) /\ Typed(State)
         /\ workers \in [Slot -> WorkerID] /\ Reported(State, workers)
         /\ Neat => Talk(State, workers)
         /\ Up => Works(State)
         /\ crashes = 0 => Works(State)
         /\ Within
<1>1. Good(State, workers, Neat) /\ (crashes = 0 => Works(State)) /\ Within
  BY Zenon DEF Inv
<1>2. /\ Sound(State) /\ workers \in [Slot -> WorkerID] /\ Reported(State, workers)
      /\ Neat => Talk(State, workers)
  BY <1>1, Zenon DEF Good
<1>3. Typed(State)
  BY <1>2, Zenon DEF Sound
<1>4. Up => Works(State)
  BY <1>3, UpWorks, StateIs DEF Up
<1> QED
  BY <1>1, <1>2, <1>3, <1>4, Zenon

LEMMA NewWorkers ==
  ASSUME NEW i \in Slot, NEW ws \in [Slot -> WorkerID], NEW wk \in WorkerID
  PROVE  /\ [ws EXCEPT ![i] = wk] \in [Slot -> WorkerID]
         /\ [ws EXCEPT ![i] = wk][i] = wk
         /\ \A k \in Slot : k # i => [ws EXCEPT ![i] = wk][k] = ws[k]
OBVIOUS

LEMMA NoWorkerIs ==
  ASSUME NEW c \in Classes
  PROVE  /\ NoWorker \in WorkerID /\ NoWorker.state = "NONE"
         /\ New(c) \in WorkerID /\ New(c).state = "INITIALIZING" /\ New(c).task = NoTask
<1>1. 0 \in Classes
  BY ZeroIsClass
<1> QED
  BY <1>1 DEF NoWorker, New, WorkerID

(* The driver adds workers, asks for replacements, or does not. *)
LEMMA CallGoes ==
  ASSUME Inv, NEW s, NEW ws, Works(s), Good(s, ws, Neat), CallHostaddlogic(s, ws, odd),
         UNCHANGED <<sent, crashes, faults>>
  PROVE  Goes
<1>1. Within
  BY InvIs
<1>2. /\ Good(State', ws, Neat) /\ Works(State') /\ workers' = ws
      /\ odd' \in Nat /\ odd' <= MaxOdd
  <2>1. odd \in Nat
    BY <1>1 DEF Within
  <2> QED
    BY <2>1, HostaddCalled, Zenon
<1>3. Within' /\ crashes' = crashes
  BY <1>1, <1>2 DEF Within
<1>4. Good(State', workers', Neat)
  BY <1>2
<1> QED
  BY <1>2, <1>3, <1>4, Zenon DEF Goes

LEMMA StartMainloopGoes ==
  ASSUME Inv, StartMainloop
  PROVE  Goes
<1>0. PICK s : s = [State EXCEPT !.rc.looping = TRUE]
  OBVIOUS
<1>1. /\ Up /\ CallHostaddlogic(s, workers, odd)
      /\ UNCHANGED <<sent, crashes, faults>>
  BY <1>0, Zenon DEF StartMainloop
<1>2. /\ Sound(State) /\ Typed(State) /\ workers \in [Slot -> WorkerID]
      /\ Reported(State, workers) /\ (Neat => Talk(State, workers))
      /\ Works(State)
  BY <1>1, InvIs, Zenon
<1>3. /\ State = [rc |-> State.rc, files |-> State.files, jobs |-> State.jobs,
                  lost |-> State.lost]
      /\ State.rc = [fileWorkers |-> State.rc.fileWorkers,
                     hostadd_reqs |-> State.rc.hostadd_reqs, resuming |-> State.rc.resuming,
                     synced |-> State.rc.synced, looping |-> State.rc.looping]
  BY <1>2, RecordsAre, WorkersAre, Zenon
<1>4. /\ s.files = State.files /\ s.jobs = State.jobs /\ s.lost = State.lost
      /\ s = [rc |-> s.rc, files |-> s.files, jobs |-> s.jobs, lost |-> s.lost]
      /\ s.rc = [State.rc EXCEPT !.looping = TRUE]
  BY <1>0, <1>3
<1>5. /\ s.rc.fileWorkers = State.rc.fileWorkers /\ s.rc.hostadd_reqs = State.rc.hostadd_reqs
      /\ s.rc.resuming = State.rc.resuming /\ s.rc.synced = State.rc.synced
  BY <1>3, <1>4
<1>6. s.rc \in MemoryType
  BY <1>2, <1>4 DEF Works, MemoryType
<1>7. Typed(s) /\ Works(s)
  BY <1>2, <1>4, <1>6 DEF Typed, Works
<1>8. Same(State, s)
  BY <1>2, <1>4, <1>5, <1>7 DEF Same, SameJobs, Face
<1>9. Sound(s) /\ Reported(s, workers)
  BY <1>2, <1>7, <1>8, SameIsSound, Zenon
<1>10. Talk(State, workers) => Talk(s, workers)
  BY <1>2, <1>4, <1>5, Zenon DEF Talk, TalksIn
<1>11. Good(s, workers, Neat)
  BY <1>2, <1>9, <1>10, Zenon DEF Good
<1> QED
  BY <1>1, <1>7, <1>11, CallGoes, Zenon

(* A worker is known, and its request answered. *)
LEMMA ReportedGoes ==
  ASSUME Inv, NEW i \in Slot, HandleExecuting(i)
  PROVE  Goes
<1> DEFINE w == State.rc.fileWorkers[i]
           c == w.exec_class
           v == [w EXCEPT !.state = "RUNNING", !.served = "EXECUTE"]
           ws == [workers EXCEPT ![i] = New(c)]
           reqs == [State.rc.hostadd_reqs EXCEPT ![c] = State.rc.hostadd_reqs[c] - 1]
<1>0. PICK s : s = [State EXCEPT !.rc.fileWorkers[i].state = "RUNNING",
                                 !.rc.fileWorkers[i].served = "EXECUTE",
                                 !.rc.hostadd_reqs[c] = @ - 1]
  OBVIOUS
<1>1. /\ Up /\ w.state = "EXECUTE" /\ CallHostaddlogic(s, ws, odd)
      /\ UNCHANGED <<sent, crashes, faults>>
  BY <1>0, StateIs DEF HandleExecuting, Looping
<1>2. /\ Sound(State) /\ Typed(State) /\ workers \in [Slot -> WorkerID]
      /\ Reported(State, workers) /\ (Neat => Talk(State, workers))
      /\ Works(State)
  BY <1>1, InvIs, Zenon
<1>3. /\ State = [rc |-> State.rc, files |-> State.files, jobs |-> State.jobs,
                  lost |-> State.lost]
      /\ State.rc = [fileWorkers |-> State.rc.fileWorkers,
                     hostadd_reqs |-> State.rc.hostadd_reqs, resuming |-> State.rc.resuming,
                     synced |-> State.rc.synced, looping |-> State.rc.looping]
      /\ State.rc.fileWorkers \in [Slot -> FileWorker]
      /\ State.rc.hostadd_reqs \in [Classes -> Nat]
      /\ State.rc.resuming \subseteq Slot /\ State.rc.synced \in BOOLEAN
      /\ State.rc.looping \in BOOLEAN
  BY <1>2, RecordsAre, WorkersAre, Zenon
<1>4. w \in FileWorker /\ c \in Classes
  BY <1>3, WorkerIs
<1>5. v \in FileWorker
  BY <1>4 DEF FileWorker, FileState
<1>6. v.state = "RUNNING" /\ v.job = w.job /\ v.exec_class = w.exec_class
      /\ v.event_no = w.event_no /\ v.counter = w.counter
      /\ v.worker_counter = w.worker_counter
  BY <1>4 DEF FileWorker
<1>7. w.job # NoJob /\ SlotOK(w, State.files.log[i])
  BY <1>1, <1>2 DEF Sound, Slots, SlotOK
<1> DEFINE A == Asked(State.rc.fileWorkers, c)
<1>8. /\ i \in A /\ IsFiniteSet(A) /\ Cardinality(A) \in Nat /\ Cardinality(A) >= 1
      /\ Cardinality(A \ {i}) = Cardinality(A) - 1
      /\ State.rc.hostadd_reqs[c] = State.lost[c] + Cardinality(A)
      /\ State.lost[c] \in Nat
  <2>1. i \in A /\ A \in SUBSET Slot
    BY <1>1, <1>7 DEF Asked
  <2>2. State.rc.hostadd_reqs[c] = State.lost[c] + Cardinality(A)
    BY <1>2, <1>4 DEF Sound, Account
  <2>3. State.lost[c] \in Nat
    BY <1>2, <1>4 DEF Typed
  <2> HIDE DEF A, c
  <2>4. IsFiniteSet(A) /\ Cardinality(A) \in Nat
    BY <2>1, PartOfSlots
  <2>5. Cardinality(A) # 0
    BY <2>1, <2>4, FS_EmptySet
  <2>6. Cardinality(A \ {i}) = Cardinality(A) - 1
    BY <2>1, <2>4, FS_RemoveElement
  <2> QED
    BY <2>1, <2>2, <2>3, <2>4, <2>5, <2>6
<1> DEFINE fw == [State.rc.fileWorkers EXCEPT ![i] = v]
<1>9. s.rc = [fileWorkers |-> fw, hostadd_reqs |-> reqs, resuming |-> State.rc.resuming,
              synced |-> State.rc.synced, looping |-> State.rc.looping]
      /\ s.files = State.files /\ s.jobs = State.jobs /\ s.lost = State.lost
      /\ s = [rc |-> s.rc, files |-> s.files, jobs |-> s.jobs, lost |-> s.lost]
  BY <1>0, <1>3
<1>10. fw \in [Slot -> FileWorker] /\ fw[i] = v
       /\ \A k \in Slot : k # i => fw[k] = State.rc.fileWorkers[k]
  BY <1>3, <1>5
<1>11. reqs \in [Classes -> Nat] /\ reqs[c] = State.rc.hostadd_reqs[c] - 1
       /\ \A k \in Classes : k # c => reqs[k] = State.rc.hostadd_reqs[k]
  <2> HIDE DEF c
  <2>1. State.rc.hostadd_reqs[c] - 1 \in Nat
    BY <1>8
  <2> QED
    BY <1>3, <1>4, <2>1
<1>12. ws \in [Slot -> WorkerID] /\ ws[i] = New(c) /\ \A k \in Slot : k # i => ws[k] = workers[k]
  BY <1>2, <1>4, NoWorkerIs, NewWorkers
<1>13. New(c).state = "INITIALIZING"
  BY <1>4, NoWorkerIs
<1> HIDE DEF fw, reqs, v, ws
<1>14. Typed(s) /\ Works(s)
  <2>1. s.rc \in MemoryType
    BY <1>3, <1>9, <1>10, <1>11 DEF MemoryType
  <2> QED
    BY <1>2, <1>9, <2>1 DEF Typed, Works
<1>15. s.rc.fileWorkers = fw /\ s.rc.hostadd_reqs = reqs /\ s.rc.resuming = State.rc.resuming
       /\ s.rc.synced = State.rc.synced
  BY <1>9
<1> HIDE DEF c, w
<1>16. Logs(s)
  BY <1>2, <1>9 DEF Sound, Logs
<1>17. Slots(s)
  <2>1. ASSUME NEW k \in Slot PROVE SlotOK(s.rc.fileWorkers[k], s.files.log[k])
    <3>1. CASE k = i
      <4>1. s.rc.fileWorkers[k] = v /\ s.files.log[k] = State.files.log[i]
        BY <1>9, <1>10, <1>15, <3>1
      <4>2. SlotOK(v, State.files.log[i])
        BY <1>1, <1>6, <1>7 DEF SlotOK
      <4> QED
        BY <4>1, <4>2
    <3>2. CASE k # i
      BY <1>2, <1>9, <1>10, <1>15, <3>2 DEF Sound, Slots
    <3> QED
      BY <3>1, <3>2
  <2> QED
    BY <2>1 DEF Slots
<1>18. Filed(s)
  <2>1. ASSUME NEW k \in Slot
        PROVE  InFile(s.rc.fileWorkers[k], s.files.moment_worker_file[k])
    <3>1. InFile(State.rc.fileWorkers[k], State.files.moment_worker_file[k])
      BY <1>2 DEF Sound, Filed
    <3>2. CASE k = i
      <4>1. InFile(w, State.files.moment_worker_file[i])
        BY <3>1, <3>2 DEF w
      <4>2. InFile(v, State.files.moment_worker_file[i])
        BY <1>1, <1>6, <4>1 DEF InFile
      <4> QED
        BY <1>9, <1>10, <1>15, <3>2, <4>2
    <3>3. CASE k # i
      BY <1>9, <1>10, <1>15, <3>1, <3>3
    <3> QED
      BY <3>2, <3>3
  <2>2. \A k \in Slot : HasLog(s.files.moment_worker_file[k], s.files.log[k])
    BY <1>2, <1>9 DEF Sound, Filed
  <2> QED
    BY <2>1, <2>2 DEF Filed
<1>19. Account(s)
  <2>1. ASSUME NEW d \in Classes
        PROVE  s.rc.hostadd_reqs[d] = s.lost[d] + Cardinality(Asked(s.rc.fileWorkers, d))
    <3>1. State.rc.hostadd_reqs[d] =
            State.lost[d] + Cardinality(Asked(State.rc.fileWorkers, d))
      BY <1>2 DEF Sound, Account
    <3>2. CASE d = c
      <4>1. Asked(fw, d) = A \ {i}
        BY <1>1, <1>6, <1>10, <3>2 DEF Asked, w
      <4>2. s.rc.hostadd_reqs[d] = State.rc.hostadd_reqs[c] - 1
        BY <1>11, <1>15, <3>2
      <4>3. s.lost[d] = State.lost[c]
        BY <1>9, <3>2
      <4> HIDE DEF A
      <4> QED
        BY <1>8, <1>15, <4>1, <4>2, <4>3
    <3>3. CASE d # c
      <4>1. Asked(fw, d) = Asked(State.rc.fileWorkers, d)
        <5>1. w = State.rc.fileWorkers[i] /\ w.exec_class = c
          BY DEF w, c
        <5>2. \A k \in Slot : k \in Asked(fw, d) <=> k \in Asked(State.rc.fileWorkers, d)
          BY <1>6, <1>10, <3>3, <5>1 DEF Asked
        <5>3. Asked(fw, d) \subseteq Slot /\ Asked(State.rc.fileWorkers, d) \subseteq Slot
          BY DEF Asked
        <5> QED
          BY <5>2, <5>3
      <4> QED
        BY <1>9, <1>11, <1>15, <3>1, <3>3, <4>1
    <3> QED
      BY <3>2, <3>3
  <2> QED
    BY <1>14, <2>1 DEF Account
<1>20. Owned(s)
  <2>1. SUFFICES ASSUME ~LateRemoval
          PROVE  /\ \A k \in Slot : MemoOwn(s.files.moment_worker_file[k], s.files.log[k])
                 /\ \A j \in DOMAIN s.jobs : JobOwn(j, s.jobs[j], Memo(s, j))
                 /\ \A j \in DOMAIN s.jobs : Kept(j, s.jobs[j], WorkerOf(s, j))
    BY Zenon DEF Owned
  <2>2. /\ \A k \in Slot : MemoOwn(State.files.moment_worker_file[k], State.files.log[k])
        /\ \A j \in DOMAIN State.jobs : JobOwn(j, State.jobs[j], Memo(State, j))
        /\ \A j \in DOMAIN State.jobs : Kept(j, State.jobs[j], WorkerOf(State, j))
    BY <1>2, <2>1, Zenon DEF Sound, Owned
  <2>3. \A j \in DOMAIN s.jobs : JobOwn(j, s.jobs[j], Memo(s, j))
    BY <1>9, <2>2, Zenon DEF Memo
  <2>4. ASSUME NEW j \in DOMAIN s.jobs PROVE Kept(j, s.jobs[j], WorkerOf(s, j))
    <3>1. Kept(j, State.jobs[j], WorkerOf(State, j)) /\ s.jobs[j] = State.jobs[j]
      BY <1>9, <2>2
    <3>2. State.jobs[j].slot \in Slot
      <4>1. j \in DOMAIN State.jobs
        BY <1>9
      <4> QED
        BY <1>2, <4>1, JobIs DEF Typed
    <3>3. CASE State.jobs[j].slot = i
      <4>1. WorkerOf(State, j) = w /\ WorkerOf(s, j) = v
        BY <1>9, <1>10, <1>15, <3>3 DEF WorkerOf, w
      <4> QED
        BY <1>1, <1>6, <3>1, <4>1 DEF Kept
    <3>4. CASE State.jobs[j].slot # i
      <4>1. WorkerOf(State, j) = WorkerOf(s, j)
        BY <1>9, <1>10, <1>15, <3>2, <3>4 DEF WorkerOf
      <4> QED
        BY <3>1, <4>1
    <3> QED
      BY <3>3, <3>4
  <2> QED
    BY <1>9, <2>2, <2>3, <2>4
<1>21. Reported(s, ws)
  <2>1. ASSUME NEW k \in Slot, ws[k].state # "NONE"
        PROVE  s.rc.fileWorkers[k].state \in {"RUNNING", "KILLED", "TRANSIT"}
    <3>1. CASE k = i
      BY <1>6, <1>10, <1>15, <3>1
    <3>2. CASE k # i
      BY <1>2, <1>10, <1>12, <1>15, <2>1, <3>2 DEF Reported
    <3> QED
      BY <3>1, <3>2
  <2> QED
    BY <2>1 DEF Reported
<1>22. Talk(State, workers) => Talk(s, ws)
  <2>1. SUFFICES ASSUME Talk(State, workers) PROVE Talk(s, ws)
    OBVIOUS
  <2>2. TalksIn(State, workers, i)
    BY <1>2, <2>1 DEF Talk
  <2> DEFINE F == State.files
  <2>3. /\ InTurn(w, workers[i])
        /\ \E x \in Task \cup {NoTask} :
             About(x, w, workers[i], F.worker_waitfile[i], F.master_waitfile[i],
                   F.worker_input[i], F.worker_output[i])
    BY <2>2, Zenon DEF TalksIn, Talks, w
  <2>4. PICK x \in Task \cup {NoTask} :
             About(x, w, workers[i], F.worker_waitfile[i], F.master_waitfile[i],
                   F.worker_input[i], F.worker_output[i])
    BY <2>3, Zenon
  <2>5. /\ Sent(w, x, F.worker_waitfile[i], F.worker_input[i])
        /\ Said(w, x, F.master_waitfile[i], F.worker_input[i], F.worker_output[i])
    BY <2>4, Zenon DEF About
  <2>6. w.counter = 0 /\ w.worker_counter = 0
    BY <1>1, <2>3 DEF InTurn
  <2>7. InTurn(v, New(c))
    BY <1>6, <1>13, <2>6 DEF InTurn
  <2>8. Sent(v, New(c).task, F.worker_waitfile[i], F.worker_input[i])
    <3>1. DOMAIN F.worker_input[i] \subseteq Nat
      BY <1>2, RecordsAre DEF Holds
    <3> QED
      BY <1>6, <2>5, <2>6, <3>1 DEF Sent
  <2>9. Said(v, New(c).task, F.master_waitfile[i], F.worker_input[i], F.worker_output[i])
    BY <1>6, <2>5, <2>6 DEF Said, Answered
  <2>10. TalksIn(s, ws, i)
    <3>1. New(c).task \in Task \cup {NoTask}
      BY <1>4, NoWorkerIs
    <3>2. Talks(v, New(c), F.worker_waitfile[i], F.master_waitfile[i], F.worker_input[i],
                F.worker_output[i])
      BY <2>7, <2>8, <2>9, <3>1, Zenon DEF Talks, About
    <3> QED
      BY <1>9, <1>10, <1>12, <1>15, <3>2 DEF TalksIn
  <2>11. Else(State, s, i) /\ Processes(s.jobs)
    BY <1>9, <1>10, <1>15, <2>1 DEF Else, Talk
  <2>12. \A k \in Slot \ {i} : ws[k] = workers[k]
    BY <1>12
  <2> QED
    BY <1>2, <1>14, <2>1, <2>10, <2>11, <2>12, TalkOn, Zenon
<1>23. Sound(s)
  BY <1>14, <1>16, <1>17, <1>18, <1>19, <1>20 DEF Sound
<1>24. Good(s, ws, Neat)
  BY <1>2, <1>12, <1>21, <1>22, <1>23, Zenon DEF Good
<1> QED
  BY <1>1, <1>14, <1>24, CallGoes, Zenon

(* The numbers of slot i, and the messages. *)
Counts(s, t, i) ==
  /\ t.files = s.files
  /\ t.rc.fileWorkers[i].counter = s.rc.fileWorkers[i].counter
  /\ t.rc.fileWorkers[i].worker_counter = s.rc.fileWorkers[i].worker_counter

(* A worker is taken away; it is replaced if the driver knew it. *)
LEMMA DeletedGoes ==
  ASSUME Inv, Works(State), NEW i \in Slot, NEW s, Typed(s), Works(s), GivesUp(State, s, i),
         Else(State, s, i), JobsKeep(State, s), Counts(State, s, i), Deleted(s, i),
         UNCHANGED <<sent, crashes, faults>>
  PROVE  Goes
<1>1. /\ Sound(State) /\ Typed(State) /\ workers \in [Slot -> WorkerID]
      /\ Reported(State, workers) /\ (Neat => Talk(State, workers))
      /\ Within
  BY InvIs, Zenon
<1>2. /\ Sound(s)
      /\ \A ws, vs : Reported(State, ws) /\ vs[i].state = "NONE" /\ (\A k \in Slot : k # i =>
           vs[k] = ws[k]) => Reported(s, vs)
  BY <1>1, GivenUp, Zenon
<1>3. s.rc.fileWorkers[i].state = "FREE"
  BY DEF GivesUp
<1>4. ASSUME NEW vs \in [Slot -> WorkerID], vs[i].state = "NONE",
             \A k \in Slot : k # i => vs[k] = workers[k]
      PROVE  Good(s, vs, Neat)
  <2>1. Reported(s, vs)
    BY <1>1, <1>2, <1>4, Zenon
  <2>2. ASSUME Talk(State, workers) PROVE Talk(s, vs)
    <3>1. TalksIn(State, workers, i) /\ Processes(s.jobs)
      BY <2>2, Zenon DEF Talk, JobsKeep
    <3>2. TalksIn(s, vs, i)
      BY <1>3, <1>4, <3>1, TalksFreed, Zenon DEF Counts
    <3>3. \A k \in Slot \ {i} : vs[k] = workers[k]
      BY <1>4
    <3> QED
      BY <2>2, <3>1, <3>2, <3>3, TalkOn, Zenon
  <2> QED
    BY <1>1, <1>2, <1>4, <2>1, <2>2, Zenon DEF Good
<1>5. CASE workers[i].state = "NONE"
  <2>1. Becomes(s) /\ UNCHANGED <<workers, odd>>
    BY <1>5, Zenon DEF Deleted
  <2>2. Good(s, workers, Neat)
    BY <1>1, <1>4, <1>5
  <2>3. State' = s
    BY <2>1, NowIs
  <2>4. Within' /\ crashes' = crashes
    BY <1>1, <2>1 DEF Within
  <2>5. Good(State', workers', Neat) /\ Works(State')
    BY <2>1, <2>2, <2>3
  <2> QED
    BY <2>4, <2>5, Zenon DEF Goes
<1>6. CASE workers[i].state # "NONE"
  <2> DEFINE vs == [workers EXCEPT ![i] = NoWorker]
  <2>1. CallHostaddlogic(s, vs, odd)
    BY <1>6, Zenon DEF Deleted
  <2>2. NoWorker \in WorkerID /\ NoWorker.state = "NONE"
    <3>1. State.rc.fileWorkers[i].exec_class \in Classes
      BY WorkersAre, WorkerIs
    <3> QED
      BY <3>1, NoWorkerIs
  <2>3. vs \in [Slot -> WorkerID] /\ vs[i] = NoWorker /\ \A k \in Slot : k # i => vs[k] = workers[k]
    BY <1>1, <2>2, NewWorkers
  <2> HIDE DEF vs
  <2>4. Good(s, vs, Neat)
    BY <1>4, <2>2, <2>3
  <2> QED
    BY <2>1, <2>4, CallGoes, Zenon
<1> QED
  BY <1>5, <1>6

LEMMA KilledGoes ==
  ASSUME Inv, NEW i \in Slot, HandleKilled(i)
  PROVE  Goes
<1> DEFINE w == State.rc.fileWorkers[i]
           v == [w EXCEPT !.served = "KILLED", !.state = "FREE"]
<1>0. PICK s : s = [State EXCEPT !.rc.fileWorkers[i].served = "KILLED",
                                 !.rc.fileWorkers[i].state = "FREE"]
  OBVIOUS
<1>1. /\ Up /\ w.state = "KILLED" /\ Deleted(s, i)
      /\ UNCHANGED <<sent, crashes, faults>>
  BY <1>0, StateIs DEF HandleKilled, Looping
<1>2. Sound(State) /\ Typed(State) /\ Works(State)
  BY <1>1, InvIs, Zenon
<1>3. /\ State = [rc |-> State.rc, files |-> State.files, jobs |-> State.jobs,
                  lost |-> State.lost]
      /\ State.rc = [fileWorkers |-> State.rc.fileWorkers,
                     hostadd_reqs |-> State.rc.hostadd_reqs, resuming |-> State.rc.resuming,
                     synced |-> State.rc.synced, looping |-> State.rc.looping]
      /\ State.rc.fileWorkers \in [Slot -> FileWorker]
  BY <1>2, RecordsAre, WorkersAre, Zenon
<1>4. w \in FileWorker /\ v \in FileWorker /\ v.state = "FREE"
  <2>1. w \in FileWorker
    BY <1>3
  <2> QED
    BY <2>1 DEF FileWorker, FileState
<1>5. s = [State EXCEPT !.rc.fileWorkers[i] = v]
  BY <1>0, <1>3
<1> HIDE DEF v
<1>6. Typed(s) /\ Works(s) /\ OnlySlot(State, s, i, v)
  BY <1>2, <1>4, <1>5, SlotIs
<1>7. ASSUME ~LateRemoval, NEW j \in DOMAIN State.jobs, State.jobs[j].slot = i
      PROVE  State.jobs[j].removed
  <2>1. Kept(j, State.jobs[j], WorkerOf(State, j))
    BY <1>2, <1>7 DEF Sound, Owned
  <2> QED
    BY <1>1, <1>7, <2>1 DEF Kept, WorkerOf
<1>8. GivesUp(State, s, i)
  BY <1>1, <1>4, <1>6, <1>7 DEF GivesUp, OnlySlot
<1>9. Else(State, s, i) /\ JobsKeep(State, s)
  BY <1>6 DEF Else, JobsKeep, OnlySlot
<1>10. Counts(State, s, i)
  <2>1. v.counter = w.counter /\ v.worker_counter = w.worker_counter
    BY <1>4 DEF FileWorker, v
  <2> QED
    BY <1>6, <2>1 DEF OnlySlot, Counts
<1> QED
  BY <1>1, <1>2, <1>6, <1>8, <1>9, <1>10, DeletedGoes, Zenon

LEMMA TransitedGoes ==
  ASSUME Inv, NEW i \in Slot, HandleTransited(i)
  PROVE  Goes
<1> DEFINE w == State.rc.fileWorkers[i]
           v == [w EXCEPT !.served = "TRANSIT", !.state = "FREE"]
<1>0. PICK u : u = CondorRm(State, i)
  OBVIOUS
<1>a. PICK s : s = [u EXCEPT !.rc.fileWorkers[i].served = "TRANSIT",
                             !.rc.fileWorkers[i].state = "FREE"]
  OBVIOUS
<1>1. /\ Up /\ w.state = "TRANSIT" /\ Deleted(s, i)
      /\ UNCHANGED <<sent, crashes, faults>>
  BY <1>0, <1>a, StateIs DEF HandleTransited, Looping
<1>2. Sound(State) /\ Typed(State) /\ Works(State)
  BY <1>1, InvIs, Zenon
<1>3. /\ Typed(u) /\ Works(u)
      /\ u.rc = State.rc /\ u.files = State.files /\ u.lost = State.lost
      /\ DOMAIN u.jobs = DOMAIN State.jobs
      /\ \A j \in DOMAIN State.jobs :
           /\ u.jobs[j].slot = State.jobs[j].slot
           /\ Process(State.jobs[j]) => Process(u.jobs[j])
           /\ State.jobs[j].removed \/ j = State.rc.fileWorkers[i].job => u.jobs[j].removed
  BY <1>0, <1>2, CondorRmIs, Zenon
<1>4. /\ u = [rc |-> u.rc, files |-> u.files, jobs |-> u.jobs, lost |-> u.lost]
      /\ u.rc = [fileWorkers |-> u.rc.fileWorkers,
                 hostadd_reqs |-> u.rc.hostadd_reqs, resuming |-> u.rc.resuming,
                 synced |-> u.rc.synced, looping |-> u.rc.looping]
      /\ u.rc.fileWorkers \in [Slot -> FileWorker]
  BY <1>3, RecordsAre, WorkersAre, Zenon
<1>5. w = u.rc.fileWorkers[i] /\ w \in FileWorker /\ v \in FileWorker /\ v.state = "FREE"
  <2>1. w \in FileWorker /\ w = u.rc.fileWorkers[i]
    BY <1>3, <1>4
  <2> QED
    BY <2>1 DEF FileWorker, FileState
<1>6. s = [u EXCEPT !.rc.fileWorkers[i] = v]
  <2> DEFINE x == [u.rc.fileWorkers[i] EXCEPT !.served = "TRANSIT", !.state = "FREE"]
  <2>1. s = [u EXCEPT !.rc.fileWorkers[i] = x]
    BY <1>a, <1>4
  <2>2. x = v
    BY <1>5
  <2> QED
    BY <2>1, <2>2, Zenon
<1> HIDE DEF v
<1>7. Typed(s) /\ Works(s) /\ OnlySlot(u, s, i, v)
  BY <1>3, <1>5, <1>6, SlotIs
<1>8. ASSUME ~LateRemoval, NEW j \in DOMAIN State.jobs, State.jobs[j].slot = i
      PROVE  j = w.job
  <2>1. Kept(j, State.jobs[j], WorkerOf(State, j))
    BY <1>2, <1>8 DEF Sound, Owned
  <2> QED
    BY <1>1, <1>8, <2>1 DEF Kept, WorkerOf
<1>9. /\ s.files = State.files /\ s.lost = State.lost /\ s.jobs = u.jobs
      /\ s.rc.hostadd_reqs = State.rc.hostadd_reqs /\ s.rc.resuming = State.rc.resuming
      /\ s.rc.synced = State.rc.synced /\ s.rc.fileWorkers[i] = v
      /\ \A k \in Slot : k # i => s.rc.fileWorkers[k] = State.rc.fileWorkers[k]
  BY <1>3, <1>7 DEF OnlySlot
<1>10. GivesUp(State, s, i)
  BY <1>1, <1>3, <1>5, <1>8, <1>9 DEF GivesUp
<1>11. Else(State, s, i) /\ JobsKeep(State, s)
  BY <1>3, <1>9 DEF Else, JobsKeep, Processes
<1>12. Counts(State, s, i)
  <2>1. v.counter = w.counter /\ v.worker_counter = w.worker_counter
    BY <1>5 DEF FileWorker, v
  <2> QED
    BY <1>9, <2>1 DEF Counts
<1> QED
  BY <1>1, <1>2, <1>7, <1>10, <1>11, <1>12, DeletedGoes, Zenon

(* handle_finished_worker *)
Takes(s, t, i) ==
  LET w == s.rc.fileWorkers[i]
  IN  /\ t.files.log = s.files.log /\ t.files.moment_worker_file = s.files.moment_worker_file
      /\ t.files.worker_waitfile = s.files.worker_waitfile
      /\ t.files.master_waitfile = s.files.master_waitfile
      /\ t.files.worker_input = s.files.worker_input
      /\ t.jobs = s.jobs /\ t.lost = s.lost /\ t.rc.hostadd_reqs = s.rc.hostadd_reqs
      /\ t.rc.looping = s.rc.looping
      /\ t.rc.fileWorkers[i] = [w EXCEPT !.served = "RUNNING", !.counter = w.counter + 1]
      /\ t.files.worker_output[i] =
           Restrict(s.files.worker_output[i],
                    DOMAIN s.files.worker_output[i] \ {w.counter})

LEMMA RestrictedHolds ==
  ASSUME NEW F, Holds(F), NEW S
  PROVE  /\ Holds(Restrict(F, DOMAIN F \ S)) /\ DOMAIN Restrict(F, DOMAIN F \ S) = DOMAIN F \ S
         /\ \A k \in DOMAIN F \ S : Restrict(F, DOMAIN F \ S)[k] = F[k]
BY DEF Restrict, Holds

LEMMA TakenIs ==
  ASSUME Typed(State), Works(State), NEW i \in Slot, NEW t, t = Taken(i)
  PROVE  /\ Typed(t) /\ Works(t) /\ Takes(State, t, i)
         /\ Same(State, t) /\ Else(State, t, i) /\ JobsKeep(State, t)
<1>0. PICK s : s = State
  OBVIOUS
<1> DEFINE w == s.rc.fileWorkers[i]
           n == w.counter
           v == [w EXCEPT !.served = "RUNNING", !.counter = n + 1]
           r == [s.rc EXCEPT !.fileWorkers[i] = v]
           F == s.files.worker_output
           left == Restrict(F[i], DOMAIN F[i] \ {n})
           output == [F EXCEPT ![i] = left]
<1>1. /\ s = [rc |-> s.rc, files |-> s.files, jobs |-> s.jobs, lost |-> s.lost]
      /\ s.files = [log |-> s.files.log, worker_waitfile |-> s.files.worker_waitfile,
                 master_waitfile |-> s.files.master_waitfile,
                 worker_input |-> s.files.worker_input,
                 worker_output |-> s.files.worker_output,
                 moment_worker_file |-> s.files.moment_worker_file]
      /\ DOMAIN s.files.worker_output = Slot
      /\ \A k \in Slot : Holds(s.files.worker_output[k])
      /\ Typed(s) /\ Works(s)
  BY <1>0, RecordsAre
<1>2. w \in FileWorker /\ n \in Nat
  <2>1. w \in FileWorker
    BY <1>1, WorkersAre
  <2> QED
    BY <2>1, WorkerIs
<1>3. v \in FileWorker /\ Face(w, v)
  <2>1. /\ w = [state |-> w.state, served |-> w.served, event_no |-> w.event_no,
                counter |-> w.counter, worker_counter |-> w.worker_counter,
                job |-> w.job, exec_class |-> w.exec_class]
        /\ w.state \in FileState /\ w.event_no \in Nat /\ w.worker_counter \in Nat
        /\ w.job \in Nat /\ w.exec_class \in Classes
    BY <1>2, WorkerIs
  <2>2. n + 1 \in Nat
    BY <1>2
  <2> DEFINE m == n + 1
  <2> HIDE DEF n, w, m
  <2>a. v = [w EXCEPT !.served = "RUNNING", !.counter = m]
    BY DEF m
  <2> HIDE DEF v
  <2>3. v = [state |-> w.state, served |-> "RUNNING", event_no |-> w.event_no,
             counter |-> n + 1, worker_counter |-> w.worker_counter,
             job |-> w.job, exec_class |-> w.exec_class]
    BY <2>1, <2>a DEF m
  <2>4. Face(w, v)
    BY <2>3 DEF Face
  <2>5. "RUNNING" \in FileState
    BY DEF FileState
  <2>6. v \in FileWorker
    BY <2>1, <2>2, <2>3, <2>5 DEF FileWorker
  <2> QED
    BY <2>4, <2>6
<1>4. /\ s.rc = [fileWorkers |-> s.rc.fileWorkers, hostadd_reqs |-> s.rc.hostadd_reqs,
                 resuming |-> s.rc.resuming, synced |-> s.rc.synced,
                 looping |-> s.rc.looping]
      /\ s.rc.fileWorkers \in [Slot -> FileWorker]
  BY <1>1, WorkersAre
<1>5. t = [s EXCEPT !.rc = r, !.files = [s.files EXCEPT !.worker_output = output]]
  <2>1. rc.fileWorkers[i].counter = n
    BY <1>0, StateIs
  <2>2. t = [s EXCEPT !.rc.fileWorkers[i].served = "RUNNING",
                      !.rc.fileWorkers[i].counter = n + 1,
                      !.files.worker_output[i] = Restrict(@, DOMAIN @ \ {n})]
    BY <1>0, <2>1, Zenon DEF Taken
  <2> DEFINE fw == s.rc.fileWorkers
             m == n + 1
             gw == [fw EXCEPT ![i] = [[fw[i] EXCEPT !.served = "RUNNING"] EXCEPT !.counter = m]]
  <2>3. gw = [fw EXCEPT ![i] = v]
    OBVIOUS
  <2> HIDE DEF n, m
  <2>4. t = [s EXCEPT !.rc.fileWorkers[i].served = "RUNNING",
                      !.rc.fileWorkers[i].counter = m,
                      !.files.worker_output[i] = left]
    BY <1>1, <2>2 DEF m
  <2> HIDE DEF left
  <2> DEFINE r1 == [s.rc EXCEPT !.fileWorkers[i].served = "RUNNING"]
             r2 == [r1 EXCEPT !.fileWorkers[i].counter = m]
             f1 == [s.files EXCEPT !.worker_output[i] = left]
  <2>5. r2 = [s.rc EXCEPT !.fileWorkers = gw]
    BY <1>4
  <2>6. f1 = [s.files EXCEPT !.worker_output = output]
    BY <1>1
  <2>7. t = [s EXCEPT !.rc = r2, !.files = f1]
    BY <1>1, <2>4
  <2> HIDE DEF gw, r2, f1, output, v
  <2>8. r2 = r
    BY <2>3, <2>5 DEF gw
  <2> QED
    BY <2>6, <2>7, <2>8
<1>7. /\ DOMAIN output = Slot /\ output = [k \in Slot |-> output[k]]
      /\ output[i] = left
      /\ \A k \in Slot \ {i} : output[k] = s.files.worker_output[k]
  BY <1>1
<1>8. \A k \in Slot : Holds(output[k])
  <2>1. Holds(left)
    BY <1>1, RestrictedHolds
  <2> HIDE DEF output, w, n, left
  <2> QED
    BY <1>1, <1>7, <2>1
<1>9. /\ r \in MemoryType /\ r.fileWorkers[i] = v
      /\ \A k \in Slot : k # i => r.fileWorkers[k] = s.rc.fileWorkers[k]
      /\ r.hostadd_reqs = s.rc.hostadd_reqs /\ r.resuming = s.rc.resuming
      /\ r.synced = s.rc.synced /\ r.looping = s.rc.looping
  <2>1. r = SetSlot(s, i, v)
    BY DEF SetSlot
  <2> HIDE DEF r, v
  <2> QED
    BY <1>1, <1>3, <2>1, SlotSet
<1> HIDE DEF r, output
<1>10. /\ t.rc = r /\ t.jobs = s.jobs /\ t.lost = s.lost
       /\ t = [rc |-> t.rc, files |-> t.files, jobs |-> t.jobs, lost |-> t.lost]
       /\ t.files = [log |-> t.files.log, worker_waitfile |-> t.files.worker_waitfile,
                 master_waitfile |-> t.files.master_waitfile,
                 worker_input |-> t.files.worker_input,
                 worker_output |-> t.files.worker_output,
                 moment_worker_file |-> t.files.moment_worker_file]
       /\ t.files.log = s.files.log /\ t.files.worker_waitfile = s.files.worker_waitfile
       /\ t.files.master_waitfile = s.files.master_waitfile
       /\ t.files.worker_input = s.files.worker_input /\ t.files.worker_output = output
       /\ t.files.moment_worker_file = s.files.moment_worker_file
  BY <1>1, <1>5
<1>11. FilesType(t.files)
  <2>1. FilesType(s.files)
    BY <1>1 DEF Typed
  <2> QED
    BY <1>7, <1>8, <1>10, <2>1, Zenon DEF FilesType
<1>12. Typed(t) /\ Works(t)
  BY <1>1, <1>9, <1>10, <1>11 DEF Typed, Works
<1>13. Takes(s, t, i)
  BY <1>7, <1>9, <1>10, Zenon DEF Takes
<1>14. \A k \in Slot : Face(s.rc.fileWorkers[k], t.rc.fileWorkers[k])
  <2> HIDE DEF v
  <2> QED
    BY <1>3, <1>9, <1>10 DEF Face
<1>15. Same(s, t)
  BY <1>1, <1>9, <1>10, <1>12, <1>14 DEF Same, SameJobs
<1>16. Else(s, t, i)
  BY <1>7, <1>9, <1>10 DEF Else
<1>17. JobsKeep(s, t)
  BY <1>10 DEF JobsKeep
<1> QED
  BY <1>0, <1>12, <1>13, <1>15, <1>16, <1>17

-----------------------------------------------------------------------------
(* The talk: what the master receives, and what it sends next. *)

LEMMA EntryIs ==
  ASSUME NEW f \in Seq(Entry), NEW k \in DOMAIN f
  PROVE  f[k].n \in Nat /\ f[k].sync \in BOOLEAN
<1>1. f[k] \in Entry
  OBVIOUS
<1> QED
  BY <1>1 DEF Entry

LEMMA AppendedEntry ==
  ASSUME NEW f \in Seq(Entry), NEW n \in Nat, NEW k \in DOMAIN Append(f, [n |-> n, sync |-> FALSE])
  PROVE  LET g == Append(f, [n |-> n, sync |-> FALSE]) IN
         \/ k \in DOMAIN f /\ g[k] = f[k]
         \/ g[k].n = n /\ g[k].sync = FALSE
<1> DEFINE e == [n |-> n, sync |-> FALSE]
<1>1. e \in Entry /\ e.n = n /\ e.sync = FALSE
  BY DEF Entry
<1> HIDE DEF e
<1>2. /\ DOMAIN Append(f, e) = DOMAIN f \cup {Len(f) + 1}
      /\ \A m \in DOMAIN f : m # Len(f) + 1 /\ Append(f, e)[m] = f[m]
      /\ Append(f, e)[Len(f) + 1] = e
  BY <1>1, AppendedTo
<1>3. k \in DOMAIN Append(f, e)
  BY DEF e
<1>4. (k \in DOMAIN f /\ Append(f, e)[k] = f[k]) \/ Append(f, e)[k] = e
  BY <1>2, <1>3
<1> QED
  BY <1>1, <1>4 DEF e

(* The worker has been heard out. *)
Heard(w, mw) == \E k \in DOMAIN mw : mw[k].n = w.counter

LEMMA HeardIs ==
  ASSUME NEW w \in FileWorker, NEW t, NEW mw, NEW input, NEW output,
         Said(w, t, mw, input, output), Heard(w, mw)
  PROVE  /\ w.counter <= w.worker_counter /\ w.counter - 1 \notin DOMAIN input
         /\ w.counter \in DOMAIN output /\ output[w.counter] = Answered(w.counter, t)
         /\ w.counter \in Nat /\ w.worker_counter \in Nat
<1>1. PICK k \in DOMAIN mw : mw[k].n = w.counter
  BY DEF Heard
<1>2. /\ mw[k].n <= w.worker_counter /\ mw[k].n - 1 \notin DOMAIN input
      /\ mw[k].n = w.counter =>
           w.counter \in DOMAIN output /\ output[w.counter] = Answered(w.counter, t)
  BY DEF Said
<1> QED
  BY <1>1, <1>2, WorkerIs

(* INIT, BENCH_RESULTS or RESULTS: which it is says how far they are. *)
LEMMA TurnIs ==
  ASSUME NEW w \in FileWorker, w.state = "RUNNING", NEW wk \in WorkerID, InTurn(w, wk),
         w.counter <= w.worker_counter
  PROVE  /\ wk.state = "INITIALIZING" <=> w.counter = 0
         /\ wk.state = "BENCHMARKING" <=> w.counter = 1
         /\ wk.state = "WORKING" <=> w.counter >= 2
         /\ w.counter = w.worker_counter
<1>1. w.counter \in Nat /\ w.worker_counter \in Nat
  BY WorkerIs
<1>2. wk.state \in {"NONE", "INITIALIZING", "BENCHMARKING", "IDLE", "WORKING"}
  BY DEF WorkerID
<1>3. /\ wk.state = "INITIALIZING" => w.counter = 0 /\ w.worker_counter = 0
      /\ wk.state = "BENCHMARKING" => w.counter = 1 /\ w.worker_counter = 1
      /\ wk.state = "WORKING" => w.counter = w.worker_counter /\ w.counter >= 2
      /\ wk.state = "IDLE" => w.counter = w.worker_counter + 1 /\ w.counter >= 2
      /\ wk.state # "NONE"
  BY DEF InTurn
<1>4. wk.state # "IDLE"
  BY <1>1, <1>3
<1>5. CASE wk.state = "INITIALIZING"
  BY <1>1, <1>3, <1>5
<1>6. CASE wk.state = "BENCHMARKING"
  BY <1>1, <1>3, <1>6
<1>7. CASE wk.state = "WORKING"
  BY <1>1, <1>3, <1>7
<1> QED
  BY <1>2, <1>3, <1>4, <1>5, <1>6, <1>7

LEMMA AnsweredIs ==
  ASSUME NEW n \in Nat, NEW t
  PROVE  /\ Answered(n, t).tag = "INIT" <=> n = 0
         /\ Answered(n, t).tag = "BENCH_RESULTS" <=> n = 1
         /\ Answered(n, t).tag = "RESULTS" <=> n >= 2
         /\ n >= 2 => Answered(n, t).task = t
<1>1. n = 0 \/ n = 1 \/ n >= 2
  OBVIOUS
<1>2. CASE n = 0
  BY <1>2 DEF Answered, Plain
<1>3. CASE n = 1
  BY <1>3 DEF Answered, Plain
<1>4. CASE n >= 2
  BY <1>4 DEF Answered, Plain
<1> QED
  BY <1>1, <1>2, <1>3, <1>4

(* The question after one that was answered, or a task after the last one was done. *)
LEMMA Asks ==
  ASSUME NEW w \in FileWorker, NEW v, NEW t, NEW u, NEW ww \in Seq(Entry), NEW mw \in Seq(Entry),
         NEW input, Holds(input), NEW output, NEW left, NEW m \in Message,
         Sent(w, t, ww, input), Said(w, t, mw, input, output),
         v.worker_counter = w.worker_counter + 1, v.counter = v.worker_counter,
         m = Question(w.worker_counter, u), \A n \in DOMAIN input : ~(n < w.worker_counter)
  PROVE  /\ Sent(v, u, Append(ww, [n |-> w.worker_counter, sync |-> FALSE]),
                 Numbered(input, w.worker_counter, m))
         /\ Said(v, u, mw, Numbered(input, w.worker_counter, m), left)
<1> DEFINE B == w.worker_counter
           g == Append(ww, [n |-> B, sync |-> FALSE])
           asked == Numbered(input, B, m)
<1>1. B \in Nat
  BY WorkerIs
<1>2. v.worker_counter = B + 1 /\ v.counter = B + 1
  OBVIOUS
<1>3. /\ Holds(asked) /\ DOMAIN asked = DOMAIN input \cup {B}
      /\ asked[B] = m
      /\ \A k \in DOMAIN input : k # B => asked[k] = input[k]
  BY <1>1, NumberedIs
<1>4. ASSUME NEW k \in DOMAIN g PROVE ~g[k].sync /\ g[k].n < B + 1
  <2>1. CASE k \in DOMAIN ww /\ g[k] = ww[k]
    <3>1. ~ww[k].sync /\ ww[k].n < B /\ ww[k].n \in Nat
      BY <2>1, EntryIs DEF Sent
    <3> QED
      BY <1>1, <2>1, <3>1
  <2>2. CASE g[k].n = B /\ g[k].sync = FALSE
    BY <1>1, <2>2
  <2> HIDE DEF B
  <2> QED
    BY <1>1, <2>1, <2>2, AppendedEntry
<1> HIDE DEF B, g, asked
<1>5. ASSUME NEW n \in DOMAIN asked, n < B + 1
      PROVE  n + 1 = B + 1 /\ asked[n] = Question(n, u)
  <2>1. n \in Nat
    BY <1>3 DEF Holds
  <2>2. n = B
    BY <1>1, <1>3, <1>5, <2>1 DEF B
  <2> QED
    BY <1>3, <2>2 DEF B
<1>6. Sent(v, u, g, asked)
  BY <1>2, <1>4, <1>5 DEF Sent
<1>7. ASSUME NEW k \in DOMAIN mw
      PROVE  mw[k].n <= B /\ mw[k].n - 1 \notin DOMAIN asked /\ mw[k].n \in Nat
  <2>1. mw[k].n <= B /\ mw[k].n - 1 \notin DOMAIN input /\ mw[k].n \in Nat
    BY EntryIs DEF Said, B
  <2> QED
    BY <1>1, <1>3, <2>1
<1>8. Said(v, u, mw, asked, left)
  BY <1>1, <1>2, <1>7 DEF Said
<1> QED
  BY <1>6, <1>8 DEF B, g, asked

(* An answer is received, and nothing asked yet. *)
LEMMA Pauses ==
  ASSUME NEW w \in FileWorker, NEW v, NEW t, NEW u, NEW ww \in Seq(Entry), NEW mw \in Seq(Entry),
         NEW input, Holds(input), NEW output, NEW left,
         Sent(w, t, ww, input), Said(w, t, mw, input, output), Heard(w, mw),
         w.counter = w.worker_counter,
         v.worker_counter = w.worker_counter, v.counter = w.counter + 1
  PROVE  Sent(v, u, ww, input) /\ Said(v, u, mw, input, left)
<1> DEFINE B == w.worker_counter
<1>1. B \in Nat /\ B - 1 \notin DOMAIN input
  BY WorkerIs, HeardIs
<1> HIDE DEF B
<1>2. v.worker_counter = B /\ v.counter = B + 1 /\ w.worker_counter = B
  BY DEF B
<1>3. ASSUME NEW n \in DOMAIN input PROVE ~(n < B)
  <2>1. n \in Nat
    BY DEF Holds
  <2>2. n < B => n + 1 = B
    BY <1>2 DEF Sent
  <2> QED
    BY <1>1, <2>1, <2>2
<1>4. Sent(v, u, ww, input)
  BY <1>2, <1>3 DEF Sent
<1>5. ASSUME NEW k \in DOMAIN mw
      PROVE  mw[k].n <= B /\ mw[k].n - 1 \notin DOMAIN input /\ mw[k].n \in Nat
  BY EntryIs DEF Said, B
<1>6. Said(v, u, mw, input, left)
  BY <1>1, <1>2, <1>5 DEF Said
<1> QED
  BY <1>4, <1>6

-----------------------------------------------------------------------------
(* The messages of the workers. *)

LEMMA SameTwice ==
  ASSUME NEW s, NEW u, NEW t, NEW i, Same(s, u), Same(u, t), Else(s, u, i), Else(u, t, i),
         JobsKeep(s, u), JobsKeep(u, t)
  PROVE  Same(s, t) /\ Else(s, t, i) /\ JobsKeep(s, t)
<1>1. Same(s, t)
  BY DEF Same, SameJobs, Face
<1>2. Else(s, t, i)
  BY DEF Else
<1>3. JobsKeep(s, t)
  BY DEF JobsKeep
<1> QED
  BY <1>1, <1>2, <1>3

(* The master has read from, or written to, one worker. *)
LEMMA SlotGoes ==
  ASSUME Inv, Works(State), NEW i \in Slot, NEW t, Typed(t), Works(t), Becomes(t),
         Same(State, t), Else(State, t, i), JobsKeep(State, t),
         workers' \in [Slot -> WorkerID], \A k \in Slot : k # i => workers'[k] = workers[k],
         State.rc.fileWorkers[i].state \in {"RUNNING", "KILLED", "TRANSIT"},
         Neat => TalksIn(t, workers', i),
         Within', crashes' = crashes
  PROVE  Goes
<1>1. /\ Sound(State) /\ Typed(State) /\ workers \in [Slot -> WorkerID]
      /\ Reported(State, workers) /\ (Neat => Talk(State, workers))
  BY InvIs, Zenon
<1>2. Sound(t) /\ Reported(t, workers)
  BY <1>1, SameIsSound, Zenon
<1>3. Reported(t, workers')
  <2>1. ASSUME NEW k \in Slot, workers'[k].state # "NONE"
        PROVE  t.rc.fileWorkers[k].state \in {"RUNNING", "KILLED", "TRANSIT"}
    <3>1. CASE k = i
      <4>1. Face(State.rc.fileWorkers[i], t.rc.fileWorkers[i])
        BY DEF Same
      <4> QED
        BY <3>1, <4>1 DEF Face
    <3>2. CASE k # i
      <4>1. workers[k].state # "NONE"
        BY <2>1, <3>2
      <4> QED
        BY <1>2, <4>1 DEF Reported
    <3> QED
      BY <3>1, <3>2
  <2> QED
    BY <2>1 DEF Reported
<1>4. ASSUME Neat PROVE Talk(t, workers')
  <2>1. Talk(State, workers) /\ TalksIn(t, workers', i)
    BY <1>1, <1>4
  <2>2. \A k \in Slot \ {i} : workers'[k] = workers[k]
    OBVIOUS
  <2>3. Processes(t.jobs)
    BY <2>1, Zenon DEF Talk, JobsKeep
  <2> QED
    BY <2>1, <2>2, <2>3, TalkOn, Zenon
<1>5. Good(t, workers', Neat)
  BY <1>1, <1>2, <1>3, <1>4, Zenon DEF Good
<1>6. State' = t
  BY NowIs
<1> QED
  BY <1>5, <1>6 DEF Goes

(* What it finds there. *)
InPlace(i) ==
  /\ State.rc.fileWorkers[i] \in FileWorker /\ workers[i] \in WorkerID
  /\ State.files.worker_waitfile[i] \in Seq(Entry)
  /\ State.files.master_waitfile[i] \in Seq(Entry)
  /\ Holds(State.files.worker_input[i]) /\ Holds(State.files.worker_output[i])

LEMMA PlaceIs ==
  ASSUME Typed(State), Works(State), workers \in [Slot -> WorkerID], NEW i \in Slot
  PROVE  InPlace(i)
<1>1. /\ State.files.worker_waitfile \in [Slot -> Seq(Entry)]
      /\ State.files.master_waitfile \in [Slot -> Seq(Entry)]
      /\ \A k \in Slot : Holds(State.files.worker_input[k]) /\ Holds(State.files.worker_output[k])
  BY RecordsAre
<1>2. State.rc.fileWorkers \in [Slot -> FileWorker]
  BY WorkersAre
<1> QED
  BY <1>1, <1>2 DEF InPlace

ReceivedIs(i, tag) ==
  LET w == State.rc.fileWorkers[i]
      F == State.files
  IN  /\ w.state = "RUNNING" /\ Heard(w, F.master_waitfile[i])
      /\ F.worker_output[i][w.counter].tag = tag

LEMMA ReceiveIs ==
  ASSUME Inv, NEW i \in Slot, NEW tag, Receive(i, tag)
  PROVE  Works(State) /\ InPlace(i) /\ ReceivedIs(i, tag)
<1>1. Up /\ rc.fileWorkers[i].state = "RUNNING" /\ IsComplete(i) /\ Message_(i).tag = tag
  BY Zenon DEF Receive, Looping
<1>2. Works(State) /\ Typed(State) /\ workers \in [Slot -> WorkerID]
  BY <1>1, InvIs
<1>3. Heard(State.rc.fileWorkers[i], State.files.master_waitfile[i])
  BY <1>1, StateIs DEF IsComplete, Oks, Heard
<1>4. State.files.worker_output[i][State.rc.fileWorkers[i].counter].tag = tag
  BY <1>1, StateIs DEF Message_
<1>5. State.rc.fileWorkers[i].state = "RUNNING"
  BY <1>1, StateIs
<1> QED
  BY <1>2, <1>3, <1>4, <1>5, PlaceIs DEF ReceivedIs

(* While it talks, the message is the answer that the driver's state says. *)
LEMMA TurnFits ==
  ASSUME Inv, NEW i \in Slot, NEW tag, Works(State), InPlace(i), ReceivedIs(i, tag), Neat
  PROVE  LET w == State.rc.fileWorkers[i]
             F == State.files
             t == workers[i].task
         IN  /\ InTurn(w, workers[i])
             /\ Sent(w, t, F.worker_waitfile[i], F.worker_input[i])
             /\ Said(w, t, F.master_waitfile[i], F.worker_input[i], F.worker_output[i])
             /\ w.counter = w.worker_counter /\ w.counter \in Nat
             /\ tag = "INIT" => w.counter = 0
             /\ tag = "BENCH_RESULTS" => w.counter = 1
             /\ tag = "RESULTS" => w.counter >= 2
<1> DEFINE w == State.rc.fileWorkers[i]
           F == State.files
           t == workers[i].task
<1>1. w.state = "RUNNING" /\ Heard(w, F.master_waitfile[i])
      /\ F.worker_output[i][w.counter].tag = tag
  BY DEF ReceivedIs
<1>2. Talk(State, workers)
  BY InvIs
<1>3. TalksIn(State, workers, i)
  BY <1>2 DEF Talk
<1>4. /\ InTurn(w, workers[i])
      /\ Sent(w, t, F.worker_waitfile[i], F.worker_input[i])
      /\ Said(w, t, F.master_waitfile[i], F.worker_input[i], F.worker_output[i])
  <2>1. w.state \in Alive
    BY <1>1 DEF Alive
  <2> QED
    BY <1>3, <2>1, Zenon DEF TalksIn, Talks, About
<1>5. w \in FileWorker /\ workers[i] \in WorkerID
  BY DEF InPlace
<1>6. /\ w.counter <= w.worker_counter /\ w.counter \in Nat
      /\ F.worker_output[i][w.counter] = Answered(w.counter, t)
  BY <1>1, <1>4, <1>5, HeardIs
<1>7. w.counter = w.worker_counter
  BY <1>1, <1>4, <1>5, <1>6, TurnIs
<1>8. Answered(w.counter, t).tag = tag
  BY <1>1, <1>6
<1>9. /\ tag = "INIT" => w.counter = 0
      /\ tag = "BENCH_RESULTS" => w.counter = 1
      /\ tag = "RESULTS" => w.counter >= 2
  <2> HIDE DEF t, w
  <2> QED
    BY <1>6, <1>8, AnsweredIs
<1> QED
  BY <1>4, <1>6, <1>7, <1>9

LEMMA InitGoes ==
  ASSUME Inv, NEW i \in Slot, ReceiveInit(i)
  PROVE  Goes
<1> DEFINE m == Plain("INIT_REPLY")
           vs == [workers EXCEPT ![i].state = "BENCHMARKING"]
           w == State.rc.fileWorkers[i]
           F == State.files
<1>1. PICK u : u = Taken(i)
  OBVIOUS
<1>2. PICK t : t = Send(u, i, m)
  OBVIOUS
<1>3. /\ Receive(i, "INIT") /\ Becomes(t) /\ workers' = vs
      /\ UNCHANGED <<sent, crashes, faults, odd>>
  BY <1>1, <1>2, Zenon DEF ReceiveInit, Answer
<1>4. Works(State) /\ InPlace(i) /\ ReceivedIs(i, "INIT")
  BY <1>3, ReceiveIs
<1>5. Typed(State) /\ Within /\ workers \in [Slot -> WorkerID]
  BY InvIs
<1>6. /\ Typed(u) /\ Works(u) /\ Takes(State, u, i)
      /\ Same(State, u) /\ Else(State, u, i) /\ JobsKeep(State, u)
  BY <1>1, <1>4, <1>5, TakenIs
<1>7. m \in Message
  BY DEF Plain, Message
<1>8. /\ Typed(t) /\ Works(t) /\ Sends(u, t, i, m)
      /\ Same(u, t) /\ Else(u, t, i) /\ JobsKeep(u, t)
  <2> HIDE DEF m
  <2> QED
    BY <1>2, <1>6, <1>7, SendIs, Zenon
<1>9. Same(State, t) /\ Else(State, t, i) /\ JobsKeep(State, t)
  BY <1>6, <1>8, SameTwice, Zenon
<1>10. /\ vs \in [Slot -> WorkerID] /\ vs[i].state = "BENCHMARKING"
       /\ vs[i].task \in Task \cup {NoTask}
       /\ \A k \in Slot : k # i => vs[k] = workers[k]
  <2>1. [workers[i] EXCEPT !.state = "BENCHMARKING"] \in WorkerID
    BY <1>4 DEF InPlace, WorkerID
  <2>2. /\ [workers[i] EXCEPT !.state = "BENCHMARKING"].state = "BENCHMARKING"
        /\ [workers[i] EXCEPT !.state = "BENCHMARKING"].task \in Task \cup {NoTask}
    BY <1>4 DEF InPlace, WorkerID
  <2> QED
    BY <1>5, <2>1, <2>2
<1> HIDE DEF vs
<1>11. ASSUME Neat PROVE TalksIn(t, vs, i)
  <2> DEFINE v == t.rc.fileWorkers[i]
             x == u.rc.fileWorkers[i]
  <2>1. /\ Sent(w, workers[i].task, F.worker_waitfile[i], F.worker_input[i])
        /\ Said(w, workers[i].task, F.master_waitfile[i], F.worker_input[i],
                F.worker_output[i])
        /\ w.counter = 0 /\ w.worker_counter = 0
    BY <1>4, <1>11, TurnFits
  <2>2. w \in FileWorker /\ w.state = "RUNNING"
    BY <1>4 DEF InPlace, ReceivedIs
  <2>3. x = [w EXCEPT !.served = "RUNNING", !.counter = w.counter + 1]
    BY <1>6 DEF Takes
  <2>4. v = [x EXCEPT !.worker_counter = x.worker_counter + 1]
    BY <1>8 DEF Sends
  <2>5. x.worker_counter = 0 /\ x.state = "RUNNING" /\ x.counter = 1
        /\ v.worker_counter = 1 /\ v.state = "RUNNING" /\ v.counter = 1
    BY <2>1, <2>2, <2>3, <2>4 DEF FileWorker
  <2>6. /\ t.files.worker_waitfile[i] =
             Append(F.worker_waitfile[i], [n |-> w.worker_counter, sync |-> FALSE])
        /\ t.files.worker_input[i] = Numbered(F.worker_input[i], w.worker_counter, m)
        /\ t.files.master_waitfile = F.master_waitfile
    BY <1>6, <1>8, <2>1, <2>5 DEF Takes, Sends
  <2> HIDE DEF v, x, w
  <2>7. \A n \in DOMAIN F.worker_input[i] : ~(n < w.worker_counter)
    BY <1>4, <2>1 DEF InPlace, Holds
  <2>8. m = Question(w.worker_counter, vs[i].task)
    BY <2>1 DEF Question
  <2>9. v.worker_counter = w.worker_counter + 1 /\ v.counter = v.worker_counter
    BY <2>1, <2>5
  <2>10. F.worker_waitfile[i] \in Seq(Entry) /\ F.master_waitfile[i] \in Seq(Entry)
         /\ Holds(F.worker_input[i])
    BY <1>4 DEF InPlace
  <2> HIDE DEF m, F
  <2>11. /\ Sent(v, vs[i].task, t.files.worker_waitfile[i], t.files.worker_input[i])
         /\ Said(v, vs[i].task, t.files.master_waitfile[i], t.files.worker_input[i],
                 t.files.worker_output[i])
    <3>1. /\ Sent(v, vs[i].task,
                  Append(F.worker_waitfile[i], [n |-> w.worker_counter, sync |-> FALSE]),
                  Numbered(F.worker_input[i], w.worker_counter, m))
          /\ Said(v, vs[i].task, F.master_waitfile[i],
                  Numbered(F.worker_input[i], w.worker_counter, m), t.files.worker_output[i])
      BY <1>7, <2>1, <2>2, <2>7, <2>8, <2>9, <2>10, Asks, Zenon
    <3> QED
      BY <2>6, <3>1, Zenon
  <2>12. InTurn(v, vs[i])
    BY <1>10, <2>5 DEF InTurn
  <2> QED
    BY <1>10, <2>11, <2>12, Zenon DEF TalksIn, Talks, About, v
<1>12. Within' /\ crashes' = crashes
  BY <1>3, <1>5 DEF Within
<1>13. State.rc.fileWorkers[i].state = "RUNNING"
  BY <1>4 DEF ReceivedIs
<1>14. workers' \in [Slot -> WorkerID] /\ (\A k \in Slot : k # i => workers'[k] = workers[k])
       /\ (Neat => TalksIn(t, workers', i))
       /\ State.rc.fileWorkers[i].state \in {"RUNNING", "KILLED", "TRANSIT"}
  BY <1>3, <1>10, <1>11, <1>13
<1> QED
  BY <1>3, <1>4, <1>8, <1>9, <1>12, <1>14, SlotGoes, Zenon

(* A worker that has been heard is idle. *)
LEMMA RestsGoes ==
  ASSUME Inv, NEW i \in Slot, NEW tag \in {"BENCH_RESULTS", "RESULTS"}, Receive(i, tag),
         NEW wk, wk.state = "IDLE", Becomes(Taken(i)),
         InPlace(i) => wk \in WorkerID /\ workers' = [workers EXCEPT ![i] = wk],
         UNCHANGED <<sent, crashes, faults, odd>>
  PROVE  Goes
<1> DEFINE vs == [workers EXCEPT ![i] = wk]
           w == State.rc.fileWorkers[i]
           F == State.files
<1>1. PICK t : t = Taken(i)
  OBVIOUS
<1>2. Works(State) /\ InPlace(i) /\ ReceivedIs(i, tag)
  BY ReceiveIs
<1>3. Typed(State) /\ Within /\ workers \in [Slot -> WorkerID]
  BY InvIs
<1>4. /\ Typed(t) /\ Works(t) /\ Takes(State, t, i)
      /\ Same(State, t) /\ Else(State, t, i) /\ JobsKeep(State, t)
  BY <1>1, <1>2, <1>3, TakenIs
<1>5. /\ workers' = vs /\ vs \in [Slot -> WorkerID] /\ vs[i] = wk
      /\ \A k \in Slot : k # i => vs[k] = workers[k]
  BY <1>2, <1>3
<1> HIDE DEF vs
<1>6. ASSUME Neat PROVE TalksIn(t, vs, i)
  <2> DEFINE v == t.rc.fileWorkers[i]
  <2>1. /\ Sent(w, workers[i].task, F.worker_waitfile[i], F.worker_input[i])
        /\ Said(w, workers[i].task, F.master_waitfile[i], F.worker_input[i],
                F.worker_output[i])
        /\ w.counter = w.worker_counter /\ w.counter \in Nat
        /\ tag = "BENCH_RESULTS" => w.counter = 1
        /\ tag = "RESULTS" => w.counter >= 2
    BY <1>2, <1>6, TurnFits
  <2>2. w \in FileWorker /\ w.state = "RUNNING" /\ Heard(w, F.master_waitfile[i])
    BY <1>2 DEF InPlace, ReceivedIs
  <2>3. v = [w EXCEPT !.served = "RUNNING", !.counter = w.counter + 1]
    BY <1>4 DEF Takes
  <2>4. v.state = "RUNNING" /\ v.counter = w.counter + 1 /\ v.worker_counter = w.worker_counter
    BY <2>2, <2>3 DEF FileWorker
  <2>5. /\ t.files.worker_waitfile = F.worker_waitfile
        /\ t.files.worker_input = F.worker_input
        /\ t.files.master_waitfile = F.master_waitfile
    BY <1>4 DEF Takes
  <2> HIDE DEF v, w
  <2>6. F.worker_waitfile[i] \in Seq(Entry) /\ F.master_waitfile[i] \in Seq(Entry)
        /\ Holds(F.worker_input[i])
    BY <1>2 DEF InPlace
  <2> HIDE DEF F
  <2>7. /\ Sent(v, wk.task, F.worker_waitfile[i], F.worker_input[i])
        /\ Said(v, wk.task, F.master_waitfile[i], F.worker_input[i], t.files.worker_output[i])
    <3> DEFINE x == t.files.worker_output[i]
               ww == F.worker_waitfile[i]
               mw == F.master_waitfile[i]
               input == F.worker_input[i]
    <3>1. /\ Sent(w, workers[i].task, ww, input) /\ w \in FileWorker
          /\ Said(w, workers[i].task, mw, input, F.worker_output[i])
          /\ Heard(w, mw) /\ w.counter = w.worker_counter
          /\ v.worker_counter = w.worker_counter /\ v.counter = w.counter + 1
          /\ ww \in Seq(Entry) /\ mw \in Seq(Entry) /\ Holds(input)
      BY <2>1, <2>2, <2>4, <2>6
    <3> HIDE DEF x, ww, mw, input
    <3>2. Sent(v, wk.task, ww, input) /\ Said(v, wk.task, mw, input, x)
      BY <3>1, Pauses
    <3> QED
      BY <3>2 DEF x, ww, mw, input
  <2>8. InTurn(v, wk)
    BY <2>1, <2>4 DEF InTurn
  <2>9. wk.task \in Task \cup {NoTask}
    BY <1>2 DEF WorkerID
  <2> QED
    BY <1>5, <2>5, <2>7, <2>8, <2>9, Zenon DEF TalksIn, Talks, About, v
<1>7. Within' /\ crashes' = crashes
  BY <1>3 DEF Within
<1>8. State.rc.fileWorkers[i].state = "RUNNING"
  BY <1>2 DEF ReceivedIs
<1>9. workers' \in [Slot -> WorkerID] /\ (\A k \in Slot : k # i => workers'[k] = workers[k])
      /\ (Neat => TalksIn(t, workers', i)) /\ Becomes(t)
      /\ State.rc.fileWorkers[i].state \in {"RUNNING", "KILLED", "TRANSIT"}
  BY <1>1, <1>5, <1>6, <1>8
<1> QED
  BY <1>2, <1>4, <1>7, <1>9, SlotGoes, Zenon

LEMMA BenchGoes ==
  ASSUME Inv, NEW i \in Slot, ReceiveBenchResults(i)
  PROVE  Goes
<1> DEFINE wk == [workers[i] EXCEPT !.state = "IDLE"]
<1>1. /\ Receive(i, "BENCH_RESULTS") /\ Becomes(Taken(i))
      /\ workers' = [workers EXCEPT ![i].state = "IDLE"]
      /\ UNCHANGED <<sent, crashes, faults, odd>>
  BY Zenon DEF ReceiveBenchResults
<1>2. Works(State) /\ InPlace(i)
  BY <1>1, ReceiveIs
<1>3. wk \in WorkerID /\ wk.state = "IDLE"
  BY <1>2 DEF InPlace, WorkerID
<1>4. workers' = [workers EXCEPT ![i] = wk]
  BY <1>1
<1> HIDE DEF wk
<1> QED
  BY <1>1, <1>3, <1>4, RestsGoes

LEMMA ResultsGoes ==
  ASSUME Inv, NEW i \in Slot, ReceiveResults(i)
  PROVE  Goes
<1> DEFINE wk == [workers[i] EXCEPT !.state = "IDLE", !.task = NoTask]
<1>1. /\ Receive(i, "RESULTS") /\ Becomes(Taken(i))
      /\ workers' = [workers EXCEPT ![i].state = "IDLE", ![i].task = NoTask]
      /\ UNCHANGED <<sent, crashes, faults, odd>>
  BY Zenon DEF ReceiveResults
<1>2. Works(State) /\ InPlace(i) /\ workers \in [Slot -> WorkerID]
  BY <1>1, ReceiveIs, InvIs
<1>3. wk \in WorkerID /\ wk.state = "IDLE"
  BY <1>2 DEF InPlace, WorkerID
<1>4. workers' = [workers EXCEPT ![i] = wk]
  BY <1>1, <1>2
<1> HIDE DEF wk
<1> QED
  BY <1>1, <1>3, <1>4, RestsGoes

(* The next task, when the last one is done. *)
LEMMA SendTaskGoes ==
  ASSUME Inv, NEW i \in Slot, SendTask(i)
  PROVE  Goes
<1> DEFINE w == State.rc.fileWorkers[i]
           F == State.files
<1>1. /\ Up /\ sent < MaxWork /\ sent' = sent + 1 /\ workers[i].state = "IDLE"
      /\ UNCHANGED <<crashes, faults, odd>>
  BY Zenon DEF SendTask, Looping
<1>2. PICK z \in Task :
        /\ workers' = [workers EXCEPT ![i].state = "WORKING", ![i].task = z]
        /\ Becomes(Send(State, i, [tag |-> "DO_THIS_WORK", task |-> z]))
  BY Zenon DEF SendTask
<1> DEFINE m == [tag |-> "DO_THIS_WORK", task |-> z]
           wk == [workers[i] EXCEPT !.state = "WORKING", !.task = z]
           vs == [workers EXCEPT ![i] = wk]
<1>3. PICK t : t = Send(State, i, m)
  OBVIOUS
<1>4. /\ Works(State) /\ Sound(State) /\ Typed(State) /\ Within
      /\ workers \in [Slot -> WorkerID] /\ Reported(State, workers)
      /\ (Neat => Talk(State, workers))
  BY <1>1, InvIs, Zenon
<1>5. InPlace(i)
  BY <1>4, PlaceIs
<1>6. m \in Message
  BY DEF Message
<1>7. /\ Typed(t) /\ Works(t) /\ Sends(State, t, i, m)
      /\ Same(State, t) /\ Else(State, t, i) /\ JobsKeep(State, t)
  <2> HIDE DEF m
  <2> QED
    BY <1>3, <1>4, <1>6, SendIs, Zenon
<1>8. wk \in WorkerID /\ wk.state = "WORKING" /\ wk.task = z
  BY <1>5 DEF InPlace, WorkerID
<1>9. /\ workers' = vs /\ vs \in [Slot -> WorkerID] /\ vs[i] = wk
      /\ \A k \in Slot : k # i => vs[k] = workers[k]
  BY <1>2, <1>4, <1>8
<1>10. w \in FileWorker /\ w.state \in {"RUNNING", "KILLED", "TRANSIT"}
  <2>1. workers[i].state # "NONE"
    BY <1>1
  <2> QED
    BY <1>4, <1>5, <2>1 DEF InPlace, Reported
<1> HIDE DEF vs, wk
<1>11. ASSUME Neat PROVE TalksIn(t, vs, i)
  <2> DEFINE v == t.rc.fileWorkers[i]
             B == w.worker_counter
             ww == F.worker_waitfile[i]
             mw == F.master_waitfile[i]
             input == F.worker_input[i]
             left == t.files.worker_output[i]
  <2>1. B \in Nat /\ w.counter \in Nat
    BY <1>10, WorkerIs
  <2>2. v = [w EXCEPT !.worker_counter = B + 1]
    BY <1>7 DEF Sends
  <2>3. v.state = w.state /\ v.counter = w.counter /\ v.worker_counter = B + 1
    BY <1>10, <2>2 DEF FileWorker
  <2>4. TalksIn(State, workers, i)
    BY <1>4, <1>11 DEF Talk
  <2>5. InTurn(w, workers[i])
    BY <2>4, Zenon DEF TalksIn, Talks
  <2>6. PICK x \in Task \cup {NoTask} :
          Sent(w, x, ww, input) /\ Said(w, x, mw, input, F.worker_output[i])
    BY <2>4, Zenon DEF TalksIn, Talks, About
  <2>7. TalksIn(t, vs, i)
    <3>1. w.counter = B + 1 /\ w.counter >= 2
      BY <1>1, <2>5 DEF InTurn
    <3>2. \A n \in DOMAIN input : ~(n < B)
      BY <2>1, <2>6, <3>1 DEF Sent
    <3>3. m = Question(B, wk.task)
      BY <1>8, <2>1, <3>1 DEF Question
    <3>4. ww \in Seq(Entry) /\ mw \in Seq(Entry) /\ Holds(input)
      BY <1>5 DEF InPlace
    <3>5. /\ t.files.worker_waitfile[i] = Append(ww, [n |-> B, sync |-> FALSE])
          /\ t.files.worker_input[i] = Numbered(input, B, m)
          /\ t.files.master_waitfile[i] = mw
      BY <1>7 DEF Sends
    <3>6. InTurn(v, wk)
      BY <1>8, <1>10, <2>1, <2>3, <3>1 DEF InTurn
    <3> HIDE DEF v, w, F, ww, mw, input, left, m
    <3>7. /\ Sent(v, wk.task, Append(ww, [n |-> B, sync |-> FALSE]), Numbered(input, B, m))
          /\ Said(v, wk.task, mw, Numbered(input, B, m), left)
      <4>1. v.worker_counter = w.worker_counter + 1 /\ v.counter = v.worker_counter
        BY <2>3, <3>1
      <4> QED
        BY <1>6, <1>10, <2>6, <3>2, <3>3, <3>4, <4>1, Asks, Zenon
    <3>8. Talks(v, wk, t.files.worker_waitfile[i], t.files.master_waitfile[i],
                 t.files.worker_input[i], t.files.worker_output[i])
      <4>1. wk.task \in Task \cup {NoTask}
        BY <1>8
      <4> QED
        BY <3>5, <3>6, <3>7, <4>1, Zenon DEF Talks, About, left
    <3> QED
      BY <1>9, <3>8, Zenon DEF TalksIn, v
  <2> QED
    BY <2>7
<1>12. Within' /\ crashes' = crashes
  <2>1. sent \in Nat /\ MaxWork \in Nat
    BY <1>4, FileBounds DEF Within
  <2> QED
    BY <1>1, <1>4, <2>1 DEF Within
<1>13. Becomes(t)
  BY <1>2, <1>3
<1>14. workers' \in [Slot -> WorkerID] /\ (\A k \in Slot : k # i => workers'[k] = workers[k])
       /\ (Neat => TalksIn(t, workers', i))
  BY <1>9, <1>11
<1> QED
  BY <1>4, <1>7, <1>10, <1>12, <1>13, <1>14, SlotGoes, Zenon

(* A worker that is refused: its slot is free, its job removed. *)
LEMMA InitInVainGoes ==
  ASSUME Inv, NEW i \in Slot, ReceiveInitInVain(i)
  PROVE  Goes
<1> DEFINE vs == [workers EXCEPT ![i] = NoWorker]
<1>1. PICK s : s = Taken(i)
  OBVIOUS
<1>2. PICK u : u = CondorRm(s, i)
  OBVIOUS
<1>3. PICK t : t = [u EXCEPT !.rc.fileWorkers[i].state = "FREE"]
  OBVIOUS
<1>4. PICK q : q = WriteRMstate(t)
  OBVIOUS
<1>5. /\ Receive(i, "INIT") /\ odd < MaxOdd /\ odd' = odd + 1
      /\ Becomes(q) /\ workers' = vs /\ UNCHANGED <<sent, crashes, faults>>
  BY <1>1, <1>2, <1>3, <1>4, Zenon DEF ReceiveInitInVain, RemoveWorker
<1>6. Works(State) /\ InPlace(i) /\ State.rc.fileWorkers[i].state = "RUNNING"
  BY <1>5, ReceiveIs DEF ReceivedIs
<1>7. /\ Sound(State) /\ Typed(State) /\ Within /\ workers \in [Slot -> WorkerID]
      /\ Reported(State, workers) /\ (Neat => Talk(State, workers))
  BY InvIs, Zenon
<1>8. /\ Typed(s) /\ Works(s) /\ Takes(State, s, i)
      /\ Same(State, s) /\ Else(State, s, i) /\ JobsKeep(State, s)
  BY <1>1, <1>6, <1>7, TakenIs
<1>9. Sound(s) /\ Reported(s, workers)
  BY <1>7, <1>8, SameIsSound, Zenon
<1>10. s.rc.fileWorkers[i].state = "RUNNING"
  BY <1>6, <1>8 DEF Same, Face
<1>11. /\ Typed(u) /\ Works(u)
       /\ u.rc = s.rc /\ u.files = s.files /\ u.lost = s.lost
       /\ DOMAIN u.jobs = DOMAIN s.jobs
       /\ \A j \in DOMAIN s.jobs :
            /\ u.jobs[j].slot = s.jobs[j].slot
            /\ Process(s.jobs[j]) => Process(u.jobs[j])
            /\ s.jobs[j].removed \/ j = s.rc.fileWorkers[i].job => u.jobs[j].removed
  BY <1>2, <1>8, CondorRmIs, Zenon
<1> DEFINE v == [u.rc.fileWorkers[i] EXCEPT !.state = "FREE"]
<1>12. v \in FileWorker /\ v.state = "FREE"
  <2>1. u.rc.fileWorkers[i] \in FileWorker
    BY <1>11, WorkersAre
  <2> QED
    BY <2>1 DEF FileWorker, FileState
<1>13. t = [u EXCEPT !.rc.fileWorkers[i] = v]
  BY <1>3
<1> HIDE DEF v
<1>14. Typed(t) /\ Works(t) /\ OnlySlot(u, t, i, v)
  BY <1>11, <1>12, <1>13, SlotIs
<1>15. ASSUME ~LateRemoval, NEW j \in DOMAIN s.jobs, s.jobs[j].slot = i
       PROVE  j = s.rc.fileWorkers[i].job
  <2>1. Kept(j, s.jobs[j], WorkerOf(s, j))
    BY <1>8, <1>9, <1>15 DEF Sound, Owned
  <2> QED
    BY <1>10, <1>15, <2>1 DEF Kept, WorkerOf
<1>16. /\ t.files = s.files /\ t.lost = s.lost /\ t.jobs = u.jobs
       /\ t.rc.hostadd_reqs = s.rc.hostadd_reqs /\ t.rc.resuming = s.rc.resuming
       /\ t.rc.synced = s.rc.synced /\ t.rc.fileWorkers[i] = v
       /\ \A k \in Slot : k # i => t.rc.fileWorkers[k] = s.rc.fileWorkers[k]
  BY <1>11, <1>14 DEF OnlySlot
<1>17. GivesUp(s, t, i)
  BY <1>10, <1>11, <1>12, <1>15, <1>16 DEF GivesUp
<1>18. /\ Sound(t)
       /\ \A ws, xs : Reported(s, ws) /\ xs[i].state = "NONE" /\ (\A k \in Slot : k # i =>
            xs[k] = ws[k]) => Reported(t, xs)
  BY <1>8, <1>9, <1>14, <1>17, GivenUp, Zenon
<1>19. vs \in [Slot -> WorkerID] /\ vs[i].state = "NONE"
       /\ \A k \in Slot : k # i => vs[k] = workers[k]
  <2>1. State.rc.fileWorkers[i].exec_class \in Classes
    BY <1>6, WorkerIs DEF InPlace
  <2>2. NoWorker \in WorkerID /\ NoWorker.state = "NONE"
    BY <2>1, NoWorkerIs
  <2> QED
    BY <1>7, <2>2
<1> HIDE DEF vs
<1>20. Reported(t, vs)
  BY <1>9, <1>18, <1>19, Zenon
<1>21. Else(State, t, i)
  BY <1>8, <1>16 DEF Else
<1>22. JobsKeep(State, t)
  BY <1>8, <1>11, <1>16 DEF JobsKeep, Processes
<1>23. ASSUME Neat PROVE Talk(t, vs)
  <2> DEFINE w == State.rc.fileWorkers[i]
             x == s.rc.fileWorkers[i]
             F == State.files
             ww == F.worker_waitfile[i]
             mw == F.master_waitfile[i]
             input == F.worker_input[i]
             left == s.files.worker_output[i]
  <2>1. /\ Sent(w, workers[i].task, ww, input)
        /\ Said(w, workers[i].task, mw, input, F.worker_output[i])
        /\ w.counter = w.worker_counter /\ w.counter \in Nat
        /\ workers[i].task \in Task \cup {NoTask}
    <3>1. ReceivedIs(i, "INIT") /\ workers[i] \in WorkerID
      BY <1>5, <1>6, ReceiveIs DEF InPlace
    <3>2. workers[i].task \in Task \cup {NoTask}
      BY <3>1 DEF WorkerID
    <3> QED
      BY <1>6, <1>23, <3>1, <3>2, TurnFits
  <2>2. w \in FileWorker /\ Heard(w, mw) /\ ww \in Seq(Entry) /\ mw \in Seq(Entry)
        /\ Holds(input)
    BY <1>5, <1>6, ReceiveIs DEF InPlace, ReceivedIs
  <2>3. x.counter = w.counter + 1 /\ x.worker_counter = w.worker_counter
    <3>1. x = [w EXCEPT !.served = "RUNNING", !.counter = w.counter + 1]
      BY <1>8 DEF Takes
    <3> QED
      BY <2>2, <3>1 DEF FileWorker
  <2>4. v.counter = x.counter /\ v.worker_counter = x.worker_counter
    <3>1. x \in FileWorker /\ v = [x EXCEPT !.state = "FREE"]
      BY <1>8, <1>11, WorkersAre DEF v
    <3> HIDE DEF x
    <3> QED
      BY <3>1 DEF FileWorker
  <2>5. t.rc.fileWorkers[i] = v /\ t.files.worker_waitfile[i] = ww
        /\ t.files.master_waitfile[i] = mw /\ t.files.worker_input[i] = input
        /\ t.files.worker_output[i] = left
    BY <1>8, <1>16 DEF Takes
  <2> HIDE DEF w, x, F, ww, mw, input, left
  <2>6. Sent(v, workers[i].task, ww, input) /\ Said(v, workers[i].task, mw, input, left)
    <3>1. v.worker_counter = w.worker_counter /\ v.counter = w.counter + 1
      BY <2>3, <2>4
    <3> QED
      BY <2>1, <2>2, <3>1, Pauses
  <2>7. InTurn(v, vs[i]) /\ v.state \notin Alive
    BY <1>12, <1>19 DEF InTurn, Alive
  <2>8. TalksIn(t, vs, i)
    BY <2>1, <2>5, <2>6, <2>7, Zenon DEF TalksIn, Talks, About
  <2>9. \A k \in Slot \ {i} : vs[k] = workers[k]
    BY <1>19
  <2>10. Talk(State, workers) /\ Processes(t.jobs)
    BY <1>7, <1>22, <1>23, Zenon DEF Talk, JobsKeep
  <2> QED
    BY <1>6, <1>21, <2>8, <2>9, <2>10, TalkOn, Zenon
<1>24. Good(t, vs, Neat)
  BY <1>7, <1>18, <1>19, <1>20, <1>23, Zenon DEF Good
<1>25. Good(q, vs, Neat) /\ Works(q)
  BY <1>4, <1>14, <1>24, WriteIsGood, Zenon
<1>26. State' = q
  BY <1>5, <1>25, NowIs DEF Good, Sound
<1>27. Within' /\ crashes' = crashes
  <2>1. odd \in Nat /\ MaxOdd \in Nat
    BY <1>7, FileBounds DEF Within
  <2> QED
    BY <1>5, <1>7, <2>1 DEF Within
<1> QED
  BY <1>5, <1>25, <1>26, <1>27 DEF Goes

-----------------------------------------------------------------------------
(* The master comes back to the workers of the one that died. *)

LEMMA LeastOf ==
  ASSUME NEW S \in SUBSET Nat, S # {}
  PROVE  Min(S) \in S /\ \A y \in S : Min(S) <= y
BY LeastNat, Zenon DEF Min

(* There is no talk then to be spoken of. *)
LEMMA SameGoes ==
  ASSUME Inv, Works(State), ~Neat, NEW t, Typed(t), Works(t), Becomes(t), Same(State, t),
         UNCHANGED <<workers, sent, crashes, faults, odd>>
  PROVE  Goes
<1>1. /\ Sound(State) /\ workers \in [Slot -> WorkerID] /\ Reported(State, workers)
      /\ Within
  BY InvIs, Zenon
<1>2. Sound(t) /\ Reported(t, workers)
  BY <1>1, SameIsSound, Zenon
<1>3. Good(t, workers, Neat)
  BY <1>1, <1>2, Zenon DEF Good
<1>4. State' = t
  BY NowIs
<1>5. Within' /\ crashes' = crashes /\ workers' = workers
  BY <1>1 DEF Within
<1> QED
  BY <1>3, <1>4, <1>5 DEF Goes

LEMMA NotNeat ==
  ASSUME Inv, Works(State), rc.resuming # {}
  PROVE  ~Neat /\ Min(rc.resuming) \in Slot
<1>1. rc.resuming \in SUBSET Nat /\ rc.resuming \subseteq Slot
  BY WorkersAre, StateIs, SlotsAre
<1>2. Min(rc.resuming) \in Slot
  BY <1>1, LeastOf
<1>3. ~Neat
  BY InvIs, StateIs DEF Talk
<1> QED
  BY <1>2, <1>3

LEMMA ResyncGoes ==
  ASSUME Inv, Resync
  PROVE  Goes
<1> DEFINE i == Min(rc.resuming)
           w == State.rc.fileWorkers[i]
           n == w.worker_counter + SIMUL_SEND
           e == [n |-> n, sync |-> TRUE]
           v == [w EXCEPT !.worker_counter = n]
           fw == [State.rc.fileWorkers EXCEPT ![i] = v]
           r == [State.rc EXCEPT !.fileWorkers = fw, !.synced = TRUE]
           f == State.files.worker_waitfile
           ww == [f EXCEPT ![i] = Append(f[i], e)]
           m == Plain("RE_INIT")
<1>1. PICK s : s = [State EXCEPT !.files.worker_waitfile[i] = Append(@, e),
                                 !.rc.fileWorkers[i].worker_counter = n,
                                 !.rc.synced = TRUE]
  OBVIOUS
<1>2. PICK t : t = Send(s, i, m)
  OBVIOUS
<1>3. /\ Up /\ rc.resuming # {} /\ Becomes(t)
      /\ UNCHANGED <<workers, sent, crashes, faults, odd>>
  BY <1>1, <1>2, StateIs DEF Resync
<1>4. Works(State) /\ Typed(State)
  BY <1>3, InvIs
<1>5. i \in Slot /\ ~Neat
  BY <1>3, <1>4, NotNeat
<1>6. /\ State = [rc |-> State.rc, files |-> State.files, jobs |-> State.jobs,
                  lost |-> State.lost]
      /\ State.files = [log |-> State.files.log, worker_waitfile |-> State.files.worker_waitfile,
                 master_waitfile |-> State.files.master_waitfile,
                 worker_input |-> State.files.worker_input,
                 worker_output |-> State.files.worker_output,
                 moment_worker_file |-> State.files.moment_worker_file]
      /\ State.files.worker_waitfile \in [Slot -> Seq(Entry)]
  BY <1>4, RecordsAre
<1>7. /\ State.rc = [fileWorkers |-> State.rc.fileWorkers,
                     hostadd_reqs |-> State.rc.hostadd_reqs, resuming |-> State.rc.resuming,
                     synced |-> State.rc.synced, looping |-> State.rc.looping]
      /\ State.rc.fileWorkers \in [Slot -> FileWorker]
      /\ State.rc.hostadd_reqs \in [Classes -> Nat]
      /\ State.rc.resuming \subseteq Slot /\ State.rc.looping \in BOOLEAN
  BY <1>4, WorkersAre
<1>8. w \in FileWorker /\ n \in Nat
  <2>1. w \in FileWorker
    BY <1>5, <1>7
  <2> QED
    BY <2>1, WorkerIs DEF SIMUL_SEND
<1>9. s = [State EXCEPT !.rc = r, !.files = [State.files EXCEPT !.worker_waitfile = ww]]
  BY <1>1, <1>6, <1>7
<1> HIDE DEF i, n
<1>10. v \in FileWorker /\ Face(w, v)
  BY <1>8 DEF FileWorker, Face
<1> HIDE DEF v, w
<1>11. fw \in [Slot -> FileWorker] /\ fw[i] = v
       /\ \A k \in Slot : k # i => fw[k] = State.rc.fileWorkers[k]
  BY <1>5, <1>7, <1>10
<1>12. e \in Entry
  BY <1>8 DEF Entry
<1> HIDE DEF e
<1>13. ww \in [Slot -> Seq(Entry)]
  <2>1. f \in [Slot -> Seq(Entry)]
    BY <1>6
  <2> HIDE DEF f
  <2>2. Append(f[i], e) \in Seq(Entry)
    BY <1>5, <1>12, <2>1
  <2> QED
    BY <2>1, <2>2
<1> HIDE DEF fw, ww
<1>14. r.fileWorkers = fw /\ r.hostadd_reqs = State.rc.hostadd_reqs
  BY <1>7
<1>15. r \in MemoryType
  BY <1>4, <1>11 DEF Works, MemoryType
<1>16. /\ s.rc = r /\ s.jobs = State.jobs /\ s.lost = State.lost
       /\ s = [rc |-> s.rc, files |-> s.files, jobs |-> s.jobs, lost |-> s.lost]
       /\ s.files = [log |-> s.files.log, worker_waitfile |-> s.files.worker_waitfile,
                 master_waitfile |-> s.files.master_waitfile,
                 worker_input |-> s.files.worker_input,
                 worker_output |-> s.files.worker_output,
                 moment_worker_file |-> s.files.moment_worker_file]
       /\ s.files.log = State.files.log /\ s.files.worker_waitfile = ww
       /\ s.files.master_waitfile = State.files.master_waitfile
       /\ s.files.worker_input = State.files.worker_input
       /\ s.files.worker_output = State.files.worker_output
       /\ s.files.moment_worker_file = State.files.moment_worker_file
  <2> HIDE DEF r
  <2> QED
    BY <1>6, <1>9
<1>17. FilesType(s.files)
  <2>1. FilesType(State.files)
    BY <1>4 DEF Typed
  <2> QED
    BY <1>13, <1>16, <2>1, Zenon DEF FilesType
<1>18. Typed(s) /\ Works(s)
  BY <1>4, <1>15, <1>16, <1>17 DEF Typed, Works
<1>19. Same(State, s)
  <2>1. \A k \in Slot : Face(State.rc.fileWorkers[k], s.rc.fileWorkers[k])
    BY <1>10, <1>11, <1>14, <1>16 DEF Face, w
  <2>2. s.rc.hostadd_reqs = State.rc.hostadd_reqs
    BY <1>14, <1>16
  <2> QED
    BY <1>4, <1>16, <1>18, <2>1, <2>2 DEF Same, SameJobs
<1>20. Plain("RE_INIT") \in Message
  BY DEF Plain, Message
<1>21. Typed(t) /\ Works(t) /\ Same(s, t)
  <2> HIDE DEF m
  <2>1. m \in Message
    BY <1>20 DEF m
  <2> QED
    BY <1>2, <1>5, <1>18, <2>1, SendIs, Zenon
<1>22. Same(State, t)
  BY <1>19, <1>21 DEF Same, SameJobs, Face
<1> QED
  BY <1>3, <1>4, <1>5, <1>21, <1>22, SameGoes, Zenon

LEMMA ResetGoes ==
  ASSUME Inv, ResetCounters
  PROVE  Goes
<1> DEFINE i == Min(rc.resuming)
           w == State.rc.fileWorkers[i]
           v == [w EXCEPT !.counter = 0, !.worker_counter = 0]
           fw == [State.rc.fileWorkers EXCEPT ![i] = v]
           r == [State.rc EXCEPT !.fileWorkers = fw, !.resuming = State.rc.resuming \ {i},
                                 !.synced = FALSE]
           mw == [State.files.master_waitfile EXCEPT ![i] = <<>>]
           F == [State.files EXCEPT !.master_waitfile = mw]
<1>1. PICK t : t = [State EXCEPT !.rc = r, !.files = F]
  OBVIOUS
<1>2. /\ Up /\ rc.resuming # {}
      /\ rc' = [rc EXCEPT !.fileWorkers[i].counter = 0, !.fileWorkers[i].worker_counter = 0,
                          !.resuming = @ \ {i}, !.synced = FALSE]
      /\ files' = [files EXCEPT !.master_waitfile[i] = <<>>]
      /\ UNCHANGED <<jobs, workers, lost, sent, crashes, faults, odd>>
  BY Zenon DEF ResetCounters
<1>3. Works(State) /\ Typed(State)
  BY <1>2, InvIs
<1>4. i \in Slot /\ ~Neat
  BY <1>2, <1>3, NotNeat
<1>5. /\ State = [rc |-> State.rc, files |-> State.files, jobs |-> State.jobs,
                  lost |-> State.lost]
      /\ State.files = [log |-> State.files.log, worker_waitfile |-> State.files.worker_waitfile,
                 master_waitfile |-> State.files.master_waitfile,
                 worker_input |-> State.files.worker_input,
                 worker_output |-> State.files.worker_output,
                 moment_worker_file |-> State.files.moment_worker_file]
      /\ State.files.master_waitfile \in [Slot -> Seq(Entry)]
  BY <1>3, RecordsAre
<1>6. /\ State.rc = [fileWorkers |-> State.rc.fileWorkers,
                     hostadd_reqs |-> State.rc.hostadd_reqs, resuming |-> State.rc.resuming,
                     synced |-> State.rc.synced, looping |-> State.rc.looping]
      /\ State.rc.fileWorkers \in [Slot -> FileWorker]
      /\ State.rc.hostadd_reqs \in [Classes -> Nat]
      /\ State.rc.resuming \subseteq Slot /\ State.rc.looping \in BOOLEAN
  BY <1>3, WorkersAre
<1>7. files' = F
  BY <1>2, <1>5, StateIs
<1>8. rc' = r
  <2> DEFINE gw == [State.rc.fileWorkers EXCEPT
                      ![i] = [[State.rc.fileWorkers[i] EXCEPT !.counter = 0]
                                EXCEPT !.worker_counter = 0]]
             q == State.rc
             r1 == [q EXCEPT !.fileWorkers[i].counter = 0]
             r2 == [r1 EXCEPT !.fileWorkers[i].worker_counter = 0]
  <2>1. gw = fw
    OBVIOUS
  <2>2. r2 = [q EXCEPT !.fileWorkers = gw]
    BY <1>6
  <2>3. rc' = [r2 EXCEPT !.resuming = State.rc.resuming \ {i}, !.synced = FALSE]
    BY <1>2, <1>6, StateIs
  <2> HIDE DEF gw, r2, fw
  <2> QED
    BY <1>6, <2>1, <2>2, <2>3
<1> HIDE DEF i
<1>9. w \in FileWorker
  BY <1>4, <1>6
<1>10. v \in FileWorker /\ Face(w, v)
  BY <1>9 DEF FileWorker, Face
<1> HIDE DEF v, w
<1>11. fw \in [Slot -> FileWorker] /\ fw[i] = v
       /\ \A k \in Slot : k # i => fw[k] = State.rc.fileWorkers[k]
  BY <1>4, <1>6, <1>10
<1>12. mw \in [Slot -> Seq(Entry)]
  <2>1. <<>> \in Seq(Entry)
    OBVIOUS
  <2> QED
    BY <1>4, <1>5, <2>1
<1> HIDE DEF fw, mw
<1>13. r.fileWorkers = fw /\ r.hostadd_reqs = State.rc.hostadd_reqs
  BY <1>6
<1>14. r \in MemoryType
  <2>1. State.rc.resuming \ {i} \in SUBSET Slot
    BY <1>6
  <2> QED
    BY <1>3, <1>11, <2>1 DEF Works, MemoryType
<1>15. /\ t.rc = r /\ t.jobs = State.jobs /\ t.lost = State.lost /\ t.files = F
       /\ t = [rc |-> t.rc, files |-> t.files, jobs |-> t.jobs, lost |-> t.lost]
  <2> HIDE DEF r, F
  <2> QED
    BY <1>1, <1>5
<1>16. /\ t.files = [log |-> t.files.log, worker_waitfile |-> t.files.worker_waitfile,
                 master_waitfile |-> t.files.master_waitfile,
                 worker_input |-> t.files.worker_input,
                 worker_output |-> t.files.worker_output,
                 moment_worker_file |-> t.files.moment_worker_file]
       /\ t.files.log = State.files.log /\ t.files.master_waitfile = mw
       /\ t.files.worker_waitfile = State.files.worker_waitfile
       /\ t.files.worker_input = State.files.worker_input
       /\ t.files.worker_output = State.files.worker_output
       /\ t.files.moment_worker_file = State.files.moment_worker_file
  BY <1>5, <1>15
<1>17. FilesType(t.files)
  <2>1. FilesType(State.files)
    BY <1>3 DEF Typed
  <2> QED
    BY <1>12, <1>16, <2>1, Zenon DEF FilesType
<1>18. Typed(t) /\ Works(t)
  BY <1>3, <1>14, <1>15, <1>17 DEF Typed, Works
<1>19. Same(State, t)
  <2>1. \A k \in Slot : Face(State.rc.fileWorkers[k], t.rc.fileWorkers[k])
    BY <1>10, <1>11, <1>13, <1>15 DEF Face, w
  <2>2. t.rc.hostadd_reqs = State.rc.hostadd_reqs
    BY <1>13, <1>15
  <2> QED
    BY <1>3, <1>15, <1>16, <1>18, <2>1, <2>2 DEF Same, SameJobs
<1>20. Becomes(t)
  BY <1>2, <1>7, <1>8, <1>15, StateIs DEF Becomes
<1> QED
  BY <1>2, <1>3, <1>4, <1>18, <1>19, <1>20, SameGoes, Zenon

(* What the counters are taken for. *)
LEMMA NextNumberIs ==
  ASSUME NEW f \in Seq(Entry)
  PROVE  NextNumber(f) \in Nat
<1>1. CASE Oks(f) = {}
  BY <1>1 DEF NextNumber
<1>2. CASE Oks(f) # {}
  <2>1. Oks(f) \in SUBSET (1 .. Len(f)) /\ Len(f) \in Nat
    BY DEF Oks
  <2>2. Max(Oks(f)) \in Oks(f)
    BY <1>2, <2>1, MaxUpTo
  <2>3. Max(Oks(f)) \in DOMAIN f
    BY <2>2 DEF Oks
  <2>4. f[Max(Oks(f))].n \in Nat
    BY <2>3, EntryIs
  <2> QED
    BY <1>2, <2>4 DEF NextNumber
<1> QED
  BY <1>1, <1>2

(* A slot on file comes back with what its log says. *)
BackOf(m, a, x, y) ==
  IF m.job = NoJob THEN Unused
  ELSE [Unused EXCEPT !.state = a.state, !.event_no = a.event_no, !.counter = x,
                      !.worker_counter = y, !.job = m.job, !.exec_class = m.exec_class]

LEMMA BackIs ==
  ASSUME NEW m \in [job : Nat, exec_class : Classes], NEW log, NEW a, Seen(log, a),
         HasLog(m, log), NEW x \in Nat, NEW y \in Nat, NEW w, w = BackOf(m, a, x, y)
  PROVE  /\ w \in FileWorker /\ SlotOK(w, log) /\ InFile(w, m)
         /\ w.state \in {"FREE", "SUBMITTED", "RUNNING", "KILLED"}
         /\ w.state # "FREE" => w.job # NoJob /\ w.job = m.job
         /\ m.job # NoJob => w.state = a.state
<1>1. m.job \in Nat /\ m.exec_class \in Classes
  OBVIOUS
<1>2. 0 \in Classes
  BY <1>1, ZeroIsClass
<1>3. CASE m.job = NoJob
  <2>1. w = Unused
    BY <1>3 DEF BackOf
  <2>2. w \in FileWorker /\ w.state = "FREE" /\ w.job = NoJob
    BY <1>2, <2>1 DEF Unused, FileWorker, FileState, NoJob
  <2> QED
    BY <1>3, <2>2 DEF SlotOK, InFile
<1>4. CASE m.job # NoJob
  <2>1. w = [state |-> a.state, served |-> "NONE", event_no |-> a.event_no, counter |-> x,
             worker_counter |-> y, job |-> m.job, exec_class |-> m.exec_class]
    BY <1>4 DEF BackOf, Unused
  <2>2. a.state \in {"FREE", "SUBMITTED", "RUNNING", "KILLED"} /\ a.event_no \in Nat
    BY DEF Seen
  <2>3. w \in FileWorker
    BY <1>1, <2>1, <2>2 DEF FileWorker, FileState
  <2>4. w.state = a.state /\ w.event_no = a.event_no /\ w.job = m.job
        /\ w.exec_class = m.exec_class
    BY <2>1
  <2>5. log # <<>> /\ log[1].job = m.job /\ log[1].kind = "SUBMIT"
    BY <1>4 DEF HasLog
  <2>6. a.state \in {"RUNNING", "KILLED"} => ~(a.event_no <= 1)
    BY <2>5 DEF Seen
  <2>7. SlotOK(w, log)
    BY <1>4, <2>2, <2>4, <2>5, <2>6 DEF SlotOK
  <2>8. InFile(w, m)
    BY <2>4 DEF InFile
  <2> QED
    BY <1>4, <2>2, <2>3, <2>4, <2>7, <2>8
<1> QED
  BY <1>3, <1>4

(* The jobs that were evicted are removed. *)
Removed(J, G) == [j \in DOMAIN J |-> [J[j] EXCEPT !.removed = @ \/ j \in G]]

LEMMA GoneIs ==
  ASSUME NEW J, JobsType(J), NEW G, NEW K, K = Removed(J, G)
  PROVE  /\ JobsType(K) /\ DOMAIN K = DOMAIN J
         /\ \A j \in DOMAIN J : /\ K[j].slot = J[j].slot
                                /\ J[j].removed \/ j \in G => K[j].removed
<1>1. J \in [DOMAIN J -> Job] /\ IsFiniteSet(DOMAIN J) /\ DOMAIN J \subseteq Nat \ {NoJob}
  BY DEF JobsType
<1>2. ASSUME NEW j \in DOMAIN J
      PROVE  /\ K[j] \in Job /\ K[j].slot = J[j].slot
             /\ J[j].removed \/ j \in G => K[j].removed
  <2>1. J[j] \in Job
    BY <1>1
  <2>2. K[j] = [J[j] EXCEPT !.removed = J[j].removed \/ j \in G]
    BY DEF Removed
  <2>3. PICK b \in BOOLEAN : b = (J[j].removed \/ j \in G)
    OBVIOUS
  <2>4. K[j] = [J[j] EXCEPT !.removed = b]
    BY <2>2, <2>3, Zenon
  <2>5. K[j] \in Job /\ K[j].slot = J[j].slot /\ K[j].removed = b
    BY <2>1, <2>4 DEF Job
  <2> QED
    BY <2>3, <2>5
<1>3. DOMAIN K = DOMAIN J /\ K \in [DOMAIN J -> Job]
  BY <1>2 DEF Removed
<1> QED
  BY <1>1, <1>2, <1>3 DEF JobsType

(* The master dies. *)
LEMMA CrashKeeps ==
  ASSUME Inv, Crash
  PROVE  Inv'
<1>1. /\ Sound(State) /\ Typed(State) /\ Within
  BY InvIs, Zenon
<1>2. /\ crashes < MaxCrashes /\ crashes' = crashes + 1 /\ rc' = NULL
      /\ workers' = [i \in Slot |-> NoWorker] /\ lost' = [c \in Classes |-> 0]
      /\ UNCHANGED <<files, jobs, sent, faults, odd>>
  BY Zenon DEF Crash
<1>3. PICK t : t = State'
  OBVIOUS
<1>4. /\ t = [rc |-> t.rc, files |-> t.files, jobs |-> t.jobs, lost |-> t.lost]
      /\ t.rc = NULL /\ t.files = State.files /\ t.jobs = State.jobs
      /\ t.lost = [c \in Classes |-> 0]
  BY <1>2, <1>3 DEF State
<1>5. Typed(t)
  BY <1>1, <1>4 DEF Typed
<1>6. Works(t) => Slot = {} /\ Classes = {}
  BY <1>4, NothingIsNull DEF Works
<1>7. Logs(t)
  BY <1>1, <1>4 DEF Sound, Logs
<1>8. Slots(t)
  BY <1>6 DEF Slots
<1>9. Filed(t)
  BY <1>1, <1>4, <1>6 DEF Sound, Filed
<1>10. Account(t)
  BY <1>4, <1>6 DEF Account
<1>11. Owned(t)
  <2>1. SUFFICES ASSUME ~LateRemoval
          PROVE  /\ \A i \in Slot : MemoOwn(t.files.moment_worker_file[i], t.files.log[i])
                 /\ \A j \in DOMAIN t.jobs : JobOwn(j, t.jobs[j], Memo(t, j))
                 /\ Works(t) => \A j \in DOMAIN t.jobs : Kept(j, t.jobs[j], WorkerOf(t, j))
    BY Zenon DEF Owned
  <2>2. /\ \A i \in Slot : MemoOwn(State.files.moment_worker_file[i], State.files.log[i])
        /\ \A j \in DOMAIN State.jobs : JobOwn(j, State.jobs[j], Memo(State, j))
    BY <1>1, <2>1, Zenon DEF Sound, Owned
  <2>3. \A j \in DOMAIN t.jobs : JobOwn(j, t.jobs[j], Memo(t, j))
    BY <1>4, <2>2 DEF Memo
  <2>4. \A i \in Slot : MemoOwn(t.files.moment_worker_file[i], t.files.log[i])
    BY <1>4, <2>2
  <2>5. ASSUME Works(t) PROVE DOMAIN t.jobs = {}
    <3>1. \A j \in DOMAIN t.jobs : t.jobs[j].slot \in Slot
      BY <1>5, JobIs DEF Typed
    <3> QED
      BY <1>6, <2>5, <3>1
  <2> QED
    BY <2>3, <2>4, <2>5
<1>12. Sound(t)
  BY <1>5, <1>7, <1>8, <1>9, <1>10, <1>11 DEF Sound
<1>13. workers' \in [Slot -> WorkerID]
  <2>1. ASSUME NEW i \in Slot PROVE NoWorker \in WorkerID
    <3>1. State.files.moment_worker_file[i].exec_class \in Classes
      BY <1>1, RecordsAre
    <3> QED
      BY <3>1, NoWorkerIs
  <2> QED
    BY <1>2, <2>1
<1>14. Reported(t, workers')
  BY <1>6 DEF Reported
<1>15. crashes \in Nat /\ MaxCrashes \in Nat
  BY <1>1, FileBounds DEF Within
<1>16. Within' /\ crashes' # 0
  BY <1>1, <1>2, <1>15 DEF Within
<1>17. ~Neat'
  BY <1>16 DEF Neat
<1>18. Good(t, workers', Neat')
  BY <1>12, <1>13, <1>14, <1>17, Zenon DEF Good
<1> QED
  BY <1>3, <1>16, <1>18 DEF Inv

(* The master finds its jobs again. *)
SeenIn(F) == [i \in Slot |-> CheckLogFilesResuscicate(F.log[i])]
BackFrom(F) ==
  [i \in Slot |-> BackOf(F.moment_worker_file[i], SeenIn(F)[i],
                         NextNumber(F.master_waitfile[i]), NextNumber(F.worker_waitfile[i]))]
GoneIn(F) ==
  {F.moment_worker_file[i].job : i \in {k \in Slot : /\ F.moment_worker_file[k].job # NoJob
                                                     /\ SeenIn(F)[k].rm}}

LEMMA RestartGoes ==
  ASSUME Inv, Restart
  PROVE  Goes
<1> DEFINE m == State.files.moment_worker_file
           log == State.files.log
           seen == SeenIn(State.files)
           fw == BackFrom(State.files)
           reqs == [c \in Classes |-> Requested(fw, c)]
           live == {i \in Slot : fw[i].state = "RUNNING"}
           gone == GoneIn(State.files)
           ws == [i \in Slot |-> IF i \in live THEN New(fw[i].exec_class) ELSE NoWorker]
           J == Removed(State.jobs, gone)
<1>1. /\ ~Up
      /\ rc' = Memory(fw, reqs, live) /\ workers' = ws /\ jobs' = J
      /\ UNCHANGED <<files, lost, sent, crashes, faults, odd>>
  <2> DEFINE x == BackFrom(files)
             xlive == {i \in Slot : x[i].state = "RUNNING"}
  <2>1. /\ ~Up
        /\ rc' = Memory(x, [c \in Classes |-> Requested(x, c)], xlive)
        /\ workers' = [i \in Slot |-> IF i \in xlive THEN New(x[i].exec_class) ELSE NoWorker]
        /\ jobs' = Removed(jobs, GoneIn(files))
        /\ UNCHANGED <<files, lost, sent, crashes, faults, odd>>
    BY Zenon DEF Restart, BackOf, BackFrom, SeenIn, GoneIn, Removed
  <2>2. x = fw /\ xlive = live /\ Removed(jobs, GoneIn(files)) = J
    BY StateIs
  <2> HIDE DEF x, xlive, fw, live
  <2> QED
    BY <2>1, <2>2
<1>2. /\ Sound(State) /\ Typed(State) /\ Within /\ (crashes = 0 => Works(State))
  BY InvIs, Zenon
<1>3. /\ log \in [Slot -> Seq(Event)] /\ m \in [Slot -> [job : Nat, exec_class : Classes]]
      /\ State.files.worker_waitfile \in [Slot -> Seq(Entry)]
      /\ State.files.master_waitfile \in [Slot -> Seq(Entry)]
  BY <1>2, RecordsAre
<1>4. ASSUME NEW i \in Slot
      PROVE  Seen(log[i], seen[i]) /\ HasLog(m[i], log[i])
  <2>1. HasLog(m[i], log[i])
    BY <1>2 DEF Sound, Filed
  <2>2. log[i] \in Seq(Event)
    BY <1>3
  <2>3. seen[i] = CheckLogFilesResuscicate(log[i])
    BY DEF SeenIn
  <2> HIDE DEF log, seen
  <2> QED
    BY <2>1, <2>2, <2>3, ResuscicateSees DEF log, m
<1> HIDE DEF seen
<1>5. ASSUME NEW i \in Slot
      PROVE  /\ fw[i] \in FileWorker /\ SlotOK(fw[i], log[i]) /\ InFile(fw[i], m[i])
             /\ fw[i].state \in {"FREE", "SUBMITTED", "RUNNING", "KILLED"}
             /\ fw[i].state # "FREE" => fw[i].job # NoJob /\ fw[i].job = m[i].job
             /\ m[i].job # NoJob => fw[i].state = seen[i].state
  <2> DEFINE x == NextNumber(State.files.master_waitfile[i])
             y == NextNumber(State.files.worker_waitfile[i])
             w == BackOf(m[i], seen[i], x, y)
  <2>1. x \in Nat /\ y \in Nat
    BY <1>3, NextNumberIs
  <2>2. fw[i] = w
    BY DEF BackFrom, seen
  <2>3. m[i] \in [job : Nat, exec_class : Classes]
    BY <1>3
  <2>4. Seen(log[i], seen[i]) /\ HasLog(m[i], log[i])
    BY <1>4
  <2>5. PICK v : v = w
    OBVIOUS
  <2> HIDE DEF x, y, fw
  <2>6. /\ v \in FileWorker /\ SlotOK(v, log[i]) /\ InFile(v, m[i])
        /\ v.state \in {"FREE", "SUBMITTED", "RUNNING", "KILLED"}
        /\ v.state # "FREE" => v.job # NoJob /\ v.job = m[i].job
        /\ m[i].job # NoJob => v.state = seen[i].state
    BY <2>1, <2>3, <2>4, <2>5, BackIs
  <2> QED
    BY <2>2, <2>5, <2>6
<1>6. DOMAIN fw = Slot /\ fw = [i \in Slot |-> fw[i]]
  BY DEF BackFrom
<1> HIDE DEF fw
<1>7. fw \in [Slot -> FileWorker]
  BY <1>5, <1>6
<1>8. reqs \in [Classes -> Nat] /\ live \subseteq Slot
  <2>1. ASSUME NEW c \in Classes PROVE Requested(fw, c) \in Nat
    <3>1. {i \in Slot : fw[i].state = "SUBMITTED" /\ fw[i].exec_class = c} \in SUBSET Slot
      OBVIOUS
    <3> QED
      BY <3>1, PartOfSlots DEF Requested
  <2> QED
    BY <2>1
<1>9. \A c \in Classes : reqs[c] = Requested(fw, c)
  OBVIOUS
<1>10. \A i \in Slot : i \in live <=> fw[i].state = "RUNNING"
  OBVIOUS
<1>11. \A i \in Slot : m[i].job # NoJob /\ seen[i].rm => m[i].job \in gone
  BY DEF GoneIn, seen
<1>12. /\ JobsType(J) /\ DOMAIN J = DOMAIN State.jobs
       /\ \A j \in DOMAIN State.jobs : /\ J[j].slot = State.jobs[j].slot
                                       /\ State.jobs[j].removed \/ j \in gone => J[j].removed
  <2>1. JobsType(State.jobs)
    BY <1>2 DEF Typed
  <2>2. PICK K : K = J
    OBVIOUS
  <2> HIDE DEF gone
  <2>3. K = Removed(State.jobs, gone)
    BY <2>2
  <2>4. /\ JobsType(K) /\ DOMAIN K = DOMAIN State.jobs
        /\ \A j \in DOMAIN State.jobs : /\ K[j].slot = State.jobs[j].slot
                                        /\ State.jobs[j].removed \/ j \in gone => K[j].removed
    BY <2>1, <2>3, GoneIs
  <2> QED
    BY <2>2, <2>4
<1>13. \A i \in Slot : ws[i] = IF i \in live THEN New(fw[i].exec_class) ELSE NoWorker
  OBVIOUS
<1>14. ws \in [Slot -> WorkerID] /\ \A i \in Slot : ws[i].state # "NONE" => i \in live
  <2>1. ASSUME NEW i \in Slot
        PROVE  New(fw[i].exec_class) \in WorkerID /\ NoWorker \in WorkerID
               /\ NoWorker.state = "NONE"
    <3>1. fw[i].exec_class \in Classes
      BY <1>5, WorkerIs
    <3> QED
      BY <3>1, NoWorkerIs
  <2> HIDE DEF live
  <2> QED
    BY <2>1
<1> HIDE DEF reqs, live, gone, J, ws
<1>15. PICK t : t = State'
  OBVIOUS
<1>16. /\ t = [rc |-> t.rc, files |-> t.files, jobs |-> t.jobs, lost |-> t.lost]
       /\ t.rc = Memory(fw, reqs, live) /\ t.files = State.files /\ t.jobs = J
       /\ t.lost = State.lost
  BY <1>1, <1>15 DEF State
<1>17. /\ t.rc \in MemoryType /\ t.rc.fileWorkers = fw /\ t.rc.hostadd_reqs = reqs
       /\ t.rc.resuming = live /\ t.rc.synced = FALSE
  BY <1>7, <1>8, <1>16 DEF Memory, MemoryType
<1>18. Typed(t) /\ Works(t)
  BY <1>2, <1>12, <1>16, <1>17 DEF Typed, Works
<1>19. Logs(t)
  BY <1>2, <1>12, <1>16 DEF Sound, Logs, LogOK
<1>20. Slots(t)
  BY <1>5, <1>16, <1>17 DEF Slots
<1>21. Filed(t)
  BY <1>2, <1>5, <1>16, <1>17 DEF Sound, Filed
<1>22. Works(State) => Slot = {} /\ Classes = {}
  <2>1. State.rc = NULL
    BY <1>1, StateIs DEF Up
  <2> QED
    BY <2>1, NothingIsNull DEF Works
<1>23. Account(t)
  <2>1. ASSUME NEW c \in Classes
        PROVE  reqs[c] = State.lost[c] + Cardinality(Asked(fw, c))
    <3>1. State.lost[c] = 0
      BY <1>2, <1>22 DEF Sound, Account
    <3>2. Asked(fw, c) = {i \in Slot : fw[i].state = "SUBMITTED" /\ fw[i].exec_class = c}
      BY <1>5 DEF Asked
    <3>3. reqs[c] = Cardinality(Asked(fw, c)) /\ reqs[c] \in Nat
      BY <1>8, <1>9, <3>2 DEF Requested
    <3> QED
      BY <3>1, <3>3
  <2> QED
    BY <1>16, <1>17, <1>18, <2>1 DEF Account
<1>24. Owned(t)
  <2>1. SUFFICES ASSUME ~LateRemoval
          PROVE  /\ \A i \in Slot : MemoOwn(t.files.moment_worker_file[i], t.files.log[i])
                 /\ \A j \in DOMAIN t.jobs : JobOwn(j, t.jobs[j], Memo(t, j))
                 /\ \A j \in DOMAIN t.jobs : Kept(j, t.jobs[j], WorkerOf(t, j))
    BY Zenon DEF Owned
  <2>2. /\ \A i \in Slot : MemoOwn(State.files.moment_worker_file[i], State.files.log[i])
        /\ \A j \in DOMAIN State.jobs : JobOwn(j, State.jobs[j], Memo(State, j))
    BY <1>2, <2>1, Zenon DEF Sound, Owned
  <2>3. ASSUME NEW j \in DOMAIN t.jobs
        PROVE  JobOwn(j, t.jobs[j], Memo(t, j)) /\ Kept(j, t.jobs[j], WorkerOf(t, j))
    <3> DEFINE i == State.jobs[j].slot
    <3>1. /\ j \in DOMAIN State.jobs /\ i \in Slot /\ j # NoJob
          /\ t.jobs[j].slot = i
          /\ State.jobs[j].removed \/ j \in gone => t.jobs[j].removed
      <4>1. j \in DOMAIN State.jobs
        BY <1>12, <1>16
      <4> QED
        BY <1>2, <1>12, <1>16, <4>1, JobIs DEF Typed
    <3>2. Memo(t, j) = m[i] /\ WorkerOf(t, j) = fw[i]
      BY <1>16, <1>17, <3>1 DEF Memo, WorkerOf
    <3>3. m[i].job \in {NoJob, j} /\ (State.jobs[j].removed \/ m[i].job = j)
      BY <2>2, <3>1 DEF JobOwn, Memo
    <3>4. JobOwn(j, t.jobs[j], m[i])
      BY <3>1, <3>3 DEF JobOwn
    <3>5. fw[i].state # "FREE" => fw[i].job = j
      BY <1>5, <3>1, <3>3
    <3>6. ASSUME ~t.jobs[j].removed, fw[i].state \in {"FREE", "KILLED"} PROVE FALSE
      <4>1. m[i].job = j /\ m[i].job # NoJob
        BY <3>1, <3>3, <3>6
      <4>2. fw[i].state = seen[i].state
        BY <1>5, <3>1, <4>1
      <4>3. ~seen[i].rm
        BY <1>11, <3>1, <3>6, <4>1
      <4>4. Seen(log[i], seen[i]) /\ HasLog(m[i], log[i])
        BY <1>4, <3>1
      <4>5. seen[i].state # "FREE"
        BY <4>1, <4>3, <4>4 DEF Seen, HasLog
      <4>6. PICK k \in DOMAIN log[i] : log[i][k].kind \in {"ABORTED", "TERMINATED"}
        BY <3>6, <4>2, <4>3, <4>4, <4>5 DEF Seen
      <4>7. log[i][k].job \notin DOMAIN State.jobs
        BY <1>2, <3>1, <4>6 DEF Sound, Logs, LogOK
      <4>8. log[i][k].job = m[i].job
        BY <2>2, <3>1, <4>1, <4>6 DEF MemoOwn
      <4> QED
        BY <3>1, <4>1, <4>7, <4>8
    <3> QED
      BY <3>2, <3>4, <3>5, <3>6 DEF Kept
  <2> QED
    BY <1>16, <2>2, <2>3
<1>25. Sound(t)
  BY <1>18, <1>19, <1>20, <1>21, <1>23, <1>24 DEF Sound
<1>26. Reported(t, ws)
  BY <1>10, <1>14, <1>17 DEF Reported
<1>27. ASSUME Neat PROVE Talk(t, ws)
  <2>1. Slot = {}
    BY <1>2, <1>22, <1>27 DEF Neat
  <2>2. live = {}
    BY <1>8, <2>1
  <2>3. Processes(t.jobs)
    <3>1. ASSUME NEW j \in DOMAIN t.jobs PROVE FALSE
      BY <1>18, <2>1, JobIs DEF Typed
    <3> QED
      BY <3>1 DEF Processes
  <2> QED
    BY <1>17, <2>1, <2>2, <2>3 DEF Talk
<1>28. Good(t, ws, Neat)
  BY <1>14, <1>25, <1>26, <1>27, Zenon DEF Good
<1>29. Within' /\ crashes' = crashes
  BY <1>1, <1>2 DEF Within
<1> QED
  BY <1>1, <1>15, <1>18, <1>28, <1>29 DEF Goes

-----------------------------------------------------------------------------
(* The master reads the logs. *)

Reads(w, v, log) ==
  /\ v.job = w.job /\ v.exec_class = w.exec_class
  /\ v.counter = w.counter /\ v.worker_counter = w.worker_counter
  /\ v.state = "FREE" <=> w.state = "FREE"
  /\ v.state \in {"SUBMITTED", "EXECUTE"} => w.state \in {"SUBMITTED", "EXECUTE"}
  /\ v.state = "RUNNING" => w.state = "RUNNING"
  /\ v.state = "KILLED" /\ w.state # "KILLED" =>
       \E k \in DOMAIN log : log[k].job = w.job /\ log[k].kind \in {"ABORTED", "TERMINATED"}

LEMMA EventIs ==
  ASSUME NEW log \in Seq(Event), NEW k \in DOMAIN log
  PROVE  /\ log[k].job \in Nat
         /\ log[k].kind \in {"SUBMIT", "EXECUTE", "EVICTED", "SHADOW_EXCEPTION",
                             "TERMINATED", "ABORTED", "OTHER"}
<1>1. log[k] \in Event
  OBVIOUS
<1> QED
  BY <1>1 DEF Event

LEMMA AfterIs ==
  ASSUME NEW z \in FileState,
         NEW kind \in {"SUBMIT", "EXECUTE", "EVICTED", "SHADOW_EXCEPTION",
                       "TERMINATED", "ABORTED", "OTHER"}
  PROVE  /\ AfterEvent(z, kind) \in FileState
         /\ kind = "SUBMIT" => AfterEvent(z, kind) = "SUBMITTED"
         /\ AfterEvent(z, kind) = "SUBMITTED" => kind = "SUBMIT" \/ z = "SUBMITTED"
         /\ AfterEvent(z, kind) = "EXECUTE" => z \in {"SUBMITTED", "EXECUTE"}
         /\ AfterEvent(z, kind) \in {"RUNNING", "FREE", "IDLE"} => z = AfterEvent(z, kind)
         /\ AfterEvent(z, kind) = "KILLED" =>
              z = "KILLED" \/ kind \in {"ABORTED", "TERMINATED"}
BY DEF AfterEvent, FileState

(* From where the log is read. *)
LEMMA FromIs ==
  ASSUME NEW n \in Nat
  PROVE  /\ Max({1, n}) \in Nat /\ Max({1, n}) >= 1 /\ Max({1, n}) >= n
         /\ Max({1, n}) = 1 \/ Max({1, n}) = n
<1>1. {1, n} \in SUBSET (0 .. n + 1) /\ {1, n} # {}
  OBVIOUS
<1>2. 1 >= n \/ n >= 1
  OBVIOUS
<1>3. \E x \in {1, n} : \A y \in {1, n} : x >= y
  BY <1>2
<1>4. Max({1, n}) \in {1, n} /\ \A y \in {1, n} : Max({1, n}) >= y
  BY <1>3, Zenon DEF Max
<1> QED
  BY <1>4

LEMMA SkippedIs ==
  ASSUME NEW n \in Int
  PROVE  Max({0, n}) \in Nat
<1>1. 0 >= n \/ n >= 0
  OBVIOUS
<1>2. \E x \in {0, n} : \A y \in {0, n} : x >= y
  BY <1>1
<1>3. Max({0, n}) \in {0, n} /\ \A y \in {0, n} : Max({0, n}) >= y
  BY <1>2, Zenon DEF Max
<1> QED
  BY <1>3

LEMMA ReadIs ==
  ASSUME NEW w \in FileWorker, NEW log \in Seq(Event), NEW J, LogOK(log, J), SlotOK(w, log),
         NEW v, v = ReadLog(w, log)
  PROVE  v \in FileWorker /\ SlotOK(v, log) /\ Reads(w, v, log)
<1> DEFINE e == Max({1, w.event_no})
           own == {k \in e .. Len(log) : log[k].job = w.job}
           next == Min(own)
           skipped == Max({0, Len(log) + 1 - e})
           more == IF log[next].kind = "OTHER" THEN 2 ELSE 1
<1>1. /\ w = [state |-> w.state, served |-> w.served, event_no |-> w.event_no,
              counter |-> w.counter, worker_counter |-> w.worker_counter,
              job |-> w.job, exec_class |-> w.exec_class]
      /\ w.state \in FileState /\ w.served \in FileState \cup {"NONE"}
      /\ w.event_no \in Nat /\ w.counter \in Nat /\ w.worker_counter \in Nat
      /\ w.job \in Nat /\ w.exec_class \in Classes
  BY WorkerIs
<1>2. e \in Nat /\ e >= 1 /\ e >= w.event_no /\ (e = 1 \/ e = w.event_no)
  BY <1>1, FromIs
<1>3. Len(log) \in Nat /\ DOMAIN log = 1 .. Len(log)
  OBVIOUS
<1>4. skipped \in Nat
  <2> HIDE DEF e
  <2>1. Len(log) + 1 - e \in Int
    BY <1>2, <1>3
  <2> QED
    BY <2>1, SkippedIs
<1>5. w.state = "FREE" => v = w
  BY DEF ReadLog
<1>6. w.state # "FREE" /\ log = <<>> => v = [w EXCEPT !.state = "IDLE", !.event_no = 0]
  BY DEF ReadLog
<1>7. w.state # "FREE" /\ log # <<>> /\ own = {} =>
        v = [w EXCEPT !.event_no = w.event_no + skipped]
  BY DEF ReadLog
<1>8. w.state # "FREE" /\ log # <<>> /\ own # {} =>
        v = [w EXCEPT !.state = AfterEvent(w.state, log[next].kind),
                      !.event_no = w.event_no + (next - e) + more]
  BY DEF ReadLog
<1>9. own # {} => /\ next \in DOMAIN log /\ next >= e /\ next \in Nat
                  /\ log[next].job = w.job
  <2>1. ASSUME own # {} PROVE next \in own
    <3>1. own \in SUBSET Nat
      BY <1>2, <1>3
    <3> HIDE DEF own
    <3> QED
      BY <2>1, <3>1, LeastOf
  <2> HIDE DEF next, e
  <2> QED
    BY <1>2, <1>3, <2>1
<1>10. own # {} => w.job # NoJob
  BY <1>9 DEF LogOK
<1> HIDE DEF e, own, next, skipped
<1>11. CASE w.state = "FREE"
  <2>1. v = w
    BY <1>5, <1>11
  <2> QED
    BY <1>11, <2>1 DEF Reads
<1>12. CASE w.state # "FREE" /\ log = <<>>
  <2>1. w.job = NoJob
    BY <1>12 DEF SlotOK
  <2>2. v = [state |-> "IDLE", served |-> w.served, event_no |-> 0,
             counter |-> w.counter, worker_counter |-> w.worker_counter,
             job |-> w.job, exec_class |-> w.exec_class]
    BY <1>1, <1>6, <1>12
  <2>3. v \in FileWorker
    BY <1>1, <2>2 DEF FileWorker, FileState
  <2>4. Reads(w, v, log)
    BY <1>12, <2>2 DEF Reads
  <2>5. SlotOK(v, log)
    BY <2>1, <2>2 DEF SlotOK
  <2> QED
    BY <2>3, <2>4, <2>5
<1>13. CASE w.state # "FREE" /\ log # <<>> /\ own = {}
  <2> DEFINE x == w.event_no + skipped
  <2>1. x \in Nat /\ x >= w.event_no
    BY <1>1, <1>4
  <2>2. v = [w EXCEPT !.event_no = x]
    BY <1>7, <1>13
  <2> HIDE DEF x
  <2>3. v = [state |-> w.state, served |-> w.served, event_no |-> x,
             counter |-> w.counter, worker_counter |-> w.worker_counter,
             job |-> w.job, exec_class |-> w.exec_class]
    BY <1>1, <2>2
  <2>4. v \in FileWorker
    BY <1>1, <2>1, <2>3 DEF FileWorker
  <2>5. v.state = w.state /\ v.job = w.job /\ v.exec_class = w.exec_class /\ v.event_no = x
        /\ v.counter = w.counter /\ v.worker_counter = w.worker_counter
    BY <2>3
  <2>6. Reads(w, v, log)
    BY <2>5 DEF Reads
  <2>7. x <= 1 => w.event_no <= 1
    BY <1>1, <2>1
  <2>8. SlotOK(v, log)
    BY <2>5, <2>7 DEF SlotOK
  <2> QED
    BY <2>4, <2>6, <2>8
<1>14. CASE w.state # "FREE" /\ log # <<>> /\ own # {}
  <2> DEFINE x == w.event_no + (next - e) + more
             z == AfterEvent(w.state, log[next].kind)
  <2>1. /\ next \in DOMAIN log /\ next >= e /\ next \in Nat /\ log[next].job = w.job
        /\ w.job # NoJob
    BY <1>9, <1>10, <1>14
  <2>2. x \in Nat /\ x >= 1 /\ (x <= 1 => next = 1 /\ w.event_no <= 1)
    <3>1. more \in {1, 2}
      OBVIOUS
    <3> HIDE DEF more
    <3> QED
      BY <1>1, <1>2, <2>1, <3>1
  <2>3. v = [w EXCEPT !.state = z, !.event_no = x]
    BY <1>8, <1>14
  <2>4. log[next].kind \in {"SUBMIT", "EXECUTE", "EVICTED", "SHADOW_EXCEPTION",
                            "TERMINATED", "ABORTED", "OTHER"}
    BY <2>1, EventIs
  <2>5. /\ z \in FileState
        /\ log[next].kind = "SUBMIT" => z = "SUBMITTED"
        /\ z = "SUBMITTED" => log[next].kind = "SUBMIT" \/ w.state = "SUBMITTED"
        /\ z = "EXECUTE" => w.state \in {"SUBMITTED", "EXECUTE"}
        /\ z \in {"RUNNING", "FREE", "IDLE"} => w.state = z
        /\ z = "KILLED" => w.state = "KILLED" \/ log[next].kind \in {"ABORTED", "TERMINATED"}
    BY <1>1, <2>4, AfterIs
  <2> HIDE DEF x, z
  <2>6. v = [state |-> z, served |-> w.served, event_no |-> x,
             counter |-> w.counter, worker_counter |-> w.worker_counter,
             job |-> w.job, exec_class |-> w.exec_class]
    BY <1>1, <2>3
  <2>7. v \in FileWorker
    BY <1>1, <2>2, <2>5, <2>6 DEF FileWorker
  <2>8. v.state = z /\ v.job = w.job /\ v.exec_class = w.exec_class /\ v.event_no = x
        /\ v.counter = w.counter /\ v.worker_counter = w.worker_counter
    BY <2>6
  <2>9. log[next].kind = "SUBMIT" => w.state = "SUBMITTED"
    <3>1. ASSUME log[next].kind = "SUBMIT" PROVE next = 1 /\ w.event_no <= 1
      <4>1. next = 1
        BY <2>1, <3>1 DEF LogOK
      <4> QED
        BY <1>1, <1>2, <2>1, <4>1
    <3> QED
      BY <1>14, <2>1, <3>1 DEF SlotOK
  <2>10. Reads(w, v, log)
    <3>1. w.state # "IDLE"
      BY <1>14, <2>1 DEF SlotOK
    <3>2. z # "FREE"
      BY <1>14, <2>5
    <3>3. z \in {"SUBMITTED", "EXECUTE"} => w.state \in {"SUBMITTED", "EXECUTE"}
      BY <2>5, <2>9
    <3>4. z = "KILLED" /\ w.state # "KILLED" =>
            \E k \in DOMAIN log : log[k].job = w.job /\ log[k].kind \in {"ABORTED", "TERMINATED"}
      BY <2>1, <2>5
    <3>5. z = "RUNNING" => w.state = "RUNNING"
      BY <2>5
    <3> QED
      BY <1>14, <2>8, <3>2, <3>3, <3>4, <3>5 DEF Reads
  <2>11. SlotOK(v, log)
    <3>1. z # "IDLE"
      BY <1>14, <2>1, <2>5 DEF SlotOK
    <3>2. z # "SUBMITTED" /\ x <= 1 => log[1].kind # "SUBMIT"
      BY <2>2, <2>5
    <3> QED
      BY <1>14, <2>1, <2>8, <3>1, <3>2 DEF SlotOK
  <2> QED
    BY <2>7, <2>10, <2>11
<1> QED
  BY <1>11, <1>12, <1>13, <1>14

(* A job that was asked for is asked for still, or missed. *)
ReadAll(fw, gw, log) ==
  \A i \in Slot : /\ SlotOK(fw[i], log[i]) /\ SlotOK(gw[i], log[i])
                  /\ Reads(fw[i], gw[i], log[i]) /\ gw[i].state \in FileState
Missed(fw, gw, c) ==
  {i \in Slot : /\ fw[i].state \in {"SUBMITTED", "EXECUTE"}
                /\ gw[i].state \in {"KILLED", "TRANSIT"}
                /\ gw[i].exec_class = c}

LEMMA AskedIs ==
  ASSUME NEW fw, NEW gw, NEW log, ReadAll(fw, gw, log), NEW c
  PROVE  /\ Cardinality(Asked(fw, c)) = Cardinality(Missed(fw, gw, c)) + Cardinality(Asked(gw, c))
         /\ Cardinality(Missed(fw, gw, c)) \in Nat /\ Cardinality(Asked(gw, c)) \in Nat
<1> DEFINE M == Missed(fw, gw, c)
<1>1. ASSUME NEW i \in Slot
      PROVE  /\ i \in Asked(fw, c) <=> i \in M \/ i \in Asked(gw, c)
             /\ ~(i \in M /\ i \in Asked(gw, c))
  <2> DEFINE w == fw[i]
             v == gw[i]
  <2>1. /\ SlotOK(w, log[i]) /\ SlotOK(v, log[i]) /\ Reads(w, v, log[i])
        /\ v.state \in FileState
    BY DEF ReadAll
  <2>2. i \in M <=> /\ w.state \in {"SUBMITTED", "EXECUTE"}
                    /\ v.state \in {"KILLED", "TRANSIT"} /\ v.exec_class = c
    BY DEF Missed
  <2>3. /\ i \in Asked(fw, c) <=> /\ w.state \in {"SUBMITTED", "EXECUTE"}
                                  /\ w.job # NoJob /\ w.exec_class = c
        /\ i \in Asked(gw, c) <=> /\ v.state \in {"SUBMITTED", "EXECUTE"}
                                  /\ v.job # NoJob /\ v.exec_class = c
    BY DEF Asked
  <2> HIDE DEF w, v
  <2>4. /\ v.job = w.job /\ v.exec_class = w.exec_class
        /\ v.state = "FREE" => w.state = "FREE"
        /\ v.state \in {"SUBMITTED", "EXECUTE"} => w.state \in {"SUBMITTED", "EXECUTE"}
        /\ v.state = "RUNNING" => w.state = "RUNNING"
        /\ v.job = NoJob => v.state \in {"FREE", "SUBMITTED", "IDLE"}
        /\ v.job # NoJob => v.state # "IDLE"
    BY <2>1 DEF Reads, SlotOK
  <2> QED
    BY <2>1, <2>2, <2>3, <2>4 DEF FileState
<1>2. /\ M \subseteq Slot /\ Asked(gw, c) \subseteq Slot /\ Asked(fw, c) \subseteq Slot
  BY DEF Asked, Missed
<1>3. /\ IsFiniteSet(M) /\ Cardinality(M) \in Nat
      /\ IsFiniteSet(Asked(gw, c)) /\ Cardinality(Asked(gw, c)) \in Nat
  BY <1>2, PartOfSlots
<1>4. Asked(fw, c) = M \cup Asked(gw, c) /\ M \cap Asked(gw, c) = {}
  BY <1>1, <1>2
<1>5. Cardinality(M \cup Asked(gw, c)) = Cardinality(M) + Cardinality(Asked(gw, c))
        - Cardinality(M \cap Asked(gw, c))
  BY <1>3, FS_Union, Zenon
<1>6. Cardinality(M \cap Asked(gw, c)) = 0
  BY <1>4, FS_EmptySet
<1> QED
  BY <1>3, <1>4, <1>5, <1>6

(* Two that talk do so after the log was read. *)
LEMMA ReadTalks ==
  ASSUME NEW w, NEW v, NEW log, Reads(w, v, log), NEW wk, NEW ww, NEW mw, NEW input, NEW output,
         Talks(w, wk, ww, mw, input, output)
  PROVE  Talks(v, wk, ww, mw, input, output)
<1>1. /\ v.counter = w.counter /\ v.worker_counter = w.worker_counter
      /\ v.state \in {"SUBMITTED", "EXECUTE"} => w.state \in {"SUBMITTED", "EXECUTE"}
      /\ v.state = "RUNNING" => w.state = "RUNNING"
  BY DEF Reads
<1>2. v.state \in Alive => w.state \in Alive
  BY <1>1 DEF Alive
<1>3. PICK t \in Task \cup {NoTask} : About(t, w, wk, ww, mw, input, output)
  BY Zenon DEF Talks
<1>4. /\ w.state \in Alive => t = wk.task
      /\ Sent(w, t, ww, input) /\ Said(w, t, mw, input, output)
  BY <1>3, Zenon DEF About
<1>5. Sent(v, t, ww, input)
  BY <1>1, <1>4 DEF Sent
<1>6. Said(v, t, mw, input, output)
  BY <1>1, <1>4 DEF Said
<1>7. InTurn(w, wk)
  BY Zenon DEF Talks
<1>8. InTurn(v, wk)
  BY <1>1, <1>7 DEF InTurn
<1> QED
  BY <1>2, <1>4, <1>5, <1>6, <1>8, Zenon DEF Talks, About

LEMMA CheckLogsGoes ==
  ASSUME Inv, CheckLogFilesRunning
  PROVE  Goes
<1> DEFINE log == State.files.log
           fw == State.rc.fileWorkers
           gw == [i \in Slot |-> ReadLog(fw[i], log[i])]
           missed(c) == Missed(fw, gw, c)
           left == [c \in Classes |-> State.lost[c] + Cardinality(missed(c))]
<1>1. /\ Up /\ rc' = [State.rc EXCEPT !.fileWorkers = gw] /\ lost' = left
      /\ UNCHANGED <<files, jobs, workers, sent, crashes, faults, odd>>
  <2> DEFINE x == [i \in Slot |-> ReadLog(rc.fileWorkers[i], files.log[i])]
             xleft == [c \in Classes |->
                         lost[c] + Cardinality(Missed(rc.fileWorkers, x, c))]
  <2>1. /\ Up /\ rc' = [rc EXCEPT !.fileWorkers = x] /\ lost' = xleft
        /\ UNCHANGED <<files, jobs, workers, sent, crashes, faults, odd>>
    BY Zenon DEF CheckLogFilesRunning, Looping, Missed
  <2>2. State.rc = rc /\ State.files = files /\ State.lost = lost
    BY StateIs
  <2>3. x = gw
    BY <2>2
  <2> HIDE DEF x, gw
  <2>4. xleft = left
    BY <2>2, <2>3
  <2> HIDE DEF xleft, left
  <2> QED
    BY <2>1, <2>2, <2>3, <2>4
<1>2. /\ Sound(State) /\ Typed(State) /\ Works(State) /\ Within
      /\ workers \in [Slot -> WorkerID] /\ Reported(State, workers)
      /\ (Neat => Talk(State, workers))
  BY <1>1, InvIs, Zenon
<1>3. log \in [Slot -> Seq(Event)]
  BY <1>2, RecordsAre
<1>4. fw \in [Slot -> FileWorker]
  BY <1>2, WorkersAre
<1>5. ASSUME NEW i \in Slot
      PROVE  /\ gw[i] \in FileWorker /\ SlotOK(gw[i], log[i]) /\ Reads(fw[i], gw[i], log[i])
             /\ SlotOK(fw[i], log[i]) /\ gw[i].state \in FileState
  <2>1. fw[i] \in FileWorker /\ log[i] \in Seq(Event)
    BY <1>3, <1>4
  <2>2. LogOK(log[i], State.jobs) /\ SlotOK(fw[i], log[i])
    BY <1>2 DEF Sound, Logs, Slots
  <2>3. gw[i] = ReadLog(fw[i], log[i])
    OBVIOUS
  <2> HIDE DEF gw, fw, log
  <2>4. gw[i] \in FileWorker /\ SlotOK(gw[i], log[i]) /\ Reads(fw[i], gw[i], log[i])
    BY <2>1, <2>2, <2>3, ReadIs
  <2> QED
    BY <2>2, <2>4, WorkerIs
<1>6. DOMAIN gw = Slot /\ gw = [i \in Slot |-> gw[i]]
  OBVIOUS
<1> HIDE DEF gw
<1>7. gw \in [Slot -> FileWorker]
  BY <1>5, <1>6
<1>8. ASSUME NEW c \in Classes
      PROVE  /\ Cardinality(Asked(fw, c)) = Cardinality(missed(c)) + Cardinality(Asked(gw, c))
             /\ Cardinality(missed(c)) \in Nat /\ Cardinality(Asked(gw, c)) \in Nat
  <2>1. ReadAll(fw, gw, log)
    BY <1>5 DEF ReadAll
  <2> HIDE DEF fw, log
  <2> QED
    BY <2>1, AskedIs
<1>9. State.lost \in [Classes -> Nat]
  BY <1>2 DEF Typed
<1>10. left \in [Classes -> Nat] /\ \A c \in Classes :
         left[c] = State.lost[c] + Cardinality(missed(c))
  <2> HIDE DEF missed
  <2> QED
    BY <1>8, <1>9
<1> HIDE DEF left
<1>11. PICK t : t = State'
  OBVIOUS
<1>12. /\ t = [rc |-> t.rc, files |-> t.files, jobs |-> t.jobs, lost |-> t.lost]
       /\ t.rc = [State.rc EXCEPT !.fileWorkers = gw] /\ t.files = State.files
       /\ t.jobs = State.jobs /\ t.lost = left
  BY <1>1, <1>11 DEF State
<1>13. /\ State.rc = [fileWorkers |-> State.rc.fileWorkers,
                     hostadd_reqs |-> State.rc.hostadd_reqs, resuming |-> State.rc.resuming,
                     synced |-> State.rc.synced, looping |-> State.rc.looping]
  BY <1>2, WorkersAre
<1>14. /\ t.rc.fileWorkers = gw /\ t.rc.hostadd_reqs = State.rc.hostadd_reqs
       /\ t.rc.resuming = State.rc.resuming /\ t.rc.synced = State.rc.synced
  BY <1>12, <1>13
<1>15. t.rc \in MemoryType
  BY <1>2, <1>7, <1>12 DEF Works, MemoryType
<1>16. Typed(t) /\ Works(t)
  BY <1>2, <1>10, <1>12, <1>15 DEF Typed, Works
<1>17. Logs(t)
  BY <1>2, <1>12 DEF Sound, Logs
<1>18. Slots(t)
  BY <1>5, <1>12, <1>14 DEF Slots
<1>19. Filed(t)
  <2>1. ASSUME NEW i \in Slot PROVE InFile(gw[i], State.files.moment_worker_file[i])
    <3>1. InFile(fw[i], State.files.moment_worker_file[i]) /\ Reads(fw[i], gw[i], log[i])
      BY <1>2, <1>5 DEF Sound, Filed
    <3> HIDE DEF fw, log
    <3> QED
      BY <3>1 DEF InFile, Reads
  <2> QED
    BY <1>2, <1>12, <1>14, <2>1 DEF Sound, Filed
<1>20. Account(t)
  <2>1. ASSUME NEW c \in Classes
        PROVE  t.rc.hostadd_reqs[c] = t.lost[c] + Cardinality(Asked(t.rc.fileWorkers, c))
    <3>1. State.rc.hostadd_reqs[c] = State.lost[c] + Cardinality(Asked(fw, c))
      BY <1>2 DEF Sound, Account
    <3>2. State.lost[c] \in Nat
      BY <1>9
    <3>3. PICK k \in Nat : k = Cardinality(missed(c))
      BY <1>8
    <3>4. t.lost[c] = State.lost[c] + k
      BY <1>10, <1>12, <3>3
    <3>5. PICK n \in Nat : n = Cardinality(Asked(gw, c))
      BY <1>8
    <3>6. Cardinality(Asked(fw, c)) = k + n
      BY <1>8, <3>3, <3>5
    <3> QED
      BY <1>14, <3>1, <3>2, <3>4, <3>5, <3>6
  <2> QED
    BY <1>16, <2>1 DEF Account
<1>21. Owned(t)
  <2>1. SUFFICES ASSUME ~LateRemoval
          PROVE  /\ \A i \in Slot : MemoOwn(t.files.moment_worker_file[i], t.files.log[i])
                 /\ \A j \in DOMAIN t.jobs : JobOwn(j, t.jobs[j], Memo(t, j))
                 /\ \A j \in DOMAIN t.jobs : Kept(j, t.jobs[j], WorkerOf(t, j))
    BY Zenon DEF Owned
  <2>2. /\ \A i \in Slot : MemoOwn(State.files.moment_worker_file[i], State.files.log[i])
        /\ \A j \in DOMAIN State.jobs : JobOwn(j, State.jobs[j], Memo(State, j))
        /\ \A j \in DOMAIN State.jobs : Kept(j, State.jobs[j], WorkerOf(State, j))
    BY <1>2, <2>1, Zenon DEF Sound, Owned
  <2>3. ASSUME NEW j \in DOMAIN State.jobs
        PROVE  Kept(j, State.jobs[j], gw[State.jobs[j].slot])
    <3> DEFINE i == State.jobs[j].slot
               w == fw[i]
               v == gw[i]
               p == State.jobs[j]
    <3>1. i \in Slot
      BY <1>2, JobIs DEF Typed
    <3>2. Reads(w, v, log[i]) /\ LogOK(log[i], State.jobs) /\ Kept(j, p, w)
      BY <1>2, <1>5, <2>2, <3>1 DEF Sound, Logs, WorkerOf
    <3> HIDE DEF i, w, v, p
    <3>3. v.state # "FREE" => v.job = j
      BY <3>2 DEF Reads, Kept
    <3>4. ASSUME ~p.removed, v.state \in {"FREE", "KILLED"} PROVE FALSE
      <4>1. v.state = "KILLED" /\ w.state # "KILLED" /\ w.job = j
        BY <3>2, <3>4 DEF Reads, Kept
      <4>2. PICK k \in DOMAIN log[i] : /\ log[i][k].job = w.job
                                       /\ log[i][k].kind \in {"ABORTED", "TERMINATED"}
        BY <3>2, <4>1 DEF Reads
      <4> QED
        BY <3>2, <4>1, <4>2 DEF LogOK
    <3> QED
      BY <3>3, <3>4 DEF Kept, i, v, p
  <2>4. ASSUME NEW j \in DOMAIN t.jobs
        PROVE  JobOwn(j, t.jobs[j], Memo(t, j)) /\ Kept(j, t.jobs[j], WorkerOf(t, j))
    BY <1>12, <1>14, <2>2, <2>3 DEF Memo, WorkerOf
  <2> QED
    BY <1>12, <2>2, <2>4
<1>22. Sound(t)
  BY <1>16, <1>17, <1>18, <1>19, <1>20, <1>21 DEF Sound
<1>23. Reported(t, workers)
  <2>1. ASSUME NEW i \in Slot, workers[i].state # "NONE"
        PROVE  gw[i].state \in {"RUNNING", "KILLED", "TRANSIT"}
    <3> DEFINE w == fw[i]
               v == gw[i]
    <3>1. w.state \in {"RUNNING", "KILLED", "TRANSIT"}
      BY <1>2, <2>1 DEF Reported
    <3>2. SlotOK(w, log[i]) /\ SlotOK(v, log[i]) /\ Reads(w, v, log[i]) /\ v.state \in FileState
      BY <1>5
    <3> HIDE DEF w, v
    <3>3. w.job # NoJob /\ v.job = w.job /\ v.state # "FREE"
          /\ v.state \notin {"SUBMITTED", "EXECUTE"}
      BY <3>1, <3>2 DEF SlotOK, Reads
    <3>4. v.state # "IDLE"
      BY <3>2, <3>3 DEF SlotOK
    <3> QED
      BY <3>2, <3>3, <3>4 DEF FileState, v
  <2> QED
    BY <1>14, <2>1 DEF Reported
<1>24. ASSUME Neat PROVE Talk(t, workers)
  <2>1. /\ State.rc.resuming = {} /\ ~State.rc.synced
        /\ \A i \in Slot : TalksIn(State, workers, i)
    BY <1>2, <1>24 DEF Talk
  <2>2. ASSUME NEW i \in Slot PROVE TalksIn(t, workers, i)
    <3> DEFINE F == State.files
    <3>1. Talks(fw[i], workers[i], F.worker_waitfile[i], F.master_waitfile[i],
                F.worker_input[i], F.worker_output[i])
      BY <2>1 DEF TalksIn
    <3>2. Reads(fw[i], gw[i], log[i])
      BY <1>5
    <3> HIDE DEF F, fw, log
    <3>3. Talks(gw[i], workers[i], F.worker_waitfile[i], F.master_waitfile[i],
                F.worker_input[i], F.worker_output[i])
      BY <3>1, <3>2, ReadTalks
    <3> QED
      BY <1>12, <1>14, <3>3 DEF TalksIn, F
  <2>3. Processes(t.jobs)
    BY <1>2, <1>12, <1>24 DEF Talk
  <2> QED
    BY <1>14, <2>1, <2>2, <2>3 DEF Talk
<1>25. Good(t, workers, Neat)
  BY <1>2, <1>22, <1>23, <1>24, Zenon DEF Good
<1>26. Within' /\ crashes' = crashes /\ workers' = workers
  BY <1>1, <1>2 DEF Within
<1> QED
  BY <1>11, <1>16, <1>25, <1>26 DEF Goes

-----------------------------------------------------------------------------
(* The worker processes. *)

FilesElse(F, G, i) ==
  /\ G.log = F.log /\ G.moment_worker_file = F.moment_worker_file
  /\ \A k \in Slot \ {i} : /\ G.worker_waitfile[k] = F.worker_waitfile[k]
                           /\ G.master_waitfile[k] = F.master_waitfile[k]
                           /\ G.worker_input[k] = F.worker_input[k]
                           /\ G.worker_output[k] = F.worker_output[k]

LEMMA ProcessChanged ==
  ASSUME NEW J, JobsType(J), NEW j \in DOMAIN J, NEW p \in Job, NEW K, K = [J EXCEPT ![j] = p]
  PROVE  /\ JobsType(K) /\ DOMAIN K = DOMAIN J /\ K[j] = p
         /\ \A k \in DOMAIN J : k # j => K[k] = J[k]
<1>1. J \in [DOMAIN J -> Job] /\ IsFiniteSet(DOMAIN J) /\ DOMAIN J \subseteq Nat \ {NoJob}
  BY DEF JobsType
<1>2. K \in [DOMAIN J -> Job] /\ DOMAIN K = DOMAIN J /\ K[j] = p
      /\ \A k \in DOMAIN J : k # j => K[k] = J[k]
  BY <1>1
<1> QED
  BY <1>1, <1>2 DEF JobsType

(* What a process does concerns the files of its slot, and the master not yet. *)
LEMMA WorkGoes ==
  ASSUME Inv, NEW j \in DOMAIN State.jobs, NEW i, i = State.jobs[j].slot,
         NEW p \in Job, p.slot = i, p.removed = State.jobs[j].removed,
         NEW G, FilesType(G), FilesElse(State.files, G, i),
         jobs' = [State.jobs EXCEPT ![j] = p], files' = G,
         UNCHANGED <<rc, workers, lost, sent, crashes, faults, odd>>,
         Neat =>
           /\ Process(p)
           /\ Talks(State.rc.fileWorkers[i], workers[i], G.worker_waitfile[i],
                    G.master_waitfile[i], G.worker_input[i], G.worker_output[i])
  PROVE  Goes
<1>1. /\ Sound(State) /\ Typed(State) /\ Within
      /\ workers \in [Slot -> WorkerID] /\ Reported(State, workers)
      /\ (Neat => Talk(State, workers))
  BY InvIs, Zenon
<1>2. PICK t : t = State'
  OBVIOUS
<1>3. /\ t = [rc |-> t.rc, files |-> t.files, jobs |-> t.jobs, lost |-> t.lost]
      /\ t.rc = State.rc /\ t.files = G /\ t.jobs = [State.jobs EXCEPT ![j] = p]
      /\ t.lost = State.lost
  BY <1>2 DEF State
<1>4. /\ JobsType(t.jobs) /\ DOMAIN t.jobs = DOMAIN State.jobs /\ t.jobs[j] = p
      /\ \A k \in DOMAIN State.jobs : k # j => t.jobs[k] = State.jobs[k]
  BY <1>1, <1>3, ProcessChanged DEF Typed
<1>5. i \in Slot
  BY <1>1, JobIs DEF Typed
<1>6. Typed(t) /\ (Works(State) <=> Works(t))
  BY <1>1, <1>3, <1>4 DEF Typed, Works
<1>7. SameJobs(State.jobs, t.jobs)
  BY <1>4 DEF SameJobs
<1>8. Same(State, t)
  BY <1>3, <1>6, <1>7 DEF Same, Face, FilesElse
<1>9. Sound(t) /\ Reported(t, workers)
  BY <1>1, <1>6, <1>8, SameIsSound, Zenon
<1>10. Else(State, t, i)
  BY <1>3 DEF Else, FilesElse
<1>11. ASSUME Neat PROVE TalksIn(t, workers, i) /\ Processes(t.jobs)
  <2>1. /\ Process(p)
        /\ Talks(State.rc.fileWorkers[i], workers[i], G.worker_waitfile[i],
                 G.master_waitfile[i], G.worker_input[i], G.worker_output[i])
    BY <1>11
  <2>2. Processes(State.jobs)
    BY <1>1, <1>11, Zenon DEF Talk
  <2>3. Processes(t.jobs)
    BY <1>4, <2>1, <2>2 DEF Processes
  <2>4. TalksIn(t, workers, i)
    BY <1>3, <2>1, Zenon DEF TalksIn
  <2> QED
    BY <2>3, <2>4
<1>12. ASSUME Neat PROVE Talk(t, workers)
  <2>1. \A k \in Slot \ {i} : workers[k] = workers[k]
    OBVIOUS
  <2> QED
    BY <1>1, <1>5, <1>6, <1>10, <1>11, <1>12, <2>1, TalkOn, Zenon
<1>13. Good(t, workers, Neat)
  BY <1>1, <1>9, <1>12, Zenon DEF Good
<1>14. Within' /\ crashes' = crashes /\ workers' = workers
  BY <1>1 DEF Within
<1> QED
  BY <1>2, <1>6, <1>13, <1>14 DEF Goes

(* It says something: a file, and its number in the waitfile. *)
Adds(F, G, i, n, m) ==
  /\ G.worker_waitfile = F.worker_waitfile /\ G.worker_input = F.worker_input
  /\ G.master_waitfile[i] = Append(F.master_waitfile[i], [n |-> n, sync |-> FALSE])
  /\ G.worker_output[i] = Numbered(F.worker_output[i], n, m)

LEMMA AddsIs ==
  ASSUME NEW F, FilesType(F), NEW i \in Slot, NEW n \in Nat, NEW m \in Message, NEW G,
         G = [F EXCEPT !.worker_output[i] = Numbered(@, n, m),
                       !.master_waitfile[i] = Append(@, [n |-> n, sync |-> FALSE])]
  PROVE  FilesType(G) /\ FilesElse(F, G, i) /\ Adds(F, G, i, n, m)
<1> DEFINE e == [n |-> n, sync |-> FALSE]
           f == F.master_waitfile
           mw == [f EXCEPT ![i] = Append(f[i], e)]
           out == [F.worker_output EXCEPT ![i] = Numbered(F.worker_output[i], n, m)]
<1>1. /\ F = [log |-> F.log, worker_waitfile |-> F.worker_waitfile,
              master_waitfile |-> F.master_waitfile, worker_input |-> F.worker_input,
              worker_output |-> F.worker_output, moment_worker_file |-> F.moment_worker_file]
      /\ f \in [Slot -> Seq(Entry)] /\ DOMAIN F.worker_output = Slot
      /\ \A k \in Slot : Holds(F.worker_output[k])
  BY Zenon DEF FilesType
<1>2. e \in Entry
  BY DEF Entry
<1>3. G = [F EXCEPT !.worker_output = out, !.master_waitfile = mw]
  BY <1>1
<1> HIDE DEF e
<1>4. /\ mw \in [Slot -> Seq(Entry)] /\ mw[i] = Append(f[i], e)
      /\ \A k \in Slot \ {i} : mw[k] = f[k]
  <2> HIDE DEF f
  <2>1. Append(f[i], e) \in Seq(Entry)
    BY <1>1, <1>2
  <2> QED
    BY <1>1, <2>1
<1>5. /\ DOMAIN out = Slot /\ out = [k \in Slot |-> out[k]]
      /\ out[i] = Numbered(F.worker_output[i], n, m)
      /\ \A k \in Slot \ {i} : out[k] = F.worker_output[k]
  BY <1>1
<1>6. \A k \in Slot : Holds(out[k])
  <2>1. Holds(Numbered(F.worker_output[i], n, m))
    BY <1>1, NumberedIs
  <2> HIDE DEF out
  <2> QED
    BY <1>1, <1>5, <2>1
<1> HIDE DEF mw, out
<1>7. /\ G.log = F.log /\ G.moment_worker_file = F.moment_worker_file
      /\ G.worker_waitfile = F.worker_waitfile /\ G.worker_input = F.worker_input
      /\ G.master_waitfile = mw /\ G.worker_output = out
      /\ G = [log |-> G.log, worker_waitfile |-> G.worker_waitfile,
              master_waitfile |-> G.master_waitfile, worker_input |-> G.worker_input,
              worker_output |-> G.worker_output, moment_worker_file |-> G.moment_worker_file]
  BY <1>1, <1>3
<1>8. FilesType(G)
  BY <1>4, <1>5, <1>6, <1>7, Zenon DEF FilesType
<1>9. FilesElse(F, G, i)
  BY <1>4, <1>5, <1>7 DEF FilesElse, f
<1>10. Adds(F, G, i, n, m)
  BY <1>4, <1>5, <1>7, Zenon DEF Adds, e, f
<1> QED
  BY <1>8, <1>9, <1>10

(* The message that a process was sent is gone, and the waitfile if it was a SYNC. *)
Removes(F, G, i, n) ==
  /\ G.worker_output = F.worker_output /\ G.master_waitfile = F.master_waitfile
  /\ G.worker_input[i] = Restrict(F.worker_input[i], DOMAIN F.worker_input[i] \ {n})

LEMMA FilesReadIs ==
  ASSUME Typed(State), NEW j \in DOMAIN State.jobs, NEW i, i = State.jobs[j].slot
  PROVE  /\ FilesType(FilesRead(j)) /\ FilesElse(State.files, FilesRead(j), i)
         /\ Removes(State.files, FilesRead(j), i, Look(j).number)
         /\ ~Look(j).toFlush =>
              FilesRead(j).worker_waitfile[i] = State.files.worker_waitfile[i]
<1> DEFINE F == State.files
           n == Look(j).number
           f == F.worker_waitfile
           ww == [f EXCEPT ![i] = IF Look(j).toFlush THEN <<>> ELSE f[i]]
           left == Restrict(F.worker_input[i], DOMAIN F.worker_input[i] \ {n})
           in == [F.worker_input EXCEPT ![i] = left]
<1>0. PICK G : G = FilesRead(j)
  OBVIOUS
<1>1. /\ F = [log |-> F.log, worker_waitfile |-> F.worker_waitfile,
              master_waitfile |-> F.master_waitfile, worker_input |-> F.worker_input,
              worker_output |-> F.worker_output, moment_worker_file |-> F.moment_worker_file]
      /\ f \in [Slot -> Seq(Entry)] /\ DOMAIN F.worker_input = Slot
      /\ \A k \in Slot : Holds(F.worker_input[k])
      /\ FilesType(F)
  BY RecordsAre DEF Typed
<1>2. i \in Slot
  BY JobIs DEF Typed
<1>3. G = [F EXCEPT !.worker_input = in, !.worker_waitfile = ww]
  <2>1. State.files = files /\ jobs[j].slot = i
    BY StateIs
  <2>2. G = [F EXCEPT !.worker_input[i] = Restrict(@, DOMAIN @ \ {n}),
                      !.worker_waitfile[i] = IF Look(j).toFlush THEN <<>> ELSE @]
    BY <1>0, <2>1, Zenon DEF FilesRead
  <2> HIDE DEF n, F
  <2> QED
    BY <1>1, <2>2
<1> HIDE DEF n
<1>4. /\ ww \in [Slot -> Seq(Entry)] /\ (~Look(j).toFlush => ww[i] = f[i])
      /\ \A k \in Slot \ {i} : ww[k] = f[k]
  <2> DEFINE x == IF Look(j).toFlush THEN <<>> ELSE f[i]
  <2>1. <<>> \in Seq(Entry)
    OBVIOUS
  <2>2. x \in Seq(Entry) /\ (~Look(j).toFlush => x = f[i])
    BY <1>1, <1>2, <2>1
  <2> HIDE DEF x, f
  <2>3. ww = [f EXCEPT ![i] = x]
    BY DEF x
  <2> HIDE DEF ww
  <2> QED
    BY <1>1, <1>2, <2>2, <2>3
<1>5. /\ DOMAIN in = Slot /\ in = [k \in Slot |-> in[k]] /\ in[i] = left
      /\ \A k \in Slot \ {i} : in[k] = F.worker_input[k]
  BY <1>1, <1>2
<1>6. \A k \in Slot : Holds(in[k])
  <2>1. Holds(left)
    BY <1>1, <1>2, RestrictedHolds
  <2> HIDE DEF in, left
  <2> QED
    BY <1>1, <1>5, <2>1
<1> HIDE DEF ww, in
<1>7. /\ G.log = F.log /\ G.moment_worker_file = F.moment_worker_file
      /\ G.worker_waitfile = ww /\ G.worker_input = in
      /\ G.master_waitfile = F.master_waitfile /\ G.worker_output = F.worker_output
      /\ G = [log |-> G.log, worker_waitfile |-> G.worker_waitfile,
              master_waitfile |-> G.master_waitfile, worker_input |-> G.worker_input,
              worker_output |-> G.worker_output, moment_worker_file |-> G.moment_worker_file]
  BY <1>1, <1>3
<1>8. FilesType(G)
  BY <1>1, <1>4, <1>5, <1>6, <1>7, Zenon DEF FilesType
<1>9. FilesElse(F, G, i)
  BY <1>4, <1>5, <1>7 DEF FilesElse
<1>10. Removes(F, G, i, n)
  BY <1>5, <1>7, Zenon DEF Removes
<1>11. ~Look(j).toFlush => G.worker_waitfile[i] = F.worker_waitfile[i]
  BY <1>4, <1>7
<1> QED
  BY <1>0, <1>8, <1>9, <1>10, <1>11 DEF n

(* A process says what the master may be waiting for, and not too early. *)
LEMMA SaysMore ==
  ASSUME NEW w \in FileWorker, NEW t, NEW mw \in Seq(Entry), NEW input, NEW left, NEW output,
         Holds(output), Said(w, t, mw, input, output), DOMAIN left \subseteq DOMAIN input,
         NEW n \in Nat, n <= w.worker_counter, n - 1 \notin DOMAIN left,
         NEW m \in Message, n = w.counter => m = Answered(n, t)
  PROVE  Said(w, t, Append(mw, [n |-> n, sync |-> FALSE]), left, Numbered(output, n, m))
<1> DEFINE g == Append(mw, [n |-> n, sync |-> FALSE])
           out == Numbered(output, n, m)
<1>1. /\ DOMAIN out = DOMAIN output \cup {n} /\ out[n] = m
      /\ \A k \in DOMAIN output : k # n => out[k] = output[k]
  BY DEF Numbered
<1> HIDE DEF out
<1>2. ASSUME NEW k \in DOMAIN g
      PROVE  /\ g[k].n <= w.worker_counter /\ g[k].n - 1 \notin DOMAIN left
             /\ g[k].n = w.counter =>
                  w.counter \in DOMAIN out /\ out[w.counter] = Answered(w.counter, t)
  <2>1. CASE k \in DOMAIN mw /\ g[k] = mw[k]
    <3>1. /\ mw[k].n <= w.worker_counter /\ mw[k].n - 1 \notin DOMAIN input
          /\ mw[k].n = w.counter =>
               w.counter \in DOMAIN output /\ output[w.counter] = Answered(w.counter, t)
      BY <2>1 DEF Said
    <3>2. mw[k].n = w.counter =>
            w.counter \in DOMAIN out /\ out[w.counter] = Answered(w.counter, t)
      BY <1>1, <3>1
    <3> HIDE DEF g
    <3> QED
      BY <2>1, <3>1, <3>2
  <2>2. CASE g[k].n = n /\ g[k].sync = FALSE
    <3> HIDE DEF g
    <3> QED
      BY <1>1, <2>2
  <2>3. \/ k \in DOMAIN mw /\ g[k] = mw[k]
        \/ g[k].n = n /\ g[k].sync = FALSE
    BY AppendedEntry
  <2> HIDE DEF g
  <2> QED
    BY <2>1, <2>2, <2>3
<1> HIDE DEF g
<1>3. Said(w, t, g, left, out)
  BY <1>2 DEF Said
<1> QED
  BY <1>3 DEF g, out

(* It gets the message of which it knows the number: the last, and the master waits. *)
LEMMA Heeds ==
  ASSUME Typed(State), NEW j \in DOMAIN State.jobs, NEW i, i = State.jobs[j].slot,
         NEW w \in FileWorker, NEW t,
         Sent(w, t, State.files.worker_waitfile[i], State.files.worker_input[i]), Gets(j)
  PROVE  LET E == State.jobs[j].expected_number
             input == State.files.worker_input[i]
         IN  /\ E \in Nat /\ Look(j).number = E /\ ~Look(j).toFlush /\ E \in DOMAIN input
             /\ E + 1 = w.worker_counter /\ w.counter = w.worker_counter
             /\ input[E] = Question(E, t)
<1> DEFINE E == State.jobs[j].expected_number
           ww == State.files.worker_waitfile[i]
           input == State.files.worker_input[i]
<1>1. State.files = files /\ State.jobs = jobs
  BY StateIs
<1>2. E \in Nat /\ i \in Slot
  BY JobIs DEF Typed
<1>3. ww \in Seq(Entry) /\ Holds(input)
  BY <1>2, RecordsAre
<1>4. Look(j) = Looked(State.jobs[j], ww)
  BY <1>1 DEF Look
<1>5. Found(E, ww, Look(j))
  BY <1>2, <1>3, <1>4, LookedFinds
<1>6. Look(j).found /\ Look(j).number \in DOMAIN input
  BY <1>1, Zenon DEF Gets, InputOf
<1> HIDE DEF E, ww, input
<1>7. \A k \in DOMAIN ww : ~ww[k].sync /\ ww[k].n < w.worker_counter
  BY DEF Sent, ww, input
<1>8. Look(j).number = E /\ ~Look(j).toFlush /\ \E k \in DOMAIN ww : ww[k].n = E
  BY <1>5, <1>6, <1>7 DEF Found
<1>9. E < w.worker_counter /\ E \in DOMAIN input
  BY <1>6, <1>7, <1>8
<1>10. E + 1 = w.worker_counter /\ w.counter = w.worker_counter /\ input[E] = Question(E, t)
  BY <1>9 DEF Sent, ww, input
<1> QED
  BY <1>2, <1>8, <1>9, <1>10 DEF E, input

(* What is asked stays asked of one that has not read it. *)
LEMMA SentStill ==
  ASSUME NEW w, NEW t, NEW ww, NEW input, Sent(w, t, ww, input), NEW left,
         DOMAIN left \subseteq DOMAIN input, \A n \in DOMAIN left : left[n] = input[n]
  PROVE  Sent(w, t, ww, left)
BY DEF Sent

(* What there is to say of slot i if its last task is t and the files are F. *)
AboutSlot(t, i, F) ==
  About(t, State.rc.fileWorkers[i], workers[i], F.worker_waitfile[i],
        F.master_waitfile[i], F.worker_input[i], F.worker_output[i])

LEMMA TalksNow ==
  ASSUME Inv, NEW j \in DOMAIN State.jobs, NEW i, i = State.jobs[j].slot, Neat
  PROVE  LET w == State.rc.fileWorkers[i]
         IN  /\ InTurn(w, workers[i]) /\ Process(State.jobs[j]) /\ InPlace(i)
             /\ \E t \in Task \cup {NoTask} : AboutSlot(t, i, State.files)
             /\ w.counter \in Nat /\ w.worker_counter \in Nat
<1>1. /\ Typed(State) /\ workers \in [Slot -> WorkerID] /\ Talk(State, workers)
      /\ Works(State)
  BY InvIs DEF Neat
<1>2. i \in Slot
  BY <1>1, JobIs DEF Typed
<1>3. InPlace(i)
  BY <1>1, <1>2, PlaceIs
<1>4. TalksIn(State, workers, i) /\ Process(State.jobs[j])
  BY <1>1, <1>2 DEF Talk, Processes
<1>5. State.rc.fileWorkers[i].counter \in Nat /\ State.rc.fileWorkers[i].worker_counter \in Nat
  BY <1>3, WorkerIs DEF InPlace
<1>6. /\ InTurn(State.rc.fileWorkers[i], workers[i])
      /\ \E t \in Task \cup {NoTask} : AboutSlot(t, i, State.files)
  BY <1>4, Zenon DEF TalksIn, Talks, AboutSlot
<1> QED
  BY <1>3, <1>4, <1>5, <1>6

(* Process p has said m. *)
Speaks(p) == [p EXCEPT !.master_expected_number = p.master_expected_number + 1]

(* What process p says in slot i, the files being F before: m is what comes next. *)
Fits(t, i, p, F, m) ==
  LET w == State.rc.fileWorkers[i]
      n == p.master_expected_number
  IN  /\ Process(Speaks(p))
      /\ F.master_waitfile[i] = State.files.master_waitfile[i]
      /\ F.worker_output[i] = State.files.worker_output[i]
      /\ DOMAIN F.worker_input[i] \subseteq DOMAIN State.files.worker_input[i]
      /\ Sent(w, t, F.worker_waitfile[i], F.worker_input[i])
      /\ n <= w.worker_counter /\ n - 1 \notin DOMAIN F.worker_input[i]
      /\ n = w.counter => m = Answered(n, t)

LEMMA SayGoes ==
  ASSUME Inv, NEW j \in DOMAIN State.jobs, NEW i, i = State.jobs[j].slot,
         NEW p \in Job, p.slot = i, p.removed = State.jobs[j].removed,
         NEW F, FilesType(F), FilesElse(State.files, F, i), NEW m \in Message, Say(j, p, F, m),
         UNCHANGED <<rc, workers, lost, sent, crashes, faults, odd>>,
         Neat => \A t : AboutSlot(t, i, State.files) => Fits(t, i, p, F, m)
  PROVE  Goes
<1> DEFINE n == p.master_expected_number
<1>1. n \in Nat
  BY DEF Job
<1>2. PICK G : G = [F EXCEPT !.worker_output[i] = Numbered(@, n, m),
                             !.master_waitfile[i] = Append(@, [n |-> n, sync |-> FALSE])]
  OBVIOUS
<1>3. jobs' = [State.jobs EXCEPT ![j] = Speaks(p)] /\ files' = G
  BY <1>2, StateIs, Zenon DEF Say, Speaks
<1>4. i \in Slot
  BY InvIs, JobIs DEF Typed
<1>5. FilesType(G) /\ FilesElse(F, G, i) /\ Adds(F, G, i, n, m)
  <2> HIDE DEF n
  <2> QED
    BY <1>1, <1>2, <1>4, AddsIs
<1>6. FilesElse(State.files, G, i)
  BY <1>5 DEF FilesElse
<1>7. Speaks(p) \in Job /\ Speaks(p).slot = i /\ Speaks(p).removed = State.jobs[j].removed
  BY <1>1 DEF Speaks, Job
<1>8. ASSUME Neat
      PROVE  /\ Process(Speaks(p))
             /\ Talks(State.rc.fileWorkers[i], workers[i], G.worker_waitfile[i],
                      G.master_waitfile[i], G.worker_input[i], G.worker_output[i])
  <2> DEFINE w == State.rc.fileWorkers[i]
             mw == State.files.master_waitfile[i]
             input == State.files.worker_input[i]
             output == State.files.worker_output[i]
             left == F.worker_input[i]
  <2>a. /\ InTurn(w, workers[i]) /\ InPlace(i)
        /\ \E t \in Task \cup {NoTask} : AboutSlot(t, i, State.files)
    BY <1>8, TalksNow
  <2>b. PICK t \in Task \cup {NoTask} : AboutSlot(t, i, State.files)
    BY <2>a
  <2>1. /\ w.state \in Alive => t = workers[i].task
        /\ Said(w, t, mw, input, output)
    BY <2>b, Zenon DEF AboutSlot, About
  <2>c. Fits(t, i, p, F, m)
    BY <1>8, <2>b, Zenon
  <2>2. /\ Process(Speaks(p)) /\ DOMAIN left \subseteq DOMAIN input
        /\ F.master_waitfile[i] = mw /\ F.worker_output[i] = output
        /\ Sent(w, t, F.worker_waitfile[i], left)
        /\ n <= w.worker_counter /\ n - 1 \notin DOMAIN left
        /\ n = w.counter => m = Answered(n, t)
    BY <2>c, Zenon DEF Fits
  <2>3. w \in FileWorker /\ mw \in Seq(Entry) /\ Holds(output)
    BY <2>a DEF InPlace
  <2>4. /\ G.worker_waitfile = F.worker_waitfile /\ G.worker_input = F.worker_input
        /\ G.master_waitfile[i] = Append(mw, [n |-> n, sync |-> FALSE])
        /\ G.worker_output[i] = Numbered(output, n, m)
    BY <1>5, <2>2 DEF Adds
  <2> HIDE DEF w, mw, input, output, left, n
  <2>5. Said(w, t, Append(mw, [n |-> n, sync |-> FALSE]), left, Numbered(output, n, m))
    BY <1>1, <2>1, <2>2, <2>3, SaysMore
  <2>6. /\ Said(w, t, G.master_waitfile[i], G.worker_input[i], G.worker_output[i])
        /\ Sent(w, t, G.worker_waitfile[i], G.worker_input[i])
    BY <2>2, <2>4, <2>5, Zenon DEF left
  <2>7. About(t, w, workers[i], G.worker_waitfile[i], G.master_waitfile[i],
              G.worker_input[i], G.worker_output[i])
    BY <2>1, <2>6, Zenon DEF About
  <2>8. InTurn(w, workers[i])
    BY <2>a, Zenon DEF w
  <2>9. Talks(w, workers[i], G.worker_waitfile[i], G.master_waitfile[i],
              G.worker_input[i], G.worker_output[i])
    BY <2>7, <2>8, Zenon DEF Talks
  <2> QED
    BY <2>2, <2>9, Zenon DEF w
<1> QED
  BY <1>3, <1>5, <1>6, <1>7, <1>8, WorkGoes, Zenon

LEMMA GreetGoes ==
  ASSUME Inv, NEW j \in DOMAIN State.jobs, GreetMaster(j)
  PROVE  Goes
<1> DEFINE i == State.jobs[j].slot
           q == State.jobs[j]
           m == Plain("INIT")
           F == State.files
<1>1. PICK p : p = [q EXCEPT !.phase = "waiting"]
  OBVIOUS
<1>2. /\ q.phase = "starting" /\ Say(j, p, F, m)
      /\ UNCHANGED <<rc, workers, lost, sent, crashes, faults, odd>>
  BY <1>1, StateIs, Zenon DEF GreetMaster
<1>3. Typed(State) /\ JobsType(State.jobs)
  BY InvIs DEF Typed
<1>4. q \in Job
  BY <1>3 DEF JobsType
<1>5. /\ p \in Job /\ p.slot = i /\ p.removed = q.removed /\ p.phase = "waiting"
      /\ p.expected_number = q.expected_number
      /\ p.master_expected_number = q.master_expected_number
  BY <1>1, <1>4 DEF Job
<1>6. FilesType(F) /\ FilesElse(F, F, i)
  BY <1>3 DEF Typed, FilesElse
<1>7. m \in Message
  BY DEF Plain, Message
<1>8. ASSUME Neat, NEW t, AboutSlot(t, i, State.files)
      PROVE  Fits(t, i, p, F, m)
  <2> DEFINE w == State.rc.fileWorkers[i]
  <2>1. Process(q) /\ InPlace(i) /\ w.worker_counter \in Nat
    BY <1>8, TalksNow
  <2>s. Sent(w, t, F.worker_waitfile[i], F.worker_input[i])
    BY <1>8, Zenon DEF AboutSlot, About
  <2>2. p.expected_number = 0 /\ p.master_expected_number = 0
    BY <1>2, <1>5, <2>1 DEF Process
  <2>3. /\ Speaks(p).phase = "waiting" /\ Speaks(p).expected_number = 0
        /\ Speaks(p).master_expected_number = 1
    BY <1>5, <2>2 DEF Speaks, Job
  <2>4. Process(Speaks(p))
    BY <2>3 DEF Process
  <2>5. 0 - 1 \notin DOMAIN F.worker_input[i]
    <3>1. DOMAIN F.worker_input[i] \subseteq Nat
      BY <2>1 DEF InPlace, Holds
    <3>2. ~(0 - 1 \in Nat)
      OBVIOUS
    <3> QED
      BY <3>1, <3>2
  <2>6. m = Answered(0, t)
    BY DEF Answered
  <2>7. /\ F.master_waitfile[i] = State.files.master_waitfile[i]
        /\ F.worker_output[i] = State.files.worker_output[i]
        /\ DOMAIN F.worker_input[i] \subseteq DOMAIN State.files.worker_input[i]
        /\ 0 <= w.worker_counter
    BY <2>1
  <2> HIDE DEF F, m, i
  <2> QED
    BY <2>s, <2>2, <2>4, <2>5, <2>6, <2>7 DEF Fits
<1> HIDE DEF i, F, m, q
<1> QED
  BY <1>2, <1>5, <1>6, <1>7, <1>8, SayGoes DEF i, F, q

(* The process once it has got a message. *)
LEMMA ReceivedJob ==
  ASSUME Typed(State), NEW j \in DOMAIN State.jobs, NEW p, p = Received(j)
  PROVE  LET q == State.jobs[j]
         IN  /\ p \in Job /\ p.slot = q.slot /\ p.removed = q.removed /\ p.phase = q.phase
             /\ ~Look(j).toFlush => /\ p.expected_number = Look(j).number + 1
                                    /\ p.master_expected_number = q.master_expected_number
<1> DEFINE q == State.jobs[j]
           ww == State.files.worker_waitfile[q.slot]
<1>1. State.files = files /\ State.jobs = jobs
  BY StateIs
<1>2. q \in Job
  BY DEF Typed, JobsType
<1>3. q.expected_number \in Nat /\ q.slot \in Slot
  BY JobIs DEF Typed
<1>4. ww \in Seq(Entry)
  BY <1>3, RecordsAre
<1>5. Look(j) = Looked(q, ww)
  BY <1>1 DEF Look
<1> HIDE DEF ww
<1>6. Found(q.expected_number, ww, Look(j))
  BY <1>3, <1>4, <1>5, LookedFinds
<1>7. PICK n \in Nat : n = Look(j).number
  BY <1>6 DEF Found
<1>8. CASE Look(j).toFlush
  <2>1. p = [q EXCEPT !.expected_number = 0, !.master_expected_number = 0]
    BY <1>1, <1>8 DEF Received
  <2> HIDE DEF q
  <2>a. q = [slot |-> q.slot, exec_class |-> q.exec_class, removed |-> q.removed,
             phase |-> q.phase, expected_number |-> q.expected_number,
             master_expected_number |-> q.master_expected_number]
    BY <1>2 DEF Job
  <2>b. p = [slot |-> q.slot, exec_class |-> q.exec_class, removed |-> q.removed,
             phase |-> q.phase, expected_number |-> 0, master_expected_number |-> 0]
    BY <2>1, <2>a
  <2>2. p \in Job /\ p.slot = q.slot /\ p.removed = q.removed /\ p.phase = q.phase
    BY <1>2, <2>b DEF Job
  <2> QED
    BY <1>8, <2>2 DEF q
<1>9. CASE ~Look(j).toFlush
  <2>1. p = [q EXCEPT !.expected_number = n + 1]
    BY <1>1, <1>7, <1>9 DEF Received
  <2>2. n + 1 \in Nat
    OBVIOUS
  <2> HIDE DEF q
  <2>3. /\ p \in Job /\ p.slot = q.slot /\ p.removed = q.removed /\ p.phase = q.phase
        /\ p.expected_number = n + 1 /\ p.master_expected_number = q.master_expected_number
    BY <1>2, <2>1, <2>2 DEF Job
  <2> QED
    BY <1>7, <2>3 DEF q
<1> QED
  BY <1>8, <1>9

(* What holds when a process that talks gets a message. *)
LEMMA GetsIs ==
  ASSUME Inv, NEW j \in DOMAIN State.jobs, Gets(j), NEW i, i = State.jobs[j].slot,
         Neat, NEW t, AboutSlot(t, i, State.files)
  PROVE  LET w == State.rc.fileWorkers[i]
             q == State.jobs[j]
             E == q.expected_number
             F == FilesRead(j)
             input == State.files.worker_input[i]
         IN  /\ Process(q) /\ E \in Nat
             /\ Received(j).expected_number = E + 1
             /\ Received(j).master_expected_number = q.master_expected_number
             /\ Look(j).number = E
             /\ w.counter = E + 1 /\ w.worker_counter = E + 1
             /\ InputOf(j)[Look(j).number] = Question(E, t)
             /\ F.master_waitfile[i] = State.files.master_waitfile[i]
             /\ F.worker_output[i] = State.files.worker_output[i]
             /\ DOMAIN F.worker_input[i] \subseteq DOMAIN input
             /\ Sent(w, t, F.worker_waitfile[i], F.worker_input[i])
             /\ E \notin DOMAIN F.worker_input[i]
<1> DEFINE w == State.rc.fileWorkers[i]
           q == State.jobs[j]
           E == q.expected_number
           F == FilesRead(j)
           ww == State.files.worker_waitfile[i]
           input == State.files.worker_input[i]
<1>1. Typed(State)
  BY InvIs
<1>2. Sent(w, t, ww, input) /\ Process(q) /\ InPlace(i)
  BY TalksNow, Zenon DEF AboutSlot, About
<1>3. w \in FileWorker /\ Holds(input)
  BY <1>2 DEF InPlace
<1>4. /\ E \in Nat /\ Look(j).number = E /\ ~Look(j).toFlush /\ E \in DOMAIN input
      /\ E + 1 = w.worker_counter /\ w.counter = w.worker_counter
      /\ input[E] = Question(E, t)
  <2> HIDE DEF w
  <2> QED
    BY <1>1, <1>2, <1>3, Heeds
<1>5. /\ Received(j).expected_number = E + 1
      /\ Received(j).master_expected_number = q.master_expected_number
  BY <1>1, <1>4, ReceivedJob
<1>6. /\ Removes(State.files, F, i, E) /\ F.worker_waitfile[i] = ww
  BY <1>1, <1>4, FilesReadIs
<1>7. /\ F.worker_input[i] = Restrict(input, DOMAIN input \ {E})
      /\ F.master_waitfile = State.files.master_waitfile
      /\ F.worker_output = State.files.worker_output
  BY <1>6 DEF Removes
<1>8. /\ DOMAIN F.worker_input[i] = DOMAIN input \ {E}
      /\ \A n \in DOMAIN input \ {E} : F.worker_input[i][n] = input[n]
  <2> HIDE DEF input, E, F
  <2>1. /\ DOMAIN Restrict(input, DOMAIN input \ {E}) = DOMAIN input \ {E}
        /\ \A n \in DOMAIN input \ {E} : Restrict(input, DOMAIN input \ {E})[n] = input[n]
    BY <1>3, RestrictedHolds
  <2> QED
    BY <1>7, <2>1, Zenon
<1>9. Sent(w, t, ww, F.worker_input[i])
  <2>1. /\ DOMAIN F.worker_input[i] \subseteq DOMAIN input
        /\ \A n \in DOMAIN F.worker_input[i] : F.worker_input[i][n] = input[n]
    BY <1>8
  <2> HIDE DEF w, ww, input, F
  <2> QED
    BY <1>2, <2>1, SentStill
<1>10. InputOf(j)[Look(j).number] = Question(E, t)
  <2>1. InputOf(j) = input
    BY StateIs DEF InputOf
  <2> QED
    BY <1>4, <2>1
<1> QED
  BY <1>2, <1>4, <1>5, <1>6, <1>7, <1>8, <1>9, <1>10

LEMMA MessageIs ==
  ASSUME Typed(State), NEW j \in DOMAIN State.jobs, Gets(j)
  PROVE  InputOf(j)[Look(j).number] \in Message
<1> DEFINE i == State.jobs[j].slot
           input == State.files.worker_input[i]
<1>1. i \in Slot
  BY JobIs DEF Typed
<1>2. Holds(input)
  BY <1>1, RecordsAre
<1>3. InputOf(j) = input
  BY StateIs DEF InputOf
<1>4. Look(j).number \in DOMAIN input
  BY <1>3, Zenon DEF Gets
<1> HIDE DEF input
<1> QED
  BY <1>2, <1>3, <1>4 DEF Holds

LEMMA BenchmarkGoes ==
  ASSUME Inv, NEW j \in DOMAIN State.jobs, DoBenchmarkCmd(j)
  PROVE  Goes
<1> DEFINE i == State.jobs[j].slot
           q == State.jobs[j]
           r == Received(j)
           F == FilesRead(j)
           m == Plain("BENCH_RESULTS")
<1>1. PICK p : p = Waited(r)
  OBVIOUS
<1>2. /\ Gets(j) /\ q.phase \in {"waiting", "waiting_twice"}
      /\ IF InputOf(j)[Look(j).number].tag = "INIT_REPLY" THEN Say(j, p, F, m)
         ELSE jobs' = [State.jobs EXCEPT ![j] = p] /\ files' = F
      /\ UNCHANGED <<rc, workers, lost, sent, crashes, faults, odd>>
  BY <1>1, StateIs, Zenon DEF DoBenchmarkCmd
<1>3. Typed(State)
  BY InvIs
<1>4. /\ r \in Job /\ r.slot = i /\ r.removed = q.removed /\ r.phase = q.phase
  BY <1>3, ReceivedJob
<1>5. /\ p \in Job /\ p.slot = i /\ p.removed = q.removed
      /\ p.expected_number = r.expected_number
      /\ p.master_expected_number = r.master_expected_number
      /\ q.phase = "waiting" => p.phase = "ready"
  <2> HIDE DEF r, q, i
  <2> QED
    BY <1>1, <1>4 DEF Waited, Job
<1>6. FilesType(F) /\ FilesElse(State.files, F, i)
  BY <1>3, FilesReadIs
<1>7. m \in Message
  BY DEF Plain, Message
<1>8. ASSUME Neat, NEW t, AboutSlot(t, i, State.files)
      PROVE  Fits(t, i, p, F, m) /\ InputOf(j)[Look(j).number].tag = "INIT_REPLY"
  <2> DEFINE w == State.rc.fileWorkers[i]
             E == q.expected_number
  <2>1. /\ Process(q) /\ E \in Nat
        /\ r.expected_number = E + 1
        /\ r.master_expected_number = q.master_expected_number
        /\ w.counter = E + 1 /\ w.worker_counter = E + 1
        /\ InputOf(j)[Look(j).number] = Question(E, t)
        /\ F.master_waitfile[i] = State.files.master_waitfile[i]
        /\ F.worker_output[i] = State.files.worker_output[i]
        /\ DOMAIN F.worker_input[i] \subseteq DOMAIN State.files.worker_input[i]
        /\ Sent(w, t, F.worker_waitfile[i], F.worker_input[i])
        /\ E \notin DOMAIN F.worker_input[i]
    <3>1. Gets(j)
      BY <1>2
    <3> HIDE DEF m
    <3> QED
      BY <1>8, <3>1, GetsIs
  <2>2. q.phase = "waiting" /\ E = 0 /\ q.master_expected_number = 1
    BY <1>2, <2>1 DEF Process
  <2>3. p.phase = "ready" /\ p.expected_number = 1 /\ p.master_expected_number = 1
    <3> HIDE DEF E, q, r, F, i
    <3>1. r.expected_number = 1
      BY <2>1, <2>2
    <3>2. r.master_expected_number = 1
      BY <2>1, <2>2
    <3> QED
      BY <1>5, <2>2, <3>1, <3>2
  <2>4. /\ Speaks(p).phase = "ready" /\ Speaks(p).expected_number = 1
        /\ Speaks(p).master_expected_number = 2
    BY <1>5, <2>3 DEF Speaks, Job
  <2>5. Process(Speaks(p))
    BY <2>4 DEF Process
  <2>6. m = Answered(1, t) /\ Question(0, t).tag = "INIT_REPLY"
    BY DEF Answered, Question, Plain
  <2>7. 1 <= w.worker_counter /\ 1 - 1 \notin DOMAIN F.worker_input[i] /\ 1 = w.counter
    <3>1. w.worker_counter = E + 1 /\ w.counter = E + 1 /\ E = 0
      BY <2>1, <2>2
    <3>2. E \notin DOMAIN F.worker_input[i]
      BY <2>1
    <3> HIDE DEF w, E, F, i
    <3>3. 1 - 1 = E
      BY <3>1
    <3> QED
      BY <3>1, <3>2, <3>3
  <2>9. InputOf(j)[Look(j).number].tag = "INIT_REPLY"
    BY <2>1, <2>2, <2>6
  <2> HIDE DEF F, m, i, E
  <2> QED
    BY <2>1, <2>3, <2>5, <2>6, <2>7, <2>9 DEF Fits
<1>9. CASE InputOf(j)[Look(j).number].tag = "INIT_REPLY"
  <2>1. Say(j, p, F, m)
    BY <1>2, <1>9
  <2> HIDE DEF i, F, m, q, r
  <2> QED
    BY <1>2, <1>5, <1>6, <1>7, <1>8, <2>1, SayGoes DEF i, q
<1>10. CASE InputOf(j)[Look(j).number].tag # "INIT_REPLY"
  <2>1. jobs' = [State.jobs EXCEPT ![j] = p] /\ files' = F
    BY <1>2, <1>10
  <2>2. ~Neat
    BY <1>8, <1>10, TalksNow
  <2> HIDE DEF i, F, m, q, r
  <2> QED
    BY <1>2, <1>5, <1>6, <2>1, <2>2, WorkGoes DEF i, q
<1> QED
  BY <1>9, <1>10

LEMMA ReinitGoes ==
  ASSUME Inv, NEW j \in DOMAIN State.jobs, Reinit(j)
  PROVE  Goes
<1> DEFINE i == State.jobs[j].slot
           q == State.jobs[j]
           r == Received(j)
           F == FilesRead(j)
           m == Plain("INIT")
<1>1. PICK p : p = [r EXCEPT !.phase = "waiting_twice"]
  OBVIOUS
<1>2. /\ Gets(j) /\ q.phase = "ready" /\ InputOf(j)[Look(j).number].tag = "RE_INIT"
      /\ Say(j, p, F, m)
      /\ UNCHANGED <<rc, workers, lost, sent, crashes, faults, odd>>
  BY <1>1, StateIs, Zenon DEF Reinit
<1>3. Typed(State)
  BY InvIs
<1>4. /\ r \in Job /\ r.slot = i /\ r.removed = q.removed
  BY <1>3, ReceivedJob
<1>5. p \in Job /\ p.slot = i /\ p.removed = q.removed
  <2> HIDE DEF r, q, i
  <2> QED
    BY <1>1, <1>4 DEF Job
<1>6. FilesType(F) /\ FilesElse(State.files, F, i)
  BY <1>3, FilesReadIs
<1>7. m \in Message
  BY DEF Plain, Message
<1>8. ASSUME Neat PROVE FALSE
  <2>1. PICK t : AboutSlot(t, i, State.files)
    BY <1>8, TalksNow
  <2>2. InputOf(j)[Look(j).number] = Question(q.expected_number, t)
    BY <1>2, <1>8, <2>1, GetsIs
  <2> QED
    BY <1>2, <2>2 DEF Question, Plain
<1> HIDE DEF i, F, m, q, r
<1> QED
  BY <1>2, <1>5, <1>6, <1>7, <1>8, SayGoes DEF i, q

LEMMA ThisWorkGoes ==
  ASSUME Inv, NEW j \in DOMAIN State.jobs, DoThisWork(j)
  PROVE  Goes
<1> DEFINE i == State.jobs[j].slot
           q == State.jobs[j]
           F == FilesRead(j)
           asked == InputOf(j)[Look(j).number]
           m == [tag |-> "RESULTS", task |-> asked.task]
<1>1. PICK p : p = Received(j)
  OBVIOUS
<1>2. /\ Gets(j) /\ q.phase = "ready" /\ asked.tag = "DO_THIS_WORK"
      /\ Say(j, p, F, m)
      /\ UNCHANGED <<rc, workers, lost, sent, crashes, faults, odd>>
  BY <1>1, StateIs, Zenon DEF DoThisWork
<1>3. Typed(State)
  BY InvIs
<1>4. p \in Job /\ p.slot = i /\ p.removed = q.removed /\ p.phase = q.phase
  BY <1>1, <1>3, ReceivedJob
<1>5. FilesType(F) /\ FilesElse(State.files, F, i)
  BY <1>3, FilesReadIs
<1>6. asked \in Message
  BY <1>2, <1>3, MessageIs
<1>7. m \in Message
  <2> HIDE DEF asked
  <2> QED
    BY <1>6 DEF Message
<1>8. ASSUME Neat, NEW t, AboutSlot(t, i, State.files)
      PROVE  Fits(t, i, p, F, m)
  <2> DEFINE w == State.rc.fileWorkers[i]
             E == q.expected_number
  <2>1. /\ Process(q) /\ E \in Nat
        /\ p.expected_number = E + 1
        /\ p.master_expected_number = q.master_expected_number
        /\ w.counter = E + 1 /\ w.worker_counter = E + 1
        /\ asked = Question(E, t)
        /\ F.master_waitfile[i] = State.files.master_waitfile[i]
        /\ F.worker_output[i] = State.files.worker_output[i]
        /\ DOMAIN F.worker_input[i] \subseteq DOMAIN State.files.worker_input[i]
        /\ Sent(w, t, F.worker_waitfile[i], F.worker_input[i])
        /\ E \notin DOMAIN F.worker_input[i]
    BY <1>1, <1>2, <1>8, GetsIs
  <2>2. E >= 1 /\ q.master_expected_number = E + 1
    BY <1>2, <2>1 DEF Process
  <2>3. p.phase = "ready" /\ p.expected_number = E + 1 /\ p.master_expected_number = E + 1
    BY <1>2, <1>4, <2>1, <2>2
  <2> HIDE DEF E, w, F, asked, i
  <2>4. /\ Speaks(p).phase = "ready" /\ Speaks(p).expected_number = E + 1
        /\ Speaks(p).master_expected_number = E + 1 + 1
    BY <1>4, <2>3 DEF Speaks, Job
  <2>5. Process(Speaks(p))
    BY <2>1, <2>2, <2>4 DEF Process
  <2>6. m = Answered(E + 1, t)
    <3>1. asked.task = t
      BY <2>1, <2>2 DEF Question
    <3>2. E + 1 # 0 /\ E + 1 # 1
      BY <2>1, <2>2
    <3> QED
      BY <3>1, <3>2 DEF Answered
  <2>7. E + 1 <= w.worker_counter /\ E + 1 - 1 = E
    BY <2>1
  <2>8. E + 1 - 1 \notin DOMAIN F.worker_input[i]
    BY <2>1, <2>7
  <2> HIDE DEF m
  <2> QED
    BY <2>1, <2>3, <2>5, <2>6, <2>7, <2>8 DEF Fits, w
<1> HIDE DEF i, F, m, q
<1> QED
  BY <1>2, <1>4, <1>5, <1>7, <1>8, SayGoes DEF i, q

-----------------------------------------------------------------------------
(* What Condor does, and the end of a process: the log has another event. *)

Later(J, K) ==
  /\ DOMAIN K \subseteq DOMAIN J
  /\ \A k \in DOMAIN K : /\ K[k].slot = J[k].slot /\ K[k].removed = J[k].removed
                         /\ Process(J[k]) => Process(K[k])

Longer(log, g, e) ==
  /\ \A k \in DOMAIN g : \/ k \in DOMAIN log /\ g[k] = log[k]
                         \/ g[k] = e
  /\ log # <<>> => g # <<>> /\ g[1] = log[1] /\ 1 \in DOMAIN log

LEMMA AppendedEvent ==
  ASSUME NEW log \in Seq(Event), NEW e \in Event, NEW g, g = Append(log, e)
  PROVE  Longer(log, g, e)
<1>1. /\ DOMAIN g = DOMAIN log \cup {Len(log) + 1}
      /\ \A m \in DOMAIN log : m # Len(log) + 1 /\ g[m] = log[m]
      /\ g[Len(log) + 1] = e
  BY AppendedTo
<1>2. log # <<>> => 1 \in DOMAIN log
  OBVIOUS
<1>3. 1 \in DOMAIN log => 1 \in DOMAIN g
  BY <1>1
<1>4. log # <<>> => g # <<>>
  OBVIOUS
<1> QED
  BY <1>1, <1>2, <1>4 DEF Longer

(* The state t is s with one event more in the log of slot i, of job j there, *)
(* and no job more.                                                           *)
LEMMA LoggedIsSound ==
  ASSUME NEW s, Sound(s), NEW t, Typed(t), NEW j \in DOMAIN s.jobs, NEW i, i = s.jobs[j].slot,
         NEW kind, [job |-> j, kind |-> kind] \in Event, kind # "SUBMIT",
         kind \in {"ABORTED", "TERMINATED"} => j \notin DOMAIN t.jobs,
         t.rc = s.rc, t.lost = s.lost, Later(s.jobs, t.jobs),
         t.files.moment_worker_file = s.files.moment_worker_file,
         \A k \in Slot \ {i} : t.files.log[k] = s.files.log[k],
         t.files.log[i] = Append(s.files.log[i], [job |-> j, kind |-> kind])
  PROVE  Sound(t)
<1> DEFINE e == [job |-> j, kind |-> kind]
           log == s.files.log[i]
           g == t.files.log[i]
<1>1. Typed(s) /\ Logs(s) /\ Slots(s) /\ Filed(s) /\ Account(s) /\ Owned(s)
  BY Zenon DEF Sound
<1>2. i \in Slot /\ j # NoJob
  BY <1>1, JobIs DEF Typed
<1>3. log \in Seq(Event)
  BY <1>1, <1>2, RecordsAre
<1>4. e \in Event /\ e.job = j /\ e.kind = kind
  OBVIOUS
<1>5. g = Append(log, e)
  OBVIOUS
<1> HIDE DEF e, log, g
<1>6. /\ \A k \in DOMAIN g : \/ k \in DOMAIN log /\ g[k] = log[k]
                             \/ g[k] = e
      /\ log # <<>> => g # <<>> /\ g[1] = log[1] /\ 1 \in DOMAIN log
  <2>1. Longer(log, g, e)
    BY <1>3, <1>4, <1>5, AppendedEvent
  <2> QED
    BY <2>1, Zenon DEF Longer
<1>7. Works(t) <=> Works(s)
  BY DEF Works
<1>8. Logs(t)
  <2>1. ASSUME NEW k \in DOMAIN g
        PROVE  /\ g[k].job # NoJob /\ (g[k].kind = "SUBMIT" => k = 1)
               /\ g[k].kind \in {"ABORTED", "TERMINATED"} => g[k].job \notin DOMAIN t.jobs
    <3>1. CASE k \in DOMAIN log /\ g[k] = log[k]
      <4>1. LogOK(log, s.jobs)
        BY <1>1, <1>2 DEF Logs, log
      <4>2. /\ log[k].job # NoJob /\ (log[k].kind = "SUBMIT" => k = 1)
            /\ log[k].kind \in {"ABORTED", "TERMINATED"} => log[k].job \notin DOMAIN s.jobs
        BY <3>1, <4>1, Zenon DEF LogOK
      <4> QED
        BY <3>1, <4>2 DEF Later
    <3>2. CASE g[k] = e
      BY <1>2, <1>4, <3>2
    <3> QED
      BY <1>6, <3>1, <3>2
  <2>2. LogOK(g, t.jobs)
    BY <2>1, Zenon DEF LogOK
  <2>3. ASSUME NEW k \in Slot, k # i PROVE LogOK(t.files.log[k], t.jobs)
    <3>1. LogOK(s.files.log[k], s.jobs) /\ t.files.log[k] = s.files.log[k]
      BY <1>1, <2>3 DEF Logs
    <3> QED
      BY <3>1 DEF LogOK, Later
  <2> QED
    BY <2>2, <2>3 DEF Logs, g
<1>9. Slots(t)
  <2>1. ASSUME Works(t) PROVE SlotOK(t.rc.fileWorkers[i], g)
    <3>1. SlotOK(s.rc.fileWorkers[i], log)
      BY <1>1, <1>2, <1>7, <2>1 DEF Slots, log
    <3> QED
      BY <1>6, <3>1 DEF SlotOK
  <2>2. ASSUME Works(t), NEW k \in Slot, k # i
        PROVE  SlotOK(t.rc.fileWorkers[k], t.files.log[k])
    BY <1>1, <1>7, <2>2 DEF Slots
  <2> QED
    BY <2>1, <2>2 DEF Slots, g
<1>10. Filed(t)
  <2>1. HasLog(t.files.moment_worker_file[i], g)
    <3>1. HasLog(s.files.moment_worker_file[i], log)
      BY <1>1, <1>2 DEF Filed, log
    <3> QED
      BY <1>6, <3>1 DEF HasLog
  <2>2. \A k \in Slot : HasLog(t.files.moment_worker_file[k], t.files.log[k])
    BY <1>1, <2>1 DEF Filed, g
  <2>3. Works(t) => \A k \in Slot : InFile(t.rc.fileWorkers[k], t.files.moment_worker_file[k])
    BY <1>1, <1>7 DEF Filed
  <2> QED
    BY <2>2, <2>3, Zenon DEF Filed
<1>11. Account(t)
  BY <1>1, <1>7 DEF Account
<1>12. Owned(t)
  <2>1. SUFFICES ASSUME ~LateRemoval
          PROVE  /\ \A k \in Slot : MemoOwn(t.files.moment_worker_file[k], t.files.log[k])
                 /\ \A k \in DOMAIN t.jobs : JobOwn(k, t.jobs[k], Memo(t, k))
                 /\ Works(t) => \A k \in DOMAIN t.jobs : Kept(k, t.jobs[k], WorkerOf(t, k))
    BY Zenon DEF Owned
  <2>2. /\ \A k \in Slot : MemoOwn(s.files.moment_worker_file[k], s.files.log[k])
        /\ \A k \in DOMAIN s.jobs : JobOwn(k, s.jobs[k], Memo(s, k))
        /\ Works(s) => \A k \in DOMAIN s.jobs : Kept(k, s.jobs[k], WorkerOf(s, k))
    BY <1>1, <2>1, Zenon DEF Owned
  <2>3. MemoOwn(t.files.moment_worker_file[i], g)
    <3>1. JobOwn(j, s.jobs[j], Memo(s, j)) /\ Memo(s, j) = s.files.moment_worker_file[i]
      BY <2>2 DEF Memo
    <3>2. s.files.moment_worker_file[i].job \in {NoJob, j}
      BY <3>1 DEF JobOwn
    <3>3. MemoOwn(s.files.moment_worker_file[i], log)
      BY <1>2, <2>2 DEF log
    <3> QED
      BY <1>4, <1>6, <3>2, <3>3 DEF MemoOwn
  <2>4. \A k \in Slot : MemoOwn(t.files.moment_worker_file[k], t.files.log[k])
    BY <2>2, <2>3 DEF g
  <2>5. ASSUME NEW k \in DOMAIN t.jobs PROVE JobOwn(k, t.jobs[k], Memo(t, k))
    <3>1. Memo(t, k) = Memo(s, k) /\ k \in DOMAIN s.jobs /\ t.jobs[k].removed = s.jobs[k].removed
      BY DEF Later, Memo
    <3> QED
      BY <2>2, <3>1 DEF JobOwn
  <2>6. ASSUME Works(t), NEW k \in DOMAIN t.jobs PROVE Kept(k, t.jobs[k], WorkerOf(t, k))
    <3>1. /\ WorkerOf(t, k) = WorkerOf(s, k) /\ k \in DOMAIN s.jobs
          /\ t.jobs[k].removed = s.jobs[k].removed
      BY DEF Later, WorkerOf
    <3> QED
      BY <1>7, <2>2, <2>6, <3>1 DEF Kept
  <2> QED
    BY <2>4, <2>5, <2>6
<1> QED
  BY <1>8, <1>9, <1>10, <1>11, <1>12 DEF Sound

(* One log more, of the files F. *)
LEMMA LoggedIs ==
  ASSUME NEW F, FilesType(F), NEW i \in Slot, NEW e \in Event, NEW G,
         G = [F EXCEPT !.log[i] = Append(@, e)]
  PROVE  /\ FilesType(G) /\ G.log[i] = Append(F.log[i], e)
         /\ \A k \in Slot \ {i} : G.log[k] = F.log[k]
         /\ G.worker_waitfile = F.worker_waitfile /\ G.master_waitfile = F.master_waitfile
         /\ G.worker_input = F.worker_input /\ G.worker_output = F.worker_output
         /\ G.moment_worker_file = F.moment_worker_file
<1> DEFINE f == F.log
           logs == [f EXCEPT ![i] = Append(f[i], e)]
<1>1. /\ F = [log |-> F.log, worker_waitfile |-> F.worker_waitfile,
              master_waitfile |-> F.master_waitfile, worker_input |-> F.worker_input,
              worker_output |-> F.worker_output, moment_worker_file |-> F.moment_worker_file]
      /\ f \in [Slot -> Seq(Event)]
  BY Zenon DEF FilesType
<1>2. G = [F EXCEPT !.log = logs]
  BY <1>1
<1>3. /\ logs \in [Slot -> Seq(Event)] /\ logs[i] = Append(f[i], e)
      /\ \A k \in Slot \ {i} : logs[k] = f[k]
  <2> HIDE DEF f
  <2>1. Append(f[i], e) \in Seq(Event)
    BY <1>1
  <2> QED
    BY <1>1, <2>1
<1> HIDE DEF logs
<1>4. /\ G.log = logs /\ G.moment_worker_file = F.moment_worker_file
      /\ G.worker_waitfile = F.worker_waitfile /\ G.worker_input = F.worker_input
      /\ G.master_waitfile = F.master_waitfile /\ G.worker_output = F.worker_output
      /\ G = [log |-> G.log, worker_waitfile |-> G.worker_waitfile,
              master_waitfile |-> G.master_waitfile, worker_input |-> G.worker_input,
              worker_output |-> G.worker_output, moment_worker_file |-> G.moment_worker_file]
  BY <1>1, <1>2
<1>5. FilesType(G)
  BY <1>3, <1>4, Zenon DEF FilesType
<1> QED
  BY <1>3, <1>4, <1>5

LEMMA LoggedGoes ==
  ASSUME Inv, NEW j \in DOMAIN State.jobs, NEW K, JobsType(K), Later(State.jobs, K),
         NEW kind \in {"EXECUTE", "EVICTED", "SHADOW_EXCEPTION", "TERMINATED", "ABORTED", "OTHER"},
         kind \in {"ABORTED", "TERMINATED"} => j \notin DOMAIN K,
         jobs' = K, files' = Logged(files, j, kind),
         UNCHANGED <<rc, workers, lost, crashes>>, Within'
  PROVE  Goes
<1> DEFINE i == State.jobs[j].slot
<1>1. /\ Sound(State) /\ Typed(State) /\ workers \in [Slot -> WorkerID]
      /\ Reported(State, workers) /\ (Neat => Talk(State, workers))
  BY InvIs, Zenon
<1>2. PICK e : e = [job |-> j, kind |-> kind]
  OBVIOUS
<1>3. i \in Slot /\ j \in Nat
  BY <1>1, JobIs DEF Typed
<1>4. e \in Event
  BY <1>2, <1>3 DEF Event
<1>5. files' = [State.files EXCEPT !.log[i] = Append(@, e)]
  BY <1>2, StateIs DEF Logged
<1>6. FilesType(State.files)
  BY <1>1 DEF Typed
<1> HIDE DEF i
<1>7. PICK G : G = files'
  OBVIOUS
<1>8. /\ FilesType(G) /\ G.log[i] = Append(State.files.log[i], e)
      /\ \A k \in Slot \ {i} : G.log[k] = State.files.log[k]
      /\ G.worker_waitfile = State.files.worker_waitfile
      /\ G.master_waitfile = State.files.master_waitfile
      /\ G.worker_input = State.files.worker_input
      /\ G.worker_output = State.files.worker_output
      /\ G.moment_worker_file = State.files.moment_worker_file
  BY <1>3, <1>4, <1>5, <1>6, <1>7, LoggedIs
<1>9. PICK t : t = State'
  OBVIOUS
<1>10. /\ t = [rc |-> t.rc, files |-> t.files, jobs |-> t.jobs, lost |-> t.lost]
       /\ t.rc = State.rc /\ t.files = G /\ t.jobs = K /\ t.lost = State.lost
  BY <1>7, <1>9 DEF State
<1>11. Typed(t) /\ (Works(t) <=> Works(State))
  BY <1>1, <1>8, <1>10 DEF Typed, Works
<1>12. Sound(t)
  <2>1. [job |-> j, kind |-> kind] \in Event /\ kind # "SUBMIT"
    BY <1>2, <1>4
  <2>2. G.log[i] = Append(State.files.log[i], [job |-> j, kind |-> kind])
    BY <1>2, <1>8
  <2>3. /\ kind \in {"ABORTED", "TERMINATED"} => j \notin DOMAIN t.jobs
        /\ Later(State.jobs, t.jobs)
        /\ t.files.moment_worker_file = State.files.moment_worker_file
        /\ \A k \in Slot \ {i} : t.files.log[k] = State.files.log[k]
        /\ t.files.log[i] = Append(State.files.log[i], [job |-> j, kind |-> kind])
    BY <1>8, <1>10, <2>2
  <2>4. i = State.jobs[j].slot /\ t.rc = State.rc /\ t.lost = State.lost
    BY <1>10 DEF i
  <2> QED
    BY <1>1, <1>11, <2>1, <2>3, <2>4, LoggedIsSound, Zenon
<1>13. Reported(t, workers)
  BY <1>1, <1>10, <1>11 DEF Reported
<1>14. ASSUME Neat PROVE Talk(t, workers)
  <2>0. Processes(t.jobs)
    <3>1. Processes(State.jobs)
      BY <1>1, <1>14, Zenon DEF Talk
    <3> QED
      BY <1>10, <3>1 DEF Processes, Later
  <2>1. SUFFICES ASSUME Works(t)
                 PROVE  t.rc.resuming = {} /\ ~t.rc.synced /\ \A k \in Slot : TalksIn(t, workers, k)
    BY <2>0, Zenon DEF Talk
  <2>2. /\ State.rc.resuming = {} /\ ~State.rc.synced
        /\ \A k \in Slot : TalksIn(State, workers, k)
    BY <1>1, <1>11, <1>14, <2>1, Zenon DEF Talk
  <2>3. ASSUME NEW k \in Slot PROVE TalksIn(t, workers, k)
    <3>1. /\ t.rc.fileWorkers[k] = State.rc.fileWorkers[k]
          /\ t.files.worker_waitfile[k] = State.files.worker_waitfile[k]
          /\ t.files.master_waitfile[k] = State.files.master_waitfile[k]
          /\ t.files.worker_input[k] = State.files.worker_input[k]
          /\ t.files.worker_output[k] = State.files.worker_output[k]
      BY <1>8, <1>10
    <3>2. TalksIn(State, workers, k)
      BY <2>2
    <3> QED
      BY <3>1, <3>2, TalksSame, Zenon
  <2> QED
    BY <1>10, <2>2, <2>3
<1>15. Good(t, workers, Neat)
  BY <1>1, <1>12, <1>13, <1>14, Zenon DEF Good
<1> QED
  BY <1>9, <1>11, <1>15 DEF Goes

(* A job leaves the queue. *)
LEMMA LeavesGoes ==
  ASSUME Inv, NEW j \in DOMAIN State.jobs, NEW kind \in {"TERMINATED", "ABORTED"},
         Leaves(j, kind), UNCHANGED <<rc, workers, lost, crashes>>, Within'
  PROVE  Goes
<1> DEFINE J == State.jobs
<1>1. JobsType(J)
  BY InvIs DEF Typed
<1>2. PICK K : K = Without(J, {j})
  OBVIOUS
<1>3. jobs' = K /\ files' = Logged(files, j, kind)
  BY <1>2, StateIs, Zenon DEF Leaves
<1>4. DOMAIN K = DOMAIN J \ {j} /\ \A k \in DOMAIN K : K[k] = J[k]
  BY <1>2 DEF Without, Restrict
<1>5. K = [k \in DOMAIN J \ {j} |-> J[k]]
  BY <1>2 DEF Without, Restrict
<1>6. JobsType(K)
  <2>1. /\ J \in [DOMAIN J -> Job] /\ IsFiniteSet(DOMAIN J)
        /\ DOMAIN J \subseteq Nat \ {NoJob}
    BY <1>1 DEF JobsType
  <2>2. IsFiniteSet(DOMAIN J \ {j})
    BY <2>1, FS_Subset
  <2>3. K \in [DOMAIN J \ {j} -> Job]
    BY <1>5, <2>1
  <2> QED
    BY <1>4, <2>1, <2>2, <2>3 DEF JobsType
<1>7. Later(J, K) /\ j \notin DOMAIN K
  BY <1>4 DEF Later
<1> QED
  BY <1>3, <1>6, <1>7, LoggedGoes

(* A process starts, or its machine is taken away. *)
LEMMA PhaseGoes ==
  ASSUME Inv, NEW j \in DOMAIN State.jobs, NEW kind \in {"EXECUTE", "EVICTED", "SHADOW_EXCEPTION"},
         NEW p \in Job, p.slot = State.jobs[j].slot, p.removed = State.jobs[j].removed, Process(p),
         jobs' = [State.jobs EXCEPT ![j] = p], files' = Logged(files, j, kind),
         UNCHANGED <<rc, workers, lost, crashes>>, Within'
  PROVE  Goes
<1>1. JobsType(State.jobs)
  BY InvIs DEF Typed
<1>2. PICK K : K = [State.jobs EXCEPT ![j] = p]
  OBVIOUS
<1>3. /\ JobsType(K) /\ DOMAIN K = DOMAIN State.jobs /\ K[j] = p
      /\ \A k \in DOMAIN State.jobs : k # j => K[k] = State.jobs[k]
  BY <1>1, <1>2, ProcessChanged
<1>4. Later(State.jobs, K)
  BY <1>3 DEF Later
<1> QED
  BY <1>2, <1>3, <1>4, LoggedGoes
LEMMA FailsGoes ==
  ASSUME Inv, NEW j \in DOMAIN State.jobs, Fails(j)
  PROVE  Goes
<1>1. Leaves(j, "TERMINATED") /\ UNCHANGED <<rc, workers, lost, sent, crashes, faults, odd>>
  BY Zenon DEF Fails
<1>2. Within'
  BY <1>1, InvIs DEF Within
<1> QED
  BY <1>1, <1>2, LeavesGoes

LEMMA DiesGoes ==
  ASSUME Inv, NEW j \in DOMAIN State.jobs, Dies(j)
  PROVE  Goes
<1>1. /\ faults < MaxFaults /\ faults' = faults + 1 /\ Leaves(j, "TERMINATED")
      /\ UNCHANGED <<rc, workers, lost, sent, crashes, odd>>
  BY Zenon DEF Dies
<1>2. Within'
  BY <1>1, InvIs, FileBounds DEF Within
<1> QED
  BY <1>1, <1>2, LeavesGoes

LEMMA RemovesGoes ==
  ASSUME Inv, NEW j \in DOMAIN State.jobs, CondorRemoves(j)
  PROVE  Goes
<1>1. Leaves(j, "ABORTED") /\ UNCHANGED <<rc, workers, lost, sent, crashes, faults, odd>>
  BY Zenon DEF CondorRemoves
<1>2. Within'
  BY <1>1, InvIs DEF Within
<1> QED
  BY <1>1, <1>2, LeavesGoes

LEMMA AbortGoes ==
  ASSUME Inv, NEW j \in DOMAIN State.jobs, AbortJob(j)
  PROVE  Goes
<1>1. /\ odd < MaxOdd /\ odd' = odd + 1 /\ Leaves(j, "ABORTED")
      /\ UNCHANGED <<rc, workers, lost, sent, crashes, faults>>
  BY Zenon DEF AbortJob
<1>2. Within'
  BY <1>1, InvIs, FileBounds DEF Within
<1> QED
  BY <1>1, <1>2, LeavesGoes

LEMMA StartsGoes ==
  ASSUME Inv, NEW j \in DOMAIN State.jobs, StartJob(j)
  PROVE  Goes
<1> DEFINE q == State.jobs[j]
<1>1. /\ jobs' = [State.jobs EXCEPT ![j].phase = "starting", ![j].expected_number = 0,
                                    ![j].master_expected_number = 0]
      /\ files' = Logged(files, j, "EXECUTE")
      /\ UNCHANGED <<rc, workers, lost, sent, crashes, faults, odd>>
  BY StateIs, Zenon DEF StartJob
<1>2. State.jobs \in [DOMAIN State.jobs -> Job] /\ q \in Job
  BY InvIs DEF Typed, JobsType
<1>3. PICK p : p = [slot |-> q.slot, exec_class |-> q.exec_class, removed |-> q.removed,
                    phase |-> "starting", expected_number |-> 0, master_expected_number |-> 0]
  OBVIOUS
<1>4. q = [slot |-> q.slot, exec_class |-> q.exec_class, removed |-> q.removed,
           phase |-> q.phase, expected_number |-> q.expected_number,
           master_expected_number |-> q.master_expected_number]
  BY <1>2 DEF Job
<1>5. p = [[[q EXCEPT !.phase = "starting"] EXCEPT !.expected_number = 0]
             EXCEPT !.master_expected_number = 0]
  <2> DEFINE p1 == [q EXCEPT !.phase = "starting"]
             p2 == [p1 EXCEPT !.expected_number = 0]
  <2>1. p1 = [slot |-> q.slot, exec_class |-> q.exec_class, removed |-> q.removed,
              phase |-> "starting", expected_number |-> q.expected_number,
              master_expected_number |-> q.master_expected_number]
    <3> HIDE DEF q
    <3> QED
      BY <1>4
  <2> HIDE DEF p1, q
  <2>2. p2 = [slot |-> q.slot, exec_class |-> q.exec_class, removed |-> q.removed,
              phase |-> "starting", expected_number |-> 0,
              master_expected_number |-> q.master_expected_number]
    BY <2>1
  <2> HIDE DEF p2
  <2>3. [p2 EXCEPT !.master_expected_number = 0] = p
    BY <1>3, <2>2
  <2> QED
    BY <2>3 DEF p1, p2
<1>6. jobs' = [State.jobs EXCEPT ![j] = p]
  BY <1>1, <1>2, <1>5
<1>7. p \in Job /\ p.slot = q.slot /\ p.removed = q.removed
  <2> HIDE DEF q
  <2> QED
    BY <1>2, <1>3 DEF Job
<1>8. Process(p)
  BY <1>3 DEF Process
<1>9. Within'
  BY <1>1, InvIs DEF Within
<1> QED
  BY <1>1, <1>6, <1>7, <1>8, <1>9, PhaseGoes

LEMMA EvictGoes ==
  ASSUME Inv, NEW j \in DOMAIN State.jobs, Evict(j)
  PROVE  Goes
<1> DEFINE q == State.jobs[j]
<1>1. /\ faults < MaxFaults /\ faults' = faults + 1
      /\ jobs' = [State.jobs EXCEPT ![j].phase = "idle"]
      /\ \E kind \in {"EVICTED", "SHADOW_EXCEPTION"} : files' = Logged(files, j, kind)
      /\ UNCHANGED <<rc, workers, lost, sent, crashes, odd>>
  BY StateIs, Zenon DEF Evict
<1>2. State.jobs \in [DOMAIN State.jobs -> Job] /\ q \in Job
  BY InvIs DEF Typed, JobsType
<1>3. PICK p : p = [q EXCEPT !.phase = "idle"]
  OBVIOUS
<1>4. jobs' = [State.jobs EXCEPT ![j] = p]
  BY <1>1, <1>2, <1>3
<1>5. p \in Job /\ p.slot = q.slot /\ p.removed = q.removed /\ p.phase = "idle"
  <2> HIDE DEF q
  <2> QED
    BY <1>2, <1>3 DEF Job
<1>6. Process(p)
  BY <1>5 DEF Process
<1>7. Within'
  BY <1>1, InvIs, FileBounds DEF Within
<1>8. PICK kind \in {"EVICTED", "SHADOW_EXCEPTION"} : files' = Logged(files, j, kind)
  BY <1>1
<1> QED
  BY <1>1, <1>4, <1>5, <1>6, <1>7, <1>8, PhaseGoes

LEMMA OtherGoes ==
  ASSUME Inv, NEW j \in DOMAIN State.jobs, LogOther(j)
  PROVE  Goes
<1>1. /\ odd < MaxOdd /\ odd' = odd + 1 /\ files' = Logged(files, j, "OTHER")
      /\ UNCHANGED <<rc, jobs, workers, lost, sent, crashes, faults>>
  BY Zenon DEF LogOther
<1>2. Within'
  BY <1>1, InvIs, FileBounds DEF Within
<1>3. JobsType(State.jobs) /\ jobs' = State.jobs
  BY <1>1, InvIs, StateIs DEF Typed
<1>4. Later(State.jobs, State.jobs)
  BY DEF Later
<1> QED
  BY <1>1, <1>2, <1>3, <1>4, LoggedGoes
-----------------------------------------------------------------------------
(* The beginning, and every step. *)

LEMMA SomeClass ==
  ASSUME NEW i \in Slot
  PROVE  0 \in Classes
<1>1. Len(TargetOf) \in Nat /\ TargetOf \in [1 .. Len(TargetOf) -> Int]
  BY TargetsAreNatural
<1>2. Len(TargetOf) # 0
  <2>1. SUFFICES ASSUME Len(TargetOf) = 0 PROVE FALSE
    OBVIOUS
  <2>2. \A j \in 1 .. Len(TargetOf) : TargetOf[j] = 0
    BY <2>1
  <2>3. Total(TargetOf) = 0
    BY <1>1, <2>2, TotalNone
  <2> QED
    BY <2>3 DEF Slot
<1> QED
  BY <1>1, <1>2 DEF Classes

LEMMA InitIs ==
  ASSUME Init
  PROVE  Inv
<1> DEFINE fw == [i \in Slot |-> Unused]
           reqs == [c \in Classes |-> 0]
           m == [i \in Slot |-> [job |-> NoJob, exec_class |-> 0]]
           none == [i \in Slot |-> <<>>]
<1>1. PICK s : s = State
  OBVIOUS
<1>2. /\ rc = Memory(fw, reqs, {})
      /\ files = [log |-> none, worker_waitfile |-> none, master_waitfile |-> none,
                  worker_input |-> none, worker_output |-> none, moment_worker_file |-> m]
      /\ jobs = <<>> /\ workers = [i \in Slot |-> NoWorker] /\ lost = [c \in Classes |-> 0]
      /\ sent = 0 /\ crashes = 0 /\ faults = 0 /\ odd = 0
  BY Zenon DEF Init
<1>3. /\ s = [rc |-> s.rc, files |-> s.files, jobs |-> s.jobs, lost |-> s.lost]
      /\ s.rc = rc /\ s.files = files /\ s.jobs = <<>> /\ s.lost = [c \in Classes |-> 0]
  BY <1>1, <1>2 DEF State
<1>4. /\ s.rc = [fileWorkers |-> fw, hostadd_reqs |-> reqs, resuming |-> {},
                 synced |-> FALSE, looping |-> FALSE]
  BY <1>2, <1>3 DEF Memory
<1>5. /\ s.files.log = none /\ s.files.worker_waitfile = none /\ s.files.master_waitfile = none
      /\ s.files.worker_input = none /\ s.files.worker_output = none
      /\ s.files.moment_worker_file = m
  BY <1>2, <1>3
<1>6. ASSUME NEW i \in Slot
      PROVE  /\ fw[i] \in FileWorker /\ fw[i].state = "FREE" /\ fw[i].job = NoJob
             /\ m[i] \in [job : Nat, exec_class : Classes] /\ m[i].job = NoJob
             /\ NoWorker \in WorkerID /\ NoWorker.state = "NONE"
  <2>1. 0 \in Classes
    BY SomeClass
  <2>2. Unused \in FileWorker /\ Unused.state = "FREE" /\ Unused.job = NoJob
    BY <2>1 DEF Unused, FileWorker, FileState, NoJob
  <2>3. NoJob \in Nat
    BY DEF NoJob
  <2> QED
    BY <2>1, <2>2, <2>3, NoWorkerIs
<1>7. s.rc \in MemoryType
  <2>1. fw \in [Slot -> FileWorker] /\ reqs \in [Classes -> Nat]
    BY <1>6
  <2> HIDE DEF fw, reqs
  <2> QED
    BY <1>4, <2>1 DEF MemoryType
<1>8. FilesType(s.files)
  <2>1. none \in [Slot -> Seq(Event)] /\ none \in [Slot -> Seq(Entry)]
    OBVIOUS
  <2>2. Holds(<<>>)
    BY DEF Holds
  <2>3. m \in [Slot -> [job : Nat, exec_class : Classes]]
    <3>1. \A i \in Slot : m[i] \in [job : Nat, exec_class : Classes]
      BY <1>6
    <3>2. m = [i \in Slot |-> m[i]]
      OBVIOUS
    <3> HIDE DEF m
    <3> QED
      BY <3>1, <3>2
  <2>4. DOMAIN none = Slot /\ none = [i \in Slot |-> none[i]] /\ \A i \in Slot : Holds(none[i])
    BY <2>2
  <2>5. s.files = [log |-> s.files.log, worker_waitfile |-> s.files.worker_waitfile,
                   master_waitfile |-> s.files.master_waitfile,
                   worker_input |-> s.files.worker_input,
                   worker_output |-> s.files.worker_output,
                   moment_worker_file |-> s.files.moment_worker_file]
    BY <1>2, <1>3
  <2> HIDE DEF none, m
  <2> QED
    BY <1>5, <2>1, <2>3, <2>4, <2>5, Zenon DEF FilesType
<1>9. JobsType(s.jobs) /\ DOMAIN s.jobs = {}
  BY <1>3, FS_EmptySet DEF JobsType
<1>10. Typed(s)
  BY <1>3, <1>7, <1>8, <1>9 DEF Typed
<1>11. \A i \in Slot : /\ s.rc.fileWorkers[i].state = "FREE" /\ s.rc.fileWorkers[i].job = NoJob
                       /\ s.files.moment_worker_file[i].job = NoJob
                       /\ s.files.log[i] = <<>>
  BY <1>4, <1>5, <1>6
<1>a. \A i \in Slot :
        /\ s.rc.fileWorkers[i].state = "FREE" /\ s.rc.fileWorkers[i].counter = 0
        /\ s.rc.fileWorkers[i].worker_counter = 0
        /\ s.files.worker_waitfile[i] = <<>> /\ s.files.master_waitfile[i] = <<>>
        /\ s.files.worker_input[i] = <<>>
  <2>1. /\ Unused.state = "FREE" /\ Unused.counter = 0 /\ Unused.worker_counter = 0
    BY DEF Unused
  <2> QED
    BY <1>4, <1>5, <2>1
<1> HIDE DEF fw, reqs, m, none
<1>12. Logs(s)
  BY <1>11 DEF Logs, LogOK
<1>13. Slots(s)
  BY <1>11 DEF Slots, SlotOK
<1>14. Filed(s)
  BY <1>11 DEF Filed, HasLog, InFile
<1>15. Account(s)
  <2>1. ASSUME NEW c \in Classes PROVE Asked(s.rc.fileWorkers, c) = {}
    BY <1>11 DEF Asked
  <2>2. Cardinality({}) = 0
    BY FS_EmptySet
  <2>3. ASSUME NEW c \in Classes PROVE s.rc.hostadd_reqs[c] = 0 /\ s.lost[c] = 0
    BY <1>3, <1>4 DEF reqs
  <2> QED
    BY <2>1, <2>2, <2>3 DEF Account
<1>16. Owned(s)
  BY <1>9, <1>11 DEF Owned, MemoOwn
<1>17. Sound(s)
  BY <1>10, <1>12, <1>13, <1>14, <1>15, <1>16 DEF Sound
<1>18. workers \in [Slot -> WorkerID] /\ \A i \in Slot : workers[i].state = "NONE"
  BY <1>2, <1>6
<1>19. Reported(s, workers)
  BY <1>18 DEF Reported
<1>20. Talk(s, workers)
  <2>1. ASSUME NEW i \in Slot PROVE TalksIn(s, workers, i)
    <3>1. PICK w : w = s.rc.fileWorkers[i]
      OBVIOUS
    <3>2. /\ w.state = "FREE" /\ w.counter = 0 /\ w.worker_counter = 0
          /\ s.files.worker_waitfile[i] = <<>> /\ s.files.master_waitfile[i] = <<>>
          /\ s.files.worker_input[i] = <<>>
      BY <1>a, <3>1
    <3>3. InTurn(w, workers[i])
      BY <1>18, <3>2 DEF InTurn
    <3>4. Sent(w, NoTask, <<>>, <<>>)
      BY DEF Sent
    <3>5. ASSUME NEW output PROVE Said(w, NoTask, <<>>, <<>>, output)
      BY DEF Said
    <3>6. w.state \notin Alive
      BY <3>2 DEF Alive
    <3>7. About(NoTask, w, workers[i], <<>>, <<>>, <<>>, s.files.worker_output[i])
      BY <3>4, <3>5, <3>6, Zenon DEF About
    <3>8. Talks(w, workers[i], <<>>, <<>>, <<>>, s.files.worker_output[i])
      BY <3>3, <3>7 DEF Talks
    <3>9. Talks(w, workers[i], s.files.worker_waitfile[i], s.files.master_waitfile[i],
                s.files.worker_input[i], s.files.worker_output[i])
      BY <3>2, <3>8
    <3> QED
      BY <3>1, <3>9 DEF TalksIn
  <2>2. Processes(s.jobs)
    BY <1>9 DEF Processes
  <2> QED
    BY <1>4, <2>1, <2>2 DEF Talk
<1>21. Good(s, workers, Neat)
  BY <1>17, <1>18, <1>19, <1>20, Zenon DEF Good
<1>22. Within
  BY <1>2, FileBounds DEF Within
<1>23. Works(s)
  BY <1>7 DEF Works
<1> QED
  BY <1>1, <1>21, <1>22, <1>23 DEF Inv

LEMMA GoesKeeps ==
  ASSUME Inv, Goes
  PROVE  Inv'
<1>1. /\ Good(State', workers', Neat) /\ (Works(State) => Works(State'))
      /\ crashes' = crashes /\ Within'
  BY Zenon DEF Goes
<1>2. Neat' <=> Neat
  BY <1>1 DEF Neat
<1>3. Good(State', workers', Neat')
  BY <1>1, <1>2 DEF Good
<1>4. crashes' = 0 => Works(State')
  BY <1>1, InvIs
<1> QED
  BY <1>1, <1>3, <1>4 DEF Inv

LEMMA ServeGoes ==
  ASSUME Inv, NEW i \in Slot, Serve(i)
  PROVE  Goes
<1>1. CASE HandleExecuting(i)
  BY <1>1, ReportedGoes
<1>2. CASE HandleKilled(i)
  BY <1>2, KilledGoes
<1>3. CASE HandleTransited(i)
  BY <1>3, TransitedGoes
<1>4. CASE ReceiveInit(i)
  BY <1>4, InitGoes
<1>5. CASE ReceiveInitInVain(i)
  BY <1>5, InitInVainGoes
<1>6. CASE ReceiveBenchResults(i)
  BY <1>6, BenchGoes
<1>7. CASE ReceiveResults(i)
  BY <1>7, ResultsGoes
<1> QED
  BY <1>1, <1>2, <1>3, <1>4, <1>5, <1>6, <1>7, Zenon DEF Serve

LEMMA WorkerGoes ==
  ASSUME Inv, NEW j \in DOMAIN State.jobs, WorkerRuns(j)
  PROVE  Goes
<1>1. CASE GreetMaster(j)
  BY <1>1, GreetGoes
<1>2. CASE DoBenchmarkCmd(j)
  BY <1>2, BenchmarkGoes
<1>3. CASE Reinit(j)
  BY <1>3, ReinitGoes
<1>4. CASE DoThisWork(j)
  BY <1>4, ThisWorkGoes
<1>5. CASE Fails(j)
  BY <1>5, FailsGoes
<1> QED
  BY <1>1, <1>2, <1>3, <1>4, <1>5, Zenon DEF WorkerRuns

LEMMA StepKeeps ==
  ASSUME Inv, [Next]_fileVars
  PROVE  Inv'
<1>1. CASE StartMainloop
  BY <1>1, StartMainloopGoes, GoesKeeps
<1>2. CASE Crash
  BY <1>2, CrashKeeps
<1>3. CASE Restart
  BY <1>3, RestartGoes, GoesKeeps
<1>4. CASE Resync
  BY <1>4, ResyncGoes, GoesKeeps
<1>5. CASE ResetCounters
  BY <1>5, ResetGoes, GoesKeeps
<1>6. CASE CheckLogFilesRunning
  BY <1>6, CheckLogsGoes, GoesKeeps
<1>7. ASSUME NEW i \in Slot, Serve(i) \/ SendTask(i) PROVE Inv'
  BY <1>7, ServeGoes, SendTaskGoes, GoesKeeps
<1>8. ASSUME NEW j \in DOMAIN jobs, WorkerRuns(j) \/ Dies(j) PROVE Inv'
  <2>1. j \in DOMAIN State.jobs
    BY StateIs
  <2> QED
    BY <1>8, <2>1, WorkerGoes, DiesGoes, GoesKeeps
<1>9. ASSUME NEW j \in DOMAIN jobs, StartJob(j) \/ Evict(j) \/ CondorRemoves(j) PROVE Inv'
  <2>1. j \in DOMAIN State.jobs
    BY StateIs
  <2> QED
    BY <1>9, <2>1, StartsGoes, EvictGoes, RemovesGoes, GoesKeeps
<1>10. ASSUME NEW j \in DOMAIN jobs, AbortJob(j) \/ LogOther(j) PROVE Inv'
  <2>1. j \in DOMAIN State.jobs
    BY StateIs
  <2> QED
    BY <1>10, <2>1, AbortGoes, OtherGoes, GoesKeeps
<1>11. CASE UNCHANGED fileVars
  <2>1. /\ rc' = rc /\ files' = files /\ jobs' = jobs /\ workers' = workers /\ lost' = lost
        /\ sent' = sent /\ crashes' = crashes /\ faults' = faults /\ odd' = odd
    BY <1>11 DEF fileVars, backEnd
  <2>2. State' = State
    BY <2>1 DEF State
  <2>3. Within'
    BY <2>1, InvIs DEF Within
  <2>4. Good(State', workers', Neat) /\ (Works(State) => Works(State'))
    BY <2>1, <2>2, InvIs
  <2>5. Goes
    BY <2>1, <2>3, <2>4 DEF Goes
  <2> QED
    BY <2>5, GoesKeeps
<1>12. Next \/ UNCHANGED fileVars
  OBVIOUS
<1> QED
  BY <1>1, <1>2, <1>3, <1>4, <1>5, <1>6, <1>7, <1>8, <1>9, <1>10, <1>11, <1>12, Zenon DEF Next
-----------------------------------------------------------------------------
(* What follows from it. *)

LEMMA AccountHolds ==
  ASSUME Inv
  PROVE  AccountAddsUp
<1>1. /\ Typed(State) /\ Sound(State) /\ (Up => Works(State)) /\ Within
      /\ workers \in [Slot -> WorkerID]
  BY InvIs
<1>2. FileTypeOK
  <2>1. Up => /\ rc.fileWorkers \in [Slot -> FileWorker]
              /\ rc.hostadd_reqs \in [Classes -> Nat]
    BY <1>1, WorkersAre, StateIs
  <2>2. /\ files.log \in [Slot -> Seq(Event)]
        /\ files.worker_waitfile \in [Slot -> Seq(Entry)]
        /\ files.master_waitfile \in [Slot -> Seq(Entry)]
        /\ files.moment_worker_file \in [Slot -> [job : Nat, exec_class : Classes]]
    BY <1>1, RecordsAre, StateIs
  <2>3. ASSUME NEW i \in Slot
        PROVE  /\ Range(files.worker_input[i]) \subseteq Message
               /\ Range(files.worker_output[i]) \subseteq Message
    <3>1. Holds(files.worker_input[i]) /\ Holds(files.worker_output[i])
      BY <1>1, RecordsAre, StateIs
    <3>2. ASSUME NEW f, Holds(f) PROVE Range(f) \subseteq Message
      BY <3>2 DEF Holds, Range
    <3> QED
      BY <3>1, <3>2
  <2>4. NoJob \notin DOMAIN jobs /\ Range(jobs) \subseteq Job
    <3>1. JobsType(jobs)
      BY <1>1, StateIs DEF Typed
    <3> QED
      BY <3>1 DEF JobsType, Range
  <2>5. lost \in [Classes -> Nat]
    BY <1>1, StateIs DEF Typed
  <2> QED
    BY <1>1, <2>1, <2>2, <2>3, <2>4, <2>5 DEF FileTypeOK, Within
<1>3. ASSUME Looping, NEW c \in Classes
      PROVE  rc.hostadd_reqs[c] = lost[c] + Cardinality(Asked(rc.fileWorkers, c))
  <2>1. Works(State)
    BY <1>1, <1>3, Zenon DEF Looping
  <2>2. Account(State)
    BY <1>1, Zenon DEF Sound
  <2> QED
    BY <2>1, <2>2, StateIs DEF Account
<1> QED
  BY <1>2, <1>3 DEF AccountAddsUp, Asked

LEMMA NobodyIsLost ==
  ASSUME Inv, ~LateRemoval
  PROVE  NoOrphans
<1>1. /\ \A j \in DOMAIN jobs : JobOwn(j, jobs[j], files.moment_worker_file[jobs[j].slot])
      /\ Up => \A j \in DOMAIN jobs : Kept(j, jobs[j], rc.fileWorkers[jobs[j].slot])
  <2>1. Owned(State) /\ (Up => Works(State))
    BY InvIs DEF Sound
  <2> QED
    BY <2>1, StateIs DEF Owned, Memo, WorkerOf
<1>2. ASSUME NEW j \in DOMAIN jobs, ~jobs[j].removed
      PROVE  /\ Up => /\ rc.fileWorkers[jobs[j].slot].job = j
                      /\ rc.fileWorkers[jobs[j].slot].state # "FREE"
             /\ files.moment_worker_file[jobs[j].slot].job = j
  BY <1>1, <1>2 DEF JobOwn, Kept
<1> QED
  BY <1>2 DEF NoOrphans

LEMMA AnswersAreFit ==
  ASSUME Inv
  PROVE  AnswersFit
<1>1. SUFFICES ASSUME crashes = 0, Looping, NEW i \in Slot,
                      rc.fileWorkers[i].state = "RUNNING", IsComplete(i)
               PROVE  /\ rc.fileWorkers[i].counter \in DOMAIN files.worker_output[i]
                      /\ CASE Message_(i).tag = "INIT" -> workers[i].state = "INITIALIZING"
                           [] Message_(i).tag = "BENCH_RESULTS" ->
                                workers[i].state = "BENCHMARKING"
                           [] OTHER -> /\ workers[i].state = "WORKING"
                                       /\ workers[i].task = Message_(i).task
  BY Zenon DEF AnswersFit, AnswersFitAlways
<1> DEFINE w == State.rc.fileWorkers[i]
           input == State.files.worker_input[i]
           output == State.files.worker_output[i]
           mw == State.files.master_waitfile[i]
<1>2. Up
  BY <1>1, Zenon DEF Looping
<1>3. /\ Works(State) /\ Typed(State) /\ workers \in [Slot -> WorkerID] /\ Talk(State, workers)
  BY <1>1, <1>2, InvIs DEF Neat
<1>4. InPlace(i)
  BY <1>3, PlaceIs
<1>5. w.state = "RUNNING" /\ w \in FileWorker /\ workers[i] \in WorkerID
  BY <1>1, <1>4, StateIs DEF InPlace
<1>a. /\ InTurn(w, workers[i])
      /\ \E t : /\ w.state \in Alive => t = workers[i].task
                /\ Said(w, t, mw, input, output)
  <2>1. TalksIn(State, workers, i)
    BY <1>3 DEF Talk
  <2> QED
    BY <2>1, Zenon DEF TalksIn, Talks, About
<1>b. PICK t : /\ w.state \in Alive => t = workers[i].task
               /\ Said(w, t, mw, input, output)
  BY <1>a
<1>6. InTurn(w, workers[i]) /\ Said(w, t, mw, input, output)
  BY <1>a, <1>b
<1>7. Heard(w, mw)
  BY <1>1, StateIs DEF IsComplete, Oks, Heard
<1>8. Message_(i) = output[w.counter]
  BY StateIs DEF Message_
<1>9. rc.fileWorkers[i].counter = w.counter /\ files.worker_output[i] = output
  BY StateIs
<1>16. t = workers[i].task
  BY <1>5, <1>b DEF Alive
<1> HIDE DEF w, input, output, mw
<1>10. /\ w.counter <= w.worker_counter
       /\ w.counter \in DOMAIN output /\ output[w.counter] = Answered(w.counter, t)
       /\ w.counter \in Nat
  BY <1>5, <1>6, <1>7, HeardIs
<1>11. /\ workers[i].state = "INITIALIZING" <=> w.counter = 0
       /\ workers[i].state = "BENCHMARKING" <=> w.counter = 1
       /\ workers[i].state = "WORKING" <=> w.counter >= 2
  BY <1>5, <1>6, <1>10, TurnIs
<1>12. PICK a : a = Answered(w.counter, t)
  OBVIOUS
<1>13. /\ a.tag = "INIT" <=> w.counter = 0
       /\ a.tag = "BENCH_RESULTS" <=> w.counter = 1
       /\ w.counter >= 2 => a.task = t
  BY <1>10, <1>12, AnsweredIs
<1>14. w.counter = 0 \/ w.counter = 1 \/ w.counter >= 2
  BY <1>10
<1>15. Message_(i) = a
  BY <1>8, <1>10, <1>12
<1> QED
  BY <1>9, <1>10, <1>11, <1>13, <1>14, <1>15, <1>16

-----------------------------------------------------------------------------
(* The theorems. *)

(* The invariant of the file back end: the log, the file of the jobs, Condor's  *)
(* queue and the master's memory belong together, however often the master dies *)
(* and comes back; and the talk with a worker, as long as it never did.         *)
THEOREM FileIsSound == Spec => []Inv
<1>1. Init => Inv
  BY InitIs
<1>2. Inv /\ [Next]_fileVars => Inv'
  BY StepKeeps
<1> QED
  BY <1>1, <1>2, PTL DEF Spec

(* The outstanding requests of a class (hostadd_reqs, by which hostaddlogic asks *)
(* for workers) are its jobs that have not been reported as workers, and those   *)
(* that never will be: for any targets, slots, crashes and removals.             *)
THEOREM AccountAdds == Spec => []AccountAddsUp
<1>1. Inv => AccountAddsUp
  BY AccountHolds
<1> QED
  BY <1>1, FileIsSound, PTL

(* If a removed job is gone when its slot is used again, every job in the queue   *)
(* that is not about to be removed is the one that the master, or the file it     *)
(* will come back with, has for the slot: no slot has two, and no crash loses it. *)
THEOREM NoneOrphaned ==
  ASSUME ~LateRemoval
  PROVE  Spec => []NoOrphans
<1>1. Inv => NoOrphans
  BY NobodyIsLost
<1> QED
  BY <1>1, FileIsSound, PTL

(* What a worker has sent is the answer that the driver waits for from it, as long *)
(* as the master has not died: also of one whose slot a removed job still uses.    *)
THEOREM AnswersAlwaysFit == Spec => []AnswersFit
<1>1. Inv => AnswersFit
  BY AnswersAreFit
<1> QED
  BY <1>1, FileIsSound, PTL
=============================================================================
