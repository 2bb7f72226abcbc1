--------------------------- MODULE MWSocketProofs ---------------------------
(***************************************************************************)
(* Proofs about the socket back end.  A handler of the master is a chain   *)
(* of calls, each a function of the state of the master's world, and the   *)
(* invariant is a predicate on such states: Sound, with Kept of the        *)
(* driver's tasks and Accounts of its list, the slots and the requests.    *)
(* Each call has its lemma, a handler composes them, and JobStepKeeps is   *)
(* what all of the steps of the jobs have in common.  A master that is     *)
(* dead leaves Condor's queue and its file: Over says in which state.      *)
(***************************************************************************)
EXTENDS MWSocket, FiniteSetTheorems, TLAPS

-----------------------------------------------------------------------------
(* Sets of numbers, and sequences. *)

LEMMA LeastNat ==
  ASSUME NEW T \in SUBSET Nat, T # {}
  PROVE  \E x \in T : \A y \in T : x =< y
<1> DEFINE R == {p \in Nat \X Nat : p[1] < p[2]}
<1>1. IsWellFoundedOn(R, Nat)
  BY NatLessThanWellFounded DEF OpToRel
<1>2. \A x, y \in Nat : y < x => <<y, x>> \in R
  OBVIOUS
<1> HIDE DEF R
<1>3. PICK x \in T : \A y \in T : ~ (<<y, x>> \in R)
  BY <1>1, WFMin, Zenon
<1>4. \A y \in T : ~ (y < x)
  BY <1>2, <1>3, Zenon
<1> QED
  BY <1>4

LEMMA MinIsLeast ==
  ASSUME NEW T \in SUBSET Nat, T # {}
  PROVE  Min(T) \in T /\ \A y \in T : Min(T) =< y
BY LeastNat, Zenon DEF Min

LEMMA MinOfTwo ==
  ASSUME NEW a \in Nat \ {0}, NEW b \in Nat \ {0}
  PROVE  Min({a, b}) \in Nat \ {0} /\ Min({a, b}) =< a /\ Min({a, b}) =< b
         /\ (a =< b => Min({a, b}) = a)
<1>1. Min({a, b}) \in {a, b} /\ \A y \in {a, b} : Min({a, b}) =< y
  BY MinIsLeast
<1> QED
  BY <1>1

LEMMA AppendedTo ==
  ASSUME NEW X, NEW s \in Seq(X), NEW x \in X
  PROVE  /\ Append(s, x) \in Seq(X) /\ DOMAIN Append(s, x) = DOMAIN s \cup {Len(s) + 1}
         /\ \A n \in DOMAIN s : n # Len(s) + 1 /\ Append(s, x)[n] = s[n]
         /\ Append(s, x)[Len(s) + 1] = x
OBVIOUS

LEMMA RemovedAt ==
  ASSUME NEW X, NEW s \in Seq(X), NEW k \in DOMAIN s
  PROVE  /\ RemoveAt(s, k) \in Seq(X)
         /\ DOMAIN RemoveAt(s, k) = 1 .. Len(s) - 1
         /\ Len(RemoveAt(s, k)) = Len(s) - 1
         /\ \A n \in 1 .. Len(s) - 1 : RemoveAt(s, k)[n] = IF n < k THEN s[n] ELSE s[n + 1]
<1> DEFINE a == SubSeq(s, 1, k - 1)
           b == SubSeq(s, k + 1, Len(s))
<1>1. k \in 1 .. Len(s) /\ Len(s) \in Nat
  OBVIOUS
<1>2. a \in Seq(X) /\ Len(a) = k - 1 /\ \A n \in 1 .. k - 1 : a[n] = s[n]
  BY <1>1
<1>3. b \in Seq(X) /\ Len(b) = Len(s) - k /\ \A n \in 1 .. Len(s) - k : b[n] = s[k + n]
  BY <1>1
<1>4. RemoveAt(s, k) = a \o b
  BY DEF RemoveAt
<1> HIDE DEF a, b
<1>5. /\ a \o b \in Seq(X) /\ Len(a \o b) = Len(s) - 1
      /\ \A n \in 1 .. Len(s) - 1 :
           (a \o b)[n] = IF n <= k - 1 THEN a[n] ELSE b[n - (k - 1)]
  <2>1. Len(a) + Len(b) = Len(s) - 1
    BY <1>1, <1>2, <1>3
  <2>2. /\ a \o b \in Seq(X) /\ Len(a \o b) = Len(a) + Len(b)
        /\ \A n \in 1 .. Len(a) + Len(b) :
             (a \o b)[n] = IF n <= Len(a) THEN a[n] ELSE b[n - Len(a)]
    BY <1>2, <1>3
  <2> HIDE DEF a, b
  <2> QED
    BY <1>2, <2>1, <2>2
<1>6. ASSUME NEW n \in 1 .. Len(s) - 1
      PROVE  (a \o b)[n] = IF n < k THEN s[n] ELSE s[n + 1]
  <2>1. CASE n < k
    BY <2>1, <1>1, <1>2, <1>5
  <2>2. CASE ~(n < k)
    <3>1. n - (k - 1) \in 1 .. Len(s) - k /\ k + (n - (k - 1)) = n + 1
      BY <2>2, <1>1
    <3> QED
      BY <2>2, <3>1, <1>1, <1>3, <1>5
  <2> QED
    BY <2>1, <2>2, Zenon
<1>7. DOMAIN (a \o b) = 1 .. Len(s) - 1
  BY <1>5
<1> QED
  BY <1>4, <1>5, <1>6, <1>7

-----------------------------------------------------------------------------
(* The rank of a slot among others. *)

LEMMA SlotsAreNumbers ==
  /\ target_num_workers \in Nat \ {0} /\ HOSTINC \in Nat \ {0}
  /\ Slot \subseteq Nat /\ 0 \in Slot /\ NoFd \notin Fd /\ NoFd \notin Slot
  /\ IsFiniteSet(Slot) /\ Cardinality(Slot) = target_num_workers
<1>1. target_num_workers \in Nat \ {0} /\ HOSTINC \in Nat \ {0}
  BY SocketConstants
<1>2. IsFiniteSet(Slot) /\ Cardinality(Slot) = target_num_workers
  BY <1>1, FS_Interval DEF Slot
<1> QED
  BY <1>1, <1>2 DEF Slot, Fd, NoFd

LEMMA RankType ==
  ASSUME NEW T \in SUBSET Slot, NEW i \in Slot
  PROVE  IsFiniteSet(T) /\ Rank(i, T) \in Nat /\ Cardinality(T) \in Nat
<1>1. IsFiniteSet(T) /\ IsFiniteSet({k \in T : k < i})
  BY SlotsAreNumbers, FS_Subset, Zenon
<1> QED
  BY <1>1, FS_CardinalityType DEF Rank

LEMMA RankGrows ==
  ASSUME NEW T \in SUBSET Slot, NEW i \in T, NEW k \in Slot, i < k
  PROVE  Rank(i, T) < Rank(k, T)
<1> DEFINE A == {x \in T : x < i}
           B == {x \in T : x < k}
<1>1. IsFiniteSet(B)
  BY RankType, FS_Subset
<1>2. A \subseteq B /\ i \in B /\ i \notin A
  <2>1. i \in Nat /\ k \in Nat /\ T \subseteq Nat
    BY SlotsAreNumbers
  <2>2. ~(i < i) /\ \A x \in T : x < i => x < k
    BY <2>1
  <2> QED
    BY <2>2
<1>3. A # B
  BY <1>2
<1>4. IsFiniteSet(A) /\ Cardinality(A) <= Cardinality(B)
      /\ (Cardinality(A) = Cardinality(B) => A = B)
  BY <1>1, <1>2, FS_Subset
<1>5. Rank(i, T) \in Nat /\ Rank(k, T) \in Nat
  BY RankType, Zenon
<1> QED
  BY <1>3, <1>4, <1>5 DEF Rank

(* Ranks number a set of slots from 0 on, without a gap. *)
LEMMA RankNumbers ==
  ASSUME NEW T \in SUBSET Slot
  PROVE  /\ \A i \in T : Rank(i, T) \in 0 .. Cardinality(T) - 1
         /\ \A i, k \in T : Rank(i, T) = Rank(k, T) => i = k
         /\ \A n \in 0 .. Cardinality(T) - 1 : \E i \in T : Rank(i, T) = n
<1> DEFINE N == 0 .. Cardinality(T) - 1
           r == [i \in T |-> Rank(i, T)]
<1>1. IsFiniteSet(T) /\ Cardinality(T) \in Nat
  BY RankType, SlotsAreNumbers
<1>2. ASSUME NEW i \in T PROVE Rank(i, T) \in N
  <2> DEFINE A == {x \in T : x < i}
  <2>1. A \subseteq T \ {i}
    BY DEF Slot
  <2>2. IsFiniteSet(T \ {i}) /\ Cardinality(T \ {i}) = Cardinality(T) - 1
    BY <1>1, FS_RemoveElement
  <2>3. Cardinality(A) <= Cardinality(T) - 1
    BY <2>1, <2>2, FS_Subset
  <2> QED
    BY <2>3, <1>1, RankType DEF Rank
<1>3. ASSUME NEW i \in T, NEW k \in T, Rank(i, T) = Rank(k, T) PROVE i = k
  <2>1. Rank(i, T) \in Nat /\ Rank(k, T) \in Nat
    BY RankType
  <2>2. ~(i < k) /\ ~(k < i)
    BY <2>1, <1>3, RankGrows
  <2> QED
    BY <2>2 DEF Slot
<1>4. r \in Injection(T, N)
  BY <1>2, <1>3 DEF Injection, IsInjective
<1>5. IsFiniteSet(N) /\ Cardinality(N) = Cardinality(T)
  BY <1>1, FS_Interval
<1>6. r \in Surjection(T, N)
  BY <1>4, <1>5, FS_Injection
<1>7. ASSUME NEW n \in N PROVE \E i \in T : Rank(i, T) = n
  BY <1>6, Zenon DEF Surjection
<1> QED
  BY <1>2, <1>3, <1>7
-----------------------------------------------------------------------------
(* What a state of the master's world must be like while the master is up. *)

ConnTable == UNION {[D -> Connection] : D \in SUBSET Fd}
DriverState == [workers : Seq(WorkerID), todo : SUBSET Task, done : SUBSET Task,
                saved : SUBSET Task, ustat : {"OK", "QUIT", "ended"}]
Worlds == [rc : Memory, conns : ConnTable, backlog : Seq(Connection), jobs : Seq(Job),
           file : SUBSET Nat, driver : DriverState]

(* The map leads from a connection to a slot that names it; a slot without a *)
(* job names none.                                                           *)
MapsBack(m, cs) ==
  /\ \A fd \in DOMAIN cs : /\ m.reverseMap[fd] \in Slot
                           /\ m.socketWorkers[m.reverseMap[fd]].socket = fd
  /\ \A i \in Slot : m.socketWorkers[i].state = "FREE" => m.socketWorkers[i].socket = NoFd

(* A connection is that of a job, and says the job's slot. *)
Of(c, js) == c.job \in DOMAIN js /\ c.slot = js[c.job].slot
Addressed(cs, q, js) ==
  /\ \A fd \in DOMAIN cs : Of(cs[fd], js)
  /\ \A k \in DOMAIN q : Of(q[k], js)

(* The number that was read, unless it was what happened to be on the stack: *)
(* then nothing will ever come.                                              *)
Heard(m, cs) ==
  \A fd \in DOMAIN cs : \/ m.reverseMap[fd] = cs[fd].slot
                        \/ cs[fd].inbox = <<>> /\ cs[fd].link = "closed"

(* A job that is not being removed is an orphan, or the job of a slot and in the file. *)
GivenUp(job) == job.removed \/ job.orphan
HasSlot(j, m) == \E i \in Slot : m.socketWorkers[i].state # "FREE" /\ m.socketWorkers[i].cId = j
Named(js, m) == \A i \in Slot : m.socketWorkers[i].cId \in DOMAIN js \cup {NoJob}
Known(js, file, m) ==
  /\ \A j \in DOMAIN js : GivenUp(js[j]) \/ (j \in file /\ HasSlot(j, m))
  /\ file \subseteq DOMAIN js \cup {NoJob} /\ Named(js, m)

(* A task is in one place. *)
IsRunning(t, d) == \E k \in DOMAIN d.workers : d.workers[k].runningtask = t
Kept(d) ==
  /\ \A t \in Task : t \in d.todo \/ t \in d.done \/ IsRunning(t, d)
  /\ d.todo \cap d.done = {}
  /\ \A k \in DOMAIN d.workers : d.workers[k].runningtask \notin d.todo \cup d.done
  /\ \A k, l \in DOMAIN d.workers :
       d.workers[k].runningtask = d.workers[l].runningtask =>
         k = l \/ d.workers[k].runningtask = NoTask

(* What the master waits for is under way. *)
Reads(m, cs) ==
  m.reading = NoFd \/ /\ m.reading \in DOMAIN cs /\ cs[m.reading].inbox # <<>>
                      /\ Head(cs[m.reading].inbox).cut # "part"

Sound(S) ==
  /\ S \in Worlds
  /\ MapsBack(S.rc, S.conns) /\ Addressed(S.conns, S.backlog, S.jobs) /\ Heard(S.rc, S.conns)
  /\ Known(S.jobs, S.file, S.rc)

LEMMA ConnTables ==
  ASSUME NEW cs
  PROVE  cs \in ConnTable <=> /\ cs = [fd \in DOMAIN cs |-> cs[fd]]
                              /\ DOMAIN cs \subseteq Fd
                              /\ \A fd \in DOMAIN cs : cs[fd] \in Connection
BY DEF ConnTable

-----------------------------------------------------------------------------
(* The back end's part. *)

LEMMA RestrictConns ==
  ASSUME NEW cs \in ConnTable, NEW fd
  PROVE  LET r == Restrict(cs, DOMAIN cs \ {fd})
         IN  /\ r \in ConnTable /\ DOMAIN r = DOMAIN cs \ {fd}
             /\ \A x \in DOMAIN r : r[x] = cs[x]
<1> DEFINE r == Restrict(cs, DOMAIN cs \ {fd})
<1>1. DOMAIN cs \subseteq Fd /\ \A x \in DOMAIN cs : cs[x] \in Connection
  BY ConnTables
<1>2. r = [x \in DOMAIN cs \ {fd} |-> cs[x]]
  BY DEF Restrict
<1>3. DOMAIN r = DOMAIN cs \ {fd} /\ \A x \in DOMAIN r : r[x] = cs[x]
  BY <1>2
<1>4. r \in ConnTable
  BY <1>1, <1>2, <1>3, ConnTables
<1> QED
  BY <1>3, <1>4

LEMMA ClosedKeeps ==
  ASSUME NEW S, Sound(S), NEW fd
  PROVE  /\ Sound(Closed(S, fd))
         /\ Closed(S, fd).rc = S.rc /\ Closed(S, fd).driver = S.driver
         /\ Closed(S, fd).jobs = S.jobs
         /\ DOMAIN Closed(S, fd).conns = DOMAIN S.conns \ {fd}
<1> DEFINE r == Restrict(S.conns, DOMAIN S.conns \ {fd})
           T == Closed(S, fd)
<1>1. S \in Worlds /\ S.conns \in ConnTable
  BY DEF Sound, Worlds
<1>2. r \in ConnTable /\ DOMAIN r = DOMAIN S.conns \ {fd} /\ \A x \in DOMAIN r : r[x] = S.conns[x]
  BY <1>1, RestrictConns, Zenon
<1>3. T = [S EXCEPT !.conns = r]
  BY DEF Closed
<1> HIDE DEF r, T
<1>4. /\ T \in Worlds /\ T.conns = r /\ T.rc = S.rc /\ T.driver = S.driver /\ T.jobs = S.jobs
      /\ T.backlog = S.backlog /\ T.file = S.file
  BY <1>1, <1>2, <1>3 DEF Worlds
<1>5. MapsBack(S.rc, r) /\ Addressed(r, S.backlog, S.jobs) /\ Heard(S.rc, r)
  BY <1>2 DEF Sound, MapsBack, Addressed, Heard
<1>6. Sound(T)
  BY <1>4, <1>5 DEF Sound
<1> QED
  BY <1>2, <1>4, <1>6 DEF T

(* Sound but for the file, which is still to be written. *)
Unwritten(S) ==
  /\ S \in Worlds
  /\ MapsBack(S.rc, S.conns) /\ Addressed(S.conns, S.backlog, S.jobs) /\ Heard(S.rc, S.conns)
  /\ \A j \in DOMAIN S.jobs : GivenUp(S.jobs[j]) \/ HasSlot(j, S.rc)
  /\ Named(S.jobs, S.rc)

LEMMA WrittenKeeps ==
  ASSUME NEW S, Unwritten(S)
  PROVE  /\ Sound(Written(S))
         /\ Written(S).rc = S.rc /\ Written(S).conns = S.conns /\ Written(S).jobs = S.jobs
         /\ Written(S).driver = S.driver
<1> DEFINE f == {S.rc.socketWorkers[i].cId :
                   i \in {s \in Slot : S.rc.socketWorkers[s].state # "FREE"}}
           T == Written(S)
<1>1. S \in Worlds /\ S.rc \in Memory
  BY DEF Unwritten, Worlds
<1>2. f \subseteq Nat
  BY <1>1 DEF Memory
<1>3. T = [S EXCEPT !.file = f]
  BY DEF Written
<1>4. (\A j : HasSlot(j, S.rc) => j \in f) /\ f \subseteq DOMAIN S.jobs \cup {NoJob}
  BY DEF HasSlot, Unwritten, Named
<1> HIDE DEF f, T
<1>5. /\ T \in Worlds /\ T.conns = S.conns /\ T.rc = S.rc /\ T.driver = S.driver /\ T.jobs = S.jobs
      /\ T.backlog = S.backlog /\ T.file = f
  BY <1>1, <1>2, <1>3 DEF Worlds
<1>6. Known(S.jobs, f, S.rc)
  BY <1>4 DEF Unwritten, Known
<1>7. Sound(T)
  BY <1>5, <1>6 DEF Sound, Unwritten
<1> QED
  BY <1>5, <1>7 DEF T

LEMMA VacatedIs ==
  ASSUME NEW m \in Memory, NEW i \in Slot
  PROVE  /\ Vacated(m, i) \in Memory
         /\ Vacated(m, i).hostadd_reqs = m.hostadd_reqs + 1
         /\ Vacated(m, i).reverseMap = m.reverseMap /\ Vacated(m, i).reading = m.reading
         /\ \A k \in Slot :
              /\ Vacated(m, i).socketWorkers[k].cId = m.socketWorkers[k].cId
              /\ Vacated(m, i).socketWorkers[k].state =
                   IF k = i THEN "SUBMITTED" ELSE m.socketWorkers[k].state
              /\ Vacated(m, i).socketWorkers[k].socket =
                   IF k = i THEN NoFd ELSE m.socketWorkers[k].socket
<1> DEFINE w == [state |-> "SUBMITTED", socket |-> NoFd, cId |-> m.socketWorkers[i].cId]
           sw == [m.socketWorkers EXCEPT ![i] = w]
           h == m.hostadd_reqs + 1
<1>1. m.socketWorkers \in [Slot -> [state : {"FREE", "SUBMITTED", "EXECUTING"},
                                    socket : Fd \cup {NoFd}, cId : Nat]]
  BY DEF Memory
<1>2. sw \in [Slot -> [state : {"FREE", "SUBMITTED", "EXECUTING"},
                     socket : Fd \cup {NoFd}, cId : Nat]]
  BY <1>1
<1>3. \A k \in Slot :
        /\ sw[k].cId = m.socketWorkers[k].cId
        /\ sw[k].state = IF k = i THEN "SUBMITTED" ELSE m.socketWorkers[k].state
        /\ sw[k].socket = IF k = i THEN NoFd ELSE m.socketWorkers[k].socket
  BY <1>1
<1>4. Vacated(m, i) = [m EXCEPT !.socketWorkers = sw, !.hostadd_reqs = h]
  BY DEF Vacated, Memory
<1>5. h \in Int
  BY DEF Memory
<1> HIDE DEF sw, w, h
<1>6. /\ Vacated(m, i) \in Memory /\ Vacated(m, i).socketWorkers = sw
      /\ Vacated(m, i).hostadd_reqs = h
      /\ Vacated(m, i).reverseMap = m.reverseMap /\ Vacated(m, i).reading = m.reading
  BY <1>2, <1>4, <1>5, Zenon DEF Memory
<1> QED
  BY <1>3, <1>6 DEF h

LEMMA OccupiedIs ==
  ASSUME NEW m \in Memory, NEW fd \in Fd, NEW i \in Slot
  PROVE  LET new == Occupied(m, fd, i)
         IN  /\ new \in Memory
             /\ new.hostadd_reqs = m.hostadd_reqs /\ new.reading = m.reading
             /\ \A x \in Fd : new.reverseMap[x] = IF x = fd THEN i ELSE m.reverseMap[x]
             /\ \A k \in Slot :
                  /\ new.socketWorkers[k].cId = m.socketWorkers[k].cId
                  /\ new.socketWorkers[k].state =
                       IF k = i THEN "EXECUTING" ELSE m.socketWorkers[k].state
                  /\ new.socketWorkers[k].socket = IF k = i THEN fd ELSE m.socketWorkers[k].socket
<1> DEFINE w == [state |-> "EXECUTING", socket |-> fd, cId |-> m.socketWorkers[i].cId]
           sw == [m.socketWorkers EXCEPT ![i] = w]
           rm == [m.reverseMap EXCEPT ![fd] = i]
<1>1. m.socketWorkers \in [Slot -> [state : {"FREE", "SUBMITTED", "EXECUTING"},
                                    socket : Fd \cup {NoFd}, cId : Nat]]
  BY DEF Memory
<1>2. sw \in [Slot -> [state : {"FREE", "SUBMITTED", "EXECUTING"},
                     socket : Fd \cup {NoFd}, cId : Nat]]
  BY <1>1
<1>3. \A k \in Slot :
        /\ sw[k].cId = m.socketWorkers[k].cId
        /\ sw[k].state = IF k = i THEN "EXECUTING" ELSE m.socketWorkers[k].state
        /\ sw[k].socket = IF k = i THEN fd ELSE m.socketWorkers[k].socket
  BY <1>1
<1>4. Occupied(m, fd, i) = [m EXCEPT !.socketWorkers = sw, !.reverseMap = rm]
  BY DEF Occupied, Memory
<1>5. rm \in [Fd -> Slot \cup {-1}] /\ \A x \in Fd : rm[x] = IF x = fd THEN i ELSE m.reverseMap[x]
  BY DEF Memory
<1> HIDE DEF sw, w, rm
<1>6. /\ Occupied(m, fd, i) \in Memory /\ Occupied(m, fd, i).socketWorkers = sw
      /\ Occupied(m, fd, i).reverseMap = rm
      /\ Occupied(m, fd, i).hostadd_reqs = m.hostadd_reqs
      /\ Occupied(m, fd, i).reading = m.reading
  BY <1>2, <1>4, <1>5, Zenon DEF Memory
<1> QED
  BY <1>3, <1>5, <1>6

LEMMA KillWorkerKeeps ==
  ASSUME NEW S, Sound(S), NEW i \in Slot
  PROVE  /\ Sound(KillWorker(S, i))
         /\ KillWorker(S, i).rc = Vacated(S.rc, i) /\ KillWorker(S, i).driver = S.driver
         /\ KillWorker(S, i).jobs = S.jobs
         /\ DOMAIN KillWorker(S, i).conns = DOMAIN S.conns \ {S.rc.socketWorkers[i].socket}
<1> DEFINE fd == S.rc.socketWorkers[i].socket
           C == Closed(S, fd)
           m == Vacated(S.rc, i)
           T == [C EXCEPT !.rc = m]
<1>1. /\ Sound(C) /\ C.rc = S.rc /\ C.driver = S.driver /\ C.jobs = S.jobs
      /\ DOMAIN C.conns = DOMAIN S.conns \ {fd}
  BY ClosedKeeps
<1>2. C \in Worlds /\ S.rc \in Memory
  BY <1>1, Zenon DEF Sound, Worlds
<1>3. KillWorker(S, i) = Written(T)
  BY <1>1, <1>2 DEF KillWorker, Worlds
<1>4. /\ m \in Memory /\ m.reverseMap = S.rc.reverseMap
      /\ \A k \in Slot :
           /\ m.socketWorkers[k].cId = S.rc.socketWorkers[k].cId
           /\ m.socketWorkers[k].state = IF k = i THEN "SUBMITTED" ELSE S.rc.socketWorkers[k].state
           /\ m.socketWorkers[k].socket = IF k = i THEN NoFd ELSE S.rc.socketWorkers[k].socket
  BY <1>2, VacatedIs
<1> HIDE DEF C, m
<1>5. /\ T \in Worlds /\ T.conns = C.conns /\ T.rc = m /\ T.driver = C.driver /\ T.jobs = C.jobs
      /\ T.backlog = C.backlog
  BY <1>2, <1>4 DEF Worlds
<1>6. MapsBack(m, C.conns)
  BY <1>1, <1>4 DEF Sound, MapsBack
<1>7. Heard(m, C.conns)
  BY <1>1, <1>4 DEF Sound, Heard
<1>8. (\A j : HasSlot(j, S.rc) => HasSlot(j, m)) /\ (Named(S.jobs, S.rc) => Named(S.jobs, m))
  BY <1>4 DEF HasSlot, Named
<1>9. Unwritten(T)
  BY <1>1, <1>5, <1>6, <1>7, <1>8 DEF Unwritten, Sound, Known
<1> HIDE DEF T
<1> QED
  BY <1>1, <1>3, <1>5, <1>9, WrittenKeeps DEF m

(* What becomes of slot i. *)
MannedSlot(new, m, i, ids, len) ==
  /\ i \in ids => /\ new.socketWorkers[i].state = "SUBMITTED"
                  /\ new.socketWorkers[i].socket = NoFd
                  /\ new.socketWorkers[i].cId = len + Rank(i, ids) + 1
  /\ i \notin ids => new.socketWorkers[i] = m.socketWorkers[i]

LEMMA MannedIs ==
  ASSUME NEW m \in Memory, NEW ids \in SUBSET Slot, NEW len \in Nat
  PROVE  /\ Manned(m, ids, len) \in Memory
         /\ Manned(m, ids, len).hostadd_reqs = m.hostadd_reqs + Cardinality(ids)
         /\ Manned(m, ids, len).reverseMap = m.reverseMap
         /\ Manned(m, ids, len).reading = m.reading
         /\ \A i \in Slot : MannedSlot(Manned(m, ids, len), m, i, ids, len)
<1> DEFINE sw == [i \in Slot |->
              IF i \in ids
              THEN [state |-> "SUBMITTED", socket |-> NoFd, cId |-> len + Rank(i, ids) + 1]
              ELSE m.socketWorkers[i]]
           h == m.hostadd_reqs + Cardinality(ids)
<1>1. m.socketWorkers \in [Slot -> [state : {"FREE", "SUBMITTED", "EXECUTING"},
                                    socket : Fd \cup {NoFd}, cId : Nat]]
  BY DEF Memory
<1>2. \A i \in Slot : len + Rank(i, ids) + 1 \in Nat
  BY RankType
<1>3. sw \in [Slot -> [state : {"FREE", "SUBMITTED", "EXECUTING"},
                     socket : Fd \cup {NoFd}, cId : Nat]]
  BY <1>1, <1>2
<1>4. Manned(m, ids, len) = [m EXCEPT !.hostadd_reqs = h, !.socketWorkers = sw]
  BY DEF Manned, Memory
<1>5. h \in Int
  <2>1. 0 \in Slot
    BY SlotsAreNumbers
  <2> QED
    BY <2>1, RankType DEF Memory
<1>6. \A i \in Slot : sw[i] =
        IF i \in ids THEN [state |-> "SUBMITTED", socket |-> NoFd, cId |-> len + Rank(i, ids) + 1]
        ELSE m.socketWorkers[i]
  OBVIOUS
<1> HIDE DEF sw, h
<1>7. /\ Manned(m, ids, len) \in Memory /\ Manned(m, ids, len).socketWorkers = sw
      /\ Manned(m, ids, len).hostadd_reqs = h
      /\ Manned(m, ids, len).reverseMap = m.reverseMap /\ Manned(m, ids, len).reading = m.reading
  BY <1>3, <1>4, <1>5, Zenon DEF Memory
<1>8. ASSUME NEW i \in Slot PROVE MannedSlot(Manned(m, ids, len), m, i, ids, len)
  <2>1. CASE i \in ids
    <3>1. sw[i] = [state |-> "SUBMITTED", socket |-> NoFd, cId |-> len + Rank(i, ids) + 1]
      BY <1>6, <2>1
    <3> QED
      BY <1>7, <2>1, <3>1 DEF MannedSlot
  <2>2. CASE i \notin ids
    BY <1>6, <1>7, <2>2, Zenon DEF MannedSlot
  <2> QED
    BY <2>1, <2>2
<1> QED
  BY <1>7, <1>8 DEF h

LEMMA SubmittedIsJob ==
  ASSUME NEW s \in Slot
  PROVE  Submitted(s) \in Job /\ Submitted(s).slot = s /\ ~Submitted(s).removed
BY DEF Submitted, Job

LEMMA WithJobsIs ==
  ASSUME NEW js \in Seq(Job), NEW ids \in SUBSET Slot
  PROVE  /\ WithJobs(js, ids) \in Seq(Job)
         /\ DOMAIN js \subseteq DOMAIN WithJobs(js, ids)
         /\ \A j \in DOMAIN js : WithJobs(js, ids)[j] = js[j]
         /\ \A j \in DOMAIN WithJobs(js, ids) \ DOMAIN js :
              \E i \in ids : Len(js) + Rank(i, ids) + 1 = j
         /\ \A i \in ids : Len(js) + Rank(i, ids) + 1 \in DOMAIN WithJobs(js, ids)
<1> DEFINE c == Cardinality(ids)
           N == Len(js) + c
<1>1. c \in Nat /\ Len(js) \in Nat /\ DOMAIN js = 1 .. Len(js)
  BY SlotsAreNumbers, RankType
<1>2. ASSUME NEW j \in 1 .. N, ~(j <= Len(js))
      PROVE  \E i \in ids : Len(js) + Rank(i, ids) + 1 = j
  <2>1. j - Len(js) - 1 \in 0 .. c - 1
    BY <1>1, <1>2
  <2>2. PICK i \in ids : Rank(i, ids) = j - Len(js) - 1
    BY <2>1, RankNumbers
  <2> QED
    BY <2>2, <1>1
<1>3. ASSUME NEW j \in 1 .. N PROVE WithJobs(js, ids)[j] \in Job
  <2>1. CASE j <= Len(js)
    BY <1>1, <2>1 DEF WithJobs
  <2>2. CASE ~(j <= Len(js))
    <3> DEFINE s == CHOOSE i \in ids : Len(js) + Rank(i, ids) + 1 = j
    <3>1. s \in ids
      BY <1>2, <2>2
    <3>2. WithJobs(js, ids)[j] = Submitted(s)
      BY <2>2 DEF WithJobs
    <3> QED
      BY <3>1, <3>2, SubmittedIsJob
  <2> QED
    BY <2>1, <2>2
<1>4. WithJobs(js, ids) \in [1 .. N -> Job]
  BY <1>3 DEF WithJobs
<1>5. N \in Nat
  BY <1>1
<1>6. WithJobs(js, ids) \in Seq(Job) /\ DOMAIN WithJobs(js, ids) = 1 .. N
  BY <1>4, <1>5
<1>7. \A j \in DOMAIN js : WithJobs(js, ids)[j] = js[j]
  BY <1>1 DEF WithJobs
<1>8. ASSUME NEW i \in ids PROVE Len(js) + Rank(i, ids) + 1 \in 1 .. N
  <2>1. Rank(i, ids) \in 0 .. c - 1
    BY RankNumbers, Zenon
  <2> HIDE DEF c
  <2> QED
    BY <1>1, <2>1
<1> QED
  BY <1>1, <1>2, <1>6, <1>7, <1>8

LEMMA DoSpawnKeeps ==
  ASSUME NEW S, Sound(S), NEW n \in Nat
  PROVE  /\ Sound(DoSpawn(S, n))
         /\ DoSpawn(S, n).rc = Manned(S.rc, FirstFree(S.rc, n), Len(S.jobs))
         /\ DoSpawn(S, n).driver = S.driver /\ DoSpawn(S, n).conns = S.conns
<1> DEFINE ids == FirstFree(S.rc, n)
           m == Manned(S.rc, ids, Len(S.jobs))
           js == WithJobs(S.jobs, ids)
           T == [S EXCEPT !.jobs = js, !.rc = m]
<1>1. S \in Worlds /\ S.rc \in Memory /\ S.jobs \in Seq(Job) /\ Len(S.jobs) \in Nat
  BY DEF Sound, Worlds
<1>2. ids \in SUBSET Slot /\ \A i \in ids : S.rc.socketWorkers[i].state = "FREE"
  BY DEF FirstFree
<1>3. DoSpawn(S, n) = Written(T)
  BY DEF DoSpawn
<1>4. /\ m \in Memory /\ m.reverseMap = S.rc.reverseMap
      /\ \A i \in Slot : MannedSlot(m, S.rc, i, ids, Len(S.jobs))
  BY <1>1, <1>2, MannedIs, Zenon
<1>5. /\ js \in Seq(Job) /\ DOMAIN S.jobs \subseteq DOMAIN js
      /\ \A j \in DOMAIN S.jobs : js[j] = S.jobs[j]
      /\ \A j \in DOMAIN js \ DOMAIN S.jobs :
           \E i \in ids : Len(S.jobs) + Rank(i, ids) + 1 = j
      /\ \A i \in ids : Len(S.jobs) + Rank(i, ids) + 1 \in DOMAIN js
  BY <1>1, <1>2, WithJobsIs
<1> HIDE DEF ids, m, js
<1>6. /\ T \in Worlds /\ T.conns = S.conns /\ T.rc = m /\ T.driver = S.driver /\ T.jobs = js
      /\ T.backlog = S.backlog
  BY <1>1, <1>4, <1>5, Zenon DEF Worlds
<1>7. MapsBack(m, S.conns)
  <2>1. DOMAIN S.conns \subseteq Fd
    BY <1>1, ConnTables DEF Worlds
  <2>2. ASSUME NEW fd \in DOMAIN S.conns
        PROVE  m.reverseMap[fd] \in Slot /\ m.socketWorkers[m.reverseMap[fd]].socket = fd
    <3> DEFINE k == S.rc.reverseMap[fd]
    <3>1. k \in Slot /\ S.rc.socketWorkers[k].socket = fd
      BY DEF Sound, MapsBack
    <3>2. fd # NoFd
      BY <2>1, SlotsAreNumbers
    <3>3. k \notin ids
      BY <3>1, <3>2, <1>2 DEF Sound, MapsBack
    <3> QED
      BY <3>1, <3>3, <1>4 DEF MannedSlot
  <2>3. ASSUME NEW i \in Slot, m.socketWorkers[i].state = "FREE"
        PROVE  m.socketWorkers[i].socket = NoFd
    BY <2>3, <1>4 DEF Sound, MapsBack, MannedSlot
  <2> QED
    BY <2>2, <2>3 DEF MapsBack
<1>8. Addressed(S.conns, S.backlog, js)
  BY <1>5 DEF Sound, Addressed, Of
<1>9. Heard(m, S.conns)
  BY <1>4 DEF Sound, Heard
<1>10. ASSUME NEW j \in DOMAIN js PROVE GivenUp(js[j]) \/ HasSlot(j, m)
  <2>1. CASE j \in DOMAIN S.jobs
    <3>1. js[j] = S.jobs[j]
      BY <2>1, <1>5
    <3>2. HasSlot(j, S.rc) => HasSlot(j, m)
      BY <1>2, <1>4 DEF HasSlot, MannedSlot
    <3> QED
      BY <2>1, <3>1, <3>2 DEF Sound, Known
  <2>2. CASE j \notin DOMAIN S.jobs
    <3>1. PICK i \in ids : Len(S.jobs) + Rank(i, ids) + 1 = j
      BY <2>2, <1>5
    <3>2. i \in Slot /\ m.socketWorkers[i].state # "FREE" /\ m.socketWorkers[i].cId = j
      BY <3>1, <1>2, <1>4 DEF MannedSlot
    <3> QED
      BY <3>2 DEF HasSlot
  <2> QED
    BY <2>1, <2>2
<1>11. ASSUME NEW i \in Slot PROVE m.socketWorkers[i].cId \in DOMAIN js \cup {NoJob}
  BY <1>4, <1>5 DEF MannedSlot, Sound, Known, Named
<1>12. Unwritten(T)
  BY <1>6, <1>7, <1>8, <1>9, <1>10, <1>11 DEF Unwritten, Sound, Named
<1> HIDE DEF T
<1> QED
  BY <1>3, <1>6, <1>12, WrittenKeeps DEF ids, m

LEMMA HostaddlogicIs ==
  ASSUME NEW S, Sound(S)
  PROVE  Hostaddlogic(S) = S \/ \E n \in Nat \ {0} : Hostaddlogic(S) = DoSpawn(S, n)
<1> DEFINE missing == target_num_workers - (Len(S.driver.workers) + S.rc.hostadd_reqs)
           n == Min({missing, HOSTINC})
<1>1. Len(S.driver.workers) \in Nat /\ S.rc.hostadd_reqs \in Int
  BY DEF Sound, Worlds, Memory, DriverState
<1>2. missing \in Int /\ HOSTINC \in Nat \ {0}
  BY <1>1, SlotsAreNumbers
<1>3. Hostaddlogic(S) = IF missing <= 0 \/ S.rc.hostadd_reqs > 0 THEN S ELSE DoSpawn(S, n)
  BY DEF Hostaddlogic
<1>4. CASE missing <= 0 \/ S.rc.hostadd_reqs > 0
  BY <1>3, <1>4
<1>5. CASE ~(missing <= 0 \/ S.rc.hostadd_reqs > 0)
  <2>1. n \in Nat \ {0}
    BY <1>2, <1>5, MinOfTwo
  <2> QED
    BY <2>1, <1>3, <1>5, Zenon
<1> QED
  BY <1>4, <1>5

LEMMA HostaddlogicKeeps ==
  ASSUME NEW S, Sound(S)
  PROVE  /\ Sound(Hostaddlogic(S))
         /\ Hostaddlogic(S).driver = S.driver /\ Hostaddlogic(S).conns = S.conns
         /\ Hostaddlogic(S).rc.reading = S.rc.reading
<1>1. CASE Hostaddlogic(S) = S
  BY <1>1
<1>2. ASSUME NEW n \in Nat, Hostaddlogic(S) = DoSpawn(S, n)
      PROVE  /\ Sound(Hostaddlogic(S))
             /\ Hostaddlogic(S).driver = S.driver /\ Hostaddlogic(S).conns = S.conns
             /\ Hostaddlogic(S).rc.reading = S.rc.reading
  <2>1. S.rc \in Memory /\ Len(S.jobs) \in Nat /\ FirstFree(S.rc, n) \in SUBSET Slot
    BY DEF Sound, Worlds, FirstFree
  <2>2. Manned(S.rc, FirstFree(S.rc, n), Len(S.jobs)).reading = S.rc.reading
    BY <2>1, MannedIs, Zenon
  <2> QED
    BY <1>2, <2>2, DoSpawnKeeps
<1> QED
  BY <1>1, <1>2, HostaddlogicIs

LEMMA SendKeeps ==
  ASSUME NEW S, Sound(S), NEW i, NEW what \in Task \cup {KILL_YOURSELF}
  PROVE  /\ Sound(Send(S, i, what))
         /\ Send(S, i, what).rc = S.rc /\ Send(S, i, what).conns = S.conns
         /\ Send(S, i, what).driver = S.driver
<1> DEFINE fd == S.rc.socketWorkers[i].socket
           j == S.conns[fd].job
<1>1. CASE ~(fd \in DOMAIN S.conns /\ S.conns[fd].link = "open")
  BY <1>1, Zenon DEF Send
<1>2. CASE fd \in DOMAIN S.conns /\ S.conns[fd].link = "open"
  <2> DEFINE job == [S.jobs[j] EXCEPT !.mail = Append(@, what)]
             js == [S.jobs EXCEPT ![j] = job]
             T == [S EXCEPT !.jobs = js]
  <2>1. S \in Worlds /\ S.jobs \in Seq(Job)
    BY DEF Sound, Worlds
  <2>2. j \in DOMAIN S.jobs
    BY <1>2 DEF Sound, Addressed, Of
  <2>3. S.jobs[j] \in Job
    BY <2>1, <2>2
  <2>4. /\ job \in Job /\ job.slot = S.jobs[j].slot
        /\ job.removed = S.jobs[j].removed /\ job.orphan = S.jobs[j].orphan
    <3>1. S.jobs[j].mail \in Seq(Task \cup {KILL_YOURSELF})
      BY <2>3, Zenon DEF Job
    <3>2. Append(S.jobs[j].mail, what) \in Seq(Task \cup {KILL_YOURSELF})
      BY <3>1, AppendedTo, Zenon
    <3> HIDE DEF j
    <3> QED
      BY <2>3, <3>2, Zenon DEF Job
  <2>5. Send(S, i, what) = T
    BY <1>2 DEF Send
  <2> HIDE DEF job, j, fd
  <2>6. js \in Seq(Job) /\ DOMAIN js = DOMAIN S.jobs
    BY <2>1, <2>2, <2>4
  <2>7. \A x \in DOMAIN S.jobs :
          js[x].slot = S.jobs[x].slot /\ (GivenUp(S.jobs[x]) => GivenUp(js[x]))
    BY <2>1, <2>2, <2>4 DEF GivenUp
  <2> HIDE DEF js
  <2>8. /\ T \in Worlds /\ T.conns = S.conns /\ T.rc = S.rc /\ T.driver = S.driver /\ T.jobs = js
        /\ T.backlog = S.backlog /\ T.file = S.file
    BY <2>1, <2>6 DEF Worlds
  <2>9. Addressed(S.conns, S.backlog, js) /\ Known(js, S.file, S.rc)
    BY <2>6, <2>7 DEF Sound, Addressed, Of, Known, Named
  <2> QED
    BY <2>5, <2>8, <2>9 DEF Sound
<1> QED
  BY <1>1, <1>2

-----------------------------------------------------------------------------
(* The driver's part. *)

LEMMA TasksAreNumbers == Task \subseteq Nat /\ NoTask \notin Task /\ KILL_YOURSELF \notin Task
BY SocketConstants DEF NoTask, KILL_YOURSELF

(* The elements that remain, and are as many times there. *)
LeavesOf(r, s, k) ==
  /\ \A n \in DOMAIN r : \E l \in DOMAIN s \ {k} : r[n] = s[l]
  /\ \A l \in DOMAIN s \ {k} : \E n \in DOMAIN r : r[n] = s[l]
  /\ \A m, n \in DOMAIN r : m # n =>
       \E l, h \in DOMAIN s \ {k} : l # h /\ r[m] = s[l] /\ r[n] = s[h]

LEMMA RemovedFrom ==
  ASSUME NEW X, NEW s \in Seq(X), NEW k \in DOMAIN s
  PROVE  LeavesOf(RemoveAt(s, k), s, k)
<1> DEFINE r == RemoveAt(s, k)
           up(n) == IF n < k THEN n ELSE n + 1
<1>1. /\ DOMAIN r = 1 .. Len(s) - 1
      /\ \A n \in 1 .. Len(s) - 1 : r[n] = IF n < k THEN s[n] ELSE s[n + 1]
  BY RemovedAt
<1>2. DOMAIN s = 1 .. Len(s) /\ Len(s) \in Nat /\ k \in 1 .. Len(s)
  OBVIOUS
<1> HIDE DEF r
<1>3. ASSUME NEW n \in DOMAIN r PROVE up(n) \in DOMAIN s \ {k} /\ r[n] = s[up(n)]
  BY <1>1, <1>2
<1>4. ASSUME NEW l \in DOMAIN s \ {k} PROVE \E n \in DOMAIN r : r[n] = s[l]
  <2>1. CASE l < k
    BY <2>1, <1>1, <1>2
  <2>2. CASE l > k
    <3>1. l - 1 \in DOMAIN r /\ ~(l - 1 < k) /\ l - 1 + 1 = l
      BY <2>2, <1>1, <1>2
    <3> QED
      BY <3>1, <1>1
  <2> QED
    BY <2>1, <2>2, <1>2
<1>5. ASSUME NEW m \in DOMAIN r, NEW n \in DOMAIN r, m # n
      PROVE  \E l, h \in DOMAIN s \ {k} : l # h /\ r[m] = s[l] /\ r[n] = s[h]
  <2>1. up(m) # up(n)
    BY <1>1, <1>2, <1>5
  <2> QED
    BY <2>1, <1>3
<1>6. \A n \in DOMAIN r : \E l \in DOMAIN s \ {k} : r[n] = s[l]
  BY <1>3
<1> QED
  BY <1>4, <1>5, <1>6 DEF r, LeavesOf

LEMMA LostKeeps ==
  ASSUME NEW d \in DriverState, Kept(d), NEW k \in DOMAIN d.workers
  PROVE  /\ Lost(d, k) \in DriverState /\ Kept(Lost(d, k))
         /\ Lost(d, k).workers = RemoveAt(d.workers, k) /\ Lost(d, k).ustat = d.ustat
<1> DEFINE r == RemoveAt(d.workers, k)
           t == d.workers[k].runningtask
           todo == d.todo \cup ({t} \ {NoTask})
           e == Lost(d, k)
<1>1. d.workers \in Seq(WorkerID) /\ t \in Task \cup {NoTask}
  <2>1. d.workers \in Seq(WorkerID)
    BY DEF DriverState
  <2>2. d.workers[k] \in WorkerID
    BY <2>1
  <2> QED
    BY <2>1, <2>2 DEF WorkerID
<1>2. r \in Seq(WorkerID)
  BY <1>1, RemovedAt
<1>3. /\ \A n \in DOMAIN r : \E l \in DOMAIN d.workers \ {k} : r[n] = d.workers[l]
      /\ \A l \in DOMAIN d.workers \ {k} : \E n \in DOMAIN r : r[n] = d.workers[l]
      /\ \A m, n \in DOMAIN r : m # n =>
           \E l, h \in DOMAIN d.workers \ {k} : l # h /\ r[m] = d.workers[l] /\ r[n] = d.workers[h]
  <2>1. LeavesOf(r, d.workers, k)
    BY <1>1, RemovedFrom
  <2> HIDE DEF r
  <2> QED
    BY <2>1, Zenon DEF LeavesOf
<1>4. todo \subseteq Task
  BY <1>1 DEF DriverState
<1>5. e = [d EXCEPT !.workers = r, !.todo = todo]
  BY DEF Lost, DriverState
<1> HIDE DEF r, todo, e
<1>6. /\ e \in DriverState /\ e.workers = r /\ e.todo = todo /\ e.done = d.done
      /\ e.ustat = d.ustat
  BY <1>2, <1>4, <1>5, Zenon DEF DriverState
<1>7. ASSUME NEW x \in Task
      PROVE  x \in todo \/ x \in d.done \/ \E n \in DOMAIN r : r[n].runningtask = x
  <2>1. CASE x \in d.todo \/ x \in d.done
    BY <2>1 DEF todo
  <2>2. CASE x = t
    BY <2>2, TasksAreNumbers DEF todo
  <2>3. ASSUME NEW l \in DOMAIN d.workers \ {k}, d.workers[l].runningtask = x
        PROVE  \E n \in DOMAIN r : r[n].runningtask = x
    BY <2>3, <1>3
  <2> QED
    BY <2>1, <2>2, <2>3 DEF Kept, IsRunning
<1>8. todo \cap d.done = {}
  BY DEF Kept, todo
<1>9. ASSUME NEW n \in DOMAIN r PROVE r[n].runningtask \notin todo \cup d.done
  <2>1. PICK l \in DOMAIN d.workers \ {k} : r[n] = d.workers[l]
    BY <1>3
  <2>2. d.workers[l].runningtask \notin d.todo \cup d.done
    BY DEF Kept
  <2>3. d.workers[l].runningtask # t \/ t = NoTask
    BY DEF Kept
  <2> QED
    BY <2>1, <2>2, <2>3 DEF todo
<1>10. ASSUME NEW m \in DOMAIN r, NEW n \in DOMAIN r, r[m].runningtask = r[n].runningtask, m # n
       PROVE  r[m].runningtask = NoTask
  BY <1>3, <1>10 DEF Kept
<1>11. Kept(e)
  BY <1>6, <1>7, <1>8, <1>9, <1>10 DEF Kept, IsRunning
<1> QED
  BY <1>6, <1>11 DEF r, e

(* A driver whose list is ws, of the same workers as that of d. *)
SameWorkers(ws, d) ==
  /\ ws \in Seq(WorkerID) /\ DOMAIN ws = DOMAIN d.workers
  /\ \A l \in DOMAIN ws : ws[l].id1 = d.workers[l].id1

LEMMA OneWorkerChanges ==
  ASSUME NEW d \in DriverState, NEW k \in DOMAIN d.workers, NEW w \in WorkerID,
         w.id1 = d.workers[k].id1
  PROVE  /\ SameWorkers([d.workers EXCEPT ![k] = w], d)
         /\ \A l \in DOMAIN d.workers :
              [d.workers EXCEPT ![k] = w][l] = IF l = k THEN w ELSE d.workers[l]
<1>1. d.workers \in Seq(WorkerID)
  BY DEF DriverState
<1> QED
  BY <1>1 DEF SameWorkers

LEMMA AssignedKeeps ==
  ASSUME NEW d \in DriverState, NEW k \in DOMAIN d.workers,
         d.workers[k].runningtask = NoTask, NEW t \in d.todo
  PROVE  /\ Assigned(d, k, t) \in DriverState /\ (Kept(d) => Kept(Assigned(d, k, t)))
         /\ SameWorkers(Assigned(d, k, t).workers, d) /\ Assigned(d, k, t).ustat = d.ustat
<1> DEFINE w == [d.workers[k] EXCEPT !.runningtask = t]
           ws == [d.workers EXCEPT ![k] = w]
           todo == d.todo \ {t}
           e == Assigned(d, k, t)
<1>1. t \in Task /\ t # NoTask
  BY TasksAreNumbers DEF DriverState
<1>2. d.workers[k] \in WorkerID
  BY DEF DriverState
<1>3. w \in WorkerID /\ w.id1 = d.workers[k].id1 /\ w.runningtask = t
  BY <1>1, <1>2 DEF WorkerID
<1>4. e = [d EXCEPT !.workers = ws, !.todo = todo]
  BY DEF Assigned, DriverState
<1> HIDE DEF w, e
<1>5. SameWorkers(ws, d) /\ \A l \in DOMAIN d.workers : ws[l] = IF l = k THEN w ELSE d.workers[l]
  BY <1>3, OneWorkerChanges
<1>6. ws \in Seq(WorkerID) /\ DOMAIN ws = DOMAIN d.workers
  BY <1>5 DEF SameWorkers
<1> HIDE DEF ws
<1>7. todo \subseteq Task
  BY DEF DriverState
<1> HIDE DEF todo
<1>8. /\ e \in DriverState /\ e.workers = ws /\ e.todo = todo /\ e.done = d.done
      /\ e.ustat = d.ustat
  BY <1>4, <1>6, <1>7, Zenon DEF DriverState
<1>9. \A l \in DOMAIN ws : ws[l].runningtask = IF l = k THEN t ELSE d.workers[l].runningtask
  BY <1>3, <1>5, <1>6
<1>10. ASSUME Kept(d) PROVE Kept(e)
  <2>1. ASSUME NEW x \in Task
        PROVE  x \in todo \/ x \in d.done \/ \E l \in DOMAIN ws : ws[l].runningtask = x
    <3>1. CASE x = t
      BY <3>1, <1>6, <1>9
    <3>2. CASE x # t /\ (x \in d.todo \/ x \in d.done)
      BY <3>2 DEF todo
    <3>3. ASSUME NEW l \in DOMAIN d.workers, d.workers[l].runningtask = x
          PROVE  \E h \in DOMAIN ws : ws[h].runningtask = x
      BY <3>3, <1>1, <1>6, <1>9, TasksAreNumbers
    <3> QED
      BY <3>1, <3>2, <3>3, <1>10 DEF Kept, IsRunning
  <2>2. todo \cap d.done = {} /\ t \notin todo \cup d.done
    BY <1>10 DEF Kept, todo
  <2>3. ASSUME NEW l \in DOMAIN ws PROVE ws[l].runningtask \notin todo \cup d.done
    BY <1>6, <1>9, <2>2, <1>10 DEF Kept, todo
  <2>4. ASSUME NEW l \in DOMAIN ws, NEW h \in DOMAIN ws,
               ws[l].runningtask = ws[h].runningtask, l # h
         PROVE  ws[l].runningtask = NoTask
    BY <1>6, <1>9, <2>4, <1>10 DEF Kept
  <2> QED
    BY <1>8, <2>1, <2>2, <2>3, <2>4, <1>10 DEF Kept, IsRunning
<1> QED
  BY <1>5, <1>8, <1>10 DEF e

LEMMA FinishedKeeps ==
  ASSUME NEW d \in DriverState, Kept(d), NEW k \in DOMAIN d.workers,
         NEW t \in Task, d.workers[k].runningtask = t
  PROVE  /\ Finished(d, k, t) \in DriverState /\ Kept(Finished(d, k, t))
         /\ SameWorkers(Finished(d, k, t).workers, d) /\ Finished(d, k, t).ustat = d.ustat
<1> DEFINE w == [d.workers[k] EXCEPT !.runningtask = NoTask]
           ws == [d.workers EXCEPT ![k] = w]
           done == d.done \cup {t}
           e == Finished(d, k, t)
<1>2. d.workers[k] \in WorkerID
  BY DEF DriverState
<1>3. w \in WorkerID /\ w.id1 = d.workers[k].id1 /\ w.runningtask = NoTask
  BY <1>2 DEF WorkerID
<1>4. e = [d EXCEPT !.workers = ws, !.done = done]
  BY DEF Finished, DriverState
<1> HIDE DEF w, e
<1>5. SameWorkers(ws, d) /\ \A l \in DOMAIN d.workers : ws[l] = IF l = k THEN w ELSE d.workers[l]
  BY <1>3, OneWorkerChanges
<1>6. ws \in Seq(WorkerID) /\ DOMAIN ws = DOMAIN d.workers
  BY <1>5 DEF SameWorkers
<1> HIDE DEF ws
<1>7. done \subseteq Task
  BY DEF DriverState
<1> HIDE DEF done
<1>8. /\ e \in DriverState /\ e.workers = ws /\ e.todo = d.todo /\ e.done = done
      /\ e.ustat = d.ustat
  BY <1>4, <1>6, <1>7, Zenon DEF DriverState
<1>9. \A l \in DOMAIN ws : ws[l].runningtask = IF l = k THEN NoTask ELSE d.workers[l].runningtask
  BY <1>3, <1>5, <1>6
<1>10. ASSUME NEW x \in Task
       PROVE  x \in d.todo \/ x \in done \/ \E l \in DOMAIN ws : ws[l].runningtask = x
  <2>1. CASE x = t \/ x \in d.todo \/ x \in d.done
    BY <2>1 DEF done
  <2>2. ASSUME NEW l \in DOMAIN d.workers, d.workers[l].runningtask = x, x # t
        PROVE  \E h \in DOMAIN ws : ws[h].runningtask = x
    BY <2>2, <1>6, <1>9
  <2> QED
    BY <2>1, <2>2 DEF Kept, IsRunning
<1>11. d.todo \cap done = {}
  BY DEF Kept, done
<1>12. ASSUME NEW l \in DOMAIN ws PROVE ws[l].runningtask \notin d.todo \cup done
  <2>1. NoTask \notin d.todo /\ NoTask \notin done
    BY <1>7, TasksAreNumbers, Zenon DEF DriverState
  <2>2. ASSUME l # k PROVE ws[l].runningtask \notin d.todo \cup d.done /\ ws[l].runningtask # t
    BY <2>2, <1>6, <1>9, TasksAreNumbers DEF Kept
  <2> QED
    BY <2>1, <2>2, <1>9 DEF done
<1>13. ASSUME NEW l \in DOMAIN ws, NEW h \in DOMAIN ws,
               ws[l].runningtask = ws[h].runningtask, l # h
       PROVE  ws[l].runningtask = NoTask
  BY <1>6, <1>9, <1>13 DEF Kept
<1>14. Kept(e)
  BY <1>8, <1>10, <1>11, <1>12, <1>13 DEF Kept, IsRunning
<1> QED
  BY <1>5, <1>8, <1>14 DEF e

LEMMA InitializedKeeps ==
  ASSUME NEW d \in DriverState, Kept(d), NEW k \in DOMAIN d.workers
  PROVE  LET e == [d EXCEPT !.workers[k].init = TRUE]
         IN  e \in DriverState /\ Kept(e) /\ SameWorkers(e.workers, d) /\ e.ustat = d.ustat
<1> DEFINE w == [d.workers[k] EXCEPT !.init = TRUE]
           ws == [d.workers EXCEPT ![k] = w]
           e == [d EXCEPT !.workers = ws]
<1>2. d.workers[k] \in WorkerID
  BY DEF DriverState
<1>3. w \in WorkerID /\ w.id1 = d.workers[k].id1 /\ w.runningtask = d.workers[k].runningtask
  BY <1>2, Zenon DEF WorkerID
<1>4. e = [d EXCEPT !.workers[k].init = TRUE]
  OBVIOUS
<1> HIDE DEF w
<1>5. SameWorkers(ws, d) /\ \A l \in DOMAIN d.workers : ws[l] = IF l = k THEN w ELSE d.workers[l]
  BY <1>3, OneWorkerChanges
<1>6. ws \in Seq(WorkerID) /\ DOMAIN ws = DOMAIN d.workers
  BY <1>5 DEF SameWorkers
<1> HIDE DEF ws
<1>8. /\ e \in DriverState /\ e.workers = ws /\ e.todo = d.todo /\ e.done = d.done
      /\ e.ustat = d.ustat
  BY <1>6 DEF DriverState
<1>9. \A l \in DOMAIN ws : ws[l].runningtask = d.workers[l].runningtask
  BY <1>3, <1>5, <1>6
<1> HIDE DEF e
<1>10. Kept(e)
  BY <1>6, <1>8, <1>9 DEF Kept, IsRunning
<1> QED
  BY <1>4, <1>5, <1>8, <1>10, Zenon

LEMMA AddedKeeps ==
  ASSUME NEW d \in DriverState, Kept(d), NEW w \in WorkerID, w.runningtask = NoTask
  PROVE  LET e == [d EXCEPT !.workers = Append(d.workers, w)]
         IN  e \in DriverState /\ Kept(e) /\ e.workers = Append(d.workers, w) /\ e.ustat = d.ustat
<1> DEFINE ws == Append(d.workers, w)
           e == [d EXCEPT !.workers = ws]
           n == Len(d.workers) + 1
<1>1. d.workers \in Seq(WorkerID)
  BY DEF DriverState
<1>2. /\ ws \in Seq(WorkerID) /\ DOMAIN ws = DOMAIN d.workers \cup {n} /\ ws[n] = w
      /\ \A l \in DOMAIN d.workers : l # n /\ ws[l] = d.workers[l]
  BY <1>1, AppendedTo
<1> HIDE DEF ws, n
<1>3. /\ e \in DriverState /\ e.workers = ws /\ e.todo = d.todo /\ e.done = d.done
      /\ e.ustat = d.ustat
  BY <1>2 DEF DriverState
<1>4. NoTask \notin d.todo \cup d.done
  BY TasksAreNumbers DEF DriverState
<1> HIDE DEF e
<1>5. \A x \in Task : x \in d.todo \/ x \in d.done \/ \E l \in DOMAIN ws : ws[l].runningtask = x
  BY <1>2 DEF Kept, IsRunning
<1>6. \A l \in DOMAIN ws : ws[l].runningtask \notin d.todo \cup d.done
  BY <1>2, <1>4 DEF Kept
<1>7. \A l, h \in DOMAIN ws : ws[l].runningtask = ws[h].runningtask =>
        l = h \/ ws[l].runningtask = NoTask
  BY <1>2 DEF Kept
<1>8. Kept(e)
  BY <1>3, <1>5, <1>6, <1>7 DEF Kept, IsRunning
<1> QED
  BY <1>3, <1>8 DEF e, ws

-----------------------------------------------------------------------------
(* The list, the slots and the account. *)

Awaited(m) == {i \in Slot : m.socketWorkers[i].state = "SUBMITTED"}

(* Every slot has a job; it has a socket just when the driver lists its worker, *)
(* once; the others are awaited, and that many requests are outstanding.        *)
Agree(m, ws) ==
  /\ \A i \in Slot : /\ m.socketWorkers[i].state # "FREE"
                     /\ m.socketWorkers[i].state = "SUBMITTED" <=> m.socketWorkers[i].socket = NoFd
                     /\ m.socketWorkers[i].socket # NoFd <=> \E k \in DOMAIN ws : ws[k].id1 = i
  /\ \A k, l \in DOMAIN ws : ws[k].id1 = ws[l].id1 => k = l
  /\ m.hostadd_reqs = Cardinality(Awaited(m))

LEMMA AgreeStill ==
  ASSUME NEW m, NEW n, NEW ws, NEW us, Agree(m, ws), n.hostadd_reqs = m.hostadd_reqs,
         \A i \in Slot : /\ n.socketWorkers[i].state = m.socketWorkers[i].state
                         /\ n.socketWorkers[i].socket = m.socketWorkers[i].socket,
         DOMAIN us = DOMAIN ws, \A k \in DOMAIN ws : us[k].id1 = ws[k].id1
  PROVE  Agree(n, us)
<1>1. Awaited(n) = Awaited(m)
  BY DEF Awaited
<1> QED
  BY <1>1 DEF Agree

(* There is no slot to ask a worker for. *)
LEMMA NothingSpawned ==
  ASSUME NEW S, Sound(S), Agree(S.rc, S.driver.workers)
  PROVE  Agree(Hostaddlogic(S).rc, S.driver.workers)
<1>1. S.rc \in Memory /\ Len(S.jobs) \in Nat /\ S.driver \in DriverState
  BY DEF Sound, Worlds
<1>2. ASSUME NEW n \in Nat, Hostaddlogic(S) = DoSpawn(S, n)
      PROVE  Agree(Hostaddlogic(S).rc, S.driver.workers)
  <2> DEFINE m == Manned(S.rc, {}, Len(S.jobs))
  <2>1. FirstFree(S.rc, n) = {}
    BY DEF Agree, FirstFree
  <2>2. DoSpawn(S, n).rc = m
    BY <2>1, DoSpawnKeeps, Zenon
  <2>3. /\ m.hostadd_reqs = S.rc.hostadd_reqs + Cardinality({})
        /\ \A i \in Slot : MannedSlot(m, S.rc, i, {}, Len(S.jobs))
    BY <1>1, MannedIs
  <2>4. m.hostadd_reqs = S.rc.hostadd_reqs
    BY <1>1, <2>3, FS_EmptySet DEF Memory
  <2>5. \A i \in Slot : m.socketWorkers[i] = S.rc.socketWorkers[i]
    BY <2>3 DEF MannedSlot
  <2> HIDE DEF m
  <2>6. Agree(m, S.driver.workers)
    BY <2>4, <2>5, AgreeStill
  <2> QED
    BY <1>2, <2>2, <2>6
<1> QED
  BY <1>2, HostaddlogicIs

(* The worker of slot i is given up. *)
LEMMA LostAgrees ==
  ASSUME NEW m \in Memory, NEW ws \in Seq(WorkerID), Agree(m, ws), NEW i \in Slot,
         NEW k \in DOMAIN ws, ws[k].id1 = i
  PROVE  Agree(Vacated(m, i), RemoveAt(ws, k))
<1> DEFINE n == Vacated(m, i)
           us == RemoveAt(ws, k)
<1>1. /\ n.hostadd_reqs = m.hostadd_reqs + 1
      /\ \A s \in Slot :
           /\ n.socketWorkers[s].state = IF s = i THEN "SUBMITTED" ELSE m.socketWorkers[s].state
           /\ n.socketWorkers[s].socket = IF s = i THEN NoFd ELSE m.socketWorkers[s].socket
  BY VacatedIs
<1>2. /\ \A h \in DOMAIN us : \E l \in DOMAIN ws \ {k} : us[h] = ws[l]
      /\ \A l \in DOMAIN ws \ {k} : \E h \in DOMAIN us : us[h] = ws[l]
      /\ \A g, h \in DOMAIN us : g # h =>
           \E l, o \in DOMAIN ws \ {k} : l # o /\ us[g] = ws[l] /\ us[h] = ws[o]
  <2>1. LeavesOf(us, ws, k)
    BY RemovedFrom
  <2> HIDE DEF us
  <2> QED
    BY <2>1, Zenon DEF LeavesOf
<1> HIDE DEF n, us
<1>3. i \notin Awaited(m) /\ IsFiniteSet(Awaited(m)) /\ Awaited(n) = Awaited(m) \cup {i}
  <2>1. Awaited(n) = Awaited(m) \cup {i}
    BY <1>1 DEF Awaited
  <2>2. m.socketWorkers[i].state # "SUBMITTED"
    BY DEF Agree
  <2> QED
    BY <2>1, <2>2, SlotsAreNumbers, FS_Subset DEF Awaited
<1>4. n.hostadd_reqs = Cardinality(Awaited(n))
  <2>1. Cardinality(Awaited(m) \cup {i}) = Cardinality(Awaited(m)) + 1
    BY <1>3, FS_AddElement, Zenon
  <2>2. m.hostadd_reqs = Cardinality(Awaited(m))
    BY DEF Agree
  <2> QED
    BY <1>1, <1>3, <2>1, <2>2
<1>5. ASSUME NEW s \in Slot
      PROVE  n.socketWorkers[s].socket # NoFd <=> \E h \in DOMAIN us : us[h].id1 = s
  <2>1. CASE s = i
    <3>1. \A l \in DOMAIN ws \ {k} : ws[l].id1 # i
      BY DEF Agree
    <3> QED
      BY <2>1, <3>1, <1>1, <1>2
  <2>2. CASE s # i
    <3>1. m.socketWorkers[s].socket # NoFd <=> \E l \in DOMAIN ws : ws[l].id1 = s
      BY DEF Agree
    <3>2. (\E l \in DOMAIN ws : ws[l].id1 = s) <=> \E l \in DOMAIN ws \ {k} : ws[l].id1 = s
      BY <2>2
    <3>3. (\E l \in DOMAIN ws \ {k} : ws[l].id1 = s) <=> \E h \in DOMAIN us : us[h].id1 = s
      BY <1>2
    <3> QED
      BY <2>2, <3>1, <3>2, <3>3, <1>1
  <2> QED
    BY <2>1, <2>2
<1>6. ASSUME NEW g \in DOMAIN us, NEW h \in DOMAIN us, g # h PROVE us[g].id1 # us[h].id1
  <2>1. PICK l, o \in DOMAIN ws \ {k} : l # o /\ us[g] = ws[l] /\ us[h] = ws[o]
    BY <1>2, <1>6
  <2>2. ws[l].id1 # ws[o].id1
    BY <2>1 DEF Agree
  <2> QED
    BY <2>1, <2>2
<1>7. \A s \in Slot : /\ n.socketWorkers[s].state # "FREE"
                      /\ n.socketWorkers[s].state = "SUBMITTED" <=> n.socketWorkers[s].socket = NoFd
  BY <1>1 DEF Agree
<1>8. Agree(n, us)
  BY <1>4, <1>5, <1>6, <1>7 DEF Agree
<1> QED
  BY <1>8 DEF n, us

(* The worker of slot i has come. *)
LEMMA AddedAgrees ==
  ASSUME NEW m \in Memory, NEW ws \in Seq(WorkerID), Agree(m, ws), NEW i \in Slot,
         m.socketWorkers[i].socket = NoFd, NEW w \in WorkerID, w.id1 = i, NEW fd \in Fd,
         NEW n, n.hostadd_reqs = m.hostadd_reqs - 1,
         n.socketWorkers = Occupied(m, fd, i).socketWorkers
  PROVE  Agree(n, Append(ws, w))
<1> DEFINE us == Append(ws, w)
           k == Len(ws) + 1
<1>1. \A s \in Slot :
        /\ n.socketWorkers[s].state = IF s = i THEN "EXECUTING" ELSE m.socketWorkers[s].state
        /\ n.socketWorkers[s].socket = IF s = i THEN fd ELSE m.socketWorkers[s].socket
  BY OccupiedIs
<1>2. /\ DOMAIN us = DOMAIN ws \cup {k} /\ us[k] = w
      /\ \A l \in DOMAIN ws : l # k /\ us[l] = ws[l]
  BY AppendedTo
<1> HIDE DEF us, k
<1>3. i \in Awaited(m) /\ IsFiniteSet(Awaited(m)) /\ Awaited(n) = Awaited(m) \ {i}
  <2>1. Awaited(n) = Awaited(m) \ {i}
    BY <1>1 DEF Awaited
  <2>2. m.socketWorkers[i].state = "SUBMITTED"
    BY DEF Agree
  <2> QED
    BY <2>1, <2>2, SlotsAreNumbers, FS_Subset DEF Awaited
<1>4. n.hostadd_reqs = Cardinality(Awaited(n))
  BY <1>3, FS_RemoveElement, Zenon DEF Agree
<1>5. \A l \in DOMAIN ws : ws[l].id1 # i
  BY DEF Agree
<1>6. fd # NoFd
  BY SlotsAreNumbers
<1>7. ASSUME NEW s \in Slot
      PROVE  n.socketWorkers[s].socket # NoFd <=> \E h \in DOMAIN us : us[h].id1 = s
  <2>1. CASE s = i
    BY <2>1, <1>1, <1>2, <1>6
  <2>2. CASE s # i
    <3>1. m.socketWorkers[s].socket # NoFd <=> \E l \in DOMAIN ws : ws[l].id1 = s
      BY DEF Agree
    <3>2. (\E l \in DOMAIN ws : ws[l].id1 = s) <=> \E h \in DOMAIN us : us[h].id1 = s
      BY <2>2, <1>2
    <3> QED
      BY <2>2, <3>1, <3>2, <1>1
  <2> QED
    BY <2>1, <2>2
<1>8. \A g, h \in DOMAIN us : us[g].id1 = us[h].id1 => g = h
  BY <1>2, <1>5 DEF Agree
<1>9. \A s \in Slot : /\ n.socketWorkers[s].state # "FREE"
                      /\ n.socketWorkers[s].state = "SUBMITTED" <=> n.socketWorkers[s].socket = NoFd
  BY <1>1, <1>6 DEF Agree
<1>10. Agree(n, us)
  BY <1>4, <1>7, <1>8, <1>9 DEF Agree
<1> QED
  BY <1>10 DEF us

(* They agree when all the workers are asked for at once. *)
Accounts(S) == target_num_workers <= HOSTINC => Agree(S.rc, S.driver.workers)

LEMMA AccountsStill ==
  ASSUME NEW S, NEW T, Accounts(S), T.rc.hostadd_reqs = S.rc.hostadd_reqs,
         T.rc.socketWorkers = S.rc.socketWorkers, SameWorkers(T.driver.workers, S.driver)
  PROVE  Accounts(T)
BY AgreeStill DEF Accounts, SameWorkers

(* All slots are asked for at once. *)
LEMMA AllAreSpawned ==
  ASSUME target_num_workers <= HOSTINC, NEW S, Sound(S), S.driver.workers = <<>>,
         S.rc.hostadd_reqs = 0,
         \A i \in Slot : S.rc.socketWorkers[i].state = "FREE"
  PROVE  Agree(Hostaddlogic(S).rc, S.driver.workers)
<1> DEFINE m == Manned(S.rc, Slot, Len(S.jobs))
<1>1. S.rc \in Memory /\ Len(S.jobs) \in Nat
  BY DEF Sound, Worlds
<1>2. Len(S.driver.workers) = 0 /\ DOMAIN S.driver.workers = {}
  OBVIOUS
<1>3. Min({target_num_workers, HOSTINC}) = target_num_workers
  BY SlotsAreNumbers, MinOfTwo
<1>4. target_num_workers - (0 + 0) = target_num_workers /\ ~(target_num_workers <= 0) /\ ~(0 > 0)
  BY SlotsAreNumbers
<1>5. Hostaddlogic(S) = DoSpawn(S, target_num_workers)
  BY <1>2, <1>3, <1>4 DEF Hostaddlogic
<1>6. FirstFree(S.rc, target_num_workers) = Slot
  <2>1. {i \in Slot : S.rc.socketWorkers[i].state = "FREE"} = Slot
    OBVIOUS
  <2>2. ASSUME NEW i \in Slot PROVE Rank(i, Slot) < target_num_workers
    <3>1. Rank(i, Slot) \in 0 .. target_num_workers - 1
      BY RankNumbers, SlotsAreNumbers
    <3> QED
      BY <3>1, SlotsAreNumbers
  <2> QED
    BY <2>1, <2>2, Zenon DEF FirstFree
<1>7. Hostaddlogic(S).rc = m
  BY <1>5, <1>6, SlotsAreNumbers, DoSpawnKeeps, Zenon
<1>8. /\ m.hostadd_reqs = S.rc.hostadd_reqs + Cardinality(Slot)
      /\ \A i \in Slot : MannedSlot(m, S.rc, i, Slot, Len(S.jobs))
  BY <1>1, MannedIs
<1> HIDE DEF m
<1>9. \A i \in Slot : m.socketWorkers[i].state = "SUBMITTED" /\ m.socketWorkers[i].socket = NoFd
  BY <1>8 DEF MannedSlot
<1>10. Awaited(m) = Slot
  BY <1>9 DEF Awaited
<1>11. m.hostadd_reqs = Cardinality(Awaited(m))
  BY <1>8, <1>10, SlotsAreNumbers
<1> QED
  BY <1>2, <1>7, <1>9, <1>11 DEF Agree

-----------------------------------------------------------------------------
(* The master's calls, composed. *)

(* The driver is another: nothing else is. *)
LEMMA DriverKeeps ==
  ASSUME NEW S, Sound(S), NEW d \in DriverState
  PROVE  LET T == [S EXCEPT !.driver = d]
         IN  /\ Sound(T) /\ T.driver = d /\ T.rc = S.rc /\ T.conns = S.conns
             /\ T.jobs = S.jobs /\ T.backlog = S.backlog
<1> DEFINE T == [S EXCEPT !.driver = d]
<1>1. /\ T \in Worlds /\ T.driver = d /\ T.rc = S.rc /\ T.conns = S.conns
      /\ T.jobs = S.jobs /\ T.backlog = S.backlog /\ T.file = S.file
  BY DEF Sound, Worlds
<1> HIDE DEF T
<1>2. Sound(T)
  BY <1>1 DEF Sound
<1> QED
  BY <1>1, <1>2 DEF T

(* Some tasks have been given out. *)
Rematched(S, T) ==
  /\ Sound(T) /\ T.rc = S.rc /\ T.conns = S.conns
  /\ T.driver.ustat = S.driver.ustat /\ SameWorkers(T.driver.workers, S.driver)
  /\ Kept(S.driver) => Kept(T.driver)

LEMMA RematchedSelf ==
  ASSUME NEW S, Sound(S)
  PROVE  Rematched(S, S)
<1>1. S.driver.workers \in Seq(WorkerID)
  BY DEF Sound, Worlds, DriverState
<1> QED
  BY <1>1 DEF Rematched, SameWorkers

LEMMA SendTaskKeeps ==
  ASSUME NEW S, Sound(S), NEW k \in DOMAIN S.driver.workers
  PROVE  Rematched(S, SendTask(S, k))
<1> DEFINE w == S.driver.workers[k]
           t == Min(S.driver.todo)
           d == Assigned(S.driver, k, t)
           C == [S EXCEPT !.driver = d]
           T == Send(C, w.id1, t)
<1>1. SendTask(S, k) = IF ~w.init \/ w.runningtask # NoTask \/ S.driver.todo = {} THEN S ELSE T
  BY DEF SendTask
<1>2. CASE ~w.init \/ w.runningtask # NoTask \/ S.driver.todo = {}
  BY <1>1, <1>2, RematchedSelf
<1>3. CASE ~(~w.init \/ w.runningtask # NoTask \/ S.driver.todo = {})
  <2>1. S.driver \in DriverState /\ S.driver.todo \subseteq Task
    BY DEF Sound, Worlds, DriverState
  <2>2. t \in S.driver.todo
    BY <2>1, <1>3, MinIsLeast, TasksAreNumbers
  <2>3. w.runningtask = NoTask
    BY <1>3
  <2>4. /\ d \in DriverState /\ (Kept(S.driver) => Kept(d))
        /\ SameWorkers(d.workers, S.driver) /\ d.ustat = S.driver.ustat
    BY <2>1, <2>2, <2>3, AssignedKeeps
  <2> HIDE DEF d, t
  <2>5. Sound(C) /\ C.driver = d /\ C.rc = S.rc /\ C.conns = S.conns
    BY <2>4, DriverKeeps
  <2> HIDE DEF C
  <2>6. t \in Task \cup {KILL_YOURSELF}
    BY <2>1, <2>2
  <2>7. Sound(T) /\ T.rc = S.rc /\ T.conns = S.conns /\ T.driver = d
    BY <2>5, <2>6, SendKeeps
  <2>8. Rematched(S, T)
    BY <2>4, <2>7 DEF Rematched
  <2> QED
    BY <1>1, <1>3, <2>8 DEF C, d, t
<1> QED
  BY <1>2, <1>3

LEMMA RematchedThen ==
  ASSUME NEW S, NEW T, NEW R, Rematched(S, T), Rematched(T, R)
  PROVE  Rematched(S, R)
BY DEF Rematched, SameWorkers

(* f holds the worlds after the first workers have been looked at. *)
IsSent(f, n, S) == f = [k \in 0 .. n |-> IF k = 0 THEN S ELSE SendTask(f[k - 1], k)]

LEMMA SentExists ==
  ASSUME NEW S, NEW n \in Nat
  PROVE  \E f : IsSent(f, n, S)
<1> DEFINE B == {x \in Nat : ~ \E f : IsSent(f, x, S)}
<1>1. ASSUME NEW x \in B, \A y \in B : x =< y PROVE FALSE
  <2>1. CASE x = 0
    <3> DEFINE f == [k \in 0 .. x |-> S]
    <3>1. f = [k \in 0 .. x |-> IF k = 0 THEN S ELSE SendTask(f[k - 1], k)]
      BY <2>1
    <3>2. IsSent(f, x, S)
      BY <3>1 DEF IsSent
    <3> QED
      BY <3>2
  <2>2. CASE x # 0
    <3>1. x - 1 \in Nat /\ ~(x <= x - 1) /\ x \in Nat
      BY <2>2
    <3>2. x - 1 \notin B
      BY <3>1, <1>1
    <3>3. PICK f : IsSent(f, x - 1, S)
      BY <3>1, <3>2
    <3>4. f = [k \in 0 .. x - 1 |-> IF k = 0 THEN S ELSE SendTask(f[k - 1], k)]
      BY <3>3 DEF IsSent
    <3>5. \A k \in 0 .. x - 1 : f[k] = IF k = 0 THEN S ELSE SendTask(f[k - 1], k)
      BY <3>4
    <3> DEFINE g == [k \in 0 .. x |-> IF k = x THEN SendTask(f[x - 1], x) ELSE f[k]]
    <3>6. /\ g = [k \in 0 .. x |-> g[k]]
          /\ \A k \in 0 .. x : g[k] = IF k = x THEN SendTask(f[x - 1], x) ELSE f[k]
      OBVIOUS
    <3> HIDE DEF g
    <3>7. ASSUME NEW k \in 0 .. x PROVE g[k] = IF k = 0 THEN S ELSE SendTask(g[k - 1], k)
      <4>1. CASE k = 0
        <5>1. k # x /\ k \in 0 .. x - 1
          BY <4>1, <3>1, <2>2
        <5> QED
          BY <4>1, <5>1, <3>5, <3>6
      <4>2. CASE k # 0 /\ k # x
        <5>1. k \in 0 .. x - 1 /\ k - 1 \in 0 .. x /\ k - 1 # x
          BY <4>2, <3>1
        <5> QED
          BY <4>2, <5>1, <3>5, <3>6
      <4>3. CASE k # 0 /\ k = x
        <5>1. x - 1 \in 0 .. x /\ x - 1 # x
          BY <3>1
        <5>2. g[x - 1] = f[x - 1]
          BY <5>1, <3>6
        <5> QED
          BY <4>3, <5>2, <3>6
      <4> QED
        BY <4>1, <4>2, <4>3
    <3>8. [k \in 0 .. x |-> g[k]] = [k \in 0 .. x |-> IF k = 0 THEN S ELSE SendTask(g[k - 1], k)]
      BY <3>7
    <3>9. IsSent(g, x, S)
      BY <3>6, <3>8, Zenon DEF IsSent
    <3> QED
      BY <3>9
  <2> QED
    BY <2>1, <2>2
<1> QED
  <2>1. B \in SUBSET Nat
    OBVIOUS
  <2>2. B = {}
    BY <1>1, <2>1, LeastNat, Zenon
  <2> QED
    BY <2>2

LEMMA RematchKeeps ==
  ASSUME NEW S, Sound(S)
  PROVE  Rematched(S, RematchTasksToWorkers(S))
<1> DEFINE n == Len(S.driver.workers)
           f == CHOOSE g : IsSent(g, n, S)
<1>1. n \in Nat /\ DOMAIN S.driver.workers = 1 .. n
  BY DEF Sound, Worlds, DriverState
<1>2. RematchTasksToWorkers(S) = f[n]
  BY DEF RematchTasksToWorkers, IsSent
<1>3. IsSent(f, n, S)
  BY <1>1, SentExists, Zenon
<1> HIDE DEF f, n
<1>4. \A k \in 0 .. n : f[k] = IF k = 0 THEN S ELSE SendTask(f[k - 1], k)
  <2>1. f = [k \in 0 .. n |-> IF k = 0 THEN S ELSE SendTask(f[k - 1], k)]
    BY <1>3, Zenon DEF IsSent
  <2> QED
    BY <2>1, Zenon
<1> DEFINE B == {k \in 0 .. n : ~Rematched(S, f[k])}
<1>5. ASSUME NEW x \in B, \A y \in B : x =< y PROVE FALSE
  <2>1. CASE x = 0
    BY <2>1, <1>1, <1>4, RematchedSelf
  <2>2. CASE x # 0
    <3>1. x - 1 \in 0 .. n /\ ~(x <= x - 1) /\ x \in 1 .. n
      BY <2>2, <1>1
    <3>2. Rematched(S, f[x - 1])
      BY <3>1, <1>5
    <3>3. Sound(f[x - 1]) /\ x \in DOMAIN f[x - 1].driver.workers
      BY <3>1, <3>2, <1>1 DEF Rematched, SameWorkers
    <3>4. Rematched(f[x - 1], SendTask(f[x - 1], x))
      BY <3>3, SendTaskKeeps
    <3>5. f[x] = SendTask(f[x - 1], x)
      BY <2>2, <1>4
    <3> QED
      BY <3>2, <3>4, <3>5, RematchedThen
  <2> QED
    BY <2>1, <2>2
<1>6. B = {}
  <2>1. B \in SUBSET Nat
    BY <1>1
  <2> QED
    BY <1>5, <2>1, LeastNat, Zenon
<1> QED
  BY <1>1, <1>2, <1>6

LEMMA HostDelKeeps ==
  ASSUME NEW S, Sound(S), Kept(S.driver), NEW i
  PROVE  LET T == HandleHostDel(S, i)
         IN  /\ Sound(T) /\ Kept(T.driver) /\ T.driver.ustat = S.driver.ustat
             /\ T.rc.reading = S.rc.reading
<1>1. CASE Listed(S, i) = {}
  BY <1>1 DEF HandleHostDel
<1>2. CASE Listed(S, i) # {}
  <2> DEFINE k == Min(Listed(S, i))
             d == Lost(S.driver, k)
             C == [S EXCEPT !.driver = d]
  <2>1. S.driver \in DriverState
    BY DEF Sound, Worlds
  <2>2. Listed(S, i) \in SUBSET Nat /\ Listed(S, i) \subseteq DOMAIN S.driver.workers
    BY <2>1 DEF Listed, DriverState
  <2>3. k \in DOMAIN S.driver.workers
    BY <2>2, <1>2, MinIsLeast
  <2>4. d \in DriverState /\ Kept(d) /\ d.ustat = S.driver.ustat
    BY <2>1, <2>3, LostKeeps
  <2>5. HandleHostDel(S, i) = Hostaddlogic(C)
    BY <1>2 DEF HandleHostDel
  <2> HIDE DEF d, k
  <2>6. Sound(C) /\ C.driver = d /\ C.rc = S.rc
    BY <2>4, DriverKeeps
  <2> HIDE DEF C
  <2> QED
    BY <2>4, <2>5, <2>6, HostaddlogicKeeps
<1> QED
  BY <1>1, <1>2

(* The memory, but for the account and what is waited for, is the same. *)
LEMMA AccountKeeps ==
  ASSUME NEW S, Sound(S), NEW m \in Memory,
         m.socketWorkers = S.rc.socketWorkers, m.reverseMap = S.rc.reverseMap
  PROVE  LET T == [S EXCEPT !.rc = m]
         IN  Sound(T) /\ T.rc = m /\ T.driver = S.driver /\ T.conns = S.conns
<1> DEFINE T == [S EXCEPT !.rc = m]
<1>1. /\ T \in Worlds /\ T.driver = S.driver /\ T.rc = m /\ T.conns = S.conns
      /\ T.jobs = S.jobs /\ T.backlog = S.backlog /\ T.file = S.file
  BY DEF Sound, Worlds
<1> HIDE DEF T
<1>2. Sound(T)
  BY <1>1 DEF Sound, MapsBack, Heard, Known, Named, HasSlot
<1> QED
  BY <1>1, <1>2 DEF T

LEMMA HostAddKeeps ==
  ASSUME NEW S, Sound(S), Kept(S.driver), NEW i \in Slot
  PROVE  LET T == HandleHostAdd(S, i)
         IN  /\ Sound(T) /\ Kept(T.driver) /\ T.driver.ustat = S.driver.ustat
             /\ T.rc.reading = S.rc.reading
<1> DEFINE h == S.rc.hostadd_reqs - 1
           m == [S.rc EXCEPT !.hostadd_reqs = h]
           w == [id1 |-> i, init |-> FALSE, runningtask |-> NoTask]
           d == [S.driver EXCEPT !.workers = Append(S.driver.workers, w)]
           A == [S EXCEPT !.rc = m]
           C == [A EXCEPT !.driver = d]
<1>1. S.driver \in DriverState /\ S.rc \in Memory /\ S \in Worlds
  BY DEF Sound, Worlds
<1>2. w \in WorkerID /\ w.runningtask = NoTask
  BY DEF WorkerID
<1>3. HandleHostAdd(S, i) = Hostaddlogic(C)
  BY <1>1 DEF HandleHostAdd, Worlds, Memory, DriverState
<1>4. h \in Int
  BY <1>1 DEF Memory
<1> HIDE DEF h, w
<1>5. /\ m \in Memory /\ m.socketWorkers = S.rc.socketWorkers
      /\ m.reverseMap = S.rc.reverseMap /\ m.reading = S.rc.reading
  BY <1>1, <1>4 DEF Memory
<1>6. d \in DriverState /\ Kept(d) /\ d.ustat = S.driver.ustat
  BY <1>1, <1>2, AddedKeeps
<1> HIDE DEF m, d
<1>7. Sound(A) /\ A.rc = m
  BY <1>5, AccountKeeps
<1> HIDE DEF A
<1>8. Sound(C) /\ C.driver = d /\ C.rc = m
  BY <1>6, <1>7, DriverKeeps
<1> HIDE DEF C
<1> QED
  BY <1>3, <1>5, <1>6, <1>8, HostaddlogicKeeps

(* How a handler leaves the world, which is then looked at by After. *)
Handled(T) ==
  /\ Sound(T) /\ T.rc.reading = NoFd
  /\ T.driver.ustat = "QUIT" \/ (T.driver.ustat = "OK" /\ Kept(T.driver) /\ Accounts(T))

LEMMA QuitsHandles ==
  ASSUME NEW S, Sound(S), S.rc.reading = NoFd, NEW k \in DOMAIN S.driver.workers
  PROVE  Handled(Quits(S, k))
<1> DEFINE i == S.driver.workers[k].id1
           r == RemoveAt(S.driver.workers, k)
           d == [S.driver EXCEPT !.workers = r]
           A == [S EXCEPT !.driver = d]
           B == Send(A, i, KILL_YOURSELF)
           C == KillWorker(B, i)
           D == Hostaddlogic(C)
           e == [D.driver EXCEPT !.ustat = "QUIT"]
           T == [D EXCEPT !.driver = e]
<1>1. S.driver \in DriverState /\ S.driver.workers \in Seq(WorkerID)
  BY DEF Sound, Worlds, DriverState
<1>2. i \in Slot /\ r \in Seq(WorkerID)
  <2>1. S.driver.workers[k] \in WorkerID
    BY <1>1
  <2>2. i \in Slot
    BY <2>1 DEF WorkerID
  <2> QED
    BY <1>1, <2>2, RemovedAt
<1>3. Quits(S, k) = T
  BY DEF Quits
<1> HIDE DEF i, r
<1>4. d \in DriverState
  BY <1>1, <1>2 DEF DriverState
<1> HIDE DEF d
<1>5. Sound(A) /\ A.rc = S.rc
  BY <1>4, DriverKeeps
<1> HIDE DEF A
<1>6. Sound(B) /\ B.rc = S.rc
  BY <1>5, SendKeeps
<1> HIDE DEF B
<1>7. Sound(C) /\ C.rc = Vacated(S.rc, i)
  BY <1>2, <1>6, KillWorkerKeeps
<1>8. C.rc.reading = NoFd
  BY <1>2, <1>7, VacatedIs DEF Sound, Worlds
<1> HIDE DEF C
<1>9. Sound(D) /\ D.rc.reading = NoFd
  BY <1>7, <1>8, HostaddlogicKeeps
<1> HIDE DEF D
<1>10. e \in DriverState /\ e.ustat = "QUIT"
  BY <1>9 DEF Sound, Worlds, DriverState
<1> HIDE DEF e
<1>11. Sound(T) /\ T.driver = e /\ T.rc = D.rc
  BY <1>9, <1>10, DriverKeeps
<1> QED
  BY <1>3, <1>9, <1>10, <1>11 DEF Handled

(* The checkpoint says what is done, and the file is written again. *)
LEMMA CheckpointKeeps ==
  ASSUME NEW S, Sound(S), Kept(S.driver)
  PROVE  LET T == Checkpoint(S)
         IN  /\ Sound(T) /\ T.rc = S.rc /\ Kept(T.driver)
             /\ T.driver.workers = S.driver.workers /\ T.driver.ustat = S.driver.ustat
<1> DEFINE d == [S.driver EXCEPT !.saved = S.driver.done]
           C == [S EXCEPT !.driver = d]
<1>1. CASE ~CheckpointDue(S.driver)
  BY <1>1 DEF Checkpoint
<1>2. CASE CheckpointDue(S.driver)
  <2>1. S.driver \in DriverState
    BY DEF Sound, Worlds
  <2>2. /\ d \in DriverState /\ d.workers = S.driver.workers /\ d.ustat = S.driver.ustat
        /\ d.todo = S.driver.todo /\ d.done = S.driver.done
    BY <2>1 DEF DriverState
  <2>3. Checkpoint(S) = Written(C)
    BY <1>2 DEF Checkpoint
  <2> HIDE DEF d
  <2>4. Kept(d)
    BY <2>2 DEF Kept, IsRunning
  <2>5. Sound(C) /\ C.driver = d /\ C.rc = S.rc
    BY <2>2, DriverKeeps
  <2> HIDE DEF C
  <2>6. Unwritten(C)
    BY <2>5 DEF Sound, Unwritten, Known
  <2> QED
    BY <2>2, <2>3, <2>4, <2>5, <2>6, WrittenKeeps
<1> QED
  BY <1>1, <1>2

LEMMA MessageHandled ==
  ASSUME NEW S, Sound(S), Kept(S.driver), Accounts(S), S.rc.reading = NoFd,
         S.driver.ustat = "OK", NEW i, NEW tag, NEW task \in Task \cup {NoTask}
  PROVE  Handled(HandleMessage(S, i, tag, task))
<1>1. CASE Listed(S, i) = {}
  BY <1>1, SendKeeps DEF HandleMessage, Handled, Accounts
<1>2. CASE Listed(S, i) # {}
  <2> DEFINE k == Min(Listed(S, i))
             d == [S.driver EXCEPT !.workers[k].init = TRUE]
             f == Finished(S.driver, k, task)
  <2>1. S.driver \in DriverState
    BY DEF Sound, Worlds
  <2>2. Listed(S, i) \in SUBSET Nat /\ Listed(S, i) \subseteq DOMAIN S.driver.workers
    BY <2>1 DEF Listed, DriverState
  <2>3. k \in DOMAIN S.driver.workers
    BY <2>2, <1>2, MinIsLeast
  <2>4. CASE tag = "INIT"
    <3> DEFINE C == [S EXCEPT !.driver = d]
    <3>1. HandleMessage(S, i, tag, task) = C
      BY <1>2, <2>4 DEF HandleMessage
    <3>2. /\ d \in DriverState /\ Kept(d) /\ d.ustat = S.driver.ustat
          /\ SameWorkers(d.workers, S.driver)
      BY <2>1, <2>3, InitializedKeeps
    <3> HIDE DEF d
    <3>3. Sound(C) /\ C.driver = d /\ C.rc = S.rc
      BY <3>2, DriverKeeps
    <3>4. Accounts(C)
      BY <3>2, <3>3, AccountsStill, Zenon
    <3> QED
      BY <3>1, <3>2, <3>3, <3>4 DEF Handled
  <2>5. CASE tag = "RESULTS" /\ task # NoTask /\ task = S.driver.workers[k].runningtask
    <3> DEFINE C == [S EXCEPT !.driver = f]
    <3>1. HandleMessage(S, i, tag, task) = Checkpoint(C)
      BY <1>2, <2>5 DEF HandleMessage
    <3>2. /\ f \in DriverState /\ Kept(f) /\ f.ustat = S.driver.ustat
          /\ SameWorkers(f.workers, S.driver)
      BY <2>1, <2>3, <2>5, FinishedKeeps
    <3> HIDE DEF f
    <3>3. Sound(C) /\ C.driver = f /\ C.rc = S.rc
      BY <3>2, DriverKeeps
    <3> HIDE DEF C
    <3>4. /\ Sound(Checkpoint(C)) /\ Checkpoint(C).rc = S.rc /\ Kept(Checkpoint(C).driver)
          /\ Checkpoint(C).driver.workers = f.workers /\ Checkpoint(C).driver.ustat = f.ustat
      BY <3>2, <3>3, CheckpointKeeps, Zenon
    <3>5. Accounts(Checkpoint(C))
      BY <3>2, <3>4, AccountsStill, Zenon
    <3> QED
      BY <3>1, <3>2, <3>3, <3>4, <3>5 DEF Handled
  <2>6. CASE tag # "INIT" /\ ~(tag = "RESULTS" /\ task # NoTask
                                /\ task = S.driver.workers[k].runningtask)
    <3>1. HandleMessage(S, i, tag, task) = Quits(S, k)
      BY <1>2, <2>6 DEF HandleMessage
    <3> QED
      BY <2>3, <3>1, QuitsHandles
  <2> QED
    BY <2>4, <2>5, <2>6
<1> QED
  BY <1>1, <1>2

(* What is left when the master is dead: all of its jobs are being removed, or *)
(* the next one can find them, but for orphans.                                *)
Over(S) ==
  /\ S.conns = <<>> /\ S.backlog = <<>> /\ S.jobs \in Seq(Job)
  /\ S.file \subseteq DOMAIN S.jobs \cup {NoJob}
  /\ S.driver \in DriverState /\ S.driver.workers = <<>>
  /\ S.driver.ustat = "OK" => /\ S.driver.todo = Task \ S.driver.done
                              /\ \A j \in DOMAIN S.jobs : GivenUp(S.jobs[j]) \/ j \in S.file
  /\ S.driver.ustat = "ended" => \A j \in DOMAIN S.jobs : GivenUp(S.jobs[j])

LEMMA EndsIsOver ==
  ASSUME NEW S, Sound(S), S.driver.ustat \in {"OK", "QUIT"}
  PROVE  Ends(S).rc = NULL /\ Over(Ends(S))
<1> DEFINE mine == {S.rc.socketWorkers[i].cId :
                      i \in {s \in Slot : S.rc.socketWorkers[s].state # "FREE"}}
           job(j) == IF j \in mine THEN [S.jobs[j] EXCEPT !.removed = TRUE] ELSE S.jobs[j]
           js == [j \in DOMAIN S.jobs |-> job(j)]
           u == IF S.driver.ustat = "OK" THEN "ended" ELSE S.driver.ustat
           d == [S.driver EXCEPT !.workers = <<>>, !.ustat = u]
           T == Ends(S)
<1>1. S \in Worlds /\ S.jobs \in Seq(Job) /\ S.driver \in DriverState
  BY DEF Sound, Worlds
<1>2. T = [S EXCEPT !.rc = NULL, !.conns = <<>>, !.backlog = <<>>, !.driver = d, !.jobs = js]
  BY <1>1, Zenon DEF Ends, Worlds, DriverState
<1>3. ASSUME NEW j \in DOMAIN S.jobs PROVE js[j] \in Job /\ GivenUp(js[j])
  <2>1. S.jobs[j] \in Job
    BY <1>1
  <2>2. j \in mine \/ GivenUp(S.jobs[j])
    BY DEF Sound, Known, HasSlot
  <2> HIDE DEF mine
  <2>3. js[j] = job(j)
    OBVIOUS
  <2>4. CASE j \in mine
    BY <2>1, <2>3, <2>4, Zenon DEF Job, GivenUp
  <2>5. CASE j \notin mine
    BY <2>1, <2>2, <2>3, <2>5
  <2> QED
    BY <2>4, <2>5
<1>4. js \in Seq(Job) /\ DOMAIN js = DOMAIN S.jobs
  <2>1. DOMAIN S.jobs = 1 .. Len(S.jobs) /\ Len(S.jobs) \in Nat
    BY <1>1
  <2>2. js \in [1 .. Len(S.jobs) -> Job]
    BY <1>3, <2>1, Zenon
  <2> HIDE DEF js
  <2> QED
    BY <2>1, <2>2
<1>5. u \in {"QUIT", "ended"}
  OBVIOUS
<1>6. <<>> \in Seq(WorkerID)
  OBVIOUS
<1> HIDE DEF js, u, T
<1>7. d \in DriverState /\ d.workers = <<>> /\ d.ustat = u
  BY <1>1, <1>5, <1>6, Zenon DEF DriverState
<1> HIDE DEF d
<1>8. /\ T.rc = NULL /\ T.conns = <<>> /\ T.backlog = <<>> /\ T.driver = d /\ T.jobs = js
      /\ T.file = S.file /\ S.file \subseteq DOMAIN S.jobs \cup {NoJob}
  BY <1>1, <1>2 DEF Worlds, Sound, Known
<1>9. Over(T)
  BY <1>3, <1>4, <1>5, <1>7, <1>8 DEF Over
<1> QED
  BY <1>8, <1>9 DEF T

(* The inductive invariant, of a world. *)
Settled(S) ==
  \/ /\ S.rc # NULL /\ S.driver.ustat = "OK"
     /\ Sound(S) /\ Kept(S.driver) /\ Accounts(S) /\ Reads(S.rc, S.conns)
  \/ S.rc = NULL /\ Over(S)

LEMMA MemoryIsThere == NULL \notin Memory
<1>1. \A m \in Memory : DOMAIN m = {"socketWorkers", "hostadd_reqs", "reverseMap", "reading"}
  BY DEF Memory
<1>2. DOMAIN NULL = {}
  BY DEF NULL
<1> QED
  BY <1>1, <1>2

LEMMA AfterSettles ==
  ASSUME NEW S, Handled(S)
  PROVE  Settled(After(S))
<1> DEFINE R == RematchTasksToWorkers(S)
           isDone == /\ R.driver.todo = {}
                     /\ \A k \in DOMAIN R.driver.workers : R.driver.workers[k].runningtask = NoTask
<1>1. After(S) = IF R.driver.ustat # "OK" \/ isDone THEN Ends(R) ELSE R
  BY DEF After
<1>2. Rematched(S, R)
  BY RematchKeeps DEF Handled
<1> HIDE DEF R, isDone
<1>3. /\ Sound(R) /\ R.rc.reading = NoFd /\ R.rc # NULL
      /\ R.driver.ustat = "QUIT" \/ (R.driver.ustat = "OK" /\ Kept(R.driver) /\ Accounts(R))
  BY <1>2, MemoryIsThere, AccountsStill DEF Rematched, Handled, Sound, Worlds
<1>4. Settled(Ends(R))
  BY <1>3, EndsIsOver DEF Settled
<1>5. CASE R.driver.ustat # "OK" \/ isDone
  BY <1>1, <1>4, <1>5
<1>6. CASE ~(R.driver.ustat # "OK" \/ isDone)
  BY <1>1, <1>3, <1>6 DEF Settled, Reads
<1> QED
  BY <1>5, <1>6

-----------------------------------------------------------------------------
(* What the master receives. *)

LEMMA TailOf ==
  ASSUME NEW X, NEW s \in Seq(X), s # <<>>
  PROVE  /\ 1 \in DOMAIN s /\ Head(s) = s[1] /\ Head(s) \in X /\ Tail(s) \in Seq(X)
         /\ \A n \in DOMAIN Tail(s) : n + 1 \in DOMAIN s /\ Tail(s)[n] = s[n + 1]
OBVIOUS

(* A socket is free while each connection is that of a slot of its own. *)
LEMMA SomeSocketIsFree ==
  ASSUME NEW S, Sound(S)
  PROVE  Min(Fd \ DOMAIN S.conns) \in Fd \ DOMAIN S.conns
<1> DEFINE D == DOMAIN S.conns
           r == [fd \in D |-> S.rc.reverseMap[fd]]
<1>1. D \subseteq Fd /\ Fd \subseteq Nat
  <2>1. Fd \subseteq Nat
    BY SlotsAreNumbers DEF Fd
  <2> QED
    BY <2>1, ConnTables DEF Sound, Worlds
<1>2. IsFiniteSet(Fd) /\ Cardinality(Fd) = target_num_workers + 1
  <2> DEFINE n == target_num_workers + 1
  <2>1. 1 \in Int /\ n \in Int /\ ~(1 > n) /\ n - 1 + 1 = n
    BY SlotsAreNumbers
  <2> HIDE DEF n
  <2>2. IsFiniteSet(1 .. n) /\ Cardinality(1 .. n) = IF 1 > n THEN 0 ELSE n - 1 + 1
    BY <2>1, FS_Interval
  <2> QED
    BY <2>1, <2>2 DEF n, Fd
<1>3. r \in [D -> Slot] /\ \A x, y \in D : x # y => r[x] # r[y]
  BY DEF Sound, MapsBack
<1>4. D # Fd
  <2>1. SUFFICES ASSUME D = Fd PROVE FALSE
    OBVIOUS
  <2>2. Cardinality(Slot) < Cardinality(D)
    BY <1>2, <2>1, SlotsAreNumbers
  <2>3. IsFiniteSet(D) /\ IsFiniteSet(Slot)
    BY <1>2, <2>1, SlotsAreNumbers
  <2> HIDE DEF D, r
  <2>4. \E x, y \in D : x # y /\ r[x] = r[y]
    BY <1>3, <2>2, <2>3, FS_PigeonHole
  <2> QED
    BY <1>3, <2>4
<1>5. Fd \ D \in SUBSET Nat /\ Fd \ D # {}
  BY <1>1, <1>4
<1> QED
  BY <1>5, MinIsLeast

(* The world with one more connection, that is not in the map yet. *)
Joined(W, fd, c) ==
  [W EXCEPT !.conns = [f \in DOMAIN @ \cup {fd} |-> IF f = fd THEN c ELSE @[f]]]

LEMMA JoinedIs ==
  ASSUME NEW W \in Worlds, NEW fd \in Fd, NEW c \in Connection
  PROVE  LET T == Joined(W, fd, c)
         IN  /\ T \in Worlds /\ T.rc = W.rc /\ T.driver = W.driver /\ T.jobs = W.jobs
             /\ T.backlog = W.backlog /\ T.file = W.file
             /\ DOMAIN T.conns = DOMAIN W.conns \cup {fd} /\ T.conns[fd] = c
             /\ \A f \in DOMAIN W.conns \ {fd} : T.conns[f] = W.conns[f]
<1> DEFINE cs == [f \in DOMAIN W.conns \cup {fd} |-> IF f = fd THEN c ELSE W.conns[f]]
           T == Joined(W, fd, c)
<1>1. DOMAIN W.conns \subseteq Fd /\ \A f \in DOMAIN W.conns : W.conns[f] \in Connection
  BY ConnTables DEF Worlds
<1>2. DOMAIN cs = DOMAIN W.conns \cup {fd}
      /\ \A f \in DOMAIN cs : cs[f] = IF f = fd THEN c ELSE W.conns[f]
  OBVIOUS
<1>3. cs = [f \in DOMAIN cs |-> cs[f]]
  OBVIOUS
<1>4. T = [W EXCEPT !.conns = cs]
  BY DEF Joined
<1> HIDE DEF cs, T
<1>5. cs \in ConnTable
  BY <1>1, <1>2, <1>3, ConnTables
<1>6. /\ T \in Worlds /\ T.rc = W.rc /\ T.driver = W.driver /\ T.jobs = W.jobs
      /\ T.backlog = W.backlog /\ T.file = W.file /\ T.conns = cs
  BY <1>4, <1>5 DEF Worlds
<1> QED
  BY <1>2, <1>6 DEF T

(* The connection of a slot that has none is put into the map. *)
LEMMA AcceptedKeeps ==
  ASSUME NEW W, Sound(W), NEW fd \in Fd \ DOMAIN W.conns, NEW c \in Connection, Of(c, W.jobs),
         NEW i \in Slot, W.rc.socketWorkers[i].socket = NoFd,
         c.slot = i \/ (c.inbox = <<>> /\ c.link = "closed")
  PROVE  LET T == Accepted(Joined(W, fd, c), fd, i)
         IN  /\ Sound(T) /\ T.driver = W.driver /\ T.rc.reading = W.rc.reading
             /\ T.rc = Occupied(W.rc, fd, i)
<1> DEFINE J == Joined(W, fd, c)
           m == Occupied(W.rc, fd, i)
           T == Accepted(J, fd, i)
<1>1. W \in Worlds /\ W.rc \in Memory /\ DOMAIN W.conns \subseteq Fd
  BY ConnTables DEF Sound, Worlds
<1>2. /\ J \in Worlds /\ J.rc = W.rc /\ J.driver = W.driver /\ J.jobs = W.jobs
      /\ J.backlog = W.backlog /\ J.file = W.file
      /\ DOMAIN J.conns = DOMAIN W.conns \cup {fd} /\ J.conns[fd] = c
      /\ \A f \in DOMAIN W.conns \ {fd} : J.conns[f] = W.conns[f]
  BY <1>1, JoinedIs
<1>3. /\ m \in Memory /\ m.reading = W.rc.reading
      /\ \A x \in Fd : m.reverseMap[x] = IF x = fd THEN i ELSE W.rc.reverseMap[x]
      /\ \A k \in Slot :
           /\ m.socketWorkers[k].cId = W.rc.socketWorkers[k].cId
           /\ m.socketWorkers[k].state = IF k = i THEN "EXECUTING" ELSE W.rc.socketWorkers[k].state
           /\ m.socketWorkers[k].socket = IF k = i THEN fd ELSE W.rc.socketWorkers[k].socket
  BY <1>1, OccupiedIs
<1> HIDE DEF J
<1>4. T = [J EXCEPT !.rc = m]
  BY <1>2 DEF Accepted
<1> HIDE DEF m, T
<1>5. /\ T \in Worlds /\ T.rc = m /\ T.driver = W.driver /\ T.jobs = W.jobs
      /\ T.backlog = W.backlog /\ T.file = W.file /\ T.conns = J.conns
  BY <1>2, <1>3, <1>4, Zenon DEF Worlds
<1>6. MapsBack(m, J.conns)
  <2>1. ASSUME NEW f \in DOMAIN J.conns
        PROVE  m.reverseMap[f] \in Slot /\ m.socketWorkers[m.reverseMap[f]].socket = f
    <3>1. CASE f = fd
      BY <3>1, <1>3
    <3>2. CASE f # fd
      <4>1. f \in DOMAIN W.conns /\ f \in Fd /\ f # NoFd
        BY <3>2, <1>1, <1>2, SlotsAreNumbers
      <4>2. W.rc.reverseMap[f] \in Slot /\ W.rc.socketWorkers[W.rc.reverseMap[f]].socket = f
        BY <4>1 DEF Sound, MapsBack
      <4>3. W.rc.reverseMap[f] # i
        BY <4>1, <4>2
      <4> QED
        BY <3>2, <4>1, <4>2, <4>3, <1>3
    <3> QED
      BY <3>1, <3>2
  <2>2. ASSUME NEW k \in Slot, m.socketWorkers[k].state = "FREE"
        PROVE  m.socketWorkers[k].socket = NoFd
    <3>1. k # i
      BY <2>2, <1>3
    <3> QED
      BY <2>2, <3>1, <1>3 DEF Sound, MapsBack
  <2> QED
    BY <2>1, <2>2 DEF MapsBack
<1>7. Addressed(J.conns, W.backlog, W.jobs)
  BY <1>2 DEF Sound, Addressed
<1>8. Heard(m, J.conns)
  <2>1. ASSUME NEW f \in DOMAIN J.conns
        PROVE  \/ m.reverseMap[f] = J.conns[f].slot
               \/ J.conns[f].inbox = <<>> /\ J.conns[f].link = "closed"
    <3>1. CASE f = fd
      BY <3>1, <1>2, <1>3
    <3>2. CASE f # fd
      BY <3>2, <1>1, <1>2, <1>3 DEF Sound, Heard
    <3> QED
      BY <3>1, <3>2
  <2> QED
    BY <2>1 DEF Heard
<1>9. (\A j : HasSlot(j, W.rc) => HasSlot(j, m)) /\ (Named(W.jobs, W.rc) => Named(W.jobs, m))
  BY <1>3 DEF HasSlot, Named
<1>10. Known(W.jobs, W.file, m)
  BY <1>9 DEF Sound, Known
<1>11. Sound(T)
  BY <1>5, <1>6, <1>7, <1>8, <1>10 DEF Sound
<1> QED
  BY <1>3, <1>5, <1>11 DEF T, J, m

LEMMA JoinedClosed ==
  ASSUME NEW W \in Worlds, NEW fd \in Fd \ DOMAIN W.conns, NEW c \in Connection
  PROVE  Closed(Joined(W, fd, c), fd) = W
<1> DEFINE J == Joined(W, fd, c)
           cs == Restrict(J.conns, DOMAIN J.conns \ {fd})
<1>1. /\ J \in Worlds /\ J.rc = W.rc /\ J.driver = W.driver /\ J.jobs = W.jobs
      /\ J.backlog = W.backlog /\ J.file = W.file
      /\ DOMAIN J.conns = DOMAIN W.conns \cup {fd}
      /\ \A f \in DOMAIN W.conns \ {fd} : J.conns[f] = W.conns[f]
  BY JoinedIs
<1> HIDE DEF J
<1>2. DOMAIN J.conns \ {fd} = DOMAIN W.conns
  BY <1>1
<1>3. cs = [f \in DOMAIN W.conns |-> W.conns[f]]
  BY <1>1, <1>2 DEF Restrict
<1>4. W.conns \in ConnTable
  BY DEF Worlds
<1>5. cs = W.conns
  BY <1>3, <1>4, ConnTables
<1>6. Closed(J, fd) = [J EXCEPT !.conns = cs]
  BY DEF Closed
<1> QED
  BY <1>1, <1>5, <1>6 DEF Worlds, J

(* The account of a worker that is given up. *)
LEMMA KilledAgrees ==
  ASSUME NEW S, Sound(S), Kept(S.driver), NEW i \in Slot,
         S.rc.socketWorkers[i].socket # NoFd, Agree(S.rc, S.driver.workers)
  PROVE  LET T == HandleKilledWorker(S, i) IN Agree(T.rc, T.driver.workers)
<1> DEFINE K == KillWorker(S, i)
           k == Min(Listed(K, i))
           d == Lost(S.driver, k)
           C == [K EXCEPT !.driver = d]
           T == Hostaddlogic(C)
<1>1. S.rc \in Memory /\ S.driver \in DriverState /\ S.driver.workers \in Seq(WorkerID)
  BY DEF Sound, Worlds, DriverState
<1>2. Sound(K) /\ K.rc = Vacated(S.rc, i) /\ K.driver = S.driver
  BY KillWorkerKeeps
<1>3. HandleKilledWorker(S, i) = HandleHostDel(K, i)
  BY DEF HandleKilledWorker
<1> HIDE DEF K
<1>4. Listed(K, i) # {} /\ Listed(K, i) \in SUBSET Nat
  BY <1>1, <1>2 DEF Listed, Agree
<1>5. k \in DOMAIN S.driver.workers /\ S.driver.workers[k].id1 = i
  <2>1. k \in Listed(K, i)
    BY <1>4, MinIsLeast
  <2> QED
    BY <2>1, <1>2 DEF Listed
<1>6. HandleHostDel(K, i) = T
  BY <1>2, <1>4 DEF HandleHostDel
<1> HIDE DEF k, T
<1>7. d \in DriverState /\ d.workers = RemoveAt(S.driver.workers, k)
  BY <1>1, <1>5, LostKeeps
<1>8. Agree(Vacated(S.rc, i), d.workers)
  BY <1>1, <1>5, <1>7, LostAgrees
<1> HIDE DEF d
<1>9. Sound(C) /\ C.driver = d /\ C.rc = Vacated(S.rc, i)
  BY <1>2, <1>7, DriverKeeps
<1> HIDE DEF C
<1>10. Agree(T.rc, T.driver.workers)
  BY <1>8, <1>9, NothingSpawned, HostaddlogicKeeps DEF T
<1> QED
  BY <1>3, <1>6, <1>10

(* The account of a worker that has come. *)
LEMMA StartedAgrees ==
  ASSUME NEW W, Sound(W), Kept(W.driver), NEW i \in Slot, W.rc.socketWorkers[i].socket = NoFd,
         NEW fd \in Fd, Agree(W.rc, W.driver.workers),
         NEW S, Sound(S), S.driver = W.driver, S.rc = Occupied(W.rc, fd, i)
  PROVE  LET T == HandleHostAdd(S, i) IN Agree(T.rc, T.driver.workers)
<1> DEFINE h == S.rc.hostadd_reqs - 1
           m == [S.rc EXCEPT !.hostadd_reqs = h]
           w == [id1 |-> i, init |-> FALSE, runningtask |-> NoTask]
           d == [S.driver EXCEPT !.workers = Append(S.driver.workers, w)]
           A == [S EXCEPT !.rc = m]
           C == [A EXCEPT !.driver = d]
           T == Hostaddlogic(C)
<1>1. S.driver \in DriverState /\ S.rc \in Memory /\ S \in Worlds /\ W.rc \in Memory
      /\ W.driver.workers \in Seq(WorkerID)
  BY DEF Sound, Worlds, DriverState
<1>2. w \in WorkerID /\ w.runningtask = NoTask /\ w.id1 = i
  BY DEF WorkerID
<1>3. HandleHostAdd(S, i) = T
  BY <1>1, Zenon DEF HandleHostAdd, Worlds, Memory, DriverState
<1>4. h \in Int /\ h = W.rc.hostadd_reqs - 1
  <2>1. Occupied(W.rc, fd, i).hostadd_reqs = W.rc.hostadd_reqs
    BY <1>1, OccupiedIs
  <2>2. W.rc.hostadd_reqs \in Int
    BY <1>1 DEF Memory
  <2> QED
    BY <2>1, <2>2
<1> HIDE DEF h, w, T
<1>5. /\ m \in Memory /\ m.socketWorkers = S.rc.socketWorkers
      /\ m.reverseMap = S.rc.reverseMap /\ m.hostadd_reqs = h
  BY <1>1, <1>4, Zenon DEF Memory
<1>6. d \in DriverState /\ d.workers = Append(W.driver.workers, w)
  BY <1>1, <1>2, AddedKeeps, Zenon
<1> HIDE DEF m, d
<1>7. Sound(A) /\ A.rc = m
  BY <1>5, AccountKeeps
<1> HIDE DEF A
<1>8. Sound(C) /\ C.driver = d /\ C.rc = m
  BY <1>6, <1>7, DriverKeeps
<1> HIDE DEF C
<1>9. Agree(m, d.workers)
  BY <1>1, <1>2, <1>4, <1>5, <1>6, AddedAgrees
<1>10. Agree(T.rc, T.driver.workers)
  BY <1>8, <1>9, NothingSpawned, HostaddlogicKeeps DEF T
<1> QED
  BY <1>3, <1>10

LEMMA KilledHandled ==
  ASSUME NEW S, Sound(S), Kept(S.driver), Accounts(S), S.rc.reading = NoFd,
         S.driver.ustat = "OK", NEW i \in Slot, S.rc.socketWorkers[i].socket # NoFd
  PROVE  Handled(HandleKilledWorker(S, i))
<1> DEFINE K == KillWorker(S, i)
<1>1. Sound(K) /\ K.rc = Vacated(S.rc, i) /\ K.driver = S.driver
  BY KillWorkerKeeps
<1>2. K.rc.reading = NoFd
  BY <1>1, VacatedIs DEF Sound, Worlds
<1>3. HandleKilledWorker(S, i) = HandleHostDel(K, i)
  BY DEF HandleKilledWorker
<1>4. Accounts(HandleKilledWorker(S, i))
  BY KilledAgrees DEF Accounts
<1> HIDE DEF K
<1> QED
  BY <1>1, <1>2, <1>3, <1>4, HostDelKeeps DEF Handled

LEMMA StartingHandled ==
  ASSUME NEW W, Sound(W), Kept(W.driver), Accounts(W), W.rc.reading = NoFd, W.driver.ustat = "OK",
         NEW fd \in Fd \ DOMAIN W.conns, NEW c \in Connection, Of(c, W.jobs),
         NEW i \in Slot, c.slot = i \/ (c.inbox = <<>> /\ c.link = "closed")
  PROVE  Handled(HandleStartingWorker(Joined(W, fd, c), fd, i))
<1> DEFINE J == Joined(W, fd, c)
           A == Accepted(J, fd, i)
<1>1. W \in Worlds
  BY DEF Sound
<1>2. J.rc = W.rc
  BY <1>1, JoinedIs
<1>3. CASE W.rc.socketWorkers[i].socket # NoFd
  <2>1. HandleStartingWorker(J, fd, i) = HandleKilledWorker(Closed(J, fd), i)
    BY <1>2, <1>3 DEF HandleStartingWorker
  <2>2. Closed(J, fd) = W
    BY <1>1, JoinedClosed
  <2> QED
    BY <1>3, <2>1, <2>2, KilledHandled
<1>4. CASE W.rc.socketWorkers[i].socket = NoFd
  <2>1. HandleStartingWorker(J, fd, i) = HandleHostAdd(A, i)
    BY <1>2, <1>4 DEF HandleStartingWorker
  <2>2. /\ Sound(A) /\ A.driver = W.driver /\ A.rc.reading = W.rc.reading
        /\ A.rc = Occupied(W.rc, fd, i)
    BY <1>4, AcceptedKeeps
  <2> HIDE DEF A
  <2>3. Accounts(HandleHostAdd(A, i))
    BY <1>4, <2>2, StartedAgrees DEF Accounts
  <2> QED
    BY <2>1, <2>2, <2>3, HostAddKeeps DEF Handled
<1> QED
  BY <1>3, <1>4

(* The inductive invariant. *)
SockInv == Settled(World)

LEMMA WorldIs ==
  /\ World.rc = rc /\ World.conns = conns /\ World.backlog = backlog /\ World.jobs = jobs
  /\ World.file = worker_number_file /\ World.driver = driver
BY DEF World

LEMMA BecomesSettled ==
  ASSUME NEW S, Settled(S), Becomes(S)
  PROVE  SockInv'
<1>1. /\ World'.rc = S.rc /\ World'.conns = S.conns /\ World'.backlog = S.backlog
      /\ World'.jobs = S.jobs /\ World'.file = S.file /\ World'.driver = S.driver
  BY DEF World, Becomes
<1>2. CASE Sound(S)
  <2>1. S \in Worlds
    BY <1>2 DEF Sound
  <2>2. S = World'
    BY <2>1 DEF Worlds, World, Becomes
  <2> QED
    BY <2>2 DEF SockInv
<1>3. CASE S.rc = NULL /\ Over(S)
  BY <1>1, <1>3 DEF SockInv, Settled, Over
<1> QED
  BY <1>2, <1>3 DEF Settled

LEMMA UpMeans ==
  ASSUME SockInv, Up
  PROVE  /\ Sound(World) /\ Kept(driver) /\ driver.ustat = "OK" /\ Reads(rc, conns)
         /\ World \in Worlds /\ Accounts(World)
BY WorldIs DEF SockInv, Settled, Up, Sound

(* The first connection that waits is taken from the queue. *)
LEMMA TakenKeeps ==
  ASSUME NEW S, Sound(S), S.backlog # <<>>
  PROVE  LET T == [S EXCEPT !.backlog = Tail(@)]
         IN  /\ Sound(T) /\ T.rc = S.rc /\ T.conns = S.conns /\ T.driver = S.driver
             /\ T.jobs = S.jobs
             /\ Head(S.backlog) \in Connection /\ Of(Head(S.backlog), S.jobs)
<1> DEFINE q == Tail(S.backlog)
           T == [S EXCEPT !.backlog = q]
<1>1. S \in Worlds /\ S.backlog \in Seq(Connection)
  BY DEF Sound, Worlds
<1>2. /\ 1 \in DOMAIN S.backlog /\ Head(S.backlog) = S.backlog[1]
      /\ Head(S.backlog) \in Connection /\ q \in Seq(Connection)
      /\ \A n \in DOMAIN q : n + 1 \in DOMAIN S.backlog /\ q[n] = S.backlog[n + 1]
  BY <1>1, TailOf
<1>3. Of(Head(S.backlog), S.jobs)
  BY <1>2 DEF Sound, Addressed
<1> HIDE DEF q
<1>4. /\ T \in Worlds /\ T.rc = S.rc /\ T.conns = S.conns /\ T.driver = S.driver
      /\ T.jobs = S.jobs /\ T.backlog = q /\ T.file = S.file
  BY <1>1, <1>2, Zenon DEF Worlds
<1>5. Addressed(S.conns, q, S.jobs)
  BY <1>2 DEF Sound, Addressed
<1>6. Sound(T)
  BY <1>4, <1>5 DEF Sound
<1> QED
  BY <1>2, <1>3, <1>4, <1>6 DEF q

LEMMA AcceptKeeps ==
  ASSUME SockInv, Up, rc.reading = NoFd, backlog # <<>>, Accept
  PROVE  SockInv'
<1> DEFINE c == Head(backlog)
           fd == Min(Fd \ DOMAIN conns)
           n == [c EXCEPT !.inbox = IF @ = <<>> THEN @ ELSE Tail(@)]
           W == [World EXCEPT !.backlog = Tail(backlog)]
           S == [World EXCEPT !.backlog = Tail(@),
                         !.conns = [f \in DOMAIN @ \cup {fd} |->
                           IF f = fd THEN [c EXCEPT !.inbox = IF @ = <<>> THEN @ ELSE Tail(@)]
                           ELSE @[f]]]
<1>1. /\ Sound(World) /\ Kept(driver) /\ driver.ustat = "OK" /\ World \in Worlds
      /\ Accounts(World)
  BY UpMeans
<1>2. /\ Sound(W) /\ W.rc = rc /\ W.conns = conns /\ W.driver = driver /\ W.jobs = jobs
      /\ c \in Connection /\ Of(c, jobs)
  BY <1>1, WorldIs, TakenKeeps, Zenon
<1>3. /\ n \in Connection /\ n.slot = c.slot /\ n.job = c.job /\ n.link = c.link
      /\ (c.inbox = <<>> => n.inbox = <<>>)
  <2>1. c.inbox \in Seq(Message)
    BY <1>2 DEF Connection
  <2>2. (IF c.inbox = <<>> THEN c.inbox ELSE Tail(c.inbox)) \in Seq(Message)
    BY <2>1, TailOf
  <2> DEFINE b == IF c.inbox = <<>> THEN c.inbox ELSE Tail(c.inbox)
  <2>3. n = [c EXCEPT !.inbox = b] /\ (c.inbox = <<>> => b = <<>>)
    OBVIOUS
  <2> HIDE DEF b, n, c
  <2> QED
    BY <1>2, <2>2, <2>3, Zenon DEF Connection, b
<1>4. fd \in Fd \ DOMAIN W.conns
  BY <1>1, <1>2, WorldIs, SomeSocketIsFree
<1>5. S = Joined(W, fd, n)
  BY DEF Joined, World
<1>6. Of(n, W.jobs)
  BY <1>2, <1>3 DEF Of
<1>7. c.slot \in Slot
  BY <1>2 DEF Connection
<1>0. Accounts(W)
  BY <1>1, <1>2, WorldIs DEF Accounts
<1>8. \/ c.inbox # <<>> /\ Becomes(After(HandleStartingWorker(S, fd, c.slot)))
      \/ c.inbox = <<>> /\ c.link = "silent" /\ Becomes(Closed(S, fd))
      \/ /\ c.inbox = <<>> /\ c.link = "closed"
         /\ \E remote \in Slot : Becomes(After(HandleStartingWorker(S, fd, remote)))
  BY Zenon DEF Accept
<1> HIDE DEF S, fd, n, W, c
<1>9. ASSUME NEW i \in Slot, c.slot = i \/ (c.inbox = <<>> /\ c.link = "closed"),
             Becomes(After(HandleStartingWorker(S, fd, i)))
      PROVE  SockInv'
  <2>1. Handled(HandleStartingWorker(Joined(W, fd, n), fd, i))
    BY <1>0, <1>1, <1>2, <1>3, <1>4, <1>6, <1>9, StartingHandled
  <2> QED
    BY <2>1, <1>5, <1>9, AfterSettles, BecomesSettled
<1>10. ASSUME Becomes(Closed(S, fd)) PROVE SockInv'
  <2>1. W \in Worlds
    BY <1>2 DEF Sound
  <2>2. Closed(S, fd) = W
    BY <1>3, <1>4, <1>5, <2>1, JoinedClosed
  <2>3. Settled(W)
    BY <1>0, <1>1, <1>2 DEF Settled, Up, Reads
  <2> QED
    BY <1>10, <2>2, <2>3, BecomesSettled
<1> QED
  BY <1>7, <1>8, <1>9, <1>10

(* A message has been read, and nothing is waited for any more. *)
LEMMA ReadKeeps ==
  ASSUME NEW S, Sound(S), NEW fd \in DOMAIN S.conns, S.conns[fd].inbox # <<>>
  PROVE  LET T == [S EXCEPT !.conns[fd].inbox = Tail(@), !.rc.reading = NoFd]
         IN  /\ Sound(T) /\ T.driver = S.driver /\ T.rc.reading = NoFd
             /\ T.rc.socketWorkers = S.rc.socketWorkers
             /\ T.rc.hostadd_reqs = S.rc.hostadd_reqs
             /\ Head(S.conns[fd].inbox) \in Message
<1> DEFINE c == S.conns[fd]
           b == Tail(c.inbox)
           n == [c EXCEPT !.inbox = b]
           cs == [S.conns EXCEPT ![fd] = n]
           m == [S.rc EXCEPT !.reading = NoFd]
           A == [S EXCEPT !.conns = cs]
           T == [A EXCEPT !.rc = m]
<1>1. /\ S \in Worlds /\ S.rc \in Memory
      /\ S.conns = [f \in DOMAIN S.conns |-> S.conns[f]] /\ DOMAIN S.conns \subseteq Fd
      /\ \A f \in DOMAIN S.conns : S.conns[f] \in Connection
  BY ConnTables DEF Sound, Worlds
<1>2. c \in Connection /\ c.inbox \in Seq(Message)
  BY <1>1 DEF Connection
<1>3. b \in Seq(Message) /\ Head(c.inbox) \in Message
  BY <1>2, TailOf
<1>4. [S EXCEPT !.conns[fd].inbox = Tail(@), !.rc.reading = NoFd] = T
  BY <1>1 DEF Worlds, Memory
<1> HIDE DEF c, b
<1>5. n \in Connection /\ n.slot = c.slot /\ n.job = c.job
  BY <1>2, <1>3 DEF Connection
<1> HIDE DEF n
<1>6. /\ DOMAIN cs = DOMAIN S.conns /\ cs[fd] = n
      /\ \A f \in DOMAIN S.conns \ {fd} : cs[f] = S.conns[f]
  BY <1>1
<1>7. cs = [f \in DOMAIN cs |-> cs[f]]
  BY <1>1
<1> HIDE DEF cs
<1>8. cs \in ConnTable
  BY <1>1, <1>5, <1>6, <1>7, ConnTables
<1>9. /\ A \in Worlds /\ A.rc = S.rc /\ A.driver = S.driver /\ A.jobs = S.jobs
      /\ A.backlog = S.backlog /\ A.file = S.file /\ A.conns = cs
  BY <1>1, <1>8 DEF Worlds
<1> HIDE DEF A
<1>10. MapsBack(S.rc, cs)
  BY <1>6 DEF Sound, MapsBack
<1>11. Addressed(cs, S.backlog, S.jobs)
  <2>1. Of(n, S.jobs)
    BY <1>5 DEF Sound, Addressed, Of, c
  <2> QED
    BY <1>6, <2>1 DEF Sound, Addressed
<1>12. Heard(S.rc, cs)
  <2>1. S.rc.reverseMap[fd] = n.slot
    BY <1>5 DEF Sound, Heard, c
  <2> QED
    BY <1>6, <2>1 DEF Sound, Heard
<1>13. Sound(A)
  BY <1>9, <1>10, <1>11, <1>12 DEF Sound
<1>14. /\ m \in Memory /\ m.socketWorkers = S.rc.socketWorkers
       /\ m.reverseMap = S.rc.reverseMap /\ m.reading = NoFd
       /\ m.hostadd_reqs = S.rc.hostadd_reqs
  BY <1>1 DEF Memory
<1> HIDE DEF m
<1>15. Sound(T) /\ T.rc = m /\ T.driver = S.driver
  BY <1>9, <1>13, <1>14, AccountKeeps
<1> HIDE DEF T
<1> QED
  BY <1>3, <1>4, <1>14, <1>15, Zenon DEF c

LEMMA FinishedWorkerKeeps ==
  ASSUME SockInv, Up, NEW i \in Slot,
         rc.reading = NoFd \/ rc.reading = rc.socketWorkers[i].socket,
         HandleFinishedWorker(i)
  PROVE  SockInv'
<1> DEFINE fd == rc.socketWorkers[i].socket
           c == conns[fd]
           p == Head(c.inbox)
           S == [World EXCEPT !.conns[fd].inbox = Tail(@), !.rc.reading = NoFd]
           R == [World EXCEPT !.rc.reading = fd]
<1>1. /\ Sound(World) /\ Kept(driver) /\ driver.ustat = "OK" /\ World \in Worlds
      /\ Reads(rc, conns) /\ Accounts(World)
  BY UpMeans
<1>2. fd \in DOMAIN conns
  BY Zenon DEF HandleFinishedWorker
<1>0. fd \in Fd /\ fd # NoFd
  BY <1>1, <1>2, WorldIs, ConnTables, SlotsAreNumbers DEF Worlds
<1>3. \/ (c.inbox = <<>> \/ (p.cut = "part" /\ c.link = "closed"))
         /\ Becomes(After(HandleKilledWorker(World, i)))
      \/ (c.inbox # <<>> /\ p.cut = "part" /\ c.link # "closed") /\ Becomes(Closed(World, fd))
      \/ (c.inbox # <<>> /\ p.cut = "no") /\ Becomes(After(HandleMessage(S, i, p.tag, p.task)))
      \/ (c.inbox # <<>> /\ p.cut = "head" /\ c.link = "closed")
         /\ \E task \in Task \cup {NoTask} : Becomes(After(HandleMessage(S, i, p.tag, task)))
      \/ (c.inbox # <<>> /\ p.cut # "part") /\ rc.reading = NoFd /\ Becomes(R)
  BY Zenon DEF HandleFinishedWorker
<1>4. ASSUME c.inbox # <<>>
      PROVE  /\ Sound(S) /\ S.driver = driver /\ S.rc.reading = NoFd /\ p \in Message
             /\ Accounts(S)
  <2>1. /\ Sound(S) /\ S.driver = driver /\ S.rc.reading = NoFd /\ p \in Message
        /\ S.rc.socketWorkers = rc.socketWorkers /\ S.rc.hostadd_reqs = rc.hostadd_reqs
    <3>1. fd \in DOMAIN World.conns /\ World.conns[fd].inbox # <<>>
      BY <1>2, <1>4, WorldIs
    <3>2. /\ Sound(S) /\ S.driver = World.driver /\ S.rc.reading = NoFd
          /\ S.rc.socketWorkers = World.rc.socketWorkers
          /\ S.rc.hostadd_reqs = World.rc.hostadd_reqs
          /\ Head(World.conns[fd].inbox) \in Message
      BY <1>1, <3>1, ReadKeeps, Zenon
    <3> HIDE DEF S
    <3> QED
      BY <3>2, WorldIs
  <2> HIDE DEF S, p
  <2>2. SameWorkers(S.driver.workers, World.driver)
    BY <1>1, <2>1, WorldIs DEF Worlds, DriverState, SameWorkers
  <2> QED
    BY <1>1, <2>1, <2>2, WorldIs, AccountsStill
<1> HIDE DEF S
<1>5. ASSUME c.inbox = <<>> \/ (p.cut = "part" /\ c.link = "closed"),
             Becomes(After(HandleKilledWorker(World, i)))
      PROVE  SockInv'
  <2>1. rc.reading = NoFd
    BY <1>1, <1>5 DEF Reads
  <2>2. Handled(HandleKilledWorker(World, i))
    BY <1>0, <1>1, <2>1, WorldIs, KilledHandled
  <2> QED
    BY <1>5, <2>2, AfterSettles, BecomesSettled
<1>6. ASSUME c.inbox # <<>>, p.cut = "part", Becomes(Closed(World, fd))
      PROVE  SockInv'
  <2>1. rc.reading = NoFd
    BY <1>1, <1>6 DEF Reads
  <2> DEFINE C == Closed(World, fd)
  <2>2. Sound(C) /\ C.rc = rc /\ C.driver = driver
    BY <1>1, WorldIs, ClosedKeeps
  <2> HIDE DEF C
  <2>4. Accounts(C)
    BY <1>1, <2>2, WorldIs DEF Accounts
  <2>3. Settled(C)
    BY <1>1, <2>1, <2>2, <2>4 DEF Settled, Reads, Up
  <2> QED
    BY <1>6, <2>3, BecomesSettled DEF C
<1>7. ASSUME c.inbox # <<>>, NEW tag, NEW task \in Task \cup {NoTask},
             Becomes(After(HandleMessage(S, i, tag, task)))
      PROVE  SockInv'
  <2>1. Handled(HandleMessage(S, i, tag, task))
    BY <1>1, <1>4, <1>7, MessageHandled
  <2> QED
    BY <1>7, <2>1, AfterSettles, BecomesSettled
<1>8. ASSUME c.inbox # <<>>, p.cut # "part", Becomes(R)
      PROVE  SockInv'
  <2> DEFINE m == [rc EXCEPT !.reading = fd]
             T == [World EXCEPT !.rc = m]
  <2>1. R = T
    BY DEF World
  <2>2. rc \in Memory /\ fd \in Fd
    BY <1>1, <1>2, WorldIs, ConnTables DEF Worlds
  <2>3. /\ m \in Memory /\ m.socketWorkers = rc.socketWorkers
        /\ m.reverseMap = rc.reverseMap /\ m.reading = fd
        /\ m.hostadd_reqs = rc.hostadd_reqs
    BY <2>2 DEF Memory
  <2> HIDE DEF m, R
  <2>4. Sound(T) /\ T.rc = m /\ T.driver = driver /\ T.conns = conns
    BY <1>1, <2>3, WorldIs, AccountKeeps
  <2>5. m # NULL
    BY <2>3, MemoryIsThere
  <2> HIDE DEF T
  <2>6. SameWorkers(T.driver.workers, World.driver)
    BY <1>1, <2>4, WorldIs DEF Worlds, DriverState, SameWorkers
  <2>7. Accounts(T)
    BY <1>1, <2>3, <2>4, <2>6, WorldIs, AccountsStill
  <2>8. Settled(T)
    BY <1>1, <1>2, <1>8, <2>3, <2>4, <2>5, <2>7 DEF Settled, Reads
  <2> QED
    BY <1>8, <2>1, <2>8, BecomesSettled
<1>9. c.inbox # <<>> => p.task \in Task \cup {NoTask}
  BY <1>4 DEF Message
<1> HIDE DEF c, p, fd, R
<1> QED
  BY <1>3, <1>5, <1>6, <1>7, <1>8, <1>9

LEMMA MasterRecvKeeps ==
  ASSUME SockInv, MasterRecv
  PROVE  SockInv'
<1>1. Up
  BY DEF MasterRecv
<1>2. Sound(World) /\ Reads(rc, conns)
  BY <1>1, UpMeans
<1>3. \A fd \in DOMAIN conns : rc.reverseMap[fd] \in Slot
                               /\ rc.socketWorkers[rc.reverseMap[fd]].socket = fd
  BY <1>2, WorldIs DEF Sound, MapsBack
<1>4. CASE rc.reading # NoFd
  <2> DEFINE i == rc.reverseMap[rc.reading]
  <2>1. HandleFinishedWorker(i)
    BY <1>4 DEF MasterRecv
  <2>2. i \in Slot /\ rc.socketWorkers[i].socket = rc.reading
    BY <1>2, <1>3, <1>4 DEF Reads
  <2> QED
    BY <1>1, <2>1, <2>2, FinishedWorkerKeeps
<1>5. CASE rc.reading = NoFd /\ \E i \in Slot : CanBeRead(i)
  <2> DEFINE A == {j \in Slot : CanBeRead(j)}
             l == Min(A)
             i == rc.reverseMap[rc.socketWorkers[l].socket]
  <2>1. HandleFinishedWorker(i)
    BY <1>5 DEF MasterRecv
  <2>2. l \in A
    BY <1>5, SlotsAreNumbers, MinIsLeast
  <2>3. rc.socketWorkers[l].socket \in DOMAIN conns
    BY <2>2, Zenon DEF CanBeRead
  <2> QED
    BY <1>1, <1>3, <1>5, <2>1, <2>3, FinishedWorkerKeeps
<1>6. CASE rc.reading = NoFd /\ ~ \E i \in Slot : CanBeRead(i)
  BY <1>1, <1>6, AcceptKeeps DEF MasterRecv
<1> QED
  BY <1>4, <1>5, <1>6

-----------------------------------------------------------------------------
(* What the jobs do. *)

LEMMA EmptyTable ==
  ASSUME NEW f, f = [x \in DOMAIN f |-> f[x]], DOMAIN f = {}
  PROVE  f = <<>>
OBVIOUS

LEMMA EmptyQueue ==
  ASSUME NEW X, NEW s \in Seq(X), DOMAIN s = {}
  PROVE  s = <<>>
OBVIOUS

(* The jobs are what they were, but for what they do. *)
SameJob(x, y) ==
  x \in Job /\ x.slot = y.slot /\ x.removed = y.removed /\ x.orphan = y.orphan
SameJobs(new, js) ==
  /\ new \in Seq(Job) /\ DOMAIN new = DOMAIN js
  /\ \A j \in DOMAIN js : SameJob(new[j], js[j])

(* A connection goes on: what was sent on it stays, and an end of it is final. *)
GoesOn(n, c) ==
  /\ n \in Connection /\ n.job = c.job /\ n.slot = c.slot
  /\ c.link # "open" => n = c
  /\ c.inbox # <<>> /\ Head(c.inbox).cut # "part" => n.inbox # <<>> /\ Head(n.inbox).cut # "part"
LinksGoOn(new, cs) ==
  /\ new = [fd \in DOMAIN new |-> new[fd]] /\ DOMAIN new = DOMAIN cs
  /\ \A fd \in DOMAIN cs : GoesOn(new[fd], cs[fd])
QueueIs(new, js) ==
  new \in Seq(Connection) /\ \A k \in DOMAIN new : Of(new[k], js)

LEMMA SockTypes ==
  ASSUME SockInv
  PROVE  /\ conns \in ConnTable /\ backlog \in Seq(Connection) /\ jobs \in Seq(Job)
         /\ Addressed(conns, backlog, jobs)
<1>1. CASE Sound(World)
  BY <1>1, WorldIs DEF Sound, Worlds
<1>2. CASE Over(World)
  <2>1. conns = <<>> /\ backlog = <<>> /\ jobs \in Seq(Job)
    BY <1>2, WorldIs DEF Over
  <2>2. DOMAIN <<>> = {} /\ <<>> = [fd \in {} |-> <<>>[fd]] /\ <<>> \in Seq(Connection)
    OBVIOUS
  <2>3. conns \in ConnTable
    BY <2>1, <2>2, ConnTables, Zenon
  <2> QED
    BY <2>1, <2>2, <2>3 DEF Addressed
<1> QED
  BY <1>1, <1>2 DEF SockInv, Settled

LEMMA JobStepKeeps ==
  ASSUME SockInv, UNCHANGED <<rc, worker_number_file, driver>>,
         SameJobs(jobs', jobs), LinksGoOn(conns', conns), QueueIs(backlog', jobs'),
         ~Up => backlog' = <<>>
  PROVE  SockInv'
<1>1. /\ World'.rc = rc /\ World'.conns = conns' /\ World'.backlog = backlog'
      /\ World'.jobs = jobs' /\ World'.file = worker_number_file /\ World'.driver = driver
  BY DEF World
<1>2. CASE Up
  <2>1. /\ Sound(World) /\ Kept(driver) /\ driver.ustat = "OK" /\ World \in Worlds
        /\ Reads(rc, conns) /\ Accounts(World)
    BY <1>2, UpMeans
  <2>2. DOMAIN conns \subseteq Fd
    BY SockTypes, ConnTables
  <2>3. conns' \in ConnTable
    BY <2>2, ConnTables DEF LinksGoOn, GoesOn
  <2>4. World' \in Worlds
    BY <2>1, <2>3, WorldIs DEF Worlds, World, SameJobs, QueueIs
  <2>5. MapsBack(rc, conns')
    BY <2>1, WorldIs DEF Sound, MapsBack, LinksGoOn
  <2>6. Addressed(conns', backlog', jobs')
    <3>1. Addressed(conns, backlog, jobs)
      BY SockTypes
    <3>2. \A c : Of(c, jobs) => Of(c, jobs')
      BY DEF Of, SameJobs, SameJob
    <3>3. ASSUME NEW fd \in DOMAIN conns' PROVE Of(conns'[fd], jobs')
      <4>1. fd \in DOMAIN conns /\ GoesOn(conns'[fd], conns[fd])
        BY DEF LinksGoOn
      <4>2. Of(conns[fd], jobs')
        BY <3>1, <3>2, <4>1 DEF Addressed
      <4> QED
        BY <4>1, <4>2 DEF GoesOn, Of
    <3> QED
      BY <3>3 DEF Addressed, QueueIs
  <2>7. Heard(rc, conns')
    BY <2>1, WorldIs DEF Sound, Heard, LinksGoOn, GoesOn
  <2>8. Known(jobs', worker_number_file, rc)
    BY <2>1, WorldIs DEF Sound, Known, Named, SameJobs, SameJob, GivenUp
  <2>9. Reads(rc, conns')
    BY <2>1 DEF Reads, LinksGoOn, GoesOn
  <2>10. Sound(World')
    BY <1>1, <2>4, <2>5, <2>6, <2>7, <2>8 DEF Sound
  <2>11. Accounts(World')
    BY <1>1, <2>1, WorldIs DEF Accounts
  <2> QED
    BY <1>1, <1>2, <2>1, <2>9, <2>10, <2>11 DEF SockInv, Settled, Up
<1>3. CASE ~Up
  <2>1. Over(World)
    BY <1>3, WorldIs DEF SockInv, Settled, Up
  <2>2. conns = <<>>
    BY <2>1, WorldIs DEF Over
  <2>3. conns' = <<>>
    BY <2>2, EmptyTable DEF LinksGoOn
  <2>4. Over(World')
    BY <1>1, <1>3, <2>1, <2>3, WorldIs DEF Over, SameJobs, SameJob, GivenUp
  <2> QED
    BY <1>1, <1>3, <2>4 DEF SockInv, Settled, Up
<1> QED
  BY <1>2, <1>3

LEMMA GoesOnSelf ==
  ASSUME NEW c \in Connection
  PROVE  GoesOn(c, c)
BY DEF GoesOn

LEMMA AppendedSeqs ==
  ASSUME NEW X, NEW a \in Seq(X), NEW b \in Seq(X)
  PROVE  /\ a \o b \in Seq(X)
         /\ a # <<>> => a \o b # <<>> /\ Head(a \o b) = Head(a)
OBVIOUS

LEMMA SentOnLink ==
  ASSUME NEW c \in Connection, c.link = "open", NEW rest \in Seq(Message),
         NEW link \in {"open", "closed", "silent"}
  PROVE  GoesOn([c EXCEPT !.inbox = @ \o rest, !.link = link], c)
<1> DEFINE b == c.inbox \o rest
           n == [c EXCEPT !.inbox = b, !.link = link]
<1>1. c.inbox \in Seq(Message)
  BY DEF Connection
<1>2. b \in Seq(Message) /\ (c.inbox # <<>> => b # <<>> /\ Head(b) = Head(c.inbox))
  BY <1>1, AppendedSeqs
<1> HIDE DEF b
<1>3. n \in Connection /\ n.job = c.job /\ n.slot = c.slot /\ n.inbox = b
  BY <1>2, Zenon DEF Connection
<1> HIDE DEF n
<1>4. GoesOn(n, c)
  BY <1>2, <1>3 DEF GoesOn
<1> QED
  BY <1>4 DEF n, b

(* Each connection goes on. *)
LEMMA AllGoOn ==
  ASSUME SockInv, SameJobs(jobs', jobs),
         conns' = [fd \in DOMAIN conns |-> conns'[fd]],
         \A fd \in DOMAIN conns : GoesOn(conns'[fd], conns[fd]),
         backlog' = [k \in DOMAIN backlog |-> backlog'[k]],
         \A k \in DOMAIN backlog : GoesOn(backlog'[k], backlog[k])
  PROVE  /\ LinksGoOn(conns', conns) /\ QueueIs(backlog', jobs')
         /\ ~Up => backlog' = <<>>
<1>1. /\ conns \in ConnTable /\ backlog \in Seq(Connection) /\ jobs \in Seq(Job)
      /\ Addressed(conns, backlog, jobs)
  BY SockTypes
<1>2. DOMAIN conns' = DOMAIN conns /\ DOMAIN backlog' = DOMAIN backlog
  OBVIOUS
<1>3. LinksGoOn(conns', conns)
  BY <1>2 DEF LinksGoOn
<1>4. backlog' \in Seq(Connection)
  <2>1. DOMAIN backlog = 1 .. Len(backlog) /\ Len(backlog) \in Nat
    BY <1>1
  <2>2. backlog' \in [1 .. Len(backlog) -> Connection]
    BY <2>1 DEF GoesOn
  <2> QED
    BY <2>1, <2>2
<1>5. ASSUME NEW k \in DOMAIN backlog' PROVE Of(backlog'[k], jobs')
  <2>1. Of(backlog[k], jobs) /\ backlog'[k].job = backlog[k].job
       /\ backlog'[k].slot = backlog[k].slot
    BY <1>1, <1>2 DEF Addressed, GoesOn
  <2> QED
    BY <2>1 DEF Of, SameJobs, SameJob
<1>6. ASSUME ~Up PROVE backlog' = <<>>
  <2>1. backlog = <<>>
    BY <1>6, WorldIs DEF SockInv, Settled, Over, Up
  <2> QED
    BY <1>2, <1>4, <2>1, EmptyQueue
<1> QED
  BY <1>3, <1>4, <1>5, <1>6 DEF QueueIs

LEMMA OnLinkGoesOn ==
  ASSUME SockInv, NEW j, NEW rest \in Seq(Message), NEW link \in {"open", "closed", "silent"},
         OnLink(j, rest, link), SameJobs(jobs', jobs)
  PROVE  /\ LinksGoOn(conns', conns) /\ QueueIs(backlog', jobs')
         /\ ~Up => backlog' = <<>>
<1> DEFINE new(c) == IF IsOf(c, j) THEN [c EXCEPT !.inbox = @ \o rest, !.link = link] ELSE c
<1>1. conns \in ConnTable /\ backlog \in Seq(Connection)
  BY SockTypes
<1>2. ASSUME NEW c \in Connection PROVE GoesOn(new(c), c)
  BY SentOnLink, GoesOnSelf, Zenon DEF IsOf
<1>3. /\ conns' = [fd \in DOMAIN conns |-> new(conns[fd])]
      /\ backlog' = [k \in DOMAIN backlog |-> new(backlog[k])]
  BY Zenon DEF OnLink
<1> HIDE DEF new
<1>4. \A fd \in DOMAIN conns : GoesOn(conns'[fd], conns[fd])
  BY <1>1, <1>2, <1>3, ConnTables
<1>5. \A k \in DOMAIN backlog : GoesOn(backlog'[k], backlog[k])
  BY <1>1, <1>2, <1>3
<1> QED
  BY <1>3, <1>4, <1>5, AllGoOn

LEMMA SentIs ==
  ASSUME NEW j \in DOMAIN jobs, jobs \in Seq(Job), NEW cut \in {"no", "part", "head"}
  PROVE  Sent(j, cut) \in Seq(Message)
<1>1. jobs[j] \in Job
  OBVIOUS
<1>2. [tag |-> "INIT", task |-> NoTask, cut |-> cut] \in Message
  BY DEF Message
<1>3. [tag |-> "RESULTS", task |-> jobs[j].task, cut |-> cut] \in Message
  BY <1>1 DEF Message, Job
<1> QED
  BY <1>2, <1>3 DEF Sent

(* Job j becomes x. *)
LEMMA OneJobChanges ==
  ASSUME jobs \in Seq(Job), NEW j \in DOMAIN jobs, NEW x, SameJob(x, jobs[j])
  PROVE  SameJobs([jobs EXCEPT ![j] = x], jobs)
BY DEF SameJobs, SameJob

LEMMA PhaseIs ==
  ASSUME jobs \in Seq(Job), NEW j \in DOMAIN jobs,
         NEW phase \in {"trying", "greeting", "waiting", "working", "stalled", "gone"},
         Phase(j, phase)
  PROVE  SameJobs(jobs', jobs)
<1> DEFINE x == [jobs[j] EXCEPT !.phase = phase, !.task = NoTask]
<1>1. jobs[j] \in Job
  OBVIOUS
<1>2. SameJob(x, jobs[j])
  BY <1>1, Zenon DEF Job, SameJob
<1>3. jobs' = [jobs EXCEPT ![j] = x]
  BY Zenon DEF Phase
<1> HIDE DEF x
<1> QED
  BY <1>2, <1>3, OneJobChanges, Zenon

LEMMA RequeuedIs ==
  ASSUME jobs \in Seq(Job), NEW j \in DOMAIN jobs, Requeued(j)
  PROVE  SameJobs(jobs', jobs)
<1> DEFINE phase == IF jobs[j].removed THEN "gone" ELSE "trying"
           x == [jobs[j] EXCEPT !.phase = phase, !.task = NoTask, !.mail = <<>>]
<1>1. jobs[j] \in Job /\ phase \in {"gone", "trying"} /\ <<>> \in Seq(Task \cup {KILL_YOURSELF})
  OBVIOUS
<1>4. jobs' = [jobs EXCEPT ![j] = x]
  BY DEF Requeued
<1> HIDE DEF phase
<1>2. SameJob(x, jobs[j])
  BY <1>1, Zenon DEF Job, SameJob
<1> HIDE DEF x
<1> QED
  BY <1>2, <1>4, OneJobChanges, Zenon

LEMMA LinkIs ==
  ASSUME jobs \in Seq(Job), NEW j \in DOMAIN jobs, NEW inbox \in Seq(Message),
         NEW link \in {"open", "closed", "silent"}
  PROVE  Link(j, inbox, link) \in Connection /\ Of(Link(j, inbox, link), jobs)
<1>1. jobs[j] \in Job /\ j \in Nat
  OBVIOUS
<1> QED
  BY <1>1 DEF Link, Connection, Job, Of

(* A connection comes to the end of the queue. *)
LEMMA ComesKeeps ==
  ASSUME SockInv, Up, SameJobs(jobs', jobs), NEW c \in Connection, Of(c, jobs),
         backlog' = Append(backlog, c), UNCHANGED <<conns, rc, worker_number_file, driver>>
  PROVE  SockInv'
<1>1. /\ conns \in ConnTable /\ backlog \in Seq(Connection) /\ jobs \in Seq(Job)
      /\ Addressed(conns, backlog, jobs)
  BY SockTypes
<1>2. LinksGoOn(conns', conns)
  BY <1>1, ConnTables, GoesOnSelf DEF LinksGoOn
<1>3. /\ backlog' \in Seq(Connection) /\ DOMAIN backlog' = DOMAIN backlog \cup {Len(backlog) + 1}
      /\ \A n \in DOMAIN backlog : backlog'[n] = backlog[n]
      /\ backlog'[Len(backlog) + 1] = c
  BY <1>1, AppendedTo
<1>4. QueueIs(backlog', jobs')
  BY <1>1, <1>3 DEF QueueIs, Addressed, Of, SameJobs, SameJob
<1> QED
  BY <1>2, <1>4, JobStepKeeps

LEMMA ConnectKeeps ==
  ASSUME SockInv, NEW j \in DOMAIN jobs, Connect(j)
  PROVE  SockInv'
<1> DEFINE id == <<[tag |-> "ID", task |-> NoTask, cut |-> "no"]>>
<1>1. jobs \in Seq(Job)
  BY SockTypes
<1>2. SameJobs(jobs', jobs)
  BY <1>1, PhaseIs DEF Connect
<1>3. id \in Seq(Message)
  BY DEF Message
<1>4. backlog' = Append(backlog, Link(j, id, "open"))
  BY DEF Connect
<1> HIDE DEF id
<1>5. Link(j, id, "open") \in Connection /\ Of(Link(j, id, "open"), jobs)
  BY <1>1, <1>3, LinkIs
<1> QED
  BY <1>2, <1>4, <1>5, ComesKeeps DEF Connect, MasterSleeps

LEMMA ConnectBreaksKeeps ==
  ASSUME SockInv, NEW j \in DOMAIN jobs, ConnectBreaks(j)
  PROVE  SockInv'
<1>1. jobs \in Seq(Job)
  BY SockTypes
<1>2. SameJobs(jobs', jobs)
  BY <1>1, RequeuedIs DEF ConnectBreaks
<1>3. PICK link \in {"closed", "silent"} : backlog' = Append(backlog, Link(j, <<>>, link))
  BY DEF ConnectBreaks
<1>4. <<>> \in Seq(Message)
  OBVIOUS
<1>5. Link(j, <<>>, link) \in Connection /\ Of(Link(j, <<>>, link), jobs)
  BY <1>1, <1>4, LinkIs, Zenon
<1> QED
  BY <1>2, <1>3, <1>5, ComesKeeps DEF ConnectBreaks, MasterSleeps

(* A job does something, and its connection goes on. *)
LEMMA OnLinkKeeps ==
  ASSUME SockInv, NEW j, NEW rest \in Seq(Message), NEW link \in {"open", "closed", "silent"},
         OnLink(j, rest, link), SameJobs(jobs', jobs), MasterSleeps
  PROVE  SockInv'
BY OnLinkGoesOn, JobStepKeeps DEF MasterSleeps

(* A job does something that its connection does not show. *)
LEMMA AsideKeeps ==
  ASSUME SockInv, UNCHANGED <<conns, backlog>>, SameJobs(jobs', jobs), MasterSleeps
  PROVE  SockInv'
<1>1. conns \in ConnTable /\ backlog \in Seq(Connection)
  BY SockTypes
<1>2. /\ conns' = [fd \in DOMAIN conns |-> conns'[fd]]
      /\ backlog' = [k \in DOMAIN backlog |-> backlog'[k]]
  BY <1>1, ConnTables
<1>3. /\ \A fd \in DOMAIN conns : GoesOn(conns'[fd], conns[fd])
      /\ \A k \in DOMAIN backlog : GoesOn(backlog'[k], backlog[k])
  BY <1>1, ConnTables, GoesOnSelf
<1> QED
  BY <1>2, <1>3, AllGoOn, JobStepKeeps DEF MasterSleeps

LEMMA WorkerSendsKeeps ==
  ASSUME SockInv, NEW j \in DOMAIN jobs, WorkerSends(j)
  PROVE  SockInv'
<1>1. jobs \in Seq(Job)
  BY SockTypes
<1>2. SameJobs(jobs', jobs)
  BY <1>1, PhaseIs DEF WorkerSends
<1>3. Sent(j, "no") \in Seq(Message)
  BY <1>1, SentIs
<1> QED
  BY <1>2, <1>3, OnLinkKeeps DEF WorkerSends

LEMMA WorkerReceivesKeeps ==
  ASSUME SockInv, NEW j \in DOMAIN jobs, WorkerReceives(j)
  PROVE  SockInv'
<1> DEFINE t == Head(jobs[j].mail)
<1>1. jobs \in Seq(Job) /\ jobs[j] \in Job
  <2>1. jobs \in Seq(Job)
    BY SockTypes
  <2> QED
    BY <2>1
<1>2. CASE t = KILL_YOURSELF
  <2>1. OnLink(j, <<>>, "closed") /\ Requeued(j) /\ MasterSleeps
    BY <1>2 DEF WorkerReceives
  <2>2. <<>> \in Seq(Message)
    OBVIOUS
  <2> QED
    BY <1>1, <2>1, <2>2, RequeuedIs, OnLinkKeeps, Zenon
<1>3. CASE t # KILL_YOURSELF
  <2> DEFINE mail == Tail(jobs[j].mail)
             x == [jobs[j] EXCEPT !.phase = "working", !.task = t, !.mail = mail]
  <2>1. jobs' = [jobs EXCEPT ![j] = x] /\ UNCHANGED <<conns, backlog>> /\ MasterSleeps
    BY <1>3 DEF WorkerReceives
  <2>2. jobs[j].mail \in Seq(Task \cup {KILL_YOURSELF}) /\ jobs[j].mail # <<>>
    BY <1>1 DEF WorkerReceives, Job
  <2>3. mail \in Seq(Task \cup {KILL_YOURSELF}) /\ t \in Task
    BY <2>2, <1>3, TailOf
  <2> HIDE DEF mail, t
  <2>4. SameJob(x, jobs[j])
    BY <1>1, <2>3, Zenon DEF Job, SameJob
  <2> HIDE DEF x
  <2> QED
    BY <1>1, <2>1, <2>4, OneJobChanges, AsideKeeps, Zenon
<1> QED
  BY <1>2, <1>3

LEMMA WorkerEndsKeeps ==
  ASSUME SockInv, NEW j \in DOMAIN jobs, WorkerEnds(j)
  PROVE  SockInv'
BY SockTypes, RequeuedIs, AsideKeeps DEF WorkerEnds

LEMMA FailsKeeps ==
  ASSUME SockInv, NEW j \in DOMAIN jobs, Fails(j)
  PROVE  SockInv'
<1>1. jobs \in Seq(Job)
  BY SockTypes
<1>2. Cuts \subseteq {"no", "part", "head"}
  BY DEF Cuts
<1>3. CASE /\ Requeued(j)
           /\ \E link \in {"closed", "silent"}, rest \in WithCut(j) : OnLink(j, rest, link)
  <2>1. PICK link \in {"closed", "silent"}, rest \in WithCut(j) : OnLink(j, rest, link)
    BY <1>3
  <2>2. <<>> \in Seq(Message)
    OBVIOUS
  <2>3. rest \in Seq(Message)
    BY <1>1, <1>2, <2>2, SentIs, Zenon DEF WithCut
  <2> QED
    BY <1>1, <1>3, <2>1, <2>3, RequeuedIs, OnLinkKeeps DEF Fails
<1>4. CASE Phase(j, "stalled") /\ \E cut \in Cuts : OnLink(j, Sent(j, cut), "open")
  <2>1. PICK cut \in Cuts : OnLink(j, Sent(j, cut), "open")
    BY <1>4
  <2>2. Sent(j, cut) \in Seq(Message)
    BY <1>1, <1>2, SentIs
  <2> QED
    BY <1>1, <1>4, <2>1, <2>2, PhaseIs, OnLinkKeeps DEF Fails
<1> QED
  BY <1>3, <1>4 DEF Fails

LEMMA CompletedIs ==
  ASSUME NEW c \in Connection, c.link = "open"
  PROVE  GoesOn([c EXCEPT !.inbox = Completed(@)], c)
<1> DEFINE b == c.inbox
           d == Completed(b)
           n == [c EXCEPT !.inbox = d]
<1>1. b \in Seq(Message)
  BY DEF Connection
<1>2. DOMAIN b = 1 .. Len(b) /\ Len(b) \in Nat
  BY <1>1
<1>3. ASSUME NEW m \in DOMAIN b PROVE d[m] \in Message /\ (d[m].cut = b[m].cut \/ d[m].cut = "no")
  <2>1. b[m] \in Message
    BY <1>1
  <2>2. d[m] = IF m = Len(b) THEN [b[m] EXCEPT !.cut = "no"] ELSE b[m]
    BY DEF Completed
  <2> HIDE DEF d, b
  <2> QED
    BY <2>1, <2>2 DEF Message
<1>4. d \in [1 .. Len(b) -> Message]
  BY <1>2, <1>3, Zenon DEF Completed
<1> HIDE DEF b, d
<1>5. d \in Seq(Message) /\ DOMAIN d = DOMAIN b
  BY <1>2, <1>4
<1>6. ASSUME b # <<>>, Head(b).cut # "part" PROVE d # <<>> /\ Head(d).cut # "part"
  <2>1. 1 \in DOMAIN b /\ Head(b) = b[1] /\ d # <<>>
    BY <1>1, <1>5, <1>6, TailOf
  <2>2. Head(d) = d[1]
    BY <1>5, <2>1, TailOf
  <2> QED
    BY <1>3, <1>6, <2>1, <2>2
<1>7. n \in Connection /\ n.job = c.job /\ n.slot = c.slot /\ n.inbox = d
  BY <1>5 DEF Connection
<1> HIDE DEF n
<1>8. GoesOn(n, c)
  BY <1>6, <1>7 DEF GoesOn, b
<1> QED
  BY <1>8 DEF n, d, b

LEMMA ResumesKeeps ==
  ASSUME SockInv, NEW j \in DOMAIN jobs, Resumes(j)
  PROVE  SockInv'
<1> DEFINE new(c) == IF IsOf(c, j) THEN [c EXCEPT !.inbox = Completed(@)] ELSE c
<1>1. conns \in ConnTable /\ backlog \in Seq(Connection) /\ jobs \in Seq(Job)
  BY SockTypes
<1>2. ASSUME NEW c \in Connection PROVE GoesOn(new(c), c)
  BY CompletedIs, GoesOnSelf DEF IsOf
<1>3. /\ conns' = [fd \in DOMAIN conns |-> new(conns[fd])]
      /\ backlog' = [k \in DOMAIN backlog |-> new(backlog[k])]
      /\ Phase(j, "waiting") /\ MasterSleeps
  BY DEF Resumes
<1> HIDE DEF new
<1>4. \A fd \in DOMAIN conns : GoesOn(conns'[fd], conns[fd])
  BY <1>1, <1>2, <1>3, ConnTables
<1>5. \A k \in DOMAIN backlog : GoesOn(backlog'[k], backlog[k])
  BY <1>1, <1>2, <1>3
<1>6. SameJobs(jobs', jobs)
  BY <1>1, <1>3, PhaseIs
<1> QED
  BY <1>3, <1>4, <1>5, <1>6, AllGoOn, JobStepKeeps DEF MasterSleeps

LEMMA CondorRemovesKeeps ==
  ASSUME SockInv, NEW j \in DOMAIN jobs, CondorRemoves(j)
  PROVE  SockInv'
<1>1. jobs \in Seq(Job)
  BY SockTypes
<1>2. <<>> \in Seq(Message)
  OBVIOUS
<1> QED
  BY <1>1, <1>2, PhaseIs, OnLinkKeeps, Zenon DEF CondorRemoves

-----------------------------------------------------------------------------
(* The master starts, dies and comes back. *)

LEMMA FreshIsSound ==
  ASSUME NEW js \in Seq(Job), NEW file \in SUBSET (DOMAIN js \cup {NoJob}), NEW d \in DriverState,
         d.workers = <<>>, d.todo = Task \ d.done, d.ustat = "OK",
         \A j \in DOMAIN js : GivenUp(js[j])
  PROVE  LET S == Fresh(js, file, d)
         IN  /\ Sound(S) /\ Kept(S.driver) /\ S.rc.reading = NoFd
             /\ S.driver.ustat = "OK" /\ S.driver.workers = <<>> /\ S.rc.hostadd_reqs = 0
             /\ \A i \in Slot : S.rc.socketWorkers[i].state = "FREE"
<1> DEFINE m == Empty
           S == Fresh(js, file, d)
<1>1. m = [socketWorkers |-> [i \in Slot |-> [state |-> "FREE", socket |-> NoFd, cId |-> NoJob]],
           hostadd_reqs |-> 0, reverseMap |-> [fd \in Fd |-> -1], reading |-> NoFd]
  BY DEF Empty
<1>2. NoJob \in Nat
  BY DEF NoJob
<1> HIDE DEF m
<1>3. /\ m \in Memory /\ m.reading = NoFd /\ m.hostadd_reqs = 0
      /\ \A i \in Slot : m.socketWorkers[i].socket = NoFd /\ m.socketWorkers[i].cId = NoJob
                         /\ m.socketWorkers[i].state = "FREE"
  BY <1>1, <1>2 DEF Memory
<1>4. DOMAIN <<>> = {} /\ <<>> = [fd \in {} |-> <<>>[fd]] /\ <<>> \in Seq(Connection)
  OBVIOUS
<1>5. <<>> \in ConnTable
  BY <1>4, ConnTables, Zenon
<1>6. /\ S.rc = m /\ S.conns = <<>> /\ S.backlog = <<>> /\ S.jobs = js /\ S.file = file
      /\ S.driver = d
  BY DEF Fresh, m
<1>7. S \in Worlds
  <2>1. NoJob \in Nat /\ DOMAIN js \subseteq Nat
    BY <1>2
  <2>2. file \in SUBSET Nat
    BY <2>1
  <2> QED
    BY <1>3, <1>4, <1>5, <2>2 DEF Fresh, Worlds, m
<1> HIDE DEF S
<1>8. Sound(S)
  BY <1>3, <1>4, <1>6, <1>7 DEF Sound, MapsBack, Addressed, Heard, Known, Named
<1>9. Kept(d)
  BY <1>4 DEF Kept, IsRunning
<1> QED
  BY <1>3, <1>6, <1>8, <1>9 DEF S

LEMMA FreshSettles ==
  ASSUME NEW js \in Seq(Job), NEW file \in SUBSET (DOMAIN js \cup {NoJob}), NEW d \in DriverState,
         d.workers = <<>>, d.todo = Task \ d.done, d.ustat = "OK",
         \A j \in DOMAIN js : GivenUp(js[j])
  PROVE  LET T == Hostaddlogic(Fresh(js, file, d))
         IN  Settled(T) /\ T \in Worlds
<1> DEFINE S == Fresh(js, file, d)
           T == Hostaddlogic(S)
<1>1. /\ Sound(S) /\ Kept(S.driver) /\ S.rc.reading = NoFd /\ S.driver.ustat = "OK"
      /\ S.driver.workers = <<>> /\ S.rc.hostadd_reqs = 0
      /\ \A i \in Slot : S.rc.socketWorkers[i].state = "FREE"
  BY FreshIsSound, Zenon
<1> HIDE DEF S
<1>2. Sound(T) /\ T.driver = S.driver /\ T.rc.reading = NoFd
  BY <1>1, HostaddlogicKeeps
<1>5. Accounts(T)
  BY <1>1, <1>2, AllAreSpawned DEF Accounts
<1> HIDE DEF T
<1>3. T \in Worlds /\ T.rc # NULL
  BY <1>2, MemoryIsThere DEF Sound, Worlds
<1>4. Settled(T)
  BY <1>1, <1>2, <1>3, <1>5 DEF Settled, Reads
<1> QED
  BY <1>3, <1>4 DEF S, T

LEMMA InitSettles ==
  ASSUME Init
  PROVE  SockInv
<1> DEFINE d == [workers |-> <<>>, todo |-> Task, done |-> {}, saved |-> {}, ustat |-> "OK"]
           T == Hostaddlogic(Fresh(<<>>, {}, d))
<1>1. <<>> \in Seq(Job) /\ <<>> \in Seq(WorkerID) /\ DOMAIN <<>> = {}
  OBVIOUS
<1>2. d \in DriverState /\ d.workers = <<>> /\ d.todo = Task \ d.done /\ d.ustat = "OK"
  BY <1>1 DEF DriverState
<1>3. /\ rc = T.rc /\ conns = T.conns /\ backlog = T.backlog /\ jobs = T.jobs
      /\ worker_number_file = T.file /\ driver = T.driver
  BY DEF Init
<1> HIDE DEF d
<1>4. Settled(T) /\ T \in Worlds
  BY <1>1, <1>2, FreshSettles, Zenon
<1> HIDE DEF T
<1>6. World = T
  BY <1>3, <1>4 DEF World, Worlds
<1> QED
  BY <1>4, <1>6 DEF SockInv

LEMMA CrashKeeps ==
  ASSUME SockInv, Crash
  PROVE  SockInv'
<1> DEFINE d == [driver EXCEPT !.workers = <<>>, !.done = driver.saved,
                               !.todo = Task \ driver.saved]
<1>1. /\ Sound(World) /\ driver.ustat = "OK" /\ World \in Worlds
  BY UpMeans DEF Crash
<1>2. driver \in DriverState /\ jobs \in Seq(Job) /\ worker_number_file \in SUBSET Nat
  BY <1>1, WorldIs DEF Worlds
<1>3. <<>> \in Seq(WorkerID)
  OBVIOUS
<1>4. /\ d \in DriverState /\ d.workers = <<>> /\ d.todo = Task \ d.done /\ d.ustat = "OK"
  BY <1>1, <1>2, <1>3, Zenon DEF DriverState
<1>5. /\ World'.rc = NULL /\ World'.conns = <<>> /\ World'.backlog = <<>> /\ World'.jobs = jobs
      /\ World'.file = worker_number_file /\ World'.driver = d
  BY DEF World, Crash
<1> HIDE DEF d
<1>6. /\ \A j \in DOMAIN jobs : GivenUp(jobs[j]) \/ j \in worker_number_file
      /\ worker_number_file \subseteq DOMAIN jobs \cup {NoJob}
  BY <1>1, WorldIs DEF Sound, Known
<1>7. Over(World')
  BY <1>2, <1>4, <1>5, <1>6 DEF Over
<1> QED
  BY <1>5, <1>7 DEF SockInv, Settled

LEMMA RestartKeeps ==
  ASSUME SockInv, Restart
  PROVE  SockInv'
<1> DEFINE T == Hostaddlogic(Fresh(RemovedAll, worker_number_file, driver))
<1>1. /\ jobs \in Seq(Job) /\ worker_number_file \subseteq DOMAIN jobs \cup {NoJob}
      /\ driver \in DriverState
      /\ driver.workers = <<>> /\ driver.todo = Task \ driver.done /\ driver.ustat = "OK"
      /\ \A j \in DOMAIN jobs : GivenUp(jobs[j]) \/ j \in worker_number_file
  BY WorldIs DEF Restart, Up, SockInv, Settled, Over
<1>2. ASSUME NEW j \in DOMAIN jobs
      PROVE  RemovedAll[j] \in Job /\ GivenUp(RemovedAll[j])
  <2>1. jobs[j] \in Job
    BY <1>1
  <2> DEFINE x == jobs[j].removed \/ j \in worker_number_file
  <2>2. RemovedAll[j] = [jobs[j] EXCEPT !.removed = x]
    BY DEF RemovedAll
  <2>3. x \in BOOLEAN /\ (x \/ jobs[j].orphan)
    BY <1>1, <2>1 DEF GivenUp, Job
  <2> HIDE DEF x
  <2>4. RemovedAll[j] \in Job /\ RemovedAll[j].removed = x /\ RemovedAll[j].orphan = jobs[j].orphan
    BY <2>1, <2>2, <2>3, Zenon DEF Job
  <2> QED
    BY <2>3, <2>4 DEF GivenUp
<1>3. RemovedAll \in Seq(Job) /\ DOMAIN RemovedAll = DOMAIN jobs
  <2>1. DOMAIN jobs = 1 .. Len(jobs) /\ Len(jobs) \in Nat
    BY <1>1
  <2>2. RemovedAll \in [1 .. Len(jobs) -> Job]
    BY <1>2, <2>1, Zenon DEF RemovedAll
  <2> QED
    BY <2>1, <2>2
<1>4. Settled(T) /\ T \in Worlds
  BY <1>1, <1>2, <1>3, FreshSettles
<1>6. Becomes(T)
  BY DEF Restart
<1> QED
  BY <1>4, <1>6, BecomesSettled

LEMMA StartOverKeeps ==
  ASSUME SockInv, StartOver
  PROVE  SockInv'
<1> DEFINE T == Hostaddlogic(Fresh(LeftBehind, worker_number_file, driver))
<1>1. /\ jobs \in Seq(Job) /\ worker_number_file \subseteq DOMAIN jobs \cup {NoJob}
      /\ driver \in DriverState
      /\ driver.workers = <<>> /\ driver.todo = Task \ driver.done /\ driver.ustat = "OK"
  BY WorldIs DEF StartOver, Up, SockInv, Settled, Over
<1>2. ASSUME NEW j \in DOMAIN jobs
      PROVE  LeftBehind[j] \in Job /\ GivenUp(LeftBehind[j])
  <2> DEFINE x == ~jobs[j].removed
  <2>1. jobs[j] \in Job /\ x \in BOOLEAN /\ (x \/ jobs[j].removed)
    BY <1>1
  <2>2. LeftBehind[j] = [jobs[j] EXCEPT !.orphan = x]
    BY DEF LeftBehind
  <2> HIDE DEF x
  <2>3. LeftBehind[j] \in Job /\ LeftBehind[j].orphan = x /\ LeftBehind[j].removed = jobs[j].removed
    BY <2>1, <2>2, Zenon DEF Job
  <2> QED
    BY <2>1, <2>3 DEF GivenUp
<1>3. LeftBehind \in Seq(Job) /\ DOMAIN LeftBehind = DOMAIN jobs
  <2>1. DOMAIN jobs = 1 .. Len(jobs) /\ Len(jobs) \in Nat
    BY <1>1
  <2>2. LeftBehind \in [1 .. Len(jobs) -> Job]
    BY <1>2, <2>1, Zenon DEF LeftBehind
  <2> QED
    BY <2>1, <2>2
<1>4. Settled(T) /\ T \in Worlds
  BY <1>1, <1>2, <1>3, FreshSettles
<1>6. Becomes(T)
  BY DEF StartOver
<1> QED
  BY <1>4, <1>6, BecomesSettled

-----------------------------------------------------------------------------
(* The theorems. *)

LEMMA NextKeeps ==
  ASSUME SockInv, [Next]_socketVars
  PROVE  SockInv'
<1>1. CASE MasterRecv
  BY <1>1, MasterRecvKeeps
<1>2. CASE Crash
  BY <1>2, CrashKeeps
<1>3. CASE Restart
  BY <1>3, RestartKeeps
<1>8. CASE StartOver
  BY <1>8, StartOverKeeps
<1>4. ASSUME NEW j \in DOMAIN jobs, Connect(j) \/ ConnectBreaks(j)
      PROVE  SockInv'
  BY <1>4, ConnectKeeps, ConnectBreaksKeeps
<1>5. ASSUME NEW j \in DOMAIN jobs, WorkerSends(j) \/ WorkerReceives(j) \/ WorkerEnds(j)
      PROVE  SockInv'
  BY <1>5, WorkerSendsKeeps, WorkerReceivesKeeps, WorkerEndsKeeps
<1>6. ASSUME NEW j \in DOMAIN jobs, Fails(j) \/ Resumes(j) \/ CondorRemoves(j)
      PROVE  SockInv'
  BY <1>6, FailsKeeps, ResumesKeeps, CondorRemovesKeeps
<1>7. CASE UNCHANGED socketVars
  <2>1. World' = World
    BY <1>7 DEF socketVars, World
  <2> QED
    BY <2>1 DEF SockInv
<1> QED
  BY <1>1, <1>2, <1>3, <1>4, <1>5, <1>6, <1>7, <1>8 DEF Next

(* The map from a connection to its slot, the slot's job, the job's place in  *)
(* the file and what the master waits for fit each other in every state: what *)
(* accept, killWorker, the alarm, a crash and read_RMstate do never leave one *)
(* of them behind, but for the jobs of a master that died before its first    *)
(* checkpoint: those are given up by its successor, as orphans.               *)
THEOREM SocketIsSound == Spec => []SockInv
<1>1. Init => SockInv
  BY InitSettles
<1>2. SockInv /\ [Next]_socketVars => SockInv'
  BY NextKeeps
<1> QED
  BY <1>1, <1>2, PTL DEF Spec

(* When the master has ended, each of its jobs is being removed from Condor's *)
(* queue, and each of those of earlier incarnations that died after their     *)
(* first checkpoint (exit, and read_RMstate).                                 *)
THEOREM NothingLeft == Spec => []NothingIsLeft
<1>1. SockInv => NothingIsLeft
  BY WorldIs DEF SockInv, Settled, Over, NothingIsLeft, GivenUp
<1> QED
  BY <1>1, SocketIsSound, PTL

(* What comes from a descriptor is handled as from the slot whose worker sent *)
(* it, however often the descriptor was closed and given out again.           *)
THEOREM SenderIsRight == Spec => []RightSender
<1>1. ASSUME SockInv PROVE RightSender
  <2>1. CASE Sound(World)
    BY <2>1, WorldIs DEF Sound, Heard, RightSender
  <2>2. CASE Over(World)
    <3>1. DOMAIN conns = {}
      BY <2>2, WorldIs DEF Over
    <3> QED
      BY <3>1 DEF RightSender
  <2> QED
    BY <1>1, <2>1, <2>2 DEF SockInv, Settled
<1> QED
  BY <1>1, SocketIsSound, PTL

(* No task is forgotten or in two places, whichever worker is lost, comes back *)
(* or is given up, and whatever a message that was cut short is taken for.     *)
THEOREM TasksKept == Spec => []TasksAreKept
<1>1. ASSUME SockInv, Up
      PROVE  /\ Task = driver.todo \cup driver.done \cup
                         ({driver.workers[k].runningtask : k \in DOMAIN driver.workers} \ {NoTask})
             /\ driver.todo \cap driver.done = {}
  <2>1. Kept(driver) /\ World \in Worlds
    BY <1>1, UpMeans
  <2>2. driver \in DriverState
    BY <2>1, WorldIs DEF Worlds
  <2>3. ASSUME NEW k \in DOMAIN driver.workers
        PROVE  driver.workers[k].runningtask \in Task \cup {NoTask}
    <3>1. driver.workers[k] \in WorkerID
      BY <2>2 DEF DriverState
    <3> QED
      BY <3>1 DEF WorkerID
  <2>4. driver.todo \subseteq Task /\ driver.done \subseteq Task
    BY <2>2 DEF DriverState
  <2> DEFINE running == {driver.workers[k].runningtask : k \in DOMAIN driver.workers} \ {NoTask}
  <2>5. running \subseteq Task
    BY <2>3
  <2>6. ASSUME NEW t \in Task PROVE t \in driver.todo \cup driver.done \cup running
    BY <2>1, TasksAreNumbers DEF Kept, IsRunning
  <2>7. driver.todo \cap driver.done = {}
    BY <2>1, Zenon DEF Kept
  <2> HIDE DEF running
  <2>8. Task = driver.todo \cup driver.done \cup running
    BY <2>4, <2>5, <2>6, Zenon
  <2> QED
    BY <2>7, <2>8 DEF running
<1>2. SockInv => TasksAreKept
  BY <1>1 DEF TasksAreKept
<1> QED
  BY <1>2, SocketIsSound, PTL

(* The state has its type. *)
THEOREM SocketTypes == Spec => []SocketTypeOK
<1>1. ASSUME SockInv PROVE SocketTypeOK
  <2>1. /\ conns \in ConnTable /\ backlog \in Seq(Connection) /\ jobs \in Seq(Job)
    BY <1>1, SockTypes
  <2>2. /\ DOMAIN conns \subseteq Fd /\ Range(conns) \subseteq Connection
        /\ Range(backlog) \subseteq Connection /\ Range(jobs) \subseteq Job
    BY <2>1, ConnTables DEF Range
  <2>3. /\ driver \in DriverState /\ (Up => rc \in Memory)
        /\ worker_number_file \subseteq DOMAIN jobs \cup {NoJob}
    <3>1. CASE Sound(World)
      BY <3>1, WorldIs DEF Sound, Worlds, Known
    <3>2. CASE World.rc = NULL /\ Over(World)
      BY <3>2, WorldIs DEF Over, Up
    <3> QED
      BY <1>1, <3>1, <3>2 DEF SockInv, Settled
  <2>4. driver.workers \in Seq(WorkerID)
    BY <2>3 DEF DriverState
  <2>5. Range(driver.workers) \subseteq WorkerID
    BY <2>4 DEF Range
  <2> QED
    BY <2>2, <2>3, <2>5 DEF SocketTypeOK, DriverState
<1> QED
  BY <1>1, SocketIsSound, PTL

(* The driver lists a worker just for the slots with a socket, each once, and *)
(* the requests that are outstanding are the slots whose worker is awaited,   *)
(* if the workers are all asked for at once (set_hostinc caps the increment   *)
(* at the target): with fewer, a connection that is lost before its number    *)
(* came may be taken for that of a slot that has no job.                      *)
THEOREM SlotsAndAccountAgree ==
  ASSUME target_num_workers <= HOSTINC
  PROVE  Spec => []SlotsAgree
<1>1. ASSUME SockInv, Up
      PROVE  /\ \A i \in Slot :
                  Cardinality({k \in DOMAIN driver.workers : driver.workers[k].id1 = i}) =
                    (IF rc.socketWorkers[i].socket # NoFd THEN 1 ELSE 0)
             /\ rc.hostadd_reqs =
                  Cardinality({i \in Slot : rc.socketWorkers[i].state = "SUBMITTED"})
  <2>1. Agree(rc, driver.workers)
    BY <1>1, UpMeans, WorldIs DEF Accounts
  <2>2. ASSUME NEW i \in Slot
        PROVE  Cardinality({k \in DOMAIN driver.workers : driver.workers[k].id1 = i}) =
                 (IF rc.socketWorkers[i].socket # NoFd THEN 1 ELSE 0)
    <3> DEFINE L == {k \in DOMAIN driver.workers : driver.workers[k].id1 = i}
    <3>1. CASE rc.socketWorkers[i].socket # NoFd
      <4>1. PICK k \in DOMAIN driver.workers : driver.workers[k].id1 = i
        BY <2>1, <3>1 DEF Agree
      <4>2. L = {k}
        BY <2>1, <4>1 DEF Agree
      <4> QED
        BY <3>1, <4>2, FS_Singleton, Zenon
    <3>2. CASE rc.socketWorkers[i].socket = NoFd
      <4>1. L = {}
        BY <2>1, <3>2 DEF Agree
      <4> QED
        BY <3>2, <4>1, FS_EmptySet, Zenon
    <3> QED
      BY <3>1, <3>2
  <2>3. rc.hostadd_reqs = Cardinality(Awaited(rc))
    BY <2>1 DEF Agree
  <2> QED
    BY <2>2, <2>3 DEF Awaited
<1>2. ASSUME SockInv, SocketTypeOK PROVE SlotsAgree
  BY <1>1, <1>2 DEF SlotsAgree
<1> QED
  BY <1>2, SocketIsSound, SocketTypes, PTL
=============================================================================
