---------------------------- MODULE MWStatsProofs ----------------------------
(***************************************************************************)
(* Proofs about the statistics and the classes of work.  The invariant,    *)
(* Inv, says of the workers that their ids are their own and that the      *)
(* classes are counted (Crew), of the tasks that each is to do or with one *)
(* worker (Tasks, Busy), of the accounts that what is kept and what the    *)
(* workers have adds up to what was spent (Books), and of the checkpoint   *)
(* that the accounts in it add up too (Stored).  How a total changes with  *)
(* its terms is in MWSumsProofs.                                           *)
(***************************************************************************)
EXTENDS MWStats, MWSumsProofs

LEMMA Amount ==
  /\ DOMAIN Zero = {"up", "working", "bench"} /\ Zero \in Amounts
  /\ \A q \in DOMAIN Zero : Zero[q] = 0
  /\ \A a \in Amounts : \A q \in DOMAIN Zero : a[q] \in Nat
  /\ \A a, b \in Amounts : /\ Plus(a, b) \in Amounts
                           /\ \A q \in DOMAIN Zero : Plus(a, b)[q] = a[q] + b[q]
  /\ \A a, b \in Amounts : (\A q \in DOMAIN Zero : a[q] = b[q]) => a = b
<1>1. DOMAIN Zero = {"up", "working", "bench"} /\ Zero \in Amounts
      /\ \A q \in DOMAIN Zero : Zero[q] = 0
  BY DEF Zero, Amounts
<1>2. \A a \in Amounts : \A q \in DOMAIN Zero : a[q] \in Nat
  BY <1>1 DEF Amounts
<1>3. ASSUME NEW a \in Amounts, NEW b \in Amounts
      PROVE  Plus(a, b) \in Amounts /\ \A q \in DOMAIN Zero : Plus(a, b)[q] = a[q] + b[q]
  BY <1>1 DEF Plus, Amounts
<1>4. ASSUME NEW a \in Amounts, NEW b \in Amounts, \A q \in DOMAIN Zero : a[q] = b[q]
      PROVE  a = b
  BY <1>1, <1>4 DEF Amounts
<1> QED
  BY <1>1, <1>2, <1>3, <1>4

(* Workers whose time has begun, if it has, no later than now. *)
Dated == {w \in WorkerID : w.start_time =< now}

LEMMA OwnIsAmount ==
  ASSUME now \in Nat, NEW w \in Dated
  PROVE  /\ Own(w) \in Amounts
         /\ Own(w).up = IF w.start_time > 0 THEN now - w.start_time ELSE 0
         /\ Own(w).working = w.total_working /\ Own(w).bench = w.num_benchmark
BY DEF Own, Uptime, Amounts, Dated, WorkerID

LEMMA VidsAreNumbers ==
  /\ MW_MAX_WORKERS \in Nat /\ Vid \subseteq Nat
  /\ \A j \in 1 .. MW_MAX_WORKERS : j - 1 \in Vid
  /\ \A v \in Vid : v + 1 \in 1 .. MW_MAX_WORKERS /\ (v + 1) - 1 = v
  /\ IsFiniteSet(Vid) /\ Cardinality(Vid) = MW_MAX_WORKERS
<1>1. MW_MAX_WORKERS \in Nat \ {0}
  BY StatsBounds
<1>2. IsFiniteSet(Vid) /\ Cardinality(Vid) = MW_MAX_WORKERS
  BY <1>1, FS_Interval DEF Vid
<1> QED
  BY <1>1, <1>2 DEF Vid

LEMMA GatheredIs ==
  ASSUME now \in Nat, NEW s \in [Vid -> Amounts], NEW w \in Dated
  PROVE  /\ Gathered(s, w) \in [Vid -> Amounts] /\ w.virtual_id \in Vid
         /\ Gathered(s, w)[w.virtual_id] = Plus(s[w.virtual_id], Own(w))
         /\ \A v \in Vid : v # w.virtual_id => Gathered(s, w)[v] = s[v]
<1>1. w.virtual_id \in Vid
  BY DEF Dated, WorkerID
<1>2. s[w.virtual_id] \in Amounts /\ Own(w) \in Amounts
  BY <1>1, OwnIsAmount
<1>3. Plus(s[w.virtual_id], Own(w)) \in Amounts
  BY <1>2, Amount, Zenon
<1> QED
  BY <1>1, <1>3 DEF Gathered

(* The fold of the model, step by step. *)
LEMMA GatheredUnrolls ==
  ASSUME NEW s \in [Vid -> Amounts], NEW W \in Seq(Dated), now \in Nat
  PROVE  \E u \in [0 .. Len(W) -> [Vid -> Amounts]] :
           /\ u[0] = s /\ FoldLeft(Gathered, s, W) = u[Len(W)]
           /\ \A k \in 1 .. Len(W) : u[k] = Gathered(u[k - 1], W[k])
<1> DEFINE T == [Vid -> Amounts]
           G == [p \in T \X Dated |-> Gathered(p[1], p[2])]
           D == SUBSET (1 .. Len(W))
           Fold(f) == [x \in D |-> IF x = {} THEN s ELSE Gathered(f[x \ {Max(x)}], W[Max(x)])]
           it == CHOOSE f : f = Fold(f)
<1>1. G \in [T \X Dated -> T]
  BY GatheredIs
<1>2. \A a \in T, w \in Dated : G[<<a, w>>] = Gathered(a, w)
  OBVIOUS
<1> HIDE DEF G
<1>3. ASSUME NEW x \in D, x # {} PROVE x \ {Max(x)} \in D /\ W[Max(x)] \in Dated
  <2>1. x \in SUBSET (1 .. Len(W)) /\ Len(W) \in Nat
    OBVIOUS
  <2>2. Max(x) \in x
    BY <1>3, <2>1, MaxUpTo, Zenon
  <2>3. Max(x) \in 1 .. Len(W)
    BY <2>1, <2>2
  <2>4. W[Max(x)] \in Dated
    BY <2>3
  <2>5. x \ {Max(x)} \in D
    BY <2>1, Zenon
  <2> QED
    BY <2>4, <2>5
<1>4. PICK f \in [D -> T] : Folds(f, G, s, W, Len(W))
  BY <1>1, FoldExists
<1>13. s \in T
  OBVIOUS
<1> HIDE DEF T
<1>5. f = Fold(f)
  <2>1. \A x \in D : f[x] = IF x = {} THEN s ELSE Gathered(f[x \ {Max(x)}], W[Max(x)])
    BY <1>2, <1>3, <1>4 DEF Folds
  <2>2. f = [x \in D |-> f[x]]
    BY <1>4
  <2> QED
    BY <2>1, <2>2, Zenon
<1> HIDE DEF D
<1>6. it = Fold(it)
  BY <1>5, Zenon
<1> HIDE DEF it
<1>7. \A x \in D : it[x] = IF x = {} THEN s ELSE Gathered(it[x \ {Max(x)}], W[Max(x)])
  BY <1>6, Zenon
<1>8. \A x \in SUBSET (1 .. Len(W)) : it[x] \in T
  <2>1. {} \in D
    BY DEF D
  <2>2. it[{}] \in T
    BY <2>1, <1>7 DEF T
  <2>3. ASSUME NEW x \in D, x # {}, it[x \ {Max(x)}] \in T PROVE it[x] \in T
    <3>1. G[<<it[x \ {Max(x)}], W[Max(x)]>>] \in T
      BY <1>1, <1>3, <2>3
    <3> QED
      BY <1>2, <1>3, <1>7, <2>3, <3>1
  <2>4. Len(W) \in Nat
    OBVIOUS
  <2> QED
    BY <2>2, <2>3, <2>4, FoldIsTyped DEF D
<1>9. Folds(it, G, s, W, Len(W))
  BY <1>2, <1>3, <1>7, <1>8 DEF Folds, D
<1>14. it \in [SUBSET (1 .. Len(W)) -> T]
  <2>1. it = [x \in D |-> it[x]]
    BY <1>6
  <2> QED
    BY <2>1, <1>8 DEF D
<1> HIDE DEF Fold
<1>10. PICK u \in [0 .. Len(W) -> T] :
         Unrolled(u, G, s, W) /\ it[1 .. Len(W)] = u[Len(W)]
  <2>1. FoldsTo(T, G, s, W, it[1 .. Len(W)])
    BY <1>1, <1>9, <1>13, <1>14, FoldUnrolls, Zenon
  <2> QED
    BY <2>1, Zenon DEF FoldsTo
<1>11. FoldLeft(Gathered, s, W) = it[1 .. Len(W)]
  <2>1. DOMAIN W = 1 .. Len(W)
    OBVIOUS
  <2> QED
    BY <2>1 DEF FoldLeft, MapThenFoldSet, it, D, Fold
<1>12. ASSUME NEW k \in 1 .. Len(W) PROVE u[k] = Gathered(u[k - 1], W[k])
  <2>1. u[k - 1] \in T /\ W[k] \in Dated
    BY <1>10
  <2>2. u[k] = G[<<u[k - 1], W[k]>>]
    BY <1>10, Zenon DEF Unrolled
  <2> QED
    BY <1>2, <2>1, <2>2
<1> QED
  BY <1>10, <1>11, <1>12 DEF Unrolled, T

(* What is gathered of an id, and what the workers of W have not handed over. *)
IdTerms(s, q) == [j \in 1 .. MW_MAX_WORKERS |-> s[j - 1][q]]
OwnTerms(W, q) == [k \in DOMAIN W |-> Own(W[k])[q]]

LEMMA IdTermsType ==
  ASSUME NEW s \in [Vid -> Amounts], NEW q \in DOMAIN Zero
  PROVE  /\ IdTerms(s, q) \in [1 .. MW_MAX_WORKERS -> Int]
         /\ Total(IdTerms(s, q)) \in Int
<1>1. \A j \in 1 .. MW_MAX_WORKERS : s[j - 1][q] \in Nat
  BY VidsAreNumbers, Amount
<1>2. IdTerms(s, q) \in [1 .. MW_MAX_WORKERS -> Int]
  BY <1>1 DEF IdTerms
<1> QED
  BY <1>2, VidsAreNumbers, TotalType, Zenon

LEMMA OwnTermsType ==
  ASSUME now \in Nat, NEW W \in Seq(Dated), NEW q \in DOMAIN Zero
  PROVE  /\ OwnTerms(W, q) \in [1 .. Len(W) -> Int] /\ Len(W) \in Nat
         /\ Total(OwnTerms(W, q)) \in Int
<1>1. \A k \in 1 .. Len(W) : W[k] \in Dated
  OBVIOUS
<1>2. \A k \in 1 .. Len(W) : Own(W[k])[q] \in Nat
  BY <1>1, OwnIsAmount, Amount
<1>3. OwnTerms(W, q) \in [1 .. Len(W) -> Int] /\ Len(W) \in Nat
  BY <1>2 DEF OwnTerms
<1> QED
  BY <1>3, TotalType, Zenon

LEMMA GatheringBooks ==
  ASSUME now \in Nat, NEW s \in [Vid -> Amounts], NEW w \in Dated, NEW q \in DOMAIN Zero
  PROVE  Total(IdTerms(Gathered(s, w), q)) = Total(IdTerms(s, q)) + Own(w)[q]
<1> DEFINE g == Gathered(s, w)
           k == w.virtual_id + 1
<1>1. /\ g \in [Vid -> Amounts] /\ w.virtual_id \in Vid
      /\ g[w.virtual_id] = Plus(s[w.virtual_id], Own(w))
      /\ \A v \in Vid : v # w.virtual_id => g[v] = s[v]
  BY GatheredIs, Zenon
<1> HIDE DEF g
<1>2. k \in 1 .. MW_MAX_WORKERS /\ k - 1 = w.virtual_id
  BY <1>1, VidsAreNumbers
<1>3. \A j \in 1 .. MW_MAX_WORKERS : j # k => g[j - 1] = s[j - 1]
  BY <1>1, <1>2, VidsAreNumbers
<1>4. IdTerms(g, q) \in [1 .. MW_MAX_WORKERS -> Int]
      /\ IdTerms(s, q) \in [1 .. MW_MAX_WORKERS -> Int]
      /\ Total(IdTerms(s, q)) \in Int
  BY <1>1, IdTermsType
<1>5. \A j \in 1 .. MW_MAX_WORKERS : j # k => IdTerms(g, q)[j] = IdTerms(s, q)[j]
  BY <1>3 DEF IdTerms
<1>6. IdTerms(g, q)[k] = Plus(s[w.virtual_id], Own(w))[q] /\ IdTerms(s, q)[k] = s[w.virtual_id][q]
  BY <1>1, <1>2 DEF IdTerms
<1>7. s[w.virtual_id] \in Amounts /\ Own(w) \in Amounts
  BY <1>1, OwnIsAmount
<1>8. s[w.virtual_id][q] \in Nat /\ Own(w)[q] \in Nat
      /\ Plus(s[w.virtual_id], Own(w))[q] = s[w.virtual_id][q] + Own(w)[q]
  BY <1>7, Amount, Zenon
<1> HIDE DEF k
<1>9. Total(IdTerms(g, q)) = Total(IdTerms(s, q)) + (IdTerms(g, q)[k] - IdTerms(s, q)[k])
  <2> DEFINE a == IdTerms(s, q)
             b == IdTerms(g, q)
             n == MW_MAX_WORKERS
  <2>1. /\ n \in Nat /\ a \in [1 .. n -> Int] /\ b \in [1 .. n -> Int] /\ k \in 1 .. n
        /\ \A j \in 1 .. n : j # k => b[j] = a[j]
    BY <1>2, <1>4, <1>5, VidsAreNumbers
  <2> HIDE DEF a, b, n
  <2>2. Total(b) = Total(a) + (b[k] - a[k])
    BY <2>1, TotalChanged
  <2> QED
    BY <2>2 DEF a, b
<1>10. Total(IdTerms(g, q)) = Total(IdTerms(s, q)) + Own(w)[q]
  BY <1>4, <1>6, <1>8, <1>9
<1> QED
  BY <1>10 DEF g

(* An account without any uptime has nothing else, either. *)
Lean(a) == a.up = 0 => a = Zero

LEMMA PlusIsLean ==
  ASSUME NEW a \in Amounts, NEW b \in Amounts, Lean(a), Lean(b)
  PROVE  Lean(Plus(a, b))
BY DEF Lean, Amounts, Plus, Zero

LEMMA GatheredAll ==
  ASSUME now \in Nat, NEW s \in [Vid -> Amounts], NEW W \in Seq(Dated)
  PROVE  /\ FoldLeft(Gathered, s, W) \in [Vid -> Amounts]
         /\ \A q \in DOMAIN Zero :
              Total(IdTerms(FoldLeft(Gathered, s, W), q)) =
              Total(IdTerms(s, q)) + Total(OwnTerms(W, q))
         /\ \A v \in Vid : (\A k \in DOMAIN W : W[k].virtual_id # v) =>
              FoldLeft(Gathered, s, W)[v] = s[v]
         /\ (\A v \in Vid : Lean(s[v])) /\ (\A k \in DOMAIN W : Lean(Own(W[k]))) =>
              \A v \in Vid : Lean(FoldLeft(Gathered, s, W)[v])
<1> DEFINE all == FoldLeft(Gathered, s, W)
           n == Len(W)
<1>1. PICK u \in [0 .. n -> [Vid -> Amounts]] :
           /\ u[0] = s /\ all = u[n]
           /\ \A k \in 1 .. n : u[k] = Gathered(u[k - 1], W[k])
  BY GatheredUnrolls
<1>2. n \in Nat /\ n \in 0 .. n /\ DOMAIN W = 1 .. n /\ \A k \in 1 .. n : W[k] \in Dated
  OBVIOUS
<1> HIDE DEF all, n
<1>3. ASSUME NEW k \in 0 .. n - 1
      PROVE  /\ k + 1 \in 1 .. n /\ k + 1 \in 0 .. n /\ k \in 0 .. n /\ u[k] \in [Vid -> Amounts]
             /\ W[k + 1] \in Dated /\ u[k + 1] = Gathered(u[k], W[k + 1])
  <2>1. k + 1 \in 1 .. n /\ k + 1 \in 0 .. n /\ k \in 0 .. n /\ (k + 1) - 1 = k
    BY <1>2
  <2> QED
    BY <2>1, <1>1, <1>2
<1>4. all \in [Vid -> Amounts]
  BY <1>1, <1>2
<1>5. ASSUME NEW q \in DOMAIN Zero
      PROVE  Total(IdTerms(all, q)) = Total(IdTerms(s, q)) + Total(OwnTerms(W, q))
  <2>1. OwnTerms(W, q) \in [1 .. n -> Int]
    BY OwnTermsType, <1>2 DEF n
  <2>2. PICK v \in [0 .. n -> Int] : Sums(v, OwnTerms(W, q), n) /\ Total(OwnTerms(W, q)) = v[n]
    BY <2>1, <1>2, TotalSums, Zenon
  <2> DEFINE N == {k \in 0 .. n : Total(IdTerms(u[k], q)) = Total(IdTerms(s, q)) + v[k]}
  <2>3. Total(IdTerms(s, q)) \in Int
    BY IdTermsType
  <2>4. 0 \in N
    <3>1. 0 \in 0 .. n /\ v[0] = 0 /\ u[0] = s
      BY <1>1, <1>2, <2>2 DEF Sums
    <3> QED
      BY <2>3, <3>1
  <2>5. ASSUME NEW k \in 0 .. n - 1, k \in N PROVE k + 1 \in N
    <3> DEFINE x == Own(W[k + 1])[q]
               a == Total(IdTerms(u[k], q))
               b == Total(IdTerms(u[k + 1], q))
               c == Total(IdTerms(s, q))
    <3>1. b = a + x
      <4>1. Total(IdTerms(Gathered(u[k], W[k + 1]), q)) = Total(IdTerms(u[k], q)) + Own(W[k + 1])[q]
        BY <1>3, GatheringBooks
      <4> QED
        BY <4>1, <1>3, Zenon
    <3>2. v[k + 1] = v[k] + x
      <4>1. k + 1 \in 1 .. n /\ (k + 1) - 1 = k
        BY <1>3
      <4>2. OwnTerms(W, q)[k + 1] = x
        BY <4>1, <1>2 DEF OwnTerms
      <4> QED
        BY <4>1, <4>2, <2>2 DEF Sums
    <3>3. a = c + v[k]
      BY <2>5
    <3>4. c \in Int /\ v[k] \in Int /\ k + 1 \in 0 .. n
      BY <2>3, <1>3
    <3>5. x \in Int
      <4>1. k + 1 \in 1 .. n /\ OwnTerms(W, q)[k + 1] \in Int
        BY <1>3, <2>1
      <4> QED
        BY <4>1, <1>2 DEF OwnTerms
    <3> HIDE DEF x, a, b, c, N
    <3>6. b = c + v[k + 1]
      BY <3>1, <3>2, <3>3, <3>4, <3>5
    <3> QED
      BY <3>4, <3>6, Zenon DEF N, b, c
  <2> HIDE DEF N
  <2>6. n \in N
    BY <1>2, <2>4, <2>5, UpTo
  <2> QED
    BY <2>6, <2>2, <1>1, Zenon DEF N
<1>6. ASSUME NEW v \in Vid, \A k \in DOMAIN W : W[k].virtual_id # v PROVE all[v] = s[v]
  <2> DEFINE N == {k \in 0 .. n : u[k][v] = s[v]}
  <2>1. 0 \in N
    BY <1>1, <1>2
  <2>2. ASSUME NEW k \in 0 .. n - 1, k \in N PROVE k + 1 \in N
    <3>1. W[k + 1].virtual_id # v /\ u[k][v] = s[v]
      BY <1>2, <1>3, <1>6, <2>2
    <3>2. u[k + 1][v] = u[k][v]
      BY <1>3, <3>1, GatheredIs
    <3> QED
      BY <1>3, <3>1, <3>2
  <2> HIDE DEF N
  <2>3. n \in N
    BY <1>2, <2>1, <2>2, UpTo
  <2> QED
    BY <2>3, <1>1, Zenon DEF N
<1>7. ASSUME \A v \in Vid : Lean(s[v]), \A k \in DOMAIN W : Lean(Own(W[k])), NEW v \in Vid
      PROVE  Lean(all[v])
  <2> DEFINE N == {k \in 0 .. n : Lean(u[k][v])}
  <2>1. 0 \in N
    BY <1>1, <1>2, <1>7
  <2>2. ASSUME NEW k \in 0 .. n - 1, k \in N PROVE k + 1 \in N
    <3> DEFINE w == W[k + 1]
    <3>1. w \in Dated /\ Lean(Own(w)) /\ u[k][v] \in Amounts /\ Lean(u[k][v])
      BY <1>2, <1>3, <1>7, <2>2
    <3>2. Own(w) \in Amounts
      BY <3>1, OwnIsAmount
    <3>3. u[k + 1][v] = IF v = w.virtual_id THEN Plus(u[k][v], Own(w)) ELSE u[k][v]
      BY <1>3, GatheredIs
    <3> HIDE DEF w, N
    <3>4. Lean(Plus(u[k][v], Own(w)))
      BY <3>1, <3>2, PlusIsLean
    <3>5. Lean(u[k + 1][v])
      BY <3>1, <3>3, <3>4
    <3> QED
      BY <1>3, <3>5 DEF N
  <2> HIDE DEF N
  <2>3. n \in N
    BY <1>2, <2>1, <2>2, UpTo
  <2> QED
    BY <2>3, <1>1, Zenon DEF N
<1> QED
  BY <1>4, <1>5, <1>6, <1>7 DEF all

-----------------------------------------------------------------------------
(* The invariant, as predicates on the parts of the state. *)

(* A worker's time begins with its benchmark; before, it has nothing to show. *)
WorkerOK(w, tm) ==
  /\ w.start_time =< tm
  /\ w.start_time = 0 <=> (w.state = "INITIALIZING" \/ w.isBenchMark)
  /\ w.start_time = 0 => w.total_working = 0 /\ w.num_benchmark = 0 /\ w.runningtask = NoTask
  /\ w.state = "IDLE" => ~w.isBenchMark /\ w.runningtask = NoTask
  /\ w.state = "BENCHMARKING" => w.isBenchMark

(* Own, at the time tm. *)
AmountAt(w, tm) ==
  [up |-> IF w.start_time > 0 THEN tm - w.start_time ELSE 0,
   working |-> w.total_working, bench |-> w.num_benchmark]
TermsAt(W, tm, q) == [k \in DOMAIN W |-> AmountAt(W[k], tm)[q]]

(* What is booked adds up to a. *)
Books(W, s, a, tm) ==
  /\ s \in [Vid -> Amounts] /\ \A v \in Vid : Lean(s[v])
  /\ a \in Amounts
  /\ \A k \in DOMAIN W : WorkerOK(W[k], tm)
  /\ \A q \in DOMAIN Zero : a[q] = Total(IdTerms(s, q)) + Total(TermsAt(W, tm, q))

(* The list, the ids and the classes of the workers. *)
Members(W, c) == {k \in DOMAIN W : c \in W[k].group}
Crew(W, V, count) ==
  /\ V = {W[k].virtual_id : k \in DOMAIN W}
  /\ \A j, k \in DOMAIN W : W[j].virtual_id = W[k].virtual_id => j = k
  /\ count = [c \in MWworkClasses |-> Cardinality(Members(W, c))]

(* The tasks, n of them so far: each is to do or with one worker. *)
Tasks(g, t, n) ==
  /\ g \in [DOMAIN g -> SUBSET MWworkClasses] /\ DOMAIN g \subseteq 1 .. n
  /\ t \in Seq(DOMAIN g) /\ IsInjective(t)
Busy(W, g, t) ==
  /\ \A k \in DOMAIN W : W[k].runningtask # NoTask =>
       /\ W[k].runningtask \in DOMAIN g /\ W[k].runningtask \notin Range(t)
       /\ W[k].group \cap g[W[k].runningtask] # {}
  /\ \A j, k \in DOMAIN W :
       W[j].runningtask = W[k].runningtask /\ W[j].runningtask # NoTask => j = k
TaskCounts(g) == [c \in MWworkClasses |-> Cardinality({n \in DOMAIN g : c \in g[n]})]

(* What a restart reads. *)
Stored(sv, n) ==
  /\ sv.stats \in [Vid -> Amounts] /\ \A v \in Vid : Lean(sv.stats[v])
  /\ sv.spent \in Amounts
  /\ \A q \in DOMAIN Zero : sv.spent[q] = Total(IdTerms(sv.stats, q))
  /\ Tasks(sv.groups, sv.todo, n)

Inv ==
  /\ now \in Nat \ {0} /\ crashes \in Nat /\ number \in 0 .. MaxTasks
  /\ workers \in Seq(WorkerID)
  /\ Crew(workers, vids, MWworkClassWorkers)
  /\ Tasks(groups, todo, number)
  /\ Busy(workers, groups, todo)
  /\ crashes = 0 => MWworkClassTasks = TaskCounts(groups)
  /\ stats \in [Vid -> Amounts] /\ spent \in Amounts
  /\ IF Running THEN Books(workers, stats, spent, now)
                ELSE printed = spent /\ \A k \in DOMAIN workers : workers[k].start_time =< now
  /\ saved = NULL \/ Stored(saved, number)

-----------------------------------------------------------------------------
(* The workers' classes are counted. *)

LEMMA MembersCount ==
  ASSUME NEW W \in Seq(WorkerID), NEW c
  PROVE  IsFiniteSet(Members(W, c)) /\ Cardinality(Members(W, c)) \in Nat
<1>1. Len(W) \in Nat /\ DOMAIN W = 1 .. Len(W)
  OBVIOUS
<1>2. IsFiniteSet(DOMAIN W)
  BY <1>1, FS_Interval
<1>3. Members(W, c) \in SUBSET (DOMAIN W)
  BY DEF Members
<1> QED
  BY <1>2, <1>3, FS_Subset, FS_CardinalityType

LEMMA AddedCrew ==
  ASSUME NEW W \in Seq(WorkerID), NEW C, NEW count, Crew(W, C, count),
         NEW w \in WorkerID, w.virtual_id \notin C
  PROVE  Crew(Append(W, w), C \cup {w.virtual_id}, Counted(count, w.group, 1))
<1> DEFINE V == Append(W, w)
           n == Len(W) + 1
<1>1. /\ DOMAIN V = DOMAIN W \cup {n} /\ \A j \in DOMAIN W : j # n /\ V[j] = W[j]
      /\ V[n] = w
  BY AppendedTo
<1> HIDE DEF V, n
<1>2. C \cup {w.virtual_id} = {V[k].virtual_id : k \in DOMAIN V}
  BY <1>1 DEF Crew
<1>3. \A j, k \in DOMAIN V : V[j].virtual_id = V[k].virtual_id => j = k
  BY <1>1 DEF Crew
<1>4. ASSUME NEW c \in MWworkClasses
      PROVE  Cardinality(Members(V, c))
               = Cardinality(Members(W, c)) + IF c \in w.group THEN 1 ELSE 0
  <2>1. Members(V, c) = IF c \in w.group THEN Members(W, c) \cup {n} ELSE Members(W, c)
    BY <1>1 DEF Members
  <2>2. n \notin Members(W, c)
    BY <1>1 DEF Members
  <2>3. IsFiniteSet(Members(W, c)) /\ Cardinality(Members(W, c)) \in Nat
    BY MembersCount
  <2>4. Cardinality(Members(W, c) \cup {n}) = Cardinality(Members(W, c)) + 1
    BY <2>2, <2>3, FS_AddElement
  <2> QED
    BY <2>1, <2>3, <2>4
<1>5. Counted(count, w.group, 1) = [c \in MWworkClasses |-> Cardinality(Members(V, c))]
  <2>1. \A c \in MWworkClasses : count[c] = Cardinality(Members(W, c))
    BY DEF Crew
  <2>2. \A c \in MWworkClasses :
          count[c] + (IF c \in w.group THEN 1 ELSE 0) = Cardinality(Members(V, c))
    BY <1>4, <2>1
  <2> QED
    BY <2>2, Zenon DEF Counted
<1> QED
  BY <1>2, <1>3, <1>5 DEF Crew, V

LEMMA SetCrew ==
  ASSUME NEW W \in Seq(WorkerID), NEW C, NEW count, Crew(W, C, count), NEW k \in DOMAIN W,
         NEW w \in WorkerID, w.virtual_id = W[k].virtual_id
  PROVE  /\ w.group = W[k].group => Crew([W EXCEPT ![k] = w], C, count)
         /\ \A G : G \cap W[k].group = {} /\ w.group = W[k].group \cup G =>
              Crew([W EXCEPT ![k] = w], C, Counted(count, G, 1))
<1> DEFINE V == [W EXCEPT ![k] = w]
<1>1. DOMAIN V = DOMAIN W /\ V[k] = w /\ \A j \in DOMAIN W : j # k => V[j] = W[j]
  BY ReplacedIn
<1> HIDE DEF V
<1>2. \A j \in DOMAIN W : V[j].virtual_id = W[j].virtual_id
  BY <1>1
<1>3. /\ C = {V[j].virtual_id : j \in DOMAIN V}
      /\ \A i, j \in DOMAIN V : V[i].virtual_id = V[j].virtual_id => i = j
  BY <1>1, <1>2 DEF Crew
<1>4. count = [c \in MWworkClasses |-> Cardinality(Members(W, c))]
  BY DEF Crew
<1>5. ASSUME w.group = W[k].group PROVE Crew(V, C, count)
  <2>1. \A c \in MWworkClasses : Members(V, c) = Members(W, c)
    BY <1>1, <1>5 DEF Members
  <2> QED
    BY <2>1, <1>3, <1>4 DEF Crew
<1>6. ASSUME NEW G, G \cap W[k].group = {}, w.group = W[k].group \cup G
      PROVE  Crew(V, C, Counted(count, G, 1))
  <2>1. ASSUME NEW c \in MWworkClasses
        PROVE  Cardinality(Members(V, c)) = Cardinality(Members(W, c)) + IF c \in G THEN 1 ELSE 0
    <3>1. Members(V, c) = IF c \in G THEN Members(W, c) \cup {k} ELSE Members(W, c)
      BY <1>1, <1>6 DEF Members
    <3>2. c \in G => k \notin Members(W, c)
      BY <1>6 DEF Members
    <3>3. IsFiniteSet(Members(W, c)) /\ Cardinality(Members(W, c)) \in Nat
      BY MembersCount
    <3>4. c \in G => Cardinality(Members(W, c) \cup {k}) = Cardinality(Members(W, c)) + 1
      BY <3>2, <3>3, FS_AddElement
    <3> QED
      BY <3>1, <3>3, <3>4
  <2>2. Counted(count, G, 1) = [c \in MWworkClasses |-> Cardinality(Members(V, c))]
    <3>1. \A c \in MWworkClasses :
            count[c] + (IF c \in G THEN 1 ELSE 0) = Cardinality(Members(V, c))
      BY <1>4, <2>1
    <3> QED
      BY <3>1, Zenon DEF Counted
  <2> QED
    BY <1>3, <2>2 DEF Crew
<1> QED
  BY <1>5, <1>6 DEF V

LEMMA RemovedCrew ==
  ASSUME NEW W \in Seq(WorkerID), NEW C, NEW count, Crew(W, C, count), NEW k \in DOMAIN W
  PROVE  Crew(RemoveAt(W, k), C \ {W[k].virtual_id}, Counted(count, W[k].group, -1))
<1> DEFINE V == RemoveAt(W, k)
<1>1. /\ V \in Seq(WorkerID) /\ Len(W) \in Nat /\ k \in 1 .. Len(W)
      /\ \A n \in DOMAIN V : At(n, k) \in DOMAIN W /\ At(n, k) # k /\ V[n] = W[At(n, k)]
      /\ \A m, n \in DOMAIN V : At(m, k) = At(n, k) => m = n
      /\ \A j \in DOMAIN W : j # k => \E n \in DOMAIN V : At(n, k) = j
  BY RemovedFrom
<1>2. /\ DOMAIN V = 1 .. Len(W) - 1
      /\ \A n \in 1 .. Len(W) - 1 : V[n] = IF n < k THEN W[n] ELSE W[n + 1]
  BY RemovedAt
<1> HIDE DEF V
<1>3. C \ {W[k].virtual_id} = {V[n].virtual_id : n \in DOMAIN V}
  <2>1. \A j \in DOMAIN W : j # k => W[j].virtual_id # W[k].virtual_id
    BY DEF Crew
  <2>2. C = {W[j].virtual_id : j \in DOMAIN W}
    BY DEF Crew
  <2>3. ASSUME NEW v \in C \ {W[k].virtual_id} PROVE v \in {V[n].virtual_id : n \in DOMAIN V}
    <3>1. PICK j \in DOMAIN W : v = W[j].virtual_id
      BY <2>2
    <3>2. PICK n \in DOMAIN V : At(n, k) = j
      BY <1>1, <3>1
    <3> QED
      BY <1>1, <3>1, <3>2
  <2>4. ASSUME NEW n \in DOMAIN V PROVE V[n].virtual_id \in C \ {W[k].virtual_id}
    BY <1>1, <2>1, <2>2
  <2> QED
    BY <2>3, <2>4
<1>4. \A m, n \in DOMAIN V : V[m].virtual_id = V[n].virtual_id => m = n
  BY <1>1, Zenon DEF Crew
<1>5. ASSUME NEW c \in MWworkClasses
      PROVE  Cardinality(Members(V, c))
               = Cardinality(Members(W, c)) + IF c \in W[k].group THEN -1 ELSE 0
  <2> DEFINE n == Len(W) - 1
             z == [j \in 1 .. n + 1 |-> 0]
             y == [j \in 1 .. n |-> 0]
             s == [j \in 1 .. n + 1 |-> IF j \in Members(W, c) THEN 1 ELSE 0]
             t == [j \in 1 .. n |-> IF j \in Members(V, c) THEN 1 ELSE 0]
  <2>1. n \in Nat /\ n + 1 \in Nat /\ k \in 1 .. n + 1 /\ DOMAIN W = 1 .. n + 1 /\ DOMAIN V = 1 .. n
    BY <1>1, <1>2
  <2> HIDE DEF n
  <2>2. /\ z \in [1 .. n + 1 -> Int] /\ s \in [1 .. n + 1 -> Int]
        /\ \A j \in 1 .. n + 1 : z[j] = 0
        /\ Marked(z, s, Members(W, c), n + 1)
    BY DEF Marked
  <2>3. /\ y \in [1 .. n -> Int] /\ t \in [1 .. n -> Int]
        /\ \A j \in 1 .. n : y[j] = 0
        /\ Marked(y, t, Members(V, c), n)
    BY DEF Marked
  <2>4. \A j \in 1 .. n : t[j] = IF j < k THEN s[j] ELSE s[j + 1]
    <3>1. ASSUME NEW j \in 1 .. n
          PROVE  t[j] = IF At(j, k) \in Members(W, c) THEN 1 ELSE 0
      <4>1. At(j, k) \in DOMAIN W /\ V[j] = W[At(j, k)]
        BY <1>1, <2>1
      <4>2. j \in Members(V, c) <=> At(j, k) \in Members(W, c)
        BY <4>1, <2>1 DEF Members
      <4> QED
        BY <4>2
    <3>2. \A j \in 1 .. n : j \in 1 .. n + 1 /\ j + 1 \in 1 .. n + 1
      BY <2>1
    <3> QED
      BY <3>1, <3>2 DEF At
  <2>5. s[k] = IF c \in W[k].group THEN 1 ELSE 0
    BY <2>1 DEF Members
  <2>6. Members(W, c) \in SUBSET (1 .. n + 1) /\ Members(V, c) \in SUBSET (1 .. n)
    BY <2>1 DEF Members
  <2> HIDE DEF z, y, s, t
  <2>7. Total(z) = 0
    BY <2>1, <2>2, TotalNone, Zenon
  <2>8. Total(y) = 0
    BY <2>1, <2>3, TotalNone, Zenon
  <2>9. Total(s) = Total(z) + Cardinality(Members(W, c)) /\ Cardinality(Members(W, c)) \in Nat
    BY <2>1, <2>2, <2>6, TotalMarked, Zenon
  <2>10. Total(t) = Total(y) + Cardinality(Members(V, c)) /\ Cardinality(Members(V, c)) \in Nat
    BY <2>1, <2>3, <2>6, TotalMarked, Zenon
  <2>11. Total(t) = Total(s) - s[k]
    BY <2>1, <2>2, <2>3, <2>4, TotalRemoved, Zenon
  <2> QED
    BY <2>5, <2>7, <2>8, <2>9, <2>10, <2>11
<1>6. Counted(count, W[k].group, -1) = [c \in MWworkClasses |-> Cardinality(Members(V, c))]
  <2>1. \A c \in MWworkClasses : count[c] = Cardinality(Members(W, c))
    BY DEF Crew
  <2>2. \A c \in MWworkClasses :
          count[c] + (IF c \in W[k].group THEN -1 ELSE 0) = Cardinality(Members(V, c))
    BY <1>5, <2>1
  <2> QED
    BY <2>2, Zenon DEF Counted
<1> QED
  BY <1>3, <1>4, <1>6 DEF Crew, V

(* The workers of R leave their classes for those of G. *)
LEMMA RefreshedCrew ==
  ASSUME NEW W \in Seq(WorkerID), NEW C, NEW count, Crew(W, C, count),
         NEW R \in SUBSET (DOMAIN W), NEW G, NEW V, DOMAIN V = DOMAIN W,
         \A j \in DOMAIN W : /\ V[j].virtual_id = W[j].virtual_id
                             /\ V[j].group = IF j \in R THEN G ELSE W[j].group
  PROVE  Crew(V, C, Recounted(count, W, R, G))
<1>1. /\ C = {V[j].virtual_id : j \in DOMAIN V}
      /\ \A i, j \in DOMAIN V : V[i].virtual_id = V[j].virtual_id => i = j
  BY DEF Crew
<1>2. ASSUME NEW c \in MWworkClasses
      PROVE  Cardinality(Members(V, c)) =
               Cardinality(Members(W, c)) - Cardinality({j \in R : c \in W[j].group})
                 + IF c \in G THEN Cardinality(R) ELSE 0
  <2> DEFINE M == Members(W, c)
             L == {j \in R : c \in W[j].group}
             K == M \ R
  <2>1. IsFiniteSet(M) /\ Cardinality(M) \in Nat
    BY MembersCount
  <2>2. IsFiniteSet(R)
    <3>1. Len(W) \in Nat /\ DOMAIN W = 1 .. Len(W)
      OBVIOUS
    <3>2. IsFiniteSet(DOMAIN W)
      BY <3>1, FS_Interval
    <3> QED
      BY <3>2, FS_Subset
  <2>3. M \cap R = L /\ K \cap R = {}
    BY DEF Members
  <2>4. Members(V, c) = IF c \in G THEN K \cup R ELSE K
    BY DEF Members
  <2> HIDE DEF M, L
  <2>5. IsFiniteSet(K) /\ Cardinality(K) = Cardinality(M) - Cardinality(L)
    BY <2>1, <2>3, FS_Difference
  <2>6. Cardinality(R) \in Nat /\ Cardinality(K) \in Nat
    BY <2>2, <2>5, FS_CardinalityType
  <2>7. Cardinality(K \cup R) = Cardinality(K) + Cardinality(R) - Cardinality(K \cap R)
    <3> HIDE DEF K
    <3> QED
      BY <2>2, <2>5, FS_Union
  <2>8. Cardinality(K \cap R) = 0
    BY <2>3, FS_EmptySet
  <2>9. Cardinality(L) \in Nat
    <3>1. L \in SUBSET R
      BY DEF L
    <3>2. IsFiniteSet(L)
      BY <3>1, <2>2, FS_Subset
    <3> QED
      BY <3>2, FS_CardinalityType
  <2> HIDE DEF K
  <2>10. Cardinality(Members(V, c))
         = Cardinality(M) - Cardinality(L) + IF c \in G THEN Cardinality(R) ELSE 0
    <3>1. CASE c \in G
      BY <3>1, <2>1, <2>4, <2>5, <2>6, <2>7, <2>8, <2>9
    <3>2. CASE c \notin G
      BY <3>2, <2>1, <2>4, <2>5, <2>6, <2>9
    <3> QED
      BY <3>1, <3>2
  <2> QED
    BY <2>10, Zenon DEF M, L
<1>3. Recounted(count, W, R, G) = [c \in MWworkClasses |-> Cardinality(Members(V, c))]
  <2>1. \A c \in MWworkClasses : count[c] = Cardinality(Members(W, c))
    BY DEF Crew
  <2>2. \A c \in MWworkClasses :
          count[c] - Cardinality({j \in R : c \in W[j].group})
            + (IF c \in G THEN Cardinality(R) ELSE 0) = Cardinality(Members(V, c))
    BY <1>2, <2>1
  <2> QED
    BY <2>2, Zenon DEF Recounted
<1> QED
  BY <1>1, <1>3 DEF Crew

(* There are as many ids in use as workers. *)
LEMMA CrewCount ==
  ASSUME NEW W \in Seq(WorkerID), NEW C, NEW count, Crew(W, C, count)
  PROVE  C \subseteq Vid /\ IsFiniteSet(C) /\ Cardinality(C) = Len(W) /\ Len(W) \in Nat
<1>1. Len(W) \in Nat /\ DOMAIN W = 1 .. Len(W)
  OBVIOUS
<1>2. ASSUME NEW k \in DOMAIN W PROVE W[k].virtual_id \in Vid
  <2>1. W[k] \in WorkerID
    OBVIOUS
  <2> QED
    BY <2>1 DEF WorkerID
<1> DEFINE f == [k \in 1 .. Len(W) |-> W[k].virtual_id]
<1>3. f \in Bijection(1 .. Len(W), C)
  BY <1>1 DEF Crew, Bijection, Injection, Surjection, IsInjective
<1>4. IsFiniteSet(1 .. Len(W)) /\ Cardinality(1 .. Len(W)) = Len(W)
  BY <1>1, FS_Interval
<1>5. ExistsBijection(1 .. Len(W), C)
  BY <1>3 DEF ExistsBijection
<1>6. IsFiniteSet(C) /\ Cardinality(C) = Len(W)
  BY <1>4, <1>5, FS_Bijection
<1> QED
  BY <1>1, <1>2, <1>6 DEF Crew

-----------------------------------------------------------------------------
(* The tasks. *)

(* What the workers of V do was done by workers of W. *)
LEMMA BusyStill ==
  ASSUME NEW W, NEW g, NEW t, Busy(W, g, t), NEW V, NEW h \in [DOMAIN V -> DOMAIN W],
         \A k \in DOMAIN V : V[k].runningtask # NoTask =>
           V[k].runningtask = W[h[k]].runningtask /\ W[h[k]].group \subseteq V[k].group,
         \A j, k \in DOMAIN V : h[j] = h[k] => j = k
  PROVE  Busy(V, g, t)
<1>1. ASSUME NEW k \in DOMAIN V, V[k].runningtask # NoTask
      PROVE  /\ V[k].runningtask \in DOMAIN g /\ V[k].runningtask \notin Range(t)
             /\ V[k].group \cap g[V[k].runningtask] # {}
  <2>1. h[k] \in DOMAIN W /\ V[k].runningtask = W[h[k]].runningtask
        /\ W[h[k]].group \subseteq V[k].group
    BY <1>1
  <2> QED
    BY <2>1, <1>1 DEF Busy
<1>2. ASSUME NEW j \in DOMAIN V, NEW k \in DOMAIN V,
             V[j].runningtask = V[k].runningtask, V[j].runningtask # NoTask
      PROVE  j = k
  <2>1. /\ h[k] \in DOMAIN W /\ V[k].runningtask = W[h[k]].runningtask
        /\ h[j] \in DOMAIN W /\ V[j].runningtask = W[h[j]].runningtask
    BY <1>2
  <2>2. h[j] = h[k]
    BY <2>1, <1>2 DEF Busy
  <2> QED
    BY <2>2
<1> QED
  BY <1>1, <1>2 DEF Busy

(* Workers that are the same but for what a task does not need. *)
LEMMA BusyAlike ==
  ASSUME NEW W, NEW g, NEW t, Busy(W, g, t), NEW V, DOMAIN V = DOMAIN W,
         \A k \in DOMAIN W : V[k].runningtask # NoTask =>
           V[k].runningtask = W[k].runningtask /\ W[k].group \subseteq V[k].group
  PROVE  Busy(V, g, t)
<1> DEFINE h == [k \in DOMAIN V |-> k]
<1>1. h \in [DOMAIN V -> DOMAIN W] /\ \A k \in DOMAIN V : h[k] = k
  OBVIOUS
<1> HIDE DEF h
<1>2. \A k \in DOMAIN V : V[k].runningtask # NoTask =>
        V[k].runningtask = W[h[k]].runningtask /\ W[h[k]].group \subseteq V[k].group
  BY <1>1
<1>3. \A j, k \in DOMAIN V : h[j] = h[k] => j = k
  BY <1>1
<1> QED
  BY <1>1, <1>2, <1>3, BusyStill, Zenon

LEMMA BusySet ==
  ASSUME NEW W \in Seq(WorkerID), NEW g, NEW t, Busy(W, g, t), NEW k \in DOMAIN W,
         NEW w \in WorkerID,
         w.runningtask # NoTask => w.runningtask = W[k].runningtask /\ W[k].group \subseteq w.group
  PROVE  Busy([W EXCEPT ![k] = w], g, t)
<1> DEFINE V == [W EXCEPT ![k] = w]
<1>1. DOMAIN V = DOMAIN W /\ V[k] = w /\ \A j \in DOMAIN W : j # k => V[j] = W[j]
  BY ReplacedIn
<1> HIDE DEF V
<1>2. \A j \in DOMAIN W : V[j].runningtask # NoTask =>
        V[j].runningtask = W[j].runningtask /\ W[j].group \subseteq V[j].group
  BY <1>1
<1>3. Busy(V, g, t)
  BY <1>1, <1>2, BusyAlike, Zenon
<1> QED
  BY <1>3 DEF V

LEMMA BusyAdded ==
  ASSUME NEW W \in Seq(WorkerID), NEW g, NEW t, Busy(W, g, t),
         NEW w \in WorkerID, w.runningtask = NoTask
  PROVE  Busy(Append(W, w), g, t)
<1> DEFINE V == Append(W, w)
           n == Len(W) + 1
<1>1. /\ DOMAIN V = DOMAIN W \cup {n} /\ \A j \in DOMAIN W : j # n /\ V[j] = W[j]
      /\ V[n] = w
  BY AppendedTo
<1> HIDE DEF V, n
<1>2. Busy(V, g, t)
  BY <1>1 DEF Busy
<1> QED
  BY <1>2 DEF V

LEMMA BusyRemoved ==
  ASSUME NEW W \in Seq(WorkerID), NEW g, NEW t, Busy(W, g, t), NEW k \in DOMAIN W
  PROVE  /\ Busy(RemoveAt(W, k), g, t)
         /\ W[k].runningtask # NoTask =>
              \A n \in DOMAIN RemoveAt(W, k) : RemoveAt(W, k)[n].runningtask # W[k].runningtask
<1> DEFINE V == RemoveAt(W, k)
           h == [n \in DOMAIN V |-> At(n, k)]
<1>1. /\ \A n \in DOMAIN V : At(n, k) \in DOMAIN W /\ At(n, k) # k /\ V[n] = W[At(n, k)]
      /\ \A m, n \in DOMAIN V : At(m, k) = At(n, k) => m = n
  BY RemovedFrom
<1>2. h \in [DOMAIN V -> DOMAIN W] /\ \A n \in DOMAIN V : h[n] # k /\ V[n] = W[h[n]]
  BY <1>1
<1>3. \A m, n \in DOMAIN V : h[m] = h[n] => m = n
  BY <1>1
<1> HIDE DEF V, h
<1>4. \A n \in DOMAIN V : V[n].runningtask # NoTask =>
        V[n].runningtask = W[h[n]].runningtask /\ W[h[n]].group \subseteq V[n].group
  BY <1>2
<1>5. Busy(V, g, t)
  BY <1>2, <1>3, <1>4, BusyStill, Zenon
<1>6. ASSUME W[k].runningtask # NoTask, NEW n \in DOMAIN V, V[n].runningtask = W[k].runningtask
      PROVE  FALSE
  <2>1. h[n] \in DOMAIN W /\ h[n] # k /\ W[h[n]].runningtask = W[k].runningtask
    BY <1>2, <1>6
  <2> QED
    BY <2>1, <1>6 DEF Busy
<1> QED
  BY <1>5, <1>6 DEF V

(* A task is added. *)
WithTask(g, n, G) == [m \in DOMAIN g \cup {n + 1} |-> IF m = n + 1 THEN G ELSE g[m]]

LEMMA TaskMembers ==
  ASSUME NEW g, NEW t, NEW n \in Nat, Tasks(g, t, n), NEW c
  PROVE  /\ IsFiniteSet({m \in DOMAIN g : c \in g[m]})
         /\ Cardinality({m \in DOMAIN g : c \in g[m]}) \in Nat
<1>1. {m \in DOMAIN g : c \in g[m]} \in SUBSET (1 .. n)
  BY DEF Tasks
<1>2. IsFiniteSet(1 .. n)
  BY FS_Interval
<1> QED
  BY <1>1, <1>2, FS_Subset, FS_CardinalityType

LEMMA TaskAdded ==
  ASSUME NEW g, NEW t, NEW n \in Nat, Tasks(g, t, n), NEW G \in SUBSET MWworkClasses
  PROVE  /\ Tasks(WithTask(g, n, G), Append(t, n + 1), n + 1)
         /\ \A W : Busy(W, g, t) => Busy(W, WithTask(g, n, G), Append(t, n + 1))
         /\ TaskCounts(WithTask(g, n, G)) = Counted(TaskCounts(g), G, 1)
<1> DEFINE f == WithTask(g, n, G)
           s == Append(t, n + 1)
           D == DOMAIN g \cup {n + 1}
<1>1. /\ n + 1 \notin DOMAIN g /\ D \subseteq 1 .. n + 1
      /\ t \in Seq(DOMAIN g) /\ IsInjective(t)
      /\ g \in [DOMAIN g -> SUBSET MWworkClasses]
  BY DEF Tasks
<1>2. DOMAIN f = D /\ f[n + 1] = G /\ \A m \in DOMAIN g : f[m] = g[m]
  BY <1>1 DEF WithTask
<1>3. f \in [D -> SUBSET MWworkClasses]
  BY <1>1 DEF WithTask
<1>4. t \in Seq(D)
  BY <1>1
<1>5. /\ s \in Seq(D) /\ DOMAIN s = DOMAIN t \cup {Len(t) + 1}
      /\ \A j \in DOMAIN t : j # Len(t) + 1 /\ s[j] = t[j]
      /\ s[Len(t) + 1] = n + 1
  <2>1. n + 1 \in D
    OBVIOUS
  <2> HIDE DEF D
  <2> QED
    BY <1>4, <2>1, AppendedTo
<1>6. \A j \in DOMAIN t : t[j] \in DOMAIN g
  BY <1>1
<1> HIDE DEF f, s
<1>7. IsInjective(s)
  BY <1>1, <1>5, <1>6 DEF IsInjective
<1>8. Tasks(f, s, n + 1)
  BY <1>1, <1>2, <1>3, <1>5, <1>7 DEF Tasks
<1>9. ASSUME NEW W, Busy(W, g, t) PROVE Busy(W, f, s)
  <2>1. \A m \in DOMAIN g : m \notin Range(t) => m \notin Range(s)
    BY <1>1, <1>5 DEF Range
  <2> QED
    BY <1>2, <1>9, <2>1 DEF Busy
<1>10. TaskCounts(f) = Counted(TaskCounts(g), G, 1)
  <2>1. ASSUME NEW c \in MWworkClasses
        PROVE  Cardinality({m \in DOMAIN f : c \in f[m]}) =
                 Cardinality({m \in DOMAIN g : c \in g[m]}) + IF c \in G THEN 1 ELSE 0
    <3> DEFINE M == {m \in DOMAIN g : c \in g[m]}
    <3>1. {m \in DOMAIN f : c \in f[m]} = IF c \in G THEN M \cup {n + 1} ELSE M
      BY <1>1, <1>2
    <3>2. n + 1 \notin M
      BY <1>1
    <3>3. IsFiniteSet(M) /\ Cardinality(M) \in Nat
      BY TaskMembers
    <3> HIDE DEF M
    <3>4. Cardinality(M \cup {n + 1}) = Cardinality(M) + 1
      BY <3>2, <3>3, FS_AddElement
    <3>5. Cardinality({m \in DOMAIN f : c \in f[m]}) = Cardinality(M) + IF c \in G THEN 1 ELSE 0
      BY <3>1, <3>3, <3>4
    <3> QED
      BY <3>5, Zenon DEF M
  <2>2. \A c \in MWworkClasses : TaskCounts(g)[c] = Cardinality({m \in DOMAIN g : c \in g[m]})
    BY DEF TaskCounts
  <2>3. \A c \in MWworkClasses :
          TaskCounts(g)[c] + (IF c \in G THEN 1 ELSE 0) = Cardinality({m \in DOMAIN f : c \in f[m]})
    BY <2>1, <2>2
  <2>4. Counted(TaskCounts(g), G, 1)
        = [c \in MWworkClasses |-> Cardinality({m \in DOMAIN f : c \in f[m]})]
    BY <2>3, Zenon DEF Counted
  <2> QED
    BY <2>4 DEF TaskCounts
<1> QED
  BY <1>8, <1>9, <1>10 DEF f, s

(* A task is done. *)
LEMMA TaskDone ==
  ASSUME NEW g, NEW t, NEW n \in Nat, Tasks(g, t, n), NEW m \in DOMAIN g, m \notin Range(t)
  PROVE  /\ Tasks(Restrict(g, DOMAIN g \ {m}), t, n)
         /\ \A W : Busy(W, g, t) /\ (\A k \in DOMAIN W : W[k].runningtask # m) =>
              Busy(W, Restrict(g, DOMAIN g \ {m}), t)
         /\ TaskCounts(Restrict(g, DOMAIN g \ {m})) = Counted(TaskCounts(g), g[m], -1)
<1> DEFINE D == DOMAIN g \ {m}
           f == Restrict(g, D)
<1>1. /\ t \in Seq(DOMAIN g) /\ IsInjective(t) /\ DOMAIN g \subseteq 1 .. n
      /\ g \in [DOMAIN g -> SUBSET MWworkClasses]
  BY DEF Tasks
<1>2. DOMAIN f = D /\ f \in [D -> SUBSET MWworkClasses] /\ \A i \in D : f[i] = g[i]
  BY <1>1 DEF Restrict
<1>3. t \in Seq(D)
  <2>1. \A j \in DOMAIN t : t[j] \in D
    BY <1>1 DEF Range
  <2>2. Len(t) \in Nat /\ t \in [1 .. Len(t) -> DOMAIN g] /\ DOMAIN t = 1 .. Len(t)
    BY <1>1
  <2> HIDE DEF D
  <2>3. t \in [1 .. Len(t) -> D]
    BY <2>1, <2>2
  <2> QED
    BY <2>2, <2>3
<1> HIDE DEF f
<1>4. Tasks(f, t, n)
  BY <1>1, <1>2, <1>3 DEF Tasks
<1>5. ASSUME NEW W, Busy(W, g, t), \A k \in DOMAIN W : W[k].runningtask # m PROVE Busy(W, f, t)
  BY <1>2, <1>5 DEF Busy
<1>6. TaskCounts(f) = Counted(TaskCounts(g), g[m], -1)
  <2>1. ASSUME NEW c \in MWworkClasses
        PROVE  Cardinality({i \in DOMAIN f : c \in f[i]}) =
                 Cardinality({i \in DOMAIN g : c \in g[i]}) + IF c \in g[m] THEN -1 ELSE 0
    <3> DEFINE M == {i \in DOMAIN g : c \in g[i]}
    <3>1. {i \in DOMAIN f : c \in f[i]} = M \ {m}
      BY <1>2
    <3>2. m \in M <=> c \in g[m]
      OBVIOUS
    <3>3. IsFiniteSet(M) /\ Cardinality(M) \in Nat
      BY TaskMembers
    <3> HIDE DEF M
    <3>4. Cardinality(M \ {m}) = IF m \in M THEN Cardinality(M) - 1 ELSE Cardinality(M)
      BY <3>3, FS_RemoveElement
    <3>5. Cardinality({i \in DOMAIN f : c \in f[i]}) = Cardinality(M) + IF c \in g[m] THEN -1 ELSE 0
      <4>1. CASE c \in g[m]
        BY <4>1, <3>1, <3>2, <3>3, <3>4
      <4>2. CASE ~(c \in g[m])
        <5>1. Cardinality({i \in DOMAIN f : c \in f[i]}) = Cardinality(M)
          BY <4>2, <3>1, <3>2, <3>4
        <5> QED
          BY <4>2, <5>1, <3>3
      <4> QED
        BY <4>1, <4>2
    <3> QED
      BY <3>5, Zenon DEF M
  <2>2. \A c \in MWworkClasses : TaskCounts(g)[c] = Cardinality({i \in DOMAIN g : c \in g[i]})
    BY DEF TaskCounts
  <2>3. \A c \in MWworkClasses :
          TaskCounts(g)[c] + (IF c \in g[m] THEN -1 ELSE 0)
            = Cardinality({i \in DOMAIN f : c \in f[i]})
    BY <2>1, <2>2
  <2>4. Counted(TaskCounts(g), g[m], -1)
        = [c \in MWworkClasses |-> Cardinality({i \in DOMAIN f : c \in f[i]})]
    BY <2>3, Zenon DEF Counted
  <2> QED
    BY <2>4 DEF TaskCounts
<1> QED
  BY <1>4, <1>5, <1>6 DEF f

(* A task is sent. *)
LEMMA TaskSent ==
  ASSUME NEW g, NEW t, NEW n \in Nat, Tasks(g, t, n), NEW p \in DOMAIN t,
         NEW W \in Seq(WorkerID), Busy(W, g, t), NEW k \in DOMAIN W,
         NEW w \in WorkerID, w.runningtask = t[p], w.group \cap g[t[p]] # {}
  PROVE  /\ Tasks(g, RemoveAt(t, p), n)
         /\ Busy([W EXCEPT ![k] = w], g, RemoveAt(t, p))
<1> DEFINE r == RemoveAt(t, p)
           V == [W EXCEPT ![k] = w]
<1>1. /\ t \in Seq(DOMAIN g) /\ IsInjective(t) /\ DOMAIN g \subseteq 1 .. n
      /\ g \in [DOMAIN g -> SUBSET MWworkClasses]
  BY DEF Tasks
<1>2. /\ r \in Seq(DOMAIN g)
      /\ \A j \in DOMAIN r : At(j, p) \in DOMAIN t /\ At(j, p) # p /\ r[j] = t[At(j, p)]
      /\ \A i, j \in DOMAIN r : At(i, p) = At(j, p) => i = j
  BY <1>1, RemovedFrom
<1>3. DOMAIN V = DOMAIN W /\ V[k] = w /\ \A j \in DOMAIN W : j # k => V[j] = W[j]
  BY ReplacedIn
<1> HIDE DEF r, V
<1>4. IsInjective(r)
  BY <1>1, <1>2 DEF IsInjective
<1>5. Range(r) \subseteq Range(t) /\ t[p] \notin Range(r)
  BY <1>1, <1>2 DEF Range, IsInjective
<1>6. t[p] \in Range(t) /\ t[p] \in DOMAIN g
  BY <1>1 DEF Range
<1>7. Busy(V, g, r)
  <2>1. \A j \in DOMAIN W : j # k /\ W[j].runningtask # NoTask => W[j].runningtask # t[p]
    BY <1>6 DEF Busy
  <2>2. ASSUME NEW j \in DOMAIN V, V[j].runningtask # NoTask
        PROVE  /\ V[j].runningtask \in DOMAIN g /\ V[j].runningtask \notin Range(r)
               /\ V[j].group \cap g[V[j].runningtask] # {}
    <3>1. CASE j = k
      BY <3>1, <1>3, <1>5, <1>6
    <3>2. CASE j # k
      <4>1. j \in DOMAIN W /\ V[j] = W[j]
        BY <3>2, <1>3
      <4> QED
        BY <4>1, <2>2, <1>5 DEF Busy
    <3> QED
      BY <3>1, <3>2
  <2>3. ASSUME NEW i \in DOMAIN V, NEW j \in DOMAIN V,
               V[i].runningtask = V[j].runningtask, V[i].runningtask # NoTask
        PROVE  i = j
    <3>1. CASE i = k \/ j = k
      BY <3>1, <1>3, <2>1, <2>3
    <3>2. CASE i # k /\ j # k
      BY <3>2, <1>3, <2>3 DEF Busy
    <3> QED
      BY <3>1, <3>2
  <2> QED
    BY <2>2, <2>3 DEF Busy
<1> QED
  BY <1>1, <1>2, <1>4, <1>7 DEF Tasks, r, V

(* A task comes back. *)
LEMMA TaskReturned ==
  ASSUME NEW g, NEW t, NEW n \in Nat, Tasks(g, t, n), NEW m \in DOMAIN g, m \notin Range(t),
         NEW W, Busy(W, g, t), \A k \in DOMAIN W : W[k].runningtask # m
  PROVE  Tasks(g, <<m>> \o t, n) /\ Busy(W, g, <<m>> \o t)
<1> DEFINE h == <<m>>
           r == h \o t
<1>1. /\ t \in Seq(DOMAIN g) /\ IsInjective(t) /\ DOMAIN g \subseteq 1 .. n
      /\ g \in [DOMAIN g -> SUBSET MWworkClasses]
  BY DEF Tasks
<1>2. h \in Seq(DOMAIN g) /\ IsInjective(h) /\ Range(h) = {m}
  BY DEF IsInjective, Range
<1> HIDE DEF h
<1>3. Range(h) \cap Range(t) = {}
  BY <1>2
<1>4. r \in Seq(DOMAIN g) /\ IsInjective(r) /\ Range(r) = Range(h) \cup Range(t)
  BY <1>1, <1>2, <1>3, Joined
<1> HIDE DEF r
<1>5. Tasks(g, r, n)
  BY <1>1, <1>4 DEF Tasks
<1>6. Busy(W, g, r)
  BY <1>2, <1>4 DEF Busy
<1> QED
  BY <1>5, <1>6 DEF r, h

-----------------------------------------------------------------------------
(* The books. *)

LEMMA AmountsOf ==
  ASSUME NEW tm \in Nat, NEW w \in WorkerID, WorkerOK(w, tm)
  PROVE  /\ AmountAt(w, tm) \in Amounts
         /\ \A q \in DOMAIN Zero : AmountAt(w, tm)[q] \in Nat
         /\ w.start_time = 0 => AmountAt(w, tm) = Zero
         /\ w.start_time < tm => Lean(AmountAt(w, tm))
<1>1. AmountAt(w, tm) \in Amounts
  BY DEF AmountAt, Amounts, WorkerID, WorkerOK
<1>2. w.start_time = 0 => AmountAt(w, tm) = Zero
  BY DEF AmountAt, WorkerOK, Zero
<1>3. w.start_time < tm => Lean(AmountAt(w, tm))
  BY DEF AmountAt, Lean, WorkerOK, WorkerID, Zero
<1> QED
  BY <1>1, <1>2, <1>3, Amount

LEMMA TermsType ==
  ASSUME NEW tm \in Nat, NEW W \in Seq(WorkerID), \A k \in DOMAIN W : WorkerOK(W[k], tm),
         NEW q \in DOMAIN Zero
  PROVE  /\ Len(W) \in Nat /\ DOMAIN W = 1 .. Len(W)
         /\ TermsAt(W, tm, q) \in [1 .. Len(W) -> Int]
         /\ \A k \in 1 .. Len(W) : TermsAt(W, tm, q)[k] = AmountAt(W[k], tm)[q]
         /\ Total(TermsAt(W, tm, q)) \in Int
<1>1. Len(W) \in Nat /\ DOMAIN W = 1 .. Len(W)
  OBVIOUS
<1>2. ASSUME NEW k \in 1 .. Len(W) PROVE AmountAt(W[k], tm)[q] \in Int
  <2>1. W[k] \in WorkerID /\ WorkerOK(W[k], tm)
    BY <1>1
  <2>2. AmountAt(W[k], tm)[q] \in Nat
    BY <2>1, AmountsOf, Zenon
  <2> QED
    BY <2>2
<1>3. TermsAt(W, tm, q) \in [1 .. Len(W) -> Int]
  BY <1>1, <1>2 DEF TermsAt
<1>4. Total(TermsAt(W, tm, q)) \in Int
  BY <1>1, <1>3, TotalType, Zenon
<1> QED
  BY <1>1, <1>3, <1>4 DEF TermsAt

(* Only the kth worker's amounts change, by b - a. *)
LEMMA BooksOfOne ==
  ASSUME NEW tm \in Nat, NEW W \in Seq(WorkerID), NEW s, NEW a, Books(W, s, a, tm),
         NEW V \in Seq(WorkerID), Len(V) = Len(W), NEW k \in DOMAIN W,
         \A j \in DOMAIN W : WorkerOK(V[j], tm),
         \A j \in DOMAIN W : j # k => AmountAt(V[j], tm) = AmountAt(W[j], tm),
         NEW b \in Amounts,
         \A q \in DOMAIN Zero : AmountAt(V[k], tm)[q] = AmountAt(W[k], tm)[q] + (b[q] - a[q])
  PROVE  Books(V, s, b, tm)
<1>1. DOMAIN V = DOMAIN W /\ DOMAIN W = 1 .. Len(W) /\ Len(W) \in Nat
  OBVIOUS
<1>2. /\ s \in [Vid -> Amounts] /\ a \in Amounts /\ \A j \in DOMAIN W : WorkerOK(W[j], tm)
      /\ \A v \in Vid : Lean(s[v])
  BY DEF Books
<1>3. ASSUME NEW q \in DOMAIN Zero
      PROVE  b[q] = Total(IdTerms(s, q)) + Total(TermsAt(V, tm, q))
  <2> DEFINE n == Len(W)
             x == TermsAt(W, tm, q)
             y == TermsAt(V, tm, q)
  <2>1. /\ x \in [1 .. n -> Int] /\ \A j \in 1 .. n : x[j] = AmountAt(W[j], tm)[q]
        /\ Total(x) \in Int
    BY <1>2, TermsType
  <2>2. \A j \in DOMAIN V : WorkerOK(V[j], tm)
    BY <1>1
  <2>3. /\ y \in [1 .. Len(V) -> Int] /\ \A j \in 1 .. Len(V) : y[j] = AmountAt(V[j], tm)[q]
        /\ Total(y) \in Int
    BY <2>2, TermsType
  <2>4. n \in Nat /\ Len(V) = n /\ k \in 1 .. n /\ DOMAIN W = 1 .. n
    BY <1>1
  <2>5. Total(IdTerms(s, q)) \in Int
    BY <1>2, IdTermsType
  <2> HIDE DEF n, x, y
  <2>6. \A j \in 1 .. n : j # k => y[j] = x[j]
    BY <2>1, <2>3, <2>4
  <2>7. Total(y) = Total(x) + (y[k] - x[k])
    BY <2>1, <2>3, <2>4, <2>6, TotalChanged, Zenon
  <2>8. y[k] = x[k] + (b[q] - a[q]) /\ x[k] \in Int
    BY <2>1, <2>3, <2>4
  <2>9. a[q] = Total(IdTerms(s, q)) + Total(x)
    BY Zenon DEF Books, x
  <2>10. a[q] \in Nat /\ b[q] \in Nat
    BY <1>2, Amount
  <2>11. b[q] = Total(IdTerms(s, q)) + Total(y)
    <3> DEFINE i == Total(IdTerms(s, q))
               c == Total(x)
               d == Total(y)
               e == a[q]
               f == b[q]
               m == x[k]
    <3>1. /\ i \in Int /\ c \in Int /\ e \in Nat /\ f \in Nat /\ m \in Int
          /\ e = i + c /\ d = c + ((m + (f - e)) - m)
      BY <2>1, <2>5, <2>7, <2>8, <2>9, <2>10
    <3> HIDE DEF i, c, d, e, f, m
    <3>2. f = i + d
      BY <3>1
    <3> QED
      BY <3>2, Zenon DEF f, i, d
  <2> QED
    BY <2>11, Zenon DEF y
<1> QED
  BY <1>1, <1>2, <1>3 DEF Books

LEMMA SetBooks ==
  ASSUME NEW tm \in Nat, NEW W \in Seq(WorkerID), NEW s, NEW a, Books(W, s, a, tm),
         NEW k \in DOMAIN W, NEW w \in WorkerID, WorkerOK(w, tm),
         NEW b \in Amounts,
         \A q \in DOMAIN Zero : AmountAt(w, tm)[q] = AmountAt(W[k], tm)[q] + (b[q] - a[q])
  PROVE  Books([W EXCEPT ![k] = w], s, b, tm)
<1> DEFINE V == [W EXCEPT ![k] = w]
<1>1. /\ V \in Seq(WorkerID) /\ Len(V) = Len(W) /\ V[k] = w
      /\ \A j \in DOMAIN W : j # k => V[j] = W[j]
  BY ReplacedIn
<1>2. \A j \in DOMAIN W : WorkerOK(W[j], tm)
  BY DEF Books
<1> HIDE DEF V
<1>3. \A j \in DOMAIN W : WorkerOK(V[j], tm)
  BY <1>1, <1>2
<1>4. \A j \in DOMAIN W : j # k => AmountAt(V[j], tm) = AmountAt(W[j], tm)
  BY <1>1
<1>5. \A q \in DOMAIN Zero : AmountAt(V[k], tm)[q] = AmountAt(W[k], tm)[q] + (b[q] - a[q])
  BY <1>1
<1>6. Books(V, s, b, tm)
  BY <1>1, <1>3, <1>4, <1>5, BooksOfOne, Zenon
<1> QED
  BY <1>6 DEF V

LEMMA SameBooks ==
  ASSUME NEW tm \in Nat, NEW W \in Seq(WorkerID), NEW s, NEW a, Books(W, s, a, tm),
         NEW k \in DOMAIN W, NEW w \in WorkerID, WorkerOK(w, tm),
         AmountAt(w, tm) = AmountAt(W[k], tm)
  PROVE  Books([W EXCEPT ![k] = w], s, a, tm)
<1>1. a \in Amounts /\ WorkerOK(W[k], tm) /\ W[k] \in WorkerID
  BY DEF Books
<1>2. \A q \in DOMAIN Zero : AmountAt(w, tm)[q] = AmountAt(W[k], tm)[q] + (a[q] - a[q])
  <2>1. ASSUME NEW q \in DOMAIN Zero
        PROVE  AmountAt(w, tm)[q] = AmountAt(W[k], tm)[q] + (a[q] - a[q])
    <3>1. AmountAt(W[k], tm)[q] \in Nat /\ a[q] \in Nat
      BY <1>1, AmountsOf, Amount
    <3> QED
      BY <3>1
  <2> QED
    BY <2>1
<1> QED
  BY <1>1, <1>2, SetBooks, Zenon

LEMMA AddedBooks ==
  ASSUME NEW tm \in Nat, NEW W \in Seq(WorkerID), NEW s, NEW a, Books(W, s, a, tm),
         NEW w \in WorkerID, WorkerOK(w, tm), w.start_time = 0
  PROVE  Books(Append(W, w), s, a, tm)
<1> DEFINE V == Append(W, w)
           n == Len(W)
<1>1. /\ V \in Seq(WorkerID) /\ Len(V) = n + 1 /\ n \in Nat /\ V[n + 1] = w
      /\ \A j \in DOMAIN W : V[j] = W[j]
  BY AppendedTo
<1>2. DOMAIN V = 1 .. n + 1 /\ DOMAIN W = 1 .. n
  OBVIOUS
<1>3. \A j \in DOMAIN W : WorkerOK(W[j], tm)
  BY DEF Books
<1> HIDE DEF V, n
<1>4. \A j \in DOMAIN V : WorkerOK(V[j], tm)
  BY <1>1, <1>2, <1>3
<1>5. ASSUME NEW q \in DOMAIN Zero
      PROVE  Total(TermsAt(V, tm, q)) = Total(TermsAt(W, tm, q))
  <2> DEFINE x == TermsAt(W, tm, q)
             y == TermsAt(V, tm, q)
  <2>1. x \in [1 .. n -> Int] /\ (\A j \in 1 .. n : x[j] = AmountAt(W[j], tm)[q])
        /\ Total(x) \in Int
    BY <1>3, TermsType DEF n
  <2>2. y \in [1 .. n + 1 -> Int] /\ \A j \in 1 .. n + 1 : y[j] = AmountAt(V[j], tm)[q]
    <3>1. /\ y \in [1 .. Len(V) -> Int] /\ \A j \in 1 .. Len(V) : y[j] = AmountAt(V[j], tm)[q]
      BY <1>1, <1>4, TermsType, Zenon
    <3> QED
      BY <3>1, <1>1
  <2>3. AmountAt(w, tm)[q] = 0
    BY AmountsOf, Amount
  <2> HIDE DEF x, y
  <2>4. ASSUME NEW j \in 1 .. n PROVE y[j] = x[j]
    <3>1. j \in DOMAIN W /\ j \in 1 .. n + 1 /\ V[j] = W[j]
      BY <1>1, <1>2
    <3> QED
      BY <3>1, <2>1, <2>2, Zenon
  <2>5. Total(y) = Total(x) + y[n + 1]
    BY <2>1, <2>2, <2>4, <1>1, TotalAdded, Zenon
  <2>6. y[n + 1] = 0
    BY <2>2, <2>3, <1>1
  <2>7. Total(y) = Total(x)
    BY <2>1, <2>5, <2>6
  <2> QED
    BY <2>7, Zenon DEF x, y
<1>6. Books(V, s, a, tm)
  <2>1. /\ s \in [Vid -> Amounts] /\ a \in Amounts /\ \A v \in Vid : Lean(s[v])
        /\ \A q \in DOMAIN Zero : a[q] = Total(IdTerms(s, q)) + Total(TermsAt(W, tm, q))
    BY DEF Books
  <2>2. \A q \in DOMAIN Zero : a[q] = Total(IdTerms(s, q)) + Total(TermsAt(V, tm, q))
    BY <2>1, <1>5
  <2> QED
    BY <2>1, <2>2, <1>4 DEF Books
<1> QED
  BY <1>6 DEF V

(* Own is the amount of now. *)
LEMMA OwnIsAt ==
  /\ \A w : Own(w) = AmountAt(w, now)
  /\ \A W, q : OwnTerms(W, q) = TermsAt(W, now, q)
BY DEF Own, Uptime, AmountAt, OwnTerms, TermsAt

LEMMA AreDated ==
  ASSUME NEW W \in Seq(WorkerID), \A k \in DOMAIN W : WorkerOK(W[k], now)
  PROVE  W \in Seq(Dated) /\ \A k \in DOMAIN W : W[k] \in Dated
<1>1. \A k \in DOMAIN W : W[k] \in WorkerID /\ WorkerOK(W[k], now)
  OBVIOUS
<1>2. \A k \in DOMAIN W : W[k] \in Dated
  BY <1>1 DEF Dated, WorkerOK
<1>3. Len(W) \in Nat /\ DOMAIN W = 1 .. Len(W) /\ W = [k \in 1 .. Len(W) |-> W[k]]
  OBVIOUS
<1>4. W \in [1 .. Len(W) -> Dated]
  BY <1>2, <1>3
<1> QED
  BY <1>2, <1>3, <1>4

(* A worker goes, and its id takes its amounts. *)
LEMMA RemovedBooks ==
  ASSUME now \in Nat, NEW W \in Seq(WorkerID), NEW s, NEW a, Books(W, s, a, now),
         NEW k \in DOMAIN W, W[k].start_time < now
  PROVE  Books(RemoveAt(W, k), Gathered(s, W[k]), a, now)
<1> DEFINE V == RemoveAt(W, k)
           g == Gathered(s, W[k])
           n == Len(W) - 1
<1>1. /\ V \in Seq(WorkerID) /\ DOMAIN V = 1 .. n /\ Len(V) = n
      /\ \A j \in 1 .. n : V[j] = IF j < k THEN W[j] ELSE W[j + 1]
  BY RemovedAt
<1>2. k \in 1 .. n + 1 /\ n \in Nat /\ DOMAIN W = 1 .. n + 1 /\ Len(W) = n + 1 /\ n + 1 \in Nat
  OBVIOUS
<1>3. /\ s \in [Vid -> Amounts] /\ a \in Amounts /\ (\A v \in Vid : Lean(s[v]))
      /\ (\A j \in DOMAIN W : WorkerOK(W[j], now))
      /\ \A q \in DOMAIN Zero : a[q] = Total(IdTerms(s, q)) + Total(TermsAt(W, now, q))
  BY DEF Books
<1>4. W[k] \in Dated /\ W[k] \in WorkerID /\ WorkerOK(W[k], now)
  BY <1>3, AreDated
<1>5. /\ g \in [Vid -> Amounts] /\ W[k].virtual_id \in Vid
      /\ g[W[k].virtual_id] = Plus(s[W[k].virtual_id], Own(W[k]))
      /\ \A v \in Vid : v # W[k].virtual_id => g[v] = s[v]
  BY <1>3, <1>4, GatheredIs
<1>6. Lean(Own(W[k])) /\ Own(W[k]) \in Amounts
  BY <1>4, OwnIsAt, AmountsOf, Zenon
<1> HIDE DEF V, g, n
<1>7. \A v \in Vid : Lean(g[v])
  <2>1. s[W[k].virtual_id] \in Amounts /\ Lean(s[W[k].virtual_id])
    BY <1>3, <1>5
  <2>2. Lean(Plus(s[W[k].virtual_id], Own(W[k])))
    BY <2>1, <1>6, PlusIsLean
  <2> QED
    BY <2>2, <1>3, <1>5
<1>8. \A j \in DOMAIN V : WorkerOK(V[j], now)
  <2>1. \A j \in 1 .. n : j \in DOMAIN W /\ j + 1 \in DOMAIN W
    BY <1>2
  <2> QED
    BY <2>1, <1>1, <1>3
<1>9. ASSUME NEW q \in DOMAIN Zero
      PROVE  a[q] = Total(IdTerms(g, q)) + Total(TermsAt(V, now, q))
  <2> DEFINE x == TermsAt(W, now, q)
             y == TermsAt(V, now, q)
             i == Total(IdTerms(s, q))
             o == AmountAt(W[k], now)[q]
  <2>1. /\ x \in [1 .. n + 1 -> Int] /\ (\A j \in 1 .. n + 1 : x[j] = AmountAt(W[j], now)[q])
        /\ Total(x) \in Int
    <3>1. /\ x \in [1 .. Len(W) -> Int] /\ (\A j \in 1 .. Len(W) : x[j] = AmountAt(W[j], now)[q])
          /\ Total(x) \in Int
      BY <1>3, TermsType
    <3> QED
      BY <3>1, <1>2, Zenon
  <2>2. y \in [1 .. n -> Int] /\ (\A j \in 1 .. n : y[j] = AmountAt(V[j], now)[q])
    <3>1. y \in [1 .. Len(V) -> Int] /\ (\A j \in 1 .. Len(V) : y[j] = AmountAt(V[j], now)[q])
      BY <1>1, <1>8, TermsType
    <3> QED
      BY <3>1, <1>1, Zenon
  <2>3. Total(IdTerms(g, q)) = i + o
    BY <1>3, <1>4, GatheringBooks, OwnIsAt DEF g
  <2>4. i \in Int
    BY <1>3, IdTermsType
  <2>5. o \in Int
    BY <1>4, AmountsOf
  <2>6. a[q] = i + Total(x)
    BY <1>3, Zenon
  <2> HIDE DEF x, y, i
  <2>7. \A j \in 1 .. n : y[j] = IF j < k THEN x[j] ELSE x[j + 1]
    <3>1. \A j \in 1 .. n : j \in 1 .. n + 1 /\ j + 1 \in 1 .. n + 1
      BY <1>2
    <3> QED
      BY <3>1, <2>1, <2>2, <1>1
  <2>8. Total(y) = Total(x) - x[k]
    BY <2>1, <2>2, <2>7, <1>2, TotalRemoved, Zenon
  <2>9. x[k] = o
    BY <2>1, <1>2
  <2> HIDE DEF o
  <2>10. a[q] = (i + o) + Total(y)
    BY <2>1, <2>4, <2>5, <2>6, <2>8, <2>9
  <2> QED
    BY <2>3, <2>10, Zenon DEF y
<1>10. Books(V, g, a, now)
  BY <1>3, <1>5, <1>7, <1>8, <1>9 DEF Books
<1> QED
  BY <1>10 DEF V, g

(* A tick is time for every worker that has begun. *)
LEMMA TickedBooks ==
  ASSUME NEW tm \in Nat, NEW W \in Seq(WorkerID), NEW s, NEW a, Books(W, s, a, tm)
  PROVE  Books(W, s,
               [a EXCEPT !.up = @ + Cardinality({k \in DOMAIN W : W[k].start_time > 0})],
               tm + 1)
<1> DEFINE R == {k \in DOMAIN W : W[k].start_time > 0}
           b == [a EXCEPT !.up = @ + Cardinality(R)]
           n == Len(W)
<1>1. /\ s \in [Vid -> Amounts] /\ a \in Amounts /\ (\A v \in Vid : Lean(s[v]))
      /\ (\A j \in DOMAIN W : WorkerOK(W[j], tm))
      /\ \A q \in DOMAIN Zero : a[q] = Total(IdTerms(s, q)) + Total(TermsAt(W, tm, q))
  BY DEF Books
<1>2. n \in Nat /\ DOMAIN W = 1 .. n /\ tm + 1 \in Nat /\ R \in SUBSET (1 .. n)
      /\ \A j \in 1 .. n : W[j] \in WorkerID
  OBVIOUS
<1>3. \A j \in DOMAIN W : WorkerOK(W[j], tm + 1)
  <2>1. ASSUME NEW w \in WorkerID, WorkerOK(w, tm) PROVE WorkerOK(w, tm + 1)
    <3>1. w.start_time \in Nat
      BY DEF WorkerID
    <3>2. w.start_time =< tm + 1
      BY <3>1, <2>1 DEF WorkerOK
    <3> QED
      BY <3>2, <2>1 DEF WorkerOK
  <2> QED
    BY <2>1, <1>1, <1>2
<1>4. ASSUME NEW q \in DOMAIN Zero, NEW j \in 1 .. n
      PROVE  AmountAt(W[j], tm + 1)[q] =
               AmountAt(W[j], tm)[q] + IF q = "up" /\ j \in R THEN 1 ELSE 0
  <2>1. W[j] \in WorkerID /\ j \in DOMAIN W
    BY <1>2
  <2>2. W[j].start_time \in Nat /\ W[j].total_working \in Nat /\ W[j].num_benchmark \in Nat
    BY <2>1 DEF WorkerID
  <2>3. q \in {"up", "working", "bench"}
    BY Amount
  <2>4. j \in R <=> W[j].start_time > 0
    BY <2>1
  <2> HIDE DEF R
  <2>5. CASE q = "up"
    BY <2>2, <2>4, <2>5 DEF AmountAt
  <2>6. CASE q # "up"
    BY <2>2, <2>3, <2>6 DEF AmountAt
  <2> QED
    BY <2>5, <2>6
<1> HIDE DEF R, n
<1>5. ASSUME NEW q \in DOMAIN Zero
      PROVE  /\ Cardinality(R) \in Nat
             /\ Total(TermsAt(W, tm + 1, q)) =
                  Total(TermsAt(W, tm, q)) + IF q = "up" THEN Cardinality(R) ELSE 0
  <2> DEFINE x == TermsAt(W, tm, q)
             y == TermsAt(W, tm + 1, q)
  <2>1. x \in [1 .. n -> Int] /\ (\A j \in 1 .. n : x[j] = AmountAt(W[j], tm)[q])
        /\ Total(x) \in Int
    BY <1>1, TermsType DEF n
  <2>2. y \in [1 .. n -> Int] /\ (\A j \in 1 .. n : y[j] = AmountAt(W[j], tm + 1)[q])
    BY <1>2, <1>3, TermsType DEF n
  <2> HIDE DEF x, y
  <2>3. CASE q = "up"
    <3>1. Marked(x, y, R, n)
      BY <1>4, <2>1, <2>2, <2>3 DEF Marked
    <3>2. Cardinality(R) \in Nat /\ Total(y) = Total(x) + Cardinality(R)
      BY <1>2, <2>1, <2>2, <3>1, TotalMarked, Zenon
    <3> QED
      BY <2>3, <3>2 DEF x, y
  <2>4. CASE q # "up"
    <3>1. \A j \in 1 .. n : y[j] = x[j]
      BY <1>4, <2>1, <2>2, <2>4
    <3>2. y = x
      <4>1. y = [j \in 1 .. n |-> y[j]] /\ x = [j \in 1 .. n |-> x[j]]
        BY <2>1, <2>2
      <4> QED
        BY <3>1, <4>1, Zenon
    <3>3. Cardinality(R) \in Nat
      <4>1. IsFiniteSet(1 .. n)
        BY <1>2, FS_Interval
      <4> QED
        BY <4>1, <1>2, FS_Subset, FS_CardinalityType
    <3>4. Total(y) = Total(x) + 0
      BY <2>1, <3>2
    <3> QED
      BY <2>4, <3>3, <3>4 DEF x, y
  <2> QED
    BY <2>3, <2>4
<1>6. "up" \in DOMAIN Zero /\ Cardinality(R) \in Nat
  BY <1>5, Amount
<1>7. b \in Amounts /\ \A q \in DOMAIN Zero : b[q] = a[q] + IF q = "up" THEN Cardinality(R) ELSE 0
  BY <1>1, <1>6, Amount DEF Amounts
<1> HIDE DEF b
<1>8. ASSUME NEW q \in DOMAIN Zero
      PROVE  b[q] = Total(IdTerms(s, q)) + Total(TermsAt(W, tm + 1, q))
  <2> DEFINE i == Total(IdTerms(s, q))
             x == Total(TermsAt(W, tm, q))
             y == Total(TermsAt(W, tm + 1, q))
             c == IF q = "up" THEN Cardinality(R) ELSE 0
  <2>1. i \in Int /\ x \in Int
    BY <1>1, IdTermsType, TermsType
  <2>2. b[q] = a[q] + c /\ a[q] = i + x /\ y = x + c /\ c \in Int
    BY <1>1, <1>5, <1>6, <1>7
  <2> HIDE DEF i, x, y, c
  <2>3. b[q] = i + y
    BY <2>1, <2>2
  <2> QED
    BY <2>3, Zenon DEF i, y
<1>9. Books(W, s, b, tm + 1)
  BY <1>1, <1>3, <1>7, <1>8 DEF Books
<1> QED
  BY <1>9 DEF b, R

LEMMA MaxWithin ==
  ASSUME NEW b \in Int, NEW S \in SUBSET Int, S # {}, \A x \in S : x =< b
  PROVE  Max(S) \in S /\ \A x \in S : Max(S) >= x
<1> DEFINE T == {b - x : x \in S}
<1>1. T \in SUBSET Nat /\ T # {}
  <2>1. \A x \in S : b - x \in Nat
    OBVIOUS
  <2>2. PICK x \in S : TRUE
    OBVIOUS
  <2>3. b - x \in T
    OBVIOUS
  <2>4. \A y \in T : y \in Nat
    BY <2>1
  <2> QED
    BY <2>3, <2>4, Zenon
<1>2. PICK y \in T : \A z \in T : y =< z
  BY <1>1, LeastNat
<1>3. PICK m \in S : y = b - m
  BY <1>2
<1>4. \A x \in S : m >= x
  <2>1. ASSUME NEW x \in S PROVE m >= x
    <3>1. y =< b - x
      BY <1>2
    <3> QED
      BY <3>1, <1>3
  <2> QED
    BY <2>1
<1>5. \E x \in S : \A z \in S : x >= z
  BY <1>4
<1> QED
  BY <1>5, Zenon DEF Max

LEMMA MaxVidIs ==
  ASSUME NEW s \in [Vid -> Amounts]
  PROVE  MaxVid(s) \in 0 .. MW_MAX_WORKERS /\ \A v \in Vid : v >= MaxVid(s) => s[v].up = 0
<1> DEFINE S == {-1} \cup {v \in Vid : s[v].up > 0}
           b == MW_MAX_WORKERS - 1
<1>1. MW_MAX_WORKERS \in Nat \ {0} /\ Vid = 0 .. b /\ b \in Int
  BY StatsBounds DEF Vid
<1>2. S \in SUBSET Int /\ S # {} /\ (\A x \in S : x =< b /\ x >= -1)
  BY <1>1
<1>3. MaxVid(s) = Max(S) + 1
  BY DEF MaxVid
<1>4. \A v \in Vid : s[v].up \in Nat
  BY DEF Amounts
<1>5. \A v \in Vid : v \notin S => s[v].up = 0
  BY <1>4
<1> HIDE DEF S
<1>6. Max(S) \in S /\ \A x \in S : Max(S) >= x
  BY <1>1, <1>2, MaxWithin, Zenon
<1>7. Max(S) \in -1 .. b
  <2>1. Max(S) =< b /\ Max(S) >= -1 /\ Max(S) \in Int
    BY <1>2, <1>6
  <2> QED
    BY <2>1, <1>1
<1>8. ASSUME NEW v \in Vid, v >= MaxVid(s) PROVE s[v].up = 0
  <2>1. v \notin S
    <3>1. ~(Max(S) >= v)
      BY <1>1, <1>3, <1>7, <1>8
    <3> QED
      BY <3>1, <1>6
  <2> QED
    BY <2>1, <1>5
<1> QED
  BY <1>1, <1>3, <1>7, <1>8

(* What the whole list has not handed over is gathered. *)
LEMMA AllBooks ==
  ASSUME now \in Nat, NEW W \in Seq(WorkerID), NEW s, NEW a, Books(W, s, a, now),
         \A k \in DOMAIN W : W[k].start_time < now
  PROVE  LET all == FoldLeft(Gathered, s, W) IN
         /\ all \in [Vid -> Amounts] /\ \A v \in Vid : Lean(all[v])
         /\ \A q \in DOMAIN Zero : a[q] = Total(IdTerms(all, q))
         /\ \A v \in Vid : (\A k \in DOMAIN W : W[k].virtual_id # v) => all[v] = s[v]
<1>1. /\ s \in [Vid -> Amounts] /\ a \in Amounts /\ (\A v \in Vid : Lean(s[v]))
      /\ (\A j \in DOMAIN W : WorkerOK(W[j], now))
      /\ \A q \in DOMAIN Zero : a[q] = Total(IdTerms(s, q)) + Total(TermsAt(W, now, q))
  BY DEF Books
<1>2. W \in Seq(Dated) /\ \A k \in DOMAIN W : W[k] \in Dated
  BY <1>1, AreDated
<1>3. ASSUME NEW k \in DOMAIN W PROVE Lean(Own(W[k]))
  <2>1. W[k] \in WorkerID /\ WorkerOK(W[k], now)
    BY <1>1
  <2>2. Lean(AmountAt(W[k], now))
    BY <2>1, AmountsOf
  <2> QED
    BY <2>2, OwnIsAt, Zenon
<1> DEFINE all == FoldLeft(Gathered, s, W)
<1>4. /\ all \in [Vid -> Amounts]
      /\ \A q \in DOMAIN Zero :
           Total(IdTerms(all, q)) = Total(IdTerms(s, q)) + Total(OwnTerms(W, q))
      /\ \A v \in Vid : (\A k \in DOMAIN W : W[k].virtual_id # v) => all[v] = s[v]
      /\ (\A v \in Vid : Lean(s[v])) /\ (\A k \in DOMAIN W : Lean(Own(W[k]))) =>
              \A v \in Vid : Lean(all[v])
  BY <1>1, <1>2, GatheredAll
<1> HIDE DEF all
<1>5. \A q \in DOMAIN Zero : a[q] = Total(IdTerms(all, q))
  BY <1>1, <1>4, OwnIsAt, Zenon
<1>6. \A v \in Vid : Lean(all[v])
  BY <1>1, <1>3, <1>4, Zenon
<1> QED
  BY <1>4, <1>5, <1>6 DEF all

(* makestats *)
LEMMA PrintedIs ==
  ASSUME NEW all \in [Vid -> Amounts], \A v \in Vid : Lean(all[v]),
         NEW a \in Amounts, \A q \in DOMAIN Zero : a[q] = Total(IdTerms(all, q))
  PROVE  a = [q \in DOMAIN Zero |-> Total([j \in 1 .. MaxVid(all) |-> all[j - 1][q]])]
<1>1. MaxVid(all) \in 0 .. MW_MAX_WORKERS /\ \A v \in Vid : v >= MaxVid(all) => all[v].up = 0
  BY MaxVidIs
<1>2. ASSUME NEW q \in DOMAIN Zero
      PROVE  a[q] = Total([j \in 1 .. MaxVid(all) |-> all[j - 1][q]])
  <2> DEFINE n == MW_MAX_WORKERS
             m == MaxVid(all)
             s == IdTerms(all, q)
             t == [j \in 1 .. m |-> all[j - 1][q]]
  <2>1. n \in Nat /\ m \in 0 .. n /\ s \in [1 .. n -> Int]
        /\ \A j \in 1 .. n : j - 1 \in Vid /\ s[j] = all[j - 1][q]
    BY <1>1, IdTermsType, VidsAreNumbers DEF IdTerms
  <2>2. \A j \in 1 .. n : s[j] \in Int
    BY <2>1
  <2> HIDE DEF n, m, s
  <2>3. \A j \in 1 .. m : j \in 1 .. n
    BY <2>1
  <2>4. t \in [1 .. m -> Int] /\ \A j \in 1 .. m : t[j] = s[j]
    BY <2>1, <2>2, <2>3
  <2>5. ASSUME NEW j \in 1 .. n, j > m PROVE s[j] = 0
    <3>1. j - 1 \in Vid /\ j - 1 >= m
      <4>1. m \in Int /\ j \in Int
        BY <2>1
      <4>2. j - 1 >= m
        BY <4>1, <2>5
      <4>3. j - 1 \in Vid
        BY <2>1
      <4> QED
        BY <4>2, <4>3
    <3>2. all[j - 1] = Zero
      BY <3>1, <1>1 DEF m, Lean
    <3> QED
      BY <3>2, <2>1, Amount
  <2> HIDE DEF t
  <2>6. Total(s) = Total(t)
    BY <2>1, <2>4, <2>5, TotalBegun, Zenon
  <2> QED
    BY <2>6, Zenon DEF s, t, m
<1>3. a = [q \in DOMAIN Zero |-> a[q]]
  BY Amount DEF Amounts
<1> QED
  BY <1>2, <1>3, Zenon

(* write_checkpoint: what is written is all there is. *)
LEMMA CheckpointStored ==
  ASSUME now \in Nat, NEW W \in Seq(WorkerID), Books(W, stats, spent, now),
         \A k \in DOMAIN W : W[k].start_time < now,
         NEW D, NEW n \in Nat,
         Tasks(Restrict(groups, D), todo, n), Busy(W, Restrict(groups, D), todo)
  PROVE  Stored(Checkpointed(W, D), n)
<1> DEFINE c == Max({MaxVid(stats), 1} \cup {W[j].virtual_id + 1 : j \in DOMAIN W})
           all == FoldLeft(Gathered, stats, W)
           run == {W[j].runningtask : j \in DOMAIN W} \ {NoTask}
           g == Restrict(groups, D)
           sv == Checkpointed(W, D)
<1>1. /\ sv.stats = [v \in Vid |-> IF v < c THEN all[v] ELSE Zero]
      /\ sv.groups = g /\ sv.todo = todo \o SetToSeq(run) /\ sv.spent = spent
  BY Zenon DEF Checkpointed
<1>2. /\ all \in [Vid -> Amounts] /\ \A v \in Vid : Lean(all[v])
      /\ \A q \in DOMAIN Zero : spent[q] = Total(IdTerms(all, q))
      /\ \A v \in Vid : (\A k \in DOMAIN W : W[k].virtual_id # v) => all[v] = stats[v]
  BY AllBooks
<1> HIDE DEF all, g, sv
<1>3. stats \in [Vid -> Amounts] /\ spent \in Amounts /\ \A v \in Vid : Lean(stats[v])
  BY DEF Books
<1>4. c \in Int /\ c >= MaxVid(stats) /\ \A j \in DOMAIN W : c >= W[j].virtual_id + 1
  <2> DEFINE S == {MaxVid(stats), 1} \cup {W[j].virtual_id + 1 : j \in DOMAIN W}
  <2>1. MW_MAX_WORKERS \in Nat \ {0}
    BY StatsBounds
  <2>2. MaxVid(stats) \in 0 .. MW_MAX_WORKERS
    BY <1>3, MaxVidIs
  <2>3. ASSUME NEW j \in DOMAIN W PROVE W[j].virtual_id + 1 \in 1 .. MW_MAX_WORKERS
    <3>1. W[j] \in WorkerID
      OBVIOUS
    <3>2. W[j].virtual_id \in Vid
      BY <3>1 DEF WorkerID
    <3> QED
      BY <3>2, VidsAreNumbers
  <2>4. \A x \in S : x \in 0 .. MW_MAX_WORKERS
    BY <2>1, <2>2, <2>3
  <2>5. S # {} /\ MaxVid(stats) \in S /\ \A j \in DOMAIN W : W[j].virtual_id + 1 \in S
    OBVIOUS
  <2> HIDE DEF S
  <2>6. S \in SUBSET Int /\ (\A x \in S : x =< MW_MAX_WORKERS) /\ MW_MAX_WORKERS \in Int
    BY <2>1, <2>4
  <2>7. Max(S) \in S /\ \A x \in S : Max(S) >= x
    BY <2>5, <2>6, MaxWithin, Zenon
  <2>8. Max(S) \in Int /\ Max(S) >= MaxVid(stats)
        /\ \A j \in DOMAIN W : Max(S) >= W[j].virtual_id + 1
    BY <2>5, <2>6, <2>7
  <2> QED
    BY <2>8 DEF S
<1> HIDE DEF c
<1>5. sv.stats = all
  <2>1. ASSUME NEW v \in Vid, ~(v < c) PROVE all[v] = Zero
    <3>1. v \in Nat /\ MaxVid(stats) \in 0 .. MW_MAX_WORKERS
      BY VidsAreNumbers, MaxVidIs, <1>3
    <3>2. v >= MaxVid(stats)
      BY <3>1, <2>1, <1>4
    <3>3. stats[v].up = 0
      BY <3>2, <1>3, MaxVidIs
    <3>4. stats[v] = Zero
      BY <3>3, <1>3 DEF Lean
    <3>5. ASSUME NEW k \in DOMAIN W PROVE W[k].virtual_id # v
      BY <3>1, <2>1, <1>4
    <3> QED
      BY <3>4, <3>5, <1>2
  <2>2. \A v \in Vid : (IF v < c THEN all[v] ELSE Zero) = all[v]
    BY <2>1
  <2>3. all = [v \in Vid |-> all[v]]
    BY <1>2
  <2> QED
    BY <2>2, <2>3, <1>1, Zenon
<1>6. Tasks(g, sv.todo, n)
  <2>1. /\ todo \in Seq(DOMAIN g) /\ IsInjective(todo) /\ DOMAIN g \subseteq 1 .. n
        /\ g \in [DOMAIN g -> SUBSET MWworkClasses]
    BY DEF Tasks, g
  <2>2. run \subseteq DOMAIN g /\ run \cap Range(todo) = {}
    BY DEF Busy, g
  <2>3. IsFiniteSet(run)
    <3>1. IsFiniteSet(1 .. n)
      BY FS_Interval
    <3> HIDE DEF run
    <3>2. run \in SUBSET (1 .. n)
      BY <2>1, <2>2, Zenon
    <3> QED
      BY <3>1, <3>2, FS_Subset
  <2> HIDE DEF run
  <2>4. SetToSeq(run) \in Seq(run) /\ IsInjective(SetToSeq(run))
    BY <2>3, Listed, Zenon
  <2>5. SetToSeq(run) \in Seq(DOMAIN g) /\ Range(SetToSeq(run)) \subseteq run
    BY <2>2, <2>4 DEF Range
  <2>6. Range(todo) \cap Range(SetToSeq(run)) = {}
    BY <2>2, <2>5
  <2>7. todo \o SetToSeq(run) \in Seq(DOMAIN g) /\ IsInjective(todo \o SetToSeq(run))
    BY <2>1, <2>4, <2>5, <2>6, Joined
  <2> QED
    BY <2>1, <2>7, <1>1 DEF Tasks
<1>7. Stored(sv, n)
  BY <1>1, <1>2, <1>3, <1>5, <1>6 DEF Stored
<1> QED
  BY <1>7 DEF sv

-----------------------------------------------------------------------------
(* The steps. *)

LEMMA Later ==
  ASSUME NEW n \in Nat
  PROVE  /\ \A g, t : Tasks(g, t, n) => Tasks(g, t, n + 1)
         /\ \A sv : Stored(sv, n) => Stored(sv, n + 1)
<1>1. 1 .. n \subseteq 1 .. n + 1
  OBVIOUS
<1>2. \A g, t : Tasks(g, t, n) => Tasks(g, t, n + 1)
  BY <1>1, Zenon DEF Tasks
<1> QED
  BY <1>2, Zenon DEF Stored

(* A list without workers. *)
LEMMA NobodyIs ==
  /\ <<>> \in Seq(WorkerID)
  /\ Crew(<<>>, {}, [c \in MWworkClasses |-> 0])
  /\ \A g, t : Busy(<<>>, g, t)
<1>1. \A c : Members(<<>>, c) = {}
  BY DEF Members
<1>2. \A c \in MWworkClasses : Cardinality(Members(<<>>, c)) = 0
  BY <1>1, FS_EmptySet
<1>3. [c \in MWworkClasses |-> 0] = [c \in MWworkClasses |-> Cardinality(Members(<<>>, c))]
  BY <1>2, Zenon
<1>4. Crew(<<>>, {}, [c \in MWworkClasses |-> 0])
  BY <1>3 DEF Crew
<1> QED
  BY <1>4 DEF Busy

LEMMA NobodysBooks ==
  ASSUME NEW s \in [Vid -> Amounts], \A v \in Vid : Lean(s[v]), NEW a \in Amounts,
         \A q \in DOMAIN Zero : a[q] = Total(IdTerms(s, q)), NEW tm \in Nat
  PROVE  Books(<<>>, s, a, tm)
<1>1. ASSUME NEW q \in DOMAIN Zero
      PROVE  a[q] = Total(IdTerms(s, q)) + Total(TermsAt(<<>>, tm, q))
  <2> DEFINE x == TermsAt(<<>>, tm, q)
             i == Total(IdTerms(s, q))
  <2>1. x \in [1 .. 0 -> Int] /\ 0 \in Nat
    BY DEF TermsAt
  <2>2. i \in Int /\ a[q] = i
    BY IdTermsType
  <2> HIDE DEF x
  <2>3. \A j \in 1 .. 0 : x[j] = 0
    OBVIOUS
  <2>4. Total(x) = 0
    BY <2>1, <2>3, TotalNone, Zenon
  <2> HIDE DEF i
  <2>5. a[q] = i + Total(x)
    BY <2>2, <2>4
  <2> QED
    BY <2>5, Zenon DEF i, x
<1> QED
  BY <1>1 DEF Books

LEMMA InitInv == Init => Inv
<1> SUFFICES ASSUME Init PROVE Inv
  OBVIOUS
<1>1. [v \in Vid |-> Zero] \in [Vid -> Amounts] /\ Zero \in Amounts
  BY Amount
<1>2. Crew(workers, vids, MWworkClassWorkers) /\ Busy(workers, groups, todo)
      /\ workers \in Seq(WorkerID)
  BY NobodyIs DEF Init
<1>3. Tasks(<<>>, <<>>, 0)
  BY DEF Tasks, IsInjective
<1>4. [c \in MWworkClasses |-> 0] = TaskCounts(<<>>)
  <2>1. \A c : {n \in DOMAIN <<>> : c \in (<<>>)[n]} = {}
    OBVIOUS
  <2>2. \A c \in MWworkClasses : Cardinality({n \in DOMAIN <<>> : c \in (<<>>)[n]}) = 0
    BY <2>1, FS_EmptySet
  <2> QED
    BY <2>2, Zenon DEF TaskCounts
<1>5. Books(workers, stats, spent, now)
  <2> DEFINE s == [v \in Vid |-> Zero]
  <2>1. \A v \in Vid : Lean(s[v])
    BY DEF Lean
  <2>2. ASSUME NEW q \in DOMAIN Zero PROVE Zero[q] = Total(IdTerms(s, q))
    <3>1. \A j \in 1 .. MW_MAX_WORKERS : IdTerms(s, q)[j] = 0
      BY VidsAreNumbers, Amount DEF IdTerms
    <3>2. IdTerms(s, q) \in [1 .. MW_MAX_WORKERS -> Int] /\ MW_MAX_WORKERS \in Nat
      BY <1>1, IdTermsType, VidsAreNumbers
    <3>3. Total(IdTerms(s, q)) = 0
      BY <3>1, <3>2, TotalNone, Zenon
    <3> QED
      BY <3>3, Amount
  <2>3. 1 \in Nat
    OBVIOUS
  <2> HIDE DEF s
  <2>4. Books(<<>>, s, Zero, 1)
    BY <1>1, <2>1, <2>2, <2>3, NobodysBooks DEF s
  <2> QED
    BY <2>4 DEF s, Init
<1>6. number \in 0 .. MaxTasks /\ now \in Nat \ {0} /\ crashes \in Nat
  BY StatsBounds DEF Init
<1>7. Tasks(groups, todo, number) /\ MWworkClassTasks = TaskCounts(groups)
      /\ stats \in [Vid -> Amounts] /\ spent \in Amounts /\ saved = NULL /\ Running
  BY <1>1, <1>3, <1>4 DEF Init, Running
<1> QED
  BY <1>2, <1>5, <1>6, <1>7 DEF Inv

LEMMA NextVidIsFree ==
  ASSUME Inv, Len(workers) < MW_MAX_WORKERS
  PROVE  NextVid \in Vid /\ NextVid \notin vids
<1>1. vids \subseteq Vid /\ Cardinality(vids) = Len(workers) /\ Len(workers) \in Nat
  BY CrewCount DEF Inv
<1>2. Cardinality(Vid) = MW_MAX_WORKERS /\ MW_MAX_WORKERS \in Nat /\ Vid \subseteq Nat
  BY VidsAreNumbers
<1>3. vids # Vid
  BY <1>1, <1>2
<1>4. (Vid \ vids) \in SUBSET Nat /\ Vid \ vids # {}
  BY <1>1, <1>2, <1>3
<1>5. \E x \in Vid \ vids : \A y \in Vid \ vids : x =< y
  BY <1>4, LeastNat, Zenon
<1>6. NextVid \in Vid \ vids
  BY <1>5, Zenon DEF NextVid, Min
<1> QED
  BY <1>6

LEMMA AddWorkerKeeps == ASSUME Inv, AddWorker PROVE Inv'
<1>1. /\ workers \in Seq(WorkerID) /\ Crew(workers, vids, MWworkClassWorkers)
      /\ Busy(workers, groups, todo) /\ Books(workers, stats, spent, now) /\ now \in Nat
  BY DEF Inv, AddWorker
<1>2. PICK G \in SUBSET MWworkClasses :
        /\ workers' = Append(workers,
                       [virtual_id |-> NextVid, state |-> "INITIALIZING",
                        isBenchMark |-> FALSE, start_time |-> 0,
                        total_working |-> 0, num_benchmark |-> 0,
                        runningtask |-> NoTask, group |-> G])
        /\ MWworkClassWorkers' = Counted(MWworkClassWorkers, G, 1)
  BY DEF AddWorker
<1> DEFINE w == [virtual_id |-> NextVid, state |-> "INITIALIZING",
                 isBenchMark |-> FALSE, start_time |-> 0,
                 total_working |-> 0, num_benchmark |-> 0,
                 runningtask |-> NoTask, group |-> G]
<1>3. NextVid \in Vid /\ NextVid \notin vids
  BY NextVidIsFree DEF AddWorker
<1>4. /\ w \in WorkerID /\ w.virtual_id = NextVid /\ w.group = G /\ w.start_time = 0
      /\ w.runningtask = NoTask /\ WorkerOK(w, now)
  BY <1>1, <1>3 DEF WorkerID, WorkerOK, NoTask
<1>5. workers' = Append(workers, w) /\ vids' = vids \cup {w.virtual_id}
      /\ MWworkClassWorkers' = Counted(MWworkClassWorkers, w.group, 1)
  BY <1>2, <1>4 DEF AddWorker
<1> HIDE DEF w
<1>6. Crew(workers', vids', MWworkClassWorkers')
  <2>1. Crew(Append(workers, w), vids \cup {w.virtual_id}, Counted(MWworkClassWorkers, w.group, 1))
    BY <1>1, <1>3, <1>4, AddedCrew
  <2> QED
    BY <2>1, <1>5
<1>7. Busy(workers', groups, todo)
  BY <1>1, <1>4, <1>5, BusyAdded
<1>8. Books(workers', stats, spent, now)
  BY <1>1, <1>4, <1>5, AddedBooks
<1>9. workers' \in Seq(WorkerID)
  BY <1>1, <1>4, <1>5, AppendedTo
<1> QED
  BY <1>6, <1>7, <1>8, <1>9 DEF Inv, AddWorker, Running

(* What a step that changes one worker, and at most todo, leaves to be shown. *)
LEMMA OneWorkerKeeps ==
  ASSUME Inv, Running, NEW k \in DOMAIN workers, NEW w \in WorkerID, Set(k, w),
         Crew(workers', vids, MWworkClassWorkers'), Busy(workers', groups, todo'),
         Tasks(groups, todo', number), Books(workers', stats, spent', now),
         UNCHANGED <<vids, stats, MWworkClassTasks, groups, now, saved, printed, number, crashes>>
  PROVE  Inv'
<1>1. workers' \in Seq(WorkerID)
  BY ReplacedIn DEF Inv, Set
<1>2. spent' \in Amounts /\ Running'
  BY DEF Books, Running
<1> QED
  BY <1>1, <1>2 DEF Inv

LEMMA WorkerInitKeeps ==
  ASSUME Inv, NEW k \in DOMAIN workers, WorkerInit(k) PROVE Inv'
<1>1. /\ workers \in Seq(WorkerID) /\ Crew(workers, vids, MWworkClassWorkers) /\ Running
      /\ Busy(workers, groups, todo) /\ Books(workers, stats, spent, now) /\ now \in Nat
      /\ Tasks(groups, todo, number)
  BY DEF Inv, WorkerInit
<1>2. PICK G \in SUBSET (MWworkClasses \ workers[k].group) :
        /\ Set(k, [workers[k] EXCEPT !.state = "BENCHMARKING", !.isBenchMark = TRUE,
                                    !.group = @ \cup G])
        /\ MWworkClassWorkers' = Counted(MWworkClassWorkers, G, 1)
  BY DEF WorkerInit
<1> DEFINE v == workers[k]
           w == [v EXCEPT !.state = "BENCHMARKING", !.isBenchMark = TRUE, !.group = @ \cup G]
<1>3. v \in WorkerID /\ WorkerOK(v, now) /\ v.state = "INITIALIZING"
  BY <1>1 DEF Books, WorkerInit
<1>4. Set(k, w)
  BY <1>2
<1> HIDE DEF v
<1>5. /\ w \in WorkerID /\ w.virtual_id = v.virtual_id /\ w.group = v.group \cup G
      /\ w.runningtask = NoTask /\ WorkerOK(w, now) /\ AmountAt(w, now) = AmountAt(v, now)
  <2>1. G \subseteq MWworkClasses
    OBVIOUS
  <2>2. w \in WorkerID /\ w.virtual_id = v.virtual_id /\ w.group = v.group \cup G
    BY <1>3, <2>1 DEF WorkerID
  <2>3. w.runningtask = NoTask /\ WorkerOK(w, now) /\ AmountAt(w, now) = AmountAt(v, now)
    BY <1>3 DEF WorkerOK, WorkerID, AmountAt
  <2> QED
    BY <2>2, <2>3
<1> HIDE DEF w
<1>6. workers' = [workers EXCEPT ![k] = w] /\ G \cap v.group = {}
  BY <1>4 DEF Set, v
<1>7. Crew(workers', vids, MWworkClassWorkers')
  <2>1. \A H : H \cap workers[k].group = {} /\ w.group = workers[k].group \cup H =>
          Crew([workers EXCEPT ![k] = w], vids, Counted(MWworkClassWorkers, H, 1))
    BY <1>1, <1>5, SetCrew DEF v
  <2>2. Crew([workers EXCEPT ![k] = w], vids, Counted(MWworkClassWorkers, G, 1))
    BY <2>1, <1>5, <1>6, Zenon DEF v
  <2> QED
    BY <2>2, <1>2, <1>6
<1>8. Busy(workers', groups, todo)
  BY <1>1, <1>5, <1>6, BusySet
<1>9. Books(workers', stats, spent, now)
  BY <1>1, <1>5, <1>6, SameBooks DEF v
<1> QED
  BY <1>1, <1>4, <1>5, <1>7, <1>8, <1>9, OneWorkerKeeps DEF WorkerInit

LEMMA HandleBenchmarkKeeps ==
  ASSUME Inv, NEW k \in DOMAIN workers, HandleBenchmark(k) PROVE Inv'
<1>1. /\ workers \in Seq(WorkerID) /\ Crew(workers, vids, MWworkClassWorkers) /\ Running
      /\ Busy(workers, groups, todo) /\ Books(workers, stats, spent, now) /\ now \in Nat \ {0}
      /\ Tasks(groups, todo, number) /\ spent \in Amounts
  BY DEF Inv, HandleBenchmark
<1> DEFINE v == workers[k]
           w == [v EXCEPT !.state = "IDLE", !.isBenchMark = FALSE,
                          !.start_time = now, !.num_benchmark = @ + 1]
           b == [spent EXCEPT !.bench = @ + 1]
<1>2. Set(k, w) /\ spent' = b /\ MWworkClassWorkers' = MWworkClassWorkers /\ todo' = todo
  BY DEF HandleBenchmark
<1>3. v \in WorkerID /\ WorkerOK(v, now) /\ v.isBenchMark
  BY <1>1 DEF Books, HandleBenchmark
<1> HIDE DEF v
<1>4. v.start_time = 0 /\ v.num_benchmark = 0 /\ v.total_working = 0 /\ v.runningtask = NoTask
  BY <1>3 DEF WorkerOK
<1>5. /\ w \in WorkerID /\ w.virtual_id = v.virtual_id /\ w.group = v.group
      /\ w.runningtask = NoTask /\ WorkerOK(w, now)
  <2> DEFINE n == v.num_benchmark + 1
             u == [v EXCEPT !.state = "IDLE", !.isBenchMark = FALSE]
             x == [u EXCEPT !.start_time = now, !.num_benchmark = n]
  <2>2. now \in Nat /\ n \in Nat
    BY <1>1, <1>4
  <2>3. /\ u \in WorkerID /\ u.virtual_id = v.virtual_id /\ u.group = v.group
        /\ u.runningtask = v.runningtask /\ u.state = "IDLE" /\ u.isBenchMark = FALSE
        /\ u.num_benchmark = v.num_benchmark
    BY <1>3 DEF WorkerID
  <2>4. w = x
    BY <1>3 DEF WorkerID
  <2> HIDE DEF n, u, w
  <2>5. /\ x \in WorkerID /\ x.virtual_id = u.virtual_id /\ x.group = u.group
        /\ x.runningtask = u.runningtask /\ x.state = u.state /\ x.isBenchMark = u.isBenchMark
        /\ x.start_time = now
    BY <2>2, <2>3 DEF WorkerID
  <2> HIDE DEF x
  <2>1. /\ w \in WorkerID /\ w.virtual_id = v.virtual_id /\ w.group = v.group
        /\ w.runningtask = v.runningtask /\ w.state = "IDLE" /\ w.isBenchMark = FALSE
        /\ w.start_time = now
    BY <2>3, <2>4, <2>5
  <2> QED
    BY <2>1, <1>1, <1>4 DEF WorkerOK
<1>6. b \in Amounts /\ b.up = spent.up /\ b.working = spent.working /\ b.bench = spent.bench + 1
      /\ spent.up \in Nat /\ spent.working \in Nat /\ spent.bench \in Nat
  BY <1>1 DEF Amounts
<1>7. AmountAt(v, now).up = 0 /\ AmountAt(v, now).working = 0 /\ AmountAt(v, now).bench = 0
  BY <1>4 DEF AmountAt
<1>8. AmountAt(w, now).up = 0 /\ AmountAt(w, now).working = 0 /\ AmountAt(w, now).bench = 1
  BY <1>1, <1>3, <1>4 DEF AmountAt, WorkerID
<1> HIDE DEF w, b
<1>9. \A q \in DOMAIN Zero : AmountAt(w, now)[q] = AmountAt(v, now)[q] + (b[q] - spent[q])
  <2>1. DOMAIN Zero = {"up", "working", "bench"}
    BY Amount
  <2>2. /\ AmountAt(w, now).up = AmountAt(v, now).up + (b.up - spent.up)
        /\ AmountAt(w, now).working = AmountAt(v, now).working + (b.working - spent.working)
        /\ AmountAt(w, now).bench = AmountAt(v, now).bench + (b.bench - spent.bench)
    BY <1>6, <1>7, <1>8
  <2> QED
    BY <2>1, <2>2
<1>10. workers' = [workers EXCEPT ![k] = w]
  BY <1>2 DEF Set
<1>11. Crew(workers', vids, MWworkClassWorkers')
  BY <1>1, <1>2, <1>5, <1>10, SetCrew DEF v
<1>12. Busy(workers', groups, todo')
  BY <1>1, <1>2, <1>5, <1>10, BusySet
<1>13. Books(workers', stats, spent', now)
  <2>1. Books([workers EXCEPT ![k] = w], stats, b, now)
    BY <1>1, <1>5, <1>6, <1>9, SetBooks DEF v
  <2> QED
    BY <2>1, <1>2, <1>10
<1> QED
  BY <1>1, <1>2, <1>5, <1>11, <1>12, <1>13, OneWorkerKeeps DEF HandleBenchmark

(* Only the state of a worker changes. *)
LEMMA StateChanges ==
  ASSUME Inv, Running, NEW k \in DOMAIN workers,
         NEW x \in {"SUSPENDED", "WORKING", "BENCHMARKING", "IDLE"},
         Set(k, [workers[k] EXCEPT !.state = x]), workers[k].state # "INITIALIZING",
         x = "IDLE" => ~workers[k].isBenchMark /\ workers[k].runningtask = NoTask,
         x = "BENCHMARKING" => workers[k].isBenchMark,
         UNCHANGED <<vids, stats, MWworkClassWorkers, MWworkClassTasks, groups, todo,
                     now, saved, printed, spent, number, hosts, crashes>>
  PROVE  Inv'
<1>1. /\ workers \in Seq(WorkerID) /\ Crew(workers, vids, MWworkClassWorkers)
      /\ Busy(workers, groups, todo) /\ Books(workers, stats, spent, now) /\ now \in Nat \ {0}
      /\ Tasks(groups, todo, number)
  BY DEF Inv
<1> DEFINE v == workers[k]
           w == [v EXCEPT !.state = x]
<1>2. v \in WorkerID /\ WorkerOK(v, now)
  BY <1>1 DEF Books
<1>3. /\ w \in WorkerID /\ w.virtual_id = v.virtual_id /\ w.group = v.group
      /\ w.runningtask = v.runningtask
      /\ w.start_time = v.start_time /\ w.total_working = v.total_working
      /\ w.num_benchmark = v.num_benchmark /\ w.isBenchMark = v.isBenchMark /\ w.state = x
  BY <1>2 DEF WorkerID
<1>4. WorkerOK(w, now) /\ AmountAt(w, now) = AmountAt(v, now)
  <2>1. v.state # "INITIALIZING" /\ w.state # "INITIALIZING"
    BY <1>3
  <2>2. /\ w.state = "IDLE" => ~v.isBenchMark /\ v.runningtask = NoTask
        /\ w.state = "BENCHMARKING" => v.isBenchMark
    BY <1>3
  <2> HIDE DEF v, w
  <2> QED
    BY <1>2, <1>3, <2>1, <2>2 DEF WorkerOK, AmountAt
<1>5. workers' = [workers EXCEPT ![k] = w] /\ Set(k, w)
  BY DEF Set
<1> HIDE DEF w
<1>6. Crew(workers', vids, MWworkClassWorkers')
  BY <1>1, <1>3, <1>5, SetCrew
<1>7. Busy(workers', groups, todo')
  BY <1>1, <1>3, <1>5, BusySet
<1>8. Books(workers', stats, spent', now)
  BY <1>1, <1>3, <1>4, <1>5, SameBooks
<1> QED
  BY <1>1, <1>3, <1>5, <1>6, <1>7, <1>8, OneWorkerKeeps

LEMMA SuspendKeeps ==
  ASSUME Inv, NEW k \in DOMAIN workers, HandleHostSuspend(k) PROVE Inv'
<1>1. Running /\ workers[k].state # "INITIALIZING"
      /\ Set(k, [workers[k] EXCEPT !.state = "SUSPENDED"])
  BY DEF HandleHostSuspend
<1> QED
  BY <1>1, StateChanges DEF HandleHostSuspend

LEMMA ResumeKeeps ==
  ASSUME Inv, NEW k \in DOMAIN workers, HandleHostResume(k) PROVE Inv'
<1> DEFINE x == IF workers[k].runningtask # NoTask THEN "WORKING"
                ELSE IF workers[k].isBenchMark THEN "BENCHMARKING" ELSE "IDLE"
<1>1. Running /\ workers[k].state # "INITIALIZING" /\ Set(k, [workers[k] EXCEPT !.state = x])
  BY DEF HandleHostResume
<1>2. /\ x \in {"SUSPENDED", "WORKING", "BENCHMARKING", "IDLE"}
      /\ x = "IDLE" => ~workers[k].isBenchMark /\ workers[k].runningtask = NoTask
      /\ x = "BENCHMARKING" => workers[k].isBenchMark
  OBVIOUS
<1> HIDE DEF x
<1> QED
  BY <1>1, <1>2, StateChanges DEF HandleHostResume

(* ended, of a worker that has begun before now or not at all *)
LEMMA EndedKeeps ==
  ASSUME Inv, Running, NEW k \in DOMAIN workers, Ended(k), workers[k].start_time < now,
         Tasks(groups, todo', number), Busy(RemoveAt(workers, k), groups, todo'),
         UNCHANGED <<MWworkClassTasks, groups, now, saved, printed, spent, number, hosts, crashes>>
  PROVE  Inv'
<1>1. /\ workers \in Seq(WorkerID) /\ Crew(workers, vids, MWworkClassWorkers)
      /\ Books(workers, stats, spent, now) /\ now \in Nat \ {0}
  BY DEF Inv
<1>2. Crew(workers', vids', MWworkClassWorkers') /\ workers' \in Seq(WorkerID)
  <2>1. Crew(RemoveAt(workers, k), vids \ {workers[k].virtual_id},
             Counted(MWworkClassWorkers, workers[k].group, -1))
    BY <1>1, RemovedCrew
  <2>2. RemoveAt(workers, k) \in Seq(WorkerID)
    BY <1>1, RemovedAt
  <2> QED
    BY <2>1, <2>2 DEF Ended
<1>3. Books(workers', stats', spent', now)
  <2>1. Books(RemoveAt(workers, k), Gathered(stats, workers[k]), spent, now)
    BY <1>1, RemovedBooks
  <2> QED
    BY <2>1 DEF Ended
<1>4. stats' \in [Vid -> Amounts] /\ spent' \in Amounts /\ Running'
      /\ workers' = RemoveAt(workers, k)
  BY <1>3 DEF Books, Running, Ended
<1> QED
  BY <1>2, <1>3, <1>4 DEF Inv

LEMMA LastRitesKeeps ==
  ASSUME Inv, NEW k \in DOMAIN workers, WorkerLastRites(k) PROVE Inv'
<1>1. Running /\ Ended(k) /\ workers[k].state \in {"INITIALIZING", "BENCHMARKING"}
      /\ workers \in Seq(WorkerID) /\ now \in Nat \ {0}
      /\ Tasks(groups, todo, number) /\ Busy(workers, groups, todo) /\ todo' = todo
  BY DEF WorkerLastRites, Inv
<1>2. WorkerOK(workers[k], now)
  BY <1>1 DEF Inv, Books
<1>3. workers[k].start_time < now
  BY <1>1, <1>2 DEF WorkerOK
<1>4. Busy(RemoveAt(workers, k), groups, todo')
  BY <1>1, BusyRemoved
<1> QED
  BY <1>1, <1>3, <1>4, EndedKeeps DEF WorkerLastRites

LEMMA HostDelKeeps ==
  ASSUME Inv, NEW k \in DOMAIN workers, HandleHostDel(k) PROVE Inv'
<1> DEFINE m == workers[k].runningtask
           V == RemoveAt(workers, k)
<1>1. Running /\ Ended(k) /\ workers[k].start_time < now /\ workers \in Seq(WorkerID)
      /\ Tasks(groups, todo, number) /\ Busy(workers, groups, todo) /\ number \in Nat
      /\ todo' = IF m = NoTask THEN todo ELSE <<m>> \o todo
  BY DEF HandleHostDel, Inv, HasLived
<1>2. Busy(V, groups, todo) /\ (m # NoTask => \A n \in DOMAIN V : V[n].runningtask # m)
  BY <1>1, BusyRemoved
<1>3. m # NoTask => m \in DOMAIN groups /\ m \notin Range(todo)
  BY <1>1 DEF Busy
<1> HIDE DEF m, V
<1>4. Tasks(groups, todo', number) /\ Busy(V, groups, todo')
  <2>1. CASE m = NoTask
    BY <2>1, <1>1, <1>2
  <2>2. CASE m # NoTask
    <3>1. Tasks(groups, <<m>> \o todo, number) /\ Busy(V, groups, <<m>> \o todo)
      BY <2>2, <1>1, <1>2, <1>3, TaskReturned
    <3> QED
      BY <3>1, <2>2, <1>1
  <2> QED
    BY <2>1, <2>2
<1> QED
  BY <1>1, <1>4, EndedKeeps DEF HandleHostDel, V

LEMMA AddTaskKeeps == ASSUME Inv, AddTask PROVE Inv'
<1>1. Running /\ number \in 0 .. MaxTasks /\ number < MaxTasks /\ MaxTasks \in Nat
      /\ Tasks(groups, todo, number) /\ Busy(workers, groups, todo)
  BY StatsBounds DEF AddTask, Inv
<1>2. PICK G \in SUBSET MWworkClasses :
        /\ groups' = WithTask(groups, number, G)
        /\ MWworkClassTasks' = Counted(MWworkClassTasks, G, 1)
  BY DEF AddTask, WithTask
<1>3. number \in Nat /\ number' = number + 1 /\ number' \in 0 .. MaxTasks
      /\ todo' = Append(todo, number + 1)
  BY <1>1 DEF AddTask
<1>4. /\ Tasks(WithTask(groups, number, G), Append(todo, number + 1), number + 1)
      /\ \A W : Busy(W, groups, todo) =>
           Busy(W, WithTask(groups, number, G), Append(todo, number + 1))
      /\ TaskCounts(WithTask(groups, number, G)) = Counted(TaskCounts(groups), G, 1)
  BY <1>1, <1>3, TaskAdded
<1>5. Tasks(groups', todo', number') /\ Busy(workers, groups', todo')
  BY <1>1, <1>2, <1>3, <1>4
<1>6. crashes' = 0 => MWworkClassTasks' = TaskCounts(groups')
  BY <1>2, <1>4 DEF Inv, AddTask
<1>7. saved' = NULL \/ Stored(saved', number')
  BY <1>3, Later DEF Inv, AddTask
<1> QED
  BY <1>3, <1>5, <1>6, <1>7 DEF Inv, AddTask, Running

LEMMA SendTaskKeeps ==
  ASSUME Inv, NEW k \in DOMAIN workers, SendTaskToWorker(k) PROVE Inv'
<1>1. /\ workers \in Seq(WorkerID) /\ Crew(workers, vids, MWworkClassWorkers) /\ Running
      /\ Busy(workers, groups, todo) /\ Books(workers, stats, spent, now) /\ now \in Nat \ {0}
      /\ Tasks(groups, todo, number) /\ number \in Nat
      /\ spent' = spent /\ MWworkClassWorkers' = MWworkClassWorkers
  BY DEF Inv, SendTaskToWorker
<1>2. PICK p \in DOMAIN todo :
        /\ DoesOverlap(workers[k].group, groups[todo[p]])
        /\ Set(k, [workers[k] EXCEPT !.state = "WORKING", !.runningtask = todo[p]])
        /\ todo' = RemoveAt(todo, p)
  BY DEF SendTaskToWorker
<1> DEFINE v == workers[k]
           w == [v EXCEPT !.state = "WORKING", !.runningtask = todo[p]]
<1>3. v \in WorkerID /\ WorkerOK(v, now) /\ v.state = "IDLE"
  BY <1>1 DEF Books, SendTaskToWorker
<1>4. todo[p] \in Nat
  BY <1>1 DEF Tasks
<1>5. Set(k, w) /\ workers' = [workers EXCEPT ![k] = w] /\ v.group \cap groups[todo[p]] # {}
  BY <1>2 DEF Set, DoesOverlap
<1> HIDE DEF v
<1>6. /\ w \in WorkerID /\ w.virtual_id = v.virtual_id /\ w.group = v.group
      /\ w.runningtask = todo[p] /\ WorkerOK(w, now) /\ AmountAt(w, now) = AmountAt(v, now)
  BY <1>3, <1>4 DEF WorkerID, WorkerOK, AmountAt
<1> HIDE DEF w
<1>7. Crew(workers', vids, MWworkClassWorkers')
  BY <1>1, <1>5, <1>6, SetCrew DEF v
<1>8. Tasks(groups, todo', number) /\ Busy(workers', groups, todo')
  <2>1. Tasks(groups, RemoveAt(todo, p), number)
        /\ Busy([workers EXCEPT ![k] = w], groups, RemoveAt(todo, p))
    BY <1>1, <1>5, <1>6, TaskSent
  <2> QED
    BY <2>1, <1>2, <1>5
<1>9. Books(workers', stats, spent', now)
  <2>1. Books([workers EXCEPT ![k] = w], stats, spent, now)
    BY <1>1, <1>6, SameBooks DEF v
  <2> QED
    BY <2>1, <1>1, <1>5
<1> QED
  BY <1>1, <1>5, <1>6, <1>7, <1>8, <1>9, OneWorkerKeeps DEF SendTaskToWorker

LEMMA TickKeeps == ASSUME Inv, Tick PROVE Inv'
<1>1. /\ workers \in Seq(WorkerID) /\ Running
      /\ Books(workers, stats, spent, now) /\ now \in Nat \ {0} /\ now' = now + 1
      /\ spent' =
           [spent EXCEPT !.up = @ + Cardinality({k \in DOMAIN workers : workers[k].start_time > 0})]
  BY DEF Inv, Tick
<1>2. Books(workers, stats, spent', now')
  <2>1. Books(workers, stats,
              [spent EXCEPT !.up =
                 @ + Cardinality({k \in DOMAIN workers : workers[k].start_time > 0})],
              now + 1)
    BY <1>1, TickedBooks
  <2> QED
    BY <2>1, <1>1
<1>3. spent' \in Amounts /\ now' \in Nat \ {0}
  BY <1>1, <1>2 DEF Books
<1> QED
  BY <1>2, <1>3 DEF Inv, Tick, Running

LEMMA RestartKeeps == ASSUME Inv, Restart PROVE Inv'
<1>1. /\ Stored(saved, number) /\ Running /\ crashes \in Nat /\ crashes' = crashes + 1
      /\ now \in Nat
      /\ workers' = <<>> /\ vids' = {} /\ MWworkClassWorkers' = [c \in MWworkClasses |-> 0]
  BY DEF Inv, Restart
<1>2. Crew(workers', vids', MWworkClassWorkers') /\ Busy(workers', groups', todo')
      /\ workers' \in Seq(WorkerID)
  BY <1>1, NobodyIs
<1>3. /\ saved.stats \in [Vid -> Amounts] /\ (\A v \in Vid : Lean(saved.stats[v]))
      /\ saved.spent \in Amounts
      /\ (\A q \in DOMAIN Zero : saved.spent[q] = Total(IdTerms(saved.stats, q)))
      /\ Tasks(saved.groups, saved.todo, number)
  BY <1>1 DEF Stored
<1>4. Books(<<>>, saved.stats, saved.spent, now)
  BY <1>1, <1>3, NobodysBooks
<1>5. Books(workers', stats', spent', now') /\ Tasks(groups', todo', number')
      /\ stats' \in [Vid -> Amounts] /\ spent' \in Amounts
  BY <1>1, <1>3, <1>4 DEF Restart
<1>6. crashes' \in Nat /\ crashes' # 0
  BY <1>1
<1> QED
  BY <1>2, <1>5, <1>6 DEF Inv, Restart, Running

(* The end. *)
LEMMA FinishKeeps == ASSUME Inv, Finish PROVE Inv'
<1> DEFINE all == FoldLeft(Gathered, stats, workers)
<1>1. /\ workers \in Seq(WorkerID) /\ Crew(workers, vids, MWworkClassWorkers) /\ Running
      /\ Busy(workers, groups, todo) /\ Books(workers, stats, spent, now) /\ now \in Nat \ {0}
      /\ spent \in Amounts
      /\ \A k \in DOMAIN workers : workers[k].start_time < now
  BY DEF Inv, Finish, HasLived
<1>2. /\ stats' = all
      /\ printed' = [q \in DOMAIN Zero |-> Total([j \in 1 .. MaxVid(all) |-> all[j - 1][q]])]
      /\ workers' = [k \in DOMAIN workers |-> AfterGather(workers[k])]
  BY DEF Finish
<1>3. /\ all \in [Vid -> Amounts] /\ (\A v \in Vid : Lean(all[v]))
      /\ \A q \in DOMAIN Zero : spent[q] = Total(IdTerms(all, q))
  BY <1>1, AllBooks
<1> HIDE DEF all
<1>4. printed' = spent /\ printed' # NULL
  <2>1. printed' = spent
    BY <1>1, <1>2, <1>3, PrintedIs
  <2>2. DOMAIN spent = {"up", "working", "bench"} /\ DOMAIN NULL = {}
    BY <1>1 DEF Amounts, NULL
  <2>3. "up" \in DOMAIN spent /\ "up" \notin DOMAIN NULL
    BY <2>2
  <2> QED
    BY <2>1, <2>3
<1>5. ASSUME NEW w \in WorkerID
      PROVE  LET x == AfterGather(w) IN
             /\ x \in WorkerID /\ x.virtual_id = w.virtual_id /\ x.group = w.group
             /\ x.runningtask = w.runningtask /\ x.start_time = now
  BY <1>1 DEF AfterGather, WorkerID
<1>6. \A k \in DOMAIN workers : workers[k] \in WorkerID /\ workers'[k] = AfterGather(workers[k])
  BY <1>1, <1>2
<1>7. DOMAIN workers' = DOMAIN workers /\ workers' \in Seq(WorkerID)
  <2>1. Len(workers) \in Nat /\ DOMAIN workers = 1 .. Len(workers)
    BY <1>1
  <2>2. workers' \in [1 .. Len(workers) -> WorkerID]
    BY <2>1, <1>2, <1>5, <1>6
  <2> QED
    BY <2>1, <2>2
<1>8. ASSUME NEW k \in DOMAIN workers
      PROVE  /\ workers'[k].virtual_id = workers[k].virtual_id
             /\ workers'[k].group = workers[k].group
             /\ workers'[k].runningtask = workers[k].runningtask
             /\ workers'[k].start_time = now
  BY <1>5, <1>6
<1>9. Crew(workers', vids', MWworkClassWorkers')
  <2>1. \A c : Members(workers', c) = Members(workers, c)
    BY <1>7, <1>8 DEF Members
  <2>2. vids' = vids /\ MWworkClassWorkers' = MWworkClassWorkers
    BY DEF Finish
  <2>3. vids = {workers'[k].virtual_id : k \in DOMAIN workers'}
    BY <1>1, <1>7, <1>8 DEF Crew
  <2>4. \A j, k \in DOMAIN workers' : workers'[j].virtual_id = workers'[k].virtual_id => j = k
    BY <1>1, <1>7, <1>8 DEF Crew
  <2> QED
    BY <1>1, <2>1, <2>2, <2>3, <2>4, Zenon DEF Crew
<1>10. Busy(workers', groups, todo)
  <2>1. \A k \in DOMAIN workers : workers'[k].runningtask # NoTask =>
          workers'[k].runningtask = workers[k].runningtask
            /\ workers[k].group \subseteq workers'[k].group
    BY <1>8
  <2> QED
    BY <1>1, <1>7, <2>1, BusyAlike, Zenon
<1>11. \A k \in DOMAIN workers' : workers'[k].start_time =< now
  BY <1>1, <1>7, <1>8
<1> QED
  BY <1>2, <1>3, <1>4, <1>7, <1>9, <1>10, <1>11 DEF Inv, Finish, Running

LEMMA KillWorkersKeeps == ASSUME Inv, KillWorkers PROVE Inv'
<1>1. /\ workers \in Seq(WorkerID) /\ Crew(workers, vids, MWworkClassWorkers) /\ ~Running
      /\ stats \in [Vid -> Amounts] /\ now \in Nat
      /\ \A k \in DOMAIN workers : workers[k].start_time =< now
      /\ workers' = <<>>
  BY DEF Inv, KillWorkers
<1>2. stats' \in [Vid -> Amounts]
  <2>1. workers \in Seq(Dated)
    <3>1. Len(workers) \in Nat /\ DOMAIN workers = 1 .. Len(workers)
          /\ workers = [k \in 1 .. Len(workers) |-> workers[k]]
      BY <1>1
    <3>2. \A k \in 1 .. Len(workers) : workers[k] \in Dated
      BY <1>1, <3>1 DEF Dated
    <3>3. workers \in [1 .. Len(workers) -> Dated]
      BY <3>1, <3>2
    <3> QED
      BY <3>1, <3>3
  <2>2. FoldLeft(Gathered, stats, workers) \in [Vid -> Amounts]
    BY <1>1, <2>1, GatheredAll
  <2> QED
    BY <2>2 DEF KillWorkers
<1>3. Crew(workers', vids', MWworkClassWorkers')
  <2>1. vids' = {}
    BY <1>1 DEF Crew, KillWorkers
  <2>2. \A c \in MWworkClasses :
          MWworkClassWorkers[c] - Cardinality({k \in DOMAIN workers : c \in workers[k].group}) = 0
    <3>1. ASSUME NEW c \in MWworkClasses
          PROVE  MWworkClassWorkers[c]
                   - Cardinality({k \in DOMAIN workers : c \in workers[k].group}) = 0
      <4>1. Cardinality(Members(workers, c)) \in Nat
        BY <1>1, MembersCount
      <4>2. MWworkClassWorkers[c] = Cardinality(Members(workers, c))
        BY <1>1 DEF Crew
      <4>3. Members(workers, c) = {k \in DOMAIN workers : c \in workers[k].group}
        BY DEF Members
      <4> QED
        BY <4>1, <4>2, <4>3
    <3> QED
      BY <3>1
  <2>3. MWworkClassWorkers' = [c \in MWworkClasses |-> 0]
    BY <2>2 DEF KillWorkers
  <2> QED
    BY <2>1, <2>3, <1>1, NobodyIs
<1>4. Busy(workers', groups, todo) /\ workers' \in Seq(WorkerID)
  BY <1>1, NobodyIs
<1>5. \A k \in DOMAIN workers' : workers'[k].start_time =< now
  BY <1>1
<1> QED
  BY <1>1, <1>2, <1>3, <1>4, <1>5 DEF Inv, KillWorkers, Running

(* What act_on_completed_task leaves of the worker and of the others. *)
LEMMA ResultIs ==
  ASSUME NEW w \in WorkerID, NEW tm \in Nat, WorkerOK(w, tm), NEW H \in SUBSET MWworkClasses
  PROVE  LET x == [w EXCEPT !.group = H] IN
         /\ x \in WorkerID /\ WorkerOK(x, tm) /\ AmountAt(x, tm) = AmountAt(w, tm)
         /\ x.virtual_id = w.virtual_id /\ x.group = H /\ x.start_time = w.start_time
         /\ x.runningtask = w.runningtask /\ x.total_working = w.total_working
<1> DEFINE x == [w EXCEPT !.group = H]
<1>1. /\ x \in WorkerID /\ x.virtual_id = w.virtual_id /\ x.group = H
      /\ x.start_time = w.start_time /\ x.runningtask = w.runningtask
      /\ x.total_working = w.total_working /\ x.state = w.state
      /\ x.isBenchMark = w.isBenchMark /\ x.num_benchmark = w.num_benchmark
  BY DEF WorkerID
<1> HIDE DEF x
<1>2. WorkerOK(x, tm) /\ AmountAt(x, tm) = AmountAt(w, tm)
  BY <1>1 DEF WorkerOK, AmountAt
<1> QED
  BY <1>1, <1>2 DEF x

LEMMA FreeIs ==
  ASSUME NEW w \in WorkerID, NEW tm \in Nat, WorkerOK(w, tm), w.runningtask # NoTask, NEW t \in Nat
  PROVE  LET x == [w EXCEPT !.runningtask = NoTask]
             y == [x EXCEPT !.state = "IDLE", !.total_working = @ + t]
         IN  /\ x \in WorkerID /\ WorkerOK(x, tm) /\ AmountAt(x, tm) = AmountAt(w, tm)
             /\ y \in WorkerID /\ WorkerOK(y, tm)
             /\ AmountAt(y, tm).up = AmountAt(w, tm).up
             /\ AmountAt(y, tm).working = AmountAt(w, tm).working + t
             /\ AmountAt(y, tm).bench = AmountAt(w, tm).bench
             /\ x.virtual_id = w.virtual_id /\ x.group = w.group /\ x.runningtask = NoTask
             /\ x.start_time = w.start_time
             /\ y.virtual_id = w.virtual_id /\ y.group = w.group /\ y.runningtask = NoTask
<1> DEFINE x == [w EXCEPT !.runningtask = NoTask]
           y == [x EXCEPT !.state = "IDLE", !.total_working = @ + t]
<1>1. /\ x \in WorkerID /\ x.virtual_id = w.virtual_id /\ x.group = w.group
      /\ x.start_time = w.start_time /\ x.runningtask = NoTask
      /\ x.total_working = w.total_working /\ x.state = w.state
      /\ x.isBenchMark = w.isBenchMark /\ x.num_benchmark = w.num_benchmark
  BY DEF WorkerID, NoTask
<1>2. w.start_time # 0 /\ ~w.isBenchMark /\ w.total_working \in Nat
  BY DEF WorkerOK, WorkerID
<1> HIDE DEF x
<1>3. /\ y \in WorkerID /\ y.virtual_id = w.virtual_id /\ y.group = w.group
      /\ y.start_time = w.start_time /\ y.runningtask = NoTask
      /\ y.total_working = w.total_working + t /\ y.state = "IDLE"
      /\ y.isBenchMark = w.isBenchMark /\ y.num_benchmark = w.num_benchmark
  <2> DEFINE n == x.total_working + t
             z == [x EXCEPT !.state = "IDLE", !.total_working = n]
  <2>1. n \in Nat /\ n = w.total_working + t
    BY <1>1, <1>2
  <2>2. y = z
    BY <1>1 DEF WorkerID
  <2> HIDE DEF n, y
  <2>3. /\ z \in WorkerID /\ z.virtual_id = x.virtual_id /\ z.group = x.group
        /\ z.start_time = x.start_time /\ z.runningtask = x.runningtask
        /\ z.total_working = n /\ z.state = "IDLE"
        /\ z.isBenchMark = x.isBenchMark /\ z.num_benchmark = x.num_benchmark
    BY <1>1, <2>1 DEF WorkerID
  <2> HIDE DEF z
  <2> QED
    BY <1>1, <2>1, <2>2, <2>3
<1> HIDE DEF y
<1>4. WorkerOK(x, tm) /\ AmountAt(x, tm) = AmountAt(w, tm)
  BY <1>1, <1>2 DEF WorkerOK, AmountAt
<1>5. WorkerOK(y, tm)
  BY <1>2, <1>3 DEF WorkerOK
<1>6. /\ AmountAt(y, tm).up = AmountAt(w, tm).up
      /\ AmountAt(y, tm).working = AmountAt(w, tm).working + t
      /\ AmountAt(y, tm).bench = AmountAt(w, tm).bench
  BY <1>3 DEF AmountAt
<1> QED
  BY <1>1, <1>3, <1>4, <1>5, <1>6 DEF x, y

LEMMA RefreshedAre ==
  ASSUME NEW k \in DOMAIN workers, NEW R \in AreRefreshed(k)
  PROVE  R \subseteq DOMAIN workers /\ \A j \in R : j = k \/ workers[j].state = "IDLE"
BY DEF AreRefreshed

LEMMA ResultsKeep ==
  ASSUME Inv, NEW k \in DOMAIN workers, HandleWorkerResults(k) PROVE Inv'
<1> DEFINE m == workers[k].runningtask
<1>1. /\ workers \in Seq(WorkerID) /\ Crew(workers, vids, MWworkClassWorkers) /\ Running
      /\ Busy(workers, groups, todo) /\ Books(workers, stats, spent, now)
      /\ now \in Nat \ {0} /\ now \in Nat
      /\ Tasks(groups, todo, number) /\ number \in Nat /\ m # NoTask /\ spent \in Amounts
  BY DEF Inv, HandleWorkerResults
<1>2. PICK R \in AreRefreshed(k), G \in SUBSET MWworkClasses,
           wall_time \in 0 .. now - workers[k].start_time, ckpt \in BOOLEAN :
       LET W == Refreshed(workers, R, G)
           free == [W EXCEPT ![k].runningtask = NoTask]
       IN  /\ R = {} => G = {}
           /\ ckpt => \A j \in DOMAIN workers : HasLived(j)
           /\ workers' = [free EXCEPT ![k].state = "IDLE",
                                      ![k].total_working = @ + wall_time]
           /\ MWworkClassWorkers' = Recounted(MWworkClassWorkers, workers, R, G)
           /\ spent' = [spent EXCEPT !.working = @ + wall_time]
           /\ saved' = IF ckpt THEN Checkpointed(free, DOMAIN groups \ {m}) ELSE saved
           /\ MWworkClassTasks' = WithoutTask(m)
           /\ groups' = Restrict(groups, DOMAIN groups \ {m})
  BY Zenon DEF HandleWorkerResults
<1> DEFINE W == Refreshed(workers, R, G)
           F == [W EXCEPT ![k].runningtask = NoTask]
           V == [F EXCEPT ![k].state = "IDLE", ![k].total_working = @ + wall_time]
           f == Restrict(groups, DOMAIN groups \ {m})
           b == [spent EXCEPT !.working = @ + wall_time]
<1>3. /\ ckpt => \A j \in DOMAIN workers : workers[j].start_time < now
      /\ workers' = V /\ spent' = b /\ groups' = f
      /\ MWworkClassWorkers' = Recounted(MWworkClassWorkers, workers, R, G)
      /\ saved' = IF ckpt THEN Checkpointed(F, DOMAIN groups \ {m}) ELSE saved
      /\ MWworkClassTasks' = Counted(MWworkClassTasks, groups[m], -1)
      /\ vids' = vids /\ stats' = stats /\ todo' = todo /\ now' = now /\ printed' = printed
      /\ number' = number /\ crashes' = crashes
  BY <1>2 DEF HasLived, WithoutTask, HandleWorkerResults
<1>4. wall_time \in Nat
  <2>1. workers[k] \in WorkerID
    BY <1>1
  <2> QED
    BY <2>1, <1>1
<1>5. R \subseteq DOMAIN workers /\ \A j \in R : j = k \/ workers[j].state = "IDLE"
  BY RefreshedAre
<1>6. ASSUME NEW j \in DOMAIN workers
      PROVE  workers[j] \in WorkerID /\ WorkerOK(workers[j], now)
  BY <1>1 DEF Books
<1>7. ASSUME NEW j \in DOMAIN workers
      PROVE  /\ W[j] \in WorkerID /\ WorkerOK(W[j], now)
             /\ AmountAt(W[j], now) = AmountAt(workers[j], now)
             /\ W[j].virtual_id = workers[j].virtual_id
             /\ W[j].group = IF j \in R THEN G ELSE workers[j].group
             /\ W[j].start_time = workers[j].start_time
             /\ W[j].runningtask = workers[j].runningtask
  <2>1. W[j] = IF j \in R THEN [workers[j] EXCEPT !.group = G] ELSE workers[j]
    BY DEF Refreshed
  <2> HIDE DEF W
  <2>2. CASE j \in R
    <3> DEFINE w == workers[j]
               g == [w EXCEPT !.group = G]
    <3>1. w \in WorkerID /\ WorkerOK(w, now) /\ now \in Nat /\ G \in SUBSET MWworkClasses
      BY <1>1, <1>6
    <3>2. W[j] = g
      BY <2>1, <2>2
    <3> HIDE DEF w
    <3>3. /\ g \in WorkerID /\ WorkerOK(g, now) /\ AmountAt(g, now) = AmountAt(w, now)
          /\ g.virtual_id = w.virtual_id /\ g.group = G /\ g.start_time = w.start_time
          /\ g.runningtask = w.runningtask /\ g.total_working = w.total_working
      BY <3>1, ResultIs
    <3> HIDE DEF g
    <3> QED
      BY <2>2, <3>2, <3>3 DEF w
  <2>3. CASE j \notin R
    BY <2>1, <2>3, <1>6
  <2> QED
    BY <2>2, <2>3
<1>8. DOMAIN W = DOMAIN workers /\ DOMAIN workers = 1 .. Len(workers) /\ Len(workers) \in Nat
  BY <1>1 DEF Refreshed
<1> DEFINE x == [W[k] EXCEPT !.runningtask = NoTask]
           y == [x EXCEPT !.state = "IDLE", !.total_working = @ + wall_time]
<1> HIDE DEF W
<1>9. /\ DOMAIN F = DOMAIN workers /\ F[k] = x
      /\ \A j \in DOMAIN workers : j # k => F[j] = W[j]
  BY <1>8
<1>10. /\ DOMAIN V = DOMAIN workers /\ V[k] = y
       /\ \A j \in DOMAIN workers : j # k => V[j] = W[j]
  BY <1>8
<1>11. /\ x \in WorkerID /\ WorkerOK(x, now) /\ AmountAt(x, now) = AmountAt(workers[k], now)
       /\ y \in WorkerID /\ WorkerOK(y, now)
       /\ AmountAt(y, now).up = AmountAt(workers[k], now).up
       /\ AmountAt(y, now).working = AmountAt(workers[k], now).working + wall_time
       /\ AmountAt(y, now).bench = AmountAt(workers[k], now).bench
       /\ x.virtual_id = workers[k].virtual_id /\ x.group = W[k].group /\ x.runningtask = NoTask
       /\ x.start_time = workers[k].start_time
       /\ y.virtual_id = workers[k].virtual_id /\ y.group = W[k].group /\ y.runningtask = NoTask
  <2> DEFINE w == W[k]
             a == [w EXCEPT !.runningtask = NoTask]
             c == [a EXCEPT !.state = "IDLE", !.total_working = @ + wall_time]
  <2>1. /\ w \in WorkerID /\ WorkerOK(w, now) /\ AmountAt(w, now) = AmountAt(workers[k], now)
        /\ w.virtual_id = workers[k].virtual_id /\ w.start_time = workers[k].start_time
        /\ w.runningtask # NoTask
    BY <1>1, <1>7
  <2> HIDE DEF w
  <2>2. /\ a \in WorkerID /\ WorkerOK(a, now) /\ AmountAt(a, now) = AmountAt(w, now)
        /\ c \in WorkerID /\ WorkerOK(c, now)
        /\ AmountAt(c, now).up = AmountAt(w, now).up
        /\ AmountAt(c, now).working = AmountAt(w, now).working + wall_time
        /\ AmountAt(c, now).bench = AmountAt(w, now).bench
        /\ a.virtual_id = w.virtual_id /\ a.group = w.group /\ a.runningtask = NoTask
        /\ a.start_time = w.start_time
        /\ c.virtual_id = w.virtual_id /\ c.group = w.group /\ c.runningtask = NoTask
    BY <1>1, <1>4, <2>1, FreeIs
  <2>3. x = a /\ y = c
    BY DEF w
  <2> HIDE DEF a, c, x, y
  <2> QED
    BY <2>1, <2>2, <2>3 DEF w
<1> HIDE DEF F, V, x, y, f, b
<1>12. \A j \in DOMAIN workers : F[j] \in WorkerID /\ WorkerOK(F[j], now)
         /\ AmountAt(F[j], now) = AmountAt(workers[j], now)
            /\ F[j].start_time = workers[j].start_time
  BY <1>7, <1>9, <1>11
<1>13. \A j \in DOMAIN workers : V[j] \in WorkerID /\ WorkerOK(V[j], now)
         /\ (j # k => AmountAt(V[j], now) = AmountAt(workers[j], now))
  BY <1>7, <1>10, <1>11
<1>14. F \in Seq(WorkerID) /\ V \in Seq(WorkerID)
  <2>1. F \in [1 .. Len(workers) -> WorkerID] /\ V \in [1 .. Len(workers) -> WorkerID]
    <3>1. F = [j \in DOMAIN F |-> F[j]] /\ V = [j \in DOMAIN V |-> V[j]]
      BY <1>8 DEF F, V
    <3> QED
      BY <3>1, <1>8, <1>9, <1>10, <1>12, <1>13
  <2> QED
    BY <2>1, <1>8
<1>15. Len(F) = Len(workers) /\ Len(V) = Len(workers)
  BY <1>8, <1>9, <1>10, <1>14
<1>16. Crew(V, vids, Recounted(MWworkClassWorkers, workers, R, G))
  <2>1. \A j \in DOMAIN workers :
          /\ V[j].virtual_id = workers[j].virtual_id
          /\ V[j].group = IF j \in R THEN G ELSE workers[j].group
    BY <1>7, <1>10, <1>11
  <2>2. R \in SUBSET (DOMAIN workers)
    BY <1>5
  <2> QED
    BY <1>1, <1>10, <2>1, <2>2, RefreshedCrew
<1>17. ASSUME NEW j \in DOMAIN workers, j # k, workers[j].runningtask # NoTask
       PROVE  W[j].group = workers[j].group /\ workers[j].runningtask # m
  <2>1. workers[j].state # "IDLE"
    BY <1>6, <1>17 DEF WorkerOK
  <2>2. j \notin R
    BY <2>1, <1>5, <1>17
  <2>3. workers[j].runningtask # m
    BY <1>1, <1>17 DEF Busy
  <2> QED
    BY <2>2, <2>3, <1>7
<1>18. Busy(F, groups, todo) /\ Busy(V, groups, todo)
       /\ (\A j \in DOMAIN workers : F[j].runningtask # m /\ V[j].runningtask # m)
  <2>1. ASSUME NEW j \in DOMAIN workers
        PROVE  /\ F[j].runningtask # NoTask =>
                    F[j].runningtask = workers[j].runningtask
                      /\ workers[j].group \subseteq F[j].group
               /\ V[j].runningtask # NoTask =>
                    V[j].runningtask = workers[j].runningtask
                      /\ workers[j].group \subseteq V[j].group
               /\ F[j].runningtask # m /\ V[j].runningtask # m
    <3>1. CASE j = k
      BY <3>1, <1>1, <1>9, <1>10, <1>11
    <3>2. CASE j # k
      <4>1. F[j] = W[j] /\ V[j] = W[j] /\ W[j].runningtask = workers[j].runningtask
        BY <3>2, <1>7, <1>9, <1>10
      <4>2. CASE workers[j].runningtask = NoTask
        BY <4>1, <4>2, <1>1
      <4>3. CASE workers[j].runningtask # NoTask
        BY <4>1, <4>3, <3>2, <1>17
      <4> QED
        BY <4>2, <4>3
    <3> QED
      BY <3>1, <3>2
  <2>2. Busy(F, groups, todo)
    BY <1>1, <1>9, <2>1, BusyAlike
  <2>3. Busy(V, groups, todo)
    BY <1>1, <1>10, <2>1, BusyAlike
  <2> QED
    BY <2>1, <2>2, <2>3
<1>19. m \in DOMAIN groups /\ m \notin Range(todo)
  BY <1>1 DEF Busy
<1>20. /\ Tasks(f, todo, number) /\ Busy(F, f, todo) /\ Busy(V, f, todo)
       /\ TaskCounts(f) = Counted(TaskCounts(groups), groups[m], -1)
  <2>1. /\ Tasks(f, todo, number)
        /\ \A U : Busy(U, groups, todo) /\ (\A j \in DOMAIN U : U[j].runningtask # m) =>
             Busy(U, f, todo)
        /\ TaskCounts(f) = Counted(TaskCounts(groups), groups[m], -1)
    <3> HIDE DEF m
    <3> QED
      BY <1>1, <1>19, TaskDone DEF f
  <2>2. (\A j \in DOMAIN F : F[j].runningtask # m) /\ \A j \in DOMAIN V : V[j].runningtask # m
    BY <1>9, <1>10, <1>18
  <2> QED
    BY <2>1, <2>2, <1>18
<1>21. b \in Amounts /\ b.up = spent.up /\ b.working = spent.working + wall_time
       /\ b.bench = spent.bench
       /\ spent.up \in Nat /\ spent.working \in Nat /\ spent.bench \in Nat
  BY <1>1, <1>4 DEF Amounts, b
<1>22. Books(V, stats, b, now)
  <2>1. \A q \in DOMAIN Zero : AmountAt(V[k], now)[q]
        = AmountAt(workers[k], now)[q] + (b[q] - spent[q])
    <3>1. DOMAIN Zero = {"up", "working", "bench"}
      BY Amount
    <3>2. AmountAt(workers[k], now) \in Amounts
      BY <1>1, <1>6, AmountsOf
    <3>3. /\ AmountAt(workers[k], now).up \in Nat /\ AmountAt(workers[k], now).working \in Nat
          /\ AmountAt(workers[k], now).bench \in Nat
      BY <3>2 DEF Amounts
    <3>4. /\ AmountAt(y, now).up = AmountAt(workers[k], now).up + (b.up - spent.up)
          /\ AmountAt(y, now).working
             = AmountAt(workers[k], now).working + (b.working - spent.working)
          /\ AmountAt(y, now).bench = AmountAt(workers[k], now).bench + (b.bench - spent.bench)
      BY <3>3, <1>4, <1>11, <1>21
    <3> QED
      BY <3>1, <3>4, <1>10
  <2>2. \A j \in DOMAIN workers : WorkerOK(V[j], now)
    BY <1>13
  <2>3. \A j \in DOMAIN workers : j # k => AmountAt(V[j], now) = AmountAt(workers[j], now)
    BY <1>13
  <2> QED
    BY <1>1, <1>14, <1>15, <1>21, <2>1, <2>2, <2>3, BooksOfOne, Zenon
<1>23. Books(F, stats, spent, now)
  <2>1. \A q \in DOMAIN Zero : AmountAt(F[k], now)[q]
        = AmountAt(workers[k], now)[q] + (spent[q] - spent[q])
    <3>1. ASSUME NEW q \in DOMAIN Zero
          PROVE  AmountAt(F[k], now)[q] = AmountAt(workers[k], now)[q] + (spent[q] - spent[q])
      <4>1. AmountAt(workers[k], now)[q] \in Nat /\ spent[q] \in Nat
        BY <1>1, <1>6, AmountsOf, Amount
      <4>2. AmountAt(F[k], now)[q] = AmountAt(workers[k], now)[q]
        BY <1>12
      <4> QED
        BY <4>1, <4>2
    <3> QED
      BY <3>1
  <2>2. \A j \in DOMAIN workers : WorkerOK(F[j], now)
    BY <1>12
  <2>3. \A j \in DOMAIN workers : j # k => AmountAt(F[j], now) = AmountAt(workers[j], now)
    BY <1>12
  <2> QED
    BY <1>1, <1>14, <1>15, <2>1, <2>2, <2>3, BooksOfOne, Zenon
<1>24. saved' = NULL \/ Stored(saved', number)
  <2>1. CASE ckpt
    <3>1. \A j \in DOMAIN F : F[j].start_time < now
      BY <2>1, <1>3, <1>9, <1>12
    <3>2. Stored(Checkpointed(F, DOMAIN groups \ {m}), number)
      BY <1>1, <1>14, <1>20, <1>23, <3>1, CheckpointStored DEF f
    <3> QED
      BY <2>1, <3>2, <1>3
  <2>2. CASE ~ckpt
    BY <2>2, <1>3 DEF Inv
  <2> QED
    BY <2>1, <2>2
<1>25. crashes = 0 => MWworkClassTasks' = TaskCounts(f)
  BY <1>3, <1>20 DEF Inv
<1> HIDE DEF m
<1> QED
  BY <1>1, <1>3, <1>14, <1>16, <1>20, <1>21, <1>22, <1>24, <1>25 DEF Inv, Running

LEMMA NextKeeps == Inv /\ [Next]_statsVars => Inv'
<1> SUFFICES ASSUME Inv, [Next]_statsVars PROVE Inv'
  OBVIOUS
<1>1. CASE AddWorker \/ AddTask \/ Restart \/ Finish \/ KillWorkers \/ Tick
  BY <1>1, AddWorkerKeeps, AddTaskKeeps, RestartKeeps, FinishKeeps, KillWorkersKeeps, TickKeeps
<1>2. ASSUME NEW k \in DOMAIN workers, WorkerInit(k) \/ HandleBenchmark(k) \/ WorkerLastRites(k)
      PROVE  Inv'
  BY <1>2, WorkerInitKeeps, HandleBenchmarkKeeps, LastRitesKeeps
<1>3. ASSUME NEW k \in DOMAIN workers,
             HandleHostDel(k) \/ HandleHostSuspend(k) \/ HandleHostResume(k)
      PROVE  Inv'
  BY <1>3, HostDelKeeps, SuspendKeeps, ResumeKeeps
<1>4. ASSUME NEW k \in DOMAIN workers, SendTaskToWorker(k) \/ HandleWorkerResults(k)
      PROVE  Inv'
  BY <1>4, SendTaskKeeps, ResultsKeep
<1>5. CASE UNCHANGED statsVars
  BY <1>5 DEF statsVars, Inv, Running
<1> QED
  BY <1>1, <1>2, <1>3, <1>4, <1>5 DEF Next

-----------------------------------------------------------------------------
(* The theorems. *)

(* The invariant holds in every state. *)
THEOREM StatsAreSound == Spec => []Inv
<1>1. Init => Inv
  BY InitInv
<1>2. Inv /\ [Next]_statsVars => Inv'
  BY NextKeeps
<1> QED
  BY <1>1, <1>2, PTL DEF Spec

(* get_next_vid and the places that free an id: no id is shared by two *)
(* workers of the list, and none is lost to a worker that has gone.    *)
THEOREM VidsOwned == Spec => []VidsAreOwn
<1>1. Inv => VidsAreOwn
  <2> SUFFICES ASSUME Inv PROVE VidsAreOwn
    OBVIOUS
  <2>1. workers \in Seq(WorkerID) /\ Crew(workers, vids, MWworkClassWorkers)
    BY DEF Inv
  <2>2. Cardinality(vids) = Len(workers)
    BY <2>1, CrewCount
  <2> QED
    BY <2>1, <2>2 DEF Crew, VidsAreOwn
<1> QED
  BY <1>1, StatsAreSound, PTL

(* gather, statsgather, write_checkpoint and makestats: nothing that a worker *)
(* has spent is lost or counted twice, and it is what is printed.             *)
THEOREM TotalsAreRight == Spec => []TotalsAddUp
<1>1. Inv => TotalsAddUp
  <2> SUFFICES ASSUME Inv PROVE TotalsAddUp
    OBVIOUS
  <2>1. CASE Running
    <3>1. \A q \in DOMAIN Zero :
            spent[q] = Total(IdTerms(stats, q)) + Total(TermsAt(workers, now, q))
      BY <2>1 DEF Inv, Books
    <3>2. \A q \in DOMAIN Zero :
            spent[q] = Total(IdTerms(stats, q)) + Total(OwnTerms(workers, q))
      BY <3>1, OwnIsAt, Zenon
    <3> QED
      BY <2>1, <3>2, Zenon DEF TotalsAddUp, IdTerms, OwnTerms
  <2>2. CASE ~Running
    BY <2>2 DEF Inv, TotalsAddUp
  <2> QED
    BY <2>1, <2>2
<1> QED
  BY <1>1, StatsAreSound, PTL

(* addGroup, deleteGroup and refreshWorkers: the counts of the classes are as *)
(* many as are in them, and a worker has no task but one of its classes.      *)
THEOREM ClassesCounted == Spec => []ClassesAreRight
<1>1. Inv => ClassesAreRight
  <2> SUFFICES ASSUME Inv PROVE ClassesAreRight
    OBVIOUS
  <2>1. /\ workers \in Seq(WorkerID) /\ Crew(workers, vids, MWworkClassWorkers)
        /\ Tasks(groups, todo, number) /\ Busy(workers, groups, todo)
        /\ number \in 0 .. MaxTasks /\ stats \in [Vid -> Amounts] /\ spent \in Amounts
        /\ crashes = 0 => MWworkClassTasks = TaskCounts(groups)
    BY DEF Inv
  <2>2. number \in Nat /\ MaxTasks \in Nat
    BY <2>1, StatsBounds
  <2>3. MWworkClassWorkers \in [MWworkClasses -> Nat]
        /\ \A c \in MWworkClasses :
             MWworkClassWorkers[c] = Cardinality({k \in DOMAIN workers : c \in workers[k].group})
    <3>1. \A c \in MWworkClasses : Cardinality(Members(workers, c)) \in Nat
      BY <2>1, MembersCount
    <3>2. MWworkClassWorkers = [c \in MWworkClasses |-> Cardinality(Members(workers, c))]
      BY <2>1 DEF Crew
    <3> QED
      BY <3>1, <3>2 DEF Members
  <2>4. crashes = 0 => MWworkClassTasks \in [MWworkClasses -> Nat] /\ TasksAreCounted
    <3>1. \A c \in MWworkClasses : Cardinality({n \in DOMAIN groups : c \in groups[n]}) \in Nat
      BY <2>1, <2>2, TaskMembers
    <3> QED
      BY <3>1, <2>1 DEF TaskCounts, TasksAreCounted
  <2>5. vids \subseteq Vid
    BY <2>1, CrewCount
  <2>6. /\ DOMAIN groups \subseteq 1 .. MaxTasks /\ Range(groups) \subseteq SUBSET MWworkClasses
        /\ Range(todo) \subseteq DOMAIN groups
    <3>1. 1 .. number \subseteq 1 .. MaxTasks
      BY <2>1, <2>2
    <3>2. /\ groups \in [DOMAIN groups -> SUBSET MWworkClasses]
          /\ DOMAIN groups \subseteq 1 .. number
          /\ todo \in Seq(DOMAIN groups)
      BY <2>1 DEF Tasks
    <3>3. Range(groups) \subseteq SUBSET MWworkClasses /\ Range(todo) \subseteq DOMAIN groups
      BY <3>2 DEF Range
    <3> QED
      BY <3>1, <3>2, <3>3
  <2>7. StatsTypeOK
    BY <2>1, <2>3, <2>4, <2>5, <2>6 DEF StatsTypeOK
  <2>8. \A k \in DOMAIN workers : workers[k].runningtask # NoTask =>
          workers[k].group \cap groups[workers[k].runningtask] # {}
    BY <2>1 DEF Busy
  <2> QED
    BY <2>3, <2>4, <2>7, <2>8 DEF ClassesAreRight
<1> QED
  BY <1>1, StatsAreSound, PTL
=============================================================================
