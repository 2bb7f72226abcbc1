---------------------------- MODULE MWHostsProofs ----------------------------
(***************************************************************************)
(* Proofs about the hosts of the Condor-PVM back end.  The invariant, HInv,  *)
(* says of the master's configuration that it has a target for every exec    *)
(* class, of the requests what has become of them (Account), of the driver's *)
(* list that it is counted (Crew), and of PVM's ids that each names one      *)
(* thing (Named) and that every end of a worker on the list is told of, once *)
(* for every worker there (Runs).                                            *)
(*                                                                           *)
(* First, what is found by an id, and what each event of PVM's does to Pool. *)
(* Then hostaddlogic: what is asked for a class fits what is missing (Given, *)
(* AskedForClassFits), and the classes in turn keep the account and no       *)
(* target is passed (AskForGrows, AskedGrows, CallKeepsAccount).  Then a     *)
(* lemma for each action, ...Keeps.                                          *)
(***************************************************************************)
EXTENDS MWHosts, MWSumsProofs

-----------------------------------------------------------------------------
(* Where the elements of sequence s are in S, and how many they are. *)
Hits(s, S) == {i \in DOMAIN s : s[i] \in S}

LEMMA HitsFinite ==
  ASSUME NEW X, NEW s \in Seq(X), NEW S
  PROVE  IsFiniteSet(Hits(s, S)) /\ Cardinality(Hits(s, S)) \in Nat
<1>1. Len(s) \in Nat /\ DOMAIN s = 1 .. Len(s)
  OBVIOUS
<1>2. IsFiniteSet(1 .. Len(s))
  BY <1>1, FS_Interval
<1>3. Hits(s, S) \in SUBSET (1 .. Len(s))
  BY <1>1 DEF Hits
<1>4. IsFiniteSet(Hits(s, S))
  BY <1>2, <1>3, FS_Subset
<1> QED
  BY <1>4, FS_CardinalityType

LEMMA HitsAppend ==
  ASSUME NEW X, NEW s \in Seq(X), NEW S, NEW x \in X
  PROVE  Cardinality(Hits(Append(s, x), S)) =
           Cardinality(Hits(s, S)) + IF x \in S THEN 1 ELSE 0
<1>1. /\ Len(s) \in Nat /\ DOMAIN s = 1 .. Len(s)
      /\ DOMAIN Append(s, x) = DOMAIN s \cup {Len(s) + 1}
      /\ \A n \in DOMAIN s : n # Len(s) + 1 /\ Append(s, x)[n] = s[n]
      /\ Append(s, x)[Len(s) + 1] = x
  OBVIOUS
<1>2. IsFiniteSet(Hits(s, S)) /\ Cardinality(Hits(s, S)) \in Nat
  BY HitsFinite
<1>3. CASE x \in S
  <2>1. Hits(Append(s, x), S) = Hits(s, S) \cup {Len(s) + 1} /\ Len(s) + 1 \notin Hits(s, S)
    BY <1>1, <1>3 DEF Hits
  <2> QED
    BY <2>1, <1>2, <1>3, FS_AddElement
<1>4. CASE x \notin S
  <2>1. Hits(Append(s, x), S) = Hits(s, S)
    BY <1>1, <1>4 DEF Hits
  <2> QED
    BY <2>1, <1>2, <1>4
<1> QED
  BY <1>3, <1>4

LEMMA HitsRemoved ==
  ASSUME NEW X, NEW s \in Seq(X), NEW S, NEW k \in DOMAIN s
  PROVE  Cardinality(Hits(RemoveAt(s, k), S)) =
           Cardinality(Hits(s, S)) - IF s[k] \in S THEN 1 ELSE 0
<1> DEFINE r == RemoveAt(s, k)
           A == Hits(r, S)
           B == Hits(s, S) \ {k}
           f == [n \in A |-> At(n, k)]
<1>1. /\ r \in Seq(X)
      /\ \A n \in DOMAIN r : At(n, k) \in DOMAIN s /\ At(n, k) # k /\ r[n] = s[At(n, k)]
      /\ \A m, n \in DOMAIN r : At(m, k) = At(n, k) => m = n
      /\ \A j \in DOMAIN s : j # k => \E n \in DOMAIN r : At(n, k) = j
  BY RemovedFrom
<1> HIDE DEF r
<1>2. IsFiniteSet(A) /\ IsFiniteSet(Hits(s, S)) /\ Cardinality(Hits(s, S)) \in Nat
  BY <1>1, HitsFinite
<1>3. f \in [A -> B]
  BY <1>1 DEF Hits
<1>4. \A m, n \in A : f[m] = f[n] => m = n
  BY <1>1 DEF Hits
<1>5. \A j \in B : \E n \in A : f[n] = j
  <2> TAKE j \in B
  <2>1. j \in DOMAIN s /\ j # k /\ s[j] \in S
    BY DEF Hits
  <2>2. PICK n \in DOMAIN r : At(n, k) = j
    BY <1>1, <2>1
  <2>3. n \in A
    BY <1>1, <2>1, <2>2 DEF Hits
  <2> QED
    BY <2>2, <2>3
<1>6. f \in Bijection(A, B)
  BY <1>3, <1>4, <1>5, Zenon DEF Bijection, Injection, Surjection, IsInjective
<1>7. Cardinality(A) = Cardinality(B)
  BY <1>2, <1>6, FS_Bijection DEF ExistsBijection
<1>8. Cardinality(B) = Cardinality(Hits(s, S)) - IF s[k] \in S THEN 1 ELSE 0
  <2>1. k \in Hits(s, S) <=> s[k] \in S
    BY DEF Hits
  <2>2. Cardinality(B) = IF k \in Hits(s, S) THEN Cardinality(Hits(s, S)) - 1
                         ELSE Cardinality(Hits(s, S))
    BY <1>2, FS_RemoveElement
  <2> QED
    BY <2>1, <2>2, <1>2
<1> QED
  BY <1>7, <1>8 DEF r

LEMMA HitsNone ==
  ASSUME NEW s, NEW S, \A i \in DOMAIN s : s[i] \notin S
  PROVE  Cardinality(Hits(s, S)) = 0
<1>1. Hits(s, S) = {}
  BY DEF Hits
<1> QED
  BY <1>1, FS_EmptySet

LEMMA HitsAll ==
  ASSUME NEW X, NEW s \in Seq(X), NEW S, \A i \in DOMAIN s : s[i] \in S
  PROVE  Cardinality(Hits(s, S)) = Len(s)
<1>1. Hits(s, S) = 1 .. Len(s) /\ Len(s) \in Nat
  BY DEF Hits
<1> QED
  BY <1>1, FS_Interval

LEMMA HitsJoined ==
  ASSUME NEW X, NEW s \in Seq(X), NEW t \in Seq(X), NEW S
  PROVE  Cardinality(Hits(s \o t, S)) =
           Cardinality(Hits(s, S)) + Cardinality(Hits(t, S))
<1> DEFINE m == Len(s)
           n == Len(t)
           r == s \o t
           A(k) == {i \in 1 .. m + k : r[i] \in S}
           B(k) == {i \in 1 .. k : t[i] \in S}
           N == {k \in 0 .. n : /\ IsFiniteSet(A(k)) /\ IsFiniteSet(B(k))
                                /\ Cardinality(A(k)) = Cardinality(A(0)) + Cardinality(B(k))}
<1>1. /\ m \in Nat /\ n \in Nat /\ DOMAIN s = 1 .. m /\ DOMAIN t = 1 .. n
      /\ DOMAIN r = 1 .. m + n
      /\ \A i \in 1 .. m + n : r[i] = IF i =< m THEN s[i] ELSE t[i - m]
  OBVIOUS
<1> HIDE DEF m, n, r
<1>2. A(0) = Hits(s, S) /\ A(n) = Hits(r, S) /\ B(n) = Hits(t, S) /\ B(0) = {}
  BY <1>1 DEF Hits
<1>3. IsFiniteSet(A(0)) /\ Cardinality(A(0)) \in Nat
  <2>1. IsFiniteSet(Hits(s, S)) /\ Cardinality(Hits(s, S)) \in Nat
    BY HitsFinite
  <2> QED
    BY <2>1, <1>2
<1>4. 0 \in N
  <2>1. Cardinality(B(0)) = 0 /\ IsFiniteSet(B(0))
    BY <1>2, FS_EmptySet
  <2> QED
    BY <2>1, <1>3, <1>1
<1>5. ASSUME NEW k \in 0 .. n - 1, k \in N PROVE k + 1 \in N
  <2>1. IsFiniteSet(A(k)) /\ IsFiniteSet(B(k))
        /\ Cardinality(A(k)) = Cardinality(A(0)) + Cardinality(B(k))
    BY <1>5
  <2>2. Cardinality(B(k)) \in Nat
    BY <2>1, FS_CardinalityType
  <2>3. r[m + (k + 1)] = t[k + 1] /\ k + 1 \in 0 .. n
    BY <1>1
  <2>4. 1 .. m + (k + 1) = (1 .. m + k) \cup {m + (k + 1)} /\ m + (k + 1) \notin 1 .. m + k
        /\ 1 .. k + 1 = (1 .. k) \cup {k + 1} /\ k + 1 \notin 1 .. k
    BY <1>1
  <2>5. CASE t[k + 1] \in S
    <3>1. A(k + 1) = A(k) \cup {m + (k + 1)} /\ m + (k + 1) \notin A(k)
      BY <2>3, <2>4, <2>5
    <3>2. B(k + 1) = B(k) \cup {k + 1} /\ k + 1 \notin B(k)
      BY <2>4, <2>5
    <3> HIDE DEF A, B
    <3>3. IsFiniteSet(A(k + 1)) /\ Cardinality(A(k + 1)) = Cardinality(A(k)) + 1
      BY <3>1, <2>1, FS_AddElement
    <3>4. IsFiniteSet(B(k + 1)) /\ Cardinality(B(k + 1)) = Cardinality(B(k)) + 1
      BY <3>2, <2>1, FS_AddElement
    <3> QED
      BY <3>3, <3>4, <2>1, <2>2, <2>3, <1>3
  <2>6. CASE t[k + 1] \notin S
    <3>1. A(k + 1) = A(k)
      BY <2>3, <2>4, <2>6
    <3>2. B(k + 1) = B(k)
      BY <2>4, <2>6
    <3> HIDE DEF A, B
    <3> QED
      BY <3>1, <3>2, <2>1, <2>3
  <2> QED
    BY <2>5, <2>6
<1> HIDE DEF N
<1>6. n \in N
  <2>1. n \in 0 .. n
    BY <1>1
  <2> QED
    BY <2>1, <1>1, <1>4, <1>5, UpTo
<1> QED
  BY <1>2, <1>6 DEF N, r

(* What Tail takes off a sequence is its first element. *)
LEMMA TailRemoves ==
  ASSUME NEW X, NEW s \in Seq(X), s # <<>>
  PROVE  1 \in DOMAIN s /\ Head(s) = s[1] /\ Tail(s) = RemoveAt(s, 1)
BY DEF RemoveAt

LEMMA CountIsHits ==
  ASSUME NEW s, NEW x
  PROVE  Count(s, x) = Cardinality(Hits(s, {x}))
<1>1. {i \in DOMAIN s : s[i] = x} = Hits(s, {x})
  BY DEF Hits
<1> QED
  BY <1>1 DEF Count

-----------------------------------------------------------------------------
(* The inductive invariant. *)

(* A configuration with a target for every exec class. *)
Configuration(r) == r \in RMComm /\ Len(r.exec_class_target) = r.exec_classes

(* The requests of every class and arch, and what has become of them. *)
Account(r, reqs, submit, pend, box, gone) ==
  /\ reqs \in [ExecClasses(r) -> [PvmClasses -> Nat]]
  /\ submit \in Seq([exec_class : ExecClasses(r), arch_class : PvmClasses])
  /\ pend \in [PvmClasses -> Nat] /\ gone \in [PvmClasses -> Nat]
  /\ \A a \in PvmClasses : OfArch(r, reqs, a) = pend[a] + Count(box, HostAdd(a)) + gone[a]
  /\ \A c \in ExecClasses(r), a \in PvmClasses :
       reqs[c][a] = Count(submit, [exec_class |-> c, arch_class |-> a])

(* The workers on the driver's list W are counted, exec class by exec class. *)
Crew(r, W, num) ==
  /\ W \in Seq([id1 : Nat, id2 : Nat, exec_class : ExecClasses(r)])
  /\ num = [c \in ExecClasses(r) |-> Cardinality({i \in DOMAIN W : W[i].exec_class = c})]

Ids(S) == {x.id : x \in S}
TaskExit(x) == [tag |-> "TASKEXIT", what |-> x]
HostDelete(x) == [tag |-> "HOSTDELETE", what |-> x]

(* The ids of the workers in W, of the hosts H that are up and of the workers  *)
(* Wd that PVM watches name one thing each, and box speaks of those that were. *)
Named(W, H, Wd, box) ==
  /\ \A g, h \in H : g.id = h.id => g = h
  /\ \A s, t \in Wd : s.id = t.id => s = t
  /\ \A i, j \in DOMAIN W : (W[i].id1 = W[j].id1 => i = j) /\ W[i].id1 # W[j].id2
  /\ \A i \in DOMAIN W : W[i].id1 \notin Ids(H) /\ W[i].id2 \notin Ids(Wd)
  /\ \A i \in DOMAIN W, t \in Wd : W[i].id1 = t.id => W[i].id2 = t.host
  /\ \A t \in Wd : t.id \notin Ids(H) /\ t.host \in Ids(H)
  /\ \A j \in DOMAIN box :
       /\ box[j].tag = "TASKEXIT" =>
            box[j].what \notin Ids(H) /\ \A i \in DOMAIN W : box[j].what # W[i].id2
       /\ box[j].tag = "HOSTDELETE" =>
            /\ box[j].what \notin Ids(H) /\ box[j].what \notin Ids(Wd)
            /\ \A i \in DOMAIN W : box[j].what # W[i].id1

(* A worker that runs, one of T, is on the list.  One on the list whose host is *)
(* up runs, or PVM has told of its exit.  Of a host that went PVM told as often *)
(* as there are workers of it on the list, or more often.                       *)
Runs(W, H, T, Wd, box) ==
  /\ \A t \in T : \E i \in DOMAIN W : W[i].id1 = t.id
  /\ \A j \in DOMAIN box : box[j].tag = "TASKEXIT" => box[j].what \notin Ids(T)
  /\ \A i \in DOMAIN W : W[i].id2 \in Ids(H) =>
       LET t == [id |-> W[i].id1, host |-> W[i].id2]
       IN  t \in Wd /\ (t \in T \/ \E j \in DOMAIN box : box[j] = TaskExit(t.id))
  /\ \A x \in {W[i].id2 : i \in DOMAIN W} \ Ids(H) :
       Cardinality({i \in DOMAIN W : W[i].id2 = x}) =< Count(box, HostDelete(x))

Posted == {HostAdd(a) : a \in PvmClasses} \cup {n \in Notice : n.tag # "HOSTADD"}

Pool(W, H, T, Wd, box) ==
  /\ H \subseteq Host /\ IsFiniteSet(H) /\ Wd \subseteq Spawned /\ IsFiniteSet(Wd)
  /\ T \subseteq Wd /\ box \in Seq(Posted)
  /\ Named(W, H, Wd, box) /\ Runs(W, H, T, Wd, box)

HInv ==
  /\ Configuration(rm) /\ Configuration(saved)
  /\ Crew(rm, workers, num_workers)
  /\ Pool(workers, hosts, tasks, watched, inbox)
  /\ IF hostadd_reqs = NULL
     THEN submit_list = <<>> /\ workers = <<>> /\ tasks = {} /\ watched = {} /\ inbox = <<>>
          /\ pending = None /\ lost = None
     ELSE Account(rm, hostadd_reqs, submit_list, pending, inbox, lost)
  /\ changes \in Nat /\ faults \in Nat /\ changes + faults <= MaxEvents

-----------------------------------------------------------------------------
(* Ids, and what is found by them. *)

LEMMA LeastIndex ==
  ASSUME NEW n \in Nat, NEW S \in SUBSET (1 .. n), S # {}
  PROVE  Min(S) \in S /\ \A y \in S : Min(S) =< y
<1>1. S \in SUBSET Nat
  OBVIOUS
<1>2. \E x \in S : \A y \in S : x =< y
  BY <1>1, LeastNat
<1> QED
  BY <1>2, Zenon DEF Min

LEMMA KnownIsThere ==
  ASSUME NEW X, workers \in Seq(X), NEW id
  PROVE  /\ Known(id) # 0 =>
              /\ Known(id) \in DOMAIN workers
              /\ workers[Known(id)].id1 = id \/ workers[Known(id)].id2 = id
         /\ Known(id) = 0 =>
              \A i \in DOMAIN workers : workers[i].id1 # id /\ workers[i].id2 # id
<1> DEFINE I == {i \in 1 .. Len(workers) : workers[i].id1 = id \/ workers[i].id2 = id}
<1>1. Len(workers) \in Nat /\ DOMAIN workers = 1 .. Len(workers)
  OBVIOUS
<1>2. Known(id) = IF I # {} THEN Min(I) ELSE 0
  BY DEF Known, SelectInSeq
<1>3. I # {} => Min(I) \in I
  BY <1>1, LeastIndex
<1> QED
  BY <1>1, <1>2, <1>3

LEMMA FirstIsThere ==
  ASSUME NEW X, submit_list \in Seq(X), NEW a, FirstRequest(a) # 0
  PROVE  FirstRequest(a) \in DOMAIN submit_list
         /\ submit_list[FirstRequest(a)].arch_class = a
<1> DEFINE I == {i \in 1 .. Len(submit_list) : submit_list[i].arch_class = a}
<1>1. Len(submit_list) \in Nat /\ DOMAIN submit_list = 1 .. Len(submit_list)
  OBVIOUS
<1>2. FirstRequest(a) = IF I # {} THEN Min(I) ELSE 0
  BY DEF FirstRequest, SelectInSeq
<1>3. I # {} => Min(I) \in I
  BY <1>1, LeastIndex
<1> QED
  BY <1>1, <1>2, <1>3

LEMMA PartsFinite ==
  ASSUME NEW X, NEW s \in Seq(X)
  PROVE  IsFiniteSet(DOMAIN s) /\ \A D \in SUBSET DOMAIN s : IsFiniteSet(D)
<1>1. Len(s) \in Nat /\ DOMAIN s = 1 .. Len(s)
  OBVIOUS
<1>2. IsFiniteSet(DOMAIN s)
  BY <1>1, FS_Interval
<1> QED
  BY <1>2, FS_Subset

LEMMA ImageFinite ==
  ASSUME NEW S, IsFiniteSet(S), NEW f, DOMAIN f = S
  PROVE  IsFiniteSet({f[x] : x \in S}) /\ Cardinality({f[x] : x \in S}) =< Cardinality(S)
<1> DEFINE T == {f[x] : x \in S}
           g == [x \in S |-> f[x]]
<1>1. g \in [S -> T] /\ \A y \in T : \E x \in S : g[x] = y
  OBVIOUS
<1>2. g \in Surjection(S, T)
  BY <1>1, Zenon DEF Surjection
<1> HIDE DEF g, T
<1>3. IsFiniteSet(T) /\ Cardinality(T) =< Cardinality(S)
  BY <1>2, FS_Surjection
<1> QED
  BY <1>3 DEF T

LEMMA KnownAreFinite ==
  ASSUME HInv
  PROVE  IsFiniteSet(KnownIds)
<1> DEFINE A == {h.id : h \in hosts}
           B == {t.id : t \in watched \cup tasks}
           C1 == {workers[i].id1 : i \in DOMAIN workers}
           C2 == {workers[i].id2 : i \in DOMAIN workers}
           J == {j \in DOMAIN inbox : inbox[j].tag # "HOSTADD"}
           D == {inbox[i].what : i \in J}
<1>1. IsFiniteSet(A)
  <2>1. IsFiniteSet(hosts)
    BY DEF HInv, Pool
  <2> DEFINE f == [h \in hosts |-> h.id]
  <2>2. DOMAIN f = hosts /\ A = {f[h] : h \in hosts}
    OBVIOUS
  <2> HIDE DEF f, A
  <2> QED
    BY <2>1, <2>2, ImageFinite
<1>2. IsFiniteSet(B)
  <2>1. IsFiniteSet(watched \cup tasks)
    <3>1. IsFiniteSet(watched) /\ watched \cup tasks = watched
      BY DEF HInv, Pool
    <3> QED
      BY <3>1
  <2> DEFINE S == watched \cup tasks
             f == [t \in S |-> t.id]
  <2>2. DOMAIN f = S /\ B = {f[t] : t \in S}
    OBVIOUS
  <2> HIDE DEF f, B
  <2> QED
    BY <2>1, <2>2, ImageFinite
<1>3. IsFiniteSet(C1) /\ IsFiniteSet(C2)
  <2> DEFINE f == [i \in DOMAIN workers |-> workers[i].id1]
             g == [i \in DOMAIN workers |-> workers[i].id2]
  <2>1. IsFiniteSet(DOMAIN workers)
    BY PartsFinite DEF HInv, Crew
  <2>2. /\ DOMAIN f = DOMAIN workers /\ C1 = {f[i] : i \in DOMAIN workers}
        /\ DOMAIN g = DOMAIN workers /\ C2 = {g[i] : i \in DOMAIN workers}
    OBVIOUS
  <2> HIDE DEF f, g, C1, C2
  <2> QED
    BY <2>1, <2>2, ImageFinite
<1>4. IsFiniteSet(D)
  <2>1. IsFiniteSet(J)
    <3>1. J \in SUBSET DOMAIN inbox
      OBVIOUS
    <3> QED
      BY <3>1, PartsFinite DEF HInv, Pool
  <2> DEFINE f == [j \in J |-> inbox[j].what]
  <2>2. DOMAIN f = J /\ D = {f[j] : j \in J}
    OBVIOUS
  <2> HIDE DEF J, f, D
  <2> QED
    BY <2>1, <2>2, ImageFinite
<1>5. KnownIds = A \cup B \cup C1 \cup C2 \cup D
  BY DEF KnownIds
<1> HIDE DEF A, B, C1, C2, J, D
<1>6. IsFiniteSet(A \cup B)
  BY <1>1, <1>2, FS_Union
<1>7. IsFiniteSet(A \cup B \cup C1)
  BY <1>3, <1>6, FS_Union
<1>8. IsFiniteSet(A \cup B \cup C1 \cup C2)
  BY <1>3, <1>7, FS_Union
<1>9. IsFiniteSet(A \cup B \cup C1 \cup C2 \cup D)
  BY <1>4, <1>8, FS_Union
<1> QED
  BY <1>5, <1>9

(* There are as many new ids as are asked for. *)
LEMMA FreshIdsAreNew ==
  ASSUME IsFiniteSet(KnownIds), NEW n \in Nat
  PROVE  /\ FreshIds(n) \in [1 .. n -> Nat \ KnownIds]
         /\ \A i, j \in 1 .. n : FreshIds(n)[i] = FreshIds(n)[j] => i = j
<1> DEFINE k == Cardinality(KnownIds)
           all == 1 .. k + n
           new == all \ KnownIds
           s == SetToSeq(new)
<1>1. k \in Nat
  BY FS_CardinalityType
<1> HIDE DEF k
<1>2. IsFiniteSet(all) /\ Cardinality(all) = k + n
  <2>1. 1 \in Int /\ k + n \in Int
    BY <1>1
  <2>2. IsFiniteSet(1 .. k + n)
        /\ Cardinality(1 .. k + n) = IF 1 > k + n THEN 0 ELSE (k + n) - 1 + 1
    BY <2>1, FS_Interval
  <2> QED
    BY <1>1, <2>2
<1> HIDE DEF all
<1>3. IsFiniteSet(new) /\ Cardinality(new) = Cardinality(all) - Cardinality(all \cap KnownIds)
  BY <1>2, FS_Difference
<1>4. Cardinality(all \cap KnownIds) \in Nat /\ Cardinality(all \cap KnownIds) =< k
  <2>1. IsFiniteSet(all \cap KnownIds) /\ Cardinality(all \cap KnownIds) =< Cardinality(KnownIds)
    BY FS_Intersection
  <2> QED
    BY <2>1, FS_CardinalityType DEF k
<1>5. Cardinality(new) \in Nat /\ Cardinality(new) >= n
  BY <1>1, <1>2, <1>3, <1>4
<1>6. new \in SUBSET (Nat \ KnownIds)
  BY <1>1 DEF all
<1> HIDE DEF new
<1>7. s \in [1 .. Cardinality(new) -> new] /\ IsInjective(s)
  <2>1. Cardinality(new) \in Nat /\ ExistsBijection(1 .. Cardinality(new), new)
    BY <1>3, FS_CardinalityType
  <2>2. \E f \in [1 .. Cardinality(new) -> new] : IsInjective(f)
    BY <2>1, Zenon DEF ExistsBijection, Bijection, Injection
  <2> QED
    BY <2>2, Zenon DEF SetToSeq
<1> HIDE DEF s
<1>8. FreshIds(n) = SubSeq(s, 1, n)
  BY DEF FreshIds, s, new, all, k
<1>9. SubSeq(s, 1, n) \in [1 .. n -> new] /\ \A i \in 1 .. n : SubSeq(s, 1, n)[i] = s[i]
  <2>1. s \in Seq(new) /\ Len(s) = Cardinality(new)
    BY <1>5, <1>7
  <2>2. SubSeq(s, 1, n) = [i \in 1 .. n |-> s[i]]
    BY <1>5, <2>1
  <2>3. \A i \in 1 .. n : s[i] \in new
    BY <1>5, <1>7
  <2> QED
    BY <2>2, <2>3
<1>10. \A i, j \in 1 .. n : s[i] = s[j] => i = j
  BY <1>5, <1>7 DEF IsInjective
<1> QED
  BY <1>6, <1>8, <1>9, <1>10

-----------------------------------------------------------------------------
(* What becomes of the pool when the master reads a message. *)

(* Messages that were there already, and others that name nothing there is. *)
LEMMA NamedBy ==
  ASSUME NEW W, NEW H, NEW Wd, NEW box, NEW b, Named(W, H, Wd, box),
         \A n \in DOMAIN b : \E j \in DOMAIN box : b[n] = box[j]
  PROVE  Named(W, H, Wd, b)
<1>1. ASSUME NEW n \in DOMAIN b
      PROVE  /\ b[n].tag = "TASKEXIT" =>
                  b[n].what \notin Ids(H) /\ \A i \in DOMAIN W : b[n].what # W[i].id2
             /\ b[n].tag = "HOSTDELETE" =>
                  /\ b[n].what \notin Ids(H) /\ b[n].what \notin Ids(Wd)
                  /\ \A i \in DOMAIN W : b[n].what # W[i].id1
  <2>1. PICK j \in DOMAIN box : b[n] = box[j]
    OBVIOUS
  <2>2. /\ box[j].tag = "TASKEXIT" =>
             box[j].what \notin Ids(H) /\ \A i \in DOMAIN W : box[j].what # W[i].id2
        /\ box[j].tag = "HOSTDELETE" =>
             /\ box[j].what \notin Ids(H) /\ box[j].what \notin Ids(Wd)
             /\ \A i \in DOMAIN W : box[j].what # W[i].id1
    BY Zenon DEF Named
  <2> QED
    BY <2>1, <2>2, Zenon
<1> QED
  BY <1>1, Zenon DEF Named

LEMMA CountTail ==
  ASSUME NEW X, NEW box \in Seq(X), box # <<>>, NEW x
  PROVE  Count(box, x) \in Nat
         /\ Count(Tail(box), x) = Count(box, x) - IF Head(box) = x THEN 1 ELSE 0
<1>1. 1 \in DOMAIN box /\ Head(box) = box[1] /\ Tail(box) = RemoveAt(box, 1)
  BY TailRemoves
<1>2. Cardinality(Hits(RemoveAt(box, 1), {x})) =
        Cardinality(Hits(box, {x})) - IF box[1] \in {x} THEN 1 ELSE 0
  BY <1>1, HitsRemoved
<1>3. Cardinality(Hits(box, {x})) \in Nat
  BY HitsFinite
<1>4. Count(box, x) = Cardinality(Hits(box, {x}))
      /\ Count(Tail(box), x) = Cardinality(Hits(RemoveAt(box, 1), {x}))
  BY <1>1, CountIsHits
<1> QED
  BY <1>1, <1>2, <1>3, <1>4

(* Nobody on the list is who the message is about. *)
Idle(W, m) == m.tag = "HOSTADD" \/ \A i \in DOMAIN W : W[i].id1 # m.what /\ W[i].id2 # m.what

LEMMA TailOf ==
  ASSUME NEW X, NEW box \in Seq(X), box # <<>>
  PROVE  /\ Tail(box) \in Seq(X)
         /\ \A n \in DOMAIN Tail(box) : \E j \in DOMAIN box : Tail(box)[n] = box[j]
         /\ \A j \in DOMAIN box : box[j] # Head(box) =>
              \E n \in DOMAIN Tail(box) : Tail(box)[n] = box[j]
<1>1. 1 \in DOMAIN box /\ Head(box) = box[1] /\ Tail(box) = RemoveAt(box, 1)
  BY TailRemoves
<1> DEFINE r == RemoveAt(box, 1)
<1>2. /\ r \in Seq(X)
      /\ \A n \in DOMAIN r : At(n, 1) \in DOMAIN box /\ At(n, 1) # 1 /\ r[n] = box[At(n, 1)]
      /\ \A j \in DOMAIN box : j # 1 => \E n \in DOMAIN r : At(n, 1) = j
  BY <1>1, RemovedFrom
<1> HIDE DEF r
<1>3. ASSUME NEW j \in DOMAIN box, box[j] # Head(box) PROVE \E n \in DOMAIN r : r[n] = box[j]
  <2>1. j # 1
    BY <1>1, <1>3
  <2>2. PICK n \in DOMAIN r : At(n, 1) = j
    BY <2>1, <1>2
  <2> QED
    BY <2>2, <1>2
<1>4. Tail(box) = r
  BY <1>1 DEF r
<1> QED
  BY <1>2, <1>3, <1>4

LEMMA PoolReads ==
  ASSUME NEW W, NEW H, NEW T, NEW Wd, NEW box, Pool(W, H, T, Wd, box), box # <<>>,
         Idle(W, Head(box))
  PROVE  Pool(W, H, T, Wd, Tail(box))
<1> DEFINE b == Tail(box)
<1>1. box \in Seq(Posted)
  BY DEF Pool
<1>2. /\ b \in Seq(Posted)
      /\ \A n \in DOMAIN b : \E j \in DOMAIN box : b[n] = box[j]
      /\ \A j \in DOMAIN box : box[j] # Head(box) => \E n \in DOMAIN b : b[n] = box[j]
  BY <1>1, TailOf
<1>3. \A x : Count(box, x) \in Nat
             /\ Count(b, x) = Count(box, x) - IF Head(box) = x THEN 1 ELSE 0
  BY <1>1, CountTail
<1> HIDE DEF b
<1>4. Named(W, H, Wd, b)
  BY <1>2, NamedBy DEF Pool
<1>5. Runs(W, H, T, Wd, b)
  <2>1. \A t \in T : \E i \in DOMAIN W : W[i].id1 = t.id
    BY DEF Pool, Runs
  <2>2. ASSUME NEW n \in DOMAIN b, b[n].tag = "TASKEXIT" PROVE b[n].what \notin Ids(T)
    <3>1. PICK j \in DOMAIN box : b[n] = box[j]
      BY <1>2
    <3> QED
      BY <2>2, <3>1, Zenon DEF Pool, Runs
  <2>3. ASSUME NEW i \in DOMAIN W, W[i].id2 \in Ids(H),
               NEW t, t = [id |-> W[i].id1, host |-> W[i].id2]
        PROVE  t \in Wd /\ (t \in T \/ \E n \in DOMAIN b : b[n] = TaskExit(t.id))
    <3>1. t \in Wd /\ (t \in T \/ \E j \in DOMAIN box : box[j] = TaskExit(t.id))
      BY <2>3 DEF Pool, Runs
    <3>2. ASSUME NEW j \in DOMAIN box, box[j] = TaskExit(t.id)
          PROVE  \E n \in DOMAIN b : b[n] = TaskExit(t.id)
      <4>1. Head(box) # TaskExit(t.id)
        BY <2>3 DEF Idle, TaskExit
      <4> QED
        BY <4>1, <3>2, <1>2
    <3> QED
      BY <3>1, <3>2
  <2>4. ASSUME NEW x \in {W[i].id2 : i \in DOMAIN W} \ Ids(H)
        PROVE  Cardinality({i \in DOMAIN W : W[i].id2 = x}) =< Count(b, HostDelete(x))
    <3>1. Head(box) # HostDelete(x)
      BY <2>4 DEF Idle, HostDelete
    <3>2. Count(b, HostDelete(x)) = Count(box, HostDelete(x))
      BY <3>1, <1>3
    <3> QED
      BY <3>2, Zenon DEF Pool, Runs
  <2> QED
    BY <2>1, <2>2, <2>3, <2>4 DEF Runs
<1> QED
  BY <1>2, <1>4, <1>5 DEF Pool, b

(* Of a shorter list of workers nothing else is said. *)
LEMMA NamedWithout ==
  ASSUME NEW X, NEW W \in Seq(X), NEW H, NEW Wd, NEW box, Named(W, H, Wd, box),
         NEW k \in DOMAIN W
  PROVE  Named(RemoveAt(W, k), H, Wd, box)
<1> DEFINE V == RemoveAt(W, k)
<1>1. /\ V \in Seq(X)
      /\ \A n \in DOMAIN V : At(n, k) \in DOMAIN W /\ At(n, k) # k /\ V[n] = W[At(n, k)]
      /\ \A m, n \in DOMAIN V : At(m, k) = At(n, k) => m = n
  BY RemovedFrom
<1> HIDE DEF V
<1>2. ASSUME NEW m \in DOMAIN V, NEW n \in DOMAIN V
      PROVE  (V[m].id1 = V[n].id1 => m = n) /\ V[m].id1 # V[n].id2
  <2>1. /\ At(m, k) \in DOMAIN W /\ At(n, k) \in DOMAIN W
        /\ V[m] = W[At(m, k)] /\ V[n] = W[At(n, k)]
    BY <1>1
  <2>2. (W[At(m, k)].id1 = W[At(n, k)].id1 => At(m, k) = At(n, k))
        /\ W[At(m, k)].id1 # W[At(n, k)].id2
    BY <2>1, Zenon DEF Named
  <2> QED
    BY <1>1, <2>1, <2>2
<1>3. ASSUME NEW n \in DOMAIN V
      PROVE  /\ V[n].id1 \notin Ids(H) /\ V[n].id2 \notin Ids(Wd)
             /\ \A t \in Wd : V[n].id1 = t.id => V[n].id2 = t.host
             /\ \A j \in DOMAIN box :
                  /\ box[j].tag = "TASKEXIT" => box[j].what # V[n].id2
                  /\ box[j].tag = "HOSTDELETE" => box[j].what # V[n].id1
  <2>1. At(n, k) \in DOMAIN W /\ V[n] = W[At(n, k)]
    BY <1>1
  <2> DEFINE w == W[At(n, k)]
  <2>2. /\ w.id1 \notin Ids(H) /\ w.id2 \notin Ids(Wd)
        /\ \A t \in Wd : w.id1 = t.id => w.id2 = t.host
        /\ \A j \in DOMAIN box :
             /\ box[j].tag = "TASKEXIT" => box[j].what # w.id2
             /\ box[j].tag = "HOSTDELETE" => box[j].what # w.id1
    BY <2>1, Zenon DEF Named
  <2> HIDE DEF w
  <2>3. V[n] = w
    BY <2>1 DEF w
  <2> QED
    BY <2>2, <2>3
<1>4. Named(V, H, Wd, box)
  BY <1>2, <1>3, Zenon DEF Named
<1> QED
  BY <1>4 DEF V

LEMMA HostCountRemoved ==
  ASSUME NEW X, NEW W \in Seq(X), NEW k \in DOMAIN W, NEW x
  PROVE  /\ Cardinality({i \in DOMAIN W : W[i].id2 = x}) \in Nat
         /\ Cardinality({i \in DOMAIN RemoveAt(W, k) : RemoveAt(W, k)[i].id2 = x}) =
              Cardinality({i \in DOMAIN W : W[i].id2 = x}) - IF W[k].id2 = x THEN 1 ELSE 0
<1> DEFINE S == {w \in X : w.id2 = x}
           V == RemoveAt(W, k)
<1>1. V \in Seq(X)
  BY RemovedAt
<1>2. Cardinality(Hits(V, S)) = Cardinality(Hits(W, S)) - IF W[k] \in S THEN 1 ELSE 0
  BY HitsRemoved
<1>3. Cardinality(Hits(W, S)) \in Nat
  BY HitsFinite
<1> HIDE DEF V
<1>4. /\ {i \in DOMAIN W : W[i].id2 = x} = Hits(W, S)
      /\ {i \in DOMAIN V : V[i].id2 = x} = Hits(V, S)
      /\ W[k] \in S <=> W[k].id2 = x
  BY <1>1 DEF Hits
<1> QED
  BY <1>2, <1>3, <1>4 DEF V

LEMMA PoolLoses ==
  ASSUME NEW X, NEW W \in Seq(X), NEW H, NEW T, NEW Wd, NEW box,
         Pool(W, H, T, Wd, box), box # <<>>, NEW i \in DOMAIN W,
         Head(box).tag \in {"TASKEXIT", "HOSTDELETE"},
         W[i].id1 = Head(box).what \/ W[i].id2 = Head(box).what
  PROVE  Pool(RemoveAt(W, i), H, T, Wd, Tail(box))
<1> DEFINE b == Tail(box)
           V == RemoveAt(W, i)
           m == Head(box)
<1>1. box \in Seq(Posted) /\ Named(W, H, Wd, box) /\ T \subseteq Wd
  BY DEF Pool
<1>2. /\ b \in Seq(Posted)
      /\ \A n \in DOMAIN b : \E j \in DOMAIN box : b[n] = box[j]
      /\ \A j \in DOMAIN box : box[j] # m => \E n \in DOMAIN b : b[n] = box[j]
  BY <1>1, TailOf
<1>3. \A x : Count(box, x) \in Nat
             /\ Count(b, x) = Count(box, x) - IF m = x THEN 1 ELSE 0
  BY <1>1, CountTail
<1>4. 1 \in DOMAIN box /\ m = box[1]
  BY <1>1, TailRemoves
<1>5. Named(V, H, Wd, b)
  <2>1. Named(W, H, Wd, b)
    BY <1>1, <1>2, NamedBy
  <2> QED
    BY <2>1, NamedWithout
<1>6. /\ \A n \in DOMAIN V : At(n, i) \in DOMAIN W /\ At(n, i) # i /\ V[n] = W[At(n, i)]
      /\ \A j \in DOMAIN W : j # i => \E n \in DOMAIN V : At(n, i) = j
  BY RemovedFrom
<1>7. \A x : /\ Cardinality({k \in DOMAIN W : W[k].id2 = x}) \in Nat
             /\ Cardinality({k \in DOMAIN V : V[k].id2 = x}) =
                  Cardinality({k \in DOMAIN W : W[k].id2 = x})
                    - IF W[i].id2 = x THEN 1 ELSE 0
  BY HostCountRemoved
<1> HIDE DEF b, V, m
<1>8. /\ m.tag = "TASKEXIT" => m.what # W[i].id2 /\ m.what \notin Ids(T)
      /\ m.tag = "HOSTDELETE" => m.what # W[i].id1 /\ m.what \notin Ids(H)
  <2>1. /\ box[1].tag = "TASKEXIT" => box[1].what # W[i].id2
        /\ box[1].tag = "HOSTDELETE" => box[1].what # W[i].id1 /\ box[1].what \notin Ids(H)
    BY <1>1, <1>4, Zenon DEF Named
  <2>2. box[1].tag = "TASKEXIT" => box[1].what \notin Ids(T)
    BY <1>4, Zenon DEF Pool, Runs
  <2> QED
    BY <1>4, <2>1, <2>2
<1>9. \/ m.tag = "TASKEXIT" /\ m.what = W[i].id1
      \/ m.tag = "HOSTDELETE" /\ m.what = W[i].id2
  BY <1>8 DEF m
<1>10. W[i].id1 \notin Ids(T)
  <2>1. CASE m.tag = "TASKEXIT"
    BY <1>8, <1>9, <2>1
  <2>2. CASE m.tag = "HOSTDELETE"
    <3>1. W[i].id2 \notin Ids(H)
      BY <1>8, <1>9, <2>2
    <3>2. ASSUME NEW t \in T, t.id = W[i].id1 PROVE FALSE
      <4>1. t \in Wd
        BY <1>1
      <4>2. W[i].id2 = t.host /\ t.host \in Ids(H)
        BY <1>1, <3>2, <4>1, Zenon DEF Named
      <4> QED
        BY <3>1, <4>2
    <3> QED
      BY <3>2 DEF Ids
  <2> QED
    BY <1>9, <2>1, <2>2
<1>11. Runs(V, H, T, Wd, b)
  <2>1. ASSUME NEW t \in T PROVE \E n \in DOMAIN V : V[n].id1 = t.id
    <3>1. PICK j \in DOMAIN W : W[j].id1 = t.id
      BY Zenon DEF Pool, Runs
    <3>2. j # i
      BY <3>1, <1>10 DEF Ids
    <3>3. PICK n \in DOMAIN V : At(n, i) = j
      BY <3>2, <1>6
    <3> QED
      BY <3>1, <3>3, <1>6
  <2>2. ASSUME NEW n \in DOMAIN b, b[n].tag = "TASKEXIT" PROVE b[n].what \notin Ids(T)
    <3>1. PICK j \in DOMAIN box : b[n] = box[j]
      BY <1>2
    <3> QED
      BY <2>2, <3>1, Zenon DEF Pool, Runs
  <2>3. ASSUME NEW k \in DOMAIN V, V[k].id2 \in Ids(H),
               NEW t, t = [id |-> V[k].id1, host |-> V[k].id2]
        PROVE  t \in Wd /\ (t \in T \/ \E n \in DOMAIN b : b[n] = TaskExit(t.id))
    <3>1. At(k, i) \in DOMAIN W /\ At(k, i) # i /\ V[k] = W[At(k, i)]
      BY <1>6
    <3>2. t \in Wd /\ (t \in T \/ \E j \in DOMAIN box : box[j] = TaskExit(t.id))
      BY <2>3, <3>1 DEF Pool, Runs
    <3>3. ASSUME NEW j \in DOMAIN box, box[j] = TaskExit(t.id)
          PROVE  \E n \in DOMAIN b : b[n] = TaskExit(t.id)
      <4>1. W[At(k, i)].id1 # W[i].id1
        BY <1>1, <3>1, Zenon DEF Named
      <4>2. m # TaskExit(t.id)
        BY <2>3, <3>1, <4>1, <1>9 DEF TaskExit
      <4> QED
        BY <4>2, <3>3, <1>2
    <3> QED
      BY <3>2, <3>3
  <2>4. ASSUME NEW x \in {V[k].id2 : k \in DOMAIN V} \ Ids(H)
        PROVE  Cardinality({k \in DOMAIN V : V[k].id2 = x}) =< Count(b, HostDelete(x))
    <3>1. x \in {W[k].id2 : k \in DOMAIN W} \ Ids(H)
      BY <1>6
    <3>2. Cardinality({k \in DOMAIN W : W[k].id2 = x}) =< Count(box, HostDelete(x))
      BY <3>1, Zenon DEF Pool, Runs
    <3>3. m = HostDelete(x) => W[i].id2 = x
      BY <1>9 DEF HostDelete
    <3>4. Cardinality({k \in DOMAIN W : W[k].id2 = x}) \in Nat
          /\ Count(box, HostDelete(x)) \in Nat
      BY <1>3, <1>7
    <3>5. Cardinality({k \in DOMAIN V : V[k].id2 = x}) =
            Cardinality({k \in DOMAIN W : W[k].id2 = x}) - IF W[i].id2 = x THEN 1 ELSE 0
      BY <1>7, Zenon
    <3>6. Count(b, HostDelete(x)) =
            Count(box, HostDelete(x)) - IF m = HostDelete(x) THEN 1 ELSE 0
      BY <1>3, Zenon
    <3> DEFINE nv == Cardinality({k \in DOMAIN V : V[k].id2 = x})
               nw == Cardinality({k \in DOMAIN W : W[k].id2 = x})
    <3> HIDE DEF nv, nw
    <3> QED
      BY <3>2, <3>3, <3>4, <3>5, <3>6 DEF nv, nw
  <2> QED
    BY <2>1, <2>2, <2>3, <2>4 DEF Runs
<1> QED
  BY <1>2, <1>5, <1>11 DEF Pool, b, V

-----------------------------------------------------------------------------
(* What becomes of the pool when a worker or a host comes. *)

(* An id that names nothing. *)
Unknown(x, W, H, Wd, box) ==
  /\ x \in Nat /\ x \notin Ids(H) /\ x \notin Ids(Wd)
  /\ \A i \in DOMAIN W : W[i].id1 # x /\ W[i].id2 # x
  /\ \A j \in DOMAIN box : box[j].tag # "HOSTADD" => box[j].what # x

LEMMA FreshIsUnknown ==
  ASSUME NEW x \in Nat \ KnownIds
  PROVE  Unknown(x, workers, hosts, watched, inbox)
<1>1. x \notin {h.id : h \in hosts} /\ x \notin {t.id : t \in watched \cup tasks}
  BY DEF KnownIds
<1>2. x \notin {workers[i].id1 : i \in DOMAIN workers}
      /\ x \notin {workers[i].id2 : i \in DOMAIN workers}
  BY DEF KnownIds
<1>3. x \notin {inbox[i].what : i \in {j \in DOMAIN inbox : inbox[j].tag # "HOSTADD"}}
  BY DEF KnownIds
<1> QED
  BY <1>1, <1>2, <1>3 DEF Unknown, Ids

LEMMA NamedGains ==
  ASSUME NEW X, NEW W \in Seq(X), NEW H, NEW Wd, NEW box, Named(W, H, Wd, box),
         NEW w \in X, NEW h \in H, w.id2 = h.id, Unknown(w.id1, W, H, Wd, box),
         NEW t, t.id = w.id1, t.host = h.id
  PROVE  Named(Append(W, w), H, Wd \cup {t}, box)
<1> DEFINE V == Append(W, w)
           z == Len(W) + 1
           U == Wd \cup {t}
<1>1. /\ DOMAIN V = DOMAIN W \cup {z} /\ V[z] = w
      /\ \A n \in DOMAIN W : n # z /\ V[n] = W[n]
  BY AppendedTo
<1> HIDE DEF V, z
<1>2. h.id \in Ids(H) /\ h.id # w.id1
  BY DEF Unknown, Ids
<1>3. ASSUME NEW i \in DOMAIN W
      PROVE  /\ W[i].id1 # w.id1 /\ W[i].id2 # w.id1 /\ W[i].id1 # h.id
             /\ W[i].id1 \notin Ids(H) /\ W[i].id2 \notin Ids(Wd)
  BY <1>2 DEF Unknown, Named
<1>4. ASSUME NEW s \in Wd PROVE s.id # w.id1 /\ s.id # h.id
  <2>1. s.id \notin Ids(H) /\ s.id \in Ids(Wd)
    BY DEF Named, Ids
  <2> QED
    BY <1>2, <2>1 DEF Unknown
<1>5. Ids(U) = Ids(Wd) \cup {w.id1}
  BY DEF Ids
<1>6. h.id \notin Ids(U)
  BY <1>2, <1>4, <1>5 DEF Ids
<1>7. \A g, k \in H : g.id = k.id => g = k
  BY Zenon DEF Named
<1>8. \A r, s \in U : r.id = s.id => r = s
  <2>1. \A r, s \in Wd : r.id = s.id => r = s
    BY Zenon DEF Named
  <2> QED
    BY <2>1, <1>4
<1>9. \A i, j \in DOMAIN V : (V[i].id1 = V[j].id1 => i = j) /\ V[i].id1 # V[j].id2
  <2>1. \A i, j \in DOMAIN W : (W[i].id1 = W[j].id1 => i = j) /\ W[i].id1 # W[j].id2
    BY Zenon DEF Named
  <2> QED
    BY <2>1, <1>1, <1>2, <1>3
<1>10. \A i \in DOMAIN V : V[i].id1 \notin Ids(H) /\ V[i].id2 \notin Ids(U)
  <2>1. w.id1 \notin Ids(H)
    BY DEF Unknown
  <2> QED
    BY <2>1, <1>1, <1>3, <1>5, <1>6
<1>11. \A i \in DOMAIN V, s \in U : V[i].id1 = s.id => V[i].id2 = s.host
  <2>1. \A i \in DOMAIN W, s \in Wd : W[i].id1 = s.id => W[i].id2 = s.host
    BY Zenon DEF Named
  <2> HIDE DEF U
  <2>2. U = Wd \cup {t}
    BY DEF U
  <2> QED
    BY <2>1, <2>2, <1>1, <1>3, <1>4
<1>12. \A s \in U : s.id \notin Ids(H) /\ s.host \in Ids(H)
  <2>1. \A s \in Wd : s.id \notin Ids(H) /\ s.host \in Ids(H)
    BY Zenon DEF Named
  <2>2. t.id \notin Ids(H) /\ t.host \in Ids(H)
    BY <1>2 DEF Unknown
  <2> QED
    BY <2>1, <2>2
<1>13. ASSUME NEW j \in DOMAIN box
       PROVE  /\ box[j].tag = "TASKEXIT" =>
                   box[j].what \notin Ids(H) /\ \A i \in DOMAIN V : box[j].what # V[i].id2
              /\ box[j].tag = "HOSTDELETE" =>
                   /\ box[j].what \notin Ids(H) /\ box[j].what \notin Ids(U)
                   /\ \A i \in DOMAIN V : box[j].what # V[i].id1
  <2>1. /\ box[j].tag = "TASKEXIT" =>
             box[j].what \notin Ids(H) /\ \A i \in DOMAIN W : box[j].what # W[i].id2
        /\ box[j].tag = "HOSTDELETE" =>
             /\ box[j].what \notin Ids(H) /\ box[j].what \notin Ids(Wd)
             /\ \A i \in DOMAIN W : box[j].what # W[i].id1
    BY Zenon DEF Named
  <2>2. box[j].tag # "HOSTADD" => box[j].what # w.id1
    BY DEF Unknown
  <2> QED
    BY <2>1, <2>2, <1>1, <1>2, <1>5
<1>14. Named(V, H, U, box)
  BY <1>7, <1>8, <1>9, <1>10, <1>11, <1>12, <1>13, Zenon DEF Named
<1> QED
  BY <1>14 DEF V

LEMMA PoolGains ==
  ASSUME NEW X, NEW W \in Seq(X), NEW H, NEW T, NEW Wd, NEW box, Pool(W, H, T, Wd, box),
         NEW w \in X, NEW h \in H, w.id2 = h.id, Unknown(w.id1, W, H, Wd, box),
         NEW t, t = [id |-> w.id1, host |-> h.id]
  PROVE  Pool(Append(W, w), H, T \cup {t}, Wd \cup {t}, box)
<1> DEFINE V == Append(W, w)
           z == Len(W) + 1
           U == Wd \cup {t}
           R == T \cup {t}
<1>1. /\ DOMAIN V = DOMAIN W \cup {z} /\ V[z] = w
      /\ \A n \in DOMAIN W : n # z /\ V[n] = W[n]
  BY AppendedTo
<1>2. \A x : w.id2 # x => Cardinality({i \in DOMAIN V : V[i].id2 = x}) =
                            Cardinality({i \in DOMAIN W : W[i].id2 = x})
  <2> HIDE DEF V, z
  <2>1. ASSUME NEW x, w.id2 # x
        PROVE  {i \in DOMAIN V : V[i].id2 = x} = {i \in DOMAIN W : W[i].id2 = x}
    BY <1>1, <2>1
  <2> QED
    BY <2>1
<1>3. Named(V, H, U, box)
  BY NamedGains DEF Pool
<1> HIDE DEF V, z
<1>4. w.id2 \in Ids(H)
  BY DEF Ids
<1>5. H \subseteq Host /\ IsFiniteSet(H) /\ box \in Seq(Posted) /\ T \subseteq Wd
      /\ Wd \subseteq Spawned /\ IsFiniteSet(Wd)
  BY DEF Pool
<1>6. U \subseteq Spawned /\ IsFiniteSet(U) /\ R \subseteq U
  <2>1. t \in Spawned
    BY <1>5 DEF Unknown, Spawned, Host
  <2> QED
    BY <2>1, <1>5, FS_AddElement
<1>7. Runs(V, H, R, U, box)
  <2>1. ASSUME NEW s \in R PROVE \E i \in DOMAIN V : V[i].id1 = s.id
    <3>1. CASE s = t
      BY <3>1, <1>1
    <3>2. CASE s \in T
      <4>1. PICK i \in DOMAIN W : W[i].id1 = s.id
        BY <3>2, Zenon DEF Pool, Runs
      <4> QED
        BY <4>1, <1>1
    <3> QED
      BY <3>1, <3>2
  <2>2. ASSUME NEW j \in DOMAIN box, box[j].tag = "TASKEXIT" PROVE box[j].what \notin Ids(R)
    <3>1. box[j].what \notin Ids(T)
      BY <2>2, Zenon DEF Pool, Runs
    <3>2. box[j].what # t.id
      BY <2>2 DEF Unknown
    <3> QED
      BY <3>1, <3>2 DEF Ids
  <2>3. ASSUME NEW i \in DOMAIN V, V[i].id2 \in Ids(H),
               NEW s, s = [id |-> V[i].id1, host |-> V[i].id2]
        PROVE  s \in U /\ (s \in R \/ \E j \in DOMAIN box : box[j] = TaskExit(s.id))
    <3>1. CASE i = z
      BY <3>1, <2>3, <1>1
    <3>2. CASE i \in DOMAIN W
      <4>1. V[i] = W[i]
        BY <3>2, <1>1
      <4>2. s \in Wd /\ (s \in T \/ \E j \in DOMAIN box : box[j] = TaskExit(s.id))
        BY <2>3, <3>2, <4>1 DEF Pool, Runs
      <4> QED
        BY <4>2
    <3> QED
      BY <3>1, <3>2, <1>1
  <2>4. ASSUME NEW x \in {V[i].id2 : i \in DOMAIN V} \ Ids(H)
        PROVE  Cardinality({i \in DOMAIN V : V[i].id2 = x}) =< Count(box, HostDelete(x))
    <3>1. x # w.id2
      BY <1>4
    <3>2. x \in {W[i].id2 : i \in DOMAIN W} \ Ids(H)
      BY <1>1, <3>1
    <3>3. Cardinality({i \in DOMAIN W : W[i].id2 = x}) =< Count(box, HostDelete(x))
      BY <3>2, Zenon DEF Pool, Runs
    <3> QED
      BY <3>1, <3>3, <1>2, Zenon
  <2> QED
    BY <2>1, <2>2, <2>3, <2>4 DEF Runs
<1> HIDE DEF U, R
<1>8. Pool(V, H, R, U, box)
  BY <1>3, <1>5, <1>6, <1>7 DEF Pool
<1> QED
  BY <1>8 DEF V, U, R

LEMMA PoolGetsHost ==
  ASSUME NEW W, NEW H, NEW T, NEW Wd, NEW box, Pool(W, H, T, Wd, box),
         NEW a \in PvmClasses, NEW x, Unknown(x, W, H, Wd, box)
  PROVE  Pool(W, H \cup {[id |-> x, arch_class |-> a]}, T, Wd, Append(box, HostAdd(a)))
<1> DEFINE h == [id |-> x, arch_class |-> a]
           K == H \cup {h}
           b == Append(box, HostAdd(a))
           z == Len(box) + 1
<1>1. HostAdd(a) \in Posted
  BY DEF Posted
<1>2. /\ b \in Seq(Posted) /\ DOMAIN b = DOMAIN box \cup {z} /\ b[z] = HostAdd(a)
      /\ \A n \in DOMAIN box : n # z /\ b[n] = box[n]
  BY <1>1, AppendedTo DEF Pool
<1>3. \A y : Count(b, HostDelete(y)) = Count(box, HostDelete(y))
  <2> TAKE y
  <2>1. HostAdd(a) # HostDelete(y)
    BY DEF HostAdd, HostDelete
  <2>2. {i \in DOMAIN b : b[i] = HostDelete(y)} = {i \in DOMAIN box : box[i] = HostDelete(y)}
    BY <1>2, <2>1
  <2> QED
    BY <2>2 DEF Count
<1> HIDE DEF b, z
<1>4. K \subseteq Host /\ IsFiniteSet(K)
  <2>1. h \in Host
    BY DEF Host, Unknown
  <2>2. H \subseteq Host /\ IsFiniteSet(H)
    BY DEF Pool
  <2> QED
    BY <2>1, <2>2, FS_AddElement
<1>5. Ids(K) = Ids(H) \cup {x}
  <2>1. h.id = x
    OBVIOUS
  <2> HIDE DEF h
  <2> QED
    BY <2>1 DEF Ids
<1>6. \A g, k \in K : g.id = k.id => g = k
  <2>1. \A g, k \in H : g.id = k.id => g = k
    BY Zenon DEF Pool, Named
  <2>2. \A g \in H : g.id # x
    BY DEF Unknown, Ids
  <2> QED
    BY <2>1, <2>2
<1> HIDE DEF K
<1>7. Named(W, K, Wd, b)
  <2>1. /\ \A s, t \in Wd : s.id = t.id => s = t
        /\ \A i, j \in DOMAIN W : (W[i].id1 = W[j].id1 => i = j) /\ W[i].id1 # W[j].id2
        /\ \A i \in DOMAIN W, t \in Wd : W[i].id1 = t.id => W[i].id2 = t.host
    BY Zenon DEF Pool, Named
  <2>2. \A i \in DOMAIN W : W[i].id1 \notin Ids(K) /\ W[i].id2 \notin Ids(Wd)
    BY <1>5 DEF Pool, Named, Unknown
  <2>3. \A t \in Wd : t.id \notin Ids(K) /\ t.host \in Ids(K)
    <3>1. \A t \in Wd : t.id # x
      BY DEF Unknown, Ids
    <3>2. \A t \in Wd : t.id \notin Ids(H) /\ t.host \in Ids(H)
      BY Zenon DEF Pool, Named
    <3> QED
      BY <1>5, <3>1, <3>2
  <2>4. ASSUME NEW j \in DOMAIN b
        PROVE  /\ b[j].tag = "TASKEXIT" =>
                    b[j].what \notin Ids(K) /\ \A i \in DOMAIN W : b[j].what # W[i].id2
               /\ b[j].tag = "HOSTDELETE" =>
                    /\ b[j].what \notin Ids(K) /\ b[j].what \notin Ids(Wd)
                    /\ \A i \in DOMAIN W : b[j].what # W[i].id1
    <3>1. CASE j = z
      BY <3>1, <1>2 DEF HostAdd
    <3>2. CASE j \in DOMAIN box
      <4>1. b[j] = box[j]
        BY <3>2, <1>2
      <4>2. /\ box[j].tag = "TASKEXIT" =>
                 box[j].what \notin Ids(H) /\ \A i \in DOMAIN W : box[j].what # W[i].id2
            /\ box[j].tag = "HOSTDELETE" =>
                 /\ box[j].what \notin Ids(H) /\ box[j].what \notin Ids(Wd)
                 /\ \A i \in DOMAIN W : box[j].what # W[i].id1
        BY <3>2, Zenon DEF Pool, Named
      <4>3. box[j].tag # "HOSTADD" => box[j].what # x
        BY <3>2 DEF Unknown
      <4> QED
        BY <4>1, <4>2, <4>3, <1>5
    <3> QED
      BY <3>1, <3>2, <1>2
  <2> QED
    BY <1>6, <2>1, <2>2, <2>3, <2>4, Zenon DEF Named
<1>8. Runs(W, K, T, Wd, b)
  <2>1. \A t \in T : \E i \in DOMAIN W : W[i].id1 = t.id
    BY Zenon DEF Pool, Runs
  <2>2. ASSUME NEW j \in DOMAIN b, b[j].tag = "TASKEXIT" PROVE b[j].what \notin Ids(T)
    <3>1. j \in DOMAIN box /\ b[j] = box[j]
      BY <2>2, <1>2 DEF HostAdd
    <3> QED
      BY <2>2, <3>1, Zenon DEF Pool, Runs
  <2>3. ASSUME NEW i \in DOMAIN W, W[i].id2 \in Ids(K),
               NEW t, t = [id |-> W[i].id1, host |-> W[i].id2]
        PROVE  t \in Wd /\ (t \in T \/ \E j \in DOMAIN b : b[j] = TaskExit(t.id))
    <3>1. W[i].id2 \in Ids(H)
      BY <2>3, <1>5 DEF Unknown
    <3>2. t \in Wd /\ (t \in T \/ \E j \in DOMAIN box : box[j] = TaskExit(t.id))
      BY <2>3, <3>1 DEF Pool, Runs
    <3> QED
      BY <3>2, <1>2
  <2>4. ASSUME NEW y \in {W[i].id2 : i \in DOMAIN W} \ Ids(K)
        PROVE  Cardinality({i \in DOMAIN W : W[i].id2 = y}) =< Count(b, HostDelete(y))
    <3>1. y \in {W[i].id2 : i \in DOMAIN W} \ Ids(H)
      BY <1>5
    <3>2. Cardinality({i \in DOMAIN W : W[i].id2 = y}) =< Count(box, HostDelete(y))
      BY <3>1, Zenon DEF Pool, Runs
    <3> QED
      BY <3>2, <1>3, Zenon
  <2> QED
    BY <2>1, <2>2, <2>3, <2>4 DEF Runs
<1>9. Pool(W, K, T, Wd, b)
  BY <1>2, <1>4, <1>7, <1>8 DEF Pool
<1> QED
  BY <1>9 DEF K, b

-----------------------------------------------------------------------------
(* What becomes of the pool when a worker dies or a host goes. *)

LEMMA PoolLosesTask ==
  ASSUME NEW W, NEW H, NEW T, NEW Wd, NEW box, Pool(W, H, T, Wd, box), NEW t \in T
  PROVE  Pool(W, H, T \ {t}, Wd, Append(box, TaskExit(t.id)))
<1> DEFINE R == T \ {t}
           m == TaskExit(t.id)
           b == Append(box, m)
           z == Len(box) + 1
<1>1. t \in Wd /\ t.id \in Nat /\ T \subseteq Wd
  BY DEF Pool, Spawned
<1>2. m \in Posted
  BY <1>1 DEF Posted, Notice, TaskExit
<1>3. m.tag = "TASKEXIT" /\ m.what = t.id
  BY DEF TaskExit
<1> HIDE DEF m
<1>4. /\ b \in Seq(Posted) /\ DOMAIN b = DOMAIN box \cup {z} /\ b[z] = m
      /\ \A n \in DOMAIN box : n # z /\ b[n] = box[n]
  BY <1>2, AppendedTo DEF Pool
<1> HIDE DEF b, z
<1>5. \A y : Count(b, HostDelete(y)) = Count(box, HostDelete(y))
  <2> TAKE y
  <2>1. m # HostDelete(y)
    BY <1>3 DEF HostDelete
  <2>2. {i \in DOMAIN b : b[i] = HostDelete(y)} = {i \in DOMAIN box : box[i] = HostDelete(y)}
    BY <1>4, <2>1
  <2> QED
    BY <2>2 DEF Count
<1>6. Named(W, H, Wd, b)
  <2>1. t.id \notin Ids(H) /\ t.id \in Ids(Wd)
    BY <1>1 DEF Pool, Named, Ids
  <2>2. \A i \in DOMAIN W : W[i].id2 # t.id
    BY <2>1, Zenon DEF Pool, Named
  <2>3. ASSUME NEW j \in DOMAIN b
        PROVE  /\ b[j].tag = "TASKEXIT" =>
                    b[j].what \notin Ids(H) /\ \A i \in DOMAIN W : b[j].what # W[i].id2
               /\ b[j].tag = "HOSTDELETE" =>
                    /\ b[j].what \notin Ids(H) /\ b[j].what \notin Ids(Wd)
                    /\ \A i \in DOMAIN W : b[j].what # W[i].id1
    <3>1. CASE j = z
      BY <3>1, <1>3, <1>4, <2>1, <2>2
    <3>2. CASE j \in DOMAIN box
      <4>1. b[j] = box[j]
        BY <3>2, <1>4
      <4>2. /\ box[j].tag = "TASKEXIT" =>
                 box[j].what \notin Ids(H) /\ \A i \in DOMAIN W : box[j].what # W[i].id2
            /\ box[j].tag = "HOSTDELETE" =>
                 /\ box[j].what \notin Ids(H) /\ box[j].what \notin Ids(Wd)
                 /\ \A i \in DOMAIN W : box[j].what # W[i].id1
        BY <3>2, Zenon DEF Pool, Named
      <4> QED
        BY <4>1, <4>2
    <3> QED
      BY <3>1, <3>2, <1>4
  <2> QED
    BY <2>3, Zenon DEF Pool, Named
<1>7. Runs(W, H, R, Wd, b)
  <2>1. \A s \in R : \E i \in DOMAIN W : W[i].id1 = s.id
    BY Zenon DEF Pool, Runs
  <2>2. ASSUME NEW j \in DOMAIN b, b[j].tag = "TASKEXIT" PROVE b[j].what \notin Ids(R)
    <3>1. CASE j = z
      <4>1. \A s \in R : s \in Wd /\ s # t
        BY <1>1
      <4>2. \A s \in R : s.id # t.id
        BY <1>1, <4>1, Zenon DEF Pool, Named
      <4> HIDE DEF R
      <4> QED
        BY <3>1, <4>2, <1>3, <1>4 DEF Ids
    <3>2. CASE j \in DOMAIN box
      <4>1. b[j] = box[j]
        BY <3>2, <1>4
      <4>2. box[j].what \notin Ids(T)
        BY <2>2, <3>2, <4>1, Zenon DEF Pool, Runs
      <4> QED
        BY <4>1, <4>2 DEF Ids
    <3> QED
      BY <3>1, <3>2, <1>4
  <2>3. ASSUME NEW i \in DOMAIN W, W[i].id2 \in Ids(H),
               NEW s, s = [id |-> W[i].id1, host |-> W[i].id2]
        PROVE  s \in Wd /\ (s \in R \/ \E j \in DOMAIN b : b[j] = TaskExit(s.id))
    <3>1. s \in Wd /\ (s \in T \/ \E j \in DOMAIN box : box[j] = TaskExit(s.id))
      BY <2>3 DEF Pool, Runs
    <3>2. s = t => b[z] = TaskExit(s.id) /\ z \in DOMAIN b
      BY <1>4 DEF m
    <3> QED
      BY <3>1, <3>2, <1>4
  <2>4. ASSUME NEW y \in {W[i].id2 : i \in DOMAIN W} \ Ids(H)
        PROVE  Cardinality({i \in DOMAIN W : W[i].id2 = y}) =< Count(b, HostDelete(y))
    <3>1. Cardinality({i \in DOMAIN W : W[i].id2 = y}) =< Count(box, HostDelete(y))
      BY Zenon DEF Pool, Runs
    <3> QED
      BY <3>1, <1>5, Zenon
  <2> QED
    BY <2>1, <2>2, <2>3, <2>4 DEF Runs
<1>8. Pool(W, H, R, Wd, b)
  BY <1>4, <1>6, <1>7 DEF Pool
<1> QED
  BY <1>8 DEF R, b, m

(* What is in sequence r is what is in s and what is in t. *)
Merges(r, s, t) ==
  /\ \A n \in DOMAIN r : (\E j \in DOMAIN s : r[n] = s[j]) \/ \E j \in DOMAIN t : r[n] = t[j]
  /\ \A j \in DOMAIN s : \E n \in DOMAIN r : r[n] = s[j]
  /\ \A j \in DOMAIN t : \E n \in DOMAIN r : r[n] = t[j]

LEMMA JoinedOf ==
  ASSUME NEW X, NEW s \in Seq(X), NEW t \in Seq(X)
  PROVE  s \o t \in Seq(X) /\ Merges(s \o t, s, t)
<1> DEFINE m == Len(s)
           k == Len(t)
           r == s \o t
<1>1. /\ m \in Nat /\ k \in Nat /\ DOMAIN s = 1 .. m /\ DOMAIN t = 1 .. k
      /\ r \in Seq(X) /\ DOMAIN r = 1 .. m + k
      /\ \A i \in 1 .. m + k : r[i] = IF i =< m THEN s[i] ELSE t[i - m]
  OBVIOUS
<1> HIDE DEF m, k, r
<1>2. \A n \in DOMAIN r : \/ \E j \in DOMAIN s : r[n] = s[j]
                          \/ \E j \in DOMAIN t : r[n] = t[j]
  <2> TAKE n \in DOMAIN r
  <2>1. CASE n =< m
    BY <2>1, <1>1
  <2>2. CASE ~(n =< m)
    <3>1. n - m \in DOMAIN t /\ r[n] = t[n - m]
      BY <2>2, <1>1
    <3> QED
      BY <3>1
  <2> QED
    BY <2>1, <2>2
<1>3. \A j \in DOMAIN s : \E n \in DOMAIN r : r[n] = s[j]
  <2> TAKE j \in DOMAIN s
  <2>1. j \in DOMAIN r /\ r[j] = s[j]
    BY <1>1
  <2> QED
    BY <2>1
<1>4. \A j \in DOMAIN t : \E n \in DOMAIN r : r[n] = t[j]
  <2> TAKE j \in DOMAIN t
  <2>1. j + m \in 1 .. m + k /\ ~(j + m =< m) /\ (j + m) - m = j
    BY <1>1
  <2>2. j + m \in DOMAIN r /\ r[j + m] = t[j]
    BY <2>1, <1>1
  <2> QED
    BY <2>2
<1> QED
  BY <1>1, <1>2, <1>3, <1>4 DEF r, Merges

LEMMA CountJoined ==
  ASSUME NEW X, NEW s \in Seq(X), NEW t \in Seq(X), NEW x
  PROVE  /\ Count(s, x) \in Nat /\ Count(t, x) \in Nat
         /\ Count(s \o t, x) = Count(s, x) + Count(t, x)
<1>1. Cardinality(Hits(s \o t, {x})) = Cardinality(Hits(s, {x})) + Cardinality(Hits(t, {x}))
  BY HitsJoined
<1>2. Cardinality(Hits(s, {x})) \in Nat /\ Cardinality(Hits(t, {x})) \in Nat
  BY HitsFinite
<1> QED
  BY <1>1, <1>2, CountIsHits

(* What PVM tells when host h goes. *)
Tells(news, h, T, Wd) ==
  /\ news \in Seq(Posted)
  /\ \A j \in DOMAIN news : \/ news[j] = HostDelete(h.id)
                            \/ \E t \in OnHost(T, h) : news[j] = TaskExit(t.id)
  /\ \A t \in OnHost(T, h) : \E j \in DOMAIN news : news[j] = TaskExit(t.id)
  /\ Count(news, HostDelete(h.id)) = Cardinality(OnHost(Wd, h))

LEMMA PoolLosesHost ==
  ASSUME NEW X, NEW W \in Seq(X), NEW H, NEW T, NEW Wd, NEW box, Pool(W, H, T, Wd, box),
         NEW h \in H, NEW news, Tells(news, h, T, Wd)
  PROVE  Pool(W, H \ {h}, T \ OnHost(T, h), Wd \ OnHost(Wd, h), box \o news)
<1> DEFINE K == H \ {h}
           R == T \ OnHost(T, h)
           U == Wd \ OnHost(Wd, h)
           b == box \o news
<1>1. /\ H \subseteq Host /\ IsFiniteSet(H) /\ Wd \subseteq Spawned /\ IsFiniteSet(Wd)
      /\ T \subseteq Wd /\ box \in Seq(Posted) /\ news \in Seq(Posted)
  BY DEF Pool, Tells
<1>2. b \in Seq(Posted) /\ Merges(b, box, news)
  BY <1>1, JoinedOf
<1>3. \A x : /\ Count(box, x) \in Nat /\ Count(news, x) \in Nat
             /\ Count(b, x) = Count(box, x) + Count(news, x)
  BY <1>1, CountJoined
<1> HIDE DEF b
<1>4. Ids(K) = Ids(H) \ {h.id}
  <2>1. \A g \in H : g.id = h.id => g = h
    BY Zenon DEF Pool, Named
  <2> QED
    BY <2>1 DEF Ids
<1>5. /\ U \subseteq Wd /\ R \subseteq T /\ R \subseteq U
      /\ (\A s \in U : s.host # h.id) /\ \A s \in Wd : s.host # h.id => s \in U
  BY <1>1 DEF OnHost
<1>6. IsFiniteSet(U) /\ IsFiniteSet(K)
  BY <1>1, <1>5, FS_Subset
<1> HIDE DEF K, R, U
<1>7. h.id \in Ids(H)
  BY DEF Ids
<1>8. \A n \in DOMAIN b : \/ \E j \in DOMAIN box : b[n] = box[j]
                          \/ b[n] = HostDelete(h.id)
                          \/ \E t \in OnHost(T, h) : b[n] = TaskExit(t.id)
  BY <1>2 DEF Tells, Merges
<1>9. Named(W, K, U, b)
  <2>1. \A g, k \in K : g.id = k.id => g = k
    BY DEF Pool, Named, K
  <2>2. \A s, t \in U : s.id = t.id => s = t
    BY <1>5 DEF Pool, Named
  <2>3. \A i, j \in DOMAIN W : (W[i].id1 = W[j].id1 => i = j) /\ W[i].id1 # W[j].id2
    BY Zenon DEF Pool, Named
  <2>4. \A i \in DOMAIN W : W[i].id1 \notin Ids(H) /\ W[i].id2 \notin Ids(Wd)
    BY Zenon DEF Pool, Named
  <2>5. Ids(U) \subseteq Ids(Wd)
    BY <1>5 DEF Ids
  <2>6. \A i \in DOMAIN W : W[i].id1 \notin Ids(K) /\ W[i].id2 \notin Ids(U)
    BY <2>4, <2>5, <1>4
  <2>7. \A i \in DOMAIN W, t \in U : W[i].id1 = t.id => W[i].id2 = t.host
    BY <1>5, Zenon DEF Pool, Named
  <2>8. \A t \in Wd : t.id \notin Ids(H) /\ t.host \in Ids(H)
    BY Zenon DEF Pool, Named
  <2>9. \A t \in U : t.id \notin Ids(K) /\ t.host \in Ids(K)
    BY <2>8, <1>4, <1>5
  <2>10. h.id \notin Ids(Wd)
    BY <2>8, <1>7 DEF Ids
  <2>11. ASSUME NEW n \in DOMAIN b
         PROVE  /\ b[n].tag = "TASKEXIT" =>
                     b[n].what \notin Ids(K) /\ \A i \in DOMAIN W : b[n].what # W[i].id2
                /\ b[n].tag = "HOSTDELETE" =>
                     /\ b[n].what \notin Ids(K) /\ b[n].what \notin Ids(U)
                     /\ \A i \in DOMAIN W : b[n].what # W[i].id1
    <3>1. ASSUME NEW j \in DOMAIN box, b[n] = box[j]
          PROVE  /\ b[n].tag = "TASKEXIT" =>
                      b[n].what \notin Ids(K) /\ \A i \in DOMAIN W : b[n].what # W[i].id2
                 /\ b[n].tag = "HOSTDELETE" =>
                      /\ b[n].what \notin Ids(K) /\ b[n].what \notin Ids(U)
                      /\ \A i \in DOMAIN W : b[n].what # W[i].id1
      <4>1. /\ box[j].tag = "TASKEXIT" =>
                 box[j].what \notin Ids(H) /\ \A i \in DOMAIN W : box[j].what # W[i].id2
            /\ box[j].tag = "HOSTDELETE" =>
                 /\ box[j].what \notin Ids(H) /\ box[j].what \notin Ids(Wd)
                 /\ \A i \in DOMAIN W : box[j].what # W[i].id1
        BY <3>1, Zenon DEF Pool, Named
      <4> QED
        BY <3>1, <4>1, <2>5, <1>4
    <3>2. CASE b[n] = HostDelete(h.id)
      <4>1. b[n].tag = "HOSTDELETE" /\ b[n].what = h.id
        BY <3>2 DEF HostDelete
      <4> QED
        BY <4>1, <2>4, <2>5, <2>10, <1>4, <1>7
    <3>3. ASSUME NEW t \in OnHost(T, h), b[n] = TaskExit(t.id)
          PROVE  b[n].tag = "TASKEXIT" /\ b[n].what \notin Ids(K)
                 /\ \A i \in DOMAIN W : b[n].what # W[i].id2
      <4>1. t \in Wd /\ t.id \in Ids(Wd)
        BY <1>1 DEF OnHost, Ids
      <4>2. b[n].tag = "TASKEXIT" /\ b[n].what = t.id
        BY <3>3 DEF TaskExit
      <4> QED
        BY <4>1, <4>2, <2>4, <2>8, <1>4
    <3>4. CASE \E t \in OnHost(T, h) : b[n] = TaskExit(t.id)
      <4>1. b[n].tag = "TASKEXIT" /\ b[n].what \notin Ids(K)
            /\ \A i \in DOMAIN W : b[n].what # W[i].id2
        BY <3>3, <3>4, Zenon
      <4> QED
        BY <4>1
    <3> QED
      BY <3>1, <3>2, <3>4, <1>8, Zenon
  <2> QED
    BY <2>1, <2>2, <2>3, <2>6, <2>7, <2>9, <2>11, Zenon DEF Named
<1>10. \A i \in DOMAIN W : W[i].id2 \in Ids(H) =>
         LET t == [id |-> W[i].id1, host |-> W[i].id2]
         IN  t \in Wd /\ (t \in T \/ \E j \in DOMAIN box : box[j] = TaskExit(t.id))
  BY Zenon DEF Pool, Runs
<1>11. Runs(W, K, R, U, b)
  <2>1. \A t \in R : \E i \in DOMAIN W : W[i].id1 = t.id
    BY <1>5, Zenon DEF Pool, Runs
  <2>2. ASSUME NEW n \in DOMAIN b, b[n].tag = "TASKEXIT" PROVE b[n].what \notin Ids(R)
    <3>1. ASSUME NEW j \in DOMAIN box, b[n] = box[j] PROVE b[n].what \notin Ids(R)
      <4>1. box[j].what \notin Ids(T)
        BY <2>2, <3>1, Zenon DEF Pool, Runs
      <4> QED
        BY <4>1, <3>1, <1>5 DEF Ids
    <3>2. b[n] # HostDelete(h.id)
      BY <2>2 DEF HostDelete
    <3>3. ASSUME NEW t \in OnHost(T, h), b[n] = TaskExit(t.id) PROVE b[n].what \notin Ids(R)
      <4>1. b[n].what = t.id /\ t \in Wd /\ t.host = h.id
        BY <3>3, <1>1 DEF TaskExit, OnHost
      <4>2. ASSUME NEW s \in R, s.id = t.id PROVE FALSE
        <5>1. s \in U /\ s \in Wd /\ s.host # h.id
          BY <1>5
        <5>2. s = t
          BY <4>1, <4>2, <5>1, Zenon DEF Pool, Named
        <5> QED
          BY <4>1, <5>1, <5>2
      <4> QED
        BY <4>1, <4>2 DEF Ids
    <3> QED
      BY <3>1, <3>2, <3>3, <1>8, Zenon
  <2>3. ASSUME NEW i \in DOMAIN W, W[i].id2 \in Ids(K),
               NEW t, t = [id |-> W[i].id1, host |-> W[i].id2]
        PROVE  t \in U /\ (t \in R \/ \E j \in DOMAIN b : b[j] = TaskExit(t.id))
    <3>1. W[i].id2 \in Ids(H) /\ t.host # h.id
      BY <2>3, <1>4
    <3>2. t \in Wd /\ (t \in T \/ \E j \in DOMAIN box : box[j] = TaskExit(t.id))
      BY <1>10, <2>3, <3>1
    <3>3. t \in U /\ (t \in T => t \in R)
      BY <3>1, <3>2, <1>5 DEF R, OnHost
    <3> QED
      BY <3>2, <3>3, <1>2 DEF Merges
  <2>4. ASSUME NEW x \in {W[i].id2 : i \in DOMAIN W} \ Ids(K)
        PROVE  Cardinality({i \in DOMAIN W : W[i].id2 = x}) =< Count(b, HostDelete(x))
    <3> DEFINE D == {i \in DOMAIN W : W[i].id2 = x}
               f == [i \in D |-> [id |-> W[i].id1, host |-> W[i].id2]]
    <3>1. IsFiniteSet(D) /\ Cardinality(D) \in Nat
      <4>1. D \in SUBSET DOMAIN W
        OBVIOUS
      <4>2. IsFiniteSet(D)
        BY <4>1, PartsFinite
      <4> QED
        BY <4>2, FS_CardinalityType
    <3>2. /\ Count(box, HostDelete(x)) \in Nat /\ Count(news, HostDelete(x)) \in Nat
          /\ Count(b, HostDelete(x)) = Count(box, HostDelete(x)) + Count(news, HostDelete(x))
      BY <1>3, Zenon
    <3>3. CASE x = h.id
      <4>1. \A i \in D : f[i] \in OnHost(Wd, h)
        BY <3>3, <1>7, <1>10 DEF OnHost
      <4>2. \A i, j \in D : f[i] = f[j] => i = j
        <5>1. ASSUME NEW i \in D, NEW j \in D, f[i] = f[j] PROVE i = j
          <6>1. W[i].id1 = W[j].id1
            BY <5>1
          <6> QED
            BY <6>1, Zenon DEF Pool, Named
        <5> QED
          BY <5>1
      <4>3. DOMAIN f = D
        OBVIOUS
      <4>4. f \in [D -> OnHost(Wd, h)]
        BY <4>1
      <4> HIDE DEF f, D
      <4>5. f \in Injection(D, OnHost(Wd, h))
        BY <4>2, <4>3, <4>4, Zenon DEF Injection, IsInjective
      <4>6. IsFiniteSet(OnHost(Wd, h))
        <5>1. OnHost(Wd, h) \in SUBSET Wd
          BY DEF OnHost
        <5> QED
          BY <5>1, <1>1, FS_Subset
      <4>7. Cardinality(D) =< Cardinality(OnHost(Wd, h))
        BY <4>5, <4>6, FS_Injection
      <4>8. Count(news, HostDelete(x)) = Cardinality(OnHost(Wd, h))
        BY <3>3 DEF Tells
      <4> QED
        BY <3>1, <3>2, <4>7, <4>8 DEF D
    <3>4. CASE x # h.id
      <4>1. x \in {W[i].id2 : i \in DOMAIN W} \ Ids(H)
        BY <3>4, <1>4
      <4>2. Cardinality(D) =< Count(box, HostDelete(x))
        BY <4>1, Zenon DEF Pool, Runs
      <4> HIDE DEF D
      <4>3. Cardinality(D) =< Count(b, HostDelete(x))
        BY <3>1, <3>2, <4>2
      <4> QED
        BY <4>3 DEF D
    <3> QED
      BY <3>3, <3>4
  <2> QED
    BY <2>1, <2>2, <2>3, <2>4 DEF Runs
<1>12. Pool(W, K, R, U, b)
  <2>1. K \subseteq Host /\ U \subseteq Spawned /\ R \subseteq U
    BY <1>1, <1>5 DEF K
  <2> QED
    BY <1>2, <1>6, <1>9, <1>11, <2>1 DEF Pool
<1> QED
  BY <1>12 DEF K, R, U, b

(* The list of a finite set has every element, once. *)
LEMMA ListedAll ==
  ASSUME NEW S, IsFiniteSet(S)
  PROVE  /\ SetToSeq(S) \in [1 .. Cardinality(S) -> S] /\ Cardinality(S) \in Nat
         /\ IsInjective(SetToSeq(S))
         /\ \A x \in S : \E i \in DOMAIN SetToSeq(S) : SetToSeq(S)[i] = x
<1> DEFINE s == SetToSeq(S)
           n == Cardinality(S)
<1>1. n \in Nat /\ ExistsBijection(1 .. n, S)
  BY FS_CardinalityType
<1>2. \E f \in [1 .. n -> S] : IsInjective(f)
  BY <1>1, Zenon DEF ExistsBijection, Bijection, Injection
<1>3. s \in [1 .. n -> S] /\ IsInjective(s)
  BY <1>2, Zenon DEF SetToSeq
<1> HIDE DEF s
<1>4. s \in Injection(1 .. n, S)
  BY <1>3, Zenon DEF Injection
<1>5. IsFiniteSet(1 .. n) /\ Cardinality(1 .. n) = n
  <2>1. 1 \in Int /\ n \in Int
    BY <1>1
  <2>2. IsFiniteSet(1 .. n) /\ Cardinality(1 .. n) = IF 1 > n THEN 0 ELSE n - 1 + 1
    BY <2>1, FS_Interval
  <2> QED
    BY <1>1, <2>2
<1>6. s \in Surjection(1 .. n, S)
  BY <1>4, <1>5, FS_Injection DEF n
<1>7. \A x \in S : \E i \in 1 .. n : s[i] = x
  BY <1>6, Zenon DEF Surjection
<1>8. DOMAIN s = 1 .. n
  BY <1>3
<1> QED
  BY <1>1, <1>3, <1>7, <1>8 DEF s

LEMMA NoticesTell ==
  ASSUME NEW W, NEW box, Pool(W, hosts, tasks, watched, box), NEW h \in hosts,
         NEW news \in NoticesOfLoss(h)
  PROVE  Tells(news, h, tasks, watched)
<1> DEFINE gone == OnHost(tasks \cap watched, h)
           S == {[tag |-> "TASKEXIT", what |-> t.id] : t \in gone}
           exits == SetToSeq(S)
           k == Cardinality(OnHost(watched, h))
           deletes == [i \in 1 .. k |-> [tag |-> "HOSTDELETE", what |-> h.id]]
           d == HostDelete(h.id)
<1>1. tasks \subseteq watched /\ watched \subseteq Spawned /\ IsFiniteSet(watched)
      /\ h.id \in Nat
  BY DEF Pool, Host
<1>2. gone = OnHost(tasks, h)
  BY <1>1 DEF OnHost
<1>3. S = {TaskExit(t.id) : t \in gone}
  BY DEF TaskExit
<1>4. S \in SUBSET Posted
  <2>1. \A t \in gone : t.id \in Nat
    BY <1>1, <1>2 DEF OnHost, Spawned
  <2>2. \A t \in gone : TaskExit(t.id) \in Posted
    BY <2>1 DEF Posted, Notice, TaskExit
  <2> HIDE DEF S
  <2> QED
    BY <2>2, <1>3
<1>5. IsFiniteSet(gone)
  <2>1. gone \in SUBSET watched
    BY DEF OnHost
  <2> QED
    BY <2>1, <1>1, FS_Subset
<1>6. IsFiniteSet(S)
  <2> DEFINE f == [t \in gone |-> [tag |-> "TASKEXIT", what |-> t.id]]
  <2>1. DOMAIN f = gone /\ S = {f[t] : t \in gone}
    OBVIOUS
  <2> HIDE DEF f, S, gone
  <2> QED
    BY <1>5, <2>1, ImageFinite
<1>7. k \in Nat
  <2>1. OnHost(watched, h) \in SUBSET watched
    BY DEF OnHost
  <2>2. IsFiniteSet(OnHost(watched, h))
    BY <2>1, <1>1, FS_Subset
  <2> QED
    BY <2>2, FS_CardinalityType
<1> HIDE DEF k
<1>8. /\ deletes \in Seq(Posted) /\ Len(deletes) = k
      /\ \A i \in DOMAIN deletes : deletes[i] = d
  <2>1. [tag |-> "HOSTDELETE", what |-> h.id] \in Posted
    BY <1>1 DEF Posted, Notice
  <2> QED
    BY <2>1, <1>7 DEF HostDelete
<1> HIDE DEF deletes, S, gone, d
<1>9. /\ exits \in [1 .. Cardinality(S) -> S] /\ Cardinality(S) \in Nat
      /\ \A x \in S : \E i \in DOMAIN exits : exits[i] = x
  BY <1>6, ListedAll
<1> HIDE DEF exits
<1>10. exits \in Seq(Posted) /\ \A i \in DOMAIN exits : exits[i] \in S
  BY <1>4, <1>9
<1>11. \A x \in S : x # d
  BY <1>3 DEF TaskExit, HostDelete, d
<1>12. Count(deletes, d) = k /\ Count(exits, d) = 0
  <2>1. Cardinality(Hits(deletes, {d})) = Len(deletes)
    BY <1>8, HitsAll
  <2>2. Cardinality(Hits(exits, {d})) = 0
    BY <1>10, <1>11, HitsNone
  <2> QED
    BY <2>1, <2>2, <1>8, CountIsHits
<1>13. ASSUME NEW r, r \in Seq(Posted),
              Merges(r, exits, deletes) \/ Merges(r, deletes, exits), Count(r, d) = k
       PROVE  Tells(r, h, tasks, watched)
  <2>1. \A j \in DOMAIN r : r[j] = d \/ r[j] \in S
    BY <1>8, <1>10, <1>13 DEF Merges
  <2>2. \A x \in S : \E j \in DOMAIN r : r[j] = x
    BY <1>9, <1>13 DEF Merges
  <2>3. \A j \in DOMAIN r : r[j] = d \/ \E t \in OnHost(tasks, h) : r[j] = TaskExit(t.id)
    BY <1>2, <1>3, <2>1
  <2>4. \A t \in OnHost(tasks, h) : \E j \in DOMAIN r : r[j] = TaskExit(t.id)
    BY <1>2, <1>3, <2>2
  <2> QED
    BY <1>13, <2>3, <2>4 DEF Tells, d, k
<1>14. news \in {exits \o deletes, deletes \o exits}
  BY DEF NoticesOfLoss, exits, deletes, S, gone, k
<1>15. /\ exits \o deletes \in Seq(Posted) /\ Merges(exits \o deletes, exits, deletes)
       /\ Count(exits \o deletes, d) = k
  BY <1>7, <1>8, <1>10, <1>12, JoinedOf, CountJoined
<1>16. /\ deletes \o exits \in Seq(Posted) /\ Merges(deletes \o exits, deletes, exits)
       /\ Count(deletes \o exits, d) = k
  BY <1>7, <1>8, <1>10, <1>12, JoinedOf, CountJoined
<1> QED
  BY <1>13, <1>14, <1>15, <1>16

-----------------------------------------------------------------------------
(* Sums over the classes. *)

LEMMA LessAndMore ==
  ASSUME NEW x \in Int, NEW y \in Int
  PROVE  /\ Min({x, y}) = IF x =< y THEN x ELSE y
         /\ Max({x, y}) = IF x >= y THEN x ELSE y
<1>1. \E m \in {x, y} : \A z \in {x, y} : m =< z
  OBVIOUS
<1>2. Min({x, y}) \in {x, y} /\ \A z \in {x, y} : Min({x, y}) =< z
  BY <1>1, Zenon DEF Min
<1>3. \E m \in {x, y} : \A z \in {x, y} : m >= z
  OBVIOUS
<1>4. Max({x, y}) \in {x, y} /\ \A z \in {x, y} : Max({x, y}) >= z
  BY <1>3, Zenon DEF Max
<1> HIDE DEF Min, Max
<1> QED
  BY <1>2, <1>4

LEMMA SumNone ==
  ASSUME NEW n \in Nat, NEW f, \A i \in 0 .. n - 1 : f[i] = 0
  PROVE  Sum(n, f) = 0
<1> DEFINE s == [i \in 1 .. n |-> f[i - 1]]
<1>1. \A i \in 1 .. n : i - 1 \in 0 .. n - 1
  OBVIOUS
<1>2. s \in [1 .. n -> Int] /\ \A i \in 1 .. n : s[i] = 0
  BY <1>1
<1> HIDE DEF s
<1>3. Total(s) = 0
  BY <1>2, TotalNone
<1> QED
  BY <1>3 DEF Sum, s

LEMMA SumNext ==
  ASSUME NEW n \in Nat, NEW f, \A i \in 0 .. n : f[i] \in Int
  PROVE  Sum(n, f) \in Int /\ Sum(n + 1, f) = Sum(n, f) + f[n]
<1> DEFINE s == [i \in 1 .. n |-> f[i - 1]]
           t == [i \in 1 .. n + 1 |-> f[i - 1]]
<1>1. \A i \in 1 .. n + 1 : i - 1 \in 0 .. n
  OBVIOUS
<1>2. s \in [1 .. n -> Int] /\ t \in [1 .. n + 1 -> Int]
  BY <1>1
<1>3. (\A j \in 1 .. n : t[j] = s[j]) /\ t[n + 1] = f[n]
  <2>1. (n + 1) - 1 = n /\ n + 1 \in 1 .. n + 1
    OBVIOUS
  <2>2. \A j \in 1 .. n : j \in 1 .. n + 1
    OBVIOUS
  <2> QED
    BY <2>1, <2>2
<1> HIDE DEF s, t
<1>4. Total(t) = Total(s) + t[n + 1]
  BY <1>2, <1>3, TotalAdded
<1>5. Total(s) \in Int
  BY <1>2, TotalType
<1>6. Sum(n, f) = Total(s) /\ Sum(n + 1, f) = Total(t)
  BY DEF Sum, s, t
<1> QED
  BY <1>3, <1>4, <1>5, <1>6

LEMMA SumType ==
  ASSUME NEW n \in Nat, NEW f, \A i \in 0 .. n - 1 : f[i] \in Int
  PROVE  Sum(n, f) \in Int
<1> DEFINE s == [i \in 1 .. n |-> f[i - 1]]
<1>1. \A i \in 1 .. n : i - 1 \in 0 .. n - 1
  OBVIOUS
<1>2. s \in [1 .. n -> Int]
  BY <1>1
<1> HIDE DEF s
<1>3. Total(s) \in Int
  BY <1>2, TotalType
<1> QED
  BY <1>3 DEF Sum, s

LEMMA SumChanged ==
  ASSUME NEW n \in Nat, NEW f, NEW g, NEW k \in 0 .. n - 1,
         \A i \in 0 .. n - 1 : f[i] \in Int /\ g[i] \in Int,
         \A i \in 0 .. n - 1 : i # k => g[i] = f[i]
  PROVE  Sum(n, f) \in Int /\ Sum(n, g) = Sum(n, f) + (g[k] - f[k])
<1> DEFINE s == [i \in 1 .. n |-> f[i - 1]]
           t == [i \in 1 .. n |-> g[i - 1]]
<1>1. \A i \in 1 .. n : i - 1 \in 0 .. n - 1
  OBVIOUS
<1>2. s \in [1 .. n -> Int] /\ t \in [1 .. n -> Int]
  BY <1>1
<1>3. k + 1 \in 1 .. n /\ (k + 1) - 1 = k
  OBVIOUS
<1>4. s[k + 1] = f[k] /\ t[k + 1] = g[k]
  BY <1>3
<1>5. \A j \in 1 .. n : j # k + 1 => t[j] = s[j]
  <2> TAKE j \in 1 .. n
  <2>1. j # k + 1 => j - 1 # k
    OBVIOUS
  <2> QED
    BY <1>1, <2>1
<1> HIDE DEF s, t
<1>6. Total(t) = Total(s) + (t[k + 1] - s[k + 1])
  BY <1>2, <1>3, <1>5, TotalChanged
<1>7. Total(s) \in Int
  BY <1>2, TotalType
<1>8. Sum(n, f) = Total(s) /\ Sum(n, g) = Total(t)
  BY DEF Sum, s, t
<1> QED
  BY <1>4, <1>6, <1>7, <1>8

LEMMA SumAdded ==
  ASSUME NEW n \in Nat, NEW f, NEW d, NEW g,
         \A i \in 0 .. n - 1 : f[i] \in Int /\ d[i] \in Int /\ g[i] = f[i] + d[i]
  PROVE  Sum(n, f) \in Int /\ Sum(n, d) \in Int /\ Sum(n, g) = Sum(n, f) + Sum(n, d)
<1> DEFINE N == {k \in 0 .. n : Sum(k, g) = Sum(k, f) + Sum(k, d)}
<1>1. 0 \in N
  <2>1. Sum(0, f) = 0 /\ Sum(0, d) = 0 /\ Sum(0, g) = 0
    BY SumNone
  <2> QED
    BY <2>1
<1>2. ASSUME NEW k \in 0 .. n - 1, k \in N PROVE k + 1 \in N
  <2>1. k \in Nat /\ k + 1 \in 0 .. n
    OBVIOUS
  <2>2. /\ \A i \in 0 .. k : f[i] \in Int
        /\ \A i \in 0 .. k : d[i] \in Int
        /\ \A i \in 0 .. k : g[i] \in Int
    <3>1. \A i \in 0 .. k : i \in 0 .. n - 1
      OBVIOUS
    <3> QED
      BY <3>1
  <2>3. /\ Sum(k, f) \in Int /\ Sum(k + 1, f) = Sum(k, f) + f[k]
        /\ Sum(k, d) \in Int /\ Sum(k + 1, d) = Sum(k, d) + d[k]
        /\ Sum(k, g) \in Int /\ Sum(k + 1, g) = Sum(k, g) + g[k]
    BY <2>1, <2>2, SumNext, Zenon
  <2>4. Sum(k, g) = Sum(k, f) + Sum(k, d)
    BY <1>2
  <2>5. Sum(k + 1, g) = Sum(k + 1, f) + Sum(k + 1, d)
    BY <2>3, <2>4
  <2> QED
    BY <2>1, <2>5
<1> HIDE DEF N
<1>3. n \in N
  <2>1. n \in 0 .. n
    OBVIOUS
  <2> QED
    BY <2>1, <1>1, <1>2, UpTo
<1>4. Sum(n, f) \in Int /\ Sum(n, d) \in Int
  BY SumType
<1> QED
  BY <1>3, <1>4 DEF N

LEMMA SumNat ==
  ASSUME NEW n \in Nat, NEW f, \A i \in 0 .. n - 1 : f[i] \in Nat
  PROVE  Sum(n, f) \in Nat
<1> DEFINE N == {k \in 0 .. n : Sum(k, f) \in Nat}
<1>1. 0 \in N
  <2>1. Sum(0, f) = 0
    BY SumNone
  <2> QED
    BY <2>1
<1>2. ASSUME NEW k \in 0 .. n - 1, k \in N PROVE k + 1 \in N
  <2>1. k \in Nat /\ k + 1 \in 0 .. n /\ \A i \in 0 .. k : i \in 0 .. n - 1
    OBVIOUS
  <2>2. \A i \in 0 .. k : f[i] \in Int
    BY <2>1
  <2>3. Sum(k + 1, f) = Sum(k, f) + f[k]
    BY <2>1, <2>2, SumNext, Zenon
  <2>4. Sum(k, f) \in Nat /\ f[k] \in Nat
    BY <1>2
  <2> QED
    BY <2>1, <2>3, <2>4
<1> HIDE DEF N
<1>3. n \in N
  <2>1. n \in 0 .. n
    OBVIOUS
  <2> QED
    BY <2>1, <1>1, <1>2, UpTo
<1> QED
  BY <1>3 DEF N

-----------------------------------------------------------------------------
(* What hostaddlogic asks for. *)

(* What is given of req, by arch classes that have room for so much each. *)
LEMMA Given ==
  ASSUME NEW n \in Nat, NEW room, NEW req \in Nat, NEW given,
         \A a \in 0 .. n - 1 : room[a] \in Nat
           /\ given[a] = Min({room[a], Max({0, req - Sum(a, room)})})
  PROVE  /\ \A a \in 0 .. n - 1 : given[a] \in Nat
         /\ Sum(n, given) \in Nat /\ Sum(n, given) =< req
<1>1. ASSUME NEW a \in 0 .. n - 1
      PROVE  /\ given[a] \in Nat /\ Sum(a, room) \in Nat
             /\ given[a] = IF req =< Sum(a, room) THEN 0
                           ELSE IF room[a] =< req - Sum(a, room) THEN room[a]
                           ELSE req - Sum(a, room)
  <2>1. a \in Nat /\ \A b \in 0 .. a - 1 : b \in 0 .. n - 1
    OBVIOUS
  <2>2. \A b \in 0 .. a - 1 : room[b] \in Nat
    BY <2>1
  <2>3. Sum(a, room) \in Nat
    BY <2>1, <2>2, SumNat
  <2> DEFINE s == Sum(a, room)
             x == room[a]
             y == req - s
             z == Max({0, y})
  <2>4. s \in Nat /\ x \in Nat /\ given[a] = Min({x, z})
    BY <2>3
  <2> HIDE DEF s, x
  <2>5. y \in Int /\ 0 \in Int
    BY <2>4
  <2> HIDE DEF y
  <2>6. z = IF 0 >= y THEN 0 ELSE y
    BY <2>5, LessAndMore
  <2>7. z \in Int
    BY <2>5, <2>6
  <2> HIDE DEF z
  <2>8. Min({x, z}) = IF x =< z THEN x ELSE z
    BY <2>4, <2>7, LessAndMore
  <2>9. given[a] \in Nat /\ given[a] = IF req =< s THEN 0 ELSE IF x =< y THEN x ELSE y
    BY <2>4, <2>6, <2>8, <2>5 DEF y
  <2> QED
    BY <2>4, <2>9 DEF s, x, y
<1> DEFINE N == {k \in 0 .. n :
                   /\ Sum(k, given) \in Nat /\ Sum(k, room) \in Nat
                   /\ Sum(k, given) = IF req =< Sum(k, room) THEN req ELSE Sum(k, room)}
<1>2. 0 \in N
  <2>1. Sum(0, given) = 0 /\ Sum(0, room) = 0
    BY SumNone
  <2> QED
    BY <2>1
<1>3. ASSUME NEW k \in 0 .. n - 1, k \in N PROVE k + 1 \in N
  <2>1. k \in Nat /\ k + 1 \in 0 .. n /\ \A a \in 0 .. k : a \in 0 .. n - 1
    OBVIOUS
  <2>2. \A a \in 0 .. k : given[a] \in Int
    BY <2>1, <1>1
  <2>3. \A a \in 0 .. k : room[a] \in Int
    <3>1. \A a \in 0 .. n - 1 : room[a] \in Nat
      OBVIOUS
    <3> QED
      BY <2>1, <3>1
  <2>4. Sum(k + 1, given) = Sum(k, given) + given[k]
    BY <2>1, <2>2, SumNext, Zenon
  <2>5. Sum(k + 1, room) = Sum(k, room) + room[k]
    BY <2>1, <2>3, SumNext, Zenon
  <2> DEFINE g == Sum(k, given)
             s == Sum(k, room)
             x == room[k]
             y == given[k]
  <2>6. g \in Nat /\ s \in Nat /\ g = IF req =< s THEN req ELSE s
    BY <1>3
  <2>7. x \in Nat /\ y \in Nat
        /\ y = IF req =< s THEN 0 ELSE IF x =< req - s THEN x ELSE req - s
    BY <1>1
  <2> HIDE DEF g, s, x, y
  <2>8. g + y \in Nat /\ s + x \in Nat /\ g + y = IF req =< s + x THEN req ELSE s + x
    BY <2>6, <2>7
  <2>9. Sum(k + 1, given) = g + y /\ Sum(k + 1, room) = s + x
    BY <2>4, <2>5 DEF g, s, x, y
  <2> QED
    BY <2>1, <2>8, <2>9
<1> HIDE DEF N
<1>4. n \in N
  <2>1. n \in 0 .. n
    OBVIOUS
  <2> QED
    BY <2>1, <1>2, <1>3, UpTo
<1> QED
  BY <1>1, <1>4 DEF N

LEMMA RequestsType ==
  ASSUME NEW r, NEW reqs \in [ExecClasses(r) -> [PvmClasses -> Nat]], NEW c \in ExecClasses(r)
  PROVE  Requests(reqs, c) \in Nat
<1>1. PvmArches \in Nat
  BY HostBounds
<1>2. \A a \in 0 .. PvmArches - 1 : reqs[c][a] \in Nat
  BY DEF PvmClasses
<1> QED
  BY <1>1, <1>2, SumNat DEF Requests

LEMMA OfArchType ==
  ASSUME NEW r, Configuration(r), NEW reqs \in [ExecClasses(r) -> [PvmClasses -> Nat]],
         NEW a \in PvmClasses
  PROVE  OfArch(r, reqs, a) \in Nat
<1> DEFINE f == [c \in ExecClasses(r) |-> reqs[c][a]]
<1>1. r.exec_classes \in Nat
  BY DEF Configuration, RMComm
<1>2. \A c \in 0 .. r.exec_classes - 1 : f[c] \in Nat
  BY DEF ExecClasses
<1> HIDE DEF f
<1>3. Sum(r.exec_classes, f) \in Nat
  BY <1>1, <1>2, SumNat
<1> QED
  BY <1>3 DEF OfArch, f

LEMMA AskedForClassFits ==
  ASSUME NEW r, Configuration(r), NEW num \in [ExecClasses(r) -> Nat],
         NEW reqs \in [ExecClasses(r) -> [PvmClasses -> Nat]], NEW c \in ExecClasses(r),
         NEW given, given = AskedForClass(r, num, reqs, c)
  PROVE  /\ given \in [PvmClasses -> Nat] /\ Sum(PvmArches, given) \in Nat
         /\ Sum(PvmArches, given) > 0 =>
              num[c] + Requests(reqs, c) + Sum(PvmArches, given) =< Target(r, c)
<1> DEFINE missing == Missing(r, num, reqs, c)
           over == Requests(reqs, c) > NumExecs(r, c) * r.hostinc
           h == 2 * r.hostinc
           some == Max({0, missing})
           req == IF over THEN 0 ELSE Min({h, some})
           room == [a \in PvmClasses |-> IF HasExecutable(r, c, a) THEN Room(r, reqs, a) ELSE 0]
<1>1. /\ r.hostinc \in Nat /\ r.exec_classes \in Nat /\ r.exec_class_target \in Seq(Nat)
      /\ Len(r.exec_class_target) = r.exec_classes
  BY DEF Configuration, RMComm
<1>2. Target(r, c) \in Nat
  BY <1>1 DEF Target, ExecClasses
<1>3. Requests(reqs, c) \in Nat /\ num[c] \in Nat
  BY RequestsType
<1>4. missing = Target(r, c) - (num[c] + Requests(reqs, c)) /\ missing \in Int
  BY <1>2, <1>3 DEF Missing
<1> HIDE DEF missing, over
<1>5. some = IF 0 >= missing THEN 0 ELSE missing
  <2>1. missing \in Int /\ 0 \in Int
    BY <1>4
  <2> QED
    BY <2>1, LessAndMore
<1>6. some \in Nat
  BY <1>4, <1>5
<1>7. h \in Nat
  BY <1>1
<1> HIDE DEF some, h
<1>8. Min({h, some}) = IF h =< some THEN h ELSE some
  BY <1>6, <1>7, LessAndMore
<1>9. req \in Nat /\ req =< some
  BY <1>6, <1>7, <1>8
<1>10. \A a \in PvmClasses : Room(r, reqs, a) \in Nat
  <2> TAKE a \in PvmClasses
  <2>1. OfArch(r, reqs, a) \in Nat
    BY OfArchType
  <2> QED
    BY <1>1, <2>1 DEF Room
<1>11. \A a \in 0 .. PvmArches - 1 : room[a] \in Nat
  BY <1>10 DEF PvmClasses
<1>12. given = [a \in PvmClasses |-> Min({room[a], Max({0, req - Sum(a, room)})})]
  BY DEF AskedForClass, over, missing, h, some
<1> HIDE DEF req, room
<1>13. \A a \in 0 .. PvmArches - 1 : given[a] = Min({room[a], Max({0, req - Sum(a, room)})})
  BY <1>12 DEF PvmClasses
<1>14. PvmArches \in Nat
  BY HostBounds
<1>15. /\ \A a \in 0 .. PvmArches - 1 : given[a] \in Nat
       /\ Sum(PvmArches, given) \in Nat /\ Sum(PvmArches, given) =< req
  BY <1>9, <1>11, <1>13, <1>14, Given
<1>16. given \in [PvmClasses -> Nat]
  BY <1>12, <1>15 DEF PvmClasses
<1>17. Sum(PvmArches, given) > 0 =>
         num[c] + Requests(reqs, c) + Sum(PvmArches, given) =< Target(r, c)
  <2> DEFINE s == Sum(PvmArches, given)
             q == Requests(reqs, c)
             n == num[c]
             t == Target(r, c)
  <2>1. s \in Nat /\ s =< req /\ req =< some /\ q \in Nat /\ n \in Nat /\ t \in Nat
        /\ missing = t - (n + q)
    BY <1>15, <1>9, <1>2, <1>3, <1>4
  <2> HIDE DEF s, q, n, t
  <2>2. s > 0 => n + q + s =< t
    BY <2>1, <1>5, <1>9, <1>6
  <2> QED
    BY <2>2 DEF s, q, n, t
<1> QED
  BY <1>15, <1>16, <1>17

RequestOf(r) == [exec_class : ExecClasses(r), arch_class : PvmClasses]

Rows(c, howmany) ==
  [i \in 1 .. PvmArches |->
     [k \in 1 .. howmany[i - 1] |-> [exec_class |-> c, arch_class |-> i - 1]]]

(* s is the rows, one after the other. *)
Chained(X, rows, s) ==
  \E u \in [0 .. PvmArches -> Seq(X)] :
    /\ u[0] = <<>> /\ s = u[PvmArches]
    /\ \A k \in 1 .. PvmArches : u[k] = u[k - 1] \o rows[k]

LEMMA RequestsForUnrolls ==
  ASSUME NEW X, NEW c, NEW howmany, NEW rows, rows = Rows(c, howmany),
         rows \in Seq(Seq(X)), Len(rows) = PvmArches
  PROVE  Chained(X, rows, RequestsFor(c, howmany))
<1> DEFINE T == Seq(X)
           G == [p \in T \X T |-> p[1] \o p[2]]
           D == SUBSET (1 .. Len(rows))
           Fold(f) == [x \in D |-> IF x = {} THEN <<>> ELSE f[x \ {Max(x)}] \o rows[Max(x)]]
           it == CHOOSE f : f = Fold(f)
<1>1. \A s, t \in T : s \o t \in T
  OBVIOUS
<1>2. G \in [T \X T -> T] /\ <<>> \in T
  BY <1>1
<1>3. \A s, t \in T : G[<<s, t>>] = s \o t
  OBVIOUS
<1>4. rows \in Seq(T)
  OBVIOUS
<1> HIDE DEF G, T
<1>5. ASSUME NEW x \in D, x # {} PROVE x \ {Max(x)} \in D /\ rows[Max(x)] \in T
  <2>1. x \in SUBSET (1 .. Len(rows)) /\ Len(rows) \in Nat
    BY <1>4
  <2>2. Max(x) \in x
    BY <1>5, <2>1, MaxUpTo, Zenon
  <2>3. Max(x) \in 1 .. Len(rows)
    BY <2>1, <2>2
  <2>4. rows[Max(x)] \in T
    BY <1>4, <2>3
  <2>5. x \ {Max(x)} \in D
    BY <2>1, Zenon
  <2> QED
    BY <2>4, <2>5
<1>6. PICK f \in [D -> T] : Folds(f, G, <<>>, rows, Len(rows))
  BY <1>2, <1>4, FoldExists
<1>7. f = Fold(f)
  <2>1. \A x \in D : f[x] = IF x = {} THEN <<>> ELSE f[x \ {Max(x)}] \o rows[Max(x)]
    <3>1. ASSUME NEW x \in D, x # {} PROVE f[x] = f[x \ {Max(x)}] \o rows[Max(x)]
      <4>1. f[x] = G[<<f[x \ {Max(x)}], rows[Max(x)]>>]
        BY <1>6, <3>1, Zenon DEF Folds
      <4>2. f[x \ {Max(x)}] \in T /\ rows[Max(x)] \in T
        BY <1>5, <1>6, <3>1
      <4> QED
        BY <4>1, <4>2, <1>3, Zenon
    <3>2. ASSUME NEW x \in D, x = {} PROVE f[x] = <<>>
      BY <1>6, <3>2, Zenon DEF Folds
    <3> QED
      BY <3>1, <3>2, Zenon
  <2>2. f = [x \in D |-> f[x]]
    BY <1>6
  <2> QED
    BY <2>1, <2>2, Zenon
<1> HIDE DEF D
<1>8. it = Fold(it)
  BY <1>7, Zenon
<1> HIDE DEF it
<1>9. \A x \in D : it[x] = IF x = {} THEN <<>> ELSE it[x \ {Max(x)}] \o rows[Max(x)]
  BY <1>8, Zenon
<1>10. ASSUME NEW x \in D, x # {}, it[x \ {Max(x)}] \in T
       PROVE  it[x] = G[<<it[x \ {Max(x)}], rows[Max(x)]>>]
  BY <1>3, <1>5, <1>9, <1>10, Zenon
<1>11. it[{}] = <<>>
  <2>1. {} \in D
    BY DEF D
  <2> QED
    BY <2>1, <1>9, Zenon
<1>12. it = [x \in SUBSET (1 .. Len(rows)) |-> it[x]]
  BY <1>8 DEF D
<1> HIDE DEF Fold
<1>13. PICK u \in [0 .. Len(rows) -> T] :
         Unrolled(u, G, <<>>, rows) /\ it[1 .. Len(rows)] = u[Len(rows)]
  <2>1. FoldsTo(T, G, <<>>, rows, it[1 .. Len(rows)])
    BY <1>2, <1>4, <1>10, <1>11, <1>12, FoldsAre DEF D
  <2> QED
    BY <2>1, Zenon DEF FoldsTo
<1>14. RequestsFor(c, howmany) = it[1 .. Len(rows)]
  <2>1. DOMAIN rows = 1 .. Len(rows)
    BY <1>4
  <2>2. RequestsFor(c, howmany) = FoldLeft(\o, <<>>, rows)
    BY DEF RequestsFor, Rows
  <2>3. FoldLeft(\o, <<>>, rows) = it[1 .. Len(rows)]
    BY <2>1 DEF FoldLeft, MapThenFoldSet, it, D, Fold
  <2> QED
    BY <2>2, <2>3
<1>15. ASSUME NEW k \in 1 .. Len(rows) PROVE u[k] = u[k - 1] \o rows[k]
  <2>1. k - 1 \in 0 .. Len(rows) /\ rows[k] \in T
    BY <1>4
  <2>2. u[k - 1] \in T
    BY <1>13, <2>1, Zenon
  <2>3. u[k] = G[<<u[k - 1], rows[k]>>]
    BY <1>13, Zenon DEF Unrolled
  <2> QED
    BY <1>3, <2>1, <2>2, <2>3, Zenon
<1> QED
  BY <1>13, <1>14, <1>15 DEF Unrolled, T, Chained

LEMMA RequestsForCounts ==
  ASSUME NEW r, NEW c \in ExecClasses(r), NEW howmany \in [PvmClasses -> Nat]
  PROVE  /\ RequestsFor(c, howmany) \in Seq(RequestOf(r))
         /\ \A e \in ExecClasses(r), a \in PvmClasses :
              Count(RequestsFor(c, howmany), [exec_class |-> e, arch_class |-> a]) =
                IF e = c THEN howmany[a] ELSE 0
<1> DEFINE X == RequestOf(r)
           x(i) == [exec_class |-> c, arch_class |-> i - 1]
           row(i) == [k \in 1 .. howmany[i - 1] |-> x(i)]
           rows == [i \in 1 .. PvmArches |-> row(i)]
<1>1. PvmArches \in Nat /\ \A i \in 1 .. PvmArches : i - 1 \in PvmClasses
  BY HostBounds DEF PvmClasses
<1>2. ASSUME NEW i \in 1 .. PvmArches
      PROVE  x(i) \in X /\ row(i) \in Seq(X) /\ Len(row(i)) = howmany[i - 1]
             /\ howmany[i - 1] \in Nat /\ \A k \in DOMAIN row(i) : row(i)[k] = x(i)
  <2>1. howmany[i - 1] \in Nat /\ x(i) \in X
    BY <1>1 DEF RequestOf
  <2> HIDE DEF X, x
  <2> QED
    BY <2>1
<1> HIDE DEF X
<1>3. rows \in Seq(Seq(X)) /\ Len(rows) = PvmArches
  BY <1>1, <1>2
<1>4. PICK u \in [0 .. PvmArches -> Seq(X)] :
        /\ u[0] = <<>> /\ RequestsFor(c, howmany) = u[PvmArches]
        /\ \A k \in 1 .. PvmArches : u[k] = u[k - 1] \o rows[k]
  <2>1. rows = Rows(c, howmany)
    BY DEF Rows
  <2> HIDE DEF rows
  <2>2. Chained(X, rows, RequestsFor(c, howmany))
    BY <2>1, <1>3, RequestsForUnrolls
  <2> QED
    BY <2>2, Zenon DEF Chained
<1>5. ASSUME NEW i \in 1 .. PvmArches, NEW y
      PROVE  Count(rows[i], y) = IF y = x(i) THEN howmany[i - 1] ELSE 0
  <2>1. rows[i] = row(i)
    OBVIOUS
  <2> HIDE DEF x, row
  <2>2. CASE y = x(i)
    <3>1. Cardinality(Hits(row(i), {y})) = Len(row(i))
      BY <1>2, <2>2, HitsAll
    <3> QED
      BY <3>1, <2>1, <2>2, <1>2, CountIsHits
  <2>3. CASE y # x(i)
    <3>1. Cardinality(Hits(row(i), {y})) = 0
      BY <1>2, <2>3, HitsNone
    <3> QED
      BY <3>1, <2>1, <2>3, CountIsHits
  <2> QED
    BY <2>2, <2>3
<1> DEFINE q(e, a) == [exec_class |-> e, arch_class |-> a]
           N == {k \in 0 .. PvmArches :
                   \A e \in ExecClasses(r), a \in PvmClasses :
                     Count(u[k], q(e, a)) = IF e = c /\ a < k THEN howmany[a] ELSE 0}
<1>6. 0 \in N
  <2>1. \A e \in ExecClasses(r), a \in PvmClasses :
          Count(u[0], q(e, a)) = IF e = c /\ a < 0 THEN howmany[a] ELSE 0
    <3> TAKE e \in ExecClasses(r), a \in PvmClasses
    <3>1. ~(a < 0)
      BY DEF PvmClasses
    <3>2. {i \in DOMAIN u[0] : u[0][i] = q(e, a)} = {}
      BY <1>4
    <3> QED
      BY <3>1, <3>2, FS_EmptySet DEF Count
  <2> QED
    BY <1>1, <2>1
<1>7. ASSUME NEW k \in 0 .. PvmArches - 1, k \in N PROVE k + 1 \in N
  <2>1. /\ k + 1 \in 1 .. PvmArches /\ k + 1 \in 0 .. PvmArches /\ (k + 1) - 1 = k
        /\ k \in 0 .. PvmArches /\ k \in Int
    BY <1>1
  <2>2. u[k + 1] = u[k] \o rows[k + 1]
    BY <1>4, <2>1
  <2>3. u[k] \in Seq(X) /\ rows[k + 1] \in Seq(X)
    BY <1>2, <1>4, <2>1
  <2>4. ASSUME NEW e \in ExecClasses(r), NEW a \in PvmClasses
        PROVE  Count(u[k + 1], q(e, a)) = IF e = c /\ a < k + 1 THEN howmany[a] ELSE 0
    <3>1. Count(u[k], q(e, a)) = IF e = c /\ a < k THEN howmany[a] ELSE 0
      BY <1>7
    <3>2. Count(rows[k + 1], q(e, a)) = IF e = c /\ a = k THEN howmany[a] ELSE 0
      <4>1. q(e, a) = x(k + 1) <=> e = c /\ a = k
        BY <2>1
      <4>2. Count(rows[k + 1], q(e, a)) = IF q(e, a) = x(k + 1) THEN howmany[(k + 1) - 1] ELSE 0
        BY <2>1, <1>5, Zenon
      <4> QED
        BY <2>1, <4>1, <4>2
    <3>3. Count(u[k + 1], q(e, a)) = Count(u[k], q(e, a)) + Count(rows[k + 1], q(e, a))
      BY <2>2, <2>3, CountJoined
    <3>4. a \in Int /\ howmany[a] \in Nat
      BY DEF PvmClasses
    <3> HIDE DEF q, rows
    <3> QED
      BY <2>1, <3>1, <3>2, <3>3, <3>4
  <2> QED
    BY <2>1, <2>4
<1> HIDE DEF N
<1>8. PvmArches \in N
  <2>1. PvmArches \in 0 .. PvmArches
    BY <1>1
  <2> QED
    BY <2>1, <1>1, <1>6, <1>7, UpTo
<1>9. ASSUME NEW e \in ExecClasses(r), NEW a \in PvmClasses
      PROVE  Count(RequestsFor(c, howmany), q(e, a)) = IF e = c THEN howmany[a] ELSE 0
  <2>1. a < PvmArches
    BY <1>1 DEF PvmClasses
  <2> QED
    BY <2>1, <1>4, <1>8 DEF N
<1>10. RequestsFor(c, howmany) \in Seq(X)
  BY <1>1, <1>4
<1> QED
  BY <1>9, <1>10 DEF X

(* What hostaddlogic works on: requests, their list, and how many are new. *)
Asking(r) ==
  [ reqs : [ExecClasses(r) -> [PvmClasses -> Nat]], submit : Seq(RequestOf(r)),
    howmany : [PvmClasses -> Nat] ]

(* From s to t only requests were added, to both accounts and to the asks, and *)
(* for no exec class beyond what was missing.                                  *)
Grown(r, num, s, t) ==
  /\ \A a \in PvmClasses :
       OfArch(r, t.reqs, a) + s.howmany[a] = OfArch(r, s.reqs, a) + t.howmany[a]
  /\ \A e \in ExecClasses(r), a \in PvmClasses :
       LET q == [exec_class |-> e, arch_class |-> a]
       IN  Count(t.submit, q) + s.reqs[e][a] = Count(s.submit, q) + t.reqs[e][a]
  /\ \A e \in ExecClasses(r) :
       Requests(t.reqs, e) > Requests(s.reqs, e) =>
         num[e] + Requests(t.reqs, e) =< Target(r, e)

LEMMA CountType ==
  ASSUME NEW X, NEW s \in Seq(X), NEW x
  PROVE  Count(s, x) \in Nat
<1>1. Cardinality(Hits(s, {x})) \in Nat
  BY HitsFinite
<1> QED
  BY <1>1, CountIsHits

LEMMA AskForGrows ==
  ASSUME NEW r, Configuration(r), NEW num \in [ExecClasses(r) -> Nat], NEW s \in Asking(r),
         NEW c \in ExecClasses(r), NEW t, t = AskFor(r, num, s, c)
  PROVE  t \in Asking(r) /\ Grown(r, num, s, t)
<1> DEFINE given == AskedForClass(r, num, s.reqs, c)
           row == [a \in PvmClasses |-> s.reqs[c][a] + given[a]]
<1>1. /\ s.reqs \in [ExecClasses(r) -> [PvmClasses -> Nat]] /\ s.submit \in Seq(RequestOf(r))
      /\ s.howmany \in [PvmClasses -> Nat]
  BY DEF Asking
<1>2. /\ given \in [PvmClasses -> Nat] /\ Sum(PvmArches, given) \in Nat
      /\ Sum(PvmArches, given) > 0 =>
           num[c] + Requests(s.reqs, c) + Sum(PvmArches, given) =< Target(r, c)
  BY <1>1, AskedForClassFits
<1>3. /\ t.reqs = [s.reqs EXCEPT ![c] = row]
      /\ t.submit = s.submit \o RequestsFor(c, given)
      /\ t.howmany = [a \in PvmClasses |-> s.howmany[a] + given[a]]
      /\ t = [reqs |-> t.reqs, submit |-> t.submit, howmany |-> t.howmany]
  BY DEF AskFor
<1> HIDE DEF given
<1>4. row \in [PvmClasses -> Nat]
  <2>1. \A a \in PvmClasses : s.reqs[c][a] \in Nat /\ given[a] \in Nat
    BY <1>1, <1>2
  <2> QED
    BY <2>1
<1>5. /\ RequestsFor(c, given) \in Seq(RequestOf(r))
      /\ \A e \in ExecClasses(r), a \in PvmClasses :
           Count(RequestsFor(c, given), [exec_class |-> e, arch_class |-> a]) =
             IF e = c THEN given[a] ELSE 0
  BY <1>2, RequestsForCounts
<1>6. \A a \in PvmClasses : row[a] = s.reqs[c][a] + given[a]
  OBVIOUS
<1> HIDE DEF row
<1>7. /\ t.reqs \in [ExecClasses(r) -> [PvmClasses -> Nat]] /\ t.reqs[c] = row
      /\ \A e \in ExecClasses(r) : e # c => t.reqs[e] = s.reqs[e]
  BY <1>1, <1>3, <1>4
<1>8. t.submit \in Seq(RequestOf(r))
  BY <1>1, <1>3, <1>5
<1>9. /\ t.howmany \in [PvmClasses -> Nat]
      /\ \A a \in PvmClasses : t.howmany[a] = s.howmany[a] + given[a]
  <2>1. \A a \in PvmClasses : s.howmany[a] \in Nat /\ given[a] \in Nat
    BY <1>1, <1>2
  <2> QED
    BY <2>1, <1>3
<1>10. t \in Asking(r)
  BY <1>3, <1>7, <1>8, <1>9 DEF Asking
<1>11. ASSUME NEW a \in PvmClasses
       PROVE  OfArch(r, t.reqs, a) + s.howmany[a] = OfArch(r, s.reqs, a) + t.howmany[a]
  <2> DEFINE f == [e \in ExecClasses(r) |-> s.reqs[e][a]]
             g == [e \in ExecClasses(r) |-> t.reqs[e][a]]
             n == r.exec_classes
  <2>1. n \in Nat /\ ExecClasses(r) = 0 .. n - 1
    BY DEF Configuration, RMComm, ExecClasses
  <2>2. /\ \A e \in 0 .. n - 1 : f[e] \in Int /\ g[e] \in Int
        /\ \A e \in 0 .. n - 1 : e # c => g[e] = f[e]
    <3>1. \A e \in ExecClasses(r) : f[e] \in Nat /\ g[e] \in Nat
      BY <1>1, <1>7
    <3>2. \A e \in ExecClasses(r) : e # c => g[e] = f[e]
      BY <1>7
    <3> HIDE DEF f, g
    <3> QED
      BY <2>1, <3>1, <3>2
  <2>3. g[c] - f[c] = given[a] /\ g[c] \in Nat /\ f[c] \in Nat /\ given[a] \in Nat
    <3>1. f[c] = s.reqs[c][a] /\ g[c] = row[a] /\ f[c] \in Nat /\ given[a] \in Nat
      BY <1>1, <1>2, <1>7
    <3> QED
      BY <3>1, <1>6
  <2>4. c \in 0 .. n - 1
    BY <2>1
  <2> HIDE DEF f, g, n
  <2>5. Sum(n, f) \in Int /\ Sum(n, g) = Sum(n, f) + (g[c] - f[c])
    BY <2>1, <2>2, <2>4, SumChanged
  <2>6. OfArch(r, s.reqs, a) = Sum(n, f) /\ OfArch(r, t.reqs, a) = Sum(n, g)
    BY DEF OfArch, f, g, n
  <2>7. s.howmany[a] \in Nat /\ t.howmany[a] = s.howmany[a] + given[a]
    BY <1>1, <1>9
  <2> QED
    BY <2>3, <2>5, <2>6, <2>7
<1>12. ASSUME NEW e \in ExecClasses(r), NEW a \in PvmClasses,
              NEW q, q = [exec_class |-> e, arch_class |-> a]
       PROVE  Count(t.submit, q) + s.reqs[e][a] = Count(s.submit, q) + t.reqs[e][a]
  <2>1. Count(t.submit, q) = Count(s.submit, q) + Count(RequestsFor(c, given), q)
        /\ Count(s.submit, q) \in Nat
    BY <1>1, <1>3, <1>5, CountJoined
  <2>2. Count(RequestsFor(c, given), q) = IF e = c THEN given[a] ELSE 0
    BY <1>5, <1>12
  <2>3. s.reqs[e][a] \in Nat /\ given[a] \in Nat
    BY <1>1, <1>2
  <2>4. t.reqs[e][a] = IF e = c THEN s.reqs[e][a] + given[a] ELSE s.reqs[e][a]
    BY <1>6, <1>7
  <2> QED
    BY <2>1, <2>2, <2>3, <2>4
<1>13. ASSUME NEW e \in ExecClasses(r), Requests(t.reqs, e) > Requests(s.reqs, e)
       PROVE  num[e] + Requests(t.reqs, e) =< Target(r, e)
  <2>1. e = c
    <3>1. e # c => Requests(t.reqs, e) = Requests(s.reqs, e)
      BY <1>7 DEF Requests
    <3>2. Requests(t.reqs, e) \in Nat /\ Requests(s.reqs, e) \in Nat
      BY <1>1, <1>7, RequestsType
    <3> QED
      BY <3>1, <3>2, <1>13
  <2>2. Requests(t.reqs, c) = Requests(s.reqs, c) + Sum(PvmArches, given)
    <3> DEFINE f == s.reqs[c]
    <3>1. PvmArches \in Nat
      BY HostBounds
    <3>2. \A a \in 0 .. PvmArches - 1 :
            f[a] \in Int /\ given[a] \in Int /\ row[a] = f[a] + given[a]
      <4>1. f \in [PvmClasses -> Nat] /\ \A a \in PvmClasses : row[a] = f[a] + given[a]
        BY <1>1, <1>6
      <4> HIDE DEF f
      <4> QED
        BY <4>1, <1>2 DEF PvmClasses
    <3> HIDE DEF f
    <3>3. Sum(PvmArches, row) = Sum(PvmArches, f) + Sum(PvmArches, given)
      BY <3>1, <3>2, SumAdded
    <3> QED
      BY <3>3, <1>7 DEF Requests, f
  <2>3. Requests(s.reqs, c) \in Nat /\ num[c] \in Nat
    BY <1>1, RequestsType
  <2>4. Sum(PvmArches, given) > 0
    BY <1>2, <1>13, <2>1, <2>2, <2>3
  <2>5. num[c] + Requests(s.reqs, c) + Sum(PvmArches, given) =< Target(r, c)
    BY <1>2, <2>4
  <2>6. num[c] + Requests(t.reqs, c) = num[c] + Requests(s.reqs, c) + Sum(PvmArches, given)
    BY <1>2, <2>2, <2>3
  <2> QED
    BY <2>1, <2>5, <2>6
<1> QED
  BY <1>10, <1>11, <1>12, <1>13 DEF Grown

LEMMA GrownTwice ==
  ASSUME NEW r, Configuration(r), NEW num \in [ExecClasses(r) -> Nat], NEW s \in Asking(r),
         NEW t \in Asking(r), NEW v \in Asking(r), Grown(r, num, s, t), Grown(r, num, t, v)
  PROVE  Grown(r, num, s, v)
<1>1. \A z \in Asking(r) :
        /\ z.reqs \in [ExecClasses(r) -> [PvmClasses -> Nat]] /\ z.submit \in Seq(RequestOf(r))
        /\ z.howmany \in [PvmClasses -> Nat]
  BY DEF Asking
<1>2. ASSUME NEW a \in PvmClasses
      PROVE  OfArch(r, v.reqs, a) + s.howmany[a] = OfArch(r, s.reqs, a) + v.howmany[a]
  <2>1. /\ OfArch(r, s.reqs, a) \in Nat /\ OfArch(r, t.reqs, a) \in Nat
        /\ OfArch(r, v.reqs, a) \in Nat
    BY <1>1, OfArchType
  <2>2. s.howmany[a] \in Nat /\ t.howmany[a] \in Nat /\ v.howmany[a] \in Nat
    BY <1>1
  <2>3. /\ OfArch(r, t.reqs, a) + s.howmany[a] = OfArch(r, s.reqs, a) + t.howmany[a]
        /\ OfArch(r, v.reqs, a) + t.howmany[a] = OfArch(r, t.reqs, a) + v.howmany[a]
    BY Zenon DEF Grown
  <2> QED
    BY <2>1, <2>2, <2>3
<1>3. ASSUME NEW e \in ExecClasses(r), NEW a \in PvmClasses,
             NEW q, q = [exec_class |-> e, arch_class |-> a]
      PROVE  Count(v.submit, q) + s.reqs[e][a] = Count(s.submit, q) + v.reqs[e][a]
  <2>1. Count(s.submit, q) \in Nat /\ Count(t.submit, q) \in Nat /\ Count(v.submit, q) \in Nat
    BY <1>1, CountType
  <2>2. s.reqs[e][a] \in Nat /\ t.reqs[e][a] \in Nat /\ v.reqs[e][a] \in Nat
    BY <1>1
  <2>3. /\ Count(t.submit, q) + s.reqs[e][a] = Count(s.submit, q) + t.reqs[e][a]
        /\ Count(v.submit, q) + t.reqs[e][a] = Count(t.submit, q) + v.reqs[e][a]
    BY <1>3, Zenon DEF Grown
  <2> QED
    BY <2>1, <2>2, <2>3
<1>4. ASSUME NEW e \in ExecClasses(r), Requests(v.reqs, e) > Requests(s.reqs, e)
      PROVE  num[e] + Requests(v.reqs, e) =< Target(r, e)
  <2>1. /\ Requests(s.reqs, e) \in Nat /\ Requests(t.reqs, e) \in Nat
        /\ Requests(v.reqs, e) \in Nat
    BY <1>1, RequestsType
  <2>2. num[e] \in Nat /\ Target(r, e) \in Nat
    <3>1. /\ r.exec_classes \in Nat /\ r.exec_class_target \in Seq(Nat)
          /\ Len(r.exec_class_target) = r.exec_classes
      BY DEF Configuration, RMComm
    <3> QED
      BY <3>1 DEF Target, ExecClasses
  <2>3. /\ Requests(t.reqs, e) > Requests(s.reqs, e) =>
             num[e] + Requests(t.reqs, e) =< Target(r, e)
        /\ Requests(v.reqs, e) > Requests(t.reqs, e) =>
             num[e] + Requests(v.reqs, e) =< Target(r, e)
    BY Zenon DEF Grown
  <2> QED
    BY <1>4, <2>1, <2>2, <2>3
<1> QED
  BY <1>2, <1>3, <1>4 DEF Grown

(* s is what the classes make of base, one after the other. *)
AskedInTurn(r, num, base, s) ==
  \E u \in [0 .. r.exec_classes -> Asking(r)] :
    /\ u[0] = base /\ s = u[r.exec_classes]
    /\ \A k \in 1 .. r.exec_classes : u[k] = AskFor(r, num, u[k - 1], k - 1)

LEMMA AskedUnrolls ==
  ASSUME NEW r, Configuration(r), NEW num \in [ExecClasses(r) -> Nat],
         NEW reqs, NEW submit, NEW base \in Asking(r),
         base = [reqs |-> reqs, submit |-> submit, howmany |-> None]
  PROVE  AskedInTurn(r, num, base, Asked(r, num, reqs, submit))
<1> DEFINE T == Asking(r)
           X == ExecClasses(r)
           n == r.exec_classes
           W == [i \in 1 .. n |-> i - 1]
           G == [p \in T \X X |-> AskFor(r, num, p[1], p[2])]
           D == SUBSET (1 .. Len(W))
           Fold(f) == [x \in D |-> IF x = {} THEN base
                                   ELSE AskFor(r, num, f[x \ {Max(x)}], W[Max(x)])]
           it == CHOOSE f : f = Fold(f)
<1>1. \A s \in T, c \in X : AskFor(r, num, s, c) \in T
  BY AskForGrows
<1>2. G \in [T \X X -> T] /\ base \in T
  BY <1>1
<1>3. \A s \in T, c \in X : G[<<s, c>>] = AskFor(r, num, s, c)
  OBVIOUS
<1>4. n \in Nat /\ W \in Seq(X) /\ Len(W) = n /\ DOMAIN W = 1 .. n
      /\ \A i \in 1 .. n : W[i] = i - 1
  <2>1. n \in Nat
    BY DEF Configuration, RMComm
  <2>2. \A i \in 1 .. n : i - 1 \in X
    BY <2>1 DEF ExecClasses
  <2> HIDE DEF n, X
  <2> QED
    BY <2>1, <2>2
<1> HIDE DEF G, T, X, W, n
<1>5. ASSUME NEW x \in D, x # {} PROVE x \ {Max(x)} \in D /\ W[Max(x)] \in X
  <2>1. x \in SUBSET (1 .. Len(W)) /\ Len(W) \in Nat
    BY <1>4
  <2>2. Max(x) \in x
    BY <1>5, <2>1, MaxUpTo, Zenon
  <2>3. Max(x) \in 1 .. Len(W)
    BY <2>1, <2>2
  <2>4. W[Max(x)] \in X
    BY <1>4, <2>3
  <2>5. x \ {Max(x)} \in D
    BY <2>1, Zenon
  <2> QED
    BY <2>4, <2>5
<1>6. PICK f \in [D -> T] : Folds(f, G, base, W, Len(W))
  BY <1>2, <1>4, FoldExists
<1>7. f = Fold(f)
  <2>1. \A x \in D : f[x] = IF x = {} THEN base
                            ELSE AskFor(r, num, f[x \ {Max(x)}], W[Max(x)])
    <3>1. ASSUME NEW x \in D, x # {} PROVE f[x] = AskFor(r, num, f[x \ {Max(x)}], W[Max(x)])
      <4>1. f[x] = G[<<f[x \ {Max(x)}], W[Max(x)]>>]
        BY <1>6, <3>1, Zenon DEF Folds
      <4>2. f[x \ {Max(x)}] \in T /\ W[Max(x)] \in X
        BY <1>5, <1>6, <3>1
      <4> QED
        BY <4>1, <4>2, <1>3, Zenon
    <3>2. ASSUME NEW x \in D, x = {} PROVE f[x] = base
      BY <1>6, <3>2, Zenon DEF Folds
    <3> QED
      BY <3>1, <3>2, Zenon
  <2>2. f = [x \in D |-> f[x]]
    BY <1>6
  <2> QED
    BY <2>1, <2>2, Zenon
<1> HIDE DEF D
<1>8. it = Fold(it)
  BY <1>7, Zenon
<1> HIDE DEF it
<1>9. \A x \in D : it[x] = IF x = {} THEN base
                           ELSE AskFor(r, num, it[x \ {Max(x)}], W[Max(x)])
  BY <1>8, Zenon
<1>10. ASSUME NEW x \in D, x # {}, it[x \ {Max(x)}] \in T
       PROVE  it[x] = G[<<it[x \ {Max(x)}], W[Max(x)]>>]
  BY <1>3, <1>5, <1>9, <1>10, Zenon
<1>11. it[{}] = base
  <2>1. {} \in D
    BY DEF D
  <2> QED
    BY <2>1, <1>9, Zenon
<1>12. it = [x \in SUBSET (1 .. Len(W)) |-> it[x]]
  BY <1>8 DEF D
<1> HIDE DEF Fold
<1>13. PICK u \in [0 .. Len(W) -> T] :
         Unrolled(u, G, base, W) /\ it[1 .. Len(W)] = u[Len(W)]
  <2>1. FoldsTo(T, G, base, W, it[1 .. Len(W)])
    BY <1>2, <1>4, <1>10, <1>11, <1>12, FoldsAre DEF D
  <2> QED
    BY <2>1, Zenon DEF FoldsTo
<1>14. Asked(r, num, reqs, submit) = it[1 .. Len(W)]
  <2>1. DOMAIN W = 1 .. Len(W)
    BY <1>4
  <2>2. Asked(r, num, reqs, submit) = FoldLeft(LAMBDA s, c : AskFor(r, num, s, c), base, W)
    BY DEF Asked, W, n
  <2>3. FoldLeft(LAMBDA s, c : AskFor(r, num, s, c), base, W) = it[1 .. Len(W)]
    BY <2>1 DEF FoldLeft, MapThenFoldSet, it, D, Fold
  <2> QED
    BY <2>2, <2>3
<1>15. ASSUME NEW k \in 1 .. n PROVE u[k] = AskFor(r, num, u[k - 1], k - 1)
  <2>1. k - 1 \in 0 .. Len(W) /\ W[k] \in X /\ W[k] = k - 1 /\ k \in 1 .. Len(W)
    BY <1>4
  <2>2. u[k - 1] \in T
    BY <1>13, <2>1, Zenon
  <2>3. u[k] = G[<<u[k - 1], W[k]>>]
    BY <1>13, <2>1, Zenon DEF Unrolled
  <2> QED
    BY <1>3, <2>1, <2>2, <2>3, Zenon
<1>16. /\ u \in [0 .. n -> T] /\ u[0] = base
       /\ Asked(r, num, reqs, submit) = u[n]
  BY <1>4, <1>13, <1>14 DEF Unrolled
<1> QED
  BY <1>15, <1>16, Zenon DEF AskedInTurn, T, n

LEMMA NoneType ==
  None \in [PvmClasses -> Nat] /\ \A a \in PvmClasses : None[a] = 0
<1>1. \A a \in PvmClasses : None[a] = 0
  BY DEF None
<1>2. None \in [PvmClasses -> Nat]
  BY DEF None
<1> QED
  BY <1>1, <1>2

LEMMA AskedGrows ==
  ASSUME NEW r, Configuration(r), NEW num \in [ExecClasses(r) -> Nat],
         NEW reqs, NEW submit, NEW base \in Asking(r),
         base = [reqs |-> reqs, submit |-> submit, howmany |-> None]
  PROVE  /\ Asked(r, num, reqs, submit) \in Asking(r)
         /\ Grown(r, num, base, Asked(r, num, reqs, submit))
<1> DEFINE n == r.exec_classes
<1>1. n \in Nat
  BY DEF Configuration, RMComm
<1>2. PICK u \in [0 .. n -> Asking(r)] :
        /\ u[0] = base /\ Asked(r, num, reqs, submit) = u[n]
        /\ \A k \in 1 .. n : u[k] = AskFor(r, num, u[k - 1], k - 1)
  <2>1. AskedInTurn(r, num, base, Asked(r, num, reqs, submit))
    BY AskedUnrolls
  <2> QED
    BY <2>1, Zenon DEF AskedInTurn
<1>3. ExecClasses(r) = 0 .. n - 1
  BY DEF ExecClasses
<1> HIDE DEF n
<1> DEFINE N == {k \in 0 .. n : Grown(r, num, base, u[k])}
<1>4. 0 \in N
  <2>1. Grown(r, num, base, base)
    <3>1. \A e \in ExecClasses(r) : Requests(base.reqs, e) \in Nat
      <4>1. base.reqs \in [ExecClasses(r) -> [PvmClasses -> Nat]]
        BY DEF Asking
      <4> QED
        BY <4>1, RequestsType
    <3>2. \A e \in ExecClasses(r) : ~(Requests(base.reqs, e) > Requests(base.reqs, e))
      BY <3>1
    <3> QED
      BY <3>2 DEF Grown
  <2> QED
    BY <2>1, <1>1, <1>2
<1>5. ASSUME NEW k \in 0 .. n - 1, k \in N PROVE k + 1 \in N
  <2>1. k \in 0 .. n /\ k + 1 \in 0 .. n /\ k + 1 \in 1 .. n /\ (k + 1) - 1 = k
        /\ k \in ExecClasses(r)
    BY <1>1, <1>3
  <2>2. u[k + 1] = AskFor(r, num, u[k], k) /\ u[k] \in Asking(r) /\ u[k + 1] \in Asking(r)
    BY <1>2, <2>1
  <2>3. Grown(r, num, u[k], u[k + 1])
    BY <2>1, <2>2, AskForGrows
  <2>4. Grown(r, num, base, u[k])
    BY <1>5
  <2>5. Grown(r, num, base, u[k + 1])
    BY <2>2, <2>3, <2>4, GrownTwice
  <2> QED
    BY <2>1, <2>5
<1> HIDE DEF N
<1>6. n \in N
  <2>1. n \in 0 .. n
    BY <1>1
  <2> QED
    BY <2>1, <1>1, <1>4, <1>5, UpTo
<1>7. Grown(r, num, base, u[n]) /\ u[n] \in Asking(r)
  BY <1>1, <1>2, <1>6 DEF N
<1> QED
  BY <1>2, <1>7

(* A call of hostaddlogic keeps the account, whatever PVM refuses, and lets the *)
(* requests of an exec class grow no further than its target.                   *)
LEMMA CallKeepsAccount ==
  ASSUME Configuration(rm), NEW num \in [ExecClasses(rm) -> Nat],
         NEW reqs, NEW submit, NEW box \in Seq(Posted),
         Account(rm, reqs, submit, pending, box, lost),
         NEW f \in Nat, changes \in Nat, changes + f =< MaxEvents,
         CallHostaddlogic(num, reqs, submit, f)
  PROVE  /\ Account(rm, hostadd_reqs', submit_list', pending', box, lost')
         /\ faults' \in Nat /\ changes + faults' =< MaxEvents
         /\ \A c \in ExecClasses(rm) :
              Requests(hostadd_reqs', c) > Requests(reqs, c) =>
                num[c] + Requests(hostadd_reqs', c) =< Target(rm, c)
<1> DEFINE s == Asked(rm, num, reqs, submit)
           base == [reqs |-> reqs, submit |-> submit, howmany |-> None]
<1>1. hostadd_reqs' = s.reqs /\ submit_list' = s.submit /\ AskForHosts(s.howmany, f)
  BY DEF CallHostaddlogic
<1>2. /\ reqs \in [ExecClasses(rm) -> [PvmClasses -> Nat]]
      /\ submit \in Seq(RequestOf(rm))
      /\ pending \in [PvmClasses -> Nat] /\ lost \in [PvmClasses -> Nat]
  BY DEF Account, RequestOf
<1>3. base \in Asking(rm)
  BY <1>2, NoneType DEF Asking
<1>4. base.reqs = reqs /\ base.submit = submit /\ base.howmany = None
  OBVIOUS
<1> HIDE DEF base
<1>5. s \in Asking(rm) /\ Grown(rm, num, base, s)
  BY <1>3, AskedGrows DEF base
<1> HIDE DEF s
<1>6. /\ s.reqs \in [ExecClasses(rm) -> [PvmClasses -> Nat]] /\ s.submit \in Seq(RequestOf(rm))
      /\ s.howmany \in [PvmClasses -> Nat]
  BY <1>5 DEF Asking
<1>7. ASSUME NEW a \in PvmClasses
      PROVE  OfArch(rm, s.reqs, a) = OfArch(rm, reqs, a) + s.howmany[a]
  <2>1. OfArch(rm, s.reqs, a) + None[a] = OfArch(rm, reqs, a) + s.howmany[a]
    BY <1>4, <1>5 DEF Grown
  <2>2. OfArch(rm, s.reqs, a) \in Nat /\ None[a] = 0
    BY <1>6, OfArchType, NoneType
  <2> QED
    BY <2>1, <2>2
<1>8. ASSUME NEW c \in ExecClasses(rm), NEW a \in PvmClasses,
             NEW q, q = [exec_class |-> c, arch_class |-> a]
      PROVE  s.reqs[c][a] = Count(s.submit, q)
  <2>1. Count(s.submit, q) + reqs[c][a] = Count(submit, q) + s.reqs[c][a]
    BY <1>4, <1>5, <1>8 DEF Grown
  <2>2. reqs[c][a] = Count(submit, q)
    BY <1>8 DEF Account
  <2>3. Count(s.submit, q) \in Nat /\ reqs[c][a] \in Nat /\ s.reqs[c][a] \in Nat
    <3>1. Count(s.submit, q) \in Nat
      BY <1>6, CountType
    <3> QED
      BY <1>2, <1>6, <3>1
  <2> QED
    BY <2>1, <2>2, <2>3
<1>9. /\ faults' \in Nat /\ changes + faults' =< MaxEvents
      /\ pending' \in [PvmClasses -> Nat] /\ lost' \in [PvmClasses -> Nat]
      /\ \A a \in PvmClasses : pending'[a] + lost'[a] = pending[a] + lost[a] + s.howmany[a]
  <2>1. \A a \in PvmClasses : pending[a] \in Nat /\ lost[a] \in Nat /\ s.howmany[a] \in Nat
    BY <1>2, <1>6
  <2>2. CASE /\ pending' = [a \in PvmClasses |-> pending[a] + s.howmany[a]]
             /\ faults' = f
             /\ UNCHANGED lost
    BY <2>1, <2>2, <1>2
  <2>3. CASE /\ changes + f < MaxEvents /\ faults' = f + 1
             /\ \E a \in PvmClasses : \E taken \in 0 .. s.howmany[a] - 1 :
                  /\ pending' = [b \in PvmClasses |->
                                   pending[b] + IF b = a THEN taken ELSE s.howmany[b]]
                  /\ lost' = [lost EXCEPT ![a] = @ + s.howmany[a] - taken]
    <3>1. PICK a \in PvmClasses : \E taken \in 0 .. s.howmany[a] - 1 :
             /\ pending' = [b \in PvmClasses |->
                              pending[b] + IF b = a THEN taken ELSE s.howmany[b]]
             /\ lost' = [lost EXCEPT ![a] = @ + s.howmany[a] - taken]
      BY <2>3, Zenon
    <3>2. PICK taken \in 0 .. s.howmany[a] - 1 :
            /\ pending' = [b \in PvmClasses |->
                             pending[b] + IF b = a THEN taken ELSE s.howmany[b]]
            /\ lost' = [lost EXCEPT ![a] = @ + s.howmany[a] - taken]
      BY <3>1, Zenon
    <3>3. faults' \in Nat /\ changes + faults' =< MaxEvents
      <4>1. MaxEvents \in Nat
        BY HostBounds
      <4> QED
        BY <2>3, <4>1
    <3>4. taken \in Nat /\ taken =< s.howmany[a] /\ s.howmany[a] \in Nat /\ lost[a] \in Nat
      BY <2>1
    <3> DEFINE more == lost[a] + s.howmany[a] - taken
    <3>5. more \in Nat /\ lost' = [lost EXCEPT ![a] = more]
      BY <3>2, <3>4
    <3>6. more + taken = lost[a] + s.howmany[a]
      BY <3>4
    <3> HIDE DEF more
    <3>7. lost' \in [PvmClasses -> Nat] /\ lost'[a] = more
          /\ \A b \in PvmClasses : b # a => lost'[b] = lost[b]
      BY <3>5, <1>2
    <3>8. /\ pending'[a] = pending[a] + taken
          /\ \A b \in PvmClasses : b # a => pending'[b] = pending[b] + s.howmany[b]
      BY <3>2
    <3>9. pending' \in [PvmClasses -> Nat]
      <4>1. \A b \in PvmClasses : pending[b] + (IF b = a THEN taken ELSE s.howmany[b]) \in Nat
        BY <2>1, <3>4
      <4> QED
        BY <3>2, <4>1
    <3>10. ASSUME NEW b \in PvmClasses
          PROVE  pending'[b] + lost'[b] = pending[b] + lost[b] + s.howmany[b]
      <4>1. CASE b = a
        <5>1. pending[a] \in Nat /\ lost[a] \in Nat
          BY <2>1
        <5> DEFINE x == pending[a]
                   y == lost[a]
                   z == s.howmany[a]
        <5>2. x \in Nat /\ y \in Nat /\ z \in Nat /\ more \in Nat /\ taken \in Nat
              /\ more + taken = y + z
          BY <3>4, <3>5, <3>6, <5>1
        <5>3. pending'[a] = x + taken /\ lost'[a] = more
          BY <3>7, <3>8
        <5> HIDE DEF x, y, z
        <5>4. (x + taken) + more = x + y + z
          BY <5>2
        <5>5. pending'[a] + lost'[a] = pending[a] + lost[a] + s.howmany[a]
          BY <5>3, <5>4 DEF x, y, z
        <5> QED
          BY <4>1, <5>5
      <4>2. CASE b # a
        <5>1. pending'[b] = pending[b] + s.howmany[b] /\ lost'[b] = lost[b]
          BY <3>7, <3>8, <4>2
        <5>2. pending[b] \in Nat /\ lost[b] \in Nat /\ s.howmany[b] \in Nat
          BY <2>1
        <5> QED
          BY <5>1, <5>2
      <4> QED
        BY <4>1, <4>2
    <3> QED
      BY <3>3, <3>7, <3>9, <3>10
  <2> QED
    BY <1>1, <2>2, <2>3 DEF AskForHosts
<1>10. ASSUME NEW a \in PvmClasses
       PROVE  OfArch(rm, s.reqs, a) = pending'[a] + Count(box, HostAdd(a)) + lost'[a]
  <2>1. OfArch(rm, reqs, a) = pending[a] + Count(box, HostAdd(a)) + lost[a]
    BY DEF Account
  <2>2. Count(box, HostAdd(a)) \in Nat
    BY CountType
  <2>3. /\ pending[a] \in Nat /\ lost[a] \in Nat /\ s.howmany[a] \in Nat
        /\ pending'[a] \in Nat /\ lost'[a] \in Nat
        /\ pending'[a] + lost'[a] = pending[a] + lost[a] + s.howmany[a]
    BY <1>2, <1>6, <1>9
  <2>4. OfArch(rm, s.reqs, a) = OfArch(rm, reqs, a) + s.howmany[a]
    BY <1>7
  <2> DEFINE n == Count(box, HostAdd(a))
             x == pending[a]
             y == lost[a]
             z == s.howmany[a]
             v == pending'[a]
             w == lost'[a]
  <2>5. /\ n \in Nat /\ x \in Nat /\ y \in Nat /\ z \in Nat /\ v \in Nat /\ w \in Nat
        /\ v + w = x + y + z
    BY <2>2, <2>3
  <2>6. OfArch(rm, s.reqs, a) = (x + n + y) + z
    BY <2>1, <2>4
  <2> HIDE DEF n, x, y, z, v, w
  <2>7. (x + n + y) + z = v + n + w
    BY <2>5
  <2> QED
    BY <2>6, <2>7 DEF n, v, w
<1>11. Account(rm, s.reqs, s.submit, pending', box, lost')
  BY <1>6, <1>8, <1>9, <1>10 DEF Account, RequestOf
<1>12. \A c \in ExecClasses(rm) :
         Requests(s.reqs, c) > Requests(reqs, c) =>
           num[c] + Requests(s.reqs, c) =< Target(rm, c)
  BY <1>4, <1>5 DEF Grown
<1> QED
  BY <1>1, <1>9, <1>11, <1>12

-----------------------------------------------------------------------------
(* What messages do to the account. *)

LEMMA AccountOf ==
  ASSUME NEW r, NEW reqs, NEW submit, NEW pend, NEW box, NEW gone, NEW b,
         Account(r, reqs, submit, pend, box, gone),
         \A a \in PvmClasses : Count(b, HostAdd(a)) = Count(box, HostAdd(a))
  PROVE  Account(r, reqs, submit, pend, b, gone)
BY Zenon DEF Account

(* A message that is no HOSTADD is read. *)
LEMMA AccountReads ==
  ASSUME NEW r, NEW reqs, NEW submit, NEW pend, NEW box \in Seq(Posted), NEW gone,
         Account(r, reqs, submit, pend, box, gone), box # <<>>, Head(box).tag # "HOSTADD"
  PROVE  Account(r, reqs, submit, pend, Tail(box), gone)
<1>1. ASSUME NEW a \in PvmClasses PROVE Count(Tail(box), HostAdd(a)) = Count(box, HostAdd(a))
  <2>1. Head(box) # HostAdd(a)
    BY DEF HostAdd
  <2>2. Count(box, HostAdd(a)) \in Nat
        /\ Count(Tail(box), HostAdd(a)) =
             Count(box, HostAdd(a)) - IF Head(box) = HostAdd(a) THEN 1 ELSE 0
    BY CountTail
  <2> QED
    BY <2>1, <2>2
<1> QED
  BY <1>1, AccountOf

(* Messages that are no HOSTADD come. *)
LEMMA AccountHears ==
  ASSUME NEW r, NEW reqs, NEW submit, NEW pend, NEW box \in Seq(Posted), NEW gone,
         Account(r, reqs, submit, pend, box, gone),
         NEW news \in Seq(Posted), \A j \in DOMAIN news : news[j].tag # "HOSTADD"
  PROVE  Account(r, reqs, submit, pend, box \o news, gone)
<1>1. ASSUME NEW a \in PvmClasses PROVE Count(box \o news, HostAdd(a)) = Count(box, HostAdd(a))
  <2>1. \A j \in DOMAIN news : news[j] \notin {HostAdd(a)}
    BY DEF HostAdd
  <2>2. Count(news, HostAdd(a)) = 0
    BY <2>1, HitsNone, CountIsHits
  <2>3. /\ Count(box, HostAdd(a)) \in Nat
        /\ Count(box \o news, HostAdd(a)) = Count(box, HostAdd(a)) + Count(news, HostAdd(a))
    BY CountJoined
  <2> QED
    BY <2>2, <2>3
<1> QED
  BY <1>1, AccountOf

LEMMA CountAppend ==
  ASSUME NEW X, NEW s \in Seq(X), NEW y \in X, NEW x
  PROVE  /\ Count(s, x) \in Nat
         /\ Count(Append(s, y), x) = Count(s, x) + IF y = x THEN 1 ELSE 0
<1>1. Cardinality(Hits(Append(s, y), {x})) =
        Cardinality(Hits(s, {x})) + IF y \in {x} THEN 1 ELSE 0
  BY HitsAppend
<1>2. Cardinality(Hits(s, {x})) \in Nat
  BY HitsFinite
<1> QED
  BY <1>1, <1>2, CountIsHits

LEMMA CountRemoved ==
  ASSUME NEW X, NEW s \in Seq(X), NEW k \in DOMAIN s, NEW x
  PROVE  /\ Count(s, x) \in Nat /\ Count(RemoveAt(s, k), x) \in Nat
         /\ Count(RemoveAt(s, k), x) = Count(s, x) - IF s[k] = x THEN 1 ELSE 0
<1>1. Cardinality(Hits(RemoveAt(s, k), {x})) =
        Cardinality(Hits(s, {x})) - IF s[k] \in {x} THEN 1 ELSE 0
  BY HitsRemoved
<1>2. RemoveAt(s, k) \in Seq(X)
  BY RemovedAt
<1>3. Cardinality(Hits(s, {x})) \in Nat /\ Cardinality(Hits(RemoveAt(s, k), {x})) \in Nat
  BY <1>2, HitsFinite
<1> QED
  BY <1>1, <1>3, CountIsHits

LEMMA AccountArrives ==
  ASSUME NEW r, NEW reqs, NEW submit, NEW pend, NEW box \in Seq(Posted), NEW gone,
         Account(r, reqs, submit, pend, box, gone), NEW a \in PvmClasses, pend[a] > 0
  PROVE  Account(r, reqs, submit, [pend EXCEPT ![a] = @ - 1], Append(box, HostAdd(a)), gone)
<1> DEFINE n == pend[a] - 1
           p == [pend EXCEPT ![a] = n]
           b == Append(box, HostAdd(a))
<1>1. pend \in [PvmClasses -> Nat] /\ gone \in [PvmClasses -> Nat]
  BY DEF Account
<1>2. n \in Nat /\ pend[a] = n + 1
  BY <1>1
<1> HIDE DEF n
<1>3. p \in [PvmClasses -> Nat] /\ p[a] = n /\ \A e \in PvmClasses : e # a => p[e] = pend[e]
  BY <1>1, <1>2
<1>4. HostAdd(a) \in Posted
  BY DEF Posted
<1>5. ASSUME NEW e \in PvmClasses
      PROVE  p[e] + Count(b, HostAdd(e)) + gone[e] =
               pend[e] + Count(box, HostAdd(e)) + gone[e]
  <2>1. /\ Count(box, HostAdd(e)) \in Nat
        /\ Count(b, HostAdd(e)) = Count(box, HostAdd(e)) + IF HostAdd(a) = HostAdd(e) THEN 1 ELSE 0
    BY <1>4, CountAppend
  <2>2. HostAdd(a) = HostAdd(e) <=> a = e
    BY DEF HostAdd
  <2> DEFINE k == Count(box, HostAdd(e))
             m == Count(b, HostAdd(e))
             g == gone[e]
             x == pend[e]
             y == p[e]
  <2>3. k \in Nat /\ g \in Nat /\ x \in Nat /\ y \in Nat /\ m = k + IF a = e THEN 1 ELSE 0
    BY <1>1, <1>3, <2>1, <2>2
  <2>4. x = y + IF a = e THEN 1 ELSE 0
    BY <1>1, <1>2, <1>3
  <2> HIDE DEF k, m, g, x, y
  <2>5. y + m + g = x + k + g
    BY <2>3, <2>4
  <2> QED
    BY <2>5 DEF k, m, g, x, y
<1> HIDE DEF p, b
<1>6. Account(r, reqs, submit, p, b, gone)
  BY <1>3, <1>5 DEF Account
<1> QED
  BY <1>6 DEF p, b, n

(* A HOSTADD is read, and the request that it meets is struck off. *)
LEMMA AccountMeets ==
  ASSUME Configuration(rm), Account(rm, hostadd_reqs, submit_list, pending, inbox, lost),
         inbox \in Seq(Posted), inbox # <<>>, Head(inbox).tag = "HOSTADD",
         NEW i, i = FirstRequest(Head(inbox).what), i # 0,
         NEW c, c = submit_list[i].exec_class
  PROVE  /\ i \in DOMAIN submit_list /\ c \in ExecClasses(rm)
         /\ Account(rm, Met(i), RemoveAt(submit_list, i), pending, Tail(inbox), lost)
         /\ \A e \in ExecClasses(rm) :
              Requests(Met(i), e) = Requests(hostadd_reqs, e) - IF e = c THEN 1 ELSE 0
<1> DEFINE a == Head(inbox).what
<1>1. /\ hostadd_reqs \in [ExecClasses(rm) -> [PvmClasses -> Nat]]
      /\ submit_list \in Seq(RequestOf(rm))
      /\ pending \in [PvmClasses -> Nat] /\ lost \in [PvmClasses -> Nat]
  BY DEF Account, RequestOf
<1>2. Head(inbox) = HostAdd(a) /\ a \in PvmClasses
  <2>1. Head(inbox) \in Posted
    BY TailRemoves
  <2>2. \A n \in Posted : n.tag = "HOSTADD" => n.what \in PvmClasses /\ n = HostAdd(n.what)
    <3>1. \A b \in PvmClasses : HostAdd(b).what = b
      BY DEF HostAdd
    <3> QED
      BY <3>1 DEF Posted
  <2> QED
    BY <2>1, <2>2
<1> HIDE DEF a
<1>3. i \in DOMAIN submit_list /\ submit_list[i].arch_class = a
  BY <1>1, FirstIsThere DEF a
<1>4. submit_list[i] \in RequestOf(rm)
  BY <1>1, <1>3
<1>5. c \in ExecClasses(rm) /\ submit_list[i] = [exec_class |-> c, arch_class |-> a]
  BY <1>3, <1>4 DEF RequestOf
<1> DEFINE n == hostadd_reqs[c][a] - 1
           row == [hostadd_reqs[c] EXCEPT ![a] = n]
           q(e, b) == [exec_class |-> e, arch_class |-> b]
<1>6. Met(i) = [hostadd_reqs EXCEPT ![c] = row]
  BY <1>3, <1>5 DEF Met
<1>7. ASSUME NEW e \in ExecClasses(rm), NEW b \in PvmClasses
      PROVE  /\ Count(RemoveAt(submit_list, i), q(e, b)) \in Nat
             /\ Count(RemoveAt(submit_list, i), q(e, b)) =
                  hostadd_reqs[e][b] - IF e = c /\ b = a THEN 1 ELSE 0
  <2>1. q(e, b) = submit_list[i] <=> e = c /\ b = a
    BY <1>5
  <2>2. hostadd_reqs[e][b] = Count(submit_list, q(e, b))
    BY DEF Account
  <2>3. /\ Count(RemoveAt(submit_list, i), q(e, b)) \in Nat
        /\ Count(RemoveAt(submit_list, i), q(e, b)) =
             Count(submit_list, q(e, b)) - IF submit_list[i] = q(e, b) THEN 1 ELSE 0
    BY <1>1, <1>3, CountRemoved
  <2> HIDE DEF q
  <2> QED
    BY <2>1, <2>2, <2>3
<1> HIDE DEF q
<1>8. n \in Nat /\ hostadd_reqs[c][a] = n + 1
  <2>1. hostadd_reqs[c][a] \in Nat
    BY <1>1, <1>2, <1>5
  <2>2. n \in Nat
    BY <1>2, <1>5, <1>7
  <2> QED
    BY <2>1, <2>2
<1> HIDE DEF n
<1>9. row \in [PvmClasses -> Nat] /\ row[a] = n
      /\ \A b \in PvmClasses : b # a => row[b] = hostadd_reqs[c][b]
  <2>1. hostadd_reqs[c] \in [PvmClasses -> Nat]
    BY <1>1, <1>5
  <2> QED
    BY <2>1, <1>2, <1>8
<1> HIDE DEF row
<1>10. /\ Met(i) \in [ExecClasses(rm) -> [PvmClasses -> Nat]] /\ Met(i)[c] = row
       /\ \A e \in ExecClasses(rm) : e # c => Met(i)[e] = hostadd_reqs[e]
  BY <1>1, <1>5, <1>6, <1>9
<1> HIDE DEF Met
<1>11. ASSUME NEW e \in ExecClasses(rm), NEW b \in PvmClasses
       PROVE  /\ hostadd_reqs[e][b] \in Nat /\ Met(i)[e][b] \in Nat
              /\ Met(i)[e][b] = hostadd_reqs[e][b] - IF e = c /\ b = a THEN 1 ELSE 0
  <2>1. hostadd_reqs[e][b] \in Nat /\ Met(i)[e][b] \in Nat
    BY <1>1, <1>10
  <2>2. CASE e = c /\ b = a
    BY <2>1, <2>2, <1>8, <1>9, <1>10
  <2>3. CASE ~(e = c /\ b = a)
    <3>1. Met(i)[e][b] = hostadd_reqs[e][b]
      BY <2>3, <1>9, <1>10
    <3> QED
      BY <2>1, <2>3, <3>1
  <2> QED
    BY <2>1, <2>2, <2>3
<1>12. ASSUME NEW e \in ExecClasses(rm), NEW b \in PvmClasses
       PROVE  Met(i)[e][b] = Count(RemoveAt(submit_list, i), q(e, b))
  BY <1>7, <1>11
<1>13. ASSUME NEW b \in PvmClasses
       PROVE  OfArch(rm, Met(i), b) = pending[b] + Count(Tail(inbox), HostAdd(b)) + lost[b]
  <2> DEFINE f == [e \in ExecClasses(rm) |-> hostadd_reqs[e][b]]
             g == [e \in ExecClasses(rm) |-> Met(i)[e][b]]
             m == rm.exec_classes
  <2>1. m \in Nat /\ ExecClasses(rm) = 0 .. m - 1
    BY DEF Configuration, RMComm, ExecClasses
  <2>2. /\ \A e \in ExecClasses(rm) : f[e] \in Int /\ g[e] \in Int
        /\ \A e \in ExecClasses(rm) : g[e] = f[e] - IF e = c /\ b = a THEN 1 ELSE 0
    BY <1>11
  <2>3. OfArch(rm, hostadd_reqs, b) = Sum(m, f) /\ OfArch(rm, Met(i), b) = Sum(m, g)
    BY DEF OfArch
  <2> HIDE DEF f, g, m
  <2>4. /\ \A e \in 0 .. m - 1 : f[e] \in Int /\ g[e] \in Int
        /\ \A e \in 0 .. m - 1 : e # c => g[e] = f[e]
        /\ c \in 0 .. m - 1
    BY <2>1, <2>2, <1>5
  <2>5. Sum(m, f) \in Int /\ Sum(m, g) = Sum(m, f) + (g[c] - f[c])
    BY <2>1, <2>4, SumChanged
  <2>6. g[c] - f[c] = IF b = a THEN -1 ELSE 0
    BY <2>2, <1>5
  <2>7. /\ Count(inbox, HostAdd(b)) \in Nat
        /\ Count(Tail(inbox), HostAdd(b)) =
             Count(inbox, HostAdd(b)) - IF Head(inbox) = HostAdd(b) THEN 1 ELSE 0
    BY CountTail
  <2>8. Head(inbox) = HostAdd(b) <=> b = a
    BY <1>2 DEF HostAdd
  <2>9. OfArch(rm, hostadd_reqs, b) = pending[b] + Count(inbox, HostAdd(b)) + lost[b]
    BY DEF Account
  <2> DEFINE x == pending[b]
             y == lost[b]
             k == Count(inbox, HostAdd(b))
             l == Count(Tail(inbox), HostAdd(b))
             s == Sum(m, f)
             t == Sum(m, g)
  <2>10. /\ x \in Nat /\ y \in Nat /\ k \in Nat /\ l = k - IF b = a THEN 1 ELSE 0
         /\ s \in Int /\ t = s + IF b = a THEN -1 ELSE 0
         /\ s = x + k + y
    BY <1>1, <2>3, <2>5, <2>6, <2>7, <2>8, <2>9
  <2> HIDE DEF x, y, k, l, s, t
  <2>11. t = x + l + y
    BY <2>10
  <2> QED
    BY <2>11, <2>3 DEF x, y, l, t
<1>14. RemoveAt(submit_list, i) \in Seq(RequestOf(rm))
  BY <1>1, <1>3, RemovedAt
<1>15. Account(rm, Met(i), RemoveAt(submit_list, i), pending, Tail(inbox), lost)
  BY <1>1, <1>10, <1>12, <1>13, <1>14 DEF Account, RequestOf, q
<1>16. ASSUME NEW e \in ExecClasses(rm)
       PROVE  Requests(Met(i), e) = Requests(hostadd_reqs, e) - IF e = c THEN 1 ELSE 0
  <2>1. Requests(hostadd_reqs, e) \in Nat
    BY <1>1, RequestsType
  <2>2. CASE e = c
    <3> DEFINE f == hostadd_reqs[c]
    <3>1. PvmArches \in Nat /\ a \in 0 .. PvmArches - 1
      BY HostBounds, <1>2 DEF PvmClasses
    <3>2. \A b \in PvmClasses : f[b] \in Int /\ row[b] \in Int
      <4>1. f \in [PvmClasses -> Nat]
        BY <1>1, <1>5
      <4> HIDE DEF f
      <4> QED
        BY <4>1, <1>9
    <3>3. \A b \in PvmClasses : b # a => row[b] = f[b]
      BY <1>9
    <3>4. row[a] - f[a] = -1
      BY <1>8, <1>9
    <3> HIDE DEF f
    <3>5. Sum(PvmArches, f) \in Int /\ Sum(PvmArches, row) = Sum(PvmArches, f) + (row[a] - f[a])
      BY <3>1, <3>2, <3>3, SumChanged DEF PvmClasses
    <3>6. Requests(Met(i), c) = Sum(PvmArches, row) /\ Requests(hostadd_reqs, c) = Sum(PvmArches, f)
      BY <1>10 DEF Requests, f
    <3> QED
      BY <2>2, <3>4, <3>5, <3>6
  <2>3. CASE e # c
    <3>1. Requests(Met(i), e) = Requests(hostadd_reqs, e)
      BY <2>3, <1>10 DEF Requests
    <3> QED
      BY <2>1, <2>3, <3>1
  <2> QED
    BY <2>2, <2>3
<1> QED
  BY <1>3, <1>5, <1>15, <1>16

-----------------------------------------------------------------------------
(* The driver's count of its workers. *)

LEMMA CrewType ==
  ASSUME NEW r, NEW W, NEW num, Crew(r, W, num)
  PROVE  num \in [ExecClasses(r) -> Nat]
<1> DEFINE n(c) == Cardinality({i \in DOMAIN W : W[i].exec_class = c})
<1>1. \A c \in ExecClasses(r) : n(c) \in Nat
  <2> TAKE c \in ExecClasses(r)
  <2> DEFINE D == {i \in DOMAIN W : W[i].exec_class = c}
  <2>1. D \in SUBSET DOMAIN W
    OBVIOUS
  <2> HIDE DEF D
  <2>2. IsFiniteSet(D)
    BY <2>1, PartsFinite DEF Crew
  <2>3. Cardinality(D) \in Nat
    BY <2>2, FS_CardinalityType
  <2> QED
    BY <2>3 DEF D
<1>2. num = [c \in ExecClasses(r) |-> n(c)]
  BY DEF Crew
<1> HIDE DEF n
<1> QED
  BY <1>1, <1>2

LEMMA CrewGains ==
  ASSUME NEW r, NEW W, NEW num, Crew(r, W, num),
         NEW w \in [id1 : Nat, id2 : Nat, exec_class : ExecClasses(r)],
         NEW c, c = w.exec_class
  PROVE  /\ Crew(r, Append(W, w), [num EXCEPT ![c] = @ + 1])
         /\ \A e \in ExecClasses(r) :
              [num EXCEPT ![c] = @ + 1][e] = num[e] + IF e = c THEN 1 ELSE 0
<1> DEFINE X == [id1 : Nat, id2 : Nat, exec_class : ExecClasses(r)]
           V == Append(W, w)
           S(e) == {v \in X : v.exec_class = e}
           more == [num EXCEPT ![c] = @ + 1]
<1>1. W \in Seq(X) /\ V \in Seq(X) /\ w \in X /\ c \in ExecClasses(r)
  BY DEF Crew
<1>2. num \in [ExecClasses(r) -> Nat]
  BY CrewType
<1>3. \A e \in ExecClasses(r) : num[e] = Cardinality({i \in DOMAIN W : W[i].exec_class = e})
  BY DEF Crew
<1> HIDE DEF X, V
<1>4. ASSUME NEW e \in ExecClasses(r)
      PROVE  Cardinality({i \in DOMAIN V : V[i].exec_class = e}) =
               num[e] + IF e = c THEN 1 ELSE 0
  <2>1. /\ {i \in DOMAIN W : W[i].exec_class = e} = Hits(W, S(e))
        /\ {i \in DOMAIN V : V[i].exec_class = e} = Hits(V, S(e))
        /\ w \in S(e) <=> e = c
    BY <1>1 DEF Hits
  <2> HIDE DEF S
  <2>2. Cardinality(Hits(V, S(e))) = Cardinality(Hits(W, S(e))) + IF w \in S(e) THEN 1 ELSE 0
    BY <1>1, HitsAppend DEF V
  <2> QED
    BY <2>1, <2>2, <1>3
<1>5. more \in [ExecClasses(r) -> Nat] /\ DOMAIN num = ExecClasses(r)
      /\ \A e \in ExecClasses(r) : more[e] = num[e] + IF e = c THEN 1 ELSE 0
  <2>1. num[c] \in Nat /\ more[c] = num[c] + 1 /\ \A e \in ExecClasses(r) : num[e] \in Nat
    BY <1>1, <1>2
  <2>2. \A e \in ExecClasses(r) : e # c => more[e] = num[e]
    BY <1>2
  <2>3. more \in [ExecClasses(r) -> Nat] /\ DOMAIN num = ExecClasses(r)
    BY <1>1, <1>2, <2>1
  <2>4. \A e \in ExecClasses(r) : e # c => num[e] + 0 = num[e]
    BY <2>1
  <2> QED
    BY <2>1, <2>2, <2>3, <2>4
<1> HIDE DEF more
<1>6. more = [e \in ExecClasses(r) |-> Cardinality({i \in DOMAIN V : V[i].exec_class = e})]
  BY <1>4, <1>5
<1>7. Crew(r, V, more)
  BY <1>1, <1>6 DEF Crew, X
<1> QED
  BY <1>5, <1>7 DEF V, more

LEMMA CrewLoses ==
  ASSUME NEW r, NEW W, NEW num, Crew(r, W, num), NEW k \in DOMAIN W,
         NEW c, c = W[k].exec_class
  PROVE  /\ Crew(r, RemoveAt(W, k), [num EXCEPT ![c] = @ - 1])
         /\ \A e \in ExecClasses(r) :
              [num EXCEPT ![c] = @ - 1][e] = num[e] - IF e = c THEN 1 ELSE 0
<1> DEFINE X == [id1 : Nat, id2 : Nat, exec_class : ExecClasses(r)]
           V == RemoveAt(W, k)
           S(e) == {v \in X : v.exec_class = e}
           less == [num EXCEPT ![c] = @ - 1]
<1>1. W \in Seq(X)
  BY DEF Crew
<1>2. W[k] \in X /\ c \in ExecClasses(r)
  <2> HIDE DEF X
  <2>1. W[k] \in X
    BY <1>1
  <2> QED
    BY <2>1 DEF X
<1>3. num \in [ExecClasses(r) -> Nat]
  BY CrewType
<1>4. \A e \in ExecClasses(r) : num[e] = Cardinality({i \in DOMAIN W : W[i].exec_class = e})
  BY DEF Crew
<1> HIDE DEF X
<1>5. V \in Seq(X)
  BY <1>1, RemovedAt
<1> HIDE DEF V
<1>6. ASSUME NEW e \in ExecClasses(r)
      PROVE  Cardinality({i \in DOMAIN V : V[i].exec_class = e}) =
               num[e] - IF e = c THEN 1 ELSE 0
  <2>1. /\ {i \in DOMAIN W : W[i].exec_class = e} = Hits(W, S(e))
        /\ {i \in DOMAIN V : V[i].exec_class = e} = Hits(V, S(e))
        /\ W[k] \in S(e) <=> e = c
    BY <1>1, <1>2, <1>5 DEF Hits
  <2> HIDE DEF S
  <2>2. Cardinality(Hits(V, S(e))) = Cardinality(Hits(W, S(e))) - IF W[k] \in S(e) THEN 1 ELSE 0
    BY <1>1, HitsRemoved DEF V
  <2> QED
    BY <2>1, <2>2, <1>4
<1>7. DOMAIN less = ExecClasses(r) /\ less = [e \in DOMAIN less |-> less[e]]
      /\ \A e \in ExecClasses(r) : less[e] = num[e] - IF e = c THEN 1 ELSE 0
  <2>1. less[c] = num[c] - 1 /\ \A e \in ExecClasses(r) : num[e] \in Nat
    BY <1>2, <1>3
  <2>2. \A e \in ExecClasses(r) : e # c => less[e] = num[e]
    BY <1>3
  <2>3. DOMAIN less = ExecClasses(r) /\ less = [e \in DOMAIN less |-> less[e]]
    BY <1>2, <1>3
  <2>4. \A e \in ExecClasses(r) : num[e] - 0 = num[e]
    BY <2>1
  <2> QED
    BY <2>1, <2>2, <2>3, <2>4
<1> HIDE DEF less
<1>8. less = [e \in ExecClasses(r) |-> Cardinality({i \in DOMAIN V : V[i].exec_class = e})]
  BY <1>6, <1>7
<1>9. Crew(r, V, less)
  BY <1>5, <1>8 DEF Crew, X
<1> QED
  BY <1>7, <1>9 DEF V, less

-----------------------------------------------------------------------------
(* The configuration. *)

LEMMA ClassesOf ==
  ASSUME NEW r, NEW s, s.exec_classes = r.exec_classes
  PROVE  /\ ExecClasses(s) = ExecClasses(r)
         /\ \A W, num : Crew(r, W, num) => Crew(s, W, num)
         /\ \A reqs, submit, pend, box, gone :
              Account(r, reqs, submit, pend, box, gone) =>
                Account(s, reqs, submit, pend, box, gone)
<1>1. ExecClasses(s) = ExecClasses(r)
  BY DEF ExecClasses
<1>2. \A reqs, a : OfArch(s, reqs, a) = OfArch(r, reqs, a)
  BY <1>1 DEF OfArch
<1>3. ASSUME NEW W, NEW num, Crew(r, W, num) PROVE Crew(s, W, num)
  BY <1>1, <1>3 DEF Crew
<1>4. ASSUME NEW reqs, NEW submit, NEW pend, NEW box, NEW gone,
             Account(r, reqs, submit, pend, box, gone)
      PROVE  Account(s, reqs, submit, pend, box, gone)
  BY <1>1, <1>2, <1>4, Zenon DEF Account
<1> QED
  BY <1>1, <1>3, <1>4

LEMMA TargetIsSet ==
  ASSUME NEW r, Configuration(r), NEW c \in ExecClasses(r), NEW n \in Nat
  PROVE  LET s == SetTargetNumWorkers(r, c, n)
         IN  Configuration(s) /\ s.exec_classes = r.exec_classes
<1> DEFINE targets == [r.exec_class_target EXCEPT ![c + 1] = n]
           total == r.target_num_workers - r.exec_class_target[c + 1] + n
           s == [r EXCEPT !.exec_class_target = targets, !.target_num_workers = total]
<1>1. /\ r \in RMComm /\ r.exec_classes \in Nat /\ Len(r.exec_class_target) = r.exec_classes
      /\ r.exec_class_target \in Seq(Nat) /\ r.target_num_workers \in Int
  BY DEF Configuration, RMComm
<1>2. c \in 0 .. r.exec_classes - 1
  BY DEF ExecClasses
<1>3. r.exec_classes > 0 /\ ~(c < 0) /\ c + 1 \in 1 .. Len(r.exec_class_target)
  BY <1>1, <1>2
<1>4. SetTargetNumWorkers(r, c, n) = s
  BY <1>1, <1>3 DEF SetTargetNumWorkers, Target, RMComm
<1>5. targets \in Seq(Nat) /\ Len(targets) = Len(r.exec_class_target)
  BY <1>1, <1>3
<1>6. total \in Int
  BY <1>1, <1>3
<1> HIDE DEF targets, total
<1>7. s \in RMComm /\ s.exec_class_target = targets /\ s.exec_classes = r.exec_classes
  BY <1>1, <1>5, <1>6 DEF RMComm
<1> QED
  BY <1>1, <1>4, <1>5, <1>7 DEF Configuration

LEMMA RestoredFits ==
  ASSUME NEW r, Configuration(r)
  PROVE  Configuration(Restored(r))
<1> DEFINE total == FoldLeft(+, 0, r.exec_class_target)
           s == [r EXCEPT !.tempnum_executables = 0, !.hostinc = DefaultInc,
                          !.target_num_workers = total]
<1>1. /\ r \in RMComm /\ Len(r.exec_class_target) = r.exec_classes
      /\ r.exec_class_target \in Seq(Nat)
  BY DEF Configuration, RMComm
<1>2. total \in Int
  <2>1. Len(r.exec_class_target) \in Nat
        /\ r.exec_class_target \in [1 .. Len(r.exec_class_target) -> Int]
    BY <1>1
  <2>2. Total(r.exec_class_target) \in Int
    BY <2>1, TotalType
  <2> QED
    BY <2>2 DEF Total
<1>3. DefaultInc \in Nat
  BY DefaultIncIsPositive
<1>4. Restored(r) = s
  BY DEF Restored
<1> HIDE DEF total
<1>5. s \in RMComm /\ s.exec_class_target = r.exec_class_target
      /\ s.exec_classes = r.exec_classes
  BY <1>1, <1>2, <1>3 DEF RMComm
<1> QED
  BY <1>1, <1>4, <1>5 DEF Configuration


-----------------------------------------------------------------------------
(* The start. *)

(* Workers with new ids, on hosts that are up. *)
LEMMA StartsPool ==
  ASSUME HInv, NEW k \in Nat,
         NEW new \in [1 .. k -> [id1 : Nat, id2 : Nat, exec_class : ExecClasses(rm)]],
         \A i \in 1 .. k : new[i].id1 \notin KnownIds /\ new[i].id2 \in Ids(hosts),
         \A i, j \in 1 .. k : new[i].id1 = new[j].id1 => i = j,
         NEW started \in SUBSET Spawned, IsFiniteSet(started),
         \A i \in 1 .. k : [id |-> new[i].id1, host |-> new[i].id2] \in started,
         \A t \in started : \E i \in 1 .. k : t.id = new[i].id1 /\ t.host = new[i].id2
  PROVE  Pool(new, hosts, started, started, <<>>)
<1>1. hosts \subseteq Host /\ IsFiniteSet(hosts) /\ \A g, h \in hosts : g.id = h.id => g = h
  BY DEF HInv, Pool, Named
<1>2. Ids(hosts) \subseteq KnownIds
  BY DEF KnownIds, Ids
<1>3. DOMAIN new = 1 .. k
  OBVIOUS
<1>4. \A t \in started : t.id \notin Ids(hosts) /\ t.host \in Ids(hosts) /\ t.id \notin Ids(hosts)
  BY <1>2
<1>5. \A s, t \in started : s.id = t.id => s = t
  <2>1. \A s, t \in started : s.id = t.id => s.host = t.host
    OBVIOUS
  <2>2. \A t \in started : t = [id |-> t.id, host |-> t.host]
    BY DEF Spawned
  <2> QED
    BY <2>1, <2>2
<1>6. \A i, j \in 1 .. k : new[i].id1 # new[j].id2
  BY <1>2
<1>7. \A i \in 1 .. k : new[i].id1 \notin Ids(hosts) /\ new[i].id2 \notin Ids(started)
  BY <1>2, <1>6 DEF Ids
<1>8. \A i \in 1 .. k, t \in started : new[i].id1 = t.id => new[i].id2 = t.host
  OBVIOUS
<1>9. DOMAIN <<>> = {}
  OBVIOUS
<1>10. Named(new, hosts, started, <<>>)
  BY <1>1, <1>3, <1>4, <1>5, <1>6, <1>7, <1>8, <1>9, Zenon DEF Named
<1>11. \A t \in started : \E i \in DOMAIN new : new[i].id1 = t.id
  BY <1>3
<1>12. \A x : x \notin {new[i].id2 : i \in DOMAIN new} \ Ids(hosts)
  BY <1>3
<1>13. Runs(new, hosts, started, started, <<>>)
  BY <1>3, <1>9, <1>11, <1>12, Zenon DEF Runs
<1>14. <<>> \in Seq(Posted)
  OBVIOUS
<1> QED
  BY <1>1, <1>10, <1>13, <1>14 DEF Pool

LEMMA ListIs ==
  ASSUME NEW X, NEW k \in Nat, NEW s \in [1 .. k -> X]
  PROVE  s \in Seq(X) /\ DOMAIN s = 1 .. k
OBVIOUS

(* The list that master_setup makes. *)
StartList(up, place) ==
  LET first == SetToSeq(up)
      ids == FreshIds(Len(first))
  IN  [i \in DOMAIN first |->
         NewWorker(ids[i], place[first[i]],
                   CHOOSE c \in ChosenClasses(first[i].arch_class) : TRUE)]

TasksOf(W) == {[id |-> w.id1, host |-> w.id2] : w \in Range(W)}

LEMMA StartsWorkers ==
  ASSUME HInv, NEW up \in SUBSET hosts, NEW place \in [up -> hosts],
         \A h \in up : ChosenClasses(h.arch_class) # {},
         NEW W, W = StartList(up, place)
  PROVE  /\ Crew(rm, W, [c \in ExecClasses(rm) |->
                           Cardinality({i \in DOMAIN W : W[i].exec_class = c})])
         /\ Pool(W, hosts, TasksOf(W), TasksOf(W), <<>>)
<1> DEFINE k == Cardinality(up)
           first == SetToSeq(up)
           ids == FreshIds(Len(first))
           class(i) == CHOOSE c \in ChosenClasses(first[i].arch_class) : TRUE
           X == [id1 : Nat, id2 : Nat, exec_class : ExecClasses(rm)]
           started == TasksOf(W)
<1>1. hosts \subseteq Host /\ IsFiniteSet(hosts)
  BY DEF HInv, Pool
<1>2. IsFiniteSet(up)
  BY <1>1, FS_Subset
<1>3. k \in Nat /\ first \in [1 .. k -> up]
  BY <1>2, ListedAll
<1>4. W = [i \in DOMAIN first |-> NewWorker(ids[i], place[first[i]], class(i))]
  BY DEF StartList
<1> HIDE DEF k, first
<1>5. Len(first) = k /\ DOMAIN first = 1 .. k
  BY <1>3
<1>6. IsFiniteSet(KnownIds)
  BY KnownAreFinite
<1>7. /\ ids \in [1 .. k -> Nat \ KnownIds]
      /\ \A i, j \in 1 .. k : ids[i] = ids[j] => i = j
  BY <1>3, <1>5, <1>6, FreshIdsAreNew
<1> HIDE DEF ids
<1>8. \A h \in hosts : h.id \in Ids(hosts) /\ h.id \in Nat
  BY <1>1 DEF Ids, Host
<1>9. \A i \in 1 .. k : class(i) \in ExecClasses(rm)
  <2> TAKE i \in 1 .. k
  <2>1. ChosenClasses(first[i].arch_class) # {}
    BY <1>3
  <2>2. class(i) \in ChosenClasses(first[i].arch_class)
    BY <2>1, Zenon
  <2> HIDE DEF class
  <2> QED
    BY <2>2 DEF ChosenClasses
<1> HIDE DEF class
<1>10. \A i \in 1 .. k : place[first[i]] \in hosts
  BY <1>3
<1>11. \A i \in 1 .. k :
         /\ NewWorker(ids[i], place[first[i]], class(i)) \in X
         /\ NewWorker(ids[i], place[first[i]], class(i)).id1 = ids[i]
         /\ NewWorker(ids[i], place[first[i]], class(i)).id2 = place[first[i]].id
  BY <1>7, <1>8, <1>9, <1>10 DEF NewWorker
<1>12. /\ W \in [1 .. k -> X]
       /\ \A i \in 1 .. k : W[i].id1 = ids[i] /\ W[i].id2 = place[first[i]].id
  BY <1>4, <1>5, <1>11
<1>13. W \in Seq(X) /\ DOMAIN W = 1 .. k
  <2> HIDE DEF X
  <2>1. W \in [1 .. k -> X] /\ k \in Nat
    BY <1>3, <1>12
  <2> QED
    BY <2>1, ListIs
<1>14. Crew(rm, W, [c \in ExecClasses(rm) |->
                      Cardinality({i \in DOMAIN W : W[i].exec_class = c})])
  BY <1>13 DEF Crew
<1> DEFINE f == [i \in 1 .. k |-> [id |-> W[i].id1, host |-> W[i].id2]]
<1>15. started = {f[i] : i \in 1 .. k} /\ DOMAIN f = 1 .. k
  <2>1. Range(W) = {W[i] : i \in 1 .. k}
    BY <1>13 DEF Range
  <2>2. \A t \in started : t \in {f[i] : i \in 1 .. k}
    BY <2>1 DEF TasksOf
  <2>3. \A i \in 1 .. k : f[i] \in started
    BY <2>1 DEF TasksOf
  <2> DEFINE B == {f[i] : i \in 1 .. k}
  <2>4. \A t \in B : t \in started
    BY <2>3
  <2> HIDE DEF B
  <2>5. started = B
    BY <2>2, <2>4 DEF B
  <2> QED
    BY <2>5 DEF B
<1>16. \A i \in 1 .. k : /\ f[i] \in Spawned /\ f[i].id = W[i].id1 /\ f[i].host = W[i].id2
                         /\ f[i] = [id |-> W[i].id1, host |-> W[i].id2]
  BY <1>12 DEF Spawned
<1> HIDE DEF f, started
<1>17. IsFiniteSet(started)
  <2>1. 1 \in Int /\ k \in Int
    BY <1>3
  <2>2. IsFiniteSet(1 .. k)
    BY <2>1, FS_Interval
  <2> QED
    BY <1>15, <2>2, ImageFinite
<1>18. \A i \in 1 .. k : W[i].id1 \notin KnownIds /\ W[i].id2 \in Ids(hosts)
  BY <1>7, <1>8, <1>10, <1>12
<1>19. \A i, j \in 1 .. k : W[i].id1 = W[j].id1 => i = j
  BY <1>7, <1>12
<1>20. \A i \in 1 .. k : [id |-> W[i].id1, host |-> W[i].id2] \in started
  BY <1>15, <1>16
<1>21. \A t \in started : \E i \in 1 .. k : t.id = W[i].id1 /\ t.host = W[i].id2
  BY <1>15, <1>16
<1>22. started \in SUBSET Spawned
  BY <1>15, <1>16
<1>23. Pool(W, hosts, started, started, <<>>)
  BY <1>3, <1>12, <1>17, <1>18, <1>19, <1>20, <1>21, <1>22, StartsPool
<1> QED
  BY <1>14, <1>23 DEF started

LEMMA NothingAskedYet ==
  ASSUME Configuration(rm), pending = None, lost = None,
         NEW none, none = [c \in ExecClasses(rm) |-> None]
  PROVE  Account(rm, none, <<>>, pending, <<>>, lost)
<1>1. None \in [PvmClasses -> Nat] /\ \A a \in PvmClasses : None[a] = 0
  BY NoneType
<1> HIDE DEF None
<1>2. none \in [ExecClasses(rm) -> [PvmClasses -> Nat]]
      /\ \A c \in ExecClasses(rm), a \in PvmClasses : none[c][a] = 0
  BY <1>1
<1>3. \A x : Count(<<>>, x) = 0
  <2> TAKE x
  <2>1. {i \in DOMAIN <<>> : <<>>[i] = x} = {}
    OBVIOUS
  <2> QED
    BY <2>1, FS_EmptySet DEF Count
<1>4. ASSUME NEW a \in PvmClasses PROVE OfArch(rm, none, a) = 0
  <2> DEFINE f == [c \in ExecClasses(rm) |-> none[c][a]]
             m == rm.exec_classes
  <2>1. m \in Nat /\ ExecClasses(rm) = 0 .. m - 1
    BY DEF Configuration, RMComm, ExecClasses
  <2>2. \A c \in 0 .. m - 1 : f[c] = 0
    BY <1>2, <2>1
  <2>3. OfArch(rm, none, a) = Sum(m, f)
    BY DEF OfArch
  <2> HIDE DEF f, m
  <2> QED
    BY <2>1, <2>2, <2>3, SumNone
<1>5. \A a \in PvmClasses : pending[a] + Count(<<>>, HostAdd(a)) + lost[a] = 0
  BY <1>1, <1>3
<1>6. <<>> \in Seq([exec_class : ExecClasses(rm), arch_class : PvmClasses])
  OBVIOUS
<1> QED
  BY <1>1, <1>2, <1>3, <1>4, <1>5, <1>6 DEF Account

(* Before the start, and after a crash: the list is empty. *)
LEMMA EmptyPool ==
  ASSUME NEW H, H \subseteq Host, IsFiniteSet(H), \A g, h \in H : g.id = h.id => g = h
  PROVE  Pool(<<>>, H, {}, {}, <<>>)
<1>1. Named(<<>>, H, {}, <<>>)
  BY DEF Named
<1>2. {<<>>[i].id2 : i \in DOMAIN <<>>} = {}
  OBVIOUS
<1>3. Runs(<<>>, H, {}, {}, <<>>)
  BY <1>2 DEF Runs
<1>4. <<>> \in Seq(Posted)
  OBVIOUS
<1> QED
  BY <1>1, <1>3, <1>4, FS_EmptySet DEF Pool

LEMMA EmptyCrew ==
  ASSUME NEW r
  PROVE  Crew(r, <<>>, [c \in ExecClasses(r) |-> 0])
<1>1. \A c : {i \in DOMAIN <<>> : <<>>[i].exec_class = c} = {}
  OBVIOUS
<1>2. \A c : Cardinality({i \in DOMAIN <<>> : <<>>[i].exec_class = c}) = 0
  BY <1>1, FS_EmptySet
<1>3. <<>> \in Seq([id1 : Nat, id2 : Nat, exec_class : ExecClasses(r)])
  OBVIOUS
<1> QED
  BY <1>2, <1>3 DEF Crew


-----------------------------------------------------------------------------
(* The steps. *)

LEMMA After ==
  ASSUME Configuration(rm'), Configuration(saved'), Crew(rm', workers', num_workers'),
         Pool(workers', hosts', tasks', watched', inbox'),
         hostadd_reqs' # NULL =>
           Account(rm', hostadd_reqs', submit_list', pending', inbox', lost'),
         hostadd_reqs' = NULL =>
           /\ submit_list' = <<>> /\ workers' = <<>> /\ tasks' = {} /\ watched' = {}
           /\ inbox' = <<>> /\ pending' = None /\ lost' = None,
         changes' \in Nat, faults' \in Nat, changes' + faults' =< MaxEvents
  PROVE  HInv'
BY DEF HInv

LEMMA Working ==
  ASSUME HInv, hostadd_reqs # NULL
  PROVE  /\ Configuration(rm) /\ Configuration(saved) /\ ExecClasses(rm) # {}
         /\ Crew(rm, workers, num_workers) /\ num_workers \in [ExecClasses(rm) -> Nat]
         /\ Pool(workers, hosts, tasks, watched, inbox)
         /\ inbox \in Seq(Posted)
         /\ workers \in Seq([id1 : Nat, id2 : Nat, exec_class : ExecClasses(rm)])
         /\ Account(rm, hostadd_reqs, submit_list, pending, inbox, lost)
         /\ hostadd_reqs \in [ExecClasses(rm) -> [PvmClasses -> Nat]]
         /\ changes \in Nat /\ faults \in Nat /\ changes + faults =< MaxEvents
<1>1. /\ Configuration(rm) /\ Configuration(saved)
      /\ Crew(rm, workers, num_workers)
      /\ Pool(workers, hosts, tasks, watched, inbox)
      /\ Account(rm, hostadd_reqs, submit_list, pending, inbox, lost)
      /\ changes \in Nat /\ faults \in Nat /\ changes + faults =< MaxEvents
  BY DEF HInv
<1>2. num_workers \in [ExecClasses(rm) -> Nat]
  BY <1>1, CrewType
<1>3. inbox \in Seq(Posted)
  BY <1>1 DEF Pool
<1>4. workers \in Seq([id1 : Nat, id2 : Nat, exec_class : ExecClasses(rm)])
  BY <1>1 DEF Crew
<1>5. hostadd_reqs \in [ExecClasses(rm) -> [PvmClasses -> Nat]]
  BY <1>1 DEF Account
<1>6. ExecClasses(rm) # {}
  <2> SUFFICES ASSUME ExecClasses(rm) = {} PROVE FALSE
    OBVIOUS
  <2>1. hostadd_reqs \in [{} -> [PvmClasses -> Nat]]
    BY <1>5
  <2>2. hostadd_reqs = <<>>
    BY <2>1
  <2> QED
    BY <2>2 DEF NULL
<1> QED
  BY <1>1, <1>2, <1>3, <1>4, <1>5, <1>6

(* hostaddlogic is done: the account is there. *)
LEMMA StillWorking ==
  ASSUME NEW r, ExecClasses(r) # {}, NEW reqs, NEW submit, NEW pend, NEW box, NEW gone,
         Account(r, reqs, submit, pend, box, gone)
  PROVE  reqs # NULL
<1>1. reqs \in [ExecClasses(r) -> [PvmClasses -> Nat]]
  BY DEF Account
<1>2. DOMAIN reqs = ExecClasses(r) /\ DOMAIN <<>> = {}
  BY <1>1
<1> QED
  BY <1>2 DEF NULL


LEMMA Unmoved ==
  ASSUME HInv, hostadd_reqs' = hostadd_reqs, num_workers' = num_workers
  PROVE  GrowsToTarget
<1> SUFFICES ASSUME hostadd_reqs # NULL, NEW c \in ExecClasses(rm)
             PROVE  ~(num_workers'[c] + Requests(hostadd_reqs', c) >
                        num_workers[c] + Requests(hostadd_reqs, c))
  BY DEF GrowsToTarget
<1>1. num_workers[c] \in Nat /\ Requests(hostadd_reqs, c) \in Nat
  BY Working, RequestsType
<1>2. Requests(hostadd_reqs', c) = Requests(hostadd_reqs, c)
  OBVIOUS
<1> QED
  BY <1>1, <1>2

(* A handler that calls hostaddlogic in the end. *)
LEMMA CallStep ==
  ASSUME HInv, hostadd_reqs # NULL, rm' = rm, saved' = saved, changes' = changes,
         Crew(rm, workers', num_workers'),
         Pool(workers', hosts', tasks', watched', inbox'),
         NEW reqs, NEW submit, NEW box \in Seq(Posted),
         Account(rm, reqs, submit, pending, box, lost),
         \A a \in PvmClasses : Count(inbox', HostAdd(a)) = Count(box, HostAdd(a)),
         \A e \in ExecClasses(rm) :
           num_workers'[e] + Requests(reqs, e) =< num_workers[e] + Requests(hostadd_reqs, e),
         NEW f \in Nat, changes + f =< MaxEvents,
         CallHostaddlogic(num_workers', reqs, submit, f)
  PROVE  HInv' /\ GrowsToTarget
<1>1. /\ Configuration(rm) /\ Configuration(saved) /\ ExecClasses(rm) # {}
      /\ num_workers \in [ExecClasses(rm) -> Nat]
      /\ hostadd_reqs \in [ExecClasses(rm) -> [PvmClasses -> Nat]]
      /\ changes \in Nat
  BY Working
<1>2. num_workers' \in [ExecClasses(rm) -> Nat]
  BY CrewType
<1>3. /\ Account(rm, hostadd_reqs', submit_list', pending', box, lost')
      /\ faults' \in Nat /\ changes + faults' =< MaxEvents
      /\ \A c \in ExecClasses(rm) :
           Requests(hostadd_reqs', c) > Requests(reqs, c) =>
             num_workers'[c] + Requests(hostadd_reqs', c) =< Target(rm, c)
  BY <1>1, <1>2, CallKeepsAccount
<1>4. Account(rm, hostadd_reqs', submit_list', pending', inbox', lost')
  BY <1>3, AccountOf
<1>5. hostadd_reqs' # NULL
  BY <1>1, <1>3, StillWorking
<1>6. Configuration(rm') /\ Configuration(saved') /\ Crew(rm', workers', num_workers')
      /\ Account(rm', hostadd_reqs', submit_list', pending', inbox', lost')
      /\ changes' \in Nat /\ changes' + faults' =< MaxEvents
  BY <1>1, <1>3, <1>4
<1>7. HInv'
  BY <1>3, <1>5, <1>6, After
<1>8. reqs \in [ExecClasses(rm) -> [PvmClasses -> Nat]]
      /\ hostadd_reqs' \in [ExecClasses(rm) -> [PvmClasses -> Nat]]
  BY <1>3 DEF Account
<1>9. ASSUME NEW c \in ExecClasses(rm),
             num_workers'[c] + Requests(hostadd_reqs', c) >
               num_workers[c] + Requests(hostadd_reqs, c)
      PROVE  num_workers'[c] + Requests(hostadd_reqs', c) =< Target(rm', c)
  <2> DEFINE n == num_workers[c]
             m == num_workers'[c]
             p == Requests(hostadd_reqs, c)
             q == Requests(hostadd_reqs', c)
             u == Requests(reqs, c)
  <2>1. p \in Nat /\ q \in Nat /\ u \in Nat
    BY <1>1, <1>8, RequestsType
  <2>2. n \in Nat /\ m \in Nat /\ m + u =< n + p /\ m + q > n + p
    BY <1>1, <1>2, <1>9
  <2>3. q > u => m + q =< Target(rm, c)
    BY <1>3
  <2> HIDE DEF n, m, p, q, u
  <2>4. q > u
    BY <2>1, <2>2
  <2> QED
    BY <2>3, <2>4 DEF m, q
<1>10. GrowsToTarget
  BY <1>9 DEF GrowsToTarget
<1> QED
  BY <1>7, <1>10

LEMMA StrangerKeeps ==
  ASSUME HInv, HandleStranger
  PROVE  HInv' /\ GrowsToTarget
<1>1. /\ hostadd_reqs # NULL /\ inbox # <<>>
      /\ Head(inbox).tag # "HOSTADD"
      /\ Known(Head(inbox).what) = 0
      /\ inbox' = Tail(inbox)
      /\ UNCHANGED <<wanted, account, pool>>
  BY DEF HandleStranger, Receive
<1>2. /\ rm' = rm /\ saved' = saved /\ changes' = changes /\ hostadd_reqs' = hostadd_reqs
      /\ submit_list' = submit_list /\ pending' = pending /\ lost' = lost /\ faults' = faults
      /\ workers' = workers /\ num_workers' = num_workers /\ hosts' = hosts /\ tasks' = tasks
      /\ watched' = watched
  BY <1>1 DEF wanted, account, pool
<1>3. Idle(workers, Head(inbox))
  <2>1. \A i \in DOMAIN workers :
          workers[i].id1 # Head(inbox).what /\ workers[i].id2 # Head(inbox).what
    BY <1>1, Working, KnownIsThere
  <2> QED
    BY <2>1 DEF Idle
<1>4. Pool(workers, hosts, tasks, watched, Tail(inbox))
  BY <1>1, <1>3, Working, PoolReads
<1>5. Account(rm, hostadd_reqs, submit_list, pending, Tail(inbox), lost)
  BY <1>1, Working, AccountReads
<1>6. HInv'
  BY <1>1, <1>2, <1>4, <1>5, Working, After
<1> QED
  BY <1>2, <1>6, Unmoved

LEMMA ChangeKeeps ==
  ASSUME HInv, ChangeTarget
  PROVE  HInv' /\ GrowsToTarget
<1>1. PICK c \in ExecClasses(rm), n \in Targets : rm' = SetTargetNumWorkers(rm, c, n)
  BY DEF ChangeTarget
<1>2. /\ hostadd_reqs # NULL /\ changes + faults < MaxEvents /\ changes' = changes + 1
      /\ UNCHANGED <<saved, account, pool, inbox>>
  BY DEF ChangeTarget
<1>3. /\ saved' = saved /\ hostadd_reqs' = hostadd_reqs
      /\ submit_list' = submit_list /\ pending' = pending /\ lost' = lost /\ faults' = faults
      /\ workers' = workers /\ num_workers' = num_workers /\ hosts' = hosts /\ tasks' = tasks
      /\ watched' = watched /\ inbox' = inbox
  BY <1>2 DEF account, pool
<1>4. n \in Nat /\ MaxEvents \in Nat
  BY HostBounds
<1>5. /\ Configuration(rm) /\ Configuration(saved) /\ Crew(rm, workers, num_workers)
      /\ Pool(workers, hosts, tasks, watched, inbox)
      /\ Account(rm, hostadd_reqs, submit_list, pending, inbox, lost)
      /\ changes \in Nat /\ faults \in Nat
  BY <1>2, Working
<1>6. Configuration(rm') /\ rm'.exec_classes = rm.exec_classes
  BY <1>1, <1>4, <1>5, TargetIsSet
<1>7. Crew(rm', workers, num_workers)
      /\ Account(rm', hostadd_reqs, submit_list, pending, inbox, lost)
  BY <1>5, <1>6, ClassesOf
<1>8. changes' \in Nat /\ changes' + faults =< MaxEvents
  BY <1>2, <1>4, <1>5
<1>9. HInv'
  BY <1>2, <1>3, <1>5, <1>6, <1>7, <1>8, After
<1> QED
  BY <1>3, <1>9, Unmoved

LEMMA CheckpointKeeps ==
  ASSUME HInv, WriteCheckpoint
  PROVE  HInv' /\ GrowsToTarget
<1>1. /\ hostadd_reqs # NULL /\ saved' = Restored(rm)
      /\ rm' = rm /\ changes' = changes /\ hostadd_reqs' = hostadd_reqs
      /\ submit_list' = submit_list /\ pending' = pending /\ lost' = lost /\ faults' = faults
      /\ workers' = workers /\ num_workers' = num_workers /\ hosts' = hosts /\ tasks' = tasks
      /\ watched' = watched /\ inbox' = inbox
  BY DEF WriteCheckpoint, account, pool
<1>2. Configuration(saved')
  BY <1>1, Working, RestoredFits
<1>3. HInv'
  BY <1>1, <1>2, Working, After
<1> QED
  BY <1>1, <1>3, Unmoved

LEMMA CrashKeeps ==
  ASSUME HInv, Crash
  PROVE  HInv' /\ GrowsToTarget
<1>1. /\ hostadd_reqs # NULL /\ changes + faults < MaxEvents /\ faults' = faults + 1
      /\ rm' = saved /\ hostadd_reqs' = NULL /\ submit_list' = <<>>
      /\ workers' = <<>> /\ num_workers' = [c \in ExecClasses(saved) |-> 0]
      /\ tasks' = {} /\ watched' = {} /\ inbox' = <<>> /\ pending' = None /\ lost' = None
      /\ saved' = saved /\ changes' = changes
  BY DEF Crash
<1>2. hosts' \in SUBSET hosts
  BY DEF Crash
<1>3. /\ Configuration(saved) /\ changes \in Nat /\ faults \in Nat
      /\ Pool(workers, hosts, tasks, watched, inbox)
  BY <1>1, Working
<1>4. Pool(<<>>, hosts', {}, {}, <<>>)
  <2>1. hosts \subseteq Host /\ IsFiniteSet(hosts) /\ \A g, h \in hosts : g.id = h.id => g = h
    BY <1>3 DEF Pool, Named
  <2>2. IsFiniteSet(hosts')
    BY <1>2, <2>1, FS_Subset
  <2> QED
    BY <1>2, <2>1, <2>2, EmptyPool
<1>5. Crew(saved, <<>>, num_workers')
  BY <1>1, EmptyCrew
<1>6. faults' \in Nat /\ changes' + faults' =< MaxEvents
  BY <1>1, <1>3, HostBounds
<1>7. HInv'
  BY <1>1, <1>3, <1>4, <1>5, <1>6, After
<1> QED
  BY <1>1, <1>7 DEF GrowsToTarget


LEMMA FreshId ==
  ASSUME HInv
  PROVE  Unknown(FreshIds(1)[1], workers, hosts, watched, inbox)
<1>1. IsFiniteSet(KnownIds)
  BY KnownAreFinite
<1>2. FreshIds(1) \in [1 .. 1 -> Nat \ KnownIds]
  BY <1>1, FreshIdsAreNew
<1>3. FreshIds(1)[1] \in Nat \ KnownIds
  BY <1>2
<1> QED
  BY <1>3, FreshIsUnknown

(* The first message is a HOSTADD, and its request is met. *)
LEMMA MeetingOne ==
  ASSUME HInv, Receive("HOSTADD"), NEW i, i = FirstRequest(Head(inbox).what), i # 0,
         NEW c, c = submit_list[i].exec_class
  PROVE  /\ hostadd_reqs # NULL /\ c \in ExecClasses(rm) /\ Tail(inbox) \in Seq(Posted)
         /\ Account(rm, Met(i), RemoveAt(submit_list, i), pending, Tail(inbox), lost)
         /\ \A e \in ExecClasses(rm) :
              /\ num_workers[e] \in Nat /\ Requests(hostadd_reqs, e) \in Nat
              /\ Requests(Met(i), e) = Requests(hostadd_reqs, e) - IF e = c THEN 1 ELSE 0
         /\ \A W, T, Wd : Pool(W, hosts, T, Wd, inbox) => Pool(W, hosts, T, Wd, Tail(inbox))
<1>1. hostadd_reqs # NULL /\ inbox # <<>> /\ Head(inbox).tag = "HOSTADD"
  BY DEF Receive
<1>2. /\ Configuration(rm) /\ Account(rm, hostadd_reqs, submit_list, pending, inbox, lost)
      /\ inbox \in Seq(Posted) /\ num_workers \in [ExecClasses(rm) -> Nat]
      /\ hostadd_reqs \in [ExecClasses(rm) -> [PvmClasses -> Nat]]
  BY <1>1, Working
<1>3. /\ c \in ExecClasses(rm)
      /\ Account(rm, Met(i), RemoveAt(submit_list, i), pending, Tail(inbox), lost)
      /\ \A e \in ExecClasses(rm) :
           Requests(Met(i), e) = Requests(hostadd_reqs, e) - IF e = c THEN 1 ELSE 0
  BY <1>1, <1>2, AccountMeets
<1>4. \A e \in ExecClasses(rm) : num_workers[e] \in Nat /\ Requests(hostadd_reqs, e) \in Nat
  BY <1>2, RequestsType
<1>5. Tail(inbox) \in Seq(Posted)
  BY <1>1, <1>2
<1>6. \A W : Idle(W, Head(inbox))
  BY <1>1 DEF Idle
<1>7. ASSUME NEW W, NEW T, NEW Wd, Pool(W, hosts, T, Wd, inbox)
      PROVE  Pool(W, hosts, T, Wd, Tail(inbox))
  BY <1>1, <1>6, <1>7, PoolReads
<1> QED
  BY <1>1, <1>3, <1>4, <1>5, <1>7

LEMMA HostAddKeeps ==
  ASSUME HInv, HandleHostAdd
  PROVE  HInv' /\ GrowsToTarget
<1> DEFINE a == Head(inbox).what
           i == FirstRequest(a)
           c == submit_list[i].exec_class
           more == [num_workers EXCEPT ![c] = @ + 1]
           w(h) == NewWorker(FreshIds(1)[1], h, c)
           t(h) == [id |-> w(h).id1, host |-> w(h).id2]
<1>1. /\ Receive("HOSTADD") /\ i # 0 /\ inbox' = Tail(inbox)
      /\ UNCHANGED <<wanted, hosts>>
  BY DEF HandleHostAdd
<1>2. PICK h \in HostsOf(a) :
        /\ workers' = Append(workers, w(h)) /\ num_workers' = more
        /\ tasks' = tasks \cup {t(h)} /\ Watched(t(h))
        /\ CallHostaddlogic(more, Met(i), RemoveAt(submit_list, i), faults)
  BY DEF HandleHostAdd
<1>3. h \in hosts
  BY DEF HostsOf
<1> HIDE DEF i, c
<1>4. /\ hostadd_reqs # NULL /\ c \in ExecClasses(rm) /\ Tail(inbox) \in Seq(Posted)
      /\ Account(rm, Met(i), RemoveAt(submit_list, i), pending, Tail(inbox), lost)
      /\ \A e \in ExecClasses(rm) :
           /\ num_workers[e] \in Nat /\ Requests(hostadd_reqs, e) \in Nat
           /\ Requests(Met(i), e) = Requests(hostadd_reqs, e) - IF e = c THEN 1 ELSE 0
      /\ \A W, T, Wd : Pool(W, hosts, T, Wd, inbox) => Pool(W, hosts, T, Wd, Tail(inbox))
  BY <1>1, MeetingOne DEF i, c
<1>5. /\ Crew(rm, workers, num_workers) /\ Pool(workers, hosts, tasks, watched, inbox)
      /\ workers \in Seq([id1 : Nat, id2 : Nat, exec_class : ExecClasses(rm)])
      /\ changes \in Nat /\ faults \in Nat /\ changes + faults =< MaxEvents
  BY <1>4, Working
<1>6. Unknown(FreshIds(1)[1], workers, hosts, watched, inbox)
  BY FreshId
<1>7. h.id \in Nat
  BY <1>3, <1>5 DEF Pool, Host
<1>8. /\ w(h).id1 = FreshIds(1)[1] /\ w(h).id2 = h.id /\ w(h).exec_class = c
      /\ w(h) \in [id1 : Nat, id2 : Nat, exec_class : ExecClasses(rm)]
      /\ t(h) = [id |-> w(h).id1, host |-> h.id]
  BY <1>4, <1>6, <1>7 DEF NewWorker, Unknown
<1> HIDE DEF w, t
<1>9. /\ Crew(rm, workers', num_workers')
      /\ \A e \in ExecClasses(rm) : num_workers'[e] = num_workers[e] + IF e = c THEN 1 ELSE 0
  <2>1. /\ Crew(rm, Append(workers, w(h)), more)
        /\ \A e \in ExecClasses(rm) : more[e] = num_workers[e] + IF e = c THEN 1 ELSE 0
    BY <1>5, <1>8, CrewGains
  <2> HIDE DEF more
  <2> QED
    BY <1>2, <2>1
<1>10. Pool(Append(workers, w(h)), hosts, tasks \cup {t(h)}, watched \cup {t(h)}, inbox)
  BY <1>3, <1>5, <1>6, <1>8, PoolGains
<1>11. Pool(workers', hosts', tasks', watched', inbox')
  BY <1>1, <1>2, <1>4, <1>10 DEF Watched
<1>12. \A e \in ExecClasses(rm) :
         num_workers'[e] + Requests(Met(i), e) =< num_workers[e] + Requests(hostadd_reqs, e)
  BY <1>4, <1>9
<1>13. CallHostaddlogic(num_workers', Met(i), RemoveAt(submit_list, i), faults)
  BY <1>2
<1>14. rm' = rm /\ saved' = saved /\ changes' = changes
  BY <1>1 DEF wanted
<1> QED
  BY <1>1, <1>4, <1>5, <1>9, <1>11, <1>12, <1>13, <1>14, CallStep

LEMMA HostAddInVainKeeps ==
  ASSUME HInv, HandleHostAddInVain
  PROVE  HInv' /\ GrowsToTarget
<1> DEFINE a == Head(inbox).what
           i == FirstRequest(a)
           c == submit_list[i].exec_class
           f == IF HostsOf(a) = {} THEN faults ELSE faults + 1
<1>1. /\ Receive("HOSTADD") /\ i # 0 /\ inbox' = Tail(inbox)
      /\ changes + f <= MaxEvents
      /\ CallHostaddlogic(num_workers, Met(i), RemoveAt(submit_list, i), f)
      /\ UNCHANGED <<wanted, pool>>
  BY DEF HandleHostAddInVain
<1> HIDE DEF i, c
<1>2. /\ hostadd_reqs # NULL /\ Tail(inbox) \in Seq(Posted)
      /\ Account(rm, Met(i), RemoveAt(submit_list, i), pending, Tail(inbox), lost)
      /\ \A e \in ExecClasses(rm) :
           /\ num_workers[e] \in Nat /\ Requests(hostadd_reqs, e) \in Nat
           /\ Requests(Met(i), e) = Requests(hostadd_reqs, e) - IF e = c THEN 1 ELSE 0
      /\ \A W, T, Wd : Pool(W, hosts, T, Wd, inbox) => Pool(W, hosts, T, Wd, Tail(inbox))
  BY <1>1, MeetingOne DEF i, c
<1>3. /\ Crew(rm, workers, num_workers) /\ Pool(workers, hosts, tasks, watched, inbox)
      /\ faults \in Nat
  BY <1>2, Working
<1>4. f \in Nat
  BY <1>3
<1>5. /\ rm' = rm /\ saved' = saved /\ changes' = changes /\ workers' = workers
      /\ num_workers' = num_workers /\ hosts' = hosts /\ tasks' = tasks /\ watched' = watched
  BY <1>1 DEF wanted, pool
<1>6. \A e \in ExecClasses(rm) :
        num_workers'[e] + Requests(Met(i), e) =< num_workers[e] + Requests(hostadd_reqs, e)
  BY <1>2, <1>5
<1>7. /\ CallHostaddlogic(num_workers', Met(i), RemoveAt(submit_list, i), f)
      /\ Crew(rm, workers', num_workers')
      /\ Pool(workers', hosts', tasks', watched', inbox')
  BY <1>1, <1>2, <1>3, <1>5
<1> HIDE DEF f
<1> QED
  BY <1>1, <1>2, <1>4, <1>5, <1>6, <1>7, CallStep

(* The first message is about worker i, who is taken off the list. *)
LEMMA RemovingOne ==
  ASSUME HInv, hostadd_reqs # NULL, inbox # <<>>,
         Head(inbox).tag \in {"TASKEXIT", "HOSTDELETE"},
         NEW i, i = Known(Head(inbox).what), i # 0, RmWorker(i)
  PROVE  /\ Crew(rm, workers', num_workers')
         /\ Pool(workers', hosts, tasks, watched, Tail(inbox))
         /\ Tail(inbox) \in Seq(Posted)
         /\ Account(rm, hostadd_reqs, submit_list, pending, Tail(inbox), lost)
         /\ \A e \in ExecClasses(rm) :
              num_workers'[e] + Requests(hostadd_reqs, e) =<
                num_workers[e] + Requests(hostadd_reqs, e)
         /\ CallHostaddlogic(num_workers', hostadd_reqs, submit_list, faults)
         /\ faults \in Nat /\ changes + faults =< MaxEvents
<1> DEFINE c == workers[i].exec_class
           X == [id1 : Nat, id2 : Nat, exec_class : ExecClasses(rm)]
<1>1. /\ Crew(rm, workers, num_workers) /\ workers \in Seq(X)
      /\ Pool(workers, hosts, tasks, watched, inbox) /\ inbox \in Seq(Posted)
      /\ Account(rm, hostadd_reqs, submit_list, pending, inbox, lost)
      /\ hostadd_reqs \in [ExecClasses(rm) -> [PvmClasses -> Nat]]
      /\ num_workers \in [ExecClasses(rm) -> Nat]
      /\ faults \in Nat /\ changes + faults =< MaxEvents
  BY Working
<1>2. /\ workers' = RemoveAt(workers, i)
      /\ num_workers' = [num_workers EXCEPT ![c] = @ - 1]
      /\ CallHostaddlogic(num_workers', hostadd_reqs, submit_list, faults)
  BY DEF RmWorker
<1>3. i \in DOMAIN workers
      /\ (workers[i].id1 = Head(inbox).what \/ workers[i].id2 = Head(inbox).what)
  BY <1>1, KnownIsThere
<1>4. /\ Crew(rm, workers', num_workers')
      /\ \A e \in ExecClasses(rm) : num_workers'[e] = num_workers[e] - IF e = c THEN 1 ELSE 0
  <2> DEFINE less == [num_workers EXCEPT ![c] = @ - 1]
  <2>1. /\ Crew(rm, RemoveAt(workers, i), less)
        /\ \A e \in ExecClasses(rm) : less[e] = num_workers[e] - IF e = c THEN 1 ELSE 0
    <3>1. Crew(rm, workers, num_workers) /\ i \in DOMAIN workers /\ c = workers[i].exec_class
      BY <1>1, <1>3
    <3> HIDE DEF c
    <3> QED
      BY <3>1, CrewLoses
  <2>2. workers' = RemoveAt(workers, i) /\ num_workers' = less
    BY <1>2
  <2> HIDE DEF less
  <2> QED
    BY <2>1, <2>2
<1>5. Pool(workers', hosts, tasks, watched, Tail(inbox))
  BY <1>1, <1>2, <1>3, PoolLoses
<1>6. Tail(inbox) \in Seq(Posted)
  BY <1>1
<1>7. Account(rm, hostadd_reqs, submit_list, pending, Tail(inbox), lost)
  BY <1>1, AccountReads
<1>8. ASSUME NEW e \in ExecClasses(rm)
      PROVE  num_workers'[e] + Requests(hostadd_reqs, e) =<
               num_workers[e] + Requests(hostadd_reqs, e)
  <2>1. num_workers[e] \in Nat /\ Requests(hostadd_reqs, e) \in Nat
    BY <1>1, RequestsType
  <2> QED
    BY <2>1, <1>4
<1> QED
  BY <1>1, <1>2, <1>4, <1>5, <1>6, <1>7, <1>8

LEMMA HostDeleteKeeps ==
  ASSUME HInv, HandleHostDelete
  PROVE  HInv' /\ GrowsToTarget
<1> DEFINE i == Known(Head(inbox).what)
<1>1. /\ hostadd_reqs # NULL /\ inbox # <<>> /\ Head(inbox).tag = "HOSTDELETE"
      /\ i # 0 /\ RmWorker(i) /\ inbox' = Tail(inbox)
      /\ UNCHANGED <<wanted, hosts, tasks, watched>>
  BY DEF HandleHostDelete, Receive
<1>2. /\ Crew(rm, workers', num_workers')
      /\ Pool(workers', hosts, tasks, watched, Tail(inbox))
      /\ Tail(inbox) \in Seq(Posted)
      /\ Account(rm, hostadd_reqs, submit_list, pending, Tail(inbox), lost)
      /\ \A e \in ExecClasses(rm) :
           num_workers'[e] + Requests(hostadd_reqs, e) =<
             num_workers[e] + Requests(hostadd_reqs, e)
      /\ CallHostaddlogic(num_workers', hostadd_reqs, submit_list, faults)
      /\ faults \in Nat /\ changes + faults =< MaxEvents
  BY <1>1, RemovingOne
<1> HIDE DEF i
<1>3. /\ rm' = rm /\ saved' = saved /\ changes' = changes
      /\ Pool(workers', hosts', tasks', watched', inbox')
  BY <1>1, <1>2 DEF wanted
<1> QED
  BY <1>1, <1>2, <1>3, CallStep

(* What PVM tells of a host that goes is nothing of hosts that come. *)
LEMMA LossIsNoHostAdd ==
  ASSUME NEW box \in Seq(Posted), NEW news, NEW h, NEW T, NEW Wd, Tells(news, h, T, Wd)
  PROVE  \A a \in PvmClasses : Count(box \o news, HostAdd(a)) = Count(box, HostAdd(a))
<1>1. news \in Seq(Posted)
  BY DEF Tells
<1> TAKE a \in PvmClasses
<1>2. \A j \in DOMAIN news : news[j] \notin {HostAdd(a)}
  BY DEF Tells, HostAdd, HostDelete, TaskExit
<1>3. Count(news, HostAdd(a)) = 0
  BY <1>2, HitsNone, CountIsHits
<1>4. /\ Count(box, HostAdd(a)) \in Nat
      /\ Count(box \o news, HostAdd(a)) = Count(box, HostAdd(a)) + Count(news, HostAdd(a))
  BY <1>1, CountJoined
<1> QED
  BY <1>3, <1>4

LEMMA GoneHost ==
  ASSUME NEW X, NEW W \in Seq(X), NEW box, Pool(W, hosts, tasks, watched, box), box \in Seq(Posted),
         NEW h \in hosts, HostGone(h, box)
  PROVE  /\ Pool(W, hosts', tasks', watched', inbox')
         /\ \A a \in PvmClasses : Count(inbox', HostAdd(a)) = Count(box, HostAdd(a))
<1>1. /\ hosts' = hosts \ {h} /\ tasks' = tasks \ OnHost(tasks, h)
      /\ watched' = watched \ OnHost(watched, h)
  BY DEF HostGone
<1>2. PICK news \in NoticesOfLoss(h) : inbox' = box \o news
  BY DEF HostGone
<1>3. Tells(news, h, tasks, watched)
  BY NoticesTell
<1>4. Pool(W, hosts \ {h}, tasks \ OnHost(tasks, h), watched \ OnHost(watched, h), box \o news)
  BY <1>3, PoolLosesHost
<1>5. \A a \in PvmClasses : Count(box \o news, HostAdd(a)) = Count(box, HostAdd(a))
  BY <1>3, LossIsNoHostAdd
<1> QED
  BY <1>1, <1>2, <1>4, <1>5

LEMMA TaskExitKeeps ==
  ASSUME HInv, HandleTaskExit
  PROVE  HInv' /\ GrowsToTarget
<1> DEFINE i == Known(Head(inbox).what)
           X == [id1 : Nat, id2 : Nat, exec_class : ExecClasses(rm)]
<1>1. /\ hostadd_reqs # NULL /\ inbox # <<>> /\ Head(inbox).tag = "TASKEXIT"
      /\ i # 0 /\ RmWorker(i)
      /\ \/ \E h \in hosts : h.id = workers[i].id2 /\ HostGone(h, Tail(inbox))
         \/ /\ inbox' = Tail(inbox)
            /\ UNCHANGED <<hosts, tasks, watched>>
      /\ UNCHANGED wanted
  BY DEF HandleTaskExit, Receive
<1>2. /\ Crew(rm, workers', num_workers')
      /\ Pool(workers', hosts, tasks, watched, Tail(inbox))
      /\ Tail(inbox) \in Seq(Posted)
      /\ Account(rm, hostadd_reqs, submit_list, pending, Tail(inbox), lost)
      /\ \A e \in ExecClasses(rm) :
           num_workers'[e] + Requests(hostadd_reqs, e) =<
             num_workers[e] + Requests(hostadd_reqs, e)
      /\ CallHostaddlogic(num_workers', hostadd_reqs, submit_list, faults)
      /\ faults \in Nat /\ changes + faults =< MaxEvents
  BY <1>1, RemovingOne
<1> HIDE DEF i
<1>3. rm' = rm /\ saved' = saved /\ changes' = changes
  BY <1>1 DEF wanted
<1>4. workers' \in Seq(X)
  BY <1>2 DEF Crew
<1>5. /\ Pool(workers', hosts', tasks', watched', inbox')
      /\ \A a \in PvmClasses : Count(inbox', HostAdd(a)) = Count(Tail(inbox), HostAdd(a))
  <2> HIDE DEF X
  <2>1. CASE \E h \in hosts : h.id = workers[i].id2 /\ HostGone(h, Tail(inbox))
    <3>1. PICK h \in hosts : HostGone(h, Tail(inbox))
      BY <2>1
    <3> QED
      BY <1>2, <1>4, <3>1, GoneHost
  <2>2. CASE inbox' = Tail(inbox) /\ UNCHANGED <<hosts, tasks, watched>>
    BY <1>2, <2>2
  <2> QED
    BY <1>1, <2>1, <2>2
<1> QED
  BY <1>1, <1>2, <1>3, <1>5, CallStep


LEMMA ArrivalKeeps ==
  ASSUME HInv, HostArrives
  PROVE  HInv' /\ GrowsToTarget
<1> DEFINE x == FreshIds(1)[1]
<1>1. PICK a \in PvmClasses :
        /\ pending[a] > 0
        /\ pending' = [pending EXCEPT ![a] = @ - 1]
        /\ hosts' = hosts \cup {[id |-> x, arch_class |-> a]}
        /\ inbox' = Append(inbox, HostAdd(a))
  BY DEF HostArrives
<1>2. /\ rm' = rm /\ saved' = saved /\ changes' = changes /\ hostadd_reqs' = hostadd_reqs
      /\ submit_list' = submit_list /\ lost' = lost /\ faults' = faults
      /\ workers' = workers /\ num_workers' = num_workers /\ tasks' = tasks
      /\ watched' = watched
  BY DEF HostArrives, wanted
<1>3. hostadd_reqs # NULL
  <2> SUFFICES ASSUME hostadd_reqs = NULL PROVE FALSE
    OBVIOUS
  <2>1. pending = None
    BY DEF HInv
  <2>2. pending[a] = 0
    BY <2>1, NoneType
  <2> QED
    BY <1>1, <2>2
<1>4. Unknown(x, workers, hosts, watched, inbox)
  BY FreshId
<1> HIDE DEF x
<1>5. Pool(workers, hosts', tasks, watched, inbox')
  BY <1>1, <1>3, <1>4, Working, PoolGetsHost
<1>6. Account(rm, hostadd_reqs, submit_list, pending', inbox', lost)
  BY <1>1, <1>3, Working, AccountArrives
<1>7. HInv'
  BY <1>2, <1>3, <1>5, <1>6, Working, After
<1> QED
  BY <1>2, <1>7, Unmoved

LEMMA HostDeathKeeps ==
  ASSUME HInv, HostDies
  PROVE  HInv' /\ GrowsToTarget
<1>1. /\ changes + faults < MaxEvents /\ faults' = faults + 1 /\ hostadd_reqs # NULL
      /\ rm' = rm /\ saved' = saved /\ changes' = changes /\ hostadd_reqs' = hostadd_reqs
      /\ submit_list' = submit_list /\ pending' = pending /\ lost' = lost
      /\ workers' = workers /\ num_workers' = num_workers
  BY DEF HostDies, wanted
<1>2. PICK h \in hosts : HostGone(h, inbox)
  BY DEF HostDies
<1>3. /\ Pool(workers, hosts', tasks', watched', inbox')
      /\ \A a \in PvmClasses : Count(inbox', HostAdd(a)) = Count(inbox, HostAdd(a))
  BY <1>1, <1>2, Working, GoneHost
<1>4. Account(rm, hostadd_reqs, submit_list, pending, inbox', lost)
  BY <1>1, <1>3, Working, AccountOf
<1>5. faults' \in Nat /\ changes' + faults' =< MaxEvents
  BY <1>1, Working, HostBounds
<1>6. HInv'
  BY <1>1, <1>3, <1>4, <1>5, Working, After
<1> QED
  BY <1>1, <1>6, Unmoved

LEMMA TaskDeathKeeps ==
  ASSUME HInv, TaskDies
  PROVE  HInv' /\ GrowsToTarget
<1>1. /\ changes + faults < MaxEvents /\ faults' = faults + 1
      /\ rm' = rm /\ saved' = saved /\ changes' = changes /\ hostadd_reqs' = hostadd_reqs
      /\ submit_list' = submit_list /\ pending' = pending /\ lost' = lost
      /\ workers' = workers /\ num_workers' = num_workers /\ hosts' = hosts
      /\ watched' = watched
  BY DEF TaskDies, wanted
<1>2. PICK t \in tasks :
        /\ tasks' = tasks \ {t}
        /\ inbox' = IF t \in watched THEN Append(inbox, [tag |-> "TASKEXIT", what |-> t.id])
                     ELSE inbox
  BY DEF TaskDies
<1>3. hostadd_reqs # NULL
  BY <1>2 DEF HInv
<1>4. Pool(workers, hosts, tasks, watched, inbox) /\ inbox \in Seq(Posted)
      /\ Account(rm, hostadd_reqs, submit_list, pending, inbox, lost)
  BY <1>3, Working
<1>5. t \in watched /\ t.id \in Nat
  BY <1>4 DEF Pool, Spawned
<1>6. inbox' = Append(inbox, TaskExit(t.id))
  BY <1>2, <1>5 DEF TaskExit
<1>7. Pool(workers, hosts, tasks', watched, inbox')
  <2>1. Pool(workers, hosts, tasks \ {t}, watched, Append(inbox, TaskExit(t.id)))
    BY <1>4, PoolLosesTask
  <2> QED
    BY <1>2, <1>6, <2>1
<1>8. ASSUME NEW a \in PvmClasses PROVE Count(inbox', HostAdd(a)) = Count(inbox, HostAdd(a))
  <2>1. TaskExit(t.id) \in Posted
    BY <1>5 DEF Posted, Notice, TaskExit
  <2>2. TaskExit(t.id) # HostAdd(a)
    BY DEF TaskExit, HostAdd
  <2>3. /\ Count(inbox, HostAdd(a)) \in Nat
        /\ Count(inbox', HostAdd(a)) =
             Count(inbox, HostAdd(a)) + IF TaskExit(t.id) = HostAdd(a) THEN 1 ELSE 0
    BY <1>4, <1>6, <2>1, CountAppend
  <2> QED
    BY <2>2, <2>3
<1>9. Account(rm, hostadd_reqs, submit_list, pending, inbox', lost)
  BY <1>4, <1>8, AccountOf
<1>10. faults' \in Nat /\ changes' + faults' =< MaxEvents
  BY <1>1, <1>3, Working, HostBounds
<1>11. HInv'
  BY <1>1, <1>3, <1>7, <1>9, <1>10, Working, After
<1> QED
  BY <1>1, <1>11, Unmoved

LEMMA StutterKeeps ==
  ASSUME HInv, UNCHANGED hostVars
  PROVE  HInv' /\ GrowsToTarget
<1>1. /\ rm' = rm /\ saved' = saved /\ changes' = changes /\ hostadd_reqs' = hostadd_reqs
      /\ submit_list' = submit_list /\ pending' = pending /\ lost' = lost /\ faults' = faults
      /\ workers' = workers /\ num_workers' = num_workers /\ hosts' = hosts /\ tasks' = tasks
      /\ watched' = watched /\ inbox' = inbox
  BY DEF hostVars, wanted, account, pool
<1>2. HInv'
  BY <1>1 DEF HInv
<1> QED
  BY <1>1, <1>2, Unmoved

(* Without exec classes there are no workers, and nothing is asked for. *)
LEMMA NothingToDo ==
  ASSUME NEW r, Configuration(r), ExecClasses(r) = {},
         NEW W, NEW num, Crew(r, W, num), NEW reqs, NEW submit, NEW pend, NEW gone,
         Account(r, reqs, submit, pend, <<>>, gone)
  PROVE  W = <<>> /\ submit = <<>> /\ pend = None /\ gone = None
<1>1. /\ W \in Seq({}) /\ submit \in Seq({})
  <2>1. [id1 : Nat, id2 : Nat, exec_class : ExecClasses(r)] = {}
        /\ [exec_class : ExecClasses(r), arch_class : PvmClasses] = {}
    OBVIOUS
  <2> QED
    BY <2>1 DEF Crew, Account
<1>2. \A s \in Seq({}) : s = <<>>
  OBVIOUS
<1>3. ASSUME NEW a \in PvmClasses PROVE pend[a] = 0 /\ gone[a] = 0
  <2> DEFINE f == [c \in ExecClasses(r) |-> reqs[c][a]]
             m == r.exec_classes
  <2>1. m \in Nat /\ ExecClasses(r) = 0 .. m - 1
    BY DEF Configuration, RMComm, ExecClasses
  <2>2. \A c \in 0 .. m - 1 : f[c] = 0
    BY <2>1
  <2>3. OfArch(r, reqs, a) = Sum(m, f)
    BY DEF OfArch
  <2> HIDE DEF f, m
  <2>4. OfArch(r, reqs, a) = 0
    BY <2>1, <2>2, <2>3, SumNone
  <2>5. /\ pend[a] \in Nat /\ gone[a] \in Nat
        /\ OfArch(r, reqs, a) = pend[a] + Count(<<>>, HostAdd(a)) + gone[a]
    BY DEF Account
  <2>6. <<>> \in Seq({})
    OBVIOUS
  <2>7. Count(<<>>, HostAdd(a)) \in Nat
    BY <2>6, CountType
  <2> QED
    BY <2>4, <2>5, <2>7
<1>4. pend \in [PvmClasses -> Nat] /\ gone \in [PvmClasses -> Nat]
  BY DEF Account
<1>5. pend = None /\ gone = None
  BY <1>3, <1>4 DEF None
<1> QED
  BY <1>1, <1>2, <1>5

LEMMA StartKeeps ==
  ASSUME HInv, Start
  PROVE  HInv' /\ GrowsToTarget
<1> DEFINE able == {h \in hosts : ChosenClasses(h.arch_class) # {}}
<1>1. /\ Configuration(rm) /\ Configuration(saved)
      /\ hosts \subseteq Host /\ IsFiniteSet(hosts)
      /\ submit_list = <<>> /\ inbox = <<>> /\ pending = None /\ lost = None
      /\ changes \in Nat /\ faults \in Nat /\ changes + faults <= MaxEvents
  BY DEF HInv, Start, Pool
<1>2. PICK up \in SUBSET able : \E place \in [up -> hosts] : StartWorkers(up, place)
  BY DEF Start
<1>3. PICK place \in [up -> hosts] : StartWorkers(up, place)
  BY <1>2
<1> DEFINE W == StartList(up, place)
           num == [c \in ExecClasses(rm) |->
                     Cardinality({i \in DOMAIN W : W[i].exec_class = c})]
           none == [c \in ExecClasses(rm) |-> None]
           f == faults + Cardinality({h \in hosts \ up : ChosenClasses(h.arch_class) # {}})
<1>4. /\ changes + f <= MaxEvents
      /\ workers' = W /\ num_workers' = num
      /\ tasks' = TasksOf(W) /\ watched' = TasksOf(W)
      /\ CallHostaddlogic(num, none, <<>>, f)
      /\ UNCHANGED <<wanted, hosts, inbox>>
  BY <1>3, Zenon DEF StartWorkers, StartList, TasksOf
<1>5. f \in Nat
  <2> DEFINE D == {h \in hosts \ up : ChosenClasses(h.arch_class) # {}}
  <2>1. D \subseteq hosts
    OBVIOUS
  <2> HIDE DEF D
  <2>2. IsFiniteSet(D)
    BY <1>1, <2>1, FS_Subset
  <2>3. Cardinality(D) \in Nat
    BY <2>2, FS_CardinalityType
  <2> QED
    BY <1>1, <2>3 DEF D
<1>6. Crew(rm, W, num) /\ Pool(W, hosts, TasksOf(W), TasksOf(W), <<>>)
  <2>1. up \in SUBSET hosts /\ \A h \in up : ChosenClasses(h.arch_class) # {}
    BY <1>2
  <2> QED
    BY <1>3, <2>1, StartsWorkers
<1>7. Account(rm, none, <<>>, pending, <<>>, lost)
  BY <1>1, NothingAskedYet
<1> HIDE DEF able, W, num, none, f
<1>8. /\ Account(rm, hostadd_reqs', submit_list', pending', <<>>, lost')
      /\ faults' \in Nat /\ changes + faults' =< MaxEvents
  <2>1. num \in [ExecClasses(rm) -> Nat]
    BY <1>6, CrewType
  <2>2. <<>> \in Seq(Posted)
    OBVIOUS
  <2> QED
    BY <1>1, <1>4, <1>5, <1>7, <2>1, <2>2, CallKeepsAccount
<1>9. /\ rm' = rm /\ saved' = saved /\ changes' = changes /\ hosts' = hosts /\ inbox' = <<>>
  BY <1>1, <1>4 DEF wanted
<1>10. ASSUME hostadd_reqs' = NULL
       PROVE  /\ submit_list' = <<>> /\ workers' = <<>> /\ tasks' = {} /\ watched' = {}
              /\ pending' = None /\ lost' = None
  <2>1. ExecClasses(rm) = {}
    BY <1>8, <1>10, StillWorking
  <2>2. W = <<>> /\ submit_list' = <<>> /\ pending' = None /\ lost' = None
    BY <1>1, <1>6, <1>8, <2>1, NothingToDo
  <2>3. Range(<<>>) = {}
    BY DEF Range
  <2>4. TasksOf(<<>>) = {}
    BY <2>3 DEF TasksOf
  <2> QED
    BY <1>4, <2>2, <2>4
<1>11. /\ Crew(rm, workers', num_workers') /\ Pool(workers', hosts', tasks', watched', inbox')
  BY <1>4, <1>6, <1>9
<1>12. HInv'
  BY <1>1, <1>8, <1>9, <1>10, <1>11, After
<1>13. GrowsToTarget
  BY DEF Start, GrowsToTarget
<1> QED
  BY <1>12, <1>13

LEMMA Starts ==
  ASSUME Init
  PROVE  HInv
<1>1. PICK p \in Programs : rm = Configured(p)
  BY DEF Init
<1>2. /\ saved = rm /\ hostadd_reqs = NULL /\ submit_list = <<>>
      /\ workers = <<>> /\ num_workers = [c \in ExecClasses(rm) |-> 0]
      /\ hosts = {[id |-> i, arch_class |-> FirstHosts[i]] : i \in DOMAIN FirstHosts}
      /\ tasks = {} /\ watched = {} /\ inbox = <<>>
      /\ pending = None /\ lost = None /\ changes = 0 /\ faults = 0
  BY DEF Init
<1>3. Configuration(rm)
  BY <1>1, ProgramsAreComplete DEF Configuration
<1>4. Pool(<<>>, hosts, {}, {}, <<>>)
  <2> DEFINE f == [i \in DOMAIN FirstHosts |-> [id |-> i, arch_class |-> FirstHosts[i]]]
  <2>1. /\ FirstHosts \in Seq(PvmClasses)
        /\ DOMAIN FirstHosts = 1 .. Len(FirstHosts) /\ Len(FirstHosts) \in Nat
        /\ \A i \in DOMAIN FirstHosts : FirstHosts[i] \in PvmClasses
    BY HostBounds DEF PvmClasses
  <2>2. IsFiniteSet(DOMAIN FirstHosts)
    BY <2>1, PartsFinite
  <2>3. DOMAIN f = DOMAIN FirstHosts /\ hosts = {f[i] : i \in DOMAIN FirstHosts}
    BY <1>2
  <2>4. \A i \in DOMAIN FirstHosts : f[i] \in Host /\ f[i].id = i
    BY <2>1 DEF Host
  <2> HIDE DEF f
  <2>5. IsFiniteSet(hosts)
    BY <2>2, <2>3, ImageFinite
  <2>6. hosts \subseteq Host /\ \A g, h \in hosts : g.id = h.id => g = h
    BY <2>3, <2>4
  <2> QED
    BY <2>5, <2>6, EmptyPool
<1>5. Crew(rm, <<>>, num_workers)
  BY <1>2, EmptyCrew
<1>6. changes \in Nat /\ faults \in Nat /\ changes + faults <= MaxEvents
  BY <1>2, HostBounds
<1> QED
  BY <1>2, <1>3, <1>4, <1>5, <1>6 DEF HInv


-----------------------------------------------------------------------------
(* What the invariant says of the account and of the workers. *)

LEMMA AccountIsRight ==
  ASSUME HInv
  PROVE  AccountAddsUp
<1> SUFFICES ASSUME hostadd_reqs # NULL
             PROVE  /\ \A a \in PvmClasses :
                         OfArch(rm, hostadd_reqs, a) =
                           pending[a] + Count(inbox, HostAdd(a)) + lost[a]
                    /\ \A c \in ExecClasses(rm), a \in PvmClasses :
                         hostadd_reqs[c][a] =
                           Count(submit_list, [exec_class |-> c, arch_class |-> a])
  BY DEF AccountAddsUp
<1>1. Account(rm, hostadd_reqs, submit_list, pending, inbox, lost)
  BY Working
<1> QED
  BY <1>1, Zenon DEF Account

LEMMA ListsGrow ==
  ASSUME NEW X, NEW Y, X \subseteq Y, NEW s \in Seq(X)
  PROVE  s \in Seq(Y)
OBVIOUS

LEMMA HostTypes ==
  ASSUME HInv
  PROVE  HostsTypeOK
<1>1. rm \in RMComm /\ saved \in RMComm /\ Crew(rm, workers, num_workers)
      /\ hosts \subseteq Host /\ tasks \subseteq Spawned /\ watched \subseteq Spawned
      /\ inbox \in Seq(Posted)
      /\ changes \in Nat /\ faults \in Nat /\ changes + faults <= MaxEvents
  BY DEF HInv, Pool, Configuration
<1>2. num_workers \in [ExecClasses(rm) -> Nat]
  BY <1>1, CrewType
<1>3. ExecClasses(rm) \subseteq Nat /\ PvmClasses \subseteq Nat
  BY <1>1, HostBounds DEF ExecClasses, PvmClasses, RMComm
<1>4. workers \in Seq(WorkerID)
  <2> DEFINE X == [id1 : Nat, id2 : Nat, exec_class : ExecClasses(rm)]
  <2>1. X \subseteq WorkerID
    BY <1>3 DEF WorkerID
  <2>2. workers \in Seq(X)
    BY <1>1 DEF Crew
  <2> HIDE DEF X
  <2> QED
    BY <2>1, <2>2, ListsGrow
<1>5. inbox \in Seq(Notice)
  <2>1. Posted \subseteq Notice
    BY <1>3 DEF Posted, Notice, HostAdd
  <2> QED
    BY <1>1, <2>1, ListsGrow
<1>6. /\ hostadd_reqs = NULL \/ hostadd_reqs \in [ExecClasses(rm) -> [PvmClasses -> Nat]]
      /\ submit_list \in Seq(Request)
      /\ pending \in [PvmClasses -> Nat] /\ lost \in [PvmClasses -> Nat]
  <2>1. CASE hostadd_reqs = NULL
    <3>1. submit_list = <<>> /\ pending = None /\ lost = None
      BY <2>1 DEF HInv
    <3>2. <<>> \in Seq(Request)
      OBVIOUS
    <3> QED
      BY <2>1, <3>1, <3>2, NoneType
  <2>2. CASE hostadd_reqs # NULL
    <3> DEFINE X == [exec_class : ExecClasses(rm), arch_class : PvmClasses]
    <3>1. Account(rm, hostadd_reqs, submit_list, pending, inbox, lost)
      BY <2>2, Working
    <3>2. X \subseteq Request
      BY <1>3 DEF Request
    <3>3. /\ hostadd_reqs \in [ExecClasses(rm) -> [PvmClasses -> Nat]]
          /\ submit_list \in Seq(X)
          /\ pending \in [PvmClasses -> Nat] /\ lost \in [PvmClasses -> Nat]
      BY <3>1 DEF Account
    <3> HIDE DEF X
    <3> QED
      BY <3>2, <3>3, ListsGrow
  <2> QED
    BY <2>1, <2>2
<1> QED
  BY <1>1, <1>2, <1>4, <1>5, <1>6 DEF HostsTypeOK

LEMMA KnownAre ==
  ASSUME HInv
  PROVE  WorkersAreKnown
<1>1. /\ Crew(rm, workers, num_workers) /\ Runs(workers, hosts, tasks, watched, inbox)
      /\ inbox \in Seq(Posted)
  BY DEF HInv, Pool
<1>2. \A c \in ExecClasses(rm) :
        num_workers[c] = Cardinality({i \in DOMAIN workers : workers[i].exec_class = c})
  BY <1>1 DEF Crew
<1>3. \A t \in tasks : \E i \in DOMAIN workers : workers[i].id1 = t.id
  BY <1>1 DEF Runs
<1>4. ASSUME NEW i \in DOMAIN workers
      PROVE  \/ \E t \in tasks : t.id = workers[i].id1
             \/ \E j \in DOMAIN inbox :
                  /\ inbox[j].tag # "HOSTADD"
                  /\ inbox[j].what \in {workers[i].id1, workers[i].id2}
  <2> DEFINE x == workers[i].id2
             y == workers[i].id1
  <2>1. CASE x \in Ids(hosts)
    <3>1. [id |-> y, host |-> x] \in tasks \/ \E j \in DOMAIN inbox : inbox[j] = TaskExit(y)
      BY <1>1, <2>1 DEF Runs
    <3>2. CASE [id |-> y, host |-> x] \in tasks
      BY <3>2
    <3>3. CASE \E j \in DOMAIN inbox : inbox[j] = TaskExit(y)
      BY <3>3 DEF TaskExit
    <3> QED
      BY <3>1, <3>2, <3>3
  <2>2. CASE x \notin Ids(hosts)
    <3> DEFINE S == {n \in DOMAIN workers : workers[n].id2 = x}
               N == {j \in DOMAIN inbox : inbox[j] = HostDelete(x)}
    <3>1. Cardinality(S) =< Cardinality(N)
      <4>1. x \in {workers[n].id2 : n \in DOMAIN workers} \ Ids(hosts)
        BY <2>2
      <4> QED
        BY <1>1, <4>1 DEF Runs, Count
    <3>2. i \in S /\ S \in SUBSET DOMAIN workers
      OBVIOUS
    <3>3. \A j \in N : j \in DOMAIN inbox /\ inbox[j] = HostDelete(x)
      OBVIOUS
    <3> HIDE DEF S, N
    <3>4. IsFiniteSet(S)
      BY <1>1, <3>2, PartsFinite DEF Crew
    <3>5. Cardinality(S) \in Nat /\ Cardinality(S) # 0
      BY <3>2, <3>4, FS_CardinalityType, FS_EmptySet
    <3>6. N # {}
      BY <3>1, <3>5, FS_EmptySet
    <3> QED
      BY <3>3, <3>6 DEF HostDelete
  <2> QED
    BY <2>1, <2>2
<1>5. HostsTypeOK
  BY HostTypes
<1> QED
  BY <1>2, <1>3, <1>4, <1>5 DEF WorkersAreKnown

(* Every step of the master, of PVM and of the user keeps the invariant, and *)
(* lets no class grow beyond its target.                                     *)
LEMMA StepKeeps ==
  ASSUME HInv, [Next]_hostVars
  PROVE  HInv' /\ GrowsToTarget
<1>1. CASE Start
  BY <1>1, StartKeeps
<1>2. CASE HandleHostAdd
  BY <1>2, HostAddKeeps
<1>3. CASE HandleHostAddInVain
  BY <1>3, HostAddInVainKeeps
<1>4. CASE HandleHostDelete
  BY <1>4, HostDeleteKeeps
<1>5. CASE HandleTaskExit
  BY <1>5, TaskExitKeeps
<1>6. CASE HandleStranger
  BY <1>6, StrangerKeeps
<1>7. CASE ChangeTarget
  BY <1>7, ChangeKeeps
<1>8. CASE WriteCheckpoint
  BY <1>8, CheckpointKeeps
<1>9. CASE Crash
  BY <1>9, CrashKeeps
<1>10. CASE HostArrives
  BY <1>10, ArrivalKeeps
<1>11. CASE HostDies
  BY <1>11, HostDeathKeeps
<1>12. CASE TaskDies
  BY <1>12, TaskDeathKeeps
<1>13. CASE UNCHANGED hostVars
  BY <1>13, StutterKeeps
<1> QED
  BY <1>1, <1>2, <1>3, <1>4, <1>5, <1>6, <1>7, <1>8, <1>9, <1>10, <1>11, <1>12, <1>13 DEF Next

-----------------------------------------------------------------------------
(* The theorems. *)

(* HInv holds in every state of the master and PVM.                          *)
THEOREM HostsAreSound == Spec => []HInv
<1>1. Init => HInv
  BY Starts
<1>2. HInv /\ [Next]_hostVars => HInv'
  BY StepKeeps
<1> QED
  BY <1>1, <1>2, PTL DEF Spec

(* The master's account of outstanding requests is, for every arch class, that *)
(* of the hosts PVM owes, has announced or has refused, and submit_list has    *)
(* just these requests: hostaddlogic, start_worker and the handlers agree.     *)
THEOREM AccountAdds == Spec => []AccountAddsUp
<1>1. HInv => AccountAddsUp
  BY AccountIsRight
<1> QED
  BY <1>1, HostsAreSound, PTL

(* The driver's count of workers is that of its list; every worker that runs   *)
(* is on the list; one that does not run is there only until the news of its   *)
(* end is read.                                                                *)
THEOREM WorkersKnown == Spec => []WorkersAreKnown
<1>1. HInv => WorkersAreKnown
  BY KnownAre
<1> QED
  BY <1>1, HostsAreSound, PTL

(* No step lets the workers of an exec class and its requests grow in number   *)
(* beyond the target: what hostaddlogic asks for, with all it has asked for    *)
(* and all who are there, is at most what the user wants.                      *)
THEOREM NotTooMany == Spec => NeverTooMany
<1>1. HInv /\ [Next]_hostVars => [GrowsToTarget]_hostVars
  BY StepKeeps
<1> QED
  BY <1>1, HostsAreSound, PTL DEF Spec, NeverTooMany
=============================================================================
