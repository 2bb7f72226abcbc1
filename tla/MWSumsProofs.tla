--------------------------- MODULE MWSumsProofs ---------------------------
(***************************************************************************)
(* Lemmas about folds, totals and sequences that the proofs of MWStats and *)
(* MWHosts rest on.  A fold from the left is its steps, one after the      *)
(* other (FoldExists, FoldUnrolls); a total is its partial sums (Sums),    *)
(* and the lemmas after that say what becomes of it when a term changes,   *)
(* goes or is added.                                                       *)
(***************************************************************************)
EXTENDS MWSums, FiniteSetTheorems, TLAPS

-----------------------------------------------------------------------------
(* Numbers and folds. *)

LEMMA LeastNat ==
  ASSUME NEW T \in SUBSET Nat, T # {}
  PROVE  \E x \in T : \A y \in T : x =< y
<1> DEFINE R == {p \in Nat \X Nat : p[1] < p[2]}
<1>1. IsWellFoundedOn(R, Nat)
  BY NatLessThanWellFounded DEF OpToRel
<1>2. \A x, y \in Nat : y < x => <<y, x>> \in R
  OBVIOUS
<1> HIDE DEF R
<1>3. PICK x \in T : \A y \in T : ~ (<<y, x>> \in R)
  BY <1>1, WFMin, Zenon
<1>4. \A y \in T : ~ (y < x)
  BY <1>2, <1>3, Zenon
<1> QED
  BY <1>4

(* What holds at 0, and at n + 1 if at n, holds up to any bound. *)
LEMMA UpTo ==
  ASSUME NEW n \in Nat, NEW T, 0 \in T,
         \A k \in 0 .. n - 1 : k \in T => k + 1 \in T
  PROVE  \A k \in 0 .. n : k \in T
<1> DEFINE B == {k \in 0 .. n : k \notin T}
<1>1. SUFFICES ASSUME B # {} PROVE FALSE
  OBVIOUS
<1>2. B \subseteq Nat
  OBVIOUS
<1>3. PICK x \in B : \A y \in B : x =< y
  BY <1>1, <1>2, LeastNat
<1>4. x # 0 /\ x - 1 \in 0 .. n - 1 /\ x - 1 \notin B /\ (x - 1) + 1 = x
  BY <1>3
<1>5. x - 1 \in T
  BY <1>4
<1> QED
  BY <1>3, <1>4, <1>5

LEMMA MaxIsMost ==
  ASSUME NEW S, NEW x \in S, S \subseteq Int, \A y \in S : x >= y
  PROVE  Max(S) = x
<1>1. \E m \in S : \A y \in S : m >= y
  OBVIOUS
<1>2. Max(S) \in S /\ \A y \in S : Max(S) >= y
  BY <1>1, Zenon DEF Max
<1>3. Max(S) >= x /\ x >= Max(S) /\ Max(S) \in Int /\ x \in Int
  BY <1>2
<1> QED
  BY <1>3

LEMMA MaxUpTo ==
  ASSUME NEW n \in Nat, NEW s \in SUBSET (1 .. n), s # {}
  PROVE  Max(s) \in s /\ \A y \in s : Max(s) >= y
<1> DEFINE T == {k \in 0 .. n : s \cap (1 .. k) = {} \/
                   \E x \in s \cap (1 .. k) : \A y \in s \cap (1 .. k) : x >= y}
<1>1. 0 \in T
  OBVIOUS
<1>2. ASSUME NEW k \in 0 .. n - 1, k \in T PROVE k + 1 \in T
  <2>1. CASE k + 1 \in s
    <3>1. \A y \in s \cap (1 .. k + 1) : k + 1 >= y
      OBVIOUS
    <3>2. k + 1 \in s \cap (1 .. k + 1)
      BY <2>1
    <3> QED
      BY <3>1, <3>2
  <2>2. CASE k + 1 \notin s
    <3>1. s \cap (1 .. k + 1) = s \cap (1 .. k)
      BY <2>2
    <3> QED
      BY <3>1, <1>2
  <2> QED
    BY <2>1, <2>2
<1>3. n \in T
  <2> HIDE DEF T
  <2> QED
    BY <1>1, <1>2, UpTo
<1>4. s \cap (1 .. n) = s
  OBVIOUS
<1>5. \E x \in s : \A y \in s : x >= y
  BY <1>3, <1>4
<1> QED
  BY <1>5, Zenon DEF Max

(* The function that FoldLeft defines by recursion is there. *)
Folds(it, G, base, W, n) ==
  \A s \in SUBSET (1 .. n) :
    it[s] = IF s = {} THEN base ELSE G[<<it[s \ {Max(s)}], W[Max(s)]>>]

LEMMA FoldExists ==
  ASSUME NEW T, NEW X, NEW G \in [T \X X -> T], NEW base \in T, NEW W \in Seq(X)
  PROVE  \E it \in [SUBSET (1 .. Len(W)) -> T] : Folds(it, G, base, W, Len(W))
<1> DEFINE N == {n \in 0 .. Len(W) : \E it \in [SUBSET (1 .. n) -> T] : Folds(it, G, base, W, n)}
<1>1. 0 \in N
  <2> DEFINE it == [s \in SUBSET (1 .. 0) |-> base]
  <2>1. \A s \in SUBSET (1 .. 0) : s = {}
    OBVIOUS
  <2>2. it \in [SUBSET (1 .. 0) -> T] /\ Folds(it, G, base, W, 0)
    BY <2>1 DEF Folds
  <2> QED
    BY <2>2
<1>2. ASSUME NEW n \in 0 .. Len(W) - 1, n \in N PROVE n + 1 \in N
  <2>1. PICK f \in [SUBSET (1 .. n) -> T] : Folds(f, G, base, W, n)
    BY <1>2
  <2> DEFINE D == SUBSET (1 .. n + 1)
             val(s) == IF s \subseteq 1 .. n THEN f[s] ELSE G[<<f[s \ {n + 1}], W[n + 1]>>]
             g == [s \in D |-> val(s)]
  <2>2. ASSUME NEW s \in D
        PROVE  \/ s \subseteq 1 .. n
               \/ n + 1 \in s /\ s \ {n + 1} \subseteq 1 .. n /\ Max(s) = n + 1
    <3>1. n + 1 \in s \/ s \subseteq 1 .. n
      OBVIOUS
    <3>2. ASSUME n + 1 \in s PROVE s \ {n + 1} \subseteq 1 .. n /\ Max(s) = n + 1
      <4>1. \A y \in s : n + 1 >= y
        OBVIOUS
      <4>2. s \subseteq Int
        OBVIOUS
      <4>3. Max(s) = n + 1
        BY <3>2, <4>1, <4>2, MaxIsMost, Zenon
      <4> QED
        BY <4>3
    <3> QED
      BY <3>1, <3>2
  <2>3. ASSUME NEW s \in D PROVE val(s) \in T
    <3>1. CASE s \subseteq 1 .. n
      BY <3>1
    <3>2. CASE ~(s \subseteq 1 .. n)
      <4>1. s \ {n + 1} \in SUBSET (1 .. n) /\ n + 1 \in DOMAIN W
        BY <3>2, <2>2
      <4>2. f[s \ {n + 1}] \in T /\ W[n + 1] \in X
        BY <4>1
      <4> QED
        BY <3>2, <4>2
    <3> QED
      BY <3>1, <3>2
  <2>4. g \in [D -> T]
    BY <2>3
  <2>5. ASSUME NEW s \in D
        PROVE  g[s] = IF s = {} THEN base ELSE G[<<g[s \ {Max(s)}], W[Max(s)]>>]
    <3>1. CASE s \subseteq 1 .. n
      <4>1. g[s] = f[s] /\ f[s] = IF s = {} THEN base ELSE G[<<f[s \ {Max(s)}], W[Max(s)]>>]
        BY <3>1, <2>1 DEF Folds
      <4>2. s \ {Max(s)} \in D /\ s \ {Max(s)} \subseteq 1 .. n
        BY <3>1
      <4>3. g[s \ {Max(s)}] = f[s \ {Max(s)}]
        BY <4>2
      <4> HIDE DEF g
      <4> QED
        BY <4>1, <4>3
    <3>2. CASE ~(s \subseteq 1 .. n)
      <4>1. n + 1 \in s /\ s \ {n + 1} \subseteq 1 .. n /\ Max(s) = n + 1
        BY <3>2, <2>2
      <4>2. g[s] = G[<<f[s \ {n + 1}], W[n + 1]>>]
        BY <3>2
      <4>3. g[s \ {n + 1}] = f[s \ {n + 1}]
        BY <4>1
      <4> HIDE DEF g
      <4> QED
        BY <4>1, <4>2, <4>3
    <3> QED
      BY <3>1, <3>2, Zenon
  <2> HIDE DEF g
  <2>6. Folds(g, G, base, W, n + 1)
    BY <2>5, Zenon DEF Folds
  <2>7. n + 1 \in 0 .. Len(W)
    OBVIOUS
  <2> QED
    BY <2>4, <2>6, <2>7
<1>3. Len(W) \in Nat /\ Len(W) \in 0 .. Len(W)
  OBVIOUS
<1> HIDE DEF N
<1>4. Len(W) \in N
  BY <1>1, <1>2, <1>3, UpTo
<1> QED
  BY <1>4 DEF N

(* ... and its values are of the type that they should be of. *)
LEMMA FoldIsTyped ==
  ASSUME NEW T, NEW n \in Nat, NEW it, it[{}] \in T,
         \A s \in SUBSET (1 .. n) : s # {} /\ it[s \ {Max(s)}] \in T => it[s] \in T
  PROVE  \A s \in SUBSET (1 .. n) : it[s] \in T
<1> DEFINE N == {k \in 0 .. n : \A s \in SUBSET (1 .. k) : it[s] \in T}
<1>1. 0 \in N
  <2>1. \A s \in SUBSET (1 .. 0) : s = {}
    OBVIOUS
  <2>2. \A s \in SUBSET (1 .. 0) : it[s] \in T
    BY <2>1, Zenon
  <2> QED
    BY <2>2
<1>2. ASSUME NEW k \in 0 .. n - 1, k \in N PROVE k + 1 \in N
  <2>1. ASSUME NEW s \in SUBSET (1 .. k + 1) PROVE it[s] \in T
    <3>1. CASE s = {}
      BY <3>1
    <3>2. CASE s # {}
      <4>1. s \in SUBSET (1 .. n)
        OBVIOUS
      <4>2. Max(s) \in s /\ \A y \in s : Max(s) >= y
        BY <3>2, <4>1, MaxUpTo, Zenon
      <4>3. s \ {Max(s)} \in SUBSET (1 .. k)
        <5> HIDE DEF N
        <5>1. ASSUME NEW y \in s \ {Max(s)} PROVE y \in 1 .. k
          <6> DEFINE x == Max(s)
          <6>1. x \in 1 .. k + 1 /\ y \in 1 .. k + 1 /\ x >= y /\ y # x
            BY <4>2
          <6> HIDE DEF x
          <6> QED
            BY <6>1
        <5> QED
          BY <5>1
      <4>4. it[s \ {Max(s)}] \in T
        BY <4>3, <1>2
      <4> QED
        BY <3>2, <4>1, <4>4
    <3> QED
      BY <3>1, <3>2
  <2> QED
    BY <2>1
<1> HIDE DEF N
<1>3. n \in N
  BY <1>1, <1>2, UpTo
<1> QED
  BY <1>3 DEF N

(* A fold from the left, step by step. *)
Unrolled(u, G, base, W) ==
  /\ u[0] = base
  /\ \A k \in 1 .. Len(W) : u[k] = G[<<u[k - 1], W[k]>>]

FoldsTo(T, G, base, W, val) ==
  \E u \in [0 .. Len(W) -> T] : Unrolled(u, G, base, W) /\ val = u[Len(W)]

LEMMA FoldUnrolls ==
  ASSUME NEW T, NEW X, NEW G \in [T \X X -> T], NEW base \in T, NEW W \in Seq(X),
         NEW it \in [SUBSET (1 .. Len(W)) -> T], Folds(it, G, base, W, Len(W))
  PROVE  FoldsTo(T, G, base, W, it[1 .. Len(W)])
<1> DEFINE u == [k \in 0 .. Len(W) |-> it[1 .. k]]
<1>1. \A k \in 0 .. Len(W) : 1 .. k \in SUBSET (1 .. Len(W))
  OBVIOUS
<1>2. u \in [0 .. Len(W) -> T]
  BY <1>1
<1>3. u[0] = base
  <2>1. 1 .. 0 = {} /\ {} \in SUBSET (1 .. Len(W)) /\ 0 \in 0 .. Len(W)
    OBVIOUS
  <2>2. it[{}] = base
    BY <2>1, Zenon DEF Folds
  <2> QED
    BY <2>1, <2>2
<1>4. ASSUME NEW k \in 1 .. Len(W) PROVE u[k] = G[<<u[k - 1], W[k]>>]
  <2>1. 1 .. k \in SUBSET (1 .. Len(W)) /\ 1 .. k # {} /\ (1 .. k) \ {k} = 1 .. k - 1
        /\ k \in 0 .. Len(W) /\ k - 1 \in 0 .. Len(W)
    <3> DEFINE n == Len(W)
    <3>1. n \in Nat /\ k \in 1 .. n
      OBVIOUS
    <3> HIDE DEF n
    <3>2. 1 .. k \in SUBSET (1 .. n) /\ 1 .. k # {} /\ (1 .. k) \ {k} = 1 .. k - 1
      <4>1. 1 .. k \subseteq 1 .. n /\ k \in 1 .. k
        BY <3>1
      <4>2. \A y \in 1 .. k : y # k <=> y \in 1 .. k - 1
        BY <3>1
      <4>3. 1 .. k - 1 \subseteq 1 .. k
        BY <3>1
      <4> QED
        BY <4>1, <4>2, <4>3, Zenon
    <3>3. k \in 0 .. n /\ k - 1 \in 0 .. n
      BY <3>1
    <3> QED
      BY <3>2, <3>3 DEF n
  <2>2. Max(1 .. k) = k
    <3>1. k \in 1 .. k /\ 1 .. k \subseteq Int /\ \A y \in 1 .. k : k >= y
      OBVIOUS
    <3> HIDE DEF u
    <3> QED
      BY <3>1, MaxIsMost, Zenon
  <2>3. it[1 .. k] = G[<<it[(1 .. k) \ {Max(1 .. k)}], W[Max(1 .. k)]>>]
    BY <2>1 DEF Folds
  <2>4. it[1 .. k] = G[<<it[1 .. k - 1], W[k]>>]
    BY <2>1, <2>2, <2>3
  <2> QED
    BY <2>1, <2>4
<1>5. it[1 .. Len(W)] = u[Len(W)]
  OBVIOUS
<1> HIDE DEF u
<1> QED
  BY <1>2, <1>3, <1>4, <1>5 DEF Unrolled, FoldsTo

(* A function that folds as long as what it has folded is in T. *)
LEMMA FoldsAre ==
  ASSUME NEW T, NEW X, NEW G \in [T \X X -> T], NEW base \in T, NEW W \in Seq(X), NEW it,
         it = [s \in SUBSET (1 .. Len(W)) |-> it[s]], it[{}] = base,
         \A s \in SUBSET (1 .. Len(W)) :
           s # {} /\ it[s \ {Max(s)}] \in T => it[s] = G[<<it[s \ {Max(s)}], W[Max(s)]>>]
  PROVE  FoldsTo(T, G, base, W, it[1 .. Len(W)])
<1> DEFINE D == SUBSET (1 .. Len(W))
<1>1. Len(W) \in Nat
  OBVIOUS
<1>2. ASSUME NEW s \in D, s # {}, it[s \ {Max(s)}] \in T PROVE it[s] \in T
  <2>1. Max(s) \in s
    BY <1>1, <1>2, MaxUpTo, Zenon
  <2>2. W[Max(s)] \in X
    BY <2>1
  <2>3. it[s] = G[<<it[s \ {Max(s)}], W[Max(s)]>>]
    BY <1>2, Zenon
  <2> QED
    BY <1>2, <2>2, <2>3
<1>3. \A s \in D : it[s] \in T
  <2>1. it[{}] \in T
    OBVIOUS
  <2> QED
    BY <1>1, <1>2, <2>1, FoldIsTyped
<1>4. it \in [D -> T]
  BY <1>3
<1>5. Folds(it, G, base, W, Len(W))
  <2>1. ASSUME NEW s \in D, s # {} PROVE it[s] = G[<<it[s \ {Max(s)}], W[Max(s)]>>]
    <3>1. s \ {Max(s)} \in D
      OBVIOUS
    <3> QED
      BY <2>1, <3>1, <1>3, Zenon
  <2> QED
    BY <2>1, Zenon DEF Folds
<1> QED
  BY <1>4, <1>5, FoldUnrolls

-----------------------------------------------------------------------------
(* Totals. *)

LEMMA TotalUnrolls ==
  ASSUME NEW W \in Seq(Int)
  PROVE  \E u \in [0 .. Len(W) -> Int] :
           u[0] = 0 /\ Total(W) = u[Len(W)] /\ \A k \in 1 .. Len(W) : u[k] = u[k - 1] + W[k]
<1> DEFINE T == Int
           G == [p \in T \X Int |-> p[1] + p[2]]
           D == SUBSET (1 .. Len(W))
           Fold(f) == [x \in D |-> IF x = {} THEN 0 ELSE f[x \ {Max(x)}] + W[Max(x)]]
           it == CHOOSE f : f = Fold(f)
<1>1. G \in [T \X Int -> T] /\ 0 \in T
  OBVIOUS
<1>2. \A a \in T, w \in Int : G[<<a, w>>] = a + w /\ a + w \in T
  OBVIOUS
<1> HIDE DEF G
<1>3. ASSUME NEW x \in D, x # {} PROVE x \ {Max(x)} \in D /\ W[Max(x)] \in Int
  <2>1. x \in SUBSET (1 .. Len(W)) /\ Len(W) \in Nat
    OBVIOUS
  <2>2. Max(x) \in x
    BY <1>3, <2>1, MaxUpTo, Zenon
  <2>3. Max(x) \in 1 .. Len(W)
    BY <2>1, <2>2
  <2>4. W[Max(x)] \in Int
    BY <2>3
  <2>5. x \ {Max(x)} \in D
    BY <2>1, Zenon
  <2> QED
    BY <2>4, <2>5
<1> HIDE DEF T
<1>4. PICK f \in [D -> T] : Folds(f, G, 0, W, Len(W))
  BY <1>1, FoldExists
<1>5. f = Fold(f)
  <2>1. \A x \in D : f[x] = IF x = {} THEN 0 ELSE f[x \ {Max(x)}] + W[Max(x)]
    <3>1. ASSUME NEW x \in D, x # {} PROVE f[x] = f[x \ {Max(x)}] + W[Max(x)]
      <4>1. f[x] = G[<<f[x \ {Max(x)}], W[Max(x)]>>]
        BY <1>4, <3>1 DEF Folds
      <4>2. f[x \ {Max(x)}] \in T /\ W[Max(x)] \in Int
        BY <1>3, <1>4, <3>1
      <4> QED
        BY <4>1, <4>2, <1>2, Zenon
    <3>2. ASSUME NEW x \in D, x = {} PROVE f[x] = 0
      BY <1>4, <3>2 DEF Folds
    <3> QED
      BY <3>1, <3>2, Zenon
  <2>2. f = [x \in D |-> f[x]]
    BY <1>4
  <2> QED
    BY <2>1, <2>2, Zenon
<1> HIDE DEF D
<1>6. it = Fold(it)
  BY <1>5, Zenon
<1> HIDE DEF it
<1>7. \A x \in D : it[x] = IF x = {} THEN 0 ELSE it[x \ {Max(x)}] + W[Max(x)]
  BY <1>6, Zenon
<1>8. ASSUME NEW x \in D, x # {}, it[x \ {Max(x)}] \in T
      PROVE  it[x] = G[<<it[x \ {Max(x)}], W[Max(x)]>>]
  BY <1>2, <1>3, <1>7, <1>8, Zenon
<1>9. it[{}] = 0
  <2>1. {} \in D
    BY DEF D
  <2> QED
    BY <2>1, <1>7, Zenon
<1> HIDE DEF Fold
<1>10. PICK u \in [0 .. Len(W) -> T] :
         Unrolled(u, G, 0, W) /\ it[1 .. Len(W)] = u[Len(W)]
  <2>1. it = [x \in SUBSET (1 .. Len(W)) |-> it[x]]
    BY <1>6 DEF Fold, D
  <2>2. FoldsTo(T, G, 0, W, it[1 .. Len(W)])
    BY <1>1, <1>8, <1>9, <2>1, FoldsAre DEF D
  <2> QED
    BY <2>2, Zenon DEF FoldsTo
<1>11. Total(W) = it[1 .. Len(W)]
  <2>1. DOMAIN W = 1 .. Len(W)
    OBVIOUS
  <2> QED
    BY <2>1 DEF Total, FoldLeft, MapThenFoldSet, it, D, Fold
<1>12. ASSUME NEW k \in 1 .. Len(W) PROVE u[k] = u[k - 1] + W[k]
  <2>1. k - 1 \in 0 .. Len(W) /\ W[k] \in Int
    OBVIOUS
  <2>2. u[k - 1] \in T /\ W[k] \in Int
    BY <1>10, <2>1, Zenon
  <2>3. u[k] = G[<<u[k - 1], W[k]>>]
    BY <1>10, Zenon DEF Unrolled
  <2> QED
    BY <1>2, <2>2, <2>3, Zenon
<1> QED
  BY <1>10, <1>11, <1>12 DEF Unrolled, T

(* The total of the numbers s[1] to s[n], and the sums on the way to it. *)
Sums(u, s, n) == u[0] = 0 /\ \A k \in 1 .. n : u[k] = u[k - 1] + s[k]

LEMMA TotalSums ==
  ASSUME NEW n \in Nat, NEW s \in [1 .. n -> Int]
  PROVE  \E u \in [0 .. n -> Int] : Sums(u, s, n) /\ Total(s) = u[n]
<1>1. s \in Seq(Int) /\ Len(s) = n
  OBVIOUS
<1>2. \E u \in [0 .. Len(s) -> Int] :
        u[0] = 0 /\ Total(s) = u[Len(s)] /\ \A k \in 1 .. Len(s) : u[k] = u[k - 1] + s[k]
  BY <1>1, TotalUnrolls
<1> QED
  BY <1>1, <1>2, Zenon DEF Sums

(* One term changes. *)
LEMMA TotalChanged ==
  ASSUME NEW n \in Nat, NEW s \in [1 .. n -> Int], NEW t \in [1 .. n -> Int], NEW k \in 1 .. n,
         \A j \in 1 .. n : j # k => t[j] = s[j]
  PROVE  Total(t) = Total(s) + (t[k] - s[k])
<1>1. PICK u \in [0 .. n -> Int] : Sums(u, s, n) /\ Total(s) = u[n]
  BY TotalSums, Zenon
<1>2. PICK v \in [0 .. n -> Int] : Sums(v, t, n) /\ Total(t) = v[n]
  BY TotalSums, Zenon
<1> DEFINE N == {j \in 0 .. n : v[j] = u[j] + IF j < k THEN 0 ELSE t[k] - s[k]}
<1>3. 0 \in N
  BY <1>1, <1>2 DEF Sums
<1>4. ASSUME NEW j \in 0 .. n - 1, j \in N PROVE j + 1 \in N
  <2>1. j + 1 \in 1 .. n /\ (j + 1) - 1 = j /\ s[j + 1] \in Int /\ t[j + 1] \in Int
        /\ u[j] \in Int /\ s[k] \in Int /\ t[k] \in Int /\ v[j] \in Int
    OBVIOUS
  <2>2. u[j + 1] = u[j] + s[j + 1] /\ v[j + 1] = v[j] + t[j + 1]
    BY <2>1, <1>1, <1>2 DEF Sums
  <2>3. v[j] = u[j] + IF j < k THEN 0 ELSE t[k] - s[k]
    BY <1>4
  <2>4. j + 1 # k => t[j + 1] = s[j + 1]
    BY <2>1
  <2> HIDE DEF N
  <2>5. v[j + 1] = u[j + 1] + IF j + 1 < k THEN 0 ELSE t[k] - s[k]
    <3>1. CASE j + 1 = k
      <4>1. v[j] = u[j] /\ ~(j + 1 < k)
        BY <3>1, <2>3
      <4>2. v[k] = u[j] + t[k] /\ u[k] = u[j] + s[k]
        BY <4>1, <3>1, <2>2, Zenon
      <4> DEFINE a == u[j] b == s[k] c == t[k] d == u[k] e == v[k]
      <4>3. a \in Int /\ b \in Int /\ c \in Int /\ e = a + c /\ d = a + b
        BY <4>2, <2>1
      <4> HIDE DEF a, b, c, d, e
      <4>4. e = d + (c - b)
        BY <4>3
      <4>5. v[k] = u[k] + (t[k] - s[k])
        BY <4>4, Zenon DEF b, c, d, e
      <4> QED
        BY <3>1, <4>1, <4>5
    <3>2. CASE j + 1 # k
      <4>1. j + 1 < k <=> j < k
        BY <3>2
      <4>2. CASE j < k
        BY <4>1, <4>2, <3>2, <2>1, <2>2, <2>3, <2>4
      <4>3. CASE ~(j < k)
        <5>1. v[j] = u[j] + (t[k] - s[k]) /\ t[j + 1] = s[j + 1]
          BY <4>3, <3>2, <2>3, <2>4
        <5> DEFINE a == u[j] b == s[j + 1] c == t[k] d == s[k] e == v[j + 1] f == u[j + 1]
        <5>2. /\ a \in Int /\ b \in Int /\ c \in Int /\ d \in Int
              /\ f = a + b /\ e = (a + (c - d)) + b
          BY <5>1, <2>1, <2>2
        <5> HIDE DEF a, b, c, d, e, f
        <5>3. e = f + (c - d)
          BY <5>2
        <5>4. v[j + 1] = u[j + 1] + (t[k] - s[k])
          BY <5>3, Zenon DEF c, d, e, f
        <5> QED
          BY <4>1, <4>3, <5>4
      <4> QED
        BY <4>2, <4>3
    <3> QED
      BY <3>1, <3>2
  <2> QED
    BY <2>1, <2>5 DEF N
<1> HIDE DEF N
<1>5. n \in N
  <2>1. n \in 0 .. n
    OBVIOUS
  <2> QED
    BY <1>3, <1>4, <2>1, UpTo
<1> QED
  BY <1>1, <1>2, <1>5 DEF N

(* One term is taken out. *)
LEMMA TotalRemoved ==
  ASSUME NEW n \in Nat, NEW s \in [1 .. n + 1 -> Int], NEW t \in [1 .. n -> Int],
         NEW k \in 1 .. n + 1, \A j \in 1 .. n : t[j] = IF j < k THEN s[j] ELSE s[j + 1]
  PROVE  Total(t) = Total(s) - s[k]
<1>1. PICK u \in [0 .. n + 1 -> Int] : Sums(u, s, n + 1) /\ Total(s) = u[n + 1]
  <2>1. n + 1 \in Nat
    OBVIOUS
  <2> QED
    BY <2>1, TotalSums, Zenon
<1>2. PICK v \in [0 .. n -> Int] : Sums(v, t, n) /\ Total(t) = v[n]
  BY TotalSums, Zenon
<1> DEFINE N == {j \in 0 .. n : IF j < k THEN u[j] = v[j] ELSE u[j + 1] = v[j] + s[k]}
<1>3. 0 \in N
  BY <1>1, <1>2 DEF Sums
<1>4. ASSUME NEW j \in 0 .. n - 1, j \in N PROVE j + 1 \in N
  <2>1. /\ j + 1 \in 1 .. n + 1 /\ j + 2 \in 1 .. n + 1 /\ (j + 1) - 1 = j /\ (j + 2) - 1 = j + 1
        /\ j + 1 \in 1 .. n /\ j \in 0 .. n /\ (j + 1) + 1 = j + 2
    OBVIOUS
  <2>2. /\ s[j + 1] \in Int /\ s[j + 2] \in Int /\ s[k] \in Int /\ t[j + 1] \in Int
        /\ u[j] \in Int /\ v[j] \in Int
    BY <2>1
  <2>3. u[j + 1] = u[j] + s[j + 1] /\ v[j + 1] = v[j] + t[j + 1] /\ u[j + 2] = u[j + 1] + s[j + 2]
    BY <2>1, <1>1, <1>2 DEF Sums
  <2>4. t[j + 1] = IF j + 1 < k THEN s[j + 1] ELSE s[j + 2]
    BY <2>1
  <2>5. IF j < k THEN u[j] = v[j] ELSE u[j + 1] = v[j] + s[k]
    BY <1>4
  <2> HIDE DEF N
  <2>6. IF j + 1 < k THEN u[j + 1] = v[j + 1] ELSE u[j + 2] = v[j + 1] + s[k]
    <3>1. CASE j + 1 < k
      BY <3>1, <2>1, <2>2, <2>3, <2>4, <2>5
    <3>2. CASE ~(j + 1 < k)
      <4>1. t[j + 1] = s[j + 2] /\ (j < k => k = j + 1)
        BY <3>2, <2>4
      <4>2. u[j + 1] = v[j] + s[k]
        <5>1. CASE j < k
          <6>1. u[j] = v[j] /\ k = j + 1
            BY <5>1, <4>1, <2>5
          <6> QED
            BY <6>1, <2>3, Zenon
        <5> QED
          BY <5>1, <2>5
      <4> DEFINE a == v[j] b == s[k] c == s[j + 2] d == u[j + 2] e == v[j + 1]
      <4>3. a \in Int /\ b \in Int /\ c \in Int /\ e = a + c /\ d = (a + b) + c
        BY <4>1, <4>2, <2>2, <2>3
      <4> HIDE DEF a, b, c, d, e
      <4>4. d = e + b
        BY <4>3
      <4>5. u[j + 2] = v[j + 1] + s[k]
        BY <4>4, Zenon DEF b, d, e
      <4> QED
        BY <3>2, <4>5
    <3> QED
      BY <3>1, <3>2
  <2>7. IF j + 1 < k THEN u[j + 1] = v[j + 1] ELSE u[(j + 1) + 1] = v[j + 1] + s[k]
    BY <2>1, <2>6
  <2> QED
    BY <2>1, <2>7 DEF N
<1> HIDE DEF N
<1>5. n \in N
  <2>1. n \in 0 .. n
    OBVIOUS
  <2> QED
    BY <1>3, <1>4, <2>1, UpTo
<1>6. IF n < k THEN u[n] = v[n] ELSE u[n + 1] = v[n] + s[k]
  BY <1>5 DEF N
<1>7. u[n + 1] = u[n] + s[n + 1] /\ u[n] \in Int /\ s[n + 1] \in Int /\ s[k] \in Int /\ v[n] \in Int
  BY <1>1 DEF Sums
<1>8. n < k => k = n + 1
  OBVIOUS
<1>9. CASE n < k
  BY <1>9, <1>1, <1>2, <1>6, <1>7, <1>8
<1>10. CASE ~(n < k)
  BY <1>10, <1>1, <1>2, <1>6, <1>7
<1> QED
  BY <1>9, <1>10

(* One term is added. *)
LEMMA TotalAdded ==
  ASSUME NEW n \in Nat, NEW s \in [1 .. n -> Int], NEW t \in [1 .. n + 1 -> Int],
         \A j \in 1 .. n : t[j] = s[j]
  PROVE  Total(t) = Total(s) + t[n + 1]
<1>1. n + 1 \in 1 .. n + 1 /\ \A j \in 1 .. n : s[j] = IF j < n + 1 THEN t[j] ELSE t[j + 1]
  OBVIOUS
<1>2. Total(s) = Total(t) - t[n + 1]
  BY <1>1, TotalRemoved
<1>3. Total(t) \in Int /\ t[n + 1] \in Int
  <2>1. n + 1 \in Nat
    OBVIOUS
  <2>2. PICK u \in [0 .. n + 1 -> Int] : Sums(u, t, n + 1) /\ Total(t) = u[n + 1]
    BY <2>1, TotalSums, Zenon
  <2> QED
    BY <2>2
<1> QED
  BY <1>2, <1>3

(* Terms that are 0 are left away. *)
LEMMA TotalBegun ==
  ASSUME NEW n \in Nat, NEW m \in 0 .. n, NEW s \in [1 .. n -> Int], NEW t \in [1 .. m -> Int],
         \A j \in 1 .. m : t[j] = s[j], \A j \in 1 .. n : j > m => s[j] = 0
  PROVE  Total(s) = Total(t)
<1>1. PICK u \in [0 .. n -> Int] : Sums(u, s, n) /\ Total(s) = u[n]
  BY TotalSums, Zenon
<1>2. PICK v \in [0 .. m -> Int] : Sums(v, t, m) /\ Total(t) = v[m]
  <2>1. m \in Nat
    OBVIOUS
  <2> QED
    BY <2>1, TotalSums, Zenon
<1> DEFINE N == {j \in 0 .. n : u[j] = IF j < m THEN v[j] ELSE v[m]}
<1>3. 0 \in N
  BY <1>1, <1>2 DEF Sums
<1>4. ASSUME NEW j \in 0 .. n - 1, j \in N PROVE j + 1 \in N
  <2>1. j + 1 \in 1 .. n /\ (j + 1) - 1 = j /\ u[j] \in Int /\ j + 1 \in 0 .. n
    OBVIOUS
  <2>2. u[j + 1] = u[j] + s[j + 1] /\ u[j] = IF j < m THEN v[j] ELSE v[m]
    BY <2>1, <1>1, <1>4 DEF Sums
  <2> HIDE DEF N
  <2>3. u[j + 1] = IF j + 1 < m THEN v[j + 1] ELSE v[m]
    <3>1. CASE j < m
      <4>1. j + 1 \in 1 .. m
        BY <3>1
      <4>2. v[j + 1] = v[j] + t[j + 1] /\ t[j + 1] = s[j + 1]
        BY <2>1, <4>1, <1>2 DEF Sums
      <4>3. u[j + 1] = v[j + 1]
        BY <3>1, <2>2, <4>2
      <4>4. j + 1 < m \/ j + 1 = m
        BY <4>1
      <4> QED
        BY <4>3, <4>4
    <3>2. CASE ~(j < m)
      <4>1. s[j + 1] = 0 /\ ~(j + 1 < m)
        BY <2>1, <3>2
      <4> QED
        BY <4>1, <3>2, <2>1, <2>2
    <3> QED
      BY <3>1, <3>2
  <2> QED
    BY <2>1, <2>3 DEF N
<1> HIDE DEF N
<1>5. n \in N
  <2>1. n \in 0 .. n
    OBVIOUS
  <2> QED
    BY <1>3, <1>4, <2>1, UpTo
<1>6. u[n] = v[m]
  BY <1>5 DEF N
<1> QED
  BY <1>1, <1>2, <1>6

LEMMA TotalType ==
  ASSUME NEW n \in Nat, NEW s \in [1 .. n -> Int]
  PROVE  Total(s) \in Int
<1>1. PICK u \in [0 .. n -> Int] : Sums(u, s, n) /\ Total(s) = u[n]
  BY TotalSums, Zenon
<1> QED
  BY <1>1

LEMMA TotalNone ==
  ASSUME NEW n \in Nat, NEW s \in [1 .. n -> Int], \A j \in 1 .. n : s[j] = 0
  PROVE  Total(s) = 0
<1>1. PICK u \in [0 .. n -> Int] : Sums(u, s, n) /\ Total(s) = u[n]
  BY TotalSums, Zenon
<1> DEFINE N == {j \in 0 .. n : u[j] = 0}
<1>2. 0 \in N
  BY <1>1 DEF Sums
<1>3. ASSUME NEW j \in 0 .. n - 1, j \in N PROVE j + 1 \in N
  <2>1. j + 1 \in 1 .. n /\ (j + 1) - 1 = j /\ j + 1 \in 0 .. n
    OBVIOUS
  <2>2. u[j + 1] = u[j] + s[j + 1]
    BY <2>1, <1>1 DEF Sums
  <2>3. u[j] = 0 /\ s[j + 1] = 0
    BY <1>3, <2>1
  <2> QED
    BY <2>1, <2>2, <2>3
<1> HIDE DEF N
<1>4. n \in N
  <2>1. n \in 0 .. n
    OBVIOUS
  <2> QED
    BY <1>2, <1>3, <2>1, UpTo
<1> QED
  BY <1>1, <1>4 DEF N

(* Some of the terms grow by 1. *)
Marked(s, t, R, n) == \A j \in 1 .. n : t[j] = s[j] + IF j \in R THEN 1 ELSE 0

LEMMA TotalMarked ==
  ASSUME NEW n \in Nat, NEW s \in [1 .. n -> Int], NEW t \in [1 .. n -> Int],
         NEW R \in SUBSET (1 .. n), Marked(s, t, R, n)
  PROVE  IsFiniteSet(R) /\ Cardinality(R) \in Nat /\ Total(t) = Total(s) + Cardinality(R)
<1>1. PICK u \in [0 .. n -> Int] : Sums(u, s, n) /\ Total(s) = u[n]
  BY TotalSums, Zenon
<1>2. PICK v \in [0 .. n -> Int] : Sums(v, t, n) /\ Total(t) = v[n]
  BY TotalSums, Zenon
<1> DEFINE S(j) == R \cap (1 .. j)
           N == {j \in 0 .. n : IsFiniteSet(S(j)) /\ v[j] = u[j] + Cardinality(S(j))}
<1>3. 0 \in N
  <2>1. S(0) = {}
    OBVIOUS
  <2>2. IsFiniteSet(S(0)) /\ Cardinality(S(0)) = 0
    BY <2>1, FS_EmptySet
  <2> QED
    BY <2>2, <1>1, <1>2 DEF Sums
<1>4. ASSUME NEW j \in 0 .. n - 1, j \in N PROVE j + 1 \in N
  <2>1. j + 1 \in 1 .. n /\ (j + 1) - 1 = j /\ j + 1 \in 0 .. n
    OBVIOUS
  <2>2. s[j + 1] \in Int /\ t[j + 1] \in Int /\ u[j] \in Int /\ v[j] \in Int
    BY <2>1
  <2>3. u[j + 1] = u[j] + s[j + 1] /\ v[j + 1] = v[j] + t[j + 1]
    BY <2>1, <1>1, <1>2 DEF Sums
  <2>4. IsFiniteSet(S(j)) /\ v[j] = u[j] + Cardinality(S(j))
    BY <1>4
  <2>5. t[j + 1] = s[j + 1] + IF j + 1 \in R THEN 1 ELSE 0
    BY <2>1 DEF Marked
  <2>6. S(j + 1) = IF j + 1 \in R THEN S(j) \cup {j + 1} ELSE S(j)
    <3>1. 1 .. j + 1 = (1 .. j) \cup {j + 1}
      <4>1. \A i \in 1 .. j + 1 : i \in 1 .. j \/ i = j + 1
        BY <2>1
      <4>2. (\A i \in 1 .. j : i \in 1 .. j + 1) /\ j + 1 \in 1 .. j + 1
        BY <2>1
      <4> QED
        BY <4>1, <4>2, Zenon
    <3> QED
      BY <3>1
  <2>7. j + 1 \notin S(j)
    BY <2>1
  <2> HIDE DEF N, S
  <2>8. IsFiniteSet(S(j) \cup {j + 1}) /\ Cardinality(S(j) \cup {j + 1}) = Cardinality(S(j)) + 1
        /\ Cardinality(S(j)) \in Nat
    BY <2>4, <2>7, FS_AddElement, FS_CardinalityType
  <2>9. IsFiniteSet(S(j + 1)) /\ v[j + 1] = u[j + 1] + Cardinality(S(j + 1))
    <3>1. CASE j + 1 \in R
      <4> DEFINE old == Cardinality(S(j))
                 new == Cardinality(S(j + 1))
      <4>1. new = old + 1 /\ old \in Nat /\ IsFiniteSet(S(j + 1))
        BY <3>1, <2>6, <2>8
      <4>2. t[j + 1] = s[j + 1] + 1 /\ v[j] = u[j] + old
        BY <3>1, <2>4, <2>5
      <4> HIDE DEF old, new
      <4>3. v[j + 1] = u[j + 1] + new
        <5> DEFINE a == v[j]
                   b == u[j]
                   c == s[j + 1]
                   d == t[j + 1]
        <5>1. a \in Int /\ b \in Int /\ c \in Int /\ d = c + 1 /\ a = b + old
          BY <4>2, <2>2
        <5>2. v[j + 1] = a + d /\ u[j + 1] = b + c
          BY <2>3
        <5> HIDE DEF a, b, c, d
        <5>3. a + d = (b + c) + new
          BY <4>1, <5>1
        <5> QED
          BY <5>2, <5>3, Zenon
      <4> QED
        BY <4>1, <4>3 DEF new
    <3>2. CASE j + 1 \notin R
      <4>1. S(j + 1) = S(j) /\ t[j + 1] = s[j + 1] + 0
        BY <3>2, <2>5, <2>6
      <4> QED
        BY <4>1, <2>2, <2>3, <2>4, <2>8
    <3> QED
      BY <3>1, <3>2
  <2> QED
    BY <2>1, <2>9 DEF N
<1>5. S(n) = R
  OBVIOUS
<1> HIDE DEF N, S
<1>6. n \in N
  <2>1. n \in 0 .. n
    OBVIOUS
  <2> QED
    BY <1>3, <1>4, <2>1, UpTo
<1>7. IsFiniteSet(R) /\ v[n] = u[n] + Cardinality(R)
  BY <1>5, <1>6, Zenon DEF N
<1> QED
  BY <1>1, <1>2, <1>7, FS_CardinalityType

-----------------------------------------------------------------------------
(* Sequences. *)

LEMMA AppendedTo ==
  ASSUME NEW X, NEW s \in Seq(X), NEW x \in X
  PROVE  /\ Append(s, x) \in Seq(X) /\ DOMAIN Append(s, x) = DOMAIN s \cup {Len(s) + 1}
         /\ Len(Append(s, x)) = Len(s) + 1 /\ Len(s) \in Nat
         /\ \A n \in DOMAIN s : n # Len(s) + 1 /\ Append(s, x)[n] = s[n]
         /\ Append(s, x)[Len(s) + 1] = x
OBVIOUS

LEMMA RemovedAt ==
  ASSUME NEW X, NEW s \in Seq(X), NEW k \in DOMAIN s
  PROVE  /\ RemoveAt(s, k) \in Seq(X)
         /\ DOMAIN RemoveAt(s, k) = 1 .. Len(s) - 1
         /\ Len(RemoveAt(s, k)) = Len(s) - 1
         /\ \A n \in 1 .. Len(s) - 1 : RemoveAt(s, k)[n] = IF n < k THEN s[n] ELSE s[n + 1]
<1> DEFINE a == SubSeq(s, 1, k - 1)
           b == SubSeq(s, k + 1, Len(s))
<1>1. k \in 1 .. Len(s) /\ Len(s) \in Nat
  OBVIOUS
<1>2. a \in Seq(X) /\ Len(a) = k - 1 /\ \A n \in 1 .. k - 1 : a[n] = s[n]
  BY <1>1
<1>3. b \in Seq(X) /\ Len(b) = Len(s) - k /\ \A n \in 1 .. Len(s) - k : b[n] = s[k + n]
  BY <1>1
<1>4. RemoveAt(s, k) = a \o b
  BY DEF RemoveAt
<1> HIDE DEF a, b
<1>5. /\ a \o b \in Seq(X) /\ Len(a \o b) = Len(s) - 1
      /\ \A n \in 1 .. Len(s) - 1 :
           (a \o b)[n] = IF n <= k - 1 THEN a[n] ELSE b[n - (k - 1)]
  <2>1. Len(a) + Len(b) = Len(s) - 1
    BY <1>1, <1>2, <1>3
  <2>2. /\ a \o b \in Seq(X) /\ Len(a \o b) = Len(a) + Len(b)
        /\ \A n \in 1 .. Len(a) + Len(b) :
             (a \o b)[n] = IF n <= Len(a) THEN a[n] ELSE b[n - Len(a)]
    BY <1>2, <1>3
  <2> HIDE DEF a, b
  <2> QED
    BY <1>2, <2>1, <2>2
<1>6. ASSUME NEW n \in 1 .. Len(s) - 1
      PROVE  (a \o b)[n] = IF n < k THEN s[n] ELSE s[n + 1]
  <2>1. CASE n < k
    BY <2>1, <1>1, <1>2, <1>5
  <2>2. CASE ~(n < k)
    <3> DEFINE i == n - (k - 1)
    <3>1. i \in 1 .. Len(s) - k /\ k + i = n + 1 /\ ~(n <= k - 1)
      BY <2>2, <1>1
    <3>2. (a \o b)[n] = b[i]
      BY <3>1, <1>5
    <3> HIDE DEF i
    <3>3. b[i] = s[k + i]
      BY <3>1, <1>3
    <3> QED
      BY <2>2, <3>1, <3>2, <3>3, Zenon
  <2> QED
    BY <2>1, <2>2, Zenon
<1>7. DOMAIN (a \o b) = 1 .. Len(s) - 1
  BY <1>5
<1> QED
  BY <1>4, <1>5, <1>6, <1>7

(* Where the entries of a sequence without its kth come from. *)
At(n, k) == IF n < k THEN n ELSE n + 1

LEMMA RemovedFrom ==
  ASSUME NEW X, NEW s \in Seq(X), NEW k \in DOMAIN s
  PROVE  LET r == RemoveAt(s, k) IN
         /\ r \in Seq(X) /\ Len(s) \in Nat /\ k \in 1 .. Len(s)
         /\ \A n \in DOMAIN r : At(n, k) \in DOMAIN s /\ At(n, k) # k /\ r[n] = s[At(n, k)]
         /\ \A m, n \in DOMAIN r : At(m, k) = At(n, k) => m = n
         /\ \A j \in DOMAIN s : j # k => \E n \in DOMAIN r : At(n, k) = j
<1> DEFINE r == RemoveAt(s, k)
           len == Len(s)
<1>1. /\ r \in Seq(X) /\ DOMAIN r = 1 .. len - 1
      /\ \A n \in 1 .. len - 1 : r[n] = IF n < k THEN s[n] ELSE s[n + 1]
  BY RemovedAt
<1>2. len \in Nat /\ DOMAIN s = 1 .. len /\ k \in 1 .. len
  OBVIOUS
<1> HIDE DEF r, len
<1>3. ASSUME NEW n \in 1 .. len - 1
      PROVE  At(n, k) \in DOMAIN s /\ At(n, k) # k /\ r[n] = s[At(n, k)]
  BY <1>1, <1>2 DEF At
<1>4. \A m, n \in 1 .. len - 1 : At(m, k) = At(n, k) => m = n
  BY <1>2 DEF At
<1>5. ASSUME NEW j \in DOMAIN s, j # k
      PROVE  \E n \in 1 .. len - 1 : At(n, k) = j
  <2>1. CASE j < k
    <3>1. j \in 1 .. len - 1 /\ At(j, k) = j
      BY <2>1, <1>2 DEF At
    <3> QED
      BY <3>1
  <2>2. CASE ~(j < k)
    <3>1. j - 1 \in 1 .. len - 1 /\ ~(j - 1 < k) /\ (j - 1) + 1 = j
      BY <2>2, <1>2, <1>5
    <3>2. At(j - 1, k) = j
      BY <3>1 DEF At
    <3> QED
      BY <3>1, <3>2
  <2> QED
    BY <2>1, <2>2
<1> QED
  BY <1>1, <1>2, <1>3, <1>4, <1>5 DEF r, len

(* One entry is replaced. *)
LEMMA ReplacedIn ==
  ASSUME NEW X, NEW W \in Seq(X), NEW k \in DOMAIN W, NEW w \in X
  PROVE  LET V == [W EXCEPT ![k] = w] IN
         /\ V \in Seq(X) /\ DOMAIN V = DOMAIN W /\ Len(V) = Len(W) /\ V[k] = w
         /\ \A j \in DOMAIN W : j # k => V[j] = W[j]
OBVIOUS

(* The elements of a finite set, each once. *)
LEMMA Listed ==
  ASSUME NEW S, IsFiniteSet(S)
  PROVE  /\ SetToSeq(S) \in Seq(S) /\ IsInjective(SetToSeq(S))
<1>1. Cardinality(S) \in Nat /\ ExistsBijection(1 .. Cardinality(S), S)
  BY FS_CardinalityType
<1>2. \E f \in [1 .. Cardinality(S) -> S] : IsInjective(f)
  BY <1>1, Zenon DEF ExistsBijection, Bijection, Injection
<1>3. SetToSeq(S) \in [1 .. Cardinality(S) -> S] /\ IsInjective(SetToSeq(S))
  BY <1>2, Zenon DEF SetToSeq
<1> QED
  BY <1>1, <1>3

LEMMA Joined ==
  ASSUME NEW X, NEW s \in Seq(X), NEW t \in Seq(X), IsInjective(s), IsInjective(t),
         Range(s) \cap Range(t) = {}
  PROVE  /\ s \o t \in Seq(X) /\ IsInjective(s \o t)
         /\ Range(s \o t) = Range(s) \cup Range(t)
<1> DEFINE m == Len(s)
           n == Len(t)
           r == s \o t
<1>1. /\ m \in Nat /\ n \in Nat /\ DOMAIN s = 1 .. m /\ DOMAIN t = 1 .. n
      /\ r \in Seq(X) /\ DOMAIN r = 1 .. m + n
      /\ \A i \in 1 .. m + n : r[i] = IF i =< m THEN s[i] ELSE t[i - m]
  OBVIOUS
<1> HIDE DEF m, n, r
<1>2. ASSUME NEW i \in 1 .. m + n, i =< m
      PROVE  i \in DOMAIN s /\ r[i] = s[i] /\ r[i] \in Range(s)
  <2>1. i \in DOMAIN s /\ r[i] = s[i]
    BY <1>1, <1>2
  <2> QED
    BY <2>1 DEF Range
<1>3. ASSUME NEW i \in 1 .. m + n, ~(i =< m)
      PROVE  i - m \in DOMAIN t /\ r[i] = t[i - m] /\ r[i] \in Range(t)
  <2>1. i - m \in DOMAIN t /\ r[i] = t[i - m]
    BY <1>1, <1>3
  <2> QED
    BY <2>1 DEF Range
<1>4. IsInjective(r)
  <2>1. ASSUME NEW i \in 1 .. m + n, NEW j \in 1 .. m + n, r[i] = r[j] PROVE i = j
    <3>1. i =< m <=> j =< m
      BY <1>2, <1>3, <2>1
    <3>2. CASE i =< m
      BY <3>1, <3>2, <1>2, <2>1 DEF IsInjective
    <3>3. CASE ~(i =< m)
      <4>1. i - m = j - m
        BY <3>1, <3>3, <1>3, <2>1 DEF IsInjective
      <4> QED
        BY <4>1, <1>1
    <3> QED
      BY <3>2, <3>3
  <2> QED
    BY <2>1, <1>1 DEF IsInjective
<1>5. Range(r) = Range(s) \cup Range(t)
  <2>1. Range(r) \subseteq Range(s) \cup Range(t)
    BY <1>1, <1>2, <1>3 DEF Range
  <2>2. ASSUME NEW i \in DOMAIN s PROVE s[i] \in Range(r)
    <3>1. i \in DOMAIN r /\ r[i] = s[i]
      BY <1>1
    <3> QED
      BY <3>1 DEF Range
  <2>3. ASSUME NEW i \in DOMAIN t PROVE t[i] \in Range(r)
    <3>1. i + m \in 1 .. m + n /\ ~(i + m =< m) /\ (i + m) - m = i
      BY <1>1
    <3>2. i + m \in DOMAIN r /\ r[i + m] = t[i]
      BY <3>1, <1>1
    <3> QED
      BY <3>2 DEF Range
  <2> QED
    BY <2>1, <2>2, <2>3 DEF Range
<1> QED
  BY <1>1, <1>4, <1>5 DEF r
=============================================================================
