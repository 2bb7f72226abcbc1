----------------------------- MODULE MWExamples -----------------------------
(***************************************************************************)
(* The applications of the repository: for each, what its driver, worker   *)
(* and task pack and read, its tasks, what the worker makes of one and     *)
(* what the driver makes of the results.                                   *)
(*                                                                         *)
(*   pyphi     the Python driver and worker of src/                        *)
(*   fib       mw-src/examples/fib                                         *)
(*   nqueens   mw-src/examples/n-queens                                    *)
(*   matmul    mw-src/examples/matmul                                      *)
(*   largest   mw-src/examples/newskel, the skeleton of a new application  *)
(*   blackbox  mw-src/src/BlackBox                                         *)
(*   user      any application of a user, that packs one item and has it   *)
(*             sent back                                                   *)
(*                                                                         *)
(* What is read comes in reads, each with its count; the XxxReads operators*)
(* give those that the values read so far (acc, one sequence for each      *)
(* read) determine.                                                        *)
(***************************************************************************)
EXTENDS MWWire

CONSTANTS
  Cuts,                 \* pyphi: how many cuts there are
  MaxSeedNum, SeqLen,   \* fib: its input
  BoardSize,            \* nqueens: N
  RowsA, RowsB, ColsB,  \* matmul: the dimensions
  Job, TaskSize,        \* largest: the numbers, and how many make a task
  UserItems             \* user: the items, one an application

ASSUME CutsAreNatural == Cuts \in Nat
ASSUME FibInput == MaxSeedNum \in Nat /\ SeqLen \in Nat \ {0, 1}
ASSUME MatmulInput == RowsA \in 1..100 /\ RowsB \in Nat /\ ColsB \in Nat
ASSUME LargestInput == Job # <<>> /\ TaskSize \in Nat \ {0}

Unit == 10000000  \* 1.0
NoTask == <<>>
OneInt == <<Read("INT", 1)>>
TwoInts == OneInt \o OneInt
ThreeInts == OneInt \o TwoInts

-----------------------------------------------------------------------------
(* pyphi.  An object is a number: 0 the user's worker object, c a cut, and   *)
(* 10 + c what the worker's run() returns for it.  The pickle of the worker, *)
(* an instance of a class, has newlines.                                     *)

RunOf(c) == 10 + c
PyObject == {0} \cup 1..Cuts \cup {RunOf(c) : c \in 1..Cuts}
PackPickle(o) == <<<<o, 1>>, IF o = 0 THEN Blank ELSE <<o, 2>>>> \o [i \in 1..(o % 10) |-> <<o, 2 + i>>]
(* What it cannot read, it raises an exception about: NULL. *)
UnpackPickle(s) ==
  IF \E o \in PyObject : PackPickle(o) = s
  THEN CHOOSE o \in PyObject : PackPickle(o) = s
  ELSE Garbage

PackPyObject(o) == <<Num(Len(PackPickle(o))), Chars(PackPickle(o))>>
UnpackPyObject(acc) ==
  OneInt \o (IF acc = <<>> THEN <<>> ELSE <<Read("CHAR", Count(acc[1][1]))>>)

PyphiInit == PackPyObject(0)
PyphiInitReads(acc) == UnpackPyObject(acc)
PyphiTasks == [i \in 1..Cuts |-> i]
UsePickle(worker, job) == IF worker = 0 /\ job \in 1..Cuts THEN RunOf(job) ELSE Garbage
PyphiExecute(init, work) == UsePickle(UnpackPickle(init[2]), UnpackPickle(work[2]))
PyphiAct(results, result) == Append(results, UnpackPickle(result[2]))

-----------------------------------------------------------------------------
(* fib: the pairs 1 <= first <= second <= MaxSeedNum, row by row. *)

FibInit == <<Text(<<"Gettowork">>)>>
FibInitReads(acc) == <<Read("STRING", 1)>>
FibTasks ==
  [i \in 1..((MaxSeedNum * (MaxSeedNum + 1)) \div 2) |->
     LET first == CHOOSE f \in 1..MaxSeedNum :
                    LET before == ((f - 1) * (2 * MaxSeedNum + 2 - f)) \div 2
                    IN before < i /\ i <= before + MaxSeedNum + 1 - f
         before == ((first - 1) * (2 * MaxSeedNum + 2 - first)) \div 2
     IN <<first, first + i - before - 1, SeqLen>>]
FibWork(t) == <<Num(t[1]), Num(t[2]), Num(t[3])>>
FibWorkReads(acc) == ThreeInts
(* Mutant of GetFib: an element is added to itself. *)
GetFibDoubles(first, second, len) ==
  FoldLeft(LAMBDA s, i : Append(s, s[i - 1] + s[i - 1]), <<first, second>>,
           [i \in 1..(len - 2) |-> i + 2])
GetFib(first, second, len) ==
  FoldLeft(LAMBDA s, i : Append(s, s[i - 1] + s[i - 2]), <<first, second>>,
           [i \in 1..(len - 2) |-> i + 2])
FibExecute(work) ==
  IF \E i \in 1..3 : work[i][1] = Garbage THEN <<>>
  ELSE GetFib(work[1][1], work[2][1], work[3][1])
FibResults(result) == <<Ints(result)>>
FibResultsReads(t) == <<Read("INT", t[3])>>
FibAct(completed, t, result) == completed \cup {<<t, result[1]>>}
(* The benchmark task of get_userinfo. *)
FibBenchmark == <<8, 8, 8>>

-----------------------------------------------------------------------------
(* nqueens.  Columns are counted from 0; a placement is one column a row. *)

PartitionFactor == 5
Given == IF PartitionFactor >= BoardSize THEN 0 ELSE BoardSize - PartitionFactor

QueensInit == <<Num(BoardSize), Num(PartitionFactor)>>
QueensInitReads(acc) == TwoInts
QueensTasks == [i \in 1..(IF Given = 0 THEN 1 ELSE Given ^ Given) |-> <<BoardSize, i - 1>>]
QueensWork(t) == <<Num(t[1]), Num(t[2])>>
QueensWorkReads(acc) == TwoInts

(* Column by column and on one diagonal: p[j] is never p[i] + (j - i). *)
IsCorrectPermutation(p) ==
  \A i, j \in DOMAIN p : i # j => p[i] # p[j] /\ p[i] + (j - i) # p[j]
(* Lexicographic order, which is that of the search. *)
Before(p, q) == \E k \in DOMAIN p : p[k] < q[k] /\ \A i \in 1..(k - 1) : p[i] = q[i]
SearchSubspace(given, n) ==
  LET Found == {p \in [1..n -> 0..(n - 1)] :
                  SubSeq(p, 1, Len(given)) = given /\ IsCorrectPermutation(p)}
  IN IF Found = {} THEN NoTask
     ELSE CHOOSE p \in Found : \A q \in Found : p = q \/ Before(p, q)
(* The first columns are the digits of the task's number, to the base N. *)
QueensExecute(init, work) ==
  IF \E r \in {init[1][1], init[2][1], work[2][1]} : r = Garbage THEN NoTask
  ELSE LET n == init[1][1]
           given == IF init[2][1] >= n THEN 0 ELSE n - init[2][1]
       IN SearchSubspace([i \in 1..given |-> (work[2][1] \div (n ^ (i - 1))) % n], n)
QueensResults(result) ==
  IF result = NoTask THEN <<Num(0)>> ELSE <<Num(1), Ints(result)>>
QueensResultsReads(acc, t) ==
  OneInt \o (IF acc # <<>> /\ acc[1][1] = 1 THEN <<Read("INT", t[1])>> ELSE <<>>)
(* The last solution replaces the one before. *)
QueensAct(solution, result) == IF result[1][1] = 1 THEN result[2] ELSE solution

-----------------------------------------------------------------------------
(* matmul.  A and B are filled with 1.0; a row of C is a task, as there are   *)
(* at most 100 rows.  The elements of a result are ints.                      *)

Rows(m, n) == [i \in 1..m |-> Item("DOUBLE", [j \in 1..n |-> Unit])]
MatmulInit == <<Num(RowsA), Num(RowsB), Num(ColsB)>> \o Rows(RowsA, RowsB) \o Rows(RowsB, ColsB)
MatmulInitReads(acc) ==
  ThreeInts \o
    (IF Len(acc) < 3 THEN <<>>
     ELSE [i \in 1..Count(acc[1][1]) |-> Read("DOUBLE", Count(acc[2][1]))]
            \o [i \in 1..Count(acc[2][1]) |-> Read("DOUBLE", Count(acc[3][1]))])
MatmulTasks == [i \in 1..RowsA |-> <<i - 1, i - 1, ColsB>>]
MatmulWork(t) == <<Num(t[1]), Num(t[2]), Num(t[3])>>
MatmulWorkReads(acc) == ThreeInts
(* A's rows follow the three dimensions in what was read, and then B's. *)
MatmulExecute(init, work) ==
  IF \E i \in DOMAIN init : \E j \in DOMAIN init[i] : init[i][j] = Garbage THEN <<>>
  ELSE IF \E i \in 1..3 : work[i][1] = Garbage THEN <<>>
  ELSE [i \in 1..(work[2][1] - work[1][1] + 1) |->
          [j \in 1..work[3][1] |->
             FoldLeft(LAMBDA s, k : s + (init[3 + work[1][1] + i][k] \div Unit)
                                        * (init[3 + init[1][1] + k][j] \div Unit),
                      0, [k \in 1..init[2][1] |-> k])]]
MatmulResults(result) == [i \in DOMAIN result |-> Ints(result[i])]
MatmulResultsReads(t) == [i \in 1..(t[2] - t[1] + 1) |-> Read("INT", t[3])]
MatmulAct(product, t, result) ==
  [i \in DOMAIN product |-> IF i - 1 \in t[1]..t[2] THEN result[i - t[1]] ELSE product[i]]

-----------------------------------------------------------------------------
(* largest: the numbers in pieces of TaskSize, and what remains. *)

LargestTasks ==
  [i \in 1..((Len(Job) + TaskSize - 1) \div TaskSize) |->
     SubSeq(Job, (i - 1) * TaskSize + 1,
            IF i * TaskSize > Len(Job) THEN Len(Job) ELSE i * TaskSize)]
LargestWork(t) == <<Num(Len(t)), Ints(t)>>
LargestWorkReads(acc) ==
  OneInt \o (IF acc = <<>> THEN <<>> ELSE <<Read("INT", Count(acc[1][1]))>>)
Greater(a, b) == IF b # Garbage /\ a < b THEN b ELSE a
LargestExecute(work) ==
  IF work[2] = <<>> \/ work[2][1] = Garbage THEN 0
  ELSE FoldLeft(LAMBDA a, b : Greater(a, b), work[2][1], Tail(work[2]))
LargestAct(largest, result) == Greater(largest, result[1][1])

-----------------------------------------------------------------------------
(* blackbox.  The size of a file is packed as a size_t and read as an int.    *)

Executable == [name |-> <<"x">>, size |-> 1]
OutputFiles == <<[name |-> <<"o">>, size |-> 1], [name |-> <<"e">>, size |-> 0]>>
SendFiles(files) ==
  <<Num(Len(files))>> \o
    FlattenSeq([i \in DOMAIN files |->
                  <<Text(files[i].name), Item("UNSIGNED_LONG", <<<<0, files[i].size>>>>),
                    Chars([j \in 1..files[i].size |-> <<files[i].name, j>>])>>])
RecvFiles(acc) ==
  OneInt \o
    (IF acc = <<>> THEN <<>>
     ELSE FlattenSeq([i \in 1..Count(acc[1][1]) |->
            <<Read("STRING", 1), Read("INT", 1),
              Read("CHAR", IF Len(acc) > 3 * i - 1 THEN Count(acc[3 * i][1]) ELSE 0)>>]))
BlackboxInit == SendFiles(<<Executable>>)
BlackboxTasks == <<<<"a">>>>
BlackboxWork(t) ==
  <<Num(1), Text(t)>> \o SendFiles(<<>>)
    \o <<Num(Len(OutputFiles))>> \o [i \in DOMAIN OutputFiles |-> Text(OutputFiles[i].name)]
BlackboxWorkReads(acc) ==
  LET args == Count(acc[1][1])
      outputs == IF Len(acc) > 2 + args THEN Count(acc[3 + args][1]) ELSE 0
  IN IF acc = <<>> THEN OneInt
     ELSE OneInt \o [i \in 1..args |-> Read("STRING", 1)] \o OneInt
            \o OneInt \o [i \in 1..outputs |-> Read("STRING", 1)]
BlackboxResults == <<Num(0)>> \o SendFiles(OutputFiles)
BlackboxResultsReads(acc) ==
  OneInt \o (IF acc = <<>> THEN <<>> ELSE RecvFiles(Tail(acc)))

-----------------------------------------------------------------------------
(* user: the item comes back as it was read. *)

UserReads(x) == <<Read(x.type, Len(x.vals))>>
UserResults(x, work) ==
  IF \E i \in DOMAIN work[1] : work[1][i] = Garbage THEN <<Num(0)>>
  ELSE <<Item(x.type, work[1])>>

-----------------------------------------------------------------------------
(* The virtual functions of MWDriver, MWWorker and MWTask.  An application   *)
(* is [name, item]; item is 0 but for "user".                                *)

InitTasks(a) ==
  CASE a.name = "pyphi" -> PyphiTasks
    [] a.name = "fib" -> FibTasks
    [] a.name = "nqueens" -> QueensTasks
    [] a.name = "matmul" -> MatmulTasks
    [] a.name = "largest" -> LargestTasks
    [] a.name = "blackbox" -> BlackboxTasks
    [] a.name = "user" -> <<UserItems[a.item].vals>>

PackWorkerInitData(a) ==
  CASE a.name = "pyphi" -> PyphiInit
    [] a.name = "fib" -> FibInit
    [] a.name = "nqueens" -> QueensInit
    [] a.name = "matmul" -> MatmulInit
    [] a.name = "blackbox" -> BlackboxInit
    [] OTHER -> <<>>

UnpackInitData(a, acc) ==
  CASE a.name = "pyphi" -> PyphiInitReads(acc)
    [] a.name = "fib" -> FibInitReads(acc)
    [] a.name = "nqueens" -> QueensInitReads(acc)
    [] a.name = "matmul" -> MatmulInitReads(acc)
    [] a.name = "blackbox" -> RecvFiles(acc)
    [] OTHER -> <<>>

PackWork(a, t) ==
  CASE a.name = "pyphi" -> PackPyObject(t)
    [] a.name = "fib" -> FibWork(t)
    [] a.name = "nqueens" -> QueensWork(t)
    [] a.name = "matmul" -> MatmulWork(t)
    [] a.name = "largest" -> LargestWork(t)
    [] a.name = "blackbox" -> BlackboxWork(t)
    [] a.name = "user" -> <<UserItems[a.item]>>

UnpackWork(a, acc) ==
  CASE a.name = "pyphi" -> UnpackPyObject(acc)
    [] a.name = "fib" -> FibWorkReads(acc)
    [] a.name = "nqueens" -> QueensWorkReads(acc)
    [] a.name = "matmul" -> MatmulWorkReads(acc)
    [] a.name = "largest" -> LargestWorkReads(acc)
    [] a.name = "blackbox" -> BlackboxWorkReads(acc)
    [] a.name = "user" -> UserReads(UserItems[a.item])

(* execute_task, and pack_results. *)
Results(a, init, work) ==
  CASE a.name = "pyphi" -> PackPyObject(PyphiExecute(init, work))
    [] a.name = "fib" -> FibResults(FibExecute(work))
    [] a.name = "nqueens" -> QueensResults(QueensExecute(init, work))
    [] a.name = "matmul" -> MatmulResults(MatmulExecute(init, work))
    [] a.name = "largest" -> <<Num(LargestExecute(work))>>
    [] a.name = "blackbox" -> BlackboxResults
    [] a.name = "user" -> UserResults(UserItems[a.item], work)

UnpackResults(a, acc, t) ==
  CASE a.name = "pyphi" -> UnpackPyObject(acc)
    [] a.name = "fib" -> FibResultsReads(t)
    [] a.name = "nqueens" -> QueensResultsReads(acc, t)
    [] a.name = "matmul" -> MatmulResultsReads(t)
    [] a.name = "largest" -> OneInt
    [] a.name = "blackbox" -> BlackboxResultsReads(acc)
    [] a.name = "user" -> UserReads(UserItems[a.item])

(* What a driver keeps of the results. *)
InitialState(a) ==
  CASE a.name = "fib" -> {}
    [] a.name = "matmul" -> [i \in 1..RowsA |-> [j \in 1..ColsB |-> 0]]
    [] a.name = "largest" -> Job[1]
    [] OTHER -> <<>>

ActOnCompletedTask(a, state, t, result) ==
  CASE a.name = "pyphi" -> PyphiAct(state, result)
    [] a.name = "fib" -> FibAct(state, t, result)
    [] a.name = "nqueens" -> QueensAct(state, result)
    [] a.name = "matmul" -> MatmulAct(state, t, result)
    [] a.name = "largest" -> LargestAct(state, result)
    [] OTHER -> Append(state, result)
=============================================================================
