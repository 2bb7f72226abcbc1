------------------------------- MODULE MWList -------------------------------
(***************************************************************************)
(* The template class MWList (MWList.h): a doubly linked list of elements  *)
(* with keys, which knows whether it is in the order of the keys, and the  *)
(* index (MWIndex, MWIndexList) that a long ordered list has, so that      *)
(* SortedInsert need not walk it from its head.  The index cuts the list   *)
(* into buckets, each with its number of elements, its first element and   *)
(* the bounds of its keys.                                                 *)
(*                                                                         *)
(* Each operation is an operator from a list to a list.  The elements are  *)
(* a sequence; an element is identified by the task it points at, which is *)
(* in one list at a time.  The cursor is left out: every walk in MWDriver  *)
(* starts at the head and ends before another does.  A bucket's last       *)
(* element is left out: it is compared and printed, but nothing depends on *)
(* it.  SortedRemove, which nothing calls, is left out.                    *)
(***************************************************************************)
EXTENDS Integers, SequencesExt

CONSTANTS
  Task,
  NoTask,      \* no task: what the dummy at both ends of the list points at
  BucketSize,  \* BUCKET_SIZE
  MinKey,      \* -DBL_MAX
  MaxKey       \* DBL_MAX

ASSUME BucketsCanSplit == BucketSize \in Nat \ {0, 1}
ASSUME KeysHaveBounds == MinKey \in Int /\ MaxKey \in Int /\ MinKey < 0 /\ 0 < MaxKey
ASSUME NoTaskIsNotATask == NoTask \notin Task

Element == [obj : Task, key : MinKey .. MaxKey]

Bucket == [num : Nat, lower : MinKey .. MaxKey, upper : MinKey .. MaxKey,
           first : Task \cup {NoTask}]

(* index is empty where the code's is NULL.  newly_inserted is static in *)
(* IndexedInsert, and so goes from one list to the next.                 *)
List == [items : Seq(Element), sorted : BOOLEAN, index : Seq(Bucket),
         newly_inserted : 0 .. BucketSize]

EmptyList(n) == [items |-> <<>>, sorted |-> FALSE, index |-> <<>>, newly_inserted |-> n]

Objects(l) == {l.items[i].obj : i \in DOMAIN l.items}

Position(items, t) == CHOOSE i \in DOMAIN items : items[i].obj = t

(* The object at position i, or the dummy's. *)
Object(items, i) == IF i \in DOMAIN items THEN items[i].obj ELSE NoTask

-----------------------------------------------------------------------------
(* MWIndex and MWIndexList *)

(* Two halves of a bucket.  The bound between them, the last key of the *)
(* first half, is in both.                                              *)
Split(items, b) ==
  LET half == b.num \div 2
      at == Position(items, b.first) + half - 1
  IN  <<[b EXCEPT !.num = half, !.upper = items[at].key],
        [b EXCEPT !.num = @ - half, !.first = items[at + 1].obj, !.lower = items[at].key]>>

(* The buckets, smaller than size, that b is split into. *)
SplitTo(items, b, size) ==
  LET parts[c \in Bucket] ==
        IF c.num < size THEN <<c>>
        ELSE LET halves == Split(items, c) IN parts[halves[1]] \o parts[halves[2]]
  IN  parts[b]

(* No bucket is ever empty, and so Merge has none to clear away. *)
Merge(b, c) == [b EXCEPT !.num = @ + c.num, !.upper = c.upper]

(* BuildIndex, for an index that exists: from the first bucket on, large ones *)
(* are split and small ones merged with the next.                             *)
Balance(items, index) ==
  LET step(acc, b) ==
        CASE acc.cur.num > BucketSize ->
               [done |-> acc.done \o SplitTo(items, acc.cur, BucketSize + 1), cur |-> b]
          [] acc.cur.num + b.num < BucketSize + 1 ->
               [acc EXCEPT !.cur = Merge(acc.cur, b)]
          [] OTHER -> [done |-> Append(acc.done, acc.cur), cur |-> b]
      end == FoldLeft(step, [done |-> <<>>, cur |-> Head(index)], Tail(index))
  IN  end.done \o SplitTo(items, end.cur, BucketSize + 1)

(* The bucket for a key, 0 if there is none. *)
IndexFor(index, key) == SelectInSeq(index, LAMBDA b : b.lower <= key /\ key <= b.upper)

(* RemoveEmptyIndex: a neighbour takes over the bounds of bucket i. *)
RemoveEmptyIndex(index, i) ==
  CASE i < Len(index) ->
         RemoveAt([index EXCEPT ![i + 1].lower = index[i].lower], i)
    [] i = Len(index) /\ i > 1 ->
         RemoveAt([index EXCEPT ![i - 1].upper = index[i].upper], i)
    [] OTHER -> <<>>

-----------------------------------------------------------------------------
(* MWList *)

Number(l) == Len(l.items)

(* MWList::BuildIndex, of a list in order: a first index of one bucket, at once *)
(* split, or the one there is, balanced.  A short list gets none.               *)
BuildIndex(l) ==
  CASE Number(l) < BucketSize \div 2 -> l
    [] Number(l) >= BucketSize \div 2 /\ l.index = <<>> ->
         LET whole == [num |-> Number(l), lower |-> MinKey, upper |-> MaxKey,
                       first |-> Object(l.items, 1)]
         IN  [l EXCEPT !.index = SplitTo(l.items, whole, BucketSize)]
    [] OTHER -> [l EXCEPT !.index = Balance(l.items, l.index)]

(* Where an element with this key goes if the walk starts at from. *)
PlaceFrom(items, from, key) ==
  LET worse == {i \in from .. Len(items) : key <= items[i].key}
  IN  IF worse = {} THEN Len(items) + 1 ELSE Min(worse)

(* IndexedInsert.  A key that no bucket has room for is not inserted. *)
IndexedInsert(l, x) ==
  LET i == IndexFor(l.index, x.key)
      b == l.index[i]
      from == Position(l.items, b.first)
      at == PlaceFrom(l.items, from, x.key)
      grown == [b EXCEPT !.num = @ + 1,
                         !.first = IF at = from THEN x.obj ELSE @]
      m == [l EXCEPT !.items = InsertAt(@, at, x), !.index[i] = grown]
  IN  IF i = 0 THEN l
      ELSE IF l.newly_inserted < BucketSize
           THEN [m EXCEPT !.newly_inserted = @ + 1]
           ELSE [BuildIndex(m) EXCEPT !.newly_inserted = 0]

(* SortedInsert calls exit(1) for a list that is not in order. *)
RefusesKey(l) == ~l.sorted /\ l.items # <<>>

SortedInsert(l, x) ==
  LET m == [l EXCEPT !.items = InsertAt(@, PlaceFrom(@, 1, x.key), x), !.sorted = TRUE]
  IN  CASE l.index # <<>> -> IndexedInsert(l, x)
        [] l.index = <<>> /\ Number(m) > BucketSize -> BuildIndex(m)
        [] OTHER -> m

(* A list that has got a new first or last element, which may be out of order: *)
(* the index is then dropped, or else bucket i has one element more.           *)
Extended(l, items, ordered, i, b) ==
  LET sorted == l.sorted \/ Len(items) = 1
  IN  [l EXCEPT !.items = items,
                !.sorted = sorted /\ ordered,
                !.index = IF sorted /\ ~ordered THEN <<>>
                          ELSE IF sorted /\ l.index # <<>> THEN [@ EXCEPT ![i] = b]
                          ELSE @]

ListAppend(l, x) ==
  LET n == Len(l.index)
  IN  Extended(l, Append(l.items, x), l.items = <<>> \/ Last(l.items).key <= x.key,
               n, [l.index[n] EXCEPT !.num = @ + 1])

ListPrepend(l, x) ==
  Extended(l, <<x>> \o l.items, l.items = <<>> \/ x.key <= Head(l.items).key,
           1, [l.index[1] EXCEPT !.first = x.obj, !.num = @ + 1])

(* Mutant of RemoveElement: a bucket keeps its first element when that one goes. *)
RemoveUnseen(l, p) ==
  LET x == l.items[p]
      i == IndexFor(l.index, x.key)
  IN  [l EXCEPT !.items = RemoveAt(@, p),
                !.index = CASE @ = <<>> -> <<>>
                            [] @ # <<>> /\ @[i].num > 1 -> [@ EXCEPT ![i].num = @ - 1]
                            [] OTHER -> RemoveEmptyIndex(@, i)]

(* Remove, of the element at p.  The bucket that is told is the first whose *)
(* bounds have the element's key.  If it is not the element's own, that one *)
(* is left with a deleted element for its first: NoTask here.               *)
RemoveElement(l, p) ==
  LET x == l.items[p]
      i == IndexFor(l.index, x.key)
      b == l.index[i]
      shrunk == [b EXCEPT !.num = @ - 1,
                          !.first = IF @ = x.obj THEN Object(l.items, p + 1) ELSE @]
      index == CASE l.index = <<>> -> <<>>
                 [] l.index # <<>> /\ b.num > 1 -> [l.index EXCEPT ![i] = shrunk]
                 [] OTHER -> RemoveEmptyIndex(l.index, i)
      deleted(c) == IF c.first = x.obj THEN [c EXCEPT !.first = NoTask] ELSE c
  IN  [l EXCEPT !.items = RemoveAt(@, p),
                !.index = [k \in DOMAIN index |-> deleted(index[k])]]

-----------------------------------------------------------------------------
(* A list that says it is in order is. *)
InOrder(l) ==
  l.sorted => \A i \in 1 .. Number(l) - 1 : l.items[i].key <= l.items[i + 1].key

(* The elements of bucket i, if the counts of those before it are right. *)
StartOf(index, i) == 1 + FoldLeft(LAMBDA n, b : n + b.num, 0, SubSeq(index, 1, i - 1))

(* The index is right: the buckets follow one another through the list, each *)
(* with its first element, and no key falls between them.                     *)
IndexFits(l) ==
  l.index # <<>> =>
    /\ StartOf(l.index, Len(l.index) + 1) = Number(l) + 1
    /\ \A i \in DOMAIN l.index :
         LET b == l.index[i]
             from == StartOf(l.index, i)
         IN  /\ b.num > 0
             /\ b.first = Object(l.items, from)
             /\ \A j \in from .. from + b.num - 1 :
                  b.lower <= l.items[j].key /\ l.items[j].key <= b.upper
             /\ i < Len(l.index) => b.upper = l.index[i + 1].lower
    /\ Head(l.index).lower = MinKey /\ Last(l.index).upper = MaxKey
=============================================================================
