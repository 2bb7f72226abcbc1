----------------------------- MODULE MWTaskList -----------------------------
(***************************************************************************)
(* The todo list as the user of MWDriver sees it: adding tasks and taking  *)
(* them out in the modes of MWTaskAdditionMode and MWTaskRetrievalMode,    *)
(* key functions, sort_task_list, delete_tasks_worse_than,                 *)
(* return_best_todo_keyval and get_todo_head, on an indexed MWList.  The   *)
(* user may make these calls from any callback, in any order.              *)
(*                                                                         *)
(* One work class, and no limit on the keys (max_task_key is DBL_MAX and   *)
(* nothing changes it).                                                    *)
(***************************************************************************)
EXTENDS MWList

CONSTANTS
  KeyFunctions,  \* the key functions the user may set
  NoKey          \* task_key is NULL

ASSUME KeyFunctionsAreFunctions == KeyFunctions \subseteq [Task -> MinKey + 1 .. MaxKey - 1]
ASSUME NoKeyIsNoFunction == NoKey \notin KeyFunctions

AddModes == {"ADD_AT_END", "ADD_AT_BEGIN", "ADD_BY_KEY"}
GetModes == {"GET_FROM_BEGIN", "GET_FROM_KEY"}

VARIABLES
  todo,        \* the list
  task_key,    \* the key function
  listsorted,
  byKey,       \* does the user set a key function first, add by key only and
               \* never call get_todo_head?
  there,       \* the tasks added and not taken out since
  halt         \* "no", or how a call ended the program

listVars == <<todo, task_key, listsorted, byKey, there, halt>>

ListTypeOK ==
  /\ todo \in List
  /\ task_key \in KeyFunctions \cup {NoKey}
  /\ listsorted \in BOOLEAN /\ byKey \in BOOLEAN
  /\ there \subseteq Task
  /\ halt \in {"no", "assert", "exit", "undefined"}

(* get_userinfo of a user who adds by key only sets the function. *)
ListInit ==
  /\ todo = EmptyList(0)
  /\ byKey \in BOOLEAN
  /\ task_key \in IF byKey THEN KeyFunctions ELSE {NoKey}
  /\ listsorted = byKey
  /\ there = {} /\ halt = "no"

-----------------------------------------------------------------------------
(* How pushTask by key ends.  With an index that does not fit the list any more, *)
(* SortedInsert follows deleted elements or walks past the end: what comes of it *)
(* is not modelled.                                                              *)
PushByKeyHalts ==
  CASE task_key = NoKey -> "assert"
    [] task_key # NoKey /\ RefusesKey(todo) -> "exit"
    [] task_key # NoKey /\ ~RefusesKey(todo) /\ ~IndexFits(todo) -> "undefined"
    [] OTHER -> "no"

(* pushTask; Append and Prepend use the default key. *)
PushTask(t, mode) ==
  /\ halt = "no"
  /\ t \notin there
  /\ mode = "ADD_BY_KEY" \/ ~byKey
  /\ halt' = IF mode = "ADD_BY_KEY" THEN PushByKeyHalts ELSE "no"
  /\ IF halt' = "no"
     THEN /\ todo' = CASE mode = "ADD_AT_END" -> ListAppend(todo, [obj |-> t, key |-> 0])
                       [] mode = "ADD_AT_BEGIN" -> ListPrepend(todo, [obj |-> t, key |-> 0])
                       [] mode = "ADD_BY_KEY" ->
                            SortedInsert(todo, [obj |-> t, key |-> task_key[t]])
          /\ there' = there \cup {t}
     ELSE UNCHANGED <<todo, there>>
  /\ UNCHANGED <<task_key, listsorted, byKey>>

(* The first of the tasks with the largest key: where getNextTask's walk of a *)
(* list that is not sorted ends up.                                           *)
LargestKey(items) ==
  LET key(i) == task_key[items[i].obj]
  IN  CHOOSE i \in DOMAIN items :
        /\ \A j \in DOMAIN items : key(j) <= key(i)
        /\ \A j \in 1 .. i - 1 : key(j) < key(i)

(* The position getNextTask takes the next task from. *)
NextInOrder(items, mode) ==
  IF mode = "GET_FROM_BEGIN" \/ task_key = NoKey \/ listsorted THEN 1 ELSE LargestKey(items)

GetNextTask(mode) ==
  /\ halt = "no"
  /\ todo.items # <<>>
  /\ LET p == NextInOrder(todo.items, mode)
     IN  /\ todo' = RemoveElement(todo, p)
         /\ there' = there \ {todo.items[p].obj}
  /\ UNCHANGED <<task_key, listsorted, byKey, halt>>

(* handle_worker_results, of a result whose task went back to the todo list. *)
TakeFromTodo(t) ==
  /\ halt = "no"
  /\ t \in there
  /\ todo' = RemoveElement(todo, Position(todo.items, t))
  /\ there' = there \ {t}
  /\ UNCHANGED <<task_key, listsorted, byKey, halt>>

(* Mutant of SetTaskKeyFunction: a list that is sorted stays so. *)
SetAndStaySorted(f) ==
  /\ halt = "no"
  /\ listsorted' = (listsorted \/ task_key = NoKey)
  /\ task_key' = f
  /\ UNCHANGED <<todo, byKey, there, halt>>

(* set_task_key_function.  By the first function that is set the list counts *)
(* as sorted, whatever is in it: sort_task_list finds no function and returns. *)
SetTaskKeyFunction(f) ==
  /\ halt = "no"
  /\ listsorted' = CASE f = task_key -> listsorted
                     [] f # task_key /\ task_key = NoKey -> TRUE
                     [] OTHER -> FALSE
  /\ task_key' = f
  /\ UNCHANGED <<todo, byKey, there, halt>>

(* Mutant of Sorted: the last task is left behind. *)
SortedButLast(l) ==
  FoldLeft(LAMBDA m, x : SortedInsert(m, [x EXCEPT !.key = task_key[x.obj]]),
           EmptyList(l.newly_inserted), SubSeq(l.items, 1, Len(l.items) - 1))

(* Inserts the tasks of l into an empty list, in the order they have in l. *)
Sorted(l) ==
  FoldLeft(LAMBDA m, x : SortedInsert(m, [x EXCEPT !.key = task_key[x.obj]]),
           EmptyList(l.newly_inserted), l.items)

SortTaskList ==
  /\ halt = "no"
  /\ task_key # NoKey /\ ~listsorted
  /\ todo' = Sorted(todo)
  /\ listsorted' = TRUE
  /\ UNCHANGED <<task_key, byKey, there, halt>>

(* l without the tasks worse than key. *)
WithoutWorse(l, key) ==
  FoldLeft(LAMBDA m, x : IF task_key[x.obj] > key
                         THEN RemoveElement(m, Position(m.items, x.obj)) ELSE m,
           l, l.items)

(* delete_tasks_worse_than.  RemoveCurrent steps back, from the head to the  *)
(* dummy, and there AfterEnd ends the walk: if the head goes, nothing else does. *)
DeleteTasksWorseThan(key) ==
  /\ halt = "no"
  /\ task_key # NoKey /\ todo.items # <<>>
  /\ LET t == Head(todo.items).obj
     IN  IF task_key[t] > key
         THEN todo' = RemoveElement(todo, 1) /\ there' = there \ {t}
         ELSE /\ todo' = WithoutWorse(todo, key)
              /\ there' = {u \in there : task_key[u] <= key}
  /\ UNCHANGED <<task_key, listsorted, byKey, halt>>

(* return_best_todo_keyval of a sorted list takes the head out and puts it back *)
(* with its current key.                                                        *)
ReturnBestTodoKeyval ==
  /\ halt = "no"
  /\ task_key # NoKey /\ todo.items # <<>> /\ listsorted
  /\ LET t == Head(todo.items).obj
     IN  todo' = ListPrepend(RemoveElement(todo, 1), [obj |-> t, key |-> task_key[t]])
  /\ UNCHANGED <<task_key, listsorted, byKey, there, halt>>

(* get_todo_head takes the head out, if there is one, and puts back what it got *)
(* with the default key.  What becomes of a NULL in the list is not modelled.   *)
GetTodoHead ==
  /\ halt = "no"
  /\ ~byKey
  /\ IF todo.items = <<>>
     THEN halt' = "undefined" /\ UNCHANGED todo
     ELSE /\ todo' = ListPrepend(RemoveElement(todo, 1),
                                [obj |-> Head(todo.items).obj, key |-> 0])
          /\ UNCHANGED halt
  /\ UNCHANGED <<task_key, listsorted, byKey, there>>

ListNext ==
  \/ \E t \in Task, mode \in AddModes : PushTask(t, mode)
  \/ \E mode \in GetModes : GetNextTask(mode)
  \/ \E t \in Task : TakeFromTodo(t)
  \/ \E f \in KeyFunctions : SetTaskKeyFunction(f)
  \/ SortTaskList
  \/ \E t \in Task : task_key # NoKey /\ DeleteTasksWorseThan(task_key[t])
  \/ ReturnBestTodoKeyval
  \/ GetTodoHead

ListSpec == ListInit /\ [][ListNext]_listVars

-----------------------------------------------------------------------------
(* No call loses a task or puts it in twice: the list holds the tasks that were *)
(* added and neither handed out nor deleted.                                    *)
TasksAreThere == Objects(todo) = there /\ Number(todo) = Cardinality(there)

(* For a user who adds by key only, what listsorted says is so, whatever key *)
(* functions he sets: getNextTask may take the head for the best task.       *)
SortedAsClaimed ==
  byKey /\ listsorted =>
    \A i \in 1 .. Number(todo) - 1 :
       task_key[todo.items[i].obj] <= task_key[todo.items[i + 1].obj]

(* The list is what it takes itself to be: in order if it says so, whatever the *)
(* user mixes; and for one who adds by key only the index fits the list and no  *)
(* call ends the program.                                                       *)
ListIsSound ==
  /\ ListTypeOK
  /\ InOrder(todo)
  /\ byKey => IndexFits(todo) /\ halt = "no"

=============================================================================
