-------------------------------- MODULE MWSwap --------------------------------
(***************************************************************************)
(* The task swap of MWDriver.C: of a long todo list only the best tasks    *)
(* stay in memory, the others go to a file in the order of their keys, and *)
(* come back when the list gets short.  swap_out_todo_tasks and            *)
(* swap_in_todo_tasks are public, and a user may call them from any        *)
(* callback; restart_from_ckpt calls the first by itself.  Each ends with  *)
(* a checkpoint, which holds the tasks in memory only: it and the file     *)
(* belong together, and a crash between two steps tears them apart: tasks  *)
(* are then lost, or there twice, and what follows is not modelled.        *)
(*                                                                         *)
(* The user sets one key function before he adds tasks and adds by key.    *)
(* A task that is out with a worker is in running; which worker has it,    *)
(* and how it comes back, is MWDriver's.  max_task_key is DBL_MAX and      *)
(* nothing changes it, so that no task is dropped for its key.             *)
(***************************************************************************)
EXTENDS MWList

CONSTANTS
  Key,          \* the key function
  NumInMem,     \* the default of num_in_mem in swap_out_todo_tasks
  MaxInMem,     \* MAX_IN_MEM
  NoFile,
  MaxCrashes,   \* crashes of the master
  MaxFailures   \* calls of the operating system that fail

ASSUME KeyIsAFunction == Key \in [Task -> MinKey + 1 .. MaxKey - 1]
ASSUME SwapBounds == /\ NumInMem \in Nat /\ MaxInMem \in Nat
                     /\ MaxCrashes \in Nat /\ MaxFailures \in Nat

VARIABLES
  todo,              \* the list in memory
  running,           \* the tasks out with workers
  has_task_swapped,
  file,              \* the swap file, TODO_tasks
  saved,             \* the tasks in the checkpoint: todo and running
  due,               \* history: the tasks added, neither completed nor pruned
  savedDue,          \* history: due when the checkpoint was written
  restarted,         \* has the master ever restarted?
  halt,              \* "no"; "done" when the main loop has ended; "down" between a
                     \* crash and the restart; "torn" when a swap was cut short
  crashes, failures  \* how many there were

swapVars == <<todo, running, has_task_swapped, file, saved, due, savedDue, restarted,
              halt, crashes, failures>>

(* skip tasks at the start of the file have been swapped in, num follow them. *)
SwapFile == [skip : Nat, num : Nat, tasks : Seq(Task)]

Keyed(t) == [obj |-> t, key |-> Key[t]]

(* The tasks swapped out; a file that was cut short has fewer than it says. *)
Swapped(f) ==
  IF f = NoFile THEN <<>>
  ELSE SubSeq(f.tasks, f.skip + 1, Min({f.skip + f.num, Len(f.tasks)}))

TasksOf(l) == [i \in DOMAIN l.items |-> l.items[i].obj]

SwapTypeOK ==
  /\ todo \in List
  /\ running \subseteq Task /\ due \subseteq Task /\ savedDue \subseteq Task
  /\ has_task_swapped \in BOOLEAN /\ restarted \in BOOLEAN
  /\ file \in SwapFile \cup {NoFile}
  /\ saved \in [todo : Seq(Task), running : SUBSET Task]
  /\ halt \in {"no", "done", "down", "torn"}
  /\ crashes \in 0 .. MaxCrashes /\ failures \in 0 .. MaxFailures

(* The first checkpoint is written when the setup is over: there is always one. *)
SwapInit ==
  /\ todo = EmptyList(0) /\ running = {} /\ due = {} /\ savedDue = {}
  /\ has_task_swapped = FALSE /\ file = NoFile
  /\ saved = [todo |-> <<>>, running |-> {}]
  /\ restarted = FALSE /\ halt = "no"
  /\ crashes = 0 /\ failures = 0

-----------------------------------------------------------------------------
(* The steps of a swap *)

(* checkpoint, of what is in memory. *)
Snapshot(l) == [todo |-> TasksOf(l), running |-> running]

(* read_mem_task, to the end of the list, after Next has passed over n tasks. *)
Kept(l, n) == [l EXCEPT !.items = SubSeq(@, 1, n), !.index = <<>>]
Rest(l, n) == SubSeq(TasksOf(l), n + 1, Number(l))

(* Mutant of Merged: the file is appended to. *)
MergedAtEnd(mem, onDisk) == onDisk \o mem

(* The merge of two sequences in the order of the keys, the tasks of the list *)
(* first where keys are equal.                                                *)
Merged(mem, onDisk) ==
  LET step(acc, t) ==
        LET before == SelectSeq(acc.mem, LAMBDA u : Key[u] <= Key[t])
        IN  [out |-> Append(acc.out \o before, t),
             mem |-> SubSeq(acc.mem, Len(before) + 1, Len(acc.mem))]
      end == FoldLeft(step, [out |-> <<>>, mem |-> mem], onDisk)
  IN  end.out \o end.mem

Fresh(tasks) == [skip |-> 0, num |-> Len(tasks), tasks |-> tasks]

(* Does swap_out_todo_tasks do anything?  Its max_in_mem is num_in_mem here: a *)
(* user may give any, and of the two the larger counts.                        *)
SwapsOut(l, n) == l.sorted /\ Number(l) >= n

(* The file that swap_out_todo_tasks leaves. *)
SwappedOut(l, f, n) == Fresh(Merged(Rest(l, n), Swapped(f)))

(* What it leaves on the way: a new file grows under its name, while the merged *)
(* one takes the name of the old after that one has been moved away.            *)
OnTheWayOut(l, f, n) ==
  IF f = NoFile
  THEN {[SwappedOut(l, f, n) EXCEPT !.tasks = SubSeq(@, 1, k)] : k \in 0 .. Number(l) - n}
  ELSE {NoFile, SwappedOut(l, f, n)}

(* The list in memory that it leaves. *)
SwappedOutOf(l, n) == BuildIndex(Kept(l, n))

(* The tasks swap_in_todo_tasks reads. *)
TakenIn(f, n) == SubSeq(Swapped(f), 1, Min({n, f.num}))

(* The file it leaves: none when all tasks have been read. *)
SwappedIn(f, n) ==
  IF n >= f.num THEN NoFile ELSE [f EXCEPT !.skip = @ + n, !.num = @ - n]

(* Inserts tasks by their keys, one after the other. *)
Inserted(l, tasks) == FoldLeft(LAMBDA m, t : SortedInsert(m, Keyed(t)), l, tasks)

(* Mutant of SwappedInto: the tasks that were in memory are not put back. *)
SwappedIntoEmpty(l, f, n) == Inserted(EmptyList(l.newly_inserted), TakenIn(f, n))

(* The new list: tasks of the file first, then those that were in memory. *)
SwappedInto(l, f, n) ==
  Inserted(EmptyList(l.newly_inserted), TakenIn(f, n) \o TasksOf(l))

-----------------------------------------------------------------------------
Up == halt = "no"

(* Mutant of Checkpointed: a swap ends without its checkpoint. *)
NotCheckpointed == UNCHANGED <<saved, savedDue>>

(* The checkpoint that a swap ends with. *)
Checkpointed == saved' = Snapshot(todo') /\ savedDue' = due

(* pushTask, ADD_BY_KEY. *)
AddTask(t) ==
  /\ Up /\ t \notin due
  /\ todo' = SortedInsert(todo, Keyed(t))
  /\ due' = due \cup {t}
  /\ UNCHANGED <<running, has_task_swapped, file, saved, savedDue, restarted, halt,
                 crashes, failures>>

(* getNextTask takes the head, which goes to a worker. *)
StartTask ==
  /\ Up /\ todo.items # <<>>
  /\ todo' = RemoveElement(todo, 1)
  /\ running' = running \cup {Head(todo.items).obj}
  /\ UNCHANGED <<has_task_swapped, file, saved, due, savedDue, restarted, halt,
                 crashes, failures>>

CompleteTask(t) ==
  /\ Up /\ t \in running
  /\ running' = running \ {t} /\ due' = due \ {t}
  /\ UNCHANGED <<todo, has_task_swapped, file, saved, savedDue, restarted, halt,
                 crashes, failures>>

(* The worker died: pushTask puts the task back. *)
ReturnTask(t) ==
  /\ Up /\ t \in running
  /\ running' = running \ {t}
  /\ todo' = SortedInsert(todo, Keyed(t))
  /\ UNCHANGED <<has_task_swapped, file, saved, due, savedDue, restarted, halt,
                 crashes, failures>>

Checkpoint ==
  /\ Up /\ UNCHANGED todo
  /\ Checkpointed
  /\ UNCHANGED <<running, has_task_swapped, file, due, restarted, halt, crashes,
                 failures>>

SwapOut(n) ==
  /\ Up /\ SwapsOut(todo, n)
  /\ todo' = SwappedOutOf(todo, n)
  /\ file' = SwappedOut(todo, file, n)
  /\ has_task_swapped' = TRUE
  /\ Checkpointed
  /\ UNCHANGED <<running, due, restarted, halt, crashes, failures>>

(* A file cannot be opened.  Nothing has been taken from the list yet, but its *)
(* index is gone if there is a swap file to merge with.                        *)
SwapOutFails(n) ==
  /\ Up /\ failures < MaxFailures
  /\ SwapsOut(todo, n)
  /\ failures' = failures + 1
  /\ todo' = IF file = NoFile THEN todo ELSE [todo EXCEPT !.index = <<>>]
  /\ UNCHANGED <<running, has_task_swapped, file, saved, due, savedDue, restarted,
                 halt, crashes>>

(* The merged file cannot be opened again or moved: the tasks have been deleted *)
(* from memory.                                                                 *)
SwapOutFailsLate(n) ==
  /\ Up /\ failures < MaxFailures
  /\ SwapsOut(todo, n) /\ file # NoFile
  /\ failures' = failures + 1
  /\ todo' = Kept(todo, n)
  /\ file' \in {file, NoFile}
  /\ halt' = "torn"
  /\ UNCHANGED <<running, has_task_swapped, saved, due, savedDue, restarted, crashes>>

SwapIn(n) ==
  /\ Up /\ Number(todo) <= n
  /\ IF file = NoFile
     THEN has_task_swapped' = FALSE /\ UNCHANGED <<todo, file, saved, savedDue>>
     ELSE /\ todo' = SwappedInto(todo, file, n)
          /\ file' = SwappedIn(file, n)
          /\ has_task_swapped' = (has_task_swapped /\ file' # NoFile)
          /\ Checkpointed
  /\ UNCHANGED <<running, due, restarted, halt, crashes, failures>>

IsTODOEmpty == todo.items = <<>> /\ ~has_task_swapped

(* The end of master_mainloop. *)
Finish ==
  /\ Up
  /\ IsTODOEmpty /\ running = {}
  /\ halt' = "done"
  /\ UNCHANGED <<todo, running, has_task_swapped, file, saved, due, savedDue, restarted,
                 crashes, failures>>

(* What a crash leaves: the two files, one of them perhaps half changed. *)
GoDown(f, h) ==
  /\ crashes < MaxCrashes
  /\ crashes' = crashes + 1
  /\ file' = f /\ halt' = h
  /\ todo' = EmptyList(0) /\ running' = {} /\ has_task_swapped' = FALSE
  /\ due' = savedDue
  /\ UNCHANGED <<saved, savedDue, restarted, failures>>

Crash == Up /\ GoDown(file, "down")

(* Between the first change of the swap file and the end of the checkpoint. *)
CrashInSwapOut(n) ==
  /\ Up /\ SwapsOut(todo, n)
  /\ \E f \in OnTheWayOut(todo, file, n) : GoDown(f, "torn")

CrashInSwapIn(n) ==
  /\ Up /\ Number(todo) <= n
  /\ file # NoFile
  /\ GoDown(SwappedIn(file, n), "torn")

(* The list that restart_from_ckpt reads: what was running is to be done again. *)
Restored == Inserted(EmptyList(0), saved.todo \o SetToSeq(saved.running))

(* restart_from_ckpt.  A swap file that is there is left alone, and not remembered *)
(* in has_task_swapped, unless the list is so long that it is swapped out.         *)
Restart ==
  /\ halt = "down"
  /\ IF Number(Restored) > MaxInMem /\ SwapsOut(Restored, NumInMem)
     THEN /\ todo' = SwappedOutOf(Restored, NumInMem)
          /\ file' = SwappedOut(Restored, file, NumInMem)
          /\ has_task_swapped' = TRUE
          /\ Checkpointed
     ELSE /\ todo' = Restored
          /\ UNCHANGED <<has_task_swapped, file, saved, savedDue>>
  /\ halt' = "no" /\ restarted' = TRUE
  /\ UNCHANGED <<running, due, crashes, failures>>

InMem == 0 .. NumInMem + 1

SwapNext ==
  \/ \E t \in Task : AddTask(t) \/ CompleteTask(t) \/ ReturnTask(t)
  \/ StartTask
  \/ Checkpoint
  \/ \E n \in InMem : SwapOut(n) \/ SwapOutFails(n) \/ SwapOutFailsLate(n) \/ SwapIn(n)
  \/ Finish
  \/ Crash
  \/ \E n \in InMem : CrashInSwapOut(n) \/ CrashInSwapIn(n)
  \/ Restart

SwapSpec == SwapInit /\ [][SwapNext]_swapVars

-----------------------------------------------------------------------------
(* tasks is a list of the elements of set, each once. *)
Lists(tasks, set) == ToSet(tasks) = set /\ Len(tasks) = Cardinality(set)

(* No swap, merge or restart loses a task or makes two of one: each is in one *)
(* place, the list in memory, the file or the hands of a worker.  Until it    *)
(* restarts, the master does not end while tasks are on disk.                 *)
TasksAreSomewhere ==
  /\ Up => Lists(TasksOf(todo) \o Swapped(file) \o SetToSeq(running), due)
  /\ halt = "done" /\ ~restarted => due = {}

(* Whatever the user did since the last checkpoint, it and the swap file hold *)
(* together what there was to do then: a restart will find it all.            *)
CheckpointAndFileAgree ==
  halt # "torn" =>
    Lists(saved.todo \o Swapped(file) \o SetToSeq(saved.running), savedDue)

(* "The swap file for TODO tasks is fully-sorted" (MWDriver.h): merges and tasks *)
(* read twice keep it so, and swap_in_todo_tasks reads the best of it.  The list  *)
(* in memory is in order, and its index fits it, after each swap.                 *)
StoresAreSorted ==
  /\ SwapTypeOK
  /\ \A i, j \in DOMAIN Swapped(file) :
       i < j => Key[Swapped(file)[i]] <= Key[Swapped(file)[j]]
  /\ Up => InOrder(todo) /\ IndexFits(todo)
=============================================================================
