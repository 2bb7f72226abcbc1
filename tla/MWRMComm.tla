------------------------------ MODULE MWRMComm ------------------------------
(***************************************************************************)
(* The part of the RMComm layer every back end shares (MWRMComm.C): the    *)
(* executables for the workers, and how many workers are wanted.           *)
(*                                                                         *)
(* A worker executable belongs to an arch class, the kind of machine it    *)
(* runs on, and to an exec class, a share of the workers with a target of  *)
(* its own.  The user configures all this in get_userinfo, by a sequence   *)
(* of calls; a checkpoint holds most of it.                                *)
(***************************************************************************)
EXTENDS Integers, Sequences, SequencesExt

CONSTANTS
  DefaultInc,  \* the initial value of hostinc_
  NoExecutable \* a slot of worker_executables that nobody has filled

ASSUME DefaultIncIsPositive == DefaultInc \in Nat \ {0}

Executable == [exec_class : Nat, arch_class : Nat]

RMComm ==
  [ exec_classes : Nat,
    num_arches : Nat,
    worker_executables : Seq(Executable \cup {NoExecutable}),
    tempnum_executables : Nat,
    exec_class_target : Seq(Nat),   \* of exec class c at c + 1
    target_num_workers : Int,
    hostinc : Nat ]

NewRMComm ==
  [ exec_classes |-> 0, num_arches |-> 0, worker_executables |-> <<>>,
    tempnum_executables |-> 0, exec_class_target |-> <<>>, target_num_workers |-> 0,
    hostinc |-> DefaultInc ]

Zeros(n) == [i \in 1 .. n |-> 0]

ExecClasses(r) == 0 .. r.exec_classes - 1
ArchClasses(r) == 0 .. r.num_arches - 1
Target(r, c) == r.exec_class_target[c + 1]

(* find_executable, exists_executable: is there one for exec class c, arch a? *)
HasExecutable(r, c, a) ==
  \E i \in DOMAIN r.worker_executables :
     r.worker_executables[i] = [exec_class |-> c, arch_class |-> a]

-----------------------------------------------------------------------------
(* The user's calls. *)

(* The targets are forgotten, the total is not. *)
SetNumExecClasses(r, n) ==
  [r EXCEPT !.exec_classes = n, !.exec_class_target = Zeros(n)]

SetNumArchClasses(r, n) == [r EXCEPT !.num_arches = n]

SetNumExecutables(r, n) ==
  [r EXCEPT !.worker_executables =
     @ \o [i \in 1 .. n - Len(@) |-> NoExecutable]]

(* add_executable ( exec_class, arch_class, ... ) fills the next slot. *)
AddExecutableFor(r, c, a) ==
  [r EXCEPT !.num_arches = Max({@, a + 1}),
            !.worker_executables[r.tempnum_executables + 1] =
               [exec_class |-> c, arch_class |-> a],
            !.tempnum_executables = @ + 1]

(* add_executable ( exec_name, requirements ), "the new, easy way": one exec *)
(* class, one more arch class and one more slot, for the new executable.     *)
AddExecutable(r) ==
  LET s == SetNumArchClasses(SetNumExecClasses(r, 1), r.num_arches + 1)
  IN  [s EXCEPT !.worker_executables =
         Append(@, [exec_class |-> 0, arch_class |-> s.num_arches - 1])]

(* set_target_num_workers: the one of exec class c, or, if c = -1, of class 0, *)
(* which is then taken for the total.                                          *)
SetTargetNumWorkers(r, c, n) ==
  LET s == IF r.exec_classes > 0 THEN r
           ELSE [r EXCEPT !.exec_classes = 1, !.exec_class_target = <<0>>]
  IN  IF c < 0
      THEN [s EXCEPT !.exec_class_target[1] = n, !.target_num_workers = n]
      ELSE [s EXCEPT !.exec_class_target[c + 1] = n,
                     !.target_num_workers = @ - Target(s, c) + n]

SetWorkerIncrement(r, n) ==
  IF n <= 0 THEN r ELSE [r EXCEPT !.hostinc = Min({n, r.target_num_workers})]

Call(r, c) ==
  CASE c.call = "set_num_exec_classes" -> SetNumExecClasses(r, c.n)
    [] c.call = "set_num_arch_classes" -> SetNumArchClasses(r, c.n)
    [] c.call = "set_num_executables" -> SetNumExecutables(r, c.n)
    [] c.call = "add_executable_for" -> AddExecutableFor(r, c.exec_class, c.arch_class)
    [] c.call = "add_executable" -> AddExecutable(r)
    [] c.call = "set_target_num_workers" -> SetTargetNumWorkers(r, c.exec_class, c.n)
    [] c.call = "set_worker_increment" -> SetWorkerIncrement(r, c.n)

(* What get_userinfo leaves behind when it makes the calls of program. *)
Configured(program) == FoldLeft(Call, NewRMComm, program)

-----------------------------------------------------------------------------
(* write_checkpoint, then read_checkpoint by a new process: the increment is *)
(* not in the checkpoint, and the total is added up.                         *)
Restored(r) ==
  [r EXCEPT !.tempnum_executables = 0, !.hostinc = DefaultInc,
            !.target_num_workers = FoldLeft(+, 0, r.exec_class_target)]
=============================================================================
