------------------------------- MODULE MCHosts -------------------------------
(* MWHosts with two arch classes: one program that uses "the easy way" to add *)
(* executables, one with two exec classes that share an arch class.           *)
EXTENDS MWHosts

Easy == <<[call |-> "add_executable"], [call |-> "add_executable"],
          [call |-> "set_target_num_workers", exec_class |-> -1, n |-> 2],
          [call |-> "set_worker_increment", n |-> 1]>>

ExecFor(c, a) == [call |-> "add_executable_for", exec_class |-> c, arch_class |-> a]

Classes == <<[call |-> "set_num_exec_classes", n |-> 2],
             [call |-> "set_num_arch_classes", n |-> 2],
             [call |-> "set_num_executables", n |-> 3],
             ExecFor(0, 0), ExecFor(0, 1), ExecFor(1, 1),
             [call |-> "set_target_num_workers", exec_class |-> 0, n |-> 1],
             [call |-> "set_target_num_workers", exec_class |-> 1, n |-> 1]>>

TwoPrograms == {Easy, Classes}

OneHost == <<1>>

MayTarget == {0, 2}
=============================================================================
