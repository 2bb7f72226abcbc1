------------------------------ MODULE MCSystem ------------------------------
(* MWSystem on small instances. *)
EXTENDS MWSystem

(* Condor-PVM: the task's end, then the host's. *)
PvmNotices == {<<"TASKEXIT", "HOSTDELETE">>}
(* Sockets: the connection is closed, once. *)
SocketNotices == {<<"HOSTDELETE">>}
=============================================================================
