----------------------------- MODULE MWTaskPool -----------------------------
(***************************************************************************)
(* What MW promises its user about tasks (users-manual, MWDriver.h): every *)
(* task the user adds, at setup or from act_on_completed_task, is handed   *)
(* back with its result exactly once, new tasks come only from the user,   *)
(* and the computation ends by itself only when nothing is left to do.     *)
(* Nothing is said of workers: they may come, go, hang and be lost.        *)
(***************************************************************************)
CONSTANTS Task, InitialTasks

VARIABLES pending,  \* the tasks added and not acted upon
          done,     \* the tasks acted upon
          outcome   \* "open", "finished", or "aborted": how the computation ended

poolVars == <<pending, done, outcome>>

Init == pending = InitialTasks /\ done = {} /\ outcome = "open"

(* The result of t is acted upon; that adds the tasks N.  The computation *)
(* may end there, "finished" only if nothing is pending.                  *)
Complete(t, N) ==
  /\ outcome = "open"
  /\ t \in pending
  /\ pending' = (pending \ {t}) \cup N
  /\ done' = done \cup {t}
  /\ outcome' \in {"open", "aborted"} \cup (IF pending' = {} THEN {"finished"} ELSE {})

(* Something other than a result ends the computation early. *)
Abort ==
  /\ outcome = "open"
  /\ outcome' = "aborted"
  /\ UNCHANGED <<pending, done>>

Next ==
  \/ \E t \in Task, N \in SUBSET (Task \ (pending \cup done)) : Complete(t, N)
  \/ Abort

Spec == Init /\ [][Next]_poolVars
=============================================================================
