----------------------------- MODULE MCTaskList -----------------------------
(* MWTaskList with two key functions over a few tasks. *)
EXTENDS MWTaskList

CONSTANTS t1, t2, t3, t4

Tasks == {t1, t2, t3, t4}

(* Below all keys. *)
LeastKey == -5

(* Two orders, no key in both, some below the default key and some above. *)
Distinct ==
  {t1 :> -3 @@ t2 :> -1 @@ t3 :> 1 @@ t4 :> 3,
   t1 :> 2 @@ t2 :> -2 @@ t3 :> 5 @@ t4 :> -4}
=============================================================================
