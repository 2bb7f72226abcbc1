------------------------------- MODULE MCSwap -------------------------------
(* MWSwap with a few tasks, two of them with the same key. *)
EXTENDS MWSwap

CONSTANTS t1, t2, t3

Tasks == {t1, t2, t3}

LeastKey == -5

Keys == t1 :> -2 @@ t2 :> 1 @@ t3 :> 1
=============================================================================
