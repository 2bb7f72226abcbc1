------------------------------- MODULE MCStats -------------------------------
(* MWStats with two virtual ids, two classes and two tasks. *)
EXTENDS MWStats

CONSTANTS c1, c2

ClassSymmetry == Permutations(MWworkClasses)
=============================================================================
