------------------------------- MODULE MWSums -------------------------------
(***************************************************************************)
(* Totals, as the code adds them up in its loops over ids, classes and     *)
(* workers.                                                                *)
(***************************************************************************)
EXTENDS Integers, Sequences, FiniteSets, FiniteSetsExt, SequencesExt, Functions

Total(s) == FoldLeft(+, 0, s)
=============================================================================
