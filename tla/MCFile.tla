------------------------------- MODULE MCFile -------------------------------
(* MWFile with one exec class. *)
EXTENDS MWFile

OneClass == <<1>>
=============================================================================
