------------------------------ MODULE MCSocket ------------------------------
(* MWSocket with two slots. *)
EXTENDS MWSocket
=============================================================================
