----------------------------- MODULE MCExchange -----------------------------
(* Every application over every back end. *)
EXTENDS MWExchange

CONSTANTS w1, w2, c1, c2

WorkerDef == {w1, w2}
JobDef == <<2, 5, 3, 4, 1>>
(* One item of every type, and of those that a back end alters or drops one  *)
(* that it does.                                                             *)
Long(n) == [i \in 1..n |-> c1]
UserItemsDef ==
  <<Ints(<<1, 2, 3>>), Chars(<<c1, c2>>), Chars(<<c1, Blank, c2>>),
   Text(<<c1, Blank>>), Text(<<Blank, c1>>), Text(<<>>), Text(Long(127)), Text(Long(128)),
   Item("DOUBLE", <<3, 10>>), Item("DOUBLE", <<10, 20>>), Item("FLOAT", <<10>>),
   Item("LONG", <<<<0, 7>>>>), Item("UNSIGNED_LONG", <<<<1, 7>>>>),
   Item("UNSIGNED_INT", <<1>>), Item("SHORT", <<1, 2>>), Item("UNSIGNED_SHORT", <<1>>)>>
=============================================================================
