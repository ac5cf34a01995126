----------------------------- MODULE MCLocHeap ------------------------------
(***************************************************************************)
(* Seven nodes in four ranks: every sequence of pushes, pops and removals,  *)
(* with ties.                                                              *)
(***************************************************************************)
EXTENDS LocHeap
soonerRanksHigher(a, b) == (b \div 2) > (a \div 2)
=============================================================================
