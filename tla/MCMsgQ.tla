------------------------------- MODULE MCMsgQ -------------------------------
(***************************************************************************)
(* Instances of MsgQ for TLC.                                              *)
(***************************************************************************)
EXTENDS MsgQ, TLC
Sym == Permutations(Receivers) \cup Permutations(Messages)
=============================================================================
