----------------------------- MODULE MCLocEngNi -----------------------------
(***************************************************************************)
(* Instances of LocEngNi.  Two requests are one in each session, or one    *)
(* that follows while the thread of the other, and an answer to it, are    *)
(* still under way.                                                        *)
(***************************************************************************)
EXTENDS LocEngNi
=============================================================================
