----------------------------- MODULE MCLocTimer -----------------------------
(***************************************************************************)
(* LocTimer for TLC: one timer that can be restarted and one wrapper.  A   *)
(* second is two units of time, so that timers of one second differ in     *)
(* what ranks() does not see.  The system stops when the starts and the    *)
(* time are used up.                                                       *)
(***************************************************************************)
EXTENDS LocTimer
=============================================================================
