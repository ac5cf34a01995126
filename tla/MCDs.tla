-------------------------------- MODULE MCDs --------------------------------
(***************************************************************************)
(* DSStateMachine for TLC: two sessions and the four retries of the code.  *)
(* The system stops when both sessions are over.                           *)
(***************************************************************************)
EXTENDS DSStateMachine
=============================================================================
