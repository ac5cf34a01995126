---------------------------- MODULE MCLocThread -----------------------------
(***************************************************************************)
(* Instances of LocThread for TLC.  The system may stop: a client that has *)
(* destroyed its task does nothing more.                                   *)
(***************************************************************************)
EXTENDS LocThread
=============================================================================
