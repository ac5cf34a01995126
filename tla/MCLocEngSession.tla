--------------------------- MODULE MCLocEngSession ---------------------------
(* Starts, stops and the other calls in every order, with one restart of   *)
(* the modem.                                                              *)
EXTENDS LocEngSession
=============================================================================
