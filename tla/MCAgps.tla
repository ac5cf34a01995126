------------------------------- MODULE MCAgps -------------------------------
(***************************************************************************)
(* An instance of AgpsStateMachine for TLC: a BIT client and two of the    *)
(* modem on the internet interface, which behaves as AGNSS does with one   *)
(* more kind of client.  Nif = "wifi" with WifiKinds is the WiFi machine.  *)
(***************************************************************************)
EXTENDS AgpsStateMachine
CONSTANTS c1, c2, c3
WifiKinds == [c \in Clients |-> "WIFI"]
MixedKinds == [c \in Clients |-> IF c = c1 THEN "BIT" ELSE "ATL"]
=============================================================================
