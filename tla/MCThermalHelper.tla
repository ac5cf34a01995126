--------------------------- MODULE MCThermalHelper ---------------------------
(* Two sensors of two types, both with hot and cold severities.  The       *)
(* hysteresis of the first one's highest hot severity reaches below the    *)
(* threshold of the lower one; the second has thresholds that are not set. *)
EXTENDS ThermalHelper

CONSTANT NoNumber

HotThresholds  == << <<1, 2>>, <<NoNumber, 2>> >>
HotHysteresis  == << <<0, 3>>, <<0, 0>> >>
ColdThresholds == << <<0, NoNumber>>, <<0, NoNumber>> >>
ColdHysteresis == << <<1, 0>>, <<2, 0>> >>
TypeOf         == <<"CPU", "SKIN">>
=============================================================================
