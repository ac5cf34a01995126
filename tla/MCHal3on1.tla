------------------------------ MODULE MCHal3on1 ------------------------------
(* The requests of a camera application: preview, still captures with and  *)
(* without a preview, recording, and a snapshot while recording.           *)
EXTENDS Hal3on1

(* Manual exposure and automatic mode set the flash, a scene mode leaves it *)
(* as it is; the zoom is set late; a recording is started with automatic    *)
(* exposure.                                                                *)
keys      == {"flash", "iso", "zoom"}
late      == {"zoom"}
defaults  == [k \in keys |-> 0]
recordingParameters == [k \in {"iso"} |-> 0]
manual    == [k \in keys |-> IF k = "flash" THEN 0 ELSE 1]
automatic == [k \in keys |-> IF k = "flash" THEN 1 ELSE 0]
scene     == [k \in {"iso", "zoom"} |-> IF k = "iso" THEN 0 ELSE 1]
settingsOfRequests == {manual, automatic, scene}

requests ==
    {[still |-> k.still, outputs |-> k.outputs, settings |-> s] :
        s \in Settings,
        k \in {[still |-> FALSE, outputs |-> <<"preview">>],
               [still |-> TRUE,  outputs |-> <<"blob">>],
               [still |-> TRUE,  outputs |-> <<"preview", "blob">>],
               [still |-> FALSE, outputs |-> <<"preview", "video">>],
               [still |-> FALSE, outputs |-> <<"preview", "video", "blob">>]}}
=============================================================================
