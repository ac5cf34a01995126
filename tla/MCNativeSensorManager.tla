---------------------- MODULE MCNativeSensorManager ----------------------
(* A light sensor and a virtual sensor on it.  Of the two periods the      *)
(* service asks for, 5 is below the minimum of the light sensor and 12 is  *)
(* too long for an int of IntRange = 16 values, as a latency too.          *)
EXTENDS NativeSensorManager
CONSTANTS light, pocket
deps == pocket :> {light}
order == <<light, pocket>>
batches == {<<5, 5>>, <<12, 5>>, <<12, 12>>}
mins == light :> 6 @@ pocket :> 1
==========================================================================
