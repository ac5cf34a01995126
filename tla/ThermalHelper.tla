---------------------------- MODULE ThermalHelper ----------------------------
(***************************************************************************)
(* The thermal service: a watcher thread waits for uevents of the thermal  *)
(* core or for a timeout, reads the monitored sensors, turns temperatures  *)
(* into severities with hysteresis, and notifies the callbacks that        *)
(* clients register and unregister on other threads.                       *)
(*                                                                         *)
(* Sensors are numbered in the order of sensor_status_map_; one that is    *)
(* not monitored is skipped everywhere and left out.  Time is counted      *)
(* while the watcher waits: what it does between two waits takes none.     *)
(***************************************************************************)
EXTENDS Integers, Sequences, FiniteSetsExt

CONSTANTS N,                 \* the monitored sensors are 1..N
          Types, Type,       \* Type[s] is the type of sensor s
          Shutdown,          \* the highest severity; 0 is NONE
          NaN,
          hot_thresholds, hot_hysteresis, cold_thresholds, cold_hysteresis,
          Temperatures,
          Clients,           \* a client has one callback
          kMinPollInterval, kUeventPollTimeout,
          MaxUevents,        \* bound: uevents that one wait finds in the socket
          None

Sensors    == 1..N
Levels     == 1..Shutdown
Severities == 0..Shutdown
AnyType    == "any"
Filters    == Types \cup {AnyType}

(***************************************************************************)
(* What ParseSensorInfo lets pass: thresholds that are set are in order,   *)
(* and a hysteresis may be any number.                                     *)
(***************************************************************************)
ASSUME ThermalAssumption ==
    /\ N \in Nat /\ Shutdown \in Nat /\ MaxUevents \in Nat
    /\ Temperatures \subseteq Int /\ NaN \notin Int
    /\ Type \in [Sensors -> Types] /\ AnyType \notin Types /\ None \notin Filters
    /\ kMinPollInterval \in Nat \ {0} /\ kUeventPollTimeout \in Nat
    /\ kMinPollInterval <= kUeventPollTimeout
    /\ hot_thresholds \in [Sensors -> [Levels -> Int \cup {NaN}]]
    /\ cold_thresholds \in [Sensors -> [Levels -> Int \cup {NaN}]]
    /\ hot_hysteresis \in [Sensors -> [Levels -> Int]]
    /\ cold_hysteresis \in [Sensors -> [Levels -> Int]]
    /\ \A s \in Sensors, i, j \in Levels : i < j =>
          /\ hot_thresholds[s][i] # NaN /\ hot_thresholds[s][j] # NaN =>
                hot_thresholds[s][i] <= hot_thresholds[s][j]
          /\ cold_thresholds[s][i] # NaN /\ cold_thresholds[s][j] # NaN =>
                cold_thresholds[s][i] >= cold_thresholds[s][j]

VARIABLES
    temp,                    \* the temperature of each sensor
    hot, cold, severity,     \* sensor_status_map_: prev_hot_severity, prev_cold_severity, severity
    callbacks,               \* the filter of each client's callback, or None
    alive, outdated,         \* the clients, and the sensors whose severity has changed since
                             \* a client was told
    pc, i,                   \* the watcher thread; the sensor it is at
    sensors,                 \* uevent_sensors; empty means all of them
    temps, found,            \* what it will notify; its thermal_triggered
    failed,                  \* the last attempt to read the sensor has failed
    thermal_triggered_, is_polling_,
    elapsed, remaining       \* time since last_update_time_, and left to wait

status  == <<hot, cold, severity, failed>>
clients == <<callbacks, alive, outdated>>
check   == <<i, sensors, temps, found>>
clock   == <<elapsed, remaining>>
mode    == <<thermal_triggered_, is_polling_>>
vars    == <<temp, status, clients, pc, check, mode, clock>>

(***************************************************************************)
(* registerFilesToWatch: without uevents the watcher polls, and its first  *)
(* check is overdue.                                                       *)
(***************************************************************************)
Init ==
    /\ temp \in [Sensors -> Temperatures]
    /\ hot = [s \in Sensors |-> 0] /\ cold = [s \in Sensors |-> 0]
    /\ severity = [s \in Sensors |-> 0] /\ failed = [s \in Sensors |-> FALSE]
    /\ callbacks = [c \in Clients |-> None] /\ alive = [c \in Clients |-> TRUE]
    /\ outdated = [c \in Clients |-> {}]
    /\ pc = "loop" /\ i = 1 /\ sensors = {} /\ temps = <<>> /\ found = FALSE
    /\ is_polling_ \in BOOLEAN /\ thermal_triggered_ = TRUE
    /\ elapsed = (IF is_polling_ THEN kMinPollInterval ELSE 0) /\ remaining = 0

-----------------------------------------------------------------------------
(* getSeverityFromThresholds.                                              *)
highest(levels) == IF levels = {} THEN 0 ELSE Max(levels)

hotAt(s, v)     == {l \in Levels : hot_thresholds[s][l] # NaN /\ hot_thresholds[s][l] <= v}
hotUntil(s, v)  == {l \in Levels : hot_thresholds[s][l] # NaN
                                    /\ hot_thresholds[s][l] - hot_hysteresis[s][l] < v}
coldAt(s, v)    == {l \in Levels : cold_thresholds[s][l] # NaN /\ cold_thresholds[s][l] >= v}
coldUntil(s, v) == {l \in Levels : cold_thresholds[s][l] # NaN
                                    /\ cold_thresholds[s][l] + cold_hysteresis[s][l] > v}

(* The hysteresis only delays a fall.                                      *)
alsoIfEqual(ret, ret_hysteresis, prev) == IF ret <= prev THEN ret_hysteresis ELSE ret
withHysteresis(ret, ret_hysteresis, prev) == IF ret < prev THEN ret_hysteresis ELSE ret

HotSeverity(s, v)  == withHysteresis(highest(hotAt(s, v)), highest(hotUntil(s, v)), hot[s])
ColdSeverity(s, v) == withHysteresis(highest(coldAt(s, v)), highest(coldUntil(s, v)), cold[s])

larger(a, b) == IF a > b THEN a ELSE b

-----------------------------------------------------------------------------
(***************************************************************************)
(* threadLoop: a check that is overdue is made at once; otherwise the      *)
(* watcher waits for the whole timeout, or until there is a uevent.        *)
(***************************************************************************)
timeout == IF thermal_triggered_ \/ is_polling_ THEN kMinPollInterval ELSE kUeventPollTimeout

beginCheck(set) == pc' = "check" /\ i' = 1 /\ sensors' = set /\ temps' = <<>> /\ found' = FALSE

pollUnlessOverdue ==
    IF elapsed < timeout
    THEN pc' = "poll" /\ remaining' = timeout /\ UNCHANGED check
    ELSE beginCheck({}) /\ remaining' = 0

threadLoop ==
    /\ pc = "loop"
    /\ pollUnlessOverdue
    /\ UNCHANGED <<temp, status, clients, mode, elapsed>>

tick ==
    /\ pc = "poll" /\ remaining > 0
    /\ elapsed < 2 * kUeventPollTimeout
    /\ remaining' = remaining - 1 /\ elapsed' = elapsed + 1
    /\ UNCHANGED <<temp, status, clients, pc, check, mode>>

pollTimeout ==
    /\ pc = "poll" /\ remaining = 0
    /\ beginCheck({})
    /\ UNCHANGED <<temp, status, clients, mode, clock>>

(* What is in the socket when a message ends the wait; a uevent may be     *)
(* lost.  Once a message of the thermal core has been seen, the names in   *)
(* later messages count, whatever their subsystem.                         *)
named(messages) ==
    {s \in Sensors : \E k \in DOMAIN messages :
        messages[k].name = s /\ \E j \in 1..k : messages[j].thermal}

parseUevent(uevents) ==
    /\ pc = "poll" /\ ~ is_polling_
    /\ remaining' = 0
    /\ IF named(uevents) = {} THEN pc' = "loop" /\ UNCHANGED check ELSE beginCheck(named(uevents))
    /\ UNCHANGED <<temp, status, clients, mode, elapsed>>

-----------------------------------------------------------------------------
(* thermalWatcherCallbackFunc, one step for each sensor.                   *)
onlyNamed(s) == s \notin sensors
isSkipped(s) == sensors # {} /\ s \notin sensors

forgetSkipped == UNCHANGED found
keepTriggered == found' = (found \/ severity[i] # 0)

skip ==
    /\ pc = "check" /\ i \in Sensors /\ isSkipped(i)
    /\ keepTriggered /\ i' = i + 1
    /\ UNCHANGED <<temp, status, clients, pc, sensors, temps, mode, clock>>

(* The sensor cannot be read; it does not count for the next timeout.      *)
readFails ==
    /\ pc = "check" /\ i \in Sensors /\ ~ isSkipped(i)
    /\ failed' = [failed EXCEPT ![i] = TRUE] /\ i' = i + 1
    /\ UNCHANGED <<temp, hot, cold, severity, clients, pc, sensors, temps, found, mode, clock>>

(* The callbacks a change of the sensor is for.                            *)
wanted(c, s) == callbacks[c] \in {AnyType, Type[s]}

readTemperature ==
    /\ pc = "check" /\ i \in Sensors /\ ~ isSkipped(i)
    /\ LET throttlingStatus == larger(HotSeverity(i, temp[i]), ColdSeverity(i, temp[i]))
       IN /\ hot' = [hot EXCEPT ![i] = HotSeverity(i, temp[i])]
          /\ cold' = [cold EXCEPT ![i] = ColdSeverity(i, temp[i])]
          /\ severity' = [severity EXCEPT ![i] = throttlingStatus]
          /\ temps' = IF throttlingStatus = severity[i] THEN temps
                      ELSE Append(temps, [sensor |-> i, throttlingStatus |-> throttlingStatus])
          /\ found' = (found \/ throttlingStatus # 0)
          /\ outdated' = [c \in Clients |->
                IF throttlingStatus # severity[i] /\ wanted(c, i) /\ alive[c] THEN outdated[c] \cup {i}
                ELSE outdated[c]]
    /\ failed' = [failed EXCEPT ![i] = FALSE] /\ i' = i + 1
    /\ UNCHANGED <<temp, callbacks, alive, pc, sensors, mode, clock>>

(* The callbacks' mutex is taken if there is anything to notify.           *)
takeCallbacks ==
    /\ pc = "check" /\ i \notin Sensors /\ temps # <<>>
    /\ pc' = "send"
    /\ UNCHANGED <<temp, status, clients, check, mode, clock>>

onlyTheFirst == temps' = <<>>
nextTemperature == temps' = Tail(temps)

(* A callback whose call fails is removed.                                 *)
sendThermalChangedCallback ==
    /\ pc = "send" /\ temps # <<>>
    /\ LET t == Head(temps)
       IN /\ outdated' = [c \in Clients |->
                        IF wanted(c, t.sensor) /\ t.throttlingStatus = severity[t.sensor]
                        THEN outdated[c] \ {t.sensor} ELSE outdated[c]]
          /\ callbacks' = [c \in Clients |->
                        IF wanted(c, t.sensor) /\ ~ alive[c] THEN None ELSE callbacks[c]]
    /\ nextTemperature
    /\ UNCHANGED <<temp, status, alive, pc, i, sensors, found, mode, clock>>

endCheck ==
    /\ pc \in {"check", "send"} /\ i \notin Sensors /\ temps = <<>>
    /\ pc' = "loop" /\ thermal_triggered_' = found /\ elapsed' = 0
    /\ i' = 1 /\ sensors' = {} /\ found' = FALSE
    /\ UNCHANGED <<temp, status, clients, temps, is_polling_, remaining>>

-----------------------------------------------------------------------------
(***************************************************************************)
(* Service threads.  A client learns the present severities by asking,     *)
(* when it registers.                                                      *)
(***************************************************************************)
registerThermalChangedCallback(c, filter) ==
    /\ pc # "send" /\ alive[c] /\ callbacks[c] = None
    /\ callbacks' = [callbacks EXCEPT ![c] = filter]
    /\ UNCHANGED <<temp, status, alive, outdated, pc, check, mode, clock>>

unregisterThermalChangedCallback(c) ==
    /\ pc # "send" /\ alive[c] /\ callbacks[c] # None
    /\ callbacks' = [callbacks EXCEPT ![c] = None]
    /\ outdated' = [outdated EXCEPT ![c] = {}]
    /\ UNCHANGED <<temp, status, alive, pc, check, mode, clock>>

-----------------------------------------------------------------------------
(* The environment: temperatures, and clients that die.                    *)
change(s, v) ==
    /\ v # temp[s]
    /\ temp' = [temp EXCEPT ![s] = v]
    /\ UNCHANGED <<status, clients, pc, check, mode, clock>>

die(c) ==
    /\ alive[c]
    /\ alive' = [alive EXCEPT ![c] = FALSE]
    /\ outdated' = [outdated EXCEPT ![c] = {}]
    /\ UNCHANGED <<temp, status, callbacks, pc, check, mode, clock>>

Messages == [thermal : BOOLEAN, name : Sensors \cup {None}]
Uevents  == UNION {[1..n -> Messages] : n \in 1..MaxUevents}

Watcher == threadLoop \/ tick \/ pollTimeout \/ skip \/ readFails
              \/ readTemperature \/ takeCallbacks \/ sendThermalChangedCallback \/ endCheck

Service == \E c \in Clients :
              \/ \E filter \in Filters : registerThermalChangedCallback(c, filter)
              \/ unregisterThermalChangedCallback(c)

Environment == \/ \E s \in Sensors, v \in Temperatures : change(s, v)
               \/ \E c \in Clients : die(c)

Next == Watcher \/ (\E uevents \in Uevents : parseUevent(uevents)) \/ Service \/ Environment

(* The watcher is a thread that always runs, and time passes while it      *)
(* waits, however often uevents end the wait.                              *)
Spec == Init /\ [][Next]_vars /\ WF_vars(Watcher) /\ SF_vars(tick)

-----------------------------------------------------------------------------
Idle == pc \in {"loop", "poll"}

(* The watcher, the status of the sensors and the callbacks.               *)
TypeOK ==
    /\ temp \in [Sensors -> Temperatures]
    /\ hot \in [Sensors -> Severities] /\ cold \in [Sensors -> Severities]
    /\ severity \in [Sensors -> Severities] /\ failed \in [Sensors -> BOOLEAN]
    /\ callbacks \in [Clients -> Filters \cup {None}] /\ alive \in [Clients -> BOOLEAN]
    /\ outdated \in [Clients -> SUBSET Sensors]
    /\ pc \in {"loop", "poll", "check", "send"} /\ i \in 1..(N + 1) /\ sensors \in SUBSET Sensors
    /\ temps \in Seq([sensor : Sensors, throttlingStatus : Severities]) /\ found \in BOOLEAN
    /\ thermal_triggered_ \in BOOLEAN /\ is_polling_ \in BOOLEAN
    /\ elapsed \in Nat /\ remaining \in Nat

(***************************************************************************)
(* When the watcher waits again, every client that is registered knows the *)
(* severity of every sensor its filter lets pass, whatever registered,     *)
(* unregistered or died between the check and the notifications.           *)
(***************************************************************************)
EveryoneTold ==
    Idle => \A c \in Clients, s \in Sensors :
                alive[c] /\ wanted(c, s) => s \notin outdated[c]

(* The hysteresis of a severity reaches past the threshold of a lower one. *)
hotOverlap(s, high, low) ==
    low # 0 /\ hot_thresholds[s][high] - hot_hysteresis[s][high] < hot_thresholds[s][low]
coldOverlap(s, high, low) ==
    low # 0 /\ cold_thresholds[s][high] + cold_hysteresis[s][high] > cold_thresholds[s][low]

(***************************************************************************)
(* A hot severity rises only at its threshold and is left only when the    *)
(* temperature is below the threshold by the hysteresis; cold ones         *)
(* likewise.  No oscillation within the band (getSeverityFromThresholds).  *)
(* The exception: a sensor that cools below the threshold of its severity  *)
(* rises to one whose hysteresis reaches that far.                         *)
(***************************************************************************)
HysteresisStep ==
    \A s \in Sensors :
        /\ hot'[s] > hot[s] =>
              hot_thresholds[s][hot'[s]] <= temp[s] \/ hotOverlap(s, hot'[s], hot[s])
        /\ hot'[s] < hot[s] => temp[s] <= hot_thresholds[s][hot[s]] - hot_hysteresis[s][hot[s]]
        /\ cold'[s] > cold[s] =>
              cold_thresholds[s][cold'[s]] >= temp[s] \/ coldOverlap(s, cold'[s], cold[s])
        /\ cold'[s] < cold[s] => temp[s] >= cold_thresholds[s][cold[s]] + cold_hysteresis[s][cold[s]]

Hysteresis == [][HysteresisStep]_vars

(***************************************************************************)
(* The watcher falls back to the long timeout only if no sensor is known   *)
(* to be throttling, those the last uevents did not name included; one     *)
(* that could not be read is the exception.                                *)
(***************************************************************************)
FastWhileThrottling ==
    Idle /\ ~ thermal_triggered_ => \A s \in Sensors : severity[s] = 0 \/ failed[s]

(***************************************************************************)
(* Uevents of other devices do not put off the check for ever: the watcher *)
(* waits less than twice its timeout (threadLoop).                         *)
(***************************************************************************)
CheckedInTime == elapsed < 2 * timeout

(***************************************************************************)
(* A temperature that stays is noticed even if its uevent was lost, and    *)
(* however many uevents of other devices end the wait: the severity        *)
(* settles at the one for the temperature.  Only uevents of other sensors  *)
(* can put it off (threadLoop, the empty set of sensors).                  *)
(***************************************************************************)
Noticed ==
    \A s \in Sensors, v \in Temperatures :
        <>[](temp[s] = v /\ ~ failed[s] /\ sensors = {}) =>
            <>[](severity[s] = larger(HotSeverity(s, v), ColdSeverity(s, v)))

-----------------------------------------------------------------------------
(***************************************************************************)
(* What one would expect and the code does not do: a sensor that cannot be *)
(* read keeps the short timeout while it throttles, uevents of one sensor  *)
(* do not put off the check of another, and no sensor that cools throttles *)
(* more, whatever hysteresis the configuration has.                        *)
(***************************************************************************)
FastWhileUnreadable == Idle /\ ~ thermal_triggered_ => \A s \in Sensors : severity[s] = 0
NoticedDespiteUevents ==
    \A s \in Sensors, v \in Temperatures :
        <>[](temp[s] = v /\ ~ failed[s]) =>
            <>[](severity[s] = larger(HotSeverity(s, v), ColdSeverity(s, v)))
RisesOnlyAtThreshold ==
    [][\A s \in Sensors : hot'[s] > hot[s] => hot_thresholds[s][hot'[s]] <= temp[s]]_vars
=============================================================================
