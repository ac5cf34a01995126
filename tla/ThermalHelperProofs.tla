------------------------ MODULE ThermalHelperProofs -------------------------
(***************************************************************************)
(* Proofs about the thermal service, for any sensors, thresholds,          *)
(* hysteresis and timeouts that ParseSensorInfo lets pass: what a severity *)
(* may do within a hysteresis, and that uevents of other devices do not    *)
(* put off a check.                                                        *)
(***************************************************************************)
EXTENDS ThermalHelper, WellFoundedInduction, TLAPS

(* A set of natural numbers that is not empty has a least element,         *)
LEMMA Least ==
    ASSUME NEW S \in SUBSET Nat, S # {}
    PROVE  \E x \in S : \A y \in S : x <= y
<1> DEFINE less == OpToRel(<, Nat)
<1>1. IsWellFoundedOn(less, Nat)
  BY NatLessThanWellFounded
<1>2. \A x, y \in Nat : x < y => <<x, y>> \in less
  BY DEF OpToRel
<1> HIDE DEF less
<1>3. PICK x \in S : \A y \in S : ~ (<<y, x>> \in less)
  BY <1>1, WFMin
<1>4. \A y \in S : ~ (y < x)
  BY <1>2, <1>3
<1> QED
  BY <1>4

(* and a set of levels a greatest one.                                     *)
LEMMA Greatest ==
    ASSUME NEW S \in SUBSET Levels, S # {}
    PROVE  Max(S) \in S /\ \A y \in S : Max(S) >= y
<1> DEFINE below == {Shutdown - x : x \in S}
<1>0. Shutdown \in Nat /\ S \in SUBSET (1..Shutdown)
  BY ThermalAssumption DEF Levels
<1>1. below \in SUBSET Nat
  BY <1>0
<1>2. below # {}
  <2>1. PICK x : x \in S
    OBVIOUS
  <2>2. Shutdown - x \in below
    BY <2>1
  <2> QED
    BY <2>2
<1>3. PICK d \in below : \A e \in below : d <= e
  <2> HIDE DEF below
  <2> QED
    BY <1>1, <1>2, Least
<1>4. PICK x \in S : d = Shutdown - x
  OBVIOUS
<1>5. \A y \in S : x >= y
  <2> TAKE y \in S
  <2>1. Shutdown - y \in below
    OBVIOUS
  <2> QED
    BY <1>0, <1>3, <1>4, <2>1
<1> QED
  BY <1>5 DEF Max

(* The severity found for a temperature.                                   *)
LEMMA Highest ==
    ASSUME NEW S \in SUBSET Levels
    PROVE  /\ highest(S) \in Severities
           /\ S = {} => highest(S) = 0
           /\ S # {} => highest(S) \in S
           /\ \A y \in S : highest(S) >= y
<1>0. Shutdown \in Nat
  BY ThermalAssumption
<1>1. CASE S = {}
  <2>1. highest(S) = 0
    BY <1>1 DEF highest
  <2> QED
    BY <1>0, <1>1, <2>1 DEF Severities
<1>2. CASE S # {}
  <2>1. highest(S) = Max(S)
    BY <1>2 DEF highest
  <2>2. Max(S) \in S /\ \A y \in S : Max(S) >= y
    BY <1>2, Greatest
  <2>3. \A l \in Levels : l \in Severities
    BY <1>0 DEF Severities, Levels
  <2>4. Max(S) \in Severities
    BY <2>2, <2>3
  <2> QED
    BY <1>2, <2>1, <2>2, <2>4
<1> QED
  BY <1>1, <1>2

-----------------------------------------------------------------------------
(***************************************************************************)
(* What a severity is worth that was found with a previous one.  The       *)
(* hysteresis makes a severity rise only where it reaches past the         *)
(* threshold of the previous one.                                          *)
(***************************************************************************)
isSet(thresholds, s, l) == l # 0 => thresholds[s][l] # NaN

HotStep(s, v, new) ==
    /\ new \in Severities /\ isSet(hot_thresholds, s, new)
    /\ new > hot[s] => hot_thresholds[s][new] <= v \/ hotOverlap(s, new, hot[s])
    /\ new < hot[s] => v <= hot_thresholds[s][hot[s]] - hot_hysteresis[s][hot[s]]

ColdStep(s, v, new) ==
    /\ new \in Severities /\ isSet(cold_thresholds, s, new)
    /\ new > cold[s] => cold_thresholds[s][new] >= v \/ coldOverlap(s, new, cold[s])
    /\ new < cold[s] => v >= cold_thresholds[s][cold[s]] + cold_hysteresis[s][cold[s]]

LEMMA Hot ==
    ASSUME NEW s \in Sensors, NEW v \in Temperatures,
           hot[s] \in Severities, isSet(hot_thresholds, s, hot[s])
    PROVE  HotStep(s, v, HotSeverity(s, v))
<1> DEFINE at == hotAt(s, v)
           until == hotUntil(s, v)
           ret == highest(at)
           kept == highest(until)
<1>0. /\ v \in Int /\ Shutdown \in Nat /\ NaN \notin Int
      /\ \A l \in Levels : hot_thresholds[s][l] \in Int \cup {NaN} /\ hot_hysteresis[s][l] \in Int
  BY ThermalAssumption
<1>1. at \in SUBSET Levels /\ until \in SUBSET Levels
  BY DEF hotAt, hotUntil
<1>2. /\ ret \in Severities /\ kept \in Severities
      /\ ret # 0 => ret \in at
      /\ kept # 0 => kept \in until
      /\ \A l \in at : ret >= l
      /\ \A l \in until : kept >= l
  BY <1>1, Highest
<1>3. /\ \A l \in Levels : l \in at <=> hot_thresholds[s][l] # NaN /\ hot_thresholds[s][l] <= v
      /\ \A l \in Levels : l \in until <=>
            hot_thresholds[s][l] # NaN /\ hot_thresholds[s][l] - hot_hysteresis[s][l] < v
  BY DEF hotAt, hotUntil
<1>4. HotSeverity(s, v) = IF ret < hot[s] THEN kept ELSE ret
  BY DEF HotSeverity, withHysteresis
<1> HIDE DEF at, until, ret, kept
<1>5. CASE ret < hot[s]
  <2>1. hot[s] \in Levels /\ hot_thresholds[s][hot[s]] # NaN
    BY <1>0, <1>2, <1>5 DEF isSet, Severities, Levels
  <2>2. hot[s] \notin at
    BY <1>0, <1>2, <1>5, <2>1 DEF Severities, Levels
  <2>3. v < hot_thresholds[s][hot[s]]
    BY <1>0, <1>3, <2>1, <2>2
  <2>4. ASSUME kept > hot[s] PROVE hotOverlap(s, kept, hot[s])
    <3>1. kept \in until /\ kept \in Levels
      BY <1>0, <1>1, <1>2, <2>1, <2>4 DEF Severities, Levels
    <3>2. /\ hot_thresholds[s][kept] # NaN
          /\ hot_thresholds[s][kept] - hot_hysteresis[s][kept] < v
      BY <1>3, <3>1
    <3> QED
      BY <1>0, <2>1, <2>3, <3>1, <3>2 DEF hotOverlap, Levels
  <2>5. ASSUME kept < hot[s] PROVE v <= hot_thresholds[s][hot[s]] - hot_hysteresis[s][hot[s]]
    <3>1. hot[s] \notin until
      BY <1>0, <1>2, <2>1, <2>5 DEF Severities, Levels
    <3> QED
      BY <1>0, <1>3, <2>1, <3>1
  <2>6. isSet(hot_thresholds, s, kept)
    BY <1>1, <1>2, <1>3 DEF isSet
  <2> QED
    BY <1>2, <1>4, <1>5, <2>4, <2>5, <2>6 DEF HotStep
<1>6. CASE ~ (ret < hot[s])
  <2>1. isSet(hot_thresholds, s, ret)
    BY <1>1, <1>2, <1>3 DEF isSet
  <2>2. ret > hot[s] => hot_thresholds[s][ret] <= v
    BY <1>0, <1>1, <1>2, <1>3 DEF Severities, Levels
  <2> QED
    BY <1>2, <1>4, <1>6, <2>1, <2>2 DEF HotStep
<1> QED
  BY <1>5, <1>6

LEMMA Cold ==
    ASSUME NEW s \in Sensors, NEW v \in Temperatures,
           cold[s] \in Severities, isSet(cold_thresholds, s, cold[s])
    PROVE  ColdStep(s, v, ColdSeverity(s, v))
<1> DEFINE at == coldAt(s, v)
           until == coldUntil(s, v)
           ret == highest(at)
           kept == highest(until)
<1>0. /\ v \in Int /\ Shutdown \in Nat /\ NaN \notin Int
      /\ \A l \in Levels : cold_thresholds[s][l] \in Int \cup {NaN} /\ cold_hysteresis[s][l] \in Int
  BY ThermalAssumption
<1>1. at \in SUBSET Levels /\ until \in SUBSET Levels
  BY DEF coldAt, coldUntil
<1>2. /\ ret \in Severities /\ kept \in Severities
      /\ ret # 0 => ret \in at
      /\ kept # 0 => kept \in until
      /\ \A l \in at : ret >= l
      /\ \A l \in until : kept >= l
  BY <1>1, Highest
<1>3. /\ \A l \in Levels : l \in at <=> cold_thresholds[s][l] # NaN /\ cold_thresholds[s][l] >= v
      /\ \A l \in Levels : l \in until <=>
            cold_thresholds[s][l] # NaN /\ cold_thresholds[s][l] + cold_hysteresis[s][l] > v
  BY DEF coldAt, coldUntil
<1>4. ColdSeverity(s, v) = IF ret < cold[s] THEN kept ELSE ret
  BY DEF ColdSeverity, withHysteresis
<1> HIDE DEF at, until, ret, kept
<1>5. CASE ret < cold[s]
  <2>1. cold[s] \in Levels /\ cold_thresholds[s][cold[s]] # NaN
    BY <1>0, <1>2, <1>5 DEF isSet, Severities, Levels
  <2>2. cold[s] \notin at
    BY <1>0, <1>2, <1>5, <2>1 DEF Severities, Levels
  <2>3. v > cold_thresholds[s][cold[s]]
    BY <1>0, <1>3, <2>1, <2>2
  <2>4. ASSUME kept > cold[s] PROVE coldOverlap(s, kept, cold[s])
    <3>1. kept \in until /\ kept \in Levels
      BY <1>0, <1>1, <1>2, <2>1, <2>4 DEF Severities, Levels
    <3>2. /\ cold_thresholds[s][kept] # NaN
          /\ cold_thresholds[s][kept] + cold_hysteresis[s][kept] > v
      BY <1>3, <3>1
    <3> QED
      BY <1>0, <2>1, <2>3, <3>1, <3>2 DEF coldOverlap, Levels
  <2>5. ASSUME kept < cold[s] PROVE v >= cold_thresholds[s][cold[s]] + cold_hysteresis[s][cold[s]]
    <3>1. cold[s] \notin until
      BY <1>0, <1>2, <2>1, <2>5 DEF Severities, Levels
    <3> QED
      BY <1>0, <1>3, <2>1, <3>1
  <2>6. isSet(cold_thresholds, s, kept)
    BY <1>1, <1>2, <1>3 DEF isSet
  <2> QED
    BY <1>2, <1>4, <1>5, <2>4, <2>5, <2>6 DEF ColdStep
<1>6. CASE ~ (ret < cold[s])
  <2>1. isSet(cold_thresholds, s, ret)
    BY <1>1, <1>2, <1>3 DEF isSet
  <2>2. ret > cold[s] => cold_thresholds[s][ret] >= v
    BY <1>0, <1>1, <1>2, <1>3 DEF Severities, Levels
  <2> QED
    BY <1>2, <1>4, <1>6, <2>1, <2>2 DEF ColdStep
<1> QED
  BY <1>5, <1>6
-----------------------------------------------------------------------------
(***************************************************************************)
(* The inductive invariant.  Severities are levels whose threshold is set; *)
(* while a check is under way, a sensor that has been passed and throttles *)
(* has been noticed or could not be read, and whoever does not know a      *)
(* severity is about to be told it, by an entry of temps of its own.       *)
(***************************************************************************)
Levelled == \A s \in Sensors : isSet(hot_thresholds, s, hot[s]) /\ isSet(cold_thresholds, s, cold[s])

Passed ==
    /\ pc \in {"check", "send"} /\ ~ found => \A s \in Sensors : s < i => severity[s] = 0 \/ failed[s]
    /\ pc = "send" => i \notin Sensors

InTime == pc = "poll" => elapsed + remaining < 2 * timeout

ToBeTold ==
    \A c \in Clients, s \in Sensors : s \in outdated[c] /\ alive[c] /\ wanted(c, s) =>
        /\ pc \in {"check", "send"}
        /\ \E k \in 1..Len(temps) : temps[k].sensor = s /\ temps[k].throttlingStatus = severity[s]

Entries == \A k \in 1..Len(temps) : temps[k].sensor < i

KnowsAll == \A c \in Clients : callbacks[c] = None \/ ~ alive[c] => outdated[c] = {}

ThermalInv ==
    /\ TypeOK /\ Levelled
    /\ Passed /\ FastWhileThrottling
    /\ InTime /\ CheckedInTime
    /\ ToBeTold /\ Entries /\ KnowsAll

-----------------------------------------------------------------------------
LEMMA TimeoutType ==
    ASSUME thermal_triggered_ \in BOOLEAN, is_polling_ \in BOOLEAN
    PROVE  timeout \in Nat \ {0}
<1>1. kMinPollInterval \in Nat \ {0} /\ kUeventPollTimeout \in Nat \ {0}
  BY ThermalAssumption
<1> QED
  BY <1>1 DEF timeout

LEMMA InitInv == Init => ThermalInv
<1> SUFFICES ASSUME Init PROVE ThermalInv
  OBVIOUS
<1> USE DEF Init
<1>0. /\ N \in Nat /\ Shutdown \in Nat /\ 0 \in Severities
      /\ kMinPollInterval \in Nat \ {0} /\ kUeventPollTimeout \in Nat
      /\ kMinPollInterval <= kUeventPollTimeout
  BY ThermalAssumption DEF Severities
<1>1. failed \in [Sensors -> BOOLEAN] /\ alive \in [Clients -> BOOLEAN]
  BY Zenon
<1>2. found \in BOOLEAN /\ thermal_triggered_ \in BOOLEAN /\ is_polling_ \in BOOLEAN
  BY Zenon
<1>3. /\ temp \in [Sensors -> Temperatures]
      /\ hot \in [Sensors -> Severities] /\ cold \in [Sensors -> Severities]
      /\ severity \in [Sensors -> Severities]
      /\ callbacks \in [Clients -> Filters \cup {None}] /\ outdated \in [Clients -> SUBSET Sensors]
  BY <1>0
<1>4. elapsed \in Nat /\ remaining \in Nat
  BY <1>0
<1>5. TypeOK
  BY <1>0, <1>1, <1>2, <1>3, <1>4 DEF TypeOK
<1>6. Levelled
  BY DEF Levelled, isSet
<1>7. Passed /\ InTime
  BY DEF Passed, InTime
<1>8. FastWhileThrottling
  BY DEF FastWhileThrottling
<1>9. CheckedInTime
  BY <1>0 DEF CheckedInTime, timeout
<1>10. ToBeTold /\ Entries /\ KnowsAll
  BY DEF ToBeTold, Entries, KnowsAll
<1> QED
  BY <1>5, <1>6, <1>7, <1>8, <1>9, <1>10 DEF ThermalInv

-----------------------------------------------------------------------------
(***************************************************************************)
(* One lemma for each action.  First those of the watcher that only wait,  *)
(* which change neither the sensors nor the clients.                       *)
(***************************************************************************)
NobodyWaits == \A c \in Clients, s \in Sensors : ~ (s \in outdated[c] /\ alive[c] /\ wanted(c, s))

LEMMA Waiting ==
    ASSUME ThermalInv, Idle
    PROVE  NobodyWaits
BY DEF ThermalInv, ToBeTold, Idle, NobodyWaits

(* A check begins.                                                         *)
LEMMA BeginStep ==
    ASSUME ThermalInv, Idle, NEW set \in SUBSET Sensors, beginCheck(set),
           UNCHANGED <<temp, status, clients, mode, elapsed>>, remaining' \in Nat
    PROVE  ThermalInv'
<1> USE DEF status, clients, mode, beginCheck
<1>0. N \in Nat
  BY ThermalAssumption
<1>1. TypeOK'
  <2>1. found' \in BOOLEAN
    BY Zenon
  <2> QED
    BY <1>0, <2>1 DEF ThermalInv, TypeOK
<1>2. Levelled'
  BY DEF ThermalInv, Levelled
<1>3. (Passed /\ FastWhileThrottling /\ InTime)'
  BY DEF ThermalInv, TypeOK, Passed, FastWhileThrottling, InTime, Idle, Sensors
<1>4. CheckedInTime'
  BY DEF ThermalInv, CheckedInTime, timeout
<1>5. (Entries /\ KnowsAll)'
  BY DEF ThermalInv, Entries, KnowsAll
<1>6. ToBeTold'
  BY Waiting DEF ToBeTold, NobodyWaits, wanted
<1> QED
  BY <1>1, <1>2, <1>3, <1>4, <1>5, <1>6 DEF ThermalInv

(* The watcher waits, or goes round the loop: nothing of a check changes.  *)
LEMMA WaitStep ==
    ASSUME ThermalInv, Idle, Idle',
           UNCHANGED <<temp, status, clients, check, mode>>,
           elapsed' \in Nat, remaining' \in Nat, InTime', CheckedInTime'
    PROVE  ThermalInv'
<1> USE DEF status, clients, mode, check
<1>1. TypeOK'
  BY DEF ThermalInv, TypeOK, Idle
<1>2. Levelled'
  BY DEF ThermalInv, Levelled
<1>3. (Passed /\ FastWhileThrottling)'
  BY DEF ThermalInv, Passed, FastWhileThrottling, Idle
<1>4. (Entries /\ KnowsAll)'
  BY DEF ThermalInv, Entries, KnowsAll
<1>5. ToBeTold'
  BY Waiting DEF ToBeTold, NobodyWaits, wanted
<1> QED
  BY <1>1, <1>2, <1>3, <1>4, <1>5 DEF ThermalInv

LEMMA ThreadLoopStep == ThermalInv /\ threadLoop => ThermalInv'
<1> SUFFICES ASSUME ThermalInv, threadLoop PROVE ThermalInv'
  OBVIOUS
<1>0. Idle /\ thermal_triggered_ \in BOOLEAN /\ is_polling_ \in BOOLEAN /\ elapsed \in Nat
  BY DEF ThermalInv, TypeOK, threadLoop, Idle
<1>1. timeout \in Nat \ {0} /\ timeout' = timeout
  BY <1>0, TimeoutType DEF threadLoop, mode, timeout
<1>2. CASE elapsed < timeout
  <2>1. /\ pc' = "poll" /\ remaining' = timeout /\ elapsed' = elapsed
        /\ UNCHANGED <<temp, status, clients, check, mode>>
    BY <1>2 DEF threadLoop, pollUnlessOverdue
  <2>2. (InTime /\ CheckedInTime)'
    BY <1>0, <1>1, <1>2, <2>1 DEF InTime, CheckedInTime
  <2> QED
    BY <1>0, <1>1, <2>1, <2>2, WaitStep DEF Idle
<1>3. CASE ~ (elapsed < timeout)
  <2>1. beginCheck({}) /\ remaining' = 0 /\ UNCHANGED <<temp, status, clients, mode, elapsed>>
    BY <1>3 DEF threadLoop, pollUnlessOverdue
  <2> QED
    BY <1>0, <2>1, BeginStep
<1> QED
  BY <1>2, <1>3

LEMMA TickStep == ThermalInv /\ tick => ThermalInv'
<1> SUFFICES ASSUME ThermalInv, tick PROVE ThermalInv'
  OBVIOUS
<1>0. /\ thermal_triggered_ \in BOOLEAN /\ is_polling_ \in BOOLEAN
      /\ elapsed \in Nat /\ remaining \in Nat
  BY DEF ThermalInv, TypeOK
<1>1. timeout \in Nat \ {0} /\ timeout' = timeout
  BY <1>0, TimeoutType DEF tick, mode, timeout
<1>2. /\ pc = "poll" /\ pc' = "poll" /\ remaining > 0
      /\ remaining' = remaining - 1 /\ elapsed' = elapsed + 1
      /\ UNCHANGED <<temp, status, clients, check, mode>>
  BY DEF tick
<1>3. elapsed + remaining < 2 * timeout
  BY <1>2 DEF ThermalInv, InTime
<1>4. (InTime /\ CheckedInTime)'
  BY <1>0, <1>1, <1>2, <1>3 DEF InTime, CheckedInTime
<1>5. elapsed' \in Nat /\ remaining' \in Nat
  BY <1>0, <1>2
<1> QED
  BY <1>2, <1>4, <1>5, WaitStep DEF Idle

LEMMA PollTimeoutStep == ThermalInv /\ pollTimeout => ThermalInv'
<1> SUFFICES ASSUME ThermalInv, pollTimeout PROVE ThermalInv'
  OBVIOUS
<1>1. /\ Idle /\ beginCheck({}) /\ remaining' \in Nat
      /\ UNCHANGED <<temp, status, clients, mode, elapsed>>
  BY DEF pollTimeout, Idle, clock, ThermalInv, TypeOK
<1> QED
  BY <1>1, BeginStep

LEMMA ParseUeventStep ==
    ASSUME NEW uevents, ThermalInv, parseUevent(uevents) PROVE ThermalInv'
<1>1. /\ pc = "poll" /\ Idle /\ remaining' = 0
      /\ UNCHANGED <<temp, status, clients, mode, elapsed>>
  BY DEF parseUevent, Idle
<1>2. CASE named(uevents) = {}
  <2>1. pc' = "loop" /\ UNCHANGED check
    BY <1>2 DEF parseUevent
  <2>2. (InTime /\ CheckedInTime)'
    BY <1>1, <2>1 DEF ThermalInv, InTime, CheckedInTime, timeout, mode
  <2>3. elapsed' \in Nat /\ remaining' \in Nat /\ Idle'
    BY <1>1, <2>1 DEF ThermalInv, TypeOK, Idle
  <2> QED
    BY <1>1, <2>1, <2>2, <2>3, WaitStep
<1>3. CASE named(uevents) # {}
  <2>1. beginCheck(named(uevents)) /\ named(uevents) \in SUBSET Sensors /\ remaining' \in Nat
    BY <1>1, <1>3 DEF parseUevent, named
  <2> QED
    BY <1>1, <2>1, BeginStep
<1> QED
  BY <1>2, <1>3

-----------------------------------------------------------------------------
(* The check itself.                                                       *)
Checking == pc = "check" /\ pc' = "check" /\ i \in Sensors /\ i' = i + 1

(* While a check goes on, only what is said of the sensors matters.        *)
LEMMA CheckStep ==
    ASSUME ThermalInv, Checking, TypeOK', Levelled', Passed', ToBeTold', Entries',
           UNCHANGED <<callbacks, alive, mode, clock>>,
           KnowsAll'
    PROVE  ThermalInv'
<1>1. (FastWhileThrottling /\ InTime)'
  BY DEF Checking, FastWhileThrottling, InTime, Idle
<1>2. CheckedInTime'
  BY DEF ThermalInv, CheckedInTime, timeout, mode, clock
<1> QED
  BY <1>1, <1>2 DEF ThermalInv

LEMMA NextIndex ==
    ASSUME ThermalInv, Checking
    PROVE  i \in 1..N /\ i' \in 1..(N + 1) /\ i' = i + 1 /\ N \in Nat
BY ThermalAssumption DEF Checking, Sensors, ThermalInv, TypeOK

LEMMA EntryType ==
    ASSUME TypeOK
    PROVE  /\ Len(temps) \in Nat
           /\ \A k \in 1..Len(temps) :
                temps[k].sensor \in 1..N /\ temps[k].throttlingStatus \in Severities
<1> DEFINE R == [sensor : Sensors, throttlingStatus : Severities]
<1>1. temps \in Seq(R)
  BY DEF TypeOK
<1>2. \A t \in R : t.sensor \in Sensors /\ t.throttlingStatus \in Severities
  OBVIOUS
<1> HIDE DEF R
<1>3. Len(temps) \in Nat /\ \A k \in 1..Len(temps) : temps[k] \in R
  BY <1>1
<1> QED
  BY <1>2, <1>3 DEF Sensors

LEMMA EntriesStay ==
    ASSUME ThermalInv, Checking, temps' = temps
    PROVE  Entries'
<1>1. i \in 1..N /\ i' = i + 1
  BY NextIndex
<1>2. Len(temps) \in Nat /\ \A k \in 1..Len(temps) : temps[k].sensor \in 1..N /\ temps[k].sensor < i
  BY EntryType DEF ThermalInv, Entries
<1>3. \A k \in 1..Len(temps) : temps[k].sensor < i'
  BY <1>1, <1>2
<1> QED
  BY <1>3 DEF Entries

LEMMA SkipStep == ThermalInv /\ skip => ThermalInv'
<1> SUFFICES ASSUME ThermalInv, skip PROVE ThermalInv'
  OBVIOUS
<1>0. Checking
  BY DEF skip, Checking
<1>1. i \in 1..N /\ i' \in 1..(N + 1) /\ i' = i + 1 /\ N \in Nat
  BY <1>0, NextIndex
<1>2. /\ pc = "check" /\ pc' = "check"
      /\ UNCHANGED <<temp, hot, cold, severity, failed, callbacks, alive, outdated, sensors, temps,
                     thermal_triggered_, is_polling_, elapsed, remaining>>
  BY DEF skip, status, clients, mode, clock
<1>3. found' \in BOOLEAN
  BY Zenon DEF skip, keepTriggered
<1>4. TypeOK'
  BY <1>1, <1>2, <1>3 DEF ThermalInv, TypeOK
<1>5. Levelled'
  BY <1>2 DEF ThermalInv, Levelled
<1>6. Passed'
  <2>1. ASSUME ~ found', NEW s \in Sensors, s < i' PROVE severity[s] = 0 \/ failed[s]
    <3>1. ~ found /\ severity[i] = 0
      BY <2>1, Zenon DEF skip, keepTriggered
    <3>2. s < i \/ s = i
      BY <1>1, <2>1 DEF Sensors
    <3> QED
      BY <1>2, <3>1, <3>2 DEF ThermalInv, Passed
  <2> QED
    BY <1>2, <2>1 DEF Passed
<1>7. ToBeTold'
  BY <1>2 DEF ThermalInv, ToBeTold, wanted
<1>8. Entries'
  BY <1>0, <1>2, EntriesStay
<1>9. KnowsAll'
  BY <1>2 DEF ThermalInv, KnowsAll
<1> QED
  BY <1>0, <1>2, <1>4, <1>5, <1>6, <1>7, <1>8, <1>9, CheckStep DEF mode, clock

LEMMA ReadFailsStep == ThermalInv /\ readFails => ThermalInv'
<1> SUFFICES ASSUME ThermalInv, readFails PROVE ThermalInv'
  OBVIOUS
<1>0. Checking
  BY DEF readFails, Checking
<1>1. i \in 1..N /\ i' \in 1..(N + 1) /\ i' = i + 1 /\ N \in Nat
  BY <1>0, NextIndex
<1>2. /\ pc = "check" /\ pc' = "check"
      /\ UNCHANGED <<temp, hot, cold, severity, callbacks, alive, outdated, sensors, temps, found,
                     thermal_triggered_, is_polling_, elapsed, remaining>>
  BY DEF readFails, clients, mode, clock
<1>3. failed \in [Sensors -> BOOLEAN] /\ failed' = [failed EXCEPT ![i] = TRUE]
  BY DEF readFails, ThermalInv, TypeOK
<1>4. failed' \in [Sensors -> BOOLEAN]
  BY <1>3, Zenon
<1>5. TypeOK'
  BY <1>1, <1>2, <1>4 DEF ThermalInv, TypeOK
<1>6. Levelled'
  BY <1>2 DEF ThermalInv, Levelled
<1>7. Passed'
  <2>1. ASSUME ~ found, NEW s \in Sensors, s < i' PROVE severity[s] = 0 \/ failed'[s]
    <3>1. CASE s < i
      BY <1>2, <1>3, <2>1, <3>1 DEF ThermalInv, Passed
    <3>2. CASE s = i
      BY <1>3, <3>2
    <3> QED
      BY <1>1, <2>1, <3>1, <3>2 DEF Sensors
  <2> QED
    BY <1>2, <2>1 DEF Passed
<1>8. ToBeTold'
  BY <1>2 DEF ThermalInv, ToBeTold, wanted
<1>9. Entries'
  BY <1>0, <1>2, EntriesStay
<1>10. KnowsAll'
  BY <1>2 DEF ThermalInv, KnowsAll
<1> QED
  BY <1>0, <1>2, <1>5, <1>6, <1>7, <1>8, <1>9, <1>10, CheckStep DEF mode, clock

(* What the hysteresis lemmas say of the sensor that is read.              *)
LEMMA ReadHotCold ==
    ASSUME ThermalInv, i \in Sensors
    PROVE  HotStep(i, temp[i], HotSeverity(i, temp[i])) /\ ColdStep(i, temp[i], ColdSeverity(i, temp[i]))
<1>1. /\ temp[i] \in Temperatures /\ hot[i] \in Severities /\ cold[i] \in Severities
      /\ isSet(hot_thresholds, i, hot[i]) /\ isSet(cold_thresholds, i, cold[i])
  BY DEF ThermalInv, TypeOK, Levelled
<1> QED
  BY <1>1, Hot, Cold

LEMMA ReadTemperatureStep == ThermalInv /\ readTemperature => ThermalInv'
<1> SUFFICES ASSUME ThermalInv, readTemperature PROVE ThermalInv'
  OBVIOUS
<1> DEFINE h == HotSeverity(i, temp[i])
           c == ColdSeverity(i, temp[i])
           new == larger(h, c)
           entry == [sensor |-> i, throttlingStatus |-> new]
<1>0. Checking
  BY DEF readTemperature, Checking
<1>1. i \in 1..N /\ i' \in 1..(N + 1) /\ i' = i + 1 /\ N \in Nat /\ i \in Sensors
  BY <1>0, NextIndex DEF Checking
<1>2. /\ pc = "check" /\ pc' = "check"
      /\ UNCHANGED <<temp, callbacks, alive, sensors, thermal_triggered_, is_polling_, elapsed, remaining>>
  BY DEF readTemperature, mode, clock
<1>3. HotStep(i, temp[i], h) /\ ColdStep(i, temp[i], c)
  BY <1>1, ReadHotCold
<1>4. /\ hot' = [hot EXCEPT ![i] = h] /\ cold' = [cold EXCEPT ![i] = c]
      /\ severity' = [severity EXCEPT ![i] = new]
      /\ failed' = [failed EXCEPT ![i] = FALSE]
  BY DEF readTemperature
<1>5. temps' = IF new = severity[i] THEN temps ELSE Append(temps, entry)
  BY DEF readTemperature
<1>6. found' = (found \/ new # 0)
  BY DEF readTemperature
<1>7. outdated' = [d \in Clients |->
          IF new # severity[i] /\ wanted(d, i) /\ alive[d] THEN outdated[d] \cup {i} ELSE outdated[d]]
  BY DEF readTemperature
<1>8. h \in Severities /\ c \in Severities /\ new \in Severities
  BY <1>3 DEF HotStep, ColdStep, larger
<1>9. isSet(hot_thresholds, i, h) /\ isSet(cold_thresholds, i, c)
  BY <1>3 DEF HotStep, ColdStep
<1> HIDE DEF h, c, new
<1>10. temps \in Seq([sensor : Sensors, throttlingStatus : Severities])
  BY DEF ThermalInv, TypeOK
<1>11. /\ Len(temps) \in Nat /\ temps' \in Seq([sensor : Sensors, throttlingStatus : Severities])
       /\ Len(temps') \in Nat /\ Len(temps) <= Len(temps')
       /\ \A k \in 1..Len(temps) : temps'[k] = temps[k]
       /\ new # severity[i] => Len(temps') = Len(temps) + 1 /\ temps'[Len(temps) + 1] = entry
       /\ new = severity[i] => temps' = temps
  <2>1. CASE new = severity[i]
    BY <1>5, <1>10, <2>1
  <2>2. CASE new # severity[i]
    <3>1. entry \in [sensor : Sensors, throttlingStatus : Severities] /\ temps' = Append(temps, entry)
      BY <1>1, <1>5, <1>8, <2>2
    <3> QED
      BY <1>10, <2>2, <3>1
  <2> QED
    BY <2>1, <2>2
<1>12. TypeOK'
  <2>1. found' \in BOOLEAN
    BY <1>6, Zenon
  <2>2. failed' \in [Sensors -> BOOLEAN]
    <3>1. failed \in [Sensors -> BOOLEAN]
      BY DEF ThermalInv, TypeOK
    <3> QED
      BY <1>4, <3>1, Zenon
  <2>3. /\ hot' \in [Sensors -> Severities] /\ cold' \in [Sensors -> Severities]
        /\ severity' \in [Sensors -> Severities]
    BY <1>4, <1>8 DEF ThermalInv, TypeOK
  <2>4. outdated' \in [Clients -> SUBSET Sensors]
    BY <1>1, <1>7 DEF ThermalInv, TypeOK
  <2> QED
    BY <1>1, <1>2, <1>11, <2>1, <2>2, <2>3, <2>4 DEF ThermalInv, TypeOK
<1>13. Levelled'
  <2>1. hot \in [Sensors -> Severities] /\ cold \in [Sensors -> Severities]
    BY DEF ThermalInv, TypeOK
  <2> QED
    BY <1>4, <1>9, <2>1 DEF ThermalInv, Levelled, isSet
<1>14. Passed'
  <2>1. ASSUME ~ found', NEW s \in Sensors, s < i' PROVE severity'[s] = 0 \/ failed'[s]
    <3>1. ~ found /\ new = 0
      BY <1>6, <2>1, Zenon
    <3>2. severity \in [Sensors -> Severities] /\ failed \in [Sensors -> BOOLEAN]
      BY DEF ThermalInv, TypeOK
    <3>3. CASE s = i
      BY <1>4, <3>1, <3>2, <3>3
    <3>4. CASE s < i
      <4>1. s # i
        BY <1>1, <3>4
      <4>2. severity[s] = 0 \/ failed[s]
        BY <1>2, <3>1, <3>4 DEF ThermalInv, Passed
      <4> QED
        BY <1>4, <3>2, <4>1, <4>2
    <3> QED
      BY <1>1, <2>1, <3>3, <3>4 DEF Sensors
  <2> QED
    BY <1>2, <2>1 DEF Passed
<1>15. \A k \in 1..Len(temps) : temps[k].sensor \in 1..N /\ temps[k].sensor < i
  BY EntryType DEF ThermalInv, Entries
<1>16. Entries'
  <2>1. ASSUME NEW k \in 1..Len(temps') PROVE temps'[k].sensor < i'
    <3>1. CASE k \in 1..Len(temps)
      BY <1>1, <1>11, <1>15, <3>1
    <3>2. CASE k \notin 1..Len(temps)
      <4>1. k = Len(temps) + 1 /\ temps'[k] = entry
        BY <1>11, <2>1, <3>2
      <4> QED
        BY <1>1, <4>1
    <3> QED
      BY <3>1, <3>2
  <2> QED
    BY <2>1 DEF Entries
<1>17. ToBeTold'
  <2> SUFFICES ASSUME NEW d \in Clients, NEW s \in Sensors,
                      s \in outdated'[d], alive[d], wanted(d, s)
               PROVE  \E k \in 1..Len(temps') :
                          temps'[k].sensor = s /\ temps'[k].throttlingStatus = severity'[s]
    BY <1>2 DEF ToBeTold, wanted
  <2>0. severity \in [Sensors -> Severities]
    BY DEF ThermalInv, TypeOK
  <2>1. CASE s = i /\ new # severity[i]
    <3>1. Len(temps) + 1 \in 1..Len(temps') /\ temps'[Len(temps) + 1] = entry
      BY <1>11, <2>1
    <3> QED
      BY <1>4, <2>0, <2>1, <3>1
  <2>2. CASE ~ (s = i /\ new # severity[i])
    <3>1. s \in outdated[d]
      BY <1>7, <2>2
    <3>2. PICK k \in 1..Len(temps) : temps[k].sensor = s /\ temps[k].throttlingStatus = severity[s]
      BY <3>1 DEF ThermalInv, ToBeTold
    <3>3. s # i
      BY <1>1, <1>15, <3>2
    <3>4. k \in 1..Len(temps') /\ temps'[k] = temps[k] /\ severity'[s] = severity[s]
      BY <1>4, <1>11, <2>0, <3>3
    <3> QED
      BY <3>2, <3>4
  <2> QED
    BY <2>1, <2>2
<1>18. KnowsAll'
  <2> SUFFICES ASSUME NEW d \in Clients, callbacks[d] = None \/ ~ alive[d] PROVE outdated'[d] = {}
    BY <1>2 DEF KnowsAll
  <2>1. None # AnyType /\ None # Type[i]
    BY <1>1, ThermalAssumption DEF Filters
  <2>2. outdated'[d] = outdated[d]
    BY <1>7, <2>1 DEF wanted
  <2> QED
    BY <2>2 DEF ThermalInv, KnowsAll
<1> QED
  BY <1>0, <1>2, <1>12, <1>13, <1>14, <1>16, <1>17, <1>18, CheckStep DEF mode, clock

-----------------------------------------------------------------------------
(* The notifications and the end of a check.                               *)
LEMMA TakeCallbacksStep == ThermalInv /\ takeCallbacks => ThermalInv'
<1> SUFFICES ASSUME ThermalInv, takeCallbacks PROVE ThermalInv'
  OBVIOUS
<1>1. /\ pc = "check" /\ pc' = "send" /\ i \notin Sensors
      /\ UNCHANGED <<temp, hot, cold, severity, failed, callbacks, alive, outdated, i, sensors, temps,
                     found, thermal_triggered_, is_polling_, elapsed, remaining>>
  BY DEF takeCallbacks, status, clients, check, mode, clock
<1>2. TypeOK'
  BY <1>1 DEF ThermalInv, TypeOK
<1>3. Levelled'
  BY <1>1 DEF ThermalInv, Levelled
<1>4. (Passed /\ FastWhileThrottling /\ InTime)'
  BY <1>1 DEF ThermalInv, Passed, FastWhileThrottling, InTime, Idle
<1>5. CheckedInTime'
  BY <1>1 DEF ThermalInv, CheckedInTime, timeout
<1>6. ToBeTold'
  BY <1>1 DEF ThermalInv, ToBeTold, wanted
<1>7. (Entries /\ KnowsAll)'
  BY <1>1 DEF ThermalInv, Entries, KnowsAll
<1> QED
  BY <1>2, <1>3, <1>4, <1>5, <1>6, <1>7 DEF ThermalInv

LEMMA SendStep == ThermalInv /\ sendThermalChangedCallback => ThermalInv'
<1> SUFFICES ASSUME ThermalInv, sendThermalChangedCallback PROVE ThermalInv'
  OBVIOUS
<1> DEFINE t == temps[1]
           R == [sensor : Sensors, throttlingStatus : Severities]
<1>1. /\ pc = "send" /\ pc' = "send" /\ temps # <<>> /\ temps' = Tail(temps)
      /\ UNCHANGED <<temp, hot, cold, severity, failed, alive, i, sensors, found,
                     thermal_triggered_, is_polling_, elapsed, remaining>>
  BY DEF sendThermalChangedCallback, nextTemperature, status, mode, clock
<1>2. temps \in Seq(R)
  BY DEF ThermalInv, TypeOK
<1>3. Head(temps) = t
  BY <1>1, <1>2
<1>4. /\ outdated' = [c \in Clients |->
              IF wanted(c, t.sensor) /\ t.throttlingStatus = severity[t.sensor]
              THEN outdated[c] \ {t.sensor} ELSE outdated[c]]
      /\ callbacks' = [c \in Clients |->
              IF wanted(c, t.sensor) /\ ~ alive[c] THEN None ELSE callbacks[c]]
  BY <1>3 DEF sendThermalChangedCallback
<1>5. /\ Len(temps) \in Nat /\ temps' \in Seq(R) /\ Len(temps') = Len(temps) - 1
      /\ \A k \in 1..Len(temps') : temps'[k] = temps[k + 1]
  <2> HIDE DEF R
  <2> QED
    BY <1>1, <1>2
<1>6. TypeOK'
  <2>1. outdated' \in [Clients -> SUBSET Sensors] /\ callbacks' \in [Clients -> Filters \cup {None}]
    BY <1>4 DEF ThermalInv, TypeOK
  <2> QED
    BY <1>1, <1>5, <2>1 DEF ThermalInv, TypeOK
<1>7. Levelled'
  BY <1>1 DEF ThermalInv, Levelled
<1>8. (Passed /\ FastWhileThrottling /\ InTime)'
  BY <1>1 DEF ThermalInv, Passed, FastWhileThrottling, InTime, Idle
<1>9. CheckedInTime'
  BY <1>1 DEF ThermalInv, CheckedInTime, timeout
<1>10. ToBeTold'
  <2> SUFFICES ASSUME NEW c \in Clients, NEW s \in Sensors,
                      s \in outdated'[c], alive[c], wanted(c, s)'
               PROVE  \E k \in 1..Len(temps') :
                          temps'[k].sensor = s /\ temps'[k].throttlingStatus = severity[s]
    BY <1>1 DEF ToBeTold
  <2>1. wanted(c, s) /\ s \in outdated[c]
    BY <1>4 DEF wanted
  <2>2. PICK k \in 1..Len(temps) : temps[k].sensor = s /\ temps[k].throttlingStatus = severity[s]
    BY <2>1 DEF ThermalInv, ToBeTold
  <2>3. k # 1
    BY <1>4, <2>1, <2>2
  <2>4. k - 1 \in 1..Len(temps') /\ temps'[k - 1] = temps[k]
    BY <1>5, <2>2, <2>3
  <2> QED
    BY <2>2, <2>4
<1>11. Entries'
  <2>1. \A k \in 1..Len(temps) : temps[k].sensor < i
    BY DEF ThermalInv, Entries
  <2>2. \A k \in 1..Len(temps') : k + 1 \in 1..Len(temps)
    BY <1>5
  <2> QED
    BY <1>1, <1>5, <2>1, <2>2 DEF Entries
<1>12. KnowsAll'
  <2> SUFFICES ASSUME NEW c \in Clients, callbacks'[c] = None \/ ~ alive[c] PROVE outdated'[c] = {}
    BY <1>1 DEF KnowsAll
  <2>1. callbacks[c] = None \/ ~ alive[c]
    BY <1>4
  <2>2. outdated[c] = {}
    BY <2>1 DEF ThermalInv, KnowsAll
  <2> QED
    BY <1>4, <2>2
<1> QED
  BY <1>6, <1>7, <1>8, <1>9, <1>10, <1>11, <1>12 DEF ThermalInv

LEMMA EndCheckStep == ThermalInv /\ endCheck => ThermalInv'
<1> SUFFICES ASSUME ThermalInv, endCheck PROVE ThermalInv'
  OBVIOUS
<1>1. /\ pc \in {"check", "send"} /\ i \notin Sensors /\ temps = <<>>
      /\ pc' = "loop" /\ elapsed' = 0 /\ i' = 1 /\ sensors' = {} /\ temps' = temps
      /\ UNCHANGED <<temp, hot, cold, severity, failed, callbacks, alive, outdated,
                     is_polling_, remaining>>
  BY DEF endCheck, status, clients
<1>2. thermal_triggered_' = found /\ found' = FALSE
  BY DEF endCheck
<1>3. thermal_triggered_' \in BOOLEAN /\ found' \in BOOLEAN /\ is_polling_' \in BOOLEAN
  <2>1. found \in BOOLEAN /\ is_polling_ \in BOOLEAN
    BY DEF ThermalInv, TypeOK
  <2>2. found' \in BOOLEAN
    BY <1>2, Zenon
  <2> QED
    BY <1>1, <1>2, <2>1, <2>2
<1>4. N \in Nat
  BY ThermalAssumption
<1>5. TypeOK'
  BY <1>1, <1>3, <1>4 DEF ThermalInv, TypeOK
<1>6. Levelled'
  BY <1>1 DEF ThermalInv, Levelled
<1>7. FastWhileThrottling'
  <2>1. \A s \in Sensors : s < i
    <3>1. i \in 1..(N + 1)
      BY DEF ThermalInv, TypeOK
    <3> QED
      BY <1>1, <1>4, <3>1 DEF Sensors
  <2>2. ~ found => \A s \in Sensors : severity[s] = 0 \/ failed[s]
    BY <1>1, <2>1 DEF ThermalInv, Passed
  <2>3. ~ thermal_triggered_' => ~ found
    BY <1>2, Zenon
  <2> QED
    BY <1>1, <2>2, <2>3 DEF FastWhileThrottling
<1>8. (Passed /\ InTime)'
  BY <1>1 DEF Passed, InTime
<1>9. CheckedInTime'
  <2>1. /\ kMinPollInterval \in Nat \ {0} /\ kUeventPollTimeout \in Nat \ {0}
    BY ThermalAssumption
  <2>2. timeout' \in Nat \ {0}
    BY <2>1 DEF timeout
  <2>3. elapsed' < 2 * timeout'
    <3>1. elapsed' = 0
      BY <1>1
    <3>2. \A t \in Nat \ {0} : 0 < 2 * t
      OBVIOUS
    <3> QED
      BY <2>2, <3>1, <3>2
  <2> QED
    BY <2>3 DEF CheckedInTime
<1>10. ToBeTold'
  <2>1. NobodyWaits
    BY <1>1 DEF ThermalInv, ToBeTold, NobodyWaits
  <2> QED
    BY <1>1, <2>1 DEF ToBeTold, NobodyWaits, wanted
<1>11. (Entries /\ KnowsAll)'
  BY <1>1 DEF ThermalInv, Entries, KnowsAll
<1> QED
  BY <1>5, <1>6, <1>7, <1>8, <1>9, <1>10, <1>11 DEF ThermalInv

-----------------------------------------------------------------------------
(* The service threads and the environment leave the watcher alone.        *)
WatcherStays ==
    UNCHANGED <<hot, cold, severity, failed, pc, i, sensors, temps, found,
                thermal_triggered_, is_polling_, elapsed, remaining>>

LEMMA ClientStep ==
    ASSUME ThermalInv, WatcherStays, temp' \in [Sensors -> Temperatures],
           callbacks' \in [Clients -> Filters \cup {None}], alive' \in [Clients -> BOOLEAN],
           outdated' \in [Clients -> SUBSET Sensors], ToBeTold', KnowsAll'
    PROVE  ThermalInv'
<1> USE DEF WatcherStays
<1>1. TypeOK'
  BY DEF ThermalInv, TypeOK
<1>2. Levelled'
  BY DEF ThermalInv, Levelled
<1>3. (Passed /\ FastWhileThrottling)'
  BY DEF ThermalInv, Passed, FastWhileThrottling, Idle
<1>4. (InTime /\ CheckedInTime)'
  BY DEF ThermalInv, InTime, CheckedInTime, timeout
<1>5. Entries'
  BY DEF ThermalInv, Entries
<1> QED
  BY <1>1, <1>2, <1>3, <1>4, <1>5 DEF ThermalInv

LEMMA RegisterStep ==
    ASSUME NEW c \in Clients, NEW filter \in Filters, ThermalInv,
           registerThermalChangedCallback(c, filter)
    PROVE  ThermalInv'
<1>1. WatcherStays /\ UNCHANGED <<temp, alive, outdated>>
  BY DEF registerThermalChangedCallback, WatcherStays, status, check, mode, clock
<1>2. callbacks[c] = None /\ callbacks' = [callbacks EXCEPT ![c] = filter] /\ filter # None
  BY ThermalAssumption DEF registerThermalChangedCallback
<1>3. outdated[c] = {}
  BY <1>2 DEF ThermalInv, KnowsAll
<1>4. callbacks \in [Clients -> Filters \cup {None}]
  BY DEF ThermalInv, TypeOK
<1>5. callbacks' \in [Clients -> Filters \cup {None}]
  BY <1>2, <1>4
<1>6. KnowsAll'
  BY <1>1, <1>2, <1>4 DEF ThermalInv, KnowsAll
<1>7. ToBeTold'
  <2> SUFFICES ASSUME NEW d \in Clients, NEW s \in Sensors, s \in outdated[d], alive[d], wanted(d, s)'
               PROVE  /\ pc \in {"check", "send"}
                      /\ \E k \in 1..Len(temps) :
                            temps[k].sensor = s /\ temps[k].throttlingStatus = severity[s]
    BY <1>1 DEF ToBeTold, WatcherStays
  <2>1. d # c
    BY <1>3
  <2>2. wanted(d, s)
    BY <1>2, <1>4, <2>1 DEF wanted
  <2> QED
    BY <2>2 DEF ThermalInv, ToBeTold
<1>8. /\ temp' \in [Sensors -> Temperatures] /\ alive' \in [Clients -> BOOLEAN]
      /\ outdated' \in [Clients -> SUBSET Sensors]
  BY <1>1 DEF ThermalInv, TypeOK
<1> QED
  BY <1>1, <1>5, <1>6, <1>7, <1>8, ClientStep

(* Whoever has unregistered or died has nothing to be told.                *)
LEMMA LeaveStep ==
    ASSUME NEW c \in Clients, ThermalInv, WatcherStays, temp' = temp,
           outdated' = [outdated EXCEPT ![c] = {}],
           \A d \in Clients \ {c} : callbacks'[d] = callbacks[d] /\ alive'[d] = alive[d],
           callbacks' \in [Clients -> Filters \cup {None}], alive' \in [Clients -> BOOLEAN]
    PROVE  ThermalInv'
<1>1. outdated \in [Clients -> SUBSET Sensors]
  BY DEF ThermalInv, TypeOK
<1>2. outdated' \in [Clients -> SUBSET Sensors]
  BY <1>1
<1>3. KnowsAll'
  <2> SUFFICES ASSUME NEW d \in Clients, callbacks'[d] = None \/ ~ alive'[d] PROVE outdated'[d] = {}
    BY DEF KnowsAll
  <2>1. CASE d = c
    BY <1>1, <2>1
  <2>2. CASE d # c
    <3>1. callbacks[d] = None \/ ~ alive[d]
      BY <2>2
    <3>2. outdated[d] = {}
      BY <3>1 DEF ThermalInv, KnowsAll
    <3> QED
      BY <1>1, <2>2, <3>2
  <2> QED
    BY <2>1, <2>2
<1>4. ToBeTold'
  <2> SUFFICES ASSUME NEW d \in Clients, NEW s \in Sensors, s \in outdated'[d], alive'[d], wanted(d, s)'
               PROVE  /\ pc \in {"check", "send"}
                      /\ \E k \in 1..Len(temps) :
                            temps[k].sensor = s /\ temps[k].throttlingStatus = severity[s]
    BY DEF ToBeTold, WatcherStays
  <2>1. d # c /\ s \in outdated[d]
    BY <1>1
  <2>2. wanted(d, s) /\ alive[d]
    BY <2>1 DEF wanted
  <2> QED
    BY <2>1, <2>2 DEF ThermalInv, ToBeTold
<1>5. temp' \in [Sensors -> Temperatures]
  BY DEF ThermalInv, TypeOK
<1> QED
  BY <1>2, <1>3, <1>4, <1>5, ClientStep

LEMMA UnregisterStep ==
    ASSUME NEW c \in Clients, ThermalInv, unregisterThermalChangedCallback(c)
    PROVE  ThermalInv'
<1>1. /\ WatcherStays /\ temp' = temp /\ alive' = alive
      /\ outdated' = [outdated EXCEPT ![c] = {}] /\ callbacks' = [callbacks EXCEPT ![c] = None]
  BY DEF unregisterThermalChangedCallback, WatcherStays, status, check, mode, clock
<1>2. callbacks \in [Clients -> Filters \cup {None}] /\ alive \in [Clients -> BOOLEAN]
  BY DEF ThermalInv, TypeOK
<1>3. /\ callbacks' \in [Clients -> Filters \cup {None}] /\ alive' \in [Clients -> BOOLEAN]
      /\ \A d \in Clients \ {c} : callbacks'[d] = callbacks[d] /\ alive'[d] = alive[d]
  BY <1>1, <1>2
<1> QED
  BY <1>1, <1>3, LeaveStep

LEMMA DieStep ==
    ASSUME NEW c \in Clients, ThermalInv, die(c)
    PROVE  ThermalInv'
<1>1. /\ WatcherStays /\ temp' = temp /\ callbacks' = callbacks
      /\ outdated' = [outdated EXCEPT ![c] = {}] /\ alive' = [alive EXCEPT ![c] = FALSE]
  BY DEF die, WatcherStays, status, check, mode, clock
<1>2. callbacks \in [Clients -> Filters \cup {None}] /\ alive \in [Clients -> BOOLEAN]
  BY DEF ThermalInv, TypeOK
<1>3. alive' \in [Clients -> BOOLEAN]
  BY <1>1, <1>2, Zenon
<1>4. /\ callbacks' \in [Clients -> Filters \cup {None}]
      /\ \A d \in Clients \ {c} : callbacks'[d] = callbacks[d] /\ alive'[d] = alive[d]
  BY <1>1, <1>2
<1> QED
  BY <1>1, <1>3, <1>4, LeaveStep

LEMMA ChangeStep ==
    ASSUME NEW s \in Sensors, NEW v \in Temperatures, ThermalInv, change(s, v)
    PROVE  ThermalInv'
<1>1. /\ WatcherStays /\ UNCHANGED <<callbacks, alive, outdated>> /\ temp' = [temp EXCEPT ![s] = v]
  BY DEF change, WatcherStays, status, clients, check, mode, clock
<1>2. temp' \in [Sensors -> Temperatures]
  BY <1>1 DEF ThermalInv, TypeOK
<1>3. /\ callbacks' \in [Clients -> Filters \cup {None}] /\ alive' \in [Clients -> BOOLEAN]
      /\ outdated' \in [Clients -> SUBSET Sensors]
  BY <1>1 DEF ThermalInv, TypeOK
<1>4. (ToBeTold /\ KnowsAll)'
  BY <1>1 DEF ThermalInv, ToBeTold, KnowsAll, wanted, WatcherStays
<1> QED
  BY <1>1, <1>2, <1>3, <1>4, ClientStep

-----------------------------------------------------------------------------
LEMMA StutterStep ==
    ASSUME ThermalInv, UNCHANGED vars
    PROVE  ThermalInv'
<1>1. /\ WatcherStays /\ UNCHANGED <<temp, callbacks, alive, outdated>>
  BY DEF vars, WatcherStays, status, clients, check, mode, clock
<1>2. /\ temp' \in [Sensors -> Temperatures]
      /\ callbacks' \in [Clients -> Filters \cup {None}] /\ alive' \in [Clients -> BOOLEAN]
      /\ outdated' \in [Clients -> SUBSET Sensors]
  BY <1>1 DEF ThermalInv, TypeOK
<1>3. (ToBeTold /\ KnowsAll)'
  BY <1>1 DEF ThermalInv, ToBeTold, KnowsAll, wanted, WatcherStays
<1> QED
  BY <1>1, <1>2, <1>3, ClientStep

(* Every step preserves the invariant.                                     *)
LEMMA InvStep == ThermalInv /\ [Next]_vars => ThermalInv'
<1> SUFFICES ASSUME ThermalInv, [Next]_vars PROVE ThermalInv'
  OBVIOUS
<1>1. CASE Watcher
  BY <1>1, ThreadLoopStep, TickStep, PollTimeoutStep, SkipStep, ReadFailsStep, ReadTemperatureStep,
     TakeCallbacksStep, SendStep, EndCheckStep DEF Watcher
<1>2. CASE \E uevents \in Uevents : parseUevent(uevents)
  BY <1>2, ParseUeventStep
<1>3. CASE Service
  BY <1>3, RegisterStep, UnregisterStep DEF Service
<1>4. CASE Environment
  BY <1>4, ChangeStep, DieStep DEF Environment
<1>5. CASE UNCHANGED vars
  BY <1>5, StutterStep
<1> QED
  BY <1>1, <1>2, <1>3, <1>4, <1>5 DEF Next

(* The invariant holds for any sensors, thresholds and clients.            *)
THEOREM Invariance == Spec => []ThermalInv
BY InitInv, InvStep, PTL DEF Spec

(* The variables of the watcher and of the service have their types.       *)
THEOREM TypeCorrect == Spec => []TypeOK
<1>1. ThermalInv => TypeOK
  BY DEF ThermalInv
<1> QED
  BY <1>1, Invariance, PTL

(***************************************************************************)
(* Once the watcher waits again every registered client knows all          *)
(* severities (Thermal::sendThermalChangedCallback), whatever registers,   *)
(* unregisters or dies in between.                                         *)
(***************************************************************************)
THEOREM Told == Spec => []EveryoneTold
<1>1. ThermalInv => EveryoneTold
  BY Waiting DEF EveryoneTold, NobodyWaits
<1> QED
  BY <1>1, Invariance, PTL

(* The long timeout is used only when nothing that can be read throttles.  *)
THEOREM Fast == Spec => []FastWhileThrottling
<1>1. ThermalInv => FastWhileThrottling
  BY DEF ThermalInv
<1> QED
  BY <1>1, Invariance, PTL

(* However many uevents of other devices end the wait, a check is made     *)
(* before twice the timeout has passed (ThermalWatcher::threadLoop).       *)
THEOREM InTimeAlways == Spec => []CheckedInTime
<1>1. ThermalInv => CheckedInTime
  BY DEF ThermalInv
<1> QED
  BY <1>1, Invariance, PTL

-----------------------------------------------------------------------------
(* Only readTemperature changes a hot or a cold severity.                  *)
LEMMA SeveritiesStay ==
    ASSUME ThermalInv, UNCHANGED <<hot, cold>>
    PROVE  HysteresisStep
<1> SUFFICES ASSUME NEW s \in Sensors
             PROVE  ~ (hot[s] > hot[s]) /\ ~ (hot[s] < hot[s]) /\ ~ (cold[s] > cold[s]) /\ ~ (cold[s] < cold[s])
  BY DEF HysteresisStep
<1>1. hot[s] \in Int /\ cold[s] \in Int
  BY ThermalAssumption DEF ThermalInv, TypeOK, Severities
<1> QED
  BY <1>1

LEMMA ReadHysteresis ==
    ASSUME ThermalInv, readTemperature
    PROVE  HysteresisStep
<1> DEFINE h == HotSeverity(i, temp[i])
           c == ColdSeverity(i, temp[i])
<1>1. i \in Sensors /\ hot' = [hot EXCEPT ![i] = h] /\ cold' = [cold EXCEPT ![i] = c]
  BY DEF readTemperature
<1>2. HotStep(i, temp[i], h) /\ ColdStep(i, temp[i], c)
  BY <1>1, ReadHotCold
<1>3. hot \in [Sensors -> Severities] /\ cold \in [Sensors -> Severities]
  BY DEF ThermalInv, TypeOK
<1> HIDE DEF h, c
<1> SUFFICES ASSUME NEW s \in Sensors
             PROVE  /\ hot'[s] > hot[s] =>
                          hot_thresholds[s][hot'[s]] <= temp[s] \/ hotOverlap(s, hot'[s], hot[s])
                    /\ hot'[s] < hot[s] =>
                          temp[s] <= hot_thresholds[s][hot[s]] - hot_hysteresis[s][hot[s]]
                    /\ cold'[s] > cold[s] =>
                          cold_thresholds[s][cold'[s]] >= temp[s] \/ coldOverlap(s, cold'[s], cold[s])
                    /\ cold'[s] < cold[s] =>
                          temp[s] >= cold_thresholds[s][cold[s]] + cold_hysteresis[s][cold[s]]
  BY DEF HysteresisStep
<1>4. CASE s = i
  <2>1. hot'[s] = h /\ cold'[s] = c
    BY <1>1, <1>3, <1>4
  <2> QED
    BY <1>2, <1>4, <2>1 DEF HotStep, ColdStep
<1>5. CASE s # i
  <2>1. hot'[s] = hot[s] /\ cold'[s] = cold[s]
    BY <1>1, <1>3, <1>5
  <2>2. hot[s] \in Int /\ cold[s] \in Int
    BY <1>3, ThermalAssumption DEF Severities
  <2> QED
    BY <2>1, <2>2
<1> QED
  BY <1>4, <1>5

(***************************************************************************)
(* For any thresholds in order and any hysteresis, no severity falls       *)
(* within its hysteresis, and none rises below its threshold unless its    *)
(* hysteresis reaches past the threshold of the severity that is left      *)
(* (ThermalHelper::getSeverityFromThresholds).                             *)
(***************************************************************************)
THEOREM HysteresisHolds == Spec => Hysteresis
<1>1. ThermalInv /\ [Next]_vars => [HysteresisStep]_vars
  <2> SUFFICES ASSUME ThermalInv, Next PROVE HysteresisStep
    OBVIOUS
  <2>1. CASE readTemperature
    BY <2>1, ReadHysteresis
  <2>2. CASE ~ readTemperature
    <3>1. UNCHANGED <<hot, cold>>
      BY <2>2 DEF Next, Watcher, Service, Environment, threadLoop, tick, pollTimeout, parseUevent, skip,
         readFails, takeCallbacks, sendThermalChangedCallback, endCheck, registerThermalChangedCallback,
         unregisterThermalChangedCallback, change, die, status
    <3> QED
      BY <3>1, SeveritiesStay
  <2> QED
    BY <2>1, <2>2
<1> QED
  BY <1>1, Invariance, PTL DEF Spec, Hysteresis
=============================================================================
