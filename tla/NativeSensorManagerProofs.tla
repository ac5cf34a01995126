---------------------- MODULE NativeSensorManagerProofs ----------------------
(***************************************************************************)
(* Proofs about the sensors HAL, for any hardware and virtual sensors,     *)
(* dependencies between them, periods and latencies: the drivers are on,   *)
(* and sample as fast, as the sensors that are enabled need it, through    *)
(* every sequence of activations and settings.                             *)
(***************************************************************************)
EXTENDS NativeSensorManager, WellFoundedInduction, TLAPS

(* A set of integers that is bounded from below has a least element.       *)
LEMMA Least ==
    ASSUME NEW S \in SUBSET Int, S # {}, NEW b \in Int, \A x \in S : x >= b
    PROVE  Min(S) \in S /\ \A y \in S : Min(S) <= y
<1> DEFINE above == {x - b : x \in S}
           less == OpToRel(<, Nat)
<1>1. above \subseteq Nat /\ above # {}
  <2>1. above \subseteq Nat
    OBVIOUS
  <2>2. PICK x : x \in S
    OBVIOUS
  <2>3. x - b \in above
    BY <2>2
  <2> QED
    BY <2>1, <2>3
<1>2. IsWellFoundedOn(less, Nat)
  BY NatLessThanWellFounded
<1>3. \A x, y \in Nat : x < y => <<x, y>> \in less
  BY DEF OpToRel
<1>4. PICK d \in above : \A e \in above : ~ (<<e, d>> \in less)
  <2> HIDE DEF above, less
  <2> QED
    BY <1>1, <1>2, WFMin
<1>5. \A e \in above : d <= e
  <2> HIDE DEF above, less
  <2> TAKE e \in above
  <2>1. d \in Nat /\ e \in Nat
    BY <1>1
  <2>2. ~ (e < d)
    BY <1>3, <1>4, <2>1
  <2> QED
    BY <2>1, <2>2
<1>6. PICK x \in S : d = x - b
  OBVIOUS
<1>7. \A y \in S : x <= y
  <2> TAKE y \in S
  <2>1. y - b \in above
    OBVIOUS
  <2> QED
    BY <1>5, <1>6, <2>1
<1> QED
  BY <1>7 DEF Min

-----------------------------------------------------------------------------
(* The list of listeners.                                                  *)
Distinct(l) == \A i, j \in 1..Len(l) : l[i] = l[j] => i = j

LEMMA Elements ==
    ASSUME NEW l \in Seq(Sensors)
    PROVE  /\ \A x : x \in ToSet(l) <=> \E i \in 1..Len(l) : l[i] = x
           /\ ToSet(l) \subseteq Sensors
           /\ l = <<>> <=> ToSet(l) = {}
           /\ l # <<>> => Head(l) \in ToSet(l)
<1>1. \A x : x \in ToSet(l) <=> \E i \in 1..Len(l) : l[i] = x
  BY DEF ToSet
<1>2. \A i \in 1..Len(l) : l[i] \in Sensors
  OBVIOUS
<1>3. l # <<>> => Head(l) = l[1] /\ 1 \in 1..Len(l)
  OBVIOUS
<1>4. l = <<>> => 1..Len(l) = {}
  OBVIOUS
<1>5. l # <<>> => Head(l) \in ToSet(l)
  BY <1>1, <1>3
<1>6. l = <<>> <=> ToSet(l) = {}
  BY <1>1, <1>4, <1>5
<1> QED
  BY <1>1, <1>2, <1>5, <1>6

LEMMA Registers ==
    ASSUME NEW l \in Seq(Sensors), NEW s \in Sensors, Distinct(l)
    PROVE  /\ registerListener(l, s) \in Seq(Sensors) /\ Distinct(registerListener(l, s))
           /\ ToSet(registerListener(l, s)) = ToSet(l) \cup {s}
<1>1. CASE Contains(l, s)
  <2>1. registerListener(l, s) = l
    BY <1>1 DEF registerListener
  <2>2. s \in ToSet(l)
    BY <1>1, Elements DEF Contains
  <2> QED
    BY <2>1, <2>2
<1>2. CASE ~ Contains(l, s)
  <2> DEFINE r == Append(l, s)
  <2>1. registerListener(l, s) = r
    BY <1>2 DEF registerListener
  <2>2. /\ r \in Seq(Sensors) /\ Len(l) \in Nat /\ Len(r) = Len(l) + 1
        /\ \A i \in 1..Len(l) : r[i] = l[i]
        /\ r[Len(l) + 1] = s
    OBVIOUS
  <2> HIDE DEF r
  <2>3. /\ \A i \in 1..Len(r) : (i \in 1..Len(l) /\ r[i] = l[i]) \/ (i = Len(l) + 1 /\ r[i] = s)
        /\ \A i \in 1..Len(l) : i \in 1..Len(r) /\ r[i] = l[i]
        /\ Len(l) + 1 \in 1..Len(r)
    BY <2>2
  <2>4. Distinct(r)
    BY <1>2, <2>3 DEF Distinct, Contains
  <2>5. \A x : x \in ToSet(r) <=> x \in ToSet(l) \cup {s}
    <3>1. /\ \A x : x \in ToSet(l) <=> \E i \in 1..Len(l) : l[i] = x
          /\ \A x : x \in ToSet(r) <=> \E i \in 1..Len(r) : r[i] = x
      BY <2>2, Elements
    <3> QED
      BY <2>2, <2>3, <3>1
  <2> QED
    BY <2>1, <2>2, <2>4, <2>5
<1> QED
  BY <1>1, <1>2

LEMMA Unregisters ==
    ASSUME NEW l \in Seq(Sensors), NEW s \in Sensors, Distinct(l)
    PROVE  /\ unregisterListener(l, s) \in Seq(Sensors) /\ Distinct(unregisterListener(l, s))
           /\ ToSet(unregisterListener(l, s)) = ToSet(l) \ {s}
<1>1. CASE ~ \E i \in 1..Len(l) : l[i] = s
  <2>1. unregisterListener(l, s) = l
    BY <1>1 DEF unregisterListener, RemoveFirst
  <2>2. s \notin ToSet(l)
    BY <1>1, Elements
  <2> QED
    BY <2>1, <2>2
<1>2. ASSUME NEW k \in 1..Len(l), l[k] = s
      PROVE  /\ unregisterListener(l, s) \in Seq(Sensors) /\ Distinct(unregisterListener(l, s))
             /\ ToSet(unregisterListener(l, s)) = ToSet(l) \ {s}
  <2> DEFINE r == RemoveAt(l, k)
             at == {i \in 1..Len(l) : l[i] = s}
  <2>1. at = {k}
    BY <1>2 DEF Distinct
  <2>2. Min({k}) = k
    BY DEF Min
  <2>3. SelectInSeq(l, LAMBDA v : v = s) = Min(at)
    BY <2>1 DEF SelectInSeq
  <2>4. unregisterListener(l, s) = r
    <3> HIDE DEF at, r
    <3>1. SelectInSeq(l, LAMBDA v : v = s) = k
      BY <2>1, <2>2, <2>3
    <3> QED
      BY <1>2, <3>1 DEF unregisterListener, RemoveFirst, r
  <2>5. /\ r \in Seq(Sensors) /\ Len(l) \in Nat /\ Len(r) = Len(l) - 1
        /\ \A i \in 1..(k - 1) : r[i] = l[i]
        /\ \A i \in k..(Len(l) - 1) : r[i] = l[i + 1]
    <3>1. /\ SubSeq(l, 1, k - 1) \in Seq(Sensors) /\ Len(SubSeq(l, 1, k - 1)) = k - 1
          /\ \A i \in 1..(k - 1) : SubSeq(l, 1, k - 1)[i] = l[i]
      OBVIOUS
    <3>2. /\ SubSeq(l, k + 1, Len(l)) \in Seq(Sensors)
          /\ Len(SubSeq(l, k + 1, Len(l))) = Len(l) - k
          /\ \A i \in 1..(Len(l) - k) : SubSeq(l, k + 1, Len(l))[i] = l[k + i]
      OBVIOUS
    <3> DEFINE a == SubSeq(l, 1, k - 1)
               b == SubSeq(l, k + 1, Len(l))
    <3>3. a \in Seq(Sensors) /\ b \in Seq(Sensors) /\ r = a \o b
      BY <3>1, <3>2 DEF RemoveAt
    <3>4. Len(a) = k - 1 /\ Len(b) = Len(l) - k /\ k \in 1..Len(l) /\ Len(l) \in Nat
      BY <3>1, <3>2
    <3>5. /\ \A i \in 1..(k - 1) : a[i] = l[i]
          /\ \A i \in 1..(Len(l) - k) : b[i] = l[k + i]
      BY <3>1, <3>2
    <3> HIDE DEF a, b, r
    <3>6. /\ r \in Seq(Sensors) /\ Len(r) = Len(a) + Len(b)
          /\ \A i \in 1..Len(r) : r[i] = IF i <= Len(a) THEN a[i] ELSE b[i - Len(a)]
      BY <3>3
    <3>7. ASSUME NEW i \in 1..(k - 1) PROVE r[i] = l[i]
      BY <3>4, <3>5, <3>6
    <3>8. ASSUME NEW i \in k..(Len(l) - 1) PROVE r[i] = l[i + 1]
      <4>1. i \in 1..Len(r) /\ ~ (i <= Len(a)) /\ i - Len(a) \in 1..(Len(l) - k)
        BY <3>4, <3>6
      <4>2. r[i] = b[i - Len(a)] /\ b[i - Len(a)] = l[k + (i - Len(a))]
        BY <3>5, <3>6, <4>1
      <4>3. k + (i - Len(a)) = i + 1
        BY <3>4
      <4> QED
        BY <4>2, <4>3
    <3>9. Len(r) = Len(l) - 1
      BY <3>4, <3>6
    <3> QED
      BY <3>4, <3>6, <3>7, <3>8, <3>9
  <2> HIDE DEF r
  <2>6. /\ \A i \in 1..Len(r) : \/ i < k /\ i \in 1..Len(l) /\ r[i] = l[i]
                                \/ i >= k /\ i + 1 \in 1..Len(l) /\ r[i] = l[i + 1]
        /\ \A i \in 1..Len(l) : \/ i = k
                                \/ i \in 1..Len(r) /\ r[i] = l[i]
                                \/ i - 1 \in 1..Len(r) /\ r[i - 1] = l[i]
    <3>1. ASSUME NEW i \in 1..Len(r)
          PROVE  \/ i < k /\ i \in 1..Len(l) /\ r[i] = l[i]
                 \/ i >= k /\ i + 1 \in 1..Len(l) /\ r[i] = l[i + 1]
      BY <2>5
    <3>2. ASSUME NEW i \in 1..Len(l), i # k
          PROVE  \/ i \in 1..Len(r) /\ r[i] = l[i]
                 \/ i - 1 \in 1..Len(r) /\ r[i - 1] = l[i]
      <4>1. CASE i < k
        BY <2>5, <4>1
      <4>2. CASE i > k
        <5>1. i - 1 \in k..(Len(l) - 1) /\ (i - 1) + 1 = i
          BY <2>5, <4>2
        <5>2. r[i - 1] = l[i]
          BY <2>5, <5>1
        <5> QED
          BY <2>5, <5>1, <5>2
      <4> QED
        BY <3>2, <4>1, <4>2
    <3> QED
      BY <3>1, <3>2
  <2>7. Distinct(r)
    <3> SUFFICES ASSUME NEW i \in 1..Len(r), NEW j \in 1..Len(r), r[i] = r[j] PROVE i = j
      BY DEF Distinct
    <3> QED
      BY <2>5, <2>6 DEF Distinct
  <2>8. \A x : x \in ToSet(r) <=> x \in ToSet(l) \ {s}
    <3>1. /\ \A x : x \in ToSet(l) <=> \E i \in 1..Len(l) : l[i] = x
          /\ \A x : x \in ToSet(r) <=> \E i \in 1..Len(r) : r[i] = x
      BY <2>5, Elements
    <3>2. \A i \in 1..Len(r) : r[i] # s /\ r[i] \in ToSet(l)
      BY <1>2, <2>5, <2>6, <3>1 DEF Distinct
    <3> QED
      BY <1>2, <2>6, <3>1, <3>2
  <2> QED
    BY <2>4, <2>5, <2>7, <2>8
<1> QED
  BY <1>1, <1>2

-----------------------------------------------------------------------------
(***************************************************************************)
(* The inductive invariant, in two parts: the settings, which only calls   *)
(* of the service change, and the events.                                  *)
(***************************************************************************)
SettingsType ==
    /\ enable \in [Sensors -> BOOLEAN] /\ mEnabled \in [Sensors -> BOOLEAN]
    /\ delay_ns \in [Sensors -> Int] /\ latency_ns \in [Sensors -> Int]
    /\ period \in [Sensors -> Nat] /\ timeout \in [Sensors -> Nat]
    /\ listener \in [Hardware -> Seq(Sensors)]
    /\ pollDelay \in [Hardware -> Int] /\ maxLatency \in [Hardware -> Int]

(* Times that came through an int.                                         *)
Bounded == \A s \in Sensors : delay_ns[s] >= -IntRange /\ latency_ns[s] >= -IntRange

(* What is kept of a period and a latency that fit into an int.            *)
AsAsked ==
    \A s \in Sensors :
        /\ Fits(period[s]) => /\ period[s] <= delay_ns[s]
                              /\ delay_ns[s] <= period[s] \/ delay_ns[s] <= minDelay[s]
                              /\ delay_ns[s] = 0 <=> period[s] = 0
        /\ Fits(timeout[s]) => latency_ns[s] = timeout[s]

(* The listeners of a hardware sensor are its users, each listed once.     *)
ListenersAreUsers ==
    \A h \in Hardware : Distinct(listener[h]) /\ ToSet(listener[h]) = Users(h)

(* A hardware sensor with listeners has the settings that syncDelay and    *)
(* syncLatency would compute now, unless setLatency refuses, and is on.    *)
DelayInSync ==
    \A h \in Hardware : listener[h] # <<>> => pollDelay[h] = fastest(listener[h], delay_ns)

LatencyInSync ==
    \A h \in Fifo : listener[h] # <<>> =>
        LET least == Min({latency_ns[s] : s \in ToSet(listener[h])})
        IN least >= 0 => maxLatency[h] = least

Powered == \A h \in Hardware : listener[h] # <<>> => mEnabled[h]

SettingsInv ==
    /\ SettingsType /\ Bounded /\ AsAsked
    /\ ListenersAreUsers /\ DelayInSync /\ LatencyInSync /\ Powered

EventsType ==
    /\ mHasPendingMetadata \in [Sensors -> Nat]
    /\ mHasPendingEvent \in [Hardware -> BOOLEAN]
    /\ data \in [Hardware -> BOOLEAN] /\ revents \in [Hardware -> BOOLEAN]
    /\ ring \in [Virtual -> 0..MaxEvents]
    /\ mFirstEventReceived \in [Virtual -> BOOLEAN] /\ reportLastEvent \in [Virtual -> BOOLEAN]
    /\ pc \in {"out", "scan", "poll"} /\ index \in 1..Len(pollOrder)
    /\ count \in 0..MaxCount /\ nbEvents \in 0..MaxCount /\ pipe \in Nat

(* The poll thread scans only while the caller's array has room.           *)
Scanning == /\ pc # "out" => count > 0
            /\ count + nbEvents <= MaxCount

SensorInv == SettingsInv /\ EventsType /\ Scanning

LEMMA Types == TypeOK <=> SettingsType /\ EventsType
  BY DEF TypeOK, SettingsType, EventsType

LEMMA Dependencies ==
    ASSUME NEW s \in Sensors
    PROVE  dep_list(s) \subseteq Hardware /\ (s \in Hardware => dep_list(s) = {s})
  BY SensorAssumption DEF dep_list, Sensors

LEMMA Positive == IntRange \in Nat /\ IntRange > 0 /\ MaxEvents \in Nat /\ MaxCount \in Nat
                  /\ MaxCount > 0 /\ MaxMetadata \in Nat /\ MaxWakes \in Nat
  BY SensorAssumption

LEMMA InitInv == Init => SensorInv
<1> SUFFICES ASSUME Init PROVE SensorInv
  OBVIOUS
<1> USE DEF Init
<1>1. SettingsType
  <2>1. mEnabled \in [Sensors -> BOOLEAN]
    <3>1. PICK on \in SUBSET StartsOn : mEnabled = [s \in Sensors |-> s \in on]
      OBVIOUS
    <3> HIDE DEF Init
    <3>2. \A s \in Sensors : (s \in on) \in BOOLEAN
      OBVIOUS
    <3> QED
      BY <3>1, <3>2, Zenon
  <2>2. /\ enable \in [Sensors -> BOOLEAN]
        /\ delay_ns \in [Sensors -> Int] /\ latency_ns \in [Sensors -> Int]
        /\ period \in [Sensors -> Nat] /\ timeout \in [Sensors -> Nat]
        /\ listener \in [Hardware -> Seq(Sensors)]
        /\ pollDelay \in [Hardware -> Int] /\ maxLatency \in [Hardware -> Int]
    OBVIOUS
  <2> QED
    BY <2>1, <2>2 DEF SettingsType
<1>2. Bounded /\ AsAsked
  BY Positive DEF Bounded, AsAsked
<1>3. ListenersAreUsers
  BY DEF ListenersAreUsers, Users, Distinct, ToSet
<1>4. DelayInSync /\ LatencyInSync /\ Powered
  BY SensorAssumption DEF DelayInSync, LatencyInSync, Powered
<1>5. EventsType
  <2>1. Len(pollOrder) \in Nat /\ Len(pollOrder) > 0
    BY SensorAssumption
  <2> QED
    BY <2>1, Positive DEF EventsType
<1>6. Scanning
  BY Positive DEF Scanning
<1> QED
  BY <1>1, <1>2, <1>3, <1>4, <1>5, <1>6 DEF SensorInv, SettingsInv

-----------------------------------------------------------------------------
(***************************************************************************)
(* The settings.  What syncDelay and syncLatency find is a time, and       *)
(* depends on the users only.                                              *)
(***************************************************************************)
LEMMA FastestIsTime ==
    ASSUME NEW l \in Seq(Sensors), l # <<>>, NEW delays \in [Sensors -> Int],
           \A s \in Sensors : delays[s] >= -IntRange
    PROVE  fastest(l, delays) \in Int
<1> DEFINE S == {delays[Head(l)]} \cup ({delays[s] : s \in ToSet(l)} \ {0})
<1>1. Head(l) \in Sensors /\ ToSet(l) \subseteq Sensors
  BY Elements
<1>2. S \in SUBSET Int /\ S # {} /\ \A x \in S : x >= -IntRange
  BY <1>1
<1>3. -IntRange \in Int
  BY Positive
<1>4. Min(S) \in S
  <2> HIDE DEF S
  <2> QED
    BY <1>2, <1>3, Least
<1>5. Min(S) \in Int
  <2> HIDE DEF S
  <2> QED
    BY <1>2, <1>4
<1> QED
  BY <1>5 DEF fastest

LEMMA LatencyIsTime ==
    ASSUME NEW l \in Seq(Sensors), l # <<>>, NEW latencies \in [Sensors -> Int],
           \A s \in Sensors : latencies[s] >= -IntRange
    PROVE  Min({latencies[s] : s \in ToSet(l)}) \in Int
<1> DEFINE S == {latencies[s] : s \in ToSet(l)}
<1>1. Head(l) \in ToSet(l) /\ ToSet(l) \subseteq Sensors
  BY Elements
<1>2. S \in SUBSET Int /\ \A x \in S : x >= -IntRange
  BY <1>1
<1>3. S # {}
  BY <1>1
<1>4. -IntRange \in Int
  BY Positive
<1> HIDE DEF S
<1>5. Min(S) \in S
  BY <1>2, <1>3, <1>4, Least
<1> QED
  BY <1>2, <1>5 DEF S

LEMMA SameFastest ==
    ASSUME NEW l \in Seq(Sensors), l # <<>>, NEW d1, NEW d2,
           \A s \in ToSet(l) : d1[s] = d2[s]
    PROVE  fastest(l, d1) = fastest(l, d2)
<1>1. Head(l) \in ToSet(l)
  BY Elements
<1>2. {d1[s] : s \in ToSet(l)} = {d2[s] : s \in ToSet(l)} /\ d1[Head(l)] = d2[Head(l)]
  BY <1>1
<1> QED
  BY <1>2 DEF fastest

(* A number in 64 bits, taken in an int.                                   *)
LEMMA ToInt == ASSUME NEW ns \in Nat PROVE toInt(ns) \in Int /\ toInt(ns) >= -IntRange
<1> DEFINE low == ns % IntRange
<1>1. IntRange \in Nat /\ IntRange > 0 /\ IntRange \in Int
  BY Positive
<1>2. low \in 0..(IntRange - 1)
  BY <1>1
<1>3. IntRange \div 2 \in Int
  BY <1>1
<1> HIDE DEF low
<1>4. (IF low >= IntRange \div 2 THEN low - IntRange ELSE low) \in Int
  BY <1>1, <1>2
<1>5. (IF low >= IntRange \div 2 THEN low - IntRange ELSE low) >= -IntRange
  BY <1>1, <1>2
<1> QED
  BY <1>4, <1>5 DEF toInt, low

LEMMA ToIntKeeps == ASSUME NEW ns \in Nat, Fits(ns) PROVE toInt(ns) = ns
<1>1. IntRange \in Nat /\ IntRange > 0 /\ IntRange \div 2 <= IntRange
  BY Positive
<1>2. ns < IntRange
  BY <1>1 DEF Fits
<1>3. ns % IntRange = ns
  BY <1>1, <1>2
<1> QED
  BY <1>1, <1>3 DEF toInt, Fits

(* Whoever does not depend on a hardware sensor is not among its listeners.*)
LEMMA Uninvolved ==
    ASSUME SettingsInv, NEW s \in Sensors, NEW h \in Hardware, h \notin dep_list(s)
    PROVE  s \notin ToSet(listener[h])
  BY DEF SettingsInv, ListenersAreUsers, Users

(* The hardware sensors that s depends on are synchronized; the others     *)
(* need not be.                                                            *)
LEMMA DelaySynced ==
    ASSUME SettingsInv, NEW s \in Sensors,
           delay_ns' \in [Sensors -> Int], Bounded',
           \A x \in Sensors \ {s} : delay_ns'[x] = delay_ns[x],
           listener' \in [Hardware -> Seq(Sensors)],
           \A h \in Hardware \ dep_list(s) : listener'[h] = listener[h],
           pollDelay' = [h \in Hardware |-> IF h \in dep_list(s)
                            THEN syncDelay(h, listener'[h], delay_ns') ELSE pollDelay[h]]
    PROVE  pollDelay' \in [Hardware -> Int] /\ DelayInSync'
<1>0. /\ pollDelay \in [Hardware -> Int] /\ listener \in [Hardware -> Seq(Sensors)]
      /\ DelayInSync
  BY DEF SettingsInv, SettingsType
<1>1. \A x \in Sensors : delay_ns'[x] >= -IntRange
  BY DEF Bounded
<1>2. ASSUME NEW h \in Hardware
      PROVE  /\ pollDelay'[h] \in Int
             /\ listener'[h] # <<>> => pollDelay'[h] = fastest(listener'[h], delay_ns')
  <2>0. listener'[h] \in Seq(Sensors)
    OBVIOUS
  <2>1. CASE h \in dep_list(s)
    <3>1. pollDelay'[h] = syncDelay(h, listener'[h], delay_ns')
      BY <2>1
    <3>2. CASE listener'[h] = <<>>
      <4>1. pollDelay'[h] = pollDelay[h]
        BY <3>1, <3>2 DEF syncDelay
      <4> QED
        BY <1>0, <3>2, <4>1
    <3>3. CASE listener'[h] # <<>>
      <4>1. pollDelay'[h] = fastest(listener'[h], delay_ns')
        BY <3>1, <3>3 DEF syncDelay
      <4>2. fastest(listener'[h], delay_ns') \in Int
        BY <1>1, <2>0, <3>3, FastestIsTime
      <4> QED
        BY <4>1, <4>2
    <3> QED
      BY <3>2, <3>3
  <2>2. CASE h \notin dep_list(s)
    <3>1. pollDelay'[h] = pollDelay[h] /\ listener'[h] = listener[h]
      BY <2>2
    <3>2. \A x \in ToSet(listener[h]) : delay_ns'[x] = delay_ns[x]
      <4>1. s \notin ToSet(listener[h]) /\ ToSet(listener[h]) \subseteq Sensors
        BY <1>0, <2>2, Uninvolved, Elements
      <4> QED
        BY <4>1
    <3>3. listener[h] # <<>> => fastest(listener[h], delay_ns') = fastest(listener[h], delay_ns)
      BY <2>0, <3>1, <3>2, SameFastest
    <3> QED
      BY <1>0, <3>1, <3>3 DEF DelayInSync
  <2> QED
    BY <2>1, <2>2
<1>3. pollDelay' \in [Hardware -> Int]
  BY <1>2
<1>4. DelayInSync'
  BY <1>2 DEF DelayInSync
<1> QED
  BY <1>3, <1>4

LEMMA LatencySynced ==
    ASSUME SettingsInv, NEW s \in Sensors,
           latency_ns' \in [Sensors -> Int], Bounded',
           \A x \in Sensors \ {s} : latency_ns'[x] = latency_ns[x],
           listener' \in [Hardware -> Seq(Sensors)],
           \A h \in Hardware \ dep_list(s) : listener'[h] = listener[h],
           maxLatency' = [h \in Hardware |-> IF h \in dep_list(s)
                            THEN syncLatency(h, listener'[h], latency_ns') ELSE maxLatency[h]]
    PROVE  maxLatency' \in [Hardware -> Int] /\ LatencyInSync'
<1>0. /\ maxLatency \in [Hardware -> Int] /\ listener \in [Hardware -> Seq(Sensors)]
      /\ LatencyInSync
  BY DEF SettingsInv, SettingsType
<1>1. \A x \in Sensors : latency_ns'[x] >= -IntRange
  BY DEF Bounded
<1> DEFINE least(h) == Min({latency_ns'[x] : x \in ToSet(listener'[h])})
<1>2. ASSUME NEW h \in Hardware
      PROVE  /\ maxLatency'[h] \in Int
             /\ h \in Fifo /\ listener'[h] # <<>> /\ least(h) >= 0 => maxLatency'[h] = least(h)
  <2>0. listener'[h] \in Seq(Sensors)
    OBVIOUS
  <2>1. CASE h \in dep_list(s)
    <3>1. maxLatency'[h] = syncLatency(h, listener'[h], latency_ns')
      BY <2>1
    <3>2. CASE listener'[h] = <<>> \/ h \notin Fifo
      <4>1. maxLatency'[h] = maxLatency[h]
        BY <3>1, <3>2 DEF syncLatency
      <4> QED
        BY <1>0, <3>2, <4>1
    <3>3. CASE listener'[h] # <<>> /\ h \in Fifo
      <4>1. maxLatency'[h] = IF least(h) < 0 THEN maxLatency[h] ELSE least(h)
        BY <3>1, <3>3 DEF syncLatency, setLatency
      <4>2. least(h) \in Int
        BY <1>1, <2>0, <3>3, LatencyIsTime
      <4> HIDE DEF least
      <4> QED
        BY <1>0, <4>1, <4>2
    <3> QED
      BY <3>2, <3>3
  <2>2. CASE h \notin dep_list(s)
    <3>1. maxLatency'[h] = maxLatency[h] /\ listener'[h] = listener[h]
      BY <2>2
    <3>2. \A x \in ToSet(listener[h]) : latency_ns'[x] = latency_ns[x]
      <4>1. s \notin ToSet(listener[h]) /\ ToSet(listener[h]) \subseteq Sensors
        BY <1>0, <2>2, Uninvolved, Elements
      <4> QED
        BY <4>1
    <3>3. {latency_ns'[x] : x \in ToSet(listener'[h])} = {latency_ns[x] : x \in ToSet(listener[h])}
      BY <3>1, <3>2
    <3>4. h \in Fifo /\ listener'[h] # <<>> /\ Min({latency_ns[x] : x \in ToSet(listener[h])}) >= 0
              => maxLatency[h] = Min({latency_ns[x] : x \in ToSet(listener[h])})
      BY <1>0, <3>1 DEF LatencyInSync
    <3> QED
      BY <1>0, <3>1, <3>3, <3>4
  <2> QED
    BY <2>1, <2>2
<1>3. maxLatency' \in [Hardware -> Int]
  <2> HIDE DEF least
  <2> QED
    BY <1>2
<1>4. LatencyInSync'
  BY <1>2, SensorAssumption DEF LatencyInSync
<1> QED
  BY <1>3, <1>4

LEMMA ActivateOnSettings ==
    ASSUME SettingsInv, NEW s \in Sensors, activateOn(s)
    PROVE  SettingsInv'
<1>0. SettingsType /\ Bounded /\ AsAsked /\ ListenersAreUsers /\ Powered
  BY DEF SettingsInv
<1>1. /\ enable' = [enable EXCEPT ![s] = TRUE]
      /\ listener' = [h \in Hardware |-> IF h \in dep_list(s) THEN registerListener(listener[h], s)
                                                             ELSE listener[h]]
      /\ mEnabled' = [x \in Sensors |-> mEnabled[x] \/ x \in dep_list(s) \cup {s}]
      /\ delay_ns' = delay_ns /\ latency_ns' = latency_ns
      /\ period' = period /\ timeout' = timeout
  BY DEF activateOn
<1>2. enable' \in [Sensors -> BOOLEAN] /\ mEnabled' \in [Sensors -> BOOLEAN]
  BY <1>0, <1>1, Zenon DEF SettingsType
<1>3. /\ delay_ns' \in [Sensors -> Int] /\ latency_ns' \in [Sensors -> Int] /\ Bounded'
      /\ period' \in [Sensors -> Nat] /\ timeout' \in [Sensors -> Nat] /\ AsAsked'
  BY <1>0, <1>1 DEF SettingsType, Bounded, AsAsked, Fits
<1>4. ASSUME NEW h \in Hardware
      PROVE  /\ listener'[h] \in Seq(Sensors) /\ Distinct(listener'[h])
             /\ ToSet(listener'[h]) = Users(h)'
  <2>1. listener[h] \in Seq(Sensors) /\ Distinct(listener[h]) /\ ToSet(listener[h]) = Users(h)
    BY <1>0 DEF SettingsType, ListenersAreUsers
  <2>2. CASE h \in dep_list(s)
    <3>1. listener'[h] = registerListener(listener[h], s)
      BY <1>1, <2>2
    <3>2. Users(h)' = Users(h) \cup {s}
      BY <1>0, <1>1, <2>2 DEF Users, SettingsType
    <3> QED
      BY <2>1, <3>1, <3>2, Registers
  <2>3. CASE h \notin dep_list(s)
    <3>1. listener'[h] = listener[h]
      BY <1>1, <2>3
    <3>2. Users(h)' = Users(h)
      BY <1>0, <1>1, <2>3 DEF Users, SettingsType
    <3> QED
      BY <2>1, <3>1, <3>2
  <2> QED
    BY <2>2, <2>3
<1>5. listener' \in [Hardware -> Seq(Sensors)] /\ ListenersAreUsers'
  <2>1. listener' \in [Hardware -> Seq(Sensors)]
    BY <1>1, <1>4
  <2> QED
    BY <1>4, <2>1 DEF ListenersAreUsers
<1>6. pollDelay' = [h \in Hardware |-> IF h \in dep_list(s)
                       THEN syncDelay(h, listener'[h], delay_ns') ELSE pollDelay[h]]
  BY <1>1 DEF activateOn
<1>7. maxLatency' = [h \in Hardware |-> IF h \in dep_list(s)
                        THEN syncLatency(h, listener'[h], latency_ns') ELSE maxLatency[h]]
  BY <1>1 DEF activateOn
<1>8. \A h \in Hardware \ dep_list(s) : listener'[h] = listener[h]
  BY <1>1
<1>9. pollDelay' \in [Hardware -> Int] /\ DelayInSync'
  BY <1>1, <1>3, <1>5, <1>6, <1>8, DelaySynced
<1>10. maxLatency' \in [Hardware -> Int] /\ LatencyInSync'
  BY <1>1, <1>3, <1>5, <1>7, <1>8, LatencySynced
<1>11. Powered'
  <2> SUFFICES ASSUME NEW h \in Hardware, listener'[h] # <<>> PROVE mEnabled'[h]
    BY DEF Powered
  <2>1. h \in dep_list(s) \/ mEnabled[h]
    BY <1>0, <1>8 DEF Powered
  <2> QED
    BY <1>1, <2>1, Zenon DEF Sensors
<1> QED
  BY <1>2, <1>3, <1>5, <1>9, <1>10, <1>11 DEF SettingsInv, SettingsType

LEMMA ActivateOffSettings ==
    ASSUME SettingsInv, NEW s \in Sensors, activateOff(s)
    PROVE  SettingsInv'
<1>0. SettingsType /\ Bounded /\ AsAsked /\ ListenersAreUsers /\ Powered
  BY DEF SettingsInv
<1>1. /\ enable' = [enable EXCEPT ![s] = FALSE]
      /\ listener' = [h \in Hardware |-> IF h \in dep_list(s) THEN unregisterListener(listener[h], s)
                                                             ELSE listener[h]]
      /\ mEnabled' = [x \in Sensors |-> mEnabled[x] /\
              x \notin {h \in dep_list(s) : switchOff(listener'[h])} \cup ({s} \cap Virtual)]
      /\ delay_ns' = delay_ns /\ latency_ns' = latency_ns
      /\ period' = period /\ timeout' = timeout
  BY Dependencies DEF activateOff
<1>2. enable' \in [Sensors -> BOOLEAN] /\ mEnabled' \in [Sensors -> BOOLEAN]
  BY <1>0, <1>1, Zenon DEF SettingsType
<1>3. /\ delay_ns' \in [Sensors -> Int] /\ latency_ns' \in [Sensors -> Int] /\ Bounded'
      /\ period' \in [Sensors -> Nat] /\ timeout' \in [Sensors -> Nat] /\ AsAsked'
  BY <1>0, <1>1 DEF SettingsType, Bounded, AsAsked, Fits
<1>4. ASSUME NEW h \in Hardware
      PROVE  /\ listener'[h] \in Seq(Sensors) /\ Distinct(listener'[h])
             /\ ToSet(listener'[h]) = Users(h)'
  <2>1. listener[h] \in Seq(Sensors) /\ Distinct(listener[h]) /\ ToSet(listener[h]) = Users(h)
    BY <1>0 DEF SettingsType, ListenersAreUsers
  <2>2. CASE h \in dep_list(s)
    <3>1. listener'[h] = unregisterListener(listener[h], s)
      BY <1>1, <2>2
    <3>2. Users(h)' = Users(h) \ {s}
      BY <1>0, <1>1, <2>2 DEF Users, SettingsType
    <3> QED
      BY <2>1, <3>1, <3>2, Unregisters
  <2>3. CASE h \notin dep_list(s)
    <3>1. listener'[h] = listener[h]
      BY <1>1, <2>3
    <3>2. Users(h)' = Users(h)
      BY <1>0, <1>1, <2>3 DEF Users, SettingsType
    <3> QED
      BY <2>1, <3>1, <3>2
  <2> QED
    BY <2>2, <2>3
<1>5. listener' \in [Hardware -> Seq(Sensors)] /\ ListenersAreUsers'
  <2>1. listener' \in [Hardware -> Seq(Sensors)]
    BY <1>1, <1>4
  <2> QED
    BY <1>4, <2>1 DEF ListenersAreUsers
<1>6. pollDelay' = [h \in Hardware |-> IF h \in dep_list(s)
                       THEN syncDelay(h, listener'[h], delay_ns') ELSE pollDelay[h]]
  BY <1>1 DEF activateOff
<1>7. maxLatency' = [h \in Hardware |-> IF h \in dep_list(s)
                        THEN syncLatency(h, listener'[h], latency_ns') ELSE maxLatency[h]]
  BY <1>1 DEF activateOff
<1>8. \A h \in Hardware \ dep_list(s) : listener'[h] = listener[h]
  BY <1>1
<1>9. pollDelay' \in [Hardware -> Int] /\ DelayInSync'
  BY <1>1, <1>3, <1>5, <1>6, <1>8, DelaySynced
<1>10. maxLatency' \in [Hardware -> Int] /\ LatencyInSync'
  BY <1>1, <1>3, <1>5, <1>7, <1>8, LatencySynced
<1>11. Powered'
  <2> SUFFICES ASSUME NEW h \in Hardware, listener'[h] # <<>> PROVE mEnabled'[h]
    BY DEF Powered
  <2>1. listener[h] # <<>>
    <3>1. ToSet(listener'[h]) # {}
      BY <1>4, Elements
    <3>2. \A x \in Users(h)' : x \in Users(h)
      BY <1>0, <1>1 DEF Users, SettingsType
    <3>3. ToSet(listener[h]) # {} /\ listener[h] \in Seq(Sensors)
      BY <1>0, <1>4, <3>1, <3>2 DEF ListenersAreUsers, SettingsType
    <3> QED
      BY <3>3, Elements
  <2>2. mEnabled[h] /\ ~ switchOff(listener'[h]) /\ h \in Sensors /\ h \notin Virtual
    BY <1>0, <2>1, SensorAssumption DEF Powered, switchOff, Sensors
  <2> QED
    BY <1>1, <2>2
<1> QED
  BY <1>2, <1>3, <1>5, <1>9, <1>10, <1>11 DEF SettingsInv, SettingsType

(* A new setting of s: its listeners are not changed by it.                *)
LEMMA SameListeners ==
    ASSUME SettingsInv, UNCHANGED <<enable, listener, mEnabled>>
    PROVE  /\ enable' \in [Sensors -> BOOLEAN] /\ mEnabled' \in [Sensors -> BOOLEAN]
           /\ listener' \in [Hardware -> Seq(Sensors)] /\ ListenersAreUsers' /\ Powered'
<1>1. SettingsType /\ ListenersAreUsers /\ Powered
  BY DEF SettingsInv
<1>2. \A h \in Hardware : Users(h)' = Users(h)
  BY DEF Users
<1>3. ListenersAreUsers'
  BY <1>1, <1>2 DEF ListenersAreUsers
<1>4. Powered'
  BY <1>1 DEF Powered
<1> QED
  BY <1>1, <1>3, <1>4 DEF SettingsType

LEMMA SetDelaySettings ==
    ASSUME SettingsInv, NEW s \in Sensors, NEW ns \in Delays, setDelay(s, ns)
    PROVE  SettingsInv'
<1> DEFINE delay == IF ns < minDelay[s] THEN minDelay[s] ELSE ns
<1>1. /\ delay_ns' = [delay_ns EXCEPT ![s] = delay] /\ UNCHANGED <<latency_ns, maxLatency>>
      /\ period' = [period EXCEPT ![s] = ns] /\ timeout' = timeout
      /\ UNCHANGED <<enable, listener, mEnabled>>
  BY DEF setDelay, keepsAllButSettings
<1>2. /\ delay \in Nat /\ ns \in Nat /\ minDelay[s] \in Nat
      /\ ns <= delay /\ (delay <= ns \/ delay <= minDelay[s]) /\ delay # 0 /\ ns # 0
  BY SensorAssumption
<1>3. SettingsType /\ Bounded /\ AsAsked /\ LatencyInSync
  BY DEF SettingsInv
<1> HIDE DEF delay
<1>4. delay_ns' \in [Sensors -> Int] /\ latency_ns' \in [Sensors -> Int] /\ Bounded'
  BY <1>1, <1>2, <1>3, Positive DEF SettingsType, Bounded
<1>a. period' \in [Sensors -> Nat] /\ timeout' \in [Sensors -> Nat] /\ AsAsked'
  <2>1. period' \in [Sensors -> Nat] /\ timeout' \in [Sensors -> Nat]
    BY <1>1, <1>2, <1>3 DEF SettingsType
  <2>2. /\ delay_ns'[s] = delay /\ period'[s] = ns
        /\ \A x \in Sensors \ {s} : delay_ns'[x] = delay_ns[x] /\ period'[x] = period[x]
    BY <1>1, <1>3 DEF SettingsType
  <2> QED
    BY <1>1, <1>2, <1>3, <2>1, <2>2 DEF AsAsked, Fits
<1>5. pollDelay' = [h \in Hardware |-> IF h \in dep_list(s)
                       THEN syncDelay(h, listener'[h], delay_ns') ELSE pollDelay[h]]
  BY <1>1 DEF setDelay, syncDelays, delay
<1>6. /\ enable' \in [Sensors -> BOOLEAN] /\ mEnabled' \in [Sensors -> BOOLEAN]
      /\ listener' \in [Hardware -> Seq(Sensors)] /\ ListenersAreUsers' /\ Powered'
  BY <1>1, SameListeners
<1>7. \A x \in Sensors \ {s} : delay_ns'[x] = delay_ns[x]
  BY <1>1, <1>3 DEF SettingsType
<1>8. pollDelay' \in [Hardware -> Int] /\ DelayInSync'
  BY <1>1, <1>4, <1>5, <1>6, <1>7, DelaySynced
<1>9. maxLatency' \in [Hardware -> Int] /\ LatencyInSync'
  BY <1>1, <1>3 DEF SettingsType, LatencyInSync
<1> QED
  BY <1>4, <1>a, <1>6, <1>8, <1>9 DEF SettingsInv, SettingsType

LEMMA BatchSettings ==
    ASSUME SettingsInv, NEW s \in Sensors, NEW ns \in Nat \ {0}, NEW l \in Nat, batch(s, ns, l)
    PROVE  SettingsInv'
<1>1. /\ delay_ns' = [delay_ns EXCEPT ![s] = toInt(ns)]
      /\ latency_ns' = [latency_ns EXCEPT ![s] = toInt(l)]
      /\ period' = [period EXCEPT ![s] = ns] /\ timeout' = [timeout EXCEPT ![s] = l]
      /\ UNCHANGED <<enable, listener, mEnabled>>
  BY DEF batch, keepsAllButSettings
<1>2. /\ toInt(ns) \in Int /\ toInt(ns) >= -IntRange
      /\ toInt(l) \in Int /\ toInt(l) >= -IntRange
      /\ (Fits(ns) => toInt(ns) = ns) /\ (Fits(l) => toInt(l) = l)
  BY ToInt, ToIntKeeps
<1>3. SettingsType /\ Bounded /\ AsAsked
  BY DEF SettingsInv
<1>4. delay_ns' \in [Sensors -> Int] /\ latency_ns' \in [Sensors -> Int] /\ Bounded'
  BY <1>1, <1>2, <1>3, Positive DEF SettingsType, Bounded
<1>a. period' \in [Sensors -> Nat] /\ timeout' \in [Sensors -> Nat] /\ AsAsked'
  <2>1. period' \in [Sensors -> Nat] /\ timeout' \in [Sensors -> Nat]
    BY <1>1, <1>3 DEF SettingsType
  <2>2. /\ delay_ns'[s] = toInt(ns) /\ period'[s] = ns
        /\ latency_ns'[s] = toInt(l) /\ timeout'[s] = l
        /\ \A x \in Sensors \ {s} : /\ delay_ns'[x] = delay_ns[x] /\ period'[x] = period[x]
                                     /\ latency_ns'[x] = latency_ns[x] /\ timeout'[x] = timeout[x]
    BY <1>1, <1>3 DEF SettingsType
  <2>3. ASSUME NEW x \in Sensors
        PROVE  /\ Fits(period'[x]) =>
                     /\ period'[x] <= delay_ns'[x]
                     /\ delay_ns'[x] <= period'[x] \/ delay_ns'[x] <= minDelay[x]
                     /\ delay_ns'[x] = 0 <=> period'[x] = 0
               /\ Fits(timeout'[x]) => latency_ns'[x] = timeout'[x]
    <3>1. CASE x = s
      BY <1>2, <2>2, <3>1
    <3>2. CASE x # s
      BY <1>3, <2>2, <3>2 DEF AsAsked
    <3> QED
      BY <3>1, <3>2
  <2>4. AsAsked'
    BY <2>3 DEF AsAsked, Fits
  <2> QED
    BY <2>1, <2>4
<1>5. pollDelay' = [h \in Hardware |-> IF h \in dep_list(s)
                       THEN syncDelay(h, listener'[h], delay_ns') ELSE pollDelay[h]]
  BY <1>1 DEF batch, syncDelays
<1>6. maxLatency' = [h \in Hardware |-> IF h \in dep_list(s)
                        THEN syncLatency(h, listener'[h], latency_ns') ELSE maxLatency[h]]
  BY <1>1 DEF batch, syncLatencies
<1>7. /\ enable' \in [Sensors -> BOOLEAN] /\ mEnabled' \in [Sensors -> BOOLEAN]
      /\ listener' \in [Hardware -> Seq(Sensors)] /\ ListenersAreUsers' /\ Powered'
  BY <1>1, SameListeners
<1>8. \A x \in Sensors \ {s} : delay_ns'[x] = delay_ns[x] /\ latency_ns'[x] = latency_ns[x]
  BY <1>1, <1>3 DEF SettingsType
<1>9. pollDelay' \in [Hardware -> Int] /\ DelayInSync'
  BY <1>1, <1>4, <1>5, <1>7, <1>8, DelaySynced
<1>10. maxLatency' \in [Hardware -> Int] /\ LatencyInSync'
  BY <1>1, <1>4, <1>6, <1>7, <1>8, LatencySynced
<1> QED
  BY <1>4, <1>a, <1>7, <1>9, <1>10 DEF SettingsInv, SettingsType

(* Flushes, reports and the poll thread leave the settings alone.          *)
LEMMA OtherSettings ==
    ASSUME SettingsInv,
           UNCHANGED <<enable, delay_ns, latency_ns, period, timeout, listener, mEnabled, pollDelay,
                          maxLatency>>
    PROVE  SettingsInv'
<1>1. SettingsType /\ Bounded /\ AsAsked /\ DelayInSync /\ LatencyInSync
  BY DEF SettingsInv
<1>2. SettingsType' /\ Bounded' /\ AsAsked'
  BY <1>1 DEF SettingsType, Bounded, AsAsked, Fits
<1>3. DelayInSync' /\ LatencyInSync'
  BY <1>1 DEF DelayInSync, LatencyInSync, fastest
<1>4. ListenersAreUsers' /\ Powered'
  BY SameListeners
<1> QED
  BY <1>2, <1>3, <1>4 DEF SettingsInv

-----------------------------------------------------------------------------
(***************************************************************************)
(* The events, in parts: what the drivers keep, and where the poll thread  *)
(* is.                                                                     *)
(***************************************************************************)
Keeps == /\ mHasPendingMetadata \in [Sensors -> Nat]
         /\ mHasPendingEvent \in [Hardware -> BOOLEAN]
         /\ data \in [Hardware -> BOOLEAN] /\ revents \in [Hardware -> BOOLEAN]
         /\ ring \in [Virtual -> 0..MaxEvents]
         /\ mFirstEventReceived \in [Virtual -> BOOLEAN]
         /\ reportLastEvent \in [Virtual -> BOOLEAN]
         /\ pipe \in Nat

Polls == /\ pc \in {"out", "scan", "poll"} /\ index \in 1..Len(pollOrder)
         /\ count \in 0..MaxCount /\ nbEvents \in 0..MaxCount
         /\ Scanning

LEMMA Events == EventsType /\ Scanning <=> Keeps /\ Polls
  BY DEF EventsType, Keeps, Polls

LEMMA StaysThere ==
    ASSUME Polls, UNCHANGED <<pc, index, count, nbEvents>>
    PROVE  Polls'
  BY DEF Polls, Scanning

LEMMA Awake == ASSUME pipe \in Nat, Wake PROVE pipe' \in Nat
  BY DEF Wake

LEMMA ActivateOnEvents == ASSUME Keeps, Polls, NEW s \in Sensors,
                                 activateOn(s) PROVE Keeps' /\ Polls'
<1>1. Polls'
  BY StaysThere DEF activateOn, poller
<1>2. mHasPendingEvent' \in [Hardware -> BOOLEAN]
  <2>1. mHasPendingEvent' = [h \in Hardware |-> \/ mHasPendingEvent[h]
                                                \/ h \in dep_list(s) /\ repeatsValue(h)]
    BY DEF activateOn
  <2> QED
    BY <2>1, Zenon
<1>3. mFirstEventReceived' \in [Virtual -> BOOLEAN] /\ reportLastEvent' \in [Virtual -> BOOLEAN]
  <2>1. VirtualEnable(s)
    BY DEF activateOn
  <2> QED
    BY <2>1 DEF VirtualEnable, Keeps
<1>4. pipe' \in Nat
  BY Awake DEF activateOn, Keeps
<1>5. UNCHANGED <<mHasPendingMetadata, ring, data, revents>>
  BY DEF activateOn, poller
<1> QED
  BY <1>1, <1>2, <1>3, <1>4, <1>5 DEF Keeps

LEMMA ActivateOffEvents == ASSUME Keeps, Polls, NEW s \in Sensors,
                                  activateOff(s) PROVE Keeps' /\ Polls'
<1>1. Polls'
  BY StaysThere DEF activateOff, poller
<1>2. mFirstEventReceived' \in [Virtual -> BOOLEAN]
  <2>1. mFirstEventReceived' = [v \in Virtual |-> mFirstEventReceived[v] /\ v # s]
    BY DEF activateOff
  <2> QED
    BY <2>1, Zenon
<1>3. UNCHANGED <<mHasPendingMetadata, mHasPendingEvent, ring, reportLastEvent, data, pipe, revents>>
  BY DEF activateOff, poller
<1> QED
  BY <1>1, <1>2, <1>3 DEF Keeps

LEMMA SettingEvents == ASSUME Keeps, Polls, keepsAllButSettings PROVE Keeps' /\ Polls'
<1>1. Polls'
  BY StaysThere DEF keepsAllButSettings, poller
<1> QED
  BY <1>1 DEF Keeps, keepsAllButSettings, poller

LEMMA FlushEvents == ASSUME Keeps, Polls, NEW s \in Sensors, flush(s) PROVE Keeps' /\ Polls'
<1>1. Polls'
  BY StaysThere DEF flush, poller
<1>2. mHasPendingMetadata' \in [Sensors -> Nat]
  BY DEF flush, Keeps
<1>3. pipe' \in Nat
  BY Awake DEF flush, Keeps
<1>4. UNCHANGED <<mHasPendingEvent, ring, mFirstEventReceived, reportLastEvent, data, revents>>
  BY DEF flush, poller
<1> QED
  BY <1>1, <1>2, <1>3, <1>4 DEF Keeps

LEMMA ReportEvents == ASSUME Keeps, Polls, NEW h \in Hardware, Report(h) PROVE Keeps' /\ Polls'
<1>1. Polls'
  BY StaysThere DEF Report, poller
<1>2. data' \in [Hardware -> BOOLEAN]
  BY DEF Report, Keeps
<1>3. UNCHANGED <<mHasPendingMetadata, mHasPendingEvent, revents, ring, mFirstEventReceived,
                  reportLastEvent, pipe>>
  BY DEF Report, drivers, poller
<1> QED
  BY <1>1, <1>2, <1>3 DEF Keeps

(* The poll thread goes on with at most as many events as fit.             *)
LEMMA Advances == ASSUME Polls, pc = "scan", NEW nb \in 0..count, advance(nb) PROVE Polls'
<1>1. /\ count \in 0..MaxCount /\ nbEvents \in 0..MaxCount /\ index \in 1..Len(pollOrder)
      /\ count > 0 /\ count + nbEvents <= MaxCount
  BY DEF Polls, Scanning
<1>2. MaxCount \in Nat /\ Len(pollOrder) \in Nat
  BY SensorAssumption, Positive
<1>3. count' = count - nb /\ nbEvents' = nbEvents + nb
  BY DEF advance
<1>4. /\ count' \in 0..MaxCount /\ nbEvents' \in 0..MaxCount
      /\ count' + nbEvents' <= MaxCount
  BY <1>1, <1>2, <1>3
<1>5. CASE index = Len(pollOrder) \/ count' = 0
  <2>1. index' = 1 /\ pc' = IF count' = 0 THEN "out" ELSE "poll"
    BY <1>5 DEF advance
  <2>2. index' \in 1..Len(pollOrder) /\ pc' \in {"out", "scan", "poll"}
    BY <1>1, <1>2, <2>1
  <2>3. pc' # "out" => count' > 0
    BY <1>4, <2>1
  <2> QED
    BY <1>4, <2>2, <2>3 DEF Polls, Scanning
<1>6. CASE ~ (index = Len(pollOrder) \/ count' = 0)
  <2>1. index' = index + 1 /\ pc' = pc
    BY <1>6 DEF advance
  <2>2. index' \in 1..Len(pollOrder) /\ pc' \in {"out", "scan", "poll"}
    BY <1>1, <1>2, <1>6, <2>1
  <2>3. pc' # "out" => count' > 0
    BY <1>4, <1>6
  <2> QED
    BY <1>4, <2>2, <2>3 DEF Polls, Scanning
<1> QED
  BY <1>5, <1>6

LEMMA PollEventsEvents == ASSUME Keeps, Polls, pollEvents PROVE Keeps' /\ Polls'
<1>1. Polls'
  BY Positive DEF pollEvents, Polls, Scanning
<1> QED
  BY <1>1 DEF Keeps, pollEvents, drivers

LEMMA NothingToReadEvents == ASSUME Keeps, Polls, nothingToRead PROVE Keeps' /\ Polls'
<1>1. Polls'
  BY Advances DEF nothingToRead, Polls
<1> QED
  BY <1>1 DEF Keeps, nothingToRead, drivers

LEMMA Injects == ASSUME Keeps, NEW h \in Hardware,
                        Inject(h) PROVE ring' \in [Virtual -> 0..MaxEvents]
<1>1. PICK converted : ring' = [v \in Virtual |-> IF v \in converted /\ ring[v] < MaxEvents
                                                THEN ring[v] + 1 ELSE ring[v]]
  BY DEF Inject
<1> QED
  BY <1>1, Positive DEF Keeps

LEMMA ReadHardwareEvents == ASSUME Keeps, Polls, readHardware PROVE Keeps' /\ Polls'
<1> DEFINE h == Current
           nb == reported(h, IF mEnabled[h] THEN 1 ELSE 0)
<1>1. /\ pc = "scan" /\ h \in Hardware /\ advance(nb)
      /\ readPendingEvent(h) \/ readPendingMetadata(h) \/ readData(h)
      /\ revents' = [revents EXCEPT ![h] = @ /\ ~ noMoreData(nb)]
      /\ UNCHANGED <<mFirstEventReceived, reportLastEvent, pipe>>
  BY DEF readHardware
<1>2. Polls'
  <2>1. nb \in 0..count
    BY <1>1 DEF reported, Polls, Scanning
  <2> HIDE DEF nb
  <2> QED
    BY <1>1, <2>1, Advances
<1> HIDE DEF h, nb
<1>3. /\ mHasPendingMetadata' \in [Sensors -> Nat] /\ mHasPendingEvent' \in [Hardware -> BOOLEAN]
      /\ data' \in [Hardware -> BOOLEAN] /\ ring' \in [Virtual -> 0..MaxEvents]
  <2>0. h \in Sensors
    BY <1>1 DEF Sensors
  <2>1. CASE readPendingEvent(h)
    <3>1. ring' \in [Virtual -> 0..MaxEvents]
      BY <1>1, <2>1, Injects DEF readPendingEvent, Keeps
    <3> QED
      BY <1>1, <2>1, <3>1 DEF readPendingEvent, Keeps
  <2>2. CASE readPendingMetadata(h)
    BY <1>1, <2>0, <2>2 DEF readPendingMetadata, Keeps
  <2>3. CASE readData(h)
    <3>1. ring' \in [Virtual -> 0..MaxEvents]
      BY <1>1, <2>3, Injects DEF readData, Keeps
    <3> QED
      BY <1>1, <2>3, <3>1 DEF readData, Keeps
  <2> QED
    BY <1>1, <2>1, <2>2, <2>3
<1>4. revents' \in [Hardware -> BOOLEAN]
  BY <1>1, Zenon DEF Keeps
<1> QED
  BY <1>1, <1>2, <1>3, <1>4 DEF Keeps

LEMMA ReadVirtualEvents == ASSUME Keeps, Polls, readVirtual PROVE Keeps' /\ Polls'
<1> DEFINE v == Current
           last == IF reportLastEvent[v] THEN 1 ELSE 0
           meta == IF mHasPendingMetadata[v] > 0 /\ count > last THEN 1 ELSE 0
           events == Min({ring[v], count - last - meta})
<1>1. /\ pc = "scan" /\ v \in Virtual
      /\ \/ /\ mEnabled[v]
            /\ reportLastEvent' = [reportLastEvent EXCEPT ![v] = FALSE]
            /\ mHasPendingMetadata' = [mHasPendingMetadata EXCEPT ![v] = @ - meta]
            /\ ring' = [ring EXCEPT ![v] = @ - events]
            /\ mFirstEventReceived' = [mFirstEventReceived EXCEPT ![v] = @ \/ events > 0]
            /\ advance(reported(v, last + meta + events))
         \/ /\ advance(0)
            /\ UNCHANGED <<reportLastEvent, mHasPendingMetadata, ring, mFirstEventReceived>>
      /\ UNCHANGED <<mHasPendingEvent, revents, data, pipe>>
  BY DEF readVirtual
<1>2. count \in Nat /\ count > 0 /\ ring[v] \in 0..MaxEvents /\ mHasPendingMetadata[v] \in Nat
      /\ v \in Sensors
  BY <1>1, Positive DEF Polls, Scanning, Keeps, Sensors
<1>3. /\ last \in {0, 1} /\ meta \in {0, 1} /\ last + meta <= count
      /\ meta <= mHasPendingMetadata[v]
  BY <1>2
<1> HIDE DEF v, last, meta
<1>4. events \in 0..ring[v] /\ events <= count - last - meta
  BY <1>2, <1>3, Positive DEF Min
<1> HIDE DEF events
<1>5. last + meta + events \in 0..count /\ 0 \in 0..count
  BY <1>2, <1>3, <1>4
<1>6. Polls'
  <2>1. reported(v, last + meta + events) \in 0..count
    BY <1>5 DEF reported
  <2> QED
    BY <1>1, <1>5, <2>1, Advances
<1>7. reportLastEvent' \in [Virtual -> BOOLEAN] /\ mFirstEventReceived' \in [Virtual -> BOOLEAN]
  BY <1>1, Zenon DEF Keeps
<1>8. mHasPendingMetadata' \in [Sensors -> Nat]
  BY <1>1, <1>2, <1>3 DEF Keeps
<1>9. ring' \in [Virtual -> 0..MaxEvents]
  BY <1>1, <1>2, <1>4, Positive DEF Keeps
<1> QED
  BY <1>1, <1>6, <1>7, <1>8, <1>9 DEF Keeps

LEMMA PollEvents == ASSUME Keeps, Polls, poll PROVE Keeps' /\ Polls'
<1>1. pc' \in {"out", "scan"} /\ pc = "poll" /\ UNCHANGED <<index, count, nbEvents>>
  BY DEF poll
<1>2. Polls'
  BY <1>1 DEF Polls, Scanning
<1>3. pipe' \in Nat
  BY DEF poll, Keeps
<1>4. revents' \in [Hardware -> BOOLEAN]
  BY DEF poll, Keeps
<1>5. UNCHANGED <<mHasPendingMetadata, mHasPendingEvent, ring, mFirstEventReceived,
                  reportLastEvent, data>>
  BY DEF poll, drivers
<1> QED
  BY <1>2, <1>3, <1>4, <1>5 DEF Keeps

-----------------------------------------------------------------------------
LEMMA ServiceStep == ASSUME SettingsInv, Keeps, Polls,
                            Service PROVE SettingsInv' /\ Keeps' /\ Polls'
<1>1. ASSUME NEW s \in Sensors, activateOn(s) PROVE SettingsInv' /\ Keeps' /\ Polls'
  BY <1>1, ActivateOnSettings, ActivateOnEvents
<1>2. ASSUME NEW s \in Sensors, activateOff(s) PROVE SettingsInv' /\ Keeps' /\ Polls'
  BY <1>2, ActivateOffSettings, ActivateOffEvents
<1>3. ASSUME NEW s \in Sensors, flush(s) PROVE SettingsInv' /\ Keeps' /\ Polls'
  <2>1. UNCHANGED <<enable, delay_ns, latency_ns, period, timeout, listener, mEnabled, pollDelay,
                          maxLatency>>
    BY <1>3 DEF flush, asked
  <2> QED
    BY <1>3, <2>1, OtherSettings, FlushEvents
<1>4. ASSUME NEW s \in Sensors, NEW ns \in Delays, setDelay(s, ns)
      PROVE  SettingsInv' /\ Keeps' /\ Polls'
  <2>1. keepsAllButSettings
    BY <1>4 DEF setDelay
  <2> QED
    BY <1>4, <2>1, SetDelaySettings, SettingEvents
<1>5. ASSUME NEW s \in Sensors, NEW b \in Batches, batch(s, b[1], b[2])
      PROVE  SettingsInv' /\ Keeps' /\ Polls'
  <2>1. keepsAllButSettings
    BY <1>5 DEF batch
  <2>2. b[1] \in Nat \ {0} /\ b[2] \in Nat
    BY SensorAssumption
  <2> QED
    BY <1>5, <2>1, <2>2, BatchSettings, SettingEvents
<1> QED
  BY <1>1, <1>2, <1>3, <1>4, <1>5 DEF Service

LEMMA OtherStep ==
    ASSUME SettingsInv, Keeps, Polls, PollThread \/ \E h \in Hardware : Report(h)
    PROVE  SettingsInv' /\ Keeps' /\ Polls'
<1>1. UNCHANGED <<enable, delay_ns, latency_ns, period, timeout, listener, mEnabled, pollDelay,
                          maxLatency>>
  <2>1. CASE pollEvents
    BY <2>1 DEF pollEvents, asked, drivers
  <2>2. CASE nothingToRead
    BY <2>2 DEF nothingToRead, asked, drivers
  <2>3. CASE readHardware
    BY <2>3 DEF readHardware, asked
  <2>4. CASE readVirtual
    BY <2>4 DEF readVirtual, asked
  <2>5. CASE poll
    BY <2>5 DEF poll, asked, drivers
  <2>6. CASE \E h \in Hardware : Report(h)
    BY <2>6 DEF Report, asked, drivers
  <2> QED
    BY <2>1, <2>2, <2>3, <2>4, <2>5, <2>6 DEF PollThread
<1>2. SettingsInv'
  BY <1>1, OtherSettings
<1>3. Keeps' /\ Polls'
  BY PollEventsEvents, NothingToReadEvents, ReadHardwareEvents, ReadVirtualEvents, PollEvents,
     ReportEvents DEF PollThread
<1> QED
  BY <1>2, <1>3

LEMMA InvStep == SensorInv /\ [Next]_vars => SensorInv'
<1> SUFFICES ASSUME SensorInv, [Next]_vars PROVE SensorInv'
  OBVIOUS
<1>1. SettingsInv /\ Keeps /\ Polls
  BY Events DEF SensorInv
<1>2. SettingsInv' /\ Keeps' /\ Polls'
  <2>1. CASE Service
    BY <1>1, <2>1, ServiceStep
  <2>2. CASE PollThread \/ \E h \in Hardware : Report(h)
    BY <1>1, <2>2, OtherStep
  <2>3. CASE UNCHANGED vars
    <3>1. UNCHANGED <<enable, delay_ns, latency_ns, period, timeout, listener, mEnabled, pollDelay,
                          maxLatency>>
      BY <2>3 DEF vars, asked, drivers
    <3>2. SettingsInv'
      BY <1>1, <3>1, OtherSettings
    <3>3. Polls'
      BY <1>1, <2>3, StaysThere DEF vars, poller
    <3>4. Keeps'
      BY <1>1, <2>3 DEF Keeps, vars, drivers, poller
    <3> QED
      BY <3>2, <3>3, <3>4
  <2> QED
    BY <2>1, <2>2, <2>3 DEF Next
<1>3. EventsType' /\ Scanning'
  BY <1>2 DEF EventsType, Keeps, Polls
<1> QED
  BY <1>2, <1>3 DEF SensorInv

(* In every reachable state of any instance.                               *)
THEOREM Invariance == Spec => []SensorInv
<1>1. Init => SensorInv
  BY InitInv
<1>2. SensorInv /\ [Next]_vars => SensorInv'
  BY InvStep
<1> QED
  BY <1>1, <1>2, PTL DEF Spec

(* The settings, the drivers' events and the poll thread's counters are of *)
(* their type: pollEvents never writes beyond the caller's array.          *)
THEOREM TypeCorrect == Spec => []TypeOK
<1>1. SensorInv => TypeOK
  BY Types DEF SensorInv, SettingsInv
<1> QED
  BY <1>1, Invariance, PTL

(* syncDelay finds the shortest period that is kept.                       *)
LEMMA Fastest ==
    ASSUME SettingsInv, NEW h \in Hardware, Users(h) # {}
    PROVE  LET set == {delay_ns[s] : s \in Users(h)} \ {0}
           IN  \/ set # {} /\ pollDelay[h] = Min(set)
               \/ pollDelay[h] = 0 /\ \E s \in Users(h) : delay_ns[s] = 0
<1> DEFINE set == {delay_ns[s] : s \in Users(h)} \ {0}
           first == Head(listener[h])
           all == {delay_ns[first]} \cup set
<1>1. /\ listener[h] \in Seq(Sensors) /\ ToSet(listener[h]) = Users(h)
      /\ delay_ns \in [Sensors -> Int] /\ \A s \in Sensors : delay_ns[s] >= -IntRange
  BY DEF SettingsInv, SettingsType, ListenersAreUsers, Bounded
<1>2. listener[h] # <<>> /\ first \in Users(h) /\ first \in Sensors
  BY <1>1, Elements
<1>3. pollDelay[h] = Min(all)
  BY <1>1, <1>2 DEF SettingsInv, DelayInSync, fastest
<1>4. CASE delay_ns[first] # 0
  <2>1. delay_ns[first] \in set
    BY <1>2, <1>4
  <2>2. all = set
    BY <2>1
  <2> QED
    BY <1>3, <2>1, <2>2
<1>5. CASE delay_ns[first] = 0
  <2>1. all \in SUBSET Int /\ all # {} /\ (\A x \in all : x >= -IntRange) /\ -IntRange \in Int
    BY <1>1, <1>2, Positive DEF Users
  <2>2. set \subseteq all /\ \A x \in all : x = 0 \/ x \in set
    BY <1>5
  <2> HIDE DEF all, set
  <2>3. Min(all) \in all /\ \A y \in all : Min(all) <= y
    BY <2>1, Least
  <2>4. CASE Min(all) = 0
    BY <1>2, <1>3, <1>5, <2>4
  <2>5. CASE Min(all) # 0
    <3>1. Min(all) \in set /\ \A y \in set : Min(all) <= y
      BY <2>2, <2>3, <2>5
    <3>2. \A x \in set : (\A y \in set : x <= y) => x = Min(all)
      <4> SUFFICES ASSUME NEW x \in set, \A y \in set : x <= y PROVE x = Min(all)
        OBVIOUS
      <4>1. x \in Int /\ Min(all) \in Int
        BY <2>1, <2>2, <2>3
      <4>2. x <= Min(all) /\ Min(all) <= x
        BY <3>1
      <4> QED
        BY <4>1, <4>2
    <3>3. Min(set) = Min(all)
      BY <3>1, <3>2 DEF Min
    <3> QED
      BY <1>3, <3>1, <3>3 DEF set
  <2> QED
    BY <2>4, <2>5 DEF set
<1> QED
  BY <1>4, <1>5

(* The period and the latency of a hardware sensor are those its most      *)
(* demanding user asked for, through every sequence of activate, setDelay  *)
(* and batch, as long as the users' times fit into an int.                 *)
THEOREM FastestRules == Spec => []FastestUserRules
<1>1. ASSUME SettingsInv, NEW h \in Hardware, Users(h) # {}, \A s \in Users(h) : Fits(period[s])
      PROVE  /\ \A s \in Users(h) :
                   period[s] # 0 => pollDelay[h] <= period[s] \/ pollDelay[h] <= minDelay[s]
             /\ \E s \in Users(h) : pollDelay[h] >= period[s]
  <2> DEFINE set == {delay_ns[s] : s \in Users(h)} \ {0}
  <2>1. \A s \in Users(h) : /\ s \in Sensors /\ delay_ns[s] \in Int /\ period[s] \in Nat
                            /\ minDelay[s] \in Nat /\ delay_ns[s] >= -IntRange
                            /\ period[s] <= delay_ns[s]
                            /\ delay_ns[s] <= period[s] \/ delay_ns[s] <= minDelay[s]
                            /\ delay_ns[s] = 0 <=> period[s] = 0
    BY <1>1, SensorAssumption DEF SettingsInv, SettingsType, Bounded, AsAsked, Users
  <2>2. CASE set # {} /\ pollDelay[h] = Min(set)
    <3>1. set \in SUBSET Int /\ set # {} /\ (\A x \in set : x >= -IntRange) /\ -IntRange \in Int
      BY <2>1, <2>2, Positive
    <3> HIDE DEF set
    <3>2. Min(set) \in set /\ \A y \in set : Min(set) <= y
      BY <3>1, Least
    <3>3. Min(set) \in Int
      BY <3>1, <3>2
    <3>4. \A s \in Users(h) : period[s] # 0 => Min(set) <= delay_ns[s]
      BY <2>1, <3>2 DEF set
    <3>5. \E s \in Users(h) : Min(set) = delay_ns[s]
      BY <3>2 DEF set
    <3> QED
      BY <2>1, <2>2, <3>3, <3>4, <3>5
  <2>3. CASE pollDelay[h] = 0 /\ \E s \in Users(h) : delay_ns[s] = 0
    BY <2>1, <2>3
  <2> QED
    BY <1>1, <2>2, <2>3, Fastest
<1>2. ASSUME SettingsInv, NEW h \in Fifo, Users(h) # {}, \A s \in Users(h) : Fits(timeout[s])
      PROVE  maxLatency[h] = Min({timeout[s] : s \in Users(h)})
  <2>0. h \in Hardware
    BY SensorAssumption
  <2>1. listener[h] \in Seq(Sensors) /\ ToSet(listener[h]) = Users(h)
    BY <1>2, <2>0 DEF SettingsInv, SettingsType, ListenersAreUsers
  <2>2. listener[h] # <<>>
    BY <1>2, <2>1, Elements
  <2>3. \A s \in Users(h) : latency_ns[s] = timeout[s] /\ timeout[s] \in Nat
    BY <1>2 DEF SettingsInv, SettingsType, AsAsked, Users
  <2> DEFINE set == {timeout[s] : s \in Users(h)}
  <2>4. {latency_ns[s] : s \in ToSet(listener[h])} = set
    BY <2>1, <2>3
  <2>5. set \in SUBSET Int /\ set # {} /\ \A x \in set : x >= 0
    BY <1>2, <2>3
  <2> HIDE DEF set
  <2>6. Min(set) \in set
    BY <2>5, Least
  <2>7. Min(set) >= 0 => maxLatency[h] = Min(set)
    BY <1>2, <2>2, <2>4 DEF SettingsInv, LatencyInSync
  <2> QED
    BY <2>5, <2>6, <2>7 DEF set
<1>3. SensorInv => FastestUserRules
  BY <1>1, <1>2 DEF SensorInv, FastestUserRules
<1> QED
  BY <1>3, Invariance, PTL

(* activate switches a driver on for its first user and off with its last, *)
(* whichever hardware and virtual sensors share it.                        *)
LEMMA PowerStep ==
    ASSUME SensorInv, SensorInv', Next, NEW h \in Hardware
    PROVE  /\ Users(h)' # {} => mEnabled'[h]
           /\ Users(h) # {} /\ Users(h)' = {} => ~ mEnabled'[h]
<1>1. Users(h)' # {} => mEnabled'[h]
  BY Elements DEF SensorInv, SettingsInv, SettingsType, ListenersAreUsers, Powered
<1>2. ASSUME Users(h) # {}, Users(h)' = {} PROVE ~ mEnabled'[h]
  <2>1. ASSUME enable' = enable PROVE FALSE
    BY <1>2, <2>1 DEF Users
  <2>2. PICK s \in Sensors : activateOn(s) \/ activateOff(s)
    <3>1. CASE Service
      BY <2>1, <3>1 DEF Service, flush, asked, setDelay, batch, keepsAllButSettings
    <3>2. CASE PollThread
      BY <2>1, <3>2 DEF PollThread, pollEvents, nothingToRead, readHardware, readVirtual, poll,
                        asked
    <3>3. CASE \E k \in Hardware : Report(k)
      BY <2>1, <3>3 DEF Report, asked
    <3> QED
      BY <3>1, <3>2, <3>3 DEF Next
  <2>3. enable \in [Sensors -> BOOLEAN] /\ h \in Sensors
    BY DEF SensorInv, SettingsInv, SettingsType, Sensors
  <2>4. CASE activateOn(s)
    <3>1. enable' = [enable EXCEPT ![s] = TRUE]
      BY <2>4 DEF activateOn
    <3> QED
      BY <1>2, <2>3, <3>1 DEF Users
  <2>5. CASE activateOff(s)
    <3>1. h \in dep_list(s)
      <4>1. enable' = [enable EXCEPT ![s] = FALSE]
        BY <2>5 DEF activateOff
      <4> QED
        BY <1>2, <2>3, <4>1 DEF Users
    <3>2. switchOff(listener'[h])
      BY <1>2, Elements DEF SensorInv, SettingsInv, SettingsType, ListenersAreUsers, switchOff
    <3>3. mEnabled' = [x \in Sensors |-> mEnabled[x] /\
              x \notin {k \in dep_list(s) : switchOff(listener'[k])} \cup ({s} \cap Virtual)]
      BY <2>5, Dependencies DEF activateOff
    <3> QED
      BY <2>3, <3>1, <3>2, <3>3
  <2> QED
    BY <2>2, <2>4, <2>5
<1> QED
  BY <1>1, <1>2

THEOREM PowerFollows == Spec => PowerFollowsNeed
<1>1. SensorInv /\ SensorInv' /\ [Next]_vars =>
          [\A h \in Hardware : /\ Users(h)' # {} => mEnabled'[h]
                               /\ Users(h) # {} /\ Users(h)' = {} => ~ mEnabled'[h]]_vars
  BY PowerStep
<1> QED
  BY <1>1, Invariance, PTL DEF Spec, PowerFollowsNeed
==============================================================================
