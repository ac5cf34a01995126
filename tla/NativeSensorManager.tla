------------------------- MODULE NativeSensorManager -------------------------
(***************************************************************************)
(* The sensors HAL.  Hardware sensors have an input device and a driver    *)
(* with a sysfs switch and a poll delay; virtual sensors are computed from *)
(* the events of the hardware sensors they depend on.  A hardware sensor   *)
(* keeps a list of listeners, the sensors (itself among them) that are     *)
(* enabled and need it.  Calls of the sensor service (sensors.cpp) run to  *)
(* their end under mLock.  The poll thread goes through the sensors one by *)
(* one, reads each under mLock, and sleeps in poll(2) on the input devices *)
(* and on a pipe that activate and flush write to.                         *)
(***************************************************************************)
EXTENDS Integers, Sequences, FiniteSets, SequencesExt, FiniteSetsExt

CONSTANTS Hardware,      \* sensors with a driver of their own
          StartsOn,      \* the accelerometer and the compass, which may be among them
          Virtual,       \* sensors computed from others
          Deps,          \* what each virtual sensor depends on
          OnChange,      \* light and proximity: they report changes only
          Fifo,          \* hardware sensors with fifoMaxEventCount > 0
          pollOrder,     \* sensor_list: the hardware sensors come first
          minDelay,      \* of each sensor
          Delays,        \* what the service may ask for by setDelay
          Batches,       \* and by batch: a period and a latency
          IntRange,      \* 2^32: the values of an int
          MaxEvents,     \* MAX_EVENTS of a virtual sensor's ring
          MaxCount,      \* events that fit into the caller's array
          MaxMetadata,   \* bound: flushes of a sensor not yet reported
          MaxWakes       \* bound: bytes in the pipe

Sensors == Hardware \cup Virtual

ASSUME SensorAssumption ==
    /\ IsFiniteSet(Sensors) /\ Hardware \cap Virtual = {} /\ StartsOn \subseteq Hardware
    /\ Deps \in [Virtual -> (SUBSET Hardware) \ {{}}]
    /\ OnChange \subseteq Hardware /\ Fifo \subseteq Hardware
    /\ pollOrder \in Seq(Sensors) \ {<<>>}
    /\ Delays \subseteq Nat \ {0} /\ Batches \subseteq (Nat \ {0}) \X Nat
    /\ minDelay \in [Sensors -> Nat]
    /\ IntRange \in Nat \ {0} /\ MaxEvents \in Nat \ {0} /\ MaxCount \in Nat \ {0}
    /\ MaxMetadata \in Nat /\ MaxWakes \in Nat

(* dep_list: a hardware sensor depends on itself.                          *)
dep_list(s) == IF s \in Virtual THEN Deps[s] ELSE {s}

VARIABLES
    enable, delay_ns, latency_ns,     \* SensorContext: what the service asked for
    period, timeout,                  \* history: the times of its last call for the sensor
    listener,                         \* SensorContext: list of a hardware sensor
    mEnabled,                         \* of every driver
    pollDelay, maxLatency,            \* written to the sysfs nodes of the hardware
    mHasPendingMetadata,              \* flushes to report
    mHasPendingEvent,                 \* an on-change sensor is to repeat its value
    data,                             \* the input device has a report to read
    ring,                             \* events in a virtual sensor's buffer
    mFirstEventReceived, reportLastEvent,
    pc, index, count, nbEvents,       \* the poll thread in pollEvents
    revents,                          \* of the input devices
    pipe                              \* bytes in the wake pipe

asked   == <<enable, delay_ns, latency_ns, listener, period, timeout>>
drivers == <<mEnabled, pollDelay, maxLatency, mHasPendingMetadata, mHasPendingEvent,
             ring, mFirstEventReceived, reportLastEvent>>
poller  == <<pc, index, count, nbEvents, revents>>
vars    == <<asked, drivers, poller, data, pipe>>

(***************************************************************************)
(* getDataInfo.  The drivers of the accelerometer and of the compass       *)
(* switch themselves on when they are made, if their nodes can be opened.  *)
(***************************************************************************)
Init ==
    /\ enable = [s \in Sensors |-> FALSE]
    /\ delay_ns = [s \in Sensors |-> 0] /\ latency_ns = [s \in Sensors |-> 0]
    /\ period = [s \in Sensors |-> 0] /\ timeout = [s \in Sensors |-> 0]
    /\ listener = [h \in Hardware |-> <<>>]
    /\ \E on \in SUBSET StartsOn : mEnabled = [s \in Sensors |-> s \in on]
    /\ pollDelay = [h \in Hardware |-> 0] /\ maxLatency = [h \in Hardware |-> 0]
    /\ mHasPendingMetadata = [s \in Sensors |-> 0]
    /\ mHasPendingEvent = [h \in Hardware |-> FALSE]
    /\ data = [h \in Hardware |-> FALSE]
    /\ ring = [v \in Virtual |-> 0]
    /\ mFirstEventReceived = [v \in Virtual |-> FALSE]
    /\ reportLastEvent = [v \in Virtual |-> FALSE]
    /\ pc = "out" /\ index = 1 /\ count = 0 /\ nbEvents = 0
    /\ revents = [h \in Hardware |-> FALSE]
    /\ pipe = 0

-----------------------------------------------------------------------------
(***************************************************************************)
(* The list of listeners, and the settings that follow from it.  The new   *)
(* values of the list and of what was asked are parameters: syncDelay and  *)
(* syncLatency run in the middle of the calls that change them.            *)
(***************************************************************************)
registerListener(l, s) == IF Contains(l, s) THEN l ELSE Append(l, s)

unregisterListener(l, s) == RemoveFirst(l, s)

(* The delay of the first listener, or the smallest that has been set.     *)
firstDelay(l, delays) == delays[Head(l)]
fastest(l, delays) == Min({delays[Head(l)]} \cup ({delays[s] : s \in ToSet(l)} \ {0}))

syncDelay(h, l, delays) == IF l = <<>> THEN pollDelay[h] ELSE fastest(l, delays)

(* The shortest latency; SensorBase::setLatency refuses a negative one,    *)
(* and nobody asks what it returned.                                       *)
setLatency(h, ns) == IF ns < 0 THEN maxLatency[h] ELSE ns

syncLatency(h, l, latencies) ==
    IF l = <<>> \/ h \notin Fifo THEN maxLatency[h]
                                 ELSE setLatency(h, Min({latencies[s] : s \in ToSet(l)}))

Wake == pipe' = IF pipe < MaxWakes THEN pipe + 1 ELSE pipe

(***************************************************************************)
(* activate(s, 1): each background sensor gets a listener, its settings    *)
(* are synchronized and its driver is enabled; an on-change driver that is *)
(* on already will repeat its value.  A virtual sensor that was enabled    *)
(* already will repeat its last event.                                     *)
(***************************************************************************)
VirtualEnable(s) ==
    IF s \notin Virtual THEN UNCHANGED <<mFirstEventReceived, reportLastEvent>>
    ELSE IF mEnabled[s]
         THEN /\ reportLastEvent' = [reportLastEvent EXCEPT ![s] = mFirstEventReceived[s]]
              /\ UNCHANGED mFirstEventReceived
         ELSE /\ mFirstEventReceived' = [mFirstEventReceived EXCEPT ![s] = FALSE]
              /\ UNCHANGED reportLastEvent

repeatsValue(h) == h \in OnChange /\ mEnabled[h]

activateOn(s) ==
    LET listeners == [h \in Hardware |-> IF h \in dep_list(s) THEN registerListener(listener[h], s)
                                                              ELSE listener[h]]
    IN /\ enable' = [enable EXCEPT ![s] = TRUE]
       /\ listener' = listeners
       /\ maxLatency' = [h \in Hardware |-> IF h \in dep_list(s)
                            THEN syncLatency(h, listeners[h], latency_ns) ELSE maxLatency[h]]
       /\ pollDelay' = [h \in Hardware |-> IF h \in dep_list(s)
                            THEN syncDelay(h, listeners[h], delay_ns) ELSE pollDelay[h]]
       /\ mEnabled' = [x \in Sensors |-> mEnabled[x] \/ x \in dep_list(s) \cup {s}]
       /\ mHasPendingEvent' = [h \in Hardware |-> \/ mHasPendingEvent[h]
                                                  \/ h \in dep_list(s) /\ repeatsValue(h)]
       /\ VirtualEnable(s)
       /\ Wake
       /\ UNCHANGED <<delay_ns, latency_ns, period, timeout, mHasPendingMetadata, ring, data>>
       /\ UNCHANGED poller

(***************************************************************************)
(* activate(s, 0): the sensor stops listening; a background sensor that    *)
(* nobody listens to is switched off, the others slow down.                *)
(***************************************************************************)
offRegardless(l) == TRUE
switchOff(l) == l = <<>>

activateOff(s) ==
    LET listeners == [h \in Hardware |-> IF h \in dep_list(s)
                            THEN unregisterListener(listener[h], s) ELSE listener[h]]
        off == {h \in dep_list(s) : switchOff(listeners[h])} \cup ({s} \cap Virtual)
    IN /\ enable' = [enable EXCEPT ![s] = FALSE]
       /\ listener' = listeners
       /\ pollDelay' = [h \in Hardware |-> IF h \in dep_list(s)
                            THEN syncDelay(h, listeners[h], delay_ns) ELSE pollDelay[h]]
       /\ maxLatency' = [h \in Hardware |-> IF h \in dep_list(s)
                            THEN syncLatency(h, listeners[h], latency_ns) ELSE maxLatency[h]]
       /\ mEnabled' = [x \in Sensors |-> mEnabled[x] /\ x \notin off]
       /\ mFirstEventReceived' = [v \in Virtual |-> mFirstEventReceived[v] /\ v # s]
       /\ UNCHANGED <<delay_ns, latency_ns, period, timeout, mHasPendingMetadata,
                      mHasPendingEvent, ring, reportLastEvent, data, pipe>> /\ UNCHANGED poller

(* What follows a new setting of s in the sensors it depends on.           *)
syncDelays(s, delays) ==
    pollDelay' = [h \in Hardware |-> IF h \in dep_list(s)
                    THEN syncDelay(h, listener[h], delays) ELSE pollDelay[h]]

syncLatencies(s, latencies) ==
    maxLatency' = [h \in Hardware |-> IF h \in dep_list(s)
                    THEN syncLatency(h, listener[h], latencies) ELSE maxLatency[h]]

keepsAllButSettings ==
    /\ UNCHANGED <<enable, listener, mEnabled, mHasPendingMetadata, mHasPendingEvent, ring,
                   mFirstEventReceived, reportLastEvent, data, pipe>> /\ UNCHANGED poller

setDelay(s, ns) ==
    LET delays == [delay_ns EXCEPT ![s] = IF ns < minDelay[s] THEN minDelay[s] ELSE ns]
    IN /\ delay_ns' = delays
       /\ syncDelays(s, delays)
       /\ period' = [period EXCEPT ![s] = ns]
       /\ UNCHANGED <<latency_ns, maxLatency, timeout>>
       /\ keepsAllButSettings

(* batch takes the 64 bit times of its caller in ints: a long period       *)
(* becomes another one, or a negative one.  It refuses a latency shorter   *)
(* than the period, and does not clamp.                                    *)
toInt(ns) == LET low == ns % IntRange
             IN IF low >= IntRange \div 2 THEN low - IntRange ELSE low

batch(s, sample_ns, latency) ==
    LET sample == toInt(sample_ns)
        delays == [delay_ns EXCEPT ![s] = sample]
        latencies == [latency_ns EXCEPT ![s] = toInt(latency)]
    IN /\ toInt(latency) = 0 \/ toInt(latency) >= sample
       /\ delay_ns' = delays /\ latency_ns' = latencies
       /\ syncDelays(s, delays) /\ syncLatencies(s, latencies)
       /\ period' = [period EXCEPT ![s] = sample_ns] /\ timeout' = [timeout EXCEPT ![s] = latency]
       /\ keepsAllButSettings

(* SensorBase::flush asks whether the driver is on, not whether the sensor *)
(* is enabled; the pipe is written to in any case.                         *)
flush(s) ==
    /\ mHasPendingMetadata[s] < MaxMetadata
    /\ mHasPendingMetadata' = IF mEnabled[s] THEN [mHasPendingMetadata EXCEPT ![s] = @ + 1]
                                             ELSE mHasPendingMetadata
    /\ Wake
    /\ UNCHANGED <<mEnabled, pollDelay, maxLatency, mHasPendingEvent, ring,
                   mFirstEventReceived, reportLastEvent, data>>
    /\ UNCHANGED asked /\ UNCHANGED poller

-----------------------------------------------------------------------------
(* A driver that is on has a new report; it stays until it is read.        *)
Report(h) ==
    /\ mEnabled[h] /\ ~ data[h]
    /\ data' = [data EXCEPT ![h] = TRUE]
    /\ UNCHANGED <<asked, drivers, poller, pipe>>

hasPendingEvents(s) ==
    \/ mHasPendingMetadata[s] > 0
    \/ s \in Hardware /\ mHasPendingEvent[s]
    \/ s \in Virtual /\ (ring[s] > 0 \/ reportLastEvent[s])

(* pollEvents begins; the caller does nothing else than call it again.     *)
pollEvents ==
    /\ pc = "out"
    /\ pc' = "scan" /\ index' = 1 /\ count' = MaxCount /\ nbEvents' = 0
    /\ UNCHANGED revents /\ UNCHANGED <<asked, drivers, data, pipe>>

Current == pollOrder[index]

(* The step to the next sensor, after nb events have been read.            *)
advance(nb) ==
    /\ count' = count - nb /\ nbEvents' = nbEvents + nb
    /\ IF index = Len(pollOrder) \/ count' = 0
       THEN index' = 1 /\ pc' = IF count' = 0 THEN "out" ELSE "poll"
       ELSE index' = index + 1 /\ pc' = pc

nothingToRead ==
    /\ pc = "scan"
    /\ ~ hasPendingEvents(Current)
    /\ Current \in Hardware => ~ revents[Current]
    /\ advance(0)
    /\ UNCHANGED revents /\ UNCHANGED <<asked, drivers, data, pipe>>

(* What NativeSensorManager::readEvents reports of n events read.          *)
reported(s, n) == IF enable[s] THEN n ELSE 0

(* injectEvents of the virtual sensors that listen: the algorithm may have *)
(* no result, and a full ring takes no more.                               *)
Inject(h) ==
    \E converted \in SUBSET {v \in ToSet(listener[h]) \ {h} : enable[v]} :
        ring' = [v \in Virtual |-> IF v \in converted /\ ring[v] < MaxEvents
                                   THEN ring[v] + 1 ELSE ring[v]]

(* readEvents of a hardware driver: a repeated value, a flush or the data. *)
readPendingEvent(h) ==
    /\ mHasPendingEvent[h]
    /\ mHasPendingEvent' = [mHasPendingEvent EXCEPT ![h] = FALSE]
    /\ IF mEnabled[h] THEN Inject(h) ELSE UNCHANGED ring
    /\ UNCHANGED <<mHasPendingMetadata, data>>

readPendingMetadata(h) ==
    /\ ~ mHasPendingEvent[h] /\ mHasPendingMetadata[h] > 0
    /\ mHasPendingMetadata' = [mHasPendingMetadata EXCEPT ![h] = @ - 1]
    /\ UNCHANGED <<mHasPendingEvent, ring, data>>

readData(h) ==
    /\ ~ mHasPendingEvent[h] /\ mHasPendingMetadata[h] = 0 /\ revents[h]
    /\ data' = [data EXCEPT ![h] = FALSE]
    /\ IF mEnabled[h] THEN Inject(h) ELSE UNCHANGED ring
    /\ UNCHANGED <<mHasPendingEvent, mHasPendingMetadata>>

(* The descriptor is given up until the next poll(2) even if the array is  *)
(* full: a sensor with a lot of data does not keep the others waiting.     *)
fewerThanRoom(nb) == nb < count
noMoreData(nb) == nb <= count

readHardware ==
    LET h == Current
        nb == reported(h, IF mEnabled[h] THEN 1 ELSE 0)
    IN
    /\ pc = "scan" /\ h \in Hardware
    /\ readPendingEvent(h) \/ readPendingMetadata(h) \/ readData(h)
    /\ revents' = [revents EXCEPT ![h] = @ /\ ~ noMoreData(nb)]
    /\ advance(nb)
    /\ UNCHANGED <<mEnabled, pollDelay, maxLatency, mFirstEventReceived, reportLastEvent, pipe>>
    /\ UNCHANGED asked

(* readEvents of a virtual driver, which is off when its sensor is.        *)
readVirtual ==
    LET v == Current
        last == IF reportLastEvent[v] THEN 1 ELSE 0
        meta == IF mHasPendingMetadata[v] > 0 /\ count > last THEN 1 ELSE 0
        events == Min({ring[v], count - last - meta})
    IN /\ pc = "scan" /\ v \in Virtual /\ hasPendingEvents(v)
       /\ IF mEnabled[v]
          THEN /\ reportLastEvent' = [reportLastEvent EXCEPT ![v] = FALSE]
               /\ mHasPendingMetadata' = [mHasPendingMetadata EXCEPT ![v] = @ - meta]
               /\ ring' = [ring EXCEPT ![v] = @ - events]
               /\ mFirstEventReceived' = [mFirstEventReceived EXCEPT ![v] = @ \/ events > 0]
               /\ advance(reported(v, last + meta + events))
          ELSE /\ advance(0)
               /\ UNCHANGED <<reportLastEvent, mHasPendingMetadata, ring, mFirstEventReceived>>
       /\ UNCHANGED <<mEnabled, pollDelay, maxLatency, mHasPendingEvent, revents, data, pipe>>
       /\ UNCHANGED asked

(***************************************************************************)
(* poll(2), which waits only if nothing has been read yet.  One byte is    *)
(* taken from the pipe.                                                    *)
(***************************************************************************)
ready == pipe > 0 \/ \E h \in Hardware : data[h]

poll ==
    /\ pc = "poll"
    /\ ready \/ nbEvents > 0
    /\ revents' = data
    /\ pipe' = IF pipe > 0 THEN pipe - 1 ELSE pipe
    /\ pc' = IF ready THEN "scan" ELSE "out"
    /\ UNCHANGED <<index, count, nbEvents, data>> /\ UNCHANGED <<asked, drivers>>

-----------------------------------------------------------------------------
Service ==
    \/ \E s \in Sensors : activateOn(s) \/ activateOff(s) \/ flush(s)
    \/ \E s \in Sensors, ns \in Delays : setDelay(s, ns)
    \/ \E s \in Sensors, b \in Batches : batch(s, b[1], b[2])

PollThread == pollEvents \/ nothingToRead \/ readHardware \/ readVirtual \/ poll

Next == Service \/ PollThread \/ \E h \in Hardware : Report(h)

Spec == Init /\ [][Next]_vars /\ WF_vars(PollThread)

-----------------------------------------------------------------------------
(* The state of the sensors and of the poll thread.                        *)
TypeOK ==
    /\ enable \in [Sensors -> BOOLEAN] /\ mEnabled \in [Sensors -> BOOLEAN]
    /\ delay_ns \in [Sensors -> Int] /\ latency_ns \in [Sensors -> Int]
    /\ period \in [Sensors -> Nat] /\ timeout \in [Sensors -> Nat]
    /\ listener \in [Hardware -> Seq(Sensors)]
    /\ pollDelay \in [Hardware -> Int] /\ maxLatency \in [Hardware -> Int]
    /\ mHasPendingMetadata \in [Sensors -> Nat]
    /\ mHasPendingEvent \in [Hardware -> BOOLEAN]
    /\ data \in [Hardware -> BOOLEAN] /\ revents \in [Hardware -> BOOLEAN]
    /\ ring \in [Virtual -> 0..MaxEvents]
    /\ mFirstEventReceived \in [Virtual -> BOOLEAN] /\ reportLastEvent \in [Virtual -> BOOLEAN]
    /\ pc \in {"out", "scan", "poll"} /\ index \in 1..Len(pollOrder)
    /\ count \in 0..MaxCount /\ nbEvents \in 0..MaxCount /\ pipe \in Nat

(* The sensors that are enabled and need the hardware sensor h.            *)
Users(h) == {s \in Sensors : enable[s] /\ h \in dep_list(s)}

(***************************************************************************)
(* Whatever sequence of activations shares a hardware sensor between       *)
(* itself and virtual sensors, in any order and with repetitions: its      *)
(* driver is on as long as one enabled sensor needs it, and goes off with  *)
(* the last one (activate).                                                *)
(***************************************************************************)
PowerFollowsNeed ==
    [][\A h \in Hardware : /\ Users(h)' # {} => mEnabled'[h]
                           /\ Users(h) # {} /\ Users(h)' = {} => ~ mEnabled'[h]]_vars

(***************************************************************************)
(* Through all the enabling, disabling and retuning of sensors that share  *)
(* a hardware sensor, it samples at least as fast as each enabled user     *)
(* has asked, as far as the user's minimum allows, but no faster than one  *)
(* of them has asked, and it batches exactly as long as the most impatient *)
(* one has asked (syncDelay, syncLatency).  This is about users whose      *)
(* times fit into the ints of batch: the cut times of another user count   *)
(* as long as it is enabled, and leave no trace after it.                  *)
(***************************************************************************)
Fits(ns) == ns < IntRange \div 2

FastestUserRules ==
    \A h \in Hardware : Users(h) # {} =>
        /\ (\A s \in Users(h) : Fits(period[s])) =>
              /\ \A s \in Users(h) :
                    period[s] # 0 => pollDelay[h] <= period[s] \/ pollDelay[h] <= minDelay[s]
              /\ \E s \in Users(h) : pollDelay[h] >= period[s]
        /\ h \in Fifo /\ (\A s \in Users(h) : Fits(timeout[s])) =>
              maxLatency[h] = Min({timeout[s] : s \in Users(h)})

(***************************************************************************)
(* A flush of a sensor that stays enabled is reported, however much data   *)
(* the sensors before it produce and however small the caller's array is   *)
(* (pollEvents gives up a descriptor it has read), once the service has    *)
(* nothing new to ask for.                                                 *)
(***************************************************************************)
FlushReported ==
    <>[][PollThread \/ \E h \in Hardware : Report(h)]_vars =>
        \A s \in Sensors : mHasPendingMetadata[s] > 0 ~> (mHasPendingMetadata[s] = 0 \/ ~ enable[s])

-----------------------------------------------------------------------------
(***************************************************************************)
(* What comments say and the code does not do.                             *)
(***************************************************************************)
(* "Should return -EINVAL if the sensor is not enabled" (SensorBase.cpp):  *)
(* the driver of a sensor that only a virtual one uses is on, and takes    *)
(* the flush, whose completion is then not reported.                       *)
FlushNeedsEnable ==
    [][\A s \in Sensors : mHasPendingMetadata'[s] > mHasPendingMetadata[s] => enable[s]]_vars

(* "To handle some special case that the polling delay is 0": a first      *)
(* listener whose delay is 0 is not skipped.                               *)
UnsetDelayIsSkipped ==
    \A h \in Hardware : (\E s \in Users(h) : delay_ns[s] # 0) => pollDelay[h] # 0

(* "*sample_ns* is the same as *ns* passed to setDelay" (batch): it comes  *)
(* through an int, and is not clamped to the sensor's minimum.             *)
BatchIsSetDelay ==
    \A s \in Sensors : delay_ns[s] # 0 => delay_ns[s] >= minDelay[s]

(* A period that does not fit into an int is cut, and then rules the       *)
(* others as the shortest of all; a cut latency is refused by the driver.  *)
LongTimesKept ==
    \A h \in Hardware : Users(h) # {} =>
        /\ \E s \in Users(h) : pollDelay[h] >= period[s]
        /\ h \in Fifo => maxLatency[h] = Min({timeout[s] : s \in Users(h)})
==============================================================================
