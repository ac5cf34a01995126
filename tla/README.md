# Verification of the Oppo A37 device tree

The repository is an Android device tree. Most of it is configuration, vendored
code and thin wrappers around vendor libraries. Four parts have a logic of their
own: the location stack under `gps/`, with four kinds of thread that exchange
messages, share lists, slots and timers and have to survive a modem that restarts
at any moment; the thermal service; the sensors HAL; and the adapter that serves
HAL3 camera requests from a HAL1 camera. This project models them in TLA+, checks
them with TLC on small instances and proves the most important properties with
TLAPS for all instances.

## 1. Inventory

### How the parts work

* The **framework** (Android's location provider) calls `loc.cpp`; each call
  becomes a message to the engine's one **MsgTask thread**, which runs the
  `proc()` of each message to its end. The modem's indications arrive on the
  thread of the QMI client, and become messages too.
* **Threads, queue, timers** (`gps/utils`) are what everything else is built on:
  a blocking queue (`msg_q.c` over `linked_list.c`), `LocThread`/`MsgTask`, and
  `LocTimer` with its heap, its `timerfd` and a poll thread.
* **AGPS machines** (`loc_eng_agps.cpp`): the engine keeps a state machine for
  each network interface (AGNSS, internet, WiFi) and one for emergency SUPL over
  a data call (`ds_nif`). Clients subscribe, the machine asks the connectivity
  framework for the interface, and tells the subscribers what became of it.
* **Network-initiated requests** (`loc_eng_ni.cpp`): the modem asks whether the
  phone may be located, the user answers, and a thread per request waits.
* **Modem API** (`loc_api_v02`): requests to the modem are asynchronous;
  `loc_api_sync_req.c` turns them into blocking calls with eight slots.
* **Session** (`loc_eng.cpp`, `LocEngAdapter.cpp`, `LocApiV02.cpp`): start and stop
  of positioning, reports, muting, aiding data, the engine's status. The engine,
  its adapter and the modem's API each remember whether there is a session.
* **Thermal** (`hidl/thermal`): a watcher thread waits for uevents of the kernel or
  for a timeout, reads the sensors, turns temperatures into severities and calls
  the callbacks that clients register on binder threads.
* **Sensors** (`sensors`): calls of the sensor service change drivers and settings
  under one lock; the poll thread scans the drivers and sleeps in `poll(2)` on the
  input devices and on a pipe that the calls write to.
* **Camera adapter** (`camera/hal3on1`): the framework's request thread and HAL1's
  notifier thread hand over pictures and frames in global slots without a lock, each
  spinning for the other.

### Components

| component | state | operations | what is hard | what makes it correct |
|---|---|---|---|---|
| AGPS machines | state, subscriber list, inactive flags | subscribe, unsubscribe, GRANTED/RELEASED/DENIED, drop all | answers without identifier cross with new requests; modem restart; list edited during a broadcast | nobody is cut off, overlooked or left waiting; the interface is released when unused |
| ds_nif | the same, a retry counter, a timer, a data call | the same, start/stop call, retry, fallback | the start can fail or be busy; timers outlive subscribers | no data call without an owner; retries end; a session is answered |
| message queue | list, `unblocked`, waiters | send, receive, flush, unblock | lost wakeups, spurious wakeups, unblock against a receiver about to sleep | a channel: once each, in order; nobody sleeps on messages |
| threads | delegate with reference count, runnable | start, run, stop, destroy | either side may finish first | one delete, after the last use; destroy ends |
| heap | size-balanced tree | push, pop, peek, remove | equal ranks, counts | implements a ranked set |
| timers | delegates, heap, descriptor, poll set | start, stop, expire, poll | client, MsgTask and poll thread cross | soonest timer armed; one outcome per start |
| synchronous requests | slots, flags | select, send, wait, free, indication | time-out against indication, retry, slots freed twice | no slot lost or shared; success means answered |
| NI requests | two sessions, a thread per request | request, respond, time-out, restart | unlocked identifiers and pointers | one answer per request, and its own |
| session | flags in three layers, queue, modem | start, stop, mode, delete, reports, engine state, down/up | modem down and up inside a session, late engine-off | the layers agree when the queue is empty; a cut-off session runs again |
| thermal | severities, callbacks, timeouts | check, notify, register, unregister, uevent | uevents lost or foreign, clients that die, unreadable sensors | hysteresis; everyone told; no check put off |
| sensors | listeners, delays, pending events, ring | activate, setDelay, batch, flush, pollEvents | shared drivers; wake-up against sleep; small arrays | power and rate follow the users; flushes are reported |
| camera adapter | slots for a picture and a frame, parameters | configure, request, flush, callbacks, open, close | unlocked hand-over, spinning, globals that outlive the device | outputs and settings are the request's own; a list of all ways to hang |
| adapters and contexts, daemon connection, XTRA, NMEA, radio, lights, power, vibrator, USB, init | see `PROJECT.json` | | | no logic of their own, or I/O only |

`PROJECT.json` lists every component with its sources and, for those that are not
modelled, the reason; it also lists the hazards, line by line.

## 2. Plan

1. `AgpsState`, `AgpsStateMachine`, with proofs. *Done.*
2. `DSStateMachine` over the same `AgpsState`, with proofs. *Done.*
3. `MsgQ` implementing `MsgChannel`, with proofs. *Done.*
4. `LocThread`, with proofs. *Done.*
5. `LocHeap` implementing `RankedSet`, and `LocTimer` over `RankedSet`, with proofs.
   *Done.*
6. `LocApiSyncReq`, with proofs. *Done.*
7. `LocEngNi`, with proofs. *Done.*
8. `LocEngSession`: start, stop, mute, status, aiding data, engine down and up, with
   proofs. *Done.*
9. `ThermalHelper`, with proofs. *Done.*
10. `NativeSensorManager`: shared hardware sensors, poll thread, with proofs. *Done.*
11. `Hal3on1`: the hand-over between request and notifier thread, with proofs. *Done.*

Every safety property of the runs, refinements and action properties included, is
now also a theorem; the liveness properties are TLC's alone. What could still be
added is more about the steps of the session and of the camera as action properties.

## 3. Modules and the code

Definitions carry the names of the functions they translate; `map` in
`PROJECT.json` gives the lines. Some definitions are preceded by a broken form
(`addSubscriberFirstOnly`, `onlyIfChanged`, ...). No specification
uses these: put in place of the right form they make a property fail, which shows
that the property depends on the code.

Three modules carry a prefix on the names that every specification has
(`SessionInit`, `ThreadSpec`, `DsTypeOK`, ...), because a module of proofs extends
them together with another: `LocEngProofs` extends `LocEngNi`, `LocEngSession` and
`DSStateMachine`, the parts of `loc_eng`; `MsgTaskProofs` extends `MsgQ` and
`LocThread`.

* **AgpsState** has the four states as operators on a machine: an event gives
  the machine afterwards, what each subscriber is told, and the request to the
  servicer. The list is a set: it never holds equal identifiers and the base class
  does not depend on its order. `notifySubscribers` goes on comparing the list
  with a subscriber it has just deleted: `stray` is what freed memory matches.
* **AgpsStateMachine** puts one machine between clients and framework. An action
  handles one message of the MsgTask queue to its end; `Request`, `Release`, the
  framework's answers, its taking back of an open interface and `ModemRestart` put
  messages there. The framework is external, and answers its calls in order.
* **DSStateMachine** composes `ds_nif` (with `sendRsrcRequest` of its own, which
  may find the service busy or absent), the data call as DSI reports it, the retry
  timers, and the AGNSS machine that takes over. The order of the list matters here
  (the first active subscriber is retried) and is kept; `Sublist` is what is left of
  it, in its order.
* **MsgQ** is `msg_q.c` under its mutex: a receiver is out, waiting or woken;
  `pthread_cond_signal` wakes some waiter; wakeups may be spurious. **MsgChannel**
  is what it promises: a first-in first-out channel that can be flushed and closed.
* **LocThread** is the client and the spawned thread around one
  `LocThreadDelegate`, with the runnable a `MsgTask` or the timers' poll task; an
  action makes at most one access to a field the other side writes.
* **LocHeap** is the tree with its `mSize` fields. The code swaps the data of nodes
  that stay linked, so the tree is what is stored at each place (1, and below `p` the
  places `2p` and `2p + 1`); each level of the recursion of `push`, `pop` and `remove`
  is an action, down the tree and back up, where the sizes are counted. **RankedSet**
  is what it promises. A call takes effect for it where its outcome is settled: a
  `push` at once, a `pop` when it begins, a `remove` when it has found the node.
  **LocTimer** uses `RankedSet` as its heap.
* **LocTimer**: clients' `start` and `stop` hold their lock and are one action;
  the handlers of the MsgTask thread and of the poll thread are cut at each system
  call, at the unlocked read of `mClient` and at the client's lock. The
  clients in `Wrapped` are one-shot objects behind `loc_timer_start`.
* **LocApiSyncReq**: callers of `loc_sync_send_req` and the thread that delivers
  indications; an action is a stretch under one lock or an access without one.
* **LocEngNi**: the MsgTask thread, the thread of the user's answers and a thread
  per request; every use of `rawRequest` and `reqID` without `tLock` is a step.
* **LocEngSession**: an action of the MsgTask handles one message of the queue to its
  end, down to the requests that `LocApiV02` makes; the framework's calls, the
  modem's indications and the error callback of its client only add messages. The
  modem is external: it runs one fix, turns its engine on for it, and may restart.
  Each request to it can fail by itself: the registration of the events, the mode, the
  start (also one that was carried out and whose answer is lost) and the stop.
  `failed` remembers a failed registration or stop, for the properties alone.
  A position report, whatever it holds, is one of the kinds that the engine treats
  differently.
* **ThermalHelper**: the watcher's check is a step per sensor, its notifications a
  step per temperature; registration waits for the callbacks' mutex. Time passes
  only while the watcher waits, in units of `kMinPollInterval` (1 stands for 2 s, 2
  for the 5 minutes of `kUeventPollTimeout`). Of the configuration `ThermalAssumption`
  asks what `ParseSensorInfo` does: thresholds in order, and any hysteresis. The uevents found at the end of a wait
  are one step; that a flag of `parseUevent` outlives its message is in `named`.
* **NativeSensorManager**: calls of the service are atomic under `mLock`; the poll
  thread is cut at each sensor it looks at and at `poll`. Asking a driver for pending
  events (without the lock) and reading it are one step: an answer that becomes
  stale in between only makes it read nothing. `batch` converts times to an int of
  `IntRange` values as `sensors.cpp` does, and `setLatency` refuses a negative one;
  `period` and `timeout` keep what the service asked for, for the properties alone.
* **Hal3on1**: the request thread in steps between its spinning loops, the notifier in
  its callbacks, the framework's `flush`, `configure_streams`, `open` and `close`.
  HAL1 is external. A picture is the request's own or an old one. A preview frame is
  copied and then counted, in two steps without a lock. Parameters are functions of
  keys: a request sets some of them in `current_params`, all of which are sent
  (`HAL1_CALL` at line 1269); the keys in `Late` (zoom, areas, JPEG, manual focus) are
  set after that and sent only if the parameters differ from `previous_params`. Keys a
  request leaves out, as in a scene mode, keep their values. `served` and `stale` are
  there for the properties alone.

## 4. Runs

| run | instance | shows |
|---|---|---|
| `internet` | a BIT and two ATL clients, 4 in flight | list, state, interface and clients' knowledge agree; every request is answered |
| `ds` | two sessions, 4 retries (the code's) | the data call follows the state, retries end, a session that is alone is answered unless it comes upon a machine that is releasing or waits for nothing |
| `msg_q` | 3 receivers, 2 messages, length 3 | no lost wakeup; a full list moves; implements the channel |
| `thread` | a MsgTask (joinable or detached) or the poll task, queue of 3 | delegate and runnable freed once, after their last user; destroying a MsgTask ends |
| `heap` | 7 nodes in 4 ranks | sorted and counted; implements the ranked set |
| `timers` | a LocTimer and a one-shot wrapper, 3 starts, time to 4 half-seconds | soonest timer armed, one outcome per start, no dangling or leaked delegate, every timer ends |
| `sync` | 2 callers, 1 slot, 2 indications, 1 retry | no buffer dangles, no slot leaks, every call returns |
| `session` | 3 calls, 1 restart of the modem, queue of 3, single or periodic | no fix without a session and a running fix is heard, unless a stop or a registration failed; a stop is obeyed, a session runs |
| `ni` | 2 requests | none lost, none answered twice, each leaves its session |
| `thermal` | 2 sensors of two types, 2 hot and 2 cold severities, unset thresholds, a hysteresis that reaches past a lower threshold, 3 temperatures, 1 client, 2 uevents per wait | hysteresis, everyone told, short timeout while throttling, every lasting temperature noticed |
| `sensors` | a light sensor and a virtual one on it, arrays and rings of 1, times that overflow | power follows the users, and rate what they asked for unless it overflows; every flush is reported |
| `camera` | previews, pictures, recordings and snapshots, 2 recording frames; flash, ISO and zoom in 3 settings, one of which leaves out the flash | outputs, frames and settings are the request's own but for the listed exceptions; a request returns but for the listed cases |

Why these bounds are enough: the interesting crossings need two parties and one
message that is late. Three clients on the internet machine give one that stays
while another leaves and a third arrives; four messages in flight hold a request,
its release and a second request with an answer still to come. The WiFi machine,
whose subscribers wait for the close, is covered by the proofs for every `Kind` and
`Nif`; `MCAgps` keeps `WifiKinds` to run it. Three receivers give a sleeper, a woken
one and a newcomer. Seven nodes give every shape of tree up to depth three with
ties. Two half-seconds to the second distinguish timers that `ranks()` does not.
More callers than slots make the array fill, and a slot freed twice has another
owner in between. Two NI requests are one per session, or one after the other with
the first one's thread left over. Three calls are a start, a stop and a start around
a restart. Two sensors are one that a uevent names and one that it does not. A
hardware sensor with a virtual one on it is the smallest that is shared; arrays of
one event make every scan end early. Two recording frames are one held by the
request and one in the callback.

Deadlock is checked except where the models stop by design: sessions are used up
(`ds`), the thread has ended (`thread`), starts and time are used up (`timers`),
calls and restarts are used up (`session`).

### Where the code falls short of its comments

The modules state, in a section of their own at the end, what a comment says or one
would expect and the code does not do. TLC violates each of them when it is the
property of the run named here instead of the run's own; they are kept as
definitions because a repair of the code should make them hold.

| property (run) | the comment or expectation, and what happens |
|---|---|
| `TracksNif` (`internet`) | "Each state machine tracks resource state of a particular NIF" (`loc_eng_agps.h:196`). The last subscriber leaves while the request is unanswered and the Pending state goes to Released at once; the answers to the first request are then taken for those to the second, and the interface stays open with the machine Released. |
| `WaitsForACall` (`ds`) | "if the data call setup fails for DS State Machine, we want to retry in released state" (`loc_eng_agps.cpp:276`). The Releasing state ignores what `sendRsrcRequest` returns (line 563) and waits in Pending for a call that nobody starts. A session that comes upon such a machine, or upon one in Releasing, is the exception of `Answered`. |
| `UnsubscribedIsGone` (`ds`) | "the list should really be empty, nothing to remove" (`loc_eng_agps.cpp:288`). After a busy start the list holds the subscriber that waits for the retry; one that unsubscribes then is told so and stays. |
| `RunnableNotLeaked` (`thread`) | "The obj will be deleted by LocThread if start() returns true" (`LocThread.h:75`). A thread that is stopped before it first reads `mRunnable` skips the delete. |
| `DeletedOnceAlways` (`thread`) | "Else it is client's responsibility to delete the object" (`LocThread.h:77`). A thread whose `run()` fails at once has deleted the runnable when `create()` reports that it did not start. |
| `TaskOutlivesDestroy` (`thread`) | "this obj will be deleted once thread is deleted" (`MsgTask.h:50`). `destroy()` reads `mThread` after it has unblocked the thread that deletes the task. |
| `PollDestroyEnds` (`thread`) | "when fs is closed, epoll_wait() should fail run() should return false and the spawned thread should exit" (`LocTimer.cpp:410`). The descriptor is closed by the destructor that the waiting thread itself would call. |
| `NotEarly` (`timers`) | "continuously pop the heap until the top node's timeout is in the future" (`LocTimer.cpp:352`). The first node is popped without a look at its time; if its timer was stopped meanwhile, the next one expires early. |
| `ClientIsAlive` (`timers`) | "expire() won't call the callback on the dead handle any more" (`LocTimer.cpp:486`). `expire()` uses a copy of `mClient` that it read without the lock. |
| `EmptyIsDisarmed` (`timers`) | "if tree is empty now, we remove poll and disarm timer" (`LocTimer.cpp:288`). Removing the last timer compares NULL with NULL and does nothing. |
| `SuccessWasSent` (`sync`) | "Select ID (>=0) : successful, -ENOMEM : out of buffer" (`loc_api_sync_req.c:339`). A call that finds no slot sends nothing and returns the status it was initialised with, success. |
| `SuccessIsAnswered` (`sync`) | "Wakes up blocked API calls to check if the needed callback has arrived" (`loc_api_sync_req.c:145`). The call does not check, and a spurious wakeup counts as the arrival. |
| `RestartIsSilent` (`ni`) | "in which case, we need the thread to exit without calling sending data" (`loc_eng_ni.cpp:239`). The restart frees `rawRequest` without the lock; the thread may have put it into its message. |
| `CanBeAnswered` (`ni`) | "notif_id %d not an active session" (`loc_eng_ni.cpp:410`). A thread clears `reqID` after it has given the session up, and the next request may have set it. |
| `OneCallPerSlot` (`sync`) | "Synchronous req call (thread safe)" (`loc_api_sync_req.c:478`). The wait frees the slot (line 468) and the call frees it again when the wait failed (lines 547-550): a call that got it in between loses its selection, and a third gets its slot. |
| `OwnAnswer` (`ni`) | "ID to check against response" (`loc_eng_ni.h`). A restart sets `respRecvd` for the thread of a request it has freed; the `resp` left over from an earlier answer is sent for the next one (`loc_eng_ni.cpp:235`). |
| `StopAlwaysObeyed` (`session`) | a stop ends the session. One handled while the restart's message is queued is undone by it (`loc_eng.cpp:2865`). |
| `ModeKept` (`session`) | the fix runs in the mode that was asked for. Leaving a session makes the adapter's mode invalid (`LocEngAdapter::setInSession`), also when the modem's restart is about to begin it again, and the next start runs standalone. |
| `NoOrphanRestart` (`session`) | a periodic fix belongs to a session. A session started between the reopening of the client and the engine-up message is left and started again; if this second start is refused, the first fix goes on without a session. |
| `NoOrphanShot` (`session`) | the same for single shots: "TBD: store session ID, check for session id in pos reports" (`LocApiV02.cpp:491`). A change of mode starts a new fix while the report of the old one is queued, and that report ends the session. |
| `StopAlwaysStops` (`session`) | a stop ends the fix. A STOP request that fails is only logged (`LocApiV02.cpp:553`), and the engine leaves the session (`loc_eng.cpp:1979`): the fix goes on. |
| `AlwaysHeard` (`session`) | a running fix is heard. The result of registering for its events is ignored (`LocApiV02.cpp:409`), and a stop that fails has deregistered them. |
| `QuietWithoutFix`, `StatusHonest`, `MuteEnds`, `Reopened` (`session`) | with nothing left to handle, the events are deregistered, the status is not "on", muting has ended and the client is open. Each depends on an indication of the modem that a restart may swallow, or on the open that succeeded before the restart was noticed. |
| `FlushNeedsEnable` (`sensors`) | "Should return -EINVAL if the sensor is not enabled" (`SensorBase.cpp:215`). The driver of a sensor that only a virtual one uses is on and takes the flush. |
| `UnsetDelayIsSkipped` (`sensors`) | "To handle some special case that the polling delay is 0" (`syncDelay`). A first listener whose delay is 0 is not skipped. |
| `BatchIsSetDelay` (`sensors`) | "*sample_ns* is the same as *ns* passed to setDelay" (`NativeSensorManager.cpp`, `batch`). It comes through an `int` (`sensors.cpp:219`) and is not clamped to the sensor's minimum. |
| `LongTimesKept` (`sensors`) | a sensor is as fast as its most demanding user asks. Periods and latencies that do not fit an `int` are cut (`sensors.cpp:219`): a long period may become the shortest of all, and a negative latency is refused by the driver (`SensorBase.cpp:176`), which keeps the old one. |
| `FastWhileUnreadable` (`thermal`) | the short timeout is kept while a sensor throttles. One that cannot be read does not count (`thermal-helper.cpp:579`). |
| `NoticedDespiteUevents` (`thermal`) | a lasting temperature is noticed. Uevents of one sensor begin checks of that sensor only, and each of them restarts the time to the check of all. |
| `RisesOnlyAtThreshold` (`thermal`) | a sensor that cools does not throttle more. `ParseSensorInfo` accepts a hysteresis that reaches past the threshold of a lower severity (`config_parser.cpp:146-204`); when the sensor cools below that threshold, the severity it held is given up for the higher one. The tree's own configuration has no such hysteresis. |
| `NeverCrossed` (`camera`) | a request returns. The notifier spins for the request to take the picture while the request spins for a frame that only the notifier can bring. |
| `AlwaysAPicture` (`camera`) | a still capture has a picture under way. A flush, or a HAL1 that refuses, takes it away. |
| `AlwaysFilled` (`camera`) | a preview is copied from a buffer that holds a frame. A frame copied into the old buffer before `configure_streams` allocates the new one (line 616), and counted after it has cleared `preview_really_started` (line 645), makes the next request copy a buffer that nothing has been written to. |
| `SettingsApplied` (`camera`) | a request's settings are in effect. Every request sends the parameters set up to line 1269; those set later are sent only if they differ from the last request's, in a global that outlives the camera. The first request to a reopened camera whose parameters are those of the last one before goes without its zoom, areas or JPEG settings, which the second one's sending at line 1269 brings. |
| `NoCarryOver` (`camera`) | a request is served with its own settings alone. `current_params` accumulates: in a scene mode (lines 988-1137) flash, exposure compensation and white balance of an earlier request stay in force. |
| `NotReadAfterStop` (`camera`) | a recording frame is not read after the recording was stopped. A flush stops it while the request copies. |

Two more of the session are visible in the actions without a property: a mode that
the modem rejects is reported as success (`LocApiV02.cpp:445`), and a second request
to delete aiding data replaces the mask of one that waits (`loc_eng.cpp:1300`).

### Fairness

Weak fairness of the MsgTask thread (a thread that loops over a blocking queue,
which `MsgQ` shows not to lose wakeups), of the framework's and DSI's answers to
calls made to them, of threads in the middle of a function, of a wait that has a
deadline, and of the clock. In `session`, of the error callback once the modem has
restarted, and of the modem's coming up again. In `thermal`, of the watcher thread,
and strong fairness of `tick`: time passes while it waits, however often uevents end
the wait. In `sensors`, of the poll thread, which the sensor service calls for ever.
In `camera`, of the request thread, of preview frames and of a callback that has begun,
and strong fairness of pictures and recording frames that are under way: HAL1's
notifier works off a queue, so preview frames do not keep them back for ever. Nothing obliges a client to ask, release, answer
or stop, the framework to grant rather than deny, the modem to send its indication,
a capture to succeed, a uevent to arrive, or a wakeup to be spurious.

## 5. Proofs

* **AgpsStateMachineProofs**: for every set of clients, every kind of interface and
  every bound, `IndInv` is an invariant. What the runs check is not inductive: that
  a client told GRANTED has an open interface depends on what is in the queue. The
  strengthening says that a GRANTED in the queue is backed by an open interface or
  followed by a RELEASED (`GrantsAreBacked`), that users are active subscribers of
  an Acquired machine (`UsersAreListed`), that only WiFi subscribers are ever
  inactive, that an UNSUBSCRIBE in the queue comes from a client that wants nothing
  (`ReleasesAreMeant`), and that between a restart and its message the modem's
  clients are idle (`RestartForgets`). Each handler's outcome is stated as a lemma
  about `AgpsState` first; the step lemmas then follow message by message.
  `TypeCorrect`, `UsersHold`, `AnswerComes`, `NoneOverlooked` follow, and
  `ReleaseWhenUnused` is the action property. Assumptions: `KindAssumption`,
  `NifAssumption`, `BoundAssumption`.
* **MsgTaskProofs**, the queue: `TypeCorrect`; `WakeupsKept` by counting woken
  receivers against messages, with the library's theorems on cardinality;
  `EmptyHanded`; and `Refinement`, that the queue implements `MsgChannel` under the
  mapping that reads the list from its tail. Assumption: the receivers are finite.
* **MsgTaskProofs**, the thread: `LastUserDeletes` (the delegate is freed once, and not
  before its last user) and `OneOfThemDeletes` (so is the runnable), for a queue of
  any length. `ThreadInv` counts who still holds the delegate (`Counted`,
  `DeletionsCounted`), ties the task to its thread (`TaskHasThread`, `NoThreadIsNone`)
  and says that the queue stays open and the thread runs until somebody destroys it
  (`OpenUntilDestroyed`, `RunsUntilDestroyed`). Without the counts a state with two
  last users would satisfy the property. Assumption: `ThreadAssumption`.
* **LocEngProofs**, network-initiated requests: `NothingLost` and `OneAnswer`, for any
  number of requests. `rawRequest` is tested, copied, freed and cleared without the
  lock, so `NiInv` has to say of each step in between what may have happened: requests
  are numbered in order (`Numbered`), at most one thread takes a session's request
  (`OneTakes`), which the session still holds unless a restart is about to signal
  (`SessionIsHeld`), what is about to be cleared is in a message or freed
  (`ClearsWhatIsSafe`), and a message is made once, of the session's own request
  (`NoMessageYet`, `OwnRequest`). Assumption: `NiAssumption`.
* **LocEngProofs**, the session: `HeardWhileRunning`, `FixHasSession` and
  `StopsInTheEnd`, for any number of calls and restarts. The properties speak of an
  empty queue, so `SessionInv` follows the messages: a modem that is away, or that has
  not been opened again, runs no fix (`AwayIsIdle`), the client is opened again once
  per restart and is stale until then (`ReopenedOnce`), a fix has a session in the API
  (`FixInSession`), a periodic fix that the engine has no session for was refused or
  will be taken over by the restart in the queue (`TakenOver`), and after the last stop
  there is no start, nor a restart that the stop did not see (`StopComes`). Each part
  has the failure of a registration or of a stop as its exception, as the properties
  have. No assumption on the constants is needed.
* **LocEngProofs**, the emergency SUPL machine: `CallIsOwned`, that the data call
  follows the state, for any sessions and any number of retries, and `DsTypeCorrect`,
  whose content is that the retry counter stays within its bound and that a retry or
  a fallback is always for a client. `DsInv` adds to the property that a call is being
  stopped only in Releasing (`StopsInReleasing`), that a CLOSED in the queue is the
  last report of a call that is over (`ClosedIsLast`), and that an OPENED belongs to a
  call that is still there or is followed by CLOSED (`OpenedIsBacked`): a late report
  would otherwise be taken for one of the next call. `SublistFacts` says what the
  recursive `Sublist` returns; it is proved from the least position where it would
  fail (`LeastMember`, from the library's theorem on well-founded sets). Assumption:
  `RetriesAssumption`.
* **LocTimerProofs**, the timers: `KernelIsSet` (the soonest timer is armed), `EndsOnce` (one outcome
  per start) and `DelegatesFreed`, for any clients, starts and times. `TimerInv` says
  that a client's delegate is its own and not on its way to being deleted (`Running`),
  that the message that deletes a delegate is the last one about it (`RemovedLast`),
  that no delegate is made twice (`NumberedByStarts`), and that unless an expiry is on
  its way the kernel is set for the top of the heap or one system call of the MsgTask is
  missing (`HeapHasTop`, `AtWork`, `Watched`). That the armed second is no later than
  that of any timer in the heap takes `TopIsSoonest` besides, which the promise of
  `RankedSet` keeps (`SoonestStep`). Assumptions: `TimerAssumption`, `NullAssumption`.
* **LocTimerProofs**, the heap: for any nodes and any ranking with ties, `TreeChecks`
  (between calls the tree is sorted and counted), `HeapIsRankedSet` (it implements
  `RankedSet`, which is what the timers rest on) and `TreeSizeIsCount` (`getTreeSize`
  is the number of nodes held). `HeapInv` has to say what is true half-way through a
  call: nothing is stored twice (`StoredOnce`); no node outranks its parent but for
  the data on its way down, whose neighbours are sorted across it (`Sorted`); every
  `mSize` is right but at the level that is still to count (`Sized`); and the node
  looked for is in no subtree that the search has returned from and nowhere above it
  (`Searched`). `Pruned` is why the search may skip a subtree whose root the node
  outranks, `RootIsBest` why the root is the top: what holds at the root and is passed
  on to children holds everywhere, because there is no least place where it fails
  (`LeastPlace`, `TreeInduction`). Assumption:
  `RankAssumption`, whose order `LocTimerDelegate::ranks` is shown to meet
  (`DelegatesAreRanked`).
* **NativeSensorManagerProofs**: `FastestRules`, that a driver's delay and latency are
  those its most demanding user asked for, if the times of its users fit an int, and `PowerFollows`, the action property that a driver
  with a user is on and goes off with its last one, for any hardware and virtual sensors that
  `SensorAssumption` allows. `SensorInv` says that the listeners of a hardware sensor
  are its users (`ListenersAreUsers`), that its driver has been given what `syncDelay` and
  `syncLatency` would compute now (`DelayInSync`, `LatencyInSync`) and is on
  (`Powered`), that what is kept of a time that fits is the time itself (`AsAsked`), and that the poll thread never passes the caller's array (`Scanning`).
* **Hal3on1Proofs**: `OwnOutput`, `ReleasedOnce` and `SettingsAreOwn`, for any number of
  recording frames and settings. The slots between the request and the notifier thread
  have no lock; `CameraInv` ties them to the positions of the two threads: there is at
  most one picture, HAL1's or in the slot, and the request that it is for has yet to
  come to its output (`OnePicture`); a recording frame in the slot keeps the notifier in
  its callback until the slot is emptied, which is after it was given back
  (`FrameInSlot`); a preview frame counts only if it is in the present buffer or crossed
  the configuration (`CountedIsFilled`); and the settings of the request are in
  `current_params` until a recording replaces them, while late keys are there as at the
  last request, so that the comparison with `previous_params` can be trusted from the
  second request on (`LastParams`). Assumption: `CameraAssumption`.
* **LocApiSyncReqProofs**: for any callers, slots and kinds of indication,
  `BuffersAlive` and `SlotsComeBack`. A slot in use may meanwhile belong to another
  call than the one that selected it, so neither is inductive alone: `SyncInv` adds
  that a call that waits or frees has a slot of the array (`CallersHaveSlots`) and
  that the buffer of a slot is that of a call still at work on this very slot
  (`BufferIsOwned`). The lemmas say what `loc_free_slot` and `loc_sync_select_ind`
  leave of a slot. Assumption: `SyncAssumption`.
* **ThermalHelperProofs**: for any sensors, clients, thresholds (set or not) and
  timeouts that `ThermalAssumption` allows. `Hot` and `Cold` are the arithmetic of
  `getSeverityFromThresholds`: a severity is left only beyond its hysteresis, and one
  that the hysteresis makes exceed the previous one reaches past the previous one's
  threshold; `HysteresisHolds` follows, for any thresholds in order and any hysteresis. `ThermalInv` says further that a sensor which the check has passed and
  which throttles has been noticed (`Passed`), that whoever does not know a severity
  will be told it by an entry of the list (`ToBeTold`), which has one entry per
  sensor (`Entries`), and that elapsed and remaining time stay below twice the
  timeout (`InTime`); `Told`, `Fast` and `InTimeAlways` follow.

Each inductive invariant was checked by TLC on the instance of its run before it was
proved. The bounds on messages, calls, starts and requests are parameters of the
theorems, so nothing proved depends on their values.

Only model-checked: all liveness properties (`EveryRequestAnswered`, `RetriesEnd`,
`Answered`, `FullListMoves`, `DestroyEnds`, `EveryTimerEnds`, `EveryCallReturns`,
`EveryRequestEnds`, `SessionRuns`, `Noticed`, `FlushReported`, `RequestReturns`),
which the prover does not reach.

## 6. Not modelled

By weight of lines most of the repository is not a program of this tree: protobuf26
and wireguard-tools are vendored, `location_service_v02.*` (22,000 lines) is
generated tables, `LocApiV02.cpp` and the radio wrapper translate field by field
between two versions of a message, and the rest is configuration. What is left with
state of its own and more than one thread is what the modules cover; a larger share
of the lines could only be reached by restating tables and translations.

In the modelled parts: memory orders weaker than interleaving; the content of
positions, sentences, APNs and messages; failures of memory allocation; the WDS
profile search inside `ds_client_open_call` (one outcome); the creation of the static
timer containers; what a BIT client does when a restart drops it without a word;
`loc_eng_agps`'s identifiers that coincide between BIT and ATL subscribers; a request
that the modem makes between the reopening of its client and the engine-up message,
which that message would drop without a word (`AgpsStateMachine`), and the release of an
interface whose subscribers were dropped in Acquired.

* Session: the injection of time, position and XTRA data, the ULP and geofence
  entry points, and what NMEA is made of a report.
* Thermal: the queries of temperatures, thresholds, cooling devices and CPU usage,
  which change nothing; that `boot_clock` counts suspended time; a uevent whose name
  is empty; callbacks that fire before the constructor has ended (`Thermal.cpp:60`).
* Sensors: calibration and the content of events; an `enable()` of a driver that
  fails, which the code ignores; the ring of a virtual sensor that is not cleared when
  it is disabled; the spin with `mLock` held in `FETCH_FULL_EVENT_BEFORE_RETURN`.
* Camera: the torch and a second device (`hal3on1_dev` is left dangling by `close`),
  metadata, torn copies of preview frames, what HAL1 makes of parameters it is given, a still capture without a BLOB output
  (excluded by `CameraAssumption`).

The remaining components are listed in `PROJECT.json` as `not_modelled`, with the
reason.
