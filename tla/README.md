# Verification of the cedric device tree

TLA+ models, TLC runs and TLAPS proofs for the code of this repository, the
device tree of the Moto G5 (cedric). The programs in it are small and run for
years without anyone looking: sensor HALs that share their state between two
threads and a hub that outlives them, daemons that keep what they have learnt in
a file, a firmware loader that the phone's battery may interrupt, an app whose
listeners follow broadcasts that come late, and a key handler that is called from
one thread and runs its timeouts on another. The models are about those parts.

Paths below are relative to the repository (`src/`); `stml0xx_hal/` stands for
`hardware-moto-sensors/stml0xx_hal/`, `device/` for
`LineageActions/src/org/lineageos/settings/device/`.

## 1. Inventory

### Sensor HAL of this board (`stml0xx_hal/`)

`BoardConfig.mk` (224-236) builds the HAL for the STM L0 hub with two rear
proximity sensors, chop-chop, lift, pedometer, linear acceleration and gravity.

| part | state | operations | talks to |
|---|---|---|---|
| `HubSensors` (setEnable, setDelay, update*Rate) | `mEnabled`, `mWakeEnabled`, `mEnabledHandles`, `mFusionSensors[]`, `mGyroPrevDelay` and its like | constructor, setEnable, setDelay, the one-shot part of readEvents | the hub driver by ioctl: it may fail, and it keeps masks and periods when the HAL process dies |
| `HubSensors::readEvents` | statics `step_offset`, `last_stepcount`; `mFusionData`; `mGeomagRVReady` | one case for each report type | the driver's queue; the framework's buffer |
| fusion (`GeoMagRotationVector`, `GameRotationVector`, `RotationVector`) | statics `mag_counts`, `initialized` | processFusion, reset | called by readEvents and, with reset, by setEnable |
| `SensorsPollContext`, `SensorHal` | `mPollFds`, the drivers | poll, activate, batch | the framework: poll on a thread of its own, activate and batch on binder threads |
| `RearProxSensor` (two) | its `InputEventCircularReader` | readEvents | an input device |
| `InputEventReader` | `mBuffer`, `mHead`, `mCurr`, `mFreeSpace` | fill, readEvent, next | used by RearProxSensor |

Hard: `activate` and `readEvents` change the same fields on two threads with no
lock; driver calls fail one at a time; the HAL restarts under a running hub; the
number of events of a report depends on what is on.

Correct means: the driver runs a stream exactly while someone uses it and as fast
as they asked; a fired one-shot sensor stays off; no event is written past the
framework's buffer; the step count neither goes back nor invents steps; the
filters become ready again; the reader is a queue.

### LineageActions (`device/`)

| part | state | operations | talks to |
|---|---|---|---|
| `LineageActionsService`, `doze/*` | each listener's `mEnabled`; `mSawNear`, `mLastStowed`, `isStowedTime`; `mLastDoze`; the wake lock | screenTurnedOn, screenTurnedOff, updateState, the sensors' callbacks | screen broadcasts, preferences, SensorManager |
| `KeyHandler` | `fpTapCounts`, `fpTapPending`, `fpGesturePending`, posted runnables, messages | handleKeyEvent, handleMessage, doubleTapRunnable, fpGestureRunnable | the window manager's thread, the main looper, sysfs nodes |
| `KeyHandler` and `TorchAction` as torch clients | `mTorchEnabled`, `mRearCameraId` of each | toggleFlashlight, action, MyTorchCallback | the camera service's callbacks |
| silencers, `FlipToMute`, camera gesture | `mIsRinging`, `mCoveredRinging`, `mFilter` | call state and sensor callbacks | telephony, notification manager |
| preferences | the nodes of `/sys/homebutton` | one write for each preference | KeyHandler reads the nodes |

Hard: the listeners are driven by late broadcasts and by a direct question to the
power manager at the same time; flags are cleared and runnables removed in two
statements; the torch has two clients and other apps.

### Other sensor HALs (`hardware-moto-sensors/`)

The repository holds the HALs of the boards it shares code with; each is a
program of its own.

| part | state | operations | talks to |
|---|---|---|---|
| `motosh_hal/HubSensors` | `mEnabled`, `mWakeEnabled`, `mEnabledHandles`, requested and set rates, `pendingEvents`, the error counters | setEnable, batch, flush, readEvents | the larger hub's driver; a calibration file |
| `motosh_hal/sensorhub.c` | `active_algos`, `active_parts` | enable, algo_req, algo_query, poll | the hub's algorithms |
| `rearProx/` (`NativeSensorManager`, `sensors.cpp`) | per sensor: enable, listener, delay, latency; pending flags; `mPollFds`; a wake pipe | activate, setDelay, batch, flush, pollEvents | input devices, sysfs, two threads of the framework with one lock |
| `tof_hal/RearProxSensor` | `mEnabled`, `mDetectMode`, weights, `mFlushEnabled`, `mFilePath` | setEnable, batch, flush, readEvents | a driver that only reports past the configured threshold; two threads, no lock |
| `vl53l0_hal/RearProxSensor` | `mEnabled`, `mPendingEvents`, its reader | the same | a driver that decides near and far itself |

Hard: bits and rates that several handles share; a second request that fails; a
thread that looks without the lock and acts with it; a configuration that is
turned round in three driver calls while the other thread enables the sensor;
events that stay behind in a reader.

Correct means: masks and rates follow the handles that are on; every accepted
setting reaches the device; every flush is noticed; what the user was told and
what the driver watches for fit together; no event is lost between the device and
the framework's buffer, and none waits while poll sleeps.

### Services

| part | state | operations | talks to |
|---|---|---|---|
| compass daemon (`ak09912_akmd_6D_32b/`) | `AKSCPRMS` shared by two threads, `g_stopRequest`, `g_mainQuit`; the setting file | main's loop, MeasureSNGLoop, load and save, the console's modes | a driver whose requests fail, a binary library, init (kill and restart) |
| firmware loader (`motosh_bin/`) | the open file, tries; `hw.motosh.booted` | version check, erase, packets, verification | the hub's boot code and flash; an app that installs firmware; power losses |
| power HAL (`power/`) | `handles[].ref_count`, the list of active hints, `display_hint_sent` | power_hint, set_interactive | the performance daemon, which may refuse or be missing |
| battery health (`health/`) | `sw_bins_`, `hw_bins_`, `sw_cap_`, `hw_cap_`, `soc_inc` | Restore, Backup | the fuel gauge and a file, written one after the other |

Hard: a process that dies between two writes or in the middle of one; retries of
what was half done; counts of what was refused; an estimate that is split over
fields updated at different times.

Correct means: a session never resumes from half of an estimate; main does not
wait for ever; a hub announced as booted runs the firmware of the file; the
daemon's locks are those somebody wants; a count or capacity that was known stays
known in one of two places.

### Thin parts

Light, vibrator, touch, init and shims; `capsensor/` and `CapSense.cpp`, which are
not built for this board.

`PROJECT.json` lists every part with its status, and every hazard at its line.

## 2. Plan

Done: the sensor HAL of this board with its poll path, step counter, filters and
reader; ambient display gestures, fingerprint gestures and torch; the HALs of
`rearProx/`, `tof_hal/`, `vl53l0_hal/` and `motosh_hal/`; the compass daemon, the
firmware loader, the power HAL and the battery backup.

Every invariant and every action property that a passing run checks is also a
theorem. Left, in this order:

1. `CallSilencers`: ProximitySilencer, LiftToSilence, FlipToMute and the camera
   gesture over several calls (a stale `mCoveredRinging`, a stale `mFilter`).
2. That `WakeMask` with the calls in turn implements `HubSensors`' setEnable.
3. The reset of the six-axis filter statement by statement against processFusion,
   which the code runs on two threads without a lock.

Parts that share no state are checked in one composed run, where each behaviour
is one of one part: their product would add states and no behaviour.

## 3. Modules

| module | what it models | how |
|---|---|---|
| `HubSensors` | masks, handles and periods; every call of `activate` and `batch` | one action for each outcome of the entry point: accepted (with the driver calls failing or not), refused. The driver's copy of masks and periods is state of its own, so that belief and fact may differ. `Construct` is a restart: only the driver's part stays |
| `MCHubSensors` | three scenes: the handles that share streams, those that share the wake mask, and the sensors that use the filters | each behaviour is one of one scene; the filters run in the last one |
| `WakeMask` | the wake half of setEnable, statement by statement, run by the framework's thread and by readEvents; the larger hub's HAL has the same statements | `Enter`, `Ioctl`, `Store`, `ReadHandles`, `Return` for each thread |
| `FusionAlgos` | extends `HubSensors` with the filters: countdown, initialized and ready flags; one action for each report type | arithmetic is left out, "the sample changed" is an input; a call's reset is one step, although the code has no lock between it and the filter |
| `StepCounter` | the DT_STEP_COUNTER case, the hub's register and its resets | additions wrap at `Modulus`, as uint32_t does |
| `SensorsPoll` | poll, the drivers in turn, how many events a report becomes | events are counted, not built; a read() that fails leaves the report before in the buffer, which is handled again (`ReadFails`) |
| `InputEventReader`, `EventQueue` | the circular reader, and the bounded queue it implements | `ImplementsQueue` is the refinement, with the unread events as the queue; `delivered` (a history variable of both) is what the driver gave to the last `read()` |
| `DozeGestures` | the service, its broadcast receiver, preference listener, three listeners and the pulse | ages in ticks instead of times; the first report of an on-change sensor comes before a tick is over |
| `Torch` | two clients with their own flag, callbacks in order, other apps, the camera | |
| `KeyHandler` | extends `Torch`: the gestures | the window manager's call is one step, the runnables of the main looper are one step for each shared access, so that the call falls between them; the sysfs nodes are inputs of each step |
| `MCLineageActions` | `DozeGestures` and `KeyHandler`, which run in different processes | each behaviour is one of one half |
| `MotoshHub` | the masks, rates and glances of the larger hub's HAL, and poll around readEvents | a request that is refused may have taken effect, and the masks may not be readable when the HAL starts; a report is its type, an event its handle. Calls are taken one at a time: the code does not see to that, and `WakeMask` shows what happens when they overlap |
| `SensorHubAlgos` | the mask of algorithms and the parts asked for | two requests, each of which fails or not; enable is called for movement, the type it is for |
| `NativeSensors`, `MCNativeSensors` | the directory scan, the calls, the drivers and the poll thread | mLock makes a call and a read atomic; looking for pending events and poll() are steps without it |
| `TofProx` | the sensor that turns its threshold round | one step for each access to the driver, so that setEnable falls between the steps of handleSARprocess; distances are near, mid and far |
| `RangeProx` | the sensor whose driver decides | input events in packets, as the driver and the answer to flush write them; hasPendingEvents as the base class has it |
| `MCSensorParts` | `TofProx`, `RangeProx`, `InputEventReader` and `StepCounter` | each behaviour is one of one part |
| `Akmd` | main, the measuring thread and the setting file | a vector is one number, an offset is relative to a base; the library's answers are choices, also that it moves the base before the code gives up on a measurement; offsets and the counter of measurements are int16s; `Kill` at any step |
| `FirmwareLoader` | the boot mode of the loader, the flash and the boot code | bytes of small files; the CRC is the contents it is computed over; a write() may take a part of a packet; `PowerLoss` at any step |
| `PowerHints` | counted hints, the hint list, the display hint | the register that is read for the missing argument is a choice; the locks whose handles set_interactive throws away are kept apart (`discarded`) |
| `BatteryHealth` | both backups, cell by cell | one step for each read and write; a write empties the file first |
| `MCServices` | the last four with `MotoshHub` and `SensorHubAlgos` | each behaviour is one of one part; of the larger hub, compass, gyroscope and one-shot sensors are parts of their own |

`PROJECT.json` maps each definition to its lines. Definitions with a suffix
(`fill_noCopy`, `mayDoze_forgets`) are slips: plausible mistakes in the
definition before the suffix, which each property is shown to catch.

External parts, modelled from how the code uses them: the hub (steps, resets,
report queue, boot code), the drivers and input devices, the compass library, the
performance daemon, the fuel gauge, the power manager, the system settings, the
clock, init and power losses, the camera service, the window manager (it drops an exception that
handleKeyEvent throws).

## 4. Runs

| run | checks | shows |
|---|---|---|
| `HubSensors` | `TypeOK`, `UsersAreServed`, `FusionRateHeld`, `StreamsFollowUsers`, `WakeMaskAgrees`, `FTypeOK`, `GeoMagWarmUp`, `RotationVectorSettles` | for every order of calls, failing writes and restarts: streams run exactly while used, at the shortest period asked for, at the fusion rate while a rotation vector runs; the wake mask follows the handles: two handles on one bit, one-shots. The six-axis filter is ready only after the changed samples it asks for, and once calls stop with the rotation vector on, the filters settle although every call resets them |
| `WakeMaskRace` | `OneShotStaysOff`, violated | activate of one sensor, overlapping the report of a one-shot, writes back the mask it read before: the one-shot is on again. "Disable, because this is a one shot sensor" (`HubSensors.cpp:1025`) |
| `SensorsPollFits` | `TypeOK`, `EventsFit`, `BacklogDrains` | with at most four users of the gyroscope the four slots kept free are enough, and the hub's queue is read on although readEvents stops early |
| `SensorsPollOverflow` | `EventsFit`, violated | with five users one DT_GYRO report writes a fifth event. "DT_GYRO - upto 4 events" (`HubSensors.cpp:606`) |
| `SensorParts` | `PartsTypeOK`, `ToldIsWatched`, `FarTold`, `RangeNothingLost`, `ImplementsQueue`, `NeverOvercounts`, `ContiguousSteps` | the time-of-flight sensor watches for the change its user has not been told of, and ends up telling FAR; the ranging HAL loses no distance and no answer to a flush, wherever a full buffer stops it; the reader is a bounded queue; the step count loses nothing but a reset after which the hub has counted past the last report |
| `RangePending` | `PendingReported`, violated | events for which the framework's buffer had no room stay in the reader, are not reported as pending, and poll sleeps on them. "If count is not sufficiently large to hold all the pending events, subsequent calls to hasPendingEvents() should return true." (`vl53l0_hal/SensorBase.h:50`) |
| `NativeSensors` | `NTypeOK`, `ReadNeverSpins`, `SettingsApplied`, `FlushTaken` | no read is repeated with the lock held and nothing to give; of values that fit an int, the settings of the last accepted call reach the device in whatever order they come; a pending flush wakes the poll thread |
| `NativeSensorsFlush` | `FlushesAnswered`, violated | a sensor disabled between flush and read drops the answer. "Note the number of FLUSH_COMPLETE events should be the same as the number of *flush* called." (`rearProx/SensorBase.cpp:191`) |
| `LineageActions` | `ActionsTypeOK`, `SettledWithScreen`, `GestureBegunInTheDark`, `PulsesApart`, `ActionsEarned`, `TorchKnown` | listeners and wake lock follow the screen whatever comes late; the delay that screenTurnedOff starts keeps a stale `mSawNear` from making a pulse; no gesture acts twice; each torch client knows the torch once its callbacks are in |
| `KeyHandlerProximity` | `ProximityChecked`, violated | `registerFPScreenOffListener` uses fields that are never assigned; its message is handled with no sensor asked. "Check the proximity sensor before performing the action" (`res/values/strings.xml:78`) |
| `KeyHandlerLockout` | `GesturesUsed`, violated | a gesture between the two statements of `resetFPGestureDelay` loses its own reset; the gate stays shut. "Use fingerprint gestures" (`res/values/strings.xml:31`) |
| `Services` | `ServicesTypeOK` and one to three properties of each part | `OffsetMatchesBase`, `JoinReturns`: the compass offset stays relative to its own base through moved bases, saves and kills (while measuring, until a measurement is given up on after the base moved), and main's join returns. `FlashIsFile`, `BootedRunsFile`, `LoaderEnds`: retries and power losses leave the hub with the file's firmware or unannounced, and the loader ends. `AlgosFollowParts`: the hub runs what is asked for. `MasksFollowHandles`, `SharedRateHeld`, `GlancesKept`: shared bits and rates of calls that do not overlap, and the second event of a glance. `LocksFollowUsers`: every lock is remembered once, but for those whose handles are thrown away. `NothingForgotten`: a step of the battery service never loses what gauge or file knew |

### Bounds

* `HubSensors`: one sensor of each way of using a stream (single, shared, fused,
  wake, shared wake bit, one-shot); two periods, so that there is a shorter one.
  The failing calls of a scene are those its handles make: the two masks do not
  interact.
* `WakeMask`: two handles and two threads are the least that can lose an update.
* The scene of the filters: `MAG_COUNTS = 2`, the countdown passes through a middle value.
* `StepCounter`: `Modulus = 16` and eight steps; the register wraps in the sums
  but a count of steps never does, as on the phone.
* `SensorsPoll`: a buffer of four slots is the smallest the code handles; two
  reports in the queue, two frames for each input device, of which the reader holds
  one, so that frames stay behind in the device.
* `InputEventReader`: a ring of three with two different events: every position
  of head and tail, wrapped or not.
* `TofProx`: near and far and room for two events; the weight ceiling is the
  code's. The distance between the thresholds and buffers of one event were
  checked alone and hold too. `ReaderEvents` is the code's 8.
* `RangeProx`: a reader of four events (the code's 8 is two packets more) with
  buffers of one, three and four: smaller than, not a divisor of, and as large as
  what the reader holds.
* `NativeSensors`: two sensors, one with an event device and one with a FIFO, whose
  missing event child makes it read the directory, and an entry that cannot be read; the reader's two reports are the code's; periods
  beyond half of `IntSpan` turn negative, as those beyond 31 bits do.
* `DozeGestures`: a delay of one tick and a pocket time of two make all orders of
  the two timers reachable; two broadcasts, so that they may contradict.
* `KeyHandler`: three gestures (one pending, one in the race, one after) and
  three callbacks on their way to a client.
* `Akmd`: two bases so far apart that the offset of one is no int16 relative to the
  other (`ShortMax = 2` stands for 32767; the counter wraps there too), an estimate
  that is neither; delays that disable the sensor, and decimate by two.
* `FirmwareLoader`: files of two packets, one not full, a damaged one of the same
  version, one without a version and a blacklisted one; a flash of seven bytes with
  an alignment of two, which ends in the middle of a packet as the hub's 0x0FFFFF
  bytes do; three tries, as in the code.
* `MotoshHub`: periods that are the largest 16-bit number and one beyond;
  buffers of one and two for the glances.
* `PowerHints`: two hints with up to three users, two locks whose handles are thrown
  away (`MaxLost`); `BatteryHealth`: two bins, so
  that one may grow in the gauge and the other in the file.

### Fairness

* `SensorsPoll`, `NativeSensors`, `TofProx`: weak fairness of the poll thread,
  which the framework runs in a loop. In `NativeSensors` a read is strongly fair:
  a device does not fail every read for ever. Calls of the framework that have
  begun end (`TofCall`); none has to be made.
* `TofProx`: a measurement past the watched threshold is reported in the end, with
  other millimetres than the last one (the input core drops a repeated value), and
  each answer to a flush is passed on.
* The filters: streams that are on keep delivering, and among a stream's samples
  changed ones come again and again (strong fairness); an accelerometer at rest on
  a table still has noise. No fairness for calls.
* `Akmd`: the measuring thread and main's join are scheduled, and the driver's
  requests return, with or without success. Nobody has to close the compass.
* `FirmwareLoader`: the loader's next statement is executed; that is all
  `LoaderEnds` needs, since each request returns and the tries are counted.
* `KeyHandler`: weak fairness of the main looper. The violation of `GesturesUsed`
  is a state in which nothing is posted, so no fairness would help.
* `HubSensors` is the only run without the deadlock check: in the scene of the
  filters, with every sensor off and no more calls, nothing happens.

## 5. Proofs

Eight modules prove, for every value of the constants under the components' named
assumptions, what the runs check on small instances: every invariant, the action
properties and the refinement. Each theorem rests on an inductive invariant with
one lemma for each action; below is what it adds to the property, and why the
property alone is not kept by every step.

**`HubSensors_proofs`**

* The hub HAL: `IInv` adds that handles are of the sensor list, that what the HAL
  believes of the masks is what it last wrote successfully (`WakeBelief`,
  `StreamBelief`), and that the driver has what is believed (`MasksDelivered`,
  `RatesDelivered`). Without the beliefs a step that compares with them and skips
  the driver call could not be shown to be harmless. `HubType`, `HubWakeMask`,
  `HubStreams`, `HubUsersServed`, `HubFusionRate`, for every sensor list, set of
  periods and set of failing calls.
* The filters: `FusionImplementsHub` (the algorithms change nothing of
  `HubSensors`, so its theorems carry over) and `FusionTypeCorrect`,
  `FusionWarmUp`. `AlgosInv` ties the `uint8_t` countdown to the changed samples
  used since the reset: an uninitialized filter has counted down no more than it
  was given, so it cannot reach zero, or wrap, before `MAG_COUNTS` of them.

**`SensorsPoll_proofs`**: `PollTypeCorrect`, and `PollEventsFit` under
`RoomForGyro`: the board lacks one of the five sensors fed by DT_GYRO. Then each
report makes at most the four events whose room readEvents keeps, for every size
of the buffer and of the reader. Without the hypothesis the run
`SensorsPollOverflow` has the counterexample, so the theorem says exactly which
boards are safe.

**`SensorParts_proofs`**

* Step counter: `Accounted` ties offset, register and unreported steps to the
  total. `StepCounterType`, `StepsNeverOvercounted`, `StepsNeverGoBack`,
  `StepsContiguous`.
* Reader: `RTypeOK` and `ReadInBounds` are inductive together. `ReaderType`,
  `ReaderInBounds`, and `ReaderImplementsQueue`, the refinement of `EventQueue`
  step by step for every size of the ring.
* Time-of-flight HAL: `Watching` says, for each point between two driver calls of
  `handleSARprocess` and of `setEnable`, which mode the driver has and which
  distance it belongs to: the one going out, and in the end the one told. The
  property alone speaks only of the moments at rest. `TofToldIsWatched`.
* Laser ranging HAL: `RangeOwed` (the flushes not answered are those whose answer
  is in the stream of the driver's queue and the reader), `RangeComing` (the last
  distance is in that stream or was handed out), inductive with the types of the
  queue and the reader. `RangeLosesNothing`.
* `PartsKeepApart`: each of the four behaves in the composition `MCSensorParts` as
  it does alone, and `PartsTypeCorrect`.

**`LineageActions_proofs`**

* Ambient display: `LastBroadcast` (the last broadcast in the queue says what the
  screen is), `DelayHolds` (a sensor that owes its first report was registered
  within the delay), `Remembered` (what the listeners remember was seen since they
  were registered). `DozeType`, `DozeSettled`, `DozeGesturesBegun`,
  `DozePulsesApart`.
* Torch: `LastCallback` (the last callback on its way tells the state; a client
  with none on its way knows it), `DarkWhenUnavailable` and `Unheard`. For the
  gestures `ActionsEarned` is inductive with the type: no step gains more pending
  actions than gestures it accepts. `KeyType`, `KeyActionsEarned`,
  `KeyTorchKnown`.
* `ActionsTypeCorrect`: both halves, in the composition the run checks.

**`NativeSensors_proofs`**: `ReadInv` follows the poll thread between its looks
at the sensors: what poll() found readable stays so until it is read, and a
pending flush-complete event is owed. `Told` splits `SettingsApplied` at the
manager: what it keeps is what was asked for, where that fits an int (`Asked`), and
the device has what it keeps; a latency made negative by the cut is refused.
`NativeTypeCorrect`, `NativeReadNeverSpins`, `NativeSettingsApplied`, for every
directory of sensors.

**`Motosh_proofs`**

* The algorithms: `MaskInv` adds that context and driver have the same mask;
  without it a mask computed from the context says nothing of the hub.
  `AlgosCorrect`, excepting an algorithm whose parts were accepted and whose change
  of the mask then failed, and `AlgosTypeCorrect`.
* The HAL: `HubKept` says that the HAL remembers the shortest period of the sensors
  that are on (`Shortest`), that the driver has the period remembered unless it
  refused it (`Believed`), and that the masks follow the handles switched since
  the HAL started (`Follows`); a new process starts with the masks of the old one
  and with no handle switched. `GlancesInv` says that what is owed is what the
  call holds followed by what is pending, and that nothing is pending while the
  buffer has room, which keeps glances in order. `MotoTypeCorrect`,
  `MotoMasksFollow`, of the HAL's masks and of the driver's
  unless it refused the last one, `MotoRatesHeld`, both of calls that do not overlap,
  and `MotoGlancesKept`.

**`Akmd_proofs`**: `OffsetInv` types the parameters, the loop and the file, and
`ThreadJoined` says that there is a measuring loop only while main measures or
joins: loading the parameters anew is harmless only then. Each update of the
parameters keeps the saved pair of offset and base, and the measured pair until it
strays. `OffsetCorrect`, for every set of bases, offsets and delays;
`AkmdTypeCorrect` (the decimator is one of the table, which needs that a search of
the table finds a row; the counter runs below zero while the library denies its
service and wraps, and it and the offsets stay int16s).

**`Services_proofs`**

* Power HAL: `UsersInv` ties the counter of a hint to its users and a lock to the
  counter, `DisplayInv` bounds the display's list, `DaemonInv` says that the locks
  thrown away are still held, and `LocksInv` that no two of the others are the same,
  so that a release gives back its own lock.
  `PowerTypeCorrect`, `LocksFollowTheirUsers`.
* Firmware loader: `FlashInv` says what the flash holds while packets are sent (the
  bytes read so far, and the fill behind them, with the hub's address where the
  file is read, unless a packet was written in part only), `FileInv` that the file is the one whose version is compared,
  `VersionInv` what agreeing versions mean until the hub is announced.
  `LoaderTypeCorrect`, `FlashHoldsFile`, `BootedHubRunsFile`, for every firmware,
  size of the flash and length of a packet that is a multiple of the alignment.
* Battery backup: `JobInv` and `CellInv` say, for each step of a job, which copies
  of a cell agree and what is still to be written; a step may truncate the file
  only while the gauge has the value. `BatteryTypeCorrect`, `NothingIsForgotten`.
* `ServicesKeepApart`: each part behaves in the composition `MCServices` as it does
  alone, and `ServicesTypeCorrect`. Both have the hypothesis that the sensors the
  composition drives are on the board (`DrivenHandles`).

The assumptions on constants say that what is counted or measured is a natural
number, that rooms and sizes are not zero, and a few facts of the data: the
firmware's bytes fit the flash, a packet is a whole multiple of the alignment and "no file" is not a file (`LoaderAssumption`); there is a largest
capacity, that of a new battery, and there are finitely many bins
(`HealthAssumption`); an object is at one of the distances (`TofAssumption`);
`MAG_COUNTS` is a byte (`FusionConstantsOK`); an algorithm's bit is not movement's
(`AlgosAssumption`); decimators are int16s (`AkmdAssumption`). TLC evaluates them on the runs.

Two definitions have the form they have because of the proofs: in `MotoshHub` a
call of poll in progress is the number of its events and the glances among them
(the other events are only counted, since their order says nothing about
glances), and the function test of the compass states the total as one condition
on all readings instead of a fold over them.

Only model-checked: `RotationVectorSettles`, `BacklogDrains`, `FarTold`,
`FlushTaken`, `JoinReturns` and `LoaderEnds`, because liveness under fairness is
out of the prover's reach; and the violated properties, which are
counterexamples.

## 6. What the models show beyond the runs

Behaviour met while modelling about which the repository says too little for a
run of its own:

* `setDelay` cuts a period to 16 bits before clamping it (`HubSensors.cpp:457`):
  65543 ms is taken for 7 ms.
* `setDelay` hides `-EIO` from its caller (574), but `ioctl` returns -1.
* The DT_GLANCE case runs into DT_MAG (974): a glance report may make a
  magnetometer event and counts as a changed magnetometer sample.
* A rear proximity event that finds the framework's buffer full waits in the
  reader for the device's next event (`RearProxSensor.cpp:230`), as in the ranging
  HAL (run `RangePending`).
* readEvents takes a read() that fails for a report: the loop asks for `!= 0`, and
  the report before is handled once more, as long as reading fails and there is room
  (`HubSensors.cpp:615`). `BacklogDrains` excepts it.
* setEnable resets the six-axis filter on one thread while the poll thread may be
  between its countdown and the write of `initialized`
  (`GeoMagRotationVector.cpp:95`): the filter can then be ready without having
  started over. `GeoMagWarmUp` speaks of resets that do not overlap a sample.
* `GameRotationVector::processFusion` does not return after a reset and starts
  over at once from the sample it was called with (102).
* `mGeomagRVReady` keeps its value from before a reset until the next
  accelerometer sample (`HubSensors.cpp:737`).
* The larger hub's setEnable runs on two threads without a lock too (lines 1047,
  1057, 1093, 1119, 1161 and 1171 call it from readEvents).
* `setDelay` and `batch` of the larger hub take 65535 ms for "no request".
* The case of the Moto glance runs into motion detection
  (`motosh_hal/HubSensors.cpp:449`): switching one switches the other's bit.
* poll of the larger hub returns 0 and drops the hub's events when another device
  is readable but the buffer is full (`motosh_hal/SensorsPollContext.cpp:123`).
* A rate the driver refuses is remembered as set and not asked for again
  (`motosh_hal/HubSensors.cpp:1266`).
* `pollEvents` returns the error of one sensor and drops what it has read from
  the others (`rearProx/sensors.cpp:172`); a sensor of an unknown type keeps a
  null driver (`rearProx/NativeSensorManager.cpp:249`).
* A sensor whose class device has no event child is read from the directory
  `/dev/input/` (`rearProx/NativeSensorManager.cpp:471`): it is always ready, every
  read fails, and each call of `pollEvents` ends there, so that no sensor behind it
  in the list is read. `FlushTaken` excepts those.
* `batch` takes its periods as int (`rearProx/sensors.cpp:79`): one of more than
  2.1 s may become a short one; a latency that turns negative is refused by the
  driver (`rearProx/SensorBase.cpp:156`), but kept by the manager.
* A covered time-of-flight sensor reports nothing after enable until the object
  has been away (`tof_hal/RearProxSensor.cpp:218`); a sensor disabled while the
  configuration is turned round is resumed (382).
* The ranging HAL may answer a flush with a distance that was never read
  (`vl53l0_hal/RearProxSensor.cpp:68`).
* The compass daemon: `exec_flags` and `timestamp` are used uninitialised
  (`Measure.c:456`, 635); a failed read of the accelerometer ends the thread and
  main does not notice (616); retries that compare a return value with `-EINTR` or
  `-EAGAIN` never happen (`AKMD_Driver.c:310`, 491, and `motosh.cpp:158`);
  `SetDefaultPRMS` keeps an accelerometer offset read from a damaged file.
* Of the compass, the base that `AKSC_DecompS3` moved is not translated to when the
  measurement has an error or the field is out of range (`Measure.c:795`, 810), and
  a translation that overflows is only returned (824): the offset stays relative to
  another base until the next estimate. What is saved is not touched.
* A write() of the firmware loader that takes less than a packet is a success
  (`motosh.cpp:605`); the CRC is what finds it.
* A firmware an app installed hides the system's even when it is damaged, and the
  hub is announced as booted although verification failed (`motosh.cpp:326`, 816).
* `power-8953.c` defines its overrides with one argument more than
  `power-common.c` passes (89, 105).
* A hint that was refused is not counted, but its release is
  (`power-common.c:104`).
* Each change of the display takes a lock whose handle is thrown away (`power-common.c:124`
  and 127 call the same `perf_hint_enable` as a counted hint): if the daemon gives
  one, nobody can release it.
* What the gauge counts between a read and the write of the merged value is lost
  (`CycleCountBackupRestore.cpp:90`).
* A tap between the two halves of `doubleTapRunnable` is lost
  (`KeyHandler.java:124`).

## 7. Not modelled

* Quaternion arithmetic (floating point), the contents of events, dropbox reports.
* The binary library of the compass daemon, beyond the choices it leaves.
* Call silencers, flip to mute and the camera gesture: listed in the plan.
* Preference screens, whose values are inputs of `KeyHandler` and
  `DozeGestures`.
* The debugging commands of the firmware loader; the parsers of `powerhint.xml`
  and of metadata; the overrides for another chip (`power-msmnile.c`).
* `stml0xx_hal/sensorhub.c` and `motosh_hal/RearProxSensor.cpp`, near copies of
  files that are modelled; `capsensor/` and `CapSense.cpp`, which are not built.
* Light, vibrator, touch and init, which write one node or property for each call;
  `libshims/mixer.c` and `libhidl`, copied library code.
