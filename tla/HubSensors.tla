------------------------------ MODULE HubSensors ------------------------------
(***************************************************************************)
(* The enable and rate logic of the sensor-hub HAL                         *)
(* (hardware-moto-sensors/stml0xx_hal/HubSensors.cpp).                     *)
(*                                                                         *)
(* The framework turns sensors on and off by handle.  The hub knows two    *)
(* bit masks (sensors and wake sensors) and one sampling period for each   *)
(* of the three physical streams.  HubSensors keeps the masks derived from *)
(* the handles, decides which streams a virtual ("fusion") sensor needs,   *)
(* and asks the driver for the shortest period any user of a stream wants. *)
(*                                                                         *)
(* A mask is the set of its bits.  A bit that belongs to one handle is     *)
(* named by the handle; the bits of the streams and M_GLANCE, which        *)
(* several handles share, have names of their own.  mFusionSensors is      *)
(* indexed here by the handle of the entry.                                *)
(***************************************************************************)
EXTENDS Integers

CONSTANTS
  SensorList,   \* the handles in mIdToSensor (depends on the board's options)
  Periods,      \* sampling periods, in ms, the framework may ask for
  Failing       \* the driver calls that may fail: streams, "sensors", "wake"

-------------------------------------------------------------------------------
usesAccel == {"ID_A", "ID_GAME_RV", "ID_LA", "ID_GRAVITY", "ID_M", "ID_UM",
              "ID_OR", "ID_GEOMAG_RV", "ID_RV"}
usesGyro  == {"ID_G", "ID_UNCALIB_GYRO", "ID_GAME_RV", "ID_LA", "ID_GRAVITY",
              "ID_RV"}
usesMag   == {"ID_M", "ID_UM", "ID_OR", "ID_GEOMAG_RV", "ID_RV"}

FusionSensors == usesAccel \cup usesGyro \cup usesMag

\* The physical streams; each has a bit in mEnabled and a sampling period.
Streams == {"accel", "gyro", "mag"}

\* The sensors that make the HAL run a rotation vector.
RotationVectors == {"ID_GEOMAG_RV", "ID_RV", "ID_GAME_RV", "ID_LA", "ID_GRAVITY"}

Uses == [accel |-> usesAccel, gyro |-> usesGyro, mag |-> usesMag]

\* Non-wake handles with a bit of their own in mEnabled.
OwnBit == {"ID_UNCALIB_GYRO", "ID_L", "ID_DR", "ID_STEP_COUNTER",
           "ID_STEP_DETECTOR"}

NonWake == FusionSensors \cup OwnBit

Glances == {"ID_GLANCE_GESTURE", "ID_MOTO_GLANCE_GESTURE"}

OneShot == {"ID_MOTION_DETECT", "ID_STATIONARY_DETECT"}

Wake == Glances \cup OneShot
          \cup {"ID_P", "ID_FU", "ID_FD", "ID_S", "ID_CA", "ID_LF", "ID_CC"}

Handles == NonWake \cup Wake

WakeBit(h) == IF h \in Glances THEN "M_GLANCE" ELSE h

SensorBits == Streams \cup OwnBit
WakeBits   == {WakeBit(h) : h \in Wake}

DriverCalls == Streams \cup {"sensors", "wake"}

ASSUME ConstantsOK ==
  /\ SensorList \subseteq Handles
  /\ Periods \subseteq Nat
  /\ Failing \subseteq DriverCalls

-------------------------------------------------------------------------------
Smaller(a, b) == IF a < b THEN a ELSE b
Larger(a, b)  == IF a < b THEN b ELSE a

USHRT_MAX == 65535

\* ACCEL_MAX_DELAY_US, GYRO_MAX_DELAY_US and MAG_MAX_DELAY_US are all 200 ms.
MaxRate == 200
MinRate == [accel |-> 10, gyro |-> 5, mag |-> 20]
FusionMaxDelay == 10

\* minDelay and maxDelay of the sensor list, in ms.  The two rotation vectors
\* declare a maxDelay of 0.
minDelay == [h \in FusionSensors |->
  CASE h \in {"ID_G", "ID_UNCALIB_GYRO", "ID_GAME_RV", "ID_RV"} -> 5
    [] h \in {"ID_M", "ID_UM", "ID_OR"} -> 20
    [] OTHER -> 10]
maxDelay == [h \in FusionSensors |->
  CASE h \in {"ID_GAME_RV", "ID_LA", "ID_GRAVITY"} -> FusionMaxDelay
    [] h \in {"ID_GEOMAG_RV", "ID_RV"} -> 0
    [] OTHER -> MaxRate]

\* The period is cut to an unsigned short before it is clamped.
ClampedDelay(h, ms) ==
  Larger(Smaller(ms % (USHRT_MAX + 1), maxDelay[h]), minDelay[h])

-------------------------------------------------------------------------------
VARIABLES
  mEnabled,         \* bits of the non-wake mask, as the HAL believes them
  mWakeEnabled,     \* bits of the wake mask, as the HAL believes them
  mEnabledHandles,  \* handles the framework has on
  fusionEnabled,    \* mFusionSensors[].enabled
  fusionDelay,      \* mFusionSensors[].delay
  prev_delay,       \* the static prev_delay of each update*Rate function
  kernSensors,      \* the driver's non-wake mask
  kernWake,         \* the driver's wake mask
  kernDelay,        \* the driver's period of each stream
  ret,              \* the value the last call returned to the framework
  lost,             \* history: driver calls whose last attempt failed
  touched           \* history: handles operated on since the HAL started

kernel == <<kernSensors, kernWake, kernDelay>>
vars == <<mEnabled, mWakeEnabled, mEnabledHandles, fusionEnabled, fusionDelay,
          prev_delay, kernel, ret, lost, touched>>

Delays == 0 .. USHRT_MAX

TypeOK ==
  /\ mEnabled \in SUBSET SensorBits
  /\ mWakeEnabled \in SUBSET WakeBits
  /\ mEnabledHandles \in SUBSET Handles
  /\ fusionEnabled \in SUBSET FusionSensors
  /\ fusionDelay \in [FusionSensors -> Delays]
  /\ prev_delay \in [Streams -> Delays]
  /\ kernSensors \in SUBSET SensorBits
  /\ kernWake \in SUBSET WakeBits
  /\ kernDelay \in [Streams -> Delays]
  /\ ret \in {"0", "-1", "-EINVAL"}
  /\ lost \in SUBSET DriverCalls
  /\ touched \in SUBSET Handles

-------------------------------------------------------------------------------
isHandleEnabled(h) == h \in mEnabledHandles

\* A slip the runs must catch: a user of the streams is missing in the table.
isNeeded_noGameRV(s, on) == on \cap (Uses[s] \ {"ID_GAME_RV"}) # {}

\* isAccelNeeded, isGyroNeeded and isMagNeeded, once setEnable has updated
\* mFusionSensors.
isNeeded(s, on) == on \cap Uses[s] # {}

\* A slip the runs must catch: the six-axis sensors are not counted.
isRotationVectorRunning_geomag(on) == on \cap {"ID_GEOMAG_RV", "ID_RV"} # {}

isRotationVectorRunning(on) == on \cap RotationVectors # {}

\* A slip the runs must catch: the comparison of the periods is turned round.
Longest(S) == CHOOSE d \in S : \A e \in S : e <= d

Shortest(S) == CHOOSE d \in S : \A e \in S : d <= e

\* The period update*Rate computes for stream s when the sensors in on are
\* enabled with the periods dl.
Rate(s, on, dl) ==
  LET wanted == {d \in {dl[f] : f \in on \cap Uses[s]} : d < MaxRate}
      delay  == IF wanted = {} THEN MaxRate
                ELSE IF isRotationVectorRunning(on)
                     THEN Smaller(Shortest(wanted), FusionMaxDelay)
                     ELSE Shortest(wanted)
  IN  Larger(delay, MinRate[s])

\* The streams in S whose update*Rate finds a new period and calls the driver.
Asks(S) == {s \in S : Rate(s, fusionEnabled', fusionDelay') # prev_delay[s]}

\* update*Rate for the streams in S; the driver calls in bad fail.  prev_delay
\* is assigned whether or not the driver took the new period.
updateRates(S, bad) ==
  LET new(s) == Rate(s, fusionEnabled', fusionDelay')
  IN  /\ prev_delay' = [s \in Streams |-> IF s \in S THEN new(s)
                                                     ELSE prev_delay[s]]
      /\ kernDelay' = [s \in Streams |-> IF s \in Asks(S) \ bad THEN new(s)
                                         ELSE kernDelay[s]]

\* A slip the runs must catch: the driver's errno is passed on.
RateErrno(S, bad) == IF Asks(S) \cap bad # {} THEN "-EIO" ELSE "0"

\* A call ends with the error of the last update*Rate it made.
RateError(S, bad) ==
  LET last == IF "mag" \in S THEN "mag" ELSE IF "gyro" \in S THEN "gyro"
              ELSE "accel"
  IN  IF last \in Asks(S) \cap bad THEN "-1" ELSE "0"

\* lost after the driver calls in asked were made and those in bad failed.
Outcome(asked, bad) == (lost \ asked) \cup (asked \cap bad)

-------------------------------------------------------------------------------
With(S, x, en) == IF en THEN S \cup {x} ELSE S \ {x}

\* The part of setEnable for handles of the non-wake mask.
setEnableNonWake(h, en, bad) ==
  /\ h \in NonWake
  /\ fusionEnabled' = IF h \in FusionSensors THEN With(fusionEnabled, h, en)
                                             ELSE fusionEnabled
  /\ fusionDelay' = fusionDelay
  /\ LET needed == {s \in Streams : isNeeded(s, fusionEnabled')}
         own    == IF h \in OwnBit THEN With(mEnabled, h, en) ELSE mEnabled
         new_enabled == (own \ Streams) \cup needed
         asked  == Asks(needed)
                     \cup (IF new_enabled # mEnabled THEN {"sensors"} ELSE {})
     IN  /\ updateRates(needed, bad)
         /\ mEnabled' = new_enabled
         /\ kernSensors' = IF "sensors" \in asked \ bad THEN new_enabled
                                                        ELSE kernSensors
         /\ lost' = Outcome(asked, bad)
         /\ ret' = IF "sensors" \in asked THEN "0" ELSE RateError(needed, bad)
  /\ UNCHANGED <<mWakeEnabled, kernWake>>

\* A slip the runs must catch: the glance handles ignore each other.
OwnsWakeBit_always(h) == TRUE

\* While the other glance handle is on, M_GLANCE is left alone.
OwnsWakeBit(h) == h \in Glances => ~ \E g \in Glances \ {h} : isHandleEnabled(g)

\* The part of setEnable for handles of the wake mask.
setEnableWake(h, en, bad) ==
  /\ h \in Wake
  /\ LET new_enabled == IF OwnsWakeBit(h)
                        THEN With(mWakeEnabled, WakeBit(h), en)
                        ELSE mWakeEnabled
         asked == IF new_enabled # mWakeEnabled THEN {"wake"} ELSE {}
     IN  /\ mWakeEnabled' = new_enabled
         /\ kernWake' = IF asked \ bad # {} THEN new_enabled ELSE kernWake
         /\ lost' = Outcome(asked, bad)
  /\ ret' = "0"
  /\ UNCHANGED <<mEnabled, fusionEnabled, fusionDelay, prev_delay, kernSensors,
                 kernDelay>>

setEnable(h, en, bad) ==
  /\ setEnableNonWake(h, en, bad) \/ setEnableWake(h, en, bad)
  /\ mEnabledHandles' = With(mEnabledHandles, h, en)
  /\ touched' = touched \cup {h}

\* setDelay.  Only fusion sensors keep a period (the light sensor's and the step
\* counter's are constants after clamping); every call refreshes all rates.
setDelay(h, ms, bad) ==
  /\ fusionDelay' = IF h \in FusionSensors
                    THEN [fusionDelay EXCEPT ![h] = ClampedDelay(h, ms)]
                    ELSE fusionDelay
  /\ fusionEnabled' = fusionEnabled
  /\ updateRates(Streams, bad)
  /\ lost' = Outcome(Asks(Streams), bad)
  /\ ret' = RateError(Streams, bad)
  /\ UNCHANGED <<mEnabled, mWakeEnabled, mEnabledHandles, kernSensors, kernWake,
                 touched>>

-------------------------------------------------------------------------------
\* SensorsPollContext::activate and batch hand a known handle to the hub.
Activate == \E h \in SensorList, en \in BOOLEAN, bad \in SUBSET Failing :
              setEnable(h, en, bad)

Batch == \E h \in SensorList, ms \in Periods, bad \in SUBSET Failing :
           setDelay(h, ms, bad)

\* A handle that is not in the list, or a negative period, is refused.
Refused == /\ ret' = "-EINVAL"
           /\ UNCHANGED <<mEnabled, mWakeEnabled, mEnabledHandles, fusionEnabled,
                          fusionDelay, prev_delay, kernel, lost, touched>>

\* readEvents turns a one-shot sensor off when it delivers its report.
OneShotFired == \E h \in OneShot \cap SensorList, bad \in SUBSET Failing :
                  /\ h \in touched \/ h \in kernWake
                  /\ setEnable(h, FALSE, bad)

\* The constructor adopts the masks the driver already has; a read that fails
\* leaves the mask 0.  The driver outlives the HAL process.
Construct(bad) ==
  /\ mEnabled' = IF "sensors" \in bad THEN {} ELSE kernSensors
  /\ mWakeEnabled' = IF "wake" \in bad THEN {} ELSE kernWake
  /\ mEnabledHandles' = {}
  /\ fusionEnabled' = {}
  /\ fusionDelay' = [f \in FusionSensors |-> USHRT_MAX]
  /\ prev_delay' = [s \in Streams |-> 0]
  /\ ret' = "0"
  /\ lost' = Outcome({"sensors", "wake"}, bad)
  /\ touched' = {}
  /\ UNCHANGED kernel

Restart == \E bad \in SUBSET Failing : Construct(bad)

Init ==
  /\ mEnabled = {} /\ mWakeEnabled = {} /\ mEnabledHandles = {}
  /\ fusionEnabled = {}
  /\ fusionDelay = [f \in FusionSensors |-> USHRT_MAX]
  /\ prev_delay = [s \in Streams |-> 0]
  /\ kernSensors = {} /\ kernWake = {} /\ kernDelay = [s \in Streams |-> 0]
  /\ ret = "0"
  /\ lost = {} /\ touched = {}

Next == Activate \/ Batch \/ Refused \/ OneShotFired \/ Restart

Spec == Init /\ [][Next]_vars

-------------------------------------------------------------------------------
(* Properties.                                                             *)

\* What the driver wakes the phone for is what the framework has on: once a
\* handle has been operated on, its bit is in the driver's wake mask exactly
\* when the handle, or the other handle that shares the bit, is on - unless the
\* last attempt to write the mask failed (HubSensors::setEnable, the glance
\* sharing and the one-shot sensors included).
WakeMaskAgrees ==
  "wake" \notin lost =>
    \A h \in touched \cap Wake :
      WakeBit(h) \in kernWake
        <=> \E g \in mEnabledHandles \cap Wake : WakeBit(g) = WakeBit(h)

\* A physical stream runs exactly while some enabled sensor needs it, whatever
\* was left running before the HAL started: no stream is left on to drain the
\* battery, and none is off under a virtual sensor.
StreamsFollowUsers ==
  ("sensors" \notin lost /\ touched \cap NonWake # {}) =>
    \A s \in Streams :
      s \in kernSensors <=> mEnabledHandles \cap Uses[s] # {}

\* Every enabled sensor gets samples at least as often as it asked, within what
\* the stream can do, although sensors come, go and change their period in any
\* order (update*Rate is skipped when the stream is not needed).
UsersAreServed ==
  \A s \in Streams \ lost : \A f \in mEnabledHandles \cap Uses[s] :
    kernDelay[s] <= Larger(fusionDelay[f], MinRate[s])

\* While a rotation vector is running, with a period set, every stream in use
\* whose users have periods set runs at the fusion rate or the stream's fastest.
FusionRateHeld ==
  \A s \in Streams \ lost :
    (/\ mEnabledHandles \cap RotationVectors # {}
     /\ \E f \in mEnabledHandles \cap Uses[s] : fusionDelay[f] < MaxRate)
      => kernDelay[s] <= Larger(FusionMaxDelay, MinRate[s])
=============================================================================
