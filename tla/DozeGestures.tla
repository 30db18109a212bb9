---------------------------- MODULE DozeGestures ------------------------------
(***************************************************************************)
(* The doze gestures of LineageActions: LineageActionsService tells its    *)
(* screen listeners (DozePulseAction, GlanceSensor, ProximitySensor and    *)
(* StowSensor) when the screen turns on or off; while it is off they       *)
(* listen to the sensors the preferences ask for and wake the ambient      *)
(* display with a pulse.                                                   *)
(*                                                                         *)
(* Every handler runs on the main thread of the app, one at a time.  What  *)
(* happens between them is the rest of the phone: the screen changes and   *)
(* its broadcast waits in the queue, preferences and settings change, the  *)
(* sensors report, time passes.  A time stamp is kept as the ticks since   *)
(* it was taken, up to the largest age the code tells apart.               *)
(***************************************************************************)
EXTENDS Naturals, Sequences

CONSTANTS
  DELAY_BETWEEN_DOZES,  \* ticks between two pulses
  IN_POCKET_MIN_TIME,   \* ticks in the pocket that make a pick-up
  MaxBroadcasts         \* bound on the broadcasts in the queue

ASSUME DozeConstants ==
  /\ DELAY_BETWEEN_DOZES \in Nat /\ IN_POCKET_MIN_TIME \in Nat \ {0}
  /\ MaxBroadcasts \in Nat

VARIABLES
  interactive,  \* PowerManager.isInteractive()
  broadcasts,   \* SCREEN_ON (TRUE) and SCREEN_OFF broadcasts not yet received
  mPickUpGestureEnabled, mIrWakeUpEnabled,  \* LineageActionsSettings
  dozeEnabled,  \* the system's DOZE_ENABLED setting
  mWakeLock,    \* whether the service holds its wake lock
  mEnabled,     \* the sensors whose mEnabled is set
  registered,   \* the sensors SensorManager delivers to the app
  awaited,      \* registered on-change sensors that owe their first report
  mSawNear,     \* ProximitySensor's
  mLastStowed,  \* StowSensor's
  stowedAge,    \* age of StowSensor's isStowedTime
  dozeAge,      \* age of DozePulseAction's mLastDoze
  pulseAge,     \* history: age of the last pulse
  pulse,        \* history: the sensor that sent a pulse in the last step
  begun         \* history: the sensors that reported near or stowed since they
                \* were registered

settings == <<mPickUpGestureEnabled, mIrWakeUpEnabled, dozeEnabled>>
gestures == <<mSawNear, mLastStowed, stowedAge>>
gvars == <<interactive, broadcasts, settings, mWakeLock, mEnabled, registered,
          awaited, gestures, dozeAge, pulseAge, pulse, begun>>

Sensors  == {"glance", "prox", "stow"}
OnChange == {"prox", "stow"}

GTypeOK ==
  /\ interactive \in BOOLEAN
  /\ broadcasts \in Seq(BOOLEAN) /\ Len(broadcasts) <= MaxBroadcasts
  /\ mPickUpGestureEnabled \in BOOLEAN /\ mIrWakeUpEnabled \in BOOLEAN
  /\ dozeEnabled \in BOOLEAN /\ mWakeLock \in BOOLEAN
  /\ mEnabled \in SUBSET Sensors
  /\ registered = mEnabled
  /\ awaited \in SUBSET (OnChange \cap mEnabled)
  /\ mSawNear \in BOOLEAN /\ mLastStowed \in BOOLEAN
  /\ stowedAge \in 0 .. IN_POCKET_MIN_TIME
  /\ dozeAge \in 0 .. DELAY_BETWEEN_DOZES + 1
  /\ pulseAge \in 0 .. DELAY_BETWEEN_DOZES + 1
  /\ pulse \in Sensors \cup {"none"}
  /\ begun \in SUBSET OnChange

-------------------------------------------------------------------------------
isIrWakeupEnabled == dozeEnabled /\ mIrWakeUpEnabled
isPickUpEnabled   == dozeEnabled /\ mPickUpGestureEnabled

\* The sensors whose screenTurnedOff finds its gesture enabled.
Wanted ==
  (IF isPickUpEnabled THEN {"glance"} ELSE {})
    \cup (IF isIrWakeupEnabled THEN {"prox"} ELSE {})
    \cup (IF ~ isIrWakeupEnabled /\ isPickUpEnabled THEN {"stow"} ELSE {})

\* screenTurnedOn of the service and of its listeners.
screenTurnedOn ==
  /\ mWakeLock' = TRUE
  /\ registered' = registered \ mEnabled
  /\ awaited' = awaited \ mEnabled
  /\ mEnabled' = {}
  /\ UNCHANGED <<dozeAge, begun>>

\* A slip the runs must catch: the time of the last pulse is not set.
screenTurnedOff_keepLastDoze(wanted) ==
  /\ mWakeLock' = FALSE
  /\ registered' = registered \cup (wanted \ mEnabled)
  /\ awaited' = awaited \cup ((wanted \ mEnabled) \cap OnChange)
  /\ begun' = begun \ (wanted \ mEnabled)
  /\ mEnabled' = mEnabled \cup wanted
  /\ UNCHANGED dozeAge

\* screenTurnedOff of the service and of its listeners; a sensor that is already
\* enabled stays as it is, wanted or not.
screenTurnedOff(wanted) ==
  /\ mWakeLock' = FALSE
  /\ registered' = registered \cup (wanted \ mEnabled)
  /\ awaited' = awaited \cup ((wanted \ mEnabled) \cap OnChange)
  /\ begun' = begun \ (wanted \ mEnabled)
  /\ mEnabled' = mEnabled \cup wanted
  /\ dozeAge' = 0

\* A slip the runs must catch: a changed preference turns the listeners on.
updateState_off == screenTurnedOff(Wanted')

\* LineageActionsService.updateState, called when the preferences have changed,
\* asks the power manager and not the broadcasts.
updateState == IF interactive THEN screenTurnedOn ELSE screenTurnedOff(Wanted')

-------------------------------------------------------------------------------
\* A slip the runs must catch: a pulse does not set mLastDoze.
mayDoze_forgets(s) ==
  IF dozeAge > DELAY_BETWEEN_DOZES
  THEN pulse' = s /\ pulseAge' = 0 /\ UNCHANGED dozeAge
  ELSE pulse' = "none" /\ UNCHANGED <<dozeAge, pulseAge>>

\* DozePulseAction.action for a gesture of sensor s.
mayDoze(s) ==
  IF dozeAge > DELAY_BETWEEN_DOZES
  THEN pulse' = s /\ dozeAge' = 0 /\ pulseAge' = 0
  ELSE pulse' = "none" /\ UNCHANGED <<dozeAge, pulseAge>>

NoPulse == pulse' = "none" /\ UNCHANGED <<dozeAge, pulseAge>>

\* A slip the runs must catch: the trigger is not asked for again.
onTrigger_once ==
  /\ "glance" \in registered
  /\ mayDoze("glance")
  /\ registered' = registered \ {"glance"}
  /\ UNCHANGED <<interactive, broadcasts, settings, mWakeLock, mEnabled, awaited,
                 gestures, begun>>

\* GlanceSensor's onTrigger.  A trigger sensor is registered for one event; the
\* handler asks for the next.
onTrigger ==
  /\ "glance" \in registered
  /\ mayDoze("glance")
  /\ registered' = registered
  /\ UNCHANGED <<interactive, broadcasts, settings, mWakeLock, mEnabled, awaited,
                 gestures, begun>>

\* ProximitySensor.onSensorChanged.
proxChanged(isNear) ==
  /\ "prox" \in registered
  /\ IF mSawNear /\ ~ isNear THEN mayDoze("prox") ELSE NoPulse
  /\ mSawNear' = isNear
  /\ begun' = IF isNear THEN begun \cup {"prox"} ELSE begun
  /\ awaited' = awaited \ {"prox"}
  /\ UNCHANGED <<interactive, broadcasts, settings, mWakeLock, mEnabled,
                 registered, mLastStowed, stowedAge>>

\* StowSensor.onSensorChanged.
stowChanged(thisStowed) ==
  /\ "stow" \in registered
  /\ IF mLastStowed /\ ~ thisStowed /\ stowedAge >= IN_POCKET_MIN_TIME
     THEN mayDoze("stow") ELSE NoPulse
  /\ stowedAge' = IF thisStowed THEN 0 ELSE stowedAge
  /\ mLastStowed' = thisStowed
  /\ begun' = IF thisStowed THEN begun \cup {"stow"} ELSE begun
  /\ awaited' = awaited \ {"stow"}
  /\ UNCHANGED <<interactive, broadcasts, settings, mWakeLock, mEnabled,
                 registered, mSawNear>>

-------------------------------------------------------------------------------
\* The screen turns on or off; the broadcast is sent.
ScreenChanges ==
  /\ Len(broadcasts) < MaxBroadcasts
  /\ interactive' = ~ interactive
  /\ broadcasts' = Append(broadcasts, ~ interactive)
  /\ pulse' = "none"
  /\ UNCHANGED <<settings, mWakeLock, mEnabled, registered, awaited, gestures,
                 dozeAge, pulseAge, begun>>

\* ScreenReceiver.onReceive.
onReceive ==
  /\ broadcasts # << >>
  /\ broadcasts' = Tail(broadcasts)
  /\ IF Head(broadcasts) THEN screenTurnedOn ELSE screenTurnedOff(Wanted)
  /\ pulse' = "none"
  /\ UNCHANGED <<interactive, settings, gestures, pulseAge>>

\* onSharedPreferenceChanged: a gesture's preference changes, one of the doze
\* gestures' or another one.
onSharedPreferenceChanged ==
  /\ \/ mPickUpGestureEnabled' = ~ mPickUpGestureEnabled
        /\ UNCHANGED mIrWakeUpEnabled
     \/ mIrWakeUpEnabled' = ~ mIrWakeUpEnabled
        /\ UNCHANGED mPickUpGestureEnabled
     \/ UNCHANGED <<mPickUpGestureEnabled, mIrWakeUpEnabled>>
  /\ dozeEnabled' = dozeEnabled
  /\ updateState
  /\ pulse' = "none"
  /\ UNCHANGED <<interactive, broadcasts, gestures, pulseAge>>

\* The user changes DOZE_ENABLED in the system's settings, with the screen on;
\* the app is not told.
DozeSettingChanges ==
  /\ interactive
  /\ dozeEnabled' = ~ dozeEnabled
  /\ pulse' = "none"
  /\ UNCHANGED <<interactive, broadcasts, mPickUpGestureEnabled, mIrWakeUpEnabled,
                 mWakeLock, mEnabled, registered, awaited, gestures, dozeAge,
                 pulseAge, begun>>

Older(age, max) == IF age < max THEN age + 1 ELSE age

\* A tick passes.  An on-change sensor reports its value as soon as it is
\* registered, long before a tick is over.
Tick ==
  /\ awaited = {}
  /\ stowedAge' = Older(stowedAge, IN_POCKET_MIN_TIME)
  /\ dozeAge' = Older(dozeAge, DELAY_BETWEEN_DOZES + 1)
  /\ pulseAge' = Older(pulseAge, DELAY_BETWEEN_DOZES + 1)
  /\ pulse' = "none"
  /\ UNCHANGED <<interactive, broadcasts, settings, mWakeLock, mEnabled,
                 registered, awaited, mSawNear, mLastStowed, begun>>

\* ServiceWrapper.onCreate after the app's process died: a new service with new
\* listeners; those of the old one, and its broadcasts, are gone.
onCreate ==
  LET on == IF interactive THEN {} ELSE Wanted
  IN  /\ broadcasts' = << >>
      /\ mWakeLock' = interactive
      /\ mEnabled' = on /\ registered' = on
      /\ awaited' = on \cap OnChange /\ begun' = {}
      /\ mSawNear' = FALSE /\ mLastStowed' = FALSE
      /\ stowedAge' = IN_POCKET_MIN_TIME
      /\ dozeAge' = IF interactive THEN DELAY_BETWEEN_DOZES + 1 ELSE 0
      /\ pulseAge' = DELAY_BETWEEN_DOZES + 1
      /\ pulse' = "none"
      /\ UNCHANGED <<interactive, settings>>

\* The service starts when the phone has booted, with the screen on.
GInit ==
  /\ interactive = TRUE /\ broadcasts = << >>
  /\ mPickUpGestureEnabled \in BOOLEAN /\ mIrWakeUpEnabled \in BOOLEAN
  /\ dozeEnabled \in BOOLEAN
  /\ mWakeLock = TRUE
  /\ mEnabled = {} /\ registered = {} /\ awaited = {} /\ begun = {}
  /\ mSawNear = FALSE /\ mLastStowed = FALSE /\ stowedAge = IN_POCKET_MIN_TIME
  /\ dozeAge = DELAY_BETWEEN_DOZES + 1 /\ pulseAge = DELAY_BETWEEN_DOZES + 1
  /\ pulse = "none"

GNext == \/ ScreenChanges \/ onReceive \/ onSharedPreferenceChanged
        \/ DozeSettingChanges \/ Tick \/ onCreate
        \/ onTrigger
        \/ \E v \in BOOLEAN : proxChanged(v) \/ stowChanged(v)

GSpec == GInit /\ [][GNext]_gvars

-------------------------------------------------------------------------------
(* Properties.                                                             *)

\* Once the broadcasts are received, the service agrees with the screen however
\* preference changes fell between them: with the screen on it holds its wake
\* lock and listens to nothing; with the screen off it has let go of the lock
\* and listens to every sensor the settings ask for (LineageActionsService).
SettledWithScreen ==
  broadcasts = << >> =>
    /\ mWakeLock <=> interactive
    /\ interactive => registered = {}
    /\ ~ interactive => Wanted \subseteq registered

\* Two pulses are more than DELAY_BETWEEN_DOZES apart, whichever sensors send
\* them and whatever the screen and the settings do in between
\* (DozePulseAction.mayDoze).
PulsesApart == [][pulse' # "none" => pulseAge > DELAY_BETWEEN_DOZES]_gvars

\* A wave or a pick-up from the pocket begins with the hand near or the phone
\* stowed while the sensor is being listened to: what ProximitySensor and
\* StowSensor remember from before the screen was last on, and do not clear,
\* sends no pulse, because the first report falls into the delay that
\* DozePulseAction.screenTurnedOff starts.
GestureBegunInTheDark == pulse \in OnChange => pulse \in begun
=============================================================================
