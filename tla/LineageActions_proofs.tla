------------------------ MODULE LineageActions_proofs -------------------------
(***************************************************************************)
(* Proofs about the two halves of LineageActions: the doze gestures, for   *)
(* every delay between pulses, every time in the pocket and every number of *)
(* broadcasts in the queue; the gestures of the fingerprint sensor and the *)
(* torch, for every number of gestures and of callbacks on their way, and  *)
(* whatever actions the user has chosen.                                   *)
(***************************************************************************)
EXTENDS MCLineageActions, Integers, SequenceTheorems, TLAPS

-------------------------------------------------------------------------------
(* The doze gestures.                                                      *)

\* The last broadcast in the queue says what the screen is now.
LastBroadcast ==
  broadcasts # << >> => broadcasts[Len(broadcasts)] = interactive

\* A first report that is still owed falls into the delay after screen off, and
\* the delay is never shorter than the time since the last pulse.
DelayHolds ==
  /\ awaited # {} => dozeAge = 0
  /\ dozeAge <= pulseAge

\* What a sensor's listener remembers it has seen since it was registered, once
\* the first report has come.
Remembered ==
  /\ ("prox" \in mEnabled \ awaited /\ mSawNear) => "prox" \in begun
  /\ ("stow" \in mEnabled \ awaited /\ mLastStowed) => "stow" \in begun

DozeInv == GTypeOK /\ LastBroadcast /\ SettledWithScreen /\ DelayHolds
          /\ Remembered /\ GestureBegunInTheDark

-------------------------------------------------------------------------------
\* The invariant holds when the service starts.
LEMMA InitDozeInv == GInit => DozeInv
<1> SUFFICES ASSUME GInit PROVE DozeInv
  OBVIOUS
<1>1. broadcasts \in Seq(BOOLEAN) /\ Len(broadcasts) = 0
  BY EmptySeq DEF GInit
<1>2. GTypeOK
  <2>1. /\ Len(broadcasts) <= MaxBroadcasts
        /\ stowedAge \in 0 .. IN_POCKET_MIN_TIME
        /\ dozeAge \in 0 .. DELAY_BETWEEN_DOZES + 1
        /\ pulseAge \in 0 .. DELAY_BETWEEN_DOZES + 1
    BY <1>1, DozeConstants DEF GInit
  <2> QED
    BY <1>1, <2>1, Zenon DEF GInit, GTypeOK
<1>3. LastBroadcast /\ SettledWithScreen
  BY DEF GInit, LastBroadcast, SettledWithScreen
<1>4. DelayHolds /\ Remembered /\ GestureBegunInTheDark
  BY DozeConstants DEF GInit, DelayHolds, Remembered, GestureBegunInTheDark, OnChange
<1> QED
  BY <1>2, <1>3, <1>4 DEF DozeInv

\* The listeners only want sensors.
LEMMA WantedType == Wanted \in SUBSET Sensors
BY DEF Wanted, Sensors

\* Steps that leave the queue and the screen alone keep LastBroadcast.
LEMMA SameQueue ==
  ASSUME LastBroadcast, UNCHANGED <<interactive, broadcasts>>
  PROVE  LastBroadcast'
BY DEF LastBroadcast

\* The screen's part of the invariant is kept when the screen turns on or off.
LEMMA StepScreenChanges ==
  ASSUME DozeInv, ScreenChanges PROVE DozeInv'
<1> USE DozeConstants DEF DozeInv
<1>1. /\ broadcasts' \in Seq(BOOLEAN) /\ Len(broadcasts') = Len(broadcasts) + 1
      /\ broadcasts'[Len(broadcasts')] = ~ interactive
  BY AppendProperties DEF ScreenChanges, GTypeOK
<1>2. broadcasts' # << >>
  BY <1>1, EmptySeq DEF GTypeOK
<1>3. GTypeOK'
  BY <1>1 DEF GTypeOK, ScreenChanges, settings, gestures
<1>4. LastBroadcast' /\ SettledWithScreen'
  BY <1>1, <1>2 DEF LastBroadcast, SettledWithScreen, ScreenChanges
<1>5. DelayHolds' /\ Remembered' /\ GestureBegunInTheDark'
  BY DEF DelayHolds, Remembered, GestureBegunInTheDark, ScreenChanges, gestures,
         OnChange
<1> QED
  BY <1>3, <1>4, <1>5

\* What the service's screenTurnedOn keeps.
LEMMA TurnedOn ==
  ASSUME DozeInv, screenTurnedOn, UNCHANGED <<interactive, gestures, pulseAge>>,
         pulse' = "none"
  PROVE  /\ mWakeLock' = TRUE /\ mEnabled' = {} /\ registered' = {}
         /\ awaited' = {}
         /\ DelayHolds' /\ Remembered' /\ GestureBegunInTheDark'
BY DEF DozeInv, GTypeOK, screenTurnedOn, DelayHolds, Remembered,
       GestureBegunInTheDark, gestures, OnChange

\* What the service's screenTurnedOff keeps.
LEMMA TurnedOff ==
  ASSUME DozeInv, NEW wanted \in SUBSET Sensors, screenTurnedOff(wanted),
         UNCHANGED <<interactive, gestures, pulseAge>>, pulse' = "none"
  PROVE  /\ mWakeLock' = FALSE
         /\ mEnabled' \in SUBSET Sensors /\ registered' = mEnabled'
         /\ wanted \subseteq registered'
         /\ awaited' \in SUBSET (OnChange \cap mEnabled')
         /\ begun' \in SUBSET OnChange
         /\ dozeAge' = 0
         /\ DelayHolds' /\ Remembered' /\ GestureBegunInTheDark'
<1> USE DEF DozeInv, GTypeOK, screenTurnedOff, gestures
<1>1. /\ mWakeLock' = FALSE
      /\ mEnabled' \in SUBSET Sensors /\ registered' = mEnabled'
      /\ wanted \subseteq registered'
      /\ awaited' \in SUBSET (OnChange \cap mEnabled')
      /\ begun' \in SUBSET OnChange
      /\ dozeAge' = 0
  OBVIOUS
<1>2. DelayHolds' /\ GestureBegunInTheDark'
  BY DEF DelayHolds, GestureBegunInTheDark, OnChange
<1>3. Remembered'
  BY DEF Remembered, OnChange
<1> QED
  BY <1>1, <1>2, <1>3

\* A broadcast is received.
LEMMA StepOnReceive ==
  ASSUME DozeInv, onReceive PROVE DozeInv'
<1> USE DEF DozeInv
<1>1. /\ broadcasts \in Seq(BOOLEAN) /\ broadcasts # << >>
      /\ broadcasts' = Tail(broadcasts)
      /\ UNCHANGED <<interactive, settings, gestures, pulseAge>> /\ pulse' = "none"
  BY DEF onReceive, GTypeOK
<1>2. /\ broadcasts' \in Seq(BOOLEAN) /\ Len(broadcasts') = Len(broadcasts) - 1
      /\ \A i \in 1 .. Len(broadcasts') : broadcasts'[i] = broadcasts[i + 1]
      /\ Len(broadcasts) \in Nat
  BY <1>1, HeadTailProperties
<1>3. LastBroadcast'
  <2>1. CASE broadcasts' = << >>
    BY <2>1 DEF LastBroadcast
  <2>2. CASE broadcasts' # << >>
    <3>1. Len(broadcasts') # 0
      BY <1>2, <2>2, EmptySeq
    <3>2. broadcasts'[Len(broadcasts')] = broadcasts[Len(broadcasts)]
      BY <1>2, <3>1
    <3> QED
      BY <1>1, <3>2 DEF LastBroadcast
  <2> QED
    BY <2>1, <2>2
<1>4. broadcasts' = << >> => Head(broadcasts) = interactive
  <2> SUFFICES ASSUME broadcasts' = << >> PROVE Head(broadcasts) = interactive
    OBVIOUS
  <2>1. Len(broadcasts) = 1
    BY <1>2, EmptySeq
  <2> QED
    BY <1>1, <2>1 DEF LastBroadcast
<1>5. Wanted' = Wanted
  BY <1>1 DEF Wanted, isIrWakeupEnabled, isPickUpEnabled, settings
<1>6. CASE Head(broadcasts)
  <2>1. screenTurnedOn
    BY <1>6 DEF onReceive
  <2>2. /\ mWakeLock' = TRUE /\ mEnabled' = {} /\ registered' = {}
        /\ awaited' = {}
        /\ DelayHolds' /\ Remembered' /\ GestureBegunInTheDark'
    BY <1>1, <2>1, TurnedOn
  <2>3. SettledWithScreen'
    BY <1>1, <1>4, <1>6, <2>2 DEF SettledWithScreen, GTypeOK
  <2>4. GTypeOK'
    <3>1. Len(broadcasts') <= MaxBroadcasts
      BY <1>2, DozeConstants DEF GTypeOK
    <3>2. begun' = begun /\ dozeAge' = dozeAge
      BY <2>1 DEF screenTurnedOn
    <3> QED
      BY <1>1, <1>2, <2>2, <3>1, <3>2 DEF GTypeOK, settings, gestures
  <2> QED
    BY <1>3, <2>2, <2>3, <2>4
<1>7. CASE ~ Head(broadcasts)
  <2>1. screenTurnedOff(Wanted)
    BY <1>7 DEF onReceive
  <2>2. /\ mWakeLock' = FALSE
        /\ mEnabled' \in SUBSET Sensors /\ registered' = mEnabled'
        /\ Wanted \subseteq registered'
        /\ awaited' \in SUBSET (OnChange \cap mEnabled')
        /\ begun' \in SUBSET OnChange
        /\ dozeAge' = 0
        /\ DelayHolds' /\ Remembered' /\ GestureBegunInTheDark'
    BY <1>1, <2>1, TurnedOff, WantedType
  <2>3. SettledWithScreen'
    BY <1>1, <1>4, <1>5, <1>7, <2>2 DEF SettledWithScreen, GTypeOK
  <2>4. GTypeOK'
    <3>1. Len(broadcasts') <= MaxBroadcasts
      BY <1>2, DozeConstants DEF GTypeOK
    <3>2. dozeAge' \in 0 .. DELAY_BETWEEN_DOZES + 1
      BY <2>2, DozeConstants
    <3> QED
      BY <1>1, <1>2, <2>2, <3>1, <3>2 DEF GTypeOK, settings, gestures
  <2> QED
    BY <1>3, <2>2, <2>3, <2>4
<1> QED
  BY <1>6, <1>7

\* A preference changes.
LEMMA StepPreferences ==
  ASSUME DozeInv, onSharedPreferenceChanged PROVE DozeInv'
<1> USE DEF DozeInv
<1>1. /\ UNCHANGED <<interactive, broadcasts, gestures, pulseAge>>
      /\ pulse' = "none" /\ updateState
      /\ mPickUpGestureEnabled' \in BOOLEAN /\ mIrWakeUpEnabled' \in BOOLEAN
      /\ dozeEnabled' \in BOOLEAN
  BY DEF onSharedPreferenceChanged, GTypeOK
<1>2. LastBroadcast'
  BY <1>1, SameQueue
<1>3. CASE interactive
  <2>1. screenTurnedOn
    BY <1>1, <1>3 DEF updateState
  <2>2. /\ mWakeLock' = TRUE /\ mEnabled' = {} /\ registered' = {}
        /\ awaited' = {}
        /\ DelayHolds' /\ Remembered' /\ GestureBegunInTheDark'
    BY <1>1, <2>1, TurnedOn
  <2>3. SettledWithScreen'
    BY <1>1, <1>3, <2>2 DEF SettledWithScreen
  <2>4. GTypeOK'
    BY <1>1, <2>1, <2>2 DEF GTypeOK, gestures, screenTurnedOn
  <2> QED
    BY <1>2, <2>2, <2>3, <2>4
<1>4. CASE ~ interactive
  <2>1. screenTurnedOff(Wanted') /\ Wanted' \in SUBSET Sensors
    BY <1>1, <1>4 DEF updateState, Wanted, Sensors
  <2>2. /\ mWakeLock' = FALSE
        /\ mEnabled' \in SUBSET Sensors /\ registered' = mEnabled'
        /\ Wanted' \subseteq registered'
        /\ awaited' \in SUBSET (OnChange \cap mEnabled')
        /\ begun' \in SUBSET OnChange
        /\ dozeAge' = 0
        /\ DelayHolds' /\ Remembered' /\ GestureBegunInTheDark'
    BY <1>1, <2>1, TurnedOff
  <2>3. SettledWithScreen'
    BY <1>1, <1>4, <2>2 DEF SettledWithScreen
  <2>4. GTypeOK'
    <3>1. dozeAge' \in 0 .. DELAY_BETWEEN_DOZES + 1
      BY <2>2, DozeConstants
    <3> QED
      BY <1>1, <2>2, <3>1 DEF GTypeOK, gestures
  <2> QED
    BY <1>2, <2>2, <2>3, <2>4
<1> QED
  BY <1>3, <1>4

\* A gesture's action keeps the delays: it sends a pulse only when both have run
\* out, which no sensor that owes its first report can bring about.
LEMMA MayDoze ==
  ASSUME DozeInv, NEW g \in Sensors, mayDoze(g)
  PROVE  /\ dozeAge' \in 0 .. DELAY_BETWEEN_DOZES + 1
         /\ pulseAge' \in 0 .. DELAY_BETWEEN_DOZES + 1
         /\ dozeAge' <= pulseAge'
         /\ dozeAge = 0 => dozeAge' = 0
         /\ pulse' \in {g, "none"}
         /\ pulse' # "none" => awaited = {} /\ pulseAge > DELAY_BETWEEN_DOZES
<1> USE DozeConstants DEF DozeInv, GTypeOK, DelayHolds, mayDoze
<1>1. CASE dozeAge > DELAY_BETWEEN_DOZES
  BY <1>1
<1>2. CASE ~ (dozeAge > DELAY_BETWEEN_DOZES)
  BY <1>2
<1> QED
  BY <1>1, <1>2

\* A glance gesture.
LEMMA StepTrigger ==
  ASSUME DozeInv, onTrigger PROVE DozeInv'
<1> USE DEF DozeInv
<1>1. mayDoze("glance") /\ "glance" \in Sensors
  BY DEF onTrigger, Sensors
<1>2. /\ dozeAge' \in 0 .. DELAY_BETWEEN_DOZES + 1
      /\ pulseAge' \in 0 .. DELAY_BETWEEN_DOZES + 1
      /\ dozeAge' <= pulseAge'
      /\ dozeAge = 0 => dozeAge' = 0
      /\ pulse' \in {"glance", "none"}
  BY <1>1, MayDoze
<1>3. GTypeOK'
  BY <1>2, <1>1 DEF GTypeOK, onTrigger, settings, gestures
<1>4. LastBroadcast'
  BY SameQueue DEF onTrigger
<1>5. SettledWithScreen'
  BY DEF SettledWithScreen, onTrigger, Wanted, isIrWakeupEnabled, isPickUpEnabled,
         settings
<1>6. DelayHolds'
  BY <1>2 DEF DelayHolds, onTrigger
<1>7. Remembered'
  BY DEF Remembered, onTrigger, gestures
<1>8. GestureBegunInTheDark'
  BY <1>2 DEF GestureBegunInTheDark, OnChange
<1> QED
  BY <1>3, <1>4, <1>5, <1>6, <1>7, <1>8

\* A report of the proximity sensor.
LEMMA StepProx ==
  ASSUME DozeInv, NEW v \in BOOLEAN, proxChanged(v) PROVE DozeInv'
<1> USE DEF DozeInv
<1>1. /\ dozeAge' \in 0 .. DELAY_BETWEEN_DOZES + 1
      /\ pulseAge' \in 0 .. DELAY_BETWEEN_DOZES + 1
      /\ dozeAge' <= pulseAge'
      /\ dozeAge = 0 => dozeAge' = 0
      /\ pulse' \in {"prox", "none"}
      /\ pulse' = "prox" => mSawNear /\ awaited = {}
  <2>1. CASE mSawNear /\ ~ v
    <3>1. mayDoze("prox") /\ "prox" \in Sensors
      BY <2>1 DEF proxChanged, Sensors
    <3> QED
      BY <2>1, <3>1, MayDoze
  <2>2. CASE ~ (mSawNear /\ ~ v)
    BY <2>2 DEF proxChanged, NoPulse, GTypeOK, DelayHolds
  <2> QED
    BY <2>1, <2>2
<1>2. GTypeOK'
  BY <1>1 DEF GTypeOK, proxChanged, settings, OnChange, Sensors
<1>3. LastBroadcast'
  BY SameQueue DEF proxChanged
<1>4. SettledWithScreen'
  BY DEF SettledWithScreen, proxChanged, Wanted, isIrWakeupEnabled, isPickUpEnabled,
         settings
<1>5. DelayHolds'
  BY <1>1 DEF DelayHolds, proxChanged
<1>6. Remembered'
  BY DEF Remembered, proxChanged
<1>7. GestureBegunInTheDark'
  BY <1>1 DEF GestureBegunInTheDark, Remembered, proxChanged, OnChange, GTypeOK
<1> QED
  BY <1>2, <1>3, <1>4, <1>5, <1>6, <1>7

\* A report of the stow sensor.
LEMMA StepStow ==
  ASSUME DozeInv, NEW v \in BOOLEAN, stowChanged(v) PROVE DozeInv'
<1> USE DEF DozeInv
<1>1. /\ dozeAge' \in 0 .. DELAY_BETWEEN_DOZES + 1
      /\ pulseAge' \in 0 .. DELAY_BETWEEN_DOZES + 1
      /\ dozeAge' <= pulseAge'
      /\ dozeAge = 0 => dozeAge' = 0
      /\ pulse' \in {"stow", "none"}
      /\ pulse' = "stow" => mLastStowed /\ awaited = {}
  <2> DEFINE Out == mLastStowed /\ ~ v /\ stowedAge >= IN_POCKET_MIN_TIME
  <2>1. CASE Out
    <3>1. mayDoze("stow") /\ "stow" \in Sensors
      BY <2>1 DEF stowChanged, Sensors
    <3> QED
      BY <2>1, <3>1, MayDoze
  <2>2. CASE ~ Out
    BY <2>2 DEF stowChanged, NoPulse, GTypeOK, DelayHolds
  <2> QED
    BY <2>1, <2>2
<1>2. stowedAge' \in 0 .. IN_POCKET_MIN_TIME
  BY DozeConstants DEF GTypeOK, stowChanged
<1>3. GTypeOK'
  BY <1>1, <1>2 DEF GTypeOK, stowChanged, settings, OnChange, Sensors
<1>4. LastBroadcast'
  BY SameQueue DEF stowChanged
<1>5. SettledWithScreen'
  BY DEF SettledWithScreen, stowChanged, Wanted, isIrWakeupEnabled, isPickUpEnabled,
         settings
<1>6. DelayHolds'
  BY <1>1 DEF DelayHolds, stowChanged
<1>7. Remembered'
  BY DEF Remembered, stowChanged
<1>8. GestureBegunInTheDark'
  BY <1>1 DEF GestureBegunInTheDark, Remembered, stowChanged, OnChange, GTypeOK
<1> QED
  BY <1>3, <1>4, <1>5, <1>6, <1>7, <1>8

\* The user changes the system's doze setting, with the screen on.
LEMMA StepDozeSetting ==
  ASSUME DozeInv, DozeSettingChanges PROVE DozeInv'
<1> USE DEF DozeInv
<1>1. GTypeOK'
  BY DEF GTypeOK, DozeSettingChanges, gestures
<1>2. LastBroadcast'
  BY SameQueue DEF DozeSettingChanges
<1>3. SettledWithScreen'
  BY DEF SettledWithScreen, DozeSettingChanges
<1>4. DelayHolds' /\ Remembered' /\ GestureBegunInTheDark'
  BY DEF DelayHolds, Remembered, GestureBegunInTheDark, DozeSettingChanges,
         gestures, OnChange
<1> QED
  BY <1>1, <1>2, <1>3, <1>4

\* A tick passes.
LEMMA StepTick ==
  ASSUME DozeInv, Tick PROVE DozeInv'
<1> USE DEF DozeInv
<1>1. /\ stowedAge' \in 0 .. IN_POCKET_MIN_TIME
      /\ dozeAge' \in 0 .. DELAY_BETWEEN_DOZES + 1
      /\ pulseAge' \in 0 .. DELAY_BETWEEN_DOZES + 1
      /\ dozeAge' <= pulseAge'
  BY DozeConstants DEF GTypeOK, DelayHolds, Tick, Older
<1>2. GTypeOK'
  BY <1>1 DEF GTypeOK, Tick, settings
<1>3. LastBroadcast'
  BY SameQueue DEF Tick
<1>4. SettledWithScreen'
  BY DEF SettledWithScreen, Tick, Wanted, isIrWakeupEnabled, isPickUpEnabled,
         settings
<1>5. DelayHolds' /\ Remembered' /\ GestureBegunInTheDark'
  BY <1>1 DEF DelayHolds, Remembered, GestureBegunInTheDark, Tick, OnChange
<1> QED
  BY <1>2, <1>3, <1>4, <1>5

\* The service is started again after its process died.
LEMMA StepCreate ==
  ASSUME DozeInv, onCreate PROVE DozeInv'
<1> USE DEF DozeInv
<1>1. broadcasts' = << >> /\ broadcasts' \in Seq(BOOLEAN) /\ Len(broadcasts') = 0
  BY EmptySeq DEF onCreate
<1>2. /\ stowedAge' \in 0 .. IN_POCKET_MIN_TIME
      /\ dozeAge' \in 0 .. DELAY_BETWEEN_DOZES + 1
      /\ pulseAge' = DELAY_BETWEEN_DOZES + 1
      /\ pulseAge' \in 0 .. DELAY_BETWEEN_DOZES + 1
      /\ dozeAge' <= pulseAge'
      /\ Len(broadcasts') <= MaxBroadcasts
  BY <1>1, DozeConstants DEF onCreate
<1>3. GTypeOK'
  BY <1>1, <1>2, WantedType DEF GTypeOK, onCreate, settings, OnChange, Sensors
<1>4. LastBroadcast' /\ SettledWithScreen'
  BY <1>1 DEF LastBroadcast, SettledWithScreen, onCreate, Wanted,
         isIrWakeupEnabled, isPickUpEnabled, settings, GTypeOK
<1>5. awaited' # {} => dozeAge' = 0
  BY DEF onCreate
<1>6. DelayHolds' /\ Remembered' /\ GestureBegunInTheDark'
  BY <1>2, <1>5 DEF DelayHolds, Remembered, GestureBegunInTheDark, onCreate, OnChange
<1> QED
  BY <1>3, <1>4, <1>6

\* A step that changes nothing.
LEMMA StepStutter ==
  ASSUME DozeInv, UNCHANGED gvars PROVE DozeInv'
BY DEF gvars, settings, gestures, DozeInv, GTypeOK, LastBroadcast, SettledWithScreen,
       DelayHolds, Remembered, GestureBegunInTheDark, Wanted, isIrWakeupEnabled,
       isPickUpEnabled

-------------------------------------------------------------------------------
LEMMA StepDozeInv == DozeInv /\ [GNext]_gvars => DozeInv'
  BY StepScreenChanges, StepOnReceive, StepPreferences, StepDozeSetting,
     StepTick, StepCreate, StepTrigger, StepProx, StepStow, StepStutter DEF GNext

\* The invariant holds in every state of the doze gestures.
THEOREM DozeInvariance == GSpec => []DozeInv
  BY InitDozeInv, StepDozeInv, PTL DEF GSpec

\* The listeners' variables keep their types, and what the listeners believe to
\* be registered is what SensorManager has.
THEOREM DozeType == GSpec => []GTypeOK
BY DozeInvariance, PTL DEF DozeInv

\* Once the broadcasts are received, wake lock and sensors agree with the screen
\* (LineageActionsService.updateState, screenTurnedOn, screenTurnedOff).
THEOREM DozeSettled == GSpec => []SettledWithScreen
BY DozeInvariance, PTL DEF DozeInv

\* No pulse for a wave or a pick-up that began before the sensor was listened to.
THEOREM DozeGesturesBegun == GSpec => []GestureBegunInTheDark
BY DozeInvariance, PTL DEF DozeInv

\* Two pulses are more than DELAY_BETWEEN_DOZES apart (DozePulseAction.mayDoze).
THEOREM DozePulsesApart == GSpec => PulsesApart
<1> DEFINE Apart == pulse' # "none" => pulseAge > DELAY_BETWEEN_DOZES
<1>1. ASSUME DozeInv, GNext PROVE Apart
  <2>1. CASE ScreenChanges \/ onReceive \/ onSharedPreferenceChanged
               \/ DozeSettingChanges \/ Tick \/ onCreate
    BY <2>1 DEF ScreenChanges, onReceive, onSharedPreferenceChanged,
                DozeSettingChanges, Tick, onCreate
  <2>2. CASE onTrigger
    <3>1. mayDoze("glance") /\ "glance" \in Sensors
      BY <2>2 DEF onTrigger, Sensors
    <3> QED
      BY <1>1, <3>1, MayDoze
  <2>3. ASSUME NEW v \in BOOLEAN, proxChanged(v) PROVE Apart
    <3>1. (mayDoze("prox") \/ NoPulse) /\ "prox" \in Sensors
      BY <2>3 DEF proxChanged, Sensors
    <3> QED
      BY <1>1, <3>1, MayDoze DEF NoPulse
  <2>4. ASSUME NEW v \in BOOLEAN, stowChanged(v) PROVE Apart
    <3>1. (mayDoze("stow") \/ NoPulse) /\ "stow" \in Sensors
      BY <2>4 DEF stowChanged, Sensors
    <3> QED
      BY <1>1, <3>1, MayDoze DEF NoPulse
  <2> QED
    BY <1>1, <2>1, <2>2, <2>3, <2>4 DEF GNext
<1>2. ASSUME DozeInv, [GNext]_gvars PROVE [Apart]_gvars
  BY <1>1, <1>2
<1> QED
  BY <1>2, DozeInvariance, PTL DEF GSpec, PulsesApart

-------------------------------------------------------------------------------
(* The fingerprint sensor and the torch.                                   *)

\* The last callback on its way to a client tells the torch's state, and a client
\* to which none is on its way knows it, once it knows the camera.
LastCallback ==
  \A c \in Clients :
    /\ callbacks[c] # << >> => callbacks[c][Len(callbacks[c])] = torch
    /\ (c \in mRearCameraId /\ callbacks[c] = << >>) => mTorchEnabled[c] = torch

\* Before it knows the camera a client takes the torch to be off, as it is while
\* the camera is in use.
DarkWhenUnavailable ==
  /\ cameraInUse => torch = FALSE
  /\ \A c \in Clients \ mRearCameraId : mTorchEnabled[c] = FALSE

\* No callback is on its way to a client that has registered none.
Unheard == \A c \in Clients \ Listening : callbacks[c] = << >>

TorchInv == TorchTypeOK /\ LastCallback /\ DarkWhenUnavailable /\ Unheard

-------------------------------------------------------------------------------
(* The torch.                                                              *)

\* Appending a torch state to a queue makes it the last one.
LEMMA SentLast ==
  ASSUME NEW q \in [Clients -> Seq(BOOLEAN)], NEW S, NEW on \in BOOLEAN,
         NEW c \in Clients
  PROVE  /\ Sent(q, S, on) \in [Clients -> Seq(BOOLEAN)]
         /\ c \in S => /\ Sent(q, S, on)[c] # << >>
                       /\ Sent(q, S, on)[c][Len(Sent(q, S, on)[c])] = on
         /\ c \notin S => Sent(q, S, on)[c] = q[c]
<1>1. \A d \in Clients : /\ Append(q[d], on) \in Seq(BOOLEAN)
                         /\ Append(q[d], on) # << >>
                         /\ Append(q[d], on)[Len(Append(q[d], on))] = on
  <2> TAKE d \in Clients
  <2>1. q[d] \in Seq(BOOLEAN)
    OBVIOUS
  <2>2. /\ Append(q[d], on) \in Seq(BOOLEAN)
        /\ Len(Append(q[d], on)) = Len(q[d]) + 1
        /\ Append(q[d], on)[Len(q[d]) + 1] = on
    BY <2>1, AppendProperties
  <2>3. Len(q[d]) \in Nat
    BY <2>1, LenProperties
  <2>4. Append(q[d], on) # << >>
    <3>1. Len(Append(q[d], on)) # 0
      BY <2>2, <2>3
    <3> QED
      BY <2>2, <3>1, EmptySeq
  <2> QED
    BY <2>2, <2>4
<1> QED
  BY <1>1 DEF Sent

\* The initial state.
LEMMA TorchInitInv == TorchInit => TorchInv
BY EmptySeq DEF TorchInit, TorchInv, TorchTypeOK, LastCallback,
                DarkWhenUnavailable, Unheard, Clients

\* What a client's toggle keeps, where it sends its callbacks after q.
LEMMA SetTorchModeInv ==
  ASSUME TorchInv, NEW c \in Clients, NEW q \in [Clients -> Seq(BOOLEAN)],
         mRearCameraId' = mRearCameraId \cup {c}, UNCHANGED cameraInUse,
         q[c] # << >> => q[c][Len(q[c])] = torch,
         q[c] = << >> => callbacks[c] = << >>,
         \A d \in Clients \ {c} : q[d] = callbacks[d],
         setTorchMode(c, q)
  PROVE  TorchInv'
<1> USE DEF TorchInv
<1>1. CASE cameraInUse
  <2>1. torch = FALSE /\ torch' = FALSE /\ mTorchEnabled' = mTorchEnabled
          /\ callbacks' = q
    BY <1>1 DEF setTorchMode, DarkWhenUnavailable
  <2>2. TorchTypeOK'
    BY <2>1 DEF TorchTypeOK
  <2>3. LastCallback'
    <3> SUFFICES ASSUME NEW d \in Clients
                 PROVE  /\ q[d] # << >> => q[d][Len(q[d])] = torch
                        /\ (d \in mRearCameraId \cup {c} /\ q[d] = << >>)
                             => mTorchEnabled[d] = torch
      BY <2>1 DEF LastCallback
    <3>1. d \notin mRearCameraId => mTorchEnabled[d] = torch
      BY <2>1 DEF DarkWhenUnavailable
    <3> QED
      BY <3>1 DEF LastCallback
  <2>4. DarkWhenUnavailable'
    BY <2>1 DEF DarkWhenUnavailable
  <2>5. Unheard'
    BY <2>1 DEF Unheard, Listening
  <2> QED
    BY <2>2, <2>3, <2>4, <2>5
<1>2. CASE ~ cameraInUse
  <2>1. /\ torch' = ~ mTorchEnabled[c]
        /\ mTorchEnabled' = [mTorchEnabled EXCEPT ![c] = ~ @]
        /\ callbacks' = IF torch' # torch THEN Sent(q, Listening', torch') ELSE q
    BY <1>2 DEF setTorchMode
  <2>2. torch' \in BOOLEAN /\ mTorchEnabled' \in [Clients -> BOOLEAN]
    BY <2>1 DEF TorchTypeOK
  <2>3. Listening' = {"keys"} \cup mRearCameraId \cup {c}
    BY DEF Listening
  <2>4. TorchTypeOK'
    <3>1. callbacks' \in [Clients -> Seq(BOOLEAN)]
      BY <2>1, <2>2, SentLast
    <3> QED
      BY <2>2, <3>1 DEF TorchTypeOK
  <2>5. mTorchEnabled'[c] = torch'
          /\ \A d \in Clients \ {c} : mTorchEnabled'[d] = mTorchEnabled[d]
    BY <2>1 DEF TorchTypeOK
  <2>6. LastCallback'
    <3> SUFFICES ASSUME NEW d \in Clients
                 PROVE  /\ callbacks'[d] # << >>
                             => callbacks'[d][Len(callbacks'[d])] = torch'
                        /\ (d \in mRearCameraId' /\ callbacks'[d] = << >>)
                             => mTorchEnabled'[d] = torch'
      BY DEF LastCallback
    <3>1. CASE torch' = torch
      BY <2>1, <2>5, <3>1 DEF LastCallback
    <3>2. CASE torch' # torch /\ d \in Listening'
      <4>1. callbacks' = Sent(q, Listening', torch')
        BY <2>1, <3>2
      <4>2. /\ callbacks'[d] # << >>
            /\ callbacks'[d][Len(callbacks'[d])] = torch'
        BY <2>2, <3>2, <4>1, SentLast
      <4> QED
        BY <4>2
    <3>3. CASE torch' # torch /\ d \notin Listening'
      <4>0. callbacks' = Sent(q, Listening', torch')
        BY <2>1, <3>3
      <4>1. callbacks'[d] = q[d]
        BY <2>2, <3>3, <4>0, SentLast
      <4>2. q[d] = << >>
        BY <2>3, <3>3 DEF Unheard, Listening
      <4> QED
        BY <2>3, <3>3, <4>1, <4>2
    <3> QED
      BY <3>1, <3>2, <3>3
  <2>7. DarkWhenUnavailable'
    BY <1>2, <2>5 DEF DarkWhenUnavailable
  <2>8. Unheard'
    <3> SUFFICES ASSUME NEW d \in Clients \ Listening' PROVE callbacks'[d] = << >>
      BY DEF Unheard
    <3>1. q[d] = << >>
      BY <2>3 DEF Unheard, Listening
    <3>2. Sent(q, Listening', torch')[d] = q[d]
      BY <2>2, SentLast
    <3> QED
      BY <2>1, <3>1, <3>2
  <2> QED
    BY <2>4, <2>6, <2>7, <2>8
<1> QED
  BY <1>1, <1>2

\* KeyHandler's toggle keeps the invariant.
LEMMA ToggleInv == ASSUME TorchInv, toggleFlashlight PROVE TorchInv'
<1>1. callbacks \in [Clients -> Seq(BOOLEAN)]
        /\ \A d \in Clients : callbacks[d] # << >>
                               => callbacks[d][Len(callbacks[d])] = torch
  BY DEF TorchInv, TorchTypeOK, LastCallback
<1>2. "keys" \in Clients
  BY DEF Clients
<1>3. /\ mRearCameraId' = mRearCameraId \cup {"keys"} /\ UNCHANGED cameraInUse
      /\ setTorchMode("keys", callbacks)
  BY DEF toggleFlashlight
<1> QED
  BY <1>1, <1>2, <1>3, SetTorchModeInv

\* So does a chop, which registers a callback first.
LEMMA ChopInv == ASSUME TorchInv, TorchAction PROVE TorchInv'
<1> DEFINE q == Sent(callbacks, {"chop"}, torch)
<1>1. "chop" \in Clients /\ torch \in BOOLEAN
        /\ callbacks \in [Clients -> Seq(BOOLEAN)]
  BY DEF Clients, TorchInv, TorchTypeOK
<1>2. /\ q \in [Clients -> Seq(BOOLEAN)]
      /\ q["chop"] # << >> /\ q["chop"][Len(q["chop"])] = torch
      /\ \A d \in Clients \ {"chop"} : q[d] = callbacks[d]
  <2>1. ASSUME NEW d \in Clients \ {"chop"} PROVE q[d] = callbacks[d]
    BY <1>1 DEF Sent
  <2> QED
    BY <1>1, <2>1, SentLast
<1>3. /\ mRearCameraId' = mRearCameraId \cup {"chop"} /\ UNCHANGED cameraInUse
      /\ setTorchMode("chop", q)
  BY DEF TorchAction
<1> HIDE DEF q
<1> QED
  BY <1>1, <1>2, <1>3, SetTorchModeInv

\* A change that the service reports to every listener keeps the invariant.
LEMMA ReportedInv ==
  ASSUME TorchInv, torch' \in BOOLEAN, cameraInUse' \in BOOLEAN,
         cameraInUse' => torch' = FALSE,
         callbacks' = Sent(callbacks, Listening, torch'),
         UNCHANGED <<mRearCameraId, mTorchEnabled>>
  PROVE  TorchInv'
<1> USE DEF TorchInv
<1>1. callbacks \in [Clients -> Seq(BOOLEAN)]
  BY DEF TorchTypeOK
<1>2. callbacks' \in [Clients -> Seq(BOOLEAN)]
  <2>1. "keys" \in Clients
    BY DEF Clients
  <2> QED
    BY <1>1, <2>1, SentLast
<1>3. TorchTypeOK'
  BY <1>2 DEF TorchTypeOK
<1>4. LastCallback'
  <2> SUFFICES ASSUME NEW d \in Clients
               PROVE  /\ callbacks'[d] # << >>
                           => callbacks'[d][Len(callbacks'[d])] = torch'
                      /\ (d \in mRearCameraId' /\ callbacks'[d] = << >>)
                           => mTorchEnabled'[d] = torch'
    BY DEF LastCallback
  <2>1. CASE d \in Listening
    BY <1>1, <2>1, SentLast
  <2>2. CASE d \notin Listening
    BY <1>1, <2>2, SentLast DEF Unheard, Listening
  <2> QED
    BY <2>1, <2>2
<1>5. DarkWhenUnavailable'
  BY DEF DarkWhenUnavailable
<1>6. Unheard'
  <2> SUFFICES ASSUME NEW d \in Clients \ Listening PROVE callbacks'[d] = << >>
    BY DEF Unheard, Listening
  <2> QED
    BY <1>1, SentLast DEF Unheard
<1> QED
  BY <1>3, <1>4, <1>5, <1>6

\* Receiving a callback keeps the invariant: the last one tells the truth.
LEMMA CallbackInv ==
  ASSUME TorchInv, NEW c \in Clients, onTorchModeChanged(c)
  PROVE  TorchInv'
<1> USE DEF TorchInv
<1> DEFINE q == callbacks[c]
<1>1. q \in Seq(BOOLEAN) /\ q # << >>
  BY DEF TorchTypeOK, onTorchModeChanged
<1>2. /\ Head(q) \in BOOLEAN /\ Tail(q) \in Seq(BOOLEAN) /\ Head(q) = q[1]
      /\ Len(q) \in Nat /\ Len(q) > 0 /\ Len(Tail(q)) = Len(q) - 1
      /\ Tail(q) # << >> => Tail(q)[Len(Tail(q))] = q[Len(q)]
      /\ Tail(q) = << >> => Len(q) = 1
  <2>1. Len(q) \in Nat /\ Len(q) # 0
    BY <1>1, EmptySeq, LenProperties
  <2>2. /\ Tail(q) \in Seq(BOOLEAN) /\ Head(q) \in BOOLEAN /\ Head(q) = q[1]
        /\ Len(Tail(q)) = Len(q) - 1
        /\ \A i \in 1 .. Len(Tail(q)) : Tail(q)[i] = q[i + 1]
    <3>1. Head(q) = q[1]
      BY <1>1
    <3> HIDE DEF q
    <3> QED
      BY <1>1, <3>1, HeadTailProperties
  <2>3. Tail(q) # << >> => Len(Tail(q)) # 0
    BY <2>2, EmptySeq
  <2>4. Tail(q) = << >> => Len(Tail(q)) = 0
    BY EmptySeq
  <2> QED
    BY <2>1, <2>2, <2>3, <2>4
<1>3. /\ callbacks' = [callbacks EXCEPT ![c] = Tail(q)]
      /\ mTorchEnabled' = IF c \in mRearCameraId
                          THEN [mTorchEnabled EXCEPT ![c] = Head(q)]
                          ELSE mTorchEnabled
      /\ UNCHANGED <<torch, cameraInUse, mRearCameraId>>
  BY DEF onTorchModeChanged
<1>4. q[Len(q)] = torch
  BY <1>1 DEF LastCallback
<1> HIDE DEF q
<1>5. callbacks'[c] = Tail(q) /\ \A d \in Clients \ {c} :
         callbacks'[d] = callbacks[d] /\ mTorchEnabled'[d] = mTorchEnabled[d]
  BY <1>3 DEF TorchTypeOK
<1>6. TorchTypeOK'
  BY <1>2, <1>3 DEF TorchTypeOK
<1>7. (c \in mRearCameraId => mTorchEnabled'[c] = Head(q))
        /\ (c \notin mRearCameraId => mTorchEnabled'[c] = mTorchEnabled[c])
  BY <1>3 DEF TorchTypeOK
<1>8. LastCallback'
  <2> SUFFICES ASSUME NEW d \in Clients
               PROVE  /\ callbacks'[d] # << >>
                           => callbacks'[d][Len(callbacks'[d])] = torch'
                      /\ (d \in mRearCameraId' /\ callbacks'[d] = << >>)
                           => mTorchEnabled'[d] = torch'
    BY DEF LastCallback
  <2>1. CASE d = c
    BY <1>2, <1>3, <1>4, <1>5, <1>7, <2>1
  <2>2. CASE d # c
    BY <1>3, <1>5, <2>2 DEF LastCallback
  <2> QED
    BY <2>1, <2>2
<1>9. DarkWhenUnavailable'
  BY <1>3, <1>5, <1>7 DEF DarkWhenUnavailable
<1>10. Unheard'
  BY <1>1, <1>3, <1>5 DEF Unheard, Listening, q
<1> QED
  BY <1>6, <1>8, <1>9, <1>10

\* Every step of the torch's own keeps the invariant.
LEMMA TorchNextInv == ASSUME TorchInv, TorchNext PROVE TorchInv'
<1>1. CASE OtherTorch
  <2>1. torch' \in BOOLEAN /\ cameraInUse' \in BOOLEAN
          /\ (cameraInUse' => torch' = FALSE)
    BY <1>1 DEF OtherTorch, TorchInv, TorchTypeOK
  <2> QED
    BY <1>1, <2>1, ReportedInv DEF OtherTorch
<1>2. CASE CameraUsed
  <2>1. torch' = FALSE /\ cameraInUse' \in BOOLEAN
    BY <1>2 DEF CameraUsed, TorchInv, TorchTypeOK
  <2>2. callbacks' = Sent(callbacks, Listening, torch')
          /\ UNCHANGED <<mRearCameraId, mTorchEnabled>>
    BY <1>2, <2>1 DEF CameraUsed
  <2> QED
    BY <2>1, <2>2, ReportedInv
<1>3. CASE TorchAction
  BY <1>3, ChopInv
<1>4. ASSUME NEW c \in Clients, onTorchModeChanged(c) PROVE TorchInv'
  BY <1>4, CallbackInv
<1> QED
  BY <1>1, <1>2, <1>3, <1>4 DEF TorchNext

\* Steps that leave the torch alone.
LEMMA TorchSame == ASSUME TorchInv, UNCHANGED torchvars PROVE TorchInv'
BY DEF TorchInv, torchvars, TorchTypeOK, LastCallback, DarkWhenUnavailable,
       Unheard, Listening

-------------------------------------------------------------------------------
(* The gestures.                                                           *)

KeyInv == TypeOK /\ ActionsEarned /\ TorchInv

\* The taps have their types, and at most n more may act than could before.
TapsGain(n) ==
  /\ fpTapCounts' \in Nat /\ fpTapPending' \in BOOLEAN /\ tapPosts' \in Nat
  /\ isScreenOn' \in BOOLEAN
  /\ TorchInv'
  /\ fired' \in Nat
  /\ fired' + tapPosts' <= fired + tapPosts + n

\* Sums that the steps compare.
LEMMA SumKept ==
  ASSUME NEW f \in Nat, NEW t \in Nat, NEW f1 \in Nat, NEW t1 \in Nat,
         f1 <= f, t1 <= t
  PROVE  f1 + t1 <= f + t + 0
OBVIOUS

LEMMA SumMoved ==
  ASSUME NEW f \in Nat, NEW t \in Nat, NEW f1 \in Nat, f1 <= f + 1, t > 0
  PROVE  t - 1 \in Nat /\ f1 + (t - 1) <= f + t + 0
OBVIOUS

LEMMA SumMore ==
  ASSUME NEW f \in Nat, NEW t \in Nat, NEW f1 \in Nat, NEW t1 \in Nat,
         f1 + t1 <= f + t + 0
  PROVE  f1 + t1 <= f + t + 1
OBVIOUS

LEMMA SumEarned ==
  ASSUME NEW f \in Nat, NEW t \in Nat, NEW f1 \in Nat, NEW t1 \in Nat,
         NEW l \in Nat, NEW l1 \in Nat, NEW a \in Int, NEW a1 \in Int,
         NEW n \in Nat,
         f1 + t1 <= f + t + n, f + l + t <= a, n + l1 + a <= a1 + l
  PROVE  f1 + l1 + t1 <= a1
OBVIOUS

\* Firing an action, or none.
LEMMA FireGain ==
  ASSUME KeyInv, NEW action, fireIfSupported(action)
  PROVE  /\ isScreenOn' \in BOOLEAN /\ TorchInv'
         /\ fired' \in Nat /\ fired' <= fired + 1
<1>1. CASE fireFPAction(action)
  <2>1. TorchInv'
    <3>1. CASE toggleFlashlight
      BY <3>1, ToggleInv DEF KeyInv
    <3>2. CASE UNCHANGED torchvars
      BY <3>2, TorchSame DEF KeyInv
    <3> QED
      BY <1>1, <3>1, <3>2 DEF fireFPAction
  <2>2. isScreenOn' \in BOOLEAN
    BY <1>1 DEF fireFPAction, KeyInv, TypeOK
  <2>3. fired' \in Nat /\ fired' <= fired + 1
    BY <1>1 DEF fireFPAction, KeyInv, TypeOK
  <2> QED
    BY <2>1, <2>2, <2>3
<1>2. CASE NoAction
  BY <1>2, TorchSame DEF NoAction, KeyInv, TypeOK
<1> QED
  BY <1>1, <1>2 DEF fireIfSupported

\* The double-tap detector, with no action.
LEMMA DetectGain == ASSUME KeyInv, detectDoubleTapOnFP, NoAction PROVE TapsGain(1)
<1>1. TorchInv'
  BY TorchSame DEF NoAction, KeyInv
<1> QED
  BY <1>1 DEF TapsGain, detectDoubleTapOnFP, NoAction, KeyInv, TypeOK

\* What resetting or keeping the taps does.
LEMMA TapsLeft ==
  ASSUME KeyInv, resetDoubleTapOnFP \/ UNCHANGED taps
  PROVE  /\ fpTapCounts' \in Nat /\ fpTapPending' \in BOOLEAN
         /\ tapPosts' \in Nat /\ tapPosts' <= tapPosts
<1>0. fpTapCounts \in Nat /\ fpTapPending \in BOOLEAN /\ tapPosts \in Nat
  BY DEF KeyInv, TypeOK
<1>1. CASE resetDoubleTapOnFP
  <2>1. fpTapCounts' = 0 /\ tapPosts' = 0 /\ fpTapPending' = FALSE
    BY <1>1 DEF resetDoubleTapOnFP
  <2>2. tapPosts' \in Nat /\ tapPosts' <= tapPosts /\ fpTapCounts' \in Nat
    BY <1>0, <2>1
  <2>3. fpTapPending' \in BOOLEAN
    BY <2>1
  <2> QED
    BY <2>2, <2>3
<1>2. CASE UNCHANGED taps
  <2>1. /\ fpTapCounts' = fpTapCounts /\ tapPosts' = tapPosts
        /\ fpTapPending' = fpTapPending
    BY <1>2 DEF taps
  <2> QED
    BY <1>0, <2>1
<1> QED
  BY <1>1, <1>2

\* An action, where the taps are reset or kept.
LEMMA FireTapsGain ==
  ASSUME KeyInv, NEW action, fireIfSupported(action),
         resetDoubleTapOnFP \/ UNCHANGED taps
  PROVE  TapsGain(1)
<1>1. /\ fpTapCounts' \in Nat /\ fpTapPending' \in BOOLEAN
      /\ tapPosts' \in Nat /\ tapPosts' <= tapPosts
  BY TapsLeft
<1> QED
  BY <1>1, FireGain DEF TapsGain, KeyInv, TypeOK

\* No action, where the taps are reset or kept.
LEMMA NoActionGain ==
  ASSUME KeyInv, NoAction, resetDoubleTapOnFP \/ UNCHANGED taps
  PROVE  TapsGain(0)
<1>1. TorchInv'
  BY TorchSame DEF NoAction, KeyInv
<1>2. /\ fpTapCounts' \in Nat /\ fpTapPending' \in BOOLEAN
      /\ tapPosts' \in Nat /\ tapPosts' <= tapPosts
  BY TapsLeft
<1>3. isScreenOn' \in BOOLEAN
  BY DEF NoAction, KeyInv, TypeOK
<1>4. fired' \in Nat /\ fired' + tapPosts' <= fired + tapPosts + 0
  <2>1. fired \in Nat /\ tapPosts \in Nat /\ fired' = fired
    BY DEF NoAction, KeyInv, TypeOK
  <2>2. fired' \in Nat /\ fired' <= fired
    BY <2>1
  <2> QED
    BY <1>2, <2>1, <2>2, SumKept
<1> QED
  BY <1>1, <1>2, <1>3, <1>4 DEF TapsGain

\* The parts of the invariant that the steps change in their own ways.
LEMMA Assemble ==
  ASSUME KeyInv, NEW n \in Nat, TapsGain(n),
         fpGesturePending' \in BOOLEAN, gesturePosts' \in 0 .. 1,
         main' \in {"idle", "resetTaps", "removeTaps", "removeGesture"},
         requests' \in Seq(sSupportedFPGestures), Len(requests') <= 1,
         accepted' \in 0 .. MaxGestures, unchecked' \in BOOLEAN,
         n + Len(requests') + accepted <= accepted' + Len(requests)
  PROVE  KeyInv'
<1>1. TypeOK'
  <2>1. TorchTypeOK'
    BY DEF TapsGain, TorchInv
  <2> QED
    BY <2>1 DEF TapsGain, TypeOK
<1>2. ActionsEarned'
  <2>1. Len(requests) \in Nat /\ Len(requests') \in Nat
    BY LenProperties DEF KeyInv, TypeOK
  <2>2. accepted \in Int /\ accepted' \in Int
    BY KeyConstants DEF KeyInv, TypeOK
  <2>3. /\ fired \in Nat /\ tapPosts \in Nat /\ fired' \in Nat /\ tapPosts' \in Nat
        /\ fired' + tapPosts' <= fired + tapPosts + n
    BY DEF TapsGain, KeyInv, TypeOK
  <2>4. fired + Len(requests) + tapPosts <= accepted
    BY DEF KeyInv, ActionsEarned
  <2> QED
    BY <2>1, <2>2, <2>3, <2>4, SumEarned DEF ActionsEarned
<1> QED
  BY <1>1, <1>2 DEF KeyInv, TapsGain

\* A gesture is handed to handleKeyEvent.
LEMMA KeyEventInv ==
  ASSUME KeyInv, NEW scanCode \in sSupportedFPGestures, NEW home, NEW homeOff,
         NEW proximity, NEW doubleTap, NEW action,
         handleKeyEvent(scanCode, home, homeOff, proximity, doubleTap, action)
  PROVE  KeyInv'
<1>1. /\ accepted \in Nat /\ accepted' = accepted + 1
      /\ accepted' \in 0 .. MaxGestures
      /\ fpGesturePending' = TRUE /\ gesturePosts' = 1 /\ main' = main
  BY KeyConstants DEF handleKeyEvent, KeyInv, TypeOK
<1>2. /\ main \in {"idle", "resetTaps", "removeTaps", "removeGesture"}
      /\ requests \in Seq(sSupportedFPGestures) /\ Len(requests) <= 1
      /\ Len(requests) \in Nat
  BY LenProperties DEF KeyInv, TypeOK
<1>3. ASSUME TapsGain(1), requests' = requests, unchecked' \in BOOLEAN
      PROVE  KeyInv'
  BY <1>1, <1>2, <1>3, Assemble
<1>4. ASSUME TapsGain(0), requests = << >>, requests' = <<scanCode>>,
             unchecked' = FALSE
      PROVE  KeyInv'
  <2>1. requests' \in Seq(sSupportedFPGestures) /\ Len(requests') = 1
          /\ Len(requests) = 0
    BY <1>4, EmptySeq
  <2>2. 0 + Len(requests') + accepted <= accepted' + Len(requests)
    BY <1>1, <2>1
  <2>3. Len(requests') <= 1 /\ 0 \in Nat /\ gesturePosts' \in 0 .. 1
    BY <1>1, <2>1
  <2> QED
    BY <1>1, <1>2, <1>4, <2>1, <2>2, <2>3, Assemble
<1>5. ASSUME TapsGain(0) PROVE TapsGain(1)
  <2>1. fired \in Nat /\ tapPosts \in Nat
    BY DEF KeyInv, TypeOK
  <2>2. /\ fired' \in Nat /\ tapPosts' \in Nat
        /\ fired' + tapPosts' <= fired + tapPosts + 0
    BY <1>5 DEF TapsGain
  <2>3. fired' + tapPosts' <= fired + tapPosts + 1
    BY <2>1, <2>2, SumMore
  <2> QED
    BY <1>5, <2>3 DEF TapsGain
<1>6. ASSUME TapsKept(scanCode) PROVE resetDoubleTapOnFP \/ UNCHANGED taps
  BY <1>6 DEF TapsKept
<1>7. ASSUME processFPScancode(scanCode, doubleTap, action, TapsKept(scanCode))
      PROVE  TapsGain(1)
  BY <1>6, <1>7, DetectGain, FireTapsGain DEF processFPScancode
<1>8. CASE /\ resetDoubleTapOnFP /\ NoAction
           /\ unchecked' = FALSE /\ UNCHANGED requests
  BY <1>3, <1>5, <1>8, NoActionGain
<1>9. CASE processFPScreenOffScancode(scanCode, proximity, doubleTap, action,
                                      TapsKept(scanCode))
  <2>1. CASE /\ requests = << >> /\ requests' = <<scanCode>>
             /\ TapsKept(scanCode) /\ NoAction /\ unchecked' = FALSE
    BY <1>4, <1>6, <2>1, NoActionGain
  <2>2. CASE /\ processFPScancode(scanCode, doubleTap, action, TapsKept(scanCode))
             /\ unchecked' = (proximity /\ fired' # fired) /\ UNCHANGED requests
    BY <1>3, <1>7, <2>2
  <2> QED
    BY <1>9, <2>1, <2>2 DEF processFPScreenOffScancode
<1>10. CASE /\ processFPScancode(scanCode, doubleTap, action, TapsKept(scanCode))
            /\ unchecked' = FALSE /\ UNCHANGED requests
  BY <1>3, <1>7, <1>10
<1> QED
  BY <1>8, <1>9, <1>10 DEF handleKeyEvent

\* The screen-off handler takes its message.
LEMMA MessageInv ==
  ASSUME KeyInv, NEW doubleTap, NEW action, handleMessage(doubleTap, action)
  PROVE  KeyInv'
<1>1. /\ requests \in Seq(sSupportedFPGestures) /\ Len(requests) \in Nat
      /\ Len(requests) # 0 /\ Len(requests) <= 1
  BY EmptySeq, LenProperties DEF handleMessage, KeyInv, TypeOK
<1>2. /\ requests' \in Seq(sSupportedFPGestures) /\ Len(requests') = 0
  BY EmptySeq DEF handleMessage
<1>3. TapsGain(1)
  BY DetectGain, FireTapsGain DEF handleMessage, processFPScancode
<1>4. /\ fpGesturePending' \in BOOLEAN /\ gesturePosts' \in 0 .. 1
      /\ main' \in {"idle", "resetTaps", "removeTaps", "removeGesture"}
      /\ accepted' = accepted /\ accepted' \in 0 .. MaxGestures
      /\ unchecked' \in BOOLEAN
  BY DEF handleMessage, gate, KeyInv, TypeOK
<1>5. accepted \in Int
  BY KeyConstants DEF KeyInv, TypeOK
<1> QED
  BY <1>1, <1>2, <1>3, <1>4, <1>5, Assemble

\* Steps that only change the taps, the gate and what the main looper has to do.
LEMMA LooperInv ==
  ASSUME KeyInv, TapsGain(0),
         fpGesturePending' \in BOOLEAN, gesturePosts' \in 0 .. 1,
         main' \in {"idle", "resetTaps", "removeTaps", "removeGesture"},
         unchecked' = FALSE, UNCHANGED <<requests, accepted>>
  PROVE  KeyInv'
<1>1. /\ requests' \in Seq(sSupportedFPGestures) /\ Len(requests') <= 1
      /\ Len(requests') = Len(requests) /\ Len(requests) \in Nat
      /\ accepted' \in 0 .. MaxGestures
  BY LenProperties DEF KeyInv, TypeOK
<1>2. accepted' = accepted /\ accepted \in Int
  BY KeyConstants DEF KeyInv, TypeOK
<1>3. 0 + Len(requests') + accepted <= accepted' + Len(requests) /\ 0 \in Nat
  BY <1>1, <1>2
<1> QED
  BY <1>1, <1>2, <1>3, Assemble

\* The invariant holds when the handler is created.
LEMMA InitKeyInv == Init => KeyInv
<1> SUFFICES ASSUME Init PROVE KeyInv
  OBVIOUS
<1>1. TorchInv
  BY TorchInitInv DEF Init
<1>2. requests \in Seq(sSupportedFPGestures) /\ Len(requests) = 0
  BY EmptySeq DEF Init
<1>3. TypeOK
  <2>1. fpTapCounts \in Nat /\ tapPosts \in Nat /\ gesturePosts \in 0 .. 1
          /\ Len(requests) <= 1 /\ accepted \in 0 .. MaxGestures /\ fired \in Nat
    BY <1>2, KeyConstants DEF Init
  <2> QED
    BY <1>1, <1>2, <2>1, Zenon DEF Init, TypeOK, TorchInv
<1>4. ActionsEarned
  BY <1>2 DEF Init, ActionsEarned
<1> QED
  BY <1>1, <1>3, <1>4 DEF KeyInv

\* Every step keeps the invariant.
LEMMA StepKeyInv == ASSUME KeyInv, [Next]_vars PROVE KeyInv'
<1>0. /\ fpGesturePending \in BOOLEAN /\ gesturePosts \in 0 .. 1
      /\ main \in {"idle", "resetTaps", "removeTaps", "removeGesture"}
  BY DEF KeyInv, TypeOK
<1>1. ASSUME NEW scanCode \in sSupportedFPGestures, NEW action \in Actions,
             NEW home \in BOOLEAN, NEW homeOff \in BOOLEAN,
             NEW proximity \in BOOLEAN, NEW doubleTap \in BOOLEAN,
             handleKeyEvent(scanCode, home, homeOff, proximity, doubleTap, action)
      PROVE  KeyInv'
  BY <1>1, KeyEventInv
<1>2. ASSUME NEW action \in Actions, NEW doubleTap \in BOOLEAN,
             handleMessage(doubleTap, action)
      PROVE  KeyInv'
  BY <1>2, MessageInv
<1>3. ASSUME NEW action \in Actions, doubleTapRunnable(action) PROVE KeyInv'
  <2>1. /\ isScreenOn' \in BOOLEAN /\ TorchInv'
        /\ fired' \in Nat /\ fired' <= fired + 1
    BY <1>3, FireGain DEF doubleTapRunnable
  <2>2. TapsGain(0)
    <3>1. /\ fpTapCounts' \in Nat /\ fpTapPending' \in BOOLEAN
      BY <1>3 DEF doubleTapRunnable, KeyInv, TypeOK
    <3>2. tapPosts \in Nat /\ tapPosts > 0 /\ tapPosts' = tapPosts - 1
            /\ fired \in Nat
      BY <1>3 DEF doubleTapRunnable, KeyInv, TypeOK
    <3>3. tapPosts' \in Nat /\ fired' + tapPosts' <= fired + tapPosts + 0
      BY <2>1, <3>2, SumMoved
    <3> QED
      BY <2>1, <3>1, <3>3 DEF TapsGain
  <2> QED
    BY <1>0, <1>3, <2>2, LooperInv DEF doubleTapRunnable, gate
<1>4. CASE ResetTaps \/ RemoveTaps
  <2>1. TorchInv'
    BY <1>4, TorchSame DEF ResetTaps, RemoveTaps, NoAction, KeyInv
  <2>2. TapsGain(0)
    <3>0. fpTapCounts \in Nat /\ fpTapPending \in BOOLEAN /\ tapPosts \in Nat
            /\ fired \in Nat /\ isScreenOn \in BOOLEAN
      BY DEF KeyInv, TypeOK
    <3>1. fired' = fired /\ isScreenOn' = isScreenOn
      BY <1>4 DEF ResetTaps, RemoveTaps, NoAction
    <3>2. fpTapCounts' \in Nat /\ tapPosts' \in Nat /\ tapPosts' <= tapPosts
      BY <1>4, <3>0 DEF ResetTaps, RemoveTaps
    <3>3. fpTapPending' = FALSE \/ fpTapPending' = fpTapPending
      BY <1>4 DEF ResetTaps, RemoveTaps
    <3>4. fired' + tapPosts' <= fired + tapPosts + 0
      <4>1. fired' \in Nat /\ fired' <= fired
        BY <3>0, <3>1
      <4> QED
        BY <3>0, <3>2, <4>1, SumKept
    <3> QED
      BY <2>1, <3>0, <3>1, <3>2, <3>3, <3>4 DEF TapsGain
  <2> QED
    BY <1>0, <1>4, <2>2, LooperInv DEF ResetTaps, RemoveTaps, gate
<1>5. CASE fpGestureRunnable \/ RemoveGesture
  <2>1. NoAction /\ UNCHANGED taps
    BY <1>5 DEF fpGestureRunnable, RemoveGesture
  <2>2. TapsGain(0)
    BY <2>1, NoActionGain
  <2> QED
    <3>1. fpGesturePending' \in BOOLEAN /\ gesturePosts' \in 0 .. 1
      <4>1. fpGesturePending' = FALSE \/ fpGesturePending' = fpGesturePending
        BY <1>5 DEF fpGestureRunnable, RemoveGesture
      <4>2. gesturePosts' \in 0 .. 1
        BY <1>0, <1>5 DEF fpGestureRunnable, RemoveGesture
      <4> QED
        BY <1>0, <4>1, <4>2
    <3>2. main' \in {"idle", "removeGesture"} /\ unchecked' = FALSE
            /\ UNCHANGED <<requests, accepted>>
      BY <1>5 DEF fpGestureRunnable, RemoveGesture
    <3> QED
      BY <2>2, <3>1, <3>2, LooperInv
<1>6. CASE OtherScreen
  <2>1. TorchInv'
    BY <1>6, TorchSame DEF OtherScreen, KeyInv
  <2>2. TapsGain(0)
    BY <1>6, <2>1 DEF OtherScreen, TapsGain, taps, KeyInv, TypeOK
  <2> QED
    BY <1>0, <1>6, <2>2, LooperInv DEF OtherScreen, gate
<1>7. CASE TorchStep
  <2>1. TorchInv'
    BY <1>7, TorchNextInv DEF TorchStep, KeyInv
  <2>2. TapsGain(0)
    BY <1>7, <2>1 DEF TorchStep, TapsGain, taps, KeyInv, TypeOK
  <2> QED
    BY <1>0, <1>7, <2>2, LooperInv DEF TorchStep, gate
<1>8. CASE UNCHANGED vars
  <2>1. TorchInv'
    BY <1>8, TorchSame DEF vars, KeyInv
  <2>2. TypeOK' /\ ActionsEarned'
    BY <1>8, <2>1 DEF vars, keyvars, taps, gate, KeyInv, TypeOK, ActionsEarned, TorchInv
  <2> QED
    BY <2>1, <2>2 DEF KeyInv
<1> QED
  BY <1>1, <1>2, <1>3, <1>4, <1>5, <1>6, <1>7, <1>8 DEF Next, MainLooper

-------------------------------------------------------------------------------
\* The inductive invariant of KeyHandler and the torch holds throughout.
THEOREM KeyInvariance == Spec => []KeyInv
BY InitKeyInv, StepKeyInv, PTL DEF Spec

\* At most one request waits for the screen-off handler, and every variable of
\* KeyHandler.java and of the torch keeps its type.
THEOREM KeyType == Spec => []TypeOK
<1>1. KeyInv => TypeOK
  BY DEF KeyInv
<1> QED
  BY <1>1, KeyInvariance, PTL

\* No gesture acts twice, however the window manager's thread, the loopers and the
\* settings interleave (handleKeyEvent, handleMessage, doubleTapRunnable).
THEOREM KeyActionsEarned == Spec => []ActionsEarned
<1>1. KeyInv => ActionsEarned
  BY DEF KeyInv
<1> QED
  BY <1>1, KeyInvariance, PTL

\* A client that has used the torch and has received every callback knows its
\* state (toggleFlashlight, TorchAction, MyTorchCallback).
THEOREM KeyTorchKnown == Spec => []TorchKnown
<1>1. KeyInv => TorchKnown
  BY DEF KeyInv, TorchInv, LastCallback, TorchTypeOK, TorchKnown
<1> QED
  BY <1>1, KeyInvariance, PTL

-------------------------------------------------------------------------------
(* The two processes together.                                             *)

LEMMA HalvesStep ==
  DozeInv /\ KeyInv /\ [MCNext]_<<gvars, vars, half>> => (DozeInv /\ KeyInv)'
<1>1. [MCNext]_<<gvars, vars, half>> => [GNext]_gvars /\ [Next]_vars
  BY DEF MCNext
<1> QED
  BY <1>1, StepDozeInv, StepKeyInv

\* Both halves keep their types: the service's listeners and their registrations, the
\* fingerprint handler, its handlers' queues and the torch's callbacks.
THEOREM ActionsTypeCorrect == MCSpec => []ActionsTypeOK
<1>1. MCInit => DozeInv /\ KeyInv
  BY InitDozeInv, InitKeyInv DEF MCInit
<1>2. DozeInv /\ KeyInv => ActionsTypeOK
  BY DEF DozeInv, KeyInv, ActionsTypeOK
<1> QED
  BY <1>1, <1>2, HalvesStep, PTL DEF MCSpec
===============================================================================
