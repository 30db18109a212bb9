------------------------------ MODULE KeyHandler ------------------------------
(***************************************************************************)
(* KeyHandler of LineageActions: the gestures of the fingerprint sensor.   *)
(* The window manager hands every key event to handleKeyEvent; gestures    *)
(* are turned into actions at once, after the double-tap timeout, or after *)
(* a message to the handler for gestures with the screen off.  Runnables   *)
(* and messages are run later by their loopers.  The window manager calls  *)
(* from a thread of its own: it may come between the statements of a       *)
(* runnable, which the main looper runs.                                   *)
(*                                                                         *)
(* The nodes of /sys/homebutton, which the preferences write at any time,  *)
(* are inputs of each step: whether gestures are on, with the screen on    *)
(* and off, whether the proximity sensor is to be checked, and the action  *)
(* of the gesture.  Haptic feedback and what the apps do are left out.     *)
(***************************************************************************)
EXTENDS Torch

CONSTANTS
  Choices,   \* the actions the user has chosen for gestures
  MaxGestures  \* bound on the gestures accepted

sSupportedFPGestures == {"FP_TAP", "FP_HOLD", "FP_LEFT", "FP_RIGHT"}

sFPSupportedActionsScreenOff ==
  {"ACTION_POWER", "ACTION_VOLUME_UP", "ACTION_VOLUME_DOWN", "ACTION_PLAY_PAUSE",
   "ACTION_PREVIOUS_TRACK", "ACTION_NEXT_TRACK", "ACTION_FLASHLIGHT",
   "ACTION_CAMERA"}

sFPSupportedActions ==
  sFPSupportedActionsScreenOff
    \cup {"ACTION_HOME", "ACTION_BACK", "ACTION_RECENTS", "ACTION_VOICE_ASSISTANT",
          "ACTION_SCREENSHOT", "ACTION_LAST_APP"}

ASSUME KeyConstants == Choices \subseteq sFPSupportedActions /\ MaxGestures \in Nat

VARIABLES
  isScreenOn,        \* PowerManager.isScreenOn()
  fpTapCounts,       \* taps since the double-tap timeout started
  fpTapPending,      \* a double-tap timeout is running
  fpGesturePending,  \* a gesture was accepted less than 10 ms ago
  tapPosts,          \* how many doubleTapRunnables are posted
  gesturePosts,      \* how many fpGestureRunnables are posted
  main,              \* what the main looper still has to do in its runnable
  requests,          \* FP_ACTION_REQUEST messages not yet handled
  accepted,          \* history: gestures that passed the 10 ms gate
  fired,             \* history: actions fired
  unchecked          \* history: the last step fired an action that was to wait
                     \* for the proximity sensor, and did not

taps == <<fpTapCounts, fpTapPending, tapPosts>>
gate == <<fpGesturePending, gesturePosts>>
keyvars == <<isScreenOn, taps, gate, main, requests, accepted, fired, unchecked>>
vars == <<torchvars, keyvars>>

TypeOK ==
  /\ TorchTypeOK
  /\ isScreenOn \in BOOLEAN
  /\ fpTapCounts \in Nat
  /\ fpTapPending \in BOOLEAN /\ fpGesturePending \in BOOLEAN
  /\ tapPosts \in Nat /\ gesturePosts \in 0 .. 1
  /\ main \in {"idle", "resetTaps", "removeTaps", "removeGesture"}
  /\ requests \in Seq(sSupportedFPGestures) /\ Len(requests) <= 1
  /\ accepted \in 0 .. MaxGestures /\ fired \in Nat
  /\ unchecked \in BOOLEAN

Init ==
  /\ TorchInit
  /\ isScreenOn = TRUE
  /\ fpTapCounts = 0 /\ fpTapPending = FALSE /\ fpGesturePending = FALSE
  /\ tapPosts = 0 /\ gesturePosts = 0 /\ main = "idle" /\ requests = << >>
  /\ accepted = 0 /\ fired = 0 /\ unchecked = FALSE

-------------------------------------------------------------------------------
(* Actions.  "0", or a node that cannot be read, is no action.             *)

Supported == IF isScreenOn THEN sFPSupportedActions
                           ELSE sFPSupportedActionsScreenOff

\* fireFPAction, and the check before it: what the action changes of the state.
\* toggleScreenState, triggerCameraAction, toggleFlashlight and, for the rest,
\* key presses and apps outside.
fireFPAction(action) ==
  /\ action \in Supported
  /\ fired' = fired + 1
  /\ isScreenOn' = CASE action = "ACTION_POWER"  -> ~ isScreenOn
                     [] action = "ACTION_CAMERA" -> TRUE
                     [] OTHER                    -> isScreenOn
  /\ IF action = "ACTION_FLASHLIGHT" THEN toggleFlashlight
                                     ELSE UNCHANGED torchvars

NoAction == UNCHANGED <<isScreenOn, fired, torchvars>>

\* An action that the screen's state does not allow, and none, are dropped.
fireIfSupported(action) ==
  fireFPAction(action) \/ (action \notin Supported /\ NoAction)

resetDoubleTapOnFP ==
  /\ fpTapCounts' = 0
  /\ fpTapPending' = FALSE
  /\ tapPosts' = 0

detectDoubleTapOnFP ==
  /\ fpTapCounts' = fpTapCounts + 1
  /\ fpTapPending' = TRUE
  /\ tapPosts' = IF fpTapPending THEN tapPosts ELSE tapPosts + 1

\* processFPScancode, where other gestures leave the taps as kept says: a tap
\* waits for a second one if double taps have an action.
processFPScancode(scanCode, doubleTap, action, kept) ==
  \/ /\ scanCode = "FP_TAP" /\ doubleTap
     /\ detectDoubleTapOnFP
     /\ NoAction
  \/ /\ scanCode = "FP_TAP" /\ ~ doubleTap
     /\ resetDoubleTapOnFP
     /\ fireIfSupported(action)
  \/ /\ scanCode # "FP_TAP"
     /\ kept
     /\ fireIfSupported(action)

\* A slip the runs must catch: the gesture is processed in any case.
processFPScreenOffScancode_both(scanCode, proximity, doubleTap, action, kept) ==
  /\ requests' = IF proximity /\ requests = << >> THEN <<scanCode>> ELSE requests
  /\ processFPScancode(scanCode, doubleTap, action, kept)
  /\ unchecked' = FALSE

\* processFPScreenOffScancode.  registerFPScreenOffListener fails at its first
\* statement (mProximityWakeLock is null), after the message is sent; the window
\* manager drops the exception.  While a message is pending, gestures are
\* processed without the proximity sensor.
processFPScreenOffScancode(scanCode, proximity, doubleTap, action, kept) ==
  \/ /\ proximity /\ requests = << >>
     /\ requests' = <<scanCode>>
     /\ kept
     /\ NoAction
     /\ unchecked' = FALSE
  \/ /\ ~ (proximity /\ requests = << >>)
     /\ processFPScancode(scanCode, doubleTap, action, kept)
     /\ unchecked' = (proximity /\ fired' # fired)
     /\ UNCHANGED requests

\* What becomes of the taps in handleKeyEvent before the gesture is processed.
TapsKept(scanCode) ==
  IF scanCode # "FP_TAP" THEN resetDoubleTapOnFP ELSE UNCHANGED taps

\* handleKeyEvent, for the ACTION_UP event of a gesture: a second gesture within
\* 10 ms is passed on.
handleKeyEvent(scanCode, home, homeOff, proximity, doubleTap, action) ==
  /\ ~ fpGesturePending /\ accepted < MaxGestures
  /\ accepted' = accepted + 1
  /\ fpGesturePending' = TRUE
  /\ gesturePosts' = 1
  /\ \/ /\ ~ home \/ (~ isScreenOn /\ ~ homeOff)
        /\ resetDoubleTapOnFP
        /\ NoAction
        /\ unchecked' = FALSE
        /\ UNCHANGED requests
     \/ /\ home /\ ~ isScreenOn /\ homeOff
        /\ processFPScreenOffScancode(scanCode, proximity, doubleTap, action,
                                      TapsKept(scanCode))
     \/ /\ home /\ isScreenOn
        /\ processFPScancode(scanCode, doubleTap, action, TapsKept(scanCode))
        /\ unchecked' = FALSE
        /\ UNCHANGED requests
  /\ UNCHANGED main

\* FPScreenOffGesturesHandler.handleMessage.  The message was sent to give the
\* proximity sensor time to answer; no sensor ever does.
handleMessage(doubleTap, action) ==
  /\ requests # << >>
  /\ requests' = << >>
  /\ processFPScancode(Head(requests), doubleTap, action, UNCHANGED taps)
  /\ unchecked' = (fired' # fired)
  /\ UNCHANGED <<gate, main, accepted>>

-------------------------------------------------------------------------------
(* The main looper's runnables.                                            *)

\* doubleTapRunnable, up to resetDoubleTapOnFP: the action for one tap or for
\* more, as it is now for the screen's state.
doubleTapRunnable(action) ==
  /\ main = "idle" /\ tapPosts > 0
  /\ tapPosts' = tapPosts - 1
  /\ main' = "resetTaps"
  /\ fireIfSupported(action)
  /\ unchecked' = FALSE
  /\ UNCHANGED <<fpTapCounts, fpTapPending, gate, requests, accepted>>

\* resetDoubleTapOnFP on the main looper: the two assignments, and then
\* removeCallbacks.
ResetTaps ==
  /\ main = "resetTaps"
  /\ main' = "removeTaps"
  /\ fpTapCounts' = 0 /\ fpTapPending' = FALSE
  /\ unchecked' = FALSE
  /\ NoAction
  /\ UNCHANGED <<tapPosts, gate, requests, accepted>>

RemoveTaps ==
  /\ main = "removeTaps"
  /\ main' = "idle"
  /\ tapPosts' = 0
  /\ unchecked' = FALSE
  /\ NoAction
  /\ UNCHANGED <<fpTapCounts, fpTapPending, gate, requests, accepted>>

\* fpGestureRunnable is resetFPGestureDelay: the assignment, and then
\* removeCallbacks, which also removes what was posted since.
fpGestureRunnable ==
  /\ main = "idle" /\ gesturePosts > 0
  /\ main' = "removeGesture"
  /\ gesturePosts' = gesturePosts - 1
  /\ fpGesturePending' = FALSE
  /\ unchecked' = FALSE
  /\ NoAction
  /\ UNCHANGED <<taps, requests, accepted>>

RemoveGesture ==
  /\ main = "removeGesture"
  /\ main' = "idle"
  /\ gesturePosts' = 0
  /\ unchecked' = FALSE
  /\ NoAction
  /\ UNCHANGED <<taps, fpGesturePending, requests, accepted>>

\* The power key, or another app, turns the screen on or off.
OtherScreen ==
  /\ isScreenOn' = ~ isScreenOn
  /\ unchecked' = FALSE
  /\ UNCHANGED <<taps, gate, main, requests, accepted, fired, torchvars>>

\* The torch's other users, and the callbacks.
TorchStep ==
  /\ TorchNext
  /\ unchecked' = FALSE
  /\ UNCHANGED <<isScreenOn, taps, gate, main, requests, accepted, fired>>

-------------------------------------------------------------------------------
Actions == Choices \cup {"0"}

MainLooper ==
  \/ \E action \in Actions : doubleTapRunnable(action)
  \/ ResetTaps \/ RemoveTaps
  \/ fpGestureRunnable \/ RemoveGesture

Next ==
  \/ \E scanCode \in sSupportedFPGestures, action \in Actions,
        home, homeOff, proximity, doubleTap \in BOOLEAN :
       handleKeyEvent(scanCode, home, homeOff, proximity, doubleTap, action)
  \/ \E action \in Actions, doubleTap \in BOOLEAN : handleMessage(doubleTap, action)
  \/ MainLooper
  \/ OtherScreen
  \/ TorchStep

\* The main looper keeps running what was posted to it.
Spec == Init /\ [][Next]_vars /\ WF_vars(MainLooper)

-------------------------------------------------------------------------------
(* Properties.                                                             *)

\* No gesture acts twice: the actions fired, with the ones that pending taps and
\* messages may still fire, never outnumber the gestures accepted, whichever of
\* the window manager, the two loopers and the settings comes first
\* (handleKeyEvent, processFPScreenOffScancode, handleMessage,
\* doubleTapRunnable, resetDoubleTapOnFP).
ActionsEarned == fired + Len(requests) + tapPosts <= accepted

\* What res/values/strings.xml says of "Allow proximity sensor": no action is
\* performed for a gesture with the screen off before the sensor is checked
\* (processFPScreenOffScancode, registerFPScreenOffListener, handleMessage).
ProximityChecked == ~ unchecked

\* What the switch "Use fingerprint gestures" is for: the gate that shuts for
\* 10 ms after a gesture opens again (handleKeyEvent, resetFPGestureDelay).
GesturesUsed == fpGesturePending ~> ~ fpGesturePending
=============================================================================
