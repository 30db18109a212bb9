-------------------------------- MODULE Torch ---------------------------------
(***************************************************************************)
(* The torch, as LineageActions sees it.  Two parts of the app toggle it:  *)
(* KeyHandler, for a fingerprint gesture, and TorchAction, for a chop.     *)
(* Each runs in a process of its own and keeps its own mTorchEnabled,      *)
(* which its toggles negate and the camera service's callbacks, delivered  *)
(* later and in order, correct.  Other apps use the torch and the camera.  *)
(***************************************************************************)
EXTENDS Naturals, Sequences

CONSTANT MaxCallbacks   \* bound on the callbacks a client has not received

ASSUME TorchConstants == MaxCallbacks \in Nat

Clients == {"keys", "chop"}

VARIABLES
  torch,          \* whether the torch shines
  cameraInUse,    \* an app has the camera open: the torch is unavailable
  mRearCameraId,  \* the clients that know the camera's name
  mTorchEnabled,  \* each client's idea of the torch
  callbacks       \* torch states the service has sent to each client

torchvars == <<torch, cameraInUse, mRearCameraId, mTorchEnabled, callbacks>>

TorchTypeOK ==
  /\ torch \in BOOLEAN /\ cameraInUse \in BOOLEAN
  /\ mRearCameraId \in SUBSET Clients
  /\ mTorchEnabled \in [Clients -> BOOLEAN]
  /\ callbacks \in [Clients -> Seq(BOOLEAN)]

TorchInit ==
  /\ torch = FALSE /\ cameraInUse = FALSE
  /\ mRearCameraId = {}
  /\ mTorchEnabled = [c \in Clients |-> FALSE]
  /\ callbacks = [c \in Clients |-> << >>]

-------------------------------------------------------------------------------
\* There is room for the callbacks of one step.
Room == \A c \in Clients : Len(callbacks[c]) + 2 <= MaxCallbacks

\* The service tells the clients in S that the torch is now on or off.
Sent(queues, S, on) ==
  [c \in Clients |-> IF c \in S THEN Append(queues[c], on) ELSE queues[c]]

\* KeyHandler registers a callback when it starts; TorchAction registers one more
\* with each action, and has none before its first.
Listening == {"keys"} \cup mRearCameraId

\* A slip the runs must catch: mTorchEnabled is negated after an exception too.
setTorchMode_assignAlways(c, queues) ==
  /\ mTorchEnabled' = [mTorchEnabled EXCEPT ![c] = ~ @]
  /\ torch' = IF cameraInUse THEN torch ELSE ~ mTorchEnabled[c]
  /\ callbacks' = IF torch' # torch THEN Sent(queues, Listening', torch')
                                    ELSE queues

\* CameraManager.setTorchMode, followed by the client's assignment; an exception
\* (the camera is in use) skips both.
setTorchMode(c, queues) ==
  \/ /\ cameraInUse
     /\ callbacks' = queues
     /\ UNCHANGED <<torch, mTorchEnabled>>
  \/ /\ ~ cameraInUse
     /\ torch' = ~ mTorchEnabled[c]
     /\ mTorchEnabled' = [mTorchEnabled EXCEPT ![c] = ~ @]
     /\ callbacks' = IF torch' # torch THEN Sent(queues, Listening', torch')
                                       ELSE queues

\* KeyHandler.toggleFlashlight.
toggleFlashlight ==
  /\ Room
  /\ mRearCameraId' = mRearCameraId \cup {"keys"}
  /\ setTorchMode("keys", callbacks)
  /\ UNCHANGED cameraInUse

\* A new TorchAction and its action(), for a chop with nothing near: the
\* constructor registers a callback, to which the service reports the state.
TorchAction ==
  /\ Room
  /\ mRearCameraId' = mRearCameraId \cup {"chop"}
  /\ setTorchMode("chop", Sent(callbacks, {"chop"}, torch))
  /\ UNCHANGED cameraInUse

\* MyTorchCallback.onTorchModeChanged and onTorchModeUnavailable; a callback is
\* ignored while the client does not know the camera's name.
onTorchModeChanged(c) ==
  /\ callbacks[c] # << >>
  /\ mTorchEnabled' = IF c \in mRearCameraId
                      THEN [mTorchEnabled EXCEPT ![c] = Head(callbacks[c])]
                      ELSE mTorchEnabled
  /\ callbacks' = [callbacks EXCEPT ![c] = Tail(@)]
  /\ UNCHANGED <<torch, cameraInUse, mRearCameraId>>

\* Another app turns the torch on or off.
OtherTorch ==
  /\ Room /\ ~ cameraInUse
  /\ torch' = ~ torch
  /\ callbacks' = Sent(callbacks, Listening, torch')
  /\ UNCHANGED <<cameraInUse, mRearCameraId, mTorchEnabled>>

\* An app opens the camera, which puts the torch out (a callback that it is
\* unavailable), or closes it (a callback that it is off).
CameraUsed ==
  /\ Room
  /\ cameraInUse' = ~ cameraInUse
  /\ torch' = FALSE
  /\ callbacks' = Sent(callbacks, Listening, FALSE)
  /\ UNCHANGED <<mRearCameraId, mTorchEnabled>>

TorchNext == OtherTorch \/ CameraUsed \/ TorchAction
               \/ \E c \in Clients : onTorchModeChanged(c)

-------------------------------------------------------------------------------
(* Properties.                                                             *)

\* A client that has used the torch once and has received every callback knows
\* whether it shines, so that its next toggle really toggles it, whatever the
\* other client and the other apps did and however late the callbacks came
\* (KeyHandler.toggleFlashlight, TorchAction.action, MyTorchCallback).
TorchKnown ==
  \A c \in mRearCameraId :
    callbacks[c] = << >> => mTorchEnabled[c] = torch
=============================================================================
