----------------------------- MODULE MCHubSensors -----------------------------
(***************************************************************************)
(* HubSensors and FusionAlgos for TLC, in three scenes in place of their   *)
(* product: the handles that share the streams, those that share the wake  *)
(* mask, and the sensors that use the fusion algorithms.  Each scene's     *)
(* calls are those of the module on some handles, with some periods and    *)
(* with some driver calls failing; a one-shot sensor that fires is         *)
(* switched off as if the framework had done it.  The algorithms run in    *)
(* the last scene only.                                                    *)
(***************************************************************************)
EXTENDS FusionAlgos

VARIABLE scene

mcvars == <<fvars, scene>>

\* A gyro sensor with a bit of its own, a six-axis fusion sensor and a sensor of
\* accelerometer and magnetometer: each pair shares a stream.
\* The two handles that share M_GLANCE, a one-shot sensor with a bit of its own,
\* and a sensor of the other mask and the gyro stream.
\* Both geomagnetic sensors, one user of the game rotation vector, and the glance
\* gesture, whose reports reach the magnetometer's case.
Scene ==
  [streams |-> [handles |-> {"ID_UNCALIB_GYRO", "ID_GAME_RV", "ID_M"},
                periods |-> {7, 100}, failing |-> {"sensors"}],
   wake    |-> [handles |-> {"ID_GLANCE_GESTURE", "ID_MOTO_GLANCE_GESTURE",
                             "ID_MOTION_DETECT", "ID_UNCALIB_GYRO"},
                periods |-> {100}, failing |-> {"wake", "gyro"}],
   fusion  |-> [handles |-> {"ID_RV", "ID_GEOMAG_RV", "ID_LA",
                             "ID_GLANCE_GESTURE"},
                periods |-> {10}, failing |-> {}]]

MCSensorList == UNION {Scene[s].handles : s \in DOMAIN Scene}

MCInit == FInit /\ scene \in DOMAIN Scene

HubScene ==
  /\ \/ Refused
     \/ \E bad \in SUBSET Scene[scene].failing :
          \/ Construct(bad)
          \/ \E h \in Scene[scene].handles :
               \/ \E en \in BOOLEAN : setEnable(h, en, bad)
               \/ \E ms \in Scene[scene].periods : setDelay(h, ms, bad)
  /\ UNCHANGED <<algos, quiet>>

FusionScene ==
  \/ \E h \in Scene[scene].handles :
       \/ \E en \in BOOLEAN : FEnable(h, en, {})
       \/ \E ms \in Scene[scene].periods : FDelay(h, ms, {})
  \/ FConstruct({}) \/ FallSilent \/ DT_MAG \/ DT_GLANCE \/ DT_ACCEL \/ DT_GYRO

MCNext == /\ \/ scene # "fusion" /\ HubScene
             \/ scene = "fusion" /\ FusionScene
          /\ UNCHANGED scene

\* The samples arrive where the algorithms run.
InScene(A) == scene = "fusion" /\ A /\ UNCHANGED scene

MCSpec == /\ MCInit /\ [][MCNext]_mcvars
          /\ WF_mcvars(InScene(DT_ACCEL)) /\ WF_mcvars(InScene(DT_GYRO))
          /\ WF_mcvars(InScene(NewMag)) /\ SF_mcvars(InScene(NewAccel))
===============================================================================
