----------------------------- MODULE FusionAlgos ------------------------------
(***************************************************************************)
(* The fusion algorithms behind the virtual sensors of the sensor hub      *)
(* (GeoMagRotationVector, RotationVector and GameRotationVector), run by   *)
(* HubSensors::readEvents on the samples of the hub and reset by           *)
(* HubSensors::setEnable.  The module composes them with HubSensors: its   *)
(* steps are those of HubSensors with their effect on the algorithms, and  *)
(* the arrival of a sample.                                                *)
(*                                                                         *)
(* The quaternion arithmetic is left out.  What is kept of a filter is     *)
(* whether it is initialized, and what makes it so.                        *)
(*                                                                         *)
(* A sample and a call are one step each.  The statics of the filters are  *)
(* shared by the poll thread (processFusion) and the thread that calls     *)
(* setEnable without a lock, so that a reset may also come between the     *)
(* countdown of mag_cnt and the write of initialized, and be undone there; *)
(* that is not modelled, and GeoMagWarmUp does not speak of it.            *)
(***************************************************************************)
EXTENDS HubSensors

CONSTANTS
  MAG_COUNTS   \* changed magnetometer samples the six-axis filter waits for

ASSUME FusionConstantsOK == MAG_COUNTS \in 0 .. 255

VARIABLES
  accelSeen,      \* mFusionData.accel holds a sample
  magChanged,     \* how mFusionData.mag differs from the filter's mRaw: it is
                  \* the "same", a "new" sample, the data of a "glance"
                  \* gesture, or a "residue" of filtering
  geoInitialized, \* GeoMagRotationVector's initialized
  mag_cnt,        \* GeoMagRotationVector's mag_cnt
  mGeomagRVReady, \* what GeoMagRotationVector last reported to HubSensors
  gameInitialized,\* GameRotationVector's initialized
  rvRestarted,    \* the last nine-axis output was computed with reset
  magSeen,        \* history: changed values the six-axis filter has used since
                  \* its last reset
  quiet           \* the framework makes no more calls

geomag == <<magChanged, geoInitialized, mag_cnt, magSeen>>
algos  == <<accelSeen, geomag, mGeomagRVReady, gameInitialized, rvRestarted>>
fvars  == <<vars, algos, quiet>>

FTypeOK ==
  /\ TypeOK
  /\ {accelSeen, geoInitialized, mGeomagRVReady, gameInitialized,
      rvRestarted} \subseteq BOOLEAN
  /\ magChanged \in {"same", "residue", "glance", "new"}
  /\ mag_cnt \in 0 .. 255
  /\ magSeen \in 0 .. MAG_COUNTS + 1
  /\ quiet \in BOOLEAN

-------------------------------------------------------------------------------
GameUsers == {"ID_GAME_RV", "ID_LA", "ID_GRAVITY"}

\* GeoMagRotationVector::processFusion with reset.
geomagReset ==
  /\ geoInitialized' = FALSE
  /\ mag_cnt' = MAG_COUNTS
  /\ magSeen' = 0
  /\ UNCHANGED magChanged

\* A slip the runs must catch: the countdown is a signed number.
geomagProcess_underflow ==
  \/ /\ geoInitialized
     /\ magChanged' \in {"same", "residue"}
     /\ UNCHANGED <<geoInitialized, mag_cnt, magSeen>>
  \/ /\ ~ geoInitialized
     /\ geoInitialized' = (magChanged # "same" /\ mag_cnt = 0)
     /\ mag_cnt' = IF magChanged # "same" THEN mag_cnt - 1 ELSE mag_cnt
     /\ magSeen' = IF magChanged # "same" /\ magSeen <= MAG_COUNTS
                THEN magSeen + 1 ELSE magSeen
     /\ magChanged' = "same"

\* A slip the runs must catch: the countdown is not waited for.
geomagProcess_eager ==
  /\ geoInitialized' = (geoInitialized \/ magChanged # "same")
  /\ magSeen' = IF magChanged # "same" /\ magSeen <= MAG_COUNTS
             THEN magSeen + 1 ELSE magSeen
  /\ magChanged' = "same"
  /\ UNCHANGED mag_cnt

\* GeoMagRotationVector::processFusion on an accelerometer sample.  A filter
\* that is not initialized copies the magnetometer value; one that is blends
\* it in, after which the two differ or not.  mag_cnt is a uint8_t, counted down
\* at 0 too.
geomagProcess ==
  \/ /\ geoInitialized
     /\ magChanged' \in {"same", "residue"}
     /\ UNCHANGED <<geoInitialized, mag_cnt, magSeen>>
  \/ /\ ~ geoInitialized
     /\ geoInitialized' = (magChanged # "same" /\ mag_cnt = 0)
     /\ mag_cnt' = IF magChanged # "same" THEN (mag_cnt - 1) % 256 ELSE mag_cnt
     /\ magSeen' = IF magChanged # "same" /\ magSeen <= MAG_COUNTS
                THEN magSeen + 1 ELSE magSeen
     /\ magChanged' = "same"

\* GameRotationVector::processFusion.  It does not stop after a reset but goes
\* on with the accelerometer sample it has; in free fall (or before there is a
\* sample) it stays uninitialized.
gameProcess(reset) ==
  \E freefall \in BOOLEAN :
    gameInitialized' = IF gameInitialized /\ ~ reset THEN TRUE
                       ELSE accelSeen /\ ~ freefall

\* The end of setEnable for a non-wake handle: the algorithms whose sensors are
\* off are reset.
resetAlgos ==
  /\ \/ /\ "ID_GEOMAG_RV" \notin fusionEnabled'
        /\ geomagReset
        /\ UNCHANGED rvRestarted
     \/ /\ "ID_GEOMAG_RV" \in fusionEnabled'
        /\ rvRestarted' = IF "ID_RV" \notin fusionEnabled' THEN TRUE
                                                           ELSE rvRestarted
        /\ UNCHANGED geomag
  /\ \/ GameUsers \cap fusionEnabled' = {} /\ gameProcess(TRUE)
     \/ GameUsers \cap fusionEnabled' # {} /\ UNCHANGED gameInitialized
  /\ UNCHANGED <<accelSeen, mGeomagRVReady>>

-------------------------------------------------------------------------------
FEnable(h, en, bad) ==
  /\ ~ quiet
  /\ setEnable(h, en, bad)
  /\ IF h \in NonWake THEN resetAlgos ELSE UNCHANGED algos
  /\ UNCHANGED quiet

FActivate == \E h \in SensorList, en \in BOOLEAN, bad \in SUBSET Failing :
               FEnable(h, en, bad)

FDelay(h, ms, bad) ==
  /\ ~ quiet
  /\ setDelay(h, ms, bad)
  /\ UNCHANGED <<algos, quiet>>

FBatch == \E h \in SensorList, ms \in Periods, bad \in SUBSET Failing :
            FDelay(h, ms, bad)

\* The HAL process dies and is started again; its statics start over.
FConstruct(bad) ==
  /\ ~ quiet
  /\ Construct(bad)
  /\ accelSeen' = FALSE /\ magChanged' = "same"
  /\ geoInitialized' = FALSE /\ mag_cnt' = MAG_COUNTS /\ magSeen' = 0
  /\ mGeomagRVReady' = FALSE /\ gameInitialized' = FALSE
  /\ rvRestarted' = FALSE
  /\ UNCHANGED quiet

FRestart == \E bad \in SUBSET Failing : FConstruct(bad)

FallSilent == ~ quiet /\ quiet' = TRUE /\ UNCHANGED <<vars, algos>>

\* DT_MAG: the new value may repeat the old one, or the one the filter has.
DT_MAG ==
  /\ "mag" \in kernSensors
  /\ magChanged' \in {magChanged, "same", "new"}
  /\ UNCHANGED <<vars, accelSeen, geoInitialized, mag_cnt, magSeen,
                 mGeomagRVReady, gameInitialized, rvRestarted, quiet>>

\* DT_GLANCE runs into the case of DT_MAG, which takes the gesture's data for a
\* sample of the magnetometer.
DT_GLANCE ==
  /\ "M_GLANCE" \in kernWake
  /\ magChanged' \in {magChanged, "same", "glance"}
  /\ UNCHANGED <<vars, accelSeen, geoInitialized, mag_cnt, magSeen,
                 mGeomagRVReady, gameInitialized, rvRestarted, quiet>>

\* A slip the runs must catch: the filter does not run for the nine-axis sensor
\* alone.
DT_ACCEL_geomagOnly ==
  /\ "accel" \in kernSensors
  /\ accelSeen' = TRUE
  /\ \/ /\ "ID_GEOMAG_RV" \in fusionEnabled
        /\ geomagProcess
        /\ mGeomagRVReady' = geoInitialized'
     \/ /\ "ID_GEOMAG_RV" \notin fusionEnabled
        /\ UNCHANGED <<geomag, mGeomagRVReady>>
  /\ UNCHANGED <<vars, gameInitialized, rvRestarted, quiet>>

\* DT_ACCEL drives the six-axis filter while a geomagnetic sensor is on.
DT_ACCEL ==
  /\ "accel" \in kernSensors
  /\ accelSeen' = TRUE
  /\ \/ /\ {"ID_GEOMAG_RV", "ID_RV"} \cap fusionEnabled # {}
        /\ geomagProcess
        /\ mGeomagRVReady' = geoInitialized'
     \/ /\ {"ID_GEOMAG_RV", "ID_RV"} \cap fusionEnabled = {}
        /\ UNCHANGED <<geomag, mGeomagRVReady>>
  /\ UNCHANGED <<vars, gameInitialized, rvRestarted, quiet>>

\* DT_GYRO drives the game rotation vector and the nine-axis one, which starts
\* over while the six-axis filter is not ready.
DT_GYRO ==
  /\ "gyro" \in kernSensors
  /\ \/ GameUsers \cap fusionEnabled # {} /\ gameProcess(FALSE)
     \/ GameUsers \cap fusionEnabled = {} /\ UNCHANGED gameInitialized
  /\ rvRestarted' = IF "ID_RV" \in fusionEnabled THEN ~ mGeomagRVReady
                                                 ELSE rvRestarted
  /\ UNCHANGED <<vars, accelSeen, geomag, mGeomagRVReady, quiet>>

FInit ==
  /\ Init
  /\ accelSeen = FALSE /\ magChanged = "same"
  /\ geoInitialized = FALSE /\ mag_cnt = MAG_COUNTS /\ magSeen = 0
  /\ mGeomagRVReady = FALSE /\ gameInitialized = FALSE /\ rvRestarted = FALSE
  /\ quiet = FALSE

FNext == FActivate \/ FBatch \/ FRestart \/ FallSilent
           \/ DT_MAG \/ DT_GLANCE \/ DT_ACCEL \/ DT_GYRO

\* A stream that is on keeps delivering samples, a magnetometer's samples keep
\* changing, and not every change is undone before the next accelerometer
\* sample; the framework promises nothing.
NewMag   == DT_MAG /\ magChanged' = "new"
NewAccel == DT_ACCEL /\ magChanged = "new"
Fairness == /\ WF_fvars(DT_ACCEL)
            /\ WF_fvars(DT_GYRO)
            /\ WF_fvars(NewMag)
            /\ SF_fvars(NewAccel)

FSpec == FInit /\ [][FNext]_fvars /\ Fairness

-------------------------------------------------------------------------------
(* Properties.                                                             *)

\* "this guarantees that at least n-1 mag samples have been processed before
\* reporting that the 6-axis is initialized" (GeoMagRotationVector.cpp): counted
\* since the last reset.  The filter takes any change of its input for a sample,
\* the data of a glance gesture and a value left over from before the reset too.
GeoMagWarmUp == geoInitialized => magSeen >= MAG_COUNTS

\* When the framework has stopped making calls and has the rotation vector on,
\* the six-axis filter becomes ready and the nine-axis output stops starting
\* over: the resets by setEnable do not leave it stuck.
RotationVectorSettles ==
  [](quiet /\ "ID_RV" \in fusionEnabled
       => <>[](mGeomagRVReady /\ ~ rvRestarted))
=============================================================================
