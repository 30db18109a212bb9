------------------------------ MODULE MotoshHub -------------------------------
(***************************************************************************)
(* The HAL of the larger sensor hub (hardware-moto-sensors/motosh_hal):    *)
(* HubSensors.cpp, and SensorsPollContext::poll around its readEvents.     *)
(*                                                                         *)
(* A mask is the set of its bits; a bit of one handle is named by the      *)
(* handle.  The two compasses share M_ECOMPASS and, with the uncalibrated  *)
(* magnetometer, one rate; the two glances share M_GLANCE.  A report is    *)
(* named by its type and a glance by its handle; other events are only     *)
(* counted.  A request the driver refuses may have taken effect or not.    *)
(*                                                                         *)
(* A call is one step here, and so is turning a one-shot sensor off with   *)
(* its report: what is said of this HAL is said of calls that do not       *)
(* overlap.  The code has no lock that keeps them apart: the framework's   *)
(* thread calls setEnable and batch, and the poll thread calls setEnable   *)
(* from readEvents (lines 1047, 1057, 1093, 1119, 1161 and 1171).  What    *)
(* overlapping calls do to mWakeEnabled and mEnabledHandles is shown by    *)
(* module WakeMask, whose statements are those of lines 375 and 465-478    *)
(* too.                                                                    *)
(* The continuation of the step count is the one of module StepCounter.    *)
(***************************************************************************)
EXTENDS Integers, Sequences, FiniteSets, SequencesExt, FiniteSetsExt

CONSTANTS
  MotoHandles,   \* hubSensorList(): the handles the board has
  MotoDelays,    \* periods the framework asks for, in ms
  MotoCounts,    \* sizes of the framework's buffer
  MotoReports,   \* types of report the hub sends
  ErrorMax       \* errors that are told apart

MOTO_USHRT_MAX == 65535

Compasses    == {"ID_M", "ID_O"}
MagRate      == Compasses \cup {"ID_UNCALIB_MAG"}
GyroRate     == {"ID_G", "ID_UNCALIB_GYRO"}
MotoGlances  == {"ID_GLANCE_GESTURE", "ID_MOTO_GLANCE_GESTURE"}
MotoOneShots == MotoGlances \cup {"ID_SIM", "ID_MOTION_DETECT", "ID_STATIONARY_DETECT",
                                  "ID_IR_OBJECT"}
MotoWake     == (MotoOneShots \ {"ID_IR_OBJECT"}) \cup
                {"ID_P", "ID_FU", "ID_FD", "ID_S", "ID_CA", "ID_CHOPCHOP_GESTURE",
                 "ID_LIFT_GESTURE"}
MotoStreams  == MagRate \cup GyroRate \cup
                {"ID_A", "ID_PR", "ID_L", "ID_LA", "ID_GRAVITY", "ID_DR", "ID_STEP_COUNTER",
                 "ID_STEP_DETECTOR", "ID_QUAT_6AXIS", "ID_QUAT_9AXIS", "ID_GAME_RV",
                 "ID_MOTO_MOD_CURRENT_DRAIN", "ID_SENSOR_SYNC", "ID_IR_GESTURE", "ID_IR_RAW",
                 "ID_IR_OBJECT"}

\* The reports readEvents counts as errors, and those that make no event.
InvalidTypes == {"DT_RESET", "DT_PRESSURE", "DT_TEMP", "DT_DOCK", "DT_NFC"}
CalTypes     == {"DT_GYRO_CAL", "DT_ACCEL_CAL"}

ASSUME MotoAssumption ==
  /\ MotoHandles \subseteq MotoStreams \cup MotoWake /\ MotoDelays \subseteq Nat
  /\ MotoCounts \subseteq Nat \ {0} /\ ErrorMax \in Nat

VARIABLES
  moto,        \* HubSensors: masks, handles, requested and current rates
  drv,         \* the driver: masks and rates, and (history) which of them it refused
               \* last, or the HAL could not read when it started
  switched,    \* handles that were switched since the HAL started
  reading,     \* the call of poll in progress: its events, the glances among them, the room
  pendingEvents,
  owed,        \* glances the HAL owes the framework
  errors       \* mErrorCnt, and whether a report was filed in the last day

mvars == <<moto, drv, switched, reading, pendingEvents, owed, errors>>

NotReading == [on |-> FALSE, data |-> 0, glances |-> <<>>, room |-> 0]

Masks == {"sensors", "wake"}

\* The constructor: the masks are the driver's, those of them that GET_SENSORS and
\* GET_WAKESENSORS give, everything else is forgotten.  The calibrations it sends to the
\* hub are data.
Constructed(got) ==
  [mEnabled |-> IF "sensors" \in got THEN drv.sensors ELSE {},
   mWakeEnabled |-> IF "wake" \in got THEN drv.wake ELSE {}, mEnabledHandles |-> {},
   req |-> [h \in MagRate \cup GyroRate |-> MOTO_USHRT_MAX],
   mEcompassDelay |-> MOTO_USHRT_MAX, mGyroDelay |-> MOTO_USHRT_MAX]

\* A new process: what the HAL had not handed on is gone with the old one.
NewHal(d) ==
  /\ \E got \in SUBSET Masks :
       /\ moto' = Constructed(got)
       /\ drv' = [d EXCEPT !.refused = (@ \ Masks) \cup (Masks \ got)]
  /\ switched' = {} /\ reading' = NotReading /\ pendingEvents' = <<>> /\ owed' = <<>>
  /\ errors' = [cnt |-> 0, filed |-> FALSE]

HalRestarts == NewHal(drv)

MInit ==
  /\ drv = [sensors |-> {}, wake |-> {}, mag |-> MOTO_USHRT_MAX, gyro |-> MOTO_USHRT_MAX,
            refused |-> {}]
  /\ moto = Constructed(Masks) /\ switched = {} /\ reading = NotReading
  /\ pendingEvents = <<>> /\ owed = <<>> /\ errors = [cnt |-> 0, filed |-> FALSE]

-------------------------------------------------------------------------------
(* Rates                                                                   *)

isHandleEnabled(s, h) == h \in s.mEnabledHandles

\* The shortest period a sensor that is on asks for; mMagEnabled and its like are
\* set before mEnabledHandles, hence the argument.
minReqDelay(s, group, on) == Min({MOTO_USHRT_MAX} \cup {s.req[h] : h \in group \cap on})

\* SET_MAG_DELAY or SET_GYRO_DELAY: the new delay is remembered, whether or not
\* the driver takes it.
Rated(s, d, which, field, min) ==
  IF min = MOTO_USHRT_MAX THEN {<<[s EXCEPT ![field] = MOTO_USHRT_MAX], d>>}
  ELSE IF s[field] = min THEN {<<s, d>>}
  ELSE {<<[s EXCEPT ![field] = min], [d EXCEPT ![which] = min, !.refused = @ \ {which}]>>} \cup
       {<<[s EXCEPT ![field] = min], [d EXCEPT ![which] = k, !.refused = @ \cup {which}]>> :
          k \in {min, d[which]}}

updateEcompassRate_anyRequest(s, d, on) ==
  Rated(s, d, "mag", "mEcompassDelay", minReqDelay(s, MagRate, MagRate))

updateEcompassRate(s, d, on) ==
  Rated(s, d, "mag", "mEcompassDelay", minReqDelay(s, MagRate, on))

updateGyroRate(s, d, on) ==
  Rated(s, d, "gyro", "mGyroDelay", minReqDelay(s, GyroRate, on))

\* The rate the group of a handle shares; other handles share none.
RatesOf(s, d, h, on) ==
  IF h \in MagRate THEN updateEcompassRate(s, d, on)
  ELSE IF h \in GyroRate THEN updateGyroRate(s, d, on) ELSE {<<s, d>>}

-------------------------------------------------------------------------------
(* setEnable                                                               *)

Toggle(mask, bit, en) == IF en THEN mask \cup {bit} ELSE mask \ {bit}

\* The handles that are on as the m*Enabled members have it.
OnWith(s, h, en) == Toggle(s.mEnabledHandles, h, en)

\* A sensor that goes off asks for nothing.
Requests(s, h, en) == IF h \in DOMAIN s.req /\ ~en
                      THEN [s EXCEPT !.req[h] = MOTO_USHRT_MAX] ELSE s

\* M_ECOMPASS goes off only with the second of the two compasses.
StreamMask_either(s, h, en) ==
  LET own == IF h \in Compasses THEN s.mEnabled ELSE Toggle(s.mEnabled, h, en)
  IN  IF h \in MagRate THEN Toggle(own, "M_ECOMPASS", Compasses \subseteq OnWith(s, h, en)) ELSE own

StreamMask(s, h, en) ==
  LET own == IF h \in Compasses THEN s.mEnabled ELSE Toggle(s.mEnabled, h, en)
  IN  IF h \in MagRate
      THEN Toggle(own, "M_ECOMPASS", Compasses \cap OnWith(s, h, en) # {}) ELSE own

\* One glance leaves M_GLANCE to the other when that is on.  The case of the Moto
\* glance ends in the next one, that of M_MOTION_DETECT.
WakeMask(s, h, en) ==
  LET shared == IF h \in MotoGlances /\ ~\E g \in MotoGlances \ {h} : isHandleEnabled(s, g)
                THEN Toggle(s.mWakeEnabled, "M_GLANCE", en) ELSE s.mWakeEnabled
  IN  CASE h = "ID_GLANCE_GESTURE" -> shared
        [] h = "ID_MOTO_GLANCE_GESTURE" -> Toggle(shared, "ID_MOTION_DETECT", en)
        [] OTHER -> Toggle(s.mWakeEnabled, h, en)

\* SET_SENSORS and SET_WAKESENSORS, only where the mask changes; an error is not
\* returned, and the mask is taken for the driver's.
Masked(s, d, field, which, mask) ==
  IF mask = s[field] THEN {<<s, d>>}
  ELSE {<<[s EXCEPT ![field] = mask],
          [d EXCEPT ![which] = mask, !.refused = @ \ {which}]>>} \cup
       {<<[s EXCEPT ![field] = mask], [d EXCEPT ![which] = k, !.refused = @ \cup {which}]>> :
          k \in {mask, d[which]}}

\* What a call leaves in the HAL and in the driver.
AfterEnable(s0, d0, h, en) ==
  LET s    == Requests(s0, h, en)
      on   == OnWith(s, h, en)
      sens == UNION {IF h \in MotoStreams
                     THEN Masked(r[1], r[2], "mEnabled", "sensors", StreamMask(s, h, en))
                     ELSE {r} : r \in RatesOf(s, d0, h, on)}
      wake == UNION {IF h \in MotoWake
                     THEN Masked(r[1], r[2], "mWakeEnabled", "wake", WakeMask(s, h, en))
                     ELSE {r} : r \in sens}
  IN  {<<[r[1] EXCEPT !.mEnabledHandles = on], r[2]>> : r \in wake}

\* A handle the board does not have is refused.  Reading the calibration of the
\* magnetometer with the last compass, and writing its file, changes nothing here.
setEnable(h, en) ==
  /\ h \in MotoHandles
  /\ \E r \in AfterEnable(moto, drv, h, en) : moto' = r[1] /\ drv' = r[2]
  /\ switched' = switched \cup {h}
  /\ UNCHANGED <<reading, pendingEvents, owed, errors>>

\* The process dies in setEnable between the rate and the mask, as it may while it
\* writes that file, and is started again.
DiesRated(h, en) ==
  /\ h \in MotoHandles
  /\ \E r \in RatesOf(Requests(moto, h, en), drv, h, OnWith(moto, h, en)) : NewHal(r[2])

-------------------------------------------------------------------------------
(* batch and flush                                                         *)

\* The period is cut to 16 bits.
ToShort(ms) == ms % (MOTO_USHRT_MAX + 1)

\* The rates the compass and the gyroscopes share; the others go straight to the
\* driver or into a file, one byte of them, and none is kept here.
batch(h, ms) ==
  /\ h \in MotoHandles
  /\ LET s  == IF h \in DOMAIN moto.req THEN [moto EXCEPT !.req[h] = ToShort(ms)] ELSE moto
     IN  \E r \in RatesOf(s, drv, h, moto.mEnabledHandles) : moto' = r[1] /\ drv' = r[2]
  /\ UNCHANGED <<switched, reading, pendingEvents, owed, errors>>

\* flush: a one-shot sensor has nothing to flush; the hub answers with DT_FLUSH.
flush(h) == h \in MotoHandles \ MotoOneShots /\ UNCHANGED mvars

-------------------------------------------------------------------------------
(* poll and readEvents                                                     *)

\* The pending events that fit go first, and are no longer pending.
hasPendingEvents(n) ==
  LET k == Min({n, Len(pendingEvents)})
  IN  /\ reading' = [on |-> TRUE, data |-> k, glances |-> SubSeq(pendingEvents, 1, k),
                     room |-> n]
      /\ pendingEvents' = SubSeq(pendingEvents, k + 1, Len(pendingEvents))

\* poll: pending events are read before anything is waited for.
PollBegin ==
  /\ ~reading.on
  /\ \E n \in MotoCounts : hasPendingEvents(n)
  /\ UNCHANGED <<moto, drv, switched, owed, errors>>

bufferFull(data) == data >= reading.room

\* The sensor of a report; one-shot sensors are turned off by theirs.
Handle(t) == CASE t = "DT_SIM" -> "ID_SIM" [] t = "DT_MOTION_DETECT" -> "ID_MOTION_DETECT"
               [] t = "DT_STATIONARY_DETECT" -> "ID_STATIONARY_DETECT"
               [] t = "DT_IR_OBJECT" -> "ID_IR_OBJECT" [] OTHER -> "ID_A"

\* The glances that are on, the Moto glance first: their events, and what turning
\* them off leaves.
GlanceOn(s) ==
  LET event(h) == IF isHandleEnabled(s, h) THEN <<h>> ELSE <<>>
  IN  event("ID_MOTO_GLANCE_GESTURE") \o event("ID_GLANCE_GESTURE")

GlanceOff(s, d, h) == IF isHandleEnabled(s, h) THEN AfterEnable(s, d, h, FALSE) ELSE {<<s, d>>}

GlancesOff(s, d) == UNION {GlanceOff(r[1], r[2], "ID_GLANCE_GESTURE") :
                             r \in GlanceOff(s, d, "ID_MOTO_GLANCE_GESTURE")}

\* Of both, the second one waits when the buffer is full.
GlancePut_overrun(evs) ==
  /\ reading' = [reading EXCEPT !.data = @ + Len(evs), !.glances = @ \o evs]
  /\ UNCHANGED pendingEvents

GlancePut(evs) ==
  LET fit == Min({Len(evs), reading.room - reading.data})
  IN  /\ reading' = [reading EXCEPT !.data = @ + fit, !.glances = @ \o SubSeq(evs, 1, fit)]
      /\ pendingEvents' = pendingEvents \o SubSeq(evs, fit + 1, Len(evs))

ReadGlance ==
  LET evs == GlanceOn(moto)
  IN  /\ GlancePut(evs)
      /\ \E r \in GlancesOff(moto, drv) : moto' = r[1] /\ drv' = r[2]
      /\ switched' = switched \cup {h \in MotoGlances : isHandleEnabled(moto, h)}
      /\ owed' = owed \o evs
      /\ UNCHANGED errors

\* An error is counted; once a day the counts are filed, and start again if the
\* file can be written.
ReadInvalid ==
  /\ errors' \in IF errors.filed THEN {[errors EXCEPT !.cnt = Min({ErrorMax, @ + 1})]}
                 ELSE {[cnt |-> 0, filed |-> TRUE],
                       [cnt |-> Min({ErrorMax, errors.cnt + 1}), filed |-> TRUE]}
  /\ UNCHANGED <<moto, drv, switched, reading, pendingEvents, owed>>

\* Any other report is one event; a one-shot sensor is turned off.
ReadEvent(t) ==
  LET h == Handle(t)
  IN  /\ reading' = [reading EXCEPT !.data = @ + 1]
      /\ IF h \in MotoOneShots /\ h \in MotoHandles
         THEN /\ \E r \in AfterEnable(moto, drv, h, FALSE) : moto' = r[1] /\ drv' = r[2]
              /\ switched' = switched \cup {h}
         ELSE UNCHANGED <<moto, drv, switched>>
      /\ UNCHANGED <<pendingEvents, owed, errors>>

\* One report of the hub, which may be late: its sensor may be off by now.
ReadReport ==
  /\ reading.on /\ ~bufferFull(reading.data)
  /\ \E t \in MotoReports :
       IF t = "DT_GLANCE" THEN ReadGlance
       ELSE IF t \in InvalidTypes THEN ReadInvalid
       ELSE IF t \in CalTypes THEN UNCHANGED mvars
       ELSE ReadEvent(t)

\* The queue is empty, or the buffer full, and the events go to the framework.  Or
\* read() fails, or the rear proximity sensor, which is read after the hub, gives no
\* event, as it does when the hub has filled the buffer: then poll returns nothing,
\* and they are gone.  Either way the HAL does not have them any more.
PollReturn ==
  /\ reading.on /\ reading' = NotReading
  /\ owed' = SubSeq(owed, Len(reading.glances) + 1, Len(owed))
  /\ UNCHANGED <<moto, drv, switched, pendingEvents, errors>>

DayPasses == /\ errors.filed /\ errors' = [errors EXCEPT !.filed = FALSE]
             /\ UNCHANGED <<moto, drv, switched, reading, pendingEvents, owed>>

MCalls(hs) ==
  \E h \in hs : \/ \E en \in BOOLEAN : setEnable(h, en)
                \/ \E ms \in MotoDelays : batch(h, ms)
                \/ flush(h)

MReads == PollBegin \/ ReadReport \/ PollReturn \/ DayPasses

MDies(hs) == HalRestarts \/ \E h \in hs, en \in BOOLEAN : DiesRated(h, en)

MNext == MCalls(MotoHandles) \/ MReads \/ MDies(MotoHandles)

MSpec == MInit /\ [][MNext]_mvars

-------------------------------------------------------------------------------
(* Properties                                                              *)

MTypeOK ==
  /\ moto.mEnabled \subseteq MotoStreams \cup {"M_ECOMPASS"}
  /\ moto.mWakeEnabled \subseteq MotoWake \cup {"M_GLANCE"}
  /\ moto.mEnabledHandles \subseteq MotoHandles
  /\ drv.refused \subseteq Masks \cup {"mag", "gyro"} /\ errors.cnt \in 0 .. ErrorMax

\* The bits of the handles that were switched, in a mask of streams and in one of wake
\* sensors.
StreamsFollow(mask) ==
  LET on == moto.mEnabledHandles
  IN  /\ \A h \in switched \cap (MotoStreams \ Compasses) : h \in mask <=> h \in on
      /\ switched \cap MagRate # {} => ("M_ECOMPASS" \in mask <=> Compasses \cap on # {})

WakesFollow(mask) ==
  LET on == moto.mEnabledHandles
  IN  /\ switched \cap MotoGlances # {} => ("M_GLANCE" \in mask <=> MotoGlances \cap on # {})
      /\ \A h \in switched \cap (MotoWake \ MotoGlances) :
           h # "ID_MOTION_DETECT" \/ "ID_MOTO_GLANCE_GESTURE" \notin switched =>
             (h \in mask <=> h \in on)

\* Bits that several handles share follow all of them: M_ECOMPASS is on as long as
\* a compass is, M_GLANCE as long as a glance is, and every other bit with its own
\* handle, in whatever order they are switched and also when the HAL starts with the
\* masks of its predecessor.  It holds of the masks the HAL remembers, and of those of
\* the driver unless it refused the last one or the HAL could not read it when it
\* started.  M_MOTION_DETECT is excepted once the Moto glance has been switched, whose
\* case runs into it.  Calls must not overlap, which the code does not see to: for
\* overlapping ones see OneShotStaysOff of module WakeMask (HubSensors.cpp: setEnable).
MasksFollowHandles ==
  /\ StreamsFollow(moto.mEnabled) /\ WakesFollow(moto.mWakeEnabled)
  /\ "sensors" \notin drv.refused => StreamsFollow(drv.sensors)
  /\ "wake" \notin drv.refused => WakesFollow(drv.wake)

\* The magnetometer and the gyroscope run at the shortest period any of their
\* sensors that is on asked for, unless the driver refused it; of calls that do not
\* overlap (HubSensors.cpp: updateEcompassRate, updateGyroRate).
SharedRateHeld ==
  LET Holds(which, group) ==
        LET min == minReqDelay(moto, group, moto.mEnabledHandles)
        IN  which \notin drv.refused /\ min # MOTO_USHRT_MAX => drv[which] = min
  IN  Holds("mag", MagRate) /\ Holds("gyro", GyroRate)

\* A glance that both glance sensors report is written within the framework's
\* buffer or kept for the next call, and none is lost or given twice, but for what
\* a failing poll had in hand (HubSensors.cpp: readEvents, pendingEvents).
GlancesKept ==
  /\ reading.data <= reading.room /\ Len(reading.glances) <= reading.data
  /\ reading.glances \o pendingEvents = owed
===============================================================================
