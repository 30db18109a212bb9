----------------------------- MODULE SensorsPoll ------------------------------
(***************************************************************************)
(* The poll path of the sensor HAL: poll__poll (SensorHal.cpp) calls       *)
(* SensorsPollContext::pollEvents until there are events; pollEvents waits *)
(* for the drivers and lets each fill the framework's buffer in turn       *)
(* (HubSensors::readEvents, RearProxSensor::readEvents).  Sensors are      *)
(* turned on and off while the poll thread works.                          *)
(*                                                                         *)
(* The contents of events are left out: what counts is how many events a   *)
(* report of the hub becomes, which depends on the sensors that are on.    *)
(***************************************************************************)
EXTENDS Integers, Sequences, FiniteSets

CONSTANTS
  SensorList,  \* the handles the framework may turn on
  Reports,     \* the types of report the hub sends
  Count,       \* the count argument of poll: slots in the framework's buffer
  QueueMax,    \* bound on the hub's queue of reports
  FrameMax,    \* bound on the frames each rear proximity device has pending
  ReaderFrames \* capacity of an mInputReader, in frames (an ABS and a SYN
               \* event each; the readers hold 8 events)

RearProx == {"rearprox", "rearprox_2"}
Drivers  == {"sensor_hub"} \cup RearProx

\* The sensors that may get an event from a report, if they are on.
Fused == [DT_ACCEL  |-> {"ID_A", "ID_GEOMAG_RV"},
          DT_GYRO   |-> {"ID_G", "ID_GAME_RV", "ID_LA", "ID_GRAVITY", "ID_RV"},
          DT_MAG    |-> {"ID_M"},
          \* The case has no break and goes on into that of DT_MAG.
          DT_GLANCE |-> {"ID_GLANCE_GESTURE", "ID_MOTO_GLANCE_GESTURE", "ID_M"}]

\* Reports the HAL handles without an event.
Internal == {"DT_RESET", "DT_GYRO_CAL", "DT_ACCEL_CAL"}

\* The one-shot sensors' reports; the other types become one event each.
OneShotOf == [DT_MOTION_DETECT     |-> "ID_MOTION_DETECT",
              DT_STATIONARY_DETECT |-> "ID_STATIONARY_DETECT"]

ASSUME PollConstants == {Count, QueueMax, FrameMax, ReaderFrames} \subseteq Nat

VARIABLES
  on,        \* enabled sensors (mFusionSensors[].enabled, mEnabledHandles)
  hubQueue,  \* reports the hub has ready
  frames,    \* frames each rear proximity device has ready
  buffered,  \* frames in each RearProxSensor's mInputReader
  pc,        \* where the poll thread is: blocked in poll(), or at a driver
  revents,   \* the drivers poll() found readable
  nbEvents,  \* events written to the framework's buffer so far
  failed     \* history: a read of the hub failed since poll() returned

vars == <<on, hubQueue, frames, buffered, pc, revents, nbEvents, failed>>

TypeOK ==
  /\ on \subseteq SensorList
  /\ hubQueue \in Seq(Reports) /\ Len(hubQueue) <= QueueMax
  /\ frames \in [RearProx -> 0 .. FrameMax]
  /\ buffered \in [RearProx -> 0 .. ReaderFrames]
  /\ pc \in {"blocked"} \cup Drivers
  /\ revents \subseteq Drivers
  /\ nbEvents \in Nat
  /\ failed \in BOOLEAN

Init == /\ on = {} /\ hubQueue = << >>
        /\ frames = [d \in RearProx |-> 0] /\ buffered = [d \in RearProx |-> 0]
        /\ pc = "blocked" /\ revents = {} /\ nbEvents = 0
        /\ failed = FALSE

-------------------------------------------------------------------------------
(* The framework and the devices.                                          *)

Activate(h) == /\ on' = IF h \in on THEN on \ {h} ELSE on \cup {h}
               /\ UNCHANGED <<hubQueue, frames, buffered, pc, revents, nbEvents, failed>>

HubReports(r) == /\ Len(hubQueue) < QueueMax
                 /\ hubQueue' = Append(hubQueue, r)
                 /\ UNCHANGED <<on, frames, buffered, pc, revents, nbEvents, failed>>

NearFar(d) == /\ frames[d] < FrameMax
              /\ frames' = [frames EXCEPT ![d] = @ + 1]
              /\ UNCHANGED <<on, hubQueue, buffered, pc, revents, nbEvents, failed>>

-------------------------------------------------------------------------------
(* The poll thread.                                                        *)

Readable == {d \in Drivers : IF d = "sensor_hub" THEN hubQueue # << >>
                                                 ELSE frames[d] > 0}

\* pollEvents: poll() returns when a driver is readable.
Poll == /\ pc = "blocked"
        /\ Readable # {}
        /\ revents' = Readable
        /\ nbEvents' = 0
        /\ failed' = FALSE
        /\ pc' = "sensor_hub"
        /\ UNCHANGED <<on, hubQueue, frames, buffered>>

\* A slip the runs must catch: a report is read whenever there is a free slot.
RoomForOne == nbEvents < Count

\* A slip the runs must catch: one slot more than the caller has is kept free.
RoomForFive == nbEvents < Count - 4

\* data < dataEnd: readEvents keeps four slots free for the next report.
RoomForReport == nbEvents < Count - 3

\* The events readEvents makes of a report.
Events(r) == CASE r \in DOMAIN Fused -> Cardinality(Fused[r] \cap on)
               [] r \in Internal -> 0
               [] OTHER -> 1

\* One turn of the loop of HubSensors::readEvents, for the report in its buffer.
HandleReport(r) ==
  /\ pc = "sensor_hub" /\ "sensor_hub" \in revents
  /\ RoomForReport
  /\ nbEvents' = nbEvents + Events(r)
  /\ on' = IF r \in DOMAIN OneShotOf THEN on \ {OneShotOf[r]} ELSE on

ReadReport ==
  /\ hubQueue # << >>
  /\ HandleReport(Head(hubQueue))
  /\ hubQueue' = Tail(hubQueue)
  /\ UNCHANGED <<frames, buffered, pc, revents, failed>>

\* A failing read is not 0 either, so the turn handles what the buffer holds: the
\* report before, or what was on the stack.
ReadFails ==
  /\ \E r \in Reports : HandleReport(r)
  /\ failed' = TRUE
  /\ UNCHANGED <<hubQueue, frames, buffered, pc, revents>>

\* pollEvents goes on to the next driver while count is not 0, and returns.
After(d, n) == IF n = Count \/ d = "rearprox_2" THEN "blocked"
               ELSE IF d = "rearprox" THEN "rearprox_2" ELSE "rearprox"

HubDone ==
  /\ pc = "sensor_hub"
  /\ "sensor_hub" \in revents => ~ RoomForReport \/ hubQueue = << >>
  /\ pc' = After("sensor_hub", nbEvents)
  /\ UNCHANGED <<on, hubQueue, frames, buffered, revents, nbEvents, failed>>

Smaller(a, b) == IF a < b THEN a ELSE b

\* A slip the runs must catch: the read is not limited to the reader's room.
ReadRearProx_noLimit(d) ==
  /\ pc = d /\ d \in revents
  /\ Count - nbEvents >= 1
  /\ LET out == Smaller(buffered[d] + frames[d], Count - nbEvents)
     IN  /\ frames' = [frames EXCEPT ![d] = 0]
         /\ buffered' = [buffered EXCEPT ![d] = @ + frames[d] - out]
         /\ nbEvents' = nbEvents + out
         /\ pc' = After(d, nbEvents + out)
  /\ UNCHANGED <<on, hubQueue, revents, failed>>

\* RearProxSensor::readEvents: fill the reader, hand out what fits.
ReadRearProx(d) ==
  /\ pc = d /\ d \in revents
  /\ Count - nbEvents >= 1
  /\ LET read == Smaller(frames[d], ReaderFrames - buffered[d])
         out  == Smaller(buffered[d] + read, Count - nbEvents)
     IN  /\ frames' = [frames EXCEPT ![d] = @ - read]
         /\ buffered' = [buffered EXCEPT ![d] = @ + read - out]
         /\ nbEvents' = nbEvents + out
         /\ pc' = After(d, nbEvents + out)
  /\ UNCHANGED <<on, hubQueue, revents, failed>>

\* The driver was not readable, the buffer is already overfull, or the read of
\* the input device fails: nothing is handed out.
SkipRearProx(d) ==
  /\ pc = d
  /\ pc' = After(d, nbEvents)
  /\ UNCHANGED <<on, hubQueue, frames, buffered, revents, nbEvents, failed>>

PollThread == Poll \/ ReadReport \/ ReadFails \/ HubDone
                \/ \E d \in RearProx : ReadRearProx(d) \/ SkipRearProx(d)

Next == \/ \E h \in SensorList : Activate(h)
        \/ \E r \in Reports : HubReports(r)
        \/ \E d \in RearProx : NearFar(d)
        \/ PollThread

\* The poll thread is scheduled; nothing else is promised.
Spec == Init /\ [][Next]_vars /\ WF_vars(PollThread)

-------------------------------------------------------------------------------
(* Properties.                                                             *)

\* "The number of events returned in data must be less or equal to the count
\* argument" (poll__poll): no driver writes past the framework's buffer.
EventsFit == nbEvents <= Count

\* A full queue of the hub is always read again, whatever sensors are on: the
\* slots readEvents keeps free never stop it for good.  A read that fails is
\* excepted: the loop takes it for a report, and for as long as reads fail and the
\* buffer's report makes no event the poll thread never leaves it.
BacklogDrains == (Len(hubQueue) = QueueMax) ~> (Len(hubQueue) < QueueMax \/ failed)
=============================================================================
