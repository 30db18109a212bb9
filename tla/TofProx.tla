------------------------------- MODULE TofProx --------------------------------
(***************************************************************************)
(* The rear proximity sensor over the time-of-flight camera sensor         *)
(* (hardware-moto-sensors/tof_hal/RearProxSensor.cpp).                     *)
(*                                                                         *)
(* The driver measures by itself and reports only while the distance is    *)
(* past a threshold.  Which one is its configuration, which the HAL turns  *)
(* round each time it has settled on CLOSE or FAR.  Two threads share the  *)
(* object without a lock: one calls setEnable, flush and batch, the other  *)
(* handles what the driver reports.  A step is one input event, or one     *)
(* call of the driver.                                                     *)
(*                                                                         *)
(* Distances are near (up to the low threshold), far (from the high one    *)
(* on) and mid.  The weight is only compared with its ceiling and stays    *)
(* there once it is reached.                                               *)
(***************************************************************************)
EXTENDS Naturals, Sequences, Functions

CONSTANTS
  Targets,       \* where the object may be
  TofCounts,     \* sizes of the buffer passed to poll
  TofDelays,     \* periods passed to batch, in ms
  ReaderEvents,  \* capacity of mInputReader (8)
  MaxEvents      \* bound on the events waiting in the kernel

VARIABLES
  mFilePath,  \* "": not looked for yet; "found"; or "stray", another device's
  rp,         \* the members of RearProxSensor
  call,       \* setEnable: what it still has to do
  poll,       \* readEvents: what it does next, room left, and the mode to set
  reader,     \* mInputReader
  tof,        \* the driver: measuring, configured crossing, poll period
  events,     \* input events not yet read
  lastInput,  \* the distance the input core saw last; it drops a repeated one
  target,     \* where the object in front of the sensor is
  told,       \* history: the distance reported since the sensor was enabled
  raced       \* history: enabling overlapped a change of the configuration

tvars == <<mFilePath, rp, call, poll, reader, tof, events, lastInput, target,
           told, raced>>

DETECT_WEIGHT_CEILING == 2

Distances == {"near", "mid", "far"}

ASSUME TofAssumption ==
  /\ Targets \subseteq Distances /\ TofCounts \subseteq Nat
  /\ ReaderEvents \in Nat /\ MaxEvents \in Nat

TTypeOK ==
  /\ mFilePath \in {"", "stray", "found"}
  /\ rp \in [mEnabled : BOOLEAN, mFlushEnabled : BOOLEAN,
             mDetectDistance : {"CLOSE", "FAR"},
             mDetectWeight : 0 .. DETECT_WEIGHT_CEILING, mDetectMode : {"LOW", "HIGH"},
             mCurrentDistance : Distances, mTimestampUpdated : BOOLEAN,
             mSendData : BOOLEAN, distance : {"none", "CLOSE", "FAR"}]
  /\ call \in [pc : {"idle", "config", "sar"}, en : BOOLEAN]
  /\ poll \in [pc : {"wait", "loop", "config", "resume"}, room : Nat,
               mode : {"LOW", "HIGH"}]
  /\ Len(reader) <= ReaderEvents /\ Len(events) <= MaxEvents
  /\ tof \in [sar : BOOLEAN, mode : {"LOW", "HIGH"}, delay : TofDelays \cup {0}]
  /\ {lastInput, target} \subseteq Distances
  /\ told \in {"none", "CLOSE", "FAR"} /\ raced \in BOOLEAN

TInit ==
  /\ mFilePath = ""
  /\ rp = [mEnabled |-> FALSE, mFlushEnabled |-> FALSE, mDetectDistance |-> "CLOSE",
           mDetectWeight |-> 0, mDetectMode |-> "HIGH", mCurrentDistance |-> "near",
           mTimestampUpdated |-> FALSE, mSendData |-> FALSE, distance |-> "none"]
  /\ call = [pc |-> "idle", en |-> FALSE]
  /\ poll = [pc |-> "wait", room |-> 0, mode |-> "HIGH"]
  /\ tof = [sar |-> FALSE, mode |-> "HIGH", delay |-> 0]
  /\ reader = << >> /\ events = << >>
  /\ lastInput = "near" /\ target \in Targets
  /\ told = "none" /\ raced = FALSE

-------------------------------------------------------------------------------
(* The driver's files; without the path of the device none of them opens.  *)

\* setSARConfig: what the object remembers follows what the driver was given.
setSARConfig(mode) ==
  IF mFilePath = "found"
  THEN tof' = [tof EXCEPT !.mode = mode] /\ rp' = [rp EXCEPT !.mDetectMode = mode]
  ELSE UNCHANGED <<tof, rp>>

\* enableSAR with MODE_SAR_ON and MODE_SAR_RESUME, or with MODE_SAR_OFF.
enableSAR(on) == tof' = [tof EXCEPT !.sar = IF mFilePath = "found" THEN on ELSE @]

-------------------------------------------------------------------------------
(* The calls of the framework.                                             *)

\* findPathByAttr leaves the path it looked at last when the device is not
\* there, and only an empty path is looked for again.
findPathByAttr == IF mFilePath = "" THEN mFilePath' \in {"", "stray", "found"}
                                    ELSE UNCHANGED mFilePath

\* The poll thread has begun to turn the configuration round, or has a report
\* it has not delivered.
Turning == poll.pc \in {"config", "resume"} \/ rp.mSendData

\* setEnable as far as its first call of the driver.  A new user knows nothing
\* of the distance yet, and no user asks for it.
setEnable(en) ==
  /\ call.pc = "idle"
  /\ findPathByAttr
  /\ rp' = [rp EXCEPT !.mEnabled = en, !.mDetectDistance = IF en THEN "CLOSE" ELSE @]
  /\ call' = [pc |-> IF en THEN "config" ELSE "sar", en |-> en]
  /\ told' = "none"
  /\ raced' = (en /\ Turning)
  /\ UNCHANGED <<poll, reader, tof, events, lastInput, target>>

\* A slip the runs must catch: the configuration is not written again.
EnableConfig_skipped ==
  /\ call.pc = "config"
  /\ call' = [call EXCEPT !.pc = "sar"]
  /\ UNCHANGED <<rp, tof, mFilePath, poll, reader, events, lastInput, target, told, raced>>

EnableConfig ==
  /\ call.pc = "config"
  /\ setSARConfig("HIGH")
  /\ call' = [call EXCEPT !.pc = "sar"]
  /\ UNCHANGED <<mFilePath, poll, reader, events, lastInput, target, told, raced>>

EnableSAR ==
  /\ call.pc = "sar"
  /\ enableSAR(call.en)
  /\ call' = [call EXCEPT !.pc = "idle", !.en = FALSE]
  /\ UNCHANGED <<mFilePath, rp, poll, reader, events, lastInput, target, told, raced>>

\* batch writes the period; it does not look for the device.
tofBatch(ms) ==
  /\ mFilePath = "found"
  /\ tof' = [tof EXCEPT !.delay = ms]
  /\ UNCHANGED <<mFilePath, rp, call, poll, reader, events, lastInput, target, told, raced>>

\* The driver reports in packets; es are the events of one.
Emit(es) ==
  /\ Len(events) + Len(es) <= MaxEvents
  /\ events' = events \o es
  /\ UNCHANGED <<mFilePath, rp, call, poll, reader, tof, target, told, raced>>

\* The bound on flushes: one at a time.
NoFlush == ~rp.mFlushEnabled /\ "ABS_GAS" \notin Range(reader \o events)

\* flush makes the driver answer with an event of its own.
tofFlush == mFilePath = "found" /\ NoFlush /\ Emit(<<"ABS_GAS", "SYN">>) /\ UNCHANGED lastInput

-------------------------------------------------------------------------------
(* The driver and what it looks at.                                        *)

\* The distance is past the threshold the driver was configured to watch.
Crossed == \/ tof.mode = "HIGH" /\ target = "far"
           \/ tof.mode = "LOW" /\ target = "near"

\* A measurement: a new time stamp and the distance, unless that is what the
\* input core saw last; an answer to flush may come between.
Measure ==
  /\ tof.sar /\ (Crossed \/ target = "mid")
  /\ \/ Emit(<<"ABS_HAT0Y", target, "SYN">>)
     \/ NoFlush /\ Emit(<<"ABS_HAT0Y", target, "ABS_GAS", "SYN">>)
     \/ lastInput = target /\ Emit(<<"ABS_HAT0Y", "SYN">>)
  /\ lastInput' = target

Move == /\ target' \in Targets \ {target}
        /\ UNCHANGED <<mFilePath, rp, call, poll, reader, tof, events, lastInput, told, raced>>

-------------------------------------------------------------------------------
(* The poll thread.                                                        *)

\* fill: as many events as the reader has room for.  A failed read leaves
\* everything as it is.
tofFill ==
  LET free == ReaderEvents - Len(reader)
      n    == IF Len(events) < free THEN Len(events) ELSE free
  IN  /\ reader' = reader \o SubSeq(events, 1, n)
      /\ events' = SubSeq(events, n + 1, Len(events))

\* poll: nothing is ever pending, so that it sleeps until the device has
\* something to read.
PollReturns ==
  /\ poll.pc = "wait" /\ events # << >>
  /\ \E c \in TofCounts : poll' = [poll EXCEPT !.pc = "loop", !.room = c]
  /\ tofFill
  /\ UNCHANGED <<mFilePath, rp, call, tof, lastInput, target, told, raced>>

\* The side of the thresholds a distance is on, and the weight it gives.
Side(d) == CASE d = "near" -> "CLOSE" [] d = "far" -> "FAR"
             [] OTHER -> rp.mDetectDistance

Weight(d) ==
  IF d = "mid" THEN rp.mDetectWeight
  ELSE IF Side(d) # rp.mDetectDistance THEN 1
       ELSE IF rp.mDetectWeight < DETECT_WEIGHT_CEILING THEN rp.mDetectWeight + 1
            ELSE DETECT_WEIGHT_CEILING

\* handleSARprocess, up to its calls of the driver.  r is the object with the
\* caller's own assignments, left the reader when it is done.
handleSARprocess(d, r, left) ==
  LET settled == Weight(d) = DETECT_WEIGHT_CEILING
      mode    == IF Side(d) = "CLOSE" THEN "HIGH" ELSE "LOW"
      turns   == settled /\ rp.mDetectMode # mode
  IN  /\ rp' = [r EXCEPT !.mDetectDistance = Side(d), !.mDetectWeight = Weight(d),
                         !.distance = IF settled THEN Side(d) ELSE @]
      /\ IF turns THEN /\ enableSAR(FALSE)
                       /\ poll' = [poll EXCEPT !.pc = "config", !.mode = mode]
                       /\ raced' = (raced \/ call.pc # "idle")
                  ELSE UNCHANGED <<tof, poll, raced>>
      /\ reader' = left
      /\ UNCHANGED told

\* The two calls of the driver that finish it.
TurnConfig ==
  /\ poll.pc = "config"
  /\ setSARConfig(poll.mode)
  /\ poll' = [poll EXCEPT !.pc = "resume"]
  /\ UNCHANGED <<mFilePath, call, reader, events, lastInput, target, told, raced>>

\* A slip the runs must catch: the report waits until the driver runs again.
TurnResume_noData ==
  /\ poll.pc = "resume"
  /\ enableSAR(TRUE)
  /\ poll' = [poll EXCEPT !.pc = "loop", !.mode = "HIGH"]
  /\ UNCHANGED <<rp, mFilePath, call, reader, events, lastInput, target, told, raced>>

TurnResume ==
  /\ poll.pc = "resume"
  /\ enableSAR(TRUE)
  /\ rp' = [rp EXCEPT !.mSendData = TRUE]
  /\ poll' = [poll EXCEPT !.pc = "loop", !.mode = "HIGH"]
  /\ UNCHANGED <<mFilePath, call, reader, events, lastInput, target, told, raced>>

\* processEvent: a distance without a time stamp is handled at once.
processEvent(e) ==
  \/ /\ e \in Distances /\ ~rp.mTimestampUpdated
     /\ handleSARprocess(e, [rp EXCEPT !.mCurrentDistance = e], Tail(reader))
  \/ /\ e \in {"ABS_HAT0Y", "ABS_GAS"} \/ (e \in Distances /\ rp.mTimestampUpdated)
     /\ rp' = CASE e = "ABS_HAT0Y" -> [rp EXCEPT !.mTimestampUpdated = TRUE]
                [] e = "ABS_GAS"   -> [rp EXCEPT !.mFlushEnabled = TRUE]
                [] OTHER           -> [rp EXCEPT !.mCurrentDistance = e]
     /\ reader' = Tail(reader)
     /\ UNCHANGED <<tof, poll, told, raced>>

\* EV_SYN: the answer to flush goes out in place of everything else; otherwise
\* a measurement is handled, and what it leads to goes out.
EV_SYN ==
  \/ /\ rp.mFlushEnabled
     /\ rp' = [rp EXCEPT !.mFlushEnabled = FALSE]
     /\ poll' = [poll EXCEPT !.room = @ - 1]
     /\ reader' = Tail(reader)
     /\ UNCHANGED <<tof, told, raced>>
  \/ /\ ~rp.mFlushEnabled /\ rp.mTimestampUpdated
     /\ handleSARprocess(rp.mCurrentDistance,
                         [rp EXCEPT !.mTimestampUpdated = FALSE], reader)
  \/ /\ ~rp.mFlushEnabled /\ ~rp.mTimestampUpdated
     /\ rp' = [rp EXCEPT !.mSendData = FALSE]
     /\ told' = IF rp.mSendData /\ rp.mEnabled THEN rp.distance ELSE told
     /\ poll' = [poll EXCEPT !.room = IF rp.mSendData THEN @ - 1 ELSE @]
     /\ reader' = Tail(reader)
     /\ UNCHANGED <<tof, raced>>

\* One turn of the loop of readEvents.
ReadEvent ==
  /\ poll.pc = "loop" /\ poll.room > 0 /\ reader # << >>
  /\ LET e == Head(reader)
     IN  \/ e = "SYN" /\ EV_SYN
         \/ e # "SYN" /\ rp.mEnabled /\ processEvent(e)
         \/ /\ e # "SYN" /\ ~rp.mEnabled
            /\ reader' = Tail(reader) /\ UNCHANGED <<rp, tof, poll, told, raced>>
  /\ UNCHANGED <<mFilePath, call, events, lastInput, target>>

ReadReturns ==
  /\ poll.pc = "loop" /\ (poll.room = 0 \/ reader = << >>)
  /\ poll' = [poll EXCEPT !.pc = "wait"]
  /\ UNCHANGED <<mFilePath, rp, call, reader, tof, events, lastInput, target, told, raced>>

-------------------------------------------------------------------------------
TofPoll == PollReturns \/ ReadEvent \/ TurnConfig \/ TurnResume \/ ReadReturns

TofCall == EnableConfig \/ EnableSAR

TNext == TofPoll \/ TofCall \/ Measure \/ Move \/ tofFlush
           \/ (\E en \in BOOLEAN : setEnable(en)) \/ \E ms \in TofDelays : tofBatch(ms)

\* Both threads are scheduled; a measurement past the watched threshold is
\* reported in the end, by itself and with other millimetres than the last,
\* however many flushes there are.
TFairness == /\ WF_tvars(TofPoll) /\ WF_tvars(TofCall)
             /\ SF_tvars(Measure /\ events' = events \o <<"ABS_HAT0Y", target, "SYN">>)

TSpec == TInit /\ [][TNext]_tvars /\ TFairness

-------------------------------------------------------------------------------
(* Properties.                                                             *)

\* What the user of an enabled sensor was told last, and the crossing the driver
\* watches, fit together: told FAR, it watches for something coming near, and
\* otherwise for it going away, so that no change can be missed.  Excepted is a
\* sensor enabled while the poll thread was turning the configuration round
\* (setEnable, handleSARprocess, readEvents).
ToldIsWatched ==
  (rp.mEnabled /\ call.pc = "idle" /\ mFilePath = "found" /\ ~Turning /\ ~raced)
    => /\ tof.sar /\ tof.mode = rp.mDetectMode
       /\ (told = "FAR") <=> (tof.mode = "LOW")

\* A sensor that stays on, with nothing in front of it, ends up telling FAR, in
\* whatever way enabling it, flushes and reports have overlapped before.
FarTold ==
  <>[](rp.mEnabled /\ call.pc = "idle" /\ mFilePath = "found" /\ target = "far")
    => <>[](told = "FAR")
=============================================================================
