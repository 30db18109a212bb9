------------------------------ MODULE RangeProx -------------------------------
(***************************************************************************)
(* The rear proximity sensor over the laser ranging driver                 *)
(* (hardware-moto-sensors/vl53l0_hal: RearProxSensor.cpp, SensorBase.cpp,  *)
(* SensorsPollContext.cpp).                                                *)
(*                                                                         *)
(* The driver decides between near and far by itself.  The HAL keeps the   *)
(* distance of the report it is reading and hands out an event for each    *)
(* SYN, and one more for each answer to flush.  It does not look at        *)
(* mEnabled or mFlushEnabled when it reads, so that the thread that calls  *)
(* setEnable, batch and flush and the poll thread share the driver only.   *)
(* A step is a call, or one input event.                                   *)
(***************************************************************************)
EXTENDS Naturals, Sequences, FiniteSets

CONSTANTS
  RangeReader,   \* capacity of mInputReader (8)
  RangeCounts,   \* sizes of the buffer passed to poll
  RangeDelays,   \* periods passed to batch, in ms
  MaxRange,      \* bound on the events waiting in the kernel
  MaxAsked       \* bound on the flushes not yet answered

ASSUME RangeAssumption == /\ RangeReader \in Nat \ {0} /\ RangeCounts \subseteq Nat \ {0}
                          /\ MaxRange \in Nat /\ MaxAsked \in Nat

VARIABLES
  rangeFd,      \* data_fd: whether the input device was found
  range,        \* the driver: measuring, period, the distance it reported last
  prox,         \* mEnabled, mFlushEnabled and the distance of mPendingEvents
  rangeQueue,   \* input events not yet read
  rangeBuffer,  \* mInputReader
  rangePoll,    \* poll: waiting or in its loop, room left in the buffer
  heard,        \* history: the distance of the last event handed out
  asked         \* history: flushes the driver took that were not answered

xvars == <<rangeFd, range, prox, rangeQueue, rangeBuffer, rangePoll, heard, asked>>

Reported == {"close", "away"}

XTypeOK ==
  /\ rangeFd \in BOOLEAN
  /\ range \in [sar : BOOLEAN, delay : RangeDelays \cup {0}, last : Reported \cup {"none"}]
  /\ prox \in [mEnabled : BOOLEAN, mFlushEnabled : BOOLEAN, distance : Reported]
  /\ Len(rangeQueue) <= MaxRange /\ Len(rangeBuffer) <= RangeReader
  /\ rangePoll \in [on : BOOLEAN, room : Nat]
  /\ heard \in Reported \cup {"none"} /\ asked \in 0 .. MaxAsked

-------------------------------------------------------------------------------
\* openInput: the device whose name matches, if there is one.
openInput == rangeFd \in BOOLEAN

\* The constructor leaves the distance as it finds it: what enable_sar holds is
\* text, and never the byte 1 it is compared with.
XInit ==
  /\ openInput
  /\ range = [sar |-> FALSE, delay |-> 0, last |-> "none"]
  /\ \E d \in Reported : prox = [mEnabled |-> FALSE, mFlushEnabled |-> FALSE, distance |-> d]
  /\ rangeQueue = << >> /\ rangeBuffer = << >>
  /\ rangePoll = [on |-> FALSE, room |-> 0]
  /\ heard = "none" /\ asked = 0

\* setEnable: the flag changes also where the driver's file does not open.
rangeEnable(en, opens) ==
  /\ prox' = [prox EXCEPT !.mEnabled = en]
  /\ range' = [range EXCEPT !.sar = IF opens THEN en ELSE @]
  /\ UNCHANGED <<rangeFd, rangeQueue, rangeBuffer, rangePoll, heard, asked>>

rangeBatch(ms) ==
  /\ range' = [range EXCEPT !.delay = ms]
  /\ UNCHANGED <<rangeFd, prox, rangeQueue, rangeBuffer, rangePoll, heard, asked>>

\* The driver reports in packets that end with SYN.
Packet(e) == /\ Len(rangeQueue) + 2 <= MaxRange
             /\ rangeQueue' = rangeQueue \o <<e, "SYN">>

\* flush: the driver is told through the file that enables it and answers with
\* an event of its own, whether or not it measures.
rangeFlush ==
  /\ asked < MaxAsked /\ asked' = asked + 1
  /\ Packet("DT_FLUSH")
  /\ prox' = [prox EXCEPT !.mFlushEnabled = TRUE]
  /\ UNCHANGED <<rangeFd, range, rangeBuffer, rangePoll, heard>>

\* The driver reports a change; a repeated distance does not pass the input core.
RangeReports ==
  /\ range.sar
  /\ \E d \in Reported \ {range.last} :
       Packet(d) /\ range' = [range EXCEPT !.last = d]
  /\ UNCHANGED <<rangeFd, prox, rangeBuffer, rangePoll, heard, asked>>

-------------------------------------------------------------------------------
(* The poll thread.                                                        *)

\* A slip the runs must catch: what the reader has no room for is dropped.
rangeFill_dropping ==
  LET free == RangeReader - Len(rangeBuffer)
      n    == IF Len(rangeQueue) < free THEN Len(rangeQueue) ELSE free
  IN  /\ rangeBuffer' = rangeBuffer \o SubSeq(rangeQueue, 1, n)
      /\ rangeQueue' = << >>

\* fill: as many events as the reader has room for.  A failed read leaves
\* everything as it is.
rangeFill ==
  LET free == RangeReader - Len(rangeBuffer)
      n    == IF Len(rangeQueue) < free THEN Len(rangeQueue) ELSE free
  IN  /\ rangeBuffer' = rangeBuffer \o SubSeq(rangeQueue, 1, n)
      /\ rangeQueue' = SubSeq(rangeQueue, n + 1, Len(rangeQueue))

\* No driver of this HAL overrides the answer of its base class.
hasPendingEvents == FALSE

\* poll: unless a driver has events pending it sleeps until the device has
\* something to read, for ever if there is no device.
RangePoll ==
  /\ rangeFd /\ ~rangePoll.on /\ (hasPendingEvents \/ rangeQueue # << >>)
  /\ \E c \in RangeCounts : rangePoll' = [on |-> TRUE, room |-> c]
  /\ rangeFill
  /\ UNCHANGED <<rangeFd, range, prox, heard, asked>>

\* One turn of the loop of readEvents: the answer to a flush and each SYN take a
\* place in the framework's buffer, a distance (processEvent) does not.
RangeRead ==
  /\ rangePoll.on /\ rangePoll.room > 0 /\ rangeBuffer # << >>
  /\ LET e == Head(rangeBuffer)
     IN  \/ /\ e = "DT_FLUSH"
            /\ asked' = asked - 1
            /\ rangePoll' = [rangePoll EXCEPT !.room = @ - 1]
            /\ UNCHANGED <<prox, heard>>
         \/ /\ e = "SYN"
            /\ heard' = prox.distance
            /\ rangePoll' = [rangePoll EXCEPT !.room = @ - 1]
            /\ UNCHANGED <<prox, asked>>
         \/ /\ e \in Reported
            /\ prox' = [prox EXCEPT !.distance = e]
            /\ UNCHANGED <<heard, asked, rangePoll>>
  /\ rangeBuffer' = Tail(rangeBuffer)
  /\ UNCHANGED <<rangeFd, range, rangeQueue>>

RangeReturn ==
  /\ rangePoll.on /\ (rangePoll.room = 0 \/ rangeBuffer = << >>)
  /\ rangePoll' = [rangePoll EXCEPT !.on = FALSE, !.room = 0]
  /\ UNCHANGED <<rangeFd, range, prox, rangeQueue, rangeBuffer, heard, asked>>

XNext ==
  \/ RangePoll \/ RangeRead \/ RangeReturn \/ RangeReports \/ rangeFlush
  \/ \E en, opens \in BOOLEAN : rangeEnable(en, opens)
  \/ \E ms \in RangeDelays : rangeBatch(ms)

XSpec == XInit /\ [][XNext]_xvars

-------------------------------------------------------------------------------
(* Properties.                                                             *)

\* What the framework has not been given yet, in order.
stream == rangeBuffer \o rangeQueue

\* The places of the answers to flushes.
Answers(s) == {i \in 1 .. Len(s) : s[i] = "DT_FLUSH"}

\* The distance the driver reported last is still to be read, with a SYN behind it;
\* or it has been read and was handed out, or will be with the next SYN.
Coming(s, last, dist, out) ==
  \/ \E i \in 1 .. Len(s) : /\ s[i] = last
                            /\ \A j \in 1 .. Len(s) : j > i => s[j] \notin Reported
                            /\ \E j \in 1 .. Len(s) : j > i /\ s[j] = "SYN"
  \/ /\ \A j \in 1 .. Len(s) : s[j] \notin Reported
     /\ dist = last
     /\ out = last \/ \E j \in 1 .. Len(s) : s[j] = "SYN"

\* Whatever the sizes of the framework's buffers, and wherever a call to poll stops in
\* a report, each flush is answered once and the last distance is told: what a call
\* had no room for stays in the reader, in front of what comes later (fill,
\* readEvents, processEvent).
RangeNothingLost ==
  /\ asked = Cardinality(Answers(stream))
  /\ range.last # "none" => Coming(stream, range.last, prox.distance, heard)

\* "If count is not sufficiently large to hold all the pending events, subsequent
\* calls to hasPendingEvents() should return true" (SensorBase.h, readEvents): poll
\* does not go to sleep on events that it has read.
PendingReported == ~rangePoll.on /\ rangeBuffer # << >> => hasPendingEvents
===============================================================================
