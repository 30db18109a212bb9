-------------------------- MODULE SensorsPoll_proofs --------------------------
(***************************************************************************)
(* Proofs about SensorsPoll, for every list of sensors, every size of the  *)
(* framework's buffer and of the reader: the types of its state, and that  *)
(* no driver writes past the buffer on a board that lacks one of the       *)
(* sensors which a report of the gyroscope feeds.                          *)
(***************************************************************************)
EXTENDS SensorsPoll, SequenceTheorems, FiniteSetTheorems, TLAPS

\* One of the sensors that a report of the gyroscope feeds is not on the board.
RoomForGyro == ~(Fused["DT_GYRO"] \subseteq SensorList)

\* A set of at most n elements with one more.
LEMMA OneMore ==
  ASSUME NEW S, NEW x, NEW n \in Nat, IsFiniteSet(S), Cardinality(S) <= n
  PROVE  IsFiniteSet(S \cup {x}) /\ Cardinality(S \cup {x}) <= n + 1
<1>1. Cardinality(S) \in Nat
  BY FS_CardinalityType
<1>2. /\ IsFiniteSet(S \cup {x})
      /\ Cardinality(S \cup {x}) = IF x \in S THEN Cardinality(S) ELSE Cardinality(S) + 1
  BY FS_AddElement
<1> QED
  BY <1>1, <1>2

LEMMA UpToFive ==
  ASSUME NEW a, NEW b, NEW c, NEW d, NEW e
  PROVE  /\ IsFiniteSet({a, b, c}) /\ Cardinality({a, b, c}) <= 3
         /\ IsFiniteSet({a, b, c, d, e}) /\ Cardinality({a, b, c, d, e}) <= 5
<1> DEFINE AtMost(S, n) == IsFiniteSet(S) /\ Cardinality(S) <= n
<1>1. \A S, x : \A n \in Nat : AtMost(S, n) => AtMost(S \cup {x}, n + 1)
  BY OneMore
<1>2. AtMost({}, 0)
  BY FS_EmptySet
<1> HIDE DEF AtMost
<1>3. AtMost({} \cup {a}, 1)
  <2>1. 0 \in Nat /\ 0 + 1 = 1
    OBVIOUS
  <2>2. AtMost({} \cup {a}, 0 + 1)
    BY <1>1, <1>2, <2>1, Zenon
  <2> QED
    BY <2>1, <2>2
<1>4. AtMost({} \cup {a} \cup {b}, 2)
  <2>1. 1 \in Nat /\ 1 + 1 = 2
    OBVIOUS
  <2>2. AtMost({} \cup {a} \cup {b}, 1 + 1)
    BY <1>1, <1>3, <2>1, Zenon
  <2> QED
    BY <2>1, <2>2
<1>5. AtMost({} \cup {a} \cup {b} \cup {c}, 3)
  <2>1. 2 \in Nat /\ 2 + 1 = 3
    OBVIOUS
  <2>2. AtMost({} \cup {a} \cup {b} \cup {c}, 2 + 1)
    BY <1>1, <1>4, <2>1, Zenon
  <2> QED
    BY <2>1, <2>2
<1>6. AtMost({} \cup {a} \cup {b} \cup {c} \cup {d}, 4)
  <2>1. 3 \in Nat /\ 3 + 1 = 4
    OBVIOUS
  <2>2. AtMost({} \cup {a} \cup {b} \cup {c} \cup {d}, 3 + 1)
    BY <1>1, <1>5, <2>1, Zenon
  <2> QED
    BY <2>1, <2>2
<1>7. AtMost({} \cup {a} \cup {b} \cup {c} \cup {d} \cup {e}, 5)
  <2>1. 4 \in Nat /\ 4 + 1 = 5
    OBVIOUS
  <2>2. AtMost({} \cup {a} \cup {b} \cup {c} \cup {d} \cup {e}, 4 + 1)
    BY <1>1, <1>6, <2>1, Zenon
  <2> QED
    BY <2>1, <2>2
<1>8. /\ {} \cup {a} \cup {b} \cup {c} = {a, b, c}
      /\ {} \cup {a} \cup {b} \cup {c} \cup {d} \cup {e} = {a, b, c, d, e}
  OBVIOUS
<1> QED
  BY <1>5, <1>7, <1>8 DEF AtMost

\* A report becomes at most five events, and on a board without one of the
\* gyroscope's sensors at most four.
LEMMA EventsAre ==
  ASSUME TypeOK, NEW r \in Reports
  PROVE  Events(r) \in Nat /\ (RoomForGyro => Events(r) <= 4)
<1>1. CASE r \in DOMAIN Fused
  <2>1. Events(r) = Cardinality(Fused[r] \cap on)
    <3>1. r \notin Internal
      BY <1>1 DEF Fused, Internal
    <3> QED
      BY <1>1, <3>1 DEF Events
  <2>2. CASE r = "DT_GYRO"
    <3> DEFINE F == {"ID_G", "ID_GAME_RV", "ID_LA", "ID_GRAVITY", "ID_RV"}
    <3>1. Fused[r] = F
      BY <2>2 DEF Fused
    <3>2. IsFiniteSet(F) /\ Cardinality(F) <= 5
      BY UpToFive
    <3> HIDE DEF F
    <3>3. IsFiniteSet(F \cap on) /\ Cardinality(F \cap on) \in Nat
      BY <3>2, FS_Subset, FS_CardinalityType
    <3>4. ASSUME RoomForGyro PROVE Cardinality(F \cap on) <= 4
      <4>1. PICK x \in F : x \notin SensorList
        BY <2>2, <3>1, <3>4 DEF RoomForGyro
      <4>2. F \cap on \subseteq F \ {x}
        BY <4>1 DEF TypeOK
      <4>3. IsFiniteSet(F \ {x}) /\ Cardinality(F \ {x}) = Cardinality(F) - 1
        BY <3>2, <4>1, FS_RemoveElement
      <4>4. Cardinality(F \cap on) <= Cardinality(F \ {x})
        BY <4>2, <4>3, FS_Subset
      <4> QED
        BY <3>2, <3>3, <4>3, <4>4, FS_CardinalityType
    <3> QED
      BY <2>1, <3>1, <3>3, <3>4
  <2>3. CASE r # "DT_GYRO"
    <3>1. PICK a, b, c : Fused[r] = {a, b, c}
      <4>1. r \in {"DT_ACCEL", "DT_MAG", "DT_GLANCE"}
        BY <1>1, <2>3 DEF Fused
      <4>2. CASE r = "DT_ACCEL"
        <5>1. Fused[r] = {"ID_A", "ID_GEOMAG_RV", "ID_A"}
          BY <4>2 DEF Fused
        <5> QED
          BY <5>1
      <4>3. CASE r = "DT_MAG"
        <5>1. Fused[r] = {"ID_M", "ID_M", "ID_M"}
          BY <4>3 DEF Fused
        <5> QED
          BY <5>1
      <4>4. CASE r = "DT_GLANCE"
        <5>1. Fused[r] = {"ID_GLANCE_GESTURE", "ID_MOTO_GLANCE_GESTURE", "ID_M"}
          BY <4>4 DEF Fused
        <5> QED
          BY <5>1
      <4> QED
        BY <4>1, <4>2, <4>3, <4>4
    <3>2. IsFiniteSet(Fused[r]) /\ Cardinality(Fused[r]) <= 3
      <4>1. IsFiniteSet({a, b, c}) /\ Cardinality({a, b, c}) <= 3
        BY UpToFive
      <4> QED
        BY <3>1, <4>1
    <3>3. /\ Cardinality(Fused[r] \cap on) <= Cardinality(Fused[r])
          /\ Cardinality(Fused[r] \cap on) \in Nat /\ Cardinality(Fused[r]) \in Nat
      BY <3>2, FS_Subset, FS_CardinalityType
    <3> QED
      BY <2>1, <3>2, <3>3
  <2> QED
    BY <2>2, <2>3
<1>2. CASE r \notin DOMAIN Fused
  <2>1. Events(r) \in {0, 1}
    <3>1. CASE r \in Internal
      BY <1>2, <3>1 DEF Events
    <3>2. CASE r \notin Internal
      BY <1>2, <3>2 DEF Events
    <3> QED
      BY <3>1, <3>2
  <2> QED
    BY <2>1
<1> QED
  BY <1>1, <1>2

LEMMA HandledKeeps ==
  ASSUME TypeOK, NEW r \in Reports, HandleReport(r)
  PROVE  on' \subseteq SensorList /\ nbEvents' \in Nat /\ (RoomForGyro => EventsFit')
<1>1. nbEvents \in Nat /\ nbEvents < Count - 3 /\ Count \in Nat /\ on \subseteq SensorList
  BY PollConstants DEF TypeOK, HandleReport, RoomForReport
<1>2. Events(r) \in Nat /\ (RoomForGyro => Events(r) <= 4)
  BY EventsAre
<1>3. nbEvents' = nbEvents + Events(r) /\ on' \subseteq on
  BY DEF HandleReport
<1> QED
  BY <1>1, <1>2, <1>3 DEF EventsFit

LEMMA ReportKeeps ==
  TypeOK /\ (ReadReport \/ ReadFails) => TypeOK' /\ (RoomForGyro => EventsFit')
<1>1. ASSUME TypeOK, ReadReport PROVE TypeOK' /\ (RoomForGyro => EventsFit')
  <2>1. /\ hubQueue \in Seq(Reports) /\ hubQueue # <<>> /\ Len(hubQueue) <= QueueMax
        /\ QueueMax \in Nat
    BY <1>1, PollConstants DEF TypeOK, ReadReport
  <2>2. /\ Head(hubQueue) \in Reports /\ Tail(hubQueue) \in Seq(Reports)
        /\ Len(Tail(hubQueue)) = Len(hubQueue) - 1 /\ Len(hubQueue) \in Nat
    BY <2>1, HeadTailProperties, LenProperties
  <2>3. /\ HandleReport(Head(hubQueue)) /\ hubQueue' = Tail(hubQueue)
        /\ UNCHANGED <<frames, buffered, pc, revents, failed>>
    BY <1>1 DEF ReadReport
  <2>4. on' \subseteq SensorList /\ nbEvents' \in Nat /\ (RoomForGyro => EventsFit')
    BY <1>1, <2>2, <2>3, HandledKeeps
  <2> QED
    BY <1>1, <2>1, <2>2, <2>3, <2>4 DEF TypeOK
<1>2. ASSUME TypeOK, ReadFails PROVE TypeOK' /\ (RoomForGyro => EventsFit')
  <2>1. PICK r \in Reports : HandleReport(r)
    BY <1>2 DEF ReadFails
  <2>2. on' \subseteq SensorList /\ nbEvents' \in Nat /\ (RoomForGyro => EventsFit')
    BY <1>2, <2>1, HandledKeeps
  <2> QED
    BY <1>2, <2>2 DEF ReadFails, TypeOK
<1> QED
  BY <1>1, <1>2

LEMMA SmallerIs ==
  ASSUME NEW a \in Nat, NEW b \in Nat
  PROVE  Smaller(a, b) \in Nat /\ Smaller(a, b) <= a /\ Smaller(a, b) <= b
  BY DEF Smaller

LEMMA RearProxKeeps ==
  ASSUME TypeOK, NEW d \in RearProx, ReadRearProx(d)
  PROVE  TypeOK' /\ EventsFit'
<1> DEFINE read == Smaller(frames[d], ReaderFrames - buffered[d])
           out  == Smaller(buffered[d] + read, Count - nbEvents)
<1>1. /\ frames \in [RearProx -> 0 .. FrameMax] /\ buffered \in [RearProx -> 0 .. ReaderFrames]
      /\ nbEvents \in Nat /\ Count \in Nat /\ FrameMax \in Nat /\ ReaderFrames \in Nat
      /\ Count - nbEvents \in Nat
  BY PollConstants DEF TypeOK, ReadRearProx
<1>2. frames[d] \in Nat /\ buffered[d] \in Nat /\ ReaderFrames - buffered[d] \in Nat
  BY <1>1
<1>3. read \in Nat /\ read <= frames[d] /\ read <= ReaderFrames - buffered[d]
  BY <1>2, SmallerIs
<1>4. /\ frames' = [frames EXCEPT ![d] = @ - read]
      /\ buffered' = [buffered EXCEPT ![d] = @ + read - out]
      /\ nbEvents' = nbEvents + out /\ pc' = After(d, nbEvents + out)
      /\ UNCHANGED <<on, hubQueue, revents, failed>>
  BY DEF ReadRearProx
<1> HIDE DEF read
<1>5. out \in Nat /\ out <= buffered[d] + read /\ out <= Count - nbEvents
  <2>1. buffered[d] + read \in Nat
    BY <1>2, <1>3
  <2> QED
    BY <1>1, <2>1, SmallerIs
<1> HIDE DEF out
<1>6. frames' \in [RearProx -> 0 .. FrameMax] /\ buffered' \in [RearProx -> 0 .. ReaderFrames]
  <2>1. frames[d] - read \in 0 .. FrameMax /\ buffered[d] + read - out \in 0 .. ReaderFrames
    BY <1>1, <1>2, <1>3, <1>5
  <2> QED
    BY <1>1, <1>4, <2>1
<1>7. pc' \in {"blocked"} \cup Drivers
  BY <1>4 DEF After, Drivers, RearProx
<1>8. nbEvents' \in Nat /\ nbEvents' <= Count
  BY <1>1, <1>4, <1>5
<1> QED
  BY <1>4, <1>6, <1>7, <1>8 DEF TypeOK, EventsFit

\* Whatever is left of the poll thread, the framework and the devices.
LEMMA OthersKeep ==
  ASSUME TypeOK,
         \/ Poll \/ HubDone \/ (\E d \in RearProx : SkipRearProx(d))
         \/ (\E h \in SensorList : Activate(h)) \/ (\E r \in Reports : HubReports(r))
         \/ (\E d \in RearProx : NearFar(d)) \/ UNCHANGED vars
  PROVE  TypeOK' /\ (EventsFit => EventsFit')
<1>1. CASE Poll
  <2>1. /\ revents' \subseteq Drivers /\ nbEvents' = 0 /\ failed' = FALSE /\ pc' = "sensor_hub"
        /\ UNCHANGED <<on, hubQueue, frames, buffered>>
    BY <1>1 DEF Poll, Readable
  <2>2. pc' \in {"blocked"} \cup Drivers /\ failed' \in BOOLEAN /\ nbEvents' \in Nat
    BY <2>1 DEF Drivers
  <2>3. EventsFit'
    BY <2>1, PollConstants DEF EventsFit
  <2> QED
    BY <2>1, <2>2, <2>3 DEF TypeOK
<1>2. CASE HubDone
  BY <1>2 DEF HubDone, After, Drivers, RearProx, TypeOK, EventsFit
<1>3. ASSUME NEW d \in RearProx, SkipRearProx(d) PROVE TypeOK' /\ (EventsFit => EventsFit')
  BY <1>3 DEF SkipRearProx, After, Drivers, RearProx, TypeOK, EventsFit
<1>4. ASSUME NEW h \in SensorList, Activate(h) PROVE TypeOK' /\ (EventsFit => EventsFit')
  BY <1>4 DEF Activate, TypeOK, EventsFit
<1>5. ASSUME NEW r \in Reports, HubReports(r) PROVE TypeOK' /\ (EventsFit => EventsFit')
  <2>1. /\ hubQueue \in Seq(Reports) /\ Len(hubQueue) < QueueMax /\ QueueMax \in Nat
        /\ hubQueue' = Append(hubQueue, r) /\ UNCHANGED <<on, frames, buffered, pc, revents, nbEvents, failed>>
    BY <1>5, PollConstants DEF HubReports, TypeOK
  <2>2. hubQueue' \in Seq(Reports) /\ Len(hubQueue') = Len(hubQueue) + 1 /\ Len(hubQueue) \in Nat
    BY <2>1, AppendProperties, LenProperties
  <2> QED
    BY <2>1, <2>2 DEF TypeOK, EventsFit
<1>6. ASSUME NEW d \in RearProx, NearFar(d) PROVE TypeOK' /\ (EventsFit => EventsFit')
  <2>1. frames' \in [RearProx -> 0 .. FrameMax]
    BY <1>6, PollConstants DEF NearFar, TypeOK
  <2> QED
    BY <1>6, <2>1 DEF NearFar, TypeOK, EventsFit
<1>7. CASE UNCHANGED vars
  BY <1>7 DEF vars, TypeOK, EventsFit
<1> QED
  BY <1>1, <1>2, <1>3, <1>4, <1>5, <1>6, <1>7

LEMMA PollStep == TypeOK /\ [Next]_vars => TypeOK' /\ (RoomForGyro /\ EventsFit => EventsFit')
<1> SUFFICES ASSUME TypeOK, [Next]_vars
             PROVE  TypeOK' /\ (RoomForGyro /\ EventsFit => EventsFit')
  OBVIOUS
<1> QED
  BY ReportKeeps, RearProxKeeps, OthersKeep DEF Next, PollThread

LEMMA PollInit == Init => TypeOK /\ EventsFit
<1> SUFFICES ASSUME Init PROVE TypeOK /\ EventsFit
  OBVIOUS
<1>1. hubQueue \in Seq(Reports) /\ Len(hubQueue) <= QueueMax
  BY PollConstants, EmptySeq DEF Init
<1>2. /\ frames \in [RearProx -> 0 .. FrameMax] /\ buffered \in [RearProx -> 0 .. ReaderFrames]
      /\ nbEvents \in Nat /\ EventsFit
  BY PollConstants DEF Init, EventsFit
<1>3. /\ on \subseteq SensorList /\ pc \in {"blocked"} \cup Drivers /\ revents \subseteq Drivers
      /\ failed \in BOOLEAN
  BY DEF Init
<1> QED
  BY <1>1, <1>2, <1>3 DEF TypeOK

\* The poll thread and the devices keep their types, whatever sensors are turned on
\* and off between two steps of it.
THEOREM PollTypeCorrect == Spec => []TypeOK
  BY PollInit, PollStep, PTL DEF Spec

\* No driver writes past the framework's buffer on a board that lacks one of the
\* five sensors fed by DT_GYRO, for every size of the buffer and of the reader: the
\* four slots that readEvents keeps free are enough then (SensorHal.cpp: poll__poll;
\* HubSensors.cpp, RearProxSensor.cpp: readEvents).
THEOREM PollEventsFit == RoomForGyro /\ Spec => []EventsFit
<1> SUFFICES ASSUME RoomForGyro PROVE Spec => []EventsFit
  OBVIOUS
<1>1. TypeOK /\ EventsFit /\ [Next]_vars => TypeOK' /\ EventsFit'
  BY PollStep
<1> QED
  BY <1>1, PollInit, PTL DEF Spec
===============================================================================
