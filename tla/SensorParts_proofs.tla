-------------------------- MODULE SensorParts_proofs --------------------------
(***************************************************************************)
(* Proofs about the parts of the sensor HALs that share no state: the step *)
(* counter, for every number of steps and every Modulus that no sum reaches; *)
(* the reader of input events, for every capacity: its pointers stay where *)
(* they belong, and it implements the queue of EventQueue; the             *)
(* time-of-flight HAL, for every set of distances: what was told is what   *)
(* the driver watches; and the laser ranging HAL, for every size of the    *)
(* reader and of the framework's buffers: nothing is lost.                  *)
(***************************************************************************)
EXTENDS MCSensorParts, Integers, SequenceTheorems, FiniteSets, FiniteSetTheorems,
        TLAPS

-------------------------------------------------------------------------------
(* The step counter.                                                       *)

\* The steps behind the last report are all accounted for, and a hub whose
\* count went back without being noticed has not caught up with steps that
\* were never taken: either the hub's value with the offset has reached the
\* last report again, or adding the report as an offset would not overcount.
Accounted ==
  /\ step_offset <= last_stepcount
  /\ last_stepcount <= total
  /\ step_offset + hubCount <= total
  /\ unreported <= hubCount
  /\ \/ hubCount + step_offset >= last_stepcount
     \/ last_stepcount + hubCount <= total
  /\ \/ unreported = hubCount
     \/ hubCount + step_offset = last_stepcount + unreported

StepsInv == STypeOK /\ Accounted

\* uint32_t addition is the addition of naturals while the sum is small.
LEMMA Add32IsPlus ==
  ASSUME NEW a \in Nat, NEW b \in Nat, a + b <= MaxSteps
  PROVE  Add32(a, b) = a + b
BY StepBounds DEF Add32

\* The inductive step: reports, resets, steps and restarts keep the account.
LEMMA StepsStep == StepsInv /\ [SNext]_svars => StepsInv'
<1> SUFFICES ASSUME StepsInv, [SNext]_svars PROVE StepsInv'
  OBVIOUS
<1> USE StepBounds DEF StepsInv, STypeOK, Accounted
<1>1. CASE Step
  BY <1>1 DEF Step
<1>2. CASE HubReset
  BY <1>2 DEF HubReset
<1>3. CASE DT_STEP_COUNTER
  <2>1. Add32(hubCount, step_offset) = hubCount + step_offset
    BY Add32IsPlus
  <2>2. CASE hubCount + step_offset < last_stepcount
    <3>1. step_offset' = last_stepcount
      BY <1>3, <2>1, <2>2 DEF DT_STEP_COUNTER
    <3>2. hubCount + last_stepcount <= total
      BY <2>2
    <3>3. last_stepcount' = hubCount + last_stepcount
      BY <1>3, <3>1, <3>2, Add32IsPlus DEF DT_STEP_COUNTER
    <3> QED
      BY <1>3, <3>1, <3>2, <3>3 DEF DT_STEP_COUNTER
  <2>3. CASE ~ (hubCount + step_offset < last_stepcount)
    <3>1. step_offset' = step_offset
      BY <1>3, <2>1, <2>3 DEF DT_STEP_COUNTER
    <3>2. last_stepcount' = hubCount + step_offset
      BY <1>3, <2>1, <3>1 DEF DT_STEP_COUNTER
    <3> QED
      BY <1>3, <2>3, <3>1, <3>2 DEF DT_STEP_COUNTER
  <2> QED
    BY <2>2, <2>3
<1>4. CASE HalRestart
  BY <1>4 DEF HalRestart
<1>5. CASE UNCHANGED svars
  BY <1>5 DEF svars
<1> QED
  BY <1>1, <1>2, <1>3, <1>4, <1>5 DEF SNext

LEMMA StepsInit == SInit => StepsInv
  BY StepBounds DEF SInit, StepsInv, STypeOK, Accounted

\* The account is kept in every state of the step counter.
THEOREM StepsInvariance == SSpec => []StepsInv
  BY StepsInit, StepsStep, PTL DEF SSpec

\* The variables of the DT_STEP_COUNTER case stay within the steps taken, so
\* that the uint32_t arithmetic never wraps before the steps do.
THEOREM StepCounterType == SSpec => []STypeOK
BY StepsInvariance, PTL DEF StepsInv

\* The reported count never exceeds the steps taken, whatever resets the hub
\* goes through and whichever reports get lost (HubSensors::readEvents).
THEOREM StepsNeverOvercounted == SSpec => []NeverOvercounts
<1>1. StepsInv => NeverOvercounts
  BY DEF StepsInv, Accounted, NeverOvercounts
<1> QED
  BY <1>1, StepsInvariance, PTL

\* Between restarts of the HAL the reported count never goes back.
THEOREM StepsNeverGoBack == SSpec => NeverGoesBack
<1>1. ASSUME StepsInv, [SNext]_svars
      PROVE  [last_stepcount' >= last_stepcount \/ HalRestart]_svars
  <2> USE StepBounds DEF StepsInv, STypeOK, Accounted
  <2>1. CASE Step
    BY <1>1, <2>1 DEF Step
  <2>2. CASE HubReset
    BY <1>1, <2>2 DEF HubReset
  <2>3. CASE DT_STEP_COUNTER
    <3>1. Add32(hubCount, step_offset) = hubCount + step_offset
      BY <1>1, Add32IsPlus
    <3>2. CASE hubCount + step_offset < last_stepcount
      <4>1. step_offset' = last_stepcount /\ hubCount + last_stepcount <= total
        BY <1>1, <2>3, <3>1, <3>2 DEF DT_STEP_COUNTER
      <4>2. last_stepcount' = hubCount + last_stepcount
        BY <1>1, <2>3, <4>1, Add32IsPlus DEF DT_STEP_COUNTER
      <4> QED
        BY <1>1, <4>2
    <3>3. CASE ~ (hubCount + step_offset < last_stepcount)
      BY <1>1, <2>3, <3>1, <3>3 DEF DT_STEP_COUNTER
    <3> QED
      BY <3>2, <3>3
  <2>4. CASE HalRestart
    BY <2>4
  <2>5. CASE UNCHANGED svars
    BY <2>5
  <2> QED
    BY <1>1, <2>1, <2>2, <2>3, <2>4, <2>5 DEF SNext
<1> QED
  BY <1>1, StepsInvariance, PTL DEF SSpec, NeverGoesBack

\* A report adds exactly the steps counted since the last one, unless a reset of
\* the hub went unnoticed.
THEOREM StepsContiguous == SSpec => ContiguousSteps
<1> DEFINE Exact == \/ last_stepcount' = last_stepcount + unreported
                    \/ /\ unreported = hubCount
                       /\ Add32(hubCount, step_offset) >= last_stepcount
<1>1. ASSUME StepsInv, DT_STEP_COUNTER PROVE Exact
  <2> USE <1>1, StepBounds DEF StepsInv, STypeOK, Accounted
  <2>1. Add32(hubCount, step_offset) = hubCount + step_offset
    BY Add32IsPlus
  <2>2. CASE hubCount + step_offset < last_stepcount
    <3>1. /\ step_offset' = last_stepcount
          /\ hubCount + last_stepcount <= total
          /\ unreported = hubCount
      BY <2>1, <2>2 DEF DT_STEP_COUNTER
    <3> QED
      BY <3>1, Add32IsPlus DEF DT_STEP_COUNTER
  <2>3. CASE ~ (hubCount + step_offset < last_stepcount)
    BY <2>1, <2>3 DEF DT_STEP_COUNTER
  <2> QED
    BY <2>2, <2>3
<1>2. StepsInv => [DT_STEP_COUNTER => Exact]_svars
  BY <1>1
<1> QED
  BY <1>2, StepsInvariance, PTL DEF ContiguousSteps

-------------------------------------------------------------------------------
(* The reader of input events.                                             *)

ReaderInv == RTypeOK /\ ReadInBounds

\* The array after fill, in terms of the array before it.
LEMMA FillWrites ==
  ASSUME ReaderInv, NEW n \in 1 .. NumEvents, NEW es \in [1 .. n -> Event], fill(es)
  PROVE  /\ n \in 1 .. mFreeSpace
         /\ mBuffer' \in [Positions -> Event]
         /\ mFreeSpace' = mFreeSpace - n
         /\ mHead' = IF mHead + n > NumEvents THEN mHead + n - NumEvents
                                              ELSE mHead + n
         /\ mCurr' = mCurr
         /\ \A p \in 0 .. NumEvents - 1 :
              mBuffer'[p] = IF p >= mHead /\ p < mHead + n THEN es[p - mHead + 1]
                            ELSE IF p < mHead + n - NumEvents
                                 THEN es[p + NumEvents - mHead + 1]
                            ELSE mBuffer[p]
<1> USE ReaderAssumption
<1>1. Len(es) = n
  OBVIOUS
<1> DEFINE read == [p \in Positions |-> IF p \in mHead .. mHead + Len(es) - 1
                                        THEN es[p - mHead + 1] ELSE mBuffer[p]]
<1>2. n \in 1 .. mFreeSpace /\ mFreeSpace' = mFreeSpace - n /\ mCurr' = mCurr
  BY <1>1 DEF fill
<1>3. mHead \in 0 .. NumEvents /\ mFreeSpace \in 0 .. NumEvents
        /\ mHead + n <= 2 * NumEvents /\ mBuffer \in [Positions -> Event]
  BY <1>2 DEF ReaderInv, RTypeOK, mBufferEnd
<1>4. /\ read \in [Positions -> Event]
      /\ \A p \in Positions : read[p] = IF p >= mHead /\ p < mHead + n
                                        THEN es[p - mHead + 1] ELSE mBuffer[p]
  BY <1>1, <1>3 DEF Positions
<1> HIDE DEF read
<1>5. CASE mHead + n > NumEvents
  <2>1. /\ mBuffer' = [p \in Positions |->
                         IF p < mHead + Len(es) - mBufferEnd
                         THEN read[mBufferEnd + p] ELSE read[p]]
        /\ mHead' = mHead + Len(es) - mBufferEnd
    <3>1. ~ (mHead + Len(es) - mBufferEnd <= 0)
      BY <1>1, <1>3, <1>5 DEF mBufferEnd
    <3> QED
      BY <3>1, Zenon DEF fill, read
  <2>2. \A p \in Positions : p < mHead + n - NumEvents => NumEvents + p \in Positions
    BY <1>3 DEF Positions
  <2>3. mBuffer' \in [Positions -> Event]
    BY <1>1, <1>4, <2>1, <2>2 DEF mBufferEnd
  <2>4. ASSUME NEW p \in 0 .. NumEvents - 1
        PROVE  mBuffer'[p] = IF p >= mHead /\ p < mHead + n THEN es[p - mHead + 1]
                             ELSE IF p < mHead + n - NumEvents
                                  THEN es[p + NumEvents - mHead + 1]
                             ELSE mBuffer[p]
    <3>1. p \in Positions
      BY DEF Positions
    <3>2. CASE p < mHead + n - NumEvents
      <4>1. /\ NumEvents + p \in Positions /\ NumEvents + p >= mHead
            /\ NumEvents + p < mHead + n /\ p < mHead
        BY <1>2, <1>3, <2>2, <3>1, <3>2 DEF Positions
      <4>2. mBuffer'[p] = read[NumEvents + p]
        BY <1>1, <2>1, <3>1, <3>2 DEF mBufferEnd
      <4>3. read[NumEvents + p] = es[NumEvents + p - mHead + 1]
        BY <1>3, <1>4, <4>1
      <4>4. NumEvents + p - mHead + 1 = p + NumEvents - mHead + 1
        BY <1>3
      <4> QED
        BY <1>3, <3>2, <4>1, <4>2, <4>3, <4>4
    <3>3. CASE ~ (p < mHead + n - NumEvents)
      <4>1. mBuffer'[p] = read[p]
        BY <1>1, <2>1, <3>1, <3>3 DEF mBufferEnd
      <4> QED
        BY <1>4, <3>1, <3>3, <4>1
    <3> QED
      BY <3>2, <3>3
  <2> QED
    BY <1>1, <1>2, <1>5, <2>1, <2>3, <2>4 DEF mBufferEnd
<1>6. CASE ~ (mHead + n > NumEvents)
  <2>1. mBuffer' = read /\ mHead' = mHead + n
    BY <1>1, <1>3, <1>6 DEF fill, mBufferEnd, read
  <2>2. \A p \in 0 .. NumEvents - 1 : p \in Positions /\ ~ (p < mHead + n - NumEvents)
    BY <1>3, <1>6 DEF Positions
  <2> QED
    BY <1>2, <1>4, <1>6, <2>1, <2>2
<1> QED
  BY <1>5, <1>6

\* fill and next keep head, tail and free space consistent.
LEMMA ReaderStep == ReaderInv /\ [RNext]_rvars => ReaderInv'
<1> SUFFICES ASSUME ReaderInv, [RNext]_rvars PROVE ReaderInv'
  OBVIOUS
<1> USE ReaderAssumption
<1>1. ASSUME NEW n \in 1 .. NumEvents, NEW es \in [1 .. n -> Event], fill(es)
      PROVE  ReaderInv'
  <2>1. /\ n \in 1 .. mFreeSpace
        /\ mBuffer' \in [Positions -> Event]
        /\ mFreeSpace' = mFreeSpace - n
        /\ mHead' = IF mHead + n > NumEvents THEN mHead + n - NumEvents
                                             ELSE mHead + n
        /\ mCurr' = mCurr
    BY <1>1, FillWrites
  <2> QED
    BY <2>1 DEF ReaderInv, RTypeOK, ReadInBounds, available, mBufferEnd
<1>2. CASE next
  BY <1>2 DEF next, ReaderInv, RTypeOK, ReadInBounds, available, mBufferEnd
<1>3. CASE UNCHANGED rvars
  BY <1>3 DEF rvars, ReaderInv, RTypeOK, ReadInBounds, available, mBufferEnd
<1> QED
  BY <1>1, <1>2, <1>3 DEF RNext, Fill

LEMMA ReaderInit == RInit => ReaderInv
  BY ReaderAssumption DEF RInit, ReaderInv, RTypeOK, ReadInBounds, available, mBufferEnd

\* The pointers of the reader are always consistent.
THEOREM ReaderInvariance == RSpec => []ReaderInv
  BY ReaderInit, ReaderStep, PTL DEF RSpec

\* InputEventReader's members keep their types: mCurr points at an event and
\* mHead at most just past the last one.
THEOREM ReaderType == RSpec => []RTypeOK
BY ReaderInvariance, PTL DEF ReaderInv

\* The read() in fill never leaves the array, and the distance of head and tail
\* is the number of events available.
THEOREM ReaderInBounds == RSpec => []ReadInBounds
BY ReaderInvariance, PTL DEF ReaderInv

-------------------------------------------------------------------------------
\* The abstract queue is a sequence of as many events as are available.
LEMMA QueueIsSeq ==
  ReaderInv => /\ available \in 0 .. NumEvents
          /\ queue \in Seq(Event)
          /\ Len(queue) = available
<1> SUFFICES ASSUME ReaderInv
             PROVE  /\ available \in 0 .. NumEvents
                    /\ queue \in Seq(Event)
                    /\ Len(queue) = available
  OBVIOUS
<1> USE ReaderAssumption
<1>1. /\ available \in 0 .. NumEvents /\ mCurr \in 0 .. NumEvents - 1
      /\ mBuffer \in [Positions -> Event]
  BY DEF ReaderInv, RTypeOK, available, mBufferEnd
<1>2. \A i \in 1 .. available : Wrapped(mCurr + i - 1) \in Positions
  BY <1>1 DEF Wrapped, Positions, mBufferEnd
<1>3. queue \in [1 .. available -> Event]
  BY <1>1, <1>2 DEF queue
<1> QED
  BY <1>1, <1>3

\* An index moved on by less than the ring's size wraps at most once.
LEMMA WrapRange ==
  ASSUME NEW N \in Nat \ {0}, NEW c \in 0 .. N - 1, NEW k \in 1 .. N
  PROVE  (IF c + k - 1 < N THEN c + k - 1 ELSE c + k - 1 - N) \in 0 .. N - 1
OBVIOUS

\* With a events waiting from c on and the head at h, the i-th event of the queue
\* lies outside the n positions that are written from h on when it is an old one,
\* and where the (i - a)-th of the new ones is written when it is not.
LEMMA RingPlace ==
  ASSUME NEW N \in Nat \ {0}, NEW c \in 0 .. N - 1, NEW h \in 0 .. N,
         NEW a \in 0 .. N, NEW n \in 1 .. N, a + n <= N,
         c + a \in {h - N, h, h + N},
         NEW i \in 1 .. a + n, NEW p \in 0 .. N - 1,
         p = IF c + i - 1 < N THEN c + i - 1 ELSE c + i - 1 - N
  PROVE  /\ i <= a => ~ (p >= h /\ p < h + n) /\ ~ (p < h + n - N)
         /\ ~ (i <= a) /\ p >= h /\ p < h + n => p - h + 1 = i - a
         /\ ~ (i <= a) /\ ~ (p >= h /\ p < h + n)
              => p < h + n - N /\ p + N - h + 1 = i - a
<1>1. CASE c + i - 1 < N
  BY <1>1
<1>2. CASE ~ (c + i - 1 < N)
  BY <1>2
<1> QED
  BY <1>1, <1>2

\* The room that is left and the room that is used make up the ring.
LEMMA RoomLeft ==
  ASSUME NEW N \in Nat \ {0}, NEW f \in 0 .. N, NEW n \in 1 .. f
  PROVE  /\ N - f \in 0 .. N
         /\ N - (f - n) = (N - f) + n
         /\ (N - f) + n \in 1 .. N
OBVIOUS

\* fill appends what was read.
LEMMA FillArrives ==
  ASSUME ReaderInv, ReaderInv', NEW n \in 1 .. NumEvents, NEW es \in [1 .. n -> Event],
         fill(es)
  PROVE  FIFO!Arrive(es)
<1> USE ReaderAssumption
<1>1. /\ n \in 1 .. mFreeSpace
      /\ mFreeSpace' = mFreeSpace - n
      /\ mCurr' = mCurr
      /\ \A p \in 0 .. NumEvents - 1 :
           mBuffer'[p] = IF p >= mHead /\ p < mHead + n THEN es[p - mHead + 1]
                         ELSE IF p < mHead + n - NumEvents
                              THEN es[p + NumEvents - mHead + 1]
                         ELSE mBuffer[p]
  BY FillWrites
<1>2. /\ mCurr \in 0 .. NumEvents - 1 /\ mHead \in 0 .. NumEvents
      /\ mFreeSpace \in 0 .. NumEvents
      /\ mCurr + available \in {mHead - NumEvents, mHead, mHead + NumEvents}
  BY DEF ReaderInv, RTypeOK, ReadInBounds, mBufferEnd
<1>3. /\ available \in 0 .. NumEvents
      /\ available' = available + n
      /\ available + n \in 1 .. NumEvents
  BY <1>1, <1>2, RoomLeft DEF available
<1>4. es \in Seq(Event) /\ Len(es) = n
  OBVIOUS
<1>5. queue \in Seq(Event) /\ Len(queue) = available /\ available \in 0 .. NumEvents
  BY QueueIsSeq
<1>6. queue' \in Seq(Event) /\ Len(queue') = available + n
  <2>1. (ReaderInv => queue \in Seq(Event) /\ Len(queue) = available)'
    BY QueueIsSeq, PTL
  <2> QED
    BY <1>3, <2>1
<1>7. ASSUME NEW i \in 1 .. available + n
      PROVE  queue'[i] = (queue \o es)[i]
  <2> DEFINE p == Wrapped(mCurr + i - 1)
  <2>1. /\ p = IF mCurr + i - 1 < NumEvents THEN mCurr + i - 1
                                            ELSE mCurr + i - 1 - NumEvents
        /\ p \in 0 .. NumEvents - 1
    <3>1. i \in 1 .. NumEvents
      BY <1>3
    <3> QED
      BY <1>2, <3>1, WrapRange DEF Wrapped, mBufferEnd
  <2>2. queue'[i] = mBuffer'[p]
    BY <1>1, <1>3 DEF queue, Wrapped, mBufferEnd
  <2> HIDE DEF p
  <2>3. /\ i <= available => ~ (p >= mHead /\ p < mHead + n)
                             /\ ~ (p < mHead + n - NumEvents)
        /\ ~ (i <= available) /\ p >= mHead /\ p < mHead + n
             => p - mHead + 1 = i - available
        /\ ~ (i <= available) /\ ~ (p >= mHead /\ p < mHead + n)
             => p < mHead + n - NumEvents /\ p + NumEvents - mHead + 1 = i - available
    <3>1. available + n <= NumEvents
      BY <1>3
    <3> QED
      BY <1>2, <1>3, <2>1, <3>1, RingPlace
  <2>4. CASE i <= available
    <3>1. i \in 1 .. available
      BY <1>5, <2>4
    <3>2. (queue \o es)[i] = queue[i]
      BY <1>4, <1>5, <3>1
    <3>3. queue[i] = mBuffer[p]
      BY <3>1 DEF queue, p
    <3>4. ~ (p >= mHead /\ p < mHead + n) /\ ~ (p < mHead + n - NumEvents)
      BY <2>4, <2>3
    <3>5. mBuffer'[p] = mBuffer[p]
      BY <1>1, <2>1, <3>4
    <3> QED
      BY <2>2, <3>2, <3>3, <3>5
  <2>5. CASE ~ (i <= available)
    <3>1. (queue \o es)[i] = es[i - available]
      BY <1>4, <1>5, <2>5
    <3>2. CASE p >= mHead /\ p < mHead + n
      <4>1. mBuffer'[p] = es[p - mHead + 1]
        BY <1>1, <2>1, <3>2
      <4>2. p - mHead + 1 = i - available
        BY <2>5, <2>3, <3>2
      <4> QED
        BY <2>2, <3>1, <4>1, <4>2
    <3>3. CASE ~ (p >= mHead /\ p < mHead + n)
      <4>1. p < mHead + n - NumEvents /\ p + NumEvents - mHead + 1 = i - available
        BY <2>5, <2>3, <3>3
      <4>2. mBuffer'[p] = es[p + NumEvents - mHead + 1]
        BY <1>1, <2>1, <3>3, <4>1
      <4> QED
        BY <2>2, <3>1, <4>1, <4>2
    <3> QED
      BY <3>2, <3>3
  <2> QED
    BY <2>4, <2>5
<1>8. queue' = queue \o es
  <2>1. queue \o es \in Seq(Event)
    BY <1>4, <1>5
  <2>2. Len(queue \o es) = available + n
    BY <1>4, <1>5
  <2> QED
    BY <1>6, <1>7, <2>1, <2>2, SeqEqual
<1>9. Len(queue) + Len(es) <= NumEvents
  BY <1>3, <1>4, <1>5
<1>10. delivered' = es
  BY DEF fill
<1> QED
  BY <1>8, <1>9, <1>10 DEF FIFO!Arrive

\* next takes the oldest event.
LEMMA NextTakes ==
  ASSUME ReaderInv, ReaderInv', next
  PROVE  FIFO!Take
<1> USE ReaderAssumption
<1>1. /\ available \in 1 .. NumEvents /\ available' = available - 1
      /\ mBuffer' = mBuffer
      /\ mCurr \in 0 .. NumEvents - 1
      /\ mCurr' = IF mCurr + 1 >= NumEvents THEN 0 ELSE mCurr + 1
  BY DEF next, ReaderInv, RTypeOK, available, mBufferEnd
<1>2. queue \in Seq(Event) /\ Len(queue) = available /\ queue # << >>
  BY <1>1, QueueIsSeq
<1>3. /\ Tail(queue) \in Seq(Event) /\ Len(Tail(queue)) = available - 1
      /\ \A i \in 1 .. available - 1 : Tail(queue)[i] = queue[i + 1]
  BY <1>1, <1>2
<1>4. queue' \in Seq(Event) /\ Len(queue') = available - 1
  <2>1. (ReaderInv => queue \in Seq(Event) /\ Len(queue) = available)'
    BY QueueIsSeq, PTL
  <2> QED
    BY <1>1, <2>1
<1>5. ASSUME NEW i \in 1 .. available - 1
      PROVE  queue'[i] = Tail(queue)[i]
  <2>1. queue'[i] = mBuffer[Wrapped(mCurr' + i - 1)]
    BY <1>1 DEF queue, Wrapped, mBufferEnd
  <2>2. queue[i + 1] = mBuffer[Wrapped(mCurr + (i + 1) - 1)]
    BY <1>1 DEF queue
  <2>3. Wrapped(mCurr' + i - 1) = Wrapped(mCurr + (i + 1) - 1)
    BY <1>1 DEF Wrapped, mBufferEnd
  <2> QED
    BY <1>3, <2>1, <2>2, <2>3
<1>6. queue' = Tail(queue)
  BY <1>3, <1>4, <1>5, SeqEqual
<1>7. UNCHANGED delivered
  BY DEF next
<1> QED
  BY <1>2, <1>6, <1>7 DEF FIFO!Take

\* For every capacity the circular reader implements the bounded queue: events
\* come out once each and in the order the driver delivered them.
THEOREM ReaderImplementsQueue == RSpec => ImplementsQueue
<1>1. RInit => FIFO!QInit
  BY ReaderAssumption DEF RInit, FIFO!QInit, queue, available
<1>2. ASSUME ReaderInv, ReaderInv', [RNext]_rvars
      PROVE  [FIFO!QNext]_<<queue, delivered>>
  <2>1. ASSUME NEW n \in 1 .. NumEvents, NEW es \in [1 .. n -> Event], fill(es)
        PROVE  FIFO!QNext
    BY <1>2, <2>1, FillArrives DEF FIFO!QNext
  <2>2. CASE next
    BY <1>2, <2>2, NextTakes DEF FIFO!QNext
  <2>3. CASE UNCHANGED rvars
    BY <2>3 DEF rvars, queue, available
  <2> QED
    BY <1>2, <2>1, <2>2, <2>3 DEF RNext, Fill
<1> QED
  BY <1>1, <1>2, ReaderInvariance, PTL DEF RSpec, ImplementsQueue, FIFO!QSpec

-------------------------------------------------------------------------------
(* Sequences: a reader that is filled.                                     *)

LEMMA Regrouped ==
  \A S : \A x, y, z \in Seq(S) : (x \o y) \o z = x \o (y \o z)
  BY ConcatAssociative

\* A reader takes what it has room for.
LEMMA Filled ==
  ASSUME NEW S, NEW u \in Seq(S), NEW v \in Seq(S), NEW room \in Nat,
         NEW n \in 0 .. Len(v), Len(u) + n <= room
  PROVE  /\ u \o SubSeq(v, 1, n) \in Seq(S) /\ Len(u \o SubSeq(v, 1, n)) <= room
         /\ SubSeq(v, n + 1, Len(v)) \in Seq(S)
         /\ Len(SubSeq(v, n + 1, Len(v))) <= Len(v)
<1> DEFINE a == SubSeq(v, 1, n)
           b == SubSeq(v, n + 1, Len(v))
<1>1. n \in 0 .. Len(v) /\ Len(u) + n <= room /\ Len(v) \in Nat /\ Len(u) \in Nat
  OBVIOUS
<1>2. a \in Seq(S) /\ Len(a) = n
  <2>1. 1 \in Int /\ n \in Int /\ \A i \in 1 .. n : v[i] \in S
    BY <1>1
  <2>2. a \in Seq(S) /\ Len(a) = IF 1 <= n THEN n - 1 + 1 ELSE 0
    BY <2>1, SubSeqProperties
  <2> QED
    BY <1>1, <2>2
<1>3. b \in Seq(S) /\ Len(b) <= Len(v)
  <2>1. n + 1 \in Int /\ Len(v) \in Int /\ \A i \in n + 1 .. Len(v) : v[i] \in S
    BY <1>1
  <2>2. b \in Seq(S) /\ Len(b) = IF n + 1 <= Len(v) THEN Len(v) - (n + 1) + 1 ELSE 0
    <3> HIDE DEF b
    <3>1. \A m, k \in Int : (\A i \in m .. k : v[i] \in S) =>
            /\ SubSeq(v, m, k) \in Seq(S)
            /\ Len(SubSeq(v, m, k)) = IF m <= k THEN k - m + 1 ELSE 0
      BY SubSeqProperties
    <3> QED
      BY <2>1, <3>1, Zenon DEF b
  <2> QED
    BY <1>1, <2>2
<1> HIDE DEF a, b
<1>4. u \o a \in Seq(S) /\ Len(u \o a) = Len(u) + Len(a)
  BY <1>2, ConcatProperties
<1>5. Len(u \o a) <= room
  BY <1>1, <1>2, <1>4
<1> QED
  BY <1>3, <1>4, <1>5 DEF a, b

\* Nothing is lost thereby, and the order is kept.
LEMMA FilledSame ==
  ASSUME NEW S, NEW u \in Seq(S), NEW v \in Seq(S), NEW n \in 0 .. Len(v)
  PROVE  (u \o SubSeq(v, 1, n)) \o SubSeq(v, n + 1, Len(v)) = u \o v
<1> DEFINE a == SubSeq(v, 1, n)
           b == SubSeq(v, n + 1, Len(v))
<1>1. u \in Seq(S) /\ a \in Seq(S) /\ b \in Seq(S)
  <2>1. Len(u) \in Nat /\ Len(v) \in Nat /\ Len(u) + n \in Nat /\ Len(u) + n <= Len(u) + n
    OBVIOUS
  <2>2. \A i \in 1 .. n : v[i] \in S
    BY <2>1
  <2>3. a \in Seq(S)
    BY <2>1, <2>2, SubSeqProperties
  <2>4. b \in Seq(S)
    BY <2>1, Filled
  <2> QED
    BY <2>3, <2>4
<1>2. a \o b = v
  <2>1. 1 \in 1 .. Len(v) + 1 /\ n \in 1 - 1 .. Len(v) /\ Len(v) \in n .. Len(v)
    OBVIOUS
  <2>2. a \o b = SubSeq(v, 1, Len(v))
    BY <2>1, ConcatAdjacentSubSeq
  <2> QED
    BY <2>2, SubSeqFull
<1> HIDE DEF a, b
<1>3. (u \o a) \o b = u \o (a \o b)
  BY ONLY <1>1, Regrouped
<1> QED
  BY <1>2, <1>3 DEF a, b

-------------------------------------------------------------------------------
(* The time-of-flight HAL.                                                 *)

\* What the driver may report.
TofEvents == Distances \cup {"ABS_HAT0Y", "ABS_GAS", "SYN"}

RpType == [mEnabled : BOOLEAN, mFlushEnabled : BOOLEAN, mDetectDistance : {"CLOSE", "FAR"},
           mDetectWeight : 0 .. 2, mDetectMode : {"LOW", "HIGH"},
           mCurrentDistance : Distances, mTimestampUpdated : BOOLEAN,
           mSendData : BOOLEAN, distance : {"none", "CLOSE", "FAR"}]

PollType == [pc : {"wait", "loop", "config", "resume"}, room : Nat, mode : {"LOW", "HIGH"}]

CallType == [pc : {"idle", "config", "sar"}, en : BOOLEAN]

TofType == [sar : BOOLEAN, mode : {"LOW", "HIGH"}, delay : TofDelays \cup {0}]

TofTypes ==
  /\ mFilePath \in {"", "stray", "found"} /\ rp \in RpType /\ call \in CallType
  /\ poll \in PollType /\ tof \in TofType
  /\ reader \in Seq(TofEvents) /\ events \in Seq(TofEvents)
  /\ Len(reader) <= ReaderEvents /\ Len(events) <= MaxEvents
  /\ lastInput \in Distances /\ target \in Distances
  /\ told \in {"none", "CLOSE", "FAR"} /\ raced \in BOOLEAN

LEMMA TofTypesAre == TofTypes => TTypeOK
  BY Zenon DEF TofTypes, TTypeOK, RpType, PollType, CallType, TofType, DETECT_WEIGHT_CEILING

\* What setting one member does to the members.
LEMMA RpSet ==
  ASSUME NEW r \in RpType
  PROVE  /\ \A v \in BOOLEAN : [r EXCEPT !.mFlushEnabled = v] \in RpType
         /\ \A v \in BOOLEAN : [r EXCEPT !.mTimestampUpdated = v] \in RpType
         /\ \A v \in BOOLEAN : [r EXCEPT !.mSendData = v] \in RpType
         /\ \A v \in Distances : [r EXCEPT !.mCurrentDistance = v] \in RpType
         /\ \A v \in {"LOW", "HIGH"} : [r EXCEPT !.mDetectMode = v] \in RpType
         /\ \A v \in BOOLEAN, w \in {"CLOSE", "FAR"} :
              [r EXCEPT !.mEnabled = v, !.mDetectDistance = w] \in RpType
         /\ \A u \in {"CLOSE", "FAR"}, v \in 0 .. 2, w \in {"none", "CLOSE", "FAR"} :
              [r EXCEPT !.mDetectDistance = u, !.mDetectWeight = v, !.distance = w] \in RpType
  BY DEF RpType

LEMMA RpFields == 
  ASSUME NEW r \in RpType
  PROVE /\ r.mEnabled \in BOOLEAN /\ r.mFlushEnabled \in BOOLEAN /\ r.mTimestampUpdated \in BOOLEAN
        /\ r.mSendData \in BOOLEAN /\ r.mDetectDistance \in {"CLOSE", "FAR"}
        /\ r.mDetectWeight \in 0 .. 2 /\ r.mDetectMode \in {"LOW", "HIGH"}
        /\ r.mCurrentDistance \in Distances /\ r.distance \in {"none", "CLOSE", "FAR"}
  BY DEF RpType

LEMMA OtherFields ==
  /\ \A p \in PollType : /\ p.pc \in {"wait", "loop", "config", "resume"}
                         /\ p.room \in Nat /\ p.mode \in {"LOW", "HIGH"}
  /\ \A c \in CallType : c.pc \in {"idle", "config", "sar"} /\ c.en \in BOOLEAN
  /\ \A t \in TofType : t.sar \in BOOLEAN /\ t.mode \in {"LOW", "HIGH"}
  BY DEF PollType, CallType, TofType

LEMMA OtherSet ==
  /\ \A p \in PollType, c \in {"wait", "loop", "config", "resume"}, m \in {"LOW", "HIGH"} :
       [p EXCEPT !.pc = c, !.mode = m] \in PollType
  /\ \A p \in PollType, c \in {"wait", "loop", "config", "resume"}, n \in Nat :
       [p EXCEPT !.pc = c, !.room = n] \in PollType
  /\ \A p \in PollType, c \in {"wait", "loop", "config", "resume"} :
       [p EXCEPT !.pc = c] \in PollType
  /\ \A p \in PollType, n \in Nat : [p EXCEPT !.room = n] \in PollType
  /\ \A c \in CallType, v \in {"idle", "config", "sar"}, e \in BOOLEAN :
       [c EXCEPT !.pc = v, !.en = e] \in CallType
  /\ \A c \in CallType, v \in {"idle", "config", "sar"} : [c EXCEPT !.pc = v] \in CallType
  /\ \A t \in TofType, v \in BOOLEAN : [t EXCEPT !.sar = v] \in TofType
  /\ \A t \in TofType, m \in {"LOW", "HIGH"} : [t EXCEPT !.mode = m] \in TofType
  /\ \A t \in TofType, d \in TofDelays : [t EXCEPT !.delay = d] \in TofType
  BY DEF PollType, CallType, TofType

\* The object's mode is the driver's.  While a user of the sensor is not being raced
\* its enabling comes first; then the configuration that is being written, or has been,
\* is the one for the distance that is going out, and in the end the one for the
\* distance that was told.
Watching ==
  /\ tof.mode = rp.mDetectMode
  /\ call.pc # "idle" => call.en = rp.mEnabled
  /\ call.pc = "config" => rp.mEnabled
  /\ (rp.mEnabled /\ mFilePath = "found" /\ ~raced) =>
       /\ call.pc # "idle" => /\ ~Turning /\ told # "FAR"
                              /\ call.pc = "sar" => tof.mode = "HIGH"
       /\ call.pc = "idle" =>
            /\ poll.pc \in {"wait", "loop"} => tof.sar
            /\ poll.pc = "config" => (poll.mode = "LOW" <=> rp.distance = "FAR")
            /\ (poll.pc # "config" /\ (poll.pc = "resume" \/ rp.mSendData)) =>
                  (tof.mode = "LOW" <=> rp.distance = "FAR")
            /\ ~Turning => (told = "FAR" <=> tof.mode = "LOW")

TofInv == TofTypes /\ Watching

\* handleSARprocess, whoever calls it.
LEMMA Handled ==
  ASSUME TofTypes, NEW d \in Distances, NEW r \in RpType, NEW left,
         r.mEnabled = rp.mEnabled, r.mDetectMode = rp.mDetectMode,
         r.mSendData = rp.mSendData, r.distance = rp.distance,
         handleSARprocess(d, r, left)
  PROVE  /\ rp' \in RpType /\ tof' \in TofType /\ poll' \in PollType /\ raced' \in BOOLEAN
         /\ rp'.mEnabled = rp.mEnabled /\ rp'.mDetectMode = rp.mDetectMode
         /\ rp'.mSendData = rp.mSendData /\ tof'.mode = tof.mode
         /\ reader' = left /\ told' = told
         /\ \/ /\ UNCHANGED <<tof, poll, raced>>
               /\ rp'.distance = rp.distance
                    \/ (rp'.distance = "FAR" <=> rp.mDetectMode = "LOW")
            \/ /\ poll'.pc = "config" /\ (poll'.mode = "LOW" <=> rp'.distance = "FAR")
               /\ raced' = (raced \/ call.pc # "idle")
<1> DEFINE settled == Weight(d) = DETECT_WEIGHT_CEILING
           mode == IF Side(d) = "CLOSE" THEN "HIGH" ELSE "LOW"
<1>1. /\ Side(d) \in {"CLOSE", "FAR"} /\ Weight(d) \in 0 .. 2
  <2>1. rp.mDetectDistance \in {"CLOSE", "FAR"} /\ rp.mDetectWeight \in 0 .. 2
    BY RpFields DEF TofTypes
  <2>2. Side(d) \in {"CLOSE", "FAR"}
    <3>1. CASE d = "near"
      BY <3>1 DEF Side
    <3>2. CASE d = "far"
      BY <3>2 DEF Side
    <3>3. CASE d = "mid"
      BY <2>1, <3>3 DEF Side
    <3> QED
      BY <3>1, <3>2, <3>3 DEF Distances
  <2>3. Weight(d) \in 0 .. 2
    <3> HIDE DEF settled
    <3>1. rp.mDetectWeight < 2 => rp.mDetectWeight + 1 \in 0 .. 2
      BY <2>1
    <3> QED
      BY <2>1, <3>1 DEF Weight, DETECT_WEIGHT_CEILING
  <2> QED
    BY <2>2, <2>3
<1>2. /\ rp' = [r EXCEPT !.mDetectDistance = Side(d), !.mDetectWeight = Weight(d),
                         !.distance = IF settled THEN Side(d) ELSE @]
      /\ reader' = left /\ told' = told
      /\ IF settled /\ rp.mDetectMode # mode
         THEN /\ enableSAR(FALSE) /\ poll' = [poll EXCEPT !.pc = "config", !.mode = mode]
              /\ raced' = (raced \/ call.pc # "idle")
         ELSE UNCHANGED <<tof, poll, raced>>
  BY Zenon DEF handleSARprocess
<1> HIDE DEF settled
<1>3. PICK w \in {"none", "CLOSE", "FAR"} :
        /\ w = IF settled THEN Side(d) ELSE rp.distance
        /\ rp' = [r EXCEPT !.mDetectDistance = Side(d), !.mDetectWeight = Weight(d), !.distance = w]
  BY <1>1, <1>2, RpFields DEF TofTypes
<1>4. /\ rp' \in RpType /\ rp'.mEnabled = rp.mEnabled /\ rp'.mDetectMode = rp.mDetectMode
      /\ rp'.mSendData = rp.mSendData /\ rp'.distance = w
  <2>1. rp' \in RpType
    BY <1>1, <1>3, RpSet, Zenon
  <2> QED
    BY <1>3, <2>1 DEF RpType
<1>5. CASE settled /\ rp.mDetectMode # mode
  <2>1. tof' \in TofType /\ tof'.mode = tof.mode
    <3>1. PICK v \in BOOLEAN : tof' = [tof EXCEPT !.sar = v]
      BY <1>2, <1>5, OtherFields DEF enableSAR, TofTypes
    <3> QED
      BY <3>1, OtherSet DEF TofTypes, TofType
  <2>2. mode \in {"LOW", "HIGH"} /\ (mode = "LOW" <=> w = "FAR")
    BY <1>1, <1>3, <1>5
  <2> HIDE DEF mode
  <2>3. poll' \in PollType /\ poll'.pc = "config" /\ poll'.mode = mode
    BY <1>2, <1>5, <2>2 DEF TofTypes, PollType
  <2>4. raced' = (raced \/ call.pc # "idle") /\ raced' \in BOOLEAN
    BY <1>2, <1>5
  <2> QED
    BY <1>2, <1>4, <2>1, <2>2, <2>3, <2>4
<1>6. CASE ~(settled /\ rp.mDetectMode # mode)
  <2>1. UNCHANGED <<tof, poll, raced>>
    BY <1>2, <1>6
  <2>2. w = rp.distance \/ (w = "FAR" <=> rp.mDetectMode = "LOW")
    BY <1>1, <1>3, <1>6
  <2> QED
    BY <1>2, <1>4, <2>1, <2>2 DEF TofTypes
<1> QED
  BY <1>5, <1>6

\* What it does to the invariant.
LEMMA HandledInv ==
  ASSUME TofInv, poll.pc = "loop", NEW d \in Distances, NEW r \in RpType, NEW left,
         r.mEnabled = rp.mEnabled, r.mDetectMode = rp.mDetectMode,
         r.mSendData = rp.mSendData, r.distance = rp.distance,
         handleSARprocess(d, r, left), UNCHANGED <<mFilePath, call>>
  PROVE  /\ Watching' /\ rp' \in RpType /\ tof' \in TofType /\ poll' \in PollType
         /\ raced' \in BOOLEAN /\ reader' = left /\ told' = told
<1>1. /\ rp' \in RpType /\ tof' \in TofType /\ poll' \in PollType /\ raced' \in BOOLEAN
      /\ rp'.mEnabled = rp.mEnabled /\ rp'.mDetectMode = rp.mDetectMode
      /\ rp'.mSendData = rp.mSendData /\ tof'.mode = tof.mode
      /\ reader' = left /\ told' = told
      /\ \/ /\ UNCHANGED <<tof, poll, raced>>
            /\ rp'.distance = rp.distance
                 \/ (rp'.distance = "FAR" <=> rp.mDetectMode = "LOW")
         \/ /\ poll'.pc = "config" /\ (poll'.mode = "LOW" <=> rp'.distance = "FAR")
            /\ raced' = (raced \/ call.pc # "idle")
  BY Handled DEF TofInv
<1>2. Watching'
  <2>1. CASE /\ UNCHANGED <<tof, poll, raced>>
             /\ rp'.distance = rp.distance
                  \/ (rp'.distance = "FAR" <=> rp.mDetectMode = "LOW")
    BY <1>1, <2>1 DEF TofInv, Watching, Turning
  <2>2. CASE /\ poll'.pc = "config" /\ (poll'.mode = "LOW" <=> rp'.distance = "FAR")
             /\ raced' = (raced \/ call.pc # "idle")
    BY <1>1, <2>2 DEF TofInv, Watching, Turning
  <2> QED
    BY <1>1, <2>1, <2>2
<1> QED
  BY <1>1, <1>2

-------------------------------------------------------------------------------
LEMMA TofInitInv == TInit => TofInv
<1> SUFFICES ASSUME TInit PROVE TofInv
  OBVIOUS
<1>1. rp \in RpType /\ call \in CallType /\ poll \in PollType /\ tof \in TofType
  <2>1. 0 \in 0 .. 2 /\ 0 \in Nat
    OBVIOUS
  <2>2. rp \in RpType
    BY <2>1 DEF TInit, RpType, Distances
  <2>3. poll \in PollType
    BY <2>1 DEF TInit, PollType
  <2>4. call \in CallType /\ tof \in TofType
    BY DEF TInit, CallType, TofType
  <2> QED
    BY <2>2, <2>3, <2>4
<1>2. TofTypes
  <2>1. \A S : << >> \in Seq(S) /\ Len(<< >>) = 0
    OBVIOUS
  <2>2. 0 <= ReaderEvents /\ 0 <= MaxEvents
    BY TofAssumption
  <2> QED
    BY <1>1, <2>1, <2>2, TofAssumption DEF TInit, TofTypes, Distances
<1>3. Watching
  BY DEF TInit, Watching, Turning
<1> QED
  BY <1>2, <1>3 DEF TofInv

\* Steps that leave all but the calls and the files of the driver alone.
Elsewhere == UNCHANGED <<reader, events, lastInput, target>>

LEMMA CallSteps ==
  ASSUME TofInv, Elsewhere,
         \/ \E en \in BOOLEAN : setEnable(en)
         \/ EnableConfig \/ EnableSAR
         \/ \E ms \in TofDelays : tofBatch(ms)
  PROVE  TofInv'
<1>1. CASE \E en \in BOOLEAN : setEnable(en)
  <2>1. PICK en \in BOOLEAN : setEnable(en)
    BY <1>1
  <2>2. /\ call.pc = "idle" /\ told' = "none" /\ raced' = (en /\ Turning)
        /\ UNCHANGED <<poll, tof>>
    BY <2>1, Zenon DEF setEnable
  <2>3. mFilePath' \in {"", "stray", "found"}
    BY <2>1 DEF setEnable, findPathByAttr, TofInv, TofTypes
  <2>4. /\ rp' \in RpType /\ rp'.mEnabled = en /\ rp'.mDetectMode = rp.mDetectMode
        /\ rp'.mSendData = rp.mSendData
    <3>1. PICK w \in {"CLOSE", "FAR"} :
            rp' = [rp EXCEPT !.mEnabled = en, !.mDetectDistance = w]
      BY <2>1, RpFields DEF setEnable, TofInv, TofTypes
    <3>2. rp' \in RpType
      BY <3>1, RpSet, Zenon DEF TofInv, TofTypes
    <3> QED
      BY <3>1, <3>2 DEF RpType, TofInv, TofTypes
  <2>5. call' \in CallType /\ call'.en = en /\ call'.pc = IF en THEN "config" ELSE "sar"
    BY <2>1 DEF setEnable, CallType
  <2>6. raced' \in BOOLEAN
    BY <2>2, RpFields DEF Turning, TofInv, TofTypes
  <2>7. TofTypes'
    BY <2>2, <2>3, <2>4, <2>5, <2>6 DEF TofInv, TofTypes, Elsewhere
  <2>8. Watching'
    BY <2>2, <2>4, <2>5 DEF TofInv, Watching, Turning
  <2> QED
    BY <2>7, <2>8 DEF TofInv
<1>2. CASE EnableConfig
  <2>1. /\ call.pc = "config" /\ UNCHANGED <<mFilePath, poll, told, raced>>
        /\ call' = [call EXCEPT !.pc = "sar"] /\ setSARConfig("HIGH")
    BY <1>2 DEF EnableConfig
  <2>2. call' \in CallType /\ call'.pc = "sar" /\ call'.en = call.en
    BY <2>1 DEF CallType, TofInv, TofTypes
  <2>3. /\ rp' \in RpType /\ tof' \in TofType /\ tof'.mode = rp'.mDetectMode
        /\ rp'.mEnabled = rp.mEnabled /\ rp'.mSendData = rp.mSendData
        /\ mFilePath = "found" => tof'.mode = "HIGH"
    <3>1. CASE mFilePath = "found"
      <4>1. rp' \in RpType /\ tof' \in TofType
        BY <2>1, <3>1, RpSet, OtherSet DEF setSARConfig, TofInv, TofTypes
      <4> QED
        BY <2>1, <3>1, <4>1 DEF setSARConfig, RpType, TofType, TofInv, TofTypes
    <3>2. CASE mFilePath # "found"
      BY <2>1, <3>2 DEF setSARConfig, TofInv, TofTypes, Watching
    <3> QED
      BY <3>1, <3>2
  <2>4. TofTypes'
    BY <2>1, <2>2, <2>3 DEF TofInv, TofTypes, Elsewhere
  <2>5. Watching'
    BY <2>1, <2>2, <2>3 DEF TofInv, Watching, Turning
  <2> QED
    BY <2>4, <2>5 DEF TofInv
<1>3. CASE EnableSAR
  <2>1. /\ call.pc = "sar" /\ UNCHANGED <<mFilePath, rp, poll, told, raced>>
        /\ call' = [call EXCEPT !.pc = "idle", !.en = FALSE] /\ enableSAR(call.en)
    BY <1>3 DEF EnableSAR
  <2>2. call' \in CallType /\ call'.pc = "idle"
    BY <2>1 DEF CallType, TofInv, TofTypes
  <2>3. /\ tof' \in TofType /\ tof'.mode = tof.mode
        /\ mFilePath = "found" => tof'.sar = call.en
    <3>1. PICK v \in BOOLEAN : /\ v = IF mFilePath = "found" THEN call.en ELSE tof.sar
                               /\ tof' = [tof EXCEPT !.sar = v]
      BY <2>1, OtherFields DEF enableSAR, TofInv, TofTypes
    <3> QED
      BY <3>1, OtherSet DEF TofType, TofInv, TofTypes
  <2>4. TofTypes'
    BY <2>1, <2>2, <2>3 DEF TofInv, TofTypes, Elsewhere
  <2>5. Watching'
    BY <2>1, <2>2, <2>3 DEF TofInv, Watching, Turning, TofTypes
  <2> QED
    BY <2>4, <2>5 DEF TofInv
<1>4. CASE \E ms \in TofDelays : tofBatch(ms)
  <2>1. PICK ms \in TofDelays : tofBatch(ms)
    BY <1>4
  <2>2. tof' \in TofType /\ tof'.mode = tof.mode /\ tof'.sar = tof.sar
    BY <2>1 DEF tofBatch, TofType, TofInv, TofTypes
  <2>3. TofTypes'
    BY <2>1, <2>2 DEF tofBatch, TofInv, TofTypes, Elsewhere
  <2>4. Watching'
    BY <2>1, <2>2 DEF tofBatch, TofInv, Watching, Turning
  <2> QED
    BY <2>3, <2>4 DEF TofInv
<1> QED
  BY <1>1, <1>2, <1>3, <1>4

\* Appending a packet.
LEMMA Emits ==
  ASSUME TofTypes, NEW es \in Seq(TofEvents), Emit(es)
  PROVE  events' \in Seq(TofEvents) /\ Len(events') <= MaxEvents
<1>1. events' = events \o es /\ Len(events) + Len(es) <= MaxEvents
  BY DEF Emit
<1>2. /\ events \o es \in Seq(TofEvents)
      /\ Len(events \o es) = Len(events) + Len(es)
  BY ConcatProperties DEF TofTypes
<1> QED
  BY <1>1, <1>2

LEMMA DriverSteps ==
  ASSUME TofInv, Measure \/ Move \/ tofFlush
  PROVE  TofInv'
<1>1. UNCHANGED <<mFilePath, rp, call, poll, reader, tof, told, raced>>
  BY DEF Measure, Move, tofFlush, Emit
<1>2. /\ events' \in Seq(TofEvents) /\ Len(events') <= MaxEvents
      /\ lastInput' \in Distances /\ target' \in Distances
  <2>1. CASE Measure
    <3>1. /\ <<"ABS_HAT0Y", target, "SYN">> \in Seq(TofEvents)
          /\ <<"ABS_HAT0Y", target, "ABS_GAS", "SYN">> \in Seq(TofEvents)
          /\ <<"ABS_HAT0Y", "SYN">> \in Seq(TofEvents)
      <4>1. {"ABS_HAT0Y", target, "ABS_GAS", "SYN"} \subseteq TofEvents
        BY DEF TofInv, TofTypes, TofEvents
      <4> QED
        BY <4>1
    <3>2. lastInput' = target /\ target' = target
      BY <2>1 DEF Measure, Emit
    <3>3. \/ Emit(<<"ABS_HAT0Y", target, "SYN">>)
          \/ Emit(<<"ABS_HAT0Y", target, "ABS_GAS", "SYN">>)
          \/ Emit(<<"ABS_HAT0Y", "SYN">>)
      BY <2>1, Zenon DEF Measure
    <3>4. events' \in Seq(TofEvents) /\ Len(events') <= MaxEvents
      BY <3>1, <3>3, Emits DEF TofInv
    <3> QED
      BY <3>2, <3>4 DEF TofInv, TofTypes
  <2>2. CASE Move
    BY <2>2, TofAssumption DEF Move, TofInv, TofTypes
  <2>3. CASE tofFlush
    <3>1. <<"ABS_GAS", "SYN">> \in Seq(TofEvents)
      BY DEF TofEvents
    <3>2. Emit(<<"ABS_GAS", "SYN">>) /\ lastInput' = lastInput /\ target' = target
      BY <2>3 DEF tofFlush, Emit
    <3>3. events' \in Seq(TofEvents) /\ Len(events') <= MaxEvents
      BY <3>1, <3>2, Emits DEF TofInv
    <3> QED
      BY <3>2, <3>3 DEF TofInv, TofTypes
  <2> QED
    BY <2>1, <2>2, <2>3
<1>3. TofTypes'
  BY <1>1, <1>2 DEF TofInv, TofTypes
<1>4. Watching'
  BY <1>1 DEF TofInv, Watching, Turning
<1> QED
  BY <1>3, <1>4 DEF TofInv

LEMMA TofFills ==
  ASSUME TofTypes, tofFill
  PROVE  /\ reader' \in Seq(TofEvents) /\ Len(reader') <= ReaderEvents
         /\ events' \in Seq(TofEvents) /\ Len(events') <= MaxEvents
<1>1. PICK n : /\ n = IF Len(events) < ReaderEvents - Len(reader) THEN Len(events)
                      ELSE ReaderEvents - Len(reader)
               /\ reader' = reader \o SubSeq(events, 1, n)
               /\ events' = SubSeq(events, n + 1, Len(events))
  BY Zenon DEF tofFill
<1>5. Len(events) \in Nat /\ Len(reader) \in Nat /\ Len(reader) <= ReaderEvents
  BY LenProperties DEF TofTypes
<1>6. n \in 0 .. Len(events) /\ Len(reader) + n <= ReaderEvents
  BY <1>1, <1>5, TofAssumption
<1>2. /\ reader' \in Seq(TofEvents) /\ Len(reader') <= ReaderEvents
      /\ events' \in Seq(TofEvents) /\ Len(events') <= Len(events)
  BY <1>1, <1>5, <1>6, Filled, TofAssumption DEF TofTypes
<1>3. Len(events) \in Nat /\ Len(events') \in Nat /\ Len(events) <= MaxEvents
  BY <1>2, LenProperties DEF TofTypes
<1>4. Len(events') <= MaxEvents
  BY <1>2, <1>3, TofAssumption
<1> QED
  BY <1>2, <1>4

LEMMA PollSteps ==
  ASSUME TofInv, PollReturns \/ ReadReturns \/ TurnConfig \/ TurnResume
  PROVE  TofInv'
<1>1. CASE PollReturns
  <2>1. /\ UNCHANGED <<mFilePath, rp, call, tof, lastInput, target, told, raced>>
        /\ poll.pc = "wait" /\ tofFill
    BY <1>1 DEF PollReturns
  <2>2. poll' \in PollType /\ poll'.pc = "loop"
    <3>1. PICK c \in Nat : poll' = [poll EXCEPT !.pc = "loop", !.room = c]
      BY <1>1, TofAssumption DEF PollReturns
    <3> QED
      BY <3>1 DEF PollType, TofInv, TofTypes
  <2>3. TofTypes'
    BY <2>1, <2>2, TofFills DEF TofInv, TofTypes
  <2>4. Watching'
    BY <2>1, <2>2 DEF TofInv, Watching, Turning
  <2> QED
    BY <2>3, <2>4 DEF TofInv
<1>2. CASE ReadReturns
  <2>1. /\ UNCHANGED <<mFilePath, rp, call, reader, tof, events, lastInput, target, told, raced>>
        /\ poll.pc = "loop" /\ poll' = [poll EXCEPT !.pc = "wait"]
    BY <1>2 DEF ReadReturns
  <2>2. poll' \in PollType /\ poll'.pc = "wait"
    BY <2>1 DEF PollType, TofInv, TofTypes
  <2>3. TofTypes'
    BY <2>1, <2>2 DEF TofInv, TofTypes
  <2>4. Watching'
    BY <2>1, <2>2 DEF TofInv, Watching, Turning
  <2> QED
    BY <2>3, <2>4 DEF TofInv
<1>3. CASE TurnConfig
  <2>1. /\ UNCHANGED <<mFilePath, call, reader, events, lastInput, target, told, raced>>
        /\ poll.pc = "config" /\ poll' = [poll EXCEPT !.pc = "resume"]
        /\ setSARConfig(poll.mode)
    BY <1>3 DEF TurnConfig
  <2>2. poll' \in PollType /\ poll'.pc = "resume" /\ poll.mode \in {"LOW", "HIGH"}
    BY <2>1 DEF PollType, TofInv, TofTypes
  <2>3. /\ rp' \in RpType /\ tof' \in TofType /\ tof'.mode = rp'.mDetectMode
        /\ rp'.mEnabled = rp.mEnabled /\ rp'.mSendData = rp.mSendData
        /\ rp'.distance = rp.distance
        /\ mFilePath = "found" => tof'.mode = poll.mode
    <3>1. CASE mFilePath = "found"
      <4>1. rp' \in RpType /\ tof' \in TofType
        BY <2>1, <2>2, <3>1, RpSet, OtherSet DEF setSARConfig, TofInv, TofTypes
      <4> QED
        BY <2>1, <3>1, <4>1 DEF setSARConfig, RpType, TofType, TofInv, TofTypes
    <3>2. CASE mFilePath # "found"
      BY <2>1, <3>2 DEF setSARConfig, TofInv, TofTypes, Watching
    <3> QED
      BY <3>1, <3>2
  <2>4. TofTypes'
    BY <2>1, <2>2, <2>3 DEF TofInv, TofTypes
  <2>5. Watching'
    BY <2>1, <2>2, <2>3 DEF TofInv, Watching, Turning
  <2> QED
    BY <2>4, <2>5 DEF TofInv
<1>4. CASE TurnResume
  <2>1. /\ UNCHANGED <<mFilePath, call, reader, events, lastInput, target, told, raced>>
        /\ poll.pc = "resume" /\ poll' = [poll EXCEPT !.pc = "loop", !.mode = "HIGH"]
        /\ enableSAR(TRUE) /\ rp' = [rp EXCEPT !.mSendData = TRUE]
    BY <1>4 DEF TurnResume
  <2>2. poll' \in PollType /\ poll'.pc = "loop"
    BY <2>1 DEF PollType, TofInv, TofTypes
  <2>3. /\ tof' \in TofType /\ tof'.mode = tof.mode
        /\ mFilePath = "found" => tof'.sar
    <3>1. PICK v \in BOOLEAN : /\ v = IF mFilePath = "found" THEN TRUE ELSE tof.sar
                               /\ tof' = [tof EXCEPT !.sar = v]
      BY <2>1, OtherFields DEF enableSAR, TofInv, TofTypes
    <3> QED
      BY <3>1, OtherSet DEF TofType, TofInv, TofTypes
  <2>4. /\ rp' \in RpType /\ rp'.mSendData = TRUE /\ rp'.mEnabled = rp.mEnabled
        /\ rp'.mDetectMode = rp.mDetectMode /\ rp'.distance = rp.distance
    <3>1. rp' \in RpType
      BY <2>1, RpSet, Zenon DEF TofInv, TofTypes
    <3> QED
      BY <2>1, <3>1 DEF RpType, TofInv, TofTypes
  <2>5. TofTypes'
    BY <2>1, <2>2, <2>3, <2>4 DEF TofInv, TofTypes
  <2>6. Watching'
    BY <2>1, <2>2, <2>3, <2>4 DEF TofInv, Watching, Turning
  <2> QED
    BY <2>5, <2>6 DEF TofInv
<1> QED
  BY <1>1, <1>2, <1>3, <1>4

LEMMA ReadStep == ASSUME TofInv, ReadEvent PROVE TofInv'
<1>1. /\ poll.pc = "loop" /\ poll.room > 0 /\ reader # << >>
      /\ UNCHANGED <<mFilePath, call, events, lastInput, target>>
  BY DEF ReadEvent
<1>0. poll.room \in Nat
  BY OtherFields, Zenon DEF TofInv, TofTypes
<1>2. Head(reader) \in TofEvents /\ Tail(reader) \in Seq(TofEvents) /\ Len(Tail(reader)) <= ReaderEvents
  <2>1. /\ Head(reader) \in TofEvents /\ Tail(reader) \in Seq(TofEvents)
        /\ Len(Tail(reader)) = Len(reader) - 1
    BY <1>1, HeadTailProperties DEF TofInv, TofTypes
  <2>2. Len(reader) \in Nat /\ Len(reader) <= ReaderEvents
    BY LenProperties DEF TofInv, TofTypes
  <2> QED
    BY <2>1, <2>2, TofAssumption
<1>3. TofTypes' /\ Watching'
  <2>1. CASE ~rp.mEnabled /\ reader' = Tail(reader) /\ UNCHANGED <<rp, tof, poll, told, raced>>
    BY <1>1, <1>2, <2>1 DEF TofInv, TofTypes, Watching, Turning
  <2>2. ASSUME NEW d \in Distances, NEW r \in RpType, NEW left \in {reader, Tail(reader)},
               r.mEnabled = rp.mEnabled, r.mDetectMode = rp.mDetectMode,
               r.mSendData = rp.mSendData, r.distance = rp.distance,
               handleSARprocess(d, r, left)
        PROVE  TofTypes' /\ Watching'
    <3>1. /\ Watching' /\ rp' \in RpType /\ tof' \in TofType /\ poll' \in PollType
          /\ raced' \in BOOLEAN /\ reader' = left /\ told' = told
      BY <1>1, <2>2, HandledInv
    <3> QED
      BY <1>1, <1>2, <3>1 DEF TofInv, TofTypes
  <2>3. ASSUME NEW e, e = Head(reader), processEvent(e)
        PROVE  TofTypes' /\ Watching'
    <3>1. CASE /\ e \in Distances
               /\ handleSARprocess(e, [rp EXCEPT !.mCurrentDistance = e], Tail(reader))
      <4>1. PICK r : r = [rp EXCEPT !.mCurrentDistance = e]
        OBVIOUS
      <4>2. /\ r \in RpType /\ r.mEnabled = rp.mEnabled /\ r.mDetectMode = rp.mDetectMode
            /\ r.mSendData = rp.mSendData /\ r.distance = rp.distance
        <5>1. r \in RpType
          BY <3>1, <4>1, RpSet DEF TofInv, TofTypes
        <5> QED
          BY <4>1, <5>1 DEF TofInv, TofTypes, RpType
      <4>3. handleSARprocess(e, r, Tail(reader))
        BY <3>1, <4>1
      <4> QED
        BY <2>2, <3>1, <4>2, <4>3
    <3>2. CASE /\ rp' = CASE e = "ABS_HAT0Y" -> [rp EXCEPT !.mTimestampUpdated = TRUE]
                          [] e = "ABS_GAS"   -> [rp EXCEPT !.mFlushEnabled = TRUE]
                          [] OTHER           -> [rp EXCEPT !.mCurrentDistance = e]
               /\ e \in {"ABS_HAT0Y", "ABS_GAS"} \/ e \in Distances
               /\ reader' = Tail(reader) /\ UNCHANGED <<tof, poll, told, raced>>
      <4>1. /\ rp' \in RpType /\ rp'.mEnabled = rp.mEnabled /\ rp'.mDetectMode = rp.mDetectMode
            /\ rp'.mSendData = rp.mSendData /\ rp'.distance = rp.distance
        <5>1. \/ rp' = [rp EXCEPT !.mTimestampUpdated = TRUE]
              \/ rp' = [rp EXCEPT !.mFlushEnabled = TRUE]
              \/ e \in Distances /\ rp' = [rp EXCEPT !.mCurrentDistance = e]
          BY <3>2
        <5>2. rp' \in RpType
          BY <5>1, RpSet DEF TofInv, TofTypes
        <5> QED
          BY <5>1, <5>2 DEF TofInv, TofTypes, RpType
      <4> QED
        BY <1>1, <1>2, <3>2, <4>1 DEF TofInv, TofTypes, Watching, Turning
    <3> QED
      BY <2>3, <3>1, <3>2, Zenon DEF processEvent
  <2>4. CASE EV_SYN
    <3>1. CASE /\ rp' = [rp EXCEPT !.mFlushEnabled = FALSE]
               /\ poll' = [poll EXCEPT !.room = @ - 1]
               /\ reader' = Tail(reader) /\ UNCHANGED <<tof, told, raced>>
      <4>1. /\ rp' \in RpType /\ rp'.mEnabled = rp.mEnabled /\ rp'.mDetectMode = rp.mDetectMode
            /\ rp'.mSendData = rp.mSendData /\ rp'.distance = rp.distance
        <5>1. rp' \in RpType
          BY <3>1, RpSet DEF TofInv, TofTypes
        <5> QED
          BY <3>1, <5>1 DEF TofInv, TofTypes, RpType
      <4>2. poll' \in PollType /\ poll'.pc = poll.pc /\ poll'.mode = poll.mode
        <5>1. poll.room - 1 \in Nat
          BY <1>0, <1>1
        <5> QED
          BY <3>1, <5>1 DEF TofInv, TofTypes, PollType
      <4> QED
        BY <1>1, <1>2, <3>1, <4>1, <4>2 DEF TofInv, TofTypes, Watching, Turning
    <3>2. CASE handleSARprocess(rp.mCurrentDistance,
                                [rp EXCEPT !.mTimestampUpdated = FALSE], reader)
      <4>1. PICK r : r = [rp EXCEPT !.mTimestampUpdated = FALSE]
        OBVIOUS
      <4>2. /\ r \in RpType /\ r.mEnabled = rp.mEnabled /\ r.mDetectMode = rp.mDetectMode
            /\ r.mSendData = rp.mSendData /\ r.distance = rp.distance
        <5>1. r \in RpType
          BY <4>1, RpSet DEF TofInv, TofTypes
        <5> QED
          BY <4>1, <5>1 DEF TofInv, TofTypes, RpType
      <4>3. handleSARprocess(rp.mCurrentDistance, r, reader) /\ rp.mCurrentDistance \in Distances
        BY <3>2, <4>1, RpFields DEF TofInv, TofTypes
      <4> QED
        BY <2>2, <4>2, <4>3
    <3>3. CASE /\ rp' = [rp EXCEPT !.mSendData = FALSE]
               /\ told' = IF rp.mSendData /\ rp.mEnabled THEN rp.distance ELSE told
               /\ poll' = [poll EXCEPT !.room = IF rp.mSendData THEN @ - 1 ELSE @]
               /\ reader' = Tail(reader) /\ UNCHANGED <<tof, raced>>
      <4>1. /\ rp' \in RpType /\ rp'.mEnabled = rp.mEnabled /\ rp'.mDetectMode = rp.mDetectMode
            /\ rp'.mSendData = FALSE /\ rp'.distance = rp.distance
        <5>1. rp' \in RpType
          BY <3>3, RpSet DEF TofInv, TofTypes
        <5> QED
          BY <3>3, <5>1 DEF TofInv, TofTypes, RpType
      <4>2. poll' \in PollType /\ poll'.pc = poll.pc /\ poll'.mode = poll.mode
        <5>1. (IF rp.mSendData THEN poll.room - 1 ELSE poll.room) \in Nat
          BY <1>0, <1>1
        <5> QED
          BY <3>3, <5>1 DEF TofInv, TofTypes, PollType
      <4>3. told' \in {"none", "CLOSE", "FAR"}
        BY <3>3, RpFields DEF TofInv, TofTypes
      <4>4. TofTypes'
        BY <1>1, <1>2, <3>3, <4>1, <4>2, <4>3 DEF TofInv, TofTypes
      <4>5. Watching'
        BY <1>1, <3>3, <4>1, <4>2 DEF TofInv, Watching, Turning
      <4> QED
        BY <4>4, <4>5
    <3> QED
      BY <2>4, <3>1, <3>2, <3>3, Zenon DEF EV_SYN
  <2> QED
    BY <2>1, <2>3, <2>4 DEF ReadEvent
<1> QED
  BY <1>3 DEF TofInv

LEMMA TofStep == TofInv /\ [TNext]_tvars => TofInv'
<1> SUFFICES ASSUME TofInv, [TNext]_tvars PROVE TofInv'
  OBVIOUS
<1>1. CASE PollReturns \/ ReadReturns \/ TurnConfig \/ TurnResume
  BY <1>1, PollSteps
<1>2. CASE ReadEvent
  BY <1>2, ReadStep
<1>3. CASE \/ \E en \in BOOLEAN : setEnable(en)
           \/ EnableConfig \/ EnableSAR
           \/ \E ms \in TofDelays : tofBatch(ms)
  <2>1. Elsewhere
    BY <1>3 DEF Elsewhere, setEnable, EnableConfig, EnableSAR, tofBatch
  <2> QED
    BY <1>3, <2>1, CallSteps
<1>4. CASE Measure \/ Move \/ tofFlush
  BY <1>4, DriverSteps
<1>5. CASE UNCHANGED tvars
  BY <1>5 DEF tvars, TofInv, TofTypes, Watching, Turning
<1> QED
  BY <1>1, <1>2, <1>3, <1>4, <1>5 DEF TNext, TofPoll, TofCall

LEMMA TofInvHolds == TSpec => []TofInv
  BY TofInitInv, TofStep, PTL DEF TSpec

LEMMA WatchingTells == TofInv => ToldIsWatched
  BY DEF TofInv, TofTypes, PollType, Watching, ToldIsWatched, Turning

\* What the user was told last and the crossing the driver watches fit together, for
\* every interleaving of setEnable and the poll thread that does not enable the sensor
\* while its configuration is being turned round (tof_hal/RearProxSensor.cpp:
\* setEnable, handleSARprocess, readEvents).
THEOREM TofToldIsWatched == TSpec => []ToldIsWatched
  BY TofInvHolds, WatchingTells, PTL

-------------------------------------------------------------------------------
(* The laser ranging HAL.                                                  *)

\* What the reader may hold.
RangeEvents == Reported \cup {"DT_FLUSH", "SYN"}

-------------------------------------------------------------------------------
(* Reading the first event, and two more arriving.                         *)

LEMMA AnswersFinite ==
  ASSUME NEW s \in Seq(RangeEvents)
  PROVE  IsFiniteSet(Answers(s)) /\ Cardinality(Answers(s)) \in Nat
<1>1. Len(s) \in Int /\ 1 \in Int
  OBVIOUS
<1>2. IsFiniteSet(1 .. Len(s))
  BY <1>1, FS_Interval
<1>3. Answers(s) \in SUBSET (1 .. Len(s))
  BY DEF Answers
<1>4. IsFiniteSet(Answers(s))
  BY <1>2, <1>3, FS_Subset
<1> QED
  BY <1>4, FS_CardinalityType

LEMMA First ==
  ASSUME NEW e \in RangeEvents, NEW t \in Seq(RangeEvents)
  PROVE  /\ <<e>> \o t \in Seq(RangeEvents) /\ Len(<<e>> \o t) = Len(t) + 1
         /\ (<<e>> \o t)[1] = e /\ \A i \in 1 .. Len(t) : (<<e>> \o t)[i + 1] = t[i]
<1>1. <<e>> \in Seq(RangeEvents) /\ Len(<<e>>) = 1 /\ <<e>>[1] = e /\ Len(t) \in Nat
  OBVIOUS
<1>2. /\ <<e>> \o t \in Seq(RangeEvents) /\ Len(<<e>> \o t) = Len(<<e>>) + Len(t)
      /\ \A i \in 1 .. Len(<<e>>) + Len(t) :
           (<<e>> \o t)[i] = IF i <= Len(<<e>>) THEN <<e>>[i] ELSE t[i - Len(<<e>>)]
  BY <1>1, ConcatProperties
<1> QED
  BY <1>1, <1>2

LEMMA AnswersFirst ==
  ASSUME NEW e \in RangeEvents, NEW t \in Seq(RangeEvents)
  PROVE  Cardinality(Answers(<<e>> \o t)) =
           IF e = "DT_FLUSH" THEN Cardinality(Answers(t)) + 1 ELSE Cardinality(Answers(t))
<1> DEFINE s == <<e>> \o t
           f == [i \in Answers(t) |-> i + 1]
           T == Answers(s) \ {1}
<1>1. /\ s \in Seq(RangeEvents) /\ Len(s) = Len(t) + 1 /\ s[1] = e /\ Len(t) \in Nat
      /\ \A i \in 1 .. Len(t) : s[i + 1] = t[i]
  BY First
<1> HIDE DEF s
<1>2. f \in Bijection(Answers(t), T)
  <2>1. \A i \in Answers(t) : i + 1 \in T
    BY <1>1 DEF Answers
  <2>2. \A i \in T : i - 1 \in Answers(t) /\ (i - 1) + 1 = i
    <3> SUFFICES ASSUME NEW i \in T PROVE i - 1 \in Answers(t) /\ (i - 1) + 1 = i
      OBVIOUS
    <3>1. i \in 1 .. Len(t) + 1 /\ i # 1 /\ s[i] = "DT_FLUSH"
      BY <1>1 DEF Answers
    <3>2. i - 1 \in 1 .. Len(t) /\ (i - 1) + 1 = i
      BY <1>1, <3>1
    <3> QED
      BY <1>1, <3>1, <3>2 DEF Answers
  <2>3. \A i, j \in Answers(t) : i + 1 = j + 1 => i = j
    BY DEF Answers
  <2>4. f \in [Answers(t) -> T]
    BY <2>1
  <2>5. \A i \in T : \E k \in Answers(t) : f[k] = i
    BY <2>2
  <2> QED
    BY <2>3, <2>4, <2>5 DEF Bijection, Injection, IsInjective, Surjection
<1>3. Cardinality(T) = Cardinality(Answers(t)) /\ IsFiniteSet(T)
  BY <1>2, AnswersFinite, FS_Bijection DEF ExistsBijection
<1>4. IsFiniteSet(Answers(s)) /\ Cardinality(Answers(s)) \in Nat
  BY <1>1, AnswersFinite
<1>5. 1 \in Answers(s) <=> e = "DT_FLUSH"
  BY <1>1 DEF Answers
<1>6. Cardinality(T) = IF 1 \in Answers(s) THEN Cardinality(Answers(s)) - 1
                       ELSE Cardinality(Answers(s))
  BY <1>4, FS_RemoveElement
<1> QED
  BY <1>3, <1>4, <1>5, <1>6 DEF s

LEMMA PacketEnds ==
  ASSUME NEW s \in Seq(RangeEvents), NEW e \in RangeEvents
  PROVE  /\ s \o <<e, "SYN">> \in Seq(RangeEvents)
         /\ Len(s \o <<e, "SYN">>) = Len(s) + 2
         /\ (s \o <<e, "SYN">>)[Len(s) + 1] = e /\ (s \o <<e, "SYN">>)[Len(s) + 2] = "SYN"
         /\ \A i \in 1 .. Len(s) : (s \o <<e, "SYN">>)[i] = s[i]
<1>1. /\ <<e, "SYN">> \in Seq(RangeEvents) /\ Len(<<e, "SYN">>) = 2
      /\ <<e, "SYN">>[1] = e /\ <<e, "SYN">>[2] = "SYN" /\ Len(s) \in Nat
  <2>1. {e, "SYN"} \subseteq RangeEvents
    BY DEF RangeEvents
  <2> QED
    BY <2>1
<1>2. /\ s \o <<e, "SYN">> \in Seq(RangeEvents)
      /\ Len(s \o <<e, "SYN">>) = Len(s) + Len(<<e, "SYN">>)
      /\ \A i \in 1 .. Len(s) + Len(<<e, "SYN">>) : (s \o <<e, "SYN">>)[i] =
           IF i <= Len(s) THEN s[i] ELSE <<e, "SYN">>[i - Len(s)]
  BY <1>1, ConcatProperties
<1> QED
  BY <1>1, <1>2

LEMMA AnswersMore ==
  ASSUME NEW s \in Seq(RangeEvents), NEW e \in RangeEvents
  PROVE  Cardinality(Answers(s \o <<e, "SYN">>)) =
           IF e = "DT_FLUSH" THEN Cardinality(Answers(s)) + 1 ELSE Cardinality(Answers(s))
<1> DEFINE u == s \o <<e, "SYN">>
<1>1. /\ u \in Seq(RangeEvents) /\ Len(u) = Len(s) + 2 /\ Len(s) \in Nat
      /\ u[Len(s) + 1] = e /\ u[Len(s) + 2] = "SYN"
      /\ \A i \in 1 .. Len(s) : u[i] = s[i]
  BY PacketEnds
<1> HIDE DEF u
<1>2. Answers(u) = IF e = "DT_FLUSH" THEN Answers(s) \cup {Len(s) + 1} ELSE Answers(s)
  <2>1. \A i : i \in 1 .. Len(u) <=> i \in 1 .. Len(s) \/ i = Len(s) + 1 \/ i = Len(s) + 2
    BY <1>1
  <2> QED
    BY <1>1, <2>1 DEF Answers
<1>3. Len(s) + 1 \notin Answers(s)
  BY <1>1 DEF Answers
<1>4. IsFiniteSet(Answers(s))
  BY AnswersFinite
<1> QED
  BY <1>2, <1>3, <1>4, FS_AddElement DEF u

LEMMA ComingFirst ==
  ASSUME NEW e \in RangeEvents, NEW t \in Seq(RangeEvents), NEW last \in Reported,
         NEW dist, NEW out, Coming(<<e>> \o t, last, dist, out)
  PROVE  Coming(t, last, IF e \in Reported THEN e ELSE dist, IF e = "SYN" THEN dist ELSE out)
<1> DEFINE s == <<e>> \o t
           d == IF e \in Reported THEN e ELSE dist
           h == IF e = "SYN" THEN dist ELSE out
<1>1. /\ Len(s) = Len(t) + 1 /\ s[1] = e /\ Len(t) \in Nat
      /\ \A i \in 1 .. Len(t) : s[i + 1] = t[i]
  BY First
<1>2. Coming(s, last, dist, out)
  OBVIOUS
<1> HIDE DEF s
<1>3. \A i \in 1 .. Len(t) : i + 1 \in 1 .. Len(s)
  BY <1>1
<1>4. 1 \in 1 .. Len(s) /\ \A i \in 1 .. Len(s) : i = 1 \/ (i - 1 \in 1 .. Len(t) /\ (i - 1) + 1 = i)
  BY <1>1
<1>5. ASSUME NEW i \in 1 .. Len(s), s[i] = last,
             \A j \in 1 .. Len(s) : j > i => s[j] \notin Reported,
             NEW k \in 1 .. Len(s), k > i, s[k] = "SYN"
      PROVE  Coming(t, last, d, h)
  <2>1. k - 1 \in 1 .. Len(t) /\ t[k - 1] = "SYN"
    <3>1. k - 1 \in 1 .. Len(t) /\ (k - 1) + 1 = k
      BY <1>1, <1>5
    <3> QED
      BY <1>1, <1>5, <3>1
  <2>2. CASE i = 1
    <3>1. e = last
      BY <1>1, <1>5, <2>2
    <3>2. \A j \in 1 .. Len(t) : t[j] \notin Reported
      <4> SUFFICES ASSUME NEW j \in 1 .. Len(t) PROVE t[j] \notin Reported
        OBVIOUS
      <4>1. j + 1 \in 1 .. Len(s) /\ j + 1 > i
        BY <1>1, <2>2
      <4> QED
        BY <1>1, <1>5, <4>1
    <3> QED
      BY <2>1, <3>1, <3>2 DEF Coming
  <2>3. CASE i # 1
    <3>1. i - 1 \in 1 .. Len(t) /\ (i - 1) + 1 = i
      BY <1>4, <2>3
    <3>2. t[i - 1] = last
      BY <1>1, <1>5, <3>1
    <3>3. \A j \in 1 .. Len(t) : j > i - 1 => t[j] \notin Reported
      <4> SUFFICES ASSUME NEW j \in 1 .. Len(t), j > i - 1 PROVE t[j] \notin Reported
        OBVIOUS
      <4>1. j + 1 \in 1 .. Len(s) /\ j + 1 > i
        BY <1>1
      <4> QED
        BY <1>1, <1>5, <4>1
    <3>4. k - 1 > i - 1
      BY <1>1, <1>5
    <3> QED
      BY <2>1, <3>1, <3>2, <3>3, <3>4 DEF Coming
  <2> QED
    BY <2>2, <2>3
<1>6. ASSUME \A j \in 1 .. Len(s) : s[j] \notin Reported, dist = last,
             out = last \/ \E j \in 1 .. Len(s) : s[j] = "SYN"
      PROVE  Coming(t, last, d, h)
  <2>1. e \notin Reported /\ \A j \in 1 .. Len(t) : t[j] \notin Reported
    BY <1>1, <1>3, <1>4, <1>6
  <2>2. h = last \/ \E j \in 1 .. Len(t) : t[j] = "SYN"
    <3>1. CASE out = last \/ e = "SYN"
      BY <1>6, <3>1
    <3>2. CASE out # last /\ e # "SYN"
      <4>1. PICK j \in 1 .. Len(s) : s[j] = "SYN"
        BY <1>6, <3>2
      <4>2. j # 1
        BY <1>1, <3>2, <4>1
      <4>3. j - 1 \in 1 .. Len(t) /\ (j - 1) + 1 = j
        BY <1>4, <4>2
      <4> QED
        BY <1>1, <4>1, <4>3
    <3> QED
      BY <3>1, <3>2
  <2> QED
    BY <1>6, <2>1, <2>2 DEF Coming
<1>7. Coming(t, last, d, h)
  BY <1>2, <1>5, <1>6 DEF Coming
<1> QED
  BY <1>7

LEMMA ComingMore ==
  ASSUME NEW s \in Seq(RangeEvents), NEW last, NEW dist, NEW out
  PROVE  /\ Coming(s, last, dist, out) => Coming(s \o <<"DT_FLUSH", "SYN">>, last, dist, out)
         /\ \A d \in Reported : Coming(s \o <<d, "SYN">>, d, dist, out)
<1> SUFFICES ASSUME NEW e \in Reported \cup {"DT_FLUSH"},
                    e = "DT_FLUSH" => Coming(s, last, dist, out)
             PROVE  Coming(s \o <<e, "SYN">>, IF e \in Reported THEN e ELSE last, dist, out)
  BY DEF Reported
<1> DEFINE u == s \o <<e, "SYN">>
<1>1. /\ Len(u) = Len(s) + 2 /\ Len(s) \in Nat
      /\ u[Len(s) + 1] = e /\ u[Len(s) + 2] = "SYN"
      /\ \A i \in 1 .. Len(s) : u[i] = s[i]
  BY PacketEnds DEF RangeEvents
<1> HIDE DEF u
<1>2. /\ \A i \in 1 .. Len(u) : i \in 1 .. Len(s) \/ i = Len(s) + 1 \/ i = Len(s) + 2
      /\ \A i \in 1 .. Len(s) : i \in 1 .. Len(u) /\ i <= Len(s)
      /\ {Len(s) + 1, Len(s) + 2} \subseteq 1 .. Len(u)
  BY <1>1
<1>3. CASE e \in Reported
  <2>1. \A j \in 1 .. Len(u) : j > Len(s) + 1 => u[j] \notin Reported
    BY <1>1, <1>2 DEF Reported
  <2>2. Len(s) + 2 > Len(s) + 1
    BY <1>1
  <2> QED
    BY <1>1, <1>2, <1>3, <2>1, <2>2 DEF Coming, u
<1>4. CASE e = "DT_FLUSH"
  <2>1. e \notin Reported /\ "SYN" \notin Reported
    BY <1>4 DEF Reported
  <2>2. ASSUME NEW i \in 1 .. Len(s), s[i] = last,
               \A j \in 1 .. Len(s) : j > i => s[j] \notin Reported,
               NEW k \in 1 .. Len(s), k > i, s[k] = "SYN"
        PROVE  Coming(u, last, dist, out)
    <3>1. u[i] = last /\ u[k] = "SYN" /\ i \in 1 .. Len(u) /\ k \in 1 .. Len(u)
      BY <1>1, <1>2, <2>2
    <3>2. \A j \in 1 .. Len(u) : j > i => u[j] \notin Reported
      BY <1>1, <1>2, <2>1, <2>2
    <3> QED
      BY <2>2, <3>1, <3>2 DEF Coming
  <2>3. ASSUME \A j \in 1 .. Len(s) : s[j] \notin Reported, dist = last
        PROVE  Coming(u, last, dist, out)
    <3>1. \A j \in 1 .. Len(u) : u[j] \notin Reported
      BY <1>1, <1>2, <2>1, <2>3
    <3>2. \E j \in 1 .. Len(u) : u[j] = "SYN"
      BY <1>1, <1>2
    <3> QED
      BY <2>3, <3>1, <3>2 DEF Coming
  <2>4. Coming(u, last, dist, out)
    BY <1>4, <2>2, <2>3 DEF Coming
  <2> QED
    BY <2>1, <2>4 DEF u
<1> QED
  BY <1>3, <1>4

-------------------------------------------------------------------------------
(* The invariant.                                                          *)

RangeTypes ==
  /\ rangeFd \in BOOLEAN
  /\ range \in [sar : BOOLEAN, delay : RangeDelays \cup {0}, last : Reported \cup {"none"}]
  /\ prox \in [mEnabled : BOOLEAN, mFlushEnabled : BOOLEAN, distance : Reported]
  /\ rangeQueue \in Seq(RangeEvents) /\ rangeBuffer \in Seq(RangeEvents)
  /\ Len(rangeQueue) <= MaxRange /\ Len(rangeBuffer) <= RangeReader
  /\ rangePoll \in [on : BOOLEAN, room : Nat]
  /\ heard \in Reported \cup {"none"} /\ asked \in 0 .. MaxAsked

\* The two parts of RangeNothingLost.
RangeOwed == asked = Cardinality(Answers(stream))
RangeComing == range.last # "none" => Coming(stream, range.last, prox.distance, heard)

RangeInv == RangeTypes /\ RangeOwed /\ RangeComing

LEMMA StreamType == RangeTypes => stream \in Seq(RangeEvents)
  BY ConcatProperties DEF RangeTypes, stream

LEMMA NothingOwed ==
  ASSUME RangeTypes, rangeBuffer = << >>, rangeQueue = << >>
  PROVE  stream = << >> /\ Cardinality(Answers(stream)) = 0
<1>1. stream = << >>
  BY DEF stream
<1>2. Answers(stream) = {}
  BY <1>1 DEF Answers
<1> QED
  BY <1>1, <1>2, FS_EmptySet

LEMMA RangeInitInv == XInit => RangeInv
<1> SUFFICES ASSUME XInit PROVE RangeInv
  OBVIOUS
<1>1. RangeTypes
  <2>1. \A S : << >> \in Seq(S) /\ Len(<< >>) = 0
    OBVIOUS
  <2>2. 0 <= RangeReader /\ 0 <= MaxRange /\ 0 \in 0 .. MaxAsked /\ 0 \in Nat /\ RangeReader \in Nat
    BY RangeAssumption
  <2>3. prox \in [mEnabled : BOOLEAN, mFlushEnabled : BOOLEAN, distance : Reported]
    BY DEF XInit
  <2>4. range \in [sar : BOOLEAN, delay : RangeDelays \cup {0}, last : Reported \cup {"none"}]
    BY DEF XInit
  <2>5. rangePoll \in [on : BOOLEAN, room : Nat]
    BY <2>2 DEF XInit
  <2> QED
    BY <2>1, <2>2, <2>3, <2>4, <2>5 DEF XInit, RangeTypes, openInput
<1> QED
  BY <1>1, NothingOwed DEF XInit, RangeInv, RangeOwed, RangeComing

\* Steps of the other thread and of the driver that send nothing.
LEMMA QuietSteps ==
  ASSUME RangeInv, \/ \E en, opens \in BOOLEAN : rangeEnable(en, opens)
                   \/ \E ms \in RangeDelays : rangeBatch(ms)
  PROVE  RangeInv'
<1>1. UNCHANGED <<rangeFd, rangeQueue, rangeBuffer, rangePoll, heard, asked>>
  BY DEF rangeEnable, rangeBatch
<1>2. /\ range' \in [sar : BOOLEAN, delay : RangeDelays \cup {0}, last : Reported \cup {"none"}]
      /\ range'.last = range.last
      /\ prox' \in [mEnabled : BOOLEAN, mFlushEnabled : BOOLEAN, distance : Reported]
      /\ prox'.distance = prox.distance
  <2>1. CASE \E en, opens \in BOOLEAN : rangeEnable(en, opens)
    <3>1. PICK en \in BOOLEAN, opens \in BOOLEAN : rangeEnable(en, opens)
      BY <2>1
    <3>2. PICK v \in BOOLEAN : range' = [range EXCEPT !.sar = v]
      BY <3>1 DEF rangeEnable, RangeInv, RangeTypes
    <3>3. prox' = [prox EXCEPT !.mEnabled = en]
      BY <3>1 DEF rangeEnable
    <3> QED
      BY <3>2, <3>3 DEF RangeInv, RangeTypes
  <2>2. CASE \E ms \in RangeDelays : rangeBatch(ms)
    BY <2>2 DEF rangeBatch, RangeInv, RangeTypes
  <2> QED
    BY <2>1, <2>2
<1>3. RangeTypes'
  BY <1>1, <1>2 DEF RangeInv, RangeTypes
<1> QED
  BY <1>1, <1>2, <1>3 DEF RangeInv, RangeOwed, RangeComing, stream

LEMMA Packets ==
  ASSUME RangeInv, NEW e \in RangeEvents, Packet(e), rangeBuffer' = rangeBuffer
  PROVE  /\ rangeQueue' \in Seq(RangeEvents) /\ Len(rangeQueue') <= MaxRange
         /\ stream' = stream \o <<e, "SYN">>
<1>1. rangeQueue' = rangeQueue \o <<e, "SYN">> /\ Len(rangeQueue) + 2 <= MaxRange
  BY DEF Packet
<1>2. /\ rangeQueue \o <<e, "SYN">> \in Seq(RangeEvents)
      /\ Len(rangeQueue \o <<e, "SYN">>) = Len(rangeQueue) + 2
  BY PacketEnds DEF RangeInv, RangeTypes
<1>3. stream' = stream \o <<e, "SYN">>
  <2>1. rangeBuffer \in Seq(RangeEvents) /\ rangeQueue \in Seq(RangeEvents)
    BY DEF RangeInv, RangeTypes
  <2>2. <<e, "SYN">> \in Seq(RangeEvents)
    BY DEF RangeEvents
  <2>3. (rangeBuffer \o rangeQueue) \o <<e, "SYN">> = rangeBuffer \o (rangeQueue \o <<e, "SYN">>)
    BY ONLY <2>1, <2>2, Regrouped
  <2> QED
    BY <1>1, <2>3 DEF stream
<1> QED
  BY <1>1, <1>2, <1>3

LEMMA FlushStep == ASSUME RangeInv, rangeFlush PROVE RangeInv'
<1>1. /\ asked < MaxAsked /\ asked' = asked + 1 /\ Packet("DT_FLUSH")
      /\ prox' = [prox EXCEPT !.mFlushEnabled = TRUE]
      /\ UNCHANGED <<rangeFd, range, rangeBuffer, rangePoll, heard>>
  BY DEF rangeFlush
<1>2. "DT_FLUSH" \in RangeEvents
  BY DEF RangeEvents
<1>3. /\ rangeQueue' \in Seq(RangeEvents) /\ Len(rangeQueue') <= MaxRange
      /\ stream' = stream \o <<"DT_FLUSH", "SYN">>
  BY <1>1, <1>2, Packets
<1>4. /\ prox' \in [mEnabled : BOOLEAN, mFlushEnabled : BOOLEAN, distance : Reported]
      /\ prox'.distance = prox.distance
  BY <1>1 DEF RangeInv, RangeTypes
<1>5. asked' \in 0 .. MaxAsked
  BY <1>1, RangeAssumption DEF RangeInv, RangeTypes
<1>6. RangeTypes'
  BY <1>1, <1>3, <1>4, <1>5 DEF RangeInv, RangeTypes
<1>7. RangeOwed'
  <2>1. Cardinality(Answers(stream \o <<"DT_FLUSH", "SYN">>)) = Cardinality(Answers(stream)) + 1
    BY <1>2, StreamType, AnswersMore DEF RangeInv
  <2> QED
    BY <1>1, <1>3, <2>1 DEF RangeInv, RangeOwed
<1>8. RangeComing'
  <2>1. Coming(stream, range.last, prox.distance, heard) =>
          Coming(stream \o <<"DT_FLUSH", "SYN">>, range.last, prox.distance, heard)
    BY StreamType, ComingMore DEF RangeInv
  <2> QED
    BY <1>1, <1>3, <1>4, <2>1 DEF RangeInv, RangeComing
<1> QED
  BY <1>6, <1>7, <1>8 DEF RangeInv

LEMMA ReportStep == ASSUME RangeInv, RangeReports PROVE RangeInv'
<1>1. PICK d \in Reported : Packet(d) /\ range' = [range EXCEPT !.last = d]
  BY DEF RangeReports
<1>2. UNCHANGED <<rangeFd, prox, rangeBuffer, rangePoll, heard, asked>>
  BY DEF RangeReports
<1>3. d \in RangeEvents /\ d # "DT_FLUSH" /\ d # "none"
  BY DEF RangeEvents, Reported
<1>4. /\ rangeQueue' \in Seq(RangeEvents) /\ Len(rangeQueue') <= MaxRange
      /\ stream' = stream \o <<d, "SYN">>
  BY <1>1, <1>2, <1>3, Packets
<1>5. /\ range' \in [sar : BOOLEAN, delay : RangeDelays \cup {0}, last : Reported \cup {"none"}]
      /\ range'.last = d
  BY <1>1 DEF RangeInv, RangeTypes
<1>6. RangeTypes'
  BY <1>2, <1>4, <1>5 DEF RangeInv, RangeTypes
<1>7. RangeOwed'
  <2>1. Cardinality(Answers(stream \o <<d, "SYN">>)) = Cardinality(Answers(stream))
    BY <1>3, StreamType, AnswersMore DEF RangeInv
  <2> QED
    BY <1>2, <1>4, <2>1 DEF RangeInv, RangeOwed
<1>8. RangeComing'
  <2>1. Coming(stream \o <<d, "SYN">>, d, prox.distance, heard)
    BY StreamType, ComingMore DEF RangeInv
  <2> QED
    BY <1>2, <1>4, <1>5, <2>1 DEF RangeComing
<1> QED
  BY <1>6, <1>7, <1>8 DEF RangeInv

LEMMA PollStep == ASSUME RangeInv, RangePoll PROVE RangeInv'
<1>1. PICK n : /\ n = IF Len(rangeQueue) < RangeReader - Len(rangeBuffer) THEN Len(rangeQueue)
                      ELSE RangeReader - Len(rangeBuffer)
               /\ rangeBuffer' = rangeBuffer \o SubSeq(rangeQueue, 1, n)
               /\ rangeQueue' = SubSeq(rangeQueue, n + 1, Len(rangeQueue))
  BY Zenon DEF RangePoll, rangeFill
<1>2. /\ Len(rangeQueue) \in Nat /\ Len(rangeBuffer) \in Nat /\ Len(rangeBuffer) <= RangeReader
      /\ Len(rangeQueue) <= MaxRange /\ RangeReader \in Nat /\ MaxRange \in Nat
  BY LenProperties, RangeAssumption DEF RangeInv, RangeTypes
<1>3. n \in 0 .. Len(rangeQueue) /\ Len(rangeBuffer) + n <= RangeReader
  BY <1>1, <1>2
<1>4. /\ rangeBuffer' \in Seq(RangeEvents) /\ Len(rangeBuffer') <= RangeReader
      /\ rangeQueue' \in Seq(RangeEvents) /\ Len(rangeQueue') <= Len(rangeQueue)
      /\ stream' = stream
  <2>1. rangeBuffer \in Seq(RangeEvents) /\ rangeQueue \in Seq(RangeEvents)
    BY DEF RangeInv, RangeTypes
  <2>2. /\ rangeBuffer' \in Seq(RangeEvents) /\ Len(rangeBuffer') <= RangeReader
        /\ rangeQueue' \in Seq(RangeEvents) /\ Len(rangeQueue') <= Len(rangeQueue)
    BY <1>1, <1>2, <1>3, <2>1, Filled
  <2>3. stream' = stream
    BY <1>1, <1>3, <2>1, FilledSame DEF stream
  <2> QED
    BY <2>2, <2>3
<1>5. Len(rangeQueue') \in Nat /\ Len(rangeBuffer') \in Nat
  BY <1>4, LenProperties
<1>6. Len(rangeQueue') <= MaxRange
  BY <1>2, <1>4, <1>5
<1>7. PICK c \in Nat : rangePoll' = [on |-> TRUE, room |-> c]
  BY RangeAssumption DEF RangePoll
<1>8. UNCHANGED <<rangeFd, range, prox, heard, asked>>
  BY DEF RangePoll
<1>9. RangeTypes'
  BY <1>4, <1>6, <1>7, <1>8 DEF RangeInv, RangeTypes
<1>10. RangeOwed' /\ RangeComing'
  BY <1>4, <1>8 DEF RangeInv, RangeOwed, RangeComing
<1> QED
  BY <1>9, <1>10 DEF RangeInv

LEMMA ReturnStep == ASSUME RangeInv, RangeReturn PROVE RangeInv'
<1>1. /\ rangePoll.on /\ (rangePoll.room = 0 \/ rangeBuffer = << >>)
      /\ rangePoll' = [rangePoll EXCEPT !.on = FALSE, !.room = 0]
      /\ UNCHANGED <<rangeFd, range, prox, rangeQueue, rangeBuffer, heard, asked>>
  BY DEF RangeReturn
<1>2. rangePoll' \in [on : BOOLEAN, room : Nat]
  BY <1>1 DEF RangeInv, RangeTypes
<1>3. RangeTypes'
  BY <1>1, <1>2 DEF RangeInv, RangeTypes
<1>4. RangeOwed' /\ RangeComing'
  BY <1>1 DEF RangeInv, RangeOwed, RangeComing, stream
<1> QED
  BY <1>3, <1>4 DEF RangeInv

LEMMA RangeReadStep == ASSUME RangeInv, RangeRead PROVE RangeInv'
<1> DEFINE e == Head(rangeBuffer)
<1>1. /\ rangePoll.on /\ rangePoll.room > 0 /\ rangeBuffer # << >>
      /\ rangeBuffer' = Tail(rangeBuffer)
      /\ UNCHANGED <<rangeFd, range, rangeQueue>>
  BY DEF RangeRead
<1>2. rangeBuffer \in Seq(RangeEvents) /\ rangeQueue \in Seq(RangeEvents)
  BY DEF RangeInv, RangeTypes
<1>3. /\ e \in RangeEvents /\ rangeBuffer' \in Seq(RangeEvents)
      /\ Len(rangeBuffer') = Len(rangeBuffer) - 1 /\ Len(rangeBuffer) \in Nat
      /\ rangeBuffer = <<e>> \o rangeBuffer'
  <2>1. /\ e \in RangeEvents /\ rangeBuffer' \in Seq(RangeEvents)
        /\ Len(rangeBuffer') = Len(rangeBuffer) - 1
        /\ \A i \in 1 .. Len(Tail(rangeBuffer)) : Tail(rangeBuffer)[i] = rangeBuffer[i + 1]
    BY <1>1, <1>2, HeadTailProperties
  <2>2. rangeBuffer = <<e>> \o rangeBuffer'
    BY <1>1, <1>2
  <2> QED
    BY <1>2, <2>1, <2>2, LenProperties
<1>4. stream = <<e>> \o stream' /\ stream' \in Seq(RangeEvents)
  <2>1. <<e>> \in Seq(RangeEvents) /\ rangeBuffer' \in Seq(RangeEvents)
    BY <1>3
  <2>2. (<<e>> \o rangeBuffer') \o rangeQueue = <<e>> \o (rangeBuffer' \o rangeQueue)
    BY ONLY <1>2, <2>1, Regrouped
  <2>3. rangeBuffer' \o rangeQueue \in Seq(RangeEvents)
    BY <1>2, <2>1, ConcatProperties
  <2> QED
    BY <1>1, <1>3, <2>2, <2>3 DEF stream
<1>5. \/ /\ e = "DT_FLUSH" /\ asked' = asked - 1
         /\ rangePoll' = [rangePoll EXCEPT !.room = @ - 1] /\ UNCHANGED <<prox, heard>>
      \/ /\ e = "SYN" /\ heard' = prox.distance
         /\ rangePoll' = [rangePoll EXCEPT !.room = @ - 1] /\ UNCHANGED <<prox, asked>>
      \/ /\ e \in Reported /\ prox' = [prox EXCEPT !.distance = e]
         /\ UNCHANGED <<heard, asked, rangePoll>>
  BY DEF RangeRead
<1> HIDE DEF e
<1>6. /\ prox' \in [mEnabled : BOOLEAN, mFlushEnabled : BOOLEAN, distance : Reported]
      /\ prox'.distance = IF e \in Reported THEN e ELSE prox.distance
      /\ heard' = IF e = "SYN" THEN prox.distance ELSE heard
      /\ heard' \in Reported \cup {"none"}
      /\ asked' = IF e = "DT_FLUSH" THEN asked - 1 ELSE asked
  <2>1. "SYN" \notin Reported /\ "DT_FLUSH" \notin Reported
    BY DEF Reported
  <2>2. /\ prox \in [mEnabled : BOOLEAN, mFlushEnabled : BOOLEAN, distance : Reported]
        /\ heard \in Reported \cup {"none"}
    BY DEF RangeInv, RangeTypes
  <2> QED
    BY <1>5, <2>1, <2>2
<1>7. rangePoll' \in [on : BOOLEAN, room : Nat]
  <2>1. rangePoll \in [on : BOOLEAN, room : Nat]
    BY DEF RangeInv, RangeTypes
  <2>2. rangePoll.room - 1 \in Nat
    BY <1>1, <2>1
  <2>3. rangePoll' = rangePoll \/ rangePoll' = [rangePoll EXCEPT !.room = @ - 1]
    BY <1>5
  <2> QED
    BY <2>1, <2>2, <2>3
<1>8. Cardinality(Answers(stream)) =
        IF e = "DT_FLUSH" THEN Cardinality(Answers(stream')) + 1
        ELSE Cardinality(Answers(stream'))
  BY <1>3, <1>4, AnswersFirst
<1>9. Cardinality(Answers(stream')) \in Nat
  BY <1>4, AnswersFinite
<1>10. RangeOwed' /\ asked' \in 0 .. MaxAsked
  <2>1. asked = Cardinality(Answers(stream)) /\ asked \in 0 .. MaxAsked
    BY DEF RangeInv, RangeOwed, RangeTypes
  <2>2. asked' = Cardinality(Answers(stream'))
    BY <1>6, <1>8, <1>9, <2>1
  <2>3. asked' \in 0 .. MaxAsked
    BY <1>6, <1>9, <2>1, <2>2, RangeAssumption
  <2>4. (Answers(stream))' = Answers(stream')
    BY DEF Answers
  <2> QED
    BY <2>2, <2>3 DEF RangeOwed
<1>11. Len(rangeBuffer') <= RangeReader
  BY <1>3, RangeAssumption DEF RangeInv, RangeTypes
<1>12. RangeTypes'
  BY <1>1, <1>3, <1>6, <1>7, <1>10, <1>11 DEF RangeInv, RangeTypes
<1>13. RangeComing'
  <2> SUFFICES ASSUME range.last # "none"
               PROVE  Coming(stream', range.last, prox'.distance, heard')
    BY <1>1 DEF RangeComing
  <2>1. Coming(<<e>> \o stream', range.last, prox.distance, heard) /\ range.last \in Reported
    BY <1>4 DEF RangeInv, RangeComing, RangeTypes
  <2>2. Coming(stream', range.last, IF e \in Reported THEN e ELSE prox.distance,
                                    IF e = "SYN" THEN prox.distance ELSE heard)
    BY <1>3, <1>4, <2>1, ComingFirst
  <2> QED
    BY <1>6, <2>2
<1> QED
  BY <1>10, <1>12, <1>13 DEF RangeInv

LEMMA RangeStep == RangeInv /\ [XNext]_xvars => RangeInv'
<1> SUFFICES ASSUME RangeInv, [XNext]_xvars PROVE RangeInv'
  OBVIOUS
<1>1. CASE RangePoll
  BY <1>1, PollStep
<1>2. CASE RangeRead
  BY <1>2, RangeReadStep
<1>3. CASE RangeReturn
  BY <1>3, ReturnStep
<1>4. CASE RangeReports
  BY <1>4, ReportStep
<1>5. CASE rangeFlush
  BY <1>5, FlushStep
<1>6. CASE \/ \E en, opens \in BOOLEAN : rangeEnable(en, opens)
           \/ \E ms \in RangeDelays : rangeBatch(ms)
  BY <1>6, QuietSteps
<1>7. CASE UNCHANGED xvars
  BY <1>7 DEF xvars, RangeInv, RangeTypes, RangeOwed, RangeComing, stream
<1> QED
  BY <1>1, <1>2, <1>3, <1>4, <1>5, <1>6, <1>7 DEF XNext

LEMMA RangeInvHolds == XSpec => []RangeInv
  BY RangeInitInv, RangeStep, PTL DEF XSpec

LEMMA RangeIsKept == RangeInv => RangeNothingLost
  BY DEF RangeInv, RangeOwed, RangeComing, RangeNothingLost

\* Each flush is answered once and the last distance is told, for every size of the
\* framework's buffers and of the reader, and wherever a call to poll stops: what it
\* has no room for is not lost (vl53l0_hal: fill, readEvents, processEvent, poll).
THEOREM RangeLosesNothing == XSpec => []RangeNothingLost
  BY RangeInvHolds, RangeIsKept, PTL

LEMMA RangeTypesAre == RangeTypes => XTypeOK
  BY DEF RangeTypes, XTypeOK

-------------------------------------------------------------------------------
(* The parts together.                                                     *)

\* Each part behaves beside the others as it does alone, so that what is proved of one
\* holds in the composition that the run checks.
THEOREM PartsKeepApart == MCSpec => TSpec /\ XSpec /\ RSpec /\ SSpec
<1>1. MCInit => TInit /\ XInit /\ RInit /\ SInit
  BY DEF MCInit
<1>2. [MCNext]_<<tvars, xvars, rvars, svars, part>>
        => [TNext]_tvars /\ [XNext]_xvars /\ [RNext]_rvars /\ [SNext]_svars
  BY DEF MCNext
<1> QED
  BY <1>1, <1>2, PTL DEF MCSpec, TSpec, XSpec, RSpec, SSpec

\* Every part keeps its types beside the others: the members of both proximity HALs,
\* the pointers of the reader and the counts of the step counter.
THEOREM PartsTypeCorrect == MCSpec => []PartsTypeOK
<1>1. TofInv /\ RangeInv /\ ReaderInv /\ StepsInv => PartsTypeOK
  BY TofTypesAre, RangeTypesAre DEF TofInv, RangeInv, ReaderInv, StepsInv, PartsTypeOK
<1> QED
  BY <1>1, PartsKeepApart, TofInvHolds, RangeInvHolds, ReaderInvariance, StepsInvariance, PTL
===============================================================================
