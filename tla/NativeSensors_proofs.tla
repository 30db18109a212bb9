------------------------- MODULE NativeSensors_proofs -------------------------
(***************************************************************************)
(* Proofs about NativeSensors, for every directory of sensors, every buffer *)
(* of the framework and every room of the reader: the types of its state,  *)
(* that a sensor is read only if it has something to give, and that a      *)
(* listener's sensor runs with the settings asked for last.                *)
(***************************************************************************)
EXTENDS NativeSensors, WellFoundedInduction, TLAPS

\* The poll thread reads a sensor that exists, with room for its events, and for a
\* reason; a device that poll() found readable stays so until it is read.  A pending
\* flush-complete event is owed.
ReadInv ==
  /\ pc = "read" => cur \in Sensors /\ count > 0 /\ (revents[cur] \/ hasPendingEvents(cur))
  /\ \A s \in Sensors : revents[s] => input[s] > 0 \/ data_fd[s] = "directory"
  /\ \A s \in Sensors : mHasPendingMetadata[s] <= owed[s]

\* Types, one by one.
NTypes ==
  /\ enable \in [Sensors -> BOOLEAN] /\ listener \in [Sensors -> BOOLEAN]
  /\ mEnabled \in [Sensors -> BOOLEAN] /\ mHasPendingEvent \in [Sensors -> BOOLEAN]
  /\ revents \in [Sensors -> BOOLEAN]
  /\ delayFailed \in [Sensors -> BOOLEAN] /\ latencyFailed \in [Sensors -> BOOLEAN]
  /\ delay_ns \in [Sensors -> Int] /\ latency_ns \in [Sensors -> Int]
  /\ poll_delay \in [Sensors -> Int] /\ max_latency \in [Sensors -> Int]
  /\ mHasPendingMetadata \in [Sensors -> 0 .. MaxFlushes]
  /\ owed \in [Sensors -> 0 .. MaxFlushes]
  /\ buffered \in [Sensors -> 0 .. ReaderRoom]
  /\ input \in [Sensors -> 0 .. MaxReports]
  /\ data_fd \in [Sensors -> {"none", "event device", "directory"}]
  /\ asked \in [Sensors -> [delay : Int, latency : Int]]
  /\ loopback \in SUBSET Loopbacks
  /\ pc \in {"idle", "scan", "read", "poll"} /\ (cur = 1 \/ cur - 1 \in Sensors)
  /\ count \in Nat /\ nbEvents \in Nat /\ pipe \in 0 .. PipeSize

\* What the manager keeps is what was asked for last, where that fits an int.
Asked(s) ==
  /\ Fits(asked[s].delay) =>
       \/ delay_ns[s] = asked[s].delay
       \/ asked[s].delay < minDelay /\ delay_ns[s] = minDelay
  /\ Fits(asked[s].latency) => latency_ns[s] = asked[s].latency

\* A driver that could be told runs with what the manager keeps.
Told(s) ==
  /\ Asked(s)
  /\ listener[s] =>
       /\ ~delayFailed[s] => poll_delay[s] = delay_ns[s]
       /\ fifoMaxEventCount(s) /\ ~latencyFailed[s] => max_latency[s] = latency_ns[s]
  /\ max_latency[s] >= 0

SettingsInv == \A s \in Sensors : Told(s)

NInv == NTypes /\ ReadInv /\ SettingsInv

LEMMA TypesAre == NTypeOK <=> NTypes
  BY DEF NTypeOK, NTypes

LEMMA SensorsAreNumbers == Sensors \subseteq Int
  BY DEF Sensors

LEMMA Bounds ==
  /\ ReaderRoom \in Nat /\ PipeSize \in Nat /\ MaxReports \in Nat /\ MaxFlushes \in Nat
  /\ IntSpan \in Nat /\ minDelay \in Int
  BY NativeAssumption

LEMMA WakeIs == NTypes /\ Wake => pipe' \in 0 .. PipeSize
<1> SUFFICES ASSUME NTypes, Wake PROVE pipe' \in 0 .. PipeSize
  OBVIOUS
<1>1. pipe \in 0 .. PipeSize
  BY DEF NTypes
<1> QED
  BY <1>1, Bounds DEF Wake

LEMMA IntIs == \A x \in Nat : ToInt(x) \in Int
<1> SUFFICES ASSUME NEW x \in Nat PROVE ToInt(x) \in Int
  OBVIOUS
<1>1. IntSpan \div 2 \in Int
  BY NativeAssumption
<1> DEFINE h == IntSpan \div 2
<1>2. (x + h) % IntSpan \in Int
  <2> HIDE DEF h
  <2> QED
    BY <1>1, NativeAssumption DEF h
<1> QED
  BY <1>1, <1>2 DEF ToInt

LEMMA DelaySynced ==
  ASSUME NTypes, NEW s \in Sensors, NEW opens \in BOOLEAN,
         delay_ns' \in [Sensors -> Int], syncDelay(s, opens)
  PROVE  /\ poll_delay' \in [Sensors -> Int] /\ delayFailed' \in [Sensors -> BOOLEAN]
         /\ listener'[s] /\ ~delayFailed'[s] => poll_delay'[s] = delay_ns'[s]
         /\ \A q \in Sensors : q # s => /\ poll_delay'[q] = poll_delay[q]
                                        /\ delayFailed'[q] = delayFailed[q]
<1>1. CASE listener'[s]
  <2> DEFINE written == opens /\ Driver(s).delay \notin loopback
  <2>1. /\ poll_delay' = [poll_delay EXCEPT ![s] = IF written THEN delay_ns'[s] ELSE @]
        /\ delayFailed' = [delayFailed EXCEPT ![s] = ~written]
    BY <1>1 DEF syncDelay, DriverSetDelay
  <2>2. written \in BOOLEAN
    OBVIOUS
  <2> HIDE DEF written
  <2>3. poll_delay \in [Sensors -> Int] /\ delayFailed \in [Sensors -> BOOLEAN]
    BY DEF NTypes
  <2> QED
    BY <2>1, <2>2, <2>3
<1>2. CASE ~listener'[s]
  BY <1>2 DEF syncDelay, NTypes
<1> QED
  BY <1>1, <1>2

LEMMA LatencySynced ==
  ASSUME NTypes, NEW s \in Sensors, NEW opens \in BOOLEAN,
         max_latency[s] >= 0, latency_ns' \in [Sensors -> Int], syncLatency(s, opens)
  PROVE  /\ max_latency' \in [Sensors -> Int] /\ latencyFailed' \in [Sensors -> BOOLEAN]
         /\ listener'[s] /\ fifoMaxEventCount(s) /\ ~latencyFailed'[s] =>
              max_latency'[s] = latency_ns'[s]
         /\ max_latency'[s] >= 0
         /\ \A q \in Sensors : q # s => /\ max_latency'[q] = max_latency[q]
                                        /\ latencyFailed'[q] = latencyFailed[q]
<1>1. CASE listener'[s] /\ fifoMaxEventCount(s)
  <2> DEFINE written == latency_ns'[s] >= 0 /\ opens
  <2>1. /\ max_latency' = [max_latency EXCEPT ![s] = IF written THEN latency_ns'[s] ELSE @]
        /\ latencyFailed' = [latencyFailed EXCEPT ![s] = ~written]
    BY <1>1 DEF syncLatency, DriverSetLatency
  <2>2. max_latency \in [Sensors -> Int] /\ latencyFailed \in [Sensors -> BOOLEAN]
    BY DEF NTypes
  <2>3. written \in BOOLEAN /\ (written => latency_ns'[s] >= 0)
    OBVIOUS
  <2> HIDE DEF written
  <2> QED
    BY <2>1, <2>2, <2>3
<1>2. CASE ~(listener'[s] /\ fifoMaxEventCount(s))
  BY <1>2 DEF syncLatency, NTypes
<1> QED
  BY <1>1, <1>2

\* What is told to one sensor says nothing about the others.
LEMMA ToldFrom ==
  ASSUME NEW s \in Sensors, SettingsInv, Told(s)',
         \A q \in Sensors : q # s =>
           /\ listener'[q] = listener[q] /\ delay_ns'[q] = delay_ns[q]
           /\ latency_ns'[q] = latency_ns[q] /\ poll_delay'[q] = poll_delay[q]
           /\ delayFailed'[q] = delayFailed[q] /\ max_latency'[q] = max_latency[q]
           /\ latencyFailed'[q] = latencyFailed[q] /\ asked'[q] = asked[q]
  PROVE  SettingsInv'
<1>1. ASSUME NEW q \in Sensors, q # s PROVE Told(q)'
  BY <1>1 DEF SettingsInv, Told, Asked
<1> QED
  BY <1>1 DEF SettingsInv

LEMMA ActivateKeeps ==
  ASSUME NInv, NEW s \in Sensors, NEW en \in BOOLEAN, NEW opens \in BOOLEAN,
         activate(s, en, opens)
  PROVE  NInv'
<1>1. NTypes /\ ReadInv /\ SettingsInv
  BY DEF NInv
<1>2. /\ enable' = [enable EXCEPT ![s] = en] /\ listener' = [listener EXCEPT ![s] = en]
      /\ UNCHANGED <<delay_ns, latency_ns>> /\ syncDelay(s, opens) /\ syncLatency(s, opens)
      /\ DriverEnable(s, en, opens)
  BY DEF activate, managerActivate, registerListener, unregisterListener
<1>3. /\ enable' \in [Sensors -> BOOLEAN] /\ listener' \in [Sensors -> BOOLEAN]
      /\ delay_ns' \in [Sensors -> Int] /\ latency_ns' \in [Sensors -> Int]
      /\ \A q \in Sensors : q # s => listener'[q] = listener[q]
  BY <1>1, <1>2 DEF NTypes
<1>4. /\ poll_delay' \in [Sensors -> Int] /\ delayFailed' \in [Sensors -> BOOLEAN]
      /\ listener'[s] /\ ~delayFailed'[s] => poll_delay'[s] = delay_ns'[s]
      /\ \A q \in Sensors : q # s => /\ poll_delay'[q] = poll_delay[q]
                                     /\ delayFailed'[q] = delayFailed[q]
  BY <1>1, <1>2, <1>3, DelaySynced
<1>5. /\ max_latency' \in [Sensors -> Int] /\ latencyFailed' \in [Sensors -> BOOLEAN]
      /\ listener'[s] /\ fifoMaxEventCount(s) /\ ~latencyFailed'[s] =>
           max_latency'[s] = latency_ns'[s]
      /\ max_latency'[s] >= 0
      /\ \A q \in Sensors : q # s => /\ max_latency'[q] = max_latency[q]
                                     /\ latencyFailed'[q] = latencyFailed[q]
  BY <1>1, <1>2, <1>3, LatencySynced DEF SettingsInv, Told
<1>6. /\ mEnabled' \in [Sensors -> BOOLEAN] /\ mHasPendingEvent' \in [Sensors -> BOOLEAN]
      /\ \A q \in Sensors : mHasPendingEvent[q] => mHasPendingEvent'[q]
  <2> DEFINE looped == Driver(s).enable \in loopback
             change == looped \/ (en # mEnabled[s] /\ opens)
  <2>1. /\ mEnabled' = [mEnabled EXCEPT ![s] = IF change THEN en ELSE @]
        /\ mHasPendingEvent' = [mHasPendingEvent EXCEPT
                                  ![s] = @ \/ (~looped /\ en /\ mEnabled[s])]
    BY <1>2 DEF DriverEnable
  <2>2. mEnabled \in [Sensors -> BOOLEAN] /\ mHasPendingEvent \in [Sensors -> BOOLEAN]
    BY <1>1 DEF NTypes
  <2> HIDE DEF looped, change
  <2> QED
    BY <2>1, <2>2
<1>7. pipe' \in 0 .. PipeSize
  BY <1>1, WakeIs DEF activate, NTypes
<1>8. UNCHANGED <<mHasPendingMetadata, buffered, data_fd, input, loopback, pc, cur, count,
                  nbEvents, revents, asked, owed>>
  BY DEF activate, poller
<1>9. NTypes'
  BY <1>1, <1>3, <1>4, <1>5, <1>6, <1>7, <1>8 DEF NTypes
<1>10. ReadInv'
  BY <1>1, <1>6, <1>8 DEF ReadInv, hasPendingEvents
<1>11. SettingsInv'
  <2>1. Told(s)'
    BY <1>1, <1>2, <1>4, <1>5, <1>8 DEF SettingsInv, Told, Asked
  <2> QED
    BY <1>1, <1>2, <1>3, <1>4, <1>5, <1>8, <2>1, ToldFrom
<1> QED
  BY <1>9, <1>10, <1>11 DEF NInv

LEMMA SetDelayKeeps ==
  ASSUME NInv, NEW s \in Sensors, NEW ns \in Periods, NEW opens \in BOOLEAN,
         setDelay(s, ns, opens)
  PROVE  NInv'
<1>1. NTypes /\ ReadInv /\ SettingsInv
  BY DEF NInv
<1>2. /\ UNCHANGED <<enable, listener, latency_ns, max_latency, latencyFailed>>
      /\ UNCHANGED <<mEnabled, mHasPendingEvent, mHasPendingMetadata, buffered, data_fd, input,
                     loopback, pc, cur, count, nbEvents, revents, pipe, owed>>
      /\ syncDelay(s, opens)
  BY DEF setDelay, driver, poller
<1>3. /\ delay_ns' \in [Sensors -> Int]
      /\ asked' \in [Sensors -> [delay : Int, latency : Int]]
      /\ \A q \in Sensors : q # s => delay_ns'[q] = delay_ns[q] /\ asked'[q] = asked[q]
      /\ asked'[s].delay = ns /\ asked'[s].latency = asked[s].latency
      /\ delay_ns'[s] = ns \/ (ns < minDelay /\ delay_ns'[s] = minDelay)
  <2>1. ns \in Int /\ minDelay \in Int
    BY NativeAssumption
  <2>2. delay_ns \in [Sensors -> Int] /\ asked \in [Sensors -> [delay : Int, latency : Int]]
    BY <1>1 DEF NTypes
  <2>3. /\ delay_ns' = [delay_ns EXCEPT ![s] = IF ns < minDelay THEN minDelay ELSE ns]
        /\ asked' = [asked EXCEPT ![s].delay = ns]
    BY DEF setDelay
  <2>4. /\ delay_ns' \in [Sensors -> Int]
        /\ \A q \in Sensors : q # s => delay_ns'[q] = delay_ns[q]
        /\ delay_ns'[s] = ns \/ (ns < minDelay /\ delay_ns'[s] = minDelay)
    BY <2>1, <2>2, <2>3
  <2>5. /\ asked' \in [Sensors -> [delay : Int, latency : Int]]
        /\ \A q \in Sensors : q # s => asked'[q] = asked[q]
        /\ asked'[s].delay = ns /\ asked'[s].latency = asked[s].latency
    BY <2>1, <2>2, <2>3
  <2> QED
    BY <2>4, <2>5
<1>4. /\ poll_delay' \in [Sensors -> Int] /\ delayFailed' \in [Sensors -> BOOLEAN]
      /\ listener'[s] /\ ~delayFailed'[s] => poll_delay'[s] = delay_ns'[s]
      /\ \A q \in Sensors : q # s => /\ poll_delay'[q] = poll_delay[q]
                                     /\ delayFailed'[q] = delayFailed[q]
  BY <1>1, <1>2, <1>3, DelaySynced
<1>5. NTypes'
  BY <1>1, <1>2, <1>3, <1>4 DEF NTypes
<1>6. ReadInv'
  BY <1>1, <1>2 DEF ReadInv, hasPendingEvents
<1>7. SettingsInv'
  <2>1. Told(s)'
    BY <1>1, <1>2, <1>3, <1>4 DEF SettingsInv, Told, Asked
  <2> QED
    BY <1>1, <1>2, <1>3, <1>4, <2>1, ToldFrom
<1> QED
  BY <1>5, <1>6, <1>7 DEF NInv

LEMMA BatchKeeps ==
  ASSUME NInv, NEW s \in Sensors, NEW sample \in Periods, NEW latency \in Periods,
         NEW opens \in BOOLEAN, batch(s, sample, latency, opens)
  PROVE  NInv'
<1>1. NTypes /\ ReadInv /\ SettingsInv
  BY DEF NInv
<1>2. /\ UNCHANGED <<enable, listener>>
      /\ UNCHANGED <<mEnabled, mHasPendingEvent, mHasPendingMetadata, buffered, data_fd, input,
                     loopback, pc, cur, count, nbEvents, revents, pipe, owed>>
      /\ syncDelay(s, opens) /\ syncLatency(s, opens)
  BY DEF batch, driver, poller
<1>3. /\ delay_ns' \in [Sensors -> Int] /\ latency_ns' \in [Sensors -> Int]
      /\ asked' \in [Sensors -> [delay : Int, latency : Int]]
      /\ \A q \in Sensors : q # s => /\ delay_ns'[q] = delay_ns[q]
                                     /\ latency_ns'[q] = latency_ns[q]
                                     /\ asked'[q] = asked[q]
      /\ delay_ns'[s] = ToInt(asked'[s].delay) /\ latency_ns'[s] = ToInt(asked'[s].latency)
  <2>1. /\ ToInt(sample) \in Int /\ ToInt(latency) \in Int
        /\ [delay |-> sample, latency |-> latency] \in [delay : Int, latency : Int]
    BY IntIs, NativeAssumption
  <2>2. /\ delay_ns \in [Sensors -> Int] /\ latency_ns \in [Sensors -> Int]
        /\ asked \in [Sensors -> [delay : Int, latency : Int]]
    BY <1>1 DEF NTypes
  <2>3. /\ delay_ns' = [delay_ns EXCEPT ![s] = ToInt(sample)]
        /\ latency_ns' = [latency_ns EXCEPT ![s] = ToInt(latency)]
        /\ asked' = [asked EXCEPT ![s] = [delay |-> sample, latency |-> latency]]
    BY DEF batch
  <2> QED
    BY <2>1, <2>2, <2>3
<1>4. /\ poll_delay' \in [Sensors -> Int] /\ delayFailed' \in [Sensors -> BOOLEAN]
      /\ listener'[s] /\ ~delayFailed'[s] => poll_delay'[s] = delay_ns'[s]
      /\ \A q \in Sensors : q # s => /\ poll_delay'[q] = poll_delay[q]
                                     /\ delayFailed'[q] = delayFailed[q]
  BY <1>1, <1>2, <1>3, DelaySynced
<1>5. /\ max_latency' \in [Sensors -> Int] /\ latencyFailed' \in [Sensors -> BOOLEAN]
      /\ listener'[s] /\ fifoMaxEventCount(s) /\ ~latencyFailed'[s] =>
           max_latency'[s] = latency_ns'[s]
      /\ max_latency'[s] >= 0
      /\ \A q \in Sensors : q # s => /\ max_latency'[q] = max_latency[q]
                                     /\ latencyFailed'[q] = latencyFailed[q]
  BY <1>1, <1>2, <1>3, LatencySynced DEF SettingsInv, Told
<1>6. NTypes'
  BY <1>1, <1>2, <1>3, <1>4, <1>5 DEF NTypes
<1>7. ReadInv'
  BY <1>1, <1>2 DEF ReadInv, hasPendingEvents
<1>8. SettingsInv'
  <2>1. Told(s)'
    BY <1>3, <1>4, <1>5 DEF Told, Asked, Fits
  <2> QED
    BY <1>1, <1>2, <1>3, <1>4, <1>5, <2>1, ToldFrom
<1> QED
  BY <1>6, <1>7, <1>8 DEF NInv

LEMMA FlushKeeps ==
  ASSUME NInv, NEW s \in Sensors, NEW opens \in BOOLEAN, flush(s, opens)
  PROVE  NInv'
<1>1. NTypes /\ ReadInv /\ SettingsInv
  BY DEF NInv
<1>2. /\ UNCHANGED <<enable, listener, delay_ns, latency_ns, mEnabled, mHasPendingEvent, buffered,
                     data_fd, input, poll_delay, max_latency, loopback, pc, cur, count, nbEvents,
                     revents, asked, delayFailed, latencyFailed>>
      /\ pipe' \in 0 .. PipeSize
  BY <1>1, WakeIs DEF flush, context, device, poller
<1>3. /\ owed' \in [Sensors -> 0 .. MaxFlushes]
      /\ mHasPendingMetadata' \in [Sensors -> 0 .. MaxFlushes]
      /\ \A q \in Sensors : /\ mHasPendingMetadata'[q] >= mHasPendingMetadata[q]
                            /\ mHasPendingMetadata'[q] <= owed'[q]
  <2>1. /\ owed \in [Sensors -> 0 .. MaxFlushes] /\ owed[s] < MaxFlushes
        /\ mHasPendingMetadata \in [Sensors -> 0 .. MaxFlushes] /\ MaxFlushes \in Nat
        /\ \A q \in Sensors : mHasPendingMetadata[q] <= owed[q]
    BY <1>1, NativeAssumption DEF NTypes, ReadInv, flush
  <2>2. CASE /\ mHasPendingMetadata' = [mHasPendingMetadata EXCEPT ![s] = @ + 1]
             /\ owed' = [owed EXCEPT ![s] = @ + 1]
    BY <2>1, <2>2
  <2>3. CASE UNCHANGED <<mHasPendingMetadata, owed>>
    BY <2>1, <2>3
  <2> QED
    BY <2>2, <2>3 DEF flush
<1>4. NTypes'
  BY <1>1, <1>2, <1>3 DEF NTypes
<1>5. ReadInv'
  <2>1. \A q \in Sensors : hasPendingEvents(q) => hasPendingEvents(q)'
    <3>1. /\ mHasPendingMetadata \in [Sensors -> 0 .. MaxFlushes]
          /\ mHasPendingEvent' = mHasPendingEvent
      BY <1>1, <1>2 DEF NTypes
    <3> QED
      BY <1>3, <3>1, Bounds DEF hasPendingEvents
  <2> QED
    BY <1>1, <1>2, <1>3, <2>1 DEF ReadInv
<1>6. SettingsInv'
  BY <1>1, <1>2 DEF SettingsInv, Told, Asked
<1> QED
  BY <1>4, <1>5, <1>6 DEF NInv

\* The smaller of two numbers.
LEMMA SmallerOfTwo ==
  ASSUME NEW m \in Nat, NEW n \in Nat
  PROVE  Min({m, n}) \in {m, n} /\ Min({m, n}) <= m /\ Min({m, n}) <= n
<1>1. CASE m <= n
  <2>1. m \in {m, n} /\ \A y \in {m, n} : m <= y
    BY <1>1
  <2>2. \A x \in {m, n} : (\A y \in {m, n} : x <= y) => x = m
    BY <1>1
  <2> QED
    BY <1>1, <2>1, <2>2 DEF Min
<1>2. CASE n < m
  <2>1. n \in {m, n} /\ \A y \in {m, n} : n <= y
    BY <1>2
  <2>2. \A x \in {m, n} : (\A y \in {m, n} : x <= y) => x = n
    BY <1>2
  <2> QED
    BY <1>2, <2>1, <2>2 DEF Min
<1> QED
  BY <1>1, <1>2

\* The rest of the loop leaves the sensor that was read with its flag cleared.
LEMMA DoneIs ==
  ASSUME NInv, pc = "read", NEW nb \in Nat, nb <= count, ReadDone(cur, nb)
  PROVE  /\ cur \in Sensors
         /\ UNCHANGED <<enable, listener, delay_ns, latency_ns, mEnabled, data_fd, poll_delay,
                        max_latency, loopback, pipe, asked, delayFailed, latencyFailed>>
         /\ revents' \in [Sensors -> BOOLEAN]
         /\ ~revents'[cur] /\ \A q \in Sensors : q # cur => revents'[q] = revents[q]
         /\ count' \in Nat /\ nbEvents' \in Nat /\ pc' = "scan"
         /\ cur' = 1 \/ cur' - 1 \in Sensors
<1>1. /\ cur \in Sensors /\ cur \in Int /\ count \in Nat /\ nbEvents \in Nat
      /\ revents \in [Sensors -> BOOLEAN]
  BY SensorsAreNumbers DEF NInv, NTypes, ReadInv
<1> DEFINE given == IF enable[cur] THEN nb ELSE 0
<1>2. given \in Nat /\ given <= count
  BY <1>1
<1>3. /\ revents' = [revents EXCEPT ![cur] = @ /\ given > count]
      /\ count' = count - given /\ nbEvents' = nbEvents + given
      /\ cur' = cur + 1 /\ pc' = "scan"
  BY DEF ReadDone
<1> HIDE DEF given
<1>4. ~(given > count) /\ count - given \in Nat /\ nbEvents + given \in Nat /\ cur + 1 - 1 = cur
  BY <1>1, <1>2
<1>5. /\ revents' \in [Sensors -> BOOLEAN] /\ ~revents'[cur]
      /\ \A q \in Sensors : q # cur => revents'[q] = revents[q]
  BY <1>1, <1>3, <1>4
<1>6. UNCHANGED <<enable, listener, delay_ns, latency_ns, mEnabled, data_fd, poll_delay,
                  max_latency, loopback, pipe, asked, delayFailed, latencyFailed>>
  BY DEF ReadDone, context
<1> QED
  BY <1>1, <1>3, <1>4, <1>5, <1>6

LEMMA ReadKeeps == NInv /\ ReadSensor => NInv'
<1> SUFFICES ASSUME NInv, ReadSensor PROVE NInv'
  OBVIOUS
<1>1. NTypes /\ ReadInv /\ SettingsInv /\ pc = "read" /\ cur \in Sensors
  BY DEF NInv, ReadInv, ReadSensor
<1>2. /\ count \in Nat /\ count > 0 /\ MaxFlushes \in Nat /\ MaxReports \in Nat
      /\ ReaderRoom \in Nat
  BY <1>1, NativeAssumption DEF NTypes, ReadInv
<1> DEFINE one == IF mEnabled[cur] THEN 1 ELSE 0
<1>3. one \in Nat /\ one <= count
  BY <1>2
<1> DEFINE Types == /\ mHasPendingEvent' \in [Sensors -> BOOLEAN]
                    /\ mHasPendingMetadata' \in [Sensors -> 0 .. MaxFlushes]
                    /\ owed' \in [Sensors -> 0 .. MaxFlushes]
                    /\ buffered' \in [Sensors -> 0 .. ReaderRoom]
                    /\ input' \in [Sensors -> 0 .. MaxReports]
           Rest == /\ \A q \in Sensors : q # cur => input'[q] = input[q]
                   /\ \A q \in Sensors : mHasPendingMetadata'[q] <= owed'[q]
<1>4. ASSUME NEW nb \in Nat, nb <= count, ReadDone(cur, nb), Types, Rest
      PROVE  NInv'
  <2> HIDE DEF one
  <2>1. /\ UNCHANGED <<enable, listener, delay_ns, latency_ns, mEnabled, data_fd, poll_delay,
                       max_latency, loopback, pipe, asked, delayFailed, latencyFailed>>
        /\ revents' \in [Sensors -> BOOLEAN]
        /\ ~revents'[cur] /\ \A q \in Sensors : q # cur => revents'[q] = revents[q]
        /\ count' \in Nat /\ nbEvents' \in Nat /\ pc' = "scan"
        /\ cur' = 1 \/ cur' - 1 \in Sensors
    BY <1>1, <1>4, DoneIs
  <2>2. NTypes'
    BY <1>1, <1>4, <2>1 DEF NTypes
  <2>3. ReadInv'
    BY <1>1, <1>4, <2>1 DEF ReadInv
  <2>4. SettingsInv'
    BY <1>1, <2>1 DEF SettingsInv, Told, Asked
  <2> QED
    BY <2>2, <2>3, <2>4 DEF NInv
<1>5. CASE /\ mHasPendingEvent[cur]
           /\ mHasPendingEvent' = [mHasPendingEvent EXCEPT ![cur] = FALSE]
           /\ ReadDone(cur, one)
           /\ UNCHANGED <<mHasPendingMetadata, buffered, input, owed>>
  <2>1. Types /\ Rest
    BY <1>1, <1>5 DEF NTypes, ReadInv
  <2> HIDE DEF one, Types, Rest
  <2> QED
    BY <1>3, <1>4, <1>5, <2>1
<1>6. CASE /\ mHasPendingMetadata[cur] > 0
           /\ mHasPendingMetadata' = [mHasPendingMetadata EXCEPT ![cur] = @ - 1]
           /\ owed' = [owed EXCEPT ![cur] = IF mEnabled[cur] /\ enable[cur] THEN @ - 1 ELSE @]
           /\ ReadDone(cur, one)
           /\ UNCHANGED <<mHasPendingEvent, buffered, input>>
  <2>1. /\ mHasPendingMetadata \in [Sensors -> 0 .. MaxFlushes]
        /\ owed \in [Sensors -> 0 .. MaxFlushes]
        /\ \A q \in Sensors : mHasPendingMetadata[q] <= owed[q]
    BY <1>1 DEF NTypes, ReadInv
  <2>2. /\ mHasPendingMetadata' \in [Sensors -> 0 .. MaxFlushes]
        /\ owed' \in [Sensors -> 0 .. MaxFlushes]
        /\ \A q \in Sensors : mHasPendingMetadata'[q] <= owed'[q]
    BY <1>1, <1>2, <1>6, <2>1
  <2>3. Types /\ Rest
    BY <1>1, <1>6, <2>2 DEF NTypes
  <2> HIDE DEF one, Types, Rest
  <2> QED
    BY <1>3, <1>4, <1>6, <2>3
<1>7. CASE /\ LET r  == Filled(cur)
                  nb == IF mEnabled[cur] THEN Min({count, buffered[cur] + r}) ELSE 0
              IN  /\ input' = [input EXCEPT ![cur] = @ - r]
                  /\ buffered' = [buffered EXCEPT ![cur] =
                                    IF mEnabled[cur] THEN @ + r - nb ELSE 0]
                  /\ ReadDone(cur, nb)
           /\ UNCHANGED <<mHasPendingEvent, mHasPendingMetadata, owed>>
  <2> DEFINE r  == Filled(cur)
             nb == IF mEnabled[cur] THEN Min({count, buffered[cur] + r}) ELSE 0
  <2>1. /\ input \in [Sensors -> 0 .. MaxReports] /\ buffered \in [Sensors -> 0 .. ReaderRoom]
        /\ input[cur] \in Nat /\ buffered[cur] \in Nat /\ ReaderRoom - buffered[cur] \in Nat
    <3>1. /\ input \in [Sensors -> 0 .. MaxReports] /\ buffered \in [Sensors -> 0 .. ReaderRoom]
      BY <1>1 DEF NTypes
    <3>2. input[cur] \in 0 .. MaxReports /\ buffered[cur] \in 0 .. ReaderRoom
      BY <1>1, <3>1
    <3> QED
      BY <1>2, <3>1, <3>2
  <2>2. r \in Nat /\ r <= input[cur] /\ r <= ReaderRoom - buffered[cur]
    BY <2>1, SmallerOfTwo DEF Filled
  <2>3. /\ input' = [input EXCEPT ![cur] = @ - r]
        /\ buffered' = [buffered EXCEPT ![cur] = IF mEnabled[cur] THEN @ + r - nb ELSE 0]
        /\ ReadDone(cur, nb)
    BY <1>7
  <2> HIDE DEF r
  <2>4. nb \in Nat /\ nb <= count /\ nb <= buffered[cur] + r
    <3>1. buffered[cur] + r \in Nat
      BY <2>1, <2>2
    <3> QED
      BY <1>2, <3>1, SmallerOfTwo
  <2> HIDE DEF nb
  <2>5. /\ buffered[cur] + r - nb \in 0 .. ReaderRoom /\ 0 \in 0 .. ReaderRoom
        /\ input[cur] - r \in 0 .. MaxReports
    BY <1>1, <1>2, <2>1, <2>2, <2>4
  <2>6. /\ input' \in [Sensors -> 0 .. MaxReports] /\ buffered' \in [Sensors -> 0 .. ReaderRoom]
        /\ \A q \in Sensors : q # cur => input'[q] = input[q]
    BY <2>1, <2>3, <2>5
  <2>7. Types /\ Rest
    BY <1>1, <1>7, <2>6 DEF NTypes, ReadInv
  <2> HIDE DEF one, Types, Rest
  <2> QED
    BY <1>4, <2>3, <2>4, <2>7
<1> QED
  BY <1>5, <1>6, <1>7 DEF ReadSensor

LEMMA ScanKeeps == NInv /\ Scan => NInv'
<1> SUFFICES ASSUME NInv, Scan PROVE NInv'
  OBVIOUS
<1>1. NTypes /\ ReadInv /\ SettingsInv
  BY DEF NInv
<1>2. UNCHANGED <<context, driver, device, count, nbEvents, revents, loopback, pipe, history>>
  BY DEF Scan
<1>3. /\ pc' \in {"idle", "read", "scan", "poll"} /\ (cur' = 1 \/ cur' - 1 \in Sensors)
      /\ pc' = "read" => cur' \in Sensors /\ count > 0 /\ (revents[cur'] \/ hasPendingEvents(cur'))
  <2>1. CASE /\ count > 0 /\ cur \in Sensors /\ (revents[cur] \/ hasPendingEvents(cur))
             /\ pc' = "read" /\ UNCHANGED cur
    BY <1>1, <2>1 DEF NTypes
  <2>2. CASE /\ cur \in Sensors /\ cur' = cur + 1 /\ UNCHANGED pc
    <3>1. cur' - 1 = cur
      BY <2>2, SensorsAreNumbers
    <3> QED
      BY <1>1, <2>2, <3>1 DEF NTypes, Scan
  <2>3. CASE pc' \in {"poll", "idle"} /\ UNCHANGED cur
    BY <1>1, <2>3 DEF NTypes
  <2> QED
    BY <2>1, <2>2, <2>3 DEF Scan
<1>4. NTypes'
  BY <1>1, <1>2, <1>3 DEF NTypes, context, driver, device, history
<1>5. ReadInv'
  <2>1. UNCHANGED <<revents, mHasPendingEvent, mHasPendingMetadata, data_fd, input, owed, count>>
    BY <1>2 DEF driver, device, history
  <2>2. pc' = "read" =>
          cur' \in Sensors /\ count' > 0 /\ (revents'[cur'] \/ hasPendingEvents(cur)')
    BY <1>3, <2>1 DEF hasPendingEvents
  <2>3. /\ \A s \in Sensors : revents'[s] => input'[s] > 0 \/ data_fd'[s] = "directory"
        /\ \A s \in Sensors : mHasPendingMetadata'[s] <= owed'[s]
    BY <1>1, <2>1 DEF ReadInv
  <2> QED
    BY <2>2, <2>3 DEF ReadInv
<1>6. SettingsInv'
  BY <1>1, <1>2 DEF SettingsInv, Told, Asked, context, device, history
<1> QED
  BY <1>4, <1>5, <1>6 DEF NInv

LEMMA PollKeeps == NInv /\ Poll => NInv'
<1> SUFFICES ASSUME NInv, Poll PROVE NInv'
  OBVIOUS
<1>1. NTypes /\ ReadInv /\ SettingsInv
  BY DEF NInv
<1> DEFINE ready == {s \in Sensors : data_fd[s] = "directory" \/ input[s] > 0}
<1>2. /\ UNCHANGED <<context, driver, device, loopback, count, nbEvents, history>>
      /\ revents' = [s \in Sensors |-> s \in ready]
      /\ pipe' = IF pipe > 0 THEN pipe - 1 ELSE 0
      /\ pc' \in {"scan", "idle"} /\ (cur' = 1 \/ cur' = cur)
  BY DEF Poll
<1>3. /\ revents' \in [Sensors -> BOOLEAN] /\ \A s \in Sensors : revents'[s] => input[s] > 0 \/ data_fd[s] = "directory"
  <2>1. \A s \in ready : input[s] > 0 \/ data_fd[s] = "directory"
    OBVIOUS
  <2> HIDE DEF ready
  <2>2. \A s \in Sensors : revents'[s] <=> s \in ready
    BY <1>2, Zenon
  <2>3. revents' \in [Sensors -> BOOLEAN]
    <3>1. \A s \in Sensors : (s \in ready) \in BOOLEAN
      OBVIOUS
    <3> QED
      BY <1>2, <3>1, SMT
  <2> QED
    BY <2>1, <2>2, <2>3
<1>4. pipe' \in 0 .. PipeSize
  <2>1. pipe \in 0 .. PipeSize
    BY <1>1 DEF NTypes
  <2> QED
    BY <1>2, <2>1, Bounds
<1> HIDE DEF ready
<1>5. NTypes'
  BY <1>1, <1>2, <1>3, <1>4 DEF NTypes, context, driver, device, history
<1>6. ReadInv'
  BY <1>1, <1>2, <1>3 DEF ReadInv, driver, device, history
<1>7. SettingsInv'
  BY <1>1, <1>2 DEF SettingsInv, Told, Asked, context, device, history
<1> QED
  BY <1>5, <1>6, <1>7 DEF NInv

LEMMA CallKeeps == NInv /\ PollCall => NInv'
<1> SUFFICES ASSUME NInv, PollCall PROVE NInv'
  OBVIOUS
<1>1. NTypes /\ ReadInv /\ SettingsInv
  BY DEF NInv
<1>2. /\ UNCHANGED <<context, driver, device, revents, loopback, pipe, history>>
      /\ pc' = "scan" /\ cur' = 1 /\ nbEvents' = 0 /\ count' \in Nat
  BY NativeAssumption DEF PollCall
<1>3. NTypes'
  BY <1>1, <1>2 DEF NTypes, context, driver, device, history
<1>4. ReadInv'
  BY <1>1, <1>2 DEF ReadInv, driver, device, history
<1>5. SettingsInv'
  BY <1>1, <1>2 DEF SettingsInv, Told, Asked, context, device, history
<1> QED
  BY <1>3, <1>4, <1>5 DEF NInv

\* A read that fails, a property that changes, a report of a device.
LEMMA OutsideKeeps ==
  NInv /\ (ReadError \/ setprop \/ (\E s \in Sensors : Report(s)) \/ UNCHANGED nvars) => NInv'
<1> SUFFICES ASSUME NInv,
                    ReadError \/ setprop \/ (\E s \in Sensors : Report(s)) \/ UNCHANGED nvars
             PROVE  NInv'
  OBVIOUS
<1>1. NTypes /\ ReadInv /\ SettingsInv
  BY DEF NInv
<1>2. CASE ReadError
  <2>1. /\ UNCHANGED <<context, driver, device, cur, count, nbEvents, revents, loopback, pipe,
                       history>>
        /\ pc' = "idle"
    BY <1>2 DEF ReadError
  <2>2. NTypes'
    BY <1>1, <2>1 DEF NTypes, context, driver, device, history
  <2>3. ReadInv'
    BY <1>1, <2>1 DEF ReadInv, driver, device, history
  <2>4. SettingsInv'
    BY <1>1, <2>1 DEF SettingsInv, Told, Asked, context, device, history
  <2> QED
    BY <2>2, <2>3, <2>4 DEF NInv
<1>3. CASE setprop
  <2>1. UNCHANGED <<context, driver, device, poller, pipe, history>> /\ loopback' \in SUBSET Loopbacks
    BY <1>3 DEF setprop
  <2>2. NTypes'
    BY <1>1, <2>1 DEF NTypes, context, driver, device, poller, history
  <2>3. ReadInv'
    BY <1>1, <2>1 DEF ReadInv, hasPendingEvents, driver, device, poller, history
  <2>4. SettingsInv'
    BY <1>1, <2>1 DEF SettingsInv, Told, Asked, context, device, history
  <2> QED
    BY <2>2, <2>3, <2>4 DEF NInv
<1>4. ASSUME NEW s \in Sensors, Report(s) PROVE NInv'
  <2>1. /\ UNCHANGED <<context, driver, data_fd, poll_delay, max_latency, poller, loopback, pipe,
                     history>>
        /\ input' = [input EXCEPT ![s] = @ + 1] /\ input[s] < MaxReports
    BY <1>4 DEF Report
  <2>2. /\ input' \in [Sensors -> 0 .. MaxReports]
        /\ \A q \in Sensors : input[q] > 0 => input'[q] > 0
    <3>1. input \in [Sensors -> 0 .. MaxReports] /\ MaxReports \in Nat
      BY <1>1, NativeAssumption DEF NTypes
    <3> QED
      BY <2>1, <3>1
  <2>3. NTypes'
    BY <1>1, <2>1, <2>2 DEF NTypes, context, driver, poller, history
  <2>4. ReadInv'
    BY <1>1, <2>1, <2>2 DEF ReadInv, hasPendingEvents, driver, poller, history
  <2>5. SettingsInv'
    BY <1>1, <2>1 DEF SettingsInv, Told, Asked, context, history
  <2> QED
    BY <2>3, <2>4, <2>5 DEF NInv
<1>5. CASE UNCHANGED nvars
  <2>1. UNCHANGED <<context, driver, device, loopback, poller, pipe, history>>
    BY <1>5 DEF nvars
  <2>2. NTypes'
    BY <1>1, <2>1 DEF NTypes, context, driver, device, poller, history
  <2>3. ReadInv'
    BY <1>1, <2>1 DEF ReadInv, hasPendingEvents, driver, device, poller, history
  <2>4. SettingsInv'
    BY <1>1, <2>1 DEF SettingsInv, Told, Asked, context, device, history
  <2> QED
    BY <2>2, <2>3, <2>4 DEF NInv
<1> QED
  BY <1>2, <1>3, <1>4, <1>5

LEMMA NInitInv == NInit => NInv
<1> SUFFICES ASSUME NInit PROVE NInv
  OBVIOUS
<1>1. /\ 0 \in 0 .. MaxFlushes /\ 0 \in 0 .. MaxReports /\ 0 \in 0 .. ReaderRoom
      /\ 0 \in 0 .. PipeSize
  BY NativeAssumption
<1>2. /\ [s \in Sensors |-> [delay |-> 0, latency |-> 0]] \in
             [Sensors -> [delay : Int, latency : Int]]
      /\ No \in [Sensors -> BOOLEAN] /\ None \in [Sensors -> Int]
      /\ None \in [Sensors -> 0 .. MaxFlushes] /\ None \in [Sensors -> 0 .. MaxReports]
      /\ None \in [Sensors -> 0 .. ReaderRoom]
      /\ \A s \in Sensors : No[s] = FALSE /\ None[s] = 0
  BY <1>1 DEF No, None
<1>3. NTypes
  BY <1>1, <1>2 DEF NInit, NTypes
<1>4. ReadInv
  <2>1. pc = "idle" /\ revents = No /\ mHasPendingMetadata = None /\ owed = None
    BY DEF NInit
  <2>2. \A s \in Sensors : ~revents[s] /\ mHasPendingMetadata[s] = 0 /\ owed[s] = 0
    BY <1>2, <2>1
  <2> QED
    BY <2>1, <2>2 DEF ReadInv
<1>5. SettingsInv
  <2>1. /\ delay_ns = None /\ latency_ns = None /\ max_latency = None /\ listener = No
        /\ asked = [s \in Sensors |-> [delay |-> 0, latency |-> 0]]
    BY DEF NInit
  <2> QED
    BY <1>2, <2>1 DEF SettingsInv, Told, Asked
<1> QED
  BY <1>3, <1>4, <1>5 DEF NInv

LEMMA NStep == NInv /\ [NNext]_nvars => NInv'
<1> SUFFICES ASSUME NInv, [NNext]_nvars PROVE NInv'
  OBVIOUS
<1>1. ASSUME NEW s \in Sensors, CallsOn(s) PROVE NInv'
  <2>1. PICK opens \in BOOLEAN :
          \/ \E en \in BOOLEAN : activate(s, en, opens)
          \/ \E ns \in Periods : setDelay(s, ns, opens)
          \/ \E ns \in Periods, latency \in Periods : batch(s, ns, latency, opens)
          \/ flush(s, opens)
    BY <1>1 DEF CallsOn
  <2> QED
    BY <2>1, ActivateKeeps, SetDelayKeeps, BatchKeeps, FlushKeeps
<1> QED
  BY <1>1, CallKeeps, ScanKeeps, ReadKeeps, PollKeeps, OutsideKeeps DEF NNext, PollThread

LEMMA NInvHolds == NSpec => []NInv
  BY NInitInv, NStep, PTL DEF NSpec

\* The members of the manager, the drivers and the poll context keep their types, for
\* every directory of sensors and every buffer of the framework.
THEOREM NativeTypeCorrect == NSpec => []NTypeOK
<1>1. NInv => NTypeOK
  BY TypesAre DEF NInv
<1> QED
  BY <1>1, NInvHolds, PTL

\* A sensor is read under the lock only if it has something to give, so that the read
\* is never repeated for ever with the lock held (sensors.cpp: pollEvents;
\* NativeSensorManager.cpp: readEvents).
THEOREM NativeReadNeverSpins == NSpec => []ReadNeverSpins
<1>1. NInv => ReadNeverSpins
  BY DEF NInv, ReadInv, ReadNeverSpins
<1> QED
  BY <1>1, NInvHolds, PTL

\* A listener's sensor runs with the settings of the last call that was accepted, made
\* before or after it was enabled and compared before any cut to int, unless they do not
\* fit an int or the device could not be told; no device is ever told a negative latency
\* (NativeSensorManager.cpp: activate, setDelay, batch, syncDelay, syncLatency;
\* SensorBase.cpp: setLatency).
THEOREM NativeSettingsApplied == NSpec => []SettingsApplied
<1>1. NInv => SettingsApplied
  <2> SUFFICES ASSUME SettingsInv PROVE SettingsApplied
    BY DEF NInv
  <2>1. \A s \in Sensors : Told(s)
    BY DEF SettingsInv
  <2> QED
    BY <2>1 DEF SettingsApplied, Told, Asked
<1> QED
  BY <1>1, NInvHolds, PTL
===============================================================================
