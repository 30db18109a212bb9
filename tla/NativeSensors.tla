---------------------------- MODULE NativeSensors ----------------------------
(***************************************************************************)
(* The generic sensors HAL of hardware-moto-sensors/rearProx: the poll     *)
(* context (sensors.cpp), the manager (NativeSensorManager.cpp) and its    *)
(* drivers (ProximitySensor.cpp, CapSensor.cpp, SensorBase.cpp).           *)
(*                                                                         *)
(* Two threads of the framework use it: one sits in pollEvents, the others *)
(* call activate, setDelay, batch and flush.  mLock makes each of these    *)
(* calls, and each read of one sensor, atomic; looking for pending events  *)
(* and poll() itself happen without the lock.  The framework's threads and *)
(* the poll thread are woken through a pipe.                               *)
(*                                                                         *)
(* An input report (EV_ABS, SYN_REPORT) is one unit: the driver writes both*)
(* and the reader, whose capacity is a whole number of reports, hands out  *)
(* whole ones.  The virtual sensors the manager could hold are never       *)
(* created: a sensor's only dependency, and only listener, is itself.      *)
(*                                                                         *)
(* Periods and latencies are whole milliseconds, which is what the devices *)
(* are told; the arguments of batch are cut to int on their way in.        *)
(***************************************************************************)
EXTENDS Integers, Sequences, FiniteSets, FiniteSetsExt

CONSTANTS
  Entries,      \* /sys/class/sensors: each entry's type and what of it can be read
  ReaderRoom,   \* reports the reader holds (mInputReader(4) holds two)
  PipeSize,     \* messages the wake pipe holds
  Periods,      \* the periods and latencies the framework asks for
  minDelay,     \* the shortest period
  IntSpan,      \* values of an int; Periods may lie beyond half of it
  Counts,       \* sizes of the buffer passed to pollEvents
  MaxReports,   \* bound on reports waiting in the kernel
  MaxFlushes    \* bound on flushes not yet answered

ASSUME NativeAssumption ==
  /\ ReaderRoom \in Nat \ {0} /\ PipeSize \in Nat \ {0} /\ IntSpan \in Nat \ {0}
  /\ Periods \subseteq Nat /\ minDelay \in Nat /\ Counts \subseteq Nat \ {0}
  /\ MaxReports \in Nat /\ MaxFlushes \in Nat
  \* A sensor of another type would be listed with no driver behind it.
  /\ \A i \in DOMAIN Entries : Entries[i].type \in {"proximity", "capsense"}

VARIABLES
  \* the manager's context of each sensor
  enable, listener, delay_ns, latency_ns,
  \* the driver of each sensor
  mEnabled, mHasPendingEvent, mHasPendingMetadata, buffered,
  \* what the data file descriptor is open on
  data_fd,
  \* the device: reports not yet read, the period and latency it was last told
  input, poll_delay, max_latency,
  \* the loopback properties that are set
  loopback,
  \* the poll thread and its pipe
  pc, cur, count, nbEvents, revents, pipe,
  \* history: the period and the latency of the last call that was accepted; the
  \* device was not told the last time; flushes without an answer
  asked, delayFailed, latencyFailed, owed

context == <<enable, listener, delay_ns, latency_ns>>
driver  == <<mEnabled, mHasPendingEvent, mHasPendingMetadata, buffered>>
device  == <<data_fd, input, poll_delay, max_latency>>
poller  == <<pc, cur, count, nbEvents, revents>>
history == <<asked, delayFailed, latencyFailed, owed>>
nvars   == <<context, driver, device, loopback, poller, pipe, history>>

-------------------------------------------------------------------------------
(* The sensors found when the manager is constructed.                      *)

\* getNode fails only for a node that is required; what is optional keeps 0.
getNode(e) == e.required

\* Where the class device is no input device: the path of the event device whose
\* name matches among those of /dev/input, or none.
getEventPathOld(e) == IF e.event THEN "event device" ELSE "none"

\* The path of the event device: a child of the class device's input device, and,
\* where there is no such child, the directory /dev/input/ itself.  The device
\* link of an entry may also be unreadable.
getEventPath(e) ==
  CASE e.link = "input" -> IF e.event THEN "event device" ELSE "directory"
    [] e.link = "other" -> getEventPathOld(e)
    [] OTHER            -> "none"

\* getSensorListInner: the entries all of whose required nodes can be read, in
\* the order of the directory; the place in the list is the handle.
\* (is_sensor_supported answers TRUE for every type.)
sensor_list == SelectSeq(Entries, getNode)

Sensors == 1 .. Len(sensor_list)

\* getDataInfo opens the path, if there is one; that may fail, and "continue
\* anyway".
DataFds(s) == {"none", getEventPath(sensor_list[s])}

fifoMaxEventCount(s) == sensor_list[s].fifo

-------------------------------------------------------------------------------
No   == [s \in Sensors |-> FALSE]
None == [s \in Sensors |-> 0]

Loopbacks == {"sensors.proxymity.loopback", "sensors.light.loopback",
              "sensors.capsense.loopback"}

NTypeOK ==
  /\ \A f \in {enable, listener, mEnabled, mHasPendingEvent, revents,
               delayFailed, latencyFailed} : f \in [Sensors -> BOOLEAN]
  /\ \A f \in {delay_ns, latency_ns, poll_delay, max_latency} : f \in [Sensors -> Int]
  /\ data_fd \in [Sensors -> {"none", "event device", "directory"}]
  /\ asked \in [Sensors -> [delay : Int, latency : Int]]
  /\ mHasPendingMetadata \in [Sensors -> 0 .. MaxFlushes]
  /\ owed \in [Sensors -> 0 .. MaxFlushes]
  /\ buffered \in [Sensors -> 0 .. ReaderRoom]
  /\ input \in [Sensors -> 0 .. MaxReports]
  /\ loopback \subseteq Loopbacks
  /\ pc \in {"idle", "scan", "read", "poll"} /\ (cur = 1 \/ cur - 1 \in Sensors)
  /\ count \in Nat /\ nbEvents \in Nat /\ pipe \in 0 .. PipeSize

NInit ==
  /\ enable = No /\ listener = No /\ mEnabled = No /\ mHasPendingEvent = No
  /\ revents = No /\ delayFailed = No /\ latencyFailed = No
  /\ delay_ns = None /\ latency_ns = None /\ poll_delay = None /\ max_latency = None
  /\ buffered = None /\ input = None /\ owed = None /\ mHasPendingMetadata = None
  /\ data_fd \in [Sensors -> {"none", "event device", "directory"}]
  /\ \A s \in Sensors : data_fd[s] \in DataFds(s)
  /\ asked = [s \in Sensors |-> [delay |-> 0, latency |-> 0]]
  /\ loopback = {}
  /\ pc = "idle" /\ cur = 1 /\ count = 0 /\ nbEvents = 0 /\ pipe = 0

\* The message that makes poll() return; a full pipe keeps what it has.
Wake == pipe' = IF pipe < PipeSize THEN pipe + 1 ELSE pipe

\* An int64_t argument passed to an int parameter.
ToInt(x) == ((x + IntSpan \div 2) % IntSpan) - IntSpan \div 2

-------------------------------------------------------------------------------
(* The drivers.                                                            *)

\* The properties that keep a driver's hands off its device, for enable and for
\* setDelay: the proximity sensor asks the light sensor's for its period.
ProximitySensor == [enable |-> "sensors.proxymity.loopback",
                    delay  |-> "sensors.light.loopback"]
CapSensor       == [enable |-> "sensors.capsense.loopback",
                    delay  |-> "sensors.capsense.loopback"]

Driver(s) == IF sensor_list[s].type = "proximity" THEN ProximitySensor ELSE CapSensor

\* setDelay writes the period to the device, unless the node cannot be opened or
\* written.
DriverSetDelay(s, ns, opens) ==
  LET written == opens /\ Driver(s).delay \notin loopback
  IN  /\ poll_delay' = [poll_delay EXCEPT ![s] = IF written THEN ns ELSE @]
      /\ delayFailed' = [delayFailed EXCEPT ![s] = ~written]

\* setLatency refuses a latency that is out of range: one made negative by the cut
\* to int is a huge number as an unsigned one.  (Another int is never too large.)
DriverSetLatency(s, ns, opens) ==
  LET written == ns >= 0 /\ opens
  IN  /\ max_latency' = [max_latency EXCEPT ![s] = IF written THEN ns ELSE @]
      /\ latencyFailed' = [latencyFailed EXCEPT ![s] = ~written]

\* enable: a change is written to the device and remembered if the node opens;
\* enabling an enabled sensor repeats its last event.  With the loopback
\* property only the flag changes.
DriverEnable(s, en, opens) ==
  LET looped == Driver(s).enable \in loopback
      change == looped \/ (en # mEnabled[s] /\ opens)
  IN  /\ mEnabled' = [mEnabled EXCEPT ![s] = IF change THEN en ELSE @]
      /\ mHasPendingEvent' = [mHasPendingEvent EXCEPT
                                ![s] = @ \/ (~looped /\ en /\ mEnabled[s])]

-------------------------------------------------------------------------------
(* The calls of the framework.                                             *)

registerListener(s) == listener' = [listener EXCEPT ![s] = TRUE]

unregisterListener(s) == listener' = [listener EXCEPT ![s] = FALSE]

\* syncDelay, syncLatency: the shortest among the listeners, and only when there
\* is one; a latency only for a device with a FIFO.
syncDelay(s, opens) ==
  IF listener'[s] THEN DriverSetDelay(s, delay_ns'[s], opens)
                  ELSE UNCHANGED <<poll_delay, delayFailed>>

syncLatency(s, opens) ==
  IF listener'[s] /\ fifoMaxEventCount(s)
  THEN DriverSetLatency(s, latency_ns'[s], opens)
  ELSE UNCHANGED <<max_latency, latencyFailed>>

\* A slip the runs must catch: what was asked for earlier is not synced.
managerActivate_noSync(s, en, opens) ==
  /\ enable' = [enable EXCEPT ![s] = en]
  /\ IF en THEN registerListener(s) ELSE unregisterListener(s)
  /\ UNCHANGED <<delay_ns, latency_ns, poll_delay, delayFailed, max_latency,
                 latencyFailed>>
  /\ DriverEnable(s, en, opens)

\* The manager's activate: listener first, then the settings made before, then
\* the device.  Its result is 0 whatever the driver answered.
managerActivate(s, en, opens) ==
  /\ enable' = [enable EXCEPT ![s] = en]
  /\ IF en THEN registerListener(s) ELSE unregisterListener(s)
  /\ UNCHANGED <<delay_ns, latency_ns>>
  /\ syncDelay(s, opens) /\ syncLatency(s, opens)
  /\ DriverEnable(s, en, opens)

\* activate: only enabling wakes the poll thread.
activate(s, en, opens) ==
  /\ managerActivate(s, en, opens)
  /\ IF en THEN Wake ELSE UNCHANGED pipe
  /\ UNCHANGED <<mHasPendingMetadata, buffered, data_fd, input, loopback, poller, asked, owed>>

\* setDelay: 0 is refused, a period shorter than the sensor's is raised to it.
setDelay(s, ns, opens) ==
  /\ ns # 0
  /\ delay_ns' = [delay_ns EXCEPT ![s] = IF ns < minDelay THEN minDelay ELSE ns]
  /\ asked' = [asked EXCEPT ![s].delay = ns]
  /\ UNCHANGED <<enable, listener, latency_ns>>
  /\ syncDelay(s, opens)
  /\ UNCHANGED <<driver, data_fd, input, max_latency, loopback, poller, pipe, latencyFailed, owed>>

\* batch: the arguments are cut to int; a latency shorter than the period is
\* refused, and the period is taken as it is.
batch(s, sample, latency, opens) ==
  /\ ToInt(latency) = 0 \/ ToInt(latency) >= ToInt(sample)
  /\ delay_ns' = [delay_ns EXCEPT ![s] = ToInt(sample)]
  /\ latency_ns' = [latency_ns EXCEPT ![s] = ToInt(latency)]
  /\ asked' = [asked EXCEPT ![s] = [delay |-> sample, latency |-> latency]]
  /\ UNCHANGED <<enable, listener>>
  /\ syncDelay(s, opens) /\ syncLatency(s, opens)
  /\ UNCHANGED <<driver, data_fd, input, loopback, poller, pipe, owed>>

\* flush: refused for a sensor that is not enabled; a sensor with a FIFO is
\* told, which may fail.  The poll thread is woken whatever the result.
\* A slip the runs must catch: the poll thread is not woken.
flush_noWake(s, opens) ==
  /\ owed[s] < MaxFlushes
  /\ mEnabled[s] /\ (fifoMaxEventCount(s) => opens)
  /\ mHasPendingMetadata' = [mHasPendingMetadata EXCEPT ![s] = @ + 1]
  /\ owed' = [owed EXCEPT ![s] = @ + 1]
  /\ UNCHANGED <<context, mEnabled, mHasPendingEvent, buffered, device,
                 loopback, poller, pipe, asked, delayFailed, latencyFailed>>

flush(s, opens) ==
  /\ owed[s] < MaxFlushes
  /\ Wake
  /\ \/ /\ mEnabled[s] /\ (fifoMaxEventCount(s) => opens)
        /\ mHasPendingMetadata' = [mHasPendingMetadata EXCEPT ![s] = @ + 1]
        /\ owed' = [owed EXCEPT ![s] = @ + 1]
     \/ /\ ~(mEnabled[s] /\ (fifoMaxEventCount(s) => opens))
        /\ UNCHANGED <<mHasPendingMetadata, owed>>
  /\ UNCHANGED <<context, mEnabled, mHasPendingEvent, buffered, device,
                 loopback, poller, asked, delayFailed, latencyFailed>>

\* The framework's calls on one sensor; the device node may not open.
CallsOn(s) ==
  \E opens \in BOOLEAN :
    \/ \E en \in BOOLEAN : activate(s, en, opens)
    \/ \E ns \in Periods : setDelay(s, ns, opens)
    \/ \E ns \in Periods, latency \in Periods : batch(s, ns, latency, opens)
    \/ flush(s, opens)

\* Someone sets or clears a loopback property.
setprop ==
  /\ loopback' \in SUBSET Loopbacks
  /\ UNCHANGED <<context, driver, device, poller, pipe, history>>

-------------------------------------------------------------------------------
(* The poll thread.                                                        *)

hasPendingEvents(s) == mHasPendingEvent[s] \/ mHasPendingMetadata[s] > 0

\* The framework calls pollEvents again as soon as it returns.
PollCall ==
  /\ pc = "idle"
  /\ pc' = "scan" /\ cur' = 1 /\ nbEvents' = 0 /\ \E c \in Counts : count' = c
  /\ UNCHANGED <<context, driver, device, revents, loopback, pipe, history>>

\* One sensor of the scan: is it to be read?  No lock is held here.
Scan ==
  /\ pc = "scan"
  /\ \/ /\ count > 0 /\ cur \in Sensors /\ (revents[cur] \/ hasPendingEvents(cur))
        /\ pc' = "read" /\ UNCHANGED cur
     \/ /\ count > 0 /\ cur \in Sensors /\ ~(revents[cur] \/ hasPendingEvents(cur))
        /\ cur' = cur + 1 /\ UNCHANGED pc
     \/ /\ count > 0 /\ cur \notin Sensors
        /\ pc' = "poll" /\ UNCHANGED cur
     \/ /\ count = 0
        /\ pc' = "idle" /\ UNCHANGED cur
  /\ UNCHANGED <<context, driver, device, count, nbEvents, revents, loopback, pipe, history>>

\* The rest of the loop after nb events of sensor s came back: what the manager
\* lets through is nb if the sensor is enabled and nothing otherwise.
\* A slip the runs must catch: the flag is kept when the buffer is full.
ReadDone_keepsRevents(s, nb) ==
  LET given == IF enable[s] THEN nb ELSE 0
  IN  /\ revents' = [revents EXCEPT ![s] = @ /\ given = count]
      /\ count' = count - given /\ nbEvents' = nbEvents + given
      /\ cur' = cur + 1 /\ pc' = "scan"
      /\ UNCHANGED <<context, mEnabled, data_fd, poll_delay, max_latency, loopback,
                     pipe, asked, delayFailed, latencyFailed>>

ReadDone(s, nb) ==
  LET given == IF enable[s] THEN nb ELSE 0
  IN  /\ revents' = [revents EXCEPT ![s] = @ /\ given > count]
      /\ count' = count - given /\ nbEvents' = nbEvents + given
      /\ cur' = cur + 1 /\ pc' = "scan"
      /\ UNCHANGED <<context, mEnabled, data_fd, poll_delay, max_latency, loopback,
                     pipe, asked, delayFailed, latencyFailed>>

\* Reports that fill() takes: as many as the reader has room for.
\* A slip the runs must catch: the room is taken for empty.
Filled_empty(s) == Min({input[s], ReaderRoom})

Filled(s) == Min({input[s], ReaderRoom - buffered[s]})

\* readEvents of a driver: the repeated event, else one flush-complete, else the
\* reports.  Without any report read() fails with EAGAIN and is repeated, with
\* the lock held: the step is not enabled then.
ReadSensor ==
  /\ pc = "read"
  /\ \/ /\ mHasPendingEvent[cur]
        /\ mHasPendingEvent' = [mHasPendingEvent EXCEPT ![cur] = FALSE]
        /\ ReadDone(cur, IF mEnabled[cur] THEN 1 ELSE 0)
        /\ UNCHANGED <<mHasPendingMetadata, buffered, input, owed>>
     \/ /\ ~mHasPendingEvent[cur] /\ mHasPendingMetadata[cur] > 0
        /\ mHasPendingMetadata' = [mHasPendingMetadata EXCEPT ![cur] = @ - 1]
        /\ owed' = [owed EXCEPT ![cur] =
                      IF mEnabled[cur] /\ enable[cur] THEN @ - 1 ELSE @]
        /\ ReadDone(cur, IF mEnabled[cur] THEN 1 ELSE 0)
        /\ UNCHANGED <<mHasPendingEvent, buffered, input>>
     \/ /\ ~hasPendingEvents(cur) /\ data_fd[cur] = "event device"
        /\ input[cur] > 0 \/ buffered[cur] = ReaderRoom
        /\ LET r  == Filled(cur)
               nb == IF mEnabled[cur] THEN Min({count, buffered[cur] + r}) ELSE 0
           IN  /\ input' = [input EXCEPT ![cur] = @ - r]
               /\ buffered' = [buffered EXCEPT ![cur] =
                                 IF mEnabled[cur] THEN @ + r - nb ELSE 0]
               /\ ReadDone(cur, nb)
        /\ UNCHANGED <<mHasPendingEvent, mHasPendingMetadata, owed>>

\* fill fails for another reason, as it always does on a directory: pollEvents
\* returns the error at once, without the events it has already put into the
\* buffer, and keeps its flags.
ReadError ==
  /\ pc = "read" /\ ~hasPendingEvents(cur) /\ buffered[cur] < ReaderRoom
  /\ pc' = "idle"
  /\ UNCHANGED <<context, driver, device, cur, count, nbEvents, revents, loopback, pipe, history>>

\* poll(): waits for a report or a message when nothing has been collected yet.
\* A directory is always ready.  One message is taken from the pipe.
Poll ==
  LET ready == {s \in Sensors : data_fd[s] = "directory" \/ input[s] > 0}
      n     == Cardinality(ready) + (IF pipe > 0 THEN 1 ELSE 0)
  IN  /\ pc = "poll"
      /\ n > 0 \/ nbEvents > 0
      /\ revents' = [s \in Sensors |-> s \in ready]
      /\ pipe' = IF pipe > 0 THEN pipe - 1 ELSE 0
      /\ \/ /\ n > 0 /\ pc' = "scan" /\ cur' = 1
         \/ /\ n = 0 /\ pc' = "idle" /\ UNCHANGED cur
      /\ UNCHANGED <<context, driver, device, loopback, count, nbEvents, history>>

\* The device reports, whether or not the HAL has enabled it.
Report(s) ==
  /\ data_fd[s] = "event device" /\ input[s] < MaxReports
  /\ input' = [input EXCEPT ![s] = @ + 1]
  /\ UNCHANGED <<context, driver, data_fd, poll_delay, max_latency, poller, loopback, pipe,
                 history>>

-------------------------------------------------------------------------------
PollThread == PollCall \/ Scan \/ ReadSensor \/ Poll

NNext == PollThread \/ ReadError \/ setprop \/ \E s \in Sensors : CallsOn(s) \/ Report(s)

\* The poll thread is scheduled, and an event device does not fail every read for
\* ever; a directory does.
NFairness ==
  /\ WF_nvars(\/ PollCall \/ Scan \/ Poll
              \/ cur \in Sensors /\ data_fd[cur] = "directory" /\ ReadError)
  /\ SF_nvars(ReadSensor)

NSpec == NInit /\ [][NNext]_nvars /\ NFairness

-------------------------------------------------------------------------------
(* Properties.                                                             *)

\* The poll thread never repeats a read that has nothing to give while it holds
\* mLock, which would stop every other call: when it is about to read a sensor
\* there is something for it (pollEvents, NativeSensorManager::readEvents).
ReadNeverSpins ==
  pc = "read" => \/ hasPendingEvents(cur) \/ input[cur] > 0
                 \/ buffered[cur] = ReaderRoom \/ data_fd[cur] = "directory"

Fits(x) == ToInt(x) = x

\* A sensor with a listener runs with the period and the latency of the last call
\* that was accepted, in whatever order it was enabled and set up, unless the
\* device could not be told: with the period asked for, or the sensor's shortest
\* one instead of a shorter one, and the latency asked for.  What is asked for is
\* compared before the cut to int; of what does not fit an int only this much is
\* said, that no device runs with a negative latency (activate, setDelay, batch,
\* syncDelay, syncLatency, setLatency).
SettingsApplied ==
  \A s \in Sensors :
    /\ listener[s] /\ ~delayFailed[s] /\ Fits(asked[s].delay) =>
         \/ poll_delay[s] = asked[s].delay
         \/ asked[s].delay < minDelay /\ poll_delay[s] = minDelay
    /\ listener[s] /\ fifoMaxEventCount(s) /\ ~latencyFailed[s] /\ Fits(asked[s].latency) =>
         max_latency[s] = asked[s].latency
    /\ max_latency[s] >= 0

\* A pending flush-complete event is always taken, unless the sensor is enabled
\* over and over, whose repeated event goes first: the poll thread cannot sleep
\* in poll() without noticing it (flush, pollEvents).  No sensor is reached behind
\* one in the list whose data file is the directory: each call ends there.
FlushTaken ==
  \A s \in Sensors :
    mHasPendingMetadata[s] > 0 ~>
      \/ mHasPendingMetadata[s] = 0 \/ mHasPendingEvent[s]
      \/ \E q \in Sensors : q < s /\ data_fd[q] = "directory"

\* "the number of FLUSH_COMPLETE events should be the same as the number of
\* *flush* called" (SensorBase::flush): no flush that was accepted is without an
\* answer, given or still to be given.
FlushesAnswered == \A s \in Sensors : owed[s] = mHasPendingMetadata[s]
=============================================================================
