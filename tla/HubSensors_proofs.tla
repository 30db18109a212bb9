-------------------------- MODULE HubSensors_proofs ---------------------------
(***************************************************************************)
(* Proofs about HubSensors and the fusion algorithms it drives.  For every *)
(* sensor list, every set of periods and every set of driver calls that may *)
(* fail, the driver's masks and periods follow what the framework has on;  *)
(* for every MAG_COUNTS the six-axis filter waits for its samples.         *)
(***************************************************************************)
EXTENDS FusionAlgos, WellFoundedInduction, TLAPS

\* What the HAL believes about its handles.
HandlesKnown ==
  /\ mEnabledHandles \subseteq touched
  /\ fusionEnabled = mEnabledHandles \cap FusionSensors

\* The HAL's wake mask is right for every handle it was asked about.
WakeBelief ==
  \A h \in touched \cap Wake :
    WakeBit(h) \in mWakeEnabled
      <=> \E g \in mEnabledHandles \cap Wake : WakeBit(g) = WakeBit(h)

\* So are the streams in its other mask, once a sensor of that mask was touched.
StreamBelief ==
  touched \cap NonWake # {} =>
    \A s \in Streams : s \in mEnabled <=> isNeeded(s, fusionEnabled)

\* The driver has the masks the HAL believes in, unless a write failed.
MasksDelivered ==
  /\ "wake" \notin lost => kernWake = mWakeEnabled
  /\ "sensors" \notin lost => kernSensors = mEnabled

\* The remembered period of a stream in use is the one its users call for, and
\* the driver has it unless the write failed.
RatesDelivered ==
  \A s \in Streams :
    /\ isNeeded(s, fusionEnabled)
         => prev_delay[s] = Rate(s, fusionEnabled, fusionDelay)
    /\ (s \notin lost /\ prev_delay[s] # 0) => kernDelay[s] = prev_delay[s]

IInv == /\ TypeOK /\ HandlesKnown /\ WakeBelief /\ StreamBelief
        /\ MasksDelivered /\ RatesDelivered

-------------------------------------------------------------------------------
(* The operators.                                                          *)

\* A nonempty set of naturals has a least element, and Shortest is it.
LEMMA ShortestIsLeast ==
  ASSUME NEW S \in SUBSET Nat, S # {}
  PROVE  Shortest(S) \in S /\ \A e \in S : Shortest(S) <= e
<1> DEFINE R == {ss \in Nat \X Nat : ss[1] < ss[2]}
<1>1. IsWellFoundedOn(R, Nat)
  BY NatLessThanWellFounded, Zenon DEF OpToRel
<1> HIDE DEF R
<1>2. PICK x \in S : \A y \in S : ~ (<<y, x>> \in R)
  BY <1>1, WFMin, Zenon
<1>3. \A y \in S : x <= y
  <2> SUFFICES ASSUME NEW y \in S PROVE ~ (y < x)
    OBVIOUS
  <2>1. <<y, x>> \in Nat \X Nat /\ <<y, x>>[1] = y /\ <<y, x>>[2] = x
    OBVIOUS
  <2>2. y < x => <<y, x>> \in R
    BY <2>1, Zenon DEF R
  <2> QED
    BY <1>2, <2>2
<1> QED
  BY <1>3 DEF Shortest

\* The streams' limits.
LEMMA MinRates ==
  ASSUME NEW s \in Streams
  PROVE  MinRate[s] \in Nat /\ MinRate[s] >= 5 /\ MinRate[s] <= 20
BY DEF MinRate, Streams

\* Delays are the values of an unsigned short.
LEMMA DelaysAre ==
  /\ USHRT_MAX \in Nat /\ USHRT_MAX > 200
  /\ \A d : d \in Delays <=> d \in Nat /\ d <= USHRT_MAX
<1>1. USHRT_MAX \in Nat /\ USHRT_MAX > 200
  BY DEF USHRT_MAX
<1> QED
  BY <1>1 DEF Delays

\* The period update*Rate computes: within the stream's range, short enough for
\* every user, and at the fusion rate while a rotation vector runs.
LEMMA RateIsRight ==
  ASSUME NEW s \in Streams, NEW on \in SUBSET FusionSensors,
         NEW dl \in [FusionSensors -> Delays]
  PROVE  /\ Rate(s, on, dl) \in Delays
         /\ Rate(s, on, dl) # 0
         /\ \A f \in on \cap Uses[s] : Rate(s, on, dl) <= Larger(dl[f], MinRate[s])
         /\ (/\ isRotationVectorRunning(on)
             /\ \E f \in on \cap Uses[s] : dl[f] < MaxRate)
              => Rate(s, on, dl) <= Larger(FusionMaxDelay, MinRate[s])
<1> DEFINE wanted == {d \in {dl[f] : f \in on \cap Uses[s]} : d < MaxRate}
           delay  == IF wanted = {} THEN MaxRate
                     ELSE IF isRotationVectorRunning(on)
                          THEN Smaller(Shortest(wanted), FusionMaxDelay)
                          ELSE Shortest(wanted)
<1>1. Rate(s, on, dl) = Larger(delay, MinRate[s])
  BY DEF Rate
<1> DEFINE min == MinRate[s]
<1>0. min \in Nat /\ min >= 5 /\ min <= 20
  BY MinRates
<1>2. \A f \in on \cap Uses[s] : dl[f] \in Nat
  <2>1. \A f \in on \cap Uses[s] : dl[f] \in Delays
    OBVIOUS
  <2> QED
    BY <2>1, DelaysAre
<1>3. wanted \in SUBSET Nat /\ \A d \in wanted : d < 200
  BY <1>2 DEF MaxRate
<1>4. wanted # {} => Shortest(wanted) \in wanted /\ \A e \in wanted : Shortest(wanted) <= e
  BY <1>3, ShortestIsLeast
<1>5. \A f \in on \cap Uses[s] : dl[f] < 200 => dl[f] \in wanted
  BY DEF MaxRate
<1> HIDE DEF wanted, min
<1>6. delay \in Nat /\ delay <= 200 /\ \A f \in on \cap Uses[s] : delay <= dl[f] \/ dl[f] >= 200
  <2>1. CASE wanted = {}
    BY <1>2, <1>5, <2>1 DEF MaxRate
  <2>2. CASE wanted # {}
    <3>1. Shortest(wanted) \in Nat /\ Shortest(wanted) < 200
          /\ \A f \in on \cap Uses[s] : dl[f] < 200 => Shortest(wanted) <= dl[f]
      BY <1>3, <1>4, <1>5, <2>2
    <3>2. delay \in Nat /\ delay <= Shortest(wanted)
      BY <2>2, <3>1 DEF Smaller, FusionMaxDelay
    <3> QED
      BY <1>2, <3>1, <3>2
  <2> QED
    BY <2>1, <2>2
<1>7. (isRotationVectorRunning(on) /\ wanted # {}) => delay <= 10
  <2>1. wanted # {} => Shortest(wanted) \in Nat
    BY <1>3, <1>4
  <2> QED
    BY <2>1 DEF Smaller, FusionMaxDelay
<1> HIDE DEF delay
<1>8. Rate(s, on, dl) \in Nat /\ Rate(s, on, dl) >= 5 /\ Rate(s, on, dl) <= 200
  BY <1>0, <1>1, <1>6 DEF Larger, min
<1>9. \A f \in on \cap Uses[s] : Rate(s, on, dl) <= Larger(dl[f], MinRate[s])
  BY <1>0, <1>1, <1>2, <1>6 DEF Larger, min
<1>10. (/\ isRotationVectorRunning(on)
        /\ \E f \in on \cap Uses[s] : dl[f] < MaxRate)
         => Rate(s, on, dl) <= Larger(FusionMaxDelay, MinRate[s])
  BY <1>0, <1>1, <1>5, <1>6, <1>7 DEF Larger, min, MaxRate, FusionMaxDelay
<1> QED
  BY <1>8, <1>9, <1>10, DelaysAre

\* The two masks' handles are different ones; what uses a stream is a fusion
\* sensor.
LEMMA HandleSets ==
  /\ NonWake \cap Wake = {}
  /\ FusionSensors \subseteq NonWake /\ OwnBit \subseteq NonWake
  /\ Handles = NonWake \cup Wake
  /\ \A s \in Streams : Uses[s] \subseteq FusionSensors
  /\ Glances \subseteq Wake /\ OneShot \subseteq Wake
  /\ "sensors" \notin Streams /\ "wake" \notin Streams
  /\ OwnBit \cap Streams = {}
<1>1. \A s \in Streams : Uses[s] \subseteq FusionSensors
  BY DEF Streams, Uses, FusionSensors
<1>2. NonWake \cap Wake = {}
  BY DEF NonWake, FusionSensors, usesAccel, usesGyro, usesMag, OwnBit, Wake,
         Glances, OneShot
<1>3. FusionSensors \subseteq NonWake /\ OwnBit \subseteq NonWake
        /\ Handles = NonWake \cup Wake
  BY DEF NonWake, Handles
<1>4. Glances \subseteq Wake /\ OneShot \subseteq Wake
  BY DEF Wake
<1>5. "sensors" \notin Streams /\ "wake" \notin Streams /\ OwnBit \cap Streams = {}
  BY DEF Streams, OwnBit
<1> QED
  BY <1>1, <1>2, <1>3, <1>4, <1>5

\* clamping keeps a period in an unsigned short.
LEMMA ClampedType ==
  ASSUME NEW h \in FusionSensors, NEW ms \in Nat
  PROVE  ClampedDelay(h, ms) \in Delays
<1>1. /\ maxDelay[h] \in Nat /\ maxDelay[h] <= 200
      /\ minDelay[h] \in Nat /\ minDelay[h] <= 200
  BY DEF maxDelay, minDelay, MaxRate, FusionMaxDelay
<1>2. ms % (USHRT_MAX + 1) \in Nat /\ ms % (USHRT_MAX + 1) <= USHRT_MAX
  BY DelaysAre
<1> QED
  BY <1>1, <1>2, DelaysAre DEF ClampedDelay, Larger, Smaller

-------------------------------------------------------------------------------
(* The inductive step.                                                     *)

\* update*Rate keeps the periods delivered, when it runs for every stream that
\* is in use afterwards and lost records the outcome.
LEMMA RatesStep ==
  ASSUME IInv, NEW S \in SUBSET Streams, NEW bad,
         fusionEnabled' \in SUBSET FusionSensors,
         fusionDelay' \in [FusionSensors -> Delays],
         updateRates(S, bad),
         \A s \in Streams : s \in lost' <=> \/ s \in lost /\ s \notin Asks(S)
                                            \/ s \in Asks(S) /\ s \in bad,
         \A s \in Streams \ S : ~ isNeeded(s, fusionEnabled')
  PROVE  /\ RatesDelivered'
         /\ prev_delay' \in [Streams -> Delays]
         /\ kernDelay' \in [Streams -> Delays]
<1> DEFINE r(s) == Rate(s, fusionEnabled', fusionDelay')
<1>1. \A s \in Streams : r(s) \in Delays /\ r(s) # 0
  BY RateIsRight
<1>2. \A s \in Streams : s \in Asks(S) <=> s \in S /\ r(s) # prev_delay[s]
  BY DEF Asks
<1>3. /\ prev_delay' = [s \in Streams |-> IF s \in S THEN r(s) ELSE prev_delay[s]]
      /\ kernDelay' = [s \in Streams |-> IF s \in Asks(S) \ bad THEN r(s)
                                         ELSE kernDelay[s]]
  BY DEF updateRates
<1> HIDE DEF r
<1>4. /\ prev_delay \in [Streams -> Delays] /\ kernDelay \in [Streams -> Delays]
      /\ \A s \in Streams : (s \notin lost /\ prev_delay[s] # 0)
                              => kernDelay[s] = prev_delay[s]
  BY DEF IInv, TypeOK, RatesDelivered
<1>5. prev_delay' \in [Streams -> Delays] /\ kernDelay' \in [Streams -> Delays]
  BY <1>1, <1>3, <1>4
<1>6. ASSUME NEW s \in Streams
      PROVE  /\ isNeeded(s, fusionEnabled') => prev_delay'[s] = r(s)
             /\ (s \notin lost' /\ prev_delay'[s] # 0) => kernDelay'[s] = prev_delay'[s]
  <2>1. CASE s \in S
    BY <1>1, <1>2, <1>3, <1>4, <2>1
  <2>2. CASE s \notin S
    BY <1>2, <1>3, <1>4, <2>2
  <2> QED
    BY <2>1, <2>2
<1>7. RatesDelivered'
  BY <1>6 DEF RatesDelivered, isNeeded, r
<1> QED
  BY <1>5, <1>7

\* setEnable for a handle of the non-wake mask.
LEMMA NonWakeStep ==
  ASSUME IInv, NEW h \in Handles, NEW en \in BOOLEAN, NEW bad \in SUBSET Failing,
         setEnableNonWake(h, en, bad),
         mEnabledHandles' = With(mEnabledHandles, h, en),
         touched' = touched \cup {h}
  PROVE  IInv'
<1> DEFINE needed == {s \in Streams : isNeeded(s, fusionEnabled')}
           own    == IF h \in OwnBit THEN With(mEnabled, h, en) ELSE mEnabled
           new_enabled == (own \ Streams) \cup needed
           asked  == Asks(needed)
                       \cup (IF new_enabled # mEnabled THEN {"sensors"} ELSE {})
<1>1. /\ h \in NonWake
      /\ fusionEnabled' = IF h \in FusionSensors THEN With(fusionEnabled, h, en)
                                                 ELSE fusionEnabled
      /\ fusionDelay' = fusionDelay
      /\ updateRates(needed, bad)
      /\ mEnabled' = new_enabled
      /\ kernSensors' = IF "sensors" \in asked \ bad THEN new_enabled
                                                     ELSE kernSensors
      /\ lost' = (lost \ asked) \cup (asked \cap bad)
      /\ ret' = IF "sensors" \in asked THEN "0" ELSE RateError(needed, bad)
      /\ mWakeEnabled' = mWakeEnabled /\ kernWake' = kernWake
  BY DEF setEnableNonWake, Outcome
<1>2. needed \subseteq Streams /\ \A s \in Streams : s \in needed <=> isNeeded(s, fusionEnabled')
  OBVIOUS
<1>3. Asks(needed) \subseteq Streams
  BY <1>2 DEF Asks
<1> HIDE DEF needed
<1>4. own \in SUBSET SensorBits /\ new_enabled \in SUBSET SensorBits
  BY <1>2 DEF IInv, TypeOK, With, SensorBits
<1>5. \A s \in Streams : s \in new_enabled <=> s \in needed
  OBVIOUS
<1> HIDE DEF own, new_enabled
<1>6. /\ asked \subseteq Streams \cup {"sensors"}
      /\ "wake" \notin asked
      /\ "sensors" \in asked <=> new_enabled # mEnabled
      /\ \A s \in Streams : s \in asked <=> s \in Asks(needed)
  BY <1>3, HandleSets
<1> HIDE DEF asked
<1>7. HandlesKnown'
  BY <1>1, HandleSets DEF IInv, HandlesKnown, With
<1>8. WakeBelief'
  <2>1. touched' \cap Wake = touched \cap Wake
        /\ mEnabledHandles' \cap Wake = mEnabledHandles \cap Wake
    BY <1>1, HandleSets DEF With
  <2> QED
    BY <1>1, <2>1 DEF IInv, WakeBelief
<1>9. StreamBelief'
  BY <1>1, <1>2, <1>5 DEF StreamBelief, isNeeded
<1>10. MasksDelivered'
  BY <1>1, <1>6 DEF IInv, MasksDelivered
<1>11. fusionEnabled' \in SUBSET FusionSensors /\ fusionDelay' \in [FusionSensors -> Delays]
  BY <1>1 DEF IInv, TypeOK, With
<1>12. \A s \in Streams : s \in lost' <=> \/ s \in lost /\ s \notin Asks(needed)
                                          \/ s \in Asks(needed) /\ s \in bad
  BY <1>1, <1>6
<1>13. /\ RatesDelivered'
       /\ prev_delay' \in [Streams -> Delays] /\ kernDelay' \in [Streams -> Delays]
  BY <1>1, <1>2, <1>11, <1>12, RatesStep
<1>14. TypeOK'
  <2>1. ret' \in {"0", "-1", "-EINVAL"}
    BY <1>1 DEF RateError
  <2>2. lost' \in SUBSET DriverCalls
    BY <1>1, <1>6 DEF IInv, TypeOK, DriverCalls
  <2>3. touched' \in SUBSET Handles /\ mEnabledHandles' \in SUBSET Handles
    BY DEF IInv, TypeOK, With
  <2>4. mEnabled' \in SUBSET SensorBits /\ kernSensors' \in SUBSET SensorBits
    BY <1>1, <1>4 DEF IInv, TypeOK
  <2> QED
    BY <1>1, <1>11, <1>13, <2>1, <2>2, <2>3, <2>4 DEF IInv, TypeOK
<1> QED
  BY <1>7, <1>8, <1>9, <1>10, <1>13, <1>14 DEF IInv

\* setEnable for a handle of the wake mask.
LEMMA WakeStep ==
  ASSUME IInv, NEW h \in Handles, NEW en \in BOOLEAN, NEW bad \in SUBSET Failing,
         setEnableWake(h, en, bad),
         mEnabledHandles' = With(mEnabledHandles, h, en),
         touched' = touched \cup {h}
  PROVE  IInv'
<1> DEFINE new_enabled == IF OwnsWakeBit(h) THEN With(mWakeEnabled, WakeBit(h), en)
                          ELSE mWakeEnabled
           asked == IF new_enabled # mWakeEnabled THEN {"wake"} ELSE {}
<1>1. /\ h \in Wake
      /\ mWakeEnabled' = new_enabled
      /\ kernWake' = IF asked \ bad # {} THEN new_enabled ELSE kernWake
      /\ lost' = (lost \ asked) \cup (asked \cap bad)
      /\ ret' = "0"
      /\ UNCHANGED <<mEnabled, fusionEnabled, fusionDelay, prev_delay, kernSensors,
                     kernDelay>>
  BY DEF setEnableWake, Outcome
<1>2. /\ OwnsWakeBit(h) => new_enabled = With(mWakeEnabled, WakeBit(h), en)
      /\ ~ OwnsWakeBit(h) => new_enabled = mWakeEnabled
  OBVIOUS
<1>3. WakeBit(h) \in WakeBits
  BY <1>1 DEF WakeBits
<1>4. new_enabled \in SUBSET WakeBits
  BY <1>2, <1>3 DEF IInv, TypeOK, With
<1> HIDE DEF new_enabled
<1>5. HandlesKnown'
  BY <1>1, HandleSets DEF IInv, HandlesKnown, With
<1>6. WakeBelief'
  <2> SUFFICES ASSUME NEW k \in (touched \cup {h}) \cap Wake
               PROVE  WakeBit(k) \in new_enabled
                        <=> \E g \in With(mEnabledHandles, h, en) \cap Wake :
                              WakeBit(g) = WakeBit(k)
    BY <1>1 DEF WakeBelief
  <2>1. CASE WakeBit(k) # WakeBit(h)
    <3>1. k \in touched \cap Wake
      BY <2>1
    <3>2. WakeBit(k) \in new_enabled <=> WakeBit(k) \in mWakeEnabled
      BY <1>2, <2>1 DEF With
    <3>3. (\E g \in With(mEnabledHandles, h, en) \cap Wake : WakeBit(g) = WakeBit(k))
            <=> \E g \in mEnabledHandles \cap Wake : WakeBit(g) = WakeBit(k)
      BY <2>1 DEF With
    <3> QED
      BY <3>1, <3>2, <3>3 DEF IInv, WakeBelief
  <2>2. CASE WakeBit(k) = WakeBit(h) /\ OwnsWakeBit(h)
    <3>1. WakeBit(k) \in new_enabled <=> en
      BY <1>2, <2>2 DEF With
    <3>2. \A g \in mEnabledHandles \cap Wake : WakeBit(g) = WakeBit(h) => g = h
      BY <1>1, <2>2 DEF OwnsWakeBit, WakeBit, isHandleEnabled, Wake, Glances, OneShot
    <3> QED
      BY <1>1, <2>2, <3>1, <3>2 DEF With
  <2>3. CASE WakeBit(k) = WakeBit(h) /\ ~ OwnsWakeBit(h)
    <3>1. PICK g \in Glances \ {h} : h \in Glances /\ g \in mEnabledHandles
      BY <2>3 DEF OwnsWakeBit, isHandleEnabled
    <3>2. g \in touched \cap Wake /\ WakeBit(g) = WakeBit(k)
      BY <2>3, <3>1, HandleSets DEF IInv, HandlesKnown, WakeBit
    <3>3. WakeBit(k) \in mWakeEnabled
      BY <3>1, <3>2 DEF IInv, WakeBelief
    <3>4. g \in With(mEnabledHandles, h, en) \cap Wake
      BY <3>1, <3>2 DEF With
    <3> QED
      BY <1>2, <2>3, <3>2, <3>3, <3>4
  <2> QED
    BY <2>1, <2>2, <2>3
<1>7. StreamBelief'
  <2>1. touched' \cap NonWake = touched \cap NonWake
    BY <1>1, HandleSets
  <2> QED
    BY <1>1, <2>1 DEF IInv, StreamBelief, isNeeded
<1>8. MasksDelivered'
  BY <1>1 DEF IInv, MasksDelivered
<1>9. RatesDelivered'
  <2>1. \A s \in Streams : s \in lost' <=> s \in lost
    BY <1>1, HandleSets
  <2> QED
    BY <1>1, <2>1 DEF IInv, RatesDelivered, isNeeded
<1>10. TypeOK'
  <2>1. lost' \in SUBSET DriverCalls
    BY <1>1 DEF IInv, TypeOK, DriverCalls
  <2>2. touched' \in SUBSET Handles /\ mEnabledHandles' \in SUBSET Handles
    BY DEF IInv, TypeOK, With
  <2>3. mWakeEnabled' \in SUBSET WakeBits /\ kernWake' \in SUBSET WakeBits
    BY <1>1, <1>4 DEF IInv, TypeOK
  <2> QED
    BY <1>1, <2>1, <2>2, <2>3 DEF IInv, TypeOK
<1> QED
  BY <1>5, <1>6, <1>7, <1>8, <1>9, <1>10 DEF IInv

\* setDelay refreshes every rate.
LEMMA DelayStep ==
  ASSUME IInv, NEW h \in Handles, NEW ms \in Nat, NEW bad \in SUBSET Failing,
         setDelay(h, ms, bad)
  PROVE  IInv'
<1>1. /\ fusionDelay' = IF h \in FusionSensors
                        THEN [fusionDelay EXCEPT ![h] = ClampedDelay(h, ms)]
                        ELSE fusionDelay
      /\ fusionEnabled' = fusionEnabled
      /\ updateRates(Streams, bad)
      /\ lost' = (lost \ Asks(Streams)) \cup (Asks(Streams) \cap bad)
      /\ ret' = RateError(Streams, bad)
      /\ UNCHANGED <<mEnabled, mWakeEnabled, mEnabledHandles, kernSensors, kernWake,
                     touched>>
  BY DEF setDelay, Outcome
<1>2. fusionEnabled' \in SUBSET FusionSensors /\ fusionDelay' \in [FusionSensors -> Delays]
  BY <1>1, ClampedType DEF IInv, TypeOK
<1>3. Asks(Streams) \subseteq Streams
  BY DEF Asks
<1>4. /\ RatesDelivered'
      /\ prev_delay' \in [Streams -> Delays] /\ kernDelay' \in [Streams -> Delays]
  BY <1>1, <1>2, RatesStep
<1>5. HandlesKnown' /\ WakeBelief' /\ StreamBelief'
  BY <1>1 DEF IInv, HandlesKnown, WakeBelief, StreamBelief, isNeeded
<1>6. MasksDelivered'
  <2>1. ("wake" \in lost' <=> "wake" \in lost) /\ ("sensors" \in lost' <=> "sensors" \in lost)
    BY <1>1, <1>3, HandleSets
  <2> QED
    BY <1>1, <2>1 DEF IInv, MasksDelivered
<1>7. TypeOK'
  <2>1. ret' \in {"0", "-1", "-EINVAL"}
    BY <1>1 DEF RateError
  <2>2. lost' \in SUBSET DriverCalls
    BY <1>1, <1>3 DEF IInv, TypeOK, DriverCalls
  <2> QED
    BY <1>1, <1>2, <1>4, <2>1, <2>2 DEF IInv, TypeOK
<1> QED
  BY <1>4, <1>5, <1>6, <1>7 DEF IInv

\* The constructor, which adopts the driver's masks.
LEMMA ConstructStep ==
  ASSUME IInv, NEW bad \in SUBSET Failing, Construct(bad)
  PROVE  IInv'
<1>1. /\ mEnabled' = IF "sensors" \in bad THEN {} ELSE kernSensors
      /\ mWakeEnabled' = IF "wake" \in bad THEN {} ELSE kernWake
      /\ mEnabledHandles' = {} /\ fusionEnabled' = {} /\ touched' = {}
      /\ fusionDelay' = [f \in FusionSensors |-> USHRT_MAX]
      /\ prev_delay' = [s \in Streams |-> 0]
      /\ ret' = "0"
      /\ lost' = (lost \ {"sensors", "wake"}) \cup ({"sensors", "wake"} \cap bad)
      /\ kernSensors' = kernSensors /\ kernWake' = kernWake /\ kernDelay' = kernDelay
  BY DEF Construct, Outcome, kernel
<1>2. HandlesKnown' /\ WakeBelief' /\ StreamBelief'
  BY <1>1 DEF HandlesKnown, WakeBelief, StreamBelief
<1>3. MasksDelivered'
  BY <1>1 DEF MasksDelivered
<1>4. RatesDelivered'
  BY <1>1 DEF RatesDelivered, isNeeded
<1>5. TypeOK'
  <2>1. 0 \in Delays /\ USHRT_MAX \in Delays
    BY DelaysAre
  <2>2. /\ fusionDelay' \in [FusionSensors -> Delays]
        /\ prev_delay' \in [Streams -> Delays]
    BY <1>1, <2>1
  <2> QED
    BY <1>1, <2>2 DEF IInv, TypeOK, DriverCalls
<1> QED
  BY <1>2, <1>3, <1>4, <1>5 DEF IInv

\* Every step of the HAL keeps the invariant.
LEMMA IInvStep == IInv /\ [Next]_vars => IInv'
<1> SUFFICES ASSUME IInv, [Next]_vars PROVE IInv'
  OBVIOUS
<1>1. SensorList \subseteq Handles /\ Periods \subseteq Nat
  BY ConstantsOK
<1>2. ASSUME NEW h \in Handles, NEW en \in BOOLEAN, NEW bad \in SUBSET Failing,
             setEnable(h, en, bad)
      PROVE  IInv'
  BY <1>2, NonWakeStep, WakeStep DEF setEnable
<1>3. CASE Activate
  BY <1>1, <1>2, <1>3 DEF Activate
<1>4. CASE Batch
  BY <1>1, <1>4, DelayStep DEF Batch
<1>5. CASE Refused \/ UNCHANGED vars
  BY <1>5 DEF Refused, vars, kernel, IInv, TypeOK, HandlesKnown, WakeBelief,
              StreamBelief, MasksDelivered, RatesDelivered, isNeeded
<1>6. CASE OneShotFired
  BY <1>1, <1>2, <1>6 DEF OneShotFired
<1>7. CASE Restart
  BY <1>7, ConstructStep DEF Restart
<1> QED
  BY <1>3, <1>4, <1>5, <1>6, <1>7 DEF Next

\* The HAL's bookkeeping is right in every state.
THEOREM Invariance == Spec => []IInv
<1>1. Init => IInv
  <2> SUFFICES ASSUME Init PROVE IInv
    OBVIOUS
  <2>1. 0 \in Delays /\ USHRT_MAX \in Delays
    BY DelaysAre
  <2>2. TypeOK
    BY <2>1 DEF Init, TypeOK
  <2>3. HandlesKnown /\ WakeBelief /\ StreamBelief /\ MasksDelivered /\ RatesDelivered
    BY DEF Init, HandlesKnown, WakeBelief, StreamBelief, MasksDelivered,
           RatesDelivered, isNeeded
  <2> QED
    BY <2>2, <2>3 DEF IInv
<1> QED
  BY <1>1, IInvStep, PTL DEF Spec

-------------------------------------------------------------------------------
(* What the runs check on small instances.                                 *)

\* The masks, periods and return values of HubSensors keep their types; periods
\* never leave an unsigned short.
THEOREM HubType == Spec => []TypeOK
BY Invariance, PTL DEF IInv

\* The driver wakes the phone for exactly the wake sensors that are on, with any
\* sensor list, any failing calls and any number of restarts of the HAL.
THEOREM HubWakeMask == Spec => []WakeMaskAgrees
<1>1. IInv => WakeMaskAgrees
  BY DEF IInv, WakeBelief, MasksDelivered, WakeMaskAgrees
<1> QED
  BY <1>1, Invariance, PTL

\* A physical stream runs exactly while an enabled sensor uses it.
THEOREM HubStreams == Spec => []StreamsFollowUsers
<1>1. IInv => StreamsFollowUsers
  <2> SUFFICES ASSUME IInv, "sensors" \notin lost, touched \cap NonWake # {},
                      NEW s \in Streams
               PROVE  s \in kernSensors <=> mEnabledHandles \cap Uses[s] # {}
    BY DEF StreamsFollowUsers
  <2>1. s \in kernSensors <=> fusionEnabled \cap Uses[s] # {}
    BY DEF IInv, StreamBelief, MasksDelivered, isNeeded
  <2>2. fusionEnabled \cap Uses[s] = mEnabledHandles \cap Uses[s]
    BY HandleSets DEF IInv, HandlesKnown
  <2> QED
    BY <2>1, <2>2
<1> QED
  BY <1>1, Invariance, PTL

\* A stream in use that the driver has the period of runs at the computed rate.
LEMMA StreamRate ==
  ASSUME IInv, NEW s \in Streams \ lost, NEW f \in mEnabledHandles \cap Uses[s]
  PROVE  /\ fusionEnabled \in SUBSET FusionSensors
         /\ fusionDelay \in [FusionSensors -> Delays]
         /\ f \in fusionEnabled \cap Uses[s]
         /\ kernDelay[s] = Rate(s, fusionEnabled, fusionDelay)
<1>1. fusionEnabled \in SUBSET FusionSensors /\ fusionDelay \in [FusionSensors -> Delays]
  BY DEF IInv, TypeOK
<1>2. f \in fusionEnabled \cap Uses[s]
  BY HandleSets DEF IInv, HandlesKnown
<1>3. prev_delay[s] = Rate(s, fusionEnabled, fusionDelay)
  BY <1>2 DEF IInv, RatesDelivered, isNeeded
<1>4. Rate(s, fusionEnabled, fusionDelay) # 0
  BY <1>1, RateIsRight
<1> QED
  BY <1>1, <1>2, <1>3, <1>4 DEF IInv, RatesDelivered

\* Every enabled sensor is served at least as often as it asked, in every order
\* of activate and batch calls.
THEOREM HubUsersServed == Spec => []UsersAreServed
<1>1. IInv => UsersAreServed
  BY StreamRate, RateIsRight DEF UsersAreServed
<1> QED
  BY <1>1, Invariance, PTL

\* While a rotation vector runs, the streams in use run at the fusion rate.
THEOREM HubFusionRate == Spec => []FusionRateHeld
<1>1. ASSUME IInv PROVE FusionRateHeld
  <2> SUFFICES ASSUME NEW s \in Streams \ lost,
                      mEnabledHandles \cap RotationVectors # {},
                      NEW f \in mEnabledHandles \cap Uses[s],
                      fusionDelay[f] < MaxRate
               PROVE  kernDelay[s] <= Larger(FusionMaxDelay, MinRate[s])
    BY DEF FusionRateHeld
  <2>1. RotationVectors \subseteq FusionSensors
    BY DEF RotationVectors, FusionSensors, usesAccel
  <2>2. isRotationVectorRunning(fusionEnabled)
    BY <1>1, <2>1 DEF IInv, HandlesKnown, isRotationVectorRunning
  <2> QED
    BY <1>1, <2>2, StreamRate, RateIsRight
<1> QED
  BY <1>1, Invariance, PTL

-------------------------------------------------------------------------------
(* The fusion algorithms.                                                  *)

\* The algorithms are driven by the steps of HubSensors and change nothing of it.
THEOREM FusionImplementsHub == FSpec => Spec
<1>1. FInit => Init
  BY DEF FInit
<1>2. ASSUME [FNext]_fvars PROVE [Next]_vars
  <2>1. CASE FActivate
    BY <2>1 DEF FActivate, FEnable, Activate, Next
  <2>2. CASE FBatch
    BY <2>2 DEF FBatch, FDelay, Batch, Next
  <2>3. CASE FRestart
    BY <2>3 DEF FRestart, FConstruct, Restart, Next
  <2>4. CASE FallSilent \/ DT_MAG \/ DT_GLANCE \/ DT_ACCEL \/ DT_GYRO
    BY <2>4 DEF FallSilent, DT_MAG, DT_GLANCE, DT_ACCEL, DT_GYRO
  <2>5. CASE UNCHANGED fvars
    BY <2>5 DEF fvars
  <2> QED
    BY <1>2, <2>1, <2>2, <2>3, <2>4, <2>5 DEF FNext
<1> QED
  BY <1>1, <1>2, PTL DEF FSpec, Spec

\* What the variables of the algorithms may be, and a filter that is not initialized
\* has used a sample for each one it has counted down.
AlgosInv ==
  /\ accelSeen \in BOOLEAN /\ geoInitialized \in BOOLEAN /\ mGeomagRVReady \in BOOLEAN
  /\ gameInitialized \in BOOLEAN /\ rvRestarted \in BOOLEAN /\ quiet \in BOOLEAN
  /\ magChanged \in {"same", "residue", "glance", "new"}
  /\ mag_cnt \in 0 .. 255 /\ magSeen \in 0 .. MAG_COUNTS + 1
  /\ geoInitialized => magSeen >= MAG_COUNTS
  /\ ~geoInitialized => mag_cnt <= MAG_COUNTS /\ magSeen + mag_cnt >= MAG_COUNTS

\* The part of it that the six-axis filter changes.
GeoInv ==
  /\ geoInitialized \in BOOLEAN /\ magChanged \in {"same", "residue", "glance", "new"}
  /\ mag_cnt \in 0 .. 255 /\ magSeen \in 0 .. MAG_COUNTS + 1
  /\ geoInitialized => magSeen >= MAG_COUNTS
  /\ ~geoInitialized => mag_cnt <= MAG_COUNTS /\ magSeen + mag_cnt >= MAG_COUNTS

LEMMA GeoParts ==
  AlgosInv <=> /\ accelSeen \in BOOLEAN /\ mGeomagRVReady \in BOOLEAN
               /\ gameInitialized \in BOOLEAN /\ rvRestarted \in BOOLEAN /\ quiet \in BOOLEAN
               /\ GeoInv
  BY DEF AlgosInv, GeoInv

\* The countdown's first value.
LEMMA CountsFit ==
  /\ MAG_COUNTS \in 0 .. 255 /\ MAG_COUNTS <= MAG_COUNTS
  /\ 0 \in 0 .. MAG_COUNTS + 1 /\ 0 + MAG_COUNTS >= MAG_COUNTS
  BY FusionConstantsOK

\* Starting over, and one sample.
LEMMA GeoSteps ==
  /\ GeoInv /\ geomagReset => GeoInv'
  /\ GeoInv /\ geomagProcess => GeoInv'
<1>1. GeoInv /\ geomagReset => GeoInv'
  BY CountsFit, Zenon DEF GeoInv, geomagReset
<1>2. ASSUME GeoInv, geomagProcess PROVE GeoInv'
  <2>1. CASE /\ geoInitialized /\ magChanged' \in {"same", "residue"}
             /\ UNCHANGED <<geoInitialized, mag_cnt, magSeen>>
    BY <1>2, <2>1 DEF GeoInv
  <2>2. CASE /\ ~geoInitialized
             /\ geoInitialized' = (magChanged # "same" /\ mag_cnt = 0)
             /\ mag_cnt' = IF magChanged # "same" THEN (mag_cnt - 1) % 256 ELSE mag_cnt
             /\ magSeen' = IF magChanged # "same" /\ magSeen <= MAG_COUNTS
                           THEN magSeen + 1 ELSE magSeen
             /\ magChanged' = "same"
    <3>1. CASE magChanged = "same"
      BY <1>2, <2>2, <3>1 DEF GeoInv
    <3>2. CASE magChanged # "same" /\ mag_cnt = 0
      <4>1. mag_cnt' \in 0 .. 255
        <5>1. \A n \in Int : n % 256 \in 0 .. 255
          OBVIOUS
        <5>2. mag_cnt' = (0 - 1) % 256 /\ 0 - 1 \in Int
          BY <2>2, <3>2
        <5> QED
          BY <5>1, <5>2, Zenon
      <4> QED
        BY <1>2, <2>2, <3>2, <4>1, FusionConstantsOK DEF GeoInv
    <3>3. CASE magChanged # "same" /\ mag_cnt # 0
      <4>1. mag_cnt' = mag_cnt - 1 /\ mag_cnt \in 1 .. 255
        BY <1>2, <2>2, <3>3 DEF GeoInv
      <4> QED
        BY <1>2, <2>2, <3>3, <4>1, FusionConstantsOK DEF GeoInv
    <3> QED
      BY <3>1, <3>2, <3>3
  <2> QED
    BY <1>2, <2>1, <2>2 DEF geomagProcess
<1> QED
  BY <1>1, <1>2

LEMMA GameIs ==
  ASSUME accelSeen \in BOOLEAN, gameInitialized \in BOOLEAN, NEW reset \in BOOLEAN,
         gameProcess(reset)
  PROVE  gameInitialized' \in BOOLEAN
<1>1. PICK freefall \in BOOLEAN :
        gameInitialized' = IF gameInitialized /\ ~reset THEN TRUE ELSE accelSeen /\ ~freefall
  BY DEF gameProcess
<1> QED
  BY <1>1

LEMMA ResetKeeps ==
  ASSUME AlgosInv, resetAlgos, quiet' = quiet
  PROVE  AlgosInv'
<1>1. GeoInv' /\ rvRestarted' \in BOOLEAN
  <2>1. CASE geomagReset /\ UNCHANGED rvRestarted
    BY <2>1, GeoParts, GeoSteps
  <2>2. CASE /\ rvRestarted' = IF "ID_RV" \notin fusionEnabled' THEN TRUE ELSE rvRestarted
             /\ UNCHANGED geomag
    BY <2>2 DEF AlgosInv, GeoInv, geomag
  <2> QED
    BY <2>1, <2>2 DEF resetAlgos
<1>2. gameInitialized' \in BOOLEAN
  BY GameIs DEF resetAlgos, AlgosInv
<1>3. UNCHANGED <<accelSeen, mGeomagRVReady>>
  BY DEF resetAlgos
<1> QED
  BY <1>1, <1>2, <1>3 DEF AlgosInv, GeoInv

LEMMA AlgosStep == AlgosInv /\ [FNext]_fvars => AlgosInv'
<1> SUFFICES ASSUME AlgosInv, [FNext]_fvars PROVE AlgosInv'
  OBVIOUS
<1>1. CASE FActivate
  <2>1. resetAlgos \/ UNCHANGED algos
    BY <1>1 DEF FActivate, FEnable
  <2>2. quiet' = quiet
    BY <1>1 DEF FActivate, FEnable
  <2>3. CASE UNCHANGED algos
    BY <2>2, <2>3 DEF AlgosInv, algos, geomag
  <2> QED
    BY <2>1, <2>2, <2>3, ResetKeeps
<1>2. CASE FBatch
  BY <1>2 DEF FBatch, FDelay, AlgosInv, algos, geomag
<1>3. CASE FRestart
  BY <1>3, CountsFit, Zenon DEF FRestart, FConstruct, AlgosInv
<1>4. CASE FallSilent
  BY <1>4 DEF FallSilent, AlgosInv, algos, geomag
<1>5. CASE DT_MAG
  BY <1>5 DEF DT_MAG, AlgosInv
<1>6. CASE DT_GLANCE
  BY <1>6 DEF DT_GLANCE, AlgosInv
<1>7. CASE DT_ACCEL
  <2>1. accelSeen' = TRUE /\ UNCHANGED <<gameInitialized, rvRestarted, quiet>>
    BY <1>7 DEF DT_ACCEL
  <2>2. GeoInv' /\ mGeomagRVReady' \in BOOLEAN
    <3>1. CASE geomagProcess /\ mGeomagRVReady' = geoInitialized'
      <4>1. GeoInv'
        BY <3>1, GeoParts, GeoSteps
      <4> QED
        BY <3>1, <4>1 DEF GeoInv
    <3>2. CASE UNCHANGED <<geomag, mGeomagRVReady>>
      BY <3>2 DEF AlgosInv, GeoInv, geomag
    <3> QED
      BY <1>7, <3>1, <3>2 DEF DT_ACCEL
  <2> QED
    BY <2>1, <2>2 DEF AlgosInv, GeoInv
<1>8. CASE DT_GYRO
  <2>1. UNCHANGED <<accelSeen, geomag, mGeomagRVReady, quiet>>
    BY <1>8 DEF DT_GYRO
  <2>2. gameInitialized' \in BOOLEAN
    BY <1>8, GameIs DEF DT_GYRO, AlgosInv
  <2>3. rvRestarted' \in BOOLEAN
    BY <1>8 DEF DT_GYRO, AlgosInv
  <2> QED
    BY <2>1, <2>2, <2>3 DEF AlgosInv, geomag
<1>9. CASE UNCHANGED fvars
  BY <1>9 DEF fvars, AlgosInv, algos, geomag
<1> QED
  BY <1>1, <1>2, <1>3, <1>4, <1>5, <1>6, <1>7, <1>8, <1>9 DEF FNext

LEMMA AlgosInvHolds == FSpec => []AlgosInv
<1>1. FInit => AlgosInv
  BY CountsFit, Zenon DEF FInit, AlgosInv
<1> QED
  BY <1>1, AlgosStep, PTL DEF FSpec

\* The variables of the HAL and of the algorithms keep their types: the uint8_t
\* countdown of the six-axis filter too.
THEOREM FusionTypeCorrect == FSpec => []FTypeOK
<1>1. TypeOK /\ AlgosInv => FTypeOK
  BY DEF AlgosInv, FTypeOK
<1> QED
  BY <1>1, HubType, FusionImplementsHub, AlgosInvHolds, PTL

\* The six-axis filter reports itself initialized only after the samples it promises
\* to wait for, counted since its last reset, although the countdown wraps at 0 and
\* the filter is reset by every setEnable of another sensor
\* (GeoMagRotationVector.cpp: processFusion).
THEOREM FusionWarmUp == FSpec => []GeoMagWarmUp
<1>1. AlgosInv => GeoMagWarmUp
  BY DEF AlgosInv, GeoMagWarmUp
<1> QED
  BY <1>1, AlgosInvHolds, PTL
===============================================================================
