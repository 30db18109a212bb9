----------------------------- MODULE Motosh_proofs -----------------------------
(***************************************************************************)
(* Proofs about the larger hub: the algorithms requested through           *)
(* libsensorhub, for every set of algorithms and of parts, and the HAL,    *)
(* for every set of handles, periods and sizes of the buffer.              *)
(***************************************************************************)
EXTENDS SensorHubAlgos, MotoshHub, SequenceTheorems, WellFoundedInduction, TLAPS

-------------------------------------------------------------------------------
(* The algorithms.                                                         *)

\* What the calls of the framework keep: the context and the driver have the
\* same mask, of known algorithms, and the mask follows the parts.
MaskInv ==
  /\ active_algos = hubAlgos /\ hubAlgos \subseteq AlgoIds \cup {M_MOVE}
  /\ active_parts \in [AlgoIds -> Parts]
  /\ AlgosFollowParts

\* A mask computed for one algorithm has that bit as it should be, unless an
\* earlier change of it failed, and leaves the others alone.
LEMMA AlgosWithBit ==
  ASSUME MaskInv, NEW algo \in AlgoIds, NEW parts \in Parts
  PROVE  /\ AlgosWith(algo, parts) \subseteq AlgoIds \cup {M_MOVE}
         /\ \A b : b # algo => (b \in AlgosWith(algo, parts) <=> b \in hubAlgos)
         /\ algo \notin setFailed => (algo \in AlgosWith(algo, parts) <=> parts # {})
  BY DEF MaskInv, AlgosFollowParts, AlgosWith

\* A request that was accepted, with or without its change of the mask.
LEMMA AcceptedKeeps ==
  ASSUME MaskInv, NEW algo \in AlgoIds, NEW parts \in Parts,
         Accepted(algo, parts), UNCHANGED hubMovement
  PROVE  MaskInv'
<1>1. active_parts' \in [AlgoIds -> Parts] /\ active_parts'[algo] = parts
      /\ \A a \in AlgoIds : a # algo => active_parts'[a] = active_parts[a]
  BY DEF Accepted, MaskInv
<1>2. M_MOVE # algo
  BY AlgosAssumption
<1>3. CASE /\ SetAlgos(AlgosWith(algo, parts))
           /\ setFailed' = IF (algo \in AlgosWith(algo, parts)) = (parts # {})
                           THEN setFailed \ {algo} ELSE setFailed
  <2>1. hubAlgos' = AlgosWith(algo, parts) /\ active_algos' = hubAlgos'
    BY <1>3 DEF SetAlgos
  <2>2. ASSUME NEW a \in AlgoIds \ setFailed'
        PROVE  a \in hubAlgos' <=> active_parts'[a] # {}
    <3>1. CASE a = algo
      <4>1. CASE (algo \in AlgosWith(algo, parts)) = (parts # {})
        BY <1>1, <2>1, <3>1, <4>1
      <4>2. CASE (algo \in AlgosWith(algo, parts)) # (parts # {})
        <5>1. algo \notin setFailed
          BY <1>3, <2>2, <3>1, <4>2
        <5> QED
          BY <1>1, <2>1, <3>1, <5>1, AlgosWithBit
      <4> QED
        BY <4>1, <4>2
    <3>2. CASE a # algo
      <4>1. a \notin setFailed
        BY <1>3, <2>2, <3>2
      <4> QED
        BY <1>1, <2>1, <3>2, <4>1, AlgosWithBit DEF MaskInv, AlgosFollowParts
    <3> QED
      BY <3>1, <3>2
  <2>3. M_MOVE \in hubAlgos' <=> hubMovement'
    BY <1>2, <2>1, AlgosWithBit DEF MaskInv, AlgosFollowParts
  <2> QED
    BY <1>1, <2>1, <2>2, <2>3, AlgosWithBit DEF MaskInv, AlgosFollowParts
<1>4. CASE setFailed' = setFailed \cup {algo} /\ UNCHANGED <<active_algos, hubAlgos>>
  BY <1>1, <1>4 DEF MaskInv, AlgosFollowParts
<1> QED
  BY <1>3, <1>4 DEF Accepted

\* Movement on or off touches its own bit only.
LEMMA MovementKeeps ==
  ASSUME MaskInv, NEW on \in BOOLEAN, sensorhub_enable(on)
  PROVE  MaskInv'
<1>1. CASE UNCHANGED <<active_algos, hubAlgos, hubMovement>>
  BY <1>1 DEF sensorhub_enable, MaskInv, AlgosFollowParts
<1>2. CASE /\ SetAlgos(IF on THEN active_algos \cup {M_MOVE} ELSE active_algos \ {M_MOVE})
           /\ hubMovement' = on
  BY <1>2, AlgosAssumption DEF sensorhub_enable, SetAlgos, MaskInv, AlgosFollowParts
<1> QED
  BY <1>1, <1>2 DEF sensorhub_enable

LEMMA MaskStep == MaskInv /\ [HNext]_hvars => MaskInv'
<1> SUFFICES ASSUME MaskInv, [HNext]_hvars PROVE MaskInv'
  OBVIOUS
<1>1. ASSUME NEW on \in BOOLEAN, sensorhub_enable(on) PROVE MaskInv'
  BY <1>1, MovementKeeps
<1>2. ASSUME NEW a \in AlgoIds, NEW p \in Parts, sensorhub_algo_req(a, p) PROVE MaskInv'
  <2>1. CASE Accepted(a, p)
    BY <1>2, <2>1, AcceptedKeeps DEF sensorhub_algo_req
  <2>2. CASE Refused(a, p)
    BY <1>2, <2>2 DEF sensorhub_algo_req, Refused, MaskInv, AlgosFollowParts
  <2> QED
    BY <1>2, <2>1, <2>2 DEF sensorhub_algo_req
<1>3. ASSUME NEW a \in AlgoIds, sensorhub_algo_query(a) PROVE MaskInv'
  BY <1>3 DEF sensorhub_algo_query, MaskInv, AlgosFollowParts
<1>4. CASE sensorhub_poll
  BY <1>4 DEF sensorhub_poll, MaskInv, AlgosFollowParts
<1>5. CASE UNCHANGED hvars
  BY <1>5 DEF hvars, MaskInv, AlgosFollowParts
<1> QED
  BY <1>1, <1>2, <1>3, <1>4, <1>5 DEF HNext

\* The hub runs an algorithm exactly when parts of it were asked for, and movement
\* when it was turned on, in every order of sensorhub_enable and
\* sensorhub_algo_req and whichever requests the driver refused, except for an
\* algorithm whose last SET_ALGOS failed.
THEOREM AlgosCorrect == HSpec => []AlgosFollowParts
<1>1. HInit => MaskInv
  BY AlgosAssumption DEF HInit, MaskInv, AlgosFollowParts
<1>2. MaskInv => AlgosFollowParts
  BY DEF MaskInv
<1> QED
  BY <1>1, <1>2, MaskStep, PTL DEF HSpec

\* What the caller of poll holds is 0, or a type poll knows.
EventInv == event \in [ret : -1 .. 1, type : EventTypes \cup {"none"}]

LEMMA EventStep == EventInv /\ [HNext]_hvars => EventInv'
<1> SUFFICES ASSUME EventInv, [HNext]_hvars PROVE EventInv'
  OBVIOUS
<1>1. ASSUME NEW on \in BOOLEAN, sensorhub_enable(on) PROVE EventInv'
  BY <1>1 DEF sensorhub_enable, EventInv
<1>2. ASSUME NEW a \in AlgoIds, NEW p \in Parts, sensorhub_algo_req(a, p) PROVE EventInv'
  BY <1>2 DEF sensorhub_algo_req, EventInv
<1>3. ASSUME NEW a \in AlgoIds, sensorhub_algo_query(a) PROVE EventInv'
  BY <1>3 DEF sensorhub_algo_query, EventInv, EventTypes
<1>4. CASE sensorhub_poll
  BY <1>4 DEF sensorhub_poll, EventInv
<1>5. CASE UNCHANGED hvars
  BY <1>5 DEF hvars, EventInv
<1> QED
  BY <1>1, <1>2, <1>3, <1>4, <1>5 DEF HNext

\* The mask holds known algorithms and is the driver's, the parts are ones that
\* may be asked for, and poll answers -1, 0 or 1 (sensorhub.c).
THEOREM AlgosTypeCorrect == HSpec => []HTypeOK
<1>1. HInit => MaskInv /\ EventInv
  BY AlgosAssumption DEF HInit, MaskInv, EventInv, AlgosFollowParts
<1>2. MaskInv /\ EventInv => HTypeOK
  BY DEF MaskInv, EventInv, HTypeOK
<1> QED
  BY <1>1, <1>2, MaskStep, EventStep, PTL DEF HSpec

-------------------------------------------------------------------------------
(* The HAL of the larger hub.                                              *)

StreamBits == MotoStreams \cup {"M_ECOMPASS"}
WakeBits   == MotoWake \cup {"M_GLANCE"}

MotoType == [mEnabled : SUBSET StreamBits, mWakeEnabled : SUBSET WakeBits,
             mEnabledHandles : SUBSET MotoHandles, req : [MagRate \cup GyroRate -> Nat],
             mEcompassDelay : Nat, mGyroDelay : Nat]

DrvType == [sensors : SUBSET StreamBits, wake : SUBSET WakeBits, mag : Nat, gyro : Nat,
            refused : SUBSET (Masks \cup {"mag", "gyro"})]

\* The driver has the periods and the masks the HAL remembers, unless it refused them.
Believed(s, d) ==
  /\ "mag" \notin d.refused /\ s.mEcompassDelay # MOTO_USHRT_MAX => d.mag = s.mEcompassDelay
  /\ "gyro" \notin d.refused /\ s.mGyroDelay # MOTO_USHRT_MAX => d.gyro = s.mGyroDelay
  /\ "sensors" \notin d.refused => d.sensors = s.mEnabled
  /\ "wake" \notin d.refused => d.wake = s.mWakeEnabled

\* The HAL remembers the shortest period its sensors ask for.
Shortest(s) ==
  /\ s.mEcompassDelay = minReqDelay(s, MagRate, s.mEnabledHandles)
  /\ s.mGyroDelay = minReqDelay(s, GyroRate, s.mEnabledHandles)

\* A nonempty set of naturals has a least element, and Min is it.
LEMMA MinIsLeast ==
  ASSUME NEW S \in SUBSET Nat, S # {}
  PROVE  Min(S) \in S /\ \A x \in S : Min(S) <= x
<1>1. \A i, j \in Nat : ~ (<<j, i>> \in OpToRel(<, Nat)) => i <= j
  BY DEF OpToRel
<1>2. \E x \in S : \A y \in S : ~ (<<y, x>> \in OpToRel(<, Nat))
  BY NatLessThanWellFounded, WFMin, Zenon
<1>3. \E x \in S : \A y \in S : x <= y
  BY <1>1, <1>2
<1> QED
  BY <1>3 DEF Min

\* The shortest period is a period, and without a sensor there is none.
LEMMA DelayIsNat ==
  ASSUME NEW s \in MotoType, NEW on, NEW group \in {MagRate, GyroRate}
  PROVE  /\ minReqDelay(s, group, on) \in Nat
         /\ on = {} => minReqDelay(s, group, on) = MOTO_USHRT_MAX
<1>1. {MOTO_USHRT_MAX} \cup {s.req[h] : h \in group \cap on} \in SUBSET Nat
  BY DEF MotoType, MOTO_USHRT_MAX
<1>2. minReqDelay(s, group, on) \in {MOTO_USHRT_MAX} \cup {s.req[h] : h \in group \cap on}
  BY <1>1, MinIsLeast DEF minReqDelay
<1> QED
  BY <1>1, <1>2

\* The period of one group is set, and nothing else changes.
LEMMA MagRated ==
  ASSUME NEW s \in MotoType, NEW d \in DrvType, NEW min \in Nat, Believed(s, d),
         NEW r \in Rated(s, d, "mag", "mEcompassDelay", min)
  PROVE  /\ r[1] \in MotoType /\ r[2] \in DrvType /\ Believed(r[1], r[2])
         /\ r[1].mEcompassDelay = min /\ r[1].mGyroDelay = s.mGyroDelay /\ r[1].req = s.req
         /\ r[1].mEnabled = s.mEnabled /\ r[1].mWakeEnabled = s.mWakeEnabled
         /\ r[1].mEnabledHandles = s.mEnabledHandles
<1> DEFINE set == [s EXCEPT !["mEcompassDelay"] = min]
           taken == [d EXCEPT !["mag"] = min, !.refused = @ \ {"mag"}]
           lost(k) == [d EXCEPT !["mag"] = k, !.refused = @ \cup {"mag"}]
<1>1. /\ set \in MotoType /\ set.mEcompassDelay = min /\ set.mGyroDelay = s.mGyroDelay
      /\ set.req = s.req /\ set.mEnabled = s.mEnabled /\ set.mWakeEnabled = s.mWakeEnabled
      /\ set.mEnabledHandles = s.mEnabledHandles
  BY DEF MotoType
<1>2. /\ taken \in DrvType /\ taken.mag = min /\ taken.gyro = d.gyro
      /\ taken.sensors = d.sensors /\ taken.wake = d.wake
      /\ \A w \in Masks \cup {"gyro"} : w \in taken.refused <=> w \in d.refused
  <2>1. /\ [d EXCEPT !["mag"] = min] \in DrvType
        /\ d.refused \ {"mag"} \in SUBSET (Masks \cup {"mag", "gyro"})
    BY DEF DrvType
  <2>2. taken \in DrvType
    BY <2>1 DEF DrvType
  <2>3. /\ taken.mag = min /\ taken.gyro = d.gyro /\ taken.refused = d.refused \ {"mag"}
        /\ taken.sensors = d.sensors /\ taken.wake = d.wake
    BY DEF DrvType
  <2> QED
    BY <2>2, <2>3 DEF Masks
<1>3. ASSUME NEW k \in {min, d["mag"]}
      PROVE  /\ lost(k) \in DrvType /\ lost(k).gyro = d.gyro /\ "mag" \in lost(k).refused
             /\ lost(k).sensors = d.sensors /\ lost(k).wake = d.wake
             /\ \A w \in Masks \cup {"gyro"} : w \in lost(k).refused <=> w \in d.refused
  <2>1. k \in Nat /\ d.refused \cup {"mag"} \in SUBSET (Masks \cup {"mag", "gyro"})
    BY DEF DrvType
  <2>2. [d EXCEPT !["mag"] = k] \in DrvType
    BY <2>1 DEF DrvType
  <2>3. lost(k) \in DrvType
    BY <2>1, <2>2 DEF DrvType
  <2>4. /\ lost(k).gyro = d.gyro /\ lost(k).refused = d.refused \cup {"mag"}
        /\ lost(k).sensors = d.sensors /\ lost(k).wake = d.wake
    BY DEF DrvType
  <2> QED
    BY <2>3, <2>4 DEF Masks
<1>4. CASE min = MOTO_USHRT_MAX
  <2>1. r = <<set, d>>
    BY <1>4 DEF Rated
  <2> HIDE DEF set
  <2> QED
    BY <1>1, <1>4, <2>1 DEF Believed, Masks
<1>5. CASE min # MOTO_USHRT_MAX /\ s.mEcompassDelay = min
  <2>1. r = <<s, d>>
    BY <1>5 DEF Rated
  <2> QED
    BY <1>5, <2>1
<1>6. CASE min # MOTO_USHRT_MAX /\ s.mEcompassDelay # min
  <2>1. \/ r = <<set, taken>>
        \/ \E k \in {min, d["mag"]} : r = <<set, lost(k)>>
    BY <1>6 DEF Rated
  <2> HIDE DEF set, taken, lost
  <2>2. CASE r = <<set, taken>>
    BY <1>1, <1>2, <2>2 DEF Believed, Masks
  <2>3. ASSUME NEW k \in {min, d["mag"]}, r = <<set, lost(k)>>
        PROVE  /\ r[1] \in MotoType /\ r[2] \in DrvType /\ Believed(r[1], r[2]) /\ r[1] = set
    BY <1>1, <1>3, <2>3 DEF Believed, Masks
  <2> QED
    BY <1>1, <2>1, <2>2, <2>3
<1> QED
  BY <1>4, <1>5, <1>6
\* The same of the other group.
LEMMA GyroRated ==
  ASSUME NEW s \in MotoType, NEW d \in DrvType, NEW min \in Nat, Believed(s, d),
         NEW r \in Rated(s, d, "gyro", "mGyroDelay", min)
  PROVE  /\ r[1] \in MotoType /\ r[2] \in DrvType /\ Believed(r[1], r[2])
         /\ r[1].mGyroDelay = min /\ r[1].mEcompassDelay = s.mEcompassDelay /\ r[1].req = s.req
         /\ r[1].mEnabled = s.mEnabled /\ r[1].mWakeEnabled = s.mWakeEnabled
         /\ r[1].mEnabledHandles = s.mEnabledHandles
<1> DEFINE set == [s EXCEPT !["mGyroDelay"] = min]
           taken == [d EXCEPT !["gyro"] = min, !.refused = @ \ {"gyro"}]
           lost(k) == [d EXCEPT !["gyro"] = k, !.refused = @ \cup {"gyro"}]
<1>1. /\ set \in MotoType /\ set.mGyroDelay = min /\ set.mEcompassDelay = s.mEcompassDelay
      /\ set.req = s.req /\ set.mEnabled = s.mEnabled /\ set.mWakeEnabled = s.mWakeEnabled
      /\ set.mEnabledHandles = s.mEnabledHandles
  BY DEF MotoType
<1>2. /\ taken \in DrvType /\ taken.gyro = min /\ taken.mag = d.mag
      /\ taken.sensors = d.sensors /\ taken.wake = d.wake
      /\ \A w \in Masks \cup {"mag"} : w \in taken.refused <=> w \in d.refused
  <2>1. /\ [d EXCEPT !["gyro"] = min] \in DrvType
        /\ d.refused \ {"gyro"} \in SUBSET (Masks \cup {"mag", "gyro"})
    BY DEF DrvType
  <2>2. taken \in DrvType
    BY <2>1 DEF DrvType
  <2>3. /\ taken.gyro = min /\ taken.mag = d.mag /\ taken.refused = d.refused \ {"gyro"}
        /\ taken.sensors = d.sensors /\ taken.wake = d.wake
    BY DEF DrvType
  <2> QED
    BY <2>2, <2>3 DEF Masks
<1>3. ASSUME NEW k \in {min, d["gyro"]}
      PROVE  /\ lost(k) \in DrvType /\ lost(k).mag = d.mag /\ "gyro" \in lost(k).refused
             /\ lost(k).sensors = d.sensors /\ lost(k).wake = d.wake
             /\ \A w \in Masks \cup {"mag"} : w \in lost(k).refused <=> w \in d.refused
  <2>1. k \in Nat /\ d.refused \cup {"gyro"} \in SUBSET (Masks \cup {"mag", "gyro"})
    BY DEF DrvType
  <2>2. [d EXCEPT !["gyro"] = k] \in DrvType
    BY <2>1 DEF DrvType
  <2>3. lost(k) \in DrvType
    BY <2>1, <2>2 DEF DrvType
  <2>4. /\ lost(k).mag = d.mag /\ lost(k).refused = d.refused \cup {"gyro"}
        /\ lost(k).sensors = d.sensors /\ lost(k).wake = d.wake
    BY DEF DrvType
  <2> QED
    BY <2>3, <2>4 DEF Masks
<1>4. CASE min = MOTO_USHRT_MAX
  <2>1. r = <<set, d>>
    BY <1>4 DEF Rated
  <2> HIDE DEF set
  <2> QED
    BY <1>1, <1>4, <2>1 DEF Believed, Masks
<1>5. CASE min # MOTO_USHRT_MAX /\ s.mGyroDelay = min
  <2>1. r = <<s, d>>
    BY <1>5 DEF Rated
  <2> QED
    BY <1>5, <2>1
<1>6. CASE min # MOTO_USHRT_MAX /\ s.mGyroDelay # min
  <2>1. \/ r = <<set, taken>>
        \/ \E k \in {min, d["gyro"]} : r = <<set, lost(k)>>
    BY <1>6 DEF Rated
  <2> HIDE DEF set, taken, lost
  <2>2. CASE r = <<set, taken>>
    BY <1>1, <1>2, <2>2 DEF Believed, Masks
  <2>3. ASSUME NEW k \in {min, d["gyro"]}, r = <<set, lost(k)>>
        PROVE  /\ r[1] \in MotoType /\ r[2] \in DrvType /\ Believed(r[1], r[2]) /\ r[1] = set
    BY <1>1, <1>3, <2>3 DEF Believed, Masks
  <2> QED
    BY <1>1, <2>1, <2>2, <2>3
<1> QED
  BY <1>4, <1>5, <1>6
\* What the rates are computed from and remembered in.
SameRates(s, t) == t.req = s.req /\ t.mEcompassDelay = s.mEcompassDelay /\ t.mGyroDelay = s.mGyroDelay
SameMasks(s, t) == t.mEnabled = s.mEnabled /\ t.mWakeEnabled = s.mWakeEnabled

\* The groups share no sensor.
LEMMA GroupsApart == MagRate \cap GyroRate = {}
  BY DEF MagRate, GyroRate, Compasses

\* A request of one group does not change the other's period.
LEMMA OtherGroup ==
  ASSUME NEW s, NEW t, NEW on, NEW off, NEW group,
         \A g \in group : t.req[g] = s.req[g] /\ (g \in on <=> g \in off)
  PROVE  minReqDelay(t, group, on) = minReqDelay(s, group, off)
<1>1. group \cap on = group \cap off
  OBVIOUS
<1>2. {t.req[g] : g \in group \cap on} = {s.req[g] : g \in group \cap on}
  OBVIOUS
<1> QED
  BY <1>1, <1>2 DEF minReqDelay

\* The rates of one handle's group are set, from what its sensors ask for.
LEMMA RatesFollow ==
  ASSUME NEW s0 \in MotoType, NEW d \in DrvType, Believed(s0, d), Shortest(s0),
         NEW h, NEW on, NEW s \in MotoType, SameMasks(s0, s),
         s.mEnabledHandles = s0.mEnabledHandles,
         s.mEcompassDelay = s0.mEcompassDelay, s.mGyroDelay = s0.mGyroDelay,
         \A g \in MagRate \cup GyroRate :
           g # h => s.req[g] = s0.req[g] /\ (g \in on <=> g \in s0.mEnabledHandles),
         NEW r \in RatesOf(s, d, h, on)
  PROVE  /\ r[1] \in MotoType /\ r[2] \in DrvType /\ Believed(r[1], r[2]) /\ SameMasks(s0, r[1])
         /\ r[1].mEcompassDelay = minReqDelay(s, MagRate, on)
         /\ r[1].mGyroDelay = minReqDelay(s, GyroRate, on)
         /\ r[1].req = s.req /\ r[1].mEnabledHandles = s0.mEnabledHandles
<1>1. Believed(s, d)
  BY DEF Believed, SameMasks
<1>2. /\ minReqDelay(s, MagRate, on) \in Nat /\ minReqDelay(s, GyroRate, on) \in Nat
  BY DelayIsNat
<1>3. h \notin MagRate => minReqDelay(s, MagRate, on) = s.mEcompassDelay
  <2> SUFFICES ASSUME h \notin MagRate PROVE minReqDelay(s, MagRate, on) = s.mEcompassDelay
    OBVIOUS
  <2>1. \A g \in MagRate : s.req[g] = s0.req[g] /\ (g \in on <=> g \in s0.mEnabledHandles)
    OBVIOUS
  <2> QED
    BY <2>1, OtherGroup DEF Shortest
<1>4. h \notin GyroRate => minReqDelay(s, GyroRate, on) = s.mGyroDelay
  <2> SUFFICES ASSUME h \notin GyroRate PROVE minReqDelay(s, GyroRate, on) = s.mGyroDelay
    OBVIOUS
  <2>1. \A g \in GyroRate : s.req[g] = s0.req[g] /\ (g \in on <=> g \in s0.mEnabledHandles)
    OBVIOUS
  <2> QED
    BY <2>1, OtherGroup DEF Shortest
<1>5. CASE h \in MagRate
  <2>1. r \in Rated(s, d, "mag", "mEcompassDelay", minReqDelay(s, MagRate, on))
    BY <1>5 DEF RatesOf, updateEcompassRate
  <2>2. h \notin GyroRate
    BY <1>5, GroupsApart
  <2> QED
    BY <1>1, <1>2, <1>4, <2>1, <2>2, MagRated DEF SameMasks
<1>6. CASE h \notin MagRate /\ h \in GyroRate
  <2>1. r \in Rated(s, d, "gyro", "mGyroDelay", minReqDelay(s, GyroRate, on))
    BY <1>6 DEF RatesOf, updateGyroRate
  <2> QED
    BY <1>1, <1>2, <1>3, <1>6, <2>1, GyroRated DEF SameMasks
<1>7. CASE h \notin MagRate /\ h \notin GyroRate
  <2>1. r = <<s, d>>
    BY <1>7 DEF RatesOf
  <2> QED
    BY <1>1, <1>3, <1>4, <1>7, <2>1 DEF SameMasks
<1> QED
  BY <1>5, <1>6, <1>7

\* SET_SENSORS: the HAL's mask is the new one, the driver's one of the two.
LEMMA StreamMasked ==
  ASSUME NEW s \in MotoType, NEW d \in DrvType, Believed(s, d), NEW mask \in SUBSET StreamBits,
         NEW r \in Masked(s, d, "mEnabled", "sensors", mask)
  PROVE  /\ r[1] \in MotoType /\ r[2] \in DrvType /\ Believed(r[1], r[2])
         /\ r[1].mEnabled = mask /\ r[1].mWakeEnabled = s.mWakeEnabled
         /\ SameRates(s, r[1]) /\ r[1].mEnabledHandles = s.mEnabledHandles
<1> DEFINE set == [s EXCEPT !["mEnabled"] = mask]
           taken == [d EXCEPT !["sensors"] = mask, !.refused = @ \ {"sensors"}]
           lost(k) == [d EXCEPT !["sensors"] = k, !.refused = @ \cup {"sensors"}]
<1>1. /\ set \in MotoType /\ set.mEnabled = mask /\ set.mWakeEnabled = s.mWakeEnabled
      /\ set.mEnabledHandles = s.mEnabledHandles /\ SameRates(s, set)
  BY DEF MotoType, SameRates
<1>2. taken \in DrvType /\ Believed(set, taken)
  <2>1. /\ [d EXCEPT !["sensors"] = mask] \in DrvType
        /\ d.refused \ {"sensors"} \in SUBSET (Masks \cup {"mag", "gyro"})
    BY DEF DrvType
  <2>2. taken \in DrvType
    BY <2>1 DEF DrvType
  <2>3. /\ taken.mag = d.mag /\ taken.gyro = d.gyro /\ taken.wake = d.wake
        /\ taken.sensors = mask /\ taken.refused = d.refused \ {"sensors"}
    BY DEF DrvType
  <2> HIDE DEF set, taken
  <2> QED
    BY <1>1, <2>2, <2>3 DEF Believed, SameRates
<1>5. ASSUME NEW k \in {mask, d["sensors"]}
      PROVE  lost(k) \in DrvType /\ Believed(set, lost(k))
  <2>1. k \in SUBSET StreamBits /\ d.refused \cup {"sensors"} \in SUBSET (Masks \cup {"mag", "gyro"})
    BY DEF DrvType, Masks
  <2>2. [d EXCEPT !["sensors"] = k] \in DrvType
    BY <2>1 DEF DrvType
  <2>3. lost(k) \in DrvType
    BY <2>1, <2>2 DEF DrvType
  <2>4. /\ lost(k).mag = d.mag /\ lost(k).gyro = d.gyro /\ lost(k).wake = d.wake
        /\ lost(k).refused = d.refused \cup {"sensors"}
    BY DEF DrvType
  <2> HIDE DEF set, lost
  <2> QED
    BY <1>1, <2>3, <2>4 DEF Believed, SameRates
<1>3. CASE mask = s["mEnabled"]
  <2>1. r = <<s, d>>
    BY <1>3 DEF Masked
  <2> QED
    BY <1>3, <2>1 DEF SameRates
<1>4. CASE mask # s["mEnabled"]
  <2>1. r = <<set, taken>> \/ \E k \in {mask, d["sensors"]} : r = <<set, lost(k)>>
    BY <1>4 DEF Masked
  <2> HIDE DEF set, taken, lost
  <2> QED
    BY <1>1, <1>2, <1>5, <2>1
<1> QED
  BY <1>3, <1>4

\* SET_WAKESENSORS: the same.
LEMMA WakeMasked ==
  ASSUME NEW s \in MotoType, NEW d \in DrvType, Believed(s, d), NEW mask \in SUBSET WakeBits,
         NEW r \in Masked(s, d, "mWakeEnabled", "wake", mask)
  PROVE  /\ r[1] \in MotoType /\ r[2] \in DrvType /\ Believed(r[1], r[2])
         /\ r[1].mWakeEnabled = mask /\ r[1].mEnabled = s.mEnabled
         /\ SameRates(s, r[1]) /\ r[1].mEnabledHandles = s.mEnabledHandles
<1> DEFINE set == [s EXCEPT !["mWakeEnabled"] = mask]
           taken == [d EXCEPT !["wake"] = mask, !.refused = @ \ {"wake"}]
           lost(k) == [d EXCEPT !["wake"] = k, !.refused = @ \cup {"wake"}]
<1>1. /\ set \in MotoType /\ set.mWakeEnabled = mask /\ set.mEnabled = s.mEnabled
      /\ set.mEnabledHandles = s.mEnabledHandles /\ SameRates(s, set)
  BY DEF MotoType, SameRates
<1>2. taken \in DrvType /\ Believed(set, taken)
  <2>1. /\ [d EXCEPT !["wake"] = mask] \in DrvType
        /\ d.refused \ {"wake"} \in SUBSET (Masks \cup {"mag", "gyro"})
    BY DEF DrvType
  <2>2. taken \in DrvType
    BY <2>1 DEF DrvType
  <2>3. /\ taken.mag = d.mag /\ taken.gyro = d.gyro /\ taken.sensors = d.sensors
        /\ taken.wake = mask /\ taken.refused = d.refused \ {"wake"}
    BY DEF DrvType
  <2> HIDE DEF set, taken
  <2> QED
    BY <1>1, <2>2, <2>3 DEF Believed, SameRates
<1>5. ASSUME NEW k \in {mask, d["wake"]}
      PROVE  lost(k) \in DrvType /\ Believed(set, lost(k))
  <2>1. k \in SUBSET WakeBits /\ d.refused \cup {"wake"} \in SUBSET (Masks \cup {"mag", "gyro"})
    BY DEF DrvType, Masks
  <2>2. [d EXCEPT !["wake"] = k] \in DrvType
    BY <2>1 DEF DrvType
  <2>3. lost(k) \in DrvType
    BY <2>1, <2>2 DEF DrvType
  <2>4. /\ lost(k).mag = d.mag /\ lost(k).gyro = d.gyro /\ lost(k).sensors = d.sensors
        /\ lost(k).refused = d.refused \cup {"wake"}
    BY DEF DrvType
  <2> HIDE DEF set, lost
  <2> QED
    BY <1>1, <2>3, <2>4 DEF Believed, SameRates
<1>3. CASE mask = s["mWakeEnabled"]
  <2>1. r = <<s, d>>
    BY <1>3 DEF Masked
  <2> QED
    BY <1>3, <2>1 DEF SameRates
<1>4. CASE mask # s["mWakeEnabled"]
  <2>1. r = <<set, taken>> \/ \E k \in {mask, d["wake"]} : r = <<set, lost(k)>>
    BY <1>4 DEF Masked
  <2> HIDE DEF set, taken, lost
  <2> QED
    BY <1>1, <1>2, <1>5, <2>1
<1> QED
  BY <1>3, <1>4

\* A sensor that goes off asks for nothing; nothing else changes.
LEMMA RequestsAre ==
  ASSUME NEW s \in MotoType, NEW h \in MotoHandles, NEW en \in BOOLEAN
  PROVE  LET t == Requests(s, h, en)
         IN  /\ t \in MotoType /\ SameMasks(s, t) /\ t.mEnabledHandles = s.mEnabledHandles
             /\ t.mEcompassDelay = s.mEcompassDelay /\ t.mGyroDelay = s.mGyroDelay
             /\ \A g \in MagRate \cup GyroRate : g # h => t.req[g] = s.req[g]
<1>1. CASE h \in DOMAIN s.req /\ ~en
  <2> DEFINE req == [s.req EXCEPT ![h] = MOTO_USHRT_MAX]
  <2>1. /\ req \in [MagRate \cup GyroRate -> Nat]
        /\ \A g \in MagRate \cup GyroRate : g # h => req[g] = s.req[g]
    <3>1. s.req \in [MagRate \cup GyroRate -> Nat] /\ MOTO_USHRT_MAX \in Nat
      BY DEF MotoType, MOTO_USHRT_MAX
    <3> QED
      BY <3>1
  <2>2. Requests(s, h, en) = [s EXCEPT !.req = req]
    BY <1>1 DEF Requests
  <2> HIDE DEF req
  <2> QED
    BY <2>1, <2>2 DEF MotoType, SameMasks
<1>2. CASE ~(h \in DOMAIN s.req /\ ~en)
  <2>1. Requests(s, h, en) = s
    BY <1>2 DEF Requests
  <2> QED
    BY <2>1 DEF SameMasks
<1> QED
  BY <1>1, <1>2

LEMMA OnWithIs ==
  ASSUME NEW s \in MotoType, NEW h \in MotoHandles, NEW en \in BOOLEAN
  PROVE  /\ OnWith(s, h, en) \in SUBSET MotoHandles
         /\ \A g : g # h => (g \in OnWith(s, h, en) <=> g \in s.mEnabledHandles)
         /\ h \in OnWith(s, h, en) <=> en
  BY DEF MotoType, OnWith, Toggle

\* The masks a call computes have bits that exist.
LEMMA MasksTyped ==
  ASSUME NEW s \in MotoType, NEW h, NEW en \in BOOLEAN
  PROVE  /\ h \in MotoStreams => StreamMask(s, h, en) \in SUBSET StreamBits
         /\ h \in MotoWake => WakeMask(s, h, en) \in SUBSET WakeBits
<1>1. s.mEnabled \in SUBSET StreamBits /\ s.mWakeEnabled \in SUBSET WakeBits
  BY DEF MotoType
<1>2. /\ "M_ECOMPASS" \in StreamBits /\ MotoStreams \subseteq StreamBits
      /\ "M_GLANCE" \in WakeBits /\ MotoWake \subseteq WakeBits
  BY DEF StreamBits, WakeBits
<1>3. "ID_MOTION_DETECT" \in MotoWake
  BY DEF MotoWake, MotoOneShots
<1>4. ASSUME NEW bit \in StreamBits, NEW mask \in SUBSET StreamBits, NEW on
      PROVE  Toggle(mask, bit, on) \in SUBSET StreamBits
  BY DEF Toggle
<1>5. ASSUME NEW bit \in WakeBits, NEW mask \in SUBSET WakeBits, NEW on
      PROVE  Toggle(mask, bit, on) \in SUBSET WakeBits
  BY DEF Toggle
<1>6. h \in MotoStreams => StreamMask(s, h, en) \in SUBSET StreamBits
  BY <1>1, <1>2, <1>4 DEF StreamMask
<1>7. h \in MotoWake => WakeMask(s, h, en) \in SUBSET WakeBits
  <2> DEFINE shared == IF h \in MotoGlances /\ ~\E g \in MotoGlances \ {h} : isHandleEnabled(s, g)
                       THEN Toggle(s.mWakeEnabled, "M_GLANCE", en) ELSE s.mWakeEnabled
  <2>1. shared \in SUBSET WakeBits
    BY <1>1, <1>2, <1>5
  <2>2. WakeMask(s, h, en) = CASE h = "ID_GLANCE_GESTURE" -> shared
        [] h = "ID_MOTO_GLANCE_GESTURE" -> Toggle(shared, "ID_MOTION_DETECT", en)
        [] OTHER -> Toggle(s.mWakeEnabled, h, en)
    BY DEF WakeMask
  <2> HIDE DEF shared
  <2>3. CASE h = "ID_GLANCE_GESTURE"
    BY <2>1, <2>2, <2>3
  <2>4. CASE h = "ID_MOTO_GLANCE_GESTURE"
    <3>1. WakeMask(s, h, en) = Toggle(shared, "ID_MOTION_DETECT", en)
      BY <2>2, <2>4
    <3> QED
      BY <1>2, <1>3, <1>5, <2>1, <3>1
  <2>5. CASE h # "ID_GLANCE_GESTURE" /\ h # "ID_MOTO_GLANCE_GESTURE"
    <3>1. WakeMask(s, h, en) = Toggle(s.mWakeEnabled, h, en)
      BY <2>2, <2>5
    <3> QED
      BY <1>1, <1>2, <1>5, <3>1
  <2> QED
    BY <2>3, <2>4, <2>5
<1> QED
  BY <1>6, <1>7

\* What a call leaves: handles, masks and rates as they should be.
LeftBehind(s, h, en, t) ==
  /\ t.mEnabledHandles = OnWith(s, h, en)
  /\ t.mEnabled = IF h \in MotoStreams THEN StreamMask(s, h, en) ELSE s.mEnabled
  /\ t.mWakeEnabled = IF h \in MotoWake THEN WakeMask(s, h, en) ELSE s.mWakeEnabled

LEMMA AfterEnableIs ==
  ASSUME NEW s0 \in MotoType, NEW d0 \in DrvType, Believed(s0, d0), Shortest(s0),
         NEW h \in MotoHandles, NEW en \in BOOLEAN, NEW r \in AfterEnable(s0, d0, h, en)
  PROVE  /\ r[1] \in MotoType /\ r[2] \in DrvType /\ Believed(r[1], r[2]) /\ Shortest(r[1])
         /\ LeftBehind(s0, h, en, r[1])
<1> DEFINE s  == Requests(s0, h, en)
           on == OnWith(s0, h, en)
<1>1. /\ s \in MotoType /\ SameMasks(s0, s) /\ s.mEnabledHandles = s0.mEnabledHandles
      /\ s.mEcompassDelay = s0.mEcompassDelay /\ s.mGyroDelay = s0.mGyroDelay
      /\ \A g \in MagRate \cup GyroRate : g # h => s.req[g] = s0.req[g]
  BY RequestsAre
<1>2. /\ on \in SUBSET MotoHandles
      /\ \A g : g # h => (g \in on <=> g \in s0.mEnabledHandles)
  BY OnWithIs
<1>3. /\ OnWith(s, h, en) = on /\ StreamMask(s, h, en) = StreamMask(s0, h, en)
      /\ WakeMask(s, h, en) = WakeMask(s0, h, en)
  BY <1>1 DEF OnWith, SameMasks, StreamMask, WakeMask, isHandleEnabled
<1> HIDE DEF s, on
<1>4. PICK a \in RatesOf(s, d0, h, on) :
        \E b \in IF h \in MotoStreams
                 THEN Masked(a[1], a[2], "mEnabled", "sensors", StreamMask(s0, h, en)) ELSE {a} :
        \E c \in IF h \in MotoWake
                 THEN Masked(b[1], b[2], "mWakeEnabled", "wake", WakeMask(s0, h, en)) ELSE {b} :
          r = <<[c[1] EXCEPT !.mEnabledHandles = on], c[2]>>
  BY <1>3 DEF AfterEnable, s
<1>5. PICK b \in IF h \in MotoStreams
                 THEN Masked(a[1], a[2], "mEnabled", "sensors", StreamMask(s0, h, en)) ELSE {a} :
        \E c \in IF h \in MotoWake
                 THEN Masked(b[1], b[2], "mWakeEnabled", "wake", WakeMask(s0, h, en)) ELSE {b} :
          r = <<[c[1] EXCEPT !.mEnabledHandles = on], c[2]>>
  BY <1>4
<1>6. PICK c \in IF h \in MotoWake
                 THEN Masked(b[1], b[2], "mWakeEnabled", "wake", WakeMask(s0, h, en)) ELSE {b} :
          r = <<[c[1] EXCEPT !.mEnabledHandles = on], c[2]>>
  BY <1>5
<1>7. /\ a[1] \in MotoType /\ a[2] \in DrvType /\ Believed(a[1], a[2]) /\ SameMasks(s0, a[1])
      /\ a[1].mEcompassDelay = minReqDelay(s, MagRate, on)
      /\ a[1].mGyroDelay = minReqDelay(s, GyroRate, on)
      /\ a[1].req = s.req
  BY <1>1, <1>2, RatesFollow
<1>8. /\ b[1] \in MotoType /\ b[2] \in DrvType /\ Believed(b[1], b[2])
      /\ b[1].mEnabled = IF h \in MotoStreams THEN StreamMask(s0, h, en) ELSE s0.mEnabled
      /\ b[1].mWakeEnabled = s0.mWakeEnabled /\ SameRates(a[1], b[1])
  BY <1>5, <1>7, StreamMasked, MasksTyped DEF SameMasks, SameRates
<1>9. /\ c[1] \in MotoType /\ c[2] \in DrvType /\ Believed(c[1], c[2])
      /\ c[1].mEnabled = b[1].mEnabled
      /\ c[1].mWakeEnabled = IF h \in MotoWake THEN WakeMask(s0, h, en) ELSE s0.mWakeEnabled
      /\ SameRates(b[1], c[1])
  BY <1>6, <1>8, WakeMasked, MasksTyped DEF SameRates
<1> DEFINE t == [c[1] EXCEPT !.mEnabledHandles = on]
<1>10. /\ t \in MotoType /\ t.mEnabled = c[1].mEnabled /\ t.mWakeEnabled = c[1].mWakeEnabled
       /\ SameRates(c[1], t) /\ t.mEnabledHandles = on
  BY <1>2, <1>9 DEF MotoType, SameRates
<1>11. r[1] = t /\ r[2] = c[2]
  BY <1>6
<1> HIDE DEF t
<1>12. LeftBehind(s0, h, en, t)
  BY <1>8, <1>9, <1>10 DEF LeftBehind, on
<1>13. Shortest(t) /\ Believed(t, c[2])
  <2>1. t.req = s.req /\ t.mEcompassDelay = a[1].mEcompassDelay /\ t.mGyroDelay = a[1].mGyroDelay
    BY <1>7, <1>8, <1>9, <1>10 DEF SameRates
  <2>2. /\ minReqDelay(t, MagRate, on) = minReqDelay(s, MagRate, on)
        /\ minReqDelay(t, GyroRate, on) = minReqDelay(s, GyroRate, on)
    BY <2>1 DEF minReqDelay
  <2> QED
    BY <1>7, <1>9, <1>10, <2>1, <2>2 DEF Shortest, Believed, SameRates
<1> QED
  BY <1>9, <1>10, <1>11, <1>12, <1>13

\* The masks and the handles of s agree on the handles in sw (see MasksFollowHandles).
Follows(s, sw) ==
  /\ s.mEnabledHandles \subseteq sw
  /\ \A h \in sw \cap (MotoStreams \ Compasses) : h \in s.mEnabled <=> h \in s.mEnabledHandles
  /\ sw \cap MagRate # {} =>
       ("M_ECOMPASS" \in s.mEnabled <=> Compasses \cap s.mEnabledHandles # {})
  /\ sw \cap MotoGlances # {} =>
       ("M_GLANCE" \in s.mWakeEnabled <=> MotoGlances \cap s.mEnabledHandles # {})
  /\ \A h \in sw \cap (MotoWake \ MotoGlances) :
       h # "ID_MOTION_DETECT" \/ "ID_MOTO_GLANCE_GESTURE" \notin sw =>
         (h \in s.mWakeEnabled <=> h \in s.mEnabledHandles)

\* A bit that handles share is not the bit of a handle.
LEMMA SharedBits ==
  /\ "M_ECOMPASS" \notin MotoStreams /\ "M_GLANCE" \notin MotoWake
  /\ Compasses \subseteq MagRate /\ MagRate \subseteq MotoStreams /\ MotoGlances \subseteq MotoWake
  /\ "ID_MOTION_DETECT" \notin MotoGlances
  BY DEF MotoStreams, MotoWake, MagRate, GyroRate, Compasses, MotoGlances, MotoOneShots

LEMMA StreamsKept ==
  ASSUME NEW s \in MotoType, NEW h \in MotoHandles, NEW en \in BOOLEAN, NEW t, NEW sw,
         Follows(s, sw), LeftBehind(s, h, en, t)
  PROVE  /\ \A g \in (sw \cup {h}) \cap (MotoStreams \ Compasses) :
              g \in t.mEnabled <=> g \in t.mEnabledHandles
         /\ (sw \cup {h}) \cap MagRate # {} =>
              ("M_ECOMPASS" \in t.mEnabled <=> Compasses \cap t.mEnabledHandles # {})
<1>1. /\ t.mEnabledHandles = OnWith(s, h, en)
      /\ \A g : g # h => (g \in t.mEnabledHandles <=> g \in s.mEnabledHandles)
      /\ h \in t.mEnabledHandles <=> en
  BY OnWithIs DEF LeftBehind
<1> DEFINE own  == IF h \in Compasses THEN s.mEnabled ELSE Toggle(s.mEnabled, h, en)
           some == Compasses \cap t.mEnabledHandles # {}
<1>2. /\ h \notin MotoStreams => t.mEnabled = s.mEnabled
      /\ h \in MagRate => t.mEnabled = Toggle(own, "M_ECOMPASS", some)
      /\ h \in MotoStreams \ MagRate => t.mEnabled = own
  <2>1. h \notin MotoStreams => t.mEnabled = s.mEnabled
    BY DEF LeftBehind
  <2>2. h \in MotoStreams => t.mEnabled = StreamMask(s, h, en)
    BY DEF LeftBehind
  <2>3. h \in MagRate => StreamMask(s, h, en) = Toggle(own, "M_ECOMPASS", some)
    BY <1>1 DEF StreamMask
  <2>4. h \notin MagRate => StreamMask(s, h, en) = own
    BY DEF StreamMask
  <2> QED
    BY <2>1, <2>2, <2>3, <2>4, SharedBits
<1>3. /\ \A g : g # h => (g \in own <=> g \in s.mEnabled)
      /\ h \notin Compasses => (h \in own <=> en)
  BY DEF Toggle
<1>4. /\ \A g : g # "M_ECOMPASS" => (g \in Toggle(own, "M_ECOMPASS", some) <=> g \in own)
      /\ "M_ECOMPASS" \in Toggle(own, "M_ECOMPASS", some) <=> some
  BY DEF Toggle
<1> HIDE DEF own, some
<1>5. ASSUME NEW g \in (sw \cup {h}) \cap (MotoStreams \ Compasses)
      PROVE  g \in t.mEnabled <=> g \in t.mEnabledHandles
  <2>1. g # "M_ECOMPASS"
    BY SharedBits
  <2>2. g # h => (g \in s.mEnabled <=> g \in s.mEnabledHandles)
    BY DEF Follows
  <2>3. h \in MotoStreams => (g \in t.mEnabled <=> g \in own)
    BY <1>2, <1>4, <2>1
  <2> QED
    BY <1>1, <1>2, <1>3, <2>2, <2>3
<1>6. ASSUME (sw \cup {h}) \cap MagRate # {}
      PROVE  "M_ECOMPASS" \in t.mEnabled <=> some
  <2>1. CASE h \in MagRate
    BY <1>2, <1>4, <2>1
  <2>2. CASE h \notin MagRate
    <3>1. Compasses \cap t.mEnabledHandles = Compasses \cap s.mEnabledHandles
      BY <1>1, <2>2, SharedBits
    <3>2. "M_ECOMPASS" \in s.mEnabled <=> Compasses \cap s.mEnabledHandles # {}
      BY <1>6, <2>2 DEF Follows
    <3>3. "M_ECOMPASS" \in t.mEnabled <=> "M_ECOMPASS" \in s.mEnabled
      BY <1>2, <1>3, <2>2, SharedBits
    <3> QED
      BY <3>1, <3>2, <3>3 DEF some
  <2> QED
    BY <2>1, <2>2
<1> QED
  BY <1>5, <1>6 DEF some

LEMMA WakesKept ==
  ASSUME NEW s \in MotoType, NEW h \in MotoHandles, NEW en \in BOOLEAN, NEW t, NEW sw,
         Follows(s, sw), LeftBehind(s, h, en, t)
  PROVE  /\ (sw \cup {h}) \cap MotoGlances # {} =>
              ("M_GLANCE" \in t.mWakeEnabled <=> MotoGlances \cap t.mEnabledHandles # {})
         /\ \A g \in (sw \cup {h}) \cap (MotoWake \ MotoGlances) :
              g # "ID_MOTION_DETECT" \/ "ID_MOTO_GLANCE_GESTURE" \notin (sw \cup {h}) =>
                (g \in t.mWakeEnabled <=> g \in t.mEnabledHandles)
<1>1. /\ \A g : g # h => (g \in t.mEnabledHandles <=> g \in s.mEnabledHandles)
      /\ h \in t.mEnabledHandles <=> en
  BY OnWithIs DEF LeftBehind
<1> DEFINE other  == \E g \in MotoGlances \ {h} : isHandleEnabled(s, g)
           shared == IF h \in MotoGlances /\ ~other
                     THEN Toggle(s.mWakeEnabled, "M_GLANCE", en) ELSE s.mWakeEnabled
<1>2. MotoGlances = {"ID_GLANCE_GESTURE", "ID_MOTO_GLANCE_GESTURE"}
  BY DEF MotoGlances
<1>3. /\ h \notin MotoWake => t.mWakeEnabled = s.mWakeEnabled
      /\ h = "ID_GLANCE_GESTURE" => t.mWakeEnabled = shared
      /\ h = "ID_MOTO_GLANCE_GESTURE" =>
           t.mWakeEnabled = Toggle(shared, "ID_MOTION_DETECT", en)
      /\ h \in MotoWake \ MotoGlances => t.mWakeEnabled = Toggle(s.mWakeEnabled, h, en)
  <2>1. WakeMask(s, h, en) = CASE h = "ID_GLANCE_GESTURE" -> shared
        [] h = "ID_MOTO_GLANCE_GESTURE" -> Toggle(shared, "ID_MOTION_DETECT", en)
        [] OTHER -> Toggle(s.mWakeEnabled, h, en)
    BY DEF WakeMask
  <2> HIDE DEF shared
  <2>2. t.mWakeEnabled = IF h \in MotoWake THEN WakeMask(s, h, en) ELSE s.mWakeEnabled
    BY DEF LeftBehind
  <2>3. h = "ID_GLANCE_GESTURE" => WakeMask(s, h, en) = shared
    BY <2>1
  <2>4. h = "ID_MOTO_GLANCE_GESTURE" =>
          WakeMask(s, h, en) = Toggle(shared, "ID_MOTION_DETECT", en)
    BY <2>1
  <2>5. h \notin MotoGlances => WakeMask(s, h, en) = Toggle(s.mWakeEnabled, h, en)
    BY <1>2, <2>1
  <2> QED
    BY <1>2, <2>2, <2>3, <2>4, <2>5, SharedBits
<1>4. /\ \A g : g # "M_GLANCE" => (g \in shared <=> g \in s.mWakeEnabled)
      /\ h \in MotoGlances /\ ~other => ("M_GLANCE" \in shared <=> en)
      /\ ~(h \in MotoGlances /\ ~other) => shared = s.mWakeEnabled
  BY DEF Toggle
<1>5. /\ \A g, mask : g # "ID_MOTION_DETECT" =>
              (g \in Toggle(mask, "ID_MOTION_DETECT", en) <=> g \in mask)
      /\ \A g, mask : g # h => (g \in Toggle(mask, h, en) <=> g \in mask)
      /\ \A mask : h \in Toggle(mask, h, en) <=> en
  BY DEF Toggle
<1>6. other <=> (MotoGlances \ {h}) \cap s.mEnabledHandles # {}
  BY DEF isHandleEnabled
<1> HIDE DEF shared, other
<1>7. ASSUME (sw \cup {h}) \cap MotoGlances # {}
      PROVE  "M_GLANCE" \in t.mWakeEnabled <=> MotoGlances \cap t.mEnabledHandles # {}
  <2>1. CASE h \in MotoGlances /\ ~other
    <3>1. MotoGlances \cap t.mEnabledHandles # {} <=> en
      BY <1>1, <1>6, <2>1
    <3>2. "M_GLANCE" \in t.mWakeEnabled <=> "M_GLANCE" \in shared
      BY <1>2, <1>3, <1>5, <2>1
    <3> QED
      BY <1>4, <2>1, <3>1, <3>2
  <2>2. CASE h \in MotoGlances /\ other
    <3>1. MotoGlances \cap t.mEnabledHandles # {}
      BY <1>1, <1>6, <2>2
    <3>2. MotoGlances \cap s.mEnabledHandles # {} /\ sw \cap MotoGlances # {}
      BY <1>6, <2>2 DEF Follows
    <3>3. "M_GLANCE" \in t.mWakeEnabled <=> "M_GLANCE" \in s.mWakeEnabled
      BY <1>2, <1>3, <1>4, <1>5, <2>2
    <3> QED
      BY <3>1, <3>2, <3>3 DEF Follows
  <2>3. CASE h \notin MotoGlances
    <3>1. MotoGlances \cap t.mEnabledHandles = MotoGlances \cap s.mEnabledHandles
      BY <1>1, <2>3
    <3>2. "M_GLANCE" \in t.mWakeEnabled <=> "M_GLANCE" \in s.mWakeEnabled
      BY <1>3, <1>5, <2>3, SharedBits
    <3> QED
      BY <1>7, <2>3, <3>1, <3>2 DEF Follows
  <2> QED
    BY <2>1, <2>2, <2>3
<1>8. ASSUME NEW g \in (sw \cup {h}) \cap (MotoWake \ MotoGlances),
             g # "ID_MOTION_DETECT" \/ "ID_MOTO_GLANCE_GESTURE" \notin (sw \cup {h})
      PROVE  g \in t.mWakeEnabled <=> g \in t.mEnabledHandles
  <2>1. g # "M_GLANCE"
    BY SharedBits
  <2>2. g # h => (g \in s.mWakeEnabled <=> g \in s.mEnabledHandles)
    BY <1>8 DEF Follows
  <2>3. CASE g = h
    BY <1>1, <1>3, <1>5, <2>3
  <2>4. CASE g # h
    <3>1. g \in t.mWakeEnabled <=> g \in s.mWakeEnabled
      <4>1. CASE h \notin MotoWake
        BY <1>3, <4>1
      <4>2. CASE h = "ID_GLANCE_GESTURE"
        BY <1>3, <1>4, <2>1, <4>2
      <4>3. CASE h = "ID_MOTO_GLANCE_GESTURE"
        <5>1. g # "ID_MOTION_DETECT"
          BY <1>8, <4>3
        <5> QED
          BY <1>3, <1>4, <1>5, <2>1, <4>3, <5>1
      <4>4. CASE h \in MotoWake \ MotoGlances
        BY <1>3, <1>5, <2>4, <4>4
      <4> QED
        BY <1>2, <4>1, <4>2, <4>3, <4>4
    <3> QED
      BY <1>1, <2>2, <2>4, <3>1
  <2> QED
    BY <2>3, <2>4
<1> QED
  BY <1>7, <1>8

\* However a handle is switched, the masks follow the handles switched so far.
LEMMA SwitchFollows ==
  ASSUME NEW s \in MotoType, NEW h \in MotoHandles, NEW en \in BOOLEAN, NEW t, NEW sw,
         Follows(s, sw), LeftBehind(s, h, en, t)
  PROVE  Follows(t, sw \cup {h})
<1>1. t.mEnabledHandles \subseteq sw \cup {h}
  BY OnWithIs DEF LeftBehind, Follows
<1> QED
  BY <1>1, StreamsKept, WakesKept DEF Follows
-------------------------------------------------------------------------------
(* The inductive invariant of the HAL.                                     *)

\* The HAL in state s, over a driver in state d, that switched the handles in sw.
HubKept(s, d, sw) ==
  /\ s \in MotoType /\ d \in DrvType
  /\ Believed(s, d) /\ Shortest(s) /\ Follows(s, sw)

HubInv == /\ HubKept(moto, drv, switched)
          /\ errors \in [cnt : 0 .. ErrorMax, filed : BOOLEAN]

\* The glances in hand and those pending are the ones owed; while the buffer has
\* room nothing is pending.
GlancesInv ==
  /\ reading \in [on : BOOLEAN, data : Nat, glances : Seq(MotoGlances), room : Nat]
  /\ pendingEvents \in Seq(MotoGlances)
  /\ owed = reading.glances \o pendingEvents
  /\ Len(reading.glances) <= reading.data /\ reading.data <= reading.room
  /\ ~reading.on => reading = NotReading
  /\ reading.on /\ reading.data < reading.room => pendingEvents = <<>>

MInv == HubInv /\ GlancesInv

\* A call of setEnable, by the framework or by a report, keeps what the HAL is.
LEMMA CallKeeps ==
  ASSUME NEW s, NEW d, NEW sw, HubKept(s, d, sw), NEW h \in MotoHandles, NEW en \in BOOLEAN,
         NEW r \in AfterEnable(s, d, h, en)
  PROVE  HubKept(r[1], r[2], sw \cup {h})
<1>1. /\ r[1] \in MotoType /\ r[2] \in DrvType /\ Believed(r[1], r[2]) /\ Shortest(r[1])
      /\ LeftBehind(s, h, en, r[1])
  BY AfterEnableIs DEF HubKept
<1>2. Follows(r[1], sw \cup {h})
  BY <1>1, SwitchFollows DEF HubKept
<1> QED
  BY <1>1, <1>2 DEF HubKept

\* A glance that turns itself off was switched before.
LEMMA GlanceOffKeeps ==
  ASSUME NEW s, NEW d, NEW sw, HubKept(s, d, sw), NEW h, NEW r \in GlanceOff(s, d, h)
  PROVE  HubKept(r[1], r[2], sw)
<1>1. CASE isHandleEnabled(s, h)
  <2>1. h \in MotoHandles /\ sw \cup {h} = sw
    BY <1>1 DEF isHandleEnabled, HubKept, MotoType, Follows
  <2>2. r \in AfterEnable(s, d, h, FALSE)
    BY <1>1 DEF GlanceOff
  <2>3. HubKept(r[1], r[2], sw \cup {h})
    BY <2>1, <2>2, CallKeeps
  <2> QED
    BY <2>1, <2>3
<1>2. CASE ~isHandleEnabled(s, h)
  BY <1>2 DEF GlanceOff
<1> QED
  BY <1>1, <1>2

LEMMA SetEnableKeeps ==
  ASSUME MInv, NEW h \in MotoHandles, NEW en \in BOOLEAN, setEnable(h, en)
  PROVE  MInv'
<1>1. PICK r \in AfterEnable(moto, drv, h, en) : moto' = r[1] /\ drv' = r[2]
  BY DEF setEnable
<1>2. HubKept(moto', drv', switched')
  BY <1>1, CallKeeps DEF MInv, HubInv, setEnable
<1>3. errors' = errors
  BY DEF MInv, HubInv, setEnable
<1> QED
  BY <1>2, <1>3 DEF MInv, HubInv, GlancesInv, setEnable

LEMMA BatchKeeps ==
  ASSUME MInv, NEW h \in MotoHandles, NEW ms \in MotoDelays, batch(h, ms)
  PROVE  MInv'
<1> DEFINE s  == IF h \in DOMAIN moto.req THEN [moto EXCEPT !.req[h] = ToShort(ms)] ELSE moto
           on == moto.mEnabledHandles
<1>1. /\ moto \in MotoType /\ drv \in DrvType /\ Believed(moto, drv) /\ Shortest(moto)
      /\ Follows(moto, switched) /\ DOMAIN moto.req = MagRate \cup GyroRate
  BY DEF MInv, HubInv, HubKept, MotoType
<1>2. /\ s \in MotoType /\ SameMasks(moto, s) /\ s.mEnabledHandles = on
      /\ s.mEcompassDelay = moto.mEcompassDelay /\ s.mGyroDelay = moto.mGyroDelay
      /\ \A g \in MagRate \cup GyroRate : g # h => s.req[g] = moto.req[g]
      /\ h \notin MagRate \cup GyroRate => s = moto
  <2>1. CASE h \in DOMAIN moto.req
    <3> DEFINE req == [moto.req EXCEPT ![h] = ToShort(ms)]
    <3>1. ToShort(ms) \in Nat
      BY MotoAssumption DEF ToShort, MOTO_USHRT_MAX
    <3>2. /\ req \in [MagRate \cup GyroRate -> Nat]
          /\ \A g \in MagRate \cup GyroRate : g # h => req[g] = moto.req[g]
      <4>1. moto.req \in [MagRate \cup GyroRate -> Nat]
        BY <1>1 DEF MotoType
      <4> QED
        BY <3>1, <4>1
    <3>3. s = [moto EXCEPT !.req = req]
      BY <2>1
    <3> HIDE DEF req, s
    <3> QED
      BY <1>1, <2>1, <3>2, <3>3 DEF MotoType, SameMasks
  <2>2. CASE h \notin DOMAIN moto.req
    BY <1>1, <2>2 DEF SameMasks
  <2> QED
    BY <2>1, <2>2
<1>3. \E r \in RatesOf(s, drv, h, on) : moto' = r[1] /\ drv' = r[2]
  BY DEF batch
<1> HIDE DEF s
<1>4. PICK r \in RatesOf(s, drv, h, on) : moto' = r[1] /\ drv' = r[2]
  BY <1>3
<1>5. /\ moto' \in MotoType /\ drv' \in DrvType /\ Believed(moto', drv') /\ SameMasks(moto, moto')
      /\ moto'.mEcompassDelay = minReqDelay(s, MagRate, on)
      /\ moto'.mGyroDelay = minReqDelay(s, GyroRate, on)
      /\ moto'.req = s.req /\ moto'.mEnabledHandles = on
  BY <1>1, <1>2, <1>4, RatesFollow
<1>6. Shortest(moto')
  BY <1>5 DEF Shortest, minReqDelay
<1>7. switched' = switched /\ Follows(moto', switched)
  BY <1>1, <1>5 DEF Follows, SameMasks, batch
<1>8. errors' = errors /\ UNCHANGED <<reading, pendingEvents, owed>>
  BY DEF batch
<1> QED
  BY <1>5, <1>6, <1>7, <1>8 DEF MInv, HubInv, HubKept, GlancesInv

\* The constructor: masks of the driver, and no requests.
LEMMA ConstructedKeeps ==
  ASSUME drv \in DrvType, NEW d \in DrvType, d.sensors = drv.sensors, d.wake = drv.wake,
         NEW got \in SUBSET Masks, d.refused \cap Masks = Masks \ got
  PROVE  HubKept(Constructed(got), d, {})
<1> DEFINE s == Constructed(got)
<1>1. s \in MotoType
  <2> DEFINE sensors == IF "sensors" \in got THEN drv.sensors ELSE {}
             wake == IF "wake" \in got THEN drv.wake ELSE {}
             req == [h \in MagRate \cup GyroRate |-> MOTO_USHRT_MAX]
  <2>1. /\ sensors \in SUBSET StreamBits /\ wake \in SUBSET WakeBits
        /\ MOTO_USHRT_MAX \in Nat
    BY DEF DrvType, MOTO_USHRT_MAX
  <2>2. req \in [MagRate \cup GyroRate -> Nat]
    BY <2>1
  <2>3. s = [mEnabled |-> sensors, mWakeEnabled |-> wake, mEnabledHandles |-> {}, req |-> req,
             mEcompassDelay |-> MOTO_USHRT_MAX, mGyroDelay |-> MOTO_USHRT_MAX]
    BY DEF Constructed
  <2> HIDE DEF sensors, wake, req, s
  <2> QED
    BY <2>1, <2>2, <2>3 DEF MotoType
<1>2. /\ s.mEnabledHandles = {} /\ s.mEcompassDelay = MOTO_USHRT_MAX
      /\ s.mGyroDelay = MOTO_USHRT_MAX
      /\ "sensors" \in got => s.mEnabled = drv.sensors
      /\ "wake" \in got => s.mWakeEnabled = drv.wake
  BY DEF Constructed
<1> HIDE DEF s
<1>3. Shortest(s)
  BY <1>1, <1>2, DelayIsNat DEF Shortest
<1>4. Believed(s, d)
  <2>1. \A w \in Masks : w \notin d.refused => w \in got
    OBVIOUS
  <2> QED
    BY <1>2, <2>1 DEF Believed, Masks
<1>5. Follows(s, {})
  BY <1>2 DEF Follows
<1> QED
  BY <1>1, <1>3, <1>4, <1>5 DEF HubKept, s

\* Nothing is in hand, nothing is pending, nothing is owed.
LEMMA NothingOwed ==
  /\ NotReading \in [on : BOOLEAN, data : Nat, glances : Seq(MotoGlances), room : Nat]
  /\ <<>> \in Seq(MotoGlances) /\ <<>> = NotReading.glances \o <<>>
  /\ Len(NotReading.glances) <= NotReading.data /\ NotReading.data <= NotReading.room
  /\ NotReading.on = FALSE /\ NotReading.glances = <<>>
<1>1. <<>> \in Seq(MotoGlances) /\ Len(<<>>) = 0 /\ <<>> \o <<>> = <<>>
  BY EmptySeq, ConcatEmptySeq
<1> QED
  BY <1>1 DEF NotReading

LEMMA NoErrors == [cnt |-> 0, filed |-> FALSE] \in [cnt : 0 .. ErrorMax, filed : BOOLEAN]
  BY MotoAssumption

LEMMA NewHalKeeps ==
  ASSUME drv \in DrvType, NEW d \in DrvType, d.sensors = drv.sensors, d.wake = drv.wake, NewHal(d)
  PROVE  MInv'
<1>1. PICK got \in SUBSET Masks :
        /\ moto' = Constructed(got)
        /\ drv' = [d EXCEPT !.refused = (@ \ Masks) \cup (Masks \ got)]
  BY DEF NewHal
<1>2. /\ drv' \in DrvType /\ drv'.sensors = drv.sensors /\ drv'.wake = drv.wake
      /\ drv'.refused \cap Masks = Masks \ got
  <2> DEFINE ref == (d.refused \ Masks) \cup (Masks \ got)
  <2>1. ref \in SUBSET (Masks \cup {"mag", "gyro"}) /\ ref \cap Masks = Masks \ got
    BY DEF DrvType
  <2>2. drv' = [d EXCEPT !.refused = ref]
    BY <1>1
  <2> HIDE DEF ref
  <2> QED
    BY <2>1, <2>2 DEF DrvType
<1>3. HubKept(moto', drv', switched')
  BY <1>1, <1>2, ConstructedKeeps DEF NewHal
<1>4. errors' \in [cnt : 0 .. ErrorMax, filed : BOOLEAN]
  BY NoErrors DEF NewHal
<1>5. GlancesInv'
  BY NothingOwed DEF NewHal, GlancesInv
<1> QED
  BY <1>3, <1>4, <1>5 DEF MInv, HubInv

\* A period does not touch the masks.
LEMMA RatesKeepMasks ==
  ASSUME NEW s, NEW d \in DrvType, NEW h, NEW on, NEW r \in RatesOf(s, d, h, on)
  PROVE  r[2].sensors = d.sensors /\ r[2].wake = d.wake
<1>1. ASSUME NEW w \in {"mag", "gyro"}, NEW field, NEW min, r \in Rated(s, d, w, field, min)
      PROVE  r[2].sensors = d.sensors /\ r[2].wake = d.wake
  <2> DEFINE set == [s EXCEPT ![field] = min]
             taken == [d EXCEPT ![w] = min, !.refused = @ \ {w}]
             lost(k) == [d EXCEPT ![w] = k, !.refused = @ \cup {w}]
  <2>1. \/ r = <<set, d>> \/ r = <<s, d>> \/ r = <<set, taken>>
        \/ \E k \in {min, d[w]} : r = <<set, lost(k)>>
    BY <1>1 DEF Rated
  <2>2. taken.sensors = d.sensors /\ taken.wake = d.wake
    BY DEF DrvType
  <2>3. \A k : lost(k).sensors = d.sensors /\ lost(k).wake = d.wake
    BY DEF DrvType
  <2> HIDE DEF set, taken, lost
  <2>4. CASE \E k \in {min, d[w]} : r = <<set, lost(k)>>
    <3>1. PICK k \in {min, d[w]} : r = <<set, lost(k)>>
      BY <2>4
    <3> QED
      BY <2>3, <3>1
  <2> QED
    BY <2>1, <2>2, <2>4
<1> QED
  BY <1>1 DEF RatesOf, updateEcompassRate, updateGyroRate

LEMMA DiesKeeps ==
  ASSUME MInv, NEW h \in MotoHandles, NEW en \in BOOLEAN, DiesRated(h, en)
  PROVE  MInv'
<1> DEFINE s  == Requests(moto, h, en)
           on == OnWith(moto, h, en)
<1>1. /\ moto \in MotoType /\ drv \in DrvType /\ Believed(moto, drv) /\ Shortest(moto)
  BY DEF MInv, HubInv, HubKept
<1>2. /\ s \in MotoType /\ SameMasks(moto, s) /\ s.mEnabledHandles = moto.mEnabledHandles
      /\ s.mEcompassDelay = moto.mEcompassDelay /\ s.mGyroDelay = moto.mGyroDelay
      /\ \A g \in MagRate \cup GyroRate : g # h => s.req[g] = moto.req[g]
  BY <1>1, RequestsAre
<1>3. \A g : g # h => (g \in on <=> g \in moto.mEnabledHandles)
  BY <1>1, OnWithIs
<1>4. PICK r \in RatesOf(s, drv, h, on) : NewHal(r[2])
  BY DEF DiesRated
<1> HIDE DEF s, on
<1>5. r[2] \in DrvType
  BY <1>1, <1>2, <1>3, RatesFollow
<1>6. r[2].sensors = drv.sensors /\ r[2].wake = drv.wake
  BY <1>1, RatesKeepMasks
<1> QED
  BY <1>1, <1>4, <1>5, <1>6, NewHalKeeps

-------------------------------------------------------------------------------
(* Reading.                                                                *)

\* The smaller of two numbers.
LEMMA SmallerOfTwo ==
  ASSUME NEW m \in Nat, NEW n \in Nat
  PROVE  Min({m, n}) \in {m, n} /\ Min({m, n}) <= m /\ Min({m, n}) <= n
<1>1. {m, n} \in SUBSET Nat /\ {m, n} # {}
  OBVIOUS
<1> QED
  BY <1>1, MinIsLeast

\* A sequence cut in two.
LEMMA CutInTwo ==
  ASSUME NEW S, NEW s \in Seq(S), NEW k \in Nat, k <= Len(s)
  PROVE  /\ SubSeq(s, 1, k) \in Seq(S) /\ SubSeq(s, k + 1, Len(s)) \in Seq(S)
         /\ SubSeq(s, 1, k) \o SubSeq(s, k + 1, Len(s)) = s
         /\ Len(SubSeq(s, 1, k)) = k
         /\ k = Len(s) => SubSeq(s, k + 1, Len(s)) = <<>>
<1>1. Len(s) \in Nat /\ \A i \in 1 .. Len(s) : s[i] \in S
  BY LenProperties
<1>2. SubSeq(s, 1, k) \in Seq(S) /\ Len(SubSeq(s, 1, k)) = k
  BY <1>1, SubSeqProperties
<1>3. SubSeq(s, k + 1, Len(s)) \in Seq(S)
  BY <1>1, SubSeqProperties
<1>4. SubSeq(s, 1, k) \o SubSeq(s, k + 1, Len(s)) = s
  <2>1. 1 \in 1 .. Len(s) + 1 /\ k \in 1 - 1 .. Len(s) /\ Len(s) \in k .. Len(s)
    BY <1>1
  <2>2. SubSeq(s, 1, k) \o SubSeq(s, k + 1, Len(s)) = SubSeq(s, 1, Len(s))
    BY <2>1, ConcatAdjacentSubSeq
  <2> QED
    BY <2>2, SubSeqFull
<1>5. k = Len(s) => SubSeq(s, k + 1, Len(s)) = <<>>
  BY <1>1, SubSeqEmpty
<1> QED
  BY <1>2, <1>3, <1>4, <1>5

LEMMA BeginKeeps == MInv /\ PollBegin => MInv'
<1> SUFFICES ASSUME MInv, PollBegin PROVE MInv'
  OBVIOUS
<1>1. PICK n \in MotoCounts : hasPendingEvents(n)
  BY DEF PollBegin
<1> DEFINE k == Min({n, Len(pendingEvents)})
<1>2. /\ pendingEvents \in Seq(MotoGlances) /\ Len(pendingEvents) \in Nat /\ n \in Nat
      /\ owed = reading.glances \o pendingEvents /\ reading.glances = <<>>
  BY NothingOwed, LenProperties, MotoAssumption DEF MInv, GlancesInv, PollBegin
<1>3. k \in Nat /\ k <= n /\ k <= Len(pendingEvents) /\ (k < n => k = Len(pendingEvents))
  BY <1>2, SmallerOfTwo
<1>4. /\ reading' = [on |-> TRUE, data |-> k, glances |-> SubSeq(pendingEvents, 1, k), room |-> n]
      /\ pendingEvents' = SubSeq(pendingEvents, k + 1, Len(pendingEvents))
      /\ owed' = owed
  BY <1>1 DEF hasPendingEvents, PollBegin
<1> HIDE DEF k
<1>5. /\ SubSeq(pendingEvents, 1, k) \in Seq(MotoGlances) /\ pendingEvents' \in Seq(MotoGlances)
      /\ SubSeq(pendingEvents, 1, k) \o pendingEvents' = pendingEvents
      /\ Len(SubSeq(pendingEvents, 1, k)) = k
      /\ k < n => pendingEvents' = <<>>
  BY <1>2, <1>3, <1>4, CutInTwo
<1>6. owed = pendingEvents
  BY <1>2, ConcatEmptySeq
<1>7. GlancesInv'
  <2> DEFINE now == SubSeq(pendingEvents, 1, k)
  <2>1. now \in Seq(MotoGlances) /\ Len(now) = k /\ owed' = now \o pendingEvents'
    BY <1>4, <1>5, <1>6
  <2>2. reading' = [on |-> TRUE, data |-> k, glances |-> now, room |-> n]
    BY <1>4
  <2> HIDE DEF now
  <2>3. /\ reading' \in [on : BOOLEAN, data : Nat, glances : Seq(MotoGlances), room : Nat]
        /\ reading'.on /\ reading'.data = k /\ reading'.glances = now /\ reading'.room = n
    BY <1>2, <1>3, <2>1, <2>2
  <2> QED
    BY <1>3, <1>5, <2>1, <2>3 DEF GlancesInv
<1> QED
  BY <1>7 DEF MInv, HubInv, PollBegin

LEMMA GlanceOnIs == GlanceOn(moto) \in Seq(MotoGlances)
<1>1. ASSUME NEW h \in MotoGlances
      PROVE  (IF isHandleEnabled(moto, h) THEN <<h>> ELSE <<>>) \in Seq(MotoGlances)
  OBVIOUS
<1>2. "ID_MOTO_GLANCE_GESTURE" \in MotoGlances /\ "ID_GLANCE_GESTURE" \in MotoGlances
  BY DEF MotoGlances
<1> QED
  BY <1>1, <1>2, ConcatProperties DEF GlanceOn

LEMMA GlanceKeeps ==
  ASSUME MInv, reading.on, ~bufferFull(reading.data), ReadGlance
  PROVE  MInv'
<1> DEFINE evs == GlanceOn(moto)
           room == reading.room - reading.data
           fit == Min({Len(evs), room})
<1>1. HubInv'
  <2>1. PICK r \in GlancesOff(moto, drv) : moto' = r[1] /\ drv' = r[2]
    BY DEF ReadGlance
  <2>2. PICK a \in GlanceOff(moto, drv, "ID_MOTO_GLANCE_GESTURE") :
          r \in GlanceOff(a[1], a[2], "ID_GLANCE_GESTURE")
    BY <2>1 DEF GlancesOff
  <2>3. HubKept(a[1], a[2], switched)
    BY <2>2, GlanceOffKeeps DEF MInv, HubInv
  <2>4. HubKept(r[1], r[2], switched)
    BY <2>2, <2>3, GlanceOffKeeps
  <2>5. switched' = switched
    BY DEF MInv, HubInv, HubKept, Follows, isHandleEnabled, ReadGlance
  <2> QED
    BY <2>1, <2>4, <2>5 DEF MInv, HubInv, ReadGlance
<1>2. /\ reading \in [on : BOOLEAN, data : Nat, glances : Seq(MotoGlances), room : Nat]
      /\ pendingEvents = <<>> /\ owed = reading.glances \o pendingEvents
      /\ Len(reading.glances) <= reading.data /\ reading.data < reading.room
  BY DEF MInv, GlancesInv, bufferFull
<1>3. evs \in Seq(MotoGlances) /\ Len(evs) \in Nat /\ room \in Nat
  BY <1>2, GlanceOnIs, LenProperties
<1>4. fit \in Nat /\ fit <= Len(evs) /\ fit <= room /\ (fit < room => fit = Len(evs))
  BY <1>3, SmallerOfTwo
<1> DEFINE now  == SubSeq(evs, 1, fit)
           then == SubSeq(evs, fit + 1, Len(evs))
<1>5. /\ reading' = [reading EXCEPT !.data = @ + fit, !.glances = @ \o now]
      /\ pendingEvents' = pendingEvents \o then /\ owed' = owed \o evs
  BY DEF ReadGlance, GlancePut
<1> HIDE DEF fit, evs
<1>6. /\ now \in Seq(MotoGlances) /\ then \in Seq(MotoGlances) /\ now \o then = evs
      /\ Len(now) = fit /\ (fit = Len(evs) => then = <<>>)
  BY <1>3, <1>4, CutInTwo
<1> HIDE DEF now, then
<1> DEFINE had == reading.glances
<1>7. /\ had \in Seq(MotoGlances) /\ Len(had) \in Nat
      /\ had \o now \in Seq(MotoGlances) /\ Len(had \o now) = Len(had) + fit
  BY <1>2, <1>6, ConcatProperties, LenProperties
<1>8. pendingEvents' = then /\ owed = had
  BY <1>2, <1>5, <1>6, <1>7, ConcatEmptySeq
<1>9. owed' = (had \o now) \o then
  <2> HIDE DEF had
  <2>1. \A u, v, w \in Seq(MotoGlances) : (u \o v) \o w = u \o (v \o w)
    BY ConcatAssociative
  <2>2. (had \o now) \o then = had \o (now \o then)
    BY <1>6, <1>7, <2>1
  <2> QED
    BY <1>5, <1>6, <1>8, <2>2
<1>10. /\ reading' \in [on : BOOLEAN, data : Nat, glances : Seq(MotoGlances), room : Nat]
       /\ reading'.on = reading.on /\ reading'.data = reading.data + fit
       /\ reading'.glances = had \o now /\ reading'.room = reading.room
  <2>1. reading.data + fit \in Nat
    BY <1>2, <1>4
  <2> QED
    BY <1>2, <1>5, <1>7, <2>1
<1>11. GlancesInv'
  <2>1. reading'.data <= reading'.room /\ Len(reading'.glances) <= reading'.data
    BY <1>2, <1>4, <1>7, <1>10
  <2>2. reading'.data < reading'.room => pendingEvents' = <<>>
    BY <1>2, <1>4, <1>6, <1>8, <1>10
  <2> QED
    BY <1>6, <1>8, <1>9, <1>10, <2>1, <2>2 DEF GlancesInv
<1> QED
  BY <1>1, <1>11 DEF MInv

LEMMA EventKeeps ==
  ASSUME MInv, reading.on, ~bufferFull(reading.data), NEW t, ReadEvent(t)
  PROVE  MInv'
<1>1. HubInv'
  <2>1. CASE Handle(t) \in MotoOneShots /\ Handle(t) \in MotoHandles
    <3>1. PICK r \in AfterEnable(moto, drv, Handle(t), FALSE) : moto' = r[1] /\ drv' = r[2]
      BY <2>1 DEF ReadEvent
    <3>2. switched' = switched \cup {Handle(t)} /\ UNCHANGED errors
      BY <2>1 DEF ReadEvent
    <3> QED
      BY <2>1, <3>1, <3>2, CallKeeps DEF MInv, HubInv
  <2>2. CASE ~(Handle(t) \in MotoOneShots /\ Handle(t) \in MotoHandles)
    <3>1. UNCHANGED <<moto, drv, switched, errors>>
      BY <2>2 DEF ReadEvent
    <3> QED
      BY <3>1 DEF MInv, HubInv
  <2> QED
    BY <2>1, <2>2
<1>2. /\ reading \in [on : BOOLEAN, data : Nat, glances : Seq(MotoGlances), room : Nat]
      /\ reading.data < reading.room
  BY DEF MInv, GlancesInv, bufferFull
<1>3. /\ reading' = [reading EXCEPT !.data = @ + 1]
      /\ UNCHANGED <<pendingEvents, owed>>
  BY DEF ReadEvent
<1>4. /\ reading' \in [on : BOOLEAN, data : Nat, glances : Seq(MotoGlances), room : Nat]
      /\ reading'.on = reading.on /\ reading'.data = reading.data + 1
      /\ reading'.glances = reading.glances /\ reading'.room = reading.room
  <2>1. reading.data + 1 \in Nat
    BY <1>2
  <2> QED
    BY <1>2, <1>3, <2>1
<1>5. Len(reading.glances) \in Nat
  BY <1>2, LenProperties
<1>6. GlancesInv'
  BY <1>2, <1>3, <1>4, <1>5 DEF MInv, GlancesInv
<1> QED
  BY <1>1, <1>6 DEF MInv

LEMMA InvalidKeeps == MInv /\ ReadInvalid => MInv'
<1> SUFFICES ASSUME MInv, ReadInvalid PROVE MInv'
  OBVIOUS
<1>1. errors \in [cnt : 0 .. ErrorMax, filed : BOOLEAN] /\ ErrorMax \in Nat
  BY MotoAssumption DEF MInv, HubInv
<1>2. errors.cnt + 1 \in Nat
  BY <1>1
<1>3. Min({ErrorMax, errors.cnt + 1}) \in 0 .. ErrorMax
  BY <1>1, <1>2, SmallerOfTwo
<1>4. errors' \in [cnt : 0 .. ErrorMax, filed : BOOLEAN]
  <2> DEFINE n == Min({ErrorMax, errors.cnt + 1})
  <2>1. \/ errors' = [errors EXCEPT !.cnt = n]
        \/ errors' = [cnt |-> 0, filed |-> TRUE]
        \/ errors' = [cnt |-> n, filed |-> TRUE]
    BY DEF ReadInvalid
  <2> HIDE DEF n
  <2>2. n \in 0 .. ErrorMax /\ 0 \in 0 .. ErrorMax
    BY <1>1, <1>3 DEF n
  <2>3. [errors EXCEPT !.cnt = n] \in [cnt : 0 .. ErrorMax, filed : BOOLEAN]
    BY <1>1, <2>2
  <2>4. \A i \in 0 .. ErrorMax : [cnt |-> i, filed |-> TRUE] \in [cnt : 0 .. ErrorMax, filed : BOOLEAN]
    OBVIOUS
  <2> QED
    BY <2>1, <2>2, <2>3, <2>4, Zenon
<1> QED
  BY <1>4 DEF MInv, HubInv, GlancesInv, ReadInvalid

LEMMA ReturnKeeps == MInv /\ PollReturn => MInv'
<1> SUFFICES ASSUME MInv, PollReturn PROVE MInv'
  OBVIOUS
<1> DEFINE had == reading.glances
<1>1. /\ had \in Seq(MotoGlances) /\ pendingEvents \in Seq(MotoGlances)
      /\ owed = had \o pendingEvents
  BY DEF MInv, GlancesInv
<1>2. Len(had) \in Nat /\ Len(pendingEvents) \in Nat
  BY <1>1, LenProperties
<1>3. /\ Len(owed) = Len(had) + Len(pendingEvents) /\ owed \in Seq(MotoGlances)
      /\ \A i \in 1 .. Len(owed) : owed[i] = IF i <= Len(had) THEN had[i]
                                             ELSE pendingEvents[i - Len(had)]
  BY <1>1, <1>2, ConcatProperties
<1> DEFINE rest == SubSeq(owed, Len(had) + 1, Len(owed))
<1>4. rest = pendingEvents
  <2> HIDE DEF had
  <2>1. \A i \in Len(had) + 1 .. Len(owed) : owed[i] \in MotoGlances
    BY <1>2, <1>3, LenProperties
  <2>2. Len(had) + 1 \in Int /\ Len(owed) \in Int
    BY <1>2, <1>3
  <2>3. /\ rest \in Seq(MotoGlances)
        /\ Len(rest) = IF Len(had) + 1 <= Len(owed) THEN Len(owed) - (Len(had) + 1) + 1 ELSE 0
        /\ \A i \in 1 .. Len(owed) - (Len(had) + 1) + 1 :
             rest[i] = owed[Len(had) + 1 + i - 1]
    BY <2>1, <2>2, SubSeqProperties
  <2> HIDE DEF rest
  <2>4. Len(rest) = Len(pendingEvents)
    BY <1>2, <1>3, <2>3
  <2>5. ASSUME NEW i \in 1 .. Len(rest) PROVE rest[i] = pendingEvents[i]
    <3>1. /\ i \in Nat /\ i >= 1 /\ i <= Len(pendingEvents)
      BY <1>2, <2>4
    <3>2. rest[i] = owed[Len(had) + 1 + i - 1] /\ Len(had) + 1 + i - 1 = Len(had) + i
      BY <1>2, <1>3, <2>3, <3>1
    <3>3. PICK j \in 1 .. Len(owed) : /\ j = Len(had) + i /\ ~(j <= Len(had))
                                      /\ j - Len(had) = i
      <4>1. \A h, p \in Nat, k \in Nat : k >= 1 /\ k <= p =>
              h + k \in 1 .. h + p /\ ~(h + k <= h) /\ h + k - h = k
        OBVIOUS
      <4>2. Len(owed) = Len(had) + Len(pendingEvents)
        BY <1>3
      <4> QED
        BY ONLY <1>2, <3>1, <4>1, <4>2
    <3>4. owed[j] = pendingEvents[j - Len(had)]
      BY ONLY <1>3, <3>3
    <3> QED
      BY <3>2, <3>3, <3>4
  <2> QED
    BY <1>1, <2>3, <2>4, <2>5, SeqEqual
<1>5. reading' = NotReading /\ owed' = rest /\ pendingEvents' = pendingEvents
  BY DEF PollReturn
<1>6. owed' = NotReading.glances \o pendingEvents'
  BY <1>1, <1>4, <1>5, NothingOwed, ConcatEmptySeq
<1>7. GlancesInv'
  BY <1>1, <1>5, <1>6, NothingOwed DEF GlancesInv
<1> QED
  BY <1>7 DEF MInv, HubInv, PollReturn

-------------------------------------------------------------------------------
(* The theorems about the HAL.                                             *)

LEMMA MInitInv == MInit => MInv
<1> SUFFICES ASSUME MInit PROVE MInv
  OBVIOUS
<1>1. drv \in DrvType
  BY DEF MInit, DrvType, MOTO_USHRT_MAX
<1>2. HubKept(moto, drv, switched)
  <2>1. moto = Constructed(Masks) /\ switched = {} /\ drv.refused = {}
    BY DEF MInit
  <2> QED
    BY <1>1, <2>1, ConstructedKeeps
<1>3. errors \in [cnt : 0 .. ErrorMax, filed : BOOLEAN]
  BY NoErrors DEF MInit
<1>4. GlancesInv
  BY NothingOwed DEF MInit, GlancesInv
<1> QED
  BY <1>2, <1>3, <1>4 DEF MInv, HubInv

LEMMA MStep == MInv /\ [MNext]_mvars => MInv'
<1> SUFFICES ASSUME MInv, [MNext]_mvars PROVE MInv'
  OBVIOUS
<1>1. UNCHANGED mvars => MInv'
  BY DEF mvars, MInv, HubInv, GlancesInv
<1>2. ASSUME NEW h \in MotoHandles, NEW en \in BOOLEAN, setEnable(h, en) PROVE MInv'
  BY <1>2, SetEnableKeeps
<1>3. ASSUME NEW h \in MotoHandles, NEW ms \in MotoDelays, batch(h, ms) PROVE MInv'
  BY <1>3, BatchKeeps
<1>4. ASSUME NEW h \in MotoHandles, flush(h) PROVE MInv'
  BY <1>1, <1>4 DEF flush
<1>5. CASE PollBegin
  BY <1>5, BeginKeeps
<1>6. CASE ReadReport
  <2>1. PICK t \in MotoReports :
          IF t = "DT_GLANCE" THEN ReadGlance
          ELSE IF t \in InvalidTypes THEN ReadInvalid
          ELSE IF t \in CalTypes THEN UNCHANGED mvars
          ELSE ReadEvent(t)
    BY <1>6 DEF ReadReport
  <2>2. reading.on /\ ~bufferFull(reading.data)
    BY <1>6 DEF ReadReport
  <2> QED
    BY <1>1, <2>1, <2>2, GlanceKeeps, InvalidKeeps, EventKeeps
<1>7. CASE PollReturn
  BY <1>7, ReturnKeeps
<1>8. CASE DayPasses
  <2>1. errors' \in [cnt : 0 .. ErrorMax, filed : BOOLEAN]
    <3>1. errors \in [cnt : 0 .. ErrorMax, filed : BOOLEAN]
      BY DEF MInv, HubInv
    <3> QED
      BY <1>8, <3>1 DEF DayPasses
  <2> QED
    BY <1>8, <2>1 DEF DayPasses, MInv, HubInv, GlancesInv
<1>9. CASE HalRestarts
  BY <1>9, NewHalKeeps DEF HalRestarts, MInv, HubInv, HubKept
<1>10. ASSUME NEW h \in MotoHandles, NEW en \in BOOLEAN, DiesRated(h, en) PROVE MInv'
  BY <1>10, DiesKeeps
<1> QED
  BY <1>1, <1>2, <1>3, <1>4, <1>5, <1>6, <1>7, <1>8, <1>9, <1>10
     DEF MNext, MCalls, MReads, MDies

LEMMA MInvHolds == MSpec => []MInv
  BY MInitInv, MStep, PTL DEF MSpec

\* The masks have bits the driver knows, and only handles of the board are on
\* (HubSensors.cpp: setEnable).
THEOREM MotoTypeCorrect == MSpec => []MTypeOK
<1>1. MInv => MTypeOK
  BY DEF MInv, HubInv, HubKept, MotoType, DrvType, StreamBits, WakeBits, MTypeOK
<1> QED
  BY <1>1, MInvHolds, PTL

\* A bit of a mask follows the handles that use it, own or shared, in whatever order
\* they are switched, by the framework or by the report of a one-shot sensor, and
\* also when the HAL starts with the masks of its predecessor: in the HAL's masks, and
\* in the driver's unless it refused the last one or the HAL could not read it.  The
\* calls do not overlap (HubSensors.cpp: setEnable, readEvents).
THEOREM MotoMasksFollow == MSpec => []MasksFollowHandles
<1>1. MInv => MasksFollowHandles
  <2> SUFFICES ASSUME MInv PROVE MasksFollowHandles
    OBVIOUS
  <2>1. StreamsFollow(moto.mEnabled) /\ WakesFollow(moto.mWakeEnabled)
    BY DEF MInv, HubInv, HubKept, Follows, StreamsFollow, WakesFollow
  <2>2. /\ "sensors" \notin drv.refused => drv.sensors = moto.mEnabled
        /\ "wake" \notin drv.refused => drv.wake = moto.mWakeEnabled
    BY DEF MInv, HubInv, HubKept, Believed
  <2> QED
    BY <2>1, <2>2 DEF MasksFollowHandles
<1> QED
  BY <1>1, MInvHolds, PTL

\* The magnetometer and the gyroscope run at the shortest period a sensor that is on
\* asked for, unless the driver refused it (HubSensors.cpp: updateEcompassRate,
\* updateGyroRate).
THEOREM MotoRatesHeld == MSpec => []SharedRateHeld
<1>1. MInv => SharedRateHeld
  BY DEF MInv, HubInv, HubKept, Believed, Shortest, SharedRateHeld
<1> QED
  BY <1>1, MInvHolds, PTL

\* A glance is in the framework's buffer, which it does not overrun, or pending, and
\* in the order it was reported, for every size of the buffer (HubSensors.cpp:
\* readEvents, pendingEvents).
THEOREM MotoGlancesKept == MSpec => []GlancesKept
<1>1. MInv => GlancesKept
  BY DEF MInv, GlancesInv, GlancesKept
<1> QED
  BY <1>1, MInvHolds, PTL
===============================================================================
