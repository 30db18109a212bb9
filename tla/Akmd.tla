--------------------------------- MODULE Akmd ---------------------------------
(***************************************************************************)
(* The compass daemon of hardware-moto-sensors/ak09912_akmd_6D_32b: main   *)
(* waits for the compass to be opened, starts a thread that measures until *)
(* the compass is closed, and keeps the estimated offset of the magnetic   *)
(* sensor in a file (main.c, Measure.c, FileIO.c, AKMD_Driver.c, misc.c).  *)
(*                                                                         *)
(* A vector is one number: an offset h is the field the sensor sees of its *)
(* own, relative to the base h0 the library chose; h + h0 is what it really*)
(* is.  The library libSmartCompass is external: whether a measurement is  *)
(* usable, moves the base or completes an estimate is a choice.  It is     *)
(* taken to write m_hbase only in AKSC_DecompS3, saying so in cb unless it *)
(* gives up, and m_ho only when it translates or has estimated it.  There  *)
(* is one formation (CSPEC_NUM_FORMATION), so m_cntSuspend stays 0.        *)
(***************************************************************************)
EXTENDS Integers, Sequences, FiniteSets, SequencesExt

CONSTANTS
  Bases,     \* bases the library moves to
  Offsets,   \* offsets it estimates, relative to base 0
  Delays,    \* delays the driver asks for, in tenths of a millisecond
  Boards,    \* layouts the driver may answer
  ShortMax   \* the largest int16

VARIABLES
  s_fdDev,          \* the driver's file descriptor is open
  prms,             \* AKSCPRMS, shared by main and the measuring thread
  g_stopRequest,
  g_mainQuit,
  akmMain,          \* where main is
  akmLoop,          \* where MeasureSNGLoop is, and its HDOE decimator
  akmFile,          \* the setting file: lines written, and the values in them
  fst               \* the verdict of the function test, until the next choice

avars == <<s_fdDev, prms, g_stopRequest, g_mainQuit, akmMain, akmLoop, akmFile, fst>>

AKSC_HDST_UNSOLVED == 0
AKSC_HDST_L3       == 3

\* An uninitialised int, cut to 16 bits where it is a part of an offset: 0, or
\* whatever the stack held.
Junk   == 1
Uninit == {0, Junk}

\* Lines of the file, in the order in which they are read: the level, the
\* offset, its reference, its base, and the offset of the accelerometer.
FileLines == 5

PAT_INVALID == 0
Layouts     == 1 .. 8

-------------------------------------------------------------------------------
(* misc.c: what the driver's numbers mean.                                 *)

s_interval == << <<100, 10>>, <<167, 6>>, <<200, 5>>, <<250, 4>>, <<400, 3>>, <<500, 2>>,
                 <<667, 2>>, <<1000, 1>>, <<1250, 1>>, <<2000, 1>>, <<10000, 1>> >>

\* The first interval that is long enough, or the last one.
GetHDOEDecimator(time) ==
  LET fits == {i \in DOMAIN s_interval : time <= s_interval[i][1]}
      i    == IF fits = {} THEN Len(s_interval)
              ELSE CHOOSE k \in fits : \A j \in fits : k <= j
  IN  s_interval[i][2]

\* The decimators of the delays are int16s.
ASSUME AkmdAssumption ==
  /\ Bases \subseteq Int /\ Offsets \subseteq Int /\ Delays \subseteq Int /\ Boards \subseteq 0 .. 8
  /\ ShortMax \in Nat \ {0} /\ \A d \in Delays : d >= 0 => GetHDOEDecimator(d) <= ShortMax

-------------------------------------------------------------------------------
(* AKMD_Driver.c, Acc_aot.c: every request fails without a descriptor, and *)
(* may fail with one.  The retries on -EAGAIN and -EINTR never happen:     *)
(* ioctl() answers -1.                                                     *)

Ioctl == IF s_fdDev THEN {TRUE, FALSE} ELSE {FALSE}

AKD_WaitReady         == Ioctl
AKD_GetSensorInfo     == Ioctl
AKD_GetSensorConf     == Ioctl
AKD_GetMagneticData   == Ioctl
AKD_GetOpenStatus     == Ioctl
AKD_GetCloseStatus    == Ioctl
AKD_GetAccelerationData == Ioctl
AKD_RxData            == Ioctl
AKD_TxData            == Ioctl
AKD_Reset             == Ioctl
AKD_SetMode           == Ioctl

\* The layout the board's data hold; 0 when the request fails.
AKD_GetLayout == IF s_fdDev THEN {PAT_INVALID} \cup Boards ELSE {PAT_INVALID}

\* The delays of the sensors; a failed request keeps the decimator.
AKD_GetDelay == IF s_fdDev THEN Delays ELSE {}

\* The accelerometer is read through the same driver and has no offset.
AOT_GetAccOffset == 0

-------------------------------------------------------------------------------
(* FileIO.c                                                                *)

NoFile == [lines |-> 0, hdst |-> 0, ho |-> 0, hbase |-> 0, ao |-> 0, est |-> 0]

\* A value that was not read is stored as the uninitialised int it is.
LoadInt16vec(read, val) == IF read THEN {val} ELSE Uninit
LoadInt32vec(read, val) == IF read THEN {val} ELSE Uninit

\* The parameters with what was read; the level is stored in any case, 0 when
\* it was not read.
LoadedWith(p, ho, hb, ao) ==
  [ok |-> akmFile.lines = FileLines,
   p  |-> [p EXCEPT !.HSUC_HDST = IF akmFile.lines >= 1 THEN akmFile.hdst ELSE 0,
                    !.HSUC_HO = ho, !.HSUC_HBASE = hb, !.m_AO = ao, !.sucEst = akmFile.est]]

\* Each value is only asked for when the ones before it were found.
LoadParameters(p) ==
  LET n == akmFile.lines
  IN  { LoadedWith(p, ho, hb, ao) :
         ho \in IF n >= 1 THEN LoadInt16vec(n >= 2, akmFile.ho) ELSE {p.HSUC_HO},
         hb \in IF n >= 3 THEN LoadInt32vec(n >= 4, akmFile.hbase) ELSE {p.HSUC_HBASE},
         ao \in IF n >= 4 THEN LoadInt16vec(n >= 5, akmFile.ao) ELSE {p.m_AO} }

\* The level, the offset, the reference and the base; m_AO keeps its value.
SetDefaultPRMS(p) == [p EXCEPT !.HSUC_HDST = AKSC_HDST_UNSOLVED, !.HSUC_HO = 0,
                               !.HSUC_HBASE = 0, !.sucEst = 0]

\* What main does with the two.
Loaded(p) == { IF r.ok THEN r.p ELSE SetDefaultPRMS(r.p) : r \in LoadParameters(p) }

\* fopen(.., "w") empties the file; nothing is written before fclose().
SaveOpen == /\ akmMain = "save" /\ akmMain' = "writing"
            /\ akmFile' = NoFile
            /\ UNCHANGED <<s_fdDev, prms, g_stopRequest, g_mainQuit, akmLoop, fst>>

\* SaveInt, SaveInt16vec, SaveInt32vec: n lines reach the file.
Written(n) ==
  [lines |-> n,
   hdst  |-> IF n >= 1 THEN prms.HSUC_HDST ELSE 0,
   ho    |-> IF n >= 2 THEN prms.HSUC_HO ELSE 0,
   hbase |-> IF n >= 4 THEN prms.HSUC_HBASE ELSE 0,
   ao    |-> IF n >= 5 THEN prms.m_AO ELSE 0,
   est   |-> IF n >= 5 THEN prms.sucEst ELSE 0]

\* Where main goes once the parameters are saved, or cannot be.
Saved == akmMain' = IF prms.console THEN "menu" ELSE IF g_mainQuit THEN "exit" ELSE "open"

SaveParameters ==
  /\ akmMain = "writing"
  /\ \E n \in 0 .. FileLines : akmFile' = Written(n)
  /\ Saved
  /\ UNCHANGED <<s_fdDev, prms, g_stopRequest, g_mainQuit, akmLoop, fst>>

SaveFails == /\ akmMain = "save" /\ Saved
             /\ UNCHANGED <<s_fdDev, prms, g_stopRequest, g_mainQuit, akmLoop, akmFile, fst>>

-------------------------------------------------------------------------------
(* Measure.c                                                               *)

\* The structure main starts with.
InitAKSCPRMS ==
  [console |-> FALSE, m_hlayout |-> PAT_INVALID, HSUC_HDST |-> 0, HSUC_HO |-> 0, HSUC_HBASE |-> 0, sucEst |-> 0,
   m_hdst |-> AKSC_HDST_UNSOLVED, m_ho |-> 0, m_hbase |-> 0, est |-> 0,
   m_AO |-> 0, m_callcnt |-> 0, strayed |-> FALSE]

\* Information, configuration, and no sensitivity of zero.
ReadFUSEROM == {i /\ c /\ asa : i \in AKD_GetSensorInfo, c \in AKD_GetSensorConf,
                                asa \in BOOLEAN}

\* A slip the runs must catch: the delay is taken for the decimator.
GetInterval_delay(dec) == {IF d >= 0 THEN d ELSE dec : d \in AKD_GetDelay}

\* A disabled magnetic sensor (a negative delay) keeps the decimator.
GetInterval(dec) == {IF d >= 0 THEN GetHDOEDecimator(d) ELSE dec : d \in AKD_GetDelay}

\* Measuring resumes from the last estimate that succeeded.
Init_Measure(p) == [p EXCEPT !.m_ho = p.HSUC_HO, !.m_hdst = p.HSUC_HDST,
                             !.m_hbase = p.HSUC_HBASE, !.m_callcnt = 0, !.est = p.sucEst,
                             !.strayed = FALSE]

Shorts == (-ShortMax - 1) .. ShortMax

\* AKSC_TransByHbase: the offset, relative to a new base.  One that is no int16 is
\* reported as an overflow, which the code only returns: what m_ho holds then is not
\* known but for its width.
Translated(p, base) == p.m_ho + p.m_hbase - base

TransByHbase(p, base) ==
  IF Translated(p, base) \in Shorts THEN {Translated(p, base)} ELSE {p.m_ho, ShortMax}

\* AKSC_DecompS3 may have moved the base before the code gives up on a measurement;
\* the offset is then not translated, and no later measurement sees the move.
\* History: the offset has strayed from the base, and is no longer what was estimated.
Strayed(p) == [p EXCEPT !.strayed = TRUE, !.est = 0]

BaseLeft(p) ==
  {p} \cup {[Strayed(p) EXCEPT !.m_hbase = b] : b \in Bases \ {p.m_hbase}}

\* AKSC_DecompS3 fails, or finds an error in the data.
Unusable(p) == BaseLeft(p)

Unsolved(p) == [p EXCEPT !.m_hdst = AKSC_HDST_UNSOLVED]

\* The field is beyond the sensor's range, or fluctuates: start over.
Disturbed(p) == {Unsolved(q) : q \in BaseLeft(p)}

\* The library moved the base.
\* A slip the runs must catch: the offset is not translated.
HbaseChanged_keepsOffset(p) ==
  {[Unsolved(p) EXCEPT !.m_hbase = b] : b \in Bases \ {p.m_hbase}}

HbaseChanged(p) ==
  UNION {LET q == IF Translated(p, b) \in Shorts THEN p ELSE Strayed(p)
         IN  {[Unsolved(q) EXCEPT !.m_hbase = b, !.m_ho = ho] : ho \in TransByHbase(p, b)} :
           b \in Bases \ {p.m_hbase}}

\* The counter is an int16 and is counted down before anything else: it goes below
\* zero while the library denies its service, and wraps.
CountedDown(p) ==
  [p EXCEPT !.m_callcnt = IF @ = -ShortMax - 1 THEN ShortMax ELSE @ - 1]

\* Offsets the library can estimate relative to the base.
Estimates(p) == {o \in Offsets : o - p.m_hbase \in Shorts}

\* AKSC_HDOEProcessS3 is called every m_callcnt measurements: an estimate that
\* succeeds is what a later session resumes from.
HDOEProcess(p, dec) ==
  IF CountedDown(p).m_callcnt > 0 THEN {CountedDown(p)}
  ELSE {[p EXCEPT !.m_callcnt = dec, !.m_hdst = h] : h \in {AKSC_HDST_UNSOLVED, p.m_hdst}} \cup
       {[p EXCEPT !.m_callcnt = dec, !.m_ho = o - p.m_hbase, !.m_hdst = AKSC_HDST_L3,
                  !.HSUC_HO = o - p.m_hbase, !.HSUC_HDST = AKSC_HDST_L3,
                  !.HSUC_HBASE = p.m_hbase, !.est = o, !.sucEst = o,
                  !.strayed = FALSE] : o \in Estimates(p)}

\* AKSC_CERTIFICATION_DENIED: the counter has run down and is not set again.
Denied(p) == IF CountedDown(p).m_callcnt > 0 THEN {} ELSE {CountedDown(p)}

GetMagneticVector(p, dec) ==
  Unusable(p) \cup Disturbed(p) \cup HbaseChanged(p) \cup HDOEProcess(p, dec) \cup Denied(p)

\* SimpleCalibration: the accelerometer's offset.
SimpleCalibration(p) == [p EXCEPT !.m_AO = AOT_GetAccOffset]

LoopAt(pc) == akmLoop' = [akmLoop EXCEPT !.pc = pc]

\* MeasureSNGLoop up to its loop; without an interval it ends at once.
LoopStart_clearsFlag ==
  /\ akmLoop.pc = "init"
  /\ prms' = Init_Measure(prms) /\ g_stopRequest' = 0
  /\ \/ \E d \in GetInterval(akmLoop.dec) : akmLoop' = [pc |-> "mag", dec |-> d]
     \/ LoopAt("end")
  /\ UNCHANGED <<s_fdDev, g_mainQuit, akmMain, akmFile, fst>>

LoopStart ==
  /\ akmLoop.pc = "init"
  /\ prms' = Init_Measure(prms)
  /\ \/ \E d \in GetInterval(akmLoop.dec) : akmLoop' = [pc |-> "mag", dec |-> d]
     \/ LoopAt("end")
  /\ UNCHANGED <<s_fdDev, g_stopRequest, g_mainQuit, akmMain, akmFile, fst>>

\* The condition of the loop, and the magnetic sensor: a failed read resets the
\* driver and goes on with the measurement before.
LoopMag ==
  /\ akmLoop.pc = "mag" /\ g_stopRequest = 0
  /\ \E ok \in AKD_GetMagneticData :
       IF ok THEN prms' \in GetMagneticVector(prms, akmLoop.dec)
       ELSE \E r \in AKD_Reset : UNCHANGED prms
  /\ LoopAt("acc")
  /\ UNCHANGED <<s_fdDev, g_stopRequest, g_mainQuit, akmMain, akmFile, fst>>

LoopStopped ==
  /\ akmLoop.pc = "mag" /\ g_stopRequest = 1 /\ LoopAt("end")
  /\ UNCHANGED <<s_fdDev, prms, g_stopRequest, g_mainQuit, akmMain, akmFile, fst>>

\* The accelerometer: a failed read ends the loop.  Otherwise the directions are
\* computed and reported, and the intervals are read again.
LoopAcc ==
  /\ akmLoop.pc = "acc"
  /\ \E ok \in AKD_GetAccelerationData :
       IF ok THEN \E d \in GetInterval(akmLoop.dec) \cup {akmLoop.dec} :
                    akmLoop' = [pc |-> "mag", dec |-> d]
       ELSE LoopAt("end")
  /\ UNCHANGED <<s_fdDev, prms, g_stopRequest, g_mainQuit, akmMain, akmFile, fst>>

\* The sensor is powered down; the thread, or the call, is over.
LoopEnd ==
  /\ akmLoop.pc = "end"
  /\ \E ok \in AKD_SetMode : akmLoop' = [pc |-> "done", dec |-> 1]
  /\ UNCHANGED <<s_fdDev, prms, g_stopRequest, g_mainQuit, akmMain, akmFile, fst>>

MeasureSNGLoop == LoopStart \/ LoopMag \/ LoopStopped \/ LoopAcc \/ LoopEnd

-------------------------------------------------------------------------------
(* FST_AK09912.c: the function test of the console.                        *)

\* The limits of the readings, in the order in which they are tested.
TLIMIT == << <<72, 72>>, <<4, 4>>, <<31, 31>>, <<1, 254>>, <<1, 254>>, <<1, 254>>,
             <<1, 1>>, <<-32751, 32751>>, <<-32751, 32751>>, <<-32751, 32751>>,
             <<40, 224>>, <<0, 0>>, <<1, 1>>, <<-200, 200>>, <<-200, 200>>,
             <<-1600, -400>>, <<0, 0>> >>

\* A reading is tested against its limits; the total is 1 until one fails, then -1.
TEST_DATA(data, limit) == limit[1] <= data /\ data <= limit[2]

\* Requests, any of which may fail: reset, registers, modes, two measurements.
FstRequests == {r1 /\ r2 /\ r3 /\ r4 /\ r5 : r1 \in AKD_Reset, r2 \in AKD_RxData,
                r3 \in AKD_SetMode, r4 \in AKD_TxData, r5 \in AKD_GetMagneticData}

\* The total, which a failed request resets to 0.
FST_AK09912(ok, data) ==
  IF ~ok THEN 0
  ELSE IF \A i \in DOMAIN TLIMIT : TEST_DATA(data[i], TLIMIT[i]) THEN 1 ELSE -1

\* Readings within their limits but for one, which is just outside.
Readings ==
  LET good == [i \in 1 .. Len(TLIMIT) |-> TLIMIT[i][1]]
  IN  {good} \cup UNION {{[good EXCEPT ![i] = v] : v \in {TLIMIT[i][1] - 1, TLIMIT[i][2] + 1}} :
                            i \in 1 .. Len(TLIMIT)}

FST_Body ==
  /\ akmMain = "menu"
  /\ \E ok \in FstRequests, data \in Readings : fst' = FST_AK09912(ok, data)
  /\ UNCHANGED <<s_fdDev, prms, g_stopRequest, g_mainQuit, akmMain, akmLoop, akmFile>>

-------------------------------------------------------------------------------
(* main.c                                                                  *)

MainAt(pc) == akmMain' = pc

NoLoop == [pc |-> "none", dec |-> 1]

AInit ==
  /\ s_fdDev = FALSE /\ prms = InitAKSCPRMS /\ g_stopRequest = 0 /\ g_mainQuit = FALSE
  /\ akmMain = "start" /\ akmLoop = NoLoop /\ akmFile = NoFile
  /\ fst = 0

\* OptParse: the console, and a layout that is kept only when it is one.
OptParse ==
  /\ akmMain = "start"
  /\ \/ MainAt("exit") /\ UNCHANGED prms
     \/ \E console \in BOOLEAN, pat \in {PAT_INVALID} \cup Boards :
          prms' = [prms EXCEPT !.console = console, !.m_hlayout = pat] /\ MainAt("device")
  /\ UNCHANGED <<s_fdDev, g_stopRequest, g_mainQuit, akmLoop, akmFile, fst>>

AKD_InitDevice ==
  /\ akmMain = "device"
  /\ \/ s_fdDev' = TRUE /\ MainAt("boot")
     \/ s_fdDev' = FALSE /\ MainAt("exit")
  /\ UNCHANGED <<prms, g_stopRequest, g_mainQuit, akmLoop, akmFile, fst>>

\* The hub has booted, the layout is known, the fuses can be read.  The factory's
\* correction (LoadPDC) is optional and only handed to the library.
Boot ==
  /\ akmMain = "boot"
  /\ \E ready \in AKD_WaitReady, fuse \in ReadFUSEROM,
        pat \in IF prms.m_hlayout = PAT_INVALID THEN AKD_GetLayout ELSE {prms.m_hlayout} :
       IF ready /\ pat # PAT_INVALID /\ fuse
       THEN /\ prms' = [prms EXCEPT !.m_hlayout = pat]
            /\ MainAt(IF prms.console THEN "menu" ELSE "open")
       ELSE MainAt("exit") /\ UNCHANGED prms
  /\ UNCHANGED <<s_fdDev, g_stopRequest, g_mainQuit, akmLoop, akmFile, fst>>

\* Wait until the compass is opened; the driver may also answer that it is not.
GetOpen ==
  /\ akmMain = "open"
  /\ \E ok \in AKD_GetOpenStatus, st \in BOOLEAN :
       MainAt(IF ~ok THEN "exit" ELSE IF st THEN "opened" ELSE "open")
  /\ UNCHANGED <<s_fdDev, prms, g_stopRequest, g_mainQuit, akmLoop, akmFile, fst>>

\* startClone clears the flag before there is a thread.
startClone ==
  /\ akmMain = "opened"
  /\ prms' \in Loaded(prms) /\ g_stopRequest' = 0
  /\ \/ akmLoop' = [pc |-> "init", dec |-> 1] /\ MainAt("measure")
     \/ UNCHANGED akmLoop /\ MainAt("exit")
  /\ UNCHANGED <<s_fdDev, g_mainQuit, akmFile, fst>>

\* The compass is closed, or asking for that failed.
GetClose ==
  /\ akmMain = "measure"
  /\ \E ok \in AKD_GetCloseStatus : g_mainQuit' = (g_mainQuit \/ ~ok)
  /\ g_stopRequest' = 1 /\ MainAt("join")
  /\ UNCHANGED <<s_fdDev, prms, akmLoop, akmFile, fst>>

\* pthread_join
Join ==
  /\ akmMain = "join" /\ akmLoop.pc = "done"
  /\ MainAt("save") /\ akmLoop' = NoLoop
  /\ UNCHANGED <<s_fdDev, prms, g_stopRequest, g_mainQuit, akmFile, fst>>

\* MODE_MeasureSNG: the loop in main's own thread.  Nothing sets the flag.
MenuMeasure ==
  /\ akmMain = "menu"
  /\ prms' \in Loaded(prms) /\ g_stopRequest' = 0
  /\ akmLoop' = [pc |-> "init", dec |-> 1] /\ MainAt("join")
  /\ fst' = 0 /\ UNCHANGED <<s_fdDev, g_mainQuit, akmFile>>

MenuCalibrate ==
  /\ akmMain = "menu"
  /\ \E p \in Loaded(prms) : prms' = SimpleCalibration(p)
  /\ MainAt("save")
  /\ fst' = 0 /\ UNCHANGED <<s_fdDev, g_stopRequest, g_mainQuit, akmLoop, akmFile>>

MenuQuit == /\ akmMain = "menu" /\ MainAt("exit")
            /\ UNCHANGED <<s_fdDev, prms, g_stopRequest, g_mainQuit, akmLoop, akmFile, fst>>

\* The process ends, and with it all but the file.
Gone == /\ MainAt("down") /\ s_fdDev' = FALSE /\ akmLoop' = NoLoop
        /\ prms' = InitAKSCPRMS /\ g_stopRequest' = 0 /\ g_mainQuit' = FALSE
        /\ fst' = 0
        /\ UNCHANGED akmFile

AKD_DeinitDevice == akmMain = "exit" /\ Gone

\* The process may be killed at any time; init starts the service again.
Kill == akmMain \notin {"exit", "down"} /\ Gone

Restart ==
  /\ akmMain = "down" /\ MainAt("start")
  /\ UNCHANGED <<s_fdDev, prms, g_stopRequest, g_mainQuit, akmLoop, akmFile, fst>>

Main == \/ OptParse \/ AKD_InitDevice \/ Boot \/ GetOpen \/ startClone \/ GetClose \/ Join
        \/ MenuMeasure \/ MenuCalibrate \/ MenuQuit \/ FST_Body
        \/ SaveOpen \/ SaveParameters \/ SaveFails \/ AKD_DeinitDevice

ANext == Main \/ MeasureSNGLoop \/ Restart \/ Kill

\* The two threads run whenever they can.  Nobody has to open or close the
\* compass, use the console or kill the daemon.
AFairness == WF_avars(Join) /\ WF_avars(MeasureSNGLoop)

ASpec == AInit /\ [][ANext]_avars /\ AFairness

-------------------------------------------------------------------------------
(* Properties                                                              *)

ATypeOK ==
  /\ s_fdDev \in BOOLEAN /\ g_stopRequest \in {0, 1} /\ g_mainQuit \in BOOLEAN
  /\ DOMAIN prms = DOMAIN InitAKSCPRMS
  /\ prms.m_hlayout \in {PAT_INVALID} \cup Layouts
  /\ {prms.m_callcnt, prms.m_ho, prms.HSUC_HO, akmFile.ho} \subseteq Shorts
  /\ akmMain \in {"start", "device", "boot", "open", "opened", "measure", "join", "save",
                   "writing", "menu", "exit", "down"}
  /\ akmLoop \in [pc : {"none", "init", "mag", "acc", "end", "done"}, dec : 1 .. 10]
  /\ akmFile.lines \in 0 .. FileLines
  /\ fst \in {-1, 0, 1}

\* The offset is the one that was estimated, whatever base it is relative to, always
\* in the parameters a later session resumes from and in a complete file.  While
\* measuring it is so until the base moves in a measurement the code gives up on
\* before it translates, or the translated offset is no int16; the next estimate,
\* or the next session, mends that (Measure.c: GetMagneticVector, Init_Measure;
\* FileIO.c).
OffsetMatchesBase ==
  /\ prms.HSUC_HO + prms.HSUC_HBASE = prms.sucEst
  /\ akmLoop.pc \in {"mag", "acc", "end", "done"} /\ ~prms.strayed =>
       prms.m_ho + prms.m_hbase = prms.est
  /\ akmFile.lines = FileLines => akmFile.ho + akmFile.hbase = akmFile.est

\* Once the compass is closed the measuring thread ends, so that main does not
\* wait in pthread_join for ever (main.c: g_stopRequest).
JoinReturns == akmMain = "join" /\ ~prms.console ~> akmMain # "join"
===============================================================================
