------------------------------ MODULE Akmd_proofs ------------------------------
(***************************************************************************)
(* Proofs about the compass daemon, for every set of bases, offsets,       *)
(* delays and boards.                                                      *)
(***************************************************************************)
EXTENDS Akmd, TLAPS, WellFoundedInduction

\* AKSCPRMS and the file: the vectors are numbers, the offsets have 16 bits.
Prms == [console : BOOLEAN, m_hlayout : Int,
         HSUC_HDST : Int, HSUC_HO : Shorts, HSUC_HBASE : Int, sucEst : Int,
         m_hdst : Int, m_ho : Shorts, m_hbase : Int, est : Int,
         m_AO : Int, m_callcnt : Int, strayed : BOOLEAN]

File == [lines : Int, hdst : Int, ho : Shorts, hbase : Int, ao : Int, est : Int]

Loop == [pc : {"none", "init", "mag", "acc", "end", "done"}, dec : Int]

OffsetInv == prms \in Prms /\ akmFile \in File /\ akmLoop \in Loop /\ OffsetMatchesBase

\* The offset and the base of a set of parameters, as saved and as measured with.
SavedPair(p) == p.HSUC_HO + p.HSUC_HBASE = p.sucEst

MeasuredPair(p) == ~p.strayed => p.m_ho + p.m_hbase = p.est

USE DEF AKSC_HDST_UNSOLVED, AKSC_HDST_L3

\* Zero and what the stack may hold are int16s, and int16s are numbers.
LEMMA ShortsAreNumbers ==
  /\ Shorts \subseteq Int /\ 0 \in Shorts /\ Junk \in Shorts /\ ShortMax \in Shorts
  BY AkmdAssumption DEF Shorts, Junk

\* Each field the daemon assigns takes any number, the offsets any int16.
LEMMA FieldsAreNumbers ==
  /\ \A p \in Prms, v \in Shorts : [p EXCEPT !.m_ho = v] \in Prms
  /\ \A p \in Prms, v \in Int : [p EXCEPT !.m_hbase = v] \in Prms
  /\ \A p \in Prms, v \in Int : [p EXCEPT !.m_hdst = v] \in Prms
  /\ \A p \in Prms, v \in Int : [p EXCEPT !.est = v] \in Prms
  /\ \A p \in Prms, v \in Shorts : [p EXCEPT !.HSUC_HO = v] \in Prms
  /\ \A p \in Prms, v \in Int : [p EXCEPT !.HSUC_HBASE = v] \in Prms
  /\ \A p \in Prms, v \in Int : [p EXCEPT !.HSUC_HDST = v] \in Prms
  /\ \A p \in Prms, v \in Int : [p EXCEPT !.sucEst = v] \in Prms
  /\ \A p \in Prms, v \in Int : [p EXCEPT !.m_callcnt = v] \in Prms
  /\ \A p \in Prms, v \in Int : [p EXCEPT !.m_AO = v] \in Prms
  /\ \A p \in Prms : [p EXCEPT !.strayed = TRUE] \in Prms
  /\ \A p \in Prms : [p EXCEPT !.strayed = FALSE] \in Prms
  BY DEF Prms

\* The fields that are assigned together.
LEMMA ResumedFields ==
  ASSUME NEW p \in Prms, NEW a \in Int, NEW h \in Shorts, NEW c \in Int, NEW d \in Int,
         NEW e \in Int
  PROVE  /\ [p EXCEPT !.HSUC_HDST = a, !.HSUC_HO = h, !.HSUC_HBASE = c, !.sucEst = d] \in Prms
         /\ [p EXCEPT !.HSUC_HDST = a, !.HSUC_HO = h, !.HSUC_HBASE = c, !.m_AO = e,
                      !.sucEst = d] \in Prms
         /\ [p EXCEPT !.m_ho = h, !.m_hdst = a, !.m_hbase = c, !.m_callcnt = d,
                      !.est = e, !.strayed = FALSE] \in Prms
<1>1. [p EXCEPT !.HSUC_HDST = a, !.HSUC_HO = h] \in Prms
  BY FieldsAreNumbers
<1>2. [p EXCEPT !.HSUC_HDST = a, !.HSUC_HO = h, !.HSUC_HBASE = c] \in Prms
  BY <1>1, FieldsAreNumbers
<1>3. [p EXCEPT !.HSUC_HDST = a, !.HSUC_HO = h, !.HSUC_HBASE = c, !.m_AO = e] \in Prms
  BY <1>2, FieldsAreNumbers
<1>4. PICK r \in Prms : r = [p EXCEPT !.m_ho = h, !.m_hdst = a, !.m_hbase = c]
  <2>1. [p EXCEPT !.m_ho = h, !.m_hdst = a] \in Prms
    BY FieldsAreNumbers
  <2>2. [p EXCEPT !.m_ho = h, !.m_hdst = a, !.m_hbase = c] \in Prms
    BY <2>1, FieldsAreNumbers
  <2> QED
    BY <2>2
<1>5. [r EXCEPT !.m_callcnt = d, !.est = e] \in Prms
  <2>1. [r EXCEPT !.m_callcnt = d] \in Prms
    BY FieldsAreNumbers
  <2> QED
    BY <2>1, FieldsAreNumbers
<1>6. [r EXCEPT !.m_callcnt = d, !.est = e, !.strayed = FALSE] \in Prms
  BY <1>5, FieldsAreNumbers
<1> QED
  BY <1>2, <1>3, <1>4, <1>6, FieldsAreNumbers

LEMMA MeasuredFields ==
  ASSUME NEW p \in Prms, NEW a \in Int, NEW h \in Shorts, NEW c \in Int, NEW d \in Int,
         NEW e \in Int
  PROVE  /\ [p EXCEPT !.m_callcnt = a, !.m_hdst = c] \in Prms
         /\ [p EXCEPT !.m_hbase = a, !.m_ho = h] \in Prms
         /\ [p EXCEPT !.m_callcnt = a, !.m_ho = h, !.m_hdst = c, !.HSUC_HO = h,
                      !.HSUC_HDST = c, !.HSUC_HBASE = d, !.est = e, !.sucEst = e,
                      !.strayed = FALSE] \in Prms
<1>1. [p EXCEPT !.m_callcnt = a, !.m_hdst = c] \in Prms
  BY FieldsAreNumbers
<1>2. [p EXCEPT !.m_hbase = a, !.m_ho = h] \in Prms
  BY FieldsAreNumbers
<1>4. PICK r \in Prms : r = [p EXCEPT !.m_callcnt = a, !.m_ho = h, !.m_hdst = c]
  <2>1. [p EXCEPT !.m_callcnt = a, !.m_ho = h] \in Prms
    BY FieldsAreNumbers
  <2>2. [p EXCEPT !.m_callcnt = a, !.m_ho = h, !.m_hdst = c] \in Prms
    BY <2>1, FieldsAreNumbers
  <2> QED
    BY <2>2
<1>5. PICK s \in Prms : s = [r EXCEPT !.HSUC_HO = h, !.HSUC_HDST = c, !.HSUC_HBASE = d]
  <2>1. [r EXCEPT !.HSUC_HO = h, !.HSUC_HDST = c] \in Prms
    BY FieldsAreNumbers
  <2>2. [r EXCEPT !.HSUC_HO = h, !.HSUC_HDST = c, !.HSUC_HBASE = d] \in Prms
    BY <2>1, FieldsAreNumbers
  <2> QED
    BY <2>2
<1>6. [s EXCEPT !.est = e, !.sucEst = e] \in Prms
  <2>1. [s EXCEPT !.est = e] \in Prms
    BY FieldsAreNumbers
  <2> QED
    BY <2>1, FieldsAreNumbers
<1>7. [s EXCEPT !.est = e, !.sucEst = e, !.strayed = FALSE] \in Prms
  BY <1>6, FieldsAreNumbers
<1> QED
  BY <1>1, <1>2, <1>4, <1>5, <1>7

\* What a step of the measurement must keep.
Paired(p) == p \in Prms /\ SavedPair(p) /\ MeasuredPair(p)

\* Giving up the estimate keeps the offset and its base.
LEMMA UnsolvedPair ==
  ASSUME NEW p, Paired(p)
  PROVE  /\ Paired(Unsolved(p))
         /\ Unsolved(p).m_ho = p.m_ho /\ Unsolved(p).m_hbase = p.m_hbase
         /\ Unsolved(p).est = p.est /\ Unsolved(p).strayed = p.strayed
<1>1. p \in Prms
  BY DEF Paired
<1>2. Unsolved(p) \in Prms
  BY <1>1, FieldsAreNumbers DEF Unsolved
<1> QED
  BY <1>1, <1>2 DEF Unsolved, Prms, Paired, SavedPair, MeasuredPair

\* A strayed offset may be any int16 and its base any number.
LEMMA StrayedPair ==
  ASSUME NEW p, Paired(p), NEW b \in Int
  PROVE  /\ Paired([Strayed(p) EXCEPT !.m_hbase = b])
         /\ Paired(Strayed(p)) /\ Strayed(p).strayed
<1>1. p \in Prms
  BY DEF Paired
<1>2. PICK z \in Int : z = 0
  OBVIOUS
<1>3. [p EXCEPT !.strayed = TRUE] \in Prms
  BY <1>1, FieldsAreNumbers
<1>4. PICK q \in Prms : q = Strayed(p)
  <2>1. [p EXCEPT !.strayed = TRUE, !.est = z] \in Prms
    BY <1>3, FieldsAreNumbers
  <2> QED
    BY <1>2, <2>1 DEF Strayed
<1>5. q.strayed /\ q.HSUC_HO = p.HSUC_HO /\ q.HSUC_HBASE = p.HSUC_HBASE /\ q.sucEst = p.sucEst
  BY <1>1, <1>4 DEF Strayed, Prms
<1>6. PICK r \in Prms : r = [q EXCEPT !.m_hbase = b]
  BY FieldsAreNumbers
<1>7. r.strayed /\ r.HSUC_HO = q.HSUC_HO /\ r.HSUC_HBASE = q.HSUC_HBASE /\ r.sucEst = q.sucEst
  BY <1>5, <1>6 DEF Prms
<1> QED
  BY <1>4, <1>5, <1>6, <1>7 DEF Paired, SavedPair, MeasuredPair

LEMMA BaseLeftPair ==
  ASSUME NEW p, Paired(p), NEW q \in BaseLeft(p)
  PROVE  Paired(q)
<1>1. CASE q = p
  BY <1>1
<1>2. CASE \E b \in Bases \ {p.m_hbase} : q = [Strayed(p) EXCEPT !.m_hbase = b]
  <2>1. PICK b \in Int : q = [Strayed(p) EXCEPT !.m_hbase = b]
    BY <1>2, AkmdAssumption
  <2> QED
    BY <2>1, StrayedPair
<1> QED
  BY <1>1, <1>2 DEF BaseLeft

\* A translated offset has 16 bits, and is the exact one when that has.
LEMMA TranslatedShort ==
  ASSUME NEW p \in Prms, NEW b \in Int, NEW ho \in TransByHbase(p, b)
  PROVE  /\ ho \in Shorts /\ Translated(p, b) \in Int
         /\ Translated(p, b) \in Shorts => ho + b = p.m_ho + p.m_hbase
<1>1. p.m_ho \in Shorts /\ p.m_ho \in Int /\ p.m_hbase \in Int
  BY ShortsAreNumbers DEF Prms
<1>2. Translated(p, b) \in Int
  BY <1>1 DEF Translated
<1>3. CASE Translated(p, b) \in Shorts
  <2>1. ho = Translated(p, b)
    BY <1>3 DEF TransByHbase
  <2>2. ho + b = p.m_ho + p.m_hbase
    BY <1>1, <2>1 DEF Translated
  <2> QED
    BY <1>2, <1>3, <2>1, <2>2
<1>4. CASE Translated(p, b) \notin Shorts
  BY <1>1, <1>2, <1>4, ShortsAreNumbers DEF TransByHbase
<1> QED
  BY <1>3, <1>4

\* The base moved: the offset is translated, or has strayed.
LEMMA HbaseChangedPair ==
  ASSUME NEW p, Paired(p), NEW q \in HbaseChanged(p)
  PROVE  Paired(q)
<1>0. p \in Prms
  BY DEF Paired
<1>1. PICK b \in Bases \ {p.m_hbase} :
        \E ho \in TransByHbase(p, b) :
          q = [Unsolved(IF Translated(p, b) \in Shorts THEN p ELSE Strayed(p))
                 EXCEPT !.m_hbase = b, !.m_ho = ho]
  BY DEF HbaseChanged
<1>2. PICK ho \in TransByHbase(p, b) :
        q = [Unsolved(IF Translated(p, b) \in Shorts THEN p ELSE Strayed(p))
               EXCEPT !.m_hbase = b, !.m_ho = ho]
  BY <1>1
<1>3. b \in Int
  BY AkmdAssumption
<1>4. ho \in Shorts /\ (Translated(p, b) \in Shorts => ho + b = p.m_ho + p.m_hbase)
  BY <1>0, <1>3, TranslatedShort
<1>5. PICK r : r = Unsolved(IF Translated(p, b) \in Shorts THEN p ELSE Strayed(p))
  OBVIOUS
<1>6. Paired(r) /\ (~r.strayed => ho + b = r.est)
  <2>1. CASE Translated(p, b) \in Shorts
    <3>1. r = Unsolved(p)
      BY <1>5, <2>1
    <3>2. Paired(r) /\ r.est = p.est /\ r.strayed = p.strayed
      BY <3>1, UnsolvedPair
    <3> QED
      BY <1>4, <2>1, <3>2 DEF Paired, MeasuredPair
  <2>2. CASE Translated(p, b) \notin Shorts
    <3>1. r = Unsolved(Strayed(p))
      BY <1>5, <2>2
    <3>2. Paired(Strayed(p)) /\ Strayed(p).strayed
      BY <1>3, StrayedPair
    <3>3. Paired(r) /\ r.strayed
      BY <3>1, <3>2, UnsolvedPair
    <3> QED
      BY <3>3
  <2> QED
    BY <2>1, <2>2
<1>7. r \in Prms /\ q = [r EXCEPT !.m_hbase = b, !.m_ho = ho]
  BY <1>2, <1>5, <1>6 DEF Paired
<1>8. q \in Prms
  BY <1>3, <1>4, <1>7, MeasuredFields
<1>9. q.m_hbase = b /\ q.m_ho = ho /\ q.est = r.est /\ q.strayed = r.strayed
      /\ q.HSUC_HO = r.HSUC_HO /\ q.HSUC_HBASE = r.HSUC_HBASE /\ q.sucEst = r.sucEst
  BY <1>3, <1>4, <1>7 DEF Prms
<1> QED
  BY <1>6, <1>8, <1>9 DEF Paired, SavedPair, MeasuredPair

\* Counting down touches the counter only, which stays an int16.
LEMMA CountedDownPair ==
  ASSUME NEW p, Paired(p)
  PROVE  Paired(CountedDown(p))
<1>1. p \in Prms /\ p.m_callcnt \in Int
  BY DEF Paired, Prms
<1>2. PICK v \in Int : CountedDown(p) = [p EXCEPT !.m_callcnt = v]
  BY <1>1, AkmdAssumption DEF CountedDown
<1>3. CountedDown(p) \in Prms
  BY <1>1, <1>2, FieldsAreNumbers
<1> QED
  BY <1>1, <1>2, <1>3 DEF Paired, Prms, SavedPair, MeasuredPair

\* An estimate that succeeds is a pair of its own; one that fails keeps the old one.
LEMMA HDOEPair ==
  ASSUME NEW p, Paired(p), NEW dec \in Int, NEW q \in HDOEProcess(p, dec)
  PROVE  Paired(q)
<1>0. p \in Prms /\ p.m_hbase \in Int /\ p.m_hdst \in Int
  BY DEF Paired, Prms
<1>1. CASE q = CountedDown(p)
  BY <1>1, CountedDownPair
<1>2. CASE \E h \in {AKSC_HDST_UNSOLVED, p.m_hdst} :
             q = [p EXCEPT !.m_callcnt = dec, !.m_hdst = h]
  <2>1. PICK h \in Int : q = [p EXCEPT !.m_callcnt = dec, !.m_hdst = h]
    <3>1. PICK k \in {AKSC_HDST_UNSOLVED, p.m_hdst} :
            q = [p EXCEPT !.m_callcnt = dec, !.m_hdst = k]
      BY <1>2
    <3>2. k \in Int
      BY <1>0
    <3> QED
      BY <3>1, <3>2
  <2>2. q \in Prms
    <3>1. [p EXCEPT !.m_callcnt = dec] \in Prms
      BY <1>0, FieldsAreNumbers
    <3> QED
      BY <2>1, <3>1, FieldsAreNumbers
  <2> QED
    BY <1>0, <2>1, <2>2 DEF Paired, Prms, SavedPair, MeasuredPair
<1>3. CASE \E o \in Estimates(p) :
             q = [p EXCEPT !.m_callcnt = dec, !.m_ho = o - p.m_hbase,
                           !.m_hdst = AKSC_HDST_L3, !.HSUC_HO = o - p.m_hbase,
                           !.HSUC_HDST = AKSC_HDST_L3, !.HSUC_HBASE = p.m_hbase,
                           !.est = o, !.sucEst = o, !.strayed = FALSE]
  <2>1. PICK o \in Estimates(p) :
             q = [p EXCEPT !.m_callcnt = dec, !.m_ho = o - p.m_hbase,
                           !.m_hdst = AKSC_HDST_L3, !.HSUC_HO = o - p.m_hbase,
                           !.HSUC_HDST = AKSC_HDST_L3, !.HSUC_HBASE = p.m_hbase,
                           !.est = o, !.sucEst = o, !.strayed = FALSE]
    BY <1>3
  <2>2. o \in Int /\ o - p.m_hbase \in Shorts
    BY AkmdAssumption DEF Estimates
  <2>3. q \in Prms
    <3>1. PICK x \in Shorts, y \in Int, z \in Int, w \in Int :
            x = o - p.m_hbase /\ y = AKSC_HDST_L3 /\ z = p.m_hbase /\ w = o
      BY <1>0, <2>2
    <3>2. [p EXCEPT !.m_callcnt = dec, !.m_ho = x, !.m_hdst = y, !.HSUC_HO = x,
                    !.HSUC_HDST = y, !.HSUC_HBASE = z, !.est = w, !.sucEst = w,
                    !.strayed = FALSE] \in Prms
      BY <1>0, MeasuredFields
    <3> QED
      BY <2>1, <3>1, <3>2
  <2>4. q.m_ho = o - p.m_hbase /\ q.m_hbase = p.m_hbase /\ q.est = o
        /\ q.HSUC_HO = o - p.m_hbase /\ q.HSUC_HBASE = p.m_hbase /\ q.sucEst = o
    BY <1>0, <2>1 DEF Prms
  <2> QED
    BY <1>0, <2>2, <2>3, <2>4 DEF Paired, SavedPair, MeasuredPair
<1> QED
  BY <1>1, <1>2, <1>3 DEF HDOEProcess

\* A measurement keeps both pairs, whatever the library made of it.
LEMMA VectorKeepsPairs ==
  ASSUME NEW p, Paired(p), NEW dec \in Int, NEW q \in GetMagneticVector(p, dec)
  PROVE  Paired(q)
<1>1. CASE q \in Unusable(p)
  BY <1>1, BaseLeftPair DEF Unusable
<1>2. CASE q \in Disturbed(p)
  BY <1>2, BaseLeftPair, UnsolvedPair DEF Disturbed
<1>3. CASE q \in HbaseChanged(p)
  BY <1>3, HbaseChangedPair
<1>4. CASE q \in HDOEProcess(p, dec)
  BY <1>4, HDOEPair
<1>5. CASE q \in Denied(p)
  BY <1>5, CountedDownPair DEF Denied
<1> QED
  BY <1>1, <1>2, <1>3, <1>4, <1>5 DEF GetMagneticVector

\* LoadParameters reads numbers, and from a complete file the pair it holds.
LEMMA LoadedFile ==
  ASSUME OffsetInv, NEW r \in LoadParameters(prms)
  PROVE  /\ r.p \in Prms /\ r.ok \in BOOLEAN
         /\ r.ok => SavedPair(r.p)
<1> DEFINE n == akmFile.lines
<1> DEFINE level == IF n >= 1 THEN akmFile.hdst ELSE 0
<1>1. PICK ho \in IF n >= 1 THEN LoadInt16vec(n >= 2, akmFile.ho) ELSE {prms.HSUC_HO},
           hb \in IF n >= 3 THEN LoadInt32vec(n >= 4, akmFile.hbase) ELSE {prms.HSUC_HBASE},
           ao \in IF n >= 4 THEN LoadInt16vec(n >= 5, akmFile.ao) ELSE {prms.m_AO} :
        r = LoadedWith(prms, ho, hb, ao)
  BY DEF LoadParameters
<1>2. n \in Int /\ akmFile.hdst \in Int /\ akmFile.ho \in Shorts /\ akmFile.hbase \in Int
      /\ akmFile.ao \in Int /\ akmFile.est \in Int
  BY DEF OffsetInv, File
<1>3. prms \in Prms /\ prms.HSUC_HO \in Shorts /\ prms.HSUC_HBASE \in Int /\ prms.m_AO \in Int
  BY DEF OffsetInv, Prms
<1>4. ho \in Shorts /\ hb \in Int /\ ao \in Int /\ level \in Int
  <2>1. Uninit \subseteq Shorts /\ Uninit \subseteq Int
    BY ShortsAreNumbers DEF Uninit
  <2>2. ho \in Shorts
    BY <1>2, <1>3, <2>1 DEF LoadInt16vec
  <2>3. hb \in Int
    BY <1>2, <1>3, <2>1 DEF LoadInt32vec
  <2>4. ao \in Int
    BY <1>2, <1>3, <2>1 DEF LoadInt16vec
  <2>5. level \in Int
    BY <1>2
  <2> QED
    BY <2>2, <2>3, <2>4, <2>5
<1>5. n = FileLines => ho = akmFile.ho /\ hb = akmFile.hbase
  BY DEF LoadInt16vec, LoadInt32vec, FileLines
<1> HIDE DEF level
<1> DEFINE p == [prms EXCEPT !.HSUC_HDST = level, !.HSUC_HO = ho, !.HSUC_HBASE = hb,
                             !.m_AO = ao, !.sucEst = akmFile.est]
<1>6. p \in Prms
  <2>1. PICK x \in Int, y \in Shorts, z \in Int, w \in Int, e \in Int :
          x = level /\ y = ho /\ z = hb /\ w = ao /\ e = akmFile.est
    BY <1>2, <1>4
  <2>2. PICK old \in Prms : old = prms
    BY <1>3
  <2>3. [old EXCEPT !.HSUC_HDST = x, !.HSUC_HO = y, !.HSUC_HBASE = z, !.m_AO = w,
                    !.sucEst = e] \in Prms
    BY ResumedFields
  <2> QED
    BY <2>1, <2>2, <2>3
<1>7. p.HSUC_HO = ho /\ p.HSUC_HBASE = hb /\ p.sucEst = akmFile.est
  BY <1>3 DEF Prms
<1>8. r.p = p /\ r.ok = (n = FileLines)
  BY <1>1 DEF LoadedWith, level
<1> HIDE DEF p
<1> QED
  BY <1>5, <1>6, <1>7, <1>8 DEF OffsetInv, OffsetMatchesBase, SavedPair

\* The defaults are a pair of zeros.
LEMMA DefaultPair ==
  ASSUME NEW p \in Prms
  PROVE  SetDefaultPRMS(p) \in Prms /\ SavedPair(SetDefaultPRMS(p))
<1> DEFINE q == SetDefaultPRMS(p)
<1>1. q \in Prms
  <2>1. PICK z \in Int, h \in Shorts : z = 0 /\ h = 0
    BY ShortsAreNumbers
  <2>2. [p EXCEPT !.HSUC_HDST = z, !.HSUC_HO = h, !.HSUC_HBASE = z, !.sucEst = z] \in Prms
    BY ResumedFields
  <2> QED
    BY <2>1, <2>2 DEF SetDefaultPRMS
<1>2. q.HSUC_HO = 0 /\ q.HSUC_HBASE = 0 /\ q.sucEst = 0
  BY DEF SetDefaultPRMS, Prms
<1> HIDE DEF q
<1>3. SavedPair(q)
  BY <1>2 DEF SavedPair
<1> QED
  BY <1>1, <1>3 DEF q

\* What main resumes from: the file if it is complete, and nothing otherwise.
LEMMA LoadedPair ==
  ASSUME OffsetInv, NEW q \in Loaded(prms)
  PROVE  q \in Prms /\ SavedPair(q)
<1>1. PICK r \in LoadParameters(prms) : q = IF r.ok THEN r.p ELSE SetDefaultPRMS(r.p)
  BY DEF Loaded
<1>2. r.p \in Prms /\ r.ok \in BOOLEAN /\ (r.ok => SavedPair(r.p))
  BY LoadedFile
<1>3. CASE r.ok
  BY <1>1, <1>2, <1>3
<1>4. CASE ~r.ok
  BY <1>1, <1>2, <1>4, DefaultPair
<1> QED
  BY <1>2, <1>3, <1>4

\* A session starts to measure with the pair that was saved.
LEMMA InitPair ==
  ASSUME NEW p \in Prms, SavedPair(p)
  PROVE  Init_Measure(p) \in Prms /\ SavedPair(Init_Measure(p))
         /\ MeasuredPair(Init_Measure(p))
<1> DEFINE q == Init_Measure(p)
<1>1. p.HSUC_HO \in Shorts /\ p.HSUC_HDST \in Int /\ p.HSUC_HBASE \in Int /\ p.sucEst \in Int
  BY DEF Prms
<1>2. q \in Prms
  <2>1. PICK x \in Shorts, y \in Int, z \in Int, w \in Int, e \in Int :
          x = p.HSUC_HO /\ y = p.HSUC_HDST /\ z = p.HSUC_HBASE /\ w = 0 /\ e = p.sucEst
    BY <1>1
  <2>2. [p EXCEPT !.m_ho = x, !.m_hdst = y, !.m_hbase = z, !.m_callcnt = w, !.est = e,
                  !.strayed = FALSE] \in Prms
    BY ResumedFields
  <2> QED
    BY <2>1, <2>2 DEF Init_Measure
<1>3. q.HSUC_HO = p.HSUC_HO /\ q.HSUC_HBASE = p.HSUC_HBASE /\ q.sucEst = p.sucEst
      /\ q.m_ho = p.HSUC_HO /\ q.m_hbase = p.HSUC_HBASE /\ q.est = p.sucEst
  BY DEF Init_Measure, Prms
<1> HIDE DEF q
<1>4. SavedPair(q) /\ MeasuredPair(q)
  BY <1>3 DEF SavedPair, MeasuredPair
<1> QED
  BY <1>2, <1>4 DEF q

\* The decimator is one of the table's.
LEMMA DecimatorIsNumber ==
  ASSUME NEW time \in Int
  PROVE  GetHDOEDecimator(time) \in 1 .. 10
<1> DEFINE fits == {i \in DOMAIN s_interval : time <= s_interval[i][1]}
<1> DEFINE k == IF fits = {} THEN Len(s_interval)
                ELSE CHOOSE i \in fits : \A j \in fits : i <= j
<1>1. DOMAIN s_interval = 1 .. 11 /\ Len(s_interval) = 11
  BY DEF s_interval
<1>2. fits # {} => \E i \in fits : \A j \in fits : i <= j
  <2>1. fits \subseteq 1 .. 11
    BY <1>1
  <2> HIDE DEF fits
  <2>2. fits \subseteq Nat
    BY <2>1
  <2>3. fits # {} => \E i \in fits : \A j \in fits : ~(<<j, i>> \in OpToRel(<, Nat))
    BY <2>2, NatLessThanWellFounded, WFMin
  <2>4. \A i, j \in Nat : ~(<<j, i>> \in OpToRel(<, Nat)) => i <= j
    BY DEF OpToRel
  <2> QED
    BY <2>2, <2>3, <2>4
<1>3. k \in 1 .. 11
  BY <1>1, <1>2
<1>4. \A i \in 1 .. 11 : s_interval[i][2] \in 1 .. 10
  BY DEF s_interval
<1> QED
  BY <1>3, <1>4 DEF GetHDOEDecimator

LEMMA IntervalsAreNumbers ==
  ASSUME NEW dec \in Int, NEW d \in GetInterval(dec)
  PROVE  d \in Int
<1>1. PICK t \in AKD_GetDelay : d = IF t >= 0 THEN GetHDOEDecimator(t) ELSE dec
  BY DEF GetInterval
<1>2. t \in Int
  BY AkmdAssumption DEF AKD_GetDelay
<1> QED
  BY <1>1, <1>2, DecimatorIsNumber

\* Actions that leave the parameters, the loop and the file alone.
LEMMA Untouched ==
  ASSUME OffsetInv, UNCHANGED <<prms, akmLoop, akmFile>>
  PROVE  OffsetInv'
  BY DEF OffsetInv, OffsetMatchesBase

\* The loop moves on; the pair it measures with is known from "mag" on.
LEMMA LoopMoves ==
  ASSUME OffsetInv, UNCHANGED akmFile, prms' \in Prms, SavedPair(prms'), akmLoop' \in Loop,
         akmLoop'.pc \in {"mag", "acc", "end", "done"} => MeasuredPair(prms')
  PROVE  OffsetInv'
  BY DEF OffsetInv, OffsetMatchesBase, SavedPair, MeasuredPair

LEMMA LoopAtPc ==
  ASSUME OffsetInv, NEW pc \in {"mag", "acc", "end"}, LoopAt(pc)
  PROVE  akmLoop' \in Loop /\ akmLoop'.pc = pc
  BY DEF LoopAt, Loop, OffsetInv

\* The steps of the measuring loop.
LEMMA LoopStep ==
  ASSUME OffsetInv, MeasureSNGLoop
  PROVE  OffsetInv'
<1>0. prms \in Prms /\ SavedPair(prms) /\ akmLoop \in Loop /\ akmLoop.dec \in Int
      /\ (akmLoop.pc \in {"mag", "acc", "end", "done"} => MeasuredPair(prms))
  BY DEF OffsetInv, OffsetMatchesBase, SavedPair, MeasuredPair, Loop
<1>1. CASE LoopStart
  <2>1. prms' \in Prms /\ SavedPair(prms') /\ MeasuredPair(prms') /\ UNCHANGED akmFile
    BY <1>0, <1>1, InitPair DEF LoopStart
  <2>2. CASE LoopAt("end")
    BY <2>1, <2>2, LoopAtPc, LoopMoves
  <2>3. CASE \E d \in GetInterval(akmLoop.dec) : akmLoop' = [pc |-> "mag", dec |-> d]
    <3>1. PICK d \in GetInterval(akmLoop.dec) : akmLoop' = [pc |-> "mag", dec |-> d]
      BY <2>3
    <3>2. d \in Int
      BY <1>0, IntervalsAreNumbers
    <3>3. akmLoop' \in Loop
      BY <3>1, <3>2 DEF Loop
    <3> QED
      BY <2>1, <3>3, LoopMoves
  <2> QED
    BY <1>1, <2>2, <2>3 DEF LoopStart
<1>2. CASE LoopMag
  <2>1. MeasuredPair(prms) /\ UNCHANGED akmFile /\ LoopAt("acc")
    BY <1>0, <1>2 DEF LoopMag
  <2>2. prms' = prms \/ prms' \in GetMagneticVector(prms, akmLoop.dec)
    BY <1>2 DEF LoopMag
  <2>3. Paired(prms) /\ akmLoop.dec \in Int
    BY <1>0, <2>1 DEF Paired
  <2>4. Paired(prms')
    BY <2>2, <2>3, VectorKeepsPairs
  <2> QED
    BY <2>1, <2>4, LoopAtPc, LoopMoves DEF Paired
<1>3. CASE LoopStopped
  <2>1. MeasuredPair(prms) /\ UNCHANGED <<prms, akmFile>> /\ LoopAt("end")
    BY <1>0, <1>3 DEF LoopStopped
  <2> QED
    BY <1>0, <2>1, LoopAtPc, LoopMoves
<1>4. CASE LoopAcc
  <2>1. MeasuredPair(prms) /\ UNCHANGED <<prms, akmFile>>
    BY <1>0, <1>4 DEF LoopAcc
  <2>2. CASE LoopAt("end")
    BY <1>0, <2>1, <2>2, LoopAtPc, LoopMoves
  <2>3. CASE \E d \in GetInterval(akmLoop.dec) \cup {akmLoop.dec} :
               akmLoop' = [pc |-> "mag", dec |-> d]
    <3>1. PICK d \in GetInterval(akmLoop.dec) \cup {akmLoop.dec} :
            akmLoop' = [pc |-> "mag", dec |-> d]
      BY <2>3
    <3>2. d \in Int
      BY <1>0, IntervalsAreNumbers
    <3>3. akmLoop' \in Loop
      BY <3>1, <3>2 DEF Loop
    <3> QED
      BY <1>0, <2>1, <3>3, LoopMoves
  <2> QED
    BY <1>4, <2>2, <2>3 DEF LoopAcc
<1>5. CASE LoopEnd
  <2>1. MeasuredPair(prms) /\ UNCHANGED <<prms, akmFile>>
        /\ akmLoop' = [pc |-> "done", dec |-> 1]
    BY <1>0, <1>5 DEF LoopEnd
  <2>2. akmLoop' \in Loop
    BY <2>1 DEF Loop
  <2> QED
    BY <1>0, <2>1, <2>2, LoopMoves
<1> QED
  BY <1>1, <1>2, <1>3, <1>4, <1>5 DEF MeasureSNGLoop

\* No estimate is being made: only the saved pair matters.
LEMMA NotMeasuring ==
  ASSUME OffsetInv, UNCHANGED akmFile, prms' \in Prms, SavedPair(prms'),
         akmLoop' \in Loop, akmLoop'.pc \in {"none", "init"}
  PROVE  OffsetInv'
  BY DEF OffsetInv, OffsetMatchesBase, SavedPair

LEMMA DaemonStarts ==
  /\ InitAKSCPRMS \in Prms /\ SavedPair(InitAKSCPRMS)
  /\ NoLoop \in Loop /\ NoLoop.pc = "none" /\ NoFile \in File
  /\ [pc |-> "init", dec |-> 1] \in Loop
  BY ShortsAreNumbers DEF InitAKSCPRMS, PAT_INVALID, Prms, SavedPair, NoLoop, Loop, NoFile, File

\* A file that is being written holds numbers, and when it is complete the pair.
LEMMA WrittenPair ==
  ASSUME OffsetInv, NEW n \in 0 .. FileLines, akmFile' = Written(n),
         UNCHANGED <<prms, akmLoop>>
  PROVE  OffsetInv'
<1>1. prms.HSUC_HDST \in Int /\ prms.HSUC_HO \in Shorts /\ prms.HSUC_HBASE \in Int
      /\ prms.m_AO \in Int /\ prms.sucEst \in Int
  BY DEF OffsetInv, Prms
<1>2. akmFile' \in File
  BY <1>1, ShortsAreNumbers DEF Written, File, FileLines
<1>3. n = FileLines => akmFile'.ho = prms.HSUC_HO /\ akmFile'.hbase = prms.HSUC_HBASE
                       /\ akmFile'.est = prms.sucEst
  BY DEF Written, FileLines
<1>4. akmFile'.lines = n
  BY DEF Written
<1> QED
  BY <1>2, <1>3, <1>4 DEF OffsetInv, OffsetMatchesBase

\* There is a thread, or a call of the loop, only while main measures or waits
\* for its end (pthread_create, pthread_join).
ThreadJoined == akmMain \notin {"measure", "join"} => akmLoop.pc = "none"

\* The loop does not move main, and is not there unless main started it.
LEMMA ThreadStep ==
  ASSUME ThreadJoined, ANext
  PROVE  ThreadJoined'
<1>1. CASE MeasureSNGLoop
  <2>1. akmLoop.pc \in {"init", "mag", "acc", "end"} /\ UNCHANGED akmMain
    BY <1>1 DEF MeasureSNGLoop, LoopStart, LoopMag, LoopStopped, LoopAcc, LoopEnd
  <2> QED
    BY <2>1 DEF ThreadJoined
<1>2. CASE OptParse \/ AKD_InitDevice \/ Boot \/ GetOpen \/ GetClose \/ MenuQuit \/ FST_Body
           \/ SaveOpen \/ SaveParameters \/ SaveFails \/ MenuCalibrate \/ Restart
  <2>1. UNCHANGED akmLoop /\ (akmMain \notin {"measure", "join"} \/ GetClose)
    BY <1>2 DEF OptParse, AKD_InitDevice, Boot, GetOpen, GetClose, MenuQuit, FST_Body,
                SaveOpen, SaveParameters, SaveFails, MenuCalibrate, Restart
  <2> QED
    BY <2>1 DEF ThreadJoined, GetClose, MainAt
<1>3. CASE startClone \/ MenuMeasure
  <2>1. CASE akmMain' \in {"measure", "join"}
    BY <2>1 DEF ThreadJoined
  <2>2. CASE akmMain' \notin {"measure", "join"}
    BY <1>3, <2>2 DEF startClone, MenuMeasure, MainAt, ThreadJoined
  <2> QED
    BY <2>1, <2>2
<1>4. CASE Join \/ AKD_DeinitDevice \/ Kill
  <2>1. akmLoop' = NoLoop
    BY <1>4 DEF Join, AKD_DeinitDevice, Kill, Gone
  <2> QED
    BY <2>1 DEF NoLoop, ThreadJoined
<1> QED
  BY <1>1, <1>2, <1>3, <1>4 DEF ANext, Main

\* The steps of main.
LEMMA MainStep ==
  ASSUME OffsetInv, ThreadJoined, Main
  PROVE  OffsetInv'
<1>0. prms \in Prms /\ SavedPair(prms) /\ akmLoop \in Loop /\ akmFile \in File
      /\ (akmLoop.pc \in {"mag", "acc", "end", "done"} => MeasuredPair(prms))
  BY DEF OffsetInv, OffsetMatchesBase, SavedPair, MeasuredPair
<1>1. CASE AKD_InitDevice \/ GetOpen \/ GetClose \/ MenuQuit \/ FST_Body \/ SaveFails
  BY <1>1, Untouched DEF AKD_InitDevice, GetOpen, GetClose, MenuQuit, FST_Body, SaveFails
<1>2. CASE OptParse
  <2>1. CASE UNCHANGED prms
    BY <1>2, <2>1, Untouched DEF OptParse
  <2>2. CASE \E console \in BOOLEAN, pat \in {PAT_INVALID} \cup Boards :
               prms' = [prms EXCEPT !.console = console, !.m_hlayout = pat]
    <3>1. PICK console \in BOOLEAN, pat \in {PAT_INVALID} \cup Boards :
            prms' = [prms EXCEPT !.console = console, !.m_hlayout = pat]
      BY <2>2
    <3>2. pat \in Int
      BY AkmdAssumption DEF PAT_INVALID
    <3>3. prms' \in Prms /\ prms'.HSUC_HO = prms.HSUC_HO
          /\ prms'.HSUC_HBASE = prms.HSUC_HBASE /\ prms'.sucEst = prms.sucEst
          /\ prms'.m_ho = prms.m_ho /\ prms'.m_hbase = prms.m_hbase /\ prms'.est = prms.est
          /\ prms'.strayed = prms.strayed
      BY <1>0, <3>1, <3>2 DEF Prms
    <3>4. UNCHANGED <<akmLoop, akmFile>>
      BY <1>2 DEF OptParse
    <3> QED
      BY <3>3, <3>4 DEF OffsetInv, OffsetMatchesBase
  <2> QED
    BY <1>2, <2>1, <2>2 DEF OptParse
<1>3. CASE Boot
  <2>1. CASE UNCHANGED prms
    BY <1>3, <2>1, Untouched DEF Boot
  <2>2. CASE \E pat \in IF prms.m_hlayout = PAT_INVALID THEN AKD_GetLayout
                        ELSE {prms.m_hlayout} :
               prms' = [prms EXCEPT !.m_hlayout = pat]
    <3>1. PICK pat \in IF prms.m_hlayout = PAT_INVALID THEN AKD_GetLayout
                       ELSE {prms.m_hlayout} :
            prms' = [prms EXCEPT !.m_hlayout = pat]
      BY <2>2
    <3>2. prms.m_hlayout \in Int /\ AKD_GetLayout \subseteq Int
      BY <1>0, AkmdAssumption DEF Prms, AKD_GetLayout, PAT_INVALID
    <3>3. pat \in Int
      BY <3>2
    <3>4. prms' \in Prms /\ prms'.HSUC_HO = prms.HSUC_HO
          /\ prms'.HSUC_HBASE = prms.HSUC_HBASE /\ prms'.sucEst = prms.sucEst
          /\ prms'.m_ho = prms.m_ho /\ prms'.m_hbase = prms.m_hbase /\ prms'.est = prms.est
          /\ prms'.strayed = prms.strayed
      BY <1>0, <3>1, <3>3 DEF Prms
    <3>5. UNCHANGED <<akmLoop, akmFile>>
      BY <1>3 DEF Boot
    <3> QED
      BY <3>4, <3>5 DEF OffsetInv, OffsetMatchesBase
  <2> QED
    BY <1>3, <2>1, <2>2 DEF Boot
<1>4. CASE startClone
  <2>1. prms' \in Loaded(prms) /\ UNCHANGED akmFile
    BY <1>4 DEF startClone
  <2>2. prms' \in Prms /\ SavedPair(prms')
    BY <2>1, LoadedPair
  <2>3. CASE akmLoop' = [pc |-> "init", dec |-> 1]
    BY <2>1, <2>2, <2>3, DaemonStarts, NotMeasuring
  <2>4. CASE UNCHANGED akmLoop
    <3>1. akmLoop.pc = "none"
      BY <1>4 DEF startClone, ThreadJoined
    <3> QED
      BY <1>0, <2>1, <2>2, <2>4, <3>1, NotMeasuring
  <2> QED
    BY <1>4, <2>3, <2>4 DEF startClone
<1>5. CASE MenuMeasure
  <2>1. prms' \in Loaded(prms) /\ UNCHANGED akmFile /\ akmLoop' = [pc |-> "init", dec |-> 1]
    BY <1>5 DEF MenuMeasure
  <2>2. prms' \in Prms /\ SavedPair(prms')
    BY <2>1, LoadedPair
  <2> QED
    BY <2>1, <2>2, DaemonStarts, NotMeasuring
<1>6. CASE MenuCalibrate
  <2>1. PICK p \in Loaded(prms) : prms' = SimpleCalibration(p)
    BY <1>6 DEF MenuCalibrate
  <2>2. p \in Prms /\ SavedPair(p)
    BY LoadedPair
  <2>3. prms' \in Prms /\ SavedPair(prms')
    BY <2>1, <2>2 DEF SimpleCalibration, AOT_GetAccOffset, Prms, SavedPair
  <2>4. UNCHANGED <<akmLoop, akmFile>> /\ akmLoop.pc = "none"
    BY <1>6 DEF MenuCalibrate, ThreadJoined
  <2> QED
    BY <1>0, <2>3, <2>4, NotMeasuring
<1>7. CASE Join
  <2>1. UNCHANGED <<prms, akmFile>> /\ akmLoop' = NoLoop
    BY <1>7 DEF Join
  <2> QED
    BY <1>0, <2>1, DaemonStarts, NotMeasuring
<1>8. CASE SaveOpen
  <2>1. UNCHANGED <<prms, akmLoop>> /\ akmFile' = NoFile
    BY <1>8 DEF SaveOpen
  <2>2. akmFile' \in File /\ akmFile'.lines # FileLines
    BY <2>1, DaemonStarts DEF NoFile, FileLines
  <2> QED
    BY <2>1, <2>2 DEF OffsetInv, OffsetMatchesBase
<1>9. CASE SaveParameters
  BY <1>9, WrittenPair DEF SaveParameters
<1>10. CASE AKD_DeinitDevice
  BY <1>10, DaemonStarts, NotMeasuring DEF AKD_DeinitDevice, Gone
<1> QED
  BY <1>1, <1>2, <1>3, <1>4, <1>5, <1>6, <1>7, <1>8, <1>9, <1>10 DEF Main

LEMMA OffsetInvariance == ASpec => [](OffsetInv /\ ThreadJoined)
<1>1. AInit => OffsetInv /\ ThreadJoined
  <2> SUFFICES ASSUME AInit PROVE OffsetInv /\ ThreadJoined
    OBVIOUS
  <2>1. prms \in Prms /\ SavedPair(prms) /\ akmFile \in File /\ akmLoop \in Loop
        /\ akmLoop.pc = "none" /\ akmFile.lines = 0
    BY DaemonStarts DEF AInit, NoFile
  <2> QED
    BY <2>1 DEF OffsetInv, OffsetMatchesBase, SavedPair, ThreadJoined, FileLines
<1>2. OffsetInv /\ ThreadJoined /\ [ANext]_avars => OffsetInv' /\ ThreadJoined'
  <2> SUFFICES ASSUME OffsetInv, ThreadJoined, [ANext]_avars PROVE OffsetInv' /\ ThreadJoined'
    OBVIOUS
  <2>1. CASE Main
    BY <2>1, MainStep, ThreadStep DEF ANext
  <2>2. CASE MeasureSNGLoop
    BY <2>2, LoopStep, ThreadStep DEF ANext
  <2>3. CASE Restart
    BY <2>3, Untouched, ThreadStep DEF ANext, Restart
  <2>4. CASE Kill
    BY <2>4, DaemonStarts, NotMeasuring, ThreadStep DEF ANext, Kill, Gone
  <2>5. CASE UNCHANGED avars
    BY <2>5, Untouched DEF avars, ThreadJoined
  <2> QED
    BY <2>1, <2>2, <2>3, <2>4, <2>5 DEF ANext
<1> QED
  BY <1>1, <1>2, PTL DEF ASpec

\* Whatever the library estimates, however often the base moves, and wherever
\* the daemon is killed while it saves, the offset is the one estimated for its
\* base: as it measures, in what it resumes from, and in a complete file
\* (Measure.c: GetMagneticVector, Init_Measure; FileIO.c; main.c).
THEOREM OffsetCorrect == ASpec => []OffsetMatchesBase
<1>1. OffsetInv => OffsetMatchesBase
  BY DEF OffsetInv
<1> QED
  BY <1>1, OffsetInvariance, PTL

\* The decimators of the table that are int16s.
Decimators == (1 .. 10) \cap Shorts

\* The loop runs with a decimator of the table, and the counter is an int16, below
\* zero too.  The board's layout is unknown or one of the eight.
CountersInRange ==
  /\ prms.m_callcnt \in Shorts /\ prms.m_hlayout \in {PAT_INVALID} \cup Layouts
  /\ akmLoop.dec \in Decimators

\* The variables that are not numbers of the estimate.
Placed ==
  /\ s_fdDev \in BOOLEAN /\ g_stopRequest \in {0, 1} /\ g_mainQuit \in BOOLEAN
  /\ akmMain \in {"start", "device", "boot", "open", "opened", "measure", "join", "save",
                   "writing", "menu", "exit", "down"}
  /\ akmFile.lines \in 0 .. FileLines
  /\ fst \in {-1, 0, 1}

LEMMA PlacedStep ==
  ASSUME Placed, [ANext]_avars
  PROVE  Placed'
<1> USE DEF Placed, MainAt
<1>1. CASE MeasureSNGLoop
  BY <1>1 DEF MeasureSNGLoop, LoopStart, LoopMag, LoopStopped, LoopAcc, LoopEnd
<1>2. CASE OptParse \/ AKD_InitDevice \/ Boot
  BY <1>2 DEF OptParse, AKD_InitDevice, Boot
<1>3. CASE GetOpen
  BY <1>3 DEF GetOpen
<1>4. CASE startClone \/ Join \/ MenuMeasure
  BY <1>4 DEF startClone, Join, MenuMeasure
<1>5. CASE GetClose
  <2>1. g_mainQuit' \in BOOLEAN
    BY <1>5 DEF GetClose
  <2> QED
    BY <1>5, <2>1 DEF GetClose
<1>6. CASE MenuCalibrate \/ MenuQuit
  BY <1>6 DEF MenuCalibrate, MenuQuit
<1>7. CASE FST_Body
  BY <1>7 DEF FST_Body, FST_AK09912
<1>8. CASE SaveOpen \/ SaveFails
  BY <1>8 DEF SaveOpen, SaveFails, Saved, NoFile, FileLines
<1>9. CASE SaveParameters
  <2>1. PICK n \in 0 .. FileLines : akmFile' = Written(n)
    BY <1>9 DEF SaveParameters
  <2>2. akmFile'.lines \in 0 .. FileLines
    BY <2>1 DEF Written
  <2> QED
    BY <1>9, <2>2 DEF SaveParameters, Saved
<1>10. CASE AKD_DeinitDevice \/ Kill \/ Restart
  BY <1>10 DEF AKD_DeinitDevice, Kill, Gone, Restart
<1>11. CASE UNCHANGED avars
  BY <1>11 DEF avars
<1> QED
  BY <1>1, <1>2, <1>3, <1>4, <1>5, <1>6, <1>7, <1>8, <1>9, <1>10, <1>11 DEF ANext, Main

\* A measurement leaves the layout alone and the counter an int16.
LEMMA VectorCounts ==
  ASSUME NEW p \in Prms, p.m_callcnt \in Shorts, NEW dec \in Shorts,
         NEW q \in GetMagneticVector(p, dec)
  PROVE  q.m_callcnt \in Shorts /\ q.m_hlayout = p.m_hlayout
<1>0. CountedDown(p).m_callcnt \in Shorts /\ CountedDown(p).m_hlayout = p.m_hlayout
  <2>1. /\ CountedDown(p).m_callcnt = IF p.m_callcnt = -ShortMax - 1 THEN ShortMax
                                      ELSE p.m_callcnt - 1
        /\ CountedDown(p).m_hlayout = p.m_hlayout
    BY DEF CountedDown, Prms
  <2> QED
    BY <2>1, AkmdAssumption DEF Shorts
<1>01. \A r \in BaseLeft(p) : r.m_callcnt = p.m_callcnt /\ r.m_hlayout = p.m_hlayout
                              /\ Unsolved(r).m_callcnt = p.m_callcnt
                              /\ Unsolved(r).m_hlayout = p.m_hlayout
  BY DEF BaseLeft, Strayed, Unsolved, Prms
<1>1. CASE q \in Unusable(p) \cup Disturbed(p)
  BY <1>01, <1>1 DEF Unusable, Disturbed
<1>2. CASE q \in HbaseChanged(p)
  <2>0. PICK b \in Bases \ {p.m_hbase} :
          \E ho \in TransByHbase(p, b) :
            q = [Unsolved(IF Translated(p, b) \in Shorts THEN p ELSE Strayed(p))
                   EXCEPT !.m_hbase = b, !.m_ho = ho]
    BY <1>2 DEF HbaseChanged
  <2>1. PICK ho \in TransByHbase(p, b) :
          q = [Unsolved(IF Translated(p, b) \in Shorts THEN p ELSE Strayed(p))
                 EXCEPT !.m_hbase = b, !.m_ho = ho]
    BY <2>0
  <2>2. CASE Translated(p, b) \in Shorts
    BY <2>1, <2>2 DEF Unsolved, Prms
  <2>3. CASE Translated(p, b) \notin Shorts
    BY <2>1, <2>3 DEF Unsolved, Strayed, Prms
  <2> QED
    BY <2>2, <2>3
<1>3. CASE q \in Denied(p)
  BY <1>0, <1>3 DEF Denied
<1>4. CASE q \in HDOEProcess(p, dec)
  <2>1. CASE q = CountedDown(p)
    BY <1>0, <2>1
  <2>2. CASE q # CountedDown(p)
    BY <1>4, <2>2 DEF HDOEProcess, Prms
  <2> QED
    BY <2>1, <2>2
<1> QED
  BY <1>1, <1>2, <1>3, <1>4 DEF GetMagneticVector

\* Loading, resuming and calibrating touch neither.
LEMMA LoadingCounts ==
  ASSUME OffsetInv, NEW q \in Loaded(prms)
  PROVE  q.m_callcnt = prms.m_callcnt /\ q.m_hlayout = prms.m_hlayout
<1>1. PICK r \in LoadParameters(prms) : q = IF r.ok THEN r.p ELSE SetDefaultPRMS(r.p)
  BY DEF Loaded
<1>2. PICK ho, hb, ao : r = LoadedWith(prms, ho, hb, ao)
  BY DEF LoadParameters
<1>3. prms \in Prms /\ r.p \in Prms
  BY LoadedFile DEF OffsetInv
<1>4. r.p.m_callcnt = prms.m_callcnt /\ r.p.m_hlayout = prms.m_hlayout
  BY <1>2, <1>3 DEF LoadedWith, Prms
<1>5. /\ SetDefaultPRMS(r.p).m_callcnt = r.p.m_callcnt
      /\ SetDefaultPRMS(r.p).m_hlayout = r.p.m_hlayout
  BY <1>3 DEF SetDefaultPRMS, Prms
<1> QED
  BY <1>1, <1>4, <1>5

LEMMA CountedStep ==
  ASSUME OffsetInv, CountersInRange, [ANext]_avars
  PROVE  CountersInRange'
<1>0. prms \in Prms /\ akmLoop \in Loop /\ prms.m_callcnt \in Shorts
      /\ akmLoop.dec \in Decimators /\ prms.m_hlayout \in {PAT_INVALID} \cup Layouts
  BY DEF OffsetInv, CountersInRange
<1>000. 1 \in Decimators /\ 0 \in Shorts /\ Decimators \subseteq Shorts
  BY AkmdAssumption DEF Decimators, Shorts
<1>00. {PAT_INVALID} \cup Boards \subseteq {PAT_INVALID} \cup Layouts
  BY AkmdAssumption DEF PAT_INVALID, Layouts
<1>01. \A pc : LoopAt(pc) => akmLoop'.dec = akmLoop.dec
  BY <1>0 DEF LoopAt, Loop
<1>02. ASSUME NEW d \in GetInterval(akmLoop.dec) PROVE d \in Decimators
  <2>1. PICK t \in AKD_GetDelay : d = IF t >= 0 THEN GetHDOEDecimator(t) ELSE akmLoop.dec
    BY DEF GetInterval
  <2>2. t \in Int /\ (t >= 0 => GetHDOEDecimator(t) <= ShortMax)
    BY AkmdAssumption DEF AKD_GetDelay
  <2>3. CASE t >= 0
    <3>1. d \in 1 .. 10 /\ d <= ShortMax
      BY <2>1, <2>2, <2>3, DecimatorIsNumber
    <3> QED
      BY <3>1, AkmdAssumption DEF Decimators, Shorts
  <2>4. CASE ~(t >= 0)
    BY <1>0, <2>1, <2>4
  <2> QED
    BY <2>3, <2>4
<1>1. CASE LoopStart
  <2>1. prms'.m_callcnt = 0 /\ prms'.m_hlayout = prms.m_hlayout
    BY <1>0, <1>1 DEF LoopStart, Init_Measure, Prms
  <2>2. akmLoop'.dec \in Decimators
    BY <1>0, <1>01, <1>02, <1>1 DEF LoopStart
  <2> QED
    BY <1>0, <1>000, <2>1, <2>2 DEF CountersInRange
<1>2. CASE LoopMag
  <2>1. prms' = prms \/ prms' \in GetMagneticVector(prms, akmLoop.dec)
    BY <1>2 DEF LoopMag
  <2>2. prms'.m_callcnt \in Shorts /\ prms'.m_hlayout = prms.m_hlayout
    BY <1>0, <1>000, <2>1, VectorCounts
  <2>3. akmLoop'.dec = akmLoop.dec
    BY <1>01, <1>2 DEF LoopMag
  <2> QED
    BY <1>0, <2>2, <2>3 DEF CountersInRange
<1>3. CASE LoopStopped \/ LoopAcc \/ LoopEnd
  <2>1. UNCHANGED prms
    BY <1>3 DEF LoopStopped, LoopAcc, LoopEnd
  <2>2. akmLoop'.dec \in Decimators
    BY <1>0, <1>000, <1>01, <1>02, <1>3 DEF LoopStopped, LoopAcc, LoopEnd
  <2> QED
    BY <1>0, <2>1, <2>2 DEF CountersInRange
<1>4. CASE AKD_InitDevice \/ GetOpen \/ GetClose \/ MenuQuit \/ FST_Body \/ SaveOpen
           \/ SaveParameters \/ SaveFails \/ Restart
  BY <1>4 DEF AKD_InitDevice, GetOpen, GetClose, MenuQuit, FST_Body, SaveOpen,
              SaveParameters, SaveFails, Restart, CountersInRange
<1>5. CASE OptParse
  <2>1. akmLoop' = akmLoop
    BY <1>5 DEF OptParse
  <2>2. prms'.m_callcnt = prms.m_callcnt /\ prms'.m_hlayout \in {PAT_INVALID} \cup Layouts
    BY <1>0, <1>00, <1>5 DEF OptParse, Prms
  <2> QED
    BY <1>0, <2>1, <2>2 DEF CountersInRange
<1>6. CASE Boot
  <2>1. akmLoop' = akmLoop
    BY <1>6 DEF Boot
  <2>2. AKD_GetLayout \subseteq {PAT_INVALID} \cup Layouts
    BY <1>00 DEF AKD_GetLayout
  <2>3. prms'.m_callcnt = prms.m_callcnt /\ prms'.m_hlayout \in {PAT_INVALID} \cup Layouts
    BY <1>0, <1>6, <2>2 DEF Boot, Prms
  <2> QED
    BY <1>0, <2>1, <2>3 DEF CountersInRange
<1>7. CASE startClone \/ MenuMeasure
  <2>1. prms' \in Loaded(prms) /\ akmLoop' \in {akmLoop, [pc |-> "init", dec |-> 1]}
    BY <1>7 DEF startClone, MenuMeasure
  <2>2. prms'.m_callcnt = prms.m_callcnt /\ prms'.m_hlayout = prms.m_hlayout
    BY <2>1, LoadingCounts
  <2> QED
    BY <1>0, <1>000, <2>1, <2>2 DEF CountersInRange
<1>8. CASE MenuCalibrate
  <2>1. PICK p \in Loaded(prms) : prms' = SimpleCalibration(p) /\ akmLoop' = akmLoop
    BY <1>8 DEF MenuCalibrate
  <2>2. p \in Prms /\ p.m_callcnt = prms.m_callcnt /\ p.m_hlayout = prms.m_hlayout
    BY LoadedPair, LoadingCounts
  <2>3. prms'.m_callcnt = p.m_callcnt /\ prms'.m_hlayout = p.m_hlayout
    BY <2>1, <2>2 DEF SimpleCalibration, Prms
  <2> QED
    BY <1>0, <2>1, <2>2, <2>3 DEF CountersInRange
<1>9. CASE Join
  BY <1>0, <1>000, <1>9 DEF Join, NoLoop, CountersInRange
<1>10. CASE AKD_DeinitDevice \/ Kill
  BY <1>000, <1>10 DEF AKD_DeinitDevice, Kill, Gone, InitAKSCPRMS, NoLoop, CountersInRange
<1>11. CASE UNCHANGED avars
  BY <1>11 DEF avars, CountersInRange
<1> QED
  BY <1>1, <1>2, <1>3, <1>4, <1>5, <1>6, <1>7, <1>8, <1>9, <1>10, <1>11
     DEF ANext, Main, MeasureSNGLoop

\* The daemon's state keeps its types: the loop's decimator is one of the table,
\* whatever delays the driver asks for, the layout one the board can have, and the
\* offsets and the counter, which runs below zero and wraps while the library denies
\* its service, are int16s (misc.c: GetHDOEDecimator; Measure.c; main.c).
THEOREM AkmdTypeCorrect == ASpec => []ATypeOK
<1>1. AInit => CountersInRange /\ Placed
  <2> SUFFICES ASSUME AInit PROVE CountersInRange /\ Placed
    OBVIOUS
  <2>1. CountersInRange
    BY AkmdAssumption DEF AInit, CountersInRange, InitAKSCPRMS, NoLoop, Decimators, Shorts
  <2>2. akmFile.lines \in 0 .. FileLines
    BY DEF AInit, NoFile, FileLines
  <2>3. Placed
    BY <2>2 DEF AInit, Placed
  <2> QED
    BY <2>1, <2>3
<1>2. OffsetInv /\ CountersInRange /\ [ANext]_avars => CountersInRange'
  BY CountedStep
<1>3. Placed /\ [ANext]_avars => Placed'
  BY PlacedStep
<1>4. OffsetInv /\ CountersInRange /\ Placed => ATypeOK
  <2> SUFFICES ASSUME OffsetInv, CountersInRange, Placed PROVE ATypeOK
    OBVIOUS
  <2>1. DOMAIN prms = DOMAIN InitAKSCPRMS
    BY DEF OffsetInv, Prms, InitAKSCPRMS
  <2>2. akmLoop \in [pc : {"none", "init", "mag", "acc", "end", "done"}, dec : 1 .. 10]
    BY DEF OffsetInv, Loop, CountersInRange, Decimators
  <2>3. {prms.m_callcnt, prms.m_ho, prms.HSUC_HO, akmFile.ho} \subseteq Shorts
    BY DEF OffsetInv, Prms, File, CountersInRange
  <2> QED
    BY <2>1, <2>2, <2>3 DEF CountersInRange, Placed, ATypeOK
<1> QED
  BY <1>1, <1>2, <1>3, <1>4, OffsetInvariance, PTL DEF ASpec
===============================================================================
