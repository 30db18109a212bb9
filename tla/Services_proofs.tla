---------------------------- MODULE Services_proofs ----------------------------
(***************************************************************************)
(* Proofs about the power HAL, the firmware loader and the battery         *)
(* service, for every set of hints and users, every firmware and layout of *)
(* the flash, and every set of counts and capacities; and about the        *)
(* composition of all the services.                                        *)
(***************************************************************************)
EXTENDS MCServices, Akmd_proofs, Motosh_proofs, FiniteSetTheorems

-------------------------------------------------------------------------------
(* The power HAL.                                                          *)

Counted == {h \in Hints : handles[h].ref_count > 0}

\* The locks whose handles are not thrown away.
Held == perfd \ discarded

\* What the HAL remembers of a hint follows its users, as far as they got a lock.
UsersInv ==
  /\ handles \in [Hints -> [handle : Int, ref_count : Nat]] /\ users \in [Hints -> Nat]
  /\ \A h \in Hints : /\ handles[h].ref_count <= users[h] /\ users[h] <= MaxUsers
                      /\ handles[h].handle > 0 <=> handles[h].ref_count > 0
                      /\ h \notin refused => users[h] = handles[h].ref_count
  /\ {qcopt_handle, display_hint_sent, display_fd} \subseteq BOOLEAN

\* The display takes one lock, and only after its hint was sent.
DisplayInv ==
  /\ active_hint_list = <<>> \/ \E x \in Nat \ {0} : active_hint_list = <<x>>
  /\ ~display_hint_sent => active_hint_list = <<>>

\* The daemon's locks are numbers, and there are none without the library.
DaemonInv ==
  /\ perfd \subseteq Nat \ {0} /\ IsFiniteSet(perfd) /\ discarded \subseteq perfd
  /\ ~qcopt_handle => perfd = {}

\* No two hints have the same lock, and none has the display's.
LocksInv ==
  /\ \A g, h \in Counted : handles[g].handle = handles[h].handle => g = h
  /\ \A h \in Counted : handles[h].handle \notin ToSet(active_hint_list)
  /\ Held = {handles[h].handle : h \in Counted} \cup ToSet(active_hint_list)
  /\ IsFiniteSet(Counted) /\ IsFiniteSet(Held)
  /\ Cardinality(Held) = Cardinality(Counted) + Len(active_hint_list)

PInv == UsersInv /\ DisplayInv /\ DaemonInv /\ LocksInv

\* A nonempty set of naturals has a least element.
LEMMA LeastNatural ==
  ASSUME NEW S \in SUBSET Nat, S # {}
  PROVE  \E x \in S : \A y \in S : x <= y
<1>1. \A i, j \in Nat : ~ (<<j, i>> \in OpToRel(<, Nat)) => i <= j
  BY DEF OpToRel
<1>2. \E x \in S : \A y \in S : ~ (<<y, x>> \in OpToRel(<, Nat))
  BY NatLessThanWellFounded, WFMin, Zenon
<1> QED
  BY <1>1, <1>2

\* The daemon has a handle for one more lock (utils.c: perf_hint).
LEMMA NewHandleIsNew ==
  ASSUME NEW locks, IsFiniteSet(locks), locks \subseteq Nat \ {0}
  PROVE  NewHandle(locks) \in Nat \ {0} /\ NewHandle(locks) \notin locks
<1> DEFINE n == Cardinality(locks) + 1
           free == (1 .. n) \ locks
<1>1. n \in Nat /\ n > 0 /\ n = Cardinality(locks) + 1
  BY FS_CardinalityType
<1> HIDE DEF n
<1>2. free # {}
  <2>1. IsFiniteSet(1 .. n) /\ Cardinality(1 .. n) = n
    BY <1>1, FS_Interval
  <2>2. CASE 1 .. n \subseteq locks
    <3>1. Cardinality(1 .. n) <= Cardinality(locks)
      BY <2>2, FS_Subset
    <3>2. Cardinality(locks) \in Nat
      BY FS_CardinalityType
    <3> QED
      BY <1>1, <2>1, <3>1, <3>2
  <2> QED
    BY <2>2
<1>3. PICK x \in free : \A y \in free : x <= y
  <2>1. free \subseteq Nat
    BY <1>1
  <2> QED
    BY <1>2, <2>1, LeastNatural
<1>4. x \in 1 .. n /\ x \notin locks /\ \A k \in 1 .. x - 1 : k \in locks
  <2>1. x \in 1 .. n /\ x \notin locks
    BY <1>3
  <2>2. ASSUME NEW k \in 1 .. x - 1 PROVE k \in locks
    <3>1. k \in 1 .. n /\ ~ (x <= k)
      BY <1>1, <2>1
    <3> QED
      BY <1>3, <3>1
  <2> QED
    BY <2>1, <2>2
<1> QED
  BY <1>1, <1>4 DEF NewHandle, n

\* Every lock that is remembered is the handle of a hint or of the display.
LEMMA LocksArePositive ==
  ASSUME PInv
  PROVE  /\ Held \subseteq perfd /\ perfd \subseteq Nat \ {0} /\ IsFiniteSet(perfd)
         /\ ToSet(active_hint_list) \subseteq Held
         /\ \A h \in Counted : handles[h].handle \in Held
         /\ \A h \in Hints : h \in Counted <=> handles[h].handle > 0
         /\ perfd # {} => qcopt_handle
<1>1. \A h \in Hints : h \in Counted <=> handles[h].handle > 0
  BY DEF PInv, UsersInv, Counted
<1>2. /\ Held \subseteq perfd /\ perfd \subseteq Nat \ {0} /\ IsFiniteSet(perfd)
      /\ perfd # {} => qcopt_handle
  BY DEF PInv, DaemonInv, UsersInv, Held
<1> QED
  BY <1>1, <1>2 DEF PInv, LocksInv

\* A lock that is added is no other hint's, nor the display's (power-common.c: power_hint).
LEMMA HintOnKeeps == PInv /\ (\E h \in Hints : HintOn(h)) => PInv'
<1> SUFFICES ASSUME PInv, NEW h \in Hints, HintOn(h) PROVE PInv'
  OBVIOUS
<1>1. PICK l \in IF handles[h].ref_count = 0 THEN perf_hint_enable ELSE {handles[h].handle} :
        /\ handles' = [handles EXCEPT ![h] =
                         [handle |-> l, ref_count |-> IF l > 0 THEN @.ref_count + 1 ELSE @.ref_count]]
        /\ perfd' = IF l > 0 THEN perfd \cup {l} ELSE perfd
        /\ refused' = IF l > 0 THEN refused ELSE refused \cup {h}
  BY DEF HintOn
<1>2. /\ users[h] < MaxUsers /\ users' = [users EXCEPT ![h] = @ + 1]
      /\ UNCHANGED <<qcopt_handle, active_hint_list, display_hint_sent, display_fd, discarded>>
  BY DEF HintOn
<1>3. /\ handles \in [Hints -> [handle : Int, ref_count : Nat]] /\ users \in [Hints -> Nat]
      /\ MaxUsers \in Nat
  BY PowerAssumption DEF PInv, UsersInv
<1>4. perfd \subseteq Nat \ {0} /\ IsFiniteSet(perfd) /\ discarded \subseteq perfd
      /\ Held \subseteq perfd
  BY LocksArePositive DEF PInv, DaemonInv
<1>5. l \in Int /\ (l > 0 /\ handles[h].ref_count = 0
                      => l \in Nat \ {0} /\ l \notin perfd /\ qcopt_handle)
  <2>1. NewHandle(perfd) \in Nat \ {0} /\ NewHandle(perfd) \notin perfd
    BY <1>4, NewHandleIsNew
  <2>2. CASE handles[h].ref_count = 0
    BY <1>1, <2>1, <2>2 DEF perf_hint_enable, Acquire
  <2>3. CASE handles[h].ref_count # 0
    BY <1>1, <1>3, <2>3
  <2> QED
    BY <2>2, <2>3
<1>6. /\ handles'[h].handle = l
      /\ handles'[h].ref_count = IF l > 0 THEN handles[h].ref_count + 1 ELSE handles[h].ref_count
      /\ \A g \in Hints \ {h} : handles'[g] = handles[g]
      /\ users'[h] = users[h] + 1 /\ \A g \in Hints \ {h} : users'[g] = users[g]
  BY <1>1, <1>2, <1>3
<1>7. handles[h].ref_count # 0
        => l = handles[h].handle /\ l > 0 /\ l \in perfd /\ l \in Held /\ qcopt_handle
  <2> SUFFICES ASSUME handles[h].ref_count # 0
               PROVE  /\ l = handles[h].handle /\ l > 0 /\ l \in perfd /\ l \in Held
                      /\ qcopt_handle
    OBVIOUS
  <2>1. h \in Counted
    BY <1>3 DEF Counted
  <2> QED
    BY <1>1, <2>1, LocksArePositive
<1>8. UsersInv'
  <2>1. handles' \in [Hints -> [handle : Int, ref_count : Nat]] /\ users' \in [Hints -> Nat]
    BY <1>1, <1>2, <1>3, <1>5
  <2>2. ASSUME NEW g \in Hints
        PROVE  /\ handles'[g].ref_count <= users'[g] /\ users'[g] <= MaxUsers
               /\ handles'[g].handle > 0 <=> handles'[g].ref_count > 0
               /\ g \notin refused' => users'[g] = handles'[g].ref_count
    <3>1. CASE g = h
      <4>1. /\ handles[h].ref_count <= users[h] /\ handles[h].ref_count \in Nat
            /\ users[h] \in Nat
            /\ h \notin refused => users[h] = handles[h].ref_count
        BY <1>3 DEF PInv, UsersInv
      <4> QED
        BY <1>1, <1>2, <1>3, <1>5, <1>6, <1>7, <3>1, <4>1
    <3>2. CASE g # h
      BY <1>1, <1>6, <3>2 DEF PInv, UsersInv
    <3> QED
      BY <3>1, <3>2
  <2> QED
    BY <1>2, <2>1, <2>2 DEF PInv, UsersInv
<1>9. LocksInv'
  <2>1. CASE l > 0 /\ handles[h].ref_count = 0
    <3>1. Counted' = Counted \cup {h} /\ h \notin Counted
      BY <1>3, <1>6, <2>1 DEF Counted
    <3>2. Held' = Held \cup {l} /\ l \notin Held /\ l \notin perfd
      <4>1. perfd' = perfd \cup {l} /\ l \notin perfd /\ discarded' = discarded
        BY <1>1, <1>2, <1>5, <2>1
      <4> QED
        BY <1>4, <4>1 DEF Held
    <3>3. /\ IsFiniteSet(Counted') /\ Cardinality(Counted') = Cardinality(Counted) + 1
          /\ IsFiniteSet(Held') /\ Cardinality(Held') = Cardinality(Held) + 1
      BY <3>1, <3>2, FS_AddElement DEF PInv, LocksInv
    <3>4. Cardinality(Counted) \in Nat /\ Cardinality(Held) \in Nat /\ Len(active_hint_list) \in Nat
      BY FS_CardinalityType DEF PInv, LocksInv, DisplayInv
    <3>5. \A g \in Counted : handles'[g].handle = handles[g].handle
      BY <1>6, <3>1 DEF Counted
    <3>6. {handles'[g].handle : g \in Counted'} = {handles[g].handle : g \in Counted} \cup {l}
      BY <1>6, <3>1, <3>5
    <3>7. \A g \in Counted : handles[g].handle # l
      BY <1>5, <2>1, LocksArePositive
    <3>8. \A f, g \in Counted' : handles'[f].handle = handles'[g].handle => f = g
      BY <1>6, <3>1, <3>5, <3>7 DEF PInv, LocksInv
    <3>9. \A g \in Counted' : handles'[g].handle \notin ToSet(active_hint_list)'
      BY <1>2, <1>6, <3>1, <3>2, <3>5, LocksArePositive DEF PInv, LocksInv
    <3>10. Held' = {handles'[g].handle : g \in Counted'} \cup ToSet(active_hint_list)'
      BY <1>2, <3>2, <3>6 DEF PInv, LocksInv
    <3>11. Cardinality(Held') = Cardinality(Counted') + Len(active_hint_list')
      BY <1>2, <3>3, <3>4 DEF PInv, LocksInv
    <3> QED
      BY <3>2, <3>3, <3>8, <3>9, <3>10, <3>11 DEF LocksInv
  <2>2. CASE ~ (l > 0 /\ handles[h].ref_count = 0)
    <3>1. Counted' = Counted /\ Held' = Held
      <4>1. Counted' = Counted
        BY <1>1, <1>3, <1>5, <1>6, <1>7, <2>2 DEF Counted
      <4>2. perfd' = perfd
        BY <1>1, <1>4, <1>7, <2>2
      <4> QED
        BY <1>2, <4>1, <4>2 DEF Held
    <3>2. \A g \in Counted : handles'[g].handle = handles[g].handle
      BY <1>3, <1>5, <1>6, <1>7, <2>2 DEF Counted
    <3>3. {handles'[g].handle : g \in Counted'} = {handles[g].handle : g \in Counted}
      BY <3>1, <3>2
    <3> QED
      BY <1>2, <3>1, <3>2, <3>3 DEF PInv, LocksInv
  <2> QED
    BY <2>1, <2>2
<1>10. DaemonInv'
  <2>1. CASE l > 0
    <3>1. perfd' = perfd \cup {l} /\ l \in Nat \ {0} /\ qcopt_handle'
      BY <1>1, <1>2, <1>5, <1>7, <2>1
    <3>2. IsFiniteSet(perfd')
      BY <1>4, <3>1, FS_AddElement
    <3> QED
      BY <1>2, <1>4, <3>1, <3>2 DEF DaemonInv
  <2>2. CASE ~(l > 0)
    BY <1>1, <1>2, <2>2 DEF PInv, DaemonInv
  <2> QED
    BY <2>1, <2>2
<1> QED
  BY <1>2, <1>8, <1>9, <1>10 DEF PInv, DisplayInv

\* The lock that is given back is no other hint's (power-common.c: power_hint).
LEMMA HintOffKeeps == PInv /\ (\E h \in Hints : HintOff(h)) => PInv'
<1> SUFFICES ASSUME PInv, NEW h \in Hints, HintOff(h) PROVE PInv'
  OBVIOUS
<1>1. /\ users' = [users EXCEPT ![h] = IF @ > 0 THEN @ - 1 ELSE 0]
      /\ refused' = IF users'[h] = 0 THEN refused \ {h} ELSE refused
      /\ UNCHANGED <<qcopt_handle, active_hint_list, display_hint_sent, display_fd, discarded>>
  BY DEF HintOff, UserLeft
<1>2. /\ handles \in [Hints -> [handle : Int, ref_count : Nat]] /\ users \in [Hints -> Nat]
      /\ handles[h].ref_count \in Nat /\ users[h] \in Nat /\ MaxUsers \in Nat
      /\ handles[h].ref_count <= users[h]
      /\ handles[h].handle > 0 <=> handles[h].ref_count > 0
  BY PowerAssumption DEF PInv, UsersInv
<1>3. /\ users' \in [Hints -> Nat] /\ users'[h] = (IF users[h] > 0 THEN users[h] - 1 ELSE 0)
      /\ \A g \in Hints \ {h} : users'[g] = users[g]
  BY <1>1, <1>2
<1>4. CASE handles[h].handle <= 0
  <2>1. UNCHANGED <<handles, perfd>> /\ handles[h].ref_count = 0
    BY <1>2, <1>4 DEF HintOff
  <2>2. ASSUME NEW g \in Hints
        PROVE  /\ handles'[g].ref_count <= users'[g] /\ users'[g] <= MaxUsers
               /\ handles'[g].handle > 0 <=> handles'[g].ref_count > 0
               /\ g \notin refused' => users'[g] = handles'[g].ref_count
    <3>1. CASE g = h
      BY <1>1, <1>2, <1>3, <2>1, <3>1 DEF PInv, UsersInv
    <3>2. CASE g # h
      BY <1>1, <1>3, <2>1, <3>2 DEF PInv, UsersInv
    <3> QED
      BY <3>1, <3>2
  <2>3. UsersInv'
    BY <1>1, <1>3, <2>1, <2>2 DEF PInv, UsersInv
  <2> QED
    BY <1>1, <2>1, <2>3 DEF PInv, DisplayInv, DaemonInv, LocksInv, Counted, Held
<1>5. CASE handles[h].handle > 0 /\ handles[h].ref_count = 1
  <2>1. /\ release_request(handles[h].handle)
        /\ handles' = [handles EXCEPT ![h] = [handle |-> 0, ref_count |-> 0]]
    BY <1>2, <1>5 DEF HintOff
  <2>2. /\ handles' \in [Hints -> [handle : Int, ref_count : Nat]]
        /\ handles'[h].handle = 0 /\ handles'[h].ref_count = 0
        /\ \A g \in Hints \ {h} : handles'[g] = handles[g]
    BY <1>2, <2>1
  <2>3. UsersInv'
    <3> SUFFICES ASSUME NEW g \in Hints
                 PROVE  /\ handles'[g].ref_count <= users'[g] /\ users'[g] <= MaxUsers
                        /\ handles'[g].handle > 0 <=> handles'[g].ref_count > 0
                        /\ g \notin refused' => users'[g] = handles'[g].ref_count
      BY <1>1, <1>3, <2>2 DEF PInv, UsersInv
    <3>1. CASE g = h
      BY <1>1, <1>2, <1>3, <1>5, <2>2, <3>1 DEF PInv, UsersInv
    <3>2. CASE g # h
      BY <1>1, <1>3, <2>2, <3>2 DEF PInv, UsersInv
    <3> QED
      BY <3>1, <3>2
  <2>4. h \in Counted /\ handles[h].handle \in Held /\ qcopt_handle
        /\ perfd' = perfd \ {handles[h].handle}
    BY <1>5, <2>1, LocksArePositive DEF release_request
  <2>5. Counted' = Counted \ {h} /\ Held' = Held \ {handles[h].handle}
    BY <1>1, <1>2, <2>1, <2>2, <2>4 DEF Counted, Held
  <2>6. /\ IsFiniteSet(Counted') /\ Cardinality(Counted') = Cardinality(Counted) - 1
        /\ IsFiniteSet(Held') /\ Cardinality(Held') = Cardinality(Held) - 1
    BY <2>4, <2>5, FS_RemoveElement DEF PInv, LocksInv
  <2>7. Cardinality(Counted) \in Nat /\ Cardinality(Held) \in Nat /\ Len(active_hint_list) \in Nat
    BY FS_CardinalityType DEF PInv, LocksInv, DisplayInv
  <2>8. Cardinality(Held') = Cardinality(Counted') + Len(active_hint_list')
    BY <1>1, <2>6, <2>7 DEF PInv, LocksInv
  <2>9. \A g \in Counted' : /\ g \in Counted /\ handles'[g].handle = handles[g].handle
                            /\ handles[g].handle # handles[h].handle
    BY <2>2, <2>4, <2>5 DEF PInv, LocksInv, Counted
  <2>10. {handles'[g].handle : g \in Counted'}
           = {handles[g].handle : g \in Counted} \ {handles[h].handle}
    BY <2>5, <2>9
  <2>11. handles[h].handle \notin ToSet(active_hint_list)
    BY <2>4 DEF PInv, LocksInv
  <2>12. Held' = {handles'[g].handle : g \in Counted'} \cup ToSet(active_hint_list)'
    BY <1>1, <2>5, <2>10, <2>11 DEF PInv, LocksInv
  <2>13. /\ \A f, g \in Counted' : handles'[f].handle = handles'[g].handle => f = g
         /\ \A g \in Counted' : handles'[g].handle \notin ToSet(active_hint_list)'
    BY <1>1, <2>9 DEF PInv, LocksInv
  <2>14. LocksInv'
    BY <1>1, <2>4, <2>6, <2>8, <2>12, <2>13 DEF LocksInv
  <2>15. DaemonInv'
    <3>1. IsFiniteSet(perfd') /\ perfd' \subseteq perfd
      BY <2>4, FS_RemoveElement, FS_Subset DEF PInv, DaemonInv
    <3>2. discarded \subseteq perfd'
      BY <2>4 DEF PInv, DaemonInv, Held
    <3> QED
      BY <1>1, <2>4, <3>1, <3>2 DEF PInv, DaemonInv
  <2> QED
    BY <1>1, <2>3, <2>14, <2>15 DEF PInv, DisplayInv
<1>6. CASE handles[h].handle > 0 /\ handles[h].ref_count # 1
  <2>1. handles' = [handles EXCEPT ![h].ref_count = @ - 1] /\ UNCHANGED perfd
    BY <1>2, <1>6 DEF HintOff
  <2>2. /\ handles' \in [Hints -> [handle : Int, ref_count : Nat]]
        /\ handles'[h].handle = handles[h].handle
        /\ handles'[h].ref_count = handles[h].ref_count - 1
        /\ handles'[h].ref_count > 0 /\ handles[h].ref_count > 0
        /\ \A g \in Hints \ {h} : handles'[g] = handles[g]
    BY <1>2, <1>6, <2>1
  <2>3. UsersInv'
    <3> SUFFICES ASSUME NEW g \in Hints
                 PROVE  /\ handles'[g].ref_count <= users'[g] /\ users'[g] <= MaxUsers
                        /\ handles'[g].handle > 0 <=> handles'[g].ref_count > 0
                        /\ g \notin refused' => users'[g] = handles'[g].ref_count
      BY <1>1, <1>3, <2>2 DEF PInv, UsersInv
    <3>1. CASE g = h
      BY <1>1, <1>2, <1>3, <1>6, <2>2, <3>1 DEF PInv, UsersInv
    <3>2. CASE g # h
      BY <1>1, <1>3, <2>2, <3>2 DEF PInv, UsersInv
    <3> QED
      BY <3>1, <3>2
  <2>4. Counted' = Counted /\ \A g \in Counted : handles'[g].handle = handles[g].handle
    BY <1>2, <2>2 DEF Counted
  <2>5. {handles'[g].handle : g \in Counted'} = {handles[g].handle : g \in Counted}
    BY <2>4
  <2>6. LocksInv'
    BY <1>1, <2>1, <2>4, <2>5 DEF PInv, LocksInv, Held
  <2> QED
    BY <1>1, <2>1, <2>3, <2>6 DEF PInv, DisplayInv, DaemonInv
<1> QED
  BY <1>2, <1>4, <1>5, <1>6

\* A step that takes or gives back only a lock of the display, besides one that is
\* thrown away.
LEMMA DisplayLockKeeps ==
  ASSUME PInv, DaemonInv', UNCHANGED <<qcopt_handle, handles, users, refused>>,
         display_fd' \in BOOLEAN, display_hint_sent' \in BOOLEAN,
         \/ Held' = Held /\ UNCHANGED active_hint_list /\ (display_hint_sent => display_hint_sent')
         \/ Held' = Held /\ UNCHANGED active_hint_list /\ active_hint_list = <<>>
         \/ /\ active_hint_list = <<>> /\ display_hint_sent'
            /\ \E l \in Nat \ {0} : /\ l \notin Held /\ Held' = Held \cup {l}
                                    /\ active_hint_list' = <<l>>
         \/ /\ active_hint_list # <<>> /\ active_hint_list' = <<>>
            /\ Held' = Held \ {active_hint_list[1]}
  PROVE  PInv'
<1>1. UsersInv'
  BY DEF PInv, UsersInv
<1>2. Counted' = Counted /\ handles' = handles
  BY DEF Counted
<1>3. CASE Held' = Held /\ UNCHANGED active_hint_list
           /\ ((display_hint_sent => display_hint_sent') \/ active_hint_list = <<>>)
  BY <1>1, <1>2, <1>3 DEF PInv, DisplayInv, LocksInv
<1>4. Cardinality(Counted) \in Nat /\ Cardinality(Held) \in Nat
  BY FS_CardinalityType DEF PInv, LocksInv
<1>5. ASSUME active_hint_list = <<>>, display_hint_sent',
             NEW l \in Nat \ {0}, l \notin Held, Held' = Held \cup {l},
             active_hint_list' = <<l>>
      PROVE  PInv'
  <2>1. /\ ToSet(active_hint_list) = {} /\ ToSet(active_hint_list)' = {l}
        /\ Len(active_hint_list) = 0 /\ Len(active_hint_list') = 1
    BY <1>5 DEF ToSet
  <2>2. IsFiniteSet(Held') /\ Cardinality(Held') = Cardinality(Held) + 1
    BY <1>5, FS_AddElement DEF PInv, LocksInv
  <2>3. LocksInv'
    BY <1>2, <1>4, <1>5, <2>1, <2>2 DEF PInv, LocksInv
  <2> QED
    BY <1>1, <1>5, <2>3 DEF PInv, DisplayInv
<1>6. ASSUME active_hint_list # <<>>, active_hint_list' = <<>>,
             Held' = Held \ {active_hint_list[1]}
      PROVE  PInv'
  <2>1. PICK x \in Nat \ {0} : active_hint_list = <<x>>
    BY <1>6 DEF PInv, DisplayInv
  <2>2. /\ ToSet(active_hint_list) = {x} /\ ToSet(active_hint_list)' = {}
        /\ Len(active_hint_list) = 1 /\ Len(active_hint_list') = 0
        /\ Held' = Held \ {x} /\ x \in Held
    <3>1. ToSet(active_hint_list) = {x} /\ ToSet(active_hint_list)' = {}
      BY <1>6, <2>1 DEF ToSet
    <3> QED
      BY <1>6, <2>1, <3>1, LocksArePositive
  <2>3. IsFiniteSet(Held') /\ Cardinality(Held') = Cardinality(Held) - 1
    BY <2>2, FS_RemoveElement DEF PInv, LocksInv
  <2>4. x \notin {handles[h].handle : h \in Counted}
    BY <2>2 DEF PInv, LocksInv
  <2>5. Held' = {handles'[h].handle : h \in Counted'} \cup ToSet(active_hint_list)'
    BY <1>2, <2>2, <2>4 DEF PInv, LocksInv
  <2>6. Cardinality(Held') = Cardinality(Counted') + Len(active_hint_list')
    BY <1>2, <1>4, <2>2, <2>3 DEF PInv, LocksInv
  <2>7. LocksInv'
    BY <1>2, <2>2, <2>3, <2>5, <2>6 DEF PInv, LocksInv
  <2> QED
    BY <1>1, <1>6, <2>7 DEF PInv, DisplayInv
<1> QED
  BY <1>3, <1>5, <1>6

\* The display takes a lock only while it has none, whatever lock is thrown away first
\* (power-common.c: set_interactive; power-8953.c: display_hint_sent; utils.c:
\* perform_hint_action, undo_hint_action).
LEMMA SetInteractiveKeeps == PInv /\ set_interactive => PInv'
<1> SUFFICES ASSUME PInv, set_interactive PROVE PInv'
  OBVIOUS
<1>1. UNCHANGED <<qcopt_handle, handles, users, refused>>
  BY DEF set_interactive
<1>2. /\ {qcopt_handle, display_hint_sent, display_fd} \subseteq BOOLEAN
      /\ perfd \subseteq Nat \ {0} /\ IsFiniteSet(perfd) /\ discarded \subseteq perfd
      /\ perfd # {} => qcopt_handle
  BY LocksArePositive DEF PInv, UsersInv, DaemonInv
<1>3. PICK answer \in perf_hint_enable, on \in BOOLEAN :
        /\ discarded' = discarded \cup ({answer} \cap (Nat \ {0}))
        /\ set_interactive_override(on, perfd \cup ({answer} \cap (Nat \ {0})))
  BY DEF set_interactive
<1>4. PICK lost : lost = {answer} \cap (Nat \ {0})
  OBVIOUS
<1>5. PICK locks : locks = perfd \cup lost
  OBVIOUS
<1>6. /\ discarded' = discarded \cup lost /\ set_interactive_override(on, locks)
      /\ lost \subseteq Nat \ {0}
  BY <1>3, <1>4, <1>5
<1>7. lost \cap perfd = {} /\ (lost # {} => qcopt_handle)
  <2>1. NewHandle(perfd) \notin perfd
    BY <1>2, NewHandleIsNew
  <2> QED
    BY <1>4, <2>1 DEF perf_hint_enable, Acquire
<1>8. IsFiniteSet(locks)
  <2>1. CASE lost = {}
    BY <1>2, <1>5, <2>1
  <2>2. CASE lost # {}
    <3>1. locks = perfd \cup {answer}
      BY <1>4, <1>5, <2>2
    <3> QED
      BY <1>2, <3>1, FS_AddElement
  <2> QED
    BY <2>1, <2>2
<1>9. /\ locks \subseteq Nat \ {0} /\ (locks # {} => qcopt_handle)
      /\ locks \ discarded' = Held /\ discarded' \subseteq locks /\ Held \subseteq locks
  BY <1>2, <1>5, <1>6, <1>7 DEF Held
<1>10. CASE NoDisplayHint(locks) /\ display_fd' \in BOOLEAN
  <2>1. perfd' = locks /\ UNCHANGED <<active_hint_list, display_hint_sent>>
    BY <1>10 DEF NoDisplayHint
  <2>2. DaemonInv' /\ Held' = Held
    BY <1>1, <1>8, <1>9, <2>1 DEF DaemonInv, Held
  <2> QED
    BY <1>1, <1>2, <1>10, <2>1, <2>2, DisplayLockKeeps
<1>11. ASSUME NEW interactive \in BOOLEAN, DisplayHint(on, interactive, locks),
              display_fd' \in {display_fd, TRUE}
       PROVE  PInv'
  <2>1. display_fd' \in BOOLEAN
    BY <1>2, <1>11
  <2>2. CASE NoDisplayHint(locks)
    BY <1>10, <2>1, <2>2
  <2>3. CASE undo_hint_action(locks) /\ display_hint_sent' = FALSE
    <3>1. CASE active_hint_list = <<>>
      <4>1. perfd' = locks /\ UNCHANGED active_hint_list
        BY <2>3, <3>1 DEF undo_hint_action, find_node
      <4>2. DaemonInv' /\ Held' = Held
        BY <1>1, <1>8, <1>9, <4>1 DEF DaemonInv, Held
      <4> QED
        BY <1>1, <2>1, <2>3, <3>1, <4>1, <4>2, DisplayLockKeeps
    <3>2. CASE active_hint_list # <<>>
      <4>1. PICK x \in Nat \ {0} : active_hint_list = <<x>>
        BY <3>2 DEF PInv, DisplayInv
      <4>2. qcopt_handle /\ x \in Held
        <5>1. x \in ToSet(active_hint_list)
          BY <4>1 DEF ToSet
        <5> QED
          BY <5>1, LocksArePositive
      <4>3. perfd' = locks \ {x} /\ active_hint_list' = RemoveAt(active_hint_list, 1)
        BY <2>3, <3>2, <4>1, <4>2 DEF undo_hint_action, find_node, remove_list_node
      <4>4. RemoveAt(<<x>>, 1) = <<>>
        BY DEF RemoveAt
      <4>5. Held' = Held \ {active_hint_list[1]} /\ active_hint_list' = <<>>
        BY <1>9, <4>1, <4>3, <4>4 DEF Held
      <4>6. DaemonInv'
        <5>1. IsFiniteSet(perfd')
          BY <1>8, <4>3, FS_RemoveElement, FS_Subset
        <5>2. discarded' \subseteq perfd'
          BY <1>9, <4>2, <4>3
        <5> QED
          BY <1>1, <1>9, <4>2, <4>3, <5>1, <5>2 DEF DaemonInv
      <4> QED
        BY <1>1, <2>1, <2>3, <3>2, <4>5, <4>6, DisplayLockKeeps
    <3> QED
      BY <3>1, <3>2
  <2>4. CASE ~display_hint_sent /\ perform_hint_action(locks) /\ display_hint_sent' = TRUE
    <3>1. active_hint_list = <<>>
      BY <2>4 DEF PInv, DisplayInv
    <3>2. CASE perfd' = locks /\ UNCHANGED active_hint_list
      <4>1. DaemonInv' /\ Held' = Held
        BY <1>1, <1>8, <1>9, <3>2 DEF DaemonInv, Held
      <4> QED
        BY <1>1, <2>1, <2>4, <3>1, <3>2, <4>1, DisplayLockKeeps
    <3>3. ASSUME NEW l \in Acquire(locks), l > 0, perfd' = locks \cup {l},
                 active_hint_list' = add_list_node(active_hint_list, l)
          PROVE  PInv'
      <4>1. l = NewHandle(locks) /\ qcopt_handle
        BY <3>3 DEF Acquire
      <4>2. l \in Nat \ {0} /\ l \notin locks
        BY <1>8, <1>9, <4>1, NewHandleIsNew
      <4>3. active_hint_list' = <<l>>
        BY <3>1, <3>3, <4>2 DEF add_list_node
      <4>4. Held' = Held \cup {l} /\ l \notin Held
        BY <1>9, <3>3, <4>2 DEF Held
      <4>5. DaemonInv'
        <5>1. IsFiniteSet(perfd')
          BY <1>8, <3>3, FS_AddElement
        <5> QED
          BY <1>1, <1>9, <3>3, <4>1, <4>2, <5>1 DEF DaemonInv
      <4> QED
        BY <1>1, <2>1, <2>4, <3>1, <4>2, <4>3, <4>4, <4>5, DisplayLockKeeps
    <3> QED
      BY <2>4, <3>2, <3>3 DEF perform_hint_action
  <2> QED
    BY <1>2, <1>11, <2>2, <2>3, <2>4 DEF DisplayHint
<1>12. \/ NoDisplayHint(locks) /\ UNCHANGED display_fd
       \/ \E interactive \in BOOLEAN : DisplayHint(on, interactive, locks)
                                       /\ display_fd' \in {display_fd, TRUE}
  BY <1>6 DEF set_interactive_override
<1> QED
  BY <1>2, <1>10, <1>11, <1>12

LEMMA PInitInv == PInit => PInv
<1> SUFFICES ASSUME PInit PROVE PInv
  OBVIOUS
<1>1. UsersInv /\ DisplayInv
  <2>1. /\ handles \in [Hints -> [handle : Int, ref_count : Nat]] /\ users \in [Hints -> Nat]
        /\ \A h \in Hints : /\ handles[h].ref_count = 0 /\ handles[h].handle = 0
                            /\ users[h] = 0
    BY DEF PInit
  <2>2. qcopt_handle \in BOOLEAN /\ MaxUsers \in Nat
    BY PowerAssumption, Zenon DEF PInit
  <2>3. {qcopt_handle, display_hint_sent, display_fd} \subseteq BOOLEAN
    BY <2>2, Zenon DEF PInit
  <2>4. UsersInv
    BY <2>1, <2>2, <2>3 DEF UsersInv
  <2>5. active_hint_list = <<>>
    BY DEF PInit
  <2> QED
    BY <2>4, <2>5 DEF DisplayInv
<1>2. Counted = {} /\ perfd = {} /\ discarded = {} /\ Held = {} /\ active_hint_list = <<>>
  BY DEF PInit, Counted, Held
<1>3. ToSet(active_hint_list) = {} /\ Len(active_hint_list) = 0
  BY <1>2 DEF ToSet
<1>4. DaemonInv /\ LocksInv
  BY <1>2, <1>3, FS_EmptySet DEF DaemonInv, LocksInv
<1> QED
  BY <1>1, <1>4 DEF PInv

LEMMA PInvHolds == PSpec => []PInv
<1>1. PInv /\ [PNext]_pvars => PInv'
  <2> SUFFICES ASSUME PInv, [PNext]_pvars PROVE PInv'
    OBVIOUS
  <2>1. CASE power_hint
    BY <2>1, HintOnKeeps, HintOffKeeps DEF power_hint
  <2>2. CASE set_interactive
    BY <2>2, SetInteractiveKeeps
  <2>3. CASE UNCHANGED pvars
    BY <2>3 DEF pvars, PInv, UsersInv, DisplayInv, DaemonInv, LocksInv, Counted, Held
  <2> QED
    BY <2>1, <2>2, <2>3 DEF PNext
<1> QED
  BY <1>1, PInitInv, PTL DEF PSpec

\* Type correctness of the power HAL (power-common.c, power-8953.c, utils.c).
THEOREM PowerTypeCorrect == PSpec => []PTypeOK
<1>1. PInv => PTypeOK
  <2> SUFFICES ASSUME PInv PROVE PTypeOK
    OBVIOUS
  <2>1. ASSUME NEW h \in Hints
        PROVE  handles[h].ref_count \in 0 .. MaxUsers /\ handles[h].handle \in Int
    BY PowerAssumption DEF PInv, UsersInv
  <2> QED
    BY <2>1 DEF PTypeOK, PInv, UsersInv, DaemonInv
<1> QED
  BY <1>1, PInvHolds, PTL

\* Every lock of the daemon is remembered exactly once, but for those whose handles
\* were thrown away; no hint is locked that nobody wants, and one nobody was refused
\* since is locked while somebody wants it (power-common.c: power_hint,
\* set_interactive; utils.c: perform_hint_action, undo_hint_action; power-8953.c:
\* display_hint_sent).
THEOREM LocksFollowTheirUsers == PSpec => []LocksFollowUsers
<1>1. PInv => LocksFollowUsers
  <2> SUFFICES ASSUME PInv PROVE LocksFollowUsers
    OBVIOUS
  <2>1. Len(active_hint_list) <= 1 /\ Len(active_hint_list) \in Nat
    <3>1. CASE active_hint_list = <<>>
      BY <3>1
    <3>2. CASE \E x \in Nat \ {0} : active_hint_list = <<x>>
      BY <3>2
    <3> QED
      BY <3>1, <3>2 DEF PInv, DisplayInv
  <2>2. ASSUME NEW h \in Hints
        PROVE  /\ h \in Counted => users[h] > 0
               /\ h \notin refused => (users[h] > 0 => h \in Counted)
    BY DEF PInv, UsersInv, Counted
  <2>3. perfd = {handles[h].handle : h \in Counted} \cup ToSet(active_hint_list) \cup discarded
    BY DEF PInv, DaemonInv, LocksInv, Held
  <2>4. Cardinality(perfd)
          = Cardinality(Counted) + Len(active_hint_list) + Cardinality(discarded)
    <3>1. IsFiniteSet(perfd) /\ IsFiniteSet(discarded) /\ perfd \cap discarded = discarded
      BY FS_Subset DEF PInv, DaemonInv
    <3>2. Cardinality(Held) = Cardinality(perfd) - Cardinality(discarded)
      BY <3>1, FS_Difference DEF Held
    <3>3. Cardinality(perfd) \in Nat /\ Cardinality(discarded) \in Nat
          /\ Cardinality(Counted) \in Nat
      BY <3>1, FS_CardinalityType DEF PInv, LocksInv
    <3> QED
      BY <2>1, <3>2, <3>3 DEF PInv, LocksInv
  <2> QED
    BY <2>1, <2>2, <2>3, <2>4 DEF LocksFollowUsers, Counted
<1> QED
  BY <1>1, PInvHolds, PTL

-------------------------------------------------------------------------------
(* The firmware loader.                                                    *)

Byte == 0 .. 255

LdPcs == {"idle", "list", "normal", "check", "bootloader", "erase", "address", "send",
          "reset", "verify", "capsense", "booted", "exit"}

LdType == [pc : LdPcs, file : Firmware \cup {None}, force : BOOLEAN, pos : Nat,
           tries : 0 .. STM_DOWNLOADRETRIES, ok : BOOLEAN, short : BOOLEAN]

LoaderType ==
  /\ ld \in LdType
  /\ apk \in Firmware \cup {None} /\ hubMode \in {"reset", "bootloader", "normal"}
  /\ flash \in [1 .. FLASH_SIZE -> 0 .. 255] /\ hubAddr \in 0 .. FLASH_SIZE + PacketLength
  /\ booted \in BOOLEAN /\ antcap \in [on : BOOLEAN, cal : {"none", "file", "default"}]

\* The flash while the first n bytes of a file are in it.
Prefix(data, n) ==
  [i \in 1 .. FLASH_SIZE |-> IF i <= n /\ i <= Len(data) THEN data[i] ELSE FLASH_FILL]

\* The file is the one the versions are compared with.
FileInv ==
  /\ ld.pc \notin {"idle", "list"} => ld.file = stm_getFwFile
  /\ ld.pc \in {"list", "normal", "check", "bootloader", "erase", "address", "send"}
       => ld.tries < STM_DOWNLOADRETRIES

\* While the packets are sent the flash has what was read of the file, and the hub
\* writes where the file is read, or further ahead in the flash if a packet was
\* written in part only.
FlashInv ==
  /\ ld.pc = "address" => flash = Erased
  /\ ld.pc = "send" => hubAddr <= ld.pos
  /\ ld.pc = "send" /\ ~ld.short => /\ flash = Prefix(ld.file.data, ld.pos)
                                    /\ ld.pos < Len(ld.file.data) => hubAddr = ld.pos
  /\ ld.pc = "reset" /\ ~ld.short => flash = Image(ld.file)

\* Versions that were found to agree are those of the file and of a running hub.
VersionInv ==
  ld.pc \in {"capsense", "booted"} /\ ld.ok /\ ld.file.ver # ""
    => hubMode = "normal" /\ flash = Image(ld.file)

LInv == LoaderType /\ FileInv /\ FlashInv /\ VersionInv

LEMMA MultiplesApart ==
  ASSUME NEW a \in Nat, NEW q \in Nat, NEW k \in Nat, q < k
  PROVE  q * a + a <= k * a
<1>1. PICK d \in Nat : k = q + 1 + d
  <2>1. k - q - 1 \in Nat /\ k = q + 1 + (k - q - 1)
    OBVIOUS
  <2> QED
    BY <2>1
<1>2. k * a = q * a + a + d * a
  BY <1>1
<1>3. d * a \in Nat /\ q * a \in Nat
  OBVIOUS
<1> QED
  BY <1>2, <1>3

\* A packet is filled up to a multiple of Align, which PacketLength is one of.
LEMMA Padding ==
  ASSUME NEW a \in Nat \ {0}, NEW n \in Nat, NEW p \in Nat, n <= p, p % a = 0
  PROVE  /\ (a - (n % a)) % a \in Nat
         /\ n % a = 0 => (a - (n % a)) % a = 0
         /\ n + ((a - (n % a)) % a) <= p
<1>1. n % a \in 0 .. a - 1 /\ n = (n \div a) * a + (n % a) /\ n \div a \in Nat
  OBVIOUS
<1>2. p = (p \div a) * a /\ p \div a \in Nat
  OBVIOUS
<1>3. CASE n % a = 0
  <2>1. (a - (n % a)) % a = 0
    BY <1>3
  <2> QED
    BY <2>1
<1>4. CASE n % a # 0
  <2>1. (a - (n % a)) % a = a - (n % a)
    BY <1>1, <1>4
  <2>2. n + ((a - (n % a)) % a) = (n \div a) * a + a
    <3>1. PICK m \in Nat, r \in Int : m = (n \div a) * a /\ r = n % a
      BY <1>1
    <3>2. n = m + r /\ n + (a - r) = m + a
      BY <1>1, <3>1
    <3> QED
      BY <2>1, <3>1, <3>2
  <2>3. n \div a < p \div a
    BY <1>1, <1>2, <1>4
  <2> QED
    <3>1. (n \div a) * a + a <= (p \div a) * a
      BY <1>1, <1>2, <2>3, MultiplesApart, Zenon
    <3>2. n + ((a - (n % a)) % a) <= p
      BY <1>2, <2>2, <3>1
    <3> QED
      BY <1>1, <1>4, <2>1, <3>2
<1> QED
  BY <1>1, <1>3, <1>4

\* The next packet: what is left of the file, as much as a packet takes, filled up
\* only at the end of the file (motosh.cpp: stm_getpacket).
LEMMA PacketContents ==
  ASSUME NEW f, f.data \in Seq(Byte), NEW pos \in Nat
  PROVE  LET p == stm_getpacket(f, pos)
         IN  /\ pos >= Len(f.data) <=> p = <<>>
             /\ p \in Seq(Byte) /\ Len(p) <= PacketLength
             /\ p # <<>> => Len(p) = PacketLength \/ pos + Len(p) >= Len(f.data)
             /\ \A i \in 1 .. Len(p) :
                  p[i] = IF pos + i <= Len(f.data) THEN f.data[pos + i] ELSE FLASH_FILL
<1> DEFINE rest == SubSeq(f.data, pos + 1, Len(f.data))
           len == IF Len(rest) > PacketLength THEN PacketLength ELSE Len(rest)
           pad == (Align - (len % Align)) % Align
           fill == [i \in 1 .. pad |-> FLASH_FILL]
           some == SubSeq(rest, 1, len)
<1>1. /\ Align \in Nat \ {0} /\ PacketLength \in Nat \ {0} /\ PacketLength % Align = 0
  BY LoaderAssumption
<1>2. Len(f.data) \in Nat /\ \A i \in 1 .. Len(f.data) : f.data[i] \in Byte
  BY LenProperties, ElementOfSeq
<1>3. /\ rest \in Seq(Byte)
      /\ Len(rest) = IF pos + 1 <= Len(f.data) THEN Len(f.data) - pos ELSE 0
      /\ \A i \in 1 .. Len(rest) : rest[i] = f.data[pos + i]
  <2>1. \A i \in pos + 1 .. Len(f.data) : f.data[i] \in Byte
    BY <1>2
  <2>2. /\ rest \in Seq(Byte)
        /\ Len(rest) = IF pos + 1 <= Len(f.data) THEN Len(f.data) - (pos + 1) + 1 ELSE 0
        /\ \A i \in 1 .. Len(f.data) - (pos + 1) + 1 : rest[i] = f.data[pos + 1 + i - 1]
    BY <1>2, <2>1, SubSeqProperties
  <2> HIDE DEF rest
  <2>3. \A i \in 1 .. Len(rest) : i \in 1 .. Len(f.data) - (pos + 1) + 1 /\ pos + 1 + i - 1 = pos + i
    BY <1>2, <2>2
  <2> QED
    BY <1>2, <2>2, <2>3
<1> HIDE DEF rest
<1>4. len \in Nat /\ len <= PacketLength /\ len <= Len(rest) /\ Len(rest) \in Nat
      /\ (len = PacketLength \/ len = Len(rest))
  BY <1>1, <1>2, <1>3
<1> HIDE DEF len
<1>5. pad \in Nat /\ (len % Align = 0 => pad = 0) /\ len + pad <= PacketLength
  <2>1. len \in Nat /\ len <= PacketLength
    BY <1>4
  <2>2. PacketLength \in Nat
    BY <1>1
  <2>3. /\ (Align - (len % Align)) % Align \in Nat
        /\ len % Align = 0 => (Align - (len % Align)) % Align = 0
        /\ len + ((Align - (len % Align)) % Align) <= PacketLength
    BY <1>1, <2>1, <2>2, Padding, Zenon
  <2> QED
    BY <2>3
<1>6. len = PacketLength => pad = 0
  BY <1>1, <1>5
<1>7. len = 0 => pad = 0
  BY <1>1, <1>5
<1> HIDE DEF pad
<1>8. /\ some \in Seq(Byte) /\ Len(some) = len
      /\ \A i \in 1 .. len : some[i] = rest[i]
  <2>1. \A i \in 1 .. len : rest[i] \in Byte
    <3> SUFFICES ASSUME NEW i \in 1 .. len PROVE rest[i] \in Byte
      OBVIOUS
    <3>1. i \in 1 .. Len(rest)
      BY <1>4
    <3> QED
      BY <1>3, <3>1, ElementOfSeq
  <2>2. /\ some \in Seq(Byte) /\ Len(some) = IF 1 <= len THEN len - 1 + 1 ELSE 0
        /\ \A i \in 1 .. len - 1 + 1 : some[i] = rest[1 + i - 1]
    BY <1>4, <2>1, SubSeqProperties
  <2> HIDE DEF some
  <2> QED
    BY <1>4, <2>2
<1>9. fill \in Seq(Byte) /\ Len(fill) = pad /\ \A i \in 1 .. pad : fill[i] = FLASH_FILL
  BY <1>5 DEF FLASH_FILL, Byte
<1> HIDE DEF some, fill
<1>10. /\ some \o fill \in Seq(Byte) /\ Len(some \o fill) = len + pad
       /\ \A i \in 1 .. len + pad :
            (some \o fill)[i] = IF i <= len THEN some[i] ELSE fill[i - len]
  BY <1>8, <1>9, ConcatProperties
<1>11. stm_getpacket(f, pos) = some \o fill
  BY DEF stm_getpacket, rest, len, pad, some, fill
<1>12. \A i \in 1 .. len + pad :
         (some \o fill)[i] = IF pos + i <= Len(f.data) THEN f.data[pos + i] ELSE FLASH_FILL
  <2> SUFFICES ASSUME NEW i \in 1 .. len + pad
               PROVE  (some \o fill)[i] = IF pos + i <= Len(f.data) THEN f.data[pos + i] ELSE FLASH_FILL
    OBVIOUS
  <2>1. CASE i <= len
    <3>1. i \in 1 .. len /\ i \in 1 .. Len(rest) /\ pos + i <= Len(f.data)
      BY <1>2, <1>3, <1>4, <2>1
    <3>2. (some \o fill)[i] = rest[i]
      BY <1>8, <1>10, <2>1, <3>1
    <3> QED
      BY <1>3, <3>1, <3>2
  <2>2. CASE i > len
    <3>1. len = Len(rest) /\ i - len \in 1 .. pad
      BY <1>4, <1>5, <1>6, <2>2
    <3> QED
      <4>1. ~ (pos + i <= Len(f.data))
        BY <1>2, <1>3, <2>2, <3>1
      <4>2. (some \o fill)[i] = FLASH_FILL
        BY <1>9, <1>10, <2>2, <3>1
      <4> QED
        BY <4>1, <4>2
  <2>3. i <= len \/ i > len
    BY <1>4, <1>5
  <2> QED
    BY <2>1, <2>2, <2>3
<1>13. pos >= Len(f.data) <=> len = 0
  BY <1>1, <1>2, <1>3, <1>4
<1>14. pos >= Len(f.data) <=> some \o fill = <<>>
  <2>1. len = 0 <=> len + pad = 0
    BY <1>4, <1>5, <1>7
  <2>2. some \o fill = <<>> <=> Len(some \o fill) = 0
    BY <1>10, EmptySeq
  <2> QED
    BY <1>10, <1>13, <2>1, <2>2
<1>15. Len(some \o fill) = PacketLength \/ pos + Len(some \o fill) >= Len(f.data)
  BY <1>1, <1>2, <1>3, <1>4, <1>5, <1>6, <1>10
<1> QED
  BY <1>5, <1>10, <1>11, <1>12, <1>14, <1>15

\* The loader's file is a file, and fits into the flash.
LEMMA FilesAreBytes ==
  ASSUME LInv
  PROVE  /\ stm_getFwFile \in Firmware
         /\ \A f \in Firmware \cup {None} :
              f.data \in Seq(Byte) /\ Len(f.data) \in Nat /\ Len(f.data) <= FLASH_SIZE
<1>1. stm_getFwFile \in Firmware
  BY LoaderAssumption DEF LInv, LoaderType, stm_getFwFile
<1>2. ASSUME NEW f \in Firmware \cup {None}
      PROVE  f.data \in Seq(Byte) /\ Len(f.data) \in Nat /\ Len(f.data) <= FLASH_SIZE
  <2>1. CASE f \in Firmware
    BY <2>1, LoaderAssumption, LenProperties DEF Byte
  <2>2. CASE f = None
    <3>1. f.data = <<>>
      BY <2>2 DEF None
    <3> QED
      BY <3>1, EmptySeq, LoaderAssumption
  <2> QED
    BY <2>1, <2>2
<1> QED
  BY <1>1, <1>2

\* A step that only moves the loader on, within its types.
LEMMA LdAt ==
  ASSUME NEW pc \in LdPcs, ld \in LdType, ld' = [ld EXCEPT !.pc = pc]
  PROVE  /\ ld' \in LdType /\ ld'.pc = pc /\ ld'.file = ld.file /\ ld'.pos = ld.pos
         /\ ld'.tries = ld.tries /\ ld'.ok = ld.ok /\ ld'.short = ld.short
BY DEF LdType

\* A retry goes back to the start, or ends (motosh.cpp: STM_DOWNLOADRETRIES).
LEMMA LdAgain ==
  ASSUME ld \in LdType, ld.tries < STM_DOWNLOADRETRIES, NEW pos \in Nat, Again(pos)
  PROVE  /\ ld' \in LdType /\ ld'.pc \in {"bootloader", "exit"} /\ ld'.file = ld.file
         /\ ld'.pc = "bootloader" => ld'.tries < STM_DOWNLOADRETRIES
<1> DEFINE t == ld.tries + 1
           pc == IF t < STM_DOWNLOADRETRIES THEN "bootloader" ELSE "exit"
<1>1. t \in 0 .. STM_DOWNLOADRETRIES /\ pc \in {"bootloader", "exit"} /\ pc \in LdPcs
  <2>1. t \in 0 .. STM_DOWNLOADRETRIES
    BY DEF LdType, STM_DOWNLOADRETRIES
  <2>2. "bootloader" \in LdPcs /\ "exit" \in LdPcs
    BY DEF LdPcs
  <2> QED
    BY <2>1, <2>2
<1>2. ld' = [ld EXCEPT !.pos = pos, !.tries = t, !.pc = pc]
  BY DEF Again
<1>3. pc = "bootloader" => t < STM_DOWNLOADRETRIES
  OBVIOUS
<1> HIDE DEF t, pc
<1>4. [ld EXCEPT !.pos = pos] \in LdType
  BY DEF LdType
<1>5. [ld EXCEPT !.pos = pos, !.tries = t] \in LdType
  BY <1>1, <1>4 DEF LdType
<1>6. ld' \in LdType
  <2>1. [ld EXCEPT !.pos = pos, !.tries = t, !.pc = pc] \in LdType
    BY <1>1, <1>5 DEF LdType
  <2> QED
    BY <1>2, <2>1
<1>7. ld'.pc = pc /\ ld'.tries = t /\ ld'.file = ld.file
  BY <1>2 DEF LdType
<1> QED
  BY <1>1, <1>3, <1>6, <1>7
\* What is left of the invariant while nothing is downloaded.
LEMMA QuietKeeps ==
  ASSUME LInv, ld' \in LdType, flash' = flash, UNCHANGED <<apk, hubAddr, booted>>,
         hubMode' \in {"reset", "bootloader", "normal"},
         antcap' \in [on : BOOLEAN, cal : {"none", "file", "default"}],
         ld'.pc \notin {"idle", "list"} => ld'.file = stm_getFwFile,
         ld'.pc \in {"list", "normal", "check", "bootloader", "erase"}
           => ld'.tries < STM_DOWNLOADRETRIES,
         ld'.pc \notin {"address", "send", "reset", "capsense", "booted"}
  PROVE  LInv'
<1>1. LoaderType'
  BY DEF LInv, LoaderType, LdType
<1>2. stm_getFwFile' = stm_getFwFile
  BY DEF stm_getFwFile
<1>3. ld'.pc # "address" /\ ld'.pc # "send" /\ ld'.pc # "reset"
  OBVIOUS
<1>4. FlashInv'
  BY <1>3 DEF FlashInv
<1>5. VersionInv'
  BY DEF VersionInv
<1>6. FileInv'
  BY <1>2, <1>3 DEF FileInv
<1> QED
  BY <1>1, <1>4, <1>5, <1>6 DEF LInv

LEMMA BootKeeps == LInv /\ (Boot_ \/ OpenFirmware \/ NormalMode \/ Exit) => LInv'
<1> SUFFICES ASSUME LInv, Boot_ \/ OpenFirmware \/ NormalMode \/ Exit PROVE LInv'
  OBVIOUS
<1>1. /\ ld \in LdType /\ apk \in Firmware \cup {None} /\ Stock \in Firmware
      /\ hubMode \in {"reset", "bootloader", "normal"}
      /\ antcap \in [on : BOOLEAN, cal : {"none", "file", "default"}]
  BY LoaderAssumption DEF LInv, LoaderType, LdType
<1>2. Idle \in LdType /\ Idle.pc = "idle"
  BY DEF Idle, LdType, LdPcs, STM_DOWNLOADRETRIES
<1>3. CASE Boot_
  <2>1. PICK force \in BOOLEAN : ld' = [Idle EXCEPT !.pc = "list", !.force = force]
    BY <1>3 DEF Boot_
  <2>2. ld' \in LdType /\ ld'.pc = "list" /\ ld'.tries < STM_DOWNLOADRETRIES
    <3>1. "list" \in LdPcs /\ Idle.tries = 0
      BY DEF LdPcs, Idle
    <3>2. ld' \in LdType /\ ld'.pc = "list" /\ ld'.tries = Idle.tries
      BY <1>2, <2>1, <3>1 DEF LdType
    <3> QED
      BY <3>1, <3>2 DEF STM_DOWNLOADRETRIES
  <2> QED
    BY <1>1, <1>3, <2>2, QuietKeeps DEF Boot_
<1>4. CASE OpenFirmware
  <2> DEFINE file == IF apk' # None THEN apk' ELSE Stock
  <2>1. ld' = [ld EXCEPT !.pc = "normal", !.file = file] /\ ld.pc = "list"
    BY <1>4 DEF OpenFirmware
  <2>2. apk' \in Firmware \cup {None} /\ file = stm_getFwFile'
    BY <1>1, <1>4 DEF OpenFirmware, stm_processBlackList, stm_getFwFile
  <2>3. file \in Firmware \cup {None}
    BY <1>1, <2>2
  <2> HIDE DEF file
  <2>4. ld' \in LdType /\ ld'.pc = "normal" /\ ld'.file = file /\ ld'.tries = ld.tries
    <3>1. "normal" \in LdPcs
      BY DEF LdPcs
    <3> QED
      BY <1>1, <2>1, <2>3, <3>1 DEF LdType
  <2>5. LoaderType'
    BY <1>4, <2>2, <2>4 DEF OpenFirmware, LInv, LoaderType, LdType
  <2> QED
    BY <2>1, <2>2, <2>4, <2>5 DEF LInv, FileInv, FlashInv, VersionInv
<1>5. CASE NormalMode
  <2>1. PICK pc \in {"check", "exit"} : ld' = [ld EXCEPT !.pc = pc]
    BY <1>5 DEF NormalMode, Fail, LoaderAt
  <2>2. pc \in LdPcs
    BY DEF LdPcs
  <2>3. ld' \in LdType /\ ld'.pc = pc /\ ld'.file = ld.file /\ ld'.tries = ld.tries
    BY <1>1, <2>1, <2>2, LdAt
  <2>4. ld.file = stm_getFwFile /\ ld.tries < STM_DOWNLOADRETRIES
    BY <1>5 DEF LInv, FileInv, NormalMode
  <2>5. /\ hubMode' \in {"reset", "bootloader", "normal"}
        /\ UNCHANGED <<apk, flash, hubAddr, booted, antcap>>
    BY <1>1, <1>5 DEF NormalMode
  <2> QED
    BY <1>1, <2>3, <2>4, <2>5, QuietKeeps
<1>6. CASE Exit
  BY <1>1, <1>2, <1>6, QuietKeeps DEF Exit
<1> QED
  BY <1>3, <1>4, <1>5, <1>6

LEMMA NothingUpToZero == 1 .. 0 = {}
OBVIOUS

\* Versions that are found to agree are those of a hub that runs the file.
LEMMA MatchIsProgrammed ==
  ASSUME LInv, stm_getFwFile.ver # "", "match" \in stm_versionCheck
  PROVE  hubMode = "normal" /\ flash = Image(stm_getFwFile)
<1> DEFINE f == stm_getFwFile
<1>1. f \in Firmware
  BY FilesAreBytes
<1>2. stm_getFwVersionFromFile(f) = f.ver
  BY <1>1, LoaderAssumption DEF stm_getFwVersionFromFile
<1> HIDE DEF f
<1>3. PICK v \in getVersionStr, c \in getFlashCrc :
        v = stm_getFwVersionFromFile(f) /\ c = calculateFileCrc32(f)
  <2>1. stm_getFwVersionFromFile(f) # ""
    BY <1>2 DEF f
  <2> QED
    BY <2>1 DEF stm_versionCheck, f
<1>4. Answers
  BY <1>2, <1>3 DEF getVersionStr, f
<1>5. c \in {flash, <<>>} /\ c = Image(f)
  BY <1>3, <1>4 DEF getFlashCrc, calculateFileCrc32
<1>6. CASE c = <<>>
  <2>1. DOMAIN Image(f) = 1 .. FLASH_SIZE /\ DOMAIN c = 1 .. 0
    <3>1. c \in Seq(Byte) /\ Len(c) = 0
      BY <1>6, EmptySeq
    <3>2. DOMAIN c = 1 .. Len(c)
      BY <3>1, LenProperties
    <3> QED
      BY <3>1, <3>2 DEF Image
  <2>2. 1 .. FLASH_SIZE = {} /\ flash \in [1 .. FLASH_SIZE -> 0 .. 255]
    <3>1. 1 .. FLASH_SIZE = 1 .. 0
      BY <1>5, <2>1
    <3>2. 1 .. FLASH_SIZE = {}
      BY <3>1, NothingUpToZero
    <3> QED
      BY <3>2 DEF LInv, LoaderType
  <2>3. flash = Image(f)
    BY <2>2 DEF Image
  <2> QED
    BY <1>4, <2>3 DEF Answers, f
<1> QED
  BY <1>4, <1>5, <1>6 DEF Answers, f

LEMMA CheckKeeps == LInv /\ CheckVersion => LInv'
<1> SUFFICES ASSUME LInv, CheckVersion PROVE LInv'
  OBVIOUS
<1>1. PICK v \in stm_versionCheck :
        ld' = [ld EXCEPT !.ok = v = "match",
                         !.pc = IF ld.force \/ v = "mismatch" THEN "bootloader" ELSE "capsense"]
  BY DEF CheckVersion
<1> DEFINE ok == v = "match"
           pc == IF ld.force \/ v = "mismatch" THEN "bootloader" ELSE "capsense"
<1>2. ok \in BOOLEAN /\ pc \in {"bootloader", "capsense"} /\ pc \in LdPcs
  <2>1. "bootloader" \in LdPcs /\ "capsense" \in LdPcs
    BY DEF LdPcs
  <2> QED
    BY <2>1
<1>3. ld \in LdType /\ ld.file = stm_getFwFile /\ stm_getFwFile' = stm_getFwFile
  BY DEF CheckVersion, LInv, LoaderType, LdType, FileInv, stm_getFwFile
<1>4. ok /\ stm_getFwFile.ver # "" => hubMode = "normal" /\ flash = Image(stm_getFwFile)
  BY MatchIsProgrammed
<1>5. ld' = [ld EXCEPT !.ok = ok, !.pc = pc]
  BY <1>1
<1> HIDE DEF ok, pc
<1>6. ld' \in LdType /\ ld'.pc = pc /\ ld'.ok = ok /\ ld'.file = ld.file /\ ld'.tries = ld.tries
  BY <1>2, <1>3, <1>5 DEF LdType
<1>7. /\ UNCHANGED <<apk, flash, hubMode, hubAddr, booted, antcap>>
      /\ ld.tries < STM_DOWNLOADRETRIES
  BY DEF CheckVersion, LInv, FileInv
<1>8. LoaderType'
  BY <1>6, <1>7 DEF LInv, LoaderType
<1>9. Image(ld.file)' = Image(ld.file)
  BY <1>6 DEF Image
<1>10. FileInv' /\ FlashInv' /\ VersionInv'
  BY <1>2, <1>3, <1>4, <1>6, <1>7, <1>9 DEF FileInv, FlashInv, VersionInv
<1> QED
  BY <1>8, <1>10 DEF LInv

\* What has been erased is not written before the address is set, and then from the
\* start of the file (motosh.cpp: stm_downloadFirmware).
LEMMA EraseKeeps == LInv /\ (BootloaderMode \/ MassErase \/ SetStartAddr) => LInv'
<1> SUFFICES ASSUME LInv, BootloaderMode \/ MassErase \/ SetStartAddr PROVE LInv'
  OBVIOUS
<1>1. /\ ld \in LdType /\ ld.file = stm_getFwFile /\ ld.tries < STM_DOWNLOADRETRIES
      /\ hubMode \in {"reset", "bootloader", "normal"}
      /\ antcap \in [on : BOOLEAN, cal : {"none", "file", "default"}]
      /\ UNCHANGED <<apk, booted, antcap>> /\ stm_getFwFile' = stm_getFwFile
  BY DEF LInv, LoaderType, FileInv, BootloaderMode, MassErase, SetStartAddr, stm_getFwFile
<1>2. ld.pos \in Nat
  BY <1>1 DEF LdType
<1>3. CASE Again(ld.pos) /\ UNCHANGED <<flash, hubAddr>>
             /\ hubMode' \in {"reset", "bootloader", "normal"}
  BY <1>1, <1>2, <1>3, LdAgain, QuietKeeps
<1>4. CASE BootloaderMode /\ LoaderAt("erase")
  <2>1. "erase" \in LdPcs
    BY DEF LdPcs
  <2>2. ld' \in LdType /\ ld'.pc = "erase" /\ ld'.file = ld.file /\ ld'.tries = ld.tries
    BY <1>1, <1>4, <2>1, LdAt DEF LoaderAt
  <2>3. UNCHANGED <<flash, hubAddr>> /\ hubMode' \in {"reset", "bootloader", "normal"}
    BY <1>1, <1>4 DEF BootloaderMode
  <2> QED
    BY <1>1, <2>2, <2>3, QuietKeeps
<1>5. CASE MassErase /\ flash' = Erased /\ LoaderAt("address")
  <2>1. "address" \in LdPcs
    BY DEF LdPcs
  <2>2. ld' \in LdType /\ ld'.pc = "address" /\ ld'.file = ld.file /\ ld'.tries = ld.tries
    BY <1>1, <1>5, <2>1, LdAt DEF LoaderAt
  <2>3. Erased \in [1 .. FLASH_SIZE -> 0 .. 255]
    BY DEF Erased, FLASH_FILL
  <2>4. LoaderType'
    BY <1>1, <1>5, <2>2, <2>3 DEF LInv, LoaderType, MassErase
  <2>5. Erased' = Erased
    BY DEF Erased
  <2> QED
    BY <1>1, <1>5, <2>2, <2>4, <2>5 DEF LInv, FileInv, FlashInv, VersionInv
<1>6. CASE SetStartAddr /\ hubAddr' = 0 /\ ld' = [ld EXCEPT !.pc = "send", !.pos = 0, !.short = FALSE]
  <2>1. "send" \in LdPcs /\ FLASH_SIZE \in Nat /\ PacketLength \in Nat
    BY LoaderAssumption DEF LdPcs
  <2>2. /\ ld' \in LdType /\ ld'.pc = "send" /\ ld'.file = ld.file /\ ld'.tries = ld.tries
        /\ ld'.pos = 0 /\ ~ld'.short
    BY <1>1, <1>6, <2>1 DEF LdType
  <2>3. LoaderType'
    <3>1. hubAddr' \in 0 .. FLASH_SIZE + PacketLength
      BY <1>6, <2>1
    <3> QED
      BY <1>1, <1>6, <2>2, <3>1 DEF LInv, LoaderType, SetStartAddr
  <2>4. flash' = Erased
    BY <1>6 DEF LInv, FlashInv, SetStartAddr
  <2>5. Prefix(ld.file.data, 0) = Erased
    BY DEF Prefix, Erased
  <2>6. flash' = Prefix(ld.file.data, ld.pos)' /\ hubAddr' = ld.pos' /\ hubAddr' <= ld.pos'
    BY <1>6, <2>2, <2>4, <2>5 DEF Prefix
  <2> QED
    BY <1>1, <2>2, <2>3, <2>6 DEF LInv, FileInv, FlashInv, VersionInv
<1> QED
  BY <1>1, <1>3, <1>4, <1>5, <1>6 DEF BootloaderMode, MassErase, SetStartAddr
\* A packet goes to where its bytes belong, and fills up the flash with what an erased
\* flash has (motosh.cpp: stm_getpacket and the loop that writes the packets).
LEMMA SendKeeps == LInv /\ SendPacket => LInv'
<1> SUFFICES ASSUME LInv, SendPacket PROVE LInv'
  OBVIOUS
<1> DEFINE f == ld.file
           p == stm_getpacket(f, ld.pos)
<1>1. /\ ld \in LdType /\ f = stm_getFwFile /\ ld.tries < STM_DOWNLOADRETRIES
      /\ hubMode \in {"reset", "bootloader", "normal"} /\ ld.pc = "send"
      /\ antcap \in [on : BOOLEAN, cal : {"none", "file", "default"}]
      /\ UNCHANGED <<apk, hubMode, booted, antcap>> /\ stm_getFwFile' = stm_getFwFile
  BY DEF LInv, LoaderType, FileInv, SendPacket, stm_getFwFile
<1>2. ld.pos \in Nat /\ PacketLength \in Nat \ {0} /\ FLASH_SIZE \in Nat
      /\ ld.pos + PacketLength \in Nat
  BY <1>1, LoaderAssumption DEF LdType
<1>3. f.data \in Seq(Byte) /\ Len(f.data) \in Nat /\ Len(f.data) <= FLASH_SIZE
  BY <1>1, FilesAreBytes
<1>4. /\ ~ld.short => /\ flash = Prefix(f.data, ld.pos)
                      /\ ld.pos < Len(f.data) => hubAddr = ld.pos
      /\ flash \in [1 .. FLASH_SIZE -> 0 .. 255]
      /\ hubAddr \in Nat /\ hubAddr <= ld.pos
  BY <1>1, <1>2 DEF LInv, FlashInv, LoaderType
<1>5. /\ ld.pos >= Len(f.data) <=> p = <<>>
      /\ p \in Seq(Byte) /\ Len(p) <= PacketLength
      /\ p # <<>> => Len(p) = PacketLength \/ ld.pos + Len(p) >= Len(f.data)
      /\ \A i \in 1 .. Len(p) :
           p[i] = IF ld.pos + i <= Len(f.data) THEN f.data[ld.pos + i] ELSE FLASH_FILL
  BY <1>2, <1>3, PacketContents
<1>6. Len(p) \in Nat
  BY <1>5, LenProperties
<1>7. \/ p = <<>> /\ LoaderAt("reset") /\ UNCHANGED <<flash, hubAddr>>
      \/ \E n \in 0 .. Len(p) :
           /\ p # <<>> /\ Burn(p, n)
           /\ ld' = [ld EXCEPT !.pos = @ + PacketLength, !.short = @ \/ n < Len(p)]
      \/ p # <<>> /\ Again(ld.pos + PacketLength) /\ UNCHANGED <<flash, hubAddr>>
  BY DEF SendPacket
<1> HIDE DEF p
<1>8. CASE p = <<>> /\ LoaderAt("reset") /\ UNCHANGED <<flash, hubAddr>>
  <2>1. "reset" \in LdPcs
    BY DEF LdPcs
  <2>2. ld' \in LdType /\ ld'.pc = "reset" /\ ld'.file = ld.file /\ ld'.tries = ld.tries
        /\ ld'.short = ld.short
    BY <1>1, <1>8, <2>1, LdAt DEF LoaderAt
  <2>3. LoaderType'
    BY <1>1, <1>8, <2>2 DEF LInv, LoaderType
  <2>4. ld.pos >= Len(f.data)
    BY <1>5, <1>8
  <2>5. Prefix(f.data, ld.pos) = Image(f)
    BY <1>2, <1>3, <2>4 DEF Prefix, Image
  <2>6. ~ld'.short => flash' = Image(ld.file)'
    BY <1>4, <1>8, <2>2, <2>5 DEF Image
  <2> QED
    BY <1>1, <2>2, <2>3, <2>6 DEF LInv, FileInv, FlashInv, VersionInv
<1>9. ASSUME NEW n \in 0 .. Len(p), p # <<>>, Burn(p, n),
             ld' = [ld EXCEPT !.pos = @ + PacketLength, !.short = @ \/ n < Len(p)]
      PROVE  LInv'
  <2>1. /\ ld' \in LdType /\ ld'.pc = "send" /\ ld'.file = ld.file /\ ld'.tries = ld.tries
        /\ ld'.pos = ld.pos + PacketLength
        /\ ~ld'.short => ~ld.short /\ n = Len(p)
    <3> DEFINE sh == ld.short \/ n < Len(p)
    <3>1. sh \in BOOLEAN /\ (~sh => ~ld.short /\ n = Len(p))
      BY <1>6
    <3>2. ld' = [ld EXCEPT !.pos = @ + PacketLength, !.short = sh]
      BY <1>9
    <3> HIDE DEF sh
    <3>3. [ld EXCEPT !.pos = @ + PacketLength] \in LdType
      BY <1>1, <1>2 DEF LdType
    <3>4. /\ [ld EXCEPT !.pos = @ + PacketLength, !.short = sh] \in LdType
          /\ [ld EXCEPT !.pos = @ + PacketLength, !.short = sh].short = sh
      BY <3>1, <3>3 DEF LdType
    <3>5. ld'.pc = ld.pc /\ ld'.file = ld.file /\ ld'.tries = ld.tries
          /\ ld'.pos = ld.pos + PacketLength
      BY <1>1, <3>2 DEF LdType
    <3> QED
      BY <1>1, <3>1, <3>2, <3>4, <3>5
  <2>2. ld.pos < Len(f.data)
    BY <1>2, <1>3, <1>5, <1>9
  <2>3. /\ hubAddr' = hubAddr + n
        /\ flash' = [i \in 1 .. FLASH_SIZE |->
                       IF i - hubAddr \in 1 .. n THEN p[i - hubAddr] ELSE flash[i]]
    BY <1>9 DEF Burn
  <2>4. hubAddr' \in 0 .. FLASH_SIZE + PacketLength /\ hubAddr' <= ld'.pos
    BY <1>2, <1>3, <1>4, <1>5, <1>6, <1>9, <2>1, <2>2, <2>3
  <2>5. flash' \in [1 .. FLASH_SIZE -> 0 .. 255]
    <3> SUFFICES ASSUME NEW i \in 1 .. FLASH_SIZE
                 PROVE  (IF i - hubAddr \in 1 .. n THEN p[i - hubAddr] ELSE flash[i]) \in 0 .. 255
      BY <2>3
    <3>1. CASE i - hubAddr \in 1 .. n
      <4>1. i - hubAddr \in 1 .. Len(p)
        BY <1>6, <3>1
      <4>2. p[i - hubAddr] \in Byte
        BY <1>5, <4>1, ElementOfSeq
      <4> QED
        BY <3>1, <4>2 DEF Byte
    <3>2. CASE i - hubAddr \notin 1 .. n
      BY <1>4, <3>2
    <3> QED
      BY <3>1, <3>2
  <2>6. LoaderType'
    BY <1>1, <2>1, <2>4, <2>5 DEF LInv, LoaderType
  <2>7. FileInv' /\ VersionInv'
    <3>1. ld'.pc = "send" /\ ld'.file = stm_getFwFile' /\ ld'.tries < STM_DOWNLOADRETRIES
      BY <1>1, <2>1
    <3> QED
      BY <3>1 DEF FileInv, VersionInv
  <2>8. ld'.pc = "send" /\ hubAddr' <= ld'.pos
    BY <2>1, <2>4
  <2>9. CASE ld'.short
    <3>1. FlashInv'
      BY <2>8, <2>9 DEF FlashInv
    <3> QED
      BY <2>6, <2>7, <3>1 DEF LInv
  <2>10. CASE ~ld'.short
    <3>1. /\ flash = Prefix(f.data, ld.pos) /\ hubAddr = ld.pos /\ n = Len(p)
      BY <1>4, <2>1, <2>2, <2>10
    <3>2. ld'.pos < Len(f.data) => hubAddr' = ld'.pos
      BY <1>2, <1>3, <1>5, <1>6, <1>9, <2>1, <2>3, <3>1
    <3>3. ASSUME NEW i \in 1 .. FLASH_SIZE
          PROVE  (IF i - hubAddr \in 1 .. n THEN p[i - hubAddr] ELSE flash[i])
                   = IF i <= ld.pos + PacketLength /\ i <= Len(f.data) THEN f.data[i] ELSE FLASH_FILL
      <4>1. flash[i] = IF i <= ld.pos /\ i <= Len(f.data) THEN f.data[i] ELSE FLASH_FILL
        BY <3>1 DEF Prefix
      <4>2. CASE i - ld.pos \in 1 .. Len(p)
        <5>1. p[i - ld.pos] = IF ld.pos + (i - ld.pos) <= Len(f.data)
                              THEN f.data[ld.pos + (i - ld.pos)] ELSE FLASH_FILL
          BY <1>5, <4>2
        <5>2. ld.pos + (i - ld.pos) = i /\ i <= ld.pos + PacketLength
          BY <1>2, <1>5, <1>6, <4>2
        <5> QED
          BY <3>1, <4>2, <5>1, <5>2
      <4>3. CASE i - ld.pos \notin 1 .. Len(p)
        <5>1. i <= ld.pos \/ i > ld.pos + Len(p)
          BY <1>2, <1>6, <4>3
        <5>2. CASE i <= ld.pos
          <6>1. i <= ld.pos + PacketLength
            BY <1>2, <5>2
          <6> QED
            BY <3>1, <4>1, <4>3, <5>2, <6>1
        <5>3. CASE i > ld.pos + Len(p)
          <6>1. ~ (i <= ld.pos)
            BY <1>2, <1>6, <5>3
          <6>2. ~ (i <= ld.pos + PacketLength /\ i <= Len(f.data))
            BY <1>2, <1>3, <1>5, <1>6, <1>9, <5>3
          <6> QED
            BY <3>1, <4>1, <4>3, <6>1, <6>2
        <5> QED
          BY <5>1, <5>2, <5>3
      <4> QED
        BY <4>2, <4>3
    <3>4. flash' = Prefix(f.data, ld.pos + PacketLength)
      BY <2>3, <3>3 DEF Prefix
    <3>5. flash' = Prefix(ld.file.data, ld.pos)'
      BY <2>1, <3>4 DEF Prefix
    <3>6. ld'.pos < Len(ld'.file.data) => hubAddr' = ld'.pos
      BY <2>1, <3>2
    <3>7. FlashInv'
      BY <2>8, <3>5, <3>6 DEF FlashInv
    <3> QED
      BY <2>6, <2>7, <3>7 DEF LInv
  <2> QED
    BY <2>9, <2>10
<1>10. CASE p # <<>> /\ Again(ld.pos + PacketLength) /\ UNCHANGED <<flash, hubAddr>>
  <2>1. /\ ld' \in LdType /\ ld'.pc \in {"bootloader", "exit"} /\ ld'.file = ld.file
        /\ ld'.pc = "bootloader" => ld'.tries < STM_DOWNLOADRETRIES
    BY <1>1, <1>2, <1>10, LdAgain
  <2> QED
    BY <1>1, <1>10, <2>1, QuietKeeps
<1> QED
  BY <1>7, <1>8, <1>9, <1>10

\* The versions are compared once more with what is in the flash by then.
LEMMA FinishKeeps == LInv /\ (ResetHub \/ Verify \/ configure_capsense \/ Booted) => LInv'
<1> SUFFICES ASSUME LInv, ResetHub \/ Verify \/ configure_capsense \/ Booted PROVE LInv'
  OBVIOUS
<1>1. /\ ld \in LdType /\ ld.file = stm_getFwFile /\ stm_getFwFile' = stm_getFwFile
      /\ hubMode \in {"reset", "bootloader", "normal"} /\ booted \in BOOLEAN
      /\ antcap \in [on : BOOLEAN, cal : {"none", "file", "default"}]
      /\ UNCHANGED <<apk, flash, hubAddr>>
  BY DEF LInv, LoaderType, FileInv, ResetHub, Verify, configure_capsense, Booted, stm_getFwFile
<1>2. {"verify", "capsense", "booted", "exit"} \subseteq LdPcs
  BY DEF LdPcs
<1>3. CASE ResetHub
  <2>1. ld' \in LdType /\ ld'.pc = "verify" /\ ld'.file = ld.file /\ ld'.tries = ld.tries
    BY <1>1, <1>2, <1>3, LdAt DEF ResetHub, LoaderAt
  <2>2. hubMode' \in {"reset", "bootloader", "normal"} /\ UNCHANGED <<booted, antcap>>
    BY <1>1, <1>3 DEF ResetHub
  <2> QED
    BY <1>1, <2>1, <2>2, QuietKeeps
<1>4. CASE Verify
  <2>1. PICK v2 \in {"match", "mismatch"} :
           /\ v2 = "match" => v2 \in stm_versionCheck
           /\ ld' = [ld EXCEPT !.pc = "capsense", !.ok = v2 = "match"]
    <3>1. PICK v1 \in stm_versionCheck : \E v2 \in IF v1 = "match" THEN {v1} ELSE stm_versionCheck :
             ld' = [ld EXCEPT !.pc = "capsense", !.ok = v2 = "match"]
      BY <1>4 DEF Verify
    <3>2. PICK v2 \in stm_versionCheck : ld' = [ld EXCEPT !.pc = "capsense", !.ok = v2 = "match"]
      BY <3>1
    <3>3. stm_versionCheck \subseteq {"match", "mismatch"}
      BY DEF stm_versionCheck
    <3> QED
      BY <3>2, <3>3
  <2> DEFINE ok == v2 = "match"
  <2>2. ok \in BOOLEAN
    OBVIOUS
  <2>3. ok /\ stm_getFwFile.ver # "" => hubMode = "normal" /\ flash = Image(stm_getFwFile)
    BY <2>1, MatchIsProgrammed
  <2>4. ld' = [ld EXCEPT !.pc = "capsense", !.ok = ok]
    BY <2>1
  <2> HIDE DEF ok
  <2>5. ld' \in LdType /\ ld'.pc = "capsense" /\ ld'.ok = ok /\ ld'.file = ld.file
    BY <1>1, <1>2, <2>2, <2>4 DEF LdType
  <2>6. UNCHANGED <<hubMode, booted, antcap>>
    BY <1>4 DEF Verify
  <2>7. LoaderType'
    BY <1>1, <2>5, <2>6 DEF LInv, LoaderType
  <2>8. Image(ld.file)' = Image(ld.file)
    BY <2>5 DEF Image
  <2> QED
    BY <1>1, <2>3, <2>5, <2>6, <2>7, <2>8 DEF LInv, FileInv, FlashInv, VersionInv
<1>5. CASE configure_capsense \/ Booted
  <2>1. PICK pc \in {"booted", "exit"} :
          /\ ld' = [ld EXCEPT !.pc = pc] /\ hubMode' = hubMode /\ booted' \in BOOLEAN
          /\ antcap' \in [on : BOOLEAN, cal : {"none", "file", "default"}]
          /\ pc = "booted" => ld.pc = "capsense"
          /\ ld.pc \notin {"idle", "list"}
    <3>1. CASE configure_capsense
      <4>1. ld' = [ld EXCEPT !.pc = "booted"] /\ UNCHANGED <<hubMode, booted>> /\ ld.pc = "capsense"
        BY <3>1 DEF configure_capsense, LoaderAt
      <4>2. antcap' \in [on : BOOLEAN, cal : {"none", "file", "default"}]
        <5>1. antcap' \in {antcap, [antcap EXCEPT !.on = FALSE]} \/
              \E on \in BOOLEAN, c \in {"file", "default"} : antcap' = [on |-> on, cal |-> c]
          BY <3>1 DEF configure_capsense
        <5>2. [antcap EXCEPT !.on = FALSE] \in [on : BOOLEAN, cal : {"none", "file", "default"}]
          BY <1>1
        <5>3. \A on \in BOOLEAN, c \in {"file", "default"} :
                [on |-> on, cal |-> c] \in [on : BOOLEAN, cal : {"none", "file", "default"}]
          OBVIOUS
        <5>4. CASE antcap' \in {antcap, [antcap EXCEPT !.on = FALSE]}
          BY <1>1, <5>2, <5>4
        <5> QED
          BY <5>1, <5>3, <5>4
      <4> QED
        BY <1>1, <4>1, <4>2
    <3>2. CASE Booted
      BY <1>1, <3>2 DEF Booted, LoaderAt
    <3> QED
      BY <1>5, <3>1, <3>2
  <2>2. ld' \in LdType /\ ld'.pc = pc /\ ld'.ok = ld.ok /\ ld'.file = ld.file
    BY <1>1, <1>2, <2>1, LdAt
  <2>3. LoaderType'
    BY <1>1, <2>1, <2>2 DEF LInv, LoaderType
  <2>4. Image(ld.file)' = Image(ld.file)
    BY <2>2 DEF Image
  <2> QED
    BY <1>1, <2>1, <2>2, <2>3, <2>4 DEF LInv, FileInv, FlashInv, VersionInv
<1> QED
  BY <1>3, <1>4, <1>5

\* The loader begins anew after the phone went down; nothing else runs beside it.
LEMMA WorldKeeps == LInv /\ (Command \/ Install \/ PowerLoss) => LInv'
<1> SUFFICES ASSUME LInv, Command \/ Install \/ PowerLoss PROVE LInv'
  OBVIOUS
<1>1. /\ Idle \in LdType /\ Idle.pc = "idle" /\ Erased \in [1 .. FLASH_SIZE -> 0 .. 255]
      /\ 0 \in 0 .. FLASH_SIZE + PacketLength
  <2>1. Idle \in LdType /\ Idle.pc = "idle"
    BY DEF Idle, LdType, LdPcs, STM_DOWNLOADRETRIES
  <2>2. Erased \in [1 .. FLASH_SIZE -> 0 .. 255]
    BY DEF Erased, FLASH_FILL
  <2> QED
    BY <2>1, <2>2, LoaderAssumption
<1>2. ld'.pc = "idle" /\ ld' \in LdType
  BY <1>1 DEF Command, Install, PowerLoss, LInv, LoaderType
<1>3. /\ apk' \in Firmware \cup {None} /\ hubMode' \in {"reset", "bootloader", "normal"}
      /\ flash' \in [1 .. FLASH_SIZE -> 0 .. 255] /\ booted' \in BOOLEAN
      /\ hubAddr' \in 0 .. FLASH_SIZE + PacketLength
      /\ antcap' \in [on : BOOLEAN, cal : {"none", "file", "default"}]
  <2>1. CASE Command
    <3>1. hubMode' \in {"reset", "bootloader", "normal"} /\ flash' \in {flash, Erased}
      BY <2>1 DEF Command
    <3>2. UNCHANGED <<apk, hubAddr, booted, antcap>>
      BY <2>1 DEF Command
    <3>3. flash' \in [1 .. FLASH_SIZE -> 0 .. 255]
      BY <1>1, <3>1 DEF LInv, LoaderType
    <3> QED
      BY <3>1, <3>2, <3>3 DEF LInv, LoaderType
  <2>2. CASE Install
    BY <2>2 DEF LInv, LoaderType, Install
  <2>3. CASE PowerLoss
    BY <1>1, <2>3 DEF LInv, LoaderType, PowerLoss
  <2> QED
    BY <2>1, <2>2, <2>3
<1>4. LoaderType'
  BY <1>2, <1>3 DEF LoaderType
<1>5. FileInv' /\ FlashInv' /\ VersionInv'
  BY <1>2 DEF FileInv, FlashInv, VersionInv
<1> QED
  BY <1>4, <1>5 DEF LInv

LEMMA LInvHolds == LInit /\ [][LNext]_lvars => []LInv
<1>1. LInit => LInv
  <2> SUFFICES ASSUME LInit PROVE LInv
    OBVIOUS
  <2>1. Idle \in LdType /\ Idle.pc = "idle"
    BY DEF Idle, LdType, LdPcs, STM_DOWNLOADRETRIES
  <2>2. Erased \in [1 .. FLASH_SIZE -> 0 .. 255] /\ 0 \in 0 .. FLASH_SIZE + PacketLength
    BY LoaderAssumption DEF Erased, FLASH_FILL
  <2> QED
    BY <2>1, <2>2 DEF LInit, LInv, LoaderType, FileInv, FlashInv, VersionInv
<1>2. LInv /\ [LNext]_lvars => LInv'
  <2> SUFFICES ASSUME LInv, [LNext]_lvars PROVE LInv'
    OBVIOUS
  <2>1. CASE UNCHANGED lvars
    <3>1. UNCHANGED <<apk, flash, hubMode, hubAddr, ld, booted, antcap>>
      BY <2>1 DEF lvars
    <3>2. LoaderType'
      BY <3>1 DEF LInv, LoaderType
    <3>3. FileInv' /\ VersionInv'
      BY <3>1 DEF LInv, FileInv, VersionInv, stm_getFwFile, Image
    <3>4. FlashInv'
      BY <3>1 DEF LInv, FlashInv, Prefix, Image
    <3> QED
      BY <3>2, <3>3, <3>4 DEF LInv
  <2> QED
    BY <2>1, BootKeeps, CheckKeeps, EraseKeeps, SendKeeps, FinishKeeps, WorldKeeps
       DEF LNext, Loader
<1> QED
  BY <1>1, <1>2, PTL

\* Type correctness of the loader (motosh.cpp): the retries, the flash and where the
\* hub writes stay within their bounds.
THEOREM LoaderTypeCorrect == LSpec => []LTypeOK
<1>1. LInv => LTypeOK
  <2> SUFFICES ASSUME LInv PROVE LTypeOK
    OBVIOUS
  <2>1. Len(flash) = FLASH_SIZE
    <3>1. FLASH_SIZE \in Nat /\ flash \in [1 .. FLASH_SIZE -> 0 .. 255]
      BY LoaderAssumption DEF LInv, LoaderType
    <3> QED
      BY <3>1
  <2> QED
    BY <2>1 DEF LTypeOK, LInv, LoaderType, LdType
<1> QED
  BY <1>1, LInvHolds, PTL DEF LSpec

\* A download that is taken for complete has put the whole file, and nothing else,
\* into the flash, whatever failed before, unless a write() took less than its packet
\* (motosh.cpp: stm_downloadFirmware).
THEOREM FlashHoldsFile == LSpec => []FlashIsFile
<1>1. LInv => FlashIsFile
  BY DEF LInv, FlashInv, FlashIsFile
<1> QED
  BY <1>1, LInvHolds, PTL DEF LSpec

\* The hub is announced as booted only when it runs the firmware of the file system,
\* unless an error was logged or the file has no version (motosh.cpp: main).
THEOREM BootedHubRunsFile == LSpec => []BootedRunsFile
<1>1. LInv => BootedRunsFile
  BY DEF LInv, VersionInv, BootedRunsFile
<1> QED
  BY <1>1, LInvHolds, PTL DEF LSpec

-------------------------------------------------------------------------------
(* The battery service.                                                    *)

Valued(f) == f \in [Cells -> Nat] /\ \A c \in Cells :
               f[c] \in IF c = 0 THEN Capacities \cup {0} ELSE 0 .. MaxCount

SvcType == [pc : {"down", "rest", "readStorage", "readSRAM", "update", "saveSRAM", "truncate",
                  "write", "done"},
            todo : {<<>>, <<"lc">>, <<"cc", "lc">>}, save : SUBSET {"sram", "storage"}]

BatteryType ==
  /\ Valued(sram) /\ Valued(storage) /\ Valued(sw) /\ Valued(hw) /\ svc \in SvcType
  /\ soc \in [is_first : BOOLEAN, saved_soc : Int, soc_inc : Int] /\ faulty \in BOOLEAN

\* The jobs, and what a job has still to write: the gauge first.
JobInv ==
  /\ svc.pc \notin {"down", "rest"} => svc.todo # <<>>
  /\ svc.pc = "readStorage" => soc.is_first
  /\ svc.pc = "saveSRAM" => "sram" \in svc.save
  /\ svc.pc \in {"truncate", "write"} => svc.save = {"storage"}

Synced(c) == sw[c] = storage[c]

\* A cell of the job at hand: where the job is, and what the copies are then.
JobCell(c) ==
  /\ svc.pc = "readStorage" => sw[c] = 0
  /\ svc.pc \in {"readSRAM", "update", "done"} => Synced(c)
  /\ svc.pc = "update" => hw[c] = sram[c]
  /\ svc.pc = "saveSRAM" => /\ hw[c] = Known(sram, storage, c)
                            /\ IF "storage" \in svc.save THEN sw[c] = hw[c] ELSE Synced(c)
  /\ svc.pc \in {"truncate", "write"} => sw[c] = sram[c] /\ Known(sram, storage, c) = sram[c]

\* A cell of the other job, which is done with it or has not yet read it.
OtherCell(c) == IF c = 0 /\ soc.is_first THEN sw[c] = 0 ELSE Synced(c)

CellInv ==
  ~faulty =>
    /\ svc.pc = "rest" => \A c \in Cells : Synced(c)
    /\ svc.pc \notin {"down", "rest"} =>
         \A c \in Cells : IF c \in CellsOf(Obj) THEN JobCell(c) ELSE OtherCell(c)

BInv == BatteryType /\ JobInv /\ CellInv

LEMMA LargerAndSmaller ==
  ASSUME NEW a \in Nat, NEW b \in Nat
  PROVE  /\ Max({a, b}) = IF a >= b THEN a ELSE b
         /\ Min({a, b}) = IF a <= b THEN a ELSE b
<1>1. \E x \in {a, b} : \A y \in {a, b} : x >= y
  OBVIOUS
<1>2. Max({a, b}) \in {a, b} /\ \A y \in {a, b} : Max({a, b}) >= y
  BY <1>1 DEF Max
<1>3. \E x \in {a, b} : \A y \in {a, b} : x <= y
  OBVIOUS
<1>4. Min({a, b}) \in {a, b} /\ \A y \in {a, b} : Min({a, b}) <= y
  BY <1>3 DEF Min
<1> QED
  BY <1>2, <1>4

LEMMA BatteryConstants ==
  /\ 0 \notin Bins /\ 0 \in Cells /\ Bins \subseteq Cells /\ \A c \in Cells : c \in Nat
  /\ \A c \in Cells : c \in Bins <=> c # 0
  /\ MaxCount \in Nat /\ Capacities \subseteq Nat
  /\ Max(Capacities) \in Capacities
<1>1. Max(Capacities) \in Capacities
  <2>1. \E x \in Capacities : \A y \in Capacities : x >= y
    BY HealthAssumption
  <2> QED
    BY <2>1 DEF Max
<1> QED
  BY <1>1, HealthAssumption DEF Cells

\* What is known of a cell, given the gauge's value and the file's.
LEMMA KnownIs ==
  ASSUME NEW r, NEW s, NEW c \in Cells, r[c] \in Nat, s[c] \in Nat
  PROVE  Known(r, s, c) = IF c # 0 THEN (IF r[c] >= s[c] THEN r[c] ELSE s[c])
                          ELSE IF s[0] = 0 THEN r[0]
                          ELSE IF r[0] <= s[0] THEN r[0] ELSE s[0]
BY LargerAndSmaller DEF Known

LEMMA OverIs ==
  ASSUME NEW f, NEW g, NEW o
  PROVE  /\ \A c \in Cells : Over(f, o, g)[c] = IF c \in CellsOf(o) THEN g[c] ELSE f[c]
         /\ Valued(f) /\ Valued(g) => Valued(Over(f, o, g))
<1>1. \A c \in Cells : Over(f, o, g)[c] = IF c \in CellsOf(o) THEN g[c] ELSE f[c]
  BY DEF Over
<1>2. ASSUME Valued(f), Valued(g) PROVE Valued(Over(f, o, g))
  <2>1. Over(f, o, g) \in [Cells -> Nat]
    BY <1>2 DEF Over, Valued
  <2> QED
    BY <1>1, <1>2, <2>1 DEF Valued
<1> QED
  BY <1>1, <1>2
LEMMA SvcAt ==
  ASSUME NEW pc \in {"readSRAM", "update", "saveSRAM", "truncate", "write", "done"},
         NEW save \in SUBSET {"sram", "storage"}, svc \in SvcType,
         svc' = [svc EXCEPT !.pc = pc, !.save = save]
  PROVE  svc' \in SvcType /\ svc'.pc = pc /\ svc'.todo = svc.todo /\ svc'.save = save /\ Obj' = Obj
<1>1. [svc EXCEPT !.pc = pc] \in SvcType
  BY DEF SvcType
<1>2. svc' \in SvcType /\ svc'.pc = pc /\ svc'.todo = svc.todo /\ svc'.save = save
  BY <1>1 DEF SvcType
<1> QED
  BY <1>2 DEF Obj

LEMMA SvcMoves ==
  ASSUME NEW pc \in {"readSRAM", "update", "saveSRAM", "truncate", "write", "done"},
         svc \in SvcType, BAt(pc)
  PROVE  svc' \in SvcType /\ svc'.pc = pc /\ svc'.todo = svc.todo /\ svc'.save = svc.save /\ Obj' = Obj
<1>1. svc' = [svc EXCEPT !.pc = pc] /\ svc.save \in SUBSET {"sram", "storage"}
  BY DEF BAt, SvcType
<1>2. svc' \in SvcType /\ svc'.pc = pc /\ svc'.todo = svc.todo /\ svc'.save = svc.save
  BY <1>1 DEF SvcType
<1> QED
  BY <1>2 DEF Obj

\* A step of a job moves it on to pc, and changes cells only of its own object.
LEMMA JobStep ==
  ASSUME BInv, BatteryType', svc.pc \notin {"down", "rest"}, svc'.todo = svc.todo, Obj' = Obj,
         soc' = soc, svc'.pc \notin {"down", "rest", "readStorage"},
         svc'.pc = "saveSRAM" => "sram" \in svc'.save,
         svc'.pc \in {"truncate", "write"} => svc'.save = {"storage"},
         faulty => faulty',
         ~faulty' => \A c \in Cells : IF c \in CellsOf(Obj) THEN JobCell(c)'
                                      ELSE sw'[c] = sw[c] /\ storage'[c] = storage[c]
  PROVE  BInv'
<1>1. JobInv'
  BY DEF BInv, JobInv
<1>2. CellInv'
  <2> SUFFICES ASSUME ~faulty', NEW c \in Cells
               PROVE  IF c \in CellsOf(Obj)' THEN JobCell(c)' ELSE OtherCell(c)'
    BY DEF CellInv
  <2>1. CellsOf(Obj)' = CellsOf(Obj)
    BY DEF CellsOf
  <2>2. CASE c \in CellsOf(Obj)
    BY <2>1, <2>2
  <2>3. CASE c \notin CellsOf(Obj)
    <3>1. OtherCell(c)
      BY <2>3 DEF BInv, CellInv
    <3> QED
      BY <2>1, <2>3, <3>1 DEF OtherCell, Synced
  <2> QED
    BY <2>2, <2>3
<1> QED
  BY <1>1, <1>2 DEF BInv

\* What a job knows of its cells while nothing has failed.
LEMMA JobCells ==
  ASSUME BInv, ~faulty, svc.pc \notin {"down", "rest"}
  PROVE  \A c \in Cells : c \in CellsOf(Obj) => JobCell(c)
BY DEF BInv, CellInv

Knows == faulty' \/ \A c \in Cells : Known(sram', storage', c) = Known(sram, storage, c)

\* Reading: both copies are those of the gauge and of the file.
LEMMA ReadsKeep == BInv /\ (ReadFromStorage \/ ReadFromSRAM) => BInv' /\ Knows
<1> SUFFICES ASSUME BInv, ReadFromStorage \/ ReadFromSRAM PROVE BInv' /\ Knows
  OBVIOUS
<1>1. /\ Valued(sram) /\ Valued(storage) /\ Valued(sw) /\ Valued(hw) /\ svc \in SvcType
      /\ soc \in [is_first : BOOLEAN, saved_soc : Int, soc_inc : Int] /\ faulty \in BOOLEAN
  BY DEF BInv, BatteryType
<1>2. Knows
  BY DEF Knows, ReadFromStorage, ReadFromSRAM
<1>3. CASE ReadFromStorage
  <2> DEFINE g == [c \in Cells |-> IF storage[c] = 0 THEN sw[c] ELSE storage[c]]
  <2>1. /\ svc' \in SvcType /\ svc'.pc = "readSRAM" /\ svc'.todo = svc.todo /\ Obj' = Obj
    BY <1>1, <1>3, SvcMoves DEF ReadFromStorage
  <2>2. /\ svc.pc = "readStorage" /\ UNCHANGED <<sram, storage, hw, soc>>
        /\ \/ sw' = Over(sw, Obj, g) /\ faulty' = faulty
           \/ faulty' = TRUE /\ sw' = sw
    BY <1>3 DEF ReadFromStorage
  <2>3. Valued(g)
    BY <1>1 DEF Valued
  <2>4. \A c \in Cells : g[c] = IF storage[c] = 0 THEN sw[c] ELSE storage[c]
    OBVIOUS
  <2> HIDE DEF g
  <2>5. Valued(sw')
    BY <1>1, <2>2, <2>3, OverIs
  <2>6. BatteryType'
    BY <1>1, <2>1, <2>2, <2>5 DEF BatteryType, Valued
  <2>7. ASSUME ~faulty', NEW c \in Cells
        PROVE  IF c \in CellsOf(Obj) THEN JobCell(c)' ELSE sw'[c] = sw[c] /\ storage'[c] = storage[c]
    <3>1. sw'[c] = IF c \in CellsOf(Obj) THEN g[c] ELSE sw[c]
      BY <2>2, <2>7, OverIs
    <3>2. c \in CellsOf(Obj) => sw[c] = 0
      BY <2>2, <2>7, JobCells DEF JobCell
    <3> QED
      BY <2>1, <2>2, <2>4, <3>1, <3>2 DEF JobCell, Synced
  <2> QED
    BY <1>1, <1>2, <2>1, <2>2, <2>6, <2>7, JobStep
<1>4. CASE ReadFromSRAM
  <2>1. /\ svc' \in SvcType /\ svc'.pc = "update" /\ svc'.todo = svc.todo /\ Obj' = Obj
    BY <1>1, <1>4, SvcMoves DEF ReadFromSRAM
  <2>2. /\ svc.pc = "readSRAM" /\ UNCHANGED <<sram, storage, sw, soc>>
        /\ \/ hw' = Over(hw, Obj, sram) /\ faulty' = faulty
           \/ faulty' = TRUE /\ hw' = hw
    BY <1>4 DEF ReadFromSRAM
  <2>3. Valued(hw')
    BY <1>1, <2>2, OverIs
  <2>4. BatteryType'
    BY <1>1, <2>1, <2>2, <2>3 DEF BatteryType, Valued
  <2>5. ASSUME ~faulty', NEW c \in Cells
        PROVE  IF c \in CellsOf(Obj) THEN JobCell(c)' ELSE sw'[c] = sw[c] /\ storage'[c] = storage[c]
    <3>1. c \in CellsOf(Obj) => hw'[c] = sram[c]
      BY <2>2, <2>5, OverIs
    <3>2. c \in CellsOf(Obj) => Synced(c)
      BY <2>2, <2>5, JobCells DEF JobCell
    <3> QED
      BY <2>1, <2>2, <3>1, <3>2 DEF JobCell, Synced
  <2> QED
    BY <1>1, <1>2, <2>1, <2>2, <2>4, <2>5, JobStep
<1> QED
  BY <1>3, <1>4
\* What is written, and in which order, after an update.
LEMMA SavesAre ==
  ASSUME NEW restore \in BOOLEAN, NEW backup \in BOOLEAN, svc \in SvcType,
         svc' = [svc EXCEPT !.pc = Saves(restore, backup), !.save = ToSave(restore, backup)]
  PROVE  /\ svc' \in SvcType /\ svc'.todo = svc.todo /\ Obj' = Obj
         /\ svc'.pc = IF restore THEN "saveSRAM" ELSE IF backup THEN "truncate" ELSE "done"
         /\ "sram" \in svc'.save <=> restore
         /\ "storage" \in svc'.save <=> backup
         /\ svc'.pc = "truncate" => svc'.save = {"storage"}
<1> DEFINE pc == Saves(restore, backup)
           save == ToSave(restore, backup)
<1>1. /\ pc \in {"readSRAM", "update", "saveSRAM", "truncate", "write", "done"}
      /\ pc = IF restore THEN "saveSRAM" ELSE IF backup THEN "truncate" ELSE "done"
  BY DEF Saves
<1>2. /\ save \in SUBSET {"sram", "storage"}
      /\ "sram" \in save <=> restore
      /\ "storage" \in save <=> backup
      /\ ~restore /\ backup => save = {"storage"}
  BY DEF ToSave
<1> HIDE DEF pc, save
<1>3. svc' = [svc EXCEPT !.pc = pc, !.save = save]
  BY DEF pc, save
<1>4. svc' \in SvcType /\ svc'.pc = pc /\ svc'.todo = svc.todo /\ svc'.save = save /\ Obj' = Obj
  BY <1>1, <1>2, <1>3, SvcAt
<1> QED
  BY <1>1, <1>2, <1>4

\* In every bin the larger count, to be written where it is not (UpdateAndSave).
LEMMA CyclesKeep == BInv /\ UpdateCycles => BInv' /\ Knows
<1> SUFFICES ASSUME BInv, UpdateCycles PROVE BInv' /\ Knows
  OBVIOUS
<1> DEFINE most == [c \in Cells |-> Max({hw[c], sw[c]})]
           restore == \E c \in Bins : hw[c] < sw[c]
           backup == \E c \in Bins : hw[c] > sw[c]
<1>1. /\ Valued(sram) /\ Valued(storage) /\ Valued(sw) /\ Valued(hw) /\ svc \in SvcType
      /\ soc \in [is_first : BOOLEAN, saved_soc : Int, soc_inc : Int] /\ faulty \in BOOLEAN
  BY DEF BInv, BatteryType
<1>2. /\ svc.pc = "update" /\ Obj = "cc" /\ UNCHANGED <<sram, storage, soc, faulty>>
      /\ hw' = Over(hw, "cc", most) /\ sw' = Over(sw, "cc", most)
      /\ svc' = [svc EXCEPT !.pc = Saves(restore, backup), !.save = ToSave(restore, backup)]
  BY DEF UpdateCycles
<1>3. \A c \in Cells : most[c] = (IF hw[c] >= sw[c] THEN hw[c] ELSE sw[c])
  BY <1>1, LargerAndSmaller DEF Valued
<1>4. Valued(most)
  <2>1. most \in [Cells -> Nat]
    BY <1>1, <1>3 DEF Valued
  <2> HIDE DEF most
  <2> QED
    BY <1>1, <1>3, <2>1 DEF Valued
<1>5. CellsOf(Obj) = Bins
  BY <1>2 DEF CellsOf
<1> HIDE DEF most
<1>6. /\ svc' \in SvcType /\ svc'.todo = svc.todo /\ Obj' = Obj
      /\ svc'.pc = IF restore THEN "saveSRAM" ELSE IF backup THEN "truncate" ELSE "done"
      /\ "sram" \in svc'.save <=> restore
      /\ "storage" \in svc'.save <=> backup
      /\ svc'.pc = "truncate" => svc'.save = {"storage"}
  <2>1. restore \in BOOLEAN /\ backup \in BOOLEAN
    OBVIOUS
  <2> HIDE DEF restore, backup
  <2> QED
    BY <1>1, <1>2, <2>1, SavesAre
<1> HIDE DEF restore, backup
<1>7. /\ \A c \in Bins : hw'[c] = most[c] /\ sw'[c] = most[c]
      /\ sw'[0] = sw[0]
  BY <1>2, OverIs, BatteryConstants DEF CellsOf
<1>8. BatteryType'
  <2>1. Valued(hw') /\ Valued(sw')
    BY <1>1, <1>2, <1>4, OverIs
  <2> QED
    BY <1>1, <1>2, <1>6, <2>1 DEF BatteryType, Valued
<1>9. ASSUME ~faulty', NEW c \in Cells
      PROVE  IF c \in CellsOf(Obj) THEN JobCell(c)' ELSE sw'[c] = sw[c] /\ storage'[c] = storage[c]
  <2>1. CASE c \in Bins
    <3>1. Synced(c) /\ hw[c] = sram[c]
      BY <1>2, <1>5, <1>9, <2>1, JobCells DEF JobCell
    <3>2. sram[c] \in Nat /\ storage[c] \in Nat /\ hw[c] \in Nat /\ sw[c] \in Nat /\ c # 0
      BY <1>1, <2>1, BatteryConstants DEF Valued
    <3>3. Known(sram, storage, c) = IF sram[c] >= storage[c] THEN sram[c] ELSE storage[c]
      BY <3>2, KnownIs
    <3>4. Known(sram, storage, c) = most[c] /\ Known(sram, storage, c)' = Known(sram, storage, c)
      BY <1>2, <1>3, <3>1, <3>3 DEF Synced
    <3>5. restore => JobCell(c)'
      <4>1. ~backup => most[c] = storage[c]
        BY <1>3, <2>1, <3>1, <3>2 DEF Synced, restore, backup
      <4>2. restore => svc'.pc = "saveSRAM" /\ ("storage" \in svc'.save <=> backup)
        BY <1>6
      <4> QED
        BY <1>2, <1>7, <2>1, <3>4, <4>1, <4>2 DEF JobCell, Synced
    <3>6. ~restore => JobCell(c)'
      <4>1. ~restore => most[c] = sram[c]
        BY <1>3, <2>1, <3>1, <3>2 DEF Synced, restore, backup
      <4>2. ~restore /\ ~backup => most[c] = storage[c]
        BY <1>3, <2>1, <3>1, <3>2 DEF Synced, restore, backup
      <4>3. ~restore => svc'.pc = IF backup THEN "truncate" ELSE "done"
        BY <1>6
      <4> QED
        BY <1>2, <1>7, <2>1, <3>4, <4>1, <4>2, <4>3 DEF JobCell, Synced
    <3> QED
      BY <1>5, <2>1, <3>5, <3>6
  <2>2. CASE c \notin Bins
    BY <1>2, <1>5, <1>7, <2>2, BatteryConstants
  <2> QED
    BY <2>1, <2>2
<1>10. Knows
  BY <1>2 DEF Knows
<1>11. svc.pc \notin {"down", "rest"} /\ svc'.pc \in {"saveSRAM", "truncate", "done"}
       /\ (svc'.pc = "saveSRAM" => restore)
  BY <1>2, <1>6
<1> QED
  BY <1>2, <1>6, <1>8, <1>9, <1>10, <1>11, JobStep

\* The smaller capacity, unless the gauge has none (UpdateAndSave).
LEMMA CapacityKeeps == BInv /\ UpdateCapacity => BInv' /\ Knows
<1> SUFFICES ASSUME BInv, UpdateCapacity PROVE BInv' /\ Knows
  OBVIOUS
<1> DEFINE h == hw[0]
           s == sw[0]
           backup == h # 0 /\ (h < s \/ s = 0)
           restore == h # 0 /\ ~backup /\ h > s
<1>1. /\ Valued(sram) /\ Valued(storage) /\ Valued(sw) /\ Valued(hw) /\ svc \in SvcType
      /\ soc \in [is_first : BOOLEAN, saved_soc : Int, soc_inc : Int] /\ faulty \in BOOLEAN
  BY DEF BInv, BatteryType
<1>2. /\ svc.pc = "update" /\ Obj = "lc" /\ UNCHANGED <<sram, storage, soc, faulty>>
      /\ sw' = [sw EXCEPT ![0] = IF backup THEN h ELSE s]
      /\ hw' = [hw EXCEPT ![0] = IF restore THEN s ELSE h]
      /\ svc' = [svc EXCEPT !.pc = Saves(restore, backup), !.save = ToSave(restore, backup)]
  BY DEF UpdateCapacity
<1>3. /\ svc' \in SvcType /\ svc'.todo = svc.todo /\ Obj' = Obj
      /\ svc'.pc = IF restore THEN "saveSRAM" ELSE IF backup THEN "truncate" ELSE "done"
      /\ "sram" \in svc'.save <=> restore
      /\ "storage" \in svc'.save <=> backup
      /\ svc'.pc = "truncate" => svc'.save = {"storage"}
  <2>1. restore \in BOOLEAN /\ backup \in BOOLEAN
    OBVIOUS
  <2> HIDE DEF restore, backup
  <2> QED
    BY <1>1, <1>2, <2>1, SavesAre
<1>4. CellsOf(Obj) = {0}
  BY <1>2 DEF CellsOf
<1>5. /\ sw'[0] = (IF backup THEN h ELSE s) /\ hw'[0] = (IF restore THEN s ELSE h)
      /\ \A c \in Cells \ {0} : sw'[c] = sw[c] /\ hw'[c] = hw[c]
      /\ Valued(sw') /\ Valued(hw')
  <2>1. /\ sw'[0] = (IF backup THEN h ELSE s) /\ hw'[0] = (IF restore THEN s ELSE h)
        /\ \A c \in Cells \ {0} : sw'[c] = sw[c] /\ hw'[c] = hw[c]
    BY <1>1, <1>2, BatteryConstants DEF Valued
  <2>2. h \in Nat /\ s \in Nat /\ h \in Capacities \cup {0} /\ s \in Capacities \cup {0}
    BY <1>1, BatteryConstants DEF Valued
  <2>3. sw' \in [Cells -> Nat] /\ hw' \in [Cells -> Nat]
    BY <1>1, <1>2, <2>2 DEF Valued
  <2>4. ASSUME NEW c \in Cells
        PROVE  /\ sw'[c] \in IF c = 0 THEN Capacities \cup {0} ELSE 0 .. MaxCount
               /\ hw'[c] \in IF c = 0 THEN Capacities \cup {0} ELSE 0 .. MaxCount
    <3> HIDE DEF h, s, backup, restore
    <3>1. CASE c = 0
      BY <2>1, <2>2, <3>1
    <3>2. CASE c # 0
      BY <1>1, <2>1, <3>2 DEF Valued
    <3> QED
      BY <3>1, <3>2
  <2> QED
    BY <2>1, <2>3, <2>4 DEF Valued
<1>6. BatteryType'
  BY <1>1, <1>2, <1>3, <1>5 DEF BatteryType, Valued
<1>7. ASSUME ~faulty', NEW c \in Cells
      PROVE  IF c \in CellsOf(Obj) THEN JobCell(c)' ELSE sw'[c] = sw[c] /\ storage'[c] = storage[c]
  <2>1. CASE c = 0
    <3>1. s = storage[0] /\ h = sram[0]
      BY <1>2, <1>4, <1>7, <2>1, JobCells DEF JobCell, Synced
    <3>2. sram[0] \in Nat /\ storage[0] \in Nat
      BY <1>1, BatteryConstants DEF Valued
    <3>3. Known(sram, storage, 0) = IF storage[0] = 0 THEN sram[0]
                                    ELSE IF sram[0] <= storage[0] THEN sram[0] ELSE storage[0]
      BY <3>2, KnownIs, BatteryConstants
    <3>4. Known(sram, storage, 0)' = Known(sram, storage, 0)
      BY <1>2
    <3>5. CASE restore
      <4>1. ~backup /\ Known(sram, storage, 0) = s /\ hw'[0] = s /\ sw'[0] = s
        BY <1>5, <3>1, <3>2, <3>3, <3>5
      <4> QED
        BY <1>2, <1>3, <1>4, <2>1, <3>1, <3>4, <3>5, <4>1 DEF JobCell, Synced
    <3>6. CASE backup
      <4>1. ~restore /\ Known(sram, storage, 0) = h /\ sw'[0] = h
        BY <1>5, <3>1, <3>2, <3>3, <3>6
      <4> QED
        BY <1>2, <1>3, <1>4, <2>1, <3>1, <3>4, <3>6, <4>1 DEF JobCell, Synced
    <3>7. CASE ~restore /\ ~backup
      BY <1>2, <1>3, <1>4, <1>5, <2>1, <3>1, <3>7 DEF JobCell, Synced
    <3> QED
      BY <3>5, <3>6, <3>7
  <2>2. CASE c # 0
    BY <1>2, <1>4, <1>5, <2>2
  <2> QED
    BY <2>1, <2>2
<1>8. Knows
  BY <1>2 DEF Knows
<1>9. svc.pc \notin {"down", "rest"} /\ svc'.pc \in {"saveSRAM", "truncate", "done"}
       /\ (svc'.pc = "saveSRAM" => restore)
  BY <1>2, <1>3
<1> QED
  BY <1>2, <1>3, <1>6, <1>7, <1>8, <1>9, JobStep
LEMMA LeftIs ==
  ASSUME NEW x \in {"sram", "storage"}, NEW pc \in {"saveSRAM", "truncate"}, svc \in SvcType,
         Left(x, pc)
  PROVE  /\ svc' \in SvcType /\ svc'.todo = svc.todo /\ Obj' = Obj
         /\ svc'.save = svc.save \ {x}
         /\ svc'.pc = IF svc.save \ {x} = {} THEN "done" ELSE pc
<1> DEFINE save == svc.save \ {x}
           to == IF save = {} THEN "done" ELSE pc
<1>1. save \in SUBSET {"sram", "storage"} /\ to \in {"saveSRAM", "truncate", "done"}
  BY DEF SvcType
<1>2. svc' = [svc EXCEPT !.save = save, !.pc = to]
  BY DEF Left
<1>3. to = IF save = {} THEN "done" ELSE pc
  OBVIOUS
<1> HIDE DEF to
<1>4. [svc EXCEPT !.save = save] \in SvcType
  BY <1>1 DEF SvcType
<1>5. svc' \in SvcType /\ svc'.pc = to /\ svc'.todo = svc.todo /\ svc'.save = save
  BY <1>1, <1>2, <1>4 DEF SvcType
<1> QED
  BY <1>3, <1>5 DEF Obj

\* Writing: the gauge has all that is known before a file is emptied.
LEMMA SavesKeep == BInv /\ (SaveToSRAM \/ Truncate \/ SaveToStorage) => BInv' /\ Knows
<1> SUFFICES ASSUME BInv, SaveToSRAM \/ Truncate \/ SaveToStorage PROVE BInv' /\ Knows
  OBVIOUS
<1>1. /\ Valued(sram) /\ Valued(storage) /\ Valued(sw) /\ Valued(hw) /\ svc \in SvcType
      /\ soc \in [is_first : BOOLEAN, saved_soc : Int, soc_inc : Int] /\ faulty \in BOOLEAN
      /\ \A c \in Cells : sram[c] \in Nat /\ storage[c] \in Nat /\ sw[c] \in Nat /\ hw[c] \in Nat
  BY DEF BInv, BatteryType, Valued
<1>2. CASE SaveToSRAM
  <2>1. /\ svc.pc = "saveSRAM" /\ UNCHANGED <<storage, sw, hw, soc>> /\ Left("sram", "truncate")
        /\ \/ sram' = Over(sram, Obj, hw) /\ faulty' = faulty
           \/ faulty' = TRUE /\ sram' = sram
    BY <1>2 DEF SaveToSRAM
  <2>2. /\ svc' \in SvcType /\ svc'.todo = svc.todo /\ Obj' = Obj
        /\ svc'.save = svc.save \ {"sram"}
        /\ svc'.pc = IF svc.save \ {"sram"} = {} THEN "done" ELSE "truncate"
    BY <1>1, <2>1, LeftIs
  <2>3. Valued(sram')
    BY <1>1, <2>1, OverIs
  <2>4. BatteryType'
    BY <1>1, <2>1, <2>2, <2>3 DEF BatteryType, Valued
  <2>5. /\ svc.save \subseteq {"sram", "storage"}
        /\ svc'.pc = "truncate" => svc'.save = {"storage"} /\ "storage" \in svc.save
        /\ svc'.pc = "done" => "storage" \notin svc.save
        /\ svc'.pc \in {"truncate", "done"}
    BY <1>1, <2>2 DEF SvcType
  <2>6. ASSUME ~faulty', NEW c \in Cells
        PROVE  /\ IF c \in CellsOf(Obj) THEN JobCell(c)' ELSE sw'[c] = sw[c] /\ storage'[c] = storage[c]
               /\ Known(sram', storage', c) = Known(sram, storage, c)
    <3>1. sram'[c] = IF c \in CellsOf(Obj) THEN hw[c] ELSE sram[c]
      BY <2>1, <2>6, OverIs
    <3>2. /\ Known(sram, storage, c) = IF c # 0 THEN (IF sram[c] >= storage[c] THEN sram[c] ELSE storage[c])
                                       ELSE IF storage[0] = 0 THEN sram[0]
                                       ELSE IF sram[0] <= storage[0] THEN sram[0] ELSE storage[0]
      BY <1>1, KnownIs
    <3>3. sram'[c] \in Nat /\ storage'[c] \in Nat
      BY <1>1, <2>1, <3>1
    <3>4. /\ Known(sram', storage', c) = IF c # 0 THEN (IF sram'[c] >= storage[c] THEN sram'[c] ELSE storage[c])
                                         ELSE IF storage[0] = 0 THEN sram'[0]
                                         ELSE IF sram'[0] <= storage[0] THEN sram'[0] ELSE storage[0]
      BY <2>1, <3>3, KnownIs
    <3>5. CASE c \in CellsOf(Obj)
      <4>1. /\ hw[c] = Known(sram, storage, c)
            /\ IF "storage" \in svc.save THEN sw[c] = hw[c] ELSE Synced(c)
        BY <2>1, <2>6, <3>5, JobCells DEF JobCell
      <4>2. sram'[c] = Known(sram, storage, c)
        BY <3>1, <3>5, <4>1
      <4>3. Known(sram', storage', c) = Known(sram, storage, c)
        <5>1. c = 0 \/ c # 0
          OBVIOUS
        <5> QED
          BY <1>1, <3>2, <3>3, <3>4, <4>2, <5>1
      <4> QED
        BY <2>1, <2>5, <3>5, <4>1, <4>2, <4>3 DEF JobCell, Synced
    <3>6. CASE c \notin CellsOf(Obj)
      <4>1. sram'[c] = sram[c]
        BY <3>1, <3>6
      <4> QED
        BY <2>1, <3>2, <3>4, <3>6, <4>1
    <3> QED
      BY <3>5, <3>6
  <2>7. Knows
    BY <2>6 DEF Knows
  <2> QED
    BY <1>1, <2>1, <2>2, <2>4, <2>5, <2>6, <2>7, JobStep
<1>3. CASE Truncate
  <2>1. /\ svc.pc = "truncate" /\ UNCHANGED <<sram, sw, hw, soc, faulty>> /\ BAt("write")
        /\ storage' = Over(storage, Obj, Zero)
    BY <1>3 DEF Truncate
  <2>2. /\ svc' \in SvcType /\ svc'.pc = "write" /\ svc'.todo = svc.todo /\ Obj' = Obj
        /\ svc'.save = svc.save /\ svc.save = {"storage"}
    BY <1>1, <2>1, SvcMoves DEF BInv, JobInv
  <2>3. Valued(Zero) /\ \A c \in Cells : Zero[c] = 0
    BY BatteryConstants DEF Zero, Valued
  <2>4. Valued(storage')
    BY <1>1, <2>1, <2>3, OverIs
  <2>5. BatteryType'
    BY <1>1, <2>1, <2>2, <2>4 DEF BatteryType, Valued
  <2>6. ASSUME ~faulty', NEW c \in Cells
        PROVE  /\ IF c \in CellsOf(Obj) THEN JobCell(c)' ELSE sw'[c] = sw[c] /\ storage'[c] = storage[c]
               /\ Known(sram', storage', c) = Known(sram, storage, c)
    <3>1. storage'[c] = IF c \in CellsOf(Obj) THEN 0 ELSE storage[c]
      BY <2>1, <2>3, OverIs
    <3>2. storage'[c] \in Nat
      BY <1>1, <3>1
    <3>3. /\ Known(sram', storage', c) = IF c # 0 THEN (IF sram[c] >= storage'[c] THEN sram[c] ELSE storage'[c])
                                         ELSE IF storage'[0] = 0 THEN sram[0]
                                         ELSE IF sram[0] <= storage'[0] THEN sram[0] ELSE storage'[0]
      BY <1>1, <2>1, <3>2, KnownIs
    <3>4. CASE c \in CellsOf(Obj)
      <4>1. sw[c] = sram[c] /\ Known(sram, storage, c) = sram[c]
        BY <2>1, <2>6, <3>4, JobCells DEF JobCell
      <4>2. Known(sram', storage', c) = sram[c]
        BY <1>1, <3>1, <3>3, <3>4
      <4> QED
        BY <2>1, <2>2, <3>4, <4>1, <4>2 DEF JobCell
    <3>5. CASE c \notin CellsOf(Obj)
      <4>1. Known(sram, storage, c) = IF c # 0 THEN (IF sram[c] >= storage[c] THEN sram[c] ELSE storage[c])
                                       ELSE IF storage[0] = 0 THEN sram[0]
                                       ELSE IF sram[0] <= storage[0] THEN sram[0] ELSE storage[0]
        BY <1>1, KnownIs
      <4> QED
        BY <2>1, <3>1, <3>3, <3>5, <4>1
    <3> QED
      BY <3>4, <3>5
  <2>7. Knows
    BY <2>6 DEF Knows
  <2> QED
    BY <1>1, <2>1, <2>2, <2>5, <2>6, <2>7, JobStep
<1>4. CASE SaveToStorage
  <2>1. /\ svc.pc = "write" /\ UNCHANGED <<sram, sw, hw, soc>> /\ Left("storage", "saveSRAM")
        /\ \/ storage' = Over(storage, Obj, sw) /\ faulty' = faulty
           \/ faulty' = TRUE /\ storage' = storage
    BY <1>4 DEF SaveToStorage
  <2>2. /\ svc' \in SvcType /\ svc'.todo = svc.todo /\ Obj' = Obj /\ svc'.pc = "done"
    BY <1>1, <2>1, LeftIs DEF BInv, JobInv
  <2>3. Valued(storage')
    BY <1>1, <2>1, OverIs
  <2>4. BatteryType'
    BY <1>1, <2>1, <2>2, <2>3 DEF BatteryType, Valued
  <2>5. ASSUME ~faulty', NEW c \in Cells
        PROVE  /\ IF c \in CellsOf(Obj) THEN JobCell(c)' ELSE sw'[c] = sw[c] /\ storage'[c] = storage[c]
               /\ Known(sram', storage', c) = Known(sram, storage, c)
    <3>1. storage'[c] = IF c \in CellsOf(Obj) THEN sw[c] ELSE storage[c]
      BY <2>1, <2>5, OverIs
    <3>2. storage'[c] \in Nat
      BY <1>1, <3>1
    <3>3. /\ Known(sram', storage', c) = IF c # 0 THEN (IF sram[c] >= storage'[c] THEN sram[c] ELSE storage'[c])
                                         ELSE IF storage'[0] = 0 THEN sram[0]
                                         ELSE IF sram[0] <= storage'[0] THEN sram[0] ELSE storage'[0]
      BY <1>1, <2>1, <3>2, KnownIs
    <3>4. CASE c \in CellsOf(Obj)
      <4>1. sw[c] = sram[c] /\ Known(sram, storage, c) = sram[c]
        BY <2>1, <2>5, <3>4, JobCells DEF JobCell
      <4>2. Known(sram', storage', c) = sram[c]
        BY <1>1, <3>1, <3>3, <3>4, <4>1
      <4> QED
        BY <2>1, <2>2, <3>1, <3>4, <4>1, <4>2 DEF JobCell, Synced
    <3>5. CASE c \notin CellsOf(Obj)
      <4>1. Known(sram, storage, c) = IF c # 0 THEN (IF sram[c] >= storage[c] THEN sram[c] ELSE storage[c])
                                       ELSE IF storage[0] = 0 THEN sram[0]
                                       ELSE IF sram[0] <= storage[0] THEN sram[0] ELSE storage[0]
        BY <1>1, KnownIs
      <4> QED
        BY <2>1, <3>1, <3>3, <3>5, <4>1
    <3> QED
      BY <3>4, <3>5
  <2>6. Knows
    BY <2>5 DEF Knows
  <2> QED
    BY <1>1, <2>1, <2>2, <2>4, <2>5, <2>6, JobStep
<1> QED
  BY <1>2, <1>3, <1>4
\* The next job begins with copies that are those of the files, or with none.
LEMMA JobDoneKeeps == BInv /\ JobDone => BInv' /\ Knows
<1> SUFFICES ASSUME BInv, JobDone PROVE BInv' /\ Knows
  OBVIOUS
<1>1. /\ svc.pc = "done" /\ svc' = NextJob /\ UNCHANGED <<sram, storage, sw, hw, soc, faulty>>
  BY DEF JobDone
<1>2. /\ svc \in SvcType /\ svc.todo \in {<<"lc">>, <<"cc", "lc">>}
      /\ soc \in [is_first : BOOLEAN, saved_soc : Int, soc_inc : Int]
  BY <1>1 DEF BInv, BatteryType, JobInv, SvcType
<1>3. Knows
  BY <1>1 DEF Knows
<1>4. ~faulty => \A c \in Cells : IF c \in CellsOf(Obj) THEN Synced(c) ELSE OtherCell(c)
  BY <1>1 DEF BInv, CellInv, JobCell
<1>5. CASE svc.todo = <<"lc">>
  <2>1. svc' = AtRest /\ Obj = "lc"
    BY <1>1, <1>5 DEF NextJob, Obj
  <2>2. svc' \in SvcType /\ svc'.pc = "rest"
    BY <2>1 DEF AtRest, SvcType
  <2>3. BatteryType'
    BY <1>1, <2>2 DEF BInv, BatteryType, Valued
  <2>4. ~faulty => \A c \in Cells : Synced(c)
    BY <1>4, <2>1 DEF CellsOf, OtherCell
  <2>5. JobInv' /\ CellInv'
    BY <1>1, <2>2, <2>4 DEF JobInv, CellInv, Synced
  <2> QED
    BY <1>3, <2>3, <2>5 DEF BInv
<1>6. CASE svc.todo = <<"cc", "lc">>
  <2>1. /\ svc' = [pc |-> IF soc.is_first THEN "readStorage" ELSE "readSRAM",
                   todo |-> <<"lc">>, save |-> {}]
        /\ Obj = "cc"
    BY <1>1, <1>6 DEF NextJob, Obj
  <2>2. /\ svc' \in SvcType /\ svc'.pc = (IF soc.is_first THEN "readStorage" ELSE "readSRAM")
        /\ svc'.todo = <<"lc">> /\ Obj' = "lc" /\ CellsOf(Obj) = Bins /\ CellsOf(Obj)' = {0}
    BY <2>1 DEF SvcType, Obj, CellsOf
  <2>3. BatteryType'
    BY <1>1, <2>2 DEF BInv, BatteryType, Valued
  <2>4. JobInv'
    BY <1>1, <2>2 DEF JobInv
  <2>5. ASSUME ~faulty, NEW c \in Cells
        PROVE  IF c \in CellsOf(Obj)' THEN JobCell(c)' ELSE OtherCell(c)'
    <3>1. CASE c = 0
      <4>1. OtherCell(c)
        BY <1>4, <2>2, <2>5, <3>1, BatteryConstants
      <4> QED
        BY <1>1, <2>2, <3>1, <4>1 DEF OtherCell, JobCell, Synced
    <3>2. CASE c # 0
      <4>1. Synced(c)
        BY <1>4, <2>2, <2>5, <3>2, BatteryConstants
      <4> QED
        BY <1>1, <2>2, <3>2, <4>1 DEF OtherCell, Synced
    <3> QED
      BY <3>1, <3>2
  <2>6. CellInv'
    BY <1>1, <2>2, <2>5 DEF CellInv
  <2> QED
    BY <1>3, <2>3, <2>4, <2>6 DEF BInv
<1> QED
  BY <1>2, <1>5, <1>6

\* healthd_board_init forgets every copy, and reads the files again.
LEMMA StartKeeps == BInv /\ healthd_board_init => BInv' /\ Knows
<1> SUFFICES ASSUME BInv, healthd_board_init PROVE BInv' /\ Knows
  OBVIOUS
<1>1. /\ svc' = [pc |-> "readStorage", todo |-> <<"cc", "lc">>, save |-> {}]
      /\ soc' = [is_first |-> TRUE, saved_soc |-> 0, soc_inc |-> 0]
      /\ sw' = Zero /\ hw' = Zero /\ UNCHANGED <<sram, storage, faulty>>
  BY DEF healthd_board_init
<1>2. Knows
  BY <1>1 DEF Knows
<1>3. /\ svc' \in SvcType /\ svc'.pc = "readStorage" /\ svc'.todo # <<>>
      /\ Obj' = "cc" /\ CellsOf(Obj)' = Bins
  BY <1>1 DEF SvcType, Obj, CellsOf
<1>4. Valued(Zero) /\ \A c \in Cells : Zero[c] = 0
  BY BatteryConstants DEF Zero, Valued
<1>5. /\ soc' \in [is_first : BOOLEAN, saved_soc : Int, soc_inc : Int] /\ soc'.is_first
  BY <1>1
<1>6. BatteryType'
  BY <1>1, <1>3, <1>4, <1>5 DEF BInv, BatteryType, Valued
<1>7. JobInv'
  BY <1>3, <1>5 DEF JobInv
<1>8. CellInv'
  <2> SUFFICES ASSUME NEW c \in Cells
               PROVE  IF c \in CellsOf(Obj)' THEN JobCell(c)' ELSE OtherCell(c)'
    BY <1>3 DEF CellInv
  <2>1. sw'[c] = 0
    BY <1>1, <1>4
  <2> QED
    BY <1>3, <1>5, <2>1, BatteryConstants DEF JobCell, OtherCell
<1> QED
  BY <1>2, <1>6, <1>7, <1>8 DEF BInv

\* A level of the battery starts jobs that trust the copies of the last ones.
LEMMA UpdateKeeps == BInv /\ healthd_board_battery_update => BInv' /\ Knows
<1> SUFFICES ASSUME BInv, healthd_board_battery_update PROVE BInv' /\ Knows
  OBVIOUS
<1>1. /\ svc.pc = "rest" /\ UNCHANGED <<sram, storage, sw, hw, faulty>>
      /\ soc \in [is_first : BOOLEAN, saved_soc : Int, soc_inc : Int]
  BY DEF healthd_board_battery_update, BInv, BatteryType
<1>2. PICK level \in Levels :
        LET s == cycle_count_backup(level)
            save == ~soc.is_first /\ s.soc_inc >= kBackupTrigger
        IN  /\ soc' = IF save THEN [s EXCEPT !.soc_inc = 0] ELSE s
            /\ svc' = [pc |-> "readSRAM", todo |-> IF save THEN <<"cc", "lc">> ELSE <<"lc">>,
                       save |-> {}]
  BY DEF healthd_board_battery_update
<1> DEFINE s == cycle_count_backup(level)
<1>3. s \in [is_first : BOOLEAN, saved_soc : Int, soc_inc : Int] /\ ~s.is_first
  <2>1. level \in Int
    BY HealthAssumption
  <2>2. CASE soc.is_first
    BY <2>1, <2>2 DEF cycle_count_backup
  <2>3. CASE ~soc.is_first
    <3> DEFINE inc == IF level > soc.saved_soc THEN soc.soc_inc + level - soc.saved_soc
                      ELSE soc.soc_inc
    <3>1. inc \in Int
      BY <1>1, <2>1
    <3>2. s = [soc EXCEPT !.saved_soc = level, !.soc_inc = inc]
      BY <2>3 DEF cycle_count_backup
    <3> HIDE DEF inc
    <3>3. [soc EXCEPT !.saved_soc = level] \in [is_first : BOOLEAN, saved_soc : Int, soc_inc : Int]
      BY <1>1, <2>1
    <3>4. [soc EXCEPT !.saved_soc = level, !.soc_inc = inc]
            \in [is_first : BOOLEAN, saved_soc : Int, soc_inc : Int]
      BY <3>1, <3>3
    <3>5. s.is_first = soc.is_first
      BY <1>1, <3>2
    <3> QED
      BY <2>3, <3>2, <3>4, <3>5
  <2> QED
    BY <2>2, <2>3
<1> HIDE DEF s
<1>4. /\ soc' \in {s, [s EXCEPT !.soc_inc = 0]}
      /\ svc' \in {[pc |-> "readSRAM", todo |-> <<"cc", "lc">>, save |-> {}],
                   [pc |-> "readSRAM", todo |-> <<"lc">>, save |-> {}]}
  BY <1>2 DEF s
<1>5. soc' \in [is_first : BOOLEAN, saved_soc : Int, soc_inc : Int] /\ ~soc'.is_first
  BY <1>3, <1>4
<1>6. svc' \in SvcType /\ svc'.pc = "readSRAM" /\ svc'.todo # <<>>
  BY <1>4 DEF SvcType
<1>7. BatteryType'
  BY <1>1, <1>5, <1>6 DEF BInv, BatteryType, Valued
<1>8. JobInv'
  BY <1>6 DEF JobInv
<1>9. CellInv'
  <2> SUFFICES ASSUME ~faulty, NEW c \in Cells
               PROVE  IF c \in CellsOf(Obj)' THEN JobCell(c)' ELSE OtherCell(c)'
    BY <1>1, <1>6 DEF CellInv
  <2>1. Synced(c)
    BY <1>1 DEF BInv, CellInv
  <2> QED
    BY <1>1, <1>5, <1>6, <2>1 DEF JobCell, OtherCell, Synced
<1>10. Knows
  BY <1>1 DEF Knows
<1> QED
  BY <1>7, <1>8, <1>9, <1>10 DEF BInv

\* The gauge counts and learns only while the service has nothing in hand.
LEMMA BatteryKeeps == BInv /\ (Count \/ Learn \/ Die \/ BatteryOut) => BInv'
<1> SUFFICES ASSUME BInv, Count \/ Learn \/ Die \/ BatteryOut PROVE BInv'
  OBVIOUS
<1>1. /\ UNCHANGED <<storage, sw, hw, soc, faulty>>
      /\ \/ svc' = Down
         \/ svc' = svc /\ svc.pc \in {"down", "rest"}
  BY DEF Count, Learn, Die, BatteryOut
<1>2. Down \in SvcType /\ Down.pc = "down"
  BY DEF Down, SvcType
<1>3. svc' \in SvcType /\ svc'.pc \in {"down", "rest"} /\ (svc'.pc = "rest" => svc.pc = "rest")
  BY <1>1, <1>2 DEF BInv, BatteryType
<1>4. Valued(sram')
  <2>1. Valued(sram)
    BY DEF BInv, BatteryType
  <2>2. CASE Count
    <3>1. PICK b \in Bins : sram[b] < MaxCount /\ sram' = [sram EXCEPT ![b] = @ + 1]
      BY <2>2 DEF Count
    <3>2. b \in Cells /\ b # 0 /\ sram[b] \in 0 .. MaxCount /\ MaxCount \in Nat
      BY <2>1, BatteryConstants DEF Valued
    <3>3. sram[b] + 1 \in 0 .. MaxCount /\ sram[b] + 1 \in Nat
      BY <3>1, <3>2
    <3> QED
      BY <2>1, <3>1, <3>2, <3>3 DEF Valued
  <2>3. CASE Learn
    <3>1. PICK q \in Capacities : sram' = [sram EXCEPT ![0] = q]
      BY <2>3 DEF Learn
    <3> QED
      BY <2>1, <3>1, BatteryConstants DEF Valued
  <2>4. CASE Die
    BY <2>1, <2>4 DEF Die
  <2>5. CASE BatteryOut
    <3>1. Valued(Zero)
      BY BatteryConstants DEF Zero, Valued
    <3>2. sram' = [Zero EXCEPT ![0] = Max(Capacities)]
      BY <2>5 DEF BatteryOut, NewGauge
    <3> QED
      BY <3>1, <3>2, BatteryConstants DEF Valued
  <2> QED
    BY <2>2, <2>3, <2>4, <2>5
<1>5. BatteryType'
  BY <1>1, <1>3, <1>4 DEF BInv, BatteryType, Valued
<1>6. JobInv' /\ CellInv'
  BY <1>1, <1>3 DEF BInv, JobInv, CellInv, Synced
<1> QED
  BY <1>5, <1>6 DEF BInv

LEMMA BStep == BInv /\ [BNext]_bvars => BInv' /\ (Service => Knows)
<1> SUFFICES ASSUME BInv, [BNext]_bvars PROVE BInv' /\ (Service => Knows)
  OBVIOUS
<1>1. CASE Service
  BY <1>1, ReadsKeep, CyclesKeep, CapacityKeeps, SavesKeep, JobDoneKeeps, StartKeeps, UpdateKeeps
     DEF Service
<1>2. CASE UNCHANGED bvars
  <2>1. UNCHANGED <<sram, storage, sw, hw, svc, soc, faulty>>
    BY <1>2 DEF bvars
  <2>2. BatteryType'
    BY <2>1 DEF BInv, BatteryType, Valued
  <2>3. JobInv' /\ CellInv'
    BY <2>1 DEF BInv, JobInv, CellInv, JobCell, OtherCell, Synced, Obj, CellsOf
  <2>4. Knows
    BY <2>1 DEF Knows
  <2> QED
    BY <2>2, <2>3, <2>4 DEF BInv
<1> QED
  BY <1>1, <1>2, BatteryKeeps DEF BNext

LEMMA BInvHolds == BSpec => []BInv
<1>1. BInit => BInv
  <2> SUFFICES ASSUME BInit PROVE BInv
    OBVIOUS
  <2>1. Valued(Zero)
    BY BatteryConstants DEF Zero, Valued
  <2>2. Valued(NewGauge)
    BY <2>1, BatteryConstants DEF NewGauge, Valued
  <2>3. Down \in SvcType /\ Down.pc = "down"
    BY DEF Down, SvcType
  <2>4. soc \in [is_first : BOOLEAN, saved_soc : Int, soc_inc : Int]
    BY DEF BInit
  <2>5. BatteryType
    BY <2>1, <2>2, <2>3, <2>4 DEF BInit, BatteryType
  <2> QED
    BY <2>3, <2>5 DEF BInit, BInv, JobInv, CellInv
<1>2. BInv /\ [BNext]_bvars => BInv'
  BY BStep
<1> QED
  BY <1>1, <1>2, PTL DEF BSpec

\* Type correctness of the battery service: counts and capacities in every copy are
\* ones the gauge may have (CycleCountBackupRestore.cpp, LearnedCapacityBackupRestore.cpp).
THEOREM BatteryTypeCorrect == BSpec => []BTypeOK
<1>1. BInv => BTypeOK
  <2> SUFFICES ASSUME BInv PROVE BTypeOK
    OBVIOUS
  <2>1. \A f \in {sram, storage, sw, hw} : Valued(f)
    BY DEF BInv, BatteryType
  <2>2. \A f \in {sram, storage, sw, hw} : \A b \in Bins : f[b] \in 0 .. MaxCount
    BY <2>1, BatteryConstants DEF Valued
  <2>3. \A f \in {sram, storage, sw, hw} : f[0] \in Capacities \cup {0}
    BY <2>1, BatteryConstants DEF Valued
  <2> QED
    BY <2>2, <2>3 DEF BTypeOK, BInv, BatteryType, SvcType
<1> QED
  BY <1>1, BInvHolds, PTL

\* The service never loses what is known of the battery, whenever it dies
\* (UpdateAndSave of both objects: SaveToSRAM before SaveToStorage).
THEOREM NothingIsForgotten == BSpec => NothingForgotten
<1>1. BInv /\ [BNext]_bvars
        => [Service => faulty' \/ \A c \in Cells :
                         Known(sram', storage', c) = Known(sram, storage, c)]_bvars
  BY BStep DEF Knows
<1> QED
  BY <1>1, BInvHolds, PTL DEF BSpec, NothingForgotten

-------------------------------------------------------------------------------
(* The services side by side.                                              *)

\* The sensors that the composition drives are sensors of the board.
DrivenHandles == MagRate \cup GyroRate \cup Shots \subseteq MotoHandles

\* A step of the composition is a step of one part, or leaves the part alone.
LEMMA PartsStep ==
  ASSUME DrivenHandles, [MCNext]_<<avars, lvars, hvars, mvars, pvars, bvars, part>>
  PROVE  /\ [ANext]_avars /\ [LNext]_lvars /\ [HNext]_hvars /\ [MNext]_mvars /\ [PNext]_pvars
         /\ [BNext]_bvars
<1>1. ASSUME NEW hs \in SUBSET MotoHandles, MCalls(hs) \/ MDies(hs) PROVE MNext
  BY <1>1 DEF MNext, MCalls, MDies
<1>2. MagRate \subseteq MotoHandles /\ GyroRate \subseteq MotoHandles /\ Shots \subseteq MotoHandles
  BY DEF DrivenHandles
<1>3. CASE part = "akmd" /\ ANext /\ UNCHANGED <<lvars, hvars, mvars, pvars, bvars>>
  BY <1>3
<1>4. CASE part = "loader" /\ LNext /\ UNCHANGED <<avars, hvars, mvars, pvars, bvars>>
  BY <1>4
<1>5. CASE part = "algos" /\ HNext /\ UNCHANGED <<avars, lvars, mvars, pvars, bvars>>
  BY <1>5
<1>6. CASE /\ (MCalls(MagRate) \/ MDies(MagRate)) \/ (MCalls(GyroRate) \/ MDies(GyroRate))
              \/ (MReads \/ MCalls(Shots) \/ HalRestarts)
           /\ UNCHANGED <<avars, lvars, hvars, pvars, bvars>>
  <2>1. MNext
    BY <1>1, <1>2, <1>6 DEF MNext, MDies
  <2> QED
    BY <1>6, <2>1
<1>7. CASE part = "power" /\ PNext /\ UNCHANGED <<avars, lvars, hvars, mvars, bvars>>
  BY <1>7
<1>8. CASE part = "battery" /\ BNext /\ UNCHANGED <<avars, lvars, hvars, mvars, pvars>>
  BY <1>8
<1>9. CASE UNCHANGED <<avars, lvars, hvars, mvars, pvars, bvars, part>>
  BY <1>9
<1> QED
  BY <1>3, <1>4, <1>5, <1>6, <1>7, <1>8, <1>9 DEF MCNext

\* Each part behaves among the others as it does alone, so that what is proved of
\* one holds of the composition that the run checks.
THEOREM ServicesKeepApart ==
  DrivenHandles /\ MCSpec => ASpec /\ LSpec /\ HSpec /\ MSpec /\ PSpec /\ BSpec
<1> SUFFICES ASSUME DrivenHandles
             PROVE  MCSpec => ASpec /\ LSpec /\ HSpec /\ MSpec /\ PSpec /\ BSpec
  OBVIOUS
<1>1. MCInit => AInit /\ LInit /\ HInit /\ MInit /\ PInit /\ BInit
  BY DEF MCInit
<1>2. [MCNext]_<<avars, lvars, hvars, mvars, pvars, bvars, part>>
        => /\ [ANext]_avars /\ [LNext]_lvars /\ [HNext]_hvars /\ [MNext]_mvars
           /\ [PNext]_pvars /\ [BNext]_bvars
  BY PartsStep
<1> QED
  BY <1>1, <1>2, PTL DEF MCSpec, ASpec, LSpec, HSpec, MSpec, PSpec, BSpec

\* The services keep the types of their state, in whatever order they step.
THEOREM ServicesTypeCorrect == DrivenHandles /\ MCSpec => []ServicesTypeOK
<1>1. ATypeOK /\ LTypeOK /\ HTypeOK /\ MTypeOK /\ PTypeOK /\ BTypeOK => ServicesTypeOK
  BY DEF ServicesTypeOK
<1> QED
  BY <1>1, ServicesKeepApart, AkmdTypeCorrect, LoaderTypeCorrect, AlgosTypeCorrect,
     MotoTypeCorrect, PowerTypeCorrect, BatteryTypeCorrect, PTL
===============================================================================
