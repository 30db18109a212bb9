---------------------------- MODULE BatteryHealth -----------------------------
(***************************************************************************)
(* The battery service (health): the fuel gauge counts charging cycles in  *)
(* bins and learns the capacity of the battery, but forgets both when the  *)
(* battery is taken out.  The service keeps copies in a file and gives them*)
(* back (CycleCountBackupRestore.cpp, LearnedCapacityBackupRestore.cpp,    *)
(* HealthServiceDefault.cpp).                                              *)
(*                                                                         *)
(* Every read and write is a step, and the process may die between any two,*)
(* also in the middle of a write: WriteStringToFile empties the file first.*)
(* Cell 0 is the capacity, the others are the bins of the cycle counter.   *)
(***************************************************************************)
EXTENDS Integers, Sequences, FiniteSets, FiniteSetsExt

CONSTANTS
  Bins,              \* the bins (kBucketCount)
  kBackupTrigger,    \* per cent charged between two backups of the counter
  Levels,            \* levels of the battery
  Capacities,        \* capacities the gauge may learn; the largest when new
  MaxCount           \* bound on the counts

ASSUME HealthAssumption ==
  /\ Bins \subseteq Nat \ {0} /\ IsFiniteSet(Bins) /\ Capacities \subseteq Nat \ {0}
  /\ \E new \in Capacities : \A q \in Capacities : q <= new
  /\ Levels \subseteq Nat /\ kBackupTrigger \in Nat /\ MaxCount \in Nat

VARIABLES
  sram,      \* the gauge's cells
  storage,   \* the cells in the files; 0 where there is no number
  sw, hw,    \* sw_bins_, sw_cap_ and hw_bins_, hw_cap_
  svc,       \* what the service is doing, and what it has to do after that
  soc,       \* cycle_count_backup's is_first, saved_soc and soc_inc
  faulty     \* a read or a write has failed

bvars == <<sram, storage, sw, hw, svc, soc, faulty>>

Cells    == {0} \cup Bins
CellsOf(o) == IF o = "cc" THEN Bins ELSE {0}
Zero     == [c \in Cells |-> 0]
NewGauge == [Zero EXCEPT ![0] = Max(Capacities)]

\* The values of one object's cells, the others as they were.
Over(f, o, g) == [c \in Cells |-> IF c \in CellsOf(o) THEN g[c] ELSE f[c]]

Down   == [pc |-> "down", todo |-> <<>>, save |-> {}]
AtRest == [pc |-> "rest", todo |-> <<>>, save |-> {}]

BInit ==
  /\ sram = NewGauge /\ storage = Zero /\ sw = Zero /\ hw = Zero /\ svc = Down
  /\ soc = [is_first |-> TRUE, saved_soc |-> 0, soc_inc |-> 0] /\ faulty = FALSE

Obj == Head(svc.todo)

\* Restore and Backup one after the other: where the next one begins.
NextJob == IF Len(svc.todo) = 1 THEN AtRest
           ELSE [pc |-> IF soc.is_first THEN "readStorage" ELSE "readSRAM",
                 todo |-> Tail(svc.todo), save |-> {}]

BAt(pc) == svc' = [svc EXCEPT !.pc = pc]

-------------------------------------------------------------------------------
(* Restore, Backup                                                         *)

\* A file that cannot be read, or holds no number, leaves sw as it is.
ReadFromStorage ==
  /\ svc.pc = "readStorage" /\ BAt("readSRAM")
  /\ \/ /\ sw' = Over(sw, Obj, [c \in Cells |-> IF storage[c] = 0 THEN sw[c] ELSE storage[c]])
        /\ UNCHANGED faulty
     \/ faulty' = TRUE /\ UNCHANGED sw
  /\ UNCHANGED <<sram, storage, hw, soc>>

ReadFromSRAM ==
  /\ svc.pc = "readSRAM" /\ BAt("update")
  /\ \/ hw' = Over(hw, Obj, sram) /\ UNCHANGED faulty
     \/ faulty' = TRUE /\ UNCHANGED hw
  /\ UNCHANGED <<sram, storage, sw, soc>>

ToSave(restore, backup) == (IF restore THEN {"sram"} ELSE {}) \cup
                           (IF backup THEN {"storage"} ELSE {})

\* The files are written in this order.
Saves_storageFirst(restore, backup) ==
  IF backup THEN "truncate" ELSE IF restore THEN "saveSRAM" ELSE "done"

Saves(restore, backup) ==
  IF restore THEN "saveSRAM" ELSE IF backup THEN "truncate" ELSE "done"

\* UpdateAndSave of the counter: in every bin the larger count.
UpdateCycles ==
  LET most    == [c \in Cells |-> Max({hw[c], sw[c]})]
      restore == \E c \in Bins : hw[c] < sw[c]
      backup  == \E c \in Bins : hw[c] > sw[c]
  IN  /\ svc.pc = "update" /\ Obj = "cc"
      /\ hw' = Over(hw, "cc", most) /\ sw' = Over(sw, "cc", most)
      /\ svc' = [svc EXCEPT !.pc = Saves(restore, backup),
                            !.save = ToSave(restore, backup)]
      /\ UNCHANGED <<sram, storage, soc, faulty>>

\* UpdateAndSave of the capacity: the smaller one, unless there is none yet.
UpdateCapacity ==
  LET h == hw[0] s == sw[0]
      backup  == h # 0 /\ (h < s \/ s = 0)
      restore == h # 0 /\ ~backup /\ h > s
  IN  /\ svc.pc = "update" /\ Obj = "lc"
      /\ sw' = [sw EXCEPT ![0] = IF backup THEN h ELSE s]
      /\ hw' = [hw EXCEPT ![0] = IF restore THEN s ELSE h]
      /\ svc' = [svc EXCEPT !.pc = Saves(restore, backup),
                            !.save = ToSave(restore, backup)]
      /\ UNCHANGED <<sram, storage, soc, faulty>>

\* What is still to be written once x is.
Left(x, pc) == svc' = [svc EXCEPT !.save = @ \ {x},
                                  !.pc = IF svc.save \ {x} = {} THEN "done" ELSE pc]

SaveToSRAM ==
  /\ svc.pc = "saveSRAM" /\ Left("sram", "truncate")
  /\ \/ sram' = Over(sram, Obj, hw) /\ UNCHANGED faulty
     \/ faulty' = TRUE /\ UNCHANGED sram
  /\ UNCHANGED <<storage, sw, hw, soc>>

\* open(O_TRUNC), then write.
Truncate ==
  /\ svc.pc = "truncate" /\ BAt("write")
  /\ storage' = Over(storage, Obj, Zero)
  /\ UNCHANGED <<sram, sw, hw, soc, faulty>>

SaveToStorage ==
  /\ svc.pc = "write" /\ Left("storage", "saveSRAM")
  /\ \/ storage' = Over(storage, Obj, sw) /\ UNCHANGED faulty
     \/ faulty' = TRUE /\ UNCHANGED storage
  /\ UNCHANGED <<sram, sw, hw, soc>>

JobDone == /\ svc.pc = "done" /\ svc' = NextJob
           /\ UNCHANGED <<sram, storage, sw, hw, soc, faulty>>

-------------------------------------------------------------------------------
(* HealthServiceDefault.cpp                                                *)

healthd_board_init ==
  /\ svc.pc = "down"
  /\ svc' = [pc |-> "readStorage", todo |-> <<"cc", "lc">>, save |-> {}]
  /\ soc' = [is_first |-> TRUE, saved_soc |-> 0, soc_inc |-> 0]
  /\ sw' = Zero /\ hw' = Zero
  /\ UNCHANGED <<sram, storage, faulty>>

\* The counter is saved each time the battery has taken in kBackupTrigger per cent.
cycle_count_backup(level) ==
  IF soc.is_first THEN [is_first |-> FALSE, saved_soc |-> level, soc_inc |-> 0]
  ELSE [soc EXCEPT !.saved_soc = level,
                   !.soc_inc = IF level > soc.saved_soc
                               THEN @ + level - soc.saved_soc ELSE @]

healthd_board_battery_update ==
  /\ svc.pc = "rest"
  /\ \E level \in Levels :
       LET s == cycle_count_backup(level)
           save == ~soc.is_first /\ s.soc_inc >= kBackupTrigger
       IN  /\ soc' = IF save THEN [s EXCEPT !.soc_inc = 0] ELSE s
           /\ svc' = [pc |-> "readSRAM", todo |-> IF save THEN <<"cc", "lc">> ELSE <<"lc">>,
                      save |-> {}]
  /\ UNCHANGED <<sram, storage, sw, hw, faulty>>

-------------------------------------------------------------------------------
(* The battery and the phone.  The gauge is taken not to count within the  *)
(* few milliseconds of a backup.                                           *)

Count ==
  /\ svc.pc \in {"down", "rest"}
  /\ \E b \in Bins : sram[b] < MaxCount /\ sram' = [sram EXCEPT ![b] = @ + 1]
  /\ UNCHANGED <<storage, sw, hw, svc, soc, faulty>>

Learn ==
  /\ svc.pc \in {"down", "rest"}
  /\ \E q \in Capacities : q < sram[0] /\ sram' = [sram EXCEPT ![0] = q]
  /\ UNCHANGED <<storage, sw, hw, svc, soc, faulty>>

Die == /\ svc.pc # "down" /\ svc' = Down
       /\ UNCHANGED <<sram, storage, sw, hw, soc, faulty>>

BatteryOut ==
  /\ svc' = Down /\ sram' = NewGauge
  /\ UNCHANGED <<storage, sw, hw, soc, faulty>>

Service == ReadFromStorage \/ ReadFromSRAM \/ UpdateCycles \/ UpdateCapacity \/ SaveToSRAM
           \/ Truncate \/ SaveToStorage \/ JobDone
           \/ healthd_board_init \/ healthd_board_battery_update

BNext == Service \/ Count \/ Learn \/ Die \/ BatteryOut

BSpec == BInit /\ [][BNext]_bvars

-------------------------------------------------------------------------------
(* Properties                                                              *)

BTypeOK ==
  /\ \A f \in {sram, storage, sw, hw} : \A b \in Bins : f[b] \in 0 .. MaxCount
  /\ \A f \in {sram, storage, sw, hw} : f[0] \in Capacities \cup {0}
  /\ svc.save \subseteq {"sram", "storage"}

\* What is known of the battery, by the gauge or by the files: of a bin the larger
\* count, of the capacity the smaller one.
Known(r, s, c) == IF c # 0 THEN Max({r[c], s[c]})
                  ELSE IF s[0] = 0 THEN r[0] ELSE Min({r[0], s[0]})

\* The service never loses what is known, whenever the process dies: a file is only
\* emptied once the gauge has everything that was in it.  Reads and writes that fail
\* are excepted (CycleCountBackupRestore.cpp, LearnedCapacityBackupRestore.cpp:
\* UpdateAndSave, SaveToSRAM before SaveToStorage).
NothingForgotten ==
  [][ Service => faulty' \/ \A c \in Cells : Known(sram', storage', c) = Known(sram, storage, c) ]_bvars
===============================================================================
