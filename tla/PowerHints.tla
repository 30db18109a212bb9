------------------------------ MODULE PowerHints ------------------------------
(***************************************************************************)
(* The power HAL (power): hints of the framework become locks of the       *)
(* performance daemon, which is external and reached through a library that*)
(* may be missing (power-common.c, power-8953.c, utils.c, list.c).  Hints  *)
(* come through one binder thread, one at a time.                          *)
(*                                                                         *)
(* power-8953.c declares its two overrides with a module pointer in front  *)
(* that power-common.c does not pass.  power_hint_override takes the data  *)
(* pointer for the hint, finds none of its own and leaves every hint to    *)
(* power_hint: process_video_encode_hint never runs.  set_interactive_     *)
(* override gets whatever is in the next register for "on": a choice here. *)
(* INTERACTION_BOOST is not defined: interaction() does nothing.           *)
(***************************************************************************)
EXTENDS Integers, Sequences, FiniteSets, SequencesExt

CONSTANTS
  Hints,       \* counted hints: SUSTAINED_PERFORMANCE, VIDEO_ENCODE
  MaxUsers,    \* bound on the users of a hint
  MaxLost,     \* bound on the locks whose handles are thrown away
  LibQti       \* BOOLEAN values: the library was found

ASSUME PowerAssumption == MaxUsers \in Nat /\ MaxLost \in Nat /\ LibQti \subseteq BOOLEAN

VARIABLES
  qcopt_handle,             \* libqti-perfd-client was loaded
  handles,                  \* handle and ref_count of each hint
  active_hint_list,         \* handles of the display hint, the last one first
  display_hint_sent,
  display_fd,               \* display_pwr: not tried, or open
  perfd,                    \* the locks the daemon holds
  discarded,                \* history: locks whose handles were thrown away
  users,                    \* history: how often each hint was taken and not given back
  refused                   \* history: hints refused a lock since nobody wanted them

pvars == <<qcopt_handle, handles, active_hint_list, display_hint_sent, display_fd, perfd,
           discarded, users, refused>>

\* initialize() and power_init()
PInit ==
  /\ qcopt_handle \in LibQti
  /\ handles = [h \in Hints |-> [handle |-> 0, ref_count |-> 0]]
  /\ active_hint_list = <<>> /\ display_hint_sent = FALSE /\ display_fd = FALSE
  /\ perfd = {} /\ discarded = {} /\ users = [h \in Hints |-> 0] /\ refused = {}

\* A handle the daemon, holding these locks, does not use: the smallest one.
NewHandle(locks) == CHOOSE n \in 1 .. Cardinality(locks) + 1 :
                      n \notin locks /\ \A k \in 1 .. n - 1 : k \in locks

\* perf_hint and perf_lock_acq: a lock, -1 when it is refused, 0 without the library.
Acquire(locks) == IF qcopt_handle THEN {NewHandle(locks), -1} ELSE {0}

perf_hint_enable == Acquire(perfd)

release_request(handle) == perfd' = IF qcopt_handle THEN perfd \ {handle} ELSE perfd

-------------------------------------------------------------------------------
(* power-common.c                                                          *)

\* The first user takes the lock; a user whose lock was refused is not counted.
HintOn(h) ==
  /\ users[h] < MaxUsers
  /\ \E l \in IF handles[h].ref_count = 0 THEN perf_hint_enable ELSE {handles[h].handle} :
       /\ handles' = [handles EXCEPT ![h] =
                        [handle |-> l, ref_count |-> IF l > 0 THEN @.ref_count + 1 ELSE @.ref_count]]
       /\ perfd' = IF l > 0 THEN perfd \cup {l} ELSE perfd
       /\ refused' = IF l > 0 THEN refused ELSE refused \cup {h}
  /\ users' = [users EXCEPT ![h] = @ + 1]
  /\ UNCHANGED <<qcopt_handle, active_hint_list, display_hint_sent, display_fd, discarded>>

\* One user less; once there is none, no refusal matters any more.
UserLeft(h) ==
  /\ users' = [users EXCEPT ![h] = IF @ > 0 THEN @ - 1 ELSE 0]
  /\ refused' = IF users'[h] = 0 THEN refused \ {h} ELSE refused

\* The last user gives the lock back; without a lock there is nothing to do.
HintOff_eachReleases(h) ==
  /\ IF handles[h].handle > 0
     THEN /\ release_request(handles[h].handle)
          /\ handles' = [handles EXCEPT ![h].ref_count = @ - 1]
     ELSE UNCHANGED <<handles, perfd>>
  /\ UserLeft(h)
  /\ UNCHANGED <<qcopt_handle, active_hint_list, display_hint_sent, display_fd, discarded>>

HintOff(h) ==
  /\ IF handles[h].handle <= 0 THEN UNCHANGED <<handles, perfd>>
     ELSE IF handles[h].ref_count = 1
     THEN /\ release_request(handles[h].handle)
          /\ handles' = [handles EXCEPT ![h] = [handle |-> 0, ref_count |-> 0]]
     ELSE /\ handles' = [handles EXCEPT ![h].ref_count = @ - 1]
          /\ UNCHANGED perfd
  /\ UserLeft(h)
  /\ UNCHANGED <<qcopt_handle, active_hint_list, display_hint_sent, display_fd, discarded>>

power_hint == \E h \in Hints : HintOn(h) \/ HintOff(h)

-------------------------------------------------------------------------------
(* utils.c, list.c: locks by hint, here only those of the display.         *)

add_list_node(list, handle) == <<handle>> \o list
find_node(list)             == IF list = <<>> THEN 0 ELSE 1
remove_list_node(list, i)   == RemoveAt(list, i)

\* A lock that cannot be remembered is given back at once.  The daemon already
\* holds the locks in "locks".
perform_hint_action(locks) ==
  \E l \in Acquire(locks) :
    \/ l > 0 /\ perfd' = locks \cup {l} /\ active_hint_list' = add_list_node(active_hint_list, l)
    \/ perfd' = locks /\ UNCHANGED active_hint_list

\* The entry goes with the lock; the daemon is taken to give back what it is asked to.
undo_hint_action(locks) ==
  LET i == find_node(active_hint_list)
  IN  IF ~qcopt_handle \/ i = 0 THEN perfd' = locks /\ UNCHANGED active_hint_list
      ELSE /\ perfd' = locks \ {active_hint_list[i]}
           /\ active_hint_list' = remove_list_node(active_hint_list, i)

-------------------------------------------------------------------------------
(* power-8953.c                                                            *)

NoDisplayHint(locks) == perfd' = locks /\ UNCHANGED <<active_hint_list, display_hint_sent>>

\* Only the interactive governor is slowed down while the display is off.
DisplayHint(on, interactive, locks) ==
  IF ~interactive THEN NoDisplayHint(locks)
  ELSE IF on THEN undo_hint_action(locks) /\ display_hint_sent' = FALSE
  ELSE IF display_hint_sent THEN NoDisplayHint(locks)
  ELSE perform_hint_action(locks) /\ display_hint_sent' = TRUE

\* The first call that finds display_pwr opens it and writes nothing to it; without
\* a governor nothing happens at all.
set_interactive_override(on, locks) ==
  \/ NoDisplayHint(locks) /\ UNCHANGED display_fd
  \/ /\ \E interactive \in BOOLEAN : DisplayHint(on, interactive, locks)
     /\ display_fd' \in {display_fd, TRUE}

\* The display's state is a hint for the daemon first.  The handle it answers is
\* thrown away: if it is a lock, nobody can give it back.
set_interactive ==
  /\ \E l \in perf_hint_enable, garbage \in BOOLEAN :
       LET lost == {l} \cap (Nat \ {0})
       IN  /\ discarded' = discarded \cup lost
           /\ set_interactive_override(garbage, perfd \cup lost)
  /\ Cardinality(discarded') <= MaxLost
  /\ UNCHANGED <<qcopt_handle, handles, users, refused>>

PNext == power_hint \/ set_interactive

PSpec == PInit /\ [][PNext]_pvars

-------------------------------------------------------------------------------
(* Properties                                                              *)

PTypeOK ==
  /\ \A h \in Hints : handles[h].ref_count \in 0 .. MaxUsers /\ handles[h].handle \in Int
  /\ perfd \subseteq Nat \ {0} /\ discarded \subseteq perfd /\ {qcopt_handle, display_hint_sent, display_fd} \subseteq BOOLEAN

\* Every lock the daemon holds is remembered exactly once, so that it can be given
\* back, but for those taken for the display's state, whose handles set_interactive
\* throws away; the display takes at most one of the others.  No hint is locked that
\* nobody wants, and one that somebody wants is locked, unless a lock was refused
\* since the last time nobody wanted it: a refused user is not counted, and takes
\* another one's lock away when it leaves (power-common.c: power_hint,
\* set_interactive; utils.c: perform_hint_action; power-8953.c: display_hint_sent).
LocksFollowUsers ==
  LET counted == {h \in Hints : handles[h].ref_count > 0}
      held(h) == handles[h].handle
  IN  /\ perfd = {held(h) : h \in counted} \cup ToSet(active_hint_list) \cup discarded
      /\ Cardinality(perfd)
           = Cardinality(counted) + Len(active_hint_list) + Cardinality(discarded)
      /\ Len(active_hint_list) <= 1
      /\ \A h \in counted : users[h] > 0
      /\ \A h \in Hints \ refused : users[h] > 0 => h \in counted
===============================================================================
