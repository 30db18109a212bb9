-------------------------- MODULE MCNativeSensors ---------------------------
(***************************************************************************)
(* A sensor whose event device is found by its name, and a sensor with a   *)
(* FIFO whose class device has no event child: its data file is the        *)
(* directory, or none if that cannot be opened.  The middle entry of the   *)
(* class directory cannot be read.                                         *)
(*                                                                         *)
(* Periods and polling meet only in activate, so two scenes are checked in *)
(* place of their product: every call of the framework on one sensor with  *)
(* the poll thread outside, and the poll thread with two sensors whose     *)
(* period stays what it is.                                                *)
(***************************************************************************)
EXTENDS NativeSensors

VARIABLE scene

MCEntries == << [type |-> "capsense",  required |-> TRUE,  link |-> "other",
                 event |-> TRUE,  fifo |-> FALSE],
                [type |-> "proximity", required |-> FALSE, link |-> "input",
                 event |-> TRUE,  fifo |-> FALSE],
                [type |-> "proximity", required |-> TRUE,  link |-> "input",
                 event |-> FALSE, fifo |-> TRUE] >>

Polling ==
  \/ PollThread \/ ReadError
  \/ \E s \in Sensors :
       \/ Report(s)
       \/ \E en \in BOOLEAN : activate(s, en, TRUE)
       \/ \E w \in BOOLEAN : flush(s, w)

MCInit == /\ NInit /\ scene \in {"calls", "polling"}
          /\ scene = "calls" => \A s \in Sensors : data_fd[s] = "none"

MCNext == /\ \/ scene = "calls" /\ (CallsOn(2) \/ setprop)
             \/ scene = "polling" /\ Polling
          /\ UNCHANGED scene

MCSpec == MCInit /\ [][MCNext]_<<nvars, scene>> /\ NFairness
=============================================================================
