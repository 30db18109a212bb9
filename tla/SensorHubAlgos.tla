---------------------------- MODULE SensorHubAlgos ----------------------------
(***************************************************************************)
(* The interface to the algorithms of the sensor hub                       *)
(* (hardware-moto-sensors/motosh_hal/sensorhub.c).  The context remembers  *)
(* which parts of each algorithm were asked for and the mask of algorithms *)
(* the driver has; the mask is shared with the movement algorithm.         *)
(*                                                                         *)
(* enable, algo_req and algo_query hold g_lock from beginning to end and   *)
(* are single steps; poll holds no lock and touches nothing they use.  Any *)
(* request to the driver may fail, and then changes nothing.               *)
(***************************************************************************)
EXTENDS Integers, FiniteSets

CONSTANTS
  AlgoIds,   \* algorithms with a bit in the mask
  Parts      \* sets of parts that may be asked for; {} asks for none

\* M_MMOVEME and M_NOMMOVE are always set and cleared together.
M_MOVE == "move"

\* The bits of the movement algorithm are not those of another one.
ASSUME AlgosAssumption == {} \in Parts /\ M_MOVE \notin AlgoIds

VARIABLES
  active_algos,   \* the mask, as the context has it
  active_parts,   \* the parts asked for, of each algorithm
  hubAlgos,       \* the mask, as the driver has it
  hubMovement,    \* the movement algorithm was last asked to be on
  setFailed,      \* algorithms whose last change of the mask failed
  event           \* the event the caller of poll holds, and what poll returned

hvars == <<active_algos, active_parts, hubAlgos, hubMovement, setFailed, event>>

EventTypes == {"START_MOVEMENT", "END_MOVEMENT", "ACCUM_MVMT", "ACCUM_STATE", "TRANSITION",
               "GENERIC_CB", "RESET"}

\* sensorhub_open: the mask is taken for empty.
HInit ==
  /\ active_algos = {} /\ active_parts = [a \in AlgoIds |-> {}]
  /\ hubAlgos = {} /\ hubMovement = FALSE /\ setFailed = {}
  /\ event = [ret |-> 0, type |-> "none"]

\* SET_ALGOS: driver and context change together, or not at all.
SetAlgos(mask) == hubAlgos' = mask /\ active_algos' = mask

\* The durations come first when movement is turned on; the mask is left alone
\* when one of them is refused.  Callers pass the type SENSORHUB_ALGO_MOVEMENT, the
\* one the function is for: it does not refuse another, but would send the driver a
\* mask it never set (data, line 110), which is not modelled.
sensorhub_enable(on) ==
  /\ \E durations \in {TRUE, ~on}, ok \in BOOLEAN :
       IF durations /\ ok
       THEN /\ SetAlgos(IF on THEN active_algos \cup {M_MOVE} ELSE active_algos \ {M_MOVE})
            /\ hubMovement' = on
       ELSE UNCHANGED <<active_algos, hubAlgos, hubMovement>>
  /\ UNCHANGED <<active_parts, setFailed, event>>

\* The bit changes only when parts appear or when the last one goes.
AlgosWith(algo, parts) ==
  IF active_parts[algo] = {} /\ parts # {} THEN active_algos \cup {algo}
  ELSE IF active_parts[algo] # {} /\ parts = {} THEN active_algos \ {algo}
  ELSE active_algos

\* SET_ALGO_REQ was accepted: the parts are remembered, then the mask is set.
Accepted(algo, parts) ==
  /\ active_parts' = [active_parts EXCEPT ![algo] = parts]
  /\ \/ /\ SetAlgos(AlgosWith(algo, parts))
        /\ setFailed' = IF (algo \in AlgosWith(algo, parts)) = (parts # {})
                        THEN setFailed \ {algo} ELSE setFailed
     \/ /\ setFailed' = setFailed \cup {algo}
        /\ UNCHANGED <<active_algos, hubAlgos>>

\* A slip the run must catch: the parts are remembered before they are accepted.
Refused_remembered(algo, parts) ==
  /\ active_parts' = [active_parts EXCEPT ![algo] = parts]
  /\ UNCHANGED <<active_algos, hubAlgos, setFailed>>

Refused(algo, parts) == UNCHANGED <<active_parts, active_algos, hubAlgos, setFailed>>

sensorhub_algo_req(algo, parts) ==
  /\ Accepted(algo, parts) \/ Refused(algo, parts)
  /\ UNCHANGED <<hubMovement, event>>

\* Reads the last event of an algorithm; nothing changes in the context.
sensorhub_algo_query(algo) ==
  /\ event' \in {event, [event EXCEPT !.type = "TRANSITION"], [event EXCEPT !.type = "ACCUM_MVMT"]}
  /\ UNCHANGED <<active_algos, active_parts, hubAlgos, hubMovement, setFailed>>

\* An error of poll() is returned, an empty read is 0.  A report of another type
\* leaves the event as it was and is announced all the same, and so is a read
\* that failed, whose buffer holds anything.
sensorhub_poll ==
  /\ \/ event' = [event EXCEPT !.ret = -1]
     \/ event' = [event EXCEPT !.ret = 0]
     \/ \E t \in EventTypes \cup {event.type} : event' = [ret |-> 1, type |-> t]
  /\ UNCHANGED <<active_algos, active_parts, hubAlgos, hubMovement, setFailed>>

HNext ==
  \/ \E on \in BOOLEAN : sensorhub_enable(on)
  \/ \E a \in AlgoIds : sensorhub_algo_query(a) \/ \E p \in Parts : sensorhub_algo_req(a, p)
  \/ sensorhub_poll

HSpec == HInit /\ [][HNext]_hvars

-------------------------------------------------------------------------------
(* Properties                                                              *)

HTypeOK ==
  /\ active_algos \subseteq AlgoIds \cup {M_MOVE} /\ active_algos = hubAlgos
  /\ active_parts \in [AlgoIds -> Parts]
  /\ event.ret \in -1 .. 1 /\ event.type \in EventTypes \cup {"none"}

\* The hub runs an algorithm exactly when parts of it were asked for, and the
\* movement algorithm when that was turned on, whatever the order of calls that
\* share the mask and whichever of them were refused.  An algorithm whose parts were
\* accepted and whose change of the mask then failed is excepted until a later change
\* of its bit succeeds: its parts are remembered, and the hub does not run it
\* (sensorhub.c: sensorhub_algo_req, line 212; sensorhub_enable).
AlgosFollowParts ==
  /\ \A a \in AlgoIds \ setFailed : a \in hubAlgos <=> active_parts[a] # {}
  /\ M_MOVE \in hubAlgos <=> hubMovement
===============================================================================
