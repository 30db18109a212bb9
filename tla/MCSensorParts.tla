---------------------------- MODULE MCSensorParts -----------------------------
(***************************************************************************)
(* Four parts of the sensor HALs that share no state: the time-of-flight   *)
(* HAL, the laser ranging HAL, the reader of input events and the step     *)
(* counter.  Each behaviour is one of one part.                            *)
(***************************************************************************)
EXTENDS TofProx, RangeProx, InputEventReader, StepCounter

VARIABLE part

\* The reader's array, which new leaves uninitialized, holds the same event
\* everywhere; a part that does not run starts with one value.
MCInit == /\ TInit /\ XInit /\ RInit /\ SInit
          /\ part \in {"tof", "range", "reader", "steps"}
          /\ \A p, q \in Positions : mBuffer[p] = mBuffer[q]
          /\ part # "tof" => target = "far"
          /\ part # "range" => rangeFd /\ prox.distance = "away"

MCNext == /\ \/ part = "tof" /\ TNext /\ UNCHANGED <<xvars, rvars, svars>>
             \/ part = "range" /\ XNext /\ UNCHANGED <<tvars, rvars, svars>>
             \/ part = "reader" /\ RNext /\ UNCHANGED <<tvars, xvars, svars>>
             \/ part = "steps" /\ SNext /\ UNCHANGED <<tvars, xvars, rvars>>
          /\ UNCHANGED part

MCSpec == MCInit /\ [][MCNext]_<<tvars, xvars, rvars, svars, part>> /\ TFairness

\* The values the variables of every part may have (type correctness).
PartsTypeOK == TTypeOK /\ XTypeOK /\ RTypeOK /\ STypeOK
===============================================================================
