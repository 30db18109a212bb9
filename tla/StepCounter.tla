----------------------------- MODULE StepCounter ------------------------------
(***************************************************************************)
(* The step counter of the sensor hub HAL: the DT_STEP_COUNTER case of     *)
(* HubSensors::readEvents.  The hub counts steps in a register that starts *)
(* over when the hub resets; the HAL notices that the count went back and  *)
(* adds what it had reported before.  All arithmetic is that of uint32_t,  *)
(* here of Modulus values.                                                 *)
(***************************************************************************)
EXTENDS Naturals

CONSTANTS
  Modulus,   \* 2^32 in the code
  MaxSteps   \* bound on the steps taken in a behaviour

ASSUME StepBounds == /\ Modulus \in Nat \ {0}
                     /\ MaxSteps \in Nat
                     /\ MaxSteps < Modulus

VARIABLES
  hubCount,        \* the hub's register
  last_stepcount,  \* the last value reported
  step_offset,     \* what is added to the hub's value
  total,           \* history: the steps taken since the HAL started
  unreported       \* history: the steps the hub has counted, and not lost in a
                   \* reset, since the last report

svars == <<hubCount, last_stepcount, step_offset, total, unreported>>

STypeOK == /\ hubCount \in 0 .. MaxSteps
          /\ last_stepcount \in 0 .. MaxSteps
          /\ step_offset \in 0 .. MaxSteps
          /\ total \in 0 .. MaxSteps
          /\ unreported \in 0 .. MaxSteps

SInit == /\ hubCount = 0 /\ last_stepcount = 0 /\ step_offset = 0
        /\ total = 0 /\ unreported = 0

\* The user takes a step.
Step == /\ total < MaxSteps
        /\ hubCount' = hubCount + 1
        /\ total' = total + 1
        /\ unreported' = unreported + 1
        /\ UNCHANGED <<last_stepcount, step_offset>>

\* The hub resets (its watchdog, or a firmware fault).
HubReset == /\ hubCount # 0
            /\ hubCount' = 0
            /\ unreported' = 0
            /\ UNCHANGED <<last_stepcount, step_offset, total>>

\* uint32_t addition.
Add32(a, b) == (a + b) % Modulus

\* A slip the runs must catch: the offset accumulates instead of being replaced.
DT_STEP_COUNTER_accumulate ==
  /\ step_offset' = IF Add32(hubCount, step_offset) < last_stepcount
                    THEN Add32(step_offset, last_stepcount) ELSE step_offset
  /\ last_stepcount' = Add32(hubCount, step_offset')
  /\ unreported' = 0
  /\ UNCHANGED <<hubCount, total>>

\* A slip the runs must catch: the hub's own value is remembered, not the sum.
DT_STEP_COUNTER_raw ==
  /\ step_offset' = IF hubCount < last_stepcount THEN last_stepcount ELSE step_offset
  /\ last_stepcount' = IF hubCount < last_stepcount THEN hubCount
                                                     ELSE Add32(hubCount, step_offset')
  /\ unreported' = 0
  /\ UNCHANGED <<hubCount, total>>

\* readEvents handles a DT_STEP_COUNTER report.
DT_STEP_COUNTER ==
  /\ step_offset' = IF Add32(hubCount, step_offset) < last_stepcount
                    THEN last_stepcount ELSE step_offset
  /\ last_stepcount' = Add32(hubCount, step_offset')
  /\ unreported' = 0
  /\ UNCHANGED <<hubCount, total>>

\* The HAL process dies; its statics start over, the hub goes on.
HalRestart == /\ last_stepcount' = 0 /\ step_offset' = 0
              /\ total' = hubCount /\ unreported' = hubCount
              /\ UNCHANGED hubCount

SNext == Step \/ HubReset \/ DT_STEP_COUNTER \/ HalRestart

SSpec == SInit /\ [][SNext]_svars

-------------------------------------------------------------------------------
(* Properties.                                                             *)

\* The count users see never exceeds the steps that were taken, however often
\* the hub resets and however few reports get through.
NeverOvercounts == last_stepcount <= total

\* Between two restarts of the HAL the reported count never goes back.
NeverGoesBack == [][last_stepcount' >= last_stepcount \/ HalRestart]_svars

\* "hub reset, determine offset and apply, so users only see contiguous steps"
\* (HubSensors::readEvents): a report adds exactly the steps the hub has counted
\* since the last one and still holds.  Only a reset that goes unnoticed breaks
\* this: the register, all of it counted since the reset, is past the last
\* report already.
ContiguousSteps ==
  [][DT_STEP_COUNTER =>
       \/ last_stepcount' = last_stepcount + unreported
       \/ /\ unreported = hubCount
          /\ Add32(hubCount, step_offset) >= last_stepcount]_svars
=============================================================================
