------------------------------- MODULE WakeMask -------------------------------
(***************************************************************************)
(* HubSensors::setEnable for the wake sensors, step by step, run by the    *)
(* two threads that call it: the framework's thread (activate) and the     *)
(* poll thread (readEvents, which turns a one-shot sensor off when it      *)
(* delivers its report).  Nothing in SensorHal.cpp, SensorsPollContext or  *)
(* HubSensors locks mWakeEnabled or mEnabledHandles, so both               *)
(* read-modify-write sequences interleave.  The larger hub's HAL           *)
(* (motosh_hal/HubSensors.cpp, lines 375 and 465-478) has the same         *)
(* statements and no lock either.                                          *)
(***************************************************************************)
EXTENDS Naturals

CONSTANTS
  WakeHandles,   \* wake handles with a bit of their own
  OneShots       \* those that readEvents disables when they fire

Threads == {"activate", "poll"}

VARIABLES
  mWakeEnabled,     \* the HAL's copy of the wake mask
  mEnabledHandles,  \* handles that are on
  kernWake,         \* the driver's wake mask
  call,             \* the setEnable call each thread is in, and its locals
  fired             \* history: one-shots turned off by readEvents since they
                    \* were last turned on

vars == <<mWakeEnabled, mEnabledHandles, kernWake, call, fired>>

Idle == [pc |-> "idle"]

Call == [pc : {"ioctl", "store", "handles", "done"},
         h : WakeHandles, en : BOOLEAN,
         new_enabled : SUBSET WakeHandles, handles : SUBSET WakeHandles]

TypeOK ==
  /\ mWakeEnabled \subseteq WakeHandles
  /\ mEnabledHandles \subseteq WakeHandles
  /\ kernWake \subseteq WakeHandles
  /\ call \in [Threads -> Call \cup {Idle}]
  /\ fired \subseteq OneShots

Init == /\ mWakeEnabled = {} /\ mEnabledHandles = {} /\ kernWake = {}
        /\ call = [t \in Threads |-> Idle]
        /\ fired = {}

With(S, x, en) == IF en THEN S \cup {x} ELSE S \ {x}

Quiescent == \A t \in Threads : call[t] = Idle

\* setEnable reads mWakeEnabled and computes the new mask; when it is unchanged
\* the driver is not called and the mask is not stored.
Enter(t, h, en) ==
  LET new_enabled == With(mWakeEnabled, h, en)
  IN  /\ call[t] = Idle
      /\ call' = [call EXCEPT ![t] =
           [pc |-> IF new_enabled = mWakeEnabled THEN "handles" ELSE "ioctl",
            h |-> h, en |-> en, new_enabled |-> new_enabled, handles |-> {}]]
      /\ UNCHANGED <<mWakeEnabled, mEnabledHandles, kernWake>>

\* The framework activates or deactivates a sensor.
Activate(h, en) ==
  /\ Enter("activate", h, en)
  /\ fired' = IF en THEN fired \ {h} ELSE fired

\* readEvents has a report of a one-shot sensor.
OneShotReport(h) ==
  /\ h \in kernWake
  /\ Enter("poll", h, FALSE)
  /\ UNCHANGED fired

\* STML0XX_IOCTL_SET_WAKESENSORS.
Ioctl(t) ==
  /\ call[t].pc = "ioctl"
  /\ kernWake' = call[t].new_enabled
  /\ call' = [call EXCEPT ![t].pc = "store"]
  /\ UNCHANGED <<mWakeEnabled, mEnabledHandles, fired>>

Store(t) ==
  /\ call[t].pc = "store"
  /\ mWakeEnabled' = call[t].new_enabled
  /\ call' = [call EXCEPT ![t].pc = "handles"]
  /\ UNCHANGED <<mEnabledHandles, kernWake, fired>>

\* mEnabledHandles is read, changed and written back.
ReadHandles(t) ==
  /\ call[t].pc = "handles"
  /\ call' = [call EXCEPT ![t].pc = "done",
       ![t].handles = With(mEnabledHandles, call[t].h, call[t].en)]
  /\ UNCHANGED <<mWakeEnabled, mEnabledHandles, kernWake, fired>>

Return(t) ==
  /\ call[t].pc = "done"
  /\ mEnabledHandles' = call[t].handles
  /\ call' = [call EXCEPT ![t] = Idle]
  /\ fired' = IF t = "poll" THEN fired \cup {call[t].h} ELSE fired
  /\ UNCHANGED <<mWakeEnabled, kernWake>>

Next == \/ \E h \in WakeHandles, en \in BOOLEAN : Activate(h, en)
        \/ \E h \in OneShots : OneShotReport(h)
        \/ \E t \in Threads : Ioctl(t) \/ Store(t) \/ ReadHandles(t) \/ Return(t)

Spec == Init /\ [][Next]_vars

-------------------------------------------------------------------------------
(* Properties.                                                             *)

\* "Disable, because this is a one shot sensor" (HubSensors::readEvents): once
\* readEvents has turned a one-shot sensor off, and until the framework turns it
\* on again, the hub does not wake the phone for it.
OneShotStaysOff ==
  Quiescent =>
     \A h \in fired : h \notin kernWake /\ h \notin mEnabledHandles
=============================================================================
