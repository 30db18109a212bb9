------------------------------ MODULE EventQueue ------------------------------
(***************************************************************************)
(* What a reader of input events promises: a bounded first-in first-out    *)
(* queue.  InputEventReader implements it.                                 *)
(***************************************************************************)
EXTENDS Naturals, Sequences

CONSTANTS Capacity, Event

VARIABLES
  queue,      \* the events waiting, oldest first
  delivered   \* the events of the last arrival

QInit == queue = << >> /\ delivered = << >>

\* The driver had the events es.
Arrive(es) == /\ Len(queue) + Len(es) <= Capacity
              /\ queue' = queue \o es
              /\ delivered' = es

\* The oldest event is handed out.
Take == queue # << >> /\ queue' = Tail(queue) /\ UNCHANGED delivered

QNext == \/ \E n \in 1 .. Capacity : \E es \in [1 .. n -> Event] : Arrive(es)
         \/ Take

QSpec == QInit /\ [][QNext]_<<queue, delivered>>
===============================================================================
