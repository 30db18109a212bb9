--------------------------- MODULE InputEventReader ---------------------------
(***************************************************************************)
(* The circular reader of input events                                     *)
(* (hardware-moto-sensors/InputEventReader.cpp), one step per call.        *)
(*                                                                         *)
(* The array is twice as long as the reader's capacity: a read may run     *)
(* past mBufferEnd, and what lies there is copied to the front.  Positions *)
(* are indices of the array, mBuffer is 0 and mBufferEnd is NumEvents.     *)
(***************************************************************************)
EXTENDS Integers, Sequences

CONSTANTS
  NumEvents,   \* capacity of the reader (8 for the rear proximity sensor)
  Event        \* the input events

ASSUME ReaderAssumption == NumEvents \in Nat \ {0}

VARIABLES
  mBuffer,     \* the array
  mHead,       \* where the next read goes
  mCurr,       \* the next event to hand out
  mFreeSpace,  \* events that may still be read
  delivered    \* history: the events the driver gave to the last read()

rvars == <<mBuffer, mHead, mCurr, mFreeSpace, delivered>>

mBufferEnd == NumEvents

Positions == 0 .. 2 * NumEvents - 1

available == NumEvents - mFreeSpace

RTypeOK == /\ mBuffer \in [Positions -> Event]
          /\ mHead \in 0 .. mBufferEnd
          /\ mCurr \in 0 .. mBufferEnd - 1
          /\ mFreeSpace \in 0 .. NumEvents

RInit == /\ mBuffer \in [Positions -> Event]
        /\ mHead = 0 /\ mCurr = 0 /\ mFreeSpace = NumEvents /\ delivered = << >>

\* A slip the runs must catch: what was read past the end is not copied.
fill_noCopy(es) ==
  /\ Len(es) \in 1 .. mFreeSpace /\ delivered' = es
  /\ mFreeSpace' = mFreeSpace - Len(es)
  /\ mBuffer' = [p \in Positions |-> IF p \in mHead .. mHead + Len(es) - 1
                                     THEN es[p - mHead + 1] ELSE mBuffer[p]]
  /\ mHead' = IF mHead + Len(es) > mBufferEnd THEN mHead + Len(es) - mBufferEnd
                                             ELSE mHead + Len(es)
  /\ UNCHANGED mCurr

\* fill: read() returned the events in es; no more than there is room for.
fill(es) ==
  LET read == [p \in Positions |-> IF p \in mHead .. mHead + Len(es) - 1
                                   THEN es[p - mHead + 1] ELSE mBuffer[p]]
      past == mHead + Len(es) - mBufferEnd
  IN  /\ Len(es) \in 1 .. mFreeSpace
      /\ mFreeSpace' = mFreeSpace - Len(es)
      /\ \/ /\ past > 0
            /\ mBuffer' = [p \in Positions |-> IF p < past THEN read[mBufferEnd + p]
                                                           ELSE read[p]]
            /\ mHead' = past
         \/ /\ past <= 0
            /\ mBuffer' = read
            /\ mHead' = mHead + Len(es)
      /\ delivered' = es
      /\ UNCHANGED mCurr

\* A slip the runs must catch: the end is compared with the wrong operator.
next_pastEnd ==
  /\ available # 0
  /\ mCurr' = IF mCurr + 1 > mBufferEnd THEN 0 ELSE mCurr + 1
  /\ mFreeSpace' = mFreeSpace + 1
  /\ UNCHANGED <<mBuffer, mHead, delivered>>

\* readEvent shows the event at mCurr, if one is available; next moves past it.
\* The caller does both.
next ==
  /\ available # 0
  /\ mCurr' = IF mCurr + 1 >= mBufferEnd THEN 0 ELSE mCurr + 1
  /\ mFreeSpace' = mFreeSpace + 1
  /\ UNCHANGED <<mBuffer, mHead, delivered>>

Fill == \E n \in 1 .. NumEvents : \E es \in [1 .. n -> Event] : fill(es)

RNext == Fill \/ next

RSpec == RInit /\ [][RNext]_rvars

-------------------------------------------------------------------------------
(* The abstract specification the reader is shown to implement.            *)

Wrapped(k) == IF k < mBufferEnd THEN k ELSE k - mBufferEnd

\* The events that have been read and not yet handed out, in order.
queue == [i \in 1 .. available |-> mBuffer[Wrapped(mCurr + i - 1)]]

FIFO == INSTANCE EventQueue WITH Capacity <- NumEvents

\* The circular buffer is a bounded first-in first-out queue: no event is lost,
\* repeated, reordered or overwritten, wherever head and tail are (fill, next).
ImplementsQueue == FIFO!QSpec

\* fill's read() stays inside the array although it starts at mHead with all of
\* mFreeSpace, and head and tail are always that far apart.
ReadInBounds ==
  /\ mHead + mFreeSpace <= 2 * NumEvents
  /\ mCurr + available \in {mHead - NumEvents, mHead, mHead + NumEvents}
=============================================================================
