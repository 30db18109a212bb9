CONSTANTS
  RangeReader = 4
  RangeCounts = {1, 3, 4}
  RangeDelays = {0}
  MaxRange = 6
  MaxAsked = 3
SPECIFICATION XSpec
INVARIANTS PendingReported
