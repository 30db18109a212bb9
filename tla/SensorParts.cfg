CONSTANTS
  Targets = {"near", "far"}
  TofCounts = {2}
  TofDelays = {0}
  ReaderEvents = 8
  MaxEvents = 4
  RangeReader = 4
  RangeCounts = {1, 3, 4}
  RangeDelays = {0}
  MaxRange = 6
  MaxAsked = 3
  NumEvents = 3
  Event = {e1, e2}
  Modulus = 16
  MaxSteps = 8
SPECIFICATION MCSpec
INVARIANTS PartsTypeOK ToldIsWatched RangeNothingLost NeverOvercounts
PROPERTIES FarTold ImplementsQueue ContiguousSteps
