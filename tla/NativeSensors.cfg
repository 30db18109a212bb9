CONSTANTS
  Entries <- MCEntries
  ReaderRoom = 2
  PipeSize = 4
  Periods = {2, 6}
  minDelay = 3
  IntSpan = 8
  Counts = {2}
  MaxReports = 2
  MaxFlushes = 1
SPECIFICATION MCSpec
INVARIANTS NTypeOK ReadNeverSpins SettingsApplied
PROPERTIES FlushTaken
