\* A window of five minutes; two days of two buckets of two cycles.
SPECIFICATION MCSpec
CONSTANTS
  Window = 5
  Gap = 2
  Interval = 1
  KeepFor = 1
  MaxHistory = 3
  Cells = 3
  MaxTime = 7
  MaxLate = 1
  NetworkMinutes = 4
  Bucket = 2
  Day = 4
  MaxCycle = 6
  Span = 4
  Candidates = {w1, w2}
  MaxRanked = 1
\* After the last minute everything has been sent and read.
CHECK_DEADLOCK FALSE
INVARIANTS
  FeedHonest
  SeriesTrue
  SnapshotTrue
PROPERTY
  ServedNeverBack
