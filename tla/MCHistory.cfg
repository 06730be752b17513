\* dashboard-v2-design.md:433: oversized responses truncate, they do not fail.
SPECIFICATION MCSpec
CONSTANTS
  Window = 5
  Gap = 2
  Interval = 1
  KeepFor = 1
  MaxHistory = 3
  Cells = 3
  MaxTime = 7
  MaxLate = 1
  NetworkMinutes = 4
  Bucket = 2
  Day = 4
  MaxCycle = 6
  Span = 4
  Candidates = {w1, w2}
  MaxRanked = 1
CHECK_DEADLOCK FALSE
INVARIANT
  OversizedAnswered
