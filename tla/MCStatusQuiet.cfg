\* The redesign's document, line 752: nothing that needs attention.  The disk
\* is the one resource that can be over its threshold.
SPECIFICATION AllSpec
CONSTANTS
  Public <- MCPublic
  Steady <- MCSteady
  Project <- MCProject
  Windows <- MCWindows
  Fresh1 = 1
  Gone1 = 2
  Fresh2 = 0
  Gone2 = 1
  CacheFor = 1
  MaxDelay = 1
  Resources = {"disk"}
  Others = {"services"}
  OwnerFresh1 = 1
  OwnerGone1 = 2
  OwnerFresh2 = 0
  OwnerGone2 = 1
  Repos = {"repo"}
  Ttl = 2
  MaxStale = 4
  Deadline = 1
  MaxClock = 9
  MaxRequests = 2
  Projects <- MCProjects
  Repositories <- MCRepositories
  Checked = {"s1", "s2"}
  FiledUnder <- MCFiledUnder
  Options <- MCOptions
CHECK_DEADLOCK FALSE
INVARIANT
  QuietIsHealthy
