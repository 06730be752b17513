\* Two services, one of which may be missing, with thresholds of one and two
\* ticks; one repository whose cache lives two ticks; two projects.
SPECIFICATION AllSpec
CONSTANTS
  Public <- MCPublic
  Steady <- MCSteady
  Project <- MCProject
  Windows <- MCWindows
  Fresh1 = 1
  Gone1 = 2
  Fresh2 = 0
  Gone2 = 1
  CacheFor = 1
  MaxDelay = 1
  Resources = {"cpu", "disk"}
  Others = {"services"}
  OwnerFresh1 = 1
  OwnerGone1 = 2
  OwnerFresh2 = 0
  OwnerGone2 = 1
  Repos = {"repo"}
  Ttl = 2
  MaxStale = 4
  Deadline = 1
  MaxClock = 9
  MaxRequests = 2
  Projects <- MCProjects
  Repositories <- MCRepositories
  Checked = {"s1", "s2"}
  FiledUnder <- MCFiledUnder
  Options <- MCOptions
\* At the last tick everything has been read.
CHECK_DEADLOCK FALSE
INVARIANTS
  HealthWasTrue
  AlarmsAreReal
  QuietWithoutV2
  CachesHonest
  ListHonest
