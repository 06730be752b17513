\* Two resources of two versions, a current poll and an aborted one; an
\* editor with up to two entries on both sides, one of them untracked; two
\* ranges.
SPECIFICATION BrowserSpec
CONSTANTS
  Resources = {latest, series}
  MaxVersion = 2
  MaxPolls = 2
  Last = 4
  Home = 2
  Untracked = {1}
  Hurry = FALSE
  MaxMoves = 4
  Ranges = {"1h", "24h"}
  FirstRange = "1h"
  MaxData = 2
  MaxPending = 2
\* Once the owner has traversed enough, the tab rests.
CHECK_DEADLOCK FALSE
INVARIANTS
  PollerHonest
  PanelHonest
PROPERTIES
  NeverOlder
  CatchesUp
  LeftOnlyAgreed
  SettlesAtHome
