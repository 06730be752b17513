\* Two overlapping requests over one kind of draft, no rollback; two
\* projects, three addresses, and four versions.
SPECIFICATION PublishedSpec
CONSTANTS
  r1 = r1
  r2 = r2
  Requests = {r1, r2}
  Edited = {"personal"}
  Rollback = FALSE
  MaxPending = 2
  MaxJournal = 2
  MaxRevs = 2
  MaxCommits = 3
  MaxIntents = 3
  Ids = {p1, p2}
  Names = {a, b, c}
  Services = {s}
  NoDraft = NoDraft
  MaxAliases = 2
  MaxBuild = 4
SYMMETRY RequestSymmetry
\* Once every bound is used up and nothing is left to recover, all is done.
CHECK_DEADLOCK FALSE
INVARIANTS
  RecordsSound
  JournalSound
  PublishedOnce
  NoLastWriteWins
  KeepsOldLinks
PROPERTY
  ReceiptAdvances
