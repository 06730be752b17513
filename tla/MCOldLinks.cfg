\* docs/superpowers/plans/2026-10-03-all-open-issues.md:352: a rename keeps
\* the previous slug, here one that was deployed after the draft was written.
SPECIFICATION PublishedSpec
CONSTANTS
  r1 = r1
  r2 = r2
  Requests = {r1, r2}
  Edited = {"personal"}
  Rollback = FALSE
  MaxPending = 2
  MaxJournal = 2
  MaxRevs = 2
  MaxCommits = 3
  MaxIntents = 3
  Ids = {p1, p2}
  Names = {a, b, c}
  Services = {s}
  NoDraft = NoDraft
  MaxAliases = 2
  MaxBuild = 4
CHECK_DEADLOCK FALSE
INVARIANT
  OldLinksResolve
