\* Two processes, two drafts (each possibly of version 1) and two revisions;
\* a restore with up to three PUTs, and two restores to the same directory.
SPECIFICATION Spec
CONSTANTS
  p1 = p1
  p2 = p2
  v1 = v1
  v2 = v2
  r1 = r1
  r2 = r2
  Procs = {p1, p2}
  Keys = {"personal", "projects"}
  Revs = {v1, v2}
  None = None
  Legacy = Legacy
  Contents = {"first", "second"}
  Nothing = Nothing
  Parts = {"drafts", "receipts"}
  Restorers = {r1, r2}
  MaxPuts = 3
SYMMETRY Symmetry
\* Once every revision is used and the lock file is left behind, all rests.
CHECK_DEADLOCK FALSE
INVARIANTS
  LockHolds
  RestoredIsBackup
PROPERTIES
  KeepsDraftStore
  OwnerWritesKept
