\* One request at a time, both kinds of draft, all faults, then calm.
SPECIFICATION RecoverySpec
CONSTANTS
  r1 = r1
  r2 = r2
  Requests = {r1}
  Edited = {"personal", "projects"}
  Rollback = FALSE
  MaxPending = 2
  MaxJournal = 2
  MaxRevs = 2
  MaxCommits = 3
  MaxIntents = 2
CHECK_DEADLOCK FALSE
INVARIANT
  PublishedDraftRecoverable
PROPERTIES
  KeepsPublicationService
  RecoveryRecordsLanded
