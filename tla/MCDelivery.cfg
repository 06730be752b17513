\* Two uploaders, three snapshots, one abandoned request at a time; a budget
\* for three cycles of four requests each; all answers to a verification.
SPECIFICATION DeliverySpec
CONSTANTS
  Quota = 4
  MaxSnapshot = 3
  MaxLate = 1
  MaxRuns = 1
  Cap = 16
  Before = 1
  After = 0
  Concurrency <- MCConcurrency
  MaxAttempts = 3
  Retries = 2
  MaxRedirects = 2
  Inside = {"p1", "p2", "p3"}
  Outside = {"elsewhere"}
\* Measurement and verification end; when all is stale, uploads rest.
CHECK_DEADLOCK FALSE
INVARIANTS
  UploadSound
  MeasurementSound
  VerificationSound
  GoesOn
PROPERTIES
  NeverBack
  UploadsResume
