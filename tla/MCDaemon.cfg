\* One service and one workload with stops anywhere; two services and a queue
\* of two over a handful of slots.
SPECIFICATION DaemonSpec
CONSTANTS
  s1 = s1
  w1 = w1
  Services = {s1}
  Workloads = {w1}
  Failures = 2
  Recoveries = 2
  HistoryPoints = 2
  Retention = 2
  MaxCycles = 6
  Observed <- OneTrouble
  Targets = {"app", "api"}
  Capacity = 2
  MaxSlots = 4
\* The process ends.
CHECK_DEADLOCK FALSE
INVARIANTS
  IncidentsSound
  PipelineSound
PROPERTIES
  ChangesOnEvidence
  ShutdownCompletes
