\* One call fails, the operator restarts once and the batch Job is removed once, at any
\* point; caches are arbitrarily old.
SPECIFICATION Spec
CONSTANTS
  EnableLogsFinalizers = TRUE
  EnableStatusFinalizers = FALSE
  SyncStatuses = TRUE
  CollectLogs = TRUE
  TTL = FALSE
  ActiveDeadline = FALSE
  BackoffLimit = 0
  Stages = {"Running", "Succeeded"}
  ExternalDeletes = TRUE
  OrderedWatches = FALSE
  TimelyOperator = FALSE
  MaxFaults = 1
  MaxCrashes = 1
  MaxRemovals = 1
INVARIANTS TypeOK ReportInv OneOutcome ReportedOutcome NoLostWakeup
PROPERTIES Lifecycle
\* An operation that is gone leaves nothing to do.
CHECK_DEADLOCK FALSE
