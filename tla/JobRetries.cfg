\* Two pods, listed in any order; one call fails.
SPECIFICATION Spec
CONSTANTS
  EnableLogsFinalizers = FALSE
  EnableStatusFinalizers = TRUE
  SyncStatuses = TRUE
  CollectLogs = TRUE
  TTL = TRUE
  ActiveDeadline = TRUE
  BackoffLimit = 1
  Stages = {"NotReady", "BadImage", "Running", "Succeeded", "Failed"}
  ExternalDeletes = FALSE
  OrderedWatches = TRUE
  TimelyOperator = TRUE
  MaxFaults = 1
  MaxCrashes = 0
  MaxRemovals = 0
INVARIANTS OutcomeMatchesJob ReportIsCurrent FinalReportBeforeGone
\* An operation that is gone leaves nothing to do.
CHECK_DEADLOCK FALSE
