\* Progress, also after a failed call, a restart of the operator or the removal of a
\* finished batch Job.
SPECIFICATION FairSpec
CONSTANTS
  EnableLogsFinalizers = TRUE
  EnableStatusFinalizers = TRUE
  SyncStatuses = TRUE
  CollectLogs = TRUE
  TTL = TRUE
  ActiveDeadline = FALSE
  BackoffLimit = 0
  Stages = {"Running", "Succeeded"}
  ExternalDeletes = FALSE
  OrderedWatches = TRUE
  TimelyOperator = TRUE
  MaxFaults = 1
  MaxCrashes = 1
  MaxRemovals = 1
PROPERTIES EventuallyGone SuccessIsReported
\* An operation that is gone leaves nothing to do.
CHECK_DEADLOCK FALSE
