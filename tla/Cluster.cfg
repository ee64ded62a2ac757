\* Every setup: Ray, Dask, workers, failed calls, the deadline and removals.
SPECIFICATION Spec
CONSTANT Setups <- SomeSetups
INVARIANTS ReportedOutcome OutcomeMatchesCluster NoLostWakeup RunningMeansServing
PROPERTIES OutcomeStands
\* An operation that is gone leaves nothing to do.
CHECK_DEADLOCK FALSE
