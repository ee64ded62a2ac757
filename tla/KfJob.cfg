\* Every setup: ends, restarts of the pod, failed calls, removals and cleanup.
SPECIFICATION Spec
CONSTANT Setups <- SomeSetups
INVARIANTS ReportedOutcome OutcomeMatchesJob DeletionIsHeard
PROPERTIES Lifecycle
\* An operation that is gone leaves nothing to do.
CHECK_DEADLOCK FALSE
