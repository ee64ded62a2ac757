\* Every setup: exits, failed calls, removals, replicas, restarts and culling.
SPECIFICATION Spec
CONSTANT Setups <- SomeSetups
INVARIANTS ReportedOutcome OutcomeMatchesPods NoLostWakeup ReportIsCurrent
PROPERTIES Lifecycle CulledWhenIdle
\* An operation that is gone leaves nothing to do.
CHECK_DEADLOCK FALSE
