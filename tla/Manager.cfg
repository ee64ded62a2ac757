\* Replicas start, fail and take over, in every environment.
SPECIFICATION Spec
CONSTANTS
  Replicas = {r1, r2}
  Unset = Unset
  Environments <- SomeEnvironments
  Flags <- SomeFlags
  MaxFailures = 2
INVARIANTS OneActive
PROPERTIES TakesOver
\* Replicas that run have nothing to do until one fails.
CHECK_DEADLOCK FALSE
