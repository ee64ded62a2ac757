SPECIFICATION ScanSpec
CONSTANTS
  PodSet <- MCPodSet
  MaxPods = 3
INVARIANTS ExitLoopCorrect VerdictLoopCorrect
\* The loops end.
CHECK_DEADLOCK FALSE
