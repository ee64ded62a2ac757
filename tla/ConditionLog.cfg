SPECIFICATION LogSpec
CONSTANTS
  Types = {"Running", "Warning", "Stopped"}
  Whys = {"a", "b"}
  MaxTime = 3
INVARIANTS OnePerTypeInOrder
PROPERTIES LogsOnSummary TransitionKept
