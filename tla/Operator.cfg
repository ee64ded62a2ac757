\* Every controller without failed calls: ends, deadlines, idleness and deletion.
SPECIFICATION FairSpec
CONSTANT Setups <- SomeSetups
PROPERTIES EventuallyGone IdleIsCulled StopsWriting
\* An operation that is gone leaves nothing to do.
CHECK_DEADLOCK FALSE
