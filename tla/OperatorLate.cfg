\* A service with a deadline and a TTL; the delete at the deadline may fail.
SPECIFICATION FairSpec
CONSTANT Setups <- LateSetups
PROPERTIES EventuallyGone
\* An operation that is gone leaves nothing to do.
CHECK_DEADLOCK FALSE
