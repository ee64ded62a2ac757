------------------------- MODULE MCServiceController -------------------------
(***************************************************************************)
(* The setups of ServiceController that TLC looks at.                      *)
(***************************************************************************)
EXTENDS ServiceController

\* A service with one replica, under an operator with its default environment,
\* where nothing goes wrong.
Plain ==
  [EnableLogsFinalizers |-> TRUE, EnableStatusFinalizers |-> FALSE,
   SyncStatuses |-> TRUE, CollectLogs |-> TRUE, TTL |-> FALSE,
   MayDelete |-> TRUE, OrderedWatches |-> FALSE,
   MaxFaults |-> 0, MaxCrashes |-> 0, MaxRemovals |-> 0,
   ActiveDeadline |-> FALSE, Culling |-> FALSE, BackoffLimit |-> 0, Replicas |-> 1,
   Failures |-> {}, MaxRestarts |-> 0]

\* The Deployment, the main container and the deadline may all end it.
Ending ==
  [Plain EXCEPT !.ActiveDeadline = TRUE, !.TTL = TRUE, !.MayDelete = FALSE,
                !.Failures = {"badImage", "exit", "crash"}]

Ordered == [Plain EXCEPT !.OrderedWatches = TRUE]

\* Any one call fails or loses its answer, and the operator restarts once.
Faulty == [Ordered EXCEPT !.MaxFaults = 1, !.MaxCrashes = 1, !.Failures = {"badImage"}]

\* The Deployment or the base Service is removed once, the base Service also
\* before its creation is heard of by a pass that follows a failed one.
Removed ==
  [Ordered EXCEPT !.MaxRemovals = 1, !.MaxFaults = 1, !.MayDelete = FALSE,
                  !.EnableLogsFinalizers = FALSE, !.EnableStatusFinalizers = TRUE]

\* Users come and go, and the probe answers late or not at all.
Culled == [Ordered EXCEPT !.Culling = TRUE, !.MaxFaults = 1]

Quiet ==
  [Ordered EXCEPT !.EnableLogsFinalizers = FALSE, !.SyncStatuses = FALSE,
                  !.MayDelete = FALSE]

\* Two replicas, which are listed in any order.
Replicated == [Quiet EXCEPT !.Replicas = 2, !.Failures = {"exit"}]

\* The main container fails and restarts, within its retries and beyond.
Restarted ==
  [Quiet EXCEPT !.BackoffLimit = 1, !.MaxRestarts = 1, !.Failures = {"crash"}]

\* A negative limit means none.
Unlimited == [Restarted EXCEPT !.BackoffLimit = -1]

SomeSetups == {Ending, Faulty, Removed, Culled, Replicated, Restarted, Unlimited}
=============================================================================
