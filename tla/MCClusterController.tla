------------------------- MODULE MCClusterController -------------------------
(***************************************************************************)
(* The setups of ClusterController that TLC looks at.                      *)
(***************************************************************************)
EXTENDS ClusterController

\* A RayCluster with a head alone, under an operator with its default
\* environment, where nothing goes wrong.
Plain ==
  [EnableLogsFinalizers |-> TRUE, EnableStatusFinalizers |-> FALSE,
   SyncStatuses |-> TRUE, CollectLogs |-> TRUE, TTL |-> FALSE,
   MayDelete |-> TRUE, OrderedWatches |-> FALSE,
   MaxFaults |-> 0, MaxCrashes |-> 0, MaxRemovals |-> 0,
   Kind |-> "RayCluster", Enabled |-> TRUE, ActiveDeadline |-> FALSE, Workers |-> 0, Failures |-> {}]

\* A RayCluster goes through everything it can.
Ray == [Plain EXCEPT !.Failures = {"badImage", "noPull", "suspended", "failure"}]

\* A DaskCluster does.
Dask ==
  [Plain EXCEPT !.Kind = "DaskCluster", !.EnableLogsFinalizers = FALSE,
                !.SyncStatuses = FALSE, !.MayDelete = FALSE,
                !.Failures = {"badImage", "noPull", "failure"}]

\* A scheduler and a worker, which are listed in any order.
Worked ==
  [Dask EXCEPT !.OrderedWatches = TRUE, !.Workers = 1, !.Failures = {"noPull"}]

\* Any one call fails or loses its answer, and the operator restarts once.
Faulty ==
  [Plain EXCEPT !.EnableStatusFinalizers = TRUE, !.MaxFaults = 1, !.MaxCrashes = 1,
                !.Failures = {"badImage"}]

\* The deadline passes at any moment.
Late == [Plain EXCEPT !.ActiveDeadline = TRUE, !.TTL = TRUE, !.Failures = {"failure"}]

\* The cluster is deleted once by somebody else.
Removed == [Plain EXCEPT !.Kind = "DaskCluster", !.MaxRemovals = 1]

\* The kind is not enabled: only the pods, the timers and the replay tell.
Unwatched == [Dask EXCEPT !.Enabled = FALSE, !.Failures = {"failure"}]

SomeSetups == {Ray, Dask, Worked, Faulty, Late, Removed, Unwatched}
=============================================================================
