----------------------------- MODULE MCOperator -----------------------------
(***************************************************************************)
(* The setups of Operator that TLC looks at.                               *)
(***************************************************************************)
EXTENDS Operator

\* An operation with a TTL, under an operator with its default environment,
\* where no call fails.
Plain ==
  [Controller |-> "Service",
   EnableLogsFinalizers |-> TRUE, EnableStatusFinalizers |-> FALSE,
   SyncStatuses |-> FALSE, CollectLogs |-> TRUE, TTL |-> TRUE,
   MayDelete |-> TRUE, OrderedWatches |-> TRUE,
   MaxFaults |-> 0, MaxCrashes |-> 0, MaxRemovals |-> 0,
   Kind |-> "", ActiveDeadline |-> FALSE, Failures |-> {},
   Culling |-> FALSE, BackoffLimit |-> 0, Replicas |-> 1, MaxRestarts |-> 0,
   Enabled |-> TRUE, KfCleanup |-> FALSE, Workers |-> 0]

Patient == [Plain EXCEPT !.MayDelete = FALSE]

Overdue == [Patient EXCEPT !.ActiveDeadline = TRUE]

Idle == [Patient EXCEPT !.Culling = TRUE, !.TTL = FALSE]

Kubeflow ==
  [Plain EXCEPT !.Controller = "KfJob", !.Kind = "TFJob", !.Failures = {"fail"}]

Ray ==
  [Plain EXCEPT !.Controller = "Cluster", !.Kind = "RayCluster", !.ActiveDeadline = TRUE]

\* The operator restarts once, with a TTL to wait for and logs to collect.
Restarted ==
  [Patient EXCEPT !.Controller = "Cluster", !.Kind = "RayCluster", !.MaxCrashes = 1]

SomeSetups == {Overdue, Idle, Kubeflow, Ray, Restarted}

\* A service with a deadline and a TTL; one call fails.
LateSetups ==
  {[Plain EXCEPT !.ActiveDeadline = TRUE, !.MaxFaults = 1, !.EnableLogsFinalizers = FALSE]}
=============================================================================
