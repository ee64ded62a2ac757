---------------------------- MODULE OperatorProofs ----------------------------
(***************************************************************************)
(* Operator is each of the three controllers, for every set of setups: an  *)
(* operator whose operation is a service, a Kubeflow job or a cluster does *)
(* exactly what the specification of that controller allows, so what the   *)
(* proofs of the controllers show holds in Operator too, and no behaviour  *)
(* of theirs is lost in it.                                                *)
(***************************************************************************)
EXTENDS Operator, TLAPS

\* The variables of the other controllers keep their initial values.
ServiceResting ==
  /\ svc = FALSE /\ svcCache = FALSE /\ svcHeard = TRUE
  /\ idle = FALSE /\ idled = FALSE

ServiceRests == ServiceResting /\ [][FALSE]_ofService

KfJobResting == ends = {} /\ restarts = 0

KfJobRests == KfJobResting /\ [][FALSE]_ofKfJob

ClusterResting == short = FALSE /\ shortCache = FALSE /\ seen = {}

ClusterRests == ClusterResting /\ [][FALSE]_ofCluster

DeadlineResting == overdue = FALSE

DeadlineRests == DeadlineResting /\ [][FALSE]_overdue

(***************************************************************************)
(* The controller of a service.                                            *)
(***************************************************************************)
\* The setup of an operation is not changed by a step of its controller, of a watch,
\* a timer or the world around.
LEMMA ServiceKeepsSetup == ASSUME Service!Next PROVE setup' = setup
<1>1. ASSUME Service!Reconcile PROVE setup' = setup
  <2>1. CASE Service!Fetch
    BY <2>1 DEF Service!Fetch, Service!FetchOp, Service!elsewhere
  <2>2. CASE Service!AddStartTime
    BY <2>2 DEF Service!AddStartTime, Service!SetStartTime, Service!elsewhere
  <2>3. CASE Service!AddLogsFinalizer
    BY <2>3 DEF Service!AddLogsFinalizer, Service!SetLogsFinalizer,
           Service!SetFinalizer, Service!elsewhere
  <2>4. CASE Service!AddStatusFinalizer
    BY <2>4 DEF Service!AddStatusFinalizer, Service!SetStatusFinalizer,
           Service!SetFinalizer, Service!elsewhere
  <2>5. CASE Service!handleFinalizersStop
    BY <2>5 DEF Service!handleFinalizersStop, Service!ReportStopped, Service!elsewhere
  <2>6. CASE Service!collectLogs
    BY <2>6 DEF Service!collectLogs, Service!CollectHeld, Service!elsewhere
  <2>7. CASE Service!removeFinalizer
    BY <2>7 DEF Service!removeFinalizer, Service!ReleaseFinalizer, Service!elsewhere
  <2>8. CASE Service!handleTTL
    BY <2>8 DEF Service!handleTTL, Service!CleanUp, Service!elsewhere
  <2>9. CASE Service!reconcileDeployment
    BY <2>9 DEF Service!reconcileDeployment, Service!elsewhere
  <2>10. CASE Service!checkStatus
    BY <2>10 DEF Service!checkStatus, Service!elsewhere
  <2>11. CASE Service!checkService
    BY <2>11 DEF Service!checkService, Service!elsewhere
  <2>12. CASE Service!checkDeadline
    BY <2>12 DEF Service!checkDeadline, Service!elsewhere
  <2>13. CASE Service!delete
    BY <2>13 DEF Service!delete, Service!elsewhere
  <2>14. CASE Service!writeStatus
    BY <2>14 DEF Service!writeStatus, Service!StoreStatus, Service!elsewhere
  <2>15. CASE Service!instanceSyncStatus
    BY <2>15 DEF Service!instanceSyncStatus, Service!ReportStatus, Service!elsewhere
  <2> QED
    BY <1>1, <2>1, <2>2, <2>3, <2>4, <2>5, <2>6, <2>7, <2>8, <2>9, <2>10, <2>11, <2>12,
           <2>13, <2>14, <2>15 DEF Service!Reconcile
<1>2. ASSUME Service!Watch PROVE setup' = setup
  <2>1. CASE Service!WatchService
    BY <2>1 DEF Service!WatchService, Service!WatchOp, Service!outside
  <2>2. CASE Service!WatchDeployment
    BY <2>2 DEF Service!WatchDeployment, Service!WatchOwned, Service!outside
  <2>3. CASE Service!WatchBaseService
    BY <2>3 DEF Service!WatchBaseService, Service!elsewhere
  <2>4. CASE Service!mapPodToRequest
    BY <2>4 DEF Service!mapPodToRequest, Service!WatchPods, Service!outside
  <2> QED
    BY <1>2, <2>1, <2>2, <2>3, <2>4 DEF Service!Watch
<1>3. ASSUME Service!World PROVE setup' = setup
  <2>1. CASE Service!UserStops
    BY <2>1 DEF Service!UserStops, Service!UserDeletes, Service!elsewhere
  <2>2. CASE Service!DeadlinePasses
    BY <2>2 DEF Service!DeadlinePasses, Service!kubeVars, Service!elsewhere
  <2>3. CASE Service!ActivityChanges
    BY <2>3 DEF Service!ActivityChanges, Service!kubeVars, Service!elsewhere
  <2>4. CASE Service!PodMoves
    BY <2>4 DEF Service!PodMoves, Service!operator
  <2>5. CASE Service!DeploymentStartsPod
    BY <2>5 DEF Service!DeploymentStartsPod, Service!operator
  <2>6. CASE Service!DeploymentCounts
    BY <2>6 DEF Service!DeploymentCounts, Service!OwnedReports, Service!operator
  <2>7. CASE Service!DeploymentDeleted
    BY <2>7 DEF Service!DeploymentDeleted, Service!OwnedDeleted, Service!DropOwned,
           Service!operator
  <2>8. CASE Service!ServiceDeleted
    BY <2>8 DEF Service!ServiceDeleted, Service!operator
  <2>9. CASE Service!Collected
    BY <2>9 DEF Service!Collected, Service!OwnedCollected, Service!DropOwned,
           Service!operator, Service!kubeVars, Service!elsewhere
  <2>10. CASE Service!Expire
    BY <2>10 DEF Service!Expire, Service!TTLPasses
  <2> QED
    BY <1>3, <2>1, <2>2, <2>3, <2>4, <2>5, <2>6, <2>7, <2>8, <2>9, <2>10 DEF
           Service!World
<1>4. CASE Service!Replay
  BY <1>4 DEF Service!Replay, Service!Resync, Service!outside
<1>5. CASE Service!Requeue
  BY <1>5 DEF Service!Requeue, Service!RequeueAfter, Service!elsewhere
<1>6. CASE Service!Restart
  BY <1>6 DEF Service!Restart, Service!Crash
<1> QED
  BY <1>1, <1>2, <1>3, <1>4, <1>5, <1>6 DEF Service!Next

\* A step of the operator is one of this controller, or none, and leaves the state of
\* the others alone.
LEMMA ServiceSteps ==
  ASSUME setup.Controller = "Service", [Next]_vars
  PROVE  /\ [Service!Next]_(Service!vars) /\ setup' = setup
         /\ [FALSE]_ofKfJob
         /\ [FALSE]_ofCluster
<1>1. CASE UNCHANGED vars
  BY <1>1 DEF vars, kubeVars, cluster, elsewhere, caches, worker, plane, ofService,
         ofKfJob, ofCluster, Service!vars, Service!kubeVars, Service!cluster,
         Service!elsewhere, Service!caches, Service!worker, Service!plane
<1>2. CASE Next
  <2>1. Service!Next
    BY <1>2 DEF Next, Reconcile, OperationWatch, ResourceWatch, Replay, Timers, World,
           Restart, Step, Service!Next, Service!Watch, Service!World
  <2>2. [FALSE]_ofKfJob /\ [FALSE]_ofCluster
    BY <1>2 DEF Next, Reconcile, OperationWatch, ResourceWatch, Replay, Timers, World,
           Restart, Step
  <2> QED
    BY <2>1, <2>2, ServiceKeepsSetup
<1> QED
  BY <1>1, <1>2

\* A step of this controller is one of the operator.
LEMMA ServiceTaken ==
  ASSUME setup.Controller = "Service", [Service!Next]_(Service!vars),
         [FALSE]_ofKfJob, [FALSE]_ofCluster
  PROVE  [Next]_vars /\ setup' = setup
<1>1. UNCHANGED ofKfJob /\ UNCHANGED ofCluster
  OBVIOUS
<1>2. CASE UNCHANGED Service!vars
  BY <1>1, <1>2 DEF vars, kubeVars, cluster, elsewhere, caches, worker, plane,
         ofService, ofKfJob, ofCluster, Service!vars, Service!kubeVars, Service!cluster,
         Service!elsewhere, Service!caches, Service!worker, Service!plane
<1>3. CASE Service!Next
  <2>1. Next
    BY <1>1, <1>3 DEF Next, Reconcile, OperationWatch, ResourceWatch, Replay, Timers,
           World, Restart, Step, Service!Next, Service!Watch, Service!World
  <2> QED
    BY <1>3, <2>1, ServiceKeepsSetup
<1> QED
  BY <1>2, <1>3

\* An operator whose operation is a service is ServiceController: each behaviour of
\* one is a behaviour of the other (internal/controller/service, started by
\* cmd/main.go).
THEOREM ServiceComposed ==
  setup.Controller = "Service" =>
    (Spec <=> Service!Spec /\ KfJobRests /\ ClusterRests)
<1>1. Init => Service!Init /\ KfJobResting /\ ClusterResting
  BY DEF Init, Service!Init, KfJob!Init, Cluster!Init, KfJobResting, ClusterResting
<1>2. Service!Init /\ KfJobResting /\ ClusterResting => Init
  BY DEF Init, Service!Init, KfJob!Init, Cluster!Init, KfJobResting, ClusterResting,
         Service!KubeInit, Service!NewOp, Service!NewStatus, Service!NoCondition,
         Service!Nothing, KfJob!KubeInit, KfJob!NewOp, KfJob!NewStatus,
         KfJob!NoCondition, KfJob!Nothing, Cluster!KubeInit, Cluster!NewOp,
         Cluster!NewStatus, Cluster!NoCondition, Cluster!Nothing
<1>3. setup.Controller = "Service" /\ [Next]_vars
        => /\ (setup.Controller = "Service")' /\ [Service!Next]_(Service!vars)
           /\ [FALSE]_ofKfJob /\ [FALSE]_ofCluster
  BY ServiceSteps
<1>4. setup.Controller = "Service" /\ [Service!Next]_(Service!vars)
      /\ [FALSE]_ofKfJob /\ [FALSE]_ofCluster
        => (setup.Controller = "Service")' /\ [Next]_vars
  BY ServiceTaken
<1> QED
  BY <1>1, <1>2, <1>3, <1>4, PTL DEF Spec, Service!Spec, KfJobRests, ClusterRests

(***************************************************************************)
(* The controller of a Kubeflow job.                                       *)
(***************************************************************************)
\* The setup of an operation is not changed by a step of its controller, of a watch,
\* a timer or the world around.
LEMMA KfJobKeepsSetup == ASSUME KfJob!Next PROVE setup' = setup
<1>1. ASSUME KfJob!Reconcile PROVE setup' = setup
  <2>1. CASE KfJob!Fetch
    BY <2>1 DEF KfJob!Fetch, KfJob!FetchOp, KfJob!elsewhere
  <2>2. CASE KfJob!AddStartTime
    BY <2>2 DEF KfJob!AddStartTime, KfJob!SetStartTime, KfJob!elsewhere
  <2>3. CASE KfJob!AddLogsFinalizer
    BY <2>3 DEF KfJob!AddLogsFinalizer, KfJob!SetLogsFinalizer, KfJob!SetFinalizer,
           KfJob!elsewhere
  <2>4. CASE KfJob!AddStatusFinalizer
    BY <2>4 DEF KfJob!AddStatusFinalizer, KfJob!SetStatusFinalizer, KfJob!SetFinalizer,
           KfJob!elsewhere
  <2>5. CASE KfJob!handleFinalizersStop
    BY <2>5 DEF KfJob!handleFinalizersStop, KfJob!ReportStopped, KfJob!elsewhere
  <2>6. CASE KfJob!collectLogs
    BY <2>6 DEF KfJob!collectLogs, KfJob!CollectHeld, KfJob!elsewhere
  <2>7. CASE KfJob!removeFinalizer
    BY <2>7 DEF KfJob!removeFinalizer, KfJob!ReleaseFinalizer, KfJob!elsewhere
  <2>8. CASE KfJob!handleTTL
    BY <2>8 DEF KfJob!handleTTL, KfJob!CleanUp, KfJob!elsewhere
  <2>9. CASE KfJob!reconcileTFJob
    BY <2>9 DEF KfJob!reconcileTFJob, KfJob!reconcileKfJob, KfJob!elsewhere
  <2>10. CASE KfJob!reconcilePytorchJob
    BY <2>10 DEF KfJob!reconcilePytorchJob, KfJob!reconcileKfJob, KfJob!elsewhere
  <2>11. CASE KfJob!reconcileMPIJob
    BY <2>11 DEF KfJob!reconcileMPIJob, KfJob!reconcileKfJob, KfJob!elsewhere
  <2>12. CASE KfJob!updateKfJob
    BY <2>12 DEF KfJob!updateKfJob, KfJob!elsewhere
  <2>13. CASE KfJob!checkStatus
    BY <2>13 DEF KfJob!checkStatus, KfJob!elsewhere
  <2>14. CASE KfJob!writeStatus
    BY <2>14 DEF KfJob!writeStatus, KfJob!StoreStatus, KfJob!elsewhere
  <2>15. CASE KfJob!instanceSyncStatus
    BY <2>15 DEF KfJob!instanceSyncStatus, KfJob!ReportStatus, KfJob!elsewhere
  <2> QED
    BY <1>1, <2>1, <2>2, <2>3, <2>4, <2>5, <2>6, <2>7, <2>8, <2>9, <2>10, <2>11, <2>12,
           <2>13, <2>14, <2>15 DEF KfJob!Reconcile
<1>2. ASSUME KfJob!Watch PROVE setup' = setup
  <2>1. CASE KfJob!WatchKfJob
    BY <2>1 DEF KfJob!WatchKfJob, KfJob!WatchOp, KfJob!outside
  <2>2. CASE KfJob!WatchKubeflowJob
    BY <2>2 DEF KfJob!WatchKubeflowJob, KfJob!NotifyOwned, KfJob!outside
  <2>3. CASE KfJob!mapKfPodToRequest
    BY <2>3 DEF KfJob!mapKfPodToRequest, KfJob!WatchPods, KfJob!outside
  <2> QED
    BY <1>2, <2>1, <2>2, <2>3 DEF KfJob!Watch
<1>3. ASSUME KfJob!World PROVE setup' = setup
  <2>1. CASE KfJob!UserStops
    BY <2>1 DEF KfJob!UserStops, KfJob!UserDeletes, KfJob!elsewhere
  <2>2. CASE KfJob!PodMoves
    BY <2>2 DEF KfJob!PodMoves, KfJob!operator
  <2>3. CASE KfJob!KubeflowStartsPod
    BY <2>3 DEF KfJob!KubeflowStartsPod, KfJob!operator
  <2>4. CASE KfJob!KubeflowReports
    BY <2>4 DEF KfJob!KubeflowReports, KfJob!OwnedReports, KfJob!operator
  <2>5. CASE KfJob!KubeflowRestarts
    BY <2>5 DEF KfJob!KubeflowRestarts, KfJob!operator
  <2>6. CASE KfJob!KubeflowCleansUp
    BY <2>6 DEF KfJob!KubeflowCleansUp, KfJob!DropOwned, KfJob!operator
  <2>7. CASE KfJob!KfJobDeleted
    BY <2>7 DEF KfJob!KfJobDeleted, KfJob!OwnedDeleted, KfJob!DropOwned, KfJob!operator
  <2>8. CASE KfJob!Collected
    BY <2>8 DEF KfJob!Collected, KfJob!OwnedCollected, KfJob!DropOwned, KfJob!operator
  <2>9. CASE KfJob!Expire
    BY <2>9 DEF KfJob!Expire, KfJob!TTLPasses
  <2> QED
    BY <1>3, <2>1, <2>2, <2>3, <2>4, <2>5, <2>6, <2>7, <2>8, <2>9 DEF KfJob!World
<1>4. CASE KfJob!Replay
  BY <1>4 DEF KfJob!Replay, KfJob!Resync, KfJob!outside
<1>5. CASE KfJob!Requeue
  BY <1>5 DEF KfJob!Requeue, KfJob!RequeueAfter, KfJob!elsewhere
<1>6. CASE KfJob!Restart
  BY <1>6 DEF KfJob!Restart, KfJob!Crash
<1> QED
  BY <1>1, <1>2, <1>3, <1>4, <1>5, <1>6 DEF KfJob!Next

\* A step of the operator is one of this controller, or none, and leaves the state of
\* the others alone.
LEMMA KfJobSteps ==
  ASSUME setup.Controller = "KfJob", [Next]_vars
  PROVE  /\ [KfJob!Next]_(KfJob!vars) /\ setup' = setup
         /\ [FALSE]_ofService
         /\ [FALSE]_ofCluster
         /\ [FALSE]_overdue
<1>1. CASE UNCHANGED vars
  BY <1>1 DEF vars, kubeVars, cluster, elsewhere, caches, worker, plane, ofService,
         ofKfJob, ofCluster, KfJob!vars, KfJob!kubeVars, KfJob!cluster, KfJob!elsewhere,
         KfJob!caches, KfJob!worker, KfJob!plane
<1>2. CASE Next
  <2>1. KfJob!Next
    BY <1>2 DEF Next, Reconcile, OperationWatch, ResourceWatch, Replay, Timers, World,
           Restart, Step, KfJob!Next, KfJob!Watch, KfJob!World
  <2>2. [FALSE]_ofService /\ [FALSE]_ofCluster /\ [FALSE]_overdue
    BY <1>2 DEF Next, Reconcile, OperationWatch, ResourceWatch, Replay, Timers, World,
           Restart, Step
  <2> QED
    BY <2>1, <2>2, KfJobKeepsSetup
<1> QED
  BY <1>1, <1>2

\* A step of this controller is one of the operator.
LEMMA KfJobTaken ==
  ASSUME setup.Controller = "KfJob", [KfJob!Next]_(KfJob!vars),
         [FALSE]_ofService, [FALSE]_ofCluster, [FALSE]_overdue
  PROVE  [Next]_vars /\ setup' = setup
<1>1. UNCHANGED ofService /\ UNCHANGED ofCluster /\ UNCHANGED overdue
  OBVIOUS
<1>2. CASE UNCHANGED KfJob!vars
  BY <1>1, <1>2 DEF vars, kubeVars, cluster, elsewhere, caches, worker, plane,
         ofService, ofKfJob, ofCluster, KfJob!vars, KfJob!kubeVars, KfJob!cluster,
         KfJob!elsewhere, KfJob!caches, KfJob!worker, KfJob!plane
<1>3. CASE KfJob!Next
  <2>1. Next
    BY <1>1, <1>3 DEF Next, Reconcile, OperationWatch, ResourceWatch, Replay, Timers,
           World, Restart, Step, KfJob!Next, KfJob!Watch, KfJob!World
  <2> QED
    BY <1>3, <2>1, KfJobKeepsSetup
<1> QED
  BY <1>2, <1>3

\* An operator whose operation is a Kubeflow job is KfJobController: each behaviour of
\* one is a behaviour of the other (internal/controller/kfjob, started by
\* cmd/main.go).
THEOREM KfJobComposed ==
  setup.Controller = "KfJob" =>
    (Spec <=> KfJob!Spec /\ ServiceRests /\ ClusterRests /\ DeadlineRests)
<1>1. Init => KfJob!Init /\ ServiceResting /\ ClusterResting /\ DeadlineResting
  BY DEF Init, Service!Init, KfJob!Init, Cluster!Init, ServiceResting, ClusterResting,
         DeadlineResting
<1>2. KfJob!Init /\ ServiceResting /\ ClusterResting /\ DeadlineResting => Init
  BY DEF Init, Service!Init, KfJob!Init, Cluster!Init, ServiceResting, ClusterResting,
         DeadlineResting, Service!KubeInit, Service!NewOp, Service!NewStatus,
         Service!NoCondition, Service!Nothing, KfJob!KubeInit, KfJob!NewOp,
         KfJob!NewStatus, KfJob!NoCondition, KfJob!Nothing, Cluster!KubeInit,
         Cluster!NewOp, Cluster!NewStatus, Cluster!NoCondition, Cluster!Nothing
<1>3. setup.Controller = "KfJob" /\ [Next]_vars
        => /\ (setup.Controller = "KfJob")' /\ [KfJob!Next]_(KfJob!vars)
           /\ [FALSE]_ofService /\ [FALSE]_ofCluster /\ [FALSE]_overdue
  BY KfJobSteps
<1>4. setup.Controller = "KfJob" /\ [KfJob!Next]_(KfJob!vars)
      /\ [FALSE]_ofService /\ [FALSE]_ofCluster /\ [FALSE]_overdue
        => (setup.Controller = "KfJob")' /\ [Next]_vars
  BY KfJobTaken
<1> QED
  BY <1>1, <1>2, <1>3, <1>4, PTL DEF Spec, KfJob!Spec, ServiceRests, ClusterRests,
         DeadlineRests

(***************************************************************************)
(* The controller of a cluster.                                            *)
(***************************************************************************)
\* The setup of an operation is not changed by a step of its controller, of a watch,
\* a timer or the world around.
LEMMA ClusterKeepsSetup == ASSUME Cluster!Next PROVE setup' = setup
<1>1. ASSUME Cluster!Reconcile PROVE setup' = setup
  <2>1. CASE Cluster!Fetch
    BY <2>1 DEF Cluster!Fetch, Cluster!FetchOp, Cluster!elsewhere
  <2>2. CASE Cluster!AddStartTime
    BY <2>2 DEF Cluster!AddStartTime, Cluster!elsewhere
  <2>3. CASE Cluster!AddLogsFinalizer
    BY <2>3 DEF Cluster!AddLogsFinalizer, Cluster!AddFinalizer, Cluster!elsewhere
  <2>4. CASE Cluster!AddStatusFinalizer
    BY <2>4 DEF Cluster!AddStatusFinalizer, Cluster!AddFinalizer, Cluster!elsewhere
  <2>5. CASE Cluster!refetch
    BY <2>5 DEF Cluster!refetch, Cluster!elsewhere
  <2>6. CASE Cluster!handleFinalizersStop
    BY <2>6 DEF Cluster!handleFinalizersStop, Cluster!ReportStopped, Cluster!elsewhere
  <2>7. CASE Cluster!collectLogs
    BY <2>7 DEF Cluster!collectLogs, Cluster!CollectHeld, Cluster!elsewhere
  <2>8. CASE Cluster!removeFinalizer
    BY <2>8 DEF Cluster!removeFinalizer, Cluster!ReleaseFinalizer, Cluster!elsewhere
  <2>9. CASE Cluster!handleTTL
    BY <2>9 DEF Cluster!handleTTL, Cluster!CleanUp, Cluster!elsewhere
  <2>10. CASE Cluster!reconcileRayCluster
    BY <2>10 DEF Cluster!reconcileRayCluster, Cluster!elsewhere
  <2>11. CASE Cluster!reconcileDaskCluster
    BY <2>11 DEF Cluster!reconcileDaskCluster, Cluster!elsewhere
  <2>12. CASE Cluster!updateCluster
    BY <2>12 DEF Cluster!updateCluster, Cluster!elsewhere
  <2>13. CASE Cluster!checkStatus
    BY <2>13 DEF Cluster!checkStatus, Cluster!elsewhere
  <2>14. CASE Cluster!checkDeadline
    BY <2>14 DEF Cluster!checkDeadline, Cluster!elsewhere
  <2>15. CASE Cluster!delete
    BY <2>15 DEF Cluster!delete, Cluster!elsewhere
  <2>16. CASE Cluster!writeStatus
    BY <2>16 DEF Cluster!writeStatus, Cluster!StoreStatus, Cluster!elsewhere
  <2>17. CASE Cluster!instanceSyncStatus
    BY <2>17 DEF Cluster!instanceSyncStatus, Cluster!ReportStatus, Cluster!elsewhere
  <2> QED
    BY <1>1, <2>1, <2>2, <2>3, <2>4, <2>5, <2>6, <2>7, <2>8, <2>9, <2>10, <2>11, <2>12,
           <2>13, <2>14, <2>15, <2>16, <2>17 DEF Cluster!Reconcile
<1>2. ASSUME Cluster!Watch PROVE setup' = setup
  <2>1. CASE Cluster!WatchCluster
    BY <2>1 DEF Cluster!WatchCluster, Cluster!WatchOp, Cluster!outside
  <2>2. CASE Cluster!WatchRuntime
    BY <2>2 DEF Cluster!WatchRuntime, Cluster!NotifyOwned, Cluster!outside
  <2>3. CASE Cluster!mapClusterPodToRequest
    BY <2>3 DEF Cluster!mapClusterPodToRequest, Cluster!WatchPods, Cluster!outside
  <2>4. CASE Cluster!mapClusterDeploymentToRequest
    BY <2>4 DEF Cluster!mapClusterDeploymentToRequest, Cluster!elsewhere
  <2> QED
    BY <1>2, <2>1, <2>2, <2>3, <2>4 DEF Cluster!Watch
<1>3. ASSUME Cluster!World PROVE setup' = setup
  <2>1. CASE Cluster!UserStops
    BY <2>1 DEF Cluster!UserStops, Cluster!UserDeletes, Cluster!elsewhere
  <2>2. CASE Cluster!DeadlinePasses
    BY <2>2 DEF Cluster!DeadlinePasses, Cluster!kubeVars, Cluster!elsewhere
  <2>3. CASE Cluster!RayReports
    BY <2>3 DEF Cluster!RayReports, Cluster!Reports, Cluster!OwnedReports,
           Cluster!operator
  <2>4. CASE Cluster!DaskReports
    BY <2>4 DEF Cluster!DaskReports, Cluster!Reports, Cluster!OwnedReports,
           Cluster!operator
  <2>5. CASE Cluster!QuotaChanges
    BY <2>5 DEF Cluster!QuotaChanges, Cluster!kubeVars, Cluster!elsewhere
  <2>6. CASE Cluster!PodMoves
    BY <2>6 DEF Cluster!PodMoves, Cluster!operator
  <2>7. CASE Cluster!PodStarts
    BY <2>7 DEF Cluster!PodStarts, Cluster!operator
  <2>8. CASE Cluster!ClusterDeleted
    BY <2>8 DEF Cluster!ClusterDeleted, Cluster!OwnedDeleted, Cluster!DropOwned,
           Cluster!operator
  <2>9. CASE Cluster!Collected
    BY <2>9 DEF Cluster!Collected, Cluster!OwnedCollected, Cluster!DropOwned,
           Cluster!operator
  <2>10. CASE Cluster!Expire
    BY <2>10 DEF Cluster!Expire, Cluster!TTLPasses
  <2> QED
    BY <1>3, <2>1, <2>2, <2>3, <2>4, <2>5, <2>6, <2>7, <2>8, <2>9, <2>10 DEF
           Cluster!World
<1>4. CASE Cluster!Replay
  BY <1>4 DEF Cluster!Replay, Cluster!Resync, Cluster!outside
<1>5. CASE Cluster!Requeue
  BY <1>5 DEF Cluster!Requeue, Cluster!RequeueAfter, Cluster!elsewhere
<1>6. CASE Cluster!Restart
  BY <1>6 DEF Cluster!Restart, Cluster!Crash
<1> QED
  BY <1>1, <1>2, <1>3, <1>4, <1>5, <1>6 DEF Cluster!Next

\* A step of the operator is one of this controller, or none, and leaves the state of
\* the others alone.
LEMMA ClusterSteps ==
  ASSUME setup.Controller = "Cluster", [Next]_vars
  PROVE  /\ [Cluster!Next]_(Cluster!vars) /\ setup' = setup
         /\ [FALSE]_ofService
         /\ [FALSE]_ofKfJob
<1>1. CASE UNCHANGED vars
  BY <1>1 DEF vars, kubeVars, cluster, elsewhere, caches, worker, plane, ofService,
         ofKfJob, ofCluster, Cluster!vars, Cluster!kubeVars, Cluster!cluster,
         Cluster!elsewhere, Cluster!caches, Cluster!worker, Cluster!plane
<1>2. CASE Next
  <2>1. Cluster!Next
    BY <1>2 DEF Next, Reconcile, OperationWatch, ResourceWatch, Replay, Timers, World,
           Restart, Step, Cluster!Next, Cluster!Watch, Cluster!World
  <2>2. [FALSE]_ofService /\ [FALSE]_ofKfJob
    BY <1>2 DEF Next, Reconcile, OperationWatch, ResourceWatch, Replay, Timers, World,
           Restart, Step
  <2> QED
    BY <2>1, <2>2, ClusterKeepsSetup
<1> QED
  BY <1>1, <1>2

\* A step of this controller is one of the operator.
LEMMA ClusterTaken ==
  ASSUME setup.Controller = "Cluster", [Cluster!Next]_(Cluster!vars),
         [FALSE]_ofService, [FALSE]_ofKfJob
  PROVE  [Next]_vars /\ setup' = setup
<1>1. UNCHANGED ofService /\ UNCHANGED ofKfJob
  OBVIOUS
<1>2. CASE UNCHANGED Cluster!vars
  BY <1>1, <1>2 DEF vars, kubeVars, cluster, elsewhere, caches, worker, plane,
         ofService, ofKfJob, ofCluster, Cluster!vars, Cluster!kubeVars, Cluster!cluster,
         Cluster!elsewhere, Cluster!caches, Cluster!worker, Cluster!plane
<1>3. CASE Cluster!Next
  <2>1. Next
    BY <1>1, <1>3 DEF Next, Reconcile, OperationWatch, ResourceWatch, Replay, Timers,
           World, Restart, Step, Cluster!Next, Cluster!Watch, Cluster!World
  <2> QED
    BY <1>3, <2>1, ClusterKeepsSetup
<1> QED
  BY <1>2, <1>3

\* An operator whose operation is a cluster is ClusterController: each behaviour of
\* one is a behaviour of the other (internal/controller/cluster, started by
\* cmd/main.go).
THEOREM ClusterComposed ==
  setup.Controller = "Cluster" =>
    (Spec <=> Cluster!Spec /\ ServiceRests /\ KfJobRests)
<1>1. Init => Cluster!Init /\ ServiceResting /\ KfJobResting
  BY DEF Init, Service!Init, KfJob!Init, Cluster!Init, ServiceResting, KfJobResting
<1>2. Cluster!Init /\ ServiceResting /\ KfJobResting => Init
  BY DEF Init, Service!Init, KfJob!Init, Cluster!Init, ServiceResting, KfJobResting,
         Service!KubeInit, Service!NewOp, Service!NewStatus, Service!NoCondition,
         Service!Nothing, KfJob!KubeInit, KfJob!NewOp, KfJob!NewStatus,
         KfJob!NoCondition, KfJob!Nothing, Cluster!KubeInit, Cluster!NewOp,
         Cluster!NewStatus, Cluster!NoCondition, Cluster!Nothing
<1>3. setup.Controller = "Cluster" /\ [Next]_vars
        => /\ (setup.Controller = "Cluster")' /\ [Cluster!Next]_(Cluster!vars)
           /\ [FALSE]_ofService /\ [FALSE]_ofKfJob
  BY ClusterSteps
<1>4. setup.Controller = "Cluster" /\ [Cluster!Next]_(Cluster!vars)
      /\ [FALSE]_ofService /\ [FALSE]_ofKfJob
        => (setup.Controller = "Cluster")' /\ [Next]_vars
  BY ClusterTaken
<1> QED
  BY <1>1, <1>2, <1>3, <1>4, PTL DEF Spec, Cluster!Spec, ServiceRests, KfJobRests
=============================================================================
