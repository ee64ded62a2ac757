------------------------------ MODULE Operator ------------------------------
(***************************************************************************)
(* The service, kfjob and cluster controllers as one operator runs them:   *)
(* the same queue, caches, timers and finalizer handling, and an operation *)
(* that is reconciled by the controller of its kind.  The safety of each   *)
(* is checked in its own module; here is what eventually happens.          *)
(***************************************************************************)
EXTENDS Kube

VARIABLES
  overdue,                               \* of a service or a cluster
  svc, svcCache, svcHeard, idle, idled,  \* of a service
  ends, restarts,                        \* of a Kubeflow job
  short, shortCache, seen                \* of a cluster

ASSUME OperatorSetups ==
  \A s \in Setups : s.Controller \in {"Service", "KfJob", "Cluster"}

Service == INSTANCE ServiceController

KfJob == INSTANCE KfJobController

Cluster == INSTANCE ClusterController

ofService == <<svc, svcCache, svcHeard, idle, idled>>
ofKfJob   == <<ends, restarts>>
ofCluster == <<short, shortCache, seen>>

vars == <<kubeVars, overdue, ofService, ofKfJob, ofCluster>>

Init == Service!Init /\ KfJob!Init /\ Cluster!Init

\* A step of the controller that the operation is for.
Step(service, kfjob, cluster_) ==
  \/ /\ setup.Controller = "Service" /\ service
     /\ UNCHANGED <<ofKfJob, ofCluster>>
  \/ /\ setup.Controller = "KfJob" /\ kfjob
     /\ UNCHANGED <<overdue, ofService, ofCluster>>
  \/ /\ setup.Controller = "Cluster" /\ cluster_
     /\ UNCHANGED <<ofService, ofKfJob>>

Reconcile == Step(Service!Reconcile, KfJob!Reconcile, Cluster!Reconcile)

OperationWatch == Step(Service!WatchService, KfJob!WatchKfJob, Cluster!WatchCluster)

ResourceWatch ==
  Step(Service!WatchDeployment \/ Service!WatchBaseService \/ Service!mapPodToRequest,
       KfJob!WatchKubeflowJob \/ KfJob!mapKfPodToRequest,
       Cluster!WatchRuntime \/ Cluster!mapClusterPodToRequest
         \/ Cluster!mapClusterDeploymentToRequest)

Replay == Step(Service!Replay, KfJob!Replay, Cluster!Replay)

Timers ==
  Step(Service!Requeue \/ Service!Expire, KfJob!Requeue \/ KfJob!Expire,
       Cluster!Requeue \/ Cluster!Expire)

World == Step(Service!World, KfJob!World, Cluster!World)

Restart == Step(Service!Restart, KfJob!Restart, Cluster!Restart)

Next ==
  Reconcile \/ OperationWatch \/ ResourceWatch \/ Replay \/ Timers \/ World \/ Restart

Spec == Init /\ [][Next]_vars

\* The queue is served, the watches deliver and timers fire.  Nothing is
\* assumed of the user, the cluster or the failures.  That the informers replay
\* what they hold, every ten hours, is only used for Kubeflow jobs.
Fairness ==
  /\ WF_vars(Reconcile) /\ WF_vars(Timers)
  /\ WF_vars(OperationWatch) /\ WF_vars(ResourceWatch)
  /\ WF_vars(setup.Controller = "KfJob" /\ Replay)

FairSpec == Spec /\ Fairness

(***************************************************************************)
(* Properties.                                                             *)
(***************************************************************************)
\* A finished or deleted operation does not stay, a service or a cluster does not
\* outlive its deadline, and a Kubeflow job that ended is noticed, if only when
\* the informers replay: the TTL, the finalizers, the refused writes and the old
\* copies only delay the removal.
EventuallyGone ==
  \/ IsDone(op.status) \/ op.life = "deleting" \/ overdue
  \/ setup.Controller = "KfJob" /\ KfJob!Ended
  ~> op.life = "gone"

\* A service that runs, answers its probe and stays idle is culled.
IdleIsCulled ==
  <>[](idle /\ Service!Serving /\ IsRunning(op.status)) => <>(op.life # "live")

\* "Do nothing if condition doesn't change": what happens is logged, and then
\* the operation is no longer written, although the passes go on.
StopsWriting == <>[][FALSE]_op
=============================================================================
