-------------------------- MODULE ClusterController --------------------------
(***************************************************************************)
(* The controller of Cluster operations (internal/controller/cluster): a   *)
(* RayCluster or a DaskCluster, with an active deadline.                   *)
(*                                                                         *)
(* The cluster resource is an unstructured object and is read live; the    *)
(* operation, the pods and the Deployments of Dask come from caches.       *)
(* After each of its first writes the controller reads the operation again *)
(* from the cache, which may still hold what was there before the write.   *)
(***************************************************************************)
EXTENDS Handlers

Misbehaviours == {"badImage", "noPull", "suspended", "failure"}

ASSUME ClusterSetups ==
  \A s \in Setups :
    /\ s.Kind \in {"RayCluster", "DaskCluster"}
    /\ {s.Enabled, s.ActiveDeadline} \subseteq BOOLEAN
    /\ s.OrderedWatches => s.Enabled
    /\ s.Workers \in Nat
    /\ s.Failures \subseteq Misbehaviours

\* The spec that is set, whether the watches of this kind are enabled in the
\* environment of the operator (their order is said to be kept only if they are),
\* ActiveDeadlineSeconds, and the pods besides the head or the scheduler.
Kind == setup.Kind

Enabled == setup.Enabled

ActiveDeadline == setup.ActiveDeadline

Workers == setup.Workers

\* What may go wrong.
Failures == setup.Failures

VARIABLES
  short,       \* a Deployment of Dask cannot create its pods
  shortCache,
  overdue,     \* the active deadline has passed
  seen         \* what the cluster of the operation has been through

vars == <<kubeVars, short, shortCache, overdue, seen>>

around == <<short, shortCache, overdue, seen>>

Init ==
  /\ KubeInit
  /\ short = FALSE /\ shortCache = FALSE
  /\ overdue = FALSE /\ seen = {}

Within == UNCHANGED around

(***************************************************************************)
(* The cluster package's copies of the shared handlers.  The start time    *)
(* and the finalizers are written and the operation is then read again;    *)
(* only after the start time is its deletion looked at again.  The API     *)
(* server adds no finalizer to an operation that is being deleted.         *)
(***************************************************************************)
Fetch == FetchOp /\ Within

Refetch(after) ==
  /\ inst' = op' /\ pc' = "refetch" /\ then' = after
  /\ UNCHANGED <<found, queued>>

AddStartTime ==
  /\ pc = "addStart"
  /\ Write([inst EXCEPT !.status.start = TRUE], Refetch("addStart"))
  /\ UNCHANGED <<elsewhere, timer, plane>> /\ Within

AddFinalizer(label, finalizer) ==
  /\ pc = label
  /\ IF inst.life = "deleting"
     THEN ReturnError /\ Keep(current) /\ UNCHANGED <<cluster, faults>>
     ELSE Write([inst EXCEPT !.fins = @ \cup {finalizer}], Refetch(label))
  /\ UNCHANGED <<elsewhere, timer, plane>> /\ Within

AddLogsFinalizer == AddFinalizer("addLogs", "logs")

AddStatusFinalizer == AddFinalizer("addStatus", "status")

\* Where the pass goes on with the operation as it was read again.
After(label, instance) ==
  CASE label = "addStart"  -> Dispatch(instance)
    [] label = "addLogs"   -> IF EnableStatusFinalizers /\ "status" \notin instance.fins
                              THEN "addStatus" ELSE "runtime"
    [] label = "addStatus" -> "runtime"
    [] label = "runtime"   -> "write"

refetch ==
  /\ pc = "refetch"
  /\ IF opCache.life = "gone"
     THEN ReturnError
     ELSE /\ inst' = IF then = "runtime" THEN [opCache EXCEPT !.status = LogStarting(@)] ELSE opCache
          /\ pc' = After(then, opCache)
          /\ then' = IF then = "runtime" THEN "checkStatus" ELSE "done"
          /\ UNCHANGED <<found, queued>>
  /\ Keep(IF "opCache" \in current THEN current \cup {"inst"} ELSE current \ {"inst"})
  /\ UNCHANGED <<cluster, elsewhere, timer, plane, faults>> /\ Within

handleFinalizersStop == ReportStopped /\ Within

\* Bug: the logs finalizer is removed without a collection.
collectLogsNever ==
  /\ pc = "collect"
  /\ IF inst.fins = {} THEN AfterFinalizers ELSE Goto("removeFinalizer") /\ UNCHANGED inst
  /\ Keep(current)
  /\ UNCHANGED <<cluster, elsewhere, timer, plane, faults>> /\ Within

collectLogs == CollectHeld /\ Within

removeFinalizer == ReleaseFinalizer /\ Within

handleTTL == CleanUp /\ Within

writeStatus == StoreStatus /\ Within

instanceSyncStatus == ReportStatus /\ Within

(***************************************************************************)
(* handlePastActiveDeadline, and the requeue that ends the pass.           *)
(***************************************************************************)
handlePastActiveDeadline ==
  LET applies == ActiveDeadline /\ inst.status.start /\ ~IsDone(inst.status)
  IN  IF applies /\ overdue
      THEN WriteStatus(LogStopped(inst.status, "DeadlineExceeded"), "delete") /\ UNCHANGED timer
      ELSE /\ timer' = (timer \/ applies) /\ Return
           /\ Keep(current) /\ UNCHANGED <<cluster, faults>>

checkDeadline ==
  /\ pc = "deadline"
  /\ handlePastActiveDeadline
  /\ UNCHANGED <<elsewhere, plane>> /\ Within

delete ==
  /\ pc = "delete"
  /\ Delete(FALSE)
  /\ UNCHANGED <<elsewhere, plane>> /\ Within

(***************************************************************************)
(* The cluster resource.  The status of a RayCluster is its state and the  *)
(* conditions that are True, that of a DaskCluster its phase.              *)
(***************************************************************************)
RayStatus(state, conds) == [state |-> state, conds |-> conds]

DaskPhase(phase) == [state |-> phase, conds |-> {}]

\* A cluster that has no status yet.
NoClusterStatus == [state |-> "absent", conds |-> {}]

isRayClusterInTerminalState(job) == job.status.state = "failed"

isDaskClusterInTerminalState(job) == job.status.state \in {"Successful", "Error"}

\* The cluster is read and, unless it has ended, written back; one that is
\* missing counts as deleted if the operation has any condition, and is created
\* otherwise.
reconcileCluster(ended, deleted) ==
  \/ /\ owned.live
     /\ found' = owned
     /\ pc' \in IF IsDone(inst.status) \/ ended THEN {"checkStatus"}
                ELSE {"update", "checkStatus"}
     /\ current' = current \cup {"found"}
     /\ UNCHANGED <<cluster, inst, then, queued, faults>>
  \/ /\ ~owned.live /\ IsDone(inst.status)
     /\ Return /\ Keep(current) /\ UNCHANGED <<cluster, faults>>
  \/ /\ ~owned.live /\ ~IsDone(inst.status) /\ inst.status.has # {}
     /\ WriteStatus(LogStopped(inst.status, deleted), "done")
  \/ /\ ~owned.live /\ inst.status.has = {}
     /\ Create(NoClusterStatus,
               pc' = "refetch" /\ then' = "runtime" /\ UNCHANGED <<inst, found, queued>>,
               "OperatorCreateCluster")
  \/ Fail /\ ReturnError /\ Keep(current) /\ UNCHANGED cluster

reconcileRayCluster ==
  /\ pc = "runtime" /\ Kind = "RayCluster"
  /\ reconcileCluster(isRayClusterInTerminalState(owned), "JobDeleted")
  /\ UNCHANGED <<elsewhere, timer, plane>> /\ Within

reconcileDaskCluster ==
  /\ pc = "runtime" /\ Kind = "DaskCluster"
  /\ reconcileCluster(isDaskClusterInTerminalState(owned), "ClusterDeleted")
  /\ UNCHANGED <<elsewhere, timer, plane>> /\ Within

updateCluster ==
  /\ pc = "update"
  /\ UpdateFound("checkStatus")
  /\ UNCHANGED <<elsewhere, timer, plane>> /\ Within

(***************************************************************************)
(* The status the two runtimes leave, and whether it is written.           *)
(***************************************************************************)
Logged(status) == [status |-> status, write |-> TRUE]

Same(status) == [status |-> status, write |-> FALSE]

\* A warning is only written when it is a new one.
Warned(status, why) ==
  IF IsUpdated(status, "Warning", why) THEN Logged(LogWarning(status, why)) ELSE Same(status)

reconcileRayClusterStatus(status, ray, podList) ==
  LET pod == HasUnschedulablePods(podList)
  IN  IF GetInvalidImageName(podList)
      THEN Logged(LogFailed(status, "InvalidImageName"))
      ELSE IF pod.type = "Warning"
      THEN Warned(status, pod.why)
      ELSE IF "Suspended" \in ray.conds
      THEN Warned(status, "Suspended")
      ELSE IF "ReplicaFailure" \in ray.conds
      THEN Logged(LogFailed(status, "ReplicaFailure"))
      ELSE IF {"HeadPodReady", "Provisioned"} \subseteq ray.conds
      THEN Logged(LogRunning(status))
      ELSE IF "HeadPodReady" \in ray.conds
      THEN Warned(status, "Provisioning")
      ELSE Same(status)

\* Bug: any pod that runs counts.
isDaskSchedulerRunningAny(podList) == IsMainContainerRunning(podList)

isDaskSchedulerRunning(podList) ==
  \E i \in DOMAIN podList :
     podList[i].role = "head" /\ IsMainContainerRunning(<<podList[i]>>)

\* Dask reports Running before its Deployments have their pods.
daskRunning(status, podList, replicaFailure) ==
  LET pod == HasUnschedulablePods(podList)
  IN  IF replicaFailure
      THEN Warned(status, "ReplicaFailure")
      ELSE IF isDaskSchedulerRunning(podList)
      THEN Logged(LogRunning(status))
      ELSE IF pod.type = "Warning"
      THEN Warned(status, pod.why)
      ELSE Same(status)

\* Bug: a warning of the pods fails the cluster.
reconcileDaskClusterStatusImpatient(status, dask, podList, replicaFailure) ==
  IF HasUnschedulablePods(podList).type = "Warning"
  THEN Logged(LogFailed(status, "ReplicaFailure"))
  ELSE Logged(LogStarting(status))

reconcileDaskClusterStatus(status, dask, podList, replicaFailure) ==
  LET pod == HasUnschedulablePods(podList)
      phase == dask.state
  IN  IF GetInvalidImageName(podList)
      THEN Logged(LogFailed(status, "InvalidImageName"))
      ELSE CASE phase = "Created"          -> Logged(LogStarting(status))
             [] phase = "Pending"          -> Warned(status, "ClusterPending")
             [] phase = "HealthChecking"   -> Warned(status, "HealthChecking")
             [] phase = "Running"          -> daskRunning(status, podList, replicaFailure)
             [] phase = "CrashLoopBackOff" -> Warned(status, "CrashLoopBackOff")
             [] phase = "Successful"       -> Logged(LogSucceeded(status))
             [] phase = "Error"            -> Logged(LogFailed(status, pod.why))
             [] phase = "absent"           -> Same(status)
             [] OTHER                      -> IF pod.type = "Warning" /\ pod.why # "ContainersNotReady"
                                              THEN Warned(status, pod.why) ELSE Same(status)

\* A pod is named by where it is; the first one is the head or the scheduler.
PodStages == {"NotReady", "NoPull", "BadImage", "Running"}

PodAt(at, role) ==
  LET main(state, reason) == container(state, reason, NoCode, NoCode, 0)
      pod == CASE at = "NotReady" -> podStatus("Pending", "notReady", main("waiting", "ContainerCreating"))
               [] at = "NoPull"   -> podStatus("Pending", "notReady", main("waiting", "ImagePullBackOff"))
               [] at = "BadImage" -> podStatus("Pending", "notReady", main("waiting", "InvalidImageName"))
               [] at = "Running"  -> podStatus("Running", "ready", main("running", ""))
  IN  [f \in DOMAIN pod \cup {"role"} |-> IF f = "role" THEN role ELSE pod[f]]

ListInstancePods(list) ==
  Orders([i \in DOMAIN list |-> PodAt(list[i], IF i = 1 THEN "head" ELSE "worker")])

ClusterStatus(resource) == IF resource.live THEN resource.status ELSE NoClusterStatus

reconcileStatus(status, resource, podList, replicaFailure) ==
  IF Kind = "RayCluster"
  THEN reconcileRayClusterStatus(status, ClusterStatus(resource), podList)
  ELSE reconcileDaskClusterStatus(status, ClusterStatus(resource), podList, replicaFailure)

checkStatus ==
  /\ pc = "checkStatus"
  /\ \E podList \in ListInstancePods(podCache) :
       LET result == reconcileStatus(inst.status, found, podList, shortCache)
       IN  IF result.write
           THEN WriteStatus(result.status, "deadline") /\ UNCHANGED timer
           ELSE handlePastActiveDeadline
  /\ UNCHANGED <<elsewhere, plane>> /\ Within

Reconcile ==
  \/ Fetch \/ AddStartTime \/ AddLogsFinalizer \/ AddStatusFinalizer \/ refetch
  \/ handleFinalizersStop \/ collectLogs \/ removeFinalizer \/ handleTTL
  \/ reconcileRayCluster \/ reconcileDaskCluster \/ updateCluster \/ checkStatus
  \/ checkDeadline \/ delete \/ writeStatus \/ instanceSyncStatus

(***************************************************************************)
(* The watches.                                                            *)
(***************************************************************************)
WatchCluster == WatchOp /\ Within

WatchRuntime == Enabled /\ NotifyOwned /\ Within

mapClusterPodToRequest == WatchPods /\ Within

\* The Deployments are in the cache because they are listed, watched or not.
mapClusterDeploymentToRequest ==
  /\ shortCache # short
  /\ shortCache' = short /\ queued' = (queued \/ Enabled)
  /\ UNCHANGED <<cluster, elsewhere, current, timer, worker, plane, faults>>
  /\ UNCHANGED <<short, overdue, seen>>

Replay == Resync /\ Within

Requeue == RequeueAfter(IF IsDone(op.status) THEN expired ELSE overdue) /\ Within

Expire == TTLPasses /\ Within

Restart == Crash /\ shortCache' = short /\ UNCHANGED <<short, overdue, seen>>

(***************************************************************************)
(* The user, the clock, KubeRay and the Dask operator.                     *)
(***************************************************************************)
DeadlinePasses ==
  /\ ActiveDeadline /\ op.status.start /\ ~overdue /\ Present
  /\ overdue' = TRUE
  /\ UNCHANGED <<kubeVars, short, shortCache, seen>>

\* Bug: only creation, deletion and spec changes pass.
clusterResourcePredicateOfSpecs(old, new) == FALSE

\* An update of the status passes when the phase or the state is a new one.
clusterResourcePredicate(old, new) == old.state # new.state /\ new.state # ""

Reports(status) ==
  /\ OwnedReports(status, clusterResourcePredicate(owned.status, status))
  /\ seen' = seen \cup ({status.state} \cap {"Successful", "Error"}) \cup
                       (status.conds \cap {"ReplicaFailure"})
  /\ UNCHANGED <<short, shortCache, overdue>>

HeadRuns == pods # <<>> /\ pods[1] = "Running"

\* KubeRay sets the head's condition before the state says ready, and may mark a
\* failure with a condition alone.
RayReports ==
  /\ Present /\ Kind = "RayCluster" /\ owned.live
  /\ LET now == IF owned.status = NoClusterStatus THEN RayStatus("", {}) ELSE owned.status
     IN  \/ /\ HeadRuns /\ now.conds = {}
            /\ Reports(RayStatus(now.state, {"HeadPodReady"}))
         \/ /\ \A i \in DOMAIN pods : pods[i] = "Running"
            /\ now.conds = {"HeadPodReady"}
            /\ Reports(RayStatus("ready", {"HeadPodReady", "Provisioned"}))
         \/ /\ "failure" \in Failures /\ pods # <<>> /\ "ReplicaFailure" \notin now.conds
            /\ \E state \in {now.state, "failed"} :
                 Reports(RayStatus(state, now.conds \cup {"ReplicaFailure"}))
         \/ /\ "suspended" \in Failures /\ now.state = "ready" /\ "ReplicaFailure" \notin now.conds
            /\ Reports(RayStatus("suspended", {"Suspended"}))
         \/ /\ now.state = "suspended"
            /\ Reports(RayStatus("ready", {"HeadPodReady", "Provisioned"}))

\* The Dask operator says Running once the scheduler's Service exists.
DaskReports ==
  /\ Present /\ Kind = "DaskCluster" /\ owned.live
  /\ LET phase == owned.status.state
         next == CASE phase = "absent"  -> {"Created"}
                   [] phase = "Created" -> {"Pending", "HealthChecking"}
                   [] phase = "Pending" -> {"Running"}
                   [] phase = "HealthChecking" -> {"Running"}
                   [] phase = "Running" -> {"Successful"} \cup
                        (IF "failure" \in Failures THEN {"CrashLoopBackOff"} ELSE {})
                   [] phase = "CrashLoopBackOff" -> {"Error"}
                   [] OTHER -> {}
     IN  \E p \in next : Reports(DaskPhase(p))

\* A quota comes in the way of the Deployments of Dask, and goes.
QuotaChanges ==
  /\ Present /\ Kind = "DaskCluster" /\ owned.live /\ "failure" \in Failures
  /\ IF short THEN pods # <<>> ELSE pods = <<>>
  /\ short' = ~short
  /\ UNCHANGED <<kubeVars, shortCache, overdue, seen>>

PodMoves ==
  /\ Present
  /\ \E i \in DOMAIN pods :
       LET next == CASE pods[i] = "NotReady" -> {"Running"} \cup
                          {"NoPull" : x \in {"noPull"} \cap Failures} \cup
                          {"BadImage" : x \in {"badImage"} \cap Failures}
                     [] pods[i] = "NoPull" -> {"Running"}
                     [] OTHER -> {}
       IN  \E at \in next :
             /\ pods' = [pods EXCEPT ![i] = at]
             /\ seen' = seen \cup ({at} \cap {"BadImage"})
  /\ UNCHANGED <<owned, current, operator, removals, short, shortCache, overdue>>

PodStarts ==
  /\ Present /\ owned.live /\ Len(pods) < 1 + Workers
  /\ pods' = Append(pods, "NotReady")
  /\ UNCHANGED <<owned, current, operator, removals>> /\ Within

ClusterDeleted ==
  /\ Present /\ OwnedDeleted
  /\ short' = FALSE /\ UNCHANGED <<shortCache, overdue, seen>>

Collected ==
  /\ OwnedCollected
  /\ short' = FALSE /\ UNCHANGED <<shortCache, overdue, seen>>

UserStops == UserDeletes /\ Within

World ==
  \/ UserStops \/ DeadlinePasses \/ RayReports \/ DaskReports \/ QuotaChanges
  \/ PodMoves \/ PodStarts \/ ClusterDeleted \/ Collected \/ Expire

Watch == WatchCluster \/ WatchRuntime \/ mapClusterPodToRequest \/ mapClusterDeploymentToRequest

Next == Reconcile \/ Watch \/ Replay \/ Requeue \/ Restart \/ World

Spec == Init /\ [][Next]_vars

(***************************************************************************)
(* Properties.                                                             *)
(***************************************************************************)
Rested == Settled /\ shortCache = short

\* What OperationLifecycle promises, less one thing: a pass that created the
\* cluster goes on with the operation it read again, deleted or not, so an
\* outcome may be recorded after the deletion was asked for.  It still never
\* changes while nobody else deletes the cluster, and logs that are held back are
\* collected before the hold goes.
OutcomeStands ==
  [][/\ removals = 0 /\ IsDone(op.status) =>
          op'.status.has \cap FinalTypes = op.status.has \cap FinalTypes
     /\ "logs" \in op.fins \ op'.fins => collected /\ (IsDone(op.status) \/ op.life = "deleting")
     /\ op.life = "gone" => op' = op]_vars

\* The control plane never hears of a final status that is not the one
\* recorded, except Stopped for an operation that is being deleted: there an
\* outcome may be recorded late, and Stopped reported from an older copy.
ReportedOutcome ==
  \A t \in reported :
     \/ t \in op.status.has
     \/ t = "Stopped" /\ op.life # "live"

\* One outcome is recorded and nothing is logged after it, although the pass may
\* go on with an operation that was read again in between; it has its
\* CompletionTime unless the cluster was stopped.  A cluster that somebody else
\* deletes is the exception: a pass with an older copy of the operation creates
\* it again and logs that it starts.  The outcome is what the cluster and the
\* clock really did, however old the copies are that decided it.
OutcomeMatchesCluster ==
  /\ removals = 0 /\ IsDone(op.status) =>
       /\ op.status.has \cap FinalTypes = {op.status.last.type}
       /\ op.status.completion \/ op.status.last.type = "Stopped"
  /\ "Succeeded" \in op.status.has => "Successful" \in seen
  /\ "Failed" \in op.status.has => seen \cap {"Error", "ReplicaFailure", "BadImage"} # {}
  /\ "Stopped" \in op.status.has => overdue \/ removals + faults > 0

\* When the controller has nothing left to do, an unfinished operation has its
\* finalizers, its cluster and a timer for its deadline, although what was read
\* again after a write may have been older than the write.  "watch spec changes,
\* status changes, and deletions": there is then no status of a Dask cluster left
\* to record, if the kind is enabled.  (The conditions of a RayCluster are read and
\* not watched.)
NoLostWakeup ==
  Rested =>
    /\ op.life = "live" /\ ~IsDone(op.status) =>
         /\ owned.live
         /\ EnableLogsFinalizers => "logs" \in op.fins
         /\ EnableStatusFinalizers => "status" \in op.fins
         /\ ActiveDeadline => timer
         /\ Kind = "DaskCluster" /\ Enabled =>
              \E podList \in ListInstancePods(pods) :
                 reconcileStatus(op.status, owned, podList, short).status = op.status
    /\ op.life = "deleting" => faults > 0

\* A Dask cluster without a running scheduler, or whose Deployments are known to
\* lack pods, is not shown as running when the controller has nothing left to do,
\* unless it is one that was created again.
RunningMeansServing ==
  /\ Rested /\ removals = 0 /\ op.life = "live" /\ Kind = "DaskCluster" /\ IsRunning(op.status)
  /\ owned.live
  => HeadRuns /\ (Enabled => ~short)
=============================================================================
