--------------------------- MODULE KfJobController ---------------------------
(***************************************************************************)
(* The controller of KfJob operations (internal/controller/kfjob): a       *)
(* TFJob, a PyTorchJob or an MPIJob of the Kubeflow training operator.     *)
(*                                                                         *)
(* The Kubeflow job is an unstructured object, which the client reads live *)
(* and not from the cache, while the operation and the pods come from      *)
(* their caches.  The watch of the Kubeflow job asks for a changed         *)
(* generation, so an update of its status wakes nobody: what the           *)
(* controller learns of it, it learns on the way, when a pod changed.      *)
(***************************************************************************)
EXTENDS Handlers

Misbehaviours == {"badImage", "fail", "restart"}

ASSUME KfJobSetups ==
  \A s \in Setups :
    /\ s.Kind \in {"TFJob", "PytorchJob", "MPIJob"}
    /\ {s.Enabled, s.KfCleanup} \subseteq BOOLEAN
    /\ s.Failures \subseteq Misbehaviours
    /\ s.MaxRestarts \in Nat

\* The spec that is set, and whether the watch of this kind is enabled in the
\* environment of the operator.
Kind == setup.Kind

Enabled == setup.Enabled

\* What may go wrong, whether Kubeflow removes the finished job when its TTL has
\* passed, and the bound of the restarts of the job's pod.
Failures == setup.Failures

KfCleanup == setup.KfCleanup

MaxRestarts == setup.MaxRestarts

VARIABLES
  ends,      \* how the Kubeflow jobs of the operation ended
  restarts   \* how often their pod was replaced

vars == <<kubeVars, ends, restarts>>

Init == KubeInit /\ ends = {} /\ restarts = 0

\* A step of the operator leaves the history of the job alone.
Within == UNCHANGED <<ends, restarts>>

(***************************************************************************)
(* The kfjob package's copies of the shared handlers.                      *)
(***************************************************************************)
Fetch == FetchOp /\ Within

AddStartTime == SetStartTime /\ Within

AddLogsFinalizer == SetLogsFinalizer /\ Within

AddStatusFinalizer == SetStatusFinalizer /\ Within

handleFinalizersStop == ReportStopped /\ Within

\* Bug: the logs finalizer is removed without a collection.
collectLogsNever ==
  /\ pc = "collect"
  /\ IF inst.fins = {} THEN AfterFinalizers ELSE Goto("removeFinalizer") /\ UNCHANGED inst
  /\ Keep(current)
  /\ UNCHANGED <<cluster, elsewhere, timer, plane, faults>> /\ Within

collectLogs == CollectHeld /\ Within

removeFinalizer == ReleaseFinalizer /\ Within

handleTTL == CleanUp /\ Within

writeStatus == StoreStatus /\ Within

instanceSyncStatus == ReportStatus /\ Within

(***************************************************************************)
(* The Kubeflow job.  Its status is the type of its last condition.        *)
(***************************************************************************)
JobConditions == {"None", "Created", "Running", "Restarting", "Succeeded", "Failed"}

isKfJobInTerminalState(job) == job.status \in {"Succeeded", "Failed"}

\* A Kubeflow job that is missing was deleted if the operation had been running
\* or had a warning.  One that exists is written back unless it has ended; the
\* write is left out if the server has not defaulted its spec
\* (CopyUnstructuredFields finds no difference).
reconcileKfJob(kind) ==
  /\ pc = "runtime" /\ Kind = kind
  /\ \/ /\ owned.live
        /\ found' = owned
        /\ pc' \in IF isKfJobInTerminalState(owned) THEN {"checkStatus"}
                   ELSE {"update", "checkStatus"}
        /\ current' = current \cup {"found"}
        /\ UNCHANGED <<cluster, inst, then, queued, faults>>
     \/ /\ ~owned.live /\ ShouldMarkJobAsDeleted(inst.status)
        /\ WriteStatus(MarkJobAsDeleted(inst.status), "done")
     \/ /\ ~owned.live /\ ~ShouldMarkJobAsDeleted(inst.status)
        /\ Create("None", Log(LogStarting(inst.status), "checkStatus"), "OperatorCreateKfJob")
     \/ /\ Fail /\ ReturnError /\ Keep(current) /\ UNCHANGED cluster
  /\ UNCHANGED <<elsewhere, timer, plane>>
  /\ Within

reconcileTFJob == reconcileKfJob("TFJob")

reconcilePytorchJob == reconcileKfJob("PytorchJob")

reconcileMPIJob == reconcileKfJob("MPIJob")

updateKfJob ==
  /\ pc = "update"
  /\ UpdateFound("checkStatus")
  /\ UNCHANGED <<elsewhere, timer, plane>>
  /\ Within

(***************************************************************************)
(* reconcileKfJobStatus: the status it leaves, and whether it asks for a   *)
(* write.  Running, Succeeded and Restarting are written in every pass.    *)
(***************************************************************************)
\* Bug: a pod that failed ends the operation.
reconcileKfJobStatusOfPods(status, last, podList) ==
  IF HasUnschedulablePods(podList).type = "Failed"
  THEN [status |-> LogFailed(status, "PodFailed"), write |-> TRUE]
  ELSE IF last = "Succeeded"
  THEN [status |-> LogSucceeded(status), write |-> TRUE]
  ELSE [status |-> LogRunning(status), write |-> last # "None"]

\* Bug: the warnings of the pods come before the Running condition.
reconcileKfJobStatusMasked(status, last, podList) ==
  LET pod == HasUnschedulablePods(podList)
  IN  IF pod.type = "Warning" /\ IsUpdated(status, "Warning", pod.why)
      THEN [status |-> LogWarning(status, pod.why), write |-> TRUE]
      ELSE [status |-> LogRunning(status), write |-> last # "None"]

reconcileKfJobStatus(status, last, podList) ==
  LET pod == HasUnschedulablePods(podList)
      logged(new) == [status |-> new, write |-> TRUE]
      warns == pod.type = "Warning" /\ IsUpdated(status, "Warning", pod.why)
  IN  IF GetInvalidImageName(podList)
      THEN logged(LogFailed(status, "InvalidImageName"))
      ELSE IF last \in {"Running", "Created"}
      THEN logged(LogRunning(status))
      ELSE IF last = "Succeeded"
      THEN logged(LogSucceeded(status))
      ELSE IF last = "Failed"
      THEN logged(LogFailed(status, "KfJobFailed"))
      ELSE IF warns
      THEN logged(LogWarning(status, pod.why))
      ELSE IF last = "Restarting"
      THEN logged(LogWarning(status, "KfJobRestarting"))
      ELSE [status |-> status, write |-> FALSE]

\* A pod of the job is named by where it is.
PodStages == {"NotReady", "BadImage", "Running", "Succeeded", "Failed"}

PodAt(at) ==
  LET main(state, reason, code) == container(state, reason, code, NoCode, 0)
  IN  CASE at = "NotReady"  -> podStatus("Pending", "notReady", main("waiting", "ContainerCreating", NoCode))
        [] at = "BadImage"  -> podStatus("Pending", "notReady", main("waiting", "InvalidImageName", NoCode))
        [] at = "Running"   -> podStatus("Running", "ready", main("running", "", NoCode))
        [] at = "Succeeded" -> podStatus("Succeeded", "ready", main("terminated", "Completed", 0))
        [] at = "Failed"    -> podStatus("Failed", "notReady", main("terminated", "Error", 1))

ListInstancePods(list) == [i \in DOMAIN list |-> PodAt(list[i])]

\* The last condition of the job as it was read, none of one just created.
LastCondition(job) == IF job.live THEN job.status ELSE "None"

checkStatus ==
  /\ pc = "checkStatus"
  /\ LET result == reconcileKfJobStatus(inst.status, LastCondition(found), ListInstancePods(podCache))
     IN  IF result.write
         THEN WriteStatus(result.status, "done")
         ELSE Return /\ Keep(current) /\ UNCHANGED <<cluster, faults>>
  /\ UNCHANGED <<elsewhere, timer, plane>>
  /\ Within

Reconcile ==
  \/ Fetch \/ AddStartTime \/ AddLogsFinalizer \/ AddStatusFinalizer
  \/ handleFinalizersStop \/ collectLogs \/ removeFinalizer \/ handleTTL
  \/ reconcileTFJob \/ reconcilePytorchJob \/ reconcileMPIJob
  \/ updateKfJob \/ checkStatus \/ writeStatus \/ instanceSyncStatus

(***************************************************************************)
(* The watches.  Of the Kubeflow job only its creation and its deletion    *)
(* pass the predicates, and only if the kind is enabled.                   *)
(***************************************************************************)
WatchKfJob == WatchOp /\ Within

\* Bug: no event of the Kubeflow job passes.
WatchKubeflowJobUnheard ==
  /\ "ownedCache" \notin current
  /\ current' = current \cup {"ownedCache"}
  /\ UNCHANGED <<caches, queued, outside>> /\ Within

WatchKubeflowJob == Enabled /\ NotifyOwned /\ Within

mapKfPodToRequest == WatchPods /\ Within

Replay == Resync /\ Within

Requeue == RequeueAfter(expired) /\ Within

Expire == TTLPasses /\ Within

Restart == Crash /\ Within

(***************************************************************************)
(* The user and Kubeflow.                                                  *)
(***************************************************************************)
Ended == owned.live /\ isKfJobInTerminalState(owned)

StatusEventPasses == FALSE

PodMoves ==
  /\ Present /\ pods # <<>>
  /\ LET next(at) ==
           CASE at = "NotReady" -> {"Running"} \cup {"BadImage" : x \in {"badImage"} \cap Failures}
             [] at = "Running"  -> {"Succeeded"} \cup {"Failed" : x \in {"fail", "restart"} \cap Failures}
             [] OTHER -> {}
     IN  \E at \in next(pods[1]) :
           /\ pods' = <<at>>
           /\ ends' = ends \cup ({at} \cap {"BadImage"})
  /\ UNCHANGED <<owned, current, operator, removals, restarts>>

KubeflowStartsPod ==
  /\ Present /\ owned.live /\ owned.status = "Created" /\ pods = <<>>
  /\ pods' = <<"NotReady">>
  /\ UNCHANGED <<owned, current, operator, removals>> /\ Within

\* The job accounts for its pod, later than the pod changed.
KubeflowReports ==
  /\ Present /\ owned.live /\ ~Ended
  /\ LET at == IF pods = <<>> THEN "None" ELSE pods[1]
         next == IF owned.status = "None" THEN "Created"
                 ELSE IF at = "Failed" THEN "Failed"
                 ELSE IF at \in {"Running", "Succeeded"} THEN at
                 ELSE owned.status
     IN  /\ at = "Failed" => "fail" \in Failures
         /\ OwnedReports(next, StatusEventPasses)
         /\ ends' = ends \cup ({next} \cap {"Succeeded", "Failed"})
  /\ UNCHANGED restarts

\* Instead of failing, the job replaces the failed pod.
KubeflowRestarts ==
  /\ Present /\ owned.live /\ ~Ended
  /\ pods = <<"Failed">> /\ "restart" \in Failures
  /\ restarts < MaxRestarts /\ restarts' = restarts + 1
  /\ pods' = <<"NotReady">>
  /\ owned' = Live("Restarting") /\ current' = current \ {"found"}
  /\ UNCHANGED <<operator, removals, ends>>

\* GetTTL leaves at least five seconds, enough for the operator to come to rest.
Rested == Settled

KubeflowCleansUp ==
  /\ KfCleanup /\ Present /\ Ended /\ Rested
  /\ DropOwned /\ UNCHANGED removals /\ Within

KfJobDeleted == Present /\ OwnedDeleted /\ Within

Collected == OwnedCollected /\ Within

UserStops == UserDeletes /\ Within

World ==
  \/ UserStops \/ PodMoves \/ KubeflowStartsPod \/ KubeflowReports \/ KubeflowRestarts
  \/ KubeflowCleansUp \/ KfJobDeleted \/ Collected \/ Expire

Watch == WatchKfJob \/ WatchKubeflowJob \/ mapKfPodToRequest

Next == Reconcile \/ Watch \/ Replay \/ Requeue \/ Restart \/ World

Spec == Init /\ [][Next]_vars

(***************************************************************************)
(* Properties.                                                             *)
(***************************************************************************)
\* The kfjob controller keeps what OperationLifecycle promises.
Lifecycle == Abstract!LifecycleSpec

\* The control plane never hears of a final status that is not the one
\* recorded; an operation deleted before it finished is reported Stopped.
ReportedOutcome ==
  \A t \in reported :
     IF IsDone(op.status) THEN t \in op.status.has
     ELSE op.life # "live" /\ t = "Stopped"

\* One outcome is recorded, last and with its CompletionTime, although the job is
\* read live and the pods and the operation are not.  It is one that a Kubeflow
\* job of the operation really had, also when that job was removed since: a job
\* that restarts its pods has not failed, and without a failed call only a
\* removed job stops the operation.
OutcomeMatchesJob ==
  /\ IsDone(op.status) =>
       op.status.has \cap FinalTypes = {op.status.last.type} /\ op.status.completion
  /\ "Succeeded" \in op.status.has => "Succeeded" \in ends
  /\ "Failed" \in op.status.has => ends \cap {"Failed", "BadImage"} # {}
  /\ "Stopped" \in op.status.has /\ ~KfCleanup => removals + faults > 0

\* When the controller has nothing left to do, an unfinished operation has its
\* job: a deletion by somebody else is heard, whatever the age of the caches,
\* as long as the kind is watched or nobody deletes it.
DeletionIsHeard ==
  Rested /\ (Enabled \/ removals = 0) /\ op.life = "live" /\ ~IsDone(op.status) => owned.live
=============================================================================
