-------------------------- MODULE ServiceController --------------------------
(***************************************************************************)
(* The controller of Service operations (internal/controller/service): a   *)
(* Deployment (the owned resource of module Kube), the Kubernetes Service  *)
(* in front of it, an active deadline, the exit of the main container, and *)
(* culling of a service that an HTTP probe finds idle.                     *)
(*                                                                         *)
(* A pass looks at the Deployment, the base Service, the deadline, the     *)
(* main container and the probe in this order, each with reads and writes  *)
(* of its own, and any of them may end the operation.                      *)
(***************************************************************************)
EXTENDS Handlers

Misbehaviours == {"badImage", "exit", "crash"}

ASSUME ServiceSetups ==
  \A s \in Setups :
    /\ {s.ActiveDeadline, s.Culling} \subseteq BOOLEAN
    /\ s.BackoffLimit \in Int /\ s.Replicas \in Nat \ {0} /\ s.MaxRestarts \in Nat
    /\ s.Failures \subseteq Misbehaviours

\* ActiveDeadlineSeconds is set; Culling.Timeout and an HTTP probe are set; the
\* backoff limit of the termination, negative for none.
ActiveDeadline == setup.ActiveDeadline

Culling == setup.Culling

BackoffLimit == setup.BackoffLimit

Replicas == setup.Replicas

\* What the containers may do, and the bound of the restarts of one.
Failures == setup.Failures

MaxRestarts == setup.MaxRestarts

VARIABLES
  svc,       \* the base Service exists
  svcCache,
  svcHeard,  \* the watch of the base Service has no event left
  overdue,   \* the active deadline has passed
  idle,      \* the last activity is older than the culling timeout
  idled      \* it was so at some moment of the current pass

vars == <<kubeVars, svc, svcCache, svcHeard, overdue, idle, idled>>

Init ==
  /\ KubeInit
  /\ svc = FALSE /\ svcCache = FALSE /\ svcHeard = TRUE
  /\ overdue = FALSE /\ idle = FALSE /\ idled = FALSE

around == <<svc, svcCache, svcHeard, overdue, idle>>

\* A step of the pass that leaves the state of this module alone.
Within == UNCHANGED around /\ idled' = (idled /\ pc' # "idle")

(***************************************************************************)
(* The service package's copies of the shared handlers.                    *)
(***************************************************************************)
Fetch == FetchOp /\ UNCHANGED around /\ idled' = (idle /\ pc' # "idle")

AddStartTime == SetStartTime /\ Within

AddLogsFinalizer == SetLogsFinalizer /\ Within

AddStatusFinalizer == SetStatusFinalizer /\ Within

handleFinalizersStop == ReportStopped /\ Within

\* Bug: the logs finalizer goes although the collection failed.
collectLogsOnce ==
  /\ pc = "collect"
  /\ \/ collected' = ("logs" \in inst.fins) /\ UNCHANGED faults
     \/ CollectLogs /\ Fail /\ UNCHANGED collected
  /\ IF inst.fins = {} THEN AfterFinalizers
     ELSE Goto("removeFinalizer") /\ UNCHANGED inst
  /\ Keep(current)
  /\ UNCHANGED <<cluster, elsewhere, timer, reported, latest>> /\ Within

collectLogs == CollectHeld /\ Within

removeFinalizer == ReleaseFinalizer /\ Within

handleTTL == CleanUp /\ Within

writeStatus == StoreStatus /\ Within

instanceSyncStatus == ReportStatus /\ Within

(***************************************************************************)
(* reconcileService calls its parts in order, and each falls through to    *)
(* the next; they are written here from the last to the first.             *)
(*                                                                         *)
(* handleCulling, and the requeue that ends the pass.  A probe without an  *)
(* answer counts as activity.                                              *)
(***************************************************************************)
Serving == svc /\ \E i \in DOMAIN pods : pods[i].at = "Running"

checkHttpActivityFails == ~svcCache \/ ~Serving

\* The end of the pass: requeued at the deadline or at the next probe.
Finish(probing) ==
  /\ timer' = (timer \/ ActiveDeadline \/ probing) /\ Return
  /\ Keep(current) /\ UNCHANGED cluster

Cull ==
  /\ Goto("delete") /\ UNCHANGED <<inst, timer, current, cluster>>

\* Bug: a probe that fails culls the service.
handleCullingBlind ==
  /\ IF Culling /\ IsRunning(inst.status) /\ (idle \/ checkHttpActivityFails)
     THEN Cull ELSE Finish(Culling)
  /\ UNCHANGED faults

\* Bug: a service that was active is not probed again.
handleCullingOnce ==
  /\ IF Culling /\ IsRunning(inst.status) /\ ~checkHttpActivityFails /\ idle
     THEN Cull
     ELSE timer' = timer /\ Return /\ Keep(current) /\ UNCHANGED cluster
  /\ UNCHANGED faults

handleCulling ==
  \/ /\ ~(Culling /\ IsRunning(inst.status))
     /\ Finish(FALSE) /\ UNCHANGED faults
  \/ /\ Culling /\ IsRunning(inst.status)
     /\ \/ checkHttpActivityFails /\ UNCHANGED faults
        \/ Fail
     /\ Finish(TRUE)
  \/ /\ Culling /\ IsRunning(inst.status) /\ ~checkHttpActivityFails
     /\ IF idle THEN Cull ELSE Finish(TRUE)
     /\ UNCHANGED faults

\* The delete of an idle service and of one past its deadline.
delete ==
  /\ pc = "delete"
  /\ Delete(ActiveDeadline /\ ~IsDone(inst.status))
  /\ UNCHANGED <<elsewhere, plane>>
  /\ Within

(***************************************************************************)
(* handleServiceContainerExit.  A single replica that exits cleanly        *)
(* succeeds; more failed attempts than the backoff limit fail the service. *)
(***************************************************************************)
\* A pod of the Deployment is a record: where its main container is, the code
\* it exited with last, its restarts, and how many of its exits failed.
PodStages == {"NotReady", "BadImage", "Running", "Exited", "BackOff"}

NewPod == [at |-> "NotReady", code |-> NoCode, restarts |-> 0, fails |-> 0]

PodAt(pod) ==
  LET main(state, reason) ==
        container(state, reason, pod.code, IF state = "terminated" THEN NoCode ELSE pod.code,
                  pod.restarts)
  IN  CASE pod.at = "NotReady" -> podStatus("Pending", "notReady", main("waiting", "ContainerCreating"))
        [] pod.at = "BadImage" -> podStatus("Pending", "notReady", main("waiting", "InvalidImageName"))
        [] pod.at = "Running"  -> podStatus("Running", "ready", main("running", ""))
        [] pod.at = "Exited"   -> podStatus("Running", "notReady", main("terminated", "Error"))
        [] pod.at = "BackOff"  -> podStatus("Running", "notReady", main("waiting", "CrashLoopBackOff"))

ListInstancePods(list) == Orders([i \in DOMAIN list |-> PodAt(list[i])])

\* Bug: a container that uses up its attempts fails the service.
ExitEndsEarly(status, exit) ==
  IF exit.seen /\ Replicas = 1 /\ exit.code = 0
  THEN LogSucceeded(status)
  ELSE IF exit.seen /\ exit.code # 0 /\ exit.attempts >= BackoffLimit
  THEN LogFailed(status, "ContainerFailure")
  ELSE status

ExitEnds(status, exit) ==
  IF ~exit.seen
  THEN status
  ELSE IF Replicas = 1 /\ exit.code = 0
  THEN LogSucceeded(status)
  ELSE IF exit.code = 0 \/ BackoffLimit < 0 \/ exit.attempts <= BackoffLimit
  THEN status
  ELSE LogFailed(status, "ContainerFailure")

handleServiceContainerExit ==
  \E podList \in ListInstancePods(podCache) :
    LET new == ExitEnds(inst.status, GetMainContainerExitStatus(podList))
    IN  IF new # inst.status
        THEN WriteStatus(new, "requeue") /\ UNCHANGED timer
        ELSE handleCulling

(***************************************************************************)
(* handlePastActiveDeadline.  The operation is stopped, without a          *)
(* CompletionTime, reported and deleted.  A service that the Deployment    *)
(* has just ended is left alone.                                           *)
(***************************************************************************)
\* Bug: nothing comes back for the deadline.
handlePastActiveDeadlineOnce ==
  IF IsDone(inst.status) \/ ~overdue
  THEN Return /\ Keep(current) /\ UNCHANGED <<timer, cluster, faults>>
  ELSE WriteStatus(LogStopped(inst.status, "DeadlineExceeded"), "delete") /\ UNCHANGED timer

handlePastActiveDeadline ==
  IF IsDone(inst.status)
  THEN Return /\ Keep(current) /\ UNCHANGED <<timer, cluster, faults>>
  ELSE IF ActiveDeadline /\ overdue
  THEN WriteStatus(LogStopped(inst.status, "DeadlineExceeded"), "delete") /\ UNCHANGED timer
  ELSE handleServiceContainerExit

checkDeadline ==
  /\ pc = "deadline"
  /\ handlePastActiveDeadline
  /\ UNCHANGED <<elsewhere, plane>>
  /\ Within

(***************************************************************************)
(* reconcileBaseService, also for a service that the Deployment has just   *)
(* ended.  An unchanged base Service is not written.                       *)
(***************************************************************************)
createService ==
  /\ \/ /\ ~svc /\ svc' = TRUE /\ svcHeard' = FALSE
        /\ Goto("deadline") /\ UNCHANGED <<inst, faults>>
     \/ /\ ~svc /\ svc' = TRUE /\ svcHeard' = FALSE
        /\ CreateFailed("OperatorCreateService") /\ Fail
     \/ /\ \/ svc /\ UNCHANGED faults
           \/ Fail
        /\ CreateFailed("OperatorCreateService") /\ UNCHANGED <<svc, svcHeard>>
  /\ Keep(current) /\ UNCHANGED <<timer, cluster>>

reconcileBaseService ==
  \/ svcCache /\ handlePastActiveDeadline /\ UNCHANGED <<svc, svcHeard>>
  \/ ~svcCache /\ createService

checkService ==
  /\ pc = "service"
  /\ reconcileBaseService
  /\ idled' = (idled /\ pc' # "idle")
  /\ UNCHANGED <<svcCache, overdue, idle, elsewhere, plane>>

(***************************************************************************)
(* reconcileDeployment.  A missing Deployment is created, again if it was  *)
(* deleted.  An existing one is written back in every pass whose generated *)
(* pod template is not equal to the stored, defaulted one; either is taken *)
(* to be possible in any pass.                                             *)
(***************************************************************************)
NoDeploymentStatus == [last |-> "None", ok |-> FALSE, avail |-> FALSE, unavail |-> FALSE]

reconcileDeployment ==
  /\ pc = "runtime"
  /\ IF ownedCache.live
     THEN UpdateOwned("checkStatus")
     ELSE Create(NoDeploymentStatus, Log(LogStarting(inst.status), "checkStatus"),
                 "OperatorCreateDeployment")
  /\ UNCHANGED <<elsewhere, timer, plane>>
  /\ Within

IsDeploymentWarning(ds) ==
  \/ ds.last = "ReplicaFailure"
  \/ ds.last = "Available" /\ ~ds.ok
  \/ ds.last = "Progressing" /\ ds.unavail

IsDeploymentRunning(ds) ==
  \/ ds.last = "Progressing" /\ ds.avail
  \/ ds.last = "Available" /\ ds.ok

\* The status that reconcileDeploymentStatus leaves, and whether it asks for a
\* write.  A repeated warning or running status is written and reported again.
reconcileDeploymentStatus(status, ds, podList) ==
  LET verdict == HasUnschedulablePods(podList)
      logged(new) == [status |-> new, write |-> TRUE]
      same == [status |-> status, write |-> FALSE]
  IN  IF GetInvalidImageName(podList)
      THEN logged(LogFailed(status, "InvalidImageName"))
      ELSE IF verdict.type = "Warning"
      THEN IF IsUpdated(status, "Warning", verdict.why)
           THEN logged(LogWarning(status, verdict.why)) ELSE same
      ELSE IF ds.last = "None"
      THEN same
      ELSE IF IsDeploymentWarning(ds)
      THEN logged(LogWarning(status, "ReplicasUnavailable"))
      ELSE IF IsDeploymentRunning(ds)
      THEN logged(LogRunning(status))
      ELSE same

DeploymentStatus(resource) == IF resource.live THEN resource.status ELSE NoDeploymentStatus

checkStatus ==
  /\ pc = "checkStatus"
  /\ \E podList \in ListInstancePods(podCache) :
       LET result == reconcileDeploymentStatus(inst.status, DeploymentStatus(found), podList)
       IN  IF result.write
           THEN WriteStatus(result.status, "service") /\ UNCHANGED <<timer, svc, svcHeard>>
           ELSE reconcileBaseService
  /\ idled' = (idled /\ pc' # "idle")
  /\ UNCHANGED <<svcCache, overdue, idle, elsewhere, plane>>

Reconcile ==
  \/ Fetch \/ AddStartTime \/ AddLogsFinalizer \/ AddStatusFinalizer
  \/ handleFinalizersStop \/ collectLogs \/ removeFinalizer \/ handleTTL
  \/ reconcileDeployment \/ checkStatus \/ checkService \/ checkDeadline \/ delete
  \/ writeStatus \/ instanceSyncStatus

(***************************************************************************)
(* The watches: the operation, the Deployment, the base Service and the    *)
(* pods of a ReplicaSet of the Deployment.  No event is filtered.          *)
(***************************************************************************)
beside == UNCHANGED <<around, idled>>

WatchService == WatchOp /\ beside

WatchDeployment == WatchOwned /\ beside

\* Bug: the base Service is not watched.
WatchBaseServiceUnheard ==
  /\ ~svcHeard
  /\ svcCache' = svc /\ svcHeard' = TRUE
  /\ UNCHANGED <<kubeVars, svc, overdue, idle, idled>>

WatchBaseService ==
  /\ ~svcHeard
  /\ svcCache' = svc /\ svcHeard' = TRUE /\ queued' = TRUE
  /\ UNCHANGED <<cluster, elsewhere, current, timer, worker, plane, faults>>
  /\ UNCHANGED <<svc, overdue, idle, idled>>

\* Every pod here is one of the operation, so it carries the run label that the
\* predicate of the watch asks for, and belongs to the Deployment's ReplicaSet.
mapPodToRequest == WatchPods /\ beside

Replay == Resync /\ beside

Requeue ==
  /\ RequeueAfter(IF IsDone(op.status) THEN expired ELSE overdue \/ Culling)
  /\ beside

Expire == TTLPasses /\ beside

Restart ==
  /\ Crash
  /\ svcCache' = svc /\ svcHeard' = TRUE /\ idled' = FALSE
  /\ UNCHANGED <<svc, overdue, idle>>

(***************************************************************************)
(* The user, the clock and the cluster.  What becomes of the pods of an    *)
(* operation that is gone is left out, except that they are collected.     *)
(***************************************************************************)
DeadlinePasses ==
  /\ ActiveDeadline /\ op.status.start /\ ~overdue /\ Present
  /\ overdue' = TRUE
  /\ UNCHANGED <<kubeVars, svc, svcCache, svcHeard, idle, idled>>

\* Users come and go.
ActivityChanges ==
  /\ Culling /\ Present
  /\ idle' = ~idle
  /\ idled' = (idled \/ (~idle /\ pc # "idle"))
  /\ UNCHANGED <<kubeVars, svc, svcCache, svcHeard, overdue>>

KubeletMoves(pod) ==
  LET exits == {c \in {0, 1} : IF c = 0 THEN "exit" \in Failures ELSE "crash" \in Failures}
      run(p) == [p EXCEPT !.at = "Running", !.restarts = @ + 1]
  IN  CASE pod.at = "NotReady" -> {[pod EXCEPT !.at = "Running"]} \cup
             {[pod EXCEPT !.at = "BadImage"] : x \in {"badImage"} \cap Failures}
        [] pod.at = "BadImage" -> {}
        [] pod.at = "Running"  -> {[pod EXCEPT !.at = "Exited", !.code = c, !.fails = @ + c] : c \in exits}
        [] pod.at = "Exited"   -> IF pod.restarts < MaxRestarts
                                  THEN {run(pod), [pod EXCEPT !.at = "BackOff"]} ELSE {}
        [] pod.at = "BackOff"  -> {run(pod)}

PodMoves ==
  /\ Present
  /\ \E i \in DOMAIN pods : \E pod \in KubeletMoves(pods[i]) :
        pods' = [pods EXCEPT ![i] = pod]
  /\ UNCHANGED <<owned, current, operator, removals>> /\ beside

DeploymentStartsPod ==
  /\ Present /\ owned.live /\ Len(pods) < Replicas
  /\ pods' = Append(pods, NewPod)
  /\ UNCHANGED <<owned, current, operator, removals>> /\ beside

\* The Deployment counts its pods.  It reports Progressing first and Available
\* when the count changes.
DeploymentCounts ==
  LET running == {i \in DOMAIN pods : pods[i].at = "Running"}
      full    == Cardinality(running) = Replicas
      st(last) == [last |-> last, ok |-> full, avail |-> running # {}, unavail |-> ~full]
  IN  /\ Present /\ owned.live
      /\ IF owned.status.last = "None"
         THEN OwnedReports(st("Progressing"), TRUE)
         ELSE owned.status # st(owned.status.last) /\ OwnedReports(st("Available"), TRUE)
      /\ beside

DeploymentDeleted == Present /\ OwnedDeleted /\ beside

ServiceDeleted ==
  /\ Present /\ svc
  /\ removals < MaxRemovals /\ removals' = removals + 1
  /\ svc' = FALSE /\ svcHeard' = FALSE
  /\ UNCHANGED <<owned, pods, current, operator, svcCache, overdue, idle, idled>>

Collected ==
  \/ OwnedCollected /\ beside
  \/ /\ op.life = "gone" /\ svc
     /\ svc' = FALSE /\ svcHeard' = FALSE
     /\ UNCHANGED <<kubeVars, svcCache, overdue, idle, idled>>

UserStops == UserDeletes /\ beside

Watch == WatchService \/ WatchDeployment \/ WatchBaseService \/ mapPodToRequest

World ==
  \/ UserStops \/ DeadlinePasses \/ ActivityChanges \/ PodMoves \/ DeploymentStartsPod
  \/ DeploymentCounts \/ DeploymentDeleted \/ ServiceDeleted \/ Collected \/ Expire

Next == Reconcile \/ Watch \/ Replay \/ Requeue \/ Restart \/ World

Spec == Init /\ [][Next]_vars

(***************************************************************************)
(* Properties.                                                             *)
(***************************************************************************)
Rested == Settled /\ svcHeard

\* The service controller keeps what OperationLifecycle promises.
Lifecycle == Abstract!LifecycleSpec

\* The control plane never hears of a final status that is not the one
\* recorded; a service deleted before it finished is reported Stopped.
ReportedOutcome ==
  \A t \in reported \cap FinalTypes :
     IF IsDone(op.status) THEN t \in op.status.has
     ELSE op.life # "live" /\ t = "Stopped"

Exits(pod) == pod.restarts + (IF pod.at \in {"Exited", "BackOff"} THEN 1 ELSE 0)

\* The exit of the main container, the Deployment and the deadline are judged
\* in one pass from copies of different ages.  Whatever they say, one outcome is
\* recorded; it comes with a CompletionTime unless the deadline stopped the
\* service; only a base Service that cannot be created logs anything later; and,
\* as long as nothing was removed, it is what the pods and the clock really did.
OutcomeMatchesPods ==
  /\ \A s, t \in Outcomes(op.status) : s = t
  /\ IsDone(op.status) =>
       /\ op.status.completion \/ "Stopped" \in op.status.has
       /\ \/ op.status.last.type \in FinalTypes
          \/ op.status.last = NewOperationCondition("Warning", "OperatorCreateService")
  /\ removals = 0 /\ op.life # "gone" =>
       /\ "Succeeded" \in op.status.has =>
            Replicas = 1 /\ \E i \in DOMAIN pods : Exits(pods[i]) > pods[i].fails
       /\ "Failed" \in op.status.has =>
            \E i \in DOMAIN pods :
               \/ pods[i].at = "BadImage"
               \/ pods[i].fails > 0 /\ Exits(pods[i]) > BackoffLimit /\ BackoffLimit >= 0
       /\ "Stopped" \in op.status.has => overdue

\* No event is lost: when the queue is empty and the caches are current, an
\* unfinished service has its finalizers, its Deployment and its base Service,
\* nothing that happened to its pods is left to judge, and a timer runs for its
\* deadline or its next probe; a finished one waits for its TTL; and none is
\* stuck in deletion unless a call failed.
NoLostWakeup ==
  Rested =>
    /\ op.life = "live" /\ ~IsDone(op.status) =>
         /\ EnableLogsFinalizers => "logs" \in op.fins
         /\ EnableStatusFinalizers => "status" \in op.fins
         /\ owned.live /\ svc
         /\ \E podList \in ListInstancePods(pods) :
              /\ reconcileDeploymentStatus(op.status, owned.status, podList).status = op.status
              /\ ExitEnds(op.status, GetMainContainerExitStatus(podList)) = op.status
         /\ ActiveDeadline \/ (Culling /\ IsRunning(op.status)) => timer
    /\ op.life = "live" /\ IsDone(op.status) => timer
    /\ op.life = "deleting" => faults > 0

\* Without failures the control plane knows the current status whenever the
\* controller has nothing left to do, and a service that had a finalizer, a
\* culled one too, is gone only after the control plane has heard a final status.
ReportIsCurrent ==
  faults = 0 /\ crashes = 0 /\ SyncStatuses =>
    /\ Rested /\ op.life = "live" /\ op.status.has # {} => latest = op.status.last.type
    /\ op.life = "gone" /\ held # {} => reported # {}

\* An unfinished service is only culled by a pass during which it was idle, so
\* neither a failed probe nor an answer from an earlier pass removes an active
\* one.
CulledWhenIdle ==
  [][pc = "delete" /\ ~IsDone(inst.status) /\ op'.life # op.life => idled]_vars
=============================================================================
