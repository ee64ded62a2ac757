----------------------------- MODULE KfJobProofs -----------------------------
(***************************************************************************)
(* Theorems about KfJobController, for every setup and every number of     *)
(* failed calls, restarts and removals: it implements OperationLifecycle,  *)
(* and what it records and reports is what happened to the Kubeflow job.   *)
(***************************************************************************)
EXTENDS KfJobController, HandlersProofs

(***************************************************************************)
(* Every step is a move of the shared handlers.                            *)
(***************************************************************************)
\* The reasons that this controller logs.
LEMMA KfReasons ==
  {"OperatorCreateKfJob", "InvalidImageName", "KfJobFailed", "KfJobRestarting"} \subseteq Reasons
BY Zenon DEF Reasons

\* What reconcileKfJobStatus leaves of an unfinished operation.
LEMMA DecidedFacts ==
  ASSUME NEW status \in OperationStatusType, OneListed(status), ~IsDone(status),
         NEW last, NEW podList
  PROVE  LET result == reconcileKfJobStatus(status, last, podList)
         IN  /\ result.status \in OperationStatusType /\ OneListed(result.status)
             /\ \/ result.status = LogFailed(status, "InvalidImageName") /\ GetInvalidImageName(podList)
                \/ result.status = LogFailed(status, "KfJobFailed") /\ last = "Failed"
                \/ result.status = LogSucceeded(status) /\ last = "Succeeded"
                \/ result.status = LogRunning(status)
                \/ \E why \in Reasons : result.status = LogWarning(status, why)
                \/ result.status = status
<1> DEFINE result == reconcileKfJobStatus(status, last, podList)
           pod == HasUnschedulablePods(podList)
<1>1. pod.why \in Reasons
  BY VerdictReason
<1> HIDE DEF pod
<1>2. \/ result.status = LogFailed(status, "InvalidImageName") /\ GetInvalidImageName(podList)
      \/ result.status = LogFailed(status, "KfJobFailed") /\ last = "Failed"
      \/ result.status = LogSucceeded(status) /\ last = "Succeeded"
      \/ result.status = LogRunning(status)
      \/ result.status = LogWarning(status, pod.why)
      \/ result.status = LogWarning(status, "KfJobRestarting")
      \/ result.status = status
  BY DEF reconcileKfJobStatus, pod
<1> HIDE DEF result
<1>3. result.status \in OperationStatusType /\ OneListed(result.status)
  BY <1>1, <1>2, KfReasons, LoggerFacts
<1> QED
  BY <1>1, <1>2, <1>3, KfReasons DEF result

\* The Kubeflow job is read, created or found missing.
LEMMA ReconcileKfJobMoves == ASSUME SharedInv, NEW kind, reconcileKfJob(kind) PROVE Move
<1>1. /\ pc = "runtime" /\ pc \in Early
      /\ opCache' = opCache /\ reported' = reported /\ collected' = collected
  BY DEF reconcileKfJob, Early, elsewhere, caches, plane
<1>2. /\ inst.life = "live" /\ ~IsDone(inst.status)
      /\ inst.status \in OperationStatusType /\ OneListed(inst.status)
  BY <1>1 DEF SharedInv, SharedTypeOK, Statuses, Op, Phases, Early
<1>3. CASE /\ pc' \in {"update", "checkStatus"} /\ current' = current \cup {"found"}
           /\ UNCHANGED <<cluster, inst, then>>
  BY <1>1, <1>3, CheckMoves DEF cluster
<1>4. CASE WriteStatus(MarkJobAsDeleted(inst.status), "done")
  <2>1. "JobDeleted" \in Reasons /\ "done" \in Nexts /\ "done" \notin Early
    BY OperatorReasons DEF Nexts, Early
  <2>2. MarkJobAsDeleted(inst.status) \in OperationStatusType /\ OneListed(MarkJobAsDeleted(inst.status))
    BY <1>2, <2>1, LoggerFacts
  <2> QED
    BY <1>1, <1>2, <1>4, <2>1, <2>2, StatusMoves
<1>5. CASE Create("None", Log(LogStarting(inst.status), "checkStatus"), "OperatorCreateKfJob")
  BY <1>1, <1>5, KfReasons, CreateMoves
<1>6. CASE ReturnError /\ Keep(current) /\ UNCHANGED cluster
  BY <1>1, <1>6, QuietEndMoves DEF ReturnError, cluster, ReportMove, CollectMove
<1> QED
  BY <1>3, <1>4, <1>5, <1>6 DEF reconcileKfJob

\* The status of the Kubeflow job and of its pods is written or ends the pass.
LEMMA CheckStatusMoves == ASSUME SharedInv, checkStatus PROVE Move
<1> DEFINE result == reconcileKfJobStatus(inst.status, LastCondition(found), ListInstancePods(podCache))
<1>1. pc = "checkStatus" /\ opCache' = opCache /\ reported' = reported /\ collected' = collected
  BY DEF checkStatus, elsewhere, caches, plane
<1>2. /\ inst.life = "live" /\ ~IsDone(inst.status)
      /\ inst.status \in OperationStatusType /\ OneListed(inst.status)
  BY <1>1 DEF SharedInv, SharedTypeOK, Statuses, Op, Phases, Early
<1>3. result.status \in OperationStatusType /\ OneListed(result.status)
  BY <1>2, DecidedFacts
<1>4. WriteStatus(result.status, "done") \/ (Return /\ Keep(current) /\ UNCHANGED cluster)
  BY DEF checkStatus
<1> HIDE DEF result
<1>5. CASE WriteStatus(result.status, "done")
  <2>1. "done" \in Nexts /\ "done" \notin Early
    BY DEF Nexts, Early
  <2> QED
    BY <1>1, <1>2, <1>3, <1>5, <2>1, StatusMoves
<1>6. CASE Return /\ Keep(current) /\ UNCHANGED cluster
  BY <1>1, <1>6, QuietEndMoves DEF Return, cluster, ReportMove, CollectMove
<1> QED
  BY <1>4, <1>5, <1>6

\* The job is written back.
LEMMA UpdateKfJobMoves == ASSUME SharedInv, updateKfJob PROVE Move
<1>1. /\ pc \in Early /\ UpdateFound("checkStatus")
      /\ opCache' = opCache /\ reported' = reported /\ collected' = collected
  BY DEF updateKfJob, Early, elsewhere, caches, plane
<1> QED
  BY <1>1, UpdateMoves

\* The handlers that the kfjob package shares with the others.
LEMMA SharedMoves ==
  ASSUME SharedInv,
         \/ Fetch \/ AddStartTime \/ AddLogsFinalizer \/ AddStatusFinalizer
         \/ handleFinalizersStop \/ collectLogs \/ removeFinalizer \/ handleTTL
         \/ writeStatus \/ instanceSyncStatus
  PROVE  Move
<1>1. CASE AddLogsFinalizer \/ AddStatusFinalizer
  BY <1>1, FinalizerMoves DEF AddLogsFinalizer, AddStatusFinalizer, SetLogsFinalizer,
                              SetStatusFinalizer, Finalizers
<1> QED
  BY <1>1, FetchMoves, StartMoves, ReportStoppedMoves, CollectMoves, ReleaseMoves, CleanUpMoves,
     StoreMoves, ReportMoves
     DEF Fetch, AddStartTime, handleFinalizersStop, collectLogs, removeFinalizer, handleTTL,
         writeStatus, instanceSyncStatus

\* The steps of Kubeflow and of those who delete its job leave the operator alone.
LEMMA WorldMoves ==
  ASSUME SharedInv,
         \/ PodMoves \/ KubeflowStartsPod \/ KubeflowReports \/ KubeflowRestarts
         \/ KubeflowCleansUp \/ KfJobDeleted \/ Collected
  PROVE  Move
<1>1. UNCHANGED operator
  BY DEF PodMoves, KubeflowStartsPod, KubeflowReports, KubeflowRestarts, KubeflowCleansUp,
         KfJobDeleted, Collected, OwnedDeleted, OwnedCollected, DropOwned, OwnedReports, operator
<1>2. \A x \in current' : x \in current
  BY DEF PodMoves, KubeflowStartsPod, KubeflowReports, KubeflowRestarts, KubeflowCleansUp,
         KfJobDeleted, Collected, OwnedDeleted, OwnedCollected, DropOwned, OwnedReports
<1> QED
  BY <1>1, <1>2, ClusterMoves

\* Every step of the specification is a move.
LEMMA NextMoves == ASSUME SharedInv, [Next]_vars PROVE Move
<1>1. CASE Reconcile
  BY <1>1, SharedMoves, ReconcileKfJobMoves, UpdateKfJobMoves, CheckStatusMoves
     DEF Reconcile, reconcileTFJob, reconcilePytorchJob, reconcileMPIJob
<1>2. CASE Watch \/ Replay \/ Requeue \/ Restart \/ Expire
  BY <1>2, WatchMoves, RequeueMoves, CrashMoves
     DEF Watch, WatchKfJob, WatchKubeflowJob, mapKfPodToRequest, Replay, Requeue, Restart, Expire
<1>3. CASE World
  BY <1>2, <1>3, WorldMoves, UserDeletesMoves DEF World, UserStops
<1>4. CASE UNCHANGED vars
  BY <1>4, AsideMoves DEF vars, kubeVars, cluster, elsewhere, caches, worker, plane
<1> QED
  BY <1>1, <1>2, <1>3, <1>4 DEF Next

(***************************************************************************)
(* The controller implements OperationLifecycle.                           *)
(***************************************************************************)
\* SharedInv is inductive.
THEOREM SharedInvariance == Spec => []SharedInv
<1>1. Init => SharedInv
  BY InitShared DEF Init
<1>2. SharedInv /\ [Next]_vars => SharedInv'
  BY NextMoves, MoveKeeps
<1> QED
  BY <1>1, <1>2, PTL DEF Spec

\* Whatever fails, is lost or comes late, the kfjob controller records one outcome
\* and only of an operation nobody asked to delete, collects the logs before it
\* releases them, and lets nothing go that is still held.
THEOREM LifecycleHolds == Spec => Lifecycle
<1>1. Init => Abstract!LifecycleInit
  BY InitSimulates DEF Init
<1>2. SharedInv /\ [Next]_vars => LifecycleStep
  BY NextMoves, Simulates
<1> QED
  BY <1>1, <1>2, SharedInvariance, PTL DEF Spec, Lifecycle, Abstract!LifecycleSpec, LifecycleStep

\* The control plane never hears of an end that is not the recorded one.
THEOREM ReportedOutcomeHolds == Spec => []ReportedOutcome
<1>1. SharedInv => ReportedOutcome
  BY DEF SharedInv, HeardOutcome, ReportedOutcome
<1> QED
  BY <1>1, SharedInvariance, PTL

(***************************************************************************)
(* The recorded outcome is one that the Kubeflow job had.                  *)
(***************************************************************************)
PodLists == {<<>>} \cup {<<at>> : at \in PodStages}

CountsOK == faults \in Nat /\ removals \in Nat /\ pods \in PodLists /\ podCache \in PodLists

\* Without a failed call or a removal the job is there once it was created.
JobSeen == owned.live \/ removals + faults > 0 \/ KfCleanup \/ op.life = "gone"

\* A status ends with its outcome, and one that is running or has a warning is of
\* an operation whose job was created.
StatusOK(status) ==
  /\ IsDone(status) => Outcomes(status) = {status.last.type} /\ status.completion
  /\ status.last.type \in {"Running", "Warning"} => JobSeen

StatusesOK == StatusOK(op.status) /\ StatusOK(opCache.status) /\ StatusOK(inst.status)

\* What the controller can see of an end has happened.
Evidence ==
  /\ owned.live /\ isKfJobInTerminalState(owned) => owned.status \in ends
  /\ found.live /\ isKfJobInTerminalState(found) => found.status \in ends
  /\ pods = <<"BadImage">> \/ podCache = <<"BadImage">> => "BadImage" \in ends

Justified ==
  /\ "Succeeded" \in op.status.has => "Succeeded" \in ends
  /\ "Failed" \in op.status.has => ends \cap {"Failed", "BadImage"} # {}
  /\ "Stopped" \in op.status.has => removals + faults > 0 \/ KfCleanup

JobInv ==
  /\ SharedInv /\ CountsOK /\ StatusesOK /\ Evidence /\ Justified
  /\ Checking => JobSeen

\* What has been seen stays so.
History ==
  /\ setup' = setup /\ \A e \in ends : e \in ends'
  /\ faults' \in {faults, faults + 1} /\ removals' \in {removals, removals + 1}
  /\ JobSeen => JobSeen'

\* Failed calls and removals are never taken back.
LEMMA CountsGrow ==
  ASSUME JobInv, faults' \in {faults, faults + 1}, removals' \in {removals, removals + 1}
  PROVE  removals + faults > 0 => removals' + faults' > 0
<1>1. faults \in Nat /\ removals \in Nat
  BY DEF JobInv, CountsOK
<1>2. \A f, r \in Nat : r + f > 0 => r + 1 + f > 0 /\ r + (f + 1) > 0 /\ r + 1 + (f + 1) > 0
  OBVIOUS
<1> QED
  BY <1>1, <1>2

\* A step that leaves the job alone keeps what is known of it.
LEMMA QuietHistory ==
  ASSUME JobInv, Move, setup' = setup, owned' = owned, removals' = removals, ends' = ends,
         faults' \in {faults, faults + 1}
  PROVE  History
<1>1. op.life = "gone" => op'.life = "gone"
  BY OpMoves DEF JobInv, Move
<1>2. removals + faults > 0 => removals' + faults' > 0
  BY CountsGrow
<1>3. KfCleanup' = KfCleanup
  BY DEF KfCleanup
<1>4. JobSeen => JobSeen'
  BY <1>1, <1>2, <1>3 DEF JobSeen
<1> QED
  BY <1>4 DEF History

\* Statuses that are carried over stay justified.
LEMMA CarriedKeeps ==
  ASSUME JobInv, Move, History, Carried
  PROVE  StatusesOK' /\ Justified'
<1>1. \A s, t : Alike(s, t) => Outcomes(s) = Outcomes(t) /\ (IsDone(s) <=> IsDone(t))
  BY DEF Alike, Outcomes, IsDone
<1>2. \A s, t : (Alike(s, t) /\ StatusOK(t)) =>
         /\ IsDone(s) => Outcomes(s) = {s.last.type} /\ s.completion
         /\ s.last.type \in {"Running", "Warning"} => JobSeen'
  BY <1>1 DEF StatusOK, Alike, History
<1>3. StatusOK(op.status) /\ StatusOK(opCache.status) /\ StatusOK(inst.status) /\ StatusOK(NewStatus)
  <2>1. ~IsDone(NewStatus) /\ NewStatus.last.type = "None"
    BY DEF NewStatus, NoCondition, IsDone
  <2> QED
    BY <2>1 DEF JobInv, StatusesOK, StatusOK
<1>4. \A s : Alike(s, s)
  BY DEF Alike
<1>5. NewOp.status = NewStatus
  BY NewOpFacts
<1>6. StatusOK(op.status)'
  BY <1>2, <1>3 DEF Carried, StatusOK
<1>7. StatusOK(opCache.status)'
  BY <1>2, <1>3, <1>4 DEF Carried, StatusOK
<1>8. StatusOK(inst.status)'
  BY <1>2, <1>3, <1>4, <1>5, <1>6 DEF Carried, StatusOK
<1>9. Outcomes(op'.status) \subseteq Outcomes(op.status)
  <2>1. Outcomes(inst.status) \subseteq Outcomes(op.status)
    BY DoneOutcomes DEF JobInv, SharedInv, CopiesOlder, Older
  <2> QED
    BY <1>1, <2>1 DEF Carried
<1>10. \A t \in FinalTypes : t \in op'.status.has => t \in op.status.has
  BY <1>9 DEF Outcomes
<1>11. Justified'
  <2>1. removals + faults > 0 => removals' + faults' > 0
    BY CountsGrow DEF History
  <2>2. KfCleanup' = KfCleanup
    BY DEF KfCleanup, History
  <2>3. \A e \in ends : e \in ends'
    BY DEF History
  <2> QED
    BY <1>10, <2>1, <2>2, <2>3 DEF Justified, FinalTypes, JobInv
<1> QED
  BY <1>6, <1>7, <1>8, <1>11 DEF StatusesOK

\* The shared handlers keep the invariant.
LEMMA HandlersKeepJob ==
  ASSUME JobInv, Move, HandlerStep, Within
  PROVE  JobInv'
<1>1. History
  BY QuietHistory DEF HandlerStep, Within
<1>2. SharedInv' /\ StatusesOK' /\ Justified'
  BY <1>1, CarriedKeeps, MoveKeeps DEF HandlerStep, JobInv
<1>3. CountsOK'
  BY <1>1 DEF HandlerStep, JobInv, CountsOK
<1>4. Evidence'
  BY DEF HandlerStep, JobInv, Evidence, Within, Nothing, isKfJobInTerminalState
<1>5. Checking' => JobSeen'
  BY <1>1 DEF HandlerStep, JobInv, History
<1> QED
  BY <1>2, <1>3, <1>4, <1>5 DEF JobInv

\* An image name is invalid only in a pod that says so.
LEMMA InvalidImageListed ==
  ASSUME NEW list \in PodLists, GetInvalidImageName(ListInstancePods(list))
  PROVE  list = <<"BadImage">>
<1>1. PICK i \in DOMAIN list :
         \/ \E k \in DOMAIN PodAt(list[i]).inits : IsInvalidImage(PodAt(list[i]).inits[k])
         \/ \E k \in DOMAIN PodAt(list[i]).containers : IsInvalidImage(PodAt(list[i]).containers[k])
  BY DEF GetInvalidImageName, ListInstancePods
<1>2. PICK at \in PodStages : list = <<at>>
  BY <1>1 DEF PodLists
<1>3. i = 1 /\ list[i] = at
  BY <1>1, <1>2
<1>4. ASSUME NEW phase, NEW conds, NEW state, NEW reason, NEW code,
             PodAt(at) = podStatus(phase, conds, container(state, reason, code, NoCode, 0)),
             state # "waiting" \/ reason # "InvalidImageName"
      PROVE  FALSE
  <2>1. PodAt(at).inits = <<>> /\ PodAt(at).containers = container(state, reason, code, NoCode, 0)
    BY <1>4 DEF podStatus
  <2>2. /\ DOMAIN container(state, reason, code, NoCode, 0) = {1}
        /\ container(state, reason, code, NoCode, 0)[1].state = state
        /\ container(state, reason, code, NoCode, 0)[1].reason = reason
    <3>1. PICK none : container(state, reason, code, NoCode, 0) =
                        <<[name |-> "main", state |-> state, reason |-> reason, code |-> code,
                           lastCode |-> NoCode, lastReason |-> none, restarts |-> 0,
                           ready |-> state = "running"]>>
      BY Zenon DEF container
    <3> QED
      BY <3>1
  <2>3. \A k \in DOMAIN PodAt(at).containers : ~IsInvalidImage(PodAt(at).containers[k])
    BY <1>4, <2>1, <2>2 DEF IsInvalidImage
  <2> QED
    BY <1>1, <1>3, <2>1, <2>3
<1>5. CASE at = "NotReady"
  <2>1. PodAt(at) = podStatus("Pending", "notReady",
                              container("waiting", "ContainerCreating", NoCode, NoCode, 0))
    BY <1>5 DEF PodAt
  <2> QED
    BY <1>4, <2>1
<1>6. CASE at = "Running"
  <2>1. PICK none : PodAt(at) = podStatus("Running", "ready", container("running", none, NoCode, NoCode, 0))
    BY <1>6, Zenon DEF PodAt
  <2> QED
    BY <1>4, <2>1
<1>7. CASE at = "Succeeded"
  <2>1. PodAt(at) = podStatus("Succeeded", "ready", container("terminated", "Completed", 0, NoCode, 0))
    BY <1>7 DEF PodAt
  <2> QED
    BY <1>4, <2>1
<1>8. CASE at = "Failed"
  <2>1. PodAt(at) = podStatus("Failed", "notReady", container("terminated", "Error", 1, NoCode, 0))
    BY <1>8 DEF PodAt
  <2> QED
    BY <1>4, <2>1
<1> QED
  BY <1>2, <1>5, <1>6, <1>7, <1>8 DEF PodStages

\* A status that is new, that no copy contradicts and that the job justifies.
LEMMA WrittenKeeps ==
  ASSUME JobInv, Move, History, UNCHANGED <<opCache, owned, pods, podCache, removals, ends>>,
         NEW new \in OperationStatusType, NEW next, WriteStatus(new, next), next # "checkStatus",
         StatusOK(new),
         op.life # "gone" =>
           /\ "Succeeded" \in new.has => "Succeeded" \in ends
           /\ "Failed" \in new.has => ends \cap {"Failed", "BadImage"} # {}
           /\ "Stopped" \in new.has => removals + faults > 0 \/ KfCleanup
  PROVE  JobInv'
<1>1. /\ faults' \in {faults, faults + 1} /\ ~Checking'
      /\ op' = op \/ (op.life # "gone" /\ op'.status = new)
      /\ inst' \in {NewOp, op'} /\ found' \in {found, Nothing}
  BY StatusSteps DEF JobInv
<1>2. CountsOK'
  BY <1>1 DEF JobInv, CountsOK
<1>3. Evidence'
  BY <1>1 DEF JobInv, Evidence, Nothing, isKfJobInTerminalState
<1>4. SharedInv'
  BY MoveKeeps DEF JobInv
<1>5. (removals + faults > 0 => removals' + faults' > 0) /\ KfCleanup' = KfCleanup
  BY <1>1, CountsGrow DEF History, KfCleanup
<1>6. Justified'
  <2>1. CASE op' = op
    BY <1>5, <2>1 DEF Justified, JobInv
  <2>2. CASE op.life # "gone" /\ op'.status = new
    BY <1>5, <2>2 DEF Justified
  <2> QED
    BY <1>1, <2>1, <2>2
<1>7. \A s : StatusOK(s) => /\ IsDone(s) => Outcomes(s) = {s.last.type} /\ s.completion
                            /\ s.last.type \in {"Running", "Warning"} => JobSeen'
  BY DEF StatusOK, History
<1>8. StatusOK(op.status)' /\ StatusOK(opCache.status)'
  <2>1. StatusOK(op.status) /\ StatusOK(opCache.status)
    BY DEF JobInv, StatusesOK
  <2>2. op'.status = op.status \/ op'.status = new
    BY <1>1
  <2> QED
    BY <1>7, <2>1, <2>2 DEF StatusOK
<1>9. ~IsDone(NewOp.status) /\ NewOp.status.last.type = "None"
  <2>1. NewStatus.last.type = "None"
    BY DEF NewStatus, NoCondition
  <2> QED
    BY <2>1, NewOpFacts
<1>10. StatusOK(inst.status)'
  BY <1>1, <1>8, <1>9 DEF StatusOK
<1> QED
  BY <1>1, <1>2, <1>3, <1>4, <1>6, <1>8, <1>10 DEF JobInv, StatusesOK

\* checkStatus records what the job and its pods show.
LEMMA CheckStatusKeeps == ASSUME JobInv, checkStatus PROVE JobInv'
<1> DEFINE result == reconcileKfJobStatus(inst.status, LastCondition(found), ListInstancePods(podCache))
           new == result.status
<1>1. /\ pc = "checkStatus" /\ JobSeen /\ Within
      /\ UNCHANGED <<setup, opCache, ownedCache, podCache, removals, ends>>
  BY DEF checkStatus, elsewhere, caches, Within, JobInv, Checking
<1>2. Move
  BY CheckStatusMoves DEF JobInv
<1>3. /\ ~IsDone(inst.status) /\ inst.status \in OperationStatusType /\ OneListed(inst.status)
  BY <1>1 DEF JobInv, SharedInv, SharedTypeOK, Statuses, Op, Phases, Early
<1>4. /\ new \in OperationStatusType
      /\ \/ new = LogFailed(inst.status, "InvalidImageName") /\ GetInvalidImageName(ListInstancePods(podCache))
         \/ new = LogFailed(inst.status, "KfJobFailed") /\ LastCondition(found) = "Failed"
         \/ new = LogSucceeded(inst.status) /\ LastCondition(found) = "Succeeded"
         \/ new = LogRunning(inst.status)
         \/ \E why \in Reasons : new = LogWarning(inst.status, why)
         \/ new = inst.status
  BY <1>3, DecidedFacts
<1>5. \/ WriteStatus(new, "done")
      \/ Return /\ Keep(current) /\ UNCHANGED <<cluster, faults>>
  BY DEF checkStatus
<1> HIDE DEF result, new
<1>6. CASE Return /\ Keep(current) /\ UNCHANGED <<cluster, faults>>
  <2>1. HandlerStep
    BY <1>1, <1>6, ForgetSteps DEF Return, cluster, HandlerStep, Carried, Alike
  <2> QED
    BY <1>1, <1>2, <2>1, HandlersKeepJob
<1>7. CASE WriteStatus(new, "done")
  <2>1. UNCHANGED <<owned, pods>> /\ faults' \in {faults, faults + 1}
    BY <1>4, <1>7, StatusSteps DEF JobInv
  <2>2. History
    BY <1>1, <1>2, <2>1, QuietHistory
  <2>3. "InvalidImageName" \in Reasons /\ "KfJobFailed" \in Reasons
    BY KfReasons
  <2>4. ASSUME NEW why \in Reasons, new = LogFailed(inst.status, why), ends \cap {"Failed", "BadImage"} # {}
        PROVE  JobInv'
    <3>1. Outcomes(new) = {"Failed"} /\ new.last.type = "Failed" /\ new.completion
      BY <1>3, <2>4, LoggerFacts
    <3>2. StatusOK(new) /\ "Succeeded" \notin new.has /\ "Stopped" \notin new.has
      BY <3>1 DEF StatusOK, Outcomes, FinalTypes
    <3> QED
      BY <1>1, <1>2, <1>4, <1>7, <2>1, <2>2, <2>4, <3>2, WrittenKeeps
  <2>5. CASE new = LogSucceeded(inst.status) /\ "Succeeded" \in ends
    <3>1. Outcomes(new) = {"Succeeded"} /\ new.last.type = "Succeeded" /\ new.completion
      BY <1>3, <2>3, <2>5, LoggerFacts
    <3>2. StatusOK(new) /\ "Failed" \notin new.has /\ "Stopped" \notin new.has
      BY <3>1 DEF StatusOK, Outcomes, FinalTypes
    <3> QED
      BY <1>1, <1>2, <1>4, <1>7, <2>1, <2>2, <2>5, <3>2, WrittenKeeps
  <2>6. ASSUME Outcomes(new) = Outcomes(inst.status)
        PROVE  JobInv'
    <3>1. Outcomes(new) = {} /\ ~IsDone(new)
      BY <1>3, <2>6, DoneOutcomes
    <3>2. StatusOK(new) /\ {"Succeeded", "Failed", "Stopped"} \cap new.has = {}
      BY <1>1, <3>1 DEF StatusOK, Outcomes, FinalTypes
    <3> QED
      BY <1>1, <1>2, <1>4, <1>7, <2>1, <2>2, <3>2, WrittenKeeps
  <2>7. CASE GetInvalidImageName(ListInstancePods(podCache)) /\ new = LogFailed(inst.status, "InvalidImageName")
    <3>1. "BadImage" \in ends
      BY <2>7, InvalidImageListed DEF JobInv, CountsOK, Evidence
    <3> QED
      BY <2>3, <2>4, <2>7, <3>1
  <2>8. LastCondition(found) \in {"Failed", "Succeeded"} => LastCondition(found) \in ends
    BY DEF LastCondition, JobInv, Evidence, isKfJobInTerminalState
  <2>9. CASE new = LogRunning(inst.status) \/ \E why \in Reasons : new = LogWarning(inst.status, why)
    BY <1>3, <2>3, <2>6, <2>9, LoggerFacts
  <2> QED
    BY <1>4, <2>3, <2>4, <2>5, <2>6, <2>7, <2>8, <2>9
<1> QED
  BY <1>5, <1>6, <1>7

\* A pass that ends or goes on without storing anything and without a new status.
LEMMA QuietKeeps ==
  ASSUME JobInv, Move, Within,
         UNCHANGED <<setup, op, opCache, owned, ownedCache, pods, podCache, removals>>,
         faults' \in {faults, faults + 1}, inst' \in {inst, NewOp},
         found' \in {found, owned, Nothing}, Checking' => JobSeen
  PROVE  JobInv'
<1>1. History
  BY QuietHistory DEF Within
<1>2. Carried
  BY DEF Carried, Alike
<1>3. SharedInv' /\ StatusesOK' /\ Justified'
  BY <1>1, <1>2, CarriedKeeps, MoveKeeps DEF JobInv
<1>4. CountsOK'
  BY DEF JobInv, CountsOK
<1>5. Evidence'
  BY DEF JobInv, Evidence, Within, Nothing, isKfJobInTerminalState
<1>6. Checking' => JobSeen'
  BY <1>1 DEF History
<1> QED
  BY <1>3, <1>4, <1>5, <1>6 DEF JobInv

\* A condition of a job that is seen is logged on the copy.
LEMMA LoggedKeeps ==
  ASSUME JobInv, Move, Within, NEW new \in OperationStatusType, ~IsDone(new), NEW next, Log(new, next),
         UNCHANGED <<setup, op, opCache, pods, podCache, removals>>,
         faults' \in {faults, faults + 1}, owned' \in {owned, Live("None")}, JobSeen'
  PROVE  JobInv'
<1>1. inst'.status = new /\ found' = found /\ inst \in Op
  BY DEF Log, JobInv, SharedInv, SharedTypeOK, Op
<1>2. (removals + faults > 0 => removals' + faults' > 0) /\ KfCleanup' = KfCleanup
  BY CountsGrow DEF KfCleanup
<1>3. SharedInv' /\ CountsOK'
  BY MoveKeeps DEF JobInv, CountsOK
<1>4. StatusesOK'
  BY <1>1 DEF JobInv, StatusesOK, StatusOK
<1>5. Evidence'
  <2>1. ~isKfJobInTerminalState(Live("None"))
    BY DEF Live, isKfJobInTerminalState
  <2> QED
    BY <1>1, <2>1 DEF JobInv, Evidence, Within, isKfJobInTerminalState
<1>6. Justified'
  BY <1>2 DEF JobInv, Justified, Within
<1> QED
  BY <1>3, <1>4, <1>5, <1>6 DEF JobInv

\* The job is read, created or found missing.
LEMMA ReconcileKfJobKeeps == ASSUME JobInv, NEW kind, reconcileKfJob(kind) PROVE JobInv'
<1>1. /\ pc = "runtime" /\ Within
      /\ UNCHANGED <<setup, opCache, ownedCache, podCache, removals, ends>>
  BY DEF reconcileKfJob, elsewhere, caches, Within
<1>2. Move
  BY ReconcileKfJobMoves DEF JobInv
<1>3. /\ ~IsDone(inst.status) /\ inst.status \in OperationStatusType /\ OneListed(inst.status)
  BY <1>1 DEF JobInv, SharedInv, SharedTypeOK, Statuses, Op, Phases, Early
<1>4. CASE owned.live /\ found' = owned /\ UNCHANGED <<cluster, inst, faults>>
  BY <1>1, <1>2, <1>4, QuietKeeps DEF cluster, JobSeen
<1>5. CASE Fail /\ ReturnError /\ UNCHANGED cluster
  <2>1. UNCHANGED <<op, owned, pods>> /\ faults' = faults + 1 /\ Forget
    BY <1>5 DEF Fail, ReturnError, cluster
  <2> QED
    BY <1>1, <1>2, <2>1, ForgetSteps, QuietKeeps
<1>6. CASE /\ ~owned.live /\ ShouldMarkJobAsDeleted(inst.status)
           /\ WriteStatus(MarkJobAsDeleted(inst.status), "done")
  <2> DEFINE new == MarkJobAsDeleted(inst.status)
  <2>1. "JobDeleted" \in Reasons
    BY OperatorReasons
  <2>2. /\ new \in OperationStatusType /\ Outcomes(new) = {"Stopped"} /\ new.last.type = "Stopped"
        /\ new.completion
    BY <1>3, <2>1, LoggerFacts
  <2> HIDE DEF new
  <2>3. StatusOK(new) /\ "Succeeded" \notin new.has /\ "Failed" \notin new.has
    BY <2>2 DEF StatusOK, Outcomes, FinalTypes
  <2>4. JobSeen
    BY <1>6 DEF ShouldMarkJobAsDeleted, JobInv, StatusesOK, StatusOK
  <2>5. op.life # "gone" => removals + faults > 0 \/ KfCleanup
    BY <1>6, <2>4 DEF JobSeen
  <2>6. WriteStatus(new, "done")
    BY <1>6 DEF new
  <2>7. UNCHANGED <<owned, pods>> /\ faults' \in {faults, faults + 1}
    BY <2>2, <2>6, StatusSteps DEF JobInv
  <2>8. History
    BY <1>1, <1>2, <2>7, QuietHistory
  <2> QED
    BY <1>1, <1>2, <2>2, <2>3, <2>5, <2>6, <2>7, <2>8, WrittenKeeps
<1>7. CASE /\ ~owned.live
           /\ Create("None", Log(LogStarting(inst.status), "checkStatus"), "OperatorCreateKfJob")
  <2>1. UNCHANGED <<op, pods>> /\ owned' \in {owned, Live("None")} /\ faults' \in {faults, faults + 1}
    BY <1>7 DEF Create, Fail
  <2>2. \/ owned' = Live("None") /\ Log(LogStarting(inst.status), "checkStatus")
        \/ faults' = faults + 1 /\ CreateFailed("OperatorCreateKfJob")
    BY <1>7 DEF Create, Fail
  <2>3. JobSeen'
    <3>1. faults \in Nat /\ removals \in Nat
      BY DEF JobInv, CountsOK
    <3>2. faults' = faults + 1 => removals' + faults' > 0
      BY <1>1, <3>1
    <3> QED
      BY <2>2, <3>2 DEF JobSeen, Live
  <2>4. "OperatorCreateKfJob" \in Reasons
    BY KfReasons
  <2>5. \A new \in {LogStarting(inst.status), LogWarning(inst.status, "OperatorCreateKfJob")} :
           new \in OperationStatusType /\ ~IsDone(new)
    BY <1>3, <2>4, LoggerFacts, DoneOutcomes
  <2>6. CASE Log(LogStarting(inst.status), "checkStatus")
    BY <1>1, <1>2, <2>1, <2>3, <2>5, <2>6, LoggedKeeps
  <2>7. CASE Log(LogWarning(inst.status, "OperatorCreateKfJob"), "error")
    BY <1>1, <1>2, <2>1, <2>3, <2>5, <2>7, LoggedKeeps
  <2>8. CASE Forget /\ faults' = faults + 1
    <3>1. inst' = NewOp /\ found' = Nothing /\ ~Checking'
      BY <2>8, ForgetSteps
    <3>2. History
      <4>1. JobSeen => JobSeen'
        BY <2>3
      <4> QED
        BY <1>1, <2>1, <4>1 DEF History
    <3>3. StatusesOK' /\ Justified'
      <4>1. Carried
        BY <1>1, <2>1, <3>1 DEF Carried, Alike
      <4> QED
        BY <1>2, <3>2, <4>1, CarriedKeeps
    <3>4. SharedInv' /\ CountsOK'
      BY <1>1, <1>2, <2>1, MoveKeeps DEF JobInv, CountsOK
    <3>5. Evidence'
      <4>1. ~isKfJobInTerminalState(Live("None"))
        BY DEF Live, isKfJobInTerminalState
      <4> QED
        BY <1>1, <2>1, <3>1, <4>1 DEF JobInv, Evidence, Nothing, isKfJobInTerminalState
    <3> QED
      BY <3>1, <3>3, <3>4, <3>5 DEF JobInv
  <2> QED
    BY <2>2, <2>6, <2>7, <2>8 DEF CreateFailed, ReturnError
<1> QED
  BY <1>4, <1>5, <1>6, <1>7 DEF reconcileKfJob

\* The job is written back.
LEMMA UpdateKfJobKeeps == ASSUME JobInv, updateKfJob PROVE JobInv'
<1>1. /\ pc = "update" /\ JobSeen /\ Within
      /\ UNCHANGED <<setup, op, opCache, owned, ownedCache, pods, podCache, removals>>
  BY DEF updateKfJob, UpdateFound, cluster, elsewhere, caches, JobInv, Checking
<1>2. Move
  BY UpdateKfJobMoves DEF JobInv
<1>3. faults' \in {faults, faults + 1} /\ inst' \in {inst, NewOp} /\ found' \in {found, Nothing}
  BY DEF updateKfJob, UpdateFound, Goto, ReturnError, Forget, Fail
<1> QED
  BY <1>1, <1>2, <1>3, QuietKeeps

\* The watches and the timers.
LEMMA WatchKeeps ==
  ASSUME JobInv,
         WatchKfJob \/ WatchKubeflowJob \/ mapKfPodToRequest \/ Replay \/ Requeue \/ Expire \/ Restart
  PROVE  JobInv'
<1>1. /\ UNCHANGED <<setup, op, owned, pods, faults, removals>> /\ Within
      /\ opCache' \in {opCache, op} /\ podCache' \in {podCache, pods}
  BY DEF WatchKfJob, WatchKubeflowJob, mapKfPodToRequest, Replay, Requeue, Expire, Restart,
         WatchOp, NotifyOwned, WatchPods, Resync, RequeueAfter, TTLPasses, Crash, outside,
         elsewhere, caches, cluster
<1>2. inst' \in {inst, NewOp} /\ found' \in {found, Nothing} /\ (Checking' => Checking)
  BY DEF WatchKfJob, WatchKubeflowJob, mapKfPodToRequest, Replay, Requeue, Expire, Restart,
         WatchOp, NotifyOwned, WatchPods, Resync, RequeueAfter, TTLPasses, Crash, outside,
         worker, Forget, Checking
<1>3. Move
  BY WatchMoves, RequeueMoves, CrashMoves
     DEF JobInv, WatchKfJob, WatchKubeflowJob, mapKfPodToRequest, Replay, Requeue, Expire, Restart
<1>4. History
  BY <1>1, <1>3, QuietHistory DEF Within
<1>5. Carried
  BY <1>1, <1>2 DEF Carried, Alike
<1>6. SharedInv' /\ StatusesOK' /\ Justified'
  BY <1>3, <1>4, <1>5, CarriedKeeps, MoveKeeps DEF JobInv
<1>7. CountsOK' /\ Evidence'
  BY <1>1, <1>2 DEF JobInv, CountsOK, Evidence, Within, Nothing, isKfJobInTerminalState
<1> QED
  BY <1>2, <1>4, <1>6, <1>7 DEF JobInv, History

\* What happens to the job and its pods.  The steps of the world keep the copies of
\* the operation; those that end the job note how.
LEMMA WorldKeeps ==
  ASSUME JobInv, Move, History, UNCHANGED <<opCache, inst, found, pc, then, podCache>>,
         Alike(op'.status, op.status), pods' \in PodLists,
         owned'.live /\ isKfJobInTerminalState(owned') => owned'.status \in ends',
         pods' = <<"BadImage">> => "BadImage" \in ends'
  PROVE  JobInv'
<1>1. Carried
  BY DEF Carried
<1>2. SharedInv' /\ StatusesOK' /\ Justified'
  BY <1>1, CarriedKeeps, MoveKeeps DEF JobInv
<1>3. CountsOK' /\ Evidence'
  BY DEF JobInv, CountsOK, Evidence, History, isKfJobInTerminalState
<1>4. Checking' => JobSeen'
  BY DEF JobInv, History, Checking
<1> QED
  BY <1>2, <1>3, <1>4 DEF JobInv

\* The user deletes the operation.
LEMMA UserStopsKeeps == ASSUME JobInv, UserStops PROVE JobInv'
<1>1. /\ UNCHANGED <<setup, opCache, inst, found, pc, then, podCache, owned, pods, faults, removals>>
      /\ Within /\ DeleteOp
  BY DEF UserStops, UserDeletes, DeleteOp, Put, elsewhere, caches, worker
<1>2. Move
  BY UserDeletesMoves DEF JobInv, UserStops
<1>3. History
  BY <1>1, <1>2, QuietHistory DEF Within
<1>4. op'.status = op.status
  <2> DEFINE new == [op EXCEPT !.life = "deleting"]
  <2>1. new \in Op /\ new.status = op.status /\ Put(new)
    BY <1>1 DEF DeleteOp, JobInv, SharedInv, SharedTypeOK, Op
  <2> HIDE DEF new
  <2> QED
    BY <2>1, PutStores
<1> QED
  BY <1>1, <1>2, <1>3, <1>4, WorldKeeps DEF Alike, JobInv, CountsOK, Evidence, Within

\* Kubeflow and the kubelet.
LEMMA KubeflowKeeps ==
  ASSUME JobInv, PodMoves \/ KubeflowStartsPod \/ KubeflowReports \/ KubeflowRestarts
  PROVE  JobInv'
<1>1. UNCHANGED <<operator, removals>>
  BY DEF PodMoves, KubeflowStartsPod, KubeflowReports, KubeflowRestarts, OwnedReports, operator
<1>2. UNCHANGED <<setup, op, opCache, inst, found, pc, then, podCache, faults, removals>>
  BY <1>1 DEF operator, caches, worker
<1>3. Move
  BY WorldMoves DEF JobInv
<1>4. (JobSeen => JobSeen') /\ \A e \in ends : e \in ends'
  <2>1. owned.live => owned'.live
    BY DEF PodMoves, KubeflowStartsPod, KubeflowReports, KubeflowRestarts, OwnedReports, Live
  <2>2. \A e \in ends : e \in ends'
    BY DEF PodMoves, KubeflowStartsPod, KubeflowReports, KubeflowRestarts, Within
  <2> QED
    BY <1>2, <2>1, <2>2 DEF JobSeen, KfCleanup
<1>5. History
  BY <1>2, <1>4 DEF History
<1>6. Alike(op'.status, op.status)
  BY <1>2 DEF Alike
<1>7. CASE PodMoves
  <2>1. PICK at : pods' = <<at>> /\ ends' = ends \cup ({at} \cap {"BadImage"})
                  /\ at \in {"Running", "BadImage", "Succeeded", "Failed"}
    BY <1>7 DEF PodMoves
  <2>2. pods' \in PodLists /\ (pods' = <<"BadImage">> => "BadImage" \in ends')
    BY <2>1 DEF PodLists, PodStages
  <2>3. owned' = owned
    BY <1>7 DEF PodMoves
  <2> QED
    BY <1>2, <1>3, <1>4, <1>5, <1>6, <2>2, <2>3, WorldKeeps DEF JobInv, Evidence
<1>8. CASE KubeflowStartsPod
  <2>1. pods' = <<"NotReady">> /\ owned' = owned
    BY <1>8 DEF KubeflowStartsPod
  <2>2. pods' \in PodLists /\ pods' # <<"BadImage">>
    BY <2>1 DEF PodLists, PodStages
  <2> QED
    BY <1>2, <1>3, <1>4, <1>5, <1>6, <2>1, <2>2, WorldKeeps DEF JobInv, Evidence
<1>9. CASE KubeflowReports
  <2>1. PICK next : owned' = Live(next) /\ ends' = ends \cup ({next} \cap {"Succeeded", "Failed"})
                    /\ pods' = pods
    BY <1>9 DEF KubeflowReports, OwnedReports
  <2>2. isKfJobInTerminalState(owned') => owned'.status \in ends'
    BY <2>1 DEF Live, isKfJobInTerminalState
  <2> QED
    BY <1>2, <1>3, <1>4, <1>5, <1>6, <2>1, <2>2, WorldKeeps DEF JobInv, Evidence, CountsOK
<1>10. CASE KubeflowRestarts
  <2>1. pods' = <<"NotReady">> /\ owned' = Live("Restarting")
    BY <1>10 DEF KubeflowRestarts
  <2>2. pods' \in PodLists /\ pods' # <<"BadImage">> /\ ~isKfJobInTerminalState(owned')
    BY <2>1 DEF PodLists, PodStages, Live, isKfJobInTerminalState
  <2> QED
    BY <1>2, <1>3, <1>4, <1>5, <1>6, <2>2, WorldKeeps
<1> QED
  BY <1>7, <1>8, <1>9, <1>10

\* The job is removed.
LEMMA RemovalKeeps ==
  ASSUME JobInv, KubeflowCleansUp \/ KfJobDeleted \/ Collected
  PROVE  JobInv'
<1>1. DropOwned /\ Within
  BY DEF KubeflowCleansUp, KfJobDeleted, Collected, OwnedDeleted, OwnedCollected
<1>2. /\ UNCHANGED <<setup, op, opCache, inst, found, pc, then, podCache, faults>>
      /\ owned' = Nothing /\ pods' = <<>> /\ ends' = ends
  BY <1>1 DEF DropOwned, operator, caches, worker, Within
<1>3. Move
  BY WorldMoves DEF JobInv
<1>4. \/ removals' = removals /\ (KfCleanup \/ op.life = "gone")
      \/ removals' = removals + 1
  BY DEF KubeflowCleansUp, KfJobDeleted, Collected, OwnedDeleted, OwnedCollected
<1>5. JobSeen'
  <2>1. faults \in Nat /\ removals \in Nat
    BY DEF JobInv, CountsOK
  <2>2. removals' = removals + 1 => removals' + faults' > 0
    BY <1>2, <2>1
  <2> QED
    BY <1>2, <1>4, <2>2 DEF JobSeen, KfCleanup
<1>6. History
  BY <1>2, <1>4, <1>5 DEF History
<1>7. pods' \in PodLists /\ pods' # <<"BadImage">> /\ ~owned'.live /\ Alike(op'.status, op.status)
  BY <1>2 DEF PodLists, Nothing, Alike
<1> QED
  BY <1>2, <1>3, <1>6, <1>7, WorldKeeps

\* Every step keeps the invariant.
LEMMA NextJobInv == JobInv /\ [Next]_vars => JobInv'
<1> SUFFICES ASSUME JobInv, [Next]_vars PROVE JobInv'
  OBVIOUS
<1>1. SharedInv /\ Move
  BY NextMoves DEF JobInv
<1>2. CASE \/ Fetch \/ AddStartTime \/ AddLogsFinalizer \/ AddStatusFinalizer
           \/ handleFinalizersStop \/ collectLogs \/ removeFinalizer \/ handleTTL
           \/ writeStatus \/ instanceSyncStatus
  <2>1. HandlerStep /\ Within
    BY <1>1, <1>2, WritersCarry, ReadersCarry
       DEF Fetch, AddStartTime, AddLogsFinalizer, AddStatusFinalizer, handleFinalizersStop,
           collectLogs, removeFinalizer, handleTTL, writeStatus, instanceSyncStatus
  <2> QED
    BY <1>1, <2>1, HandlersKeepJob
<1>3. CASE Reconcile
  BY <1>2, <1>3, ReconcileKfJobKeeps, UpdateKfJobKeeps, CheckStatusKeeps
     DEF Reconcile, reconcileTFJob, reconcilePytorchJob, reconcileMPIJob
<1>4. CASE Watch \/ Replay \/ Requeue \/ Restart \/ Expire
  BY <1>4, WatchKeeps DEF Watch
<1>5. CASE World
  BY <1>4, <1>5, UserStopsKeeps, KubeflowKeeps, RemovalKeeps DEF World
<1>6. CASE UNCHANGED vars
  <2>1. Within /\ HandlerStep
    BY <1>6 DEF vars, kubeVars, cluster, elsewhere, caches, worker, Within, HandlerStep,
                Carried, Alike, Checking
  <2> QED
    BY <1>1, <2>1, HandlersKeepJob
<1> QED
  BY <1>3, <1>4, <1>5, <1>6 DEF Next

\* The invariant holds at the start.
LEMMA InitJobInv == Init => JobInv
<1> SUFFICES ASSUME Init PROVE JobInv
  OBVIOUS
<1>1. /\ SharedInv /\ op = NewOp /\ opCache = NewOp /\ inst = NewOp /\ owned = Nothing
      /\ found = Nothing /\ pods = <<>> /\ podCache = <<>> /\ faults = 0 /\ removals = 0 /\ pc = "idle"
  BY InitShared DEF Init, KubeInit
<1>2. NewStatus.last.type = "None"
  BY DEF NewStatus, NoCondition
<1>3. ~IsDone(NewOp.status) /\ NewOp.status.last.type = "None"
  BY <1>2, NewOpFacts
<1>4. StatusesOK /\ Evidence /\ CountsOK /\ ~Checking
  BY <1>1, <1>3 DEF StatusesOK, StatusOK, Evidence, Nothing, CountsOK, PodLists, Checking
<1>5. Justified
  BY <1>1, <1>3 DEF Justified, IsDone, FinalTypes
<1> QED
  BY <1>1, <1>4, <1>5 DEF JobInv

\* JobInv is inductive.
THEOREM JobInvariance == Spec => []JobInv
BY InitJobInv, NextJobInv, PTL DEF Spec

\* A recorded outcome is the last condition, has its CompletionTime and is one a
\* Kubeflow job of the operation really had; without a failed call only a removed
\* job stops the operation.
THEOREM OutcomeMatchesJobHolds == Spec => []OutcomeMatchesJob
<1>1. JobInv => OutcomeMatchesJob
  BY DEF JobInv, StatusesOK, StatusOK, Justified, OutcomeMatchesJob, Outcomes
<1> QED
  BY <1>1, JobInvariance, PTL

(***************************************************************************)
(* No deletion of the Kubeflow job is missed.                              *)
(***************************************************************************)
Unfinished == op.life = "live" /\ ~IsDone(op.status)

\* The pass under way will read the Kubeflow job or ends with an error.
Approaching ==
  \/ pc \in {"addStart", "addLogs", "addStatus", "runtime"}
  \/ pc \in {"write", "sync"} /\ then = "error"

\* An unfinished operation without a job is on its way to a pass that sees it.
Awaited ==
  Unfinished /\ ~owned.live =>
     queued \/ "ownedCache" \notin current \/ Approaching

\* The copies of an unfinished operation are unfinished, and it was so before.
LEMMA UnfinishedCopies ==
  ASSUME SharedInv, Unfinished
  PROVE  /\ inst.life = "live" /\ ~IsDone(inst.status)
         /\ opCache.life = "live" /\ ~IsDone(opCache.status)
BY DoneOutcomes DEF SharedInv, CopiesOlder, Older, Unfinished

\* An operation that is unfinished after a step was so before it.
LEMMA UnfinishedBefore == ASSUME SharedInv, Move, Unfinished' PROVE Unfinished
BY OpMoves, DoneOutcomes DEF Move, Unfinished

\* A step that keeps the queue and hears nothing.
LEMMA StillAwaited ==
  ASSUME SharedInv, Awaited, Unfinished, ~owned.live, ~Approaching \/ Approaching',
         queued => queued', "ownedCache" \in current' => "ownedCache" \in current
  PROVE  queued' \/ "ownedCache" \notin current' \/ Approaching'
BY DEF Awaited

\* A write is refused, and tried again, or accepted.
LEMMA WriteQueues ==
  ASSUME NEW new, NEW ACTION After, Write(new, After)
  PROVE  \/ queued' = TRUE
         \/ After /\ Put(new) /\ Keep(Unchanged \cup {"inst"})
BY DEF Write, ReturnError

\* The shared handlers.
LEMMA HandlersAwaited ==
  ASSUME SharedInv, Awaited, Move, Unfinished', ~owned'.live,
         \/ Fetch \/ AddStartTime \/ AddLogsFinalizer \/ AddStatusFinalizer
         \/ handleFinalizersStop \/ collectLogs \/ removeFinalizer \/ handleTTL
         \/ writeStatus \/ instanceSyncStatus
  PROVE  queued' \/ "ownedCache" \notin current' \/ Approaching'
<1>1. Unfinished
  BY UnfinishedBefore
<1>2. /\ inst.life = "live" /\ ~IsDone(inst.status) /\ opCache.life = "live"
      /\ ~IsDone(opCache.status) /\ inst \in Op /\ opCache \in Op
  BY <1>1, UnfinishedCopies DEF SharedInv, SharedTypeOK
<1>3. ~owned.live
  <2>1. HandlerStep
    BY WritersCarry, ReadersCarry
       DEF Fetch, AddStartTime, AddLogsFinalizer, AddStatusFinalizer, handleFinalizersStop,
           collectLogs, removeFinalizer, handleTTL, writeStatus, instanceSyncStatus
  <2> QED
    BY <2>1 DEF HandlerStep
<1>4. ASSUME NEW copy \in Op, copy.life = "live", ~IsDone(copy.status), pc' = Dispatch(copy)
      PROVE  Approaching'
  BY <1>4, DispatchFacts DEF Approaching
<1>5. CASE Fetch
  <2>1. pc' = IF opCache.status.start THEN Dispatch(opCache) ELSE "addStart"
    BY <1>2, <1>5 DEF Fetch, FetchOp
  <2> QED
    BY <1>2, <1>4, <2>1 DEF Approaching
<1>6. CASE AddStartTime
  <2> DEFINE new == [inst EXCEPT !.status.start = TRUE]
  <2>1. new \in Op /\ new.life = inst.life /\ new.status.has = inst.status.has
    BY <1>2 DEF Op, OperationStatusType
  <2>2. Write(new, inst' = op' /\ Goto(Dispatch(new)))
    BY <1>6 DEF AddStartTime, SetStartTime
  <2> HIDE DEF new
  <2>3. queued' \/ pc' = Dispatch(new)
    BY <2>2, WriteQueues DEF Goto
  <2>4. ~IsDone(new.status)
    BY <1>2, <2>1 DEF IsDone
  <2> QED
    BY <1>2, <1>4, <2>1, <2>3, <2>4
<1>7. ASSUME NEW label, NEW finalizer \in Finalizers, SetFinalizer(label, finalizer)
      PROVE  queued' \/ Approaching'
  <2> DEFINE new == [inst EXCEPT !.fins = @ \cup {finalizer}]
  <2>1. new \in Op /\ new.life = inst.life /\ new.status = inst.status
    BY <1>2 DEF Op
  <2>2. Write(new, inst' = op' /\ Goto(Dispatch(new)))
    BY <1>7 DEF SetFinalizer
  <2> HIDE DEF new
  <2>3. queued' \/ pc' = Dispatch(new)
    BY <2>2, WriteQueues DEF Goto
  <2> QED
    BY <1>2, <1>4, <2>1, <2>3
<1>8. CASE AddLogsFinalizer \/ AddStatusFinalizer
  BY <1>7, <1>8 DEF AddLogsFinalizer, AddStatusFinalizer, SetLogsFinalizer, SetStatusFinalizer,
                    Finalizers
<1>9. CASE handleFinalizersStop \/ collectLogs \/ removeFinalizer \/ handleTTL
  <2>1. pc \in Ending
    BY <1>9 DEF handleFinalizersStop, collectLogs, removeFinalizer, handleTTL, ReportStopped,
                CollectHeld, ReleaseFinalizer, CleanUp, Ending
  <2> QED
    BY <1>2, <2>1 DEF SharedInv, Phases
<1>10. CASE writeStatus
  <2>1. Write(inst, inst' = op' /\ Goto("sync")) /\ pc = "write"
    BY <1>10 DEF writeStatus, StoreStatus
  <2>2. CASE Goto("sync") /\ Keep(Unchanged \cup {"inst"})
    <3>1. "ownedCache" \in current' => "ownedCache" \in current
      BY <2>2, KeepFacts DEF Unchanged
    <3>2. queued' = queued /\ (~Approaching \/ Approaching')
      BY <2>1, <2>2 DEF Goto, Approaching
    <3> QED
      BY <1>1, <1>3, <3>1, <3>2, StillAwaited
  <2> QED
    BY <2>1, <2>2, WriteQueues
<1>11. CASE instanceSyncStatus
  <2>1. pc = "sync" /\ Keep(current)
    BY <1>11 DEF instanceSyncStatus, ReportStatus
  <2>2. queued' = TRUE \/ (queued' = queued /\ then \notin {"error", "requeue"})
    BY <1>11 DEF instanceSyncStatus, ReportStatus, Return, ReturnError, Goto
  <2>3. "ownedCache" \in current' => "ownedCache" \in current
    BY <2>1, KeepFacts
  <2>4. then \notin {"error", "requeue"} => ~Approaching
    BY <2>1 DEF Approaching
  <2> QED
    BY <1>1, <1>3, <2>2, <2>3, <2>4, StillAwaited
<1> QED
  BY <1>5, <1>6, <1>8, <1>9, <1>10, <1>11

\* The pass that reads the job hears of it.
LEMMA RuntimeAwaited ==
  ASSUME SharedInv, Awaited, Move, Unfinished', ~owned'.live,
         (\E kind : reconcileKfJob(kind)) \/ updateKfJob \/ checkStatus
  PROVE  queued' \/ "ownedCache" \notin current' \/ Approaching'
<1>1. Unfinished /\ inst.status \in OperationStatusType /\ OneListed(inst.status) /\ ~IsDone(inst.status)
  BY UnfinishedBefore, UnfinishedCopies DEF SharedInv, SharedTypeOK, Op, Statuses
<1>2. ASSUME NEW kind, reconcileKfJob(kind) PROVE queued' \/ Approaching'
  <2>1. CASE owned.live /\ UNCHANGED cluster
    BY <2>1 DEF cluster
  <2>2. CASE WriteStatus(MarkJobAsDeleted(inst.status), "done")
    <3> DEFINE new == MarkJobAsDeleted(inst.status)
               copy == [inst EXCEPT !.status = new]
    <3>1. "JobDeleted" \in Reasons
      BY OperatorReasons
    <3>2. new \in OperationStatusType /\ Outcomes(new) = {"Stopped"}
      BY <1>1, <3>1, LoggerFacts
    <3> HIDE DEF new
    <3>3. copy \in Op /\ copy.status = new
      BY <3>2 DEF SharedInv, SharedTypeOK, Op
    <3>4. Write(copy, inst' = op' /\ pc' = "sync" /\ then' = "done" /\ UNCHANGED <<found, queued>>)
      BY <2>2 DEF WriteStatus, new
    <3> HIDE DEF copy
    <3>5. CASE Put(copy)
      <4>1. op'.status = new
        BY <3>3, <3>5, PutStores
      <4> QED
        BY <3>2, <4>1, DoneOutcomes DEF Unfinished
    <3> QED
      BY <3>4, <3>5, WriteQueues
  <2>3. CASE Create("None", Log(LogStarting(inst.status), "checkStatus"), "OperatorCreateKfJob")
    <3>1. Live("None").live
      BY DEF Live
    <3>2. CreateFailed("OperatorCreateKfJob")
      BY <2>3, <3>1 DEF Create
    <3> QED
      BY <3>2 DEF CreateFailed, Log, ReturnError, Approaching
  <2>4. CASE ReturnError
    BY <2>4 DEF ReturnError
  <2> QED
    BY <1>2, <2>1, <2>2, <2>3, <2>4 DEF reconcileKfJob
<1>3. CASE updateKfJob \/ checkStatus
  <2>1. ~Approaching
    BY <1>3 DEF updateKfJob, checkStatus, Approaching
  <2>2. CASE updateKfJob
    <3>1. Keep(current) /\ owned' = owned /\ (queued' = queued \/ queued' = TRUE)
      BY <2>2 DEF updateKfJob, UpdateFound, Goto, ReturnError, cluster
    <3>2. "ownedCache" \in current' => "ownedCache" \in current
      BY <3>1, KeepFacts
    <3> QED
      BY <1>1, <2>1, <3>1, <3>2, StillAwaited
  <2>3. CASE checkStatus
    <3> DEFINE result == reconcileKfJobStatus(inst.status, LastCondition(found), ListInstancePods(podCache))
               copy == [inst EXCEPT !.status = result.status]
    <3>1. \/ Write(copy, inst' = op' /\ pc' = "sync" /\ then' = "done" /\ UNCHANGED <<found, queued>>)
          \/ Return /\ Keep(current) /\ UNCHANGED cluster
      BY <2>3 DEF checkStatus, WriteStatus
    <3> HIDE DEF copy
    <3>2. \/ queued' = TRUE
          \/ queued' = queued /\ (Keep(Unchanged \cup {"inst"}) \/ Keep(current))
      BY <3>1, WriteQueues DEF Return
    <3>3. owned' = owned
      BY <3>1 DEF Write, Put, cluster
    <3>4. queued' = queued => ("ownedCache" \in current' => "ownedCache" \in current) \/ queued' = TRUE
      BY <3>2, KeepFacts DEF Unchanged
    <3> QED
      BY <1>1, <2>1, <3>2, <3>3, <3>4, StillAwaited
  <2> QED
    BY <1>3, <2>2, <2>3
<1> QED
  BY <1>2, <1>3

\* Every step keeps Awaited.
LEMMA NextAwaited == SharedInv /\ Awaited /\ [Next]_vars => Awaited'
<1> SUFFICES ASSUME SharedInv, Awaited, [Next]_vars, Unfinished', ~owned'.live
             PROVE  queued' \/ "ownedCache" \notin current' \/ Approaching'
  BY DEF Awaited
<1>1. Move /\ Unfinished
  BY NextMoves, UnfinishedBefore
<1>2. CASE Reconcile
  BY <1>1, <1>2, HandlersAwaited, RuntimeAwaited
     DEF Reconcile, reconcileTFJob, reconcilePytorchJob, reconcileMPIJob
<1>3. CASE Watch \/ Replay \/ Requeue \/ Restart
  BY <1>3 DEF Watch, WatchKfJob, WatchKubeflowJob, mapKfPodToRequest, Replay, Requeue, Restart,
              WatchOp, NotifyOwned, WatchPods, Resync, RequeueAfter, Crash
<1>4. CASE Expire \/ PodMoves \/ KubeflowStartsPod \/ UNCHANGED vars
  <2>1. UNCHANGED <<owned, current, queued, pc, then>>
    BY <1>4 DEF Expire, TTLPasses, PodMoves, KubeflowStartsPod, operator, worker, cluster, vars, kubeVars
  <2>2. ~Approaching \/ Approaching'
    BY <2>1 DEF Approaching
  <2> QED
    BY <1>1, <2>1, <2>2, StillAwaited
<1>5. CASE UserStops
  <2> DEFINE new == [op EXCEPT !.life = "deleting"]
  <2>1. new \in Op /\ new.life = "deleting" /\ Put(new)
    BY <1>5 DEF UserStops, UserDeletes, DeleteOp, SharedInv, SharedTypeOK, Op
  <2> HIDE DEF new
  <2>2. op'.life # "live"
    BY <2>1, PutStores
  <2> QED
    BY <2>2 DEF Unfinished
<1>6. CASE KubeflowReports \/ KubeflowRestarts
  BY <1>6 DEF KubeflowReports, KubeflowRestarts, OwnedReports, Live
<1>7. CASE KubeflowCleansUp \/ KfJobDeleted \/ Collected
  BY <1>7 DEF KubeflowCleansUp, KfJobDeleted, Collected, OwnedDeleted, OwnedCollected, DropOwned,
              OwnedCopies
<1> QED
  BY <1>2, <1>3, <1>4, <1>5, <1>6, <1>7 DEF Next, World

\* When the controller has nothing left to do, an unfinished operation has its job.
THEOREM DeletionIsHeardHolds == Spec => []DeletionIsHeard
<1>1. Init => Awaited
  BY DEF Init, KubeInit, Awaited
<1>2. SharedInv /\ Awaited => DeletionIsHeard
  BY DEF Awaited, DeletionIsHeard, Rested, Settled, Unfinished, Approaching
<1> QED
  BY <1>1, <1>2, NextAwaited, SharedInvariance, PTL DEF Spec
=============================================================================
