---------------------------- MODULE ServiceProofs ----------------------------
(***************************************************************************)
(* Theorems about ServiceController, for every setup and every number of   *)
(* replicas, failed calls, restarts and removals: it implements            *)
(* OperationLifecycle, reports what it records, culls only what was idle,  *)
(* records what its pods and the clock did, misses no event, and keeps its *)
(* reports current.                                                        *)
(***************************************************************************)
EXTENDS ServiceController, HandlersProofs, FiniteSetTheorems,
        WellFoundedInduction

(***************************************************************************)
(* Every step is a move of the shared handlers.                            *)
(***************************************************************************)
\* The reasons that this controller logs.
LEMMA ServiceReasons ==
  {"OperatorCreateDeployment", "OperatorCreateService", "InvalidImageName", "ContainerFailure",
   "ReplicasUnavailable", "DeadlineExceeded"} \subseteq Reasons
BY Zenon DEF Reasons

\* What a step of the pass leaves alone.
Quietly == opCache' = opCache /\ reported' = reported /\ collected' = collected

\* The copy of a pass over a service that nobody deletes.
LEMMA LiveCopy ==
  ASSUME SharedInv, pc \in {"runtime", "checkStatus", "service", "deadline"}
  PROVE  /\ inst.life = "live" /\ inst \in Op /\ inst.status \in OperationStatusType
         /\ OneListed(inst.status) /\ pc # "idle"
         /\ pc \in {"runtime", "checkStatus"} => ~IsDone(inst.status)
BY DEF SharedInv, SharedTypeOK, Op, Statuses, Phases, Early, Later

\* The requeue that ends the pass, or the move to the delete.
LEMMA CullingMoves ==
  ASSUME SharedInv, pc \in {"checkStatus", "service", "deadline"}, Quietly, handleCulling
  PROVE  Move
<1>1. pc # "idle" /\ ReportMove /\ CollectMove
  BY DEF Quietly, ReportMove, CollectMove
<1>2. CASE Forget /\ Keep(current) /\ UNCHANGED cluster
  BY <1>1, <1>2, QuietEndMoves DEF Quietly, cluster
<1>3. CASE Cull
  <2>1. /\ pc' = "delete" /\ inst' = inst /\ op' = op /\ current' = current /\ then' \in Nexts
        /\ opCache' = opCache
    BY <1>3 DEF Cull, Goto, cluster, Quietly, SharedInv, SharedTypeOK
  <2>2. Phases'
    BY <2>1 DEF Phases, Early, Later, Ending
  <2> QED
    BY <1>1, <2>1, <2>2, GoMoves
<1> QED
  BY <1>2, <1>3 DEF handleCulling, Finish, Return

\* What ExitEnds leaves.
LEMMA ExitEndsFacts ==
  ASSUME NEW status \in OperationStatusType, OneListed(status), ~IsDone(status), NEW exit
  PROVE  /\ ExitEnds(status, exit) \in OperationStatusType /\ OneListed(ExitEnds(status, exit))
         /\ ExitEnds(status, exit) \in {status, LogSucceeded(status), LogFailed(status, "ContainerFailure")}
<1>1. ExitEnds(status, exit) \in {status, LogSucceeded(status), LogFailed(status, "ContainerFailure")}
  BY DEF ExitEnds
<1> QED
  BY <1>1, LoggerFacts, ServiceReasons

\* The exit of the main container is judged.
LEMMA ExitMoves ==
  ASSUME SharedInv, pc \in {"checkStatus", "service", "deadline"}, Quietly,
         ~IsDone(inst.status), handleServiceContainerExit
  PROVE  Move
<1>1. PICK podList :
         LET new == ExitEnds(inst.status, GetMainContainerExitStatus(podList))
         IN  WriteStatus(new, "requeue") \/ handleCulling
  BY DEF handleServiceContainerExit
<1> DEFINE new == ExitEnds(inst.status, GetMainContainerExitStatus(podList))
<1>2. new \in OperationStatusType /\ OneListed(new)
  BY LiveCopy, ExitEndsFacts
<1>3. WriteStatus(new, "requeue") \/ handleCulling
  BY <1>1
<1> HIDE DEF new
<1>4. CASE WriteStatus(new, "requeue")
  <2>1. "requeue" \in Nexts /\ "requeue" \notin Early
    BY DEF Nexts, Early
  <2> QED
    BY <1>2, <1>4, <2>1, LiveCopy, StatusMoves DEF Quietly
<1> QED
  BY <1>3, <1>4, CullingMoves

\* The deadline is judged.
LEMMA DeadlineMoves ==
  ASSUME SharedInv, pc \in {"checkStatus", "service", "deadline"}, Quietly, handlePastActiveDeadline
  PROVE  Move
<1>1. CASE Return /\ Keep(current) /\ UNCHANGED cluster
  BY <1>1, QuietEndMoves DEF Quietly, Return, cluster, ReportMove, CollectMove
<1>2. CASE ~IsDone(inst.status) /\ WriteStatus(LogStopped(inst.status, "DeadlineExceeded"), "delete")
  <2>1. "DeadlineExceeded" \in Reasons /\ "delete" \in Nexts /\ "delete" \notin Early
    BY ServiceReasons DEF Nexts, Early
  <2>2. /\ LogStopped(inst.status, "DeadlineExceeded") \in OperationStatusType
        /\ OneListed(LogStopped(inst.status, "DeadlineExceeded"))
    BY <1>2, <2>1, LiveCopy, LoggerFacts
  <2> QED
    BY <1>2, <2>1, <2>2, LiveCopy, StatusMoves DEF Quietly
<1>3. CASE ~IsDone(inst.status) /\ handleServiceContainerExit
  BY <1>3, ExitMoves
<1> QED
  BY <1>1, <1>2, <1>3 DEF handlePastActiveDeadline

\* The base Service is there or is created.
LEMMA BaseServiceMoves ==
  ASSUME SharedInv, pc \in {"checkStatus", "service"}, Quietly, reconcileBaseService
  PROVE  Move
<1>1. CASE handlePastActiveDeadline
  BY <1>1, DeadlineMoves
<1>2. CASE createService
  <2>1. op' = op /\ Keep(current)
    BY <1>2 DEF createService, cluster
  <2>2. \A x \in current' : x \in current
    BY <2>1, KeepFacts
  <2>3. CASE Goto("deadline") /\ UNCHANGED inst
    <3>1. pc # "idle" /\ pc' = "deadline" /\ inst' = inst /\ then' \in Nexts /\ inst.life = "live"
      BY <2>3, LiveCopy DEF Goto, SharedInv, SharedTypeOK
    <3>2. Phases'
      BY <3>1 DEF Phases, Early, Later, Ending
    <3> QED
      BY <2>1, <2>2, <3>1, <3>2, GoMoves DEF Quietly, ReportMove, CollectMove
  <2>4. CASE CreateFailed("OperatorCreateService")
    BY <2>1, <2>4, LiveCopy, ServiceReasons, CreateFailedMoves DEF Quietly
  <2> QED
    BY <1>2, <2>3, <2>4 DEF createService
<1> QED
  BY <1>1, <1>2 DEF reconcileBaseService

\* What reconcileDeploymentStatus leaves.
LEMMA DeploymentFacts ==
  ASSUME NEW status \in OperationStatusType, OneListed(status), ~IsDone(status), NEW ds, NEW podList
  PROVE  LET result == reconcileDeploymentStatus(status, ds, podList)
         IN  /\ result.status \in OperationStatusType /\ OneListed(result.status)
             /\ \/ result.status = LogFailed(status, "InvalidImageName") /\ GetInvalidImageName(podList)
                \/ Outcomes(result.status) = Outcomes(status)
<1> DEFINE result == reconcileDeploymentStatus(status, ds, podList)
           why == HasUnschedulablePods(podList).why
<1>1. why \in Reasons
  BY VerdictReason
<1>2. \/ result.status = LogFailed(status, "InvalidImageName") /\ GetInvalidImageName(podList)
      \/ result.status = LogWarning(status, why)
      \/ result.status = LogWarning(status, "ReplicasUnavailable")
      \/ result.status = LogRunning(status)
      \/ result.status = status
  BY DEF reconcileDeploymentStatus
<1> HIDE DEF result, why
<1> QED
  BY <1>1, <1>2, LoggerFacts, ServiceReasons DEF result

\* The Deployment is judged.
LEMMA CheckStatusMoves == ASSUME SharedInv, checkStatus PROVE Move
<1>1. pc = "checkStatus" /\ Quietly
  BY DEF checkStatus, Quietly, elsewhere, caches, plane
<1>2. PICK podList :
         LET result == reconcileDeploymentStatus(inst.status, DeploymentStatus(found), podList)
         IN  WriteStatus(result.status, "service") \/ reconcileBaseService
  BY DEF checkStatus
<1> DEFINE new == reconcileDeploymentStatus(inst.status, DeploymentStatus(found), podList).status
<1>3. new \in OperationStatusType /\ OneListed(new)
  BY <1>1, LiveCopy, DeploymentFacts
<1>4. WriteStatus(new, "service") \/ reconcileBaseService
  BY <1>2
<1> HIDE DEF new
<1>5. CASE WriteStatus(new, "service")
  <2>1. "service" \in Nexts /\ "service" \notin Early
    BY DEF Nexts, Early
  <2> QED
    BY <1>1, <1>3, <1>5, <2>1, LiveCopy, StatusMoves DEF Quietly
<1> QED
  BY <1>1, <1>4, <1>5, BaseServiceMoves

\* The steps of the pass that are this controller's own.
LEMMA RuntimeMoves ==
  ASSUME SharedInv, reconcileDeployment \/ checkStatus \/ checkService \/ checkDeadline \/ delete
  PROVE  Move
<1>1. CASE reconcileDeployment
  <2>1. Quietly /\ pc \in Early
    BY <1>1 DEF reconcileDeployment, Quietly, elsewhere, caches, plane, Early
  <2>2. CASE UpdateOwned("checkStatus")
    BY <2>1, <2>2, UpdateMoves DEF Quietly
  <2>3. CASE Create(NoDeploymentStatus, Log(LogStarting(inst.status), "checkStatus"),
                    "OperatorCreateDeployment")
    BY <2>1, <2>3, ServiceReasons, CreateMoves DEF Quietly
  <2> QED
    BY <1>1, <2>2, <2>3 DEF reconcileDeployment
<1>2. CASE checkService
  <2>1. Quietly /\ pc = "service" /\ reconcileBaseService
    BY <1>2 DEF checkService, Quietly, elsewhere, caches, plane
  <2> QED
    BY <2>1, BaseServiceMoves
<1>3. CASE checkDeadline
  <2>1. Quietly /\ pc = "deadline" /\ handlePastActiveDeadline
    BY <1>3 DEF checkDeadline, Quietly, elsewhere, caches, plane
  <2> QED
    BY <2>1, DeadlineMoves
<1>4. CASE delete
  BY <1>4, DeleteMoves DEF delete, elsewhere, caches, plane
<1> QED
  BY <1>1, <1>2, <1>3, <1>4, CheckStatusMoves

\* The handlers that the service package shares with the others.
LEMMA SharedMoves ==
  ASSUME SharedInv,
         \/ Fetch \/ AddStartTime \/ AddLogsFinalizer \/ AddStatusFinalizer
         \/ handleFinalizersStop \/ collectLogs \/ removeFinalizer \/ handleTTL
         \/ writeStatus \/ instanceSyncStatus
  PROVE  Move
<1>1. CASE AddLogsFinalizer \/ AddStatusFinalizer
  BY <1>1, FinalizerMoves DEF AddLogsFinalizer, AddStatusFinalizer, SetLogsFinalizer,
                              SetStatusFinalizer, Finalizers
<1> QED
  BY <1>1, FetchMoves, StartMoves, ReportStoppedMoves, CollectMoves, ReleaseMoves, CleanUpMoves,
     StoreMoves, ReportMoves
     DEF Fetch, AddStartTime, handleFinalizersStop, collectLogs, removeFinalizer, handleTTL,
         writeStatus, instanceSyncStatus

\* The watches, timers and restarts.
LEMMA EventMoves ==
  ASSUME SharedInv, Watch \/ Replay \/ Requeue \/ Restart \/ Expire
  PROVE  Move
<1>1. CASE WatchBaseService
  BY <1>1, AsideMoves DEF WatchBaseService, cluster, elsewhere, caches, worker, plane
<1> QED
  BY <1>1, WatchMoves, RequeueMoves, CrashMoves
     DEF Watch, WatchService, WatchDeployment, mapPodToRequest, Replay, Requeue, Restart, Expire

\* The clock, the kubelet, the Deployment and those who delete what is owned.
LEMMA WorldMoves ==
  ASSUME SharedInv,
         \/ DeadlinePasses \/ ActivityChanges \/ PodMoves \/ DeploymentStartsPod
         \/ DeploymentCounts \/ DeploymentDeleted \/ ServiceDeleted \/ Collected
  PROVE  Move
<1>1. CASE DeadlinePasses \/ ActivityChanges \/ UNCHANGED kubeVars
  BY <1>1, AsideMoves DEF DeadlinePasses, ActivityChanges, kubeVars, cluster, elsewhere, caches,
                          worker, plane
<1>2. CASE PodMoves \/ DeploymentStartsPod \/ ServiceDeleted
  BY <1>2, ClusterMoves DEF PodMoves, DeploymentStartsPod, ServiceDeleted
<1>3. CASE DeploymentCounts
  <2>1. PICK status : OwnedReports(status, TRUE)
    BY <1>3 DEF DeploymentCounts
  <2> QED
    BY <2>1, OwnedMoves
<1>4. CASE DropOwned
  BY <1>4, OwnedMoves
<1> QED
  BY <1>1, <1>2, <1>3, <1>4 DEF DeploymentDeleted, Collected, OwnedDeleted, OwnedCollected

\* Every step of the specification is a move.
LEMMA NextMoves == ASSUME SharedInv, [Next]_vars PROVE Move
<1>1. CASE Reconcile
  BY <1>1, SharedMoves, RuntimeMoves DEF Reconcile
<1>2. CASE World
  BY <1>2, WorldMoves, EventMoves, UserDeletesMoves DEF World, UserStops
<1>3. CASE UNCHANGED vars
  BY <1>3, AsideMoves DEF vars, kubeVars, cluster, elsewhere, caches, worker, plane
<1> QED
  BY <1>1, <1>2, <1>3, EventMoves DEF Next

(***************************************************************************)
(* The controller implements OperationLifecycle.                           *)
(***************************************************************************)
\* SharedInv is inductive.
THEOREM SharedInvariance == Spec => []SharedInv
<1>1. Init => SharedInv
  BY InitShared DEF Init
<1>2. SharedInv /\ [Next]_vars => SharedInv'
  BY NextMoves, MoveKeeps
<1> QED
  BY <1>1, <1>2, PTL DEF Spec

\* Whatever fails, is lost or comes late, and whichever part of a pass ends the
\* service first, one outcome is recorded and only of a service nobody asked to
\* delete; the logs are collected before they are released.
THEOREM LifecycleHolds == Spec => Lifecycle
<1>1. Init => Abstract!LifecycleInit
  BY InitSimulates DEF Init
<1>2. SharedInv /\ [Next]_vars => LifecycleStep
  BY NextMoves, Simulates
<1> QED
  BY <1>1, <1>2, SharedInvariance, PTL DEF Spec, Lifecycle, Abstract!LifecycleSpec, LifecycleStep

\* The control plane never hears of an end that is not the recorded one.
THEOREM ReportedOutcomeHolds == Spec => []ReportedOutcome
<1>1. SharedInv => ReportedOutcome
  BY DEF SharedInv, HeardOutcome, ReportedOutcome
<1> QED
  BY <1>1, SharedInvariance, PTL

(***************************************************************************)
(* Only an idle service is culled.                                         *)
(***************************************************************************)
\* A pass during which the service is idle knows it; a pass that deletes an
\* unfinished service has found it idle; the other way to the delete is past the
\* deadline, with a service that was stopped.
CullInv ==
  /\ pc # "idle" /\ idle => idled
  /\ pc = "delete" /\ ~IsDone(inst.status) => idled
  /\ pc = "sync" /\ then = "delete" => IsDone(inst.status)
  /\ pc = "write" => then # "delete"

\* A status that is written is then reported, or the pass ends.
LEMMA StatusGoes ==
  ASSUME SharedInv, NEW new \in OperationStatusType, NEW next, WriteStatus(new, next)
  PROVE  pc' = "idle" \/ (pc' = "sync" /\ then' = next /\ inst'.status = new)
<1> DEFINE copy == [inst EXCEPT !.status = new]
<1>1. copy \in Op /\ copy.status = new
  BY DEF Op, SharedInv, SharedTypeOK
<1>2. Write(copy, inst' = op' /\ pc' = "sync" /\ then' = next /\ UNCHANGED <<found, queued>>)
  BY DEF WriteStatus
<1> HIDE DEF copy
<1> QED
  BY <1>1, <1>2, PutStores DEF Write, ReturnError, Forget

\* A step of a pass that goes to no label of the invariant.
LEMMA CullAway ==
  ASSUME CullInv, Within, pc # "idle",
         \/ pc' \notin {"delete", "sync", "write"}
         \/ pc' \in {"sync", "write"} /\ then' # "delete"
  PROVE  CullInv'
BY DEF CullInv, Within, around

\* The shared handlers.
LEMMA HandlersCull ==
  ASSUME SharedInv, CullInv,
         \/ Fetch \/ AddStartTime \/ AddLogsFinalizer \/ AddStatusFinalizer
         \/ handleFinalizersStop \/ collectLogs \/ removeFinalizer \/ handleTTL
         \/ writeStatus \/ instanceSyncStatus
  PROVE  CullInv'
<1>1. \A copy : Dispatch(copy) \in {"collect", "syncStopped", "addLogs", "addStatus", "runtime"}
  BY DEF Dispatch
<1>2. CASE Fetch
  <2>1. pc' \notin {"delete", "sync", "write"}
    BY <1>1, <1>2 DEF Fetch, FetchOp, worker
  <2> QED
    BY <1>2, <2>1 DEF CullInv, Fetch, around
<1>3. CASE AddStartTime \/ AddLogsFinalizer \/ AddStatusFinalizer
  <2>1. Within /\ pc # "idle"
    BY <1>3 DEF AddStartTime, AddLogsFinalizer, AddStatusFinalizer, SetStartTime,
                SetLogsFinalizer, SetStatusFinalizer, SetFinalizer
  <2>2. pc' = "idle" \/ \E copy : pc' = Dispatch(copy)
    BY <1>3 DEF AddStartTime, AddLogsFinalizer, AddStatusFinalizer, SetStartTime,
                SetLogsFinalizer, SetStatusFinalizer, SetFinalizer, Write, ReturnError, Forget, Goto
  <2> QED
    BY <1>1, <2>1, <2>2, CullAway
<1>4. CASE handleFinalizersStop \/ collectLogs \/ removeFinalizer \/ handleTTL
  <2>1. Within /\ pc # "idle"
    BY <1>4 DEF handleFinalizersStop, collectLogs, removeFinalizer, handleTTL, ReportStopped,
                CollectHeld, ReleaseFinalizer, CleanUp
  <2>2. pc' \in {"idle", "collect", "removeFinalizer", "cleanup"}
    BY <1>4 DEF handleFinalizersStop, collectLogs, removeFinalizer, handleTTL, ReportStopped,
                CollectHeld, AfterFinalizers, ReleaseFinalizer, CleanUp, Delete, Write, Return,
                ReturnError, Forget, Goto
  <2> QED
    BY <2>1, <2>2, CullAway
<1>5. CASE writeStatus
  <2>1. Within /\ pc = "write" /\ (pc' = "idle" \/ (pc' = "sync" /\ then' = then))
    BY <1>5 DEF writeStatus, StoreStatus, Write, ReturnError, Forget, Goto
  <2> QED
    BY <2>1, CullAway DEF CullInv
<1>6. CASE instanceSyncStatus
  <2>1. /\ Within /\ pc = "sync" /\ then \in Nexts
        /\ pc' = "idle" \/ (pc' = then /\ inst' = inst)
    BY <1>6 DEF instanceSyncStatus, ReportStatus, Return, ReturnError, Forget, Goto,
                SharedInv, SharedTypeOK
  <2>2. CASE pc' = "delete"
    BY <2>1, <2>2 DEF CullInv, Within, around
  <2>3. CASE pc' # "delete"
    BY <2>1, <2>3, CullAway DEF Nexts
  <2> QED
    BY <2>2, <2>3
<1> QED
  BY <1>2, <1>3, <1>4, <1>5, <1>6

\* Culling leads to the delete only when the service is idle.
LEMMA CullingGoes ==
  ASSUME handleCulling
  PROVE  pc' = "idle" \/ (pc' = "delete" /\ idle)
BY DEF handleCulling, Finish, Return, Forget, Cull, Goto

\* Where the judgement of the deadline and of the main container leads.
LEMMA DeadlineGoes ==
  ASSUME SharedInv, pc \in {"checkStatus", "service", "deadline"}, handlePastActiveDeadline
  PROVE  \/ pc' = "idle"
         \/ pc' = "delete" /\ idle
         \/ pc' = "sync" /\ then' = "requeue"
         \/ pc' = "sync" /\ IsDone(inst'.status)
<1>1. inst.status \in OperationStatusType /\ OneListed(inst.status)
  BY LiveCopy
<1>2. CASE Return
  BY <1>2 DEF Return, Forget
<1>3. CASE ~IsDone(inst.status) /\ WriteStatus(LogStopped(inst.status, "DeadlineExceeded"), "delete")
  <2> DEFINE new == LogStopped(inst.status, "DeadlineExceeded")
  <2>1. new \in OperationStatusType /\ Outcomes(new) = {"Stopped"}
    BY <1>1, <1>3, ServiceReasons, LoggerFacts
  <2>2. WriteStatus(new, "delete")
    BY <1>3
  <2> HIDE DEF new
  <2>3. IsDone(new)
    BY <2>1, DoneOutcomes
  <2> QED
    BY <2>1, <2>2, <2>3, StatusGoes
<1>4. CASE ~IsDone(inst.status) /\ handleServiceContainerExit
  <2>1. PICK podList :
           LET new == ExitEnds(inst.status, GetMainContainerExitStatus(podList))
           IN  WriteStatus(new, "requeue") \/ handleCulling
    BY <1>4 DEF handleServiceContainerExit
  <2> DEFINE new == ExitEnds(inst.status, GetMainContainerExitStatus(podList))
  <2>2. new \in OperationStatusType
    BY <1>1, <1>4, ExitEndsFacts
  <2>3. WriteStatus(new, "requeue") \/ handleCulling
    BY <2>1
  <2> HIDE DEF new
  <2> QED
    BY <2>2, <2>3, StatusGoes, CullingGoes
<1> QED
  BY <1>2, <1>3, <1>4 DEF handlePastActiveDeadline

\* Where the base Service leads.
LEMMA BaseServiceGoes ==
  ASSUME SharedInv, pc \in {"checkStatus", "service"}, reconcileBaseService
  PROVE  \/ pc' \in {"idle", "deadline"}
         \/ pc' = "delete" /\ idle
         \/ pc' \in {"sync", "write"} /\ then' \in {"requeue", "error"}
         \/ pc' = "sync" /\ IsDone(inst'.status)
<1>1. CASE handlePastActiveDeadline
  BY <1>1, DeadlineGoes
<1>2. CASE createService
  BY <1>2 DEF createService, CreateFailed, Log, ReturnError, Forget, Goto
<1> QED
  BY <1>1, <1>2 DEF reconcileBaseService

\* The steps of this controller's own.
LEMMA RuntimeCull ==
  ASSUME SharedInv, CullInv,
         reconcileDeployment \/ checkStatus \/ checkService \/ checkDeadline \/ delete
  PROVE  CullInv'
<1>1. CASE reconcileDeployment
  <2>1. /\ Within /\ pc = "runtime"
        /\ \/ pc' \in {"idle", "checkStatus"}
           \/ pc' = "write" /\ then' \in {"checkStatus", "error"}
    BY <1>1 DEF reconcileDeployment, UpdateOwned, Create, CreateFailed, Log, ReturnError, Forget
  <2> QED
    BY <2>1, CullAway
<1>2. CASE delete
  <2>1. Within /\ pc = "delete" /\ pc' = "idle"
    BY <1>2 DEF delete, Delete, Return, ReturnError, Forget
  <2> QED
    BY <2>1, CullAway
<1>3. ASSUME pc \in {"checkStatus", "service", "deadline"}, idle' = idle,
             idled' = (idled /\ pc' # "idle"),
             \/ pc' \in {"idle", "deadline"}
             \/ pc' = "delete" /\ idle
             \/ pc' \in {"sync", "write"} /\ then' \in {"requeue", "error", "service"}
             \/ pc' = "sync" /\ IsDone(inst'.status)
      PROVE  CullInv'
  BY <1>3 DEF CullInv
<1>4. CASE checkService
  <2>1. /\ pc = "service" /\ idle' = idle /\ idled' = (idled /\ pc' # "idle")
        /\ reconcileBaseService
    BY <1>4 DEF checkService
  <2> QED
    BY <1>3, <2>1, BaseServiceGoes
<1>5. CASE checkDeadline
  <2>1. /\ pc = "deadline" /\ idle' = idle /\ idled' = (idled /\ pc' # "idle")
        /\ handlePastActiveDeadline
    BY <1>5 DEF checkDeadline, Within, around
  <2> QED
    BY <1>3, <2>1, DeadlineGoes
<1>6. CASE checkStatus
  <2>1. pc = "checkStatus" /\ idle' = idle /\ idled' = (idled /\ pc' # "idle")
    BY <1>6 DEF checkStatus
  <2>2. PICK podList :
           LET result == reconcileDeploymentStatus(inst.status, DeploymentStatus(found), podList)
           IN  WriteStatus(result.status, "service") \/ reconcileBaseService
    BY <1>6 DEF checkStatus
  <2> DEFINE new == reconcileDeploymentStatus(inst.status, DeploymentStatus(found), podList).status
  <2>3. new \in OperationStatusType
    BY <2>1, LiveCopy, DeploymentFacts
  <2>4. WriteStatus(new, "service") \/ reconcileBaseService
    BY <2>2
  <2> HIDE DEF new
  <2> QED
    BY <1>3, <2>1, <2>3, <2>4, BaseServiceGoes, StatusGoes
<1> QED
  BY <1>1, <1>2, <1>4, <1>5, <1>6

\* What goes on around the pass.
LEMMA AsideCull ==
  ASSUME CullInv, \/ Watch \/ Replay \/ Requeue \/ Restart \/ World \/ UNCHANGED vars
  PROVE  CullInv'
<1>1. CASE ActivityChanges
  BY <1>1 DEF ActivityChanges, CullInv, kubeVars, worker
<1>2. CASE Restart
  BY <1>2 DEF Restart, Crash, Forget, CullInv
<1>3. CASE \/ WatchService \/ WatchDeployment \/ WatchBaseService \/ mapPodToRequest \/ Replay
           \/ Requeue \/ Expire \/ UserStops \/ DeadlinePasses \/ UNCHANGED vars
  <2>1. UNCHANGED <<pc, inst, then, idle, idled>>
    BY <1>3 DEF WatchService, WatchDeployment, WatchBaseService, mapPodToRequest, Replay, Requeue,
                Expire, UserStops, DeadlinePasses, WatchOp, WatchOwned, WatchPods, Resync,
                RequeueAfter, TTLPasses, UserDeletes, beside, around, outside, worker, kubeVars, vars
  <2> QED
    BY <2>1 DEF CullInv
<1>4. CASE \/ PodMoves \/ DeploymentStartsPod \/ DeploymentCounts \/ DeploymentDeleted
           \/ ServiceDeleted \/ Collected
  <2>1. UNCHANGED <<pc, inst, then, idle, idled>>
    BY <1>4 DEF PodMoves, DeploymentStartsPod, DeploymentCounts, DeploymentDeleted, ServiceDeleted,
                Collected, OwnedDeleted, OwnedCollected, DropOwned, OwnedReports, operator, beside,
                around, worker, kubeVars
  <2> QED
    BY <2>1 DEF CullInv
<1> QED
  BY <1>1, <1>2, <1>3, <1>4 DEF Watch, World

\* An unfinished service is deleted only by a pass that found it idle, or by the user.
THEOREM CulledWhenIdleHolds == Spec => CulledWhenIdle
<1>1. Init => CullInv
  BY DEF Init, KubeInit, CullInv
<1>2. SharedInv /\ CullInv /\ [Next]_vars => CullInv'
  BY HandlersCull, RuntimeCull, AsideCull DEF Next, Reconcile
<1>3. CullInv => (pc = "delete" /\ ~IsDone(inst.status) /\ op'.life # op.life => idled)
  BY DEF CullInv
<1> QED
  BY <1>1, <1>2, <1>3, SharedInvariance, PTL DEF Spec, CulledWhenIdle

(***************************************************************************)
(* The outcome is what the pods and the clock did.                         *)
(***************************************************************************)
Pod == [at : PodStages, code : {NoCode, 0, 1}, restarts : Nat, fails : Nat]

\* The exit code is that of the last exit, which counts among the failed ones or
\* among the clean ones; no container restarts before it ran.
PodOK(pod) ==
  /\ pod \in Pod /\ pod.restarts <= MaxRestarts /\ pod.fails <= Exits(pod)
  /\ pod.code = 0 => pod.fails < Exits(pod)
  /\ pod.code = 1 => pod.fails > 0
  /\ pod.at \in {"NotReady", "BadImage"} => pod.code = NoCode
  /\ pod.at \in {"Exited", "BackOff"} => pod.code # NoCode
  /\ pod.at = "BackOff" => pod.restarts < MaxRestarts

PodsOK ==
  /\ pods \in Seq(Pod) /\ podCache \in Seq(Pod)
  /\ \A i \in DOMAIN pods : PodOK(pods[i])
  /\ \A i \in DOMAIN podCache : PodOK(podCache[i])

\* What a pod has been through does not become less.
Before(old, new) ==
  /\ old.at = "BadImage" => new.at = "BadImage"
  /\ old.fails <= new.fails /\ Exits(old) <= Exits(new)
  /\ old.fails < Exits(old) => new.fails < Exits(new)

Undisturbed == removals = 0 /\ op.life # "gone"

\* The cached pods are earlier than those of the API server, pod by pod.
Earlier ==
  Undisturbed =>
    \A i \in DOMAIN podCache : i \in DOMAIN pods /\ Before(podCache[i], pods[i])

\* What may come after an outcome, and what comes with it.
StatusOK(status) ==
  IsDone(status) =>
    /\ status.completion \/ "Stopped" \in status.has
    /\ \/ status.last.type \in FinalTypes
       \/ status.last = NewOperationCondition("Warning", "OperatorCreateService")

StatusesOK == StatusOK(op.status) /\ StatusOK(opCache.status) /\ StatusOK(inst.status)

\* Some pod of the list exited cleanly; some pod could not start or failed too often.
Succeeds(list) == Replicas = 1 /\ \E i \in DOMAIN list : Exits(list[i]) > list[i].fails

Fails(list) ==
  \E i \in DOMAIN list :
     \/ list[i].at = "BadImage"
     \/ list[i].fails > 0 /\ Exits(list[i]) > BackoffLimit /\ BackoffLimit >= 0

Justified ==
  Undisturbed =>
    /\ "Succeeded" \in op.status.has => Succeeds(pods)
    /\ "Failed" \in op.status.has => Fails(pods)
    /\ "Stopped" \in op.status.has => overdue

PodInv ==
  /\ SharedInv /\ setup \in Setups /\ removals \in Nat
  /\ PodsOK /\ Earlier /\ StatusesOK /\ Justified

\* The naturals are well founded.
LEMMA BelowFounded == \E R : IsWellFoundedOn(R, Nat) /\ \A x, y \in Nat : x < y => <<x, y>> \in R
<1> DEFINE R == OpToRel(<, Nat)
<1>1. IsWellFoundedOn(R, Nat)
  BY NatLessThanWellFounded
<1>2. \A x, y \in Nat : x < y => <<x, y>> \in R
  BY DEF OpToRel
<1> HIDE DEF R
<1> QED
  BY <1>1, <1>2

\* A set of naturals has a least element.
LEMMA LeastNatural ==
  ASSUME NEW T \in SUBSET Nat, T # {}
  PROVE  \E n \in T : \A m \in T : n <= m
<1>1. PICK R : IsWellFoundedOn(R, Nat) /\ \A x, y \in Nat : x < y => <<x, y>> \in R
  BY BelowFounded
<1>2. IsWellFoundedOn(R, Nat) /\ T \subseteq Nat
  BY <1>1
<1>3. PICK n \in T : \A m \in T : ~(<<m, n>> \in R)
  BY <1>2, WFMin, Zenon
<1>4. \A m \in T : ~(m < n)
  BY <1>1, <1>3
<1> QED
  BY <1>4

\* No exit is no exit.
LEMMA NoExitUnseen == ~NoExit.seen
<1>1. PICK none : NoExit = [code |-> 0, reason |-> none, attempts |-> 0, seen |-> FALSE]
  BY Zenon DEF NoExit
<1> QED
  BY <1>1

\* GetMainContainerExitStatus returns the exit of one of the pods.
LEMMA ExitPicked ==
  ASSUME NEW list, DOMAIN list \subseteq Nat, NEW bound \in Nat,
         \A i \in DOMAIN list :
            LET exit == getPodMainContainerExitStatus(list[i])
            IN  exit.seen => exit.attempts \in 0 .. bound,
         GetMainContainerExitStatus(list).seen
  PROVE  \E i \in DOMAIN list :
            /\ getPodMainContainerExitStatus(list[i]).seen
            /\ GetMainContainerExitStatus(list) = getPodMainContainerExitStatus(list[i])
<1> DEFINE exit(i) == getPodMainContainerExitStatus(list[i])
           exited  == {i \in DOMAIN list : exit(i).seen}
           failed  == {i \in exited : exit(i).code # 0}
           worse(i, j) == \/ exit(i).attempts > exit(j).attempts
                          \/ exit(i).attempts = exit(j).attempts /\ i <= j
<1>1. GetMainContainerExitStatus(list) =
        IF failed # {}
        THEN exit(CHOOSE i \in failed : \A j \in failed : worse(i, j))
        ELSE IF exited # {} THEN exit(Min(exited)) ELSE NoExit
  BY DEF GetMainContainerExitStatus
<1>2. \A i \in exited : exit(i).seen /\ i \in DOMAIN list /\ i \in Nat /\ exit(i).attempts \in 0 .. bound
  OBVIOUS
<1>3. failed \subseteq exited
  OBVIOUS
<1> HIDE DEF exited, failed, exit
<1>4. CASE failed # {}
  <2> DEFINE missing == {bound - exit(i).attempts : i \in failed}
  <2>1. missing \in SUBSET Nat /\ missing # {}
    BY <1>2, <1>3, <1>4
  <2>2. PICK least \in missing : \A m \in missing : least <= m
    BY <2>1, LeastNatural
  <2> DEFINE worst == {i \in failed : bound - exit(i).attempts = least}
  <2>3. worst \in SUBSET Nat /\ worst # {}
    BY <1>2, <1>3, <2>2
  <2>4. PICK first \in worst : \A i \in worst : first <= i
    BY <2>3, LeastNatural
  <2>5. \A j \in failed : worse(first, j)
    <3> SUFFICES ASSUME NEW j \in failed PROVE worse(first, j)
      OBVIOUS
    <3>1. /\ first \in failed /\ bound - exit(first).attempts = least
          /\ exit(first).attempts \in Int /\ exit(j).attempts \in Int
      BY <1>2, <1>3, <2>4
    <3>2. least <= bound - exit(j).attempts
      BY <2>2
    <3>3. CASE bound - exit(j).attempts = least
      BY <2>4, <3>1, <3>3
    <3>4. CASE bound - exit(j).attempts # least
      BY <3>1, <3>2, <3>4
    <3> QED
      BY <3>3, <3>4
  <2>6. first \in failed
    BY <2>4
  <2> DEFINE chosen == CHOOSE i \in failed : \A j \in failed : worse(i, j)
  <2>7. chosen \in failed
    BY <2>5, <2>6
  <2>8. GetMainContainerExitStatus(list) = exit(chosen)
    BY <1>1, <1>4
  <2> HIDE DEF chosen
  <2> QED
    BY <1>2, <1>3, <2>7, <2>8 DEF exit
<1>5. CASE failed = {} /\ exited # {}
  <2>1. exited \in SUBSET Nat /\ exited # {}
    BY <1>2, <1>5
  <2>2. PICK least \in exited : \A i \in exited : least <= i
    BY <2>1, LeastNatural
  <2>3. Min(exited) \in exited
    BY <2>2, Zenon DEF Min
  <2> QED
    BY <1>1, <1>2, <1>5, <2>3 DEF exit
<1>6. ~(failed = {} /\ exited = {})
  BY <1>1, NoExitUnseen
<1> QED
  BY <1>4, <1>5, <1>6

\* What the kubelet reports of a pod.
Shows(pod, phase, conds, state, reason) ==
  /\ PodAt(pod) = podStatus(phase, conds,
                            container(state, reason, pod.code,
                                      IF state = "terminated" THEN NoCode ELSE pod.code,
                                      pod.restarts))
  /\ state = "terminated" => pod.at = "Exited"
  /\ state = "waiting" => pod.at \in {"NotReady", "BadImage", "BackOff"}
  /\ state \in {"terminated", "waiting", "running"}
  /\ state = "waiting" /\ reason = "InvalidImageName" => pod.at = "BadImage"

\* Every stage of a pod is reported as one main container.
LEMMA PodShown ==
  ASSUME NEW pod, pod.at \in PodStages
  PROVE  \E phase, conds, state, reason : Shows(pod, phase, conds, state, reason)
<1>1. CASE pod.at = "NotReady"
  <2>1. Shows(pod, "Pending", "notReady", "waiting", "ContainerCreating")
    BY <1>1 DEF Shows, PodAt
  <2> QED
    BY <2>1
<1>2. CASE pod.at = "BadImage"
  <2>1. Shows(pod, "Pending", "notReady", "waiting", "InvalidImageName")
    BY <1>2 DEF Shows, PodAt
  <2> QED
    BY <2>1
<1>3. CASE pod.at = "Running"
  <2>1. PICK none :
          PodAt(pod) = podStatus("Running", "ready",
                                 container("running", none, pod.code,
                                           IF "running" = "terminated" THEN NoCode ELSE pod.code,
                                           pod.restarts))
    BY <1>3, Zenon DEF PodAt
  <2>2. Shows(pod, "Running", "ready", "running", none)
    BY <1>3, <2>1 DEF Shows
  <2> QED
    BY <2>2
<1>4. CASE pod.at = "Exited"
  <2>1. Shows(pod, "Running", "notReady", "terminated", "Error")
    BY <1>4 DEF Shows, PodAt
  <2> QED
    BY <2>1
<1>5. CASE pod.at = "BackOff"
  <2>1. Shows(pod, "Running", "notReady", "waiting", "CrashLoopBackOff")
    BY <1>5 DEF Shows, PodAt
  <2> QED
    BY <2>1
<1> QED
  BY <1>1, <1>2, <1>3, <1>4, <1>5 DEF PodStages

\* Its only container.
LEMMA OneContainer ==
  ASSUME NEW phase, NEW conds, NEW state, NEW reason, NEW code, NEW lastCode, NEW restarts
  PROVE  LET shown == podStatus(phase, conds, container(state, reason, code, lastCode, restarts))
             cs    == shown.containers[1]
         IN  /\ DOMAIN shown.containers = {1} /\ shown.inits = <<>>
             /\ cs.name = shown.main /\ cs.state = state /\ cs.reason = reason /\ cs.code = code
             /\ cs.lastCode = lastCode /\ cs.restarts = restarts
<1> DEFINE list == container(state, reason, code, lastCode, restarts)
<1>1. /\ DOMAIN list = {1} /\ list[1].name = "main" /\ list[1].state = state
      /\ list[1].reason = reason /\ list[1].code = code /\ list[1].lastCode = lastCode
      /\ list[1].restarts = restarts
  <2>1. PICK none : list = <<[name |-> "main", state |-> state, reason |-> reason, code |-> code,
                              lastCode |-> lastCode, lastReason |-> none, restarts |-> restarts,
                              ready |-> state = "running"]>>
    BY Zenon DEF container
  <2> HIDE DEF list
  <2> QED
    BY <2>1
<1> HIDE DEF list
<1>2. LET shown == podStatus(phase, conds, list)
      IN  shown.containers = list /\ shown.inits = <<>> /\ shown.main = "main"
  BY DEF podStatus
<1> QED
  BY <1>1, <1>2 DEF list

\* The exit that is read off a pod is its last one; no more attempts are counted
\* than it had exits.
LEMMA ExitRead ==
  ASSUME NEW pod, PodOK(pod), MaxRestarts \in Nat
  PROVE  LET exit == getPodMainContainerExitStatus(PodAt(pod))
         IN  exit.seen =>
               /\ exit.code = pod.code /\ pod.code \in {0, 1}
               /\ exit.attempts \in 0 .. (MaxRestarts + 1) /\ exit.attempts <= Exits(pod)
<1> DEFINE shown == PodAt(pod)
           exit  == getPodMainContainerExitStatus(shown)
<1>1. /\ pod.at \in PodStages /\ pod.code \in {NoCode, 0, 1} /\ pod.restarts \in 0 .. MaxRestarts
      /\ pod.at = "Exited" => pod.code # NoCode
  BY DEF PodOK, Pod
<1>2. /\ Exits(pod) \in {pod.restarts, pod.restarts + 1}
      /\ pod.at = "Exited" => Exits(pod) = pod.restarts + 1
  BY <1>1 DEF Exits
<1>3. PICK phase, conds, state, reason : Shows(pod, phase, conds, state, reason)
  BY <1>1, PodShown
<1> DEFINE last == IF state = "terminated" THEN NoCode ELSE pod.code
<1>4. /\ shown = podStatus(phase, conds, container(state, reason, pod.code, last, pod.restarts))
      /\ state = "terminated" => pod.at = "Exited"
  BY <1>3 DEF Shows
<1> HIDE DEF shown, last
<1> DEFINE cs == shown.containers[1]
<1>5. /\ DOMAIN shown.containers = {1} /\ cs.name = shown.main /\ cs.state = state
      /\ cs.code = pod.code /\ cs.lastCode = last /\ cs.restarts = pod.restarts
  BY <1>4, OneContainer
<1> HIDE DEF cs
<1>6. MainIndices(shown) = {1}
  BY <1>5 DEF MainIndices, cs
<1>7. Min({1}) = 1
  BY DEF Min
<1>8. HasMainContainerStatus(shown) /\ getMainContainerStatus(shown) = cs
  BY <1>6, <1>7 DEF HasMainContainerStatus, getMainContainerStatus, cs
<1>9. \/ exit = NoExit
      \/ /\ cs.state = "terminated"
         /\ exit = [code |-> cs.code, reason |-> cs.reason, attempts |-> cs.restarts + 1, seen |-> TRUE]
      \/ /\ cs.state # "terminated" /\ cs.lastCode # NoCode
         /\ exit = [code |-> cs.lastCode, reason |-> cs.lastReason,
                    attempts |-> cs.restarts, seen |-> TRUE]
  BY <1>8 DEF getPodMainContainerExitStatus
<1> HIDE DEF exit
<1>10. CASE exit = NoExit
  BY <1>10, NoExitUnseen DEF exit, shown
<1>11. CASE /\ cs.state = "terminated"
            /\ exit = [code |-> cs.code, reason |-> cs.reason, attempts |-> cs.restarts + 1,
                       seen |-> TRUE]
  <2>1. /\ exit.code = pod.code /\ pod.code \in {0, 1}
        /\ exit.attempts \in 0 .. (MaxRestarts + 1) /\ exit.attempts <= Exits(pod)
    BY <1>1, <1>2, <1>4, <1>5, <1>11
  <2> QED
    BY <2>1 DEF exit, shown
<1>12. CASE /\ cs.state # "terminated" /\ cs.lastCode # NoCode
            /\ exit = [code |-> cs.lastCode, reason |-> cs.lastReason,
                       attempts |-> cs.restarts, seen |-> TRUE]
  <2>1. /\ exit.code = pod.code /\ pod.code \in {0, 1}
        /\ exit.attempts \in 0 .. (MaxRestarts + 1) /\ exit.attempts <= Exits(pod)
    BY <1>1, <1>2, <1>5, <1>12 DEF last
  <2> QED
    BY <2>1 DEF exit, shown
<1> QED
  BY <1>9, <1>10, <1>11, <1>12

\* An image name is invalid only in a pod that says so.
LEMMA ImageRead ==
  ASSUME NEW pod, pod.at \in PodStages,
         LET shown == PodAt(pod)
         IN  \/ \E k \in DOMAIN shown.inits : IsInvalidImage(shown.inits[k])
             \/ \E k \in DOMAIN shown.containers : IsInvalidImage(shown.containers[k])
  PROVE  pod.at = "BadImage"
<1> DEFINE shown == PodAt(pod)
<1>1. PICK phase, conds, state, reason : Shows(pod, phase, conds, state, reason)
  BY PodShown
<1> DEFINE last == IF state = "terminated" THEN NoCode ELSE pod.code
<1>2. /\ shown = podStatus(phase, conds, container(state, reason, pod.code, last, pod.restarts))
      /\ state = "waiting" /\ reason = "InvalidImageName" => pod.at = "BadImage"
  BY <1>1 DEF Shows
<1>3. \/ \E k \in DOMAIN shown.inits : IsInvalidImage(shown.inits[k])
      \/ \E k \in DOMAIN shown.containers : IsInvalidImage(shown.containers[k])
  OBVIOUS
<1> HIDE DEF shown, last
<1>4. /\ DOMAIN shown.containers = {1} /\ shown.inits = <<>>
      /\ shown.containers[1].state = state /\ shown.containers[1].reason = reason
  BY <1>2, OneContainer
<1> QED
  BY <1>2, <1>3, <1>4 DEF IsInvalidImage

\* A listed pod is a cached one.
LEMMA ListedPod ==
  ASSUME NEW list, NEW podList \in ListInstancePods(list)
  PROVE  /\ DOMAIN podList = DOMAIN list
         /\ \A i \in DOMAIN podList : \E j \in DOMAIN list : podList[i] = PodAt(list[j])
<1> DEFINE shown == [i \in DOMAIN list |-> PodAt(list[i])]
<1>1. podList \in Orders(shown) /\ DOMAIN shown = DOMAIN list
  BY DEF ListInstancePods
<1>2. PICK p \in [DOMAIN list -> DOMAIN list] : podList = [i \in DOMAIN list |-> shown[p[i]]]
  <2> HIDE DEF shown
  <2> QED
    BY <1>1 DEF Orders
<1> QED
  BY <1>2

\* What the pods of the cache have to say for the service to fail or to succeed.
LEMMA JudgedPods ==
  ASSUME PodsOK, MaxRestarts \in Nat, NEW podList \in ListInstancePods(podCache)
  PROVE  /\ GetInvalidImageName(podList) => Fails(podCache)
         /\ LET exit == GetMainContainerExitStatus(podList)
            IN  exit.seen =>
                  /\ Replicas = 1 /\ exit.code = 0 => Succeeds(podCache)
                  /\ exit.code # 0 /\ ~(BackoffLimit < 0) /\ ~(exit.attempts <= BackoffLimit)
                     /\ BackoffLimit \in Int => Fails(podCache)
<1>1. /\ DOMAIN podList = DOMAIN podCache /\ DOMAIN podList \subseteq Nat
      /\ \A i \in DOMAIN podList : \E j \in DOMAIN podCache : podList[i] = PodAt(podCache[j])
  BY ListedPod DEF PodsOK
<1>2. \A j \in DOMAIN podCache : PodOK(podCache[j]) /\ podCache[j].at \in PodStages
  BY DEF PodsOK, PodOK, Pod
<1>3. GetInvalidImageName(podList) => Fails(podCache)
  <2> SUFFICES ASSUME GetInvalidImageName(podList) PROVE Fails(podCache)
    OBVIOUS
  <2>1. PICK i \in DOMAIN podList :
           \/ \E k \in DOMAIN podList[i].inits : IsInvalidImage(podList[i].inits[k])
           \/ \E k \in DOMAIN podList[i].containers : IsInvalidImage(podList[i].containers[k])
    BY DEF GetInvalidImageName
  <2>2. PICK j \in DOMAIN podCache : podList[i] = PodAt(podCache[j])
    BY <1>1
  <2>3. podCache[j].at = "BadImage"
    BY <1>2, <2>1, <2>2, ImageRead
  <2> QED
    BY <2>3 DEF Fails
<1> DEFINE exit == GetMainContainerExitStatus(podList)
<1>4. ASSUME exit.seen
      PROVE  \E j \in DOMAIN podCache :
               /\ exit.code = podCache[j].code /\ podCache[j].code \in {0, 1}
               /\ exit.attempts \in 0 .. (MaxRestarts + 1) /\ exit.attempts <= Exits(podCache[j])
  <2>1. \A i \in DOMAIN podList :
           LET e == getPodMainContainerExitStatus(podList[i])
           IN  e.seen => e.attempts \in 0 .. (MaxRestarts + 1)
    BY <1>1, <1>2, ExitRead
  <2>2. MaxRestarts + 1 \in Nat
    OBVIOUS
  <2>3. PICK i \in DOMAIN podList :
           /\ getPodMainContainerExitStatus(podList[i]).seen
           /\ exit = getPodMainContainerExitStatus(podList[i])
    BY <1>1, <1>4, <2>1, <2>2, ExitPicked
  <2>4. PICK j \in DOMAIN podCache : podList[i] = PodAt(podCache[j])
    BY <1>1
  <2> HIDE DEF exit
  <2> QED
    BY <1>2, <2>3, <2>4, ExitRead
<1> HIDE DEF exit
<1>5. ASSUME exit.seen
      PROVE  /\ Replicas = 1 /\ exit.code = 0 => Succeeds(podCache)
             /\ exit.code # 0 /\ ~(BackoffLimit < 0) /\ ~(exit.attempts <= BackoffLimit)
                     /\ BackoffLimit \in Int => Fails(podCache)
  <2>1. PICK j \in DOMAIN podCache :
               /\ exit.code = podCache[j].code /\ podCache[j].code \in {0, 1}
               /\ exit.attempts \in 0 .. (MaxRestarts + 1) /\ exit.attempts <= Exits(podCache[j])
    BY <1>4, <1>5
  <2>2. /\ PodOK(podCache[j]) /\ podCache[j].fails \in Nat /\ Exits(podCache[j]) \in Nat
        /\ podCache[j].code = 0 => podCache[j].fails < Exits(podCache[j])
        /\ podCache[j].code = 1 => podCache[j].fails > 0
    BY <1>2 DEF PodOK, Pod, Exits
  <2> QED
    BY <2>1, <2>2 DEF Succeeds, Fails
<1> QED
  BY <1>3, <1>5 DEF exit

\* What the assumption on the setups says of this one.
LEMMA SetupFacts ==
  ASSUME setup \in Setups
  PROVE  BackoffLimit \in Int /\ MaxRestarts \in Nat
BY ServiceSetups DEF BackoffLimit, MaxRestarts

\* The kubelet only adds to what a pod has been through.
LEMMA KubeletAdds ==
  ASSUME NEW pod, PodOK(pod), MaxRestarts \in Nat, NEW new \in KubeletMoves(pod)
  PROVE  PodOK(new) /\ Before(pod, new)
<1>1. /\ pod \in Pod /\ pod.restarts \in Nat /\ pod.fails \in Nat /\ pod.restarts <= MaxRestarts
      /\ pod.fails <= Exits(pod)
      /\ pod.code = 0 => pod.fails < Exits(pod)
      /\ pod.code = 1 => pod.fails > 0
      /\ pod.at \in {"NotReady", "BadImage"} => pod.code = NoCode
      /\ pod.at \in {"Exited", "BackOff"} => pod.code # NoCode
      /\ pod.at = "BackOff" => pod.restarts < MaxRestarts
  BY DEF PodOK, Pod
<1>2. pod.at \in PodStages
  BY <1>1 DEF Pod
<1>3. CASE pod.at = "NotReady"
  <2>1. new \in {[pod EXCEPT !.at = "Running"], [pod EXCEPT !.at = "BadImage"]}
    BY <1>3 DEF KubeletMoves
  <2>2. /\ new \in Pod /\ new.at \in {"Running", "BadImage"} /\ new.code = pod.code
        /\ new.restarts = pod.restarts /\ new.fails = pod.fails
    BY <1>1, <2>1 DEF Pod, PodStages
  <2>3. Exits(new) = pod.restarts /\ Exits(pod) = pod.restarts
    BY <1>1, <1>3, <2>2 DEF Exits
  <2> QED
    BY <1>1, <1>3, <2>2, <2>3 DEF PodOK, Before, NoCode
<1>4. CASE pod.at = "BadImage"
  BY <1>4 DEF KubeletMoves
<1>5. CASE pod.at = "Running"
  <2>1. PICK c \in {0, 1} : new = [pod EXCEPT !.at = "Exited", !.code = c, !.fails = @ + c]
    BY <1>5 DEF KubeletMoves
  <2>2. /\ new \in Pod /\ new.at = "Exited" /\ new.code = c
        /\ new.restarts = pod.restarts /\ new.fails = pod.fails + c
    <3>1. PICK fails \in Nat : fails = pod.fails + c
      BY <1>1
    <3>2. new = [pod EXCEPT !.at = "Exited", !.code = c, !.fails = fails]
      BY <2>1, <3>1
    <3>3. c \in {NoCode, 0, 1} /\ "Exited" \in PodStages
      BY DEF PodStages
    <3> QED
      BY <1>1, <3>1, <3>2, <3>3 DEF Pod
  <2>3. Exits(new) = pod.restarts + 1 /\ Exits(pod) = pod.restarts
    BY <1>1, <1>5, <2>2 DEF Exits
  <2> QED
    BY <1>1, <1>5, <2>2, <2>3 DEF PodOK, Before, NoCode
<1>6. CASE pod.at \in {"Exited", "BackOff"}
  <2>1. /\ pod.restarts < MaxRestarts
        /\ new \in {[pod EXCEPT !.at = "Running", !.restarts = @ + 1], [pod EXCEPT !.at = "BackOff"]}
    BY <1>1, <1>6 DEF KubeletMoves
  <2>2. /\ new \in Pod /\ new.code = pod.code /\ new.fails = pod.fails
        /\ \/ new.at = "Running" /\ new.restarts = pod.restarts + 1
           \/ new.at = "BackOff" /\ new.restarts = pod.restarts
    <3>1. PICK more \in Nat : more = pod.restarts + 1
      BY <1>1
    <3>2. new \in {[pod EXCEPT !.at = "Running", !.restarts = more], [pod EXCEPT !.at = "BackOff"]}
      BY <2>1, <3>1
    <3>3. "Running" \in PodStages /\ "BackOff" \in PodStages
      BY DEF PodStages
    <3> QED
      BY <1>1, <3>1, <3>2, <3>3 DEF Pod
  <2>3. Exits(new) = pod.restarts + 1 /\ Exits(pod) = pod.restarts + 1
    BY <1>1, <1>6, <2>2 DEF Exits
  <2> QED
    BY <1>1, <1>6, <2>1, <2>2, <2>3 DEF PodOK, Before
<1> QED
  BY <1>2, <1>3, <1>4, <1>5, <1>6 DEF PodStages

\* A pod starts without an exit.
LEMMA NewPodOK == ASSUME MaxRestarts \in Nat PROVE PodOK(NewPod)
<1>1. /\ NewPod \in Pod /\ NewPod.at = "NotReady" /\ NewPod.code = NoCode /\ NewPod.restarts = 0
      /\ NewPod.fails = 0
  BY DEF NewPod, Pod, PodStages
<1>2. Exits(NewPod) = 0
  BY <1>1 DEF Exits
<1> QED
  BY <1>1, <1>2 DEF PodOK, NoCode

\* A pod is before itself, and what is before is so at any later time.
LEMMA BeforeFacts ==
  ASSUME NEW old \in Pod
  PROVE  /\ Exits(old) \in Nat /\ Before(old, old)
         /\ \A mid, new \in Pod : Before(old, mid) /\ Before(mid, new) => Before(old, new)
<1>1. \A pod \in Pod : Exits(pod) \in Nat /\ pod.fails \in Nat
  BY DEF Pod, Exits
<1> QED
  BY <1>1 DEF Before

(***************************************************************************)
(* What happened stays so, and what was recorded stays justified.          *)
(***************************************************************************)
\* Every pod of the first list is in the second one, where it has been through
\* at least as much.
Grows(list, later) == \A i \in DOMAIN list : i \in DOMAIN later /\ Before(list[i], later[i])

\* Grounds stay grounds, and what grows keeps growing.
LEMMA GrowsFacts ==
  ASSUME NEW list \in Seq(Pod), NEW later \in Seq(Pod), Grows(list, later), setup \in Setups
  PROVE  /\ Succeeds(list) => Succeeds(later)
         /\ Fails(list) => Fails(later)
         /\ \A last \in Seq(Pod) : Grows(later, last) => Grows(list, last)
<1>1. \A i \in DOMAIN list :
        /\ i \in DOMAIN later /\ Before(list[i], later[i]) /\ list[i] \in Pod /\ later[i] \in Pod
        /\ list[i].fails \in Nat /\ later[i].fails \in Nat
        /\ Exits(list[i]) \in Nat /\ Exits(later[i]) \in Nat
  <2> SUFFICES ASSUME NEW i \in DOMAIN list
               PROVE  /\ i \in DOMAIN later /\ Before(list[i], later[i])
                      /\ list[i] \in Pod /\ later[i] \in Pod
                      /\ list[i].fails \in Nat /\ later[i].fails \in Nat
                      /\ Exits(list[i]) \in Nat /\ Exits(later[i]) \in Nat
    OBVIOUS
  <2>1. i \in DOMAIN later /\ Before(list[i], later[i])
    BY DEF Grows
  <2>2. list[i] \in Pod /\ later[i] \in Pod
    BY <2>1
  <2>3. \A pod \in Pod : pod.fails \in Nat
    BY DEF Pod
  <2> QED
    BY <2>1, <2>2, <2>3, BeforeFacts
<1>2. Succeeds(list) => Succeeds(later)
  BY <1>1 DEF Succeeds, Before
<1>3. Fails(list) => Fails(later)
  <2> SUFFICES ASSUME Fails(list) PROVE Fails(later)
    OBVIOUS
  <2>1. PICK i \in DOMAIN list :
           \/ list[i].at = "BadImage"
           \/ list[i].fails > 0 /\ Exits(list[i]) > BackoffLimit /\ BackoffLimit >= 0
    BY DEF Fails
  <2>2. BackoffLimit \in Int
    BY SetupFacts
  <2>3. \/ later[i].at = "BadImage"
        \/ later[i].fails > 0 /\ Exits(later[i]) > BackoffLimit /\ BackoffLimit >= 0
    BY <1>1, <2>1, <2>2 DEF Before
  <2> QED
    BY <1>1, <2>3 DEF Fails
<1>4. ASSUME NEW last \in Seq(Pod), Grows(later, last)
      PROVE  Grows(list, last)
  <2> SUFFICES ASSUME NEW i \in DOMAIN list PROVE i \in DOMAIN last /\ Before(list[i], last[i])
    BY DEF Grows
  <2>1. i \in DOMAIN last /\ Before(later[i], last[i]) /\ last[i] \in Pod
    BY <1>1, <1>4 DEF Grows
  <2> QED
    BY <1>1, <2>1, BeforeFacts
<1> QED
  BY <1>2, <1>3, <1>4

\* A list grows into itself.
LEMMA GrowsSame == ASSUME NEW list \in Seq(Pod) PROVE Grows(list, list)
<1>1. \A i \in DOMAIN list : list[i] \in Pod
  OBVIOUS
<1> QED
  BY <1>1, BeforeFacts DEF Grows

\* A step that takes back nothing of what happened, unless it disturbs.
Past ==
  /\ setup' = setup /\ removals' \in {removals, removals + 1}
  /\ overdue => overdue'
  /\ Undisturbed' => Grows(pods, pods')

\* The grounds of an outcome.
Grounds(type, list) ==
  /\ type = "Succeeded" => Succeeds(list)
  /\ type = "Failed" => Fails(list)
  /\ type = "Stopped" => overdue

\* Nothing undoes a disturbance.
LEMMA DisturbedStays ==
  ASSUME PodInv, Move, Past, Undisturbed'
  PROVE  Undisturbed
<1>1. op.life = "gone" => op' = op
  BY OpMoves DEF PodInv, Move
<1>2. removals \in Nat
  BY DEF PodInv
<1> QED
  BY <1>1, <1>2 DEF Undisturbed, Past

\* A step that records nothing without grounds keeps the invariant.
LEMMA StepKeeps ==
  ASSUME PodInv, Move, Past, PodsOK', Earlier', StatusesOK',
         Undisturbed => \A t \in Outcomes(op'.status) : t \in Outcomes(op.status) \/ Grounds(t, pods)
  PROVE  PodInv'
<1>1. SharedInv' /\ setup' \in Setups /\ removals' \in Nat
  BY MoveKeeps DEF PodInv, Past
<1>2. Justified'
  <2> SUFFICES ASSUME Undisturbed'
               PROVE  /\ "Succeeded" \in op'.status.has => Succeeds(pods)'
                      /\ "Failed" \in op'.status.has => Fails(pods)'
                      /\ "Stopped" \in op'.status.has => overdue'
    BY DEF Justified
  <2>1. Undisturbed /\ Grows(pods, pods')
    BY DisturbedStays DEF Past
  <2>2. /\ "Succeeded" \in op.status.has => Succeeds(pods)
        /\ "Failed" \in op.status.has => Fails(pods)
        /\ "Stopped" \in op.status.has => overdue
    BY <2>1 DEF PodInv, Justified
  <2>3. pods \in Seq(Pod) /\ pods' \in Seq(Pod)
    BY DEF PodInv, PodsOK
  <2>4. /\ Succeeds(pods) => Succeeds(pods')
        /\ Fails(pods) => Fails(pods')
    BY <2>1, <2>3, GrowsFacts DEF PodInv
  <2>5. (Succeeds(pods') => Succeeds(pods)') /\ (Fails(pods') => Fails(pods)')
    BY DEF Past, Succeeds, Fails, Replicas, BackoffLimit
  <2>6. \A t \in {"Succeeded", "Failed", "Stopped"} :
           t \in op'.status.has => t \in op.status.has \/ Grounds(t, pods)
    BY <2>1 DEF Outcomes, FinalTypes
  <2> QED
    BY <2>2, <2>4, <2>5, <2>6 DEF Grounds, Past
<1> QED
  BY <1>1, <1>2 DEF PodInv

(***************************************************************************)
(* The steps of a pass.                                                    *)
(***************************************************************************)
\* The pods, the deadline and the removals are left alone.
Still == UNCHANGED <<setup, pods, podCache, removals, overdue>>

\* Such a step takes back nothing, and the cached pods stay earlier ones.
LEMMA StillFacts == ASSUME PodInv, Move, Still PROVE Past /\ PodsOK' /\ Earlier'
<1>1. pods \in Seq(Pod) /\ Grows(pods, pods)
  BY GrowsSame DEF PodInv, PodsOK
<1>2. Past
  BY <1>1 DEF Past, Still
<1>3. PodsOK'
  BY DEF PodInv, PodsOK, PodOK, Still, MaxRestarts
<1>4. Undisturbed' => Undisturbed
  BY <1>2, DisturbedStays
<1> QED
  BY <1>2, <1>3, <1>4 DEF PodInv, Earlier, Still

\* It keeps the invariant if it records nothing without grounds.
LEMMA StillKeeps ==
  ASSUME PodInv, Move, Still, StatusesOK',
         Undisturbed => \A t \in Outcomes(op'.status) : t \in Outcomes(op.status) \/ Grounds(t, pods)
  PROVE  PodInv'
BY StillFacts, StepKeeps

\* A new operation has no outcome to be wrong about.
LEMMA NewStatusOK == StatusOK(NewOp.status)
BY NewOpFacts DEF StatusOK

\* Statuses that are alike.
LEMMA AlikeFacts ==
  ASSUME NEW s, NEW t, Alike(s, t)
  PROVE  Outcomes(s) = Outcomes(t) /\ (StatusOK(t) => StatusOK(s))
BY DEF Alike, Outcomes, StatusOK, IsDone

\* The shared handlers carry statuses from one copy to another.
LEMMA CarriedKeeps ==
  ASSUME PodInv, Move, Carried
  PROVE  /\ StatusesOK'
         /\ \A t \in Outcomes(op'.status) : t \in Outcomes(op.status)
<1>1. StatusOK(op.status) /\ StatusOK(opCache.status) /\ StatusOK(inst.status)
  BY DEF PodInv, StatusesOK
<1>2. StatusOK(op'.status)
  BY <1>1, AlikeFacts DEF Carried
<1>3. StatusOK(opCache'.status) /\ StatusOK(inst'.status)
  BY <1>1, <1>2, NewStatusOK DEF Carried
<1>4. IsDone(inst.status) => Outcomes(inst.status) = Outcomes(op.status)
  BY DEF PodInv, SharedInv, CopiesOlder, Older
<1>5. \A t \in Outcomes(op'.status) : t \in Outcomes(op.status)
  BY <1>4, AlikeFacts, DoneOutcomes DEF Carried
<1> QED
  BY <1>2, <1>3, <1>5 DEF StatusesOK

\* The shared handlers keep the invariant.
LEMMA HandlersKeep ==
  ASSUME PodInv, Move, HandlerStep, overdue' = overdue
  PROVE  PodInv'
<1>1. Still /\ Carried
  BY DEF HandlerStep, Still
<1> QED
  BY <1>1, CarriedKeeps, StillKeeps

\* A step that changes at most the controller's copy.
LEMMA QuietKeeps ==
  ASSUME PodInv, Move, Still, opCache' = opCache, op'.status = op.status, StatusOK(inst'.status)
  PROVE  PodInv'
<1>1. StatusesOK'
  BY DEF PodInv, StatusesOK
<1> QED
  BY <1>1, StillKeeps

\* A status is written: what it adds has its grounds in the cached pods.
LEMMA WrittenKeeps ==
  ASSUME PodInv, Move, NEW new \in OperationStatusType, StatusOK(new), NEW next,
         WriteStatus(new, next), UNCHANGED <<setup, opCache, podCache, removals, overdue>>,
         \A t \in Outcomes(new) : t \in Outcomes(inst.status) \/ Grounds(t, podCache)
  PROVE  PodInv'
<1>1. /\ op' = op \/ (op.life # "gone" /\ op'.status = new)
      /\ inst' \in {NewOp, op'}
  BY StatusSteps DEF PodInv
<1>2. pods' = pods
  BY StatusSteps DEF PodInv
<1>3. Still
  BY <1>2 DEF Still
<1>4. StatusOK(op'.status)
  BY <1>1 DEF PodInv, StatusesOK
<1>5. StatusesOK'
  BY <1>1, <1>4, NewStatusOK DEF PodInv, StatusesOK
<1>6. ASSUME Undisturbed, NEW t \in Outcomes(op'.status)
      PROVE  t \in Outcomes(op.status) \/ Grounds(t, pods)
  <2>1. Grows(podCache, pods) /\ podCache \in Seq(Pod) /\ pods \in Seq(Pod) /\ setup \in Setups
    BY <1>6 DEF PodInv, PodsOK, Earlier, Grows
  <2>2. Grounds(t, podCache) => Grounds(t, pods)
    BY <2>1, GrowsFacts DEF Grounds
  <2>3. t \in Outcomes(inst.status) => t \in Outcomes(op.status)
    BY DoneOutcomes DEF PodInv, SharedInv, CopiesOlder, Older
  <2> QED
    BY <1>1, <1>6, <2>2, <2>3
<1> QED
  BY <1>3, <1>5, <1>6, StillKeeps

\* A warning that the owned resource or the base Service could not be created.
LEMMA WarningKeeps ==
  ASSUME PodInv, Move, Still, op' = op, opCache' = opCache, NEW why \in Reasons, CreateFailed(why),
         IsDone(inst.status) => why = "OperatorCreateService"
  PROVE  PodInv'
<1> DEFINE new == LogWarning(inst.status, why)
<1>1. /\ inst \in Op /\ inst.status \in OperationStatusType /\ OneListed(inst.status)
      /\ StatusOK(inst.status)
  BY DEF PodInv, SharedInv, SharedTypeOK, Op, Statuses, StatusesOK
<1>2. new \in OperationStatusType /\ Outcomes(new) = Outcomes(inst.status)
      /\ new.completion = inst.status.completion
  BY <1>1, LoggerFacts
<1>3. new.last = NewOperationCondition("Warning", why)
  BY <1>1 DEF LogWarning, logCondition, OperationStatusType
<1> HIDE DEF new
<1>4. "Stopped" \in inst.status.has => "Stopped" \in new.has
  BY <1>2 DEF Outcomes, FinalTypes
<1>5. StatusOK(new)
  BY <1>1, <1>2, <1>3, <1>4, DoneOutcomes DEF StatusOK
<1>6. inst' \in {NewOp, [inst EXCEPT !.status = new]}
  BY DEF CreateFailed, Log, ReturnError, Forget, new
<1>7. inst'.status \in {NewOp.status, new}
  BY <1>1, <1>2, <1>6 DEF Op
<1>8. StatusOK(inst'.status)
  BY <1>5, <1>7, NewStatusOK
<1> QED
  BY <1>8, QuietKeeps

\* A step of the pass that stores nothing and keeps or forgets its copy.
LEMMA ReadingKeeps ==
  ASSUME PodInv, Move, Still, op' = op, opCache' = opCache, inst' \in {inst, NewOp}
  PROVE  PodInv'
<1>1. StatusOK(inst'.status)
  BY NewStatusOK DEF PodInv, StatusesOK
<1> QED
  BY <1>1, QuietKeeps

\* The judgement of the exit of the main container.
LEMMA ExitKeeps ==
  ASSUME PodInv, Move, handleServiceContainerExit, ~IsDone(inst.status),
         pc \in {"checkStatus", "service", "deadline"},
         UNCHANGED <<setup, opCache, podCache, removals, overdue>>
  PROVE  PodInv'
<1>1. /\ inst.status \in OperationStatusType /\ OneListed(inst.status) /\ SharedInv
      /\ PodsOK /\ setup \in Setups /\ StatusOK(inst.status)
  BY LiveCopy DEF PodInv, StatusesOK
<1>2. MaxRestarts \in Nat /\ BackoffLimit \in Int
  BY <1>1, SetupFacts
<1>3. PICK podList \in ListInstancePods(podCache) :
         LET new == ExitEnds(inst.status, GetMainContainerExitStatus(podList))
         IN  WriteStatus(new, "requeue") \/ handleCulling
  BY DEF handleServiceContainerExit
<1> DEFINE exit == GetMainContainerExitStatus(podList)
           new  == ExitEnds(inst.status, exit)
<1>4. WriteStatus(new, "requeue") \/ handleCulling
  BY <1>3
<1>5. CASE handleCulling
  <2>1. op' = op /\ pods' = pods /\ inst' \in {inst, NewOp}
    BY <1>5 DEF handleCulling, Finish, Cull, Return, Forget, cluster
  <2> QED
    BY <2>1, ReadingKeeps DEF Still
<1>6. CASE WriteStatus(new, "requeue")
  <2>1. /\ GetInvalidImageName(podList) => Fails(podCache)
        /\ exit.seen =>
              /\ Replicas = 1 /\ exit.code = 0 => Succeeds(podCache)
              /\ exit.code # 0 /\ ~(BackoffLimit < 0) /\ ~(exit.attempts <= BackoffLimit)
                 /\ BackoffLimit \in Int => Fails(podCache)
    BY <1>1, <1>2, JudgedPods
  <2>2. \/ new = inst.status
        \/ new = LogSucceeded(inst.status) /\ exit.seen /\ Replicas = 1 /\ exit.code = 0
        \/ /\ new = LogFailed(inst.status, "ContainerFailure") /\ exit.seen
           /\ exit.code # 0 /\ ~(BackoffLimit < 0) /\ ~(exit.attempts <= BackoffLimit)
    BY DEF ExitEnds
  <2> HIDE DEF new, exit
  <2>3. "ContainerFailure" \in Reasons
    BY ServiceReasons
  <2>4. CASE new = inst.status
    BY <1>1, <1>6, <2>4, WrittenKeeps
  <2>5. CASE new = LogSucceeded(inst.status) /\ Succeeds(podCache)
    <3>1. /\ new \in OperationStatusType /\ Outcomes(new) = {"Succeeded"} /\ new.completion
          /\ new.last.type = "Succeeded"
      BY <1>1, <2>3, <2>5, LoggerFacts
    <3>2. StatusOK(new) /\ Grounds("Succeeded", podCache)
      BY <2>5, <3>1 DEF StatusOK, Grounds, FinalTypes
    <3> QED
      BY <1>6, <3>1, <3>2, WrittenKeeps
  <2>6. CASE new = LogFailed(inst.status, "ContainerFailure") /\ Fails(podCache)
    <3>1. /\ new \in OperationStatusType /\ Outcomes(new) = {"Failed"} /\ new.completion
          /\ new.last.type = "Failed"
      BY <1>1, <2>3, <2>6, LoggerFacts
    <3>2. StatusOK(new) /\ Grounds("Failed", podCache)
      BY <2>6, <3>1 DEF StatusOK, Grounds, FinalTypes
    <3> QED
      BY <1>6, <3>1, <3>2, WrittenKeeps
  <2> QED
    BY <1>2, <2>1, <2>2, <2>4, <2>5, <2>6
<1> QED
  BY <1>4, <1>5, <1>6

\* The judgement of the deadline.
LEMMA DeadlineKeeps ==
  ASSUME PodInv, Move, handlePastActiveDeadline, pc \in {"checkStatus", "service", "deadline"},
         UNCHANGED <<setup, opCache, podCache, removals, overdue>>
  PROVE  PodInv'
<1>1. inst.status \in OperationStatusType /\ OneListed(inst.status)
  BY LiveCopy DEF PodInv
<1>2. CASE Return /\ UNCHANGED cluster
  <2>1. op' = op /\ pods' = pods /\ inst' \in {inst, NewOp}
    BY <1>2 DEF Return, Forget, cluster
  <2> QED
    BY <2>1, ReadingKeeps DEF Still
<1>3. CASE /\ ~IsDone(inst.status) /\ overdue
           /\ WriteStatus(LogStopped(inst.status, "DeadlineExceeded"), "delete")
  <2> DEFINE new == LogStopped(inst.status, "DeadlineExceeded")
  <2>1. "DeadlineExceeded" \in Reasons
    BY ServiceReasons
  <2>2. new \in OperationStatusType /\ Outcomes(new) = {"Stopped"} /\ new.last.type = "Stopped"
    BY <1>1, <1>3, <2>1, LoggerFacts
  <2>3. WriteStatus(new, "delete")
    BY <1>3
  <2> HIDE DEF new
  <2>4. StatusOK(new) /\ Grounds("Stopped", podCache)
    BY <1>3, <2>2 DEF StatusOK, Grounds, FinalTypes, Outcomes
  <2> QED
    BY <2>2, <2>3, <2>4, WrittenKeeps
<1>4. CASE ~IsDone(inst.status) /\ handleServiceContainerExit
  BY <1>4, ExitKeeps
<1> QED
  BY <1>2, <1>3, <1>4 DEF handlePastActiveDeadline

\* The base Service.
LEMMA BaseServiceKeeps ==
  ASSUME PodInv, Move, reconcileBaseService, pc \in {"checkStatus", "service"},
         UNCHANGED <<setup, opCache, podCache, removals, overdue>>
  PROVE  PodInv'
<1>1. CASE handlePastActiveDeadline
  BY <1>1, DeadlineKeeps
<1>2. CASE createService
  <2>1. op' = op /\ pods' = pods
    BY <1>2 DEF createService, cluster
  <2>2. CASE CreateFailed("OperatorCreateService")
    <3>1. "OperatorCreateService" \in Reasons
      BY ServiceReasons
    <3> QED
      BY <2>1, <2>2, <3>1, WarningKeeps DEF Still
  <2>3. CASE UNCHANGED inst
    BY <2>1, <2>3, ReadingKeeps DEF Still
  <2> QED
    BY <1>2, <2>2, <2>3 DEF createService
<1> QED
  BY <1>1, <1>2 DEF reconcileBaseService

\* The Deployment is created or read.
LEMMA DeploymentKeeps == ASSUME PodInv, Move, reconcileDeployment PROVE PodInv'
<1>1. /\ Still /\ opCache' = opCache /\ op' = op /\ pc = "runtime"
  BY DEF reconcileDeployment, Still, elsewhere, caches, Within, around, UpdateOwned, Create, cluster
<1>2. /\ inst \in Op /\ inst.status \in OperationStatusType /\ OneListed(inst.status)
      /\ ~IsDone(inst.status)
  BY <1>1, LiveCopy DEF PodInv
<1>3. CASE inst' \in {inst, NewOp}
  BY <1>1, <1>3, ReadingKeeps
<1>4. CASE CreateFailed("OperatorCreateDeployment")
  <2>1. "OperatorCreateDeployment" \in Reasons
    BY ServiceReasons
  <2> QED
    BY <1>1, <1>2, <1>4, <2>1, WarningKeeps
<1>5. CASE Log(LogStarting(inst.status), "checkStatus")
  <2> DEFINE new == LogStarting(inst.status)
  <2>1. new \in OperationStatusType /\ Outcomes(new) = Outcomes(inst.status)
    BY <1>2, OperatorReasons, LoggerFacts
  <2>2. inst' = [inst EXCEPT !.status = new]
    BY <1>5 DEF Log
  <2> HIDE DEF new
  <2>3. inst'.status = new
    BY <1>2, <2>1, <2>2 DEF Op
  <2>4. StatusOK(inst'.status)
    BY <1>2, <2>1, <2>3, DoneOutcomes DEF StatusOK
  <2> QED
    BY <1>1, <2>4, QuietKeeps
<1> QED
  BY <1>3, <1>4, <1>5 DEF reconcileDeployment, UpdateOwned, Create, ReturnError, Forget

\* The Deployment is judged.
LEMMA CheckStatusKeeps == ASSUME PodInv, Move, checkStatus PROVE PodInv'
<1>1. /\ UNCHANGED <<setup, opCache, podCache, removals, overdue>> /\ pc = "checkStatus"
  BY DEF checkStatus, elsewhere, caches
<1>2. /\ inst.status \in OperationStatusType /\ OneListed(inst.status) /\ SharedInv
      /\ PodsOK /\ setup \in Setups /\ ~IsDone(inst.status)
  BY <1>1, LiveCopy DEF PodInv
<1>3. MaxRestarts \in Nat
  BY <1>2, SetupFacts
<1>4. PICK podList \in ListInstancePods(podCache) :
         LET result == reconcileDeploymentStatus(inst.status, DeploymentStatus(found), podList)
         IN  WriteStatus(result.status, "service") \/ reconcileBaseService
  BY DEF checkStatus
<1> DEFINE new == reconcileDeploymentStatus(inst.status, DeploymentStatus(found), podList).status
<1>5. WriteStatus(new, "service") \/ reconcileBaseService
  BY <1>4
<1>6. /\ new \in OperationStatusType
      /\ \/ new = LogFailed(inst.status, "InvalidImageName") /\ GetInvalidImageName(podList)
         \/ Outcomes(new) = Outcomes(inst.status)
  BY <1>2, DeploymentFacts
<1> HIDE DEF new
<1>7. CASE reconcileBaseService
  BY <1>1, <1>7, BaseServiceKeeps
<1>8. CASE WriteStatus(new, "service") /\ Outcomes(new) = Outcomes(inst.status)
  <2>1. StatusOK(new)
    BY <1>2, <1>8, DoneOutcomes DEF StatusOK
  <2> QED
    BY <1>1, <1>6, <1>8, <2>1, WrittenKeeps
<1>9. CASE /\ WriteStatus(new, "service") /\ GetInvalidImageName(podList)
           /\ new = LogFailed(inst.status, "InvalidImageName")
  <2>1. "InvalidImageName" \in Reasons
    BY ServiceReasons
  <2>2. /\ Outcomes(new) = {"Failed"} /\ new.completion /\ new.last.type = "Failed"
    BY <1>2, <1>9, <2>1, LoggerFacts
  <2>3. Fails(podCache)
    BY <1>2, <1>3, <1>9, JudgedPods
  <2>4. StatusOK(new) /\ Grounds("Failed", podCache)
    BY <2>2, <2>3 DEF StatusOK, Grounds, FinalTypes
  <2> QED
    BY <1>1, <1>6, <1>9, <2>2, <2>4, WrittenKeeps
<1> QED
  BY <1>5, <1>6, <1>7, <1>8, <1>9

\* A delete leaves the status alone.
LEMMA DeleteStatus == ASSUME SharedInv, DeleteOp PROVE op'.status = op.status /\ pods' = pods
<1> DEFINE new == [op EXCEPT !.life = "deleting"]
<1>1. new \in Op /\ new.status = op.status /\ Put(new)
  BY DEF DeleteOp, SharedInv, SharedTypeOK, Op
<1> HIDE DEF new
<1> QED
  BY <1>1, PutStores DEF Put

\* Every step of a pass.
LEMMA ReconcileKeeps == ASSUME PodInv, Move, Reconcile PROVE PodInv'
<1>1. SharedInv
  BY DEF PodInv
<1>2. CASE \/ Fetch \/ AddStartTime \/ AddLogsFinalizer \/ AddStatusFinalizer
           \/ handleFinalizersStop \/ collectLogs \/ removeFinalizer \/ handleTTL
           \/ writeStatus \/ instanceSyncStatus
  <2>1. HandlerStep
    BY <1>1, <1>2, WritersCarry, ReadersCarry
       DEF Fetch, AddStartTime, AddLogsFinalizer, AddStatusFinalizer, handleFinalizersStop,
           collectLogs, removeFinalizer, handleTTL, writeStatus, instanceSyncStatus
  <2>2. overdue' = overdue
    BY <1>2 DEF Fetch, AddStartTime, AddLogsFinalizer, AddStatusFinalizer, handleFinalizersStop,
           collectLogs, removeFinalizer, handleTTL, writeStatus, instanceSyncStatus, Within, around
  <2> QED
    BY <2>1, <2>2, HandlersKeep
<1>3. CASE checkService
  BY <1>3, BaseServiceKeeps DEF checkService, elsewhere, caches
<1>4. CASE checkDeadline
  BY <1>4, DeadlineKeeps DEF checkDeadline, elsewhere, caches, Within, around
<1>5. CASE delete
  <2>1. /\ UNCHANGED <<setup, opCache, podCache, removals, overdue>> /\ inst' = NewOp
    BY <1>5 DEF delete, elsewhere, caches, Within, around, Delete, Return, ReturnError, Forget
  <2>2. DeleteOp \/ UNCHANGED cluster
    BY <1>5 DEF delete, Delete
  <2>3. op'.status = op.status /\ pods' = pods
    BY <1>1, <2>2, DeleteStatus DEF cluster
  <2>4. StatusOK(inst'.status)
    BY <2>1, NewStatusOK
  <2> QED
    BY <2>1, <2>3, <2>4, QuietKeeps DEF Still
<1> QED
  BY <1>2, <1>3, <1>4, <1>5, DeploymentKeeps, CheckStatusKeeps DEF Reconcile

(***************************************************************************)
(* The watches, the clock and the cluster.                                 *)
(***************************************************************************)
\* A step beside the pass that records nothing.
LEMMA AsideKeeps ==
  ASSUME PodInv, Move, Past, PodsOK', Earlier', op'.status = op.status, opCache' \in {opCache, op},
         inst' \in {inst, NewOp}
  PROVE  PodInv'
<1>1. StatusesOK'
  BY NewStatusOK DEF PodInv, StatusesOK
<1> QED
  BY <1>1, StepKeeps

\* The pods stay; the cache keeps its list of them or takes the current one.
LEMMA WatchesKeep ==
  ASSUME PodInv, Move, op'.status = op.status, opCache' \in {opCache, op}, inst' \in {inst, NewOp},
         UNCHANGED <<setup, pods, removals>>, overdue => overdue', podCache' \in {podCache, pods}
  PROVE  PodInv'
<1>1. pods \in Seq(Pod) /\ podCache \in Seq(Pod) /\ Grows(pods, pods)
  BY GrowsSame DEF PodInv, PodsOK
<1>2. Past
  BY <1>1 DEF Past
<1>3. PodsOK'
  BY DEF PodInv, PodsOK, PodOK, MaxRestarts
<1>4. Undisturbed' => Undisturbed
  BY <1>2, DisturbedStays
<1>5. Earlier'
  BY <1>1, <1>4 DEF PodInv, Earlier, Grows
<1> QED
  BY <1>2, <1>3, <1>5, AsideKeeps

\* The pods change, or something is removed.
LEMMA PodsChangeKeeps ==
  ASSUME PodInv, Move, op'.status = op.status, opCache' = opCache, inst' = inst,
         UNCHANGED <<setup, podCache, overdue>>, removals' \in {removals, removals + 1},
         pods' \in Seq(Pod), \A i \in DOMAIN pods' : PodOK(pods'[i]),
         Undisturbed' => Grows(pods, pods')
  PROVE  PodInv'
<1>1. Past
  BY DEF Past
<1>2. PodsOK'
  BY DEF PodInv, PodsOK, PodOK, MaxRestarts
<1>3. Earlier'
  <2> SUFFICES ASSUME Undisturbed' PROVE Grows(podCache, pods')
    BY DEF Earlier, Grows
  <2>1. Undisturbed /\ Grows(pods, pods')
    BY <1>1, DisturbedStays
  <2>2. Grows(podCache, pods) /\ podCache \in Seq(Pod) /\ pods \in Seq(Pod) /\ setup \in Setups
    BY <2>1 DEF PodInv, PodsOK, Earlier, Grows
  <2> QED
    BY <2>1, <2>2, GrowsFacts
<1> QED
  BY <1>1, <1>2, <1>3, AsideKeeps

\* The watches, the timers, the clock, the user and what the Deployment reports.
LEMMA AroundKeeps ==
  ASSUME PodInv, Move,
         \/ Watch \/ Replay \/ Requeue \/ Restart \/ Expire \/ UserStops \/ DeadlinePasses
         \/ ActivityChanges \/ DeploymentCounts \/ UNCHANGED vars
  PROVE  PodInv'
<1>1. CASE WatchService \/ WatchDeployment \/ mapPodToRequest \/ Replay \/ Expire
  <2>1. /\ op' = op /\ opCache' \in {opCache, op} /\ inst' = inst
        /\ UNCHANGED <<setup, pods, removals, overdue>> /\ podCache' \in {podCache, pods}
    BY <1>1 DEF WatchService, WatchDeployment, mapPodToRequest, Replay, Expire, WatchOp, WatchOwned,
                WatchPods, Resync, TTLPasses, outside, cluster, caches, worker, beside, around
  <2> QED
    BY <2>1, WatchesKeep
<1>2. CASE \/ WatchBaseService \/ Requeue \/ DeadlinePasses \/ ActivityChanges \/ UNCHANGED vars
  <2>1. /\ op' = op /\ opCache' = opCache /\ inst' = inst
        /\ UNCHANGED <<setup, pods, removals, podCache>> /\ (overdue => overdue')
    BY <1>2 DEF WatchBaseService, Requeue, RequeueAfter, DeadlinePasses, ActivityChanges, vars,
                kubeVars, cluster, elsewhere, caches, worker, beside, around
  <2> QED
    BY <2>1, WatchesKeep
<1>3. CASE Restart
  <2>1. /\ op' = op /\ opCache' = op /\ inst' = NewOp
        /\ UNCHANGED <<setup, pods, removals, overdue>> /\ podCache' = pods
    BY <1>3 DEF Restart, Crash, Forget, cluster
  <2> QED
    BY <2>1, WatchesKeep
<1>4. CASE UserStops
  <2>1. /\ DeleteOp /\ opCache' = opCache /\ inst' = inst
        /\ UNCHANGED <<setup, removals, overdue, podCache>>
    BY <1>4 DEF UserStops, UserDeletes, elsewhere, caches, worker, beside, around
  <2>2. op'.status = op.status /\ pods' = pods
    BY <2>1, DeleteStatus DEF PodInv
  <2> QED
    BY <2>1, <2>2, WatchesKeep
<1>5. CASE DeploymentCounts
  <2>1. PICK status : OwnedReports(status, TRUE)
    BY <1>5 DEF DeploymentCounts
  <2>2. /\ op' = op /\ opCache' = opCache /\ inst' = inst
        /\ UNCHANGED <<setup, pods, removals, podCache>>
    BY <2>1 DEF OwnedReports, operator, caches, worker
  <2>3. overdue' = overdue
    BY <1>5 DEF DeploymentCounts, beside, around
  <2> QED
    BY <2>2, <2>3, WatchesKeep
<1> QED
  BY <1>1, <1>2, <1>3, <1>4, <1>5 DEF Watch

\* The pods run, exit, restart and start.
LEMMA PodsRunKeeps == ASSUME PodInv, Move, PodMoves \/ DeploymentStartsPod PROVE PodInv'
<1>1. /\ op' = op /\ opCache' = opCache /\ inst' = inst
      /\ UNCHANGED <<setup, podCache, overdue, removals>>
  BY DEF PodMoves, DeploymentStartsPod, operator, caches, worker, beside, around
<1>2. /\ pods \in Seq(Pod) /\ \A i \in DOMAIN pods : PodOK(pods[i])
      /\ MaxRestarts \in Nat
  BY SetupFacts DEF PodInv, PodsOK
<1>3. \A pod : PodOK(pod) => pod \in Pod
  BY DEF PodOK
<1>4. \A i \in DOMAIN pods : pods[i] \in Pod /\ Before(pods[i], pods[i])
  BY <1>2, BeforeFacts
<1>5. CASE PodMoves
  <2>0. PICK i \in DOMAIN pods : \E pod \in KubeletMoves(pods[i]) : pods' = [pods EXCEPT ![i] = pod]
    BY <1>5 DEF PodMoves
  <2>1. PICK pod \in KubeletMoves(pods[i]) : pods' = [pods EXCEPT ![i] = pod]
    BY <2>0
  <2>2. PodOK(pod) /\ Before(pods[i], pod)
    BY <1>2, KubeletAdds
  <2>3. pods' \in Seq(Pod) /\ DOMAIN pods' = DOMAIN pods
    BY <1>2, <1>3, <2>1, <2>2
  <2>4. \A j \in DOMAIN pods' : pods'[j] = IF j = i THEN pod ELSE pods[j]
    BY <1>2, <2>1, <2>3
  <2>5. \A j \in DOMAIN pods' : PodOK(pods'[j]) /\ Before(pods[j], pods'[j])
    BY <1>2, <1>4, <2>2, <2>3, <2>4
  <2> QED
    BY <1>1, <2>3, <2>5, PodsChangeKeeps DEF Grows
<1>6. CASE DeploymentStartsPod
  <2>1. pods' = Append(pods, NewPod) /\ PodOK(NewPod) /\ NewPod \in Pod
    BY <1>2, <1>3, <1>6, NewPodOK DEF DeploymentStartsPod
  <2>2. /\ pods' \in Seq(Pod) /\ DOMAIN pods = 1 .. Len(pods) /\ DOMAIN pods' = 1 .. (Len(pods) + 1)
        /\ Len(pods) \in Nat
        /\ \A j \in 1 .. Len(pods) : pods'[j] = pods[j]
        /\ pods'[Len(pods) + 1] = NewPod
    BY <1>2, <2>1
  <2>3. \A j \in DOMAIN pods' : j \in DOMAIN pods \/ j = Len(pods) + 1
    BY <2>2
  <2>4. \A j \in DOMAIN pods' : PodOK(pods'[j])
    BY <1>2, <2>1, <2>2, <2>3
  <2>5. \A j \in DOMAIN pods : j \in DOMAIN pods' /\ pods'[j] = pods[j]
    BY <2>2
  <2>6. Grows(pods, pods')
    BY <1>4, <2>5 DEF Grows
  <2> QED
    BY <1>1, <2>2, <2>4, <2>6, PodsChangeKeeps
<1> QED
  BY <1>5, <1>6

\* Something is removed, or collected after the operation.
LEMMA RemovalKeeps ==
  ASSUME PodInv, Move, DeploymentDeleted \/ ServiceDeleted \/ Collected
  PROVE  PodInv'
<1>1. /\ op' = op /\ opCache' = opCache /\ inst' = inst /\ UNCHANGED <<setup, podCache, overdue>>
      /\ pods' \in {pods, <<>>} /\ removals' \in {removals, removals + 1}
      /\ removals' = removals + 1 \/ op.life = "gone"
  BY DEF DeploymentDeleted, ServiceDeleted, Collected, OwnedDeleted, OwnedCollected, DropOwned,
         operator, caches, worker, beside, around, kubeVars, cluster, elsewhere
<1>2. removals \in Nat /\ pods \in Seq(Pod) /\ \A i \in DOMAIN pods : PodOK(pods[i])
  BY DEF PodInv, PodsOK
<1>3. ~Undisturbed'
  BY <1>1, <1>2 DEF Undisturbed
<1>4. <<>> \in Seq(Pod) /\ DOMAIN <<>> = {}
  OBVIOUS
<1>5. pods' \in Seq(Pod) /\ \A i \in DOMAIN pods' : PodOK(pods'[i])
  BY <1>1, <1>2, <1>4
<1> QED
  BY <1>1, <1>3, <1>5, PodsChangeKeeps

\* Every step keeps the invariant.
LEMMA NextKeeps == PodInv /\ [Next]_vars => PodInv'
<1> SUFFICES ASSUME PodInv, [Next]_vars PROVE PodInv'
  OBVIOUS
<1>1. Move
  BY NextMoves DEF PodInv
<1> QED
  BY <1>1, ReconcileKeeps, AroundKeeps, PodsRunKeeps, RemovalKeeps DEF Next, World

\* It holds at first, without pods and without conditions.
LEMMA InitPods == ASSUME Init PROVE PodInv
<1>1. /\ setup \in Setups /\ op = NewOp /\ opCache = NewOp /\ inst = NewOp /\ pods = <<>>
      /\ podCache = <<>> /\ removals = 0 /\ SharedInv
  BY InitShared DEF Init, KubeInit
<1>2. <<>> \in Seq(Pod) /\ DOMAIN <<>> = {}
  OBVIOUS
<1>3. PodsOK /\ Earlier
  BY <1>1, <1>2 DEF PodsOK, Earlier
<1>4. StatusesOK
  BY <1>1, NewStatusOK DEF StatusesOK
<1>5. op.status.has = {}
  BY <1>1, NewOpFacts DEF NewStatus
<1> QED
  BY <1>1, <1>3, <1>4, <1>5 DEF PodInv, Justified

\* PodInv is inductive.
THEOREM PodInvariance == Spec => []PodInv
BY InitPods, NextKeeps, PTL DEF Spec

\* The Deployment, the main container and the deadline are judged from copies of
\* different ages, and calls fail, answers get lost and the operator restarts in
\* between; still one outcome is recorded, timed unless the deadline is the cause,
\* nothing but a failed base Service is logged after it and, while nothing was
\* removed, it is what the pods and the clock did.
THEOREM OutcomeMatchesPodsHolds == Spec => []OutcomeMatchesPods
<1>1. PodInv => OutcomeMatchesPods
  BY DEF PodInv, SharedInv, Statuses, OneListed, StatusesOK, StatusOK, Justified, Undisturbed,
         Succeeds, Fails, OutcomeMatchesPods
<1> QED
  BY <1>1, PodInvariance, PTL

(***************************************************************************)
(* What NoLostWakeup needs: the queue, the caches and the pass account for *)
(* everything that the service still waits for.  First, what the pods of a *)
(* Deployment say does not depend on the order in which they are listed.   *)
(***************************************************************************)
\* Every cached pod is listed.
LEMMA CachedPodListed ==
  ASSUME NEW list \in Seq(Pod), NEW podList \in ListInstancePods(list), NEW j \in DOMAIN list
  PROVE  \E i \in DOMAIN podList : podList[i] = PodAt(list[j])
<1> DEFINE shown == [i \in DOMAIN list |-> PodAt(list[i])]
           places == DOMAIN list
<1>1. podList \in Orders(shown) /\ DOMAIN shown = places
  BY DEF ListInstancePods
<1>2. PICK p \in [places -> places] :
        /\ podList = [i \in places |-> shown[p[i]]]
        /\ \A i, k \in places : p[i] = p[k] => i = k
  <2> HIDE DEF shown, places
  <2> QED
    BY <1>1 DEF Orders
<1>3. IsFiniteSet(places)
  <2>1. places = 1 .. Len(list) /\ Len(list) \in Int
    OBVIOUS
  <2> HIDE DEF places
  <2> QED
    BY <2>1, FS_Interval
<1>4. \E i \in places : p[i] = j
  <2> HIDE DEF places
  <2>1. p \in Injection(places, places)
    BY <1>2 DEF Injection, IsInjective
  <2>2. p \in Surjection(places, places)
    BY <1>3, <2>1, FS_Injection
  <2>3. j \in places
    BY DEF places
  <2> QED
    BY <2>2, <2>3 DEF Surjection
<1> QED
  BY <1>2, <1>4

\* The verdict on a pod: containers that are not ready, or none.
LEMMA StageVerdict ==
  ASSUME NEW pod, pod.at \in PodStages
  PROVE  /\ PodAt(pod).phase # "Succeeded"
         /\ PodVerdict(PodAt(pod)) \in {Verdict("Warning", "ContainersNotReady"), NoVerdict}
<1>1. ASSUME NEW phase \in {"Pending", "Running"}, NEW conds \in {"ready", "notReady"},
             NEW state, NEW reason, NEW code, NEW lastCode, NEW restarts,
             reason \notin {"ImagePullBackOff", "ErrImagePull"} \/ state # "waiting",
             phase = "Pending" => conds = "notReady"
      PROVE  LET shown == podStatus(phase, conds, container(state, reason, code, lastCode, restarts))
             IN  /\ shown.phase # "Succeeded"
                 /\ PodVerdict(shown) \in {Verdict("Warning", "ContainersNotReady"), NoVerdict}
  <2> DEFINE list  == container(state, reason, code, lastCode, restarts)
             shown == podStatus(phase, conds, list)
  <2>1. /\ DOMAIN shown.containers = {1} /\ shown.inits = <<>>
        /\ shown.containers[1].state = state /\ shown.containers[1].reason = reason
    BY OneContainer
  <2>2. shown.phase = phase /\ shown.conds = conds
    <3> HIDE DEF list
    <3> QED
      BY DEF podStatus
  <2> HIDE DEF shown
  <2>3. ~InitPulls(shown) /\ ~ContainerPulls(shown)
    BY <1>1, <2>1 DEF InitPulls, ContainerPulls, isPullingImage
  <2>4. PodVerdict(shown) \in {Verdict("Warning", "ContainersNotReady"), NoVerdict}
    BY <1>1, <2>2, <2>3 DEF PodVerdict, NotStarted
  <2> QED
    BY <1>1, <2>2, <2>4 DEF shown
<1> DEFINE shown == PodAt(pod)
           Plain(phase, conds, state, reason) ==
             shown = podStatus(phase, conds,
                               container(state, reason, pod.code,
                                         IF state = "terminated" THEN NoCode ELSE pod.code,
                                         pod.restarts))
<1>2. CASE pod.at = "NotReady"
  <2>1. Plain("Pending", "notReady", "waiting", "ContainerCreating")
    BY <1>2 DEF PodAt
  <2> HIDE DEF shown
  <2>2. shown.phase # "Succeeded" /\ PodVerdict(shown) \in {Verdict("Warning", "ContainersNotReady"), NoVerdict}
    BY <1>1, <2>1
  <2> QED
    BY <2>2 DEF shown
<1>3. CASE pod.at = "BadImage"
  <2>1. Plain("Pending", "notReady", "waiting", "InvalidImageName")
    BY <1>3 DEF PodAt
  <2> HIDE DEF shown
  <2>2. shown.phase # "Succeeded" /\ PodVerdict(shown) \in {Verdict("Warning", "ContainersNotReady"), NoVerdict}
    BY <1>1, <2>1
  <2> QED
    BY <2>2 DEF shown
<1>4. CASE pod.at = "Running"
  <2>1. PICK none : Plain("Running", "ready", "running", none)
    BY <1>4, Zenon DEF PodAt
  <2> HIDE DEF shown
  <2>2. shown.phase # "Succeeded" /\ PodVerdict(shown) \in {Verdict("Warning", "ContainersNotReady"), NoVerdict}
    BY <1>1, <2>1
  <2> QED
    BY <2>2 DEF shown
<1>5. CASE pod.at = "Exited"
  <2>1. Plain("Running", "notReady", "terminated", "Error")
    BY <1>5 DEF PodAt
  <2> HIDE DEF shown
  <2>2. shown.phase # "Succeeded" /\ PodVerdict(shown) \in {Verdict("Warning", "ContainersNotReady"), NoVerdict}
    BY <1>1, <2>1
  <2> QED
    BY <2>2 DEF shown
<1>6. CASE pod.at = "BackOff"
  <2>1. Plain("Running", "notReady", "waiting", "CrashLoopBackOff")
    BY <1>6 DEF PodAt
  <2> HIDE DEF shown
  <2>2. shown.phase # "Succeeded" /\ PodVerdict(shown) \in {Verdict("Warning", "ContainersNotReady"), NoVerdict}
    BY <1>1, <2>1
  <2> QED
    BY <2>2 DEF shown
<1> QED
  BY <1>2, <1>3, <1>4, <1>5, <1>6 DEF PodStages

\* What the Deployment and its pods say is the same for every order of the pods.
LEMMA OrderIrrelevant ==
  ASSUME PodsOK, NEW p \in ListInstancePods(podCache), NEW q \in ListInstancePods(podCache),
         NEW status, NEW ds
  PROVE  reconcileDeploymentStatus(status, ds, p) = reconcileDeploymentStatus(status, ds, q)
<1> DEFINE same == {Verdict("Warning", "ContainersNotReady"), NoVerdict}
<1>1. ASSUME NEW r \in ListInstancePods(podCache)
      PROVE  /\ DOMAIN r = DOMAIN podCache /\ DOMAIN r \in SUBSET Nat
             /\ \A i \in DOMAIN r : \E j \in DOMAIN podCache : r[i] = PodAt(podCache[j])
             /\ \A j \in DOMAIN podCache : \E i \in DOMAIN r : r[i] = PodAt(podCache[j])
             /\ \A i \in DOMAIN r : r[i].phase # "Succeeded" /\ PodVerdict(r[i]) \in same
             /\ r = <<>> <=> podCache = <<>>
  <2>1. podCache \in Seq(Pod) /\ \A j \in DOMAIN podCache : podCache[j].at \in PodStages
    BY DEF PodsOK, PodOK, Pod
  <2>2. /\ DOMAIN r = DOMAIN podCache
        /\ \A i \in DOMAIN r : \E j \in DOMAIN podCache : r[i] = PodAt(podCache[j])
    BY ListedPod
  <2>2a. DOMAIN podCache \in SUBSET Nat
    BY <2>1
  <2>3. \A j \in DOMAIN podCache : \E i \in DOMAIN r : r[i] = PodAt(podCache[j])
    BY <2>1, CachedPodListed
  <2>4. \A i \in DOMAIN r : r[i].phase # "Succeeded" /\ PodVerdict(r[i]) \in same
    BY <2>1, <2>2, StageVerdict
  <2>5. r = <<>> <=> podCache = <<>>
    <3>1. \E f : r = [i \in DOMAIN podCache |-> f[i]]
      <4> DEFINE shown == [i \in DOMAIN podCache |-> PodAt(podCache[i])]
      <4>1. r \in Orders(shown) /\ DOMAIN shown = DOMAIN podCache
        BY DEF ListInstancePods
      <4> HIDE DEF shown
      <4>2. PICK m : r = [i \in DOMAIN podCache |-> shown[m[i]]]
        BY <4>1 DEF Orders
      <4>3. r = [i \in DOMAIN podCache |-> r[i]]
        BY <4>2
      <4> QED
        BY <4>3
    <3> QED
      BY <2>1, <3>1
  <2> QED
    BY <2>2, <2>2a, <2>3, <2>4, <2>5
<1>2. GetInvalidImageName(p) <=> GetInvalidImageName(q)
  <2>1. ASSUME NEW r \in ListInstancePods(podCache), NEW t \in ListInstancePods(podCache),
               NEW i \in DOMAIN r
        PROVE  \E k \in DOMAIN t : t[k] = r[i]
    <3>1. PICK j \in DOMAIN podCache : r[i] = PodAt(podCache[j])
      BY <1>1
    <3>2. PICK k \in DOMAIN t : t[k] = PodAt(podCache[j])
      BY <1>1
    <3> QED
      BY <3>1, <3>2
  <2>2. ASSUME NEW r \in ListInstancePods(podCache), NEW t \in ListInstancePods(podCache),
               GetInvalidImageName(r)
        PROVE  GetInvalidImageName(t)
    <3>1. PICK i \in DOMAIN r :
             \/ \E n \in DOMAIN r[i].inits : IsInvalidImage(r[i].inits[n])
             \/ \E n \in DOMAIN r[i].containers : IsInvalidImage(r[i].containers[n])
      BY <2>2 DEF GetInvalidImageName
    <3>2. PICK k \in DOMAIN t : t[k] = r[i]
      BY <2>1
    <3>3. \/ \E n \in DOMAIN t[k].inits : IsInvalidImage(t[k].inits[n])
          \/ \E n \in DOMAIN t[k].containers : IsInvalidImage(t[k].containers[n])
      BY <3>1, <3>2
    <3> QED
      BY <3>3 DEF GetInvalidImageName
  <2> QED
    BY <2>2
<1>3. HasUnschedulablePods(p) = HasUnschedulablePods(q)
  <2>1. ASSUME NEW r \in ListInstancePods(podCache)
        PROVE  HasUnschedulablePods(r) =
                 IF podCache = <<>> THEN Verdict("Starting", "PodNotReady")
                 ELSE IF \E j \in DOMAIN podCache : PodVerdict(PodAt(podCache[j])) # NoVerdict
                 THEN Verdict("Warning", "ContainersNotReady") ELSE NoVerdict
    <3> DEFINE deciding == {i \in DOMAIN r : Decides(r[i])}
    <3>1. /\ DOMAIN r \in SUBSET Nat
          /\ r = <<>> <=> podCache = <<>>
          /\ \A i \in DOMAIN r : r[i].phase # "Succeeded" /\ PodVerdict(r[i]) \in same
          /\ \A i \in DOMAIN r : \E j \in DOMAIN podCache : r[i] = PodAt(podCache[j])
          /\ \A j \in DOMAIN podCache : \E i \in DOMAIN r : r[i] = PodAt(podCache[j])
      BY <1>1, <2>1
    <3>2. \A i \in DOMAIN r : Decides(r[i]) <=> PodVerdict(r[i]) # NoVerdict
      BY <3>1 DEF Decides
    <3>3. CASE deciding = {}
      <4>1. ~\E j \in DOMAIN podCache : PodVerdict(PodAt(podCache[j])) # NoVerdict
        BY <3>1, <3>2, <3>3
      <4>2. HasUnschedulablePods(r) =
              IF r = <<>> THEN Verdict("Starting", "PodNotReady") ELSE NoVerdict
        BY <3>3 DEF HasUnschedulablePods
      <4> QED
        BY <3>1, <4>1, <4>2
    <3>4. CASE deciding # {}
      <4>1. deciding \in SUBSET Nat
        BY <3>1
      <4>2. PICK n \in deciding : \A m \in deciding : n <= m
        BY <3>4, <4>1, LeastNatural
      <4>3. Min(deciding) \in deciding
        <5> HIDE DEF deciding
        <5> QED
          BY <4>2 DEF Min
      <4>4. PodVerdict(r[Min(deciding)]) = Verdict("Warning", "ContainersNotReady")
        BY <3>1, <3>2, <4>3
      <4>5. r # <<>> /\ HasUnschedulablePods(r) = PodVerdict(r[Min(deciding)])
        BY <3>4 DEF HasUnschedulablePods
      <4>6. \E j \in DOMAIN podCache : PodVerdict(PodAt(podCache[j])) # NoVerdict
        BY <3>1, <3>2, <4>2
      <4> QED
        BY <3>1, <4>4, <4>5, <4>6
    <3> QED
      BY <3>3, <3>4
  <2> QED
    BY <2>1
<1> QED
  BY <1>2, <1>3 DEF reconcileDeploymentStatus

(***************************************************************************)
(* The account.                                                            *)
(***************************************************************************)
\* Nothing about the operation, the Deployment or the base Service is still to be
\* delivered.
Delivered == ~queued /\ {"opCache", "ownedCache"} \subseteq current /\ svcHeard

\* The finalizers that are switched on are on this copy.
Guarded(copy) ==
  /\ EnableLogsFinalizers => "logs" \in copy.fins
  /\ EnableStatusFinalizers => "status" \in copy.fins

\* An unfinished service that has its finalizers.
Tended == op.life = "live" /\ ~IsDone(op.status) /\ Guarded(op)

\* The Deployment is there, and neither it nor the pods say anything new.
Judged ==
  /\ owned.live
  /\ \A podList \in ListInstancePods(podCache) :
       reconcileDeploymentStatus(op.status, owned.status, podList).status = op.status

\* No exit of a main container is left to judge.
ExitsJudged ==
  \E podList \in ListInstancePods(podCache) :
     ExitEnds(op.status, GetMainContainerExitStatus(podList)) = op.status

\* A timer runs for whatever is to come.
Timed ==
  /\ op.life = "live" /\ ~IsDone(op.status) =>
       (ActiveDeadline \/ (Culling /\ IsRunning(op.status)) => timer)
  /\ op.life = "live" /\ IsDone(op.status) => timer

\* There is nothing to do for the service, as the caches show it.
Calm ==
  /\ op.life = "live" /\ ~IsDone(op.status) => Tended /\ svc /\ Judged /\ ExitsJudged
  /\ Timed
  /\ op.life = "deleting" => faults > 0

\* A pass has a current copy and has come past what its label says, or is about to
\* write a warning and to end in an error.
OnCourse ==
  /\ pc # "idle" /\ "inst" \in current
  /\ IF pc = "write" THEN then = "error" ELSE inst = op
  /\ pc \in {"runtime", "checkStatus", "service"} => Tended
  /\ pc = "checkStatus" => found = owned /\ owned.live
  /\ pc = "service" => Judged
  /\ pc = "sync" => then = "error" \/ (then = "service" /\ Tended /\ Judged)
  /\ pc # "deadline"
  /\ pc = "delete" => op.life = "live"
  /\ pc = "removeFinalizer" => inst.fins # {}

\* When nothing is to be delivered, a pass is on its course, and without a pass
\* there is nothing to do.
Account == IF pc = "idle" THEN Calm ELSE OnCourse

Accounted == Delivered => Account

\* What has been delivered is known.
WatchesKnown ==
  /\ "ownedCache" \in current => ownedCache = owned
  /\ svcHeard => svcCache = svc

\* The inductive invariant, on top of PodInv.
WakeInv == Accounted /\ WatchesKnown /\ faults \in Nat

\* What the account speaks of, besides the pass and the timer.
subject == <<setup, op, owned, podCache, svc>>

\* As long as that stays, so does what is said of it.
LEMMA SubjectStays ==
  ASSUME UNCHANGED subject
  PROVE  /\ Tended' <=> Tended
         /\ Judged' <=> Judged
         /\ ExitsJudged' <=> ExitsJudged
         /\ \A copy : Guarded(copy)' <=> Guarded(copy)
<1>1. Tended' <=> Tended
  BY DEF subject, Tended, Guarded, EnableLogsFinalizers, EnableStatusFinalizers
<1>2. Judged' <=> Judged
  BY DEF subject, Judged
<1>3. ExitsJudged' <=> ExitsJudged
  BY DEF subject, ExitsJudged, ExitEnds, Replicas, BackoffLimit
<1>4. \A copy : Guarded(copy)' <=> Guarded(copy)
  BY DEF subject, Guarded, EnableLogsFinalizers, EnableStatusFinalizers
<1> QED
  BY <1>1, <1>2, <1>3, <1>4

\* Without a pass nothing changes but the timer, which stays on, and the number of
\* failures, which stays above zero.
LEMMA CalmStays ==
  ASSUME Calm, UNCHANGED subject, timer => timer', faults > 0 => faults' > 0
  PROVE  Calm'
<1>1. Timed'
  BY DEF Calm, Timed, subject, ActiveDeadline, Culling
<1> QED
  BY <1>1, SubjectStays DEF Calm, subject

LEMMA AccountStays ==
  ASSUME Account, UNCHANGED <<subject, pc, inst, found, then>>, current \subseteq current',
         timer => timer', faults > 0 => faults' > 0
  PROVE  Account'
<1>1. UNCHANGED subject /\ op' = op /\ owned' = owned
  BY DEF subject
<1>2. CASE pc = "idle"
  BY <1>1, <1>2, CalmStays DEF Account
<1>3. CASE pc # "idle"
  BY <1>1, <1>3, SubjectStays DEF Account, OnCourse
<1> QED
  BY <1>2, <1>3

\* A write that leaves nothing to be delivered was accepted and changed nothing.
LEMMA WriteQuiet ==
  ASSUME NEW new, NEW ACTION After, Write(new, After), Delivered'
  PROVE  /\ Put(new) /\ op' = op /\ owned' = owned /\ After /\ faults' = faults
         /\ op.life # "gone" /\ {"inst", "opCache", "ownedCache"} \subseteq current
         /\ pc' # "idle" => "inst" \in current'
<1>1. ~ReturnError
  BY DEF Delivered, ReturnError
<1>2. Current /\ Put(new) /\ After /\ Keep(Unchanged \cup {"inst"}) /\ faults' = faults
  BY <1>1 DEF Write
<1>3. {"opCache", "ownedCache"} \subseteq current'
  BY DEF Delivered
<1>4. op' = op
  BY <1>2, <1>3 DEF Keep, Unchanged, OpCopies
<1>5. {"inst", "opCache", "ownedCache"} \subseteq current /\ (pc' # "idle" => "inst" \in current')
  BY <1>2, <1>3, <1>4 DEF Keep, Unchanged, Current
<1> QED
  BY <1>2, <1>4, <1>5 DEF Current, Put

\* Of a live operation it wrote what was there.
LEMMA StatusQuiet ==
  ASSUME NEW new, NEW next, WriteStatus(new, next), Delivered', op \in Op, op.life = "live",
         inst = op
  PROVE  /\ op.status = new /\ op' = op /\ inst' = op /\ pc' = "sync" /\ then' = next
         /\ UNCHANGED <<owned, queued, faults>>
         /\ {"opCache", "ownedCache"} \subseteq current /\ "inst" \in current'
<1> DEFINE copy == [inst EXCEPT !.status = new]
           After == inst' = op' /\ pc' = "sync" /\ then' = next /\ UNCHANGED <<found, queued>>
<1>1. copy.life = "live" /\ copy.status = new
  BY DEF Op
<1>2. Write(copy, After)
  BY DEF WriteStatus
<1> HIDE DEF copy, After
<1>3. /\ Put(copy) /\ op' = op /\ owned' = owned /\ After /\ faults' = faults
      /\ {"inst", "opCache", "ownedCache"} \subseteq current
      /\ pc' # "idle" => "inst" \in current'
  BY <1>2, WriteQuiet
<1>4. op' = copy
  BY <1>1, <1>3 DEF Put
<1> QED
  BY <1>1, <1>3, <1>4 DEF After

\* Where a dispatch leads.
LEMMA Dispatched ==
  ASSUME NEW copy
  PROVE  /\ Dispatch(copy) \in {"collect", "syncStopped", "addLogs", "addStatus", "runtime"}
         /\ Dispatch(copy) = "runtime" =>
              Guarded(copy) /\ copy.life # "deleting" /\ ~IsDone(copy.status)
BY DEF Dispatch, Guarded

\* An end that is logged is an end.
LEMMA EndsLogged ==
  ASSUME NEW status \in OperationStatusType, ~IsDone(status), NEW why
  PROVE  LogStopped(status, why) # status
<1>1. "Stopped" \in LogStopped(status, why).has
  BY DEF LogStopped, logCondition, OperationStatusType
<1> QED
  BY <1>1 DEF IsDone, FinalTypes

(***************************************************************************)
(* The rest of a pass over an unfinished service, from the base Service    *)
(* on: it writes something, or it finds nothing to do.                     *)
(***************************************************************************)
LEMMA CullingQuiet ==
  ASSUME op \in Op, inst = op, "inst" \in current, svc, Tended, Judged, ExitsJudged,
         UNCHANGED <<setup, svc, podCache>>, handleCulling, Delivered'
  PROVE  UNCHANGED <<op, owned, queued>> /\ current' \subseteq current /\ (timer => timer') /\ Account'
<1>1. CASE \E probing : Finish(probing) /\ (Culling /\ IsRunning(inst.status) => probing)
  <2>1. PICK probing : Finish(probing) /\ (Culling /\ IsRunning(inst.status) => probing)
    BY <1>1
  <2>2. /\ UNCHANGED <<op, owned, queued>> /\ pc' = "idle" /\ current' \subseteq current
        /\ timer' = (timer \/ ActiveDeadline \/ probing)
    BY <2>1 DEF Finish, Return, Forget, Keep, cluster
  <2>3. Tended' /\ Judged' /\ ExitsJudged' /\ svc'
    BY <2>2, SubjectStays DEF subject
  <2>4. Timed'
    BY <2>1, <2>2 DEF Timed, ActiveDeadline, Culling, Tended
  <2>5. Calm'
    BY <2>2, <2>3, <2>4 DEF Calm, Tended
  <2> QED
    BY <2>2, <2>5 DEF Account
<1>2. CASE Cull
  <2>1. /\ UNCHANGED <<op, owned, queued, inst, current, timer>> /\ pc' = "delete"
    BY <1>2 DEF Cull, Goto, cluster
  <2>2. OnCourse'
    BY <2>1 DEF OnCourse, Tended
  <2> QED
    BY <2>1, <2>2 DEF Account
<1> QED
  BY <1>1, <1>2 DEF handleCulling

LEMMA DeadlineQuiet ==
  ASSUME op \in Op, inst = op, "inst" \in current, svc, Tended, Judged,
         UNCHANGED <<setup, svc, podCache>>, handlePastActiveDeadline, Delivered'
  PROVE  /\ UNCHANGED <<op, owned, queued>> /\ (timer => timer') /\ Account'
         /\ {"opCache", "ownedCache"} \subseteq current
<1>1. /\ op.life = "live" /\ ~IsDone(op.status) /\ op.status \in OperationStatusType
      /\ ~IsDone(inst.status)
  BY DEF Tended, Op
<1>2. ASSUME NEW new, NEW next, WriteStatus(new, next), new # inst.status PROVE FALSE
  BY <1>1, <1>2, StatusQuiet
<1>3. LogStopped(inst.status, "DeadlineExceeded") # inst.status
  BY <1>1, EndsLogged
<1>4. handleServiceContainerExit
  BY <1>1, <1>2, <1>3 DEF handlePastActiveDeadline
<1>5. PICK podList \in ListInstancePods(podCache) :
        LET new == ExitEnds(inst.status, GetMainContainerExitStatus(podList))
        IN  IF new # inst.status THEN WriteStatus(new, "requeue") ELSE handleCulling
  BY <1>4 DEF handleServiceContainerExit
<1> DEFINE new == ExitEnds(inst.status, GetMainContainerExitStatus(podList))
<1>6. new = inst.status /\ handleCulling
  <2> HIDE DEF new
  <2>1. IF new # inst.status THEN WriteStatus(new, "requeue") ELSE handleCulling
    BY <1>5 DEF new
  <2> QED
    BY <1>2, <2>1
<1>7. ExitsJudged
  BY <1>5, <1>6 DEF ExitsJudged
<1>8. UNCHANGED <<op, owned, queued>> /\ current' \subseteq current /\ (timer => timer') /\ Account'
  BY <1>6, <1>7, CullingQuiet
<1> QED
  BY <1>8 DEF Delivered

LEMMA BaseServiceQuiet ==
  ASSUME op \in Op, inst = op, "inst" \in current, Tended, Judged, WatchesKnown,
         UNCHANGED <<setup, podCache>>, reconcileBaseService, Delivered'
  PROVE  /\ UNCHANGED <<op, owned, queued, svc, svcHeard>> /\ (timer => timer') /\ Account'
         /\ {"opCache", "ownedCache"} \subseteq current
<1>1. svcHeard'
  BY DEF Delivered
<1>2. CASE svcCache /\ handlePastActiveDeadline /\ UNCHANGED <<svc, svcHeard>>
  <2>1. svc
    BY <1>1, <1>2 DEF WatchesKnown
  <2> QED
    BY <1>2, <2>1, DeadlineQuiet
<1>3. CASE createService
  <2>1. ~ReturnError
    BY DEF Delivered, ReturnError
  <2>2. /\ CreateFailed("OperatorCreateService") /\ UNCHANGED <<svc, svcHeard>>
        /\ Keep(current) /\ UNCHANGED <<timer, op, owned>>
    BY <1>1, <1>3 DEF createService, cluster
  <2>3. pc' = "write" /\ then' = "error" /\ UNCHANGED queued
    BY <2>1, <2>2 DEF CreateFailed, Log
  <2>4. current' = current
    BY <2>2, <2>3 DEF Keep
  <2>5. OnCourse'
    BY <2>3, <2>4 DEF OnCourse
  <2> QED
    BY <2>2, <2>3, <2>4, <2>5 DEF Account, Delivered
<1> QED
  BY <1>2, <1>3 DEF reconcileBaseService

(***************************************************************************)
(* The shared handlers.                                                    *)
(***************************************************************************)
\* What the account says when nothing is to be delivered before the step.
LEMMA OnAccount ==
  ASSUME PodInv, WakeInv, Delivered, pc # "idle"
  PROVE  /\ OnCourse /\ op \in Op /\ inst \in Op /\ "inst" \in current
         /\ pc # "write" => inst = op
BY DEF WakeInv, Accounted, Account, OnCourse, PodInv, SharedInv, SharedTypeOK

\* A write made on a course, after which nothing is to be delivered, changed
\* nothing: what it wrote was there.
LEMMA WriteOnCourse ==
  ASSUME PodInv, WakeInv, Within, pc \notin {"idle", "write"},
         NEW new \in Op, NEW ACTION After, Write(new, After), Delivered', new.life = inst.life,
         After => UNCHANGED queued, UNCHANGED <<elsewhere, timer>>
  PROVE  /\ new = op /\ After /\ OnCourse /\ UNCHANGED subject
         /\ op.life # "gone" /\ (pc' # "idle" => "inst" \in current')
<1>1. /\ Put(new) /\ op' = op /\ owned' = owned /\ After /\ op.life # "gone"
      /\ {"inst", "opCache", "ownedCache"} \subseteq current
      /\ pc' # "idle" => "inst" \in current'
  BY WriteQuiet
<1>2. Delivered /\ UNCHANGED subject
  BY <1>1 DEF Delivered, Within, around, elsewhere, caches, subject
<1>3. OnCourse /\ inst = op
  BY <1>2, OnAccount
<1>4. op'.life = IF new.life = "deleting" /\ new.fins = {} THEN "gone" ELSE new.life
  BY <1>1, PutStores
<1>5. op' = new
  BY <1>1, <1>3, <1>4, PutStores
<1> QED
  BY <1>1, <1>2, <1>3, <1>5

\* A pass begins with the stored operation.
LEMMA FetchAccount == ASSUME PodInv, WakeInv, Fetch, Delivered' PROVE Account'
<1>1. /\ op' = op /\ setup' = setup /\ pc = "idle" /\ "opCache" \in current'
  BY DEF Fetch, FetchOp, cluster, elsewhere, Delivered
<1>2. opCache = op
  <2>1. "opCache" \in current
    BY <1>1 DEF Fetch, FetchOp, Keep
  <2> QED
    BY <2>1 DEF PodInv, SharedInv, CopiesCurrent
<1>3. CASE op.life = "gone"
  <2>1. pc' = "idle"
    BY <1>1, <1>2, <1>3 DEF Fetch, FetchOp, worker
  <2> QED
    BY <1>1, <1>3, <2>1 DEF Account, Calm, Timed
<1>4. CASE op.life # "gone"
  <2>1. /\ inst' = op /\ (pc' = "addStart" \/ pc' = Dispatch(op)) /\ "inst" \in current'
    BY <1>1, <1>2, <1>4, Dispatched DEF Fetch, FetchOp, Keep
  <2>2. op.life \in {"live", "deleting"}
    BY <1>4 DEF PodInv, SharedInv, SharedTypeOK, Op
  <2>3. pc' = "runtime" => Tended'
    BY <1>1, <2>1, <2>2, Dispatched
       DEF Tended, Guarded, EnableLogsFinalizers, EnableStatusFinalizers
  <2> QED
    BY <1>1, <2>1, <2>3, Dispatched DEF Account, OnCourse
<1> QED
  BY <1>3, <1>4

\* The write of a start time or of a finalizer leads to the next dispatch.
LEMMA DispatchAccount ==
  ASSUME PodInv, WakeInv, Within, pc \in {"addStart", "addLogs", "addStatus"},
         NEW new \in Op, new.life = inst.life, Write(new, inst' = op' /\ Goto(Dispatch(new))),
         UNCHANGED <<elsewhere, timer>>, Delivered'
  PROVE  Account'
<1> DEFINE After == inst' = op' /\ Goto(Dispatch(new))
<1>1. After => UNCHANGED queued
  BY DEF Goto
<1>2. Write(new, After)
  OBVIOUS
<1> HIDE DEF After
<1>3. /\ new = op /\ After /\ OnCourse /\ UNCHANGED subject /\ op.life # "gone"
      /\ pc' # "idle" => "inst" \in current'
  BY <1>1, <1>2, WriteOnCourse
<1>4. inst' = op' /\ pc' = Dispatch(op) /\ op' = op
  BY <1>3 DEF After, Goto, subject
<1>5. pc' = "runtime" => Tended'
  <2>1. op.life \in {"live", "deleting", "gone"}
    BY DEF PodInv, SharedInv, SharedTypeOK, Op
  <2>2. pc' = "runtime" => Tended
    BY <1>3, <1>4, <2>1, Dispatched DEF Tended
  <2> QED
    BY <1>3, <2>2, SubjectStays
<1> QED
  BY <1>3, <1>4, <1>5, Dispatched DEF Account, OnCourse

LEMMA StartAccount ==
  ASSUME PodInv, WakeInv, AddStartTime \/ AddLogsFinalizer \/ AddStatusFinalizer, Delivered'
  PROVE  Account'
<1>0. inst \in Op
  BY DEF PodInv, SharedInv, SharedTypeOK
<1>1. CASE AddStartTime
  <2> DEFINE new == [inst EXCEPT !.status.start = TRUE]
  <2>1. new \in Op /\ new.life = inst.life
    BY <1>0 DEF Op, OperationStatusType
  <2>2. /\ Write(new, inst' = op' /\ Goto(Dispatch(new))) /\ pc = "addStart" /\ Within
        /\ UNCHANGED <<elsewhere, timer>>
    BY <1>1 DEF AddStartTime, SetStartTime
  <2> HIDE DEF new
  <2> QED
    BY <2>1, <2>2, DispatchAccount
<1>2. ASSUME NEW label \in {"addLogs", "addStatus"}, NEW finalizer \in Finalizers,
             SetFinalizer(label, finalizer), Within
      PROVE  Account'
  <2> DEFINE new == [inst EXCEPT !.fins = @ \cup {finalizer}]
  <2>1. new \in Op /\ new.life = inst.life
    BY <1>0 DEF Op
  <2>2. /\ Write(new, inst' = op' /\ Goto(Dispatch(new))) /\ pc = label
        /\ UNCHANGED <<elsewhere, timer>>
    BY <1>2 DEF SetFinalizer
  <2> HIDE DEF new
  <2> QED
    BY <1>2, <2>1, <2>2, DispatchAccount
<1> QED
  BY <1>1, <1>2
     DEF AddLogsFinalizer, AddStatusFinalizer, SetLogsFinalizer, SetStatusFinalizer, Finalizers

\* A finalizer that is removed was there, so something is to be delivered.
LEMMA ReleaseAccount == ASSUME PodInv, WakeInv, removeFinalizer, Delivered' PROVE FALSE
<1> DEFINE first == IF "logs" \in inst.fins THEN "logs" ELSE "status"
           new   == [inst EXCEPT !.fins = @ \ {first}]
           After == IF inst.life = "deleting" THEN Return ELSE inst' = op' /\ Goto("cleanup")
<1>1. inst \in Op
  BY DEF PodInv, SharedInv, SharedTypeOK
<1>2. new \in Op /\ new.life = inst.life /\ (inst.fins # {} => new.fins # inst.fins)
  BY <1>1 DEF Op, Finalizers
<1>3. /\ Write(new, After) /\ pc = "removeFinalizer" /\ UNCHANGED <<elsewhere, timer>> /\ Within
      /\ After => UNCHANGED queued
  BY DEF removeFinalizer, ReleaseFinalizer, Return, Goto
<1> HIDE DEF new, After
<1>4. new = op /\ OnCourse
  BY <1>2, <1>3, WriteOnCourse
<1> QED
  BY <1>2, <1>3, <1>4 DEF OnCourse

\* The write that reports a failed call.
LEMMA StoreAccount == ASSUME PodInv, WakeInv, writeStatus, Delivered' PROVE Account'
<1> DEFINE After == inst' = op' /\ Goto("sync")
<1>1. Write(inst, After) /\ pc = "write" /\ Within /\ UNCHANGED <<elsewhere, timer>>
  BY DEF writeStatus, StoreStatus
<1> HIDE DEF After
<1>2. /\ op' = op /\ owned' = owned /\ After /\ {"opCache", "ownedCache"} \subseteq current
      /\ pc' # "idle" => "inst" \in current'
  BY <1>1, WriteQuiet
<1>3. /\ inst' = op' /\ pc' = "sync" /\ then' = then /\ queued' = queued
  BY <1>2 DEF After, Goto
<1>4. Delivered
  BY <1>1, <1>2, <1>3 DEF Delivered, Within, around
<1>5. then = "error"
  BY <1>1, <1>4, OnAccount DEF OnCourse
<1> QED
  BY <1>2, <1>3, <1>5 DEF Account, OnCourse

\* A step that stores nothing, takes nothing over and leaves the queue alone.
LEMMA Undelivered ==
  ASSUME Within, UNCHANGED <<op, owned, queued, elsewhere>>, \A x \in current' : x \in current,
         Delivered'
  PROVE  Delivered /\ UNCHANGED subject
BY DEF Delivered, Within, around, elsewhere, caches, subject

\* The reports, and the finalizers of a service that is to end.
LEMMA ReportAccount ==
  ASSUME PodInv, WakeInv, instanceSyncStatus \/ handleFinalizersStop, Delivered'
  PROVE  Account'
<1>1. CASE instanceSyncStatus
  <2>1. /\ pc = "sync" /\ Within /\ Keep(current) /\ UNCHANGED <<op, owned, elsewhere>>
        /\ \/ then = "done" /\ Return
           \/ then \in {"error", "requeue"} /\ ReturnError
           \/ then \notin {"done", "error", "requeue"} /\ Goto(then) /\ UNCHANGED inst
    BY <1>1 DEF instanceSyncStatus, ReportStatus, cluster
  <2>2. ~ReturnError
    BY DEF Delivered, ReturnError
  <2>3. UNCHANGED queued /\ \A x \in current' : x \in current
    BY <2>1, <2>2, KeepFacts DEF Return, Goto
  <2>4. Delivered /\ UNCHANGED subject
    BY <2>1, <2>3, Undelivered
  <2>5. inst = op /\ "inst" \in current /\ (then = "error" \/ (then = "service" /\ Tended /\ Judged))
    BY <2>1, <2>4, OnAccount DEF OnCourse
  <2>6. pc' = "service" /\ inst' = inst /\ Tended /\ Judged
    BY <2>1, <2>2, <2>5 DEF Goto
  <2>7. "inst" \in current' /\ Tended' /\ Judged'
    BY <2>1, <2>4, <2>5, <2>6, SubjectStays DEF Keep
  <2> QED
    BY <2>1, <2>5, <2>6, <2>7 DEF Account, OnCourse
<1>2. CASE handleFinalizersStop
  <2>1. /\ pc = "syncStopped" /\ Within /\ pc' = "collect"
        /\ UNCHANGED <<op, owned, queued, elsewhere, inst, current>>
    BY <1>2 DEF handleFinalizersStop, ReportStopped, cluster, Goto
  <2>2. Delivered
    BY <2>1, Undelivered
  <2>3. inst = op /\ "inst" \in current
    BY <2>1, <2>2, OnAccount
  <2> QED
    BY <2>1, <2>3 DEF Account, OnCourse
<1> QED
  BY <1>1, <1>2

LEMMA CollectAccount == ASSUME PodInv, WakeInv, collectLogs, Delivered' PROVE Account'
<1>1. /\ pc = "collect" /\ Within /\ Keep(current) /\ UNCHANGED <<op, owned, elsewhere, timer>>
  BY DEF collectLogs, CollectHeld, cluster
<1>2. UNCHANGED queued /\ \A x \in current' : x \in current
  BY <1>1, KeepFacts DEF collectLogs, CollectHeld, AfterFinalizers, Return, Goto
<1>3. Delivered /\ UNCHANGED subject
  BY <1>1, <1>2, Undelivered
<1>4. inst = op /\ "inst" \in current /\ op \in Op
  BY <1>1, <1>3, OnAccount
<1>5. CASE AfterFinalizers /\ op.life = "deleting"
  <2>1. pc' = "idle"
    BY <1>4, <1>5 DEF AfterFinalizers, Return, Forget
  <2>2. op.fins # {} /\ op.fins \subseteq Finalizers
    BY <1>4, <1>5 DEF PodInv, SharedInv, Lives, Op
  <2>3. Fail
    BY <1>4, <2>1, <2>2 DEF collectLogs, CollectHeld, Goto, Finalizers
  <2>4. faults' > 0
    BY <2>3 DEF Fail, WakeInv
  <2> QED
    BY <1>1, <1>5, <2>1, <2>4 DEF Account, Calm, Timed
<1>6. CASE AfterFinalizers /\ op.life # "deleting"
  <2>1. pc' = "cleanup" /\ inst' = inst
    BY <1>4, <1>6 DEF AfterFinalizers, Goto
  <2> QED
    BY <1>1, <1>4, <2>1 DEF Account, OnCourse, Keep
<1>7. CASE ~AfterFinalizers
  <2>1. pc' = "removeFinalizer" /\ inst' = inst /\ inst.fins # {}
    BY <1>7 DEF collectLogs, CollectHeld, Goto
  <2> QED
    BY <1>1, <1>4, <2>1 DEF Account, OnCourse, Keep
<1> QED
  BY <1>5, <1>6, <1>7

\* A delete of a live operation that succeeds is an event; one that fails is tried
\* again.
LEMMA NoQuietDelete ==
  ASSUME op \in Op, op.life = "live", NEW requeue, Delete(requeue), Delivered'
  PROVE  FALSE
<1>1. ~ReturnError
  BY DEF Delivered, ReturnError
<1>2. DeleteOp /\ Keep(Unchanged)
  BY <1>1 DEF Delete
<1>3. op'.life # op.life
  <2> DEFINE new == [op EXCEPT !.life = "deleting"]
  <2>1. new \in Op /\ new.life = "deleting" /\ Put(new)
    BY <1>2 DEF DeleteOp, Op
  <2> HIDE DEF new
  <2> QED
    BY <2>1, PutStores
<1>4. "opCache" \notin current'
  BY <1>2, <1>3 DEF Keep, Unchanged, OpCopies
<1> QED
  BY <1>4 DEF Delivered

\* A pass that waits for the TTL leaves a timer.
LEMMA CleanUpAccount == ASSUME PodInv, WakeInv, handleTTL, Delivered' PROVE Account'
<1>1. pc = "cleanup" /\ Within /\ UNCHANGED elsewhere
  BY DEF handleTTL, CleanUp
<1>2. inst \in Op /\ op \in Op /\ inst.life = "live" /\ IsDone(inst.status)
  BY <1>1 DEF PodInv, SharedInv, SharedTypeOK, Phases, Ending
<1>3. ~ReturnError
  BY DEF Delivered, ReturnError
<1>4. CASE Delete(FALSE)
  <2>1. op.life = "live"
    <3>1. DeleteOp /\ Return /\ Keep(Unchanged)
      BY <1>3, <1>4 DEF Delete
    <3>2. /\ {"opCache", "ownedCache"} \subseteq current' /\ op' = op /\ queued' = queued
      BY <3>1 DEF Delivered, Keep, Unchanged, OpCopies, Return
    <3>3. Delivered
      BY <1>1, <3>1, <3>2 DEF Delivered, Within, around, Keep, Unchanged
    <3>4. inst = op
      BY <1>1, <3>3, OnAccount
    <3> QED
      BY <1>2, <3>4
  <2> QED
    BY <1>2, <1>4, <2>1, NoQuietDelete
<1>5. CASE ~Delete(FALSE)
  <2>1. timer' = TRUE /\ Return /\ Keep(current) /\ UNCHANGED <<op, owned>>
    BY <1>3, <1>5 DEF handleTTL, CleanUp, cluster
  <2>2. queued' = queued /\ pc' = "idle" /\ \A x \in current' : x \in current
    BY <2>1, KeepFacts DEF Return, Forget
  <2>3. Delivered
    BY <1>1, <2>1, <2>2, Undelivered
  <2>4. inst = op
    BY <1>1, <2>3, OnAccount
  <2> QED
    BY <1>2, <2>1, <2>2, <2>4 DEF Account, Calm, Timed
<1> QED
  BY <1>4, <1>5

(***************************************************************************)
(* The Deployment, the base Service, the deadline and the end.             *)
(***************************************************************************)
\* After which nothing is to be delivered only if nothing was before.
LEMMA DeadlineDelivered ==
  ASSUME handlePastActiveDeadline, Delivered'
  PROVE  ~queued /\ {"opCache", "ownedCache"} \subseteq current
<1>1. ASSUME NEW new, NEW next, WriteStatus(new, next)
      PROVE  ~queued /\ {"opCache", "ownedCache"} \subseteq current
  <2> DEFINE After == inst' = op' /\ pc' = "sync" /\ then' = next /\ UNCHANGED <<found, queued>>
             copy  == [inst EXCEPT !.status = new]
  <2>1. Write(copy, After)
    BY <1>1 DEF WriteStatus
  <2> HIDE DEF copy, After
  <2>2. After /\ {"opCache", "ownedCache"} \subseteq current
    BY <2>1, WriteQuiet
  <2> QED
    BY <2>2 DEF After, Delivered
<1>2. ASSUME Return \/ Goto("delete"), Keep(current) \/ UNCHANGED current
      PROVE  ~queued /\ {"opCache", "ownedCache"} \subseteq current
  <2>1. \A x \in current' : x \in current
    BY <1>2, KeepFacts
  <2> QED
    BY <1>2, <2>1 DEF Return, Goto, Delivered
<1> QED
  BY <1>1, <1>2 DEF handlePastActiveDeadline, handleServiceContainerExit, handleCulling, Finish, Cull

LEMMA BaseServiceDelivered ==
  ASSUME reconcileBaseService, Delivered'
  PROVE  Delivered
<1>1. CASE handlePastActiveDeadline /\ UNCHANGED <<svc, svcHeard>>
  BY <1>1, DeadlineDelivered DEF Delivered
<1>2. CASE createService
  <2>1. ~ReturnError /\ svcHeard'
    BY DEF Delivered, ReturnError
  <2>2. CreateFailed("OperatorCreateService") /\ UNCHANGED svcHeard /\ Keep(current)
    BY <1>2, <2>1 DEF createService
  <2>3. queued' = queued
    BY <2>1, <2>2 DEF CreateFailed, Log
  <2>4. \A x \in current' : x \in current
    BY <2>2, KeepFacts
  <2> QED
    BY <2>2, <2>3, <2>4 DEF Delivered
<1> QED
  BY <1>1, <1>2 DEF reconcileBaseService

\* No pass over an unfinished service comes to the deadline without a new event.
LEMMA DeadlineAccount == ASSUME PodInv, WakeInv, checkDeadline, Delivered' PROVE FALSE
<1>1. Delivered /\ pc = "deadline"
  BY DeadlineDelivered DEF checkDeadline, Within, around, Delivered
<1> QED
  BY <1>1, OnAccount DEF OnCourse

LEMMA ServiceAccount == ASSUME PodInv, WakeInv, checkService, Delivered' PROVE Account'
<1>1. /\ pc = "service" /\ reconcileBaseService /\ UNCHANGED <<setup, podCache>>
  BY DEF checkService, elsewhere, caches
<1>2. Delivered
  BY <1>1, BaseServiceDelivered
<1>3. op \in Op /\ inst = op /\ "inst" \in current /\ Tended /\ Judged /\ WatchesKnown
  BY <1>1, <1>2, OnAccount DEF OnCourse, WakeInv
<1> QED
  BY <1>1, <1>3, BaseServiceQuiet

\* A Deployment that says nothing new says nothing new in any order of its pods.
LEMMA JudgedByOne ==
  ASSUME PodsOK, owned.live, NEW podList \in ListInstancePods(podCache),
         reconcileDeploymentStatus(op.status, owned.status, podList).status = op.status
  PROVE  Judged
BY OrderIrrelevant DEF Judged

LEMMA StatusAccount == ASSUME PodInv, WakeInv, checkStatus, Delivered' PROVE Account'
<1>1. /\ pc = "checkStatus" /\ UNCHANGED <<setup, podCache>> /\ PodsOK
  BY DEF checkStatus, elsewhere, caches, PodInv
<1>2. PICK podList \in ListInstancePods(podCache) :
        LET result == reconcileDeploymentStatus(inst.status, DeploymentStatus(found), podList)
        IN  IF result.write THEN WriteStatus(result.status, "service") /\ UNCHANGED <<timer, svc, svcHeard>>
            ELSE reconcileBaseService
  BY DEF checkStatus
<1> DEFINE result == reconcileDeploymentStatus(inst.status, DeploymentStatus(found), podList)
<1>3. ~result.write => result.status = inst.status
  BY DEF reconcileDeploymentStatus
<1>4. \/ result.write /\ WriteStatus(result.status, "service") /\ UNCHANGED <<svc, svcHeard>>
      \/ ~result.write /\ reconcileBaseService
  BY <1>2
<1> HIDE DEF result
<1>5. Delivered
  <2>1. CASE WriteStatus(result.status, "service") /\ UNCHANGED svcHeard
    <3> DEFINE After == inst' = op' /\ pc' = "sync" /\ then' = "service" /\ UNCHANGED <<found, queued>>
               copy  == [inst EXCEPT !.status = result.status]
    <3>1. Write(copy, After)
      BY <2>1 DEF WriteStatus
    <3> HIDE DEF copy, After
    <3>2. After /\ {"opCache", "ownedCache"} \subseteq current
      BY <3>1, WriteQuiet
    <3> QED
      BY <2>1, <3>2 DEF After, Delivered
  <2> QED
    BY <1>4, <2>1, BaseServiceDelivered
<1>6. /\ op \in Op /\ inst = op /\ "inst" \in current /\ Tended /\ WatchesKnown
      /\ found = owned /\ owned.live /\ op.life = "live"
  BY <1>1, <1>5, OnAccount DEF OnCourse, WakeInv, Tended
<1>7. result = reconcileDeploymentStatus(op.status, owned.status, podList)
  BY <1>6 DEF result, DeploymentStatus
<1>8. CASE WriteStatus(result.status, "service") /\ UNCHANGED svc
  <2>1. /\ op.status = result.status /\ op' = op /\ inst' = op /\ pc' = "sync" /\ then' = "service"
        /\ owned' = owned /\ "inst" \in current'
    BY <1>6, <1>8, StatusQuiet
  <2>2. Judged
    BY <1>1, <1>6, <1>7, <2>1, JudgedByOne
  <2>3. Tended' /\ Judged'
    BY <1>1, <1>6, <1>8, <2>1, <2>2, SubjectStays DEF subject
  <2> QED
    BY <2>1, <2>3 DEF Account, OnCourse
<1>9. CASE ~result.write /\ reconcileBaseService
  <2>1. Judged
    BY <1>1, <1>3, <1>6, <1>7, <1>9, JudgedByOne
  <2> QED
    BY <1>1, <1>6, <1>9, <2>1, BaseServiceQuiet
<1> QED
  BY <1>4, <1>8, <1>9

LEMMA RuntimeAccount == ASSUME PodInv, WakeInv, reconcileDeployment, Delivered' PROVE Account'
<1>1. pc = "runtime" /\ Within /\ UNCHANGED <<elsewhere, timer>>
  BY DEF reconcileDeployment
<1>2. ~ReturnError /\ {"opCache", "ownedCache"} \subseteq current'
  BY DEF Delivered, ReturnError
<1>3. CASE ownedCache.live /\ UpdateOwned("checkStatus")
  <2>1. /\ found' = ownedCache /\ pc' = "checkStatus" /\ UNCHANGED <<op, owned, inst, queued>>
        /\ Keep(current)
    BY <1>2, <1>3 DEF UpdateOwned, cluster
  <2>2. \A x \in current' : x \in current
    BY <2>1, KeepFacts
  <2>3. Delivered /\ UNCHANGED subject
    BY <1>1, <2>1, <2>2, Undelivered
  <2>4. inst = op /\ "inst" \in current /\ Tended /\ ownedCache = owned
    BY <1>1, <2>3, OnAccount DEF OnCourse, WakeInv, WatchesKnown, Delivered
  <2>5. "inst" \in current' /\ Tended'
    BY <2>1, <2>3, <2>4, SubjectStays DEF Keep
  <2> QED
    BY <1>3, <2>1, <2>4, <2>5 DEF Account, OnCourse
<1>4. CASE Create(NoDeploymentStatus, Log(LogStarting(inst.status), "checkStatus"),
                  "OperatorCreateDeployment")
  <2>1. ~Keep(current \ OwnedCopies)
    BY <1>2, KeepFacts DEF OwnedCopies
  <2>2. CreateFailed("OperatorCreateDeployment") /\ Keep(current) /\ UNCHANGED <<op, owned>>
    BY <1>4, <2>1 DEF Create
  <2>3. pc' = "write" /\ then' = "error" /\ UNCHANGED queued
    BY <1>2, <2>2 DEF CreateFailed, Log
  <2>4. \A x \in current' : x \in current
    BY <2>2, KeepFacts
  <2>5. Delivered
    BY <1>1, <2>2, <2>3, <2>4, Undelivered
  <2>6. "inst" \in current /\ current' = current
    BY <1>1, <2>2, <2>3, <2>5, OnAccount DEF Keep
  <2> QED
    BY <2>3, <2>6 DEF Account, OnCourse
<1> QED
  BY <1>3, <1>4 DEF reconcileDeployment

\* A service that a pass deletes is live, or a new event is on its way.
LEMMA DeleteAccount == ASSUME PodInv, WakeInv, delete, Delivered' PROVE FALSE
<1>1. pc = "delete" /\ Within /\ UNCHANGED elsewhere
      /\ Delete(ActiveDeadline /\ ~IsDone(inst.status))
  BY DEF delete
<1>2. ~ReturnError
  BY DEF Delivered, ReturnError
<1>3. DeleteOp /\ Return /\ Keep(Unchanged)
  BY <1>1, <1>2 DEF Delete
<1>4. {"opCache", "ownedCache"} \subseteq current' /\ op' = op /\ queued' = queued
  BY <1>3 DEF Delivered, Keep, Unchanged, OpCopies, Return
<1>5. Delivered
  BY <1>1, <1>3, <1>4 DEF Delivered, Within, around, Keep, Unchanged
<1>6. op \in Op /\ op.life = "live"
  BY <1>1, <1>5, OnAccount DEF OnCourse
<1> QED
  BY <1>1, <1>6, NoQuietDelete

(***************************************************************************)
(* The watches, the clock and the cluster.                                 *)
(***************************************************************************)
\* What leaves a copy behind, or queues the key, leaves something to be delivered.
LEMMA EventsDelivered ==
  ASSUME \/ Watch \/ Replay \/ Requeue \/ Restart
         \/ UserStops \/ DeploymentCounts \/ DeploymentDeleted \/ ServiceDeleted \/ Collected
  PROVE  ~Delivered'
<1>1. CASE Watch \/ Replay \/ Requeue \/ Restart
  BY <1>1 DEF Watch, WatchService, WatchDeployment, WatchBaseService, mapPodToRequest, WatchOp,
              WatchOwned, WatchPods, Replay, Resync, Requeue, RequeueAfter, Restart, Crash, Delivered
<1>2. CASE UserStops
  BY <1>2 DEF UserStops, UserDeletes, OpCopies, Delivered
<1>3. CASE DeploymentCounts
  <2>1. PICK status : OwnedReports(status, TRUE)
    BY <1>3 DEF DeploymentCounts
  <2> QED
    BY <2>1 DEF OwnedReports, OwnedCopies, Delivered
<1>4. CASE DropOwned
  BY <1>4 DEF DropOwned, OwnedCopies, Delivered
<1>5. CASE ServiceDeleted \/ svcHeard' = FALSE
  BY <1>5 DEF ServiceDeleted, Delivered
<1> QED
  BY <1>1, <1>2, <1>3, <1>4, <1>5 DEF DeploymentDeleted, OwnedDeleted, Collected, OwnedCollected

\* What the rest leaves alone.
LEMMA RestAccount ==
  ASSUME PodInv, WakeInv,
         DeadlinePasses \/ ActivityChanges \/ PodMoves \/ DeploymentStartsPod \/ Expire \/ UNCHANGED vars,
         Delivered'
  PROVE  Account'
<1>1. /\ UNCHANGED <<subject, pc, inst, found, then, current, timer, faults, queued, svcHeard>>
  BY DEF DeadlinePasses, ActivityChanges, PodMoves, DeploymentStartsPod, Expire, TTLPasses, vars,
         beside, around, kubeVars, cluster, elsewhere, caches, worker, operator, subject
<1>2. Account
  BY <1>1 DEF Delivered, WakeInv, Accounted
<1> QED
  BY <1>1, <1>2, AccountStays

LEMMA NextAccount ==
  ASSUME PodInv, WakeInv, [Next]_vars
  PROVE  Accounted'
<1> SUFFICES ASSUME Delivered' PROVE Account'
  BY DEF Accounted
<1>1. CASE Reconcile
  BY <1>1, FetchAccount, StartAccount, ReportAccount, CollectAccount, ReleaseAccount,
     CleanUpAccount, StoreAccount, RuntimeAccount, StatusAccount, ServiceAccount,
     DeadlineAccount, DeleteAccount
     DEF Reconcile
<1> QED
  BY <1>1, EventsDelivered, RestAccount DEF Next, World

\* What is known stays known.
LEMMA KnownStays ==
  ASSUME PodInv, WakeInv, [Next]_vars
  PROVE  WatchesKnown' /\ faults' \in Nat
<1>0. WatchesKnown /\ faults \in Nat /\ SharedInv
  BY DEF WakeInv, PodInv
<1>a. ASSUME UNCHANGED <<owned, ownedCache>>, \A x \in current' : x \in current \/ x \in OpCopies
      PROVE  "ownedCache" \in current' => ownedCache' = owned'
  BY <1>0, <1>a DEF WatchesKnown, OpCopies
<1>b. ASSUME UNCHANGED <<svc, svcCache, svcHeard>> PROVE svcHeard' => svcCache' = svc'
  BY <1>0, <1>b DEF WatchesKnown
<1>c. ASSUME NEW new, NEW ACTION After, Write(new, After)
      PROVE  /\ owned' = owned /\ faults' \in Nat
             /\ \A x \in current' : x \in current \/ x \in OpCopies
  BY <1>0, <1>c, KeepFacts DEF Write, Put, cluster, Fail, Unchanged, OpCopies
<1>d. ASSUME NEW requeue, Delete(requeue)
      PROVE  /\ owned' = owned /\ faults' \in Nat
             /\ \A x \in current' : x \in current \/ x \in OpCopies
  BY <1>0, <1>d, KeepFacts DEF Delete, DeleteOp, Put, cluster, Fail, Unchanged, OpCopies
<1>e. ASSUME handlePastActiveDeadline
      PROVE  /\ owned' = owned /\ faults' \in Nat
             /\ \A x \in current' : x \in current \/ x \in OpCopies
  <2>1. ASSUME NEW new, NEW next, WriteStatus(new, next)
        PROVE  /\ owned' = owned /\ faults' \in Nat
               /\ \A x \in current' : x \in current \/ x \in OpCopies
    <3> DEFINE After == inst' = op' /\ pc' = "sync" /\ then' = next /\ UNCHANGED <<found, queued>>
               copy  == [inst EXCEPT !.status = new]
    <3>1. Write(copy, After)
      BY <2>1 DEF WriteStatus
    <3> HIDE DEF copy, After
    <3> QED
      BY <1>c, <3>1
  <2>2. ASSUME handleCulling
        PROVE  /\ owned' = owned /\ faults' \in Nat
               /\ \A x \in current' : x \in current \/ x \in OpCopies
    BY <1>0, <2>2, KeepFacts DEF handleCulling, Finish, Cull, Fail, cluster
  <2>3. CASE Keep(current) /\ UNCHANGED <<cluster, faults>>
    BY <1>0, <2>3, KeepFacts DEF cluster
  <2> QED
    BY <1>e, <2>1, <2>2, <2>3 DEF handlePastActiveDeadline, handleServiceContainerExit
<1>f. ASSUME reconcileBaseService, svcCache' = svcCache
      PROVE  /\ owned' = owned /\ faults' \in Nat
             /\ \A x \in current' : x \in current \/ x \in OpCopies
             /\ svcHeard' => svcCache' = svc'
  <2>1. CASE createService
    <3>1. /\ owned' = owned /\ Keep(current) /\ faults' \in Nat
      BY <1>0, <2>1 DEF createService, cluster, Fail
    <3>2. svcHeard' => UNCHANGED <<svc, svcHeard>>
      BY <2>1 DEF createService
    <3> QED
      BY <1>f, <1>b, <3>1, <3>2, KeepFacts
  <2> QED
    BY <1>f, <1>b, <1>e, <2>1 DEF reconcileBaseService
<1>1. CASE \/ Fetch \/ AddStartTime \/ AddLogsFinalizer \/ AddStatusFinalizer
           \/ handleFinalizersStop \/ collectLogs \/ removeFinalizer \/ handleTTL
           \/ writeStatus \/ instanceSyncStatus
  <2>1. HandlerStep
    BY <1>0, <1>1, WritersCarry, ReadersCarry
       DEF Fetch, AddStartTime, AddLogsFinalizer, AddStatusFinalizer, handleFinalizersStop,
           collectLogs, removeFinalizer, handleTTL, writeStatus, instanceSyncStatus
  <2>2. UNCHANGED <<svc, svcCache, svcHeard>>
    BY <1>1 DEF Fetch, AddStartTime, AddLogsFinalizer, AddStatusFinalizer, handleFinalizersStop,
           collectLogs, removeFinalizer, handleTTL, writeStatus, instanceSyncStatus, Within, around
  <2>3. \A x \in current' : x \in current \/ x \in OpCopies
    <3>1. CASE AddStartTime \/ AddLogsFinalizer \/ AddStatusFinalizer \/ removeFinalizer \/ writeStatus
      <4>1. ASSUME NEW label, NEW finalizer, SetFinalizer(label, finalizer)
            PROVE  \A x \in current' : x \in current \/ x \in OpCopies
        BY <1>c, <4>1 DEF SetFinalizer
      <4>2. CASE AddStartTime
        BY <1>c, <4>2 DEF AddStartTime, SetStartTime
      <4>3. CASE AddLogsFinalizer \/ AddStatusFinalizer
        BY <4>1, <4>3 DEF AddLogsFinalizer, AddStatusFinalizer, SetLogsFinalizer, SetStatusFinalizer
      <4>4. CASE removeFinalizer
        <5> DEFINE first == IF "logs" \in inst.fins THEN "logs" ELSE "status"
                   new   == [inst EXCEPT !.fins = @ \ {first}]
                   After == IF inst.life = "deleting" THEN Return ELSE inst' = op' /\ Goto("cleanup")
        <5>1. Write(new, After)
          BY <4>4 DEF removeFinalizer, ReleaseFinalizer
        <5> HIDE DEF new, After
        <5> QED
          BY <1>c, <5>1
      <4>5. CASE writeStatus
        <5> DEFINE After == inst' = op' /\ Goto("sync")
        <5>1. Write(inst, After)
          BY <4>5 DEF writeStatus, StoreStatus
        <5> HIDE DEF After
        <5> QED
          BY <1>c, <5>1
      <4> QED
        BY <3>1, <4>2, <4>3, <4>4, <4>5
    <3>2. CASE Fetch
      BY <3>2, KeepFacts DEF Fetch, FetchOp, OpCopies
    <3>3. CASE instanceSyncStatus \/ handleFinalizersStop \/ collectLogs
      BY <3>3, KeepFacts DEF instanceSyncStatus, ReportStatus, handleFinalizersStop, ReportStopped,
                             collectLogs, CollectHeld
    <3>4. CASE handleTTL
      BY <3>4, <1>d, KeepFacts DEF handleTTL, CleanUp
    <3> QED
      BY <1>1, <3>1, <3>2, <3>3, <3>4
  <2>4. UNCHANGED <<owned, ownedCache>> /\ faults' \in {faults, faults + 1}
    BY <2>1 DEF HandlerStep
  <2> QED
    BY <1>0, <1>a, <1>b, <2>2, <2>3, <2>4 DEF WatchesKnown
<1>2. CASE reconcileDeployment
  <2>1. UNCHANGED <<ownedCache, svc, svcCache, svcHeard>>
    BY <1>2 DEF reconcileDeployment, Within, around, elsewhere, caches
  <2>2. faults' \in Nat
    BY <1>0, <1>2 DEF reconcileDeployment, UpdateOwned, Create, Fail
  <2>3. \/ owned' = owned /\ Keep(current)
        \/ Keep(current \ OwnedCopies)
    BY <1>2 DEF reconcileDeployment, UpdateOwned, Create, cluster
  <2>4. "ownedCache" \in current' => ownedCache' = owned'
    BY <1>a, <2>1, <2>3, KeepFacts DEF OwnedCopies
  <2> QED
    BY <1>b, <2>1, <2>2, <2>4 DEF WatchesKnown
<1>3. CASE checkStatus
  <2>1. UNCHANGED <<ownedCache, svcCache>>
    BY <1>3 DEF checkStatus, elsewhere, caches
  <2>2. PICK new : \/ WriteStatus(new, "service") /\ UNCHANGED <<svc, svcHeard>>
                   \/ reconcileBaseService
    BY <1>3 DEF checkStatus
  <2> DEFINE After == inst' = op' /\ pc' = "sync" /\ then' = "service" /\ UNCHANGED <<found, queued>>
             copy  == [inst EXCEPT !.status = new]
  <2>3. WriteStatus(new, "service") => Write(copy, After)
    BY DEF WriteStatus
  <2> HIDE DEF copy, After
  <2> QED
    BY <1>a, <1>b, <1>c, <1>f, <2>1, <2>2, <2>3 DEF WatchesKnown
<1>4. CASE checkService
  <2>1. UNCHANGED <<ownedCache, svcCache>> /\ reconcileBaseService
    BY <1>4 DEF checkService, elsewhere, caches
  <2> QED
    BY <1>a, <1>f, <2>1 DEF WatchesKnown
<1>5. CASE checkDeadline \/ delete
  <2>1. /\ UNCHANGED <<ownedCache, svc, svcCache, svcHeard>>
        /\ handlePastActiveDeadline \/ \E requeue : Delete(requeue)
    BY <1>5 DEF checkDeadline, delete, Within, around, elsewhere, caches
  <2> QED
    BY <1>a, <1>b, <1>d, <1>e, <2>1 DEF WatchesKnown
<1>6. CASE Watch \/ Replay \/ Requeue \/ Restart
  BY <1>0, <1>6
     DEF Watch, WatchService, WatchDeployment, WatchBaseService, mapPodToRequest, WatchOp, WatchOwned,
         WatchPods, Replay, Resync, Requeue, RequeueAfter, Restart, Crash, beside, around, outside,
         cluster, elsewhere, caches, WatchesKnown
<1>7. CASE UserStops \/ (DropOwned /\ beside) \/ DeploymentCounts
  <2>1. UNCHANGED <<ownedCache, faults, svc, svcCache, svcHeard>>
    BY <1>7 DEF UserStops, UserDeletes, DropOwned, DeploymentCounts, OwnedReports, operator,
                elsewhere, caches, beside, around
  <2>2. \/ owned' = owned /\ current' = current \ OpCopies
        \/ current' = current \ OwnedCopies
    <3>1. CASE DeploymentCounts
      <4>1. PICK status : OwnedReports(status, TRUE)
        BY <3>1 DEF DeploymentCounts
      <4> QED
        BY <4>1 DEF OwnedReports
    <3> QED
      BY <1>7, <3>1 DEF UserStops, UserDeletes, DeleteOp, Put, DropOwned
  <2>3. "ownedCache" \in current' => ownedCache' = owned'
    BY <1>a, <2>1, <2>2 DEF OwnedCopies
  <2> QED
    BY <1>0, <1>b, <2>1, <2>3 DEF WatchesKnown
<1>8. CASE ServiceDeleted \/ (UNCHANGED kubeVars /\ svcHeard' = FALSE)
  <2>1. UNCHANGED <<owned, ownedCache, current, faults>> /\ svcHeard' = FALSE
    BY <1>8 DEF ServiceDeleted, operator, kubeVars, cluster, elsewhere, caches
  <2> QED
    BY <1>0, <1>a, <2>1 DEF WatchesKnown
<1>9. CASE DeadlinePasses \/ ActivityChanges \/ PodMoves \/ DeploymentStartsPod \/ Expire \/ UNCHANGED vars
  <2>1. UNCHANGED <<owned, ownedCache, current, faults, svc, svcCache, svcHeard>>
    BY <1>9 DEF DeadlinePasses, ActivityChanges, PodMoves, DeploymentStartsPod, Expire, TTLPasses,
                vars, beside, around, kubeVars, cluster, elsewhere, caches, operator
  <2> QED
    BY <1>0, <1>a, <1>b, <2>1 DEF WatchesKnown
<1> QED
  BY <1>1, <1>2, <1>3, <1>4, <1>5, <1>6, <1>7, <1>8, <1>9
     DEF Next, Reconcile, World, DeploymentDeleted, OwnedDeleted, Collected, OwnedCollected

\* In every reachable state the queue, the copies and the pass account for what the
\* service waits for.
THEOREM WakeInvariance == Spec => [](PodInv /\ WakeInv)
<1>1. Init => PodInv
  BY InitPods
<1>2. Init => WakeInv
  <2> SUFFICES ASSUME Init PROVE WakeInv
    OBVIOUS
  <2>1. queued /\ ownedCache = owned /\ svcCache = svc /\ faults = 0
    BY DEF Init, KubeInit
  <2> QED
    BY <2>1 DEF WakeInv, Accounted, Delivered, WatchesKnown
<1>3. PodInv /\ WakeInv /\ [Next]_vars => PodInv' /\ WakeInv'
  BY NextKeeps, NextAccount, KnownStays DEF WakeInv
<1> QED
  BY <1>1, <1>2, <1>3, PTL DEF Spec

\* NoLostWakeup: when the queue is empty and the caches are current, the controller
\* has left nothing undone, whatever was lost, repeated or removed before.
THEOREM NoLostWakeupHolds == Spec => []NoLostWakeup
<1>1. PodInv /\ WakeInv => NoLostWakeup
  <2> SUFFICES ASSUME PodInv, WakeInv, Rested PROVE NoLostWakeup
    BY DEF NoLostWakeup
  <2>1. pc = "idle" /\ Delivered /\ podCache = pods
    BY DEF Rested, Settled, Delivered
  <2>2. Calm
    BY <2>1 DEF WakeInv, Accounted, Account
  <2>3. ASSUME op.life = "live", ~IsDone(op.status)
        PROVE  \E podList \in ListInstancePods(pods) :
                 /\ reconcileDeploymentStatus(op.status, owned.status, podList).status = op.status
                 /\ ExitEnds(op.status, GetMainContainerExitStatus(podList)) = op.status
    <3>1. Judged /\ ExitsJudged
      BY <2>2, <2>3 DEF Calm
    <3>2. PICK podList \in ListInstancePods(podCache) :
            ExitEnds(op.status, GetMainContainerExitStatus(podList)) = op.status
      BY <3>1 DEF ExitsJudged
    <3>3. reconcileDeploymentStatus(op.status, owned.status, podList).status = op.status
      BY <3>1 DEF Judged
    <3> QED
      BY <2>1, <3>2, <3>3
  <2> QED
    BY <2>2, <2>3 DEF NoLostWakeup, Calm, Timed, Tended, Guarded, Judged
<1> QED
  BY <1>1, WakeInvariance, PTL

(***************************************************************************)
(* What ReportIsCurrent needs: what has been heard follows what is stored. *)
(***************************************************************************)
\* Nothing has gone wrong, and there is a control plane to report to.
Smooth == faults = 0 /\ crashes = 0 /\ SyncStatuses

\* A status is reported as soon as it is stored, before the pass does anything
\* else, so every other step finds the control plane informed; and no finalizer
\* is taken from a service before its end was reported.
Followed ==
  /\ "inst" \in current /\ pc # "write" => inst.status = op.status
  /\ pc = "sync" => inst.status = op.status
  /\ pc # "sync" /\ op.life = "live" /\ op.status.has # {} => latest = op.status.last.type
  /\ IsDone(op.status) =>
       \/ reported # {}
       \/ pc = "sync" /\ op.status.last.type \in FinalTypes
  /\ pc \in {"collect", "removeFinalizer"} => reported # {}
  /\ held # {} => op.fins # {} \/ reported # {}
  /\ op.life = "gone" => op.fins = {}

FollowInv == faults \in Nat /\ crashes \in Nat /\ (Smooth => Followed)

\* Where a step goes that does not report: not to the release of a finalizer unless
\* the end has been heard of.
Onward == pc' # "sync" /\ (pc' \in {"collect", "removeFinalizer"} => reported # {})

\* What a pass knows of its copy after such a step.
CopyKept ==
  \/ "inst" \notin current'
  \/ pc' = "write"
  \/ inst' = op'
  \/ inst' = inst /\ pc # "write" /\ ("inst" \in current' => "inst" \in current)

\* A step that stores and reports nothing.
LEMMA QuietFollows ==
  ASSUME Followed, UNCHANGED <<op, held, reported, latest>>, pc # "sync", Onward, CopyKept
  PROVE  Followed'
BY DEF Followed, Onward, CopyKept

\* A step of somebody else.
LEMMA AsideFollows ==
  ASSUME Followed, UNCHANGED <<op, held, reported, latest, pc, inst>>,
         "inst" \in current' => "inst" \in current
  PROVE  Followed'
BY DEF Followed

\* A write of the controller that leaves the conditions alone.
LEMMA WriteFollows ==
  ASSUME SharedInv, Followed, ~Fail, pc # "sync", UNCHANGED <<reported, latest>>,
         NEW new \in Op, new.life = inst.life, NEW ACTION After, Write(new, After),
         "inst" \in current =>
           /\ new.status.has = op.status.has /\ new.status.last = op.status.last
           /\ new.fins = {} => op.fins = {} \/ reported # {},
         "inst" \in current /\ Put(new) /\ After => pc' = "idle" \/ (inst' = op' /\ Onward)
  PROVE  Followed'
<1>1. CASE ReturnError /\ Keep(current) /\ UNCHANGED cluster
  <2>1. pc' = "idle" /\ "inst" \notin current'
    BY <1>1, KeepFacts DEF ReturnError, Forget
  <2> QED
    BY <1>1, <2>1, QuietFollows DEF cluster, Onward, CopyKept
<1>2. CASE Current /\ Put(new) /\ After /\ Keep(Unchanged \cup {"inst"})
  <2>1. /\ "inst" \in current /\ op.life # "gone" /\ inst.life = op.life
        /\ op'.fins = new.fins /\ op'.status = new.status /\ op' \in Op
        /\ op'.life = IF new.life = "deleting" /\ new.fins = {} THEN "gone" ELSE new.life
        /\ held' = held \cup new.fins
    BY <1>2, PutStores DEF Current, SharedInv, CopiesCurrent, Put
  <2>2. pc' = "idle" \/ (inst' = op' /\ Onward)
    BY <1>2, <2>1
  <2>3. pc' = "idle" => "inst" \notin current'
    BY <1>2, KeepFacts
  <2>4. IsDone(op'.status) => IsDone(op.status)
    BY <2>1 DEF IsDone
  <2>5. /\ "inst" \in current' /\ pc' # "write" => inst'.status = op'.status
        /\ pc' # "sync"
    BY <2>2, <2>3 DEF Onward
  <2>6. /\ op'.life = "live" /\ op'.status.has # {} => latest' = op'.status.last.type
        /\ IsDone(op'.status) => reported' # {}
    BY <2>1, <2>4 DEF Followed
  <2>7. pc' \in {"collect", "removeFinalizer"} => reported' # {}
    BY <2>2 DEF Onward
  <2>8. /\ held' # {} => op'.fins # {} \/ reported' # {}
        /\ op'.life = "gone" => op'.fins = {}
    BY <2>1 DEF Followed
  <2> QED
    BY <2>5, <2>6, <2>7, <2>8 DEF Followed
<1> QED
  BY <1>1, <1>2 DEF Write

\* A write of a status that is then reported.
LEMMA StatusFollows ==
  ASSUME SharedInv, Followed, ~Fail, pc # "sync", UNCHANGED <<reported, latest>>,
         inst.life = "live", NEW new \in OperationStatusType,
         NEW ACTION After, Write([inst EXCEPT !.status = new], After),
         Put([inst EXCEPT !.status = new]) /\ After => inst' = op' /\ pc' = "sync",
         IsDone(new) => IsDone(inst.status) \/ new.last.type \in FinalTypes
  PROVE  Followed'
<1> DEFINE copy == [inst EXCEPT !.status = new]
<1>0. copy \in Op /\ copy.life = "live" /\ copy.fins = inst.fins /\ copy.status = new
  BY DEF SharedInv, SharedTypeOK, Op
<1>a. Write(copy, After) /\ (Put(copy) /\ After => inst' = op' /\ pc' = "sync")
  OBVIOUS
<1> HIDE DEF copy
<1>1. CASE ReturnError /\ Keep(current) /\ UNCHANGED cluster
  <2>1. pc' = "idle" /\ "inst" \notin current'
    BY <1>1, KeepFacts DEF ReturnError, Forget
  <2> QED
    BY <1>1, <2>1, QuietFollows DEF cluster, Onward, CopyKept
<1>2. CASE Current /\ Put(copy) /\ After
  <2>1. /\ "inst" \in current /\ inst.fins = op.fins
        /\ op'.fins = op.fins /\ op'.status = new /\ op'.life = "live"
        /\ held' = held \cup op.fins
    BY <1>0, <1>2, PutStores DEF Current, SharedInv, CopiesCurrent, Put
  <2>2. inst' = op' /\ pc' = "sync"
    BY <1>a, <1>2
  <2>3. IsDone(inst.status) <=> IsDone(op.status)
    BY <2>1, DoneOutcomes DEF SharedInv, CopiesCurrent
  <2> QED
    BY <2>1, <2>2, <2>3 DEF Followed
<1> QED
  BY <1>1, <1>2, <1>a DEF Write

\* A delete.
LEMMA DeleteFollows ==
  ASSUME SharedInv, Followed, DeleteOp, UNCHANGED <<reported, latest>>,
         \/ pc # "sync" /\ pc' = "idle" /\ "inst" \notin current'
         \/ pc' = pc /\ inst' = inst /\ "inst" \notin current'
  PROVE  Followed'
<1> DEFINE new == [op EXCEPT !.life = "deleting"]
<1>1. new \in Op /\ new.status = op.status /\ new.fins = op.fins /\ new.life = "deleting" /\ Put(new)
  BY DEF DeleteOp, SharedInv, SharedTypeOK, Op
<1> HIDE DEF new
<1>2. /\ op'.status = op.status /\ op'.fins = op.fins /\ held' = held \cup op.fins
      /\ op'.life = IF op.fins = {} THEN "gone" ELSE "deleting"
  BY <1>1, PutStores DEF Put
<1>3. CASE pc' = "idle" /\ pc # "sync"
  BY <1>2, <1>3 DEF Followed
<1>4. CASE pc' = pc
  BY <1>2, <1>4 DEF Followed
<1> QED
  BY <1>3, <1>4

(***************************************************************************)
(* The shared handlers.                                                    *)
(***************************************************************************)
\* What an end that a pass has read or written has been followed by.
LEMMA Heard ==
  ASSUME SharedInv, Followed, pc # "sync"
  PROVE  /\ \A copy : Older(copy) /\ IsDone(copy.status) => reported # {}
         /\ IsDone(op.status) => reported # {}
BY DoneOutcomes DEF Followed, Older

LEMMA FetchFollows == ASSUME SharedInv, Followed, Fetch PROVE Followed'
<1>1. /\ UNCHANGED <<op, held, reported, latest>> /\ pc = "idle" /\ "inst" \notin current
      /\ Older(opCache) /\ ("opCache" \in current => opCache = op)
  BY DEF Fetch, FetchOp, cluster, plane, SharedInv, CopiesCurrent, CopiesOlder
<1>2. CASE opCache.life = "gone"
  BY <1>1, <1>2, AsideFollows DEF Fetch, FetchOp, worker
<1>3. CASE opCache.life # "gone"
  <2>1. /\ inst' = opCache /\ (pc' = "addStart" \/ pc' = Dispatch(opCache))
        /\ Keep(IF "opCache" \in current THEN current \cup {"inst"} ELSE current)
    BY <1>3 DEF Fetch, FetchOp
  <2>2. Onward
    <3>1. Dispatch(opCache) = "collect" => IsDone(opCache.status)
      BY DEF Dispatch
    <3>2. Dispatch(opCache) \notin {"sync", "removeFinalizer"}
      BY Dispatched
    <3> QED
      BY <1>1, <2>1, <3>1, <3>2, Heard DEF Onward
  <2>3. CopyKept
    BY <1>1, <2>1, KeepFacts DEF CopyKept
  <2> QED
    BY <1>1, <2>2, <2>3, QuietFollows
<1> QED
  BY <1>2, <1>3

\* The start time and the finalizers.
LEMMA GuardFollows ==
  ASSUME SharedInv, Followed, ~Fail, AddStartTime \/ AddLogsFinalizer \/ AddStatusFinalizer
  PROVE  Followed'
<1>1. ASSUME NEW new \in Op, new.life = inst.life, inst.fins \subseteq new.fins,
             new.status.has = inst.status.has, new.status.last = inst.status.last,
             UNCHANGED <<reported, latest>>, pc \notin {"sync", "write"},
             Write(new, inst' = op' /\ Goto(Dispatch(new)))
      PROVE  Followed'
  <2> DEFINE After == inst' = op' /\ Goto(Dispatch(new))
  <2>1. Write(new, After)
    BY <1>1
  <2>2. After => inst' = op' /\ pc' = Dispatch(new)
    BY DEF Goto
  <2> HIDE DEF After
  <2>3. "inst" \in current =>
          /\ new.status.has = op.status.has /\ new.status.last = op.status.last
          /\ new.fins = {} => op.fins = {} \/ reported # {}
    BY <1>1 DEF Followed, SharedInv, CopiesCurrent
  <2>4. ASSUME "inst" \in current, After PROVE inst' = op' /\ Onward
    <3>1. IsDone(new.status) => reported # {}
      BY <1>1, <2>3, <2>4, Heard DEF IsDone
    <3>2. Dispatch(new) = "collect" => IsDone(new.status)
      BY DEF Dispatch
    <3>3. Dispatch(new) \notin {"sync", "removeFinalizer"}
      BY Dispatched
    <3> QED
      BY <2>2, <2>4, <3>1, <3>2, <3>3 DEF Onward
  <2> QED
    BY <1>1, <2>1, <2>3, <2>4, WriteFollows
<1>2. inst \in Op /\ UNCHANGED <<reported, latest>> /\ pc \notin {"sync", "write"}
  BY DEF SharedInv, SharedTypeOK, AddStartTime, AddLogsFinalizer, AddStatusFinalizer, SetStartTime,
         SetLogsFinalizer, SetStatusFinalizer, SetFinalizer, plane
<1>3. CASE AddStartTime
  <2> DEFINE new == [inst EXCEPT !.status.start = TRUE]
  <2>1. /\ new \in Op /\ new.life = inst.life /\ new.fins = inst.fins
        /\ new.status.has = inst.status.has /\ new.status.last = inst.status.last
    BY <1>2 DEF Op, OperationStatusType
  <2>2. Write(new, inst' = op' /\ Goto(Dispatch(new)))
    BY <1>3 DEF AddStartTime, SetStartTime
  <2> HIDE DEF new
  <2> QED
    BY <1>1, <1>2, <2>1, <2>2
<1>4. ASSUME NEW label, NEW finalizer \in Finalizers, SetFinalizer(label, finalizer) PROVE Followed'
  <2> DEFINE new == [inst EXCEPT !.fins = @ \cup {finalizer}]
  <2>1. /\ new \in Op /\ new.life = inst.life /\ inst.fins \subseteq new.fins
        /\ new.status = inst.status
    BY <1>2, <1>4 DEF Op
  <2>2. Write(new, inst' = op' /\ Goto(Dispatch(new)))
    BY <1>4 DEF SetFinalizer
  <2> HIDE DEF new
  <2> QED
    BY <1>1, <1>2, <2>1, <2>2
<1> QED
  BY <1>3, <1>4 DEF AddLogsFinalizer, AddStatusFinalizer, SetLogsFinalizer, SetStatusFinalizer,
                    Finalizers

\* The reports.
LEMMA ReportFollows ==
  ASSUME SharedInv, Followed, ~Fail, SyncStatuses, instanceSyncStatus \/ handleFinalizersStop
  PROVE  Followed'
<1>2. op' = op /\ held' = held
  BY DEF instanceSyncStatus, ReportStatus, handleFinalizersStop, ReportStopped, cluster
<1>3. CASE instanceSyncStatus
  <2>1. /\ pc = "sync" /\ inst.status = op.status /\ then \in Nexts
        /\ reported' = reported \cup ({op.status.last.type} \cap FinalTypes)
        /\ latest' = op.status.last.type /\ Keep(current)
        /\ \/ pc' = "idle"
           \/ then \notin {"done", "error", "requeue"} /\ pc' = then /\ inst' = inst
    BY <1>3 DEF instanceSyncStatus, ReportStatus, syncStatus, Followed, Return, ReturnError, Forget,
                Goto, SharedInv, SharedTypeOK
  <2>2. pc' \notin {"sync", "collect", "removeFinalizer"}
    BY <2>1 DEF Nexts
  <2>3. "inst" \in current' => "inst" \in current /\ inst' = inst
    BY <2>1, KeepFacts
  <2> QED
    BY <1>2, <2>1, <2>2, <2>3 DEF Followed
<1>4. CASE handleFinalizersStop
  <2>1. /\ pc = "syncStopped" /\ pc' = "collect" /\ inst' = inst /\ current' = current
        /\ reported' = reported \cup {"Stopped"}
    BY <1>4 DEF handleFinalizersStop, ReportStopped, syncStatus, Goto, FinalTypes
  <2>2. inst.life = "deleting" /\ op.life # "live"
    BY <2>1 DEF SharedInv, Phases, CopiesOlder, Older
  <2> QED
    BY <1>2, <2>1, <2>2 DEF Followed
<1> QED
  BY <1>3, <1>4

\* Log collection, the release of a finalizer, the TTL.
LEMMA EndFollows ==
  ASSUME SharedInv, Followed, ~Fail, collectLogs \/ removeFinalizer \/ handleTTL
  PROVE  Followed'
<1>0. UNCHANGED <<reported, latest>> /\ inst \in Op /\ inst.life # "gone"
  BY DEF collectLogs, CollectHeld, removeFinalizer, ReleaseFinalizer, handleTTL, CleanUp, plane,
         SharedInv, SharedTypeOK, Lives
<1>1. CASE collectLogs
  <2>1. /\ pc = "collect" /\ op' = op /\ held' = held /\ Keep(current) /\ reported # {}
        /\ pc' = "idle" \/ (pc' \in {"removeFinalizer", "cleanup"} /\ inst' = inst)
    BY <1>1 DEF collectLogs, CollectHeld, AfterFinalizers, Goto, Return, Forget, cluster, Followed
  <2>2. Onward /\ CopyKept
    BY <2>1, KeepFacts DEF Onward, CopyKept
  <2> QED
    BY <1>0, <2>1, <2>2, QuietFollows
<1>2. CASE removeFinalizer
  <2> DEFINE first == IF "logs" \in inst.fins THEN "logs" ELSE "status"
             new   == [inst EXCEPT !.fins = @ \ {first}]
             After == IF inst.life = "deleting" THEN Return ELSE inst' = op' /\ Goto("cleanup")
  <2>1. pc = "removeFinalizer" /\ Write(new, After) /\ reported # {}
    BY <1>2 DEF removeFinalizer, ReleaseFinalizer, Followed
  <2>2. new \in Op /\ new.life = inst.life /\ new.status = inst.status
    BY <1>0 DEF Op
  <2>3. After => pc' = "idle" \/ (inst' = op' /\ Onward)
    BY DEF Return, Forget, Goto, Onward
  <2> HIDE DEF new, After
  <2>4. "inst" \in current => new.status = op.status
    BY <2>1, <2>2 DEF Followed
  <2> QED
    BY <1>0, <2>1, <2>2, <2>3, <2>4, WriteFollows
<1>3. CASE handleTTL
  <2>1. pc = "cleanup" /\ (Delete(FALSE) \/ (Forget /\ Keep(current) /\ UNCHANGED cluster))
    BY <1>3 DEF handleTTL, CleanUp, Return, ReturnError
  <2>2. CASE Forget /\ Keep(current) /\ UNCHANGED cluster
    BY <1>0, <2>1, <2>2, KeepFacts, QuietFollows DEF Forget, cluster, Onward, CopyKept
  <2>3. CASE DeleteOp /\ Forget /\ Keep(Unchanged)
    BY <1>0, <2>1, <2>3, KeepFacts, DeleteFollows DEF Forget
  <2> QED
    BY <2>1, <2>2, <2>3 DEF Delete, Return, ReturnError
<1> QED
  BY <1>1, <1>2, <1>3

\* A logged status is written.
LEMMA StoreFollows == ASSUME SharedInv, Followed, ~Fail, writeStatus PROVE Followed'
<1> DEFINE After == inst' = op' /\ Goto("sync")
<1>1. /\ pc = "write" /\ Write(inst, After) /\ UNCHANGED <<reported, latest>>
      /\ inst \in Op /\ inst.status \in OperationStatusType /\ inst.life = "live"
  BY DEF writeStatus, StoreStatus, plane, SharedInv, SharedTypeOK, Op, Phases, Later
<1>2. [inst EXCEPT !.status = inst.status] = inst
  BY <1>1 DEF Op
<1>3. After => inst' = op' /\ pc' = "sync"
  BY DEF Goto
<1> HIDE DEF After
<1> QED
  BY <1>1, <1>2, <1>3, StatusFollows

(***************************************************************************)
(* The runtime.                                                            *)
(***************************************************************************)
\* The loggers that end an unfinished service leave a final condition last.
LEMMA LogsEnd ==
  ASSUME NEW status \in OperationStatusType, OneListed(status), ~IsDone(status)
  PROVE  \A new \in {LogSucceeded(status), LogFailed(status, "ContainerFailure"),
                     LogFailed(status, "InvalidImageName"), LogStopped(status, "DeadlineExceeded")} :
            new \in OperationStatusType /\ new.last.type \in FinalTypes
<1>1. \A why \in Reasons :
        \A new \in {LogSucceeded(status), LogFailed(status, why), LogStopped(status, why)} :
           new \in OperationStatusType /\ Outcomes(new) = {new.last.type}
  BY LoggerFacts
<1> QED
  BY <1>1, ServiceReasons DEF Outcomes

\* A judgement that is written.
LEMMA JudgementFollows ==
  ASSUME SharedInv, Followed, ~Fail, pc # "sync", inst.life = "live", UNCHANGED <<reported, latest>>,
         NEW new \in OperationStatusType, NEW next, WriteStatus(new, next),
         IsDone(new) => IsDone(inst.status) \/ new.last.type \in FinalTypes
  PROVE  Followed'
<1> DEFINE After == inst' = op' /\ pc' = "sync" /\ then' = next /\ UNCHANGED <<found, queued>>
<1>1. Write([inst EXCEPT !.status = new], After)
  BY DEF WriteStatus
<1>2. After => inst' = op' /\ pc' = "sync"
  OBVIOUS
<1> HIDE DEF After
<1> QED
  BY <1>1, <1>2, StatusFollows

\* A step of the pass that stores nothing, and ends it or goes on.
LEMMA PassFollows ==
  ASSUME Followed, UNCHANGED <<op, held, reported, latest>>, pc \notin {"sync", "write"},
         NEW copies, Keep(copies), "inst" \in copies => "inst" \in current,
         \/ pc' \in {"idle", "write"}
         \/ inst' = inst /\ pc' \notin {"sync", "collect", "removeFinalizer"}
  PROVE  Followed'
<1>1. Onward /\ CopyKept
  BY KeepFacts DEF Onward, CopyKept
<1> QED
  BY <1>1, QuietFollows

LEMMA RestFollows ==
  ASSUME SharedInv, Followed, ~Fail, UNCHANGED <<reported, latest>>,
         pc \in {"checkStatus", "service", "deadline"},
         handlePastActiveDeadline \/ createService
  PROVE  Followed'
<1>0. inst.status \in OperationStatusType /\ OneListed(inst.status) /\ inst.life = "live"
  BY LiveCopy
<1>1. CASE createService
  <2>1. /\ Keep(current) /\ op' = op /\ held' = held
        /\ \/ pc' \in {"idle", "write"}
           \/ pc' = "deadline" /\ inst' = inst
    BY <1>1 DEF createService, cluster, Goto, CreateFailed, Log, ReturnError, Forget
  <2> QED
    BY <2>1, PassFollows
<1>2. ASSUME handleCulling PROVE Followed'
  <2>1. /\ Keep(current) \/ current' = current
        /\ op' = op /\ held' = held
        /\ \/ pc' = "idle"
           \/ pc' = "delete" /\ inst' = inst
        /\ pc' = "idle" => Keep(current)
    BY <1>2 DEF handleCulling, Finish, Cull, cluster, Goto, Return, Forget
  <2> QED
    BY <2>1, PassFollows DEF Keep
<1>3. CASE handlePastActiveDeadline
  <2>1. CASE Return /\ Keep(current) /\ UNCHANGED cluster
    BY <2>1, PassFollows DEF Return, Forget, cluster
  <2>2. CASE ~IsDone(inst.status) /\ WriteStatus(LogStopped(inst.status, "DeadlineExceeded"), "delete")
    <3>1. /\ LogStopped(inst.status, "DeadlineExceeded") \in OperationStatusType
          /\ LogStopped(inst.status, "DeadlineExceeded").last.type \in FinalTypes
      BY <1>0, <2>2, LogsEnd
    <3> QED
      BY <1>0, <2>2, <3>1, JudgementFollows
  <2>3. CASE ~IsDone(inst.status) /\ handleServiceContainerExit
    <3>1. PICK podList :
             LET new == ExitEnds(inst.status, GetMainContainerExitStatus(podList))
             IN  WriteStatus(new, "requeue") \/ handleCulling
      BY <2>3 DEF handleServiceContainerExit
    <3> DEFINE new == ExitEnds(inst.status, GetMainContainerExitStatus(podList))
    <3>2. new \in OperationStatusType /\ (IsDone(new) => new.last.type \in FinalTypes)
      BY <1>0, <2>3, ExitEndsFacts, LogsEnd
    <3>3. WriteStatus(new, "requeue") \/ handleCulling
      BY <3>1
    <3> HIDE DEF new
    <3> QED
      BY <1>0, <1>2, <3>2, <3>3, JudgementFollows
  <2> QED
    BY <1>3, <2>1, <2>2, <2>3 DEF handlePastActiveDeadline
<1> QED
  BY <1>1, <1>3

LEMMA RuntimeFollows ==
  ASSUME SharedInv, Followed, ~Fail,
         reconcileDeployment \/ checkStatus \/ checkService \/ checkDeadline \/ delete
  PROVE  Followed'
<1>0. UNCHANGED <<reported, latest>>
  BY DEF reconcileDeployment, checkStatus, checkService, checkDeadline, delete, plane
<1>1. CASE reconcileDeployment
  <2>1. /\ pc = "runtime" /\ op' = op /\ held' = held
        /\ pc' \in {"idle", "write"} \/ (pc' = "checkStatus" /\ inst' = inst)
    BY <1>1 DEF reconcileDeployment, UpdateOwned, Create, cluster, CreateFailed, Log, ReturnError,
                Forget
  <2>2. Keep(current) \/ Keep(current \ OwnedCopies)
    BY <1>1 DEF reconcileDeployment, UpdateOwned, Create
  <2> QED
    BY <1>0, <2>1, <2>2, PassFollows
<1>2. ASSUME pc \in {"checkStatus", "service"}, reconcileBaseService PROVE Followed'
  BY <1>0, <1>2, RestFollows DEF reconcileBaseService
<1>3. CASE checkStatus
  <2>1. pc = "checkStatus"
    BY <1>3 DEF checkStatus
  <2>2. PICK podList :
           LET result == reconcileDeploymentStatus(inst.status, DeploymentStatus(found), podList)
           IN  WriteStatus(result.status, "service") \/ reconcileBaseService
    BY <1>3 DEF checkStatus
  <2> DEFINE new == reconcileDeploymentStatus(inst.status, DeploymentStatus(found), podList).status
  <2>3. inst.life = "live" /\ inst.status \in OperationStatusType /\ OneListed(inst.status)
        /\ ~IsDone(inst.status)
    BY <2>1, LiveCopy
  <2>4. /\ new \in OperationStatusType
        /\ \/ new = LogFailed(inst.status, "InvalidImageName")
           \/ Outcomes(new) = Outcomes(inst.status)
    BY <2>3, DeploymentFacts
  <2>5. WriteStatus(new, "service") \/ reconcileBaseService
    BY <2>2
  <2> HIDE DEF new
  <2>6. IsDone(new) => new.last.type \in FinalTypes
    BY <2>3, <2>4, LogsEnd, DoneOutcomes
  <2> QED
    BY <1>0, <1>2, <2>1, <2>3, <2>4, <2>5, <2>6, JudgementFollows
<1>4. CASE checkService
  BY <1>2, <1>4 DEF checkService
<1>5. CASE checkDeadline
  BY <1>0, <1>5, RestFollows DEF checkDeadline
<1>6. CASE delete
  <2>1. pc = "delete" /\ \E requeue : Delete(requeue)
    BY <1>6 DEF delete
  <2>2. \/ DeleteOp /\ Forget /\ Keep(Unchanged)
        \/ Forget /\ Keep(current) /\ UNCHANGED cluster
    BY <2>1 DEF Delete, Return, ReturnError
  <2>3. CASE DeleteOp /\ Forget /\ Keep(Unchanged)
    BY <1>0, <2>1, <2>3, KeepFacts, DeleteFollows DEF Forget
  <2>4. CASE Forget /\ Keep(current) /\ UNCHANGED cluster
    BY <1>0, <2>1, <2>4, PassFollows DEF Forget, cluster
  <2> QED
    BY <2>2, <2>3, <2>4
<1> QED
  BY <1>1, <1>3, <1>4, <1>5, <1>6

(***************************************************************************)
(* Everything else.                                                        *)
(***************************************************************************)
\* What the watches, the clock, the cluster and the users leave alone.
LEMMA AroundFollows ==
  ASSUME SharedInv, Followed, Watch \/ Replay \/ Requeue \/ World \/ UNCHANGED vars
  PROVE  Followed'
<1>1. CASE UserStops
  BY <1>1, DeleteFollows DEF UserStops, UserDeletes, OpCopies, worker, plane
<1>2. CASE DeploymentCounts
  <2>1. PICK status : OwnedReports(status, TRUE)
    BY <1>2 DEF DeploymentCounts
  <2> QED
    BY <2>1, AsideFollows DEF OwnedReports, operator, worker, plane
<1>3. CASE \/ Watch \/ Replay \/ Requeue \/ DeadlinePasses \/ ActivityChanges \/ PodMoves
           \/ DeploymentStartsPod \/ DropOwned \/ ServiceDeleted \/ UNCHANGED kubeVars \/ Expire
  <2>1. /\ UNCHANGED <<op, held, reported, latest, pc, inst>>
        /\ "inst" \in current' => "inst" \in current
    BY <1>3
       DEF Watch, WatchService, WatchDeployment, WatchBaseService, mapPodToRequest, WatchOp,
           WatchOwned, WatchPods, Replay, Resync, Requeue, RequeueAfter, DeadlinePasses,
           ActivityChanges, PodMoves, DeploymentStartsPod, DropOwned, ServiceDeleted, Expire,
           TTLPasses, kubeVars, outside, operator, cluster, worker, plane
  <2> QED
    BY <2>1, AsideFollows
<1> QED
  BY <1>1, <1>2, <1>3 DEF World, DeploymentDeleted, OwnedDeleted, Collected, OwnedCollected, vars

\* The counts of failures and restarts only grow.
LEMMA Counts ==
  ASSUME [Next]_vars
  PROVE  /\ setup' = setup /\ (faults' = faults \/ Fail)
         /\ crashes' = crashes \/ (Restart /\ crashes' = crashes + 1)
<1>1. ASSUME NEW new, NEW ACTION After, Write(new, After) PROVE faults' = faults \/ Fail
  BY <1>1 DEF Write
<1>2. ASSUME NEW new, NEW next, WriteStatus(new, next) PROVE faults' = faults \/ Fail
  <2> DEFINE copy  == [inst EXCEPT !.status = new]
             After == inst' = op' /\ pc' = "sync" /\ then' = next /\ UNCHANGED <<found, queued>>
  <2>1. Write(copy, After)
    BY <1>2 DEF WriteStatus
  <2> HIDE DEF copy, After
  <2> QED
    BY <1>1, <2>1
<1>3. ASSUME handlePastActiveDeadline \/ createService PROVE faults' = faults \/ Fail
  BY <1>2, <1>3 DEF handlePastActiveDeadline, handleServiceContainerExit, handleCulling, createService
<1>4. ASSUME NEW label, NEW finalizer, SetFinalizer(label, finalizer) PROVE faults' = faults \/ Fail
  BY <1>1, <1>4 DEF SetFinalizer
<1>5. ASSUME ReleaseFinalizer PROVE faults' = faults \/ Fail
  <2> DEFINE first == IF "logs" \in inst.fins THEN "logs" ELSE "status"
             new   == [inst EXCEPT !.fins = @ \ {first}]
             After == IF inst.life = "deleting" THEN Return ELSE inst' = op' /\ Goto("cleanup")
  <2>1. Write(new, After)
    BY <1>5 DEF ReleaseFinalizer
  <2> HIDE DEF new, After
  <2> QED
    BY <1>1, <2>1
<1>6. CASE Reconcile
  <2>1. setup' = setup /\ crashes' = crashes
    BY <1>6
       DEF Reconcile, Fetch, AddStartTime, AddLogsFinalizer, AddStatusFinalizer, handleFinalizersStop,
           collectLogs, removeFinalizer, handleTTL, reconcileDeployment, checkStatus, checkService,
           checkDeadline, delete, writeStatus, instanceSyncStatus, FetchOp, SetStartTime,
           SetLogsFinalizer, SetStatusFinalizer, SetFinalizer, ReportStopped, CollectHeld,
           ReleaseFinalizer, CleanUp, StoreStatus, ReportStatus, elsewhere
  <2>2. CASE AddStartTime \/ AddLogsFinalizer \/ AddStatusFinalizer \/ removeFinalizer \/ writeStatus
    BY <1>1, <1>4, <1>5, <2>1, <2>2
       DEF AddStartTime, AddLogsFinalizer, AddStatusFinalizer, removeFinalizer, writeStatus,
           SetStartTime, SetLogsFinalizer, SetStatusFinalizer, StoreStatus
  <2>3. CASE Fetch \/ handleFinalizersStop \/ collectLogs \/ handleTTL \/ instanceSyncStatus
    BY <2>1, <2>3
       DEF Fetch, FetchOp, handleFinalizersStop, ReportStopped, collectLogs, CollectHeld, handleTTL,
           CleanUp, Delete, instanceSyncStatus, ReportStatus, syncStatus
  <2>4. CASE reconcileDeployment \/ delete
    BY <2>1, <2>4 DEF reconcileDeployment, UpdateOwned, Create, delete, Delete
  <2>5. CASE checkStatus \/ checkService \/ checkDeadline
    <3>1. \/ handlePastActiveDeadline \/ createService
          \/ \E new : WriteStatus(new, "service")
      BY <2>5 DEF checkStatus, checkService, checkDeadline, reconcileBaseService
    <3> QED
      BY <1>2, <1>3, <2>1, <3>1
  <2> QED
    BY <1>6, <2>1, <2>2, <2>3, <2>4, <2>5 DEF Reconcile
<1>7. CASE Restart
  BY <1>7 DEF Restart, Crash
<1>8. CASE UserStops
  BY <1>8 DEF UserStops, UserDeletes, elsewhere
<1>9. CASE DeploymentCounts
  <2>1. PICK status : OwnedReports(status, TRUE)
    BY <1>9 DEF DeploymentCounts
  <2> QED
    BY <2>1 DEF OwnedReports, operator
<1>10. CASE \/ Watch \/ Replay \/ Requeue \/ DeadlinePasses \/ ActivityChanges \/ PodMoves
            \/ DeploymentStartsPod \/ DropOwned \/ ServiceDeleted \/ UNCHANGED kubeVars \/ Expire
  BY <1>10
     DEF Watch, WatchService, WatchDeployment, WatchBaseService, mapPodToRequest, WatchOp,
         WatchOwned, WatchPods, Replay, Resync, Requeue, RequeueAfter, DeadlinePasses,
         ActivityChanges, PodMoves, DeploymentStartsPod, DropOwned, ServiceDeleted, Expire,
         TTLPasses, kubeVars, outside, operator, elsewhere
<1> QED
  BY <1>6, <1>7, <1>8, <1>9, <1>10
     DEF Next, World, DeploymentDeleted, OwnedDeleted, Collected, OwnedCollected, vars

LEMMA NextFollows ==
  ASSUME SharedInv, FollowInv, [Next]_vars
  PROVE  FollowInv'
<1>1. /\ faults \in Nat /\ crashes \in Nat /\ setup' = setup /\ (faults' = faults \/ Fail)
      /\ crashes' = crashes \/ (Restart /\ crashes' = crashes + 1)
  BY Counts DEF FollowInv
<1>2. faults' \in Nat /\ crashes' \in Nat
  BY <1>1 DEF Fail
<1>3. ASSUME Smooth' PROVE Followed'
  <2>1. faults' = 0 /\ crashes' = 0 /\ SyncStatuses
    BY <1>1, <1>3 DEF Smooth, SyncStatuses
  <2>2. Smooth /\ ~Fail /\ ~Restart
    BY <1>1, <2>1 DEF Smooth, Fail, Restart, Crash
  <2>3. Followed
    BY <2>2 DEF FollowInv
  <2>4. CASE Reconcile
    BY <2>1, <2>2, <2>3, <2>4, FetchFollows, GuardFollows, ReportFollows, EndFollows, StoreFollows,
       RuntimeFollows
       DEF Reconcile
  <2> QED
    BY <2>2, <2>3, <2>4, AroundFollows DEF Next
<1> QED
  BY <1>2, <1>3 DEF FollowInv

\* ReportIsCurrent: without failures the control plane knows the stored status
\* whenever the controller has nothing left to do, and has heard of the end of a
\* service before its last finalizer goes.
THEOREM ReportIsCurrentHolds == Spec => []ReportIsCurrent
<1>1. Init => FollowInv
  <2> SUFFICES ASSUME Init PROVE FollowInv
    OBVIOUS
  <2>1. /\ op = NewOp /\ "inst" \notin current /\ pc = "idle" /\ held = {} /\ faults = 0 /\ crashes = 0
    BY DEF Init, KubeInit
  <2>2. NewOp.status.has = {} /\ NewOp.life = "live"
    BY NewOpFacts DEF NewStatus
  <2> QED
    BY <2>1, <2>2, NewOpFacts DEF FollowInv, Followed
<1>2. SharedInv /\ FollowInv /\ [Next]_vars => FollowInv'
  BY NextFollows
<1>3. FollowInv => ReportIsCurrent
  BY DEF FollowInv, Followed, Smooth, ReportIsCurrent, Rested, Settled
<1> QED
  BY <1>1, <1>2, <1>3, SharedInvariance, PTL DEF Spec
=============================================================================
