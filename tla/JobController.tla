---------------------------- MODULE JobController ----------------------------
(***************************************************************************)
(* The controller of Job operations (internal/controller/job): one Job     *)
(* resource, the batch Job it owns, the pods of that batch Job, the        *)
(* informer caches the reconciler reads from, the work queue, and the      *)
(* control plane that statuses are reported to.                            *)
(*                                                                         *)
(* The work queue never runs two reconciliations of one key at a time, so  *)
(* the reconciler is one sequential process; a step is what happens up to  *)
(* and including one call to the API server or to the control plane.       *)
(* Between two steps anything else may happen: the user deletes the        *)
(* resource, the batch Job moves on or is deleted, a cache catches up, the *)
(* operator process restarts.                                              *)
(*                                                                         *)
(* Reads come from the caches and may be arbitrarily old.  Writes go to    *)
(* the API server, which refuses an update whose resource version is not   *)
(* the stored one.  Versions are only ever compared with the stored one,   *)
(* so `current` keeps which copies have it instead of numbers.             *)
(***************************************************************************)
EXTENDS OperationStatus, Pods, FiniteSets

CONSTANTS
  EnableLogsFinalizers,    \* POLYAXON_ENABLE_LOGS_FINALIZERS
  EnableStatusFinalizers,  \* POLYAXON_ENABLE_STATUS_FINALIZERS
  SyncStatuses,            \* statuses are reported to the control plane
  CollectLogs,             \* logs are collected by the control plane
  TTL,                     \* TTLSecondsAfterFinished is set and not reached at once
  ActiveDeadline,          \* ActiveDeadlineSeconds is set
  BackoffLimit,            \* of the batch Job
  Stages,                  \* the pod stages that occur in this instance
  ExternalDeletes,         \* someone else may delete the batch Job
  OrderedWatches,          \* the Job watch is never behind the operation watch
  TimelyOperator,          \* the operator settles within the batch Job's TTL
  MaxFaults,               \* bound: calls that fail or whose answer is lost
  MaxCrashes,              \* bound: restarts of the operator
  MaxRemovals              \* bound: deletions of the batch Job

ASSUME SwitchesAssumption ==
  {EnableLogsFinalizers, EnableStatusFinalizers, SyncStatuses, CollectLogs, TTL,
   ActiveDeadline, ExternalDeletes, OrderedWatches, TimelyOperator} \subseteq BOOLEAN

ASSUME BoundsAssumption ==
  {BackoffLimit, MaxFaults, MaxCrashes, MaxRemovals} \subseteq Nat

AllStages ==
  {"Unscheduled", "NotReady", "Pulling", "BadImage", "Running", "Succeeded", "Failed"}

ASSUME StagesAssumption == Stages \subseteq AllStages

VARIABLES
  op,         \* the Job resource: its life, finalizers and status
  opCache,    \* the reconciler's cached copy of op
  job,        \* the batch Job: does it exist, and its status
  jobCache,
  pods,       \* the stages of the batch Job's pods, in order of creation
  podCache,
  current,    \* the copies that have the stored resource version
  queued,     \* the key is in the work queue
  timer,      \* a RequeueAfter is pending
  expired,    \* the TTL of the finished operation has passed
  pc,         \* the reconciler's next step
  inst,       \* its copy of the Job resource
  found,      \* its copy of the batch Job
  then,       \* what it does after reporting a status
  reported,   \* the condition types the control plane has been told of
  latest,     \* the last of them
  collected,  \* collectLogs has returned without an error
  held,       \* the finalizers the resource has ever had
  faults, crashes, removals

worker  == <<pc, inst, found, then>>
cluster == <<op, job, pods, held>>
caches  == <<opCache, jobCache, podCache>>
plane   == <<reported, latest, collected>>
vars    == <<cluster, caches, current, queued, timer, expired, worker, plane,
             faults, crashes, removals>>

Finalizers == {"logs", "status"}

NoJobStatus == [active |-> FALSE, succeeded |-> FALSE, failed |-> FALSE,
                completed |-> FALSE, last |-> "None", reason |-> ""]

NoJob == [live |-> FALSE, status |-> NoJobStatus]

NewOp == [life |-> "live", fins |-> {}, status |-> NewStatus]

Init ==
  /\ op = NewOp /\ opCache = NewOp
  /\ job = NoJob /\ jobCache = NoJob
  /\ pods = <<>> /\ podCache = <<>>
  /\ current = {"opCache", "jobCache"}
  /\ queued = TRUE /\ timer = FALSE /\ expired = FALSE
  /\ pc = "idle" /\ inst = NewOp /\ found = NoJob /\ then = "done"
  /\ reported = {} /\ latest = "None" /\ collected = FALSE
  /\ held = {}
  /\ faults = 0 /\ crashes = 0 /\ removals = 0

(***************************************************************************)
(* How a reconciliation ends.  An error puts the key back into the queue.  *)
(* The locals are reset so that finished runs are the same state.          *)
(***************************************************************************)
Forget == pc' = "idle" /\ inst' = NewOp /\ found' = NoJob /\ then' = "done"

\* The copies of the resource and of the batch Job.
OpCopies == {"opCache", "inst"}

JobCopies == {"jobCache", "found"}

\* The current copies after a step of the reconciler, which forgets its own at
\* the end.
Keep(copies) == current' = IF pc' = "idle" THEN copies \ {"inst", "found"} ELSE copies

Return == Forget /\ UNCHANGED queued

ReturnError == Forget /\ queued' = TRUE

Goto(label) == pc' = label /\ UNCHANGED <<found, then, queued>>

Fail == faults < MaxFaults /\ faults' = faults + 1

(***************************************************************************)
(* The API server.  An update needs the stored resource version, stores    *)
(* nothing when nothing changes, and removes a resource that is being      *)
(* deleted with its last finalizer.  A delete has no precondition.         *)
(***************************************************************************)
Current == op.life # "gone" /\ "inst" \in current

Put(new) ==
  LET settled == IF new.life = "deleting" /\ new.fins = {}
                 THEN [new EXCEPT !.life = "gone"] ELSE new
  IN  /\ op' = settled
      /\ held' = held \cup new.fins
      /\ UNCHANGED <<job, pods>>

\* The copies that are current after a Put.
Unchanged == IF op' = op THEN current ELSE current \ OpCopies

\* The reconciler writes its copy: accepted, accepted with the answer lost,
\* or refused.
Write(new, After) ==
  \/ Current /\ Put(new) /\ After /\ Keep(Unchanged \cup {"inst"}) /\ UNCHANGED faults
  \/ Current /\ Put(new) /\ ReturnError /\ Keep(Unchanged) /\ Fail
  \/ /\ \/ ~Current /\ UNCHANGED faults
        \/ Fail
     /\ ReturnError /\ Keep(current)
     /\ UNCHANGED cluster

DeleteOp ==
  /\ op.life # "gone"
  /\ Put([op EXCEPT !.life = "deleting"])

(***************************************************************************)
(* Reconcile: read the cached resource and dispatch.                       *)
(***************************************************************************)
\* Bug: an operation deleted before it finished is not reported stopped.
DispatchSilently(instance) ==
  IF instance.life = "deleting" \/ IsDone(instance.status)
  THEN "collect"
  ELSE IF EnableLogsFinalizers /\ "logs" \notin instance.fins
  THEN "addLogs"
  ELSE IF EnableStatusFinalizers /\ "status" \notin instance.fins
  THEN "addStatus"
  ELSE "getJob"

\* Bug: a deleted resource loses its finalizers before its logs are collected.
DispatchUncollected(instance) ==
  IF instance.life = "deleting" THEN "removeFinalizer" ELSE DispatchSilently(instance)

Dispatch(instance) ==
  IF instance.life = "deleting" \/ IsDone(instance.status)
  THEN IF IsDone(instance.status) THEN "collect" ELSE "syncStopped"
  ELSE IF EnableLogsFinalizers /\ "logs" \notin instance.fins
  THEN "addLogs"
  ELSE IF EnableStatusFinalizers /\ "status" \notin instance.fins
  THEN "addStatus"
  ELSE "getJob"

\* Bug: the operation is read from the API server and the batch Job from the cache.
FetchLive ==
  /\ pc = "idle" /\ queued
  /\ queued' = FALSE
  /\ IF op.life = "gone"
     THEN UNCHANGED <<worker, current>>
     ELSE /\ inst' = op
          /\ pc' = IF op.status.start THEN Dispatch(op) ELSE "addStart"
          /\ Keep(current \cup {"inst"})
          /\ UNCHANGED <<found, then>>
  /\ UNCHANGED <<cluster, caches, timer, expired, plane, faults, crashes, removals>>

Fetch ==
  /\ pc = "idle" /\ queued
  /\ queued' = FALSE
  /\ IF opCache.life = "gone"
     THEN UNCHANGED <<worker, current>>
     ELSE /\ inst' = opCache
          /\ pc' = IF opCache.status.start THEN Dispatch(opCache) ELSE "addStart"
          /\ Keep(IF "opCache" \in current THEN current \cup {"inst"} ELSE current)
          /\ UNCHANGED <<found, then>>
  /\ UNCHANGED <<cluster, caches, timer, expired, plane, faults, crashes, removals>>

AddStartTime ==
  /\ pc = "addStart"
  /\ LET new == [inst EXCEPT !.status.start = TRUE]
     IN  Write(new, inst' = op' /\ Goto(Dispatch(new)))
  /\ UNCHANGED <<caches, timer, expired, plane, crashes, removals>>

AddFinalizer(label, finalizer) ==
  /\ pc = label
  /\ LET new == [inst EXCEPT !.fins = @ \cup {finalizer}]
     IN  Write(new, inst' = op' /\ Goto(Dispatch(new)))
  /\ UNCHANGED <<caches, timer, expired, plane, crashes, removals>>

AddLogsFinalizer == AddFinalizer("addLogs", "logs")

AddStatusFinalizer == AddFinalizer("addStatus", "status")

(***************************************************************************)
(* Reports to the control plane.  The reconciler ignores a failed report.  *)
(***************************************************************************)
syncStatus(type) ==
  \/ /\ IF SyncStatuses
        THEN reported' = reported \cup {type} /\ latest' = type
        ELSE UNCHANGED <<reported, latest>>
     /\ UNCHANGED <<collected, faults>>
  \/ /\ SyncStatuses /\ Fail
     /\ UNCHANGED plane

instanceSyncStatus ==
  /\ pc = "sync"
  /\ syncStatus(inst.status.last.type)
  /\ \/ then = "done" /\ Return
     \/ then = "error" /\ ReturnError
     \/ then = "checkStatus" /\ Goto("checkStatus") /\ UNCHANGED inst
  /\ Keep(current)
  /\ UNCHANGED <<cluster, caches, timer, expired, crashes, removals>>

(***************************************************************************)
(* handleFinalizers.  A failed log collection ends it without an error.    *)
(***************************************************************************)
handleFinalizersStop ==
  /\ pc = "syncStopped"
  /\ syncStatus("Stopped")
  /\ Goto("collect") /\ UNCHANGED <<inst, current>>
  /\ UNCHANGED <<cluster, caches, timer, expired, crashes, removals>>

\* What Reconcile does once handleFinalizers has returned nil.
AfterFinalizers ==
  IF inst.life = "deleting" THEN Return ELSE Goto("cleanup") /\ UNCHANGED inst

\* Bug: the logs finalizer goes although the collection failed.
collectLogsOnce ==
  /\ pc = "collect"
  /\ \/ collected' = ("logs" \in inst.fins) /\ UNCHANGED faults
     \/ CollectLogs /\ Fail /\ UNCHANGED collected
  /\ IF inst.fins = {} THEN AfterFinalizers ELSE Goto("removeFinalizer") /\ UNCHANGED inst
  /\ Keep(current)
  /\ UNCHANGED <<cluster, caches, timer, expired, reported, latest, crashes, removals>>

\* Bug: the status finalizer is forgotten.
collectLogsOnly ==
  /\ pc = "collect"
  /\ IF "logs" \in inst.fins
     THEN collected' = TRUE /\ Goto("removeFinalizer") /\ UNCHANGED inst
     ELSE AfterFinalizers /\ UNCHANGED collected
  /\ Keep(current)
  /\ UNCHANGED <<cluster, caches, timer, expired, reported, latest, faults, crashes, removals>>

collectLogs ==
  /\ pc = "collect"
  /\ \/ /\ "logs" \in inst.fins
        /\ collected' = TRUE
        /\ Goto("removeFinalizer") /\ UNCHANGED <<inst, faults>>
     \/ /\ "logs" \in inst.fins /\ CollectLogs
        /\ Fail
        /\ AfterFinalizers /\ UNCHANGED collected
     \/ /\ "logs" \notin inst.fins /\ "status" \in inst.fins
        /\ Goto("removeFinalizer") /\ UNCHANGED <<inst, collected, faults>>
     \/ /\ inst.fins \cap Finalizers = {}
        /\ AfterFinalizers /\ UNCHANGED <<collected, faults>>
  /\ Keep(current)
  /\ UNCHANGED <<cluster, caches, timer, expired, reported, latest, crashes, removals>>

\* One finalizer per reconciliation, logs first.
removeFinalizer ==
  /\ pc = "removeFinalizer"
  /\ LET first == IF "logs" \in inst.fins THEN "logs" ELSE "status"
     IN  Write([inst EXCEPT !.fins = @ \ {first}],
               IF inst.life = "deleting" THEN Return
               ELSE inst' = op' /\ Goto("cleanup"))
  /\ UNCHANGED <<caches, timer, expired, plane, crashes, removals>>

(***************************************************************************)
(* handleTTL: a done operation is deleted at once without a TTL, else when *)
(* the TTL has passed since CompletionTime.  Without a CompletionTime the  *)
(* code dereferences nil; the panic ends the reconciliation as an error.   *)
(***************************************************************************)
handleTTL ==
  /\ pc = "cleanup"
  /\ \/ /\ ~TTL \/ (inst.status.completion /\ expired)
        /\ \/ DeleteOp /\ Return /\ Keep(Unchanged) /\ UNCHANGED faults
           \/ DeleteOp /\ ReturnError /\ Keep(Unchanged) /\ Fail
           \/ /\ \/ op.life = "gone" /\ UNCHANGED faults
                 \/ Fail
              /\ ReturnError /\ Keep(current) /\ UNCHANGED cluster
        /\ UNCHANGED timer
     \/ /\ TTL /\ ~(inst.status.completion /\ expired)
        /\ IF inst.status.completion
           THEN timer' = TRUE /\ Return
           ELSE timer' = timer /\ ReturnError
        /\ Keep(current) /\ UNCHANGED <<cluster, faults>>
  /\ UNCHANGED <<caches, expired, plane, crashes, removals>>

(***************************************************************************)
(* reconcileJob: find, create or update the batch Job.                     *)
(***************************************************************************)
getJob ==
  /\ pc = "getJob"
  /\ \/ /\ jobCache.live
        /\ found' = jobCache /\ pc' = "updateJob"
        /\ Keep(IF "jobCache" \in current THEN current \cup {"found"} ELSE current)
        /\ UNCHANGED <<inst, then>>
     \/ /\ ~jobCache.live /\ ShouldMarkJobAsDeleted(inst.status)
        /\ inst' = [inst EXCEPT !.status = MarkJobAsDeleted(@)]
        /\ pc' = "write" /\ then' = "done"
        /\ UNCHANGED <<found, current>>
     \/ /\ ~jobCache.live /\ ~ShouldMarkJobAsDeleted(inst.status)
        /\ pc' = "createJob"
        /\ UNCHANGED <<inst, found, then, current>>
  /\ UNCHANGED <<cluster, caches, queued, timer, expired, plane,
                 faults, crashes, removals>>

StoreJob == job' = [live |-> TRUE, status |-> NoJobStatus]

\* The error of a failed Create is logged as a warning before it is returned.
CreateFailed ==
  LET new == LogWarning(inst.status, "OperatorCreateJob")
  IN  IF IsUpdated(inst.status, "Warning", "OperatorCreateJob")
      THEN /\ inst' = [inst EXCEPT !.status = new]
           /\ pc' = "write" /\ then' = "error"
           /\ UNCHANGED <<found, queued>>
      ELSE ReturnError

createJob ==
  /\ pc = "createJob"
  /\ \/ /\ ~job.live
        /\ StoreJob
        /\ inst' = [inst EXCEPT !.status = LogStarting(@)]
        /\ Goto("writeStarting") /\ Keep(current \ JobCopies) /\ UNCHANGED faults
     \/ ~job.live /\ StoreJob /\ Fail /\ CreateFailed /\ Keep(current \ JobCopies)
     \/ /\ \/ job.live /\ UNCHANGED faults
           \/ Fail
        /\ CreateFailed /\ Keep(current) /\ UNCHANGED job
  /\ UNCHANGED <<op, pods, held, caches, timer, expired, plane, crashes, removals>>

\* LogStarting's write.  Its error is returned only after the report.
writeStarting ==
  /\ pc = "writeStarting"
  /\ pc' = "sync"
  /\ \/ /\ Current /\ Put(inst) /\ Keep(Unchanged \cup {"inst"})
        /\ inst' = op' /\ then' = "checkStatus" /\ UNCHANGED faults
     \/ /\ Current /\ Put(inst) /\ Keep(Unchanged)
        /\ then' = "error" /\ Fail /\ UNCHANGED inst
     \/ /\ \/ ~Current /\ UNCHANGED faults
           \/ Fail
        /\ then' = "error" /\ UNCHANGED <<inst, cluster, current>>
  /\ UNCHANGED <<caches, queued, found, timer, expired, plane, crashes, removals>>

\* CopyJobFields compares pointers, so a batch Job that exists is always
\* written back, with the fields it has: the API server stores nothing new,
\* and refuses when the copy is stale.
updateJob ==
  /\ pc = "updateJob"
  /\ \/ /\ "found" \in current
        /\ Goto("checkStatus") /\ UNCHANGED <<inst, faults>>
     \/ /\ \/ "found" \notin current /\ UNCHANGED faults
           \/ Fail
        /\ ReturnError
  /\ Keep(current)
  /\ UNCHANGED <<cluster, caches, timer, expired, plane, crashes, removals>>

(***************************************************************************)
(* reconcileJobStatus: the status that follows from the batch Job and the  *)
(* pods.  The result is the given status when the code returns false.      *)
(***************************************************************************)
\* Bug: the condition is compared with the operation's own type.
IsJobSucceededMisnamed(st) == st.last = "Succeeded"

IsJobSucceeded(st) == st.last = "Complete"

IsJobFailed(st) == st.last = "Failed"

\* Which reason the container gave is left out: it is one "ContainerFailure".
jobFailureReason(reason, exit) ==
  IF reason = "BackoffLimitExceeded" /\ exit.code # 0 THEN "ContainerFailure" ELSE reason

reconcileJobStatus(status, st, podList) ==
  LET verdict == HasUnschedulablePods(podList)
      exit    == GetMainContainerExitStatus(podList)
  IN  IF GetInvalidImageName(podList)
      THEN LogFailed(status, "InvalidImageName")
      ELSE IF IsJobSucceeded(st) /\ st.succeeded /\ (~st.active \/ st.completed)
      THEN LogSucceeded(status)
      ELSE IF IsJobFailed(st) /\ st.failed
      THEN LogFailed(status, jobFailureReason(st.reason, exit))
      ELSE IF verdict.type = "Warning"
      THEN LogWarning(status, verdict.why)
      ELSE IF st.last # "None" \/ (verdict.type = "Starting" /\ ~st.completed)
      THEN status
      ELSE IF st.failed /\ ~st.active
      THEN LogWarning(status, "OperatorController")
      ELSE IF st.active /\ IsMainContainerRunning(podList)
      THEN LogRunning(status)
      ELSE status

(***************************************************************************)
(* The pods as the reconciler lists them: a cache lists in any order.      *)
(***************************************************************************)
container(state, reason, code) ==
  <<[name |-> "main", state |-> state, reason |-> reason, code |-> code,
     lastCode |-> NoCode, lastReason |-> "", restarts |-> 0,
     ready |-> state = "running"]>>

podStatus(phase, conds, containers) ==
  [phase |-> phase, conds |-> conds, main |-> "main", inits |-> <<>>,
   containers |-> containers]

PodAt ==
  [Unscheduled |-> podStatus("Pending", "nil", <<>>),
   NotReady    |-> podStatus("Pending", "notReady", container("waiting", "ContainerCreating", 0)),
   Pulling     |-> podStatus("Pending", "notReady", container("waiting", "ErrImagePull", 0)),
   BadImage    |-> podStatus("Pending", "notReady", container("waiting", "InvalidImageName", 0)),
   Running     |-> podStatus("Running", "ready", container("running", "", 0)),
   Succeeded   |-> podStatus("Succeeded", "ready", container("terminated", "Completed", 0)),
   Failed      |-> podStatus("Failed", "ready", container("terminated", "Error", 1))]

Orders(stages) ==
  LET perms == {p \in [DOMAIN stages -> DOMAIN stages] :
                  \A i, j \in DOMAIN stages : p[i] = p[j] => i = j}
  IN  {[i \in DOMAIN stages |-> PodAt[stages[p[i]]]] : p \in perms}

checkStatus ==
  /\ pc = "checkStatus"
  /\ \E podList \in Orders(podCache) :
       LET new == reconcileJobStatus(inst.status, found.status, podList)
       IN  IF new = inst.status
           THEN Return
           ELSE /\ inst' = [inst EXCEPT !.status = new]
                /\ pc' = "write" /\ then' = "done"
                /\ UNCHANGED <<found, queued>>
  /\ Keep(current)
  /\ UNCHANGED <<cluster, caches, timer, expired, plane, faults, crashes, removals>>

\* Bug: the status is reported although the write was refused.
writeStatusUnchecked ==
  /\ pc = "write"
  /\ IF Current THEN Put(inst) /\ inst' = op' ELSE UNCHANGED <<cluster, inst>>
  /\ Goto("sync") /\ Keep(Unchanged)
  /\ UNCHANGED <<caches, timer, expired, plane, faults, crashes, removals>>

\* Bug: a status that was written is not reported.
writeStatusQuietly ==
  /\ pc = "write"
  /\ Write(inst, Return)
  /\ UNCHANGED <<caches, timer, expired, plane, crashes, removals>>

\* Bug: the error of a failed write is dropped.
writeStatusOnce ==
  /\ pc = "write"
  /\ \/ /\ Current /\ Put(inst) /\ inst' = op'
        /\ Goto("sync") /\ Keep(Unchanged \cup {"inst"}) /\ UNCHANGED faults
     \/ /\ Fail \/ (~Current /\ UNCHANGED faults)
        /\ Return /\ Keep(current) /\ UNCHANGED cluster
  /\ UNCHANGED <<caches, timer, expired, plane, crashes, removals>>

writeStatus ==
  /\ pc = "write"
  /\ Write(inst, inst' = op' /\ Goto("sync"))
  /\ UNCHANGED <<caches, timer, expired, plane, crashes, removals>>

Reconcile ==
  \/ Fetch \/ AddStartTime \/ AddLogsFinalizer \/ AddStatusFinalizer
  \/ handleFinalizersStop \/ collectLogs \/ removeFinalizer \/ handleTTL
  \/ getJob \/ createJob \/ writeStarting \/ updateJob \/ checkStatus
  \/ writeStatus \/ instanceSyncStatus

(***************************************************************************)
(* The caches and the work queue.  An event of the operation, of its batch *)
(* Job or of a pod of that batch Job updates a cache and queues the key.   *)
(***************************************************************************)
local == <<timer, expired, worker, plane, faults, crashes, removals>>

WatchOp ==
  /\ "opCache" \notin current
  /\ OrderedWatches => "jobCache" \in current
  /\ opCache' = op /\ current' = current \cup {"opCache"} /\ queued' = TRUE
  /\ UNCHANGED <<cluster, jobCache, podCache, local>>

WatchJob ==
  /\ "jobCache" \notin current
  /\ jobCache' = job /\ current' = current \cup {"jobCache"} /\ queued' = TRUE
  /\ UNCHANGED <<cluster, opCache, podCache, local>>

\* Every pod here is one of the operation, so it carries the run label that the
\* predicate of the watch asks for, and is controlled by the batch Job.
mapPodToRequest ==
  /\ podCache # pods
  /\ podCache' = pods /\ queued' = TRUE
  /\ UNCHANGED <<cluster, opCache, jobCache, current, local>>

\* The informers replay what they hold every SyncPeriod (10 hours).
Resync ==
  /\ opCache.life # "gone" /\ ~queued
  /\ queued' = TRUE
  /\ UNCHANGED <<cluster, caches, current, local>>

RequeueAfter ==
  /\ timer /\ expired
  /\ timer' = FALSE /\ queued' = TRUE
  /\ UNCHANGED <<cluster, caches, current, expired, worker, plane, faults, crashes, removals>>

TTLPasses ==
  /\ TTL /\ op.status.completion /\ ~expired
  /\ expired' = TRUE
  /\ UNCHANGED <<cluster, caches, current, queued, timer, worker, plane, faults, crashes, removals>>

\* The operator restarts: memory is lost, the caches are listed afresh.
Crash ==
  /\ crashes < MaxCrashes
  /\ crashes' = crashes + 1
  /\ Forget
  /\ opCache' = op /\ jobCache' = job /\ podCache' = pods
  /\ current' = {"opCache", "jobCache"}
  /\ queued' = TRUE /\ timer' = FALSE
  /\ UNCHANGED <<cluster, expired, plane, faults, removals>>

(***************************************************************************)
(* The user, and the controllers and kubelets of the cluster.              *)
(***************************************************************************)
Settled ==
  /\ pc = "idle" /\ ~queued
  /\ {"opCache", "jobCache"} \subseteq current /\ podCache = pods

UserDeletes ==
  /\ op.life = "live"
  /\ DeleteOp
  /\ current' = current \ OpCopies
  /\ UNCHANGED <<caches, queued, local>>

kubelet == <<op, held, caches, queued, timer, expired, worker, plane, faults, crashes>>

JobFinished == job.status.last # "None"

KubeletNext ==
  [Unscheduled |-> {"NotReady", "Running"}, NotReady |-> {"Pulling", "BadImage", "Running"},
   Pulling |-> {"Running"}, BadImage |-> {}, Running |-> {"Succeeded", "Failed"},
   Succeeded |-> {}, Failed |-> {}]

PodMoves ==
  /\ \E i \in DOMAIN pods : \E stage \in KubeletNext[pods[i]] \cap Stages :
        pods' = [pods EXCEPT ![i] = stage]
  /\ UNCHANGED <<job, current, kubelet, removals>>

JobStartsPod ==
  /\ job.live /\ ~JobFinished
  /\ Len(pods) <= BackoffLimit
  /\ \A i \in DOMAIN pods : pods[i] = "Failed"
  /\ pods' = Append(pods, "Unscheduled")
  /\ UNCHANGED <<job, current, kubelet, removals>>

SetJobStatus(st) ==
  /\ job' = [job EXCEPT !.status = st]
  /\ current' = current \ JobCopies

\* The batch Job's status catches up with its pods.
JobCounts ==
  LET some(stages) == \E i \in DOMAIN pods : pods[i] \in stages
      spent == Len(pods) > BackoffLimit /\ \A i \in DOMAIN pods : pods[i] = "Failed"
      st    == [active    |-> some(AllStages \ {"Succeeded", "Failed"}),
                succeeded |-> some({"Succeeded"}),
                failed    |-> some({"Failed"}),
                completed |-> some({"Succeeded"}),
                last      |-> IF some({"Succeeded"}) THEN "Complete"
                              ELSE IF spent THEN "Failed" ELSE "None",
                reason    |-> IF spent THEN "BackoffLimitExceeded" ELSE ""]
  IN      /\ job.live /\ ~JobFinished
      /\ st # job.status
      /\ SetJobStatus(st)
      /\ UNCHANGED <<pods, kubelet, removals>>

\* The active pod, the last one, is deleted and counts as failed; a Job that
\* has no pod yet fails with none.
JobDeadline ==
  /\ ActiveDeadline
  /\ job.live /\ ~JobFinished
  /\ \A i \in DOMAIN pods : pods[i] # "Succeeded"
  /\ SetJobStatus([NoJobStatus EXCEPT !.failed = pods # <<>>, !.last = "Failed",
                                      !.reason = "DeadlineExceeded"])
  /\ pods' = IF pods # <<>> /\ pods[Len(pods)] # "Failed"
             THEN SubSeq(pods, 1, Len(pods) - 1) ELSE pods
  /\ UNCHANGED <<kubelet, removals>>

DropJob ==
  /\ job' = NoJob
  /\ current' = current \ JobCopies
  /\ pods' = <<>>
  /\ UNCHANGED kubelet

\* The TTL controller: GetTTL leaves the operator at least MinTTLValue seconds.
JobTTL ==
  /\ job.live /\ JobFinished
  /\ TimelyOperator => Settled
  /\ removals < MaxRemovals /\ removals' = removals + 1
  /\ DropJob

JobDeleted ==
  /\ job.live /\ ExternalDeletes
  /\ removals < MaxRemovals /\ removals' = removals + 1
  /\ DropJob

\* The garbage collector: the operation owns the batch Job.
JobCollected ==
  /\ job.live /\ op.life = "gone"
  /\ DropJob /\ UNCHANGED removals

Watch == WatchOp \/ WatchJob \/ mapPodToRequest

World ==
  \/ UserDeletes \/ PodMoves \/ JobStartsPod \/ JobCounts \/ JobDeadline
  \/ JobTTL \/ JobDeleted \/ JobCollected \/ TTLPasses

Next == Reconcile \/ Watch \/ Resync \/ RequeueAfter \/ Crash \/ World

Spec == Init /\ [][Next]_vars

\* The queue is served, the watches deliver, timers fire and resyncs come;
\* nothing is assumed of the user, the cluster or the failures.
Fairness ==
  /\ WF_vars(Reconcile) /\ WF_vars(RequeueAfter) /\ WF_vars(Resync) /\ WF_vars(TTLPasses)
  /\ WF_vars(WatchOp) /\ WF_vars(WatchJob) /\ WF_vars(mapPodToRequest)

FairSpec == Spec /\ Fairness

(***************************************************************************)
(* Properties.                                                             *)
(***************************************************************************)
Op == [life : {"live", "deleting", "gone"}, fins : SUBSET Finalizers,
       status : OperationStatusType]

JobStatus == [active : BOOLEAN, succeeded : BOOLEAN, failed : BOOLEAN,
              completed : BOOLEAN, last : {"None", "Complete", "Failed"},
              reason : {"", "BackoffLimitExceeded", "DeadlineExceeded"}]

BatchJob == [live : BOOLEAN, status : JobStatus]

Labels ==
  {"idle", "addStart", "addLogs", "addStatus", "syncStopped", "collect",
   "removeFinalizer", "cleanup", "getJob", "createJob", "writeStarting",
   "updateJob", "checkStatus", "write", "sync"}

ClusterOK ==
  /\ op \in Op /\ job \in BatchJob
  /\ pods \in Seq(AllStages) /\ held \subseteq Finalizers

CachesOK ==
  /\ opCache \in Op /\ jobCache \in BatchJob /\ podCache \in Seq(AllStages)
  /\ current \subseteq OpCopies \cup JobCopies

WorkerOK ==
  /\ pc \in Labels /\ inst \in Op /\ found \in BatchJob
  /\ then \in {"done", "error", "checkStatus"}
  /\ queued \in BOOLEAN /\ timer \in BOOLEAN /\ expired \in BOOLEAN

PlaneOK ==
  /\ reported \subseteq ConditionTypes /\ latest \in ConditionTypes \cup {"None"}
  /\ collected \in BOOLEAN

CountsOK == faults \in Nat /\ crashes \in Nat /\ removals \in Nat

\* Every variable has the shape the code gives it; in particular the control
\* plane is only told conditions that exist, so instanceSyncStatus never takes
\* the last condition of an empty list.
TypeOK == ClusterOK /\ CachesOK /\ WorkerOK /\ PlaneOK /\ CountsOK

Outcomes(status) == status.has \cap FinalTypes

\* The operation as OperationLifecycle sees it.
Outcome == IF IsDone(op.status) THEN CHOOSE t \in FinalTypes : t \in op.status.has ELSE "none"

Abstract == INSTANCE OperationLifecycle
              WITH outcome <- Outcome, life <- op.life, holding <- "logs" \in op.fins,
                   collected <- collected

\* The reconciler, on stale caches and through retries and restarts, keeps
\* what OperationLifecycle promises: one outcome, no outcome after a deletion
\* request, no release of held logs before their collection.
Lifecycle == Abstract!LifecycleSpec

\* An operation records one final condition, as the last of its list and with
\* a CompletionTime, so handleTTL never dereferences a nil CompletionTime.
OneOutcome ==
  /\ \A s, t \in Outcomes(op.status) : s = t
  /\ IsDone(op.status) => op.status.last.type \in FinalTypes /\ op.status.completion
  /\ pc = "cleanup" => inst.status.completion

\* The control plane never hears of a final status that is not the one
\* recorded; an operation deleted before it finished is reported Stopped.
ReportedOutcome ==
  \A t \in reported \cap FinalTypes :
     IF IsDone(op.status) THEN t \in op.status.has
     ELSE op.life # "live" /\ t = "Stopped"

\* What an operation ends as is what its batch Job or its pods did, as long as no
\* batch Job was removed.  Stopped, which getJob records for a batch Job that the
\* cache does not have, is never the end of one that was seen running, however old
\* the caches are; and when the cache of the batch Jobs is not behind that of the
\* operations, it is only the end of an operation that never started, after a call
\* that failed.
OutcomeMatchesJob ==
  removals = 0 /\ op.life # "gone" =>
    /\ "Succeeded" \in op.status.has => job.status.last = "Complete"
    /\ "Failed" \in op.status.has =>
          \/ job.status.last = "Failed"
          \/ \E i \in DOMAIN pods : pods[i] = "BadImage"
    /\ "Stopped" \in op.status.has =>
          /\ "Running" \notin op.status.has
          /\ OrderedWatches => "Starting" \notin op.status.has /\ faults > 0

\* No event is lost: when the queue is empty and the caches are current, an
\* unfinished operation has its finalizers and its batch Job, and its status
\* is one the reconciler would leave as it is; a finished one waits for its
\* TTL; and none is stuck in deletion unless a call failed.
NoLostWakeup ==
  Settled =>
    /\ op.life = "live" /\ ~IsDone(op.status) =>
         /\ EnableLogsFinalizers => "logs" \in op.fins
         /\ EnableStatusFinalizers => "status" \in op.fins
         /\ job.live
         /\ \E podList \in Orders(pods) :
              reconcileJobStatus(op.status, job.status, podList) = op.status
    /\ op.life = "live" /\ IsDone(op.status) => timer
    /\ op.life = "deleting" => faults > 0

\* Without failures and removals the control plane knows the operation's current
\* status whenever the reconciler has nothing left to do.
ReportIsCurrent ==
  /\ Settled /\ op.life = "live" /\ op.status.has # {}
  /\ removals = 0 /\ faults = 0 /\ crashes = 0 /\ SyncStatuses
  => latest = op.status.last.type

\* Without failures an operation that had a finalizer is gone only after the
\* control plane has heard a final status.
FinalReportBeforeGone ==
  /\ op.life = "gone" /\ held # {}
  /\ faults = 0 /\ crashes = 0 /\ SyncStatuses
  => reported \cap FinalTypes # {}

\* A finished or deleted operation does not stay: the TTL, the finalizers and
\* the swallowed errors of log collection only delay its removal.
EventuallyGone ==
  (IsDone(op.status) \/ op.life = "deleting") ~> (op.life = "gone")

\* A batch Job that ran to completion is reported as succeeded, unless the
\* operation is deleted, a call fails, the operator restarts or the batch Job is
\* deleted by somebody else.  That its TTL removes it does not come in the way of
\* an operator that settles within it, which is what GetTTL's minimum is for.
SuccessIsReported ==
  (job.status.last = "Complete") ~>
    \/ "Succeeded" \in reported \/ op.life # "live" \/ faults + crashes > 0
    \/ removals > 0 /\ (ExternalDeletes \/ ~TimelyOperator)

(***************************************************************************)
(* The inductive invariant behind OneOutcome and Lifecycle: what a copy    *)
(* with the stored resource version says about the stored resource, and    *)
(* what the reconciler has established about its copy at each label.       *)
(***************************************************************************)
Runtime == {"addLogs", "addStatus", "getJob", "createJob", "updateJob", "checkStatus"}

Ending == {"syncStopped", "collect", "removeFinalizer", "cleanup"}

Writing == {"write", "writeStarting"}

\* The reconciler goes on with the operation after this report.
Continues == pc = "sync" /\ then = "checkStatus"

WellFormed(status) ==
  /\ \A s, t \in Outcomes(status) : s = t
  /\ IsDone(status) => status.last.type \in FinalTypes /\ status.completion

LastKnown == pc \in Writing \cup {"sync"} => inst.status.last \in Condition

CopiesCurrent ==
  /\ "opCache" \in current => opCache = op
  /\ "inst" \in current =>
       /\ pc # "idle"
       /\ inst.life = op.life /\ inst.fins = op.fins
       /\ pc \notin Writing /\ ~(pc = "sync" /\ then = "error") => inst.status = op.status

RuntimePhase ==
  /\ pc \in Runtime \cup Writing \/ Continues => inst.life = "live"
  /\ pc \in Runtime \cup {"writeStarting"} \/ Continues => ~IsDone(inst.status)
  /\ pc \in Writing /\ "inst" \in current => ~IsDone(op.status)
  /\ pc = "write" => then # "checkStatus"

EndingPhase ==
  /\ pc \in Ending => inst.life = "deleting" \/ IsDone(inst.status)
  /\ pc = "cleanup" => inst.life = "live"
  /\ pc = "removeFinalizer" /\ "logs" \in inst.fins => collected

Lives ==
  /\ inst.life # "gone"
  /\ op.life = "deleting" => op.fins # {}

StatusesWellFormed ==
  WellFormed(op.status) /\ WellFormed(opCache.status) /\ WellFormed(inst.status)

\* Every write is made from a copy that says of the stored resource what the
\* reconciler believes of it, or is refused.
InductiveInv ==
  /\ TypeOK /\ LastKnown /\ CopiesCurrent /\ RuntimePhase /\ EndingPhase
  /\ Lives /\ StatusesWellFormed

(***************************************************************************)
(* What ReportedOutcome, FinalReportBeforeGone and OutcomeMatchesJob need  *)
(* on top: a copy, however old, never says more about the end of the       *)
(* operation than the stored resource does.                                *)
(***************************************************************************)
\* The stored resource has at least got as far as this copy, and a copy that was
\* deleted unfinished tells of an operation that stays so.
Older(copy) ==
  /\ copy.life # "live" => op.life # "live"
  /\ copy.life # "live" /\ ~IsDone(copy.status) => ~IsDone(op.status)

\* The outcome this status has is the recorded one.
Agrees(status) == IsDone(status) => Outcomes(status) = Outcomes(op.status)

\* Only a decision that is still to be written is ahead of the stored status.
CopiesOlder ==
  /\ Older(opCache) /\ Agrees(opCache.status)
  /\ Older(inst) /\ (pc # "write" => Agrees(inst.status))

\* A final condition that is the last of its list is on the list.
LastListed ==
  \A status \in {op.status, opCache.status, inst.status} :
     status.last.type \in FinalTypes => status.last.type \in status.has

\* Stopped is reported for an operation that was deleted unfinished.
StoppedPhase == pc = "syncStopped" => inst.life = "deleting" /\ ~IsDone(inst.status)

\* The control plane has heard a final status.
Heard == reported \cap FinalTypes # {}

\* Without a failure the report of an outcome comes before anything that leads
\* to the removal of the operation.
HeardInTime ==
  /\ op.life = "gone" => op.fins = {}
  /\ faults = 0 /\ crashes = 0 /\ SyncStatuses =>
       /\ IsDone(op.status) => Heard \/ (pc = "sync" /\ IsDone(inst.status))
       /\ pc \in {"collect", "removeFinalizer", "cleanup"} => Heard
       /\ held \ op.fins # {} => Heard

\* The batch Job failed, or has a pod whose image name is invalid.
JobSpoilt ==
  \/ job.status.last = "Failed"
  \/ \E i \in DOMAIN pods : pods[i] = "BadImage"

Justified(status) ==
  /\ "Succeeded" \in status.has => job.status.last = "Complete"
  /\ "Failed" \in status.has => JobSpoilt

\* The end of a batch Job that was not removed stands, so whatever copy shows it
\* is right, and so is what the reconciler decides from it.
DecisionsJustified ==
  /\ ~job.live => job = NoJob
  /\ removals = 0 /\ op.life # "gone" =>
       /\ \A copy \in {jobCache, found} :
             copy.status.last # "None" => job.status.last = copy.status.last
       /\ (\E i \in DOMAIN podCache : podCache[i] = "BadImage") => JobSpoilt
       /\ Justified(op.status) /\ Justified(inst.status)

\* The labels after getJob.
Found == {"updateJob", "checkStatus", "write", "sync"}

\* A copy of the batch Job that has its version is the batch Job.
JobCopiesCurrent ==
  /\ "jobCache" \in current => jobCache = job
  /\ "found" \in current => found = job /\ pc \in Found

\* This status tells of a batch Job that was created: a Warning does as well, unless
\* it may be that of a failed call.
Begun(status) ==
  \/ status.has \cap {"Starting", "Running"} # {}
  \/ faults = 0 /\ status.last.type # "None"

StopJustified(status) ==
  "Stopped" \in status.has =>
    "Running" \notin status.has /\ (OrderedWatches => ~Begun(status))

\* Up to here the pass has not asked for the batch Job.
Undecided == {"addStart", "addLogs", "addStatus", "getJob"}

\* At these labels the batch Job was found or created.
Established == {"writeStarting", "updateJob", "checkStatus"}

CopiesKnown ==
  /\ \A copy \in {jobCache, found} : copy.live \/ copy = NoJob
  /\ found.live => jobCache.live
  /\ jobCache.live => job.live

\* A batch Job that the operation tells of exists.  It is in the cache when it was
\* seen running, and with ordered watches whenever the cached operation tells of it,
\* so only one that was never created is taken for a deleted one.
StopsJustified ==
  removals = 0 /\ op.life # "gone" =>
    /\ CopiesKnown
    /\ pc \in Established \/ Continues => job.live
    /\ \A status \in {op.status, opCache.status, inst.status} :
          /\ "Running" \in status.has => jobCache.live
          /\ StopJustified(status)
    /\ OrderedWatches =>
         /\ Begun(op.status) \/ Begun(inst.status) => job.live
         /\ Begun(opCache.status) => jobCache.live
         /\ pc \in Undecided /\ Begun(inst.status) => jobCache.live

\* The whole inductive invariant.
ReportInv ==
  /\ InductiveInv /\ CopiesOlder /\ LastListed /\ StoppedPhase /\ HeardInTime
  /\ ReportedOutcome /\ DecisionsJustified /\ JobCopiesCurrent /\ StopsJustified
=============================================================================
