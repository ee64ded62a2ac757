------------------------- MODULE JobControllerProofs -------------------------
(***************************************************************************)
(* Theorems about JobController, for every value of its constants: the     *)
(* inductive invariant, type correctness, OneOutcome, that the controller  *)
(* implements OperationLifecycle, and what it reports, decides and waits   *)
(* for: ReportedOutcome, FinalReportBeforeGone, OutcomeMatchesJob,         *)
(* NoLostWakeup and ReportIsCurrent.                                       *)
(***************************************************************************)
EXTENDS JobController, SequenceTheorems, TLAPS

(***************************************************************************)
(* Statuses.                                                               *)
(***************************************************************************)
\* Logging a condition keeps the type of a status.
LEMMA LogConditionType ==
  ASSUME NEW status \in OperationStatusType, NEW type \in ConditionTypes,
         NEW why \in Reasons
  PROVE  logCondition(status, type, why) \in OperationStatusType
BY DEF logCondition, OperationStatusType, Condition, NewOperationCondition

\* So does each of the ways the controller logs one.
LEMMA LogTypes ==
  ASSUME NEW status \in OperationStatusType, NEW why \in Reasons
  PROVE  /\ LogStarting(status) \in OperationStatusType
         /\ LogRunning(status) \in OperationStatusType
         /\ LogWarning(status, why) \in OperationStatusType
         /\ LogSucceeded(status) \in OperationStatusType
         /\ LogFailed(status, why) \in OperationStatusType
         /\ MarkJobAsDeleted(status) \in OperationStatusType
<1>1. \A type \in ConditionTypes, w \in Reasons :
        logCondition(status, type, w) \in OperationStatusType
  BY LogConditionType
<1>2. {"Starting", "Running", "Warning", "Succeeded", "Failed", "Stopped"} \subseteq ConditionTypes
  BY DEF ConditionTypes
<1>0. {"OperatorController", "JobDeleted"} \subseteq Reasons
  BY DEF Reasons
<1>3. \A s \in OperationStatusType : [s EXCEPT !.completion = TRUE] \in OperationStatusType
  BY DEF OperationStatusType
<1>4. LogStarting(status) \in OperationStatusType
  BY <1>0, <1>1, <1>2 DEF LogStarting
<1>5. LogRunning(status) \in OperationStatusType
  BY <1>0, <1>1, <1>2 DEF LogRunning
<1>6. LogWarning(status, why) \in OperationStatusType
  BY <1>0, <1>1, <1>2 DEF LogWarning
<1>7. LogSucceeded(status) \in OperationStatusType
  BY <1>0, <1>1, <1>2, <1>3 DEF LogSucceeded
<1>8. LogFailed(status, why) \in OperationStatusType
  BY <1>0, <1>1, <1>2, <1>3 DEF LogFailed
<1>9. MarkJobAsDeleted(status) \in OperationStatusType
  BY <1>0, <1>1, <1>2, <1>3 DEF LogStopped, MarkJobAsDeleted
<1> QED
  BY <1>4, <1>5, <1>6, <1>7, <1>8, <1>9

\* A pod's verdict has a reason whatever the pod looks like.
LEMMA VerdictWhy ==
  ASSUME NEW podList
  PROVE  HasUnschedulablePods(podList).why \in Reasons
<1>1. \A pod : PodVerdict(pod).why \in Reasons
  BY DEF PodVerdict, Verdict, NoVerdict, Reasons
<1> QED
  BY <1>1 DEF HasUnschedulablePods, Verdict, NoVerdict, Reasons

\* The status decided from the batch Job and the pods is a status.
LEMMA DecidedType ==
  ASSUME NEW status \in OperationStatusType, NEW st \in JobStatus, NEW podList
  PROVE  reconcileJobStatus(status, st, podList) \in OperationStatusType
<1>1. HasUnschedulablePods(podList).why \in Reasons
  BY VerdictWhy
<1>2. jobFailureReason(st.reason, GetMainContainerExitStatus(podList)) \in Reasons
  BY DEF jobFailureReason, JobStatus, Reasons
<1>3. {"InvalidImageName", "OperatorController"} \subseteq Reasons
  BY DEF Reasons
<1>4. \A why \in Reasons :
        /\ LogWarning(status, why) \in OperationStatusType
        /\ LogFailed(status, why) \in OperationStatusType
  BY LogTypes
<1>5. LogSucceeded(status) \in OperationStatusType /\ LogRunning(status) \in OperationStatusType
  BY <1>3, LogTypes
<1> QED
  BY <1>1, <1>2, <1>3, <1>4, <1>5 DEF reconcileJobStatus

(***************************************************************************)
(* Type correctness.                                                       *)
(***************************************************************************)
\* What every step that ends a reconciliation leaves behind is well typed.
LEMMA Locals == NewOp \in Op /\ NoJob \in BatchJob /\ NoJobStatus \in JobStatus
BY DEF NewOp, NoJob, NoJobStatus, NewStatus, NoCondition, Op, BatchJob, JobStatus,
       OperationStatusType, Finalizers

\* Initially every variable has its type.
LEMMA InitType == Init => TypeOK
<1> SUFFICES ASSUME Init PROVE TypeOK
  OBVIOUS
<1>1. ClusterOK
  BY Locals DEF Init, ClusterOK
<1>2. CachesOK
  BY Locals DEF Init, CachesOK, OpCopies, JobCopies
<1>3. WorkerOK
  BY Locals DEF Init, WorkerOK, Labels
<1>4. PlaneOK /\ CountsOK
  BY DEF Init, PlaneOK, CountsOK
<1> QED
  BY <1>1, <1>2, <1>3, <1>4 DEF TypeOK

\* Fetch keeps the type of every variable.
LEMMA FetchType == TypeOK /\ Fetch => TypeOK'
<1> SUFFICES ASSUME TypeOK, Fetch PROVE TypeOK'
  OBVIOUS
<1>1. UNCHANGED <<cluster, caches, timer, expired, plane, faults, crashes, removals>>
  BY DEF Fetch
<1>2. CachesOK'
  BY <1>1 DEF TypeOK, CachesOK, Fetch, Keep, caches, OpCopies, JobCopies
<1>3. WorkerOK'
  BY <1>1 DEF TypeOK, WorkerOK, CachesOK, Fetch, Dispatch, worker, Labels
<1> QED
  BY <1>1, <1>2, <1>3 DEF TypeOK, ClusterOK, PlaneOK, CountsOK, cluster, plane

\* Storing a well-typed resource keeps the cluster well typed.
LEMMA PutType ==
  ASSUME ClusterOK, NEW new \in Op, Put(new)
  PROVE  ClusterOK' /\ op' \in Op
BY DEF ClusterOK, Put, Op

\* AddStartTime keeps the type of every variable.
LEMMA AddStartTimeType == TypeOK /\ AddStartTime => TypeOK'
<1> SUFFICES ASSUME TypeOK, AddStartTime PROVE TypeOK'
  OBVIOUS
<1> DEFINE new == [inst EXCEPT !.status.start = TRUE]
<1>1. new \in Op
  BY DEF TypeOK, WorkerOK, Op, OperationStatusType
<1> HIDE DEF new
<1>2. Write(new, inst' = op' /\ Goto(Dispatch(new)))
  BY DEF AddStartTime, new
<1>3. UNCHANGED <<caches, timer, expired, plane, crashes, removals>>
  BY DEF AddStartTime
<1>4. ClusterOK'
  BY <1>1, <1>2, PutType DEF TypeOK, ClusterOK, Write, cluster
<1>5. CachesOK'
  BY <1>2, <1>3 DEF TypeOK, CachesOK, Write, Unchanged, Keep, caches, OpCopies
<1>6. WorkerOK'
  BY <1>2, <1>3, <1>4, Locals
     DEF TypeOK, WorkerOK, ClusterOK, Write, Dispatch, Forget, ReturnError, Goto, Labels
<1>7. CountsOK'
  BY <1>2, <1>3 DEF TypeOK, CountsOK, Write, Fail
<1> QED
  BY <1>3, <1>4, <1>5, <1>6, <1>7 DEF TypeOK, PlaneOK, plane

\* AddLogsFinalizer keeps the type of every variable.
LEMMA AddLogsFinalizerType == TypeOK /\ AddLogsFinalizer => TypeOK'
<1> SUFFICES ASSUME TypeOK, AddLogsFinalizer PROVE TypeOK'
  OBVIOUS
<1> DEFINE new == [inst EXCEPT !.fins = @ \cup {"logs"}]
<1>1. new \in Op
  BY DEF TypeOK, WorkerOK, Op, Finalizers
<1> HIDE DEF new
<1>2. Write(new, inst' = op' /\ Goto(Dispatch(new)))
  BY DEF AddLogsFinalizer, new, AddFinalizer
<1>3. UNCHANGED <<caches, timer, expired, plane, crashes, removals>>
  BY DEF AddLogsFinalizer, AddFinalizer
<1>4. ClusterOK'
  BY <1>1, <1>2, PutType DEF TypeOK, ClusterOK, Write, cluster
<1>5. CachesOK'
  BY <1>2, <1>3 DEF TypeOK, CachesOK, Write, Unchanged, Keep, caches, OpCopies
<1>6. WorkerOK'
  BY <1>2, <1>3, <1>4, Locals
     DEF TypeOK, WorkerOK, ClusterOK, Write, Dispatch, Forget, ReturnError, Goto, Labels
<1>7. CountsOK'
  BY <1>2, <1>3 DEF TypeOK, CountsOK, Write, Fail
<1> QED
  BY <1>3, <1>4, <1>5, <1>6, <1>7 DEF TypeOK, PlaneOK, plane

\* AddStatusFinalizer keeps the type of every variable.
LEMMA AddStatusFinalizerType == TypeOK /\ AddStatusFinalizer => TypeOK'
<1> SUFFICES ASSUME TypeOK, AddStatusFinalizer PROVE TypeOK'
  OBVIOUS
<1> DEFINE new == [inst EXCEPT !.fins = @ \cup {"status"}]
<1>1. new \in Op
  BY DEF TypeOK, WorkerOK, Op, Finalizers
<1> HIDE DEF new
<1>2. Write(new, inst' = op' /\ Goto(Dispatch(new)))
  BY DEF AddStatusFinalizer, new, AddFinalizer
<1>3. UNCHANGED <<caches, timer, expired, plane, crashes, removals>>
  BY DEF AddStatusFinalizer, AddFinalizer
<1>4. ClusterOK'
  BY <1>1, <1>2, PutType DEF TypeOK, ClusterOK, Write, cluster
<1>5. CachesOK'
  BY <1>2, <1>3 DEF TypeOK, CachesOK, Write, Unchanged, Keep, caches, OpCopies
<1>6. WorkerOK'
  BY <1>2, <1>3, <1>4, Locals
     DEF TypeOK, WorkerOK, ClusterOK, Write, Dispatch, Forget, ReturnError, Goto, Labels
<1>7. CountsOK'
  BY <1>2, <1>3 DEF TypeOK, CountsOK, Write, Fail
<1> QED
  BY <1>3, <1>4, <1>5, <1>6, <1>7 DEF TypeOK, PlaneOK, plane

\* removeFinalizer keeps the type of every variable.
LEMMA removeFinalizerType == TypeOK /\ removeFinalizer => TypeOK'
<1> SUFFICES ASSUME TypeOK, removeFinalizer PROVE TypeOK'
  OBVIOUS
<1> DEFINE new == [inst EXCEPT !.fins = @ \ {IF "logs" \in inst.fins THEN "logs" ELSE "status"}]
<1>1. new \in Op
  BY DEF TypeOK, WorkerOK, Op
<1> HIDE DEF new
<1>2. Write(new, IF inst.life = "deleting" THEN Return ELSE inst' = op' /\ Goto("cleanup"))
  BY DEF removeFinalizer, new
<1>3. UNCHANGED <<caches, timer, expired, plane, crashes, removals>>
  BY DEF removeFinalizer
<1>4. ClusterOK'
  BY <1>1, <1>2, PutType DEF TypeOK, ClusterOK, Write, cluster
<1>5. CachesOK'
  BY <1>2, <1>3 DEF TypeOK, CachesOK, Write, Unchanged, Keep, caches, OpCopies
<1>6. WorkerOK'
  BY <1>2, <1>3, <1>4, Locals
     DEF TypeOK, WorkerOK, ClusterOK, Write, Return, Forget, ReturnError, Goto, Labels
<1>7. CountsOK'
  BY <1>2, <1>3 DEF TypeOK, CountsOK, Write, Fail
<1> QED
  BY <1>3, <1>4, <1>5, <1>6, <1>7 DEF TypeOK, PlaneOK, plane

\* writeStatus keeps the type of every variable.
LEMMA writeStatusType == TypeOK /\ writeStatus => TypeOK'
<1> SUFFICES ASSUME TypeOK, writeStatus PROVE TypeOK'
  OBVIOUS
<1> DEFINE new == inst
<1>1. new \in Op
  BY DEF TypeOK, WorkerOK
<1> HIDE DEF new
<1>2. Write(new, inst' = op' /\ Goto("sync"))
  BY DEF writeStatus, new
<1>3. UNCHANGED <<caches, timer, expired, plane, crashes, removals>>
  BY DEF writeStatus
<1>4. ClusterOK'
  BY <1>1, <1>2, PutType DEF TypeOK, ClusterOK, Write, cluster
<1>5. CachesOK'
  BY <1>2, <1>3 DEF TypeOK, CachesOK, Write, Unchanged, Keep, caches, OpCopies
<1>6. WorkerOK'
  BY <1>2, <1>3, <1>4, Locals
     DEF TypeOK, WorkerOK, ClusterOK, Write, Forget, ReturnError, Goto, Labels
<1>7. CountsOK'
  BY <1>2, <1>3 DEF TypeOK, CountsOK, Write, Fail
<1> QED
  BY <1>3, <1>4, <1>5, <1>6, <1>7 DEF TypeOK, PlaneOK, plane

\* The reports only name conditions that exist, because a report follows a
\* logged condition.
LEMMA SyncType ==
  ASSUME TypeOK, NEW type \in ConditionTypes, syncStatus(type)
  PROVE  PlaneOK' /\ faults' \in Nat
BY DEF TypeOK, PlaneOK, CountsOK, syncStatus, Fail, plane

\* instanceSyncStatus keeps the type of every variable.
LEMMA instanceSyncStatusType == TypeOK /\ LastKnown /\ instanceSyncStatus => TypeOK'
<1> SUFFICES ASSUME TypeOK, LastKnown, instanceSyncStatus PROVE TypeOK'
  OBVIOUS
<1>1. UNCHANGED <<cluster, caches, timer, expired, crashes, removals>>
  BY DEF instanceSyncStatus
<1>2. inst.status.last.type \in ConditionTypes
  BY DEF LastKnown, Condition, instanceSyncStatus
<1>3. PlaneOK' /\ CountsOK'
  BY <1>1, <1>2, SyncType DEF TypeOK, CountsOK, instanceSyncStatus
<1>4. CachesOK'
  BY <1>1 DEF TypeOK, CachesOK, instanceSyncStatus, Keep, caches
<1>5. WorkerOK'
  BY <1>1, Locals
     DEF TypeOK, WorkerOK, instanceSyncStatus, Return, ReturnError, Forget, Goto, Labels
<1> QED
  BY <1>1, <1>3, <1>4, <1>5 DEF TypeOK, ClusterOK, cluster

\* handleFinalizersStop keeps the type of every variable.
LEMMA handleFinalizersStopType == TypeOK /\ handleFinalizersStop => TypeOK'
<1> SUFFICES ASSUME TypeOK, handleFinalizersStop PROVE TypeOK'
  OBVIOUS
<1>1. PlaneOK' /\ faults' \in Nat
  BY SyncType DEF handleFinalizersStop, ConditionTypes
<1>2. UNCHANGED <<cluster, caches, current, inst, timer, expired, crashes, removals>>
  BY DEF handleFinalizersStop
<1>3. ClusterOK' /\ CachesOK' /\ CountsOK'
  BY <1>1, <1>2 DEF TypeOK, ClusterOK, CachesOK, CountsOK, cluster, caches
<1>4. WorkerOK'
  BY <1>2 DEF TypeOK, WorkerOK, handleFinalizersStop, Goto, Labels
<1> QED
  BY <1>1, <1>3, <1>4 DEF TypeOK

\* collectLogs keeps the type of every variable.
LEMMA collectLogsType == TypeOK /\ collectLogs => TypeOK'
<1> SUFFICES ASSUME TypeOK, collectLogs PROVE TypeOK'
  OBVIOUS
<1>1. UNCHANGED <<cluster, caches, timer, expired, reported, latest, crashes, removals>>
  BY DEF collectLogs
<1>2. PlaneOK'
  BY <1>1, Zenon DEF TypeOK, PlaneOK, collectLogs
<1>5. CountsOK'
  BY <1>1 DEF TypeOK, CountsOK, collectLogs, Fail
<1>3. CachesOK'
  BY <1>1 DEF TypeOK, CachesOK, collectLogs, Keep, caches
<1>4. WorkerOK'
  BY <1>1, Locals
     DEF TypeOK, WorkerOK, collectLogs, AfterFinalizers, Return, Forget, Goto, Labels
<1> QED
  BY <1>1, <1>2, <1>3, <1>4, <1>5 DEF TypeOK, ClusterOK, cluster

\* handleTTL keeps the type of every variable.
LEMMA handleTTLType == TypeOK /\ handleTTL => TypeOK'
<1> SUFFICES ASSUME TypeOK, handleTTL PROVE TypeOK'
  OBVIOUS
<1>1. UNCHANGED <<caches, expired, plane, crashes, removals>>
  BY DEF handleTTL
<1>2. ClusterOK'
  <2>1. [op EXCEPT !.life = "deleting"] \in Op
    BY DEF TypeOK, ClusterOK, Op
  <2> QED
    BY <2>1, PutType DEF TypeOK, ClusterOK, handleTTL, DeleteOp, cluster
<1>3. CachesOK'
  BY <1>1 DEF TypeOK, CachesOK, handleTTL, Unchanged, Keep, caches
<1>4. WorkerOK'
  BY <1>1, Locals DEF TypeOK, WorkerOK, handleTTL, Return, ReturnError, Forget, Labels
<1>5. CountsOK'
  BY <1>1 DEF TypeOK, CountsOK, handleTTL, Fail
<1> QED
  BY <1>1, <1>2, <1>3, <1>4, <1>5 DEF TypeOK, PlaneOK, plane

\* getJob keeps the type of every variable.
LEMMA getJobType == TypeOK /\ getJob => TypeOK'
<1> SUFFICES ASSUME TypeOK, getJob PROVE TypeOK'
  OBVIOUS
<1>1. UNCHANGED <<cluster, caches, queued, timer, expired, plane, faults, crashes, removals>>
  BY DEF getJob
<1>2. [inst EXCEPT !.status = MarkJobAsDeleted(@)] \in Op
  <2>1. inst.status \in OperationStatusType
    BY DEF TypeOK, WorkerOK, Op
  <2>2. MarkJobAsDeleted(inst.status) \in OperationStatusType
    BY <2>1, LogTypes DEF Reasons
  <2> QED
    BY <2>2 DEF TypeOK, WorkerOK, Op
<1>3. CachesOK'
  BY <1>1 DEF TypeOK, CachesOK, getJob, Keep, caches, JobCopies
<1>4. WorkerOK'
  BY <1>1, <1>2 DEF TypeOK, WorkerOK, CachesOK, getJob, Labels
<1> QED
  BY <1>1, <1>3, <1>4 DEF TypeOK, ClusterOK, PlaneOK, CountsOK, cluster, plane

\* createJob keeps the type of every variable.
LEMMA createJobType == TypeOK /\ createJob => TypeOK'
<1> SUFFICES ASSUME TypeOK, createJob PROVE TypeOK'
  OBVIOUS
<1>1. UNCHANGED <<op, pods, held, caches, timer, expired, plane, crashes, removals>>
  BY DEF createJob
<1>2. /\ [inst EXCEPT !.status = LogStarting(@)] \in Op
      /\ [inst EXCEPT !.status = LogWarning(inst.status, "OperatorCreateJob")] \in Op
  <2>1. inst.status \in OperationStatusType
    BY DEF TypeOK, WorkerOK, Op
  <2>2. /\ LogStarting(inst.status) \in OperationStatusType
        /\ LogWarning(inst.status, "OperatorCreateJob") \in OperationStatusType
    BY <2>1, LogTypes DEF Reasons
  <2> QED
    BY <2>2 DEF TypeOK, WorkerOK, Op
<1>3. ClusterOK'
  <2>1. job' = job \/ job' = [live |-> TRUE, status |-> NoJobStatus]
    BY DEF createJob, StoreJob
  <2>2. [live |-> TRUE, status |-> NoJobStatus] \in BatchJob
    BY Locals DEF BatchJob
  <2>3. job' \in BatchJob
    BY <2>1, <2>2 DEF TypeOK, ClusterOK
  <2> QED
    BY <1>1, <2>3 DEF TypeOK, ClusterOK
<1>4. CachesOK'
  BY <1>1 DEF TypeOK, CachesOK, createJob, Keep, caches
<1>5. WorkerOK'
  BY <1>1, <1>2, Locals
     DEF TypeOK, WorkerOK, createJob, CreateFailed, ReturnError, Forget, Goto, Labels
<1>6. CountsOK'
  BY <1>1 DEF TypeOK, CountsOK, createJob, Fail
<1> QED
  BY <1>1, <1>3, <1>4, <1>5, <1>6 DEF TypeOK, PlaneOK, plane

\* writeStarting keeps the type of every variable.
LEMMA writeStartingType == TypeOK /\ writeStarting => TypeOK'
<1> SUFFICES ASSUME TypeOK, writeStarting PROVE TypeOK'
  OBVIOUS
<1>1. UNCHANGED <<caches, queued, found, timer, expired, plane, crashes, removals>>
  BY DEF writeStarting
<1>2. ClusterOK'
  BY PutType DEF TypeOK, WorkerOK, ClusterOK, writeStarting, cluster
<1>3. CachesOK'
  BY <1>1 DEF TypeOK, CachesOK, writeStarting, Unchanged, Keep, caches, OpCopies
<1>4. WorkerOK'
  BY <1>1, <1>2 DEF TypeOK, WorkerOK, ClusterOK, writeStarting, Labels
<1>5. CountsOK'
  BY <1>1 DEF TypeOK, CountsOK, writeStarting, Fail
<1> QED
  BY <1>1, <1>2, <1>3, <1>4, <1>5 DEF TypeOK, PlaneOK, plane

\* updateJob keeps the type of every variable.
LEMMA updateJobType == TypeOK /\ updateJob => TypeOK'
<1> SUFFICES ASSUME TypeOK, updateJob PROVE TypeOK'
  OBVIOUS
<1>1. UNCHANGED <<cluster, caches, timer, expired, plane, crashes, removals>>
  BY DEF updateJob
<1>2. CachesOK'
  BY <1>1 DEF TypeOK, CachesOK, updateJob, Keep, caches
<1>3. WorkerOK'
  BY <1>1, Locals DEF TypeOK, WorkerOK, updateJob, ReturnError, Forget, Goto, Labels
<1>4. CountsOK'
  BY <1>1 DEF TypeOK, CountsOK, updateJob, Fail
<1> QED
  BY <1>1, <1>2, <1>3, <1>4 DEF TypeOK, ClusterOK, PlaneOK, cluster, plane

\* checkStatus keeps the type of every variable.
LEMMA checkStatusType == TypeOK /\ checkStatus => TypeOK'
<1> SUFFICES ASSUME TypeOK, checkStatus PROVE TypeOK'
  OBVIOUS
<1>1. UNCHANGED <<cluster, caches, timer, expired, plane, faults, crashes, removals>>
  BY DEF checkStatus
<1>2. \A podList : [inst EXCEPT !.status = reconcileJobStatus(inst.status, found.status, podList)] \in Op
  <2> TAKE podList
  <2>1. inst.status \in OperationStatusType /\ found.status \in JobStatus
    BY DEF TypeOK, WorkerOK, Op, BatchJob
  <2>2. reconcileJobStatus(inst.status, found.status, podList) \in OperationStatusType
    BY <2>1, DecidedType
  <2> QED
    BY <2>2 DEF TypeOK, WorkerOK, Op
<1>3. CachesOK'
  BY <1>1 DEF TypeOK, CachesOK, checkStatus, Keep, caches
<1>4. WorkerOK'
  BY <1>1, <1>2, Locals DEF TypeOK, WorkerOK, checkStatus, Return, Forget, Labels
<1> QED
  BY <1>1, <1>3, <1>4 DEF TypeOK, ClusterOK, PlaneOK, CountsOK, cluster, plane

\* The caches, the timers and the queue keep the types.
LEMMA WatchType ==
  TypeOK /\ (WatchOp \/ WatchJob \/ mapPodToRequest \/ Resync \/ RequeueAfter \/ TTLPasses)
    => TypeOK'
<1> SUFFICES ASSUME TypeOK,
                    WatchOp \/ WatchJob \/ mapPodToRequest \/ Resync \/ RequeueAfter \/ TTLPasses
             PROVE  TypeOK'
  OBVIOUS
<1>1. UNCHANGED <<cluster, worker, plane, faults, crashes, removals>>
  BY DEF WatchOp, WatchJob, mapPodToRequest, Resync, RequeueAfter, TTLPasses, local
<1>2. CachesOK'
  BY DEF TypeOK, ClusterOK, CachesOK, WatchOp, WatchJob, mapPodToRequest, Resync,
         RequeueAfter, TTLPasses, caches, OpCopies, JobCopies
<1>3. WorkerOK'
  BY <1>1
     DEF TypeOK, WorkerOK, WatchOp, WatchJob, mapPodToRequest, Resync, RequeueAfter,
         TTLPasses, local, worker
<1> QED
  BY <1>1, <1>2, <1>3 DEF TypeOK, ClusterOK, PlaneOK, CountsOK, cluster, plane

\* Crash keeps the type of every variable.
LEMMA CrashType == TypeOK /\ Crash => TypeOK'
<1> SUFFICES ASSUME TypeOK, Crash PROVE TypeOK'
  OBVIOUS
<1>1. CachesOK'
  BY DEF TypeOK, ClusterOK, CachesOK, Crash, OpCopies, JobCopies
<1>2. WorkerOK'
  BY Locals DEF TypeOK, WorkerOK, Crash, Forget, Labels
<1> QED
  BY <1>1, <1>2 DEF TypeOK, ClusterOK, PlaneOK, CountsOK, Crash, cluster, plane

\* UserDeletes keeps the type of every variable.
LEMMA UserDeletesType == TypeOK /\ UserDeletes => TypeOK'
<1> SUFFICES ASSUME TypeOK, UserDeletes PROVE TypeOK'
  OBVIOUS
<1>1. [op EXCEPT !.life = "deleting"] \in Op
  BY DEF TypeOK, ClusterOK, Op
<1>2. ClusterOK'
  BY <1>1, PutType DEF TypeOK, UserDeletes, DeleteOp
<1> QED
  BY <1>2
     DEF TypeOK, CachesOK, WorkerOK, PlaneOK, CountsOK, UserDeletes, local, caches, worker, plane

\* A step of the cluster that keeps the batch Job and its pods well typed keeps
\* the rest, which it does not touch.
LEMMA KubeletType ==
  ASSUME TypeOK, UNCHANGED kubelet, job' \in BatchJob, pods' \in Seq(AllStages),
         current' \subseteq current, removals' \in Nat
  PROVE  TypeOK'
<1>1. ClusterOK' /\ CachesOK'
  BY DEF TypeOK, ClusterOK, CachesOK, kubelet, caches
<1>2. WorkerOK'
  BY DEF TypeOK, WorkerOK, kubelet, worker
<1>3. PlaneOK' /\ CountsOK'
  BY DEF TypeOK, PlaneOK, CountsOK, kubelet, plane
<1> QED
  BY <1>1, <1>2, <1>3 DEF TypeOK

\* PodMoves keeps the type of every variable.
LEMMA PodMovesType == TypeOK /\ PodMoves => TypeOK'
<1> SUFFICES ASSUME TypeOK, PodMoves PROVE TypeOK'
  OBVIOUS
<1>1. PICK i \in DOMAIN pods, stage \in Stages : pods' = [pods EXCEPT ![i] = stage]
  BY DEF PodMoves
<1>2. pods \in Seq(AllStages) /\ stage \in AllStages
  BY StagesAssumption DEF TypeOK, ClusterOK
<1>3. pods' \in Seq(AllStages)
  BY <1>1, <1>2, ExceptSeq
<1> QED
  BY <1>3, KubeletType DEF PodMoves, TypeOK, ClusterOK, CountsOK

\* JobStartsPod keeps the type of every variable.
LEMMA JobStartsPodType == TypeOK /\ JobStartsPod => TypeOK'
<1> SUFFICES ASSUME TypeOK, JobStartsPod PROVE TypeOK'
  OBVIOUS
<1>1. pods' \in Seq(AllStages)
  BY AppendProperties DEF JobStartsPod, TypeOK, ClusterOK, AllStages
<1> QED
  BY <1>1, KubeletType DEF JobStartsPod, TypeOK, ClusterOK, CountsOK

\* JobCounts keeps the type of every variable.
LEMMA JobCountsType == TypeOK /\ JobCounts => TypeOK'
<1> SUFFICES ASSUME TypeOK, JobCounts PROVE TypeOK'
  OBVIOUS
<1>1. PICK st \in JobStatus : job' = [job EXCEPT !.status = st] /\ current' = current \ JobCopies
  BY DEF JobCounts, SetJobStatus, JobStatus
<1>2. job' \in BatchJob
  BY <1>1 DEF TypeOK, ClusterOK, BatchJob
<1> QED
  BY <1>1, <1>2, KubeletType DEF JobCounts, TypeOK, ClusterOK, CountsOK

\* JobDeadline keeps the type of every variable.
LEMMA JobDeadlineType == TypeOK /\ JobDeadline => TypeOK'
<1> SUFFICES ASSUME TypeOK, JobDeadline PROVE TypeOK'
  OBVIOUS
<1>1. pods \in Seq(AllStages)
  BY DEF TypeOK, ClusterOK
<1>2. pods' \in Seq(AllStages)
  <2>1. CASE pods' = pods
    BY <1>1, <2>1
  <2>2. CASE pods # <<>> /\ pods' = SubSeq(pods, 1, Len(pods) - 1)
    <3>1. Len(pods) \in Nat /\ DOMAIN pods = 1 .. Len(pods)
      BY <1>1
    <3>2. \A i \in 1 .. Len(pods) - 1 : i \in 1 .. Len(pods)
      BY <3>1
    <3> QED
      BY <1>1, <2>2, <3>1, <3>2, SubSeqProperties
  <2> QED
    BY <2>1, <2>2 DEF JobDeadline
<1>3. job' \in BatchJob /\ current' \subseteq current
  BY Locals DEF JobDeadline, SetJobStatus, NoJobStatus, JobStatus, BatchJob, TypeOK, ClusterOK
<1> QED
  BY <1>2, <1>3, KubeletType DEF JobDeadline, TypeOK, CountsOK

\* Removing the batch Job keeps the types.
LEMMA DropJobType ==
  TypeOK /\ (JobTTL \/ JobDeleted \/ JobCollected) => TypeOK'
<1> SUFFICES ASSUME TypeOK, JobTTL \/ JobDeleted \/ JobCollected PROVE TypeOK'
  OBVIOUS
<1>1. DropJob /\ removals' \in Nat
  BY DEF JobTTL, JobDeleted, JobCollected, TypeOK, CountsOK
<1>2. job' \in BatchJob /\ pods' \in Seq(AllStages) /\ current' \subseteq current /\ UNCHANGED kubelet
  BY <1>1, Locals DEF DropJob
<1> QED
  BY <1>1, <1>2, KubeletType

\* What InductiveInv says beyond types.
Phases ==
  /\ LastKnown /\ CopiesCurrent /\ RuntimePhase /\ EndingPhase
  /\ Lives /\ StatusesWellFormed

\* The inductive invariant is the types and the rest.
LEMMA InvParts == InductiveInv <=> TypeOK /\ Phases
BY DEF InductiveInv, Phases

(***************************************************************************)
(* Statuses: an unfinished operation ends well formed or stays unfinished. *)
(***************************************************************************)
\* Logging on an unfinished status leaves it well formed.
LEMMA LogUnfinished ==
  ASSUME NEW status \in OperationStatusType, ~IsDone(status), NEW why \in Reasons
  PROVE  /\ WellFormed(LogStarting(status)) /\ WellFormed(LogRunning(status))
         /\ WellFormed(LogWarning(status, why)) /\ WellFormed(LogSucceeded(status))
         /\ WellFormed(LogFailed(status, why)) /\ WellFormed(MarkJobAsDeleted(status))
         /\ ~IsDone(LogStarting(status)) /\ ~IsDone(LogWarning(status, why))
<1>1. status.has \cap FinalTypes = {}
  BY DEF IsDone
<1>2. \A type \in ConditionTypes \ FinalTypes, w \in Reasons :
         ~IsDone(logCondition(status, type, w))
  BY <1>1 DEF IsDone, logCondition, OperationStatusType
<1>3. \A s : ~IsDone(s) => WellFormed(s)
  BY DEF IsDone, WellFormed, Outcomes
<1>4. \A type \in FinalTypes, w \in Reasons :
         WellFormed([logCondition(status, type, w) EXCEPT !.completion = TRUE])
  BY <1>1 DEF WellFormed, Outcomes, logCondition, NewOperationCondition, OperationStatusType
<1>5. /\ {"Starting", "Running", "Warning"} \subseteq ConditionTypes \ FinalTypes
      /\ {"Succeeded", "Failed", "Stopped"} \subseteq FinalTypes
      /\ {"OperatorController", "JobDeleted"} \subseteq Reasons
  BY DEF ConditionTypes, FinalTypes, Reasons
<1>6. ~IsDone(LogStarting(status)) /\ ~IsDone(LogRunning(status)) /\ ~IsDone(LogWarning(status, why))
  BY <1>2, <1>5 DEF LogStarting, LogRunning, LogWarning
<1>7. /\ WellFormed(LogSucceeded(status)) /\ WellFormed(LogFailed(status, why))
      /\ WellFormed(MarkJobAsDeleted(status))
  BY <1>4, <1>5 DEF LogSucceeded, LogFailed, MarkJobAsDeleted, LogStopped
<1> QED
  BY <1>3, <1>6, <1>7

\* Whatever is logged is the last condition.
LEMMA LogLast ==
  ASSUME NEW status \in OperationStatusType, NEW why \in Reasons
  PROVE  /\ LogStarting(status).last \in Condition /\ LogRunning(status).last \in Condition
         /\ LogWarning(status, why).last \in Condition
         /\ LogSucceeded(status).last \in Condition
         /\ LogFailed(status, why).last \in Condition
         /\ MarkJobAsDeleted(status).last \in Condition
<1>1. \A type \in ConditionTypes, w \in Reasons :
         /\ logCondition(status, type, w).last \in Condition
         /\ [logCondition(status, type, w) EXCEPT !.completion = TRUE].last \in Condition
  BY DEF logCondition, NewOperationCondition, Condition, OperationStatusType
<1>2. /\ {"Starting", "Running", "Warning", "Succeeded", "Failed", "Stopped"} \subseteq ConditionTypes
      /\ {"OperatorController", "JobDeleted"} \subseteq Reasons
  BY DEF ConditionTypes, Reasons
<1> QED
  BY <1>1, <1>2 DEF LogStarting, LogRunning, LogWarning, LogSucceeded, LogFailed,
                    MarkJobAsDeleted, LogStopped

\* The status decided for an unfinished operation is the old one, or has a last
\* condition and is well formed.
LEMMA DecidedWellFormed ==
  ASSUME NEW status \in OperationStatusType, ~IsDone(status),
         NEW st \in JobStatus, NEW podList,
         reconcileJobStatus(status, st, podList) # status
  PROVE  /\ reconcileJobStatus(status, st, podList).last \in Condition
         /\ WellFormed(reconcileJobStatus(status, st, podList))
<1>1. HasUnschedulablePods(podList).why \in Reasons
  BY VerdictWhy
<1>2. jobFailureReason(st.reason, GetMainContainerExitStatus(podList)) \in Reasons
  BY DEF jobFailureReason, JobStatus, Reasons
<1>3. {"InvalidImageName", "OperatorController"} \subseteq Reasons
  BY DEF Reasons
<1>4. \A why \in Reasons :
        /\ LogWarning(status, why).last \in Condition /\ WellFormed(LogWarning(status, why))
        /\ LogFailed(status, why).last \in Condition /\ WellFormed(LogFailed(status, why))
  BY LogLast, LogUnfinished
<1>5. /\ LogSucceeded(status).last \in Condition /\ WellFormed(LogSucceeded(status))
      /\ LogRunning(status).last \in Condition /\ WellFormed(LogRunning(status))
  BY <1>3, LogLast, LogUnfinished
<1> QED
  BY <1>1, <1>2, <1>3, <1>4, <1>5 DEF reconcileJobStatus

(***************************************************************************)
(* The inductive invariant.                                                *)
(***************************************************************************)
\* Initially no copy is ahead of what is stored.
LEMMA InitPhases == Init => Phases
<1> SUFFICES ASSUME Init PROVE Phases
  OBVIOUS
<1>1. WellFormed(NewStatus) /\ NewOp.status = NewStatus /\ NewOp.life = "live"
  BY DEF WellFormed, NewStatus, Outcomes, IsDone, NewOp
<1> QED
  BY <1>1 DEF Init, Phases, LastKnown, CopiesCurrent, RuntimePhase, EndingPhase, Lives,
              StatusesWellFormed, Writing, Runtime, Ending, Continues

\* A step that ends the reconciliation.
LEMMA EndPhases ==
  ASSUME Phases, Forget, opCache' = opCache, "inst" \notin current',
         "opCache" \in current' => "opCache" \in current /\ op' = op,
         WellFormed(op'.status), op'.life = "deleting" => op'.fins # {}
  PROVE  Phases'
<1>1. WellFormed(NewStatus) /\ NewOp.status = NewStatus /\ NewOp.life = "live"
  BY DEF WellFormed, NewStatus, Outcomes, IsDone, NewOp
<1>2. pc' = "idle" /\ inst' = NewOp
  BY DEF Forget
<1>3. CopiesCurrent'
  BY DEF Phases, CopiesCurrent
<1>4. LastKnown' /\ RuntimePhase' /\ EndingPhase'
  BY <1>2 DEF LastKnown, RuntimePhase, EndingPhase, Writing, Runtime, Ending, Continues
<1>5. Lives' /\ StatusesWellFormed'
  BY <1>1, <1>2 DEF Phases, Lives, StatusesWellFormed
<1> QED
  BY <1>3, <1>4, <1>5 DEF Phases

\* A step that leaves the resource and the reconciler's view of it alone.
LEMMA AsidePhases ==
  ASSUME Phases, UNCHANGED <<op, opCache, pc, inst, then, collected>>,
         current' \cap OpCopies = current \cap OpCopies
  PROVE  Phases'
<1>1. /\ "opCache" \in current' <=> "opCache" \in current
      /\ "inst" \in current' <=> "inst" \in current
  BY DEF OpCopies
<1> QED
  BY <1>1 DEF Phases, LastKnown, CopiesCurrent, RuntimePhase, EndingPhase, Lives,
              StatusesWellFormed, Continues

\* The server stores what it is given, or removes a resource whose last
\* finalizer goes while it is being deleted.
LEMMA PutStores ==
  ASSUME NEW new \in Op, Put(new)
  PROVE  /\ op'.status = new.status /\ op'.fins = new.fins
         /\ op'.life = "deleting" => op'.fins # {}
         /\ ~(new.life = "deleting" /\ new.fins = {}) => op' = new
         /\ new.life = "deleting" /\ new.fins = {} => op'.life = "gone"
BY DEF Put, Op

\* After Fetch the copies still say what the reconciler relies on.
LEMMA FetchPhases == InductiveInv /\ Fetch => Phases'
<1> SUFFICES ASSUME InductiveInv, Fetch PROVE Phases'
  OBVIOUS
<1>1. op' = op /\ opCache' = opCache /\ collected' = collected
  BY DEF Fetch, cluster, caches, plane
<1>2. CASE opCache.life = "gone"
  BY <1>1, <1>2, InvParts, AsidePhases DEF Fetch, worker
<1>3. CASE opCache.life # "gone"
  <2>1. /\ inst' = opCache /\ then' = then /\ pc' # "idle"
        /\ pc' = IF opCache.status.start THEN Dispatch(opCache) ELSE "addStart"
    BY <1>3 DEF Fetch, Dispatch
  <2>2. /\ "opCache" \in current' => "opCache" \in current
        /\ "inst" \in current' => "opCache" \in current \/ "inst" \in current
    BY <1>3, <2>1 DEF Fetch, Keep
  <2>3. "inst" \notin current /\ opCache \in Op /\ inst'.status = opCache.status
    BY <2>1 DEF InductiveInv, CopiesCurrent, Fetch, TypeOK, CachesOK
  <2>4. CopiesCurrent'
    BY <1>1, <2>1, <2>2, <2>3 DEF InductiveInv, CopiesCurrent
  <2>5. LastKnown' /\ pc' \notin Writing /\ ~Continues' /\ pc' # "write"
    BY <2>1 DEF Dispatch, LastKnown, Writing, Continues
  <2>6. pc' \in Runtime => opCache.life = "live" /\ ~IsDone(opCache.status)
    BY <1>3, <2>1, <2>3 DEF Dispatch, Runtime, Op
  <2>7. RuntimePhase'
    BY <2>1, <2>5, <2>6 DEF RuntimePhase, Writing
  <2>8. EndingPhase'
    BY <2>1 DEF EndingPhase, Dispatch, Ending
  <2>9. Lives' /\ StatusesWellFormed'
    BY <1>1, <1>3, <2>1 DEF InductiveInv, Lives, StatusesWellFormed
  <2> QED
    BY <2>4, <2>5, <2>7, <2>8, <2>9 DEF Phases
<1> QED
  BY <1>2, <1>3

\* A write that the server refuses, or whose answer is lost, ends the
\* reconciliation; only an accepted write is left to consider.
LEMMA WritePhases ==
  ASSUME InductiveInv, NEW new \in Op, NEW ACTION After, Write(new, After), opCache' = opCache,
         WellFormed(new.status)
  PROVE  \/ Phases'
         \/ /\ Current /\ Put(new) /\ After /\ Keep(Unchanged \cup {"inst"})
            /\ op.life # "gone" /\ "inst" \in current
<1>1. Phases
  BY InvParts
<1>2. CASE Current /\ Put(new) /\ ReturnError /\ Keep(Unchanged)
  <2>1. Forget /\ pc' = "idle"
    BY <1>2 DEF ReturnError, Forget
  <2>2. "inst" \notin current' /\ ("opCache" \in current' => "opCache" \in current /\ op' = op)
    BY <1>2, <2>1 DEF Keep, Unchanged, OpCopies
  <2>3. WellFormed(op'.status) /\ (op'.life = "deleting" => op'.fins # {})
    BY <1>2, PutStores
  <2> QED
    BY <1>1, <2>1, <2>2, <2>3, EndPhases
<1>3. CASE ReturnError /\ Keep(current) /\ UNCHANGED cluster
  <2>1. Forget /\ pc' = "idle" /\ op' = op
    BY <1>3 DEF ReturnError, Forget, cluster
  <2>2. "inst" \notin current' /\ ("opCache" \in current' => "opCache" \in current)
    BY <1>3, <2>1 DEF Keep
  <2>3. WellFormed(op'.status) /\ (op'.life = "deleting" => op'.fins # {})
    BY <1>1, <2>1 DEF Phases, StatusesWellFormed, Lives
  <2> QED
    BY <1>1, <2>1, <2>2, <2>3, EndPhases
<1> QED
  BY <1>2, <1>3 DEF Write, Current

\* After AddStartTime the copies still say what the reconciler relies on.
LEMMA AddStartTimePhases == InductiveInv /\ AddStartTime => Phases'
<1> SUFFICES ASSUME InductiveInv, AddStartTime PROVE Phases'
  OBVIOUS
<1> DEFINE new == [inst EXCEPT !.status.start = TRUE]
<1>1. inst \in Op /\ pc = "addStart" /\ opCache' = opCache /\ collected' = collected
  BY DEF InductiveInv, TypeOK, WorkerOK, AddStartTime, caches, plane
<1>2. /\ new \in Op /\ new.life = inst.life /\ new.fins = inst.fins
      /\ IsDone(new.status) = IsDone(inst.status)
  BY <1>1 DEF Op, OperationStatusType, IsDone
<1>3. WellFormed(new.status)
  BY <1>1 DEF InductiveInv, StatusesWellFormed, WellFormed, Outcomes, IsDone, Op, OperationStatusType
<1>4. Write(new, inst' = op' /\ Goto(Dispatch(new)))
  BY DEF AddStartTime
<1> HIDE DEF new
<1>5. CASE /\ Put(new) /\ inst' = op' /\ Goto(Dispatch(new)) /\ Keep(Unchanged \cup {"inst"})
           /\ op.life # "gone" /\ "inst" \in current
  <2>1. new.life = op.life /\ new.fins = op.fins
    BY <1>1, <1>2, <1>5 DEF InductiveInv, CopiesCurrent
  <2>2. op' = new /\ inst' = new
    BY <1>2, <1>5, <2>1, PutStores DEF InductiveInv, Lives
  <2>3. pc' = Dispatch(new) /\ then' = then
    BY <1>5 DEF Goto
  <2>4. CopiesCurrent'
    BY <1>1, <1>5, <2>2, <2>3
       DEF InductiveInv, CopiesCurrent, Keep, Unchanged, Dispatch, OpCopies
  <2>5. LastKnown' /\ pc' \notin Writing /\ ~Continues' /\ pc' # "write"
    BY <2>3 DEF Dispatch, LastKnown, Writing, Continues
  <2>6. pc' \in Runtime => new.life = "live" /\ ~IsDone(new.status)
    BY <1>2, <1>5, <2>1, <2>3 DEF Dispatch, Runtime, Op
  <2>7. RuntimePhase'
    BY <2>2, <2>5, <2>6 DEF RuntimePhase, Writing
  <2>8. EndingPhase'
    BY <2>2, <2>3 DEF EndingPhase, Dispatch, Ending
  <2>9. Lives' /\ StatusesWellFormed'
    BY <1>1, <1>2, <1>3, <1>5, <2>1, <2>2 DEF InductiveInv, Lives, StatusesWellFormed
  <2> QED
    BY <2>4, <2>5, <2>7, <2>8, <2>9 DEF Phases
<1> QED
  BY <1>1, <1>2, <1>3, <1>4, <1>5, WritePhases

\* After AddFinalizer the copies still say what the reconciler relies on.
LEMMA AddFinalizerPhases ==
  ASSUME InductiveInv, NEW label \in {"addLogs", "addStatus"}, NEW finalizer \in Finalizers,
         AddFinalizer(label, finalizer)
  PROVE  Phases'
<1> DEFINE new == [inst EXCEPT !.fins = @ \cup {finalizer}]
<1>1. inst \in Op /\ pc \in Runtime /\ opCache' = opCache /\ collected' = collected
  BY DEF InductiveInv, TypeOK, WorkerOK, AddFinalizer, caches, plane, Runtime
<1>2. /\ new \in Op /\ new.life = inst.life /\ new.status = inst.status
      /\ new.life = "live" /\ ~IsDone(new.status)
  BY <1>1 DEF Op, InductiveInv, RuntimePhase
<1>3. WellFormed(new.status)
  BY <1>2 DEF InductiveInv, StatusesWellFormed
<1>4. Write(new, inst' = op' /\ Goto(Dispatch(new)))
  BY DEF AddFinalizer
<1> HIDE DEF new
<1>5. CASE /\ Put(new) /\ inst' = op' /\ Goto(Dispatch(new)) /\ Keep(Unchanged \cup {"inst"})
           /\ op.life # "gone" /\ "inst" \in current
  <2>1. op' = new /\ inst' = new
    BY <1>2, <1>5, PutStores
  <2>2. pc' = Dispatch(new) /\ then' = then
    BY <1>5 DEF Goto
  <2>3. CopiesCurrent'
    BY <1>1, <1>5, <2>1, <2>2
       DEF InductiveInv, CopiesCurrent, Keep, Unchanged, Dispatch, OpCopies
  <2>4. LastKnown' /\ RuntimePhase' /\ EndingPhase'
    BY <1>2, <2>1, <2>2
       DEF Dispatch, LastKnown, Writing, Continues, Runtime, Ending, RuntimePhase, EndingPhase
  <2>5. Lives' /\ StatusesWellFormed'
    BY <1>1, <1>2, <1>3, <2>1 DEF InductiveInv, Lives, StatusesWellFormed
  <2> QED
    BY <2>3, <2>4, <2>5 DEF Phases
<1> QED
  BY <1>1, <1>2, <1>3, <1>4, <1>5, WritePhases

\* After removeFinalizer the copies still say what the reconciler relies on.
LEMMA removeFinalizerPhases == InductiveInv /\ removeFinalizer => Phases'
<1> SUFFICES ASSUME InductiveInv, removeFinalizer PROVE Phases'
  OBVIOUS
<1> DEFINE first == IF "logs" \in inst.fins THEN "logs" ELSE "status"
           new   == [inst EXCEPT !.fins = @ \ {first}]
           After == IF inst.life = "deleting" THEN Return ELSE inst' = op' /\ Goto("cleanup")
<1>1. inst \in Op /\ pc = "removeFinalizer" /\ opCache' = opCache
  BY DEF InductiveInv, TypeOK, WorkerOK, removeFinalizer, caches
<1>2. new \in Op /\ new.life = inst.life /\ new.status = inst.status
  BY <1>1 DEF Op
<1>3. WellFormed(new.status)
  BY <1>2 DEF InductiveInv, StatusesWellFormed
<1>4. Write(new, After)
  BY DEF removeFinalizer
<1> HIDE DEF new, After
<1>5. CASE /\ Put(new) /\ After /\ Keep(Unchanged \cup {"inst"})
           /\ op.life # "gone" /\ "inst" \in current
  <2>1. CASE inst.life = "deleting"
    <3>1. Forget /\ pc' = "idle"
      BY <1>5, <2>1 DEF After, Return, Forget
    <3>2. "inst" \notin current' /\ ("opCache" \in current' => "opCache" \in current /\ op' = op)
      BY <1>5, <3>1 DEF Keep, Unchanged, OpCopies
    <3>3. WellFormed(op'.status) /\ (op'.life = "deleting" => op'.fins # {})
      BY <1>2, <1>3, <1>5, PutStores
    <3> QED
      BY <1>1, <3>1, <3>2, <3>3, EndPhases, InvParts
  <2>2. CASE inst.life # "deleting"
    <3>1. /\ op' = new /\ inst' = new
      BY <1>2, <1>5, <2>2, PutStores DEF After
    <3>2. pc' = "cleanup" /\ then' = then
      BY <1>5, <2>2 DEF After, Goto
    <3>3. new.life = "live" /\ IsDone(new.status)
      BY <1>1, <1>2, <2>2 DEF InductiveInv, EndingPhase, Ending, Lives, Op
    <3>4. CopiesCurrent'
      BY <1>1, <1>5, <3>1, <3>2 DEF InductiveInv, CopiesCurrent, Keep, Unchanged, OpCopies
    <3>5. LastKnown' /\ RuntimePhase' /\ EndingPhase'
      BY <3>1, <3>2, <3>3
         DEF LastKnown, Writing, Continues, Runtime, Ending, RuntimePhase, EndingPhase
    <3>6. Lives' /\ StatusesWellFormed'
      BY <1>1, <1>3, <3>1, <3>3 DEF InductiveInv, Lives, StatusesWellFormed
    <3> QED
      BY <3>4, <3>5, <3>6 DEF Phases
  <2> QED
    BY <2>1, <2>2
<1> QED
  BY <1>1, <1>2, <1>3, <1>4, <1>5, WritePhases

\* After writeStatus the copies still say what the reconciler relies on.
LEMMA writeStatusPhases == InductiveInv /\ writeStatus => Phases'
<1> SUFFICES ASSUME InductiveInv, writeStatus PROVE Phases'
  OBVIOUS
<1>1. inst \in Op /\ pc = "write" /\ opCache' = opCache
  BY DEF InductiveInv, TypeOK, WorkerOK, writeStatus, caches
<1>2. inst.life = "live" /\ WellFormed(inst.status) /\ then # "checkStatus"
  BY <1>1 DEF InductiveInv, RuntimePhase, StatusesWellFormed, Writing
<1>3. Write(inst, inst' = op' /\ Goto("sync"))
  BY DEF writeStatus
<1>4. CASE /\ Put(inst) /\ inst' = op' /\ Goto("sync") /\ Keep(Unchanged \cup {"inst"})
           /\ op.life # "gone" /\ "inst" \in current
  <2>1. op' = inst /\ inst' = inst
    BY <1>1, <1>2, <1>4, PutStores
  <2>2. pc' = "sync" /\ then' = then
    BY <1>4 DEF Goto
  <2>3. CopiesCurrent'
    BY <1>1, <1>4, <2>1, <2>2 DEF InductiveInv, CopiesCurrent, Keep, Unchanged, OpCopies
  <2>4. LastKnown'
    BY <1>1, <2>1 DEF InductiveInv, LastKnown, Writing
  <2>5. RuntimePhase' /\ EndingPhase'
    BY <1>2, <2>2 DEF RuntimePhase, EndingPhase, Runtime, Writing, Ending, Continues
  <2>6. Lives' /\ StatusesWellFormed'
    BY <1>1, <1>2, <2>1 DEF InductiveInv, Lives, StatusesWellFormed
  <2> QED
    BY <2>3, <2>4, <2>5, <2>6 DEF Phases
<1> QED
  BY <1>1, <1>2, <1>3, <1>4, WritePhases

\* After writeStarting the copies still say what the reconciler relies on.
LEMMA writeStartingPhases == InductiveInv /\ writeStarting => Phases'
<1> SUFFICES ASSUME InductiveInv, writeStarting PROVE Phases'
  OBVIOUS
<1>1. inst \in Op /\ pc = "writeStarting" /\ opCache' = opCache /\ pc' = "sync"
  BY DEF InductiveInv, TypeOK, WorkerOK, writeStarting, caches
<1>2. /\ inst.life = "live" /\ WellFormed(inst.status) /\ ~IsDone(inst.status)
      /\ inst.status.last \in Condition
  BY <1>1 DEF InductiveInv, RuntimePhase, StatusesWellFormed, Writing, LastKnown
<1>3. inst' = inst
  <2>1. CASE Put(inst) /\ inst' = op'
    BY <1>1, <1>2, <2>1, PutStores
  <2> QED
    BY <2>1 DEF writeStarting
<1>4. /\ WellFormed(op'.status) /\ (op'.life = "deleting" => op'.fins # {})
      /\ Put(inst) => op' = inst
  <2>1. CASE Put(inst)
    BY <1>1, <1>2, <2>1, PutStores
  <2>2. CASE op' = op
    BY <1>1, <1>2, <2>2, PutStores DEF InductiveInv, StatusesWellFormed, Lives
  <2> QED
    BY <2>1, <2>2 DEF writeStarting, cluster
<1>5. CopiesCurrent'
  <2>1. CASE Current /\ Put(inst) /\ Keep(Unchanged \cup {"inst"})
    BY <1>1, <1>3, <1>4, <2>1 DEF InductiveInv, CopiesCurrent, Keep, Unchanged, OpCopies
  <2>2. CASE Put(inst) /\ Keep(Unchanged) /\ then' = "error"
    BY <1>1, <1>2, <1>3, <1>4, <2>2
       DEF InductiveInv, CopiesCurrent, Keep, Unchanged, OpCopies, Writing
  <2>3. CASE then' = "error" /\ UNCHANGED <<cluster, current>>
    BY <1>1, <1>3, <2>3 DEF InductiveInv, CopiesCurrent, cluster
  <2> QED
    BY <2>1, <2>2, <2>3 DEF writeStarting
<1>6. LastKnown' /\ RuntimePhase' /\ EndingPhase'
  BY <1>1, <1>2, <1>3
     DEF LastKnown, Writing, Continues, Runtime, Ending, RuntimePhase, EndingPhase
<1>7. Lives' /\ StatusesWellFormed'
  BY <1>1, <1>2, <1>3, <1>4 DEF InductiveInv, Lives, StatusesWellFormed
<1> QED
  BY <1>5, <1>6, <1>7 DEF Phases

\* Ending a reconciliation without a write.
LEMMA QuietEndPhases ==
  ASSUME InductiveInv, Forget, UNCHANGED <<op, opCache>>, Keep(current)
  PROVE  Phases'
<1>1. "inst" \notin current' /\ ("opCache" \in current' => "opCache" \in current)
  BY DEF Forget, Keep
<1>2. WellFormed(op'.status) /\ (op'.life = "deleting" => op'.fins # {})
  BY DEF InductiveInv, StatusesWellFormed, Lives
<1> QED
  BY <1>1, <1>2, EndPhases, InvParts

\* A step that only moves the reconciler on.
LEMMA MovePhases ==
  ASSUME InductiveInv, UNCHANGED <<op, opCache, inst, then>>, pc' # "idle",
         current' \cap OpCopies = current \cap OpCopies,
         ~(pc = "idle"), pc \notin Writing \cup {"sync"}, pc' \notin Writing \cup {"sync"},
         pc' \in Runtime => inst.life = "live" /\ ~IsDone(inst.status),
         pc' \in Ending => inst.life = "deleting" \/ IsDone(inst.status),
         pc' = "cleanup" => inst.life = "live",
         pc' = "removeFinalizer" /\ "logs" \in inst.fins => collected'
  PROVE  Phases'
<1>1. /\ "opCache" \in current' <=> "opCache" \in current
      /\ "inst" \in current' <=> "inst" \in current
  BY DEF OpCopies
<1>2. CopiesCurrent'
  BY <1>1 DEF InductiveInv, CopiesCurrent
<1>3. LastKnown' /\ RuntimePhase' /\ EndingPhase'
  BY DEF LastKnown, RuntimePhase, EndingPhase, Writing, Continues
<1>4. Lives' /\ StatusesWellFormed'
  BY DEF InductiveInv, Lives, StatusesWellFormed
<1> QED
  BY <1>2, <1>3, <1>4 DEF Phases

\* After instanceSyncStatus the copies still say what the reconciler relies on.
LEMMA instanceSyncStatusPhases == InductiveInv /\ instanceSyncStatus => Phases'
<1> SUFFICES ASSUME InductiveInv, instanceSyncStatus PROVE Phases'
  OBVIOUS
<1>1. /\ pc = "sync" /\ UNCHANGED <<op, opCache>> /\ Keep(current)
  BY DEF instanceSyncStatus, cluster, caches
<1>2. CASE Forget
  BY <1>1, <1>2, QuietEndPhases
<1>3. CASE then = "checkStatus" /\ Goto("checkStatus") /\ inst' = inst
  <2>1. /\ pc' = "checkStatus" /\ then' = then /\ current' = current
        /\ inst.life = "live" /\ ~IsDone(inst.status)
    BY <1>1, <1>3 DEF Goto, Keep, InductiveInv, RuntimePhase, Continues
  <2>2. CopiesCurrent'
    BY <1>1, <1>3, <2>1 DEF InductiveInv, CopiesCurrent, Writing
  <2>3. LastKnown' /\ RuntimePhase' /\ EndingPhase'
    BY <1>3, <2>1 DEF LastKnown, RuntimePhase, EndingPhase, Writing, Runtime, Ending, Continues
  <2>4. Lives' /\ StatusesWellFormed'
    BY <1>1, <1>3 DEF InductiveInv, Lives, StatusesWellFormed
  <2> QED
    BY <2>2, <2>3, <2>4 DEF Phases
<1> QED
  BY <1>2, <1>3 DEF instanceSyncStatus, Return, ReturnError

\* After handleFinalizersStop the copies still say what the reconciler relies on.
LEMMA handleFinalizersStopPhases == InductiveInv /\ handleFinalizersStop => Phases'
<1> SUFFICES ASSUME InductiveInv, handleFinalizersStop PROVE Phases'
  OBVIOUS
<1>1. /\ pc = "syncStopped" /\ pc' = "collect" /\ UNCHANGED <<op, opCache, inst, then, current>>
  BY DEF handleFinalizersStop, Goto, cluster, caches
<1>2. inst.life = "deleting" \/ IsDone(inst.status)
  BY <1>1 DEF InductiveInv, EndingPhase, Ending
<1> QED
  BY <1>1, <1>2, MovePhases DEF Writing, Runtime

\* After collectLogs the copies still say what the reconciler relies on.
LEMMA collectLogsPhases == InductiveInv /\ collectLogs => Phases'
<1> SUFFICES ASSUME InductiveInv, collectLogs PROVE Phases'
  OBVIOUS
<1>1. pc = "collect" /\ UNCHANGED <<op, opCache>> /\ Keep(current)
  BY DEF collectLogs, cluster, caches
<1>2. inst \in Op /\ inst.life # "gone" /\ (inst.life = "deleting" \/ IsDone(inst.status))
  BY <1>1 DEF InductiveInv, TypeOK, WorkerOK, EndingPhase, Ending, Lives
<1>3. CASE AfterFinalizers
  <2>1. CASE inst.life = "deleting"
    BY <1>1, <1>3, <2>1, QuietEndPhases DEF AfterFinalizers, Return
  <2>2. CASE inst.life # "deleting"
    <3>1. pc' = "cleanup" /\ inst' = inst /\ then' = then /\ current' = current
      BY <1>1, <1>3, <2>2 DEF AfterFinalizers, Goto, Keep
    <3>2. inst.life = "live"
      BY <1>2, <2>2 DEF Op
    <3> QED
      BY <1>1, <1>2, <2>2, <3>1, <3>2, MovePhases DEF Writing, Runtime
  <2> QED
    BY <2>1, <2>2
<1>4. CASE /\ Goto("removeFinalizer") /\ inst' = inst
           /\ "logs" \in inst.fins => collected'
  <2>1. pc' = "removeFinalizer" /\ then' = then /\ current' = current
    BY <1>1, <1>4 DEF Goto, Keep
  <2> QED
    BY <1>1, <1>2, <1>4, <2>1, MovePhases DEF Writing, Runtime
<1> QED
  BY <1>3, <1>4, Zenon DEF collectLogs

\* After handleTTL the copies still say what the reconciler relies on.
LEMMA handleTTLPhases == InductiveInv /\ handleTTL => Phases'
<1> SUFFICES ASSUME InductiveInv, handleTTL PROVE Phases'
  OBVIOUS
<1>1. opCache' = opCache /\ Forget /\ pc' = "idle"
  BY DEF handleTTL, Return, ReturnError, Forget, caches
<1>2. CASE DeleteOp /\ Keep(Unchanged)
  <2>1. [op EXCEPT !.life = "deleting"] \in Op /\ WellFormed([op EXCEPT !.life = "deleting"].status)
    BY DEF InductiveInv, TypeOK, ClusterOK, Op, StatusesWellFormed
  <2>2. WellFormed(op'.status) /\ (op'.life = "deleting" => op'.fins # {})
    BY <1>2, <2>1, PutStores DEF DeleteOp
  <2>3. "inst" \notin current' /\ ("opCache" \in current' => "opCache" \in current /\ op' = op)
    BY <1>1, <1>2 DEF Keep, Unchanged, OpCopies
  <2> QED
    BY <1>1, <2>2, <2>3, EndPhases, InvParts
<1>3. CASE Keep(current) /\ UNCHANGED cluster
  BY <1>1, <1>3, QuietEndPhases DEF cluster
<1> QED
  BY <1>2, <1>3 DEF handleTTL

\* After updateJob the copies still say what the reconciler relies on.
LEMMA updateJobPhases == InductiveInv /\ updateJob => Phases'
<1> SUFFICES ASSUME InductiveInv, updateJob PROVE Phases'
  OBVIOUS
<1>1. pc = "updateJob" /\ UNCHANGED <<op, opCache>> /\ Keep(current)
  BY DEF updateJob, cluster, caches
<1>2. inst.life = "live" /\ ~IsDone(inst.status)
  BY <1>1 DEF InductiveInv, RuntimePhase, Runtime
<1>3. CASE Goto("checkStatus") /\ inst' = inst
  <2>1. pc' = "checkStatus" /\ then' = then /\ current' = current
    BY <1>1, <1>3 DEF Goto, Keep
  <2> QED
    BY <1>1, <1>2, <1>3, <2>1, MovePhases DEF Writing, Ending
<1>4. CASE ReturnError
  BY <1>1, <1>4, QuietEndPhases DEF ReturnError
<1> QED
  BY <1>3, <1>4 DEF updateJob

\* The reconciler logs a condition on its copy and goes on to write it.
LEMMA LogPhases ==
  ASSUME InductiveInv, pc \in Runtime, UNCHANGED <<op, opCache>>,
         NEW new \in OperationStatusType, inst' = [inst EXCEPT !.status = new],
         new.last \in Condition, WellFormed(new),
         \/ pc' = "write" /\ then' # "checkStatus"
         \/ pc' = "writeStarting" /\ ~IsDone(new),
         current' \cap OpCopies = current \cap OpCopies
  PROVE  Phases'
<1>1. /\ "opCache" \in current' <=> "opCache" \in current
      /\ "inst" \in current' <=> "inst" \in current
  BY DEF OpCopies
<1>2. inst \in Op /\ inst'.status = new /\ inst'.life = inst.life /\ inst'.fins = inst.fins
  BY DEF InductiveInv, TypeOK, WorkerOK, Op
<1>3. inst.life = "live" /\ ~IsDone(inst.status) /\ pc' \in Writing /\ pc \notin Writing \cup {"sync"}
  BY DEF InductiveInv, RuntimePhase, Writing, Runtime
<1>4. "inst" \in current' => ~IsDone(op.status)
  BY <1>1, <1>3 DEF InductiveInv, CopiesCurrent
<1>5. CopiesCurrent'
  BY <1>1, <1>2, <1>3 DEF InductiveInv, CopiesCurrent, Writing
<1>6. LastKnown' /\ RuntimePhase' /\ EndingPhase'
  BY <1>2, <1>3, <1>4
     DEF LastKnown, RuntimePhase, EndingPhase, Writing, Runtime, Ending, Continues
<1>7. Lives' /\ StatusesWellFormed'
  BY <1>2, <1>3 DEF InductiveInv, Lives, StatusesWellFormed
<1> QED
  BY <1>5, <1>6, <1>7 DEF Phases

\* After getJob the copies still say what the reconciler relies on.
LEMMA getJobPhases == InductiveInv /\ getJob => Phases'
<1> SUFFICES ASSUME InductiveInv, getJob PROVE Phases'
  OBVIOUS
<1>1. pc = "getJob" /\ UNCHANGED <<op, opCache>>
  BY DEF getJob, cluster, caches
<1>2. /\ inst.status \in OperationStatusType /\ inst.life = "live" /\ ~IsDone(inst.status)
  BY <1>1 DEF InductiveInv, TypeOK, WorkerOK, Op, RuntimePhase, Runtime
<1>3. CASE /\ pc' = "updateJob" /\ UNCHANGED <<inst, then>>
           /\ Keep(IF "jobCache" \in current THEN current \cup {"found"} ELSE current)
  <2>1. current' \cap OpCopies = current \cap OpCopies
    BY <1>3 DEF Keep, OpCopies
  <2> QED
    BY <1>1, <1>2, <1>3, <2>1, MovePhases DEF Writing, Ending
<1>4. CASE /\ inst' = [inst EXCEPT !.status = MarkJobAsDeleted(@)]
           /\ pc' = "write" /\ then' = "done" /\ UNCHANGED current
  <2>1. /\ MarkJobAsDeleted(inst.status) \in OperationStatusType
        /\ MarkJobAsDeleted(inst.status).last \in Condition
        /\ WellFormed(MarkJobAsDeleted(inst.status))
    BY <1>2, LogTypes, LogLast, LogUnfinished DEF Reasons
  <2> QED
    BY <1>1, <1>4, <2>1, LogPhases DEF Runtime
<1>5. CASE pc' = "createJob" /\ UNCHANGED <<inst, then, current>>
  BY <1>1, <1>2, <1>5, MovePhases DEF Writing, Ending
<1> QED
  BY <1>3, <1>4, <1>5 DEF getJob

\* After createJob the copies still say what the reconciler relies on.
LEMMA createJobPhases == InductiveInv /\ createJob => Phases'
<1> SUFFICES ASSUME InductiveInv, createJob PROVE Phases'
  OBVIOUS
<1>1. pc = "createJob" /\ UNCHANGED <<op, opCache>>
  BY DEF createJob, caches
<1>2. /\ inst.status \in OperationStatusType /\ inst.life = "live" /\ ~IsDone(inst.status)
  BY <1>1 DEF InductiveInv, TypeOK, WorkerOK, Op, RuntimePhase, Runtime
<1>3. \/ Keep(current) \/ Keep(current \ JobCopies)
  BY DEF createJob
<1>4. pc' # "idle" => current' \cap OpCopies = current \cap OpCopies
  BY <1>3 DEF Keep, OpCopies, JobCopies
<1>5. CASE inst' = [inst EXCEPT !.status = LogStarting(@)] /\ Goto("writeStarting")
  <2>1. /\ LogStarting(inst.status) \in OperationStatusType
        /\ LogStarting(inst.status).last \in Condition
        /\ WellFormed(LogStarting(inst.status)) /\ ~IsDone(LogStarting(inst.status))
    BY <1>2, LogTypes, LogLast, LogUnfinished DEF Reasons
  <2>2. pc' = "writeStarting"
    BY <1>5 DEF Goto
  <2> QED
    BY <1>1, <1>4, <1>5, <2>1, <2>2, LogPhases DEF Runtime
<1>6. CASE CreateFailed
  <2>1. CASE Forget
    <3>1. "inst" \notin current' /\ ("opCache" \in current' => "opCache" \in current)
      BY <1>3, <2>1 DEF Forget, Keep
    <3>2. WellFormed(op'.status) /\ (op'.life = "deleting" => op'.fins # {})
      BY <1>1 DEF InductiveInv, StatusesWellFormed, Lives
    <3> QED
      BY <1>1, <2>1, <3>1, <3>2, EndPhases, InvParts
  <2>2. CASE /\ inst' = [inst EXCEPT !.status = LogWarning(inst.status, "OperatorCreateJob")]
             /\ pc' = "write" /\ then' = "error"
    <3>1. "OperatorCreateJob" \in Reasons
      BY DEF Reasons
    <3>2. /\ LogWarning(inst.status, "OperatorCreateJob") \in OperationStatusType
          /\ LogWarning(inst.status, "OperatorCreateJob").last \in Condition
          /\ WellFormed(LogWarning(inst.status, "OperatorCreateJob"))
      BY <1>2, <3>1, LogTypes, LogLast, LogUnfinished
    <3> QED
      BY <1>1, <1>4, <2>2, <3>2, LogPhases DEF Runtime
  <2> QED
    BY <1>6, <2>1, <2>2 DEF CreateFailed, ReturnError
<1> QED
  BY <1>5, <1>6 DEF createJob

\* After checkStatus the copies still say what the reconciler relies on.
LEMMA checkStatusPhases == InductiveInv /\ checkStatus => Phases'
<1> SUFFICES ASSUME InductiveInv, checkStatus PROVE Phases'
  OBVIOUS
<1>1. pc = "checkStatus" /\ UNCHANGED <<op, opCache>> /\ Keep(current)
  BY DEF checkStatus, cluster, caches
<1>2. /\ inst.status \in OperationStatusType /\ found.status \in JobStatus /\ ~IsDone(inst.status)
  BY <1>1 DEF InductiveInv, TypeOK, WorkerOK, Op, BatchJob, RuntimePhase, Runtime
<1>3. CASE Forget
  BY <1>1, <1>3, QuietEndPhases
<1>4. CASE ~Forget
  <2>1. PICK podList :
          /\ reconcileJobStatus(inst.status, found.status, podList) # inst.status
          /\ inst' = [inst EXCEPT !.status =
                        reconcileJobStatus(inst.status, found.status, podList)]
          /\ pc' = "write" /\ then' = "done"
    BY <1>4 DEF checkStatus, Return
  <2> DEFINE new == reconcileJobStatus(inst.status, found.status, podList)
  <2>2. new \in OperationStatusType /\ new.last \in Condition /\ WellFormed(new)
    BY <1>2, <2>1, DecidedType, DecidedWellFormed
  <2>3. current' = current
    BY <1>1, <2>1 DEF Keep
  <2> HIDE DEF new
  <2>4. inst' = [inst EXCEPT !.status = new]
    BY <2>1 DEF new
  <2> QED
    BY <1>1, <2>1, <2>2, <2>3, <2>4, LogPhases DEF Runtime
<1> QED
  BY <1>3, <1>4

\* The caches, the timers, a restart and the cluster leave the reconciler's
\* knowledge valid: a copy they make stale stops being current.
LEMMA EnvironmentPhases ==
  InductiveInv /\ (Watch \/ Resync \/ RequeueAfter \/ Crash \/ World) => Phases'
<1> SUFFICES ASSUME InductiveInv, Watch \/ Resync \/ RequeueAfter \/ Crash \/ World
             PROVE  Phases'
  OBVIOUS
<1>1. CASE WatchOp
  <2>1. /\ opCache' = op /\ UNCHANGED <<op, pc, inst, then, collected>>
        /\ "inst" \in current' <=> "inst" \in current
    BY <1>1 DEF WatchOp, cluster, local, worker, plane
  <2> QED
    BY <2>1 DEF InductiveInv, Phases, LastKnown, CopiesCurrent, RuntimePhase, EndingPhase,
                Lives, StatusesWellFormed, Continues
<1>2. CASE Crash
  <2>1. opCache' = op /\ op' = op /\ pc' = "idle" /\ inst' = NewOp /\ "inst" \notin current'
    BY <1>2 DEF Crash, Forget, cluster
  <2>2. NewOp.life = "live" /\ WellFormed(NewOp.status)
    BY DEF NewOp, NewStatus, WellFormed, Outcomes, IsDone
  <2>3. LastKnown' /\ CopiesCurrent' /\ RuntimePhase' /\ EndingPhase'
    BY <2>1 DEF LastKnown, CopiesCurrent, RuntimePhase, EndingPhase, Continues, Writing, Runtime,
                Ending
  <2>4. Lives' /\ StatusesWellFormed'
    BY <2>1, <2>2 DEF InductiveInv, Lives, StatusesWellFormed
  <2> QED
    BY <2>3, <2>4 DEF Phases
<1>3. CASE UserDeletes
  <2>1. /\ UNCHANGED <<opCache, pc, inst, then, collected>> /\ DeleteOp
        /\ "opCache" \notin current' /\ "inst" \notin current'
    BY <1>3 DEF UserDeletes, caches, local, worker, plane, OpCopies
  <2>2. [op EXCEPT !.life = "deleting"] \in Op /\ WellFormed([op EXCEPT !.life = "deleting"].status)
    BY DEF InductiveInv, TypeOK, ClusterOK, Op, StatusesWellFormed
  <2>3. WellFormed(op'.status) /\ (op'.life = "deleting" => op'.fins # {})
    BY <2>1, <2>2, PutStores DEF DeleteOp
  <2>4. LastKnown' /\ CopiesCurrent' /\ RuntimePhase' /\ EndingPhase'
    BY <2>1 DEF InductiveInv, LastKnown, CopiesCurrent, RuntimePhase, EndingPhase, Continues
  <2>5. Lives' /\ StatusesWellFormed'
    BY <2>1, <2>3 DEF InductiveInv, Lives, StatusesWellFormed
  <2> QED
    BY <2>4, <2>5 DEF Phases
<1>4. CASE WatchJob \/ mapPodToRequest \/ Resync \/ RequeueAfter \/ TTLPasses
  <2>1. UNCHANGED <<op, opCache, pc, inst, then, collected>>
    BY <1>4 DEF WatchJob, mapPodToRequest, Resync, RequeueAfter, TTLPasses, cluster, caches,
                local, worker, plane
  <2>2. current' \cap OpCopies = current \cap OpCopies
    BY <1>4 DEF WatchJob, mapPodToRequest, Resync, RequeueAfter, TTLPasses, OpCopies, JobCopies
  <2> QED
    BY <2>1, <2>2, AsidePhases, InvParts
<1>5. CASE PodMoves \/ JobStartsPod \/ JobCounts \/ JobDeadline \/ JobTTL \/ JobDeleted
           \/ JobCollected
  <2>1. UNCHANGED kubelet /\ (current' = current \/ current' = current \ JobCopies)
    BY <1>5 DEF PodMoves, JobStartsPod, JobCounts, JobDeadline, JobTTL, JobDeleted,
                JobCollected, DropJob, SetJobStatus
  <2>2. UNCHANGED <<op, opCache, pc, inst, then, collected>>
    BY <2>1 DEF kubelet, caches, worker, plane
  <2>3. current' \cap OpCopies = current \cap OpCopies
    BY <2>1 DEF OpCopies, JobCopies
  <2> QED
    BY <2>2, <2>3, AsidePhases, InvParts
<1> QED
  BY <1>1, <1>2, <1>3, <1>4, <1>5 DEF Watch, World

\* Every step keeps the inductive invariant.
LEMMA NextInv == InductiveInv /\ [Next]_vars => InductiveInv'
<1> SUFFICES ASSUME InductiveInv, [Next]_vars PROVE TypeOK' /\ Phases'
  BY InvParts, PTL
<1>0. TypeOK /\ LastKnown /\ Phases
  BY InvParts DEF InductiveInv
<1>1. CASE Fetch
  BY <1>0, <1>1, FetchType, FetchPhases
<1>2. CASE AddStartTime
  BY <1>0, <1>2, AddStartTimeType, AddStartTimePhases
<1>3. CASE AddLogsFinalizer
  BY <1>0, <1>3, AddLogsFinalizerType, AddFinalizerPhases DEF AddLogsFinalizer, Finalizers
<1>4. CASE AddStatusFinalizer
  BY <1>0, <1>4, AddStatusFinalizerType, AddFinalizerPhases DEF AddStatusFinalizer, Finalizers
<1>5. CASE handleFinalizersStop
  BY <1>0, <1>5, handleFinalizersStopType, handleFinalizersStopPhases
<1>6. CASE collectLogs
  BY <1>0, <1>6, collectLogsType, collectLogsPhases
<1>7. CASE removeFinalizer
  BY <1>0, <1>7, removeFinalizerType, removeFinalizerPhases
<1>8. CASE handleTTL
  BY <1>0, <1>8, handleTTLType, handleTTLPhases
<1>9. CASE getJob
  BY <1>0, <1>9, getJobType, getJobPhases
<1>10. CASE createJob
  BY <1>0, <1>10, createJobType, createJobPhases
<1>11. CASE writeStarting
  BY <1>0, <1>11, writeStartingType, writeStartingPhases
<1>12. CASE updateJob
  BY <1>0, <1>12, updateJobType, updateJobPhases
<1>13. CASE checkStatus
  BY <1>0, <1>13, checkStatusType, checkStatusPhases
<1>14. CASE writeStatus
  BY <1>0, <1>14, writeStatusType, writeStatusPhases
<1>15. CASE instanceSyncStatus
  BY <1>0, <1>15, instanceSyncStatusType, instanceSyncStatusPhases
<1>16. CASE Watch \/ Resync \/ RequeueAfter \/ Crash \/ World
  <2>1. Phases'
    BY <1>16, EnvironmentPhases
  <2>2. TypeOK'
    BY <1>0, <1>16, WatchType, CrashType, UserDeletesType, PodMovesType, JobStartsPodType,
       JobCountsType, JobDeadlineType, DropJobType
       DEF Watch, World
  <2> QED
    BY <2>1, <2>2
<1>17. CASE UNCHANGED vars
  <2>1. UNCHANGED <<op, opCache, pc, inst, then, collected, current>>
    BY <1>17 DEF vars, cluster, caches, worker, plane
  <2>2. Phases'
    BY <1>0, <2>1, AsidePhases
  <2>3. TypeOK'
    BY <1>0, <1>17 DEF TypeOK, ClusterOK, CachesOK, WorkerOK, PlaneOK, CountsOK, vars, cluster,
                       caches, worker, plane
  <2> QED
    BY <2>2, <2>3
<1> QED
  BY <1>1, <1>2, <1>3, <1>4, <1>5, <1>6, <1>7, <1>8, <1>9, <1>10, <1>11, <1>12, <1>13, <1>14,
     <1>15, <1>16, <1>17
     DEF Next, Reconcile

\* The invariant holds in every reachable state of the controller, whatever the
\* configuration, the number of failures and restarts, and the pods do.
THEOREM Invariance == Spec => []InductiveInv
<1>1. Init => InductiveInv
  BY InitType, InitPhases, InvParts
<1> QED
  BY <1>1, NextInv, PTL DEF Spec

\* Type correctness: instanceSyncStatus always has a last condition to report.
THEOREM TypeCorrect == Spec => []TypeOK
<1>1. InductiveInv => TypeOK
  BY DEF InductiveInv
<1> QED
  BY <1>1, Invariance, PTL

\* An operation ends once, with a CompletionTime, and handleTTL never sees a
\* finished operation without one.
THEOREM OneOutcomeHolds == Spec => []OneOutcome
<1>1. InductiveInv => OneOutcome
  <2> SUFFICES ASSUME InductiveInv PROVE OneOutcome
    OBVIOUS
  <2>1. WellFormed(op.status) /\ WellFormed(inst.status)
    BY DEF InductiveInv, StatusesWellFormed
  <2>2. pc = "cleanup" => IsDone(inst.status)
    BY DEF InductiveInv, EndingPhase, Ending
  <2> QED
    BY <2>1, <2>2 DEF OneOutcome, WellFormed
<1> QED
  BY <1>1, Invariance, PTL

(***************************************************************************)
(* The controller implements OperationLifecycle: each step is a step of    *)
(* the abstract operation or leaves it as it is.                           *)
(***************************************************************************)
LifecycleStep == [Abstract!LifecycleNext]_(Abstract!abstractVars)

\* The outcome of a finished operation is its one final condition.
LEMMA OutcomeValue ==
  /\ ~IsDone(op.status) => Outcome = "none"
  /\ IsDone(op.status) => Outcome \in FinalTypes /\ Outcome # "none"
BY DEF Outcome, IsDone, FinalTypes

\* A step that keeps the recorded conditions keeps the outcome.
LEMMA SameOutcome == op'.status.has = op.status.has => Outcome' = Outcome
BY DEF Outcome, IsDone

\* A step that leaves the resource and the collection alone is a stutter.
LEMMA Stutters == op' = op /\ collected' = collected => LifecycleStep
<1> SUFFICES ASSUME op' = op, collected' = collected PROVE LifecycleStep
  OBVIOUS
<1>1. Outcome' = Outcome
  BY SameOutcome
<1> QED
  BY <1>1 DEF LifecycleStep, Abstract!abstractVars

\* A write changes nothing or stores what the reconciler made of a current copy.
LEMMA WriteStores ==
  ASSUME NEW new \in Op, NEW ACTION After, Write(new, After)
  PROVE  op' = op \/ (Put(new) /\ op.life # "gone" /\ "inst" \in current)
BY DEF Write, Current, cluster

\* AddStartTime is a step of OperationLifecycle or a stutter.
LEMMA AddStartTimeStep == InductiveInv /\ AddStartTime => LifecycleStep
<1> SUFFICES ASSUME InductiveInv, AddStartTime PROVE LifecycleStep
  OBVIOUS
<1> DEFINE new == [inst EXCEPT !.status.start = TRUE]
<1>1. inst \in Op /\ pc = "addStart" /\ collected' = collected
  BY DEF InductiveInv, TypeOK, WorkerOK, AddStartTime, plane
<1>2. /\ new \in Op /\ new.life = inst.life /\ new.fins = inst.fins
      /\ new.status.has = inst.status.has
  BY <1>1 DEF Op, OperationStatusType
<1>3. Write(new, inst' = op' /\ Goto(Dispatch(new)))
  BY DEF AddStartTime
<1> HIDE DEF new
<1>4. CASE Put(new) /\ op.life # "gone" /\ "inst" \in current
  <2>1. new.life = op.life /\ new.fins = op.fins /\ inst.status = op.status
    BY <1>1, <1>2, <1>4 DEF InductiveInv, CopiesCurrent, Writing
  <2>2. op' = new
    BY <1>2, <1>4, <2>1, PutStores DEF InductiveInv, Lives
  <2>3. Outcome' = Outcome
    BY <1>2, <2>1, <2>2, SameOutcome
  <2> QED
    BY <1>1, <2>1, <2>2, <2>3 DEF LifecycleStep, Abstract!abstractVars
<1> QED
  BY <1>1, <1>2, <1>3, <1>4, WriteStores, Stutters

\* AddFinalizer is a step of OperationLifecycle or a stutter.
LEMMA AddFinalizerStep ==
  ASSUME InductiveInv, NEW label \in {"addLogs", "addStatus"}, NEW finalizer \in Finalizers,
         AddFinalizer(label, finalizer)
  PROVE  LifecycleStep
<1> DEFINE new == [inst EXCEPT !.fins = @ \cup {finalizer}]
<1>1. inst \in Op /\ pc \in Runtime /\ collected' = collected
  BY DEF InductiveInv, TypeOK, WorkerOK, AddFinalizer, plane, Runtime
<1>2. /\ new \in Op /\ new.status = inst.status /\ new.life = "live"
      /\ ~IsDone(inst.status) /\ ("logs" \in inst.fins => "logs" \in new.fins)
  BY <1>1 DEF Op, InductiveInv, RuntimePhase
<1>3. Write(new, inst' = op' /\ Goto(Dispatch(new)))
  BY DEF AddFinalizer
<1> HIDE DEF new
<1>4. CASE Put(new) /\ op.life # "gone" /\ "inst" \in current
  <2>1. /\ inst.life = op.life /\ inst.fins = op.fins /\ inst.status = op.status
        /\ op.life = "live"
    BY <1>1, <1>4 DEF InductiveInv, CopiesCurrent, RuntimePhase, Writing, Runtime
  <2>2. op' = new
    BY <1>2, <1>4, PutStores
  <2>3. Outcome' = Outcome /\ Outcome = "none"
    BY <1>2, <2>1, <2>2, SameOutcome, OutcomeValue
  <2>4. /\ op'.life = op.life
        /\ "logs" \in op.fins => "logs" \in op'.fins
    BY <1>2, <2>1, <2>2
  <2>5. CASE "logs" \in op'.fins /\ "logs" \notin op.fins
    BY <1>1, <2>1, <2>3, <2>4, <2>5 DEF LifecycleStep, Abstract!LifecycleNext, Abstract!Hold
  <2>6. CASE ("logs" \in op'.fins) = ("logs" \in op.fins)
    BY <1>1, <2>3, <2>4, <2>6 DEF LifecycleStep, Abstract!abstractVars
  <2> QED
    BY <2>4, <2>5, <2>6
<1> QED
  BY <1>1, <1>2, <1>3, <1>4, WriteStores, Stutters

\* collectLogs is a step of OperationLifecycle or a stutter.
LEMMA collectLogsStep == InductiveInv /\ collectLogs => LifecycleStep
<1> SUFFICES ASSUME InductiveInv, collectLogs PROVE LifecycleStep
  OBVIOUS
<1>1. op' = op /\ Outcome' = Outcome
  BY SameOutcome DEF collectLogs, cluster
<1>2. CASE collected' = collected
  BY <1>1, <1>2, Stutters
<1>3. CASE collected' = TRUE /\ ~collected
  BY <1>1, <1>3 DEF LifecycleStep, Abstract!LifecycleNext, Abstract!Collect
<1>4. collected \in BOOLEAN /\ (collected' = collected \/ collected' = TRUE)
  BY Zenon DEF collectLogs, InductiveInv, TypeOK, PlaneOK
<1> QED
  BY <1>2, <1>3, <1>4, Zenon

\* The logs finalizer goes only after the collection, and an operation goes only
\* with its last finalizer.
LEMMA removeFinalizerStep == InductiveInv /\ removeFinalizer => LifecycleStep
<1> SUFFICES ASSUME InductiveInv, removeFinalizer PROVE LifecycleStep
  OBVIOUS
<1> DEFINE first == IF "logs" \in inst.fins THEN "logs" ELSE "status"
           new   == [inst EXCEPT !.fins = @ \ {first}]
           After == IF inst.life = "deleting" THEN Return ELSE inst' = op' /\ Goto("cleanup")
<1>1. inst \in Op /\ pc = "removeFinalizer" /\ collected' = collected
  BY DEF InductiveInv, TypeOK, WorkerOK, removeFinalizer, plane
<1>2. /\ new \in Op /\ new.life = inst.life /\ new.status = inst.status
      /\ "logs" \notin new.fins
  BY <1>1 DEF Op
<1>3. Write(new, After)
  BY DEF removeFinalizer
<1> HIDE DEF new, After
<1>4. CASE Put(new) /\ op.life # "gone" /\ "inst" \in current
  <2>1. inst.life = op.life /\ inst.fins = op.fins /\ inst.status = op.status
    BY <1>1, <1>4 DEF InductiveInv, CopiesCurrent, Writing
  <2>2. /\ op'.status = op.status /\ "logs" \notin op'.fins
        /\ op'.life = op.life \/ (op.life = "deleting" /\ op'.life = "gone")
    BY <1>2, <1>4, <2>1, PutStores
  <2>3. Outcome' = Outcome
    BY <2>2, SameOutcome
  <2>4. CASE "logs" \in op.fins
    <3>1. collected /\ (Outcome # "none" \/ op.life = "deleting")
      BY <1>1, <2>1, <2>4, OutcomeValue DEF InductiveInv, EndingPhase, Ending
    <3> QED
      BY <1>1, <2>2, <2>3, <2>4, <3>1 DEF LifecycleStep, Abstract!LifecycleNext, Abstract!Release
  <2>5. CASE "logs" \notin op.fins
    <3>1. ("logs" \in op.fins) = FALSE /\ ("logs" \in op'.fins) = FALSE
      BY <2>2, <2>5
    <3>2. CASE op'.life = op.life
      BY <1>1, <2>3, <3>1, <3>2 DEF LifecycleStep, Abstract!abstractVars
    <3>3. CASE op'.life = "gone"
      BY <1>1, <1>4, <2>3, <3>1, <3>3 DEF LifecycleStep, Abstract!LifecycleNext, Abstract!Remove
    <3> QED
      BY <2>2, <3>2, <3>3
  <2> QED
    BY <2>4, <2>5
<1> QED
  BY <1>1, <1>2, <1>3, <1>4, WriteStores, Stutters

\* A status is stored only over an unfinished, live operation.
LEMMA StatusStep ==
  ASSUME InductiveInv, pc \in Writing, Put(inst), op.life # "gone", "inst" \in current,
         collected' = collected
  PROVE  LifecycleStep
<1>1. inst \in Op /\ inst.life = "live"
  BY DEF InductiveInv, TypeOK, WorkerOK, RuntimePhase
<1>2. op' = inst /\ inst.life = op.life /\ inst.fins = op.fins /\ ~IsDone(op.status)
  BY <1>1, PutStores DEF InductiveInv, CopiesCurrent, RuntimePhase
<1>3. Outcome = "none" /\ (~IsDone(op'.status) => Outcome' = "none")
      /\ (IsDone(op'.status) => Outcome' \in FinalTypes)
  BY <1>2, OutcomeValue DEF Outcome, IsDone, FinalTypes
<1>4. op'.life = op.life /\ ("logs" \in op'.fins) = ("logs" \in op.fins)
  BY <1>2
<1>5. CASE IsDone(op'.status)
  BY <1>1, <1>2, <1>3, <1>4, <1>5
     DEF LifecycleStep, Abstract!LifecycleNext, Abstract!Finish, FinalTypes
<1>6. CASE ~IsDone(op'.status)
  BY <1>3, <1>4, <1>6 DEF LifecycleStep, Abstract!abstractVars
<1> QED
  BY <1>5, <1>6

\* A deletion marks the operation, or removes it when it has no finalizer.
LEMMA DeleteStep ==
  ASSUME InductiveInv, DeleteOp, collected' = collected
  PROVE  LifecycleStep
<1> DEFINE new == [op EXCEPT !.life = "deleting"]
<1>1. op \in Op /\ op.life # "gone" /\ Put(new)
  BY DEF InductiveInv, TypeOK, ClusterOK, DeleteOp
<1>2. new \in Op /\ new.fins = op.fins /\ new.status = op.status /\ new.life = "deleting"
  BY <1>1 DEF Op
<1> HIDE DEF new
<1>3. /\ op'.fins = op.fins /\ op'.status = op.status
      /\ op.fins # {} => op'.life = "deleting"
      /\ op.fins = {} => op'.life = "gone"
  BY <1>1, <1>2, PutStores
<1>4. Outcome' = Outcome /\ ("logs" \in op'.fins) = ("logs" \in op.fins)
  BY <1>3, SameOutcome
<1>5. CASE op.fins = {}
  BY <1>1, <1>3, <1>4, <1>5 DEF LifecycleStep, Abstract!LifecycleNext, Abstract!Remove
<1>6. CASE op.fins # {} /\ op.life = "live"
  BY <1>3, <1>4, <1>6 DEF LifecycleStep, Abstract!LifecycleNext, Abstract!RequestDeletion
<1>7. CASE op.fins # {} /\ op.life = "deleting"
  BY <1>3, <1>4, <1>7 DEF LifecycleStep, Abstract!abstractVars
<1> QED
  BY <1>1, <1>5, <1>6, <1>7 DEF Op

\* Every step of the controller is a step of OperationLifecycle or a stutter.
LEMMA StepSimulates == InductiveInv /\ [Next]_vars => LifecycleStep
<1> SUFFICES ASSUME InductiveInv, [Next]_vars PROVE LifecycleStep
  OBVIOUS
<1>1. CASE AddStartTime
  BY <1>1, AddStartTimeStep
<1>2. CASE AddLogsFinalizer \/ AddStatusFinalizer
  BY <1>2, AddFinalizerStep DEF AddLogsFinalizer, AddStatusFinalizer, Finalizers
<1>3. CASE collectLogs
  BY <1>3, collectLogsStep
<1>4. CASE removeFinalizer
  BY <1>4, removeFinalizerStep
<1>5. CASE writeStatus
  <2>1. inst \in Op /\ pc \in Writing /\ collected' = collected
    BY <1>5 DEF writeStatus, InductiveInv, TypeOK, WorkerOK, Writing, plane
  <2>2. Write(inst, inst' = op' /\ Goto("sync"))
    BY <1>5 DEF writeStatus
  <2> QED
    BY <2>1, <2>2, WriteStores, StatusStep, Stutters
<1>6. CASE writeStarting
  <2>1. pc \in Writing /\ collected' = collected
    BY <1>6 DEF writeStarting, Writing, plane
  <2>2. op' = op \/ (Put(inst) /\ op.life # "gone" /\ "inst" \in current)
    BY <1>6 DEF writeStarting, Current, cluster
  <2> QED
    BY <2>1, <2>2, StatusStep, Stutters
<1>7. CASE handleTTL
  <2>1. collected' = collected /\ (op' = op \/ DeleteOp)
    BY <1>7 DEF handleTTL, plane, cluster
  <2> QED
    BY <2>1, DeleteStep, Stutters
<1>8. CASE UserDeletes
  <2>1. collected' = collected /\ DeleteOp
    BY <1>8 DEF UserDeletes, local, plane
  <2> QED
    BY <2>1, DeleteStep
<1>9. CASE Fetch \/ handleFinalizersStop \/ getJob \/ createJob \/ updateJob \/ checkStatus
           \/ instanceSyncStatus
  BY <1>9, Stutters
     DEF Fetch, handleFinalizersStop, getJob, createJob, updateJob, checkStatus,
         instanceSyncStatus, syncStatus, cluster, plane
<1>10. CASE Watch \/ Resync \/ RequeueAfter \/ Crash \/ TTLPasses
  BY <1>10, Stutters
     DEF Watch, WatchOp, WatchJob, mapPodToRequest, Resync, RequeueAfter, Crash, TTLPasses,
         cluster, local, plane
<1>11. CASE PodMoves \/ JobStartsPod \/ JobCounts \/ JobDeadline \/ JobTTL \/ JobDeleted
            \/ JobCollected
  BY <1>11, Stutters
     DEF PodMoves, JobStartsPod, JobCounts, JobDeadline, JobTTL, JobDeleted, JobCollected,
         DropJob, kubelet, plane
<1>12. CASE UNCHANGED vars
  BY <1>12, Stutters DEF vars, cluster, plane
<1> QED
  BY <1>1, <1>2, <1>3, <1>4, <1>5, <1>6, <1>7, <1>8, <1>9, <1>10, <1>11, <1>12
     DEF Next, Reconcile, World

\* The controller implements OperationLifecycle for every configuration.
THEOREM Refinement == Spec => Lifecycle
<1>1. Init => Abstract!LifecycleInit
  BY DEF Init, Abstract!LifecycleInit, Outcome, IsDone, NewOp, NewStatus
<1>2. InductiveInv /\ [Next]_vars => [Abstract!LifecycleNext]_(Abstract!abstractVars)
  BY StepSimulates DEF LifecycleStep
<1> QED
  BY <1>1, <1>2, Invariance, PTL DEF Spec, Lifecycle, Abstract!LifecycleSpec

(***************************************************************************)
(* What a step does to the stored operation and to the copies of it.       *)
(***************************************************************************)
\* The final conditions of a well-formed status are its outcome.
LEMMA OutcomesValue ==
  ASSUME NEW status, WellFormed(status)
  PROVE  Outcomes(status) =
           IF IsDone(status) THEN {CHOOSE t \in FinalTypes : t \in status.has} ELSE {}
<1>1. CASE IsDone(status)
  <2> DEFINE u == CHOOSE t \in FinalTypes : t \in status.has
  <2>1. \E t \in FinalTypes : t \in status.has
    BY <1>1 DEF IsDone
  <2>2. u \in FinalTypes /\ u \in status.has
    BY <2>1
  <2> HIDE DEF u
  <2>3. u \in Outcomes(status) /\ \A t \in Outcomes(status) : t = u
    BY <2>2 DEF Outcomes, WellFormed
  <2>4. Outcomes(status) = {u}
    BY <2>3
  <2> QED
    BY <1>1, <2>4 DEF u
<1>2. CASE ~IsDone(status)
  BY <1>2 DEF IsDone, Outcomes
<1> QED
  BY <1>1, <1>2

\* A deletion request is never taken back, an outcome never changes, and none is
\* recorded once a deletion has been asked for.
LEMMA OpSteps ==
  ASSUME InductiveInv, [Next]_vars
  PROVE  /\ op.life # "live" => op'.life # "live"
         /\ op.life = "gone" => op'.life = "gone"
         /\ IsDone(op.status) => Outcomes(op'.status) = Outcomes(op.status)
         /\ Outcomes(op'.status) # Outcomes(op.status) => op.life = "live" /\ op'.life = "live"
<1>1. WellFormed(op.status) /\ WellFormed(op'.status)
  BY NextInv DEF InductiveInv, StatusesWellFormed
<1>2. LifecycleStep
  BY StepSimulates
<1>3. /\ op.life # "live" => op'.life # "live"
      /\ op.life = "gone" => op'.life = "gone"
      /\ Outcome # "none" => Outcome' = Outcome
      /\ Outcome' # Outcome => op.life = "live" /\ op'.life = "live"
  BY <1>2
     DEF LifecycleStep, Abstract!LifecycleNext, Abstract!abstractVars, Abstract!Finish,
         Abstract!Hold, Abstract!Collect, Abstract!RequestDeletion, Abstract!Release,
         Abstract!Remove
<1>4. /\ Outcomes(op.status) = IF Outcome = "none" THEN {} ELSE {Outcome}
      /\ Outcomes(op'.status) = IF Outcome' = "none" THEN {} ELSE {Outcome'}
  BY <1>1, OutcomesValue DEF Outcome, IsDone, FinalTypes
<1>5. IsDone(op.status) => Outcome # "none"
  BY OutcomeValue
<1> QED
  BY <1>3, <1>4, <1>5

\* The cache keeps its copy of the operation or takes the stored one.
LEMMA CacheSteps ==
  ASSUME [Next]_vars
  PROVE  opCache' = opCache \/ (opCache' = op /\ op' = op)
<1>1. CASE WatchOp \/ Crash
  BY <1>1 DEF WatchOp, Crash, cluster
<1>2. CASE Reconcile
  BY <1>2
     DEF Reconcile, Fetch, AddStartTime, AddLogsFinalizer, AddStatusFinalizer, AddFinalizer,
         handleFinalizersStop, collectLogs, removeFinalizer, handleTTL, getJob, createJob,
         writeStarting, updateJob, checkStatus, writeStatus, instanceSyncStatus, caches
<1>3. CASE WatchJob \/ mapPodToRequest \/ Resync \/ RequeueAfter
  BY <1>3 DEF WatchJob, mapPodToRequest, Resync, RequeueAfter, caches
<1>4. CASE World
  BY <1>4
     DEF World, UserDeletes, PodMoves, JobStartsPod, JobCounts, JobDeadline, JobTTL, JobDeleted,
         JobCollected, TTLPasses, DropJob, kubelet, caches
<1>5. CASE UNCHANGED vars
  BY <1>5 DEF vars, caches
<1> QED
  BY <1>1, <1>2, <1>3, <1>4, <1>5 DEF Next, Watch

\* The reconciler's copy is forgotten, fetched, the answer of a write, kept, or
\* one of a live operation with a new status that is to be written.
InstStep ==
  \/ inst' = NewOp /\ pc' = "idle"
  \/ inst' = opCache /\ op' = op /\ pc' # "write"
  \/ inst' = op' /\ pc' # "write"
  \/ inst' = inst /\ (pc' = "write" <=> pc = "write")
  \/ /\ pc \in Runtime /\ pc' \in Writing /\ inst'.life = inst.life /\ op' = op
     /\ inst'.status.last.type \in inst'.status.has

\* What is logged is listed.
LEMMA LogListed ==
  ASSUME NEW status \in OperationStatusType, NEW why
  PROVE  /\ LogStarting(status).last.type \in LogStarting(status).has
         /\ LogRunning(status).last.type \in LogRunning(status).has
         /\ LogWarning(status, why).last.type \in LogWarning(status, why).has
         /\ LogSucceeded(status).last.type \in LogSucceeded(status).has
         /\ LogFailed(status, why).last.type \in LogFailed(status, why).has
         /\ MarkJobAsDeleted(status).last.type \in MarkJobAsDeleted(status).has
<1>1. \A type, w :
         /\ logCondition(status, type, w).last.type = type
         /\ logCondition(status, type, w).has = status.has \cup {type}
         /\ [logCondition(status, type, w) EXCEPT !.completion = TRUE].last.type = type
         /\ [logCondition(status, type, w) EXCEPT !.completion = TRUE].has = status.has \cup {type}
  BY DEF logCondition, NewOperationCondition, OperationStatusType
<1> QED
  BY <1>1 DEF LogStarting, LogRunning, LogWarning, LogSucceeded, LogFailed,
                    MarkJobAsDeleted, LogStopped

\* The status decided is the old one, or what it logs is listed.
LEMMA DecidedListed ==
  ASSUME NEW status \in OperationStatusType, NEW st, NEW podList,
         reconcileJobStatus(status, st, podList) # status
  PROVE  LET new == reconcileJobStatus(status, st, podList)
         IN  new.last.type \in new.has
BY LogListed DEF reconcileJobStatus

\* A write of the reconciler forgets its copy or replaces it by the stored one.
LEMMA WriteInst ==
  ASSUME NEW new, NEW ACTION After, Write(new, After)
  PROVE  After \/ (inst' = NewOp /\ pc' = "idle")
BY DEF Write, ReturnError, Forget

\* Every step changes the reconciler's copy in one of these ways.
LEMMA InstSteps ==
  ASSUME InductiveInv, [Next]_vars
  PROVE  InstStep
<1>0. inst \in Op
  BY DEF InductiveInv, TypeOK, WorkerOK
<1>1. CASE Fetch
  BY <1>1 DEF Fetch, InstStep, Dispatch, worker, cluster
<1>2. CASE AddStartTime
  <2>1. Dispatch([inst EXCEPT !.status.start = TRUE]) # "write"
    BY DEF Dispatch
  <2> QED
    BY <1>2, <2>1, WriteInst DEF AddStartTime, InstStep, Goto
<1>3. CASE AddLogsFinalizer \/ AddStatusFinalizer
  <2>1. \A new : Dispatch(new) # "write"
    BY DEF Dispatch
  <2>2. PICK finalizer : Write([inst EXCEPT !.fins = @ \cup {finalizer}],
                   inst' = op' /\ Goto(Dispatch([inst EXCEPT !.fins = @ \cup {finalizer}])))
    BY <1>3 DEF AddLogsFinalizer, AddStatusFinalizer, AddFinalizer
  <2> QED
    BY <2>1, <2>2, WriteInst DEF InstStep, Goto
<1>4. CASE removeFinalizer
  <2>1. \/ inst' = NewOp /\ pc' = "idle"
        \/ inst' = op' /\ Goto("cleanup")
    BY <1>4, WriteInst DEF removeFinalizer, Return, Forget
  <2> QED
    BY <2>1 DEF InstStep, Goto
<1>5. CASE writeStatus
  BY <1>5, WriteInst DEF writeStatus, InstStep, Goto
<1>6. CASE writeStarting
  BY <1>6 DEF writeStarting, InstStep
<1>7. CASE handleTTL
  BY <1>7 DEF handleTTL, InstStep, Return, ReturnError, Forget
<1>8. CASE handleFinalizersStop \/ collectLogs \/ updateJob \/ instanceSyncStatus
  BY <1>8
     DEF handleFinalizersStop, collectLogs, AfterFinalizers, updateJob, instanceSyncStatus,
         InstStep, Goto, Return, ReturnError, Forget
<1>9. CASE getJob
  BY <1>0, <1>9, LogListed DEF getJob, InstStep, Runtime, Writing, cluster, Op
<1>10. CASE createJob
  <2>1. \/ inst' = NewOp /\ pc' = "idle"
        \/ /\ pc' \in Writing /\ inst'.life = inst.life
           /\ inst'.status.last.type \in inst'.status.has
    BY <1>0, <1>10, LogListed DEF createJob, CreateFailed, ReturnError, Forget, Goto, Writing, Op
  <2> QED
    BY <1>10, <2>1 DEF createJob, InstStep, Runtime
<1>11. CASE checkStatus
  <2>1. \/ inst' = NewOp /\ pc' = "idle"
        \/ /\ pc' = "write"
           /\ \E new : inst' = [inst EXCEPT !.status = new] /\ new.last.type \in new.has
    BY <1>0, <1>11, DecidedListed DEF checkStatus, Return, Forget, Op
  <2> QED
    BY <1>0, <1>11, <2>1 DEF checkStatus, InstStep, Runtime, Writing, cluster, Op
<1>12. CASE Watch \/ Resync \/ RequeueAfter \/ TTLPasses
  BY <1>12
     DEF Watch, WatchOp, WatchJob, mapPodToRequest, Resync, RequeueAfter, TTLPasses, InstStep,
         local, worker
<1>13. CASE Crash
  BY <1>13 DEF Crash, Forget, InstStep
<1>14. CASE UserDeletes
  BY <1>14 DEF UserDeletes, local, worker, InstStep
<1>15. CASE PodMoves \/ JobStartsPod \/ JobCounts \/ JobDeadline \/ JobTTL \/ JobDeleted
            \/ JobCollected
  BY <1>15
     DEF PodMoves, JobStartsPod, JobCounts, JobDeadline, JobTTL, JobDeleted, JobCollected,
         DropJob, kubelet, worker, InstStep
<1>16. CASE UNCHANGED vars
  BY <1>16 DEF vars, worker, InstStep
<1> QED
  BY <1>1, <1>2, <1>3, <1>4, <1>5, <1>6, <1>7, <1>8, <1>9, <1>10, <1>11, <1>12, <1>13, <1>14,
     <1>15, <1>16
     DEF Next, Reconcile, World

(***************************************************************************)
(* The parts of ReportInv, each with the step lemmas above.                *)
(***************************************************************************)
\* The operation never falls behind a copy of it.
LEMMA NextCopiesOlder ==
  ASSUME InductiveInv, CopiesOlder, [Next]_vars
  PROVE  CopiesOlder'
<1>1. /\ op.life # "live" => op'.life # "live"
      /\ IsDone(op.status) => Outcomes(op'.status) = Outcomes(op.status)
      /\ Outcomes(op'.status) # Outcomes(op.status) => op.life = "live" /\ op'.life = "live"
  BY OpSteps
<1>2. \A status : IsDone(status) <=> Outcomes(status) # {}
  BY DEF IsDone, Outcomes
<1>3. Older(opCache)' /\ Agrees(opCache.status)'
  BY <1>1, <1>2, CacheSteps DEF CopiesOlder, Older, Agrees
<1>4. Older(inst)' /\ (pc' # "write" => Agrees(inst.status)')
  <2>1. CASE inst' = NewOp
    <3>1. inst'.life = "live" /\ ~IsDone(inst'.status)
      BY <2>1 DEF NewOp, NewStatus, IsDone
    <3> QED
      BY <3>1 DEF Older, Agrees
  <2>2. CASE inst' = opCache /\ op' = op
    BY <2>2 DEF CopiesOlder, Older, Agrees
  <2>3. CASE inst' = op'
    BY <2>3 DEF Older, Agrees
  <2>4. CASE inst' = inst /\ (pc' = "write" <=> pc = "write")
    BY <1>1, <1>2, <2>4 DEF CopiesOlder, Older, Agrees
  <2>5. CASE pc \in Runtime /\ pc' \in Writing /\ inst'.life = inst.life
    <3>1. inst'.life = "live"
      BY <2>5 DEF InductiveInv, RuntimePhase
    <3>2. pc' = "writeStarting" => ~IsDone(inst'.status)
      BY NextInv DEF InductiveInv, RuntimePhase
    <3> QED
      BY <2>5, <3>1, <3>2 DEF Older, Agrees, Writing
  <2> QED
    BY <2>1, <2>2, <2>3, <2>4, <2>5, InstSteps DEF InstStep
<1> QED
  BY <1>3, <1>4 DEF CopiesOlder

\* What is stored: the conditions stay or are those of a current copy that is
\* written, and only removeFinalizer takes a finalizer away.
OpStep ==
  /\ \/ op'.status.has = op.status.has /\ op'.status.last = op.status.last
     \/ pc \in Writing /\ op'.status = inst.status /\ op' = inst
  /\ held' \ op'.fins \subseteq held \ op.fins \/ pc = "removeFinalizer"
  /\ op'.life = "gone" => op'.fins = {} \/ op' = op

\* A write changes nothing or stores what was made of a current copy.
LEMMA WriteKeeps ==
  ASSUME NEW new, NEW ACTION After, Write(new, After)
  PROVE  \/ op' = op /\ held' = held
         \/ Put(new) /\ op.life # "gone" /\ "inst" \in current
BY DEF Write, Current, cluster

\* Every step stores something of this kind or nothing.
LEMMA OpStores ==
  ASSUME InductiveInv, [Next]_vars
  PROVE  OpStep
<1>0. op \in Op /\ inst \in Op
  BY DEF InductiveInv, TypeOK, ClusterOK, WorkerOK
<1>1. CASE op' = op /\ held' = held
  BY <1>1 DEF OpStep
<1>2. ASSUME NEW new \in Op, Put(new)
      PROVE  /\ op'.fins = new.fins /\ op'.status = new.status
             /\ held' = held \cup new.fins
             /\ op'.life = "gone" /\ new.life # "gone" => op'.fins = {}
  BY <1>2, PutStores DEF Put
<1>3. CASE AddStartTime
  <2> DEFINE new == [inst EXCEPT !.status.start = TRUE]
  <2>1. /\ new \in Op /\ new.fins = inst.fins /\ new.life = inst.life
        /\ new.status.has = inst.status.has /\ new.status.last = inst.status.last
    BY <1>0 DEF Op, OperationStatusType
  <2>2. Write(new, inst' = op' /\ Goto(Dispatch(new))) /\ pc = "addStart"
    BY <1>3 DEF AddStartTime
  <2> HIDE DEF new
  <2>3. CASE Put(new) /\ op.life # "gone" /\ "inst" \in current
    <3>1. inst.fins = op.fins /\ inst.status = op.status /\ inst.life # "gone"
      BY <2>2, <2>3 DEF InductiveInv, CopiesCurrent, Writing, Lives
    <3> QED
      BY <1>2, <2>1, <2>3, <3>1 DEF OpStep
  <2> QED
    BY <1>1, <2>2, <2>3, WriteKeeps
<1>4. CASE AddLogsFinalizer \/ AddStatusFinalizer
  <2>1. PICK finalizer \in Finalizers :
          Write([inst EXCEPT !.fins = @ \cup {finalizer}],
                inst' = op' /\ Goto(Dispatch([inst EXCEPT !.fins = @ \cup {finalizer}])))
    BY <1>4 DEF AddLogsFinalizer, AddStatusFinalizer, AddFinalizer, Finalizers
  <2> DEFINE new == [inst EXCEPT !.fins = @ \cup {finalizer}]
  <2>2. /\ new \in Op /\ new.fins = inst.fins \cup {finalizer} /\ new.life = inst.life
        /\ new.status = inst.status
    BY <1>0 DEF Op
  <2>3. Write(new, inst' = op' /\ Goto(Dispatch(new))) /\ pc \in {"addLogs", "addStatus"}
    BY <1>4, <2>1 DEF AddLogsFinalizer, AddStatusFinalizer, AddFinalizer
  <2> HIDE DEF new
  <2>4. CASE Put(new) /\ op.life # "gone" /\ "inst" \in current
    <3>1. inst.fins = op.fins /\ inst.status = op.status /\ inst.life # "gone"
      BY <2>3, <2>4 DEF InductiveInv, CopiesCurrent, Writing, Lives
    <3> QED
      BY <1>2, <2>2, <2>4, <3>1 DEF OpStep
  <2> QED
    BY <1>1, <2>3, <2>4, WriteKeeps
<1>5. CASE removeFinalizer
  <2> DEFINE first == IF "logs" \in inst.fins THEN "logs" ELSE "status"
             new   == [inst EXCEPT !.fins = @ \ {first}]
             After == IF inst.life = "deleting" THEN Return ELSE inst' = op' /\ Goto("cleanup")
  <2>1. new \in Op /\ new.life = inst.life /\ new.status = inst.status
    BY <1>0 DEF Op
  <2>2. Write(new, After) /\ pc = "removeFinalizer"
    BY <1>5 DEF removeFinalizer
  <2> HIDE DEF new, After
  <2>3. CASE Put(new) /\ op.life # "gone" /\ "inst" \in current
    <3>1. inst.status = op.status /\ inst.life # "gone"
      BY <2>2, <2>3 DEF InductiveInv, CopiesCurrent, Writing, Lives
    <3> QED
      BY <1>2, <2>1, <2>2, <2>3, <3>1 DEF OpStep
  <2> QED
    BY <1>1, <2>2, <2>3, WriteKeeps
<1>6. CASE writeStatus \/ writeStarting
  <2>1. /\ pc \in Writing
        /\ \/ op' = op /\ held' = held
           \/ Put(inst) /\ op.life # "gone" /\ "inst" \in current
    BY <1>6, WriteKeeps DEF writeStatus, writeStarting, Current, cluster, Writing
  <2>2. CASE Put(inst) /\ op.life # "gone" /\ "inst" \in current
    <3>1. inst.fins = op.fins /\ inst.life = "live"
      BY <2>1, <2>2 DEF InductiveInv, CopiesCurrent, RuntimePhase
    <3>2. op' = inst
      BY <1>0, <2>2, <3>1, PutStores
    <3> QED
      BY <1>0, <1>2, <2>1, <2>2, <3>1, <3>2 DEF OpStep
  <2> QED
    BY <1>1, <2>1, <2>2
<1>7. CASE handleTTL \/ UserDeletes
  <2> DEFINE new == [op EXCEPT !.life = "deleting"]
  <2>1. new \in Op /\ new.fins = op.fins /\ new.status = op.status /\ new.life = "deleting"
    BY <1>0 DEF Op
  <2>2. (op' = op /\ held' = held) \/ Put(new)
    BY <1>7 DEF handleTTL, UserDeletes, DeleteOp, cluster
  <2> HIDE DEF new
  <2> QED
    BY <1>1, <1>2, <2>1, <2>2 DEF OpStep
<1>8. CASE Fetch \/ handleFinalizersStop \/ collectLogs \/ getJob \/ createJob \/ updateJob
           \/ checkStatus \/ instanceSyncStatus
  BY <1>1, <1>8
     DEF Fetch, handleFinalizersStop, collectLogs, getJob, createJob, updateJob, checkStatus,
         instanceSyncStatus, cluster
<1>9. CASE Watch \/ Resync \/ RequeueAfter \/ Crash \/ TTLPasses
  BY <1>1, <1>9
     DEF Watch, WatchOp, WatchJob, mapPodToRequest, Resync, RequeueAfter, Crash, TTLPasses, cluster
<1>10. CASE PodMoves \/ JobStartsPod \/ JobCounts \/ JobDeadline \/ JobTTL \/ JobDeleted
            \/ JobCollected
  BY <1>1, <1>10
     DEF PodMoves, JobStartsPod, JobCounts, JobDeadline, JobTTL, JobDeleted, JobCollected,
         DropJob, kubelet
<1>11. CASE UNCHANGED vars
  BY <1>1, <1>11 DEF vars, cluster
<1> QED
  BY <1>3, <1>4, <1>5, <1>6, <1>7, <1>8, <1>9, <1>10, <1>11 DEF Next, Reconcile, World

\* A final condition that is the last is still listed.
LEMMA NextLastListed ==
  ASSUME InductiveInv, LastListed, [Next]_vars
  PROVE  LastListed'
<1> DEFINE Listed(status) == status.last.type \in FinalTypes => status.last.type \in status.has
<1>1. Listed(op.status) /\ Listed(opCache.status) /\ Listed(inst.status)
  BY DEF LastListed
<1>2. Listed(op'.status)
  BY <1>1, OpStores DEF OpStep
<1>3. Listed(opCache'.status)
  BY <1>1, CacheSteps
<1>4. Listed(inst'.status)
  <2>1. Listed(NewOp.status)
    BY DEF NewOp, NewStatus, NoCondition, FinalTypes
  <2> QED
    BY <1>1, <1>2, <2>1, InstSteps DEF InstStep
<1> QED
  BY <1>2, <1>3, <1>4 DEF LastListed

\* Only the dispatch of a resource deleted unfinished leads to syncStopped.
LEMMA NextStoppedPhase ==
  ASSUME InductiveInv, StoppedPhase, [Next]_vars
  PROVE  StoppedPhase'
<1>0. inst \in Op /\ opCache \in Op
  BY DEF InductiveInv, TypeOK, CachesOK, WorkerOK
<1>1. \A new : Dispatch(new) = "syncStopped" => new.life = "deleting" /\ ~IsDone(new.status)
  BY DEF Dispatch
<1>2. CASE pc' = pc /\ inst' = inst
  BY <1>2 DEF StoppedPhase
<1>3. CASE pc' # "syncStopped"
  BY <1>3 DEF StoppedPhase
<1>4. CASE Fetch
  BY <1>1, <1>2, <1>4 DEF Fetch, StoppedPhase, worker
<1>5. CASE AddStartTime
  <2> DEFINE new == [inst EXCEPT !.status.start = TRUE]
  <2>1. /\ new \in Op /\ new.life = inst.life /\ new.fins = inst.fins
        /\ IsDone(new.status) = IsDone(inst.status)
    BY <1>0 DEF Op, OperationStatusType, IsDone
  <2>2. Write(new, inst' = op' /\ Goto(Dispatch(new))) /\ pc = "addStart"
    BY <1>5 DEF AddStartTime
  <2> HIDE DEF new
  <2>3. CASE Current /\ Put(new) /\ inst' = op' /\ Goto(Dispatch(new))
    <3>1. op' = new
      BY <2>1, <2>2, <2>3, PutStores DEF Current, InductiveInv, CopiesCurrent, Lives
    <3> QED
      BY <1>1, <2>3, <3>1 DEF Goto, StoppedPhase
  <2> QED
    BY <1>3, <2>2, <2>3 DEF Write, ReturnError, Forget
<1>6. CASE AddLogsFinalizer \/ AddStatusFinalizer
  <2>1. PICK finalizer \in Finalizers :
          Write([inst EXCEPT !.fins = @ \cup {finalizer}],
                inst' = op' /\ Goto(Dispatch([inst EXCEPT !.fins = @ \cup {finalizer}])))
    BY <1>6 DEF AddLogsFinalizer, AddStatusFinalizer, AddFinalizer, Finalizers
  <2>2. pc \in Runtime
    BY <1>6 DEF AddLogsFinalizer, AddStatusFinalizer, AddFinalizer, Runtime
  <2>3. [inst EXCEPT !.fins = @ \cup {finalizer}].life = "live"
    BY <1>0, <2>2 DEF InductiveInv, RuntimePhase, Op
  <2>4. pc' # "syncStopped"
    BY <1>1, <2>1, <2>3, WriteInst DEF Goto
  <2> QED
    BY <1>3, <2>4
<1>7. CASE removeFinalizer \/ writeStatus
  <2>1. pc' \in {"idle", "cleanup", "sync"}
    BY <1>7, WriteInst DEF removeFinalizer, writeStatus, Goto, Return, Forget
  <2> QED
    BY <1>3, <2>1
<1>8. CASE handleTTL \/ getJob \/ createJob \/ writeStarting \/ updateJob \/ checkStatus
  BY <1>3, <1>8
     DEF handleTTL, getJob, createJob, CreateFailed, writeStarting, updateJob, checkStatus, Goto,
         Return, ReturnError, Forget
<1>9. CASE handleFinalizersStop \/ collectLogs \/ instanceSyncStatus \/ Crash
  BY <1>3, <1>9
     DEF handleFinalizersStop, collectLogs, AfterFinalizers, instanceSyncStatus, Crash, Goto,
         Return, ReturnError, Forget
<1>10. CASE Watch \/ Resync \/ RequeueAfter \/ TTLPasses \/ UserDeletes
  BY <1>2, <1>10
     DEF Watch, WatchOp, WatchJob, mapPodToRequest, Resync, RequeueAfter, TTLPasses, UserDeletes,
         local, worker
<1>11. CASE PodMoves \/ JobStartsPod \/ JobCounts \/ JobDeadline \/ JobTTL \/ JobDeleted
            \/ JobCollected
  BY <1>2, <1>11
     DEF PodMoves, JobStartsPod, JobCounts, JobDeadline, JobTTL, JobDeleted, JobCollected,
         DropJob, kubelet, worker
<1>12. CASE UNCHANGED vars
  BY <1>2, <1>12 DEF vars, worker
<1> QED
  BY <1>4, <1>5, <1>6, <1>7, <1>8, <1>9, <1>10, <1>11, <1>12 DEF Next, Reconcile, World

\* A report leaves the stored operation alone and is of the last condition of the
\* reconciler's copy, or of Stopped.
ReportStep ==
  \/ reported' = reported
  \/ /\ op' = op
     /\ \E t : /\ reported' = reported \cup {t}
               /\ \/ pc = "sync" /\ t = inst.status.last.type
                  \/ pc = "syncStopped" /\ t = "Stopped"

\* Every step reports in this way or not at all.
LEMMA ReportSteps ==
  ASSUME [Next]_vars
  PROVE  ReportStep
<1>1. CASE instanceSyncStatus
  BY <1>1 DEF instanceSyncStatus, syncStatus, ReportStep, cluster, plane
<1>2. CASE handleFinalizersStop
  BY <1>2 DEF handleFinalizersStop, syncStatus, ReportStep, cluster, plane
<1>3. CASE Fetch \/ AddStartTime \/ AddLogsFinalizer \/ AddStatusFinalizer \/ collectLogs
           \/ removeFinalizer \/ handleTTL \/ getJob \/ createJob \/ writeStarting \/ updateJob
           \/ checkStatus \/ writeStatus
  BY <1>3
     DEF Fetch, AddStartTime, AddLogsFinalizer, AddStatusFinalizer, AddFinalizer, collectLogs,
         removeFinalizer, handleTTL, getJob, createJob, writeStarting, updateJob, checkStatus,
         writeStatus, ReportStep, plane
<1>4. CASE Watch \/ Resync \/ RequeueAfter \/ Crash \/ TTLPasses \/ UserDeletes
  BY <1>4
     DEF Watch, WatchOp, WatchJob, mapPodToRequest, Resync, RequeueAfter, Crash, TTLPasses,
         UserDeletes, ReportStep, local, plane
<1>5. CASE PodMoves \/ JobStartsPod \/ JobCounts \/ JobDeadline \/ JobTTL \/ JobDeleted
            \/ JobCollected
  BY <1>5
     DEF PodMoves, JobStartsPod, JobCounts, JobDeadline, JobTTL, JobDeleted, JobCollected,
         DropJob, ReportStep, kubelet, plane
<1>6. CASE UNCHANGED vars
  BY <1>6 DEF vars, plane, ReportStep
<1> QED
  BY <1>1, <1>2, <1>3, <1>4, <1>5, <1>6 DEF Next, Reconcile, World

\* What the control plane has heard of the end stays true, and what it hears is.
LEMMA NextReportedOutcome ==
  ASSUME InductiveInv, CopiesOlder, LastListed, StoppedPhase, ReportedOutcome, [Next]_vars
  PROVE  ReportedOutcome'
<1>1. \A status : \A t \in FinalTypes : t \in Outcomes(status) <=> t \in status.has
  BY DEF Outcomes
<1>2. \A status : IsDone(status) <=> Outcomes(status) # {}
  BY DEF IsDone, Outcomes
<1>3. CASE reported' = reported
  <2> SUFFICES ASSUME NEW t \in reported \cap FinalTypes
               PROVE  IF IsDone(op'.status) THEN t \in op'.status.has
                      ELSE op'.life # "live" /\ t = "Stopped"
    BY <1>3 DEF ReportedOutcome
  <2>1. IF IsDone(op.status) THEN t \in op.status.has ELSE op.life # "live" /\ t = "Stopped"
    BY DEF ReportedOutcome
  <2> QED
    BY <1>1, <1>2, <2>1, OpSteps
<1>4. CASE op' = op /\ pc = "sync" /\ reported' = reported \cup {inst.status.last.type}
  <2>1. inst.status.last.type \in FinalTypes => inst.status.last.type \in Outcomes(op.status)
    BY <1>1, <1>2, <1>4 DEF LastListed, CopiesOlder, Agrees
  <2> QED
    BY <1>1, <1>2, <1>4, <2>1 DEF ReportedOutcome
<1>5. CASE op' = op /\ pc = "syncStopped" /\ reported' = reported \cup {"Stopped"}
  <2>1. ~IsDone(op.status) /\ op.life # "live"
    BY <1>5 DEF StoppedPhase, CopiesOlder, Older
  <2> QED
    BY <1>5, <2>1 DEF ReportedOutcome
<1> QED
  BY <1>3, <1>4, <1>5, ReportSteps DEF ReportStep

\* Failures and restarts are only counted up.
LEMMA CountSteps ==
  ASSUME TypeOK, [Next]_vars
  PROVE  /\ faults' = 0 => faults = 0
         /\ crashes' = 0 => crashes = 0
         /\ removals' = 0 => removals = 0
<1>0. faults \in Nat /\ crashes \in Nat /\ removals \in Nat
  BY DEF TypeOK, CountsOK
<1>1. CASE Fetch \/ handleFinalizersStop \/ collectLogs \/ handleTTL \/ getJob \/ createJob
           \/ updateJob \/ checkStatus \/ instanceSyncStatus \/ writeStarting
  BY <1>0, <1>1
     DEF Fetch, handleFinalizersStop, collectLogs, handleTTL, getJob, createJob, updateJob,
         checkStatus, instanceSyncStatus, writeStarting, syncStatus, Fail
<1>2. CASE AddStartTime \/ AddLogsFinalizer \/ AddStatusFinalizer \/ removeFinalizer \/ writeStatus
  BY <1>0, <1>2
     DEF AddStartTime, AddLogsFinalizer, AddStatusFinalizer, AddFinalizer, removeFinalizer,
         writeStatus, Write, Fail
<1>3. CASE Watch \/ Resync \/ RequeueAfter \/ Crash \/ TTLPasses \/ UserDeletes
  BY <1>0, <1>3
     DEF Watch, WatchOp, WatchJob, mapPodToRequest, Resync, RequeueAfter, Crash, TTLPasses,
         UserDeletes, local
<1>4. CASE PodMoves \/ JobStartsPod \/ JobCounts \/ JobDeadline \/ JobTTL \/ JobDeleted
            \/ JobCollected
  <2>1. /\ UNCHANGED <<faults, crashes>>
        /\ removals' = removals \/ removals' = removals + 1
    BY <1>4
       DEF PodMoves, JobStartsPod, JobCounts, JobDeadline, JobTTL, JobDeleted, JobCollected,
           DropJob, kubelet
  <2> QED
    BY <1>0, <2>1
<1>5. CASE UNCHANGED vars
  BY <1>5 DEF vars
<1> QED
  BY <1>1, <1>2, <1>3, <1>4, <1>5 DEF Next, Reconcile, World

\* At "sync" the reconciler reports, or a restart interrupts it.
LEMMA SyncSteps ==
  ASSUME TypeOK, pc = "sync", [Next]_vars
  PROVE  instanceSyncStatus \/ crashes' # 0 \/ (pc' = pc /\ inst' = inst)
<1>0. crashes \in Nat
  BY DEF TypeOK, CountsOK
<1>1. CASE Reconcile
  BY <1>1
     DEF Reconcile, Fetch, AddStartTime, AddLogsFinalizer, AddStatusFinalizer, AddFinalizer,
         handleFinalizersStop, collectLogs, removeFinalizer, handleTTL, getJob, createJob,
         writeStarting, updateJob, checkStatus, writeStatus
<1>2. CASE Crash
  BY <1>0, <1>2 DEF Crash
<1>3. CASE Watch \/ Resync \/ RequeueAfter \/ TTLPasses \/ UserDeletes
  BY <1>3
     DEF Watch, WatchOp, WatchJob, mapPodToRequest, Resync, RequeueAfter, TTLPasses, UserDeletes,
         local, worker
<1>4. CASE PodMoves \/ JobStartsPod \/ JobCounts \/ JobDeadline \/ JobTTL \/ JobDeleted
            \/ JobCollected
  BY <1>4
     DEF PodMoves, JobStartsPod, JobCounts, JobDeadline, JobTTL, JobDeleted, JobCollected,
         DropJob, kubelet, worker
<1>5. CASE UNCHANGED vars
  BY <1>5 DEF vars, worker
<1> QED
  BY <1>1, <1>2, <1>3, <1>4, <1>5 DEF Next, World

\* The labels on the way to the removal of the operation.
Leaving == {"collect", "removeFinalizer", "cleanup"}

\* They are entered after the report of Stopped or with a finished copy.
LEMMA LeavingSteps ==
  ASSUME InductiveInv, pc' \in Leaving, [Next]_vars
  PROVE  \/ pc \in Leaving \/ handleFinalizersStop
         \/ pc \in {"idle", "addStart"} /\ IsDone(inst'.status)
<1>0. inst \in Op
  BY DEF InductiveInv, TypeOK, WorkerOK
<1>1. \A new : Dispatch(new) \in Leaving => IsDone(new.status)
  BY DEF Dispatch, Leaving
<1>2. CASE Fetch
  BY <1>1, <1>2 DEF Fetch, Leaving, worker
<1>3. CASE AddStartTime
  <2> DEFINE new == [inst EXCEPT !.status.start = TRUE]
  <2>1. new \in Op
    BY <1>0 DEF Op, OperationStatusType
  <2>2. Write(new, inst' = op' /\ Goto(Dispatch(new))) /\ pc = "addStart"
    BY <1>3 DEF AddStartTime
  <2> HIDE DEF new
  <2>3. Put(new) /\ inst' = op' /\ pc' = Dispatch(new)
    BY <2>2 DEF Write, ReturnError, Forget, Leaving, Goto
  <2> QED
    BY <1>1, <2>1, <2>2, <2>3, PutStores
<1>4. CASE AddLogsFinalizer \/ AddStatusFinalizer
  <2>1. PICK finalizer \in Finalizers :
          Write([inst EXCEPT !.fins = @ \cup {finalizer}],
                inst' = op' /\ Goto(Dispatch([inst EXCEPT !.fins = @ \cup {finalizer}])))
    BY <1>4 DEF AddLogsFinalizer, AddStatusFinalizer, AddFinalizer, Finalizers
  <2>2. pc \in Runtime
    BY <1>4 DEF AddLogsFinalizer, AddStatusFinalizer, AddFinalizer, Runtime
  <2>3. ~IsDone([inst EXCEPT !.fins = @ \cup {finalizer}].status)
    BY <1>0, <2>2 DEF InductiveInv, RuntimePhase, Op
  <2>4. "idle" \notin Leaving
    BY DEF Leaving
  <2>5. pc' \notin Leaving
    BY <1>1, <2>1, <2>3, <2>4, WriteInst DEF Goto
  <2> QED
    BY <2>5
<1>5. CASE writeStatus
  BY <1>5, WriteInst DEF writeStatus, Goto, Leaving
<1>6. CASE removeFinalizer \/ collectLogs \/ handleTTL
  BY <1>6 DEF removeFinalizer, collectLogs, handleTTL, Leaving
<1>7. CASE getJob \/ createJob \/ writeStarting \/ updateJob \/ checkStatus \/ instanceSyncStatus
           \/ Crash
  BY <1>7
     DEF getJob, createJob, CreateFailed, writeStarting, updateJob, checkStatus,
         instanceSyncStatus, Crash, Goto, Return, ReturnError, Forget, Leaving
<1>8. CASE Watch \/ Resync \/ RequeueAfter \/ TTLPasses \/ UserDeletes
  BY <1>8
     DEF Watch, WatchOp, WatchJob, mapPodToRequest, Resync, RequeueAfter, TTLPasses, UserDeletes,
         local, worker
<1>9. CASE PodMoves \/ JobStartsPod \/ JobCounts \/ JobDeadline \/ JobTTL \/ JobDeleted
            \/ JobCollected
  BY <1>9
     DEF PodMoves, JobStartsPod, JobCounts, JobDeadline, JobTTL, JobDeleted, JobCollected,
         DropJob, kubelet, worker
<1>10. CASE UNCHANGED vars
  BY <1>10 DEF vars, worker
<1> QED
  BY <1>2, <1>3, <1>4, <1>5, <1>6, <1>7, <1>8, <1>9, <1>10 DEF Next, Reconcile, World

\* Where a status is to be written only that write changes the stored status.
LEMMA WriteSteps ==
  ASSUME TypeOK, pc \in Writing, op'.status # op.status, [Next]_vars
  PROVE  writeStatus \/ writeStarting
<1>0. op \in Op
  BY DEF TypeOK, ClusterOK
<1>1. CASE Reconcile
  BY <1>1
     DEF Reconcile, Fetch, AddStartTime, AddLogsFinalizer, AddStatusFinalizer, AddFinalizer,
         handleFinalizersStop, collectLogs, removeFinalizer, handleTTL, getJob, createJob,
         updateJob, checkStatus, instanceSyncStatus, Writing
<1>2. CASE Watch \/ Resync \/ RequeueAfter \/ TTLPasses \/ Crash
  BY <1>2
     DEF Watch, WatchOp, WatchJob, mapPodToRequest, Resync, RequeueAfter, TTLPasses, Crash, cluster
<1>3. CASE UserDeletes
  <2>1. [op EXCEPT !.life = "deleting"] \in Op /\ [op EXCEPT !.life = "deleting"].status = op.status
    BY <1>0 DEF Op
  <2> QED
    BY <1>3, <2>1, PutStores DEF UserDeletes, DeleteOp
<1>4. CASE PodMoves \/ JobStartsPod \/ JobCounts \/ JobDeadline \/ JobTTL \/ JobDeleted
            \/ JobCollected
  BY <1>4
     DEF PodMoves, JobStartsPod, JobCounts, JobDeadline, JobTTL, JobDeleted, JobCollected,
         DropJob, kubelet
<1>5. CASE UNCHANGED vars
  BY <1>5 DEF vars, cluster
<1> QED
  BY <1>1, <1>2, <1>3, <1>4, <1>5 DEF Next, World

\* Without a failure the control plane hears an outcome before the operation can
\* lose a finalizer.
LEMMA NextHeardInTime ==
  ASSUME InductiveInv, CopiesOlder, LastListed, StoppedPhase, HeardInTime, [Next]_vars
  PROVE  HeardInTime'
<1>0. TypeOK
  BY DEF InductiveInv
<1>1. CopiesOlder' /\ InductiveInv'
  BY NextCopiesOlder, NextInv
<1>2. op'.life = "gone" => op'.fins = {}
  BY OpStores DEF OpStep, HeardInTime
<1>3. ASSUME faults' = 0, crashes' = 0, SyncStatuses
      PROVE  /\ IsDone(op'.status) => Heard' \/ (pc' = "sync" /\ IsDone(inst'.status))
             /\ pc' \in Leaving => Heard'
             /\ held' \ op'.fins # {} => Heard'
  <2>1. /\ IsDone(op.status) => Heard \/ (pc = "sync" /\ IsDone(inst.status))
        /\ pc \in Leaving => Heard
        /\ held \ op.fins # {} => Heard
        /\ faults = 0
    BY <1>0, <1>3, CountSteps DEF HeardInTime, Leaving
  <2>2. Heard => Heard'
    BY ReportSteps DEF ReportStep, Heard
  <2>3. held' \ op'.fins # {} => Heard'
    BY <2>1, <2>2, OpStores DEF OpStep, Leaving
  <2>4. ASSUME instanceSyncStatus, IsDone(inst.status) PROVE Heard'
    <3>1. inst.status.last.type \in FinalTypes
      BY <2>4 DEF InductiveInv, StatusesWellFormed, WellFormed
    <3>2. reported' = reported \cup {inst.status.last.type}
      BY <1>0, <1>3, <2>1, <2>4 DEF instanceSyncStatus, syncStatus, Fail
    <3> QED
      BY <3>1, <3>2 DEF Heard
  <2>5. ASSUME IsDone(op.status) PROVE Heard' \/ (pc' = "sync" /\ IsDone(inst'.status))
    BY <1>0, <1>3, <2>1, <2>2, <2>4, <2>5, SyncSteps
  <2>6. ASSUME IsDone(op'.status), ~IsDone(op.status)
        PROVE  pc' = "sync" /\ IsDone(inst'.status)
    <3>1. pc \in Writing /\ op'.status = inst.status
      BY <2>6, OpStores DEF OpStep, IsDone
    <3>2. pc = "write"
      BY <2>6, <3>1 DEF InductiveInv, RuntimePhase, Writing
    <3>3. writeStatus
      BY <1>0, <2>6, <3>1, <3>2, WriteSteps DEF writeStarting
    <3>4. pc' = "sync" /\ inst' = op'
      BY <1>0, <1>3, <2>1, <2>6, <3>3 DEF writeStatus, Write, Goto, Fail, cluster
    <3> QED
      BY <2>6, <3>4
  <2>7. ASSUME pc' \in Leaving PROVE Heard'
    <3>1. CASE handleFinalizersStop
      <4>1. reported' = reported \cup {"Stopped"}
        BY <1>0, <1>3, <2>1, <3>1 DEF handleFinalizersStop, syncStatus, Fail
      <4> QED
        BY <4>1 DEF Heard, FinalTypes
    <3>2. CASE pc \in {"idle", "addStart"} /\ IsDone(inst'.status)
      <4>1. Outcomes(inst'.status) = Outcomes(op'.status) /\ Outcomes(inst'.status) # {}
        BY <1>1, <2>7, <3>2 DEF CopiesOlder, Agrees, Leaving, Outcomes, IsDone
      <4>2. IsDone(op'.status)
        BY <4>1 DEF Outcomes, IsDone
      <4>3. IsDone(op.status)
        BY <3>2, <4>2, OpStores DEF OpStep, Writing, IsDone
      <4> QED
        BY <2>1, <2>2, <3>2, <4>3
    <3> QED
      BY <2>1, <2>2, <2>7, <3>1, <3>2, LeavingSteps
  <2> QED
    BY <2>3, <2>5, <2>6, <2>7
<1> QED
  BY <1>2, <1>3 DEF HeardInTime, Leaving

(***************************************************************************)
(* What the batch Job and its pods do, and what the reconciler makes of    *)
(* the copies of them.                                                     *)
(***************************************************************************)
\* A batch Job that does not exist has no status.
LEMMA NextNoJob ==
  ASSUME ~job.live => job = NoJob, job \in BatchJob, [Next]_vars
  PROVE  ~job'.live => job' = NoJob
<1>1. CASE job' = job
  BY <1>1
<1>2. CASE createJob
  BY <1>2 DEF createJob, StoreJob
<1>3. CASE AddStartTime \/ AddLogsFinalizer \/ AddStatusFinalizer \/ removeFinalizer \/ writeStatus
           \/ handleTTL \/ writeStarting
  BY <1>1, <1>3
     DEF AddStartTime, AddLogsFinalizer, AddStatusFinalizer, AddFinalizer, removeFinalizer,
         writeStatus, handleTTL, writeStarting, DeleteOp, Write, Put, cluster
<1>4. CASE Fetch \/ handleFinalizersStop \/ collectLogs \/ getJob \/ updateJob \/ checkStatus
           \/ instanceSyncStatus
  BY <1>1, <1>4
     DEF Fetch, handleFinalizersStop, collectLogs, getJob, updateJob, checkStatus,
         instanceSyncStatus, cluster
<1>5. CASE Watch \/ Resync \/ RequeueAfter \/ Crash \/ TTLPasses \/ UserDeletes
  BY <1>1, <1>5
     DEF Watch, WatchOp, WatchJob, mapPodToRequest, Resync, RequeueAfter, Crash, TTLPasses,
         UserDeletes, DeleteOp, Put, cluster
<1>6. CASE PodMoves \/ JobStartsPod
  BY <1>1, <1>6 DEF PodMoves, JobStartsPod
<1>7. CASE JobCounts \/ JobDeadline
  <2>1. job'.live
    BY <1>7 DEF JobCounts, JobDeadline, SetJobStatus, BatchJob
  <2> QED
    BY <2>1
<1>8. CASE JobTTL \/ JobDeleted \/ JobCollected
  BY <1>8 DEF JobTTL, JobDeleted, JobCollected, DropJob
<1>9. CASE UNCHANGED vars
  BY <1>1, <1>9 DEF vars, cluster
<1> QED
  BY <1>2, <1>3, <1>4, <1>5, <1>6, <1>7, <1>8, <1>9 DEF Next, Reconcile, World

\* The end of a batch Job that is not removed stands.
LEMMA JobSteps ==
  ASSUME TypeOK, ~job.live => job = NoJob, removals' = 0, op'.life # "gone", [Next]_vars
  PROVE  /\ job.status.last # "None" => job'.status.last = job.status.last
         /\ JobSpoilt => JobSpoilt'
<1>0. job \in BatchJob /\ pods \in Seq(AllStages) /\ removals \in Nat
  BY DEF TypeOK, ClusterOK, CountsOK
<1>1. CASE job' = job /\ pods' = pods
  BY <1>1 DEF JobSpoilt
<1>2. CASE createJob
  <2>1. pods' = pods /\ (job' = job \/ ~job.live)
    BY <1>2 DEF createJob, StoreJob
  <2>2. NoJob.status.last = "None"
    BY DEF NoJob, NoJobStatus
  <2> QED
    BY <2>1, <2>2 DEF JobSpoilt
<1>3. CASE AddStartTime \/ AddLogsFinalizer \/ AddStatusFinalizer \/ removeFinalizer \/ writeStatus
           \/ handleTTL \/ writeStarting
  BY <1>1, <1>3
     DEF AddStartTime, AddLogsFinalizer, AddStatusFinalizer, AddFinalizer, removeFinalizer,
         writeStatus, handleTTL, writeStarting, DeleteOp, Write, Put, cluster
<1>4. CASE Fetch \/ handleFinalizersStop \/ collectLogs \/ getJob \/ updateJob \/ checkStatus
           \/ instanceSyncStatus
  BY <1>1, <1>4
     DEF Fetch, handleFinalizersStop, collectLogs, getJob, updateJob, checkStatus,
         instanceSyncStatus, cluster
<1>5. CASE Watch \/ Resync \/ RequeueAfter \/ Crash \/ TTLPasses \/ UserDeletes
  BY <1>1, <1>5
     DEF Watch, WatchOp, WatchJob, mapPodToRequest, Resync, RequeueAfter, Crash, TTLPasses,
         UserDeletes, DeleteOp, Put, cluster
<1>6. CASE PodMoves
  <2>1. PICK i \in DOMAIN pods : \E stage \in KubeletNext[pods[i]] \cap Stages :
          pods' = [pods EXCEPT ![i] = stage]
    BY <1>6 DEF PodMoves
  <2>2. pods[i] # "BadImage"
    BY <2>1 DEF KubeletNext
  <2>3. \A k \in DOMAIN pods : pods[k] = "BadImage" => k \in DOMAIN pods' /\ pods'[k] = "BadImage"
    BY <1>0, <2>1, <2>2
  <2>4. job' = job
    BY <1>6 DEF PodMoves
  <2> QED
    BY <2>3, <2>4 DEF JobSpoilt
<1>7. CASE JobStartsPod
  <2>1. job' = job /\ pods' = Append(pods, "Unscheduled")
    BY <1>7 DEF JobStartsPod
  <2>2. \A k \in DOMAIN pods : k \in DOMAIN pods' /\ pods'[k] = pods[k]
    BY <1>0, <2>1
  <2> QED
    BY <2>1, <2>2 DEF JobSpoilt
<1>8. CASE JobCounts
  BY <1>0, <1>8 DEF JobCounts, JobFinished, JobSpoilt
<1>9. CASE JobDeadline
  <2>1. job.status.last = "None"
    BY <1>9 DEF JobDeadline, JobFinished
  <2>2. job'.status.last = "Failed"
    BY <1>0, <1>9 DEF JobDeadline, SetJobStatus, BatchJob, NoJobStatus
  <2> QED
    BY <2>1, <2>2 DEF JobSpoilt
<1>10. CASE JobTTL \/ JobDeleted \/ JobCollected
  <2>1. removals' # 0 \/ (op.life = "gone" /\ op' = op)
    BY <1>0, <1>10 DEF JobTTL, JobDeleted, JobCollected, DropJob, kubelet
  <2> QED
    BY <2>1
<1>11. CASE UNCHANGED vars
  BY <1>1, <1>11 DEF vars, cluster
<1> QED
  BY <1>2, <1>3, <1>4, <1>5, <1>6, <1>7, <1>8, <1>9, <1>10, <1>11 DEF Next, Reconcile, World

\* The copies of the batch Job and of its pods stay, are forgotten, or are taken
\* when the batch Job and its pods stay.
CopyStep ==
  /\ jobCache' = jobCache \/ (jobCache' = job /\ job' = job)
  /\ \/ found' = found \/ found' = NoJob
     \/ found' = jobCache /\ jobCache' = jobCache /\ job' = job
  /\ podCache' = podCache \/ (podCache' = pods /\ pods' = pods /\ job' = job)

\* Every step takes copies in this way.
LEMMA CopySteps ==
  ASSUME [Next]_vars
  PROVE  CopyStep
<1>1. CASE UNCHANGED <<caches, found>>
  BY <1>1 DEF CopyStep, caches
<1>2. CASE Fetch \/ handleFinalizersStop \/ collectLogs \/ handleTTL \/ getJob \/ createJob
           \/ writeStarting \/ updateJob \/ checkStatus \/ instanceSyncStatus
  BY <1>2
     DEF CopyStep, Fetch, handleFinalizersStop, collectLogs, AfterFinalizers, handleTTL, getJob,
         createJob, CreateFailed, writeStarting, updateJob, checkStatus, instanceSyncStatus, Goto,
         Return, ReturnError, Forget, caches, cluster, worker
<1>3. CASE AddStartTime \/ AddLogsFinalizer \/ AddStatusFinalizer \/ removeFinalizer \/ writeStatus
  BY <1>3
     DEF CopyStep, AddStartTime, AddLogsFinalizer, AddStatusFinalizer, AddFinalizer,
         removeFinalizer, writeStatus, Write, Goto, Return, ReturnError, Forget, caches
<1>4. CASE Watch \/ Resync \/ RequeueAfter \/ Crash \/ TTLPasses \/ UserDeletes
  BY <1>4
     DEF CopyStep, Watch, WatchOp, WatchJob, mapPodToRequest, Resync, RequeueAfter, Crash,
         TTLPasses, UserDeletes, Forget, caches, cluster, local, worker
<1>5. CASE PodMoves \/ JobStartsPod \/ JobCounts \/ JobDeadline \/ JobTTL \/ JobDeleted
            \/ JobCollected
  <2>1. UNCHANGED kubelet
    BY <1>5
       DEF PodMoves, JobStartsPod, JobCounts, JobDeadline, JobTTL, JobDeleted, JobCollected, DropJob
  <2> QED
    BY <1>1, <2>1 DEF kubelet, worker
<1>6. CASE UNCHANGED vars
  BY <1>1, <1>6 DEF vars, worker
<1> QED
  BY <1>2, <1>3, <1>4, <1>5, <1>6 DEF Next, Reconcile, World

\* An invalid image name that the reconciler sees is that of a pod it has listed.
LEMMA InvalidImageListed ==
  ASSUME NEW stages \in Seq(AllStages), NEW podList \in Orders(stages),
         GetInvalidImageName(podList)
  PROVE  \E i \in DOMAIN stages : stages[i] = "BadImage"
<1>1. PICK p \in [DOMAIN stages -> DOMAIN stages] :
         podList = [i \in DOMAIN stages |-> PodAt[stages[p[i]]]]
  BY DEF Orders
<1>2. PICK i \in DOMAIN stages :
         \/ \E k \in DOMAIN podList[i].inits : IsInvalidImage(podList[i].inits[k])
         \/ \E k \in DOMAIN podList[i].containers : IsInvalidImage(podList[i].containers[k])
  BY <1>1 DEF GetInvalidImageName
<1>3. p[i] \in DOMAIN stages /\ podList[i] = PodAt[stages[p[i]]]
  BY <1>1, <1>2
<1>4. stages[p[i]] \in AllStages
  BY <1>3
<1>5. ASSUME NEW stage \in AllStages, stage # "BadImage"
      PROVE  /\ \A k \in DOMAIN PodAt[stage].inits : ~IsInvalidImage(PodAt[stage].inits[k])
             /\ \A k \in DOMAIN PodAt[stage].containers :
                   ~IsInvalidImage(PodAt[stage].containers[k])
  <2>1. PICK phase, conds, containers :
          /\ PodAt[stage] = podStatus(phase, conds, containers)
          /\ \/ containers = <<>>
             \/ \E state, reason, code : /\ containers = container(state, reason, code)
                                         /\ state # "waiting" \/ reason # "InvalidImageName"
    <3>1. stage \in {"Unscheduled", "NotReady", "Pulling", "Running", "Succeeded", "Failed"}
      BY <1>5 DEF AllStages
    <3>2. CASE stage = "Unscheduled"
      BY <3>2 DEF PodAt
    <3>3. CASE stage = "NotReady"
      <4>1. PodAt[stage] = podStatus("Pending", "notReady",
                                     container("waiting", "ContainerCreating", 0))
        BY <3>3 DEF PodAt
      <4> QED
        BY <4>1
    <3>4. CASE stage = "Pulling"
      <4>1. PodAt[stage] = podStatus("Pending", "notReady",
                                     container("waiting", "ErrImagePull", 0))
        BY <3>4 DEF PodAt
      <4> QED
        BY <4>1
    <3>5. CASE stage = "Running"
      <4>1. PodAt[stage] = podStatus("Running", "ready", container("running", "", 0))
        BY <3>5 DEF PodAt
      <4>2. PICK none : PodAt[stage] = podStatus("Running", "ready", container("running", none, 0))
        BY <4>1, Zenon
      <4> QED
        BY <4>2
    <3>6. CASE stage = "Succeeded"
      <4>1. PodAt[stage] = podStatus("Succeeded", "ready", container("terminated", "Completed", 0))
        BY <3>6 DEF PodAt
      <4> QED
        BY <4>1
    <3>7. CASE stage = "Failed"
      <4>1. PodAt[stage] = podStatus("Failed", "ready", container("terminated", "Error", 1))
        BY <3>7 DEF PodAt
      <4> QED
        BY <4>1
    <3> QED
      BY <3>1, <3>2, <3>3, <3>4, <3>5, <3>6, <3>7
  <2>2. PodAt[stage].inits = <<>> /\ PodAt[stage].containers = containers
    BY <2>1 DEF podStatus
  <2>3. ASSUME NEW state, NEW reason, NEW code,
               state # "waiting" \/ reason # "InvalidImageName"
        PROVE  \A k \in DOMAIN container(state, reason, code) :
                  ~IsInvalidImage(container(state, reason, code)[k])
    <3>1. DOMAIN container(state, reason, code) = {1}
      BY DEF container
    <3>2. /\ container(state, reason, code)[1].state = state
          /\ container(state, reason, code)[1].reason = reason
      BY DEF container
    <3> QED
      BY <2>3, <3>1, <3>2 DEF IsInvalidImage
  <2>4. \A k \in DOMAIN containers : ~IsInvalidImage(containers[k])
    <3>1. CASE containers = <<>>
      BY <3>1
    <3>2. CASE containers # <<>>
      <4>1. PICK state, reason, code : /\ containers = container(state, reason, code)
                                       /\ state # "waiting" \/ reason # "InvalidImageName"
        BY <2>1, <3>2
      <4> QED
        BY <2>3, <4>1
    <3> QED
      BY <3>1, <3>2
  <2> QED
    BY <2>2, <2>4
<1> QED
  BY <1>2, <1>3, <1>4, <1>5

\* What logging adds to a list of conditions.
LEMMA LogAdds ==
  ASSUME NEW status \in OperationStatusType, NEW why
  PROVE  /\ LogStarting(status).has = status.has \cup {"Starting"}
         /\ LogRunning(status).has = status.has \cup {"Running"}
         /\ LogWarning(status, why).has = status.has \cup {"Warning"}
         /\ LogSucceeded(status).has = status.has \cup {"Succeeded"}
         /\ LogFailed(status, why).has = status.has \cup {"Failed"}
         /\ MarkJobAsDeleted(status).has = status.has \cup {"Stopped"}
BY DEF LogStarting, LogRunning, LogWarning, LogSucceeded, LogFailed, MarkJobAsDeleted, LogStopped,
       logCondition, NewOperationCondition, OperationStatusType

\* The batch Job or the pods show the outcome that is decided.
LEMMA DecidedFrom ==
  ASSUME NEW status \in OperationStatusType, NEW st, NEW podList
  PROVE  LET new == reconcileJobStatus(status, st, podList)
         IN  /\ "Succeeded" \in new.has => "Succeeded" \in status.has \/ st.last = "Complete"
             /\ "Failed" \in new.has =>
                  \/ "Failed" \in status.has \/ st.last = "Failed"
                  \/ GetInvalidImageName(podList)
BY LogAdds DEF reconcileJobStatus, IsJobSucceeded, IsJobFailed

\* What the reconciler is about to write follows from its copies.
LEMMA DecisionSteps ==
  ASSUME TypeOK, pc \in Runtime, pc' \in Writing, [Next]_vars
  PROVE  /\ "Succeeded" \in inst'.status.has =>
              "Succeeded" \in inst.status.has \/ found.status.last = "Complete"
         /\ "Failed" \in inst'.status.has =>
              \/ "Failed" \in inst.status.has \/ found.status.last = "Failed"
              \/ \E i \in DOMAIN podCache : podCache[i] = "BadImage"
<1>0. inst \in Op /\ inst.status \in OperationStatusType /\ podCache \in Seq(AllStages)
  BY DEF TypeOK, WorkerOK, CachesOK, Op
<1>1. \A new : [inst EXCEPT !.status = new].status = new
  BY <1>0 DEF Op
<1>2. CASE inst' = inst
  BY <1>2
<1>3. CASE getJob
  <2>1. inst' = inst \/ inst' = [inst EXCEPT !.status = MarkJobAsDeleted(inst.status)]
    BY <1>3 DEF getJob
  <2>2. inst' = inst \/ inst'.status = MarkJobAsDeleted(inst.status)
    BY <1>1, <2>1
  <2> QED
    BY <1>0, <2>2, LogAdds
<1>4. CASE createJob
  <2>1. \/ inst' = [inst EXCEPT !.status = LogStarting(inst.status)]
        \/ inst' = [inst EXCEPT !.status = LogWarning(inst.status, "OperatorCreateJob")]
    BY <1>4 DEF createJob, CreateFailed, ReturnError, Forget, Writing
  <2>2. \/ inst'.status = LogStarting(inst.status)
        \/ inst'.status = LogWarning(inst.status, "OperatorCreateJob")
    BY <1>1, <2>1
  <2> QED
    BY <1>0, <2>2, LogAdds
<1>5. CASE checkStatus
  <2>1. PICK podList \in Orders(podCache) :
          \/ pc' = "idle"
          \/ inst' = [inst EXCEPT !.status = reconcileJobStatus(inst.status, found.status, podList)]
    BY <1>5 DEF checkStatus, Return, Forget
  <2>2. inst'.status = reconcileJobStatus(inst.status, found.status, podList)
    BY <1>1, <2>1 DEF Writing
  <2> QED
    BY <1>0, <2>2, DecidedFrom, InvalidImageListed
<1>6. CASE AddLogsFinalizer \/ AddStatusFinalizer
  <2>1. PICK finalizer : Write([inst EXCEPT !.fins = @ \cup {finalizer}],
                inst' = op' /\ Goto(Dispatch([inst EXCEPT !.fins = @ \cup {finalizer}])))
    BY <1>6 DEF AddLogsFinalizer, AddStatusFinalizer, AddFinalizer
  <2>2. \A new : Dispatch(new) \notin Writing
    BY DEF Dispatch, Writing
  <2>3. "idle" \notin Writing
    BY DEF Writing
  <2> QED
    BY <2>1, <2>2, <2>3, WriteInst DEF Goto
<1>7. CASE updateJob \/ Crash
  BY <1>7 DEF updateJob, Crash, Goto, ReturnError, Forget, Writing
<1>8. CASE Fetch \/ AddStartTime \/ removeFinalizer \/ writeStatus \/ handleFinalizersStop
           \/ collectLogs \/ handleTTL \/ writeStarting \/ instanceSyncStatus
  BY <1>8
     DEF Fetch, AddStartTime, removeFinalizer, writeStatus, handleFinalizersStop, collectLogs,
         handleTTL, writeStarting, instanceSyncStatus, Runtime
<1>9. CASE Watch \/ Resync \/ RequeueAfter \/ TTLPasses \/ UserDeletes
  BY <1>2, <1>9
     DEF Watch, WatchOp, WatchJob, mapPodToRequest, Resync, RequeueAfter, TTLPasses, UserDeletes,
         local, worker
<1>10. CASE PodMoves \/ JobStartsPod \/ JobCounts \/ JobDeadline \/ JobTTL \/ JobDeleted
            \/ JobCollected
  BY <1>2, <1>10
     DEF PodMoves, JobStartsPod, JobCounts, JobDeadline, JobTTL, JobDeleted, JobCollected,
         DropJob, kubelet, worker
<1>11. CASE UNCHANGED vars
  BY <1>2, <1>11 DEF vars, worker
<1> QED
  BY <1>3, <1>4, <1>5, <1>6, <1>7, <1>8, <1>9, <1>10, <1>11 DEF Next, Reconcile, World

\* A decision stands on the batch Job as it is, whatever copy it was made from.
LEMMA NextDecisionsJustified ==
  ASSUME InductiveInv, CopiesOlder, DecisionsJustified, [Next]_vars
  PROVE  DecisionsJustified'
<1>0. TypeOK
  BY DEF InductiveInv
<1>1. ~job'.live => job' = NoJob
  BY <1>0, NextNoJob DEF DecisionsJustified, TypeOK, ClusterOK
<1>2. ASSUME removals' = 0, op'.life # "gone"
      PROVE  /\ \A copy \in {jobCache', found'} :
                   copy.status.last # "None" => job'.status.last = copy.status.last
             /\ (\E i \in DOMAIN podCache' : podCache'[i] = "BadImage") => JobSpoilt'
             /\ Justified(op.status)' /\ Justified(inst.status)'
  <2>1. removals = 0 /\ op.life # "gone"
    BY <1>0, <1>2, CountSteps, OpSteps
  <2>2. /\ \A copy \in {jobCache, found} :
              copy.status.last # "None" => job.status.last = copy.status.last
        /\ (\E i \in DOMAIN podCache : podCache[i] = "BadImage") => JobSpoilt
        /\ Justified(op.status) /\ Justified(inst.status)
    BY <2>1 DEF DecisionsJustified
  <2>3. /\ job.status.last # "None" => job'.status.last = job.status.last
        /\ JobSpoilt => JobSpoilt'
    BY <1>0, <1>2, JobSteps DEF DecisionsJustified
  <2>4. \A copy \in {jobCache', found'} :
           copy.status.last # "None" => job'.status.last = copy.status.last
    <3>1. NoJob.status.last = "None"
      BY DEF NoJob, NoJobStatus
    <3> QED
      BY <2>2, <2>3, <3>1, CopySteps DEF CopyStep
  <2>5. (\E i \in DOMAIN podCache' : podCache'[i] = "BadImage") => JobSpoilt'
    BY <2>2, <2>3, CopySteps DEF CopyStep, JobSpoilt
  <2>6. Justified(op.status)'
    BY <2>2, <2>3, OpStores DEF OpStep, Justified
  <2>7. Justified(inst.status)'
    <3>1. CASE inst' = NewOp
      BY <3>1 DEF NewOp, NewStatus, Justified
    <3>2. CASE inst' = opCache
      <4>1. \A t \in {"Succeeded", "Failed"} : t \in opCache.status.has => t \in op.status.has
        BY DEF CopiesOlder, Agrees, IsDone, Outcomes, FinalTypes
      <4> QED
        BY <2>2, <2>3, <3>2, <4>1 DEF Justified
    <3>3. CASE inst' = op'
      BY <2>6, <3>3 DEF Justified
    <3>4. CASE inst' = inst
      BY <2>2, <2>3, <3>4 DEF Justified
    <3>5. CASE pc \in Runtime /\ pc' \in Writing
      BY <1>0, <2>2, <2>3, <3>5, DecisionSteps DEF Justified, JobSpoilt
    <3> QED
      BY <3>1, <3>2, <3>3, <3>4, <3>5, InstSteps DEF InstStep
  <2> QED
    BY <2>4, <2>5, <2>6, <2>7
<1> QED
  BY <1>1, <1>2 DEF DecisionsJustified

\* What a write of the reconciler does to the versions and its other copies.
LEMMA WriteVersions ==
  ASSUME NEW new, NEW ACTION After, Write(new, After), After => UNCHANGED found \/ pc' = "idle"
  PROVE  /\ job' = job
         /\ current' \cap JobCopies \subseteq current
         /\ found' = found \/ "found" \notin current'
         /\ pc' = "idle" => "found" \notin current'
BY DEF Write, Put, Unchanged, Keep, ReturnError, Forget, cluster, JobCopies, OpCopies

\* The copies of the batch Job that have its version stay equal to it.
LEMMA NextJobCopies ==
  ASSUME InductiveInv, JobCopiesCurrent, [Next]_vars
  PROVE  JobCopiesCurrent'
<1>0. ASSUME job' = job, jobCache' = jobCache,
             current' \cap JobCopies \subseteq current,
             found' = found \/ "found" \notin current',
             pc \in Found => pc' \in Found \/ "found" \notin current'
      PROVE  JobCopiesCurrent'
  BY <1>0 DEF JobCopiesCurrent, JobCopies
<1>1. CASE Fetch
  BY <1>0, <1>1 DEF Fetch, Found, worker, cluster, caches, Keep, JobCopies
<1>2. CASE AddStartTime
  BY <1>0, <1>2, WriteVersions DEF AddStartTime, Found, Goto, caches
<1>3. CASE AddLogsFinalizer
  BY <1>0, <1>3, WriteVersions DEF AddLogsFinalizer, AddFinalizer, Found, Goto, caches
<1>4. CASE AddStatusFinalizer
  BY <1>0, <1>4, WriteVersions DEF AddStatusFinalizer, AddFinalizer, Found, Goto, caches
<1>5. CASE removeFinalizer
  BY <1>0, <1>5, WriteVersions DEF removeFinalizer, Found, Goto, Return, Forget, caches
<1>6. CASE writeStatus
  BY <1>0, <1>6, WriteVersions, WriteInst DEF writeStatus, Found, Goto, caches
<1>7. CASE writeStarting
  BY <1>0, <1>7
     DEF writeStarting, Found, Put, Unchanged, Keep, cluster, caches, JobCopies, OpCopies
<1>8. CASE handleTTL
  <2>1. job' = job /\ jobCache' = jobCache /\ pc' = "idle"
    BY <1>8 DEF handleTTL, DeleteOp, Put, Return, ReturnError, Forget, cluster, caches
  <2>2. Keep(Unchanged) \/ Keep(current)
    BY <1>8 DEF handleTTL
  <2>3. current' \cap JobCopies \subseteq current /\ "found" \notin current'
    BY <2>1, <2>2 DEF Keep, Unchanged
  <2> QED
    BY <1>0, <2>1, <2>3
<1>9. CASE handleFinalizersStop \/ collectLogs \/ updateJob \/ instanceSyncStatus
  BY <1>0, <1>9
     DEF handleFinalizersStop, collectLogs, AfterFinalizers, updateJob, instanceSyncStatus,
         Found, Keep, Goto, Return, ReturnError, Forget, cluster, caches
<1>10. CASE getJob
  BY <1>10 DEF getJob, JobCopiesCurrent, Found, Keep, cluster, caches
<1>11. CASE createJob
  <2>1. CASE job' = job
    BY <1>0, <1>11, <2>1 DEF createJob, CreateFailed, Found, Keep, Goto, ReturnError, Forget, caches
  <2>2. CASE job' # job
    <3>1. current' \cap JobCopies = {}
      BY <1>11, <2>2 DEF createJob, Keep
    <3> QED
      BY <3>1 DEF JobCopiesCurrent, JobCopies
  <2> QED
    BY <2>1, <2>2
<1>12. CASE checkStatus
  BY <1>0, <1>12 DEF checkStatus, Found, Keep, Return, Forget, cluster, caches
<1>13. CASE Watch \/ Resync \/ RequeueAfter \/ TTLPasses
  BY <1>13
     DEF Watch, WatchOp, WatchJob, mapPodToRequest, Resync, RequeueAfter, TTLPasses,
         JobCopiesCurrent, local, worker, cluster, caches
<1>14. CASE Crash
  BY <1>14 DEF Crash, JobCopiesCurrent, cluster
<1>15. CASE UserDeletes
  BY <1>0, <1>15 DEF UserDeletes, DeleteOp, Put, local, worker, caches
<1>16. CASE PodMoves \/ JobStartsPod
  BY <1>0, <1>16 DEF PodMoves, JobStartsPod, kubelet, worker, caches
<1>17. CASE JobCounts \/ JobDeadline \/ JobTTL \/ JobDeleted \/ JobCollected
  <2>1. current' \cap JobCopies = {}
    BY <1>17 DEF JobCounts, JobDeadline, JobTTL, JobDeleted, JobCollected, DropJob, SetJobStatus
  <2> QED
    BY <2>1 DEF JobCopiesCurrent, JobCopies
<1>18. CASE UNCHANGED vars
  BY <1>0, <1>18 DEF vars, worker, cluster, caches
<1> QED
  BY <1>1, <1>2, <1>3, <1>4, <1>5, <1>6, <1>7, <1>8, <1>9, <1>10, <1>11, <1>12, <1>13, <1>14,
     <1>15, <1>16, <1>17, <1>18
     DEF Next, Reconcile, World

\* What the reconciler's copy of the operation tells of: it stays, is that of the
\* cache, or is decided on.
TellsStep ==
  \/ inst' = NewOp
  \/ inst' = opCache /\ jobCache' = jobCache
  \/ /\ inst'.status.has = inst.status.has /\ inst'.status.last = inst.status.last
     /\ pc' \in Undecided => pc \in Undecided
  \/ getJob \/ createJob \/ checkStatus

\* Every step is of this kind.
LEMMA TellsSteps ==
  ASSUME InductiveInv, [Next]_vars
  PROVE  TellsStep
<1>0. inst \in Op
  BY DEF InductiveInv, TypeOK, WorkerOK
<1>1. ASSUME NEW new \in Op, Put(new)
      PROVE  op'.status = new.status
  BY <1>1, PutStores DEF Put
<1>2. CASE inst' = inst /\ pc' = pc
  BY <1>2 DEF TellsStep
<1>3. CASE Fetch
  BY <1>2, <1>3 DEF Fetch, TellsStep, worker, caches
<1>4. CASE AddStartTime
  <2> DEFINE new == [inst EXCEPT !.status.start = TRUE]
  <2>1. /\ new \in Op /\ new.status.has = inst.status.has /\ new.status.last = inst.status.last
    BY <1>0 DEF Op, OperationStatusType
  <2>2. Write(new, inst' = op' /\ Goto(Dispatch(new))) /\ pc \in Undecided
    BY <1>4 DEF AddStartTime, Undecided
  <2> HIDE DEF new
  <2> QED
    BY <1>1, <2>1, <2>2 DEF Write, ReturnError, Forget, TellsStep
<1>5. CASE AddLogsFinalizer \/ AddStatusFinalizer
  <2>1. PICK finalizer \in Finalizers :
          Write([inst EXCEPT !.fins = @ \cup {finalizer}],
                inst' = op' /\ Goto(Dispatch([inst EXCEPT !.fins = @ \cup {finalizer}])))
    BY <1>5 DEF AddLogsFinalizer, AddStatusFinalizer, AddFinalizer, Finalizers
  <2> DEFINE new == [inst EXCEPT !.fins = @ \cup {finalizer}]
  <2>2. new \in Op /\ new.status = inst.status
    BY <1>0 DEF Op
  <2>3. Write(new, inst' = op' /\ Goto(Dispatch(new))) /\ pc \in Undecided
    BY <1>5, <2>1 DEF AddLogsFinalizer, AddStatusFinalizer, AddFinalizer, Undecided
  <2> HIDE DEF new
  <2> QED
    BY <1>1, <2>2, <2>3 DEF Write, ReturnError, Forget, TellsStep
<1>6. CASE removeFinalizer
  <2> DEFINE first == IF "logs" \in inst.fins THEN "logs" ELSE "status"
             new   == [inst EXCEPT !.fins = @ \ {first}]
             Next2 == IF inst.life = "deleting" THEN Return ELSE inst' = op' /\ Goto("cleanup")
  <2>1. new \in Op /\ new.status = inst.status
    BY <1>0 DEF Op
  <2>2. Write(new, Next2)
    BY <1>6 DEF removeFinalizer
  <2>3. Next2 => inst' = NewOp \/ (inst' = op' /\ pc' = "cleanup")
    BY DEF Return, Forget, Goto
  <2> HIDE DEF new, Next2
  <2> QED
    BY <1>1, <2>1, <2>2, <2>3 DEF Write, ReturnError, Forget, TellsStep, Undecided
<1>7. CASE writeStatus
  <2>1. Write(inst, inst' = op' /\ Goto("sync"))
    BY <1>7 DEF writeStatus
  <2> QED
    BY <1>0, <1>1, <2>1 DEF Write, Goto, ReturnError, Forget, TellsStep, Undecided
<1>8. CASE writeStarting
  BY <1>0, <1>1, <1>8 DEF writeStarting, TellsStep, Undecided
<1>9. CASE handleFinalizersStop \/ collectLogs \/ handleTTL \/ updateJob \/ instanceSyncStatus
  BY <1>9
     DEF handleFinalizersStop, collectLogs, AfterFinalizers, handleTTL, updateJob,
         instanceSyncStatus, Goto, Return, ReturnError, Forget, TellsStep, Undecided
<1>10. CASE getJob \/ createJob \/ checkStatus
  BY <1>10 DEF TellsStep
<1>11. CASE Watch \/ Resync \/ RequeueAfter \/ TTLPasses \/ UserDeletes
  BY <1>2, <1>11
     DEF Watch, WatchOp, WatchJob, mapPodToRequest, Resync, RequeueAfter, TTLPasses, UserDeletes,
         local, worker
<1>12. CASE Crash
  BY <1>12 DEF Crash, Forget, TellsStep
<1>13. CASE PodMoves \/ JobStartsPod \/ JobCounts \/ JobDeadline \/ JobTTL \/ JobDeleted
            \/ JobCollected
  BY <1>2, <1>13
     DEF PodMoves, JobStartsPod, JobCounts, JobDeadline, JobTTL, JobDeleted, JobCollected,
         DropJob, kubelet, worker
<1>14. CASE UNCHANGED vars
  BY <1>2, <1>14 DEF vars, worker
<1> QED
  BY <1>3, <1>4, <1>5, <1>6, <1>7, <1>8, <1>9, <1>10, <1>11, <1>12, <1>13, <1>14
     DEF Next, Reconcile, World

\* A batch Job that is there stays, unless it is removed or its operation is gone.
LEMMA JobStays ==
  ASSUME TypeOK, job.live, removals' = 0, op'.life # "gone", [Next]_vars
  PROVE  job'.live
<1>0. job \in BatchJob /\ removals \in Nat
  BY DEF TypeOK, ClusterOK, CountsOK
<1>1. CASE AddStartTime \/ AddLogsFinalizer \/ AddStatusFinalizer \/ removeFinalizer \/ writeStatus
           \/ handleTTL \/ writeStarting
  BY <1>1
     DEF AddStartTime, AddLogsFinalizer, AddStatusFinalizer, AddFinalizer, removeFinalizer,
         writeStatus, handleTTL, writeStarting, DeleteOp, Write, Put, cluster
<1>2. CASE Fetch \/ handleFinalizersStop \/ collectLogs \/ getJob \/ updateJob \/ checkStatus
           \/ instanceSyncStatus \/ createJob
  BY <1>2
     DEF Fetch, handleFinalizersStop, collectLogs, getJob, updateJob, checkStatus,
         instanceSyncStatus, createJob, cluster
<1>3. CASE Watch \/ Resync \/ RequeueAfter \/ Crash \/ TTLPasses \/ UserDeletes
  BY <1>3
     DEF Watch, WatchOp, WatchJob, mapPodToRequest, Resync, RequeueAfter, Crash, TTLPasses,
         UserDeletes, DeleteOp, Put, cluster
<1>4. CASE PodMoves \/ JobStartsPod \/ JobCounts \/ JobDeadline
  BY <1>0, <1>4 DEF PodMoves, JobStartsPod, JobCounts, JobDeadline, SetJobStatus, BatchJob
<1>5. CASE JobTTL \/ JobDeleted \/ JobCollected
  <2>1. removals' # 0 \/ (op.life = "gone" /\ op' = op)
    BY <1>0, <1>5 DEF JobTTL, JobDeleted, JobCollected, DropJob, kubelet
  <2> QED
    BY <2>1
<1>6. CASE UNCHANGED vars
  BY <1>6 DEF vars, cluster
<1> QED
  BY <1>1, <1>2, <1>3, <1>4, <1>5, <1>6 DEF Next, Reconcile, World

\* Where a reconciliation that has established the batch Job comes from.
LEMMA EstablishedSteps ==
  ASSUME InductiveInv, [Next]_vars, (pc \in Established \/ Continues)'
  PROVE  pc \in Established \/ Continues \/ (getJob /\ jobCache.live) \/ (createJob /\ job'.live)
<1>1. CASE pc' = pc /\ then' = then
  BY <1>1 DEF Continues
<1>2. \A copy : Dispatch(copy) \notin Established \cup {"sync"}
  BY DEF Dispatch, Established
<1>3. ASSUME pc' \notin Established \cup {"sync"}
      PROVE  FALSE
  BY <1>3 DEF Continues
<1>4. {"idle", "collect", "removeFinalizer", "cleanup", "createJob", "write"}
        \cap (Established \cup {"sync"}) = {}
  BY DEF Established
<1>5. CASE Fetch
  BY <1>1, <1>2, <1>3, <1>5 DEF Fetch, worker, Established
<1>6. CASE AddStartTime
  BY <1>2, <1>3, <1>4, <1>6, WriteInst DEF AddStartTime, Goto
<1>7. CASE AddLogsFinalizer
  BY <1>2, <1>3, <1>4, <1>7, WriteInst DEF AddLogsFinalizer, AddFinalizer, Goto
<1>8. CASE AddStatusFinalizer
  BY <1>2, <1>3, <1>4, <1>8, WriteInst DEF AddStatusFinalizer, AddFinalizer, Goto
<1>9. CASE removeFinalizer
  BY <1>3, <1>4, <1>9, WriteInst DEF removeFinalizer, Goto, Return, Forget
<1>10. CASE handleFinalizersStop \/ collectLogs \/ handleTTL \/ Crash
  BY <1>3, <1>4, <1>10
     DEF handleFinalizersStop, collectLogs, AfterFinalizers, handleTTL, Crash, Goto, Return,
         ReturnError, Forget
<1>11. CASE writeStatus
  BY <1>3, <1>4, <1>11, WriteInst
     DEF writeStatus, Goto, InductiveInv, RuntimePhase, Established, Continues
<1>12. CASE writeStarting \/ updateJob \/ checkStatus
  BY <1>12 DEF writeStarting, updateJob, checkStatus, Established
<1>13. CASE instanceSyncStatus
  BY <1>3, <1>4, <1>13
     DEF instanceSyncStatus, Goto, Return, ReturnError, Forget, Continues
<1>14. CASE getJob
  BY <1>3, <1>4, <1>14 DEF getJob
<1>15. CASE createJob
  <2>1. CASE StoreJob
    BY <1>15, <2>1 DEF StoreJob
  <2>2. CASE CreateFailed
    BY <1>3, <1>4, <2>2 DEF CreateFailed, ReturnError, Forget
  <2> QED
    BY <1>15, <2>1, <2>2 DEF createJob
<1>16. CASE Watch \/ Resync \/ RequeueAfter \/ TTLPasses \/ UserDeletes
  BY <1>1, <1>16
     DEF Watch, WatchOp, WatchJob, mapPodToRequest, Resync, RequeueAfter, TTLPasses, UserDeletes,
         local, worker
<1>17. CASE PodMoves \/ JobStartsPod \/ JobCounts \/ JobDeadline \/ JobTTL \/ JobDeleted
            \/ JobCollected
  BY <1>1, <1>17
     DEF PodMoves, JobStartsPod, JobCounts, JobDeadline, JobTTL, JobDeleted, JobCollected,
         DropJob, kubelet, worker
<1>18. CASE UNCHANGED vars
  BY <1>1, <1>18 DEF vars, worker
<1> QED
  BY <1>5, <1>6, <1>7, <1>8, <1>9, <1>10, <1>11, <1>12, <1>13, <1>14, <1>15, <1>16, <1>17, <1>18
     DEF Next, Reconcile, World

\* The cached operation is replaced by the stored one, with ordered watches only
\* when the cached batch Job is the stored one too.
LEMMA OpCacheSteps ==
  ASSUME JobCopiesCurrent, [Next]_vars
  PROVE  \/ opCache' = opCache
         \/ /\ opCache' = op /\ op' = op /\ job' = job
            /\ OrderedWatches => jobCache' = job
<1>1. CASE opCache' = opCache
  BY <1>1
<1>2. CASE WatchOp
  BY <1>2 DEF WatchOp, JobCopiesCurrent, cluster
<1>3. CASE Crash
  BY <1>3 DEF Crash, cluster
<1>4. CASE Reconcile
  BY <1>1, <1>4
     DEF Reconcile, Fetch, AddStartTime, AddLogsFinalizer, AddStatusFinalizer, AddFinalizer,
         handleFinalizersStop, collectLogs, removeFinalizer, handleTTL, getJob, createJob,
         writeStarting, updateJob, checkStatus, writeStatus, instanceSyncStatus, caches
<1>5. CASE WatchJob \/ mapPodToRequest \/ Resync \/ RequeueAfter
  BY <1>1, <1>5 DEF WatchJob, mapPodToRequest, Resync, RequeueAfter, caches
<1>6. CASE World
  BY <1>1, <1>6
     DEF World, UserDeletes, PodMoves, JobStartsPod, JobCounts, JobDeadline, JobTTL, JobDeleted,
         JobCollected, TTLPasses, DropJob, kubelet, caches
<1>7. CASE UNCHANGED vars
  BY <1>1, <1>7 DEF vars, caches
<1> QED
  BY <1>2, <1>3, <1>4, <1>5, <1>6, <1>7 DEF Next, Watch

\* The pods and the batch Job decide that the operation runs, and never that it
\* was stopped.
LEMMA DecidedTells ==
  ASSUME NEW status \in OperationStatusType, NEW st, NEW podList
  PROVE  LET new == reconcileJobStatus(status, st, podList)
         IN  /\ "Running" \in new.has => "Running" \in status.has \/ st.active
             /\ "Stopped" \in new.has => "Stopped" \in status.has
BY LogAdds DEF reconcileJobStatus

\* What a status of the reconciler may tell of.
TellsOf(status) ==
  /\ "Running" \in status.has => jobCache.live
  /\ StopJustified(status)
  /\ OrderedWatches /\ Begun(status) => job.live

\* The reconciler's own decisions tell of a batch Job that exists, and of a stop
\* only when there never was one.
LEMMA DecisionTells ==
  ASSUME InductiveInv, StopsJustified, removals = 0, op.life # "gone",
         job.live => job'.live, jobCache' = jobCache, getJob \/ createJob \/ checkStatus
  PROVE  TellsOf(inst.status)' /\ pc' \notin Undecided
<1>0. inst \in Op /\ inst.status \in OperationStatusType /\ faults \in Nat
  BY DEF InductiveInv, TypeOK, WorkerOK, CountsOK, Op
<1>1. pc' \notin Undecided
  BY DEF getJob, createJob, checkStatus, CreateFailed, Goto, Return, ReturnError, Forget, Undecided
<1> SUFFICES TellsOf(inst.status)'
  BY <1>1
<1>2. \A new : [inst EXCEPT !.status = new].status = new
  BY <1>0 DEF Op
<1>3. TellsOf(inst.status)
  BY DEF StopsJustified, TellsOf
<1>4. pc \in Runtime => "Stopped" \notin inst.status.has
  BY DEF InductiveInv, RuntimePhase, IsDone, FinalTypes
<1>5. CASE inst' = NewOp
  <2>1. NewOp.status.has = {} /\ NewOp.status.last.type = "None"
    BY DEF NewOp, NewStatus, NoCondition
  <2> QED
    BY <1>5, <2>1 DEF TellsOf, StopJustified, Begun
<1>6. CASE getJob
  <2>1. faults' = faults /\ pc = "getJob"
    BY <1>6 DEF getJob
  <2>2. CASE inst' = inst
    BY <1>3, <2>1, <2>2 DEF TellsOf, StopJustified, Begun
  <2>3. CASE inst' # inst
    <3>1. /\ ~jobCache.live /\ ShouldMarkJobAsDeleted(inst.status)
          /\ inst'.status = MarkJobAsDeleted(inst.status)
      BY <1>2, <1>6, <2>3 DEF getJob
    <3>2. inst'.status.has = inst.status.has \cup {"Stopped"}
      BY <1>0, <3>1, LogAdds
    <3>3. "Running" \notin inst.status.has
      BY <3>1 DEF StopsJustified
    <3>4. OrderedWatches => ~Begun(inst.status)
      BY <2>1, <3>1 DEF StopsJustified, Undecided
    <3>5. inst.status.last.type # "None"
      BY <3>1 DEF ShouldMarkJobAsDeleted
    <3>6. OrderedWatches => ~Begun(inst.status)'
      BY <2>1, <3>2, <3>4, <3>5 DEF Begun
    <3> QED
      BY <3>2, <3>3, <3>6 DEF TellsOf, StopJustified
  <2> QED
    BY <2>2, <2>3
<1>7. CASE createJob
  <2>1. pc = "createJob"
    BY <1>7 DEF createJob
  <2>2. faults' = 0 => faults = 0 /\ job'.live
    BY <1>0, <1>7 DEF createJob, StoreJob, Fail
  <2>3. CASE inst'.status = LogStarting(inst.status) /\ job'.live
    <3>1. inst'.status.has = inst.status.has \cup {"Starting"}
      BY <1>0, <2>3, LogAdds
    <3> QED
      BY <1>3, <1>4, <2>1, <2>3, <3>1 DEF TellsOf, StopJustified, Runtime
  <2>4. CASE inst'.status = LogWarning(inst.status, "OperatorCreateJob")
    <3>1. inst'.status.has = inst.status.has \cup {"Warning"}
      BY <1>0, <2>4, LogAdds
    <3>2. Begun(inst.status)' => Begun(inst.status) \/ job'.live
      BY <2>2, <3>1 DEF Begun
    <3> QED
      BY <1>3, <1>4, <2>1, <3>1, <3>2 DEF TellsOf, StopJustified, Runtime
  <2>5. \/ inst'.status = LogStarting(inst.status) /\ job'.live
        \/ inst'.status = LogWarning(inst.status, "OperatorCreateJob")
        \/ inst' = NewOp
    <3>1. \/ inst' = [inst EXCEPT !.status = LogStarting(inst.status)] /\ job'.live
          \/ inst' = [inst EXCEPT !.status = LogWarning(inst.status, "OperatorCreateJob")]
          \/ inst' = NewOp
      BY <1>7 DEF createJob, StoreJob, CreateFailed, ReturnError, Forget
    <3> QED
      BY <1>2, <3>1
  <2> QED
    BY <1>5, <2>3, <2>4, <2>5
<1>8. CASE checkStatus
  <2>1. pc = "checkStatus"
    BY <1>8 DEF checkStatus
  <2>2. PICK podList : \/ inst' = NewOp
                       \/ inst'.status = reconcileJobStatus(inst.status, found.status, podList)
    BY <1>2, <1>8 DEF checkStatus, Return, Forget
  <2>3. CASE inst'.status = reconcileJobStatus(inst.status, found.status, podList)
    <3>1. /\ "Running" \in inst'.status.has =>
               "Running" \in inst.status.has \/ found.status.active
          /\ "Stopped" \notin inst'.status.has
      BY <1>0, <1>4, <2>1, <2>3, DecidedTells DEF Runtime
    <3>2. found.status.active => jobCache.live
      <4>1. ~NoJob.status.active
        BY DEF NoJob, NoJobStatus
      <4> QED
        BY <4>1 DEF StopsJustified, CopiesKnown
    <3>3. job.live
      BY <2>1 DEF StopsJustified, Established
    <3> QED
      BY <1>3, <3>1, <3>2, <3>3 DEF TellsOf, StopJustified
  <2> QED
    BY <1>5, <2>2, <2>3
<1> QED
  BY <1>6, <1>7, <1>8

\* What an operation tells of its batch Job stays true, however old the copies are,
\* so none is taken for a deleted one but one that was never seen.
LEMMA NextStopsJustified ==
  ASSUME InductiveInv, DecisionsJustified, JobCopiesCurrent, StopsJustified, [Next]_vars
  PROVE  StopsJustified'
<1> SUFFICES ASSUME removals' = 0, op'.life # "gone"
             PROVE  /\ CopiesKnown'
                    /\ (pc \in Established \/ Continues)' => job'.live
                    /\ TellsOf(op.status)' /\ TellsOf(opCache.status)' /\ TellsOf(inst.status)'
                    /\ OrderedWatches =>
                         /\ Begun(opCache.status)' => jobCache'.live
                         /\ pc' \in Undecided /\ Begun(inst.status)' => jobCache'.live
  BY DEF StopsJustified, TellsOf
<1>0. TypeOK
  BY DEF InductiveInv
<1>1. removals = 0 /\ op.life # "gone"
  BY <1>0, CountSteps, OpSteps
<1>2. /\ CopiesKnown
      /\ pc \in Established \/ Continues => job.live
      /\ TellsOf(op.status) /\ TellsOf(opCache.status) /\ TellsOf(inst.status)
      /\ OrderedWatches =>
           /\ Begun(opCache.status) => jobCache.live
           /\ pc \in Undecided /\ Begun(inst.status) => jobCache.live
  BY <1>1 DEF StopsJustified, TellsOf, CopiesKnown
<1>3. job.live => job'.live
  BY <1>0, JobStays
<1>4. jobCache.live => jobCache'.live
  BY <1>2, CopySteps DEF CopyStep, CopiesKnown
<1>5. CopiesKnown'
  <2>1. job.live \/ job = NoJob
    BY DEF DecisionsJustified
  <2>2. NoJob.live = FALSE
    BY DEF NoJob
  <2> QED
    BY <1>2, <1>3, <1>4, <2>1, <2>2, CopySteps DEF CopyStep, CopiesKnown
<1>6. (pc \in Established \/ Continues)' => job'.live
  BY <1>2, <1>3, EstablishedSteps DEF CopiesKnown
<1>7. ASSUME NEW status, TellsOf(status), NEW new, new.has = status.has, new.last = status.last
      PROVE  TellsOf(new)' /\ (Begun(new)' => Begun(status))
  BY <1>0, <1>3, <1>4, <1>7, CountSteps DEF TellsOf, StopJustified, Begun
<1>8. TellsOf(op.status)'
  BY <1>2, <1>7, OpStores DEF OpStep, TellsOf, StopJustified, Begun
<1>9. TellsOf(opCache.status)' /\ (OrderedWatches /\ Begun(opCache.status)' => jobCache'.live)
  <2>1. CASE opCache' = opCache
    <3>1. TellsOf(opCache.status)' /\ (Begun(opCache.status)' => Begun(opCache.status))
      BY <1>2, <1>7, <2>1 DEF TellsOf, StopJustified, Begun
    <3> QED
      BY <1>2, <1>4, <3>1
  <2>2. CASE opCache' = op /\ op' = op /\ job' = job /\ (OrderedWatches => jobCache' = job)
    <3>1. TellsOf(opCache.status)' /\ (Begun(opCache.status)' => Begun(op.status))
      BY <1>2, <1>7, <2>2 DEF TellsOf, StopJustified, Begun
    <3> QED
      BY <1>2, <2>2, <3>1 DEF TellsOf
  <2> QED
    BY <2>1, <2>2, OpCacheSteps
<1>10. /\ TellsOf(inst.status)'
       /\ OrderedWatches /\ pc' \in Undecided /\ Begun(inst.status)' => jobCache'.live
  <2>1. CASE inst' = NewOp
    <3>1. NewOp.status.has = {} /\ NewOp.status.last.type = "None"
      BY DEF NewOp, NewStatus, NoCondition
    <3> QED
      BY <2>1, <3>1 DEF TellsOf, StopJustified, Begun
  <2>2. CASE inst' = opCache
    <3>1. TellsOf(inst.status)' /\ (Begun(inst.status)' => Begun(opCache.status))
      BY <1>2, <1>7, <2>2 DEF TellsOf, StopJustified, Begun
    <3> QED
      BY <1>2, <1>4, <3>1
  <2>3. CASE /\ inst'.status.has = inst.status.has /\ inst'.status.last = inst.status.last
             /\ pc' \in Undecided => pc \in Undecided
    <3>1. TellsOf(inst.status)' /\ (Begun(inst.status)' => Begun(inst.status))
      BY <1>2, <1>7, <2>3 DEF TellsOf, StopJustified, Begun
    <3> QED
      BY <1>2, <1>4, <2>3, <3>1
  <2>4. CASE getJob \/ createJob \/ checkStatus
    <3>1. jobCache' = jobCache
      BY <2>4 DEF getJob, createJob, checkStatus, caches
    <3> QED
      BY <1>1, <1>3, <2>4, <3>1, DecisionTells
  <2> QED
    BY <2>1, <2>2, <2>3, <2>4, TellsSteps DEF TellsStep
<1> QED
  BY <1>5, <1>6, <1>8, <1>9, <1>10

(***************************************************************************)
(* The theorems.                                                           *)
(***************************************************************************)
\* The initial states satisfy ReportInv.
LEMMA InitReport == Init => ReportInv
<1> SUFFICES ASSUME Init PROVE ReportInv
  OBVIOUS
<1>1. InductiveInv
  BY InitType, InitPhases, InvParts
<1>2. /\ NewOp.life = "live" /\ NewOp.fins = {} /\ NewOp.status.has = {}
      /\ NewOp.status.last.type = "None"
  BY DEF NewOp, NewStatus, NoCondition
<1>3. NoJob.status.last = "None"
  BY DEF NoJob, NoJobStatus
<1>4. CopiesOlder /\ LastListed /\ StoppedPhase
  BY <1>2 DEF Init, CopiesOlder, Older, Agrees, IsDone, LastListed, StoppedPhase, FinalTypes
<1>5. HeardInTime /\ ReportedOutcome
  BY <1>2 DEF Init, HeardInTime, ReportedOutcome, IsDone
<1>6. DecisionsJustified
  BY <1>2, <1>3 DEF Init, DecisionsJustified, Justified
<1>7. JobCopiesCurrent
  BY DEF Init, JobCopiesCurrent
<1>8. StopsJustified
  BY <1>2 DEF Init, StopsJustified, CopiesKnown, StopJustified, Begun, Established, Continues
<1> QED
  BY <1>1, <1>4, <1>5, <1>6, <1>7, <1>8 DEF ReportInv

\* Every step preserves ReportInv.
LEMMA NextReport ==
  ASSUME ReportInv, [Next]_vars
  PROVE  ReportInv'
BY NextInv, NextCopiesOlder, NextLastListed, NextStoppedPhase, NextHeardInTime,
   NextReportedOutcome, NextDecisionsJustified, NextJobCopies, NextStopsJustified
   DEF ReportInv

\* However old the caches are and whatever fails, the reconciler's copies never
\* say more about the end of the operation than the stored resource, reports and
\* decisions follow from it, and an outcome is heard before the operation leaves.
THEOREM ReportInvariance == Spec => []ReportInv
<1>1. Init => ReportInv
  BY InitReport
<1>2. ReportInv /\ [Next]_vars => ReportInv'
  BY NextReport
<1> QED
  BY <1>1, <1>2, PTL DEF Spec

\* The control plane never hears of a final status that is not the one recorded;
\* only an operation deleted unfinished is reported Stopped (syncStatus,
\* handleFinalizers).
THEOREM ReportedOutcomeHolds == Spec => []ReportedOutcome
<1>1. ReportInv => ReportedOutcome
  BY DEF ReportInv
<1> QED
  BY <1>1, ReportInvariance, PTL

\* Without failures an operation that had a finalizer is gone only after the
\* control plane has heard a final status.
THEOREM FinalReportBeforeGoneHolds == Spec => []FinalReportBeforeGone
<1>1. ReportInv => FinalReportBeforeGone
  BY DEF ReportInv, HeardInTime, Heard, FinalReportBeforeGone
<1> QED
  BY <1>1, ReportInvariance, PTL

\* As long as no batch Job was removed, an operation ends as its batch Job or its
\* pods did: reconcileJobStatus on a stale copy never decides otherwise.  Nor does
\* MarkJobAsDeleted when the operation was seen running, and with ordered watches
\* it ends only one whose first call failed.
THEOREM OutcomeMatchesJobHolds == Spec => []OutcomeMatchesJob
<1>1. ReportInv => OutcomeMatchesJob
  <2> SUFFICES ASSUME ReportInv, removals = 0, op.life # "gone"
               PROVE  /\ Justified(op.status)
                      /\ "Stopped" \in op.status.has =>
                           /\ "Running" \notin op.status.has
                           /\ OrderedWatches => "Starting" \notin op.status.has /\ faults > 0
    BY DEF OutcomeMatchesJob, Justified, JobSpoilt
  <2>1. Justified(op.status) /\ StopJustified(op.status)
    BY DEF ReportInv, DecisionsJustified, StopsJustified
  <2>2. "Stopped" \in op.status.has => op.status.last.type # "None"
    BY DEF ReportInv, InductiveInv, StatusesWellFormed, WellFormed, IsDone, FinalTypes
  <2>3. faults \in Nat
    BY DEF ReportInv, InductiveInv, TypeOK, CountsOK
  <2> QED
    BY <2>1, <2>2, <2>3 DEF StopJustified, Begun
<1> QED
  BY <1>1, ReportInvariance, PTL

(***************************************************************************)
(* What NoLostWakeup needs: the queue, the caches and the pass account for *)
(* everything that the operation still waits for.                          *)
(***************************************************************************)
\* Nothing about the operation or the batch Job is still to be delivered.
Quiet == ~queued /\ {"opCache", "jobCache"} \subseteq current

\* The finalizers that are switched on are on this copy.
Guarded(copy) ==
  /\ EnableLogsFinalizers => "logs" \in copy.fins
  /\ EnableStatusFinalizers => "status" \in copy.fins

\* There is nothing to do for the operation, as the caches show it.
Rested ==
  /\ op.life = "live" /\ ~IsDone(op.status) =>
       /\ Guarded(op) /\ job.live
       /\ \E podList \in Orders(podCache) :
            reconcileJobStatus(op.status, job.status, podList) = op.status
  /\ op.life = "live" /\ IsDone(op.status) => timer
  /\ op.life = "deleting" => faults > 0

\* When nothing is to be delivered, a pass has current copies and has come past
\* what its label says, or is to end in an error or in a write that changes the
\* operation; and without a pass there is nothing to do.
Accounted ==
  Quiet =>
    /\ IF pc = "idle" THEN Rested ELSE "inst" \in current
    /\ pc \in {"getJob", "createJob", "updateJob", "checkStatus"} => Guarded(inst)
    /\ pc \in {"updateJob", "checkStatus"} => "found" \in current /\ found.live
    /\ pc # "writeStarting"
    /\ pc = "sync" => then = "error"

\* These two writes change the operation.
WritesChange ==
  /\ pc = "removeFinalizer" => inst.fins # {}
  /\ pc = "write" /\ then = "done" /\ "inst" \in current => inst.status # op.status

\* The inductive invariant, on top of InductiveInv.
WakeInv == Accounted /\ JobCopiesCurrent /\ WritesChange

\* The labels of a dispatch, and what the last of them has come past.
LEMMA DispatchLabels ==
  ASSUME NEW copy
  PROVE  /\ Dispatch(copy) \in {"collect", "syncStopped", "addLogs", "addStatus", "getJob"}
         /\ Dispatch(copy) = "getJob" => Guarded(copy)
BY DEF Dispatch, Guarded

\* A batch Job that was deleted is an end, so an unfinished status changes.
LEMMA DeletedChanges ==
  ASSUME NEW status \in OperationStatusType, ~IsDone(status)
  PROVE  MarkJobAsDeleted(status) # status
<1>1. "Stopped" \in MarkJobAsDeleted(status).has
  BY DEF MarkJobAsDeleted, LogStopped, logCondition, OperationStatusType
<1> QED
  BY <1>1 DEF IsDone, FinalTypes

\* A write that is about to be made still changes the operation.
LEMMA NextWritesChange ==
  ASSUME InductiveInv, WritesChange, [Next]_vars
  PROVE  WritesChange'
<1>0. inst \in Op
  BY DEF InductiveInv, TypeOK, WorkerOK
<1>a. ASSUME pc' \notin {"removeFinalizer", "write"} PROVE WritesChange'
  BY <1>a DEF WritesChange
<1>b. ASSUME pc' = pc, then' = then, inst' = inst,
             "inst" \in current' => "inst" \in current /\ op' = op
      PROVE  WritesChange'
  BY <1>b DEF WritesChange
<1>1. CASE Fetch
  BY <1>a, <1>1, DispatchLabels DEF Fetch, worker
<1>2. CASE AddStartTime
  BY <1>a, <1>2, WriteInst, DispatchLabels DEF AddStartTime, Goto
<1>3. CASE AddLogsFinalizer
  BY <1>a, <1>3, WriteInst, DispatchLabels DEF AddLogsFinalizer, AddFinalizer, Goto
<1>4. CASE AddStatusFinalizer
  BY <1>a, <1>4, WriteInst, DispatchLabels DEF AddStatusFinalizer, AddFinalizer, Goto
<1>5. CASE removeFinalizer
  BY <1>a, <1>5, WriteInst DEF removeFinalizer, Goto, Return, Forget
<1>6. CASE writeStatus
  BY <1>a, <1>6, WriteInst DEF writeStatus, Goto
<1>7. CASE writeStarting
  BY <1>a, <1>7 DEF writeStarting
<1>8. CASE handleTTL
  BY <1>a, <1>8 DEF handleTTL, Return, ReturnError, Forget
<1>9. CASE handleFinalizersStop \/ updateJob \/ instanceSyncStatus
  BY <1>a, <1>9
     DEF handleFinalizersStop, updateJob, instanceSyncStatus, Goto, Return, ReturnError, Forget
<1>10. CASE collectLogs
  <2>1. pc' = "removeFinalizer" => inst' = inst /\ inst.fins # {}
    BY <1>10 DEF collectLogs, AfterFinalizers, Goto, Return, Forget
  <2>2. pc' # "write"
    BY <1>10 DEF collectLogs, AfterFinalizers, Goto, Return, Forget
  <2> QED
    BY <2>1, <2>2 DEF WritesChange
<1>11. CASE getJob
  <2>1. CASE pc' = "write" /\ "inst" \in current'
    <3>1. "inst" \in current /\ inst' = [inst EXCEPT !.status = MarkJobAsDeleted(@)] /\ op' = op
      BY <1>11, <2>1 DEF getJob, cluster
    <3>2. inst.status = op.status /\ ~IsDone(inst.status)
      BY <1>11, <3>1 DEF getJob, InductiveInv, CopiesCurrent, RuntimePhase, Runtime, Writing
    <3> QED
      BY <1>0, <2>1, <3>1, <3>2, DeletedChanges DEF WritesChange, Op
  <2>2. CASE ~(pc' = "write" /\ "inst" \in current')
    BY <1>11, <2>2 DEF getJob, WritesChange
  <2> QED
    BY <2>1, <2>2
<1>12. CASE createJob
  <2>1. pc' = "write" => then' = "error"
    BY <1>12 DEF createJob, CreateFailed, Goto, ReturnError, Forget
  <2>2. pc' # "removeFinalizer"
    BY <1>12 DEF createJob, CreateFailed, Goto, ReturnError, Forget
  <2> QED
    BY <2>1, <2>2 DEF WritesChange
<1>13. CASE checkStatus
  <2>1. CASE pc' = "write" /\ "inst" \in current'
    <3>1. PICK new : new # inst.status /\ inst' = [inst EXCEPT !.status = new]
      BY <1>13, <2>1 DEF checkStatus, Return, Forget
    <3>2. "inst" \in current /\ op' = op
      BY <1>13, <2>1 DEF checkStatus, Keep, cluster
    <3>3. inst.status = op.status
      BY <1>13, <3>2 DEF checkStatus, InductiveInv, CopiesCurrent, Writing
    <3> QED
      BY <1>0, <2>1, <3>1, <3>2, <3>3 DEF WritesChange, Op
  <2>2. CASE ~(pc' = "write" /\ "inst" \in current')
    BY <1>13, <2>2 DEF checkStatus, WritesChange, Return, Forget
  <2> QED
    BY <2>1, <2>2
<1>14. CASE Watch \/ Resync \/ RequeueAfter \/ TTLPasses
  BY <1>b, <1>14
     DEF Watch, WatchOp, WatchJob, mapPodToRequest, Resync, RequeueAfter, TTLPasses,
         local, worker, cluster
<1>15. CASE Crash
  BY <1>a, <1>15 DEF Crash, Forget
<1>16. CASE UserDeletes
  BY <1>b, <1>16 DEF UserDeletes, local, worker, OpCopies
<1>17. CASE PodMoves \/ JobStartsPod \/ JobCounts \/ JobDeadline \/ JobTTL \/ JobDeleted
            \/ JobCollected
  BY <1>b, <1>17
     DEF PodMoves, JobStartsPod, JobCounts, JobDeadline, JobTTL, JobDeleted, JobCollected,
         DropJob, SetJobStatus, kubelet, worker
<1>18. CASE UNCHANGED vars
  BY <1>b, <1>18 DEF vars, worker, cluster
<1> QED
  BY <1>1, <1>2, <1>3, <1>4, <1>5, <1>6, <1>7, <1>8, <1>9, <1>10, <1>11, <1>12, <1>13, <1>14,
     <1>15, <1>16, <1>17, <1>18
     DEF Next, Reconcile, World

\* A write that leaves nothing to be delivered was accepted and changed nothing.
LEMMA WriteQuiet ==
  ASSUME NEW new, NEW ACTION After, Write(new, After), Quiet'
  PROVE  /\ Put(new) /\ op' = op /\ After
         /\ op.life # "gone" /\ "inst" \in current
         /\ pc' # "idle" => "inst" \in current'
<1>1. ~ReturnError
  BY DEF Quiet, ReturnError
<1>2. Current /\ Put(new) /\ After /\ Keep(Unchanged \cup {"inst"})
  BY <1>1 DEF Write
<1>3. "opCache" \in current'
  BY DEF Quiet
<1>4. op' = op
  BY <1>2, <1>3 DEF Keep, Unchanged, OpCopies
<1> QED
  BY <1>2, <1>4 DEF Keep, Current

\* Whatever changes the operation or the batch Job makes a cache old; what the
\* caches take over is queued.
LEMMA QuietSteps ==
  ASSUME TypeOK, [Next]_vars, ~Fetch, Quiet'
  PROVE  /\ Quiet /\ op' = op /\ job' = job /\ podCache' = podCache
         /\ faults > 0 => faults' > 0
         /\ timer => timer'
<1>0. queued \in BOOLEAN /\ queued' = FALSE /\ {"opCache", "jobCache"} \subseteq current'
  BY DEF Quiet, TypeOK, WorkerOK
<1>0a. faults \in Nat
  BY DEF TypeOK, CountsOK
<1>a. ASSUME NEW new, NEW ACTION After, Write(new, After),
             After => UNCHANGED queued,
             UNCHANGED <<caches, timer, expired, plane, crashes, removals>>
      PROVE  /\ Quiet /\ op' = op /\ job' = job /\ podCache' = podCache
             /\ faults > 0 => faults' > 0
             /\ timer => timer'
  <2>1. Put(new) /\ op' = op /\ After
    BY <1>a, WriteQuiet
  <2>2. queued' = queued /\ job' = job
    BY <1>a, <2>1 DEF Put
  <2>3. {"opCache", "jobCache"} \subseteq current
    BY <1>0, <1>a, <2>1 DEF Write, Keep, Unchanged, OpCopies
  <2>4. faults > 0 => faults' > 0
    BY <1>0a, <1>a DEF Write, Fail
  <2> QED
    BY <1>0, <1>a, <2>1, <2>2, <2>3, <2>4 DEF Quiet, caches
<1>2. CASE AddStartTime
  BY <1>a, <1>2 DEF AddStartTime, Goto
<1>3. CASE AddLogsFinalizer
  BY <1>a, <1>3 DEF AddLogsFinalizer, AddFinalizer, Goto
<1>4. CASE AddStatusFinalizer
  BY <1>a, <1>4 DEF AddStatusFinalizer, AddFinalizer, Goto
<1>5. CASE removeFinalizer
  BY <1>a, <1>5 DEF removeFinalizer, Goto, Return
<1>6. CASE writeStatus
  BY <1>a, <1>6 DEF writeStatus, Goto
<1>7. CASE writeStarting
  <2>1. queued' = queued /\ job' = job /\ podCache' = podCache /\ timer' = timer
    BY <1>7 DEF writeStarting, Put, cluster, caches
  <2>2. op' = op /\ {"opCache", "jobCache"} \subseteq current
    BY <1>0, <1>7 DEF writeStarting, Keep, Unchanged, OpCopies, cluster
  <2>3. faults > 0 => faults' > 0
    BY <1>0a, <1>7 DEF writeStarting, Fail
  <2> QED
    BY <1>0, <2>1, <2>2, <2>3 DEF Quiet
<1>8. CASE handleTTL
  <2>1. queued' = queued /\ job' = job /\ podCache' = podCache /\ (timer => timer')
    BY <1>0, <1>8 DEF handleTTL, DeleteOp, Put, Return, ReturnError, cluster, caches
  <2>2. op' = op /\ {"opCache", "jobCache"} \subseteq current
    <3>1. Keep(Unchanged) \/ (Keep(current) /\ op' = op)
      BY <1>8 DEF handleTTL, cluster
    <3> QED
      BY <1>0, <3>1 DEF Keep, Unchanged, OpCopies
  <2>3. faults > 0 => faults' > 0
    BY <1>0a, <1>8 DEF handleTTL, Fail
  <2> QED
    BY <1>0, <2>1, <2>2, <2>3 DEF Quiet
<1>9. CASE handleFinalizersStop \/ collectLogs \/ updateJob \/ instanceSyncStatus
  <2>1. queued' = queued /\ op' = op /\ job' = job /\ podCache' = podCache /\ timer' = timer
    BY <1>0, <1>9
       DEF handleFinalizersStop, collectLogs, AfterFinalizers, updateJob, instanceSyncStatus,
           Goto, Return, ReturnError, cluster, caches
  <2>2. {"opCache", "jobCache"} \subseteq current
    BY <1>0, <1>9
       DEF handleFinalizersStop, collectLogs, updateJob, instanceSyncStatus, Keep
  <2>3. faults > 0 => faults' > 0
    BY <1>0a, <1>9
       DEF handleFinalizersStop, collectLogs, updateJob, instanceSyncStatus, syncStatus, Fail
  <2> QED
    BY <1>0, <2>1, <2>2, <2>3 DEF Quiet
<1>10. CASE getJob \/ checkStatus
  <2>1. /\ queued' = queued /\ op' = op /\ job' = job /\ podCache' = podCache /\ timer' = timer
        /\ faults' = faults
    BY <1>10 DEF getJob, checkStatus, Return, cluster, caches
  <2>2. {"opCache", "jobCache"} \subseteq current
    BY <1>0, <1>10 DEF getJob, checkStatus, Keep
  <2> QED
    BY <1>0, <2>1, <2>2 DEF Quiet
<1>11. CASE createJob
  <2>1. queued' = queued /\ op' = op /\ podCache' = podCache /\ timer' = timer
    BY <1>0, <1>11 DEF createJob, CreateFailed, Goto, ReturnError, caches
  <2>2. job' = job /\ {"opCache", "jobCache"} \subseteq current
    BY <1>0, <1>11 DEF createJob, Keep, JobCopies
  <2>3. faults > 0 => faults' > 0
    BY <1>0a, <1>11 DEF createJob, Fail
  <2> QED
    BY <1>0, <2>1, <2>2, <2>3 DEF Quiet
<1>12. CASE Watch \/ Resync \/ RequeueAfter \/ Crash
  BY <1>0, <1>12 DEF Watch, WatchOp, WatchJob, mapPodToRequest, Resync, RequeueAfter, Crash
<1>13. CASE UserDeletes
  BY <1>0, <1>13 DEF UserDeletes, OpCopies
<1>14. CASE JobCounts \/ JobDeadline \/ JobTTL \/ JobDeleted \/ JobCollected
  BY <1>0, <1>14
     DEF JobCounts, JobDeadline, JobTTL, JobDeleted, JobCollected, DropJob, SetJobStatus, JobCopies
<1>15. CASE PodMoves \/ JobStartsPod \/ TTLPasses
  BY <1>15 DEF PodMoves, JobStartsPod, TTLPasses, kubelet, cluster, caches, Quiet
<1>16. CASE UNCHANGED vars
  BY <1>16 DEF vars, cluster, caches, Quiet
<1> QED
  BY <1>2, <1>3, <1>4, <1>5, <1>6, <1>7, <1>8, <1>9, <1>10, <1>11, <1>12, <1>13, <1>14,
     <1>15, <1>16
     DEF Next, Reconcile, World

\* What a pass that goes on has to show.
GoesOn ==
  /\ pc # "idle" /\ "inst" \in current
  /\ pc \in {"getJob", "createJob", "updateJob", "checkStatus"} => Guarded(inst)
  /\ pc \in {"updateJob", "checkStatus"} => "found" \in current /\ found.live
  /\ pc # "writeStarting"
  /\ pc = "sync" => then = "error"

\* Every step leaves the account in order.
LEMMA NextAccounted ==
  ASSUME InductiveInv, WakeInv, [Next]_vars
  PROVE  Accounted'
<1> SUFFICES ASSUME Quiet' PROVE (IF pc = "idle" THEN Rested ELSE GoesOn)'
  BY DEF Accounted, GoesOn
<1>0. op \in Op /\ inst \in Op /\ opCache \in Op
  BY DEF InductiveInv, TypeOK, ClusterOK, WorkerOK, CachesOK
<1>1. CASE Fetch
  <2>1. "opCache" \in current /\ opCache = op /\ op' = op /\ pc = "idle"
    <3>1. "opCache" \in current' /\ op' = op /\ pc = "idle"
      BY <1>1 DEF Quiet, Fetch, cluster
    <3>2. "opCache" \in current
      BY <1>1, <3>1 DEF Fetch, Keep
    <3> QED
      BY <3>1, <3>2 DEF InductiveInv, CopiesCurrent
  <2>2. CASE opCache.life = "gone"
    BY <1>1, <2>1, <2>2 DEF Fetch, worker, Rested
  <2>3. CASE opCache.life # "gone"
    <3>1. inst' = opCache /\ (pc' = "addStart" \/ pc' = Dispatch(opCache)) /\ "inst" \in current'
      BY <1>1, <2>1, <2>3, DispatchLabels DEF Fetch, Keep
    <3> QED
      BY <3>1, DispatchLabels DEF GoesOn, Guarded
  <2> QED
    BY <2>2, <2>3
<1>2. CASE ~Fetch
  <2>1. /\ Quiet /\ op' = op /\ job' = job /\ podCache' = podCache
        /\ faults > 0 => faults' > 0
        /\ timer => timer'
    BY <1>2, QuietSteps DEF InductiveInv
  <2>2. IF pc = "idle" THEN Rested ELSE GoesOn
    BY <2>1 DEF WakeInv, Accounted, GoesOn
  <2>3. ASSUME Rested PROVE Rested'
    BY <2>1, <2>3 DEF Rested, Guarded
  <2>a. ASSUME pc' = pc, inst' = inst, found' = found, then' = then, current \subseteq current'
        PROVE  (IF pc = "idle" THEN Rested ELSE GoesOn)'
    BY <2>2, <2>3, <2>a DEF GoesOn, Guarded
  \* A write made from a current copy that changes nothing.
  <2>b. ASSUME NEW new \in Op, NEW ACTION After, Write(new, After), pc \notin Writing,
               new.life = inst.life
        PROVE  /\ After /\ new = op /\ op.fins = inst.fins /\ inst.life # "gone"
               /\ pc' # "idle" => "inst" \in current'
    <3>1. /\ Put(new) /\ After /\ op.life # "gone" /\ "inst" \in current
          /\ pc' # "idle" => "inst" \in current'
      BY <2>b, WriteQuiet
    <3>2. inst.life = op.life /\ inst.fins = op.fins
      BY <3>1 DEF InductiveInv, CopiesCurrent
    <3>3. op = new
      BY <1>0, <2>1, <2>b, <3>1, <3>2 DEF Put, Op
    <3> QED
      BY <3>1, <3>2, <3>3
  <2>4. CASE AddStartTime
    <3> DEFINE new == [inst EXCEPT !.status.start = TRUE]
    <3>1. new \in Op /\ new.life = inst.life
      BY <1>0 DEF Op, OperationStatusType
    <3>2. Write(new, inst' = op' /\ Goto(Dispatch(new))) /\ pc \notin Writing
      BY <2>4 DEF AddStartTime, Writing
    <3> HIDE DEF new
    <3>3. inst' = new /\ pc' = Dispatch(new) /\ "inst" \in current'
      BY <2>1, <2>b, <3>1, <3>2, DispatchLabels DEF Goto
    <3> QED
      BY <3>3, DispatchLabels DEF GoesOn, Guarded
  <2>5. CASE AddLogsFinalizer \/ AddStatusFinalizer
    <3>1. PICK finalizer \in Finalizers :
            Write([inst EXCEPT !.fins = @ \cup {finalizer}],
                  inst' = op' /\ Goto(Dispatch([inst EXCEPT !.fins = @ \cup {finalizer}])))
      BY <2>5 DEF AddLogsFinalizer, AddStatusFinalizer, AddFinalizer, Finalizers
    <3> DEFINE new == [inst EXCEPT !.fins = @ \cup {finalizer}]
    <3>2. new \in Op /\ new.life = inst.life
      BY <1>0 DEF Op
    <3>3. Write(new, inst' = op' /\ Goto(Dispatch(new))) /\ pc \notin Writing
      BY <2>5, <3>1 DEF AddLogsFinalizer, AddStatusFinalizer, AddFinalizer, Writing
    <3> HIDE DEF new
    <3>4. inst' = new /\ pc' = Dispatch(new) /\ "inst" \in current'
      BY <2>1, <2>b, <3>2, <3>3, DispatchLabels DEF Goto
    <3> QED
      BY <3>4, DispatchLabels DEF GoesOn, Guarded
  <2>6. CASE removeFinalizer
    <3> DEFINE first == IF "logs" \in inst.fins THEN "logs" ELSE "status"
               new   == [inst EXCEPT !.fins = @ \ {first}]
               After == IF inst.life = "deleting" THEN Return ELSE inst' = op' /\ Goto("cleanup")
    <3>1. /\ new \in Op /\ new.life = inst.life
          /\ inst.fins # {} => new.fins # inst.fins
      BY <1>0 DEF Op, Finalizers
    <3>2. Write(new, After) /\ pc \notin Writing /\ inst.fins # {}
      BY <2>6 DEF removeFinalizer, Writing, WakeInv, WritesChange
    <3> HIDE DEF new, After
    <3> QED
      BY <2>b, <3>1, <3>2
  <2>7. CASE writeStatus
    <3>1. /\ Put(inst) /\ inst' = op' /\ Goto("sync") /\ "inst" \in current
          /\ pc' # "idle" => "inst" \in current'
      BY <2>7, WriteQuiet DEF writeStatus
    <3>2. pc = "write" /\ pc' = "sync" /\ then' = then
      BY <2>7, <3>1 DEF writeStatus, Goto
    <3>3. inst.life = "live"
      BY <3>2 DEF InductiveInv, RuntimePhase, Writing
    <3>4. op.status = inst.status
      BY <1>0, <2>1, <3>1, <3>3 DEF Put
    <3>5. then = "error"
      BY <3>1, <3>2, <3>4
         DEF InductiveInv, TypeOK, WorkerOK, RuntimePhase, WakeInv, WritesChange
    <3> QED
      BY <3>1, <3>2, <3>5 DEF GoesOn
  <2>8. CASE writeStarting
    BY <2>1, <2>8 DEF writeStarting, WakeInv, Accounted
  <2>9. CASE handleTTL
    <3>1. pc' = "idle" /\ pc = "cleanup" /\ "inst" \in current
      BY <2>2, <2>9 DEF handleTTL, Return, ReturnError, Forget, GoesOn
    <3>2. op.life = "live" /\ IsDone(op.status)
      BY <3>1 DEF InductiveInv, CopiesCurrent, EndingPhase, Ending, Writing
    <3>3. ~DeleteOp
      <4>1. ASSUME DeleteOp PROVE FALSE
        <5>1. op'.life # "live"
          BY <1>0, <4>1 DEF DeleteOp, Put, Op
        <5> QED
          BY <2>1, <3>2, <5>1
      <4> QED
        BY <4>1
    <3>4. ~ReturnError
      BY DEF Quiet, ReturnError
    <3>5. timer'
      BY <2>9, <3>3, <3>4 DEF handleTTL
    <3> QED
      BY <2>1, <3>1, <3>2, <3>5 DEF Rested
  <2>10. CASE handleFinalizersStop
    BY <2>2, <2>10 DEF handleFinalizersStop, Goto, GoesOn
  <2>11. CASE collectLogs
    <3>1. pc = "collect" /\ "inst" \in current
      BY <2>2, <2>11 DEF collectLogs, GoesOn
    <3>2. inst.life = op.life /\ inst.fins = op.fins
      BY <3>1 DEF InductiveInv, CopiesCurrent
    <3>3. CASE pc' = "idle"
      <4>1. op.life = "deleting"
        BY <2>11, <3>2, <3>3 DEF collectLogs, AfterFinalizers, Goto
      <4>2. op.fins # {} /\ op.fins \subseteq Finalizers
        BY <1>0, <4>1 DEF InductiveInv, Lives, Op
      <4>3. Fail
        BY <2>11, <3>2, <3>3, <4>2 DEF collectLogs, Goto
      <4>4. faults' > 0
        BY <4>3 DEF Fail, InductiveInv, TypeOK, CountsOK
      <4> QED
        BY <2>1, <3>3, <4>1, <4>4 DEF Rested
    <3>4. CASE pc' # "idle"
      <4>1. pc' \in {"removeFinalizer", "cleanup"}
        BY <2>11, <3>4 DEF collectLogs, AfterFinalizers, Goto, Return, Forget
      <4>2. "inst" \in current'
        BY <2>11, <3>1, <3>4 DEF collectLogs, Keep
      <4> QED
        BY <4>1, <4>2 DEF GoesOn
    <3> QED
      BY <3>3, <3>4
  <2>12. CASE getJob
    <3>1. pc = "getJob" /\ "inst" \in current /\ Guarded(inst) /\ "jobCache" \in current
      BY <2>1, <2>2, <2>12 DEF getJob, GoesOn, Quiet
    <3>2. CASE jobCache.live /\ found' = jobCache /\ pc' = "updateJob"
      <4>1. inst' = inst /\ {"inst", "found"} \subseteq current'
        BY <2>12, <3>1, <3>2 DEF getJob, Keep
      <4> QED
        BY <3>1, <3>2, <4>1 DEF GoesOn, Guarded
    <3>3. CASE pc' = "write" /\ UNCHANGED current
      BY <3>1, <3>3 DEF GoesOn
    <3>4. CASE pc' = "createJob" /\ UNCHANGED <<inst, current>>
      BY <3>1, <3>4 DEF GoesOn, Guarded
    <3> QED
      BY <2>12, <3>2, <3>3, <3>4 DEF getJob
  <2>13. CASE createJob
    <3>1. pc = "createJob" /\ "inst" \in current
      BY <2>2, <2>13 DEF createJob, GoesOn
    <3>2. ~ReturnError
      BY DEF Quiet, ReturnError
    <3>3. "jobCache" \in current'
      BY DEF Quiet
    <3>4. CreateFailed
      BY <2>13, <3>3 DEF createJob, Keep, JobCopies
    <3>5. pc' = "write"
      BY <3>2, <3>4 DEF CreateFailed
    <3>6. "inst" \in current'
      BY <2>13, <3>1, <3>5 DEF createJob, Keep, JobCopies
    <3> QED
      BY <3>5, <3>6 DEF GoesOn
  <2>14. CASE updateJob
    <3>1. pc = "updateJob" /\ {"inst", "found"} \subseteq current /\ Guarded(inst) /\ found.live
      BY <2>2, <2>14 DEF updateJob, GoesOn
    <3>2. ~ReturnError
      BY DEF Quiet, ReturnError
    <3>3. pc' = "checkStatus" /\ UNCHANGED <<inst, found>>
      BY <2>14, <3>2 DEF updateJob, Goto
    <3>4. current' = current
      BY <2>14, <3>3 DEF updateJob, Keep
    <3> QED
      BY <3>1, <3>3, <3>4 DEF GoesOn, Guarded
  <2>15. CASE checkStatus
    <3>1. pc = "checkStatus" /\ {"inst", "found"} \subseteq current /\ Guarded(inst) /\ found.live
      BY <2>2, <2>15 DEF checkStatus, GoesOn
    <3>2. /\ inst.life = op.life /\ inst.fins = op.fins /\ inst.status = op.status
          /\ op.life = "live" /\ ~IsDone(op.status)
      BY <3>1 DEF InductiveInv, CopiesCurrent, RuntimePhase, Runtime, Writing
    <3>3. found = job
      BY <3>1 DEF WakeInv, JobCopiesCurrent
    <3>4. PICK podList \in Orders(podCache) :
            IF reconcileJobStatus(inst.status, found.status, podList) = inst.status
            THEN Return ELSE pc' = "write"
      BY <2>15 DEF checkStatus
    <3>5. CASE pc' = "write"
      <4>1. "inst" \in current'
        BY <2>15, <3>1, <3>5 DEF checkStatus, Keep
      <4> QED
        BY <3>5, <4>1 DEF GoesOn
    <3>6. CASE Return /\ reconcileJobStatus(op.status, job.status, podList) = op.status
      <4>1. Guarded(op)
        BY <3>1, <3>2 DEF Guarded
      <4>2. Rested
        BY <3>1, <3>2, <3>3, <3>6, <4>1 DEF Rested
      <4> QED
        BY <2>3, <3>6, <4>2 DEF Return, Forget
    <3> QED
      BY <3>2, <3>3, <3>4, <3>5, <3>6
  <2>16. CASE instanceSyncStatus
    <3>1. pc = "sync" /\ then = "error"
      BY <2>2, <2>16 DEF instanceSyncStatus, GoesOn
    <3>2. ReturnError
      BY <2>16, <3>1 DEF instanceSyncStatus
    <3> QED
      BY <3>2 DEF Quiet, ReturnError
  <2>17. CASE Watch \/ Resync \/ RequeueAfter \/ Crash
    BY <2>17 DEF Watch, WatchOp, WatchJob, mapPodToRequest, Resync, RequeueAfter, Crash, Quiet
  <2>18. CASE UserDeletes
    BY <2>18 DEF UserDeletes, OpCopies, Quiet
  <2>19. CASE JobCounts \/ JobDeadline \/ JobTTL \/ JobDeleted \/ JobCollected
    BY <2>19
       DEF JobCounts, JobDeadline, JobTTL, JobDeleted, JobCollected, DropJob, SetJobStatus,
           JobCopies, Quiet
  <2>20. CASE PodMoves \/ JobStartsPod \/ TTLPasses
    BY <2>a, <2>20 DEF PodMoves, JobStartsPod, TTLPasses, kubelet, worker
  <2>21. CASE UNCHANGED vars
    BY <2>a, <2>21 DEF vars, worker
  <2> QED
    BY <1>2, <2>4, <2>5, <2>6, <2>7, <2>8, <2>9, <2>10, <2>11, <2>12, <2>13, <2>14, <2>15, <2>16,
       <2>17, <2>18, <2>19, <2>20, <2>21
       DEF Next, Reconcile, World
<1> QED
  BY <1>1, <1>2

\* In every reachable state the queue, the caches and the pass account for what
\* the operation waits for.
THEOREM WakeInvariance == Spec => [](InductiveInv /\ WakeInv)
<1>1. Init => WakeInv
  BY DEF Init, WakeInv, Accounted, Quiet, JobCopiesCurrent, WritesChange
<1>2. Init => InductiveInv
  BY InitType, InitPhases, InvParts
<1>3. InductiveInv /\ WakeInv /\ [Next]_vars => WakeInv'
  BY NextAccounted, NextJobCopies, NextWritesChange DEF WakeInv
<1> QED
  BY <1>1, <1>2, <1>3, NextInv, PTL DEF Spec

\* NoLostWakeup: when the queue is empty and the caches are current, the
\* reconciler would leave everything as it is.
THEOREM NoLostWakeupHolds == Spec => []NoLostWakeup
<1>1. WakeInv => NoLostWakeup
  BY DEF WakeInv, Accounted, Quiet, Rested, Guarded, NoLostWakeup, Settled
<1> QED
  BY <1>1, WakeInvariance, PTL

(***************************************************************************)
(* What ReportIsCurrent needs: what has been heard follows what is stored. *)
(***************************************************************************)
\* Nothing has failed or been removed.
Smooth ==
  removals = 0 /\ faults = 0 /\ crashes = 0 /\ SyncStatuses /\ op.life # "gone"

\* No condition has been logged.
Blank(status) == status.has = {} /\ status.last = NoCondition

\* The batch Job comes first: until it is there nothing is logged, and when
\* Starting is written nothing has been logged before.
JobFirst ==
  Smooth =>
    /\ ~job.live =>
         /\ Blank(op.status) /\ Blank(opCache.status) /\ Blank(inst.status)
         /\ ~jobCache.live
         /\ pc \notin Found \cup {"writeStarting"}
    /\ pc = "writeStarting" => op.status.has = {}

\* The control plane has heard the last condition, unless it is just about to.
Followed ==
  Smooth /\ op.life = "live" /\ op.status.has # {} =>
    IF pc = "sync" THEN inst.status.last = op.status.last
    ELSE latest = op.status.last.type

\* The inductive invariant, on top of ReportInv.
FollowInv == JobFirst /\ Followed

\* The labels after getJob, and writeStarting, are entered from getJob and
\* createJob.
LEMMA EntrySteps ==
  ASSUME pc \notin Found \cup {"writeStarting"}, pc' \in Found \cup {"writeStarting"}, [Next]_vars
  PROVE  getJob \/ createJob
<1>1. CASE Fetch
  BY <1>1, DispatchLabels DEF Fetch, Found, worker
<1>2. CASE AddStartTime
  BY <1>2, WriteInst, DispatchLabels DEF AddStartTime, Goto, Found
<1>3. CASE AddLogsFinalizer
  BY <1>3, WriteInst, DispatchLabels DEF AddLogsFinalizer, AddFinalizer, Goto, Found
<1>4. CASE AddStatusFinalizer
  BY <1>4, WriteInst, DispatchLabels DEF AddStatusFinalizer, AddFinalizer, Goto, Found
<1>5. CASE removeFinalizer
  BY <1>5, WriteInst DEF removeFinalizer, Goto, Return, Forget, Found
<1>6. CASE handleFinalizersStop \/ collectLogs \/ handleTTL \/ Crash
  BY <1>6
     DEF handleFinalizersStop, collectLogs, AfterFinalizers, handleTTL, Crash, Goto, Return,
         ReturnError, Forget, Found
<1>7. CASE writeStarting \/ updateJob \/ checkStatus \/ writeStatus \/ instanceSyncStatus
  BY <1>7 DEF writeStarting, updateJob, checkStatus, writeStatus, instanceSyncStatus, Found
<1>8. CASE Watch \/ Resync \/ RequeueAfter \/ TTLPasses \/ UserDeletes
  BY <1>8
     DEF Watch, WatchOp, WatchJob, mapPodToRequest, Resync, RequeueAfter, TTLPasses, UserDeletes,
         local, worker
<1>9. CASE PodMoves \/ JobStartsPod \/ JobCounts \/ JobDeadline \/ JobTTL \/ JobDeleted
            \/ JobCollected
  BY <1>9
     DEF PodMoves, JobStartsPod, JobCounts, JobDeadline, JobTTL, JobDeleted, JobCollected,
         DropJob, kubelet, worker
<1>10. CASE UNCHANGED vars
  BY <1>10 DEF vars, worker
<1> QED
  BY <1>1, <1>2, <1>3, <1>4, <1>5, <1>6, <1>7, <1>8, <1>9, <1>10 DEF Next, Reconcile, World

\* writeStarting follows the creation of the batch Job, and is left by its write.
LEMMA StartingSteps ==
  ASSUME TypeOK, pc' = "writeStarting", [Next]_vars
  PROVE  \/ createJob /\ ~job.live /\ op' = op
         \/ pc = "writeStarting" /\ op'.status = op.status
<1>1. CASE pc = "writeStarting"
  <2>1. ~(writeStatus \/ writeStarting)
    BY <1>1 DEF writeStatus, writeStarting
  <2> QED
    BY <1>1, <2>1, WriteSteps DEF Writing
<1>2. CASE pc # "writeStarting"
  <2>1. pc \in Found \/ getJob \/ createJob
    BY <1>2, EntrySteps
  <2>2. ~getJob
    BY DEF getJob
  <2>3. CASE createJob
    BY <2>3 DEF createJob, CreateFailed, ReturnError, Forget
  <2>4. CASE pc \in Found
    <3>1. CASE Reconcile
      BY <2>4, <3>1, WriteInst
         DEF Reconcile, Fetch, AddStartTime, AddLogsFinalizer, AddStatusFinalizer, AddFinalizer,
             handleFinalizersStop, collectLogs, removeFinalizer, handleTTL, getJob, createJob,
             writeStarting, updateJob, checkStatus, writeStatus, instanceSyncStatus, Found, Goto,
             Return, ReturnError, Forget
    <3>2. CASE ~Reconcile
      BY <1>2, <3>2
         DEF Next, World, Watch, WatchOp, WatchJob, mapPodToRequest, Resync, RequeueAfter, Crash,
             Forget, TTLPasses, UserDeletes, PodMoves, JobStartsPod, JobCounts, JobDeadline, JobTTL,
             JobDeleted, JobCollected, DropJob, kubelet, local, worker, vars
    <3> QED
      BY <3>1, <3>2
  <2> QED
    BY <2>1, <2>2, <2>3, <2>4
<1> QED
  BY <1>1, <1>2

\* While nothing has gone wrong the past was smooth as well.
LEMMA SmoothBefore ==
  ASSUME InductiveInv, Smooth', [Next]_vars
  PROVE  /\ Smooth /\ removals' = 0 /\ faults' = 0 /\ crashes' = 0 /\ op'.life # "gone"
         /\ ~Crash /\ ~Fail
         /\ op'.life = "live" => op.life = "live"
<1>1. TypeOK /\ removals' = 0 /\ faults' = 0 /\ crashes' = 0 /\ op'.life # "gone"
  BY DEF InductiveInv, Smooth
<1>2. removals = 0 /\ faults = 0 /\ crashes = 0
  BY <1>1, CountSteps
<1>3. ~Crash /\ ~Fail
  BY <1>1, <1>2 DEF Crash, Fail
<1> QED
  BY <1>1, <1>2, <1>3, OpSteps DEF Smooth

\* No condition is logged before the batch Job is there.
LEMMA NextJobFirst ==
  ASSUME InductiveInv, JobFirst, [Next]_vars
  PROVE  JobFirst'
<1> SUFFICES ASSUME Smooth'
             PROVE  /\ ~job'.live =>
                         /\ Blank(op'.status) /\ Blank(opCache'.status) /\ Blank(inst'.status)
                         /\ ~jobCache'.live
                         /\ pc' \notin Found \cup {"writeStarting"}
                    /\ pc' = "writeStarting" => op'.status.has = {}
  BY DEF JobFirst
<1>0. TypeOK
  BY DEF InductiveInv
<1>1. Smooth /\ removals' = 0 /\ op'.life # "gone" /\ ~Fail
  BY SmoothBefore
<1>2. ASSUME ~job'.live
      PROVE  /\ Blank(op'.status) /\ Blank(opCache'.status) /\ Blank(inst'.status)
             /\ ~jobCache'.live
             /\ pc' \notin Found \cup {"writeStarting"}
  <2>1. ~job.live
    BY <1>0, <1>1, <1>2, JobStays
  <2>2. /\ Blank(op.status) /\ Blank(opCache.status) /\ Blank(inst.status)
        /\ ~jobCache.live
        /\ pc \notin Found \cup {"writeStarting"}
    BY <1>1, <2>1 DEF JobFirst
  <2>3. pc' \notin Found \cup {"writeStarting"}
    <3>1. ASSUME getJob PROVE pc' = "createJob"
      <4>1. ~ShouldMarkJobAsDeleted(inst.status)
        <5>1. inst.status.last = NoCondition
          BY <2>2 DEF Blank
        <5>2. NoCondition.type = "None"
          BY DEF NoCondition
        <5> QED
          BY <5>1, <5>2 DEF ShouldMarkJobAsDeleted
      <4> QED
        BY <2>2, <3>1, <4>1 DEF getJob
    <3>2. ~createJob
      BY <1>1, <1>2, <2>1 DEF createJob, StoreJob
    <3> QED
      BY <2>2, <3>1, <3>2, EntrySteps DEF Found
  <2>4. Blank(op'.status)
    BY <2>2, OpStores DEF OpStep, Blank, Writing, Found
  <2>5. Blank(opCache'.status)
    BY <2>2, CacheSteps
  <2>6. Blank(inst'.status)
    <3>1. Blank(NewOp.status)
      BY DEF Blank, NewOp, NewStatus
    <3>2. pc' \notin Writing
      BY <2>3 DEF Writing, Found
    <3> QED
      BY <2>2, <2>4, <3>1, <3>2, InstSteps DEF InstStep
  <2>7. ~jobCache'.live
    BY <2>1, <2>2, CopySteps DEF CopyStep
  <2> QED
    BY <2>3, <2>4, <2>5, <2>6, <2>7
<1>3. ASSUME pc' = "writeStarting" PROVE op'.status.has = {}
  BY <1>0, <1>1, <1>3, StartingSteps DEF JobFirst, Blank
<1> QED
  BY <1>2, <1>3

\* The steps that neither report nor write a status.
LEMMA OtherSteps ==
  ASSUME [Next]_vars, ~instanceSyncStatus, ~handleFinalizersStop, ~writeStatus, ~writeStarting,
         ~Crash
  PROVE  /\ latest' = latest
         /\ pc' = "sync" <=> pc = "sync"
         /\ pc = "sync" => inst' = inst
<1>1. CASE Fetch
  BY <1>1, DispatchLabels DEF Fetch, plane, worker
<1>2. CASE AddStartTime
  BY <1>2, WriteInst, DispatchLabels DEF AddStartTime, Goto, plane
<1>3. CASE AddLogsFinalizer
  BY <1>3, WriteInst, DispatchLabels DEF AddLogsFinalizer, AddFinalizer, Goto, plane
<1>4. CASE AddStatusFinalizer
  BY <1>4, WriteInst, DispatchLabels DEF AddStatusFinalizer, AddFinalizer, Goto, plane
<1>5. CASE removeFinalizer
  BY <1>5, WriteInst DEF removeFinalizer, Goto, Return, Forget, plane
<1>6. CASE collectLogs \/ handleTTL \/ getJob \/ createJob \/ updateJob \/ checkStatus
  BY <1>6
     DEF collectLogs, AfterFinalizers, handleTTL, getJob, createJob, CreateFailed, updateJob,
         checkStatus, Goto, Return, ReturnError, Forget, plane
<1>7. CASE Watch \/ Resync \/ RequeueAfter \/ TTLPasses \/ UserDeletes
  BY <1>7
     DEF Watch, WatchOp, WatchJob, mapPodToRequest, Resync, RequeueAfter, TTLPasses, UserDeletes,
         local, worker, plane
<1>8. CASE PodMoves \/ JobStartsPod \/ JobCounts \/ JobDeadline \/ JobTTL \/ JobDeleted
            \/ JobCollected
  BY <1>8
     DEF PodMoves, JobStartsPod, JobCounts, JobDeadline, JobTTL, JobDeleted, JobCollected,
         DropJob, kubelet, worker, plane
<1>9. CASE UNCHANGED vars
  BY <1>9 DEF vars, worker, plane
<1> QED
  BY <1>1, <1>2, <1>3, <1>4, <1>5, <1>6, <1>7, <1>8, <1>9 DEF Next, Reconcile, World

\* What is stored is reported before anything else is.
LEMMA NextFollowed ==
  ASSUME ReportInv, FollowInv, [Next]_vars
  PROVE  Followed'
<1> SUFFICES ASSUME Smooth', op'.life = "live", op'.status.has # {}
             PROVE  IF pc' = "sync" THEN inst'.status.last = op'.status.last
                    ELSE latest' = op'.status.last.type
  BY DEF Followed
<1>0. InductiveInv /\ TypeOK
  BY DEF ReportInv, InductiveInv
<1>1. Smooth /\ op.life = "live" /\ ~Crash /\ ~Fail
  BY <1>0, SmoothBefore
<1>2. op.status.has # {} =>
        IF pc = "sync" THEN inst.status.last = op.status.last
        ELSE latest = op.status.last.type
  BY <1>1 DEF FollowInv, Followed
<1>3. CASE instanceSyncStatus
  <2>1. op' = op /\ pc = "sync" /\ pc' # "sync"
    BY <1>3 DEF instanceSyncStatus, Goto, Return, ReturnError, Forget, cluster
  <2>2. latest' = inst.status.last.type
    BY <1>1, <1>3 DEF instanceSyncStatus, syncStatus, Smooth
  <2> QED
    BY <1>2, <2>1, <2>2
<1>4. CASE handleFinalizersStop
  <2>1. inst.life = "deleting"
    BY <1>4 DEF handleFinalizersStop, ReportInv, StoppedPhase
  <2>2. op.life # "live"
    BY <2>1 DEF ReportInv, CopiesOlder, Older
  <2> QED
    BY <1>1, <2>2
<1>5. CASE writeStatus
  <2>1. \/ inst' = op' /\ pc' = "sync"
        \/ op' = op /\ pc' = "idle" /\ pc = "write" /\ latest' = latest
    BY <1>1, <1>5 DEF writeStatus, Write, Goto, ReturnError, Forget, cluster, plane
  <2> QED
    BY <1>2, <2>1
<1>6. CASE writeStarting
  <2>1. op.status.has = {}
    BY <1>1, <1>6 DEF writeStarting, FollowInv, JobFirst
  <2>2. (inst' = op' /\ pc' = "sync") \/ op' = op
    BY <1>1, <1>6 DEF writeStarting, cluster
  <2> QED
    BY <2>1, <2>2
<1>7. CASE ~(instanceSyncStatus \/ handleFinalizersStop \/ writeStatus \/ writeStarting)
  <2>1. /\ latest' = latest
        /\ pc' = "sync" <=> pc = "sync"
        /\ pc = "sync" => inst' = inst
    BY <1>1, <1>7, OtherSteps
  <2>2. op'.status.has = op.status.has /\ op'.status.last = op.status.last
    BY <1>0, <1>7, OpStores, WriteSteps DEF OpStep
  <2> QED
    BY <1>2, <2>1, <2>2
<1> QED
  BY <1>3, <1>4, <1>5, <1>6, <1>7

\* ReportIsCurrent: when the reconciler has nothing left to do and nothing has gone
\* wrong, the control plane knows the current status.
THEOREM ReportIsCurrentHolds == Spec => []ReportIsCurrent
<1>1. Init => FollowInv
  BY DEF Init, FollowInv, JobFirst, Followed, Blank, NewOp, NewStatus, NoJob, Found
<1>2. ReportInv /\ FollowInv /\ [Next]_vars => FollowInv'
  BY NextJobFirst, NextFollowed DEF FollowInv, ReportInv
<1>3. FollowInv => ReportIsCurrent
  BY DEF FollowInv, Followed, Smooth, ReportIsCurrent, Settled
<1> QED
  BY <1>1, <1>2, <1>3, ReportInvariance, PTL DEF Spec
=============================================================================
