--------------------------- MODULE OperationStatus ---------------------------
(***************************************************************************)
(* The status of an operation (api/v1/condition.go, api/v1/status.go) as   *)
(* the controllers observe it.                                             *)
(*                                                                         *)
(* The code keeps an ordered list of conditions, one per type.  Everything *)
(* a controller asks of that list is which types it holds and which        *)
(* condition is the last one, so a status is summarised here by            *)
(*    has         the condition types in the list,                         *)
(*    last        the last condition, a type and the reason/message that   *)
(*                tells it from another condition of that type ("why"),    *)
(*    start       StartTime is set,                                        *)
(*    completion  CompletionTime is set.                                   *)
(* Module ConditionLog models the list itself and is checked to implement  *)
(* this summary.  Every condition the code logs has status True.           *)
(***************************************************************************)

ConditionTypes == {"Starting", "Running", "Warning", "Succeeded", "Failed", "Stopped"}

FinalTypes == {"Succeeded", "Failed", "Stopped"}

\* The reasons the controllers log: their own, those of the resource they own
\* and those read off its pods.
Reasons ==
  {"", "OperatorController", "OperatorCreateJob", "JobDeleted",
   "InvalidImageName", "ContainerFailure", "BackoffLimitExceeded", "DeadlineExceeded",
   "PodNotReady", "ExitCode", "PodFailed", "InitContainerImagePullBackOff",
   "ImagePullBackOff", "ContainersNotReady", "PodPending",
   "OperatorCreateDeployment", "OperatorCreateService", "ReplicasUnavailable",
   "OperatorCreateKfJob", "KfJobFailed", "KfJobRestarting",
   "OperatorCreateCluster", "ClusterDeleted", "Suspended", "ReplicaFailure",
   "Provisioning", "ClusterPending", "HealthChecking", "CrashLoopBackOff",
   "ClusterError"}

Condition == [type : ConditionTypes, why : Reasons]

\* The last condition of an empty list.
NoCondition == [type |-> "None", why |-> ""]

OperationStatusType ==
  [has : SUBSET ConditionTypes, last : Condition \cup {NoCondition},
   start : BOOLEAN, completion : BOOLEAN]

NewStatus ==
  [has |-> {}, last |-> NoCondition, start |-> FALSE, completion |-> FALSE]

NewOperationCondition(type, why) == [type |-> type, why |-> why]

\* Does logging a condition change the list?  An unchanged final condition
\* still counts as updated.
getOrUpdateOperationCondition(current, type, why) ==
  \/ current # NewOperationCondition(type, why)
  \/ type \in FinalTypes

\* logCondition moves the type to the end of the list.  When nothing changed
\* the last condition already is the new one, so one form covers both returns.
logCondition(status, type, why) ==
  [status EXCEPT !.has = @ \cup {type}, !.last = NewOperationCondition(type, why)]

\* What logCondition returns.
IsUpdated(status, type, why) ==
  getOrUpdateOperationCondition(status.last, type, why)

IsDone(status) == status.has \cap FinalTypes # {}

IsRunning(status) == status.last.type = "Running"

\* ShouldMarkJobAsDeleted's first result: an operation that is not done and
\* whose last condition is Running or Warning had a job before.
ShouldMarkJobAsDeleted(status) ==
  /\ ~IsDone(status)
  /\ status.last.type \in {"Running", "Warning"}

\* Bug: nothing is logged for an operation that starts.
LogStartingNothing(status) == status

LogStarting(status) == logCondition(status, "Starting", "OperatorController")

LogRunning(status) == logCondition(status, "Running", "OperatorController")

LogWarning(status, why) == logCondition(status, "Warning", why)

\* The three ways an operation ends.  Every caller of LogSucceeded and
\* LogFailed sets CompletionTime with the condition.
LogSucceeded(status) ==
  [logCondition(status, "Succeeded", "OperatorController") EXCEPT !.completion = TRUE]

LogFailed(status, why) ==
  [logCondition(status, "Failed", why) EXCEPT !.completion = TRUE]

LogStopped(status, why) == logCondition(status, "Stopped", why)

\* Bug: the end of the operation gets no CompletionTime.
MarkJobAsDeletedUntimed(status) == LogStopped(status, "JobDeleted")

MarkJobAsDeleted(status) ==
  [LogStopped(status, "JobDeleted") EXCEPT !.completion = TRUE]
=============================================================================
