-------------------------------- MODULE Kube --------------------------------
(***************************************************************************)
(* What the Service, KfJob and Cluster controllers stand on: the operation *)
(* resource and the resource it owns in the API server, the informer       *)
(* caches, the work queue with its delayed entries, and the control plane. *)
(* The owned resource is a Deployment, a Kubeflow job, a RayCluster or a   *)
(* DaskCluster; its status is whatever the controller's module says.       *)
(*                                                                         *)
(* A key is never reconciled twice at the same time, so a controller is    *)
(* one sequential process over one operation.  A step of it ends with at   *)
(* most one call to the API server, the control plane or a probe; what it  *)
(* reads from a cache before that call could as well be read with it, for  *)
(* a cache that moves in between is a cache that moved after the call.  An *)
(* update needs the stored resource version, and `current` keeps which     *)
(* copies have it.                                                         *)
(*                                                                         *)
(* A behaviour is one operation under one operator.  Its setup, which      *)
(* never changes, is what the specification of the operation says, what    *)
(* the environment of the operator says, and the bounds of this behaviour. *)
(***************************************************************************)
EXTENDS OperationStatus, Pods, FiniteSets

CONSTANT Setups  \* the setups of the operations that are looked at

ASSUME KubeSetups ==
  \A s \in Setups :
    /\ {s.EnableLogsFinalizers, s.EnableStatusFinalizers, s.SyncStatuses, s.CollectLogs,
        s.TTL, s.MayDelete, s.OrderedWatches} \subseteq BOOLEAN
    /\ {s.MaxFaults, s.MaxCrashes, s.MaxRemovals} \subseteq Nat

VARIABLES
  setup,       \* the setup of this operation
  op,          \* the operation: its life, finalizers and status
  opCache,     \* the controller's cached copy of op
  owned,       \* the owned resource: Nothing, or live with a status
  ownedCache,  \* its cached copy, of the controllers that read it from the cache
  pods,        \* the pods of the owned resource
  podCache,
  current,     \* the copies that have the stored resource version
  queued,      \* the key is in the work queue
  timer,       \* a RequeueAfter is pending
  expired,     \* the TTL of the finished operation has passed
  pc,          \* the controller's next step
  inst,        \* its copy of the operation
  found,       \* its copy of the owned resource
  then,        \* where it goes after reporting a status
  reported,    \* the final conditions the control plane has been told of
  latest,      \* the last condition it has been told of
  collected,   \* collectLogs has returned without an error
  held,        \* the finalizers the operation has ever had
  faults, crashes, removals

\* The environment of the operator: POLYAXON_ENABLE_LOGS_FINALIZERS,
\* POLYAXON_ENABLE_STATUS_FINALIZERS.
EnableLogsFinalizers == setup.EnableLogsFinalizers

EnableStatusFinalizers == setup.EnableStatusFinalizers

\* The user may delete the operation, at any moment.
MayDelete == setup.MayDelete

\* The operation: its statuses are reported to the control plane, its logs are
\* collected, and TTLSecondsAfterFinished is set and not reached at once.
SyncStatuses == setup.SyncStatuses

CollectLogs == setup.CollectLogs

TTL == setup.TTL

\* Restriction: the watch of the pods is never behind that of the owned resource,
\* and that one never behind that of the operation.
OrderedWatches == setup.OrderedWatches

\* Bounds: calls that fail or lose their answer, restarts of the operator,
\* deletions of the owned resource by others.
MaxFaults == setup.MaxFaults

MaxCrashes == setup.MaxCrashes

MaxRemovals == setup.MaxRemovals

cluster == <<op, owned, pods, held>>
caches  == <<opCache, ownedCache, podCache>>
worker  == <<pc, inst, found, then>>
plane   == <<reported, latest, collected>>

\* What no step of a reconciliation changes.
elsewhere == <<setup, caches, expired, crashes, removals>>

kubeVars == <<cluster, elsewhere, current, queued, timer, worker, plane, faults>>

Finalizers == {"logs", "status"}

Nothing == [live |-> FALSE]

Live(status) == [live |-> TRUE, status |-> status]

NewOp == [life |-> "live", fins |-> {}, status |-> NewStatus]

KubeInit ==
  /\ setup \in Setups
  /\ op = NewOp /\ opCache = NewOp
  /\ owned = Nothing /\ ownedCache = Nothing
  /\ pods = <<>> /\ podCache = <<>>
  /\ current = {"opCache", "ownedCache"}
  /\ queued = TRUE /\ timer = FALSE /\ expired = FALSE
  /\ pc = "idle" /\ inst = NewOp /\ found = Nothing /\ then = "done"
  /\ reported = {} /\ latest = "None" /\ collected = FALSE
  /\ held = {}
  /\ faults = 0 /\ crashes = 0 /\ removals = 0

(***************************************************************************)
(* How a reconciliation ends.  An error puts the key back into the queue.  *)
(* The locals are reset so that finished runs are the same state.          *)
(***************************************************************************)
Forget == pc' = "idle" /\ inst' = NewOp /\ found' = Nothing /\ then' = "done"

OpCopies == {"opCache", "inst"}

\* "ownedCache" is current when the watch of the owned resource has no event
\* left that its predicates let pass.
OwnedCopies == {"ownedCache", "found"}

\* The current copies after a step of the controller, which forgets its own at
\* the end.
Keep(copies) == current' = IF pc' = "idle" THEN copies \ {"inst", "found"} ELSE copies

Return == Forget /\ UNCHANGED queued

ReturnError == Forget /\ queued' = TRUE

Goto(label) == pc' = label /\ UNCHANGED <<found, then, queued>>

\* The next step writes the status `new`, to report it and go on to `next`.
Log(new, next) ==
  /\ inst' = [inst EXCEPT !.status = new]
  /\ pc' = "write" /\ then' = next
  /\ UNCHANGED <<found, queued>>

Fail == faults < MaxFaults /\ faults' = faults + 1

(***************************************************************************)
(* The operation in the API server.  An update that changes nothing stores *)
(* nothing; a resource that is being deleted goes with its last finalizer; *)
(* a delete has no precondition.                                           *)
(***************************************************************************)
Current == op.life # "gone" /\ "inst" \in current

Put(new) ==
  LET settled == IF new.life = "deleting" /\ new.fins = {}
                 THEN [new EXCEPT !.life = "gone"] ELSE new
  IN  /\ op' = settled
      /\ held' = held \cup new.fins
      /\ UNCHANGED <<owned, pods>>

Unchanged == IF op' = op THEN current ELSE current \ OpCopies

\* The controller writes its copy: accepted, accepted with the answer lost,
\* or refused.
Write(new, After) ==
  \/ Current /\ Put(new) /\ After /\ Keep(Unchanged \cup {"inst"}) /\ UNCHANGED faults
  \/ Current /\ Put(new) /\ ReturnError /\ Keep(Unchanged) /\ Fail
  \/ /\ \/ ~Current /\ UNCHANGED faults
        \/ Fail
     /\ ReturnError /\ Keep(current)
     /\ UNCHANGED cluster

\* Bug: the status is reported although the write was refused.
WriteStatusUnchecked(new, next) ==
  /\ IF Current THEN Put([inst EXCEPT !.status = new]) ELSE UNCHANGED cluster
  /\ inst' = [inst EXCEPT !.status = new]
  /\ pc' = "sync" /\ then' = next /\ UNCHANGED <<found, queued>>
  /\ Keep(IF Current THEN Unchanged \cup {"inst"} ELSE current) /\ UNCHANGED faults

\* Bug: the status is written and not reported.
WriteStatusQuietly(new, next) ==
  Write([inst EXCEPT !.status = new],
        CASE next = "done"    -> Return
          [] next = "requeue" -> ReturnError
          [] OTHER            -> inst' = op' /\ Goto(next))

\* The controller writes a new status, to report it and go on to `next`.
WriteStatus(new, next) ==
  Write([inst EXCEPT !.status = new],
        inst' = op' /\ pc' = "sync" /\ then' = next /\ UNCHANGED <<found, queued>>)

DeleteOp ==
  /\ op.life # "gone"
  /\ Put([op EXCEPT !.life = "deleting"])

\* The controller deletes the operation and is done, with or without a requeue
\* at a later time; the error of a failed call is returned.
Delete(requeue) ==
  \/ /\ DeleteOp /\ Return /\ Keep(Unchanged)
     /\ timer' = (timer \/ requeue) /\ UNCHANGED faults
  \/ DeleteOp /\ ReturnError /\ Keep(Unchanged) /\ Fail /\ UNCHANGED timer
  \/ /\ \/ op.life = "gone" /\ UNCHANGED faults
        \/ Fail
     /\ ReturnError /\ Keep(current) /\ UNCHANGED <<cluster, timer>>

(***************************************************************************)
(* The owned resource, as a controller reads, creates and updates it.      *)
(***************************************************************************)
\* The error of a failed Create is logged as a warning before it is returned.
CreateFailed(why) ==
  IF IsUpdated(inst.status, "Warning", why)
  THEN Log(LogWarning(inst.status, why), "error")
  ELSE ReturnError

\* A Create is accepted, accepted with the answer lost, or refused.
Create(status, After, why) ==
  /\ \/ /\ ~owned.live /\ owned' = Live(status)
        /\ After /\ Keep(current \ OwnedCopies) /\ UNCHANGED faults
     \/ /\ ~owned.live /\ owned' = Live(status)
        /\ CreateFailed(why) /\ Keep(current \ OwnedCopies) /\ Fail
     \/ /\ \/ owned.live /\ UNCHANGED faults
           \/ Fail
        /\ CreateFailed(why) /\ Keep(current) /\ UNCHANGED owned
  /\ UNCHANGED <<op, pods, held>>

\* The cached resource is found, and written back unless it is what it should be.
\* The Update changes nothing and is refused when the cache is stale.
UpdateOwned(next) ==
  /\ \/ found' = ownedCache /\ pc' = next /\ UNCHANGED <<inst, then, queued, faults>>
     \/ /\ \/ "ownedCache" \notin current /\ UNCHANGED faults
           \/ Fail
        /\ ReturnError
  /\ Keep(current)
  /\ UNCHANGED cluster

\* An unstructured resource is read live, not from the cache.  `found` may be
\* out of date when it is written back.
UpdateFound(next) ==
  /\ \/ "found" \in current /\ Goto(next) /\ UNCHANGED <<inst, faults>>
     \/ /\ \/ "found" \notin current /\ UNCHANGED faults
           \/ Fail
        /\ ReturnError
  /\ Keep(current)
  /\ UNCHANGED cluster

(***************************************************************************)
(* Reports to the control plane.                                           *)
(***************************************************************************)
syncStatus(type) ==
  \/ /\ IF SyncStatuses
        THEN reported' = reported \cup ({type} \cap FinalTypes) /\ latest' = type
        ELSE UNCHANGED <<reported, latest>>
     /\ UNCHANGED <<collected, faults>>
  \/ /\ SyncStatuses /\ Fail
     /\ UNCHANGED plane

(***************************************************************************)
(* The caches and the work queue.  A watch event updates a cache and, when *)
(* it passes the predicates of the watch, queues the key.                  *)
(***************************************************************************)
outside == <<setup, cluster, timer, expired, worker, plane, faults, crashes, removals>>

WatchOp ==
  /\ "opCache" \notin current
  /\ OrderedWatches => "ownedCache" \in current /\ podCache = pods
  /\ opCache' = op /\ current' = current \cup {"opCache"} /\ queued' = TRUE
  /\ UNCHANGED <<ownedCache, podCache, outside>>

WatchOwned ==
  /\ "ownedCache" \notin current
  /\ OrderedWatches => podCache = pods
  /\ ownedCache' = owned /\ current' = current \cup {"ownedCache"}
  /\ queued' = TRUE
  /\ UNCHANGED <<opCache, podCache, outside>>

\* The same of a controller that reads the owned resource live: there is no
\* copy to keep.
NotifyOwned ==
  /\ "ownedCache" \notin current
  /\ OrderedWatches => podCache = pods
  /\ current' = current \cup {"ownedCache"} /\ queued' = TRUE
  /\ UNCHANGED <<caches, outside>>

WatchPods ==
  /\ podCache # pods
  /\ podCache' = pods /\ queued' = TRUE
  /\ UNCHANGED <<opCache, ownedCache, current, outside>>

\* The informers replay what they hold every SyncPeriod (10 hours).
Resync ==
  /\ opCache.life # "gone" /\ ~queued
  /\ queued' = TRUE
  /\ UNCHANGED <<caches, current, outside>>

RequeueAfter(due) ==
  /\ timer /\ due
  /\ timer' = FALSE /\ queued' = TRUE
  /\ UNCHANGED <<cluster, elsewhere, current, worker, plane, faults>>

TTLPasses ==
  /\ TTL /\ op.status.completion /\ ~expired
  /\ expired' = TRUE
  /\ UNCHANGED <<setup, cluster, caches, crashes, removals, current, queued, timer,
                 worker, plane, faults>>

\* The operator restarts: memory is lost, the caches are listed afresh.
Crash ==
  /\ crashes < MaxCrashes
  /\ crashes' = crashes + 1
  /\ Forget
  /\ opCache' = op /\ ownedCache' = owned /\ podCache' = pods
  /\ current' = {"opCache", "ownedCache"}
  /\ queued' = TRUE /\ timer' = FALSE
  /\ UNCHANGED <<setup, cluster, expired, plane, faults, removals>>

(***************************************************************************)
(* The user, the garbage collector and whoever deletes the owned resource. *)
(***************************************************************************)
Settled ==
  /\ pc = "idle" /\ ~queued
  /\ {"opCache", "ownedCache"} \subseteq current /\ podCache = pods

Present == op.life # "gone"

UserDeletes ==
  /\ MayDelete /\ op.life = "live"
  /\ DeleteOp
  /\ current' = current \ OpCopies
  /\ UNCHANGED <<elsewhere, queued, timer, worker, plane, faults>>

\* What the controllers of the cluster leave alone.
operator == <<setup, op, held, caches, queued, timer, expired, worker, plane, faults, crashes>>

DropOwned ==
  /\ owned.live
  /\ owned' = Nothing /\ pods' = <<>>
  /\ current' = current \ OwnedCopies
  /\ UNCHANGED operator

OwnedDeleted ==
  /\ removals < MaxRemovals /\ removals' = removals + 1
  /\ DropOwned

OwnedCollected ==
  /\ op.life = "gone"
  /\ DropOwned /\ UNCHANGED removals

\* `heard` says whether the predicates of the watch let the event pass.
OwnedReports(status, heard) ==
  /\ owned.live /\ status # owned.status
  /\ owned' = Live(status)
  /\ current' = current \ (IF heard THEN OwnedCopies ELSE {"found"})
  /\ UNCHANGED <<pods, operator, removals>>

(***************************************************************************)
(* Pods as the kubelet reports them, and a cache that lists in any order.  *)
(***************************************************************************)
container(state, reason, code, lastCode, restarts) ==
  <<[name |-> "main", state |-> state, reason |-> reason, code |-> code,
     lastCode |-> lastCode, lastReason |-> "", restarts |-> restarts,
     ready |-> state = "running"]>>

podStatus(phase, conds, containers) ==
  [phase |-> phase, conds |-> conds, main |-> "main", inits |-> <<>>,
   containers |-> containers]

Orders(list) ==
  LET perms == {p \in [DOMAIN list -> DOMAIN list] :
                  \A i, j \in DOMAIN list : p[i] = p[j] => i = j}
  IN  {[i \in DOMAIN list |-> list[p[i]]] : p \in perms}
=============================================================================
